--------------------------- MODULE SecurityMappers ---------------------------
(***************************************************************************)
(* The mappers of aws_security_group: security groups and their rules.     *)
(***************************************************************************)
EXTENDS Plans

(* SecurityGroup.  Facts: "protected": the default group of its VPC, of    *)
(* which the VPC is in the database; "noVpc": the row names no VPC;        *)
(* "vpc": the VPC of the group is what changed.                            *)

SecurityGroupEquals == {"description", "groupName", "ownerId", "vpc"}
sgMapper == SecurityGroupEquals
SecurityGroupRead == {"up"}

\* db.update looks the VPC up first.
SecurityGroupSave == <<Ask, Save>>

deleteDefaultSecurityGroupRule == <<Ask, Ask, Ask>>

\* The default group is taken as it is.  While the memo has none, its VPC not being
\* made yet, that throws.
AdoptDefault == <<Need, Adopt>>

sgCloudCreate(s, doNotSave) ==
  IF "protected" \in s.facts THEN AdoptDefault
  ELSE <<Need>> \o When("noVpc" \in s.facts, <<Ask, Db>>)
       \o (IF doNotSave THEN <<MakeAside({"description", "vpc"})>>
           ELSE <<Make({"description", "groupName", "vpc"})>>)
       \o Try(deleteDefaultSecurityGroupRule, <<>>)
       \o <<Get>> \o (IF doNotSave THEN <<Return>> ELSE SecurityGroupSave)

\* Deletes the interfaces in its way, if no instance uses them, but then not
\* the group.
deleteSecurityGroup == Try(<<Drop>>, <<Rethrow, Ask, Rethrow>>)

\* A group is replaced by a new one, with a name of its own if AWS refuses the
\* first; the old one is left to the next round.
SecurityGroupUpdate(s) ==
  IF "protected" \in s.facts
  THEN <<Look>> \o (IF "vpc" \in s.diff THEN <<Ask, Ask, Save>> ELSE <<Restore>>)
  ELSE Try(Creating(sgCloudCreate(s, FALSE)) \o <<ReturnAny>>, sgCloudCreate(s, TRUE))

SecurityGroupDelete(s) ==
  <<Ask>> \o IF "protected" \in s.facts THEN <<Ask, Keep>>
             ELSE deleteSecurityGroup \o <<Db>>

-----------------------------------------------------------------------------
(* SecurityGroupRule.  Facts: "illegal": neither protocol nor source, or a *)
(* source of another VPC; "blank": neither a range nor a source; "source": *)
(* a source and no protocol, which AWS expands into rules of their own.    *)

SecurityGroupRuleEquals ==
  {"isEgress", "ipProtocol", "fromPort", "toPort", "cidrIpv4", "cidrIpv6",
   "prefixListId", "description", "sourceSecurityGroup"}
sgrMapper == SecurityGroupRuleEquals
SecurityGroupRuleRead == {"up"}

SecurityGroupRuleCreate(s) ==
  <<Need>>
  \o IF "illegal" \in s.facts THEN <<Refuse>>
     ELSE When("blank" \notin s.facts,
            <<Make(SecurityGroupRuleEquals)>>
            \o When("source" \in s.facts, <<Ask, Db>>) \o <<Link>>)

\* A group that is gone took its rules with it.
SecurityGroupRuleDelete(s) == Try(<<Drop>>, <<Rethrow>>)

SecurityGroupRuleUpdate_deletesFirst(s) ==
  Deleting(SecurityGroupRuleDelete(s)) \o Creating(SecurityGroupRuleCreate(s))
SecurityGroupRuleUpdate(s) ==
  Creating(SecurityGroupRuleCreate(s)) \o Deleting(SecurityGroupRuleDelete(s))

-----------------------------------------------------------------------------
Security == {"SecurityGroup", "SecurityGroupRule"}

SecurityTrait(m) ==
  CASE m = "SecurityGroup" ->
         Trait(SecurityGroupEquals, sgMapper, {"ownerId"}, "unique", {}, SecurityGroupRead,
               {{}, {"waits"}, {"noVpc"}, {"protected", "exists"}})
    [] m = "SecurityGroupRule" ->
         Trait(SecurityGroupRuleEquals, sgrMapper, {}, "cloud", {}, SecurityGroupRuleRead,
               {{}, {"waits"}, {"illegal"}, {"blank"}, {"source"}})

SecurityPlan(m, call, s) ==
  CASE m = "SecurityGroup" ->
         Pick(call, sgCloudCreate(s, FALSE), SecurityGroupUpdate(s), SecurityGroupDelete(s))
    [] m = "SecurityGroupRule" ->
         Pick(call, SecurityGroupRuleCreate(s), SecurityGroupRuleUpdate(s),
              SecurityGroupRuleDelete(s))
=============================================================================
