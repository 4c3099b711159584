---------------------------- MODULE AccountMappers ----------------------------
(***************************************************************************)
(* The mappers of aws_iam, aws_acm, aws_secrets_manager and ssh_apt, and   *)
(* the regions of aws_account.                                             *)
(***************************************************************************)
EXTENDS Plans

(* IamRole.  Facts: "protected": the role is one of AWS's own services;    *)
(* "ec2": it is, or was, for EC2 to assume, and has an instance profile.   *)

IamRoleEquals == {"arn", "description", "assumeRolePolicyDocument", "attachedPoliciesArns"}
roleMapper == IamRoleEquals
IamRoleRead == {"making", "up"}
attachRolePolicies == <<Set({"attachedPoliciesArns"})>>
detachRolePolicies == <<Clear({"attachedPoliciesArns"})>>
waitForAttachedRolePolicies == <<Ask>>
allowEc2Service(s) == "ec2" \in s.facts
InstanceProfile(s) == When(allowEc2Service(s), <<Ask, Ask>>)

IamRoleCreate(s) ==
  <<Make({"assumeRolePolicyDocument", "description"}), PollOrThrow>>
  \o attachRolePolicies \o waitForAttachedRolePolicies \o InstanceProfile(s)
  \o <<Get, Save>>

IamRoleUpdate(s) ==
  <<Look>> \o
  IF "protected" \in s.facts \/ s.diff \subseteq {"arn"} THEN <<Restore>>
  ELSE When("assumeRolePolicyDocument" \in s.diff,
            <<Set({"assumeRolePolicyDocument"})>> \o InstanceProfile(s))
       \o When("attachedPoliciesArns" \in s.diff,
               detachRolePolicies \o attachRolePolicies \o waitForAttachedRolePolicies)
       \o When("description" \in s.diff, <<Set({"description"})>>)
       \o <<Get, Save>>

IamRoleDelete(s) ==
  IF "protected" \in s.facts THEN <<Keep>>
  ELSE When(allowEc2Service(s), Try(<<Ask, Ask>>, <<Rethrow>>))
       \o detachRolePolicies \o waitForAttachedRolePolicies \o <<Drop>>

(* IamUser.                                                                *)

IamUserEquals == {"arn", "userId", "createDate", "path", "attachedPoliciesArns"}
userMapper == IamUserEquals
IamUserRead == {"making", "up"}
attachUserPolicies == <<Set({"attachedPoliciesArns"})>>
detachUserPolicies == <<Clear({"attachedPoliciesArns"})>>
waitForAttachedUserPolicies == <<Ask>>
deleteUserLoginProfile == Try(<<Ask, Ask>>, <<Rethrow>>)

IamUserCreate(s) ==
  <<Make({"path"}), PollOrThrow>>
  \o attachUserPolicies \o waitForAttachedUserPolicies \o <<Ask, Save>>
IamUserUpdate(s) ==
  <<Look>> \o When("path" \in s.diff, <<Set({"path"})>>)
  \o When("attachedPoliciesArns" \in s.diff,
          detachUserPolicies \o attachUserPolicies \o waitForAttachedUserPolicies)
  \o <<SaveBut({"path", "attachedPoliciesArns"})>>
IamUserDelete(s) ==
  detachUserPolicies \o waitForAttachedUserPolicies \o deleteUserLoginProfile \o <<Drop>>

(* AccessKey.  They are made by an RPC.  An update other than of the       *)
(* status saves the row as it is.                                          *)

AccessKeyEquals == {"createDate", "status"}
accessKeyMapper == AccessKeyEquals
AccessKeyRead == {"up"}
AccessKeyCreate(s) == <<Erase>>
AccessKeyUpdate(s) == When("status" \in s.diff, <<Set({"status"})>>) \o <<Db>>
AccessKeyDelete(s) == <<Drop>>

-----------------------------------------------------------------------------
(* Certificate.  They are made by RPCs.                                    *)

CertificateEquals ==
  {"certificateId", "certificateType", "domainName", "inUse", "renewalEligibility", "status",
   "tags"}
certificateMapper == CertificateEquals
CertificateRead == {"up"}
deleteCertificate == <<Drop, Ask>>
CertificateCreate(s) == <<Erase>>
CertificateUpdate(s) ==
  <<Look>> \o When("tags" \in s.diff, <<Clear({"tags"}), Set({"tags"})>>)
  \o <<SaveBut({"tags"})>>
CertificateDelete(s) == deleteCertificate

-----------------------------------------------------------------------------
(* Secret.  The value is never in the database or read back; a row that    *)
(* has one differs.  Without it there is nothing to make a secret of.      *)

SecretEquals == {"description", "versionId", "value"}
secretsMapper == {"description", "versionId"}
SecretRead == {"making", "up"}
getSecret == <<Ask>>
SecretCreate(s) ==
  When("value" \in s.diff, <<Make({"description", "value"})>> \o getSecret \o <<Save>>)
SecretUpdate(s) ==
  <<Look, Set({"description"} \cup (s.diff \cap {"value"}))>> \o getSecret \o <<Save>>
SecretDelete(s) == <<Drop>> \o getSecret

-----------------------------------------------------------------------------
(* AwsRegions.  The cloud's regions are given: nothing of them differs.    *)

AwsRegionsEquals == {}
AwsRegionsRead == {"up"}
AwsRegionsCreate(s) == <<Erase>>
AwsRegionsUpdate(s) == <<>>
AwsRegionsDelete(s) == <<Keep>>

-----------------------------------------------------------------------------
(* Package, of ssh_apt.  What apt answers is ignored, as it throws on any  *)
(* output to stderr: the row takes what the server then has installed.     *)

PackageEquals == {"description", "installed", "upgradable"}
PackageRead == {"up"}
PackageCreate(s) == <<Erase>>
PackageRestores(s) == s.diff \cap {"description", "upgradable"} # {}
PackageUpdate(s) ==
  <<Look>> \o (IF PackageRestores(s) THEN <<Restore>> ELSE Try(<<Set({"installed"})>>, <<>>))
  \o <<Forget, Ask, Save>>
PackageDelete(s) == <<Keep>>

-----------------------------------------------------------------------------
Account == {"IamRole", "IamUser", "AccessKey", "Certificate", "Secret", "AwsRegions", "Package"}

AccountTrait(m) ==
  CASE m = "IamRole" ->
         Trait(IamRoleEquals, roleMapper, {"arn"}, "name", {"make"}, IamRoleRead,
               {{}, {"protected"}, {"ec2"}})
    [] m = "IamUser" ->
         Trait(IamUserEquals, userMapper, {"arn", "userId", "createDate"}, "name", {"make"},
               IamUserRead, {{}})
    [] m = "AccessKey" ->
         Trait(AccessKeyEquals, accessKeyMapper, {"createDate"}, "cloud", {}, AccessKeyRead, {{}})
    [] m = "Certificate" ->
         Trait(CertificateEquals, certificateMapper, CertificateEquals \ {"tags"}, "cloud", {},
               CertificateRead, {{}})
    [] m = "Secret" ->
         Trait(SecretEquals, secretsMapper, {"versionId"}, "name", {"make"}, SecretRead, {{}})
    [] m = "AwsRegions" ->
         Trait(AwsRegionsEquals, AwsRegionsEquals, {}, "name", {}, AwsRegionsRead, {{"protected"}})
    [] m = "Package" ->
         Trait(PackageEquals, PackageEquals, {}, "name", {}, PackageRead, {{"protected"}})

AccountPlan(m, call, s) ==
  CASE m = "IamRole" -> Pick(call, IamRoleCreate(s), IamRoleUpdate(s), IamRoleDelete(s))
    [] m = "IamUser" -> Pick(call, IamUserCreate(s), IamUserUpdate(s), IamUserDelete(s))
    [] m = "AccessKey" -> Pick(call, AccessKeyCreate(s), AccessKeyUpdate(s), AccessKeyDelete(s))
    [] m = "Certificate" ->
         Pick(call, CertificateCreate(s), CertificateUpdate(s), CertificateDelete(s))
    [] m = "Secret" -> Pick(call, SecretCreate(s), SecretUpdate(s), SecretDelete(s))
    [] m = "AwsRegions" ->
         Pick(call, AwsRegionsCreate(s), AwsRegionsUpdate(s), AwsRegionsDelete(s))
    [] m = "Package" -> Pick(call, PackageCreate(s), PackageUpdate(s), PackageDelete(s))
=============================================================================
