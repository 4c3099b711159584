----------------------------- MODULE EdgeMappers -----------------------------
(***************************************************************************)
(* The mappers of aws_elb, aws_route53 and aws_cloudfront: target groups,  *)
(* listeners, load balancers, hosted zones and their records, and          *)
(* distributions.                                                          *)
(***************************************************************************)
EXTENDS Plans

(* TargetGroup.  Facts: "noVpc": the row names no VPC, and the cloud's is  *)
(* the default one.                                                        *)

TargetGroupReplaceable ==
  {"targetGroupName", "targetType", "vpc", "port", "protocol", "ipAddressType",
   "protocolVersion"}
TargetGroupChecks ==
  {"healthCheckProtocol", "healthCheckPort", "healthCheckPath", "healthCheckEnabled",
   "healthCheckIntervalSeconds", "healthCheckTimeoutSeconds", "healthyThresholdCount",
   "unhealthyThresholdCount"}
TargetGroupEquals == TargetGroupReplaceable \cup TargetGroupChecks
targetGroupMapper == TargetGroupEquals
TargetGroupRead == {"up"}

TargetGroupCreate(s) == <<Ask, Make(TargetGroupEquals), Get, Save>>
TargetGroupDelete(s) == <<Drop>>

\* The cloud record has no id: to restore it makes a row of it, which may not
\* have the name of the row there is.  It then goes on.
restoreDefaultVpc(s) ==
  When("noVpc" \in s.facts /\ "vpc" \in s.diff,
       IF "targetGroupName" \in s.diff THEN <<Another>> ELSE <<Refuse>>)

TargetGroupUpdate(s) ==
  <<Look>> \o restoreDefaultVpc(s)
  \o IF s.diff \cap TargetGroupReplaceable # {}
     THEN Deleting(TargetGroupDelete(s)) \o Creating(TargetGroupCreate(s)) \o <<Return>>
     ELSE <<Set(TargetGroupChecks), Return>>

-----------------------------------------------------------------------------
(* Listener.  What it waits for are its load balancer and target group.    *)
(* Facts: "plain": it has no certificate; "illegal": its target group and  *)
(* its load balancer are in different regions.                             *)

ListenerEquals ==
  {"loadBalancer", "port", "protocol", "actionType", "targetGroup", "sslPolicy",
   "certificate"}
listenerMapper == ListenerEquals
ListenerRead == {"up"}

\* Without a certificate no policy is sent.
ListenerInput(s) ==
  IF "plain" \in s.facts THEN ListenerEquals \ {"sslPolicy", "certificate"} ELSE ListenerEquals

ListenerCreate(s) ==
  <<Need>> \o When("illegal" \in s.facts, <<Refuse>>)
  \o <<Make(ListenerInput(s)), Get, Save>>
ListenerDelete(s) == <<Drop>>

ListenerUpdate(s) ==
  <<Look>> \o
  IF "loadBalancer" \in s.diff
  THEN Deleting(ListenerDelete(s)) \o Creating(ListenerCreate(s)) \o <<ReturnAny>>
  ELSE <<Set(ListenerInput(s) \ {"loadBalancer"}), Return>>

-----------------------------------------------------------------------------
(* LoadBalancer.  What it waits for are its security groups.               *)

LoadBalancerReplaceable == {"loadBalancerName", "loadBalancerType", "scheme", "vpc"}
LoadBalancerSettings == {"ipAddressType", "subnets", "securityGroups", "attributes"}
LoadBalancerEquals ==
  LoadBalancerReplaceable \cup LoadBalancerSettings
  \cup {"availabilityZones", "canonicalHostedZoneId", "createdTime",
        "customerOwnedIpv4Pool", "dnsName", "state"}
loadBalancerMapper == LoadBalancerEquals
LoadBalancerRead == {"making", "up"}

\* Attributes are not among what it is created with, nor is its VPC, which its
\* subnets say.
createLoadBalancer ==
  <<Make({"loadBalancerName", "subnets", "scheme", "loadBalancerType", "ipAddressType",
          "customerOwnedIpv4Pool", "securityGroups", "availabilityZones", "vpc"}), Poll>>
deleteLoadBalancer == <<Drop, Poll, Poll>>

LoadBalancerCreate(s) == <<Ask, Need>> \o createLoadBalancer \o <<Get, Save>>
LoadBalancerDelete(s) == deleteLoadBalancer

LoadBalancerUpdate(s) ==
  LET set(f) == When(f \in s.diff, <<Set({f})>>) IN
  <<Look>> \o
  IF s.diff \cap LoadBalancerReplaceable # {}
  THEN Deleting(LoadBalancerDelete(s)) \o Creating(LoadBalancerCreate(s))
       \o When("attributes" \in s.diff, <<Set({"attributes"}), Get, Store>>) \o <<ReturnAny>>
  ELSE IF s.diff \cap LoadBalancerSettings # {}
       THEN set("ipAddressType") \o set("subnets") \o set("securityGroups")
            \o set("attributes") \o <<Get, Save>>
       ELSE <<Restore>>

-----------------------------------------------------------------------------
(* HostedZone.                                                             *)

HostedZoneEquals == {"domainName"}
hostedZoneMapper == HostedZoneEquals
HostedZoneRead == {"up"}
HostedZoneCreate(s) == <<Make(HostedZoneEquals), Get, Save>>
HostedZoneDelete(s) == <<Drop>>

\* A zone that is replaced is left to the next round; the rows of its records
\* become those of the new one.
HostedZoneUpdate(s) ==
  <<Look>> \o Creating(HostedZoneCreate(s)) \o <<Save, Db, Db, Ask, Db, Db>>

(* ResourceRecordSet.  What it waits for is its zone.  "protected": the    *)
(* records AWS makes with a zone.                                          *)

ResourceRecordSetEquals == {"ttl", "record", "loadBalancer", "evaluateTargetHealth"}
resourceRecordSetMapper == ResourceRecordSetEquals
aliasTargetMapper == {"loadBalancer", "evaluateTargetHealth"}
ResourceRecordSetRead == {"up"}
getRecord == <<Get>>
dbRecordToAwsObject == {"ttl", "record"} \cup aliasTargetMapper

ResourceRecordSetCreate(s) == <<Need, Make(dbRecordToAwsObject)>> \o getRecord \o <<Save>>
ResourceRecordSetDelete(s) ==
  IF "protected" \in s.facts THEN <<Keep>> ELSE <<Drop>>

\* There is a record of its name and type already: the create is refused.
ResourceRecordSetUpdate(s) ==
  Creating(ResourceRecordSetCreate(s)) \o <<Look>> \o Deleting(ResourceRecordSetDelete(s))
  \o <<Return>>

-----------------------------------------------------------------------------
(* Distribution.  Facts: "busy": not deployed yet; "enabled": it has to be *)
(* disabled before it may go.                                              *)

DistributionSettings ==
  {"callerReference", "comment", "enabled", "isIPV6Enabled", "webACLId",
   "defaultCacheBehavior", "origins"}
DistributionEquals == DistributionSettings \cup {"eTag", "status", "domainName"}
transformDefaultCacheBehavior == {"defaultCacheBehavior"}
distributionMapper == DistributionEquals
DistributionRead == {"making", "up"}

getDistributionConfigForUpdate == <<Ask>>
\* It waits no longer than thirty rounds, and goes on then all the same.
updateDistributionAndWait(f) == <<Set(f), Ask>>

DistributionCreate(s) == <<Make(DistributionSettings), PollOrThrow, Save>>

DistributionUpdate(s) ==
  <<Look>> \o
  IF s.diff \cap {"eTag", "status"} # {} THEN <<Restore>>
  ELSE getDistributionConfigForUpdate \o updateDistributionAndWait(DistributionSettings)
       \o <<Save>>

DistributionDelete(s) ==
  When("busy" \notin s.facts,
    <<Ask>>
    \o When("enabled" \in s.facts,
            getDistributionConfigForUpdate \o updateDistributionAndWait({}))
    \o <<Drop>>)

-----------------------------------------------------------------------------
Edge == {"TargetGroup", "Listener", "LoadBalancer", "HostedZone", "ResourceRecordSet",
         "Distribution"}

EdgeTrait(m) ==
  CASE m = "TargetGroup" ->
         Trait(TargetGroupEquals, targetGroupMapper, {}, "unique", {}, TargetGroupRead,
               {{}, {"noVpc"}})
    [] m = "Listener" ->
         Trait(ListenerEquals, listenerMapper, {}, "cloud", {}, ListenerRead,
               {{}, {"waits"}, {"plain"}, {"illegal"}})
    [] m = "LoadBalancer" ->
         Trait(LoadBalancerEquals, loadBalancerMapper,
               {"canonicalHostedZoneId", "createdTime", "dnsName", "state"}, "unique",
               {"make", "drop"}, LoadBalancerRead, {{}, {"waits"}})
    [] m = "HostedZone" ->
         Trait(HostedZoneEquals, hostedZoneMapper, {}, "cloud", {}, HostedZoneRead, {{}})
    [] m = "ResourceRecordSet" ->
         Omitting(Trait(ResourceRecordSetEquals, resourceRecordSetMapper, {}, "name", {},
                        ResourceRecordSetRead, {{}, {"waits"}, {"protected"}}))
    [] m = "Distribution" ->
         Trait(DistributionEquals, distributionMapper, {"eTag", "status", "domainName"},
               "cloud", {"make"}, DistributionRead, {{}, {"busy"}, {"enabled"}})

EdgePlan(m, call, s) ==
  CASE m = "TargetGroup" ->
         Pick(call, TargetGroupCreate(s), TargetGroupUpdate(s), TargetGroupDelete(s))
    [] m = "Listener" -> Pick(call, ListenerCreate(s), ListenerUpdate(s), ListenerDelete(s))
    [] m = "LoadBalancer" ->
         Pick(call, LoadBalancerCreate(s), LoadBalancerUpdate(s), LoadBalancerDelete(s))
    [] m = "HostedZone" ->
         Pick(call, HostedZoneCreate(s), HostedZoneUpdate(s), HostedZoneDelete(s))
    [] m = "ResourceRecordSet" ->
         Pick(call, ResourceRecordSetCreate(s), ResourceRecordSetUpdate(s),
              ResourceRecordSetDelete(s))
    [] m = "Distribution" ->
         Pick(call, DistributionCreate(s), DistributionUpdate(s), DistributionDelete(s))
=============================================================================
