----------------------------- MODULE DataMappers -----------------------------
(***************************************************************************)
(* The mappers of aws_rds, aws_memory_db, aws_elasticache, aws_dynamo and  *)
(* aws_opensearch.  All of them go by names the user chose.                *)
(***************************************************************************)
EXTENDS Plans

(* RDS.  What it waits for are its security groups.  Facts: "cluster": it  *)
(* is an instance of a cluster's; "guarded": deletion protection is on.    *)

RDSOwn == {"endpointAddr", "endpointPort", "endpointHostedZoneId", "arn"}
RDSEquals ==
  RDSOwn \cup
  {"engine", "engineVersion", "dbInstanceClass", "availabilityZone", "masterUserPassword",
   "masterUsername", "vpcSecurityGroups", "allocatedStorage", "backupRetentionPeriod",
   "parameterGroup", "dbCluster", "tags"}
\* A password is never read back.
rdsMapper == RDSEquals \ {"masterUserPassword"}
RDSRead == {"up"}

createDBInstance == <<Make(RDSEquals \ RDSOwn), Poll>>
updateDBInstance(f) == <<Set(f), Poll, Poll>>
deleteDBInstance == <<Drop, Poll>>
RDSModifiable ==
  {"dbInstanceClass", "engineVersion", "allocatedStorage", "masterUserPassword",
   "vpcSecurityGroups"}

RDSCreate(s) == <<Need>> \o createDBInstance \o <<Get, Ask, Db, Save>>

RDSUpdate(s) ==
  LET tags == "tags" \in s.diff
      modified == s.diff \cap RDSModifiable # {}
  IN <<Look>> \o
     IF "cluster" \in s.facts THEN <<Restore>>
     ELSE When(tags, <<Set({"tags"})>>)
          \o When(modified,
                  <<Need>> \o updateDBInstance(RDSModifiable \cup {"backupRetentionPeriod"}))
          \o IF tags \/ modified THEN <<Ask, Save>> ELSE <<Restore>>

RDSDelete(s) ==
  IF "guarded" \in s.facts THEN <<Refuse>>
  ELSE IF "cluster" \in s.facts THEN <<Ask, Keep>> ELSE deleteDBInstance

-----------------------------------------------------------------------------
(* DBCluster.  What it waits for are its security groups.  Facts: "fewer": *)
(* the row has some of the groups the cloud has, and no others.            *)

DBClusterFixed ==
  {"engine", "masterUsername", "publiclyAccessible", "storageEncrypted", "subnetGroup", "port",
   "arn"}
DBClusterEquals ==
  DBClusterFixed \cup
  {"allocatedStorage", "iops", "backupRetentionPeriod", "dbClusterInstanceClass",
   "deletionProtection", "engineVersion", "masterUserPassword", "vpcSecurityGroups", "tags"}
dbClusterMapper == DBClusterEquals \ {"masterUserPassword"}
DBClusterRead == {"making", "up", "leaving"}
createDBCluster == <<Make(DBClusterEquals \ {"arn"}), PollOrThrow>>
updateDBCluster(f) == <<Set(f), Poll>>
deleteDBCluster == <<Drop, PollOrThrow>>

DBClusterCreate(s) ==
  <<Need>> \o When("noPassword" \in s.facts, <<Refuse>>) \o createDBCluster \o <<Get, Save>>

DBClusterUpdate(s) ==
  <<Need, Look>> \o
  IF s.diff \cap DBClusterFixed # {} THEN <<Restore>>
  ELSE When("tags" \in s.diff, <<Set({"tags"})>>)
       \o updateDBCluster((DBClusterEquals \ DBClusterFixed)
            \ ({"tags"} \cup IF "fewer" \in s.facts THEN {} ELSE {"vpcSecurityGroups"}))
       \o <<Forget, Get, Save>>

DBClusterDelete(s) == IF "guarded" \in s.facts THEN <<Refuse>> ELSE deleteDBCluster

-----------------------------------------------------------------------------
(* ParameterGroup.  Facts: "protected": a default group; "fixed": none of  *)
(* the parameters that differ can be modified.                             *)

ParameterGroupEquals == {"arn", "family", "description", "parameters"}
parameterGroupMapper == ParameterGroupEquals
ParameterGroupRead == {"up"}
getParametersNotEqual(s) == "parameters" \in s.diff /\ "fixed" \notin s.facts
ParameterGroupCreate(s) == <<Make({"family", "description"}), Get, Save>>
ParameterGroupUpdate(s) ==
  <<Look>> \o
  IF getParametersNotEqual(s) THEN <<Set({"parameters"}), Ask, Save>> ELSE <<Restore>>
ParameterGroupDelete(s) == IF "protected" \in s.facts THEN <<Keep>> ELSE <<Drop>>

(* DBSubnetGroup.  An update sends the subnets the cloud has, and returns  *)
(* the memoized record without saving it.                                  *)

DBSubnetGroupEquals == {"arn", "description", "subnets"}
dbSubnetGroupMapper == DBSubnetGroupEquals
DBSubnetGroupRead == {"up"}
getSubnets == <<Ask>>
DBSubnetGroupCreate(s) == getSubnets \o <<Make({"description", "subnets"}), Get, Save>>
DBSubnetGroupUpdate(s) ==
  <<Look>> \o
  IF "arn" \in s.diff THEN <<Restore>>
  ELSE getSubnets \o <<Set({"description"}), Recall({})>>
DBSubnetGroupDelete(s) == <<Drop>>

-----------------------------------------------------------------------------
(* MemoryDBCluster.  What it waits for is its subnet group.  Facts:        *)
(* "illegal": the node type is not one the cluster can be scaled to.       *)

MemoryDBClusterReplaceable == {"port", "subnetGroup"}
MemoryDBClusterEquals ==
  MemoryDBClusterReplaceable
  \cup {"address", "arn", "description", "nodeType", "securityGroups", "status"}
memoryDBClusterMapper == MemoryDBClusterEquals
MemoryDBClusterRead == {"making", "up", "leaving"}
waitClusterUntil == <<Poll>>

MemoryDBClusterCreate(s) ==
  <<Need, Make(MemoryDBClusterEquals \ {"address", "arn", "status"})>>
  \o waitClusterUntil \o <<Get, Save>>
MemoryDBClusterDelete(s) == <<Drop>> \o waitClusterUntil

\* To replace it, it makes one of the same name before it deletes the other.
MemoryDBClusterUpdate(s) ==
  LET typed == "nodeType" \in s.diff /\ "illegal" \notin s.facts
      rest == s.diff \cap {"securityGroups", "description"} # {}
  IN IF s.diff \cap MemoryDBClusterReplaceable # {}
     THEN Creating(MemoryDBClusterCreate(s)) \o Deleting(MemoryDBClusterDelete(s))
          \o <<Return>>
     ELSE <<Look>>
          \o When("nodeType" \in s.diff, <<Ask>>)
          \o When(typed, <<Set({"nodeType"})>> \o waitClusterUntil)
          \o When(rest, <<Set({"securityGroups", "description"})>>)
          \o IF typed \/ rest THEN <<Get, Save>> ELSE <<Restore>>

(* SubnetGroup.  Facts: "fewer": the row has fewer subnets than the cloud. *)
(* A call refused for its zones is made again with the default subnets of  *)
(* those the error names: the group then is not what the row says.         *)

SubnetGroupEquals == {"description", "subnets"}
subnetGroupMapper == SubnetGroupEquals
SubnetGroupRead == {"up"}
getDefaultSubnets == <<Ask>>
handleSubnetGroupCreateOrUpdate(s, action, f) ==
  LET sent == IF "zones" \in s.facts THEN f \ {"subnets"} ELSE f
  IN When("zones" \in s.facts, getDefaultSubnets)
     \o IF action = "create" THEN <<Make(sent)>> ELSE <<Set(sent)>>

SubnetGroupCreate(s) ==
  getDefaultSubnets \o handleSubnetGroupCreateOrUpdate(s, "create", SubnetGroupEquals)
  \o <<Get, Save>>
SubnetGroupUpdate(s) ==
  LET subnets == "subnets" \in s.diff /\ "fewer" \in s.facts
      described == "description" \in s.diff
      update == handleSubnetGroupCreateOrUpdate(s, "update", SubnetGroupEquals)
  IN <<Look>> \o When(subnets, update) \o When(described, update)
     \o IF subnets \/ described THEN <<Get, Save>> ELSE <<Restore>>
SubnetGroupDelete(s) == <<Drop>>

-----------------------------------------------------------------------------
(* CacheCluster.  An update replaces it, but for one of the engine, whose  *)
(* row it restores in that column.                                         *)

CacheClusterEquals == {"engine", "nodeType", "numNodes"}
cacheClusterMapper == CacheClusterEquals
CacheClusterRead == {"making", "up"}
waitForClusterState == <<Poll>>
createCacheCluster == <<Make(CacheClusterEquals)>> \o waitForClusterState
CacheClusterCreate(s) == createCacheCluster \o <<Save>>
CacheClusterUpdate(s) ==
  <<Look>> \o
  IF "engine" \in s.diff THEN <<SaveBut({"nodeType", "numNodes"})>>
  ELSE <<Drop>> \o waitForClusterState \o createCacheCluster \o <<Save>>
CacheClusterDelete(s) == <<Drop>>

(* DynamoTable.                                                            *)

DynamoTableEquals == {"tableClass", "throughput", "tableId", "primaryKey", "createdAt"}
dynamoMapper == DynamoTableEquals
DynamoTableRead == {"making", "up", "leaving"}
DynamoTableCreate(s) ==
  <<Make({"tableClass", "throughput", "primaryKey"}), PollOrThrow, Save>>
DynamoTableUpdate(s) == <<Set({"throughput"}), PollOrThrow, Save>>
DynamoTableDelete(s) == <<Drop, PollOrThrow>>

-----------------------------------------------------------------------------
(* Domain.  What it is told of who may use it is not read back, and        *)
(* neither is kept in the row.                                             *)

DomainCredentials ==
  {"fineGrainedAccessControlMasterUsername", "fineGrainedAccessControlMasterPassword",
   "fineGrainedAccessControlUserArn"}
DomainCreatedWith ==
  {"version", "autoTune", "subnets", "securityGroups", "enableFineGrainedAccessControl"}
DomainEquals ==
  DomainCredentials \cup DomainCreatedWith \cup
  {"customEndpoint", "customEndpointCertificate", "availabilityZoneCount", "instanceType",
   "instanceCount", "ebsOptions", "warmInstanceType", "coldStorage", "dedicatedMasterType",
   "dedicatedMasterCount", "accessPolicy", "endpoint"}
domainMapper == DomainEquals \ (DomainCredentials \cup {"dedicatedMasterCount"})
DomainRead == {"making", "up"}
waitForUpdate == <<Poll>>

\* The row stays as the user wrote it, but for the endpoint; the entity in memory
\* is what the cloud has.
DomainCreate(s) ==
  <<Make(DomainEquals \ {"endpoint"})>> \o waitForUpdate
  \o <<Get, SaveBut(DomainEquals \ (DomainCredentials \cup {"endpoint"})), Return>>

\* What the domain is created with is sent no more, and stays in the row.
DomainUpdate(s) ==
  <<Look>>
  \o When("endpoint" \in s.diff, <<SaveBut(DomainEquals \ {"endpoint"})>>)
  \o <<Ask, Set(DomainEquals \ ({"version", "autoTune", "subnets", "securityGroups",
                                 "endpoint"}))>>
  \o waitForUpdate \o <<SaveBut(DomainEquals \ DomainCredentials)>>

DomainDelete(s) == <<Drop>>

-----------------------------------------------------------------------------
Data == {"RDS", "DBCluster", "ParameterGroup", "DBSubnetGroup", "MemoryDBCluster",
         "SubnetGroup", "CacheCluster", "DynamoTable", "Domain"}

DataTrait(m) ==
  LET slow == {"make", "drop"} IN
  CASE m = "RDS" ->
         Trait(RDSEquals, rdsMapper, RDSOwn, "name", slow, RDSRead,
               {{}, {"waits"}, {"cluster"}, {"guarded"}})
    [] m = "DBCluster" ->
         Trait(DBClusterEquals, dbClusterMapper, {"arn"}, "name", slow, DBClusterRead,
               {{}, {"waits"}, {"fewer"}, {"guarded"}, {"noPassword"}})
    [] m = "ParameterGroup" ->
         Trait(ParameterGroupEquals, parameterGroupMapper, {"arn"}, "name", {},
               ParameterGroupRead, {{}, {"protected"}, {"fixed"}})
    [] m = "DBSubnetGroup" ->
         Trait(DBSubnetGroupEquals, dbSubnetGroupMapper, {"arn"}, "name", {},
               DBSubnetGroupRead, {{}})
    [] m = "MemoryDBCluster" ->
         Trait(MemoryDBClusterEquals, memoryDBClusterMapper, {"address", "arn", "status"},
               "name", slow, MemoryDBClusterRead, {{}, {"waits"}, {"illegal"}})
    [] m = "SubnetGroup" ->
         Trait(SubnetGroupEquals, subnetGroupMapper, {}, "name", {}, SubnetGroupRead,
               {{}, {"fewer"}, {"zones"}})
    [] m = "CacheCluster" ->
         Trait(CacheClusterEquals, cacheClusterMapper, {}, "name", slow, CacheClusterRead, {{}})
    [] m = "DynamoTable" ->
         Trait(DynamoTableEquals, dynamoMapper, {"tableId", "createdAt"}, "name", slow,
               DynamoTableRead, {{}})
    [] m = "Domain" ->
         Trait(DomainEquals, domainMapper, {"endpoint"}, "name", slow, DomainRead, {{}})

DataPlan(m, call, s) ==
  CASE m = "RDS" -> Pick(call, RDSCreate(s), RDSUpdate(s), RDSDelete(s))
    [] m = "DBCluster" ->
         Pick(call, DBClusterCreate(s), DBClusterUpdate(s), DBClusterDelete(s))
    [] m = "ParameterGroup" ->
         Pick(call, ParameterGroupCreate(s), ParameterGroupUpdate(s), ParameterGroupDelete(s))
    [] m = "DBSubnetGroup" ->
         Pick(call, DBSubnetGroupCreate(s), DBSubnetGroupUpdate(s), DBSubnetGroupDelete(s))
    [] m = "MemoryDBCluster" ->
         Pick(call, MemoryDBClusterCreate(s), MemoryDBClusterUpdate(s),
              MemoryDBClusterDelete(s))
    [] m = "SubnetGroup" ->
         Pick(call, SubnetGroupCreate(s), SubnetGroupUpdate(s), SubnetGroupDelete(s))
    [] m = "CacheCluster" ->
         Pick(call, CacheClusterCreate(s), CacheClusterUpdate(s), CacheClusterDelete(s))
    [] m = "DynamoTable" ->
         Pick(call, DynamoTableCreate(s), DynamoTableUpdate(s), DynamoTableDelete(s))
    [] m = "Domain" -> Pick(call, DomainCreate(s), DomainUpdate(s), DomainDelete(s))
=============================================================================
