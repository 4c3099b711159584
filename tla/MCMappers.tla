------------------------------ MODULE MCMappers ------------------------------
(***************************************************************************)
(* Every mapper of the modules, one entity of it at a time, through a      *)
(* commit.  What holds of the mappers holds with exceptions.  These are    *)
(* tables, one row per place in the code where a mapper does otherwise:    *)
(*   <<mapper, statement, fact or "any", columns>>                         *)
(* A row is about a statement that writes one of its columns, or about any *)
(* if it has none; "every" stands for a statement that writes them all.    *)
(***************************************************************************)
EXTENDS MapperRun, Ec2Mappers, SecurityMappers, ContainerMappers, VpcMappers, EdgeMappers,
        DataMappers, ServiceMappers, CodeMappers, AccountMappers

MapperNames ==
  Ec2 \cup Security \cup Containers \cup Vpcs \cup Edge \cup Data \cup Services \cup Code \cup
  Account
TraitTable == [m \in MapperNames |->
  CASE m \in Ec2 -> Ec2Trait(m)
    [] m \in Security -> SecurityTrait(m)
    [] m \in Containers -> ContainerTrait(m)
    [] m \in Vpcs -> VpcTrait(m)
    [] m \in Edge -> EdgeTrait(m)
    [] m \in Data -> DataTrait(m)
    [] m \in Services -> ServiceTrait(m)
    [] m \in Code -> CodeTrait(m)
    [] m \in Account -> AccountTrait(m)]
TraitOfMapper(m) == TraitTable[m]
PlanOfMapper(m, call, s) ==
  CASE m \in Ec2 -> Ec2Plan(m, call, s)
    [] m \in Security -> SecurityPlan(m, call, s)
    [] m \in Containers -> ContainerPlan(m, call, s)
    [] m \in Vpcs -> VpcPlan(m, call, s)
    [] m \in Edge -> EdgePlan(m, call, s)
    [] m \in Data -> DataPlan(m, call, s)
    [] m \in Services -> ServicePlan(m, call, s)
    [] m \in Code -> CodePlan(m, call, s)
    [] m \in Account -> AccountPlan(m, call, s)
ColumnNames == UNION {TraitOfMapper(m).equals : m \in MapperNames}
\* A column, all of them, or none; of a default VPC also what equals passes by.
Scenarios(m) ==
  LET e == TraitOfMapper(m).equals \cup IF m = "DefaultVpc" THEN VpcAttributes ELSE {}
  IN  {{}, e} \cup {{c} : c \in e}

\* The mappers are well-formed where nothing, one column or everything differs.
ASSUME MappersTyped == \A m \in Mapper : WellFormed(m, Scenario(m))

\* What AWS does not let go, the handlers leave alone.
ASSUME MappersLeaveBuiltIns == \A m \in Mapper : LeavesBuiltIns(m)

Live == {c \in Copy : cloud[c].stage \in {"making", "up"}}

Excepted(table) ==
  \E r \in table :
    /\ r[1] = subject.mapper /\ r[2] = subject.does /\ r[3] \in subject.facts \cup {"any"}
    /\ \/ r[4] = {} \/ r[4] \cap subject.intent # {}
       \/ "every" \in r[4] /\ subject.intent = Column

-----------------------------------------------------------------------------
(* The exceptions.                                                         *)

\* The handler's effect never makes the two sides equal, or it always throws.
NeverSettles == {
  <<"AccessKey", "update", "any", {"createDate"}>>,
  <<"Cluster", "insert", "exists", {}>>,
  <<"Cluster", "update", "exists", {"clusterName"}>>,
  <<"CodedeployDeployment", "update", "any", {}>>,
  <<"DBSubnetGroup", "update", "any", {"description"}>>,
  <<"Distribution", "remove", "busy", {}>>,
  <<"Domain", "insert", "any", {"dedicatedMasterCount"}>>,
  <<"Domain", "update", "any",
    {"autoTune", "dedicatedMasterCount", "securityGroups", "subnets", "version"}>>,
  <<"EndpointGateway", "insert", "service", {}>>,
  <<"EndpointGateway", "update", "service", {"service", "vpc"}>>,
  <<"EndpointInterface", "insert", "service", {}>>,
  <<"EndpointInterface", "update", "service", {"vpc"}>>,
  <<"GeneralPurposeVolume", "remove", "inUse", {}>>,
  <<"GeneralPurposeVolume", "update", "inUse", {"availabilityZone", "snapshotId"}>>,
  <<"GraphqlApi", "update", "any", {"tags"}>>,
  <<"InstanceBlockDeviceMapping", "update", "empty", {}>>,
  <<"InternetGateway", "update", "any", {"tags"}>>,
  <<"KeyPair", "update", "any", {"fingerprint", "keyPairId", "type"}>>,
  <<"Listener", "update", "plain", {"certificate", "sslPolicy"}>>,
  <<"MemoryDBCluster", "update", "any", {"port", "subnetGroup"}>>,
  <<"PipelineDeclaration", "update", "any", {"artifactStore"}>>,
  <<"RepositoryImage", "insert", "any", {}>>,
  <<"RepositoryImage", "update", "any", {}>>,
  <<"ResourceRecordSet", "update", "any", {}>>,
  <<"Route", "insert", "local", {}>>,
  <<"Route", "remove", "local", {}>>,
  <<"RouteTableAssociation", "update", "any", {"isMain", "vpc"}>>,
  <<"RouteTableAssociation", "update", "protected", {"subnet"}>>,
  <<"Secret", "insert", "any", {}>>,
  <<"SecurityGroupRule", "insert", "blank", {}>>,
  <<"SecurityGroupRule", "update", "blank", {}>>,
  <<"Subnet", "update", "protected", {"availabilityZone", "cidrBlock", "vpc"}>>,
  <<"Topic", "update", "empty", {"dataProtectionPolicy"}>>,
  <<"DefaultVpc", "update", "any", {"cidrBlock", "isDefault"}>>}

\* Not even a commit that fails: the two sides differ in turn.
Endless == {
  <<"DBSubnetGroup", "update", "any", {"subnets"}>>,
  <<"CodedeployDeploymentGroup", "update", "any", {"deploymentGroupId"}>>}

\* The same, once the call that reads what was made has failed: the row stays
\* without the identifier that an update cannot bring.
EndlessOnFailure == {<<"CodedeployDeploymentGroup", "insert", "any", {}>>}

\* The cloud keeps its own values of these columns, or the handler takes the
\* cloud's, or forgets to send them.
Overridden == {
  <<"Api", "update", "any", {"protocolType"}>>,
  <<"CacheCluster", "update", "any", {"engine"}>>,
  <<"CodebuildBuildList", "update", "any", {}>>,
  <<"DBCluster", "update", "any",
    {"engine", "masterUsername", "port", "publiclyAccessible", "storageEncrypted",
     "subnetGroup", "vpcSecurityGroups"}>>,
  <<"DBSubnetGroup", "update", "any", {"subnets"}>>,
  <<"DhcpOptions", "update", "any", {}>>,
  <<"Distribution", "update", "any", {"every"}>>,
  <<"DockerContainer", "insert", "illegal", {"state"}>>,
  <<"DockerContainer", "update", "illegal", {"state"}>>,
  <<"DynamoTable", "update", "any", {"primaryKey", "tableClass"}>>,
  <<"EndpointInterface", "update", "any", {"dnsNameRecordType", "privateDnsEnabled"}>>,
  <<"GeneralPurposeVolume", "insert", "gp2", {"iops", "throughput"}>>,
  <<"GeneralPurposeVolume", "update", "gp2", {"iops", "throughput"}>>,
  <<"IamRole", "update", "protected",
    {"assumeRolePolicyDocument", "attachedPoliciesArns", "description"}>>,
  <<"Instance", "insert", "any", {"state"}>>,
  <<"Instance", "update", "any", {"every"}>>,
  <<"KeyPair", "update", "any", {"publicKey"}>>,
  <<"LambdaFunction", "update", "any", {"architecture", "packageType"}>>,
  <<"Listener", "insert", "plain", {"certificate", "sslPolicy"}>>,
  <<"Listener", "update", "plain", {"every"}>>,
  <<"LoadBalancer", "insert", "any", {"attributes"}>>,
  <<"LoadBalancer", "update", "any", {"availabilityZones", "customerOwnedIpv4Pool"}>>,
  <<"MemoryDBCluster", "update", "illegal", {"nodeType"}>>,
  <<"MetricAlarm", "update", "any", {"every"}>>,
  <<"NetworkAcl", "update", "waits", {"vpc"}>>,
  <<"Package", "update", "any", {"description", "upgradable"}>>,
  <<"ParameterGroup", "insert", "any", {"parameters"}>>,
  <<"ParameterGroup", "update", "any", {"description", "family"}>>,
  <<"ParameterGroup", "update", "fixed", {"parameters"}>>,
  <<"PipelineDeclaration", "update", "any", {"serviceRole"}>>,
  <<"RDS", "update", "any",
    {"availabilityZone", "backupRetentionPeriod", "dbCluster", "engine", "masterUsername",
     "parameterGroup"}>>,
  <<"RDS", "update", "cluster", {}>>,
  <<"Route", "update", "local", {}>>,
  <<"RouteTable", "update", "any", {"tags"}>>,
  <<"RouteTableAssociation", "update", "any", {"subnet"}>>,
  <<"RouteTableAssociation", "update", "protected", {"vpc"}>>,
  <<"SecurityGroup", "insert", "exists", {"description", "groupName", "vpc"}>>,
  <<"SecurityGroup", "update", "exists", {"description", "groupName", "vpc"}>>,
  <<"SourceCredentialsList", "update", "any", {}>>,
  <<"Subnet", "update", "any", {"vpc"}>>,
  <<"SubnetGroup", "insert", "zones", {"subnets"}>>,
  <<"SubnetGroup", "update", "any", {"subnets"}>>,
  <<"Subscription", "update", "any", {}>>,
  <<"TaskDefinition", "update", "any",
    {"containerDefinitions", "cpuMemory", "executionRole", "family", "taskRole"}>>,
  <<"Topic", "insert", "fifo", {"dataProtectionPolicy"}>>,
  <<"Topic", "update", "any", {"fifoTopic"}>>,
  <<"Topic", "update", "empty", {}>>,
  <<"Topic", "update", "fifo", {"dataProtectionPolicy"}>>,
  <<"DefaultVpc", "update", "any", VpcAttributes>>,
  <<"Vpc", "insert", "any", {"isDefault"}>>,
  <<"Vpc", "insert", "off", VpcAttributes>>,
  <<"Vpc", "update", "any", {"isDefault"}>>}

\* Only the cloud, or an RPC, makes these: the commit takes the row out again.
Unmakable == {
  <<"AccessKey", "insert", "any", {}>>,
  <<"AvailabilityZone", "insert", "any", {}>>,
  <<"AwsRegions", "insert", "any", {}>>,
  <<"BucketObject", "insert", "any", {}>>,
  <<"Certificate", "insert", "any", {}>>,
  <<"CodebuildBuildList", "insert", "any", {}>>,
  <<"CodedeployDeployment", "insert", "any", {}>>,
  <<"KeyPair", "insert", "any", {}>>,
  <<"Package", "insert", "any", {}>>,
  <<"RouteTableAssociation", "insert", "protected", {}>>,
  <<"SourceCredentialsList", "insert", "any", {}>>,
  <<"Subscription", "insert", "any", {}>>}

\* The handler leaves a resource besides, or none: a key pair's new public key
\* is not imported, an RDS instance of a cluster is left to the cluster, a
\* security group under a name for the time being stays, revisions add up.
NotOne == {
  <<"KeyPair", "update", "any", {"publicKey"}>>,
  <<"RDS", "remove", "cluster", {}>>,
  <<"SecurityGroup", "update", "any", {}>>,
  <<"TaskDefinition", "insert", "exists", {}>>,
  <<"TaskDefinition", "update", "any", {}>>}

\* Once a call of these has failed, its repetition cannot succeed.
NotRepeatable == {
  <<"CacheCluster", "update", "any", {"nodeType", "numNodes"}>>,
  <<"DockerContainer", "update", "any", {}>>,
  <<"LoadBalancer", "update", "any", {"loadBalancerName", "loadBalancerType", "scheme", "vpc"}>>,
  <<"RDS", "insert", "any", {}>>,
  <<"SecurityGroup", "update", "any", {}>>,
  <<"Subnet", "update", "protected", {"networkAcl"}>>,
  <<"TaskDefinition", "insert", "exists", {}>>}

\* A call that fails makes these lose what the user wrote, silently.
LostOnFailure == {
  <<"BucketObject", "update", "any", {}>>,
  <<"DockerContainer", "update", "any", {"every"}>>,
  <<"IamRole", "insert", "protected", {"attachedPoliciesArns"}>>,
  <<"Package", "update", "any", {"installed"}>>,
  <<"RouteTableAssociation", "update", "protected", {}>>}

\* To replace a resource these delete the old one first, or (the last three) when a
\* call has failed: an object that one read of its bucket leaves out loses its row,
\* and the next read shows an object to delete.
DropsFirst == {
  <<"CacheCluster", "update", "any", {"nodeType", "numNodes"}>>,
  <<"Cluster", "update", "any", {"clusterName"}>>,
  <<"CodebuildProject", "update", "any", {}>>,
  <<"CodedeployApplication", "update", "any", {}>>,
  <<"DockerContainer", "update", "any", {}>>,
  <<"EndpointGateway", "update", "service", {"service", "vpc"}>>,
  <<"EndpointInterface", "update", "service", {"vpc"}>>,
  <<"Instance", "update", "any", {}>>,
  <<"KeyPair", "update", "any", {"publicKey"}>>,
  <<"Listener", "update", "any", {"loadBalancer"}>>,
  <<"LoadBalancer", "update", "any", {"loadBalancerName", "loadBalancerType", "scheme", "vpc"}>>,
  <<"NatGateway", "update", "any", {"connectivityType", "elasticIp", "subnet"}>>,
  <<"NetworkAcl", "update", "any", {"vpc"}>>,
  <<"Queue", "update", "any", {"fifoQueue", "name"}>>,
  <<"Route", "update", "any", {}>>,
  <<"RouteTable", "update", "any", {"vpc"}>>,
  <<"SecurityGroupRule", "update", "blank", {}>>,
  <<"Service", "update", "any",
    {"assignPublicIp", "cluster", "name", "securityGroups", "subnets", "targetGroup"}>>,
  <<"TargetGroup", "update", "any",
    {"ipAddressType", "port", "protocol", "protocolVersion", "targetGroupName", "targetType",
     "vpc"}>>,
  <<"RouteTableAssociation", "update", "any", {"isMain", "routeTable", "vpc"}>>,
  <<"SecurityGroup", "update", "any", {}>>,
  <<"BucketObject", "update", "any", {}>>}

-----------------------------------------------------------------------------
(* Properties.                                                             *)

Blameless == ~pass.refused /\ "waits" \notin subject.facts
Unfit == Excepted(NeverSettles \cup Endless)

\* Without failures every handler settles: apply brings the cloud and the row to
\* agree in columns that the mapper's equals compares (apply's loops end without
\* throwing), whatever the user wrote, but for the places in NeverSettles.
CommitSucceeds == Ended /\ faults = 0 /\ Blameless /\ ~Unfit => ~pass.failed

\* One call of the cloud that fails, times out or finds nothing never makes apply
\* fail: lazyLoader and apply's loops run the handler again, and what it has done
\* by then is not in its way, but for the places in NotRepeatable.  A read of
\* sync's that throws ends the commit.
OneFailureTolerated ==
  pass.phase = "done" /\ Blameless /\ ~Unfit /\ ~Excepted(NotRepeatable) => ~pass.failed

\* A resource has it of which the row is; or, where the full read may leave out a
\* resource, one whose row sync took for gone, and made again unless it still is
\* left out.
HasIntent ==
  IF Excepted(Unmakable) THEN ~row.there
  ELSE \E c \in stray \cup pass.missed \cup IF row.there THEN Of(row) ELSE {} :
         subject.intent \ Traits.own \subseteq cloud[c].new

\* A commit that says it succeeded has put what the user wrote into the cloud,
\* in every column the user changed: no handler saves the cloud's value over it
\* (db.update after cloud.read) or passes it by, but for the places in Overridden.
IntentKept ==
  Ended /\ ~pass.failed /\ ~pass.refused /\ subject.does # "remove"
     /\ ~Excepted(Overridden \cup IF faults = 0 THEN {} ELSE LostOnFailure)
  => HasIntent

\* A row is one resource: after a commit without failures there is exactly one
\* that was made from it, or none after its deletion, replacements included.
OneResource ==
  Ended /\ faults = 0 /\ ~pass.failed /\ ~Protected /\ ~Excepted(Unmakable \cup NotOne) =>
    Cardinality(Live) = IF subject.does = "remove" THEN 0 ELSE 1

\* A failure leaks at most one resource: a create that is run again after it
\* failed half-way makes one more only where the cloud picks the identifiers, and
\* what is to be deleted stays only where the full read has left it out.
LeaksBounded ==
  LET leaky == IF subject.does = "remove" THEN Traits.omits ELSE Traits.id = "cloud"
  IN  Ended /\ ~pass.failed /\ ~Excepted(NotOne) =>
        Cardinality(Live) <= (IF subject.does = "remove" /\ ~Protected THEN 0 ELSE 1)
                             + (IF leaky THEN faults ELSE 0)

\* While an update replaces a resource there is always one: the handler
\* (cloud.update) creates the new one before it deletes the old one, but for the
\* places in DropsFirst.
NeverWithout ==
  subject.does = "update" /\ ~Excepted(DropsFirst) => Live # {}

\* Every commit ends, as far as its handlers go: the counter of identical rounds
\* and the number of failures of apply's loops see every way of making no
\* progress, but for the places in Endless.
CommitEndsOrLoops == Excepted(Endless \cup EndlessOnFailure) \/ CommitEnds
=============================================================================
