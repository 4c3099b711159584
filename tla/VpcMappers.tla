------------------------------ MODULE VpcMappers ------------------------------
(***************************************************************************)
(* The mappers of aws_vpc.  "protected" is, but where it says otherwise,   *)
(* what belongs to the default VPC: a row of it that was deleted is        *)
(* written back.                                                           *)
(***************************************************************************)
EXTENDS Plans

\* deleteTags, then createTags.
updateTags == <<Clear({"tags"}), Set({"tags"})>>

(* AvailabilityZone: the cloud's alone.                                    *)

AvailabilityZoneEquals == {}
AvailabilityZoneRead == {"up"}
AvailabilityZoneCreate(s) == <<Erase>>
AvailabilityZoneUpdate(s) == <<>>
AvailabilityZoneDelete(s) == <<Keep>>

-----------------------------------------------------------------------------
(* Vpc.  Facts: "off": the attributes of the row are all false.            *)

VpcAttributes == {"enableDnsHostnames", "enableDnsSupport", "enableNetworkAddressUsageMetrics"}
VpcEquals == {"cidrBlock", "state", "isDefault", "tags", "dhcpOptions"} \cup VpcAttributes
vpcMapper == VpcEquals
VpcRead == {"making", "up"}
VpcReplaces(s) == s.diff \cap {"cidrBlock", "isDefault"} # {}

createVpc == <<Make({"cidrBlock", "tags"}), Poll>>
updateVpcAttribute == <<Set({"enableDnsHostnames"}), Set({"enableDnsSupport"}),
                        Set({"enableNetworkAddressUsageMetrics"})>>

\* Attributes that are all false are not sent, nor are those of a row that says
\* it is of a default VPC: the row takes what the cloud gave the VPC.
VpcCreate(s) ==
  createVpc
  \o When("off" \notin s.facts /\ "isDefault" \notin s.diff /\ s.diff \cap VpcAttributes # {},
          updateVpcAttribute)
  \o <<Get>> \o When("dhcpOptions" \in s.diff, <<Set({"dhcpOptions"})>>) \o <<Save>>

\* A VPC that is replaced is left to the next round.
VpcUpdate(s) ==
  <<Look>> \o
  IF "state" \in s.diff THEN <<Restore>>
  ELSE IF VpcReplaces(s) THEN Creating(VpcCreate(s)) \o <<Return>>
  ELSE When("tags" \in s.diff, updateTags)
       \o When(s.diff \cap VpcAttributes # {}, updateVpcAttribute)
       \o When("dhcpOptions" \in s.diff, <<Set({"dhcpOptions"})>>)

VpcDelete(s) == IF "protected" \in s.facts THEN <<Keep, Ask, Db>> ELSE <<Drop>>

\* Of a default VPC the attributes are not compared, and not read.
DefaultVpcEquals == VpcEquals \ VpcAttributes

-----------------------------------------------------------------------------
(* Subnet.  What it waits for is its VPC.                                  *)

SubnetEquals == {"cidrBlock", "availabilityZone", "vpc", "networkAcl"}
subnetMapper == SubnetEquals
SubnetRead == {"up"}

newSubnet(f, s) ==
  <<Make(f), Get>> \o When("networkAcl" \in s.diff, <<Ask, Set({"networkAcl"}), Get>>)
  \o <<Save>>

SubnetCreate(s) == <<Skip>> \o newSubnet({"cidrBlock", "availabilityZone", "vpc"}, s)

\* The entity takes the VPC its cloud record has: its new subnet is in the old
\* VPC, and its old subnet is left to the next round.
\* A network ACL is replaced in place; the cloud record is read again when it
\* has left the memo, and then has that ACL already.
SubnetUpdate(s) ==
  When(~s.has, <<Ask>>) \o
  IF s.diff = {"networkAcl"} /\ s.has THEN <<Ask, Set({"networkAcl"}), Forget, Get, Save>>
  ELSE Creating(newSubnet({"cidrBlock", "availabilityZone"}, s)) \o <<Get, Save>>

SubnetDelete(s) == IF "protected" \in s.facts THEN <<Keep>> ELSE <<Drop>>

-----------------------------------------------------------------------------
(* DhcpOptions.  Facts: "protected": a VPC uses them.                      *)

DhcpOptionsEquals == {"dhcpConfigurations", "tags"}
dhcpOptionsMapper == DhcpOptionsEquals
DhcpOptionsRead == {"up"}
DhcpOptionsCreate(s) == <<Make(DhcpOptionsEquals), Get, Save>>
DhcpOptionsUpdate(s) == <<Look, Restore>>

\* No other error is told.
DhcpOptionsDelete(s) ==
  IF "protected" \in s.facts THEN <<Ask, Keep>> ELSE Try(<<Drop>>, <<>>)

-----------------------------------------------------------------------------
(* ElasticIp.                                                              *)

ElasticIpEquals == {"publicIp", "tags"}
elasticIpMapper == ElasticIpEquals
ElasticIpRead == {"up"}
createElasticIp == <<Make({"tags"})>>
ElasticIpCreate(s) == createElasticIp \o <<Get, Save>>
ElasticIpUpdate(s) ==
  <<Look>> \o IF "tags" \in s.diff THEN updateTags \o <<Get, Save>> ELSE <<Restore>>
ElasticIpDelete(s) == <<Drop>>

-----------------------------------------------------------------------------
(* NatGateway.  What it waits for is its elastic IP.  Facts: "public": a   *)
(* public gateway of which the row names no elastic IP, and which gets one *)
(* of its own.                                                             *)

NatGatewayEquals == {"connectivityType", "elasticIp", "state", "subnet", "tags"}
natGatewayMapper == NatGatewayEquals
getNatGateways == {"up"}
NatGatewayRead == getNatGateways
NatGatewayReplaces(s) == s.diff \cap {"connectivityType", "elasticIp", "subnet"} # {}

createNatGateway == <<Make({"connectivityType", "elasticIp", "subnet", "tags"}), Poll>>
deleteNatGateway == <<Drop, Poll>>

NatGatewayCreate(s) ==
  (IF "public" \in s.facts THEN <<Ask, Get, Db>> ELSE <<Need>>)
  \o createNatGateway \o <<Get, Save>>

NatGatewayDelete(s) == deleteNatGateway

\* The old gateway goes first, for its elastic IP to be free.
NatGatewayUpdate(s) ==
  <<Look>> \o
  IF NatGatewayReplaces(s) THEN Deleting(NatGatewayDelete(s)) \o Creating(NatGatewayCreate(s))
                               \o <<Return>>
  ELSE IF "tags" \in s.diff THEN updateTags \o <<Get, Save>>
  ELSE <<Restore>>

-----------------------------------------------------------------------------
(* PeeringConnection.  What it waits for are its two VPCs.                 *)

PeeringConnectionEquals == {"requester", "accepter", "state", "tags"}
peeringConnectionMapper == PeeringConnectionEquals
PeeringConnectionRead == {"making", "up"}
PeeringConnectionReplaces(s) == s.diff \cap {"requester", "accepter"} # {}

\* Requested, then accepted.
waitForState == <<Poll>>
createPeeringConnection ==
  <<Make({"requester", "accepter", "tags"})>> \o waitForState \o <<Ask>> \o waitForState

createTwoWayRoutes == <<Ask, Ask, Ask>>

PeeringConnectionCreate(s) ==
  <<Need>> \o createPeeringConnection \o createTwoWayRoutes \o <<Get, Save>>

PeeringConnectionDelete(s) == <<Drop>>

PeeringConnectionUpdate(s) ==
  <<Look>> \o
  IF PeeringConnectionReplaces(s)
  THEN Creating(PeeringConnectionCreate(s)) \o Deleting(PeeringConnectionDelete(s))
       \o <<ReturnAny>>
  ELSE IF "tags" \in s.diff THEN updateTags
  ELSE When("state" \in s.diff, <<Restore>>)

-----------------------------------------------------------------------------
(* InternetGateway.  What it waits for is its VPC, but only to be attached *)
(* to it.                                                                  *)

InternetGatewayEquals == {"vpc", "tags"}
internetGatewayMapper == InternetGatewayEquals
InternetGatewayRead == {"up"}
createInternetGateway == <<Make({"tags"})>>
attachToVpc == Call(<<Skip, Set({"vpc"}), Ask>>)

\* A VPC that is not there yet stays in the row.
InternetGatewayCreate(s) ==
  createInternetGateway
  \o When("vpc" \in s.diff, attachToVpc) \o <<SaveBut({"vpc"})>>

\* Tags are not updated.
InternetGatewayUpdate(s) ==
  <<Look>> \o When("vpc" \in s.diff, <<Clear({"vpc"})>> \o attachToVpc)

InternetGatewayDelete(s) ==
  IF "protected" \in s.facts THEN <<Keep>> ELSE <<Clear({"vpc"}), Drop>>

-----------------------------------------------------------------------------
(* The endpoints.  What they wait for is their VPC.  Facts: "service":     *)
(* AWS knows none of the name.                                             *)

EndpointInterfaceEquals ==
  {"dnsNameRecordType", "policy", "state", "vpc", "subnets", "tags", "privateDnsEnabled"}
endpointInterfaceMapper == EndpointInterfaceEquals
getVpcEndpointInterfaces == {"up"}
EndpointInterfaceRead == getVpcEndpointInterfaces
EndpointInterfaceReplaces(s) == "vpc" \in s.diff
waitForEndpointAvailable == <<Poll>>
waitForEndpointDeleted == <<Poll>>

EndpointInterfaceCreate(s) ==
  IF "service" \in s.facts THEN <<Ask>>
  ELSE <<Ask, Need, Ask, Make(EndpointInterfaceEquals \ {"state"})>>
       \o waitForEndpointAvailable \o <<Get, Save>>

EndpointInterfaceDelete(s) == <<Drop>> \o waitForEndpointDeleted

\* Once the endpoint is available the row is not written.
EndpointInterfaceUpdate(s) ==
  LET set(f) == When(f \in s.diff, <<Set({f})>>)
      changes == {"policy", "subnets", "tags"}
  IN <<Look>> \o
     IF EndpointInterfaceReplaces(s)
     THEN Creating(EndpointInterfaceCreate(s)) \o Deleting(EndpointInterfaceDelete(s))
          \o <<Return>>
     ELSE set("policy") \o set("subnets") \o When("tags" \in s.diff, updateTags)
          \o IF s.diff \cap changes # {} THEN waitForEndpointAvailable ELSE <<Restore>>

EndpointGatewayEquals == {"service", "policy", "state", "vpc", "routeTableIds", "tags"}
endpointGatewayMapper == EndpointGatewayEquals
getVpcEndpointGateways == {"up"}
EndpointGatewayRead == getVpcEndpointGateways
EndpointGatewayReplaces(s) == s.diff \cap {"vpc", "service"} # {}

EndpointGatewayCreate(s) ==
  IF "service" \in s.facts THEN <<Ask>>
  ELSE <<Ask, Need, Ask, Make(EndpointGatewayEquals \ {"state"}), Get, Save>>

EndpointGatewayDelete(s) == <<Drop>>

EndpointGatewayUpdate(s) ==
  LET set(f) == When(f \in s.diff, <<Set({f})>>)
      changes == {"policy", "routeTableIds", "tags"}
  IN <<Look>> \o
     IF EndpointGatewayReplaces(s)
     THEN Creating(EndpointGatewayCreate(s)) \o Deleting(EndpointGatewayDelete(s))
          \o <<Return>>
     ELSE set("policy") \o set("routeTableIds") \o When("tags" \in s.diff, updateTags)
          \o IF s.diff \cap changes # {} THEN <<Get, Save>> ELSE <<Restore>>

-----------------------------------------------------------------------------
(* NetworkAcl.  What it waits for is its VPC.                              *)

NetworkAclEquals == {"vpc", "entries", "tags"}
networkAclMapper == NetworkAclEquals
NetworkAclRead == {"up"}
NetworkAclReplaces(s) == "vpc" \in s.diff

\* The calls for the entries do not say of which list: AWS refuses them.
NetworkAclCreate(s) ==
  <<Skip, Make({"vpc", "tags"})>> \o When("entries" \in s.diff, <<Refuse>>) \o <<Get, Save>>

NetworkAclDelete(s) == <<Drop>>

\* The entries are removed one by one, then made.
NetworkAclUpdate(s) ==
  <<Look>> \o
  IF NetworkAclReplaces(s) THEN Deleting(NetworkAclDelete(s)) \o Creating(NetworkAclCreate(s))
                               \o <<Return>>
  ELSE When("entries" \in s.diff, <<Clear({"entries"}), Set({"entries"})>>)
       \o When("tags" \in s.diff, updateTags) \o <<Get, Save>>

-----------------------------------------------------------------------------
(* RouteTable.                                                             *)

RouteTableEquals == {"vpc", "tags"}
routeTableMapper == RouteTableEquals
RouteTableRead == {"up"}
RouteTableReplaces(s) == "vpc" \in s.diff
createRouteTable == <<Make({"vpc", "tags"})>>
RouteTableCreate(s) == <<Need>> \o createRouteTable \o <<Save>>
RouteTableDelete(s) == <<DropAgain>>
RouteTableUpdate(s) ==
  <<Look>> \o
  IF RouteTableReplaces(s) THEN Deleting(RouteTableDelete(s)) \o Creating(RouteTableCreate(s))
                               \o <<Return>>
  ELSE <<Restore>>

-----------------------------------------------------------------------------
(* RouteTableAssociation.  What it waits for is its route table.           *)
(* "protected": the main one of its VPC.                                   *)

RouteTableAssociationEquals == {"routeTable", "isMain", "subnet", "vpc"}
routeTableAssociationMapper == RouteTableAssociationEquals
RouteTableAssociationRead == {"up"}

RouteTableAssociationCreate(s) ==
  IF "protected" \in s.facts THEN <<Erase>>
  ELSE <<Skip, Make(RouteTableAssociationEquals), Link>>

\* What says which association it is, the VPC of a main one and the subnet of
\* another, is restored; with anything else changed, the association of its
\* subnet or VPC becomes one with the row's route table.
RouteTableAssociationUpdate(s) ==
  LET fixed == IF "protected" \in s.facts THEN "vpc" ELSE "subnet" IN
  <<Look>> \o IF fixed \in s.diff THEN <<Restore>>
              ELSE <<Swap({"routeTable"}), Link>>

RouteTableAssociationDelete(s) ==
  IF "protected" \in s.facts THEN <<Ask, Db, Ask, Keep>> ELSE <<Drop>>

-----------------------------------------------------------------------------
(* Route.  What it waits for is its route table.  "protected": a route of  *)
(* the main route table of the default VPC; "local": the route AWS makes   *)
(* in every route table.                                                   *)

\* instanceOwnerId, which AWS adds to instanceId, is left out.
RouteEquals ==
  {"egressOnlyInternetGatewayId", "gatewayId", "instanceId", "natGatewayId",
   "transitGatewayId", "localGatewayId", "carrierGatewayId", "networkInterfaceId",
   "vpcPeeringConnectionId", "coreNetworkArn"}
createRoute == <<Make(RouteEquals)>>
deleteRoute == <<Drop>>
routeMapper == RouteEquals
RouteRead == {"up"}
RouteCreate(s) == IF "local" \in s.facts THEN <<>> ELSE <<Need>> \o createRoute

RouteUpdate(s) ==
  <<Look>> \o IF "local" \in s.facts THEN <<Restore>> ELSE deleteRoute \o createRoute

RouteDelete(s) ==
  IF "local" \in s.facts THEN <<>>
  ELSE <<Ask>> \o IF "protected" \in s.facts THEN <<Keep>> ELSE deleteRoute

-----------------------------------------------------------------------------
Vpcs == {"AvailabilityZone", "Vpc", "DefaultVpc", "Subnet", "DhcpOptions", "ElasticIp",
         "NatGateway", "PeeringConnection", "InternetGateway", "EndpointInterface",
         "EndpointGateway", "NetworkAcl", "RouteTable", "RouteTableAssociation", "Route"}

VpcTrait(m) ==
  CASE m = "AvailabilityZone" ->
         Trait(AvailabilityZoneEquals, {}, {}, "name", {}, AvailabilityZoneRead,
               {{"protected"}})
    [] m = "Vpc" ->
         Trait(VpcEquals, vpcMapper, {"state"}, "cloud", {"make"}, VpcRead, {{}, {"off"}})
    [] m = "DefaultVpc" ->
         Given(Trait(DefaultVpcEquals, DefaultVpcEquals, {"state"}, "cloud", {"make"}, VpcRead,
                     {{"protected"}}))
    [] m = "Subnet" ->
         Trait(SubnetEquals, subnetMapper, {}, "cloud", {}, SubnetRead,
               {{}, {"waits"}, {"protected"}})
    [] m = "DhcpOptions" ->
         Trait(DhcpOptionsEquals, dhcpOptionsMapper, {}, "cloud", {}, DhcpOptionsRead,
               {{}, {"protected"}})
    [] m = "ElasticIp" ->
         Trait(ElasticIpEquals, elasticIpMapper, {"publicIp"}, "cloud", {}, ElasticIpRead, {{}})
    [] m = "NatGateway" ->
         Trait(NatGatewayEquals, natGatewayMapper, {"state"}, "cloud", {"make", "drop"},
               NatGatewayRead, {{}, {"waits"}, {"public"}})
    [] m = "PeeringConnection" ->
         Omitting(Trait(PeeringConnectionEquals, peeringConnectionMapper, {"state"}, "cloud",
                        {"make"}, PeeringConnectionRead, {{}, {"waits"}}))
    [] m = "InternetGateway" ->
         Trait(InternetGatewayEquals, internetGatewayMapper, {}, "cloud", {},
               InternetGatewayRead, {{}, {"waits"}, {"protected"}})
    [] m = "EndpointInterface" ->
         Trait(EndpointInterfaceEquals, endpointInterfaceMapper, {"state"}, "cloud",
               {"make", "drop"}, EndpointInterfaceRead, {{}, {"waits"}, {"service"}})
    [] m = "EndpointGateway" ->
         Trait(EndpointGatewayEquals, endpointGatewayMapper, {"state"}, "cloud", {},
               EndpointGatewayRead, {{}, {"waits"}, {"service"}})
    [] m = "NetworkAcl" ->
         Trait(NetworkAclEquals, networkAclMapper, {}, "cloud", {}, NetworkAclRead,
               {{}, {"waits"}})
    [] m = "RouteTable" ->
         Trait(RouteTableEquals, routeTableMapper, {}, "cloud", {}, RouteTableRead,
               {{}, {"waits"}})
    [] m = "RouteTableAssociation" ->
         Trait(RouteTableAssociationEquals, routeTableAssociationMapper, {}, "cloud", {},
               RouteTableAssociationRead, {{}, {"waits"}, {"protected"}})
    [] m = "Route" ->
         Trait(RouteEquals, routeMapper, {}, "name", {}, RouteRead,
               {{}, {"waits"}, {"protected"}, {"local"}})

VpcPlan(m, call, s) ==
  CASE m = "AvailabilityZone" ->
         Pick(call, AvailabilityZoneCreate(s), AvailabilityZoneUpdate(s),
              AvailabilityZoneDelete(s))
    [] m \in {"Vpc", "DefaultVpc"} -> Pick(call, VpcCreate(s), VpcUpdate(s), VpcDelete(s))
    [] m = "Subnet" -> Pick(call, SubnetCreate(s), SubnetUpdate(s), SubnetDelete(s))
    [] m = "DhcpOptions" ->
         Pick(call, DhcpOptionsCreate(s), DhcpOptionsUpdate(s), DhcpOptionsDelete(s))
    [] m = "ElasticIp" -> Pick(call, ElasticIpCreate(s), ElasticIpUpdate(s), ElasticIpDelete(s))
    [] m = "NatGateway" ->
         Pick(call, NatGatewayCreate(s), NatGatewayUpdate(s), NatGatewayDelete(s))
    [] m = "PeeringConnection" ->
         Pick(call, PeeringConnectionCreate(s), PeeringConnectionUpdate(s),
              PeeringConnectionDelete(s))
    [] m = "InternetGateway" ->
         Pick(call, InternetGatewayCreate(s), InternetGatewayUpdate(s),
              InternetGatewayDelete(s))
    [] m = "EndpointInterface" ->
         Pick(call, EndpointInterfaceCreate(s), EndpointInterfaceUpdate(s),
              EndpointInterfaceDelete(s))
    [] m = "EndpointGateway" ->
         Pick(call, EndpointGatewayCreate(s), EndpointGatewayUpdate(s),
              EndpointGatewayDelete(s))
    [] m = "NetworkAcl" ->
         Pick(call, NetworkAclCreate(s), NetworkAclUpdate(s), NetworkAclDelete(s))
    [] m = "RouteTable" ->
         Pick(call, RouteTableCreate(s), RouteTableUpdate(s), RouteTableDelete(s))
    [] m = "RouteTableAssociation" ->
         Pick(call, RouteTableAssociationCreate(s), RouteTableAssociationUpdate(s),
              RouteTableAssociationDelete(s))
    [] m = "Route" -> Pick(call, RouteCreate(s), RouteUpdate(s), RouteDelete(s))
=============================================================================
