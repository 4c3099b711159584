----------------------------- MODULE Ec2Mappers -----------------------------
(***************************************************************************)
(* The mappers of aws_ec2: instances, their volumes and what maps them,    *)
(* registered instances and key pairs.                                     *)
(***************************************************************************)
EXTENDS Plans

\* deleteTags, then createTags.
UpdateTags == <<Clear({"tags"}), Set({"tags"})>>

-----------------------------------------------------------------------------
(* Instance.  Facts: "group", "subnet": what it waits for is a security    *)
(* group or a subnet; "badDevice": a volume that does not fit the image;   *)
(* "hibernate": state is to become HIBERNATE; "illegal": state is to       *)
(* become what the cloud's cannot turn to.                                 *)

InstanceReplaceable ==
  {"instanceType", "userData", "keyPairName", "securityGroups", "role", "subnet",
   "hibernationEnabled"}

InstanceEquals == {"state", "tags"} \cup InstanceReplaceable
instanceMapper == InstanceEquals

\* Neither what is terminated nor what is about to be.
InstanceRead == {"making", "up"}

\* runInstances, and until it runs.
newInstance == <<Make(InstanceReplaceable \cup {"tags"}), Poll>>

startInstance == <<Set({"state"}), Poll>>
stopInstance == <<Set({"state"}), Poll>>

generateBlockDeviceMapping(s) ==
  <<Ask>> \o When("badDevice" \in s.facts, <<Refuse>>)

\* The volumes AWS makes for the instance are waited for and get their rows
\* before the instance is read back.
InstanceCreate(s) ==
  <<IF "group" \in s.facts THEN Skip ELSE Need, Ask, Ask>>
  \o generateBlockDeviceMapping(s) \o newInstance
  \o <<Db, Ask, Poll, Db, Get, Save>>

\* Deletes the rows of the volumes that go with it.
InstanceDelete(s) == <<Ask, DropAgain, PollOrThrow, Db>>

\* The state is changed in place, as are the tags.
InstanceTransition(s) ==
  IF "illegal" \in s.facts THEN <<Refuse>>
  ELSE IF "hibernate" \in s.facts THEN stopInstance \o <<Db>>
  ELSE startInstance

InstanceUpdate(s) ==
  <<Look>> \o
  IF s.diff \cap InstanceReplaceable = {}
  THEN When("tags" \in s.diff, UpdateTags)
       \o When("state" \in s.diff, InstanceTransition(s))
  ELSE Deleting(InstanceDelete(s)) \o <<Db>> \o Creating(InstanceCreate(s))
       \o <<Db, Ask, Db>> \o Deleting(InstanceDelete(s)) \o <<Return>>

-----------------------------------------------------------------------------
(* GeneralPurposeVolume.  Facts: "root": isRootDevice; "gp2": volumeType   *)
(* GP2; "inUse": attached to an instance.                                  *)

VolumeEquals ==
  {"availabilityZone", "iops", "size", "state", "throughput", "volumeType",
   "snapshotId", "tags"}

generalPurposeVolumeMapper == VolumeEquals

\* The statuses a full read asks for: available, in-use and error.
VolumeSeen == {"up"}

volumeWaiter == <<Poll>>
waitUntilModificationsComplete == <<Poll>>
createVolume(f) == <<Make(f)>> \o volumeWaiter
deleteVolume == <<Drop>> \o volumeWaiter
updateVolume(f) == <<Set(f)>> \o waitUntilModificationsComplete

\* GP2 volumes take no iops and no throughput.
VolumeSettings(s) ==
  {"size", "volumeType"} \cup IF "gp2" \in s.facts THEN {} ELSE {"iops", "throughput"}

VolumeCreate(s) ==
  When("root" \notin s.facts,
    createVolume(VolumeSettings(s) \cup {"availabilityZone", "snapshotId", "tags"})
    \o <<Get, Save, Ask, Db>>)

VolumeDelete(s) == When("inUse" \notin s.facts, Try(deleteVolume, <<>>))

VolumeReplaces(s) == ~s.has \/ s.diff \cap {"availabilityZone", "snapshotId"} # {}

\* The entity loses its volumeId, and with it its cloud record, before the new
\* volume is made; the old one goes at last.
VolumeUpdate(s) ==
  LET modifies == s.diff \cap {"iops", "size", "throughput", "volumeType"} # {}
      retags == "tags" \in s.diff
  IN IF VolumeReplaces(s)
     THEN <<Forget>> \o Call(Stored(VolumeCreate(s)))
          \o (IF s.has THEN Deleting(VolumeDelete(s)) ELSE <<Look>>) \o <<Return>>
     ELSE When(modifies, updateVolume(VolumeSettings(s)))
          \o When(retags, UpdateTags)
          \o IF modifies \/ retags THEN <<Get, Save>> ELSE <<Restore>>

-----------------------------------------------------------------------------
(* InstanceBlockDeviceMapping: a volume attached to an instance.  Facts:   *)
(* "empty": no volume; "attached": AWS attached it with the instance.      *)

\* deviceName is compared as well, and part of the identity.
MappingEquals == {"deleteOnTermination"}

instanceBlockDeviceMappingMapper == MappingEquals
MappingRead == {"making", "up", "leaving"}

waitUntilInUse == <<Poll>>
attachVolume == <<Make({})>> \o waitUntilInUse
detachVolume == <<Drop, Poll>>

\* An instance that is not there yet attaches its volumes itself.
MappingCreate(s) ==
  <<Skip>> \o When("empty" \in s.facts, <<Refuse>>)
  \o When("attached" \notin s.facts, attachVolume)

MappingDelete(s) == Try(detachVolume, <<>>)

MappingUpdate(s) ==
  When("empty" \notin s.facts, <<Look, Ask, Set({"deleteOnTermination"})>>)

-----------------------------------------------------------------------------
(* RegisteredInstance: an instance in a target group.  All its columns are *)
(* in its identity.                                                        *)

registeredInstanceMapper == {}
RegisteredInstanceRead == {"up"}
getRegisteredInstance == <<Ask>>
RegisteredInstanceCreate(s) == <<Need, Make({})>> \o getRegisteredInstance \o <<Save>>
RegisteredInstanceUpdate(s) == <<Refuse>>
RegisteredInstanceDelete(s) == <<Drop>>

-----------------------------------------------------------------------------
(* KeyPair.  Key pairs are made and imported by RPCs alone.                *)

KeyPairEquals == {"fingerprint", "keyPairId", "publicKey", "type"}
keyPairMapper == KeyPairEquals
KeyPairRead == {"up"}

KeyPairCreate(s) == <<Erase>>
KeyPairDelete(s) == <<Drop>>

\* What it writes to restore the row is the entity itself: Db changes nothing.
KeyPairUpdate(s) ==
  <<Look>> \o
  IF s.diff \cap {"fingerprint", "keyPairId", "type"} # {} THEN <<Db>>
  ELSE Deleting(KeyPairDelete(s)) \o Creating(KeyPairCreate(s))

-----------------------------------------------------------------------------
Ec2 == {"Instance", "GeneralPurposeVolume", "InstanceBlockDeviceMapping",
        "RegisteredInstance", "KeyPair"}

Ec2Trait(m) ==
  CASE m = "Instance" ->
         Trait(InstanceEquals, instanceMapper, {}, "cloud", {"make", "drop"}, InstanceRead,
               {{}, {"waits"}, {"waits", "group"}, {"badDevice"}, {"hibernate"}, {"illegal"}})
    [] m = "GeneralPurposeVolume" ->
         Trait(VolumeEquals, generalPurposeVolumeMapper, {"state"}, "cloud", {"make", "drop"},
               VolumeSeen, {{}, {"gp2"}, {"inUse"}})
    [] m = "InstanceBlockDeviceMapping" ->
         Trait(MappingEquals, instanceBlockDeviceMappingMapper, {}, "name", {"make", "drop"},
               MappingRead, {{}, {"waits"}, {"empty"}})
    [] m = "RegisteredInstance" ->
         Trait({}, registeredInstanceMapper, {}, "name", {}, RegisteredInstanceRead,
               {{}, {"waits"}})
    [] m = "KeyPair" ->
         Trait(KeyPairEquals, keyPairMapper, {"fingerprint", "keyPairId", "type"}, "name", {},
               KeyPairRead, {{}})

Ec2Plan(m, call, s) ==
  CASE m = "Instance" ->
         Pick(call, InstanceCreate(s), InstanceUpdate(s), InstanceDelete(s))
    [] m = "GeneralPurposeVolume" ->
         Pick(call, VolumeCreate(s), VolumeUpdate(s), VolumeDelete(s))
    [] m = "InstanceBlockDeviceMapping" ->
         Pick(call, MappingCreate(s), MappingUpdate(s), MappingDelete(s))
    [] m = "RegisteredInstance" ->
         Pick(call, RegisteredInstanceCreate(s), RegisteredInstanceUpdate(s),
              RegisteredInstanceDelete(s))
    [] m = "KeyPair" -> Pick(call, KeyPairCreate(s), KeyPairUpdate(s), KeyPairDelete(s))
=============================================================================
