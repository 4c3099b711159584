--------------------------- MODULE ContainerMappers ---------------------------
(***************************************************************************)
(* The mappers of aws_ecr, aws_ecs_fargate and ssh_docker: repositories,   *)
(* their policies and images, clusters, services, task definitions and     *)
(* containers.                                                             *)
(***************************************************************************)
EXTENDS Plans, Naturals

(* RepositoryImage: images are pushed to a repository by others.           *)

ImageEquals == {"registryId"}
repositoryImageMapper == ImageEquals
ImageRead == {"up"}
ImageCreate(s) == <<>>
ImageUpdate(s) == <<>>
ImageDelete(s) == <<Drop>>

-----------------------------------------------------------------------------
(* PublicRepository.                                                       *)

PublicRepositoryEquals == {"repositoryArn", "registryId", "repositoryUri", "createdAt"}
publicRepositoryMapper == PublicRepositoryEquals
PublicRepositoryRead == {"up"}
PublicRepositoryCreate(s) == <<Make({}), Get, Save>>
PublicRepositoryUpdate(s) == <<Look, Restore>>
PublicRepositoryDelete(s) == <<Drop>>

-----------------------------------------------------------------------------
(* Repository.                                                             *)

RepositoryEquals == PublicRepositoryEquals \cup {"imageTagMutability", "scanOnPush"}
repositoryMapper == RepositoryEquals
RepositoryRead == {"up"}
RepositoryCreate(s) == <<Make({"imageTagMutability", "scanOnPush"}), Get, Save>>
RepositoryDelete(s) == <<Drop>>

\* Each of the two settings has a call of its own, and a read after it.
RepositoryUpdate(s) ==
  LET set(f) == When(f \in s.diff, <<Set({f}), Get>>) IN
  set("imageTagMutability") \o set("scanOnPush")
  \o IF s.diff \cap {"imageTagMutability", "scanOnPush"} = {}
     THEN <<Look, Restore>> ELSE <<Save>>

-----------------------------------------------------------------------------
(* RepositoryPolicy.  What it refers to is the repository.                 *)

RepositoryPolicyEquals == {"registryId", "policy"}
repositoryPolicyMapper == RepositoryPolicyEquals
RepositoryPolicyRead == {"up"}
RepositoryPolicyCreate(s) == <<Need, Make({"policy"}), Ask, Save>>

\* A policy AWS refuses is only logged and the row restored, but to the cloud
\* record the create has given the policy.
RepositoryPolicyUpdate(s) ==
  <<Look>> \o
  IF "policy" \in s.diff
  THEN Try(Creating(<<Need, Set({"policy"}), Ask, Save>>), <<Restore>>)
  ELSE <<Restore>>

\* A repository that is gone took its policy with it.
RepositoryPolicyDelete(s) == Try(<<Drop>>, <<Rethrow>>)

-----------------------------------------------------------------------------
(* Cluster.  Facts: "waits": it has services, which deleting it deletes    *)
(* first; "protected": the inactive default cluster.                       *)

ClusterEquals == {"clusterName", "clusterStatus"}
clusterMapper == ClusterEquals
ClusterRead == {"up"}
ClusterReplaces(s) == "clusterName" \in s.diff
ClusterCreate(s) == <<Make({"clusterName"}), Get, Save>>

\* With services: deletes the first of them, and not the cluster.
deleteCluster == <<Ask, Skip, Ask, PollOrThrow, Drop>>

ClusterDelete(s) ==
  IF "protected" \in s.facts THEN <<Ask, Keep>> ELSE deleteCluster

ClusterUpdate(s) ==
  <<Look>> \o IF ClusterReplaces(s)
              THEN Deleting(ClusterDelete(s)) \o Creating(ClusterCreate(s)) \o <<Return>>
              ELSE <<Restore>>

-----------------------------------------------------------------------------
(* Service.  What it waits for is its task definition.                     *)

ServiceReplaceable ==
  {"name", "cluster", "assignPublicIp", "securityGroups", "subnets", "targetGroup"}
ServiceEquals == ServiceReplaceable \cup {"desiredCount", "task", "status"}
serviceMapper == ServiceEquals
ServiceRead == {"up", "leaving"}
ServiceReplaces(s) == s.diff \cap ServiceReplaceable # {}

ServiceCreate(s) ==
  <<Need, Make(ServiceReplaceable \cup {"desiredCount", "task"}), Get, Save>>

deleteServiceOnly == <<Drop, Poll>>

\* The service is scaled down to nothing before it is deleted.
ServiceDelete(s) == <<Ask>> \o deleteServiceOnly

ServiceUpdate(s) ==
  <<Look>> \o
  IF ServiceReplaces(s) THEN Deleting(ServiceDelete(s)) \o Creating(ServiceCreate(s)) \o <<Return>>
  ELSE IF s.diff \cap {"desiredCount", "task"} # {}
       THEN <<Set({"desiredCount", "task"}), Get, Save>>
       ELSE <<Restore>>

-----------------------------------------------------------------------------
(* TaskDefinition.  What it waits for are the repositories of its images;  *)
(* or, when it is to go, the end of the services that use it.  Facts:      *)
(* "empty": it has no containers; "protected": it is INACTIVE.             *)

containersEq == {"containerDefinitions"}
TaskDefinitionEquals ==
  {"cpuMemory", "executionRole", "family", "revision", "status", "taskRole"} \cup containersEq
containerDefinitionMapper == containersEq
taskDefinitionMapper == TaskDefinitionEquals
TaskDefinitionRead == {"up"}

TaskDefinitionCreate(s) ==
  <<Need>> \o When("empty" \in s.facts, <<Refuse>>)
  \o <<Make({"cpuMemory", "executionRole", "family", "taskRole", "containerDefinitions"}),
       Get, Save>>

\* A change makes a new revision, with a row of its own, and is undone.
TaskDefinitionUpdate(s) ==
  <<Look>> \o Call([i \in 1 .. Len(TaskDefinitionCreate(s)) |->
                      IF TaskDefinitionCreate(s)[i] = Save THEN Another
                      ELSE TaskDefinitionCreate(s)[i]])
  \o <<Restore>>

TaskDefinitionDelete(s) ==
  <<Ask, Need>> \o IF "protected" \in s.facts THEN <<Ask, Keep>> ELSE <<Drop>>

-----------------------------------------------------------------------------
(* DockerContainer (ssh_docker).  Facts: "illegal": a state containers     *)
(* cannot be put in.                                                       *)

DockerReplaceable ==
  {"name", "image", "env", "command", "entrypoint", "ports", "labels", "volumes",
   "mounts", "binds"}
DockerEquals == DockerReplaceable \cup {"created", "state"}
containerMapper == DockerEquals
DockerRead == {"up"}
DockerReplaces(s) == s.diff \cap DockerReplaceable # {}

\* The docker of the server, if it answers.
getDockerForServer == Get

\* The row keeps the state it asks for.
DockerCreate(s, save) ==
  <<getDockerForServer, Ask, Make(DockerReplaceable), Ask, save>>

\* A container may be stopped already.
DockerDelete(s) == <<Ask>> \o Try(<<Ask>>, <<Rethrow>>) \o <<Drop>>

\* The new container is not returned.
DockerUpdate(s) ==
  <<Look>> \o
  IF DockerReplaces(s) THEN Deleting(DockerDelete(s)) \o Creating(DockerCreate(s, Store))
  ELSE IF "state" \notin s.diff THEN <<Restore>>
  ELSE <<Ask>> \o IF "illegal" \in s.facts THEN <<Restore>> ELSE <<Set({"state"})>>

-----------------------------------------------------------------------------
Containers == {"RepositoryImage", "PublicRepository", "Repository", "RepositoryPolicy",
               "Cluster", "Service", "TaskDefinition", "DockerContainer"}

ContainerTrait(m) ==
  CASE m = "RepositoryImage" ->
         Omitting(Trait(ImageEquals, repositoryImageMapper, ImageEquals, "name", {}, ImageRead,
                        {{}}))
    [] m = "PublicRepository" ->
         Trait(PublicRepositoryEquals, publicRepositoryMapper, PublicRepositoryEquals,
               "name", {}, PublicRepositoryRead, {{}, {"exists"}})
    [] m = "Repository" ->
         Trait(RepositoryEquals, repositoryMapper, PublicRepositoryEquals,
               "name", {}, RepositoryRead, {{}, {"exists"}})
    [] m = "RepositoryPolicy" ->
         Omitting(Trait(RepositoryPolicyEquals, repositoryPolicyMapper, {"registryId"},
                        "name", {}, RepositoryPolicyRead, {{}, {"waits"}}))
    [] m = "Cluster" ->
         Trait(ClusterEquals, clusterMapper, {"clusterStatus"}, "unique", {}, ClusterRead,
               {{}, {"waits"}, {"protected", "exists"}})
    [] m = "Service" ->
         Omitting(Trait(ServiceEquals, serviceMapper, {"status"}, "unique", {"drop"}, ServiceRead,
                        {{}, {"waits"}}))
    [] m = "TaskDefinition" ->
         Trait(TaskDefinitionEquals, taskDefinitionMapper, {"revision", "status"}, "cloud",
               {}, TaskDefinitionRead, {{}, {"waits"}, {"empty"}, {"protected", "exists"}})
    [] m = "DockerContainer" ->
         Omitting(Trait(DockerEquals, containerMapper, {"created"}, "unique", {}, DockerRead,
                        {{}, {"illegal"}}))

ContainerPlan(m, call, s) ==
  CASE m = "RepositoryImage" -> Pick(call, ImageCreate(s), ImageUpdate(s), ImageDelete(s))
    [] m = "PublicRepository" ->
         Pick(call, PublicRepositoryCreate(s), PublicRepositoryUpdate(s),
              PublicRepositoryDelete(s))
    [] m = "Repository" ->
         Pick(call, RepositoryCreate(s), RepositoryUpdate(s), RepositoryDelete(s))
    [] m = "RepositoryPolicy" ->
         Pick(call, RepositoryPolicyCreate(s), RepositoryPolicyUpdate(s),
              RepositoryPolicyDelete(s))
    [] m = "Cluster" -> Pick(call, ClusterCreate(s), ClusterUpdate(s), ClusterDelete(s))
    [] m = "Service" -> Pick(call, ServiceCreate(s), ServiceUpdate(s), ServiceDelete(s))
    [] m = "TaskDefinition" ->
         Pick(call, TaskDefinitionCreate(s), TaskDefinitionUpdate(s), TaskDefinitionDelete(s))
    [] m = "DockerContainer" ->
         Pick(call, DockerCreate(s, SaveBut({"state"})), DockerUpdate(s), DockerDelete(s))
=============================================================================
