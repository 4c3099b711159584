----------------------------- MODULE CodeMappers -----------------------------
(***************************************************************************)
(* The mappers of aws_codebuild, aws_codedeploy and aws_codepipeline.      *)
(***************************************************************************)
EXTENDS Plans

(* CodebuildProject.                                                       *)

CodebuildProjectEquals ==
  {"arn", "buildSpec", "sourceLocation", "sourceVersion", "sourceType", "image",
   "serviceRole", "computeType", "privilegedMode", "environmentType"}
projectMapper == CodebuildProjectEquals
CodebuildProjectRead == {"up"}

\* The row gets its arn by the update that follows.
CodebuildProjectCreate(s) == <<Make(CodebuildProjectEquals \ {"arn"}), Return>>
CodebuildProjectDelete(s) == <<Drop>>
CodebuildProjectUpdate(s) ==
  <<Look>> \o
  IF s.diff = {"arn"} THEN <<Restore>>
  ELSE Deleting(CodebuildProjectDelete(s)) \o Creating(CodebuildProjectCreate(s))
       \o <<ReturnAny>>

(* CodebuildBuildList.  A row cannot start a build, and to remove it stops *)
(* the build first.  Facts: "running": the build is in progress.           *)

CodebuildBuildListEquals == {"project", "buildStatus", "startTime", "endTime"}
buildListMapper == CodebuildBuildListEquals
CodebuildBuildListRead == {"up"}
waitForBuildsToComplete == <<Poll>>
CodebuildBuildListCreate(s) == <<Erase>>
CodebuildBuildListUpdate(s) == <<Look, Restore>>
CodebuildBuildListDelete(s) ==
  When("running" \in s.facts, <<Ask>> \o waitForBuildsToComplete) \o <<Drop>>

(* SourceCredentialsList.                                                  *)

SourceCredentialsListEquals == {"authType", "sourceType"}
sourceCredentialsListMapper == SourceCredentialsListEquals
SourceCredentialsListRead == {"up"}
SourceCredentialsListCreate(s) == <<Erase>>
SourceCredentialsListUpdate(s) == <<Look, Restore>>
SourceCredentialsListDelete(s) == <<Drop>>

-----------------------------------------------------------------------------
(* CodedeployApplication.  The replacement is read back by its name alone, *)
(* which finds nothing: the handler throws after it has done its work.     *)

CodedeployApplicationEquals == {"computePlatform", "applicationId"}
applicationMapper == CodedeployApplicationEquals
CodedeployApplicationRead == {"up"}
CodedeployApplicationCreate(s) == <<Make({"computePlatform"}), SaveBut({"computePlatform"})>>
CodedeployApplicationDelete(s) == <<Drop>>
CodedeployApplicationUpdate(s) ==
  Deleting(CodedeployApplicationDelete(s)) \o Creating(CodedeployApplicationCreate(s))
  \o <<Break>>

(* CodedeployDeploymentGroup.                                              *)

CodedeployDeploymentGroupEquals ==
  {"deploymentConfigName", "deploymentGroupId", "role", "deploymentStyle", "ec2TagFilters"}
DeploymentGroupSettings_noRole ==
  CodedeployDeploymentGroupEquals \ {"deploymentGroupId", "role"}
DeploymentGroupSettings == CodedeployDeploymentGroupEquals \ {"deploymentGroupId"}
deploymentGroupMapper == CodedeployDeploymentGroupEquals
CodedeployDeploymentGroupRead == {"up"}
CodedeployDeploymentGroupCreate(s) == <<Make(DeploymentGroupSettings), Forget, Ask, Save>>

\* What is to restore the row is saved to the table of applications: the row
\* stays as it is, and only memory has the cloud's id.
CodedeployDeploymentGroupUpdate(s) ==
  <<Look>> \o
  IF "deploymentGroupId" \in s.diff THEN <<Db, Recall({})>>
  ELSE <<Set(DeploymentGroupSettings), Forget, Ask, Save>>
CodedeployDeploymentGroupDelete(s) == <<Drop>>

(* CodedeployDeployment.  To update one throws: it looks for the cloud     *)
(* record under a name no mapper has.                                      *)

CodedeployDeploymentEquals ==
  {"application", "deploymentGroup", "description", "externalId", "status", "location"}
deploymentMapper == CodedeployDeploymentEquals
CodedeployDeploymentRead == {"up"}
CodedeployDeploymentCreate(s) == <<Erase>>
CodedeployDeploymentUpdate(s) == <<Break>>
CodedeployDeploymentDelete(s) == <<Db, Db, Keep>>

-----------------------------------------------------------------------------
(* PipelineDeclaration.  Its equals compares stages with themselves, and   *)
(* an update takes back the role alone.                                    *)

PipelineDeclarationEquals == {"serviceRole", "artifactStore"}
pipelineDeclarationMapper == PipelineDeclarationEquals
PipelineDeclarationRead == {"up"}

\* Until its stages have succeeded; if they have not in time, nothing is returned.
waitForPipelineExecution == <<Get>>
PipelineDeclarationCreate(s) ==
  <<Make(PipelineDeclarationEquals)>> \o waitForPipelineExecution \o <<ReturnAny>>
PipelineDeclarationUpdate(s) == <<Look, SaveBut({"artifactStore"})>>
PipelineDeclarationDelete(s) == <<Drop>>

-----------------------------------------------------------------------------
Code ==
  {"CodebuildProject", "CodebuildBuildList", "SourceCredentialsList",
   "CodedeployApplication", "CodedeployDeploymentGroup", "CodedeployDeployment",
   "PipelineDeclaration"}

CodeTrait(m) ==
  CASE m = "CodebuildProject" ->
         Trait(CodebuildProjectEquals, projectMapper, {"arn"}, "name", {},
               CodebuildProjectRead, {{}})
    [] m = "CodebuildBuildList" ->
         Trait(CodebuildBuildListEquals, buildListMapper, {}, "cloud", {},
               CodebuildBuildListRead, {{}, {"running"}})
    [] m = "SourceCredentialsList" ->
         Trait(SourceCredentialsListEquals, sourceCredentialsListMapper, {}, "cloud", {},
               SourceCredentialsListRead, {{}})
    [] m = "CodedeployApplication" ->
         Trait(CodedeployApplicationEquals, applicationMapper, {"applicationId"}, "name", {},
               CodedeployApplicationRead, {{}})
    [] m = "CodedeployDeploymentGroup" ->
         Trait(CodedeployDeploymentGroupEquals, deploymentGroupMapper, {"deploymentGroupId"},
               "name", {}, CodedeployDeploymentGroupRead, {{}})
    [] m = "CodedeployDeployment" ->
         Trait(CodedeployDeploymentEquals, deploymentMapper, {}, "cloud", {},
               CodedeployDeploymentRead, {{"protected"}})
    [] m = "PipelineDeclaration" ->
         Trait(PipelineDeclarationEquals, pipelineDeclarationMapper, {}, "name", {},
               PipelineDeclarationRead, {{}})

CodePlan(m, call, s) ==
  CASE m = "CodebuildProject" ->
         Pick(call, CodebuildProjectCreate(s), CodebuildProjectUpdate(s),
              CodebuildProjectDelete(s))
    [] m = "CodebuildBuildList" ->
         Pick(call, CodebuildBuildListCreate(s), CodebuildBuildListUpdate(s),
              CodebuildBuildListDelete(s))
    [] m = "SourceCredentialsList" ->
         Pick(call, SourceCredentialsListCreate(s), SourceCredentialsListUpdate(s),
              SourceCredentialsListDelete(s))
    [] m = "CodedeployApplication" ->
         Pick(call, CodedeployApplicationCreate(s), CodedeployApplicationUpdate(s),
              CodedeployApplicationDelete(s))
    [] m = "CodedeployDeploymentGroup" ->
         Pick(call, CodedeployDeploymentGroupCreate(s), CodedeployDeploymentGroupUpdate(s),
              CodedeployDeploymentGroupDelete(s))
    [] m = "CodedeployDeployment" ->
         Pick(call, CodedeployDeploymentCreate(s), CodedeployDeploymentUpdate(s),
              CodedeployDeploymentDelete(s))
    [] m = "PipelineDeclaration" ->
         Pick(call, PipelineDeclarationCreate(s), PipelineDeclarationUpdate(s),
              PipelineDeclarationDelete(s))
=============================================================================
