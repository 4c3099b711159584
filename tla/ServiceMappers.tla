---------------------------- MODULE ServiceMappers ----------------------------
(***************************************************************************)
(* The mappers of aws_lambda, aws_sqs, aws_sns, aws_s3, aws_cloudwatch,    *)
(* aws_api_gateway and aws_appsync.                                        *)
(***************************************************************************)
EXTENDS Plans

(* LambdaFunction.  What it waits for is its role.  Facts: "noCode": the   *)
(* row has no code.                                                        *)

updateableFunctionFields ==
  {"role", "handler", "memorySize", "description", "environment", "runtime"}
updateableTags == {"tags"}
updateableVpcConfigFields == {"securityGroups", "subnets"}
restorableFunctionFields == {"arn", "packageType", "architecture", "version"}
updateableCodeFields == {"zipB64"}
LambdaFunctionEquals ==
  updateableFunctionFields \cup updateableTags \cup updateableVpcConfigFields
  \cup restorableFunctionFields \cup updateableCodeFields
\* The code is not read back.
lambdaFunctionMapper == LambdaFunctionEquals \ updateableCodeFields
LambdaFunctionRead == {"making", "up"}
deleteNetworkInterface == <<Ask>>

LambdaFunctionCreate(s) ==
  <<Skip>> \o When("noCode" \in s.facts, <<Refuse>>)
  \o <<Make(LambdaFunctionEquals \ {"arn", "version"}), PollOrThrow, Set({"tags"}), Ask, Save>>

LambdaFunctionUpdate(s) ==
  LET differs(f) == s.diff \cap f # {}
      configuration == updateableFunctionFields \cup updateableVpcConfigFields
  IN <<Look>>
     \o When(differs(updateableFunctionFields), <<Set(configuration), PollOrThrow>>)
     \o When(differs(updateableVpcConfigFields),
             <<Set(configuration), PollOrThrow>> \o deleteNetworkInterface)
     \o When(differs(updateableCodeFields),
             <<Set(updateableCodeFields \cup {"architecture"}), PollOrThrow>>)
     \o When(differs(updateableTags), <<Clear({"tags"}), Set({"tags"})>>)
     \o <<Get, Save>>

LambdaFunctionDelete(s) ==
  Try(<<Clear(updateableVpcConfigFields), PollOrThrow>>, <<>>) \o <<Drop>> \o deleteNetworkInterface

-----------------------------------------------------------------------------
(* Queue.  A queue whose name ends other than with .fifo is not a fifo     *)
(* queue.  One may be made a minute after one of its name was deleted.     *)

QueueEquals ==
  {"name", "fifoQueue", "visibilityTimeout", "delaySeconds", "receiveMessageWaitTimeSeconds",
   "messageRetentionPeriod", "maximumMessageSize", "policy"}
queueMapper == QueueEquals
QueueRead == {"up"}
generateDefaultPolicy == <<Ask>>
createAttributesObject_noDelay == QueueEquals \ {"name", "delaySeconds"}
createAttributesObject == QueueEquals \ {"name"}
creationWaiter == <<Poll>>

QueueCreate_strict(s) ==
  generateDefaultPolicy \o <<Make(QueueEquals)>> \o creationWaiter \o <<Ask, Link>>
QueueCreate(s) ==
  generateDefaultPolicy \o <<MakeOnce(QueueEquals)>> \o creationWaiter \o <<Ask, Link>>
QueueDelete(s) == <<Drop>>
QueueReplaces(s) == s.diff \cap {"name", "fifoQueue"} # {}

\* The one that was made is not returned, but create changed the entity itself.
QueueUpdate(s) ==
  <<Look>> \o
  IF QueueReplaces(s)
  THEN Deleting(QueueDelete(s))
       \o When("name" \notin s.diff, <<Poll>>)
       \o Creating(QueueCreate(s))
  ELSE <<Set(createAttributesObject)>>

-----------------------------------------------------------------------------
(* Topic.  Facts: "fifo": a fifo topic; "empty": the columns of the row    *)
(* that differ are empty.                                                  *)

attributeKeys ==
  {"contentBasedDeduplication", "deliveryPolicy", "displayName", "kmsMasterKeyId", "policy",
   "signatureVersion", "tracingConfig"}
TopicEquals == attributeKeys \cup {"fifoTopic", "dataProtectionPolicy"}
topicMapper == TopicEquals
TopicRead == {"up"}

TopicCreate(s) ==
  <<Make(IF "fifo" \in s.facts THEN TopicEquals \ {"dataProtectionPolicy"} ELSE TopicEquals), Link>>

\* The first attribute that is empty in the row restores the row; what differs
\* and is not, the topic gets.
TopicUpdate(s) ==
  LET attributes == attributeKeys \cap s.diff
      policy == "dataProtectionPolicy" \in s.diff
  IN <<Look>> \o
     IF "fifoTopic" \in s.diff \/ ("fifo" \in s.facts /\ policy) THEN <<Restore>>
     ELSE IF "empty" \in s.facts THEN When(attributes # {}, <<Restore>>)
     ELSE When(policy, <<Set({"dataProtectionPolicy"})>>)
          \o When(attributes # {}, <<Set(attributes)>>)
          \o When(policy \/ attributes # {}, <<Ask, Save>>)

TopicDelete(s) == <<Drop>>

(* Subscription.  They can be neither made nor deleted through their rows. *)

SubscriptionEquals == {"endpoint", "protocol"}
subscriptionMapper == SubscriptionEquals
SubscriptionRead == {"up"}
SubscriptionCreate(s) == <<Erase>>
SubscriptionUpdate(s) == <<Look, Restore>>
SubscriptionDelete(s) == <<Keep>>

-----------------------------------------------------------------------------
(* Bucket.  What its deletion waits for is that of its objects.            *)

BucketEquals == {"createdAt", "policy", "tags"}
bucketMapper == BucketEquals
BucketRead == {"up"}
setBucketTags == <<Set({"tags"})>>
createBucketPolicy == <<Set({"policy"})>> \o Try(<<Ask>>, <<>>) \o <<SaveBut({"policy", "tags"})>>

\* A bucket of its name in another region does not stop it: what it throws then
\* it catches itself.  Policy and tags are left to the update that follows.
BucketCreate(s) == Try(<<Ask>>, <<>>) \o <<Make({})>>

BucketUpdates(s) == s.diff \cap {"policy", "tags"} # {}
BucketUpdate(s) ==
  <<Look>> \o
  IF ~BucketUpdates(s) THEN <<Restore>>
  ELSE <<Recall({"policy", "tags"})>> \o When("policy" \in s.diff, createBucketPolicy)
       \o When("tags" \in s.diff, setBucketTags)

BucketDelete(s) == <<Need, Drop>>

(* BucketObject.  They are made by an RPC, not through their rows.         *)

BucketObjectEquals == {"eTag"}
bucketObjectMapper == BucketObjectEquals
BucketObjectRead == {"up"}
BucketObjectCreate(s) == <<Erase>>
BucketObjectUpdate(s) == <<Look, Restore>>
BucketObjectDelete(s) == <<Drop, PollOrThrow>>

(* BucketWebsite and PublicAccessBlock: settings of a bucket, which the    *)
(* cloud refuses while there is no bucket.                                 *)

BucketWebsiteEquals == {"indexDocument", "errorDocument"}
bucketWebsiteMapper == BucketWebsiteEquals
BucketWebsiteRead == {"up"}
BucketWebsiteCreate(s) == <<Need, Make(BucketWebsiteEquals)>>
BucketWebsiteUpdate(s) == <<Set(BucketWebsiteEquals)>>
BucketWebsiteDelete(s) == <<Drop>>

PublicAccessBlockEquals ==
  {"blockPublicAcls", "ignorePublicAcls", "blockPublicPolicy", "restrictPublicBuckets"}
publicAccessBlockMapper == PublicAccessBlockEquals
PublicAccessBlockRead == {"up"}
savePublicAccessBlock == PublicAccessBlockEquals
PublicAccessBlockCreate(s) == <<Need, Make(savePublicAccessBlock)>>
PublicAccessBlockUpdate(s) == <<Set(savePublicAccessBlock)>>
PublicAccessBlockDelete(s) == <<Drop>>

-----------------------------------------------------------------------------
(* LogGroup.                                                               *)

LogGroupEquals == {"logGroupArn", "creationTime"}
logGroupMapper == LogGroupEquals
LogGroupRead == {"up"}
LogGroupCreate(s) == <<Make({}), Get, Save>>
LogGroupUpdate(s) == <<Look, Restore>>
LogGroupDelete(s) == <<Drop>>

(* MetricAlarm.  A row has no alarmArn until the update that follows its   *)
(* creation restores the row.                                              *)

MetricAlarmEquals ==
  {"actionsEnabled", "alarmDescription", "comparisonOperator", "datapointsToAlarm",
   "dimensions", "evaluateLowSampleCountPercentile", "evaluationPeriods",
   "extendedStatistic", "insufficientDataActions", "metricName", "metrics", "namespace",
   "okActions", "period", "statistic", "threshold", "thresholdMetricId", "treatMissingData",
   "alarmArn"}
metricAlarmMapper == MetricAlarmEquals
MetricAlarmRead == {"up"}
MetricAlarmCreate(s) == <<Make(MetricAlarmEquals \ {"alarmArn"})>>
MetricAlarmUpdate(s) ==
  <<Look>> \o
  IF "alarmArn" \in s.diff THEN <<Restore>> ELSE <<Set(MetricAlarmEquals \ {"alarmArn"})>>
MetricAlarmDelete(s) == <<Drop>>

-----------------------------------------------------------------------------
(* Api.                                                                    *)

ApiEquals ==
  {"description", "disableExecuteApiEndpoint", "protocolType", "version", "name", "tags"}
apiMapper == ApiEquals
ApiRead == {"up"}
tagAndWait == <<Set({"tags"}), Ask>>
untagAndWait == <<Clear({"tags"}), Ask>>
ApiCreate(s) ==
  <<Make(ApiEquals \ {"tags"})>> \o tagAndWait \o <<Get, SaveBut({"name"})>>
ApiUpdate(s) ==
  <<Look>> \o
  IF "protocolType" \in s.diff THEN <<Restore>>
  ELSE <<Set(ApiEquals \ {"tags", "protocolType"})>>
       \o When("tags" \in s.diff, untagAndWait \o tagAndWait)
       \o <<Forget, Get, SaveBut({"name", "tags"})>>
ApiDelete(s) == <<Drop>>

(* GraphqlApi.                                                             *)

GraphqlApiConfig ==
  {"authenticationType", "lambdaAuthorizerConfig", "openIDConnectConfig", "userPoolConfig"}
GraphqlApiEquals == GraphqlApiConfig \cup {"apiId", "arn", "tags"}
graphqlApiMapper == GraphqlApiEquals
GraphqlApiRead == {"up"}
GraphqlApiCreate(s) == <<Make(GraphqlApiEquals \ {"apiId", "arn"}), Save>>

\* It reads the api back by its name, where the service takes an id: what the
\* update did is found out by the next turn.  Tags are sent along with the rest
\* only.
GraphqlApiUpdate(s) ==
  <<Look>> \o
  IF s.diff \cap GraphqlApiConfig # {}
  THEN <<Set(GraphqlApiConfig)>> \o When("tags" \in s.diff, <<Clear({"tags"}), Set({"tags"})>>)
       \o <<Forget, Break>>
  ELSE <<SaveBut(GraphqlApiEquals \ {"apiId", "arn"})>>

GraphqlApiDelete(s) == <<Drop>>

-----------------------------------------------------------------------------
Services ==
  {"LambdaFunction", "Queue", "Topic", "Subscription", "Bucket", "BucketObject",
   "BucketWebsite", "PublicAccessBlock", "LogGroup", "MetricAlarm", "Api", "GraphqlApi"}

ServiceTrait(m) ==
  CASE m = "LambdaFunction" ->
         Trait(LambdaFunctionEquals, lambdaFunctionMapper, {"arn", "version"}, "name",
               {"make"}, LambdaFunctionRead, {{}, {"waits"}, {"noCode"}})
    [] m = "Queue" ->
         Omitting(Trait(QueueEquals, queueMapper, {}, "unique", {"drop"}, QueueRead, {{}}))
    [] m = "Topic" ->
         Trait(TopicEquals, topicMapper, {}, "unique", {}, TopicRead,
               {{}, {"fifo"}, {"empty"}})
    [] m = "Subscription" ->
         Omitting(Trait(SubscriptionEquals, subscriptionMapper, {}, "cloud", {},
                        SubscriptionRead, {{"protected"}}))
    [] m = "Bucket" ->
         Omitting(Trait(BucketEquals, bucketMapper, {"createdAt"}, "name", {}, BucketRead,
                        {{}, {"waits"}}))
    [] m = "BucketObject" ->
         Omitting(Trait(BucketObjectEquals, bucketObjectMapper, {"eTag"}, "name", {"drop"},
                        BucketObjectRead, {{}}))
    [] m = "BucketWebsite" ->
         Omitting(Trait(BucketWebsiteEquals, bucketWebsiteMapper, {}, "name", {},
                        BucketWebsiteRead, {{}, {"waits"}}))
    [] m = "PublicAccessBlock" ->
         Omitting(Trait(PublicAccessBlockEquals, publicAccessBlockMapper, {}, "name", {},
                        PublicAccessBlockRead, {{}, {"waits"}}))
    [] m = "LogGroup" ->
         Trait(LogGroupEquals, logGroupMapper, LogGroupEquals, "name", {}, LogGroupRead, {{}})
    [] m = "MetricAlarm" ->
         Trait(MetricAlarmEquals, metricAlarmMapper, {"alarmArn"}, "name", {},
               MetricAlarmRead, {{}})
    [] m = "Api" -> Trait(ApiEquals, apiMapper, {}, "cloud", {}, ApiRead, {{}})
    [] m = "GraphqlApi" ->
         Trait(GraphqlApiEquals, graphqlApiMapper, {"apiId", "arn"}, "name", {},
               GraphqlApiRead, {{}})

ServicePlan(m, call, s) ==
  CASE m = "LambdaFunction" ->
         Pick(call, LambdaFunctionCreate(s), LambdaFunctionUpdate(s), LambdaFunctionDelete(s))
    [] m = "Queue" -> Pick(call, QueueCreate(s), QueueUpdate(s), QueueDelete(s))
    [] m = "Topic" -> Pick(call, TopicCreate(s), TopicUpdate(s), TopicDelete(s))
    [] m = "Subscription" ->
         Pick(call, SubscriptionCreate(s), SubscriptionUpdate(s), SubscriptionDelete(s))
    [] m = "Bucket" -> Pick(call, BucketCreate(s), BucketUpdate(s), BucketDelete(s))
    [] m = "BucketObject" ->
         Pick(call, BucketObjectCreate(s), BucketObjectUpdate(s), BucketObjectDelete(s))
    [] m = "BucketWebsite" ->
         Pick(call, BucketWebsiteCreate(s), BucketWebsiteUpdate(s), BucketWebsiteDelete(s))
    [] m = "PublicAccessBlock" ->
         Pick(call, PublicAccessBlockCreate(s), PublicAccessBlockUpdate(s),
              PublicAccessBlockDelete(s))
    [] m = "LogGroup" -> Pick(call, LogGroupCreate(s), LogGroupUpdate(s), LogGroupDelete(s))
    [] m = "MetricAlarm" ->
         Pick(call, MetricAlarmCreate(s), MetricAlarmUpdate(s), MetricAlarmDelete(s))
    [] m = "Api" -> Pick(call, ApiCreate(s), ApiUpdate(s), ApiDelete(s))
    [] m = "GraphqlApi" ->
         Pick(call, GraphqlApiCreate(s), GraphqlApiUpdate(s), GraphqlApiDelete(s))
=============================================================================
