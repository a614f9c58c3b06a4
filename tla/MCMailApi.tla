------------------------------ MODULE MCMailApi ------------------------------
(***************************************************************************)
(* Instances of MailApi for TLC.  A scenario is an environment, the        *)
(* requests each of two tabs makes and the mails there are: one group      *)
(* varies the start of the host, one the tabs that share a cookie, one the *)
(* scan of the audit list, one the routes and what they are sent.          *)
(***************************************************************************)
EXTENDS MailApi, TLC

CONSTANTS t1, t2

Development ==
    [node |-> "unset",
     length |-> [v \in Lengths |->
         IF v = "MAIL_DEFAULT_FROM" THEN 20 ELSE Unset],
     flag |-> [f \in Flags |-> IF f = "MAIL_ENABLED" THEN "true" ELSE "unset"],
     number |-> [n \in Numbers |-> Unset], scalar |-> "unset",
     cors |-> {"unset"}, dbUser |-> "unset", dbPassword |-> "unset"]
InProduction ==
    [Development EXCEPT
        !.node = "production", !.dbUser = "own", !.dbPassword = "own",
        !.length = [v \in Lengths |-> IF v = "OTEL_EXPORTER_OTLP_ENDPOINT" THEN 0 ELSE 32]]
QueueOff(e) == [e EXCEPT !.flag["MAIL_QUEUE_ENABLED"] = "false"]
MailOff(e) == [e EXCEPT !.flag["MAIL_ENABLED"] = "TRUE"]

\* Up to two variables differ from a complete environment.
Changed(E) ==
    E \cup {[e EXCEPT !.length[v] = n] : e \in E, v \in Lengths, n \in {Unset, 0, 16, 31}}
      \cup {[e EXCEPT !.flag[f] = x] : e \in E, f \in Flags, x \in Spellings}
      \cup {[e EXCEPT !.cors = c] : e \in E, c \in {{"*"}, {"*", "url"}, {"other"}, {}}}
      \cup {[e EXCEPT !.number["MAIL_MAX_ATTEMPTS"] = n] : e \in E, n \in {0, 20, 21}}
      \cup {[e EXCEPT !.node = n] : e \in E, n \in NodeEnvs}
      \cup {[e EXCEPT !.dbUser = "wellKnown"] : e \in E}
StartEnvironments == Changed(Changed({Development, InProduction}))

To(route) == [route |-> route, direct |-> "api", bearer |-> "none", id |-> Unset,
              body |-> [others |-> "valid"]]
Field(form, items) == [form |-> form, items |-> items]
Text == [to |-> Field("string", <<"email">>), cc |-> Field("none", <<>>),
         content |-> "text", from |-> FALSE, maxAttempts |-> Unset,
         others |-> "valid", scheduledFor |-> "future"]
Send(body) == [To("send") EXCEPT !.body = body]
List(filter, direction) ==
    [To("list") EXCEPT !.body = [filter |-> filter, direction |-> direction, limit |-> 1]]
Report(secret, event, id) ==
    [To("webhook") EXCEPT !.direct = "none", !.id = id,
                          !.body = [others |-> "valid", secret |-> secret, event |-> event]]

MailBodies ==
    {Text, [Text EXCEPT !.content = "blank"],
     [Text EXCEPT !.to = Field("array", <<>>)],
     [Text EXCEPT !.to = Field("array", <<"email", "other">>)],
     [Text EXCEPT !.to = Field("string", <<"blank">>)],
     [Text EXCEPT !.cc = Field("string", <<"blank">>), !.from = TRUE],
     [Text EXCEPT !.maxAttempts = 11], [Text EXCEPT !.maxAttempts = 10],
     [Text EXCEPT !.scheduledFor = "past"], [Text EXCEPT !.scheduledFor = "invalid"],
     [Text EXCEPT !.others = "invalid"]}

EveryRequest ==
    {To(r) : r \in {"csrfToken", "live", "ready", "metrics", "openapi",
                    "listSuppression", "suppress", "unsuppress"}}
      \cup {[To("live") EXCEPT !.direct = d, !.bearer = b] :
               d \in {"none", "other"}, b \in {"none", "api"}}
      \cup {[To(r) EXCEPT !.id = id] : r \in {"detail", "retry"}, id \in {Unset, 1, 9}}
      \cup {[To("preview") EXCEPT !.body = [others |-> o, content |-> c]] :
               o \in {"valid", "invalid"}, c \in {"text", "broken"}}
      \cup {Report(s, "opened", 1) : s \in {"none", "right"}}
      \cup {Report("right", e, id) : e \in {"delivered", "bounced"}, id \in {Unset, 1, 9}}
      \cup {[To(r) EXCEPT !.body = b] : r \in Enqueues, b \in MailBodies}
      \cup {[To("sendTemplate") EXCEPT !.body = [Text EXCEPT !.content = "broken"]]}
      \cup {[List("any", "ASC") EXCEPT !.body.limit = 101]}

Stored(at, status) ==
    [at |-> at, status |-> status, to |-> <<"email">>, content |-> "text",
     sender |-> TRUE, maxAttempts |-> 3]

Scenario(kind, filter, direction) ==
    [kind |-> kind, filter |-> filter, direction |-> direction]

MCScenarios ==
    {Scenario(kind, "any", "ASC") : kind \in {"start", "tabs", "routes", "scan"}}
      \cup {Scenario("scan", "any", "DESC"), Scenario("scan", "failed", "ASC")}

MCStarts == [s \in MCScenarios |->
    CASE s.kind = "start" -> StartEnvironments
      [] s.kind = "tabs" -> {QueueOff(Development), QueueOff(InProduction)}
      [] s.kind = "routes" -> {Development, InProduction, MailOff(Development)}
      [] s.kind = "scan" -> {QueueOff(Development)}]

MCSchemes == [s \in MCScenarios |-> IF s.kind = "tabs" THEN BOOLEAN ELSE {TRUE}]

MCAsks == [s \in MCScenarios |->
    CASE s.kind = "start" -> (t1 :> {}) @@ (t2 :> {})
      [] s.kind = "tabs" -> [t \in Tabs |-> {To("csrfToken"), To("unsuppress")}]
      [] s.kind = "routes" -> (t1 :> EveryRequest) @@ (t2 :> {})
      [] s.kind = "scan" ->
            (t1 :> IF s.filter = "any" THEN {To("csrfToken"), Send(Text)}
                   ELSE {Report("right", "bounced", 1)})
              @@ (t2 :> {List(s.filter, s.direction)})]

MCTables == [s \in MCScenarios |->
    CASE s.kind \in {"start", "tabs"} -> <<>>
      [] s.kind = "routes" -> <<Stored(1, "failed"), Stored(1, "sent"), Stored(2, "sent")>>
      [] s.kind = "scan" -> <<Stored(1, "sent"), Stored(2, "failed")>>]

MCEnvironments == UNION {MCStarts[s] : s \in MCScenarios}
=============================================================================
