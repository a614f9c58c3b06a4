------------------------------ MODULE MailApi ------------------------------
(***************************************************************************)
(* The HTTP side of a host: HostStart brings it up, then clients send      *)
(* requests, which pass the middlewares, the validation pipe and the       *)
(* handler of their route.  Tabs of one browser share its cookies; a tab   *)
(* may page through the audit list (AuditSearch) while mails are added.    *)
(* What the services behind the handlers do step by step is in MailEnqueue *)
(* and MailDispatch; here a handler is one step, save for the two queries  *)
(* of the list.                                                            *)
(***************************************************************************)
EXTENDS HostStart, AuditSearch

CONSTANTS Tabs,
          Scenarios,   \* names: what the host is started with, who asks for what
          Starts,      \* per scenario: environments,
          Schemes,     \* whether the browser reaches the host over https,
          Asks,        \* per tab the requests it makes,
          Tables,      \* and the mails there are
          MaxIssued,   \* CSRF tokens issued
          MaxMails     \* rows of the table

VARIABLES scenario,
          https,   \* the browser reaches the host over https
          issued,  \* how many CSRF tokens have been issued
          jar,     \* the cookie XSRF-TOKEN of the browser
          newest,  \* history: the tab that last received a token
          mails,   \* the table mail_audit_logs, in the order of insertion
          tabs     \* per tab: token, request in progress, scan of the audit list

apiVars == <<scenario, https, issued, jar, newest, mails, tabs>>
vars == <<env, stage, failed, tracing, config,
          scenario, https, issued, jar, newest, mails, tabs>>

NoToken == 0     \* tokens are numbered from one
NoTab == "none"
Pass == 0        \* a check that calls next()

Reads == {"csrfToken", "live", "ready", "metrics", "openapi", "list", "detail",
          "listSuppression"}
Enqueues == {"send", "sendTemplate", "schedule"}
Writes == Enqueues \cup {"retry", "suppress", "unsuppress", "preview", "webhook"}
Routes == Reads \cup Writes

Statuses == {0, 200, 201, 400, 401, 403, 404, 429, 500, 503}

\* A row: when it was created, its status, and what createAuditLog was given.
Row == [at : Nat, status : {"pending", "sent", "failed"}, to : Seq({"email", "blank", "other"}),
        content : {"text", "blank", "broken"}, sender : BOOLEAN, maxAttempts : Int]

\* The bodies of mails and the queries of the list.
RecipientField == [form : {"none", "string", "array"}, items : Seq({"email", "blank", "other"})]
MailBody == [to : RecipientField, cc : RecipientField,
             content : {"text", "blank", "broken"}, from : BOOLEAN,
             maxAttempts : Int, others : {"valid", "invalid"},
             scheduledFor : {"future", "past", "invalid"}]
ListBody == [filter : {"any", "pending", "sent", "failed"}, direction : {"ASC", "DESC"},
             limit : Int]

\* A request names its route, what the headers x-api-token (direct) and
\* Authorization: Bearer (bearer) hold, the mail it is about (id) and a body;
\* only a template can be broken.
ASSUME AsksAssumption == \A s \in Scenarios, t \in Tabs : \A q \in Asks[s][t] :
    /\ q.route \in Routes /\ q.id \in Int
    /\ {q.direct, q.bearer} \subseteq {"none", "api", "other"}
    /\ q.route \in Enqueues => q.body \in MailBody
    /\ q.route \in {"send", "schedule"} => q.body.content # "broken"
    /\ q.route = "list" => q.body \in ListBody

\* A tab scans the audit list by one query.
ASSUME ScansAssumption == \A s \in Scenarios, t \in Tabs : \A p, q \in Asks[s][t] :
    p.route = "list" /\ q.route = "list" => p = q

NoRequest == [route |-> "none"]
NoScan == [page |-> 1, start |-> {}, seen |-> {}]

Asked == UNION {Asks[scenario][t] : t \in Tabs}

Tab == [pc : {"idle", "sent", "counting", "answered"}, request : Asked \cup {NoRequest},
        cookie : 0..issued, header : 0..issued, token : 0..issued, latest : BOOLEAN,
        status : Statuses, answer : Nat, rows : Seq(DOMAIN mails),
        scan : [page : Nat, start : SUBSET DOMAIN mails, seen : SUBSET DOMAIN mails]]

Request(t) == tabs[t].request

-----------------------------------------------------------------------------
(* The bodies of mails: mail-send.dto.ts and mail-send-template.dto.ts.    *)

\* A recipient field: left out, a string or an array of addresses.
ToStringArray(field) ==
    IF field.form = "array" \/ (field.form = "string" /\ field.items # <<"blank">>)
    THEN field.items ELSE <<>>

Emails(items) == \A i \in DOMAIN items : items[i] = "email"

\* An array without recipients passes.
RecipientsValidMutant(field) == Emails(ToStringArray(field))

RecipientsValid(field) == ToStringArray(field) # <<>> /\ Emails(ToStringArray(field))

CopiesValid(field) == field.form = "none" \/ Emails(ToStringArray(field))

\* maxAttempts is optional: Unset, or an integer.
AttemptsValid(n) == n \in {Unset} \cup 1..10

\* The other fields are present or not, and of their types; forbidNonWhitelisted
\* refuses what no DTO names.
SendValid(body) ==
    /\ RecipientsValid(body.to) /\ CopiesValid(body.cc)
    /\ AttemptsValid(body.maxAttempts)
    /\ body.others = "valid"

\* MailSendTemplateDto repeats the rules, with a template in the place of texts.
SendTemplateValid(body) == SendValid(body)

\* MailScheduleDto adds a date.
ScheduleValid(body) == SendValid(body) /\ body.scheduledFor # "invalid"

\* A row the worker can send.
Deliverable(row) ==
    /\ row.to # <<>> /\ Emails(row.to) /\ row.content = "text" /\ row.sender
    /\ row.maxAttempts \in 1..20

\* The table was filled by hosts like this one.
ASSUME TablesAssumption == \A s \in Scenarios :
    /\ Tables[s] \in Seq(Row) /\ Schemes[s] \subseteq BOOLEAN
    /\ \A m \in DOMAIN Tables[s] : Deliverable(Tables[s][m])
ASSUME TabsAssumption == NoTab \notin Tabs

-----------------------------------------------------------------------------
(* What answers a request before its handler: 0, or a status.              *)

\* directToken || bearerToken
Candidate(q) == IF q.direct # "none" THEN q.direct ELSE q.bearer

\* The documentation is mounted before the token is asked for.
Documentation(q) == q.route = "openapi" /\ config.scalar

ApiToken(q) == IF q.route = "webhook" \/ Candidate(q) = "api" THEN Pass ELSE 401

\* The cookies are not parsed yet when the token is compared.
CsrfMutant(t) == IF Request(t).route \in Reads \cup {"webhook"} THEN Pass ELSE 403

Csrf(t) ==
    IF \/ Request(t).route \in Reads \cup {"webhook"}
       \/ tabs[t].cookie # NoToken /\ tabs[t].cookie = tabs[t].header
    THEN Pass ELSE 403

\* ValidationPipe and ParseUUIDPipe.
Validation(q) ==
    CASE q.route = "send" -> IF SendValid(q.body) THEN Pass ELSE 400
      [] q.route = "sendTemplate" -> IF SendTemplateValid(q.body) THEN Pass ELSE 400
      [] q.route = "schedule" -> IF ScheduleValid(q.body) THEN Pass ELSE 400
      [] q.route \in {"detail", "retry"} -> IF q.id >= 0 THEN Pass ELSE 400
      [] q.route \in {"suppress", "preview", "webhook"} ->
            IF q.body.others = "valid" THEN Pass ELSE 400
      [] q.route = "list" -> IF q.body.limit \in 1..100 THEN Pass ELSE 400
      [] OTHER -> Pass

Then(answer, next) == IF answer # Pass THEN answer ELSE next

\* The first of them that does not call next().  The middleware of the metrics
\* is not among them: it is mounted on the pattern /\/metrics$/, and Express runs
\* a mounted middleware only when what the pattern matches begins the path, which
\* it never does for the metrics under the global prefix.
Refusal(t) ==
    LET q == Request(t)
    IN  IF Documentation(q) THEN Pass
        ELSE Then(ApiToken(q), Then(Csrf(t), Validation(q)))

-----------------------------------------------------------------------------
(* Requests and answers.                                                   *)

ApiInit ==
    /\ scenario \in Scenarios
    /\ env \in Starts[scenario]
    /\ mails = Tables[scenario]
    /\ https \in Schemes[scenario]
    /\ issued = 0
    /\ jar = NoToken
    /\ newest = NoTab
    /\ tabs = [t \in Tabs |->
          [pc |-> "idle", request |-> NoRequest, cookie |-> NoToken, header |-> NoToken,
           token |-> NoToken, latest |-> FALSE, status |-> 0, answer |-> 0,
           rows |-> <<>>, scan |-> NoScan]]

\* The browser adds the cookie, the page the token it was given.  A scan begins
\* with the mails there are, asks for page after page and ends with the last.
Ask(t) ==
    /\ stage = "listening"
    /\ tabs[t].pc = "idle"
    /\ \E q \in Asks[scenario][t] :
          /\ q.route = "csrfToken" => issued < MaxIssued
          /\ q.route \in Enqueues => Len(mails) < MaxMails
          /\ q.route = "list" => tabs[t].scan.page > 0
          /\ tabs' = [tabs EXCEPT
                ![t].pc = "sent",
                ![t].request = q, ![t].cookie = jar, ![t].header = tabs[t].token,
                ![t].latest = (newest = t),
                ![t].scan.start = IF q.route = "list" /\ tabs[t].scan.page = 1
                                  THEN DOMAIN mails ELSE @]
    /\ UNCHANGED <<hostVars, scenario, https, issued, jar, newest, mails>>

Serves(t, routes) ==
    /\ stage = "listening"
    /\ tabs[t].pc = "sent"
    /\ Request(t).route \in routes
    /\ UNCHANGED <<hostVars, scenario, https, jar, newest>>

Reply(t, status, answer) ==
    tabs' = [tabs EXCEPT ![t].pc = "answered", ![t].status = status, ![t].answer = answer]

Admitted(t, routes) == Serves(t, routes) /\ Refusal(t) = Pass

\* A middleware, the throttler or the pipe refuses.  The throttler is a guard:
\* it counts only what the middlewares let through.
Refuse(t) ==
    /\ Serves(t, Routes)
    /\ LET status == Refusal(t)
       IN  \/ status # Pass /\ Reply(t, status, 0)
           \/ /\ status \in {Pass, 400} /\ Request(t).route # "openapi"
              /\ Reply(t, 429, 0)
    /\ UNCHANGED <<issued, mails>>

\* The token is handed out before it is made.
IssueTokenMutant(t) ==
    /\ Admitted(t, {"csrfToken"})
    /\ Reply(t, 200, issued + 1)
    /\ UNCHANGED <<issued, mails>>

\* CsrfController.getToken
IssueToken(t) ==
    /\ Admitted(t, {"csrfToken"})
    /\ issued' = issued + 1
    /\ Reply(t, 200, issued + 1)
    /\ UNCHANGED mails

\* HealthController: the database answers the ping of a readiness probe or not.
Health(t) ==
    /\ Admitted(t, {"live", "ready"})
    /\ \E status \in IF Request(t).route = "ready" THEN {200, 503} ELSE {200} :
          Reply(t, status, 0)
    /\ UNCHANGED <<issued, mails>>

\* What the bootstrap mounts: the metrics, and the schema where it is enabled.
Expose(t) ==
    /\ Admitted(t, {"metrics", "openapi"})
    /\ Reply(t, IF Request(t).route = "metrics" \/ config.scalar THEN 200 ELSE 404, 0)
    /\ UNCHANGED <<issued, mails>>

\* detail: null is an answer, so there is no 404.
Detail(t) ==
    /\ Admitted(t, {"detail"})
    /\ Reply(t, 200, 0)
    /\ UNCHANGED <<issued, mails>>

\* suppress, unsuppress and listSuppression; the list itself is in
\* MailSuppression, whose calls may collide on the unique column.
Suppression(t) ==
    /\ Admitted(t, {"suppress", "unsuppress", "listSuppression"})
    /\ \E status \in CASE Request(t).route = "suppress" -> {201, 500}
                       [] Request(t).route = "unsuppress" -> {201}
                       [] OTHER -> {200} : Reply(t, status, 0)
    /\ UNCHANGED <<issued, mails>>

\* preview: hidden in production, and compiled afresh elsewhere.
Preview(t) ==
    /\ Admitted(t, {"preview"})
    /\ Reply(t, IF config.production THEN 404
                ELSE IF Request(t).body.content = "broken" THEN 500 ELSE 201, 0)
    /\ UNCHANGED <<issued, mails>>

\* What the handler and the first lines of enqueue refuse, as a status.
Unacceptable(q) ==
    IF q.route = "sendTemplate" /\ q.body.content = "broken" THEN 500
    ELSE IF \/ q.body.content = "blank"
            \/ q.route = "schedule" /\ q.body.scheduledFor = "past"
            \/ ~config.mailEnabled
            \/ ~(q.body.from \/ config.defaultFrom)
    THEN 400 ELSE Pass

\* send, sendTemplate, schedule.  The checks of MailEnqueue may still refuse
\* the mail, or answer with one that is there; a mail may share its moment of
\* creation with the one before.
Enqueue(t) ==
    /\ Admitted(t, Enqueues)
    /\ LET q == Request(t)
           last == IF mails = <<>> THEN 1 ELSE mails[Len(mails)].at
           refused == Unacceptable(q)
       IN  IF refused # Pass THEN Reply(t, refused, 0) /\ UNCHANGED mails
           ELSE \/ \E status \in {201, 400, 500} : Reply(t, status, 0) /\ UNCHANGED mails
                \/ \E at \in {last, last + 1} :
                      /\ mails' = Append(mails,
                            [at |-> at, status |-> "pending",
                             to |-> ToStringArray(q.body.to), content |-> q.body.content,
                             sender |-> q.body.from \/ config.defaultFrom,
                             maxAttempts |-> IF q.body.maxAttempts = Unset
                                             THEN config.maxAttempts ELSE q.body.maxAttempts])
                      /\ Reply(t, 201, 0)
    /\ UNCHANGED issued

\* retry: findOneOrFail's error is no HttpException.
Retry(t) ==
    /\ Admitted(t, {"retry"})
    /\ LET m == Request(t).id
       IN  IF m \notin DOMAIN mails THEN Reply(t, 500, 0) /\ UNCHANGED mails
           ELSE IF mails[m].status # "failed" THEN Reply(t, 400, 0) /\ UNCHANGED mails
           ELSE mails' = [mails EXCEPT ![m].status = "pending"] /\ Reply(t, 201, 0)
    /\ UNCHANGED issued

\* deliveryWebhook: the secret, if there is one, then the row.
Webhook(t) ==
    /\ Admitted(t, {"webhook"})
    /\ LET q == Request(t)
       IN  IF config.webhookSecret /\ q.body.secret # "right"
           THEN Reply(t, 401, 0) /\ UNCHANGED mails
           ELSE IF q.id = Unset THEN Reply(t, 400, 0) /\ UNCHANGED mails
           ELSE IF q.id \notin DOMAIN mails THEN Reply(t, 404, 0) /\ UNCHANGED mails
           ELSE /\ mails' = [mails EXCEPT ![q.id].status =
                      CASE q.body.event = "delivered" -> "sent"
                        [] q.body.event \in {"bounced", "complained", "failed"} -> "failed"
                        [] OTHER -> @]
                /\ Reply(t, 201, 0)
    /\ UNCHANGED issued

\* The query of a tab for the page its scan has come to.
QueryOf(t) ==
    LET q == Request(t)
    IN  [filter |-> q.body.filter, direction |-> q.body.direction,
         page |-> tabs[t].scan.page, limit |-> q.body.limit]

\* search: the rows of the page, and the total when the page tells it.
ListRows(t) ==
    /\ Admitted(t, {"list"})
    /\ LET query == QueryOf(t)
       IN  \E order \in Orders(mails, query) :
              LET rows == Rows(order, query)
              IN  tabs' = [tabs EXCEPT
                     ![t].rows = rows,
                     ![t].pc = IF NeedsCount(rows, query) THEN "counting" ELSE "answered",
                     ![t].status = IF NeedsCount(rows, query) THEN 0 ELSE 200,
                     ![t].answer = TotalPages(Skip(query) + Len(rows), query)]
    /\ UNCHANGED <<issued, mails>>

\* search: the total, by a query of its own.
ListCount(t) ==
    /\ stage = "listening"
    /\ tabs[t].pc = "counting"
    /\ Reply(t, 200, TotalPages(Cardinality(Matching(mails, QueryOf(t))), QueryOf(t)))
    /\ UNCHANGED <<hostVars, scenario, https, issued, jar, newest, mails>>

\* The answer arrives.  A cookie that is secure is kept only over https.
Receive(t) ==
    /\ tabs[t].pc = "answered"
    /\ LET token == Request(t).route = "csrfToken" /\ tabs[t].status = 200
           page == Request(t).route = "list" /\ tabs[t].status = 200
           at == tabs[t].scan.page
           seen == {tabs[t].rows[i] : i \in DOMAIN tabs[t].rows}
       IN  /\ tabs' = [tabs EXCEPT
                 ![t].pc = "idle", ![t].request = NoRequest,
                 ![t].cookie = NoToken, ![t].header = NoToken, ![t].latest = FALSE,
                 ![t].status = 0, ![t].answer = 0, ![t].rows = <<>>,
                 ![t].token = IF token THEN tabs[t].answer ELSE @,
                 ![t].scan.page = IF ~page THEN @
                                  ELSE IF at >= tabs[t].answer THEN 0 ELSE at + 1,
                 ![t].scan.seen = @ \cup seen]
           /\ jar' = IF token /\ (https \/ ~config.production) THEN tabs[t].answer ELSE jar
           /\ newest' = IF token THEN t ELSE newest
    /\ UNCHANGED <<hostVars, scenario, https, issued, mails>>

\* The queue worker of this host ends a mail (MailDispatch).
Settle ==
    /\ stage = "listening"
    /\ config.mailEnabled /\ config.queueEnabled
    /\ \E m \in DOMAIN mails, status \in {"sent", "failed"} :
          /\ mails[m].status = "pending"
          /\ mails' = [mails EXCEPT ![m].status = status]
    /\ UNCHANGED <<hostVars, scenario, https, issued, jar, newest, tabs>>

Start == HostNext /\ UNCHANGED apiVars

Init == HostInit /\ ApiInit

TabStep(t) ==
    \/ Ask(t) \/ Refuse(t) \/ IssueToken(t) \/ Health(t) \/ Expose(t) \/ Detail(t)
    \/ Suppression(t) \/ Preview(t) \/ Enqueue(t) \/ Retry(t) \/ Webhook(t)
    \/ ListRows(t) \/ ListCount(t) \/ Receive(t)

Next == Start \/ Settle \/ \E t \in Tabs : TabStep(t)

Spec == Init /\ [][Next]_vars

-----------------------------------------------------------------------------
TypeOK ==
    /\ HostTypeOK
    /\ scenario \in Scenarios /\ https \in BOOLEAN
    /\ issued \in Nat /\ jar \in 0..issued /\ newest \in Tabs \cup {NoTab}
    /\ mails \in Seq(Row)
    /\ tabs \in [Tabs -> Tab]

\* An unsafe request of a page that has fetched a token is refused for its token
\* only if another page of the same browser was given one since, or the cookie
\* was dropped because a production host was reached over http.
OnlyOvertakenTabsAreRefused == \A t \in Tabs :
    tabs[t].status = 403
        => \/ tabs[t].header = NoToken
           \/ ~tabs[t].latest
           \/ config.production /\ ~https

\* A scan of the whole audit list in order of creation, either way, has seen
\* every mail that was there when it began, whatever is added meanwhile and
\* although rows and total are read apart; only mails created in one moment may
\* be missed.
ScanSeesAll == \A t \in Tabs :
    /\ tabs[t].scan.page = 0
    /\ \A q \in Asks[scenario][t] : q.route = "list" => q.body.filter = "any"
    => \A m \in tabs[t].scan.start \ tabs[t].scan.seen :
          \E n \in DOMAIN mails : n # m /\ mails[n].at = mails[m].at

\* Whatever the forms of the fields, a mail that gets into the table can be
\* sent: the pipe, the handler, enqueue and the schema leave no row without
\* recipients, content, sender or a number of attempts the worker can count.
RowsAreDeliverable == \A m \in DOMAIN mails : Deliverable(mails[m])
=============================================================================
