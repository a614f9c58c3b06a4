----------------------------- MODULE MailEnqueue -----------------------------
(***************************************************************************)
(* MailService.sendTemplateAsync and MailEnqueueService.enqueue on several *)
(* hosts: rendering, validation, suppression check, idempotency (a cache   *)
(* and a unique column), rate limit, insertion, caching of the key.  Keys, *)
(* counters and rendered templates share the one cache in a host's memory. *)
(* A request is a process; every await lets others run.  The suppression   *)
(* list is MailSuppression, whose calls run concurrently.  A query may     *)
(* fail, and so may the insertion, even after its COMMIT took effect.      *)
(***************************************************************************)
EXTENDS MailSuppression, Naturals, Sequences, FiniteSets

CONSTANTS Requests,    \* POST /mail/send, /send-template, /schedule
          Inputs,      \* the bodies they may carry
          Keys, NoKey, \* idempotency keys
          EmptyKey,    \* the key '': a string, but not truthy
          Renders,     \* templates with their contexts
          NoRender,    \* a body with a text of its own
          None,        \* no mail, no host, no body
          Hosts,       \* each has its own cache
          RateLimitEnabled, RateLimitMax,
          RateLimitWindow, KeyTtl, HtmlTtl, \* times to live, in the cache's unit
          MaxInFlight, \* requests in progress at a time
          MaxTicks, MaxRestarts,
          MaxFaults    \* failing queries

ASSUME InputsAssumption == Inputs \subseteq
    [key : Keys \cup {NoKey}, to : Seq(Addresses) \ {<<>>}, cc : SUBSET Addresses,
     render : Renders \cup {NoRender}, complete : BOOLEAN]
ASSUME NoneAssumption == None \notin Inputs /\ None \notin Hosts
ASSUME RequestsAssumption == IsFiniteSet(Requests) /\ None \notin Requests
ASSUME NoKeyAssumption == NoKey \notin Keys \cup {EmptyKey}
ASSUME NoRenderAssumption == NoRender \notin Renders
ASSUME LimitsAssumption ==
    /\ RateLimitEnabled \in BOOLEAN /\ RateLimitMax \in Nat
    /\ {RateLimitWindow, KeyTtl, HtmlTtl} \subseteq Nat \ {0}
ASSUME BoundsAssumption ==
    /\ MaxInFlight \in Nat /\ MaxTicks \in Nat
    /\ MaxRestarts \in Nat /\ MaxFaults \in Nat

VARIABLES request,   \* per request: host, input, progress and answer
          table,     \* inserted mails, each named by the request that made it
          cache,     \* per host and item: a value and the time it has left
          events,    \* how many ticks, restarts and failing queries have happened
          charged,   \* history: per host and address, the increments made within
                     \* the last RateLimitWindow: whose, for which recipient, how
                     \* old, and how often the host restarted since
          known,     \* history: requests whose key was in the table at the start
          barred     \* history: per request, lower-case addresses blocked at its
                     \* start and ever since

enqueueVars == <<request, table, cache, events, charged, known, barred>>
vars == <<request, table, cache, events, charged, known, barred,
          entries, calls, removed>>

Pcs == {"new", "template", "cacheHtml", "suppression", "cached", "cachedId",
        "stored", "count", "increment", "insert", "cacheKey", "answered"}
Kinds == {"none", "created", "existing", "invalid", "blocked", "limited",
          "duplicate", "failed", "lost"}

Request == [pc : Pcs, host : Hosts \cup {None}, input : Inputs \cup {None},
            index : Nat, read : Nat, html : Renders \cup {NoRender},
            kind : Kinds, mail : Requests \cup {None}]

Charges == [by : Requests, index : Nat, age : Nat, restarts : Nat]

Key(r) == request[r].input.key
To(r) == request[r].input.to
Current(r) == To(r)[request[r].index]

ToSet(r) == {To(r)[i] : i \in DOMAIN To(r)}
RowsWithKey(k) == {m \in table : Key(m) = k}

\* if (options.idempotencyKey)
Truthy(k) == k \notin {NoKey, EmptyKey}

InFlight == {r \in Requests : request[r].pc \notin {"new", "answered"}}

Go(r, pc) == request' = [request EXCEPT ![r].pc = pc]
Answer(r, kind, mail) ==
    request' = [request EXCEPT ![r].pc = "answered", ![r].kind = kind, ![r].mail = mail]

\* Where enforceLimit begins, or what follows it when it is switched off.
RatePhase == IF RateLimitEnabled THEN "count" ELSE "insert"

-----------------------------------------------------------------------------
(* The cache of a host.                                                    *)

\* The keys of the cache: a prefix and what it is about.
Item(type, of) == [type |-> type, of |-> of]
Items == {Item("key", k) : k \in Keys} \cup {Item("count", a) : a \in Addresses}
            \cup {Item("html", x) : x \in Renders}

NoEntry == [value |-> None, left |-> 0]
Values == Requests \cup Nat \cup Renders \cup {None}
Entry == [value : Values, left : Nat]

\* cacheManager.set: the time to live starts anew.
Put(h, item, value, ttl) ==
    cache' = [cache EXCEPT ![h][item] = [value |-> value, left |-> ttl]]

\* Operators whose names end in Mutant are wrong on purpose: put in the place
\* of the operator that follows, each makes a run report a violation.

\* The context is no part of the key.
HtmlItemMutant(x) == Item("html", CHOOSE y \in Renders : y.template = x.template)

\* getCacheKey: a digest of the template and its context.
HtmlItem(x) == Item("html", x)

\* A counter that is not there counts as zero.
Count(h, a) == LET entry == cache[h][Item("count", a)]
               IN  IF entry.left = 0 THEN 0 ELSE entry.value

EmptyCache == [item \in Items |-> NoEntry]
NoCharges == [a \in Addresses |-> {}]

EnqueueInit ==
    /\ request = [r \in Requests |->
          [pc |-> "new", host |-> None, input |-> None, index |-> 1, read |-> 0,
           html |-> NoRender, kind |-> "none", mail |-> None]]
    /\ table = {}
    /\ cache = [h \in Hosts |-> EmptyCache]
    /\ events = [tick |-> 0, restart |-> 0, fault |-> 0]
    /\ charged = [h \in Hosts |-> NoCharges]
    /\ known = {}
    /\ barred = [r \in Requests |-> {}]

-----------------------------------------------------------------------------
(* A request.                                                              *)

\* The synchronous checks at the start of enqueue: content and sender are there.
Checked(req) == IF req.input.complete THEN [req EXCEPT !.pc = "suppression"]
                ELSE [req EXCEPT !.pc = "answered", !.kind = "invalid"]

\* A request arrives at a host.
Begin(r) ==
    /\ request[r].pc = "new"
    /\ Cardinality(InFlight) < MaxInFlight
    /\ \E host \in Hosts, input \in Inputs :
          LET req == [request[r] EXCEPT !.host = host, !.input = input]
          IN  /\ request' = [request EXCEPT ![r] =
                    IF input.render = NoRender THEN Checked(req)
                    ELSE [req EXCEPT !.pc = "template"]]
              /\ known' = IF input.key # NoKey /\ RowsWithKey(input.key) # {}
                          THEN known \cup {r} ELSE known
    /\ barred' = [barred EXCEPT ![r] = {a \in Addresses : entries[a] = "active"}]
    /\ UNCHANGED <<table, cache, events, charged>>

\* renderCached: get; on a hit enqueue is called at once.
LookUpHtml(r) ==
    /\ request[r].pc = "template"
    /\ LET found == cache[request[r].host][HtmlItem(request[r].input.render)]
       IN  request' = [request EXCEPT ![r] =
              IF found.left = 0 THEN [@ EXCEPT !.pc = "cacheHtml"]
              ELSE Checked([@ EXCEPT !.html = found.value])]
    /\ UNCHANGED <<table, cache, events, charged, known, barred>>

\* renderCached: render and set; then enqueue is called.
CacheHtml(r) ==
    /\ request[r].pc = "cacheHtml"
    /\ LET x == request[r].input.render
       IN  /\ Put(request[r].host, HtmlItem(x), x, HtmlTtl)
           /\ request' = [request EXCEPT ![r] = Checked([@ EXCEPT !.html = x])]
    /\ UNCHANGED <<table, events, charged, known, barred>>

\* ensureRecipientsAreAllowed: only options.to is passed to it.
CheckSuppression(r) ==
    /\ request[r].pc = "suppression"
    /\ IF Blocked(ToSet(r)) # {} THEN Answer(r, "blocked", None)
       ELSE Go(r, IF Truthy(Key(r)) THEN "cached" ELSE RatePhase)
    /\ UNCHANGED <<table, cache, events, charged, known, barred>>

\* findByIdempotencyKey: cacheManager.get
LookUpCache(r) ==
    /\ request[r].pc = "cached"
    /\ LET found == cache[request[r].host][Item("key", Key(r))]
       IN  request' = [request EXCEPT
              ![r].pc = IF found.left = 0 THEN "stored" ELSE "cachedId",
              ![r].mail = found.value]
    /\ UNCHANGED <<table, cache, events, charged, known, barred>>

\* findOne by the cached id; a row that is not there sends us to the key.
LookUpId(r) ==
    /\ request[r].pc = "cachedId"
    /\ IF request[r].mail \in table THEN Answer(r, "existing", request[r].mail)
                                    ELSE Go(r, "stored")
    /\ UNCHANGED <<table, cache, events, charged, known, barred>>

\* The cache alone decides.
CacheOnlyMutant(r) ==
    /\ request[r].pc = "stored"
    /\ Go(r, RatePhase)
    /\ UNCHANGED <<table, cache, events, charged, known, barred>>

\* findOne by idempotencyKey
LookUpKey(r) ==
    /\ request[r].pc = "stored"
    /\ \/ \E m \in RowsWithKey(Key(r)) : Answer(r, "existing", m)
       \/ RowsWithKey(Key(r)) = {} /\ Go(r, RatePhase)
    /\ UNCHANGED <<table, cache, events, charged, known, barred>>

\* checkAndIncrementRecipientCounter: get and compare, for the address as spelled.
ReadCounter(r) ==
    /\ request[r].pc = "count"
    /\ LET count == Count(request[r].host, Current(r))
       IN  IF count >= RateLimitMax THEN Answer(r, "limited", None)
           ELSE request' = [request EXCEPT ![r].pc = "increment", ![r].read = count]
    /\ UNCHANGED <<table, cache, events, charged, known, barred>>

\* The increment a request makes now; it makes one for each of its recipients.
Charge(r) == [by |-> r, index |-> request[r].index, age |-> 0, restarts |-> 0]

\* The window is not renewed: the entry keeps the time it has left.
WriteCounterMutant(r) ==
    /\ request[r].pc = "increment"
    /\ LET h == request[r].host
           old == cache[h][Item("count", Current(r))].left
           last == request[r].index = Len(To(r))
       IN  /\ Put(h, Item("count", Current(r)), request[r].read + 1,
                  IF old = 0 THEN RateLimitWindow ELSE old)
           /\ charged' = [charged EXCEPT ![h][Current(r)] = @ \cup {Charge(r)}]
           /\ request' = [request EXCEPT
                 ![r].pc = IF last THEN "insert" ELSE "count",
                 ![r].index = IF last THEN @ ELSE @ + 1]
    /\ UNCHANGED <<table, events, known, barred>>

\* set to what was read plus one, and on to the next recipient.
WriteCounter(r) ==
    /\ request[r].pc = "increment"
    /\ LET h == request[r].host
           last == request[r].index = Len(To(r))
       IN  /\ Put(h, Item("count", Current(r)), request[r].read + 1, RateLimitWindow)
           /\ charged' = [charged EXCEPT ![h][Current(r)] = @ \cup {Charge(r)}]
           /\ request' = [request EXCEPT
                 ![r].pc = IF last THEN "insert" ELSE "count",
                 ![r].index = IF last THEN @ ELSE @ + 1]
    /\ UNCHANGED <<table, events, known, barred>>

\* The column is not unique.
InsertMailMutant(r) ==
    /\ request[r].pc = "insert"
    /\ table' = table \cup {r}
    /\ IF Truthy(Key(r)) THEN Go(r, "cacheKey") ELSE Answer(r, "created", r)
    /\ UNCHANGED <<cache, events, charged, known, barred>>

\* The row that was refused is the answer.
RefusedRowMutant(r) ==
    /\ request[r].pc = "insert"
    /\ IF Key(r) # NoKey /\ RowsWithKey(Key(r)) # {}
       THEN Answer(r, "existing", r) /\ UNCHANGED table
       ELSE /\ table' = table \cup {r}
            /\ IF Truthy(Key(r)) THEN Go(r, "cacheKey") ELSE Answer(r, "created", r)
    /\ UNCHANGED <<cache, events, charged, known, barred>>

\* createAuditLog: the unique column refuses a second row with the key, '' too.
InsertMail(r) ==
    /\ request[r].pc = "insert"
    /\ IF Key(r) # NoKey /\ RowsWithKey(Key(r)) # {}
       THEN Answer(r, "duplicate", None) /\ UNCHANGED table
       ELSE /\ table' = table \cup {r}
            /\ IF Truthy(Key(r)) THEN Go(r, "cacheKey") ELSE Answer(r, "created", r)
    /\ UNCHANGED <<cache, events, charged, known, barred>>

\* The key is cached in the place of the id.
CacheKeyMutant(r) ==
    /\ request[r].pc = "cacheKey"
    /\ Put(request[r].host, Item("key", Key(r)), Key(r), KeyTtl)
    /\ Answer(r, "created", r)
    /\ UNCHANGED <<table, events, charged, known, barred>>

\* cacheMail, then publishQueued and the answer.
CacheKey(r) ==
    /\ request[r].pc = "cacheKey"
    /\ Put(request[r].host, Item("key", Key(r)), r, KeyTtl)
    /\ Answer(r, "created", r)
    /\ UNCHANGED <<table, events, charged, known, barred>>

-----------------------------------------------------------------------------
(* Time and failure.                                                       *)

Happens(kind, max) ==
    /\ events[kind] < max
    /\ events' = [events EXCEPT ![kind] = @ + 1]

\* One unit of the cache's clock passes; entries whose time is over are gone.
Tick ==
    /\ Happens("tick", MaxTicks)
    /\ cache' = [h \in Hosts |-> [item \in Items |->
          LET entry == cache[h][item]
          IN  IF entry.left > 1 THEN [entry EXCEPT !.left = @ - 1] ELSE NoEntry]]
    /\ charged' = [h \in Hosts |-> [a \in Addresses |->
          {[c EXCEPT !.age = @ + 1] : c \in {d \in charged[h][a] : d.age + 1 < RateLimitWindow}}]]
    /\ UNCHANGED <<request, table, known, barred>>

\* A query fails before it changed anything; the error is the answer.
QueryFails(r) ==
    /\ request[r].pc \in {"suppression", "cachedId", "stored", "insert"}
    /\ Happens("fault", MaxFaults)
    /\ Answer(r, "failed", None)
    /\ UNCHANGED <<table, cache, charged, known, barred>>

\* The COMMIT of the insertion took effect but its answer was lost: save rejects.
InsertAnswerLost(r) ==
    /\ request[r].pc = "insert"
    /\ Key(r) = NoKey \/ RowsWithKey(Key(r)) = {}
    /\ Happens("fault", MaxFaults)
    /\ table' = table \cup {r}
    /\ Answer(r, "failed", None)
    /\ UNCHANGED <<cache, charged, known, barred>>

\* A host restarts: its cache is empty and its requests get no answer.
Restart(h) ==
    /\ Happens("restart", MaxRestarts)
    /\ cache' = [cache EXCEPT ![h] = EmptyCache]
    /\ charged' = [charged EXCEPT ![h] = [a \in Addresses |->
          {[c EXCEPT !.restarts = @ + 1] : c \in charged[h][a]}]]
    /\ request' = [r \in Requests |->
          IF r \in InFlight /\ request[r].host = h
          THEN [request[r] EXCEPT !.pc = "answered", !.kind = "lost", !.mail = None]
          ELSE request[r]]
    /\ UNCHANGED <<table, known, barred>>

RequestStep(r) ==
    \/ Begin(r) \/ LookUpHtml(r) \/ CacheHtml(r) \/ CheckSuppression(r)
    \/ LookUpCache(r) \/ LookUpId(r) \/ LookUpKey(r)
    \/ ReadCounter(r) \/ WriteCounter(r) \/ InsertMail(r) \/ CacheKey(r)
    \/ QueryFails(r) \/ InsertAnswerLost(r)

\* The list changes under the requests; barred forgets what was taken off.
ListStep ==
    /\ SuppressionNext
    /\ barred' = [r \in Requests |-> {a \in barred[r] : entries'[a] = "active"}]
    /\ UNCHANGED <<request, table, cache, events, charged, known>>

Init == SuppressionInit /\ EnqueueInit

Next ==
    \/ (\E r \in Requests : RequestStep(r)) /\ UNCHANGED suppressionVars
    \/ Tick /\ UNCHANGED suppressionVars
    \/ (\E h \in Hosts : Restart(h)) /\ UNCHANGED suppressionVars
    \/ ListStep

Spec == Init /\ [][Next]_vars

-----------------------------------------------------------------------------
TypeOK ==
    /\ request \in [Requests -> Request]
    /\ table \subseteq Requests
    /\ cache \in [Hosts -> [Items -> Entry]]
    /\ \A h \in Hosts :
          /\ \A k \in Keys :
                cache[h][Item("key", k)].value \in Requests \cup {None}
          /\ \A x \in Renders :
                cache[h][Item("html", x)].value \in Renders \cup {None}
          /\ \A a \in Addresses : Count(h, a) \in Nat
    /\ events \in [{"tick", "restart", "fault"} -> Nat]
    /\ charged \in [Hosts -> [Addresses -> SUBSET Charges]]
    /\ known \subseteq Requests
    /\ barred \in [Requests -> SUBSET Addresses]

\* Whatever races, expiries, restarts and failing queries happen, the requests
\* with one key that are answered with a mail are all answered with the same one.
SameKeySameMail == \A r, s \in Requests :
    /\ {request[r].kind, request[s].kind} \subseteq {"created", "existing"}
    /\ Key(r) = Key(s) /\ Key(r) # NoKey
    => request[r].mail = request[s].mail

\* A repeat that starts after its key is stored creates nothing.  It is answered
\* with the stored mail, or refused by the checks that come first: it fails on no
\* duplicate key and is never refused or counted by the rate limit.  Only a repeat
\* of the key '', which is stored but never looked up, fails as a duplicate.
RepeatAnswersStored == \A r \in known :
    /\ request[r].kind # "created"
    /\ Truthy(Key(r)) =>
          /\ request[r].kind \notin {"limited", "duplicate"}
          /\ request[r].pc \notin {"count", "increment", "insert", "cacheKey"}

\* An address that was on the list before a request began, and is not taken off
\* meanwhile, gets no mail from it under any spelling, as a "to" recipient.
BarredGetNoMail == \A r \in table : \A a \in ToSet(r) : Lower[a] \notin barred[r]

\* The requests of a host share rendered templates, yet every mail carries the
\* html of its own template and its own context.
HtmlIsItsOwn == \A r \in table : request[r].html = request[r].input.render

\* While requests are served one at a time, a host lets through at most
\* RateLimitMax messages per address in any RateLimitWindow since its last start,
\* although every message renews the time of the counter and refused and failed
\* requests leave increments.  A restart empties the counters, so every restart
\* within a window may let through as many again, and no more.
RateLimitHolds == \A h \in Hosts, a \in Addresses : \A c \in charged[h][a] :
    Cardinality({d \in charged[h][a] : d.restarts = c.restarts}) <= RateLimitMax

\* How a request stands with the client that made it.
Phase(r) == LET q == request[r] IN
    CASE q.pc = "new" -> "new"
      [] q.pc \notin {"new", "answered"} -> "open"
      [] q.pc = "answered" /\ q.kind \in {"created", "existing"} -> "answered"
      [] q.pc = "answered" /\ q.kind = "lost" -> "lost"
      [] q.pc = "answered" /\ q.kind \in {"duplicate", "failed"} -> "failed"
      [] OTHER -> "refused"

Intake == INSTANCE MailIntake WITH
    phase <- [r \in Requests |-> Phase(r)],
    key <- [r \in Requests |-> IF request[r].pc = "new" THEN NoKey ELSE Key(r)],
    stored <- table,
    answer <- [r \in Requests |-> IF Phase(r) = "answered" THEN request[r].mail ELSE None],
    repeats <- known

\* Of all the steps, checks and caches of enqueue a client sees an intake that
\* stores a mail for a key once, answers with stored mails and stores nothing for
\* whom it refuses with a 4xx answer; only an answer 500 or none leaves the client
\* in doubt.  Races, expiries, restarts and failing queries change nothing in this.
ImplementsIntake == Intake!IntakeSpec

\* "duplicate requests with same idempotency key return existing mail record":
\* no request fails because its key is stored.
NoDuplicateError == \A r \in Requests : request[r].kind # "duplicate"

\* The list blocks every recipient of a mail, whatever header names it.
BarredGetNoCopy == \A r \in table :
    \A a \in ToSet(r) \cup request[r].input.cc : Lower[a] \notin barred[r]
=============================================================================
