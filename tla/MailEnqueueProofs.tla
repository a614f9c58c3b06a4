-------------------------- MODULE MailEnqueueProofs --------------------------
(***************************************************************************)
(* Proofs about MailEnqueue, for any requests, inputs, hosts, keys, times  *)
(* to live and limits, any number of requests at a time and any number of  *)
(* ticks, restarts and failing queries.                                    *)
(***************************************************************************)
EXTENDS MailEnqueue, FiniteSetTheorems, TLAPS

\* The ways a step changes the record of a request.
MoveTo(q, pc) == [q EXCEPT !.pc = pc]
AnswerWith(q, kind, mail) == [q EXCEPT !.pc = "answered", !.kind = kind, !.mail = mail]
MailFound(q, pc, mail) == [q EXCEPT !.pc = pc, !.mail = mail]
CountRead(q, pc, n) == [q EXCEPT !.pc = pc, !.read = n]
NextRecipient(q, pc, n) == [q EXCEPT !.pc = pc, !.index = n]
HtmlSet(q, x) == [q EXCEPT !.html = x]
Arrived(q, host, input) == [q EXCEPT !.host = host, !.input = input]

\* q and new differ in progress, and perhaps in what no part of Local looks at.
SameButPc(new, q, pc) ==
    /\ new \in Request /\ new.pc = pc /\ new.host = q.host /\ new.input = q.input
    /\ new.html = q.html /\ new.kind = q.kind /\ new.index = q.index

LEMMA RecordUpdates ==
    ASSUME NEW q \in Request
    PROVE  /\ \A pc \in Pcs : SameButPc(MoveTo(q, pc), q, pc) /\ MoveTo(q, pc).mail = q.mail
           /\ \A pc \in Pcs, mail \in Requests \cup {None} :
                 /\ SameButPc(MailFound(q, pc, mail), q, pc)
                 /\ MailFound(q, pc, mail).mail = mail
           /\ \A pc \in Pcs, n \in Nat :
                 /\ SameButPc(CountRead(q, pc, n), q, pc)
                 /\ CountRead(q, pc, n).mail = q.mail
<1>1. \A pc \in Pcs : SameButPc(MoveTo(q, pc), q, pc) /\ MoveTo(q, pc).mail = q.mail
  BY DEF Request, MoveTo, SameButPc
<1>2. \A pc \in Pcs, mail \in Requests \cup {None} :
         /\ SameButPc(MailFound(q, pc, mail), q, pc)
         /\ MailFound(q, pc, mail).mail = mail
  BY DEF Request, MailFound, SameButPc
<1>3. \A pc \in Pcs, n \in Nat :
         SameButPc(CountRead(q, pc, n), q, pc) /\ CountRead(q, pc, n).mail = q.mail
  BY DEF Request, CountRead, SameButPc
<1> QED
  BY <1>1, <1>2, <1>3

LEMMA AnswerFields ==
    ASSUME NEW q \in Request, NEW kind \in Kinds, NEW mail \in Requests \cup {None}
    PROVE  /\ AnswerWith(q, kind, mail) \in Request
           /\ AnswerWith(q, kind, mail).pc = "answered"
           /\ AnswerWith(q, kind, mail).host = q.host
           /\ AnswerWith(q, kind, mail).input = q.input
           /\ AnswerWith(q, kind, mail).html = q.html
           /\ AnswerWith(q, kind, mail).index = q.index
           /\ AnswerWith(q, kind, mail).kind = kind
           /\ AnswerWith(q, kind, mail).mail = mail
<1>1. "answered" \in Pcs
  BY DEF Pcs
<1> QED
  BY <1>1 DEF Request, AnswerWith

LEMMA HtmlFields ==
    ASSUME NEW q \in Request, NEW x \in Renders \cup {NoRender}
    PROVE  /\ HtmlSet(q, x) \in Request
           /\ HtmlSet(q, x).pc = q.pc /\ HtmlSet(q, x).host = q.host
           /\ HtmlSet(q, x).input = q.input /\ HtmlSet(q, x).html = x
           /\ HtmlSet(q, x).kind = q.kind /\ HtmlSet(q, x).index = q.index
  BY DEF Request, HtmlSet

LEMMA NextFields ==
    ASSUME NEW q \in Request, NEW pc \in Pcs, NEW n \in Nat
    PROVE  /\ NextRecipient(q, pc, n) \in Request
           /\ NextRecipient(q, pc, n).pc = pc /\ NextRecipient(q, pc, n).host = q.host
           /\ NextRecipient(q, pc, n).input = q.input /\ NextRecipient(q, pc, n).html = q.html
           /\ NextRecipient(q, pc, n).kind = q.kind /\ NextRecipient(q, pc, n).index = n
  BY DEF Request, NextRecipient

LEMMA ArrivedFields ==
    ASSUME NEW q \in Request, NEW host \in Hosts, NEW input \in Inputs
    PROVE  /\ Arrived(q, host, input) \in Request
           /\ Arrived(q, host, input).pc = q.pc /\ Arrived(q, host, input).host = host
           /\ Arrived(q, host, input).input = input
           /\ Arrived(q, host, input).html = q.html
           /\ Arrived(q, host, input).kind = q.kind
           /\ Arrived(q, host, input).index = q.index
  BY DEF Request, Arrived

-----------------------------------------------------------------------------
(* The invariant.                                                          *)

Keyed == {"cached", "cachedId", "stored", "cacheKey"}
Chosen == Keyed \cup {"count", "increment", "insert"}

\* m is in the table and was asked for with key k.
HasKey(m, k) == m \in table /\ request[m].input.key = k

\* What is true of request r while its record is q.
Local(r, q) ==
    /\ q.pc # "new" => /\ q.host \in Hosts /\ q.input \in Inputs
                       /\ q.index \in DOMAIN q.input.to
    /\ q.pc = "new" => q.index = 1
    /\ q.pc # "answered" => q.kind = "none"
    /\ q.pc = "new" => q.html = NoRender
    /\ q.pc \in {"template", "cacheHtml"} => q.input.render \in Renders
    /\ q.pc \in Keyed => Truthy(q.input.key)
    /\ q.pc = "cachedId" => HasKey(q.mail, q.input.key)
    /\ q.pc = "cacheKey" => r \in table
    /\ r \in table => q.pc \in {"cacheKey", "answered"}
    /\ q.kind \in {"created", "existing"} /\ q.input.key # NoKey => HasKey(q.mail, q.input.key)
    /\ q.pc = "suppression" \/ q.pc \in Chosen \/ r \in table => q.html = q.input.render
    /\ q.pc \in Chosen \/ r \in table =>
          \A i \in DOMAIN q.input.to : Lower[q.input.to[i]] \notin barred[r]
    /\ r \in known =>
          /\ r \notin table /\ q.pc # "new" /\ q.kind # "created"
          /\ q.input.key # NoKey /\ \E m \in Requests : HasKey(m, q.input.key)
          /\ Truthy(q.input.key) =>
                /\ q.pc \notin {"count", "increment", "insert"}
                /\ q.kind \notin {"limited", "duplicate"}

\* What is true of a cache entry of an item.
Sound(item, entry) ==
    /\ entry \in Entry
    /\ \A k \in Keys : item = Item("key", k) =>
          /\ entry.value \in Requests \cup {None}
          /\ entry.left # 0 => HasKey(entry.value, k)
    /\ \A x \in Renders : item = Item("html", x) =>
          /\ entry.value \in Renders \cup {None}
          /\ entry.left # 0 => entry.value = x
    /\ \A a \in Addresses :
          item = Item("count", a) /\ entry.left # 0 => entry.value \in Nat

UniqueKeys == \A m, n \in table :
    request[m].input.key = request[n].input.key /\ request[m].input.key # NoKey => m = n

Typed ==
    /\ request \in [Requests -> Request]
    /\ table \subseteq Requests
    /\ cache \in [Hosts -> [Items -> Entry]]
    /\ known \subseteq Requests
    /\ barred \in [Requests -> SUBSET Addresses]

EnqueueInv ==
    /\ Typed
    /\ \A r \in Requests : Local(r, request[r])
    /\ \A h \in Hosts, item \in Items : Sound(item, cache[h][item])
    /\ UniqueKeys
    /\ \A r \in Requests : \A a \in barred[r] : entries[a] = "active"

LEMMA ItemsDiffer ==
    ASSUME NEW t, NEW o, NEW u, NEW p, Item(t, o) = Item(u, p)
    PROVE  t = u /\ o = p
<1>1. Item(t, o).type = t /\ Item(t, o).of = o /\ Item(u, p).type = u /\ Item(u, p).of = p
  BY DEF Item
<1> QED
  BY <1>1

LEMMA ItemsTyped ==
    /\ \A k \in Keys : Item("key", k) \in Items
    /\ \A x \in Renders : Item("html", x) \in Items
    /\ \A a \in Addresses : Item("count", a) \in Items
  BY DEF Items

LEMMA InputFields ==
    ASSUME NEW input \in Inputs
    PROVE  /\ input.key \in Keys \cup {NoKey} /\ input.to \in Seq(Addresses)
           /\ input.render \in Renders \cup {NoRender} /\ input.complete \in BOOLEAN
  BY InputsAssumption

-----------------------------------------------------------------------------
(* A step of request r replaces its record and may add its row.            *)

\* The table only grows, and a row's input is never changed.
LEMMA HasKeyKept ==
    ASSUME Typed, NEW r \in Requests, NEW q \in Request,
           request' = [request EXCEPT ![r] = q], table \subseteq table',
           r \in table => q.input = request[r].input,
           NEW m \in Requests, NEW k, HasKey(m, k)
    PROVE  HasKey(m, k)'
  BY DEF Typed, HasKey

LEMMA OthersKept ==
    ASSUME EnqueueInv, NEW r \in Requests, NEW q \in Request,
           request' = [request EXCEPT ![r] = q], table \subseteq table', table' \subseteq table \cup {r},
           r \in table => q.input = request[r].input,
           known' \subseteq known \cup {r},
           NEW s \in Requests, s # r, barred'[s] = barred[s]
    PROVE  Local(s, request[s])'
<1>1. request'[s] = request[s]
  BY DEF EnqueueInv, Typed
<1>2. Local(s, request[s]) /\ request[s] \in Request
  BY DEF EnqueueInv, Typed
<1>3. \A m \in Requests : \A k : HasKey(m, k) => HasKey(m, k)'
  BY HasKeyKept DEF EnqueueInv
<1>4. \A m, k : HasKey(m, k) => m \in Requests
  BY DEF HasKey, EnqueueInv, Typed
<1>5. \A m, k : HasKey(m, k) => HasKey(m, k)'
  BY <1>3, <1>4
<1>6. /\ (s \in table)' <=> s \in table
      /\ (s \in known)' => s \in known
  OBVIOUS
<1> QED
  BY <1>1, <1>2, <1>5, <1>6 DEF Local

LEMMA SoundKept ==
    ASSUME EnqueueInv, NEW r \in Requests, NEW q \in Request,
           request' = [request EXCEPT ![r] = q], table \subseteq table',
           r \in table => q.input = request[r].input,
           NEW item, NEW entry, Sound(item, entry)
    PROVE  Sound(item, entry)'
<1>1. \A m \in Requests : \A k : HasKey(m, k) => HasKey(m, k)'
  BY HasKeyKept DEF EnqueueInv
<1>2. \A m, k : HasKey(m, k) => m \in Requests
  BY DEF HasKey, EnqueueInv, Typed
<1>3. \A m, k : HasKey(m, k) => HasKey(m, k)'
  BY <1>1, <1>2
<1> QED
  BY <1>3 DEF Sound

\* A step of r that leaves the table and the cache alone.
LEMMA StepKept ==
    ASSUME EnqueueInv, NEW r \in Requests, NEW q \in Request,
           request' = [request EXCEPT ![r] = q],
           q.input = request[r].input,
           UNCHANGED <<entries, table, cache, known, barred>>,
           Local(r, q)'
    PROVE  EnqueueInv'
<1>1. /\ request' \in [Requests -> Request] /\ request'[r] = q
      /\ \A s \in Requests : request'[s].input = request[s].input
  BY DEF EnqueueInv, Typed
<1>2. Typed'
  BY <1>1 DEF EnqueueInv, Typed
<1>3. \A s \in Requests : Local(s, request[s])'
  BY <1>1, OthersKept
<1>4. \A h \in Hosts, item \in Items : Sound(item, cache[h][item])'
  BY SoundKept DEF EnqueueInv
<1>5. UniqueKeys'
  BY <1>1 DEF EnqueueInv, Typed, UniqueKeys
<1>6. \A s \in Requests : \A a \in barred'[s] : entries'[a] = "active"
  BY DEF EnqueueInv
<1> QED
  BY <1>2, <1>3, <1>4, <1>5, <1>6 DEF EnqueueInv

\* What a step may use of the request it takes up.
LEMMA AtPc ==
    ASSUME EnqueueInv, NEW r \in Requests
    PROVE  /\ request[r] \in Request /\ Local(r, request[r])
           /\ request[r].pc # "new" =>
                 /\ request[r].host \in Hosts /\ request[r].input \in Inputs
                 /\ Key(r) \in Keys \cup {NoKey}
           /\ request \in [Requests -> Request]
  BY InputFields DEF EnqueueInv, Typed, Local, Key

\* What Local says does not depend on a step that keeps table, inputs and history.
LEMMA LocalOf ==
    ASSUME EnqueueInv, NEW r \in Requests, NEW q \in Request,
           request' = [request EXCEPT ![r] = q], q.input = request[r].input,
           UNCHANGED <<table, known, barred>>, Local(r, q)
    PROVE  Local(r, q)'
<1>1. \A m \in Requests : \A k : HasKey(m, k) => HasKey(m, k)'
  BY HasKeyKept DEF EnqueueInv
<1>2. \A m, k : HasKey(m, k) => m \in Requests
  BY DEF HasKey, EnqueueInv, Typed
<1>3. \A m, k : HasKey(m, k) => HasKey(m, k)'
  BY <1>1, <1>2
<1> QED
  BY <1>3 DEF Local

LEMMA RecordKept ==
    ASSUME EnqueueInv, NEW r \in Requests, NEW q \in Request,
           request' = [request EXCEPT ![r] = q], q.input = request[r].input,
           UNCHANGED <<entries, table, cache, known, barred>>, Local(r, q)
    PROVE  EnqueueInv'
  BY LocalOf, StepKept

LEMMA CheckSuppressionKeeps ==
    ASSUME EnqueueInv, NEW r \in Requests, CheckSuppression(r), UNCHANGED suppressionVars
    PROVE  EnqueueInv'
<1> DEFINE old == request[r]
<1>1. old \in Request /\ Local(r, old) /\ old.pc = "suppression"
  BY AtPc DEF CheckSuppression
<1>2. UNCHANGED <<entries, table, cache, known, barred>>
  BY DEF CheckSuppression, suppressionVars
<1>3. CASE Blocked(ToSet(r)) # {}
  <2> DEFINE q == AnswerWith(old, "blocked", None)
  <2>1. "blocked" \in Kinds /\ None \in Requests \cup {None}
    BY DEF Kinds
  <2>2. /\ q \in Request /\ q.pc = "answered" /\ q.host = old.host /\ q.input = old.input
        /\ q.html = old.html /\ q.index = old.index /\ q.kind = "blocked"
    BY <1>1, <2>1, AnswerFields
  <2>3. request' = [request EXCEPT ![r] = q]
    BY <1>3 DEF CheckSuppression, Answer, AnswerWith
  <2> HIDE DEF q
  <2>4. Local(r, q)
    BY <1>1, <2>2 DEF Local, Chosen, Keyed
  <2> QED
    BY <1>2, <2>2, <2>3, <2>4, RecordKept
<1>4. CASE Blocked(ToSet(r)) = {}
  <2> DEFINE pc == IF Truthy(Key(r)) THEN "cached" ELSE RatePhase
             q == MoveTo(old, pc)
  <2>1. /\ pc \in Pcs /\ pc \in {"cached", "count", "insert"}
        /\ pc = "cached" <=> Truthy(Key(r))
    BY DEF Pcs, RatePhase
  <2>2. SameButPc(q, old, pc)
    BY <1>1, <2>1, RecordUpdates
  <2>3. request' = [request EXCEPT ![r] = q]
    BY <1>4 DEF CheckSuppression, Go, MoveTo
  <2>4. \A i \in DOMAIN old.input.to : Lower[old.input.to[i]] \notin barred[r]
    <3>1. \A i \in DOMAIN old.input.to :
             old.input.to[i] \in ToSet(r) /\ entries[Lower[old.input.to[i]]] # "active"
      BY <1>4 DEF ToSet, To, Blocked
    <3> QED
      BY <3>1 DEF EnqueueInv
  <2> HIDE DEF q, pc
  <2>5. Local(r, q)
    BY <1>1, <2>1, <2>2, <2>4 DEF Local, Chosen, Keyed, Key, SameButPc
  <2> QED
    BY <1>2, <2>2, <2>3, <2>5, RecordKept DEF SameButPc
<1> QED
  BY <1>3, <1>4

LEMMA CheckedFields ==
    ASSUME NEW q \in Request
    PROVE  /\ Checked(q) \in Request /\ Checked(q).host = q.host
           /\ Checked(q).input = q.input /\ Checked(q).html = q.html
           /\ Checked(q).index = q.index
           /\ \/ Checked(q).pc = "suppression" /\ Checked(q).kind = q.kind
              \/ Checked(q).pc = "answered" /\ Checked(q).kind = "invalid"
<1>1. "suppression" \in Pcs /\ "answered" \in Pcs /\ "invalid" \in Kinds
  BY DEF Pcs, Kinds
<1>2. CASE q.input.complete
  <2>1. Checked(q) = [q EXCEPT !.pc = "suppression"]
    BY <1>2 DEF Checked
  <2> QED
    BY <1>1, <2>1 DEF Request
<1>3. CASE ~q.input.complete
  <2>1. Checked(q) = [q EXCEPT !.pc = "answered", !.kind = "invalid"]
    BY <1>3 DEF Checked
  <2> QED
    BY <1>1, <2>1 DEF Request
<1> QED
  BY <1>2, <1>3

\* A look into the cache for a rendered body finds that body or nothing.
LEMMA LookUpHtmlKeeps ==
    ASSUME EnqueueInv, NEW r \in Requests, LookUpHtml(r), UNCHANGED suppressionVars
    PROVE  EnqueueInv'
<1> DEFINE old == request[r]
           x == old.input.render
           found == cache[old.host][HtmlItem(x)]
<1>1. /\ old \in Request /\ Local(r, old) /\ old.pc = "template"
      /\ old.host \in Hosts /\ old.input \in Inputs
  BY AtPc DEF LookUpHtml
<1>2. UNCHANGED <<entries, table, cache, known, barred>>
  BY DEF LookUpHtml, suppressionVars
<1>3. CASE found.left = 0
  <2>1. "cacheHtml" \in Pcs
    BY DEF Pcs
  <2>2. SameButPc(MoveTo(old, "cacheHtml"), old, "cacheHtml")
    BY <1>1, <2>1, RecordUpdates
  <2>3. request' = [request EXCEPT ![r] = MoveTo(old, "cacheHtml")]
    BY <1>3 DEF LookUpHtml, MoveTo
  <2>4. Local(r, MoveTo(old, "cacheHtml"))
    BY <1>1, <2>2 DEF Local, Chosen, Keyed, SameButPc
  <2> QED
    BY <1>2, <2>2, <2>3, <2>4, RecordKept DEF SameButPc
<1>4. CASE found.left # 0
  <2> DEFINE v == found.value
             q == Checked(HtmlSet(old, v))
  <2>1. x = NoRender \/ v = x
    <3>1. x \in Renders => HtmlItem(x) \in Items
      BY ItemsTyped DEF HtmlItem
    <3>2. x \in Renders => Sound(HtmlItem(x), found)
      BY <1>1, <3>1 DEF EnqueueInv
    <3> QED
      BY <1>1, <1>4, <3>2, InputFields DEF Sound, HtmlItem
  <2>2. x \in Renders
    BY <1>1 DEF Local
  <2>3. HtmlSet(old, v) \in Request /\ v = x
    BY <1>1, <2>1, <2>2, HtmlFields, NoRenderAssumption
  <2>4. /\ q \in Request /\ q.host = old.host /\ q.input = old.input /\ q.html = x
        /\ q.index = old.index
        /\ \/ q.pc = "suppression" /\ q.kind = old.kind
           \/ q.pc = "answered" /\ q.kind = "invalid"
    BY <1>1, <2>2, <2>3, HtmlFields, CheckedFields
  <2>5. request' = [request EXCEPT ![r] = q]
    BY <1>4 DEF LookUpHtml, HtmlSet
  <2> HIDE DEF q
  <2>6. Local(r, q)
    BY <1>1, <2>4 DEF Local, Chosen, Keyed
  <2> QED
    BY <1>2, <2>4, <2>5, <2>6, RecordKept
<1> QED
  BY <1>3, <1>4

LEMMA LookUpCacheKeeps ==
    ASSUME EnqueueInv, NEW r \in Requests, LookUpCache(r), UNCHANGED suppressionVars
    PROVE  EnqueueInv'
<1> DEFINE old == request[r]
           k == old.input.key
           found == cache[old.host][Item("key", k)]
           pc == IF found.left = 0 THEN "stored" ELSE "cachedId"
           q == MailFound(old, pc, found.value)
<1>1. /\ old \in Request /\ Local(r, old) /\ old.pc = "cached"
      /\ old.host \in Hosts /\ old.input \in Inputs /\ k \in Keys
  <2>1. /\ old \in Request /\ Local(r, old) /\ old.pc = "cached"
        /\ old.host \in Hosts /\ old.input \in Inputs /\ k \in Keys \cup {NoKey}
    BY AtPc DEF LookUpCache, Key
  <2> QED
    BY <2>1 DEF Local, Keyed, Truthy
<1>2. UNCHANGED <<entries, table, cache, known, barred>>
  BY DEF LookUpCache, suppressionVars
<1>3. Sound(Item("key", k), found)
  BY <1>1, ItemsTyped DEF EnqueueInv
<1>4. found.value \in Requests \cup {None} /\ pc \in Pcs
      /\ (found.left # 0 => HasKey(found.value, k))
  BY <1>1, <1>3 DEF Sound, Pcs
<1>5. SameButPc(q, old, pc) /\ q.mail = found.value
  BY <1>1, <1>4, RecordUpdates
<1>6. request' = [request EXCEPT ![r] = q]
  BY DEF LookUpCache, MailFound, Key
<1>7. pc \in {"stored", "cachedId"} /\ (pc = "cachedId" => HasKey(q.mail, k))
  BY <1>4, <1>5
<1> HIDE DEF q, pc, found
<1>8. Local(r, q)
  BY <1>1, <1>5, <1>7 DEF Local, Chosen, Keyed, SameButPc
<1> QED
  BY <1>2, <1>5, <1>6, <1>8, RecordKept DEF SameButPc

LEMMA LookUpIdKeeps ==
    ASSUME EnqueueInv, NEW r \in Requests, LookUpId(r), UNCHANGED suppressionVars
    PROVE  EnqueueInv'
<1> DEFINE old == request[r]
<1>1. old \in Request /\ Local(r, old) /\ old.pc = "cachedId"
  BY AtPc DEF LookUpId
<1>2. UNCHANGED <<entries, table, cache, known, barred>>
  BY DEF LookUpId, suppressionVars
<1>3. old.mail \in table /\ HasKey(old.mail, old.input.key) /\ old.mail \in Requests
  BY <1>1 DEF Local, HasKey, EnqueueInv, Typed
<1> DEFINE q == AnswerWith(old, "existing", old.mail)
<1>4. "existing" \in Kinds
  BY DEF Kinds
<1>5. /\ q \in Request /\ q.pc = "answered" /\ q.host = old.host /\ q.input = old.input
      /\ q.html = old.html /\ q.index = old.index /\ q.kind = "existing" /\ q.mail = old.mail
  BY <1>1, <1>3, <1>4, AnswerFields
<1>6. request' = [request EXCEPT ![r] = q]
  BY <1>3 DEF LookUpId, Answer, AnswerWith
<1> HIDE DEF q
<1>7. Local(r, q)
  BY <1>1, <1>3, <1>5 DEF Local, Chosen, Keyed
<1> QED
  BY <1>2, <1>5, <1>6, <1>7, RecordKept

LEMMA LookUpKeyKeeps ==
    ASSUME EnqueueInv, NEW r \in Requests, LookUpKey(r), UNCHANGED suppressionVars
    PROVE  EnqueueInv'
<1> DEFINE old == request[r]
<1>1. old \in Request /\ Local(r, old) /\ old.pc = "stored"
  BY AtPc DEF LookUpKey
<1>2. UNCHANGED <<entries, table, cache, known, barred>>
  BY DEF LookUpKey, suppressionVars
<1>3. ASSUME NEW m \in RowsWithKey(Key(r)), Answer(r, "existing", m)
      PROVE  EnqueueInv'
  <2> DEFINE q == AnswerWith(old, "existing", m)
  <2>1. m \in Requests /\ HasKey(m, old.input.key)
    BY <1>3 DEF RowsWithKey, Key, HasKey, EnqueueInv, Typed
  <2>2. "existing" \in Kinds
    BY DEF Kinds
  <2>3. /\ q \in Request /\ q.pc = "answered" /\ q.host = old.host /\ q.input = old.input
        /\ q.html = old.html /\ q.index = old.index /\ q.kind = "existing" /\ q.mail = m
    BY <1>1, <2>1, <2>2, AnswerFields
  <2>4. request' = [request EXCEPT ![r] = q]
    BY <1>3 DEF Answer, AnswerWith
  <2> HIDE DEF q
  <2>5. Local(r, q)
    BY <1>1, <2>1, <2>3 DEF Local, Chosen, Keyed
  <2> QED
    BY <1>2, <2>3, <2>4, <2>5, RecordKept
<1>4. ASSUME RowsWithKey(Key(r)) = {}, Go(r, RatePhase)
      PROVE  EnqueueInv'
  <2> DEFINE q == MoveTo(old, RatePhase)
  <2>1. RatePhase \in Pcs /\ RatePhase \in {"count", "insert"}
    BY DEF RatePhase, Pcs
  <2>2. SameButPc(q, old, RatePhase)
    BY <1>1, <2>1, RecordUpdates
  <2>3. request' = [request EXCEPT ![r] = q]
    BY <1>4 DEF Go, MoveTo
  <2>4. r \notin known
    <3>1. \A m \in Requests : ~HasKey(m, old.input.key)
      BY <1>4 DEF RowsWithKey, Key, HasKey
    <3> QED
      BY <1>1, <3>1 DEF Local
  <2> HIDE DEF q
  <2>5. Local(r, q)
    BY <1>1, <2>1, <2>2, <2>4 DEF Local, Chosen, Keyed, SameButPc
  <2> QED
    BY <1>2, <2>2, <2>3, <2>5, RecordKept DEF SameButPc
<1> QED
  BY <1>3, <1>4 DEF LookUpKey

\* A step of r that also writes one item of one cache.
LEMMA PutKept ==
    ASSUME EnqueueInv, NEW r \in Requests, NEW q \in Request,
           request' = [request EXCEPT ![r] = q], q.input = request[r].input,
           NEW h \in Hosts, NEW item, NEW value, NEW ttl \in Nat, Put(h, item, value, ttl),
           Sound(item, [value |-> value, left |-> ttl]),
           UNCHANGED <<entries, table, known, barred>>, Local(r, q)
    PROVE  EnqueueInv'
<1> DEFINE entry == [value |-> value, left |-> ttl]
<1>1. Local(r, q)'
  BY LocalOf
<1>2. /\ request' \in [Requests -> Request] /\ request'[r] = q
      /\ \A s \in Requests : request'[s].input = request[s].input
  BY DEF EnqueueInv, Typed
<1>3. \A s \in Requests : Local(s, request[s])'
  BY <1>1, <1>2, OthersKept
<1>4. cache \in [Hosts -> [Items -> Entry]] /\ entry \in Entry
  BY DEF EnqueueInv, Typed, Sound
<1>5. cache' = [cache EXCEPT ![h][item] = entry]
  BY DEF Put
<1>6. \A g \in Hosts, i \in Items :
         cache'[g][i] = cache[g][i] \/ (i = item /\ cache'[g][i] = entry)
  BY <1>4, <1>5
<1>7. cache' \in [Hosts -> [Items -> Entry]]
  <2>1. [cache[h] EXCEPT ![item] = entry] \in [Items -> Entry]
    BY <1>4
  <2>2. cache' = [cache EXCEPT ![h] = [cache[h] EXCEPT ![item] = entry]]
    BY <1>5
  <2> QED
    BY <1>4, <2>1, <2>2
<1>8. \A m, k : HasKey(m, k) => HasKey(m, k)'
  <2>1. \A m \in Requests : \A k : HasKey(m, k) => HasKey(m, k)'
    BY HasKeyKept DEF EnqueueInv
  <2> QED
    BY <2>1 DEF HasKey, EnqueueInv, Typed
<1>9. ASSUME NEW g \in Hosts, NEW i \in Items
      PROVE  Sound(i, cache[g][i])'
  <2>1. Sound(i, cache'[g][i])
    BY <1>6 DEF EnqueueInv
  <2> QED
    BY <2>1, <1>8 DEF Sound
<1>10. Typed'
  BY <1>2, <1>7 DEF EnqueueInv, Typed
<1>11. UniqueKeys'
  BY <1>2 DEF EnqueueInv, Typed, UniqueKeys
<1>12. \A s \in Requests : \A a \in barred'[s] : entries'[a] = "active"
  BY DEF EnqueueInv
<1> QED
  BY <1>3, <1>9, <1>10, <1>11, <1>12 DEF EnqueueInv

\* The entries the requests write are sound.
LEMMA WrittenIsSound ==
    ASSUME NEW ttl \in Nat
    PROVE  /\ \A x \in Renders : Sound(Item("html", x), [value |-> x, left |-> ttl])
           /\ \A a \in Addresses, n \in Nat :
                 Sound(Item("count", a), [value |-> n, left |-> ttl])
           /\ \A k \in Keys, m \in Requests : HasKey(m, k) =>
                 Sound(Item("key", k), [value |-> m, left |-> ttl])
<1>1. \A t, o, u, p : Item(t, o) = Item(u, p) => t = u /\ o = p
  BY ItemsDiffer
<1>2. \A v \in Requests \cup Nat \cup Renders : [value |-> v, left |-> ttl] \in Entry
  BY DEF Entry, Values
<1>3. ASSUME NEW x \in Renders
      PROVE  Sound(Item("html", x), [value |-> x, left |-> ttl])
  BY <1>1, <1>2 DEF Sound
<1>4. ASSUME NEW a \in Addresses, NEW n \in Nat
      PROVE  Sound(Item("count", a), [value |-> n, left |-> ttl])
  BY <1>1, <1>2 DEF Sound
<1>5. ASSUME NEW k \in Keys, NEW m \in Requests, HasKey(m, k)
      PROVE  Sound(Item("key", k), [value |-> m, left |-> ttl])
  BY <1>1, <1>2, <1>5 DEF Sound
<1> QED
  BY <1>3, <1>4, <1>5

LEMMA CacheHtmlKeeps ==
    ASSUME EnqueueInv, NEW r \in Requests, CacheHtml(r), UNCHANGED suppressionVars
    PROVE  EnqueueInv'
<1> DEFINE old == request[r]
           x == old.input.render
           q == Checked(HtmlSet(old, x))
<1>1. /\ old \in Request /\ Local(r, old) /\ old.pc = "cacheHtml"
      /\ old.host \in Hosts /\ x \in Renders
  BY AtPc DEF CacheHtml, Local
<1>2. UNCHANGED <<entries, table, known, barred>> /\ HtmlTtl \in Nat
  BY LimitsAssumption DEF CacheHtml, suppressionVars
<1>3. HtmlSet(old, x) \in Request
  BY <1>1, HtmlFields
<1>4. /\ q \in Request /\ q.host = old.host /\ q.input = old.input /\ q.html = x
      /\ q.index = old.index
      /\ \/ q.pc = "suppression" /\ q.kind = old.kind
         \/ q.pc = "answered" /\ q.kind = "invalid"
  BY <1>1, <1>3, HtmlFields, CheckedFields
<1>5. request' = [request EXCEPT ![r] = q]
  BY DEF CacheHtml, HtmlSet
<1>6. Put(old.host, Item("html", x), x, HtmlTtl)
  BY DEF CacheHtml, HtmlItem
<1>7. Sound(Item("html", x), [value |-> x, left |-> HtmlTtl])
  BY <1>1, <1>2, WrittenIsSound
<1> HIDE DEF q
<1>8. Local(r, q)
  BY <1>1, <1>4 DEF Local, Chosen, Keyed
<1> QED
  BY <1>1, <1>2, <1>4, <1>5, <1>6, <1>7, <1>8, PutKept

LEMMA ReadCounterKeeps ==
    ASSUME EnqueueInv, NEW r \in Requests, ReadCounter(r), UNCHANGED suppressionVars
    PROVE  EnqueueInv'
<1> DEFINE old == request[r]
           count == Count(old.host, Current(r))
<1>1. /\ old \in Request /\ Local(r, old) /\ old.pc = "count"
      /\ old.host \in Hosts /\ old.input \in Inputs
  BY AtPc DEF ReadCounter
<1>2. UNCHANGED <<entries, table, cache, known, barred>>
  BY DEF ReadCounter, suppressionVars
<1>3. CASE count >= RateLimitMax
  <2> DEFINE q == AnswerWith(old, "limited", None)
  <2>1. "limited" \in Kinds
    BY DEF Kinds
  <2>2. /\ q \in Request /\ q.pc = "answered" /\ q.host = old.host /\ q.input = old.input
        /\ q.html = old.html /\ q.index = old.index /\ q.kind = "limited"
    BY <1>1, <2>1, AnswerFields
  <2>3. request' = [request EXCEPT ![r] = q]
    BY <1>3 DEF ReadCounter, Answer, AnswerWith
  <2> HIDE DEF q
  <2>4. Local(r, q)
    BY <1>1, <2>2 DEF Local, Chosen, Keyed
  <2> QED
    BY <1>2, <2>2, <2>3, <2>4, RecordKept
<1>4. CASE ~(count >= RateLimitMax)
  <2> DEFINE q == CountRead(old, "increment", count)
  <2>1. Current(r) \in Addresses
    BY <1>1, InputFields DEF Current, To, Local
  <2>2. Sound(Item("count", Current(r)), cache[old.host][Item("count", Current(r))])
    BY <1>1, <2>1, ItemsTyped DEF EnqueueInv
  <2>3. count \in Nat /\ "increment" \in Pcs
    BY <2>1, <2>2 DEF Sound, Count, Pcs
  <2>4. SameButPc(q, old, "increment")
    BY <1>1, <2>3, RecordUpdates
  <2>5. request' = [request EXCEPT ![r] = q]
    BY <1>4 DEF ReadCounter, CountRead
  <2> HIDE DEF q
  <2>6. Local(r, q)
    BY <1>1, <2>4 DEF Local, Chosen, Keyed, SameButPc
  <2> QED
    BY <1>2, <2>4, <2>5, <2>6, RecordKept DEF SameButPc
<1> QED
  BY <1>3, <1>4

LEMMA WriteCounterKeeps ==
    ASSUME EnqueueInv, NEW r \in Requests, WriteCounter(r), UNCHANGED suppressionVars
    PROVE  EnqueueInv'
<1> DEFINE old == request[r]
           last == old.index = Len(To(r))
           pc == IF last THEN "insert" ELSE "count"
           index == IF last THEN old.index ELSE old.index + 1
           q == NextRecipient(old, pc, index)
<1>1. /\ old \in Request /\ Local(r, old) /\ old.pc = "increment"
      /\ old.host \in Hosts /\ old.input \in Inputs
  BY AtPc DEF WriteCounter
<1>2. UNCHANGED <<entries, table, known, barred>> /\ RateLimitWindow \in Nat
  BY LimitsAssumption DEF WriteCounter, suppressionVars
<1>3. To(r) \in Seq(Addresses) /\ To(r) = old.input.to /\ old.index \in DOMAIN To(r)
  BY <1>1, InputFields DEF To, Local
<1>4. index \in DOMAIN To(r) /\ index \in Nat /\ Current(r) \in Addresses
  BY <1>3 DEF Current
<1>5. pc \in Pcs /\ pc \in {"insert", "count"}
  BY DEF Pcs
<1>6. /\ q \in Request /\ q.pc = pc /\ q.host = old.host /\ q.input = old.input
      /\ q.html = old.html /\ q.kind = old.kind /\ q.index = index
  BY <1>1, <1>4, <1>5, NextFields
<1>7. request' = [request EXCEPT ![r] = q]
  BY DEF WriteCounter, NextRecipient
<1>8. Put(old.host, Item("count", Current(r)), old.read + 1, RateLimitWindow)
  BY DEF WriteCounter
<1>9. old.read + 1 \in Nat
  BY <1>1 DEF Request
<1>10. Sound(Item("count", Current(r)), [value |-> old.read + 1, left |-> RateLimitWindow])
  BY <1>2, <1>4, <1>9, WrittenIsSound
<1> HIDE DEF q, pc, index
<1>11. Local(r, q)
  BY <1>1, <1>3, <1>4, <1>5, <1>6 DEF Local, Chosen, Keyed
<1> QED
  BY <1>1, <1>2, <1>6, <1>7, <1>8, <1>10, <1>11, PutKept

LEMMA CacheKeyKeeps ==
    ASSUME EnqueueInv, NEW r \in Requests, CacheKey(r), UNCHANGED suppressionVars
    PROVE  EnqueueInv'
<1> DEFINE old == request[r]
           k == old.input.key
           q == AnswerWith(old, "created", r)
<1>1. /\ old \in Request /\ Local(r, old) /\ old.pc = "cacheKey"
      /\ old.host \in Hosts /\ old.input \in Inputs
  BY AtPc DEF CacheKey
<1>2. UNCHANGED <<entries, table, known, barred>> /\ KeyTtl \in Nat
  BY LimitsAssumption DEF CacheKey, suppressionVars
<1>3. k \in Keys /\ HasKey(r, k)
  BY <1>1, InputFields DEF Local, Keyed, HasKey, Truthy
<1>4. "created" \in Kinds
  BY DEF Kinds
<1>5. /\ q \in Request /\ q.pc = "answered" /\ q.host = old.host /\ q.input = old.input
      /\ q.html = old.html /\ q.index = old.index /\ q.kind = "created" /\ q.mail = r
  BY <1>1, <1>4, AnswerFields
<1>6. request' = [request EXCEPT ![r] = q]
  BY DEF CacheKey, Answer, AnswerWith
<1>7. Put(old.host, Item("key", k), r, KeyTtl)
  BY DEF CacheKey, Key
<1>8. Sound(Item("key", k), [value |-> r, left |-> KeyTtl])
  BY <1>2, <1>3, WrittenIsSound
<1> HIDE DEF q
<1>9. Local(r, q)
  BY <1>1, <1>3, <1>5 DEF Local, Chosen, Keyed
<1> QED
  BY <1>1, <1>2, <1>5, <1>6, <1>7, <1>8, <1>9, PutKept

\* A step of r that adds its row: no other row has its key.
LEMMA RowKept ==
    ASSUME EnqueueInv, NEW r \in Requests, NEW q \in Request,
           request' = [request EXCEPT ![r] = q], q.input = request[r].input,
           table' = table \cup {r}, Key(r) = NoKey \/ RowsWithKey(Key(r)) = {},
           UNCHANGED <<entries, cache, known, barred>>, Local(r, q)'
    PROVE  EnqueueInv'
<1>1. /\ request' \in [Requests -> Request] /\ request'[r] = q
      /\ \A s \in Requests : request'[s].input = request[s].input
  BY DEF EnqueueInv, Typed
<1>2. Typed'
  BY <1>1 DEF EnqueueInv, Typed
<1>3. \A s \in Requests : Local(s, request[s])'
  BY <1>1, OthersKept
<1>4. \A h \in Hosts, item \in Items : Sound(item, cache[h][item])'
  BY SoundKept DEF EnqueueInv
<1>5. UniqueKeys'
  <2>1. \A m \in table : request[m].input.key = request[r].input.key => Key(r) = NoKey
    BY DEF RowsWithKey, Key
  <2>2. table \subseteq Requests /\ UniqueKeys
    BY DEF EnqueueInv, Typed
  <2> QED
    BY <1>1, <2>1, <2>2 DEF UniqueKeys, Key
<1>6. \A s \in Requests : \A a \in barred'[s] : entries'[a] = "active"
  BY DEF EnqueueInv
<1> QED
  BY <1>2, <1>3, <1>4, <1>5, <1>6 DEF EnqueueInv

\* A key no row has: nobody arrived while a row had it.
LEMMA NoKeysRow ==
    ASSUME EnqueueInv, NEW r \in Requests, Key(r) = NoKey \/ RowsWithKey(Key(r)) = {}
    PROVE  Key(r) = NoKey \/ ~\E m \in Requests : HasKey(m, Key(r))
  BY DEF RowsWithKey, Key, HasKey

LEMMA InsertMailKeeps ==
    ASSUME EnqueueInv, NEW r \in Requests, InsertMail(r), UNCHANGED suppressionVars
    PROVE  EnqueueInv'
<1> DEFINE old == request[r]
<1>1. /\ old \in Request /\ Local(r, old) /\ old.pc = "insert"
      /\ old.host \in Hosts /\ old.input \in Inputs
  BY AtPc DEF InsertMail
<1>2. UNCHANGED <<entries, cache, known, barred>>
  BY DEF InsertMail, suppressionVars
<1>3. CASE Key(r) # NoKey /\ RowsWithKey(Key(r)) # {}
  <2> DEFINE q == AnswerWith(old, "duplicate", None)
  <2>1. "duplicate" \in Kinds
    BY DEF Kinds
  <2>2. /\ q \in Request /\ q.pc = "answered" /\ q.host = old.host /\ q.input = old.input
        /\ q.html = old.html /\ q.index = old.index /\ q.kind = "duplicate"
    BY <1>1, <2>1, AnswerFields
  <2>3. request' = [request EXCEPT ![r] = q] /\ UNCHANGED table
    BY <1>3 DEF InsertMail, Answer, AnswerWith
  <2> HIDE DEF q
  <2>4. Local(r, q)
    BY <1>1, <2>2 DEF Local, Chosen, Keyed
  <2> QED
    BY <1>2, <2>2, <2>3, <2>4, RecordKept
<1>4. CASE ~(Key(r) # NoKey /\ RowsWithKey(Key(r)) # {})
  <2>1. "created" \in Kinds /\ "cacheKey" \in Pcs
    BY DEF Kinds, Pcs
  <2>2. r \notin known
    BY <1>1, <1>4, NoKeysRow DEF Local, Key
  <2>3. CASE ~Truthy(Key(r))
    <3>1. PICK q : q = AnswerWith(old, "created", r)
      OBVIOUS
    <3>2. /\ q \in Request /\ q.pc = "answered" /\ q.host = old.host
          /\ q.input = old.input /\ q.html = old.html /\ q.index = old.index
          /\ q.kind = "created" /\ q.mail = r
      BY <1>1, <2>1, <3>1, AnswerFields
    <3>3. request' = [request EXCEPT ![r] = q] /\ table' = table \cup {r}
      BY <1>4, <2>3, <3>1 DEF InsertMail, Answer, AnswerWith
    <3>4. HasKey(r, q.input.key)'
      BY <1>1, <3>2, <3>3, AtPc DEF HasKey
    <3>5. Local(r, q)'
      BY <1>1, <1>2, <2>2, <3>2, <3>4 DEF Local, Chosen, Keyed
    <3> QED
      BY <1>2, <1>4, <3>2, <3>3, <3>5, RowKept
  <2>4. CASE Truthy(Key(r))
    <3>1. PICK q : q = MoveTo(old, "cacheKey")
      OBVIOUS
    <3>2. SameButPc(q, old, "cacheKey")
      BY <1>1, <2>1, <3>1, RecordUpdates
    <3>3. request' = [request EXCEPT ![r] = q] /\ table' = table \cup {r}
      BY <1>4, <2>4, <3>1 DEF InsertMail, Go, MoveTo
    <3>4. Local(r, q)'
      BY <1>1, <1>2, <2>2, <2>4, <3>2, <3>3 DEF Local, Chosen, Keyed, SameButPc, Key
    <3> QED
      BY <1>2, <1>4, <3>2, <3>3, <3>4, RowKept DEF SameButPc
  <2> QED
    BY <2>3, <2>4
<1> QED
  BY <1>3, <1>4

\* A query that fails answers the request and leaves no trace.
LEMMA QueryFailsKeeps ==
    ASSUME EnqueueInv, NEW r \in Requests, QueryFails(r), UNCHANGED suppressionVars
    PROVE  EnqueueInv'
<1> DEFINE old == request[r]
           q == AnswerWith(old, "failed", None)
<1>1. /\ old \in Request /\ Local(r, old)
      /\ old.pc \in {"suppression", "cachedId", "stored", "insert"}
  BY AtPc DEF QueryFails
<1>2. UNCHANGED <<entries, table, cache, known, barred>>
  BY DEF QueryFails, suppressionVars
<1>3. "failed" \in Kinds
  BY DEF Kinds
<1>4. /\ q \in Request /\ q.pc = "answered" /\ q.host = old.host /\ q.input = old.input
      /\ q.html = old.html /\ q.index = old.index /\ q.kind = "failed"
  BY <1>1, <1>3, AnswerFields
<1>5. request' = [request EXCEPT ![r] = q]
  BY DEF QueryFails, Answer, AnswerWith
<1> HIDE DEF q
<1>6. Local(r, q)
  BY <1>1, <1>4 DEF Local, Chosen, Keyed
<1> QED
  BY <1>2, <1>4, <1>5, <1>6, RecordKept

\* The row is there, and the client is told of an error.
LEMMA InsertAnswerLostKeeps ==
    ASSUME EnqueueInv, NEW r \in Requests, InsertAnswerLost(r), UNCHANGED suppressionVars
    PROVE  EnqueueInv'
<1> DEFINE old == request[r]
<1>1. old \in Request /\ Local(r, old) /\ old.pc = "insert"
  BY AtPc DEF InsertAnswerLost
<1>2. /\ UNCHANGED <<entries, cache, known, barred>>
      /\ Key(r) = NoKey \/ RowsWithKey(Key(r)) = {}
  BY DEF InsertAnswerLost, suppressionVars
<1>3. "failed" \in Kinds
  BY DEF Kinds
<1>4. PICK q : q = AnswerWith(old, "failed", None)
  OBVIOUS
<1>5. /\ q \in Request /\ q.pc = "answered" /\ q.host = old.host /\ q.input = old.input
      /\ q.html = old.html /\ q.index = old.index /\ q.kind = "failed"
  BY <1>1, <1>3, <1>4, AnswerFields
<1>6. request' = [request EXCEPT ![r] = q] /\ table' = table \cup {r}
  BY <1>4 DEF InsertAnswerLost, Answer, AnswerWith
<1>7. r \notin known
  BY <1>1, <1>2, NoKeysRow DEF Local, Key
<1>8. Local(r, q)'
  BY <1>1, <1>2, <1>5, <1>7 DEF Local, Chosen, Keyed
<1> QED
  BY <1>2, <1>5, <1>6, <1>8, RowKept

LEMMA BeginKeeps ==
    ASSUME EnqueueInv, NEW r \in Requests, Begin(r), UNCHANGED suppressionVars
    PROVE  EnqueueInv'
<1> DEFINE old == request[r]
<1>1. old \in Request /\ Local(r, old) /\ old.pc = "new" /\ request \in [Requests -> Request]
  BY AtPc DEF Begin
<1>2. /\ UNCHANGED <<entries, table, cache>>
      /\ barred' = [barred EXCEPT ![r] = {a \in Addresses : entries[a] = "active"}]
  BY DEF Begin, suppressionVars
<1>3. r \notin table /\ r \notin known /\ old.kind = "none" /\ old.html = NoRender
      /\ old.index = 1
  BY <1>1 DEF Local
<1>4. PICK host \in Hosts, input \in Inputs :
         /\ request' = [request EXCEPT ![r] =
                IF input.render = NoRender THEN Checked(Arrived(old, host, input))
                ELSE MoveTo(Arrived(old, host, input), "template")]
         /\ known' = IF input.key # NoKey /\ RowsWithKey(input.key) # {}
                     THEN known \cup {r} ELSE known
  BY DEF Begin, Arrived, MoveTo
<1> DEFINE q == IF input.render = NoRender THEN Checked(Arrived(old, host, input))
                ELSE MoveTo(Arrived(old, host, input), "template")
<1>5. /\ q \in Request /\ q.host = host /\ q.input = input
      /\ q.html = NoRender /\ q.index = 1
      /\ \/ q.pc = "suppression" /\ q.kind = "none" /\ input.render = NoRender
         \/ q.pc = "answered" /\ q.kind = "invalid"
         \/ q.pc = "template" /\ q.kind = "none" /\ input.render # NoRender
  <2>1. Arrived(old, host, input) \in Request /\ "template" \in Pcs
    BY <1>1, ArrivedFields DEF Pcs
  <2> DEFINE arrived == Arrived(old, host, input)
  <2>2. /\ arrived \in Request /\ arrived.host = host /\ arrived.input = input
        /\ arrived.html = NoRender /\ arrived.index = 1 /\ arrived.kind = "none"
    BY <1>1, <1>3, ArrivedFields
  <2>3. CASE input.render = NoRender
    <3>1. q = Checked(arrived)
      BY <2>3
    <3> HIDE DEF q, arrived
    <3> QED
      BY <2>2, <2>3, <3>1, CheckedFields
  <2>4. CASE input.render # NoRender
    <3>1. q = MoveTo(arrived, "template")
      BY <2>4
    <3> HIDE DEF q, arrived
    <3> QED
      BY <2>1, <2>2, <2>4, <3>1, RecordUpdates DEF SameButPc
  <2> QED
    BY <2>3, <2>4
<1>6. request' = [request EXCEPT ![r] = q]
  BY <1>4
<1> HIDE DEF q
<1>7. /\ request' \in [Requests -> Request] /\ request'[r] = q
      /\ \A s \in Requests : s # r => request'[s] = request[s]
  BY <1>1, <1>5, <1>6
<1>8. \A m \in Requests : \A k : HasKey(m, k) => HasKey(m, k)'
  BY <1>2, <1>3, <1>7 DEF HasKey
<1>9. ASSUME r \in known'
      PROVE  input.key # NoKey /\ \E m \in Requests : HasKey(m, input.key)'
  <2>1. input.key # NoKey /\ RowsWithKey(input.key) # {}
    BY <1>3, <1>4, <1>9
  <2>2. PICK m \in table : Key(m) = input.key
    BY <2>1 DEF RowsWithKey
  <2>3. m \in Requests /\ HasKey(m, input.key)
    BY <2>2 DEF HasKey, Key, EnqueueInv, Typed
  <2> QED
    BY <1>8, <2>1, <2>3
<1>10. Local(r, request[r])'
  <2>1. 1 \in DOMAIN input.to /\ input.render \in Renders \cup {NoRender}
    BY InputsAssumption
  <2> QED
    BY <1>2, <1>3, <1>5, <1>7, <1>9, <2>1 DEF Local, Chosen, Keyed
<1>11. \A s \in Requests : Local(s, request[s])'
  <2>1. known' \subseteq known \cup {r}
    BY <1>4
  <2>2. ASSUME NEW s \in Requests, s # r PROVE barred'[s] = barred[s]
    BY <1>2, <2>2 DEF EnqueueInv, Typed
  <2> QED
    BY <1>2, <1>3, <1>5, <1>6, <1>10, <2>1, <2>2, OthersKept
<1>12. \A h \in Hosts, item \in Items : Sound(item, cache[h][item])'
  BY <1>2, <1>3, <1>5, <1>6, SoundKept DEF EnqueueInv
<1>13. Typed'
  <2>1. known' \subseteq Requests
    BY <1>4 DEF EnqueueInv, Typed
  <2>2. {a \in Addresses : entries[a] = "active"} \in SUBSET Addresses
    OBVIOUS
  <2>3. barred' \in [Requests -> SUBSET Addresses]
    BY <1>2, <2>2 DEF EnqueueInv, Typed
  <2> QED
    BY <1>2, <1>7, <2>1, <2>3 DEF EnqueueInv, Typed
<1>14. UniqueKeys'
  BY <1>2, <1>3, <1>7 DEF EnqueueInv, Typed, UniqueKeys
<1>15. \A s \in Requests : \A a \in barred'[s] : entries'[a] = "active"
  BY <1>2 DEF EnqueueInv, Typed
<1> QED
  BY <1>11, <1>12, <1>13, <1>14, <1>15 DEF EnqueueInv

-----------------------------------------------------------------------------
(* Steps of the cache, the hosts and the suppression list.                 *)

\* Entries go or grow older, requests of a host may get lost.
LEMMA CachesKept ==
    ASSUME EnqueueInv, UNCHANGED <<entries, table, known, barred>>,
           cache' \in [Hosts -> [Items -> Entry]],
           \A h \in Hosts, item \in Items : Sound(item, cache'[h][item]),
           request' \in [Requests -> Request],
           \A s \in Requests :
              \/ request'[s] = request[s]
              \/ /\ request[s].pc \notin {"new", "answered"}
                 /\ request'[s] = AnswerWith(request[s], "lost", None)
    PROVE  EnqueueInv'
<1>1. "lost" \in Kinds
  BY DEF Kinds
<1>2. ASSUME NEW s \in Requests, request'[s] # request[s]
      PROVE  /\ request[s].pc \notin {"new", "answered"}
             /\ request'[s].pc = "answered" /\ request'[s].host = request[s].host
             /\ request'[s].input = request[s].input /\ request'[s].html = request[s].html
             /\ request'[s].index = request[s].index /\ request'[s].kind = "lost"
  BY <1>1, <1>2, AnswerFields DEF EnqueueInv, Typed
<1>3. \A s \in Requests : request'[s].input = request[s].input
  BY <1>2
<1>4. table \subseteq Requests
  BY DEF EnqueueInv, Typed
<1>5. \A m, k : HasKey(m, k) => HasKey(m, k)'
  BY <1>3, <1>4 DEF HasKey
<1>6. ASSUME NEW s \in Requests
      PROVE  Local(s, request[s])'
  <2>1. Local(s, request[s])
    BY DEF EnqueueInv
  <2>2. CASE request'[s] = request[s]
    BY <1>5, <2>1, <2>2 DEF Local
  <2>3. CASE request'[s] # request[s]
    BY <1>2, <1>5, <2>1, <2>3 DEF Local, Chosen, Keyed
  <2> QED
    BY <2>2, <2>3
<1>7. \A h \in Hosts, item \in Items : Sound(item, cache[h][item])'
  BY <1>5 DEF Sound
<1>8. UniqueKeys'
  BY <1>3, <1>4 DEF EnqueueInv, UniqueKeys
<1>9. Typed'
  BY DEF EnqueueInv, Typed
<1>10. \A s \in Requests : \A a \in barred'[s] : entries'[a] = "active"
  BY DEF EnqueueInv
<1> QED
  BY <1>6, <1>7, <1>8, <1>9, <1>10 DEF EnqueueInv

LEMMA NothingIsSound ==
    ASSUME NEW item
    PROVE  Sound(item, NoEntry) /\ NoEntry \in Entry
  BY DEF Sound, NoEntry, Entry, Values

LEMMA TickKeeps ==
    ASSUME EnqueueInv, Tick, UNCHANGED suppressionVars
    PROVE  EnqueueInv'
<1> DEFINE older(e) == IF e.left > 1 THEN [e EXCEPT !.left = @ - 1] ELSE NoEntry
<1>1. ASSUME NEW h \in Hosts, NEW item \in Items
      PROVE  older(cache[h][item]) \in Entry /\ Sound(item, older(cache[h][item]))
  <2> DEFINE e == cache[h][item]
  <2>1. Sound(item, e) /\ e \in Entry
    BY DEF EnqueueInv, Sound
  <2>2. CASE e.left > 1
    <3> DEFINE f == [e EXCEPT !.left = @ - 1]
    <3>1. f \in Entry /\ f.value = e.value /\ e.left # 0
      BY <2>1, <2>2 DEF Entry
    <3>2. older(e) = f
      BY <2>2
    <3> HIDE DEF f, older
    <3>3. Sound(item, f)
      BY <2>1, <3>1 DEF Sound
    <3> QED
      BY <3>1, <3>2, <3>3
  <2>3. CASE ~(e.left > 1)
    <3>1. older(e) = NoEntry
      BY <2>3
    <3> QED
      BY <3>1, NothingIsSound
  <2> QED
    BY <2>2, <2>3
<1> HIDE DEF older
<1>2. cache' = [h \in Hosts |-> [item \in Items |-> older(cache[h][item])]]
  BY DEF Tick, older
<1>3. /\ cache' \in [Hosts -> [Items -> Entry]]
      /\ \A h \in Hosts, item \in Items : Sound(item, cache'[h][item])
  BY <1>1, <1>2
<1>4. UNCHANGED <<entries, table, known, barred, request>>
  BY DEF Tick, suppressionVars
<1> QED
  BY <1>3, <1>4, CachesKept DEF EnqueueInv, Typed

LEMMA RestartKeeps ==
    ASSUME EnqueueInv, NEW h \in Hosts, Restart(h), UNCHANGED suppressionVars
    PROVE  EnqueueInv'
<1>1. cache' = [cache EXCEPT ![h] = EmptyCache] /\ cache \in [Hosts -> [Items -> Entry]]
  BY DEF Restart, EnqueueInv, Typed
<1>2. EmptyCache \in [Items -> Entry]
  BY NothingIsSound DEF EmptyCache
<1>3. cache' \in [Hosts -> [Items -> Entry]]
  BY <1>1, <1>2
<1>4. \A g \in Hosts, i \in Items : cache'[g][i] \in {cache[g][i], NoEntry}
  BY <1>1 DEF EmptyCache
<1>5. \A g \in Hosts, i \in Items : Sound(i, cache'[g][i])
  BY <1>4, NothingIsSound DEF EnqueueInv
<1>6. request' = [s \in Requests |->
         IF s \in InFlight /\ request[s].host = h
         THEN AnswerWith(request[s], "lost", None) ELSE request[s]]
  BY DEF Restart, AnswerWith
<1>7. "lost" \in Kinds /\ request \in [Requests -> Request]
  BY DEF Kinds, EnqueueInv, Typed
<1>8. \A s \in Requests : AnswerWith(request[s], "lost", None) \in Request
  BY <1>7, AnswerFields
<1>9. request' \in [Requests -> Request]
  BY <1>6, <1>7, <1>8
<1>10. \A s \in Requests :
         \/ request'[s] = request[s]
         \/ /\ request[s].pc \notin {"new", "answered"}
            /\ request'[s] = AnswerWith(request[s], "lost", None)
  BY <1>6 DEF InFlight
<1>11. UNCHANGED <<entries, table, known, barred>>
  BY DEF Restart, suppressionVars
<1> QED
  BY <1>3, <1>5, <1>9, <1>10, <1>11, CachesKept

LEMMA ListStepKeeps ==
    ASSUME EnqueueInv, ListStep
    PROVE  EnqueueInv'
<1>1. /\ UNCHANGED <<request, table, cache, known>>
      /\ barred' = [r \in Requests |-> {a \in barred[r] : entries'[a] = "active"}]
  BY DEF ListStep
<1>2. barred \in [Requests -> SUBSET Addresses]
  BY DEF EnqueueInv, Typed
<1>3. \A r \in Requests : barred'[r] \subseteq barred[r]
  BY <1>1
<1>4. barred' \in [Requests -> SUBSET Addresses]
  BY <1>1, <1>2
<1>5. \A m, k : HasKey(m, k)' <=> HasKey(m, k)
  BY <1>1 DEF HasKey
<1>6. ASSUME NEW r \in Requests PROVE Local(r, request[r])'
  <2>1. Local(r, request[r])
    BY DEF EnqueueInv
  <2> QED
    BY <1>1, <1>3, <1>5, <2>1 DEF Local
<1>7. \A h \in Hosts, item \in Items : Sound(item, cache[h][item])'
  BY <1>1, <1>5 DEF EnqueueInv, Sound
<1>8. UniqueKeys'
  BY <1>1 DEF EnqueueInv, UniqueKeys
<1>9. Typed'
  BY <1>1, <1>4 DEF EnqueueInv, Typed
<1>10. \A r \in Requests : \A a \in barred'[r] : entries'[a] = "active"
  BY <1>1
<1> QED
  BY <1>6, <1>7, <1>8, <1>9, <1>10 DEF EnqueueInv

-----------------------------------------------------------------------------
LEMMA EnqueueInvariant == Spec => []EnqueueInv
<1>1. Init => EnqueueInv
  <2> SUFFICES ASSUME Init PROVE EnqueueInv
    OBVIOUS
  <2> DEFINE q == [pc |-> "new", host |-> None, input |-> None, index |-> 1, read |-> 0,
                   html |-> NoRender, kind |-> "none", mail |-> None]
  <2>1. q \in Request
    BY DEF Request, Pcs, Kinds
  <2>2. /\ request = [r \in Requests |-> q] /\ table = {} /\ known = {}
        /\ cache = [h \in Hosts |-> EmptyCache]
        /\ barred = [r \in Requests |-> {}]
    BY DEF Init, EnqueueInit
  <2>3. EmptyCache \in [Items -> Entry]
    BY NothingIsSound DEF EmptyCache
  <2>4. Typed
    BY <2>1, <2>2, <2>3 DEF Typed
  <2>5. \A r \in Requests : Local(r, request[r])
    BY <2>2 DEF Local, Chosen, Keyed
  <2>6. \A h \in Hosts, item \in Items : Sound(item, cache[h][item])
    BY <2>2, NothingIsSound DEF EmptyCache
  <2>7. UniqueKeys /\ \A r \in Requests : \A a \in barred[r] : entries[a] = "active"
    BY <2>2 DEF UniqueKeys
  <2> QED
    BY <2>4, <2>5, <2>6, <2>7 DEF EnqueueInv
<1>2. EnqueueInv /\ [Next]_vars => EnqueueInv'
  <2> SUFFICES ASSUME EnqueueInv, [Next]_vars PROVE EnqueueInv'
    OBVIOUS
  <2>1. ASSUME NEW r \in Requests, RequestStep(r), UNCHANGED suppressionVars
        PROVE  EnqueueInv'
    BY <2>1, BeginKeeps, LookUpHtmlKeeps, CacheHtmlKeeps, CheckSuppressionKeeps,
       LookUpCacheKeeps, LookUpIdKeeps, LookUpKeyKeeps, ReadCounterKeeps,
       WriteCounterKeeps, InsertMailKeeps, CacheKeyKeeps, QueryFailsKeeps,
       InsertAnswerLostKeeps DEF RequestStep
  <2>2. CASE Tick /\ UNCHANGED suppressionVars
    BY <2>2, TickKeeps
  <2>3. ASSUME NEW h \in Hosts, Restart(h), UNCHANGED suppressionVars
        PROVE  EnqueueInv'
    BY <2>3, RestartKeeps
  <2>4. CASE ListStep
    BY <2>4, ListStepKeeps
  <2>5. CASE UNCHANGED vars
    <3>1. UNCHANGED <<entries, table, known, barred, request, cache>>
      BY <2>5 DEF vars
    <3> QED
      BY <3>1, CachesKept DEF EnqueueInv, Typed
  <2> QED
    BY <2>1, <2>2, <2>3, <2>4, <2>5 DEF Next
<1> QED
  BY <1>1, <1>2, PTL DEF Spec

\* Whatever races, expiries, restarts and failing queries happen, the requests
\* with one key that are answered with a mail are answered with the same one
\* (MailEnqueueService.enqueue and MailIdempotencyService).
THEOREM OneMailPerKey == Spec => []SameKeySameMail
<1>1. EnqueueInv => SameKeySameMail
  <2> SUFFICES ASSUME EnqueueInv, NEW r \in Requests, NEW s \in Requests,
                      {request[r].kind, request[s].kind} \subseteq {"created", "existing"},
                      Key(r) = Key(s), Key(r) # NoKey
               PROVE  request[r].mail = request[s].mail
    BY DEF SameKeySameMail
  <2>1. HasKey(request[r].mail, Key(r)) /\ HasKey(request[s].mail, Key(r))
    BY DEF EnqueueInv, Local, Key
  <2> QED
    BY <2>1 DEF HasKey, EnqueueInv, UniqueKeys
<1> QED
  BY <1>1, EnqueueInvariant, PTL

\* A request that starts after its key is stored creates nothing, whatever the
\* key: '' is never looked up, but the unique column refuses it.  With any other
\* key it is answered with the stored mail, refused by the checks that come first
\* or failed by a query; it is never counted and fails on no duplicate
\* (findByIdempotencyKey comes before enforceLimit and createAuditLog).
THEOREM RepeatsCreateNothing == Spec => []RepeatAnswersStored
<1>1. EnqueueInv => RepeatAnswersStored
  <2> SUFFICES ASSUME EnqueueInv, NEW r \in known
               PROVE  /\ request[r].kind # "created"
                      /\ Truthy(Key(r)) =>
                            /\ request[r].kind \notin {"limited", "duplicate"}
                            /\ request[r].pc \notin {"count", "increment", "insert", "cacheKey"}
    BY DEF RepeatAnswersStored
  <2>1. Local(r, request[r])
    BY DEF EnqueueInv, Typed
  <2> QED
    BY <2>1 DEF Local, Key
<1> QED
  BY <1>1, EnqueueInvariant, PTL

\* An address that is on the list when a request arrives, and stays on it, is a
\* "to" recipient of no mail, whatever its spelling (ensureRecipientsAreAllowed).
THEOREM SuppressedGetNoMail == Spec => []BarredGetNoMail
<1>1. EnqueueInv => BarredGetNoMail
  BY DEF EnqueueInv, Typed, Local, BarredGetNoMail, ToSet, To
<1> QED
  BY <1>1, EnqueueInvariant, PTL

\* Mails that share cached templates carry the html of their own template and
\* context, whoever rendered it and whenever the entry went (renderCached).
THEOREM HtmlBelongsToMail == Spec => []HtmlIsItsOwn
<1>1. EnqueueInv => HtmlIsItsOwn
  BY DEF EnqueueInv, Typed, Local, HtmlIsItsOwn
<1> QED
  BY <1>1, EnqueueInvariant, PTL

-----------------------------------------------------------------------------
(* Types of the history of increments.                                     *)

HistoryTyped ==
    /\ events \in [{"tick", "restart", "fault"} -> Nat]
    /\ charged \in [Hosts -> [Addresses -> SUBSET Charges]]

Aged(C) == {[c EXCEPT !.age = @ + 1] : c \in {d \in C : d.age + 1 < RateLimitWindow}}

LEMMA AgedTyped ==
    ASSUME NEW C \in SUBSET Charges
    PROVE  Aged(C) \in SUBSET Charges
  BY DEF Aged, Charges

\* The increments C after a restart of their host.
Restarted(C) == {[c EXCEPT !.restarts = @ + 1] : c \in C}

LEMMA RestartedTyped ==
    ASSUME NEW C \in SUBSET Charges
    PROVE  Restarted(C) \in SUBSET Charges
  BY DEF Restarted, Charges

\* An increment is written for the address of the recipient the request is at.
LEMMA Incremented ==
    ASSUME EnqueueInv, NEW r \in Requests, WriteCounter(r)
    PROVE  /\ request[r].host \in Hosts /\ Current(r) \in Addresses /\ Charge(r) \in Charges
           /\ charged' = [charged EXCEPT ![request[r].host][Current(r)] = @ \cup {Charge(r)}]
           /\ UNCHANGED events
<1>1. request[r] \in Request /\ Local(r, request[r]) /\ request[r].pc = "increment"
  BY AtPc DEF WriteCounter
<1>2. /\ To(r) \in Seq(Addresses) /\ request[r].index \in DOMAIN To(r)
      /\ request[r].host \in Hosts
  BY <1>1, InputFields DEF To, Local
<1>3. Current(r) \in Addresses /\ request[r].index \in Nat
  BY <1>1, <1>2 DEF Current, Request
<1> QED
  BY <1>2, <1>3 DEF WriteCounter, Charge, Charges

LEMMA HappensTyped ==
    ASSUME HistoryTyped, NEW kind \in {"tick", "restart", "fault"}, NEW max, Happens(kind, max)
    PROVE  events' \in [{"tick", "restart", "fault"} -> Nat]
  BY DEF HistoryTyped, Happens

LEMMA HistoryKept ==
    ASSUME EnqueueInv, HistoryTyped, [Next]_vars
    PROVE  HistoryTyped'
<1>1. ASSUME NEW h \in Hosts, NEW a \in Addresses, NEW C \in SUBSET Charges,
             UNCHANGED events, charged' = [charged EXCEPT ![h][a] = C]
      PROVE  HistoryTyped'
  <2>1. [charged[h] EXCEPT ![a] = C] \in [Addresses -> SUBSET Charges]
    BY DEF HistoryTyped
  <2>2. charged' = [charged EXCEPT ![h] = [charged[h] EXCEPT ![a] = C]]
    BY <1>1
  <2> QED
    BY <1>1, <2>1, <2>2 DEF HistoryTyped
<1>2. CASE UNCHANGED <<events, charged>>
  BY <1>2 DEF HistoryTyped
<1>3. ASSUME NEW r \in Requests, WriteCounter(r)
      PROVE  HistoryTyped'
  <2> DEFINE h == request[r].host
             C == charged[h][Current(r)] \cup {Charge(r)}
  <2>0. h \in Hosts /\ Current(r) \in Addresses /\ Charge(r) \in Charges
    BY <1>3, Incremented
  <2>1. h \in Hosts /\ Current(r) \in Addresses /\ C \in SUBSET Charges
    <3>1. charged[h][Current(r)] \in SUBSET Charges
      BY <2>0 DEF HistoryTyped
    <3> QED
      BY <2>0, <3>1
  <2>2. charged' = [charged EXCEPT ![h][Current(r)] = C] /\ UNCHANGED events
    BY <1>3, <2>1, Incremented DEF HistoryTyped
  <2> HIDE DEF h, C
  <2> QED
    BY <1>1, <2>1, <2>2
<1>4. CASE Tick
  <2>1. events' \in [{"tick", "restart", "fault"} -> Nat]
    BY <1>4, HappensTyped DEF Tick
  <2>2. charged' = [h \in Hosts |-> [a \in Addresses |-> Aged(charged[h][a])]]
    BY <1>4 DEF Tick, Aged
  <2>3. \A h \in Hosts, a \in Addresses : Aged(charged[h][a]) \in SUBSET Charges
    BY AgedTyped DEF HistoryTyped
  <2> QED
    BY <2>1, <2>2, <2>3 DEF HistoryTyped
<1>5. ASSUME NEW h \in Hosts, Restart(h)
      PROVE  HistoryTyped'
  <2>1. events' \in [{"tick", "restart", "fault"} -> Nat]
    BY <1>5, HappensTyped DEF Restart
  <2>2. [a \in Addresses |-> Restarted(charged[h][a])] \in [Addresses -> SUBSET Charges]
    BY RestartedTyped DEF HistoryTyped
  <2>3. charged' = [charged EXCEPT ![h] = [a \in Addresses |-> Restarted(charged[h][a])]]
    BY <1>5 DEF Restart, Restarted
  <2> QED
    BY <2>1, <2>2, <2>3 DEF HistoryTyped
<1>6. ASSUME NEW r \in Requests, QueryFails(r) \/ InsertAnswerLost(r)
      PROVE  HistoryTyped'
  <2>1. events' \in [{"tick", "restart", "fault"} -> Nat]
    BY <1>6, HappensTyped DEF QueryFails, InsertAnswerLost
  <2> QED
    BY <1>6, <2>1 DEF QueryFails, InsertAnswerLost, HistoryTyped
<1>7. ASSUME NEW r \in Requests, RequestStep(r)
      PROVE  HistoryTyped'
  BY <1>2, <1>3, <1>6, <1>7 DEF RequestStep, Begin, LookUpHtml, CacheHtml, CheckSuppression,
     LookUpCache, LookUpId, LookUpKey, ReadCounter, InsertMail, CacheKey
<1> QED
  BY <1>2, <1>4, <1>5, <1>6, <1>7 DEF Next, ListStep, vars

\* The records of requests, the rows, the cached keys, bodies and counters, and
\* the histories always have their types; a counter is a number even where
\* another kind of entry shares the cache (cacheManager).
THEOREM EnqueueTyped == Spec => []TypeOK
<1>1. Init => HistoryTyped
  BY DEF Init, EnqueueInit, NoCharges, HistoryTyped
<1>2. EnqueueInv /\ HistoryTyped => TypeOK
  <2> SUFFICES ASSUME EnqueueInv, HistoryTyped PROVE TypeOK
    OBVIOUS
  <2>1. \A h \in Hosts, item \in Items : Sound(item, cache[h][item])
    BY DEF EnqueueInv
  <2>2. ASSUME NEW h \in Hosts
        PROVE  /\ \A k \in Keys : cache[h][Item("key", k)].value \in Requests \cup {None}
               /\ \A x \in Renders : cache[h][Item("html", x)].value \in Renders \cup {None}
               /\ \A a \in Addresses : Count(h, a) \in Nat
    BY <2>1, ItemsTyped DEF Sound, Count
  <2> QED
    BY <2>2 DEF EnqueueInv, Typed, HistoryTyped, TypeOK
<1> QED
  BY <1>1, <1>2, HistoryKept, EnqueueInvariant, PTL DEF Spec

-----------------------------------------------------------------------------
(* The rate limit, while requests are served one at a time.                *)

CountItem(a) == Item("count", a)

\* The increments of C that n restarts of their host separate from now.
OfLife(C, n) == {c \in C : c.restarts = n}

\* What is true of the increments C of an address when its counter's entry is e:
\* none outlives the entry, and the counter has counted them all.
Covered(C, e) ==
    /\ IsFiniteSet(C)
    /\ \A c \in C : c.age < RateLimitWindow /\ c.age + e.left >= RateLimitWindow
    /\ e.left # 0 => Cardinality(C) <= e.value
    /\ Cardinality(C) <= RateLimitMax

\* A request about to write has read a counter that covers all the increments.
Reader(q) == q.pc = "increment" =>
    /\ q.read < RateLimitMax
    /\ Cardinality(OfLife(charged[q.host][q.input.to[q.index]], 0)) <= q.read

\* The counter is about the increments since the last start; those before it were
\* covered by a counter of their own.
Limited(C, e) ==
    /\ Covered(OfLife(C, 0), e)
    /\ \A n \in Nat : /\ IsFiniteSet(OfLife(C, n))
                      /\ Cardinality(OfLife(C, n)) <= RateLimitMax

LimitInv ==
    /\ \A h \in Hosts, a \in Addresses : Limited(charged[h][a], cache[h][CountItem(a)])
    /\ \A r \in Requests : Reader(request[r])
    /\ \A r, s \in InFlight : r = s

LEMMA NothingCovered ==
    ASSUME NEW e, e.left # 0 => e.value \in Nat
    PROVE  Covered({}, e) /\ Cardinality({}) = 0
  BY FS_EmptySet, LimitsAssumption DEF Covered

\* The lives of a set of increments after a tick, a restart and an increment.
LEMMA LivesAged ==
    ASSUME NEW C \in SUBSET Charges, NEW n \in Nat
    PROVE  OfLife(Aged(C), n) = Aged(OfLife(C, n))
<1>1. \A c \in Charges : [c EXCEPT !.age = @ + 1].restarts = c.restarts
  BY DEF Charges
<1> QED
  BY <1>1 DEF OfLife, Aged

LEMMA LivesRestarted ==
    ASSUME NEW C \in SUBSET Charges
    PROVE  /\ OfLife(Restarted(C), 0) = {}
           /\ \A n \in Nat : OfLife(Restarted(C), n + 1) = Restarted(OfLife(C, n))
<1>1. \A c \in Charges : c.restarts \in Nat
                         /\ [c EXCEPT !.restarts = @ + 1].restarts = c.restarts + 1
  BY DEF Charges
<1>2. OfLife(Restarted(C), 0) = {}
  <2>1. ASSUME NEW c \in C PROVE [c EXCEPT !.restarts = @ + 1].restarts # 0
    BY <1>1
  <2> QED
    BY <2>1 DEF OfLife, Restarted
<1>3. ASSUME NEW n \in Nat
      PROVE  OfLife(Restarted(C), n + 1) = Restarted(OfLife(C, n))
  <2>1. ASSUME NEW c \in C
        PROVE  [c EXCEPT !.restarts = @ + 1].restarts = n + 1 <=> c.restarts = n
    BY <1>1
  <2> QED
    BY <2>1 DEF OfLife, Restarted
<1> QED
  BY <1>2, <1>3

LEMMA LivesCharged ==
    ASSUME NEW C, NEW r \in Requests
    PROVE  /\ OfLife(C \cup {Charge(r)}, 0) = OfLife(C, 0) \cup {Charge(r)}
           /\ \A n \in Nat \ {0} : OfLife(C \cup {Charge(r)}, n) = OfLife(C, n)
<1>1. Charge(r).restarts = 0
  BY DEF Charge
<1> QED
  BY <1>1 DEF OfLife

LEMMA AgedCardinality ==
    ASSUME NEW C, IsFiniteSet(C)
    PROVE  /\ IsFiniteSet(Aged(C)) /\ Cardinality(Aged(C)) <= Cardinality(C)
           /\ Cardinality(Aged(C)) \in Nat /\ Cardinality(C) \in Nat
<1> DEFINE D == {d \in C : d.age + 1 < RateLimitWindow}
           g == [c \in D |-> [c EXCEPT !.age = @ + 1]]
<1>1. IsFiniteSet(D) /\ Cardinality(D) <= Cardinality(C)
  BY FS_Subset
<1>2. g \in Surjection(D, Aged(C))
  BY DEF Aged, Surjection
<1> HIDE DEF g
<1>3. IsFiniteSet(Aged(C)) /\ Cardinality(Aged(C)) <= Cardinality(D)
  BY <1>1, <1>2, FS_Surjection
<1>4. Cardinality(Aged(C)) \in Nat /\ Cardinality(D) \in Nat /\ Cardinality(C) \in Nat
  BY <1>1, <1>3, FS_CardinalityType
<1> QED
  BY <1>1, <1>3, <1>4

LEMMA RestartedCardinality ==
    ASSUME NEW C, IsFiniteSet(C)
    PROVE  /\ IsFiniteSet(Restarted(C)) /\ Cardinality(Restarted(C)) <= Cardinality(C)
           /\ Cardinality(Restarted(C)) \in Nat /\ Cardinality(C) \in Nat
<1> DEFINE g == [c \in C |-> [c EXCEPT !.restarts = @ + 1]]
<1>1. g \in Surjection(C, Restarted(C))
  BY DEF Restarted, Surjection
<1> HIDE DEF g
<1>2. IsFiniteSet(Restarted(C)) /\ Cardinality(Restarted(C)) <= Cardinality(C)
  BY <1>1, FS_Surjection
<1> QED
  BY <1>2, FS_CardinalityType

LEMMA AgedCovered ==
    ASSUME NEW C \in SUBSET Charges, NEW e \in Entry, Covered(C, e),
           e.left # 0 => e.value \in Nat,
           NEW f, f = IF e.left > 1 THEN [e EXCEPT !.left = @ - 1] ELSE NoEntry
    PROVE  Covered(Aged(C), f)
<1>1. /\ IsFiniteSet(Aged(C)) /\ Cardinality(Aged(C)) <= Cardinality(C)
      /\ Cardinality(Aged(C)) \in Nat /\ Cardinality(C) \in Nat
  BY AgedCardinality DEF Covered
<1>2. /\ e.left \in Nat /\ RateLimitWindow \in Nat /\ RateLimitMax \in Nat
      /\ \A c \in C : c.age \in Nat
      /\ \A c \in Charges : [c EXCEPT !.age = @ + 1].age = c.age + 1
  BY LimitsAssumption DEF Entry, Charges
<1>3. CASE e.left > 1
  <2>1. f.left = e.left - 1 /\ f.value = e.value
    BY <1>3 DEF Entry
  <2>2. ASSUME NEW c \in Aged(C)
        PROVE  c.age < RateLimitWindow /\ c.age + f.left >= RateLimitWindow
    <3>1. PICK d \in C : d.age + 1 < RateLimitWindow /\ c = [d EXCEPT !.age = @ + 1]
      BY <2>2 DEF Aged
    <3>2. c.age = d.age + 1 /\ d.age + e.left >= RateLimitWindow
      BY <1>2, <3>1 DEF Covered
    <3> QED
      BY <1>2, <2>1, <3>1, <3>2
  <2>3. f.left # 0 => Cardinality(Aged(C)) <= f.value
    <3>1. Cardinality(C) <= e.value /\ e.value \in Nat
      BY <1>2, <1>3 DEF Covered
    <3> QED
      BY <1>1, <2>1, <3>1
  <2> QED
    BY <1>1, <1>2, <2>2, <2>3 DEF Covered
<1>4. CASE ~(e.left > 1)
  <2>1. Aged(C) = {}
    BY <1>2, <1>4 DEF Aged, Covered
  <2>2. f.left = 0
    BY <1>4 DEF NoEntry
  <2> QED
    BY <2>1, <2>2, NothingCovered
<1> QED
  BY <1>3, <1>4

\* A counter's entry, and what it counts.
LEMMA CounterEntry ==
    ASSUME EnqueueInv, NEW h \in Hosts, NEW a \in Addresses
    PROVE  /\ CountItem(a) \in Items /\ cache[h][CountItem(a)] \in Entry
           /\ cache[h][CountItem(a)].left # 0 => cache[h][CountItem(a)].value \in Nat
           /\ Count(h, a) = IF cache[h][CountItem(a)].left = 0 THEN 0
                            ELSE cache[h][CountItem(a)].value
<1>1. CountItem(a) \in Items
  BY ItemsTyped DEF CountItem
<1>2. Sound(CountItem(a), cache[h][CountItem(a)])
  BY <1>1 DEF EnqueueInv
<1> QED
  BY <1>1, <1>2 DEF Sound, Count, CountItem

\* The counter covers the increments of its address since the host's last start,
\* also when it is not there.
LEMMA CountCovers ==
    ASSUME EnqueueInv, LimitInv, HistoryTyped, NEW h \in Hosts, NEW a \in Addresses
    PROVE  Cardinality(OfLife(charged[h][a], 0)) <= Count(h, a) /\ Count(h, a) \in Nat
<1> DEFINE C == OfLife(charged[h][a], 0)
           e == cache[h][CountItem(a)]
<1>1. /\ Covered(C, e) /\ e \in Entry /\ C \in SUBSET Charges
      /\ e.left # 0 => e.value \in Nat
      /\ Count(h, a) = IF e.left = 0 THEN 0 ELSE e.value
  BY CounterEntry DEF LimitInv, Limited, OfLife, HistoryTyped
<1> HIDE DEF C, e
<1>2. CASE e.left = 0
  <2>1. C = {}
    BY <1>1, <1>2, LimitsAssumption DEF Covered, Charges
  <2> QED
    BY <1>1, <1>2, <2>1, FS_EmptySet DEF C
<1>3. CASE e.left # 0
  BY <1>1, <1>3 DEF Covered, C
<1> QED
  BY <1>2, <1>3

\* The steps of a request that neither read nor write a counter.
QuietStep(r) ==
    \/ Begin(r) \/ LookUpHtml(r) \/ CacheHtml(r) \/ CheckSuppression(r)
    \/ LookUpCache(r) \/ LookUpId(r) \/ LookUpKey(r) \/ InsertMail(r) \/ CacheKey(r)
    \/ QueryFails(r) \/ InsertAnswerLost(r)

\* Writing an item of another kind leaves the counters alone.
LEMMA PutElsewhere ==
    ASSUME EnqueueInv, NEW h \in Hosts, NEW type, NEW of, type # "count",
           NEW value, NEW ttl, Put(h, Item(type, of), value, ttl)
    PROVE  \A g \in Hosts, a \in Addresses :
              cache'[g][CountItem(a)] = cache[g][CountItem(a)]
<1>1. \A a \in Addresses : CountItem(a) # Item(type, of)
  BY ItemsDiffer DEF CountItem
<1>2. cache \in [Hosts -> [Items -> Entry]]
  BY DEF EnqueueInv, Typed
<1> QED
  BY <1>1, <1>2, CounterEntry DEF Put

LEMMA CheckedPc ==
    ASSUME NEW q \in Request, NEW x
    PROVE  Checked(HtmlSet(q, x)).pc \in {"suppression", "answered"}
<1>1. /\ DOMAIN HtmlSet(q, x) = DOMAIN q /\ "pc" \in DOMAIN q /\ "kind" \in DOMAIN q
      /\ "pc" # "kind"
  BY DEF HtmlSet, Request
<1> DEFINE new == HtmlSet(q, x)
<1>2. [new EXCEPT !.pc = "suppression"].pc = "suppression"
  BY <1>1 DEF HtmlSet
<1>3. [new EXCEPT !.pc = "answered", !.kind = "invalid"].pc = "answered"
  BY <1>1 DEF HtmlSet
<1> HIDE DEF new
<1> QED
  BY <1>2, <1>3 DEF Checked, new

LEMMA MovedPc ==
    ASSUME NEW q \in Request
    PROVE  /\ \A pc : MoveTo(q, pc).pc = pc
           /\ \A kind, mail : AnswerWith(q, kind, mail).pc = "answered"
  BY DEF Request, MoveTo, AnswerWith

LEMMA QuietEffects ==
    ASSUME EnqueueInv, NEW r \in Requests, QuietStep(r)
    PROVE  /\ UNCHANGED charged
           /\ request'[r].pc # "increment"
           /\ \A s \in Requests : s # r => request'[s] = request[s]
           /\ \A h \in Hosts, a \in Addresses :
                 cache'[h][CountItem(a)] = cache[h][CountItem(a)]
<1>1. /\ request \in [Requests -> Request] /\ request[r] \in Request
      /\ request[r].pc # "new" => request[r].host \in Hosts
  BY AtPc
<1>2. \A q \in Request : Checked(q).pc # "increment"
  BY CheckedFields
<1>3. RatePhase # "increment"
  BY DEF RatePhase
<1>4. CASE Begin(r)
  <2>1. PICK host \in Hosts, input \in Inputs : request' = [request EXCEPT ![r] =
                IF input.render = NoRender THEN Checked(Arrived(request[r], host, input))
                ELSE MoveTo(Arrived(request[r], host, input), "template")]
    BY <1>4 DEF Begin, Arrived, MoveTo
  <2> DEFINE q == Arrived(request[r], host, input)
  <2>2. q \in Request /\ "template" \in Pcs
    BY <1>1, ArrivedFields DEF Pcs
  <2> HIDE DEF q
  <2>3. Checked(q).pc # "increment" /\ MoveTo(q, "template").pc = "template"
    BY <1>2, <2>2, RecordUpdates DEF SameButPc
  <2>4. request'[r] = IF input.render = NoRender THEN Checked(q) ELSE MoveTo(q, "template")
    BY <1>1, <2>1 DEF q
  <2> QED
    BY <1>1, <1>4, <2>1, <2>3, <2>4 DEF Begin
<1>5. CASE LookUpHtml(r)
  <2> DEFINE found == cache[request[r].host][HtmlItem(request[r].input.render)]
  <2>1. CASE found.left = 0
    BY <1>1, <1>5, <2>1 DEF LookUpHtml, Request
  <2>2. CASE found.left # 0
    <3>1. request' = [request EXCEPT ![r] = Checked(HtmlSet(request[r], found.value))]
      BY <1>5, <2>2 DEF LookUpHtml, HtmlSet
    <3> QED
      BY <1>1, <1>5, <3>1, CheckedPc DEF LookUpHtml
  <2> QED
    BY <2>1, <2>2
<1>6. CASE CacheHtml(r)
  <2> DEFINE x == request[r].input.render
  <2>1. /\ request' = [request EXCEPT ![r] = Checked(HtmlSet(request[r], x))]
        /\ Put(request[r].host, Item("html", x), x, HtmlTtl)
        /\ UNCHANGED charged /\ request[r].host \in Hosts
    BY <1>1, <1>6 DEF CacheHtml, HtmlSet, HtmlItem
  <2>2. \A h \in Hosts, a \in Addresses : cache'[h][CountItem(a)] = cache[h][CountItem(a)]
    BY <2>1, PutElsewhere
  <2> QED
    BY <1>1, <2>1, <2>2, CheckedPc
<1>7. CASE CheckSuppression(r) \/ LookUpKey(r)
  <2>1. UNCHANGED <<charged, cache>>
    BY <1>7 DEF CheckSuppression, LookUpKey
  <2>2. ASSUME NEW kind, NEW mail, Answer(r, kind, mail)
        PROVE  /\ request'[r].pc # "increment"
               /\ \A s \in Requests : s # r => request'[s] = request[s]
    <3>1. request' = [request EXCEPT ![r] = AnswerWith(request[r], kind, mail)]
      BY <2>2 DEF Answer, AnswerWith
    <3> QED
      BY <1>1, <3>1, MovedPc
  <2>3. ASSUME NEW pc, pc # "increment", Go(r, pc)
        PROVE  /\ request'[r].pc # "increment"
               /\ \A s \in Requests : s # r => request'[s] = request[s]
    <3>1. request' = [request EXCEPT ![r] = MoveTo(request[r], pc)]
      BY <2>3 DEF Go, MoveTo
    <3> QED
      BY <1>1, <2>3, <3>1, MovedPc
  <2>4. \/ \E kind, mail : Answer(r, kind, mail)
        \/ \E pc : pc # "increment" /\ Go(r, pc)
    BY <1>3, <1>7 DEF CheckSuppression, LookUpKey
  <2> QED
    BY <2>1, <2>2, <2>3, <2>4
<1>8. CASE LookUpCache(r)
  BY <1>1, <1>8 DEF LookUpCache, Request
<1>9. CASE LookUpId(r)
  <2>1. UNCHANGED <<charged, cache>>
    BY <1>9 DEF LookUpId
  <2>2. \/ request' = [request EXCEPT ![r] = MoveTo(request[r], "stored")]
        \/ request' = [request EXCEPT ![r] = AnswerWith(request[r], "existing", request[r].mail)]
    BY <1>9 DEF LookUpId, Go, Answer, MoveTo, AnswerWith
  <2> QED
    BY <1>1, <2>1, <2>2, MovedPc
<1>10. CASE InsertMail(r)
  <2>1. UNCHANGED <<charged, cache>>
    BY <1>10 DEF InsertMail
  <2>2. \/ request' = [request EXCEPT ![r] = MoveTo(request[r], "cacheKey")]
        \/ request' = [request EXCEPT ![r] = AnswerWith(request[r], "duplicate", None)]
        \/ request' = [request EXCEPT ![r] = AnswerWith(request[r], "created", r)]
    BY <1>10 DEF InsertMail, Go, Answer, MoveTo, AnswerWith
  <2> QED
    BY <1>1, <2>1, <2>2, MovedPc
<1>11. CASE CacheKey(r)
  <2>1. /\ request' = [request EXCEPT ![r] = AnswerWith(request[r], "created", r)]
        /\ Put(request[r].host, Item("key", Key(r)), r, KeyTtl)
        /\ UNCHANGED charged /\ request[r].host \in Hosts
    BY <1>1, <1>11 DEF CacheKey, Answer, AnswerWith
  <2>2. \A h \in Hosts, a \in Addresses : cache'[h][CountItem(a)] = cache[h][CountItem(a)]
    BY <2>1, PutElsewhere
  <2> QED
    BY <1>1, <2>1, <2>2, MovedPc
<1>12. CASE QueryFails(r) \/ InsertAnswerLost(r)
  <2>1. /\ request' = [request EXCEPT ![r] = AnswerWith(request[r], "failed", None)]
        /\ UNCHANGED <<charged, cache>>
    BY <1>12 DEF QueryFails, InsertAnswerLost, Answer, AnswerWith
  <2> QED
    BY <1>1, <2>1, MovedPc
<1> QED
  BY <1>4, <1>5, <1>6, <1>7, <1>8, <1>9, <1>10, <1>11, <1>12 DEF QuietStep

\* One request at a time: who takes a step is the only one in flight after it.
LEMMA SerialKept ==
    ASSUME EnqueueInv, LimitInv, NEW r \in Requests, r \in InFlight \/ InFlight = {},
           \A s \in Requests : s # r => request'[s] = request[s],
           \A h \in Hosts, a \in Addresses : Limited(charged[h][a], cache[h][CountItem(a)])',
           Reader(request[r])'
    PROVE  LimitInv'
<1>1. ASSUME NEW s \in InFlight'
      PROVE  s = r
  BY <1>1 DEF InFlight, LimitInv
<1>2. ASSUME NEW s \in Requests, s # r
      PROVE  Reader(request[s])'
  BY <1>1, <1>2 DEF InFlight, Reader
<1> QED
  BY <1>1, <1>2 DEF LimitInv

LEMMA StepInFlight ==
    ASSUME MaxInFlight = 1, NEW r \in Requests, RequestStep(r)
    PROVE  r \in InFlight \/ InFlight = {}
<1>1. CASE Begin(r)
  <2>1. Cardinality(InFlight) < 1
    BY <1>1 DEF Begin
  <2>2. IsFiniteSet(InFlight)
    BY RequestsAssumption, FS_Subset DEF InFlight
  <2>3. Cardinality(InFlight) = 0
    BY <2>1, <2>2, FS_CardinalityType
  <2> QED
    BY <2>2, <2>3, FS_EmptySet
<1>2. CASE ~Begin(r)
  BY <1>2 DEF RequestStep, InFlight, LookUpHtml, CacheHtml, CheckSuppression, LookUpCache,
     LookUpId, LookUpKey, ReadCounter, WriteCounter, InsertMail, CacheKey,
     QueryFails, InsertAnswerLost
<1> QED
  BY <1>1, <1>2

\* ReadCounter: the count it remembers covers the increments so far.
LEMMA ReadKeepsLimit ==
    ASSUME EnqueueInv, LimitInv, HistoryTyped, MaxInFlight = 1,
           NEW r \in Requests, ReadCounter(r)
    PROVE  LimitInv'
<1> DEFINE old == request[r]
           h == old.host
           a == Current(r)
           count == Count(h, a)
<1>1. /\ old \in Request /\ Local(r, old) /\ old.pc = "count" /\ request \in [Requests -> Request]
      /\ h \in Hosts /\ old.input \in Inputs
  BY AtPc DEF ReadCounter
<1>2. a \in Addresses /\ a = old.input.to[old.index]
  BY <1>1, InputFields DEF Current, To, Local
<1>3. UNCHANGED <<charged, cache>>
  BY DEF ReadCounter
<1>4. /\ r \in InFlight \/ InFlight = {}
      /\ \A s \in Requests : s # r => request'[s] = request[s]
  BY <1>1, StepInFlight DEF RequestStep, ReadCounter, Answer
<1>5. Reader(request[r])'
  <2>1. CASE count >= RateLimitMax
    <3>1. request' = [request EXCEPT ![r] = AnswerWith(old, "limited", None)]
      BY <2>1 DEF ReadCounter, Answer, AnswerWith
    <3>2. request'[r].pc = "answered"
      BY <1>1, <3>1, MovedPc
    <3> QED
      BY <3>2 DEF Reader
  <2>2. CASE ~(count >= RateLimitMax)
    <3>1. request' = [request EXCEPT ![r] = CountRead(old, "increment", count)]
      BY <2>2 DEF ReadCounter, CountRead
    <3>2. /\ request'[r].host = h /\ request'[r].read = count
          /\ request'[r].input = old.input /\ request'[r].index = old.index
      BY <1>1, <3>1 DEF CountRead, Request
    <3>3. Cardinality(OfLife(charged[h][a], 0)) <= count /\ count \in Nat
      BY <1>1, <1>2, CountCovers
    <3> QED
      BY <1>2, <1>3, <2>2, <3>2, <3>3, LimitsAssumption DEF Reader
  <2> QED
    BY <2>1, <2>2
<1>6. \A g \in Hosts, b \in Addresses : Limited(charged[g][b], cache[g][CountItem(b)])'
  BY <1>3 DEF LimitInv, Limited, Covered
<1> QED
  BY <1>4, <1>5, <1>6, SerialKept

\* WriteCounter: one more increment, one more in the counter, a full time to live.
LEMMA WriteKeepsLimit ==
    ASSUME EnqueueInv, LimitInv, HistoryTyped, MaxInFlight = 1,
           NEW r \in Requests, WriteCounter(r)
    PROVE  LimitInv'
<1> DEFINE old == request[r]
           h == old.host
           a == Current(r)
           C == charged[h][a]
           entry == [value |-> old.read + 1, left |-> RateLimitWindow]
<1>1. /\ old \in Request /\ old.pc = "increment" /\ request \in [Requests -> Request]
      /\ h \in Hosts /\ old.read \in Nat
  BY AtPc DEF WriteCounter, Request
<1>2. /\ a \in Addresses /\ a = old.input.to[old.index]
      /\ charged' = [charged EXCEPT ![h][a] = C \cup {Charge(r)}]
  BY Incremented DEF Current, To, HistoryTyped
<1>3. cache' = [cache EXCEPT ![h][CountItem(a)] = entry]
  BY DEF WriteCounter, Put, CountItem
<1>4. /\ r \in InFlight \/ InFlight = {}
      /\ \A s \in Requests : s # r => request'[s] = request[s]
      /\ request'[r].pc # "increment"
  BY <1>1, StepInFlight DEF RequestStep, WriteCounter, Request
<1> DEFINE D == OfLife(C, 0)
<1>5. /\ old.read < RateLimitMax /\ Cardinality(D) <= old.read
      /\ Limited(C, cache[h][CountItem(a)]) /\ C \in SUBSET Charges
  BY <1>1, <1>2 DEF LimitInv, Reader, HistoryTyped
<1>6. Covered(D \cup {Charge(r)}, entry)
  <2>1. /\ IsFiniteSet(D \cup {Charge(r)})
        /\ Cardinality(D \cup {Charge(r)}) <= Cardinality(D) + 1
        /\ Cardinality(D) \in Nat /\ Cardinality(D \cup {Charge(r)}) \in Nat
    <3>1. IsFiniteSet(D)
      BY <1>5 DEF Limited
    <3> HIDE DEF D
    <3>2. /\ IsFiniteSet(D \cup {Charge(r)})
          /\ Cardinality(D \cup {Charge(r)}) = IF Charge(r) \in D THEN Cardinality(D)
                                               ELSE Cardinality(D) + 1
      BY <3>1, FS_AddElement
    <3>3. Cardinality(D) \in Nat /\ Cardinality(D \cup {Charge(r)}) \in Nat
      BY <3>1, <3>2, FS_CardinalityType
    <3> QED
      BY <3>2, <3>3
  <2>2. D \in SUBSET Charges /\ Covered(D, cache[h][CountItem(a)])
    BY <1>5 DEF OfLife, Limited
  <2>3. ASSUME NEW c \in D \cup {Charge(r)}
        PROVE  c.age < RateLimitWindow /\ c.age + RateLimitWindow >= RateLimitWindow
    <3>1. c \in D => c.age \in Nat /\ c.age < RateLimitWindow
      BY <2>2 DEF Covered, Charges
    <3>2. Charge(r).age = 0
      BY DEF Charge
    <3> QED
      BY <3>1, <3>2, LimitsAssumption
  <2>4. entry.left = RateLimitWindow /\ entry.value = old.read + 1
    OBVIOUS
  <2> HIDE DEF D, entry
  <2> QED
    BY <1>1, <1>5, <2>1, <2>3, <2>4, LimitsAssumption DEF Covered
<1>7. Limited(C \cup {Charge(r)}, entry)
  <2>1. OfLife(C \cup {Charge(r)}, 0) = D \cup {Charge(r)}
    BY LivesCharged
  <2>2. ASSUME NEW n \in Nat
        PROVE  /\ IsFiniteSet(OfLife(C \cup {Charge(r)}, n))
               /\ Cardinality(OfLife(C \cup {Charge(r)}, n)) <= RateLimitMax
    <3>1. CASE n = 0
      BY <1>6, <2>1, <3>1 DEF Covered
    <3>2. CASE n # 0
      <4>1. OfLife(C \cup {Charge(r)}, n) = OfLife(C, n)
        BY <3>2, LivesCharged
      <4> QED
        BY <1>5, <4>1 DEF Limited
    <3> QED
      BY <3>1, <3>2
  <2> QED
    BY <1>6, <2>1, <2>2 DEF Limited
<1>8. ASSUME NEW g \in Hosts, NEW b \in Addresses
      PROVE  Limited(charged[g][b], cache[g][CountItem(b)])'
  <2>1. \A c \in Addresses : CountItem(c) = CountItem(a) => c = a
    BY ItemsDiffer DEF CountItem
  <2>2. CountItem(b) \in Items /\ cache \in [Hosts -> [Items -> Entry]]
    BY CounterEntry DEF EnqueueInv, Typed
  <2>3. Limited(charged[g][b], cache[g][CountItem(b)])
    BY DEF LimitInv
  <2>4. CASE g = h /\ b = a
    <3>1. charged'[g][b] = C \cup {Charge(r)}
      BY <1>1, <1>2, <2>4 DEF HistoryTyped
    <3>2. cache'[g][CountItem(b)] = entry
      BY <1>1, <1>3, <2>2, <2>4
    <3> QED
      BY <1>7, <3>1, <3>2 DEF Limited, Covered
  <2>5. CASE ~(g = h /\ b = a)
    <3>1. charged'[g][b] = charged[g][b]
      BY <1>1, <1>2, <2>5 DEF HistoryTyped
    <3>2. cache'[g][CountItem(b)] = cache[g][CountItem(b)]
      BY <1>1, <1>2, <1>3, <2>1, <2>2, <2>5
    <3> QED
      BY <2>3, <3>1, <3>2 DEF Limited, Covered
  <2> QED
    BY <2>4, <2>5
<1>9. Reader(request[r])'
  BY <1>4 DEF Reader
<1> QED
  BY <1>4, <1>8, <1>9, SerialKept

\* A step after which fewer increments are left that the counters are about.
LEMMA FewerCharges ==
    ASSUME EnqueueInv, LimitInv, HistoryTyped,
           \A h \in Hosts, a \in Addresses :
              /\ Limited(charged[h][a], cache[h][CountItem(a)])'
              /\ Cardinality(OfLife(charged'[h][a], 0)) <= Cardinality(OfLife(charged[h][a], 0)),
           \A s \in Requests : request'[s] = request[s] \/ request'[s].pc = "answered"
    PROVE  LimitInv'
<1>1. ASSUME NEW s \in Requests
      PROVE  Reader(request[s])'
  <2>1. CASE request'[s].pc # "increment"
    BY <2>1 DEF Reader
  <2>2. CASE request'[s].pc = "increment"
    <3> DEFINE q == request[s]
               h == q.host
               a == q.input.to[q.index]
    <3>1. request'[s] = q /\ q.pc = "increment"
      BY <2>2
    <3>2. q \in Request /\ h \in Hosts /\ q.input \in Inputs /\ Local(s, q)
      BY <3>1, AtPc
    <3>3. a \in Addresses /\ q.read \in Nat
      BY <3>1, <3>2, InputFields DEF Local, Request
    <3>4. Cardinality(OfLife(charged[h][a], 0)) <= q.read /\ q.read < RateLimitMax
      BY <3>1 DEF LimitInv, Reader
    <3>5. Cardinality(OfLife(charged'[h][a], 0)) <= Cardinality(OfLife(charged[h][a], 0))
      BY <3>2, <3>3
    <3>6. Cardinality(OfLife(charged'[h][a], 0)) \in Nat /\ Cardinality(OfLife(charged[h][a], 0)) \in Nat
      BY <3>2, <3>3, FS_CardinalityType DEF Limited, LimitInv
    <3> HIDE DEF q, h, a
    <3>7. Cardinality(OfLife(charged'[h][a], 0)) <= q.read
      BY <3>3, <3>4, <3>5, <3>6
    <3> QED
      BY <3>1, <3>4, <3>7 DEF Reader, q, h, a
  <2> QED
    BY <2>1, <2>2
<1>2. \A s \in InFlight' : s \in InFlight
  BY DEF InFlight
<1> QED
  BY <1>1, <1>2 DEF LimitInv

LEMMA TickKeepsLimit ==
    ASSUME EnqueueInv, LimitInv, HistoryTyped, Tick
    PROVE  LimitInv'
<1>1. ASSUME NEW h \in Hosts, NEW a \in Addresses
      PROVE  /\ Limited(charged[h][a], cache[h][CountItem(a)])'
             /\ Cardinality(OfLife(charged'[h][a], 0)) <= Cardinality(OfLife(charged[h][a], 0))
  <2> DEFINE C == charged[h][a]
             e == cache[h][CountItem(a)]
             f == cache'[h][CountItem(a)]
  <2>1. /\ CountItem(a) \in Items /\ e \in Entry /\ (e.left # 0 => e.value \in Nat)
        /\ Limited(C, e) /\ C \in SUBSET Charges
    BY CounterEntry DEF LimitInv, HistoryTyped
  <2>2. f = IF e.left > 1 THEN [e EXCEPT !.left = @ - 1] ELSE NoEntry
    BY <2>1 DEF Tick
  <2>3. charged'[h][a] = Aged(C)
    BY DEF Tick, Aged
  <2> HIDE DEF C, e, f
  <2>4. Covered(OfLife(Aged(C), 0), f)
    <3>1. OfLife(C, 0) \in SUBSET Charges /\ Covered(OfLife(C, 0), e)
      BY <2>1 DEF OfLife, Limited
    <3>2. Covered(Aged(OfLife(C, 0)), f)
      BY <2>1, <2>2, <3>1, AgedCovered
    <3> QED
      BY <2>1, <3>2, LivesAged
  <2>5. ASSUME NEW n \in Nat
        PROVE  /\ IsFiniteSet(OfLife(Aged(C), n))
               /\ Cardinality(OfLife(Aged(C), n)) <= Cardinality(OfLife(C, n))
               /\ Cardinality(OfLife(Aged(C), n)) <= RateLimitMax
    <3>1. IsFiniteSet(OfLife(C, n)) /\ Cardinality(OfLife(C, n)) <= RateLimitMax
      BY <2>1 DEF Limited
    <3> QED
      BY <2>1, <3>1, LivesAged, AgedCardinality, LimitsAssumption
  <2>6. Limited(Aged(C), f) /\ Cardinality(OfLife(Aged(C), 0)) <= Cardinality(OfLife(C, 0))
    BY <2>4, <2>5 DEF Limited
  <2> QED
    BY <2>3, <2>6 DEF C, f, Limited, Covered
<1>2. UNCHANGED request
  BY DEF Tick
<1> QED
  BY <1>1, <1>2, FewerCharges

\* A restart drops the counters; what they counted is of an earlier life then.
LEMMA RestartKeepsLimit ==
    ASSUME EnqueueInv, LimitInv, HistoryTyped, NEW h \in Hosts, Restart(h)
    PROVE  LimitInv'
<1>1. ASSUME NEW g \in Hosts, NEW a \in Addresses
      PROVE  /\ Limited(charged[g][a], cache[g][CountItem(a)])'
             /\ Cardinality(OfLife(charged'[g][a], 0)) <= Cardinality(OfLife(charged[g][a], 0))
  <2> DEFINE C == charged[g][a]
             f == cache'[g][CountItem(a)]
  <2>1. CountItem(a) \in Items /\ cache \in [Hosts -> [Items -> Entry]] /\ C \in SUBSET Charges
    BY CounterEntry DEF EnqueueInv, Typed, HistoryTyped
  <2>2. Limited(C, cache[g][CountItem(a)])
    BY DEF LimitInv
  <2>3. CASE g = h
    <3>1. charged'[g][a] = Restarted(C) /\ f = NoEntry
      BY <2>1, <2>3 DEF Restart, Restarted, EmptyCache, HistoryTyped
    <3> HIDE DEF C, f
    <3>2. OfLife(Restarted(C), 0) = {}
      BY <2>1, LivesRestarted
    <3>3. Covered({}, f) /\ Cardinality({}) = 0
      BY <3>1, NothingCovered DEF NoEntry
    <3>4. ASSUME NEW n \in Nat
          PROVE  /\ IsFiniteSet(OfLife(Restarted(C), n))
                 /\ Cardinality(OfLife(Restarted(C), n)) <= RateLimitMax
      <4>1. CASE n = 0
        BY <3>2, <3>3, <4>1 DEF Covered
      <4>2. CASE n # 0
        <5>1. PICK m \in Nat : n = m + 1
          <6>1. n - 1 \in Nat /\ n = (n - 1) + 1
            BY <4>2
          <6> QED
            BY <6>1
        <5>2. IsFiniteSet(OfLife(C, m)) /\ Cardinality(OfLife(C, m)) <= RateLimitMax
          BY <2>2 DEF Limited, C
        <5>3. OfLife(Restarted(C), n) = Restarted(OfLife(C, m))
          BY <2>1, <5>1, LivesRestarted
        <5> QED
          BY <5>2, <5>3, RestartedCardinality, LimitsAssumption
      <4> QED
        BY <4>1, <4>2
    <3>5. Limited(Restarted(C), f)
      BY <3>2, <3>3, <3>4 DEF Limited
    <3>6. Cardinality(OfLife(C, 0)) >= 0
      BY <2>2, FS_CardinalityType DEF Limited, C
    <3> QED
      BY <3>1, <3>2, <3>3, <3>5, <3>6 DEF C, f, Limited, Covered
  <2>4. CASE g # h
    <3>1. charged'[g][a] = C /\ f = cache[g][CountItem(a)]
      BY <2>1, <2>4 DEF Restart, HistoryTyped
    <3>2. Cardinality(OfLife(C, 0)) \in Nat
      BY <2>2, FS_CardinalityType DEF Limited
    <3> QED
      BY <2>2, <3>1, <3>2 DEF Limited, Covered
  <2> QED
    BY <2>3, <2>4
<1>2. \A s \in Requests : request'[s] = request[s] \/ request'[s].pc = "answered"
  <2>1. request' = [s \in Requests |->
           IF s \in InFlight /\ request[s].host = h
           THEN AnswerWith(request[s], "lost", None) ELSE request[s]]
    BY DEF Restart, AnswerWith
  <2>2. \A s \in Requests : AnswerWith(request[s], "lost", None).pc = "answered"
    BY MovedPc, AtPc
  <2> QED
    BY <2>1, <2>2
<1> QED
  BY <1>1, <1>2, FewerCharges

LEMMA LimitKept ==
    ASSUME MaxInFlight = 1, EnqueueInv, LimitInv, HistoryTyped, [Next]_vars
    PROVE  LimitInv'
<1>1. ASSUME NEW r \in Requests, QuietStep(r)
      PROVE  LimitInv'
  <2>1. /\ UNCHANGED charged /\ request'[r].pc # "increment"
        /\ \A s \in Requests : s # r => request'[s] = request[s]
        /\ \A h \in Hosts, a \in Addresses :
              cache'[h][CountItem(a)] = cache[h][CountItem(a)]
    BY <1>1, QuietEffects
  <2>2. r \in InFlight \/ InFlight = {}
    BY <1>1, StepInFlight DEF QuietStep, RequestStep
  <2>3. \A h \in Hosts, a \in Addresses : Limited(charged[h][a], cache[h][CountItem(a)])'
    BY <2>1 DEF LimitInv, Limited, Covered
  <2> QED
    BY <2>1, <2>2, <2>3, SerialKept DEF Reader
<1>2. ASSUME NEW r \in Requests, RequestStep(r)
      PROVE  LimitInv'
  BY <1>1, <1>2, ReadKeepsLimit, WriteKeepsLimit DEF RequestStep, QuietStep
<1>3. CASE UNCHANGED <<request, cache, charged>>
  BY <1>3 DEF LimitInv, Limited, Covered, Reader, InFlight
<1> QED
  BY <1>2, <1>3, TickKeepsLimit, RestartKeepsLimit DEF Next, ListStep, vars

\* While requests are served one at a time, a host lets through at most
\* RateLimitMax messages per address in any RateLimitWindow between two of its
\* starts, although every one renews the counter's time to live and refused and
\* failed requests leave increments (checkAndIncrementRecipientCounter).  Across a
\* restart nothing is claimed: the counters are in the host's memory.
THEOREM SerialRateLimit ==
    ASSUME MaxInFlight = 1
    PROVE  Spec => []RateLimitHolds
<1>1. Init => HistoryTyped /\ LimitInv
  <2> SUFFICES ASSUME Init PROVE HistoryTyped /\ LimitInv
    OBVIOUS
  <2>1. \A h \in Hosts, a \in Addresses :
           charged[h][a] = {} /\ cache[h][CountItem(a)].left = 0
    BY ItemsTyped DEF Init, EnqueueInit, NoCharges, EmptyCache, NoEntry, CountItem
  <2>2. \A r \in Requests : request[r].pc = "new"
    BY DEF Init, EnqueueInit
  <2>3. HistoryTyped
    BY DEF Init, EnqueueInit, NoCharges, HistoryTyped
  <2> QED
    <3>1. \A n \in Nat : OfLife({}, n) = {}
      BY DEF OfLife
    <3>2. \A h \in Hosts, a \in Addresses : Limited(charged[h][a], cache[h][CountItem(a)])
      BY <2>1, <3>1, NothingCovered DEF Limited, Covered
    <3> QED
      BY <2>2, <2>3, <3>2 DEF LimitInv, Reader, InFlight
<1>2. EnqueueInv /\ HistoryTyped /\ LimitInv /\ [Next]_vars => HistoryTyped' /\ LimitInv'
  BY HistoryKept, LimitKept
<1>3. LimitInv /\ HistoryTyped => RateLimitHolds
  <2> SUFFICES ASSUME LimitInv, HistoryTyped, NEW h \in Hosts, NEW a \in Addresses,
                      NEW c \in charged[h][a]
               PROVE  Cardinality({d \in charged[h][a] : d.restarts = c.restarts})
                         <= RateLimitMax
    BY DEF RateLimitHolds
  <2>1. c.restarts \in Nat
    BY DEF HistoryTyped, Charges
  <2>2. {d \in charged[h][a] : d.restarts = c.restarts} = OfLife(charged[h][a], c.restarts)
    BY DEF OfLife
  <2> QED
    BY <2>1, <2>2 DEF LimitInv, Limited
<1> QED
  BY <1>1, <1>2, <1>3, EnqueueInvariant, PTL DEF Spec

-----------------------------------------------------------------------------
(* What a client sees of a step.                                           *)

Ended == {"new", "answered"}
Gets == {"created", "existing"}
Fails == {"duplicate", "failed"}

\* A request as its client sees it.
PhaseOf(q) == CASE q.pc = "new" -> "new"
                [] q.pc \notin Ended -> "open"
                [] q.pc = "answered" /\ q.kind \in Gets -> "answered"
                [] q.pc = "answered" /\ q.kind = "lost" -> "lost"
                [] q.pc = "answered" /\ q.kind \in Fails -> "failed"
                [] OTHER -> "refused"
KeyOf(q) == IF q.pc = "new" THEN NoKey ELSE q.input.key
AnswerOf(q) == IF PhaseOf(q) = "answered" THEN q.mail ELSE None

Phases == [r \in Requests |-> PhaseOf(request[r])]
KeysOf == [r \in Requests |-> KeyOf(request[r])]
Answers == [r \in Requests |-> AnswerOf(request[r])]

LEMMA PhasesOf ==
    ASSUME NEW q
    PROVE  /\ q.pc = "new" => PhaseOf(q) = "new" /\ AnswerOf(q) = None
           /\ q.pc \notin Ended => PhaseOf(q) = "open" /\ AnswerOf(q) = None
           /\ q.pc = "answered" /\ q.kind \in Gets =>
                 PhaseOf(q) = "answered" /\ AnswerOf(q) = q.mail
           /\ q.pc = "answered" /\ q.kind = "lost" =>
                 PhaseOf(q) = "lost" /\ AnswerOf(q) = None
           /\ q.pc = "answered" /\ q.kind \in Fails =>
                 PhaseOf(q) = "failed" /\ AnswerOf(q) = None
           /\ q.pc = "answered" /\ q.kind \notin Gets \cup Fails \cup {"lost"} =>
                 PhaseOf(q) = "refused" /\ AnswerOf(q) = None
  BY DEF PhaseOf, AnswerOf, Ended, Gets, Fails

LEMMA IntakeSees ==
    /\ [r \in Requests |-> Phase(r)] = Phases
    /\ [r \in Requests |-> IF request[r].pc = "new" THEN NoKey ELSE Key(r)] = KeysOf
    /\ [r \in Requests |-> IF Phase(r) = "answered" THEN request[r].mail ELSE None] = Answers
<1>1. \A r \in Requests : Phase(r) = PhaseOf(request[r])
  BY DEF Phase, PhaseOf, Ended, Gets, Fails
<1> QED
  BY <1>1 DEF Phases, KeysOf, Answers, KeyOf, AnswerOf, Key

LEMMA IntakeSeesNext ==
    /\ [r \in Requests |-> Phase(r)'] = Phases'
    /\ [r \in Requests |-> IF request'[r].pc = "new" THEN NoKey ELSE Key(r)'] = KeysOf'
    /\ [r \in Requests |-> IF Phase(r)' = "answered" THEN request'[r].mail ELSE None] = Answers'
<1>1. \A r \in Requests : Phase(r)' = PhaseOf(request'[r])
  BY DEF Phase, PhaseOf, Ended, Gets, Fails
<1> QED
  BY <1>1 DEF Phases, KeysOf, Answers, KeyOf, AnswerOf, Key

\* A step of r changes what r sees and what nobody else sees.
LEMMA ViewChanges ==
    ASSUME EnqueueInv, NEW r \in Requests, NEW q, request' = [request EXCEPT ![r] = q]
    PROVE  /\ Phases' = [Phases EXCEPT ![r] = PhaseOf(q)]
           /\ KeysOf' = [KeysOf EXCEPT ![r] = KeyOf(q)]
           /\ Answers' = [Answers EXCEPT ![r] = AnswerOf(q)]
           /\ Phases[r] = PhaseOf(request[r]) /\ KeysOf[r] = KeyOf(request[r])
           /\ Answers[r] = AnswerOf(request[r])
<1>1. \A s \in Requests : request'[s] = IF s = r THEN q ELSE request[s]
  BY DEF EnqueueInv, Typed
<1>2. Phases' = [Phases EXCEPT ![r] = PhaseOf(q)] /\ Phases[r] = PhaseOf(request[r])
  <2>1. Phases' = [s \in Requests |-> IF s = r THEN PhaseOf(q) ELSE Phases[s]]
    BY <1>1 DEF Phases
  <2>2. DOMAIN Phases = Requests /\ Phases[r] = PhaseOf(request[r])
    BY DEF Phases
  <2> QED
    BY <2>1, <2>2
<1>3. KeysOf' = [KeysOf EXCEPT ![r] = KeyOf(q)] /\ KeysOf[r] = KeyOf(request[r])
  <2>1. KeysOf' = [s \in Requests |-> IF s = r THEN KeyOf(q) ELSE KeysOf[s]]
    BY <1>1 DEF KeysOf
  <2>2. DOMAIN KeysOf = Requests /\ KeysOf[r] = KeyOf(request[r])
    BY DEF KeysOf
  <2> QED
    BY <2>1, <2>2
<1>4. Answers' = [Answers EXCEPT ![r] = AnswerOf(q)] /\ Answers[r] = AnswerOf(request[r])
  <2>1. Answers' = [s \in Requests |-> IF s = r THEN AnswerOf(q) ELSE Answers[s]]
    BY <1>1 DEF Answers
  <2>2. DOMAIN Answers = Requests /\ Answers[r] = AnswerOf(request[r])
    BY DEF Answers
  <2> QED
    BY <2>1, <2>2
<1> QED
  BY <1>2, <1>3, <1>4

\* Only requests that have arrived are stored, under the key they came with.
LEMMA StoredKeys ==
    ASSUME EnqueueInv
    PROVE  /\ table \subseteq Requests
           /\ \A m \in table : request[m].pc # "new" /\ KeysOf[m] = Key(m)
           /\ \A k : RowsWithKey(k) = {m \in table : KeysOf[m] = k}
<1>1. table \subseteq Requests
  BY DEF EnqueueInv, Typed
<1>2. \A m \in table : request[m].pc # "new"
  BY <1>1 DEF EnqueueInv, Local
<1>3. \A m \in table : KeysOf[m] = Key(m)
  BY <1>1, <1>2 DEF KeysOf, KeyOf, Key
<1> QED
  BY <1>1, <1>2, <1>3 DEF RowsWithKey

\* Step of a request that is open.
Stepped(r, q) ==
    /\ request[r].pc \notin Ended
    /\ request' = [request EXCEPT ![r] = q] /\ q.pc # "new"
    /\ q.input = request[r].input
    /\ UNCHANGED known

LEMMA SteppedView ==
    ASSUME EnqueueInv, NEW r \in Requests, NEW q, Stepped(r, q)
    PROVE  /\ Phases' = [Phases EXCEPT ![r] = PhaseOf(q)] /\ KeysOf' = KeysOf
           /\ Answers' = [Answers EXCEPT ![r] = AnswerOf(q)]
           /\ Phases[r] = "open" /\ KeysOf[r] = Key(r) /\ Answers[r] = None
           /\ PhaseOf(q) = "open" => UNCHANGED Phases
           /\ AnswerOf(q) = None => UNCHANGED Answers
           /\ UNCHANGED known
<1>1. KeyOf(q) = KeyOf(request[r]) /\ KeyOf(request[r]) = Key(r)
  BY DEF Stepped, KeyOf, Key, Ended
<1>2. PhaseOf(request[r]) = "open" /\ AnswerOf(request[r]) = None
  BY PhasesOf DEF Stepped
<1>3. /\ [Phases EXCEPT ![r] = Phases[r]] = Phases
      /\ [KeysOf EXCEPT ![r] = KeysOf[r]] = KeysOf
      /\ [Answers EXCEPT ![r] = Answers[r]] = Answers
  BY DEF Phases, KeysOf, Answers
<1>4. /\ Phases' = [Phases EXCEPT ![r] = PhaseOf(q)]
      /\ KeysOf' = [KeysOf EXCEPT ![r] = KeyOf(q)]
      /\ Answers' = [Answers EXCEPT ![r] = AnswerOf(q)]
      /\ Phases[r] = PhaseOf(request[r]) /\ KeysOf[r] = KeyOf(request[r])
      /\ Answers[r] = AnswerOf(request[r])
  BY ViewChanges DEF Stepped
<1>5. Phases[r] = "open" /\ KeysOf[r] = Key(r) /\ Answers[r] = None
  BY <1>1, <1>2, <1>4
<1>6. KeysOf' = KeysOf
  <2>1. KeyOf(q) = KeysOf[r]
    BY <1>1, <1>4
  <2> QED
    BY <1>3, <1>4, <2>1
<1>7. PhaseOf(q) = "open" => UNCHANGED Phases
  BY <1>3, <1>4, <1>5
<1>8. AnswerOf(q) = None => UNCHANGED Answers
  BY <1>3, <1>4, <1>5
<1>9. UNCHANGED known
  BY DEF Stepped
<1> QED
  BY <1>4, <1>5, <1>6, <1>7, <1>8, <1>9

\* A step that leaves the request open, and the table alone, is not seen.
LEMMA HiddenStep ==
    ASSUME EnqueueInv, NEW r \in Requests, NEW q, Stepped(r, q), UNCHANGED table,
           q.pc \notin Ended
    PROVE  UNCHANGED Intake!intakeVars
<1>1. PhaseOf(q) = "open" /\ AnswerOf(q) = None
  BY PhasesOf
<1>2. UNCHANGED <<Phases, KeysOf, table, Answers, known>>
  BY <1>1, SteppedView
<1> QED
  BY <1>2, IntakeSees, IntakeSeesNext DEF Intake!intakeVars

LEMMA RefusingStep ==
    ASSUME EnqueueInv, NEW r \in Requests, NEW q, Stepped(r, q), UNCHANGED table,
           r \notin table, q.pc = "answered", q.kind \notin Gets \cup Fails \cup {"lost"}
    PROVE  Intake!Refuse(r)
<1>1. PhaseOf(q) = "refused" /\ AnswerOf(q) = None
  BY PhasesOf
<1>2. /\ Phases[r] = "open" /\ Phases' = [Phases EXCEPT ![r] = "refused"]
      /\ UNCHANGED <<KeysOf, Answers, known>>
  BY <1>1, SteppedView
<1> QED
  BY <1>2, IntakeSees, IntakeSeesNext DEF Intake!Refuse

\* The client is told of an error; its row may have been added all the same.
LEMMA FailingStep ==
    ASSUME EnqueueInv, NEW r \in Requests, NEW q, Stepped(r, q), r \notin table,
           \/ UNCHANGED table
           \/ /\ table' = table \cup {r} /\ r \notin known
              /\ Key(r) = NoKey \/ RowsWithKey(Key(r)) = {},
           q.pc = "answered", q.kind \in Fails
    PROVE  Intake!Fail(r)
<1>1. PhaseOf(q) = "failed" /\ AnswerOf(q) = None
  BY PhasesOf
<1>2. /\ Phases[r] = "open" /\ Phases' = [Phases EXCEPT ![r] = "failed"]
      /\ KeysOf[r] = Key(r) /\ UNCHANGED <<KeysOf, Answers, known>>
  BY <1>1, SteppedView
<1>3. Key(r) = NoKey \/ RowsWithKey(Key(r)) = {} =>
         {n \in table : KeysOf[r] # NoKey /\ KeysOf[n] = KeysOf[r]} = {}
  BY <1>2, StoredKeys
<1> QED
  BY <1>2, <1>3, IntakeSees, IntakeSeesNext DEF Intake!Fail, Intake!WithKey

LEMMA GivingStep ==
    ASSUME EnqueueInv, NEW r \in Requests, NEW q, Stepped(r, q), UNCHANGED table,
           q.pc = "answered", q.kind \in Gets, NEW m, q.mail = m,
           m \in IF r \in table THEN {r}
                 ELSE {n \in table : Key(r) # NoKey /\ Key(n) = Key(r)}
    PROVE  Intake!Give(r, m)
<1>1. PhaseOf(q) = "answered" /\ AnswerOf(q) = m
  BY PhasesOf
<1>2. /\ Phases[r] = "open" /\ Phases' = [Phases EXCEPT ![r] = "answered"]
      /\ Answers' = [Answers EXCEPT ![r] = m] /\ KeysOf[r] = Key(r)
      /\ UNCHANGED <<KeysOf, known>>
  BY <1>1, SteppedView
<1>3. m \in IF r \in table THEN {r} ELSE {n \in table : KeysOf[r] # NoKey /\ KeysOf[n] = KeysOf[r]}
  BY <1>2, StoredKeys
<1> QED
  BY <1>2, <1>3, IntakeSees, IntakeSeesNext DEF Intake!Give, Intake!WithKey

LEMMA StoringStep ==
    ASSUME EnqueueInv, NEW r \in Requests, NEW q, Stepped(r, q),
           table' = table \cup {r}, r \notin table, r \notin known,
           Key(r) = NoKey \/ RowsWithKey(Key(r)) = {},
           \/ q.pc \notin Ended
           \/ q.pc = "answered" /\ q.kind \in Gets /\ q.mail = r
    PROVE  Intake!Store(r)
<1>1. /\ Phases' = [Phases EXCEPT ![r] = PhaseOf(q)] /\ Phases[r] = "open"
      /\ Answers' = [Answers EXCEPT ![r] = AnswerOf(q)] /\ KeysOf[r] = Key(r)
      /\ UNCHANGED <<KeysOf, known>>
      /\ PhaseOf(q) = "open" /\ AnswerOf(q) = None => UNCHANGED <<Phases, Answers>>
  BY SteppedView
<1>2. \/ UNCHANGED <<Phases, Answers>>
      \/ /\ Phases' = [Phases EXCEPT ![r] = "answered"]
         /\ Answers' = [Answers EXCEPT ![r] = r]
  BY <1>1, PhasesOf
<1>3. {n \in table : KeysOf[r] # NoKey /\ KeysOf[n] = KeysOf[r]} = {}
  BY <1>1, StoredKeys
<1> QED
  BY <1>1, <1>2, <1>3, IntakeSees, IntakeSeesNext DEF Intake!Store, Intake!WithKey

-----------------------------------------------------------------------------
(* The steps of MailEnqueue as steps of the intake.                        *)

LEMMA HtmlSteps ==
    ASSUME EnqueueInv, NEW r \in Requests, LookUpHtml(r) \/ CacheHtml(r)
    PROVE  Intake!Refuse(r) \/ UNCHANGED Intake!intakeVars
<1> DEFINE old == request[r]
<1>1. /\ old \in Request /\ Local(r, old) /\ old.pc \in {"template", "cacheHtml"}
      /\ old.input.render \in Renders
  BY AtPc DEF LookUpHtml, CacheHtml, Local
<1>2. UNCHANGED <<table, known>> /\ r \notin table
  BY <1>1 DEF LookUpHtml, CacheHtml, Local
<1>3. CASE request' = [request EXCEPT ![r] = MoveTo(old, "cacheHtml")]
  <2> DEFINE q == MoveTo(old, "cacheHtml")
  <2>1. q.pc = "cacheHtml" /\ q.input = old.input
    BY <1>1, RecordUpdates DEF SameButPc, Pcs
  <2> HIDE DEF q
  <2>2. Stepped(r, q)
    BY <1>1, <1>2, <1>3, <2>1 DEF Stepped, Ended, q
  <2> QED
    BY <1>2, <2>1, <2>2, HiddenStep DEF Ended
<1>4. ASSUME NEW x \in Renders, request' = [request EXCEPT ![r] = Checked(HtmlSet(old, x))]
      PROVE  Intake!Refuse(r) \/ UNCHANGED Intake!intakeVars
  <2> DEFINE q == Checked(HtmlSet(old, x))
  <2>1. /\ q.input = old.input
        /\ \/ q.pc = "suppression"
           \/ q.pc = "answered" /\ q.kind = "invalid"
    BY <1>1, HtmlFields, CheckedFields
  <2> HIDE DEF q
  <2>2. Stepped(r, q)
    BY <1>1, <1>2, <1>4, <2>1 DEF Stepped, Ended, q
  <2> QED
    BY <1>2, <2>1, <2>2, HiddenStep, RefusingStep DEF Ended, Gets, Fails
<1>5. ASSUME LookUpHtml(r), cache[old.host][HtmlItem(old.input.render)].left # 0
      PROVE  /\ cache[old.host][HtmlItem(old.input.render)].value = old.input.render
             /\ request' = [request EXCEPT ![r] =
                    Checked(HtmlSet(old, cache[old.host][HtmlItem(old.input.render)].value))]
  <2>1. Sound(HtmlItem(old.input.render), cache[old.host][HtmlItem(old.input.render)])
    BY <1>1, AtPc, ItemsTyped DEF EnqueueInv, HtmlItem
  <2>2. cache[old.host][HtmlItem(old.input.render)].value = old.input.render
    BY <1>1, <1>5, <2>1 DEF Sound, HtmlItem
  <2>3. request' = [request EXCEPT ![r] =
                    Checked(HtmlSet(old, cache[old.host][HtmlItem(old.input.render)].value))]
    BY <1>5 DEF LookUpHtml, HtmlSet
  <2> QED
    BY <2>2, <2>3
<1>6. CASE LookUpHtml(r) /\ cache[old.host][HtmlItem(old.input.render)].left = 0
  <2>1. request' = [request EXCEPT ![r] = MoveTo(old, "cacheHtml")]
    BY <1>6 DEF LookUpHtml, MoveTo
  <2> QED
    BY <1>3, <2>1
<1>7. CASE CacheHtml(r)
  <2>1. request' = [request EXCEPT ![r] = Checked(HtmlSet(old, old.input.render))]
    BY <1>7 DEF CacheHtml, HtmlSet
  <2> QED
    BY <1>1, <1>4, <2>1
<1> QED
  BY <1>1, <1>4, <1>5, <1>6, <1>7

LEMMA LookUpSteps ==
    ASSUME EnqueueInv, NEW r \in Requests, LookUpCache(r) \/ LookUpId(r) \/ LookUpKey(r)
    PROVE  (\E m \in Requests : Intake!Give(r, m)) \/ UNCHANGED Intake!intakeVars
<1> DEFINE old == request[r]
<1>1. /\ old \in Request /\ Local(r, old) /\ old.pc \in {"cached", "cachedId", "stored"}
      /\ Key(r) = old.input.key /\ Key(r) # NoKey /\ old.pc \notin Ended
  BY AtPc DEF LookUpCache, LookUpId, LookUpKey, Local, Keyed, Key, Ended, Truthy
<1>2. UNCHANGED <<table, known>> /\ r \notin table /\ table \subseteq Requests
  BY <1>1 DEF LookUpCache, LookUpId, LookUpKey, Local, EnqueueInv, Typed
<1>3. ASSUME NEW m \in table, Key(m) = Key(r), Answer(r, "existing", m)
      PROVE  Intake!Give(r, m) /\ m \in Requests
  <2> DEFINE q == AnswerWith(old, "existing", m)
  <2>1. q.input = old.input /\ q.pc = "answered" /\ q.kind = "existing" /\ q.mail = m
    <3>1. "existing" \in Kinds
      BY DEF Kinds
    <3> QED
      BY <1>1, <1>2, <3>1, AnswerFields
  <2>2. request' = [request EXCEPT ![r] = q]
    BY <1>3 DEF Answer, AnswerWith
  <2> HIDE DEF q
  <2>3. Stepped(r, q)
    BY <1>1, <1>2, <2>1, <2>2 DEF Stepped
  <2>4. m \in {n \in table : Key(r) # NoKey /\ Key(n) = Key(r)}
    BY <1>1, <1>3
  <2> QED
    BY <1>2, <2>1, <2>3, <2>4, GivingStep DEF Gets
<1>4. ASSUME NEW pc \in Pcs \ Ended, NEW mail \in Requests \cup {None},
             \/ request' = [request EXCEPT ![r] = MoveTo(old, pc)]
             \/ request' = [request EXCEPT ![r] = MailFound(old, pc, mail)]
      PROVE  UNCHANGED Intake!intakeVars
  <2>1. PICK q \in {MoveTo(old, pc), MailFound(old, pc, mail)} :
           request' = [request EXCEPT ![r] = q]
    BY <1>4
  <2>2. q.pc = pc /\ q.input = old.input
    BY <1>1, <2>1, RecordUpdates DEF SameButPc
  <2>3. Stepped(r, q)
    BY <1>1, <1>2, <2>1, <2>2 DEF Stepped, Ended
  <2> QED
    BY <1>2, <2>2, <2>3, HiddenStep
<1>5. CASE LookUpCache(r)
  <2> DEFINE found == cache[old.host][Item("key", Key(r))]
             pc == IF found.left = 0 THEN "stored" ELSE "cachedId"
  <2>1. Sound(Item("key", Key(r)), found) /\ Key(r) \in Keys
    BY <1>1, AtPc, ItemsTyped DEF EnqueueInv, Ended
  <2>2. found.value \in Requests \cup {None}
    BY <2>1 DEF Sound
  <2>3. request' = [request EXCEPT ![r] = MailFound(old, pc, found.value)]
    BY <1>5 DEF LookUpCache, MailFound
  <2>4. pc \in Pcs \ Ended
    BY DEF Pcs, Ended
  <2> HIDE DEF found, pc
  <2> QED
    BY <1>4, <2>2, <2>3, <2>4
<1>6. CASE LookUpId(r)
  <2>1. old.pc = "cachedId"
    BY <1>6 DEF LookUpId
  <2>2. old.mail \in table /\ Key(old.mail) = Key(r)
    BY <1>1, <2>1 DEF Local, HasKey, Key
  <2>3. Answer(r, "existing", old.mail)
    BY <1>6, <2>2 DEF LookUpId
  <2> QED
    BY <1>3, <2>2, <2>3
<1>7. CASE LookUpKey(r)
  <2>1. ASSUME Go(r, RatePhase) PROVE UNCHANGED Intake!intakeVars
    <3>1. RatePhase \in Pcs \ Ended
      BY DEF RatePhase, Pcs, Ended
    <3>2. request' = [request EXCEPT ![r] = MoveTo(old, RatePhase)]
      BY <2>1 DEF Go, MoveTo
    <3> QED
      BY <1>4, <3>1, <3>2
  <2>2. \/ \E m \in RowsWithKey(Key(r)) : Answer(r, "existing", m)
        \/ Go(r, RatePhase)
    BY <1>7 DEF LookUpKey
  <2>3. \A m \in RowsWithKey(Key(r)) : m \in table /\ Key(m) = Key(r)
    BY DEF RowsWithKey
  <2> QED
    BY <1>3, <2>1, <2>2, <2>3
<1> QED
  BY <1>5, <1>6, <1>7

LEMMA CheckSteps ==
    ASSUME EnqueueInv, NEW r \in Requests,
           CheckSuppression(r) \/ ReadCounter(r) \/ WriteCounter(r)
    PROVE  Intake!Refuse(r) \/ UNCHANGED Intake!intakeVars
<1> DEFINE old == request[r]
<1>1. /\ old \in Request /\ Local(r, old) /\ old.pc \in {"suppression", "count", "increment"}
      /\ old.pc \notin Ended
  BY AtPc DEF CheckSuppression, ReadCounter, WriteCounter, Ended
<1>2. UNCHANGED <<table, known>> /\ r \notin table
  BY <1>1 DEF CheckSuppression, ReadCounter, WriteCounter, Local
<1>3. ASSUME NEW kind \in {"blocked", "limited"}, Answer(r, kind, None)
      PROVE  Intake!Refuse(r)
  <2> DEFINE q == AnswerWith(old, kind, None)
  <2>1. q.input = old.input /\ q.pc = "answered" /\ q.kind = kind
    <3>1. kind \in Kinds
      BY DEF Kinds
    <3> QED
      BY <1>1, <3>1, AnswerFields
  <2>2. request' = [request EXCEPT ![r] = q]
    BY <1>3 DEF Answer, AnswerWith
  <2> HIDE DEF q
  <2>3. Stepped(r, q)
    BY <1>1, <1>2, <2>1, <2>2 DEF Stepped
  <2> QED
    BY <1>2, <2>1, <2>3, RefusingStep DEF Gets, Fails
<1>4. ASSUME NEW q, request' = [request EXCEPT ![r] = q], q.pc \notin Ended,
             q.input = old.input
      PROVE  UNCHANGED Intake!intakeVars
  <2>1. Stepped(r, q)
    BY <1>1, <1>2, <1>4 DEF Stepped, Ended
  <2> QED
    BY <1>2, <1>4, <2>1, HiddenStep
<1>5. CASE CheckSuppression(r)
  <2> DEFINE pc == IF Truthy(Key(r)) THEN "cached" ELSE RatePhase
  <2>1. Answer(r, "blocked", None) \/ request' = [request EXCEPT ![r] = MoveTo(old, pc)]
    BY <1>5 DEF CheckSuppression, Go, MoveTo
  <2>2. pc \in Pcs \ Ended
    BY DEF RatePhase, Pcs, Ended
  <2>3. MoveTo(old, pc).pc = pc /\ MoveTo(old, pc).input = old.input
    BY <1>1, <2>2, RecordUpdates DEF SameButPc
  <2> HIDE DEF pc
  <2> QED
    BY <1>3, <1>4, <2>1, <2>2, <2>3
<1>6. CASE ReadCounter(r)
  <2> DEFINE q == [old EXCEPT !.pc = "increment", !.read = Count(old.host, Current(r))]
  <2>1. Answer(r, "limited", None) \/ request' = [request EXCEPT ![r] = q]
    BY <1>6 DEF ReadCounter
  <2>2. q.pc \notin Ended /\ q.input = old.input
    BY <1>1 DEF Request, Ended
  <2> HIDE DEF q
  <2> QED
    BY <1>3, <1>4, <2>1, <2>2
<1>7. CASE WriteCounter(r)
  <2> DEFINE last == old.index = Len(To(r))
             pc == IF last THEN "insert" ELSE "count"
             index == IF last THEN old.index ELSE old.index + 1
             q == NextRecipient(old, pc, index)
  <2>1. request' = [request EXCEPT ![r] = q]
    BY <1>7 DEF WriteCounter, NextRecipient
  <2>2. index \in Nat /\ pc \in Pcs \ Ended
    BY <1>1 DEF Request, Pcs, Ended
  <2>3. q.pc \notin Ended /\ q.input = old.input
    BY <1>1, <2>2, NextFields
  <2> HIDE DEF q
  <2> QED
    BY <1>4, <2>1, <2>3
<1> QED
  BY <1>5, <1>6, <1>7

LEMMA InsertSteps ==
    ASSUME EnqueueInv, NEW r \in Requests, InsertMail(r)
    PROVE  Intake!Fail(r) \/ Intake!Store(r)
<1> DEFINE old == request[r]
<1>1. /\ old \in Request /\ Local(r, old) /\ old.pc = "insert" /\ old.pc \notin Ended
  BY AtPc DEF InsertMail, Ended
<1>2. UNCHANGED known /\ r \notin table
  BY <1>1 DEF InsertMail, Local
<1>3. /\ MoveTo(old, "cacheKey").input = old.input /\ MoveTo(old, "cacheKey").pc = "cacheKey"
      /\ \A kind \in {"created", "duplicate"}, mail \in {r, None} :
            /\ AnswerWith(old, kind, mail).input = old.input
            /\ AnswerWith(old, kind, mail).pc = "answered"
            /\ AnswerWith(old, kind, mail).kind = kind
            /\ AnswerWith(old, kind, mail).mail = mail
  <2>1. "cacheKey" \in Pcs /\ {"created", "duplicate"} \subseteq Kinds
    BY DEF Pcs, Kinds
  <2> QED
    BY <1>1, <2>1, RecordUpdates, AnswerFields DEF SameButPc
<1>4. CASE Key(r) # NoKey /\ RowsWithKey(Key(r)) # {}
  <2> DEFINE q == AnswerWith(old, "duplicate", None)
  <2>1. q.input = old.input /\ q.pc = "answered" /\ q.kind = "duplicate"
    BY <1>3
  <2>2. request' = [request EXCEPT ![r] = q] /\ UNCHANGED table
    BY <1>4 DEF InsertMail, Answer, AnswerWith
  <2> HIDE DEF q
  <2>3. Stepped(r, q)
    BY <1>1, <1>2, <2>1, <2>2 DEF Stepped
  <2> QED
    BY <1>2, <2>1, <2>2, <2>3, FailingStep DEF Fails
<1>5. CASE Key(r) = NoKey \/ RowsWithKey(Key(r)) = {}
  <2>1. /\ table' = table \cup {r}
        /\ \/ request' = [request EXCEPT ![r] = AnswerWith(old, "created", r)]
           \/ request' = [request EXCEPT ![r] = MoveTo(old, "cacheKey")]
    BY <1>5 DEF InsertMail, Answer, AnswerWith, Go, MoveTo
  <2>2. PICK q \in {AnswerWith(old, "created", r), MoveTo(old, "cacheKey")} :
           request' = [request EXCEPT ![r] = q]
    BY <2>1
  <2>3. /\ q.input = old.input
        /\ \/ q.pc = "cacheKey"
           \/ q.pc = "answered" /\ q.kind = "created" /\ q.mail = r
    BY <1>3, <2>2
  <2>4. Stepped(r, q)
    BY <1>1, <1>2, <2>2, <2>3 DEF Stepped
  <2>5. \/ q.pc \notin Ended
        \/ q.pc = "answered" /\ q.kind \in Gets /\ q.mail = r
    BY <2>3 DEF Ended, Gets
  <2>6. r \notin known
    BY <1>1, <1>5, NoKeysRow DEF Local, Key
  <2> QED
    BY <1>2, <1>5, <2>1, <2>4, <2>5, <2>6, StoringStep
<1> QED
  BY <1>4, <1>5

\* A query fails, or the COMMIT of the insertion is not answered.
LEMMA FaultSteps ==
    ASSUME EnqueueInv, NEW r \in Requests, QueryFails(r) \/ InsertAnswerLost(r)
    PROVE  Intake!Fail(r)
<1> DEFINE old == request[r]
           q == AnswerWith(old, "failed", None)
<1>1. /\ old \in Request /\ Local(r, old) /\ old.pc \notin Ended
      /\ old.pc \in {"suppression", "cachedId", "stored", "insert"}
  BY AtPc DEF QueryFails, InsertAnswerLost, Ended
<1>2. UNCHANGED known /\ r \notin table
  BY <1>1 DEF QueryFails, InsertAnswerLost, Local
<1>3. "failed" \in Kinds
  BY DEF Kinds
<1>4. q.input = old.input /\ q.pc = "answered" /\ q.kind = "failed"
  BY <1>1, <1>3, AnswerFields
<1>5. request' = [request EXCEPT ![r] = q]
  BY DEF QueryFails, InsertAnswerLost, Answer, AnswerWith
<1> HIDE DEF q
<1>6. Stepped(r, q) /\ q.kind \in Fails
  BY <1>1, <1>2, <1>4, <1>5 DEF Stepped, Fails
<1>7. CASE QueryFails(r)
  <2>1. UNCHANGED table
    BY <1>7 DEF QueryFails
  <2> QED
    BY <1>2, <1>4, <1>6, <2>1, FailingStep
<1>8. CASE InsertAnswerLost(r)
  <2>1. table' = table \cup {r} /\ (Key(r) = NoKey \/ RowsWithKey(Key(r)) = {})
    BY <1>8 DEF InsertAnswerLost
  <2>2. r \notin known
    BY <1>1, <2>1, NoKeysRow DEF Local, Key
  <2> QED
    BY <1>2, <1>4, <1>6, <2>1, <2>2, FailingStep
<1> QED
  BY <1>7, <1>8

LEMMA CacheKeySteps ==
    ASSUME EnqueueInv, NEW r \in Requests, CacheKey(r)
    PROVE  Intake!Give(r, r)
<1> DEFINE old == request[r]
           q == AnswerWith(old, "created", r)
<1>1. /\ old \in Request /\ Local(r, old) /\ old.pc = "cacheKey" /\ old.pc \notin Ended
  BY AtPc DEF CacheKey, Ended
<1>2. UNCHANGED <<table, known>> /\ r \in table
  BY <1>1 DEF CacheKey, Local
<1>3. "created" \in Kinds
  BY DEF Kinds
<1>4. q.input = old.input /\ q.pc = "answered" /\ q.kind = "created" /\ q.mail = r
  BY <1>1, <1>3, AnswerFields
<1>5. request' = [request EXCEPT ![r] = q]
  BY DEF CacheKey, Answer, AnswerWith
<1> HIDE DEF q
<1>6. Stepped(r, q)
  BY <1>1, <1>2, <1>4, <1>5 DEF Stepped
<1>7. q.kind \in Gets
  BY <1>4 DEF Gets
<1> QED
  BY <1>2, <1>4, <1>6, <1>7, GivingStep

LEMMA BeginSteps ==
    ASSUME EnqueueInv, NEW r \in Requests, Begin(r)
    PROVE  Intake!Arrive(r)
<1> DEFINE old == request[r]
<1>1. old \in Request /\ Local(r, old) /\ old.pc = "new"
  BY AtPc DEF Begin
<1>2. UNCHANGED table /\ r \notin table
  BY <1>1 DEF Begin, Local
<1>3. PICK host \in Hosts, input \in Inputs :
         /\ request' = [request EXCEPT ![r] =
                IF input.render = NoRender THEN Checked(Arrived(old, host, input))
                ELSE MoveTo(Arrived(old, host, input), "template")]
         /\ known' = IF input.key # NoKey /\ RowsWithKey(input.key) # {}
                     THEN known \cup {r} ELSE known
  BY DEF Begin, Arrived, MoveTo
<1> DEFINE q == IF input.render = NoRender THEN Checked(Arrived(old, host, input))
                ELSE MoveTo(Arrived(old, host, input), "template")
           k == input.key
<1>4. Arrived(old, host, input) \in Request /\ Arrived(old, host, input).input = input
  BY <1>1, ArrivedFields
<1>5. /\ q.input = input
      /\ \/ q.pc \in {"suppression", "template"}
         \/ q.pc = "answered" /\ q.kind = "invalid"
  <2>1. "template" \in Pcs
    BY DEF Pcs
  <2> QED
    BY <1>4, <2>1, CheckedFields, RecordUpdates DEF SameButPc
<1>6. request' = [request EXCEPT ![r] = q]
  BY <1>3
<1> HIDE DEF q
<1>7. /\ PhaseOf(old) = "new" /\ AnswerOf(old) = None
      /\ PhaseOf(q) \in {"open", "refused"} /\ AnswerOf(q) = None /\ KeyOf(q) = k
  <2>1. \/ q.pc \notin Ended
        \/ q.pc = "answered" /\ q.kind \notin Gets \cup Fails \cup {"lost"}
    BY <1>5 DEF Ended, Gets, Fails
  <2>2. KeyOf(q) = k
    BY <1>5 DEF KeyOf
  <2> QED
    BY <1>1, <2>1, <2>2, PhasesOf
<1>8. /\ Phases' = [Phases EXCEPT ![r] = PhaseOf(q)] /\ Phases[r] = "new"
      /\ KeysOf' = [KeysOf EXCEPT ![r] = k] /\ UNCHANGED Answers
  <2>1. /\ Phases' = [Phases EXCEPT ![r] = PhaseOf(q)] /\ Phases[r] = PhaseOf(old)
        /\ KeysOf' = [KeysOf EXCEPT ![r] = KeyOf(q)]
        /\ Answers' = [Answers EXCEPT ![r] = AnswerOf(q)] /\ Answers[r] = AnswerOf(old)
    BY <1>6, ViewChanges
  <2>2. [Answers EXCEPT ![r] = Answers[r]] = Answers
    BY DEF Answers
  <2>3. UNCHANGED Answers
    BY <1>7, <2>1, <2>2
  <2> QED
    BY <1>7, <2>1, <2>3
<1>9. known' = IF {n \in table : k # NoKey /\ KeysOf[n] = k} # {} THEN known \cup {r} ELSE known
  <2>1. RowsWithKey(k) = {n \in table : KeysOf[n] = k}
    BY StoredKeys
  <2> QED
    BY <1>3, <2>1
<1>10. k \in Keys \cup {NoKey}
  BY InputFields
<1> HIDE DEF k
<1>11. known' = IF Intake!WithKey(k) # {} THEN known \cup {r} ELSE known
  BY <1>9, IntakeSees DEF Intake!WithKey
<1>12. \E p \in {"open", "refused"} : Phases' = [Phases EXCEPT ![r] = p]
  BY <1>7, <1>8
<1>13. Phases[r] = "new" /\ UNCHANGED <<table, Answers>>
  BY <1>2, <1>8
<1> QED
  BY <1>8, <1>10, <1>11, <1>12, <1>13, IntakeSees, IntakeSeesNext DEF Intake!Arrive

LEMMA RestartSteps ==
    ASSUME EnqueueInv, NEW h \in Hosts, Restart(h)
    PROVE  (\E S \in SUBSET Requests : Intake!Lose(S)) \/ UNCHANGED Intake!intakeVars
<1> DEFINE S == {s \in InFlight : request[s].host = h}
<1>1. UNCHANGED <<table, known>>
  BY DEF Restart
<1>2. S \subseteq Requests /\ \A s \in S : request[s].pc \notin Ended
  BY DEF InFlight, Ended
<1>3. request' = [s \in Requests |->
         IF s \in S THEN AnswerWith(request[s], "lost", None) ELSE request[s]]
  BY DEF Restart, AnswerWith
<1> HIDE DEF S
<1>4. \A s \in S : /\ request[s] \in Request
                   /\ AnswerWith(request[s], "lost", None).pc = "answered"
                   /\ AnswerWith(request[s], "lost", None).kind = "lost"
                   /\ AnswerWith(request[s], "lost", None).input = request[s].input
  <2>1. "lost" \in Kinds
    BY DEF Kinds
  <2>2. \A s \in S : request[s] \in Request
    BY <1>2 DEF EnqueueInv, Typed
  <2> QED
    BY <2>1, <2>2, AnswerFields
<1>5. \A s \in S : /\ PhaseOf(request[s]) = "open" /\ PhaseOf(request'[s]) = "lost"
                   /\ AnswerOf(request[s]) = None /\ AnswerOf(request'[s]) = None
                   /\ KeyOf(request'[s]) = KeyOf(request[s])
  <2>1. \A s \in S : /\ request'[s].pc = "answered" /\ request'[s].kind = "lost"
                     /\ request'[s].input = request[s].input
    BY <1>2, <1>3, <1>4
  <2>2. \A s \in S : KeyOf(request'[s]) = KeyOf(request[s])
    BY <1>2, <2>1 DEF KeyOf, Ended
  <2> QED
    BY <1>2, <2>1, <2>2, PhasesOf
<1>6. \A s \in Requests \ S : request'[s] = request[s]
  BY <1>3
<1>7. /\ \A s \in S : Phases[s] = "open"
      /\ Phases' = [s \in Requests |-> IF s \in S THEN "lost" ELSE Phases[s]]
  BY <1>2, <1>5, <1>6 DEF Phases
<1>8. UNCHANGED KeysOf
  BY <1>5, <1>6 DEF KeysOf
<1>9. UNCHANGED Answers
  BY <1>5, <1>6 DEF Answers
<1>10. CASE S # {}
  <2>1. Intake!Lose(S)
    BY <1>1, <1>7, <1>8, <1>9, <1>10, IntakeSees, IntakeSeesNext DEF Intake!Lose
  <2> QED
    BY <1>2, <2>1
<1>11. CASE S = {}
  <2>1. UNCHANGED Phases
    BY <1>7, <1>11 DEF Phases
  <2> QED
    BY <1>1, <1>8, <1>9, <2>1, IntakeSees, IntakeSeesNext DEF Intake!intakeVars
<1> QED
  BY <1>10, <1>11

LEMMA QuietSteps ==
    ASSUME UNCHANGED <<request, table, known>>
    PROVE  UNCHANGED Intake!intakeVars
<1>1. UNCHANGED <<Phases, KeysOf, Answers>>
  BY DEF Phases, KeysOf, Answers
<1> QED
  BY <1>1, IntakeSees, IntakeSeesNext DEF Intake!intakeVars

\* enqueue does what an intake may do: of its checks, caches, races and restarts
\* a client sees a mail stored once for a key, answers with stored mails, and
\* refusals (4xx) after which nothing is stored.  An error (500) says nothing: a
\* save rejects also when its COMMIT took effect (createAuditLog), and only a key
\* lets the client ask again without a second mail.
THEOREM IntakeImplemented == Spec => ImplementsIntake
<1>1. Init => Intake!IntakeInit
  <2> SUFFICES ASSUME Init PROVE Intake!IntakeInit
    OBVIOUS
  <2>1. table = {} /\ known = {} /\ \A r \in Requests : request[r].pc = "new"
    BY DEF Init, EnqueueInit
  <2>2. /\ Phases = [r \in Requests |-> "new"] /\ KeysOf = [r \in Requests |-> NoKey]
        /\ Answers = [r \in Requests |-> None]
    BY <2>1, PhasesOf DEF Phases, KeysOf, KeyOf, Answers
  <2> QED
    BY <2>1, <2>2, IntakeSees DEF Intake!IntakeInit
<1>2. EnqueueInv /\ [Next]_vars => [Intake!IntakeNext]_(Intake!intakeVars)
  <2> SUFFICES ASSUME EnqueueInv, [Next]_vars
               PROVE  Intake!IntakeNext \/ UNCHANGED Intake!intakeVars
    OBVIOUS
  <2>1. ASSUME NEW r \in Requests, RequestStep(r)
        PROVE  Intake!IntakeNext \/ UNCHANGED Intake!intakeVars
    <3>1. \/ Intake!Arrive(r) \/ Intake!Store(r) \/ Intake!Refuse(r) \/ Intake!Fail(r)
          \/ (\E m \in Requests : Intake!Give(r, m)) \/ UNCHANGED Intake!intakeVars
      BY <2>1, BeginSteps, HtmlSteps, CheckSteps, LookUpSteps, InsertSteps, CacheKeySteps,
         FaultSteps DEF RequestStep
    <3> QED
      BY <3>1 DEF Intake!IntakeNext
  <2>2. ASSUME NEW h \in Hosts, Restart(h)
        PROVE  Intake!IntakeNext \/ UNCHANGED Intake!intakeVars
    BY <2>2, RestartSteps DEF Intake!IntakeNext
  <2>3. CASE Tick \/ ListStep \/ UNCHANGED vars
    <3>1. UNCHANGED <<request, table, known>>
      BY <2>3 DEF Tick, ListStep, vars
    <3> QED
      BY <3>1, QuietSteps
  <2> QED
    BY <2>1, <2>2, <2>3 DEF Next
<1> QED
  BY <1>1, <1>2, EnqueueInvariant, PTL DEF Spec, ImplementsIntake, Intake!IntakeSpec
=============================================================================
