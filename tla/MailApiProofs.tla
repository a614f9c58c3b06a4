---------------------------- MODULE MailApiProofs ----------------------------
(***************************************************************************)
(* Proofs about MailApi, for any host environment, any number of tabs with *)
(* any requests, any table of deliverable mails and any length of a page.  *)
(***************************************************************************)
EXTENDS MailApi, HostStartProofs, FiniteSetTheorems, TLAPS

\* The ways a step changes a tab.
AskTab(v, q, cookie, latest, start) ==
    [v EXCEPT !.pc = "sent", !.request = q, !.cookie = cookie, !.header = v.token,
              !.latest = latest, !.scan.start = start]
ReplyTab(v, status, answer) ==
    [v EXCEPT !.pc = "answered", !.status = status, !.answer = answer]
RowsTab(v, rows, pc, status, answer) ==
    [v EXCEPT !.rows = rows, !.pc = pc, !.status = status, !.answer = answer]
ReceiveTab(v, token, page, seen) ==
    [v EXCEPT !.pc = "idle", !.request = NoRequest, !.cookie = NoToken, !.header = NoToken,
              !.latest = FALSE, !.status = 0, !.answer = 0, !.rows = <<>>,
              !.token = token, !.scan.page = page, !.scan.seen = v.scan.seen \cup seen]

-----------------------------------------------------------------------------
(* The invariant.                                                          *)

\* Requests are served and answers arrive; the configuration no longer changes.
Open == stage \in {"listening", "stopped"}

\* The browser drops the cookie of the token.
Dropped == config.production /\ ~https

\* The mails created before m, in the order of a scan.
Before(m, direction) ==
    {n \in DOMAIN mails : IF direction = "ASC" THEN mails[n].at < mails[m].at
                                               ELSE mails[n].at > mails[m].at}
Unique(m) == \A n \in DOMAIN mails : n # m => mails[n].at # mails[m].at

\* The rows of the page have been read and are on their way to the tab.
Fetched(v) ==
    \/ v.pc = "counting"
    \/ v.pc = "answered" /\ v.request.route = "list" /\ v.status = 200
RowsIn(v) == {v.rows[i] : i \in DOMAIN v.rows}

\* Mail m has been seen, or lies behind the pages read so far and is not lost:
\* there is another page.
Reached(v, q, m) ==
    LET p == v.scan.page
        size == LimitOf(q.body)
        n == Cardinality(Before(m, q.body.direction))
    IN  IF Fetched(v)
        THEN \/ m \in v.scan.seen \cup RowsIn(v)
             \/ n >= p * size /\ (v.pc = "answered" => p < v.answer)
        ELSE m \in v.scan.seen \/ (p > 0 /\ n >= (p - 1) * size)

ScanLocal(t, v) ==
    /\ v.scan.start # {} => \E q \in Asks[scenario][t] : q.route = "list"
    /\ \A q \in Asks[scenario][t] : q.route = "list" /\ q.body.filter = "any" =>
          \A m \in v.scan.start : Unique(m) => Reached(v, q, m)

CsrfLocal(v) ==
    /\ v.pc # "idle" /\ v.latest => v.cookie = v.header \/ Dropped
    /\ v.status = 403 => v.header = NoToken \/ ~v.latest \/ Dropped

\* What is true of tab t while its record is v.
TabLocal(t, v) ==
    /\ v \in Tab
    /\ v.pc = "idle" => v.request = NoRequest /\ v.status = 0
    /\ v.pc # "idle" => v.request \in Asks[scenario][t] /\ Open
    /\ v.pc \in {"sent", "counting"} => v.status = 0
    /\ v.pc = "counting" => v.request.route = "list"
    /\ v.pc # "idle" /\ v.request.route = "list" => v.scan.page > 0
    /\ CsrfLocal(v) /\ ScanLocal(t, v)

\* A token on its way has been issued.
TokenLocal(v) ==
    v.pc = "answered" /\ v.request.route = "csrfToken" /\ v.status = 200
        => v.answer \in 1..issued

SharedInv ==
    /\ scenario \in Scenarios /\ https \in BOOLEAN
    /\ issued \in Nat /\ jar \in 0..issued
    /\ newest \in Tabs \cup {NoTab}
    /\ newest # NoTab => Open /\ (tabs[newest].token = jar \/ Dropped)
    /\ mails \in Seq(Row) /\ \A m \in DOMAIN mails : Deliverable(mails[m])

ApiInv ==
    /\ HostInv /\ SharedInv
    /\ tabs \in [Tabs -> Tab]
    /\ \A t \in Tabs : TabLocal(t, tabs[t]) /\ TokenLocal(tabs[t])

-----------------------------------------------------------------------------
(* Records.                                                                *)

LEMMA AskFields ==
    ASSUME NEW v \in Tab, NEW q \in Asked, NEW cookie \in 0..issued,
           NEW latest \in BOOLEAN, NEW start \in SUBSET DOMAIN mails,
           NEW new, new = AskTab(v, q, cookie, latest, start)
    PROVE  /\ new \in Tab
           /\ new.pc = "sent" /\ new.request = q /\ new.cookie = cookie
           /\ new.header = v.token /\ new.token = v.token /\ new.latest = latest
           /\ new.status = v.status /\ new.scan.page = v.scan.page
           /\ new.scan.start = start /\ new.scan.seen = v.scan.seen
  BY DEF Tab, AskTab

LEMMA ReplyFields ==
    ASSUME NEW v \in Tab, NEW status \in Statuses, NEW answer \in Nat,
           NEW new, new = ReplyTab(v, status, answer)
    PROVE  /\ new \in Tab
           /\ new.pc = "answered" /\ new.status = status /\ new.answer = answer
           /\ new.request = v.request /\ new.cookie = v.cookie /\ new.header = v.header
           /\ new.token = v.token /\ new.latest = v.latest
           /\ new.rows = v.rows /\ new.scan = v.scan
  BY DEF Tab, ReplyTab

LEMMA RowsFields ==
    ASSUME NEW v \in Tab, NEW rows \in Seq(DOMAIN mails), NEW pc \in {"counting", "answered"},
           NEW status \in Statuses, NEW answer \in Nat,
           NEW new, new = RowsTab(v, rows, pc, status, answer)
    PROVE  /\ new \in Tab
           /\ new.pc = pc /\ new.status = status /\ new.answer = answer /\ new.rows = rows
           /\ new.request = v.request /\ new.cookie = v.cookie /\ new.header = v.header
           /\ new.token = v.token /\ new.latest = v.latest /\ new.scan = v.scan
  BY DEF Tab, RowsTab

LEMMA ReceiveFields ==
    ASSUME NEW v \in Tab, issued \in Nat, NEW token \in 0..issued, NEW page \in Nat,
           NEW seen \in SUBSET DOMAIN mails,
           NEW new, new = ReceiveTab(v, token, page, seen)
    PROVE  /\ new \in Tab
           /\ new.pc = "idle" /\ new.request = NoRequest /\ new.status = 0
           /\ new.token = token /\ new.scan.page = page
           /\ new.scan.start = v.scan.start /\ new.scan.seen = v.scan.seen \cup seen
<1>1. 0 \in Statuses /\ NoToken \in 0..issued /\ <<>> \in Seq(DOMAIN mails)
  BY DEF Statuses, NoToken
<1> QED
  BY <1>1 DEF Tab, ReceiveTab

-----------------------------------------------------------------------------
(* What a step leaves as it is.                                            *)

\* The table keeps its rows and their moments of creation.
Grown ==
    /\ mails' \in Seq(Row) /\ \A m \in DOMAIN mails' : Deliverable(mails'[m])
    /\ DOMAIN mails \subseteq DOMAIN mails'
    /\ \A m \in DOMAIN mails : mails'[m].at = mails[m].at

\* Steps neither close a host that has opened nor change its configuration.
Settled ==
    /\ UNCHANGED <<scenario, https>>
    /\ Open => Open' /\ UNCHANGED config

LEMMA SeqOfFunction ==
    ASSUME NEW S, NEW n \in Nat, NEW f \in [1..n -> S]
    PROVE  f \in Seq(S)
  OBVIOUS

LEMMA SeqOfMore ==
    ASSUME NEW S, NEW T, S \subseteq T, NEW s \in Seq(S)
    PROVE  s \in Seq(T)
<1>1. Len(s) \in Nat /\ s \in [1..Len(s) -> S]
  OBVIOUS
<1>2. s \in [1..Len(s) -> T]
  BY <1>1
<1> QED
  BY <1>1, <1>2

LEMMA TabOfMore ==
    ASSUME Grown, UNCHANGED scenario, issued \in Nat, issued' \in Nat, issued <= issued',
           NEW v \in Tab
    PROVE  v \in Tab'
<1>1. 0..issued \subseteq 0..issued' /\ Asked' = Asked
  BY DEF Asked
<1>2. v.rows \in Seq(DOMAIN mails')
  BY SeqOfMore DEF Tab, Grown
<1>3. SUBSET DOMAIN mails \subseteq SUBSET DOMAIN mails'
  BY DEF Grown
<1> QED
  BY <1>1, <1>2, <1>3 DEF Tab

LEMMA MomentTyped ==
    ASSUME mails \in Seq(Row), NEW m \in DOMAIN mails
    PROVE  mails[m].at \in Nat
<1>1. mails[m] \in Row
  OBVIOUS
<1> QED
  BY <1>1 DEF Row

LEMMA FiniteDomain ==
    ASSUME NEW table \in Seq(Row)
    PROVE  /\ IsFiniteSet(DOMAIN table) /\ Cardinality(DOMAIN table) = Len(table)
           /\ DOMAIN table = 1..Len(table) /\ Len(table) \in Nat
<1>1. DOMAIN table = 1..Len(table) /\ Len(table) \in Nat
  OBVIOUS
<1>2. IsFiniteSet(1..Len(table)) /\ Cardinality(1..Len(table)) = Len(table)
  BY <1>1, FS_Interval
<1> QED
  BY <1>1, <1>2

LEMMA FiniteTable ==
    ASSUME mails \in Seq(Row)
    PROVE  /\ IsFiniteSet(DOMAIN mails) /\ Cardinality(DOMAIN mails) = Len(mails)
           /\ DOMAIN mails = 1..Len(mails) /\ Len(mails) \in Nat
           /\ \A m, direction :
                 /\ IsFiniteSet(Before(m, direction))
                 /\ Cardinality(Before(m, direction)) \in Nat
<1>1. /\ IsFiniteSet(DOMAIN mails) /\ Cardinality(DOMAIN mails) = Len(mails)
      /\ DOMAIN mails = 1..Len(mails) /\ Len(mails) \in Nat
  BY FiniteDomain
<1>2. ASSUME NEW m, NEW direction
      PROVE  /\ IsFiniteSet(Before(m, direction))
             /\ Cardinality(Before(m, direction)) \in Nat
  <2>1. Before(m, direction) \in SUBSET DOMAIN mails
    BY DEF Before
  <2>2. IsFiniteSet(Before(m, direction))
    BY <1>1, <2>1, FS_Subset
  <2> QED
    BY <2>2, FS_CardinalityType
<1> QED
  BY <1>1, <1>2

\* Later mails take away no mail before m and no rival of it.
LEMMA BeforeGrows ==
    ASSUME Grown, mails \in Seq(Row), NEW m \in DOMAIN mails, NEW direction
    PROVE  /\ Cardinality(Before(m, direction)) <= Cardinality(Before(m, direction)')
           /\ Cardinality(Before(m, direction)') \in Nat
           /\ Unique(m)' => Unique(m)
<1>1. Before(m, direction) \in SUBSET (Before(m, direction)')
  BY DEF Before, Grown
<1>2. IsFiniteSet(DOMAIN mails') /\ Before(m, direction)' \in SUBSET DOMAIN mails'
  BY FiniteDomain DEF Grown, Before
<1>3. IsFiniteSet(Before(m, direction)')
  BY <1>2, FS_Subset
<1>4. Cardinality(Before(m, direction)) <= Cardinality(Before(m, direction)')
  BY <1>1, <1>3, FS_Subset
<1>5. Unique(m)' => Unique(m)
  BY DEF Unique, Grown
<1>6. Cardinality(Before(m, direction)') \in Nat
  BY <1>3, FS_CardinalityType
<1> QED
  BY <1>4, <1>5, <1>6

LEMMA ListAsked ==
    ASSUME scenario \in Scenarios, NEW t \in Tabs, NEW q \in Asks[scenario][t], q.route = "list"
    PROVE  /\ q.body \in ListBody /\ LimitOf(q.body) \in Nat /\ LimitOf(q.body) >= 1
           /\ \A p \in Asks[scenario][t] : p.route = "list" => p = q
<1>1. q.body \in ListBody
  BY AsksAssumption
<1> QED
  BY <1>1, ScansAssumption DEF ListBody, LimitOf, Larger, Smaller

\* A tab that takes no step keeps what is true of it.
LEMMA TabKept ==
    ASSUME SharedInv, Grown, Settled, issued' \in Nat, issued <= issued',
           NEW t \in Tabs, NEW v, TabLocal(t, v)
    PROVE  TabLocal(t, v)'
<1>1. v \in Tab /\ v \in Tab'
  BY TabOfMore DEF TabLocal, SharedInv, Settled
<1>2. v.pc # "idle" => Open /\ Open' /\ Dropped' = Dropped
  BY DEF TabLocal, Settled, Dropped
<1>3. CsrfLocal(v)'
  BY <1>2 DEF TabLocal, CsrfLocal
<1>4. ASSUME NEW q \in Asks[scenario][t], q.route = "list", q.body.filter = "any",
             NEW m \in v.scan.start, Unique(m)'
      PROVE  Reached(v, q, m)'
  <2> DEFINE n == Cardinality(Before(m, q.body.direction))
             n2 == Cardinality(Before(m, q.body.direction)')
  <2>1. m \in DOMAIN mails
    BY <1>1 DEF Tab
  <2>2. n <= n2 /\ n2 \in Nat /\ Unique(m)
    BY <1>4, <2>1, BeforeGrows DEF SharedInv
  <2>3. n \in Nat
    BY FiniteTable DEF SharedInv
  <2>4. Reached(v, q, m)
    BY <1>4, <2>2 DEF TabLocal, ScanLocal
  <2>5. v.scan.page \in Nat /\ LimitOf(q.body) \in Nat
    BY <1>1, <1>4, ListAsked DEF Tab, SharedInv
  <2>6. v.scan.page * LimitOf(q.body) \in Int /\ (v.scan.page - 1) * LimitOf(q.body) \in Int
    BY <2>5
  <2> HIDE DEF n, n2
  <2>7. \A k \in Int : n >= k => n2 >= k
    BY <2>2, <2>3
  <2> QED
    BY <2>4, <2>6, <2>7 DEF Reached, n, n2, Fetched, RowsIn
<1>5. ScanLocal(t, v)'
  BY <1>4 DEF TabLocal, ScanLocal, Settled
<1> QED
  BY <1>1, <1>2, <1>3, <1>5 DEF TabLocal, Settled

LEMMA TabsKept ==
    ASSUME ApiInv, Grown, Settled, issued' \in Nat, issued <= issued',
           NEW t \in Tabs, tabs'[t] = tabs[t]
    PROVE  TabLocal(t, tabs[t])' /\ TokenLocal(tabs[t])'
<1>1. PICK v : v = tabs[t]
  OBVIOUS
<1>2. TabLocal(t, v) /\ TokenLocal(v) /\ SharedInv
  BY <1>1 DEF ApiInv
<1>3. TabLocal(t, v)'
  BY <1>2, TabKept
<1>4. TokenLocal(v)'
  BY <1>2 DEF TokenLocal, SharedInv
<1> QED
  BY <1>1, <1>3, <1>4

\* A step of tab t that makes its record w.
LEMMA StepKept ==
    ASSUME ApiInv, Grown, Settled, issued' \in Nat, issued <= issued',
           HostInv', SharedInv',
           NEW t \in Tabs, NEW w, tabs' = [tabs EXCEPT ![t] = w],
           TabLocal(t, w), TokenLocal(w)'
    PROVE  ApiInv'
<1>1. tabs \in [Tabs -> Tab] /\ SharedInv
  BY DEF ApiInv
<1>2. ASSUME NEW u \in Tabs
      PROVE  TabLocal(u, tabs[u])' /\ TokenLocal(tabs[u])'
  <2>1. CASE u = t
    <3>1. tabs'[u] = w
      BY <1>1, <2>1
    <3>2. TabLocal(t, w)'
      BY <1>1, TabKept
    <3> QED
      BY <2>1, <3>1, <3>2
  <2>2. CASE u # t
    <3>1. tabs'[u] = tabs[u]
      BY <1>1, <2>2
    <3> QED
      BY <3>1, TabsKept
  <2> QED
    BY <2>1, <2>2
<1>3. tabs' \in [Tabs -> Tab']
  <2>1. \A u \in Tabs : tabs'[u] \in Tab'
    BY <1>2 DEF TabLocal
  <2>2. tabs' = [u \in Tabs |-> tabs'[u]]
    BY <1>1
  <2> QED
    BY <2>1, <2>2
<1> QED
  BY <1>2, <1>3 DEF ApiInv

\* Such a step that hands out no token and leaves the browser's cookie.
LEMMA SharedKept ==
    ASSUME ApiInv, Grown, Settled, issued' \in Nat, issued <= issued',
           UNCHANGED <<jar, newest>>,
           NEW t \in Tabs, NEW w, tabs' = [tabs EXCEPT ![t] = w], w.token = tabs[t].token
    PROVE  SharedInv'
<1>1. tabs \in [Tabs -> Tab] /\ SharedInv
  BY DEF ApiInv
<1>2. \A u \in Tabs : tabs'[u].token = tabs[u].token
  BY <1>1
<1>3. newest # NoTab => Open /\ Open' /\ Dropped' = Dropped
  BY <1>1 DEF SharedInv, Settled, Dropped
<1> QED
  BY <1>1, <1>2, <1>3 DEF SharedInv, Grown, Settled

-----------------------------------------------------------------------------
(* The two queries of the list.                                            *)

LEMMA TotalPagesTyped ==
    ASSUME NEW query, query.limit \in Int, NEW total \in Nat
    PROVE  /\ LimitOf(query) \in Nat /\ LimitOf(query) >= 1
           /\ TotalPages(total, query) \in Nat
<1>1. LimitOf(query) \in Nat /\ LimitOf(query) >= 1
  BY DEF LimitOf, Larger, Smaller
<1>2. Ceiling(total, LimitOf(query)) \in Int
  BY <1>1 DEF Ceiling
<1> QED
  BY <1>1, <1>2 DEF TotalPages, Larger

\* More than p pages full make more than p pages.
LEMMA CeilingAbove ==
    ASSUME NEW p \in Nat, NEW size \in Nat, size >= 1, NEW total \in Nat, total > p * size
    PROVE  Ceiling(total, size) > p /\ Ceiling(total, size) \in Int
<1> DEFINE d == (total + size - 1) \div size
<1>1. d \in Int /\ total + size - 1 < (d + 1) * size
  OBVIOUS
<1> HIDE DEF d
<1>2. CASE d <= p
  <2>1. p - d \in Nat /\ (p - d) * size \in Nat
    BY <1>1, <1>2
  <2>2. (p - d) * size = p * size - d * size /\ (d + 1) * size = d * size + size
    BY <1>1
  <2>3. p * size \in Int /\ d * size \in Int
    BY <1>1
  <2>4. FALSE
    BY <1>1, <2>1, <2>2, <2>3
  <2> QED
    BY <2>4
<1> QED
  BY <1>1, <1>2 DEF Ceiling, d

\* The total tells of a mail that p full pages come before.
LEMMA TotalAhead ==
    ASSUME mails \in Seq(Row), NEW query, query.filter = "any", query.limit \in Int,
           NEW direction, NEW m \in DOMAIN mails, NEW p \in Nat,
           Cardinality(Before(m, direction)) >= p * LimitOf(query)
    PROVE  p < TotalPages(Cardinality(Matching(mails, query)), query)
<1> DEFINE B == Before(m, direction)
           total == Cardinality(Matching(mails, query))
           size == LimitOf(query)
<1>1. Matching(mails, query) = DOMAIN mails
  BY DEF Matching
<1>2. B \subseteq DOMAIN mails /\ m \notin B
  <2>1. mails[m].at \in Nat
    BY MomentTyped
  <2> QED
    BY <2>1 DEF Before
<1>3. IsFiniteSet(DOMAIN mails) /\ IsFiniteSet(B) /\ total \in Nat /\ Cardinality(B) \in Nat
  BY <1>1, FiniteTable
<1>4. Cardinality(B \cup {m}) = Cardinality(B) + 1
  BY <1>2, <1>3, FS_AddElement
<1>5. Cardinality(B \cup {m}) <= total
  BY <1>1, <1>2, <1>3, FS_Subset
<1>6. size \in Nat /\ size >= 1 /\ p * size \in Int
  BY TotalPagesTyped
<1> HIDE DEF B, total, size
<1>7. total > p * size
  BY <1>3, <1>4, <1>5, <1>6 DEF B, size
<1>8. Ceiling(total, size) > p /\ Ceiling(total, size) \in Int
  BY <1>3, <1>6, <1>7, CeilingAbove
<1> QED
  BY <1>8 DEF TotalPages, Larger, total, size

\* In any order of creation a mail that shares its moment with no other comes
\* after as many mails as were created before it.
LEMMA PlaceOf ==
    ASSUME mails \in Seq(Row), NEW query, query.filter = "any",
           query.direction \in {"ASC", "DESC"},
           NEW order \in Orders(mails, query), NEW m \in DOMAIN mails, Unique(m)
    PROVE  /\ order \in Seq(DOMAIN mails) /\ Len(order) = Len(mails)
           /\ \E k \in 1..Len(order) :
                 /\ order[k] = m
                 /\ Cardinality(Before(m, query.direction)) = k - 1
<1> DEFINE N == Len(mails)
           B == Before(m, query.direction)
           found == Matching(mails, query)
<1>1. found = DOMAIN mails
  BY DEF Matching
<1>2. N \in Nat /\ DOMAIN mails = 1..N /\ Cardinality(found) = N /\ IsFiniteSet(found)
  BY <1>1, FiniteTable
<1>3. /\ order \in [1..N -> DOMAIN mails]
      /\ \A i, j \in 1..N : i < j =>
            /\ order[i] # order[j]
            /\ IF query.direction = "ASC" THEN mails[order[i]].at <= mails[order[j]].at
                                          ELSE mails[order[i]].at >= mails[order[j]].at
  BY <1>1, <1>2 DEF Orders
<1>4. order \in Seq(DOMAIN mails) /\ Len(order) = N
  BY <1>2, <1>3
<1>5. order \in Injection(1..N, DOMAIN mails)
  BY <1>2, <1>3 DEF Injection, IsInjective
<1>6. order \in Surjection(1..N, DOMAIN mails)
  <2>1. IsFiniteSet(1..N) /\ Cardinality(1..N) = N
    BY <1>2, FiniteTable
  <2> QED
    BY <1>2, <1>5, <2>1, FS_Injection
<1>7. PICK k \in 1..N : order[k] = m
  BY <1>6 DEF Surjection
<1>8. \A n \in DOMAIN mails : mails[n].at \in Nat
  BY MomentTyped
<1>9. ASSUME NEW j \in 1..N
      PROVE  order[j] \in B <=> j < k
  <2>1. order[j] \in DOMAIN mails /\ mails[order[j]].at \in Nat /\ mails[m].at \in Nat
    BY <1>3, <1>8
  <2>2. j # k => order[j] # m
    BY <1>2, <1>3, <1>7
  <2>3. j # k => mails[order[j]].at # mails[m].at
    BY <2>1, <2>2 DEF Unique
  <2>4. CASE query.direction = "ASC"
    <3>1. (j < k => mails[order[j]].at <= mails[m].at) /\ (k < j => mails[m].at <= mails[order[j]].at)
      BY <1>3, <1>7, <2>4
    <3>2. order[j] \in B <=> mails[order[j]].at < mails[m].at
      BY <2>1, <2>4 DEF Before
    <3> QED
      BY <1>2, <1>7, <2>1, <2>3, <3>1, <3>2
  <2>5. CASE query.direction = "DESC"
    <3>1. (j < k => mails[order[j]].at >= mails[m].at) /\ (k < j => mails[m].at >= mails[order[j]].at)
      BY <1>3, <1>7, <2>5
    <3>2. order[j] \in B <=> mails[order[j]].at > mails[m].at
      BY <2>1, <2>5 DEF Before
    <3> QED
      BY <1>2, <1>7, <2>1, <2>3, <3>1, <3>2
  <2> QED
    BY <2>4, <2>5
<1>10. Cardinality(B) = k - 1
  <2> DEFINE f == [j \in 1..(k - 1) |-> order[j]]
  <2>1. \A j \in 1..(k - 1) : j \in 1..N /\ j < k
    BY <1>2, <1>7
  <2>2. f \in [1..(k - 1) -> B]
    BY <1>9, <2>1
  <2>3. f \in Injection(1..(k - 1), B)
    BY <1>3, <2>1, <2>2 DEF Injection, IsInjective
  <2>4. ASSUME NEW n \in B PROVE \E j \in 1..(k - 1) : f[j] = n
    <3>1. PICK j \in 1..N : order[j] = n
      BY <1>6, <2>4 DEF Surjection, Before
    <3>2. j < k
      BY <1>9, <2>4, <3>1
    <3> QED
      BY <1>2, <1>7, <3>1, <3>2
  <2>5. f \in Surjection(1..(k - 1), B)
    BY <2>2, <2>4 DEF Surjection
  <2>6. IsFiniteSet(1..(k - 1)) /\ Cardinality(1..(k - 1)) = k - 1
    <3>1. k - 1 \in Int /\ k \in Int /\ k >= 1
      BY <1>2, <1>7
    <3>2. IsFiniteSet(1..(k - 1)) /\ Cardinality(1..(k - 1)) = IF 1 > k - 1 THEN 0 ELSE k - 1 - 1 + 1
      BY <3>1, FS_Interval
    <3> QED
      BY <3>1, <3>2
  <2> HIDE DEF f
  <2> QED
    BY <2>3, <2>5, <2>6, FS_Surjection
<1> QED
  BY <1>2, <1>4, <1>7, <1>10

LEMMA SubSeqIs ==
    ASSUME NEW S, NEW s \in Seq(S), NEW from \in Nat, NEW to \in Nat,
           from <= to, to <= Len(s)
    PROVE  SubSeq(s, from + 1, to) = [i \in 1..(to - from) |-> s[i + from]]
  OBVIOUS

\* A page that begins after p - 1 full pages: the next mail that no other shares
\* its moment with is on it, or the page is full and one more page of mails
\* comes before that mail.
LEMMA PageReaches ==
    ASSUME mails \in Seq(Row), NEW query, query.filter = "any", query.limit \in Int,
           query.direction \in {"ASC", "DESC"}, query.page \in Nat, query.page > 0,
           NEW order \in Orders(mails, query), NEW m \in DOMAIN mails, Unique(m),
           Cardinality(Before(m, query.direction)) >= (query.page - 1) * LimitOf(query),
           NEW rows, rows = Rows(order, query)
    PROVE  \/ m \in {rows[i] : i \in DOMAIN rows}
           \/ /\ Cardinality(Before(m, query.direction)) >= query.page * LimitOf(query)
              /\ NeedsCount(rows, query)
<1> DEFINE size == LimitOf(query)
           skip == Skip(query)
           n == Cardinality(Before(m, query.direction))
<1>1. size \in Nat /\ size >= 1
  BY TotalPagesTyped
<1>2. skip = (query.page - 1) * size /\ query.page * size = skip + size /\ skip \in Nat
  <2>1. PageOf(query) = query.page
    BY DEF PageOf, Larger
  <2>2. query.page - 1 \in Nat
    OBVIOUS
  <2>3. (query.page - 1) * size \in Nat
    BY <1>1, <2>2
  <2>4. query.page * size = (query.page - 1) * size + size
    BY <1>1
  <2> QED
    BY <2>1, <2>3, <2>4 DEF Skip
<1>3. order \in Seq(DOMAIN mails) /\ Len(order) \in Nat
  BY PlaceOf
<1>4. PICK k \in 1..Len(order) : order[k] = m /\ n = k - 1
  BY PlaceOf
<1> DEFINE last == Smaller(skip + size, Len(order))
<1>5. rows = SubSeq(order, skip + 1, last) /\ k > skip
  BY <1>1, <1>2, <1>3, <1>4 DEF Rows
<1>6. last = IF skip + size < Len(order) THEN skip + size ELSE Len(order)
  BY <1>1, <1>2, <1>3 DEF Smaller
<1> HIDE DEF skip, size, n, last
<1>7. skip \in Nat /\ k \in Nat /\ k <= Len(order) /\ n = k - 1
  BY <1>2, <1>3, <1>4
<1>8. CASE k <= skip + size
  <2>1. last \in Nat /\ k <= last /\ last <= Len(order) /\ skip <= last
    BY <1>1, <1>3, <1>5, <1>6, <1>7, <1>8
  <2>2. SubSeq(order, skip + 1, last) = [i \in 1..(last - skip) |-> order[i + skip]]
    BY <1>3, <1>7, <2>1, SubSeqIs
  <2>3. k - skip \in 1..(last - skip) /\ (k - skip) + skip = k
    BY <1>5, <1>7, <2>1
  <2>4. k - skip \in DOMAIN rows /\ rows[k - skip] = m
    BY <1>4, <1>5, <2>2, <2>3
  <2> QED
    BY <2>4
<1>9. CASE k > skip + size
  <2>1. last \in Nat /\ last = skip + size /\ last <= Len(order) /\ skip <= last
    BY <1>1, <1>3, <1>6, <1>7, <1>9
  <2>2. SubSeq(order, skip + 1, last) = [i \in 1..(last - skip) |-> order[i + skip]]
    BY <1>3, <1>7, <2>1, SubSeqIs
  <2>3. Len(rows) = last - skip /\ last - skip = size
    BY <1>1, <1>5, <1>7, <2>1, <2>2
  <2>4. NeedsCount(rows, query)
    BY <2>3 DEF NeedsCount, size
  <2>5. n >= skip + size
    BY <1>1, <1>7, <1>9
  <2> QED
    BY <1>2, <2>4, <2>5 DEF size, n
<1> QED
  BY <1>1, <1>7, <1>8, <1>9

-----------------------------------------------------------------------------
(* Steps that no client takes.                                             *)

LEMMA HostMoves ==
    ASSUME HostNext
    PROVE  Open => Open' /\ UNCHANGED config
  BY DEF Open, HostNext, ValidateEnvironment, StartTracing, CreateApplication, Configure,
         Listen, Shutdown, Proceed, Exit

LEMMA TableKept ==
    ASSUME SharedInv, UNCHANGED mails
    PROVE  Grown
  BY DEF SharedInv, Grown

\* A step that leaves every tab alone.
LEMMA QuietStep ==
    ASSUME ApiInv, HostInv', Grown, Settled, UNCHANGED <<issued, jar, newest, tabs>>
    PROVE  ApiInv'
<1>1. SharedInv /\ issued \in Nat /\ tabs \in [Tabs -> Tab]
  BY DEF ApiInv, SharedInv
<1>2. \A t \in Tabs : TabLocal(t, tabs[t])' /\ TokenLocal(tabs[t])'
  BY <1>1, TabsKept
<1>3. SharedInv'
  <2>1. newest # NoTab => Open /\ Open' /\ Dropped' = Dropped
    BY <1>1 DEF SharedInv, Settled, Dropped
  <2> QED
    BY <1>1, <2>1 DEF SharedInv, Grown, Settled
<1>4. tabs' \in [Tabs -> Tab']
  BY <1>1, <1>2 DEF TabLocal
<1> QED
  BY <1>2, <1>3, <1>4 DEF ApiInv

LEMMA StartKept ==
    ASSUME ApiInv, Start
    PROVE  ApiInv'
<1>1. HostInv'
  BY HostKept DEF ApiInv, Start
<1>2. Grown /\ Settled
  BY HostMoves, TableKept DEF ApiInv, Start, apiVars, Settled
<1> QED
  BY <1>1, <1>2, QuietStep DEF Start, apiVars

LEMMA IdleKept ==
    ASSUME ApiInv, UNCHANGED vars
    PROVE  ApiInv'
<1>1. HostInv'
  BY HostKept DEF ApiInv, vars, hostVars
<1>2. Grown /\ Settled
  BY TableKept DEF ApiInv, vars, Settled, Open
<1> QED
  BY <1>1, <1>2, QuietStep DEF vars

\* A new status leaves a row deliverable.
LEMMA StatusSet ==
    ASSUME SharedInv,
           \E m \in DOMAIN mails, status \in {"pending", "sent", "failed"} :
              mails' = [mails EXCEPT ![m].status = status]
    PROVE  Grown
<1> PICK m \in DOMAIN mails, status \in {"pending", "sent", "failed"} :
         mails' = [mails EXCEPT ![m].status = status]
  OBVIOUS
<1>1. mails \in Seq(Row) /\ \A n \in DOMAIN mails : mails[n] \in Row /\ Deliverable(mails[n])
  BY DEF SharedInv
<1>2. DOMAIN mails' = DOMAIN mails /\ DOMAIN mails = 1..Len(mails) /\ Len(mails) \in Nat
  BY <1>1
<1>3. ASSUME NEW n \in DOMAIN mails
      PROVE  mails'[n] \in Row /\ Deliverable(mails'[n]) /\ mails'[n].at = mails[n].at
  <2>1. mails'[n] = IF n = m THEN [mails[n] EXCEPT !.status = status] ELSE mails[n]
    BY <1>1
  <2>2. mails[n] \in Row /\ Deliverable(mails[n])
    BY <1>1
  <2>3. [mails[n] EXCEPT !.status = status] \in Row
    BY <2>2 DEF Row
  <2>4. /\ [mails[n] EXCEPT !.status = status].at = mails[n].at
        /\ Deliverable([mails[n] EXCEPT !.status = status])
    BY <2>2 DEF Row, Deliverable
  <2> QED
    BY <2>1, <2>2, <2>3, <2>4
<1>4. mails' \in [1..Len(mails) -> Row]
  BY <1>1, <1>2, <1>3
<1>5. PICK n \in Nat : mails' \in [1..n -> Row]
  BY <1>2, <1>4
<1>6. mails' \in Seq(Row)
  BY <1>5, SeqOfFunction
<1> QED
  BY <1>2, <1>3, <1>6 DEF Grown

LEMMA SettleKept ==
    ASSUME ApiInv, Settle
    PROVE  ApiInv'
<1>1. HostInv'
  BY HostKept DEF ApiInv, Settle
<1>2. Grown
  <2>1. \E m \in DOMAIN mails, status \in {"pending", "sent", "failed"} :
           mails' = [mails EXCEPT ![m].status = status]
    BY DEF Settle
  <2> QED
    BY <2>1, StatusSet DEF ApiInv
<1>3. Settled
  BY DEF Settle, Settled, Open, hostVars
<1> QED
  BY <1>1, <1>2, <1>3, QuietStep DEF Settle

-----------------------------------------------------------------------------
(* What answers a request before its handler.                              *)

LEMMA RefusalIs ==
    ASSUME HostInv, stage = "listening", NEW t \in Tabs
    PROVE  /\ Refusal(t) \in {0, 400, 401, 403}
           /\ Refusal(t) = 403 =>
                 tabs[t].cookie = NoToken \/ tabs[t].cookie # tabs[t].header
<1> DEFINE q == Request(t)
<1>1. ApiToken(q) \in {0, 401} /\ Csrf(t) \in {0, 403} /\ Validation(q) \in {0, 400}
  BY DEF ApiToken, Csrf, Validation, Pass
<1>2. Refusal(t) \in {0, 400, 401, 403}
  BY <1>1 DEF Refusal, Then, Pass
<1>3. ASSUME Refusal(t) = 403
      PROVE  tabs[t].cookie = NoToken \/ tabs[t].cookie # tabs[t].header
  <2>1. Csrf(t) = 403
    BY <1>1, <1>3 DEF Refusal, Then, Pass
  <2> QED
    BY <2>1 DEF Csrf, Pass
<1> QED
  BY <1>2, <1>3

-----------------------------------------------------------------------------
(* Answers.                                                                *)

\* What an answer must not do: refuse a token that is right, hand
\* out a token that has not been made, or end the list other than by rows.
Sound(t, status, answer) ==
    /\ status \in Statuses /\ answer \in Nat
    /\ status = 403 =>
          tabs[t].cookie = NoToken \/ tabs[t].cookie # tabs[t].header
    /\ Request(t).route = "csrfToken" /\ status = 200 => answer \in 1..issued'
    /\ IF tabs[t].pc = "counting"
       THEN /\ status = 200
            /\ answer = TotalPages(Cardinality(Matching(mails, QueryOf(t))), QueryOf(t))
       ELSE Request(t).route = "list" => status # 200

LEMMA ReplyKeepsScan ==
    ASSUME ApiInv, NEW t \in Tabs, tabs[t].pc \in {"sent", "counting"},
           NEW status, NEW answer, Sound(t, status, answer),
           NEW w, w = ReplyTab(tabs[t], status, answer)
    PROVE  ScanLocal(t, w)
<1> DEFINE v == tabs[t]
<1>1. /\ SharedInv /\ v \in Tab /\ TabLocal(t, v) /\ ScanLocal(t, v)
      /\ v.request \in Asks[scenario][t]
      /\ v.pc = "counting" => v.request.route = "list"
  BY DEF ApiInv, TabLocal
<1>2. /\ w.pc = "answered" /\ w.status = status /\ w.answer = answer
      /\ w.request = v.request /\ w.rows = v.rows /\ w.scan = v.scan
  BY <1>1, ReplyFields DEF Sound
<1>3. ASSUME NEW q \in Asks[scenario][t], q.route = "list", q.body.filter = "any",
             NEW m \in v.scan.start, Unique(m)
      PROVE  Reached(w, q, m)
  <2>1. Reached(v, q, m)
    BY <1>1, <1>3 DEF ScanLocal
  <2>2. CASE v.pc = "sent"
    <3>1. ~Fetched(v) /\ ~Fetched(w)
      BY <1>2, <2>2 DEF Fetched, Sound, Request
    <3> QED
      BY <1>2, <2>1, <3>1 DEF Reached
  <2>3. CASE v.pc = "counting"
    <3>1. v.request = q /\ q.body \in ListBody
      BY <1>1, <1>3, <2>3, ListAsked DEF SharedInv
    <3> DEFINE query == QueryOf(t)
    <3>2. query.filter = "any" /\ query.limit = q.body.limit /\ query.limit \in Int
      BY <1>3, <3>1 DEF QueryOf, Request, ListBody
    <3>3. LimitOf(query) = LimitOf(q.body)
      BY <3>2 DEF LimitOf
    <3>4. Fetched(v)
      BY <2>3 DEF Fetched
    <3>5. \/ m \in v.scan.seen \cup RowsIn(v)
          \/ Cardinality(Before(m, q.body.direction)) >= v.scan.page * LimitOf(q.body)
      BY <2>1, <3>4 DEF Reached
    <3>6. RowsIn(w) = RowsIn(v)
      BY <1>2 DEF RowsIn
    <3>7. m \in DOMAIN mails /\ v.scan.page \in Nat /\ mails \in Seq(Row)
      BY <1>1, <1>3 DEF Tab, SharedInv
    <3>8. answer = TotalPages(Cardinality(Matching(mails, query)), query)
      BY <2>3 DEF Sound
    <3> HIDE DEF query
    <3>9. Cardinality(Before(m, q.body.direction)) >= v.scan.page * LimitOf(q.body)
              => v.scan.page < answer
      BY <3>2, <3>3, <3>7, <3>8, TotalAhead
    <3>10. Fetched(w)
      BY <1>1, <1>2, <2>3 DEF Fetched, Sound
    <3> QED
      BY <1>2, <3>5, <3>6, <3>9, <3>10 DEF Reached
  <2> QED
    BY <2>2, <2>3
<1> QED
  BY <1>1, <1>2, <1>3 DEF ScanLocal

LEMMA ReplyKeepsTab ==
    ASSUME ApiInv, NEW t \in Tabs, tabs[t].pc \in {"sent", "counting"},
           NEW status, NEW answer, Sound(t, status, answer),
           NEW w, w = ReplyTab(tabs[t], status, answer)
    PROVE  TabLocal(t, w)
<1> DEFINE v == tabs[t]
<1>1. v \in Tab /\ TabLocal(t, v)
  BY DEF ApiInv
<1>2. /\ w \in Tab
      /\ w.pc = "answered" /\ w.status = status /\ w.answer = answer
      /\ w.request = v.request /\ w.cookie = v.cookie /\ w.header = v.header
      /\ w.latest = v.latest /\ w.scan = v.scan
  BY <1>1, ReplyFields DEF Sound
<1>3. CsrfLocal(w)
  BY <1>1, <1>2 DEF TabLocal, CsrfLocal, Sound, Request
<1>4. ScanLocal(t, w)
  BY ReplyKeepsScan
<1> QED
  BY <1>1, <1>2, <1>3, <1>4 DEF TabLocal, Sound, Request

LEMMA Replied ==
    ASSUME ApiInv, NEW t \in Tabs, tabs[t].pc \in {"sent", "counting"},
           NEW status, NEW answer, Sound(t, status, answer), Reply(t, status, answer),
           UNCHANGED <<hostVars, scenario, https, jar, newest>>,
           issued' \in {issued, issued + 1}, Grown
    PROVE  ApiInv'
<1> PICK w : w = ReplyTab(tabs[t], status, answer)
  OBVIOUS
<1>1. SharedInv /\ issued \in Nat /\ issued' \in Nat /\ issued <= issued'
  BY DEF ApiInv, SharedInv
<1>2. HostInv' /\ Settled
  BY HostKept DEF ApiInv, Settled, Open, hostVars
<1>3. tabs[t] \in Tab
  BY DEF ApiInv
<1>4. tabs' = [tabs EXCEPT ![t] = w]
  BY <1>3 DEF Reply, ReplyTab, ApiInv
<1>5. TabLocal(t, w)
  BY ReplyKeepsTab
<1>6. /\ w.token = tabs[t].token /\ w.status = status /\ w.answer = answer
      /\ w.request = tabs[t].request
  BY <1>3, ReplyFields DEF Sound
<1>7. TokenLocal(w)'
  BY <1>6 DEF TokenLocal, Sound, Request
<1>8. SharedInv'
  BY <1>1, <1>2, <1>4, <1>6, SharedKept
<1> QED
  BY <1>1, <1>2, <1>4, <1>5, <1>7, <1>8, StepKept

\* What a handler finds.
LEMMA AdmittedIs ==
    ASSUME ApiInv, NEW t \in Tabs, NEW routes, Admitted(t, routes)
    PROVE  /\ Request(t) \in Asks[scenario][t] /\ Request(t).route \in routes
           /\ tabs[t].pc = "sent" /\ stage = "listening" /\ Refusal(t) = Pass
           /\ SharedInv /\ HostInv
           /\ UNCHANGED <<hostVars, scenario, https, jar, newest>>
  BY DEF Admitted, Serves, ApiInv, TabLocal, Request

\* An answer that hands out no token and changes no mail.
LEMMA PlainAnswer ==
    ASSUME ApiInv, NEW t \in Tabs, NEW routes, Admitted(t, routes), "list" \notin routes,
           NEW status \in Statuses \ {403},
           "csrfToken" \notin routes,
           Reply(t, status, 0), UNCHANGED issued, Grown
    PROVE  ApiInv'
<1>1. /\ Request(t).route \in routes /\ tabs[t].pc = "sent"
      /\ UNCHANGED <<hostVars, scenario, https, jar, newest>>
  BY AdmittedIs
<1>2. Sound(t, status, 0)
  BY <1>1 DEF Sound
<1> QED
  BY <1>1, <1>2, Replied

-----------------------------------------------------------------------------
(* The handlers.                                                           *)

LEMMA RefuseKept ==
    ASSUME ApiInv, NEW t \in Tabs, Refuse(t)
    PROVE  ApiInv'
<1>1. /\ tabs[t].pc = "sent" /\ stage = "listening" /\ HostInv /\ SharedInv
      /\ UNCHANGED <<hostVars, scenario, https, jar, newest, issued, mails>>
  BY DEF Refuse, Serves, ApiInv
<1>2. Grown
  BY <1>1, TableKept
<1>3. PICK status \in {Refusal(t), 429} :
         Reply(t, status, 0) /\ (status = Refusal(t) => status # Pass)
  BY DEF Refuse, Pass
<1>4. Sound(t, status, 0)
  BY <1>1, <1>3, RefusalIs DEF Sound, Statuses, Pass
<1> QED
  BY <1>1, <1>2, <1>3, <1>4, Replied

LEMMA IssueTokenKept ==
    ASSUME ApiInv, NEW t \in Tabs, IssueToken(t)
    PROVE  ApiInv'
<1>1. /\ Request(t).route = "csrfToken" /\ tabs[t].pc = "sent" /\ SharedInv
      /\ UNCHANGED <<hostVars, scenario, https, jar, newest, mails>>
  BY AdmittedIs DEF IssueToken
<1>2. Grown /\ issued \in Nat
  BY <1>1, TableKept DEF SharedInv
<1>3. issued' = issued + 1 /\ Reply(t, 200, issued + 1)
  BY DEF IssueToken
<1>4. Sound(t, 200, issued + 1)
  BY <1>1, <1>2, <1>3 DEF Sound, Statuses
<1> QED
  BY <1>1, <1>2, <1>3, <1>4, Replied

LEMMA HealthKept ==
    ASSUME ApiInv, NEW t \in Tabs, Health(t)
    PROVE  ApiInv'
<1>1. Admitted(t, {"live", "ready"}) /\ UNCHANGED <<issued, mails>>
  BY DEF Health
<1>2. PICK status \in {200, 503} : Reply(t, status, 0)
  BY DEF Health
<1>3. Grown
  BY <1>1, AdmittedIs, TableKept
<1> QED
  BY <1>1, <1>2, <1>3, PlainAnswer DEF Statuses

LEMMA ExposeKept ==
    ASSUME ApiInv, NEW t \in Tabs, Expose(t)
    PROVE  ApiInv'
<1>1. Admitted(t, {"metrics", "openapi"}) /\ UNCHANGED <<issued, mails>>
  BY DEF Expose
<1>2. PICK status \in {200, 404} : Reply(t, status, 0)
  BY DEF Expose
<1>3. Grown
  BY <1>1, AdmittedIs, TableKept
<1> QED
  BY <1>1, <1>2, <1>3, PlainAnswer DEF Statuses

LEMMA DetailKept ==
    ASSUME ApiInv, NEW t \in Tabs, Detail(t)
    PROVE  ApiInv'
<1>1. Admitted(t, {"detail"}) /\ UNCHANGED <<issued, mails>> /\ Reply(t, 200, 0)
  BY DEF Detail
<1>2. Grown
  BY <1>1, AdmittedIs, TableKept
<1> QED
  BY <1>1, <1>2, PlainAnswer DEF Statuses

LEMMA SuppressionKept ==
    ASSUME ApiInv, NEW t \in Tabs, Suppression(t)
    PROVE  ApiInv'
<1>1. /\ Admitted(t, {"suppress", "unsuppress", "listSuppression"})
      /\ UNCHANGED <<issued, mails>>
  BY DEF Suppression
<1>2. PICK status \in {200, 201, 500} : Reply(t, status, 0)
  BY <1>1, AdmittedIs DEF Suppression
<1>3. Grown
  BY <1>1, AdmittedIs, TableKept
<1> QED
  BY <1>1, <1>2, <1>3, PlainAnswer DEF Statuses

LEMMA PreviewKept ==
    ASSUME ApiInv, NEW t \in Tabs, Preview(t)
    PROVE  ApiInv'
<1>1. Admitted(t, {"preview"}) /\ UNCHANGED <<issued, mails>>
  BY DEF Preview
<1>2. PICK status \in {201, 404, 500} : Reply(t, status, 0)
  BY DEF Preview
<1>3. Grown
  BY <1>1, AdmittedIs, TableKept
<1> QED
  BY <1>1, <1>2, <1>3, PlainAnswer DEF Statuses

\* What enqueue adds can be sent: the pipe has seen the recipients, enqueue the
\* texts and the sender, and the schema the number of attempts.
LEMMA RowAdded ==
    ASSUME ApiInv, NEW t \in Tabs, Admitted(t, Enqueues), Unacceptable(Request(t)) = Pass,
           NEW last \in Nat, NEW at \in {last, last + 1},
           NEW row, row = [at |-> at, status |-> "pending",
                           to |-> ToStringArray(Request(t).body.to),
                           content |-> Request(t).body.content,
                           sender |-> Request(t).body.from \/ config.defaultFrom,
                           maxAttempts |-> IF Request(t).body.maxAttempts = Unset
                                           THEN config.maxAttempts
                                           ELSE Request(t).body.maxAttempts]
    PROVE  row \in Row /\ Deliverable(row)
<1> DEFINE q == Request(t)
<1>1. /\ q \in Asks[scenario][t] /\ q.route \in Enqueues /\ stage = "listening"
      /\ SharedInv /\ HostInv /\ Refusal(t) = Pass
  BY AdmittedIs
<1>2. /\ q.body \in MailBody
      /\ q.route \in {"send", "schedule"} => q.body.content # "broken"
  BY <1>1, AsksAssumption DEF SharedInv
<1>3. SendValid(q.body)
  <2>1. Validation(q) = Pass
    <3>1. ~Documentation(q)
      BY <1>1 DEF Documentation, Enqueues
    <3> QED
      BY <1>1, <3>1 DEF Refusal, Then
  <2> QED
    BY <1>1, <2>1 DEF Validation, Pass, Enqueues, SendTemplateValid, ScheduleValid
<1>4. q.body.content = "text" /\ (q.body.from \/ config.defaultFrom)
  BY <1>1, <1>2 DEF Unacceptable, Pass, MailBody, Enqueues
<1>5. config.maxAttempts \in 1..20
  BY <1>1 DEF HostInv, Validated, Load
<1>6. ToStringArray(q.body.to) \in Seq({"email", "blank", "other"})
  BY <1>2 DEF MailBody, RecipientField, ToStringArray
<1>7. ToStringArray(q.body.to) # <<>> /\ Emails(ToStringArray(q.body.to))
  BY <1>3 DEF SendValid, RecipientsValid
<1>8. row.maxAttempts \in 1..20
  BY <1>3, <1>5 DEF SendValid, AttemptsValid
<1>9. PICK to, content, sender, attempts :
         /\ row = [at |-> at, status |-> "pending", to |-> to, content |-> content,
                   sender |-> sender, maxAttempts |-> attempts]
         /\ to = ToStringArray(q.body.to) /\ content = q.body.content
         /\ sender = (q.body.from \/ config.defaultFrom)
  OBVIOUS
<1>10. at \in Nat /\ sender = TRUE /\ content = "text"
  <2>1. at \in Nat
    OBVIOUS
  <2>2. content = "text"
    BY <1>4, <1>9
  <2>3. sender = TRUE
    <3> DEFINE given == q.body.from \/ config.defaultFrom
    <3>1. given
      BY <1>4
    <3>2. sender = given
      BY <1>9
    <3>3. given \in BOOLEAN
      OBVIOUS
    <3> HIDE DEF given
    <3> QED
      BY <3>1, <3>2, <3>3
  <2> QED
    BY <2>1, <2>2, <2>3
<1>11. /\ row.to = to /\ row.content = content /\ row.sender = sender
       /\ row.maxAttempts = attempts
  BY <1>9
<1>12. to \in Seq({"email", "blank", "other"}) /\ to # <<>> /\ Emails(to)
  BY <1>6, <1>7, <1>9
<1>13. attempts \in 1..20
  BY <1>8, <1>11
<1>14. row \in Row
  BY <1>9, <1>10, <1>12, <1>13 DEF Row
<1>15. Deliverable(row)
  BY <1>10, <1>11, <1>12, <1>13 DEF Deliverable
<1> QED
  BY <1>14, <1>15

LEMMA EnqueueKept ==
    ASSUME ApiInv, NEW t \in Tabs, Enqueue(t)
    PROVE  ApiInv'
<1>1. Admitted(t, Enqueues) /\ UNCHANGED issued /\ SharedInv
  BY DEF Enqueue, ApiInv
<1>2. "list" \notin Enqueues /\ "csrfToken" \notin Enqueues
  BY DEF Enqueues
<1>3. PICK status \in {201, 400, 500} : Reply(t, status, 0)
  BY DEF Enqueue, Unacceptable, Pass
<1>4. Grown
  <2>1. CASE UNCHANGED mails
    BY <1>1, <2>1, TableKept
  <2>2. CASE ~UNCHANGED mails
    <3> DEFINE last == IF mails = <<>> THEN 1 ELSE mails[Len(mails)].at
    <3>1. PICK at, row :
             /\ at \in {last, last + 1}
             /\ Unacceptable(Request(t)) = Pass
             /\ row = [at |-> at, status |-> "pending",
                       to |-> ToStringArray(Request(t).body.to),
                       content |-> Request(t).body.content,
                       sender |-> Request(t).body.from \/ config.defaultFrom,
                       maxAttempts |-> IF Request(t).body.maxAttempts = Unset
                                       THEN config.maxAttempts
                                       ELSE Request(t).body.maxAttempts]
             /\ mails' = Append(mails, row)
      BY <2>2 DEF Enqueue
    <3>2. mails \in Seq(Row)
      BY <1>1 DEF SharedInv
    <3>3. last \in Nat
      <4>1. mails # <<>> => Len(mails) \in DOMAIN mails
        BY <3>2
      <4> QED
        BY <3>2, <4>1, MomentTyped
    <3> HIDE DEF last
    <3>4. row \in Row /\ Deliverable(row)
      BY <1>1, <3>1, <3>3, RowAdded
    <3>5. /\ mails' \in Seq(Row) /\ DOMAIN mails' = DOMAIN mails \cup {Len(mails) + 1}
          /\ \A m \in DOMAIN mails : mails'[m] = mails[m]
          /\ mails'[Len(mails) + 1] = row
      BY <3>1, <3>2, <3>4
    <3> QED
      BY <1>1, <3>4, <3>5 DEF Grown, SharedInv
  <2> QED
    BY <2>1, <2>2
<1> QED
  BY <1>1, <1>2, <1>3, <1>4, PlainAnswer DEF Statuses

LEMMA RetryKept ==
    ASSUME ApiInv, NEW t \in Tabs, Retry(t)
    PROVE  ApiInv'
<1>1. Admitted(t, {"retry"}) /\ UNCHANGED issued /\ SharedInv
  BY DEF Retry, ApiInv
<1>2. PICK status \in {201, 400, 500} : Reply(t, status, 0)
  BY DEF Retry
<1>3. Grown
  <2>1. CASE UNCHANGED mails
    BY <1>1, <2>1, TableKept
  <2>2. CASE ~UNCHANGED mails
    <3>1. \E m \in DOMAIN mails, status2 \in {"pending", "sent", "failed"} :
             mails' = [mails EXCEPT ![m].status = status2]
      BY <2>2 DEF Retry
    <3> QED
      BY <1>1, <3>1, StatusSet
  <2> QED
    BY <2>1, <2>2
<1> QED
  BY <1>1, <1>2, <1>3, PlainAnswer DEF Statuses

LEMMA WebhookKept ==
    ASSUME ApiInv, NEW t \in Tabs, Webhook(t)
    PROVE  ApiInv'
<1>1. Admitted(t, {"webhook"}) /\ UNCHANGED issued /\ SharedInv
  BY DEF Webhook, ApiInv
<1>2. PICK status \in {201, 400, 401, 404} : Reply(t, status, 0)
  BY DEF Webhook
<1>3. Grown
  <2>1. CASE UNCHANGED mails
    BY <1>1, <2>1, TableKept
  <2>2. CASE ~UNCHANGED mails
    <3> DEFINE q == Request(t)
    <3>1. PICK new : /\ q.id \in DOMAIN mails /\ mails' = [mails EXCEPT ![q.id].status = new]
                     /\ new \in {"sent", "failed", mails[q.id].status}
      BY <2>2 DEF Webhook
    <3>2. mails[q.id] \in Row
      BY <1>1, <3>1 DEF SharedInv
    <3>3. \E m \in DOMAIN mails, status2 \in {"pending", "sent", "failed"} :
             mails' = [mails EXCEPT ![m].status = status2]
      BY <3>1, <3>2 DEF Row
    <3> QED
      BY <1>1, <3>3, StatusSet
  <2> QED
    BY <2>1, <2>2
<1> QED
  BY <1>1, <1>2, <1>3, PlainAnswer DEF Statuses

LEMMA ListCountKept ==
    ASSUME ApiInv, NEW t \in Tabs, ListCount(t)
    PROVE  ApiInv'
<1> DEFINE total == Cardinality(Matching(mails, QueryOf(t)))
           pages == TotalPages(total, QueryOf(t))
<1>1. /\ tabs[t].pc = "counting" /\ Reply(t, 200, pages) /\ SharedInv
      /\ UNCHANGED <<hostVars, scenario, https, jar, newest, issued, mails>>
      /\ Request(t) \in Asks[scenario][t] /\ Request(t).route = "list"
  BY DEF ListCount, ApiInv, TabLocal, Request
<1>2. total \in Nat
  <2>1. Matching(mails, QueryOf(t)) \in SUBSET DOMAIN mails
    BY DEF Matching
  <2> QED
    BY <1>1, <2>1, FiniteTable, FS_Subset, FS_CardinalityType DEF SharedInv
<1>3. QueryOf(t).limit \in Int
  BY <1>1, ListAsked DEF QueryOf, ListBody, SharedInv
<1>4. pages \in Nat
  BY <1>2, <1>3, TotalPagesTyped
<1>5. Sound(t, 200, pages)
  BY <1>1, <1>4 DEF Sound, Statuses
<1>6. Grown
  BY <1>1, TableKept
<1> HIDE DEF pages
<1> QED
  BY <1>1, <1>5, <1>6, Replied

-----------------------------------------------------------------------------
(* The rows of a page.                                                     *)

LEMMA SubSeqTyped ==
    ASSUME NEW S, NEW s \in Seq(S), NEW from \in Nat, NEW to \in Int, to <= Len(s)
    PROVE  SubSeq(s, from + 1, to) \in Seq(S) /\ Len(SubSeq(s, from + 1, to)) \in Nat
<1>1. CASE from <= to
  <2>1. to - from \in Nat /\ SubSeq(s, from + 1, to) = [i \in 1..(to - from) |-> s[i + from]]
    BY <1>1, SubSeqIs
  <2>2. SubSeq(s, from + 1, to) \in [1..(to - from) -> S]
    <3>1. ASSUME NEW i \in 1..(to - from) PROVE s[i + from] \in S
      <4>1. i + from \in 1..Len(s)
        OBVIOUS
      <4> QED
        BY <4>1
    <3> QED
      BY <2>1, <3>1
  <2>3. SubSeq(s, from + 1, to) \in Seq(S)
    BY <2>1, <2>2, SeqOfFunction
  <2> QED
    BY <2>3
<1>2. CASE from > to
  <2>1. SubSeq(s, from + 1, to) = <<>>
    BY <1>2
  <2> QED
    BY <2>1
<1> QED
  BY <1>1, <1>2

LEMMA RowsTyped ==
    ASSUME mails \in Seq(Row), NEW query, query.limit \in Int, query.page \in Nat,
           NEW order \in Orders(mails, query),
           NEW rows, rows = Rows(order, query)
    PROVE  /\ rows \in Seq(DOMAIN mails)
           /\ TotalPages(Skip(query) + Len(rows), query) \in Nat
<1> DEFINE N == Cardinality(Matching(mails, query))
           size == LimitOf(query)
           skip == Skip(query)
<1>1. Matching(mails, query) \in SUBSET DOMAIN mails
  BY DEF Matching
<1>2. N \in Nat
  BY <1>1, FiniteTable, FS_Subset, FS_CardinalityType
<1>3. order \in [1..N -> DOMAIN mails]
  BY <1>1 DEF Orders
<1> HIDE DEF N
<1>4. order \in Seq(DOMAIN mails)
  BY <1>2, <1>3, SeqOfFunction
<1>5. size \in Nat /\ size >= 1
  BY TotalPagesTyped
<1>6. skip \in Nat
  <2>1. PageOf(query) - 1 \in Nat
    BY DEF PageOf, Larger
  <2> QED
    BY <1>5, <2>1 DEF Skip
<1> DEFINE last == Smaller(skip + size, Len(order))
<1> HIDE DEF skip, size
<1>7. last \in Int /\ last <= Len(order)
  BY <1>4, <1>5, <1>6 DEF Smaller
<1> HIDE DEF last
<1>8. rows = SubSeq(order, skip + 1, last)
  BY DEF Rows, skip, size, last
<1>9. rows \in Seq(DOMAIN mails) /\ Len(rows) \in Nat
  BY <1>4, <1>6, <1>7, <1>8, SubSeqTyped
<1>10. skip + Len(rows) \in Nat
  BY <1>6, <1>9
<1> QED
  BY <1>9, <1>10, TotalPagesTyped DEF skip

LEMMA RowsKeepScan ==
    ASSUME ApiInv, NEW t \in Tabs, tabs[t].pc = "sent", Request(t).route = "list",
           NEW order \in Orders(mails, QueryOf(t)),
           NEW w, w.request = Request(t), w.scan = tabs[t].scan,
           w.rows = Rows(order, QueryOf(t)),
           w.pc = IF NeedsCount(w.rows, QueryOf(t)) THEN "counting" ELSE "answered",
           w.pc = "answered" => w.status = 200
    PROVE  ScanLocal(t, w)
<1> DEFINE v == tabs[t]
           query == QueryOf(t)
<1>1. /\ SharedInv /\ v \in Tab /\ ScanLocal(t, v)
      /\ v.request \in Asks[scenario][t] /\ v.request.route = "list" /\ v.scan.page > 0
  BY DEF ApiInv, TabLocal, Request
<1>2. ASSUME NEW q \in Asks[scenario][t], q.route = "list", q.body.filter = "any",
             NEW m \in v.scan.start, Unique(m)
      PROVE  Reached(w, q, m)
  <2>1. v.request = q /\ q.body \in ListBody
    BY <1>1, <1>2, ListAsked DEF SharedInv
  <2>2. /\ query.filter = "any" /\ query.limit = q.body.limit /\ query.limit \in Int
        /\ query.direction = q.body.direction /\ query.direction \in {"ASC", "DESC"}
        /\ query.page = v.scan.page
    BY <1>2, <2>1 DEF QueryOf, Request, ListBody
  <2>3. LimitOf(query) = LimitOf(q.body)
    BY <2>2 DEF LimitOf
  <2>4. ~Fetched(v) /\ Fetched(w)
    BY <1>1 DEF Fetched, Request
  <2>5. m \in v.scan.seen \/ Cardinality(Before(m, query.direction)) >= (query.page - 1) * LimitOf(query)
    BY <1>1, <1>2, <2>2, <2>3, <2>4 DEF ScanLocal, Reached
  <2>6. m \in DOMAIN mails /\ query.page \in Nat /\ mails \in Seq(Row)
    BY <1>1, <1>2, <2>2 DEF Tab, SharedInv
  <2> HIDE DEF query
  <2>7. \/ m \in v.scan.seen \/ m \in RowsIn(w)
        \/ /\ Cardinality(Before(m, query.direction)) >= query.page * LimitOf(query)
           /\ NeedsCount(w.rows, query)
    BY <1>1, <1>2, <2>2, <2>5, <2>6, PageReaches DEF RowsIn, query
  <2> QED
    BY <2>2, <2>3, <2>4, <2>7 DEF Reached, query
<1> QED
  BY <1>1, <1>2 DEF ScanLocal

LEMMA ListRowsKept ==
    ASSUME ApiInv, NEW t \in Tabs, ListRows(t)
    PROVE  ApiInv'
<1> DEFINE v == tabs[t]
           query == QueryOf(t)
<1>2. /\ v.request \in Asks[scenario][t] /\ v.request.route = "list" /\ v.pc = "sent"
      /\ SharedInv /\ v \in Tab /\ TabLocal(t, v) /\ v.scan.page > 0
      /\ UNCHANGED <<hostVars, scenario, https, jar, newest, issued, mails>>
  BY AdmittedIs DEF ListRows, Request, ApiInv, TabLocal
<1>1. PICK order \in Orders(mails, query) :
         tabs' = [tabs EXCEPT
             ![t].rows = Rows(order, query),
             ![t].pc = IF NeedsCount(Rows(order, query), query) THEN "counting" ELSE "answered",
             ![t].status = IF NeedsCount(Rows(order, query), query) THEN 0 ELSE 200,
             ![t].answer = TotalPages(Skip(query) + Len(Rows(order, query)), query)]
  BY DEF ListRows
<1>3. PICK rows, pc, status, answer :
         /\ rows = Rows(order, query)
         /\ pc = IF NeedsCount(rows, query) THEN "counting" ELSE "answered"
         /\ status = IF NeedsCount(rows, query) THEN 0 ELSE 200
         /\ answer = TotalPages(Skip(query) + Len(rows), query)
  OBVIOUS
<1>4. PICK w : w = RowsTab(v, rows, pc, status, answer)
  OBVIOUS
<1>5. tabs' = [tabs EXCEPT ![t] = w]
  BY <1>1, <1>3, <1>4 DEF ApiInv, RowsTab
<1>6. rows \in Seq(DOMAIN mails) /\ answer \in Nat
  <2>1. query.limit \in Int
    BY <1>2, ListAsked DEF QueryOf, ListBody, SharedInv, Request
  <2>2. query.page \in Nat
    BY <1>2 DEF QueryOf, Tab
  <2> HIDE DEF query
  <2> QED
    BY <1>2, <1>3, <2>1, <2>2, RowsTyped DEF SharedInv
<1>7. /\ pc \in {"counting", "answered"} /\ status \in {0, 200}
      /\ pc = "counting" <=> status = 0
  BY <1>3
<1>8. /\ w \in Tab /\ w.pc = pc /\ w.status = status /\ w.answer = answer /\ w.rows = rows
      /\ w.request = v.request /\ w.cookie = v.cookie /\ w.header = v.header
      /\ w.token = v.token /\ w.latest = v.latest /\ w.scan = v.scan
  <2>1. status \in Statuses
    BY <1>7 DEF Statuses
  <2> HIDE DEF v
  <2> QED
    BY <1>2, <1>4, <1>6, <1>7, <2>1, RowsFields
<1>9. ScanLocal(t, w)
  BY <1>2, <1>3, <1>7, <1>8, RowsKeepScan DEF Request
<1>10. CsrfLocal(w)
  BY <1>2, <1>7, <1>8 DEF CsrfLocal, TabLocal
<1>11. TabLocal(t, w)
  BY <1>2, <1>7, <1>8, <1>9, <1>10 DEF TabLocal
<1>12. TokenLocal(w)'
  BY <1>2, <1>8 DEF TokenLocal
<1>13. issued \in Nat /\ issued' \in Nat /\ issued <= issued' /\ Grown
  BY <1>2, TableKept DEF SharedInv
<1>14. HostInv' /\ Settled
  BY <1>2, HostKept DEF ApiInv, Settled, Open, hostVars
<1>15. SharedInv'
  BY <1>2, <1>5, <1>8, <1>13, <1>14, SharedKept
<1> QED
  BY <1>5, <1>11, <1>12, <1>13, <1>14, <1>15, StepKept

-----------------------------------------------------------------------------
(* The client.                                                             *)

LEMMA AskKept ==
    ASSUME ApiInv, NEW t \in Tabs, Ask(t)
    PROVE  ApiInv'
<1> DEFINE v == tabs[t]
<1>1. /\ stage = "listening" /\ v.pc = "idle" /\ SharedInv /\ v \in Tab /\ TabLocal(t, v)
      /\ UNCHANGED <<hostVars, scenario, https, issued, jar, newest, mails>>
  BY DEF Ask, ApiInv
<1>2. PICK q \in Asks[scenario][t] :
         /\ q.route = "list" => v.scan.page > 0
         /\ tabs' = [tabs EXCEPT
                ![t].pc = "sent",
                ![t].request = q, ![t].cookie = jar, ![t].header = v.token,
                ![t].latest = (newest = t),
                ![t].scan.start = IF q.route = "list" /\ v.scan.page = 1
                                  THEN DOMAIN mails ELSE @]
  BY DEF Ask
<1>3. PICK latest, start :
         /\ latest \in BOOLEAN /\ latest = (newest = t)
         /\ start = IF q.route = "list" /\ v.scan.page = 1 THEN DOMAIN mails ELSE v.scan.start
  OBVIOUS
<1>4. PICK w : w = AskTab(v, q, jar, latest, start)
  OBVIOUS
<1>5. tabs' = [tabs EXCEPT ![t] = w]
  BY <1>1, <1>2, <1>3, <1>4 DEF ApiInv, AskTab, Tab
<1>6. q \in Asked /\ start \in SUBSET DOMAIN mails /\ jar \in 0..issued
  BY <1>1, <1>3 DEF Asked, Tab, SharedInv
<1>7. /\ w \in Tab
      /\ w.pc = "sent" /\ w.request = q /\ w.cookie = jar
      /\ w.header = v.token /\ w.token = v.token /\ w.latest = latest
      /\ w.status = 0 /\ w.scan.page = v.scan.page
      /\ w.scan.start = start /\ w.scan.seen = v.scan.seen
  <2>1. v.status = 0 /\ v \in Tab /\ latest \in BOOLEAN
    BY <1>1, <1>3 DEF TabLocal
  <2> HIDE DEF v
  <2> QED
    BY <1>4, <1>6, <2>1, AskFields
<1>8. CsrfLocal(w)
  <2>1. ASSUME w.latest PROVE w.cookie = w.header \/ Dropped
    BY <1>1, <1>3, <1>7, <2>1, TabsAssumption DEF SharedInv
  <2> QED
    BY <1>7, <2>1 DEF CsrfLocal
<1>9. ScanLocal(t, w)
  <2>1. ASSUME NEW p \in Asks[scenario][t], p.route = "list", p.body.filter = "any",
               NEW m \in start, Unique(m)
        PROVE  Reached(w, p, m)
    <3>1. ~Fetched(v) /\ ~Fetched(w)
      BY <1>1, <1>7 DEF Fetched
    <3>2. CASE q.route = "list" /\ v.scan.page = 1
      <4>1. Cardinality(Before(m, p.body.direction)) \in Nat
        BY <1>1, FiniteTable DEF SharedInv
      <4>2. (w.scan.page - 1) * LimitOf(p.body) = 0 /\ w.scan.page > 0
        <5>1. LimitOf(p.body) \in Nat
          BY <1>1, <2>1, ListAsked DEF SharedInv
        <5> QED
          BY <1>7, <3>2, <5>1
      <4> QED
        BY <3>1, <4>1, <4>2 DEF Reached
    <3>3. CASE ~(q.route = "list" /\ v.scan.page = 1)
      <4>1. Reached(v, p, m)
        BY <1>1, <1>3, <2>1, <3>3 DEF TabLocal, ScanLocal
      <4> QED
        BY <1>7, <3>1, <4>1 DEF Reached
    <3> QED
      BY <3>2, <3>3
  <2>2. start # {} => \E p \in Asks[scenario][t] : p.route = "list"
    BY <1>1, <1>3 DEF TabLocal, ScanLocal
  <2> QED
    BY <1>7, <2>1, <2>2 DEF ScanLocal
<1>10. TabLocal(t, w)
  BY <1>1, <1>2, <1>7, <1>8, <1>9 DEF TabLocal, Open
<1>11. TokenLocal(w)'
  BY <1>7 DEF TokenLocal
<1>12. issued \in Nat /\ issued' \in Nat /\ issued <= issued' /\ Grown
  BY <1>1, TableKept DEF SharedInv
<1>13. HostInv' /\ Settled
  BY <1>1, HostKept DEF ApiInv, Settled, Open, hostVars
<1>14. SharedInv'
  BY <1>1, <1>5, <1>7, <1>12, <1>13, SharedKept
<1> QED
  BY <1>5, <1>10, <1>11, <1>12, <1>13, <1>14, StepKept

LEMMA ReceiveKept ==
    ASSUME ApiInv, NEW t \in Tabs, Receive(t)
    PROVE  ApiInv'
<1> DEFINE v == tabs[t]
           handed == v.request.route = "csrfToken" /\ v.status = 200
           listed == v.request.route = "list" /\ v.status = 200
<1>1. /\ v.pc = "answered" /\ SharedInv /\ v \in Tab /\ TabLocal(t, v) /\ TokenLocal(v)
      /\ UNCHANGED <<hostVars, scenario, https, issued, mails>> /\ Open
  <2>1. v.pc = "answered" /\ SharedInv /\ v \in Tab /\ TabLocal(t, v) /\ TokenLocal(v)
    BY DEF Receive, ApiInv
  <2>2. Open
    BY <2>1 DEF TabLocal
  <2> QED
    BY <2>1, <2>2 DEF Receive
<1>2. PICK token, page, seen :
         /\ token = IF handed THEN v.answer ELSE v.token
         /\ page = IF ~listed THEN v.scan.page
                   ELSE IF v.scan.page >= v.answer THEN 0 ELSE v.scan.page + 1
         /\ seen = RowsIn(v)
  OBVIOUS
<1>3. PICK w : w = ReceiveTab(v, token, page, seen)
  OBVIOUS
<1>4. tabs' = [tabs EXCEPT ![t] = w]
  <2>1. tabs' = [tabs EXCEPT
            ![t].pc = "idle", ![t].request = NoRequest,
            ![t].cookie = NoToken, ![t].header = NoToken, ![t].latest = FALSE,
            ![t].status = 0, ![t].answer = 0, ![t].rows = <<>>,
            ![t].token = token, ![t].scan.page = page,
            ![t].scan.seen = v.scan.seen \cup seen]
    BY <1>2 DEF Receive, Request, RowsIn
  <2>2. tabs \in [Tabs -> Tab]
    BY DEF ApiInv
  <2>3. PICK x : x = [v EXCEPT !.pc = "idle", !.request = NoRequest, !.cookie = NoToken,
                              !.header = NoToken, !.latest = FALSE, !.status = 0]
    OBVIOUS
  <2>4. PICK f : f = [tabs EXCEPT ![t] = x]
    OBVIOUS
  <2>5. f = [tabs EXCEPT ![t].pc = "idle", ![t].request = NoRequest,
                         ![t].cookie = NoToken, ![t].header = NoToken,
                         ![t].latest = FALSE, ![t].status = 0]
    BY <2>2, <2>3, <2>4
  <2>6. f[t] = x /\ DOMAIN f = Tabs
    BY <2>2, <2>4
  <2>7. PICK y : y = [x EXCEPT !.answer = 0, !.rows = <<>>, !.token = token,
                              !.scan.page = page, !.scan.seen = v.scan.seen \cup seen]
    OBVIOUS
  <2>8. [f EXCEPT ![t] = y] =
            [f EXCEPT ![t].answer = 0, ![t].rows = <<>>, ![t].token = token,
                      ![t].scan.page = page, ![t].scan.seen = v.scan.seen \cup seen]
    BY <2>6, <2>7
  <2>9. tabs' = [f EXCEPT ![t] = y]
    BY <2>1, <2>5, <2>8
  <2>10. w = y
    BY <1>3, <2>3, <2>7 DEF ReceiveTab
  <2> QED
    BY <2>2, <2>4, <2>9, <2>10
<1>5. /\ jar' = IF handed /\ (https \/ ~config.production) THEN v.answer ELSE jar
      /\ newest' = IF handed THEN t ELSE newest
  BY DEF Receive, Request
<1>6. issued \in Nat /\ token \in 0..issued /\ (handed => v.answer \in 1..issued)
  BY <1>1, <1>2 DEF TokenLocal, SharedInv, Tab
<1>7. page \in Nat /\ v.scan.page \in Nat /\ v.answer \in Nat
  <2>1. v.scan.page \in Nat /\ v.answer \in Nat
    BY <1>1 DEF Tab
  <2> QED
    BY <1>2, <2>1
<1>8. seen \in SUBSET DOMAIN mails
  <2>1. v.rows \in Seq(DOMAIN mails)
    BY <1>1 DEF Tab
  <2> QED
    BY <1>2, <2>1 DEF RowsIn
<1>9. /\ w \in Tab
      /\ w.pc = "idle" /\ w.request = NoRequest /\ w.status = 0
      /\ w.token = token /\ w.scan.page = page
      /\ w.scan.start = v.scan.start /\ w.scan.seen = v.scan.seen \cup seen
  <2>1. /\ v \in Tab /\ issued \in Nat /\ token \in 0..issued
        /\ page \in Nat /\ seen \in SUBSET DOMAIN mails
    BY <1>1, <1>6, <1>7, <1>8
  <2> HIDE DEF v
  <2> QED
    BY <1>3, <2>1, ReceiveFields
<1>10. CsrfLocal(w)
  BY <1>9 DEF CsrfLocal
<1>11. ScanLocal(t, w)
  <2>1. ASSUME NEW q \in Asks[scenario][t], q.route = "list", q.body.filter = "any",
               NEW m \in v.scan.start, Unique(m)
        PROVE  Reached(w, q, m)
    <3>1. Reached(v, q, m) /\ ~Fetched(w)
      BY <1>1, <1>9, <2>1 DEF TabLocal, ScanLocal, Fetched
    <3>2. CASE listed
      <4>1. Fetched(v)
        BY <1>1, <3>2 DEF Fetched
      <4>2. \/ m \in v.scan.seen \cup seen
            \/ /\ Cardinality(Before(m, q.body.direction)) >= v.scan.page * LimitOf(q.body)
               /\ v.scan.page < v.answer
        BY <1>1, <1>2, <3>1, <4>1 DEF Reached
      <4>3. CASE v.scan.page < v.answer
        <5>1. page = v.scan.page + 1
          BY <1>2, <1>7, <3>2, <4>3
        <5>2. page > 0 /\ page - 1 = v.scan.page
          BY <1>7, <5>1
        <5> QED
          BY <1>9, <3>1, <4>2, <5>2 DEF Reached
      <4> QED
        BY <1>9, <3>1, <4>2, <4>3 DEF Reached
    <3>3. CASE ~listed
      <4>1. ~Fetched(v) /\ page = v.scan.page
        BY <1>1, <1>2, <3>3 DEF Fetched
      <4> QED
        BY <1>9, <3>1, <4>1 DEF Reached
    <3> QED
      BY <3>2, <3>3
  <2> QED
    BY <1>1, <1>9, <2>1 DEF TabLocal, ScanLocal
<1>12. TabLocal(t, w)
  BY <1>9, <1>10, <1>11 DEF TabLocal
<1>13. TokenLocal(w)'
  BY <1>9 DEF TokenLocal
<1>14. issued' \in Nat /\ issued <= issued' /\ Grown
  BY <1>1, <1>6, TableKept
<1>15. HostInv' /\ Settled
  BY <1>1, HostKept DEF ApiInv, Settled, Open, hostVars
<1>16. SharedInv'
  <2>1. Open' /\ Dropped' = Dropped /\ UNCHANGED <<scenario, https, issued>>
    BY <1>1, <1>15 DEF Settled, Dropped
  <2>2. jar' \in 0..issued'
    BY <1>1, <1>5, <1>6 DEF SharedInv
  <2>3. newest' \in Tabs \cup {NoTab}
    BY <1>1, <1>5 DEF SharedInv
  <2>4. newest' # NoTab => tabs'[newest'].token = jar' \/ Dropped
    <3>1. tabs \in [Tabs -> Tab]
      BY DEF ApiInv
    <3>2. CASE handed
      <4>1. newest' = t /\ tabs'[t].token = v.answer
        BY <1>2, <1>4, <1>5, <1>9, <3>1, <3>2
      <4> QED
        BY <1>1, <1>5, <3>2, <4>1 DEF Dropped, SharedInv
    <3>3. CASE ~handed
      <4>1. UNCHANGED <<jar, newest>> /\ w.token = v.token
        BY <1>2, <1>5, <1>9, <3>3
      <4>2. \A u \in Tabs : tabs'[u].token = tabs[u].token
        BY <1>4, <3>1, <4>1
      <4> QED
        BY <1>1, <4>1, <4>2 DEF SharedInv
    <3> QED
      BY <3>2, <3>3
  <2> QED
    BY <1>1, <1>14, <2>1, <2>2, <2>3, <2>4 DEF SharedInv, Grown
<1> QED
  BY <1>4, <1>6, <1>12, <1>13, <1>14, <1>15, <1>16, StepKept

-----------------------------------------------------------------------------
(* The theorems.                                                           *)

LEMMA ApiStarts == Init => ApiInv
<1> SUFFICES ASSUME Init PROVE ApiInv
  OBVIOUS
<1> DEFINE v == [pc |-> "idle", request |-> NoRequest, cookie |-> NoToken,
                 header |-> NoToken, token |-> NoToken, latest |-> FALSE, status |-> 0,
                 answer |-> 0, rows |-> <<>>, scan |-> NoScan]
<1>1. HostInv
  BY HostStarts DEF Init
<1>2. SharedInv
  BY TablesAssumption DEF Init, ApiInit, SharedInv, NoToken
<1>3. v \in Tab
  <2>1. issued = 0 /\ <<>> \in Seq(DOMAIN mails)
    BY DEF Init, ApiInit
  <2> QED
    BY <2>1 DEF Tab, Statuses, NoToken, NoScan
<1>4. \A t \in Tabs : TabLocal(t, v) /\ TokenLocal(v)
  BY <1>3 DEF TabLocal, TokenLocal, CsrfLocal, ScanLocal, NoScan
<1>5. tabs = [t \in Tabs |-> v]
  BY DEF Init, ApiInit
<1> HIDE DEF v
<1> QED
  BY <1>1, <1>2, <1>3, <1>4, <1>5 DEF ApiInv

LEMMA ApiKept == ApiInv /\ [Next]_vars => ApiInv'
<1> SUFFICES ASSUME ApiInv, [Next]_vars PROVE ApiInv'
  OBVIOUS
<1>1. CASE Start
  BY <1>1, StartKept
<1>2. CASE Settle
  BY <1>2, SettleKept
<1>3. CASE UNCHANGED vars
  BY <1>3, IdleKept
<1>4. ASSUME NEW t \in Tabs, TabStep(t)
      PROVE  ApiInv'
  BY <1>4, AskKept, RefuseKept, IssueTokenKept, HealthKept, ExposeKept, DetailKept,
     SuppressionKept, PreviewKept, EnqueueKept, RetryKept, WebhookKept, ListRowsKept,
     ListCountKept, ReceiveKept DEF TabStep
<1> QED
  BY <1>1, <1>2, <1>3, <1>4 DEF Next

LEMMA ApiInvariant == Spec => []ApiInv
  BY ApiStarts, ApiKept, PTL DEF Spec

\* The state of the host, of the table and of every tab stays in its type,
\* however many tabs, requests, mails and tokens there are.
THEOREM ApiTyped == Spec => []TypeOK
<1>1. ApiInv => TypeOK
  BY DEF ApiInv, SharedInv, HostInv, TypeOK
<1> QED
  BY <1>1, ApiInvariant, PTL

\* A host that serves requests listens as validated, and what main.ts checks
\* once more never stopped it: the steps of clients do not reach the host.
THEOREM ServesAsValidated == Spec => [](ListensAsValidated /\ LateChecksNeverFire)
<1>1. ApiInv => ListensAsValidated /\ LateChecksNeverFire
  BY HostValidated DEF ApiInv, HostInv, LateChecksNeverFire
<1> QED
  BY <1>1, ApiInvariant, PTL

\* However the tabs of a browser interleave, the token of a page is refused only
\* after another page was given one, or without the cookie.
THEOREM OvertakenTabs == Spec => []OnlyOvertakenTabsAreRefused
<1>1. ApiInv => OnlyOvertakenTabsAreRefused
  BY DEF ApiInv, TabLocal, CsrfLocal, OnlyOvertakenTabsAreRefused, Request, Dropped
<1> QED
  BY <1>1, ApiInvariant, PTL

\* A scan of the list misses only mails that share their moment of creation, for
\* any length of a page, any table and any mails that are added meanwhile.
THEOREM ScansComplete == Spec => []ScanSeesAll
<1>1. ASSUME ApiInv, NEW t \in Tabs, tabs[t].scan.page = 0,
             \A q \in Asks[scenario][t] : q.route = "list" => q.body.filter = "any",
             NEW m \in tabs[t].scan.start \ tabs[t].scan.seen
      PROVE  \E n \in DOMAIN mails : n # m /\ mails[n].at = mails[m].at
  <2> DEFINE v == tabs[t]
  <2>1. TabLocal(t, v) /\ ScanLocal(t, v) /\ v \in Tab
    BY <1>1 DEF ApiInv, TabLocal
  <2>2. PICK q \in Asks[scenario][t] : q.route = "list" /\ q.body.filter = "any"
    BY <1>1, <2>1 DEF ScanLocal
  <2>3. CASE Unique(m)
    <3>1. Reached(v, q, m)
      BY <1>1, <2>1, <2>2, <2>3 DEF ScanLocal
    <3>2. ~Fetched(v)
      BY <1>1, <2>1 DEF Fetched, TabLocal
    <3> QED
      BY <1>1, <3>1, <3>2 DEF Reached
  <2>4. CASE ~Unique(m)
    BY <2>4 DEF Unique
  <2> QED
    BY <2>3, <2>4
<1>2. ApiInv => ScanSeesAll
  BY <1>1 DEF ScanSeesAll
<1> QED
  BY <1>2, ApiInvariant, PTL

\* Every mail in the table can be sent.
THEOREM DeliverableRows == Spec => []RowsAreDeliverable
<1>1. ApiInv => RowsAreDeliverable
  BY DEF ApiInv, SharedInv, RowsAreDeliverable
<1> QED
  BY <1>1, ApiInvariant, PTL
=============================================================================
