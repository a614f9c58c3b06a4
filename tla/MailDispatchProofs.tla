------------------------- MODULE MailDispatchProofs -------------------------
(***************************************************************************)
(* Proofs about MailDispatch, for any number of hosts, lanes, mails and    *)
(* operators, any batch size and any bound on the faults.                  *)
(***************************************************************************)
EXTENDS MailDispatch, FiniteSetTheorems, TLAPS

\* Every write of the mail module keeps a row a row, whatever it was before.
LEMMA WorkerWritesTyped ==
    ASSUME NEW row \in Row, NEW n \in Nodes, NEW k \in Nat, NEW j \in Nat
    PROVE  /\ ClaimWrite(row, n) \in Row
           /\ SentWrite(row, k, n) \in Row
           /\ FailureWrite(row, k, j, n) \in Row
<1>1. /\ {"pending", "processing", "sent", "failed"} \subseteq Statuses
      /\ {"null", "future", "due"} \subseteq DueTimes
  BY DEF Statuses, DueTimes
<1>2. k + 1 \in Nat /\ n \in Nodes \cup {NoNode}
  OBVIOUS
<1>3. ClaimWrite(row, n) \in Row
  BY <1>1, <1>2 DEF ClaimWrite, Row
<1>4. SentWrite(row, k, n) \in Row
  BY <1>1, <1>2 DEF SentWrite, Row
<1>5. FailureWrite(row, k, j, n) \in Row
  <2>1. ShouldRetry(k, j) \in BOOLEAN
    BY DEF ShouldRetry
  <2> QED
    BY <1>1, <1>2, <2>1 DEF FailureWrite, Row
<1> QED
  BY <1>3, <1>4, <1>5

LEMMA HandlerWritesTyped ==
    ASSUME NEW row \in Row, NEW k \in Nat, NEW event \in DeliveryEvents
    PROVE  RequeueWrite(row, k) \in Row /\ DeliveryWrite(row, event) \in Row
<1>1. /\ {"pending", "sent", "failed"} \subseteq Statuses /\ "due" \in DueTimes
      /\ k + 1 \in Nat /\ NoNode \in Nodes \cup {NoNode}
  BY DEF Statuses, DueTimes
<1>2. RequeueWrite(row, k) \in Row
  BY <1>1 DEF RequeueWrite, Row
<1>3. DeliveryWrite(row, event) \in Row
  BY <1>1 DEF DeliveryWrite, Row
<1> QED
  BY <1>2, <1>3

LEMMA NewRowTyped ==
    ASSUME NEW p \in Priorities, NEW k \in Nat, NEW at \in DueTimes
    PROVE  NewRow(p, k, at) \in Row /\ AbsentRow(p) \in Row
  BY DEF NewRow, AbsentRow, Row, Statuses, DueTimes

-----------------------------------------------------------------------------
\* Type correctness, one lemma per group of actions.

LEMMA ClockTyped ==
    ASSUME TypeOK, NEW m \in Mails, Create(m) \/ BecomeDue(m)
    PROVE  TypeOK'
<1>1. rows' \in [Mails -> Row]
  <2>1. CASE Create(m)
    <3>1. PICK max \in MaxAttemptsChoices, at \in {"future", "due"} :
             rows' = [rows EXCEPT ![m] = NewRow(rows[m].priority, max, at)]
      BY <2>1 DEF Create
    <3>2. rows[m].priority \in Priorities /\ max \in Nat /\ at \in DueTimes
      BY MaxAttemptsAssumption DEF TypeOK, Row, DueTimes
    <3> QED
      BY <3>1, <3>2, NewRowTyped DEF TypeOK
  <2>2. CASE BecomeDue(m)
    <3>1. [rows[m] EXCEPT !.nextAttemptAt = "due"] \in Row
      <4>1. "due" \in DueTimes /\ rows[m] \in Row
        BY DEF DueTimes, TypeOK
      <4> QED
        BY <4>1 DEF Row
    <3> QED
      BY <2>2, <3>1 DEF BecomeDue, TypeOK
  <2> QED
    BY <2>1, <2>2
<1> QED
  BY <1>1 DEF TypeOK, Create, BecomeDue

\* What the two ways to change a lane do to the type of lanes.
LEMMA LanesTyped ==
    ASSUME lanes \in [Nodes -> [Lanes -> Lane]], NEW n \in Nodes, NEW l \in Lanes
    PROVE  /\ \A lane \in Lane : SetLane(n, l, lane) => lanes' \in [Nodes -> [Lanes -> Lane]]
           /\ \A pc \in LanePcs \ {"free", "dead"} :
                 lanes[n][l].pc \notin {"free", "dead"} /\ MoveLane(n, l, pc) =>
                    lanes' \in [Nodes -> [Lanes -> Lane]]
<1>1. ASSUME NEW lane \in Lane, SetLane(n, l, lane)
      PROVE  lanes' \in [Nodes -> [Lanes -> Lane]]
  BY <1>1 DEF SetLane
<1>2. ASSUME NEW pc \in LanePcs \ {"free", "dead"},
             lanes[n][l].pc \notin {"free", "dead"}, MoveLane(n, l, pc)
      PROVE  lanes' \in [Nodes -> [Lanes -> Lane]]
  <2>1. [lanes[n][l] EXCEPT !.pc = pc] \in Lane
    <3>1. lanes[n][l] \in Lane
      OBVIOUS
    <3> QED
      BY <1>2, <3>1 DEF Lane, LaneRecord
  <2>2. lanes' = [lanes EXCEPT ![n] = [lanes[n] EXCEPT ![l] = [lanes[n][l] EXCEPT !.pc = pc]]]
    BY <1>2 DEF MoveLane
  <2> QED
    BY <2>1, <2>2
<1> QED
  BY <1>1, <1>2

LEMMA FreeLaneTyped == FreeLane \in Lane /\ DeadLane \in Lane
  BY MailsAssumption DEF FreeLane, DeadLane, Lane, LaneRecord, LanePcs

LEMMA InitTyped == Init => TypeOK
<1> SUFFICES ASSUME Init PROVE TypeOK
  OBVIOUS
<1>1. rows \in [Mails -> Row]
  BY NewRowTyped DEF Init, DueTimes
<1>2. QED
  BY <1>1, FreeLaneTyped DEF Init, TypeOK, NoRequest

LEMMA FaultTyped ==
    ASSUME faults \in [{"crash", "db", "lostReply", "receipt"} -> Nat],
           NEW kind \in {"crash", "db", "lostReply", "receipt"}, NEW max, Fault(kind, max)
    PROVE  faults' \in [{"crash", "db", "lostReply", "receipt"} -> Nat]
  BY DEF Fault

LEMMA UpdateTyped ==
    ASSUME rows \in [Mails -> Row], NEW m \in Mails, NEW row \in Row, Update(m, row)
    PROVE  rows' \in [Mails -> Row]
  BY DEF Update

LEMMA UnlockTyped ==
    ASSUME rowLock \in [Mails -> Nodes \cup {NoNode}], NEW n \in Nodes, Unlock(n)
    PROVE  rowLock' \in [Mails -> Nodes \cup {NoNode}]
  BY DEF Unlock

\* A selection is a sequence of distinct candidates, as long as the batch size
\* and the number of candidates allow.
LEMMA SelectionTyped ==
    ASSUME NEW C \in SUBSET Mails, NEW q \in Selections(C)
    PROVE  \E k \in Nat : /\ q \in [1..k -> C]
                          /\ \A i, j \in 1..k : i # j => q[i] # q[j]
<1>1. Cardinality(C) \in Nat
  BY MailsAssumption, FS_Subset, FS_CardinalityType
<1> QED
  BY <1>1, BatchSizeAssumption DEF Selections

LEMMA SelectTyped ==
    ASSUME TypeOK, NEW n \in Nodes, Select(n)
    PROVE  TypeOK'
<1>1. PICK q \in Selections(Candidates) :
         /\ batch' = [batch EXCEPT ![n] = [i \in DOMAIN q |-> JobOf(q[i])]]
         /\ rowLock' = [m \in Mails |->
               IF \E i \in DOMAIN q : q[i] = m THEN n ELSE rowLock[m]]
  BY DEF Select
<1>2. PICK k \in Nat : q \in [1..k -> Candidates]
  BY SelectionTyped DEF Candidates
<1>3. \A m \in Mails : JobOf(m) \in Job
  BY DEF JobOf, Job, TypeOK, Row
<1>4. [i \in DOMAIN q |-> JobOf(q[i])] \in Seq(Job)
  <2>1. \A i \in 1..k : q[i] \in Mails
    BY <1>2 DEF Candidates
  <2>2. [i \in DOMAIN q |-> JobOf(q[i])] \in [1..k -> Job]
    BY <1>2, <1>3, <2>1
  <2> QED
    BY <2>2
<1>5. batch' \in [Nodes -> Seq(Job)]
  BY <1>1, <1>4 DEF TypeOK
<1>6. rowLock' \in [Mails -> Nodes \cup {NoNode}]
  BY <1>1 DEF TypeOK
<1>7. tick' \in [Nodes -> {"idle", "claiming", "selected", "running"}]
  BY DEF Select, TypeOK
<1> QED
  BY <1>5, <1>6, <1>7 DEF Select, TypeOK

LEMMA ClaimRowsTyped ==
    ASSUME TypeOK, NEW n \in Nodes, ClaimRows(n)
    PROVE  /\ rows' \in [Mails -> Row]
           /\ claims' \in [Mails -> Nat]
           /\ rowLock' \in [Mails -> Nodes \cup {NoNode}]
<1>1. \A m \in Mails : ClaimWrite(rows[m], n) \in Row
  <2> TAKE m \in Mails
  <2>1. rows[m] \in Row /\ 0 \in Nat
    BY DEF TypeOK
  <2> QED
    BY <2>1, WorkerWritesTyped
<1>2. rows' \in [Mails -> Row]
  BY <1>1 DEF ClaimRows, TypeOK
<1> QED
  BY <1>2, UnlockTyped DEF ClaimRows, TypeOK

\* The steps of a tick outside its lanes.
LEMMA TickTyped ==
    ASSUME TypeOK, NEW n \in Nodes,
           \/ TickStart(n) \/ ClaimStep(n) \/ TickEnd(n)
           \/ ClaimFails(n) \/ CommitAnswerLost(n) \/ Crash(n)
    PROVE  TypeOK'
<1>1. <<>> \in Seq(Job) /\ [l \in Lanes |-> FreeLane] \in [Lanes -> Lane]
  BY FreeLaneTyped
<1>2. CASE TickStart(n)
  BY <1>2 DEF TickStart, TypeOK
<1>3. CASE Select(n)
  BY <1>3, SelectTyped
<1>4. CASE SelectNone(n)
  BY <1>4 DEF SelectNone, TypeOK
<1>5. CASE Commit(n)
  <2>1. tick' \in [Nodes -> {"idle", "claiming", "selected", "running"}]
    BY <1>5 DEF Commit, TypeOK
  <2> QED
    BY <1>5, <2>1, ClaimRowsTyped DEF Commit, TypeOK
<1>6. CASE TickEnd(n)
  BY <1>6, <1>1 DEF TickEnd, TypeOK
<1>7. CASE ClaimFails(n)
  <2>1. tick' \in [Nodes -> {"idle", "claiming", "selected", "running"}]
    BY <1>7 DEF ClaimFails, TypeOK
  <2>2. faults' \in [{"crash", "db", "lostReply", "receipt"} -> Nat]
    BY <1>7, FaultTyped DEF ClaimFails, TypeOK
  <2>3. batch' \in [Nodes -> Seq(Job)]
    BY <1>7, <1>1 DEF ClaimFails, TypeOK
  <2> QED
    BY <1>7, <2>1, <2>2, <2>3, UnlockTyped DEF ClaimFails, TypeOK
<1>8. CASE CommitAnswerLost(n)
  <2>1. tick' \in [Nodes -> {"idle", "claiming", "selected", "running"}]
    BY <1>8 DEF CommitAnswerLost, TypeOK
  <2>2. faults' \in [{"crash", "db", "lostReply", "receipt"} -> Nat]
    BY <1>8, FaultTyped DEF CommitAnswerLost, TypeOK
  <2>3. batch' \in [Nodes -> Seq(Job)]
    BY <1>8, <1>1 DEF CommitAnswerLost, TypeOK
  <2> QED
    BY <1>8, <2>1, <2>2, <2>3, ClaimRowsTyped DEF CommitAnswerLost, TypeOK
<1>9. CASE Crash(n)
  <2>1. tick' \in [Nodes -> {"idle", "claiming", "selected", "running"}]
    BY <1>9 DEF Crash, TypeOK
  <2>2. faults' \in [{"crash", "db", "lostReply", "receipt"} -> Nat]
    BY <1>9, FaultTyped DEF Crash, TypeOK
  <2>3. batch' \in [Nodes -> Seq(Job)] /\ lanes' \in [Nodes -> [Lanes -> Lane]]
    BY <1>9, <1>1 DEF Crash, TypeOK
  <2> QED
    BY <1>9, <2>1, <2>2, <2>3, UnlockTyped DEF Crash, TypeOK
<1> QED
  BY <1>2, <1>3, <1>4, <1>5, <1>6, <1>7, <1>8, <1>9 DEF ClaimStep

\* The steps of a lane and its faults.
LEMMA LaneStepTyped ==
    ASSUME TypeOK, NEW n \in Nodes, NEW l \in Lanes, LaneStep(n, l) \/ LaneFault(n, l)
    PROVE  TypeOK'
<1> DEFINE lane == lanes[n][l]
           m == lane.mail
<1>1. /\ lane \in LaneRecord /\ lane.attempts \in Nat /\ lane.maxAttempts \in Nat
      /\ lane.read \in Nat /\ (lane.pc \notin {"free", "dead"} => m \in Mails)
  <2>1. lane \in Lane
    BY DEF TypeOK
  <2> QED
    BY <2>1 DEF Lane, LaneRecord
<1>2. {"sending", "sentRead", "sentWrite", "sentReread", "failWrite",
       "failReread"} \subseteq LanePcs \ {"free", "dead"}
  BY DEF LanePcs
<1>3. /\ \A pc \in LanePcs \ {"free", "dead"} :
            lane.pc \notin {"free", "dead"} /\ MoveLane(n, l, pc) =>
               lanes' \in [Nodes -> [Lanes -> Lane]]
      /\ \A x \in Lane : SetLane(n, l, x) => lanes' \in [Nodes -> [Lanes -> Lane]]
  BY LanesTyped DEF TypeOK
<1>4. \A k \in Mails : /\ rows[k] \in Row /\ rows[k].attempts \in Nat
                        /\ SentWrite(rows[k], lane.read, n) \in Row
                        /\ FailureWrite(rows[k], lane.attempts, lane.maxAttempts, n) \in Row
  <2> TAKE k \in Mails
  <2>1. rows[k] \in Row
    BY DEF TypeOK
  <2>2. rows[k].attempts \in Nat
    BY <2>1 DEF Row
  <2> HIDE DEF lane
  <2>3. /\ SentWrite(rows[k], lane.read, n) \in Row
        /\ FailureWrite(rows[k], lane.attempts, lane.maxAttempts, n) \in Row
    BY <1>1, <2>1, WorkerWritesTyped
  <2> QED
    BY <2>1, <2>2, <2>3
<1>5. CASE TakeJob(n, l)
  <2> DEFINE job == Head(batch[n])
  <2>1. job \in Job /\ Tail(batch[n]) \in Seq(Job)
    BY <1>5 DEF TakeJob, TypeOK
  <2>2. [pc |-> "sending", mail |-> job.mail, attempts |-> job.attempts,
         maxAttempts |-> job.maxAttempts, read |-> 0] \in Lane
    BY <2>1, <1>2 DEF Job, Lane, LaneRecord
  <2>3. lanes' \in [Nodes -> [Lanes -> Lane]]
    BY <1>5, <2>2, <1>3 DEF TakeJob
  <2>4. batch' \in [Nodes -> Seq(Job)]
    BY <1>5, <2>1 DEF TakeJob, TypeOK
  <2> QED
    BY <1>5, <2>3, <2>4 DEF TakeJob, TypeOK
<1>6. CASE SendAccepted(n, l)
  <2>1. lanes' \in [Nodes -> [Lanes -> Lane]]
    BY <1>6, <1>2, <1>3 DEF SendAccepted
  <2>2. accepted' \in [Mails -> Nat]
    <3>1. m \in Mails /\ accepted' = [accepted EXCEPT ![m] = accepted[m] + 1]
      BY <1>6, <1>1 DEF SendAccepted
    <3> HIDE DEF m
    <3> QED
      BY <3>1 DEF TypeOK
  <2> QED
    BY <1>6, <2>1, <2>2 DEF SendAccepted, TypeOK
<1>7. CASE SendRejected(n, l)
  <2>1. lanes' \in [Nodes -> [Lanes -> Lane]]
    BY <1>7, <1>2, <1>3 DEF SendRejected
  <2> QED
    BY <1>7, <2>1 DEF SendRejected, TypeOK
<1>8. CASE SendReplyLost(n, l)
  <2>1. lanes' \in [Nodes -> [Lanes -> Lane]]
    BY <1>8, <1>2, <1>3 DEF SendReplyLost
  <2>2. accepted' \in [Mails -> Nat]
    <3>1. m \in Mails /\ accepted' = [accepted EXCEPT ![m] = accepted[m] + 1]
      BY <1>8, <1>1 DEF SendReplyLost
    <3> HIDE DEF m
    <3> QED
      BY <3>1 DEF TypeOK
  <2>3. faults' \in [{"crash", "db", "lostReply", "receipt"} -> Nat]
    BY <1>8, FaultTyped DEF SendReplyLost, TypeOK
  <2> QED
    BY <1>8, <2>1, <2>2, <2>3 DEF SendReplyLost, TypeOK
<1>9. CASE MarkAsSentRead(n, l)
  <2>1. [lane EXCEPT !.pc = "sentWrite", !.read = rows[m].attempts] \in Lane
    <3>1. lane.pc = "sentRead" /\ m \in Mails /\ rows[m].attempts \in Nat
      BY <1>9, <1>1, <1>4 DEF MarkAsSentRead
    <3> HIDE DEF lane
    <3> QED
      BY <3>1, <1>1, <1>2 DEF Lane, LaneRecord
  <2>2. lanes' = [lanes EXCEPT ![n] = [lanes[n] EXCEPT ![l] =
                    [lane EXCEPT !.pc = "sentWrite", !.read = rows[m].attempts]]]
    BY <1>9 DEF MarkAsSentRead, TypeOK
  <2>3. lanes' \in [Nodes -> [Lanes -> Lane]]
    BY <2>1, <2>2 DEF TypeOK
  <2> QED
    BY <1>9, <2>3 DEF MarkAsSentRead, TypeOK
<1>10. CASE MarkAsSentWrite(n, l)
  <2>1. lanes' \in [Nodes -> [Lanes -> Lane]]
    BY <1>10, <1>2, <1>3 DEF MarkAsSentWrite
  <2>2. rows' \in [Mails -> Row]
    BY <1>10, <1>1, <1>4 DEF MarkAsSentWrite, Update, TypeOK
  <2> QED
    BY <1>10, <2>1, <2>2 DEF MarkAsSentWrite, TypeOK
<1>11. CASE MarkAsFailureWrite(n, l)
  <2>1. lanes' \in [Nodes -> [Lanes -> Lane]]
    BY <1>11, <1>2, <1>3 DEF MarkAsFailureWrite
  <2>2. rows' \in [Mails -> Row]
    BY <1>11, <1>1, <1>4 DEF MarkAsFailureWrite, Update, TypeOK
  <2> QED
    BY <1>11, <2>1, <2>2 DEF MarkAsFailureWrite, TypeOK
<1>12. CASE JobDone(n, l)
  BY <1>12, <1>3, FreeLaneTyped DEF JobDone, TypeOK
<1>13. CASE SentQueryFails(n, l)
  <2>1. lanes' \in [Nodes -> [Lanes -> Lane]]
    BY <1>13, <1>2, <1>3 DEF SentQueryFails
  <2>2. faults' \in [{"crash", "db", "lostReply", "receipt"} -> Nat]
    BY <1>13, FaultTyped DEF SentQueryFails, TypeOK
  <2> QED
    BY <1>13, <2>1, <2>2 DEF SentQueryFails, TypeOK
<1>14. CASE FailureQueryFails(n, l)
  <2>1. lanes' \in [Nodes -> [Lanes -> Lane]]
    BY <1>14, <1>3, FreeLaneTyped DEF FailureQueryFails
  <2>2. faults' \in [{"crash", "db", "lostReply", "receipt"} -> Nat]
    BY <1>14, FaultTyped DEF FailureQueryFails, TypeOK
  <2> QED
    BY <1>14, <2>1, <2>2 DEF FailureQueryFails, TypeOK
<1> QED
  BY <1>5, <1>6, <1>7, <1>8, <1>9, <1>10, <1>11, <1>12, <1>13, <1>14
     DEF LaneStep, LaneFault

\* The HTTP handlers.
LEMMA HandlersTyped ==
    ASSUME TypeOK,
           \/ \E m \in Mails, event \in DeliveryEvents : Webhook(m, event)
           \/ \E o \in Operators : RequeueUpdate(o) \/ \E m \in Mails : RequeueCheck(o, m)
    PROVE  TypeOK'
<1>1. CASE \E m \in Mails, event \in DeliveryEvents : Webhook(m, event)
  <2>1. PICK m \in Mails, event \in DeliveryEvents : Webhook(m, event)
    BY <1>1
  <2>2. DeliveryWrite(rows[m], event) \in Row
    <3>1. rows[m] \in Row /\ 0 \in Nat
      BY DEF TypeOK
    <3> QED
      BY <3>1, HandlerWritesTyped
  <2>3. rows' \in [Mails -> Row]
    BY <2>1, <2>2, UpdateTyped DEF Webhook, TypeOK
  <2>4. faults' \in [{"crash", "db", "lostReply", "receipt"} -> Nat]
    BY <2>1, FaultTyped DEF Webhook, TypeOK
  <2> QED
    BY <2>1, <2>3, <2>4 DEF Webhook, TypeOK
<1>2. CASE \E o \in Operators, m \in Mails : RequeueCheck(o, m)
  <2>1. PICK o \in Operators, m \in Mails : RequeueCheck(o, m)
    BY <1>2
  <2>2. rows[m].attempts \in Nat
    BY DEF TypeOK, Row
  <2> QED
    BY <2>1, <2>2 DEF RequeueCheck, TypeOK
<1>3. CASE \E o \in Operators : RequeueUpdate(o)
  <2>1. PICK o \in Operators : RequeueUpdate(o)
    BY <1>3
  <2> DEFINE m == requests[o].mail
  <2>2. requests[o].read \in Nat
    BY DEF TypeOK
  <2>3. rows' \in [Mails -> Row]
    <3>1. rows' = [rows EXCEPT ![m] = RequeueWrite(rows[m], requests[o].read)]
      BY <2>1 DEF RequeueUpdate, Update
    <3>2. ASSUME m \in Mails PROVE RequeueWrite(rows[m], requests[o].read) \in Row
      <4>1. rows[m] \in Row
        BY <3>2 DEF TypeOK
      <4>2. "opened" \in DeliveryEvents
        BY DEF DeliveryEvents
      <4> QED
        BY <4>1, <4>2, <2>2, HandlerWritesTyped
    <3> QED
      BY <3>1, <3>2 DEF TypeOK
  <2>4. requests' \in [Operators ->
          [pc : {"idle", "checked", "done"}, mail : Mails \cup {NoMail}, read : Nat]]
    BY <2>1 DEF RequeueUpdate, TypeOK
  <2> QED
    BY <2>1, <2>3, <2>4 DEF RequeueUpdate, TypeOK
<1> QED
  BY <1>1, <1>2, <1>3

LEMMA NextTyped == TypeOK /\ [Next]_vars => TypeOK'
<1> SUFFICES ASSUME TypeOK, [Next]_vars PROVE TypeOK'
  OBVIOUS
<1>1. CASE \E m \in Mails : Create(m) \/ BecomeDue(m)
  BY <1>1, ClockTyped
<1>2. CASE \E n \in Nodes : \/ TickStart(n) \/ ClaimStep(n) \/ TickEnd(n)
                           \/ ClaimFails(n) \/ CommitAnswerLost(n) \/ Crash(n)
  BY <1>2, TickTyped
<1>3. CASE \E n \in Nodes, l \in Lanes : LaneStep(n, l) \/ LaneFault(n, l)
  BY <1>3, LaneStepTyped
<1>4. CASE \/ \E m \in Mails, event \in DeliveryEvents : Webhook(m, event)
           \/ \E o \in Operators : RequeueUpdate(o) \/ \E m \in Mails : RequeueCheck(o, m)
  BY <1>4, HandlersTyped
<1>5. CASE UNCHANGED vars
  BY <1>5 DEF vars, TypeOK
<1> QED
  BY <1>1, <1>2, <1>3, <1>4, <1>5 DEF Next

\* Type correctness: whatever interleaving of hosts, faults and HTTP handlers,
\* every variable keeps the shape MailDispatch gives it; in particular a lane
\* between two awaits of processJob always has its mail.
THEOREM TypeCorrect == Spec => []TypeOK
  BY InitTyped, NextTyped, PTL DEF Spec

-----------------------------------------------------------------------------
\* A row whose columns agree with its status, and every write that keeps it so.
Consistent(row) ==
    /\ row.status = "pending" => row.nextAttemptAt # "null" /\ ~row.lockedAt
    /\ row.status = "processing" => row.lockedAt /\ row.processingNode # NoNode
    /\ row.status = "sent" => row.sentAt /\ ~row.lastError
    /\ row.status = "failed" => row.failedAt /\ row.lastError

LEMMA WorkerWritesConsistent ==
    ASSUME NEW row \in Row, Consistent(row), NEW n \in Nodes, NEW k \in Nat, NEW j \in Nat
    PROVE  /\ Consistent(ClaimWrite(row, n))
           /\ Consistent(SentWrite(row, k, n))
           /\ Consistent(FailureWrite(row, k, j, n))
<1>1. Consistent(ClaimWrite(row, n))
  BY NoNodeAssumption DEF Consistent, ClaimWrite, Row
<1>2. Consistent(SentWrite(row, k, n))
  BY DEF Consistent, SentWrite, Row
<1>3. Consistent(FailureWrite(row, k, j, n))
  BY DEF Consistent, FailureWrite, Row
<1> QED
  BY <1>1, <1>2, <1>3

LEMMA HandlerWritesConsistent ==
    ASSUME NEW row \in Row, Consistent(row), NEW k \in Nat, NEW event \in DeliveryEvents
    PROVE  Consistent(RequeueWrite(row, k)) /\ Consistent(DeliveryWrite(row, event))
<1>1. Consistent(RequeueWrite(row, k))
  BY DEF Consistent, RequeueWrite, Row
<1>2. Consistent(DeliveryWrite(row, event))
  BY DEF Consistent, DeliveryWrite, Row
<1> QED
  BY <1>1, <1>2

\* Every way in which one step may change one row, with what is known of the
\* row's lock: only a claim transaction writes to a row that is locked.
UpdatedRow(m) == \E n \in Nodes, l \in Lanes :
    /\ lanes[n][l].mail = m
    /\ \/ /\ MarkAsSentWrite(n, l)
          /\ \E k \in Nat : rows'[m] = SentWrite(rows[m], k, n)
       \/ /\ MarkAsFailureWrite(n, l)
          /\ rows'[m] = FailureWrite(rows[m], lanes[n][l].attempts,
                                     lanes[n][l].maxAttempts, n)
HandledRow(m) ==
    \/ Operators # {} /\ \E k \in Nat : rows'[m] = RequeueWrite(rows[m], k)
    \/ /\ MaxReceipts # 0 /\ Exists(m)
       /\ \E event \in DeliveryEvents :
             Webhook(m, event) /\ rows'[m] = DeliveryWrite(rows[m], event)

RowStep(m) ==
    \/ rows'[m] = rows[m]
    \/ /\ ~Exists(m)
       /\ \E k \in Nat \ {0}, at \in {"future", "due"} :
             rows'[m] = NewRow(rows[m].priority, k, at)
    \/ /\ rows[m].nextAttemptAt = "future"
       /\ rows'[m] = [rows[m] EXCEPT !.nextAttemptAt = "due"]
    \/ \E n \in Nodes : /\ rowLock[m] = n
                        /\ Commit(n) \/ CommitAnswerLost(n)
                        /\ rows'[m] = ClaimWrite(rows[m], n)
    \/ rowLock[m] = NoNode /\ UpdatedRow(m)
    \/ rowLock[m] = NoNode /\ HandledRow(m)

LEMMA RowSteps ==
    ASSUME TypeOK, [Next]_vars, NEW m \in Mails
    PROVE  RowStep(m)
<1>1. CASE \E x \in Mails : Create(x)
  <2>1. PICK x \in Mails : Create(x)
    BY <1>1
  <2>2. PICK k \in MaxAttemptsChoices, at \in {"future", "due"} :
           rows' = [rows EXCEPT ![x] = NewRow(rows[x].priority, k, at)]
    BY <2>1 DEF Create
  <2>3. k \in Nat \ {0}
    BY MaxAttemptsAssumption
  <2> QED
    BY <2>1, <2>2, <2>3 DEF Create, RowStep, TypeOK
<1>2. CASE \E x \in Mails : BecomeDue(x)
  <2>1. PICK x \in Mails : BecomeDue(x)
    BY <1>2
  <2>2. rows' = [rows EXCEPT ![x] = [rows[x] EXCEPT !.nextAttemptAt = "due"]]
    BY <2>1 DEF BecomeDue
  <2> QED
    BY <2>1, <2>2 DEF BecomeDue, RowStep, TypeOK
<1>3. CASE \E n \in Nodes : Commit(n) \/ CommitAnswerLost(n)
  <2>1. PICK n \in Nodes : Commit(n) \/ CommitAnswerLost(n)
    BY <1>3
  <2>2. ClaimRows(n)
    BY <2>1 DEF Commit, CommitAnswerLost
  <2> QED
    BY <2>1, <2>2 DEF ClaimRows, Locked, RowStep
<1>4. CASE \E n \in Nodes, l \in Lanes : MarkAsSentWrite(n, l) \/ MarkAsFailureWrite(n, l)
  <2>1. PICK n \in Nodes, l \in Lanes : MarkAsSentWrite(n, l) \/ MarkAsFailureWrite(n, l)
    BY <1>4
  <2> DEFINE lane == lanes[n][l]
             x == lane.mail
  <2>2. lane.attempts \in Nat /\ lane.maxAttempts \in Nat /\ lane.read \in Nat
    <3>1. lane \in Lane
      BY DEF TypeOK
    <3> QED
      BY <3>1 DEF Lane, LaneRecord
  <2>3. /\ rowLock[x] = NoNode
        /\ \/ /\ MarkAsSentWrite(n, l)
              /\ rows' = [rows EXCEPT ![x] = SentWrite(rows[x], lane.read, n)]
           \/ /\ MarkAsFailureWrite(n, l)
              /\ rows' = [rows EXCEPT ![x] =
                             FailureWrite(rows[x], lane.attempts, lane.maxAttempts, n)]
    BY <2>1 DEF MarkAsSentWrite, MarkAsFailureWrite, Update
  <2>4. CASE x = m
    <3>1. UpdatedRow(m)
      BY <2>2, <2>3, <2>4 DEF UpdatedRow, TypeOK
    <3> QED
      BY <2>3, <2>4, <3>1 DEF RowStep
  <2>5. CASE x # m
    BY <2>3, <2>5 DEF RowStep, TypeOK
  <2> QED
    BY <2>4, <2>5
<1>5. CASE \E x \in Mails, event \in DeliveryEvents : Webhook(x, event)
  <2>1. PICK x \in Mails, event \in DeliveryEvents : Webhook(x, event)
    BY <1>5
  <2>2. MaxReceipts # 0 /\ Exists(x)
    BY <2>1 DEF Webhook, Fault, TypeOK
  <2>3. rowLock[x] = NoNode /\ rows' = [rows EXCEPT ![x] = DeliveryWrite(rows[x], event)]
    BY <2>1 DEF Webhook, Update
  <2>4. CASE x = m
    BY <2>1, <2>2, <2>3, <2>4 DEF RowStep, HandledRow, TypeOK
  <2>5. CASE x # m
    BY <2>3, <2>5 DEF RowStep, TypeOK
  <2> QED
    BY <2>4, <2>5
<1>6. CASE \E o \in Operators : RequeueUpdate(o)
  <2>1. PICK o \in Operators : RequeueUpdate(o)
    BY <1>6
  <2> DEFINE x == requests[o].mail
             k == requests[o].read
  <2>2. k \in Nat
    BY DEF TypeOK
  <2>3. rowLock[x] = NoNode /\ rows' = [rows EXCEPT ![x] = RequeueWrite(rows[x], k)]
    BY <2>1 DEF RequeueUpdate, Update
  <2>4. CASE x = m
    BY <2>2, <2>3, <2>4 DEF RowStep, HandledRow, TypeOK
  <2>5. CASE x # m
    BY <2>3, <2>5 DEF RowStep, TypeOK
  <2> QED
    BY <2>4, <2>5
<1>7. CASE UNCHANGED rows
  BY <1>7 DEF RowStep
<1>8. \/ \E x \in Mails : Create(x)
      \/ \E x \in Mails : BecomeDue(x)
      \/ \E n \in Nodes : Commit(n) \/ CommitAnswerLost(n)
      \/ \E n \in Nodes, l \in Lanes : MarkAsSentWrite(n, l) \/ MarkAsFailureWrite(n, l)
      \/ \E x \in Mails, event \in DeliveryEvents : Webhook(x, event)
      \/ \E o \in Operators : RequeueUpdate(o)
      \/ UNCHANGED rows
  <2>1. ASSUME NEW n \in Nodes, NEW l \in Lanes, LaneStep(n, l) \/ LaneFault(n, l)
        PROVE  MarkAsSentWrite(n, l) \/ MarkAsFailureWrite(n, l) \/ UNCHANGED rows
    BY <2>1 DEF LaneStep, LaneFault, TakeJob, SendAccepted, SendRejected, MarkAsSentRead,
                JobDone, SendReplyLost, SentQueryFails, FailureQueryFails
  <2>2. ASSUME NEW n \in Nodes, \/ TickStart(n) \/ ClaimStep(n) \/ TickEnd(n)
                               \/ ClaimFails(n) \/ CommitAnswerLost(n) \/ Crash(n)
        PROVE  Commit(n) \/ CommitAnswerLost(n) \/ UNCHANGED rows
    BY <2>2 DEF ClaimStep, TickStart, Select, SelectNone, TickEnd, ClaimFails, Crash
  <2>3. ASSUME NEW o \in Operators, NEW x \in Mails, RequeueCheck(o, x)
        PROVE  UNCHANGED rows
    BY <2>3 DEF RequeueCheck
  <2>4. UNCHANGED vars => UNCHANGED rows
    BY DEF vars
  <2> QED
    BY <2>1, <2>2, <2>3, <2>4 DEF Next
<1> QED
  BY <1>1, <1>2, <1>3, <1>4, <1>5, <1>6, <1>7, <1>8

\* The columns of every row agree with its status, in every interleaving of the
\* worker, the webhooks and the requeues.
THEOREM RowsStayConsistent == Spec => []RowConsistent
<1>1. Init => RowConsistent
  BY NewRowTyped DEF Init, RowConsistent, AbsentRow, NewRow
<1>2. TypeOK /\ RowConsistent /\ [Next]_vars => RowConsistent'
  <2> SUFFICES ASSUME TypeOK, RowConsistent, [Next]_vars, NEW m \in Mails
               PROVE  Consistent(rows[m])'
    BY DEF RowConsistent, Consistent
  <2>1. rows[m] \in Row /\ Consistent(rows[m])
    BY DEF TypeOK, RowConsistent, Consistent
  <2>2. RowStep(m)
    BY RowSteps
  <2>3. CASE rows'[m] = rows[m]
    BY <2>1, <2>3 DEF Consistent
  <2>4. ASSUME NEW k \in Nat, NEW at \in {"future", "due"},
               rows'[m] = NewRow(rows[m].priority, k, at)
        PROVE  Consistent(rows[m])'
    BY <2>4 DEF NewRow, Consistent
  <2>5. CASE rows'[m] = [rows[m] EXCEPT !.nextAttemptAt = "due"]
    BY <2>1, <2>5 DEF Consistent, Row
  <2>6. ASSUME NEW n \in Nodes, rows'[m] = ClaimWrite(rows[m], n)
        PROVE  Consistent(rows[m])'
    <3>1. 0 \in Nat
      OBVIOUS
    <3> QED
      BY <2>1, <2>6, <3>1, WorkerWritesConsistent
  <2>7. CASE UpdatedRow(m)
    <3>1. PICK n \in Nodes, l \in Lanes :
             \/ \E k \in Nat : rows'[m] = SentWrite(rows[m], k, n)
             \/ rows'[m] = FailureWrite(rows[m], lanes[n][l].attempts,
                                        lanes[n][l].maxAttempts, n)
      BY <2>7 DEF UpdatedRow
    <3>2. lanes[n][l].attempts \in Nat /\ lanes[n][l].maxAttempts \in Nat
      <4>1. lanes[n][l] \in Lane
        BY DEF TypeOK
      <4> QED
        BY <4>1 DEF Lane, LaneRecord
    <3>3. 0 \in Nat
      OBVIOUS
    <3> QED
      BY <2>1, <3>1, <3>2, <3>3, WorkerWritesConsistent
  <2>8. CASE HandledRow(m)
    <3>1. 0 \in Nat /\ "opened" \in DeliveryEvents
      BY DEF DeliveryEvents
    <3> QED
      BY <2>1, <2>8, <3>1, HandlerWritesConsistent DEF HandledRow
  <2> QED
    BY <2>2, <2>3, <2>4, <2>5, <2>6, <2>7, <2>8 DEF RowStep
<1> QED
  BY <1>1, <1>2, TypeCorrect, PTL DEF Spec

-----------------------------------------------------------------------------
\* A job is what the row of its mail says, and that row is still runnable.
Fresh(job) == IsCandidate(rows[job.mail]) /\ job = JobOf(job.mail)

LEMMA FreshKept ==
    ASSUME NEW job, Fresh(job), rows'[job.mail] = rows[job.mail]
    PROVE  Fresh(job)'
  BY DEF Fresh, JobOf

\* SelectionStable for one host, and the two ways a step keeps it.
Stable(n) ==
    /\ tick[n] = "selected" =>
          /\ Locked(n) = {batch[n][i].mail : i \in DOMAIN batch[n]}
          /\ \A i \in DOMAIN batch[n] : Fresh(batch[n][i])
    /\ tick[n] # "selected" => Locked(n) = {}

AllStable == \A n \in Nodes : Stable(n)

\* A locked candidate is changed by no one but the transaction that holds it.
LEMMA LockedRowsUntouched ==
    ASSUME TypeOK, [Next]_vars, NEW n \in Nodes, tick'[n] = "selected",
           NEW m \in Mails, rowLock[m] = n, IsCandidate(rows[m])
    PROVE  rows'[m] = rows[m]
<1>1. RowStep(m)
  BY RowSteps
<1>2. rowLock[m] # NoNode
  BY NoNodeAssumption
<1>3. ASSUME NEW p \in Nodes, rowLock[m] = p PROVE ~Commit(p) /\ ~CommitAnswerLost(p)
  BY <1>3 DEF Commit, CommitAnswerLost, TypeOK
<1> QED
  BY <1>1, <1>2, <1>3 DEF RowStep, IsCandidate, Exists

\* A host whose transaction, batch and locks do not change stays stable.
LEMMA StableKept ==
    ASSUME TypeOK, [Next]_vars, NEW n \in Nodes, Stable(n),
           tick'[n] = "selected" <=> tick[n] = "selected",
           tick[n] = "selected" => batch'[n] = batch[n],
           \A m \in Mails : rowLock'[m] = n <=> rowLock[m] = n
    PROVE  Stable(n)'
<1>1. Locked(n)' = Locked(n)
  BY DEF Locked
<1>2. CASE tick[n] # "selected"
  BY <1>1, <1>2 DEF Stable
<1>3. CASE tick[n] = "selected"
  <2>1. ASSUME NEW i \in DOMAIN batch[n], NEW job, job = batch[n][i]
        PROVE  Fresh(job)'
    <3>1. Fresh(job) /\ job.mail \in Locked(n)
      BY <1>3, <2>1 DEF Stable
    <3>2. job.mail \in Mails /\ rowLock[job.mail] = n
      BY <3>1 DEF Locked
    <3>3. rows'[job.mail] = rows[job.mail]
      BY <1>3, <3>1, <3>2, LockedRowsUntouched DEF Fresh
    <3> QED
      BY <3>1, <3>3, FreshKept
  <2>2. batch'[n] = batch[n] /\ tick'[n] = "selected"
    BY <1>3
  <2>3. Locked(n)' = {batch'[n][i].mail : i \in DOMAIN batch'[n]}
    BY <1>1, <1>3, <2>2 DEF Stable
  <2> QED
    BY <2>1, <2>2, <2>3 DEF Stable, Fresh, JobOf
<1> QED
  BY <1>2, <1>3

\* A host whose transaction ends, whatever its outcome, releases its locks.
LEMMA StableReleased ==
    ASSUME TypeOK, NEW n \in Nodes, tick'[n] # "selected", Unlock(n)
    PROVE  Stable(n)'
<1>1. Locked(n)' = {}
  BY NoNodeAssumption DEF Locked, Unlock
<1> QED
  BY <1>1 DEF Stable

\* Select makes its host stable and leaves the locks of the others.
LEMMA SelectStable ==
    ASSUME TypeOK, \A n \in Nodes : Stable(n), NEW n \in Nodes, Select(n)
    PROVE  \A p \in Nodes : Stable(p)'
<1>1. PICK q \in Selections(Candidates) :
         /\ batch' = [batch EXCEPT ![n] = [i \in DOMAIN q |-> JobOf(q[i])]]
         /\ rowLock' = [m \in Mails |->
               IF \E i \in DOMAIN q : q[i] = m THEN n ELSE rowLock[m]]
  BY DEF Select
<1>2. PICK k \in Nat : q \in [1..k -> Candidates]
  BY SelectionTyped DEF Candidates
<1>3. \A i \in 1..k : /\ q[i] \in Mails /\ IsCandidate(rows[q[i]])
                       /\ rowLock[q[i]] = NoNode
  BY <1>2 DEF Candidates
<1>4. rows' = rows /\ tick[n] = "claiming" /\ tick' = [tick EXCEPT ![n] = "selected"]
  BY DEF Select
<1>5. Stable(n)'
  <2>1. batch'[n] = [i \in 1..k |-> JobOf(q[i])] /\ tick'[n] = "selected"
    BY <1>1, <1>2, <1>4 DEF TypeOK
  <2>2. Locked(n) = {}
    BY <1>4 DEF Stable
  <2>3. Locked(n)' = {q[i] : i \in 1..k}
    BY <1>1, <1>2, <1>3, <2>2 DEF Locked
  <2>4. \A m \in Mails : JobOf(m).mail = m /\ JobOf(m)' = JobOf(m)
    BY <1>4 DEF JobOf
  <2>5. Locked(n)' = {batch'[n][i].mail : i \in DOMAIN batch'[n]}
    BY <1>3, <2>1, <2>3, <2>4
  <2>6. ASSUME NEW i \in 1..k, NEW job, job = batch'[n][i]
        PROVE  Fresh(job)'
    <3>1. job = JobOf(q[i]) /\ job.mail = q[i] /\ JobOf(q[i])' = JobOf(q[i])
      BY <1>3, <2>1, <2>4, <2>6
    <3>2. Fresh(job)
      BY <1>3, <3>1 DEF Fresh
    <3> QED
      BY <1>4, <3>2, FreshKept
  <2>7. \A i \in DOMAIN batch'[n] : Fresh(batch[n][i])'
    BY <2>1, <2>6 DEF Fresh, JobOf
  <2> QED
    BY <2>1, <2>5, <2>7 DEF Stable
<1>6. ASSUME NEW p \in Nodes, p # n PROVE Stable(p)'
  <2>1. \A m \in Mails : rowLock'[m] = p <=> rowLock[m] = p
    BY <1>1, <1>2, <1>3, <1>6, NoNodeAssumption
  <2>2. tick'[p] = tick[p] /\ batch'[p] = batch[p]
    BY <1>1, <1>4, <1>6 DEF TypeOK
  <2>3. [Next]_vars
    BY DEF Next, ClaimStep
  <2> QED
    BY <2>1, <2>2, <2>3, <1>6, StableKept
<1> QED
  BY <1>5, <1>6

\* Each open claim transaction owns exactly the rows it will hand out, no
\* webhook, requeue or other host touches them before it commits, and no host
\* keeps a lock once its transaction is over.
THEOREM SelectionsStayStable == Spec => []SelectionStable
<1>1. Init => AllStable
  <2> SUFFICES ASSUME Init, NEW n \in Nodes PROVE Stable(n)
    BY DEF AllStable
  <2>1. Locked(n) = {}
    BY NoNodeAssumption DEF Init, Locked
  <2> QED
    BY <2>1 DEF Init, Stable
<1>2. TypeOK /\ AllStable /\ [Next]_vars => AllStable'
  <2> SUFFICES ASSUME TypeOK, \A n \in Nodes : Stable(n), [Next]_vars
               PROVE  \A n \in Nodes : Stable(n)'
    BY DEF AllStable
  <2>1. CASE \E n \in Nodes : Select(n)
    BY <2>1, SelectStable
  <2>2. CASE \E n \in Nodes : Commit(n) \/ ClaimFails(n) \/ CommitAnswerLost(n) \/ Crash(n)
    <3>1. PICK n \in Nodes : Commit(n) \/ ClaimFails(n) \/ CommitAnswerLost(n) \/ Crash(n)
      BY <2>2
    <3>2. Unlock(n) /\ tick'[n] # "selected"
      BY <3>1 DEF Commit, ClaimFails, CommitAnswerLost, Crash, ClaimRows, TypeOK
    <3>3. Stable(n)'
      BY <3>2, StableReleased
    <3>4. ASSUME NEW p \in Nodes, p # n PROVE Stable(p)'
      <4>1. \A m \in Mails : rowLock'[m] = p <=> rowLock[m] = p
        BY <3>2, <3>4, NoNodeAssumption DEF Unlock
      <4>2. tick'[p] = tick[p] /\ batch'[p] = batch[p]
        BY <3>1, <3>4 DEF Commit, ClaimFails, CommitAnswerLost, Crash, TypeOK
      <4> QED
        BY <4>1, <4>2, StableKept
    <3> QED
      BY <3>3, <3>4
  <2>3. CASE \E n \in Nodes : \/ TickStart(n) \/ SelectNone(n) \/ TickEnd(n)
                             \/ \E l \in Lanes : TakeJob(n, l)
    <3>1. PICK n \in Nodes : \/ TickStart(n) \/ SelectNone(n) \/ TickEnd(n)
                             \/ \E l \in Lanes : TakeJob(n, l)
      BY <2>3
    <3>2. rowLock' = rowLock /\ tick[n] # "selected" /\ tick'[n] # "selected"
      BY <3>1 DEF TickStart, SelectNone, TickEnd, TakeJob, TypeOK
    <3>3. \A p \in Nodes : p # n => tick'[p] = tick[p] /\ batch'[p] = batch[p]
      BY <3>1 DEF TickStart, SelectNone, TickEnd, TakeJob, TypeOK
    <3> QED
      BY <3>2, <3>3, StableKept
  <2>4. CASE UNCHANGED <<rowLock, tick, batch>>
    BY <2>4, StableKept
  <2>5. \/ \E n \in Nodes : Select(n)
        \/ \E n \in Nodes : Commit(n) \/ ClaimFails(n) \/ CommitAnswerLost(n) \/ Crash(n)
        \/ \E n \in Nodes : \/ TickStart(n) \/ SelectNone(n) \/ TickEnd(n)
                            \/ \E l \in Lanes : TakeJob(n, l)
        \/ UNCHANGED <<rowLock, tick, batch>>
    <3>1. ASSUME NEW n \in Nodes, NEW l \in Lanes, LaneStep(n, l) \/ LaneFault(n, l)
          PROVE  TakeJob(n, l) \/ UNCHANGED <<rowLock, tick, batch>>
      BY <3>1 DEF LaneStep, LaneFault, SendAccepted, SendRejected, MarkAsSentRead,
                  MarkAsSentWrite, MarkAsFailureWrite, JobDone, SendReplyLost,
                  SentQueryFails, FailureQueryFails
    <3>2. ASSUME NEW m \in Mails, Create(m) \/ BecomeDue(m)
          PROVE  UNCHANGED <<rowLock, tick, batch>>
      BY <3>2 DEF Create, BecomeDue
    <3>3. ASSUME NEW m \in Mails, NEW event \in DeliveryEvents, Webhook(m, event)
          PROVE  UNCHANGED <<rowLock, tick, batch>>
      BY <3>3 DEF Webhook
    <3>4. ASSUME NEW o \in Operators, RequeueUpdate(o) \/ \E m \in Mails : RequeueCheck(o, m)
          PROVE  UNCHANGED <<rowLock, tick, batch>>
      BY <3>4 DEF RequeueUpdate, RequeueCheck
    <3>5. UNCHANGED vars => UNCHANGED <<rowLock, tick, batch>>
      BY DEF vars
    <3> QED
      BY <3>1, <3>2, <3>3, <3>4, <3>5 DEF Next, ClaimStep
  <2> QED
    BY <2>1, <2>2, <2>3, <2>4, <2>5
<1>3. AllStable => SelectionStable
  BY DEF AllStable, Stable, SelectionStable, Fresh
<1> QED
  BY <1>1, <1>2, <1>3, TypeCorrect, PTL DEF Spec
=============================================================================
