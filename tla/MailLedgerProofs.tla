-------------------------- MODULE MailLedgerProofs --------------------------
(***************************************************************************)
(* Proofs about MailDispatch while nobody requeues: a mail has one worker, *)
(* is claimed at most maxAttempts times, and the worker implements the     *)
(* ledger of tries of MailLedger; at the end, what holds when no webhook   *)
(* comes either, so that only the worker writes the rows.                  *)
(***************************************************************************)
EXTENDS MailWorkerProofs

\* The work on a mail: the entries of running batches, with no place, and the
\* active lanes, each with the numbers its entity carries.
WorkRecord == [node : Nodes, place : SUBSET Lanes, attempts : Nat, maxAttempts : Nat]

AtWork(w, m) ==
    \/ /\ w.place = {} /\ tick[w.node] = "running"
       /\ \E i \in DOMAIN batch[w.node] :
             LET job == batch[w.node][i]
             IN  /\ job.mail = m
                 /\ job.attempts = w.attempts /\ job.maxAttempts = w.maxAttempts
    \/ \E l \in Lanes :
          LET lane == lanes[w.node][l]
          IN  /\ w.place = {l} /\ InLane(w.node, l, m)
              /\ lane.attempts = w.attempts /\ lane.maxAttempts = w.maxAttempts

Work(m) == {w \in WorkRecord : AtWork(w, m)}

\* What holds of a mail nobody requeues: all work on it is one worker's, whose
\* entity counts the claims; while there is a worker the row cannot be claimed;
\* and a row that can be claimed has tries left.
Solo(m) ==
    /\ \A v, w \in Work(m) : v = w
    /\ \A w \in Work(m) :
          /\ rows[m].status \notin {"absent", "pending"}
          /\ claims[m] = w.attempts + 1 /\ rows[m].maxAttempts = w.maxAttempts
    /\ rows[m].status = "absent" => claims[m] = 0
    /\ rows[m].status = "pending" =>
          claims[m] = rows[m].attempts /\ rows[m].attempts < rows[m].maxAttempts
    /\ claims[m] <= rows[m].maxAttempts

AllSolo == \A m \in Mails : Solo(m)

-----------------------------------------------------------------------------
\* How one step may change the work on a mail, its row and its claims.
SameClaims(m) == claims'[m] = claims[m] /\ rows'[m] = rows[m]

QuietRow(m) ==
    \/ /\ rows'[m].status = rows[m].status /\ rows'[m].attempts = rows[m].attempts
       /\ rows'[m].maxAttempts = rows[m].maxAttempts
    \/ rows'[m].status \in {"sent", "failed"} /\ rows'[m].maxAttempts = rows[m].maxAttempts
    \/ /\ rows[m].status = "absent" /\ rows'[m].status = "pending"
       /\ rows'[m].attempts = 0 /\ rows'[m].maxAttempts \in Nat \ {0}

Rested(m) ==
    Work(m)' \subseteq Work(m) /\ claims'[m] = claims[m] /\ QuietRow(m)

HandedOn(m) == \E w \in Work(m), v \in WorkRecord :
    /\ SameClaims(m)
    /\ v.attempts = w.attempts /\ v.maxAttempts = w.maxAttempts
    /\ Work(m)' \subseteq (Work(m) \ {w}) \cup {v}

GivenBack(m) == \E w \in Work(m), n \in Nodes :
    /\ Work(m)' \subseteq Work(m) \ {w}
    /\ claims'[m] = claims[m]
    /\ rows'[m] = FailureWrite(rows[m], w.attempts, w.maxAttempts, n)

Begun(m) == \E v \in WorkRecord, n \in Nodes :
    /\ rows[m].status = "pending"
    /\ v.attempts = rows[m].attempts /\ v.maxAttempts = rows[m].maxAttempts
    /\ Work(m)' \subseteq Work(m) \cup {v}
    /\ claims'[m] = claims[m] + 1
    /\ rows'[m] = ClaimWrite(rows[m], n)

LEMMA SoloKept ==
    ASSUME TypeOK, NEW m \in Mails, Solo(m),
           Rested(m) \/ HandedOn(m) \/ GivenBack(m) \/ Begun(m)
    PROVE  Solo(m)'
<1> DEFINE W == Work(m)
           V == Work(m)'
<1>1. /\ rows[m] \in Row /\ rows[m].attempts \in Nat /\ rows[m].maxAttempts \in Nat
      /\ claims[m] \in Nat /\ W \subseteq WorkRecord
  <2>1. rows[m] \in Row
    BY DEF TypeOK
  <2> QED
    BY <2>1 DEF TypeOK, Row, Work
<1>2. /\ \A v, w \in W : v = w
      /\ \A w \in W : /\ rows[m].status \notin {"absent", "pending"}
                      /\ claims[m] = w.attempts + 1 /\ rows[m].maxAttempts = w.maxAttempts
      /\ rows[m].status = "absent" => claims[m] = 0
      /\ rows[m].status = "pending" =>
            claims[m] = rows[m].attempts /\ rows[m].attempts < rows[m].maxAttempts
      /\ claims[m] <= rows[m].maxAttempts
  BY DEF Solo
<1>3. SUFFICES
      /\ \A v, w \in V : v = w
      /\ \A w \in V : /\ rows'[m].status \notin {"absent", "pending"}
                      /\ claims'[m] = w.attempts + 1 /\ rows'[m].maxAttempts = w.maxAttempts
      /\ rows'[m].status = "absent" => claims'[m] = 0
      /\ rows'[m].status = "pending" =>
            claims'[m] = rows'[m].attempts /\ rows'[m].attempts < rows'[m].maxAttempts
      /\ claims'[m] <= rows'[m].maxAttempts
  BY DEF Solo
<1> HIDE DEF W, V
<1>4. CASE Rested(m)
  <2>1. V \subseteq W /\ claims'[m] = claims[m] /\ QuietRow(m)
    BY <1>4 DEF Rested, V, W
  <2> QED
    BY <1>1, <1>2, <2>1 DEF QuietRow
<1>5. CASE HandedOn(m)
  <2>1. PICK w \in W, v \in WorkRecord :
           /\ claims'[m] = claims[m] /\ rows'[m] = rows[m]
           /\ v.attempts = w.attempts /\ v.maxAttempts = w.maxAttempts
           /\ V \subseteq (W \ {w}) \cup {v}
    BY <1>5 DEF HandedOn, SameClaims, V, W
  <2>2. V \subseteq {v}
    BY <1>2, <2>1
  <2> QED
    BY <1>2, <2>1, <2>2
<1>6. CASE GivenBack(m)
  <2>1. PICK w \in W, n \in Nodes :
           /\ V \subseteq W \ {w} /\ claims'[m] = claims[m]
           /\ rows'[m] = FailureWrite(rows[m], w.attempts, w.maxAttempts, n)
    BY <1>6 DEF GivenBack, V, W
  <2>2. V = {}
    BY <1>2, <2>1
  <2>3. /\ rows'[m].status = IF w.attempts + 1 < w.maxAttempts THEN "pending" ELSE "failed"
        /\ rows'[m].attempts = w.attempts + 1 /\ rows'[m].maxAttempts = rows[m].maxAttempts
    BY <1>1, <2>1 DEF FailureWrite, ShouldRetry, Row
  <2> QED
    BY <1>2, <2>1, <2>2, <2>3
<1>7. CASE Begun(m)
  <2>1. PICK v \in WorkRecord, n \in Nodes :
           /\ rows[m].status = "pending"
           /\ v.attempts = rows[m].attempts /\ v.maxAttempts = rows[m].maxAttempts
           /\ V \subseteq W \cup {v}
           /\ claims'[m] = claims[m] + 1
           /\ rows'[m] = ClaimWrite(rows[m], n)
    BY <1>7 DEF Begun, V, W
  <2>2. V \subseteq {v}
    BY <1>2, <2>1
  <2>3. rows'[m].status = "processing" /\ rows'[m].maxAttempts = rows[m].maxAttempts
    BY <1>1, <2>1 DEF ClaimWrite, Row
  <2> QED
    BY <1>1, <1>2, <2>1, <2>2, <2>3
<1> QED
  BY <1>4, <1>5, <1>6, <1>7
-----------------------------------------------------------------------------
\* New work on a mail comes from a commit or, handed on, from a batch.
LEMMA WorkOrigin ==
    ASSUME TypeOK, [Next]_vars, NEW m \in Mails, NEW w \in WorkRecord,
           AtWork(w, m)', ~AtWork(w, m)
    PROVE  \/ /\ Commit(w.node) /\ w.place = {}
              /\ \E i \in DOMAIN batch[w.node] :
                    LET job == batch[w.node][i]
                    IN  /\ job.mail = m
                        /\ job.attempts = w.attempts /\ job.maxAttempts = w.maxAttempts
           \/ \E l \in Lanes :
                 LET job == Head(batch[w.node])
                 IN  /\ TakeJob(w.node, l) /\ w.place = {l} /\ job.mail = m
                     /\ job.attempts = w.attempts /\ job.maxAttempts = w.maxAttempts
<1> DEFINE n == w.node
<1>1. n \in Nodes
  BY DEF WorkRecord
<1>2. ASSUME w.place = {}, tick'[n] = "running", NEW i \in DOMAIN batch'[n],
             batch'[n][i].mail = m, batch'[n][i].attempts = w.attempts,
             batch'[n][i].maxAttempts = w.maxAttempts
      PROVE  Commit(n) /\ batch'[n] = batch[n]
  <2>1. CASE ~Commit(n)
    <3>1. /\ tick[n] = "running"
          /\ \E j \in DOMAIN batch[n] : batch[n][j] = batch'[n][i]
      BY <1>1, <1>2, <2>1, RunningBatch
    <3> QED
      BY <1>2, <3>1 DEF AtWork
  <2>2. Commit(n) => batch'[n] = batch[n]
    BY DEF Commit
  <2> QED
    BY <2>1, <2>2
<1>3. ASSUME NEW l \in Lanes, w.place = {l}, InLane(n, l, m)',
             lanes'[n][l].attempts = w.attempts, lanes'[n][l].maxAttempts = w.maxAttempts
      PROVE  /\ TakeJob(n, l) /\ Head(batch[n]).mail = m
             /\ Head(batch[n]).attempts = w.attempts
             /\ Head(batch[n]).maxAttempts = w.maxAttempts
  <2> DEFINE x == lanes[n][l]
             y == lanes'[n][l]
  <2>1. y.mail = m /\ y.pc \in ActivePcs /\ y.mail # NoMail
    BY <1>3, MailsAssumption DEF InLane
  <2>2. ~(x.mail = m /\ x.pc \in ActivePcs /\ x.attempts = w.attempts
            /\ x.maxAttempts = w.maxAttempts)
    BY <1>3 DEF AtWork, InLane
  <2>3. TakeJob(n, l)
    <3>1. LaneChange(n, l)
      BY <1>1, LaneChanges
    <3>2. y = x => FALSE
      BY <1>3, <2>1, <2>2
    <3>3. Carried(x, y) => x.pc \notin ActivePcs
      BY <1>3, <2>1, <2>2 DEF Carried
    <3> QED
      BY <2>1, <3>1, <3>2, <3>3
         DEF LaneChange, ActivePcs, SendAccepted, SendRejected, SendReplyLost,
             MarkAsSentRead, MarkAsSentWrite, MarkAsFailureWrite, SentQueryFails
  <2>4. /\ y.mail = Head(batch[n]).mail /\ y.attempts = Head(batch[n]).attempts
        /\ y.maxAttempts = Head(batch[n]).maxAttempts
    BY <1>1, <2>3 DEF TakeJob, SetLane, TypeOK
  <2> QED
    BY <1>3, <2>1, <2>3, <2>4
<1>4. \/ /\ w.place = {} /\ tick'[n] = "running"
         /\ \E i \in DOMAIN batch'[n] :
               /\ batch'[n][i].mail = m /\ batch'[n][i].attempts = w.attempts
               /\ batch'[n][i].maxAttempts = w.maxAttempts
      \/ \E l \in Lanes :
            /\ w.place = {l} /\ InLane(n, l, m)'
            /\ lanes'[n][l].attempts = w.attempts
            /\ lanes'[n][l].maxAttempts = w.maxAttempts
  BY DEF AtWork
<1> QED
  BY <1>2, <1>3, <1>4

\* A claim transaction commits: each of its mails begins a try.
LEMMA CommitBegins ==
    ASSUME TypeOK, SelectionStable, [Next]_vars, NEW m \in Mails,
           NEW n \in Nodes, Commit(n) \/ CommitAnswerLost(n)
    PROVE  Begun(m) \/ Rested(m)
<1>1. /\ tick[n] = "selected" /\ ClaimRows(n)
      /\ Locked(n) = {batch[n][i].mail : i \in DOMAIN batch[n]}
      /\ \A i \in DOMAIN batch[n] : /\ IsCandidate(rows[batch[n][i].mail])
                                    /\ batch[n][i] = JobOf(batch[n][i].mail)
  BY DEF Commit, CommitAnswerLost, SelectionStable
<1>2. ASSUME NEW w \in Work(m)', w \notin Work(m)
      PROVE  /\ w.node = n /\ w.place = {} /\ m \in Locked(n)
             /\ w.attempts = rows[m].attempts /\ w.maxAttempts = rows[m].maxAttempts
  <2>1. w \in WorkRecord /\ AtWork(w, m)' /\ ~AtWork(w, m) /\ w.node \in Nodes
    BY <1>2 DEF Work, WorkRecord
  <2>2. ASSUME NEW l \in Lanes, TakeJob(w.node, l) PROVE FALSE
    <3>1. tick' = tick
      BY <2>2 DEF TakeJob
    <3> QED
      BY <1>1, <3>1 DEF Commit, CommitAnswerLost, TypeOK
  <2>3. PICK i \in DOMAIN batch[w.node] :
           /\ Commit(w.node) /\ w.place = {} /\ batch[w.node][i].mail = m
           /\ batch[w.node][i].attempts = w.attempts
           /\ batch[w.node][i].maxAttempts = w.maxAttempts
    BY <2>1, <2>2, WorkOrigin
  <2>4. w.node = n
    BY <1>1, <2>1, <2>3 DEF Commit, CommitAnswerLost, TypeOK
  <2>5. m \in Locked(n) /\ batch[n][i] = JobOf(m)
    BY <1>1, <2>3, <2>4
  <2> QED
    BY <2>3, <2>4, <2>5 DEF JobOf
<1>3. CASE m \notin Locked(n)
  <2>1. rows'[m] = rows[m] /\ claims'[m] = claims[m]
    BY <1>1, <1>3 DEF ClaimRows
  <2>2. Work(m)' \subseteq Work(m)
    BY <1>2, <1>3
  <2> QED
    BY <2>1, <2>2 DEF Rested, QuietRow
<1>4. CASE m \in Locked(n)
  <2>0. PICK v : v = [node |-> n, place |-> {}, attempts |-> rows[m].attempts,
                      maxAttempts |-> rows[m].maxAttempts]
    OBVIOUS
  <2>1. v \in WorkRecord /\ v.attempts = rows[m].attempts /\ v.maxAttempts = rows[m].maxAttempts
    <3>1. rows[m] \in Row
      BY DEF TypeOK
    <3> QED
      BY <2>0, <3>1 DEF Row, WorkRecord
  <2>2. rows'[m] = ClaimWrite(rows[m], n) /\ claims'[m] = claims[m] + 1
    BY <1>1, <1>4 DEF ClaimRows
  <2>3. rows[m].status = "pending"
    BY <1>1, <1>4 DEF IsCandidate
  <2>4. Work(m)' \subseteq Work(m) \cup {v}
    <3> SUFFICES ASSUME NEW w \in Work(m)', w \notin Work(m) PROVE w = v
      OBVIOUS
    <3>1. w \in WorkRecord
      BY DEF Work
    <3> QED
      BY <1>2, <2>0, <3>1 DEF WorkRecord
  <2> QED
    BY <2>1, <2>2, <2>3, <2>4 DEF Begun
<1> QED
  BY <1>3, <1>4

\* A lane takes a job: the work on its mail moves from the batch to the lane.
LEMMA TakeJobHands ==
    ASSUME TypeOK, AllOnce, [Next]_vars, NEW m \in Mails, NEW n \in Nodes, NEW l \in Lanes,
           TakeJob(n, l)
    PROVE  HandedOn(m) \/ Rested(m)
<1> DEFINE job == Head(batch[n])
<1>0. PICK old, new :
         /\ old = [node |-> n, place |-> {}, attempts |-> job.attempts,
                   maxAttempts |-> job.maxAttempts]
         /\ new = [node |-> n, place |-> {l}, attempts |-> job.attempts,
                   maxAttempts |-> job.maxAttempts]
  OBVIOUS
<1>1. /\ tick' = tick /\ tick[n] = "running" /\ rows' = rows /\ claims' = claims
      /\ lanes[n][l].pc = "free" /\ lanes'[n][l].pc = "sending"
      /\ \A p \in Nodes, k \in Lanes : p # n \/ k # l => lanes'[p][k] = lanes[p][k]
  BY DEF TakeJob, SetLane, TypeOK
<1>2. batch[n] \in Seq(Job) /\ batch[n] # <<>>
  <2>1. batch[n] \in Seq(Job)
    BY DEF TypeOK
  <2> QED
    BY <2>1 DEF TakeJob
<1>3. job \in Job /\ 1 \in DOMAIN batch[n] /\ job = batch[n][1]
  BY <1>2
<1>4. old \in WorkRecord /\ new \in WorkRecord
  BY <1>0, <1>3 DEF Job, WorkRecord
<1>5. ASSUME NEW w \in Work(m)', w \notin Work(m) PROVE w = new /\ job.mail = m
  <2>1. w \in WorkRecord /\ AtWork(w, m)' /\ ~AtWork(w, m) /\ w.node \in Nodes
    BY <1>5 DEF Work, WorkRecord
  <2>2. ~Commit(w.node)
    BY <1>1, <2>1 DEF Commit, TypeOK
  <2>3. PICK k \in Lanes : /\ TakeJob(w.node, k) /\ w.place = {k}
                           /\ Head(batch[w.node]).mail = m
                           /\ Head(batch[w.node]).attempts = w.attempts
                           /\ Head(batch[w.node]).maxAttempts = w.maxAttempts
    BY <2>1, <2>2, WorkOrigin
  <2>4. w.node = n /\ k = l
    <3>1. lanes'[w.node][k].pc = "sending" /\ lanes[w.node][k].pc = "free"
      BY <2>1, <2>3 DEF TakeJob, SetLane, TypeOK
    <3> QED
      BY <1>1, <2>1, <3>1
  <2> QED
    BY <1>0, <2>1, <2>3, <2>4 DEF WorkRecord
<1>6. CASE job.mail # m
  BY <1>1, <1>5, <1>6 DEF Rested, QuietRow
<1>7. CASE job.mail = m
  <2>1. old \in Work(m)
    <3>1. AtWork(old, m)
      BY <1>0, <1>1, <1>3, <1>7 DEF AtWork
    <3> QED
      BY <1>4, <3>1 DEF Work
  <2>2. old \notin Work(m)'
    <3>1. lanes'[n][l].mail = m
      BY <1>7 DEF TakeJob, SetLane, TypeOK
    <3>2. \A i \in DOMAIN batch'[n] : batch'[n][i].mail # m
      BY <3>1, OnceSteps DEF AllOnce, Once
    <3>3. ~AtWork(old, m)'
      BY <1>0, <3>2 DEF AtWork
    <3> QED
      BY <3>3 DEF Work
  <2>3. new.attempts = old.attempts /\ new.maxAttempts = old.maxAttempts
    BY <1>0
  <2>4. Work(m)' \subseteq (Work(m) \ {old}) \cup {new}
    BY <1>5, <2>2
  <2> QED
    BY <1>1, <1>4, <2>1, <2>3, <2>4 DEF HandedOn, SameClaims
<1> QED
  BY <1>6, <1>7

\* Every other step takes work away, or leaves it, and only a recorded failure
\* gives the mail back.
LEMMA OtherSteps ==
    ASSUME Operators = {}, TypeOK, [Next]_vars, NEW m \in Mails,
           \A n \in Nodes : ~Commit(n) /\ ~CommitAnswerLost(n),
           \A n \in Nodes, l \in Lanes : ~TakeJob(n, l)
    PROVE  Rested(m) \/ GivenBack(m)
<1>1. claims'[m] = claims[m]
  BY ClaimsSteps
<1>2. Work(m)' \subseteq Work(m)
  <2> SUFFICES ASSUME NEW w \in Work(m)', w \notin Work(m) PROVE FALSE
    OBVIOUS
  <2>1. w \in WorkRecord /\ AtWork(w, m)' /\ ~AtWork(w, m) /\ w.node \in Nodes
    BY DEF Work, WorkRecord
  <2> QED
    BY <2>1, WorkOrigin
<1>3. rows[m] \in Row
  BY DEF TypeOK
<1>4. RowStep(m)
  BY RowSteps
<1>5. ASSUME QuietRow(m) PROVE Rested(m)
  BY <1>1, <1>2, <1>5 DEF Rested
<1>6. CASE rows'[m] = rows[m]
  BY <1>5, <1>6 DEF QuietRow
<1>7. CASE rows'[m] = [rows[m] EXCEPT !.nextAttemptAt = "due"]
  <2>1. QuietRow(m)
    BY <1>3, <1>7 DEF QuietRow, Row
  <2> QED
    BY <1>5, <2>1
<1>8. ASSUME NEW k \in Nat \ {0}, NEW at, ~Exists(m), rows'[m] = NewRow(rows[m].priority, k, at)
      PROVE  Rested(m)
  <2>1. QuietRow(m)
    BY <1>8 DEF QuietRow, NewRow, Exists
  <2> QED
    BY <1>5, <2>1
<1>9. CASE HandledRow(m)
  <2>1. PICK event \in DeliveryEvents : rows'[m] = DeliveryWrite(rows[m], event)
    BY <1>9 DEF HandledRow
  <2>2. QuietRow(m)
    BY <1>3, <2>1 DEF QuietRow, DeliveryWrite, Row
  <2> QED
    BY <1>5, <2>2
<1>10. CASE UpdatedRow(m)
  <2>1. PICK n \in Nodes, l \in Lanes :
           /\ lanes[n][l].mail = m
           /\ \/ \E k \in Nat : rows'[m] = SentWrite(rows[m], k, n)
              \/ /\ MarkAsFailureWrite(n, l)
                 /\ rows'[m] = FailureWrite(rows[m], lanes[n][l].attempts,
                                            lanes[n][l].maxAttempts, n)
    BY <1>10 DEF UpdatedRow
  <2>2. ASSUME NEW k \in Nat, rows'[m] = SentWrite(rows[m], k, n) PROVE Rested(m)
    <3>1. QuietRow(m)
      BY <1>3, <2>2 DEF QuietRow, SentWrite, Row
    <3> QED
      BY <1>5, <3>1
  <2>3. ASSUME MarkAsFailureWrite(n, l),
               rows'[m] = FailureWrite(rows[m], lanes[n][l].attempts,
                                       lanes[n][l].maxAttempts, n)
        PROVE  GivenBack(m)
    <3> DEFINE x == lanes[n][l]
    <3>0. PICK w : w = [node |-> n, place |-> {l}, attempts |-> x.attempts,
                        maxAttempts |-> x.maxAttempts]
      OBVIOUS
    <3>1. x \in LaneRecord /\ x.pc = "failWrite"
      BY <2>3 DEF TypeOK, Lane, MarkAsFailureWrite
    <3>2. w \in WorkRecord
      BY <3>0, <3>1 DEF LaneRecord, WorkRecord
    <3>3. AtWork(w, m)
      BY <2>1, <3>0, <3>1 DEF AtWork, InLane, ActivePcs
    <3>4. lanes'[n][l].pc = "failReread"
      BY <2>3, <3>1 DEF MarkAsFailureWrite, MoveLane, TypeOK, LaneRecord
    <3>5. ~AtWork(w, m)'
      BY <3>0, <3>4 DEF AtWork, InLane, ActivePcs
    <3>6. w \in Work(m) /\ w \notin Work(m)'
      BY <3>2, <3>3, <3>5 DEF Work
    <3>7. w.attempts = x.attempts /\ w.maxAttempts = x.maxAttempts
      BY <3>0
    <3> QED
      BY <1>1, <1>2, <2>3, <3>6, <3>7 DEF GivenBack
  <2> QED
    BY <2>1, <2>2, <2>3
<1> QED
  BY <1>4, <1>6, <1>7, <1>8, <1>9, <1>10 DEF RowStep

\* Whatever the step, the work on a mail rests, moves, is given back or begins.
LEMMA WorkSteps ==
    ASSUME Operators = {}, TypeOK, AllOnce, SelectionStable, [Next]_vars, NEW m \in Mails
    PROVE  Rested(m) \/ HandedOn(m) \/ GivenBack(m) \/ Begun(m)
  BY CommitBegins, TakeJobHands, OtherSteps

LEMMA SoloSteps ==
    ASSUME Operators = {}
    PROVE  TypeOK /\ AllOnce /\ SelectionStable /\ AllSolo /\ [Next]_vars => AllSolo'
<1> SUFFICES ASSUME TypeOK, AllOnce, SelectionStable, AllSolo, [Next]_vars, NEW m \in Mails
             PROVE  Solo(m)'
  BY DEF AllSolo
<1> QED
  BY WorkSteps, SoloKept DEF AllSolo

LEMMA StaysSolo ==
    ASSUME Operators = {}
    PROVE  Spec => []AllSolo
<1>1. Init => AllSolo
  <2> SUFFICES ASSUME Init PROVE \A m \in Mails : Solo(m)
    BY DEF AllSolo
  <2> TAKE m \in Mails
  <2>1. Work(m) = {}
    BY DEF Init, Work, AtWork, InLane, ActivePcs, FreeLane, WorkRecord
  <2>2. claims[m] = 0 /\ rows[m].status = "absent" /\ rows[m].maxAttempts = 0
    BY DEF Init, AbsentRow, NewRow
  <2> QED
    BY <2>1, <2>2 DEF Solo
<1> QED
  BY <1>1, SoloSteps, TypeCorrect, HeldOnce, SelectionsStayStable, PTL DEF Spec

\* Without requeues at most one host, in its batch or in one lane, works on a
\* mail at any time, whatever crashes, fails or is reported.
THEOREM OneWorker ==
    ASSUME Operators = {}
    PROVE  Spec => []SingleWorker
<1>1. TypeOK /\ AllSolo => SingleWorker
  <2> SUFFICES ASSUME TypeOK, AllSolo, NEW m \in Mails
               PROVE  /\ \A n1, n2 \in Waiting(m) : n1 = n2
                      /\ \A n1, n2 \in Nodes, l, k \in Lanes :
                            InLane(n1, l, m) =>
                              /\ n2 \notin Waiting(m)
                              /\ InLane(n2, k, m) => n1 = n2 /\ l = k
    BY DEF SingleWorker
  <2>1. ASSUME NEW n \in Waiting(m) PROVE \E w \in Work(m) : w.node = n /\ w.place = {}
    <3>1. PICK i \in DOMAIN batch[n] : batch[n][i].mail = m
      BY DEF Waiting, InBatch
    <3>2. n \in Nodes /\ tick[n] = "running" /\ batch[n] \in Seq(Job)
      <4>1. n \in Nodes
        BY DEF Waiting
      <4> QED
        BY <4>1 DEF Waiting, TypeOK
    <3>3. batch[n][i] \in Job
      BY <3>1, <3>2
    <3> DEFINE w == [node |-> n, place |-> {}, attempts |-> batch[n][i].attempts,
                     maxAttempts |-> batch[n][i].maxAttempts]
    <3>4. w \in WorkRecord /\ AtWork(w, m)
      BY <3>1, <3>2, <3>3 DEF WorkRecord, AtWork, Job
    <3>5. w.node = n /\ w.place = {}
      OBVIOUS
    <3> QED
      BY <3>4, <3>5 DEF Work
  <2>2. ASSUME NEW n \in Nodes, NEW l \in Lanes, InLane(n, l, m)
        PROVE  \E w \in Work(m) : w.node = n /\ w.place = {l}
    <3>1. lanes[n][l] \in LaneRecord
      BY DEF TypeOK, Lane
    <3> DEFINE w == [node |-> n, place |-> {l}, attempts |-> lanes[n][l].attempts,
                     maxAttempts |-> lanes[n][l].maxAttempts]
    <3>2. w \in WorkRecord /\ AtWork(w, m)
      BY <2>2, <3>1 DEF WorkRecord, AtWork, LaneRecord
    <3>3. w.node = n /\ w.place = {l}
      OBVIOUS
    <3> QED
      BY <3>2, <3>3 DEF Work
  <2>3. \A v, w \in Work(m) : v = w
    BY DEF AllSolo, Solo
  <2>4. \A n \in Waiting(m) : n \in Nodes
    BY DEF Waiting
  <2> QED
    BY <2>1, <2>2, <2>3, <2>4
<1> QED
  BY <1>1, TypeCorrect, StaysSolo, PTL

\* Without requeues a mail is claimed at most maxAttempts times, although a
\* claim whose host dies, or whose commit is not answered, counts no attempt.
THEOREM ClaimsStayWithinMax ==
    ASSUME Operators = {}
    PROVE  Spec => []ClaimsWithinMaxAttempts
<1>1. AllSolo => ClaimsWithinMaxAttempts
  BY DEF AllSolo, Solo, ClaimsWithinMaxAttempts
<1> QED
  BY <1>1, StaysSolo, PTL
-----------------------------------------------------------------------------
\* The ledger: each step of the worker is a step of MailLedger or leaves what
\* the ledger shows alone.
Shown == Ledger!ledgerVars

LEMMA HeldIsWork == TypeOK /\ AllOnce => \A m \in Mails : Held(m) <=> Work(m) # {}
<1> SUFFICES ASSUME TypeOK, AllOnce, NEW m \in Mails PROVE Held(m) <=> Work(m) # {}
  OBVIOUS
<1>1. ASSUME NEW w \in Work(m) PROVE Held(m)
  <2>1. w \in WorkRecord /\ AtWork(w, m) /\ w.node \in Nodes
    BY DEF Work, WorkRecord
  <2>2. ASSUME NEW l \in Lanes, InLane(w.node, l, m) PROVE tick[w.node] = "running"
    <3>1. lanes[w.node][l].mail # NoMail
      BY <2>2, MailsAssumption DEF InLane
    <3> QED
      BY <2>1, <3>1 DEF AllOnce, Once
  <2> QED
    BY <2>1, <2>2 DEF AtWork, Held, InBatch
<1>2. ASSUME Held(m) PROVE Work(m) # {}
  <2>1. PICK n \in Nodes : /\ tick[n] = "running"
                           /\ InBatch(n, m) \/ \E l \in Lanes : InLane(n, l, m)
    BY <1>2 DEF Held
  <2>2. CASE InBatch(n, m)
    <3>1. PICK i \in DOMAIN batch[n] : batch[n][i].mail = m
      BY <2>2 DEF InBatch
    <3>2. batch[n][i] \in Job
      <4>1. batch[n] \in Seq(Job)
        BY DEF TypeOK
      <4> QED
        BY <4>1
    <3> DEFINE w == [node |-> n, place |-> {}, attempts |-> batch[n][i].attempts,
                     maxAttempts |-> batch[n][i].maxAttempts]
    <3>3. w \in WorkRecord /\ AtWork(w, m)
      BY <2>1, <3>1, <3>2 DEF WorkRecord, AtWork, Job
    <3> QED
      BY <3>3 DEF Work
  <2>3. ASSUME NEW l \in Lanes, InLane(n, l, m) PROVE Work(m) # {}
    <3>1. lanes[n][l] \in LaneRecord
      BY DEF TypeOK, Lane
    <3> DEFINE w == [node |-> n, place |-> {l}, attempts |-> lanes[n][l].attempts,
                     maxAttempts |-> lanes[n][l].maxAttempts]
    <3>2. w \in WorkRecord /\ AtWork(w, m)
      BY <2>3, <3>1 DEF WorkRecord, AtWork, LaneRecord
    <3> QED
      BY <3>2 DEF Work
  <2> QED
    BY <2>1, <2>2, <2>3
<1> QED
  BY <1>1, <1>2

LEMMA HeldIsWorkNext == (TypeOK /\ AllOnce => \A m \in Mails : Held(m) <=> Work(m) # {})'
  BY HeldIsWork, PTL

\* A step that shows nothing new and takes up no mail drops work, or nothing.
LEMMA DropOrStutter ==
    ASSUME \A m \in Mails : rows'[m].status = rows[m].status,
           \A m \in Mails : rows'[m].maxAttempts = rows[m].maxAttempts,
           \A m \in Mails : Held(m)' => Held(m),
           claims' = claims, accepted' = accepted
    PROVE  [Ledger!LedgerNext]_Shown
<1>1. [m \in Mails |-> rows'[m].status] = [m \in Mails |-> rows[m].status]
  OBVIOUS
<1>2. [m \in Mails |-> rows'[m].maxAttempts] = [m \in Mails |-> rows[m].maxAttempts]
  OBVIOUS
<1>3. PICK open, open2 : open = {m \in Mails : Held(m)} /\ open2 = {m \in Mails : Held(m)'}
  OBVIOUS
<1>4. open \subseteq Mails /\ open2 \subseteq open
  BY <1>3
<1>5. CASE open2 = open
  BY <1>1, <1>2, <1>3, <1>5 DEF Shown, Ledger!ledgerVars
<1>6. CASE open2 # open
  <2>1. /\ open \ open2 \in SUBSET Mails /\ open \ open2 # {}
        /\ open2 = open \ (open \ open2)
    BY <1>4, <1>6
  <2>2. Ledger!Drop(open \ open2)
    BY <1>1, <1>2, <1>3, <2>1 DEF Ledger!Drop
  <2> QED
    BY <2>1, <2>2 DEF Ledger!LedgerNext
<1> QED
  BY <1>5, <1>6

\* A lane that only moves on changes what is held of no mail but its own, and
\* of that one only if it is done with it.
LEMMA HeldByOthers ==
    ASSUME TypeOK, NEW n \in Nodes, NEW l \in Lanes, NEW pc, MoveLane(n, l, pc),
           tick' = tick, batch' = batch, NEW m \in Mails,
           \/ lanes[n][l].mail # m
           \/ lanes[n][l].pc \in ActivePcs /\ pc \in ActivePcs
    PROVE  Held(m)' <=> Held(m)
<1>1. lanes[n][l] \in LaneRecord
  BY DEF TypeOK, Lane
<1>2. /\ lanes'[n][l].mail = lanes[n][l].mail /\ lanes'[n][l].pc = pc
      /\ \A p \in Nodes, k \in Lanes : p # n \/ k # l => lanes'[p][k] = lanes[p][k]
  BY <1>1 DEF MoveLane, TypeOK, LaneRecord
<1>3. \A p \in Nodes, k \in Lanes : InLane(p, k, m)' <=> InLane(p, k, m)
  BY <1>2 DEF InLane
<1>4. \A p \in Nodes : InBatch(p, m)' <=> InBatch(p, m)
  BY DEF InBatch
<1> QED
  BY <1>3, <1>4 DEF Held

\* What the ledger shows of an update of one row.
LEMMA UpdateShown ==
    ASSUME TypeOK, NEW m \in Mails, NEW row, rows' = [rows EXCEPT ![m] = row]
    PROVE  /\ [x \in Mails |-> rows'[x].status] =
                [[x \in Mails |-> rows[x].status] EXCEPT ![m] = row.status]
           /\ [x \in Mails |-> rows'[x].maxAttempts] =
                [[x \in Mails |-> rows[x].maxAttempts] EXCEPT ![m] = row.maxAttempts]
  BY DEF TypeOK

LEMMA HeldSame ==
    ASSUME tick' = tick, batch' = batch, lanes' = lanes
    PROVE  {m \in Mails : Held(m)'} = {m \in Mails : Held(m)}
  BY DEF Held, InBatch, InLane

LEMMA CreateSubmits ==
    ASSUME TypeOK, NEW m \in Mails, Create(m)
    PROVE  Ledger!Submit(m)
<1>1. PICK k \in MaxAttemptsChoices, at \in {"future", "due"} :
         rows' = [rows EXCEPT ![m] = NewRow(rows[m].priority, k, at)]
  BY DEF Create
<1> DEFINE row == NewRow(rows[m].priority, k, at)
<1>2. row.status = "pending" /\ row.maxAttempts = k /\ rows' = [rows EXCEPT ![m] = row]
  BY <1>1 DEF NewRow
<1> HIDE DEF row
<1>3. /\ [x \in Mails |-> rows'[x].status] =
            [[x \in Mails |-> rows[x].status] EXCEPT ![m] = "pending"]
      /\ [x \in Mails |-> rows'[x].maxAttempts] =
            [[x \in Mails |-> rows[x].maxAttempts] EXCEPT ![m] = k]
  <2>1. /\ [x \in Mails |-> rows'[x].status] =
              [[x \in Mails |-> rows[x].status] EXCEPT ![m] = row.status]
        /\ [x \in Mails |-> rows'[x].maxAttempts] =
              [[x \in Mails |-> rows[x].maxAttempts] EXCEPT ![m] = row.maxAttempts]
    BY <1>2, UpdateShown
  <2> QED
    BY <1>2, <2>1
<1>4. {x \in Mails : Held(x)'} = {x \in Mails : Held(x)}
  BY HeldSame DEF Create
<1>5. rows[m].status = "absent" /\ claims' = claims /\ accepted' = accepted
  BY DEF Create, Exists
<1> QED
  BY <1>3, <1>4, <1>5 DEF Ledger!Submit

LEMMA WebhookReceipt ==
    ASSUME TypeOK, NEW m \in Mails, NEW event \in DeliveryEvents, Webhook(m, event)
    PROVE  [Ledger!LedgerNext]_Shown
<1> DEFINE row == DeliveryWrite(rows[m], event)
<1>1. /\ rows' = [rows EXCEPT ![m] = row] /\ rows[m].status # "absent"
      /\ claims' = claims /\ accepted' = accepted
      /\ tick' = tick /\ batch' = batch /\ lanes' = lanes
  BY DEF Webhook, Update, Exists
<1>2. {x \in Mails : Held(x)'} = {x \in Mails : Held(x)}
  BY <1>1, HeldSame
<1>3. rows[m] \in Row
  BY DEF TypeOK
<1>4. row.maxAttempts = rows[m].maxAttempts /\ (row = rows[m] \/ row.status \in {"sent", "failed"})
  BY <1>3 DEF DeliveryWrite, Row
<1> HIDE DEF row
<1>5. /\ [x \in Mails |-> rows'[x].status] =
            [[x \in Mails |-> rows[x].status] EXCEPT ![m] = row.status]
      /\ [x \in Mails |-> rows'[x].maxAttempts] = [x \in Mails |-> rows[x].maxAttempts]
  <2>1. [x \in Mails |-> rows'[x].maxAttempts] =
           [[x \in Mails |-> rows[x].maxAttempts] EXCEPT ![m] = rows[m].maxAttempts]
    BY <1>1, <1>4, UpdateShown
  <2>2. [[x \in Mails |-> rows[x].maxAttempts] EXCEPT ![m] = rows[m].maxAttempts] =
           [x \in Mails |-> rows[x].maxAttempts]
    OBVIOUS
  <2> QED
    BY <1>1, <2>1, <2>2, UpdateShown
<1>6. CASE row = rows[m]
  <2>1. rows' = rows
    BY <1>1, <1>6 DEF TypeOK
  <2> QED
    BY <1>1, <1>2, <2>1 DEF Shown, Ledger!ledgerVars
<1>7. CASE row.status \in {"sent", "failed"}
  <2>1. Ledger!Receipt(m)
    BY <1>1, <1>2, <1>5, <1>7 DEF Ledger!Receipt
  <2> QED
    BY <2>1 DEF Ledger!LedgerNext
<1> QED
  BY <1>4, <1>6, <1>7

LEMMA AcceptDelivers ==
    ASSUME TypeOK, AllOnce, NEW n \in Nodes, NEW l \in Lanes,
           SendAccepted(n, l) \/ SendReplyLost(n, l), \A m \in Mails : Balanced(m)
    PROVE  [Ledger!LedgerNext]_Shown
<1>1. PICK m : m = lanes[n][l].mail
  OBVIOUS
<1>2. lanes[n][l].pc = "sending" /\ m \in Mails /\ lanes[n][l] \in LaneRecord
  <2>1. lanes[n][l].pc = "sending" /\ lanes[n][l] \in Lane
    BY DEF SendAccepted, SendReplyLost, TypeOK
  <2> QED
    BY <1>1, <2>1 DEF Lane
<1>3. /\ accepted' = [accepted EXCEPT ![m] = @ + 1] /\ rows' = rows
      /\ claims' = claims /\ tick' = tick /\ batch' = batch
      /\ MoveLane(n, l, "sentRead") \/ MoveLane(n, l, "failWrite")
  BY <1>1 DEF SendAccepted, SendReplyLost
<1>4. \A x \in Mails : Held(x)' <=> Held(x)
  BY <1>2, <1>3, HeldByOthers DEF ActivePcs
<1>5. Held(m)
  <2>1. lanes[n][l].mail # NoMail
    BY <1>1, <1>2, MailsAssumption
  <2>2. tick[n] = "running"
    BY <2>1 DEF AllOnce, Once, TypeOK
  <2> QED
    BY <1>1, <1>2, <2>2 DEF Held, InLane, ActivePcs
<1>6. accepted[m] < claims[m]
  <2>1. <<n, l>> \in Sending(m)
    BY <1>1, <1>2 DEF Sending
  <2>2. /\ Cardinality(Sending(m)) \in Nat /\ Cardinality(Sending(m)) # 0
        /\ Cardinality(Waiting(m)) \in Nat
    BY <1>2, <2>1, FS_CardinalityType, FS_EmptySet DEF Balanced
  <2>3. accepted[m] \in Nat /\ claims[m] \in Nat
    BY <1>2 DEF TypeOK
  <2> QED
    BY <1>2, <2>2, <2>3 DEF Balanced
<1>7. {x \in Mails : Held(x)'} = {x \in Mails : Held(x)}
  BY <1>4
<1>8. Ledger!Deliver(m)
  BY <1>2, <1>3, <1>5, <1>6, <1>7 DEF Ledger!Deliver
<1> QED
  BY <1>2, <1>8 DEF Ledger!LedgerNext

LEMMA SentWriteReports ==
    ASSUME TypeOK, AllOnce, Paid, NEW n \in Nodes, NEW l \in Lanes, MarkAsSentWrite(n, l)
    PROVE  [Ledger!LedgerNext]_Shown
<1>1. PICK m : m = lanes[n][l].mail
  OBVIOUS
<1>2. lanes[n][l].pc = "sentWrite" /\ m \in Mails
  <2>1. lanes[n][l].pc = "sentWrite" /\ lanes[n][l] \in Lane
    BY DEF MarkAsSentWrite, TypeOK
  <2> QED
    BY <1>1, <2>1 DEF Lane
<1> DEFINE row == SentWrite(rows[m], lanes[n][l].read, n)
<1>3. /\ rows' = [rows EXCEPT ![m] = row] /\ MoveLane(n, l, "sentReread")
      /\ claims' = claims /\ tick' = tick /\ batch' = batch /\ accepted' = accepted
  BY <1>1 DEF MarkAsSentWrite, Update
<1>4. row.status = "sent" /\ row.maxAttempts = rows[m].maxAttempts
  <2>1. rows[m] \in Row
    BY <1>2 DEF TypeOK
  <2> QED
    BY <2>1 DEF SentWrite, Row
<1> HIDE DEF row
<1>5. {x \in Mails : Held(x)'} = {x \in Mails : Held(x)}
  <2>1. \A x \in Mails : Held(x)' <=> Held(x)
    BY <1>2, <1>3, HeldByOthers DEF ActivePcs
  <2> QED
    BY <2>1
<1>6. Held(m)
  <2>1. lanes[n][l].mail # NoMail
    BY <1>1, <1>2, MailsAssumption
  <2>2. tick[n] = "running"
    BY <2>1 DEF AllOnce, Once, TypeOK
  <2> QED
    BY <1>1, <1>2, <2>2 DEF Held, InLane, ActivePcs
<1>7. accepted[m] > 0
  BY <1>1, <1>2 DEF Paid
<1>8. [x \in Mails |-> rows'[x].status] = [[x \in Mails |-> rows[x].status] EXCEPT ![m] = "sent"]
  <2>1. [x \in Mails |-> rows'[x].status] =
           [[x \in Mails |-> rows[x].status] EXCEPT ![m] = row.status]
    BY <1>2, <1>3, UpdateShown
  <2> QED
    BY <1>4, <2>1
<1>9. [x \in Mails |-> rows'[x].maxAttempts] = [x \in Mails |-> rows[x].maxAttempts]
  <2>1. \A x \in Mails : rows'[x].maxAttempts = rows[x].maxAttempts
    BY <1>2, <1>3, <1>4 DEF TypeOK
  <2> QED
    BY <2>1
<1>10. Ledger!ReportSent(m)
  BY <1>2, <1>3, <1>5, <1>6, <1>7, <1>8, <1>9 DEF Ledger!ReportSent
<1> QED
  BY <1>2, <1>10 DEF Ledger!LedgerNext

\* The worker that records a failure is the mail's only one, counts its claims
\* and lets go of it.
LEMMA FailureEndsWork ==
    ASSUME TypeOK, AllSolo, [Next]_vars,
           NEW n \in Nodes, NEW l \in Lanes, MarkAsFailureWrite(n, l),
           NEW m, m = lanes[n][l].mail
    PROVE  /\ m \in Mails /\ Work(m) # {} /\ Work(m)' = {}
           /\ claims[m] = lanes[n][l].attempts + 1
           /\ rows[m].maxAttempts = lanes[n][l].maxAttempts
<1>1. PICK w : w = [node |-> n, place |-> {l}, attempts |-> lanes[n][l].attempts,
                    maxAttempts |-> lanes[n][l].maxAttempts]
  OBVIOUS
<1>2. lanes[n][l].pc = "failWrite" /\ m \in Mails /\ lanes[n][l] \in LaneRecord
  <2>1. lanes[n][l].pc = "failWrite" /\ lanes[n][l] \in Lane
    BY DEF MarkAsFailureWrite, TypeOK
  <2> QED
    BY <2>1 DEF Lane
<1>3. w \in Work(m)
  <2>1. w \in WorkRecord /\ AtWork(w, m)
    BY <1>1, <1>2 DEF WorkRecord, LaneRecord, AtWork, InLane, ActivePcs
  <2> QED
    BY <2>1 DEF Work
<1>4. /\ rows[m].maxAttempts = w.maxAttempts /\ claims[m] = w.attempts + 1
      /\ \A v \in Work(m) : v = w
  BY <1>2, <1>3 DEF AllSolo, Solo
<1>5. MoveLane(n, l, "failReread") /\ tick' = tick
  BY DEF MarkAsFailureWrite
<1>6. Work(m)' \subseteq Work(m)
  <2>1. \A p \in Nodes : ~Commit(p) /\ \A k \in Lanes : ~TakeJob(p, k)
    BY <1>2, <1>5 DEF Commit, TakeJob, SetLane, MoveLane, TypeOK
  <2> SUFFICES ASSUME NEW v \in Work(m)', v \notin Work(m) PROVE FALSE
    OBVIOUS
  <2>2. v \in WorkRecord /\ AtWork(v, m)' /\ ~AtWork(v, m) /\ v.node \in Nodes
    BY DEF Work, WorkRecord
  <2> QED
    BY <1>2, <2>1, <2>2, WorkOrigin
<1>7. w \notin Work(m)'
  <2>1. lanes'[n][l].pc = "failReread"
    BY <1>2, <1>5 DEF MoveLane, TypeOK, LaneRecord
  <2> QED
    BY <1>1, <2>1 DEF Work, AtWork, InLane, ActivePcs
<1> QED
  BY <1>1, <1>2, <1>3, <1>4, <1>6, <1>7

LEMMA FailureWriteReports ==
    ASSUME TypeOK, AllOnce, AllSolo, [Next]_vars,
           NEW n \in Nodes, NEW l \in Lanes, MarkAsFailureWrite(n, l)
    PROVE  [Ledger!LedgerNext]_Shown
<1>1. PICK m : m = lanes[n][l].mail
  OBVIOUS
<1>2. /\ m \in Mails /\ Work(m) # {} /\ Work(m)' = {}
      /\ claims[m] = lanes[n][l].attempts + 1
      /\ rows[m].maxAttempts = lanes[n][l].maxAttempts
  BY <1>1, FailureEndsWork
<1> DEFINE row == FailureWrite(rows[m], lanes[n][l].attempts, lanes[n][l].maxAttempts, n)
<1>3. /\ rows' = [rows EXCEPT ![m] = row] /\ MoveLane(n, l, "failReread")
      /\ claims' = claims /\ tick' = tick /\ batch' = batch /\ accepted' = accepted
  BY <1>1 DEF MarkAsFailureWrite, Update
<1>4. /\ row.status = IF claims[m] < rows[m].maxAttempts THEN "pending" ELSE "failed"
      /\ row.maxAttempts = rows[m].maxAttempts
  <2>1. rows[m] \in Row
    BY <1>2 DEF TypeOK
  <2> QED
    BY <1>2, <2>1 DEF FailureWrite, ShouldRetry, Row
<1> HIDE DEF row
<1>5. Held(m) /\ ~Held(m)'
  <2>1. (TypeOK /\ AllOnce)'
    BY NextTyped, OnceSteps
  <2>2. Held(m)' <=> Work(m)' # {}
    BY <1>2, <2>1, HeldIsWorkNext
  <2> QED
    BY <1>2, <2>2, HeldIsWork
<1>6. {x \in Mails : Held(x)'} = {x \in Mails : Held(x)} \ {m}
  <2>1. \A x \in Mails : x # m => (Held(x)' <=> Held(x))
    BY <1>1, <1>3, HeldByOthers
  <2> QED
    BY <1>5, <2>1
<1>7. [x \in Mails |-> rows'[x].status] =
         [[x \in Mails |-> rows[x].status] EXCEPT ![m] =
            IF claims[m] < rows[m].maxAttempts THEN "pending" ELSE "failed"]
  <2>1. [x \in Mails |-> rows'[x].status] =
           [[x \in Mails |-> rows[x].status] EXCEPT ![m] = row.status]
    BY <1>2, <1>3, UpdateShown
  <2> QED
    BY <1>4, <2>1
<1>8. [x \in Mails |-> rows'[x].maxAttempts] = [x \in Mails |-> rows[x].maxAttempts]
  <2>1. \A x \in Mails : rows'[x].maxAttempts = rows[x].maxAttempts
    BY <1>2, <1>3, <1>4 DEF TypeOK
  <2> QED
    BY <2>1
<1>9. Ledger!ReportFailure(m)
  BY <1>2, <1>3, <1>5, <1>6, <1>7, <1>8 DEF Ledger!ReportFailure
<1> QED
  BY <1>2, <1>9 DEF Ledger!LedgerNext

\* A commit begins a try of every mail it claimed; if its answer is lost, so are
\* the tries.
LEMMA CommitBeginsTries ==
    ASSUME TypeOK, AllOnce, SelectionStable, AllSolo, NEW n \in Nodes,
           Commit(n) \/ CommitAnswerLost(n)
    PROVE  [Ledger!LedgerNext]_Shown
<1>1. PICK S : S = Locked(n)
  OBVIOUS
<1>2. /\ tick[n] = "selected" /\ S = {batch[n][i].mail : i \in DOMAIN batch[n]}
      /\ \A i \in DOMAIN batch[n] : IsCandidate(rows[batch[n][i].mail])
      /\ S \subseteq Mails
  BY <1>1 DEF Commit, CommitAnswerLost, SelectionStable, Locked
<1>3. /\ rows' = [m \in Mails |-> IF m \in S THEN ClaimWrite(rows[m], n) ELSE rows[m]]
      /\ claims' = [m \in Mails |-> IF m \in S THEN claims[m] + 1 ELSE claims[m]]
      /\ accepted' = accepted /\ lanes' = lanes
  BY <1>1 DEF Commit, CommitAnswerLost, ClaimRows
<1>4. \A m \in S : rows[m].status = "pending"
  BY <1>2 DEF IsCandidate
<1>5. \A m \in S : ~Held(m) /\ claims[m] < rows[m].maxAttempts
  <2> TAKE m \in S
  <2>1. Solo(m) /\ rows[m] \in Row /\ m \in Mails
    BY <1>2 DEF AllSolo, TypeOK
  <2>2. Work(m) = {} /\ claims[m] < rows[m].maxAttempts
    BY <1>4, <2>1 DEF Solo
  <2> QED
    BY <2>1, <2>2, HeldIsWork
<1>6. \A m \in Mails : rows'[m].status = (IF m \in S THEN "processing" ELSE rows[m].status)
                     /\ rows'[m].maxAttempts = rows[m].maxAttempts
  <2> TAKE m \in Mails
  <2>1. rows[m] \in Row
    BY DEF TypeOK
  <2> QED
    BY <1>3, <2>1 DEF ClaimWrite, Row
<1>7. \A p \in Nodes \ {n} : tick'[p] = tick[p] /\ batch'[p] = batch[p]
  BY DEF Commit, CommitAnswerLost, TypeOK
<1>8. ASSUME Commit(n) PROVE tick'[n] = "running" /\ batch'[n] = batch[n]
  BY <1>8 DEF Commit, TypeOK
<1>9. ASSUME ~Commit(n) PROVE tick'[n] = "idle"
  BY <1>9 DEF CommitAnswerLost, TypeOK
<1>10. \A m \in Mails : Held(m)' <=> (Held(m) \/ (Commit(n) /\ m \in S))
  <2> TAKE m \in Mails
  <2>1. \A p \in Nodes, l \in Lanes : InLane(p, l, m)' <=> InLane(p, l, m)
    BY <1>3 DEF InLane
  <2>2. \A p \in Nodes \ {n} : InBatch(p, m)' <=> InBatch(p, m)
    BY <1>7 DEF InBatch
  <2>3. tick[n] # "running" /\ \A l \in Lanes : ~InLane(n, l, m)
    <3>1. tick[n] # "running"
      BY <1>2
    <3>2. \A l \in Lanes : lanes[n][l].mail # m
      BY <3>1, MailsAssumption DEF AllOnce, Once
    <3> QED
      BY <3>1, <3>2 DEF InLane
  <2>4. \A p \in Nodes \ {n} : tick'[p] = tick[p]
    BY <1>7
  <2>5. CASE Commit(n)
    <3>1. batch'[n] = batch[n] /\ tick'[n] = "running"
      BY <1>8, <2>5
    <3>2. InBatch(n, m)' <=> m \in S
      BY <1>2, <3>1 DEF InBatch
    <3> QED
      BY <2>1, <2>2, <2>3, <2>4, <2>5, <3>1, <3>2 DEF Held
  <2>6. CASE ~Commit(n)
    <3>1. tick'[n] = "idle"
      BY <1>9, <2>6
    <3> QED
      BY <2>1, <2>2, <2>3, <2>4, <2>6, <3>1 DEF Held
  <2> QED
    BY <2>5, <2>6
<1>11. CASE S = {}
  <2>1. \A m \in Mails : rows'[m].status = rows[m].status
    BY <1>6, <1>11
  <2>2. \A m \in Mails : rows'[m].maxAttempts = rows[m].maxAttempts
    BY <1>6
  <2>3. \A m \in Mails : Held(m)' => Held(m)
    BY <1>10, <1>11
  <2>4. claims' = claims
    BY <1>3, <1>11 DEF TypeOK
  <2> QED
    BY <1>3, <2>1, <2>2, <2>3, <2>4, DropOrStutter
<1>12. CASE S # {}
  <2>1. [m \in Mails |-> rows'[m].status] =
           [m \in Mails |-> IF m \in S THEN "processing"
                            ELSE [x \in Mails |-> rows[x].status][m]]
    BY <1>6
  <2>2. [m \in Mails |-> rows'[m].maxAttempts] = [m \in Mails |-> rows[m].maxAttempts]
    BY <1>6
  <2>3. {m \in Mails : Held(m)'} \in
           {{m \in Mails : Held(m)}, {m \in Mails : Held(m)} \cup S}
    <3>1. CASE Commit(n)
      <4>1. {m \in Mails : Held(m)'} = {m \in Mails : Held(m)} \cup S
        BY <1>2, <1>10, <3>1
      <4> QED
        BY <4>1
    <3>2. CASE ~Commit(n)
      <4>1. {m \in Mails : Held(m)'} = {m \in Mails : Held(m)}
        BY <1>10, <3>2
      <4> QED
        BY <4>1
    <3> QED
      BY <3>1, <3>2
  <2>4. \A m \in S : /\ [x \in Mails |-> rows[x].status][m] = "pending"
                     /\ m \notin {x \in Mails : Held(x)}
                     /\ claims[m] < [x \in Mails |-> rows[x].maxAttempts][m]
    BY <1>2, <1>4, <1>5
  <2>5. Ledger!Begin(S)
    BY <1>3, <1>12, <2>1, <2>2, <2>3, <2>4 DEF Ledger!Begin
  <2> QED
    BY <1>2, <2>5 DEF Ledger!LedgerNext
<1> QED
  BY <1>11, <1>12

\* The steps the ledger has an action for.
LedgerActions ==
    \/ \E m \in Mails : Create(m) \/ \E event \in DeliveryEvents : Webhook(m, event)
    \/ \E n \in Nodes : Commit(n) \/ CommitAnswerLost(n)
    \/ \E n \in Nodes, l \in Lanes :
          \/ SendAccepted(n, l) \/ SendReplyLost(n, l)
          \/ MarkAsSentWrite(n, l) \/ MarkAsFailureWrite(n, l)

\* Every other step only gets work to a lane, moves it on or loses it.
LEMMA OthersDrop ==
    ASSUME Operators = {}, TypeOK, AllOnce, [Next]_vars, ~LedgerActions
    PROVE  [Ledger!LedgerNext]_Shown
<1>1. accepted' = accepted
  BY AcceptedSteps DEF LedgerActions
<1>2. claims' = claims
  <2>1. \A m \in Mails : claims'[m] = claims[m]
    BY ClaimsSteps DEF LedgerActions
  <2>2. claims' \in [Mails -> Nat] /\ claims \in [Mails -> Nat]
    BY NextTyped DEF TypeOK
  <2> QED
    BY <2>1, <2>2
<1>3. UNCHANGED rows \/ \E x \in Mails : BecomeDue(x)
  <2>1. ASSUME NEW n \in Nodes, NEW l \in Lanes, LaneStep(n, l) \/ LaneFault(n, l)
        PROVE  UNCHANGED rows
    BY <2>1 DEF LedgerActions, LaneStep, LaneFault, TakeJob, SendRejected, MarkAsSentRead,
                JobDone, SentQueryFails, FailureQueryFails
  <2>2. ASSUME NEW n \in Nodes, \/ TickStart(n) \/ ClaimStep(n) \/ TickEnd(n)
                                \/ ClaimFails(n) \/ CommitAnswerLost(n) \/ Crash(n)
        PROVE  UNCHANGED rows
    BY <2>2 DEF LedgerActions, ClaimStep, TickStart, Select, SelectNone, TickEnd,
                ClaimFails, Crash
  <2>3. UNCHANGED vars => UNCHANGED rows
    BY DEF vars
  <2> QED
    BY <2>1, <2>2, <2>3 DEF Next, LedgerActions
<1>4. \A m \in Mails : /\ rows'[m].status = rows[m].status
                       /\ rows'[m].maxAttempts = rows[m].maxAttempts
  <2>1. ASSUME NEW x \in Mails, BecomeDue(x), NEW m \in Mails
        PROVE  /\ rows'[m].status = rows[m].status
               /\ rows'[m].maxAttempts = rows[m].maxAttempts
    <3>1. rows[m] \in Row /\ rows[x] \in Row
      BY DEF TypeOK
    <3>2. rows'[m] = IF m = x THEN [rows[x] EXCEPT !.nextAttemptAt = "due"] ELSE rows[m]
      BY <2>1 DEF BecomeDue, TypeOK
    <3> QED
      BY <3>1, <3>2 DEF Row
  <2> QED
    BY <1>3, <2>1
<1>5. ASSUME NEW m \in Mails, Held(m)' PROVE Held(m)
  <2>1. (TypeOK /\ AllOnce)'
    BY NextTyped, OnceSteps
  <2>2. Work(m)' # {}
    BY <1>5, <2>1, HeldIsWorkNext
  <2>3. Work(m) # {}
    <3>1. CASE \E n \in Nodes, l \in Lanes : TakeJob(n, l)
      <4>1. HandedOn(m) \/ Rested(m)
        BY <3>1, TakeJobHands
      <4> QED
        BY <2>2, <4>1 DEF HandedOn, Rested
    <3>2. CASE ~\E n \in Nodes, l \in Lanes : TakeJob(n, l)
      <4>1. Rested(m) \/ GivenBack(m)
        BY <3>2, OtherSteps DEF LedgerActions
      <4> QED
        BY <2>2, <4>1 DEF Rested, GivenBack
    <3> QED
      BY <3>1, <3>2
  <2> QED
    BY <2>3, HeldIsWork
<1> QED
  BY <1>1, <1>2, <1>4, <1>5, DropOrStutter

LEMMA LedgerSteps ==
    ASSUME Operators = {}
    PROVE  /\ TypeOK /\ AllOnce /\ SelectionStable /\ AllSolo /\ Paid /\ AllBalanced
           /\ [Next]_vars
           => [Ledger!LedgerNext]_Shown
<1> SUFFICES ASSUME TypeOK, AllOnce, SelectionStable, AllSolo, Paid, AllBalanced, [Next]_vars
             PROVE  [Ledger!LedgerNext]_Shown
  OBVIOUS
<1>1. ASSUME NEW m \in Mails, Create(m) PROVE [Ledger!LedgerNext]_Shown
  BY <1>1, CreateSubmits DEF Ledger!LedgerNext
<1>2. ASSUME NEW m \in Mails, NEW event \in DeliveryEvents, Webhook(m, event)
      PROVE  [Ledger!LedgerNext]_Shown
  BY <1>2, WebhookReceipt
<1>3. ASSUME NEW n \in Nodes, Commit(n) \/ CommitAnswerLost(n)
      PROVE  [Ledger!LedgerNext]_Shown
  BY <1>3, CommitBeginsTries
<1>4. ASSUME NEW n \in Nodes, NEW l \in Lanes, SendAccepted(n, l) \/ SendReplyLost(n, l)
      PROVE  [Ledger!LedgerNext]_Shown
  BY <1>4, AcceptDelivers DEF AllBalanced
<1>5. ASSUME NEW n \in Nodes, NEW l \in Lanes, MarkAsSentWrite(n, l)
      PROVE  [Ledger!LedgerNext]_Shown
  BY <1>5, SentWriteReports
<1>6. ASSUME NEW n \in Nodes, NEW l \in Lanes, MarkAsFailureWrite(n, l)
      PROVE  [Ledger!LedgerNext]_Shown
  BY <1>6, FailureWriteReports
<1> QED
  BY <1>1, <1>2, <1>3, <1>4, <1>5, <1>6, OthersDrop DEF LedgerActions

\* The refinement: while nobody requeues, the worker on any number of hosts and
\* lanes, with every crash, failing query, lost answer and webhook, does nothing
\* that the ledger of tries would not.
THEOREM LedgerImplemented ==
    ASSUME Operators = {}
    PROVE  Spec => ImplementsLedger
<1>1. Init => Ledger!LedgerInit
  <2> SUFFICES ASSUME Init PROVE Ledger!LedgerInit
    OBVIOUS
  <2>1. \A m \in Mails : rows[m].status = "absent" /\ rows[m].maxAttempts = 0
    BY DEF Init, AbsentRow, NewRow
  <2>2. \A m \in Mails : ~Held(m)
    BY DEF Init, Held
  <2>3. claims = [m \in Mails |-> 0] /\ accepted = [m \in Mails |-> 0]
    BY DEF Init
  <2> QED
    BY <2>1, <2>2, <2>3 DEF Ledger!LedgerInit
<1> QED
  BY <1>1, LedgerSteps, TypeCorrect, HeldOnce, SelectionsStayStable, StaysSolo, LanesPaid,
     StaysBalanced, PTL DEF Spec, ImplementsLedger, Ledger!LedgerSpec, Shown

\* A lane that writes to a row works on its mail.
LEMMA WriterWorks ==
    ASSUME TypeOK, NEW n \in Nodes, NEW l \in Lanes, NEW m \in Mails,
           lanes[n][l].mail = m, lanes[n][l].pc \in ActivePcs
    PROVE  \E w \in Work(m) : w.node = n /\ w.place = {l}
<1>1. lanes[n][l] \in LaneRecord
  BY DEF TypeOK, Lane
<1> DEFINE w == [node |-> n, place |-> {l}, attempts |-> lanes[n][l].attempts,
                 maxAttempts |-> lanes[n][l].maxAttempts]
<1>2. w \in WorkRecord /\ AtWork(w, m)
  BY <1>1 DEF WorkRecord, AtWork, InLane, LaneRecord
<1>3. w.node = n /\ w.place = {l}
  OBVIOUS
<1> QED
  BY <1>2, <1>3 DEF Work

\* Without requeues a mail whose worker is gone stays in processing, with nobody
\* working on it, until a webhook ends it: no host ever takes it over.
THEOREM OrphansStay ==
    ASSUME Operators = {}
    PROVE  Spec => OrphanIsLeftAlone
<1>1. TypeOK /\ AllOnce /\ SelectionStable /\ AllSolo /\ [Next]_vars =>
         \A m \in Mails : Orphan(m) => Orphan(m)' \/ faults'["receipt"] # faults["receipt"]
  <2> SUFFICES ASSUME TypeOK, AllOnce, SelectionStable, AllSolo, [Next]_vars,
                      NEW m \in Mails, Orphan(m), faults'["receipt"] = faults["receipt"]
               PROVE  Orphan(m)'
    OBVIOUS
  <2>1. rows[m].status = "processing" /\ Work(m) = {} /\ rows[m] \in Row
    BY HeldIsWork DEF Orphan, TypeOK
  <2>2. Work(m)' = {}
    <3>1. Rested(m) \/ HandedOn(m) \/ GivenBack(m) \/ Begun(m)
      BY WorkSteps
    <3> QED
      BY <2>1, <3>1 DEF Rested, HandedOn, GivenBack, Begun
  <2>3. ~Held(m)'
    <3>1. (TypeOK /\ AllOnce)'
      BY NextTyped, OnceSteps
    <3> QED
      BY <2>2, <3>1, HeldIsWorkNext
  <2>4. ~HandledRow(m)
    <3>1. ASSUME NEW event \in DeliveryEvents, Webhook(m, event) PROVE FALSE
      <4>1. faults["receipt"] \in Nat /\ faults'["receipt"] = faults["receipt"] + 1
        BY <3>1 DEF Webhook, Fault, TypeOK
      <4> QED
        BY <4>1
    <3> QED
      BY <3>1 DEF HandledRow
  <2>5. ~UpdatedRow(m)
    <3> SUFFICES ASSUME NEW n \in Nodes, NEW l \in Lanes, lanes[n][l].mail = m,
                        lanes[n][l].pc \in ActivePcs
                 PROVE  FALSE
      BY DEF UpdatedRow, MarkAsSentWrite, MarkAsFailureWrite, ActivePcs
    <3> QED
      BY <2>1, WriterWorks
  <2>6. ASSUME NEW n \in Nodes, rowLock[m] = n PROVE FALSE
    <3>1. m \in Locked(n)
      BY <2>6 DEF Locked
    <3> QED
      BY <2>1, <3>1 DEF SelectionStable, IsCandidate
  <2>7. RowStep(m) /\ Exists(m)
    BY <2>1, RowSteps DEF Exists
  <2>8. rows'[m].status = "processing"
    BY <2>1, <2>4, <2>5, <2>6, <2>7 DEF RowStep, Row
  <2> QED
    BY <2>3, <2>8 DEF Orphan
<1> QED
  BY <1>1, TypeCorrect, HeldOnce, SelectionsStayStable, StaysSolo, PTL
     DEF Spec, OrphanIsLeftAlone

-----------------------------------------------------------------------------
(* Only the worker writes the rows: nobody requeues, no webhook comes.     *)

\* A mail given up has no worker left and had all its tries; the date of a
\* failure is kept on such mails and on no other.
GivenUp(m) ==
    /\ rows[m].status = "failed" =>
          /\ Work(m) = {}
          /\ rows[m].attempts = rows[m].maxAttempts /\ claims[m] = rows[m].attempts
    /\ rows[m].failedAt <=> rows[m].status = "failed"

AllGivenUp == \A m \in Mails : GivenUp(m)

LEMMA GivenUpSteps ==
    ASSUME Operators = {}, MaxReceipts = 0
    PROVE  TypeOK /\ AllOnce /\ SelectionStable /\ AllSolo /\ AllGivenUp /\ [Next]_vars
           => AllGivenUp'
<1> SUFFICES ASSUME TypeOK, AllOnce, SelectionStable, AllSolo, AllGivenUp, [Next]_vars,
                    NEW m \in Mails
             PROVE  GivenUp(m)'
  BY DEF AllGivenUp
<1>1. rows[m] \in Row /\ claims[m] \in Nat
  BY DEF TypeOK
<1>2. GivenUp(m) /\ Solo(m)
  BY DEF AllGivenUp, AllSolo
<1>3. RowStep(m) /\ ~HandledRow(m)
  BY RowSteps DEF HandledRow
<1>4. ASSUME rows[m].status = "failed"
      PROVE  Work(m)' = {} /\ claims'[m] = claims[m]
  <2>1. Rested(m) \/ HandedOn(m) \/ GivenBack(m) \/ Begun(m)
    BY WorkSteps
  <2>2. Work(m) = {}
    BY <1>2, <1>4 DEF GivenUp
  <2> QED
    BY <1>4, <2>1, <2>2 DEF Rested, HandedOn, GivenBack, Begun
<1>5. ASSUME rows'[m].status = rows[m].status, rows'[m].attempts = rows[m].attempts,
             rows'[m].maxAttempts = rows[m].maxAttempts, rows'[m].failedAt = rows[m].failedAt
      PROVE  GivenUp(m)'
  BY <1>2, <1>4, <1>5 DEF GivenUp
<1>6. ASSUME rows'[m].status # "failed", ~rows'[m].failedAt PROVE GivenUp(m)'
  BY <1>6 DEF GivenUp
<1>7. CASE UpdatedRow(m)
  <2>1. PICK n \in Nodes, l \in Lanes :
           /\ lanes[n][l].mail = m
           /\ \/ /\ MarkAsSentWrite(n, l)
                 /\ \E k \in Nat : rows'[m] = SentWrite(rows[m], k, n)
              \/ /\ MarkAsFailureWrite(n, l)
                 /\ rows'[m] = FailureWrite(rows[m], lanes[n][l].attempts,
                                            lanes[n][l].maxAttempts, n)
    BY <1>7 DEF UpdatedRow
  <2>2. Work(m) # {}
    <3>1. lanes[n][l].pc \in ActivePcs
      BY <2>1 DEF MarkAsSentWrite, MarkAsFailureWrite, ActivePcs
    <3> QED
      BY <2>1, <3>1, WriterWorks
  <2>3. ASSUME NEW k \in Nat, rows'[m] = SentWrite(rows[m], k, n) PROVE GivenUp(m)'
    <3>1. ~rows[m].failedAt
      BY <1>2, <2>2 DEF GivenUp
    <3>2. rows'[m].status = "sent" /\ rows'[m].failedAt = rows[m].failedAt
      BY <1>1, <2>3 DEF SentWrite, Row
    <3> QED
      BY <1>6, <3>1, <3>2
  <2>4. CASE /\ MarkAsFailureWrite(n, l)
             /\ rows'[m] = FailureWrite(rows[m], lanes[n][l].attempts,
                                        lanes[n][l].maxAttempts, n)
    <3>1. /\ Work(m)' = {} /\ claims[m] = lanes[n][l].attempts + 1
          /\ rows[m].maxAttempts = lanes[n][l].maxAttempts
      BY <2>1, <2>4, FailureEndsWork
    <3>2. claims'[m] = claims[m] /\ claims[m] <= rows[m].maxAttempts
      BY <1>2, <2>4 DEF MarkAsFailureWrite, Solo
    <3>3. lanes[n][l].attempts \in Nat /\ lanes[n][l].maxAttempts \in Nat
      BY DEF TypeOK, Lane, LaneRecord
    <3>4. /\ rows'[m].status = IF claims[m] < rows[m].maxAttempts THEN "pending" ELSE "failed"
          /\ rows'[m].attempts = claims[m] /\ rows'[m].maxAttempts = rows[m].maxAttempts
          /\ rows'[m].failedAt = ~(claims[m] < rows[m].maxAttempts)
      BY <1>1, <2>4, <3>1 DEF FailureWrite, ShouldRetry, Row
    <3>5. CASE claims[m] < rows[m].maxAttempts
      BY <1>6, <3>4, <3>5
    <3>6. CASE ~(claims[m] < rows[m].maxAttempts)
      <4>1. claims[m] = rows[m].maxAttempts
        <5>1. rows[m].maxAttempts \in Nat
          BY <1>1 DEF Row
        <5> QED
          BY <1>1, <3>2, <3>6, <5>1
      <4> QED
        BY <3>1, <3>2, <3>4, <3>6, <4>1 DEF GivenUp
    <3> QED
      BY <3>5, <3>6
  <2> QED
    BY <2>1, <2>3, <2>4
<1>8. ASSUME NEW k \in Nat \ {0}, NEW at, rows'[m] = NewRow(rows[m].priority, k, at)
      PROVE  GivenUp(m)'
  <2>1. rows'[m].status # "failed" /\ ~rows'[m].failedAt
    BY <1>8 DEF NewRow
  <2> QED
    BY <1>6, <2>1
<1>9. CASE rows'[m] = [rows[m] EXCEPT !.nextAttemptAt = "due"]
  <2>1. /\ rows'[m].status = rows[m].status /\ rows'[m].attempts = rows[m].attempts
        /\ rows'[m].maxAttempts = rows[m].maxAttempts /\ rows'[m].failedAt = rows[m].failedAt
    BY <1>1, <1>9 DEF Row
  <2> QED
    BY <1>5, <2>1
<1>10. ASSUME NEW n \in Nodes, rowLock[m] = n, rows'[m] = ClaimWrite(rows[m], n)
       PROVE  GivenUp(m)'
  <2>1. rows[m].status = "pending"
    <3>1. m \in Locked(n)
      BY <1>10 DEF Locked
    <3> QED
      BY <3>1 DEF SelectionStable, IsCandidate
  <2>2. rows'[m].status = "processing" /\ rows'[m].failedAt = rows[m].failedAt
    BY <1>1, <1>10 DEF ClaimWrite, Row
  <2>3. ~rows'[m].failedAt
    BY <1>2, <2>1, <2>2 DEF GivenUp
  <2> QED
    BY <1>6, <2>2, <2>3
<1> QED
  BY <1>3, <1>5, <1>7, <1>8, <1>9, <1>10 DEF RowStep

LEMMA StaysGivenUp ==
    ASSUME Operators = {}, MaxReceipts = 0
    PROVE  Spec => []AllGivenUp
<1>1. Init => AllGivenUp
  <2> SUFFICES ASSUME Init, NEW m \in Mails PROVE GivenUp(m)
    BY DEF AllGivenUp
  <2>1. rows[m].status = "absent" /\ rows[m].failedAt = FALSE
    BY DEF Init, AbsentRow, NewRow
  <2> QED
    BY <2>1 DEF GivenUp
<1> QED
  BY <1>1, GivenUpSteps, TypeCorrect, HeldOnce, SelectionsStayStable, StaysSolo, PTL DEF Spec

\* Without requeues and webhooks a mail is given up only after all the attempts
\* it was allowed, each of them a claim, whatever hosts and queries failed.
THEOREM GivenUpIsExhausted ==
    ASSUME Operators = {}, MaxReceipts = 0
    PROVE  Spec => []FailedMeansExhausted
<1>1. AllGivenUp => FailedMeansExhausted
  BY DEF AllGivenUp, GivenUp, FailedMeansExhausted
<1> QED
  BY <1>1, StaysGivenUp, PTL

\* Under the same conditions exactly the mails given up carry a date of failure.
THEOREM FailureDatesAreCurrent ==
    ASSUME Operators = {}, MaxReceipts = 0
    PROVE  Spec => []FailureDateIsCurrent
<1>1. AllGivenUp => FailureDateIsCurrent
  BY DEF AllGivenUp, GivenUp, FailureDateIsCurrent
<1> QED
  BY <1>1, StaysGivenUp, PTL
-----------------------------------------------------------------------------
\* While a mail is shown as sent, the only work left on it is a lane that waits
\* for its re-read.
Late(m) ==
    rows[m].status = "sent" =>
       /\ \A n \in Nodes : ~(tick[n] = "running" /\ InBatch(n, m))
       /\ \A n \in Nodes, l \in Lanes :
             InLane(n, l, m) => lanes[n][l].pc = "sentReread"

AllLate == \A m \in Mails : Late(m)

LEMMA SentStays ==
    ASSUME Operators = {}, MaxReceipts = 0, TypeOK, SelectionStable, [Next]_vars,
           NEW m \in Mails, Late(m), rows[m].status = "sent"
    PROVE  rows'[m].status = "sent"
<1>1. rows[m] \in Row
  BY DEF TypeOK
<1>2. RowStep(m) /\ ~HandledRow(m)
  BY RowSteps DEF HandledRow
<1>3. ~UpdatedRow(m)
  <2> SUFFICES ASSUME NEW n \in Nodes, NEW l \in Lanes, lanes[n][l].mail = m,
                      MarkAsSentWrite(n, l) \/ MarkAsFailureWrite(n, l)
               PROVE  FALSE
    BY DEF UpdatedRow
  <2>1. InLane(n, l, m) /\ lanes[n][l].pc # "sentReread"
    BY DEF InLane, ActivePcs, MarkAsSentWrite, MarkAsFailureWrite
  <2> QED
    BY <2>1 DEF Late
<1>4. ASSUME NEW n \in Nodes, rowLock[m] = n PROVE FALSE
  <2>1. m \in Locked(n)
    BY <1>4 DEF Locked
  <2> QED
    BY <2>1 DEF SelectionStable, IsCandidate
<1>5. Exists(m)
  BY DEF Exists
<1> QED
  BY <1>1, <1>2, <1>3, <1>4, <1>5 DEF RowStep, Row

\* No lane gets to work on a sent mail, and none turns to record a failure.
LEMMA LateKept ==
    ASSUME Operators = {}, MaxReceipts = 0, MaxDbFaults = 0,
           TypeOK, SelectionStable, [Next]_vars,
           NEW m \in Mails, Late(m), rows[m].status = "sent"
    PROVE  Late(m)'
<1>1. ASSUME NEW n \in Nodes, tick'[n] = "running", InBatch(n, m)' PROVE FALSE
  <2>1. PICK i \in DOMAIN batch'[n] : batch'[n][i].mail = m
    BY <1>1 DEF InBatch
  <2>2. CASE Commit(n)
    <3>1. batch'[n] = batch[n] /\ tick[n] = "selected"
      BY <2>2 DEF Commit
    <3> QED
      BY <2>1, <3>1 DEF SelectionStable, IsCandidate
  <2>3. CASE ~Commit(n)
    <3>1. tick[n] = "running" /\ \E j \in DOMAIN batch[n] : batch[n][j] = batch'[n][i]
      BY <1>1, <2>3, RunningBatch
    <3> QED
      BY <2>1, <3>1 DEF Late, InBatch
  <2> QED
    BY <2>2, <2>3
<1>2. ASSUME NEW n \in Nodes, NEW l \in Lanes, InLane(n, l, m)'
      PROVE  lanes'[n][l].pc = "sentReread"
  <2> DEFINE x == lanes[n][l]
             y == lanes'[n][l]
  <2>1. y.mail = m /\ y.pc \in ActivePcs /\ y.mail # NoMail
    BY <1>2, MailsAssumption DEF InLane
  <2>2. LaneChange(n, l)
    BY LaneChanges
  <2>3. ~TakeJob(n, l)
    <3> SUFFICES ASSUME TakeJob(n, l) PROVE FALSE
      OBVIOUS
    <3>1. y.mail = Head(batch[n]).mail /\ batch[n] # <<>> /\ tick[n] = "running"
      BY DEF TakeJob, SetLane, TypeOK
    <3>2. 1 \in DOMAIN batch[n] /\ Head(batch[n]) = batch[n][1]
      <4>1. batch[n] \in Seq(Job)
        BY DEF TypeOK
      <4> QED
        BY <3>1, <4>1
    <3> QED
      BY <2>1, <3>1, <3>2 DEF Late, InBatch
  <2>4. ~SentQueryFails(n, l)
    BY DEF SentQueryFails, Fault, TypeOK
  <2>5. x.mail = m /\ x.pc \in ActivePcs => x.pc = "sentReread"
    BY DEF Late, InLane
  <2>6. CASE y = x
    BY <2>1, <2>5, <2>6
  <2>7. CASE y # x
    <3>1. x.mail = m /\ \/ SendAccepted(n, l) \/ SendRejected(n, l) \/ SendReplyLost(n, l)
                        \/ MarkAsSentRead(n, l) \/ MarkAsSentWrite(n, l)
                        \/ MarkAsFailureWrite(n, l)
      BY <2>1, <2>2, <2>3, <2>4, <2>7 DEF LaneChange, Carried
    <3>2. x.pc \in ActivePcs /\ x.pc # "sentReread"
      BY <3>1 DEF SendAccepted, SendRejected, SendReplyLost, MarkAsSentRead,
                  MarkAsSentWrite, MarkAsFailureWrite, ActivePcs
    <3> QED
      BY <2>5, <3>1, <3>2
  <2> QED
    BY <2>6, <2>7
<1> QED
  BY <1>1, <1>2 DEF Late

\* The worker that writes sent is the only one, and it now waits for its re-read.
LEMMA LateBegins ==
    ASSUME Operators = {}, MaxReceipts = 0, TypeOK, AllSolo, SelectionStable, [Next]_vars,
           NEW m \in Mails, rows[m].status # "sent", rows'[m].status = "sent"
    PROVE  Late(m)'
<1>1. rows[m] \in Row
  BY DEF TypeOK
<1>2. RowStep(m) /\ ~HandledRow(m)
  BY RowSteps DEF HandledRow
<1>3. PICK n \in Nodes, l \in Lanes : lanes[n][l].mail = m /\ MarkAsSentWrite(n, l)
  <2>1. ASSUME NEW k, NEW j, NEW n PROVE FailureWrite(rows[m], k, j, n).status # "sent"
    BY <1>1 DEF FailureWrite, Row
  <2>2. ASSUME NEW p, NEW k, NEW at PROVE NewRow(p, k, at).status # "sent"
    BY DEF NewRow
  <2>3. ASSUME NEW n \in Nodes PROVE ClaimWrite(rows[m], n).status # "sent"
    BY <1>1 DEF ClaimWrite, Row
  <2>4. rows'[m] # [rows[m] EXCEPT !.nextAttemptAt = "due"] /\ rows'[m] # rows[m]
    BY <1>1 DEF Row
  <2>5. UpdatedRow(m)
    <3>1. \A n \in Nodes : rows'[m] # ClaimWrite(rows[m], n)
      BY <2>3
    <3>2. \A k \in Nat \ {0}, at \in {"future", "due"} :
             rows'[m] # NewRow(rows[m].priority, k, at)
      BY <2>2
    <3> QED
      BY <1>2, <2>4, <3>1, <3>2 DEF RowStep
  <2> QED
    BY <2>1, <2>5 DEF UpdatedRow
<1>4. /\ lanes[n][l].pc = "sentWrite" /\ MoveLane(n, l, "sentReread")
      /\ tick' = tick /\ batch' = batch
  BY <1>3 DEF MarkAsSentWrite
<1>5. PICK w \in Work(m) : w.node = n /\ w.place = {l}
  BY <1>3, <1>4, WriterWorks DEF ActivePcs
<1>6. \A v \in Work(m) : v = w
  BY <1>5 DEF AllSolo, Solo
<1>7. /\ lanes'[n][l].pc = "sentReread"
      /\ \A p \in Nodes, k \in Lanes : p # n \/ k # l => lanes'[p][k] = lanes[p][k]
  <2>1. lanes[n][l] \in LaneRecord
    BY DEF TypeOK, Lane
  <2> QED
    BY <1>4, <2>1 DEF MoveLane, TypeOK, LaneRecord
<1>8. ASSUME NEW p \in Nodes, NEW k \in Lanes, InLane(p, k, m)'
      PROVE  lanes'[p][k].pc = "sentReread"
  <2>1. CASE p = n /\ k = l
    BY <1>7, <2>1
  <2>2. CASE p # n \/ k # l
    <3>1. lanes[p][k].mail = m /\ lanes[p][k].pc \in ActivePcs
      BY <1>7, <1>8, <2>2 DEF InLane
    <3>2. \E v \in Work(m) : v.node = p /\ v.place = {k}
      BY <3>1, WriterWorks
    <3> QED
      BY <1>5, <1>6, <2>2, <3>2
  <2> QED
    BY <2>1, <2>2
<1>9. ASSUME NEW p \in Nodes, tick'[p] = "running", InBatch(p, m)' PROVE FALSE
  <2>1. PICK i \in DOMAIN batch[p] : batch[p][i].mail = m
    BY <1>4, <1>9 DEF InBatch
  <2>2. batch[p][i] \in Job /\ tick[p] = "running"
    <3>1. batch[p] \in Seq(Job)
      BY DEF TypeOK
    <3> QED
      BY <1>4, <1>9, <3>1
  <2> DEFINE v == [node |-> p, place |-> {}, attempts |-> batch[p][i].attempts,
                   maxAttempts |-> batch[p][i].maxAttempts]
  <2>3. v \in WorkRecord /\ AtWork(v, m)
    BY <2>1, <2>2 DEF WorkRecord, AtWork, Job
  <2>4. v.place = {}
    OBVIOUS
  <2> QED
    BY <1>5, <1>6, <2>3, <2>4 DEF Work
<1> QED
  BY <1>8, <1>9 DEF Late

\* Without requeues, webhooks and database faults a mail once shown as sent is
\* shown as sent for good, whatever hosts crash and whatever the SMTP server does.
THEOREM SentForGood ==
    ASSUME Operators = {}, MaxReceipts = 0, MaxDbFaults = 0
    PROVE  Spec => SentIsFinal
<1>1. Init => AllLate
  <2> SUFFICES ASSUME Init, NEW m \in Mails PROVE rows[m].status # "sent"
    BY DEF AllLate, Late
  <2> QED
    BY DEF Init, AbsentRow, NewRow
<1>2. TypeOK /\ AllSolo /\ SelectionStable /\ AllLate /\ [Next]_vars => AllLate'
  <2> SUFFICES ASSUME TypeOK, AllSolo, SelectionStable, AllLate, [Next]_vars, NEW m \in Mails
               PROVE  Late(m)'
    BY DEF AllLate
  <2>1. CASE rows[m].status = "sent"
    BY <2>1, LateKept DEF AllLate
  <2>2. CASE rows[m].status # "sent" /\ rows'[m].status = "sent"
    BY <2>2, LateBegins
  <2>3. CASE rows'[m].status # "sent"
    BY <2>3 DEF Late
  <2> QED
    BY <2>1, <2>2, <2>3
<1>3. TypeOK /\ SelectionStable /\ AllLate /\ [Next]_vars =>
         \A m \in Mails : rows[m].status = "sent" => rows'[m].status = "sent"
  BY SentStays DEF AllLate
<1> QED
  BY <1>1, <1>2, <1>3, TypeCorrect, SelectionsStayStable, StaysSolo, PTL DEF Spec, SentIsFinal
=============================================================================
