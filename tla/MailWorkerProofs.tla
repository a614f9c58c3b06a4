-------------------------- MODULE MailWorkerProofs --------------------------
(***************************************************************************)
(* Proofs about the work a mail gets: who holds it, how many messages its  *)
(* claims pay for and what a row may say about them.                       *)
(***************************************************************************)
EXTENDS MailDispatchProofs

\* NodeHoldsOnce for one host, with what makes it inductive: a host that is
\* not running a batch has no work in its lanes, and one that has not selected
\* yet has no batch.
Once(n) ==
    /\ tick[n] \in {"idle", "claiming"} => batch[n] = <<>>
    /\ tick[n] # "running" => \A l \in Lanes : lanes[n][l].mail = NoMail
    /\ \A i, j \in DOMAIN batch[n] : batch[n][i].mail = batch[n][j].mail => i = j
    /\ \A l \in Lanes : lanes[n][l].mail \in Mails =>
          /\ \A i \in DOMAIN batch[n] : batch[n][i].mail # lanes[n][l].mail
          /\ \A k \in Lanes : lanes[n][k].mail = lanes[n][l].mail => k = l

AllOnce == \A n \in Nodes : Once(n)

\* A lane without a job has no mail.
LEMMA LaneMail ==
    ASSUME TypeOK, NEW n \in Nodes, NEW l \in Lanes
    PROVE  /\ lanes[n][l].mail \in Mails \cup {NoMail}
           /\ lanes[n][l].mail = NoMail <=> lanes[n][l].pc \in {"free", "dead"}
<1>1. lanes[n][l] \in Lane
  BY DEF TypeOK
<1> QED
  BY <1>1, MailsAssumption DEF Lane, LaneRecord

\* A host keeps holding its mails once while its lanes only let go of them.
LEMMA OnceKept ==
    ASSUME TypeOK, NEW n \in Nodes, Once(n), batch'[n] = batch[n],
           tick'[n] = tick[n],
           \A l \in Lanes : lanes'[n][l].mail \in {lanes[n][l].mail, NoMail}
    PROVE  Once(n)'
<1>1. NoMail \notin Mails
  BY MailsAssumption
<1> QED
  BY <1>1 DEF Once

\* A host without work holds nothing.
LEMMA OnceEmpty ==
    ASSUME NEW n \in Nodes, batch'[n] = <<>>, \A l \in Lanes : lanes'[n][l].mail = NoMail
    PROVE  Once(n)'
  BY MailsAssumption DEF Once

\* What the steps of a lane that has a job do to the lanes of its host.
LaneMoves(n, l) ==
    /\ lanes[n][l].pc \notin {"free", "dead"}
    /\ UNCHANGED <<tick, batch>>
    /\ \E x : /\ lanes' = [lanes EXCEPT ![n][l] = x]
              /\ x.mail \in {lanes[n][l].mail, NoMail}

LEMMA LaneCases ==
    ASSUME TypeOK, NEW n \in Nodes, NEW l \in Lanes, LaneStep(n, l) \/ LaneFault(n, l)
    PROVE  TakeJob(n, l) \/ LaneMoves(n, l)
<1> DEFINE lane == lanes[n][l]
<1>1. lane \in LaneRecord
  BY DEF TypeOK, Lane
<1>2. ASSUME NEW pc, MoveLane(n, l, pc)
      PROVE  \E x : lanes' = [lanes EXCEPT ![n][l] = x] /\ x.mail \in {lane.mail, NoMail}
  <2>1. [lane EXCEPT !.pc = pc].mail = lane.mail
    BY <1>1 DEF LaneRecord
  <2>2. lanes' = [lanes EXCEPT ![n][l] = [lane EXCEPT !.pc = pc]]
    BY <1>2 DEF MoveLane, TypeOK
  <2> QED
    BY <2>1, <2>2
<1>3. ASSUME MarkAsSentRead(n, l)
      PROVE  \E x : lanes' = [lanes EXCEPT ![n][l] = x] /\ x.mail \in {lane.mail, NoMail}
  <2> DEFINE x == [lane EXCEPT !.pc = "sentWrite", !.read = rows[lane.mail].attempts]
  <2>1. x.mail = lane.mail
    BY <1>1 DEF LaneRecord
  <2>2. lanes' = [lanes EXCEPT ![n][l] = x]
    BY <1>3 DEF MarkAsSentRead, TypeOK
  <2> QED
    BY <2>1, <2>2
<1>4. FreeLane.mail = NoMail /\ DeadLane.mail = NoMail
  BY DEF FreeLane, DeadLane
<1>5. CASE JobDone(n, l) \/ FailureQueryFails(n, l)
  BY <1>4, <1>5 DEF JobDone, FailureQueryFails, SetLane, LaneMoves
<1>6. CASE MarkAsSentRead(n, l)
  BY <1>3, <1>6 DEF MarkAsSentRead, LaneMoves
<1>7. CASE \/ SendAccepted(n, l) \/ SendRejected(n, l) \/ MarkAsSentWrite(n, l)
           \/ MarkAsFailureWrite(n, l) \/ SendReplyLost(n, l) \/ SentQueryFails(n, l)
  BY <1>2, <1>7 DEF SendAccepted, SendRejected, MarkAsSentWrite, MarkAsFailureWrite,
                    SendReplyLost, SentQueryFails, LaneMoves
<1> QED
  BY <1>5, <1>6, <1>7 DEF LaneStep, LaneFault

\* What one step may do to one lane.
Carried(x, y) ==
    y.mail = x.mail /\ y.attempts = x.attempts /\ y.maxAttempts = x.maxAttempts

LaneChange(n, l) ==
    LET x == lanes[n][l]
        y == lanes'[n][l]
    IN  \/ y = x
        \/ y.mail = NoMail /\ y.pc \in {"free", "dead"}
        \/ TakeJob(n, l)
        \/ /\ Carried(x, y)
           /\ \/ SendAccepted(n, l) /\ y.pc = "sentRead"
              \/ (SendRejected(n, l) \/ SendReplyLost(n, l)) /\ y.pc = "failWrite"
              \/ MarkAsSentRead(n, l) /\ y.pc = "sentWrite"
              \/ MarkAsSentWrite(n, l) /\ y.pc = "sentReread"
              \/ MarkAsFailureWrite(n, l) /\ y.pc = "failReread"
              \/ SentQueryFails(n, l) /\ y.pc = "failWrite"

LEMMA LaneChanges ==
    ASSUME TypeOK, [Next]_vars, NEW n \in Nodes, NEW l \in Lanes
    PROVE  LaneChange(n, l)
<1> DEFINE x == lanes[n][l]
           y == lanes'[n][l]
<1>1. CASE lanes'[n][l] = lanes[n][l]
  BY <1>1 DEF LaneChange
<1>2. ASSUME NEW pc, MoveLane(n, l, pc) PROVE Carried(x, y) /\ y.pc = pc
  <2>1. x \in LaneRecord
    BY DEF TypeOK, Lane
  <2>2. y = [x EXCEPT !.pc = pc]
    BY <1>2 DEF MoveLane, TypeOK
  <2> QED
    BY <2>1, <2>2 DEF LaneRecord, Carried
<1>3. ASSUME MarkAsSentRead(n, l) PROVE Carried(x, y) /\ y.pc = "sentWrite"
  <2>1. x \in LaneRecord
    BY DEF TypeOK, Lane
  <2>2. y = [x EXCEPT !.pc = "sentWrite", !.read = rows[x.mail].attempts]
    BY <1>3 DEF MarkAsSentRead, TypeOK
  <2> QED
    BY <2>1, <2>2 DEF LaneRecord, Carried
<1>4. ASSUME JobDone(n, l) \/ FailureQueryFails(n, l)
      PROVE  y.mail = NoMail /\ y.pc \in {"free", "dead"}
  BY <1>4 DEF JobDone, FailureQueryFails, SetLane, FreeLane, DeadLane, TypeOK
<1>5. ASSUME LaneStep(n, l) \/ LaneFault(n, l) PROVE LaneChange(n, l)
  <2>1. CASE TakeJob(n, l)
    BY <2>1 DEF LaneChange
  <2>2. CASE JobDone(n, l) \/ FailureQueryFails(n, l)
    BY <1>4, <2>2 DEF LaneChange
  <2>3. CASE MarkAsSentRead(n, l)
    BY <1>3, <2>3 DEF LaneChange
  <2>4. CASE SendAccepted(n, l)
    BY <1>2, <2>4 DEF SendAccepted, LaneChange
  <2>5. CASE SendRejected(n, l) \/ SendReplyLost(n, l)
    BY <1>2, <2>5 DEF SendRejected, SendReplyLost, LaneChange
  <2>6. CASE MarkAsSentWrite(n, l)
    BY <1>2, <2>6 DEF MarkAsSentWrite, LaneChange
  <2>7. CASE MarkAsFailureWrite(n, l)
    BY <1>2, <2>7 DEF MarkAsFailureWrite, LaneChange
  <2>8. CASE SentQueryFails(n, l)
    BY <1>2, <2>8 DEF SentQueryFails, LaneChange
  <2> QED
    BY <1>5, <2>1, <2>2, <2>3, <2>4, <2>5, <2>6, <2>7, <2>8 DEF LaneStep, LaneFault
<1>6. ASSUME NEW p \in Nodes, NEW k \in Lanes, LaneStep(p, k) \/ LaneFault(p, k),
             p # n \/ k # l
      PROVE  y = x
  <2>1. PICK z : lanes' = [lanes EXCEPT ![p][k] = z]
    BY <1>6, LaneCases DEF TakeJob, SetLane, LaneMoves
  <2> QED
    BY <1>6, <2>1 DEF TypeOK
<1>7. ASSUME NEW p \in Nodes, \/ TickStart(p) \/ ClaimStep(p) \/ TickEnd(p)
                               \/ ClaimFails(p) \/ CommitAnswerLost(p) \/ Crash(p)
      PROVE  y = x \/ y = FreeLane
  <2>1. CASE TickEnd(p) \/ Crash(p)
    <3>1. lanes' = [lanes EXCEPT ![p] = [k \in Lanes |-> FreeLane]]
      BY <2>1 DEF TickEnd, Crash
    <3>2. p = n => y = FreeLane
      BY <3>1 DEF TypeOK
    <3>3. p # n => y = x
      BY <3>1 DEF TypeOK
    <3> QED
      BY <3>2, <3>3
  <2>2. CASE lanes' = lanes
    BY <2>2
  <2> QED
    BY <1>7, <2>1, <2>2 DEF TickStart, ClaimStep, Select, SelectNone, Commit, ClaimFails,
                            CommitAnswerLost
<1>8. ASSUME \/ \E m \in Mails : Create(m) \/ BecomeDue(m)
             \/ \E m \in Mails, event \in DeliveryEvents : Webhook(m, event)
             \/ \E o \in Operators : RequeueUpdate(o) \/ \E m \in Mails : RequeueCheck(o, m)
             \/ UNCHANGED vars
      PROVE  y = x
  BY <1>8 DEF Create, BecomeDue, Webhook, RequeueUpdate, RequeueCheck, vars
<1>9. CASE y = FreeLane
  BY <1>9 DEF LaneChange, FreeLane
<1> QED
  BY <1>1, <1>5, <1>6, <1>7, <1>8, <1>9 DEF Next

\* Select takes distinct mails, and the lanes of its host are free.
LEMMA SelectOnce ==
    ASSUME TypeOK, NEW n \in Nodes, Once(n), Select(n)
    PROVE  Once(n)'
<1>1. PICK q \in Selections(Candidates) :
         batch' = [batch EXCEPT ![n] = [i \in DOMAIN q |-> JobOf(q[i])]]
  BY DEF Select
<1>2. PICK k \in Nat : /\ q \in [1..k -> Candidates]
                       /\ \A i, j \in 1..k : i # j => q[i] # q[j]
  BY SelectionTyped DEF Candidates
<1>3. batch'[n] = [i \in 1..k |-> JobOf(q[i])]
  BY <1>1, <1>2 DEF TypeOK
<1>4. \A i \in 1..k : batch'[n][i].mail = q[i]
  BY <1>3 DEF JobOf
<1>5. \A l \in Lanes : lanes'[n][l].mail = NoMail
  BY DEF Select, Once
<1>6. tick'[n] = "selected"
  BY DEF Select, TypeOK
<1> QED
  BY <1>2, <1>3, <1>4, <1>5, <1>6, MailsAssumption DEF Once

\* A lane takes the head of the batch, which is nowhere else.
LEMMA TakeJobOnce ==
    ASSUME TypeOK, NEW n \in Nodes, Once(n), NEW l \in Lanes, TakeJob(n, l)
    PROVE  Once(n)'
<1> DEFINE b == batch[n]
           job == Head(b)
<1>1. b \in Seq(Job) /\ b # <<>> /\ tick[n] = "running" /\ tick' = tick
  BY DEF TypeOK, TakeJob
<1>2. batch'[n] = Tail(b)
  BY DEF TypeOK, TakeJob
<1>3. Len(b) \in Nat /\ Len(b) > 0 /\ DOMAIN b = 1..Len(b) /\ job = b[1]
  BY <1>1
<1>4. /\ DOMAIN batch'[n] = 1..(Len(b) - 1)
      /\ \A i \in 1..(Len(b) - 1) : batch'[n][i] = b[i + 1]
  BY <1>1, <1>2, <1>3
<1>5. \A i \in 1..(Len(b) - 1) : i + 1 \in DOMAIN b /\ i + 1 # 1 /\ 1 \in DOMAIN b
  BY <1>3
<1>6. job.mail \in Mails
  <2>1. job \in Job
    BY <1>1
  <2> QED
    BY <2>1 DEF Job
<1>7. /\ lanes'[n][l].mail = job.mail
      /\ \A k \in Lanes : k # l => lanes'[n][k].mail = lanes[n][k].mail
  BY DEF TakeJob, SetLane, TypeOK
<1>8. \A k \in Lanes : lanes[n][k].mail \in Mails =>
         /\ \A i \in DOMAIN b : b[i].mail # lanes[n][k].mail
         /\ \A j \in Lanes : lanes[n][j].mail = lanes[n][k].mail => j = k
  BY DEF Once
<1>9. \A i, j \in DOMAIN b : b[i].mail = b[j].mail => i = j
  BY DEF Once
<1>10. \A i \in 1..(Len(b) - 1) : b[i + 1].mail # job.mail
  BY <1>3, <1>5, <1>9
<1>11. \A i, j \in DOMAIN batch'[n] : batch'[n][i].mail = batch'[n][j].mail => i = j
  <2> TAKE i, j \in DOMAIN batch'[n]
  <2>1. i \in Int /\ j \in Int /\ (i + 1 = j + 1 => i = j)
    BY <1>3, <1>4
  <2> QED
    BY <1>4, <1>5, <1>9, <2>1
<1>12. ASSUME NEW k \in Lanes, lanes'[n][k].mail \in Mails
       PROVE  /\ \A i \in DOMAIN batch'[n] : batch'[n][i].mail # lanes'[n][k].mail
              /\ \A j \in Lanes : lanes'[n][j].mail = lanes'[n][k].mail => j = k
  <2>1. CASE k = l
    <3>1. \A j \in Lanes : j # l => lanes'[n][j].mail # job.mail
      BY <1>3, <1>6, <1>7, <1>8
    <3> QED
      BY <1>4, <1>7, <1>10, <2>1, <3>1
  <2>2. CASE k # l
    <3>1. lanes'[n][k].mail = lanes[n][k].mail /\ lanes[n][k].mail # job.mail
      BY <1>3, <1>7, <1>8, <1>12, <2>2
    <3>2. \A i \in DOMAIN batch'[n] : batch'[n][i].mail # lanes[n][k].mail
      BY <1>4, <1>5, <1>8, <1>12, <3>1
    <3> QED
      BY <1>7, <1>8, <1>12, <2>2, <3>1, <3>2
  <2> QED
    BY <2>1, <2>2
<1> QED
  BY <1>1, <1>11, <1>12 DEF Once

LEMMA OnceSteps == TypeOK /\ AllOnce /\ [Next]_vars => AllOnce'
<1> SUFFICES ASSUME TypeOK, \A n \in Nodes : Once(n), [Next]_vars, NEW p \in Nodes
             PROVE  Once(p)'
  BY DEF AllOnce
<1>1. CASE UNCHANGED <<tick, batch, lanes>>
  BY <1>1, OnceKept
<1>2. ASSUME NEW n \in Nodes, NEW l \in Lanes, TakeJob(n, l) \/ LaneMoves(n, l)
      PROVE  Once(p)'
  <2>1. CASE TakeJob(n, l) /\ p = n
    BY <2>1, TakeJobOnce
  <2>2. CASE LaneMoves(n, l) \/ p # n
    <3>1. tick'[p] = tick[p] /\ batch'[p] = batch[p]
      BY <1>2, <2>2 DEF TakeJob, LaneMoves, TypeOK
    <3>2. \A k \in Lanes : lanes'[p][k].mail \in {lanes[p][k].mail, NoMail}
      <4>1. CASE p # n
        BY <1>2, <4>1 DEF TakeJob, SetLane, LaneMoves, TypeOK
      <4>2. CASE p = n /\ LaneMoves(n, l)
        <5>1. PICK x : /\ lanes' = [lanes EXCEPT ![n][l] = x]
                       /\ x.mail \in {lanes[n][l].mail, NoMail}
          BY <4>2 DEF LaneMoves
        <5> QED
          BY <4>2, <5>1 DEF TypeOK
      <4> QED
        BY <2>2, <4>1, <4>2
    <3> QED
      BY <3>1, <3>2, OnceKept
  <2> QED
    BY <1>2, <2>1, <2>2
<1>3. ASSUME NEW n \in Nodes, \/ TickStart(n) \/ ClaimStep(n) \/ TickEnd(n)
                               \/ ClaimFails(n) \/ CommitAnswerLost(n) \/ Crash(n)
      PROVE  Once(p)'
  <2>1. CASE p # n
    <3>1. tick'[p] = tick[p] /\ batch'[p] = batch[p] /\ lanes'[p] = lanes[p]
      BY <1>3, <2>1 DEF TickStart, ClaimStep, Select, SelectNone, Commit, TickEnd,
                        ClaimFails, CommitAnswerLost, Crash, TypeOK
    <3> QED
      BY <3>1, OnceKept
  <2>2. CASE p = n /\ Select(n)
    BY <2>2, SelectOnce
  <2>3. CASE p = n /\ (TickStart(n) \/ SelectNone(n) \/ Commit(n))
    <3>1. /\ batch'[n] = batch[n] /\ lanes'[n] = lanes[n]
          /\ tick[n] # "running"
          /\ tick'[n] \in {"idle", "claiming"} => tick[n] \in {"idle", "claiming"}
      BY <2>3 DEF TickStart, SelectNone, Commit, TypeOK
    <3> QED
      BY <2>3, <3>1 DEF Once
  <2>4. CASE p = n /\ (ClaimFails(n) \/ CommitAnswerLost(n))
    <3>1. batch'[n] = <<>> /\ lanes'[n] = lanes[n] /\ tick[n] # "running"
      BY <2>4 DEF ClaimFails, CommitAnswerLost, TypeOK
    <3>2. \A l \in Lanes : lanes'[n][l].mail = NoMail
      BY <3>1 DEF Once
    <3> QED
      BY <2>4, <3>1, <3>2, OnceEmpty
  <2>5. CASE p = n /\ (TickEnd(n) \/ Crash(n))
    <3>1. batch'[n] = <<>> /\ lanes'[n] = [l \in Lanes |-> FreeLane]
      BY <2>5 DEF TickEnd, Crash, TypeOK
    <3>2. \A l \in Lanes : lanes'[n][l].mail = NoMail
      BY <3>1 DEF FreeLane
    <3> QED
      BY <2>5, <3>1, <3>2, OnceEmpty
  <2> QED
    BY <1>3, <2>1, <2>2, <2>3, <2>4, <2>5 DEF ClaimStep
<1>4. \/ UNCHANGED <<tick, batch, lanes>>
      \/ \E n \in Nodes : \/ TickStart(n) \/ ClaimStep(n) \/ TickEnd(n)
                          \/ ClaimFails(n) \/ CommitAnswerLost(n) \/ Crash(n)
      \/ \E n \in Nodes, l \in Lanes : LaneStep(n, l) \/ LaneFault(n, l)
  BY DEF Next, vars, Create, BecomeDue, Webhook, RequeueUpdate, RequeueCheck
<1> QED
  BY <1>1, <1>2, <1>3, <1>4, LaneCases

LEMMA HeldOnce == Spec => []AllOnce
<1>1. Init => AllOnce
  <2> SUFFICES ASSUME Init PROVE \A n \in Nodes : Once(n)
    BY DEF AllOnce
  <2> TAKE n \in Nodes
  <2>1. batch[n] = <<>> /\ \A l \in Lanes : lanes[n][l].mail = NoMail
    BY DEF Init, FreeLane
  <2> QED
    BY <2>1, MailsAssumption DEF Once
<1> QED
  BY <1>1, OnceSteps, TypeCorrect, PTL DEF Spec

\* A host never has a mail twice, in its batch or its lanes, however its ticks,
\* crashes and failing queries interleave.
THEOREM HostsHoldOnce == Spec => []NodeHoldsOnce
<1>1. AllOnce => NodeHoldsOnce
  BY DEF AllOnce, Once, NodeHoldsOnce, InBatch
<1> QED
  BY <1>1, HeldOnce, PTL

-----------------------------------------------------------------------------
\* A lane past the send has seen its message accepted.
Paid == \A n \in Nodes, l \in Lanes :
    lanes[n][l].pc \in {"sentRead", "sentWrite", "sentReread"} =>
       accepted[lanes[n][l].mail] > 0

LEMMA AcceptedSteps ==
    ASSUME [Next]_vars
    PROVE  \/ accepted' = accepted
           \/ \E n \in Nodes, l \in Lanes : SendAccepted(n, l) \/ SendReplyLost(n, l)
<1>1. ASSUME NEW n \in Nodes, NEW l \in Lanes, LaneStep(n, l) \/ LaneFault(n, l)
      PROVE  accepted' = accepted \/ SendAccepted(n, l) \/ SendReplyLost(n, l)
  BY <1>1 DEF LaneStep, LaneFault, TakeJob, SendRejected, MarkAsSentRead, MarkAsSentWrite,
              MarkAsFailureWrite, JobDone, SentQueryFails, FailureQueryFails
<1>2. ASSUME NEW n \in Nodes, \/ TickStart(n) \/ ClaimStep(n) \/ TickEnd(n)
                               \/ ClaimFails(n) \/ CommitAnswerLost(n) \/ Crash(n)
      PROVE  accepted' = accepted
  BY <1>2 DEF TickStart, ClaimStep, Select, SelectNone, Commit, TickEnd, ClaimFails,
              CommitAnswerLost, Crash
<1>3. ASSUME \/ \E x \in Mails : Create(x) \/ BecomeDue(x)
             \/ \E x \in Mails, event \in DeliveryEvents : Webhook(x, event)
             \/ \E o \in Operators : RequeueUpdate(o) \/ \E x \in Mails : RequeueCheck(o, x)
             \/ UNCHANGED vars
      PROVE  accepted' = accepted
  BY <1>3 DEF Create, BecomeDue, Webhook, RequeueUpdate, RequeueCheck, vars
<1> QED
  BY <1>1, <1>2, <1>3 DEF Next

LEMMA AcceptedGrows ==
    ASSUME TypeOK, [Next]_vars, NEW m \in Mails
    PROVE  accepted'[m] >= accepted[m]
<1>1. accepted[m] \in Nat
  BY DEF TypeOK
<1>2. ASSUME NEW n \in Nodes, NEW l \in Lanes, SendAccepted(n, l) \/ SendReplyLost(n, l)
      PROVE  accepted'[m] >= accepted[m]
  <2>1. accepted' = [accepted EXCEPT ![lanes[n][l].mail] = @ + 1]
    BY <1>2 DEF SendAccepted, SendReplyLost
  <2> QED
    BY <1>1, <2>1 DEF TypeOK
<1> QED
  BY <1>1, <1>2, AcceptedSteps

\* Only a transaction that commits counts claims.
LEMMA ClaimsSteps ==
    ASSUME TypeOK, [Next]_vars, NEW m \in Mails
    PROVE  /\ claims'[m] >= claims[m]
           /\ \/ claims' = claims
              \/ \E n \in Nodes : Commit(n) \/ CommitAnswerLost(n)
<1>1. ASSUME NEW n \in Nodes, NEW l \in Lanes, LaneStep(n, l) \/ LaneFault(n, l)
      PROVE  claims' = claims
  BY <1>1 DEF LaneStep, LaneFault, TakeJob, SendAccepted, SendRejected, MarkAsSentRead,
              MarkAsSentWrite, MarkAsFailureWrite, JobDone, SendReplyLost, SentQueryFails,
              FailureQueryFails
<1>2. ASSUME NEW n \in Nodes, \/ TickStart(n) \/ ClaimStep(n) \/ TickEnd(n)
                               \/ ClaimFails(n) \/ CommitAnswerLost(n) \/ Crash(n)
      PROVE  claims' = claims \/ Commit(n) \/ CommitAnswerLost(n)
  BY <1>2 DEF TickStart, ClaimStep, Select, SelectNone, TickEnd, ClaimFails, Crash
<1>3. ASSUME \/ \E x \in Mails : Create(x) \/ BecomeDue(x)
             \/ \E x \in Mails, event \in DeliveryEvents : Webhook(x, event)
             \/ \E o \in Operators : RequeueUpdate(o) \/ \E x \in Mails : RequeueCheck(o, x)
             \/ UNCHANGED vars
      PROVE  claims' = claims
  BY <1>3 DEF Create, BecomeDue, Webhook, RequeueUpdate, RequeueCheck, vars
<1>4. claims[m] \in Nat
  BY DEF TypeOK
<1>5. ASSUME NEW n \in Nodes, Commit(n) \/ CommitAnswerLost(n) PROVE claims'[m] >= claims[m]
  <2>1. claims'[m] \in {claims[m], claims[m] + 1}
    BY <1>5 DEF Commit, CommitAnswerLost, ClaimRows
  <2> QED
    BY <1>4, <2>1
<1>6. claims' = claims \/ \E n \in Nodes : Commit(n) \/ CommitAnswerLost(n)
  BY <1>1, <1>2, <1>3 DEF Next
<1> QED
  BY <1>4, <1>5, <1>6

LEMMA PaidSteps == TypeOK /\ Paid /\ [Next]_vars => Paid'
<1> SUFFICES ASSUME TypeOK, Paid, [Next]_vars PROVE Paid'
  OBVIOUS
<1>1. ASSUME NEW m \in Mails PROVE /\ accepted[m] \in Nat /\ accepted'[m] \in Nat
                                  /\ accepted'[m] >= accepted[m]
  BY AcceptedGrows, NextTyped DEF TypeOK
<1>2. ASSUME NEW n \in Nodes, NEW l \in Lanes,
             lanes'[n][l].pc \in {"sentRead", "sentWrite", "sentReread"}
      PROVE  accepted'[lanes'[n][l].mail] > 0
  <2> DEFINE lane == lanes[n][l]
  <2>1. lane \in LaneRecord /\ (lane.pc \notin {"free", "dead"} => lane.mail \in Mails)
    BY DEF TypeOK, Lane
  <2>2. CASE lane.pc \in {"sentRead", "sentWrite", "sentReread"} /\ lanes'[n][l].mail = lane.mail
    BY <1>1, <2>1, <2>2 DEF Paid
  <2>3. CASE SendAccepted(n, l)
    <3>1. lane.mail \in Mails /\ accepted' = [accepted EXCEPT ![lane.mail] = @ + 1]
      BY <2>1, <2>3 DEF SendAccepted
    <3>2. lanes' = [lanes EXCEPT ![n][l] = [lane EXCEPT !.pc = "sentRead"]]
      BY <2>3 DEF SendAccepted, MoveLane, TypeOK
    <3>3. lanes'[n][l].mail = lane.mail
      BY <2>1, <3>2 DEF TypeOK, LaneRecord
    <3>4. accepted[lane.mail] \in Nat /\ accepted'[lane.mail] = accepted[lane.mail] + 1
      BY <3>1 DEF TypeOK
    <3> QED
      BY <3>3, <3>4
  <2>4. CASE TakeJob(n, l)
    BY <1>2, <2>4 DEF TakeJob, SetLane, TypeOK
  <2>5. SendAccepted(n, l) \/ TakeJob(n, l)
          \/ /\ lane.pc \in {"sentRead", "sentWrite", "sentReread"}
             /\ lanes'[n][l].mail = lane.mail
    BY <1>2, LaneChanges DEF LaneChange, Carried, MarkAsSentRead, MarkAsSentWrite
  <2> QED
    BY <2>2, <2>3, <2>4, <2>5
<1> QED
  BY <1>2 DEF Paid

LEMMA LanesPaid == Spec => []Paid
<1>1. Init => Paid
  <2> SUFFICES ASSUME Init PROVE Paid
    OBVIOUS
  <2>1. \A n \in Nodes, l \in Lanes : lanes[n][l].pc = "free"
    BY DEF Init, FreeLane
  <2> QED
    BY <2>1 DEF Paid
<1> QED
  BY <1>1, PaidSteps, TypeCorrect, PTL DEF Spec

\* A row becomes sent only by a worker whose message the server accepted, or by
\* a webhook, in whatever order workers, webhooks, requeues and failures come.
THEOREM SentIsAccepted == Spec => SentMeansAccepted
<1>1. ASSUME TypeOK, Paid, [Next]_vars, NEW m \in Mails,
             rows[m].status # "sent", rows'[m].status = "sent"
      PROVE  accepted[m] > 0 \/ faults'["receipt"] # faults["receipt"]
  <2>1. RowStep(m) /\ rows[m] \in Row
    BY <1>1, RowSteps DEF TypeOK
  <2>2. CASE UpdatedRow(m)
    <3>1. PICK n \in Nodes, l \in Lanes :
             /\ lanes[n][l].mail = m
             /\ \/ MarkAsSentWrite(n, l)
                \/ rows'[m] = FailureWrite(rows[m], lanes[n][l].attempts,
                                           lanes[n][l].maxAttempts, n)
      BY <2>2 DEF UpdatedRow
    <3>2. ASSUME NEW k, NEW j PROVE FailureWrite(rows[m], k, j, n).status # "sent"
      BY <2>1 DEF FailureWrite, Row
    <3>3. lanes[n][l].pc = "sentWrite"
      BY <1>1, <3>1, <3>2 DEF MarkAsSentWrite
    <3> QED
      BY <1>1, <3>1, <3>3 DEF Paid
  <2>3. CASE HandledRow(m)
    <3>1. ASSUME NEW k \in Nat PROVE RequeueWrite(rows[m], k).status # "sent"
      BY <2>1 DEF RequeueWrite, Row
    <3>2. PICK event \in DeliveryEvents : Webhook(m, event)
      BY <1>1, <2>3, <3>1 DEF HandledRow
    <3>3. faults["receipt"] \in Nat /\ faults'["receipt"] = faults["receipt"] + 1
      BY <1>1, <3>2 DEF Webhook, Fault, TypeOK
    <3> QED
      BY <3>3
  <2>4. ASSUME NEW p, NEW k, NEW at PROVE NewRow(p, k, at).status # "sent"
    BY DEF NewRow
  <2>5. ASSUME NEW n \in Nodes PROVE ClaimWrite(rows[m], n).status # "sent"
    BY <2>1 DEF ClaimWrite, Row
  <2>6. [rows[m] EXCEPT !.nextAttemptAt = "due"].status = rows[m].status
    BY <2>1 DEF Row
  <2>7. rows'[m] # rows[m] /\ rows'[m] # [rows[m] EXCEPT !.nextAttemptAt = "due"]
    BY <1>1, <2>6
  <2>8. \A p, k, at : rows'[m] # NewRow(p, k, at)
    BY <1>1, <2>4
  <2>9. \A n \in Nodes : rows'[m] # ClaimWrite(rows[m], n)
    BY <1>1, <2>5
  <2> QED
    BY <2>1, <2>2, <2>3, <2>7, <2>8, <2>9 DEF RowStep
<1>2. TypeOK /\ Paid /\ [Next]_vars =>
         [\A m \in Mails : rows[m].status # "sent" /\ rows'[m].status = "sent" =>
            accepted[m] > 0 \/ faults'["receipt"] # faults["receipt"]]_vars
  BY <1>1
<1> QED
  BY <1>2, TypeCorrect, LanesPaid, PTL DEF Spec, SentMeansAccepted
-----------------------------------------------------------------------------
\* The accounts of a mail: what was accepted and what may still be sent is
\* covered by its claims.  That the sets are finite is part of the invariant, so
\* that nothing is assumed of the number of hosts.
Balanced(m) ==
    /\ IsFiniteSet(Sending(m)) /\ IsFiniteSet(Waiting(m))
    /\ accepted[m] + Cardinality(Sending(m)) + Cardinality(Waiting(m)) <= claims[m]

\* The ways a step may change the account.
Spent(m) ==
    /\ Sending(m)' \subseteq Sending(m)
    /\ Waiting(m)' \subseteq Waiting(m)
    /\ accepted'[m] = accepted[m] /\ claims'[m] >= claims[m]
Taken(m) == \E n \in Waiting(m), p \in Nodes \X Lanes :
    /\ Sending(m)' \subseteq Sending(m) \cup {p}
    /\ Waiting(m)' \subseteq Waiting(m) \ {n}
    /\ accepted'[m] = accepted[m] /\ claims'[m] = claims[m]
Accepted(m) == \E p \in Sending(m) :
    /\ Sending(m)' \subseteq Sending(m) \ {p}
    /\ Waiting(m)' \subseteq Waiting(m)
    /\ accepted'[m] = accepted[m] + 1 /\ claims'[m] = claims[m]
Claimed(m) == \E n \in Nodes :
    /\ Sending(m)' \subseteq Sending(m)
    /\ Waiting(m)' \subseteq Waiting(m) \cup {n}
    /\ accepted'[m] = accepted[m] /\ claims'[m] = claims[m] + 1

LEMMA BalanceKept ==
    ASSUME TypeOK, NEW m \in Mails, Balanced(m),
           Spent(m) \/ Taken(m) \/ Accepted(m) \/ Claimed(m), TypeOK'
    PROVE  Balanced(m)'
<1> DEFINE S == Sending(m)
           W == Waiting(m)
           T == Sending(m)'
           V == Waiting(m)'
<1>1. /\ IsFiniteSet(S) /\ IsFiniteSet(W)
      /\ accepted[m] \in Nat /\ accepted'[m] \in Nat
      /\ claims[m] \in Nat /\ claims'[m] \in Nat
      /\ Cardinality(S) \in Nat /\ Cardinality(W) \in Nat
      /\ accepted[m] + Cardinality(S) + Cardinality(W) <= claims[m]
  BY FS_CardinalityType DEF Balanced, TypeOK
<1> HIDE DEF S, W, T, V
<1>2. ASSUME NEW A, NEW B, IsFiniteSet(A), B \subseteq A
      PROVE  /\ IsFiniteSet(B) /\ Cardinality(B) <= Cardinality(A)
             /\ Cardinality(B) \in Nat /\ Cardinality(A) \in Nat
  BY <1>2, FS_Subset, FS_CardinalityType
<1>4. ASSUME NEW A, NEW e, IsFiniteSet(A)
      PROVE  /\ IsFiniteSet(A \cup {e}) /\ Cardinality(A \cup {e}) <= Cardinality(A) + 1
             /\ e \in A => IsFiniteSet(A \ {e}) /\ Cardinality(A \ {e}) = Cardinality(A) - 1
  <2>1. Cardinality(A) \in Nat
    BY <1>4, FS_CardinalityType
  <2>2. /\ IsFiniteSet(A \cup {e})
        /\ Cardinality(A \cup {e}) = IF e \in A THEN Cardinality(A) ELSE Cardinality(A) + 1
    BY <1>4, FS_AddElement
  <2>3. /\ IsFiniteSet(A \ {e})
        /\ Cardinality(A \ {e}) = IF e \in A THEN Cardinality(A) - 1 ELSE Cardinality(A)
    BY <1>4, FS_RemoveElement
  <2>4. CASE e \in A
    BY <2>1, <2>2, <2>3, <2>4
  <2>5. CASE e \notin A
    BY <2>1, <2>2, <2>5
  <2> QED
    BY <2>4, <2>5
<1>5. /\ IsFiniteSet(T) /\ IsFiniteSet(V)
      /\ accepted'[m] + Cardinality(T) + Cardinality(V) <= claims'[m]
  <2>1. CASE Spent(m)
    <3>1. T \subseteq S /\ V \subseteq W /\ accepted'[m] = accepted[m] /\ claims'[m] >= claims[m]
      BY <2>1 DEF Spent, S, T, V, W
    <3>2. /\ IsFiniteSet(T) /\ Cardinality(T) <= Cardinality(S) /\ Cardinality(T) \in Nat
          /\ IsFiniteSet(V) /\ Cardinality(V) <= Cardinality(W) /\ Cardinality(V) \in Nat
      BY <1>1, <1>2, <3>1
    <3> QED
      BY <1>1, <3>1, <3>2
  <2>2. CASE Taken(m)
    <3>1. PICK n \in W, p \in Nodes \X Lanes :
             /\ T \subseteq S \cup {p} /\ V \subseteq W \ {n}
             /\ accepted'[m] = accepted[m] /\ claims'[m] = claims[m]
      BY <2>2 DEF Taken, S, T, V, W
    <3>2. /\ IsFiniteSet(S \cup {p}) /\ Cardinality(S \cup {p}) <= Cardinality(S) + 1
          /\ IsFiniteSet(W \ {n}) /\ Cardinality(W \ {n}) = Cardinality(W) - 1
      BY <1>1, <1>4
    <3>3. /\ IsFiniteSet(T) /\ Cardinality(T) \in Nat
          /\ Cardinality(T) <= Cardinality(S \cup {p}) /\ Cardinality(S \cup {p}) \in Nat
      BY <1>2, <3>1, <3>2
    <3>4. /\ IsFiniteSet(V) /\ Cardinality(V) \in Nat
          /\ Cardinality(V) <= Cardinality(W \ {n}) /\ Cardinality(W \ {n}) \in Nat
      BY <1>2, <3>1, <3>2
    <3> QED
      BY <1>1, <3>1, <3>2, <3>3, <3>4
  <2>3. CASE Accepted(m)
    <3>1. PICK p \in S :
             /\ T \subseteq S \ {p} /\ V \subseteq W
             /\ accepted'[m] = accepted[m] + 1 /\ claims'[m] = claims[m]
      BY <2>3 DEF Accepted, S, T, V, W
    <3>2. IsFiniteSet(S \ {p}) /\ Cardinality(S \ {p}) = Cardinality(S) - 1
      BY <1>1, <1>4
    <3>3. /\ IsFiniteSet(T) /\ Cardinality(T) \in Nat
          /\ Cardinality(T) <= Cardinality(S \ {p}) /\ Cardinality(S \ {p}) \in Nat
      BY <1>2, <3>1, <3>2
    <3>4. IsFiniteSet(V) /\ Cardinality(V) \in Nat /\ Cardinality(V) <= Cardinality(W)
      BY <1>1, <1>2, <3>1
    <3> QED
      BY <1>1, <3>1, <3>2, <3>3, <3>4
  <2>4. CASE Claimed(m)
    <3>1. PICK n \in Nodes :
             /\ T \subseteq S /\ V \subseteq W \cup {n}
             /\ accepted'[m] = accepted[m] /\ claims'[m] = claims[m] + 1
      BY <2>4 DEF Claimed, S, T, V, W
    <3>2. IsFiniteSet(W \cup {n}) /\ Cardinality(W \cup {n}) <= Cardinality(W) + 1
      BY <1>1, <1>4
    <3>3. /\ IsFiniteSet(V) /\ Cardinality(V) \in Nat
          /\ Cardinality(V) <= Cardinality(W \cup {n}) /\ Cardinality(W \cup {n}) \in Nat
      BY <1>2, <3>1, <3>2
    <3>4. IsFiniteSet(T) /\ Cardinality(T) \in Nat /\ Cardinality(T) <= Cardinality(S)
      BY <1>1, <1>2, <3>1
    <3> QED
      BY <1>1, <3>1, <3>2, <3>3, <3>4
  <2> QED
    BY <2>1, <2>2, <2>3, <2>4
<1> QED
  BY <1>5 DEF Balanced, S, T, V, W

\* Work appears in a lane only by TakeJob and in a batch only by Commit.
LEMMA SendingShrinks ==
    ASSUME TypeOK, [Next]_vars, NEW m \in Mails, NEW p \in Sending(m)', p \notin Sending(m)
    PROVE  TakeJob(p[1], p[2]) /\ Head(batch[p[1]]).mail = m
<1>1. /\ p \in Nodes \X Lanes /\ p[1] \in Nodes /\ p[2] \in Lanes
      /\ lanes'[p[1]][p[2]].mail = m /\ lanes'[p[1]][p[2]].pc = "sending"
      /\ ~(lanes[p[1]][p[2]].mail = m /\ lanes[p[1]][p[2]].pc = "sending")
  BY DEF Sending
<1>2. TakeJob(p[1], p[2])
  BY <1>1, LaneChanges DEF LaneChange
<1> QED
  BY <1>1, <1>2 DEF TakeJob, SetLane, TypeOK

LEMMA RunningBatch ==
    ASSUME TypeOK, [Next]_vars, NEW n \in Nodes, tick'[n] = "running", ~Commit(n)
    PROVE  /\ tick[n] = "running"
           /\ \A i \in DOMAIN batch'[n] : \E j \in DOMAIN batch[n] : batch[n][j] = batch'[n][i]
<1> DEFINE Goal == /\ tick[n] = "running"
                   /\ \A i \in DOMAIN batch'[n] :
                         \E j \in DOMAIN batch[n] : batch[n][j] = batch'[n][i]
<1>1. CASE tick'[n] = tick[n] /\ batch'[n] = batch[n]
  BY <1>1
<1>2. ASSUME NEW l \in Lanes, TakeJob(n, l) PROVE Goal
  <2>1. batch[n] \in Seq(Job)
    BY DEF TypeOK
  <2>2. batch'[n] = Tail(batch[n]) /\ batch[n] # <<>> /\ tick[n] = "running"
    BY <1>2, <2>1 DEF TakeJob, TypeOK
  <2>3. \A i \in DOMAIN batch'[n] : i + 1 \in DOMAIN batch[n] /\ batch[n][i + 1] = batch'[n][i]
    BY <2>1, <2>2
  <2> QED
    BY <2>2, <2>3
<1>3. ASSUME NEW p \in Nodes, NEW l \in Lanes, LaneStep(p, l) \/ LaneFault(p, l)
      PROVE  Goal
  <2>1. CASE LaneMoves(p, l)
    BY <1>1, <2>1 DEF LaneMoves
  <2>2. CASE TakeJob(p, l) /\ p # n
    <3>1. tick' = tick /\ batch' = [batch EXCEPT ![p] = Tail(@)]
      BY <2>2 DEF TakeJob
    <3>2. tick'[n] = tick[n] /\ batch'[n] = batch[n]
      BY <2>2, <3>1 DEF TypeOK
    <3> QED
      BY <1>1, <3>2
  <2>3. CASE TakeJob(p, l) /\ p = n
    BY <1>2, <2>3
  <2>4. TakeJob(p, l) \/ LaneMoves(p, l)
    BY <1>3, LaneCases
  <2> QED
    BY <2>1, <2>2, <2>3, <2>4
<1>4. ASSUME NEW p \in Nodes, \/ TickStart(p) \/ ClaimStep(p) \/ TickEnd(p)
                               \/ ClaimFails(p) \/ CommitAnswerLost(p) \/ Crash(p)
      PROVE  Goal
  <2>1. CASE p # n
    <3>1. /\ \E x : tick' = [tick EXCEPT ![p] = x]
          /\ batch' = batch \/ \E x : batch' = [batch EXCEPT ![p] = x]
      BY <1>4 DEF TickStart, ClaimStep, Select, SelectNone, Commit, TickEnd,
                  ClaimFails, CommitAnswerLost, Crash
    <3>2. tick'[n] = tick[n] /\ batch'[n] = batch[n]
      BY <2>1, <3>1 DEF TypeOK
    <3> QED
      BY <1>1, <3>2
  <2>2. CASE p = n
    BY <1>4, <2>2 DEF TickStart, ClaimStep, Select, SelectNone, TickEnd,
                      ClaimFails, CommitAnswerLost, Crash, TypeOK
  <2> QED
    BY <2>1, <2>2
<1>5. CASE UNCHANGED <<tick, batch>>
  BY <1>1, <1>5
<1>6. \/ UNCHANGED <<tick, batch>>
      \/ \E p \in Nodes : \/ TickStart(p) \/ ClaimStep(p) \/ TickEnd(p)
                          \/ ClaimFails(p) \/ CommitAnswerLost(p) \/ Crash(p)
      \/ \E p \in Nodes, l \in Lanes : LaneStep(p, l) \/ LaneFault(p, l)
  BY DEF Next, vars, Create, BecomeDue, Webhook, RequeueUpdate, RequeueCheck
<1> QED
  BY <1>3, <1>4, <1>5, <1>6

LEMMA WaitingShrinks ==
    ASSUME TypeOK, [Next]_vars, NEW m \in Mails, NEW n \in Waiting(m)', n \notin Waiting(m)
    PROVE  Commit(n)
<1>1. n \in Nodes /\ tick'[n] = "running" /\ InBatch(n, m)'
  BY DEF Waiting
<1>2. CASE ~Commit(n)
  <2>1. /\ tick[n] = "running"
        /\ \A i \in DOMAIN batch'[n] : \E j \in DOMAIN batch[n] : batch[n][j] = batch'[n][i]
    BY <1>1, <1>2, RunningBatch
  <2> QED
    BY <1>1, <2>1 DEF InBatch, Waiting
<1> QED
  BY <1>2

\* A claim is counted for each mail of the batch that Commit hands to the lanes.
LEMMA CommitClaims ==
    ASSUME TypeOK, SelectionStable, [Next]_vars, NEW n \in Nodes, Commit(n), NEW m \in Mails
    PROVE  Spent(m) \/ Claimed(m)
<1>1. tick[n] = "selected" /\ accepted' = accepted /\ lanes' = lanes /\ batch' = batch
  BY DEF Commit
<1>2. Locked(n) = {batch[n][i].mail : i \in DOMAIN batch[n]}
  BY <1>1 DEF SelectionStable
<1>3. m \in Locked(n) <=> InBatch(n, m)
  BY <1>2 DEF InBatch
<1>4. claims'[m] = IF m \in Locked(n) THEN claims[m] + 1 ELSE claims[m]
  BY DEF Commit, ClaimRows, TypeOK
<1>5. Sending(m)' = Sending(m)
  BY <1>1 DEF Sending
<1>6. \A p \in Waiting(m)' : p \in Waiting(m) \/ p = n
  <2> TAKE p \in Waiting(m)'
  <2>1. p \in Nodes /\ tick' = [tick EXCEPT ![n] = "running"]
    BY DEF Waiting, Commit
  <2> QED
    BY <1>1, <2>1 DEF Waiting, InBatch, TypeOK
<1>7. n \in Waiting(m)' => m \in Locked(n)
  BY <1>1, <1>3 DEF Waiting, InBatch
<1>8. CASE m \in Locked(n)
  BY <1>1, <1>4, <1>5, <1>6, <1>8 DEF Claimed
<1>9. CASE m \notin Locked(n)
  <2>1. claims[m] \in Nat
    BY DEF TypeOK
  <2> QED
    BY <1>1, <1>4, <1>5, <1>6, <1>7, <1>9, <2>1 DEF Spent
<1> QED
  BY <1>8, <1>9

LEMMA TakeJobMoves ==
    ASSUME TypeOK, AllOnce, [Next]_vars, NEW n \in Nodes, NEW l \in Lanes, TakeJob(n, l),
           NEW m \in Mails
    PROVE  Spent(m) \/ Taken(m)
<1> DEFINE b == batch[n]
<1>1. tick[n] = "running" /\ b # <<>> /\ accepted' = accepted /\ claims' = claims
  BY DEF TakeJob
<1>2. \A p \in Waiting(m)' : p \in Waiting(m)
  <2> TAKE p \in Waiting(m)'
  <2>1. ~Commit(p)
    <3>1. p \in Nodes
      BY DEF Waiting
    <3>2. tick' = tick /\ (Commit(p) => tick[p] = "selected" /\ tick'[p] = "running")
      BY <3>1 DEF TakeJob, Commit, TypeOK
    <3> QED
      BY <3>2
  <2> QED
    BY <2>1, WaitingShrinks
<1>3. \A p \in Sending(m)' : p \in Sending(m) \/ (p = <<n, l>> /\ Head(b).mail = m)
  <2> TAKE p \in Sending(m)'
  <2> SUFFICES ASSUME p \notin Sending(m) PROVE p = <<n, l>> /\ Head(b).mail = m
    OBVIOUS
  <2>1. TakeJob(p[1], p[2]) /\ Head(batch[p[1]]).mail = m
    BY SendingShrinks
  <2>2. p \in Nodes \X Lanes
    BY DEF Sending
  <2>3. p[1] = n /\ p[2] = l
    <3>1. lanes'[p[1]][p[2]].pc = "sending" /\ lanes[p[1]][p[2]].pc = "free"
      BY <2>1, <2>2 DEF TakeJob, SetLane, TypeOK
    <3> QED
      BY <2>2, <3>1 DEF TakeJob, SetLane, TypeOK
  <2> QED
    BY <2>1, <2>2, <2>3
<1>4. claims[m] \in Nat
  BY DEF TypeOK
<1>5. CASE Head(b).mail # m
  BY <1>1, <1>2, <1>3, <1>4, <1>5 DEF Spent
<1>6. CASE Head(b).mail = m
  <2>1. b \in Seq(Job)
    BY DEF TypeOK
  <2>2. 1 \in DOMAIN b /\ Head(b) = b[1]
    BY <1>1, <2>1
  <2>3. n \in Waiting(m)
    BY <1>1, <1>6, <2>2 DEF Waiting, InBatch
  <2>4. lanes'[n][l].mail = m /\ Once(n)'
    <3>1. lanes'[n][l].mail = Head(b).mail
      BY DEF TakeJob, SetLane, TypeOK
    <3> QED
      BY <1>6, <3>1, OnceSteps DEF AllOnce
  <2>5. ~InBatch(n, m)'
    BY <2>4 DEF Once, InBatch
  <2>6. n \notin Waiting(m)'
    BY <2>5 DEF Waiting
  <2>7. Sending(m)' \subseteq Sending(m) \cup {<<n, l>>} /\ <<n, l>> \in Nodes \X Lanes
    BY <1>3
  <2>8. Waiting(m)' \subseteq Waiting(m) \ {n}
    BY <1>2, <2>6
  <2>9. accepted'[m] = accepted[m] /\ claims'[m] = claims[m]
    BY <1>1
  <2> QED
    BY <2>3, <2>7, <2>8, <2>9 DEF Taken
<1> QED
  BY <1>5, <1>6

\* The server accepts a message: it was being sent, and is no longer.
LEMMA AcceptMoves ==
    ASSUME TypeOK, [Next]_vars, NEW n \in Nodes, NEW l \in Lanes,
           SendAccepted(n, l) \/ SendReplyLost(n, l), NEW m \in Mails
    PROVE  Spent(m) \/ Accepted(m)
<1> DEFINE x == lanes[n][l]
<1>1. /\ x.pc = "sending" /\ accepted' = [accepted EXCEPT ![x.mail] = @ + 1]
      /\ claims' = claims /\ tick' = tick /\ batch' = batch
  BY DEF SendAccepted, SendReplyLost
<1>2. Waiting(m)' = Waiting(m)
  BY <1>1 DEF Waiting, InBatch
<1>3. \A p \in Sending(m)' : p \in Sending(m)
  <2> TAKE p \in Sending(m)'
  <2>1. p \in Nodes \X Lanes
    BY DEF Sending
  <2>2. ~TakeJob(p[1], p[2])
    <3>1. TakeJob(p[1], p[2]) => batch[p[1]] # batch'[p[1]]
      <4> SUFFICES ASSUME TakeJob(p[1], p[2]) PROVE batch[p[1]] # batch'[p[1]]
        OBVIOUS
      <4>1. batch[p[1]] \in Seq(Job) /\ batch[p[1]] # <<>> /\ batch'[p[1]] = Tail(batch[p[1]])
        <5>1. batch[p[1]] \in Seq(Job)
          BY <2>1 DEF TypeOK
        <5> QED
          BY <2>1, <5>1 DEF TakeJob, TypeOK
      <4>2. Len(batch'[p[1]]) = Len(batch[p[1]]) - 1 /\ Len(batch[p[1]]) \in Nat
        BY <4>1
      <4> QED
        BY <4>2
    <3> QED
      BY <1>1, <3>1
  <2> QED
    BY <2>2, SendingShrinks
<1>4. claims[m] \in Nat /\ accepted[m] \in Nat
  BY DEF TypeOK
<1>5. CASE x.mail # m
  <2>1. accepted'[m] = accepted[m]
    BY <1>1, <1>5 DEF TypeOK
  <2> QED
    BY <1>1, <1>2, <1>3, <1>4, <2>1 DEF Spent
<1>6. CASE x.mail = m
  <2>1. accepted'[m] = accepted[m] + 1
    BY <1>1, <1>6 DEF TypeOK
  <2>2. <<n, l>> \in Sending(m)
    BY <1>1, <1>6 DEF Sending
  <2>3. lanes'[n][l].pc # "sending"
    <3>1. MoveLane(n, l, "sentRead") \/ MoveLane(n, l, "failWrite")
      BY DEF SendAccepted, SendReplyLost
    <3>2. x \in LaneRecord
      BY DEF TypeOK, Lane
    <3> QED
      BY <3>1, <3>2 DEF MoveLane, TypeOK, LaneRecord
  <2>4. <<n, l>> \notin Sending(m)'
    BY <2>3 DEF Sending
  <2> QED
    BY <1>1, <1>2, <1>3, <2>1, <2>2, <2>4 DEF Accepted
<1> QED
  BY <1>5, <1>6

LEMMA BalanceSteps ==
    ASSUME TypeOK, AllOnce, SelectionStable, [Next]_vars, NEW m \in Mails
    PROVE  Spent(m) \/ Taken(m) \/ Accepted(m) \/ Claimed(m)
<1>1. ASSUME accepted' = accepted, claims'[m] >= claims[m],
             \A n \in Nodes : ~Commit(n),
             \A n \in Nodes, l \in Lanes : ~TakeJob(n, l)
      PROVE  Spent(m)
  <2>1. \A p \in Sending(m)' : p \in Sending(m)
    <3> TAKE p \in Sending(m)'
    <3>1. p \in Nodes \X Lanes
      BY DEF Sending
    <3> QED
      BY <1>1, <3>1, SendingShrinks
  <2>2. \A n \in Waiting(m)' : n \in Waiting(m)
    <3> TAKE n \in Waiting(m)'
    <3>1. n \in Nodes
      BY DEF Waiting
    <3> QED
      BY <1>1, <3>1, WaitingShrinks
  <2> QED
    BY <1>1, <2>1, <2>2 DEF Spent
<1>2. CASE \E n \in Nodes : Commit(n)
  BY <1>2, CommitClaims
<1>3. CASE \E n \in Nodes, l \in Lanes : TakeJob(n, l)
  BY <1>3, TakeJobMoves
<1>4. CASE \E n \in Nodes, l \in Lanes : SendAccepted(n, l) \/ SendReplyLost(n, l)
  BY <1>4, AcceptMoves
<1>5. accepted' = accepted \/ \E n \in Nodes, l \in Lanes : SendAccepted(n, l) \/ SendReplyLost(n, l)
  BY AcceptedSteps
<1>6. claims'[m] >= claims[m]
  BY ClaimsSteps
<1> QED
  BY <1>1, <1>2, <1>3, <1>4, <1>5, <1>6

AllBalanced == \A m \in Mails : Balanced(m)

LEMMA StaysBalanced == Spec => []AllBalanced
<1>1. Init => AllBalanced
  <2> SUFFICES ASSUME Init, NEW m \in Mails PROVE Balanced(m)
    BY DEF AllBalanced
  <2>1. m # NoMail
    BY MailsAssumption
  <2>2. Sending(m) = {}
    BY <2>1 DEF Init, Sending, FreeLane
  <2>3. Waiting(m) = {}
    BY DEF Init, Waiting
  <2> QED
    BY <2>2, <2>3, FS_EmptySet DEF Init, Balanced
<1>2. TypeOK /\ AllOnce /\ SelectionStable /\ AllBalanced /\ [Next]_vars => AllBalanced'
  BY BalanceSteps, BalanceKept, NextTyped DEF AllBalanced
<1> QED
  BY <1>1, <1>2, TypeCorrect, HeldOnce, SelectionsStayStable, PTL DEF Spec

\* A claim pays for one message: what was accepted and what is still to be sent
\* never exceed the claims of a mail, whatever is requeued, lost or crashes.
THEOREM ClaimsPayForMessages == Spec => []OneSendPerClaim
<1>1. AllBalanced => OneSendPerClaim
  BY DEF AllBalanced, Balanced, OneSendPerClaim
<1> QED
  BY <1>1, StaysBalanced, PTL
=============================================================================
