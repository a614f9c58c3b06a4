---------------------------- MODULE MailDispatch ----------------------------
(***************************************************************************)
(* The queue worker of the mail module, on several hosts that share one    *)
(* PostgreSQL table: MailQueueService (ticks and lanes), MailJobClaimService*)
(* (the claim transaction), MailDispatchService (sending) and              *)
(* MailJobStateService (the outcome), together with the two HTTP handlers  *)
(* that write the same rows, MailWebhookService and MailRetryService.      *)
(*                                                                         *)
(* Node runs callbacks one at a time but every await lets others run, so   *)
(* an action is what happens between two awaits.  A single UPDATE is       *)
(* atomic, and waits while another transaction holds the row (rowLock).    *)
(***************************************************************************)
EXTENDS MailRow, Sequences, FiniteSets

CONSTANTS Mails,        \* ids of mail_audit_logs
          NoMail,       \* the mail of a lane without a job
          Lanes,        \* max(1, mail.queueConcurrency) runners of a tick
          BatchSize,    \* mail.queueBatchSize
          Operators,    \* POST /mail/audit/:id/retry requests, one each
          MaxAttemptsChoices, \* maxAttempts a request may ask for
          MaxCrashes, MaxDbFaults, MaxLostReplies, MaxReceipts
                        \* how often each fault, and a webhook, may occur

ASSUME MailsAssumption == IsFiniteSet(Mails) /\ NoMail \notin Mails
ASSUME LanesAssumption == IsFiniteSet(Lanes) /\ Lanes # {}
ASSUME BatchSizeAssumption == BatchSize \in Nat \ {0}
ASSUME MaxAttemptsAssumption == MaxAttemptsChoices \subseteq Nat \ {0}
ASSUME FaultBoundsAssumption ==
    /\ MaxCrashes \in Nat /\ MaxDbFaults \in Nat
    /\ MaxLostReplies \in Nat /\ MaxReceipts \in Nat

VARIABLES rows,      \* the table
          rowLock,   \* the host whose open claim transaction locks the row
          tick,      \* per host: where the running tick is, "idle" if none
          batch,     \* per host: claimed entities not yet taken by a lane
          lanes,     \* per host and lane: the processJob call in progress
          requests,  \* per operator: the requeue call
          accepted,  \* SMTP server: how many messages it accepted per mail
          claims,    \* history: how often the mail was claimed
          faults     \* how many faults and webhooks have happened

vars == <<rows, rowLock, tick, batch, lanes, requests, accepted, claims, faults>>

\* An entity as the claim query returned it.
Job == [mail : Mails, attempts : Nat, maxAttempts : Nat]

LanePcs == {"free", "sending", "sentRead", "sentWrite", "sentReread",
            "failWrite", "failReread", "dead"}

LaneRecord == [pc : LanePcs, mail : Mails \cup {NoMail},
               attempts : Nat, maxAttempts : Nat, read : Nat]

\* A lane has a mail exactly while a processJob call runs in it.
Lane == {x \in LaneRecord : x.mail \in Mails <=> x.pc \notin {"free", "dead"}}

FreeLane == [pc |-> "free", mail |-> NoMail,
             attempts |-> 0, maxAttempts |-> 0, read |-> 0]
DeadLane == [FreeLane EXCEPT !.pc = "dead"]

NoRequest == [pc |-> "idle", mail |-> NoMail, read |-> 0]

Exists(m) == rows[m].status # "absent"

Fault(kind, max) ==
    /\ faults[kind] < max
    /\ faults' = [faults EXCEPT ![kind] = @ + 1]

\* repo.update(id, ...) on a row no open transaction has locked.
Update(m, row) ==
    /\ rowLock[m] = NoNode
    /\ rows' = [rows EXCEPT ![m] = row]

Init ==
    /\ \E priority \in [Mails -> Priorities] :
          rows = [m \in Mails |-> AbsentRow(priority[m])]
    /\ rowLock = [m \in Mails |-> NoNode]
    /\ tick = [n \in Nodes |-> "idle"]
    /\ batch = [n \in Nodes |-> <<>>]
    /\ lanes = [n \in Nodes |-> [l \in Lanes |-> FreeLane]]
    /\ requests = [o \in Operators |-> NoRequest]
    /\ accepted = [m \in Mails |-> 0]
    /\ claims = [m \in Mails |-> 0]
    /\ faults = [crash |-> 0, db |-> 0, lostReply |-> 0, receipt |-> 0]

-----------------------------------------------------------------------------
(* The table: insertion, and the clock that makes a row due.               *)

\* MailAuditService.createAuditLog, at the end of an enqueue.
Create(m) ==
    /\ ~Exists(m)
    /\ \E max \in MaxAttemptsChoices, at \in {"future", "due"} :
          rows' = [rows EXCEPT ![m] = NewRow(rows[m].priority, max, at)]
    /\ UNCHANGED <<rowLock, tick, batch, lanes, requests, accepted, claims, faults>>

\* nextAttemptAt <= now becomes true.
BecomeDue(m) ==
    /\ Exists(m)
    /\ rows[m].nextAttemptAt = "future"
    /\ rows' = [rows EXCEPT ![m].nextAttemptAt = "due"]
    /\ UNCHANGED <<rowLock, tick, batch, lanes, requests, accepted, claims, faults>>

-----------------------------------------------------------------------------
(* MailQueueService.tick and MailJobClaimService.claimPending.             *)

\* No isTickRunning check.
TickAlwaysMutant(n) ==
    /\ tick[n] \in {"idle", "running"}
    /\ tick' = [tick EXCEPT ![n] = "claiming"]
    /\ UNCHANGED <<rows, rowLock, batch, lanes, requests, accepted, claims, faults>>

\* The timer fires; a tick that finds another one running returns at once.
TickStart(n) ==
    /\ tick[n] = "idle"
    /\ tick' = [tick EXCEPT ![n] = "claiming"]
    /\ UNCHANGED <<rows, rowLock, batch, lanes, requests, accepted, claims, faults>>

\* The SELECT reads without a row lock.
NoSkipLockedMutant == {m \in Mails : IsCandidate(rows[m])}

\* SELECT ... FOR UPDATE SKIP LOCKED: locked rows are not candidates.
Candidates == {m \in Mails : IsCandidate(rows[m]) /\ rowLock[m] = NoNode}

Rank(m) == PriorityRank(rows[m].priority)

\* ORDER BY priority LIMIT BatchSize.  Among equal priorities the due times
\* decide, which this module abstracts to any order.
Selections(C) ==
    LET size == IF Cardinality(C) < BatchSize THEN Cardinality(C) ELSE BatchSize
    IN  {q \in [1..size -> C] :
            /\ \A i, j \in 1..size : i # j => q[i] # q[j]
            /\ \A i, j \in 1..size : i < j => Rank(q[i]) <= Rank(q[j])
            /\ \A m \in C : \/ \E i \in 1..size : q[i] = m
                            \/ \A i \in 1..size : Rank(q[i]) <= Rank(m)}

JobOf(m) == [mail |-> m, attempts |-> rows[m].attempts,
             maxAttempts |-> rows[m].maxAttempts]

Select(n) ==
    /\ tick[n] = "claiming"
    /\ Candidates # {}
    /\ \E q \in Selections(Candidates) :
          /\ batch' = [batch EXCEPT ![n] = [i \in DOMAIN q |-> JobOf(q[i])]]
          /\ rowLock' = [m \in Mails |->
                IF \E i \in DOMAIN q : q[i] = m THEN n ELSE rowLock[m]]
    /\ tick' = [tick EXCEPT ![n] = "selected"]
    /\ UNCHANGED <<rows, lanes, requests, accepted, claims, faults>>

\* No candidate: the transaction is rolled back and the tick returns.
SelectNone(n) ==
    /\ tick[n] = "claiming"
    /\ Candidates = {}
    /\ tick' = [tick EXCEPT ![n] = "idle"]
    /\ UNCHANGED <<rows, rowLock, batch, lanes, requests, accepted, claims, faults>>

Locked(n) == {m \in Mails : rowLock[m] = n}

Unlock(n) == rowLock' = [m \in Mails |-> IF rowLock[m] = n THEN NoNode ELSE rowLock[m]]

\* markAsClaimed and COMMIT.
ClaimRows(n) ==
    /\ rows' = [m \in Mails |-> IF m \in Locked(n) THEN ClaimWrite(rows[m], n) ELSE rows[m]]
    /\ claims' = [m \in Mails |-> IF m \in Locked(n) THEN claims[m] + 1 ELSE claims[m]]
    /\ Unlock(n)

Commit(n) ==
    /\ tick[n] = "selected"
    /\ ClaimRows(n)
    /\ tick' = [tick EXCEPT ![n] = "running"]
    /\ UNCHANGED <<batch, lanes, requests, accepted, faults>>

\* A statement of the transaction fails: rollback, rethrow, the tick ends.
ClaimFails(n) ==
    /\ tick[n] \in {"claiming", "selected"}
    /\ Fault("db", MaxDbFaults)
    /\ Unlock(n)
    /\ batch' = [batch EXCEPT ![n] = <<>>]
    /\ tick' = [tick EXCEPT ![n] = "idle"]
    /\ UNCHANGED <<rows, lanes, requests, accepted, claims>>

\* The COMMIT took effect but its answer was lost: the catch block rolls back
\* nothing and rethrows, so nobody holds the entities.
CommitAnswerLost(n) ==
    /\ tick[n] = "selected"
    /\ Fault("db", MaxDbFaults)
    /\ ClaimRows(n)
    /\ batch' = [batch EXCEPT ![n] = <<>>]
    /\ tick' = [tick EXCEPT ![n] = "idle"]
    /\ UNCHANGED <<lanes, requests, accepted>>

-----------------------------------------------------------------------------
(* runWithConcurrency and MailDispatchService.processJob.                  *)

SetLane(n, l, lane) == lanes' = [lanes EXCEPT ![n][l] = lane]
MoveLane(n, l, pc) == lanes' = [lanes EXCEPT ![n][l].pc = pc]

\* queue[0] instead of queue.shift().
TakeWithoutShiftMutant(n, l) ==
    /\ tick[n] = "running" /\ lanes[n][l].pc = "free" /\ batch[n] # <<>>
    /\ LET job == Head(batch[n])
       IN  SetLane(n, l, [pc |-> "sending", mail |-> job.mail,
                          attempts |-> job.attempts,
                          maxAttempts |-> job.maxAttempts, read |-> 0])
    /\ UNCHANGED <<rows, rowLock, tick, batch, requests, accepted, claims, faults>>

\* queue.shift(), then sendMail is called.
TakeJob(n, l) ==
    /\ tick[n] = "running"
    /\ lanes[n][l].pc = "free"
    /\ batch[n] # <<>>
    /\ LET job == Head(batch[n])
       IN  SetLane(n, l, [pc |-> "sending", mail |-> job.mail,
                          attempts |-> job.attempts,
                          maxAttempts |-> job.maxAttempts, read |-> 0])
    /\ batch' = [batch EXCEPT ![n] = Tail(@)]
    /\ UNCHANGED <<rows, rowLock, tick, requests, accepted, claims, faults>>

\* The SMTP server accepts the message and sendMail resolves.
SendAccepted(n, l) ==
    /\ lanes[n][l].pc = "sending"
    /\ accepted' = [accepted EXCEPT ![lanes[n][l].mail] = @ + 1]
    /\ MoveLane(n, l, "sentRead")
    /\ UNCHANGED <<rows, rowLock, tick, batch, requests, claims, faults>>

\* The rejection of sendMail is not awaited.
RejectionIgnoredMutant(n, l) ==
    /\ lanes[n][l].pc = "sending"
    /\ MoveLane(n, l, "sentRead")
    /\ UNCHANGED <<rows, rowLock, tick, batch, requests, accepted, claims, faults>>

\* The server refuses or cannot be reached: sendMail rejects.
SendRejected(n, l) ==
    /\ lanes[n][l].pc = "sending"
    /\ MoveLane(n, l, "failWrite")
    /\ UNCHANGED <<rows, rowLock, tick, batch, requests, accepted, claims, faults>>

\* A send that timed out is repeated on the spot.
ResendMutant(n, l) ==
    /\ lanes[n][l].pc = "sending"
    /\ Fault("lostReply", MaxLostReplies)
    /\ accepted' = [accepted EXCEPT ![lanes[n][l].mail] = @ + 1]
    /\ UNCHANGED <<rows, rowLock, tick, batch, lanes, requests, claims>>

\* The server accepts but its answer is lost or times out: sendMail rejects.
SendReplyLost(n, l) ==
    /\ lanes[n][l].pc = "sending"
    /\ Fault("lostReply", MaxLostReplies)
    /\ accepted' = [accepted EXCEPT ![lanes[n][l].mail] = @ + 1]
    /\ MoveLane(n, l, "failWrite")
    /\ UNCHANGED <<rows, rowLock, tick, batch, requests, claims>>

\* markAsSent: findOneOrFail, update, findOneOrFail.
MarkAsSentRead(n, l) ==
    /\ lanes[n][l].pc = "sentRead"
    /\ lanes' = [lanes EXCEPT ![n][l].pc = "sentWrite",
                              ![n][l].read = rows[lanes[n][l].mail].attempts]
    /\ UNCHANGED <<rows, rowLock, tick, batch, requests, accepted, claims, faults>>

MarkAsSentWrite(n, l) ==
    /\ lanes[n][l].pc = "sentWrite"
    /\ LET m == lanes[n][l].mail
       IN  Update(m, SentWrite(rows[m], lanes[n][l].read, n))
    /\ MoveLane(n, l, "sentReread")
    /\ UNCHANGED <<rowLock, tick, batch, requests, accepted, claims, faults>>

\* markAsFailure: update, findOneOrFail.
MarkAsFailureWrite(n, l) ==
    /\ lanes[n][l].pc = "failWrite"
    /\ LET m == lanes[n][l].mail
       IN  Update(m, FailureWrite(rows[m], lanes[n][l].attempts,
                                  lanes[n][l].maxAttempts, n))
    /\ MoveLane(n, l, "failReread")
    /\ UNCHANGED <<rowLock, tick, batch, requests, accepted, claims, faults>>

\* The re-read answers, the event is emitted and the lane asks for more work.
JobDone(n, l) ==
    /\ lanes[n][l].pc \in {"sentReread", "failReread"}
    /\ SetLane(n, l, FreeLane)
    /\ UNCHANGED <<rows, rowLock, tick, batch, requests, accepted, claims, faults>>

\* A query of markAsSent fails: the catch of processJob takes it for a failed
\* send.  (An update that took effect but whose answer is lost is the write
\* followed by a failing re-read.)
SentQueryFails(n, l) ==
    /\ lanes[n][l].pc \in {"sentRead", "sentWrite", "sentReread"}
    /\ Fault("db", MaxDbFaults)
    /\ MoveLane(n, l, "failWrite")
    /\ UNCHANGED <<rows, rowLock, tick, batch, requests, accepted, claims>>

\* A query of markAsFailure fails: processJob rejects, and so does the lane's
\* run(), which takes no further item.
FailureQueryFails(n, l) ==
    /\ lanes[n][l].pc \in {"failWrite", "failReread"}
    /\ Fault("db", MaxDbFaults)
    /\ SetLane(n, l, DeadLane)
    /\ UNCHANGED <<rows, rowLock, tick, batch, requests, accepted, claims>>

\* The tick waits for every lane to finish its work, dead lanes included.
WaitForAllMutant(n) ==
    /\ tick[n] = "running"
    /\ batch[n] = <<>> /\ \A l \in Lanes : lanes[n][l].pc = "free"
    /\ tick' = [tick EXCEPT ![n] = "idle"]
    /\ UNCHANGED <<rows, rowLock, batch, lanes, requests, accepted, claims, faults>>

\* Promise.allSettled resolves and the finally block clears isTickRunning.
\* What no lane took, when all of them died, is dropped.
TickEnd(n) ==
    /\ tick[n] = "running"
    /\ \A l \in Lanes : \/ lanes[n][l].pc = "dead"
                        \/ lanes[n][l].pc = "free" /\ batch[n] = <<>>
    /\ tick' = [tick EXCEPT ![n] = "idle"]
    /\ batch' = [batch EXCEPT ![n] = <<>>]
    /\ lanes' = [lanes EXCEPT ![n] = [l \in Lanes |-> FreeLane]]
    /\ UNCHANGED <<rows, rowLock, requests, accepted, claims, faults>>

\* The host dies, or is stopped: onModuleDestroy clears the timer and waits
\* for nothing.  PostgreSQL rolls the open transaction back.  It restarts.
Crash(n) ==
    /\ tick[n] # "idle"
    /\ Fault("crash", MaxCrashes)
    /\ tick' = [tick EXCEPT ![n] = "idle"]
    /\ batch' = [batch EXCEPT ![n] = <<>>]
    /\ lanes' = [lanes EXCEPT ![n] = [l \in Lanes |-> FreeLane]]
    /\ Unlock(n)
    /\ UNCHANGED <<rows, requests, accepted, claims>>

-----------------------------------------------------------------------------
(* The HTTP handlers that write the same rows.                             *)

\* processDeliveryEvent.  Nothing is asked of the row: reports may be late,
\* repeated, out of order, or about a mail nobody has sent yet.  The lookup
\* decides only which row.
Webhook(m, event) ==
    /\ Exists(m)
    /\ Fault("receipt", MaxReceipts)
    /\ Update(m, DeliveryWrite(rows[m], event))
    /\ UNCHANGED <<rowLock, tick, batch, lanes, requests, accepted, claims>>

\* requeue: the read and the check.  A request that is refused, or whose
\* server dies before the update, simply goes no further.
RequeueCheck(o, m) ==
    /\ requests[o].pc = "idle"
    /\ rows[m].status = "failed"
    /\ requests' = [requests EXCEPT ![o] =
          [pc |-> "checked", mail |-> m, read |-> rows[m].attempts]]
    /\ UNCHANGED <<rows, rowLock, tick, batch, lanes, accepted, claims, faults>>

\* requeue: the update, by id alone.
RequeueUpdate(o) ==
    /\ requests[o].pc = "checked"
    /\ LET m == requests[o].mail
       IN  Update(m, RequeueWrite(rows[m], requests[o].read))
    /\ requests' = [requests EXCEPT ![o].pc = "done"]
    /\ UNCHANGED <<rowLock, tick, batch, lanes, accepted, claims, faults>>

-----------------------------------------------------------------------------
LaneStep(n, l) ==
    \/ TakeJob(n, l)
    \/ SendAccepted(n, l) \/ SendRejected(n, l)
    \/ MarkAsSentRead(n, l) \/ MarkAsSentWrite(n, l)
    \/ MarkAsFailureWrite(n, l)
    \/ JobDone(n, l)

LaneFault(n, l) ==
    SendReplyLost(n, l) \/ SentQueryFails(n, l) \/ FailureQueryFails(n, l)

ClaimStep(n) == Select(n) \/ SelectNone(n) \/ Commit(n)

Next ==
    \/ \E m \in Mails : Create(m) \/ BecomeDue(m)
    \/ \E n \in Nodes :
          \/ TickStart(n) \/ ClaimStep(n) \/ TickEnd(n)
          \/ ClaimFails(n) \/ CommitAnswerLost(n) \/ Crash(n)
          \/ \E l \in Lanes : LaneStep(n, l) \/ LaneFault(n, l)
    \/ \E m \in Mails, event \in DeliveryEvents : Webhook(m, event)
    \/ \E o \in Operators : RequeueUpdate(o) \/ \E m \in Mails : RequeueCheck(o, m)

Spec == Init /\ [][Next]_vars

\* The timer keeps firing, the clock advances, statements and sends are
\* answered one way or another (nodemailer and the driver time out).  No
\* insertion, webhook, requeue or fault is ever forced.
Fairness ==
    /\ \A m \in Mails : WF_vars(BecomeDue(m))
    /\ \A n \in Nodes :
          /\ WF_vars(TickStart(n)) /\ WF_vars(ClaimStep(n)) /\ WF_vars(TickEnd(n))
          /\ \A l \in Lanes : WF_vars(LaneStep(n, l))

FairSpec == Spec /\ Fairness

-----------------------------------------------------------------------------
(* Properties.  "Worker of m" means a batch entry or a lane that may still  *)
(* send m or write its row; a lane that only re-reads a failure may not.    *)

ActivePcs == {"sending", "sentRead", "sentWrite", "sentReread", "failWrite"}

InBatch(n, m) == \E i \in DOMAIN batch[n] : batch[n][i].mail = m
InLane(n, l, m) == lanes[n][l].mail = m /\ lanes[n][l].pc \in ActivePcs

Held(m) == \E n \in Nodes :
    /\ tick[n] = "running"
    /\ InBatch(n, m) \/ \E l \in Lanes : InLane(n, l, m)

Orphan(m) == rows[m].status = "processing" /\ ~Held(m)

TypeOK ==
    /\ rows \in [Mails -> Row]
    /\ rowLock \in [Mails -> Nodes \cup {NoNode}]
    /\ tick \in [Nodes -> {"idle", "claiming", "selected", "running"}]
    /\ batch \in [Nodes -> Seq(Job)]
    /\ lanes \in [Nodes -> [Lanes -> Lane]]
    /\ requests \in [Operators ->
          [pc : {"idle", "checked", "done"}, mail : Mails \cup {NoMail}, read : Nat]]
    /\ accepted \in [Mails -> Nat]
    /\ claims \in [Mails -> Nat]
    /\ faults \in [{"crash", "db", "lostReply", "receipt"} -> Nat]

\* The columns of a row agree with its status in whatever order the worker,
\* the provider's webhooks and the operators wrote them: a pending mail is
\* unclaimed and has a due time, a processing one names its worker, a sent one
\* has a date and no error, a failed one has a date and an error.
RowConsistent == \A m \in Mails :
    LET row == rows[m]
    IN  /\ row.status = "pending" => row.nextAttemptAt # "null" /\ ~row.lockedAt
        /\ row.status = "processing" => row.lockedAt /\ row.processingNode # NoNode
        /\ row.status = "sent" => row.sentAt /\ ~row.lastError
        /\ row.status = "failed" => row.failedAt /\ row.lastError

\* Between its SELECT and its COMMIT a claim transaction owns its candidates:
\* they are exactly the rows it has locked, they are still runnable and the
\* attempts it will later compute with are those of the row, so COMMIT never
\* overwrites what a webhook, an operator or another host wrote.
SelectionStable == \A n \in Nodes :
    /\ tick[n] = "selected" =>
          /\ Locked(n) = {batch[n][i].mail : i \in DOMAIN batch[n]}
          /\ \A i \in DOMAIN batch[n] :
                LET m == batch[n][i].mail
                IN  IsCandidate(rows[m]) /\ batch[n][i] = JobOf(m)
    /\ tick[n] # "selected" => Locked(n) = {}

\* isTickRunning keeps a host from taking a mail up a second time while one of
\* its own lanes still has it.
NodeHoldsOnce == \A n \in Nodes, m \in Mails :
    /\ \A i, j \in DOMAIN batch[n] :
          batch[n][i].mail = m /\ batch[n][j].mail = m => i = j
    /\ \A l \in Lanes : lanes[n][l].mail = m =>
          ~InBatch(n, m) /\ \A k \in Lanes : lanes[n][k].mail = m => k = l

Sending(m) == {p \in Nodes \X Lanes :
    LET lane == lanes[p[1]][p[2]] IN lane.mail = m /\ lane.pc = "sending"}
Waiting(m) == {n \in Nodes : tick[n] = "running" /\ InBatch(n, m)}

\* A claim pays for at most one message: whatever crashes, dies or is requeued,
\* the messages the server accepted and the sends still to come never exceed
\* the claims of the mail.
OneSendPerClaim == \A m \in Mails :
    accepted[m] + Cardinality(Sending(m)) + Cardinality(Waiting(m)) <= claims[m]

\* A worker marks a mail as sent only if the SMTP server did accept a message of
\* it, whatever fails or is requeued; else it takes a webhook that says so.
SentMeansAccepted == [][\A m \in Mails :
    rows[m].status # "sent" /\ rows'[m].status = "sent" =>
       accepted[m] > 0 \/ faults'["receipt"] # faults["receipt"]]_vars

\* Without requeues, SKIP LOCKED and the status check leave a mail at most one
\* worker over all hosts, lanes and batches.
SingleWorker == \A m \in Mails, n1, n2 \in Nodes :
    /\ n1 # n2 => ~(n1 \in Waiting(m) /\ n2 \in Waiting(m))
    /\ \A l \in Lanes : InLane(n1, l, m) =>
          /\ n2 \notin Waiting(m)
          /\ \A k \in Lanes : InLane(n2, k, m) => n1 = n2 /\ l = k

\* Without requeues a mail is claimed, hence sent, at most maxAttempts times,
\* although a claim whose host dies counts no attempt.
ClaimsWithinMaxAttempts == \A m \in Mails : claims[m] <= rows[m].maxAttempts

\* Nobody takes over a mail whose worker is gone: lockedAt is never examined,
\* so without requeues only a webhook ends the orphan's processing status.
OrphanIsLeftAlone == [][\A m \in Mails :
    Orphan(m) => Orphan(m)' \/ faults'["receipt"] # faults["receipt"]]_vars

\* With a reliable database and no webhooks or requeues, sent is final.
SentIsFinal == [][\A m \in Mails :
    rows[m].status = "sent" => rows'[m].status = "sent"]_vars

\* Without webhooks or requeues a mail is given up only after all its attempts,
\* and every attempt was a claim.
FailedMeansExhausted == \A m \in Mails : rows[m].status = "failed" =>
    rows[m].attempts = rows[m].maxAttempts /\ claims[m] = rows[m].attempts

\* Under the same conditions a date of failure is kept on mails that were given
\* up and on no other, whatever retries came before; it takes a requeue, which
\* leaves the date, or a webhook to make it stale.
FailureDateIsCurrent == \A m \in Mails :
    rows[m].failedAt <=> rows[m].status = "failed"

Settled(m) == rows[m].status \in {"sent", "failed"}

\* Without faults every mail is in the end sent or given up, for good.
EveryMailSettles == \A m \in Mails : Exists(m) ~> [](Settled(m))

\* With crashes, database faults and webhooks a mail that was queued is in the
\* end settled for good, or an orphan for good.
SettlesOrIsOrphaned == \A m \in Mails :
    Exists(m) ~> ([]Settled(m) \/ []Orphan(m))

\* No tick wedges the worker: whatever fails in it, isTickRunning is cleared.
TickCompletes == \A n \in Nodes : tick[n] # "idle" ~> tick[n] = "idle"

\* "Only FAILED mails can be retried": the update of a requeue never hits a mail
\* that a worker has in hand or that has been sent.  (A pending row, left by a
\* repeated request, would only be written again.)
RequeueOnlyFailed == [][\A o \in Operators :
    requests[o].pc = "checked" /\ requests'[o].pc = "done" =>
       rows[requests[o].mail].status \in {"failed", "pending"}]_vars

\* The promise MailDispatch keeps while nobody requeues.
Ledger == INSTANCE MailLedger WITH
    Limits <- MaxAttemptsChoices,
    status <- [m \in Mails |-> rows[m].status],
    limit <- [m \in Mails |-> rows[m].maxAttempts],
    tries <- claims,
    open <- {m \in Mails : Held(m)},
    delivered <- accepted

\* The worker, over all hosts and faults, implements the ledger of tries.
ImplementsLedger == Ledger!LedgerSpec
=============================================================================
