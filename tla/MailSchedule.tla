----------------------------- MODULE MailSchedule -----------------------------
(***************************************************************************)
(* Which mail a host's worker takes up when: priorities, due times and the *)
(* backoff of retries, and the connection each claim takes from the pool.  *)
(* MailDispatch leaves these out; here one host works alone, a tick is     *)
(* connect, start, select, claim, outcomes, and the table has places for   *)
(* Slots mails at a time.  Time passes in units of any length; a due time  *)
(* is how many units are left, and neither it nor an age is counted        *)
(* further than a property can tell.                                       *)
(***************************************************************************)
EXTENDS Integers, FiniteSets

CONSTANTS Slots,       \* places for mails that are queued or were given up
          Ranks,       \* of the priorities high, normal, low: 0, 1, 2
          BatchSize,   \* mail.queueBatchSize
          BaseDelay,   \* mail.retryBaseDelayMs, in units of time
          MaxAttempts, \* mail.maxAttempts
          MaxAhead,    \* how far ahead a mail is scheduled
          MaxLag,      \* bound: how far a due time is followed into the past
          MaxAge,      \* bound: how far an age is counted
          ArrivalGap,  \* ticks between the arrivals of two mails, at least
          PoolSize,    \* connections of the pool
          MaxFaults    \* bound: statements that fail

ASSUME SlotsAssumption == IsFiniteSet(Slots) /\ Ranks \subseteq 0..2
ASSUME SizesAssumption ==
    /\ BatchSize \in Nat \ {0} /\ BaseDelay \in Nat \ {0} /\ MaxAttempts \in Nat \ {0}
    /\ MaxAhead \in Nat /\ MaxLag \in Nat /\ PoolSize \in Nat /\ MaxFaults \in Nat
    /\ ArrivalGap \in Nat
    /\ MaxAge \in Nat /\ 2 * MaxAge >= BaseDelay * MaxAttempts * (MaxAttempts - 1)

VARIABLES rows,   \* per place: the mail in it
          pc,     \* where the running tick is, "idle" if none
          batch,  \* the mails claimed and not yet answered
          out,    \* connections that are not in the pool
          lost,   \* history: START TRANSACTIONs that failed
          faults, \* statements that failed
          gap     \* ticks until the next mail may arrive

vars == <<rows, pc, batch, out, lost, faults, gap>>

Smaller(a, b) == IF a < b THEN a ELSE b

\* age is the time since the first try.
Mail == [status : {"none", "pending", "processing", "failed"}, rank : 0..2,
         attempts : 0..MaxAttempts, due : Int, age : 0..MaxAge]

Empty == [status |-> "none", rank |-> 0, attempts |-> 0, due |-> 0, age |-> 0]

NewMail(rank, due) ==
    [status |-> "pending", rank |-> rank, attempts |-> 0, due |-> due, age |-> 0]

Init ==
    /\ rows = [s \in Slots |-> Empty]
    /\ pc = "idle"
    /\ batch = {}
    /\ out = 0 /\ lost = 0 /\ faults = 0
    /\ gap = 0

-----------------------------------------------------------------------------
\* createAuditLog: due at once, or when it is scheduled for.  A row always has
\* a due time.
Arrive(s) ==
    /\ rows[s].status \in {"none", "failed"}
    /\ gap = 0
    /\ \E rank \in Ranks, due \in 0..MaxAhead :
          rows' = [rows EXCEPT ![s] = NewMail(rank, due)]
    /\ gap' = ArrivalGap
    /\ UNCHANGED <<pc, batch, out, lost, faults>>

\* A unit of time passes.
Elapse ==
    /\ rows' = [s \in Slots |->
          [rows[s] EXCEPT
              !.due = IF rows[s].status = "pending" /\ @ > -MaxLag THEN @ - 1 ELSE @,
              !.age = IF \/ rows[s].status = "processing"
                         \/ rows[s].status = "pending" /\ rows[s].attempts > 0
                      THEN Smaller(@ + 1, MaxAge) ELSE @]]
    /\ UNCHANGED <<pc, batch, out, lost, faults, gap>>

-----------------------------------------------------------------------------
(* MailQueueService.tick and MailJobClaimService.claimPending              *)

\* The timer fires; connect waits until the pool has a connection.
Connect ==
    /\ pc = "idle"
    /\ out < PoolSize
    /\ out' = out + 1
    /\ pc' = "connected"
    /\ UNCHANGED <<rows, batch, lost, faults, gap>>

StartTransaction ==
    /\ pc = "connected"
    /\ pc' = "started"
    /\ UNCHANGED <<rows, batch, out, lost, faults, gap>>

Fault == faults < MaxFaults /\ faults' = faults + 1

\* START TRANSACTION is answered with an error: that is before the try, so
\* nobody releases the connection.
StartFails ==
    /\ pc = "connected"
    /\ Fault
    /\ lost' = lost + 1
    /\ pc' = "idle"
    /\ UNCHANGED <<rows, batch, out, gap>>

\* The finally block.
Release == out' = out - 1

\* A later statement fails: rollback, release, rethrow.
ClaimFails ==
    /\ pc = "started"
    /\ Fault
    /\ Release
    /\ pc' = "idle"
    /\ UNCHANGED <<rows, batch, lost, gap>>

TickDone == pc' = "idle" /\ gap' = IF gap > 0 THEN gap - 1 ELSE 0

DueMails == {s \in Slots : rows[s].status = "pending" /\ rows[s].due <= 0}

\* ORDER BY priority, nextAttemptAt
Before(a, b) ==
    \/ rows[a].rank < rows[b].rank
    \/ rows[a].rank = rows[b].rank /\ rows[a].due <= rows[b].due

\* Operators whose names end in Mutant are wrong on purpose: put in the place
\* of the operator that follows, each makes a run report a violation.

\* take(batchSize - 1)
ClaimsMutant ==
    {T \in SUBSET DueMails :
        /\ Cardinality(T) = Smaller(Cardinality(DueMails), BatchSize - 1)
        /\ \A a \in T, b \in DueMails \ T : Before(a, b)}

\* take(batchSize): of mails that compare equal, any.
Claims ==
    {T \in SUBSET DueMails :
        /\ Cardinality(T) = Smaller(Cardinality(DueMails), BatchSize)
        /\ \A a \in T, b \in DueMails \ T : Before(a, b)}

\* The early return leaves out the release.
ClaimNoneMutant ==
    /\ pc = "started"
    /\ DueMails = {}
    /\ TickDone
    /\ UNCHANGED <<rows, batch, out, lost, faults>>

\* No candidates: rollback, release, an empty batch.
ClaimNone ==
    /\ pc = "started"
    /\ DueMails = {}
    /\ Release
    /\ TickDone
    /\ UNCHANGED <<rows, batch, lost, faults>>

Claim ==
    /\ pc = "started"
    /\ DueMails # {}
    /\ \E T \in Claims :
          /\ batch' = T
          /\ rows' = [s \in Slots |->
                IF s \in T THEN [rows[s] EXCEPT !.status = "processing"]
                ELSE rows[s]]
    /\ Release
    /\ pc' = "running"
    /\ UNCHANGED <<lost, faults, gap>>

-----------------------------------------------------------------------------
(* MailJobStateService                                                     *)

\* markAsSent: the place is free for another mail.
Sent(s) ==
    /\ s \in batch
    /\ rows' = [rows EXCEPT ![s] = Empty]
    /\ batch' = batch \ {s}
    /\ UNCHANGED <<pc, out, lost, faults, gap>>

\* The same delay after every attempt.
BackoffMutant(attempt) == BaseDelay

\* calculateBackoff: linear in the number of attempts, although the comment of
\* markAsFailure calls the backoff exponential.
Backoff(attempt) == BaseDelay * attempt

\* maxAttempts bounds the retries.
ShouldRetryMutant(attempt) == attempt <= MaxAttempts

ShouldRetry(attempt) == attempt < MaxAttempts

\* markAsFailure
Failed(s) ==
    /\ s \in batch
    /\ LET attempt == rows[s].attempts + 1
       IN  rows' = [rows EXCEPT ![s] =
              [status |-> IF ShouldRetry(attempt) THEN "pending" ELSE "failed",
               rank |-> @.rank, attempts |-> attempt,
               due |-> IF ShouldRetry(attempt) THEN Backoff(attempt) ELSE 0,
               age |-> @.age]]
    /\ batch' = batch \ {s}
    /\ UNCHANGED <<pc, out, lost, faults, gap>>

TickEnd ==
    /\ pc = "running"
    /\ batch = {}
    /\ TickDone
    /\ UNCHANGED <<rows, batch, out, lost, faults>>

TickStep == Connect \/ StartTransaction \/ ClaimNone \/ Claim \/ TickEnd
TickFault == StartFails \/ ClaimFails
Outcome(s) == Sent(s) \/ Failed(s)

Next ==
    \/ Elapse \/ TickStep \/ TickFault
    \/ \E s \in Slots : Arrive(s) \/ Outcome(s)

Spec == Init /\ [][Next]_vars

\* Time passes, the timer fires, statements and sends are answered.
FairSpec ==
    /\ Spec
    /\ WF_vars(Elapse) /\ WF_vars(TickStep)
    /\ \A s \in Slots : WF_vars(Outcome(s))

-----------------------------------------------------------------------------
Pcs == {"idle", "connected", "started", "running"}

TypeOK ==
    /\ rows \in [Slots -> Mail]
    /\ pc \in Pcs
    /\ batch = {s \in Slots : rows[s].status = "processing"}
    /\ out \in Nat /\ lost \in Nat /\ faults \in 0..MaxFaults /\ gap \in 0..ArrivalGap

\* Whatever way claimPending is left, after an empty SELECT, a failure or a
\* COMMIT, it gives its connection back: the pool misses those of the
\* transactions that did not start, and one while a claim is under way.
PoolAccounted ==
    out = lost + (IF pc \in {"connected", "started"} THEN 1 ELSE 0)

\* Retries are spread out, each further than the one before, through every wait
\* for a tick, for room in a batch or for a connection: a mail is given up no
\* earlier than baseDelay * (1 + 2 + ... + (maxAttempts - 1)) after its first
\* try, which a constant delay falls short of.
GivenUpSlowly == \A s \in Slots : rows[s].status = "failed" =>
    2 * rows[s].age >= BaseDelay * MaxAttempts * (MaxAttempts - 1)

\* A mail that is due is tried in the end, whatever its priority, if mails
\* arrive so seldom that all their attempts together leave room in a batch,
\* MaxAttempts < ArrivalGap * BatchSize, and the faults leave a connection.
DueIsTried == \A s \in Slots :
    rows[s].status = "pending" /\ rows[s].due <= 0 ~> rows[s].status # "pending"
=============================================================================
