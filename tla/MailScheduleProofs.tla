-------------------------- MODULE MailScheduleProofs --------------------------
(***************************************************************************)
(* Proofs about MailSchedule, for any number of mails, any sizes and any   *)
(* bound on faults.                                                        *)
(***************************************************************************)
EXTENDS MailSchedule, TLAPS

Statuses == {"none", "pending", "processing", "failed"}

\* TypeOK with the parts the prover needs by name.
RowsTyped == rows \in [Slots -> Mail]
BatchTyped == batch = {s \in Slots : rows[s].status = "processing"}
BatchWhileRunning == batch # {} => pc = "running"

\* Once a mail has been tried k times its next try waits until base * (1 + .. + k)
\* units after the first; Spread is twice that.
Spread(k) == BaseDelay * k * (k + 1)

Left(mail) == IF mail.status = "pending" /\ mail.due > 0 THEN mail.due ELSE 0

\* Why retries are spread: what has passed and what is left add up.
Distance(mail) ==
    /\ mail.status \in {"pending", "processing"} =>
          /\ mail.attempts < MaxAttempts
          /\ 2 * (mail.age + Left(mail)) >= Spread(mail.attempts)
    /\ mail.status = "failed" =>
          mail.attempts = MaxAttempts /\ 2 * mail.age >= Spread(MaxAttempts - 1)

ScheduleInv ==
    /\ TypeOK
    /\ PoolAccounted
    /\ BatchWhileRunning
    /\ \A s \in Slots : Distance(rows[s])

\* What Spread is for one more attempt.
LEMMA SpreadStep ==
    ASSUME NEW k \in Nat
    PROVE  /\ Spread(k) \in Nat
           /\ Spread(k + 1) = Spread(k) + 2 * Backoff(k + 1)
           /\ Spread(0) = 0
<1>1. BaseDelay \in Nat
  BY SizesAssumption
<1> DEFINE b == BaseDelay
<1>2. b * k \in Nat /\ b * k * k \in Nat
  BY <1>1
<1>3. b * k * (k + 1) = b * k * k + b * k
  BY <1>1
<1>4. b * (k + 1) = b * k + b
  BY <1>1
<1>5. b * (k + 1) * (k + 1 + 1) = b * k * k + 3 * (b * k) + 2 * b
  BY <1>1
<1>6. Spread(0) = 0
  BY <1>1 DEF Spread
<1> QED
  BY <1>1, <1>2, <1>3, <1>4, <1>5, <1>6 DEF Spread, Backoff

\* The bound on ages is no shorter than what is asked of them.
LEMMA AgeBound ==
    ASSUME NEW k \in Nat, k < MaxAttempts
    PROVE  2 * MaxAge >= Spread(k)
<1>1. BaseDelay \in Nat /\ MaxAttempts \in Nat /\ k + 1 =< MaxAttempts /\ MaxAge \in Nat
  BY SizesAssumption
<1>2. k * (k + 1) =< (MaxAttempts - 1) * MaxAttempts
  BY <1>1
<1>3. BaseDelay * (k * (k + 1)) =< BaseDelay * ((MaxAttempts - 1) * MaxAttempts)
  BY <1>1, <1>2
<1>4. BaseDelay * k * (k + 1) = BaseDelay * (k * (k + 1))
  BY <1>1
<1>5. BaseDelay * MaxAttempts * (MaxAttempts - 1) = BaseDelay * ((MaxAttempts - 1) * MaxAttempts)
  BY <1>1
<1>6. 2 * MaxAge >= BaseDelay * MaxAttempts * (MaxAttempts - 1)
  BY SizesAssumption
<1> QED
  BY <1>1, <1>3, <1>4, <1>5, <1>6 DEF Spread

\* A claim changes the status and nothing else.
LEMMA MailClaimed ==
    ASSUME NEW mail \in Mail, NEW new,
           new = [mail EXCEPT !.status = "processing"]
    PROVE  /\ new \in Mail /\ new.status = "processing"
           /\ new.attempts = mail.attempts /\ new.age = mail.age
  BY DEF Mail

\* What the typing of a place gives.
LEMMA MailFields ==
    ASSUME TypeOK, NEW s \in Slots
    PROVE  /\ rows[s] \in Mail
           /\ rows[s].status \in Statuses /\ rows[s].rank \in 0..2
           /\ rows[s].attempts \in 0..MaxAttempts /\ rows[s].due \in Int
           /\ rows[s].age \in 0..MaxAge
           /\ Left(rows[s]) \in Nat
  BY DEF TypeOK, Mail, Statuses, Left

LEMMA InitHolds == Init => ScheduleInv
<1> SUFFICES ASSUME Init PROVE ScheduleInv
  OBVIOUS
<1>1. MaxAttempts \in Nat /\ MaxAge \in Nat /\ MaxFaults \in Nat /\ ArrivalGap \in Nat
  BY SizesAssumption
<1>2. Empty \in Mail /\ Empty.status = "none"
  BY <1>1 DEF Empty, Mail
<1>3. TypeOK
  BY <1>1, <1>2 DEF Init, TypeOK, Pcs
<1>4. \A s \in Slots : Distance(rows[s])
  BY <1>2 DEF Init, Distance
<1> QED
  BY <1>3, <1>4 DEF ScheduleInv, BatchWhileRunning, PoolAccounted, Init

LEMMA ArriveKeeps ==
    ASSUME ScheduleInv, NEW s \in Slots, Arrive(s)
    PROVE  ScheduleInv'
<1> USE DEF ScheduleInv
<1>1. PICK rank \in Ranks, due \in 0..MaxAhead : rows' = [rows EXCEPT ![s] = NewMail(rank, due)]
  BY DEF Arrive
<1> DEFINE new == NewMail(rank, due)
<1>2. /\ MaxAttempts \in Nat \ {0} /\ MaxAge \in Nat /\ ArrivalGap \in Nat
      /\ rank \in 0..2 /\ due \in Nat
  BY SizesAssumption, SlotsAssumption
<1>3. /\ new \in Mail /\ new.status = "pending" /\ new.attempts = 0 /\ new.age = 0
      /\ Left(new) \in Nat
  BY <1>2 DEF NewMail, Mail, Left
<1>4. rows \in [Slots -> Mail] /\ rows[s].status \in {"none", "failed"}
  BY DEF TypeOK, Arrive
<1>5. rows' \in [Slots -> Mail] /\ rows'[s] = new /\ \A r \in Slots \ {s} : rows'[r] = rows[r]
  BY <1>1, <1>3, <1>4
<1>6. batch' = {r \in Slots : rows'[r].status = "processing"}
  BY <1>3, <1>4, <1>5 DEF TypeOK, Arrive
<1>7. Distance(new)
  BY <1>2, <1>3, SpreadStep DEF Distance
<1>8. TypeOK'
  BY <1>2, <1>5, <1>6 DEF TypeOK, Arrive
<1>9. \A r \in Slots : Distance(rows'[r])
  BY <1>5, <1>7
<1> QED
  BY <1>8, <1>9 DEF BatchWhileRunning, PoolAccounted, Arrive

LEMMA ElapseKeeps ==
    ASSUME ScheduleInv, Elapse
    PROVE  ScheduleInv'
<1> USE DEF ScheduleInv
<1>1. MaxAttempts \in Nat \ {0} /\ MaxAge \in Nat /\ MaxLag \in Nat
  BY SizesAssumption
<1>2. ASSUME NEW s \in Slots
      PROVE  /\ rows'[s] \in Mail /\ rows'[s].status = rows[s].status
             /\ Distance(rows'[s])
  <2> DEFINE m == rows[s]
             older == m.status = "processing" \/ (m.status = "pending" /\ m.attempts > 0)
             due == IF m.status = "pending" /\ m.due > -MaxLag THEN m.due - 1 ELSE m.due
             age == IF older THEN Smaller(m.age + 1, MaxAge) ELSE m.age
  <2>a. rows' = [r \in Slots |-> [rows[r] EXCEPT
            !.due = IF rows[r].status = "pending" /\ rows[r].due > -MaxLag
                    THEN rows[r].due - 1 ELSE rows[r].due,
            !.age = IF \/ rows[r].status = "processing"
                       \/ rows[r].status = "pending" /\ rows[r].attempts > 0
                    THEN Smaller(rows[r].age + 1, MaxAge) ELSE rows[r].age]]
    BY Zenon DEF Elapse
  <2>1. rows'[s] = [m EXCEPT !.due = due, !.age = age]
    BY Zenon, <2>a
  <2>2. /\ m \in Mail /\ m.status \in Statuses /\ m.attempts \in 0..MaxAttempts
        /\ m.due \in Int /\ m.age \in 0..MaxAge /\ Left(m) \in Nat
    BY MailFields
  <2>3. due \in Int /\ age \in 0..MaxAge
    BY <1>1, <2>2 DEF Smaller
  <2>4. /\ rows'[s] \in Mail /\ rows'[s].status = m.status
        /\ rows'[s].attempts = m.attempts /\ rows'[s].due = due /\ rows'[s].age = age
    BY <2>1, <2>2, <2>3 DEF Mail
  <2>5. Distance(m)
    OBVIOUS
  <2>6. age >= m.age
    BY <1>1, <2>2 DEF Smaller
  <2>7. ASSUME m.status \in {"pending", "processing"}
        PROVE  2 * (age + Left(rows'[s])) >= Spread(m.attempts)
    <3>1. m.attempts < MaxAttempts /\ 2 * (m.age + Left(m)) >= Spread(m.attempts)
      BY <2>5, <2>7 DEF Distance
    <3>2. Spread(m.attempts) \in Nat /\ 2 * MaxAge >= Spread(m.attempts)
      BY <2>2, <3>1, AgeBound, SpreadStep
    <3>3. CASE ~older
      <4>1. m.attempts = 0
        BY <2>2, <2>7, <3>3
      <4>2. Spread(m.attempts) = 0 /\ Left(rows'[s]) \in Nat
        BY <4>1, <2>3, <2>4, SpreadStep DEF Left
      <4> QED
        BY <2>3, <4>2, <1>1
    <3>4. CASE older /\ m.age = MaxAge
      <4>1. age = MaxAge /\ Left(rows'[s]) \in Nat
        BY <1>1, <2>3, <2>4, <3>4 DEF Smaller, Left
      <4> QED
        BY <1>1, <3>2, <4>1
    <3>5. CASE older /\ m.age # MaxAge
      <4>1. age = m.age + 1
        BY <1>1, <2>2, <3>5 DEF Smaller
      <4>2. Left(rows'[s]) >= Left(m) - 1 /\ Left(rows'[s]) \in Nat
        BY <1>1, <2>2, <2>3, <2>4 DEF Left
      <4> HIDE DEF age
      <4> QED
        BY <2>2, <3>1, <3>2, <4>1, <4>2
    <3> QED
      BY <3>3, <3>4, <3>5
  <2>8. m.status = "failed" =>
           m.attempts = MaxAttempts /\ 2 * age >= Spread(MaxAttempts - 1)
    <3>1. SUFFICES ASSUME m.status = "failed"
                   PROVE  m.attempts = MaxAttempts /\ 2 * age >= Spread(MaxAttempts - 1)
      OBVIOUS
    <3>2. m.attempts = MaxAttempts /\ 2 * m.age >= Spread(MaxAttempts - 1)
      BY <2>5, <3>1 DEF Distance
    <3>3. age = m.age
      BY <3>1
    <3> QED
      BY <3>2, <3>3
  <2>9. m.status \in {"pending", "processing"} => m.attempts < MaxAttempts
    BY <2>5 DEF Distance
  <2> HIDE DEF age, due, older
  <2> QED
    BY <2>4, <2>7, <2>8, <2>9 DEF Distance
<1>3. rows' \in [Slots -> Mail]
  BY <1>2 DEF Elapse
<1>4. TypeOK'
  BY <1>2, <1>3 DEF TypeOK, Elapse
<1> QED
  BY <1>2, <1>4 DEF BatchWhileRunning, PoolAccounted, Elapse

\* A step that leaves the rows and the batch alone.
LEMMA RowsKept ==
    ASSUME ScheduleInv, UNCHANGED <<rows, batch>>
    PROVE  /\ rows' \in [Slots -> Mail]
           /\ batch' = {s \in Slots : rows'[s].status = "processing"}
           /\ \A s \in Slots : Distance(rows'[s])
           /\ (batch = {} \/ pc' = "running") => BatchWhileRunning'
  BY DEF ScheduleInv, TypeOK, BatchWhileRunning

\* The connection, the faults and the gap through a tick.
LEMMA TickKeeps ==
    ASSUME ScheduleInv,
           Connect \/ StartTransaction \/ StartFails \/ ClaimFails \/ ClaimNone \/ TickEnd
    PROVE  ScheduleInv'
<1>1. /\ out \in Nat /\ lost \in Nat /\ faults \in 0..MaxFaults /\ gap \in 0..ArrivalGap
      /\ pc \in Pcs /\ MaxFaults \in Nat /\ ArrivalGap \in Nat
      /\ out = lost + (IF pc \in {"connected", "started"} THEN 1 ELSE 0)
  BY SizesAssumption DEF ScheduleInv, TypeOK, PoolAccounted
<1>2. pc # "running" => batch = {}
  BY DEF ScheduleInv, BatchWhileRunning
<1>3. UNCHANGED <<rows, batch>> /\ batch = {}
  BY <1>2 DEF Connect, StartTransaction, StartFails, ClaimFails, ClaimNone, TickEnd
<1>4. /\ out' \in Nat /\ lost' \in Nat /\ faults' \in 0..MaxFaults
      /\ gap' \in 0..ArrivalGap /\ pc' \in Pcs /\ PoolAccounted'
  <2>1. CASE Connect
    BY <1>1, <2>1 DEF Connect, PoolAccounted, Pcs
  <2>2. CASE StartTransaction
    BY <1>1, <2>2 DEF StartTransaction, PoolAccounted, Pcs
  <2>3. CASE StartFails
    BY <1>1, <2>3 DEF StartFails, Fault, PoolAccounted, Pcs
  <2>4. CASE ClaimFails
    BY <1>1, <2>4 DEF ClaimFails, Fault, Release, PoolAccounted, Pcs
  <2>5. CASE ClaimNone
    BY <1>1, <2>5 DEF ClaimNone, Release, TickDone, PoolAccounted, Pcs
  <2>6. CASE TickEnd
    BY <1>1, <2>6 DEF TickEnd, TickDone, PoolAccounted, Pcs
  <2> QED
    BY <2>1, <2>2, <2>3, <2>4, <2>5, <2>6
<1> QED
  BY <1>3, <1>4, RowsKept DEF ScheduleInv, TypeOK

LEMMA ClaimKeeps ==
    ASSUME ScheduleInv, Claim
    PROVE  ScheduleInv'
<1>1. PICK T \in Claims :
         /\ batch' = T
         /\ rows' = [s \in Slots |->
               IF s \in T THEN [rows[s] EXCEPT !.status = "processing"]
               ELSE rows[s]]
  BY DEF Claim
<1>2. T \subseteq DueMails
  BY DEF Claims
<1>3. batch = {}
  BY DEF ScheduleInv, BatchWhileRunning, Claim
<1>4. ASSUME NEW s \in Slots
      PROVE  /\ rows'[s] \in Mail /\ Distance(rows'[s])
             /\ s \in T <=> rows'[s].status = "processing"
  <2>1. /\ rows[s] \in Mail /\ rows[s].status # "processing" /\ Distance(rows[s])
        /\ rows[s].attempts \in Nat /\ rows[s].age \in Nat
    BY <1>3, MailFields, SizesAssumption DEF ScheduleInv, TypeOK
  <2>2. CASE s \in T
    <3>1. rows[s].status = "pending" /\ Left(rows[s]) = 0
      BY <1>2, <2>1, <2>2, MailFields DEF DueMails, Left, ScheduleInv
    <3>2. rows'[s] = [rows[s] EXCEPT !.status = "processing"]
      BY <1>1, <2>2
    <3>3. /\ rows'[s] \in Mail /\ rows'[s].status = "processing"
          /\ rows'[s].attempts = rows[s].attempts /\ rows'[s].age = rows[s].age
      BY <2>1, <3>2, MailClaimed
    <3>4. Left(rows'[s]) = 0
      BY <3>3 DEF Left
    <3> QED
      BY <2>1, <2>2, <3>1, <3>3, <3>4 DEF Distance
  <2>3. CASE s \notin T
    BY <1>1, <2>1, <2>3
  <2> QED
    BY <2>2, <2>3
<1>5. rows' \in [Slots -> Mail]
  BY <1>1, <1>4
<1>6. batch' = {s \in Slots : rows'[s].status = "processing"}
  BY <1>1, <1>2, <1>4 DEF DueMails
<1>7. /\ out' \in Nat /\ lost' \in Nat /\ faults' \in 0..MaxFaults
      /\ gap' \in 0..ArrivalGap /\ pc' = "running" /\ PoolAccounted'
  <2>1. /\ out \in Nat /\ lost \in Nat /\ faults \in 0..MaxFaults
        /\ gap \in 0..ArrivalGap /\ pc = "started"
    BY DEF Claim, ScheduleInv, TypeOK
  <2>2. out = lost + 1
    BY <2>1 DEF ScheduleInv, PoolAccounted
  <2>3. /\ out' = out - 1 /\ pc' = "running"
        /\ lost' = lost /\ faults' = faults /\ gap' = gap
    BY DEF Claim, Release
  <2> QED
    BY <2>1, <2>2, <2>3 DEF PoolAccounted
<1> QED
  BY <1>4, <1>5, <1>6, <1>7 DEF ScheduleInv, TypeOK, BatchWhileRunning, Pcs

\* An answer to a send ends the processing of one mail.
LEMMA OutcomeKeeps ==
    ASSUME ScheduleInv, NEW s \in Slots, Outcome(s), NEW mail \in Mail,
           rows' = [rows EXCEPT ![s] = mail],
           mail.status # "processing", Distance(mail)
    PROVE  ScheduleInv'
<1>1. rows \in [Slots -> Mail] /\ s \in batch /\ batch' = batch \ {s}
  BY DEF ScheduleInv, TypeOK, Outcome, Sent, Failed
<1>2. UNCHANGED <<pc, out, lost, faults, gap>>
  BY DEF Outcome, Sent, Failed
<1>3. rows' \in [Slots -> Mail] /\ rows'[s] = mail /\ \A r \in Slots \ {s} : rows'[r] = rows[r]
  BY <1>1
<1>4. batch' = {r \in Slots : rows'[r].status = "processing"}
  BY <1>1, <1>3 DEF ScheduleInv, TypeOK
<1>5. \A r \in Slots : Distance(rows'[r])
  BY <1>3 DEF ScheduleInv
<1> QED
  BY <1>1, <1>2, <1>3, <1>4, <1>5
     DEF ScheduleInv, TypeOK, PoolAccounted, BatchWhileRunning

LEMMA SentKeeps ==
    ASSUME ScheduleInv, NEW s \in Slots, Sent(s)
    PROVE  ScheduleInv'
<1>1. MaxAttempts \in Nat /\ MaxAge \in Nat
  BY SizesAssumption
<1>2. Empty \in Mail /\ Empty.status = "none"
  BY <1>1 DEF Empty, Mail
<1>3. Distance(Empty)
  BY <1>2 DEF Distance
<1> QED
  BY <1>2, <1>3, OutcomeKeeps DEF Sent, Outcome

LEMMA FailedKeeps ==
    ASSUME ScheduleInv, NEW s \in Slots, Failed(s)
    PROVE  ScheduleInv'
<1> DEFINE m == rows[s]
           k == m.attempts + 1
           new == [status |-> IF ShouldRetry(k) THEN "pending" ELSE "failed",
                   rank |-> m.rank, attempts |-> k,
                   due |-> IF ShouldRetry(k) THEN Backoff(k) ELSE 0,
                   age |-> m.age]
<1>1. /\ m \in Mail /\ m.attempts \in 0..MaxAttempts /\ m.age \in 0..MaxAge
      /\ Left(m) \in Nat /\ Distance(m) /\ m.status = "processing"
  BY MailFields DEF ScheduleInv, TypeOK, Failed
<1>2. MaxAttempts \in Nat \ {0} /\ MaxAge \in Nat /\ BaseDelay \in Nat \ {0}
  BY SizesAssumption
<1>3. Left(m) = 0 /\ m.attempts < MaxAttempts /\ 2 * m.age >= Spread(m.attempts)
  BY <1>1 DEF Left, Distance
<1>4. Backoff(k) \in Nat
  BY <1>1, <1>2 DEF Backoff
<1>5. k \in 0..MaxAttempts
  BY <1>1, <1>2, <1>3
<1>6. /\ new \in Mail /\ new.attempts = k /\ new.age = m.age
      /\ new.status = IF ShouldRetry(k) THEN "pending" ELSE "failed"
      /\ new.due = IF ShouldRetry(k) THEN Backoff(k) ELSE 0
  BY <1>1, <1>4, <1>5, MailFields DEF Mail, ScheduleInv
<1>7. CASE ShouldRetry(k)
  <2>1. new.status = "pending" /\ Left(new) = Backoff(k)
    BY <1>4, <1>6, <1>7 DEF Left
  <2>2. k < MaxAttempts /\ Spread(k) = Spread(m.attempts) + 2 * Backoff(k)
    BY <1>1, <1>7, SpreadStep DEF ShouldRetry
  <2>3. Spread(m.attempts) \in Nat
    BY <1>1, SpreadStep
  <2>4. 2 * (m.age + Backoff(k)) >= Spread(k)
    BY <1>1, <1>3, <1>4, <2>2, <2>3
  <2>5. Distance(new)
    BY <1>6, <2>1, <2>2, <2>4 DEF Distance
  <2> QED
    BY <1>6, <2>1, <2>5, OutcomeKeeps DEF Failed, Outcome
<1>8. CASE ~ShouldRetry(k)
  <2>1. new.status = "failed" /\ k = MaxAttempts
    BY <1>5, <1>6, <1>8, <1>2 DEF ShouldRetry
  <2>2. m.attempts = MaxAttempts - 1
    BY <1>1, <1>2, <2>1
  <2>3. Distance(new)
    BY <1>3, <1>6, <2>1, <2>2 DEF Distance
  <2> QED
    BY <1>6, <2>1, <2>3, OutcomeKeeps DEF Failed, Outcome
<1> QED
  BY <1>7, <1>8

LEMMA ScheduleInvariant == Spec => []ScheduleInv
<1>1. ScheduleInv /\ [Next]_vars => ScheduleInv'
  <2> SUFFICES ASSUME ScheduleInv, [Next]_vars PROVE ScheduleInv'
    OBVIOUS
  <2>1. CASE Elapse
    BY <2>1, ElapseKeeps
  <2>2. CASE TickStep \/ TickFault
    BY <2>2, TickKeeps, ClaimKeeps DEF TickStep, TickFault
  <2>3. CASE \E s \in Slots : Arrive(s) \/ Outcome(s)
    BY <2>3, ArriveKeeps, SentKeeps, FailedKeeps DEF Outcome
  <2>4. CASE UNCHANGED vars
    BY <2>4 DEF vars, ScheduleInv, TypeOK, PoolAccounted, BatchWhileRunning
  <2> QED
    BY <2>1, <2>2, <2>3, <2>4 DEF Next
<1> QED
  BY <1>1, InitHolds, PTL DEF Spec

\* Every reachable state is well typed, whatever the sizes and faults.
THEOREM ScheduleTyped == Spec => []TypeOK
<1>1. ScheduleInv => TypeOK
  BY DEF ScheduleInv
<1> QED
  BY <1>1, ScheduleInvariant, PTL

\* claimPending gives its connection back on every path behind START TRANSACTION.
THEOREM PoolStaysAccounted == Spec => []PoolAccounted
<1>1. ScheduleInv => PoolAccounted
  BY DEF ScheduleInv
<1> QED
  BY <1>1, ScheduleInvariant, PTL

\* The linear backoff adds up: nobody is given up early, for any base delay and
\* any number of attempts, however ticks, sends and the passing of time interleave.
THEOREM RetriesAreSpread == Spec => []GivenUpSlowly
<1>1. ScheduleInv => GivenUpSlowly
  <2> SUFFICES ASSUME ScheduleInv, NEW s \in Slots, rows[s].status = "failed"
               PROVE  2 * rows[s].age >= BaseDelay * MaxAttempts * (MaxAttempts - 1)
    BY DEF GivenUpSlowly
  <2>1. 2 * rows[s].age >= Spread(MaxAttempts - 1)
    BY DEF ScheduleInv, Distance
  <2>2. BaseDelay \in Nat /\ MaxAttempts \in Nat
    BY SizesAssumption
  <2>3. Spread(MaxAttempts - 1) = BaseDelay * MaxAttempts * (MaxAttempts - 1)
    BY <2>2 DEF Spread
  <2> QED
    BY <2>1, <2>3
<1> QED
  BY <1>1, ScheduleInvariant, PTL
=============================================================================
