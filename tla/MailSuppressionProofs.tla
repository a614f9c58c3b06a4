------------------------ MODULE MailSuppressionProofs ------------------------
(***************************************************************************)
(* Proofs about MailSuppression, for any addresses and any number of calls.*)
(***************************************************************************)
EXTENDS MailSuppression, TLAPS

\* Rows are never deleted, a call that found a row still finds one when it
\* saves, and only an unsuppress call leaves a row inactive.
SuppressionInv ==
    /\ SuppressionTypeOK
    /\ \A a \in Addresses : entries[a] = "inactive" => a \in removed
    /\ \A c \in Admins :
          \/ calls[c].pc = "update"
          \/ calls[c].op = "suppress" /\ calls[c].pc \in {"done", "duplicate"}
          => entries[Target(c)] # "none"

LEMMA TargetTyped ==
    ASSUME SuppressionTypeOK, NEW c \in Admins
    PROVE  Target(c) \in Addresses
  BY LowerAssumption DEF SuppressionTypeOK, Target, Call

\* What a step does to a call: it moves on and keeps its operation and address.
LEMMA StepTyped ==
    ASSUME SuppressionTypeOK, NEW c \in Admins,
           NEW pc \in {"idle", "insert", "update", "done", "duplicate"}, Step(c, pc)
    PROVE  /\ calls' \in [Admins -> Call]
           /\ calls'[c].pc = pc
           /\ \A d \in Admins : /\ calls'[d].op = calls[d].op
                                /\ calls'[d].address = calls[d].address
                                /\ d # c => calls'[d].pc = calls[d].pc
           /\ \A d \in Admins : Target(d)' = Target(d)
<1>1. calls[c] \in Call /\ calls \in [Admins -> Call]
  BY DEF SuppressionTypeOK
<1>2. [calls[c] EXCEPT !.pc = pc] \in Call
  BY <1>1 DEF Call
<1>3. calls' = [calls EXCEPT ![c] = [calls[c] EXCEPT !.pc = pc]]
  BY DEF Step
<1>4. calls' \in [Admins -> Call] /\ calls'[c].pc = pc
  BY <1>1, <1>2, <1>3 DEF Call
<1>5. \A d \in Admins : /\ calls'[d].op = calls[d].op
                        /\ calls'[d].address = calls[d].address
                        /\ d # c => calls'[d].pc = calls[d].pc
  BY <1>1, <1>3 DEF Call
<1> QED
  BY <1>4, <1>5 DEF Target

LEMMA SuppressionInvariant == SuppressionSpec => []SuppressionInv
<1>1. SuppressionInit => SuppressionInv
  <2> SUFFICES ASSUME SuppressionInit PROVE SuppressionInv
    OBVIOUS
  <2>1. PICK choice \in [Admins -> CallChoices] :
           calls = [c \in Admins |-> [op |-> choice[c].op, pc |-> "idle",
                                      address |-> choice[c].address]]
    BY DEF SuppressionInit
  <2>2. \A c \in Admins : calls[c] \in Call /\ calls[c].pc = "idle"
    BY <2>1, CallsAssumption DEF Call
  <2>3. calls \in [Admins -> Call]
    BY <2>1, <2>2
  <2> QED
    BY <2>2, <2>3 DEF SuppressionInit, SuppressionInv, SuppressionTypeOK
<1>2. SuppressionInv /\ [SuppressionNext]_suppressionVars => SuppressionInv'
  <2> SUFFICES ASSUME SuppressionInv, [SuppressionNext]_suppressionVars
               PROVE  SuppressionInv'
    OBVIOUS
  <2>1. ASSUME NEW c \in Admins, FindEntry(c) PROVE SuppressionInv'
    <3>1. PICK pc \in {"insert", "update", "done"} :
             /\ Step(c, pc)
             /\ pc = "update" => entries[Target(c)] # "none"
             /\ pc = "done" => calls[c].op # "suppress"
      BY <2>1 DEF FindEntry
    <3>2. entries' = entries /\ removed' = removed
      BY <2>1 DEF FindEntry
    <3> QED
      BY <3>1, <3>2, StepTyped DEF SuppressionInv, SuppressionTypeOK
  <2>2. ASSUME NEW c \in Admins, InsertEntry(c) PROVE SuppressionInv'
    <3>1. Target(c) \in Addresses
      BY TargetTyped DEF SuppressionInv
    <3>2. CASE entries[Target(c)] = "none"
      <4>1. Step(c, "done") /\ entries' = [entries EXCEPT ![Target(c)] = "active"]
                            /\ removed' = removed
        BY <2>2, <3>2 DEF InsertEntry
      <4> QED
        BY <3>1, <4>1, StepTyped DEF SuppressionInv, SuppressionTypeOK
    <3>3. CASE entries[Target(c)] # "none"
      <4>1. Step(c, "duplicate") /\ entries' = entries /\ removed' = removed
        BY <2>2, <3>3 DEF InsertEntry
      <4> QED
        BY <3>3, <4>1, StepTyped DEF SuppressionInv, SuppressionTypeOK
    <3> QED
      BY <3>2, <3>3
  <2>3. ASSUME NEW c \in Admins, SaveFound(c) PROVE SuppressionInv'
    <3>1. Target(c) \in Addresses /\ Step(c, "done")
      BY <2>3, TargetTyped DEF SuppressionInv, SaveFound
    <3>2. CASE calls[c].op = "suppress"
      <4>1. entries' = [entries EXCEPT ![Target(c)] = "active"] /\ removed' = removed
        BY <2>3, <3>2 DEF SaveFound
      <4> QED
        BY <3>1, <4>1, StepTyped DEF SuppressionInv, SuppressionTypeOK
    <3>3. CASE calls[c].op # "suppress"
      <4>1. /\ entries' = [entries EXCEPT ![Target(c)] = "inactive"]
            /\ removed' = removed \cup {Target(c)}
        BY <2>3, <3>3 DEF SaveFound
      <4>2. \A d \in Admins : /\ Target(d)' = Target(d)
                              /\ calls'[d].op = calls[d].op
                              /\ d # c => calls'[d].pc = calls[d].pc
                              /\ d = c => calls'[d].pc = "done"
        BY <3>1, StepTyped DEF SuppressionInv
      <4>3. SuppressionTypeOK'
        BY <3>1, <4>1, StepTyped DEF SuppressionInv, SuppressionTypeOK
      <4>4. \A a \in Addresses : entries'[a] = "inactive" => a \in removed'
        BY <3>1, <4>1 DEF SuppressionInv, SuppressionTypeOK
      <4>5. \A a \in Addresses : entries[a] # "none" => entries'[a] # "none"
        BY <3>1, <4>1 DEF SuppressionInv, SuppressionTypeOK
      <4>6. \A d \in Admins : Target(d) \in Addresses
        BY TargetTyped DEF SuppressionInv
      <4> QED
        BY <3>3, <4>2, <4>3, <4>4, <4>5, <4>6 DEF SuppressionInv
    <3> QED
      BY <3>2, <3>3
  <2>4. CASE UNCHANGED suppressionVars
    BY <2>4 DEF suppressionVars, SuppressionInv, SuppressionTypeOK, Target
  <2> QED
    BY <2>1, <2>2, <2>3, <2>4 DEF SuppressionNext
<1> QED
  BY <1>1, <1>2, PTL DEF SuppressionSpec

\* The rows of the suppression list and the calls that write them keep their
\* types, in any interleaving of the calls.
THEOREM SuppressionTyped == SuppressionSpec => []SuppressionTypeOK
<1>1. SuppressionInv => SuppressionTypeOK
  BY DEF SuppressionInv
<1> QED
  BY <1>1, SuppressionInvariant, PTL

\* A call to suppress an address that has been answered, even with a
\* duplicate-key error, leaves every spelling of it blocked until some call
\* takes the address off the list.
THEOREM SuppressionHolds == SuppressionSpec => []SuppressedUnlessRemoved
<1>1. SuppressionInv => SuppressedUnlessRemoved
  <2> SUFFICES ASSUME SuppressionInv, NEW c \in Admins, NEW a \in Addresses,
                      calls[c].op = "suppress", calls[c].pc \in {"done", "duplicate"},
                      Lower[a] = Target(c)
               PROVE  a \in Blocked({a}) \/ Lower[a] \in removed
    BY DEF SuppressedUnlessRemoved, Target
  <2>1. Target(c) \in Addresses /\ entries[Target(c)] # "none"
    BY TargetTyped DEF SuppressionInv
  <2>2. entries[Target(c)] \in {"active", "inactive"}
    BY <2>1 DEF SuppressionInv, SuppressionTypeOK
  <2> QED
    BY <2>1, <2>2 DEF SuppressionInv, Blocked
<1> QED
  BY <1>1, SuppressionInvariant, PTL
=============================================================================
