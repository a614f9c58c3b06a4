--------------------------- MODULE MailSuppression ---------------------------
(***************************************************************************)
(* MailSuppressionService: the table mail_suppressions, with its unique    *)
(* index on email, and the calls that add an address to it or take it off. *)
(* Each call reads, awaits, and then saves what it read with active        *)
(* changed, so calls for one address interleave.  The reason and the       *)
(* source of an entry are left out.                                        *)
(***************************************************************************)
CONSTANTS Addresses,   \* e-mail addresses as callers spell them
          Lower,       \* toLowerCase on them
          Admins,      \* calls of the suppression routes, one each
          CallChoices  \* their operations and addresses

ASSUME LowerAssumption ==
    /\ Lower \in [Addresses -> Addresses]
    /\ \A a \in Addresses : Lower[Lower[a]] = Lower[a]
ASSUME CallsAssumption ==
    CallChoices \subseteq [op : {"suppress", "unsuppress"}, address : Addresses]

VARIABLES entries,   \* per stored address: no row, active or inactive
          calls,     \* per call: its operation, address and progress
          removed    \* history: addresses some unsuppress call has saved

suppressionVars == <<entries, calls, removed>>

Call == [op : {"suppress", "unsuppress"}, address : Addresses,
         pc : {"idle", "insert", "update", "done", "duplicate"}]

SuppressionInit ==
    /\ entries = [a \in Addresses |-> "none"]
    /\ \E choice \in [Admins -> CallChoices] :
          calls = [c \in Admins |-> [op |-> choice[c].op, pc |-> "idle",
                                     address |-> choice[c].address]]
    /\ removed = {}

Step(c, pc) == calls' = [calls EXCEPT ![c].pc = pc]

\* Operators whose names end in Mutant are wrong on purpose: put in the place
\* of the operator that follows, each makes a run report a violation.

\* The address is stored as spelled.
TargetAsSpelledMutant(c) == calls[c].address

Target(c) == Lower[calls[c].address]

\* getOne: an unsuppress that finds no entry answers {updated: false}.
FindEntry(c) ==
    /\ calls[c].pc = "idle"
    /\ Step(c, CASE entries[Target(c)] # "none" -> "update"
                 [] calls[c].op = "suppress" -> "insert"
                 [] OTHER -> "done")
    /\ UNCHANGED <<entries, removed>>

\* active is left unset.
InsertEntryMutant(c) ==
    /\ calls[c].pc = "insert"
    /\ IF entries[Target(c)] = "none"
       THEN Step(c, "done") /\ entries' = [entries EXCEPT ![Target(c)] = "unset"]
       ELSE Step(c, "duplicate") /\ UNCHANGED entries
    /\ UNCHANGED removed

\* save of a created entity: the unique index refuses a second row.
InsertEntry(c) ==
    /\ calls[c].pc = "insert"
    /\ IF entries[Target(c)] = "none"
       THEN Step(c, "done") /\ entries' = [entries EXCEPT ![Target(c)] = "active"]
       ELSE Step(c, "duplicate") /\ UNCHANGED entries
    /\ UNCHANGED removed

\* save of the entity that was read.
SaveFound(c) ==
    /\ calls[c].pc = "update"
    /\ Step(c, "done")
    /\ IF calls[c].op = "suppress"
       THEN /\ entries' = [entries EXCEPT ![Target(c)] = "active"]
            /\ UNCHANGED removed
       ELSE /\ entries' = [entries EXCEPT ![Target(c)] = "inactive"]
            /\ removed' = removed \cup {Target(c)}

SuppressionNext == \E c \in Admins : FindEntry(c) \/ InsertEntry(c) \/ SaveFound(c)

SuppressionSpec == SuppressionInit /\ [][SuppressionNext]_suppressionVars

\* No LOWER() in the query.
BlockedAsSpelledMutant(recipients) == {a \in recipients : entries[a] = "active"}

\* ensureRecipientsAreAllowed: the addresses the list blocks at this moment.
Blocked(recipients) == {a \in recipients : entries[Lower[a]] = "active"}

-----------------------------------------------------------------------------
SuppressionTypeOK ==
    /\ entries \in [Addresses -> {"none", "active", "inactive"}]
    /\ calls \in [Admins -> Call]
    /\ removed \subseteq Addresses

\* Once a call to suppress an address has been answered, with an entry or with
\* a duplicate-key error, every spelling of the address is blocked unless some
\* call has taken it off the list.
SuppressedUnlessRemoved == \A c \in Admins :
    /\ calls[c].op = "suppress" /\ calls[c].pc \in {"done", "duplicate"}
    => \A a \in Addresses :
          Lower[a] = Lower[calls[c].address] =>
             a \in Blocked({a}) \/ Lower[a] \in removed
=============================================================================
