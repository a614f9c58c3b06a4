----------------------------- MODULE MailLedger -----------------------------
(***************************************************************************)
(* What the queue promises about a mail while no operator requeues it: it  *)
(* is tried at most as often as the sender allowed, one try at a time, a   *)
(* try delivers at most one message, a try reports it sent only when a     *)
(* message was delivered, and it is given up only when no try is left; the *)
(* provider may say either at any time.  A try may be lost for good (its   *)
(* host died): then the mail stays where it is.  MailDispatch implements   *)
(* this specification.                                                     *)
(***************************************************************************)
EXTENDS Naturals

CONSTANTS Mails,    \* ids of mails
          Limits    \* the numbers of tries a sender may allow, positive

VARIABLES status,     \* "absent", or the status the ledger shows
          limit,      \* tries allowed
          tries,      \* tries begun
          open,       \* mails whose current try is still being worked on
          delivered   \* messages delivered

ledgerVars == <<status, limit, tries, open, delivered>>

LedgerInit ==
    /\ status = [m \in Mails |-> "absent"]
    /\ limit = [m \in Mails |-> 0]
    /\ tries = [m \in Mails |-> 0]
    /\ open = {}
    /\ delivered = [m \in Mails |-> 0]

Submit(m) ==
    /\ status[m] = "absent"
    /\ status' = [status EXCEPT ![m] = "pending"]
    /\ \E k \in Limits : limit' = [limit EXCEPT ![m] = k]
    /\ UNCHANGED <<tries, open, delivered>>

\* A try begins for every mail of S, or is lost as it begins.
Begin(S) ==
    /\ S # {}
    /\ \A m \in S : status[m] = "pending" /\ m \notin open /\ tries[m] < limit[m]
    /\ status' = [m \in Mails |-> IF m \in S THEN "processing" ELSE status[m]]
    /\ tries' = [m \in Mails |-> IF m \in S THEN tries[m] + 1 ELSE tries[m]]
    /\ open' \in {open, open \cup S}
    /\ UNCHANGED <<limit, delivered>>

Deliver(m) ==
    /\ m \in open
    /\ delivered[m] < tries[m]
    /\ delivered' = [delivered EXCEPT ![m] = @ + 1]
    /\ UNCHANGED <<status, limit, tries, open>>

\* The worker may still take its report back: the try stays open.
ReportSent(m) ==
    /\ m \in open
    /\ delivered[m] > 0
    /\ status' = [status EXCEPT ![m] = "sent"]
    /\ UNCHANGED <<limit, tries, open, delivered>>

ReportFailure(m) ==
    /\ m \in open
    /\ status' = [status EXCEPT ![m] =
          IF tries[m] < limit[m] THEN "pending" ELSE "failed"]
    /\ open' = open \ {m}
    /\ UNCHANGED <<limit, tries, delivered>>

\* Work on the tries of S stops without a report, or after ReportSent.
Drop(S) ==
    /\ S # {}
    /\ open' = open \ S
    /\ UNCHANGED <<status, limit, tries, delivered>>

\* What the provider says is believed, delivered or not.
Receipt(m) ==
    /\ status[m] # "absent"
    /\ \E s \in {"sent", "failed"} : status' = [status EXCEPT ![m] = s]
    /\ UNCHANGED <<limit, tries, open, delivered>>

LedgerNext ==
    \/ \E m \in Mails : \/ Submit(m) \/ Deliver(m) \/ ReportSent(m)
                        \/ ReportFailure(m) \/ Receipt(m)
    \/ \E S \in SUBSET Mails : Begin(S) \/ Drop(S)

LedgerSpec == LedgerInit /\ [][LedgerNext]_ledgerVars
=============================================================================
