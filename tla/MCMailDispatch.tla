--------------------------- MODULE MCMailDispatch ---------------------------
(***************************************************************************)
(* Instances of MailDispatch for TLC.  The cfg files give the numbers of   *)
(* hosts, lanes, mails and operators and the bounds of the faults.         *)
(***************************************************************************)
EXTENDS MailDispatch, TLC

OnePriority == {"normal"}
TwoPriorities == {"high", "low"}

\* Hosts, lanes, mails and operators only compare for equality.
WorkerSymmetry ==
    Permutations(Nodes) \cup Permutations(Lanes) \cup Permutations(Mails)
        \cup Permutations(Operators)
=============================================================================
