---------------------------- MODULE MCMailSchedule ----------------------------
(***************************************************************************)
(* The instance of MailSchedule for TLC.                                   *)
(***************************************************************************)
EXTENDS MailSchedule

\* What DueIsTried asks of the load and of the faults.
ASSUME LoadAssumption == MaxAttempts < ArrivalGap * BatchSize /\ MaxFaults < PoolSize
=============================================================================
