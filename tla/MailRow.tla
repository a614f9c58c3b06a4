------------------------------ MODULE MailRow ------------------------------
(***************************************************************************)
(* One row of the table mail_audit_logs, and what each UPDATE of the mail  *)
(* module writes to it.  The columns kept are those some guard reads or    *)
(* some property relates; addresses, bodies, headers and timestamps' exact *)
(* values are left out.  A timestamp column is a BOOLEAN (set or null),    *)
(* except nextAttemptAt, which is null, in the future or already due.      *)
(***************************************************************************)
EXTENDS Naturals

CONSTANTS Nodes,        \* hosts that run the queue worker
          NoNode,       \* processingNode IS NULL
          Priorities    \* the priorities in use, of "high", "normal", "low"

ASSUME PrioritiesAssumption == Priorities \subseteq {"high", "normal", "low"}
ASSUME NoNodeAssumption == NoNode \notin Nodes

\* "absent": the row has not been inserted yet.
Statuses == {"absent", "pending", "processing", "sent", "failed"}
DueTimes == {"null", "future", "due"}
DeliveryEvents ==
    {"delivered", "bounced", "complained", "failed", "opened", "clicked"}

Row == [status         : Statuses,
        priority       : Priorities,
        attempts       : Nat,
        maxAttempts    : Nat,
        nextAttemptAt  : DueTimes,
        lockedAt       : BOOLEAN,
        processingNode : Nodes \cup {NoNode},
        sentAt         : BOOLEAN,
        failedAt       : BOOLEAN,
        lastError      : BOOLEAN]

\* Operators whose names end in Mutant are wrong on purpose: put in the place
\* of the operator that follows, each makes a run report a violation.

\* No default for a missing scheduledAt.
NewRowMutant(priority, max, at) ==
    [status |-> "pending", priority |-> priority, attempts |-> 0,
     maxAttempts |-> max, nextAttemptAt |-> IF at = "due" THEN "undefined" ELSE at,
     lockedAt |-> FALSE, processingNode |-> NoNode, sentAt |-> FALSE,
     failedAt |-> FALSE, lastError |-> FALSE]

\* createAuditLog: status, attempts, maxAttempts and the first due time; the
\* other columns are null.
NewRow(priority, max, at) ==
    [status |-> "pending", priority |-> priority, attempts |-> 0,
     maxAttempts |-> max, nextAttemptAt |-> at, lockedAt |-> FALSE,
     processingNode |-> NoNode, sentAt |-> FALSE, failedAt |-> FALSE,
     lastError |-> FALSE]

AbsentRow(priority) ==
    [NewRow(priority, 0, "null") EXCEPT !.status = "absent"]

\* The ORDER BY CASE of the claim query.
PriorityRank(priority) ==
    CASE priority = "high" -> 0
      [] priority = "normal" -> 1
      [] OTHER -> 2

\* Claimed rows are claimed again; due rows are not claimed.
ClaimedAgainMutant(row) ==
    row.status \in {"pending", "processing"} /\ row.nextAttemptAt \in {"null", "due"}
OnlyNullDueMutant(row) == row.status = "pending" /\ row.nextAttemptAt = "null"

\* The WHERE clause of the claim query.
IsCandidate(row) ==
    /\ row.status = "pending"
    /\ row.nextAttemptAt \in {"null", "due"}

ClaimWrite(row, node) ==
    [row EXCEPT !.status = "processing",
                !.lockedAt = TRUE,
                !.processingNode = node]

\* markAsSent: readAttempts is what its first findOneOrFail returned.
SentWrite(row, readAttempts, node) ==
    [row EXCEPT !.status = "sent",
                !.attempts = readAttempts + 1,
                !.sentAt = TRUE,
                !.lastError = FALSE,
                !.lockedAt = FALSE,
                !.processingNode = node]

\* One attempt too many; one too few.
RetryOnceMoreMutant(attempts, maxAttempts) == attempts < maxAttempts
RetryOnceLessMutant(attempts, maxAttempts) == attempts + 2 < maxAttempts

\* markAsFailure decides on the entity the claim returned, not on the row.
ShouldRetry(attempts, maxAttempts) == attempts + 1 < maxAttempts

\* A retry keeps the row's status.
FailureKeepsStatusMutant(row, attempts, maxAttempts, node) ==
    [row EXCEPT !.status = IF ShouldRetry(attempts, maxAttempts) THEN @ ELSE "failed",
                !.attempts = attempts + 1, !.nextAttemptAt = "future",
                !.failedAt = TRUE, !.lastError = TRUE,
                !.lockedAt = FALSE, !.processingNode = node]

FailureWrite(row, attempts, maxAttempts, node) ==
    LET retry == ShouldRetry(attempts, maxAttempts)
    IN  [row EXCEPT !.status = IF retry THEN "pending" ELSE "failed",
                    !.attempts = attempts + 1,
                    !.nextAttemptAt = IF retry THEN "future" ELSE "null",
                    !.failedAt = ~retry,
                    !.lastError = TRUE,
                    !.lockedAt = FALSE,
                    !.processingNode = node]

\* The claim columns are not reset.
RequeueKeepsClaimMutant(row, readAttempts) ==
    [row EXCEPT !.status = "pending", !.maxAttempts = readAttempts + 1,
                !.nextAttemptAt = "due", !.lastError = FALSE]

\* requeue: readAttempts is what its check read; failedAt is left as it was.
RequeueWrite(row, readAttempts) ==
    [row EXCEPT !.status = "pending",
                !.maxAttempts = readAttempts + 1,
                !.nextAttemptAt = "due",
                !.lockedAt = FALSE,
                !.processingNode = NoNode,
                !.lastError = FALSE]

\* processDeliveryEvent: neither the attempts nor the claim columns change.
DeliveryWrite(row, event) ==
    CASE event = "delivered" ->
            [row EXCEPT !.status = "sent", !.sentAt = TRUE,
                        !.failedAt = FALSE, !.lastError = FALSE]
      [] event \in {"bounced", "complained", "failed"} ->
            [row EXCEPT !.status = "failed", !.failedAt = TRUE,
                        !.lastError = TRUE]
      [] OTHER -> row
=============================================================================
