------------------------------- MODULE RunRow -------------------------------
(***************************************************************************)
(* The durable row of one workflow run and what each service of            *)
(* app/infrastructure/queue/repository.py writes to it.  Every operator    *)
(* here maps the row a database session has loaded to the row it wants;    *)
(* Flush then says which columns of that wish reach PostgreSQL.            *)
(*                                                                         *)
(* Timestamps are kept only as far as a condition of the code reads them:  *)
(*   heartbeat_at      none / fresh / expired (older than the stale limit) *)
(*   next_attempt_at   next_attempt_due: null or already reached           *)
(*   dead_lettered_at  dead_lettered: set or not                           *)
(* Logs, progress, node statuses, metrics and error texts are left out.    *)
(***************************************************************************)
EXTENDS Integers

CONSTANTS
  Workers,      \* worker ids (WORKER_ID, or host-pid-uuid)
  None,         \* a NULL column
  MaxAttempts,  \* max_attempts of every run
  MaxClaims     \* bound of the model on the attempt numbers of one run

ASSUME NoneAssumption == None \notin Workers
ASSUME BoundAssumption == /\ MaxAttempts \in Nat \ {0}
                          /\ MaxClaims \in Nat

TerminalStatuses == {"succeeded", "failed", "cancelled", "timed_out", "dead_letter"}
ActiveStatuses   == {"queued", "claimed", "running", "retry_wait", "cancel_requested"}

AttemptNo == 1..MaxClaims

\* "absent": no row with this id has been committed yet.
Row == [status           : TerminalStatuses \cup ActiveStatuses \cup {"absent"},
        cancel_requested : BOOLEAN,
        locked_by        : Workers \cup {None},
        attempts         : 0..MaxClaims,
        heartbeat        : {"none", "fresh", "expired"},
        next_attempt_due : BOOLEAN,
        dead_lettered    : BOOLEAN]

AbsentRow == [status |-> "absent", cancel_requested |-> FALSE, locked_by |-> None,
              attempts |-> 0, heartbeat |-> "none", next_attempt_due |-> TRUE,
              dead_lettered |-> FALSE]

\* The row create_run inserts.
NewRow == [AbsentRow EXCEPT !.status = "queued"]

Unlocked(row) == [row EXCEPT !.locked_by = None, !.heartbeat = "none"]

\* Mutant: a failed run counts as one that waits for its retry.
ClaimableAlsoFailed(row) == /\ row.status \in {"queued", "failed"}
                            /\ ~row.cancel_requested
                            /\ row.next_attempt_due

\* claim_next_run: which rows its query selects, and what it writes.
Claimable(row) == /\ row.status = "queued"
                  /\ ~row.cancel_requested
                  /\ row.next_attempt_due

\* Mutant: the counter of the run is not written.
ClaimedUncounted(row, w, number) ==
  [row EXCEPT !.status = "running", !.locked_by = w, !.heartbeat = "fresh"]

Claimed(row, w, number) ==
  [row EXCEPT !.status = "running", !.attempts = number,
              !.locked_by = w, !.heartbeat = "fresh"]

\* request_cancel: a queued run is cancelled at once, an executing one is
\* only flagged for its worker.
CancelRequested(row) ==
  IF row.status \in TerminalStatuses THEN row
  ELSE IF row.status = "queued"
       THEN [Unlocked(row) EXCEPT !.cancel_requested = TRUE, !.status = "cancelled"]
       ELSE [row EXCEPT !.cancel_requested = TRUE]

\* Mutant: reset_attempts=True, as manual retries once did.
QueuedForRetryReset(row) ==
  [Unlocked(row) EXCEPT !.status = "queued", !.cancel_requested = FALSE, !.attempts = 0,
                        !.next_attempt_due = TRUE, !.dead_lettered = FALSE]

\* queue_retry as retry_run calls it: reset_attempts stays False.
QueuedForRetry(row) ==
  [Unlocked(row) EXCEPT !.status = "queued", !.cancel_requested = FALSE,
                        !.next_attempt_due = TRUE, !.dead_lettered = FALSE]

\* fail_or_requeue.
Retriable(status, retryable) == retryable /\ status \in {"failed", "timed_out"}

\* Mutant: <= for <.
CanRetryOnceMore(row, status, retryable) ==
  Retriable(status, retryable) /\ ~row.cancel_requested /\ row.attempts <= MaxAttempts

CanRetry(row, status, retryable) ==
  /\ Retriable(status, retryable)
  /\ ~row.cancel_requested
  /\ row.attempts < MaxAttempts

FailedOrRequeued(row, status, retryable) ==
  IF CanRetry(row, status, retryable)
  THEN [Unlocked(row) EXCEPT !.status = "queued", !.next_attempt_due = FALSE]
  ELSE [Unlocked(row) EXCEPT
          !.status = IF row.cancel_requested THEN "cancelled" ELSE status,
          !.dead_lettered = @ \/ (Retriable(status, retryable) /\ row.attempts >= MaxAttempts)]

\* Mutant: the audit row never says that the attempt will be retried.
AttemptOutcomeFinal(row, status, retryable) == status

\* The status fail_or_requeue gives the audit row of the attempt.
AttemptOutcome(row, status, retryable) ==
  IF CanRetry(row, status, retryable) THEN "retry_wait" ELSE status

\* The last part of finalize_active: the row for each final status.
Finalized(row, status, retryable) ==
  CASE status = "succeeded" -> [Unlocked(row) EXCEPT !.status = "succeeded"]
    [] status = "cancelled" ->
         FailedOrRequeued([row EXCEPT !.cancel_requested = TRUE], "cancelled", FALSE)
    [] OTHER -> FailedOrRequeued(row, status, retryable)

\* Mutants: the status filter, or the age filter, is missing; only rows without
\* any heartbeat are stale.
StaleInAnyStatus(row)  == row.status # "absent" /\ row.heartbeat # "fresh"
StaleWhileBeating(row) == row.status = "running"
StaleIfNeverBeat(row)  == row.status = "running" /\ row.heartbeat = "none"

\* The stale query of recover_stale_runs.
Stale(row) == row.status = "running" /\ row.heartbeat # "fresh"

(***************************************************************************)
(* The unit of work of a session (autoflush off, no version column): only  *)
(* the columns whose value differs from the one loaded are written, over   *)
(* whatever the row holds by then.  next_attempt_at is a fresh timestamp   *)
(* in both handlers that queue a run, so those always write it.            *)
(***************************************************************************)
Written(current, loaded, wanted) == IF wanted # loaded THEN wanted ELSE current

Flush(row, read, new) ==
  [status           |-> Written(row.status, read.status, new.status),
   cancel_requested |-> Written(row.cancel_requested, read.cancel_requested,
                                new.cancel_requested),
   locked_by        |-> Written(row.locked_by, read.locked_by, new.locked_by),
   attempts         |-> Written(row.attempts, read.attempts, new.attempts),
   heartbeat        |-> Written(row.heartbeat, read.heartbeat, new.heartbeat),
   next_attempt_due |-> IF new.status = "queued" THEN new.next_attempt_due
                        ELSE row.next_attempt_due,
   dead_lettered    |-> Written(row.dead_lettered, read.dead_lettered,
                                new.dead_lettered)]
=============================================================================
