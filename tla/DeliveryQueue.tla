---------------------------- MODULE DeliveryQueue ----------------------------
(***************************************************************************)
(* One row of a fenced delivery queue.  The same protocol is written twice *)
(* in the code: kernel_result_outbox (Kernel to SDK, _sqlite_outbox.py)    *)
(* and sdk_results (SDK to application, orchestrator/results.py).          *)
(*                                                                         *)
(* A row is claimed for a while; the claim gets a fresh lease id and the   *)
(* next fence.  The fence stands for the lease id here, 0 for NULL: expiry *)
(* and release keep both, only a manual retry clears the id.  ttl is the   *)
(* time left of the lease, wait the time until next_attempt_at.            *)
(***************************************************************************)
EXTENDS Integers

CONSTANTS
    MaxAttempts,  \* outbox_max_attempts, max_result_deliveries
    LeaseTicks,   \* lease_seconds
    Delays        \* what a release may ask to wait before the next attempt

ASSUME QueueAssumption == /\ MaxAttempts \in Nat \ {0} /\ LeaseTicks \in Nat \ {0}
                          /\ Delays \subseteq Nat

States == {"absent", "pending", "delivering", "delivered", "dead"}
Errors == {"none", "expired", "released"}

QueueRows == [state : States, lease : Nat, fence : Nat, attempts : 0 .. MaxAttempts,
              ttl : 0 .. LeaseTicks, wait : Nat, error : Errors, revision : Nat]

NoRow == [state |-> "absent", lease |-> 0, fence |-> 0, attempts |-> 0,
          ttl |-> 0, wait |-> 0, error |-> "none", revision |-> 0]

\* As inserted
FreshRow == [NoRow EXCEPT !.state = "pending", !.revision = 1]

\* An expired delivery is pending again, or dead once its attempts are used up.
SweptRow(row) ==
    IF row.state = "delivering" /\ row.ttl = 0
    THEN [row EXCEPT !.state = IF row.attempts >= MaxAttempts THEN "dead" ELSE "pending",
                     !.wait = 0, !.error = "expired", !.revision = @ + 1]
    ELSE row

\* The kernel's claim also retires pending rows without attempts left.
RetiredRow(row) ==
    IF row.state = "pending" /\ row.attempts >= MaxAttempts
    THEN [row EXCEPT !.state = "dead", !.revision = @ + 1]
    ELSE row

Claimable(row) == row.state = "pending" /\ row.attempts < MaxAttempts /\ row.wait = 0

ClaimedRow(row) ==
    [row EXCEPT !.state = "delivering", !.lease = row.fence + 1, !.fence = @ + 1,
                !.attempts = @ + 1, !.ttl = LeaseTicks, !.revision = @ + 1]

\* any earlier holder is accepted while the row is being delivered
Holds_Mutant(row, fence) == row.state = "delivering" /\ row.ttl > 0 /\ fence <= row.fence

\* The delivery that was claimed with `fence' is still in force.
Holds(row, fence) ==
    row.state = "delivering" /\ row.lease = fence /\ row.fence = fence /\ row.ttl > 0

AckedRow(row) == [row EXCEPT !.state = "delivered", !.ttl = 0, !.revision = @ + 1]

RenewedRow(row) == [row EXCEPT !.ttl = LeaseTicks, !.revision = @ + 1]

ReleasedRow(row, retryable, delay) ==
    [row EXCEPT !.state = IF retryable /\ row.attempts < MaxAttempts THEN "pending" ELSE "dead",
                !.ttl = 0, !.wait = delay, !.error = "released", !.revision = @ + 1]

\* retry_result_outbox: only a dead row, at the revision the operator read.
Reopens(row, expected) == row.state = "dead" /\ row.revision = expected

ReopenedRow(row) ==
    [row EXCEPT !.state = "pending", !.lease = 0, !.attempts = 0, !.ttl = 0, !.wait = 0,
                !.error = "none", !.revision = @ + 1]

Ages(row) == row.ttl > 0 \/ row.wait > 0
AgedRow(row) == [row EXCEPT !.ttl = IF @ > 0 THEN @ - 1 ELSE 0, !.wait = IF @ > 0 THEN @ - 1 ELSE 0]
=============================================================================
