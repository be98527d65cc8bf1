----------------------------- MODULE KernelClock -----------------------------
(***************************************************************************)
(* The logical clock of a Kernel store and the transaction around it       *)
(* (SQLiteBase._transaction): BEGIN IMMEDIATE, advance the watermark, open *)
(* a savepoint, run the operation, release it or roll back to it.  The     *)
(* wall clock may be set back at any time, operations may fail, the        *)
(* cleanup of a failure may fail, and the process may die.                 *)
(*                                                                         *)
(* This is why ExecutionKernel lets time only count down: CountsDown.      *)
(* sdk_result_clock follows the same protocol (_results_transaction).      *)
(***************************************************************************)
EXTENDS Integers

CONSTANTS
    Leases,    \* lease ids; each is granted once
    Duration,  \* lease_seconds
    MaxWall,   \* bound: the latest time the wall clock shows
    MaxMark    \* bound: watermark beyond which no lease is renewed

ASSUME ClockAssumption == Duration \in Nat \ {0} /\ MaxWall \in Nat /\ MaxMark \in Nat

VARIABLES
    wall,       \* what the host's clock shows
    watermark,  \* kernel_clock.watermark as committed
    expiry,     \* expires_at of each lease as committed, 0 before it is granted
    tx,         \* the write transaction in progress
    refused     \* history: leases some caller was told had expired

vars == <<wall, watermark, expiry, tx, refused>>

Wall == 0 .. MaxWall

Later(a, b) == IF a > b THEN a ELSE b

\* phase: "none", "open", "done" (the operation succeeded) or "failed".
\* time is the timestamp the operation got, mark the watermark as the
\* transaction has written it, expiry its leases, deadline the budget that
\* must not run out before the commit (0: none), stale the lease it refused.
NoTx == [phase |-> "none", time |-> 0, mark |-> 0, expiry |-> [l \in Leases |-> 0], deadline |-> 0, stale |-> {}]

Init ==
    /\ wall \in Wall
    /\ watermark = 0
    /\ expiry = [l \in Leases |-> 0]
    /\ tx = NoTx
    /\ refused = {}

\* The host's clock moves, forwards or back.
WallMoves ==
    /\ wall' \in Wall \ {wall}
    /\ UNCHANGED <<watermark, expiry, tx, refused>>

\* time is taken from the host alone ...
Observed_Mutant(mark) == wall

\* _advance_clock
Observed(mark) == Later(mark, wall)

Begin ==
    /\ tx.phase = "none"
    /\ tx' = [NoTx EXCEPT !.phase = "open", !.time = Observed(watermark),
                          !.mark = Observed(watermark), !.expiry = expiry]
    /\ UNCHANGED <<wall, watermark, expiry, refused>>

\* A claim; it may be admitted under a budget that is still running.
Grant(l, deadline) ==
    /\ tx.phase = "open"
    /\ tx.expiry[l] = 0
    /\ deadline = 0 \/ deadline > tx.time
    /\ tx' = [tx EXCEPT !.phase = "done", !.expiry[l] = tx.time + Duration, !.deadline = deadline]
    /\ UNCHANGED <<wall, watermark, expiry, refused>>

\* An operation under a lease (_assert_lease_row): it is refused at its expiry.
\* Renewal moves the expiry.
Use(l, renew) ==
    /\ tx.phase = "open"
    /\ tx.expiry[l] # 0
    /\ renew => watermark <= MaxMark
    /\ tx' = IF tx.expiry[l] <= tx.time
             THEN [tx EXCEPT !.phase = "failed", !.stale = {l}]
             ELSE [tx EXCEPT !.phase = "done", !.expiry[l] = IF renew THEN tx.time + Duration ELSE @]
    /\ UNCHANGED <<wall, watermark, expiry, refused>>

\* Any other reason to fail
Raise ==
    /\ tx.phase \in {"open", "done"}
    /\ tx' = [tx EXCEPT !.phase = "failed"]
    /\ UNCHANGED <<wall, watermark, expiry, refused>>

\* the budget is not looked at again
InTime_Mutant == TRUE

\* The budget an admission was granted under is compared with a fresh sample.
InTime == tx.deadline = 0 \/ tx.deadline > Observed(tx.mark)

Commit ==
    /\ tx.phase = "done"
    /\ IF InTime
       THEN /\ watermark' = IF tx.deadline = 0 THEN tx.mark ELSE Observed(tx.mark)
            /\ expiry' = tx.expiry
            /\ tx' = NoTx
       ELSE /\ tx' = [tx EXCEPT !.phase = "failed", !.mark = Observed(tx.mark)]
            /\ UNCHANGED <<watermark, expiry>>
    /\ UNCHANGED <<wall, refused>>

\* the rollback takes the watermark with it
Salvaged_Mutant == watermark

\* the watermark after ROLLBACK TO the savepoint
Salvaged == Later(watermark, tx.mark)

\* A failed operation is rolled back, its observation of the clock is kept, and
\* only then does the caller see the error.
Fail ==
    /\ tx.phase = "failed"
    /\ watermark' = Salvaged
    /\ refused' = refused \cup tx.stale
    /\ tx' = NoTx
    /\ UNCHANGED <<wall, expiry>>

\* The commit or the cleanup fails, or the process dies: nothing of the
\* transaction remains and the caller is not told that the lease had expired.
Lose ==
    /\ tx.phase # "none"
    /\ tx' = NoTx
    /\ UNCHANGED <<wall, watermark, expiry, refused>>

Next ==
    \/ WallMoves \/ Begin \/ Raise \/ Commit \/ Fail \/ Lose
    \/ \E l \in Leases, deadline \in Wall : Grant(l, deadline)
    \/ \E l \in Leases, renew \in BOOLEAN : Use(l, renew)

Spec == Init /\ [][Next]_vars

-----------------------------------------------------------------------------
(* Properties.                                                             *)

Transactions == [phase : {"none", "open", "done", "failed"}, time : Wall, mark : Wall,
                 expiry : [Leases -> Nat], deadline : Wall, stale : SUBSET Leases]

\* The shape of the store and of the transaction; the store's time is never one
\* that the host's clock cannot have shown.
TypeOK ==
    /\ wall \in Wall
    /\ watermark \in Wall
    /\ expiry \in [Leases -> Nat]
    /\ tx \in Transactions
    /\ refused \in SUBSET Leases

\* A lease that a caller was told had expired is expired for every later
\* operation too, although the host's clock went back in between.
NeverRevived == \A l \in refused : expiry[l] # 0 /\ expiry[l] <= watermark

\* What is left of a lease only shrinks, until a renewal of a lease that has
\* not run out: the countdown that ExecutionKernel works with.
CountsDown ==
    [][\A l \in Leases :
          expiry[l] # 0 =>
             IF expiry'[l] = expiry[l]
             THEN expiry'[l] - watermark' <= expiry[l] - watermark
             ELSE expiry[l] > watermark]_vars

\* A claim admitted under a budget is on record only if the budget had not run
\* out when it was committed, by the clock that is committed with it.
AdmittedInTime ==
    [][\A l \in Leases :
          expiry[l] = 0 /\ expiry'[l] # 0 =>
             tx.deadline = 0 \/ tx.deadline > watermark']_vars
=============================================================================
