-------------------------- MODULE SettlementJournal --------------------------
(***************************************************************************)
(* How an outcome that a handler has produced reaches the Kernel whatever  *)
(* fails in between (execution_kernel/settlement.py, pending_settlements.py*)
(* and runtime.py).  A driver thread reserves a slot of its process before *)
(* it claims; it keeps the outcome in that slot, records it in the         *)
(* settlement journal - a database of its own - and only then completes    *)
(* the execution in the Kernel and settles the receipt.  What a driver     *)
(* leaves undone, the maintenance of any process finishes: it persists the *)
(* process's own slots and scans the journal round robin.                  *)
(*                                                                         *)
(* A key is an execution and the fence of one claim of it.  The Kernel is  *)
(* its row and the result each generation's completion recorded; the       *)
(* module ExecutionKernel has the rest of it.                              *)
(***************************************************************************)
EXTENDS Integers, Sequences, FiniteSets

CONSTANTS
    Execs, Runtimes, Drivers,
    Home,      \* the runtime (process) of each driver
    Capacity,  \* slots of a process (PendingSettlements)
    MaxFence,  \* bound: how often an execution can be claimed
    MaxRev,    \* bound: how often a receipt is written
    Oversized  \* executions whose receipts exceed the recovery's read limit

SettlementAssumption ==
    /\ Home \in [Drivers -> Runtimes] /\ Capacity \in Nat \ {0}
    /\ MaxFence \in Nat \ {0} /\ MaxRev \in Nat \ {0} /\ Oversized \subseteq Execs
    /\ Runtimes \cap {"none", "driver"} = {}

Keys == Execs \X (1 .. MaxFence)
NoKey == <<>>

\* What a handler left: a result, an effect to recover, or a return whose
\* time is not known, with and without a proof to resolve it by.
Outcomes == {"result", "recovery", "time unknown", "time unknowable"}

\* A result is named after who made it: the driver, or the runtime whose
\* maintenance resolved the time.
Results == {"none", "driver"} \cup Runtimes

Final == {"recorded", "superseded", "recovery_required"}
Unrecorded == [st |-> "none", rev |-> 0, res |-> "none"]
Idle == [pc |-> "idle", key |-> NoKey]
AtRest == [pc |-> "idle", key |-> NoKey, rev |-> 0, res |-> "none", to |-> "none"]

VARIABLES
    row,       \* kernel_executions
    accepted,  \* result each generation's completion recorded in the Kernel
    out,       \* outcome of each generation, "lost" when its process died with it
    pend,      \* outcomes a process retains (PendingSettlements._entries)
    inuse,     \* its reserved slots (_in_use)
    drv,       \* drivers in run_once
    j,         \* settlement_records
    rows,      \* ... in rowid order
    cursor,    \* settlement_recovery_cursor
    mnt        \* maintenance (recover_completions) of each process

vars == <<row, accepted, out, pend, inuse, drv, j, rows, cursor, mnt>>

TypeOK ==
    /\ row \in [Execs -> [st : {"queued", "running", "parked", "ended"}, fence : 0 .. MaxFence, lease : BOOLEAN]]
    /\ accepted \in [Keys -> Results]
    /\ out \in [Keys -> Outcomes \cup {"none", "lost"}]
    /\ pend \in [Runtimes -> SUBSET Keys]
    /\ inuse \in [Runtimes -> 0 .. Capacity]
    /\ drv \in [Drivers -> [pc : {"idle", "admitted", "running", "retained", "receipt", "recorded", "unrecorded", "accepted", "parked"},
                            key : Keys \cup {NoKey}]]
    /\ j \in [Keys -> [st : {"none", "pending", "error"} \cup Final, rev : 0 .. MaxRev, res : Results]]
    /\ rows \in Seq(Keys) /\ cursor \in 0 .. Len(rows)
    /\ mnt \in [Runtimes -> [pc : {"idle", "read", "settle"}, key : Keys \cup {NoKey}, rev : 0 .. MaxRev, res : Results,
                             to : {"none", "error"} \cup Final]]

Init ==
    /\ row = [e \in Execs |-> [st |-> "queued", fence |-> 0, lease |-> FALSE]]
    /\ accepted = [k \in Keys |-> "none"]
    /\ out = [k \in Keys |-> "none"]
    /\ pend = [r \in Runtimes |-> {}]
    /\ inuse = [r \in Runtimes |-> 0]
    /\ drv = [d \in Drivers |-> Idle]
    /\ j = [k \in Keys |-> Unrecorded]
    /\ rows = <<>> /\ cursor = 0
    /\ mnt = [r \in Runtimes |-> AtRest]

-----------------------------------------------------------------------------
(* The Kernel                                                              *)

Current(k) == row[k[1]].fence = k[2]
Running(k) == Current(k) /\ row[k[1]].st = "running"

\* The result that is on record of a generation.
ResultOf(k) == IF out[k] = "result" THEN "driver" ELSE j[k].res

\* _complete_result: the row ends or is queued again, or waits for the
\* effects the handler left unfinished.
KAccept(k, id) ==
    \E st \in {"ended", "queued", "parked"} :
        /\ row' = [row EXCEPT ![k[1]] = [@ EXCEPT !.st = st, !.lease = FALSE]]
        /\ accepted' = IF st = "parked" THEN accepted ELSE [accepted EXCEPT ![k] = id]

\* An ended row answers its own result again.
Replayed(k, id) == row[k[1]].st = "ended" /\ Current(k) /\ accepted[k] = id

LeaseRunsOut(e) ==
    /\ row[e].lease /\ row' = [row EXCEPT ![e].lease = FALSE]
    /\ UNCHANGED <<accepted, out, pend, inuse, drv, j, rows, cursor, mnt>>

\* Reaped, cancelled, or decided by an operator.
KMoves(e) ==
    /\ \/ /\ row[e].st = "running" /\ ~row[e].lease
          /\ \E st \in {"queued", "ended"} : row' = [row EXCEPT ![e].st = st]
       \/ /\ row[e].st \in {"queued", "running"}
          /\ row' = [row EXCEPT ![e] = [@ EXCEPT !.st = "ended", !.lease = FALSE]]
       \/ /\ row[e].st = "parked"
          /\ \E st \in {"queued", "ended"} : row' = [row EXCEPT ![e].st = st]
    /\ UNCHANGED <<accepted, out, pend, inuse, drv, j, rows, cursor, mnt>>

-----------------------------------------------------------------------------
(* Slots of a process                                                      *)

\* run_once: admission before the claim.
Acquire(d) ==
    /\ drv[d] = Idle /\ inuse[Home[d]] < Capacity
    /\ drv' = [drv EXCEPT ![d].pc = "admitted"]
    /\ inuse' = [inuse EXCEPT ![Home[d]] = @ + 1]
    /\ UNCHANGED <<row, accepted, out, pend, j, rows, cursor, mnt>>

\* persisted: the entry goes, and its slot with it, once.
Persisted(r, k) ==
    /\ pend' = [pend EXCEPT ![r] = @ \ {k}]
    /\ inuse' = [inuse EXCEPT ![r] = IF k \in pend[r] THEN @ - 1 ELSE @]

Kept == UNCHANGED <<pend, inuse>>

\* finish: a driver without an outcome gives its slot back.
Finish(d) ==
    /\ drv' = [drv EXCEPT ![d] = Idle]
    /\ inuse' = [inuse EXCEPT ![Home[d]] = @ - 1]

-----------------------------------------------------------------------------
(* A driver: run_once and _settle_outcome                                  *)

At(d, pc) == drv[d].pc = pc
Go(d, pc) == drv' = [drv EXCEPT ![d].pc = pc]
Return(d) == drv' = [drv EXCEPT ![d] = Idle]

NothingToClaim(d) ==
    /\ At(d, "admitted") /\ Finish(d)
    /\ UNCHANGED <<row, accepted, out, pend, j, rows, cursor, mnt>>

ClaimAndStart(d, e) ==
    /\ At(d, "admitted") /\ row[e].st = "queued" /\ row[e].fence < MaxFence
    /\ row' = [row EXCEPT ![e] = [st |-> "running", fence |-> @.fence + 1, lease |-> TRUE]]
    /\ drv' = [drv EXCEPT ![d] = [pc |-> "running", key |-> <<e, row[e].fence + 1>>]]
    /\ UNCHANGED <<accepted, out, pend, inuse, j, rows, cursor, mnt>>

\* The call escapes without an outcome, or its authority was revoked.
NoOutcome(d) ==
    /\ At(d, "running") /\ Finish(d)
    /\ UNCHANGED <<row, accepted, out, pend, j, rows, cursor, mnt>>

\* The slot is handed over to the outcome (retain).
Retain(d) ==
    /\ At(d, "running") /\ Go(d, "retained")
    /\ \E kind \in Outcomes : out' = [out EXCEPT ![drv[d].key] = kind]
    /\ pend' = [pend EXCEPT ![Home[d]] = @ \cup {drv[d].key}]
    /\ UNCHANGED <<row, accepted, inuse, j, rows, cursor, mnt>>

\* SettlementJournal.record: the first receipt of a key stays.
Journaled(k) ==
    IF j[k] = Unrecorded
    THEN /\ j' = [j EXCEPT ![k] = [st |-> "pending", rev |-> 1, res |-> "none"]]
         /\ rows' = Append(rows, k)
    ELSE UNCHANGED <<j, rows>>

Record(d) ==
    /\ At(d, "retained") /\ Journaled(drv[d].key) /\ Go(d, "receipt")
    /\ UNCHANGED <<row, accepted, out, pend, inuse, cursor, mnt>>

RecordFails(d) ==
    /\ At(d, "retained") /\ Go(d, "unrecorded")
    /\ UNCHANGED <<row, accepted, out, pend, inuse, j, rows, cursor, mnt>>

Release(d) ==
    /\ At(d, "receipt") /\ Persisted(Home[d], drv[d].key) /\ Go(d, "recorded")
    /\ UNCHANGED <<row, accepted, out, j, rows, cursor, mnt>>

Ready(d) == At(d, "recorded") \/ At(d, "unrecorded")

\* The Kernel's completion, while the lease is the driver's.
Complete(d) ==
    LET k == drv[d].key IN
    /\ Ready(d) /\ out[k] = "result"
    /\ \/ Running(k) /\ row[k[1]].lease /\ KAccept(k, "driver")
       \/ Replayed(k, "driver") /\ UNCHANGED <<row, accepted>>
    /\ IF At(d, "recorded") THEN Kept /\ Go(d, IF row'[k[1]].st = "parked" THEN "parked" ELSE "accepted")
       ELSE /\ Return(d)
            /\ IF row'[k[1]].st = "ended" THEN Persisted(Home[d], k) ELSE Kept
    /\ UNCHANGED <<out, j, rows, cursor, mnt>>

\* require_effect_recovery
Park(d) ==
    LET k == drv[d].key IN
    /\ Ready(d) /\ out[k] = "recovery" /\ Running(k) /\ row[k[1]].lease
    /\ row' = [row EXCEPT ![k[1]] = [@ EXCEPT !.st = "parked", !.lease = FALSE]]
    /\ IF At(d, "recorded") THEN Go(d, "parked") ELSE Return(d)
    /\ UNCHANGED <<accepted, out, pend, inuse, j, rows, cursor, mnt>>

\* Refused, busy, out of time, or nothing a driver may decide: the receipt,
\* or the slot, stays for the maintenance.
LeaveIt(d) ==
    /\ Ready(d) \/ At(d, "accepted") \/ At(d, "parked")
    /\ Return(d)
    /\ UNCHANGED <<row, accepted, out, pend, inuse, j, rows, cursor, mnt>>

\* ... whatever became of the receipt since it was read
SettledAs_Mutant(k, rev, st) ==
    IF j[k].rev < MaxRev
    THEN j' = [j EXCEPT ![k] = [st |-> st, rev |-> @.rev + 1, res |-> @.res]] ELSE j' = j

\* SettlementJournal.settle: a resolved receipt permits only exact replay.
SettledAs(k, rev, st) ==
    IF j[k].rev = rev /\ j[k].st \in {"pending", "error"} /\ rev < MaxRev
    THEN j' = [j EXCEPT ![k] = [st |-> st, rev |-> @.rev + 1, res |-> @.res]] ELSE j' = j

SettleOwn(d) ==
    /\ \/ At(d, "accepted") /\ SettledAs(drv[d].key, 1, "recorded")
       \/ At(d, "parked") /\ SettledAs(drv[d].key, 1, "recovery_required")
    /\ Return(d)
    /\ UNCHANGED <<row, accepted, out, pend, inuse, rows, cursor, mnt>>

\* The process dies: what it had only in memory is lost.
Crash(r) ==
    /\ \E d \in Drivers : Home[d] = r /\ drv[d] # Idle
    /\ drv' = [d \in Drivers |-> IF Home[d] = r THEN Idle ELSE drv[d]]
    /\ out' = [k \in Keys |-> IF k \in pend[r] /\ j[k] = Unrecorded THEN "lost" ELSE out[k]]
    /\ pend' = [pend EXCEPT ![r] = {}] /\ inuse' = [inuse EXCEPT ![r] = 0]
    /\ mnt' = [mnt EXCEPT ![r] = AtRest]
    /\ UNCHANGED <<row, accepted, j, rows, cursor>>

-----------------------------------------------------------------------------
(* Maintenance: recover_completions of a process                           *)

\* _persist_pending_settlements
PersistPending(r, k) ==
    /\ k \in pend[r] /\ Journaled(k) /\ Persisted(r, k)
    /\ UNCHANGED <<row, accepted, out, drv, cursor, mnt>>

PendingRows == {i \in DOMAIN rows : j[rows[i]].st \in {"pending", "error"}}

\* next_pending_round_robin: the first after the cursor, or the first.
NextPending ==
    LET after == {i \in PendingRows : i > cursor}
        from == IF after = {} THEN PendingRows ELSE after
    IN  {i \in from : \A n \in from : i <= n}

InFlight(r) == {drv[d].key : d \in {d \in Drivers : Home[d] = r /\ drv[d].pc \notin {"idle", "admitted", "running"}}}

\* The cursor moves, whatever becomes of the receipt: oversized ones and those
\* a driver of this process is settling are passed over.
Scan(r) ==
    /\ mnt[r] = AtRest
    /\ \E i \in NextPending : LET k == rows[i] IN
        /\ cursor' = i
        /\ mnt' = IF k[1] \in Oversized \/ k \in InFlight(r) THEN mnt
                  ELSE [mnt EXCEPT ![r] = [pc |-> "read", key |-> k, rev |-> j[k].rev, res |-> j[k].res, to |-> "none"]]
    /\ UNCHANGED <<row, accepted, out, pend, inuse, drv, j, rows>>

Reading(r) == mnt[r].pc = "read"
Decided(r, st) == mnt' = [mnt EXCEPT ![r] = [@ EXCEPT !.pc = "settle", !.to = st]]

\* ... if it may still be settled, whoever has written it since
Fresh_Mutant(r) == j[mnt[r].key].st \in {"pending", "error"}

\* Nobody has written the record since it was read.
Fresh(r) == j[mnt[r].key].rev = mnt[r].rev

\* The record, as it was read, has no time.
Unresolved(r) == out[mnt[r].key] \in {"time unknown", "time unknowable"} /\ mnt[r].res = "none"

\* completion_time_unknown: the result made from the proof is persisted before
\* it is published, and whoever finds that the record was written meanwhile
\* publishes none; without a proof the time stays unknown.
ResolveTime(r) ==
    LET k == mnt[r].key IN
    /\ Reading(r) /\ Unresolved(r)
    /\ \/ /\ ~Running(k) /\ Decided(r, "superseded") /\ j' = j
       \/ Running(k) /\ out[k] = "time unknowable" /\ Decided(r, "error") /\ j' = j
       \/ /\ Running(k) /\ out[k] = "time unknown"
          /\ IF Fresh(r) /\ j[k].rev < MaxRev
             THEN /\ j' = [j EXCEPT ![k] = [st |-> "pending", rev |-> @.rev + 1, res |-> r]]
                  /\ mnt' = [mnt EXCEPT ![r] = [@ EXCEPT !.rev = j[k].rev + 1, !.res = r]]
             ELSE j' = j /\ mnt' = [mnt EXCEPT ![r] = AtRest]
    /\ UNCHANGED <<row, accepted, out, pend, inuse, drv, rows, cursor>>

\* What the record, as it was read or written by this pass, completes with.
ReadResult(r) == IF out[mnt[r].key] = "result" THEN "driver" ELSE mnt[r].res

\* _complete_sdk_result with settlement=True: a lease that ran out still
\* settles as long as the row is this generation's; a refusal is final.
Publish(r) ==
    LET k == mnt[r].key IN
    /\ Reading(r) /\ ~Unresolved(r) /\ out[k] # "recovery"
    /\ \/ Running(k) /\ KAccept(k, ReadResult(r)) /\ Decided(r, IF row'[k[1]].st = "parked" THEN "recovery_required" ELSE "recorded")
       \/ Replayed(k, ReadResult(r)) /\ Decided(r, "recorded") /\ UNCHANGED <<row, accepted>>
       \/ ~Running(k) /\ ~Replayed(k, ReadResult(r)) /\ Decided(r, "superseded") /\ UNCHANGED <<row, accepted>>
    /\ UNCHANGED <<out, pend, inuse, drv, j, rows, cursor>>

\* _require_effect_recovery, unless the row waits already.
RequireRecovery(r) ==
    LET k == mnt[r].key IN
    /\ Reading(r) /\ out[k] = "recovery"
    /\ \/ /\ Running(k) /\ Decided(r, "recovery_required")
          /\ row' = [row EXCEPT ![k[1]] = [@ EXCEPT !.st = "parked", !.lease = FALSE]]
       \/ row[k[1]].st = "parked" /\ Current(k) /\ Decided(r, "recovery_required") /\ row' = row
       \/ (~Current(k) \/ row[k[1]].st \notin {"running", "parked"}) /\ Decided(r, "superseded") /\ row' = row
    /\ UNCHANGED <<accepted, out, pend, inuse, drv, j, rows, cursor>>

SettleReceipt(r) ==
    /\ mnt[r].pc = "settle" /\ mnt' = [mnt EXCEPT ![r] = AtRest]
    /\ SettledAs(mnt[r].key, mnt[r].rev, mnt[r].to)
    /\ UNCHANGED <<row, accepted, out, pend, inuse, drv, rows, cursor>>

\* Contention, or the window of the pass has elapsed.
GiveUp(r) ==
    /\ mnt[r] # AtRest /\ mnt' = [mnt EXCEPT ![r] = AtRest]
    /\ UNCHANGED <<row, accepted, out, pend, inuse, drv, j, rows, cursor>>

-----------------------------------------------------------------------------
Drive(d) ==
    \/ Acquire(d) \/ NothingToClaim(d) \/ (\E e \in Execs : ClaimAndStart(d, e)) \/ NoOutcome(d) \/ Retain(d)
    \/ Record(d) \/ RecordFails(d) \/ Release(d) \/ Complete(d) \/ Park(d) \/ LeaveIt(d) \/ SettleOwn(d)

Maintain(r) ==
    \/ (\E k \in Keys : PersistPending(r, k))
    \/ Scan(r) \/ ResolveTime(r) \/ Publish(r) \/ RequireRecovery(r) \/ SettleReceipt(r)

Next ==
    \/ \E e \in Execs : LeaseRunsOut(e) \/ KMoves(e)
    \/ \E d \in Drivers : Drive(d)
    \/ \E r \in Runtimes : Maintain(r) \/ GiveUp(r) \/ Crash(r)

Spec == Init /\ [][Next]_vars

-----------------------------------------------------------------------------
\* A slot is released exactly once: those in use are the drivers that have not
\* handed theirs over and the outcomes still retained, whoever persists an
\* entry first, and never more than the process has.
SlotsExact ==
    \A r \in Runtimes :
        inuse[r] = Cardinality(pend[r]) + Cardinality({d \in Drivers : Home[d] = r /\ drv[d].pc \in {"admitted", "running"}})

\* An outcome leaves the memory of its process only for a place that survives
\* it: the journal, or the Kernel's own row.
OutcomeIsKept ==
    \A k \in Keys : out[k] \in Outcomes =>
        \/ j[k] # Unrecorded
        \/ \E r \in Runtimes : k \in pend[r]
        \/ accepted[k] # "none"

\* A receipt says recorded only of the very result the Kernel accepted, and
\* recovery_required or superseded only where no driver or maintenance can
\* still complete that generation.
ReceiptsTellTheTruth ==
    \A k \in Keys :
        /\ j[k].st = "recorded" => accepted[k] = ResultOf(k) /\ accepted[k] # "none"
        /\ j[k].st \in {"superseded", "recovery_required"} => ~Running(k)

\* A result that a maintenance made, from a proof of the time, is published
\* only if it is the one persisted for that generation: of two that resolve
\* the same outcome the loser publishes none.
PublishedIsPersisted ==
    \A k \in Keys : accepted[k] \in Runtimes => j[k].res = accepted[k]

\* The settlement of outcomes: slots, journals and receipts.
SettlementSafe ==
    /\ TypeOK
    /\ SlotsExact
    /\ OutcomeIsKept
    /\ ReceiptsTellTheTruth
    /\ PublishedIsPersisted

\* The Kernel keeps one result of a generation, and a receipt once settled
\* stays as it is.
OneResultEachStep ==
    \A k \in Keys :
     /\ accepted[k] # "none" => accepted'[k] = accepted[k]
     /\ j[k].st \in {"recorded", "superseded"} => j'[k] = j[k]

OneResultEach == [][OneResultEachStep]_vars

\* Failures stop: storage is not busy for ever and processes stay up; the
\* settlement loop runs every quarter of a second and a driver's call returns.
Fairness ==
    /\ \A r \in Runtimes : WF_vars(Scan(r)) /\ WF_vars(ResolveTime(r) \/ Publish(r) \/ RequireRecovery(r) \/ SettleReceipt(r))
    /\ \A r \in Runtimes : \A k \in Keys : WF_vars(PersistPending(r, k))
    /\ \A d \in Drivers : WF_vars(Record(d) \/ Release(d) \/ SettleOwn(d) \/ LeaveIt(d))
    /\ \A e \in Execs : WF_vars(LeaseRunsOut(e)) /\ WF_vars(KMoves(e) /\ row[e].st = "running")
    /\ \A r \in Runtimes : <>[][~(GiveUp(r) \/ Crash(r))]_vars

FairSpec == Spec /\ Fairness

\* Every outcome that outlives its process is settled in the end, however many
\* receipts that cannot be read come before it in the scan.
EverySettled ==
    \A k \in Keys : out[k] \in Outcomes ~>
        k[1] \in Oversized \/ out[k] = "lost" \/ j[k].st \in Final \/ (j[k] = Unrecorded /\ accepted[k] # "none")
=============================================================================
