--------------------------- MODULE StallSupervisor ---------------------------
(***************************************************************************)
(* The reserved supervisor of stalled executions                           *)
(* (observability/managed_supervisor.py).  A coordinator claims stall      *)
(* notices from the durable inbox into a bounded number of slots; the      *)
(* thread of a slot runs the handler as an execution of the Kernel whose   *)
(* identity is that of the notice, in a process with a memory limit, and   *)
(* settles the receipt.  A slot stays charged until it is proved that no   *)
(* process of the notice is left.  Several supervisors, and a supervisor   *)
(* before and after a crash, share the inbox, the Kernel and the journal.  *)
(* Memory limits are taken to be enforceable: a coordinator on a platform  *)
(* where they are not never claims anything.                               *)
(***************************************************************************)
EXTENDS DeliveryQueue, FiniteSets

CONSTANTS
    Supervisors,
    Notices,      \* stall notices, each already in the inbox
    Capacity,     \* options.capacity; the memory budget is as large
    MaxFaults,    \* bound: deaths, failures of threads and failed operations
    MaxOrders     \* bound: retries of dead notices

CapacityAssumption == /\ Capacity \in Nat \ {0}
                      /\ {MaxFaults, MaxOrders} \subseteq Nat

VARIABLES
    inbox,    \* notification_inbox_messages of the stall source
    exec,     \* the Kernel's row of each notice's execution
    over,     \* notices whose original budget has elapsed
    note,     \* process_cleanup notes of the settlement journal
    slot,     \* _active, _ownership and where the thread of the slot is
    native,   \* what the Runtime of a supervisor still has to do with the
              \* worker process of a notice, or with its note
    proofs,   \* _cleanup_proofs
    held,     \* slots with a checkpoint or an observation still unpublished
    phase,    \* the supervisor: running, stopping, closed; dead
    broken,   \* _executor_unavailable
    started,  \* history: how often the handler of a notice was entered
    faults, orders

vars == <<inbox, exec, over, note, slot, native, proofs, held, phase, broken, started, faults, orders>>

\* kernel_executions: one claim is all that its Run control allows.
NoExec == [state |-> "absent", attempt |-> 0]
Live == {"queued", "running"}

\* seen is the state in the snapshot that the thread holds.
Free == [pc |-> "none", fence |-> 0, own |-> "not_invoked", source |-> "scheduler",
         factual |-> FALSE, seen |-> "none"]

Init ==
    /\ inbox = [n \in Notices |-> FreshRow] /\ exec = [n \in Notices |-> NoExec]
    /\ over = {} /\ note = [n \in Notices |-> "none"]
    /\ slot = [s \in Supervisors |-> [n \in Notices |-> Free]]
    /\ native = [s \in Supervisors |-> [n \in Notices |-> "none"]]
    /\ proofs = [s \in Supervisors |-> [n \in Notices |-> "none"]]
    /\ held = [s \in Supervisors |-> {}]
    /\ phase = [s \in Supervisors |-> "running"] /\ broken = [s \in Supervisors |-> FALSE]
    /\ started = [n \in Notices |-> 0] /\ faults = 0 /\ orders = 0

Active(s) == {n \in Notices : slot[s][n].pc # "none"}
Threads(s) == {n \in Notices : slot[s][n].pc \notin {"none", "done"}}
Fault == faults < MaxFaults /\ faults' = faults + 1

\* what the thread of a slot leaves alone in most of its steps
stores == <<inbox, over, proofs, held, phase, broken, orders>>

-----------------------------------------------------------------------------
(* The coordinator.                                                        *)

\* Capacity and the memory budget are charged for every slot.  _stop is looked
\* at before every operation here and in the threads; one that is under way
\* when it is set counts as before it.
Ready(s) == phase[s] = "running" /\ ~broken[s] /\ Cardinality(Active(s)) < Capacity

Swept == [n \in Notices |-> SweptRow(inbox[n])]

\* a proof of an earlier process of this notice goes with the slot
Opened(s, n) ==
    [Free EXCEPT !.pc = "queued", !.fence = inbox'[n].fence,
                 !.own = IF proofs[s][n] = "none" THEN @ ELSE proofs[s][n],
                 !.source = IF proofs[s][n] = "none" THEN @ ELSE "runtime"]

\* has_unsettled, claim (of the oldest: here any) and the submission to the
\* pool.  A receipt that expired under a slot that still works on it is claimed
\* and left alone.
Claim(s) ==
    /\ Ready(s)
    /\ \/ \E n \in Notices :
             /\ Claimable(Swept[n])
             /\ inbox' = [Swept EXCEPT ![n] = ClaimedRow(@)]
             /\ \/ /\ n \in Active(s) /\ UNCHANGED <<slot, broken, faults>>
                \/ /\ n \notin Active(s)
                   /\ slot' = [slot EXCEPT ![s][n] = Opened(s, n)]
                   /\ UNCHANGED <<broken, faults>>
                \/ /\ n \notin Active(s) /\ Fault      \* no thread can be had
                   /\ broken' = [broken EXCEPT ![s] = TRUE] /\ UNCHANGED slot
       \/ /\ \A n \in Notices : ~Claimable(Swept[n])
          /\ Swept # inbox /\ inbox' = Swept
          /\ UNCHANGED <<slot, broken, faults>>
    /\ UNCHANGED <<exec, over, note, native, proofs, held, phase, started, orders>>

\* _restore_cleanup: only a note of the journal says how the process ended.
Restored(c, n) ==
    LET doubted == IF exec[n].attempt > 0 /\ c.own = "not_invoked" /\ c.source = "scheduler"
                   THEN [c EXCEPT !.own = "unknown"] ELSE c
    IN  IF doubted.own = "unknown" /\ note[n] # "none"
        THEN [doubted EXCEPT !.own = note[n], !.source = "journal"]
        ELSE doubted

\* _recover_cleanup: an execution that nobody claimed had no process.
Recovered(c, n) ==
    IF c.own # "unknown" \/ exec[n].state = "absent" THEN c
    ELSE IF exec[n].attempt = 0 THEN [c EXCEPT !.own = "not_invoked", !.source = "unclaimed"]
    ELSE Restored(c, n)

\* only a process that was there is proved gone
Discharged_Mutant(c) == c.own = "confirmed"

Discharged(c) == c.own \in {"confirmed", "not_invoked"}

\* _collect; what is still to be published keeps the slot as well.
Collect(s, n) ==
    LET seen == Recovered(slot[s][n], n)
    IN  /\ phase[s] \in {"running", "stopping"} /\ slot[s][n].pc = "done"
        /\ slot' = [slot EXCEPT ![s][n] = IF Discharged(seen) /\ n \notin held[s] THEN Free ELSE seen]
        /\ slot' # slot
        /\ UNCHANGED <<inbox, exec, over, note, native, proofs, held, phase, broken, started, faults, orders>>

-----------------------------------------------------------------------------
(* The thread of a slot.                                                   *)

At(s, n, pc) == phase[s] \in {"running", "stopping"} /\ slot[s][n].pc = pc
Becomes(s, n, c) == slot' = [slot EXCEPT ![s][n] = c]
Goes(s, n, pc) == Becomes(s, n, [slot[s][n] EXCEPT !.pc = pc])

\* The snapshot says where the thread goes on.
Knows(c, state) == [c EXCEPT !.seen = state, !.pc = IF state \in Live THEN "loop" ELSE "settle"]

\* The handler of exceptions: an execution that the thread had a snapshot of
\* and that nobody has claimed proves that nothing was started.
Failed(c, n) ==
    [c EXCEPT !.pc = "fail", !.seen = "none", !.factual = FALSE,
              !.own = IF c.seen # "none" /\ exec[n].attempt = 0 THEN "not_invoked" ELSE @]
Fails(s, n) == Becomes(s, n, Failed(slot[s][n], n))
Done(c) == [c EXCEPT !.pc = "done", !.seen = "none", !.factual = FALSE]

\* _admission_context: the receipt must be this one; an execution that ended
\* is only read, one that would still have to run needs time.
Admit(s, n) ==
    /\ At(s, n, "queued") /\ phase[s] = "running"
    /\ IF inbox[n].state # "delivering" \/ inbox[n].fence # slot[s][n].fence THEN Fails(s, n)
       ELSE IF exec[n].state \notin {"absent"} \cup Live
            THEN Becomes(s, n, [slot[s][n] EXCEPT !.pc = "enroll", !.factual = TRUE])
       ELSE IF n \in over THEN Fails(s, n) ELSE Goes(s, n, "enroll")
    /\ UNCHANGED <<exec, note, native, started, faults>> /\ UNCHANGED stores

\* _enroll and the check of what it returns: one execution for a notice,
\* whoever comes first.
Enroll(s, n) ==
    LET c == slot[s][n]
    IN  /\ At(s, n, "enroll") /\ phase[s] = "running"
        /\ \/ /\ exec[n].state # "absent" /\ UNCHANGED exec
              /\ IF c.factual /\ exec[n].state \in Live
                 THEN Becomes(s, n, Failed(Knows(c, exec[n].state), n))
                 ELSE Becomes(s, n, Knows(c, exec[n].state))
           \/ exec[n].state = "absent" /\ n \in over /\ Fails(s, n) /\ UNCHANGED exec
           \/ /\ exec[n].state = "absent" /\ n \notin over
              /\ exec' = [exec EXCEPT ![n].state = "queued"] /\ Becomes(s, n, Knows(c, "queued"))
        /\ UNCHANGED <<note, native, started, faults>> /\ UNCHANGED stores

\* The loop of _handle, on the snapshot it has: one that was queued is to be
\* run, as long as there is time; one that was running is read again.
Look(s, n) ==
    LET c == slot[s][n]
    IN  /\ At(s, n, "loop") /\ phase[s] = "running"
        /\ \/ c.seen = "queued" /\ n \in over /\ Fails(s, n)
           \/ /\ c.seen = "queued" /\ n \notin over
              /\ Becomes(s, n, [c EXCEPT !.pc = "once", !.own = "unknown"])
           \/ /\ c.seen = "running" /\ exec[n].state # "running"
              /\ Becomes(s, n, Knows(c, exec[n].state))
        /\ UNCHANGED <<exec, note, native, started, faults>> /\ UNCHANGED stores

\* run_once: whoever claims first runs it; a Run past its deadline is not
\* claimed.  Without a claim the execution is read.
RunOnce(s, n) ==
    LET c == slot[s][n]
        read == Knows(c, exec[n].state)
    IN  /\ At(s, n, "once") /\ phase[s] = "running"
        /\ \/ /\ exec[n].state = "queued" /\ n \notin over
              /\ exec' = [exec EXCEPT ![n] = [state |-> "running", attempt |-> 1]]
              /\ Goes(s, n, "prepare")
           \/ /\ exec[n].state # "queued" \/ n \in over
              /\ Becomes(s, n, IF exec[n].attempt = 0 THEN [read EXCEPT !.own = "not_invoked"] ELSE read)
              /\ UNCHANGED exec
        /\ UNCHANGED <<note, native, started, faults>> /\ UNCHANGED stores

\* The proof is kept whatever becomes of the slot, for as many as there are
\* slots; the oldest goes, here any.
Proves(s, n, state) ==
    LET others == {m \in Notices \ {n} : proofs[s][m] # "none"}
    IN  IF Cardinality(others) < Capacity THEN proofs' = [proofs EXCEPT ![s][n] = state]
        ELSE \E oldest \in others : proofs' = [proofs EXCEPT ![s][n] = state, ![s][oldest] = "none"]

\* _invoke_process spawns the worker.
Spawn(s, n) ==
    /\ At(s, n, "prepare")
    /\ native' = [native EXCEPT ![s][n] = "alive"] /\ started' = [started EXCEPT ![n] = @ + 1]
    /\ held' = [held EXCEPT ![s] = @ \cup {n}]
    /\ Goes(s, n, "inside")
    /\ UNCHANGED <<inbox, exec, over, note, proofs, phase, broken, faults, orders>>

\* _prepare_handler_admission fails, and says that nothing was spawned.
Denied(s, n) ==
    /\ At(s, n, "prepare") /\ Fault
    /\ Proves(s, n, "not_invoked") /\ native' = [native EXCEPT ![s][n] = "denied"]
    /\ exec' = [exec EXCEPT ![n].state = "failed"]
    /\ Becomes(s, n, [Knows(slot[s][n], "failed") EXCEPT !.own = "not_invoked", !.source = "runtime"])
    /\ UNCHANGED <<inbox, over, note, held, phase, broken, started, orders>>

\* What comes between that and the spawn (the note of the intent, the
\* obligation, the startup window) refuses as well, and says nothing.
Refused(s, n) ==
    /\ At(s, n, "prepare") /\ Fault
    /\ exec' = [exec EXCEPT ![n].state = "failed"] /\ Becomes(s, n, Knows(slot[s][n], "failed"))
    /\ UNCHANGED <<inbox, over, note, native, proofs, held, phase, broken, started, orders>>

\* The Runtime has contained the process, in the call or after it returned.
\* _cleanup_receipt finds the slot of this notice if there still is one.
Contain(s, n) ==
    /\ phase[s] \in {"running", "stopping"} /\ native[s][n] = "alive"
    /\ native' = [native EXCEPT ![s][n] = "contained"]
    /\ IF slot[s][n].pc = "none" THEN UNCHANGED <<slot, proofs>>
       ELSE /\ Becomes(s, n, [slot[s][n] EXCEPT !.own = "confirmed", !.source = "runtime"])
            /\ Proves(s, n, "confirmed")
    /\ UNCHANGED <<inbox, exec, over, note, held, phase, broken, started, faults, orders>>

\* the process_cleanup note goes through the lifecycle outbox
WriteNote(s, n) ==
    /\ phase[s] \in {"running", "stopping"} /\ native[s][n] \in {"contained", "denied"}
    /\ note' = [note EXCEPT ![n] = IF native[s][n] = "denied" THEN "not_invoked" ELSE "confirmed"]
    /\ native' = [native EXCEPT ![s][n] = "none"]
    /\ UNCHANGED <<inbox, exec, over, slot, proofs, held, phase, broken, started, faults, orders>>

\* run_once returns the canonical result.
HandlerEnds(s, n) ==
    /\ At(s, n, "inside") /\ native[s][n] # "alive"
    /\ \/ /\ exec[n].state = "running"
          /\ \E end \in {"succeeded", "failed"} : exec' = [exec EXCEPT ![n].state = end]
       \/ exec[n].state # "running" /\ UNCHANGED exec
    /\ Becomes(s, n, Knows(slot[s][n], exec'[n].state))
    /\ UNCHANGED <<note, native, started, faults>> /\ UNCHANGED stores

\* Any operation of the thread raises; what it began may go on, and a capture
\* of the budget may leave a checkpoint to be finished.  The handler of
\* exceptions may not learn of the execution either, and may not settle.
Raises(s, n) ==
    LET c == slot[s][n]
    IN  /\ phase[s] \in {"running", "stopping"} /\ Fault
        /\ \/ /\ c.pc \in {"queued", "enroll", "loop", "once", "prepare", "inside", "settle"}
              /\ \E known \in {c, Failed(c, n)} : Becomes(s, n, [Failed(c, n) EXCEPT !.own = known.own])
              /\ \E left \in {{}, IF c.pc = "enroll" THEN {n} ELSE {}} :
                    held' = [held EXCEPT ![s] = @ \cup left]
           \/ c.pc = "fail" /\ Becomes(s, n, Done(c)) /\ UNCHANGED held
        /\ UNCHANGED <<inbox, exec, over, note, native, proofs, phase, broken, started, orders>>

\* _restore_cleanup and _settle: a receipt that is consumed needs no proof, one
\* of a later delivery is left alone, one whose lease has run out refuses.
Settle(s, n) ==
    LET c == IF slot[s][n].pc = "settle" THEN Restored(slot[s][n], n) ELSE slot[s][n]
        row == inbox[n]
        mine == row.fence = c.fence /\ row.lease = c.fence
        good == c.pc = "settle" /\ c.seen = "succeeded"
    IN  /\ phase[s] = "running" /\ c.pc \in {"settle", "fail"}
        /\ inbox' = IF ~Holds(row, c.fence) THEN inbox
                    ELSE [inbox EXCEPT ![n] = IF good THEN AckedRow(@) ELSE ReleasedRow(@, TRUE, 0)]
        /\ proofs' = IF row.state = "delivered" \/ (Holds(row, c.fence) /\ inbox'[n].state \in {"delivered", "dead"})
                     THEN [proofs EXCEPT ![s][n] = "none"] ELSE proofs
        /\ IF c.pc = "settle" /\ row.state # "delivered" /\ mine /\ ~Holds(row, c.fence)
           THEN Becomes(s, n, Failed(c, n)) ELSE Becomes(s, n, Done(c))
        /\ UNCHANGED <<exec, over, note, native, held, phase, broken, started, faults, orders>>

\* The thread finds _stop set, in _admit or in the loop, before it has settled
\* anything; a pool that broke takes back what it had not begun.
Leave(s, n) ==
    LET c == slot[s][n]
    IN  /\ \/ phase[s] = "stopping" /\ c.pc \in {"queued", "enroll", "loop", "once", "settle", "fail"}
           \/ phase[s] = "running" /\ broken[s] /\ c.pc = "queued"
        /\ \E left \in {c} \cup (IF c.pc = "settle" THEN {Restored(c, n)} ELSE {Failed(c, n)}) :
              Becomes(s, n, Done([c EXCEPT !.own = left.own, !.source = left.source]))
        /\ UNCHANGED <<exec, note, native, started, faults>> /\ UNCHANGED stores

-----------------------------------------------------------------------------
(* Around it: time, the Kernel, operators and the end.                     *)

\* The original budget of the notice elapses.
BudgetEnds(n) ==
    /\ n \notin over /\ over' = over \cup {n}
    /\ UNCHANGED <<inbox, exec, note, slot, native, proofs, held, phase, broken, started, faults, orders>>

\* The Kernel ends the execution by itself: its lease expires or it is
\* cancelled.  The process may not know it yet.
KernelEnds(n) ==
    /\ exec[n].state \in Live /\ Fault
    /\ exec' = [exec EXCEPT ![n].state = "failed"]
    /\ UNCHANGED <<inbox, over, note, slot, native, proofs, held, phase, broken, started, orders>>

\* The lease of an execution whose supervisor died runs out.
Reaped(n) ==
    /\ exec[n].state = "running" /\ \A s \in Supervisors : slot[s][n].pc \notin {"prepare", "inside"}
    /\ exec' = [exec EXCEPT ![n].state = "failed"]
    /\ UNCHANGED <<inbox, over, note, slot, native, proofs, held, phase, broken, started, faults, orders>>

\* finish_pending, or the flusher of the observations finishes
Published(s, n) ==
    /\ n \in held[s] /\ held' = [held EXCEPT ![s] = @ \ {n}]
    /\ UNCHANGED <<inbox, exec, over, note, slot, native, proofs, phase, broken, started, faults, orders>>

Tick ==
    /\ \E n \in Notices : Ages(inbox[n])
    /\ inbox' = [n \in Notices |-> AgedRow(inbox[n])]
    /\ UNCHANGED <<exec, over, note, slot, native, proofs, held, phase, broken, started, faults, orders>>

RetryDead(n) ==
    /\ orders < MaxOrders /\ Reopens(inbox[n], inbox[n].revision)
    /\ inbox' = [inbox EXCEPT ![n] = ReopenedRow(@)] /\ orders' = orders + 1
    /\ UNCHANGED <<exec, over, note, slot, native, proofs, held, phase, broken, started, faults>>

Stop(s) ==
    /\ phase[s] = "running" /\ phase' = [phase EXCEPT ![s] = "stopping"]
    /\ UNCHANGED <<inbox, exec, over, note, slot, native, proofs, held, broken, started, faults, orders>>

\* the threads have returned, and that is enough
Clean_Mutant(s) == TRUE

\* The Runtime's own close comes in between and can only refuse more.
Clean(s) == Active(s) = {} /\ held[s] = {}

\* _finish_close; what is not proved makes this close fail, not a later one.
FinishClose(s) ==
    /\ phase[s] = "stopping" /\ Threads(s) = {} /\ Clean(s)
    /\ phase' = [phase EXCEPT ![s] = "closed"]
    /\ UNCHANGED <<inbox, exec, over, note, slot, native, proofs, held, broken, started, faults, orders>>

\* The process of the Dispatcher dies, and with it all it knew of its workers:
\* those find their pipe closed and end by themselves.
Crash(s) ==
    /\ phase[s] \in {"running", "stopping"} /\ Fault
    /\ phase' = [phase EXCEPT ![s] = "dead"]
    /\ slot' = [slot EXCEPT ![s] = [n \in Notices |-> Free]]
    /\ native' = [native EXCEPT ![s] = [n \in Notices |-> "none"]]
    /\ proofs' = [proofs EXCEPT ![s] = [n \in Notices |-> "none"]]
    /\ held' = [held EXCEPT ![s] = {}] /\ broken' = [broken EXCEPT ![s] = FALSE]
    /\ UNCHANGED <<inbox, exec, over, note, started, orders>>

\* The Dispatcher is opened again with the same handler: a new supervisor.
Reopen(s) ==
    /\ phase[s] \in {"dead", "closed"} /\ phase' = [phase EXCEPT ![s] = "running"]
    /\ broken' = [broken EXCEPT ![s] = FALSE]
    /\ native' = [native EXCEPT ![s] = [n \in Notices |-> "none"]]
    /\ proofs' = [proofs EXCEPT ![s] = [n \in Notices |-> "none"]]
    /\ UNCHANGED <<inbox, exec, over, note, slot, held, started, faults, orders>>

Thread(s, n) ==
    \/ Admit(s, n) \/ Enroll(s, n) \/ Look(s, n) \/ RunOnce(s, n)
    \/ Spawn(s, n) \/ HandlerEnds(s, n) \/ Leave(s, n) \/ Settle(s, n)

Next ==
    \/ \E s \in Supervisors : Claim(s) \/ Stop(s) \/ FinishClose(s) \/ Crash(s) \/ Reopen(s)
    \/ \E s \in Supervisors, n \in Notices :
          \/ Thread(s, n) \/ Collect(s, n) \/ Denied(s, n) \/ Refused(s, n) \/ Contain(s, n) \/ WriteNote(s, n)
          \/ Raises(s, n) \/ Published(s, n)
    \/ \E n \in Notices : BudgetEnds(n) \/ KernelEnds(n) \/ Reaped(n) \/ RetryDead(n)
    \/ Tick

Spec == Init /\ [][Next]_vars

\* The coordinator and the threads of its pool run on, processes are contained
\* and told of, what is to be published is published, the clock advances.
Fairness ==
    /\ WF_vars(Tick)
    /\ \A s \in Supervisors : WF_vars(Claim(s)) /\ WF_vars(FinishClose(s))
    /\ \A s \in Supervisors, n \in Notices :
          /\ WF_vars(Thread(s, n)) /\ WF_vars(Collect(s, n))
          /\ WF_vars(Contain(s, n)) /\ WF_vars(WriteNote(s, n)) /\ WF_vars(Published(s, n))
    /\ \A n \in Notices : WF_vars(Reaped(n))

FairSpec == Spec /\ Fairness

-----------------------------------------------------------------------------
(* Properties.                                                             *)

Pcs == {"none", "queued", "enroll", "loop", "once", "prepare", "inside", "settle", "fail", "done"}

TypeOK ==
    /\ inbox \in [Notices -> QueueRows]
    /\ exec \in [Notices -> [state : {"absent", "queued", "running", "succeeded", "failed"}, attempt : 0 .. 1]]
    /\ over \subseteq Notices /\ note \in [Notices -> {"none", "confirmed", "not_invoked"}]
    /\ slot \in [Supervisors -> [Notices -> [pc : Pcs, fence : Nat, own : {"not_invoked", "unknown", "confirmed"},
                    source : {"scheduler", "runtime", "journal", "unclaimed"}, factual : BOOLEAN,
                    seen : {"none", "queued", "running", "succeeded", "failed"}]]]
    /\ native \in [Supervisors -> [Notices -> {"none", "alive", "contained", "denied"}]]
    /\ proofs \in [Supervisors -> [Notices -> {"none", "confirmed", "not_invoked"}]]
    /\ held \in [Supervisors -> SUBSET Notices] /\ broken \in [Supervisors -> BOOLEAN]
    /\ phase \in [Supervisors -> {"running", "stopping", "closed", "dead"}]
    /\ started \in [Notices -> Nat] /\ faults \in 0 .. MaxFaults /\ orders \in 0 .. MaxOrders

\* "Replay delivers the original result and never invokes the handler again":
\* one notice enters the handler at most once, over all deliveries, supervisors,
\* retries of a dead notice and restarts.
InvokedOnce == \A n \in Notices : started[n] <= 1

\* Capacity and memory stay charged while a process may be alive: whatever the
\* Kernel says of the execution and whatever raised, a live worker has its slot,
\* so that never more of them are alive than memory was reserved for.
AliveIsCharged ==
    \A s \in Supervisors :
       LET alive == {n \in Notices : native[s][n] = "alive"}
       IN  alive \subseteq Active(s) /\ Cardinality(alive) <= Capacity

\* A notice is consumed only by a handler that succeeded, also when several
\* supervisors and replays settle it.
ConsumedIsSucceeded == \A n \in Notices : inbox[n].state = "delivered" => exec[n].state = "succeeded"

\* _finish_close looks at slots only: a close that succeeds nevertheless leaves
\* no worker process behind, and none appears later.
ClosedIsClean ==
    \A s \in Supervisors, n \in Notices : phase[s] = "closed" => native[s][n] # "alive"

\* The notices, slots and handlers of the supervisors of stalled executions.
SupervisorsSafe ==
    /\ TypeOK
    /\ InvokedOnce
    /\ AliveIsCharged
    /\ ConsumedIsSucceeded
    /\ ClosedIsClean

\* Every notice is consumed or dead in the end and every slot is given back, as
\* long as the supervisor keeps running with its pool.  A slot is the exception
\* whose process died with an earlier Dispatcher before a note of it was
\* written, or was refused without one: nothing can prove its end any more and
\* it stays charged.
Disturbed == \E s \in Supervisors : phase[s] # "running" \/ broken[s]

Orphaned(n) ==
    exec[n].attempt = 1 /\ note[n] = "none" /\ \A s \in Supervisors : native[s][n] = "none"

NoticesSettle ==
    \A n \in Notices :
       inbox[n].state \in {"pending", "delivering"}
          ~> (inbox[n].state \in {"delivered", "dead"} \/ Disturbed \/ \E m \in Notices : Orphaned(m))

SlotsReturn ==
    \A s \in Supervisors, n \in Notices :
       n \in Active(s) ~> (n \notin Active(s) \/ Disturbed \/ Orphaned(n))
=============================================================================
