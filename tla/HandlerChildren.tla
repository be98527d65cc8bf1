---------------------------- MODULE HandlerChildren ----------------------------
(***************************************************************************)
(* Child executions (execution_kernel/children.py, child_factual_read.py,  *)
(* supervision.py).  A handler asks for a child, or for the result of an   *)
(* existing execution, through requests in the observation journal and     *)
(* polls them; the child services of the runtimes carry the requests out   *)
(* against the Kernel.  The two databases share no transaction: each action*)
(* here is one transaction of one of them, or one read and what it decides.*)
(*                                                                         *)
(* A row of the Kernel is what the module ExecutionKernel has more of: only*)
(* its state, the generation (fence) and the lease matter here, and whether*)
(* the entry of the generation's handler is confirmed.  "failed" stands for*)
(* every final state but success.  Time is the request's work window       *)
(* (late): it runs out for the handler and for the services alike.         *)
(***************************************************************************)
EXTENDS Integers, FiniteSets, Relation

CONSTANTS
    Execs, Requests, Services, None,
    Attempts,   \* claims the retry policy of an execution allows
    Caller,     \* the execution whose handler makes a request
    Action,     \* "run" a child of its own or "wait" for an existing execution
    Target,     \* ... which
    Capacity,   \* child_capacity: open requests, and workers of a service
    MaxDepth,   \* max_child_depth
    Timed,      \* requests whose work window may run out
    Decided,    \* executions that can park for a decision on their effects
    MaxFaults   \* bound: crashes, stalls, lost answers, cancellations

Fences == 1 .. 2

ChildrenAssumption ==
    /\ Attempts \in [Execs -> Fences]
    /\ Caller \in [Requests -> Execs] /\ Target \in [Requests -> Execs]
    /\ Action \in [Requests -> {"run", "wait"}]
    /\ Capacity \in Nat \ {0} /\ MaxDepth \in Nat \ {0}
    /\ Timed \subseteq Requests /\ Decided \subseteq Execs /\ MaxFaults \in Nat
    /\ \A r, q \in Requests : {Action[r], Action[q]} = {"run"} /\ Target[r] = Target[q] => r = q

Submitted == Execs \ {Target[r] : r \in {q \in Requests : Action[q] = "run"}}

Ended == {"succeeded", "failed"}
Open == {"pending", "running"}
NoParent == [exec |-> None, fence |-> 0, depth |-> 0]
NoRequest == [st |-> "none", act |-> "none", fence |-> 0, res |-> "none", owner |-> None, held |-> FALSE]
Idle == [pc |-> "none", fence |-> 0, ours |-> FALSE, to |-> "none", res |-> "none", why |-> "none"]

VARIABLES
    row,     \* kernel_executions
    parent,  \* kernel_execution_limits: parent generation, depth
    req,     \* sdk_child_requests; the wait of a request is open as long as it is
    late,    \* work window of a request: "no", or over when its target had "ended" or not ("open")
    call,    \* run or wait_for, in the handler of each generation of the caller
    exe,     \* workers of the child services (_execute)
    stop,    \* services that are closing (_stop)
    faults

kvars == <<row, parent>>
vars == <<row, parent, req, late, call, exe, stop, faults>>

TypeOK ==
    /\ row \in [Execs -> [st : {"none", "queued", "running", "parked"} \cup Ended,
                          fence : 0 .. 2, lease : BOOLEAN, entered : BOOLEAN]]
    /\ parent \in [Execs -> [exec : Execs \cup {None}, fence : 0 .. 2, depth : 0 .. MaxDepth]]
    /\ req \in [Requests -> [st : {"none", "completed", "failed", "cancelled", "unknown"} \cup Open,
                             act : {"none", "run", "adopt", "observe"}, fence : 0 .. 2,
                             res : {"none"} \cup Ended, owner : Services \cup {None}, held : BOOLEAN]]
    /\ late \in [Requests -> {"no", "ended", "open"}]
    /\ call \in [Requests -> [Fences -> {"idle", "run", "adopt", "observe", "enqueued", "waiting", "error"} \cup Ended]]
    /\ exe \in [Services -> [Requests -> [pc : {"none", "start", "admitted", "loop", "claim", "invoke", "fail", "finish"},
                                         fence : 0 .. 2, ours : BOOLEAN, to : {"none", "completed", "failed", "unknown"},
                                         res : {"none"} \cup Ended, why : {"none", "authority", "other", "result"}]]]
    /\ stop \subseteq Services /\ faults \in 0 .. MaxFaults

Init ==
    /\ row = [e \in Execs |-> [st |-> IF e \in Submitted THEN "queued" ELSE "none",
                               fence |-> 0, lease |-> FALSE, entered |-> FALSE]]
    /\ parent = [e \in Execs |-> NoParent]
    /\ req = [r \in Requests |-> NoRequest]
    /\ late = [r \in Requests |-> "no"]
    /\ call = [r \in Requests |-> [f \in Fences |-> "idle"]]
    /\ exe = [s \in Services |-> [r \in Requests |-> Idle]]
    /\ stop = {} /\ faults = 0

Fault == faults < MaxFaults /\ faults' = faults + 1
NoFault == UNCHANGED faults

-----------------------------------------------------------------------------
(* The Kernel                                                              *)

\* _assert_lease, _verify_active_lease_readonly
Verified(e, f) == row[e].st = "running" /\ row[e].fence = f /\ row[e].lease

\* _parent_durably_revoked: by the committed row, never by the clock
Revoked(e, f) == row[e].st # "running" \/ row[e].fence # f

Entered(e, f) == Verified(e, f) /\ row[e].entered

Parented(e) == parent[e].exec # None
ParentOf(r, f) == [exec |-> Caller[r], fence |-> f, depth |-> parent[Caller[r]].depth + 1]
Related(r) == parent[Target[r]].exec = Caller[r] /\ parent[Target[r]].fence = req[r].fence

\* _assert_child_claim
MayStart(e) == Parented(e) => Entered(parent[e].exec, parent[e].fence)

Started(e) == [row EXCEPT ![e] = [st |-> "running", fence |-> @.fence + 1, lease |-> TRUE, entered |-> FALSE]]
Settled(e, st) == [row EXCEPT ![e].st = st, ![e].lease = FALSE]
\* A cancellation, which leaves an unsettled effect to be decided on.
Cancelled(e) == {"failed"} \cup (IF row[e].st = "running" /\ e \in Decided THEN {"parked"} ELSE {})
Requeued(e) == IF row[e].fence < Attempts[e] THEN "queued" ELSE "failed"

\* claim_and_start without a target never takes an execution with a parent.
ClaimAny(e) ==
    /\ row[e].st = "queued" /\ ~Parented(e)
    /\ row' = Started(e)
    /\ UNCHANGED <<parent, req, late, call, exe, stop, faults>>

\* _record_handler_entry
ConfirmEntry(e) ==
    /\ Verified(e, row[e].fence) /\ ~row[e].entered /\ MayStart(e)
    /\ row' = [row EXCEPT ![e].entered = TRUE]
    /\ UNCHANGED <<parent, req, late, call, exe, stop, faults>>

Quiet(e, f) == \A r \in Requests : Caller[r] = e => call[r][f] \in {"idle", "error"} \cup Ended

\* The outcome of a handler, whose calls are synchronous.
Outcomes(e) == Ended \cup {Requeued(e)} \cup (IF e \in Decided THEN {"parked"} ELSE {})

HandlerEnds(e) ==
    /\ ~Parented(e) /\ Verified(e, row[e].fence) /\ Quiet(e, row[e].fence)
    /\ \E st \in Outcomes(e) : row' = Settled(e, st)
    /\ UNCHANGED <<parent, req, late, call, exe, stop, faults>>

LeaseRunsOut(e) ==
    /\ row[e].lease /\ Fault
    /\ row' = [row EXCEPT ![e].lease = FALSE]
    /\ UNCHANGED <<parent, req, late, call, exe, stop>>

Reap(e) ==
    /\ row[e].st = "running" /\ ~row[e].lease
    /\ row' = Settled(e, Requeued(e))
    /\ UNCHANGED <<parent, req, late, call, exe, stop, faults>>

OperatorCancels(e) ==
    /\ row[e].st \in {"queued", "running"} /\ Fault
    /\ \E st \in Cancelled(e) : row' = Settled(e, st)
    /\ UNCHANGED <<parent, req, late, call, exe, stop>>

WindowEnds(r) ==
    /\ r \in Timed /\ req[r].st # "none" /\ late[r] = "no"
    /\ late' = [late EXCEPT ![r] = IF row[Target[r]].st \in Ended THEN "ended" ELSE "open"]
    /\ UNCHANGED <<row, parent, req, call, exe, stop, faults>>

-----------------------------------------------------------------------------
(* The handler's side                                                      *)

OpenWaits == {r \in Requests : req[r].st \in Open}
Waits == [x, y \in Execs |-> \E r \in OpenWaits : Caller[r] = x /\ Target[r] = y]
Reserved == {r \in OpenWaits : req[r].act \in {"run", "adopt"}}

\* _cycle: the caller must not be reached from the target.
Cycle(e, t) == e = t \/ TransitiveClosure(Waits, Execs)[t, e]

Says(r, f, what) == call' = [call EXCEPT ![r][f] = what]

\* run, or wait_for: how the target is to be had is read before the request
\* is written.  A target that is over is answered at once.
Ask(r, f) ==
    /\ Verified(Caller[r], f) /\ Quiet(Caller[r], f) /\ call[r][f] = "idle" /\ row[Caller[r]].entered
    /\ LET t == Target[r] IN
       Says(r, f, CASE Action[r] = "run" -> "run"
                    [] Action[r] = "wait" /\ row[t].st = "none" -> "error"
                    [] Action[r] = "wait" /\ row[t].st \in Ended -> row[t].st
                    [] parent[Caller[r]].depth + 1 > MaxDepth -> "error"
                    [] row[t].st = "queued" /\ parent[t].exec \in {None, Caller[r]} -> "adopt"
                    [] OTHER -> "observe")
    /\ UNCHANGED <<row, parent, req, late, exe, stop, faults>>

Asked(r, f) == call[r][f] \in {"run", "adopt", "observe"}

\* _enqueue before its transaction, when the authority or the depth fails.
Unasked(r, f) ==
    /\ Asked(r, f)
    /\ \/ ~Verified(Caller[r], f)
       \/ parent[Caller[r]].depth + 1 > MaxDepth
    /\ Says(r, f, "error")
    /\ UNCHANGED <<row, parent, req, late, exe, stop, faults>>

Refused_Mutant(r, act) ==
    \/ Cycle(Caller[r], Target[r])
    \/ act # "observe" /\ Cardinality(Reserved) >= Capacity
Refused(r, act) ==
    \/ Cycle(Caller[r], Target[r])
    \/ act # "observe" /\ Cardinality(Reserved) >= Capacity
    \/ act # "observe" /\ \E q \in Requests : Target[q] = Target[r] /\ req[q].act \in {"run", "adopt"}

\* The transaction of _enqueue.
Enqueue(r, f) ==
    /\ Asked(r, f) /\ parent[Caller[r]].depth + 1 <= MaxDepth
    /\ LET act == call[r][f] IN
       \/ /\ req[r].st # "none"          \* replay
          /\ Says(r, f, IF \/ req[r].st \in Open /\ req[r].fence # f
                           \/ req[r].act # act
                        THEN "error" ELSE "waiting")
          /\ UNCHANGED req
       \/ /\ req[r].st = "none" /\ Refused(r, act)
          /\ Says(r, f, "error")
          /\ UNCHANGED req
       \/ /\ req[r].st = "none" /\ ~Refused(r, act)
          /\ req' = [req EXCEPT ![r] = [NoRequest EXCEPT !.st = "pending", !.act = act, !.fence = f]]
          /\ Says(r, f, "enqueued")
    /\ UNCHANGED <<row, parent, late, exe, stop, faults>>

Closed(r, st, res) ==
    IF req[r].st \in Open
    THEN [req EXCEPT ![r].st = st, ![r].res = res, ![r].owner = None, ![r].held = FALSE]
    ELSE req

\* ... which checks the parent once more.
Recheck(r, f) ==
    /\ call[r][f] = "enqueued"
    /\ IF Verified(Caller[r], f)
       THEN Says(r, f, "waiting") /\ UNCHANGED req
       ELSE Says(r, f, "error") /\ req' = Closed(r, "cancelled", "none")
    /\ UNCHANGED <<row, parent, late, exe, stop, faults>>

\* _await_window, one turn
Poll(r, f) ==
    /\ call[r][f] = "waiting"
    /\ req[r].st \notin Open \/ ~Verified(Caller[r], f)
    /\ Says(r, f, IF Verified(Caller[r], f) /\ req[r].res # "none" THEN req[r].res ELSE "error")
    /\ UNCHANGED <<row, parent, req, late, exe, stop, faults>>

\* read_completed_result: once the window is over the handler may still
\* have the result if it was in time, whatever the request says.
CompletedResult(r, f) ==
    IF /\ row[Target[r]].st \in Ended /\ late[r] = "ended"
       /\ req[r].fence = f
       /\ req[r].act \in {"run", "adopt"} => Related(r)
    THEN row[Target[r]].st ELSE "error"

WaitExpires(r, f) ==
    /\ call[r][f] = "waiting" /\ req[r].st \in Open /\ late[r] # "no"
    /\ Says(r, f, IF Verified(Caller[r], f) THEN CompletedResult(r, f) ELSE "error")
    /\ UNCHANGED <<row, parent, req, late, exe, stop, faults>>

HandlerCalls(r, f) ==
    \/ Ask(r, f) \/ Unasked(r, f) \/ Enqueue(r, f) \/ Recheck(r, f) \/ Poll(r, f) \/ WaitExpires(r, f)

-----------------------------------------------------------------------------
(* The services                                                            *)

Worker(s, r) == exe[s][r].pc # "none"
At(s, r, pc) == exe[s][r].pc = pc
Goes(s, r, pc) == exe' = [exe EXCEPT ![s][r].pc = pc]
Fails(s, r, why) == exe' = [exe EXCEPT ![s][r].pc = "fail", ![s][r].why = why]
Leaves(s, r) == exe' = [exe EXCEPT ![s][r] = Idle]

\* tick: a request without an owner, or whose owner did not renew, is taken
\* by a free worker.  Observations have no worker.
MayServe(s, r) ==
    /\ req[r].st \in Open /\ req[r].act # "observe"
    /\ ~req[r].held

Serve(s, r) ==
    /\ s \notin stop /\ ~Worker(s, r) /\ MayServe(s, r)
    /\ Cardinality({q \in Requests : Worker(s, q)}) < Capacity
    /\ req' = [req EXCEPT ![r].owner = s, ![r].held = TRUE]
    /\ exe' = [exe EXCEPT ![s][r] = [Idle EXCEPT !.pc = "start"]]
    /\ UNCHANGED <<row, parent, late, call, stop, faults>>

\* The ownership of a request is renewed while its worker runs.
OwnershipLapses(r) ==
    /\ req[r].held
    /\ IF Worker(req[r].owner, r) THEN Fault ELSE NoFault
    /\ req' = [req EXCEPT ![r].held = FALSE]
    /\ UNCHANGED <<row, parent, late, call, exe, stop>>

\* What stops a worker before it admits or starts work, and the error it
\* gives.  The first reads of a worker look at the parent before the window.
Hindered(s, r) == ~Verified(Caller[r], req[r].fence) \/ late[r] # "no" \/ s \in stop

Hinder(s, r) ==
    /\ \E pc \in {"start", "admitted", "loop"} : At(s, r, pc)
    /\ \E why \in {"authority", "other"} :
        /\ \/ why = "authority" /\ ~Verified(Caller[r], req[r].fence)
           \/ why = "other" /\ s \in stop
           \/ why = "other" /\ late[r] # "no" /\ (At(s, r, "start") => Verified(Caller[r], req[r].fence))
        /\ exe' = [exe EXCEPT ![s][r].pc = "fail", ![s][r].why = why,
                              ![s][r].ours = @ \/ (req[r].act = "adopt" /\ Related(r))]
    /\ UNCHANGED <<row, parent, req, late, call, stop, faults>>

\* submit_child and adopt_child with _bind_child_limits: the parent is live,
\* the window is not over, and an execution keeps the parent it has.
Bindable(r, f) ==
    /\ row[Target[r]].st \in {"none", "queued"}
    /\ Parented(Target[r]) => parent[Target[r]] = ParentOf(r, f)

Admit(s, r) ==
    /\ At(s, r, "start") /\ req[r].act # "observe" /\ s \notin stop /\ late[r] = "no"
    /\ Entered(Caller[r], req[r].fence)
    /\ Bindable(r, req[r].fence)
    /\ parent' = [parent EXCEPT ![Target[r]] = ParentOf(r, req[r].fence)]
    /\ row' = [row EXCEPT ![Target[r]].st = "queued"]
    /\ \/ NoFault /\ exe' = [exe EXCEPT ![s][r].pc = "admitted", ![s][r].ours = TRUE]
       \/ Fault /\ Fails(s, r, "other")               \* the answer is lost
    /\ UNCHANGED <<req, late, call, stop>>

\* What was admitted before is found again, by whoever has its relationship;
\* an observation admits nothing.
Readmit(s, r) ==
    /\ At(s, r, "start") /\ ~Hindered(s, r)
    /\ ~Bindable(r, req[r].fence) \/ req[r].act = "observe"
    /\ IF Related(r) \/ req[r].act = "observe"
       THEN exe' = [exe EXCEPT ![s][r].pc = "admitted", ![s][r].ours = TRUE]
       ELSE Fails(s, r, "other")
    /\ UNCHANGED <<row, parent, req, late, call, stop, faults>>

MarkRunning(s, r) ==
    /\ At(s, r, "admitted")
    /\ req' = IF req[r].st = "pending" THEN [req EXCEPT ![r].st = "running"] ELSE req
    /\ Goes(s, r, "loop")
    /\ UNCHANGED <<row, parent, late, call, stop, faults>>

\* One turn of the loop: what the Kernel says of the target.
Look(s, r) ==
    /\ At(s, r, "loop") /\ ~Hindered(s, r)
    /\ LET st == row[Target[r]].st IN
       \/ /\ st \in Ended
          /\ exe' = [exe EXCEPT ![s][r].pc = "finish", ![s][r].why = "result", ![s][r].res = st,
                                ![s][r].to = IF st = "succeeded" THEN "completed" ELSE "failed"]
       \/ /\ st = "parked"
          /\ exe' = [exe EXCEPT ![s][r].pc = "finish", ![s][r].why = "result", ![s][r].to = "unknown"]
       \/ st = "queued" /\ req[r].act # "observe" /\ Goes(s, r, "claim")
    /\ UNCHANGED <<row, parent, req, late, call, stop, faults>>

\* run_once(execution_id): the claim checks the parent in its transaction.
ClaimChild(s, r) ==
    /\ At(s, r, "claim")
    /\ LET t == Target[r] IN
       \/ /\ row[t].st = "queued" /\ MayStart(t)
          /\ row' = Started(t)
          /\ exe' = [exe EXCEPT ![s][r].pc = "invoke", ![s][r].fence = row[t].fence + 1]
       \/ row[t].st = "queued" /\ ~MayStart(t) /\ Fails(s, r, "authority") /\ UNCHANGED row
       \/ row[t].st # "queued" /\ Goes(s, r, "loop") /\ UNCHANGED row
    /\ UNCHANGED <<parent, req, late, call, stop, faults>>

\* The child's handler is over; run_once completes it if it still may.
ChildEnds(s, r) ==
    /\ At(s, r, "invoke") /\ Quiet(Target[r], exe[s][r].fence)
    /\ IF Verified(Target[r], exe[s][r].fence)
       THEN \E st \in Outcomes(Target[r]) : row' = Settled(Target[r], st)
       ELSE UNCHANGED row
    /\ Goes(s, r, "loop")
    /\ UNCHANGED <<parent, req, late, call, stop, faults>>

\* _cancel_if_parent_revoked, for every worker that is still busy.
Monitor(s, r) ==
    /\ Worker(s, r) /\ s \notin stop
    /\ Revoked(Caller[r], req[r].fence) /\ Related(r)
    /\ row[Target[r]].st \in {"queued", "running"}
    /\ \E st \in Cancelled(Target[r]) : row' = Settled(Target[r], st)
    /\ UNCHANGED <<parent, req, late, call, exe, stop, faults>>

\* _retain_registration: the request stays for another turn of any service.
Released(r) == IF req[r].st \in Open THEN [req EXCEPT ![r].owner = None, ![r].held = FALSE] ELSE req

Retain(s, r) ==
    /\ \/ /\ At(s, r, "fail") /\ exe[s][r].why = "authority"
          /\ ~Revoked(Caller[r], req[r].fence) /\ NoFault
       \/ (At(s, r, "start") \/ At(s, r, "fail")) /\ Fault  \* the Kernel cannot be read, the child not be cancelled
    /\ req' = Released(r) /\ Leaves(s, r)
    /\ UNCHANGED <<row, parent, late, call, stop>>

\* Whether the child is this request's to cancel.
ToCancel_Mutant(s, r) == req[r].act \in {"run", "adopt"} /\ exe[s][r].ours
ToCancel(s, r) ==
    \/ req[r].act = "run"
    \/ req[r].act = "adopt" /\ (exe[s][r].ours \/ Related(r))

\* _cancel: a child that is over keeps its result.
CancelledResult(r) ==
    CASE row[Target[r]].st \in Ended -> row[Target[r]].st
      [] row[Target[r]].st \in {"queued", "running"} -> "failed"
      [] OTHER -> "none"

Stands(s, r) == At(s, r, "fail") /\ (exe[s][r].why = "authority" => Revoked(Caller[r], req[r].fence))
Lives(r) == row[Target[r]].st \in {"queued", "running"}

GiveUp(s, r) ==
    /\ Stands(s, r)
    /\ LET res == IF ToCancel(s, r) THEN CancelledResult(r) ELSE "none" IN
       /\ row' = IF ToCancel(s, r) /\ Lives(r) THEN Settled(Target[r], "failed") ELSE row
       /\ exe' = [exe EXCEPT ![s][r].pc = "finish", ![s][r].res = res,
                             ![s][r].to = IF res = "succeeded" THEN "completed" ELSE "failed"]
    /\ UNCHANGED <<parent, req, late, call, stop, faults>>

CancelParks(s, r) ==
    /\ Stands(s, r) /\ ToCancel(s, r) /\ "parked" \in Cancelled(Target[r])
    /\ row' = Settled(Target[r], "parked")
    /\ req' = Released(r) /\ Leaves(s, r)
    /\ UNCHANGED <<parent, late, call, stop, faults>>

Finish(s, r) ==
    /\ At(s, r, "finish")
    /\ req' = Closed(r, exe[s][r].to, exe[s][r].res)
    /\ Leaves(s, r)
    /\ UNCHANGED <<row, parent, late, call, stop, faults>>

\* The journal refuses.  What the loop read is given up by the error path;
\* what that path has to say is lost with its worker.
FinishFails(s, r) ==
    /\ At(s, r, "finish") /\ Fault
    /\ IF exe[s][r].why = "result" THEN Fails(s, r, "other") ELSE Leaves(s, r)
    /\ UNCHANGED <<row, parent, req, late, call, stop>>

\* _observe_waits, by the coordinator of a service
Observe(s, r) ==
    /\ s \notin stop /\ req[r].st \in Open /\ req[r].act = "observe"
    /\ LET st == row[Target[r]].st IN
       req' = CASE ~Verified(Caller[r], req[r].fence) -> Closed(r, "failed", "none")
                [] st \in Ended -> Closed(r, IF st = "succeeded" THEN "completed" ELSE "failed", st)
                [] st = "parked" -> Closed(r, "unknown", "none")
                [] late[r] # "no" -> Closed(r, "failed", "none")
                [] OTHER -> req
    /\ req' # req
    /\ UNCHANGED <<row, parent, late, call, exe, stop, faults>>

Stop(s) ==
    /\ s \notin stop /\ Fault
    /\ stop' = stop \cup {s}
    /\ UNCHANGED <<row, parent, req, late, call, exe>>

\* A service that has closed, or died with its handlers, is followed by another.
Reopen(s) ==
    /\ s \in stop /\ \A r \in Requests : ~Worker(s, r)
    /\ stop' = stop \ {s}
    /\ UNCHANGED <<row, parent, req, late, call, exe, faults>>

DiesWith(s, r, f) == \E q \in Requests : At(s, q, "invoke") /\ Target[q] = Caller[r] /\ exe[s][q].fence = f

Crash(s) ==
    /\ Fault /\ \E r \in Requests : Worker(s, r)
    /\ exe' = [exe EXCEPT ![s] = [r \in Requests |-> Idle]]
    /\ call' = [r \in Requests |-> [f \in Fences |-> IF DiesWith(s, r, f) THEN "error" ELSE call[r][f]]]
    /\ stop' = stop \ {s}
    /\ UNCHANGED <<row, parent, req, late>>

Work(s, r) ==
    \/ Serve(s, r) \/ Hinder(s, r) \/ Admit(s, r) \/ Readmit(s, r)
    \/ MarkRunning(s, r) \/ Look(s, r) \/ ClaimChild(s, r) \/ ChildEnds(s, r) \/ Monitor(s, r)
    \/ Retain(s, r) \/ GiveUp(s, r) \/ CancelParks(s, r) \/ Finish(s, r) \/ FinishFails(s, r) \/ Observe(s, r)

Next ==
    \/ \E e \in Execs :
        \/ ClaimAny(e) \/ ConfirmEntry(e) \/ HandlerEnds(e)
        \/ LeaseRunsOut(e) \/ Reap(e) \/ OperatorCancels(e)
    \/ \E r \in Requests : WindowEnds(r) \/ OwnershipLapses(r) \/ \E f \in Fences : HandlerCalls(r, f)
    \/ \E s \in Services : Stop(s) \/ Reopen(s) \/ Crash(s) \/ \E r \in Requests : Work(s, r)

Spec == Init /\ [][Next]_vars

-----------------------------------------------------------------------------
(* Correctness properties                                                  *)

ClosedStates == {"completed", "failed", "cancelled", "unknown"}

\* What the callers, their later attempts and the late readers of a committed
\* result are told of a request is one answer: the result the Kernel has, or
\* none (the error path keeps the result it finds; read_completed_result
\* passes by a request whose response is not written yet).
AnswersAgree == \A r \in Requests :
    /\ req[r].res # "none" => req[r].res = row[Target[r]].st
    /\ \A f \in Fences : call[r][f] \in Ended =>
        /\ call[r][f] = row[Target[r]].st
        /\ req[r].fence = f /\ req[r].st \in ClosedStates => req[r].res = call[r][f]

\* A handler never gets, as its own child, a target whose Kernel row belongs
\* to another parent or to another attempt: there is one request for every
\* relationship, and a service restart or two services do not make another.
OneOwner ==
    /\ \A e \in Execs : Parented(e) =>
        \E r \in Requests :
            /\ Target[r] = e /\ req[r].act \in {"run", "adopt"}
            /\ <<parent[e].exec, parent[e].fence>> = <<Caller[r], req[r].fence>>
    /\ \A r, q \in Requests :
        r # q /\ Target[r] = Target[q] => ~({req[r].act, req[q].act} \subseteq {"run", "adopt"})

\* Open waits have no cycle, also through several handlers that ask at the
\* same time: nobody waits for himself (_cycle).
WaitsAcyclic == \A e \in Execs : ~TransitiveClosure(Waits, Execs)[e, e]

\* Calls between handlers: one answer, one owner, no cycle of waits.
CallsSafe ==
    /\ TypeOK
    /\ AnswersAgree
    /\ OneOwner
    /\ WaitsAcyclic

\* A child starts under the live, entered attempt it belongs to and no other,
\* though its worker looked at the parent in an earlier transaction.
StartsUnderParentStep ==
    \A e \in Execs :
    row[e].st # "running" /\ row'[e].st = "running" /\ Parented(e)
    => Entered(parent[e].exec, parent[e].fence)

StartsUnderParent == [][StartsUnderParentStep]_vars

\* "Absence of the child does not prove that the original owner can no longer
\* submit it" (_execute): a request that is given up because its child is not
\* there stays without one, when another service had the request before.
AbsentStaysAbsent == \A r \in Requests :
    req[r].act = "run" /\ req[r].st = "failed" /\ req[r].res = "none"
        => row[Target[r]].st \in {"none", "parked"}

-----------------------------------------------------------------------------
(* Liveness: the threads of the services and the handlers run, ...          *)

Fairness ==
    /\ \A e \in Execs : WF_vars(ClaimAny(e)) /\ WF_vars(ConfirmEntry(e)) /\ WF_vars(HandlerEnds(e)) /\ WF_vars(Reap(e))
    /\ \A r \in Requests :
        /\ WF_vars(WindowEnds(r)) /\ WF_vars(NoFault /\ OwnershipLapses(r))
        /\ \A f \in Fences : WF_vars(HandlerCalls(r, f))
    /\ \A s \in Services : WF_vars(Reopen(s)) /\ \A r \in Requests : SF_vars(NoFault /\ Work(s, r))

LiveSpec == Spec /\ Fairness

\* ... and a request never stays open: its wait ends and its reservation is
\* given back, however many crashes, stalls and lost answers there were.
WaitsClose == \A r \in Requests : req[r].st \in Open ~> req[r].st \in ClosedStates

\* Nested calls cannot wait for a worker that waits for them: without any
\* deadline every call that got its reservation is answered (the capacity is
\* a reservation that is refused, observations have no worker).
CallsReturn == \A r \in Requests : \A f \in Fences :
    call[r][f] = "waiting" ~> call[r][f] \in Ended \cup {"error"}

\* The child of a revoked attempt does not run on, and is not left queued
\* for good, as long as its request is the services' to close.
StopsWith(r) == Parented(Target[r]) /\ Related(r) /\ Revoked(Caller[r], req[r].fence)
Stopped(r) == row[Target[r]].st \in Ended \cup {"parked"}
RevokedChildrenEnd == \A r \in Requests : StopsWith(r) ~> Stopped(r) \/ req[r].st = "cancelled"

\* "Preserve its capacity and recoverable registration until Kernel can
\* establish the child's outcome or stop it" (_execute): ... whoever closes
\* the request.  The caller's own second look at its lease (_enqueue) closes
\* it, as cancelled, while a service has admitted the child already.
EveryChildIsStopped == \A r \in Requests : StopsWith(r) ~> Stopped(r)
================================================================================
