---------------------------- MODULE RunDispatch ----------------------------
(***************************************************************************)
(* Work passing through the two gates of RunControl: the Orchestrator's    *)
(* pending dispatches and the permits they need (orchestrator/             *)
(* transport.py), the executions the Kernel registers, claims and settles  *)
(* for the Run, and the drain set that a pause lets through.  A flush is   *)
(* four steps of one thread - permit, Kernel call, permit receipt, outbox  *)
(* receipt - and may die, or fail, between any two.                        *)
(***************************************************************************)
EXTENDS RunControl

CONSTANT Execs   \* executions of the Run, one dispatch each

VARIABLES
    msg,     \* sdk_outbox: the dispatch of e
    mgen,    \* ... and its generation
    permit,  \* sdk_dispatch_permits
    drain,   \* drain_execution_ids of a pause's transition
    ex,      \* kernel_managed_executions and kernel_executions
    flush,   \* where the thread that delivers e is
    csent    \* the cancellation intent of e under a fence, and its projection

dvars == <<msg, mgen, permit, drain, ex, flush, csent>>
allvars == <<vars, dvars>>

NotRegistered == [st |-> "none", gen |-> 0, drain |-> FALSE]
Open == {"queued", "live"}

DispatchTypeOK ==
    /\ msg \in [Execs -> {"none", "pending", "delivered"}] /\ mgen \in [Execs -> Nat]
    /\ permit \in [Execs -> {"none", "in_flight", "unknown", "accepted"}]
    /\ drain \in [Ops -> SUBSET Execs]
    /\ ex \in [Execs -> [st : {"none", "queued", "live", "settled", "tombstone"}, gen : Nat, drain : BOOLEAN]]
    /\ flush \in [Execs -> {"idle", "calling", "registered", "delivered"}]
    /\ csent \in [Execs -> {"none", "pending", "cancelled"}]

\* The Run begins with some dispatches of generation 0 in its outbox.
DispatchInit ==
    /\ Init
    /\ msg \in [Execs -> {"none", "pending"}] /\ mgen = [e \in Execs |-> 0]
    /\ permit = [e \in Execs |-> "none"]
    /\ drain = [o \in Ops |-> {}]
    /\ ex = [e \in Execs |-> NotRegistered]
    /\ flush = [e \in Execs |-> "idle"]
    /\ csent = [e \in Execs |-> "none"]

-----------------------------------------------------------------------------
(* The drain set of a pause                                                *)

\* begin_cross_store_pause freezes the set the caller names.
BeginDrain(o) ==
    /\ BeginPause(o)
    /\ \E d \in SUBSET {e \in Execs : msg[e] # "none"} : drain' = [drain EXCEPT ![o] = d]
    /\ UNCHANGED <<msg, mgen, permit, ex, flush, csent>>

\* prepare_control_pause registers it: every member must be open right now.
Drainable(o) == {e \in Execs : ex[e].st \in Open /\ ex[e].gen = op[o].gen}

KRegisterDrain(o) ==
    /\ KPreparePause(o) /\ drain[o] \subseteq Drainable(o)
    /\ ex' = [e \in Execs |-> IF e \in drain[o] THEN [ex[e] EXCEPT !.drain = TRUE] ELSE ex[e]]
    /\ UNCHANGED <<msg, mgen, permit, drain, flush, csent>>

\* complete_control_pause closes the drain.
KCloseDrain(o) ==
    /\ KCompletePause(o)
    /\ ex' = [e \in Execs |-> IF e \in drain[o] THEN [ex[e] EXCEPT !.drain = FALSE] ELSE ex[e]]
    /\ UNCHANGED <<msg, mgen, permit, drain, flush, csent>>

\* prepare_cross_store_pause: no dispatch may be in flight or undecided.
ClassifyDispatches(o) ==
    /\ PreparePause(o)
    /\ \A e \in Execs : (permit[e] = "none" /\ msg[e] # "pending") \/ permit[e] = "accepted"
    /\ UNCHANGED dvars

-----------------------------------------------------------------------------
(* Orchestrator: dispatches and their permits                              *)

\* apply_managed_operations, for a completed resume whose lease is still held
\* and both gates open: a new dispatch of this generation.
ApplyManagedOperations(e) ==
    /\ msg[e] = "none" /\ oc.state = "active" /\ kc = oc
    /\ \E o \in Ops : Did(o, "resumed") /\ oc = Reopened(o) /\ HolderIs(<<"resume", o>>, lease)
    /\ msg' = [msg EXCEPT ![e] = "pending"] /\ mgen' = [mgen EXCEPT ![e] = oc.gen]
    /\ UNCHANGED <<vars, permit, drain, ex, flush, csent>>

\* The local gate as a dispatch sees it: open, or pausing with e in the drain set.
Permitted(e) ==
    /\ oc.gen = mgen[e]
    /\ \/ oc.state = "active"
       \/ \E o \in Ops : op[o].src >= 0 /\ oc = Pausing(o) /\ e \in drain[o]

\* _acquire_dispatch_permit, in the transaction that serialises with the gate:
\* a new permit goes to the Kernel, an accepted one fetches its receipt, any
\* other waits for reconcile_dispatch_permits.
AcquirePermit(e) ==
    /\ msg[e] = "pending" /\ flush[e] = "idle" /\ Permitted(e)
    /\ permit[e] \in {"none", "accepted"}
    /\ permit' = [permit EXCEPT ![e] = IF @ = "none" THEN "in_flight" ELSE @]
    /\ flush' = [flush EXCEPT ![e] = "calling"]
    /\ UNCHANGED <<vars, msg, mgen, drain, ex, csent>>

\* The Kernel call answered: _finish_dispatch_permit, "accepted".
AcceptPermit(e) ==
    /\ flush[e] = "registered"
    /\ permit' = [permit EXCEPT ![e] = "accepted"]
    /\ flush' = [flush EXCEPT ![e] = "delivered"]
    /\ UNCHANGED <<vars, msg, mgen, drain, ex, csent>>

\* It failed, or its answer was lost: "unknown", unless already accepted.
FailPermit(e) ==
    /\ flush[e] \in {"calling", "registered"}
    /\ permit' = [permit EXCEPT ![e] = IF @ = "accepted" THEN @ ELSE "unknown"]
    /\ flush' = [flush EXCEPT ![e] = "idle"]
    /\ UNCHANGED <<vars, msg, mgen, drain, ex, csent>>

\* flush, the outbox receipt.
Deliver(e) ==
    /\ flush[e] = "delivered"
    /\ msg' = [msg EXCEPT ![e] = "delivered"]
    /\ flush' = [flush EXCEPT ![e] = "idle"]
    /\ UNCHANGED <<vars, mgen, permit, drain, ex, csent>>

\* The delivering process dies.
Crash(e) ==
    /\ flush[e] # "idle" /\ flush' = [flush EXCEPT ![e] = "idle"]
    /\ UNCHANGED <<vars, msg, mgen, permit, drain, ex, csent>>

\* ... a cancelled row that was never accepted counts too
ReconcilePermit_Mutant(e) ==
    /\ permit[e] \in {"in_flight", "unknown"}
    /\ permit' = [permit EXCEPT ![e] = IF kc.state = "active" /\ ex[e].st = "none" THEN "unknown" ELSE "accepted"]
    /\ UNCHANGED <<vars, msg, mgen, drain, ex, flush, csent>>

\* reconcile_dispatch_permits: only the Kernel's exact acceptance counts.
ReconcilePermit(e) ==
    /\ permit[e] \in {"in_flight", "unknown"}
    /\ permit' = [permit EXCEPT ![e] = IF ex[e].st \in {"none", "tombstone"} THEN "unknown" ELSE "accepted"]
    /\ UNCHANGED <<vars, msg, mgen, drain, ex, flush, csent>>

-----------------------------------------------------------------------------
(* Kernel: admission                                                       *)

\* The host's proof of global admission: the Orchestrator's open receipt at the
\* Kernel's epoch, under the lease that holds the resume; while pausing, the
\* Orchestrator's own pause decision (docs/KERNEL_HOST_AUTHORITY.md).
HostAdmits ==
    /\ oc.state = "active" /\ oc.epoch = kc.epoch /\ oc.gen = kc.gen
    /\ \A o \in Ops : op[o].src >= 0 /\ kop[o].res # 0 /\ kc = Reopened(o) =>
          KHolder(<<"resume", o>>, kop[o].res) = lease

HostAdmitsDrain(e) == \E o \in Ops : op[o].src >= 0 /\ oc = Pausing(o) /\ kc = oc /\ e \in drain[o]

\* _check_run_authority, outside a drain
Authorised == ka = [gen |-> kc.gen, epoch |-> kc.epoch, ok |-> TRUE] /\ HostAdmits

\* _drain_barrier_allows: the only unresolved barrier is this pause's, and e is in it.
DrainAllows(e) ==
    /\ kc.state = "pausing" /\ ex[e].gen = kc.gen /\ ex[e].drain /\ ~CancelFenced
    /\ \A o \in Ops : Has(o, "barrier") /\ kop[o].res = 0 => kc = Pausing(o) /\ e \in drain[o]

\* flush's Kernel call: the receipt of an execution that is there, or
\* submit_managed, which registers a new one only through an open gate.
KSubmit(e) ==
    /\ flush[e] = "calling"
    /\ \/ ex[e].st # "none" /\ ex' = ex
       \/ /\ ex[e].st = "none" /\ permit[e] # "accepted"
          /\ kc.gen = mgen[e] /\ kc.state = "active" /\ Authorised
          /\ ex' = [ex EXCEPT ![e] = [st |-> "queued", gen |-> mgen[e], drain |-> FALSE]]
    /\ flush' = [flush EXCEPT ![e] = "registered"]
    /\ UNCHANGED <<vars, msg, mgen, permit, drain, csent>>

\* _charge_managed_claim and the checks at start.
KClaim(e) ==
    /\ ex[e].st = "queued"
    /\ \/ /\ kc.state = "active" /\ ex[e].gen = kc.gen /\ ~Unresolved /\ Authorised
       \/ /\ DrainAllows(e) /\ HostAdmitsDrain(e)
          /\ ka = [gen |-> kc.gen, epoch |-> kc.epoch - 1, ok |-> TRUE]
    /\ ex' = [ex EXCEPT ![e].st = "live"]
    /\ UNCHANGED <<vars, msg, mgen, permit, drain, flush, csent>>

\* Settlement of admitted work, and cancellation of queued work, pass any gate.
KSettle(e) ==
    /\ ex[e].st \in Open
    /\ ex' = [ex EXCEPT ![e].st = "settled"]
    /\ UNCHANGED <<vars, msg, mgen, permit, drain, flush, csent>>

\* The fence of a cancellation both stores have recorded, and their gates still at it.
AtFence(e) == \E c \in Cancels :
    cf[c].done /\ oc = Gate("paused", kfence[c], cf[c].gen) /\ mgen[e] = cf[c].gen

\* apply_fenced_cancellation: the Run's decision and its cancellation intent.
ApplyCancellation(e) ==
    /\ AtFence(e) /\ kc = oc /\ msg[e] # "none" /\ csent[e] = "none"
    /\ csent' = [csent EXCEPT ![e] = "pending"]
    /\ UNCHANGED <<vars, msg, mgen, permit, drain, ex, flush>>

\* cancel_fenced_before_accept: an execution the Kernel never accepted gets a
\* cancelled row in its place, under the current fence.
KTombstone(e) ==
    /\ csent[e] = "pending" /\ AtFence(e)
    /\ kc = oc /\ ex[e].st = "none"
    /\ ex' = [ex EXCEPT ![e] = [st |-> "tombstone", gen |-> mgen[e], drain |-> FALSE]]
    /\ UNCHANGED <<vars, msg, mgen, permit, drain, flush, csent>>

\* reconcile_fenced_cancellation: the attempt is cancelled on the Kernel's receipt.
ReconcileCancellation(e) ==
    /\ csent[e] = "pending" /\ AtFence(e) /\ ex[e].st = "tombstone"
    /\ csent' = [csent EXCEPT ![e] = "cancelled"]
    /\ UNCHANGED <<vars, msg, mgen, permit, drain, ex, flush>>

-----------------------------------------------------------------------------
Gates_(o) ==
    \/ (BeginAdopted(o) \/ KCapture(o) \/ SeePaused(o) \/ FinalizePause(o)
        \/ \E what \in {"barrier", "paused", "captured"} : RecordPause(o, what)) /\ UNCHANGED dvars
    \/ BeginDrain(o) \/ KRegisterDrain(o) \/ KCloseDrain(o) \/ ClassifyDispatches(o)
    \/ (Revise(o) \/ Reopen(o)) /\ UNCHANGED dvars

Work(e) ==
    \/ ApplyManagedOperations(e) \/ AcquirePermit(e) \/ AcceptPermit(e) \/ FailPermit(e) \/ Deliver(e)
    \/ Crash(e) \/ ReconcilePermit(e) \/ KSubmit(e) \/ KClaim(e) \/ KSettle(e)
    \/ ApplyCancellation(e) \/ KTombstone(e) \/ ReconcileCancellation(e)

DispatchNext ==
    \/ \E o \in Ops : Gates_(o)
    \/ \E p \in Phases \X Ops : TakeOver(p) /\ UNCHANGED dvars
    \/ \E c \in Cancels : Cancel(c) /\ UNCHANGED dvars
    \/ NewLease /\ UNCHANGED dvars
    \/ \E e \in Execs : Work(e)

DispatchSpec == DispatchInit /\ [][DispatchNext]_allvars

-----------------------------------------------------------------------------
\* Between a prepared pause and the commit of its resume.
Suspended == \E o \in Ops : Did(o, "prepared") /\ ~Did(o, "resumed")

\* While a Run is suspended - prepared, revised, activated, even resumed in
\* the Kernel alone - nothing of it is registered and nothing starts, however
\* late a flush or a claim arrives (managed.py:351, KERNEL_HOST_AUTHORITY.md).
QuietWhileSuspendedStep ==
    Suspended => \A e \in Execs :
       /\ ex[e].st = "none" => ex'[e].st \in {"none", "tombstone"}
       /\ ex[e].st # "live" => ex'[e].st # "live"

QuietWhileSuspended == [][QuietWhileSuspendedStep]_allvars

\* A prepared pause has accounted for all work: every dispatch the Kernel has
\* registered, or may still be called with, is one whose acceptance is recorded.
PreparedKnowsAll ==
    Suspended => \A e \in Execs :
        /\ ex[e].st \in Open \cup {"settled"} => permit[e] = "accepted"
        /\ flush[e] # "idle" => permit[e] = "accepted"

\* A permit is recorded as accepted only on the Kernel's word: it holds that
\* execution in that very generation - registered, or put there by a finished
\* cancellation - and a dispatch counts as delivered only then.
AcceptedIsRegistered ==
    \A e \in Execs :
        /\ permit[e] = "accepted" =>
              /\ ex[e].st # "none" /\ ex[e].gen = mgen[e]
              /\ ex[e].st = "tombstone" => CancelFenced
        /\ msg[e] = "delivered" => permit[e] = "accepted"

\* "cancelled execution does not prove dispatch acceptance" (transport.py:108):
\* a permit is not accepted on the row that stands for an execution which was
\* cancelled before the Kernel ever accepted it.
TombstoneIsNotAcceptance == \A e \in Execs : permit[e] = "accepted" => ex[e].st # "tombstone"

\* Work starts only in its own generation and only through the local gate as
\* well: open at the Kernel's epoch, or pausing with the execution in the drain
\* set of that pause, and never once the Kernel is fenced by a cancellation.
StartsAreAdmittedStep ==
    \A e \in Execs : ex[e].st # "live" /\ ex'[e].st = "live" =>
       /\ ~CancelFenced /\ ex[e].gen = oc.gen /\ oc = kc
       /\ \/ oc.state = "active"
          \/ \E o \in Ops : op[o].src >= 0 /\ oc = Pausing(o) /\ e \in drain[o]

StartsAreAdmitted == [][StartsAreAdmittedStep]_allvars

\* The drain admission ends with the local pause: no execution carries it
\* beyond, so none can pass the barrier of the next pause.
DrainEnds == (\E e \in Execs : ex[e].drain) => kc.state = "pausing" \/ CancelFenced

\* The dispatches of a Run, under its two gates: the permits, the drain set and the
\* executions the Kernel has.
DispatchesAgree ==
    /\ DispatchTypeOK
    /\ AcceptedIsRegistered
    /\ PreparedKnowsAll
    /\ DrainEnds

\* What no step may do to them.
DispatchSteps ==
    /\ QuietWhileSuspendedStep
    /\ StartsAreAdmittedStep

-----------------------------------------------------------------------------
\* The retries of a pause, and of the permits it waits for.
DispatchFairness ==
    \A o \in Ops :
        /\ WF_allvars(KRegisterDrain(o)) /\ WF_allvars(KCloseDrain(o))
        /\ \A what \in {"barrier", "paused", "captured"} : WF_allvars(RecordPause(o, what) /\ UNCHANGED dvars)

DispatchLiveSpec == DispatchSpec /\ DispatchFairness

\* "Only the Orchestrator's dispatch barrier is closed: continue closing the
\* Kernel's barrier" (docs/SDK_0_7_2_IMPROVEMENT_STRATEGY.md:77).
KernelBarrierFollows ==
    \A o \in Ops : op[o].src >= 0 ~> Has(o, "barrier") \/ CancelFenced
=============================================================================
