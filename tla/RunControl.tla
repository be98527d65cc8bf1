----------------------------- MODULE RunControl -----------------------------
(***************************************************************************)
(* The control gates of one Run whose tasks the Orchestrator database      *)
(* keeps and whose executions the Kernel database keeps                    *)
(* (orchestrator/managed.py, execution_kernel/_sqlite_execution.py and     *)
(* control_takeover.py).  Each store has its own gate - a state, an epoch  *)
(* and a generation - and no transaction spans the two, so every step of   *)
(* a pause, a revision, a resume, a lease takeover or a cancellation is a  *)
(* transaction at one participant, then one that records its receipt at    *)
(* the other.  A call of the coordinator does both; a call that crashed,   *)
(* or was slow, did the first and leaves the second to a retry.            *)
(*                                                                         *)
(* One pause operation o carries the whole cycle: its id is also the       *)
(* revision decision's, and it has one activation and one resume.  From    *)
(* source epoch e the gates go                                             *)
(*     active e, pausing e+1, paused e+2, installed e+3 (next generation), *)
(*     active e+4.                                                         *)
(* seen holds what some call has read or checked in a transaction before   *)
(* the one that uses it: it only grows, so a caller may be as slow as it   *)
(* likes.  A call that carries the host's exclusive lease must still hold  *)
(* it at each later transaction (check_control_lease).                     *)
(***************************************************************************)
EXTENDS Integers, FiniteSets, FiniteSetsExt

CONSTANTS
    Ops,       \* pause operations of the Run
    Cancels,   \* cancellation operations of the Run
    MaxLease,  \* bound: how many leases the host hands out
    Started    \* the Run's first gate: "adopted" (paused) or "active"

ControlAssumption == /\ IsFiniteSet(Ops) /\ IsFiniteSet(Cancels)
                            /\ MaxLease \in Nat \ {0}
                            /\ Started \in {"adopted", "active"}

Leases == 1 .. MaxLease
Phases == {"activation", "resume"}
Gates == [state : {"active", "pausing", "paused"}, epoch : Nat, gen : Nat]
Gate(state, epoch, gen) == [state |-> state, epoch |-> epoch, gen |-> gen]

\* What the Orchestrator has recorded of an operation, in sdk_control_operations,
\* sdk_revision_decisions, sdk_revision_budget_policies, sdk_revision_activations
\* and sdk_revision_resumes.
Records == {"barrier", "paused", "captured", "prepared", "finalized", "decided",
            "kernel installed", "installed", "budget", "activated", "resumed"}
NoOp == [src |-> -1, gen |-> 0, did |-> {}, act |-> 0, res |-> 0]

\* Receipts the Kernel keeps of it; act and res are the leases they were issued under.
Receipts == {"barrier", "paused", "captured", "installed", "budget"}
NoReceipt == [has |-> {}, act |-> 0, res |-> 0]

NoClaim == [new |-> 0, prev |-> 0, had |-> FALSE]
NoRow == [gen |-> -1, epoch |-> 0, done |-> FALSE]

VARIABLES
    \* Kernel store
    kc,      \* kernel_run_controls
    ka,      \* kernel_run_authorities: generation, epoch, unrevoked
    kop,     \* receipts of each operation
    kfence,  \* cancellation fences: epoch each was placed at, -1 for none
    ktaken,  \* leases each activation and resume was handed to (kernel_control_takeovers)
    \* Orchestrator store
    oc,      \* sdk_managed_runs
    op,      \* records of each operation
    otaken,  \* acknowledged takeovers (sdk_control_lease_takeovers)
    claim,   \* the takeover claimed and neither acknowledged nor resolved
    cf,      \* sdk_cancellation_fences
    \* callers and host
    seen,
    lease    \* the exclusive control lease's current fence

kvars == <<kc, ka, kop, kfence, ktaken>>
ovars == <<oc, op, otaken, claim, cf>>
vars == <<kvars, ovars, seen, lease>>

TypeOK ==
    /\ kc \in Gates /\ oc \in Gates
    /\ ka \in [gen : Nat, epoch : Nat, ok : BOOLEAN]
    /\ kop \in [Ops -> [has : SUBSET Receipts, act : 0 .. MaxLease, res : 0 .. MaxLease]]
    /\ kfence \in [Cancels -> Nat \cup {-1}]
    /\ ktaken \in [Phases \X Ops -> SUBSET Leases]
    /\ op \in [Ops -> [src : Nat \cup {-1}, gen : Nat, did : SUBSET Records,
                       act : 0 .. MaxLease, res : 0 .. MaxLease]]
    /\ otaken \in [Phases \X Ops -> SUBSET Leases]
    /\ claim \in [Phases \X Ops -> [new : 0 .. MaxLease, prev : 0 .. MaxLease, had : BOOLEAN]]
    /\ cf \in [Cancels -> [gen : Nat \cup {-1}, epoch : Nat, done : BOOLEAN]]
    /\ lease \in Leases

FirstGate == IF Started = "active" THEN Gate("active", 1, 0) ELSE Gate("paused", 0, 0)

Init ==
    /\ kc = FirstGate /\ oc = FirstGate
    /\ ka = [gen |-> 0, epoch |-> FirstGate.epoch, ok |-> TRUE]
    /\ kop = [o \in Ops |-> NoReceipt]
    /\ kfence = [c \in Cancels |-> -1]
    /\ ktaken = [p \in Phases \X Ops |-> {}]
    /\ op = [o \in Ops |-> NoOp]
    /\ otaken = [p \in Phases \X Ops |-> {}]
    /\ claim = [p \in Phases \X Ops |-> NoClaim]
    /\ cf = [c \in Cancels |-> NoRow]
    /\ seen = {}
    /\ lease = 1

-----------------------------------------------------------------------------
(* The gates of one cycle                                                  *)

Pausing(o) == Gate("pausing", op[o].src + 1, op[o].gen)
Paused(o) == Gate("paused", op[o].src + 2, op[o].gen)
Installed(o) == Gate("paused", op[o].src + 3, op[o].gen + 1)
Reopened(o) == Gate("active", op[o].src + 4, op[o].gen + 1)

Did(o, what) == what \in op[o].did
Has(o, what) == what \in kop[o].has
Record(o, what) == op' = [op EXCEPT ![o].did = @ \cup {what}]
Receipt(o, what) == kop' = [kop EXCEPT ![o].has = @ \cup {what}]

Saw(what, o) == <<what, o>> \in seen
See(what, o) == seen' = seen \cup {<<what, o>>}
\* ... by a caller that still holds the lease it had then
Held(what, o) == <<what, o, lease>> \in seen
Hold(what, o) == seen' = seen \cup {<<what, o, lease>>}

CancelFenced == \E c \in Cancels : kfence[c] # -1
CancelRows(gen) == {c \in Cancels : cf[c].gen = gen}

\* _has_unresolved_control_barrier: pause barriers end with their resume,
\* cancellation fences never.
Unresolved == CancelFenced \/ \E o \in Ops : Has(o, "barrier") /\ kop[o].res = 0

-----------------------------------------------------------------------------
(* Pause                                                                   *)

\* begin_adopted_cross_store_pause: close an adopted Run that was never open.
BeginAdopted(o) ==
    /\ op[o] = NoOp /\ oc = Gate("paused", 0, 0)
    /\ op' = [op EXCEPT ![o].src = 0]
    /\ oc' = Gate("pausing", 1, 0)
    /\ UNCHANGED <<kvars, otaken, claim, cf, seen, lease>>

\* begin_cross_store_pause closes the local gate.
BeginPause(o) ==
    /\ op[o] = NoOp /\ oc.state = "active"
    /\ op' = [op EXCEPT ![o].src = oc.epoch, ![o].gen = oc.gen]
    /\ oc' = Gate("pausing", oc.epoch + 1, oc.gen)
    /\ UNCHANGED <<kvars, otaken, claim, cf, seen, lease>>

\* prepare_control_pause: the Kernel's barrier.
KPreparePause(o) ==
    /\ op[o].src >= 0 /\ ~Has(o, "barrier") /\ ~Unresolved
    /\ kc = Gate(IF op[o].src = 0 THEN "paused" ELSE "active", op[o].src, op[o].gen)
    /\ kc' = Pausing(o) /\ Receipt(o, "barrier")
    /\ UNCHANGED <<ka, kfence, ktaken, ovars, seen, lease>>

\* complete_control_pause
KCompletePause(o) ==
    /\ Did(o, "barrier") /\ Has(o, "barrier") /\ ~Has(o, "paused")
    /\ kc = Pausing(o)
    /\ kc' = Paused(o) /\ Receipt(o, "paused")
    /\ UNCHANGED <<ka, kfence, ktaken, ovars, seen, lease>>

\* capture_control_pause_page, all pages of one round.
KCapture(o) ==
    /\ Did(o, "paused") /\ ~Has(o, "captured")
    /\ kc.state \in {"pausing", "paused"} /\ kc.gen = op[o].gen
    /\ Receipt(o, "captured")
    /\ UNCHANGED <<kc, ka, kfence, ktaken, ovars, seen, lease>>

\* advance_cross_store_pause, complete_cross_store_pause_participant and
\* capture_cross_store_pause_page record what the Kernel returned.
RecordPause(o, what) ==
    /\ Has(o, what) /\ ~Did(o, what)
    /\ what = "captured" => Did(o, "paused")
    /\ Record(o, what)
    /\ UNCHANGED <<kvars, oc, otaken, claim, cf, seen, lease>>

\* prepare, finalize and commit_cross_store_revision read the Kernel's gate
\* before their transaction.
SeePaused(o) ==
    /\ op[o].src >= 0 /\ kc = Paused(o) /\ See("paused", o)
    /\ UNCHANGED <<kvars, ovars, lease>>

\* prepare_cross_store_pause
PreparePause(o) ==
    /\ Saw("paused", o) /\ {"barrier", "paused", "captured"} \subseteq op[o].did /\ ~Did(o, "prepared")
    /\ oc = Pausing(o)
    /\ Record(o, "prepared")
    /\ UNCHANGED <<kvars, oc, otaken, claim, cf, seen, lease>>

\* finalize_cross_store_pause
FinalizePause(o) ==
    /\ Saw("paused", o) /\ Did(o, "prepared") /\ ~Did(o, "finalized")
    /\ oc = Pausing(o)
    /\ oc' = Paused(o) /\ Record(o, "finalized")
    /\ UNCHANGED <<kvars, otaken, claim, cf, seen, lease>>

-----------------------------------------------------------------------------
(* Revision                                                                *)

\* commit_cross_store_revision
CommitRevision(o) ==
    /\ Saw("paused", o) /\ {"prepared", "finalized"} \subseteq op[o].did /\ ~Did(o, "decided")
    /\ oc = Paused(o)
    /\ Record(o, "decided")
    /\ UNCHANGED <<kvars, oc, otaken, claim, cf, seen, lease>>

\* ... on the strength of the prepared pause alone
OrderInstall_Mutant(o) ==
    /\ Did(o, "finalized") /\ oc = Paused(o)
    /\ See("install", o)
    /\ UNCHANGED <<kvars, ovars, lease>>

\* install_cross_store_revision, before the Kernel call.
OrderInstall(o) ==
    /\ Did(o, "decided") /\ Did(o, "finalized") /\ oc = Paused(o)
    /\ See("install", o)
    /\ UNCHANGED <<kvars, ovars, lease>>

\* install_revision_decision: the next generation, still closed.
KInstall(o) ==
    /\ Saw("install", o) /\ ~Has(o, "installed") /\ {"paused", "captured"} \subseteq kop[o].has
    /\ kc = Paused(o) /\ ka = [gen |-> op[o].gen, epoch |-> op[o].src, ok |-> TRUE]
    /\ kc' = Installed(o)
    /\ ka' = [ka EXCEPT !.gen = @ + 1, !.epoch = op[o].src + 3]
    /\ Receipt(o, "installed")
    /\ UNCHANGED <<kfence, ktaken, ovars, seen, lease>>

\* install_cross_store_revision, after it.
RecordInstall(o) ==
    /\ Has(o, "installed") /\ ~Did(o, "kernel installed") /\ oc = Paused(o)
    /\ Record(o, "kernel installed")
    /\ UNCHANGED <<kvars, oc, otaken, claim, cf, seen, lease>>

\* install_cross_store_projection observes the installed gate and authority.
SeeInstalled(o) ==
    /\ Did(o, "kernel installed") /\ kc = Installed(o)
    /\ ka = [gen |-> kc.gen, epoch |-> kc.epoch, ok |-> TRUE]
    /\ See("installed", o)
    /\ UNCHANGED <<kvars, ovars, lease>>

InstallProjection(o) ==
    /\ Saw("installed", o) /\ ~Did(o, "installed") /\ oc = Paused(o)
    /\ oc' = Installed(o) /\ Record(o, "installed")
    /\ UNCHANGED <<kvars, otaken, claim, cf, seen, lease>>

\* install_cross_store_budget_policy, before and after the Kernel call.
OrderBudget(o) ==
    /\ Did(o, "installed") /\ oc = Installed(o) /\ Hold("budget", o)
    /\ UNCHANGED <<kvars, ovars, lease>>

KInstallBudget(o) ==
    /\ \E l \in Leases : <<"budget", o, l>> \in seen
    /\ ~Has(o, "budget") /\ kc.state = "paused" /\ kc.gen = op[o].gen + 1
    /\ Receipt(o, "budget")
    /\ UNCHANGED <<kc, ka, kfence, ktaken, ovars, seen, lease>>

RecordBudget(o) ==
    /\ Held("budget", o) /\ Has(o, "budget") /\ ~Did(o, "budget") /\ oc = Installed(o)
    /\ Record(o, "budget")
    /\ UNCHANGED <<kvars, oc, otaken, claim, cf, seen, lease>>

-----------------------------------------------------------------------------
(* Activation and resume, under the host's exclusive lease                 *)

Original(p) == IF p[1] = "activation" THEN op[p[2]].act ELSE op[p[2]].res

\* _effective_orchestrator_control_lease; raises while a takeover is unacknowledged.
Holder(p) == IF otaken[p] = {} THEN Original(p) ELSE Max(otaken[p])
HolderIs(p, l) == claim[p] = NoClaim /\ Holder(p) = l

\* _effective_takeover_binding
KHolder(p, original) == IF ktaken[p] = {} THEN original ELSE Max(ktaken[p])

\* activate_cross_store_revision, up to the Kernel call.
OrderActivation(o) ==
    /\ Did(o, "installed") /\ oc = Installed(o)
    /\ \/ op[o].act = 0 /\ op' = [op EXCEPT ![o].act = lease]
       \/ op[o].act # 0 /\ HolderIs(<<"activation", o>>, lease) /\ op' = op
    /\ Hold("activate", o)
    /\ UNCHANGED <<kvars, oc, otaken, claim, cf, lease>>

\* activate_revision
KActivate(o, l) ==
    /\ <<"activate", o, l>> \in seen
    /\ kc = Installed(o) /\ ka = [gen |-> kc.gen, epoch |-> kc.epoch, ok |-> TRUE] /\ ~CancelFenced
    /\ KHolder(<<"activation", o>>, l) = l
    /\ kop[o].act = 0
    /\ kop' = [kop EXCEPT ![o].act = l]
    /\ UNCHANGED <<kc, ka, kfence, ktaken, ovars, seen, lease>>

\* activate_cross_store_revision, after the Kernel call; the receipt was
\* issued under the original lease or one the operation was handed to.
RecordActivation(o) ==
    /\ Held("activate", o) /\ kop[o].act # 0 /\ ~Did(o, "activated") /\ oc = Installed(o)
    /\ kop[o].act \in {op[o].act} \cup otaken[<<"activation", o>>]
    /\ HolderIs(<<"activation", o>>, lease) /\ KHolder(<<"activation", o>>, kop[o].act) = lease
    /\ Record(o, "activated")
    /\ UNCHANGED <<kvars, oc, otaken, claim, cf, seen, lease>>

\* resume_cross_store_revision: the durable intent ...
OrderResume(o) ==
    /\ {"activated", "budget"} \subseteq op[o].did /\ oc = Installed(o)
    /\ \/ op[o].res = 0 /\ op' = [op EXCEPT ![o].res = lease]
       \/ op[o].res # 0 /\ HolderIs(<<"resume", o>>, lease) /\ op' = op
    /\ Hold("intent", o)
    /\ UNCHANGED <<kvars, oc, otaken, claim, cf, lease>>

\* ... the check for a cancellation ...
CheckResume(o) ==
    /\ Held("intent", o) /\ CancelRows(op[o].gen + 1) = {}
    /\ Hold("resume", o)
    /\ UNCHANGED <<kvars, ovars, lease>>

\* ... resume_revision opens the Kernel's gate ...
KResume(o, l) ==
    /\ <<"resume", o, l>> \in seen
    /\ kop[o].res = 0 /\ kop[o].act # 0 /\ {"installed", "paused", "budget"} \subseteq kop[o].has
    /\ KHolder(<<"resume", o>>, l) = l
    /\ KHolder(<<"activation", o>>, kop[o].act) = IF ktaken[<<"resume", o>>] = {} THEN l ELSE op[o].res
    /\ ~CancelFenced
    /\ kc = Installed(o) /\ ka = [gen |-> kc.gen, epoch |-> kc.epoch, ok |-> TRUE]
    /\ kc' = Reopened(o) /\ ka' = [ka EXCEPT !.epoch = op[o].src + 4]
    /\ kop' = [kop EXCEPT ![o].res = l]
    /\ UNCHANGED <<kfence, ktaken, ovars, seen, lease>>

\* ... and the local commit reopens the local gate last.
CommitResume(o) ==
    /\ Held("resume", o) /\ kop[o].res # 0 /\ ~Did(o, "resumed")
    /\ CancelRows(op[o].gen + 1) = {}
    /\ kop[o].res \in {op[o].res} \cup otaken[<<"resume", o>>]
    /\ HolderIs(<<"resume", o>>, lease) /\ KHolder(<<"resume", o>>, kop[o].res) = lease
    /\ kc = Reopened(o) /\ oc = Installed(o)
    /\ oc' = Reopened(o) /\ Record(o, "resumed")
    /\ UNCHANGED <<kvars, otaken, claim, cf, seen, lease>>

-----------------------------------------------------------------------------
(* Takeover of a partial activation or resume by the holder of a new lease *)

\* Host: the old lease ended; its holder is excluded before the next starts.
NewLease ==
    /\ lease < MaxLease /\ lease' = lease + 1
    /\ UNCHANGED <<kvars, ovars, seen>>

\* takeover_cross_store_control_lease reads the same facts in each transaction.
MayTakeOver(p) ==
    /\ Original(p) # 0 /\ oc = Installed(p[2])
    /\ p[1] = "resume" => Did(p[2], "budget") /\ ~Did(p[2], "resumed")
    /\ \A c \in Cancels : cf[c] = NoRow

KReceiptLease(p) == IF p[1] = "activation" THEN kop[p[2]].act ELSE kop[p[2]].res

\* The durable claim, with the participant's receipt as it was inspected.
ClaimTakeover(p) ==
    /\ MayTakeOver(p) /\ claim[p] = NoClaim /\ lease > Holder(p)
    /\ KReceiptLease(p) \in {0, Original(p)} \cup otaken[p]
    /\ claim' = [claim EXCEPT ![p] = [new |-> lease, prev |-> Holder(p), had |-> KReceiptLease(p) # 0]]
    /\ UNCHANGED <<kvars, oc, op, otaken, cf, seen, lease>>

\* Kernel takeover_control_lease, by the claim's holder.
KTakeOver(p) ==
    LET o == p[2]
        resumed == p[1] = "resume" /\ kop[o].res # 0 IN
    /\ claim[p].new = lease /\ lease \notin ktaken[p]
    /\ Has(o, "installed") /\ ka.gen = op[o].gen + 1 /\ ka.ok /\ ~CancelFenced
    /\ \A q \in Ops \ {o} : Has(q, "barrier") => kop[q].res # 0
    /\ \/ (KReceiptLease(p) # 0) = claim[p].had
       \/ ~claim[p].had /\ ktaken[p] # {}
    /\ p[1] = "resume" => KHolder(<<"activation", o>>, kop[o].act) = op[o].res
    /\ kc = (IF resumed THEN Reopened(o) ELSE Installed(o)) /\ ka.epoch = kc.epoch
    /\ KHolder(p, Original(p)) = claim[p].prev
    /\ \A q \in Phases \X Ops, l \in Leases : l \in ktaken[q] => l <= claim[p].prev
    /\ ktaken' = [ktaken EXCEPT ![p] = @ \cup {lease}]
    /\ UNCHANGED <<kc, ka, kop, kfence, ovars, seen, lease>>

\* The receipt is recorded, by the holder or after a successor's inspection.
AckTakeover(p) ==
    /\ claim[p] # NoClaim /\ claim[p].new \in ktaken[p] /\ MayTakeOver(p)
    /\ otaken' = [otaken EXCEPT ![p] = @ \cup {claim[p].new}]
    /\ claim' = [claim EXCEPT ![p] = NoClaim]
    /\ UNCHANGED <<kvars, oc, op, cf, seen, lease>>

\* inspect_control_takeover finds none: the claim is resolved as confirmed absent.
ResolveTakeover(p) ==
    /\ claim[p] # NoClaim /\ claim[p].new \notin ktaken[p] /\ MayTakeOver(p)
    /\ claim' = [claim EXCEPT ![p] = NoClaim]
    /\ UNCHANGED <<kvars, oc, op, otaken, cf, seen, lease>>

-----------------------------------------------------------------------------
(* Cancellation: fence_cross_store_cancellation                            *)

\* The intent, at the Kernel epoch observed; a repeated call keeps the row.
CancelIntent(c) ==
    /\ oc.gen = kc.gen
    /\ \/ cf[c] = NoRow /\ cf' = [cf EXCEPT ![c] = [gen |-> oc.gen, epoch |-> kc.epoch, done |-> FALSE]]
       \/ cf[c].gen = oc.gen /\ cf' = cf
    /\ Hold("cancel", c)
    /\ UNCHANGED <<kvars, oc, op, otaken, claim, lease>>

\* fence_cancelled_run
KFence(c) ==
    /\ \E l \in Leases : <<"cancel", c, l>> \in seen
    /\ kfence[c] = -1 /\ kc.gen = cf[c].gen /\ kc.epoch = cf[c].epoch
    /\ kc' = Gate("paused", kc.epoch + 1, kc.gen)
    /\ ka' = [ka EXCEPT !.ok = FALSE]
    /\ kfence' = [kfence EXCEPT ![c] = kc.epoch + 1]
    /\ UNCHANGED <<kop, ktaken, ovars, seen, lease>>

\* The Kernel's epoch moved on meanwhile: ask again at the latest.
RefreshCancel(c) ==
    /\ Held("cancel", c) /\ kfence[c] = -1
    /\ kc.gen = cf[c].gen /\ kc.epoch # cf[c].epoch
    /\ cf' = [cf EXCEPT ![c].epoch = kc.epoch]
    /\ UNCHANGED <<kvars, oc, op, otaken, claim, seen, lease>>

\* The local gate follows the Kernel's.
CommitCancel(c) ==
    /\ Held("cancel", c) /\ kfence[c] = cf[c].epoch + 1 /\ ~cf[c].done
    /\ oc.gen = cf[c].gen /\ oc.epoch <= kfence[c]
    /\ \/ oc.epoch < kfence[c] /\ oc' = Gate("paused", kfence[c], oc.gen)
       \/ oc.epoch = kfence[c] /\ oc.state = "paused" /\ oc' = oc
    /\ cf' = [cf EXCEPT ![c].done = TRUE]
    /\ UNCHANGED <<kvars, op, otaken, claim, seen, lease>>

-----------------------------------------------------------------------------
Pause(o) ==
    \/ BeginAdopted(o) \/ BeginPause(o) \/ KPreparePause(o) \/ KCompletePause(o) \/ KCapture(o)
    \/ \E what \in {"barrier", "paused", "captured"} : RecordPause(o, what)
    \/ SeePaused(o) \/ PreparePause(o) \/ FinalizePause(o)

Revise(o) ==
    \/ CommitRevision(o) \/ OrderInstall(o) \/ KInstall(o) \/ RecordInstall(o)
    \/ SeeInstalled(o) \/ InstallProjection(o)
    \/ OrderBudget(o) \/ KInstallBudget(o) \/ RecordBudget(o)

Reopen(o) ==
    \/ OrderActivation(o) \/ (\E l \in Leases : KActivate(o, l)) \/ RecordActivation(o)
    \/ OrderResume(o) \/ CheckResume(o) \/ (\E l \in Leases : KResume(o, l)) \/ CommitResume(o)

TakeOver(p) == ClaimTakeover(p) \/ KTakeOver(p) \/ AckTakeover(p) \/ ResolveTakeover(p)

Cancel(c) == CancelIntent(c) \/ KFence(c) \/ RefreshCancel(c) \/ CommitCancel(c)

Next ==
    \/ \E o \in Ops : Pause(o) \/ Revise(o) \/ Reopen(o)
    \/ \E p \in Phases \X Ops : TakeOver(p)
    \/ \E c \in Cancels : Cancel(c)
    \/ NewLease

Spec == Init /\ [][Next]_vars

-----------------------------------------------------------------------------
(* Safety                                                                  *)

\* The local gate is the one tasks are dispatched through.  Whatever calls
\* crashed or were slow, it is open only if the Kernel's is open at the same
\* epoch and generation, or a cancellation has fenced the Kernel and its own
\* row - of this very generation, at a later epoch - will close the local gate
\* (managed.py: the Kernel resumes first, pauses last).
LocalOpenIsBacked ==
    oc.state = "active" =>
        \/ kc = oc
        \/ \E c \in CancelRows(oc.gen) :
              kfence[c] = cf[c].epoch + 1 /\ ~cf[c].done /\ oc.epoch < kfence[c]

\* The Kernel's gate is open only by a decision the Orchestrator has kept: at
\* its own open gate's epoch, one epoch behind a pause it has begun, or one
\* ahead on a resume it intends, in that resume's generation.
KernelOpenIsDecided ==
    kc.state = "active" =>
        /\ kc.gen = oc.gen
        /\ \/ oc = kc
           \/ oc.state = "pausing" /\ oc.epoch = kc.epoch + 1
           \/ \E o \in Ops : oc = Installed(o) /\ kc = Reopened(o) /\ op[o].res # 0

\* The two stores never part by more than the one revision that is being
\* installed: the Kernel is at the local generation, or at the next by a
\* recorded decision made at this very local gate.
GenerationsFollow ==
    \/ kc.gen = oc.gen
    \/ kc.gen = oc.gen + 1 /\ \E o \in Ops : Did(o, "decided") /\ ~Did(o, "installed") /\ op[o].gen = oc.gen

\* After the Kernel's cancellation fence its gate stays closed and every
\* credential of the Run stays revoked, whatever pause, install, takeover or
\* resume is still under way (fence_cancelled_run).
FencedForGood == CancelFenced => kc.state = "paused" /\ ~ka.ok

\* Once both stores have recorded a cancellation their gates agree and are
\* closed; no operation begun before it moves either of them again.
CancelledAgree ==
    \A c \in Cancels : cf[c].done /\ (\A d \in Cancels : kfence[d] <= kfence[c]) => oc = kc /\ oc.state = "paused"

\* A takeover the Kernel has recorded is never lost on the local side: it is
\* acknowledged or still the pending claim (a claim is resolved as absent only
\* when inspection finds none).
LeasesAgree ==
    \A p \in Phases \X Ops :
        /\ otaken[p] \subseteq ktaken[p]
        /\ ktaken[p] \subseteq otaken[p] \cup {claim[p].new}

\* The two gates, their epochs, generations and leases: the Orchestrator's and the
\* Kernel's stores tell one story whichever calls crashed, were slow or came late.
GatesAgree ==
    /\ TypeOK
    /\ LocalOpenIsBacked
    /\ KernelOpenIsDecided
    /\ GenerationsFollow
    /\ FencedForGood
    /\ CancelledAgree
    /\ LeasesAgree

\* A caller whose lease has been taken over never opens the Kernel's gate,
\* however late its call arrives (_verify_effective_control_decision).
StaleHolderCannotOpenStep ==
    \A o \in Ops : kop[o].res = 0 /\ kop'[o].res # 0 =>
       \A p \in Phases \X {o} : \A l \in ktaken[p] : l <= kop'[o].res

StaleHolderCannotOpen == [][StaleHolderCannotOpenStep]_vars

\* The local gate opens only by the resume that follows the revision it is
\* at, never after a cancellation of that generation was recorded, and then
\* the Kernel has opened under a lease it knows.
ReopenOnlyUncancelledStep ==
    oc.state # "active" /\ oc'.state = "active" =>
       /\ CancelRows(oc'.gen) = {} /\ ~CancelFenced /\ kc = oc'
       /\ \E o \in Ops : oc = Installed(o) /\ KHolder(<<"resume", o>>, kop[o].res) = lease

ReopenOnlyUncancelled == [][ReopenOnlyUncancelledStep]_vars

\* What no step of the two gates may do.
GateSteps ==
    /\ StaleHolderCannotOpenStep
    /\ ReopenOnlyUncancelledStep

-----------------------------------------------------------------------------
(* Liveness: the coordinator retries every durable step of a pause, and a  *)
(* host that has begun to resume goes on, taking over when it has a new    *)
(* lease; the host hands out finitely many leases.                         *)

RetryPause(o) ==
    \/ KPreparePause(o) \/ KCompletePause(o) \/ KCapture(o)
    \/ (\E what \in {"barrier", "paused", "captured"} : RecordPause(o, what))
    \/ (~Saw("paused", o) /\ SeePaused(o)) \/ PreparePause(o) \/ FinalizePause(o)

Fairness ==
    /\ \A o \in Ops :
        /\ WF_vars(RetryPause(o))
        /\ WF_vars(OrderResume(o)) /\ WF_vars(CheckResume(o)) /\ WF_vars(CommitResume(o))
        /\ WF_vars(ClaimTakeover(<<"resume", o>>)) /\ SF_vars(KTakeOver(<<"resume", o>>))
        /\ WF_vars(AckTakeover(<<"resume", o>>)) /\ WF_vars(ResolveTakeover(<<"resume", o>>))
    /\ \A c \in Cancels :
        WF_vars(cf[c] # NoRow /\ CancelIntent(c)) /\ WF_vars(CommitCancel(c))

LiveSpec == Spec /\ Fairness

\* A pause that has closed the local gate is finalized in both stores, unless
\* the Run is being cancelled.
PauseCompletes ==
    \A o \in Ops : op[o].src >= 0 ~> Did(o, "finalized") \/ \E c \in Cancels : cf[c] # NoRow

\* Once the Kernel has resumed, the local gate opens too, across crashes and
\* any loss of the lease (a successor takes the resume over), unless the Run
\* is being cancelled.
ResumeCompletes ==
    \A o \in Ops : kop[o].res # 0 ~> Did(o, "resumed") \/ \E c \in Cancels : cf[c] # NoRow

\* "Fence new admission in both stores" (managed.py:1214): once the Kernel is
\* fenced, the repeated call records the fence locally.
CancellationFencesBoth == \A c \in Cancels : kfence[c] # -1 ~> cf[c].done
=============================================================================
