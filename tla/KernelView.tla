------------------------------ MODULE KernelView ------------------------------
(***************************************************************************)
(* The kernel as its clients see it: one ExecutionSnapshot for each        *)
(* execution, of which they use the state and the revision.  ExecutionKernel *)
(* implements it (KeepsView there); Workflow builds on it.                 *)
(*                                                                         *)
(* What a client may rely on: a snapshot that differs has a higher         *)
(* revision, a terminal snapshot never changes, and a cancellation that is *)
(* recorded while effects are being settled is never taken back.           *)
(***************************************************************************)
EXTENDS Naturals

CONSTANT Executions

VARIABLE view   \* the snapshot of each execution

\* active: leased or running; parked: recovery_required; done: succeeded,
\* failed, timed_out or dead.
Phases    == {"absent", "queued", "active", "parked", "done", "cancelled"}
Ended     == {"done", "cancelled"}
Snapshots == [phase : Phases, revision : Nat, target : {"none", "queued", "cancelled"}]

Unknown == [phase |-> "absent", revision |-> 0, target |-> "none"]

\* Phases an execution may be in next.  One transaction may reap an expired
\* lease and claim the row again, and one may settle a parked row for good.
Reachable(snapshot) ==
    CASE snapshot.phase = "absent" -> {"queued", "cancelled"}
      [] snapshot.phase = "queued" -> {"active", "cancelled"}
      [] snapshot.phase = "active" -> {"queued", "active", "parked"} \cup Ended
      [] snapshot.phase = "parked" /\ snapshot.target = "queued"    -> {"parked", "queued", "cancelled"}
      [] snapshot.phase = "parked" /\ snapshot.target = "cancelled" -> {"parked", "cancelled"}
      [] OTHER -> {}

\* Only a parked row has a target, and it keeps "cancelled".
Targeted(old, new) ==
    /\ (new.target # "none") <=> (new.phase = "parked")
    /\ old.target = "cancelled" /\ new.phase = "parked" => new.target = "cancelled"

Follows(old, new) ==
    \/ new = old
    \/ /\ new.phase \in Reachable(old)
       /\ new.revision > old.revision
       /\ Targeted(old, new)

Init == view = [e \in Executions |-> Unknown]

Next ==
    /\ view' \in [Executions -> Snapshots]
    /\ \A e \in Executions : Follows(view[e], view'[e])

Spec == Init /\ [][Next]_view
=============================================================================
