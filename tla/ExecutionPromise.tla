--------------------------- MODULE ExecutionPromise ---------------------------
(***************************************************************************)
(* What the execution kernel promises its callers, with no attempt, lease, *)
(* fence, clock, queue or process in sight:                                *)
(*                                                                         *)
(*   - an execution gets at most one verdict, and keeps it;                *)
(*   - an effect may be performed only when it is known not to have        *)
(*     happened, and each permission is used at most once;                 *)
(*   - no verdict is given while it is unknown whether one of the          *)
(*     execution's effects happened, and no permission after it.           *)
(***************************************************************************)
EXTENDS Naturals

CONSTANTS Executions, Effects, OwnerOf, Verdicts, Pending

VARIABLES
    verdict,    \* the verdict on each execution, or Pending
    knowledge,  \* what is on record about each effect
    granted,    \* permissions given to perform an effect
    performed   \* times the outside world saw it

vars == <<verdict, knowledge, granted, performed>>

\* fresh: it has certainly not happened; unknown: it may have; applied: it has.
Knowledge == {"fresh", "unknown", "applied"}

Init ==
    /\ verdict   = [e \in Executions |-> Pending]
    /\ knowledge = [f \in Effects |-> "fresh"]
    /\ granted   = [f \in Effects |-> 0]
    /\ performed = [f \in Effects |-> 0]

\* One operation may settle several executions at once (an expiry sweep), so a
\* step says what may happen to each execution and to each effect.

Judge(e) ==
    \/ verdict'[e] = verdict[e]
    \/ /\ verdict[e] = Pending
       /\ verdict'[e] \in Verdicts
       /\ \A f \in Effects : OwnerOf[f] = e => knowledge'[f] # "unknown"

Learn(f) ==
    \/ knowledge'[f] = knowledge[f] /\ granted'[f] = granted[f]
    \/ /\ verdict[OwnerOf[f]] = Pending
       /\ \/ knowledge[f] = "fresh"   /\ knowledge'[f] = "unknown" /\ granted'[f] \in {granted[f], granted[f] + 1}
          \/ knowledge[f] = "unknown" /\ knowledge'[f] \in {"fresh", "applied"} /\ granted'[f] = granted[f]

Perform(f) ==
    \/ performed'[f] = performed[f]
    \/ performed[f] < granted[f] /\ performed'[f] = performed[f] + 1

Next ==
    /\ verdict'   \in [Executions -> Verdicts \cup {Pending}]
    /\ knowledge' \in [Effects -> Knowledge]
    /\ DOMAIN granted' = Effects /\ DOMAIN performed' = Effects
    /\ \A e \in Executions : Judge(e)
    /\ \A f \in Effects : Learn(f) /\ Perform(f)

Spec == Init /\ [][Next]_vars
=============================================================================
