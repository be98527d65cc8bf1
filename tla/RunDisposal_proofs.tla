------------------------- MODULE RunDisposal_proofs -------------------------
(***************************************************************************)
(* What RunDisposal promises of the store and the registry, for any Runs,  *)
(* operators, references and bounds.  DisposalAssumption is about the      *)
(* constants only; it is a hypothesis of each theorem.                     *)
(***************************************************************************)
EXTENDS RunDisposal, TLAPS

-----------------------------------------------------------------------------
(* The inductive invariant                                                 *)

Steps == {"idle", "planning", "marked", "locked", "deleted"}
Planned(o) == plan[o] # NoPlan /\ plan[o].run \in Runs

Shape ==
    /\ run \in [Runs -> {"open", "terminal", "gone"}]
    /\ origin \in [Runs -> States]
    /\ tombstone = [r \in Runs |-> tombstone[r]]
    /\ deletion = [r \in Runs |-> deletion[r]]
    /\ pc \in [Operators -> Steps]
    /\ plan = [o \in Operators |-> plan[o]]
    /\ ties \subseteq Runs /\ looked \subseteq Runs /\ references \subseteq Runs \X Runs
    /\ \A o \in Operators : plan[o] = NoPlan \/ Planned(o)

\* A tombstone is what remains of a Run, a marker is what the registry holds.
Marks ==
    /\ \A r \in Runs : (run[r] = "gone") = (tombstone[r] # NoDisposal)
    /\ \A r \in Runs : (origin[r] = "deleting") = (deletion[r] # NoDisposal)

\* The write locks of the two databases are held by one operator each.
OneHolder ==
    /\ \A o, p \in Operators :
         pc[o] \in {"marked", "locked"} /\ pc[p] \in {"marked", "locked"} => o = p
    /\ \A o, p \in Operators :
         pc[o] \in {"locked", "deleted"} /\ pc[p] \in {"locked", "deleted"} => o = p

\* An operator between two commits holds the marker of its Run, and the Run is
\* what the plan said until the operator has deleted it.
Underway(o) ==
    /\ pc[o] \in {"marked", "locked", "deleted"} => Planned(o) /\ Holds(o)
    /\ pc[o] \in {"marked", "locked"} =>
         tombstone[plan[o].run] = NoDisposal /\ Clear(plan[o].run)
    /\ pc[o] = "deleted" => tombstone[plan[o].run] = Operation(o)

\* From the marker on the registry is closed and nothing refers to the Run.
Sealed(r) == origin[r] \in {"deleting", "disposed"} => closed /\ Unreferenced(r, references)

Agrees(r) ==
    /\ origin[r] = "disposed" => run[r] = "gone"
    /\ run[r] = "gone" /\ origin[r] # "disposed" => deletion[r] = tombstone[r]

DisposalInv ==
    /\ Shape
    /\ Marks
    /\ OneHolder
    /\ \A o \in Operators : Underway(o)
    /\ \A r \in Runs : Sealed(r) /\ Agrees(r)

-----------------------------------------------------------------------------
(* Disposals are told apart by their operator and plan.                    *)

LEMMA OperationIsOne ==
    \A o, p \in Operators : /\ Operation(o) # NoDisposal
                            /\ Operation(o) = Operation(p) => o = p
  BY DEF Operation, NoDisposal

LEMMA PlanIsOne == \A r, t, v : [run |-> r, token |-> t, revision |-> v] # NoPlan
  BY DEF NoPlan

\* A Run that is gone was marked: it is not one an application can refer to.
LEMMA GoneIsMarked ==
    ASSUME DisposalInv, NEW r \in Runs, run[r] = "gone"
    PROVE  origin[r] \in {"deleting", "disposed"}
  BY DEF DisposalInv, Shape, Marks, Agrees, States

\* What no step of the registry or the plans touches stays what it was.
LEMMA OperationKept ==
    ASSUME NEW o, plan'[o] = plan[o]
    PROVE  Operation(o)' = Operation(o)
  BY DEF Operation

-----------------------------------------------------------------------------
(* The applications' steps                                                 *)

\* A write of the store finds nobody between the marker and the deletion.
LEMMA WriteKeepsInv ==
    ASSUME DisposalInv, Write,
           \/ UNCHANGED <<run, ties>>
           \/ \E r \in Runs : /\ run[r] = "open"
                              /\ run' = [run EXCEPT ![r] = "terminal"]
                              /\ UNCHANGED ties
           \/ \E r \in Runs : ties' = ties \union {r} /\ UNCHANGED run
    PROVE  DisposalInv'
<1> USE DEF Write, registry, operators
<1>1. Shape'
  BY DEF DisposalInv, Shape, Planned
<1>2. \A r \in Runs : (run'[r] = "gone") = (run[r] = "gone")
  BY DEF DisposalInv, Shape
<1>3. Marks'
  BY <1>2 DEF DisposalInv, Marks
<1>4. OneHolder'
  BY DEF DisposalInv, OneHolder
<1>5. ASSUME NEW o \in Operators PROVE Underway(o)'
  <2>1. Operation(o)' = Operation(o)
    BY OperationKept
  <2>2. pc[o] \notin {"marked", "locked"}
    BY DEF StoreFree
  <2> QED  BY <2>1, <2>2 DEF DisposalInv, Underway, Planned, Holds
<1>6. ASSUME NEW r \in Runs PROVE Sealed(r)' /\ Agrees(r)'
  BY <1>2 DEF DisposalInv, Sealed, Agrees, Unreferenced
<1> QED  BY <1>1, <1>3, <1>4, <1>5, <1>6 DEF DisposalInv

LEMMA StoreStepsKeepInv ==
    ASSUME DisposalInv,
           WriteElsewhere \/ \E r \in Runs : Finish(r) \/ Tie(r)
    PROVE  DisposalInv'
<1>1. Write
  BY DEF WriteElsewhere, Finish, Tie
<1>2. \/ UNCHANGED <<run, ties>>
      \/ \E r \in Runs : /\ run[r] = "open"
                         /\ run' = [run EXCEPT ![r] = "terminal"]
                         /\ UNCHANGED ties
      \/ \E r \in Runs : ties' = ties \union {r} /\ UNCHANGED run
  BY DEF WriteElsewhere, Finish, Tie
<1> QED  BY <1>1, <1>2, WriteKeepsInv

\* What is left to show when neither the store, nor a marker, nor an operator moves.
LEMMA RegistryStepKeepsInv ==
    ASSUME DisposalInv,
           UNCHANGED <<store, deletion, pc, plan>>,
           origin' \in [Runs -> States],
           looked' \subseteq Runs, references' \subseteq Runs \X Runs,
           closed => closed',
           \A r \in Runs : \/ origin'[r] = origin[r]
                           \/ origin[r] = "unknown" /\ origin'[r] = "active",
           \A e \in references' : \/ e \in references
                                  \/ origin[e[2]] = "active"
    PROVE  DisposalInv'
<1> USE DEF store
<1>1. Shape'
  BY DEF DisposalInv, Shape, Planned
<1>2. \A r \in Runs : origin[r] \in {"deleting", "disposed"} => origin'[r] = origin[r]
  OBVIOUS
<1>3. \A r \in Runs : origin'[r] \in {"deleting", "disposed"} => origin'[r] = origin[r]
  OBVIOUS
<1>4. Marks'
  BY <1>2, <1>3 DEF DisposalInv, Marks
<1>5. OneHolder'
  BY DEF DisposalInv, OneHolder
<1>6. ASSUME NEW o \in Operators PROVE Underway(o)'
  <2>1. Operation(o)' = Operation(o)
    BY OperationKept
  <2> QED  BY <2>1, <1>2 DEF DisposalInv, Underway, Planned, Holds, Clear
<1>7. ASSUME NEW r \in Runs PROVE Sealed(r)'
  BY <1>3 DEF DisposalInv, Sealed, Unreferenced
<1>8. ASSUME NEW r \in Runs PROVE Agrees(r)'
  <2>1. CASE run[r] = "gone"
    BY <2>1, <1>2, GoneIsMarked DEF DisposalInv, Agrees
  <2>2. CASE run[r] # "gone"
    BY <2>2, <1>3 DEF DisposalInv, Agrees
  <2> QED  BY <2>1, <2>2
<1> QED  BY <1>1, <1>4, <1>5, <1>6, <1>7, <1>8 DEF DisposalInv

\* A reference is entered only between Runs that are active in the registry.
LEMMA RegistryStepsKeepInv ==
    ASSUME DisposalAssumption, DisposalInv,
           \/ CloseScope
           \/ \E r \in Runs : LookForRun(r) \/ EnterRun(r) \/ RegisterArchive(r)
           \/ \E e \in Edges : AddReference(e)
    PROVE  DisposalInv'
<1> USE DEF store, registry, operators, RegistryWrite
<1>0. Shape
  BY DEF DisposalInv
<1>1. CASE CloseScope
  BY <1>0, <1>1, RegistryStepKeepsInv DEF CloseScope, Shape
<1>2. ASSUME NEW r \in Runs, LookForRun(r) PROVE DisposalInv'
  BY <1>0, <1>2, RegistryStepKeepsInv DEF LookForRun, Shape
<1>3. ASSUME NEW r \in Runs, EnterRun(r) PROVE DisposalInv'
  <2>1. UNCHANGED <<store, deletion, pc, plan, references, closed>> /\ looked' \subseteq Runs
    BY <1>0, <1>3 DEF EnterRun, Shape
  <2>2. /\ origin' \in [Runs -> States]
        /\ \A q \in Runs : \/ origin'[q] = origin[q]
                           \/ origin[q] = "unknown" /\ origin'[q] = "active"
    BY <1>0, <1>3 DEF EnterRun, Shape, States
  <2> QED  BY <1>0, <2>1, <2>2, RegistryStepKeepsInv DEF Shape
<1>4. ASSUME NEW r \in Runs, RegisterArchive(r) PROVE DisposalInv'
  BY <1>0, <1>4, RegistryStepKeepsInv DEF RegisterArchive, Shape
<1>5. ASSUME NEW e \in Edges, AddReference(e) PROVE DisposalInv'
  <2>1. UNCHANGED <<store, deletion, pc, plan, looked, origin, closed>>
    BY <1>5 DEF AddReference
  <2>2. references' = references \union {e} /\ origin[e[2]] = "active"
    BY <1>5 DEF AddReference, Referable
  <2>3. references' \subseteq Runs \X Runs
    BY <1>0, <2>2 DEF Shape, DisposalAssumption
  <2> QED  BY <1>0, <2>1, <2>2, <2>3, RegistryStepKeepsInv DEF Shape
<1> QED  BY <1>1, <1>2, <1>3, <1>4, <1>5

-----------------------------------------------------------------------------
(* The operators' steps                                                    *)

\* An operator that plans, gives up or dies holds no lock and commits nothing.
LEMMA QuietStepKeepsInv ==
    ASSUME DisposalInv, UNCHANGED <<store, looked, registry>>,
           NEW o \in Operators, NEW at \in {"idle", "planning"}, NEW new,
           pc' = [pc EXCEPT ![o] = at],
           plan' = [plan EXCEPT ![o] = new],
           new = NoPlan \/ (new # NoPlan /\ new.run \in Runs)
    PROVE  DisposalInv'
<1> USE DEF store, registry
<1>1. pc'[o] = at /\ plan'[o] = new
  BY DEF DisposalInv, Shape
<1>2. \A p \in Operators \ {o} : pc'[p] = pc[p] /\ plan'[p] = plan[p]
  BY DEF DisposalInv, Shape
<1>3. Shape'
  <2>1. pc' \in [Operators -> Steps] /\ plan' = [p \in Operators |-> plan'[p]]
    BY DEF DisposalInv, Shape, Steps
  <2>2. \A p \in Operators : plan'[p] = NoPlan \/ Planned(p)'
    BY <1>1, <1>2 DEF DisposalInv, Shape, Planned
  <2> QED  BY <2>1, <2>2 DEF DisposalInv, Shape
<1>4. Marks'
  BY DEF DisposalInv, Marks
<1>5. OneHolder'
  BY <1>1, <1>2 DEF DisposalInv, OneHolder
<1>6. ASSUME NEW p \in Operators PROVE Underway(p)'
  <2>1. CASE p = o
    BY <1>1, <2>1 DEF Underway
  <2>2. CASE p # o
    <3>1. Operation(p)' = Operation(p)
      BY <1>2, <2>2, OperationKept
    <3> QED  BY <1>2, <2>2, <3>1 DEF DisposalInv, Underway, Planned, Holds, Clear
  <2> QED  BY <2>1, <2>2
<1>7. \A r \in Runs : Sealed(r)' /\ Agrees(r)'
  BY DEF DisposalInv, Sealed, Agrees, Unreferenced
<1> QED  BY <1>3, <1>4, <1>5, <1>6, <1>7 DEF DisposalInv

LEMMA QuietStepsKeepInv ==
    ASSUME DisposalInv, NEW o \in Operators,
           \/ ReadRegistry(o) \/ Blocked(o) \/ Refused(o) \/ Crash(o)
           \/ \E r \in Runs : PlanDisposal(o, r)
    PROVE  DisposalInv'
<1>1. /\ pc = [pc EXCEPT ![o] = pc[o]]
      /\ plan = [plan EXCEPT ![o] = plan[o]]
      /\ plan[o] = NoPlan \/ (plan[o] # NoPlan /\ plan[o].run \in Runs)
  <2>1. /\ pc = [p \in Operators |-> pc[p]]
        /\ plan = [p \in Operators |-> plan[p]]
    BY DEF DisposalInv, Shape
  <2>2. pc = [pc EXCEPT ![o] = pc[o]]
    BY <2>1
  <2>3. plan = [plan EXCEPT ![o] = plan[o]]
    BY <2>1
  <2>4. plan[o] = NoPlan \/ (plan[o] # NoPlan /\ plan[o].run \in Runs)
    BY DEF DisposalInv, Shape, Planned
  <2> QED  BY <2>2, <2>3, <2>4
<1>2. CASE ReadRegistry(o) \/ Blocked(o) \/ Crash(o)
  <2>1. \E at \in {"idle", "planning"} : pc' = [pc EXCEPT ![o] = at]
    BY <1>2 DEF ReadRegistry, Blocked, Crash
  <2>2. UNCHANGED <<store, looked, registry, plan>>
    BY <1>2 DEF ReadRegistry, Blocked, Crash
  <2> QED  BY <1>1, <2>1, <2>2, QuietStepKeepsInv
<1>3. CASE Refused(o)
  <2>1. pc[o] = "idle" /\ UNCHANGED <<store, looked, registry, pc>>
    BY <1>3 DEF Refused, Enters
  <2>2. plan' = [plan EXCEPT ![o] = NoPlan]
    BY <1>3 DEF Refused
  <2>3. pc' = [pc EXCEPT ![o] = "idle"]
    BY <1>1, <2>1
  <2> QED  BY <2>1, <2>2, <2>3, QuietStepKeepsInv
<1>4. ASSUME NEW r \in Runs, PlanDisposal(o, r) PROVE DisposalInv'
  <2> DEFINE new == [run |-> r, token |-> mutation, revision |-> seen[o].revision]
  <2>1. new # NoPlan /\ new.run \in Runs
    BY PlanIsOne
  <2>2. /\ plan' = [plan EXCEPT ![o] = new] /\ pc' = [pc EXCEPT ![o] = "idle"]
        /\ UNCHANGED <<store, looked, registry>>
    BY <1>4 DEF PlanDisposal
  <2> HIDE DEF new
  <2> QED  BY <2>1, <2>2, QuietStepKeepsInv
<1> QED  BY <1>2, <1>3, <1>4

\* No one else holds the locks that a disposal enters with.
LEMMA EntersAlone ==
    ASSUME NEW o, Enters(o)
    PROVE  \A p \in Operators : pc[p] \notin {"marked", "locked", "deleted"}
  BY DEF Enters, RegistryFree, StoreFree

LEMMA MarkDeletingKeepsInv ==
    ASSUME DisposalInv, NEW o \in Operators, MarkDeleting(o)
    PROVE  DisposalInv'
<1>1. Planned(o) /\ \A p \in Operators : pc[p] \notin {"marked", "locked", "deleted"}
  BY EntersAlone DEF MarkDeleting, Enters, DisposalInv, Shape
<1>0. PICK r \in Runs : r = plan[o].run
  BY <1>1 DEF Planned
<1>2. origin[r] = "active"
  BY <1>0 DEF MarkDeleting
<1>3. /\ origin' = [origin EXCEPT ![r] = "deleting"]
      /\ deletion' = [deletion EXCEPT ![r] = Operation(o)]
      /\ pc' = [pc EXCEPT ![o] = "marked"]
      /\ UNCHANGED <<run, ties, tombstone, looked, references, closed, plan>>
  BY <1>0 DEF MarkDeleting, store
<1>4. Clear(r) /\ closed /\ Unreferenced(r, references)
  BY <1>0 DEF MarkDeleting, Current
<1>5. run[r] # "gone" /\ tombstone[r] = NoDisposal
  BY <1>2, <1>4 DEF Clear, DisposalInv, Marks
<1>6. Shape'
  BY <1>2, <1>3 DEF DisposalInv, Shape, States, Steps, Planned
<1>7. origin'[r] = "deleting" /\ deletion'[r] = Operation(o) /\ pc'[o] = "marked"
  BY <1>2, <1>3 DEF DisposalInv, Shape
<1>8. \A q \in Runs \ {r} : origin'[q] = origin[q] /\ deletion'[q] = deletion[q]
  BY <1>3 DEF DisposalInv, Shape
<1>9. \A p \in Operators \ {o} : pc'[p] = pc[p]
  BY <1>3 DEF DisposalInv, Shape
<1>10. Marks'
  BY <1>3, <1>7, <1>8, OperationIsOne DEF DisposalInv, Marks
<1>11. OneHolder'
  BY <1>1, <1>9 DEF OneHolder
<1>12. ASSUME NEW p \in Operators PROVE Underway(p)'
  <2>1. CASE p = o
    <3>1. Operation(o)' = Operation(o)
      BY <1>3, OperationKept
    <3>2. Clear(r)'
      BY <1>3, <1>4 DEF Clear
    <3>3. plan'[o].run = r
      BY <1>0, <1>3
    <3> QED  BY <1>1, <1>3, <1>5, <1>7, <2>1, <3>1, <3>2, <3>3 DEF Underway, Planned, Holds, Clear
  <2>2. CASE p # o
    BY <1>1, <1>9, <2>2 DEF Underway
  <2> QED  BY <2>1, <2>2
<1>13. ASSUME NEW q \in Runs PROVE Sealed(q)' /\ Agrees(q)'
  <2>1. CASE q = r
    BY <1>3, <1>4, <1>5, <1>7, <2>1 DEF Sealed, Agrees, Unreferenced
  <2>2. CASE q # r
    BY <1>3, <1>8, <2>2 DEF DisposalInv, Sealed, Agrees, Unreferenced
  <2> QED  BY <2>1, <2>2
<1> QED  BY <1>6, <1>10, <1>11, <1>12, <1>13 DEF DisposalInv

\* The disposal takes the locks of both databases, and its Run is still as planned.
LEMMA LockKeepsInv ==
    ASSUME DisposalInv, NEW o \in Operators, Reacquire(o) \/ ResumeDeletion(o)
    PROVE  DisposalInv'
<1>1. /\ pc' = [pc EXCEPT ![o] = "locked"]
      /\ UNCHANGED <<store, looked, registry, plan>>
  BY DEF Reacquire, ResumeDeletion
<1> USE DEF store, registry
<1>2. /\ Planned(o) /\ Holds(o)
      /\ tombstone[plan[o].run] = NoDisposal /\ Clear(plan[o].run)
  <2>1. CASE Reacquire(o)
    BY <2>1 DEF Reacquire, DisposalInv, Underway
  <2>2. CASE ResumeDeletion(o)
    BY <2>2 DEF ResumeDeletion, Enters, Resumable, DisposalInv, Shape
  <2> QED  BY <2>1, <2>2
<1>3. \A p \in Operators \ {o} : pc[p] \notin {"marked", "locked", "deleted"}
  <2>1. CASE Reacquire(o)
    BY <2>1 DEF Reacquire, RegistryFree, DisposalInv, OneHolder
  <2>2. CASE ResumeDeletion(o)
    BY <2>2, EntersAlone DEF ResumeDeletion
  <2> QED  BY <2>1, <2>2
<1>4. pc'[o] = "locked" /\ \A p \in Operators \ {o} : pc'[p] = pc[p]
  BY <1>1 DEF DisposalInv, Shape
<1>5. Shape'
  BY <1>1 DEF DisposalInv, Shape, Steps, Planned
<1>6. Marks'
  BY <1>1 DEF DisposalInv, Marks
<1>7. OneHolder'
  BY <1>3, <1>4 DEF OneHolder
<1>8. ASSUME NEW p \in Operators PROVE Underway(p)'
  <2>1. CASE p = o
    <3>1. Operation(o)' = Operation(o)
      BY <1>1, OperationKept
    <3> QED  BY <1>1, <1>2, <1>4, <2>1, <3>1 DEF Underway, Planned, Holds, Clear
  <2>2. CASE p # o
    BY <1>3, <1>4, <2>2 DEF Underway
  <2> QED  BY <2>1, <2>2
<1>9. \A r \in Runs : Sealed(r)' /\ Agrees(r)'
  BY <1>1 DEF DisposalInv, Sealed, Agrees, Unreferenced
<1> QED  BY <1>5, <1>6, <1>7, <1>8, <1>9 DEF DisposalInv

\* The Run that goes is the one the registry has marked for this disposal.
LEMMA DeleteRunKeepsInv ==
    ASSUME DisposalInv, NEW o \in Operators, DeleteRun(o)
    PROVE  DisposalInv'
<1> DEFINE r == plan[o].run
<1>1. /\ run' = [run EXCEPT ![r] = "gone"]
      /\ tombstone' = [tombstone EXCEPT ![r] = Operation(o)]
      /\ pc' = [pc EXCEPT ![o] = "deleted"]
      /\ UNCHANGED <<ties, looked, registry, plan>>
      /\ pc[o] = "locked"
  BY DEF DeleteRun
<1>2. r \in Runs /\ Planned(o) /\ Holds(o) /\ tombstone[r] = NoDisposal
  BY <1>1 DEF DisposalInv, Underway, Planned
<1>3. plan'[o].run = r
  BY <1>1
<1>4. origin[r] = "deleting" /\ deletion[r] = Operation(o)
  BY <1>2 DEF Holds
<1> HIDE DEF r
<1> USE DEF registry
<1>5. run'[r] = "gone" /\ tombstone'[r] = Operation(o) /\ pc'[o] = "deleted"
  BY <1>1, <1>2 DEF DisposalInv, Shape
<1>6. \A q \in Runs \ {r} : run'[q] = run[q] /\ tombstone'[q] = tombstone[q]
  BY <1>1 DEF DisposalInv, Shape
<1>7. \A p \in Operators \ {o} : /\ pc'[p] = pc[p]
                                 /\ pc[p] \notin {"marked", "locked", "deleted"}
  BY <1>1 DEF DisposalInv, Shape, OneHolder
<1>8. Shape'
  BY <1>1, <1>2 DEF DisposalInv, Shape, Steps, Planned
<1>9. Marks'
  BY <1>1, <1>5, <1>6, OperationIsOne DEF DisposalInv, Marks
<1>10. OneHolder'
  BY <1>7 DEF OneHolder
<1>11. ASSUME NEW p \in Operators PROVE Underway(p)'
  <2>1. CASE p = o
    <3>1. Operation(o)' = Operation(o)
      BY <1>1, OperationKept
    <3> QED  BY <1>1, <1>2, <1>3, <1>5, <2>1, <3>1 DEF Underway, Planned, Holds
  <2>2. CASE p # o
    BY <1>7, <2>2 DEF Underway
  <2> QED  BY <2>1, <2>2
<1>12. ASSUME NEW q \in Runs PROVE Sealed(q)' /\ Agrees(q)'
  <2>1. CASE q = r
    BY <1>1, <1>2, <1>4, <1>5, <2>1 DEF DisposalInv, Sealed, Agrees, Unreferenced
  <2>2. CASE q # r
    BY <1>1, <1>6, <2>2 DEF DisposalInv, Sealed, Agrees, Unreferenced
  <2> QED  BY <2>1, <2>2
<1> QED  BY <1>8, <1>9, <1>10, <1>11, <1>12 DEF DisposalInv

\* The registry settles a disposal whose tombstone is in the store.
LEMMA SettledKeepsInv ==
    ASSUME DisposalInv, NEW o \in Operators, SettleRegistry(o) \/ ResumeSettlement(o)
    PROVE  DisposalInv'
<1>1. Settled(o) /\ Planned(o) /\ Holds(o) /\ tombstone[plan[o].run] = Operation(o)
  <2>1. CASE SettleRegistry(o)
    BY <2>1 DEF SettleRegistry, DisposalInv, Underway
  <2>2. CASE ResumeSettlement(o)
    BY <2>2 DEF ResumeSettlement, Enters, Finishes, DisposalInv, Shape
  <2> QED  BY <2>1, <2>2
<1>2. PICK r \in Runs : r = plan[o].run
  BY <1>1 DEF Planned
<1>3. /\ origin' = [origin EXCEPT ![r] = "disposed"]
      /\ deletion' = [deletion EXCEPT ![r] = NoDisposal]
      /\ references' = {e \in references : e[1] # r}
      /\ pc' = [pc EXCEPT ![o] = "idle"]
      /\ plan' = [plan EXCEPT ![o] = NoPlan]
      /\ UNCHANGED <<run, ties, tombstone, looked, closed>>
  BY <1>1, <1>2 DEF Settled, store
<1>4. origin[r] = "deleting" /\ deletion[r] = Operation(o) /\ tombstone[r] = Operation(o)
  BY <1>1, <1>2 DEF Holds
<1>5. run[r] = "gone"
  BY <1>4, OperationIsOne DEF DisposalInv, Marks
<1>6. origin'[r] = "disposed" /\ deletion'[r] = NoDisposal /\ pc'[o] = "idle"
  BY <1>3 DEF DisposalInv, Shape
<1>7. \A q \in Runs \ {r} : origin'[q] = origin[q] /\ deletion'[q] = deletion[q]
  BY <1>3 DEF DisposalInv, Shape
<1>8. \A p \in Operators \ {o} : pc'[p] = pc[p] /\ plan'[p] = plan[p]
  BY <1>3 DEF DisposalInv, Shape
<1>9. Shape'
  <2>1. plan' = [p \in Operators |-> plan'[p]] /\ plan'[o] = NoPlan
    BY <1>3 DEF DisposalInv, Shape
  <2>2. \A p \in Operators : plan'[p] = NoPlan \/ Planned(p)'
    BY <1>8, <2>1 DEF DisposalInv, Shape, Planned
  <2> QED  BY <1>3, <2>1, <2>2 DEF DisposalInv, Shape, States, Steps
<1>10. Marks'
  BY <1>3, <1>6, <1>7 DEF DisposalInv, Marks
<1>11. OneHolder'
  BY <1>6, <1>8 DEF DisposalInv, OneHolder
<1>12. ASSUME NEW p \in Operators PROVE Underway(p)'
  <2>1. CASE p = o
    BY <1>6, <2>1 DEF Underway
  <2>2. CASE p # o /\ pc[p] \in {"marked", "locked", "deleted"}
    <3>1. Operation(p)' = Operation(p)
      BY <1>8, <2>2, OperationKept
    <3>2. Planned(p) /\ Holds(p)
      BY <2>2 DEF DisposalInv, Underway
    <3>3. plan[p].run # r
      BY <1>4, <2>2, <3>2, OperationIsOne DEF Holds
    <3> QED
      BY <1>3, <1>7, <1>8, <2>2, <3>1, <3>2, <3>3
         DEF DisposalInv, Underway, Planned, Holds, Clear
  <2>3. CASE p # o /\ pc[p] \notin {"marked", "locked", "deleted"}
    BY <1>8, <2>3 DEF Underway
  <2> QED  BY <2>1, <2>2, <2>3
<1>13. ASSUME NEW q \in Runs PROVE Sealed(q)' /\ Agrees(q)'
  <2>1. CASE q = r
    BY <1>3, <1>4, <1>5, <1>6, <2>1 DEF DisposalInv, Sealed, Agrees, Unreferenced
  <2>2. CASE q # r
    BY <1>3, <1>7, <2>2 DEF DisposalInv, Sealed, Agrees, Unreferenced
  <2> QED  BY <2>1, <2>2
<1> QED  BY <1>9, <1>10, <1>11, <1>12, <1>13 DEF DisposalInv

-----------------------------------------------------------------------------
(* The invariant                                                           *)

LEMMA InitInv == ASSUME Init PROVE DisposalInv
<1>1. \A o \in Operators : pc[o] = "idle" /\ plan[o] = NoPlan
  BY DEF Init
<1>2. Shape
  BY <1>1 DEF Init, Shape, States, Steps
<1>3. Marks
  BY DEF Init, Marks
<1>4. OneHolder /\ \A o \in Operators : Underway(o)
  BY <1>1 DEF OneHolder, Underway
<1>5. \A r \in Runs : Sealed(r) /\ Agrees(r)
  BY DEF Init, Sealed, Agrees
<1> QED  BY <1>2, <1>3, <1>4, <1>5 DEF DisposalInv

LEMMA NextInv == ASSUME DisposalAssumption, DisposalInv, [Next]_vars PROVE DisposalInv'
<1>1. CASE WriteElsewhere \/ \E r \in Runs : Finish(r) \/ Tie(r)
  BY <1>1, StoreStepsKeepInv
<1>2. CASE \/ CloseScope
           \/ \E r \in Runs : LookForRun(r) \/ EnterRun(r) \/ RegisterArchive(r)
           \/ \E e \in Edges : AddReference(e)
  BY <1>2, RegistryStepsKeepInv
<1>3. ASSUME NEW o \in Operators,
             \/ ReadRegistry(o) \/ Blocked(o) \/ Refused(o) \/ Crash(o)
             \/ \E r \in Runs : PlanDisposal(o, r)
      PROVE  DisposalInv'
  BY <1>3, QuietStepsKeepInv
<1>4. ASSUME NEW o \in Operators, Dispose(o) PROVE DisposalInv'
  BY <1>4, MarkDeletingKeepsInv, LockKeepsInv, DeleteRunKeepsInv, SettledKeepsInv DEF Dispose
<1>5. CASE UNCHANGED vars
  BY <1>5 DEF vars, DisposalInv, Shape, Marks, OneHolder, Underway, Planned, Holds,
              Operation, Clear, Sealed, Agrees, Unreferenced
<1> QED  BY <1>1, <1>2, <1>3, <1>4, <1>5 DEF Next

LEMMA AlwaysInv == ASSUME DisposalAssumption PROVE Spec => []DisposalInv
  BY InitInv, NextInv, PTL DEF Spec

-----------------------------------------------------------------------------
(* What it says                                                            *)

LEMMA InvSafe == ASSUME DisposalInv PROVE TypeOK /\ NoDanglingReference /\ RegistryAgrees
<1>1. TypeOK
  BY DEF DisposalInv, Shape, Marks, TypeOK, Steps
<1>2. NoDanglingReference
  <2> SUFFICES ASSUME NEW e \in references, tombstone[e[2]] # NoDisposal PROVE FALSE
    BY DEF NoDanglingReference
  <2>1. e[2] \in Runs
    BY DEF DisposalInv, Shape
  <2>2. run[e[2]] = "gone"
    BY <2>1 DEF DisposalInv, Marks
  <2>3. Unreferenced(e[2], references)
    BY <2>1, <2>2, GoneIsMarked DEF DisposalInv, Sealed
  <2> QED  BY <2>3 DEF Unreferenced
<1>3. RegistryAgrees
  BY GoneIsMarked DEF DisposalInv, Agrees, RegistryAgrees
<1> QED  BY <1>1, <1>2, <1>3

LEMMA FreeNext == ASSUME DisposalInv, [Next]_vars PROVE OnlyTheFreeAreDisposed
<1> SUFFICES ASSUME NEW r \in Runs, run[r] # "gone", run'[r] = "gone"
             PROVE  run[r] = "terminal" /\ r \notin ties /\ closed /\ Unreferenced(r, references)
  BY DEF OnlyTheFreeAreDisposed
<1>1. PICK o \in Operators : DeleteRun(o)
  <2>1. CASE \E q \in Runs : Finish(q)
    BY <2>1 DEF Finish, DisposalInv, Shape
  <2>2. CASE \E q \in Runs : Tie(q) \/ LookForRun(q) \/ EnterRun(q) \/ RegisterArchive(q)
    BY <2>2 DEF Tie, LookForRun, EnterRun, RegisterArchive, RegistryWrite, store
  <2>3. CASE WriteElsewhere \/ CloseScope \/ \E e \in Edges : AddReference(e)
    BY <2>3 DEF WriteElsewhere, CloseScope, AddReference, RegistryWrite, store
  <2>4. CASE \E o \in Operators : \/ ReadRegistry(o) \/ Blocked(o) \/ Refused(o) \/ Crash(o)
                                  \/ \E q \in Runs : PlanDisposal(o, q)
    BY <2>4 DEF ReadRegistry, Blocked, Refused, Crash, PlanDisposal, store
  <2>5. CASE \E o \in Operators : \/ MarkDeleting(o) \/ Reacquire(o) \/ ResumeDeletion(o)
                                  \/ SettleRegistry(o) \/ ResumeSettlement(o)
    BY <2>5 DEF MarkDeleting, Reacquire, ResumeDeletion, SettleRegistry, ResumeSettlement,
                Settled, store
  <2>6. CASE UNCHANGED vars
    BY <2>6 DEF vars
  <2> QED  BY <2>1, <2>2, <2>3, <2>4, <2>5, <2>6 DEF Next, Dispose
<1>2. r = plan[o].run
  BY <1>1 DEF DeleteRun, DisposalInv, Shape
<1>3. Clear(r) /\ origin[r] = "deleting"
  BY <1>1, <1>2 DEF DeleteRun, DisposalInv, Underway, Holds
<1> QED  BY <1>3 DEF Clear, DisposalInv, Sealed

\* A disposal is three commits in two databases, and any of them may be the last
\* before a crash: still no reference leads to a Run that is gone, the registry
\* never says of a Run what the store contradicts, and what a plan found is still
\* so when the Run is deleted, also by a retry: the Run is over, nothing is tied
\* to it, and nothing can come to refer to it.
THEOREM DisposalsAreSafe == ASSUME DisposalAssumption PROVE Spec => DisposalSafe
<1>1. DisposalInv /\ [Next]_vars => [OnlyTheFreeAreDisposed]_vars
  BY FreeNext
<1>2. DisposalInv => TypeOK /\ NoDanglingReference /\ RegistryAgrees
  BY InvSafe
<1> QED  BY <1>1, <1>2, AlwaysInv, PTL DEF Spec, DisposalSafe

=============================================================================
