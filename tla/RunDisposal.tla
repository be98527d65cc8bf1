------------------------------ MODULE RunDisposal ------------------------------
(* The permanent disposal of Runs: a store of Runs, and the provenance         *)
(* registry, a database of its own, that knows where a Run is and which Runs   *)
(* refer to it. A disposal is planned from two read snapshots, marks the       *)
(* origin in the registry, deletes the Run and leaves a tombstone in the       *)
(* store, and then settles the registry: three commits, a crash between any.   *)
EXTENDS Integers, FiniteSets

CONSTANTS
  Runs, Operators,
  Edges,        \* the references the applications may register: pairs of Runs
  MaxWrites,    \* bound: writes of the store by others
  MaxRevision,  \* bound: revisions of the registry before a disposal
  MaxCrashes    \* bound: crashes of operators

VARIABLES
  run,        \* run[r]: "open", "terminal", or "gone"
  ties,       \* Runs with a link, a subscription, a recovery: what blocks a disposal
  tombstone,  \* tombstone[r]: the disposal [by, plan] that removed the Run
  mutation,   \* the mutation clock of the store
  looked,     \* Runs register_run has found in the store and has yet to enter
  origin,     \* origin[r]: its state in the registry
  deletion,   \* deletion[r]: the disposal [by, plan] that holds the origin
  references, \* the edges of the registry
  closed,     \* scope_closed
  document,   \* the revision of the registry's document
  pc, seen, plan,   \* an operator: where it is, the registry it has read, its plan
  crashes
vars == <<run, ties, tombstone, mutation, looked, origin, deletion, references, closed, document,
          pc, seen, plan, crashes>>

store == <<run, ties, tombstone, mutation>>
registry == <<origin, deletion, references, closed, document>>
operators == <<pc, seen, plan, crashes>>

DisposalAssumption == Edges \subseteq Runs \X Runs

NoDisposal == [by |-> 0]
NoPlan == [run |-> 0]
NotRead == [revision |-> -1]
Operation(o) == [by |-> o, plan |-> plan[o]]

Init ==
  /\ run = [r \in Runs |-> "open"]
  /\ ties = {}
  /\ tombstone = [r \in Runs |-> NoDisposal]
  /\ mutation = 0
  /\ looked = {}
  /\ origin = [r \in Runs |-> "unknown"]
  /\ deletion = [r \in Runs |-> NoDisposal]
  /\ references = {}
  /\ closed = FALSE
  /\ document = 0
  /\ pc = [o \in Operators |-> "idle"]
  /\ seen = [o \in Operators |-> NotRead]
  /\ plan = [o \in Operators |-> NoPlan]
  /\ crashes = 0

\* The write locks a disposal holds: the store's from the marker to the deletion,
\* the registry's again from when it reacquires it to the end.
StoreFree == \A o \in Operators : pc[o] \notin {"marked", "locked"}
RegistryFree == \A o \in Operators : pc[o] \notin {"locked", "deleted"}

--------------------------------------------------------------------------------
(* The store's applications.                                                   *)

Write ==
  /\ StoreFree
  /\ mutation < MaxWrites
  /\ mutation' = mutation + 1
  /\ UNCHANGED <<tombstone, looked, registry, operators>>

Finish(r) ==
  /\ Write
  /\ run[r] = "open"
  /\ run' = [run EXCEPT ![r] = "terminal"]
  /\ UNCHANGED ties

\* start_next_run, acknowledge_events, reopen_run: rows that belong to a Run that is over
Tie(r) ==
  /\ Write
  /\ run[r] # "gone"
  /\ r \notin ties
  /\ ties' = ties \union {r}
  /\ UNCHANGED run

\* any write for another Run
WriteElsewhere == Write /\ UNCHANGED <<run, ties>>

--------------------------------------------------------------------------------
(* The registry.                                                               *)

RegistryWrite ==
  /\ RegistryFree
  /\ document < MaxRevision
  /\ document' = document + 1
  /\ UNCHANGED <<store, deletion, operators>>

CloseScope ==
  /\ RegistryWrite
  /\ ~closed
  /\ closed' = TRUE
  /\ UNCHANGED <<looked, origin, references>>

\* register_run reads the store in a transaction of its own ...
LookForRun(r) ==
  /\ r \notin looked
  /\ origin[r] = "unknown"
  /\ run[r] # "gone"
  /\ looked' = looked \union {r}
  /\ UNCHANGED <<store, registry, operators>>

\* ... and enters what it has found.
EnterRun(r) ==
  /\ RegistryWrite
  /\ r \in looked
  /\ looked' = looked \ {r}
  /\ origin[r] = "unknown"
  /\ origin' = [origin EXCEPT ![r] = "active"]
  /\ UNCHANGED <<references, closed>>

Referable_Mutant(r) == origin[r] # "unknown" /\ origin[r] # "disposed"
Referable(r) == origin[r] = "active"

AddReference(e) ==
  /\ RegistryWrite
  /\ e \notin references
  /\ Referable(e[1]) /\ Referable(e[2])
  /\ references' = references \union {e}
  /\ UNCHANGED <<looked, origin, closed>>

\* A cold copy is one more revision of the document; it decides nothing here.
RegisterArchive(r) ==
  /\ RegistryWrite
  /\ origin[r] = "active"
  /\ UNCHANGED <<looked, origin, references, closed>>

--------------------------------------------------------------------------------
(* The disposal.                                                               *)

ReadRegistry(o) ==
  /\ pc[o] = "idle"
  /\ plan[o] = NoPlan
  /\ seen' = [seen EXCEPT ![o] = [revision |-> document, origin |-> origin,
                                   references |-> references, closed |-> closed]]
  /\ pc' = [pc EXCEPT ![o] = "planning"]
  /\ UNCHANGED <<store, looked, registry, plan, crashes>>

\* what _build_plan finds in the store, and in a document of the registry
Clear(r) == run[r] = "terminal" /\ r \notin ties
Unreferenced(r, refs) == \A e \in refs : e[2] # r

PlanDisposal(o, r) ==
  LET doc == seen[o] IN
  /\ pc[o] = "planning"
  /\ Clear(r)
  /\ doc.origin[r] = "active"
  /\ doc.closed
  /\ Unreferenced(r, doc.references)
  /\ plan' = [plan EXCEPT ![o] = [run |-> r, token |-> mutation, revision |-> doc.revision]]
  /\ pc' = [pc EXCEPT ![o] = "idle"]
  /\ seen' = [seen EXCEPT ![o] = NotRead]
  /\ UNCHANGED <<store, looked, registry, crashes>>

Blocked(o) ==
  /\ pc[o] = "planning"
  /\ pc' = [pc EXCEPT ![o] = "idle"]
  /\ seen' = [seen EXCEPT ![o] = NotRead]
  /\ UNCHANGED <<store, looked, registry, plan, crashes>>

Enters(o) == pc[o] = "idle" /\ plan[o] # NoPlan /\ RegistryFree /\ StoreFree

Current(p) ==
  /\ mutation = p.token
  /\ document = p.revision
  /\ Clear(p.run)
  /\ closed
  /\ Unreferenced(p.run, references)

\* First commit: the marker. The source transaction goes on, the registry's ends.
MarkDeleting(o) ==
  LET p == plan[o] IN
  /\ Enters(o)
  /\ origin[p.run] = "active"
  /\ Current(p)
  /\ origin' = [origin EXCEPT ![p.run] = "deleting"]
  /\ deletion' = [deletion EXCEPT ![p.run] = Operation(o)]
  /\ document' = document + 1
  /\ pc' = [pc EXCEPT ![o] = "marked"]
  /\ UNCHANGED <<store, looked, references, closed, seen, plan, crashes>>

Reacquire(o) ==
  /\ pc[o] = "marked"
  /\ RegistryFree
  /\ pc' = [pc EXCEPT ![o] = "locked"]
  /\ UNCHANGED <<store, looked, registry, seen, plan, crashes>>

\* A retry of the operation that holds the marker, its Run still there: the store
\* must be as it was planned, the registry may have moved on.
Resumable(p) ==
  /\ tombstone[p.run] = NoDisposal
  /\ mutation = p.token
  /\ Clear(p.run)
  /\ closed
  /\ Unreferenced(p.run, references)

Holds(o) == origin[plan[o].run] = "deleting" /\ deletion[plan[o].run] = Operation(o)

ResumeDeletion(o) ==
  /\ Enters(o)
  /\ Holds(o)
  /\ Resumable(plan[o])
  /\ pc' = [pc EXCEPT ![o] = "locked"]
  /\ UNCHANGED <<store, looked, registry, seen, plan, crashes>>

\* Second commit: the Run goes, its tombstone stays.
DeleteRun(o) ==
  LET r == plan[o].run IN
  /\ pc[o] = "locked"
  /\ run' = [run EXCEPT ![r] = "gone"]
  /\ tombstone' = [tombstone EXCEPT ![r] = Operation(o)]
  /\ mutation' = mutation + 1
  /\ pc' = [pc EXCEPT ![o] = "deleted"]
  /\ UNCHANGED <<ties, looked, registry, seen, plan, crashes>>

Settled(o) ==
  LET r == plan[o].run IN
  /\ origin' = [origin EXCEPT ![r] = "disposed"]
  /\ deletion' = [deletion EXCEPT ![r] = NoDisposal]
  /\ references' = {e \in references : e[1] # r}
  /\ document' = document + 1
  /\ pc' = [pc EXCEPT ![o] = "idle"]
  /\ plan' = [plan EXCEPT ![o] = NoPlan]
  /\ UNCHANGED <<store, looked, closed, seen, crashes>>

\* Third commit: the registry knows.
SettleRegistry(o) == pc[o] = "deleted" /\ Settled(o)

\* A retry that finds its own tombstone has only the registry to settle.
Finishes(o) == Holds(o) /\ tombstone[plan[o].run] = Operation(o)
ResumeSettlement(o) == Enters(o) /\ Finishes(o) /\ Settled(o)

\* StaleDisposalPlan: the operator plans anew, unless the marker is its own.
Refused(o) ==
  /\ Enters(o)
  /\ ~Holds(o)
  /\ ~(origin[plan[o].run] = "active" /\ Current(plan[o]))
  /\ plan' = [plan EXCEPT ![o] = NoPlan]
  /\ UNCHANGED <<store, looked, registry, pc, seen, crashes>>

\* The process dies: open transactions are rolled back. Operator and plan come back.
Crash(o) ==
  /\ pc[o] \in {"marked", "locked", "deleted"}
  /\ crashes < MaxCrashes
  /\ crashes' = crashes + 1
  /\ pc' = [pc EXCEPT ![o] = "idle"]
  /\ UNCHANGED <<store, looked, registry, seen, plan>>

Dispose(o) ==
  \/ MarkDeleting(o) \/ Reacquire(o) \/ ResumeDeletion(o) \/ DeleteRun(o)
  \/ SettleRegistry(o) \/ ResumeSettlement(o)

Next ==
  \/ \E r \in Runs : Finish(r) \/ Tie(r) \/ LookForRun(r) \/ EnterRun(r) \/ RegisterArchive(r)
  \/ WriteElsewhere
  \/ CloseScope
  \/ \E e \in Edges : AddReference(e)
  \/ \E o \in Operators : \/ ReadRegistry(o) \/ Blocked(o) \/ Dispose(o) \/ Refused(o) \/ Crash(o)
                          \/ \E r \in Runs : PlanDisposal(o, r)

Spec == Init /\ [][Next]_vars

\* An operator that has begun a disposal goes on with it, also after a crash.
Fairness == \A o \in Operators : SF_vars(Dispose(o))

FairSpec == Spec /\ Fairness

--------------------------------------------------------------------------------
(* Properties.                                                                 *)

States == {"unknown", "active", "deleting", "disposed"}
TypeOK ==
  /\ \A r \in Runs : run[r] \in {"open", "terminal", "gone"} /\ origin[r] \in States
  /\ \A r \in Runs : (run[r] = "gone") = (tombstone[r] # NoDisposal)
  /\ \A r \in Runs : (origin[r] = "deleting") = (deletion[r] # NoDisposal)
  /\ ties \subseteq Runs /\ looked \subseteq Runs /\ references \subseteq Runs \X Runs
  /\ \A o \in Operators : pc[o] \in {"idle", "planning", "marked", "locked", "deleted"}

\* dispose_run: no registered reference ever leads to a Run that was disposed of,
\* although references and disposals are decided in different databases.
NoDanglingReference == \A e \in references : tombstone[e[2]] = NoDisposal

\* The registry and the store agree whenever nobody is between their commits: what
\* is active is there to be read, what is disposed of left a tombstone, and a
\* tombstone the registry does not know of is held by the disposal that wrote it.
RegistryAgrees ==
  \A r \in Runs :
    /\ origin[r] = "active" => run[r] # "gone"
    /\ origin[r] = "disposed" => run[r] = "gone"
    /\ run[r] = "gone" /\ origin[r] # "disposed" => deletion[r] = tombstone[r]

\* _build_plan, its repetition and the marker: a Run is deleted only while it is
\* terminal, has no ties, and nothing refers to it in a closed registry.
OnlyTheFreeAreDisposed ==
    \A r \in Runs : run[r] # "gone" /\ run'[r] = "gone" =>
      run[r] = "terminal" /\ r \notin ties /\ closed /\ Unreferenced(r, references)

\* dispose_run, its retries included: it removes only what is free to go, and
\* what it leaves behind in the two databases is whole.
DisposalSafe ==
    /\ [](TypeOK /\ NoDanglingReference /\ RegistryAgrees)
    /\ [][OnlyTheFreeAreDisposed]_vars

\* A disposal that has set its marker and been overtaken by a write of the store
\* before it deleted the Run: its plan never holds again.
Overtaken(r) ==
  origin[r] = "deleting" /\ tombstone[r] = NoDisposal /\ mutation # deletion[r].plan.token

\* What has its marker is disposed of in the end, whichever commits a crash fell
\* between and whatever was written to the registry since, and to the store
\* since the Run was deleted, unless the disposal was overtaken.
DisposalsEnd == \A r \in Runs :
    origin[r] = "deleting" ~> origin[r] = "disposed" \/ Overtaken(r)

\* STORAGE_RETENTION.md:207: a disposal "resumes an interrupted registry/source
\* transition using the same operation ID".
InterruptedDisposalsResume == \A r \in Runs : origin[r] = "deleting" ~> origin[r] = "disposed"
================================================================================
