----------------------------- MODULE Workflow_proofs -----------------------------
(***************************************************************************)
(* Theorems about Workflow, for any tasks, waits, decisions, subscribers   *)
(* and flushers: what the Run says of its tasks agrees with what the       *)
(* Kernel does and still may do with their executions.                     *)
(***************************************************************************)
EXTENDS Workflow, FiniteSetTheorems, TLAPS

-----------------------------------------------------------------------------
(* The inductive invariant.  Everything it says of a Run it says of the    *)
(* committed one with the outbox, and of the private copy of a command     *)
(* under way with the outbox it is going to leave.                         *)

InRun(r, e)      == NumberOf(e) \in DOMAIN r.tasks[TaskOf(e)].attempts
Superseded(r, e) == NumberOf(e) < Len(r.tasks[TaskOf(e)].attempts)

\* The executions a list of intents asks something for, or to be dispatched
Asked(q)      == {e \in Executions : \E m \in DOMAIN q : q[m].execution = e}
Dispatches(q) == {e \in Executions : \E m \in DOMAIN q : q[m].execution = e /\ q[m].kind = "dispatch"}

\* Quiet, if the Kernel shows v and q are the intents
Rested(v, q, e) == \/ v[e].phase \in Terminal
                   \/ v[e] = Kernel!Unknown /\ e \notin Dispatches(q)

Past(r, e) == AttemptOf(r, e).state \in Terminal

AttemptSound(v, q, r, e) ==
    /\ AttemptOf(r, e).state = "planned" => ~AttemptOf(r, e).dispatched
    /\ ~AttemptOf(r, e).dispatched => AttemptOf(r, e).state \in {"planned", "cancelled"}
    /\ Past(r, e) /\ AttemptOf(r, e).dispatched => AttemptOf(r, e).revision > 0
    /\ Past(r, e) \/ Superseded(r, e) \/ r.state = "finished" => Rested(v, q, e)
    /\ \A d \in AttemptOf(r, e).needs : InRun(r, d) /\ Past(r, d)

ExecutionSound(v, q, r, e) ==
    /\ e \in Asked(q) \/ v[e] # Kernel!Unknown => InRun(r, e) /\ AttemptOf(r, e).dispatched
    /\ InRun(r, e) => AttemptSound(v, q, r, e)

TaskSound(r, t) == /\ Len(r.tasks[t].attempts) <= MaxAttempts
                   /\ \A u \in r.tasks[t].deps : Known(r, u)

RunSound(v, q, r) ==
    /\ \A t \in Tasks : TaskSound(r, t)
    /\ \A e \in Executions : ExecutionSound(v, q, r, e)

\* The private copy has every attempt the Run has, with its projection.
Grown(old, new) ==
    /\ new.revision = old.revision
    /\ \A e \in Executions :
          InRun(old, e) => InRun(new, e) /\ AttemptOf(new, e).revision = AttemptOf(old, e).revision

\* The Kernel will not run an execution with this snapshot any more.
Held(snapshot) == snapshot.phase \in Terminal \/ (snapshot.phase = "parked" /\ snapshot.target = "cancelled")

Steps == {"idle", "submit", "precancel", "cancel", "again", "read", "write", "mark"}
Callers(n) == [pc : Steps, batch : Seq(1 .. n), message : 0 .. n, execution : Executions \cup {None},
               seen : Kernel!Snapshots, tries : 0 .. MaxRetries]

\* What a flusher has read and done so far still counts for what it does next.
CallerSound(v, q, c) ==
    /\ c.message # 0 => c.execution = q[c.message].execution
    /\ c.message = 0 => c.pc \in {"idle", "write"}
    /\ c.pc = "submit" => q[c.message].kind = "dispatch"
    /\ c.pc \in {"precancel", "cancel", "again"} => q[c.message].kind = "cancel"
    /\ c.pc \in {"cancel", "again", "read", "write", "mark"} =>
          c.execution \in Executions /\ v[c.execution] # Kernel!Unknown
    /\ c.pc \in {"read", "write", "mark"} /\ c.message # 0 =>
          (q[c.message].kind = "cancel" => Held(v[c.execution]))
    /\ c.pc = "write" /\ c.seen.phase \in Terminal => v[c.execution].phase \in Terminal

\* A command was decided on what the Run and the subscription once were.
CommandSound(c) ==
    /\ c.kind \in {"apply", "acknowledge"} /\ c.ops \in Seq(Operations)
    /\ c.subscription \in Subscriptions \cup {None}
    /\ c.revision \in Nat /\ c.cursor \in Nat /\ c.advance \in Nat
    /\ c.revision <= run.revision
    /\ c.subscription # None =>
          c.cursor <= cursor[c.subscription] /\ c.cursor <= c.advance /\ c.advance <= HighWater

Drafts == [command : sent, at : Nat \ {0}, run : Runs, intents : Seq(Intents)]

Typed ==
    /\ run \in Runs /\ cursor \in [Subscriptions -> Nat] /\ outbox \in Seq(Intents)
    /\ receipts \subseteq sent /\ refused \subseteq sent
    /\ \A c \in sent : CommandSound(c)
    /\ draft = NoDraft \/ draft \in Drafts
    /\ view \in [Executions -> Kernel!Snapshots]
    /\ flusher \in [Flushers -> Callers(Len(outbox))]

Undelivered(q) == \A m \in DOMAIN q : ~q[m].delivered

DraftSound ==
    ~Unlocked => /\ Admissible(draft.command)
                 /\ RunSound(view, outbox \o draft.intents, draft.run)
                 /\ Grown(run, draft.run)
                 /\ Undelivered(draft.intents)

SnapshotSound(s) == /\ s.phase = "absent" => s = Kernel!Unknown
                    /\ s.phase = "parked" => s.target # "none"

WorkInv ==
    /\ Typed
    /\ \A e \in Executions : SnapshotSound(view[e])
    /\ RunSound(view, outbox, run)
    /\ DraftSound
    /\ \A f \in Flushers : CallerSound(view, outbox, flusher[f])
    /\ CancelHolds

-----------------------------------------------------------------------------
(* The data.                                                               *)

LEMMA ExecutionFields ==
    /\ \A e \in Executions : TaskOf(e) \in Tasks /\ NumberOf(e) \in 1 .. MaxAttempts /\ e = <<TaskOf(e), NumberOf(e)>>
    /\ \A t \in Tasks, n \in 1 .. MaxAttempts :
          <<t, n>> \in Executions /\ TaskOf(<<t, n>>) = t /\ NumberOf(<<t, n>>) = n
BY DEF Executions, TaskOf, NumberOf

LEMMA PhaseNames ==
    /\ Terminal = {"done", "cancelled"}
    /\ Kernel!Phases = {"absent", "queued", "active", "parked", "done", "cancelled"}
    /\ Kernel!Unknown \in Kernel!Snapshots /\ Kernel!Unknown.phase = "absent"
    /\ Queued \in Kernel!Snapshots /\ Queued.phase = "queued"
    /\ Tombstone \in Kernel!Snapshots /\ Tombstone.phase = "cancelled"
    /\ \A s \in Kernel!Snapshots : s.phase \in Kernel!Phases /\ s.revision \in Nat /\ s.target \in {"none", "queued", "cancelled"}
BY DEF Terminal, Kernel!Ended, Kernel!Phases, Kernel!Unknown, Kernel!Snapshots, Queued, Tombstone

LEMMA RunFields ==
    ASSUME NEW r \in Runs
    PROVE  /\ r.state \in {"running", "finished"} /\ r.revision \in Nat
           /\ \A t \in Tasks : /\ r.tasks[t].deps \subseteq Tasks
                               /\ r.tasks[t].attempts \in Seq(Attempts)
                               /\ Len(r.tasks[t].attempts) \in Nat
                               /\ DOMAIN r.tasks[t].attempts = 1 .. Len(r.tasks[t].attempts)
                               /\ Known(r, t) <=> Len(r.tasks[t].attempts) # 0
BY DEF Runs, Known

LEMMA AttemptTyped ==
    ASSUME NEW r \in Runs, NEW e \in Executions, InRun(r, e)
    PROVE  /\ AttemptOf(r, e) \in Attempts
           /\ AttemptOf(r, e).state \in Kernel!Phases \cup {"planned", "pending_dispatch"}
           /\ AttemptOf(r, e).dispatched \in BOOLEAN /\ AttemptOf(r, e).revision \in Nat
           /\ AttemptOf(r, e).needs \subseteq Executions
<1>1. AttemptOf(r, e) \in Attempts
  BY ExecutionFields, RunFields DEF InRun, AttemptOf
<1> QED
  BY <1>1 DEF Attempts

\* The last attempt of a task, and that it has not been superseded
LEMMA LatestIs ==
    ASSUME NEW r \in Runs, NEW t \in Tasks, Known(r, t), TaskSound(r, t)
    PROVE  /\ Latest(r, t) \in Executions /\ TaskOf(Latest(r, t)) = t
           /\ InRun(r, Latest(r, t)) /\ ~Superseded(r, Latest(r, t))
           /\ AttemptOf(r, Latest(r, t)) = Current(r, t)
           /\ \A e \in Executions : TaskOf(e) = t /\ InRun(r, e) => e = Latest(r, t) \/ Superseded(r, e)
<1> DEFINE n == Len(r.tasks[t].attempts)
<1>1. n \in 1 .. MaxAttempts /\ Latest(r, t) = <<t, n>>
  BY RunFields, BoundAssumption DEF TaskSound, Latest
<1>2. /\ <<t, n>> \in Executions /\ TaskOf(<<t, n>>) = t /\ NumberOf(<<t, n>>) = n
      /\ DOMAIN r.tasks[t].attempts = 1 .. n
  BY <1>1, ExecutionFields, RunFields
<1>3. \A e \in Executions : TaskOf(e) = t /\ NumberOf(e) \in 1 .. n => e = <<t, n>> \/ NumberOf(e) < n
  BY <1>1, ExecutionFields, BoundAssumption
<1> QED
  BY <1>1, <1>2, <1>3 DEF InRun, Superseded, AttemptOf, Current, Last

-----------------------------------------------------------------------------
(* What one operation makes of the private copy.                           *)

TaskRows == [deps : SUBSET Tasks, attempts : Seq(Attempts)]

\* Attempt a takes the place of e's.
Put(r, new, e, a) ==
    /\ \A t \in Tasks : /\ new.tasks[t].deps = r.tasks[t].deps
                        /\ Len(new.tasks[t].attempts) = Len(r.tasks[t].attempts)
    /\ \A x \in Executions : InRun(r, x) => AttemptOf(new, x) = IF x = e THEN a ELSE AttemptOf(r, x)

\* Attempts stay as they are, but that task t gets one more.
Fresh(r, t) == <<t, Len(r.tasks[t].attempts) + 1>>

Added(r, new, t) ==
    /\ \A u \in Tasks \ {t} : new.tasks[u] = r.tasks[u]
    /\ new.tasks[t].attempts = Append(r.tasks[t].attempts, Planned)

LEMMA SetEffect ==
    ASSUME NEW r \in Runs, NEW e \in Executions, InRun(r, e), NEW a \in Attempts
    PROVE  /\ SetAttempt(r, e, a) \in Runs
           /\ SetAttempt(r, e, a).state = r.state /\ SetAttempt(r, e, a).revision = r.revision
           /\ Put(r, SetAttempt(r, e, a), e, a)
<1> DEFINE t == TaskOf(e)
           n == NumberOf(e)
           list == [r.tasks[t].attempts EXCEPT ![n] = a]
           row == [r.tasks[t] EXCEPT !.attempts = list]
           new == [r EXCEPT !.tasks = [r.tasks EXCEPT ![t] = row]]
<1>1. t \in Tasks /\ n \in 1 .. Len(r.tasks[t].attempts) /\ r.tasks[t].attempts \in Seq(Attempts)
  BY ExecutionFields, RunFields DEF InRun
<1>2. list \in Seq(Attempts) /\ Len(list) = Len(r.tasks[t].attempts)
  BY <1>1
<1>3. \A i \in 1 .. Len(r.tasks[t].attempts) : i # n => list[i] = r.tasks[t].attempts[i]
  BY <1>1
<1>b. list[n] = a
  BY <1>1
<1>4. r.tasks[t] \in TaskRows /\ r.tasks \in [Tasks -> TaskRows]
  BY <1>1 DEF Runs, TaskRows
<1>5. SetAttempt(r, e, a) = new
  BY DEF SetAttempt
<1> HIDE DEF list
<1>a. /\ row.deps = r.tasks[t].deps /\ row.attempts = list /\ row \in TaskRows
  BY <1>2, <1>4 DEF TaskRows
<1> HIDE DEF row
<1>6. /\ new \in Runs /\ new.state = r.state /\ new.revision = r.revision
      /\ \A u \in Tasks : new.tasks[u] = IF u = t THEN row ELSE r.tasks[u]
  BY <1>1, <1>4, <1>a DEF Runs, TaskRows
<1> HIDE DEF new
<1>7. ASSUME NEW x \in Executions, InRun(r, x)
      PROVE  AttemptOf(new, x) = IF x = e THEN a ELSE AttemptOf(r, x)
  <2>1. CASE TaskOf(x) # t
    BY <1>6, <2>1, ExecutionFields DEF AttemptOf
  <2>2. CASE TaskOf(x) = t
    <3>1. AttemptOf(new, x) = list[NumberOf(x)]
      BY <1>a, <1>6, <2>2, ExecutionFields DEF AttemptOf
    <3>2. x = e <=> NumberOf(x) = n
      BY <2>2, ExecutionFields
    <3>3. NumberOf(x) \in 1 .. Len(r.tasks[t].attempts)
      BY <1>1, <1>7, <2>2, RunFields, ExecutionFields DEF InRun
    <3>4. list[NumberOf(x)] = IF NumberOf(x) = n THEN a ELSE r.tasks[t].attempts[NumberOf(x)]
      BY <1>3, <1>b, <3>3
    <3> QED
      BY <2>2, <3>1, <3>2, <3>4 DEF AttemptOf
  <2> QED
    BY <2>1, <2>2
<1>8. \A u \in Tasks : /\ new.tasks[u].deps = r.tasks[u].deps
                      /\ Len(new.tasks[u].attempts) = Len(r.tasks[u].attempts)
  BY <1>2, <1>a, <1>6
<1> QED
  BY <1>5, <1>6, <1>7, <1>8 DEF Put

\* A task gets an attempt: with its first one the task itself.
LEMMA AddedEffect ==
    ASSUME NEW r \in Runs, NEW new \in Runs, NEW t \in Tasks, Added(r, new, t)
    PROVE  /\ Len(new.tasks[t].attempts) = Len(r.tasks[t].attempts) + 1
           /\ \A x \in Executions :
                 /\ InRun(new, x) <=> InRun(r, x) \/ x = Fresh(r, t)
                 /\ InRun(r, x) => x # Fresh(r, t) /\ AttemptOf(new, x) = AttemptOf(r, x)
                 /\ InRun(r, x) /\ Superseded(new, x) => Superseded(r, x) \/ x = Latest(r, t)
                 /\ x = Fresh(r, t) => AttemptOf(new, x) = Planned /\ ~Superseded(new, x)
<1> DEFINE old == r.tasks[t].attempts
           list == new.tasks[t].attempts
           n == Len(old)
<1>1. old \in Seq(Attempts) /\ list \in Seq(Attempts) /\ n \in Nat /\ Planned \in Attempts
  BY RunFields DEF Planned, Attempts
<1>2. list = Append(old, Planned)
  BY DEF Added
<1>3. /\ Len(list) = n + 1 /\ DOMAIN list = 1 .. n + 1 /\ DOMAIN old = 1 .. n
      /\ \A i \in 1 .. n : list[i] = old[i]
      /\ list[n + 1] = Planned
  BY <1>1, <1>2
<1> HIDE DEF old, list, n
<1>4. ASSUME NEW x \in Executions
      PROVE  /\ InRun(new, x) <=> InRun(r, x) \/ x = Fresh(r, t)
             /\ InRun(r, x) => x # Fresh(r, t) /\ AttemptOf(new, x) = AttemptOf(r, x)
             /\ InRun(r, x) /\ Superseded(new, x) => Superseded(r, x) \/ x = Latest(r, t)
             /\ x = Fresh(r, t) => AttemptOf(new, x) = Planned /\ ~Superseded(new, x)
  <2>1. CASE TaskOf(x) # t
    <3>1. new.tasks[TaskOf(x)] = r.tasks[TaskOf(x)] /\ x # Fresh(r, t)
      BY <2>1, ExecutionFields DEF Added, Fresh
    <3> QED
      BY <3>1 DEF InRun, AttemptOf, Superseded
  <2>2. CASE TaskOf(x) = t
    <3>1. NumberOf(x) \in Nat \ {0} /\ x = <<t, NumberOf(x)>>
      BY <2>2, ExecutionFields, BoundAssumption
    <3>2. /\ InRun(new, x) <=> NumberOf(x) \in 1 .. n + 1
          /\ InRun(r, x) <=> NumberOf(x) \in 1 .. n
          /\ Superseded(new, x) <=> NumberOf(x) < n + 1
          /\ Superseded(r, x) <=> NumberOf(x) < n
          /\ AttemptOf(new, x) = list[NumberOf(x)] /\ AttemptOf(r, x) = old[NumberOf(x)]
      BY <1>3, <2>2 DEF InRun, Superseded, AttemptOf, old, list, n
    <3>3. (x = Fresh(r, t) <=> NumberOf(x) = n + 1) /\ (x = Latest(r, t) <=> NumberOf(x) = n)
      BY <3>1 DEF Fresh, Latest, n, old
    <3> QED
      BY <1>1, <1>3, <3>1, <3>2, <3>3
  <2> QED
    BY <2>1, <2>2
<1> QED
  BY <1>3, <1>4 DEF list, n, old

LEMMA OperationFields ==
    ASSUME NEW op \in Operations
    PROVE  /\ op.kind \in {"add_task", "set_dependencies", "new_attempt", "dispatch", "cancel", "wait", "release_wait", "finish"}
           /\ op.kind \in {"add_task", "set_dependencies", "new_attempt", "dispatch", "cancel"} => op.task \in Tasks
           /\ op.kind \in {"add_task", "set_dependencies"} => op.deps \subseteq Tasks
           /\ op.kind \in {"wait", "release_wait"} => op.wait \in Waits
BY DEF Operations

\* The five things an operation may be for the attempts.
Plans(r, op) ==
    /\ IntentsOf(r, op) = <<>> /\ Reduced(r, op).state = r.state
    /\ \E t \in Tasks : /\ Added(r, Reduced(r, op), t) /\ Fresh(r, t) \in Executions
                        /\ Known(r, t) => Settled(r, t)

Asks(r, op, kind) ==
    /\ op.task \in Tasks /\ Known(r, op.task)
    /\ IntentsOf(r, op) = <<Intent(kind, Latest(r, op.task))>>

Dispatched(r, t) == [Current(r, t) EXCEPT !.state = "pending_dispatch", !.dispatched = TRUE,
                                          !.needs = {Latest(r, u) : u \in r.tasks[t].deps}]

Starts(r, op) ==
    /\ Asks(r, op, "dispatch") /\ MayDispatch(r, op.task)
    /\ Reduced(r, op) = SetAttempt(r, Latest(r, op.task), Dispatched(r, op.task))

Stops(r, op) ==
    /\ Asks(r, op, "cancel") /\ Reduced(r, op) = r
    /\ Current(r, op.task).state \notin Terminal \cup {"planned"}

Drops(r, op) ==
    /\ op.task \in Tasks /\ Known(r, op.task) /\ Current(r, op.task).state = "planned"
    /\ IntentsOf(r, op) = <<>>
    /\ Reduced(r, op) = SetAttempt(r, Latest(r, op.task), [Current(r, op.task) EXCEPT !.state = "cancelled"])

Arranges(r, op) ==
    /\ IntentsOf(r, op) = <<>>
    /\ \A t \in Tasks : Reduced(r, op).tasks[t].attempts = r.tasks[t].attempts
    /\ Reduced(r, op).state = r.state \/ MayFinish(r)

Outcome(r, op) ==
    /\ Reduced(r, op) \in Runs /\ Reduced(r, op).revision = r.revision
    /\ \A t \in Tasks : TaskSound(Reduced(r, op), t)
    /\ Plans(r, op) \/ Starts(r, op) \/ Stops(r, op) \/ Drops(r, op) \/ Arranges(r, op)

LEMMA AddTaskOutcome ==
    ASSUME NEW r \in Runs, NEW op \in Operations, Allowed(r, op), \A t \in Tasks : TaskSound(r, t),
           op.kind = "add_task"
    PROVE  Outcome(r, op)
<1> DEFINE t == op.task
           row == [deps |-> op.deps, attempts |-> <<Planned>>]
           new == [r EXCEPT !.tasks[t] = row]
<1>1. t \in Tasks /\ op.deps \in SUBSET Tasks /\ ~Known(r, t) /\ \A u \in op.deps : Known(r, u)
  BY OperationFields DEF Allowed, ValidDependencies
<1>2. Planned \in Attempts
  BY PhaseNames DEF Planned, Attempts
<1>3. row \in TaskRows /\ row.deps = op.deps /\ row.attempts = <<Planned>> /\ Len(row.attempts) = 1
  BY <1>1, <1>2 DEF TaskRows
<1>4. Reduced(r, op) = new /\ IntentsOf(r, op) = <<>>
  BY DEF Reduced, IntentsOf
<1> HIDE DEF row
<1>5. /\ new \in Runs /\ new.state = r.state /\ new.revision = r.revision
      /\ \A u \in Tasks : new.tasks[u] = IF u = t THEN row ELSE r.tasks[u]
  BY <1>1, <1>3 DEF Runs, TaskRows
<1> HIDE DEF new
<1>6. r.tasks[t].attempts = <<>> /\ Len(r.tasks[t].attempts) = 0
  BY <1>1, RunFields DEF Known
<1>7. Added(r, new, t)
  BY <1>1, <1>3, <1>5, <1>6 DEF Added
<1>8. Fresh(r, t) \in Executions
  BY <1>1, <1>6, ExecutionFields, BoundAssumption DEF Fresh
<1>9. \A u \in Tasks : Known(r, u) => Known(new, u)
  BY <1>1, <1>5 DEF Known
<1>10. \A u \in Tasks : TaskSound(new, u)
  <2> SUFFICES ASSUME NEW u \in Tasks PROVE TaskSound(new, u)
    OBVIOUS
  <2>1. CASE u = t
    <3>1. new.tasks[u].deps = op.deps /\ Len(new.tasks[u].attempts) = 1
      BY <1>1, <1>3, <1>5, <2>1
    <3>2. \A x \in op.deps : Known(new, x)
      BY <1>1, <1>9
    <3> QED
      BY <3>1, <3>2, BoundAssumption DEF TaskSound
  <2>2. CASE u # t
    BY <1>5, <1>9, <2>2, RunFields DEF TaskSound
  <2> QED
    BY <2>1, <2>2
<1> QED
  BY <1>1, <1>4, <1>5, <1>7, <1>8, <1>10 DEF Outcome, Plans

LEMMA DependenciesOutcome ==
    ASSUME NEW r \in Runs, NEW op \in Operations, Allowed(r, op), \A t \in Tasks : TaskSound(r, t),
           op.kind = "set_dependencies"
    PROVE  Outcome(r, op)
<1> DEFINE t == op.task
           row == [r.tasks[t] EXCEPT !.deps = op.deps]
           new == [r EXCEPT !.tasks[t] = row]
<1>1. t \in Tasks /\ op.deps \in SUBSET Tasks /\ \A u \in op.deps : Known(r, u)
  BY OperationFields DEF Allowed, ValidDependencies
<1>2. r.tasks[t] \in TaskRows
  BY <1>1 DEF Runs, TaskRows
<1>3. row \in TaskRows /\ row.deps = op.deps /\ row.attempts = r.tasks[t].attempts
  BY <1>1, <1>2 DEF TaskRows
<1>4. Reduced(r, op) = new /\ IntentsOf(r, op) = <<>>
  BY DEF Reduced, IntentsOf
<1> HIDE DEF row
<1>5. /\ new \in Runs /\ new.state = r.state /\ new.revision = r.revision
      /\ \A u \in Tasks : new.tasks[u] = IF u = t THEN row ELSE r.tasks[u]
  BY <1>1, <1>3 DEF Runs, TaskRows
<1> HIDE DEF new
<1>6. \A u \in Tasks : new.tasks[u].attempts = r.tasks[u].attempts
  BY <1>3, <1>5
<1>7. \A u \in Tasks : TaskSound(new, u)
  BY <1>1, <1>3, <1>5, <1>6, RunFields DEF TaskSound, Known
<1> QED
  BY <1>4, <1>5, <1>6, <1>7 DEF Outcome, Arranges

LEMMA NewAttemptOutcome ==
    ASSUME NEW r \in Runs, NEW op \in Operations, Allowed(r, op), \A t \in Tasks : TaskSound(r, t),
           op.kind = "new_attempt"
    PROVE  Outcome(r, op)
<1> DEFINE t == op.task
           list == Append(r.tasks[t].attempts, Planned)
           row == [r.tasks[t] EXCEPT !.attempts = list]
           new == [r EXCEPT !.tasks[t] = row]
<1>1. t \in Tasks /\ Known(r, t) /\ Settled(r, t) /\ Len(r.tasks[t].attempts) < MaxAttempts
  BY OperationFields DEF Allowed, MayRestart
<1>2. r.tasks[t] \in TaskRows /\ Planned \in Attempts /\ r.tasks[t].attempts \in Seq(Attempts)
  BY <1>1, PhaseNames DEF Runs, TaskRows, Planned, Attempts
<1>3. list \in Seq(Attempts) /\ Len(list) = Len(r.tasks[t].attempts) + 1
  BY <1>2
<1>4. Reduced(r, op) = new /\ IntentsOf(r, op) = <<>>
  BY DEF Reduced, IntentsOf
<1>5. row \in TaskRows /\ row.deps = r.tasks[t].deps /\ row.attempts = list
  BY <1>2, <1>3 DEF TaskRows
<1>6. list = Append(r.tasks[t].attempts, Planned)
  OBVIOUS
<1> HIDE DEF row, list
<1>7. /\ new \in Runs /\ new.state = r.state /\ new.revision = r.revision
      /\ \A u \in Tasks : new.tasks[u] = IF u = t THEN row ELSE r.tasks[u]
  BY <1>1, <1>5 DEF Runs, TaskRows
<1> HIDE DEF new
<1>8. Added(r, new, t)
  BY <1>1, <1>5, <1>6, <1>7 DEF Added
<1>9. Len(r.tasks[t].attempts) \in Nat
  BY <1>1, RunFields
<1>10. Fresh(r, t) \in Executions
  BY <1>1, <1>9, ExecutionFields, BoundAssumption DEF Fresh
<1>11. \A u \in Tasks : Known(r, u) => Known(new, u)
  <2>1. Len(new.tasks[t].attempts) # 0
    BY <1>1, <1>3, <1>5, <1>7, <1>9
  <2>2. \A u \in Tasks \ {t} : Known(r, u) => Known(new, u)
    BY <1>7 DEF Known
  <2> QED
    BY <1>1, <1>7, <2>1, <2>2, RunFields
<1>12. \A u \in Tasks : TaskSound(new, u)
  <2> SUFFICES ASSUME NEW u \in Tasks PROVE TaskSound(new, u)
    OBVIOUS
  <2>1. CASE u = t
    <3>1. new.tasks[u].deps = r.tasks[t].deps /\ Len(new.tasks[u].attempts) = Len(r.tasks[t].attempts) + 1
      BY <1>1, <1>3, <1>5, <1>7, <2>1
    <3>2. \A x \in r.tasks[t].deps : Known(new, x)
      BY <1>1, <1>11, RunFields DEF TaskSound
    <3> QED
      BY <1>1, <1>9, <3>1, <3>2, BoundAssumption DEF TaskSound
  <2>2. CASE u # t
    BY <1>7, <1>11, <2>2, RunFields DEF TaskSound
  <2> QED
    BY <2>1, <2>2
<1> QED
  BY <1>1, <1>4, <1>7, <1>8, <1>10, <1>12 DEF Outcome, Plans

LEMMA CurrentTyped ==
    ASSUME NEW r \in Runs, NEW t \in Tasks, Known(r, t)
    PROVE  Current(r, t) \in Attempts
<1>1. r.tasks[t].attempts \in Seq(Attempts) /\ Len(r.tasks[t].attempts) \in Nat \ {0}
  BY RunFields
<1> QED
  BY <1>1 DEF Current, Last

\* A run with another attempt in the place of one is as sound a list of tasks.
LEMMA PutTasks ==
    ASSUME NEW r \in Runs, NEW new \in Runs, NEW e, NEW a, Put(r, new, e, a), \A t \in Tasks : TaskSound(r, t)
    PROVE  \A t \in Tasks : TaskSound(new, t)
<1>1. \A t \in Tasks : Known(new, t) <=> Known(r, t)
  BY RunFields DEF Put
<1> QED
  BY <1>1, RunFields DEF TaskSound, Put

LEMMA DispatchOutcome ==
    ASSUME NEW r \in Runs, NEW op \in Operations, Allowed(r, op), \A t \in Tasks : TaskSound(r, t),
           op.kind = "dispatch"
    PROVE  Outcome(r, op)
<1> DEFINE t == op.task
           e == Latest(r, t)
           a == Dispatched(r, t)
<1>1. t \in Tasks /\ Known(r, t) /\ MayDispatch(r, t)
  BY OperationFields DEF Allowed
<1>2. e \in Executions /\ InRun(r, e)
  BY <1>1, LatestIs
<1>3. \A u \in r.tasks[t].deps : Latest(r, u) \in Executions
  BY <1>1, RunFields, LatestIs DEF TaskSound
<1>4. a \in Attempts
  <2> DEFINE needs == {Latest(r, u) : u \in r.tasks[t].deps}
  <2>1. needs \in SUBSET Executions
    BY <1>3
  <2>2. a = [Current(r, t) EXCEPT !.state = "pending_dispatch", !.dispatched = TRUE, !.needs = needs]
    BY DEF Dispatched
  <2>3. Current(r, t) \in Attempts
    BY <1>1, CurrentTyped
  <2> HIDE DEF needs, a
  <2> QED
    BY <2>1, <2>2, <2>3 DEF Attempts
<1>5. Reduced(r, op) = SetAttempt(r, e, a) /\ IntentsOf(r, op) = <<Intent("dispatch", e)>>
  BY DEF Reduced, IntentsOf, Dispatched
<1> HIDE DEF e, a
<1>6. /\ SetAttempt(r, e, a) \in Runs
      /\ SetAttempt(r, e, a).state = r.state /\ SetAttempt(r, e, a).revision = r.revision
      /\ Put(r, SetAttempt(r, e, a), e, a)
  BY <1>2, <1>4, SetEffect
<1>7. \A u \in Tasks : TaskSound(SetAttempt(r, e, a), u)
  BY <1>6, PutTasks
<1> QED
  BY <1>1, <1>5, <1>6, <1>7 DEF Outcome, Starts, Asks, e, a

LEMMA CancelOutcome ==
    ASSUME NEW r \in Runs, NEW op \in Operations, Allowed(r, op), \A t \in Tasks : TaskSound(r, t),
           op.kind = "cancel"
    PROVE  Outcome(r, op)
<1> DEFINE t == op.task
           e == Latest(r, t)
           a == [Current(r, t) EXCEPT !.state = "cancelled"]
<1>1. t \in Tasks /\ Known(r, t)
  BY OperationFields DEF Allowed
<1>2. CASE Current(r, t).state = "planned"
  <2>1. e \in Executions /\ InRun(r, e)
    BY <1>1, LatestIs
  <2>2. a \in Attempts
    BY <1>1, CurrentTyped, PhaseNames DEF Attempts
  <2>3. Reduced(r, op) = SetAttempt(r, e, a) /\ IntentsOf(r, op) = <<>>
    BY <1>2 DEF Reduced, IntentsOf, CancelledAtOnce
  <2> HIDE DEF e, a
  <2>4. /\ SetAttempt(r, e, a) \in Runs
        /\ SetAttempt(r, e, a).state = r.state /\ SetAttempt(r, e, a).revision = r.revision
        /\ Put(r, SetAttempt(r, e, a), e, a)
    BY <2>1, <2>2, SetEffect
  <2>5. \A u \in Tasks : TaskSound(SetAttempt(r, e, a), u)
    BY <2>4, PutTasks
  <2> QED
    BY <1>1, <1>2, <2>3, <2>4, <2>5 DEF Outcome, Drops, e, a
<1>3. CASE Current(r, t).state # "planned" /\ Settled(r, t)
  <2>1. Reduced(r, op) = r /\ IntentsOf(r, op) = <<>>
    BY <1>3 DEF Reduced, IntentsOf, CancelledAtOnce
  <2> QED
    BY <2>1 DEF Outcome, Arranges
<1>4. CASE Current(r, t).state # "planned" /\ ~Settled(r, t)
  <2>1. Reduced(r, op) = r /\ IntentsOf(r, op) = <<Intent("cancel", e)>>
    BY <1>4 DEF Reduced, IntentsOf, CancelledAtOnce
  <2> QED
    BY <1>1, <1>4, <2>1 DEF Outcome, Stops, Asks, Settled
<1> QED
  BY <1>2, <1>3, <1>4

LEMMA OtherOutcome ==
    ASSUME NEW r \in Runs, NEW op \in Operations, Allowed(r, op), \A t \in Tasks : TaskSound(r, t),
           op.kind \in {"wait", "release_wait", "finish"}
    PROVE  Outcome(r, op)
<1>1. CASE op.kind = "wait"
  <2>1. Reduced(r, op) = [r EXCEPT !.waits[op.wait] = "open"] /\ IntentsOf(r, op) = <<>>
    BY <1>1 DEF Reduced, IntentsOf
  <2>2. Reduced(r, op) \in Runs /\ Reduced(r, op).revision = r.revision /\ Reduced(r, op).state = r.state
        /\ Reduced(r, op).tasks = r.tasks
    <3> DEFINE waits == [r.waits EXCEPT ![op.wait] = "open"]
    <3>1. waits \in [Waits -> {"none", "open", "released"}]
      BY <1>1, OperationFields DEF Runs
    <3>2. Reduced(r, op) = [r EXCEPT !.waits = waits]
      BY <2>1
    <3> HIDE DEF waits
    <3> QED
      BY <3>1, <3>2 DEF Runs
  <2> QED
    BY <2>1, <2>2 DEF Outcome, Arranges, TaskSound, Known
<1>2. CASE op.kind = "release_wait"
  <2>1. Reduced(r, op) = [r EXCEPT !.waits[op.wait] = "released"] /\ IntentsOf(r, op) = <<>>
    BY <1>2 DEF Reduced, IntentsOf
  <2>2. Reduced(r, op) \in Runs /\ Reduced(r, op).revision = r.revision /\ Reduced(r, op).state = r.state
        /\ Reduced(r, op).tasks = r.tasks
    <3> DEFINE waits == [r.waits EXCEPT ![op.wait] = "released"]
    <3>1. waits \in [Waits -> {"none", "open", "released"}]
      BY <1>2, OperationFields DEF Runs
    <3>2. Reduced(r, op) = [r EXCEPT !.waits = waits]
      BY <2>1
    <3> HIDE DEF waits
    <3> QED
      BY <3>1, <3>2 DEF Runs
  <2> QED
    BY <2>1, <2>2 DEF Outcome, Arranges, TaskSound, Known
<1>3. CASE op.kind = "finish"
  <2>1. Reduced(r, op) = [r EXCEPT !.state = "finished"] /\ IntentsOf(r, op) = <<>> /\ MayFinish(r)
    BY <1>3 DEF Reduced, IntentsOf, Allowed
  <2>2. Reduced(r, op) \in Runs /\ Reduced(r, op).revision = r.revision /\ Reduced(r, op).tasks = r.tasks
    BY <2>1 DEF Runs
  <2> QED
    BY <2>1, <2>2 DEF Outcome, Arranges, TaskSound, Known
<1> QED
  BY <1>1, <1>2, <1>3

LEMMA OperationOutcome ==
    ASSUME NEW r \in Runs, NEW op \in Operations, Allowed(r, op), \A t \in Tasks : TaskSound(r, t)
    PROVE  Outcome(r, op)
BY OperationFields, AddTaskOutcome, DependenciesOutcome, NewAttemptOutcome, DispatchOutcome, CancelOutcome, OtherOutcome

-----------------------------------------------------------------------------
(* A sound Run stays sound when a command does one thing more to it.       *)

LEMMA AskedAppended ==
    ASSUME NEW q \in Seq(Intents), NEW i \in Intents
    PROVE  /\ q \o <<i>> \in Seq(Intents)
           /\ Asked(q \o <<i>>) = Asked(q) \cup {i.execution}
           /\ Dispatches(q \o <<i>>) = Dispatches(q) \cup (IF i.kind = "dispatch" THEN {i.execution} ELSE {})
<1> DEFINE p == q \o <<i>>
           n == Len(q)
<1>1. /\ p \in Seq(Intents) /\ n \in Nat /\ DOMAIN p = 1 .. n + 1 /\ DOMAIN q = 1 .. n
      /\ \A m \in 1 .. n : p[m] = q[m]
      /\ p[n + 1] = i
  OBVIOUS
<1> HIDE DEF p, n
<1>2. i.execution \in Executions
  BY DEF Intents
<1>3. Asked(p) = Asked(q) \cup {i.execution}
  BY <1>1, <1>2 DEF Asked
<1>4. Dispatches(p) = Dispatches(q) \cup (IF i.kind = "dispatch" THEN {i.execution} ELSE {})
  BY <1>1, <1>2 DEF Dispatches
<1> QED
  BY <1>1, <1>3, <1>4 DEF p

LEMMA DispatchesAreAsked == \A q : Dispatches(q) \subseteq Asked(q)
BY DEF Dispatches, Asked

\* Nothing has been asked for an attempt that was not dispatched.
LEMMA UndispatchedIsUnasked ==
    ASSUME NEW v, NEW q, NEW r, RunSound(v, q, r), NEW e \in Executions,
           ~InRun(r, e) \/ ~AttemptOf(r, e).dispatched
    PROVE  e \notin Asked(q) /\ v[e] = Kernel!Unknown
BY DEF RunSound, ExecutionSound

Moved(v, q, r, new) ==
    /\ RunSound(v, q, new)
    /\ \A e \in Executions : InRun(r, e) => InRun(new, e) /\ AttemptOf(new, e).revision = AttemptOf(r, e).revision

LEMMA PlansSound ==
    ASSUME NEW v \in [Executions -> Kernel!Snapshots], NEW q \in Seq(Intents), NEW r \in Runs,
           RunSound(v, q, r), r.state = "running", NEW new \in Runs, new.state = r.state,
           \A t \in Tasks : TaskSound(new, t),
           NEW t \in Tasks, Added(r, new, t), Known(r, t) => Settled(r, t)
    PROVE  Moved(v, q, r, new)
<1>1. ASSUME NEW e \in Executions
      PROVE  /\ ExecutionSound(v, q, new, e)
             /\ InRun(r, e) => InRun(new, e) /\ AttemptOf(new, e).revision = AttemptOf(r, e).revision
  <2>1. /\ InRun(new, e) <=> InRun(r, e) \/ e = Fresh(r, t)
        /\ InRun(r, e) => e # Fresh(r, t) /\ AttemptOf(new, e) = AttemptOf(r, e)
        /\ InRun(r, e) /\ Superseded(new, e) => Superseded(r, e) \/ e = Latest(r, t)
        /\ e = Fresh(r, t) => AttemptOf(new, e) = Planned /\ ~Superseded(new, e)
    BY AddedEffect
  <2>2. \A d \in Executions : InRun(r, d) => InRun(new, d) /\ AttemptOf(new, d) = AttemptOf(r, d)
    BY AddedEffect
  <2>3. ExecutionSound(v, q, r, e)
    BY DEF RunSound
  <2>4. CASE InRun(r, e)
    <3>1. AttemptSound(v, q, r, e) /\ AttemptOf(r, e).needs \subseteq Executions
      BY <2>3, <2>4, AttemptTyped DEF ExecutionSound
    <3>2. Superseded(new, e) => Rested(v, q, e)
      <4>1. CASE Superseded(r, e)
        BY <3>1, <4>1 DEF AttemptSound
      <4>2. CASE e = Latest(r, t) /\ Known(r, t)
        <5>1. Past(r, e)
          BY <4>2, LatestIs DEF RunSound, Settled, Past
        <5> QED
          BY <3>1, <5>1 DEF AttemptSound
      <4>3. e = Latest(r, t) => Known(r, t)
        BY <2>4, ExecutionFields, RunFields, BoundAssumption DEF Latest, InRun
      <4> QED
        BY <2>1, <2>4, <4>1, <4>2, <4>3
    <3>3. AttemptSound(v, q, new, e)
      BY <2>1, <2>2, <2>4, <3>1, <3>2 DEF AttemptSound, Past
    <3> QED
      BY <2>1, <2>3, <2>4, <3>3 DEF ExecutionSound
  <2>5. CASE ~InRun(r, e) /\ e = Fresh(r, t)
    <3>1. AttemptSound(v, q, new, e)
      BY <2>1, <2>5, PhaseNames DEF AttemptSound, Past, Planned
    <3>2. e \notin Asked(q) /\ v[e] = Kernel!Unknown
      BY <2>5, UndispatchedIsUnasked
    <3> QED
      BY <2>5, <3>1, <3>2 DEF ExecutionSound
  <2>6. CASE ~InRun(r, e) /\ e # Fresh(r, t)
    BY <2>1, <2>3, <2>6 DEF ExecutionSound
  <2> QED
    BY <2>4, <2>5, <2>6
<1> QED
  BY <1>1 DEF Moved, RunSound

\* Attempt a takes the place of one that was only planned.
LEMMA PutSound ==
    ASSUME NEW v \in [Executions -> Kernel!Snapshots], NEW q \in Seq(Intents), NEW p \in Seq(Intents),
           NEW r \in Runs, RunSound(v, q, r), r.state = "running", NEW new \in Runs, new.state = r.state,
           NEW e \in Executions, NEW a \in Attempts, Put(r, new, e, a),
           InRun(r, e), AttemptOf(r, e).state = "planned", ~Superseded(r, e), a.revision = AttemptOf(r, e).revision,
           \A x \in Executions \ {e} : x \in Asked(p) => x \in Asked(q),
           \A x \in Executions \ {e} : x \in Dispatches(p) => x \in Dispatches(q),
           AttemptSound(v, p, new, e), e \in Asked(p) => a.dispatched
    PROVE  Moved(v, p, r, new)
<1>1. \A x \in Executions : /\ InRun(new, x) <=> InRun(r, x)
                            /\ Superseded(new, x) <=> Superseded(r, x)
                            /\ InRun(r, x) => AttemptOf(new, x) = IF x = e THEN a ELSE AttemptOf(r, x)
  <2>1. \A t \in Tasks : /\ Len(new.tasks[t].attempts) = Len(r.tasks[t].attempts)
                         /\ DOMAIN new.tasks[t].attempts = DOMAIN r.tasks[t].attempts
    BY RunFields DEF Put
  <2> QED
    BY <2>1, ExecutionFields DEF InRun, Superseded, Put
<1>2. ~AttemptOf(r, e).dispatched /\ v[e] = Kernel!Unknown /\ ~Past(r, e)
  <2>1. AttemptSound(v, q, r, e)
    BY DEF RunSound, ExecutionSound
  <2>2. ~AttemptOf(r, e).dispatched
    BY <2>1 DEF AttemptSound
  <2> QED
    BY <2>2, UndispatchedIsUnasked, PhaseNames DEF Past
<1>3. ASSUME NEW x \in Executions, x # e
      PROVE  ExecutionSound(v, p, new, x)
  <2>1. ExecutionSound(v, q, r, x)
    BY DEF RunSound
  <2>2. Rested(v, q, x) => Rested(v, p, x)
    BY <1>3 DEF Rested
  <2>3. CASE InRun(r, x)
    <3>1. AttemptSound(v, q, r, x) /\ AttemptOf(r, x).needs \subseteq Executions
      BY <2>1, <2>3, AttemptTyped DEF ExecutionSound
    <3>2. AttemptOf(new, x) = AttemptOf(r, x)
      BY <1>1, <1>3, <2>3
    <3>3. \A d \in AttemptOf(r, x).needs : InRun(new, d) /\ Past(new, d)
      BY <1>1, <1>2, <3>1 DEF AttemptSound, Past
    <3>4. AttemptSound(v, p, new, x)
      BY <1>1, <2>2, <3>1, <3>2, <3>3 DEF AttemptSound, Past
    <3> QED
      BY <1>1, <1>3, <2>1, <2>3, <3>2, <3>4 DEF ExecutionSound
  <2>4. CASE ~InRun(r, x)
    BY <1>1, <1>3, <2>1, <2>4 DEF ExecutionSound
  <2> QED
    BY <2>3, <2>4
<1>4. ExecutionSound(v, p, new, e)
  BY <1>1, <1>2 DEF ExecutionSound
<1>5. \A t \in Tasks : TaskSound(new, t)
  BY PutTasks DEF RunSound
<1> QED
  BY <1>1, <1>3, <1>4, <1>5 DEF Moved, RunSound

LEMMA StartsSound ==
    ASSUME NEW v \in [Executions -> Kernel!Snapshots], NEW q \in Seq(Intents), NEW r \in Runs,
           NEW op \in Operations, RunSound(v, q, r), r.state = "running", Starts(r, op)
    PROVE  Moved(v, q \o IntentsOf(r, op), r, Reduced(r, op)) /\ IntentsOf(r, op) \in Seq(Intents)
<1> DEFINE t == op.task
           e == Latest(r, t)
           a == Dispatched(r, t)
           i == Intent("dispatch", e)
           new == SetAttempt(r, e, a)
<1>1. /\ t \in Tasks /\ Known(r, t) /\ Current(r, t).state = "planned"
      /\ \A u \in r.tasks[t].deps : Settled(r, u)
      /\ IntentsOf(r, op) = <<i>> /\ Reduced(r, op) = new
  BY DEF Starts, Asks, MayDispatch
<1>2. /\ e \in Executions /\ InRun(r, e) /\ ~Superseded(r, e) /\ AttemptOf(r, e) = Current(r, t)
      /\ TaskSound(r, t) /\ Current(r, t) \in Attempts
  BY <1>1, LatestIs, CurrentTyped DEF RunSound
<1>3. \A u \in r.tasks[t].deps : /\ Latest(r, u) \in Executions /\ InRun(r, Latest(r, u))
                                 /\ Past(r, Latest(r, u))
  <2> SUFFICES ASSUME NEW u \in r.tasks[t].deps
               PROVE  Latest(r, u) \in Executions /\ InRun(r, Latest(r, u)) /\ Past(r, Latest(r, u))
    OBVIOUS
  <2>1. u \in Tasks /\ Known(r, u) /\ TaskSound(r, u)
    BY <1>1, <1>2, RunFields DEF TaskSound, RunSound
  <2> QED
    BY <1>1, <2>1, LatestIs DEF Past, Settled
<1>4. a.state = "pending_dispatch" /\ a.dispatched /\ a.revision = AttemptOf(r, e).revision
      /\ a.needs = {Latest(r, u) : u \in r.tasks[t].deps} /\ a \in Attempts
  <2> DEFINE needs == {Latest(r, u) : u \in r.tasks[t].deps}
  <2>1. needs \in SUBSET Executions
    BY <1>3
  <2>2. a = [Current(r, t) EXCEPT !.state = "pending_dispatch", !.dispatched = TRUE, !.needs = needs]
    BY DEF Dispatched
  <2> HIDE DEF needs, a
  <2>3. /\ a.state = "pending_dispatch" /\ a.dispatched = TRUE /\ a.revision = Current(r, t).revision
        /\ a.needs = needs /\ a \in Attempts
    BY <1>2, <2>1, <2>2 DEF Attempts
  <2> QED
    BY <1>2, <2>3 DEF needs
<1>5. i \in Intents /\ i.execution = e /\ i.kind = "dispatch"
  BY <1>2 DEF Intents, Intent
<1> HIDE DEF e, a, i, new
<1>6. /\ new \in Runs /\ new.state = r.state /\ Put(r, new, e, a)
  BY <1>2, <1>4, SetEffect DEF new
<1> DEFINE p == q \o <<i>>
<1>7. p \in Seq(Intents) /\ Asked(p) = Asked(q) \cup {e} /\ Dispatches(p) = Dispatches(q) \cup {e}
  BY <1>5, AskedAppended
<1> HIDE DEF p
<1>8. AttemptOf(new, e) = a /\ \A d \in Executions : InRun(r, d) => InRun(new, d) /\ (Past(r, d) => Past(new, d))
  <2>1. \A d \in Executions : InRun(r, d) => InRun(new, d)
    <3>1. \A u \in Tasks : DOMAIN new.tasks[u].attempts = DOMAIN r.tasks[u].attempts
      BY <1>6, RunFields DEF Put
    <3> QED
      BY <3>1, ExecutionFields DEF InRun
  <2>2. ~Past(r, e)
    BY <1>1, <1>2, PhaseNames DEF Past
  <2> QED
    BY <1>2, <1>6, <2>1, <2>2 DEF Put, Past
<1>9. ~Superseded(new, e)
  BY <1>2, <1>6, ExecutionFields DEF Superseded, Put
<1>10. AttemptSound(v, p, new, e)
  <2>1. ~Past(new, e)
    BY <1>4, <1>8, PhaseNames DEF Past
  <2>2. \A d \in AttemptOf(new, e).needs : InRun(new, d) /\ Past(new, d)
    BY <1>3, <1>4, <1>8
  <2> QED
    BY <1>4, <1>6, <1>8, <1>9, <2>1, <2>2 DEF AttemptSound
<1>11. Moved(v, p, r, new)
  BY <1>1, <1>2, <1>4, <1>6, <1>7, <1>10, PutSound
<1> QED
  BY <1>1, <1>5, <1>11 DEF p

LEMMA DropsSound ==
    ASSUME NEW v \in [Executions -> Kernel!Snapshots], NEW q \in Seq(Intents), NEW r \in Runs,
           NEW op \in Operations, RunSound(v, q, r), r.state = "running", Drops(r, op)
    PROVE  Moved(v, q, r, Reduced(r, op))
<1> DEFINE t == op.task
           e == Latest(r, t)
           a == [Current(r, t) EXCEPT !.state = "cancelled"]
           new == SetAttempt(r, e, a)
<1>1. t \in Tasks /\ Known(r, t) /\ Current(r, t).state = "planned" /\ Reduced(r, op) = new
  BY DEF Drops
<1>2. /\ e \in Executions /\ InRun(r, e) /\ ~Superseded(r, e) /\ AttemptOf(r, e) = Current(r, t)
      /\ Current(r, t) \in Attempts
  BY <1>1, LatestIs, CurrentTyped DEF RunSound
<1>3. /\ a.state = "cancelled" /\ a.dispatched = AttemptOf(r, e).dispatched
      /\ a.revision = AttemptOf(r, e).revision /\ a.needs = AttemptOf(r, e).needs /\ a \in Attempts
  BY <1>2, PhaseNames DEF Attempts
<1> HIDE DEF e, a, new
<1>4. /\ new \in Runs /\ new.state = r.state /\ Put(r, new, e, a)
  BY <1>2, <1>3, SetEffect DEF new
<1>5. AttemptSound(v, q, r, e)
  BY <1>2 DEF RunSound, ExecutionSound
<1>6. ~AttemptOf(r, e).dispatched
  BY <1>1, <1>2, <1>5 DEF AttemptSound
<1>7. e \notin Asked(q) /\ v[e] = Kernel!Unknown
  BY <1>2, <1>6, UndispatchedIsUnasked
<1>8. AttemptOf(new, e) = a /\ \A d \in Executions : InRun(r, d) => InRun(new, d) /\ (Past(r, d) => Past(new, d))
  <2>1. \A d \in Executions : InRun(r, d) => InRun(new, d)
    <3>1. \A u \in Tasks : DOMAIN new.tasks[u].attempts = DOMAIN r.tasks[u].attempts
      BY <1>4, RunFields DEF Put
    <3> QED
      BY <3>1, ExecutionFields DEF InRun
  <2>2. ~Past(r, e)
    BY <1>1, <1>2, PhaseNames DEF Past
  <2> QED
    BY <1>2, <1>4, <2>1, <2>2 DEF Put, Past
<1>9. AttemptSound(v, q, new, e)
  <2>1. Rested(v, q, e)
    BY <1>7, DispatchesAreAsked DEF Rested
  <2>2. \A d \in AttemptOf(new, e).needs : InRun(new, d) /\ Past(new, d)
    <3>1. AttemptOf(r, e).needs \subseteq Executions
      BY <1>2, AttemptTyped
    <3> QED
      BY <1>3, <1>5, <1>8, <3>1 DEF AttemptSound
  <2> QED
    BY <1>3, <1>6, <1>8, <2>1, <2>2 DEF AttemptSound
<1>10. Moved(v, q, r, new)
  BY <1>1, <1>2, <1>3, <1>4, <1>7, <1>9, PutSound
<1> QED
  BY <1>1, <1>10

LEMMA StopsSound ==
    ASSUME NEW v \in [Executions -> Kernel!Snapshots], NEW q \in Seq(Intents), NEW r \in Runs,
           NEW op \in Operations, RunSound(v, q, r), Stops(r, op)
    PROVE  Moved(v, q \o IntentsOf(r, op), r, Reduced(r, op)) /\ IntentsOf(r, op) \in Seq(Intents)
<1> DEFINE t == op.task
           e == Latest(r, t)
           i == Intent("cancel", e)
<1>1. /\ t \in Tasks /\ Known(r, t) /\ Current(r, t).state \notin Terminal \cup {"planned"}
      /\ IntentsOf(r, op) = <<i>> /\ Reduced(r, op) = r
  BY DEF Stops, Asks
<1>2. /\ e \in Executions /\ InRun(r, e) /\ AttemptOf(r, e) = Current(r, t)
  BY <1>1, LatestIs DEF RunSound
<1>3. AttemptOf(r, e).dispatched
  <2>1. AttemptSound(v, q, r, e)
    BY <1>2 DEF RunSound, ExecutionSound
  <2> QED
    BY <1>1, <1>2, <2>1, PhaseNames DEF AttemptSound
<1>4. i \in Intents /\ i.execution = e /\ i.kind = "cancel"
  BY <1>2 DEF Intents, Intent
<1> HIDE DEF e, i
<1> DEFINE p == q \o <<i>>
<1>5. p \in Seq(Intents) /\ Asked(p) = Asked(q) \cup {e} /\ Dispatches(p) = Dispatches(q)
  BY <1>4, AskedAppended
<1> HIDE DEF p
<1>6. ASSUME NEW x \in Executions PROVE ExecutionSound(v, p, r, x)
  <2>1. ExecutionSound(v, q, r, x)
    BY DEF RunSound
  <2>2. AttemptSound(v, q, r, x) => AttemptSound(v, p, r, x)
    BY <1>5 DEF AttemptSound, Rested
  <2> QED
    BY <1>2, <1>3, <1>5, <2>1, <2>2 DEF ExecutionSound
<1>7. Moved(v, p, r, r)
  BY <1>6 DEF Moved, RunSound
<1> QED
  BY <1>1, <1>4, <1>7 DEF p

LEMMA ArrangesSound ==
    ASSUME NEW v \in [Executions -> Kernel!Snapshots], NEW q \in Seq(Intents), NEW r \in Runs,
           RunSound(v, q, r), r.state = "running", NEW new \in Runs, \A t \in Tasks : TaskSound(new, t),
           \A t \in Tasks : new.tasks[t].attempts = r.tasks[t].attempts,
           new.state = r.state \/ MayFinish(r)
    PROVE  Moved(v, q, r, new)
<1>1. \A x \in Executions : /\ InRun(new, x) <=> InRun(r, x)
                            /\ Superseded(new, x) <=> Superseded(r, x)
                            /\ AttemptOf(new, x) = AttemptOf(r, x)
  BY ExecutionFields DEF InRun, Superseded, AttemptOf
<1>2. ASSUME NEW x \in Executions PROVE ExecutionSound(v, q, new, x)
  <2>1. ExecutionSound(v, q, r, x)
    BY DEF RunSound
  <2>2. CASE InRun(r, x)
    <3>1. AttemptSound(v, q, r, x) /\ AttemptOf(r, x).needs \subseteq Executions
      BY <2>1, <2>2, AttemptTyped DEF ExecutionSound
    <3>2. CASE new.state = r.state
      BY <1>1, <2>1, <2>2, <3>1, <3>2 DEF ExecutionSound, AttemptSound, Past
    <3>3. CASE MayFinish(r)
      <4>1. TaskOf(x) \in Tasks /\ Known(r, TaskOf(x))
        BY <2>2, ExecutionFields, RunFields DEF InRun
      <4>2. Settled(r, TaskOf(x)) /\ TaskSound(r, TaskOf(x))
        BY <3>3, <4>1 DEF MayFinish, RunSound
      <4>3. Past(r, x) \/ Superseded(r, x)
        BY <2>2, <4>1, <4>2, LatestIs DEF Past, Settled
      <4>4. Rested(v, q, x)
        BY <3>1, <4>3 DEF AttemptSound
      <4>5. \A d \in AttemptOf(r, x).needs : InRun(new, d) /\ Past(new, d)
        BY <1>1, <3>1 DEF AttemptSound, Past
      <4>6. AttemptSound(v, q, new, x)
        BY <1>1, <3>1, <4>4, <4>5 DEF AttemptSound, Past
      <4> QED
        BY <1>1, <2>1, <2>2, <4>6 DEF ExecutionSound
    <3> QED
      BY <3>2, <3>3
  <2>3. CASE ~InRun(r, x)
    BY <1>1, <2>1, <2>3 DEF ExecutionSound
  <2> QED
    BY <2>2, <2>3
<1> QED
  BY <1>1, <1>2 DEF Moved, RunSound

LEMMA ReduceSound ==
    ASSUME NEW v \in [Executions -> Kernel!Snapshots], NEW q \in Seq(Intents), NEW r \in Runs,
           NEW op \in Operations, RunSound(v, q, r), Allowed(r, op)
    PROVE  /\ Moved(v, q \o IntentsOf(r, op), r, Reduced(r, op))
           /\ IntentsOf(r, op) \in Seq(Intents)
           /\ Reduced(r, op) \in Runs /\ Reduced(r, op).revision = r.revision
<1>1. r.state = "running"
  BY DEF Allowed
<1>2. Outcome(r, op)
  BY OperationOutcome DEF RunSound
<1>3. /\ Reduced(r, op) \in Runs /\ Reduced(r, op).revision = r.revision
      /\ \A t \in Tasks : TaskSound(Reduced(r, op), t)
  BY <1>2 DEF Outcome
<1>4. IntentsOf(r, op) = <<>> => IntentsOf(r, op) \in Seq(Intents) /\ q \o IntentsOf(r, op) = q
  OBVIOUS
<1>5. CASE Plans(r, op)
  <2>1. IntentsOf(r, op) = <<>> /\ Reduced(r, op).state = r.state
    BY <1>5 DEF Plans
  <2>2. PICK t \in Tasks : Added(r, Reduced(r, op), t) /\ (Known(r, t) => Settled(r, t))
    BY <1>5 DEF Plans
  <2>3. Moved(v, q, r, Reduced(r, op))
    BY <1>1, <1>3, <2>1, <2>2, PlansSound
  <2> QED
    BY <1>3, <1>4, <2>1, <2>3
<1>6. CASE Starts(r, op)
  BY <1>1, <1>3, <1>6, StartsSound
<1>7. CASE Stops(r, op)
  BY <1>3, <1>7, StopsSound
<1>8. CASE Drops(r, op)
  <2>1. Moved(v, q, r, Reduced(r, op))
    BY <1>1, <1>8, DropsSound
  <2>2. IntentsOf(r, op) = <<>>
    BY <1>8 DEF Drops
  <2> QED
    BY <1>3, <1>4, <2>1, <2>2
<1>9. CASE Arranges(r, op)
  <2>1. /\ IntentsOf(r, op) = <<>>
        /\ \A t \in Tasks : Reduced(r, op).tasks[t].attempts = r.tasks[t].attempts
        /\ Reduced(r, op).state = r.state \/ MayFinish(r)
    BY <1>9 DEF Arranges
  <2>2. Moved(v, q, r, Reduced(r, op))
    BY <1>1, <1>3, <2>1, ArrangesSound
  <2> QED
    BY <1>3, <1>4, <2>1, <2>2
<1> QED
  BY <1>2, <1>5, <1>6, <1>7, <1>8, <1>9 DEF Outcome

-----------------------------------------------------------------------------
(* What happens in the Kernel takes nothing back that the Run and the      *)
(* flushers rely on.                                                       *)

SnapshotMoves(old, new) ==
    /\ new \in Kernel!Snapshots /\ SnapshotSound(new)
    /\ old.phase \in Terminal => new = old
    /\ old # Kernel!Unknown => new # Kernel!Unknown
    /\ Held(old) => Held(new)

\* An execution comes to be only when an intent asks for it, and comes to be
\* alive only when one dispatches it.
Created(q, e, new) == e \in Asked(q) /\ (new.phase \in Terminal \/ e \in Dispatches(q))

ViewMoves(v, q, w) ==
    /\ w \in [Executions -> Kernel!Snapshots]
    /\ \A e \in Executions :
          SnapshotMoves(v[e], w[e]) /\ (v[e] = Kernel!Unknown /\ w[e] # Kernel!Unknown => Created(q, e, w[e]))

LEMMA OneMove ==
    ASSUME NEW v \in [Executions -> Kernel!Snapshots], \A x \in Executions : SnapshotSound(v[x]),
           NEW q, NEW e \in Executions, NEW s, SnapshotMoves(v[e], s),
           v[e] = Kernel!Unknown /\ s # Kernel!Unknown => Created(q, e, s)
    PROVE  ViewMoves(v, q, [v EXCEPT ![e] = s]) /\ [v EXCEPT ![e] = s][e] = s
<1>1. s \in Kernel!Snapshots
  BY DEF SnapshotMoves
<1>2. \A x \in Executions : SnapshotMoves(v[x], v[x])
  BY DEF SnapshotMoves
<1>3. \A x \in Executions : [v EXCEPT ![e] = s][x] = IF x = e THEN s ELSE v[x]
  OBVIOUS
<1> QED
  BY <1>1, <1>2, <1>3 DEF ViewMoves

LEMMA RestedMoves ==
    ASSUME NEW v \in [Executions -> Kernel!Snapshots], NEW q, NEW w, ViewMoves(v, q, w),
           NEW e \in Executions, Rested(v, q, e)
    PROVE  Rested(w, q, e)
BY DEF ViewMoves, SnapshotMoves, Created, Rested

LEMMA RunMoves ==
    ASSUME NEW v \in [Executions -> Kernel!Snapshots], NEW q, NEW w, ViewMoves(v, q, w),
           NEW r, RunSound(v, q, r)
    PROVE  RunSound(w, q, r)
<1>1. ASSUME NEW e \in Executions PROVE ExecutionSound(w, q, r, e)
  <2>1. ExecutionSound(v, q, r, e)
    BY DEF RunSound
  <2>2. w[e] # Kernel!Unknown => v[e] # Kernel!Unknown \/ e \in Asked(q)
    BY DEF ViewMoves, Created
  <2>3. AttemptSound(v, q, r, e) => AttemptSound(w, q, r, e)
    BY RestedMoves DEF AttemptSound
  <2> QED
    BY <2>1, <2>2, <2>3 DEF ExecutionSound
<1> QED
  BY <1>1 DEF RunSound

LEMMA CallerMoves ==
    ASSUME NEW v \in [Executions -> Kernel!Snapshots], NEW q, NEW w, ViewMoves(v, q, w),
           NEW c, CallerSound(v, q, c)
    PROVE  CallerSound(w, q, c)
BY DEF CallerSound, ViewMoves, SnapshotMoves

LEMMA IntentFields ==
    ASSUME NEW q \in Seq(Intents)
    PROVE  \A m \in DOMAIN q : q[m].kind \in {"dispatch", "cancel"} /\ q[m].execution \in Executions
<1>1. \A m \in DOMAIN q : q[m] \in Intents
  OBVIOUS
<1> QED
  BY <1>1 DEF Intents

LEMMA MoreAsked ==
    ASSUME NEW p \in Seq(Intents), NEW q \in Seq(Intents)
    PROVE  Asked(p) \subseteq Asked(p \o q) /\ Dispatches(p) \subseteq Dispatches(p \o q)
<1> DEFINE l == p \o q
<1>1. DOMAIN p \subseteq DOMAIN l /\ \A m \in DOMAIN p : l[m] = p[m]
  OBVIOUS
<1> HIDE DEF l
<1>2. Asked(p) \subseteq Asked(l) /\ Dispatches(p) \subseteq Dispatches(l)
  BY <1>1 DEF Asked, Dispatches
<1> QED
  BY <1>2 DEF l

LEMMA MovesForMore ==
    ASSUME NEW v, NEW w, NEW p \in Seq(Intents), NEW q \in Seq(Intents), ViewMoves(v, p, w)
    PROVE  ViewMoves(v, p \o q, w)
BY MoreAsked DEF ViewMoves, Created

LEMMA DraftFields ==
    ASSUME Typed, ~Unlocked
    PROVE  /\ draft.command \in sent /\ draft.at \in Nat \ {0}
           /\ draft.run \in Runs /\ draft.intents \in Seq(Intents)
BY DEF Typed, Drafts, Unlocked

LEMMA ViewStep ==
    ASSUME WorkInv, ViewMoves(view, outbox, view'),
           UNCHANGED <<run, cursor, receipts, outbox, draft, sent, refused>>,
           flusher' \in [Flushers -> Callers(Len(outbox))],
           \A f \in Flushers : flusher'[f] = flusher[f] \/ CallerSound(view', outbox, flusher'[f])
    PROVE  WorkInv'
<1>1. Typed'
  BY DEF WorkInv, Typed, ViewMoves, CommandSound, HighWater, Drafts
<1>2. \A e \in Executions : SnapshotSound(view'[e])
  BY DEF ViewMoves, SnapshotMoves
<1>a. view \in [Executions -> Kernel!Snapshots] /\ outbox \in Seq(Intents)
  BY DEF WorkInv, Typed
<1>3. RunSound(view', outbox, run)
  BY <1>a, RunMoves DEF WorkInv
<1>4. DraftSound'
  <2> SUFFICES ASSUME ~Unlocked PROVE RunSound(view', outbox \o draft.intents, draft.run)
    BY DEF DraftSound, Unlocked, WorkInv, Admissible, HighWater
  <2>1. draft.intents \in Seq(Intents) /\ RunSound(view, outbox \o draft.intents, draft.run)
    BY DraftFields DEF WorkInv, DraftSound
  <2>2. ViewMoves(view, outbox \o draft.intents, view')
    BY <1>a, <2>1, MovesForMore
  <2> QED
    BY <1>a, <2>1, <2>2, RunMoves
<1>5. \A f \in Flushers : CallerSound(view', outbox, flusher'[f])
  BY <1>a, CallerMoves DEF WorkInv
<1>6. CancelHolds'
  <2> SUFFICES ASSUME NEW m \in DOMAIN outbox, outbox[m].kind = "cancel", outbox[m].delivered
               PROVE  Held(view'[outbox[m].execution])
    BY DEF CancelHolds, Held
  <2>1. outbox[m].execution \in Executions
    BY <1>a, IntentFields
  <2> QED
    BY <2>1 DEF WorkInv, CancelHolds, Held, ViewMoves, SnapshotMoves
<1> QED
  BY <1>1, <1>2, <1>3, <1>4, <1>5, <1>6 DEF WorkInv

LEMMA CallerFields ==
    ASSUME WorkInv, NEW f \in Flushers
    PROVE  /\ flusher[f].pc \in Steps /\ flusher[f].batch \in Seq(1 .. Len(outbox))
           /\ flusher[f].message \in 0 .. Len(outbox) /\ flusher[f].execution \in Executions \cup {None}
           /\ flusher[f].seen \in Kernel!Snapshots /\ flusher[f].tries \in 0 .. MaxRetries
           /\ flusher[f] \in Callers(Len(outbox)) /\ CallerSound(view, outbox, flusher[f])
           /\ outbox \in Seq(Intents) /\ Len(outbox) \in Nat /\ DOMAIN outbox = 1 .. Len(outbox)
           /\ view \in [Executions -> Kernel!Snapshots] /\ flusher \in [Flushers -> Callers(Len(outbox))]
<1>1. /\ flusher \in [Flushers -> Callers(Len(outbox))] /\ CallerSound(view, outbox, flusher[f])
      /\ view \in [Executions -> Kernel!Snapshots] /\ outbox \in Seq(Intents)
  BY DEF WorkInv, Typed
<1>2. flusher[f] \in Callers(Len(outbox))
  BY <1>1
<1> QED
  BY <1>1, <1>2 DEF Callers

\* A flusher that handles message m is to do with its execution what it says.
LEMMA CallerMessage ==
    ASSUME WorkInv, NEW f \in Flushers, flusher[f].message # 0
    PROVE  /\ flusher[f].message \in DOMAIN outbox
           /\ flusher[f].execution = outbox[flusher[f].message].execution
           /\ flusher[f].execution \in Executions
<1>1. flusher[f].message \in DOMAIN outbox
  BY CallerFields
<1>2. flusher[f].execution = outbox[flusher[f].message].execution
  BY CallerFields DEF CallerSound
<1> QED
  BY <1>1, <1>2, CallerFields, IntentFields

LEMMA ViewStays == ASSUME WorkInv PROVE ViewMoves(view, outbox, view)
BY DEF WorkInv, Typed, ViewMoves, SnapshotMoves

\* One flusher gets on, with the Kernel as it is.
LEMMA CallerStep ==
    ASSUME WorkInv, NEW f \in Flushers, NEW c \in Callers(Len(outbox)),
           flusher' = [flusher EXCEPT ![f] = c], CallerSound(view, outbox, c),
           UNCHANGED <<run, cursor, receipts, outbox, draft, view, sent, refused>>
    PROVE  WorkInv'
<1>1. /\ flusher' \in [Flushers -> Callers(Len(outbox))]
      /\ \A g \in Flushers : flusher'[g] = flusher[g] \/ flusher'[g] = c
  BY CallerFields
<1>2. ViewMoves(view, outbox, view')
  BY ViewStays
<1> QED
  BY <1>1, <1>2, ViewStep

LEMMA CallerAndViewStep ==
    ASSUME WorkInv, NEW f \in Flushers, NEW c \in Callers(Len(outbox)),
           flusher' = [flusher EXCEPT ![f] = c], CallerSound(view', outbox, c),
           NEW e \in Executions, NEW s, view' = [view EXCEPT ![e] = s], SnapshotMoves(view[e], s),
           view[e] = Kernel!Unknown /\ s # Kernel!Unknown => Created(outbox, e, s),
           UNCHANGED <<run, cursor, receipts, outbox, draft, sent, refused>>
    PROVE  WorkInv'
<1>1. /\ flusher' \in [Flushers -> Callers(Len(outbox))]
      /\ \A g \in Flushers : flusher'[g] = flusher[g] \/ flusher'[g] = c
  BY CallerFields
<1>2. ViewMoves(view, outbox, view')
  BY OneMove DEF WorkInv, Typed
<1> QED
  BY <1>1, <1>2, ViewStep

\* The record of f with another pc and snapshot
Gone(f, pc, seen) == [flusher[f] EXCEPT !.pc = pc, !.seen = seen]

LEMMA GoEffect ==
    ASSUME WorkInv, NEW f \in Flushers, NEW pc \in Steps, NEW seen \in Kernel!Snapshots, Go(f, pc, seen)
    PROVE  /\ flusher' = [flusher EXCEPT ![f] = Gone(f, pc, seen)]
           /\ Gone(f, pc, seen) \in Callers(Len(outbox))
           /\ Gone(f, pc, seen).pc = pc /\ Gone(f, pc, seen).seen = seen
           /\ Gone(f, pc, seen).message = flusher[f].message
           /\ Gone(f, pc, seen).execution = flusher[f].execution
<1>1. flusher[f] \in Callers(Len(outbox))
  BY CallerFields
<1>2. flusher' = [flusher EXCEPT ![f] = Gone(f, pc, seen)]
  BY CallerFields DEF Go, Gone, Callers
<1> QED
  BY <1>1, <1>2 DEF Gone, Callers

LEMMA AfterReadIs ==
    ASSUME NEW kind \in {"dispatch", "cancel"}, NEW s \in Kernel!Snapshots, SnapshotSound(s)
    PROVE  /\ AfterRead(kind, s) \in {"submit", "precancel", "cancel", "read"}
           /\ AfterRead(kind, s) = "submit" => kind = "dispatch"
           /\ AfterRead(kind, s) \in {"precancel", "cancel"} => kind = "cancel"
           /\ AfterRead(kind, s) \in {"cancel", "read"} => s # Kernel!Unknown
           /\ AfterRead(kind, s) = "read" /\ kind = "cancel" => Held(s)
BY PhaseNames DEF AfterRead, SnapshotSound, Held

LEMMA BatchIsSequence ==
    ASSUME NEW S, NEW U \in SUBSET S, NEW n \in Nat, NEW b \in [1 .. n -> U]
    PROVE  b \in Seq(S)
OBVIOUS

LEMMA HeadAndTail ==
    ASSUME NEW S, NEW b \in Seq(S), b # <<>>
    PROVE  Head(b) \in S /\ Tail(b) \in Seq(S)
OBVIOUS

LEMMA SelectStep ==
    ASSUME WorkInv, NEW f \in Flushers, Select(f)
    PROVE  WorkInv'
<1> DEFINE size == IF Cardinality(Selectable) < Limit THEN Cardinality(Selectable) ELSE Limit
<1>1. Selectable \subseteq 1 .. Len(outbox)
  BY CallerFields DEF Selectable, Pending
<1>2. IsFiniteSet(1 .. Len(outbox))
  BY CallerFields, FS_Interval
<1>3. Cardinality(Selectable) \in Nat
  BY <1>1, <1>2, FS_Subset, FS_CardinalityType
<1>4. size \in Nat
  BY <1>3, LimitAssumption
<1>5. PICK batch \in [1 .. size -> Selectable] : flusher' = [flusher EXCEPT ![f].batch = batch]
  BY DEF Select
<1> HIDE DEF size
<1>6. batch \in Seq(1 .. Len(outbox))
  BY <1>1, <1>4, <1>5, BatchIsSequence
<1> DEFINE c == [flusher[f] EXCEPT !.batch = batch]
<1>7. flusher' = [flusher EXCEPT ![f] = c]
  BY <1>5, CallerFields DEF Callers
<1>8. /\ c \in Callers(Len(outbox)) /\ c.pc = flusher[f].pc /\ c.seen = flusher[f].seen
      /\ c.message = flusher[f].message /\ c.execution = flusher[f].execution
  BY <1>6, CallerFields DEF Callers
<1> HIDE DEF c
<1>9. CallerSound(view, outbox, c)
  BY <1>8, CallerFields DEF CallerSound
<1> QED
  BY <1>7, <1>8, <1>9, CallerStep DEF Select

LEMMA LookStep ==
    ASSUME WorkInv, NEW f \in Flushers, Look(f)
    PROVE  WorkInv'
<1> DEFINE m  == Head(flusher[f].batch)
           e  == outbox[m].execution
           pc == AfterRead(outbox[m].kind, view[e])
           seen == IF pc = "cancel" THEN view[e] ELSE Kernel!Unknown
           tries == IF outbox[m].kind = "cancel" THEN 1 ELSE 0
           c == [pc |-> pc, batch |-> Tail(flusher[f].batch), message |-> m, execution |-> e,
                 seen |-> seen, tries |-> tries]
<1>1. flusher' = [flusher EXCEPT ![f] = c]
  BY Zenon DEF Look
<1>2. m \in 1 .. Len(outbox) /\ Tail(flusher[f].batch) \in Seq(1 .. Len(outbox))
  <2>1. flusher[f].batch \in Seq(1 .. Len(outbox)) /\ flusher[f].batch # <<>>
    BY CallerFields DEF Look
  <2> QED
    BY <2>1, HeadAndTail
<1>3. e \in Executions /\ outbox[m].kind \in {"dispatch", "cancel"}
  BY <1>2, CallerFields, IntentFields
<1>4. view[e] \in Kernel!Snapshots /\ SnapshotSound(view[e])
  BY <1>3, CallerFields DEF WorkInv
<1>5. /\ pc \in {"submit", "precancel", "cancel", "read"}
      /\ pc = "submit" => outbox[m].kind = "dispatch"
      /\ pc \in {"precancel", "cancel"} => outbox[m].kind = "cancel"
      /\ pc \in {"cancel", "read"} => view[e] # Kernel!Unknown
      /\ pc = "read" /\ outbox[m].kind = "cancel" => Held(view[e])
  BY <1>3, <1>4, AfterReadIs
<1>6. seen \in Kernel!Snapshots
  BY <1>4, PhaseNames
<1>7. tries \in 0 .. MaxRetries
  BY LimitAssumption
<1> HIDE DEF m, e, pc, seen, tries
<1>8. c \in Callers(Len(outbox))
  BY <1>2, <1>3, <1>5, <1>6, <1>7 DEF Callers, Steps
<1>9. CallerSound(view, outbox, c)
  BY <1>2, <1>3, <1>5, CallerFields DEF CallerSound, e
<1> HIDE DEF c
<1> QED
  BY <1>1, <1>8, <1>9, CallerStep DEF Look

LEMMA LookAgainStep ==
    ASSUME WorkInv, NEW f \in Flushers, LookAgain(f)
    PROVE  WorkInv'
<1> DEFINE e  == flusher[f].execution
           m  == flusher[f].message
           pc == AfterRead("cancel", view[e])
           seen == IF pc = "cancel" THEN view[e] ELSE Kernel!Unknown
<1>1. flusher[f].pc = "again" /\ Go(f, pc, seen)
  BY DEF LookAgain, GoAfter
<1>2. m # 0 /\ outbox[m].kind = "cancel"
  BY <1>1, CallerFields DEF CallerSound
<1>3. e \in Executions /\ e = outbox[m].execution
  BY <1>2, CallerMessage
<1>4. view[e] \in Kernel!Snapshots /\ SnapshotSound(view[e])
  BY <1>3, CallerFields DEF WorkInv
<1>5. /\ pc \in {"precancel", "cancel", "read"}
      /\ pc \in {"cancel", "read"} => view[e] # Kernel!Unknown
      /\ pc = "read" => Held(view[e])
  BY <1>4, AfterReadIs
<1>6. seen \in Kernel!Snapshots /\ pc \in Steps
  BY <1>4, <1>5, PhaseNames DEF Steps
<1> HIDE DEF e, m, pc, seen
<1> DEFINE c == Gone(f, pc, seen)
<1>7. /\ flusher' = [flusher EXCEPT ![f] = c] /\ c \in Callers(Len(outbox))
      /\ c.pc = pc /\ c.seen = seen /\ c.message = m /\ c.execution = e
  BY <1>1, <1>6, GoEffect DEF m, e
<1> HIDE DEF c
<1>8. CallerSound(view, outbox, c)
  BY <1>2, <1>3, <1>5, <1>7 DEF CallerSound
<1> QED
  BY <1>7, <1>8, CallerStep DEF LookAgain

LEMMA ReadStep ==
    ASSUME WorkInv, NEW f \in Flushers, Read(f)
    PROVE  WorkInv'
<1> DEFINE e  == flusher[f].execution
           c  == Gone(f, "write", view[e])
<1>1. flusher[f].pc = "read" /\ e \in Executions /\ view[e] # Kernel!Unknown
  BY CallerFields DEF Read, CallerSound
<1>2. view[e] \in Kernel!Snapshots /\ "write" \in Steps
  BY <1>1, CallerFields DEF Steps
<1>3. /\ flusher' = [flusher EXCEPT ![f] = c] /\ c \in Callers(Len(outbox)) /\ c.pc = "write"
      /\ c.seen = view[e] /\ c.message = flusher[f].message /\ c.execution = e
  BY <1>2, GoEffect DEF Read
<1> HIDE DEF c
<1>4. CallerSound(view, outbox, c)
  BY <1>1, <1>3, CallerFields DEF CallerSound
<1> QED
  BY <1>3, <1>4, CallerStep DEF Read

LEMMA IdleIsSound == IdleFlusher \in Callers(Len(outbox)) /\ CallerSound(view, outbox, IdleFlusher)
BY PhaseNames, LimitAssumption DEF IdleFlusher, Callers, Steps, CallerSound

LEMMA PollStep ==
    ASSUME WorkInv, NEW f \in Flushers, Poll(f)
    PROVE  WorkInv'
<1>1. PICK e \in Executions :
         /\ view[e] # Kernel!Unknown
         /\ flusher' = [flusher EXCEPT ![f] = [IdleFlusher EXCEPT !.pc = "write", !.execution = e, !.seen = view[e]]]
  BY DEF Poll
<1> DEFINE c == [IdleFlusher EXCEPT !.pc = "write", !.execution = e, !.seen = view[e]]
<1>2. view[e] \in Kernel!Snapshots
  BY CallerFields
<1>3. c \in Callers(Len(outbox)) /\ c.pc = "write" /\ c.seen = view[e] /\ c.message = 0 /\ c.execution = e
  BY <1>2, IdleIsSound DEF Callers, Steps, IdleFlusher
<1> HIDE DEF c
<1>4. CallerSound(view, outbox, c)
  BY <1>1, <1>3 DEF CallerSound
<1> QED
  BY <1>1, <1>3, <1>4, CallerStep DEF Poll, c

LEMMA CrashStep ==
    ASSUME WorkInv, NEW f \in Flushers, Crash(f)
    PROVE  WorkInv'
BY IdleIsSound, CallerStep DEF Crash

LEMMA SubmitStep ==
    ASSUME WorkInv, NEW f \in Flushers, Submit(f)
    PROVE  WorkInv'
<1> DEFINE e == flusher[f].execution
           m == flusher[f].message
           s == IF view[e] = Kernel!Unknown THEN Queued ELSE view[e]
           c == Gone(f, "read", Kernel!Unknown)
<1>1. flusher[f].pc = "submit" /\ Go(f, "read", Kernel!Unknown) /\ view' = [view EXCEPT ![e] = s]
  BY DEF Submit
<1>2. m # 0 /\ outbox[m].kind = "dispatch"
  BY <1>1, CallerFields DEF CallerSound
<1>3. e \in Executions /\ m \in DOMAIN outbox /\ e = outbox[m].execution
  BY <1>2, CallerMessage
<1>4. /\ flusher' = [flusher EXCEPT ![f] = c] /\ c \in Callers(Len(outbox))
      /\ c.pc = "read" /\ c.message = m /\ c.execution = e
  BY <1>1, GoEffect, PhaseNames DEF Steps
<1>5. SnapshotSound(view[e]) /\ view[e] \in Kernel!Snapshots /\ view'[e] = s
  BY <1>1, <1>3, CallerFields DEF WorkInv
<1>6. SnapshotMoves(view[e], s) /\ s # Kernel!Unknown
  BY <1>5, PhaseNames DEF SnapshotMoves, SnapshotSound, Held
<1>7. Created(outbox, e, s)
  BY <1>2, <1>3 DEF Created, Asked, Dispatches
<1> HIDE DEF c, s
<1>8. CallerSound(view', outbox, c)
  BY <1>2, <1>3, <1>4, <1>5, <1>6 DEF CallerSound
<1>9. UNCHANGED <<run, cursor, receipts, outbox, draft, sent, refused>>
  BY DEF Submit
<1> QED
  BY <1>1, <1>3, <1>4, <1>6, <1>7, <1>8, <1>9, CallerAndViewStep

LEMMA CancelBeforeAcceptStep ==
    ASSUME WorkInv, NEW f \in Flushers, CancelBeforeAccept(f)
    PROVE  WorkInv'
<1> DEFINE e == flusher[f].execution
           m == flusher[f].message
           s == IF view[e] = Kernel!Unknown THEN Tombstone ELSE view[e]
           pc == AfterRead("cancel", s)
           seen == IF pc = "cancel" THEN s ELSE Kernel!Unknown
           c == Gone(f, pc, seen)
<1>1. flusher[f].pc = "precancel" /\ GoAfter(f, "cancel", view'[e]) /\ view' = [view EXCEPT ![e] = s]
  BY DEF CancelBeforeAccept
<1>2. m # 0 /\ outbox[m].kind = "cancel"
  BY <1>1, CallerFields DEF CallerSound
<1>3. e \in Executions /\ m \in DOMAIN outbox /\ e = outbox[m].execution
  BY <1>2, CallerMessage
<1>4. SnapshotSound(view[e]) /\ view[e] \in Kernel!Snapshots /\ view'[e] = s
  BY <1>1, <1>3, CallerFields DEF WorkInv
<1>5. SnapshotMoves(view[e], s) /\ s # Kernel!Unknown /\ s \in Kernel!Snapshots /\ SnapshotSound(s)
  BY <1>4, PhaseNames DEF SnapshotMoves, SnapshotSound, Held
<1>6. view[e] = Kernel!Unknown => Created(outbox, e, s)
  BY <1>3, PhaseNames DEF Created, Asked
<1> HIDE DEF s
<1>7. /\ pc \in {"precancel", "cancel", "read"} /\ pc # "precancel"
      /\ pc = "read" => Held(s)
  <2>1. s.phase # "absent"
    BY <1>5 DEF SnapshotSound
  <2>2. pc # "precancel"
    BY <2>1 DEF AfterRead
  <2> QED
    BY <1>5, <2>2, AfterReadIs
<1>8. pc \in Steps /\ seen \in Kernel!Snapshots
  BY <1>5, <1>7, PhaseNames DEF Steps
<1>9. Go(f, pc, seen)
  BY <1>1, <1>4 DEF GoAfter
<1> HIDE DEF pc, seen
<1>10. /\ flusher' = [flusher EXCEPT ![f] = c] /\ c \in Callers(Len(outbox))
       /\ c.pc = pc /\ c.message = m /\ c.execution = e
  BY <1>8, <1>9, GoEffect
<1> HIDE DEF c
<1>11. CallerSound(view', outbox, c)
  BY <1>2, <1>3, <1>4, <1>5, <1>7, <1>10 DEF CallerSound
<1>12. UNCHANGED <<run, cursor, receipts, outbox, draft, sent, refused>>
  BY DEF CancelBeforeAccept
<1> QED
  BY <1>1, <1>3, <1>5, <1>6, <1>10, <1>11, <1>12, CallerAndViewStep

\* What a cancellation leaves, the Kernel does not run any more.
LEMMA CancelledIsHeld ==
    ASSUME NEW old \in Kernel!Snapshots, SnapshotSound(old), old # Kernel!Unknown, old.phase # "done",
           NEW new \in CancelledFrom(old)
    PROVE  SnapshotMoves(old, new) /\ Held(new)
<1>1. /\ old.phase \in {"queued", "active", "parked", "cancelled"} /\ old.revision \in Nat
      /\ old.target \in {"none", "queued", "cancelled"}
  BY PhaseNames DEF SnapshotSound
<1>2. CASE old.phase \in {"queued", "active"}
  <2>1. \/ new = [phase |-> "cancelled", revision |-> old.revision + 1, target |-> "none"]
        \/ new = [phase |-> "parked", revision |-> old.revision + 1, target |-> "cancelled"]
    BY <1>2 DEF CancelledFrom
  <2>2. /\ new.phase = "cancelled" \/ (new.phase = "parked" /\ new.target = "cancelled")
        /\ new \in Kernel!Snapshots
    BY <1>1, <2>1 DEF Kernel!Snapshots, Kernel!Phases
  <2>3. new.phase # "absent"
    BY <2>2
  <2> QED
    BY <1>2, <2>2, <2>3, PhaseNames DEF SnapshotMoves, SnapshotSound, Held
<1>3. CASE old.phase = "parked" /\ old.target = "queued"
  <2> DEFINE n == old.revision + 1
  <2>1. new = [old EXCEPT !.target = "cancelled", !.revision = n] /\ n \in Nat
    BY <1>1, <1>3 DEF CancelledFrom
  <2> HIDE DEF n
  <2>2. new \in Kernel!Snapshots
    BY <2>1 DEF Kernel!Snapshots
  <2>3. new.phase = "parked" /\ new.target = "cancelled"
    BY <1>3, <2>1 DEF Kernel!Snapshots
  <2> QED
    BY <1>3, <2>2, <2>3, PhaseNames DEF SnapshotMoves, SnapshotSound, Held
<1>4. CASE old.phase = "cancelled" \/ (old.phase = "parked" /\ old.target # "queued")
  <2>1. new = old
    BY <1>4 DEF CancelledFrom
  <2>2. Held(old)
    BY <1>1, <1>4, PhaseNames DEF Held, SnapshotSound
  <2> QED
    BY <2>1, <2>2 DEF SnapshotMoves
<1> QED
  BY <1>1, <1>2, <1>3, <1>4

LEMMA CancelExecutionStep ==
    ASSUME WorkInv, NEW f \in Flushers, CancelExecution(f)
    PROVE  WorkInv'
<1> DEFINE e == flusher[f].execution
           m == flusher[f].message
<1>1. flusher[f].pc = "cancel" /\ view[e].phase # "done"
  BY DEF CancelExecution
<1>2. m # 0 /\ outbox[m].kind = "cancel" /\ view[e] # Kernel!Unknown
  BY <1>1, CallerFields DEF CallerSound
<1>3. e \in Executions /\ m \in DOMAIN outbox /\ e = outbox[m].execution
  BY <1>2, CallerMessage
<1>4. SnapshotSound(view[e]) /\ view[e] \in Kernel!Snapshots
  BY <1>3, CallerFields DEF WorkInv
<1>5. UNCHANGED <<run, cursor, receipts, outbox, draft, sent, refused>>
  BY DEF CancelExecution
<1>6. ASSUME NEW s \in CancelledFrom(view[e]), view' = [view EXCEPT ![e] = s], Go(f, "read", Kernel!Unknown)
      PROVE  WorkInv'
  <2> DEFINE c == Gone(f, "read", Kernel!Unknown)
  <2>1. /\ flusher' = [flusher EXCEPT ![f] = c] /\ c \in Callers(Len(outbox))
        /\ c.pc = "read" /\ c.message = m /\ c.execution = e
    BY <1>6, GoEffect, PhaseNames DEF Steps
  <2>2. SnapshotMoves(view[e], s) /\ Held(s) /\ s # Kernel!Unknown
    BY <1>1, <1>2, <1>4, CancelledIsHeld DEF SnapshotMoves
  <2>3. view'[e] = s
    BY <1>3, <1>6, CallerFields
  <2> HIDE DEF c
  <2>4. CallerSound(view', outbox, c)
    BY <1>2, <1>3, <2>1, <2>2, <2>3 DEF CallerSound
  <2> QED
    BY <1>2, <1>3, <1>5, <1>6, <2>1, <2>2, <2>4, CallerAndViewStep
<1>7. ASSUME MayRetry(f), UNCHANGED view,
             flusher' = [flusher EXCEPT ![f].pc = "again", ![f].seen = Kernel!Unknown, ![f].tries = @ + 1]
      PROVE  WorkInv'
  <2> DEFINE c == [flusher[f] EXCEPT !.pc = "again", !.seen = Kernel!Unknown, !.tries = @ + 1]
  <2>1. flusher' = [flusher EXCEPT ![f] = c]
    BY <1>7, CallerFields DEF Callers
  <2>2. flusher[f].tries + 1 \in 0 .. MaxRetries
    BY <1>7, CallerFields, LimitAssumption DEF MayRetry
  <2>3. c \in Callers(Len(outbox)) /\ c.pc = "again" /\ c.message = m /\ c.execution = e
    BY <2>2, CallerFields, PhaseNames DEF Callers, Steps
  <2> HIDE DEF c
  <2>4. CallerSound(view, outbox, c)
    BY <1>2, <1>3, <2>3 DEF CallerSound
  <2> QED
    BY <1>5, <1>7, <2>1, <2>3, <2>4, CallerStep
<1> QED
  BY <1>6, <1>7 DEF CancelExecution

LEMMA KernelMoveFollows ==
    ASSUME NEW old \in Kernel!Snapshots, SnapshotSound(old), old # Kernel!Unknown,
           NEW phase \in Kernel!Reachable(old), NEW target \in {"none", "queued", "cancelled"},
           NEW new, new = [phase |-> phase, revision |-> old.revision + 1, target |-> target],
           Kernel!Targeted(old, new)
    PROVE  SnapshotMoves(old, new)
<1>1. old.phase \in Kernel!Phases \ {"absent"} /\ old.revision \in Nat
  BY PhaseNames DEF SnapshotSound
<1>2. /\ old.phase \notin {"done", "cancelled"} /\ phase \in Kernel!Phases \ {"absent"}
      /\ old.phase = "parked" /\ old.target = "cancelled" => phase \in {"parked", "cancelled"}
  BY <1>1 DEF Kernel!Reachable, Kernel!Phases, Kernel!Ended
<1>3. new.phase = phase /\ new.target = target /\ new \in Kernel!Snapshots
  BY <1>1, <1>2 DEF Kernel!Snapshots
<1>4. /\ phase = "parked" => target # "none"
      /\ old.target = "cancelled" /\ phase = "parked" => target = "cancelled"
  BY <1>3 DEF Kernel!Targeted
<1> QED
  BY <1>2, <1>3, <1>4, PhaseNames DEF SnapshotMoves, SnapshotSound, Held

LEMMA KernelStep ==
    ASSUME WorkInv, NEW e \in Executions, KernelMoves(e)
    PROVE  WorkInv'
<1>1. PICK phase \in Kernel!Reachable(view[e]), target \in {"none", "queued", "cancelled"} :
         LET new == [phase |-> phase, revision |-> view[e].revision + 1, target |-> target]
         IN  Kernel!Targeted(view[e], new) /\ view' = [view EXCEPT ![e] = new]
  BY DEF KernelMoves
<1> DEFINE new == [phase |-> phase, revision |-> view[e].revision + 1, target |-> target]
<1>2. view[e] \in Kernel!Snapshots /\ SnapshotSound(view[e]) /\ view[e] # Kernel!Unknown
  BY DEF WorkInv, Typed, KernelMoves
<1>3. Kernel!Targeted(view[e], new) /\ view' = [view EXCEPT ![e] = new]
  BY <1>1
<1> HIDE DEF new
<1>4. SnapshotMoves(view[e], new)
  BY <1>2, <1>3, KernelMoveFollows DEF new
<1>5. ViewMoves(view, outbox, view')
  BY <1>2, <1>3, <1>4, OneMove DEF WorkInv, Typed
<1>6. flusher \in [Flushers -> Callers(Len(outbox))] /\ flusher' = flusher
      /\ UNCHANGED <<run, cursor, receipts, outbox, draft, sent, refused>>
  BY DEF WorkInv, Typed, KernelMoves
<1> QED
  BY <1>5, <1>6, ViewStep

-----------------------------------------------------------------------------
(* Transactions of the orchestrator's database, with the Kernel as it is.  *)

\* Nothing that a flusher knows of an intent changes.
OutboxKeeps(p, q) ==
    /\ p \in Seq(Intents) /\ q \in Seq(Intents) /\ Len(p) <= Len(q)
    /\ \A m \in DOMAIN p : q[m].kind = p[m].kind /\ q[m].execution = p[m].execution

LEMMA CallerKeeps ==
    ASSUME NEW v, NEW p, NEW q, OutboxKeeps(p, q), NEW c \in Callers(Len(p)), CallerSound(v, p, c)
    PROVE  c \in Callers(Len(q)) /\ CallerSound(v, q, c)
<1>1. /\ Len(p) \in Nat /\ Len(q) \in Nat /\ Len(p) <= Len(q) /\ DOMAIN p = 1 .. Len(p)
      /\ \A m \in 1 .. Len(p) : q[m].kind = p[m].kind /\ q[m].execution = p[m].execution
  BY DEF OutboxKeeps
<1>2. /\ c.pc \in Steps /\ c.batch \in Seq(1 .. Len(p)) /\ c.message \in 0 .. Len(p)
      /\ c.execution \in Executions \cup {None} /\ c.seen \in Kernel!Snapshots /\ c.tries \in 0 .. MaxRetries
      /\ c = [pc |-> c.pc, batch |-> c.batch, message |-> c.message, execution |-> c.execution,
              seen |-> c.seen, tries |-> c.tries]
  BY DEF Callers
<1>3. c.batch \in Seq(1 .. Len(q)) /\ c.message \in 0 .. Len(q)
  BY <1>1, <1>2
<1>4. c \in Callers(Len(q))
  BY <1>2, <1>3 DEF Callers
<1>5. c.message # 0 => q[c.message].kind = p[c.message].kind /\ q[c.message].execution = p[c.message].execution
  BY <1>1, <1>2
<1>6. CallerSound(v, q, c)
  BY <1>5 DEF CallerSound
<1> QED
  BY <1>4, <1>6

LEMMA RunSoundSame ==
    ASSUME NEW v, NEW q, NEW p, NEW r, NEW s, r.tasks = s.tasks, r.state = s.state,
           Asked(p) = Asked(q), Dispatches(p) = Dispatches(q), RunSound(v, q, r)
    PROVE  RunSound(v, p, s)
BY DEF RunSound, TaskSound, Known, ExecutionSound, InRun, AttemptOf, AttemptSound, Past, Superseded, Rested

LEMMA TypedKeeps ==
    ASSUME Typed, run' \in Runs, run'.revision >= run.revision,
           cursor' \in [Subscriptions -> Nat], \A s \in Subscriptions : cursor'[s] >= cursor[s],
           outbox' \in Seq(Intents), receipts' \subseteq sent, refused' \subseteq sent,
           draft' = NoDraft \/ draft' \in Drafts, flusher' \in [Flushers -> Callers(Len(outbox'))],
           UNCHANGED <<sent, view>>
    PROVE  Typed'
<1>1. ASSUME NEW c \in sent PROVE CommandSound(c)'
  <2>1. CommandSound(c)
    BY DEF Typed
  <2>2. run.revision \in Nat /\ run'.revision \in Nat
    BY RunFields DEF Typed
  <2>3. \A s \in Subscriptions : cursor[s] \in Nat /\ cursor'[s] \in Nat
    BY DEF Typed
  <2>4. c.subscription # None => c.subscription \in Subscriptions
    BY <2>1 DEF CommandSound
  <2>5. c.revision <= run'.revision
    BY <2>1, <2>2 DEF CommandSound
  <2>6. c.subscription # None =>
           c.cursor <= cursor'[c.subscription] /\ c.cursor <= c.advance /\ c.advance <= run'.revision + 1
    <3>1. c.revision \in Nat /\ c.cursor \in Nat /\ c.advance \in Nat
      BY <2>1 DEF CommandSound
    <3>2. c.subscription # None =>
             c.cursor <= cursor[c.subscription] /\ c.cursor <= c.advance /\ c.advance <= run.revision + 1
      BY <2>1 DEF CommandSound, HighWater
    <3>3. c.subscription # None =>
             /\ cursor[c.subscription] \in Nat /\ cursor'[c.subscription] \in Nat
             /\ cursor'[c.subscription] >= cursor[c.subscription]
      BY <2>3, <2>4
    <3> QED
      BY <2>2, <3>1, <3>2, <3>3
  <2> QED
    BY <2>1, <2>5, <2>6 DEF CommandSound, HighWater
<1> QED
  BY <1>1 DEF Typed, Drafts

LEMMA StoreStep ==
    ASSUME WorkInv, Typed', UNCHANGED view, RunSound(view, outbox', run'), DraftSound',
           OutboxKeeps(outbox, outbox'), CancelHolds',
           \A f \in Flushers : flusher'[f] = flusher[f] \/ CallerSound(view, outbox', flusher'[f])
    PROVE  WorkInv'
<1>1. \A f \in Flushers : CallerSound(view, outbox', flusher'[f])
  <2>1. \A f \in Flushers : flusher[f] \in Callers(Len(outbox)) /\ CallerSound(view, outbox, flusher[f])
    BY CallerFields
  <2> QED
    BY <2>1, CallerKeeps
<1> QED
  BY <1>1 DEF WorkInv

LEMMA OutboxStays == ASSUME WorkInv PROVE OutboxKeeps(outbox, outbox)
<1>1. outbox \in Seq(Intents)
  BY DEF WorkInv, Typed
<1> QED
  BY <1>1 DEF OutboxKeeps

\* Only the draft and what is known of commands change.
LEMMA CommandStep ==
    ASSUME WorkInv, UNCHANGED <<run, outbox, view, flusher, sent>>, DraftSound',
           cursor' \in [Subscriptions -> Nat], \A s \in Subscriptions : cursor'[s] >= cursor[s],
           receipts' \subseteq sent, refused' \subseteq sent, draft' = NoDraft \/ draft' \in Drafts
    PROVE  WorkInv'
<1>1. run.revision \in Nat
  BY RunFields DEF WorkInv, Typed
<1>2. Typed'
  BY <1>1, TypedKeeps DEF WorkInv, Typed
<1>3. CancelHolds'
  BY DEF WorkInv, CancelHolds
<1> QED
  BY <1>2, <1>3, StoreStep, OutboxStays DEF WorkInv

LEMMA NoDraftSound == ASSUME draft' = NoDraft PROVE DraftSound'
BY DEF DraftSound, Unlocked, NoDraft

LEMMA CursorStays == ASSUME WorkInv PROVE cursor \in [Subscriptions -> Nat] /\ \A s \in Subscriptions : cursor[s] >= cursor[s]
BY DEF WorkInv, Typed

LEMMA StoreFields ==
    ASSUME WorkInv
    PROVE  /\ run \in Runs /\ run.revision \in Nat /\ cursor \in [Subscriptions -> Nat]
           /\ receipts \subseteq sent /\ refused \subseteq sent /\ outbox \in Seq(Intents)
           /\ draft = NoDraft \/ draft \in Drafts
           /\ \A c \in sent : CommandSound(c)
BY RunFields DEF WorkInv, Typed

LEMMA ConsumedGrows ==
    ASSUME WorkInv, NEW c \in sent, Admissible(c)
    PROVE  Consumed(c) \in [Subscriptions -> Nat] /\ \A s \in Subscriptions : Consumed(c)[s] >= cursor[s]
<1>1. CommandSound(c) /\ cursor \in [Subscriptions -> Nat]
  BY StoreFields
<1>2. CASE c.subscription = None
  BY <1>1, <1>2 DEF Consumed
<1>3. CASE c.subscription # None
  <2>1. c.subscription \in Subscriptions /\ c.advance \in Nat /\ c.cursor = cursor[c.subscription] /\ c.cursor <= c.advance
    BY <1>1, <1>3 DEF CommandSound, Admissible
  <2> QED
    BY <1>1, <1>3, <2>1 DEF Consumed
<1> QED
  BY <1>2, <1>3

LEMMA SendStep ==
    ASSUME WorkInv, NEW kind \in {"apply", "acknowledge"}, NEW ops \in Seq(Operations),
           NEW s \in Subscriptions \cup {None}, NEW advance \in 0 .. HighWater,
           s # None => advance >= cursor[s], Send(kind, ops, s, advance)
    PROVE  WorkInv'
<1>1. UNCHANGED <<run, cursor, receipts, outbox, draft, view, flusher, refused>>
  BY DEF Send
<1>2. PICK id : sent' = sent \cup {[id |-> id, kind |-> kind, revision |-> run.revision, ops |-> ops,
                              subscription |-> s, cursor |-> IF s = None THEN 0 ELSE cursor[s],
                              advance |-> advance]}
  BY DEF Send
<1> DEFINE seen == IF s = None THEN 0 ELSE cursor[s]
           c == [id |-> id, kind |-> kind, revision |-> run.revision, ops |-> ops,
                 subscription |-> s, cursor |-> seen, advance |-> advance]
<1>3. run.revision \in Nat /\ HighWater = run.revision + 1 /\ advance \in Nat /\ advance <= HighWater
  BY StoreFields DEF HighWater
<1>4. seen \in Nat /\ (s # None => seen <= cursor[s] /\ seen <= advance)
  BY <1>3, StoreFields
<1> HIDE DEF seen
<1>5. CommandSound(c)
  BY <1>3, <1>4 DEF CommandSound
<1>6. sent' = sent \cup {c}
  BY <1>2 DEF seen
<1> HIDE DEF c
<1>7. \A d \in sent' : CommandSound(d)'
  BY <1>1, <1>5, <1>6, StoreFields DEF CommandSound, HighWater
<1>8. draft \in Drafts => draft' \in Drafts'
  BY <1>1, <1>6 DEF Drafts
<1>9. Typed'
  BY <1>1, <1>6, <1>7, <1>8 DEF WorkInv, Typed
<1>10. DraftSound' /\ CancelHolds'
  BY <1>1 DEF WorkInv, DraftSound, CancelHolds, Unlocked, Admissible, HighWater
<1> QED
  BY <1>1, <1>9, <1>10, StoreStep, OutboxStays DEF WorkInv

LEMMA RefuseStep ==
    ASSUME WorkInv, NEW c \in sent, Refuse(c)
    PROVE  WorkInv'
<1>1. draft' = NoDraft /\ UNCHANGED <<run, cursor, receipts, outbox, draft, view, flusher, sent>>
      /\ refused' = refused \cup {c}
  BY DEF Refuse, Unlocked
<1> QED
  BY <1>1, CommandStep, NoDraftSound, CursorStays, StoreFields

LEMMA AcknowledgeStep ==
    ASSUME WorkInv, NEW c \in sent, Acknowledge(c)
    PROVE  WorkInv'
<1>1. /\ draft' = NoDraft /\ Admissible(c)
      /\ cursor' = Consumed(c) /\ receipts' = receipts \cup {c}
      /\ UNCHANGED <<run, outbox, draft, view, flusher, sent, refused>>
  BY DEF Acknowledge, Unlocked
<1> QED
  BY <1>1, CommandStep, NoDraftSound, ConsumedGrows, StoreFields

LEMMA BeginStep ==
    ASSUME WorkInv, NEW c \in sent, Begin(c)
    PROVE  WorkInv'
<1> DEFINE d == [command |-> c, at |-> 1, run |-> run, intents |-> <<>>]
<1>1. draft' = d /\ UNCHANGED <<run, cursor, receipts, outbox, view, flusher, sent, refused>>
  BY DEF Begin
<1>2. d \in Drafts
  <2>1. <<>> \in Seq(Intents)
    OBVIOUS
  <2> QED
    BY <2>1, StoreFields DEF Drafts
<1>3. d.run = run /\ d.intents = <<>> /\ d.command = c /\ Admissible(c)
  BY DEF Begin
<1> HIDE DEF d
<1>4. outbox \o <<>> = outbox
  BY StoreFields
<1>5. RunSound(view, outbox \o d.intents, d.run) /\ Grown(run, d.run) /\ Undelivered(d.intents)
  <2>1. Undelivered(<<>>)
    BY DEF Undelivered
  <2> QED
    BY <1>3, <1>4, <2>1 DEF WorkInv, Grown
<1>6. DraftSound'
  BY <1>1, <1>3, <1>5 DEF DraftSound, Admissible, HighWater
<1> QED
  BY <1>1, <1>2, <1>6, CommandStep, CursorStays, StoreFields

LEMMA AbandonStep ==
    ASSUME WorkInv, Rollback \/ Abort
    PROVE  WorkInv'
<1>1. draft' = NoDraft /\ UNCHANGED <<run, cursor, receipts, outbox, view, flusher, sent>> /\ ~Unlocked
      /\ (refused' = refused \/ refused' = refused \cup {draft.command})
  BY DEF Rollback, Abort
<1>2. draft.command \in sent
  BY <1>1, DraftFields DEF WorkInv
<1> QED
  BY <1>1, <1>2, CommandStep, NoDraftSound, CursorStays, StoreFields

LEMMA IntentsUndelivered ==
    ASSUME NEW r, NEW op
    PROVE  Undelivered(IntentsOf(r, op))
BY DEF IntentsOf, Intent, Undelivered

LEMMA UndeliveredJoins ==
    ASSUME NEW p \in Seq(Intents), NEW q \in Seq(Intents), Undelivered(p), Undelivered(q)
    PROVE  Undelivered(p \o q)
BY DEF Undelivered

LEMMA Joined ==
    ASSUME NEW p \in Seq(Intents), NEW q \in Seq(Intents), NEW r \in Seq(Intents)
    PROVE  p \o q \in Seq(Intents) /\ (p \o q) \o r = p \o (q \o r)
OBVIOUS

LEMMA ReduceStep ==
    ASSUME WorkInv, Reduce
    PROVE  WorkInv'
<1> DEFINE new == Reduced(draft.run, Op)
           asks == IntentsOf(draft.run, Op)
           intents == draft.intents \o asks
           q == outbox \o draft.intents
           d == [draft EXCEPT !.at = @ + 1, !.run = new, !.intents = intents]
<1>1. /\ ~Unlocked /\ draft.at <= Len(draft.command.ops) /\ Allowed(draft.run, Op)
      /\ draft' = d /\ UNCHANGED <<run, cursor, receipts, outbox, view, flusher, sent, refused>>
  BY DEF Reduce
<1>2. /\ draft \in Drafts /\ draft.command \in sent /\ draft.at \in Nat \ {0}
      /\ draft.run \in Runs /\ draft.intents \in Seq(Intents)
  BY <1>1, DraftFields, StoreFields DEF WorkInv, Unlocked
<1>3. Op \in Operations
  <2>1. draft.command.ops \in Seq(Operations)
    BY <1>2, StoreFields DEF CommandSound
  <2> QED
    BY <1>1, <1>2, <2>1 DEF Op
<1>4. /\ RunSound(view, q, draft.run) /\ Grown(run, draft.run) /\ Undelivered(draft.intents)
      /\ view \in [Executions -> Kernel!Snapshots]
  BY <1>1 DEF WorkInv, DraftSound, Typed
<1>5. q \in Seq(Intents)
  BY <1>2, StoreFields, Joined
<1>6. /\ Moved(view, q \o asks, draft.run, new) /\ asks \in Seq(Intents)
      /\ new \in Runs /\ new.revision = draft.run.revision
  BY <1>1, <1>2, <1>3, <1>4, <1>5, ReduceSound
<1> HIDE DEF new, asks
<1>7. q \o asks = outbox \o intents /\ intents \in Seq(Intents)
  <2>1. outbox \in Seq(Intents) /\ draft.intents \in Seq(Intents) /\ asks \in Seq(Intents)
    BY <1>2, <1>6, StoreFields
  <2>2. (outbox \o draft.intents) \o asks = outbox \o (draft.intents \o asks)
    BY <2>1, Joined
  <2>3. draft.intents \o asks \in Seq(Intents)
    BY <2>1, Joined
  <2> QED
    BY <2>2, <2>3
<1>8. Undelivered(intents)
  <2>1. Undelivered(asks)
    BY IntentsUndelivered DEF asks
  <2> QED
    BY <1>2, <1>4, <1>6, <2>1, UndeliveredJoins
<1>9. draft.at + 1 \in Nat \ {0}
  BY <1>2
<1> HIDE DEF intents, q
<1>10. d \in Drafts /\ d.run = new /\ d.intents = intents /\ d.command = draft.command
  BY <1>2, <1>6, <1>7, <1>9 DEF Drafts
<1> HIDE DEF d
<1>11. RunSound(view, outbox \o intents, new)
  BY <1>6, <1>7 DEF Moved
<1>12. Grown(run, new)
  BY <1>4, <1>6 DEF Moved, Grown
<1>13. DraftSound'
  BY <1>1, <1>8, <1>10, <1>11, <1>12 DEF WorkInv, DraftSound, Admissible, HighWater
<1> QED
  BY <1>1, <1>10, <1>13, CommandStep, CursorStays, StoreFields

\* CancelHolds, of a list of intents
HoldsFor(q) == \A m \in DOMAIN q : q[m].kind = "cancel" /\ q[m].delivered => Held(view[q[m].execution])

LEMMA HoldsForOutbox == CancelHolds <=> HoldsFor(outbox)
BY DEF CancelHolds, HoldsFor, Held

LEMMA CommitStep ==
    ASSUME WorkInv, Commit
    PROVE  WorkInv'
<1> DEFINE q == outbox \o draft.intents
           new == [draft.run EXCEPT !.revision = @ + 1]
<1>1. /\ ~Unlocked /\ run' = new /\ cursor' = Consumed(draft.command) /\ outbox' = q
      /\ receipts' = receipts \cup {draft.command} /\ draft' = NoDraft
      /\ UNCHANGED <<view, flusher, sent, refused>>
  BY DEF Commit
<1>2. /\ draft.command \in sent /\ draft.run \in Runs /\ draft.intents \in Seq(Intents)
  BY <1>1, DraftFields DEF WorkInv
<1>3. /\ RunSound(view, q, draft.run) /\ Grown(run, draft.run) /\ Undelivered(draft.intents)
      /\ Admissible(draft.command)
  BY <1>1 DEF WorkInv, DraftSound
<1>4. /\ new \in Runs /\ new.revision = run.revision + 1
      /\ new.tasks = draft.run.tasks /\ new.state = draft.run.state
  BY <1>2, <1>3, RunFields DEF Runs, Grown
<1>5. /\ q \in Seq(Intents) /\ Len(outbox) <= Len(q)
      /\ \A m \in DOMAIN outbox : q[m] = outbox[m]
      /\ \A m \in DOMAIN q : m \in DOMAIN outbox
                             \/ \E n \in DOMAIN draft.intents : q[m] = draft.intents[n]
  <2>1. outbox \in Seq(Intents)
    BY StoreFields
  <2>2. q \in Seq(Intents) /\ Len(q) = Len(outbox) + Len(draft.intents)
    BY <1>2, <2>1
  <2>3. \A m \in 1 .. Len(outbox) : q[m] = outbox[m]
    BY <1>2, <2>1
  <2>4. \A n \in 1 .. Len(draft.intents) : q[Len(outbox) + n] = draft.intents[n]
    BY <1>2, <2>1
  <2>5. ASSUME NEW m \in DOMAIN q, m \notin DOMAIN outbox
        PROVE  \E n \in DOMAIN draft.intents : q[m] = draft.intents[n]
    <3>1. m - Len(outbox) \in 1 .. Len(draft.intents) /\ m = Len(outbox) + (m - Len(outbox))
      BY <1>2, <2>1, <2>2, <2>5
    <3>2. q[m] = draft.intents[m - Len(outbox)]
      BY <2>4, <3>1
    <3> QED
      BY <1>2, <3>1, <3>2
  <2> QED
    BY <1>2, <2>1, <2>2, <2>3, <2>5
<1> HIDE DEF q, new
<1>6. OutboxKeeps(outbox, q)
  BY <1>5, StoreFields DEF OutboxKeeps
<1>7. flusher' \in [Flushers -> Callers(Len(q))]
  <2>1. \A f \in Flushers : flusher[f] \in Callers(Len(outbox)) /\ CallerSound(view, outbox, flusher[f])
    BY CallerFields
  <2>2. \A f \in Flushers : flusher[f] \in Callers(Len(q))
    BY <1>6, <2>1, CallerKeeps
  <2> QED
    BY <1>1, <2>2 DEF WorkInv, Typed
<1>8. cursor' \in [Subscriptions -> Nat] /\ \A s \in Subscriptions : cursor'[s] >= cursor[s]
  BY <1>1, <1>2, <1>3, ConsumedGrows
<1>9. Typed'
  <2>1. new.revision >= run.revision
    BY <1>4, StoreFields
  <2> QED
    BY <1>1, <1>2, <1>4, <1>5, <1>7, <1>8, <2>1, TypedKeeps, StoreFields DEF WorkInv
<1>10. RunSound(view, q, new)
  BY <1>3, <1>4, RunSoundSame
<1>11. HoldsFor(q)
  BY <1>3, <1>5, HoldsForOutbox DEF HoldsFor, Undelivered, WorkInv
<1>12. CancelHolds'
  BY <1>1, <1>11 DEF HoldsFor, CancelHolds, Held
<1> QED
  BY <1>1, <1>6, <1>9, <1>10, <1>12, NoDraftSound, StoreStep

\* An intent changes in what is known of its delivery.
LEMMA IntentSet ==
    ASSUME NEW q \in Seq(Intents), NEW m \in DOMAIN q, NEW i \in Intents,
           i.kind = q[m].kind, i.execution = q[m].execution
    PROVE  /\ OutboxKeeps(q, [q EXCEPT ![m] = i]) /\ Len([q EXCEPT ![m] = i]) = Len(q)
           /\ Asked([q EXCEPT ![m] = i]) = Asked(q) /\ Dispatches([q EXCEPT ![m] = i]) = Dispatches(q)
           /\ HoldsFor(q) /\ (i.kind = "cancel" /\ i.delivered => Held(view[i.execution])) =>
                 HoldsFor([q EXCEPT ![m] = i])
<1> DEFINE p == [q EXCEPT ![m] = i]
<1>1. p \in Seq(Intents) /\ Len(p) = Len(q) /\ Len(q) \in Nat /\ DOMAIN p = DOMAIN q
  OBVIOUS
<1>2. \A n \in DOMAIN q : p[n] = IF n = m THEN i ELSE q[n]
  OBVIOUS
<1> HIDE DEF p
<1>3. \A n \in DOMAIN q : p[n].kind = q[n].kind /\ p[n].execution = q[n].execution
  BY <1>2
<1>4. OutboxKeeps(q, p)
  BY <1>1, <1>3 DEF OutboxKeeps
<1>5. Asked(p) = Asked(q) /\ Dispatches(p) = Dispatches(q)
  BY <1>1, <1>3 DEF Asked, Dispatches
<1>6. HoldsFor(q) /\ (i.kind = "cancel" /\ i.delivered => Held(view[i.execution])) => HoldsFor(p)
  BY <1>1, <1>2 DEF HoldsFor
<1> QED
  BY <1>1, <1>4, <1>5, <1>6 DEF p

\* What is left of f when it is done with its message
Done(f) == [IdleFlusher EXCEPT !.batch = flusher[f].batch]

LEMMA DoneIsSound ==
    ASSUME WorkInv, NEW f \in Flushers, NEW q, OutboxKeeps(outbox, q)
    PROVE  Done(f) \in Callers(Len(q)) /\ CallerSound(view, q, Done(f))
<1> DEFINE c == Done(f)
<1>1. c \in Callers(Len(outbox)) /\ c.pc = "idle" /\ c.message = 0
  BY IdleIsSound, CallerFields DEF Done, IdleFlusher, Callers, Steps
<1> HIDE DEF c
<1>2. CallerSound(view, outbox, c)
  BY <1>1 DEF CallerSound
<1>3. c \in Callers(Len(q)) /\ CallerSound(view, q, c)
  BY <1>1, <1>2, CallerKeeps
<1> QED
  BY <1>3 DEF c

\* A transaction of flusher f on the Run and on intent m
LEMMA DeliveryStep ==
    ASSUME WorkInv, NEW f \in Flushers, Unlocked,
           UNCHANGED <<cursor, receipts, draft, view, sent, refused>>,
           run' \in Runs, run'.revision >= run.revision, RunSound(view, outbox', run'),
           OutboxKeeps(outbox, outbox'), HoldsFor(outbox'),
           NEW c \in Callers(Len(outbox')), CallerSound(view, outbox', c),
           flusher' = [flusher EXCEPT ![f] = c]
    PROVE  WorkInv'
<1>1. flusher' \in [Flushers -> Callers(Len(outbox'))]
  <2>1. \A g \in Flushers : flusher[g] \in Callers(Len(outbox)) /\ CallerSound(view, outbox, flusher[g])
    BY CallerFields
  <2>2. \A g \in Flushers : flusher[g] \in Callers(Len(outbox'))
    BY <2>1, CallerKeeps
  <2> QED
    BY <2>2 DEF WorkInv, Typed
<1>2. draft' = NoDraft /\ outbox' \in Seq(Intents)
  BY DEF Unlocked, OutboxKeeps
<1>3. Typed'
  BY <1>1, <1>2, TypedKeeps, StoreFields, CursorStays DEF WorkInv
<1>4. CancelHolds'
  BY DEF HoldsFor, CancelHolds, Held
<1>5. \A g \in Flushers : flusher'[g] = flusher[g] \/ flusher'[g] = c
  BY DEF WorkInv, Typed
<1> QED
  BY <1>2, <1>3, <1>4, <1>5, NoDraftSound, StoreStep

LEMMA Renumbered ==
    ASSUME NEW r \in Runs
    PROVE  LET new == [r EXCEPT !.revision = @ + 1]
           IN  new \in Runs /\ new.revision = r.revision + 1 /\ new.tasks = r.tasks /\ new.state = r.state
<1> DEFINE n == r.revision + 1
<1>1. n \in Nat
  BY RunFields
<1> HIDE DEF n
<1>2. LET new == [r EXCEPT !.revision = n]
      IN  new \in Runs /\ new.revision = n /\ new.tasks = r.tasks /\ new.state = r.state
  BY <1>1 DEF Runs
<1> QED
  BY <1>2 DEF n

LEMMA DeliveryFailedStep ==
    ASSUME WorkInv, NEW f \in Flushers, flusher[f].message # 0, DeliveryFailed(f)
    PROVE  WorkInv'
<1> DEFINE m == flusher[f].message
           counts == ~outbox[m].delivered /\ outbox[m].attempts < MaxFailures
           i == [outbox[m] EXCEPT !.attempts = @ + 1]
           q == [outbox EXCEPT ![m] = i]
           new == [run EXCEPT !.revision = @ + 1]
<1>1. /\ Unlocked /\ UNCHANGED <<cursor, receipts, draft, view, sent, refused>>
      /\ flusher' = [flusher EXCEPT ![f] = Done(f)]
      /\ outbox' = IF counts THEN q ELSE outbox
      /\ run' = IF counts THEN new ELSE run
  BY DEF DeliveryFailed, Done
<1>2. m \in DOMAIN outbox /\ outbox \in Seq(Intents)
  BY CallerMessage, StoreFields
<1>3. i \in Intents /\ i.kind = outbox[m].kind /\ i.execution = outbox[m].execution
      /\ i.delivered = outbox[m].delivered
  <2>1. outbox[m] \in Intents
    BY <1>2
  <2> QED
    BY <2>1 DEF Intents
<1>4. new \in Runs /\ new.revision = run.revision + 1 /\ new.tasks = run.tasks /\ new.state = run.state
  BY Renumbered, StoreFields
<1> HIDE DEF i, new, counts, m
<1>5. /\ OutboxKeeps(outbox, q) /\ Asked(q) = Asked(outbox) /\ Dispatches(q) = Dispatches(outbox)
      /\ HoldsFor(outbox)
      /\ HoldsFor(outbox) /\ (i.kind = "cancel" /\ i.delivered => Held(view[i.execution])) => HoldsFor(q)
  BY <1>2, <1>3, IntentSet, HoldsForOutbox DEF WorkInv
<1>6. HoldsFor(q)
  BY <1>2, <1>3, <1>5 DEF HoldsFor
<1> HIDE DEF q
<1>7. /\ OutboxKeeps(outbox, outbox') /\ Asked(outbox') = Asked(outbox)
      /\ Dispatches(outbox') = Dispatches(outbox) /\ HoldsFor(outbox')
  BY <1>1, <1>5, <1>6, OutboxStays DEF HoldsFor
<1>8. run' \in Runs /\ run'.revision >= run.revision /\ run'.tasks = run.tasks /\ run'.state = run.state
  BY <1>1, <1>4, StoreFields
<1>9. RunSound(view, outbox', run')
  BY <1>7, <1>8, RunSoundSame DEF WorkInv
<1>10. Done(f) \in Callers(Len(outbox')) /\ CallerSound(view, outbox', Done(f))
  BY <1>7, DoneIsSound
<1> QED
  BY <1>1, <1>7, <1>8, <1>9, <1>10, DeliveryStep

LEMMA MarkStep ==
    ASSUME WorkInv, NEW f \in Flushers, Mark(f)
    PROVE  WorkInv'
<1> DEFINE m == flusher[f].message
           i == [outbox[m] EXCEPT !.delivered = TRUE, !.attempts = @ + 1]
           q == [outbox EXCEPT ![m] = i]
<1>1. /\ Unlocked /\ UNCHANGED <<run, cursor, receipts, draft, view, sent, refused>>
      /\ flusher[f].pc = "mark" /\ flusher' = [flusher EXCEPT ![f] = Done(f)]
      /\ outbox' = IF outbox[m].delivered THEN outbox ELSE [outbox EXCEPT ![m].delivered = TRUE, ![m].attempts = @ + 1]
  BY DEF Mark, Done
<1>2. m # 0
  BY <1>1, CallerFields DEF CallerSound
<1>3. m \in DOMAIN outbox /\ outbox \in Seq(Intents) /\ flusher[f].execution = outbox[m].execution
  BY <1>2, CallerMessage, StoreFields
<1>4. outbox[m].kind = "cancel" => Held(view[outbox[m].execution])
  BY <1>1, <1>2, <1>3, CallerFields DEF CallerSound
<1>5. i \in Intents /\ i.kind = outbox[m].kind /\ i.execution = outbox[m].execution
  <2> DEFINE n == outbox[m].attempts + 1
  <2>1. outbox[m] \in Intents
    BY <1>3
  <2>2. n \in Nat /\ i = [outbox[m] EXCEPT !.delivered = TRUE, !.attempts = n]
    BY <2>1 DEF Intents
  <2> HIDE DEF n, i
  <2>3. i \in Intents
    BY <2>1, <2>2 DEF Intents
  <2>4. i.kind = outbox[m].kind /\ i.execution = outbox[m].execution
    BY <2>1, <2>2 DEF Intents
  <2> QED
    BY <2>3, <2>4
<1>6. [outbox EXCEPT ![m].delivered = TRUE, ![m].attempts = @ + 1] = q
  <2>1. outbox[m] \in Intents
    BY <1>3
  <2> QED
    BY <1>3, <2>1 DEF Intents
<1> HIDE DEF i, m
<1>7. /\ OutboxKeeps(outbox, q) /\ Asked(q) = Asked(outbox) /\ Dispatches(q) = Dispatches(outbox)
      /\ HoldsFor(outbox) /\ HoldsFor(q)
  BY <1>3, <1>4, <1>5, IntentSet, HoldsForOutbox DEF WorkInv
<1> HIDE DEF q
<1>8. /\ OutboxKeeps(outbox, outbox') /\ Asked(outbox') = Asked(outbox)
      /\ Dispatches(outbox') = Dispatches(outbox) /\ HoldsFor(outbox')
  BY <1>1, <1>6, <1>7, OutboxStays DEF HoldsFor
<1>9. RunSound(view, outbox', run')
  BY <1>1, <1>8, RunSoundSame DEF WorkInv
<1>10. Done(f) \in Callers(Len(outbox')) /\ CallerSound(view, outbox', Done(f))
  BY <1>8, DoneIsSound
<1>11. run' \in Runs /\ run'.revision >= run.revision
  BY <1>1, StoreFields
<1> QED
  BY <1>1, <1>8, <1>9, <1>10, <1>11, DeliveryStep

\* The attempt of e is projected from a newer snapshot.
Projected(r, e, seen) == [AttemptOf(r, e) EXCEPT !.state = seen.phase, !.revision = seen.revision]

LEMMA ProjectSound ==
    ASSUME NEW v, NEW q, NEW r \in Runs, RunSound(v, q, r), NEW e \in Executions, InRun(r, e),
           NEW seen \in Kernel!Snapshots, Newer(AttemptOf(r, e), seen),
           seen.phase \in Terminal => v[e].phase \in Terminal
    PROVE  /\ SetAttempt(r, e, Projected(r, e, seen)) \in Runs
           /\ SetAttempt(r, e, Projected(r, e, seen)).revision = r.revision
           /\ RunSound(v, q, SetAttempt(r, e, Projected(r, e, seen)))
           /\ \A x \in Executions : InRun(r, x) =>
                 AttemptOf(SetAttempt(r, e, Projected(r, e, seen)), x).revision >= AttemptOf(r, x).revision
<1> DEFINE a == Projected(r, e, seen)
           new == SetAttempt(r, e, a)
<1>1. /\ AttemptOf(r, e) \in Attempts /\ AttemptOf(r, e).revision \in Nat
      /\ AttemptOf(r, e).needs \subseteq Executions
  BY AttemptTyped
<1>2. seen.phase \in Kernel!Phases /\ seen.revision \in Nat
  BY PhaseNames
<1>3. /\ a \in Attempts /\ a.state = seen.phase /\ a.revision = seen.revision
      /\ a.dispatched = AttemptOf(r, e).dispatched /\ a.needs = AttemptOf(r, e).needs
  BY <1>1, <1>2 DEF Projected, Attempts
<1> HIDE DEF a
<1>4. /\ new \in Runs /\ new.state = r.state /\ new.revision = r.revision /\ Put(r, new, e, a)
  BY <1>3, SetEffect
<1> HIDE DEF new
<1>5. /\ AttemptOf(r, e).dispatched /\ seen.revision > AttemptOf(r, e).revision
      /\ AttemptSound(v, q, r, e)
  BY DEF Newer, RunSound, ExecutionSound
<1>6. ~Past(r, e)
  BY <1>1, <1>5 DEF Newer, AttemptSound, Past
<1>7. \A x \in Executions : /\ InRun(new, x) <=> InRun(r, x)
                            /\ Superseded(new, x) <=> Superseded(r, x)
                            /\ InRun(r, x) => AttemptOf(new, x) = IF x = e THEN a ELSE AttemptOf(r, x)
  <2>1. \A t \in Tasks : /\ Len(new.tasks[t].attempts) = Len(r.tasks[t].attempts)
                         /\ DOMAIN new.tasks[t].attempts = DOMAIN r.tasks[t].attempts
    BY <1>4, RunFields DEF Put
  <2> QED
    BY <1>4, <2>1, ExecutionFields DEF InRun, Superseded, Put
<1>8. \A d \in Executions : InRun(r, d) /\ Past(r, d) => InRun(new, d) /\ Past(new, d)
  BY <1>6, <1>7 DEF Past
<1>9. ASSUME NEW x \in Executions
      PROVE  ExecutionSound(v, q, new, x) /\ (InRun(r, x) => AttemptOf(new, x).revision >= AttemptOf(r, x).revision)
  <2>1. ExecutionSound(v, q, r, x)
    BY DEF RunSound
  <2>2. CASE InRun(r, x) /\ x # e
    <3>1. AttemptSound(v, q, r, x) /\ AttemptOf(r, x).needs \subseteq Executions /\ AttemptOf(r, x).revision \in Nat
      BY <2>1, <2>2, AttemptTyped DEF ExecutionSound
    <3>2. AttemptOf(new, x) = AttemptOf(r, x)
      BY <1>7, <2>2
    <3>3. \A d \in AttemptOf(r, x).needs : InRun(new, d) /\ Past(new, d)
      BY <1>8, <3>1 DEF AttemptSound
    <3>4. AttemptSound(v, q, new, x)
      BY <1>4, <1>7, <3>1, <3>2, <3>3 DEF AttemptSound, Past
    <3> QED
      BY <1>7, <2>1, <2>2, <3>1, <3>2, <3>4 DEF ExecutionSound
  <2>3. CASE x = e
    <3>1. AttemptOf(new, e) = a
      BY <1>7
    <3>2. \A d \in a.needs : InRun(new, d) /\ Past(new, d)
      BY <1>1, <1>3, <1>5, <1>8 DEF AttemptSound
    <3>3. Past(new, e) => Rested(v, q, e)
      BY <1>3, <3>1 DEF Past, Rested
    <3>4. a.state # "planned"
      BY <1>2, <1>3, PhaseNames
    <3>5. a.dispatched /\ a.revision > 0
      BY <1>1, <1>2, <1>3, <1>5
    <3>6. AttemptSound(v, q, new, e)
      BY <1>4, <1>5, <1>7, <3>1, <3>2, <3>3, <3>4, <3>5 DEF AttemptSound
    <3>7. a.revision >= AttemptOf(r, e).revision
      BY <1>1, <1>2, <1>3, <1>5
    <3> QED
      BY <1>5, <1>7, <2>3, <3>1, <3>5, <3>6, <3>7 DEF ExecutionSound
  <2>4. CASE ~InRun(r, x)
    BY <1>7, <2>1, <2>4 DEF ExecutionSound
  <2> QED
    BY <2>2, <2>3, <2>4
<1>10. \A t \in Tasks : TaskSound(new, t)
  BY <1>4, PutTasks DEF RunSound
<1>11. RunSound(v, q, new)
  BY <1>9, <1>10 DEF RunSound
<1> QED
  BY <1>4, <1>9, <1>11 DEF new, a

\* The attempts of the Run as sync_execution leaves them
LEMMA WriteEffect ==
    ASSUME WorkInv, NEW f \in Flushers, Write(f)
    PROVE  /\ run' \in Runs /\ run'.revision >= run.revision /\ RunSound(view, outbox, run')
           /\ \A x \in Executions : InRun(run, x) => AttemptOf(run', x).revision >= AttemptOf(run, x).revision
<1> DEFINE e    == flusher[f].execution
           seen == flusher[f].seen
           set  == SetAttempt(run, e, Projected(run, e, seen))
           new  == [set EXCEPT !.revision = @ + 1]
<1>1. /\ flusher[f].pc = "write"
      /\ \/ Newer(AttemptOf(run, e), seen) /\ run' = new
         \/ run' = run
  BY DEF Write, Projected
<1>2. /\ e \in Executions /\ view[e] # Kernel!Unknown /\ seen \in Kernel!Snapshots
      /\ seen.phase \in Terminal => view[e].phase \in Terminal
  BY <1>1, CallerFields DEF CallerSound
<1>3. run \in Runs /\ RunSound(view, outbox, run) /\ run.revision \in Nat
  BY StoreFields DEF WorkInv
<1>4. InRun(run, e)
  BY <1>2, <1>3 DEF RunSound, ExecutionSound
<1>5. CASE Newer(AttemptOf(run, e), seen) /\ run' = new
  <2>1. /\ set \in Runs /\ set.revision = run.revision /\ RunSound(view, outbox, set)
        /\ \A x \in Executions : InRun(run, x) => AttemptOf(set, x).revision >= AttemptOf(run, x).revision
    BY <1>2, <1>3, <1>4, <1>5, ProjectSound
  <2> HIDE DEF set
  <2>2. new \in Runs /\ new.revision = set.revision + 1 /\ new.tasks = set.tasks /\ new.state = set.state
    BY <2>1, Renumbered
  <2> HIDE DEF new
  <2>3. RunSound(view, outbox, new)
    BY <2>1, <2>2, RunSoundSame
  <2>4. \A x \in Executions : AttemptOf(new, x) = AttemptOf(set, x)
    BY <2>2 DEF AttemptOf
  <2>5. new.revision >= run.revision
    BY <1>3, <2>1, <2>2
  <2> QED
    BY <1>5, <2>1, <2>2, <2>3, <2>4, <2>5
<1>6. CASE run' = run
  <2>1. \A x \in Executions : InRun(run, x) => AttemptOf(run, x).revision \in Nat
    BY <1>3, AttemptTyped
  <2> QED
    BY <1>3, <1>6, <2>1
<1> QED
  BY <1>1, <1>5, <1>6

LEMMA WriteStep ==
    ASSUME WorkInv, NEW f \in Flushers, Write(f)
    PROVE  WorkInv'
<1> DEFINE c == IF flusher[f].message = 0 THEN IdleFlusher ELSE Gone(f, "mark", Kernel!Unknown)
<1>1. /\ Unlocked /\ UNCHANGED <<cursor, receipts, outbox, draft, view, sent, refused>>
      /\ flusher[f].pc = "write" /\ flusher' = [flusher EXCEPT ![f] = c]
  BY DEF Write, Gone
<1>2. run' \in Runs /\ run'.revision >= run.revision /\ RunSound(view, outbox', run')
  BY <1>1, WriteEffect
<1>3. OutboxKeeps(outbox, outbox') /\ HoldsFor(outbox')
  BY <1>1, OutboxStays, HoldsForOutbox DEF HoldsFor, WorkInv
<1>4. c \in Callers(Len(outbox)) /\ CallerSound(view, outbox, c)
  <2>1. CASE flusher[f].message = 0
    BY <2>1, IdleIsSound
  <2>2. CASE flusher[f].message # 0
    <3> DEFINE d == Gone(f, "mark", Kernel!Unknown)
    <3>1. /\ d \in Callers(Len(outbox)) /\ d.pc = "mark" /\ d.message = flusher[f].message
          /\ d.execution = flusher[f].execution
      BY CallerFields, PhaseNames DEF Gone, Callers, Steps
    <3> HIDE DEF d
    <3>2. CallerSound(view, outbox, d)
      BY <1>1, <2>2, <3>1, CallerFields DEF CallerSound
    <3> QED
      BY <2>2, <3>1, <3>2 DEF d
  <2> QED
    BY <2>1, <2>2
<1> HIDE DEF c
<1>5. c \in Callers(Len(outbox')) /\ CallerSound(view, outbox', c)
  BY <1>1, <1>4
<1> QED
  BY <1>1, <1>2, <1>3, <1>5, DeliveryStep

-----------------------------------------------------------------------------
(* The invariant holds.                                                    *)

LEMMA InitWork == Init => WorkInv
<1> SUFFICES ASSUME Init PROVE WorkInv
  OBVIOUS
<1> USE DEF Init
<1>1. run \in Runs /\ run.revision = 0 /\ \A t \in Tasks : run.tasks[t] = NoTask
  BY DEF Runs, NoTask
<1>2. outbox = <<>> /\ outbox \in Seq(Intents) /\ Asked(outbox) = {} /\ Dispatches(outbox) = {}
  BY DEF Asked, Dispatches
<1>3. \A e \in Executions : ~InRun(run, e) /\ view[e] = Kernel!Unknown
  BY <1>1, ExecutionFields DEF InRun, NoTask
<1>4. \A t \in Tasks : TaskSound(run, t)
  BY <1>1, BoundAssumption DEF TaskSound, NoTask
<1>5. RunSound(view, outbox, run)
  BY <1>2, <1>3, <1>4 DEF RunSound, ExecutionSound
<1>6. \A f \in Flushers : flusher[f] \in Callers(Len(outbox)) /\ CallerSound(view, outbox, flusher[f])
  BY IdleIsSound
<1>7. Typed
  BY <1>1, <1>2, <1>6, PhaseNames DEF Typed
<1>8. \A e \in Executions : SnapshotSound(view[e])
  BY <1>3, PhaseNames DEF SnapshotSound
<1>9. CancelHolds /\ DraftSound
  BY <1>2 DEF CancelHolds, DraftSound, Unlocked
<1> QED
  BY <1>5, <1>6, <1>7, <1>8, <1>9 DEF WorkInv

LEMMA StutterWork == WorkInv /\ UNCHANGED vars => WorkInv'
<1> SUFFICES ASSUME WorkInv, UNCHANGED vars PROVE WorkInv'
  OBVIOUS
<1>1. UNCHANGED <<run, cursor, receipts, outbox, draft, view, flusher, sent, refused>>
  BY DEF vars
<1>2. DraftSound'
  BY <1>1 DEF WorkInv, DraftSound, Unlocked, Admissible, HighWater
<1> QED
  BY <1>1, <1>2, CommandStep, CursorStays, StoreFields

LEMMA StepWork == WorkInv /\ [Next]_vars => WorkInv'
<1> SUFFICES ASSUME WorkInv, [Next]_vars PROVE WorkInv'
  OBVIOUS
<1>1. ASSUME NEW ops \in Decisions, Decide(ops) PROVE WorkInv'
  <2>1. ops \in Seq(Operations) /\ 0 \in 0 .. HighWater
    BY DecisionAssumption, StoreFields DEF HighWater
  <2> QED
    BY <1>1, <2>1, SendStep, NoneAssumption DEF Decide
<1>2. ASSUME NEW s \in Subscriptions, DecideNothing(s) PROVE WorkInv'
  <2>1. <<>> \in Seq(Operations)
    OBVIOUS
  <2> QED
    BY <1>2, <2>1, SendStep DEF DecideNothing
<1>3. ASSUME NEW c \in sent, Refuse(c) \/ Acknowledge(c) \/ Begin(c) PROVE WorkInv'
  BY <1>3, RefuseStep, AcknowledgeStep, BeginStep
<1>4. CASE Reduce \/ Rollback \/ Commit \/ Abort
  BY <1>4, ReduceStep, AbandonStep, CommitStep
<1>5. ASSUME NEW f \in Flushers, FlusherStep(f) \/ Poll(f) \/ Trouble(f) \/ Crash(f) PROVE WorkInv'
  <2>1. CASE Select(f) \/ Look(f) \/ LookAgain(f) \/ Read(f) \/ Poll(f) \/ Crash(f)
    BY <2>1, SelectStep, LookStep, LookAgainStep, ReadStep, PollStep, CrashStep
  <2>2. CASE Submit(f) \/ CancelBeforeAccept(f) \/ CancelExecution(f)
    BY <2>2, SubmitStep, CancelBeforeAcceptStep, CancelExecutionStep
  <2>3. CASE Fail(f)
    <3>1. flusher[f].pc \in {"submit", "cancel"} /\ DeliveryFailed(f)
      BY <2>3 DEF Fail
    <3>2. flusher[f].message # 0
      BY <3>1, CallerFields DEF CallerSound
    <3> QED
      BY <3>1, <3>2, DeliveryFailedStep
  <2>4. CASE Trouble(f)
    BY <2>4, DeliveryFailedStep DEF Trouble
  <2>5. CASE Write(f) \/ Mark(f)
    BY <2>5, WriteStep, MarkStep
  <2> QED
    BY <1>5, <2>1, <2>2, <2>3, <2>4, <2>5 DEF FlusherStep
<1>6. ASSUME NEW e \in Executions, KernelMoves(e) PROVE WorkInv'
  BY <1>6, KernelStep
<1>7. CASE UNCHANGED vars
  BY <1>7, StutterWork
<1> QED
  BY <1>1, <1>2, <1>3, <1>4, <1>5, <1>6, <1>7 DEF Next

LEMMA SpecWork == Spec => []WorkInv
<1> QED
  BY InitWork, StepWork, PTL DEF Spec

LEMMA WorkIsInOrder == WorkInv => WorkInOrder
<1> SUFFICES ASSUME WorkInv PROVE WorkInOrder
  OBVIOUS
<1>1. \A e \in Executions : Quiet(e) <=> Rested(view, outbox, e)
  BY DEF Quiet, Rested, IntentsFor, Dispatches
<1>2. \A e \in RegisteredExecutions : e \in Executions /\ InRun(run, e)
  BY DEF RegisteredExecutions, Registered, InRun
<1>3. \A e \in RegisteredExecutions : AttemptSound(view, outbox, run, e) /\ AttemptOf(run, e).needs \subseteq Executions
  BY <1>2, AttemptTyped, StoreFields DEF WorkInv, RunSound, ExecutionSound
<1>4. \A d \in Executions : InRun(run, d) /\ Past(run, d) => Quiet(d)
  BY <1>1 DEF WorkInv, RunSound, ExecutionSound, AttemptSound
<1>5. TypeOK
  <2>1. draft # NoDraft => /\ draft.command \in sent /\ draft.run \in Runs
                           /\ draft.at \in Nat \ {0} /\ draft.intents \in Seq(Intents)
    BY StoreFields DEF Drafts
  <2>2. /\ run \in Runs /\ cursor \in [Subscriptions -> Nat] /\ receipts \subseteq sent /\ refused \subseteq sent
        /\ outbox \in Seq(Intents) /\ view \in [Executions -> Kernel!Snapshots]
    BY DEF WorkInv, Typed
  <2>3. ASSUME NEW f \in Flushers
        PROVE  /\ flusher[f].pc \in {"idle", "submit", "precancel", "cancel", "again", "read", "write", "mark"}
               /\ flusher[f].batch \in Seq(DOMAIN outbox)
               /\ flusher[f].message \in {0} \cup DOMAIN outbox
               /\ flusher[f].execution \in Executions \cup {None}
               /\ flusher[f].seen \in Kernel!Snapshots
               /\ flusher[f].tries \in 0 .. MaxRetries
    BY CallerFields DEF Steps
  <2> QED
    BY <2>1, <2>2, <2>3 DEF TypeOK
<1>6. SettledIsQuiet
  BY <1>2, <1>4 DEF SettledIsQuiet, Past
<1>7. OneLiveAttempt
  BY <1>1, <1>2, <1>3 DEF OneLiveAttempt, AttemptSound, Superseded
<1>8. FinishedIsQuiet
  BY <1>1, <1>2, <1>3 DEF FinishedIsQuiet, AttemptSound
<1>9. DependenciesFirst
  BY <1>3, <1>4 DEF DependenciesFirst, AttemptSound
<1>10. CancelHolds
  BY DEF WorkInv
<1> QED
  BY <1>5, <1>6, <1>7, <1>8, <1>9, <1>10 DEF WorkInOrder

\* _apply_operations, sync_execution and _deliver keep the tasks of a Run in
\* order: what the Run calls settled does nothing any more and is not started
\* again, only the last attempt of a task is alive, a finished Run leaves
\* nothing behind, dependencies come to rest before what depends on them is
\* started, and a delivered cancellation holds.
THEOREM TasksInOrder == Spec => []WorkInOrder
<1> QED
  BY SpecWork, WorkIsInOrder, PTL

LEMMA NoRegress == WorkInv /\ [Next]_vars => [NeverRegressesStep]_vars
<1> SUFFICES ASSUME WorkInv, Next PROVE NeverRegressesStep
  BY DEF vars
<1>1. \A e \in RegisteredExecutions : e \in Executions /\ InRun(run, e) /\ AttemptOf(run, e).revision \in Nat
  BY AttemptTyped, StoreFields DEF RegisteredExecutions, Registered, InRun
<1>2. CASE run' = run
  BY <1>1, <1>2 DEF NeverRegressesStep
<1>3. CASE Commit
  <2>1. run'.tasks = draft.run.tasks
    <3>1. draft.run \in Runs
      BY <1>3, DraftFields DEF WorkInv, Commit
    <3> QED
      BY <1>3, <3>1, Renumbered DEF Commit
  <2>2. \A e \in Executions : AttemptOf(run', e) = AttemptOf(draft.run, e)
    BY <2>1 DEF AttemptOf
  <2>3. Grown(run, draft.run)
    BY <1>3 DEF WorkInv, DraftSound, Commit
  <2> QED
    BY <1>1, <2>2, <2>3 DEF Grown, NeverRegressesStep
<1>4. ASSUME NEW f \in Flushers, Write(f) PROVE NeverRegressesStep
  BY <1>1, <1>4, WriteEffect DEF NeverRegressesStep
<1>5. ASSUME NEW f \in Flushers, DeliveryFailed(f) PROVE NeverRegressesStep
  <2>1. run'.tasks = run.tasks
    BY <1>5, Renumbered, StoreFields DEF DeliveryFailed
  <2>2. \A e \in Executions : AttemptOf(run', e) = AttemptOf(run, e)
    BY <2>1 DEF AttemptOf
  <2> QED
    BY <1>1, <2>2 DEF NeverRegressesStep
<1>6. \/ run' = run \/ Commit
      \/ \E f \in Flushers : Write(f) \/ DeliveryFailed(f)
  BY DEF Next, Decide, DecideNothing, Send, Refuse, Acknowledge, Begin, Reduce, Rollback, Abort, FlusherStep,
         Poll, Trouble, Crash, Fail, Select, Look, LookAgain, Submit, CancelBeforeAccept, CancelExecution,
         Read, Mark, KernelMoves
<1> QED
  BY <1>2, <1>3, <1>4, <1>5, <1>6

\* sync_execution replaces a projection only by a newer one, and a command
\* keeps the projections of the Run it was applied to.
THEOREM ProjectionsNeverRegress == Spec => NeverRegresses
<1> QED
  BY SpecWork, NoRegress, PTL DEF Spec, NeverRegresses

-----------------------------------------------------------------------------
(* Commands.  To the invariant above is added what a command has done to   *)
(* the outbox, how the private copy came about, why a refused command is   *)
(* not accepted later, and which events were consumed.                     *)

\* Each dispatched attempt has one intent that dispatches it.
Carries(q, r) ==
    /\ \A e \in Executions : InRun(r, e) /\ AttemptOf(r, e).dispatched => e \in Dispatches(q)
    /\ \A m, n \in DOMAIN q :
          q[m].kind = "dispatch" /\ q[n].kind = "dispatch" /\ q[m].execution = q[n].execution => m = n

\* h holds the private copies from r on, up to the one before operation n.
Chained(h, n, ops, r) ==
    /\ h[1] = r
    /\ \A i \in 1 .. n - 1 : Allowed(h[i], ops[i]) /\ h[i + 1] = Reduced(h[i], ops[i])

FailsAt(h, n, ops, r) == Chained(h, n, ops, r) /\ ~Allowed(h[n], ops[n])

\* Applied to r, one of the operations is impossible.
Doomed(ops, r) == \E n \in 1 .. Len(ops) : \E h : FailsAt(h, n, ops, r)

\* The copy before operation at is d, whichever way it is computed.
Reached(ops, r, at, d) ==
    /\ \E h : Chained(h, at, ops, r) /\ h[at] = d
    /\ \A n \in 1 .. Len(ops) : \A h : FailsAt(h, n, ops, r) => at <= n /\ h[at] = d

RefusalSound(c) ==
    /\ c \notin receipts
    /\ SameId(c) # {} \/ ~Admissible(c) \/ (c.kind = "apply" /\ Doomed(c.ops, run))

DraftKnown ==
    ~Unlocked => /\ draft.command.kind = "apply" /\ SameId(draft.command) = {}
                 /\ Carries(outbox \o draft.intents, draft.run)
                 /\ Reached(draft.command.ops, run, draft.at, draft.run)

CommandInv ==
    /\ Carries(outbox, run)
    /\ DraftKnown
    /\ \A c \in refused : RefusalSound(c)
    /\ EventsConsumedOnce

\* The same attempts are dispatched in both.
Alike(r, s) == \A e \in Executions : InRun(s, e) /\ AttemptOf(s, e).dispatched => InRun(r, e) /\ AttemptOf(r, e).dispatched

LEMMA CarriesKeeps ==
    ASSUME NEW q, NEW p, OutboxKeeps(q, p), Len(p) = Len(q), NEW r, NEW s, Alike(r, s), Carries(q, r)
    PROVE  Carries(p, s)
<1>1. /\ DOMAIN p = DOMAIN q
      /\ \A m \in DOMAIN q : p[m].kind = q[m].kind /\ p[m].execution = q[m].execution
  BY DEF OutboxKeeps
<1>2. Dispatches(p) = Dispatches(q)
  BY <1>1 DEF Dispatches
<1> QED
  BY <1>1, <1>2 DEF Carries, Alike

LEMMA CarriesMore ==
    ASSUME NEW q \in Seq(Intents), NEW i \in Intents, NEW r, NEW s, Carries(q, r),
           i.kind = "dispatch" => i.execution \notin Dispatches(q),
           \A e \in Executions : InRun(s, e) /\ AttemptOf(s, e).dispatched =>
              \/ InRun(r, e) /\ AttemptOf(r, e).dispatched
              \/ i.kind = "dispatch" /\ i.execution = e
    PROVE  Carries(q \o <<i>>, s)
<1> DEFINE p == q \o <<i>>
           n == Len(q)
<1>1. /\ n \in Nat /\ DOMAIN p = 1 .. n + 1 /\ DOMAIN q = 1 .. n
      /\ \A m \in 1 .. n : p[m] = q[m]
      /\ p[n + 1] = i
  OBVIOUS
<1>2. Dispatches(p) = Dispatches(q) \cup (IF i.kind = "dispatch" THEN {i.execution} ELSE {})
  BY AskedAppended
<1> HIDE DEF p, n
<1>3. \A e \in Executions : InRun(s, e) /\ AttemptOf(s, e).dispatched => e \in Dispatches(p)
  BY <1>2 DEF Carries
<1>4. ASSUME NEW m \in DOMAIN p, NEW k \in DOMAIN p, p[m].kind = "dispatch", p[k].kind = "dispatch",
             p[m].execution = p[k].execution
      PROVE  m = k
  <2>1. \A j \in 1 .. n : q[j].kind = "dispatch" => q[j].execution \in Dispatches(q)
    BY <1>1, IntentFields DEF Dispatches
  <2>2. CASE m \in 1 .. n /\ k \in 1 .. n
    BY <1>1, <1>4, <2>2 DEF Carries
  <2>3. CASE m = n + 1 /\ k \in 1 .. n
    BY <1>1, <1>4, <2>1, <2>3
  <2>4. CASE k = n + 1 /\ m \in 1 .. n
    BY <1>1, <1>4, <2>1, <2>4
  <2> QED
    BY <1>1, <2>2, <2>3, <2>4
<1> QED
  BY <1>3, <1>4 DEF Carries, p

LEMMA ReduceCarries ==
    ASSUME NEW v \in [Executions -> Kernel!Snapshots], NEW q \in Seq(Intents), NEW r \in Runs,
           NEW op \in Operations, RunSound(v, q, r), Allowed(r, op), Carries(q, r)
    PROVE  Carries(q \o IntentsOf(r, op), Reduced(r, op))
<1> DEFINE new == Reduced(r, op)
           t == op.task
           e == Latest(r, t)
<1>1. Outcome(r, op) /\ new \in Runs
  BY OperationOutcome DEF RunSound, Outcome
<1>2. ASSUME IntentsOf(r, op) = <<>>, Alike(r, new) PROVE Carries(q \o IntentsOf(r, op), new)
  <2>1. q \o IntentsOf(r, op) = q
    BY <1>2
  <2>2. Carries(q, new)
    BY <1>2 DEF Carries, Alike
  <2> QED
    BY <2>1, <2>2
<1>3. CASE Plans(r, op)
  <2>1. PICK u \in Tasks : Added(r, new, u)
    BY <1>3 DEF Plans
  <2>2. Alike(r, new)
    BY <1>1, <2>1, AddedEffect DEF Alike, Planned
  <2> QED
    BY <1>2, <1>3, <2>2 DEF Plans
<1>4. CASE Starts(r, op)
  <2> DEFINE a == Dispatched(r, t)
             i == Intent("dispatch", e)
  <2>1. t \in Tasks /\ Known(r, t) /\ Current(r, t).state = "planned" /\ IntentsOf(r, op) = <<i>>
        /\ new = SetAttempt(r, e, a)
    BY <1>4 DEF Starts, Asks, MayDispatch
  <2>2. e \in Executions /\ InRun(r, e) /\ AttemptOf(r, e) = Current(r, t)
    BY <2>1, LatestIs DEF RunSound
  <2>3. e \notin Asked(q)
    BY <2>1, <2>2, UndispatchedIsUnasked DEF RunSound, ExecutionSound, AttemptSound
  <2>4. i \in Intents /\ i.execution = e /\ i.kind = "dispatch"
    BY <2>2 DEF Intents, Intent
  <2> HIDE DEF i
  <2>5. \A x \in Executions : InRun(new, x) /\ AttemptOf(new, x).dispatched =>
           (InRun(r, x) /\ AttemptOf(r, x).dispatched) \/ x = e
    <3>1. a \in Attempts
      <4> DEFINE needs == {Latest(r, u) : u \in r.tasks[t].deps}
      <4>1. \A u \in r.tasks[t].deps : u \in Tasks /\ Known(r, u) /\ TaskSound(r, u)
        BY <2>1, RunFields DEF RunSound, TaskSound
      <4>2. needs \in SUBSET Executions
        BY <4>1, LatestIs
      <4>3. a = [Current(r, t) EXCEPT !.state = "pending_dispatch", !.dispatched = TRUE, !.needs = needs]
        BY DEF Dispatched
      <4>4. Current(r, t) \in Attempts
        BY <2>1, CurrentTyped
      <4> HIDE DEF needs, a
      <4> QED
        BY <4>2, <4>3, <4>4 DEF Attempts
    <3> HIDE DEF a, e, new
    <3>2. Put(r, new, e, a)
      BY <2>1, <2>2, <3>1, SetEffect
    <3>3. \A x \in Executions : InRun(new, x) <=> InRun(r, x)
      <4>1. \A u \in Tasks : DOMAIN new.tasks[u].attempts = DOMAIN r.tasks[u].attempts
        BY <1>1, <3>2, RunFields DEF Put
      <4> QED
        BY <4>1, ExecutionFields DEF InRun
    <3> QED
      BY <3>2, <3>3 DEF Put
  <2> HIDE DEF e, new
  <2>6. Carries(q \o <<i>>, new)
    BY <2>3, <2>4, <2>5, CarriesMore, DispatchesAreAsked
  <2> QED
    BY <2>1, <2>6 DEF new
<1>5. CASE Stops(r, op)
  <2> DEFINE i == Intent("cancel", e)
  <2>1. t \in Tasks /\ Known(r, t) /\ IntentsOf(r, op) = <<i>> /\ new = r
    BY <1>5 DEF Stops, Asks
  <2>2. e \in Executions
    BY <2>1, LatestIs DEF RunSound
  <2>3. i \in Intents /\ i.kind = "cancel"
    BY <2>2 DEF Intents, Intent
  <2> HIDE DEF i, e, new
  <2>4. Carries(q \o <<i>>, r)
    BY <2>3, CarriesMore
  <2> QED
    BY <2>1, <2>4 DEF new
<1>6. CASE Drops(r, op)
  <2> DEFINE a == [Current(r, t) EXCEPT !.state = "cancelled"]
  <2>1. /\ t \in Tasks /\ Known(r, t) /\ IntentsOf(r, op) = <<>> /\ new = SetAttempt(r, e, a)
    BY <1>6 DEF Drops
  <2>2. e \in Executions /\ InRun(r, e) /\ AttemptOf(r, e) = Current(r, t) /\ Current(r, t) \in Attempts
    BY <2>1, LatestIs, CurrentTyped DEF RunSound
  <2>3. a \in Attempts /\ a.dispatched = AttemptOf(r, e).dispatched
    BY <2>2, PhaseNames DEF Attempts
  <2> HIDE DEF a, e, new
  <2>4. Put(r, new, e, a)
    BY <2>1, <2>2, <2>3, SetEffect
  <2>5. \A x \in Executions : InRun(new, x) <=> InRun(r, x)
    <3>1. \A u \in Tasks : DOMAIN new.tasks[u].attempts = DOMAIN r.tasks[u].attempts
      BY <1>1, <2>4, RunFields DEF Put
    <3> QED
      BY <3>1, ExecutionFields DEF InRun
  <2>6. Alike(r, new)
    BY <2>3, <2>4, <2>5 DEF Alike, Put
  <2> QED
    BY <1>2, <2>1, <2>6 DEF new
<1>7. CASE Arranges(r, op)
  <2>1. IntentsOf(r, op) = <<>> /\ \A u \in Tasks : new.tasks[u].attempts = r.tasks[u].attempts
    BY <1>7 DEF Arranges
  <2>2. Alike(r, new)
    BY <2>1, ExecutionFields DEF Alike, InRun, AttemptOf
  <2> QED
    BY <1>2, <2>1, <2>2
<1> QED
  BY <1>1, <1>3, <1>4, <1>5, <1>6, <1>7 DEF Outcome

LEMMA ReachedFirst == ASSUME NEW ops \in Seq(Operations), NEW r PROVE Reached(ops, r, 1, r)
<1> DEFINE h == [i \in 1 .. 1 |-> r]
<1>1. Chained(h, 1, ops, r) /\ h[1] = r
  BY DEF Chained
<1> HIDE DEF h
<1>2. \A n \in 1 .. Len(ops) : \A g : FailsAt(g, n, ops, r) => 1 <= n /\ g[1] = r
  BY DEF FailsAt, Chained
<1> QED
  BY <1>1, <1>2 DEF Reached

LEMMA ReachedNext ==
    ASSUME NEW ops \in Seq(Operations), NEW r, NEW at \in 1 .. Len(ops), NEW d,
           Reached(ops, r, at, d), Allowed(d, ops[at])
    PROVE  Reached(ops, r, at + 1, Reduced(d, ops[at]))
<1> DEFINE new == Reduced(d, ops[at])
<1>1. at \in Nat \ {0} /\ Len(ops) \in Nat /\ at <= Len(ops)
  OBVIOUS
<1>2. \E g : Chained(g, at + 1, ops, r) /\ g[at + 1] = new
  <2>1. PICK h : Chained(h, at, ops, r) /\ h[at] = d
    BY DEF Reached
  <2> DEFINE g == [i \in 1 .. at + 1 |-> IF i <= at THEN h[i] ELSE new]
  <2>2. g[1] = r /\ g[at + 1] = new /\ g[at] = d
    BY <1>1, <2>1 DEF Chained
  <2>3. \A i \in 1 .. at - 1 : g[i] = h[i] /\ g[i + 1] = h[i + 1]
    BY <1>1
  <2>4. \A i \in 1 .. at - 1 : Allowed(h[i], ops[i]) /\ h[i + 1] = Reduced(h[i], ops[i])
    BY <2>1 DEF Chained
  <2> HIDE DEF g, new
  <2>5. \A i \in 1 .. at + 1 - 1 : Allowed(g[i], ops[i]) /\ g[i + 1] = Reduced(g[i], ops[i])
    <3> SUFFICES ASSUME NEW i \in 1 .. at + 1 - 1
                 PROVE  Allowed(g[i], ops[i]) /\ g[i + 1] = Reduced(g[i], ops[i])
      OBVIOUS
    <3>1. CASE i = at
      BY <2>2, <3>1 DEF new
    <3>2. CASE i # at
      <4>1. i \in 1 .. at - 1
        BY <1>1, <3>2
      <4> QED
        BY <2>3, <2>4, <4>1
    <3> QED
      BY <3>1, <3>2
  <2> QED
    BY <2>2, <2>5 DEF Chained
<1>3. ASSUME NEW n \in 1 .. Len(ops), NEW h, FailsAt(h, n, ops, r)
      PROVE  at + 1 <= n /\ h[at + 1] = new
  <2>1. at <= n /\ h[at] = d
    BY <1>3 DEF Reached
  <2>2. at # n
    BY <1>3, <2>1 DEF FailsAt
  <2>3. at \in 1 .. n - 1
    BY <1>1, <2>1, <2>2
  <2>4. h[at + 1] = Reduced(h[at], ops[at])
    BY <1>3, <2>3 DEF FailsAt, Chained
  <2> QED
    BY <1>1, <2>1, <2>3, <2>4
<1> QED
  BY <1>2, <1>3 DEF Reached

\* A command of which no operation failed is not doomed, and one of which one failed is.
LEMMA ReachedTells ==
    ASSUME NEW ops \in Seq(Operations), NEW r, NEW at \in Nat \ {0}, NEW d, Reached(ops, r, at, d)
    PROVE  /\ at > Len(ops) => ~Doomed(ops, r)
           /\ at <= Len(ops) /\ ~Allowed(d, ops[at]) => Doomed(ops, r)
<1>1. at > Len(ops) => ~Doomed(ops, r)
  BY DEF Reached, Doomed
<1>2. ASSUME at <= Len(ops), ~Allowed(d, ops[at]) PROVE Doomed(ops, r)
  <2>1. PICK h : Chained(h, at, ops, r) /\ h[at] = d
    BY DEF Reached
  <2>2. FailsAt(h, at, ops, r) /\ at \in 1 .. Len(ops)
    BY <1>2, <2>1 DEF FailsAt
  <2> QED
    BY <2>2 DEF Doomed
<1> QED
  BY <1>1, <1>2

LEMMA InitCommands == Init => CommandInv
<1> SUFFICES ASSUME Init PROVE CommandInv
  OBVIOUS
<1>1. Carries(outbox, run)
  <2>1. WorkInv
    BY InitWork
  <2>2. \A e \in Executions : ~InRun(run, e)
    BY ExecutionFields DEF Init, InRun, NoTask
  <2> QED
    BY <2>2 DEF Carries, Init
<1>2. DraftKnown /\ \A c \in refused : RefusalSound(c)
  BY DEF Init, DraftKnown, Unlocked
<1>3. EventsConsumedOnce
  <2>1. \A s \in Subscriptions : cursor[s] = 0 /\ 1 .. 0 = {}
    BY DEF Init
  <2>2. receipts = {}
    BY DEF Init
  <2>3. \A s \in Subscriptions : {c \in receipts : c.subscription = s} = {}
    BY <2>2
  <2>4. UNION {ConsumedBy(c) : c \in {}} = {}
    OBVIOUS
  <2> QED
    BY <2>1, <2>2, <2>3, <2>4 DEF EventsConsumedOnce
<1> QED
  BY <1>1, <1>2, <1>3 DEF CommandInv

\* Once a command cannot be accepted any more, it never can.
LEMMA StaleStays ==
    ASSUME WorkInv, WorkInv', NEW c \in sent, ~Admissible(c), run'.revision >= run.revision,
           \A s \in Subscriptions : cursor'[s] >= cursor[s]
    PROVE  ~Admissible(c)'
<1>1. CommandSound(c) /\ run.revision \in Nat /\ cursor \in [Subscriptions -> Nat]
  BY StoreFields
<1>2. run'.revision \in Nat /\ cursor' \in [Subscriptions -> Nat]
  BY RunFields DEF WorkInv, Typed
<1>3. \/ c.revision # run.revision
      \/ c.subscription # None /\ cursor[c.subscription] # c.cursor
  BY <1>1 DEF Admissible, CommandSound
<1>4. CASE c.revision # run.revision
  BY <1>1, <1>2, <1>4 DEF Admissible, CommandSound
<1>5. CASE c.subscription # None /\ cursor[c.subscription] # c.cursor
  <2>1. c.subscription \in Subscriptions /\ c.cursor < cursor[c.subscription] /\ c.cursor \in Nat
    BY <1>1, <1>5 DEF CommandSound
  <2>2. cursor[c.subscription] \in Nat /\ cursor'[c.subscription] \in Nat /\ cursor'[c.subscription] >= cursor[c.subscription]
    BY <1>1, <1>2, <2>1
  <2>3. c.cursor # cursor'[c.subscription]
    BY <2>1, <2>2
  <2> QED
    BY <1>5, <2>3 DEF Admissible
<1> QED
  BY <1>3, <1>4, <1>5

\* A later revision makes every command before it stale.
LEMMA OldIsStale ==
    ASSUME WorkInv, NEW c \in sent, run'.revision > run.revision, run'.revision \in Nat
    PROVE  ~Admissible(c)'
<1>1. c.revision \in Nat /\ c.revision <= run.revision /\ run.revision \in Nat
  BY StoreFields DEF CommandSound
<1> QED
  BY <1>1 DEF Admissible

\* Accepted command d gets a receipt, when it is not one that was refused.
LEMMA RefusalKeeps ==
    ASSUME WorkInv, WorkInv', NEW c \in sent, RefusalSound(c), receipts \subseteq receipts',
           c \notin receipts',
           run' = run \/ run'.revision > run.revision, \A s \in Subscriptions : cursor'[s] >= cursor[s]
    PROVE  RefusalSound(c)'
<1>1. run.revision \in Nat /\ run'.revision \in Nat
  BY RunFields DEF WorkInv, Typed
<1>2. CASE SameId(c) # {}
  BY <1>2 DEF RefusalSound, SameId
<1>3. CASE ~Admissible(c)
  <2>1. run'.revision >= run.revision
    BY <1>1
  <2> QED
    BY <1>3, <2>1, StaleStays DEF RefusalSound
<1>4. CASE c.kind = "apply" /\ Doomed(c.ops, run) /\ run' = run
  BY <1>4 DEF RefusalSound
<1>5. CASE run'.revision > run.revision
  BY <1>1, <1>5, OldIsStale DEF RefusalSound
<1> QED
  BY <1>2, <1>3, <1>4, <1>5 DEF RefusalSound

LEMMA RefusalsKeep ==
    ASSUME WorkInv, CommandInv, WorkInv', UNCHANGED <<receipts, refused>>,
           run' = run \/ run'.revision > run.revision, \A s \in Subscriptions : cursor'[s] >= cursor[s]
    PROVE  \A c \in refused' : RefusalSound(c)'
<1>1. \A c \in refused : c \in sent /\ RefusalSound(c)
  BY StoreFields DEF CommandInv
<1>2. \A c \in refused : c \notin receipts'
  BY <1>1 DEF RefusalSound
<1> QED
  BY <1>1, <1>2, RefusalKeeps

\* Nothing that commands are about changes.
LEMMA NoCommandStep ==
    ASSUME WorkInv, CommandInv, WorkInv', UNCHANGED <<run, cursor, receipts, draft, refused>>,
           outbox' = outbox \/ (Unlocked /\ OutboxKeeps(outbox, outbox') /\ Len(outbox') = Len(outbox))
    PROVE  CommandInv'
<1>1. Carries(outbox', run')
  <2>1. Alike(run, run)
    BY DEF Alike
  <2>2. OutboxKeeps(outbox, outbox') /\ Len(outbox') = Len(outbox)
    BY OutboxStays
  <2> QED
    BY <2>1, <2>2, CarriesKeeps DEF CommandInv
<1>2. DraftKnown'
  BY DEF CommandInv, DraftKnown, Unlocked, SameId
<1>3. EventsConsumedOnce'
  BY DEF CommandInv, EventsConsumedOnce
<1>4. \A c \in refused' : RefusalSound(c)'
  BY RefusalsKeep, CursorStays
<1> QED
  BY <1>1, <1>2, <1>3, <1>4 DEF CommandInv

\* The Run gets another revision, with the same attempts dispatched.
LEMMA RevisionStep ==
    ASSUME WorkInv, CommandInv, WorkInv', UNCHANGED <<cursor, receipts, draft, refused>>, Unlocked,
           run'.revision > run.revision, Alike(run, run'),
           OutboxKeeps(outbox, outbox'), Len(outbox') = Len(outbox)
    PROVE  CommandInv'
<1>1. Carries(outbox', run')
  BY CarriesKeeps DEF CommandInv
<1>2. DraftKnown'
  BY DEF DraftKnown, Unlocked
<1>3. EventsConsumedOnce'
  BY DEF CommandInv, EventsConsumedOnce
<1>4. \A c \in refused' : RefusalSound(c)'
  BY RefusalsKeep, CursorStays
<1> QED
  BY <1>1, <1>2, <1>3, <1>4 DEF CommandInv

\* A refused command is none that is accepted.
LEMMA NotAccepted ==
    ASSUME WorkInv, CommandInv, NEW d \in sent, SameId(d) = {}, Admissible(d),
           d.kind = "apply" => ~Doomed(d.ops, run)
    PROVE  d \notin refused
BY DEF CommandInv, RefusalSound

\* Events: the command that is accepted consumes those after the cursor.
LEMMA EventsStep ==
    ASSUME WorkInv, EventsConsumedOnce, NEW d \in sent, Admissible(d),
           cursor' = Consumed(d), receipts' = receipts \cup {d}
    PROVE  EventsConsumedOnce'
<1> SUFFICES ASSUME NEW s \in Subscriptions
             PROVE  LET accepted == {c \in receipts' : c.subscription = s}
                    IN  /\ \A c, e \in accepted : c # e => ConsumedBy(c) \cap ConsumedBy(e) = {}
                        /\ UNION {ConsumedBy(c) : c \in accepted} = 1 .. cursor'[s]
  BY DEF EventsConsumedOnce
<1> DEFINE old == {c \in receipts : c.subscription = s}
           new == {c \in receipts' : c.subscription = s}
<1>1. /\ \A c, e \in old : c # e => ConsumedBy(c) \cap ConsumedBy(e) = {}
      /\ UNION {ConsumedBy(c) : c \in old} = 1 .. cursor[s]
  BY DEF EventsConsumedOnce
<1>2. cursor \in [Subscriptions -> Nat] /\ CommandSound(d)
  BY StoreFields
<1>3. CASE d.subscription # s
  <2>1. new = old
    BY <1>3
  <2>2. cursor'[s] = cursor[s]
    BY <1>2, <1>3 DEF Consumed, CommandSound
  <2> HIDE DEF new, old
  <2>3. /\ \A c, e \in new : c # e => ConsumedBy(c) \cap ConsumedBy(e) = {}
        /\ UNION {ConsumedBy(c) : c \in new} = 1 .. cursor'[s]
    BY <1>1, <2>1, <2>2
  <2> QED
    BY <2>3 DEF new
<1>4. CASE d.subscription = s
  <2>1. new = old \cup {d}
    BY <1>4
  <2>2. /\ cursor[s] \in Nat /\ d.advance \in Nat /\ d.cursor = cursor[s]
        /\ cursor[s] <= d.advance /\ cursor'[s] = d.advance
    BY <1>2, <1>4, NoneAssumption DEF Consumed, CommandSound, Admissible
  <2>3. ConsumedBy(d) = (cursor[s] + 1) .. d.advance
    BY <2>2 DEF ConsumedBy
  <2>4. /\ (1 .. cursor[s]) \cap ConsumedBy(d) = {}
        /\ (1 .. cursor[s]) \cup ConsumedBy(d) = 1 .. cursor'[s]
    BY <2>2, <2>3
  <2> HIDE DEF new, old
  <2> DEFINE before == UNION {ConsumedBy(c) : c \in old}
             after  == UNION {ConsumedBy(c) : c \in new}
  <2>5. before = 1 .. cursor[s] /\ after = before \cup ConsumedBy(d)
    <3>1. before = 1 .. cursor[s]
      BY <1>1
    <3>2. \A x : x \in after <=> \E c \in new : x \in ConsumedBy(c)
      OBVIOUS
    <3>3. \A x : x \in before <=> \E c \in old : x \in ConsumedBy(c)
      OBVIOUS
    <3>4. \A x : (\E c \in new : x \in ConsumedBy(c)) <=> (\E c \in old : x \in ConsumedBy(c)) \/ x \in ConsumedBy(d)
      BY <2>1
    <3> HIDE DEF before, after
    <3>5. \A x : x \in after <=> x \in before \/ x \in ConsumedBy(d)
      BY <3>2, <3>3, <3>4
    <3>6. after = before \cup ConsumedBy(d)
      BY <3>5
    <3> QED
      BY <3>1, <3>6
  <2>6. \A c \in old : ConsumedBy(c) \subseteq 1 .. cursor[s]
    BY <1>1
  <2>7. \A c, e \in new : c # e => ConsumedBy(c) \cap ConsumedBy(e) = {}
    BY <1>1, <2>1, <2>4, <2>6
  <2>8. after = 1 .. cursor'[s]
    <3> HIDE DEF before, after
    <3> QED
      BY <2>4, <2>5
  <2> QED
    BY <2>7, <2>8 DEF new
<1> QED
  BY <1>3, <1>4

LEMMA RefuseKnown ==
    ASSUME WorkInv, CommandInv, WorkInv', NEW c \in sent, Refuse(c)
    PROVE  CommandInv'
<1>1. /\ UNCHANGED <<run, cursor, receipts, outbox, draft>> /\ Unlocked /\ refused' = refused \cup {c}
      /\ c \notin receipts /\ (SameId(c) # {} \/ ~Admissible(c))
  BY DEF Refuse
<1>2. \A d \in refused' : RefusalSound(d)'
  <2>1. RefusalSound(c)'
    BY <1>1 DEF RefusalSound, SameId, Admissible, HighWater
  <2>2. \A d \in refused : RefusalSound(d)'
    <3>1. \A d \in refused : RefusalSound(d)
      BY DEF CommandInv
    <3> QED
      BY <1>1, <3>1 DEF RefusalSound, SameId, Admissible, HighWater
  <2> QED
    BY <1>1, <2>1, <2>2
<1>3. DraftKnown' /\ EventsConsumedOnce' /\ Carries(outbox', run')
  BY <1>1 DEF CommandInv, DraftKnown, Unlocked, EventsConsumedOnce
<1> QED
  BY <1>2, <1>3 DEF CommandInv

\* A receipt is added for d, which was not refused.
LEMMA AcceptedKeeps ==
    ASSUME WorkInv, CommandInv, WorkInv', NEW d \in sent, d \notin refused,
           receipts' = receipts \cup {d}, UNCHANGED refused, run' = run \/ run'.revision > run.revision,
           \A s \in Subscriptions : cursor'[s] >= cursor[s]
    PROVE  \A c \in refused' : RefusalSound(c)'
<1>1. \A c \in refused : c \in sent /\ RefusalSound(c)
  BY StoreFields DEF CommandInv
<1>2. \A c \in refused : c \notin receipts'
  BY <1>1 DEF RefusalSound
<1> QED
  BY <1>1, <1>2, RefusalKeeps

LEMMA AcknowledgeKnown ==
    ASSUME WorkInv, CommandInv, WorkInv', NEW c \in sent, Acknowledge(c)
    PROVE  CommandInv'
<1>1. /\ Unlocked /\ c.kind = "acknowledge" /\ SameId(c) = {} /\ Admissible(c)
      /\ cursor' = Consumed(c) /\ receipts' = receipts \cup {c}
      /\ UNCHANGED <<run, outbox, draft, refused>>
  BY DEF Acknowledge
<1>2. c \notin refused
  BY <1>1, NotAccepted
<1>3. \A s \in Subscriptions : cursor'[s] >= cursor[s]
  BY <1>1, ConsumedGrows
<1>4. \A d \in refused' : RefusalSound(d)'
  BY <1>1, <1>2, <1>3, AcceptedKeeps
<1>5. EventsConsumedOnce'
  BY <1>1, EventsStep DEF CommandInv
<1>6. DraftKnown' /\ Carries(outbox', run')
  BY <1>1 DEF CommandInv, DraftKnown, Unlocked
<1> QED
  BY <1>4, <1>5, <1>6 DEF CommandInv

LEMMA BeginKnown ==
    ASSUME WorkInv, CommandInv, WorkInv', NEW c \in sent, Begin(c)
    PROVE  CommandInv'
<1> DEFINE d == [command |-> c, at |-> 1, run |-> run, intents |-> <<>>]
<1>1. /\ UNCHANGED <<run, cursor, receipts, outbox, refused>> /\ draft' = d
      /\ c.kind = "apply" /\ SameId(c) = {}
  BY DEF Begin
<1>2. d.command = c /\ d.at = 1 /\ d.run = run /\ d.intents = <<>>
  OBVIOUS
<1> HIDE DEF d
<1>3. outbox \o <<>> = outbox
  BY StoreFields
<1>4. Reached(c.ops, run, 1, run)
  BY ReachedFirst, StoreFields DEF CommandSound
<1>5. DraftKnown'
  BY <1>1, <1>2, <1>3, <1>4 DEF DraftKnown, SameId, CommandInv
<1>6. \A x \in refused' : RefusalSound(x)'
  BY <1>1, RefusalsKeep, CursorStays
<1>7. EventsConsumedOnce' /\ Carries(outbox', run')
  BY <1>1 DEF CommandInv, EventsConsumedOnce
<1> QED
  BY <1>5, <1>6, <1>7 DEF CommandInv

LEMMA ReduceKnown ==
    ASSUME WorkInv, CommandInv, WorkInv', Reduce
    PROVE  CommandInv'
<1> DEFINE new == Reduced(draft.run, Op)
           asks == IntentsOf(draft.run, Op)
           q == outbox \o draft.intents
<1>1. /\ ~Unlocked /\ draft.at <= Len(draft.command.ops) /\ Allowed(draft.run, Op)
      /\ draft' = [draft EXCEPT !.at = @ + 1, !.run = new, !.intents = @ \o asks]
      /\ UNCHANGED <<run, cursor, receipts, outbox, view, flusher, sent, refused>>
  BY DEF Reduce
<1>2. /\ draft \in Drafts /\ draft.command \in sent /\ draft.at \in Nat \ {0}
      /\ draft.run \in Runs /\ draft.intents \in Seq(Intents)
  BY <1>1, DraftFields, StoreFields DEF WorkInv, Unlocked
<1>3. draft.command.ops \in Seq(Operations) /\ draft.at \in 1 .. Len(draft.command.ops) /\ Op \in Operations
      /\ Op = draft.command.ops[draft.at]
  <2>1. draft.command.ops \in Seq(Operations)
    BY <1>2, StoreFields DEF CommandSound
  <2> QED
    BY <1>1, <1>2, <2>1 DEF Op
<1>4. /\ RunSound(view, q, draft.run) /\ view \in [Executions -> Kernel!Snapshots] /\ q \in Seq(Intents)
  BY <1>1, <1>2, StoreFields, Joined DEF WorkInv, DraftSound, Typed
<1>5. /\ draft.command.kind = "apply" /\ SameId(draft.command) = {}
      /\ Carries(q, draft.run) /\ Reached(draft.command.ops, run, draft.at, draft.run)
  BY <1>1 DEF CommandInv, DraftKnown
<1>6. Carries(q \o asks, new)
  BY <1>1, <1>2, <1>3, <1>4, <1>5, ReduceCarries
<1>7. Reached(draft.command.ops, run, draft.at + 1, new)
  BY <1>1, <1>3, <1>5, ReachedNext
<1>8. asks \in Seq(Intents)
  BY <1>1, <1>2, <1>3, <1>4, ReduceSound
<1> HIDE DEF new, asks
<1>9. q \o asks = outbox \o (draft.intents \o asks)
  <2>1. outbox \in Seq(Intents) /\ draft.intents \in Seq(Intents) /\ asks \in Seq(Intents)
    BY <1>2, <1>8, StoreFields
  <2>2. (outbox \o draft.intents) \o asks = outbox \o (draft.intents \o asks)
    BY <2>1, Joined
  <2> QED
    BY <2>2
<1>10. /\ draft'.command = draft.command /\ draft'.at = draft.at + 1 /\ draft'.run = new
       /\ draft'.intents = draft.intents \o asks
  BY <1>1, <1>2 DEF Drafts
<1>11. DraftKnown'
  BY <1>1, <1>5, <1>6, <1>7, <1>9, <1>10 DEF DraftKnown, SameId
<1>12. \A x \in refused' : RefusalSound(x)'
  BY <1>1, RefusalsKeep, CursorStays
<1>13. EventsConsumedOnce' /\ Carries(outbox', run')
  BY <1>1 DEF CommandInv, EventsConsumedOnce
<1> QED
  BY <1>11, <1>12, <1>13 DEF CommandInv

LEMMA AbandonKnown ==
    ASSUME WorkInv, CommandInv, WorkInv', Rollback \/ Abort
    PROVE  CommandInv'
<1>1. /\ UNCHANGED <<run, cursor, receipts, outbox>> /\ draft' = NoDraft
  BY DEF Rollback, Abort
<1>2. DraftKnown' /\ EventsConsumedOnce' /\ Carries(outbox', run')
  BY <1>1 DEF CommandInv, DraftKnown, Unlocked, EventsConsumedOnce
<1>3. CASE Abort
  <2>1. \A c \in refused' : RefusalSound(c)'
    BY <1>1, <1>3, RefusalsKeep, CursorStays DEF Abort
  <2> QED
    BY <1>2, <2>1 DEF CommandInv
<1>4. CASE Rollback
  <2>1. ~Unlocked /\ draft.at <= Len(draft.command.ops) /\ ~Allowed(draft.run, Op)
        /\ refused' = refused \cup {draft.command}
    BY <1>4 DEF Rollback
  <2>2. PICK d \in sent : d = draft.command
    BY <2>1, DraftFields, StoreFields DEF WorkInv
  <2>3. draft.at \in Nat \ {0} /\ d.ops \in Seq(Operations)
    BY <2>1, <2>2, DraftFields, StoreFields DEF WorkInv, CommandSound
  <2>4. d.kind = "apply" /\ SameId(d) = {} /\ Reached(d.ops, run, draft.at, draft.run)
    BY <2>1, <2>2 DEF CommandInv, DraftKnown
  <2>5. Doomed(d.ops, run)
    BY <2>1, <2>2, <2>3, <2>4, ReachedTells DEF Op
  <2>6. d \notin receipts
    BY <2>4 DEF SameId
  <2>7. RefusalSound(d)'
    BY <1>1, <2>4, <2>5, <2>6 DEF RefusalSound
  <2>8. \A c \in refused : RefusalSound(c)'
    <3>1. \A c \in refused : c \in sent /\ RefusalSound(c)
      BY StoreFields DEF CommandInv
    <3> QED
      BY <1>1, <3>1 DEF RefusalSound, SameId, Admissible, HighWater
  <2> QED
    BY <1>2, <2>1, <2>2, <2>7, <2>8 DEF CommandInv
<1> QED
  BY <1>3, <1>4

LEMMA CommitKnown ==
    ASSUME WorkInv, CommandInv, WorkInv', Commit
    PROVE  CommandInv'
<1> DEFINE d == draft.command
<1>1. /\ ~Unlocked /\ draft.at > Len(d.ops) /\ run' = [draft.run EXCEPT !.revision = @ + 1]
      /\ cursor' = Consumed(d) /\ outbox' = outbox \o draft.intents
      /\ receipts' = receipts \cup {d} /\ draft' = NoDraft /\ UNCHANGED refused
  BY DEF Commit
<1>2. d \in sent /\ draft.at \in Nat \ {0} /\ draft.run \in Runs /\ d.ops \in Seq(Operations)
  BY <1>1, DraftFields, StoreFields DEF WorkInv, CommandSound
<1>3. /\ Admissible(d) /\ SameId(d) = {} /\ Reached(d.ops, run, draft.at, draft.run)
      /\ Carries(outbox \o draft.intents, draft.run) /\ Grown(run, draft.run)
  BY <1>1 DEF CommandInv, DraftKnown, WorkInv, DraftSound
<1>4. run'.revision > run.revision /\ run'.tasks = draft.run.tasks
  BY <1>1, <1>2, <1>3, Renumbered, StoreFields DEF Grown
<1>5. d \notin refused
  <2>1. ~Doomed(d.ops, run)
    BY <1>1, <1>2, <1>3, ReachedTells
  <2> QED
    BY <1>2, <1>3, <2>1, NotAccepted
<1>6. \A s \in Subscriptions : cursor'[s] >= cursor[s]
  BY <1>1, <1>2, <1>3, ConsumedGrows
<1>7. \A c \in refused' : RefusalSound(c)'
  BY <1>1, <1>2, <1>4, <1>5, <1>6, AcceptedKeeps
<1>8. EventsConsumedOnce'
  BY <1>1, <1>2, <1>3, EventsStep DEF CommandInv
<1>9. Carries(outbox', run')
  BY <1>1, <1>3, <1>4 DEF Carries, InRun, AttemptOf
<1>10. DraftKnown'
  BY <1>1 DEF DraftKnown, Unlocked
<1> QED
  BY <1>7, <1>8, <1>9, <1>10 DEF CommandInv

LEMMA AlikeSame == ASSUME NEW r, NEW s, r.tasks = s.tasks PROVE Alike(r, s)
BY DEF Alike, InRun, AttemptOf

LEMMA DeliveryFailedKnown ==
    ASSUME WorkInv, CommandInv, WorkInv', NEW f \in Flushers, flusher[f].message # 0, DeliveryFailed(f)
    PROVE  CommandInv'
<1> DEFINE m == flusher[f].message
           i == [outbox[m] EXCEPT !.attempts = @ + 1]
<1>1. /\ Unlocked /\ UNCHANGED <<cursor, receipts, draft, refused>>
      /\ \/ outbox' = outbox /\ run' = run
         \/ outbox' = [outbox EXCEPT ![m] = i] /\ run' = [run EXCEPT !.revision = @ + 1]
  BY DEF DeliveryFailed
<1>2. m \in DOMAIN outbox /\ outbox \in Seq(Intents)
  BY CallerMessage, StoreFields
<1>3. i \in Intents /\ i.kind = outbox[m].kind /\ i.execution = outbox[m].execution
  <2>1. outbox[m] \in Intents
    BY <1>2
  <2> QED
    BY <2>1 DEF Intents
<1> HIDE DEF i, m
<1>4. CASE outbox' = outbox /\ run' = run
  BY <1>1, <1>4, NoCommandStep
<1>5. CASE outbox' = [outbox EXCEPT ![m] = i] /\ run' = [run EXCEPT !.revision = @ + 1]
  <2>1. OutboxKeeps(outbox, outbox') /\ Len(outbox') = Len(outbox)
    BY <1>2, <1>3, <1>5, IntentSet
  <2>2. run'.revision > run.revision /\ run'.tasks = run.tasks
    BY <1>5, Renumbered, StoreFields
  <2> QED
    BY <1>1, <2>1, <2>2, AlikeSame, RevisionStep
<1> QED
  BY <1>1, <1>4, <1>5

LEMMA WriteKnown ==
    ASSUME WorkInv, CommandInv, WorkInv', NEW f \in Flushers, Write(f)
    PROVE  CommandInv'
<1> DEFINE e    == flusher[f].execution
           seen == flusher[f].seen
           a    == Projected(run, e, seen)
           set  == SetAttempt(run, e, a)
<1>1. /\ Unlocked /\ flusher[f].pc = "write" /\ UNCHANGED <<cursor, receipts, outbox, draft, refused>>
      /\ \/ run' = [set EXCEPT !.revision = @ + 1]
         \/ run' = run
  BY DEF Write, Projected
<1>2. e \in Executions /\ view[e] # Kernel!Unknown /\ seen \in Kernel!Snapshots
  BY <1>1, CallerFields DEF CallerSound
<1>3. run \in Runs /\ InRun(run, e) /\ AttemptOf(run, e) \in Attempts
  BY <1>2, AttemptTyped, StoreFields DEF WorkInv, RunSound, ExecutionSound
<1>4. a \in Attempts /\ a.dispatched = AttemptOf(run, e).dispatched
  BY <1>2, <1>3, PhaseNames DEF Projected, Attempts
<1> HIDE DEF a
<1>5. CASE run' = [set EXCEPT !.revision = @ + 1]
  <2>1. set \in Runs /\ set.revision = run.revision /\ Put(run, set, e, a)
    BY <1>2, <1>3, <1>4, SetEffect
  <2> HIDE DEF set
  <2>2. run'.revision > run.revision /\ run'.tasks = set.tasks
    BY <1>5, <2>1, Renumbered, StoreFields
  <2>3. \A x \in Executions : InRun(run', x) => InRun(run, x) /\ AttemptOf(run', x).dispatched = AttemptOf(run, x).dispatched
    <3>1. \A u \in Tasks : DOMAIN set.tasks[u].attempts = DOMAIN run.tasks[u].attempts
      BY <1>3, <2>1, RunFields DEF Put
    <3>2. \A x \in Executions : InRun(run', x) => InRun(run, x) /\ AttemptOf(run', x) = AttemptOf(set, x)
      BY <2>2, <3>1, ExecutionFields DEF InRun, AttemptOf
    <3> QED
      BY <1>4, <2>1, <3>2 DEF Put
  <2>4. Alike(run, run')
    BY <2>3 DEF Alike
  <2> QED
    BY <1>1, <2>2, <2>4, OutboxStays, RevisionStep
<1>6. CASE run' = run
  BY <1>1, <1>6, NoCommandStep
<1> QED
  BY <1>1, <1>5, <1>6

LEMMA MarkKnown ==
    ASSUME WorkInv, CommandInv, WorkInv', NEW f \in Flushers, Mark(f)
    PROVE  CommandInv'
<1> DEFINE m == flusher[f].message
<1>1. /\ Unlocked /\ UNCHANGED <<run, cursor, receipts, draft, refused>> /\ flusher[f].pc = "mark"
      /\ outbox' = IF outbox[m].delivered THEN outbox ELSE [outbox EXCEPT ![m].delivered = TRUE, ![m].attempts = @ + 1]
  BY DEF Mark
<1>2. m \in DOMAIN outbox /\ outbox \in Seq(Intents)
  BY <1>1, CallerFields, CallerMessage, StoreFields DEF CallerSound
<1>3. /\ outbox' \in Seq(Intents) /\ Len(outbox') = Len(outbox)
      /\ \A n \in DOMAIN outbox : outbox'[n].kind = outbox[n].kind /\ outbox'[n].execution = outbox[n].execution
  <2>1. Len(outbox') = Len(outbox) /\ outbox' \in Seq(Intents)
    BY <1>1, <1>2, StoreFields DEF WorkInv, Typed
  <2>2. outbox[m] \in Intents
    BY <1>2
  <2> QED
    BY <1>1, <1>2, <2>1, <2>2 DEF Intents
<1>4. OutboxKeeps(outbox, outbox')
  BY <1>2, <1>3 DEF OutboxKeeps
<1> QED
  BY <1>1, <1>3, <1>4, NoCommandStep

LEMMA StepCommands == WorkInv /\ CommandInv /\ WorkInv' /\ [Next]_vars => CommandInv'
<1> SUFFICES ASSUME WorkInv, CommandInv, WorkInv', [Next]_vars PROVE CommandInv'
  OBVIOUS
<1>1. CASE UNCHANGED <<run, cursor, receipts, draft, refused>> /\ outbox' = outbox
  BY <1>1, NoCommandStep
<1>2. ASSUME NEW c \in sent, Refuse(c) \/ Acknowledge(c) \/ Begin(c) PROVE CommandInv'
  BY <1>2, RefuseKnown, AcknowledgeKnown, BeginKnown
<1>3. CASE Reduce \/ Rollback \/ Commit \/ Abort
  BY <1>3, ReduceKnown, AbandonKnown, CommitKnown
<1>4. ASSUME NEW f \in Flushers, Fail(f) \/ Trouble(f) PROVE CommandInv'
  <2>1. DeliveryFailed(f) /\ flusher[f].message # 0
    BY <1>4, CallerFields DEF Fail, Trouble, CallerSound
  <2> QED
    BY <2>1, DeliveryFailedKnown
<1>5. ASSUME NEW f \in Flushers, Write(f) \/ Mark(f) PROVE CommandInv'
  BY <1>5, WriteKnown, MarkKnown
<1>6. \/ UNCHANGED <<run, cursor, receipts, draft, refused>> /\ outbox' = outbox
      \/ \E c \in sent : Refuse(c) \/ Acknowledge(c) \/ Begin(c)
      \/ Reduce \/ Rollback \/ Commit \/ Abort
      \/ \E f \in Flushers : Fail(f) \/ Trouble(f) \/ Write(f) \/ Mark(f)
  BY DEF Next, vars, Decide, DecideNothing, Send, FlusherStep, Poll, Crash, Select, Look, LookAgain,
         Submit, CancelBeforeAccept, CancelExecution, Read, KernelMoves
<1> QED
  BY <1>1, <1>2, <1>3, <1>4, <1>5, <1>6

LEMMA SpecCommands == Spec => []CommandInv
<1> QED
  BY SpecWork, InitCommands, StepCommands, PTL DEF Spec

LEMMA CommandsAreSound == WorkInv /\ CommandInv => CommandsHold
<1> SUFFICES ASSUME WorkInv, CommandInv PROVE CommandsHold
  OBVIOUS
<1>1. ASSUME NEW e \in Executions
      PROVE  Cardinality(IntentsFor("dispatch", e)) = IF Registered(e) /\ AttemptOf(run, e).dispatched THEN 1 ELSE 0
  <2>1. e \in Dispatches(outbox) <=> Registered(e) /\ AttemptOf(run, e).dispatched
    BY DispatchesAreAsked DEF CommandInv, Carries, WorkInv, RunSound, ExecutionSound, Registered, InRun
  <2>2. CASE e \in Dispatches(outbox)
    <3>1. PICK m \in DOMAIN outbox : outbox[m].execution = e /\ outbox[m].kind = "dispatch"
      BY <2>2 DEF Dispatches
    <3>2. IntentsFor("dispatch", e) = {m}
      BY <3>1 DEF IntentsFor, CommandInv, Carries
    <3> QED
      BY <2>1, <2>2, <3>2, FS_Singleton
  <2>3. CASE e \notin Dispatches(outbox)
    <3>1. IntentsFor("dispatch", e) = {}
      BY <2>3 DEF IntentsFor, Dispatches
    <3> QED
      BY <2>1, <2>3, <3>1, FS_EmptySet
  <2> QED
    BY <2>2, <2>3
<1>2. RefusedIsFinal
  BY DEF RefusedIsFinal, CommandInv, RefusalSound
<1> QED
  BY <1>1, <1>2 DEF CommandsHold, IntentsMatch, CommandInv

\* A command commits its decision with the intents that carry it, or nothing;
\* one that was refused is not applied later, however often it is sent; and the
\* accepted commands of a subscription consume each event once.
THEOREM CommandsAlwaysHold == Spec => []CommandsHold
<1> QED
  BY SpecWork, SpecCommands, CommandsAreSound, PTL
=============================================================================
