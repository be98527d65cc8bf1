--------------------------- MODULE RunRecovery_proofs ---------------------------
(***************************************************************************)
(* What RunRecovery promises of reopened Runs, for any Runs, any finite    *)
(* set of reopen commands and any owners.  RecoveryAssumption is about the *)
(* constants only; it is a hypothesis of each theorem.                     *)
(***************************************************************************)
EXTENDS RunRecovery, FiniteSetTheorems, TLAPS

-----------------------------------------------------------------------------
(* The inductive invariant                                                 *)

Decided(r) == {c \in Commands : RunOf[c] = r /\ rec[c].st \in {"committed", "activated"}}

\* A batch that was read long ago only holds messages that were there, and one
\* that is marked has been taken by the Kernel: it is not delivered again.
BatchIsOld ==
    /\ \A r \in Runs, g \in Generations :
         <<r, g>> \in flush.batch => task[r][g].intent # "none"
    /\ \A r \in Runs, g \in Generations :
         task[r][g].intent = "delivered" => task[r][g].exec # "none"

\* The facts of a decision stay as they were when it was prepared.
PreparedIsClear == \A c \in Commands :
    rec[c].st = "prepared" => \A g \in Generations : SettledTask(task[RunOf[c]][g])

OneActive == \A c, d \in Commands :
    RunOf[c] = RunOf[d] /\ rec[c].st \in Active /\ rec[d].st \in Active => c = d

Counted == \A r \in Runs : run[r].gen = Cardinality(Decided(r))

RecoveryInv ==
    /\ TypeOK
    /\ OldWorkIsOver /\ PreparedIsFrozen /\ NeverForked
    /\ BatchIsOld /\ PreparedIsClear /\ OneActive /\ Counted

Tasks == [intent : {"none", "pending", "delivered"}, exec : {"none", "live", "over"}, busy : BOOLEAN,
          view : {"planned", "live", "over"}, outbox : {"none", "pending", "delivering", "delivered"},
          result : {"none", "pending", "delivered"}]
Recs == [st : {"none", "aborted", "activated"} \cup Active, owner : Owners,
         lease : BOOLEAN, target : Generations, moved : BOOLEAN]
Flushes == [stage : {"idle", "blocked", "batch"}, blocked : SUBSET Runs,
            batch : SUBSET (Runs \X Generations)]

LEMMA GenerationsType == ASSUME RecoveryAssumption
  PROVE /\ Cardinality(Commands) \in Nat /\ 0 \in Generations /\ Generations \subseteq Nat
        /\ \A g \in Generations : g <= Cardinality(Commands)
  BY FS_CardinalityType DEF RecoveryAssumption, Generations

\* A reopened Run has one generation more than decisions; there is room for it.
LEMMA RoomForAnother == ASSUME RecoveryAssumption, NEW r \in Runs, NEW c \in Commands \ Decided(r)
  PROVE /\ Cardinality(Decided(r)) + 1 \in Generations
        /\ Cardinality(Decided(r) \cup {c}) = Cardinality(Decided(r)) + 1
<1>1. IsFiniteSet(Decided(r)) /\ Decided(r) \cup {c} \subseteq Commands
  BY FS_Subset DEF RecoveryAssumption, Decided
<1>2. Cardinality(Decided(r) \cup {c}) = Cardinality(Decided(r)) + 1
  BY <1>1, FS_AddElement
<1>3. Cardinality(Decided(r) \cup {c}) <= Cardinality(Commands)
  BY <1>1, FS_Subset DEF RecoveryAssumption
<1> QED  BY <1>1, <1>2, <1>3, FS_CardinalityType, GenerationsType DEF Generations

\* A change of a Run that no prepared decision is about moves none.
LEMMA MovedNothing == ASSUME NEW r \in Runs, TypeOK,
    \A c \in Commands : RunOf[c] = r => rec[c].st # "prepared"
  PROVE Moved(r) = rec
<1>1. rec = [c \in Commands |-> rec[c]]
  BY DEF TypeOK
<1> QED  BY <1>1 DEF Moved

LEMMA InitInv == ASSUME RecoveryAssumption, Init PROVE RecoveryInv
<1>1. TypeOK
  BY GenerationsType DEF Init, TypeOK, NoTask, IdleFlush, RecoveryAssumption
<1>2. \A r \in Runs : Decided(r) = {}
  BY DEF Init, Decided
<1>3. Counted
  BY <1>2, FS_EmptySet DEF Counted, Init
<1>4. OldWorkIsOver /\ PreparedIsFrozen /\ NeverForked
  BY GenerationsType DEF Init, OldWorkIsOver, PreparedIsFrozen, NeverForked
<1>5. BatchIsOld /\ PreparedIsClear /\ OneActive
  BY DEF Init, BatchIsOld, PreparedIsClear, OneActive, NoTask, IdleFlush, Active
<1> QED  BY <1>1, <1>3, <1>4, <1>5 DEF RecoveryInv

-----------------------------------------------------------------------------
(* Steps of one task: an old or a decided one that is settled stays so     *)

LEMMA TaskStep == ASSUME RecoveryAssumption, RecoveryInv,
    NEW r \in Runs, NEW g \in Generations, NEW t \in Tasks,
    task' = [task EXCEPT ![r][g] = t],
    UNCHANGED <<run, rec, order, turn>>, note' = note, flush' \in Flushes,
    flush'.batch \subseteq flush.batch,
    SettledTask(task[r][g]) => SettledTask(t),
    t.intent = "none" => task[r][g].intent = "none",
    t.intent = "delivered" => t.exec # "none"
  PROVE RecoveryInv'
<1>1. TypeOK'
  BY DEF RecoveryInv, TypeOK, Tasks, Flushes
<1>2. /\ task'[r][g] = t
      /\ \A q \in Runs, h \in Generations : <<q, h>> # <<r, g>> => task'[q][h] = task[q][h]
  BY DEF RecoveryInv, TypeOK
<1>3. \A q \in Runs, h \in Generations : SettledTask(task[q][h]) => SettledTask(task'[q][h])
  BY <1>2
<1>4. OldWorkIsOver'
  BY <1>3 DEF RecoveryInv, OldWorkIsOver, SettledTask
<1>5. BatchIsOld'
  BY <1>2 DEF RecoveryInv, BatchIsOld
<1>6. PreparedIsClear'
  BY <1>3 DEF RecoveryInv, PreparedIsClear, RecoveryAssumption
<1>7. (PreparedIsFrozen /\ NeverForked /\ OneActive /\ Counted)'
  BY DEF RecoveryInv, PreparedIsFrozen, Reopenable, NeverForked, Recovering, OneActive, Counted, Decided
<1> QED  BY <1>1, <1>4, <1>5, <1>6, <1>7 DEF RecoveryInv

LEMMA TaskActionInv == ASSUME RecoveryAssumption, RecoveryInv,
    NEW r \in Runs, NEW g \in Generations, Task(r, g)
  PROVE RecoveryInv'
<1> DEFINE t == task'[r][g]
<1>1. task[r][g] \in Tasks /\ flush \in Flushes
  BY DEF RecoveryInv, TypeOK, Tasks, Flushes
<1>2. ASSUME NEW u \in Tasks, task' = [task EXCEPT ![r][g] = u], UNCHANGED <<run, note, rec, order, turn>>,
             flush' \in Flushes, flush'.batch \subseteq flush.batch,
             SettledTask(task[r][g]) => SettledTask(u), u.intent # "none", u.intent = "delivered" => u.exec # "none"
      PROVE RecoveryInv'
  BY <1>2, TaskStep
<1>3. CASE FlushDeliver(r, g)
  <2> DEFINE u == [task[r][g] EXCEPT !.exec = "live"]
  <2>1. u \in Tasks /\ task' = [task EXCEPT ![r][g] = u] /\ UNCHANGED <<run, note, rec, order, turn, flush>>
    BY <1>1, <1>3 DEF FlushDeliver, Tasks
  <2>2. u.intent = task[r][g].intent /\ u.intent \notin {"none", "delivered"}
    BY <1>1, <1>3 DEF FlushDeliver, RecoveryInv, BatchIsOld, Tasks
  <2>3. ~SettledTask(task[r][g])
    BY <1>1, <2>2 DEF SettledTask, Tasks
  <2> QED  BY <1>1, <1>2, <2>1, <2>2, <2>3
<1>4. CASE FlushMark(r, g)
  <2> DEFINE u == [task[r][g] EXCEPT !.intent = "delivered"]
  <2>1. u \in Tasks /\ task' = [task EXCEPT ![r][g] = u] /\ UNCHANGED <<run, note, rec, order, turn>>
    BY <1>1, <1>4 DEF FlushMark, Tasks
  <2>2. u.intent = "delivered" /\ u.exec # "none" /\ (SettledTask(task[r][g]) => SettledTask(u))
    BY <1>1, <1>4 DEF FlushMark, SettledTask, Tasks
  <2>3. flush' \in Flushes /\ flush'.batch \subseteq flush.batch
    BY <1>1, <1>4 DEF FlushMark, Flushes
  <2> QED  BY <1>2, <2>1, <2>2, <2>3
<1>5. CASE FlushFails(r, g)
  <2>1. flush' \in Flushes /\ flush'.batch \subseteq flush.batch
    BY <1>1, <1>5 DEF FlushFails, Flushes
  <2>2. rec' = rec
    <3>1. CASE task[r][g].intent = "pending"
      <4>1. ~SettledTask(task[r][g])
        BY <3>1 DEF SettledTask
      <4>2. Moved(r) = rec
        BY <4>1, MovedNothing DEF RecoveryInv, PreparedIsClear
      <4> QED  BY <1>5, <4>2 DEF FlushFails
    <3> QED  BY <1>5, <3>1 DEF FlushFails
  <2>3. task[r][g].intent # "none" /\ (task[r][g].intent = "delivered" => task[r][g].exec # "none")
    BY <1>5 DEF FlushFails, RecoveryInv, BatchIsOld
  <2>4. task' = [task EXCEPT ![r][g] = task[r][g]] /\ UNCHANGED <<run, note, order, turn>>
    BY <1>5 DEF FlushFails, RecoveryInv, TypeOK
  <2> QED  BY <1>1, <1>2, <2>1, <2>2, <2>3, <2>4
<1>6. CASE \/ ExecutionEnds(r, g) \/ CleanedUp(r, g) \/ PumpClaim(r, g) \/ PumpStore(r, g) \/ PumpAck(r, g)
           \/ PumpLeaseEnds(r, g) \/ AcknowledgeResult(r, g)
  <2>1. UNCHANGED <<run, note, rec, order, turn, flush>>
    BY <1>6 DEF ExecutionEnds, CleanedUp, PumpClaim, PumpStore, PumpAck, PumpLeaseEnds, AcknowledgeResult
  <2>2. PICK u \in Tasks : /\ task' = [task EXCEPT ![r][g] = u]
                           /\ SettledTask(task[r][g]) => SettledTask(u)
                           /\ u.intent = task[r][g].intent
                           /\ task[r][g].exec # "none" => u.exec # "none"
    <3>1. CASE ExecutionEnds(r, g)
      <4>1. PICK b \in BOOLEAN : task' = [task EXCEPT ![r][g] = [@ EXCEPT !.exec = "over", !.outbox = "pending", !.busy = b]]
        BY <3>1 DEF ExecutionEnds
      <4> DEFINE u == [task[r][g] EXCEPT !.exec = "over", !.outbox = "pending", !.busy = b]
      <4>2. u \in Tasks /\ task' = [task EXCEPT ![r][g] = u]
        BY <1>1, <4>1 DEF Tasks, RecoveryInv, TypeOK
      <4>3. ~SettledTask(task[r][g]) /\ u.intent = task[r][g].intent /\ u.exec # "none"
        BY <1>1, <3>1 DEF ExecutionEnds, SettledTask, Tasks
      <4> QED  BY <4>2, <4>3
    <3>2. CASE CleanedUp(r, g)
      <4> DEFINE u == [task[r][g] EXCEPT !.busy = FALSE]
      <4>1. u \in Tasks /\ task' = [task EXCEPT ![r][g] = u] /\ ~SettledTask(task[r][g])
        BY <1>1, <3>2 DEF CleanedUp, SettledTask, Tasks
      <4> QED  BY <1>1, <4>1 DEF Tasks
    <3>3. CASE PumpClaim(r, g)
      <4> DEFINE u == [task[r][g] EXCEPT !.outbox = "delivering"]
      <4>1. u \in Tasks /\ task' = [task EXCEPT ![r][g] = u] /\ ~SettledTask(task[r][g])
        BY <1>1, <3>3 DEF PumpClaim, SettledTask, Tasks
      <4> QED  BY <1>1, <4>1 DEF Tasks
    <3>4. CASE PumpStore(r, g)
      <4> DEFINE u == [task[r][g] EXCEPT !.result = "pending"]
      <4>1. u \in Tasks /\ task' = [task EXCEPT ![r][g] = u] /\ ~SettledTask(task[r][g])
        BY <1>1, <3>4 DEF PumpStore, SettledTask, Tasks
      <4> QED  BY <1>1, <4>1 DEF Tasks
    <3>5. CASE PumpAck(r, g)
      <4> DEFINE u == [task[r][g] EXCEPT !.outbox = "delivered"]
      <4>1. u \in Tasks /\ task' = [task EXCEPT ![r][g] = u] /\ ~SettledTask(task[r][g])
        BY <1>1, <3>5 DEF PumpAck, SettledTask, Tasks
      <4> QED  BY <1>1, <4>1 DEF Tasks
    <3>6. CASE PumpLeaseEnds(r, g)
      <4> DEFINE u == [task[r][g] EXCEPT !.outbox = "pending"]
      <4>1. u \in Tasks /\ task' = [task EXCEPT ![r][g] = u] /\ ~SettledTask(task[r][g])
        BY <1>1, <3>6 DEF PumpLeaseEnds, SettledTask, Tasks
      <4> QED  BY <1>1, <4>1 DEF Tasks
    <3>7. CASE AcknowledgeResult(r, g)
      <4> DEFINE u == [task[r][g] EXCEPT !.result = "delivered"]
      <4>1. u \in Tasks /\ task' = [task EXCEPT ![r][g] = u] /\ ~SettledTask(task[r][g])
        BY <1>1, <3>7 DEF AcknowledgeResult, SettledTask, Tasks
      <4> QED  BY <1>1, <4>1 DEF Tasks
    <3> QED  BY <1>6, <3>1, <3>2, <3>3, <3>4, <3>5, <3>6, <3>7
  <2>3. u.intent = "none" => task[r][g].intent = "none"
    BY <2>2
  <2>4. u.intent = "delivered" => u.exec # "none"
    BY <2>2 DEF RecoveryInv, BatchIsOld
  <2> QED  BY <1>1, <2>1, <2>2, <2>3, <2>4, TaskStep
<1>7. CASE Sync(r, g)
  <2> DEFINE u == [task[r][g] EXCEPT !.view = "over"]
  <2>1. u \in Tasks /\ task' = [task EXCEPT ![r][g] = u] /\ UNCHANGED <<run, note, order, turn, flush>>
    BY <1>1, <1>7 DEF Sync, Tasks
  <2>2. ~SettledTask(task[r][g]) /\ u.intent = task[r][g].intent /\ u.exec # "none"
    BY <1>1, <1>7 DEF Sync, SettledTask, Tasks
  <2>3. rec' = rec
    BY <1>7, <2>2, MovedNothing DEF Sync, RecoveryInv, PreparedIsClear
  <2> QED  BY <1>1, <2>1, <2>2, <2>3, TaskStep
<1> QED  BY <1>3, <1>4, <1>5, <1>6, <1>7 DEF Task

-----------------------------------------------------------------------------
(* Steps of a Run, of a flush and of a recovery                            *)

\* What the application does to a Run needs it not to recover.
LEMMA RunStep == ASSUME RecoveryAssumption, RecoveryInv, NEW r \in Runs,
    AddAndDispatch(r) \/ Finish(r) \/ Continue(r)
  PROVE RecoveryInv'
<1>1. ~Recovering(r)
  BY DEF AddAndDispatch, Finish, Continue, MayApply, MayContinue
<1>2. Moved(r) = rec
  BY <1>1, MovedNothing DEF RecoveryInv, Recovering, Active
<1>3. rec' = rec /\ UNCHANGED <<note, order, turn, flush>>
  BY <1>2 DEF AddAndDispatch, Finish, Continue
<1>4. CASE AddAndDispatch(r)
  <2> DEFINE h == run[r].gen
  <2> DEFINE u == [task[r][h] EXCEPT !.intent = "pending", !.view = "live"]
  <2>1. h \in Generations /\ task[r][h] \in Tasks
    BY DEF RecoveryInv, TypeOK, Tasks
  <2>2. u \in Tasks /\ u.intent = "pending" /\ task' = [task EXCEPT ![r][h] = u] /\ run' = run
    BY <1>4, <2>1 DEF AddAndDispatch, Tasks, RecoveryInv, TypeOK
  <2>3. /\ task'[r][h] = u
        /\ \A q \in Runs, g \in Generations : <<q, g>> # <<r, h>> => task'[q][g] = task[q][g]
    BY <2>1, <2>2 DEF RecoveryInv, TypeOK
  <2>4. TypeOK'
    BY <1>3, <2>1, <2>2 DEF RecoveryInv, TypeOK, Tasks
  <2>5. OldWorkIsOver'
    <3> SUFFICES ASSUME NEW q \in Runs, NEW g \in Generations, g < run[q].gen
                 PROVE SettledTask(task'[q][g])
      BY <2>2 DEF OldWorkIsOver, SettledTask
    <3>1. <<q, g>> # <<r, h>>
      BY GenerationsType, <2>1
    <3> QED  BY <2>3, <3>1 DEF RecoveryInv, OldWorkIsOver
  <2>6. BatchIsOld'
    BY <1>3, <2>2, <2>3 DEF RecoveryInv, BatchIsOld
  <2>7. PreparedIsClear'
    <3> SUFFICES ASSUME NEW c \in Commands, rec[c].st = "prepared", NEW g \in Generations
                 PROVE SettledTask(task'[RunOf[c]][g])
      BY <1>3 DEF PreparedIsClear
    <3>1. RunOf[c] # r /\ RunOf[c] \in Runs
      BY <1>1 DEF Recovering, Active, RecoveryAssumption
    <3> QED  BY <2>3, <3>1 DEF RecoveryInv, PreparedIsClear
  <2>8. (PreparedIsFrozen /\ NeverForked /\ OneActive /\ Counted)'
    BY <1>3, <2>2 DEF RecoveryInv, PreparedIsFrozen, Reopenable, NeverForked, Recovering, OneActive, Counted, Decided
  <2> QED  BY <2>4, <2>5, <2>6, <2>7, <2>8 DEF RecoveryInv
<1>5. CASE Finish(r) \/ Continue(r)
  <2>1. /\ run' \in [Runs -> [st : {"running", "failed", "cancelled", "succeeded"}, gen : Generations, linked : BOOLEAN]]
        /\ \A q \in Runs : run'[q].gen = run[q].gen
        /\ \A q \in Runs \ {r} : run'[q] = run[q]
        /\ run'[r].linked => run'[r].st # "running"
        /\ task' = task
    <3> DEFINE R == [st : {"running", "failed", "cancelled", "succeeded"}, gen : Generations, linked : BOOLEAN]
    <3>1. task' = task /\ run \in [Runs -> R] /\ run[r] \in R
      BY <1>5 DEF Finish, Continue, RecoveryInv, TypeOK
    <3>2. PICK x \in R : run' = [run EXCEPT ![r] = x] /\ x.gen = run[r].gen /\ (x.linked => x.st # "running")
      <4>1. CASE Finish(r)
        <5>1. PICK st \in {"failed", "cancelled", "succeeded"} : run' = [run EXCEPT ![r].st = st]
          BY <4>1 DEF Finish
        <5> DEFINE x == [run[r] EXCEPT !.st = st]
        <5>2. x \in R /\ x.gen = run[r].gen /\ x.st # "running"
          BY <3>1
        <5> QED  BY <5>1, <5>2
      <4>2. CASE Continue(r)
        <5> DEFINE x == [run[r] EXCEPT !.linked = TRUE]
        <5>1. x \in R /\ x.gen = run[r].gen /\ x.st # "running" /\ run' = [run EXCEPT ![r] = x]
          BY <3>1, <4>2 DEF Continue, MayContinue
        <5> QED  BY <5>1
      <4> QED  BY <1>5, <4>1, <4>2
    <3> QED  BY <3>1, <3>2
  <2>2. TypeOK'
    BY <1>3, <2>1 DEF RecoveryInv, TypeOK
  <2>3. (OldWorkIsOver /\ BatchIsOld /\ PreparedIsClear /\ OneActive)'
    BY <1>3, <2>1 DEF RecoveryInv, OldWorkIsOver, BatchIsOld, PreparedIsClear, OneActive, SettledTask
  <2>4. Counted'
    BY <1>3, <2>1 DEF RecoveryInv, Counted, Decided
  <2>5. PreparedIsFrozen'
    <3> SUFFICES ASSUME NEW c \in Commands, rec[c].st = "prepared"
                 PROVE run'[RunOf[c]] = run[RunOf[c]]
      BY <1>3 DEF RecoveryInv, PreparedIsFrozen, Reopenable
    <3> QED  BY <1>1, <2>1 DEF Recovering, Active, RecoveryAssumption
  <2>6. NeverForked'
    <3> SUFFICES ASSUME NEW q \in Runs, run'[q].linked PROVE run'[q].st # "running" /\ ~Recovering(q)
      BY <1>3 DEF NeverForked, Recovering
    <3> QED  BY <1>1, <2>1 DEF RecoveryInv, NeverForked
  <2> QED  BY <2>2, <2>3, <2>4, <2>5, <2>6 DEF RecoveryInv
<1> QED  BY <1>4, <1>5

\* A flush reads, ends or dies; the host reads; a notification moves.
LEMMA ReadStep == ASSUME RecoveryAssumption, RecoveryInv,
    \/ FlushBlocked \/ FlushPending \/ FlushDies \/ FlushEnds \/ ResumeReads
    \/ \E r \in Runs : ClaimNotification(r) \/ SettleNotification(r)
    \/ UNCHANGED vars
  PROVE RecoveryInv'
<1>1. UNCHANGED <<run, task, rec, order>>
  BY DEF FlushBlocked, FlushPending, FlushDies, FlushEnds, ResumeReads, ClaimNotification, SettleNotification, vars
<1>2. /\ flush' \in Flushes
      /\ \A r \in Runs, g \in Generations :
           <<r, g>> \in flush'.batch => <<r, g>> \in flush.batch \/ task[r][g].intent = "pending"
  <2>1. flush \in Flushes
    BY DEF RecoveryInv, TypeOK, Flushes
  <2>2. CASE FlushBlocked
    BY <2>1, <2>2 DEF FlushBlocked, Flushes
  <2>3. CASE FlushPending
    <3>1. /\ flush'.stage = "batch" /\ flush'.blocked = {}
          /\ flush'.batch = {m \in (Runs \ flush.blocked) \X Generations : task[m[1]][m[2]].intent = "pending"}
          /\ flush' = [stage |-> flush'.stage, blocked |-> flush'.blocked, batch |-> flush'.batch]
      BY <2>3 DEF FlushPending
    <3>2. flush'.batch \subseteq Runs \X Generations
      BY <3>1
    <3>3. flush' \in Flushes
      BY <3>1, <3>2 DEF Flushes
    <3> QED  BY <3>1, <3>3
  <2>4. CASE FlushDies \/ FlushEnds
    BY <2>4 DEF FlushDies, FlushEnds, Flushes, IdleFlush
  <2>5. CASE flush' = flush
    BY <2>1, <2>5
  <2> QED  BY <2>2, <2>3, <2>4, <2>5 DEF ResumeReads, ClaimNotification, SettleNotification, vars
<1>4. turn' \subseteq Commands
  <2>1. CASE ResumeReads
    <3>1. turn' = {order[i] : i \in Oldest} /\ Oldest \subseteq 1 .. Len(order) /\ order \in Seq(Commands)
      BY <2>1 DEF ResumeReads, Oldest, Open, RecoveryInv, TypeOK
    <3>2. \A i \in 1 .. Len(order) : order[i] \in Commands
      BY <3>1
    <3>3. \A i \in Oldest : order[i] \in Commands
      BY <3>1, <3>2
    <3>4. \A x \in turn' : \E i \in Oldest : x = order[i]
      BY <3>1
    <3> QED  BY <3>3, <3>4
  <2>2. CASE turn' = turn
    BY <2>2 DEF RecoveryInv, TypeOK
  <2> QED  BY <2>1, <2>2 DEF FlushBlocked, FlushPending, FlushDies, FlushEnds, ClaimNotification, SettleNotification, vars
<1>5. note' \in [Runs -> [flying : BOOLEAN, claims : 0 .. MaxClaims]]
  <2>1. ASSUME NEW r \in Runs, ClaimNotification(r) PROVE note' \in [Runs -> [flying : BOOLEAN, claims : 0 .. MaxClaims]]
    BY <2>1 DEF ClaimNotification, MayClaim, RecoveryAssumption, RecoveryInv, TypeOK
  <2>2. ASSUME NEW r \in Runs, SettleNotification(r) PROVE note' \in [Runs -> [flying : BOOLEAN, claims : 0 .. MaxClaims]]
    BY <2>2 DEF SettleNotification, RecoveryInv, TypeOK
  <2> QED  BY <2>1, <2>2 DEF FlushBlocked, FlushPending, FlushDies, FlushEnds, ResumeReads, vars, RecoveryInv, TypeOK
<1>6. TypeOK'
  BY <1>1, <1>2, <1>4, <1>5 DEF RecoveryInv, TypeOK, Flushes
<1>7. BatchIsOld'
  BY <1>1, <1>2 DEF RecoveryInv, BatchIsOld
<1>8. (OldWorkIsOver /\ PreparedIsFrozen /\ NeverForked /\ PreparedIsClear /\ OneActive /\ Counted)'
  BY <1>1 DEF RecoveryInv, OldWorkIsOver, PreparedIsFrozen, Reopenable, NeverForked, Recovering, PreparedIsClear,
              OneActive, Counted, Decided, SettledTask
<1> QED  BY <1>6, <1>7, <1>8 DEF RecoveryInv

\* A record that is decided or ended, or only gets another lease.
LEMMA RecStep == ASSUME RecoveryAssumption, RecoveryInv, NEW c \in Commands, NEW x \in Recs,
    rec' = [rec EXCEPT ![c] = x], UNCHANGED <<run, task, note, order, flush>>, turn' \subseteq turn,
    x.st \in Active => rec[c].st \in Active,
    x.st = "prepared" => rec[c].st = "prepared" /\ x.moved = rec[c].moved /\ x.target = rec[c].target,
    x.st \in {"committed", "activated"} <=> rec[c].st \in {"committed", "activated"}
  PROVE RecoveryInv'
<1>1. rec'[c] = x /\ \A d \in Commands \ {c} : rec'[d] = rec[d]
  BY DEF RecoveryInv, TypeOK
<1>2. TypeOK'
  BY DEF RecoveryInv, TypeOK, Recs
<1>3. (OldWorkIsOver /\ BatchIsOld)'
  BY DEF RecoveryInv, OldWorkIsOver, BatchIsOld, SettledTask
<1>4. PreparedIsFrozen'
  BY <1>1 DEF RecoveryInv, PreparedIsFrozen, Reopenable
<1>5. PreparedIsClear'
  BY <1>1 DEF RecoveryInv, PreparedIsClear, SettledTask
<1>6. NeverForked'
  BY <1>1 DEF RecoveryInv, NeverForked, Recovering
<1>7. OneActive'
  BY <1>1 DEF RecoveryInv, OneActive
<1>8. \A r \in Runs : Decided(r)' = Decided(r)
  BY <1>1 DEF Decided
<1>9. Counted'
  BY <1>8 DEF RecoveryInv, Counted
<1> QED  BY <1>2, <1>3, <1>4, <1>5, <1>6, <1>7, <1>9 DEF RecoveryInv

LEMMA PrepareInv == ASSUME RecoveryAssumption, RecoveryInv,
    NEW c \in Commands, NEW o \in Owners, Prepare(c, o)
  PROVE RecoveryInv'
<1> DEFINE r == RunOf[c]
<1> DEFINE x == [st |-> "prepared", owner |-> o, lease |-> TRUE, target |-> run[r].gen + 1, moved |-> FALSE]
<1>1. /\ r \in Runs /\ rec[c].st = "none" /\ rec' = [rec EXCEPT ![c] = x] /\ order' = Append(order, c)
      /\ Reopenable(r) /\ ~run[r].linked /\ Clear(r) /\ ~Recovering(r)
      /\ UNCHANGED <<run, task, note, turn, flush>>
  BY DEF Prepare, MayPrepare, RecoveryAssumption
<1>2. run[r].gen + 1 \in Generations
  <2>1. c \in Commands \ Decided(r)
    BY <1>1 DEF Decided
  <2> QED  BY <1>1, <2>1, RoomForAnother DEF RecoveryInv, Counted
<1>3. x \in Recs
  BY <1>2 DEF Recs, Active
<1>4. rec'[c] = x /\ \A d \in Commands \ {c} : rec'[d] = rec[d]
  BY <1>1 DEF RecoveryInv, TypeOK
<1>5. TypeOK'
  <2>1. rec' \in [Commands -> Recs] /\ order' \in Seq(Commands)
    BY <1>1, <1>3 DEF RecoveryInv, TypeOK, Recs
  <2> QED  BY <1>1, <2>1 DEF RecoveryInv, TypeOK, Recs
<1>6. (OldWorkIsOver /\ BatchIsOld)'
  BY <1>1 DEF RecoveryInv, OldWorkIsOver, BatchIsOld, SettledTask
<1>7. PreparedIsFrozen'
  BY <1>1, <1>4 DEF RecoveryInv, PreparedIsFrozen, Reopenable
<1>8. PreparedIsClear'
  BY <1>1, <1>4 DEF RecoveryInv, PreparedIsClear, SettledTask, Clear
<1>9. NeverForked'
  BY <1>1, <1>4 DEF RecoveryInv, NeverForked, Recovering
<1>10. OneActive'
  BY <1>1, <1>4 DEF RecoveryInv, OneActive, Recovering
<1>11. \A q \in Runs : Decided(q)' = Decided(q)
  BY <1>1, <1>4 DEF Decided
<1>12. Counted'
  BY <1>1, <1>11 DEF RecoveryInv, Counted
<1> QED  BY <1>5, <1>6, <1>7, <1>8, <1>9, <1>10, <1>12 DEF RecoveryInv

\* The commit looks at the facts again: the work of the generation that it
\* closes is over then, and what is settled stays settled.
LEMMA CommitInv == ASSUME RecoveryAssumption, RecoveryInv,
    NEW c \in Commands, NEW o \in Owners, Commit(c, o), turn' \subseteq turn
  PROVE RecoveryInv'
<1> DEFINE r == RunOf[c]
<1> DEFINE h == rec[c].target
<1> DEFINE x == [TakeOver(c, o) EXCEPT !.st = "committed"]
<1> DEFINE u == [NoTask EXCEPT !.intent = "pending", !.view = "live"]
<1>1. TakeOver(c, o) \in Recs /\ TakeOver(c, o).st = rec[c].st
  BY DEF TakeOver, RecoveryInv, TypeOK, Recs
<1>2. /\ r \in Runs /\ rec[c].st = "prepared" /\ Clear(r)
      /\ run' = [run EXCEPT ![r] = [@ EXCEPT !.st = "running", !.gen = h]]
      /\ task' = [task EXCEPT ![r][h] = u]
      /\ rec' = [Moved(r) EXCEPT ![c] = x]
      /\ UNCHANGED <<note, order, flush>>
  BY <1>1 DEF Commit, CanCommit, MayCommit, RecoveryAssumption
<1>3. x \in Recs /\ x.st = "committed" /\ u \in Tasks /\ u.intent = "pending"
  BY <1>1 DEF Recs, Active, Tasks, NoTask
<1>4. h = run[r].gen + 1 /\ h \in Generations /\ run[r].gen \in Nat /\ ~run[r].linked
  BY <1>2, GenerationsType DEF RecoveryInv, TypeOK, PreparedIsFrozen
<1>5. \A d \in Commands \ {c} : RunOf[d] = r => rec[d].st \notin Active
  BY <1>2 DEF RecoveryInv, OneActive, Active
<1>6. rec'[c] = x /\ rec' \in [Commands -> Recs] /\ \A d \in Commands \ {c} : rec'[d] = rec[d]
  <2>1. \A d \in Commands \ {c} : Moved(r)[d] = rec[d]
    BY <1>5 DEF Moved, Active
  <2>2. rec' = [d \in Commands |-> IF d = c THEN x ELSE rec[d]]
    BY <1>2, <2>1 DEF Moved
  <2>3. rec \in [Commands -> Recs]
    BY DEF RecoveryInv, TypeOK, Recs
  <2> QED  BY <1>3, <2>2, <2>3
<1>7. /\ run'[r].gen = h /\ run'[r].st = "running" /\ ~run'[r].linked
      /\ \A q \in Runs \ {r} : run'[q] = run[q]
  BY <1>2, <1>4 DEF RecoveryInv, TypeOK
<1>8. /\ task'[r][h] = u
      /\ \A q \in Runs, g \in Generations : <<q, g>> # <<r, h>> => task'[q][g] = task[q][g]
  BY <1>2, <1>4 DEF RecoveryInv, TypeOK
<1>9. TypeOK'
  <2>1. run' \in [Runs -> [st : {"running", "failed", "cancelled", "succeeded"}, gen : Generations, linked : BOOLEAN]]
    <3> DEFINE R == [st : {"running", "failed", "cancelled", "succeeded"}, gen : Generations, linked : BOOLEAN]
    <3>1. run \in [Runs -> R] /\ run[r] \in R
      BY <1>2 DEF RecoveryInv, TypeOK
    <3>2. ASSUME NEW x1 \in R, NEW g \in Generations PROVE [x1 EXCEPT !.st = "running", !.gen = g] \in R
      OBVIOUS
    <3> QED  BY <1>2, <1>4, <3>1, <3>2
  <2>2. task' \in [Runs -> [Generations -> Tasks]]
    BY <1>2, <1>3, <1>4 DEF RecoveryInv, TypeOK, Tasks
  <2> QED  BY <1>2, <1>6, <2>1, <2>2 DEF RecoveryInv, TypeOK, Tasks, Recs
<1>10. OldWorkIsOver'
  <2> SUFFICES ASSUME NEW q \in Runs, NEW g \in Generations, g < run'[q].gen
               PROVE SettledTask(task'[q][g])
    BY DEF OldWorkIsOver, SettledTask
  <2>1. CASE q = r
    <3>1. g # h
      BY <1>4, <1>7, <2>1, GenerationsType
    <3>2. SettledTask(task[r][g])
      BY <1>2 DEF Clear
    <3> QED  BY <1>8, <2>1, <3>1, <3>2
  <2>2. CASE q # r
    BY <1>7, <1>8, <2>2 DEF RecoveryInv, OldWorkIsOver
  <2> QED  BY <2>1, <2>2
<1>11. BatchIsOld'
  BY <1>2, <1>3, <1>8 DEF RecoveryInv, BatchIsOld
<1>12. PreparedIsFrozen'
  <2> SUFFICES ASSUME NEW d \in Commands, rec'[d].st = "prepared"
               PROVE d # c /\ RunOf[d] # r /\ RunOf[d] \in Runs
    BY <1>6, <1>7 DEF RecoveryInv, PreparedIsFrozen, Reopenable
  <2> QED  BY <1>3, <1>5, <1>6 DEF Active, RecoveryAssumption
<1>13. PreparedIsClear'
  <2> SUFFICES ASSUME NEW d \in Commands, rec'[d].st = "prepared", NEW g \in Generations
               PROVE SettledTask(task'[RunOf[d]][g])
    BY DEF PreparedIsClear
  <2>1. d # c /\ RunOf[d] # r /\ RunOf[d] \in Runs
    BY <1>3, <1>5, <1>6 DEF Active, RecoveryAssumption
  <2> QED  BY <1>6, <1>8, <2>1 DEF RecoveryInv, PreparedIsClear
<1>14. NeverForked'
  <2> SUFFICES ASSUME NEW q \in Runs, run'[q].linked PROVE run'[q].st # "running" /\ ~Recovering(q)'
    BY DEF NeverForked
  <2>1. q # r /\ run'[q] = run[q]
    BY <1>7
  <2> QED  BY <1>6, <2>1 DEF RecoveryInv, NeverForked, Recovering
<1>15. OneActive'
  BY <1>2, <1>6 DEF RecoveryInv, OneActive, Active
<1>16. Counted'
  <2> SUFFICES ASSUME NEW q \in Runs PROVE run'[q].gen = Cardinality(Decided(q)')
    BY DEF Counted
  <2>1. CASE q = r
    <3>1. Decided(r)' = Decided(r) \cup {c}
      BY <1>3, <1>6 DEF Decided
    <3>2. c \notin Decided(r)
      BY <1>2 DEF Decided
    <3>3. Cardinality(Decided(r)') = Cardinality(Decided(r)) + 1
      BY <1>2, <3>1, <3>2, RoomForAnother
    <3> QED  BY <1>2, <1>4, <1>7, <2>1, <3>3 DEF RecoveryInv, Counted
  <2>2. CASE q # r
    <3>1. Decided(q)' = Decided(q)
      BY <1>6, <2>2 DEF Decided
    <3> QED  BY <1>7, <2>2, <3>1 DEF RecoveryInv, Counted
  <2> QED  BY <2>1, <2>2
<1> QED  BY <1>9, <1>10, <1>11, <1>12, <1>13, <1>14, <1>15, <1>16 DEF RecoveryInv

LEMMA CommandStep == ASSUME RecoveryAssumption, RecoveryInv, NEW c \in Commands,
    \/ \E o \in Owners : Prepare(c, o) \/ Advance(c, o)
    \/ Activate(c) \/ Abort(c) \/ LeaseRunsOut(c) \/ Resume(c)
  PROVE RecoveryInv'
<1>1. rec[c] \in Recs /\ Host \in Owners
  BY DEF RecoveryInv, TypeOK, Recs, RecoveryAssumption
<1>2. ASSUME NEW o \in Owners, Advance(c, o) PROVE RecoveryInv'
  <2>1. CASE Commit(c, o)
    BY <1>2, <2>1, CommitInv DEF Advance
  <2>2. CASE Revisit(c, o)
    <3> DEFINE x == [rec[c] EXCEPT !.owner = o, !.lease = TRUE]
    <3>1. x \in Recs /\ rec' = [rec EXCEPT ![c] = x] /\ x.st = rec[c].st /\ x.st # "prepared"
      BY <1>1, <2>2 DEF Revisit, TakeOver, Recs
    <3>2. UNCHANGED <<run, task, note, order, flush, turn>>
      BY <1>2, <2>2 DEF Advance, Revisit
    <3> QED  BY <3>1, <3>2, RecStep
  <2> QED  BY <1>2, <2>1, <2>2 DEF Advance
<1>3. CASE Abort(c)
  <2> DEFINE x == [rec[c] EXCEPT !.st = "aborted"]
  <2>1. x \in Recs /\ rec' = [rec EXCEPT ![c] = x] /\ x.st = "aborted" /\ rec[c].st = "prepared"
    BY <1>1, <1>3 DEF Abort, Recs
  <2> QED  BY <1>3, <2>1, RecStep DEF Abort, Active
<1>4. CASE LeaseRunsOut(c)
  <2> DEFINE x == [rec[c] EXCEPT !.lease = FALSE]
  <2>1. x \in Recs /\ rec' = [rec EXCEPT ![c] = x] /\ x.st = rec[c].st /\ x.moved = rec[c].moved /\ x.target = rec[c].target
    BY <1>1, <1>4 DEF LeaseRunsOut, Recs
  <2> QED  BY <1>4, <2>1, RecStep DEF LeaseRunsOut
<1>5. ASSUME rec[c].st = "committed", rec' = [rec EXCEPT ![c].st = "activated"],
             UNCHANGED <<run, task, note, order, flush>>, turn' \subseteq turn
      PROVE RecoveryInv'
  <2> DEFINE x == [rec[c] EXCEPT !.st = "activated"]
  <2>1. x \in Recs /\ rec' = [rec EXCEPT ![c] = x] /\ x.st = "activated"
    BY <1>1, <1>5 DEF Recs
  <2> QED  BY <1>5, <2>1, RecStep DEF Active
<1>6. CASE Resume(c)
  <2>1. turn' \subseteq turn
    BY <1>6 DEF Resume
  <2>2. CASE CanCommit(c, Host)
    BY <1>1, <1>6, <2>1, <2>2, CommitInv DEF Resume
  <2>3. CASE ~CanCommit(c, Host) /\ rec[c].st = "committed"
    BY <1>5, <1>6, <2>1, <2>3 DEF Resume
  <2>4. CASE ~CanCommit(c, Host) /\ rec[c].st # "committed"
    <3>1. rec' = [rec EXCEPT ![c] = rec[c]] /\ UNCHANGED <<run, task, note, order, flush>>
      BY <1>6, <2>4 DEF Resume, RecoveryInv, TypeOK
    <3> QED  BY <1>1, <2>1, <3>1, RecStep
  <2> QED  BY <2>2, <2>3, <2>4
<1>7. CASE Activate(c)
  BY <1>5, <1>7 DEF Activate
<1> QED  BY <1>2, <1>3, <1>4, <1>6, <1>7, PrepareInv

-----------------------------------------------------------------------------
(* The theorems                                                            *)

LEMMA NextInv == ASSUME RecoveryAssumption, RecoveryInv, [Next]_vars PROVE RecoveryInv'
  BY RunStep, TaskActionInv, ReadStep, CommandStep DEF Next

LEMMA AtMostOne == ASSUME RecoveryAssumption, RecoveryInv, NEW r \in Runs
  PROVE Cardinality({c \in Commands : RunOf[c] = r /\ rec[c].st \in Active}) <= 1
<1> DEFINE S == {c \in Commands : RunOf[c] = r /\ rec[c].st \in Active}
<1>1. CASE S = {}
  BY <1>1, FS_EmptySet
<1>2. CASE S # {}
  <2>1. PICK c \in S : TRUE
    BY <1>2
  <2>2. S = {c}
    BY <2>1 DEF RecoveryInv, OneActive
  <2> QED  BY <2>2, FS_Singleton
<1> QED  BY <1>1, <1>2

LEMMA InvSafe == ASSUME RecoveryAssumption, RecoveryInv PROVE RecoverySafe
<1>1. OneDecisionEach
  BY AtMostOne DEF RecoveryInv, Counted, Decided, OneDecisionEach
<1> QED  BY <1>1 DEF RecoveryInv, RecoverySafe

\* RecoverySafe (recovery.py: reopen_run, advance_recovery, abort_recovery, and
\* resume_recoveries): whoever prepares, commits, aborts or takes over, and
\* whatever a flush or a result pump still holds, no work of an older
\* generation is left under a reopened Run, a prepared decision is about the
\* Run as it is, every generation is one decision, and history has no fork.
THEOREM RecoveriesAreSafe == ASSUME RecoveryAssumption PROVE Spec => []RecoverySafe
<1>1. Init => RecoveryInv
  BY InitInv
<1>2. RecoveryInv /\ [Next]_vars => RecoveryInv'
  BY NextInv
<1>3. RecoveryInv => RecoverySafe
  BY InvSafe
<1> QED  BY <1>1, <1>2, <1>3, PTL DEF Spec
=============================================================================
