------------------------------- MODULE Workflow -------------------------------
(***************************************************************************)
(* One unmanaged Run of the orchestrator, and the flushers that carry its  *)
(* intents to the Kernel and its snapshots back.                           *)
(*                                                                         *)
(* The orchestrator's database and the Kernel's share no transaction.  An  *)
(* application decides on what it observed and sends a command, as often   *)
(* as it likes; the command commits intents in sdk_outbox with the decision. *)
(* Any number of flushers select pending intents, call the Kernel, read    *)
(* the execution back, project it and mark the intent delivered, one       *)
(* transaction or call at a time, and each may die between any two.        *)
(*                                                                         *)
(* The Kernel is KernelView; what ExecutionKernel does beyond the calls    *)
(* made here is KernelMoves.                                               *)
(*                                                                         *)
(* A command's operations are applied one after the other to a private     *)
(* copy (draft) while it holds the write lock of BEGIN IMMEDIATE: nobody   *)
(* writes this database meanwhile, but everybody may read it, and the      *)
(* Kernel goes on.                                                         *)
(*                                                                         *)
(* Scope: one Run, so a sequence number of an event is one more than the   *)
(* Run's revision it was written with.  No recovery (generation 0), no     *)
(* managed control.  Execution (t, i) is the i-th attempt of task t; a     *)
(* command that reuses an execution id is refused and left out.            *)
(***************************************************************************)
EXTENDS Naturals, Sequences, SequencesExt, FiniteSets

CONSTANTS
    Tasks,          \* task ids
    Waits,          \* wait ids
    Decisions,      \* the lists of operations applications send
    Subscriptions,  \* consumers of the Run's events
    ReusesIds,      \* whether applications reuse the id of a command for another
    Flushers,       \* callers of flush and sync_execution
    Broken,         \* executions whose command the runtime refuses to submit
    Limit,          \* limit of flush
    MaxRetries,     \* reads of the Kernel in one _cancel_execution (8)
    MaxSent,        \* bound: commands applications send
    MaxUnderway,    \* bound: commands under way with no answer yet
    MaxAttempts,    \* bound: attempts of a task
    MaxFailures,    \* bound: where the count of failed deliveries saturates
    MaxTrouble,     \* bound: of these, failures for no reason in the model
    MaxRevision,    \* bound: Kernel revision beyond which executions only end
    None

\* What the application may ask for
Operations ==
    [kind : {"add_task", "set_dependencies"}, task : Tasks, deps : SUBSET Tasks]
    \cup [kind : {"new_attempt", "dispatch", "cancel"}, task : Tasks]
    \cup [kind : {"wait", "release_wait"}, wait : Waits]
    \cup [kind : {"finish"}]

ASSUME DecisionAssumption == Decisions \subseteq Seq(Operations)
ASSUME LimitAssumption == Limit \in Nat \ {0} /\ MaxRetries \in Nat \ {0}
ASSUME ReuseAssumption == ReusesIds \in BOOLEAN
ASSUME BoundAssumption ==
    /\ {MaxSent, MaxUnderway, MaxFailures, MaxTrouble, MaxRevision} \subseteq Nat
    /\ MaxAttempts \in Nat \ {0}
ASSUME NoneAssumption == None \notin Subscriptions

Executions == Tasks \X (1 .. MaxAttempts)
TaskOf(e)  == e[1]
NumberOf(e) == e[2]

VARIABLES
    run,       \* sdk_runs and sdk_run_items: state, revision, tasks, waits
    cursor,    \* sdk_subscriptions
    receipts,  \* sdk_commands
    outbox,    \* sdk_outbox, in order of sequence
    draft,     \* the command under way, with its private copy of the Run
    view,      \* the Kernel's executions
    flusher,   \* where each caller of flush or sync_execution is
    sent,      \* commands sent, each delivered any number of times
    refused    \* history: commands of which some sender was told a refusal

vars == <<run, cursor, receipts, outbox, draft, view, flusher, sent, refused>>

Kernel == INSTANCE KernelView

-----------------------------------------------------------------------------
(* Vocabulary.                                                             *)

Terminal == Kernel!Ended   \* contracts.TERMINAL, as KernelView names it

\* contracts.attempt
Planned == [state |-> "planned", dispatched |-> FALSE, revision |-> 0, needs |-> {}]

NoTask   == [deps |-> {}, attempts |-> <<>>]
NoDraft  == [command |-> None, at |-> 0, run |-> None, intents |-> <<>>]
IdleFlusher == [pc |-> "idle", batch |-> <<>>, message |-> 0, execution |-> None,
                seen |-> Kernel!Unknown, tries |-> 0]

Init ==
    /\ run = [state |-> "running", revision |-> 0, tasks |-> [t \in Tasks |-> NoTask],
              waits |-> [w \in Waits |-> "none"]]
    /\ cursor   = [s \in Subscriptions |-> 0]
    /\ receipts = {}
    /\ outbox   = <<>>
    /\ draft    = NoDraft
    /\ view     = [e \in Executions |-> Kernel!Unknown]
    /\ flusher  = [f \in Flushers |-> IdleFlusher]
    /\ sent     = {}
    /\ refused  = {}

Known(r, t)   == r.tasks[t].attempts # <<>>
Current(r, t) == Last(r.tasks[t].attempts)
Settled(r, t) == Current(r, t).state \in Terminal
Latest(r, t)  == <<t, Len(r.tasks[t].attempts)>>
AttemptOf(r, e) == r.tasks[TaskOf(e)].attempts[NumberOf(e)]

\* a registered execution: a row of sdk_executions
Registered(e) == NumberOf(e) \in DOMAIN run.tasks[TaskOf(e)].attempts

\* the last event's sequence number
HighWater == run.revision + 1

Unlocked == draft = NoDraft

-----------------------------------------------------------------------------
(* reduce_operation.                                                       *)

\* no dependency of t depends on t, directly or through others
Acyclic(r, t, deps) ==
    \E S \in SUBSET Tasks :
       /\ deps \subseteq S /\ t \notin S
       /\ \A u \in S : r.tasks[u].deps \subseteq S

ValidDependencies(r, t, deps) ==
    /\ \A u \in deps : Known(r, u)
    /\ Acyclic(r, t, deps)

MayRestart(r, t) == Settled(r, t) /\ Len(r.tasks[t].attempts) < MaxAttempts

MayDispatch(r, t) ==
    /\ Current(r, t).state = "planned"
    /\ \A u \in r.tasks[t].deps : Settled(r, u)

MayFinish(r) ==
    /\ \A t \in Tasks : Known(r, t) => Settled(r, t)
    /\ \A w \in Waits : r.waits[w] # "open"

\* The conditions under which reduce_operation raises nothing
Allowed(r, op) ==
    /\ r.state = "running"
    /\ \/ /\ op.kind = "add_task" /\ ~Known(r, op.task)
          /\ ValidDependencies(r, op.task, op.deps)
       \/ /\ op.kind = "set_dependencies" /\ Known(r, op.task)
          /\ Len(r.tasks[op.task].attempts) = 1 /\ Current(r, op.task).state = "planned"
          /\ ValidDependencies(r, op.task, op.deps)
       \/ op.kind = "new_attempt" /\ Known(r, op.task) /\ MayRestart(r, op.task)
       \/ op.kind = "dispatch" /\ Known(r, op.task) /\ MayDispatch(r, op.task)
       \/ op.kind = "cancel" /\ Known(r, op.task)
       \/ op.kind = "wait" /\ r.waits[op.wait] = "none"
       \/ op.kind = "release_wait" /\ r.waits[op.wait] = "open"
       \/ op.kind = "finish" /\ MayFinish(r)

\* an intent that is not delivered yet is taken back
CancelledAtOnce_Mutant(attempt) == attempt.state \in {"planned", "pending_dispatch"}

\* An attempt nobody has been asked to start is cancelled without the Kernel.
CancelledAtOnce(attempt) == attempt.state = "planned"

SetAttempt(r, e, attempt) == [r EXCEPT !.tasks[TaskOf(e)].attempts[NumberOf(e)] = attempt]

\* What it makes of the private copy
Reduced(r, op) ==
    CASE op.kind = "add_task" ->
           [r EXCEPT !.tasks[op.task] = [deps |-> op.deps, attempts |-> <<Planned>>]]
      [] op.kind = "set_dependencies" -> [r EXCEPT !.tasks[op.task].deps = op.deps]
      [] op.kind = "new_attempt" -> [r EXCEPT !.tasks[op.task].attempts = Append(@, Planned)]
      [] op.kind = "dispatch" ->
           SetAttempt(r, Latest(r, op.task),
              [Current(r, op.task) EXCEPT
                 !.state = "pending_dispatch", !.dispatched = TRUE,
                 !.needs = {Latest(r, u) : u \in r.tasks[op.task].deps}])
      [] op.kind = "cancel" /\ CancelledAtOnce(Current(r, op.task)) ->
           SetAttempt(r, Latest(r, op.task), [Current(r, op.task) EXCEPT !.state = "cancelled"])
      [] op.kind = "wait"         -> [r EXCEPT !.waits[op.wait] = "open"]
      [] op.kind = "release_wait" -> [r EXCEPT !.waits[op.wait] = "released"]
      [] op.kind = "finish"       -> [r EXCEPT !.state = "finished"]
      [] OTHER -> r

Intent(kind, e) == [kind |-> kind, execution |-> e, delivered |-> FALSE, attempts |-> 0]

\* The delivery intents it returns
IntentsOf(r, op) ==
    IF \/ op.kind = "dispatch"
       \/ op.kind = "cancel" /\ ~Settled(r, op.task) /\ ~CancelledAtOnce(Current(r, op.task))
    THEN <<Intent(op.kind, Latest(r, op.task))>>
    ELSE <<>>

-----------------------------------------------------------------------------
(* Commands.                                                               *)

\* The next new id, or one that was used: which id is new does not matter.
CommandIds ==
    LET used == {c.id : c \in sent}
    IN  {1 + Cardinality(used)} \cup (IF ReusesIds THEN used ELSE {})

\* An application observes the Run and sends what it decided.  It may consume
\* some of the events it observed for a subscription.
Send(kind, ops, s, advance) ==
    /\ Cardinality(sent) < MaxSent
    /\ Cardinality(sent \ (receipts \cup refused)) < MaxUnderway
    /\ \E id \in CommandIds :
          sent' = sent \cup {[id |-> id, kind |-> kind, revision |-> run.revision, ops |-> ops,
                              subscription |-> s, cursor |-> IF s = None THEN 0 ELSE cursor[s],
                              advance |-> advance]}
    /\ UNCHANGED <<run, cursor, receipts, outbox, draft, view, flusher, refused>>

Decide(ops) ==
    \/ Send("apply", ops, None, 0)
    \/ \E s \in Subscriptions, advance \in 0 .. HighWater :
          advance >= cursor[s] /\ Send("apply", ops, s, advance)

DecideNothing(s) ==
    \E advance \in 0 .. HighWater :
       advance >= cursor[s] /\ Send("acknowledge", <<>>, s, advance)

\* a command is accepted whatever its subscription has consumed meanwhile
Admissible_Mutant(c) == c.revision = run.revision

\* The checks of _apply_operations and acknowledge_events
Admissible(c) ==
    /\ c.revision = run.revision
    /\ c.subscription # None => /\ cursor[c.subscription] = c.cursor
                                /\ c.cursor <= c.advance /\ c.advance <= HighWater

SameId(c) == {r \in receipts : r.id = c.id}

\* CommandConflict and RevisionConflict.  A replay of an accepted command gets
\* its receipt and changes nothing.
Refuse(c) ==
    /\ Unlocked
    /\ c \notin receipts
    /\ SameId(c) # {} \/ ~Admissible(c)
    /\ refused' = refused \cup {c}
    /\ UNCHANGED <<run, cursor, receipts, outbox, draft, view, flusher, sent>>

Consumed(c) == IF c.subscription = None THEN cursor ELSE [cursor EXCEPT ![c.subscription] = c.advance]

\* acknowledge_events: no revision and no event
Acknowledge(c) ==
    /\ Unlocked
    /\ c.kind = "acknowledge"
    /\ SameId(c) = {} /\ Admissible(c)
    /\ cursor' = Consumed(c)
    /\ receipts' = receipts \cup {c}
    /\ UNCHANGED <<run, outbox, draft, view, flusher, sent, refused>>

\* _apply_operations up to its loop ...
Begin(c) ==
    /\ Unlocked
    /\ c.kind = "apply"
    /\ SameId(c) = {} /\ Admissible(c)
    /\ draft' = [command |-> c, at |-> 1, run |-> run, intents |-> <<>>]
    /\ UNCHANGED <<run, cursor, receipts, outbox, view, flusher, sent, refused>>

Op == draft.command.ops[draft.at]

\* ... one operation ...
Reduce ==
    /\ ~Unlocked
    /\ draft.at <= Len(draft.command.ops)
    /\ Allowed(draft.run, Op)
    /\ draft' = [draft EXCEPT !.at = @ + 1, !.run = Reduced(@, Op),
                              !.intents = @ \o IntentsOf(draft.run, Op)]
    /\ UNCHANGED <<run, cursor, receipts, outbox, view, flusher, sent, refused>>

\* ... which may be impossible: nothing of the command remains ...
Rollback ==
    /\ ~Unlocked
    /\ draft.at <= Len(draft.command.ops)
    /\ ~Allowed(draft.run, Op)
    /\ refused' = refused \cup {draft.command}
    /\ draft' = NoDraft
    /\ UNCHANGED <<run, cursor, receipts, outbox, view, flusher, sent>>

\* ... and the end of _apply_operations.
Commit ==
    /\ ~Unlocked
    /\ draft.at > Len(draft.command.ops)
    /\ run' = [draft.run EXCEPT !.revision = @ + 1]
    /\ cursor' = Consumed(draft.command)
    /\ outbox' = outbox \o draft.intents
    /\ receipts' = receipts \cup {draft.command}
    /\ draft' = NoDraft
    /\ UNCHANGED <<view, flusher, sent, refused>>

\* The process or the disk fails before the commit; the sender learns nothing.
Abort ==
    /\ ~Unlocked
    /\ draft' = NoDraft
    /\ UNCHANGED <<run, cursor, receipts, outbox, view, flusher, sent, refused>>

-----------------------------------------------------------------------------
(* flush.                                                                  *)

Pending == {m \in DOMAIN outbox : ~outbox[m].delivered}

\* A pending cancel supersedes an undelivered dispatch of the same execution.
Selectable ==
    {m \in Pending :
       outbox[m].kind = "cancel"
       \/ ~\E n \in Pending : outbox[n].kind = "cancel" /\ outbox[n].execution = outbox[m].execution}

Before_Mutant(m, n) == m < n

\* ORDER BY attempts, sequence
Before(m, n) == \/ outbox[m].attempts < outbox[n].attempts
                \/ outbox[m].attempts = outbox[n].attempts /\ m < n

\* The snapshot with which flush begins: the first pending messages in order
Select(f) ==
    /\ flusher[f].pc = "idle" /\ flusher[f].batch = <<>>
    /\ Selectable # {}
    /\ LET size == IF Cardinality(Selectable) < Limit THEN Cardinality(Selectable) ELSE Limit
       IN  \E batch \in [1 .. size -> Selectable] :
              /\ \A i, j \in 1 .. size : i < j => Before(batch[i], batch[j])
              /\ \A i \in 1 .. size, n \in Selectable \ Range(batch) : Before(batch[i], n)
              /\ flusher' = [flusher EXCEPT ![f].batch = batch]
    /\ UNCHANGED <<run, cursor, receipts, outbox, draft, view, sent, refused>>

\* where a delivery goes on after it read a snapshot
AfterRead(kind, snapshot) ==
    CASE kind = "dispatch" /\ snapshot.phase = "absent" -> "submit"
      [] kind = "cancel" /\ snapshot.phase = "absent"   -> "precancel"
      [] kind = "cancel" /\ snapshot.phase # "absent" /\ snapshot.phase # "done" -> "cancel"
      [] OTHER -> "read"

\* The delivery goes on at pc, with the snapshot it needs there.
Go(f, pc, seen) == flusher' = [flusher EXCEPT ![f].pc = pc, ![f].seen = seen]

\* It goes on with what it read: only a cancellation needs the revision.
GoAfter(f, kind, snapshot) ==
    LET pc == AfterRead(kind, snapshot)
    IN  Go(f, pc, IF pc = "cancel" THEN snapshot ELSE Kernel!Unknown)

\* The first call to the Kernel for the next message of the batch: get
Look(f) ==
    /\ flusher[f].pc = "idle" /\ flusher[f].batch # <<>>
    /\ LET m  == Head(flusher[f].batch)
           e  == outbox[m].execution
           pc == AfterRead(outbox[m].kind, view[e])
       IN  flusher' = [flusher EXCEPT ![f] =
              [pc |-> pc, batch |-> Tail(@.batch), message |-> m, execution |-> e,
               seen |-> IF pc = "cancel" THEN view[e] ELSE Kernel!Unknown,
               tries |-> IF outbox[m].kind = "cancel" THEN 1 ELSE 0]]
    /\ UNCHANGED <<run, cursor, receipts, outbox, draft, view, sent, refused>>

\* the next round of _cancel_execution, after a CAS conflict
LookAgain(f) ==
    /\ flusher[f].pc = "again"
    /\ GoAfter(f, "cancel", view[flusher[f].execution])
    /\ UNCHANGED <<run, cursor, receipts, outbox, draft, view, sent, refused>>

Queued    == [phase |-> "queued", revision |-> 1, target |-> "none"]
Tombstone == [phase |-> "cancelled", revision |-> 1, target |-> "none"]

\* submit: an execution that exists meanwhile, in whatever state, is returned
Submit(f) ==
    LET e == flusher[f].execution
    IN  /\ flusher[f].pc = "submit"
        /\ e \notin Broken
        /\ view' = [view EXCEPT ![e] = IF @ = Kernel!Unknown THEN Queued ELSE @]
        /\ Go(f, "read", Kernel!Unknown)
        /\ UNCHANGED <<run, cursor, receipts, outbox, draft, sent, refused>>

\* cancel_before_accept: leaves a tombstone, or returns what is there; a
\* tombstone is cancelled again by the call that follows.
CancelBeforeAccept(f) ==
    LET e == flusher[f].execution
    IN  /\ flusher[f].pc = "precancel"
        /\ view' = [view EXCEPT ![e] = IF @ = Kernel!Unknown THEN Tombstone ELSE @]
        /\ GoAfter(f, "cancel", view'[e])
        /\ UNCHANGED <<run, cursor, receipts, outbox, draft, sent, refused>>

\* the snapshots a cancellation of this one may leave
CancelledFrom(snapshot) ==
    CASE snapshot.phase \in {"queued", "active"} ->
           {[phase |-> "cancelled", revision |-> snapshot.revision + 1, target |-> "none"]}
           \cup (IF snapshot.phase = "active"
                 THEN {[phase |-> "parked", revision |-> snapshot.revision + 1, target |-> "cancelled"]}
                 ELSE {})
      [] snapshot.phase = "parked" /\ snapshot.target = "queued" ->
           {[snapshot EXCEPT !.target = "cancelled", !.revision = @ + 1]}
      [] OTHER -> {snapshot}

MayRetry(f) == flusher[f].tries < MaxRetries

\* cancel with the revision that was read.  A parked execution raises
\* EffectRecoveryRequiredError, which counts as accepted.
CancelExecution(f) ==
    LET e == flusher[f].execution
    IN  /\ flusher[f].pc = "cancel"
        /\ view[e].phase # "done"
        /\ \/ /\ view[e].revision = flusher[f].seen.revision \/ view[e].phase = "cancelled"
              /\ \E snapshot \in CancelledFrom(view[e]) : view' = [view EXCEPT ![e] = snapshot]
              /\ Go(f, "read", Kernel!Unknown)
           \/ /\ view[e].revision # flusher[f].seen.revision /\ view[e].phase # "cancelled"
              /\ MayRetry(f)
              /\ flusher' = [flusher EXCEPT ![f].pc = "again", ![f].seen = Kernel!Unknown, ![f].tries = @ + 1]
              /\ UNCHANGED view
        /\ UNCHANGED <<run, cursor, receipts, outbox, draft, sent, refused>>

\* _delivery_failed: an event and a new revision, unless another flusher
\* delivered the message meanwhile.
DeliveryFailed(f) ==
    LET m == flusher[f].message
        counts == ~outbox[m].delivered /\ outbox[m].attempts < MaxFailures
    IN  /\ Unlocked
        /\ outbox' = IF counts THEN [outbox EXCEPT ![m].attempts = @ + 1] ELSE outbox
        /\ run' = IF counts THEN [run EXCEPT !.revision = @ + 1] ELSE run
        /\ flusher' = [flusher EXCEPT ![f] = [IdleFlusher EXCEPT !.batch = flusher[f].batch]]
        /\ UNCHANGED <<cursor, receipts, draft, view, sent, refused>>

\* Failures the state calls for: a command that is refused, a cancellation that
\* met a final result, and the last of too many conflicts.
Fail(f) ==
    LET e == flusher[f].execution
    IN  /\ \/ flusher[f].pc = "submit" /\ e \in Broken
           \/ flusher[f].pc = "cancel" /\ view[e].phase = "done"
           \/ /\ flusher[f].pc = "cancel" /\ ~MayRetry(f)
              /\ view[e].revision # flusher[f].seen.revision /\ view[e].phase # "cancelled"
        /\ DeliveryFailed(f)

\* Any call may also time out or find its database busy, before or after it
\* changed the Kernel.
Trouble(f) ==
    /\ flusher[f].pc \in {"submit", "precancel", "cancel", "again", "read", "write"}
    /\ flusher[f].message # 0
    /\ outbox[flusher[f].message].attempts < MaxTrouble
    /\ DeliveryFailed(f)

-----------------------------------------------------------------------------
(* sync_execution.                                                         *)

\* kernel.get, at the end of a delivery ...
Read(f) ==
    /\ flusher[f].pc = "read"
    /\ Go(f, "write", view[flusher[f].execution])
    /\ UNCHANGED <<run, cursor, receipts, outbox, draft, view, sent, refused>>

\* ... or for sync and get_execution
Poll(f) ==
    /\ flusher[f] = IdleFlusher
    /\ \E e \in Executions :
          /\ Registered(e) /\ view[e] # Kernel!Unknown
          /\ flusher' = [flusher EXCEPT ![f] = [IdleFlusher EXCEPT !.pc = "write", !.execution = e,
                                                                   !.seen = view[e]]]
    /\ UNCHANGED <<run, cursor, receipts, outbox, draft, view, sent, refused>>

\* any snapshot that differs is written
Newer_Mutant(attempt, snapshot) ==
    attempt.dispatched /\ snapshot.revision # attempt.revision /\ attempt.state \notin Terminal

\* whether the projection of an execution is to be replaced
Newer(attempt, snapshot) ==
    /\ attempt.dispatched
    /\ snapshot.revision > attempt.revision
    /\ ~(attempt.revision > 0 /\ attempt.state \in Terminal)

\* The transaction of sync_execution.  It raises when a newer snapshot is not
\* to be written, so a delivery does not get past it.
Write(f) ==
    LET e       == flusher[f].execution
        seen    == flusher[f].seen
        attempt == AttemptOf(run, e)
        next    == IF flusher[f].message = 0 THEN IdleFlusher 
                   ELSE [flusher[f] EXCEPT !.pc = "mark", !.seen = Kernel!Unknown]
    IN  /\ Unlocked
        /\ flusher[f].pc = "write"
        /\ \/ /\ Newer(attempt, seen)
              /\ run' = [SetAttempt(run, e, [attempt EXCEPT !.state = seen.phase, !.revision = seen.revision])
                           EXCEPT !.revision = @ + 1]
           \/ /\ ~Newer(attempt, seen) /\ attempt.dispatched
              /\ seen.revision <= attempt.revision
              /\ UNCHANGED run
        /\ flusher' = [flusher EXCEPT ![f] = next]
        /\ UNCHANGED <<cursor, receipts, outbox, draft, view, sent, refused>>

\* The last transaction of a delivery
Mark(f) ==
    LET m == flusher[f].message
    IN  /\ Unlocked
        /\ flusher[f].pc = "mark"
        /\ outbox' = IF outbox[m].delivered THEN outbox
                     ELSE [outbox EXCEPT ![m].delivered = TRUE, ![m].attempts = @ + 1]
        /\ flusher' = [flusher EXCEPT ![f] = [IdleFlusher EXCEPT !.batch = flusher[f].batch]]
        /\ UNCHANGED <<run, cursor, receipts, draft, view, sent, refused>>

Crash(f) ==
    /\ flusher[f] # IdleFlusher
    /\ flusher' = [flusher EXCEPT ![f] = IdleFlusher]
    /\ UNCHANGED <<run, cursor, receipts, outbox, draft, view, sent, refused>>

-----------------------------------------------------------------------------
\* What runtimes and operators do to an execution, one revision at a time
KernelMoves(e) ==
    /\ view[e] # Kernel!Unknown
    /\ \E phase \in Kernel!Reachable(view[e]), target \in {"none", "queued", "cancelled"} :
          LET new == [phase |-> phase, revision |-> view[e].revision + 1, target |-> target]
          IN  /\ Kernel!Targeted(view[e], new)
              /\ phase \notin Terminal => new.revision <= MaxRevision
              /\ view' = [view EXCEPT ![e] = new]
    /\ UNCHANGED <<run, cursor, receipts, outbox, draft, flusher, sent, refused>>

FlusherStep(f) ==
    \/ Select(f) \/ Look(f) \/ LookAgain(f) \/ Submit(f) \/ CancelBeforeAccept(f) \/ CancelExecution(f)
    \/ Fail(f) \/ Read(f) \/ Write(f) \/ Mark(f)

Next ==
    \/ \E ops \in Decisions : Decide(ops)
    \/ \E s \in Subscriptions : DecideNothing(s)
    \/ \E c \in sent : Refuse(c) \/ Acknowledge(c) \/ Begin(c)
    \/ Reduce \/ Rollback \/ Commit \/ Abort
    \/ \E f \in Flushers : FlusherStep(f) \/ Poll(f) \/ Trouble(f) \/ Crash(f)
    \/ \E e \in Executions : KernelMoves(e)

Spec == Init /\ [][Next]_vars

\* Fairness: flush keeps being called and each call gets on with what it began;
\* a wait for the write lock ends, as commands hold it for moments only.
\* Processes may die and be started again many times, but not for ever (a step
\* that ends a flush without having changed anything looks like a death).
\* Nothing is assumed of applications or runtimes.
Fairness ==
    /\ WF_vars(Reduce \/ Rollback \/ Commit)
    /\ \A f \in Flushers : /\ SF_vars(Select(f)) /\ SF_vars(FlusherStep(f))
                          /\ <>[][Crash(f) => FlusherStep(f)]_vars

FairSpec == Spec /\ Fairness

-----------------------------------------------------------------------------
(* Properties.                                                             *)

Attempts == [state : Kernel!Phases \cup {"planned", "pending_dispatch"}, dispatched : BOOLEAN,
             revision : Nat, needs : SUBSET Executions]
Runs == [state : {"running", "finished"}, revision : Nat,
         tasks : [Tasks -> [deps : SUBSET Tasks, attempts : Seq(Attempts)]],
         waits : [Waits -> {"none", "open", "released"}]]
Intents == [kind : {"dispatch", "cancel"}, execution : Executions, delivered : BOOLEAN, attempts : Nat]

\* The shape of every variable but of the commands, which the application makes
TypeOK ==
    /\ run \in Runs
    /\ cursor \in [Subscriptions -> Nat]
    /\ receipts \subseteq sent /\ refused \subseteq sent
    /\ outbox \in Seq(Intents)
    /\ draft # NoDraft => /\ draft.command \in sent /\ draft.run \in Runs
                          /\ draft.at \in Nat \ {0} /\ draft.intents \in Seq(Intents)
    /\ view \in [Executions -> Kernel!Snapshots]
    /\ \A f \in Flushers :
          /\ flusher[f].pc \in {"idle", "submit", "precancel", "cancel", "again", "read", "write", "mark"}
          /\ flusher[f].batch \in Seq(DOMAIN outbox)
          /\ flusher[f].message \in {0} \cup DOMAIN outbox
          /\ flusher[f].execution \in Executions \cup {None}
          /\ flusher[f].seen \in Kernel!Snapshots
          /\ flusher[f].tries \in 0 .. MaxRetries

RegisteredExecutions == {e \in Executions : Registered(e)}

IntentsFor(kind, e) == {m \in DOMAIN outbox : outbox[m].kind = kind /\ outbox[m].execution = e}

\* Nothing of e runs, and nothing will: it ended in the Kernel, or it is not
\* there and nothing is left that would submit it.
Quiet(e) == \/ view[e].phase \in Terminal
            \/ view[e] = Kernel!Unknown /\ IntentsFor("dispatch", e) = {}

\* What the Run calls settled is settled: the Kernel agrees, although a
\* projection may be older than what the Kernel says of an execution at work.
SettledIsQuiet ==
    \A e \in RegisteredExecutions : AttemptOf(run, e).state \in Terminal => Quiet(e)

\* Of the attempts of a task only the last can still do anything, however the
\* cancellation of the previous one raced with its dispatch.
OneLiveAttempt ==
    \A e \in RegisteredExecutions : NumberOf(e) < Len(run.tasks[TaskOf(e)].attempts) => Quiet(e)

\* A finished Run leaves nothing behind that runs or may still be started.
FinishedIsQuiet ==
    run.state = "finished" => \A e \in RegisteredExecutions : Quiet(e)

\* An execution reaches the Kernel only after those it depended on when it was
\* dispatched came to rest.
DependenciesFirst ==
    \A e \in RegisteredExecutions :
       view[e] # Kernel!Unknown => \A d \in AttemptOf(run, e).needs : Quiet(d)

\* A cancellation is marked delivered only when the Kernel will not run the
\* execution any more, whatever claims, renewals and results it raced with.
CancelHolds ==
    \A m \in DOMAIN outbox :
       outbox[m].kind = "cancel" /\ outbox[m].delivered =>
          LET snapshot == view[outbox[m].execution]
          IN  snapshot.phase \in Terminal \/ (snapshot.phase = "parked" /\ snapshot.target = "cancelled")

\* The tasks of a Run: what is settled asks for nothing more, one attempt of a task is
\* alive, dependencies come first and a delivered cancellation holds.
WorkInOrder ==
    /\ TypeOK
    /\ SettledIsQuiet
    /\ OneLiveAttempt
    /\ FinishedIsQuiet
    /\ DependenciesFirst
    /\ CancelHolds

\* A command commits its decision and its intents together, or nothing: each
\* dispatched attempt has one intent to carry it, and no other attempt has one.
IntentsMatch ==
    \A e \in Executions :
       Cardinality(IntentsFor("dispatch", e)) = IF Registered(e) /\ AttemptOf(run, e).dispatched THEN 1 ELSE 0

\* A sender who was told that its command was refused can decide again: the
\* command has not been applied, nor will it be when it is delivered once more.
RefusedIsFinal == refused \cap receipts = {}

\* Each event is consumed by one accepted command of a subscription, and none
\* is passed over.
ConsumedBy(c) == (c.cursor + 1) .. c.advance

EventsConsumedOnce ==
    \A s \in Subscriptions :
       LET accepted == {c \in receipts : c.subscription = s}
       IN  /\ \A c, d \in accepted : c # d => ConsumedBy(c) \cap ConsumedBy(d) = {}
           /\ UNION {ConsumedBy(c) : c \in accepted} = 1 .. cursor[s]

\* The commands of a Run: each is decided once, asks for what its decision says and
\* consumes an event once, however often it is sent.
CommandsHold ==
    /\ IntentsMatch
    /\ RefusedIsFinal
    /\ EventsConsumedOnce

\* A projection never goes back to an older snapshot, although readers write
\* what they read in any order.
NeverRegressesStep ==
    \A e \in RegisteredExecutions : AttemptOf(run', e).revision >= AttemptOf(run, e).revision

NeverRegresses == [][NeverRegressesStep]_vars

\* Every intent is delivered in the end, but for dispatches the runtime refuses:
\* those do not keep the others from their turn.
IntentsDelivered ==
    \A m \in 1 .. 2 * MaxSent :
       (m \in DOMAIN outbox /\ (outbox[m].kind = "dispatch" => outbox[m].execution \notin Broken))
          ~> (m \in DOMAIN outbox /\ outbox[m].delivered)
=============================================================================
