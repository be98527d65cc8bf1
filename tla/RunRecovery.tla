------------------------------ MODULE RunRecovery ------------------------------
(***************************************************************************)
(* Reopening a finished Run (orchestrator/recovery.py, runs.py) across the *)
(* workflow database and the Kernel's.  A reopen command is prepared,      *)
(* committed and activated in transactions of their own, by its caller, by *)
(* the host, or by whoever takes over a lapsed owner lease; the facts of   *)
(* the Kernel are read inside the workflow's transactions, while the Kernel*)
(* and the delivery of its results go on.                                  *)
(*                                                                         *)
(* A generation of a Run is one task here: an intent, an execution, its    *)
(* result on the way from the Kernel's outbox to the workflow's and to the *)
(* application, and a cleanup that may outlive the execution.  A caller's  *)
(* revision is the current one (a stale one is refused without effect).    *)
(***************************************************************************)
EXTENDS Integers, Sequences, FiniteSets

CONSTANTS
    Runs, Commands, Owners,
    Host,       \* the owner under which the host resumes recoveries
    RunOf,      \* the Run a reopen command is for
    Good,       \* commands whose operations and deployment pass at the commit
    Limit,      \* recoveries the host advances in one turn (_Transport.pump: 20)
    Notified,   \* Runs with a notification to deliver
    MaxClaims   \* max_attempts of a notification

RecoveryAssumption ==
    /\ IsFiniteSet(Commands) /\ RunOf \in [Commands -> Runs] /\ Good \subseteq Commands
    /\ Host \in Owners /\ Limit \in Nat \ {0} /\ Notified \subseteq Runs /\ MaxClaims \in Nat

Generations == 0 .. Cardinality(Commands)
Active == {"prepared", "committed"}
NoTask == [intent |-> "none", exec |-> "none", busy |-> FALSE, view |-> "planned",
           outbox |-> "none", result |-> "none"]

VARIABLES
    run,      \* sdk_runs, with the generation and the continuation link
    task,     \* per generation: intent, Kernel execution, view, outboxes
    note,     \* sdk_notifications and the inbox: in flight or not, claims so far
    rec,      \* sdk_recoveries; moved: the Run's revision is not the prepared one
    order,    \* recoveries as they were created
    turn,     \* recoveries the host has read in this turn
    flush     \* a flush: its stage, the blocked Runs and the messages it has read

vars == <<run, task, note, rec, order, turn, flush>>

TypeOK ==
    /\ run \in [Runs -> [st : {"running", "failed", "cancelled", "succeeded"},
                         gen : Generations, linked : BOOLEAN]]
    /\ task \in [Runs -> [Generations -> [
           intent : {"none", "pending", "delivered"}, exec : {"none", "live", "over"}, busy : BOOLEAN,
           view : {"planned", "live", "over"}, outbox : {"none", "pending", "delivering", "delivered"},
           result : {"none", "pending", "delivered"}]]]
    /\ note \in [Runs -> [flying : BOOLEAN, claims : 0 .. MaxClaims]]
    /\ rec \in [Commands -> [st : {"none", "aborted", "activated"} \cup Active, owner : Owners,
                             lease : BOOLEAN, target : Generations, moved : BOOLEAN]]
    /\ order \in Seq(Commands) /\ turn \subseteq Commands
    /\ flush \in [stage : {"idle", "blocked", "batch"}, blocked : SUBSET Runs,
                  batch : SUBSET (Runs \X Generations)]

IdleFlush == [stage |-> "idle", blocked |-> {}, batch |-> {}]

Init ==
    /\ run = [r \in Runs |-> [st |-> "running", gen |-> 0, linked |-> FALSE]]
    /\ task = [r \in Runs |-> [g \in Generations |-> NoTask]]
    /\ note = [r \in Runs |-> [flying |-> FALSE, claims |-> 0]]
    /\ rec = [c \in Commands |-> [st |-> "none", owner |-> Host, lease |-> FALSE,
                                  target |-> 0, moved |-> FALSE]]
    /\ order = <<>> /\ turn = {}
    /\ flush = IdleFlush

-----------------------------------------------------------------------------
(* The application, the Kernel and the deliveries                          *)

Recovering(r) == \E c \in Commands : RunOf[c] = r /\ rec[c].st \in Active

\* Every change of a Run has its revision moved on.
Moved(r) == [c \in Commands |->
    IF RunOf[c] = r /\ rec[c].st = "prepared" THEN [rec[c] EXCEPT !.moved = TRUE] ELSE rec[c]]

\* _apply_operations, with the current generation
MayApply(r) == run[r].st = "running" /\ ~Recovering(r)

AddAndDispatch(r) ==
    /\ MayApply(r) /\ task[r][run[r].gen].intent = "none"
    /\ task' = [task EXCEPT ![r][run[r].gen] = [@ EXCEPT !.intent = "pending", !.view = "live"]]
    /\ rec' = Moved(r)
    /\ UNCHANGED <<run, note, order, turn, flush>>

\* Finishing needs every task settled in the workflow's view.
Finish(r) ==
    /\ MayApply(r) /\ task[r][run[r].gen].view # "live"
    /\ \E st \in {"failed", "cancelled", "succeeded"} : run' = [run EXCEPT ![r].st = st]
    /\ rec' = Moved(r)
    /\ UNCHANGED <<task, note, order, turn, flush>>

\* continue_run; the next segment is a Run of its own
MayContinue_Mutant(r) == run[r].st # "running" /\ ~run[r].linked
MayContinue(r) == run[r].st # "running" /\ ~run[r].linked /\ ~Recovering(r)

Continue(r) ==
    /\ MayContinue(r)
    /\ run' = [run EXCEPT ![r].linked = TRUE]
    /\ rec' = Moved(r)
    /\ UNCHANGED <<task, note, order, turn, flush>>

\* flush reads the blocked Runs and the pending messages one after the other, ...
FlushBlocked ==
    /\ flush.stage = "idle"
    /\ flush' = [flush EXCEPT !.stage = "blocked", !.blocked = {r \in Runs : Recovering(r)}]
    /\ UNCHANGED <<run, task, note, rec, order, turn>>

FlushPending ==
    /\ flush.stage = "blocked"
    /\ flush' = [stage |-> "batch", blocked |-> {},
                 batch |-> {m \in (Runs \ flush.blocked) \X Generations : task[m[1]][m[2]].intent = "pending"}]
    /\ UNCHANGED <<run, task, note, rec, order, turn>>

\* ... then delivers: the Kernel takes an execution once, ...
FlushDeliver(r, g) ==
    /\ flush.stage = "batch" /\ <<r, g>> \in flush.batch /\ task[r][g].exec = "none"
    /\ task' = [task EXCEPT ![r][g].exec = "live"]
    /\ UNCHANGED <<run, note, rec, order, turn, flush>>

\* ... and the message is marked.  A flush that dies leaves it as it is.
FlushMark(r, g) ==
    /\ flush.stage = "batch" /\ <<r, g>> \in flush.batch /\ task[r][g].exec # "none"
    /\ flush' = [flush EXCEPT !.batch = @ \ {<<r, g>>}]
    /\ task' = [task EXCEPT ![r][g].intent = "delivered"]
    /\ UNCHANGED <<run, note, rec, order, turn>>

FlushDies ==
    /\ flush.stage # "idle"
    /\ flush' = IdleFlush
    /\ UNCHANGED <<run, task, note, rec, order, turn>>

\* _delivery_failed: only a message nobody else has delivered
FlushFails(r, g) ==
    /\ flush.stage = "batch" /\ <<r, g>> \in flush.batch
    /\ flush' = [flush EXCEPT !.batch = @ \ {<<r, g>>}]
    /\ rec' = IF task[r][g].intent = "pending" THEN Moved(r) ELSE rec
    /\ UNCHANGED <<run, task, note, order, turn>>

FlushEnds ==
    /\ flush.stage = "batch" /\ flush.batch = {}
    /\ flush' = IdleFlush
    /\ UNCHANGED <<run, task, note, rec, order, turn>>

\* The Kernel settles the execution; its process may take longer to go.
ExecutionEnds(r, g) ==
    /\ task[r][g].exec = "live"
    /\ \E b \in BOOLEAN :
           task' = [task EXCEPT ![r][g] = [@ EXCEPT !.exec = "over", !.outbox = "pending", !.busy = b]]
    /\ UNCHANGED <<run, note, rec, order, turn, flush>>

CleanedUp(r, g) ==
    /\ task[r][g].busy
    /\ task' = [task EXCEPT ![r][g].busy = FALSE]
    /\ UNCHANGED <<run, note, rec, order, turn, flush>>

\* sync_execution
Sync(r, g) ==
    /\ task[r][g].view = "live" /\ task[r][g].exec = "over"
    /\ task' = [task EXCEPT ![r][g].view = "over"]
    /\ rec' = Moved(r)
    /\ UNCHANGED <<run, note, order, turn, flush>>

\* pump_results: the Kernel's claim, the workflow's row, the acknowledgement
PumpClaim(r, g) ==
    /\ task[r][g].outbox = "pending"
    /\ task' = [task EXCEPT ![r][g].outbox = "delivering"]
    /\ UNCHANGED <<run, note, rec, order, turn, flush>>

PumpStore(r, g) ==
    /\ task[r][g].outbox = "delivering" /\ task[r][g].view = "over" /\ task[r][g].result = "none"
    /\ task' = [task EXCEPT ![r][g].result = "pending"]
    /\ UNCHANGED <<run, note, rec, order, turn, flush>>

PumpAck(r, g) ==
    /\ task[r][g].outbox = "delivering" /\ task[r][g].result # "none"
    /\ task' = [task EXCEPT ![r][g].outbox = "delivered"]
    /\ UNCHANGED <<run, note, rec, order, turn, flush>>

PumpLeaseEnds(r, g) ==
    /\ task[r][g].outbox = "delivering"
    /\ task' = [task EXCEPT ![r][g].outbox = "pending"]
    /\ UNCHANGED <<run, note, rec, order, turn, flush>>

\* The application claims and acknowledges the workflow's result.
AcknowledgeResult(r, g) ==
    /\ task[r][g].result = "pending"
    /\ task' = [task EXCEPT ![r][g].result = "delivered"]
    /\ UNCHANGED <<run, note, rec, order, turn, flush>>

\* claim_notifications, up to max_attempts
MayClaim(r) == r \in Notified /\ ~note[r].flying /\ note[r].claims < MaxClaims

ClaimNotification(r) ==
    /\ MayClaim(r)
    /\ note' = [note EXCEPT ![r] = [flying |-> TRUE, claims |-> @.claims + 1]]
    /\ UNCHANGED <<run, task, rec, order, turn, flush>>

SettleNotification(r) ==
    /\ note[r].flying
    /\ note' = [note EXCEPT ![r].flying = FALSE]
    /\ UNCHANGED <<run, task, rec, order, turn, flush>>

-----------------------------------------------------------------------------
(* Recovery                                                                *)

\* _reopen_facts, of every generation of the Run
SettledTask(t) ==
    /\ t.intent # "pending" /\ t.view # "live" /\ t.result # "pending"
    /\ t.exec # "live" /\ ~t.busy /\ t.outbox \notin {"pending", "delivering"}
Clear(r) == ~note[r].flying /\ \A g \in Generations : SettledTask(task[r][g])

Reopenable(r) == run[r].st \in {"failed", "cancelled"}

\* reopen_run up to after_recovery_prepare; a replay finds its record.
MayPrepare(c) ==
    /\ Reopenable(RunOf[c]) /\ ~run[RunOf[c]].linked /\ Clear(RunOf[c])
    /\ ~Recovering(RunOf[c])

Prepare(c, o) ==
    /\ rec[c].st = "none" /\ MayPrepare(c)
    /\ rec' = [rec EXCEPT ![c] = [st |-> "prepared", owner |-> o, lease |-> TRUE,
                                  target |-> run[RunOf[c]].gen + 1, moved |-> FALSE]]
    /\ order' = Append(order, c)
    /\ UNCHANGED <<run, task, note, turn, flush>>

\* A lapsed lease is taken over, but a commit that is refused takes the
\* takeover back with it: both are one transaction.
TakeOver_Mutant(c, o) == rec[c]
TakeOver(c, o) == IF rec[c].lease THEN rec[c] ELSE [rec[c] EXCEPT !.owner = o, !.lease = TRUE]

MayCommit(c) ==
    /\ c \in Good /\ Reopenable(RunOf[c])
    /\ ~rec[c].moved /\ Clear(RunOf[c])

CanCommit(c, o) ==
    LET row == TakeOver(c, o) IN
    row.st = "prepared" /\ row.owner = o /\ row.lease /\ MayCommit(c)

\* advance_recovery, its first transaction: the operations of the command
\* add and dispatch a task of the new generation.
Commit(c, o) ==
    LET r == RunOf[c] IN
    /\ CanCommit(c, o)
    /\ run' = [run EXCEPT ![r] = [@ EXCEPT !.st = "running", !.gen = rec[c].target]]
    /\ task' = [task EXCEPT ![r][rec[c].target] = [NoTask EXCEPT !.intent = "pending", !.view = "live"]]
    /\ rec' = [Moved(r) EXCEPT ![c] = [TakeOver(c, o) EXCEPT !.st = "committed"]]
    /\ UNCHANGED <<note, order, flush>>

\* ... for a committed recovery, whose lapsed lease is taken over too
Revisit(c, o) ==
    /\ rec[c].st = "committed" /\ ~rec[c].lease
    /\ rec' = [rec EXCEPT ![c] = TakeOver(c, o)]
    /\ UNCHANGED <<run, task, note, order, flush>>

\* _activate_recovery, by whoever saw the commit
Activate(c) ==
    /\ rec[c].st = "committed"
    /\ rec' = [rec EXCEPT ![c].st = "activated"]
    /\ UNCHANGED <<run, task, note, order, turn, flush>>

Advance(c, o) == UNCHANGED turn /\ (Commit(c, o) \/ Revisit(c, o))

Abort(c) ==
    /\ rec[c].st = "prepared" /\ rec[c].lease
    /\ rec' = [rec EXCEPT ![c].st = "aborted"]
    /\ UNCHANGED <<run, task, note, order, turn, flush>>

LeaseRunsOut(c) ==
    /\ rec[c].st \in Active /\ rec[c].lease
    /\ rec' = [rec EXCEPT ![c].lease = FALSE]
    /\ UNCHANGED <<run, task, note, order, turn, flush>>

\* resume_recoveries: the oldest, as many as the limit allows, one by one
Open == {i \in 1 .. Len(order) : rec[order[i]].st \in Active}
Oldest == {i \in Open : Cardinality({j \in Open : j < i}) < Limit}

ResumeReads ==
    /\ turn = {} /\ Open # {}
    /\ turn' = {order[i] : i \in Oldest}
    /\ UNCHANGED <<run, task, note, rec, order, flush>>

Resume(c) ==
    /\ c \in turn /\ turn' = turn \ {c}
    /\ IF CanCommit(c, Host) THEN Commit(c, Host)
       ELSE /\ rec' = IF rec[c].st = "committed" THEN [rec EXCEPT ![c].st = "activated"] ELSE rec
            /\ UNCHANGED <<run, task, note, order, flush>>

Task(r, g) ==
    \/ FlushDeliver(r, g) \/ FlushMark(r, g) \/ FlushFails(r, g)
    \/ ExecutionEnds(r, g) \/ CleanedUp(r, g) \/ Sync(r, g)
    \/ PumpClaim(r, g) \/ PumpStore(r, g) \/ PumpAck(r, g) \/ PumpLeaseEnds(r, g) \/ AcknowledgeResult(r, g)

Next ==
    \/ \E r \in Runs :
        \/ AddAndDispatch(r) \/ Finish(r) \/ Continue(r)
        \/ ClaimNotification(r) \/ SettleNotification(r)
        \/ \E g \in Generations : Task(r, g)
    \/ FlushBlocked \/ FlushPending \/ FlushDies \/ FlushEnds
    \/ \E c \in Commands :
        \/ \E o \in Owners : Prepare(c, o) \/ Advance(c, o)
        \/ Activate(c) \/ Abort(c) \/ LeaseRunsOut(c) \/ Resume(c)
    \/ ResumeReads

Spec == Init /\ [][Next]_vars

-----------------------------------------------------------------------------
(* Correctness properties                                                  *)

\* The facts that are checked at the commit stay true: no execution, result,
\* message or process of an older generation is left, or comes back, under
\* the reopened Run, though they were read from two databases and a flush or
\* a result pump may still hold what it read before.
OldWorkIsOver == \A r \in Runs : \A g \in Generations :
    g < run[r].gen => SettledTask(task[r][g]) /\ task[r][g].exec # "live"

\* A prepared decision is about the Run as it is: nothing the application,
\* the deliveries or a continuation do moves it until the commit.
PreparedIsFrozen == \A c \in Commands : rec[c].st = "prepared" =>
    /\ ~rec[c].moved /\ Reopenable(RunOf[c]) /\ ~run[RunOf[c]].linked
    /\ rec[c].target = run[RunOf[c]].gen + 1

\* Every generation is one decision, whoever advances it how often: callers,
\* their replays, hosts and those who take a lease over.
OneDecisionEach == \A r \in Runs :
    /\ run[r].gen = Cardinality({c \in Commands : RunOf[c] = r /\ rec[c].st \in {"committed", "activated"}})
    /\ Cardinality({c \in Commands : RunOf[c] = r /\ rec[c].st \in Active}) <= 1

\* A Run is continued or reopened, never both: its history has no fork.
NeverForked == \A r \in Runs : run[r].linked => run[r].st # "running" /\ ~Recovering(r)

\* What a recovery leaves and decides, whoever races for it.
RecoverySafe ==
    /\ TypeOK
    /\ OldWorkIsOver
    /\ PreparedIsFrozen
    /\ OneDecisionEach
    /\ NeverForked

-----------------------------------------------------------------------------
(* Liveness: the host of a restarted process keeps its turns, deliveries   *)
(* and notifications go on; the caller of a reopen need not come back.     *)

HostFairness ==
    /\ WF_vars(ResumeReads)
    /\ \A c \in Commands : WF_vars(Resume(c)) /\ WF_vars(LeaseRunsOut(c))

DeliveryFairness ==
    /\ WF_vars(FlushBlocked) /\ SF_vars(FlushPending) /\ WF_vars(FlushEnds)
    /\ \A r \in Runs :
        /\ WF_vars(SettleNotification(r))
        /\ \A g \in Generations : SF_vars(FlushDeliver(r, g)) /\ SF_vars(FlushMark(r, g))

HostSpec == Spec /\ HostFairness
LiveSpec == HostSpec /\ DeliveryFairness
\* ... and an operator who wants a recovery aborted keeps trying.
AbortedSpec == HostSpec /\ \A c \in Commands : SF_vars(Abort(c))

\* As many older recoveries as the host reads in a turn are open and cannot be
\* committed: it reads no others.
Stuck(i) == rec[order[i]].st = "prepared" /\ order[i] \notin Good
Crowded(c) == \E j \in 1 .. Len(order) :
    order[j] = c /\ Cardinality({i \in 1 .. j - 1 : Stuck(i)}) >= Limit

\* "The host can finish a prepared or committed record after a restart"
\* (wiki/Integration-Guide): a decision that can be committed is, unless others crowd it out.
GoodAreFinished == \A c \in Good :
    rec[c].st \in Active ~> rec[c].st \in {"activated", "aborted"} \/ Crowded(c)

\* The Run's messages, which flush leaves alone while it recovers, go out, unless
\* its recovery is crowded out after its commit.
IntentsGoOut == \A r \in Runs : \A g \in Generations :
    task[r][g].intent = "pending" ~>
        \/ task[r][g].intent = "delivered"
        \/ \E c \in Commands : RunOf[c] = r /\ rec[c].st = "committed" /\ Crowded(c)

\* "The old holder may reclaim under the same logical owner identity, but
\* only with a higher fence" (advance_recovery), then abort: a recovery that
\* cannot be committed does not block its Run for good.
PreparedEnds == \A c \in Commands : rec[c].st = "prepared" ~> rec[c].st # "prepared"
================================================================================
