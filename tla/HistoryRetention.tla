--------------------------- MODULE HistoryRetention ---------------------------
(* What an orchestrator store keeps of the past of its Runs, and the deletion  *)
(* of what nobody needs any more: revisions that are rebuilt from the rows of  *)
(* their changes, receipts that name a revision, events that subscriptions     *)
(* consume, values kept as shared content objects; retention plans, applied    *)
(* exactly or not at all; the compacted copy of the store.                     *)
EXTENDS Integers, FiniteSets, FiniteSetsExt, Functions, TLC

CONSTANTS
  Runs, Fields, Values, Subs,
  Operators,  \* those who plan and apply a retention
  Policies,   \* the policies in use: [revisions, events], a number or Always
  Parts,      \* Parts[v]: the content objects the value v is stored as
  First,      \* the value every field of a new Run has
  MaxRevision, MaxWrites   \* bounds: revisions of a Run, writes of the store

VARIABLES
  revision,   \* revision[r]: the current revision of a Run
  items,      \* items[r][f]: the current value of a field
  history,    \* rows <<r, f, n, v>>: revision n gave f the value v
  revisions,  \* revisions[r]: the revisions that can be loaded
  expired,    \* expired[r]: the revisions retention removed
  receipts,   \* <<r, n>>: some command's receipt names revision n
  events,     \* [seq, run, decided, value]
  sequence,   \* sqlite_sequence of sdk_events
  highWater, expiredThrough,   \* sdk_event_watermarks of a Run
  cursor,     \* cursor[r, s]: how far a subscription is, NoRow before its first step
  recoveries, \* values of the decisions of recoveries
  objects,    \* the content objects in the store
  writes,     \* the mutation clock of the store
  place,      \* how often the store was replaced by a compacted copy
  plan,       \* plan[o]: the plan an operator holds
  applied,    \* maintenance receipts: plans that were applied
  was,        \* was[r][n]: what the Run was at revision n
  emitted     \* every event there ever was
vars == <<revision, items, history, revisions, expired, receipts, events, sequence, highWater,
          expiredThrough, cursor, recoveries, objects, writes, place, plan, applied, was, emitted>>

runVars == <<revision, items, history, revisions, was>>
eventVars == <<events, sequence, highWater, emitted>>
planVars == <<expired, expiredThrough, place, plan, applied>>

Always == -1
NoRow == -1
NoPlan == [run |-> 0]
Initially == [f \in Fields |-> First]

Init ==
  /\ revision = [r \in Runs |-> 0]
  /\ items = [r \in Runs |-> Initially]
  /\ history = {<<r, f, 0, First>> : r \in Runs, f \in Fields}
  /\ revisions = [r \in Runs |-> {0}]
  /\ expired = [r \in Runs |-> {}]
  /\ receipts = Runs \X {0}
  /\ events = {}
  /\ sequence = 0
  /\ highWater = [r \in Runs |-> 0]
  /\ expiredThrough = [r \in Runs |-> 0]
  /\ cursor = [x \in Runs \X Subs |-> NoRow]
  /\ recoveries = {}
  /\ objects = Parts[First]
  /\ writes = 0
  /\ place = 0
  /\ plan = [o \in Operators |-> NoPlan]
  /\ applied = {}
  /\ was = [r \in Runs |-> (0 :> Initially)]
  /\ emitted = {}

--------------------------------------------------------------------------------
(* Saves, events and subscriptions.                                            *)

\* A save gives the Run its next revision; a field that keeps its value gets no row.
Save(r, f, v) ==
  LET n == revision[r] + 1
      new == [items[r] EXCEPT ![f] = v] IN
  /\ revision[r] < MaxRevision
  /\ revision' = [revision EXCEPT ![r] = n]
  /\ items' = [items EXCEPT ![r] = new]
  /\ history' = history \union (IF items[r][f] = v THEN {} ELSE {<<r, f, n, v>>})
  /\ revisions' = [revisions EXCEPT ![r] = @ \union {n}]
  /\ was' = [was EXCEPT ![r] = @ @@ (n :> new)]

Emit(r, isDecision, v) ==
  LET e == [seq |-> sequence + 1, run |-> r, decided |-> isDecision, value |-> v] IN
  /\ sequence' = sequence + 1
  /\ events' = events \union {e}
  /\ emitted' = emitted \union {e}
  /\ highWater' = [highWater EXCEPT ![r] = sequence + 1]

At(r, s) == IF cursor[r, s] = NoRow THEN 0 ELSE cursor[r, s]

Advance(r, s, to) ==
  /\ At(r, s) >= expiredThrough[r]
  /\ to \in At(r, s)..highWater[r]
  /\ cursor' = [cursor EXCEPT ![r, s] = to]

Written == writes < MaxWrites /\ writes' = writes + 1

\* commit: a decision, its event, its receipt, and what its subscription has consumed
Commit(r, f, v) ==
  /\ Written
  /\ Save(r, f, v)
  /\ Emit(r, TRUE, v)
  /\ objects' = objects \union Parts[v]
  /\ receipts' = receipts \union {<<r, revision[r] + 1>>}
  /\ \/ cursor' = cursor
     \/ \E s \in Subs, to \in 0..sequence : Advance(r, s, to)
  /\ UNCHANGED <<recoveries, planVars>>

\* a result or a dispatch that is saved without a command
Sync(r, f, v) ==
  /\ Written
  /\ Save(r, f, v)
  /\ Emit(r, FALSE, v)
  /\ objects' = objects \union Parts[v]
  /\ UNCHANGED <<receipts, cursor, recoveries, planVars>>

AcknowledgeEvents(r, s, to) ==
  /\ Written
  /\ Advance(r, s, to)
  /\ receipts' = receipts \union {<<r, revision[r]>>}
  /\ UNCHANGED <<runVars, eventVars, recoveries, objects, planVars>>

\* reopen_run stores the decision and the manifest of a recovery.
PrepareRecovery(v) ==
  /\ Written
  /\ v \notin recoveries
  /\ recoveries' = recoveries \union {v}
  /\ objects' = objects \union Parts[v]
  /\ UNCHANGED <<runVars, eventVars, receipts, cursor, planVars>>

--------------------------------------------------------------------------------
(* The plan: what is kept, and for whom.                                       *)

RowsOf(r, f) == {h \in history : h[1] = r /\ h[2] = f}

\* the row of a field that a revision is rebuilt from
Baseline(r, f, n) ==
  LET eligible == {h \in RowsOf(r, f) : h[3] <= n} IN
  {h \in eligible : \A g \in eligible : g[3] <= h[3]}

LoadAt(r, n) == [f \in Fields |-> {h[4] : h \in Baseline(r, f, n)}]

\* the k largest of S
Last(S, k) == {x \in S : Cardinality({y \in S : y > x}) < k}

Receipted(r) == {x[2] : x \in {y \in receipts : y[1] = r}}

Protected_Mutant(r, policy) ==
  {revision[r]}
    \union (IF policy.revisions = Always THEN revisions[r] ELSE Last(revisions[r], policy.revisions))
Protected(r, policy) ==
  {revision[r]} \union Receipted(r)
    \union (IF policy.revisions = Always THEN revisions[r] ELSE Last(revisions[r], policy.revisions))

Decisions(r) == {e \in events : e.run = r /\ e.decided}

\* decisions a subscription has yet to consume, and the most recent ones
KeptDecisions(r, policy) ==
  {e \in Decisions(r) :
     \/ policy.events = Always
     \/ e.seq \in Last({d.seq : d \in Decisions(r)}, policy.events)
     \/ \E s \in Subs : cursor[r, s] # NoRow /\ cursor[r, s] < e.seq}

\* rows no kept revision is rebuilt from
DeadRows(r, keep) ==
  {h \in history : h[1] = r} \ UNION {Baseline(r, f, n) : f \in Fields, n \in keep}

\* what the store still refers to, in any Run
Roots(r, rows, decisions) ==
  UNION {{items[q][f] : f \in Fields} : q \in Runs} \union {h[4] : h \in history \ rows}
    \union {e.value : e \in events \ decisions} \union recoveries

PlanRetention(r, policy) ==
  LET keep == Protected(r, policy)
      rows == DeadRows(r, keep)
      decisions == Decisions(r) \ KeptDecisions(r, policy)
      collects == policy.revisions # Always \/ policy.events # Always IN
  [run |-> r, policy |-> policy, token |-> writes, place |-> place,
   rows |-> rows, revisions |-> revisions[r] \ keep, events |-> decisions,
   objects |-> IF collects THEN objects \ UNION {Parts[v] : v \in Roots(r, rows, decisions)}
                           ELSE {}]

\* a read transaction, without a lease: the store may change at once
Plan(o, r, policy) ==
  /\ plan' = [plan EXCEPT ![o] = PlanRetention(r, policy)]
  /\ UNCHANGED <<runVars, eventVars, expired, expiredThrough, receipts, cursor, recoveries, objects,
                 writes, place, applied>>

\* The plan is computed again: an apply removes what was planned, or nothing.
StillHolds(p) == PlanRetention(p.run, p.policy) = p

\* One transaction under an exclusive lease; what was applied before is answered from its receipt.
ApplyRetention(o) ==
  LET p == plan[o] IN
  /\ p # NoPlan
  /\ p \notin applied
  /\ StillHolds(p)
  /\ Written
  /\ history' = history \ p.rows
  /\ revisions' = [revisions EXCEPT ![p.run] = @ \ p.revisions]
  /\ expired' = [expired EXCEPT ![p.run] = @ \union p.revisions]
  /\ events' = events \ p.events
  /\ expiredThrough' = [expiredThrough EXCEPT ![p.run] = Max({@} \union {e.seq : e \in p.events})]
  /\ objects' = objects \ p.objects
  /\ applied' = applied \union {p}
  /\ UNCHANGED <<revision, items, was, receipts, sequence, highWater, emitted, cursor, recoveries,
                 place, plan>>

\* An operator puts the compacted copy in place of the store: no sequence goes back.
CompactDatabase ==
  /\ place = 0
  /\ place' = 1
  /\ sequence' = sequence
  /\ UNCHANGED <<runVars, events, highWater, emitted, expired, expiredThrough, receipts, cursor,
                 recoveries, objects, writes, plan, applied>>

Next ==
  \/ \E r \in Runs, f \in Fields, v \in Values : Commit(r, f, v) \/ Sync(r, f, v)
  \/ \E r \in Runs, s \in Subs, to \in 0..sequence : AcknowledgeEvents(r, s, to)
  \/ \E v \in Values : PrepareRecovery(v)
  \/ \E o \in Operators, r \in Runs, policy \in Policies : Plan(o, r, policy)
  \/ \E o \in Operators : ApplyRetention(o)
  \/ CompactDatabase

Spec == Init /\ [][Next]_vars

--------------------------------------------------------------------------------
(* Properties.                                                                 *)

TypeOK ==
  /\ \A r \in Runs : /\ revision[r] \in 0..MaxRevision
                     /\ revisions[r] \subseteq 0..revision[r]
                     /\ expired[r] \subseteq 0..revision[r]
                     /\ items[r] \in [Fields -> Values \union {First}]
                     /\ expiredThrough[r] <= highWater[r] /\ highWater[r] <= sequence
                     /\ \A s \in Subs : cursor[r, s] \in {NoRow} \union 0..highWater[r]
  /\ \A h \in history : h[1] \in Runs /\ h[2] \in Fields /\ h[3] \in 0..revision[h[1]]
  /\ events \subseteq emitted
  /\ writes \in 0..MaxWrites

\* _load_at: every revision that can be loaded is what the Run was then, however
\* many retentions removed rows of the revisions around it.
HistoryIsIntact ==
  \A r \in Runs : \A n \in revisions[r] : LoadAt(r, n) = [f \in Fields |-> {was[r][n][f]}]

\* _replay: a command that is sent again is answered with its snapshot, never
\* with HistoryExpired; and a revision that is gone is known to have expired.
ReceiptsAnswer ==
  \A r \in Runs :
    /\ Receipted(r) \subseteq revisions[r]
    /\ revisions[r] \intersect expired[r] = {}
    /\ revisions[r] \union expired[r] = 0..revision[r]

\* observe, acknowledge_events: a subscription that has begun is never refused as
\* expired, and finds every event after its cursor, of both kinds.
NoEventSkipped ==
  \A r \in Runs, s \in Subs :
    cursor[r, s] # NoRow =>
      /\ cursor[r, s] >= expiredThrough[r]
      /\ \A e \in emitted : e.run = r /\ e.seq > cursor[r, s] => e \in events

\* decode_value: whatever is kept - values, rows, events, recoveries, of this Run
\* or of another - still finds every content object it is stored as.
ContentIsThere ==
  \A v \in UNION {{items[r][f] : f \in Fields} : r \in Runs}
             \union {h[4] : h \in history} \union {e.value : e \in events} \union recoveries :
    Parts[v] \subseteq objects

\* AUTOINCREMENT and its restoration after VACUUM: no two events of a store have
\* the same number, even when the last ones were deleted and the file rebuilt.
NumbersNeverReused ==
  \A d, e \in emitted : d.seq = e.seq => d = e

\* What the removal of old rows leaves is whole: history, receipts, events, content.
RetentionSafe ==
    /\ TypeOK
    /\ HistoryIsIntact
    /\ ReceiptsAnswer
    /\ NoEventSkipped
    /\ ContentIsThere
    /\ NumbersNeverReused

\* apply_retention: only a plan made on the store as it is removes anything.
OnlyWhatWasPlannedStep ==
    \A r \in Runs : revisions'[r] \subseteq revisions[r] /\ revisions'[r] # revisions[r] =>
      \E o \in Operators : /\ plan[o] # NoPlan
                           /\ plan[o].run = r
                           /\ plan[o].token = writes
                           /\ plan[o].place = place
                           /\ plan[o].revisions = revisions[r] \ revisions'[r]

OnlyWhatWasPlanned == [][OnlyWhatWasPlannedStep]_vars
================================================================================
