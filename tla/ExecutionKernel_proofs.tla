------------------------ MODULE ExecutionKernel_proofs ------------------------
(***************************************************************************)
(* Theorems about ExecutionKernel, for any executions, effects, runtimes,  *)
(* retry policy and isolation mode: types and ownership, how often the     *)
(* outside world sees an effect, that the kernel implements                *)
(* ExecutionPromise and KernelView, that it spends one attempt at a time   *)
(* out of a budget that only operators extend, and keeps one process tree  *)
(* for each execution.                                                     *)
(***************************************************************************)
EXTENDS ExecutionKernel, FiniteSetTheorems, TLAPS

-----------------------------------------------------------------------------
(* A row stays well-formed when one column is given a value of its type.   *)

LEMMA RowFields ==
    ASSUME NEW row \in Rows
    PROVE  /\ \A v \in ExecutionStates : [row EXCEPT !.state = v] \in Rows
           /\ \A v \in Nat : /\ [row EXCEPT !.attempt = v] \in Rows
                             /\ [row EXCEPT !.fence = v] \in Rows
                             /\ [row EXCEPT !.revision = v] \in Rows
                             /\ [row EXCEPT !.lease = v] \in Rows
           /\ \A v \in -1 .. LeaseTicks : [row EXCEPT !.ttl = v] \in Rows
           /\ \A v \in 0 .. RetryDelay : [row EXCEPT !.wait = v] \in Rows
           /\ \A v \in Effects \cup {None} : [row EXCEPT !.pointer = v] \in Rows
           /\ \A v \in {"none", "queued", "cancelled"} : [row EXCEPT !.target = v] \in Rows
           /\ \A v \in Results : [row EXCEPT !.result = v] \in Rows
<1>1. \A v \in ExecutionStates : [row EXCEPT !.state = v] \in Rows
  BY DEF Rows
<1>2. \A v \in Nat : [row EXCEPT !.attempt = v] \in Rows
  BY DEF Rows
<1>3. \A v \in Nat : [row EXCEPT !.fence = v] \in Rows
  BY DEF Rows
<1>4. \A v \in Nat : [row EXCEPT !.revision = v] \in Rows
  BY DEF Rows
<1>5. \A v \in Nat : [row EXCEPT !.lease = v] \in Rows
  BY DEF Rows
<1>6. \A v \in -1 .. LeaseTicks : [row EXCEPT !.ttl = v] \in Rows
  BY DEF Rows
<1>7. \A v \in 0 .. RetryDelay : [row EXCEPT !.wait = v] \in Rows
  BY DEF Rows
<1>8. \A v \in Effects \cup {None} : [row EXCEPT !.pointer = v] \in Rows
  BY DEF Rows
<1>9. \A v \in {"none", "queued", "cancelled"} : [row EXCEPT !.target = v] \in Rows
  BY DEF Rows
<1>10. \A v \in Results : [row EXCEPT !.result = v] \in Rows
  BY DEF Rows
<1> QED
  BY <1>1, <1>2, <1>3, <1>4, <1>5, <1>6, <1>7, <1>8, <1>9, <1>10

LEMMA RowValues ==
    /\ \A row \in Rows : /\ row.revision + 1 \in Nat /\ row.attempt + 1 \in Nat /\ row.fence + 1 \in Nat
                         /\ row.revision \in Nat /\ row.attempt \in Nat /\ row.fence \in Nat
                         /\ row.pointer \in Effects \cup {None}
    /\ -1 \in -1 .. LeaseTicks /\ LeaseTicks \in -1 .. LeaseTicks
    /\ 0 \in 0 .. RetryDelay /\ RetryDelay \in 0 .. RetryDelay
    /\ {"absent", "queued", "leased", "running", "recovery_required"} \cup TerminalStates \subseteq ExecutionStates
BY PolicyAssumption DEF Rows, ExecutionStates, ActiveStates

-----------------------------------------------------------------------------
(* Row updates.                                                            *)

\* A non-empty set of effects has a first one.
LEMMA FirstMember == ASSUME NEW S, S # {} PROVE First(S) \in S
BY DEF First

\* _park_unfinished_effects writes a well-formed row.
LEMMA ParkedRowType ==
    ASSUME TypeOK, NEW e \in Executions, Unfinished(e) # {},
           NEW target \in {"queued", "cancelled"}
    PROVE  ParkedRow(e, target) \in Rows
<1>1. First(Unfinished(e)) \in Effects
  BY FirstMember DEF Unfinished
<1>3. execution[e] \in Rows
  BY DEF TypeOK
<1>4. (IF execution[e].pointer \in Unfinished(e) THEN execution[e].pointer ELSE First(Unfinished(e)))
         \in Effects \cup {None}
  BY <1>1, <1>3, RowValues
<1> QED
  BY <1>3, <1>4, RowFields, RowValues DEF ParkedRow

\* So do _terminal ...
LEMMA TerminalRowType ==
    ASSUME NEW row \in Rows, NEW status \in TerminalStates
    PROVE  TerminalRow(row, status) \in Rows
<1>1. [status |-> status, fence |-> row.fence] \in Results
  BY RowValues DEF Results
<1> QED
  BY <1>1, RowFields, RowValues DEF TerminalRow

\* ... and the return to the queue.
LEMMA RequeuedRowType ==
    ASSUME NEW row \in Rows
    PROVE  RequeuedRow(row) \in Rows
BY RowFields, RowValues DEF RequeuedRow

\* The expiry sweep writes well-formed rows.
LEMMA ReapedType ==
    ASSUME TypeOK
    PROVE  Reaped \in [Executions -> Rows]
<1> SUFFICES ASSUME NEW e \in Executions
             PROVE  ReapedRow(e) \in Rows
  BY DEF Reaped
<1>1. execution[e] \in Rows
  BY DEF TypeOK
<1> QED
  BY <1>1, ParkedRowType, TerminalRowType, RequeuedRowType DEF ReapedRow, TerminalStates

-----------------------------------------------------------------------------
(* Invocations and effects.                                                *)

LEMMA InvocationFields ==
    ASSUME NEW i \in Invocations
    PROVE  /\ \A v \in WorkerPcs : [i EXCEPT !.pc = v] \in Invocations
           /\ \A v \in Executions \cup {None} : [i EXCEPT !.exec = v] \in Invocations
           /\ \A v \in Nat : /\ [i EXCEPT !.attempt = v] \in Invocations
                             /\ [i EXCEPT !.fence = v] \in Invocations
                             /\ [i EXCEPT !.revision = v] \in Invocations
                             /\ [i EXCEPT !.claim = v] \in Invocations
           /\ \A v \in Effects \cup {None} : [i EXCEPT !.effect = v] \in Invocations
           /\ \A v \in BOOLEAN : /\ [i EXCEPT !.alive = v] \in Invocations
                                 /\ [i EXCEPT !.orphan = v] \in Invocations
           /\ \A v \in [status : Outcomes, timely : BOOLEAN, confirmed : BOOLEAN] :
                 [i EXCEPT !.outcome = v] \in Invocations
<1>1. \A v \in WorkerPcs : [i EXCEPT !.pc = v] \in Invocations
  BY DEF Invocations
<1>2. \A v \in Nat : [i EXCEPT !.revision = v] \in Invocations
  BY DEF Invocations
<1>3. \A v \in Nat : [i EXCEPT !.claim = v] \in Invocations
  BY DEF Invocations
<1>4. \A v \in Effects \cup {None} : [i EXCEPT !.effect = v] \in Invocations
  BY DEF Invocations
<1>5. \A v \in BOOLEAN : [i EXCEPT !.alive = v] \in Invocations
  BY DEF Invocations
<1>6. \A v \in BOOLEAN : [i EXCEPT !.orphan = v] \in Invocations
  BY DEF Invocations
<1>7. \A v \in [status : Outcomes, timely : BOOLEAN, confirmed : BOOLEAN] :
         [i EXCEPT !.outcome = v] \in Invocations
  BY DEF Invocations
<1>8. \A v \in Executions \cup {None} : [i EXCEPT !.exec = v] \in Invocations
  BY DEF Invocations
<1>9. \A v \in Nat : [i EXCEPT !.attempt = v] \in Invocations
  BY DEF Invocations
<1>10. \A v \in Nat : [i EXCEPT !.fence = v] \in Invocations
  BY DEF Invocations
<1> QED
  BY <1>1, <1>2, <1>3, <1>4, <1>5, <1>6, <1>7, <1>8, <1>9, <1>10

LEMMA InvocationValues ==
    /\ \A i \in Invocations : /\ i.revision + 1 \in Nat /\ i.revision \in Nat
                              /\ i.fence \in Nat /\ i.attempt \in Nat
                              /\ i.exec \in Executions \cup {None} /\ i.effect \in Effects \cup {None}
    /\ Started \in WorkerPcs /\ Started \notin {"idle", "recover"} \cup EffectPcs
    /\ {"idle", "leased", "running", "registered", "recover", "done"} \cup InHandler = WorkerPcs
    /\ InHandler = {"handling"} \cup EffectPcs
    /\ Idle \in Invocations /\ Linked(Idle)
<1>1. \A i \in Invocations : /\ i.revision + 1 \in Nat /\ i.revision \in Nat
                             /\ i.fence \in Nat /\ i.attempt \in Nat
                             /\ i.exec \in Executions \cup {None} /\ i.effect \in Effects \cup {None}
  BY DEF Invocations
<1>2. Started \in WorkerPcs /\ Started \notin {"idle", "recover"} \cup EffectPcs
  BY DEF Started, WorkerPcs, InHandler, EffectPcs
<1>3. Idle \in Invocations
  BY DEF Idle, Invocations, NoOutcome, Outcomes, WorkerPcs
<1>4. Linked(Idle)
  BY DEF Linked, Idle, EffectPcs
<1> QED
  BY <1>1, <1>2, <1>3, <1>4 DEF WorkerPcs, InHandler

\* Replacing one invocation by a well-formed one
LEMMA OneWorker ==
    ASSUME TypeOK, NEW w \in Workers, NEW i \in Invocations, Linked(i),
           worker' = [worker EXCEPT ![w] = i]
    PROVE  worker' \in [Workers -> Invocations] /\ \A v \in Workers : Linked(worker'[v])
BY DEF TypeOK

LEMMA EffectFields ==
    ASSUME NEW rec \in EffectRows
    PROVE  /\ \A v \in EffectStates : [rec EXCEPT !.state = v] \in EffectRows
           /\ \A v \in Nat : /\ [rec EXCEPT !.claim = v] \in EffectRows
                             /\ [rec EXCEPT !.revision = v] \in EffectRows
           /\ rec.revision + 1 \in Nat /\ rec.claim \in Nat /\ rec.fence \in Nat
           /\ {"absent", "committed", "not_applied"} \cup UnfinishedStates = EffectStates
           /\ UnfinishedStates = {"prepared", "performing", "indeterminate"}
BY DEF EffectRows, EffectStates, UnfinishedStates

LEMMA UncertainType ==
    ASSUME NEW rec \in EffectRows
    PROVE  Uncertain(rec) \in EffectRows
BY EffectFields DEF Uncertain

LEMMA PublishedType ==
    ASSUME TypeOK, NEW e \in Executions, NEW row \in Rows
    PROVE  Published(e, row) \in Results \cup {NoResult}
<1>1. row.result \in Results \cup {NoResult}
  BY DEF Rows
<1> QED
  BY <1>1 DEF Published, TypeOK

\* The common tail of complete, dead_letter, cancel and require_effect_recovery
LEMMA ParkOrElseType ==
    ASSUME TypeOK, NEW e \in Executions, NEW target \in {"queued", "cancelled"}, NEW row \in Rows,
           ParkOrElse(e, target, row)
    PROVE  /\ execution' \in [Executions -> Rows]
           /\ effect' \in [Effects -> EffectRows]
           /\ outbox' \in [Executions -> Results \cup {NoResult}]
<1>1. CASE Unfinished(e) # {}
  <2>1. ParkedRow(e, target) \in Rows
    BY <1>1, ParkedRowType
  <2>2. /\ execution' = [execution EXCEPT ![e] = ParkedRow(e, target)]
        /\ effect' = [f \in Effects |-> IF f \in Unfinished(e) THEN Uncertain(effect[f]) ELSE effect[f]]
        /\ outbox' = outbox
    BY <1>1 DEF ParkOrElse
  <2>3. effect' \in [Effects -> EffectRows]
    BY <2>2, UncertainType DEF TypeOK
  <2> QED
    BY <2>1, <2>2, <2>3 DEF TypeOK
<1>2. CASE Unfinished(e) = {}
  <2>1. /\ execution' = [execution EXCEPT ![e] = row]
        /\ effect' = effect
        /\ outbox' = [outbox EXCEPT ![e] = Published(e, row)]
    BY <1>2 DEF ParkOrElse
  <2> QED
    BY <2>1, PublishedType DEF TypeOK
<1> QED
  BY <1>1, <1>2

LEMMA ReapRestType ==
    ASSUME TypeOK, ReapRest
    PROVE  /\ effect' \in [Effects -> EffectRows]
           /\ outbox' \in [Executions -> Results \cup {NoResult}]
<1>1. \A e \in Executions : ReapedRow(e) \in Rows
  BY ReapedType DEF Reaped
<1>2. effect' \in [Effects -> EffectRows]
  BY UncertainType DEF ReapRest, TypeOK
<1>3. outbox' \in [Executions -> Results \cup {NoResult}]
  BY <1>1, PublishedType DEF ReapRest, TypeOK
<1> QED
  BY <1>2, <1>3

LEMMA OwnsRowLinked ==
    ASSUME TypeOK, NEW w \in Workers, NEW states, OwnsRow(w, states)
    PROVE  worker[w].exec \in Executions
BY DEF TypeOK, OwnsRow, Linked

-----------------------------------------------------------------------------
(* Every action keeps the types.                                           *)

LEMMA InitTyped == Init => TypeOK
<1> SUFFICES ASSUME Init PROVE TypeOK
  OBVIOUS
<1>1. Absent \in Rows
  BY PolicyAssumption DEF Absent, Rows, ExecutionStates
<1>2. [state |-> "absent", fence |-> 0, claim |-> 0, revision |-> 0] \in EffectRows
  BY DEF EffectRows, EffectStates
<1> QED
  BY <1>1, <1>2, InvocationValues DEF Init, TypeOK

LEMMA ClaimTyped ==
    ASSUME TypeOK, NEW w \in Workers, NEW e \in Executions, NEW state \in ActiveStates, NEW steps \in Nat,
           NEW pc \in {"leased", Started}, ClaimAs(w, e, state, steps, pc)
    PROVE  TypeOK'
<1> DEFINE row == ClaimedRow(w, Reaped[e], state, steps)
           i == [Idle EXCEPT !.pc = pc, !.exec = e, !.attempt = row.attempt,
                             !.fence = row.fence, !.revision = row.revision]
<1>1. Reaped[e] \in Rows
  BY ReapedType
<1>2. row \in Rows
  <2>1. Reaped[e].revision + steps \in Nat
    BY <1>1, RowValues
  <2> QED
    BY <1>1, <2>1, RowFields, RowValues DEF ClaimedRow, ExecutionStates
<1>3. i \in Invocations
  <2>1. row.attempt \in Nat /\ row.fence \in Nat /\ row.revision \in Nat
    BY <1>2, RowValues
  <2>2. pc \in WorkerPcs
    BY InvocationValues
  <2> HIDE DEF row
  <2> QED
    BY <2>1, <2>2, InvocationFields, InvocationValues
<1>4. Linked(i)
  BY InvocationValues DEF Linked, Idle, EffectPcs
<1>5. /\ execution' = [Reaped EXCEPT ![e] = row]
      /\ ReapRest
      /\ worker' = [worker EXCEPT ![w] = i]
      /\ UNCHANGED <<obligation, orders, detached, ledger>>
  BY DEF ClaimAs
<1> HIDE DEF row, i
<1>6. execution' \in [Executions -> Rows]
  BY <1>2, <1>5, ReapedType
<1>7. worker' \in [Workers -> Invocations] /\ \A v \in Workers : Linked(worker'[v])
  BY <1>3, <1>4, <1>5, OneWorker
<1> QED
  BY <1>5, <1>6, <1>7, ReapRestType DEF TypeOK

\* The actions that leave the store alone
LEMMA WorkerOnlyTyped ==
    ASSUME TypeOK, NEW w \in Workers, NEW i \in Invocations, Linked(i),
           worker' = [worker EXCEPT ![w] = i],
           UNCHANGED <<execution, effect, outbox, orders>>,
           obligation' \in [Executions -> [fence : Nat, open : BOOLEAN]],
           detached' \in [Effects -> Nat],
           ledger' \in [Effects -> [granted : Nat, performed : Nat, waived : Nat]]
    PROVE  TypeOK'
BY OneWorker DEF TypeOK

LEMMA OutcomeType ==
    ASSUME TypeOK, NEW w \in Workers, NEW status \in Outcomes, NEW confirmed \in BOOLEAN
    PROVE  Outcome(w, status, confirmed) \in [status : Outcomes, timely : BOOLEAN, confirmed : BOOLEAN]
<1>1. (execution[worker[w].exec].ttl >= 0) \in BOOLEAN
  OBVIOUS
<1> QED
  BY <1>1 DEF Outcome

LEMMA ReleaseType ==
    ASSUME TypeOK, NEW w \in Workers, worker[w].exec \in Executions,
           NEW settlement \in BOOLEAN, ReleaseObligation(w, settlement) \/ CloseObligation(w)
    PROVE  obligation' \in [Executions -> [fence : Nat, open : BOOLEAN]]
<1>1. obligation \in [Executions -> [fence : Nat, open : BOOLEAN]]
  BY DEF TypeOK
<1>2. [obligation EXCEPT ![worker[w].exec].open = FALSE] \in [Executions -> [fence : Nat, open : BOOLEAN]]
  BY <1>1
<1> QED
  BY <1>1, <1>2 DEF ReleaseObligation, CloseObligation

\* An invocation that only moves to another point of the handler
LEMMA MovedInvocation ==
    ASSUME TypeOK, NEW w \in Workers, NEW pc \in WorkerPcs,
           pc \notin EffectPcs \cup {"recover"} \/ worker[w].pc \in EffectPcs \cup {"recover"},
           worker[w].pc # "idle"
    PROVE  /\ [worker[w] EXCEPT !.pc = pc] \in Invocations
           /\ Linked([worker[w] EXCEPT !.pc = pc])
<1>1. worker[w] \in Invocations /\ Linked(worker[w])
  BY DEF TypeOK
<1>2. [worker[w] EXCEPT !.pc = pc] \in Invocations
  BY <1>1, InvocationFields
<1>3. /\ [worker[w] EXCEPT !.pc = pc].pc = pc
      /\ [worker[w] EXCEPT !.pc = pc].exec = worker[w].exec
      /\ [worker[w] EXCEPT !.pc = pc].effect = worker[w].effect
  BY <1>1 DEF Invocations
<1>4. Linked([worker[w] EXCEPT !.pc = pc])
  BY <1>1, <1>3 DEF Linked
<1> QED
  BY <1>2, <1>4

LEMMA BumpType ==
    ASSUME NEW d \in [Effects -> Nat], NEW f
    PROVE  [d EXCEPT ![f] = @ + 1] \in [Effects -> Nat]
<1>1. CASE f \in Effects
  BY <1>1
<1>2. CASE f \notin Effects
  BY <1>2
<1> QED
  BY <1>1, <1>2

LEMMA HandlerTyped ==
    ASSUME TypeOK, NEW w \in Workers,
           \/ Spawn(w) \/ NotInvoked(w) \/ VerifyClaim(w) \/ Swallow(w) \/ Crash(w) \/ OrphanExit(w)
           \/ \E status \in Outcomes : Finish(w, status) \/ Interrupt(w, status)
           \/ Abandon(w) \/ Perform(w) \/ CompleteAgain(w) \/ Register(w)
    PROVE  TypeOK'
<1> USE DEF store, CanRun
<1>0. /\ worker[w] \in Invocations /\ Linked(worker[w])
      /\ obligation \in [Executions -> [fence : Nat, open : BOOLEAN]]
      /\ detached \in [Effects -> Nat]
      /\ ledger \in [Effects -> [granted : Nat, performed : Nat, waived : Nat]]
  BY DEF TypeOK
<1>a. [detached EXCEPT ![worker[w].effect] = @ + 1] \in [Effects -> Nat]
  BY <1>0, BumpType
<1>1. CASE Spawn(w)
  <2> DEFINE i == [worker[w] EXCEPT !.pc = "handling", !.alive = TRUE]
  <2>1. i \in Invocations
    BY <1>0, InvocationFields, InvocationValues
  <2>2. Linked(i)
    BY <1>0, <1>1 DEF Spawn, Linked, Invocations, EffectPcs
  <2>3. worker' = [worker EXCEPT ![w] = i]
    BY <1>0, <1>1 DEF Spawn
  <2> HIDE DEF i
  <2> QED
    BY <1>0, <1>1, <2>1, <2>2, <2>3, WorkerOnlyTyped DEF Spawn
<1>2. CASE VerifyClaim(w)
  <2>1. worker' = [worker EXCEPT ![w] = [worker[w] EXCEPT !.pc = "calling"]]
    BY <1>2 DEF VerifyClaim
  <2>2. worker[w].pc = "claimed"
    BY <1>2 DEF VerifyClaim
  <2>3. "calling" \in WorkerPcs /\ "claimed" \in EffectPcs
    BY DEF WorkerPcs, InHandler, EffectPcs
  <2> DEFINE i == [worker[w] EXCEPT !.pc = "calling"]
  <2>4. i \in Invocations /\ Linked(i)
    BY <2>2, <2>3, MovedInvocation
  <2> HIDE DEF i
  <2> QED
    BY <1>0, <1>2, <2>1, <2>4, WorkerOnlyTyped DEF VerifyClaim, i
<1>3. CASE NotInvoked(w)
  <2> DEFINE o == [status |-> "failed", confirmed |-> TRUE, timely |-> execution[worker[w].exec].ttl >= 0]
             i == [worker[w] EXCEPT !.pc = "done", !.outcome = o]
  <2>1. o \in [status : Outcomes, timely : BOOLEAN, confirmed : BOOLEAN]
    BY DEF Outcomes
  <2>2. worker' = [worker EXCEPT ![w] = i]
    BY <1>0, <1>3 DEF NotInvoked
  <2> HIDE DEF o
  <2>3. i \in Invocations
    BY <1>0, <2>1, InvocationFields, InvocationValues
  <2>4. Linked(i)
    BY <1>0, <1>3 DEF NotInvoked, Linked, Invocations, EffectPcs
  <2> HIDE DEF i
  <2> QED
    BY <1>0, <1>3, <2>2, <2>3, <2>4, WorkerOnlyTyped DEF NotInvoked
<1>4. CASE Swallow(w)
  <2> DEFINE i == [worker[w] EXCEPT !.pc = "handling", !.effect = None, !.claim = 0]
  <2>1. i \in Invocations
    BY <1>0, InvocationFields, InvocationValues
  <2>2. Linked(i)
    BY <1>0, <1>4 DEF Swallow, Linked, Invocations, EffectPcs
  <2>3. worker' = [worker EXCEPT ![w] = i]
    BY <1>0, <1>4 DEF Swallow
  <2> HIDE DEF i
  <2> QED
    BY <1>0, <1>4, <2>1, <2>2, <2>3, WorkerOnlyTyped DEF Swallow
<1>5. CASE Crash(w) \/ OrphanExit(w) \/ CompleteAgain(w)
  <2> DEFINE i == [worker[w] EXCEPT !.orphan = TRUE]
  <2>1. i \in Invocations
    BY <1>0, InvocationFields
  <2>2. Linked(i)
    BY <1>0 DEF Linked, Invocations
  <2>3. worker' = [worker EXCEPT ![w] = i] \/ worker' = [worker EXCEPT ![w] = Idle]
    BY <1>0, <1>5 DEF Crash, OrphanExit, CompleteAgain
  <2> HIDE DEF i
  <2>4. obligation' \in [Executions -> [fence : Nat, open : BOOLEAN]]
    BY <1>0, <1>5, ReleaseType DEF Crash, OrphanExit, CompleteAgain, Linked
  <2> QED
    BY <1>0, <1>5, <2>1, <2>2, <2>3, <2>4, InvocationValues, WorkerOnlyTyped DEF Crash, OrphanExit, CompleteAgain
<1>6. ASSUME NEW status \in Outcomes, NEW confirmed \in BOOLEAN,
             Finish(w, status) \/ Interrupt(w, status),
             worker' = [worker EXCEPT ![w].pc = "done", ![w].alive = FALSE,
                                      ![w].outcome = Outcome(w, status, confirmed)]
      PROVE  TypeOK'
  <2> DEFINE o == Outcome(w, status, confirmed)
             i == [worker[w] EXCEPT !.pc = "done", !.alive = FALSE, !.outcome = o]
  <2>1. o \in [status : Outcomes, timely : BOOLEAN, confirmed : BOOLEAN]
    BY OutcomeType
  <2>2. worker' = [worker EXCEPT ![w] = i]
    BY <1>0, <1>6
  <2>3. worker[w].pc \in InHandler
    BY <1>6, InvocationValues DEF Finish, Interrupt
  <2> HIDE DEF o
  <2>4. i \in Invocations
    BY <1>0, <2>1, InvocationFields, InvocationValues
  <2>5. Linked(i)
    BY <1>0, <2>3 DEF Linked, Invocations, InHandler, EffectPcs
  <2>6. detached' \in [Effects -> Nat]
    <3>1. detached' \in {detached, [detached EXCEPT ![worker[w].effect] = @ + 1]}
      BY <1>6 DEF Finish, Interrupt
    <3> QED
      BY <1>0, <1>a, <3>1
  <2> HIDE DEF i
  <2> QED
    BY <1>0, <1>6, <2>2, <2>4, <2>5, <2>6, WorkerOnlyTyped DEF Finish, Interrupt
<1>7. CASE Abandon(w)
  <2>1. detached' \in [Effects -> Nat]
    <3>1. detached' \in {detached, [detached EXCEPT ![worker[w].effect] = @ + 1]}
      BY <1>7 DEF Abandon
    <3> QED
      BY <1>0, <1>a, <3>1
  <2> QED
    BY <1>0, <1>7, <2>1, InvocationValues, WorkerOnlyTyped DEF Abandon
<1>8. CASE Perform(w)
  <2>1. PICK pc \in {"answered", "raised"} :
           /\ worker[w].pc = "calling"
           /\ worker' = [worker EXCEPT ![w] = [worker[w] EXCEPT !.pc = pc]]
           /\ ledger' = [ledger EXCEPT ![worker[w].effect].performed = @ + 1] \/ UNCHANGED ledger
    <3>1. CASE worker' = [worker EXCEPT ![w].pc = "answered"]
      BY <1>8, <3>1 DEF Perform
    <3>2. CASE worker' = [worker EXCEPT ![w].pc = "raised"]
      BY <1>8, <3>2 DEF Perform
    <3> QED
      BY <1>8, <3>1, <3>2 DEF Perform
  <2>2. {"answered", "raised"} \subseteq WorkerPcs /\ "calling" \in EffectPcs
    BY DEF WorkerPcs, InHandler, EffectPcs
  <2> DEFINE i == [worker[w] EXCEPT !.pc = pc]
  <2>3. i \in Invocations /\ Linked(i)
    BY <2>1, <2>2, MovedInvocation
  <2>4. ledger' \in [Effects -> [granted : Nat, performed : Nat, waived : Nat]]
    BY <1>0, <2>1
  <2>5. worker' = [worker EXCEPT ![w] = i]
    BY <2>1
  <2> HIDE DEF i
  <2> QED
    BY <1>0, <1>8, <2>3, <2>4, <2>5, WorkerOnlyTyped DEF Perform
<1>9. CASE Register(w)
  <2> DEFINE i == [worker[w] EXCEPT !.pc = "registered"]
  <2>1. worker[w].pc = "running" /\ worker' = [worker EXCEPT ![w] = i]
    BY <1>9 DEF Register
  <2>2. "registered" \in WorkerPcs \ (EffectPcs \cup {"recover"})
    BY DEF WorkerPcs, EffectPcs
  <2>3. i \in Invocations /\ Linked(i)
    BY <2>1, <2>2, MovedInvocation
  <2>4. worker[w].fence \in Nat
    BY <1>0, InvocationValues
  <2>5. obligation' \in [Executions -> [fence : Nat, open : BOOLEAN]]
    BY <1>0, <1>9, <2>4 DEF Register
  <2> HIDE DEF i
  <2> QED
    BY <1>0, <1>9, <2>1, <2>3, <2>5, WorkerOnlyTyped DEF Register
<1>10. ASSUME NEW status \in Outcomes, Finish(w, status) \/ Interrupt(w, status)
       PROVE  TypeOK'
  <2> DEFINE c == Isolation = "process"
  <2>1. c \in BOOLEAN /\ FALSE \in BOOLEAN
    OBVIOUS
  <2>2. CASE Finish(w, status)
    <3>1. worker' = [worker EXCEPT ![w].pc = "done", ![w].alive = FALSE,
                                   ![w].outcome = Outcome(w, status, c)]
      BY <2>2 DEF Finish
    <3> HIDE DEF c
    <3> QED
      BY <1>6, <2>1, <2>2, <3>1
  <2>3. CASE Interrupt(w, status)
    BY <1>6, <2>1, <2>3 DEF Interrupt
  <2> QED
    BY <1>10, <2>2, <2>3
<1> QED
  BY <1>1, <1>2, <1>3, <1>4, <1>5, <1>7, <1>8, <1>9, <1>10

\* The actions on one execution that end in ParkOrElse
LEMMA ParkingTyped ==
    ASSUME TypeOK, NEW w \in Workers,
           \/ \E settlement \in BOOLEAN : Complete(w, settlement) \/ RequireRecovery(w, settlement)
           \/ DeadLetter(w) \/ CancelLease(w)
    PROVE  TypeOK'
<1> DEFINE e == worker[w].exec
<1>1. e \in Executions
  BY OwnsRowLinked DEF Complete, RequireRecovery, DeadLetter, CancelLease, AssertLease
<1>2. execution[e] \in Rows /\ worker[w] \in Invocations
  BY <1>1 DEF TypeOK
<1>3. CompletedRow(execution[e], worker[w].outcome.status) \in Rows
  <2>1. worker[w].outcome.status \in {"succeeded", "failed", "retry"}
    BY <1>2 DEF Invocations, Outcomes
  <2>2. /\ TerminalRow(execution[e], "dead") \in Rows
        /\ TerminalRow(execution[e], "succeeded") \in Rows
        /\ TerminalRow(execution[e], "failed") \in Rows
    BY <1>2, TerminalRowType DEF TerminalStates
  <2>3. RequeuedRow(execution[e]) \in Rows
    BY <1>2, RequeuedRowType
  <2>4. execution[e].attempt \in Nat
    BY <1>2, RowValues
  <2> HIDE DEF e
  <2>5. CASE worker[w].outcome.status = "retry"
    BY <2>2, <2>3, <2>4, <2>5, PolicyAssumption DEF CompletedRow
  <2>6. CASE worker[w].outcome.status \in {"succeeded", "failed"}
    BY <2>2, <2>6 DEF CompletedRow
  <2> QED
    BY <2>1, <2>5, <2>6
<1>4. /\ TerminalRow(execution[e], "dead") \in Rows
      /\ TerminalRow(execution[e], "cancelled") \in Rows
  BY <1>2, TerminalRowType DEF TerminalStates
<1>5. /\ execution' \in [Executions -> Rows]
      /\ effect' \in [Effects -> EffectRows]
      /\ outbox' \in [Executions -> Results \cup {NoResult}]
  BY <1>1, <1>2, <1>3, <1>4, ParkOrElseType DEF Complete, RequireRecovery, DeadLetter, CancelLease
<1>6. obligation' \in [Executions -> [fence : Nat, open : BOOLEAN]]
  BY <1>1, ReleaseType DEF Complete, RequireRecovery, DeadLetter, CancelLease, TypeOK
<1>7. worker' = worker \/ worker' = [worker EXCEPT ![w] = Idle]
  BY DEF Complete, RequireRecovery, DeadLetter, CancelLease, AnswerTo
<1>8. worker' \in [Workers -> Invocations] /\ \A v \in Workers : Linked(worker'[v])
  <2>1. Idle \in Invocations /\ Linked(Idle)
    BY InvocationValues
  <2> QED
    BY <1>7, <2>1, OneWorker DEF TypeOK
<1>9. UNCHANGED <<orders, detached, ledger>>
  BY DEF Complete, RequireRecovery, DeadLetter, CancelLease
<1> QED
  BY <1>5, <1>6, <1>8, <1>9 DEF TypeOK

\* Admission, expiry, cancellation and time
LEMMA RowTyped ==
    ASSUME TypeOK,
           \/ \E e \in Executions : Submit(e) \/ CancelBeforeAccept(e) \/ Cancel(e) \/ ResolveObligation(e)
           \/ Reap \/ Tick
    PROVE  TypeOK'
<1>0. \A e \in Executions : execution[e] \in Rows
  BY DEF TypeOK
<1>1. ASSUME NEW e \in Executions, Submit(e) PROVE TypeOK'
  <2>1. execution' \in [Executions -> Rows]
    BY <1>0, <1>1, RowFields, RowValues DEF Submit, TypeOK
  <2> QED
    BY <1>1, <2>1 DEF Submit, TypeOK
<1>2. ASSUME NEW e \in Executions, CancelBeforeAccept(e) PROVE TypeOK'
  <2> DEFINE row == TerminalRow([Absent EXCEPT !.revision = 1], "cancelled")
  <2>1. Absent \in Rows
    BY PolicyAssumption DEF Absent, Rows, ExecutionStates
  <2>2. row \in Rows
    BY <2>1, RowFields, TerminalRowType DEF TerminalStates
  <2> HIDE DEF row
  <2>3. execution' = [execution EXCEPT ![e] = row]
    BY <1>2 DEF CancelBeforeAccept, row
  <2>4. execution' \in [Executions -> Rows] /\ execution'[e] = row
    BY <2>2, <2>3 DEF TypeOK
  <2>5. outbox' \in [Executions -> Results \cup {NoResult}]
    BY <1>2, <2>2, <2>4, PublishedType DEF CancelBeforeAccept, TypeOK
  <2> QED
    BY <1>2, <2>4, <2>5 DEF CancelBeforeAccept, TypeOK
<1>3. ASSUME NEW e \in Executions, Cancel(e) PROVE TypeOK'
  <2>1. TerminalRow(execution[e], "cancelled") \in Rows
    BY <1>0, TerminalRowType DEF TerminalStates
  <2>2. /\ execution' \in [Executions -> Rows]
        /\ effect' \in [Effects -> EffectRows]
        /\ outbox' \in [Executions -> Results \cup {NoResult}]
    <3>1. CASE ParkOrElse(e, "cancelled", TerminalRow(execution[e], "cancelled"))
      BY <2>1, <3>1, ParkOrElseType
    <3>2. CASE UNCHANGED <<effect, outbox>> /\ Unfinished(e) # {} /\
               execution' = [execution EXCEPT ![e].target = "cancelled", ![e].revision = @ + 1,
                               ![e].pointer = IF @ \in Unfinished(e) THEN @ ELSE First(Unfinished(e))]
      <4>1. First(Unfinished(e)) \in Effects
        BY <3>2, FirstMember DEF Unfinished
      <4>2. (IF execution[e].pointer \in Unfinished(e) THEN execution[e].pointer ELSE First(Unfinished(e)))
               \in Effects \cup {None}
        BY <1>0, <4>1, RowValues
      <4> QED
        BY <1>0, <3>2, <4>2, RowFields, RowValues DEF TypeOK
    <3> QED
      BY <1>3, <3>1, <3>2 DEF Cancel
  <2> QED
    BY <1>3, <2>2 DEF Cancel, TypeOK
<1>4. ASSUME NEW e \in Executions, ResolveObligation(e) PROVE TypeOK'
  <2>1. obligation' \in [Executions -> [fence : Nat, open : BOOLEAN]]
    BY <1>4 DEF ResolveObligation, TypeOK
  <2> QED
    BY <1>4, <2>1 DEF ResolveObligation, TypeOK
<1>5. CASE Reap
  <2>1. /\ effect' \in [Effects -> EffectRows]
        /\ outbox' \in [Executions -> Results \cup {NoResult}]
    BY <1>5, ReapRestType DEF Reap
  <2> QED
    BY <1>5, <2>1, ReapedType DEF Reap, TypeOK
<1>6. CASE Tick
  <2>1. ASSUME NEW e \in Executions
        PROVE  [execution[e] EXCEPT !.ttl = IF @ > -1 THEN @ - 1 ELSE @,
                                    !.wait = IF @ > 0 THEN @ - 1 ELSE @] \in Rows
    <3>1. execution[e].ttl \in -1 .. LeaseTicks /\ execution[e].wait \in 0 .. RetryDelay
      BY <1>0 DEF Rows
    <3>2. /\ (IF execution[e].ttl > -1 THEN execution[e].ttl - 1 ELSE execution[e].ttl) \in -1 .. LeaseTicks
          /\ (IF execution[e].wait > 0 THEN execution[e].wait - 1 ELSE execution[e].wait) \in 0 .. RetryDelay
      BY <3>1, PolicyAssumption
    <3> QED
      BY <1>0, <3>2, RowFields
  <2>2. execution' \in [Executions -> Rows]
    BY <1>6, <2>1 DEF Tick
  <2> QED
    BY <1>6, <2>2 DEF Tick, TypeOK
<1> QED
  BY <1>1, <1>2, <1>3, <1>4, <1>5, <1>6

\* start and renew
LEMMA LeaseTyped ==
    ASSUME TypeOK, NEW w \in Workers, Start(w) \/ Renew(w)
    PROVE  TypeOK'
<1>0. /\ worker[w] \in Invocations /\ Linked(worker[w])
      /\ worker[w].revision + 1 \in Nat
  BY InvocationValues DEF TypeOK
<1>1. execution' \in [Executions -> Rows]
  <2>1. worker[w].exec \in Executions
    BY OwnsRowLinked DEF Start, Renew, AssertLease
  <2>2. execution[worker[w].exec] \in Rows
    BY <2>1 DEF TypeOK
  <2>3. CASE Start(w)
    BY <2>1, <2>2, <2>3, RowFields, RowValues DEF Start, TypeOK
  <2>4. CASE Renew(w)
    BY <2>1, <2>2, <2>4, RowFields, RowValues DEF Renew, TypeOK
  <2> QED
    BY <2>3, <2>4
<1>2. worker' \in [Workers -> Invocations] /\ \A v \in Workers : Linked(worker'[v])
  <2> DEFINE i == [worker[w] EXCEPT !.pc = Started, !.revision = @ + 1]
             j == [worker[w] EXCEPT !.revision = @ + 1]
  <2>1. i \in Invocations /\ j \in Invocations
    BY <1>0, InvocationFields, InvocationValues
  <2>2. i.pc = Started /\ i.exec = worker[w].exec /\ j.pc = worker[w].pc
        /\ j.exec = worker[w].exec /\ j.effect = worker[w].effect
    BY <1>0 DEF Invocations
  <2>3. worker' \in {worker, [worker EXCEPT ![w] = i], [worker EXCEPT ![w] = j]}
    BY DEF Start, Renew
  <2>4. Start(w) \/ Renew(w) => worker[w].pc # "idle"
    BY DEF Start, Renew
  <2> HIDE DEF i, j
  <2>5. Linked(i) /\ Linked(j)
    BY <1>0, <2>2, <2>4, InvocationValues DEF Linked
  <2> QED
    BY <2>1, <2>3, <2>5, OneWorker DEF TypeOK
<1>3. UNCHANGED <<effect, obligation, outbox, orders, detached, ledger>>
  BY DEF Start, Renew
<1> QED
  BY <1>1, <1>2, <1>3 DEF TypeOK

\* prepare_effect
LEMMA PrepareTyped ==
    ASSUME TypeOK, NEW w \in Workers, NEW f \in Effects, PrepareEffect(w, f)
    PROVE  TypeOK'
<1> DEFINE e == worker[w].exec
           i == [worker[w] EXCEPT !.pc = "prepared", !.effect = f]
           j == [worker[w] EXCEPT !.pc = "recover", !.effect = f]
           new == [state |-> "prepared", fence |-> worker[w].fence, claim |-> 0,
                   revision |-> effect[f].revision + 1]
<1>1. /\ worker[w] \in Invocations /\ effect[f] \in EffectRows
      /\ OwnerOf[f] = e /\ e \in Executions /\ execution[e] \in Rows
  BY OwnsRowLinked DEF PrepareEffect, AssertLease, TypeOK
<1>2. i \in Invocations /\ j \in Invocations
  <2>1. {"prepared", "recover"} \subseteq WorkerPcs
    BY DEF WorkerPcs, InHandler, EffectPcs
  <2> QED
    BY <1>1, <2>1, InvocationFields
<1>3. Linked(i) /\ Linked(j)
  BY <1>1 DEF Linked, Invocations
<1>4. new \in EffectRows
  <2>1. worker[w].fence \in Nat /\ effect[f].revision + 1 \in Nat
    BY <1>1, InvocationValues, EffectFields
  <2> QED
    BY <2>1 DEF EffectRows, EffectStates, UnfinishedStates
<1>5. effect' \in [Effects -> EffectRows]
  <2>1. \/ effect' = effect
        \/ effect' = [effect EXCEPT ![f] = new]
        \/ effect' = [g \in Effects |-> IF OwnerOf[g] = e THEN Uncertain(effect[g]) ELSE effect[g]]
    BY DEF PrepareEffect
  <2> HIDE DEF new, e, i, j
  <2>2. effect \in [Effects -> EffectRows]
    BY DEF TypeOK
  <2>3. [effect EXCEPT ![f] = new] \in [Effects -> EffectRows]
    BY <1>4, <2>2
  <2>4. [g \in Effects |-> IF OwnerOf[g] = e THEN Uncertain(effect[g]) ELSE effect[g]] \in [Effects -> EffectRows]
    BY <2>2, UncertainType
  <2> QED
    BY <2>1, <2>2, <2>3, <2>4
<1>6. execution' \in [Executions -> Rows]
  <2>1. CASE execution' = execution
    BY <2>1 DEF TypeOK
  <2>2. CASE f \in Unfinished(e) /\ execution' = [execution EXCEPT ![e] = ParkedRow(e, "queued")]
    <3>1. ParkedRow(e, "queued") \in Rows
      BY <1>1, <2>2, ParkedRowType
    <3> QED
      BY <2>2, <3>1 DEF TypeOK
  <2> QED
    <3> HIDE DEF e
    <3>1. \/ execution' = execution
          \/ /\ effect[f].state \in UnfinishedStates
             /\ execution' = [execution EXCEPT ![e] = ParkedRow(e, "queued")]
      BY DEF PrepareEffect, UnfinishedStates, e
    <3>2. effect[f].state \in UnfinishedStates => f \in Unfinished(e)
      BY <1>1 DEF Unfinished
    <3> QED
      BY <2>1, <2>2, <3>1, <3>2
<1>7. worker' \in {worker, [worker EXCEPT ![w] = i], [worker EXCEPT ![w] = j]}
  BY DEF PrepareEffect
<1> HIDE DEF i, j
<1>8. worker' \in [Workers -> Invocations] /\ \A v \in Workers : Linked(worker'[v])
  BY <1>2, <1>3, <1>7, OneWorker DEF TypeOK
<1>9. UNCHANGED <<obligation, outbox, orders, detached, ledger>>
  BY DEF PrepareEffect
<1> QED
  BY <1>5, <1>6, <1>8, <1>9 DEF TypeOK

\* claim_effect, commit_effect and mark_effect_indeterminate
LEMMA EffectTyped ==
    ASSUME TypeOK, NEW w \in Workers, ClaimEffect(w) \/ CommitEffect(w) \/ MarkIndeterminate(w)
    PROVE  TypeOK'
<1> DEFINE f == worker[w].effect
<1>1. worker[w] \in Invocations /\ Linked(worker[w])
  BY DEF TypeOK
<1>2. worker[w].pc \in {"prepared", "answered", "raised"}
  BY DEF ClaimEffect, CommitEffect, MarkIndeterminate, CanRun
<1>3. f \in Effects /\ OwnerOf[f] = worker[w].exec /\ worker[w].exec \in Executions
  BY <1>1, <1>2 DEF Linked, EffectPcs
<1>4. effect[f] \in EffectRows /\ effect[f].revision + 1 \in Nat
  BY <1>3, EffectFields DEF TypeOK
<1>5. effect' \in [Effects -> EffectRows]
  <2>1. CASE ClaimEffect(w)
    BY <1>3, <1>4, <2>1, EffectFields DEF ClaimEffect, TypeOK
  <2>2. CASE CommitEffect(w)
    BY <1>3, <1>4, <2>2, EffectFields DEF CommitEffect, TypeOK
  <2>3. CASE MarkIndeterminate(w)
    BY <1>3, <1>4, <2>3, EffectFields DEF MarkIndeterminate, TypeOK
  <2> QED
    BY <2>1, <2>2, <2>3
<1>6. worker' \in [Workers -> Invocations] /\ \A v \in Workers : Linked(worker'[v])
  <2> DEFINE i == [worker[w] EXCEPT !.pc = "claimed", !.claim = effect[f].revision + 1]
             j == [worker[w] EXCEPT !.pc = "handling", !.effect = None, !.claim = 0]
             k == [worker[w] EXCEPT !.pc = "recover"]
  <2>1. {"claimed", "handling", "recover"} \subseteq WorkerPcs
    BY DEF WorkerPcs, InHandler, EffectPcs
  <2>2. i \in Invocations /\ j \in Invocations /\ k \in Invocations
    BY <1>1, <1>4, <2>1, InvocationFields
  <2>3. Linked(i) /\ Linked(j) /\ Linked(k)
    BY <1>1, <1>3 DEF Linked, Invocations, EffectPcs
  <2>4. worker' \in {[worker EXCEPT ![w] = i], [worker EXCEPT ![w] = j], [worker EXCEPT ![w] = k]}
    BY DEF ClaimEffect, CommitEffect, MarkIndeterminate
  <2> HIDE DEF i, j, k
  <2> QED
    BY <2>2, <2>3, <2>4, OneWorker
<1>7. ledger' \in [Effects -> [granted : Nat, performed : Nat, waived : Nat]]
  <2>1. ledger' \in {ledger, [ledger EXCEPT ![f].granted = @ + 1]}
    BY DEF ClaimEffect, CommitEffect, MarkIndeterminate
  <2>2. ledger \in [Effects -> [granted : Nat, performed : Nat, waived : Nat]]
    BY DEF TypeOK
  <2> HIDE DEF f
  <2> QED
    BY <1>3, <2>1, <2>2
<1>8. UNCHANGED <<execution, obligation, outbox, orders, detached>>
  BY DEF ClaimEffect, CommitEffect, MarkIndeterminate
<1> QED
  BY <1>5, <1>6, <1>7, <1>8 DEF TypeOK

\* Decisions and calls nobody waits for
LEMMA DecisionTyped ==
    ASSUME TypeOK,
           \/ \E f \in Effects, d \in Decisions : WriteOrder(f, d)
           \/ \E o \in orders : ResolveEffect(o)
           \/ \E f \in Effects : PerformDetached(f)
    PROVE  TypeOK'
<1>1. ASSUME NEW f \in Effects, NEW d \in Decisions, WriteOrder(f, d)
      PROVE  TypeOK'
  <2>1. effect[f].revision \in Nat
    BY DEF TypeOK, EffectRows
  <2>2. orders' \in SUBSET [effect : Effects, revision : Nat, decision : Decisions]
    BY <1>1, <2>1 DEF WriteOrder, TypeOK
  <2> QED
    BY <1>1, <2>2 DEF WriteOrder, TypeOK, store
<1>2. ASSUME NEW f \in Effects, PerformDetached(f)
      PROVE  TypeOK'
  <2>1. detached \in [Effects -> Nat] /\ ledger \in [Effects -> [granted : Nat, performed : Nat, waived : Nat]]
    BY DEF TypeOK
  <2>2. detached' \in [Effects -> Nat]
    BY <1>2, <2>1 DEF PerformDetached
  <2>3. ledger' = [ledger EXCEPT ![f].performed = @ + 1]
    BY <1>2 DEF PerformDetached
  <2>4. ledger' \in [Effects -> [granted : Nat, performed : Nat, waived : Nat]]
    BY <2>1, <2>3
  <2> QED
    BY <1>2, <2>2, <2>4 DEF PerformDetached, TypeOK, store
<1>3. ASSUME NEW o \in orders, ResolveEffect(o)
      PROVE  TypeOK'
  <2> DEFINE f == o.effect
             e == OwnerOf[f]
             remaining == {g \in Effects : OwnerOf[g] = e /\ g # f /\ effect[g].state = "indeterminate"}
             row == DecidedRow(e, remaining)
  <2>1. f \in Effects /\ e \in Executions
    BY EffectsAssumption DEF TypeOK
  <2>2. execution[e] \in Rows /\ effect[f] \in EffectRows
    BY <2>1 DEF TypeOK
  <2>3. row \in Rows
    <3>1. CASE remaining # {}
      <4>1. First(remaining) \in Effects
        BY <3>1, FirstMember
      <4> HIDE DEF remaining
      <4> QED
        BY <2>2, <3>1, <4>1, RowFields, RowValues DEF DecidedRow
    <3>2. CASE remaining = {}
      <4> HIDE DEF remaining
      <4>1. TerminalRow(execution[e], "cancelled") \in Rows
        BY <2>2, TerminalRowType DEF TerminalStates
      <4> QED
        BY <2>2, <3>2, <4>1, RowFields, RowValues DEF DecidedRow
    <3> QED
      BY <3>1, <3>2
  <2>4. /\ effect' = [effect EXCEPT ![f].state = IF o.decision = "applied" THEN "committed" ELSE "not_applied",
                                    ![f].claim = IF o.decision = "applied" THEN @ ELSE 0,
                                    ![f].revision = @ + 1]
        /\ execution' = [execution EXCEPT ![e] = row]
        /\ outbox' = [outbox EXCEPT ![e] = Published(e, row)]
        /\ ledger' \in {ledger, [ledger EXCEPT ![f].waived = @ + 1]}
        /\ UNCHANGED <<obligation, worker, orders, detached>>
    BY <1>3 DEF ResolveEffect
  <2> HIDE DEF row, remaining, e, f
  <2>5. outbox' \in [Executions -> Results \cup {NoResult}]
    BY <2>1, <2>3, <2>4, PublishedType DEF TypeOK
  <2>6. effect' \in [Effects -> EffectRows]
    <3>1. /\ (IF o.decision = "applied" THEN "committed" ELSE "not_applied") \in EffectStates
          /\ (IF o.decision = "applied" THEN effect[f].claim ELSE 0) \in Nat
      BY <2>2, EffectFields DEF EffectStates
    <3> QED
      BY <2>1, <2>2, <2>4, <3>1, EffectFields DEF TypeOK
  <2>7. ledger' \in [Effects -> [granted : Nat, performed : Nat, waived : Nat]]
    <3>1. ledger \in [Effects -> [granted : Nat, performed : Nat, waived : Nat]]
      BY DEF TypeOK
    <3> QED
      BY <2>1, <2>4, <3>1
  <2>8. execution' \in [Executions -> Rows]
    BY <2>3, <2>4 DEF TypeOK
  <2> QED
    BY <2>4, <2>5, <2>6, <2>7, <2>8 DEF TypeOK
<1> QED
  BY <1>1, <1>2, <1>3

-----------------------------------------------------------------------------
\* Every step keeps the types.
LEMMA StepTyped ==
    ASSUME TypeOK, [Next]_vars
    PROVE  TypeOK'
<1>1. ASSUME NEW w \in Workers, WorkerStep(w)
      PROVE  TypeOK'
  <2>1. ASSUME NEW e \in Executions, Claim(w, e) \/ ClaimAndStart(w, e)
        PROVE  TypeOK'
    BY <2>1, ClaimTyped DEF Claim, ClaimAndStart, ActiveStates
  <2>2. Outcomes \ {"succeeded"} \subseteq Outcomes
    OBVIOUS
  <2> QED
    BY <1>1, <2>1, <2>2, HandlerTyped, ParkingTyped, LeaseTyped, PrepareTyped, EffectTyped
    DEF WorkerStep
<1>2. CASE UNCHANGED vars
  BY <1>2 DEF vars, TypeOK
<1> QED
  BY <1>1, <1>2, RowTyped, DecisionTyped DEF Next

\* The rows keep their shape, and a runtime in the middle of an effect keeps
\* working on an effect of the execution it has claimed.
THEOREM TypeCorrect == Spec => []TypeOK
BY InitTyped, StepTyped, PTL DEF Spec

-----------------------------------------------------------------------------
(* Safety.  Sound(e) is what every operation keeps true of the rows of one *)
(* execution; it is inductive, and implies the invariants of the module.   *)

Owned(e) ==
    \A f \in Effects : OwnerOf[f] = e =>
       /\ effect[f].state \in {"prepared", "performing"} =>
             execution[e].state = "running" /\ execution[e].fence = effect[f].fence
       /\ effect[f].state = "indeterminate" => execution[e].state \in {"running", "recovery_required"}

Parked(e) ==
    execution[e].state = "recovery_required" =>
       /\ execution[e].lease = 0
       /\ execution[e].target \in {"queued", "cancelled"}
       /\ execution[e].pointer \in Effects
       /\ OwnerOf[execution[e].pointer] = e
       /\ effect[execution[e].pointer].state = "indeterminate"

Reported(e) ==
    outbox[e] = IF execution[e].state \in TerminalStates THEN execution[e].result ELSE NoResult

\* No clock runs for an execution that ended.
AtRest(e) ==
    execution[e].state \in TerminalStates => execution[e].ttl = -1 /\ execution[e].wait = 0

Sound(e) == Owned(e) /\ Parked(e) /\ Reported(e) /\ AtRest(e)

\* A step that does not concern e
Same(e) ==
    /\ execution'[e] = execution[e]
    /\ outbox'[e] = outbox[e]
    /\ \A f \in Effects : OwnerOf[f] = e => effect'[f] = effect[f]

Kept(e) == \/ Same(e)
           \/ execution[e].state \notin TerminalStates /\ Sound(e)'

LEMMA SameSound == ASSUME NEW e \in Executions, Sound(e), Same(e) PROVE Sound(e)'
<1>1. Owned(e)'
  BY DEF Sound, Owned, Same
<1>2. Parked(e)'
  BY DEF Sound, Parked, Same
<1>3. Reported(e)' /\ AtRest(e)'
  BY DEF Sound, Reported, AtRest, Same
<1> QED
  BY <1>1, <1>2, <1>3 DEF Sound

LEMMA SoundOfEqual == ASSUME NEW c \in Executions, NEW e \in Executions, e = c, Sound(c)' PROVE Sound(e)'
BY DEF Sound, Owned, Parked, Reported, AtRest

\* Parking: every unfinished effect becomes uncertain, and the pointer names one.
LEMMA ParkSound ==
    ASSUME TypeOK, NEW e \in Executions, Sound(e), NEW target \in {"queued", "cancelled"},
           execution[e].state \notin TerminalStates, Unfinished(e) # {},
           execution'[e] = ParkedRow(e, target), outbox'[e] = outbox[e],
           \A f \in Effects : OwnerOf[f] = e => effect'[f] = Uncertain(effect[f])
    PROVE  Sound(e)'
<1>1. execution[e] \in Rows /\ \A f \in Effects : effect[f] \in EffectRows
  BY DEF TypeOK
<1>2. /\ execution'[e].state = "recovery_required" /\ execution'[e].lease = 0
      /\ execution'[e].target = target
      /\ execution'[e].pointer = IF execution[e].pointer \in Unfinished(e)
                                 THEN execution[e].pointer ELSE First(Unfinished(e))
  BY <1>1 DEF ParkedRow, Rows
<1>3. execution'[e].pointer \in Unfinished(e)
  BY <1>2, FirstMember
<1>4. \A f \in Effects : /\ f \in Unfinished(e) => Uncertain(effect[f]).state = "indeterminate"
                         /\ OwnerOf[f] = e /\ f \notin Unfinished(e) => Uncertain(effect[f]) = effect[f]
  BY <1>1 DEF Uncertain, Unfinished, UnfinishedStates, EffectRows
<1>5. Owned(e)'
  BY <1>2, <1>4 DEF Owned, Unfinished, UnfinishedStates
<1>6. Parked(e)'
  BY <1>2, <1>3, <1>4 DEF Parked, Unfinished
<1>7. Reported(e)' /\ AtRest(e)'
  BY <1>2 DEF Reported, AtRest, TerminalStates, Sound
<1> QED
  BY <1>5, <1>6, <1>7 DEF Sound

\* With no effect unfinished any state but recovery_required is sound, provided
\* a verdict is published with it.
LEMMA SettledSound ==
    ASSUME NEW e \in Executions,
           \A f \in Effects : OwnerOf[f] = e => effect'[f].state \notin UnfinishedStates,
           execution'[e].state # "recovery_required",
           outbox'[e] = IF execution'[e].state \in TerminalStates THEN execution'[e].result ELSE NoResult,
           execution'[e].state \in TerminalStates => execution'[e].ttl = -1 /\ execution'[e].wait = 0
    PROVE  Sound(e)'
BY DEF Sound, Owned, Parked, Reported, AtRest, UnfinishedStates

LEMMA TerminalRowValues ==
    ASSUME NEW row \in Rows, NEW status \in TerminalStates
    PROVE  /\ TerminalRow(row, status).state = status
           /\ TerminalRow(row, status).ttl = -1 /\ TerminalRow(row, status).wait = 0
BY DEF TerminalRow, Rows

LEMMA RequeuedRowValues ==
    ASSUME NEW row \in Rows
    PROVE  RequeuedRow(row).state = "queued"
BY DEF RequeuedRow, Rows

\* What complete, dead_letter, cancel and require_effect_recovery end with
LEMMA ParkOrElseSound ==
    ASSUME TypeOK, NEW e \in Executions, Sound(e), NEW target \in {"queued", "cancelled"}, NEW row \in Rows,
           execution[e].state \notin TerminalStates, ParkOrElse(e, target, row),
           row.state # "recovery_required",
           row.state \in TerminalStates => row.ttl = -1 /\ row.wait = 0
    PROVE  Sound(e)' /\ \A d \in Executions : d # e => Same(d)
<1>1. CASE Unfinished(e) # {}
  <2>1. /\ execution' = [execution EXCEPT ![e] = ParkedRow(e, target)]
        /\ effect' = [f \in Effects |-> IF f \in Unfinished(e) THEN Uncertain(effect[f]) ELSE effect[f]]
        /\ outbox' = outbox
    BY <1>1 DEF ParkOrElse
  <2>2. execution'[e] = ParkedRow(e, target) /\ \A d \in Executions : d # e => execution'[d] = execution[d]
    BY <2>1 DEF TypeOK
  <2>3. \A f \in Effects : OwnerOf[f] = e => effect'[f] = Uncertain(effect[f])
    BY <2>1 DEF Unfinished, Uncertain, UnfinishedStates
  <2>4. \A d \in Executions : d # e => Same(d)
    BY <2>1, <2>2 DEF Same, Unfinished
  <2> QED
    BY <1>1, <2>1, <2>2, <2>3, <2>4, ParkSound
<1>2. CASE Unfinished(e) = {}
  <2>1. /\ execution' = [execution EXCEPT ![e] = row]
        /\ outbox' = [outbox EXCEPT ![e] = Published(e, row)]
        /\ effect' = effect
    BY <1>2 DEF ParkOrElse
  <2>2. execution'[e] = row /\ \A d \in Executions : d # e => execution'[d] = execution[d]
    BY <2>1 DEF TypeOK
  <2>3. outbox'[e] = Published(e, row) /\ \A d \in Executions : d # e => outbox'[d] = outbox[d]
    BY <2>1 DEF TypeOK
  <2>4. outbox[e] = NoResult
    BY DEF Sound, Reported
  <2>5. \A f \in Effects : OwnerOf[f] = e => effect'[f].state \notin UnfinishedStates
    BY <1>2, <2>1 DEF Unfinished
  <2>6. Sound(e)'
    BY <2>2, <2>3, <2>4, <2>5, SettledSound DEF Published
  <2> QED
    BY <2>1, <2>2, <2>3, <2>6 DEF Same
<1> QED
  BY <1>1, <1>2

\* The expiry sweep
LEMMA ReapSound ==
    ASSUME TypeOK, \A d \in Executions : Sound(d), ReapRest, NEW e \in Executions,
           execution'[e] = ReapedRow(e)
    PROVE  Kept(e)
<1>1. execution[e] \in Rows /\ Sound(e)
  BY DEF TypeOK
<1>2. CASE ~Expired(e)
  <2>1. execution'[e] = execution[e]
    BY <1>2 DEF ReapedRow
  <2>2. outbox'[e] = outbox[e]
    BY <1>2 DEF ReapRest
  <2>3. \A f \in Effects : OwnerOf[f] = e => effect'[f] = effect[f]
    BY <1>2 DEF ReapRest
  <2>4. Same(e)
    BY <2>1, <2>2, <2>3 DEF Same
  <2> QED
    BY <2>4 DEF Kept
<1>3. CASE Expired(e)
  <2>1. execution[e].state \notin TerminalStates
    BY <1>3 DEF Expired, ActiveStates, TerminalStates
  <2>2. \A f \in Effects : OwnerOf[f] = e => effect'[f] = Uncertain(effect[f])
    BY <1>3 DEF ReapRest
  <2>3. outbox'[e] = Published(e, ReapedRow(e)) /\ outbox[e] = NoResult
    BY <1>1, <1>3, <2>1 DEF ReapRest, Sound, Reported
  <2>4. CASE Unfinished(e) # {}
    <3>1. ReapedRow(e) = ParkedRow(e, "queued")
      BY <1>3, <2>4 DEF ReapedRow
    <3>2. ParkedRow(e, "queued").state = "recovery_required"
      BY <1>1 DEF ParkedRow, Rows
    <3>3. outbox'[e] = outbox[e]
      BY <2>3, <3>1, <3>2 DEF Published, TerminalStates
    <3> QED
      BY <1>1, <2>1, <2>2, <2>4, <3>1, <3>3, ParkSound DEF Kept
  <2>5. CASE Unfinished(e) = {}
    <3>1. \A f \in Effects : OwnerOf[f] = e => effect'[f].state \notin UnfinishedStates
      BY <2>2, <2>5 DEF Unfinished, Uncertain, UnfinishedStates
    <3>2. ReapedRow(e) \in {TerminalRow(execution[e], "dead"), RequeuedRow(execution[e])}
      BY <1>3, <2>5 DEF ReapedRow
    <3>3. /\ ReapedRow(e).state \in {"dead", "queued"}
          /\ ReapedRow(e).state = "dead" => ReapedRow(e).ttl = -1 /\ ReapedRow(e).wait = 0
      BY <1>1, <3>2, TerminalRowValues, RequeuedRowValues DEF TerminalStates
    <3>4. outbox'[e] = IF execution'[e].state \in TerminalStates THEN execution'[e].result ELSE NoResult
      BY <2>3 DEF Published
    <3>5. execution'[e].state # "recovery_required"
      BY <3>3
    <3>6. execution'[e].state \in TerminalStates => execution'[e].ttl = -1 /\ execution'[e].wait = 0
      BY <3>3 DEF TerminalStates
    <3>7. Sound(e)'
      BY <3>1, <3>4, <3>5, <3>6, SettledSound
    <3> QED
      BY <2>1, <3>7 DEF Kept
  <2> QED
    BY <2>4, <2>5
<1> QED
  BY <1>2, <1>3

\* claim and claim_and_start hand out a queued row, which has no unfinished effect.
LEMMA ClaimSound ==
    ASSUME TypeOK, \A d \in Executions : Sound(d), NEW w \in Workers, NEW c \in Executions,
           NEW state \in ActiveStates, NEW steps, NEW pc, ClaimAs(w, c, state, steps, pc),
           NEW e \in Executions
    PROVE  Kept(e)
<1>1. Reaped \in [Executions -> Rows] /\ Reaped[e] = ReapedRow(e)
  BY ReapedType DEF Reaped
<1>2. ReapRest /\ Reaped[c].state = "queued" /\ execution' = [Reaped EXCEPT ![c] = ClaimedRow(w, Reaped[c], state, steps)]
  BY DEF ClaimAs, Claimable
<1>3. CASE e # c
  <2>1. execution'[e] = ReapedRow(e)
    BY <1>1, <1>2, <1>3
  <2> QED
    BY <1>2, <2>1, ReapSound
<1>4. CASE e = c
  <2>1. execution[e] \in Rows /\ Sound(e)
    BY DEF TypeOK
  <2>2. execution'[e].state = state
    BY <1>1, <1>2, <1>4 DEF ClaimedRow, Rows
  <2>3. Unfinished(e) = {} /\ execution[e].state \notin TerminalStates
    <3>1. CASE Expired(e)
      <4>1. Unfinished(e) # {} => ReapedRow(e).state = "recovery_required"
        BY <2>1, <3>1 DEF ReapedRow, ParkedRow, Rows
      <4> QED
        BY <1>1, <1>2, <1>4, <3>1, <4>1 DEF Expired, ActiveStates, TerminalStates
    <3>2. CASE ~Expired(e)
      <4>1. execution[e].state = "queued"
        BY <1>1, <1>2, <1>4, <3>2 DEF ReapedRow
      <4> QED
        BY <2>1, <4>1 DEF Sound, Owned, Unfinished, UnfinishedStates, TerminalStates
    <3> QED
      BY <3>1, <3>2
  <2>4. \A f \in Effects : OwnerOf[f] = e => effect'[f].state \notin UnfinishedStates
    BY <1>2, <2>3 DEF ReapRest, Unfinished, Uncertain, UnfinishedStates
  <2>5. outbox'[e] = NoResult
    <3>1. outbox[e] = NoResult
      BY <2>1, <2>3 DEF Sound, Reported
    <3>2. ReapedRow(e).state \notin TerminalStates
      BY <1>1, <1>2, <1>4 DEF TerminalStates
    <3> QED
      BY <1>2, <3>1, <3>2 DEF ReapRest, Published
  <2>6. state \notin TerminalStates \cup {"recovery_required"}
    BY DEF ActiveStates, TerminalStates
  <2> QED
    BY <2>2, <2>3, <2>4, <2>5, <2>6, SettledSound DEF Kept
<1> QED
  BY <1>3, <1>4

\* Steps of the holder of a lease that end the invocation, and external cancels
LEMMA ParkingSound ==
    ASSUME TypeOK, \A d \in Executions : Sound(d), NEW e \in Executions,
           \/ \E w \in Workers : \/ \E settlement \in BOOLEAN : Complete(w, settlement) \/ RequireRecovery(w, settlement)
                                 \/ DeadLetter(w) \/ CancelLease(w)
           \/ \E c \in Executions : Cancel(c)
    PROVE  Kept(e)
<1> DEFINE Ends(c, row) ==
           /\ row.state # "recovery_required"
           /\ row.state \in TerminalStates => row.ttl = -1 /\ row.wait = 0
<1>1. ASSUME NEW c \in Executions, NEW target \in {"queued", "cancelled"}, NEW row \in Rows,
             execution[c].state \notin TerminalStates, ParkOrElse(c, target, row), Ends(c, row)
      PROVE  Kept(e)
  <2>1. Sound(c)' /\ \A d \in Executions : d # c => Same(d)
    BY <1>1, ParkOrElseSound DEF Ends
  <2>2. CASE e = c
    <3>1. Sound(e)'
      BY <2>1, <2>2, SoundOfEqual
    <3> QED
      BY <1>1, <2>2, <3>1 DEF Kept
  <2> QED
    BY <2>1, <2>2 DEF Kept
<1>2. \A c \in Executions, status \in TerminalStates :
         TerminalRow(execution[c], status) \in Rows /\ Ends(c, TerminalRow(execution[c], status))
  BY TerminalRowType, TerminalRowValues DEF TypeOK, TerminalStates
<1>3. \A c \in Executions :
         RequeuedRow(execution[c]) \in Rows /\ Ends(c, RequeuedRow(execution[c]))
  BY RequeuedRowType, RequeuedRowValues DEF TypeOK, TerminalStates
<1>4. ActiveStates \cap TerminalStates = {} /\ "running" \in ActiveStates
  BY DEF ActiveStates, TerminalStates
<1>5. {"dead", "cancelled", "succeeded", "failed"} = TerminalStates
  BY DEF TerminalStates
<1> HIDE DEF Ends
<1>6. ASSUME NEW w \in Workers, NEW settlement \in BOOLEAN, Complete(w, settlement)
      PROVE  Kept(e)
  <2> DEFINE c == worker[w].exec
             row == CompletedRow(execution[c], worker[w].outcome.status)
  <2>1. c \in Executions /\ execution[c].state \in {"running"}
    BY <1>6, OwnsRowLinked DEF Complete, AssertLease, OwnsRow
  <2>2. worker[w].outcome.status \in {"succeeded", "failed", "retry"}
    BY DEF TypeOK, Invocations, Outcomes
  <2>3. execution[c].attempt \in Nat
    BY <2>1, RowValues DEF TypeOK
  <2>4. row \in {TerminalRow(execution[c], "dead"), TerminalRow(execution[c], "succeeded"),
                 TerminalRow(execution[c], "failed"), RequeuedRow(execution[c])}
    <3> HIDE DEF c
    <3>1. CASE worker[w].outcome.status = "retry"
      BY <2>3, <3>1, PolicyAssumption DEF CompletedRow
    <3>2. CASE worker[w].outcome.status \in {"succeeded", "failed"}
      BY <3>2 DEF CompletedRow
    <3> QED
      BY <2>2, <3>1, <3>2
  <2>5. ParkOrElse(c, "queued", row)
    BY <1>6 DEF Complete
  <2> HIDE DEF row, c
  <2>6. row \in Rows /\ Ends(c, row)
    BY <1>2, <1>3, <1>5, <2>1, <2>4
  <2> QED
    BY <1>1, <1>4, <2>1, <2>5, <2>6
<1>7. ASSUME NEW w \in Workers, NEW settlement \in BOOLEAN, RequireRecovery(w, settlement)
      PROVE  Kept(e)
  <2> DEFINE c == worker[w].exec
  <2>1. /\ c \in Executions /\ execution[c].state \in {"running"}
        /\ ParkOrElse(c, "queued", execution[c])
    BY <1>7, OwnsRowLinked DEF RequireRecovery, AssertLease, OwnsRow
  <2>2. execution[c] \in Rows
    BY <2>1 DEF TypeOK
  <2>3. Ends(c, execution[c])
    BY <2>1 DEF Ends, TerminalStates
  <2> HIDE DEF c
  <2> QED
    BY <1>1, <1>4, <2>1, <2>2, <2>3
<1>8. ASSUME NEW w \in Workers, DeadLetter(w) \/ CancelLease(w)
      PROVE  Kept(e)
  <2> DEFINE c == worker[w].exec
  <2>1. c \in Executions /\ execution[c].state \in ActiveStates
    BY <1>8, OwnsRowLinked DEF DeadLetter, CancelLease, AssertLease, OwnsRow
  <2>2. \/ ParkOrElse(c, "queued", TerminalRow(execution[c], "dead"))
        \/ ParkOrElse(c, "cancelled", TerminalRow(execution[c], "cancelled"))
    BY <1>8 DEF DeadLetter, CancelLease
  <2> HIDE DEF c
  <2> QED
    BY <1>1, <1>2, <1>4, <1>5, <2>1, <2>2
<1>9. ASSUME NEW c \in Executions, Cancel(c)
      PROVE  Kept(e)
  <2>1. CASE /\ execution[c].state \in {"queued"} \cup ActiveStates
             /\ ParkOrElse(c, "cancelled", TerminalRow(execution[c], "cancelled"))
    <3>1. execution[c].state \notin TerminalStates
      BY <2>1 DEF ActiveStates, TerminalStates
    <3> QED
      BY <1>1, <1>2, <1>5, <2>1, <3>1
  <2>2. CASE /\ execution[c].state = "recovery_required" /\ Unfinished(c) # {}
             /\ execution' = [execution EXCEPT ![c].target = "cancelled", ![c].revision = @ + 1,
                   ![c].pointer = IF @ \in Unfinished(c) THEN @ ELSE First(Unfinished(c))]
             /\ UNCHANGED <<effect, outbox>>
    <3>1. CASE e # c
      <4>1. execution'[e] = execution[e]
        BY <2>2, <3>1 DEF TypeOK
      <4>2. Same(e)
        BY <2>2, <4>1 DEF Same
      <4> QED
        BY <4>2 DEF Kept
    <3>2. CASE e = c
      <4>1. execution[e] \in Rows /\ Sound(e)
        BY DEF TypeOK
      <4>2. /\ execution'[e].state = "recovery_required" /\ execution'[e].lease = execution[e].lease
            /\ execution'[e].target = "cancelled"
            /\ execution'[e].pointer = IF execution[e].pointer \in Unfinished(e)
                                       THEN execution[e].pointer ELSE First(Unfinished(e))
        BY <2>2, <3>2, <4>1 DEF TypeOK, Rows
      <4>3. execution'[e].pointer \in Unfinished(e)
        BY <2>2, <3>2, <4>2, FirstMember
      <4>4. Owned(e)'
        BY <2>2, <3>2, <4>1, <4>2 DEF Sound, Owned
      <4>5. Parked(e)'
        BY <2>2, <3>2, <4>1, <4>2, <4>3 DEF Sound, Owned, Parked, Unfinished, UnfinishedStates
      <4>6. Reported(e)' /\ AtRest(e)' /\ execution[e].state \notin TerminalStates
        BY <2>2, <3>2, <4>1, <4>2 DEF Sound, Reported, AtRest, TerminalStates
      <4> QED
        BY <4>4, <4>5, <4>6 DEF Kept, Sound
    <3> QED
      BY <3>1, <3>2
  <2> QED
    BY <1>9, <2>1, <2>2 DEF Cancel
<1> QED
  BY <1>6, <1>7, <1>8, <1>9

\* A row that keeps its state, or starts
LEMMA ProgressSound ==
    ASSUME TypeOK, NEW e \in Executions, Sound(e),
           execution[e].state \notin TerminalStates,
           \/ execution'[e].state = execution[e].state
           \/ execution[e].state = "leased" /\ execution'[e].state = "running",
           execution'[e].fence = execution[e].fence, execution'[e].pointer = execution[e].pointer,
           execution'[e].lease = execution[e].lease, execution'[e].target = execution[e].target,
           outbox' = outbox, effect' = effect
    PROVE  Sound(e)'
<1>1. execution'[e].state \notin TerminalStates
  BY DEF TerminalStates
<1>2. Owned(e)'
  BY DEF Sound, Owned
<1>3. Parked(e)'
  BY DEF Sound, Parked
<1>4. Reported(e)' /\ AtRest(e)'
  BY <1>1 DEF Sound, Reported, AtRest
<1> QED
  BY <1>2, <1>3, <1>4 DEF Sound

LEMMA RowSound ==
    ASSUME TypeOK, \A d \in Executions : Sound(d), NEW e \in Executions,
           \/ \E w \in Workers : Start(w) \/ Renew(w)
           \/ \E c \in Executions : Submit(c) \/ CancelBeforeAccept(c)
           \/ Reap \/ Tick
    PROVE  Kept(e)
<1>0. execution[e] \in Rows /\ Sound(e)
  BY DEF TypeOK
<1>1. ASSUME NEW w \in Workers, Start(w) \/ Renew(w)
      PROVE  Kept(e)
  <2> DEFINE c == worker[w].exec
  <2>1. /\ c \in Executions /\ effect' = effect /\ outbox' = outbox
        /\ Start(w) => execution[c].state \in {"leased"}
        /\ Renew(w) => execution[c].state \in ActiveStates
    BY <1>1, OwnsRowLinked DEF Start, Renew, AssertLease, OwnsRow
  <2>2. CASE e # c
    <3>1. execution'[e] = execution[e]
      BY <1>1, <2>1, <2>2 DEF Start, Renew, TypeOK
    <3>2. Same(e)
      BY <2>1, <3>1 DEF Same
    <3> QED
      BY <3>2 DEF Kept
  <2>3. CASE e = c
    <3>1. execution[e].state \notin TerminalStates
      BY <1>1, <2>1, <2>3 DEF ActiveStates, TerminalStates
    <3>2. /\ \/ execution'[e].state = execution[e].state
             \/ execution[e].state = "leased" /\ execution'[e].state = "running"
          /\ execution'[e].fence = execution[e].fence /\ execution'[e].pointer = execution[e].pointer
          /\ execution'[e].lease = execution[e].lease /\ execution'[e].target = execution[e].target
      <4>1. CASE Start(w)
        <5>1. execution'[e] = [execution[e] EXCEPT !.state = "running", !.revision = @ + 1]
          BY <2>1, <2>3, <4>1 DEF Start, TypeOK
        <5> QED
          BY <1>0, <2>1, <2>3, <4>1, <5>1 DEF Rows
      <4>2. CASE Renew(w)
        <5>1. execution'[e] = [execution[e] EXCEPT !.ttl = LeaseTicks, !.revision = @ + 1]
          BY <2>1, <2>3, <4>2 DEF Renew, TypeOK
        <5> QED
          BY <1>0, <5>1 DEF Rows
      <4> QED
        BY <1>1, <4>1, <4>2
    <3>3. Sound(e)'
      BY <1>0, <1>1, <2>1, <2>3, <3>1, <3>2, ProgressSound
    <3> QED
      BY <3>1, <3>3 DEF Kept
  <2> QED
    BY <2>2, <2>3
<1>2. ASSUME NEW c \in Executions, Submit(c) \/ CancelBeforeAccept(c)
      PROVE  Kept(e)
  <2>1. effect' = effect /\ \A d \in Executions : d # c => execution'[d] = execution[d] /\ outbox'[d] = outbox[d]
    BY <1>2 DEF Submit, CancelBeforeAccept, TypeOK
  <2>2. CASE e # c
    <3>1. Same(e)
      BY <2>1, <2>2 DEF Same
    <3> QED
      BY <3>1 DEF Kept
  <2>3. CASE e = c
    <3>1. execution[e].state = "absent" /\ execution[e].state \notin TerminalStates /\ outbox[e] = NoResult
      BY <1>0, <1>2, <2>3 DEF Submit, CancelBeforeAccept, Sound, Reported, TerminalStates
    <3>2. \A f \in Effects : OwnerOf[f] = e => effect'[f].state \notin UnfinishedStates
      BY <1>0, <2>1, <3>1 DEF Sound, Owned, UnfinishedStates
    <3>3. CASE Submit(c)
      <4>1. execution'[e].state = "queued" /\ outbox'[e] = NoResult
        BY <1>0, <2>3, <3>1, <3>3 DEF Submit, TypeOK, Rows
      <4> QED
        BY <3>1, <3>2, <4>1, SettledSound DEF Kept, TerminalStates
    <3>4. CASE CancelBeforeAccept(c)
      <4> DEFINE row == TerminalRow([Absent EXCEPT !.revision = 1], "cancelled")
      <4>1. [Absent EXCEPT !.revision = 1] \in Rows
        <5>1. Absent \in Rows
          BY PolicyAssumption DEF Absent, Rows, ExecutionStates
        <5> QED
          BY <5>1, RowFields
      <4>2. row.state = "cancelled" /\ row.ttl = -1 /\ row.wait = 0
        BY <4>1, TerminalRowValues DEF TerminalStates
      <4> HIDE DEF row
      <4>3. execution'[e] = row
        BY <2>3, <3>4 DEF CancelBeforeAccept, TypeOK, row
      <4>4. outbox'[e] = row.result
        BY <2>3, <3>4, <4>2, <4>3 DEF CancelBeforeAccept, TypeOK, Published, TerminalStates
      <4> QED
        BY <3>1, <3>2, <4>2, <4>3, <4>4, SettledSound DEF Kept, TerminalStates
    <3> QED
      BY <1>2, <3>3, <3>4
  <2> QED
    BY <2>2, <2>3
<1>3. CASE Reap
  BY <1>3, ReapSound DEF Reap, Reaped
<1>4. CASE Tick
  <2> DEFINE row == [execution[e] EXCEPT !.ttl = IF @ > -1 THEN @ - 1 ELSE @,
                                         !.wait = IF @ > 0 THEN @ - 1 ELSE @]
  <2>1. execution'[e] = row /\ effect' = effect /\ outbox' = outbox
    BY <1>4 DEF Tick
  <2>2. CASE execution[e].state \in TerminalStates
    <3>1. execution[e].ttl = -1 /\ execution[e].wait = 0
      BY <1>0, <2>2 DEF Sound, AtRest
    <3>2. row = execution[e]
      <4>1. [execution[e] EXCEPT !.ttl = execution[e].ttl, !.wait = execution[e].wait] = execution[e]
        BY <1>0, Zenon DEF Rows
      <4> QED
        BY <3>1, <4>1
    <3>3. Same(e)
      BY <2>1, <3>2 DEF Same
    <3> QED
      BY <3>3 DEF Kept
  <2>3. CASE execution[e].state \notin TerminalStates
    <3>1. /\ row.state = execution[e].state /\ row.fence = execution[e].fence
          /\ row.pointer = execution[e].pointer
          /\ row.lease = execution[e].lease /\ row.target = execution[e].target
      BY <1>0 DEF Rows
    <3> HIDE DEF row
    <3>2. Sound(e)'
      BY <1>0, <2>1, <2>3, <3>1, ProgressSound
    <3> QED
      BY <2>3, <3>2 DEF Kept
  <2> QED
    BY <2>2, <2>3
<1> QED
  BY <1>1, <1>2, <1>3, <1>4

\* execute_once: prepare, claim, commit, mark
LEMMA EffectSound ==
    ASSUME TypeOK, \A d \in Executions : Sound(d), NEW e \in Executions, NEW w \in Workers,
           \/ \E f \in Effects : PrepareEffect(w, f)
           \/ ClaimEffect(w) \/ CommitEffect(w) \/ MarkIndeterminate(w)
    PROVE  Kept(e)
<1> DEFINE c == worker[w].exec
<1>0. execution[e] \in Rows /\ Sound(e) /\ \A f \in Effects : effect[f] \in EffectRows
  BY DEF TypeOK
\* The effect of a running execution moves on under its fence.
<1>1. ASSUME NEW f \in Effects, NEW rec, OwnerOf[f] = c,
             execution[c].state = "running", execution' = execution, outbox' = outbox,
             effect' = [effect EXCEPT ![f] = rec],
             rec.state \in {"prepared", "performing"} => rec.fence = execution[c].fence
      PROVE  Kept(e)
  <2>1. /\ effect'[f] = rec
        /\ \A g \in Effects : g # f => effect'[g] = effect[g]
    BY <1>1 DEF TypeOK
  <2>2. CASE e # c
    <3>1. Same(e)
      BY <1>1, <2>1, <2>2 DEF Same
    <3> QED
      BY <3>1 DEF Kept
  <2>3. CASE e = c
    <3> HIDE DEF c
    <3>1. execution[e].state = "running" /\ execution[e].state \notin TerminalStates
      BY <1>1, <2>3 DEF TerminalStates
    <3>2. Owned(e)'
      BY <1>0, <1>1, <2>1, <2>3, <3>1 DEF Sound, Owned
    <3>3. Parked(e)' /\ Reported(e)' /\ AtRest(e)'
      BY <1>0, <1>1, <3>1 DEF Sound, Parked, Reported, AtRest, TerminalStates
    <3> QED
      BY <3>1, <3>2, <3>3 DEF Sound, Kept
  <2> QED
    BY <2>2, <2>3
<1>2. ASSUME NEW f \in Effects, PrepareEffect(w, f)
      PROVE  Kept(e)
  <2> DEFINE new == [state |-> "prepared", fence |-> worker[w].fence, claim |-> 0,
                     revision |-> effect[f].revision + 1]
  <2>1. /\ OwnerOf[f] = c /\ execution[c].state \in {"running"} /\ c \in Executions
        /\ execution[c].fence = worker[w].fence /\ outbox' = outbox
    BY <1>2, OwnsRowLinked DEF PrepareEffect, AssertLease, OwnsRow
  <2>2. new.state = "prepared" /\ new.fence = worker[w].fence
    OBVIOUS
  <2>3. \/ UNCHANGED <<execution, effect>>
        \/ execution' = execution /\ effect' = [effect EXCEPT ![f] = new]
        \/ /\ effect[f].state \in UnfinishedStates
           /\ execution' = [execution EXCEPT ![c] = ParkedRow(c, "queued")]
           /\ effect' = [g \in Effects |-> IF OwnerOf[g] = c THEN Uncertain(effect[g]) ELSE effect[g]]
    BY <1>2 DEF PrepareEffect, UnfinishedStates
  <2> HIDE DEF new, c
  <2>4. CASE UNCHANGED <<execution, effect>>
    BY <2>1, <2>4 DEF Kept, Same
  <2>5. CASE execution' = execution /\ effect' = [effect EXCEPT ![f] = new]
    BY <1>1, <2>1, <2>2, <2>5 DEF c
  <2>6. CASE /\ effect[f].state \in UnfinishedStates
             /\ execution' = [execution EXCEPT ![c] = ParkedRow(c, "queued")]
             /\ effect' = [g \in Effects |-> IF OwnerOf[g] = c THEN Uncertain(effect[g]) ELSE effect[g]]
    <3>1. CASE e # c
      <4>1. execution'[e] = execution[e]
        BY <2>6, <3>1 DEF TypeOK
      <4>2. Same(e)
        BY <2>1, <2>6, <3>1, <4>1 DEF Same
      <4> QED
        BY <4>2 DEF Kept
    <3>2. CASE e = c
      <4>1. Unfinished(e) # {}
        BY <2>1, <2>6, <3>2 DEF Unfinished
      <4>2. execution'[e] = ParkedRow(e, "queued")
        BY <2>6, <3>2 DEF TypeOK
      <4>3. execution[e].state \notin TerminalStates
        BY <2>1, <3>2 DEF TerminalStates
      <4>4. \A g \in Effects : OwnerOf[g] = e => effect'[g] = Uncertain(effect[g])
        BY <2>6, <3>2
      <4>5. Sound(e)'
        BY <1>0, <2>1, <4>1, <4>2, <4>3, <4>4, ParkSound
      <4> QED
        BY <4>3, <4>5 DEF Kept
    <3> QED
      BY <3>1, <3>2
  <2> QED
    BY <2>3, <2>4, <2>5, <2>6
<1>3. CASE ClaimEffect(w) \/ CommitEffect(w) \/ MarkIndeterminate(w)
  <2> DEFINE f == worker[w].effect
             claimed == [effect[f] EXCEPT !.state = "performing", !.revision = @ + 1,
                                          !.claim = effect[f].revision + 1]
             committed == [effect[f] EXCEPT !.state = "committed", !.revision = @ + 1]
             marked == [effect[f] EXCEPT !.state = "indeterminate", !.revision = @ + 1]
  <2>1. f \in Effects /\ OwnerOf[f] = c
    BY <1>3 DEF ClaimEffect, CommitEffect, MarkIndeterminate, CanRun, TypeOK, Linked, EffectPcs
  <2>2. /\ execution[c].state \in {"running"} /\ execution[c].fence = worker[w].fence
        /\ effect[f].fence = worker[w].fence
        /\ execution' = execution /\ outbox' = outbox
    BY <1>3 DEF ClaimEffect, CommitEffect, MarkIndeterminate, HoldsClaim, AssertLease, OwnsRow, MatchesLease
  <2>3. effect' \in {[effect EXCEPT ![f] = claimed], [effect EXCEPT ![f] = committed],
                     [effect EXCEPT ![f] = marked]}
    BY <1>3 DEF ClaimEffect, CommitEffect, MarkIndeterminate
  <2>4. /\ claimed.fence = effect[f].fence
        /\ committed.state = "committed" /\ marked.state = "indeterminate"
    BY <1>0, <2>1 DEF EffectRows
  <2> HIDE DEF claimed, committed, marked, f
  <2> QED
    BY <1>1, <2>1, <2>2, <2>3, <2>4
<1> QED
  BY <1>2, <1>3

\* resolve_effect: the pointer moves to an effect that is still uncertain, or
\* none is left.
LEMMA ResolveSound ==
    ASSUME TypeOK, \A d \in Executions : Sound(d), NEW e \in Executions,
           NEW o \in orders, ResolveEffect(o)
    PROVE  Kept(e)
<1> DEFINE f == o.effect
           c == OwnerOf[f]
           remaining == {g \in Effects : OwnerOf[g] = c /\ g # f /\ effect[g].state = "indeterminate"}
           row == DecidedRow(c, remaining)
<1>1. f \in Effects /\ c \in Executions
  BY EffectsAssumption DEF TypeOK
<1>2. execution[e] \in Rows /\ Sound(e) /\ effect[f] \in EffectRows
  BY <1>1 DEF TypeOK
<1>3. /\ execution[c].state = "recovery_required"
      /\ execution' = [execution EXCEPT ![c] = row]
      /\ outbox' = [outbox EXCEPT ![c] = Published(c, row)]
      /\ effect' = [effect EXCEPT ![f].state = IF o.decision = "applied" THEN "committed" ELSE "not_applied",
                                  ![f].claim = IF o.decision = "applied" THEN @ ELSE 0,
                                  ![f].revision = @ + 1]
  BY DEF ResolveEffect
<1>4. effect'[f].state \in {"committed", "not_applied"} /\ \A g \in Effects : g # f => effect'[g] = effect[g]
  <2>1. CASE o.decision = "applied"
    BY <1>1, <1>2, <1>3, <2>1 DEF TypeOK, EffectRows
  <2>2. CASE o.decision # "applied"
    BY <1>1, <1>2, <1>3, <2>2 DEF TypeOK, EffectRows
  <2> QED
    BY <2>1, <2>2
<1>5. CASE e # c
  <2> HIDE DEF row, remaining
  <2>1. execution'[e] = execution[e] /\ outbox'[e] = outbox[e]
    BY <1>1, <1>3, <1>5 DEF TypeOK
  <2>2. Same(e)
    BY <1>4, <1>5, <2>1 DEF Same
  <2> QED
    BY <2>2 DEF Kept
<1>6. CASE e = c
  <2>1. /\ execution[e].state \notin TerminalStates /\ outbox[e] = NoResult /\ execution[e].lease = 0
        /\ execution[e].target \in {"queued", "cancelled"}
    BY <1>2, <1>3, <1>6 DEF Sound, Parked, Reported, TerminalStates
  <2>2. execution'[e] = row /\ outbox'[e] = Published(e, row)
    <3> HIDE DEF row
    <3> QED
      BY <1>3, <1>6 DEF TypeOK
  \* No effect of a parked execution is prepared or performing.
  <2>3. \A g \in Effects : OwnerOf[g] = e /\ g # f /\ g \notin remaining => effect'[g].state \notin UnfinishedStates
    BY <1>2, <1>3, <1>4, <1>6 DEF Sound, Owned, UnfinishedStates
  <2>4. CASE remaining # {}
    <3>1. First(remaining) \in remaining
      BY <2>4, FirstMember
    <3>2. /\ row.state = "recovery_required" /\ row.lease = 0
          /\ row.target = execution[e].target /\ row.pointer = First(remaining)
      <4> HIDE DEF remaining
      <4>1. row = [execution[e] EXCEPT !.pointer = First(remaining), !.revision = @ + 1]
        BY <1>6, <2>4 DEF DecidedRow
      <4> QED
        BY <1>2, <1>3, <1>6, <2>1, <4>1 DEF Rows
    <3>3. effect'[First(remaining)].state = "indeterminate"
      BY <1>4, <3>1
    <3> HIDE DEF row
    <3>4. Parked(e)'
      BY <1>6, <2>1, <2>2, <3>1, <3>2, <3>3 DEF Parked
    <3>5. Owned(e)'
      BY <1>2, <1>3, <1>4, <1>6, <2>2, <3>2 DEF Owned, Sound
    <3>6. Reported(e)' /\ AtRest(e)'
      BY <2>1, <2>2, <3>2 DEF Reported, AtRest, Published, TerminalStates
    <3> QED
      BY <2>1, <3>4, <3>5, <3>6 DEF Kept, Sound
  <2>5. CASE remaining = {}
    <3>1. \A g \in Effects : OwnerOf[g] = e => effect'[g].state \notin UnfinishedStates
      <4>1. effect'[f].state \notin UnfinishedStates
        BY <1>4 DEF UnfinishedStates
      <4> QED
        BY <2>3, <2>5, <4>1
    <3> HIDE DEF remaining
    <3>2. /\ row.state \in {"cancelled", "queued"}
          /\ row.state = "cancelled" => row.ttl = -1 /\ row.wait = 0
      <4>1. \/ row = TerminalRow(execution[e], "cancelled")
            \/ row = [execution[e] EXCEPT !.state = "queued", !.wait = 0, !.pointer = None,
                                          !.target = "none", !.revision = @ + 1]
        BY <1>6, <2>5 DEF DecidedRow
      <4>2. [execution[e] EXCEPT !.state = "queued", !.wait = 0, !.pointer = None,
                                 !.target = "none", !.revision = @ + 1].state = "queued"
        BY <1>2 DEF Rows
      <4>3. /\ TerminalRow(execution[e], "cancelled").state = "cancelled"
            /\ TerminalRow(execution[e], "cancelled").ttl = -1 /\ TerminalRow(execution[e], "cancelled").wait = 0
        BY <1>2, TerminalRowValues DEF TerminalStates
      <4> DEFINE again == [execution[e] EXCEPT !.state = "queued", !.wait = 0, !.pointer = None,
                                               !.target = "none", !.revision = @ + 1]
      <4>4. row = TerminalRow(execution[e], "cancelled") \/ row = again
        BY <4>1
      <4>5. again.state = "queued"
        BY <4>2
      <4> HIDE DEF row, again
      <4> QED
        BY <4>3, <4>4, <4>5
    <3> HIDE DEF row
    <3>3. outbox'[e] = IF row.state \in TerminalStates THEN row.result ELSE NoResult
      BY <2>1, <2>2 DEF Published
    <3>4. Sound(e)'
      BY <2>2, <3>1, <3>2, <3>3, SettledSound DEF TerminalStates
    <3> QED
      BY <2>1, <3>4 DEF Kept
  <2> QED
    BY <2>4, <2>5
<1> QED
  BY <1>5, <1>6

\* Every step either does not concern an execution, or finds it without a
\* verdict and leaves it sound.
LEMMA StepKept ==
    ASSUME TypeOK, \A d \in Executions : Sound(d), [Next]_vars, NEW e \in Executions
    PROVE  Kept(e)
<1>1. ASSUME UNCHANGED <<execution, effect, outbox>>
      PROVE  Kept(e)
  BY <1>1 DEF Kept, Same
<1>2. ASSUME NEW w \in Workers, WorkerStep(w)
      PROVE  Kept(e)
  <2>1. ASSUME NEW c \in Executions, Claim(w, c) \/ ClaimAndStart(w, c)
        PROVE  Kept(e)
    BY <2>1, ClaimSound DEF Claim, ClaimAndStart, ActiveStates
  <2>2. CASE \/ Register(w) \/ Spawn(w) \/ NotInvoked(w) \/ VerifyClaim(w) \/ Perform(w) \/ Swallow(w)
             \/ \E status \in Outcomes : Finish(w, status) \/ Interrupt(w, status)
             \/ CompleteAgain(w) \/ Abandon(w) \/ Crash(w) \/ OrphanExit(w)
    BY <1>1, <2>2 DEF store, Register, Spawn, NotInvoked, VerifyClaim, Perform, Swallow, Finish, Interrupt,
                      CompleteAgain, Abandon, Crash, OrphanExit
  <2>3. CASE Start(w) \/ Renew(w)
    BY <2>3, RowSound
  <2>4. CASE \/ \E f \in Effects : PrepareEffect(w, f)
             \/ ClaimEffect(w) \/ CommitEffect(w) \/ MarkIndeterminate(w)
    BY <2>4, EffectSound
  <2>5. CASE \/ \E settlement \in BOOLEAN : Complete(w, settlement) \/ RequireRecovery(w, settlement)
             \/ DeadLetter(w) \/ CancelLease(w)
    BY <2>5, ParkingSound
  <2> QED
    BY <1>2, <2>1, <2>2, <2>3, <2>4, <2>5 DEF WorkerStep
<1>3. CASE \/ \E c \in Executions : ResolveObligation(c)
           \/ \E f \in Effects : PerformDetached(f)
           \/ \E f \in Effects, d \in Decisions : WriteOrder(f, d)
           \/ UNCHANGED vars
  BY <1>1, <1>3 DEF ResolveObligation, PerformDetached, WriteOrder, store, vars
<1>4. CASE \/ \E c \in Executions : Submit(c) \/ CancelBeforeAccept(c)
           \/ Reap \/ Tick
  BY <1>4, RowSound
<1>5. CASE \E c \in Executions : Cancel(c)
  BY <1>5, ParkingSound
<1>6. CASE \E o \in orders : ResolveEffect(o)
  BY <1>6, ResolveSound
<1> QED
  BY <1>2, <1>3, <1>4, <1>5, <1>6 DEF Next

\* Types and soundness together are inductive.
KernelInv == TypeOK /\ \A e \in Executions : Sound(e)

LEMMA InitSound == Init => \A e \in Executions : Sound(e)
BY DEF Init, Absent, Sound, Owned, Parked, Reported, AtRest, TerminalStates, NoResult

LEMMA StepSound == KernelInv /\ [Next]_vars => KernelInv'
<1> SUFFICES ASSUME KernelInv, [Next]_vars PROVE KernelInv'
  OBVIOUS
<1>1. TypeOK'
  BY StepTyped DEF KernelInv
<1>2. ASSUME NEW e \in Executions PROVE Sound(e)'
  BY StepKept, SameSound DEF KernelInv, Kept
<1> QED
  BY <1>1, <1>2 DEF KernelInv

LEMMA AlwaysSound == Spec => []KernelInv
BY InitTyped, InitSound, StepSound, PTL DEF Spec, KernelInv

\* A prepared or performing effect always belongs to the generation running
\* now, and an uncertain one to an execution that runs or waits for a decision:
\* expiry, cancellation, completion and claims leave none behind.
THEOREM EffectsOwned == Spec => []UnfinishedIsOwned
<1>1. KernelInv => UnfinishedIsOwned
  BY EffectsAssumption DEF KernelInv, UnfinishedIsOwned, Sound, Owned
<1> QED
  BY <1>1, AlwaysSound, PTL

\* An execution parked for recovery always names an effect that a decision can
\* resolve, and nobody has a lease on it.
THEOREM PointerSound == Spec => []RecoveryPointerSound
<1>1. KernelInv => RecoveryPointerSound
  BY DEF KernelInv, RecoveryPointerSound, Sound, Parked
<1> QED
  BY <1>1, AlwaysSound, PTL

\* A fact is in the outbox exactly when the execution has ended, and it is the
\* result in the row.
THEOREM OutboxSound == Spec => []OutboxMatchesRow
<1>1. KernelInv => OutboxMatchesRow
  BY DEF KernelInv, OutboxMatchesRow, Sound, Reported
<1> QED
  BY <1>1, AlwaysSound, PTL

\* A verdict is final: no late completion, expiry, cancellation or decision
\* changes an execution that ended, or its fact.
THEOREM VerdictFinal == Spec => TerminalForever
<1>1. KernelInv /\ [Next]_vars =>
         [\A e \in Executions : execution[e].state \in TerminalStates =>
             execution'[e] = execution[e] /\ outbox'[e] = outbox[e]]_vars
  BY StepKept DEF KernelInv, Kept, Same
<1> QED
  BY <1>1, AlwaysSound, PTL DEF Spec, TerminalForever

-----------------------------------------------------------------------------
(* How the record of one effect moves.                                     *)

Fresh == {"absent", "prepared", "not_applied"}

\* A step that neither grants a call of f nor obeys a decision about it
Evolves(f) ==
    \/ effect'[f] = effect[f]
    \/ /\ execution[OwnerOf[f]].state \notin TerminalStates
       /\ effect'[f].revision > effect[f].revision
       /\ \/ effect[f].state \in Fresh /\ effect'[f].state \in Fresh \cup {"indeterminate"}
          \/ effect[f].state = "performing" /\ effect'[f].state \in {"indeterminate", "committed"}

Undisturbed(f) ==
    /\ Evolves(f)
    /\ ledger'[f].granted = ledger[f].granted
    /\ ledger'[f].waived = ledger[f].waived

\* claim_effect
Granting(f) ==
    /\ effect[f].state = "prepared" /\ effect'[f].state = "performing"
    /\ effect'[f].revision > effect[f].revision
    /\ ledger'[f].granted = ledger[f].granted + 1
    /\ ledger'[f].waived = ledger[f].waived

\* resolve_effect, obeying an order not obeyed before
Obeying(f) ==
    \E o \in orders :
       /\ o.effect = f /\ o.revision = effect[f].revision
       /\ effect[f].state = "indeterminate"
       /\ effect'[f].state = IF o.decision = "applied" THEN "committed" ELSE "not_applied"
       /\ effect'[f].revision > effect[f].revision
       /\ ledger'[f].granted = ledger[f].granted
       /\ ledger'[f].waived = IF o.decision = "applied" THEN ledger[f].waived ELSE ledger[f].waived + 1

LEMMA UncertainValues ==
    ASSUME NEW rec \in EffectRows
    PROVE  \/ Uncertain(rec) = rec
           \/ /\ rec.state \in {"prepared", "performing"}
              /\ Uncertain(rec).state = "indeterminate"
              /\ Uncertain(rec).revision > rec.revision
BY DEF Uncertain, EffectRows

\* An unfinished effect belongs to an execution that has not ended.
LEMMA UnfinishedAlive ==
    ASSUME KernelInv, NEW f \in Effects, effect[f].state \in UnfinishedStates
    PROVE  execution[OwnerOf[f]].state \notin TerminalStates
<1>1. OwnerOf[f] \in Executions /\ Sound(OwnerOf[f])
  BY EffectsAssumption DEF KernelInv
<1> QED
  BY <1>1 DEF Sound, Owned, UnfinishedStates, TerminalStates

LEMMA UncertainEvolves ==
    ASSUME KernelInv, NEW f \in Effects, effect'[f] \in {effect[f], Uncertain(effect[f])}
    PROVE  Evolves(f)
<1>1. effect[f] \in EffectRows
  BY DEF KernelInv, TypeOK
<1>2. CASE effect'[f] = effect[f]
  BY <1>2 DEF Evolves
<1>3. CASE /\ effect[f].state \in {"prepared", "performing"}
           /\ effect'[f].state = "indeterminate"
           /\ effect'[f].revision > effect[f].revision
  BY <1>3, UnfinishedAlive DEF Evolves, Fresh, UnfinishedStates
<1> QED
  BY <1>1, <1>2, <1>3, UncertainValues

LEMMA ParkEvolves ==
    ASSUME KernelInv, NEW e, NEW target, NEW row, ParkOrElse(e, target, row), NEW f \in Effects
    PROVE  Evolves(f)
<1>1. effect'[f] \in {effect[f], Uncertain(effect[f])}
  BY DEF ParkOrElse
<1> QED
  BY <1>1, UncertainEvolves

LEMMA ReapEvolves ==
    ASSUME KernelInv, ReapRest, NEW f \in Effects
    PROVE  Evolves(f)
<1>1. effect'[f] \in {effect[f], Uncertain(effect[f])}
  BY DEF ReapRest
<1> QED
  BY <1>1, UncertainEvolves

LEMMA PrepareEvolves ==
    ASSUME KernelInv, NEW w \in Workers, NEW g \in Effects, PrepareEffect(w, g), NEW f \in Effects
    PROVE  Evolves(f)
<1>0. effect \in [Effects -> EffectRows]
  BY DEF KernelInv, TypeOK
<1>1. CASE effect' = effect
  BY <1>1 DEF Evolves
<1>2. CASE /\ effect[g].state \in {"absent", "not_applied"}
           /\ effect' = [effect EXCEPT ![g] = [state |-> "prepared", fence |-> worker[w].fence,
                                               claim |-> 0, revision |-> @.revision + 1]]
  <2>1. execution[OwnerOf[g]].state \notin TerminalStates
    BY DEF PrepareEffect, AssertLease, OwnsRow, TerminalStates
  <2>2. effect[f] \in EffectRows
    BY <1>0
  <2>3. CASE f = g
    <3>1. effect'[f].state = "prepared" /\ effect'[f].revision = effect[f].revision + 1
      BY <1>0, <1>2, <2>3
    <3>2. effect[f].revision \in Nat
      BY <2>2 DEF EffectRows
    <3> QED
      BY <1>2, <2>1, <2>3, <3>1, <3>2 DEF Evolves, Fresh
  <2>4. CASE f # g
    BY <1>0, <1>2, <2>4 DEF Evolves
  <2> QED
    BY <2>3, <2>4
<1>3. CASE effect' = [h \in Effects |-> IF OwnerOf[h] = worker[w].exec THEN Uncertain(effect[h]) ELSE effect[h]]
  BY <1>3, UncertainEvolves
<1> QED
  BY <1>1, <1>2, <1>3 DEF PrepareEffect

\* What each operation of a runtime does to the records and the ledger
LEMMA WorkerEvolves ==
    ASSUME KernelInv, NEW w \in Workers, WorkerStep(w), NEW f \in Effects
    PROVE  Undisturbed(f) \/ Granting(f)
<1>0. /\ effect \in [Effects -> EffectRows] /\ effect[f] \in EffectRows
      /\ ledger \in [Effects -> [granted : Nat, performed : Nat, waived : Nat]]
      /\ Linked(worker[w])
  BY DEF KernelInv, TypeOK
<1>1. ASSUME NEW e \in Executions, Claim(w, e) \/ ClaimAndStart(w, e)
      PROVE  Undisturbed(f)
  <2>1. ReapRest /\ UNCHANGED ledger
    BY <1>1 DEF Claim, ClaimAndStart, ClaimAs
  <2> QED
    BY <2>1, ReapEvolves DEF Undisturbed
<1>2. CASE \/ Start(w) \/ Renew(w) \/ Register(w) \/ Spawn(w) \/ NotInvoked(w) \/ VerifyClaim(w) \/ Swallow(w)
           \/ \E status \in Outcomes : Finish(w, status) \/ Interrupt(w, status)
           \/ CompleteAgain(w) \/ Abandon(w) \/ Crash(w) \/ OrphanExit(w)
  <2>1. UNCHANGED <<effect, ledger>>
    BY <1>2 DEF store, Start, Renew, Register, Spawn, NotInvoked, VerifyClaim, Swallow, Finish, Interrupt,
                CompleteAgain, Abandon, Crash, OrphanExit
  <2> QED
    BY <2>1 DEF Undisturbed, Evolves
<1>3. ASSUME NEW g \in Effects, PrepareEffect(w, g)
      PROVE  Undisturbed(f)
  <2>1. UNCHANGED ledger
    BY <1>3 DEF PrepareEffect
  <2> QED
    BY <1>3, <2>1, PrepareEvolves DEF Undisturbed
<1>4. CASE ClaimEffect(w)
  <2> DEFINE g == worker[w].effect
  <2>1. g \in Effects
    BY <1>0, <1>4 DEF ClaimEffect, CanRun, Linked, EffectPcs
  <2>2. /\ effect[g].state = "prepared"
        /\ effect' = [effect EXCEPT ![g].state = "performing", ![g].revision = @ + 1,
                                    ![g].claim = effect[g].revision + 1]
        /\ ledger' = [ledger EXCEPT ![g].granted = @ + 1]
    BY <1>4 DEF ClaimEffect
  <2>3. CASE f = g
    <3>1. effect'[f].state = "performing" /\ effect'[f].revision = effect[f].revision + 1
      BY <1>0, <2>1, <2>2, <2>3 DEF EffectRows
    <3>2. ledger'[f].granted = ledger[f].granted + 1 /\ ledger'[f].waived = ledger[f].waived
      BY <1>0, <2>1, <2>2, <2>3
    <3>3. effect[f].revision \in Nat
      BY <1>0 DEF EffectRows
    <3> QED
      BY <2>2, <2>3, <3>1, <3>2, <3>3 DEF Granting
  <2>4. CASE f # g
    BY <1>0, <2>2, <2>4 DEF Undisturbed, Evolves
  <2> QED
    BY <2>3, <2>4
<1>5. CASE Perform(w)
  <2> DEFINE g == worker[w].effect
  <2>1. effect' = effect /\ (ledger' = ledger \/ ledger' = [ledger EXCEPT ![g].performed = @ + 1])
    BY <1>5 DEF Perform, store
  <2>2. ledger'[f].granted = ledger[f].granted /\ ledger'[f].waived = ledger[f].waived
    BY <1>0, <2>1
  <2> QED
    BY <2>1, <2>2 DEF Undisturbed, Evolves
<1>6. CASE CommitEffect(w) \/ MarkIndeterminate(w)
  <2> DEFINE g == worker[w].effect
  <2>0. UNCHANGED ledger
    BY <1>6 DEF CommitEffect, MarkIndeterminate
  <2>1. g \in Effects
    BY <1>0, <1>6 DEF CommitEffect, MarkIndeterminate, CanRun, Linked, EffectPcs
  <2>2. PICK s \in {"committed", "indeterminate"} :
           effect' = [effect EXCEPT ![g].state = s, ![g].revision = @ + 1]
    BY <1>6 DEF CommitEffect, MarkIndeterminate
  <2>3. effect[g].state = "performing"
    BY <1>6 DEF CommitEffect, MarkIndeterminate, HoldsClaim
  <2>4. CASE f = g
    <3>1. effect'[f].state = s /\ effect'[f].revision = effect[f].revision + 1
      BY <1>0, <2>1, <2>2, <2>4 DEF EffectRows
    <3>2. effect[f].revision \in Nat
      BY <1>0 DEF EffectRows
    <3>3. execution[OwnerOf[f]].state \notin TerminalStates
      BY <2>3, <2>4, UnfinishedAlive DEF UnfinishedStates
    <3> QED
      BY <2>0, <2>3, <2>4, <3>1, <3>2, <3>3 DEF Undisturbed, Evolves
  <2>5. CASE f # g
    BY <1>0, <2>0, <2>2, <2>5 DEF Undisturbed, Evolves
  <2> QED
    BY <2>4, <2>5
<1>7. CASE \/ \E settlement \in BOOLEAN : Complete(w, settlement) \/ RequireRecovery(w, settlement)
           \/ DeadLetter(w) \/ CancelLease(w)
  <2>1. UNCHANGED ledger
    BY <1>7 DEF Complete, RequireRecovery, DeadLetter, CancelLease
  <2>2. Evolves(f)
    BY <1>7, ParkEvolves DEF Complete, RequireRecovery, DeadLetter, CancelLease
  <2> QED
    BY <2>1, <2>2 DEF Undisturbed
<1> QED
  BY <1>1, <1>2, <1>3, <1>4, <1>5, <1>6, <1>7 DEF WorkerStep

LEMMA DecisionEvolves ==
    ASSUME KernelInv, NEW o \in orders, ResolveEffect(o), NEW f \in Effects
    PROVE  Undisturbed(f) \/ Obeying(f)
<1>0. /\ effect \in [Effects -> EffectRows] /\ effect[f] \in EffectRows
      /\ ledger \in [Effects -> [granted : Nat, performed : Nat, waived : Nat]]
      /\ o \in [effect : Effects, revision : Nat, decision : Decisions]
  BY DEF KernelInv, TypeOK
<1> DEFINE g == o.effect
<1>1. g \in Effects
  BY <1>0
<1>2. /\ effect[g].state = "indeterminate" /\ effect[g].revision = o.revision
      /\ effect' = [effect EXCEPT ![g].state = IF o.decision = "applied" THEN "committed" ELSE "not_applied",
                                  ![g].claim = IF o.decision = "applied" THEN @ ELSE 0,
                                  ![g].revision = @ + 1]
      /\ ledger' = IF o.decision = "applied" THEN ledger ELSE [ledger EXCEPT ![g].waived = @ + 1]
  BY DEF ResolveEffect, Current
<1>3. CASE f = g
  <2>1. /\ effect'[f].state = IF o.decision = "applied" THEN "committed" ELSE "not_applied"
        /\ effect'[f].revision = effect[f].revision + 1
    BY <1>0, <1>1, <1>2, <1>3 DEF EffectRows
  <2>2. /\ ledger'[f].granted = ledger[f].granted
        /\ ledger'[f].waived = IF o.decision = "applied" THEN ledger[f].waived ELSE ledger[f].waived + 1
    BY <1>0, <1>1, <1>2, <1>3
  <2>3. effect[f].revision \in Nat
    BY <1>0 DEF EffectRows
  <2> QED
    BY <1>2, <1>3, <2>1, <2>2, <2>3 DEF Obeying
<1>4. CASE f # g
  BY <1>0, <1>1, <1>2, <1>4 DEF Undisturbed, Evolves
<1> QED
  BY <1>3, <1>4

\* Every step leaves an effect alone, grants one call of it or obeys one order.
LEMMA StepEvolves ==
    ASSUME KernelInv, [Next]_vars, NEW f \in Effects
    PROVE  Undisturbed(f) \/ Granting(f) \/ Obeying(f)
<1>0. ledger \in [Effects -> [granted : Nat, performed : Nat, waived : Nat]]
  BY DEF KernelInv, TypeOK
<1>1. ASSUME NEW w \in Workers, WorkerStep(w)
      PROVE  Undisturbed(f) \/ Granting(f)
  BY <1>1, WorkerEvolves
<1>2. CASE \/ \E e \in Executions : Submit(e) \/ CancelBeforeAccept(e) \/ ResolveObligation(e)
           \/ \E g \in Effects, d \in Decisions : WriteOrder(g, d)
           \/ Tick \/ UNCHANGED vars
  <2>1. UNCHANGED <<effect, ledger>>
    BY <1>2 DEF Submit, CancelBeforeAccept, ResolveObligation, WriteOrder, Tick, vars, store
  <2> QED
    BY <2>1 DEF Undisturbed, Evolves
<1>3. CASE \E g \in Effects : PerformDetached(g)
  <2>1. PICK g \in Effects : effect' = effect /\ ledger' = [ledger EXCEPT ![g].performed = @ + 1]
    BY <1>3 DEF PerformDetached, store
  <2>2. ledger'[f].granted = ledger[f].granted /\ ledger'[f].waived = ledger[f].waived
    BY <1>0, <2>1
  <2> QED
    BY <2>1, <2>2 DEF Undisturbed, Evolves
<1>4. CASE \E e \in Executions : Cancel(e)
  <2>1. UNCHANGED ledger
    BY <1>4 DEF Cancel
  <2>2. Evolves(f)
    <3>1. CASE effect' = effect
      BY <3>1 DEF Evolves
    <3> QED
      BY <1>4, <3>1, ParkEvolves DEF Cancel
  <2> QED
    BY <2>1, <2>2 DEF Undisturbed
<1>5. CASE Reap
  BY <1>5, ReapEvolves DEF Reap, Undisturbed
<1>6. CASE \E o \in orders : ResolveEffect(o)
  BY <1>6, DecisionEvolves
<1> QED
  BY <1>1, <1>2, <1>3, <1>4, <1>5, <1>6 DEF Next

-----------------------------------------------------------------------------
(* The ledger.  Each permission to perform f is used by one call: one that *)
(* a runtime is about to make, one still running in an abandoned thread or *)
(* one that has been made.  A new permission needs a record that says the  *)
(* earlier ones had no effect, and every such record one operator's order. *)

Calls(f) == {w \in Workers : worker[w].pc \in {"claimed", "calling"} /\ worker[w].effect = f}

Permitted(f) ==
    /\ IsFiniteSet(Calls(f))
    /\ ledger[f].performed + detached[f] + Cardinality(Calls(f)) <= ledger[f].granted

Justified(f) ==
    /\ ledger[f].granted <= ledger[f].waived + 1
    /\ effect[f].state \in Fresh => ledger[f].granted <= ledger[f].waived

\* The orders about f that were obeyed, or can never be obeyed any more
Obeyed(f) == {o \in WrittenFor(f, "not_applied") : o.revision < effect[f].revision}

Ordered(f) == ledger[f].waived <= Cardinality(Obeyed(f))

LedgerInv ==
    /\ KernelInv
    /\ IsFiniteSet(orders)
    /\ \A f \in Effects : Permitted(f) /\ Justified(f) /\ Ordered(f)

\* Orders are kept, and only a finite number is written.
LEMMA OrdersGrow ==
    ASSUME IsFiniteSet(orders), [Next]_vars
    PROVE  orders \subseteq orders' /\ IsFiniteSet(orders')
<1>1. CASE \E f \in Effects, d \in Decisions : WriteOrder(f, d)
  BY <1>1, FS_AddElement DEF WriteOrder
<1>2. ASSUME UNCHANGED orders
      PROVE  orders \subseteq orders' /\ IsFiniteSet(orders')
  BY <1>2
<1>3. ASSUME NEW w \in Workers, WorkerStep(w)
      PROVE  UNCHANGED orders
  BY <1>3 DEF WorkerStep, Claim, ClaimAndStart, ClaimAs, Start, Renew, Register, Spawn, NotInvoked,
              PrepareEffect, ClaimEffect, VerifyClaim, Perform, CommitEffect, MarkIndeterminate, Swallow,
              Finish, Interrupt, Complete, RequireRecovery, CompleteAgain, DeadLetter, CancelLease,
              Abandon, Crash, OrphanExit
<1>4. CASE \/ \E e \in Executions : Submit(e) \/ CancelBeforeAccept(e) \/ Cancel(e) \/ ResolveObligation(e)
           \/ \E f \in Effects : PerformDetached(f)
           \/ \E o \in orders : ResolveEffect(o)
           \/ Reap \/ Tick \/ UNCHANGED vars
  <2>1. UNCHANGED orders
    BY <1>4 DEF Submit, CancelBeforeAccept, Cancel, ResolveObligation, PerformDetached, ResolveEffect,
                Reap, Tick, vars
  <2> QED
    BY <2>1
<1> QED
  BY <1>1, <1>2, <1>3, <1>4 DEF Next

LEMMA ObeyedFinite ==
    ASSUME IsFiniteSet(orders), NEW f
    PROVE  IsFiniteSet(Obeyed(f)) /\ Cardinality(Obeyed(f)) \in Nat
<1>1. Obeyed(f) \in SUBSET orders
  BY DEF Obeyed, WrittenFor
<1>2. IsFiniteSet(Obeyed(f))
  BY <1>1, FS_Subset
<1> QED
  BY <1>2, FS_CardinalityType

\* What is on record about f agrees with the permissions and the orders.
LEMMA RecordStep ==
    ASSUME LedgerInv, KernelInv', [Next]_vars, NEW f \in Effects
    PROVE  Justified(f)' /\ Ordered(f)'
<1>0. /\ effect[f] \in EffectRows /\ effect'[f] \in EffectRows
      /\ ledger[f] \in [granted : Nat, performed : Nat, waived : Nat]
      /\ ledger'[f] \in [granted : Nat, performed : Nat, waived : Nat]
      /\ KernelInv /\ Justified(f) /\ Ordered(f)
  BY DEF LedgerInv, KernelInv, TypeOK
<1>1. /\ effect[f].revision \in Nat /\ effect'[f].revision \in Nat
      /\ ledger[f].granted \in Nat /\ ledger[f].waived \in Nat
  BY <1>0 DEF EffectRows
<1>2. orders \subseteq orders' /\ IsFiniteSet(orders) /\ IsFiniteSet(orders')
  BY OrdersGrow DEF LedgerInv
<1>3. \A o \in orders : o.revision \in Nat
  BY DEF LedgerInv, KernelInv, TypeOK
<1>4. /\ IsFiniteSet(Obeyed(f)) /\ Cardinality(Obeyed(f)) \in Nat
      /\ IsFiniteSet(Obeyed(f)') /\ Cardinality(Obeyed(f)') \in Nat
  <2>1. IsFiniteSet(Obeyed(f)) /\ Cardinality(Obeyed(f)) \in Nat
    BY <1>2, ObeyedFinite
  <2>2. Obeyed(f)' \in SUBSET orders'
    BY DEF Obeyed, WrittenFor
  <2>3. IsFiniteSet(Obeyed(f)')
    BY <1>2, <2>2, FS_Subset
  <2> QED
    BY <2>1, <2>3, FS_CardinalityType
<1>5. effect'[f].revision >= effect[f].revision => Obeyed(f) \subseteq Obeyed(f)'
  BY <1>1, <1>2, <1>3 DEF Obeyed, WrittenFor
<1>6. effect'[f].revision >= effect[f].revision => Cardinality(Obeyed(f)) <= Cardinality(Obeyed(f)')
  <2>1. Obeyed(f) \subseteq Obeyed(f)' => Cardinality(Obeyed(f)) <= Cardinality(Obeyed(f)')
    BY <1>4, FS_Subset
  <2> QED
    BY <1>5, <2>1
<1>7. CASE Undisturbed(f)
  <2>1. effect'[f].revision >= effect[f].revision
    BY <1>1, <1>7 DEF Undisturbed, Evolves
  <2>2. ledger'[f].waived = ledger[f].waived /\ ledger'[f].granted = ledger[f].granted
    BY <1>7 DEF Undisturbed
  <2>3. effect'[f].state \in Fresh => effect[f].state \in Fresh
    BY <1>7 DEF Undisturbed, Evolves, Fresh
  <2>4. Ordered(f)'
    BY <1>0, <1>1, <1>4, <1>6, <2>1, <2>2 DEF Ordered
  <2> QED
    BY <1>0, <2>2, <2>3, <2>4 DEF Justified
<1>8. CASE Granting(f)
  <2>1. effect'[f].revision >= effect[f].revision
    BY <1>1, <1>8 DEF Granting
  <2>2. /\ ledger'[f].waived = ledger[f].waived /\ ledger'[f].granted = ledger[f].granted + 1
        /\ effect[f].state \in Fresh /\ effect'[f].state \notin Fresh
    BY <1>8 DEF Granting, Fresh
  <2>3. Ordered(f)'
    BY <1>0, <1>1, <1>4, <1>6, <2>1, <2>2 DEF Ordered
  <2> QED
    BY <1>0, <1>1, <2>2, <2>3 DEF Justified
<1>9. CASE Obeying(f)
  <2>1. PICK o \in orders :
           /\ o.effect = f /\ o.revision = effect[f].revision
           /\ effect'[f].state = IF o.decision = "applied" THEN "committed" ELSE "not_applied"
           /\ effect'[f].revision > effect[f].revision
           /\ ledger'[f].granted = ledger[f].granted
           /\ ledger'[f].waived = IF o.decision = "applied" THEN ledger[f].waived ELSE ledger[f].waived + 1
    BY <1>9 DEF Obeying
  <2>2. effect'[f].revision >= effect[f].revision
    BY <1>1, <2>1
  <2>3. CASE o.decision = "applied"
    <3>1. Ordered(f)'
      BY <1>0, <1>1, <1>4, <1>6, <2>1, <2>2, <2>3 DEF Ordered
    <3> QED
      BY <1>0, <2>1, <2>3, <3>1 DEF Justified, Fresh
  <2>4. CASE o.decision # "applied"
    <3>1. o.decision = "not_applied"
      BY <2>4 DEF LedgerInv, KernelInv, TypeOK, Decisions
    <3>2. o \notin Obeyed(f) /\ o \in Obeyed(f)'
      BY <1>1, <1>2, <2>1, <3>1 DEF Obeyed, WrittenFor
    <3>3. Obeyed(f) \cup {o} \subseteq Obeyed(f)'
      BY <1>5, <2>2, <3>2
    <3>4. Cardinality(Obeyed(f) \cup {o}) = Cardinality(Obeyed(f)) + 1
      BY <1>4, <3>2, FS_AddElement
    <3>5. Cardinality(Obeyed(f) \cup {o}) <= Cardinality(Obeyed(f)')
      BY <1>4, <3>3, FS_Subset
    <3>6. Ordered(f)'
      BY <1>0, <1>1, <1>4, <2>1, <2>4, <3>4, <3>5 DEF Ordered
    <3> QED
      BY <1>0, <1>1, <2>1, <2>4, <3>6 DEF Justified
  <2> QED
    BY <2>3, <2>4
<1> QED
  BY <1>0, <1>7, <1>8, <1>9, StepEvolves

\* The counters of f allow for it when a step takes no permission and starts no call.
LEMMA CallsShrink ==
    ASSUME LedgerInv, NEW f \in Effects, Calls(f)' \subseteq Calls(f),
           ledger'[f].performed = ledger[f].performed, ledger'[f].granted = ledger[f].granted,
           detached'[f] = detached[f]
    PROVE  Permitted(f)'
<1>0. /\ ledger[f] \in [granted : Nat, performed : Nat, waived : Nat] /\ detached[f] \in Nat
      /\ Permitted(f)
  BY DEF LedgerInv, KernelInv, TypeOK
<1>1. IsFiniteSet(Calls(f)') /\ Cardinality(Calls(f)') <= Cardinality(Calls(f))
  BY <1>0, FS_Subset DEF Permitted
<1>2. Cardinality(Calls(f)) \in Nat /\ Cardinality(Calls(f)') \in Nat
  BY <1>0, <1>1, FS_CardinalityType DEF Permitted
<1> QED
  BY <1>0, <1>1, <1>2 DEF Permitted

\* A call that ends was made at most once, or goes on in an abandoned thread.
LEMMA CallEnds ==
    ASSUME LedgerInv, NEW f \in Effects, NEW w \in Calls(f), Calls(f)' = Calls(f) \ {w},
           ledger'[f].granted = ledger[f].granted,
           \/ /\ ledger'[f].performed \in {ledger[f].performed, ledger[f].performed + 1}
              /\ detached'[f] = detached[f]
           \/ /\ ledger'[f].performed = ledger[f].performed
              /\ detached'[f] \in {detached[f], detached[f] + 1}
    PROVE  Permitted(f)'
<1>0. /\ ledger[f] \in [granted : Nat, performed : Nat, waived : Nat] /\ detached[f] \in Nat
      /\ Permitted(f)
  BY DEF LedgerInv, KernelInv, TypeOK
<1>1. /\ IsFiniteSet(Calls(f)') /\ Cardinality(Calls(f)') = Cardinality(Calls(f)) - 1
  BY <1>0, FS_RemoveElement DEF Permitted
<1>2. Cardinality(Calls(f)) \in Nat
  BY <1>0, FS_CardinalityType DEF Permitted
<1> QED
  BY <1>0, <1>1, <1>2 DEF Permitted

\* A runtime changes no invocation but its own.
LEMMA OwnInvocation ==
    ASSUME TypeOK, NEW w \in Workers, WorkerStep(w), NEW v \in Workers, v # w
    PROVE  worker'[v] = worker[v]
<1>0. worker \in [Workers -> Invocations]
  BY DEF TypeOK
<1>1. (\E i : worker' = [worker EXCEPT ![w] = i]) => worker'[v] = worker[v]
  BY <1>0
<1>2. ASSUME NEW e \in Executions, Claim(w, e) \/ ClaimAndStart(w, e)
      PROVE  worker'[v] = worker[v]
  BY <1>0, <1>2 DEF Claim, ClaimAndStart, ClaimAs
<1>3. CASE \/ Start(w) \/ Renew(w) \/ Register(w) \/ Spawn(w) \/ NotInvoked(w) \/ VerifyClaim(w) \/ Swallow(w)
           \/ \E status \in Outcomes : Finish(w, status) \/ Interrupt(w, status)
           \/ \E f \in Effects : PrepareEffect(w, f)
           \/ ClaimEffect(w) \/ Perform(w) \/ CommitEffect(w) \/ MarkIndeterminate(w)
  BY <1>0, <1>3 DEF Start, Renew, Register, Spawn, NotInvoked, VerifyClaim, Swallow, Finish, Interrupt,
                    PrepareEffect, ClaimEffect, Perform, CommitEffect, MarkIndeterminate
<1>4. CASE \/ CompleteAgain(w) \/ Abandon(w) \/ Crash(w) \/ OrphanExit(w)
           \/ \E settlement \in BOOLEAN : Complete(w, settlement) \/ RequireRecovery(w, settlement)
           \/ DeadLetter(w) \/ CancelLease(w)
  BY <1>0, <1>4 DEF CompleteAgain, Abandon, Crash, OrphanExit, Complete, AnswerTo, RequireRecovery,
                    DeadLetter, CancelLease
<1> QED
  BY <1>2, <1>3, <1>4 DEF WorkerStep

\* Operations of a runtime that neither begin nor end a call.
LEMMA NoCall ==
    ASSUME LedgerInv, NEW w \in Workers, WorkerStep(w),
           \/ worker'[w].pc \notin {"claimed", "calling"}
           \/ /\ worker[w].pc \in {"claimed", "calling"}
              /\ worker'[w].effect = worker[w].effect,
           UNCHANGED <<ledger, detached>>, NEW f \in Effects
    PROVE  Permitted(f)'
<1>1. \A v \in Workers : v # w => worker'[v] = worker[v]
  BY OwnInvocation DEF LedgerInv, KernelInv
<1>2. Calls(f)' \subseteq Calls(f)
  BY <1>1 DEF Calls
<1> QED
  BY <1>2, CallsShrink

LEMMA WorkerPermits ==
    ASSUME LedgerInv, NEW w \in Workers, WorkerStep(w), NEW f \in Effects
    PROVE  Permitted(f)'
<1>0. /\ worker \in [Workers -> Invocations] /\ worker[w] \in Invocations /\ Linked(worker[w])
      /\ ledger \in [Effects -> [granted : Nat, performed : Nat, waived : Nat]]
      /\ detached \in [Effects -> Nat]
      /\ TypeOK
  BY DEF LedgerInv, KernelInv, TypeOK
<1>1. \A v \in Workers : v # w => worker'[v] = worker[v]
  BY <1>0, OwnInvocation
<1> DEFINE g == worker[w].effect
<1>2. ASSUME NEW e \in Executions, Claim(w, e) \/ ClaimAndStart(w, e)
      PROVE  Permitted(f)'
  <2>1. PICK pc \in {"leased", Started} : \E row :
           worker' = [worker EXCEPT ![w] = [Idle EXCEPT !.pc = pc, !.exec = e, !.attempt = row.attempt,
                                                        !.fence = row.fence, !.revision = row.revision]]
    BY <1>2 DEF Claim, ClaimAndStart, ClaimAs
  <2>2. worker'[w].pc = pc
    BY <1>0, <2>1 DEF Idle
  <2>3. pc \notin {"claimed", "calling"}
    BY InvocationValues DEF EffectPcs
  <2>4. UNCHANGED <<ledger, detached>>
    BY <1>2 DEF Claim, ClaimAndStart, ClaimAs
  <2> QED
    BY <2>2, <2>3, <2>4, NoCall
<1>3. CASE \/ Start(w) \/ Renew(w) \/ Register(w) \/ Spawn(w) \/ NotInvoked(w) \/ Swallow(w)
           \/ \E status \in Outcomes : Finish(w, status)
           \/ CompleteAgain(w) \/ OrphanExit(w)
           \/ \E e \in Effects : PrepareEffect(w, e)
           \/ CommitEffect(w) \/ MarkIndeterminate(w)
           \/ \E settlement \in BOOLEAN : Complete(w, settlement) \/ RequireRecovery(w, settlement)
           \/ DeadLetter(w) \/ CancelLease(w)
  <2>1. UNCHANGED <<ledger, detached>>
    BY <1>3 DEF Start, Renew, Register, Spawn, NotInvoked, Swallow, Finish, CompleteAgain, OrphanExit,
                PrepareEffect, CommitEffect, MarkIndeterminate, Complete, RequireRecovery, DeadLetter, CancelLease
  <2>2. CASE Start(w) \/ Renew(w) \/ Register(w) \/ Spawn(w) \/ NotInvoked(w) \/ Swallow(w)
    <3>1. worker'[w].pc \in {worker[w].pc, Started, "registered", "handling", "done"}
      BY <1>0, <2>2 DEF Start, Renew, Register, Spawn, NotInvoked, Swallow, Invocations
    <3>2. worker'[w].pc = worker[w].pc => worker[w].pc \notin {"claimed", "calling"}
                                          \/ worker'[w].effect = worker[w].effect
      BY <1>0, <2>2 DEF Start, Renew, Register, Spawn, NotInvoked, Swallow, Invocations
    <3>3. Started \notin {"claimed", "calling"}
      BY DEF Started
    <3> QED
      BY <2>1, <3>1, <3>2, <3>3, NoCall
  <2>3. CASE \/ \E status \in Outcomes : Finish(w, status)
             \/ CompleteAgain(w) \/ OrphanExit(w)
             \/ CommitEffect(w) \/ MarkIndeterminate(w)
             \/ \E settlement \in BOOLEAN : RequireRecovery(w, settlement)
             \/ DeadLetter(w) \/ CancelLease(w)
    <3>1. worker'[w].pc \in {"done", "handling", "recover", "idle"}
      BY <1>0, <2>3 DEF Finish, CompleteAgain, OrphanExit, CommitEffect, MarkIndeterminate, RequireRecovery,
                        DeadLetter, CancelLease, Idle, Invocations
    <3> QED
      BY <2>1, <3>1, NoCall
  <2>4. CASE \E settlement \in BOOLEAN : Complete(w, settlement)
    <3>1. worker'[w].pc \in {"done", "idle"}
      BY <1>0, <2>4 DEF Complete, AnswerTo, Idle
    <3> QED
      BY <2>1, <3>1, NoCall
  <2>5. CASE \E e \in Effects : PrepareEffect(w, e)
    <3>1. worker'[w].pc \in {"handling", "prepared", "recover"}
      BY <1>0, <2>5 DEF PrepareEffect, CanRun, Invocations
    <3> QED
      BY <2>1, <3>1, NoCall
  <2> QED
    BY <1>3, <2>2, <2>3, <2>4, <2>5
<1>4. CASE VerifyClaim(w) \/ Crash(w)
  <2>1. UNCHANGED <<ledger, detached>>
    BY <1>4 DEF VerifyClaim, Crash
  <2>2. \/ worker'[w].pc \notin {"claimed", "calling"}
        \/ /\ worker[w].pc \in {"claimed", "calling"}
           /\ worker'[w].effect = worker[w].effect
    BY <1>0, <1>4 DEF VerifyClaim, CanRun, Crash, Idle, Invocations
  <2> QED
    BY <2>1, <2>2, NoCall
<1>5. CASE ClaimEffect(w)
  <2>1. /\ worker[w].pc = "prepared" /\ g \in Effects /\ UNCHANGED detached
        /\ ledger' = [ledger EXCEPT ![g].granted = @ + 1]
    BY <1>0, <1>5 DEF ClaimEffect, CanRun, Linked, EffectPcs
  <2>2. worker'[w].pc = "claimed" /\ worker'[w].effect = g
    BY <1>0, <1>5 DEF ClaimEffect, Invocations
  <2>3. CASE f = g
    <3>1. w \notin Calls(f) /\ Calls(f)' = Calls(f) \cup {w}
      BY <1>1, <2>1, <2>2, <2>3 DEF Calls
    <3>2. Permitted(f)
      BY DEF LedgerInv
    <3>3. IsFiniteSet(Calls(f)') /\ Cardinality(Calls(f)') = Cardinality(Calls(f)) + 1
      BY <3>1, <3>2, FS_AddElement DEF Permitted
    <3>4. Cardinality(Calls(f)) \in Nat
      BY <3>2, FS_CardinalityType DEF Permitted
    <3>5. /\ ledger'[f].granted = ledger[f].granted + 1 /\ ledger'[f].performed = ledger[f].performed
          /\ ledger[f].granted \in Nat /\ ledger[f].performed \in Nat /\ detached[f] \in Nat
      BY <1>0, <2>1, <2>3
    <3> QED
      BY <2>1, <3>2, <3>3, <3>4, <3>5 DEF Permitted
  <2>4. CASE f # g
    <3>1. Calls(f)' \subseteq Calls(f)
      BY <1>1, <2>2, <2>4 DEF Calls
    <3>2. ledger'[f] = ledger[f]
      BY <1>0, <2>1, <2>4
    <3> QED
      BY <2>1, <3>1, <3>2, CallsShrink
  <2> QED
    BY <2>3, <2>4
<1>6. CASE Perform(w)
  <2>1. /\ worker[w].pc = "calling" /\ g \in Effects /\ UNCHANGED detached
        /\ ledger' = ledger \/ ledger' = [ledger EXCEPT ![g].performed = @ + 1]
    BY <1>0, <1>6 DEF Perform, CanRun, Linked, EffectPcs
  <2>2. worker'[w].pc \in {"answered", "raised"}
    BY <1>0, <1>6 DEF Perform, Invocations
  <2>3. CASE f = g
    <3>1. w \in Calls(f) /\ Calls(f)' = Calls(f) \ {w}
      BY <1>1, <2>1, <2>2, <2>3 DEF Calls
    <3>2. /\ ledger'[f].granted = ledger[f].granted
          /\ ledger'[f].performed \in {ledger[f].performed, ledger[f].performed + 1}
      BY <1>0, <2>1, <2>3
    <3> QED
      BY <2>1, <3>1, <3>2, CallEnds
  <2>4. CASE f # g
    <3>1. Calls(f)' \subseteq Calls(f)
      BY <1>1, <2>2 DEF Calls
    <3>2. ledger'[f] = ledger[f]
      BY <1>0, <2>1, <2>4
    <3> QED
      BY <2>1, <3>1, <3>2, CallsShrink
  <2> QED
    BY <2>3, <2>4
<1>7. CASE Abandon(w) \/ \E status \in Outcomes : Interrupt(w, status)
  <2>1. /\ UNCHANGED ledger
        /\ detached' = IF Isolation = "thread" /\ worker[w].pc = "calling"
                       THEN [detached EXCEPT ![g] = @ + 1] ELSE detached
    BY <1>7 DEF Abandon, Interrupt
  <2>2. worker'[w].pc \in {"idle", "done"}
    <3>1. CASE Abandon(w)
      BY <1>0, <3>1 DEF Abandon, Idle
    <3>2. ASSUME NEW status \in Outcomes, Interrupt(w, status)
          PROVE  worker'[w].pc = "done"
      BY <1>0, <3>2 DEF Interrupt, Invocations
    <3> QED
      BY <1>7, <3>1, <3>2
  <2>3. CASE f = g /\ worker[w].pc = "calling"
    <3>1. w \in Calls(f) /\ Calls(f)' = Calls(f) \ {w}
      BY <1>1, <2>2, <2>3 DEF Calls
    <3>2. detached'[f] \in {detached[f], detached[f] + 1}
      BY <1>0, <2>1, <2>3
    <3> QED
      BY <2>1, <3>1, <3>2, CallEnds
  <2>4. CASE f # g \/ worker[w].pc # "calling"
    <3>1. Calls(f)' \subseteq Calls(f)
      BY <1>1, <2>2 DEF Calls
    <3>2. detached'[f] = detached[f]
      BY <1>0, <2>1, <2>4
    <3> QED
      BY <2>1, <3>1, <3>2, CallsShrink
  <2> QED
    BY <2>3, <2>4
<1> QED
  BY <1>2, <1>3, <1>4, <1>5, <1>6, <1>7 DEF WorkerStep

\* Every step keeps the permissions counted.
LEMMA PermittedStep ==
    ASSUME LedgerInv, [Next]_vars, NEW f \in Effects
    PROVE  Permitted(f)'
<1>0. /\ ledger \in [Effects -> [granted : Nat, performed : Nat, waived : Nat]]
      /\ detached \in [Effects -> Nat]
  BY DEF LedgerInv, KernelInv, TypeOK
<1>1. CASE \E w \in Workers : WorkerStep(w)
  BY <1>1, WorkerPermits
<1>2. CASE \/ \E e \in Executions : Submit(e) \/ CancelBeforeAccept(e) \/ Cancel(e) \/ ResolveObligation(e)
           \/ \E g \in Effects, d \in Decisions : WriteOrder(g, d)
           \/ Reap \/ Tick \/ UNCHANGED vars
  <2>1. UNCHANGED <<worker, ledger, detached>>
    BY <1>2 DEF Submit, CancelBeforeAccept, Cancel, ResolveObligation, WriteOrder, Reap, Tick, vars
  <2>2. Calls(f)' = Calls(f)
    BY <2>1 DEF Calls
  <2> QED
    BY <2>1, <2>2, CallsShrink
<1>3. ASSUME NEW g \in Effects, PerformDetached(g)
      PROVE  Permitted(f)'
  <2>1. /\ UNCHANGED worker /\ detached[g] > 0 /\ detached' = [detached EXCEPT ![g] = @ - 1]
        /\ ledger' = [ledger EXCEPT ![g].performed = @ + 1]
    BY <1>3 DEF PerformDetached
  <2>2. Calls(f)' = Calls(f)
    BY <2>1 DEF Calls
  <2>3. CASE f = g
    <3>1. /\ ledger'[f].granted = ledger[f].granted /\ ledger'[f].performed = ledger[f].performed + 1
          /\ detached'[f] = detached[f] - 1
          /\ ledger[f].granted \in Nat /\ ledger[f].performed \in Nat /\ detached[f] \in Nat
      BY <1>0, <2>1, <2>3
    <3>2. Permitted(f)
      BY DEF LedgerInv
    <3>3. Cardinality(Calls(f)) \in Nat
      BY <3>2, FS_CardinalityType DEF Permitted
    <3> QED
      BY <2>2, <3>1, <3>2, <3>3 DEF Permitted
  <2>4. CASE f # g
    <3>1. ledger'[f] = ledger[f] /\ detached'[f] = detached[f]
      BY <1>0, <2>1, <2>4
    <3> QED
      BY <2>2, <3>1, CallsShrink
  <2> QED
    BY <2>3, <2>4
<1>4. ASSUME NEW o \in orders, ResolveEffect(o)
      PROVE  Permitted(f)'
  <2>1. /\ UNCHANGED <<worker, detached>>
        /\ ledger' = IF o.decision = "applied" THEN ledger ELSE [ledger EXCEPT ![o.effect].waived = @ + 1]
    BY <1>4 DEF ResolveEffect
  <2>2. Calls(f)' = Calls(f)
    BY <2>1 DEF Calls
  <2>3. ledger'[f].granted = ledger[f].granted /\ ledger'[f].performed = ledger[f].performed
    BY <1>0, <2>1
  <2> QED
    BY <2>1, <2>2, <2>3, CallsShrink
<1> QED
  BY <1>1, <1>2, <1>3, <1>4 DEF Next

LEMMA InitLedger == Init => LedgerInv
<1> SUFFICES ASSUME Init PROVE LedgerInv
  OBVIOUS
<1>1. KernelInv
  BY InitTyped, InitSound DEF KernelInv
<1>2. orders = {} /\ IsFiniteSet(orders)
  BY FS_EmptySet DEF Init
<1>3. ASSUME NEW f \in Effects
      PROVE  Permitted(f) /\ Justified(f) /\ Ordered(f)
  <2>1. /\ ledger[f].granted = 0 /\ ledger[f].performed = 0 /\ ledger[f].waived = 0 /\ detached[f] = 0
    BY DEF Init
  <2>2. Calls(f) = {}
    BY DEF Init, Calls, Idle
  <2>3. Permitted(f)
    BY <2>1, <2>2, FS_EmptySet DEF Permitted
  <2>4. Obeyed(f) = {}
    BY <1>2 DEF Obeyed, WrittenFor
  <2> QED
    BY <2>1, <2>3, <2>4, FS_EmptySet DEF Justified, Ordered
<1> QED
  BY <1>1, <1>2, <1>3 DEF LedgerInv

LEMMA StepLedger == LedgerInv /\ [Next]_vars => LedgerInv'
<1> SUFFICES ASSUME LedgerInv, [Next]_vars PROVE LedgerInv'
  OBVIOUS
<1>1. KernelInv'
  BY StepSound DEF LedgerInv
<1>2. IsFiniteSet(orders')
  BY OrdersGrow DEF LedgerInv
<1>3. \A f \in Effects : Permitted(f)' /\ Justified(f)' /\ Ordered(f)'
  BY <1>1, PermittedStep, RecordStep
<1> QED
  BY <1>1, <1>2, <1>3 DEF LedgerInv

LEMMA AlwaysLedger == Spec => []LedgerInv
BY InitLedger, StepLedger, PTL DEF Spec

\* Nothing is replayed by itself, nor by a decision that arrives late or twice:
\* the outside world sees an effect once, and once more for each different
\* "not_applied" order that operators wrote about it.
THEOREM OncePerDecision == Spec => []AtMostOncePerDecision
<1>1. ASSUME LedgerInv, NEW f \in Effects
      PROVE  ledger[f].performed <= 1 + Cardinality(WrittenFor(f, "not_applied"))
  <2>1. Permitted(f) /\ Justified(f) /\ Ordered(f) /\ IsFiniteSet(orders)
    BY <1>1 DEF LedgerInv
  <2>2. /\ ledger[f].granted \in Nat /\ ledger[f].performed \in Nat /\ ledger[f].waived \in Nat
        /\ detached[f] \in Nat
    BY <1>1 DEF LedgerInv, KernelInv, TypeOK
  <2>3. Cardinality(Calls(f)) \in Nat
    BY <2>1, FS_CardinalityType DEF Permitted
  <2>4. WrittenFor(f, "not_applied") \in SUBSET orders
    BY DEF WrittenFor
  <2>5. IsFiniteSet(WrittenFor(f, "not_applied"))
    BY <2>1, <2>4, FS_Subset
  <2>6. Obeyed(f) \in SUBSET WrittenFor(f, "not_applied")
    BY DEF Obeyed
  <2>7. IsFiniteSet(Obeyed(f)) /\ Cardinality(Obeyed(f)) <= Cardinality(WrittenFor(f, "not_applied"))
    BY <2>5, <2>6, FS_Subset
  <2>8. Cardinality(Obeyed(f)) \in Nat /\ Cardinality(WrittenFor(f, "not_applied")) \in Nat
    BY <2>5, <2>7, FS_CardinalityType
  <2> QED
    BY <2>1, <2>2, <2>3, <2>7, <2>8 DEF Permitted, Justified, Ordered
<1>2. LedgerInv => AtMostOncePerDecision
  BY <1>1 DEF AtMostOncePerDecision
<1> QED
  BY <1>2, AlwaysLedger, PTL

\* An effect that happened more often than operators said it did not is on
\* record as committed or as possibly applied: no crash, expiry, cancellation or
\* abandoned thread makes the kernel forget it.
THEOREM EffectsRemembered == Spec => []NoForgottenEffect
<1>1. ASSUME LedgerInv, NEW f \in Effects, ledger[f].performed > ledger[f].waived
      PROVE  effect[f].state \in {"performing", "indeterminate", "committed"}
  <2>1. Permitted(f) /\ Justified(f)
    BY <1>1 DEF LedgerInv
  <2>2. /\ ledger[f].granted \in Nat /\ ledger[f].performed \in Nat /\ ledger[f].waived \in Nat
        /\ detached[f] \in Nat /\ effect[f] \in EffectRows
    BY <1>1 DEF LedgerInv, KernelInv, TypeOK
  <2>3. Cardinality(Calls(f)) \in Nat
    BY <2>1, FS_CardinalityType DEF Permitted
  <2>4. effect[f].state \notin Fresh
    BY <1>1, <2>1, <2>2, <2>3 DEF Permitted, Justified
  <2> QED
    BY <2>2, <2>4 DEF EffectRows, EffectStates, UnfinishedStates, Fresh
<1>2. LedgerInv => NoForgottenEffect
  BY <1>1 DEF NoForgottenEffect
<1> QED
  BY <1>2, AlwaysLedger, PTL

-----------------------------------------------------------------------------
(* Refinement: a step of the kernel is a step of ExecutionPromise.         *)

\* An effect is performed only by a call that has a permission.
LEMMA PerformedStep ==
    ASSUME LedgerInv, [Next]_vars, NEW f \in Effects
    PROVE  \/ ledger'[f].performed = ledger[f].performed
           \/ /\ ledger[f].performed < ledger[f].granted
              /\ ledger'[f].performed = ledger[f].performed + 1
<1>0. /\ ledger \in [Effects -> [granted : Nat, performed : Nat, waived : Nat]]
      /\ detached \in [Effects -> Nat] /\ \A w \in Workers : Linked(worker[w])
  BY DEF LedgerInv, KernelInv, TypeOK
<1>1. Permitted(f) /\ Cardinality(Calls(f)) \in Nat
  <2>1. Permitted(f)
    BY DEF LedgerInv
  <2> QED
    BY <2>1, FS_CardinalityType DEF Permitted
<1>2. /\ ledger[f].granted \in Nat /\ ledger[f].performed \in Nat /\ detached[f] \in Nat
  BY <1>0
<1>3. ASSUME NEW g \in Effects, ledger' = [ledger EXCEPT ![g].performed = @ + 1],
             Calls(g) # {} \/ detached[g] > 0
      PROVE  \/ ledger'[f].performed = ledger[f].performed
             \/ /\ ledger[f].performed < ledger[f].granted
                /\ ledger'[f].performed = ledger[f].performed + 1
  <2>1. CASE f = g
    <3>1. Calls(f) # {} => Cardinality(Calls(f)) # 0
      BY <1>1, FS_EmptySet DEF Permitted
    <3>2. ledger[f].performed < ledger[f].granted
      BY <1>1, <1>2, <1>3, <2>1, <3>1 DEF Permitted
    <3>3. ledger'[f].performed = ledger[f].performed + 1
      BY <1>0, <1>3, <2>1
    <3> QED
      BY <3>2, <3>3
  <2>2. CASE f # g
    BY <1>0, <1>3, <2>2
  <2> QED
    BY <2>1, <2>2
<1>4. ASSUME NEW w \in Workers, Perform(w)
      PROVE  \/ ledger'[f].performed = ledger[f].performed
             \/ /\ ledger[f].performed < ledger[f].granted
                /\ ledger'[f].performed = ledger[f].performed + 1
  <2>1. w \in Calls(worker[w].effect) /\ worker[w].effect \in Effects
    BY <1>0, <1>4 DEF Perform, CanRun, Calls, Linked, EffectPcs
  <2>2. ledger' = ledger \/ ledger' = [ledger EXCEPT ![worker[w].effect].performed = @ + 1]
    BY <1>4 DEF Perform
  <2> QED
    BY <1>3, <2>1, <2>2
<1>5. ASSUME NEW w \in Workers, WorkerStep(w), ~Perform(w)
      PROVE  ledger'[f].performed = ledger[f].performed
  <2>1. CASE ClaimEffect(w)
    <3>1. ledger' = [ledger EXCEPT ![worker[w].effect].granted = @ + 1]
      BY <2>1 DEF ClaimEffect
    <3> QED
      BY <1>0, <3>1
  <2>2. CASE ~ClaimEffect(w)
    BY <1>5, <2>2 DEF WorkerStep, Claim, ClaimAndStart, ClaimAs, Start, Renew, Register, Spawn, NotInvoked,
                PrepareEffect, VerifyClaim, CommitEffect, MarkIndeterminate, Swallow,
                Finish, Interrupt, Complete, RequireRecovery, CompleteAgain, DeadLetter, CancelLease,
                Abandon, Crash, OrphanExit
  <2> QED
    BY <2>1, <2>2
<1>6. ASSUME NEW g \in Effects, PerformDetached(g)
      PROVE  \/ ledger'[f].performed = ledger[f].performed
             \/ /\ ledger[f].performed < ledger[f].granted
                /\ ledger'[f].performed = ledger[f].performed + 1
  BY <1>3, <1>6 DEF PerformDetached
<1>7. ASSUME NEW o \in orders, ResolveEffect(o)
      PROVE  ledger'[f].performed = ledger[f].performed
  <2>1. ledger' = IF o.decision = "applied" THEN ledger ELSE [ledger EXCEPT ![o.effect].waived = @ + 1]
    BY <1>7 DEF ResolveEffect
  <2> QED
    BY <1>0, <2>1
<1>8. CASE \/ \E e \in Executions : Submit(e) \/ CancelBeforeAccept(e) \/ Cancel(e) \/ ResolveObligation(e)
           \/ \E g \in Effects, d \in Decisions : WriteOrder(g, d)
           \/ Reap \/ Tick \/ UNCHANGED vars
  BY <1>8 DEF Submit, CancelBeforeAccept, Cancel, ResolveObligation, WriteOrder, Reap, Tick, vars
<1> QED
  BY <1>4, <1>5, <1>6, <1>7, <1>8 DEF Next

Verdict(e) == outbox[e].status
Knows(f) == CASE effect[f].state \in {"absent", "prepared", "not_applied"} -> "fresh"
              [] effect[f].state \in {"performing", "indeterminate"} -> "unknown"
              [] effect[f].state = "committed" -> "applied"

\* What is known about an effect is one of three things, and a verdict is given or not.
LEMMA PromiseTyped ==
    ASSUME TypeOK'
    PROVE  /\ \A f \in Effects : Knows(f)' \in {"fresh", "unknown", "applied"}
           /\ \A e \in Executions : Verdict(e)' \in TerminalStates \cup {"none"}
<1>1. ASSUME NEW f \in Effects PROVE Knows(f)' \in {"fresh", "unknown", "applied"}
  <2>1. effect'[f].state \in EffectStates
    BY DEF TypeOK, EffectRows
  <2> QED
    BY <2>1 DEF Knows, EffectStates, UnfinishedStates
<1>2. ASSUME NEW e \in Executions PROVE Verdict(e)' \in TerminalStates \cup {"none"}
  <2>1. outbox'[e] \in Results \cup {NoResult}
    BY DEF TypeOK
  <2> QED
    BY <2>1 DEF Verdict, Results, NoResult
<1> QED
  BY <1>1, <1>2

\* Before an execution ends there is no verdict on it.
LEMMA NoVerdictYet ==
    ASSUME KernelInv, NEW e \in Executions, execution[e].state \notin TerminalStates
    PROVE  Verdict(e) = "none"
BY DEF KernelInv, Sound, Reported, Verdict, NoResult

LEMMA JudgeStep ==
    ASSUME KernelInv, KernelInv', [Next]_vars, NEW e \in Executions
    PROVE  \/ Verdict(e)' = Verdict(e)
           \/ /\ Verdict(e) = "none" /\ Verdict(e)' \in TerminalStates
              /\ \A f \in Effects : OwnerOf[f] = e => Knows(f)' # "unknown"
<1>1. Kept(e)
  BY StepKept DEF KernelInv
<1>2. CASE Same(e)
  BY <1>2 DEF Same, Verdict
<1>3. CASE execution[e].state \notin TerminalStates /\ Sound(e)'
  <2>1. Verdict(e) = "none"
    BY <1>3, NoVerdictYet
  <2>2. CASE execution'[e].state \notin TerminalStates
    BY <1>3, <2>1, <2>2 DEF Sound, Reported, Verdict, NoResult
  <2>3. CASE execution'[e].state \in TerminalStates
    <3>1. ASSUME NEW f \in Effects, OwnerOf[f] = e PROVE Knows(f)' # "unknown"
      <4>1. effect'[f].state \notin UnfinishedStates
        BY <1>3, <2>3, <3>1 DEF Sound, Owned, TerminalStates, UnfinishedStates
      <4>2. effect'[f].state \in EffectStates
        BY DEF KernelInv, TypeOK, EffectRows
      <4> QED
        BY <4>1, <4>2 DEF Knows, EffectStates, UnfinishedStates
    <3>2. Verdict(e)' \in TerminalStates \cup {"none"}
      BY PromiseTyped DEF KernelInv
    <3> QED
      BY <2>1, <3>1, <3>2
  <2> QED
    BY <2>2, <2>3
<1> QED
  BY <1>1, <1>2, <1>3 DEF Kept

LEMMA LearnStep ==
    ASSUME KernelInv, KernelInv', [Next]_vars, NEW f \in Effects
    PROVE  \/ Knows(f)' = Knows(f) /\ ledger'[f].granted = ledger[f].granted
           \/ /\ Verdict(OwnerOf[f]) = "none"
              /\ \/ /\ Knows(f) = "fresh" /\ Knows(f)' = "unknown"
                    /\ ledger'[f].granted \in {ledger[f].granted, ledger[f].granted + 1}
                 \/ /\ Knows(f) = "unknown" /\ Knows(f)' \in {"fresh", "applied"}
                    /\ ledger'[f].granted = ledger[f].granted
<1>1. OwnerOf[f] \in Executions
  BY EffectsAssumption
<1>2. execution[OwnerOf[f]].state \notin TerminalStates => Verdict(OwnerOf[f]) = "none"
  BY <1>1, NoVerdictYet
<1>3. CASE Undisturbed(f)
  <2>1. CASE effect'[f] = effect[f]
    BY <1>3, <2>1 DEF Undisturbed, Knows
  <2>2. CASE /\ execution[OwnerOf[f]].state \notin TerminalStates
             /\ effect[f].state \in Fresh /\ effect'[f].state \in Fresh
    BY <1>3, <2>2 DEF Undisturbed, Knows, Fresh
  <2>3. CASE /\ execution[OwnerOf[f]].state \notin TerminalStates
             /\ effect[f].state \in Fresh /\ effect'[f].state = "indeterminate"
    BY <1>2, <1>3, <2>3 DEF Undisturbed, Knows, Fresh
  <2>4. CASE /\ execution[OwnerOf[f]].state \notin TerminalStates
             /\ effect[f].state = "performing" /\ effect'[f].state = "indeterminate"
    BY <1>3, <2>4 DEF Undisturbed, Knows
  <2>5. CASE /\ execution[OwnerOf[f]].state \notin TerminalStates
             /\ effect[f].state = "performing" /\ effect'[f].state = "committed"
    BY <1>2, <1>3, <2>5 DEF Undisturbed, Knows
  <2> QED
    BY <1>3, <2>1, <2>2, <2>3, <2>4, <2>5 DEF Undisturbed, Evolves
<1>4. CASE Granting(f)
  <2>1. Verdict(OwnerOf[f]) = "none"
    BY <1>2, <1>4, UnfinishedAlive DEF Granting, UnfinishedStates
  <2> QED
    BY <1>4, <2>1 DEF Granting, Knows
<1>5. CASE Obeying(f)
  <2>1. Verdict(OwnerOf[f]) = "none"
    BY <1>2, <1>5, UnfinishedAlive DEF Obeying, UnfinishedStates
  <2>2. effect[f].state = "indeterminate" /\ effect'[f].state \in {"committed", "not_applied"}
    BY <1>5 DEF Obeying
  <2>3. ledger'[f].granted = ledger[f].granted
    BY <1>5 DEF Obeying
  <2>4. Knows(f) = "unknown" /\ Knows(f)' \in {"fresh", "applied"}
    BY <2>2 DEF Knows
  <2> QED
    BY <2>1, <2>3, <2>4
<1> QED
  BY <1>3, <1>4, <1>5, StepEvolves

LEMMA InitPromised == Init => Promise!Init
<1> SUFFICES ASSUME Init PROVE Promise!Init
  OBVIOUS
<1>1. \A e \in Executions : outbox[e].status = "none"
  BY DEF Init, NoResult
<1>2. \A f \in Effects : Knows(f) = "fresh" /\ ledger[f].granted = 0 /\ ledger[f].performed = 0
  BY DEF Init, Knows
<1> QED
  BY <1>1, <1>2 DEF Promise!Init, Knows

LEMMA StepPromised ==
    ASSUME LedgerInv, LedgerInv', [Next]_vars
    PROVE  Promise!Next
<1>1. /\ \A f \in Effects : Knows(f)' \in {"fresh", "unknown", "applied"}
      /\ \A e \in Executions : Verdict(e)' \in TerminalStates \cup {"none"}
  <2>1. TypeOK'
    BY DEF LedgerInv, KernelInv
  <2> QED
    BY <2>1, PromiseTyped
<1>2. \A e \in Executions : Promise!Judge(e)
  BY JudgeStep DEF LedgerInv, Promise!Judge, Verdict, Knows
<1>3. ASSUME NEW f \in Effects PROVE Promise!Learn(f)
  <2>1. OwnerOf[f] \in Executions
    BY EffectsAssumption
  <2>2. CASE Knows(f)' = Knows(f) /\ ledger'[f].granted = ledger[f].granted
    <3>1. effect[f].state \in EffectStates /\ effect'[f].state \in EffectStates
      BY DEF LedgerInv, KernelInv, TypeOK, EffectRows
    <3> QED
      BY <2>2, <3>1 DEF Promise!Learn, Knows, EffectStates, UnfinishedStates
  <2>3. CASE /\ Verdict(OwnerOf[f]) = "none"
             /\ Knows(f) = "fresh" /\ Knows(f)' = "unknown"
             /\ ledger'[f].granted \in {ledger[f].granted, ledger[f].granted + 1}
    BY <2>1, <2>3 DEF Promise!Learn, Knows, Verdict
  <2>4. CASE /\ Verdict(OwnerOf[f]) = "none"
             /\ Knows(f) = "unknown" /\ Knows(f)' \in {"fresh", "applied"}
             /\ ledger'[f].granted = ledger[f].granted
    BY <2>1, <2>4 DEF Promise!Learn, Knows, Verdict
  <2> QED
    BY <2>2, <2>3, <2>4, LearnStep DEF LedgerInv
<1>4. \A f \in Effects : Promise!Perform(f)
  BY PerformedStep DEF Promise!Perform
<1> QED
  BY <1>1, <1>2, <1>3, <1>4 DEF Promise!Next, Promise!Knowledge, Verdict, Knows

\* The kernel keeps its promise: one verdict that lasts, no verdict while an
\* effect is uncertain, and no call without a permission of its own.
THEOREM PromiseKept == Spec => KeepsPromise
<1>1. LedgerInv /\ LedgerInv' /\ [Next]_vars => [Promise!Next]_(Promise!vars)
  BY StepPromised
<1> QED
  BY <1>1, InitPromised, AlwaysLedger, PTL DEF Spec, KeepsPromise, Promise!Spec

-----------------------------------------------------------------------------
(* The ways one row moves in one transaction.                              *)

\* A row that waits for a decision says where it will go, no other does, and a
\* row not admitted yet is blank.
Regular(row) ==
    /\ row.target # "none" <=> row.state = "recovery_required"
    /\ row.state = "absent" => row.revision = 0 /\ row.attempt = 0 /\ row.fence = 0

Counts(old, new) == new.attempt = old.attempt /\ new.fence = old.fence

Rests(old, new) ==
    new.state = old.state /\ new.revision = old.revision /\ new.target = old.target /\ Counts(old, new)

Admits(old, new) == old.state = "absent" /\ new.state = "queued" /\ Counts(old, new)

GoesOn(old, new) == old.state \in ActiveStates /\ new.state \in ActiveStates /\ Counts(old, new)

Requeues(old, new) ==
    /\ old.state \in ActiveStates /\ old.attempt < MaxAttempts
    /\ new.state = "queued" /\ Counts(old, new)

Parks(old, new) ==
    old.state \in ActiveStates /\ new.state = "recovery_required" /\ Counts(old, new)

Waits(old, new) ==
    /\ old.state = "recovery_required" /\ new.state = "recovery_required" /\ Counts(old, new)
    /\ old.target = "cancelled" => new.target = "cancelled"

Ends(old, new) ==
    /\ old.state \notin TerminalStates /\ new.state \in TerminalStates /\ Counts(old, new)
    /\ old.state \notin ActiveStates => new.state = "cancelled"

Advances(old, new) ==
    /\ new.revision > old.revision
    /\ Regular(new)
    /\ \/ Admits(old, new) \/ GoesOn(old, new) \/ Requeues(old, new)
       \/ Parks(old, new) \/ Waits(old, new) \/ Ends(old, new)

Moves(old, new) == Rests(old, new) \/ Advances(old, new)

\* A claim, which the expiry of the last lease may precede in the same transaction
Claimed(e) ==
    LET old == execution[e]
        new == execution'[e]
    IN  /\ old.state = "queued" \/ (old.state \in ActiveStates /\ old.attempt < MaxAttempts)
        /\ new.state \in ActiveStates
        /\ new.attempt = old.attempt + 1 /\ new.fence = old.fence + 1
        /\ new.revision > old.revision
        /\ Regular(new)
        /\ ~OpenObligation(e)

\* resolve_effect: the last decision about a parked execution sends it back
Obeys(o, e) ==
    /\ OwnerOf[o.effect] = e
    /\ o.revision = effect[o.effect].revision
    /\ effect'[o.effect].revision > o.revision

Released(e) ==
    /\ execution[e].state = "recovery_required" /\ execution[e].target = "queued"
    /\ execution'[e].state = "queued" /\ execution'[e].revision > execution[e].revision
    /\ Regular(execution'[e]) /\ Counts(execution[e], execution'[e])
    /\ \E o \in orders : Obeys(o, e)

RowsInv == KernelInv /\ \A e \in Executions : Regular(execution[e])

LEMMA StateNames ==
    /\ TerminalStates \cap ({"absent", "queued", "recovery_required"} \cup ActiveStates) = {}
    /\ {"absent", "queued", "recovery_required"} \cap ActiveStates = {}
    /\ {"dead", "cancelled", "succeeded", "failed"} = TerminalStates
    /\ {"leased", "running"} = ActiveStates
BY DEF TerminalStates, ActiveStates

LEMMA SameRests == ASSUME NEW row PROVE Moves(row, row)
BY DEF Moves, Rests, Counts

-----------------------------------------------------------------------------
(* Row updates.                                                            *)

LEMMA TerminalRowMoves ==
    ASSUME NEW row \in Rows, NEW status \in TerminalStates, row.state \notin TerminalStates,
           row.state \notin ActiveStates => status = "cancelled"
    PROVE  Moves(row, TerminalRow(row, status))
<1> DEFINE new == TerminalRow(row, status)
<1>1. /\ new.state = status /\ new.target = "none" /\ new.revision = row.revision + 1
      /\ new.attempt = row.attempt /\ new.fence = row.fence
  BY DEF TerminalRow, Rows
<1>2. row.revision \in Nat
  BY DEF Rows
<1>3. Ends(row, new)
  BY <1>1 DEF Ends, Counts
<1>4. Regular(new)
  BY <1>1, StateNames DEF Regular
<1> HIDE DEF new
<1>5. new.revision > row.revision
  BY <1>1, <1>2
<1> QED
  BY <1>3, <1>4, <1>5 DEF Moves, Advances, new

LEMMA RequeuedRowMoves ==
    ASSUME NEW row \in Rows, Regular(row), row.state \in ActiveStates, row.attempt < MaxAttempts
    PROVE  Moves(row, RequeuedRow(row))
<1> DEFINE new == RequeuedRow(row)
<1>1. /\ new.state = "queued" /\ new.target = row.target /\ new.revision = row.revision + 1
      /\ new.attempt = row.attempt /\ new.fence = row.fence
  BY DEF RequeuedRow, Rows
<1>2. row.revision \in Nat
  BY DEF Rows
<1>3. Requeues(row, new)
  BY <1>1 DEF Requeues, Counts
<1>4. Regular(new)
  BY <1>1, StateNames DEF Regular
<1> HIDE DEF new
<1>5. new.revision > row.revision
  BY <1>1, <1>2
<1> QED
  BY <1>3, <1>4, <1>5 DEF Moves, Advances, new

LEMMA ParkedRowMoves ==
    ASSUME TypeOK, NEW e \in Executions, NEW target \in {"queued", "cancelled"},
           execution[e].state \in ActiveStates
    PROVE  Moves(execution[e], ParkedRow(e, target))
<1> DEFINE new == ParkedRow(e, target)
<1>0. execution[e] \in Rows
  BY DEF TypeOK
<1>1. /\ new.state = "recovery_required" /\ new.target = target /\ new.revision = execution[e].revision + 1
      /\ new.attempt = execution[e].attempt /\ new.fence = execution[e].fence
  BY <1>0 DEF ParkedRow, Rows
<1>2. execution[e].revision \in Nat
  BY <1>0 DEF Rows
<1>3. Parks(execution[e], new)
  BY <1>1 DEF Parks, Counts
<1>4. Regular(new)
  BY <1>1 DEF Regular
<1> HIDE DEF new
<1>5. new.revision > execution[e].revision
  BY <1>1, <1>2
<1> QED
  BY <1>3, <1>4, <1>5 DEF Moves, Advances, new

\* What the expiry sweep makes of a row: it rests, is parked or ends, or returns
\* to the queue with a part of its budget left.
LEMMA ReapMoves ==
    ASSUME RowsInv, NEW e \in Executions
    PROVE  /\ Moves(execution[e], ReapedRow(e))
           /\ ReapedRow(e).state = "queued" =>
                 \/ execution[e].state = "queued"
                 \/ execution[e].state \in ActiveStates /\ execution[e].attempt < MaxAttempts
           /\ ReapedRow(e).attempt = execution[e].attempt /\ ReapedRow(e).fence = execution[e].fence
           /\ ReapedRow(e).revision >= execution[e].revision
           /\ ReapedRow(e).state = "queued" => ReapedRow(e).target = "none"
           /\ ReapedRow(e) \in Rows
<1>0. execution[e] \in Rows /\ TypeOK /\ Regular(execution[e]) /\ ReapedRow(e) \in Rows
  BY ReapedType DEF RowsInv, KernelInv, TypeOK, Reaped
<1>1. execution[e].revision \in Nat /\ execution[e].attempt \in Nat /\ MaxAttempts \in Nat
  BY <1>0, PolicyAssumption DEF Rows
<1>2. CASE ~Expired(e)
  <2>1. ReapedRow(e) = execution[e]
    BY <1>2 DEF ReapedRow
  <2> QED
    BY <1>0, <1>1, <2>1, SameRests DEF Regular
<1>3. CASE Expired(e) /\ Unfinished(e) # {}
  <2>1. ReapedRow(e) = ParkedRow(e, "queued") /\ execution[e].state \in ActiveStates
    BY <1>3 DEF ReapedRow, Expired
  <2>2. /\ ParkedRow(e, "queued").state = "recovery_required"
        /\ ParkedRow(e, "queued").revision = execution[e].revision + 1
        /\ ParkedRow(e, "queued").attempt = execution[e].attempt
        /\ ParkedRow(e, "queued").fence = execution[e].fence
    BY <1>0 DEF ParkedRow, Rows
  <2> QED
    BY <1>0, <1>1, <2>1, <2>2, ParkedRowMoves
<1>4. CASE Expired(e) /\ Unfinished(e) = {} /\ execution[e].attempt >= MaxAttempts
  <2>1. ReapedRow(e) = TerminalRow(execution[e], "dead") /\ execution[e].state \in ActiveStates
    BY <1>4 DEF ReapedRow, Expired
  <2>2. /\ TerminalRow(execution[e], "dead").state = "dead"
        /\ TerminalRow(execution[e], "dead").revision = execution[e].revision + 1
        /\ TerminalRow(execution[e], "dead").attempt = execution[e].attempt
        /\ TerminalRow(execution[e], "dead").fence = execution[e].fence
    BY <1>0 DEF TerminalRow, Rows
  <2>3. Moves(execution[e], TerminalRow(execution[e], "dead"))
    BY <1>0, <2>1, StateNames, TerminalRowMoves
  <2> QED
    BY <1>0, <1>1, <2>1, <2>2, <2>3
<1>5. CASE Expired(e) /\ Unfinished(e) = {} /\ ~(execution[e].attempt >= MaxAttempts)
  <2>1. ReapedRow(e) = RequeuedRow(execution[e]) /\ execution[e].state \in ActiveStates
    BY <1>5 DEF ReapedRow, Expired
  <2>2. execution[e].attempt < MaxAttempts
    BY <1>1, <1>5
  <2>3. /\ RequeuedRow(execution[e]).state = "queued"
        /\ RequeuedRow(execution[e]).target = execution[e].target
        /\ RequeuedRow(execution[e]).revision = execution[e].revision + 1
        /\ RequeuedRow(execution[e]).attempt = execution[e].attempt
        /\ RequeuedRow(execution[e]).fence = execution[e].fence
    BY <1>0 DEF RequeuedRow, Rows
  <2>4. execution[e].target = "none"
    BY <1>0, <2>1, StateNames DEF Regular
  <2>5. Moves(execution[e], RequeuedRow(execution[e]))
    BY <1>0, <2>1, <2>2, RequeuedRowMoves
  <2> QED
    BY <1>0, <1>1, <2>1, <2>2, <2>3, <2>4, <2>5
<1> QED
  BY <1>2, <1>3, <1>4, <1>5

\* claim and claim_and_start
LEMMA ClaimMoves ==
    ASSUME RowsInv, NEW w \in Workers, NEW c \in Executions, NEW state \in ActiveStates,
           NEW steps \in Nat \ {0}, NEW pc, ClaimAs(w, c, state, steps, pc), NEW e \in Executions
    PROVE  IF e = c THEN Claimed(e) ELSE Moves(execution[e], execution'[e])
<1>1. /\ Reaped[c].state = "queued"
      /\ execution' = [Reaped EXCEPT ![c] = ClaimedRow(w, Reaped[c], state, steps)]
  BY DEF ClaimAs, Claimable
<1>2. Reaped[e] = ReapedRow(e) /\ Reaped[c] = ReapedRow(c) /\ Reaped \in [Executions -> Rows]
  BY ReapedType DEF Reaped, RowsInv, KernelInv
<1>3. CASE e # c
  BY <1>1, <1>2, <1>3, ReapMoves
<1>4. CASE e = c
  <2> DEFINE old == execution[e]
             mid == ReapedRow(e)
             new == ClaimedRow(w, mid, state, steps)
  <2>1. execution'[e] = new
    BY <1>1, <1>2, <1>4
  <2>2. /\ mid.state = "queued" /\ mid.attempt = old.attempt /\ mid.fence = old.fence
        /\ mid.revision >= old.revision /\ mid.target = "none" /\ mid \in Rows
        /\ old.state = "queued" \/ (old.state \in ActiveStates /\ old.attempt < MaxAttempts)
    BY <1>1, <1>2, <1>4, ReapMoves
  <2>3. mid.revision \in Nat /\ old.revision \in Nat
    BY <2>2 DEF RowsInv, KernelInv, TypeOK, Rows
  <2> HIDE DEF mid, old
  <2>4. /\ new.state = state /\ new.attempt = mid.attempt + 1 /\ new.fence = mid.fence + 1
        /\ new.revision = mid.revision + steps /\ new.target = mid.target
    BY <2>2 DEF ClaimedRow, Rows
  <2> HIDE DEF new
  <2>5. new.revision > old.revision
    BY <2>2, <2>3, <2>4
  <2>6. Regular(new)
    BY <2>2, <2>4, StateNames DEF Regular
  <2>7. ~OpenObligation(e)
    BY <1>4 DEF ClaimAs, Claimable
  <2> QED
    BY <1>4, <2>1, <2>2, <2>4, <2>5, <2>6, <2>7 DEF Claimed, old
<1> QED
  BY <1>3, <1>4

\* The common tail of complete, dead_letter, cancel and require_effect_recovery
LEMMA TailMoves ==
    ASSUME RowsInv, NEW c \in Executions, NEW target \in {"queued", "cancelled"}, NEW row,
           ParkOrElse(c, target, row),
           execution[c].state \in {"queued"} \cup ActiveStates,
           Unfinished(c) = {} => Moves(execution[c], row),
           NEW e \in Executions
    PROVE  Moves(execution[e], execution'[e])
<1>0. TypeOK /\ Sound(c)
  BY DEF RowsInv, KernelInv
<1>1. PICK new : /\ execution' = [execution EXCEPT ![c] = new]
                 /\ Moves(execution[c], new)
  <2>1. CASE Unfinished(c) # {}
    <3>1. PICK f \in Effects : OwnerOf[f] = c /\ effect[f].state \in UnfinishedStates
      BY <2>1 DEF Unfinished
    <3>2. execution[c].state \in ActiveStates
      BY <1>0, <3>1, StateNames DEF Sound, Owned, UnfinishedStates
    <3>3. execution' = [execution EXCEPT ![c] = ParkedRow(c, target)]
      BY <2>1 DEF ParkOrElse
    <3> QED
      BY <1>0, <3>2, <3>3, ParkedRowMoves
  <2>2. CASE Unfinished(c) = {}
    BY <2>2 DEF ParkOrElse
  <2> QED
    BY <2>1, <2>2
<1>2. execution'[e] = IF e = c THEN new ELSE execution[e]
  BY <1>0, <1>1 DEF TypeOK
<1> QED
  BY <1>1, <1>2, SameRests

-----------------------------------------------------------------------------
(* Every step.                                                             *)

\* start and renew
LEMMA LeaseMoves ==
    ASSUME RowsInv, NEW w \in Workers, Start(w) \/ Renew(w), NEW e \in Executions
    PROVE  Moves(execution[e], execution'[e])
<1> DEFINE c == worker[w].exec
<1>0. TypeOK /\ execution \in [Executions -> Rows] /\ execution[e] \in Rows
  BY DEF RowsInv, KernelInv, TypeOK
<1>1. c \in Executions
  BY <1>0, OwnsRowLinked DEF Start, Renew, AssertLease
<1>2. CASE e # c
  <2>1. execution'[e] = execution[e]
    BY <1>0, <1>2 DEF Start, Renew
  <2> QED
    BY <2>1, SameRests
<1>3. CASE e = c
  <2>1. execution[e].state \in ActiveStates
    BY <1>3, StateNames DEF Start, Renew, AssertLease, OwnsRow
  <2>2. \/ execution'[e] = [execution[e] EXCEPT !.state = "running", !.revision = @ + 1]
        \/ execution'[e] = [execution[e] EXCEPT !.ttl = LeaseTicks, !.revision = @ + 1]
    BY <1>0, <1>3 DEF Start, Renew
  <2>3. /\ execution'[e].state \in {"running", execution[e].state}
        /\ execution'[e].revision = execution[e].revision + 1 /\ execution'[e].target = execution[e].target
        /\ Counts(execution[e], execution'[e])
    BY <1>0, <2>2 DEF Rows, Counts
  <2>4. execution[e].revision \in Nat /\ Regular(execution[e])
    BY <1>0 DEF Rows, RowsInv
  <2>5. execution'[e].state \in ActiveStates
    BY <2>1, <2>3, StateNames
  <2>6. GoesOn(execution[e], execution'[e])
    BY <2>1, <2>3, <2>5 DEF GoesOn
  <2>7. Regular(execution'[e])
    BY <2>1, <2>3, <2>4, <2>5, StateNames DEF Regular
  <2>8. execution'[e].revision > execution[e].revision
    BY <2>3, <2>4
  <2> QED
    BY <2>6, <2>7, <2>8 DEF Moves, Advances
<1> QED
  BY <1>2, <1>3

\* prepare_effect
LEMMA PrepareMoves ==
    ASSUME RowsInv, NEW w \in Workers, NEW f \in Effects, PrepareEffect(w, f), NEW e \in Executions
    PROVE  Moves(execution[e], execution'[e])
<1> DEFINE c == worker[w].exec
<1>0. TypeOK /\ execution \in [Executions -> Rows]
  BY DEF RowsInv, KernelInv, TypeOK
<1>1. c \in Executions /\ execution[c].state \in ActiveStates
  BY <1>0, OwnsRowLinked, StateNames DEF PrepareEffect, AssertLease, OwnsRow
<1>2. execution' = execution \/ execution' = [execution EXCEPT ![c] = ParkedRow(c, "queued")]
  BY DEF PrepareEffect
<1>3. Moves(execution[c], ParkedRow(c, "queued"))
  BY <1>0, <1>1, ParkedRowMoves
<1> QED
  BY <1>0, <1>2, <1>3, SameRests

\* What complete makes of a row it may complete
LEMMA CompletedRowMoves ==
    ASSUME NEW row \in Rows, Regular(row), row.state \in ActiveStates, NEW status \in Outcomes
    PROVE  Moves(row, CompletedRow(row, status))
<1>1. row.state \notin TerminalStates /\ row.attempt \in Nat
  BY StateNames DEF Rows
<1>2. CASE status = "retry" /\ row.attempt >= MaxAttempts
  <2>1. CompletedRow(row, status) = TerminalRow(row, "dead")
    BY <1>1, <1>2, PolicyAssumption DEF CompletedRow
  <2> QED
    BY <1>1, <2>1, StateNames, TerminalRowMoves
<1>3. CASE status = "retry" /\ row.attempt < MaxAttempts
  <2>1. CompletedRow(row, status) = RequeuedRow(row)
    BY <1>1, <1>3, PolicyAssumption DEF CompletedRow
  <2> QED
    BY <1>3, <2>1, RequeuedRowMoves
<1>4. CASE status # "retry"
  <2>1. CompletedRow(row, status) = TerminalRow(row, status) /\ status \in {"succeeded", "failed"}
    BY <1>4 DEF CompletedRow, Outcomes
  <2> QED
    BY <1>1, <2>1, StateNames, TerminalRowMoves
<1> QED
  BY <1>1, <1>2, <1>3, <1>4, PolicyAssumption

\* complete, require_effect_recovery, dead_letter and cancel with a lease
LEMMA CompletionMoves ==
    ASSUME RowsInv, NEW w \in Workers,
           \/ \E settlement \in BOOLEAN : Complete(w, settlement) \/ RequireRecovery(w, settlement)
           \/ DeadLetter(w) \/ CancelLease(w),
           NEW e \in Executions
    PROVE  Moves(execution[e], execution'[e])
<1> DEFINE c == worker[w].exec
<1>0. TypeOK /\ worker[w].outcome.status \in Outcomes
  BY DEF RowsInv, KernelInv, TypeOK, Invocations
<1>1. c \in Executions /\ execution[c].state \in ActiveStates
  BY <1>0, OwnsRowLinked, StateNames DEF Complete, RequireRecovery, DeadLetter, CancelLease, AssertLease, OwnsRow
<1>2. execution[c] \in Rows /\ Regular(execution[c]) /\ execution[c].state \notin TerminalStates
  BY <1>1, StateNames DEF RowsInv, KernelInv, TypeOK
<1>3. /\ Moves(execution[c], TerminalRow(execution[c], "dead"))
      /\ Moves(execution[c], TerminalRow(execution[c], "cancelled"))
  BY <1>1, <1>2, StateNames, TerminalRowMoves
<1>4. Moves(execution[c], CompletedRow(execution[c], worker[w].outcome.status))
  BY <1>0, <1>1, <1>2, CompletedRowMoves
<1>5. \/ ParkOrElse(c, "queued", CompletedRow(execution[c], worker[w].outcome.status))
      \/ ParkOrElse(c, "queued", execution[c])
      \/ ParkOrElse(c, "queued", TerminalRow(execution[c], "dead"))
      \/ ParkOrElse(c, "cancelled", TerminalRow(execution[c], "cancelled"))
  BY DEF Complete, RequireRecovery, DeadLetter, CancelLease
<1>6. execution[c].state \in {"queued"} \cup ActiveStates /\ Moves(execution[c], execution[c])
  BY <1>1, SameRests
<1> HIDE DEF c
<1> QED
  BY <1>1, <1>3, <1>4, <1>5, <1>6, TailMoves

\* submit and cancel
LEMMA AdmissionMoves ==
    ASSUME RowsInv, NEW c \in Executions, Submit(c) \/ CancelBeforeAccept(c) \/ Cancel(c), NEW e \in Executions
    PROVE  Moves(execution[e], execution'[e])
<1>0. /\ TypeOK /\ execution \in [Executions -> Rows] /\ execution[c] \in Rows
      /\ Regular(execution[c]) /\ Sound(c)
  BY DEF RowsInv, KernelInv, TypeOK
<1>1. execution[c].revision \in Nat
  BY <1>0 DEF Rows
<1>2. ASSUME NEW new, execution' = [execution EXCEPT ![c] = new], Moves(execution[c], new)
      PROVE  Moves(execution[e], execution'[e])
  BY <1>0, <1>2, SameRests
<1>3. CASE Submit(c)
  <2> DEFINE new == [execution[c] EXCEPT !.state = "queued", !.revision = 1]
  <2>1. execution' = [execution EXCEPT ![c] = new] /\ execution[c].state = "absent"
    BY <1>0, <1>3 DEF Submit
  <2>2. /\ new.state = "queued" /\ new.revision = 1 /\ new.target = execution[c].target
        /\ Counts(execution[c], new)
    BY <1>0 DEF Rows, Counts
  <2> HIDE DEF new
  <2>3. Admits(execution[c], new) /\ Regular(new) /\ new.revision > execution[c].revision
    BY <1>0, <2>1, <2>2 DEF Admits, Regular
  <2> QED
    BY <1>2, <2>1, <2>3 DEF Moves, Advances
<1>4. CASE CancelBeforeAccept(c)
  <2> DEFINE blank == [Absent EXCEPT !.revision = 1]
             new == TerminalRow(blank, "cancelled")
  <2>0. Absent \in Rows
    BY PolicyAssumption DEF Absent, Rows, ExecutionStates
  <2>1. execution' = [execution EXCEPT ![c] = new] /\ execution[c].state = "absent"
    BY <1>4 DEF CancelBeforeAccept
  <2>2. blank \in Rows /\ blank.attempt = 0 /\ blank.fence = 0 /\ blank.revision = 1
    BY <2>0, RowFields DEF Absent
  <2> HIDE DEF blank
  <2>3. /\ new.state = "cancelled" /\ new.target = "none" /\ new.revision = 2
        /\ new.attempt = 0 /\ new.fence = 0
    BY <2>2 DEF TerminalRow, Rows
  <2> HIDE DEF new
  <2>4. Ends(execution[c], new)
    BY <1>0, <2>1, <2>3, StateNames DEF Ends, Counts, Regular
  <2>5. Regular(new) /\ new.revision > execution[c].revision
    BY <1>0, <2>1, <2>3 DEF Regular
  <2> QED
    BY <1>2, <2>1, <2>4, <2>5 DEF Moves, Advances
<1>5. CASE /\ execution[c].state \in {"queued"} \cup ActiveStates
           /\ ParkOrElse(c, "cancelled", TerminalRow(execution[c], "cancelled"))
  <2>1. execution[c].state \notin TerminalStates
    BY <1>5, StateNames
  <2>2. Moves(execution[c], TerminalRow(execution[c], "cancelled"))
    BY <1>0, <2>1, StateNames, TerminalRowMoves
  <2> QED
    BY <1>5, <2>2, TailMoves
<1>6. CASE /\ execution[c].state = "recovery_required"
           /\ execution' = [execution EXCEPT ![c].target = "cancelled", ![c].revision = @ + 1,
                 ![c].pointer = IF @ \in Unfinished(c) THEN @ ELSE First(Unfinished(c))]
  <2> DEFINE new == [execution[c] EXCEPT !.target = "cancelled", !.revision = @ + 1,
                       !.pointer = IF @ \in Unfinished(c) THEN @ ELSE First(Unfinished(c))]
  <2>1. execution' = [execution EXCEPT ![c] = new]
    BY <1>0, <1>6
  <2>2. /\ new.state = "recovery_required" /\ new.revision = execution[c].revision + 1
        /\ new.target = "cancelled" /\ Counts(execution[c], new)
    BY <1>0, <1>6 DEF Rows, Counts
  <2> HIDE DEF new
  <2>3. Waits(execution[c], new) /\ Regular(new) /\ new.revision > execution[c].revision
    BY <1>1, <1>6, <2>2 DEF Waits, Regular
  <2> QED
    BY <1>2, <2>1, <2>3 DEF Moves, Advances
<1> QED
  BY <1>3, <1>4, <1>5, <1>6 DEF Cancel

\* resolve_effect
LEMMA DecisionMoves ==
    ASSUME RowsInv, NEW o \in orders, ResolveEffect(o), NEW e \in Executions
    PROVE  Moves(execution[e], execution'[e]) \/ Released(e)
<1> DEFINE f == o.effect
           c == OwnerOf[f]
           remaining == {g \in Effects : OwnerOf[g] = c /\ g # f /\ effect[g].state = "indeterminate"}
           row == DecidedRow(c, remaining)
<1>0. TypeOK /\ execution \in [Executions -> Rows] /\ effect \in [Effects -> EffectRows]
  BY DEF RowsInv, KernelInv, TypeOK
<1>1. f \in Effects /\ c \in Executions
  BY <1>0, EffectsAssumption DEF TypeOK
<1>2. /\ execution' = [execution EXCEPT ![c] = row]
      /\ execution[c].state = "recovery_required" /\ effect[f].revision = o.revision
      /\ effect'[f].revision = effect[f].revision + 1
  BY <1>0, <1>1 DEF ResolveEffect, Current, EffectRows
<1>3. CASE e # c
  <2>1. execution'[e] = execution[e]
    BY <1>0, <1>2, <1>3
  <2> QED
    BY <2>1, SameRests
<1>4. CASE e = c
  <2>1. /\ execution[e] \in Rows /\ execution[e].revision \in Nat /\ Regular(execution[e])
        /\ execution[e].target \in {"queued", "cancelled"} /\ effect[f].revision \in Nat
    BY <1>0, <1>1, <1>2, <1>4 DEF RowsInv, KernelInv, Sound, Parked, Rows, EffectRows
  <2>2. execution'[e] = row
    BY <1>0, <1>2, <1>4
  <2>3. CASE remaining # {}
    <3>1. row = [execution[e] EXCEPT !.pointer = First(remaining), !.revision = @ + 1]
      BY <1>4, <2>3 DEF DecidedRow
    <3> HIDE DEF row, remaining
    <3>2. /\ row.state = "recovery_required" /\ row.revision = execution[e].revision + 1
          /\ row.target = execution[e].target /\ Counts(execution[e], row)
      BY <1>2, <1>4, <2>1, <3>1 DEF Rows, Counts
    <3>3. Waits(execution[e], row) /\ Regular(row) /\ row.revision > execution[e].revision
      BY <1>2, <1>4, <2>1, <3>2 DEF Waits, Regular
    <3> QED
      BY <2>2, <3>3 DEF Moves, Advances
  <2>4. CASE remaining = {} /\ execution[e].target = "cancelled"
    <3>1. row = TerminalRow(execution[e], "cancelled")
      BY <1>4, <2>4 DEF DecidedRow
    <3> HIDE DEF row
    <3>2. Moves(execution[e], row)
      BY <1>2, <1>4, <2>1, <3>1, StateNames, TerminalRowMoves
    <3> QED
      BY <2>2, <3>2
  <2>5. CASE remaining = {} /\ execution[e].target # "cancelled"
    <3>1. row = [execution[e] EXCEPT !.state = "queued", !.wait = 0, !.pointer = None,
                                     !.target = "none", !.revision = @ + 1]
      BY <1>4, <2>5 DEF DecidedRow
    <3> HIDE DEF row, remaining
    <3>2. /\ row.state = "queued" /\ row.revision = execution[e].revision + 1
          /\ row.target = "none" /\ Counts(execution[e], row)
      BY <2>1, <3>1 DEF Rows, Counts
    <3>3. Regular(row) /\ row.revision > execution[e].revision
      BY <2>1, <3>2 DEF Regular
    <3>4. Obeys(o, e)
      BY <1>2, <1>4, <2>1 DEF Obeys
    <3> QED
      BY <1>2, <1>4, <2>1, <2>2, <2>5, <3>2, <3>3, <3>4 DEF Released
  <2> QED
    BY <2>3, <2>4, <2>5
<1> QED
  BY <1>3, <1>4

LEMMA TickMoves ==
    ASSUME RowsInv, Tick, NEW e \in Executions
    PROVE  Moves(execution[e], execution'[e])
<1>1. execution[e] \in Rows
  BY DEF RowsInv, KernelInv, TypeOK
<1>2. execution'[e] = [execution[e] EXCEPT !.ttl = IF @ > -1 THEN @ - 1 ELSE @,
                                           !.wait = IF @ > 0 THEN @ - 1 ELSE @]
  BY DEF Tick
<1>3. Rests(execution[e], execution'[e])
  BY <1>1, <1>2 DEF Rests, Counts, Rows
<1> QED
  BY <1>3 DEF Moves

\* Every step moves a row in one of these ways.
LEMMA StepMoves ==
    ASSUME RowsInv, [Next]_vars, NEW e \in Executions
    PROVE  Moves(execution[e], execution'[e]) \/ Claimed(e) \/ Released(e)
<1>1. ASSUME NEW w \in Workers, WorkerStep(w)
      PROVE  Moves(execution[e], execution'[e]) \/ Claimed(e)
  <2>1. ASSUME NEW c \in Executions, Claim(w, c) \/ ClaimAndStart(w, c)
        PROVE  Moves(execution[e], execution'[e]) \/ Claimed(e)
    BY <2>1, ClaimMoves, StateNames DEF Claim, ClaimAndStart
  <2>2. CASE \/ Register(w) \/ Spawn(w) \/ NotInvoked(w) \/ VerifyClaim(w) \/ Perform(w) \/ Swallow(w)
             \/ \E status \in Outcomes : Finish(w, status) \/ Interrupt(w, status)
             \/ ClaimEffect(w) \/ CommitEffect(w) \/ MarkIndeterminate(w)
             \/ CompleteAgain(w) \/ Abandon(w) \/ Crash(w) \/ OrphanExit(w)
    <3>1. UNCHANGED execution
      BY <2>2 DEF store, Register, Spawn, NotInvoked, VerifyClaim, Perform, Swallow, Finish, Interrupt,
                  ClaimEffect, CommitEffect, MarkIndeterminate, CompleteAgain, Abandon, Crash, OrphanExit
    <3> QED
      BY <3>1, SameRests
  <2> QED
    BY <1>1, <2>1, <2>2, LeaseMoves, PrepareMoves, CompletionMoves DEF WorkerStep
<1>2. CASE \/ \E c \in Executions : ResolveObligation(c)
           \/ \E f \in Effects : PerformDetached(f)
           \/ \E f \in Effects, d \in Decisions : WriteOrder(f, d)
           \/ UNCHANGED vars
  <2>1. UNCHANGED execution
    BY <1>2 DEF ResolveObligation, PerformDetached, WriteOrder, store, vars
  <2> QED
    BY <2>1, SameRests
<1>3. CASE Reap
  BY <1>3, ReapMoves DEF Reap, Reaped
<1> QED
  BY <1>1, <1>2, <1>3, AdmissionMoves, DecisionMoves, TickMoves DEF Next

LEMMA InitRows == Init => RowsInv
BY InitTyped, InitSound DEF Init, Absent, RowsInv, KernelInv, Regular

LEMMA StepRows == ASSUME RowsInv, [Next]_vars PROVE RowsInv'
<1>1. KernelInv'
  BY StepSound DEF RowsInv
<1>2. ASSUME NEW e \in Executions PROVE Regular(execution'[e])
  <2>1. Regular(execution[e])
    BY DEF RowsInv
  <2>2. CASE Rests(execution[e], execution'[e])
    BY <2>1, <2>2 DEF Rests, Counts, Regular
  <2> QED
    BY <2>2, StepMoves DEF Moves, Advances, Claimed, Released
<1> QED
  BY <1>1, <1>2 DEF RowsInv

LEMMA AlwaysRows == Spec => []RowsInv
BY InitRows, StepRows, PTL DEF Spec

-----------------------------------------------------------------------------
(* The attempts.  An execution that waits for a claim has a part of its    *)
(* budget left; the decision that sends a parked one back is new to it.    *)

\* The orders about effects of e that were obeyed, or can never be any more
Spent(e) == {o \in orders : OwnerOf[o.effect] = e /\ o.revision < effect[o.effect].revision}

Budgeted(e) ==
    /\ execution[e].attempt <= MaxAttempts + Cardinality(Spent(e))
    /\ execution[e].state \in {"absent", "queued"} =>
          execution[e].attempt < MaxAttempts + Cardinality(Spent(e))

BudgetInv == LedgerInv /\ RowsInv /\ \A e \in Executions : Budgeted(e)

\* The revision of an effect never goes back.
LEMMA RevisionsGrow ==
    ASSUME KernelInv, [Next]_vars, NEW f \in Effects
    PROVE  effect'[f].revision >= effect[f].revision
<1>1. effect[f].revision \in Nat /\ effect'[f].revision \in Nat
  BY StepSound DEF KernelInv, TypeOK, EffectRows
<1>2. effect'[f] = effect[f] \/ effect'[f].revision > effect[f].revision
  BY StepEvolves DEF Undisturbed, Evolves, Granting, Obeying
<1> QED
  BY <1>1, <1>2

LEMMA SpentGrows ==
    ASSUME LedgerInv, [Next]_vars, NEW e \in Executions
    PROVE  /\ Spent(e) \subseteq Spent(e)'
           /\ IsFiniteSet(Spent(e)) /\ IsFiniteSet(Spent(e)')
           /\ Cardinality(Spent(e)) \in Nat /\ Cardinality(Spent(e)') \in Nat
           /\ Cardinality(Spent(e)) <= Cardinality(Spent(e)')
<1>1. KernelInv /\ KernelInv' /\ IsFiniteSet(orders)
  BY StepSound DEF LedgerInv
<1>2. orders \subseteq orders' /\ IsFiniteSet(orders')
  BY <1>1, OrdersGrow
<1>3. ASSUME NEW o \in orders
      PROVE  o.effect \in Effects /\ o.revision \in Nat /\ effect[o.effect].revision \in Nat
             /\ effect'[o.effect].revision \in Nat /\ effect'[o.effect].revision >= effect[o.effect].revision
  <2>1. o.effect \in Effects /\ o.revision \in Nat
    BY <1>1 DEF KernelInv, TypeOK
  <2>2. effect[o.effect].revision \in Nat /\ effect'[o.effect].revision \in Nat
    BY <1>1, <2>1 DEF KernelInv, TypeOK, EffectRows
  <2> QED
    BY <1>1, <2>1, <2>2, RevisionsGrow
<1>4. Spent(e) \subseteq Spent(e)'
  BY <1>2, <1>3 DEF Spent
<1>5. Spent(e) \in SUBSET orders /\ Spent(e)' \in SUBSET orders'
  BY DEF Spent
<1>6. IsFiniteSet(Spent(e)) /\ IsFiniteSet(Spent(e)')
  BY <1>1, <1>2, <1>5, FS_Subset
<1> QED
  BY <1>4, <1>6, FS_Subset, FS_CardinalityType

LEMMA BudgetStep ==
    ASSUME BudgetInv, RowsInv', [Next]_vars, NEW e \in Executions
    PROVE  Budgeted(e)'
<1> DEFINE S == Cardinality(Spent(e))
           T == Cardinality(Spent(e)')
           old == execution[e]
           new == execution'[e]
<1>0. LedgerInv /\ RowsInv /\ Budgeted(e)
  BY DEF BudgetInv
<1>1. /\ Spent(e) \subseteq Spent(e)' /\ IsFiniteSet(Spent(e)) /\ IsFiniteSet(Spent(e)')
      /\ S \in Nat /\ T \in Nat /\ S <= T
  BY <1>0, SpentGrows
<1>2. old.attempt \in Nat /\ new.attempt \in Nat /\ MaxAttempts \in Nat
  BY <1>0, PolicyAssumption DEF RowsInv, KernelInv, TypeOK, Rows
<1>3. /\ old.attempt <= MaxAttempts + S
      /\ old.state \in {"absent", "queued"} => old.attempt < MaxAttempts + S
  BY <1>0 DEF Budgeted
<1>4. ASSUME new.attempt <= MaxAttempts + T,
             new.state \in {"absent", "queued"} => new.attempt < MaxAttempts + T
      PROVE  Budgeted(e)'
  BY <1>4 DEF Budgeted
<1>5. CASE Released(e)
  <2>1. PICK o \in orders : Obeys(o, e)
    BY <1>5 DEF Released
  <2>2. o \notin Spent(e) /\ o \in Spent(e)'
    <3>1. o.revision \in Nat /\ orders \subseteq orders'
      BY <1>0, OrdersGrow DEF LedgerInv, KernelInv, TypeOK
    <3> QED
      BY <2>1, <3>1 DEF Obeys, Spent
  <2>3. Cardinality(Spent(e) \cup {o}) = S + 1
    BY <1>1, <2>2, FS_AddElement
  <2>4. Spent(e) \cup {o} \subseteq Spent(e)'
    BY <1>1, <2>2
  <2>5. Cardinality(Spent(e) \cup {o}) <= T
    BY <1>1, <2>4, FS_Subset
  <2>6. new.attempt = old.attempt
    BY <1>5 DEF Released, Counts
  <2> HIDE DEF S, T, old, new
  <2>7. new.attempt < MaxAttempts + T
    BY <1>1, <1>2, <1>3, <2>3, <2>5, <2>6
  <2>8. new.attempt <= MaxAttempts + T
    BY <1>1, <1>2, <2>7
  <2> QED
    BY <1>4, <2>7, <2>8
<1>6. CASE Claimed(e)
  <2>1. /\ old.state = "queued" \/ old.attempt < MaxAttempts
        /\ new.attempt = old.attempt + 1 /\ new.state \notin {"absent", "queued"}
    BY <1>6, StateNames DEF Claimed
  <2> HIDE DEF S, T, old, new
  <2>2. new.attempt <= MaxAttempts + T
    BY <1>1, <1>2, <1>3, <2>1
  <2> QED
    BY <1>4, <2>1, <2>2
<1>7. CASE Moves(old, new)
  <2>1. /\ new.attempt = old.attempt
        /\ \/ new.state \notin {"absent", "queued"}
           \/ old.state \in {"absent", "queued"}
           \/ old.attempt < MaxAttempts
    BY <1>7, StateNames DEF Moves, Rests, Advances, Admits, GoesOn, Requeues, Parks, Waits, Ends, Counts
  <2> HIDE DEF S, T, old, new
  <2>2. new.attempt <= MaxAttempts + T
    BY <1>1, <1>2, <1>3, <2>1
  <2>3. new.state \in {"absent", "queued"} => new.attempt < MaxAttempts + T
    BY <1>1, <1>2, <1>3, <2>1
  <2> QED
    BY <1>4, <2>2, <2>3
<1> QED
  BY <1>0, <1>5, <1>6, <1>7, StepMoves

LEMMA AlwaysBudgeted == Spec => []BudgetInv
<1>1. Init => \A e \in Executions : Budgeted(e)
  <2> SUFFICES ASSUME Init, NEW e \in Executions PROVE Budgeted(e)
    OBVIOUS
  <2>1. Spent(e) = {} /\ execution[e].attempt = 0
    BY DEF Init, Absent, Spent
  <2> QED
    BY <2>1, FS_EmptySet, PolicyAssumption DEF Budgeted
<1>2. Init => BudgetInv
  BY <1>1, InitLedger, InitRows DEF BudgetInv
<1>3. BudgetInv /\ [Next]_vars => BudgetInv'
  BY BudgetStep, StepLedger, StepRows DEF BudgetInv
<1> QED
  BY <1>2, <1>3, PTL DEF Spec

\* Retries, expired leases and lost answers stay within the retry budget, and
\* each decision of an operator, however often it is delivered, adds one attempt
\* at most.
THEOREM AttemptsBounded == Spec => []AttemptBudget
<1>1. ASSUME BudgetInv, NEW e \in Executions
      PROVE  execution[e].attempt <= MaxAttempts + Cardinality({o \in orders : OwnerOf[o.effect] = e})
  <2> DEFINE written == {o \in orders : OwnerOf[o.effect] = e}
  <2>1. IsFiniteSet(orders) /\ Budgeted(e) /\ execution[e].attempt \in Nat
    BY <1>1 DEF BudgetInv, LedgerInv, KernelInv, TypeOK, Rows
  <2>2. written \in SUBSET orders /\ Spent(e) \in SUBSET written
    BY DEF Spent
  <2>3. IsFiniteSet(written)
    BY <2>1, <2>2, FS_Subset
  <2>4. IsFiniteSet(Spent(e)) /\ Cardinality(Spent(e)) <= Cardinality(written)
    BY <2>2, <2>3, FS_Subset
  <2>5. Cardinality(Spent(e)) \in Nat /\ Cardinality(written) \in Nat
    BY <2>3, <2>4, FS_CardinalityType
  <2> HIDE DEF written
  <2>6. execution[e].attempt <= MaxAttempts + Cardinality(written)
    BY <2>1, <2>4, <2>5, PolicyAssumption DEF Budgeted
  <2> QED
    BY <2>6 DEF written
<1>2. BudgetInv => AttemptBudget
  BY <1>1 DEF AttemptBudget
<1> QED
  BY <1>2, AlwaysBudgeted, PTL

-----------------------------------------------------------------------------
(* The processes.  While an invocation has a process, or is about to spawn *)
(* one, the obligation to clean it up stands and its generation is the     *)
(* newest: no claim gets past it.                                          *)

Quiet == {"idle", "leased", "running", "registered", "done"}

Guarding(i) == i.alive \/ i.pc = "registered"

\* What an invocation may rely on while it holds the fence of its execution
Backed(w) ==
    /\ worker[w].pc \in Quiet => ~worker[w].alive
    /\ worker[w].pc # "idle" => worker[w].fence <= execution[worker[w].exec].fence
    /\ Guarding(worker[w]) =>
          /\ obligation[worker[w].exec] = [fence |-> worker[w].fence, open |-> TRUE]
          /\ execution[worker[w].exec].fence = worker[w].fence

\* Two invocations of an execution are of different generations.
Apart(v, w) ==
    v # w /\ worker[v].pc # "idle" /\ worker[w].pc # "idle" /\ worker[v].exec = worker[w].exec =>
       worker[v].fence # worker[w].fence

GuardInv ==
    /\ RowsInv
    /\ \A w \in Workers : Backed(w)
    /\ \A v, w \in Workers : Apart(v, w)

\* Fences grow, and only a claim makes them.
LEMMA FenceMoves ==
    ASSUME RowsInv, [Next]_vars, NEW e \in Executions
    PROVE  /\ execution[e].fence \in Nat /\ execution'[e].fence \in Nat
           /\ execution'[e].fence >= execution[e].fence
           /\ OpenObligation(e) => execution'[e].fence = execution[e].fence
<1>1. execution[e].fence \in Nat /\ execution'[e].fence \in Nat
  BY StepRows DEF RowsInv, KernelInv, TypeOK, Rows
<1>2. \/ execution'[e].fence = execution[e].fence
      \/ execution'[e].fence = execution[e].fence + 1 /\ ~OpenObligation(e)
  <2>1. CASE Moves(execution[e], execution'[e])
    BY <2>1 DEF Moves, Rests, Advances, Admits, GoesOn, Requeues, Parks, Waits, Ends, Counts
  <2> QED
    BY <2>1, StepMoves DEF Claimed, Released, Counts
<1> QED
  BY <1>1, <1>2

\* An invocation goes on with what it was claimed for, and gets no process but
\* after registering.
Continues(i, j) ==
    /\ i.pc # "idle" /\ j.pc # "idle" /\ j.exec = i.exec /\ j.fence = i.fence
    /\ (i.pc \in Quiet => ~i.alive) => (j.pc \in Quiet => ~j.alive)
    /\ Guarding(j) => Guarding(i)

LEMMA InvocationMoves ==
    ASSUME TypeOK, NEW w \in Workers, WorkerStep(w), ~Register(w),
           ~\E e \in Executions : Claim(w, e) \/ ClaimAndStart(w, e)
    PROVE  \/ worker'[w] \in {worker[w], Idle}
           \/ Continues(worker[w], worker'[w])
<1> DEFINE i == worker[w]
           j == worker'[w]
<1>0. worker \in [Workers -> Invocations] /\ i \in Invocations
  BY DEF TypeOK
<1>1. CASE Start(w) \/ Renew(w)
  <2>1. /\ i.pc \in Quiet \cup {"handling"} /\ i.pc # "idle"
        /\ \/ j = i
           \/ j = [i EXCEPT !.pc = Started, !.revision = @ + 1] /\ i.pc = "leased"
           \/ j = [i EXCEPT !.revision = @ + 1]
    BY <1>0, <1>1 DEF Start, Renew, Quiet
  <2>2. Started \in {"handling", "running"}
    BY DEF Started
  <2>3. CASE j = [i EXCEPT !.pc = Started, !.revision = @ + 1] /\ i.pc = "leased"
    <3>1. j.pc = Started /\ j.exec = i.exec /\ j.fence = i.fence /\ j.alive = i.alive
      BY <1>0, <2>3 DEF Invocations
    <3> QED
      BY <2>2, <2>3, <3>1, Zenon DEF Continues, Guarding, Quiet
  <2>4. CASE j = [i EXCEPT !.revision = @ + 1]
    <3>1. j.pc = i.pc /\ j.exec = i.exec /\ j.fence = i.fence /\ j.alive = i.alive
      BY <1>0, <2>4 DEF Invocations
    <3> QED
      BY <2>1, <3>1, Zenon DEF Continues, Guarding
  <2> QED
    BY <2>1, <2>3, <2>4
<1>2. CASE Spawn(w)
  <2>1. i.pc = "registered" /\ j.pc = "handling" /\ j.exec = i.exec /\ j.fence = i.fence
    BY <1>0, <1>2 DEF Spawn, Invocations
  <2> QED
    BY <2>1, Zenon DEF Continues, Guarding, Quiet
<1>3. CASE NotInvoked(w)
  <2>1. /\ i.pc \in {"running", "registered"} /\ j.pc = "done" /\ j.exec = i.exec /\ j.fence = i.fence
        /\ j.alive = i.alive
    BY <1>0, <1>3 DEF NotInvoked, Invocations
  <2> QED
    BY <2>1, Zenon DEF Continues, Guarding, Quiet
<1>4. ASSUME i.pc # "idle", j.pc \notin Quiet, j.exec = i.exec, j.fence = i.fence, j.alive = i.alive
      PROVE  Continues(i, j)
  BY <1>4, Zenon DEF Continues, Guarding, Quiet
<1>5. ASSUME NEW f \in Effects, PrepareEffect(w, f)
      PROVE  worker'[w] \in {worker[w], Idle} \/ Continues(i, j)
  <2>1. /\ i.pc = "handling"
        /\ \/ j = i
           \/ /\ j.pc \in {"prepared", "recover"}
              /\ j.exec = i.exec /\ j.fence = i.fence /\ j.alive = i.alive
    BY <1>0, <1>5 DEF PrepareEffect, CanRun, Invocations
  <2> QED
    BY <1>4, <2>1 DEF Quiet
<1>6. CASE ClaimEffect(w) \/ VerifyClaim(w) \/ Perform(w) \/ CommitEffect(w) \/ MarkIndeterminate(w)
  <2>1. /\ i.pc \in EffectPcs
        /\ j.pc \in {"claimed", "calling", "answered", "raised", "handling", "recover"}
        /\ j.exec = i.exec /\ j.fence = i.fence /\ j.alive = i.alive
    BY <1>0, <1>6 DEF ClaimEffect, VerifyClaim, Perform, CommitEffect, MarkIndeterminate, CanRun,
                      Invocations, EffectPcs
  <2> QED
    BY <1>4, <2>1 DEF Quiet, EffectPcs
<1>7. CASE Swallow(w)
  <2>1. i.pc # "idle" /\ j.pc = "handling" /\ j.exec = i.exec /\ j.fence = i.fence /\ j.alive = i.alive
    BY <1>0, <1>7 DEF Swallow, CanRun, Invocations
  <2> QED
    BY <1>4, <2>1 DEF Quiet
<1>8. ASSUME NEW status \in Outcomes, Finish(w, status) \/ Interrupt(w, status)
      PROVE  Continues(i, j)
  <2>a. i.pc \in InHandler
    BY <1>8 DEF Finish, Interrupt, CanRun, InHandler
  <2>b. PICK o : worker' = [worker EXCEPT ![w].pc = "done", ![w].alive = FALSE, ![w].outcome = o]
    BY <1>8, Zenon DEF Finish, Interrupt
  <2>c. j = [i EXCEPT !.pc = "done", !.alive = FALSE, !.outcome = o]
    BY <1>0, <2>b
  <2>1. i.pc # "idle" /\ j.pc = "done" /\ ~j.alive /\ j.exec = i.exec /\ j.fence = i.fence
    BY <1>0, <2>a, <2>c DEF Invocations, InHandler, EffectPcs
  <2> QED
    BY <2>1, Zenon DEF Continues, Guarding
<1>9. CASE \/ \E settlement \in BOOLEAN : Complete(w, settlement) \/ RequireRecovery(w, settlement)
           \/ CompleteAgain(w) \/ DeadLetter(w) \/ CancelLease(w)
           \/ Abandon(w) \/ OrphanExit(w)
  BY <1>0, <1>9 DEF Complete, AnswerTo, RequireRecovery, CompleteAgain, DeadLetter, CancelLease, Abandon, OrphanExit
<1>10. CASE Crash(w)
  <2>1. /\ i.pc # "idle"
        /\ \/ j = Idle
           \/ j.pc = i.pc /\ j.exec = i.exec /\ j.fence = i.fence /\ j.alive = i.alive
    BY <1>0, <1>10 DEF Crash, Invocations
  <2> QED
    BY <2>1, Zenon DEF Continues, Guarding
<1> HIDE DEF i, j
<1>11. Outcomes \ {"succeeded"} \subseteq Outcomes
  OBVIOUS
<1> QED
  BY <1>1, <1>2, <1>3, <1>5, <1>6, <1>7, <1>8, <1>9, <1>10, <1>11 DEF WorkerStep, i, j

\* Who writes to the obligation of an execution
LEMMA ObligationMoves ==
    ASSUME TypeOK, [Next]_vars, NEW e \in Executions
    PROVE  \/ obligation'[e] = obligation[e]
           \/ \E w \in Workers : Register(w) /\ worker[w].exec = e
           \/ \E w \in Workers :
                 /\ worker[w].pc = "done" /\ worker[w].exec = e
                 /\ obligation[e] = [fence |-> worker[w].fence, open |-> TRUE]
           \/ ResolveObligation(e)
<1>0. obligation \in [Executions -> [fence : Nat, open : BOOLEAN]]
  BY DEF TypeOK
<1> DEFINE Closes(w) == /\ worker[w].pc = "done" /\ worker[w].exec = e
                        /\ obligation[e] = [fence |-> worker[w].fence, open |-> TRUE]
<1>1. ASSUME NEW w \in Workers, worker[w].pc = "done", CloseObligation(w)
      PROVE  obligation'[e] = obligation[e] \/ Closes(w)
  BY <1>0, <1>1 DEF CloseObligation
<1>2. ASSUME NEW w \in Workers, NEW settlement \in BOOLEAN, Complete(w, settlement)
      PROVE  obligation'[e] = obligation[e] \/ Closes(w)
  <2>1. worker[w].pc = "done" /\ (UNCHANGED obligation \/ CloseObligation(w))
    BY <1>2 DEF Complete, ReleaseObligation
  <2> QED
    BY <1>1, <2>1
<1>3. ASSUME NEW w \in Workers, CompleteAgain(w)
      PROVE  obligation'[e] = obligation[e] \/ Closes(w)
  BY <1>1, <1>3 DEF CompleteAgain
<1>4. ASSUME NEW w \in Workers, Register(w)
      PROVE  obligation'[e] = obligation[e] \/ (Register(w) /\ worker[w].exec = e)
  BY <1>0, <1>4 DEF Register
<1>5. ASSUME NEW w \in Workers, WorkerStep(w), ~Register(w), ~CompleteAgain(w),
             ~\E settlement \in BOOLEAN : Complete(w, settlement)
      PROVE  obligation' = obligation
  BY <1>5 DEF WorkerStep, Claim, ClaimAndStart, ClaimAs, Start, Renew, Spawn, NotInvoked,
              PrepareEffect, ClaimEffect, VerifyClaim, Perform, CommitEffect, MarkIndeterminate, Swallow,
              Finish, Interrupt, RequireRecovery, DeadLetter, CancelLease, Abandon, Crash, OrphanExit, store
<1>6. ASSUME NEW c \in Executions, ResolveObligation(c)
      PROVE  obligation'[e] = obligation[e] \/ ResolveObligation(e)
  BY <1>0, <1>6 DEF ResolveObligation
<1>7. CASE \/ \E c \in Executions : Submit(c) \/ CancelBeforeAccept(c) \/ Cancel(c)
           \/ \E f \in Effects : PerformDetached(f)
           \/ \E f \in Effects, d \in Decisions : WriteOrder(f, d)
           \/ \E o \in orders : ResolveEffect(o)
           \/ Reap \/ Tick \/ UNCHANGED vars
  <2>1. obligation' = obligation
    BY <1>7 DEF Submit, CancelBeforeAccept, Cancel, PerformDetached, WriteOrder, ResolveEffect, Reap, Tick, vars, store
  <2> QED
    BY <2>1
<1> QED
  BY <1>2, <1>3, <1>4, <1>5, <1>6, <1>7 DEF Next

\* What guards a process stands until the invocation itself lets go.
LEMMA GuardStands ==
    ASSUME GuardInv, [Next]_vars, NEW v \in Workers, Guarding(worker[v]), ~Register(v)
    PROVE  /\ obligation'[worker[v].exec] = obligation[worker[v].exec]
           /\ execution'[worker[v].exec].fence = execution[worker[v].exec].fence
<1> DEFINE e == worker[v].exec
<1>0. TypeOK /\ RowsInv /\ Backed(v)
  BY DEF GuardInv, RowsInv, KernelInv
<1>1. /\ worker[v].pc \notin {"idle", "done"}
      /\ obligation[e] = [fence |-> worker[v].fence, open |-> TRUE]
      /\ execution[e].fence = worker[v].fence
  BY <1>0, Zenon DEF Backed, Guarding, Quiet
<1>2. e \in Executions
  BY <1>0, <1>1 DEF TypeOK, Linked
<1>3. OpenObligation(e)
  BY <1>1 DEF OpenObligation
<1>4. execution'[e].fence = execution[e].fence
  BY <1>0, <1>2, <1>3, FenceMoves
<1>5. ASSUME NEW w \in Workers, worker[w].exec = e, worker[w].pc # "idle", worker[w].fence = worker[v].fence
      PROVE  w = v
  BY <1>1, <1>5 DEF GuardInv, Apart
<1>6. ASSUME NEW w \in Workers, Register(w), worker[w].exec = e
      PROVE  FALSE
  <2>1. worker[w].pc = "running" /\ worker[w].fence = execution[e].fence
    BY <1>6 DEF Register, AssertLease, OwnsRow
  <2> QED
    BY <1>1, <1>5, <1>6, <2>1
<1>7. ASSUME NEW w \in Workers, worker[w].pc = "done", worker[w].exec = e,
             obligation[e] = [fence |-> worker[w].fence, open |-> TRUE]
      PROVE  FALSE
  <2>1. worker[w].fence = worker[v].fence
    BY <1>1, <1>7
  <2> QED
    BY <1>1, <1>5, <1>7, <2>1
<1>8. ~ResolveObligation(e)
  BY <1>1 DEF ResolveObligation, Guarding
<1> QED
  BY <1>0, <1>2, <1>4, <1>6, <1>7, <1>8, ObligationMoves

\* An invocation that a step leaves alone is backed as before.
LEMMA UntouchedBacked ==
    ASSUME GuardInv, [Next]_vars, NEW v \in Workers, worker'[v] = worker[v], ~Register(v)
    PROVE  Backed(v)'
<1>0. TypeOK /\ RowsInv /\ Backed(v)
  BY DEF GuardInv, RowsInv, KernelInv
<1>1. ASSUME worker[v].pc # "idle"
      PROVE  worker[v].fence <= execution'[worker[v].exec].fence
  <2>1. worker[v].exec \in Executions /\ worker[v].fence \in Nat
    BY <1>0, <1>1 DEF TypeOK, Linked, Invocations
  <2> QED
    BY <1>0, <1>1, <2>1, FenceMoves DEF Backed
<1>2. ASSUME Guarding(worker[v])
      PROVE  /\ obligation'[worker[v].exec] = [fence |-> worker[v].fence, open |-> TRUE]
             /\ execution'[worker[v].exec].fence = worker[v].fence
  BY <1>0, <1>2, GuardStands DEF Backed
<1> QED
  BY <1>0, <1>1, <1>2 DEF Backed

\* So is one that goes on.
LEMMA ContinuedBacked ==
    ASSUME GuardInv, [Next]_vars, NEW v \in Workers, Continues(worker[v], worker'[v]), ~Register(v)
    PROVE  Backed(v)'
<1>0. TypeOK /\ RowsInv /\ Backed(v)
  BY DEF GuardInv, RowsInv, KernelInv
<1>1. /\ worker[v].pc # "idle" /\ worker'[v].exec = worker[v].exec /\ worker'[v].fence = worker[v].fence
      /\ Guarding(worker'[v]) => Guarding(worker[v])
  BY DEF Continues
<1>2. worker'[v].fence <= execution'[worker'[v].exec].fence
  <2>1. worker[v].exec \in Executions /\ worker[v].fence \in Nat
    BY <1>0, <1>1 DEF TypeOK, Linked, Invocations
  <2>2. worker[v].fence <= execution[worker[v].exec].fence
    BY <1>0, <1>1 DEF Backed
  <2> QED
    BY <1>0, <1>1, <2>1, <2>2, FenceMoves
<1>3. worker'[v].pc \in Quiet => ~worker'[v].alive
  BY <1>0, Zenon DEF Backed, Continues
<1>4. ASSUME Guarding(worker'[v])
      PROVE  /\ obligation'[worker'[v].exec] = [fence |-> worker'[v].fence, open |-> TRUE]
             /\ execution'[worker'[v].exec].fence = worker'[v].fence
  <2>1. Guarding(worker[v])
    BY <1>1, <1>4
  <2> QED
    BY <1>0, <1>1, <2>1, GuardStands DEF Backed
<1> QED
  BY <1>2, <1>3, <1>4 DEF Backed

\* A claim is of a generation newer than all.
LEMMA ClaimedInvocation ==
    ASSUME RowsInv, NEW w \in Workers, NEW c \in Executions, Claim(w, c) \/ ClaimAndStart(w, c)
    PROVE  /\ worker'[w].pc \notin {"idle", "registered"} /\ ~worker'[w].alive
           /\ worker'[w].exec = c
           /\ worker'[w].fence = execution[c].fence + 1
           /\ execution'[c].fence = execution[c].fence + 1
<1>0. TypeOK /\ worker \in [Workers -> Invocations] /\ execution[c].fence \in Nat
  BY DEF RowsInv, KernelInv, TypeOK, Rows
<1>1. PICK state \in ActiveStates, steps \in Nat, pc \in {"leased", Started} : ClaimAs(w, c, state, steps, pc)
  BY DEF Claim, ClaimAndStart, ActiveStates
<1> DEFINE row == ClaimedRow(w, Reaped[c], state, steps)
<1>2. /\ execution' = [Reaped EXCEPT ![c] = row]
      /\ worker' = [worker EXCEPT ![w] = [Idle EXCEPT !.pc = pc, !.exec = c, !.attempt = row.attempt,
                                                      !.fence = row.fence, !.revision = row.revision]]
  BY <1>1 DEF ClaimAs
<1>3. Reaped \in [Executions -> Rows] /\ Reaped[c].fence = execution[c].fence
  BY <1>0, ReapedType, ReapMoves DEF Reaped
<1>4. row.fence = execution[c].fence + 1
  BY <1>3 DEF ClaimedRow, Rows
<1> HIDE DEF row
<1>5. execution'[c] = row
  BY <1>2, <1>3
<1>6. /\ worker'[w].pc = pc /\ worker'[w].exec = c /\ worker'[w].fence = row.fence
      /\ worker'[w].alive = FALSE
  BY <1>0, <1>2 DEF Idle
<1>7. pc \notin {"idle", "registered"}
  BY DEF Started
<1> QED
  BY <1>4, <1>5, <1>6, <1>7

\* The invocation of the runtime that takes the step
LEMMA OwnBacked ==
    ASSUME GuardInv, NEW w \in Workers, WorkerStep(w)
    PROVE  Backed(w)'
<1>0. TypeOK /\ RowsInv /\ Backed(w) /\ [Next]_vars
  BY DEF GuardInv, RowsInv, KernelInv, Next
<1>1. ASSUME NEW c \in Executions, Claim(w, c) \/ ClaimAndStart(w, c)
      PROVE  Backed(w)'
  <2>1. execution[c].fence \in Nat
    BY <1>0 DEF TypeOK, Rows
  <2> QED
    BY <1>0, <1>1, <2>1, ClaimedInvocation DEF Backed, Guarding
<1>2. CASE Register(w)
  <2> DEFINE c == worker[w].exec
  <2>1. /\ worker[w].pc = "running" /\ worker[w].fence = execution[c].fence
        /\ obligation' = [obligation EXCEPT ![c] = [fence |-> worker[w].fence, open |-> TRUE]]
        /\ worker' = [worker EXCEPT ![w].pc = "registered"]
        /\ execution' = execution
    BY <1>2 DEF Register, AssertLease, OwnsRow
  <2>2. c \in Executions /\ ~worker[w].alive /\ worker[w].fence \in Nat
    BY <1>0, <2>1 DEF TypeOK, Linked, Backed, Quiet, Invocations
  <2>3. /\ worker'[w].pc = "registered" /\ worker'[w].exec = c /\ worker'[w].fence = worker[w].fence
        /\ worker'[w].alive = worker[w].alive
    BY <1>0, <2>1 DEF TypeOK, Invocations
  <2>4. obligation'[c] = [fence |-> worker[w].fence, open |-> TRUE]
    BY <1>0, <2>1, <2>2 DEF TypeOK
  <2>5. worker'[w].fence = execution'[worker'[w].exec].fence /\ worker'[w].fence <= worker'[w].fence
    BY <2>1, <2>2, <2>3
  <2>6. ~worker'[w].alive
    BY <2>2, <2>3
  <2>7. obligation'[worker'[w].exec] = [fence |-> worker'[w].fence, open |-> TRUE]
    BY <2>3, <2>4
  <2>8. worker'[w].fence <= execution'[worker'[w].exec].fence
    BY <2>5
  <2> QED
    BY <2>5, <2>6, <2>7, <2>8, Zenon DEF Backed
<1>3. CASE ~Register(w) /\ ~\E c \in Executions : Claim(w, c) \/ ClaimAndStart(w, c)
  <2>1. CASE worker'[w] = Idle
    <3>1. worker'[w].pc = "idle" /\ worker'[w].alive = FALSE
      BY <2>1 DEF Idle
    <3> QED
      BY <3>1, Zenon DEF Backed, Guarding
  <2> QED
    BY <1>0, <1>3, <2>1, InvocationMoves, UntouchedBacked, ContinuedBacked
<1> QED
  BY <1>1, <1>2, <1>3

LEMMA OwnApart ==
    ASSUME GuardInv, NEW w \in Workers, WorkerStep(w), NEW v \in Workers, v # w
    PROVE  Apart(v, w)' /\ Apart(w, v)'
<1>0. TypeOK /\ RowsInv /\ Apart(v, w) /\ Apart(w, v) /\ Backed(v)
  BY DEF GuardInv, RowsInv, KernelInv
<1>1. worker'[v] = worker[v]
  BY <1>0, OwnInvocation
<1>2. ASSUME NEW c \in Executions, Claim(w, c) \/ ClaimAndStart(w, c)
      PROVE  worker[v].pc # "idle" /\ worker[v].exec = c => worker[v].fence # worker'[w].fence
  <2>1. execution[c].fence \in Nat /\ worker[v].fence \in Nat
    BY <1>0 DEF TypeOK, Rows, Invocations
  <2>2. worker[v].pc # "idle" /\ worker[v].exec = c => worker[v].fence <= execution[c].fence
    BY <1>0 DEF Backed
  <2> QED
    BY <1>0, <1>2, <2>1, <2>2, ClaimedInvocation
<1>3. CASE \E c \in Executions : Claim(w, c) \/ ClaimAndStart(w, c)
  BY <1>0, <1>1, <1>2, <1>3, ClaimedInvocation DEF Apart
<1>4. CASE Register(w)
  <2>1. /\ worker'[w].exec = worker[w].exec /\ worker'[w].fence = worker[w].fence /\ worker[w].pc # "idle"
    BY <1>0, <1>4 DEF Register, TypeOK, Invocations
  <2> QED
    BY <1>0, <1>1, <2>1 DEF Apart
<1>5. CASE ~Register(w) /\ ~\E c \in Executions : Claim(w, c) \/ ClaimAndStart(w, c)
  <2>1. CASE worker'[w] = Idle
    BY <2>1 DEF Apart, Idle
  <2>2. CASE worker'[w] = worker[w]
    BY <1>0, <1>1, <2>2 DEF Apart
  <2>3. CASE Continues(worker[w], worker'[w])
    BY <1>0, <1>1, <2>3 DEF Apart, Continues
  <2> QED
    BY <1>0, <1>5, <2>1, <2>2, <2>3, InvocationMoves
<1> QED
  BY <1>3, <1>4, <1>5

LEMMA StepGuarded == ASSUME GuardInv, [Next]_vars PROVE GuardInv'
<1>0. TypeOK /\ RowsInv
  BY DEF GuardInv, RowsInv, KernelInv
<1>1. RowsInv'
  BY <1>0, StepRows
<1>2. CASE UNCHANGED worker
  <2>1. ASSUME NEW v \in Workers PROVE ~Register(v)
    <3>1. Register(v) => worker[v].pc = "running" /\ worker'[v].pc = "registered"
      BY <1>0 DEF Register, TypeOK, Invocations
    <3> QED
      BY <1>2, <3>1
  <2>2. \A v \in Workers : Backed(v)'
    BY <1>2, <2>1, UntouchedBacked
  <2>3. \A v, w \in Workers : Apart(v, w)'
    BY <1>2 DEF GuardInv, Apart
  <2> QED
    BY <1>1, <2>2, <2>3 DEF GuardInv
<1>3. ASSUME NEW w \in Workers, WorkerStep(w) PROVE GuardInv'
  <2>1. ASSUME NEW v \in Workers, v # w PROVE worker'[v] = worker[v] /\ ~Register(v)
    <3>1. worker'[v] = worker[v]
      BY <1>0, <1>3, <2>1, OwnInvocation
    <3>2. Register(v) => worker[v].pc = "running" /\ worker'[v].pc = "registered"
      BY <1>0 DEF Register, TypeOK, Invocations
    <3> QED
      BY <3>1, <3>2
  <2>2. ASSUME NEW v \in Workers PROVE Backed(v)'
    <3>1. [Next]_vars
      BY <1>3 DEF Next
    <3> QED
      BY <1>3, <2>1, <3>1, OwnBacked, UntouchedBacked
  <2>3. ASSUME NEW u \in Workers, NEW v \in Workers PROVE Apart(u, v)'
    <3>1. CASE u = w \/ v = w
      BY <1>3, <3>1, OwnApart DEF Apart
    <3>2. CASE u # w /\ v # w
      BY <2>1, <3>2 DEF GuardInv, Apart
    <3> QED
      BY <3>1, <3>2
  <2> QED
    BY <1>1, <2>2, <2>3 DEF GuardInv
<1>4. CASE \/ \E e \in Executions : Submit(e) \/ CancelBeforeAccept(e) \/ Cancel(e) \/ ResolveObligation(e)
           \/ \E f \in Effects : PerformDetached(f)
           \/ \E f \in Effects, d \in Decisions : WriteOrder(f, d)
           \/ \E o \in orders : ResolveEffect(o)
           \/ Reap \/ Tick \/ UNCHANGED vars
  <2>1. UNCHANGED worker
    BY <1>4 DEF Submit, CancelBeforeAccept, Cancel, ResolveObligation, PerformDetached, WriteOrder,
                ResolveEffect, Reap, Tick, vars, store
  <2> QED
    BY <1>2, <2>1
<1> QED
  BY <1>3, <1>4 DEF Next

LEMMA AlwaysGuarded == Spec => []GuardInv
<1>1. Init => (\A w \in Workers : Backed(w)) /\ (\A v, w \in Workers : Apart(v, w))
  BY DEF Init, Idle, Backed, Guarding, Apart
<1> QED
  BY <1>1, InitRows, StepGuarded, PTL DEF Spec, GuardInv

\* An execution has one process tree at most, however runtimes crash and leases
\* expire: no claim gets past the obligation to clean up the old one.
THEOREM OneProcess == Spec => []SingleProcess
<1>1. ASSUME GuardInv, NEW v \in Workers, NEW w \in Workers,
             worker[v].alive, worker[w].alive, worker[v].exec = worker[w].exec
      PROVE  v = w
  <2>1. Backed(v) /\ Backed(w) /\ Apart(v, w)
    BY <1>1 DEF GuardInv
  <2>2. /\ worker[v].pc # "idle" /\ worker[w].pc # "idle"
        /\ worker[v].fence = execution[worker[v].exec].fence
        /\ worker[w].fence = execution[worker[w].exec].fence
    BY <1>1, <2>1, Zenon DEF Backed, Guarding, Quiet
  <2> QED
    BY <1>1, <2>1, <2>2 DEF Apart
<1>2. GuardInv => SingleProcess
  BY <1>1 DEF SingleProcess
<1> QED
  BY <1>2, AlwaysGuarded, PTL

\* All that the module says of the rows at any moment, in one theorem: it holds
\* of each of the instances that are model-checked, and of every other.
THEOREM KernelAlwaysSound == Spec => []KernelSound
<1>1. /\ TypeOK /\ UnfinishedIsOwned /\ RecoveryPointerSound /\ OutboxMatchesRow
      /\ NoForgottenEffect /\ AtMostOncePerDecision /\ AttemptBudget /\ SingleProcess
      => KernelSound
  BY DEF KernelSound
<1> QED
  BY <1>1, TypeCorrect, EffectsOwned, PointerSound, OutboxSound, EffectsRemembered, OncePerDecision,
     AttemptsBounded, OneProcess, PTL

-----------------------------------------------------------------------------
(* Refinement: a step of the kernel is a step of KernelView.               *)

Phase(state) ==
    CASE state \in ActiveStates -> "active"
      [] state = "recovery_required" -> "parked"
      [] state \in {"succeeded", "failed", "dead"} -> "done"
      [] OTHER -> state

Shown(row) == [phase |-> Phase(row.state), revision |-> row.revision, target |-> row.target]

LEMMA PhaseValues ==
    /\ Phase("absent") = "absent" /\ Phase("queued") = "queued" /\ Phase("cancelled") = "cancelled"
    /\ Phase("recovery_required") = "parked"
    /\ \A state \in ActiveStates : Phase(state) = "active"
    /\ \A state \in TerminalStates \ {"cancelled"} : Phase(state) = "done"
    /\ \A state \in ExecutionStates : /\ Phase(state) \in View!Phases
                                      /\ Phase(state) = "parked" <=> state = "recovery_required"
BY DEF Phase, ActiveStates, TerminalStates, ExecutionStates, View!Phases

LEMMA ShownType == ASSUME NEW row \in Rows PROVE Shown(row) \in View!Snapshots
BY PhaseValues DEF Shown, Rows, View!Snapshots

\* What the clients of a row expect of the move from old to new.
ExpectedPhases(old, new) ==
    \/ Phase(old.state) = "absent" /\ Phase(new.state) \in {"queued", "cancelled"}
    \/ Phase(old.state) = "queued" /\ Phase(new.state) \in {"active", "cancelled"}
    \/ Phase(old.state) = "active" /\ Phase(new.state) \in {"queued", "active", "parked", "done", "cancelled"}
    \/ Phase(old.state) = "parked" /\ Phase(new.state) \in {"parked", "cancelled"}
    \/ Phase(old.state) = "parked" /\ old.target = "queued" /\ Phase(new.state) = "queued"

ExpectedTargets(old, new) ==
    /\ old.state = "recovery_required" => old.target \in {"queued", "cancelled"}
    /\ old.target = "cancelled" /\ new.state = "recovery_required" => new.target = "cancelled"

\* A row that moves so shows them a newer snapshot, in a phase they expect.
LEMMA ShownFollows ==
    ASSUME NEW old \in Rows, NEW new \in Rows, Regular(old), Regular(new),
           new.revision > old.revision, ExpectedTargets(old, new), ExpectedPhases(old, new)
    PROVE  View!Follows(Shown(old), Shown(new))
<1> DEFINE from == Phase(old.state)
           to == Phase(new.state)
<1>0. /\ old.state \in ExecutionStates /\ new.state \in ExecutionStates
      /\ old.target \in {"none", "queued", "cancelled"} /\ new.target \in {"none", "queued", "cancelled"}
  BY DEF Rows
<1>1. /\ Shown(old).phase = from /\ Shown(new).phase = to
      /\ Shown(old).revision = old.revision /\ Shown(new).revision = new.revision
      /\ Shown(old).target = old.target /\ Shown(new).target = new.target
  BY DEF Shown
<1>2. /\ from = "parked" <=> old.state = "recovery_required"
      /\ to = "parked" <=> new.state = "recovery_required"
  BY <1>0, PhaseValues
<1>a. \/ from = "absent" /\ to \in {"queued", "cancelled"}
      \/ from = "queued" /\ to \in {"active", "cancelled"}
      \/ from = "active" /\ to \in {"queued", "active", "parked", "done", "cancelled"}
      \/ from = "parked" /\ to \in {"parked", "cancelled"}
      \/ from = "parked" /\ old.target = "queued" /\ to = "queued"
  BY DEF ExpectedPhases
<1> HIDE DEF from, to
<1>3. View!Targeted(Shown(old), Shown(new))
  BY <1>1, <1>2 DEF View!Targeted, Regular, ExpectedTargets
<1>4. to \in View!Reachable(Shown(old))
  BY <1>1, <1>2, <1>a DEF View!Reachable, View!Ended, ExpectedTargets
<1> QED
  BY <1>1, <1>3, <1>4 DEF View!Follows

LEMMA StepShown ==
    ASSUME RowsInv, RowsInv', [Next]_vars, NEW e \in Executions
    PROVE  View!Follows(Shown(execution[e]), Shown(execution'[e]))
<1> DEFINE old == execution[e]
           new == execution'[e]
<1>0. /\ old \in Rows /\ new \in Rows /\ Regular(old) /\ Regular(new)
      /\ old.state = "recovery_required" => old.target \in {"queued", "cancelled"}
  BY DEF RowsInv, KernelInv, TypeOK, Sound, Parked
<1>1. old.state \in ExecutionStates /\ new.state \in ExecutionStates
  BY <1>0 DEF Rows
<1> SUFFICES View!Follows(Shown(old), Shown(new))
  OBVIOUS
<1> HIDE DEF old, new
<1>2. CASE Rests(old, new)
  <2>1. Shown(new) = Shown(old)
    BY <1>2 DEF Rests, Shown
  <2> QED
    BY <2>1 DEF View!Follows
<1>3. CASE Claimed(e)
  <2>1. /\ old.state = "queued" \/ old.state \in ActiveStates
        /\ new.state \in ActiveStates /\ new.revision > old.revision
    BY <1>3 DEF Claimed, old, new
  <2>2. Phase(old.state) \in {"queued", "active"} /\ Phase(new.state) = "active"
    BY <2>1, PhaseValues
  <2>3. new.state # "recovery_required"
    BY <2>1, StateNames
  <2>x. ExpectedTargets(old, new) /\ ExpectedPhases(old, new)
    BY <1>0, <2>1, <2>2, <2>3 DEF ExpectedTargets, ExpectedPhases
  <2> QED
    BY <1>0, <2>1, <2>x, ShownFollows
<1>4. CASE Released(e)
  <2>1. /\ old.state = "recovery_required" /\ old.target = "queued" /\ new.state = "queued"
        /\ new.revision > old.revision
    BY <1>4 DEF Released, old, new
  <2>2. Phase(old.state) = "parked" /\ Phase(new.state) = "queued"
    BY <2>1, PhaseValues
  <2>x. ExpectedTargets(old, new) /\ ExpectedPhases(old, new)
    BY <1>0, <2>1, <2>2 DEF ExpectedTargets, ExpectedPhases
  <2> QED
    BY <1>0, <2>1, <2>x, ShownFollows
<1>5. CASE Advances(old, new)
  <2>1. new.revision > old.revision
    BY <1>5 DEF Advances
  <2>2. CASE Admits(old, new)
    <3>1. old.state = "absent" /\ new.state = "queued"
      BY <2>2 DEF Admits
    <3>2. Phase(old.state) = "absent" /\ Phase(new.state) = "queued"
      BY <3>1, PhaseValues
    <3>x. ExpectedTargets(old, new) /\ ExpectedPhases(old, new)
      BY <1>0, <3>1, <3>2 DEF ExpectedTargets, ExpectedPhases
    <3> QED
      BY <1>0, <2>1, <3>x, ShownFollows
  <2>3. CASE GoesOn(old, new) \/ Requeues(old, new) \/ Parks(old, new)
    <3>1. old.state \in ActiveStates /\ new.state \in ActiveStates \cup {"queued", "recovery_required"}
      BY <2>3 DEF GoesOn, Requeues, Parks
    <3>2. Phase(old.state) = "active" /\ Phase(new.state) \in {"active", "queued", "parked"}
      BY <3>1, PhaseValues
    <3>3. old.target # "cancelled"
      BY <1>0, <3>1, StateNames DEF Regular
    <3>x. ExpectedTargets(old, new) /\ ExpectedPhases(old, new)
      BY <1>0, <3>2, <3>3 DEF ExpectedTargets, ExpectedPhases
    <3> QED
      BY <1>0, <2>1, <3>x, ShownFollows
  <2>4. CASE Waits(old, new)
    <3>1. /\ old.state = "recovery_required" /\ new.state = "recovery_required"
          /\ old.target = "cancelled" => new.target = "cancelled"
      BY <2>4 DEF Waits
    <3>2. Phase(old.state) = "parked" /\ Phase(new.state) = "parked"
      BY <3>1, PhaseValues
    <3>x. ExpectedTargets(old, new) /\ ExpectedPhases(old, new)
      BY <1>0, <3>1, <3>2 DEF ExpectedTargets, ExpectedPhases
    <3> QED
      BY <1>0, <2>1, <3>x, ShownFollows
  <2>5. CASE Ends(old, new)
    <3>1. /\ old.state \in {"absent", "queued", "recovery_required"} \cup ActiveStates
          /\ new.state \in TerminalStates
          /\ old.state \notin ActiveStates => new.state = "cancelled"
      BY <1>1, <2>5 DEF Ends, ExecutionStates
    <3>2. new.state # "recovery_required"
      BY <3>1, StateNames
    <3>3. Phase(new.state) \in {"done", "cancelled"} /\ (new.state = "cancelled" => Phase(new.state) = "cancelled")
      BY <3>1, PhaseValues
    <3>4. \/ Phase(old.state) = "active"
          \/ Phase(old.state) \in {"absent", "queued", "parked"} /\ Phase(new.state) = "cancelled"
      BY <3>1, <3>3, PhaseValues
    <3>x. ExpectedTargets(old, new) /\ ExpectedPhases(old, new)
      BY <1>0, <3>2, <3>3, <3>4 DEF ExpectedTargets, ExpectedPhases
    <3> QED
      BY <1>0, <2>1, <3>x, ShownFollows
  <2> QED
    BY <1>5, <2>2, <2>3, <2>4, <2>5 DEF Advances
<1> QED
  BY <1>2, <1>3, <1>4, <1>5, StepMoves DEF Moves, old, new

\* What get() answers moves as the Orchestrator expects: a snapshot that differs
\* has a higher revision, an ended execution stays as it is, and a recorded
\* cancellation is not taken back.
THEOREM ViewKept == Spec => KeepsView
<1>1. Init => View!Init
  <2> SUFFICES ASSUME Init PROVE View!Init
    OBVIOUS
  <2>1. \A e \in Executions : Shown(execution[e]) = View!Unknown
    BY PhaseValues DEF Init, Absent, Shown, View!Unknown
  <2> QED
    BY <2>1 DEF View!Init, Shown, Phase
<1>2. RowsInv /\ RowsInv' /\ [Next]_vars => View!Next
  <2> SUFFICES ASSUME RowsInv, RowsInv', [Next]_vars PROVE View!Next
    OBVIOUS
  <2>1. \A e \in Executions : Shown(execution'[e]) \in View!Snapshots
    BY ShownType DEF RowsInv, KernelInv, TypeOK
  <2>2. \A e \in Executions : View!Follows(Shown(execution[e]), Shown(execution'[e]))
    BY StepShown
  <2> QED
    BY <2>1, <2>2 DEF View!Next, Shown, Phase
<1> QED
  BY <1>1, <1>2, AlwaysRows, PTL DEF Spec, KeepsView, View!Spec

\* A cancellation recorded on a parked execution is carried out: no decision,
\* whatever it says and however late it comes, sends the execution back.
THEOREM CancellationKept == Spec => CancellationSticks
<1>1. ASSUME RowsInv, [Next]_vars, NEW e \in Executions,
             execution[e].state = "recovery_required", execution[e].target = "cancelled"
      PROVE  \/ execution'[e].state = "cancelled"
             \/ execution'[e].state = "recovery_required" /\ execution'[e].target = "cancelled"
  <2>1. Moves(execution[e], execution'[e])
    BY <1>1, StepMoves, StateNames DEF Claimed, Released
  <2> QED
    BY <1>1, <2>1, StateNames DEF Moves, Rests, Advances, Admits, GoesOn, Requeues, Parks, Waits, Ends
<1>2. RowsInv /\ [Next]_vars =>
         [\A e \in Executions :
             execution[e].state = "recovery_required" /\ execution[e].target = "cancelled" =>
                \/ execution'[e].state = "cancelled"
                \/ execution'[e].state = "recovery_required" /\ execution'[e].target = "cancelled"]_vars
  BY <1>1
<1> QED
  BY <1>2, AlwaysRows, PTL DEF Spec, CancellationSticks
=============================================================================
