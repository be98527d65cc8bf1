--------------------------- MODULE ExecutionKernel ---------------------------
(***************************************************************************)
(* The execution kernel: the durable rows of kernel_executions,            *)
(* kernel_effects, kernel_supervisor_obligations and the facts inserted in *)
(* kernel_result_outbox, together with the handler invocations, operators  *)
(* and cancelling clients that race on them.                               *)
(*                                                                         *)
(* Every public method of SQLiteKernel runs in one BEGIN IMMEDIATE         *)
(* transaction, so each is one action here.  What is NOT atomic is the     *)
(* code between two transactions: a handler that prepares, claims,         *)
(* verifies, performs and commits an effect takes one step for each.       *)
(*                                                                         *)
(* The clock.  Only differences with the current time are ever used, so a  *)
(* lease carries the time it has left (ttl: 0 is "expires_at = now", -1 is *)
(* "expires_at < now") and a queued row the time it must still wait.  The  *)
(* persisted watermark never goes back, so these only ever count down;     *)
(* KernelClock models why and proves it (CountsDown).                      *)
(*                                                                         *)
(* Scope: unmanaged root executions, with no lifecycle producer and no     *)
(* budget sample.  One reaping takes every expired row, not the first 256. *)
(*                                                                         *)
(* X_Mutant is a plausible bug in the definition X that follows it;        *)
(* nothing uses it but the mutation runs.                                  *)
(***************************************************************************)
EXTENDS Integers, FiniteSets

CONSTANTS
    Executions,   \* execution ids
    Effects,      \* effect ids
    OwnerOf,      \* the execution whose handler uses each effect
    Workers,      \* runtimes, each driving one invocation at a time
    Isolation,    \* "thread" or "process": ExecutionRuntime.isolation_mode
    MaxAttempts,  \* RetryPolicy.max_attempts
    LeaseTicks,   \* duration of a lease
    RetryDelay,   \* RetryPolicy.delay_for_attempt
    MaxOrders,    \* bound: recovery decisions operators write
    MaxRevision,  \* bound: revision beyond which no lease is renewed
    None

ASSUME EffectsAssumption == OwnerOf \in [Effects -> Executions]
ASSUME IsolationAssumption == Isolation \in {"thread", "process"}
ASSUME PolicyAssumption == /\ MaxAttempts \in Nat \ {0}
                           /\ LeaseTicks \in Nat \ {0}
                           /\ RetryDelay \in Nat
ASSUME BoundAssumption == MaxOrders \in Nat /\ MaxRevision \in Nat
ASSUME NoneAssumption == None \notin Executions \cup Effects \cup Workers

VARIABLES
    execution,   \* kernel_executions, one row for each id
    effect,      \* kernel_effects
    obligation,  \* newest kernel_supervisor_obligations row of an execution
    outbox,      \* the result fact in kernel_result_outbox, or None
    worker,      \* the invocation each runtime drives
    orders,      \* recovery decisions written by operators, delivered any number of times
    detached,    \* perform() calls still running in a thread whose authority was revoked
    ledger       \* history: what really happened to each effect

store == <<execution, effect, obligation, outbox>>
vars  == <<execution, effect, obligation, outbox, worker, orders, detached, ledger>>

-----------------------------------------------------------------------------
(* Vocabulary.  "failed" stands for failed and timed_out: no property or   *)
(* guard tells them apart.                                                 *)

TerminalStates   == {"succeeded", "failed", "cancelled", "dead"}
ActiveStates     == {"leased", "running"}
UnfinishedStates == {"prepared", "performing", "indeterminate"}
ExecutionStates  == {"absent", "queued", "recovery_required"} \cup ActiveStates \cup TerminalStates
EffectStates     == {"absent", "committed", "not_applied"} \cup UnfinishedStates

\* What a handler returns; "retry" is a failed or timed_out result for which
\* _retryable holds.
Outcomes   == {"succeeded", "failed", "retry"}
EffectPcs  == {"prepared", "claimed", "calling", "answered", "raised"}
InHandler  == {"handling"} \cup EffectPcs
WorkerPcs  == {"idle", "leased", "running", "registered", "recover", "done"} \cup InHandler
Decisions  == {"applied", "not_applied"}

NoResult == [status |-> "none", fence |-> 0]
Results  == [status : TerminalStates, fence : Nat]

NoOutcome == [status |-> "failed", timely |-> FALSE, confirmed |-> FALSE]

Idle == [pc |-> "idle", exec |-> None, attempt |-> 0, fence |-> 0, revision |-> 0,
         effect |-> None, claim |-> 0, outcome |-> NoOutcome, alive |-> FALSE, orphan |-> FALSE]

Absent == [state |-> "absent", attempt |-> 0, fence |-> 0, revision |-> 0, lease |-> 0,
           ttl |-> -1, wait |-> 0, pointer |-> None, target |-> "none", result |-> NoResult]

Init ==
    /\ execution  = [e \in Executions |-> Absent]
    /\ effect     = [f \in Effects |-> [state |-> "absent", fence |-> 0, claim |-> 0, revision |-> 0]]
    /\ obligation = [e \in Executions |-> [fence |-> 0, open |-> FALSE]]
    /\ outbox     = [e \in Executions |-> NoResult]
    /\ worker     = [w \in Workers |-> Idle]
    /\ orders     = {}
    /\ detached   = [f \in Effects |-> 0]
    /\ ledger     = [f \in Effects |-> [granted |-> 0, performed |-> 0, waived |-> 0]]

-----------------------------------------------------------------------------
(* Row updates shared by the transactions.                                 *)

\* _unfinished_effect_rows
Unfinished(e) == {f \in Effects : OwnerOf[f] = e /\ effect[f].state \in UnfinishedStates}

\* ORDER BY effect_id LIMIT 1: ids are opaque, any fixed order will do.
First(S) == CHOOSE f \in S : TRUE

\* an interrupted call is taken not to have happened
Uncertain_Mutant(rec) ==
    IF rec.state \in {"prepared", "performing"}
    THEN [rec EXCEPT !.state = "not_applied", !.revision = @ + 1]
    ELSE rec

Uncertain(rec) ==
    IF rec.state \in {"prepared", "performing"}
    THEN [rec EXCEPT !.state = "indeterminate", !.revision = @ + 1]
    ELSE rec

\* _park_unfinished_effects on the row of e, which has unfinished effects and
\* was not parked yet.  target is where the last decision will send it.
ParkedRow(e, target) ==
    [execution[e] EXCEPT !.state = "recovery_required", !.lease = 0, !.ttl = -1,
                         !.pointer = IF @ \in Unfinished(e) THEN @ ELSE First(Unfinished(e)),
                         !.target = target, !.revision = @ + 1]

\* _terminal on a row whose effects are all settled; nothing waits any more
TerminalRow(row, status) ==
    [row EXCEPT !.state = status, !.lease = 0, !.ttl = -1, !.wait = 0, !.pointer = None, !.target = "none",
                !.result = [status |-> status, fence |-> row.fence], !.revision = @ + 1]

\* back to the queue after an expired lease or a retryable result
RequeuedRow(row) ==
    [row EXCEPT !.state = "queued", !.lease = 0, !.ttl = -1, !.pointer = None,
                !.wait = RetryDelay, !.revision = @ + 1]

\* the fact of a dead letter is left to a later sweep
Published_Mutant(e, row) ==
    IF row.state \in TerminalStates \ {"dead"} THEN row.result ELSE outbox[e]

\* _insert_result_outbox: the fact of e once its row is `row'; another fact of
\* the same execution aborts the transaction (CanPublish).
Published(e, row) == IF row.state \in TerminalStates THEN row.result ELSE outbox[e]
CanPublish(e, row) ==
    row.state \in TerminalStates => outbox[e] \in {NoResult, row.result}

\* an execution ends although an effect is uncertain
ParkOrElse_Mutant(e, target, row) ==
    /\ CanPublish(e, row)
    /\ execution' = [execution EXCEPT ![e] = row]
    /\ outbox' = [outbox EXCEPT ![e] = Published(e, row)]
    /\ UNCHANGED effect

\* The common tail of complete, dead_letter and cancel: unfinished effects park
\* the execution instead of ending it.
ParkOrElse(e, target, row) ==
    IF Unfinished(e) # {}
    THEN /\ execution' = [execution EXCEPT ![e] = ParkedRow(e, target)]
         /\ effect' = [f \in Effects |-> IF f \in Unfinished(e) THEN Uncertain(effect[f]) ELSE effect[f]]
         /\ UNCHANGED outbox
    ELSE /\ CanPublish(e, row)
         /\ execution' = [execution EXCEPT ![e] = row]
         /\ outbox' = [outbox EXCEPT ![e] = Published(e, row)]
         /\ UNCHANGED effect

-----------------------------------------------------------------------------
(* Lease authority.                                                        *)

\* the row's lease, revision and state are not compared with those presented
OwnsRow_Mutant(w, states) ==
    /\ worker[w].pc # "idle"
    /\ execution[worker[w].exec].fence = worker[w].fence

\* _assert_lease_row up to the expiry test.  The lease id is unique to a claim;
\* the fence it was issued with stands for it, 0 for NULL.  Runtimes may share
\* an owner name, so the owner tells nothing more.
OwnsRow(w, states) ==
    LET row == execution[worker[w].exec]
    IN  /\ worker[w].pc # "idle"
        /\ row.state \in states
        /\ row.lease = worker[w].fence
        /\ row.revision = worker[w].revision
        /\ row.attempt = worker[w].attempt
        /\ row.fence = worker[w].fence

AssertLease(w, states) == OwnsRow(w, states) /\ execution[worker[w].exec].ttl > 0

\* supervised executions are handed out like any other
OpenObligation_Mutant(e) == FALSE

\* An unresolved obligation of the current generation
OpenObligation(e) == obligation[e].open /\ obligation[e].fence = execution[e].fence

\* only started executions expire
Expired_Mutant(e) == execution[e].state = "running" /\ execution[e].ttl <= 0 /\ ~OpenObligation(e)

\* Rows _reap_in_transaction selects.
Expired(e) ==
    /\ execution[e].state \in ActiveStates
    /\ execution[e].ttl <= 0
    /\ ~OpenObligation(e)

ReapedRow(e) ==
    IF ~Expired(e) THEN execution[e]
    ELSE IF Unfinished(e) # {} THEN ParkedRow(e, "queued")
    ELSE IF execution[e].attempt >= MaxAttempts THEN TerminalRow(execution[e], "dead")
    ELSE RequeuedRow(execution[e])

Reaped == [e \in Executions |-> ReapedRow(e)]

\* What reaping writes besides the executions.
ReapRest ==
    /\ \A e \in Executions : Expired(e) => CanPublish(e, ReapedRow(e))
    /\ effect' = [f \in Effects |-> IF Expired(OwnerOf[f]) THEN Uncertain(effect[f]) ELSE effect[f]]
    /\ outbox' = [e \in Executions |-> IF Expired(e) THEN Published(e, ReapedRow(e)) ELSE outbox[e]]

Reap ==
    /\ \E e \in Executions : Expired(e)
    /\ execution' = Reaped
    /\ ReapRest
    /\ UNCHANGED <<obligation, worker, orders, detached, ledger>>

-----------------------------------------------------------------------------
(* Admission.                                                              *)

\* submit of a command not accepted before (a repeated one changes nothing)
Submit(e) ==
    /\ execution[e].state = "absent"
    /\ execution' = [execution EXCEPT ![e].state = "queued", ![e].revision = 1]
    /\ UNCHANGED <<effect, obligation, outbox, worker, orders, detached, ledger>>

\* cancel_before_accept: accepted and cancelled in one transaction
CancelBeforeAccept(e) ==
    /\ execution[e].state = "absent"
    /\ execution' = [execution EXCEPT ![e] = TerminalRow([Absent EXCEPT !.revision = 1], "cancelled")]
    /\ outbox' = [outbox EXCEPT ![e] = Published(e, execution'[e])]
    /\ UNCHANGED <<effect, obligation, worker, orders, detached, ledger>>

\* The row as a claim leaves it; `steps' is 1 for claim and 2 for claim_and_start.
ClaimedRow(w, row, state, steps) ==
    [row EXCEPT !.state = state, !.attempt = @ + 1, !.fence = @ + 1, !.lease = row.fence + 1,
                !.ttl = LeaseTicks, !.revision = @ + steps]

\* The SELECT of _next_claim_row after the reaping that every claim starts with.
\* Any eligible row can be the target: callers may name one.
Claimable(e) == Reaped[e].state = "queued" /\ Reaped[e].wait = 0 /\ ~OpenObligation(e)

ClaimAs(w, e, state, steps, pc) ==
    LET row == ClaimedRow(w, Reaped[e], state, steps)
    IN  /\ worker[w].pc = "idle"
        /\ Claimable(e)
        /\ execution' = [Reaped EXCEPT ![e] = row]
        /\ ReapRest
        /\ worker' = [worker EXCEPT ![w] = [Idle EXCEPT !.pc = pc, !.exec = e, !.attempt = row.attempt,
                                                        !.fence = row.fence, !.revision = row.revision]]
        /\ UNCHANGED <<obligation, orders, detached, ledger>>

Started == IF Isolation = "thread" THEN "handling" ELSE "running"

Claim(w, e) == ClaimAs(w, e, "leased", 1, "leased")
ClaimAndStart(w, e) == ClaimAs(w, e, "running", 2, Started)

\* start.  The answer may be lost: the row has then moved past the lease held.
Start(w) ==
    /\ worker[w].pc = "leased"
    /\ AssertLease(w, {"leased"})
    /\ execution' = [execution EXCEPT ![worker[w].exec].state = "running", ![worker[w].exec].revision = @ + 1]
    /\ \/ worker' = [worker EXCEPT ![w].pc = Started, ![w].revision = @ + 1]
       \/ UNCHANGED worker
    /\ UNCHANGED <<effect, obligation, outbox, orders, detached, ledger>>

\* renew, whose answer may be lost too
Renew(w) ==
    /\ worker[w].pc \in {"leased", "running", "handling"}
    /\ AssertLease(w, ActiveStates)
    /\ worker[w].revision < MaxRevision
    /\ execution' = [execution EXCEPT ![worker[w].exec].ttl = LeaseTicks, ![worker[w].exec].revision = @ + 1]
    /\ \/ worker' = [worker EXCEPT ![w].revision = @ + 1]
       \/ UNCHANGED worker
    /\ UNCHANGED <<effect, obligation, outbox, orders, detached, ledger>>

-----------------------------------------------------------------------------
(* Process isolation: the obligation to clean up the process tree is       *)
(* durable before the process exists (_invoke_process, strict mode).       *)

\* register_supervisor_obligation
Register(w) ==
    LET e == worker[w].exec
    IN  /\ worker[w].pc = "running"
        /\ Isolation = "process"
        /\ AssertLease(w, ActiveStates)
        /\ obligation[e].fence = worker[w].fence => obligation[e].open
        /\ obligation' = [obligation EXCEPT ![e] = [fence |-> worker[w].fence, open |-> TRUE]]
        /\ worker' = [worker EXCEPT ![w].pc = "registered"]
        /\ UNCHANGED <<execution, effect, outbox, orders, detached, ledger>>

Spawn(w) ==
    /\ worker[w].pc = "registered"
    /\ worker' = [worker EXCEPT ![w].pc = "handling", ![w].alive = TRUE]
    /\ UNCHANGED <<store, orders, detached, ledger>>

\* The invocation gives up before spawning: the process provably never existed.
NotInvoked(w) ==
    /\ worker[w].pc \in {"running", "registered"}
    /\ worker' = [worker EXCEPT ![w].pc = "done",
                    ![w].outcome = [status |-> "failed", confirmed |-> TRUE,
                                    timely |-> execution[worker[w].exec].ttl >= 0]]
    /\ UNCHANGED <<store, orders, detached, ledger>>

\* resolve_supervisor_obligation: the host has authenticated that the process
\* tree is gone and that its runtime will not start it any more.
ResolveObligation(e) ==
    /\ OpenObligation(e)
    /\ \A w \in Workers :
          worker[w].exec = e /\ worker[w].fence = execution[e].fence =>
             ~worker[w].alive /\ worker[w].pc \notin {"running", "registered"}
    /\ obligation' = [obligation EXCEPT ![e].open = FALSE]
    /\ UNCHANGED <<execution, effect, outbox, worker, orders, detached, ledger>>

-----------------------------------------------------------------------------
(* Effects: HandlerEffects.execute_once, one transaction at a time.        *)

\* The handler's code can run: its thread is not revoked, its process alive.
CanRun(w, pc) == worker[w].pc = pc /\ (Isolation = "process" => worker[w].alive)

MatchesLease(w, f) == effect[f].fence = worker[w].fence

\* prepare_effect.  A committed effect is answered from the record; one left
\* unfinished by an older fence, or uncertain, parks the execution.
PrepareEffect(w, f) ==
    /\ CanRun(w, "handling")
    /\ OwnerOf[f] = worker[w].exec
    /\ AssertLease(w, {"running"})
    /\ \/ /\ effect[f].state = "committed"
          /\ UNCHANGED <<execution, effect, worker>>
       \/ /\ effect[f].state \in {"absent", "not_applied"}
          /\ effect' = [effect EXCEPT ![f] = [state |-> "prepared", fence |-> worker[w].fence,
                                              claim |-> 0, revision |-> @.revision + 1]]
          /\ worker' = [worker EXCEPT ![w].pc = "prepared", ![w].effect = f]
          /\ UNCHANGED execution
       \/ /\ effect[f].state \in {"prepared", "performing"}
          /\ MatchesLease(w, f)
          /\ worker' = [worker EXCEPT ![w].pc = "prepared", ![w].effect = f]
          /\ UNCHANGED <<execution, effect>>
       \/ /\ \/ effect[f].state \in UnfinishedStates /\ worker[w].fence > effect[f].fence
             \/ effect[f].state = "indeterminate"
          /\ execution' = [execution EXCEPT ![worker[w].exec] = ParkedRow(worker[w].exec, "queued")]
          /\ effect' = [g \in Effects |-> IF OwnerOf[g] = worker[w].exec THEN Uncertain(effect[g]) ELSE effect[g]]
          /\ worker' = [worker EXCEPT ![w].pc = "recover", ![w].effect = f]
    /\ UNCHANGED <<obligation, outbox, orders, detached, ledger>>

\* claim_effect.  The claim id is fresh; the revision it is written with stands
\* for it.
ClaimEffect(w) ==
    LET f == worker[w].effect
    IN  /\ CanRun(w, "prepared")
        /\ AssertLease(w, {"running"})
        /\ MatchesLease(w, f)
        /\ effect[f].state = "prepared"
        /\ effect' = [effect EXCEPT ![f].state = "performing", ![f].revision = @ + 1,
                                    ![f].claim = effect[f].revision + 1]
        /\ worker' = [worker EXCEPT ![w].pc = "claimed", ![w].claim = effect[f].revision + 1]
        /\ ledger' = [ledger EXCEPT ![f].granted = @ + 1]
        /\ UNCHANGED <<execution, obligation, outbox, orders, detached>>

\* _verify_active between the claim and the call
VerifyClaim(w) ==
    /\ CanRun(w, "claimed")
    /\ AssertLease(w, ActiveStates)
    /\ worker' = [worker EXCEPT ![w].pc = "calling"]
    /\ UNCHANGED <<store, orders, detached, ledger>>

\* perform(): the outside world changes and no transaction protects it.  A call
\* that raises may have had its effect or not.
Perform(w) ==
    LET f == worker[w].effect
    IN  /\ CanRun(w, "calling")
        /\ \/ /\ worker' = [worker EXCEPT ![w].pc = "answered"]
              /\ ledger' = [ledger EXCEPT ![f].performed = @ + 1]
           \/ /\ worker' = [worker EXCEPT ![w].pc = "raised"]
              /\ \/ ledger' = [ledger EXCEPT ![f].performed = @ + 1]
                 \/ UNCHANGED ledger
        /\ UNCHANGED <<store, orders, detached>>

\* perform() in a thread the runtime stopped waiting for
PerformDetached(f) ==
    /\ detached[f] > 0
    /\ detached' = [detached EXCEPT ![f] = @ - 1]
    /\ ledger' = [ledger EXCEPT ![f].performed = @ + 1]
    /\ UNCHANGED <<store, worker, orders>>

HoldsClaim(w, f) ==
    /\ AssertLease(w, {"running"})
    /\ MatchesLease(w, f)
    /\ effect[f].claim = worker[w].claim
    /\ effect[f].state = "performing"

\* commit_effect
CommitEffect(w) ==
    LET f == worker[w].effect
    IN  /\ CanRun(w, "answered")
        /\ HoldsClaim(w, f)
        /\ effect' = [effect EXCEPT ![f].state = "committed", ![f].revision = @ + 1]
        /\ worker' = [worker EXCEPT ![w].pc = "handling", ![w].effect = None, ![w].claim = 0]
        /\ UNCHANGED <<execution, obligation, outbox, orders, detached, ledger>>

\* a call that raised is recorded as one that changed nothing
MarkIndeterminate_Mutant(w) ==
    LET f == worker[w].effect
    IN  /\ CanRun(w, "answered") \/ CanRun(w, "raised")
        /\ HoldsClaim(w, f)
        /\ effect' = [effect EXCEPT ![f].state = "not_applied", ![f].revision = @ + 1]
        /\ worker' = [worker EXCEPT ![w].pc = "recover"]
        /\ UNCHANGED <<execution, obligation, outbox, orders, detached, ledger>>

\* mark_effect_indeterminate, after the call raised or its commit failed; the
\* handler then ends with EffectRecoveryRequiredError.
MarkIndeterminate(w) ==
    LET f == worker[w].effect
    IN  /\ CanRun(w, "answered") \/ CanRun(w, "raised")
        /\ HoldsClaim(w, f)
        /\ effect' = [effect EXCEPT ![f].state = "indeterminate", ![f].revision = @ + 1]
        /\ worker' = [worker EXCEPT ![w].pc = "recover"]
        /\ UNCHANGED <<execution, obligation, outbox, orders, detached, ledger>>

\* require_effect_recovery by the runtime, once the handler (and its process)
\* ended with EffectRecoveryRequiredError; recover_completions repeats it from
\* the durable receipt (settlement), when an expiry is forgiven.
RequireRecovery(w, settlement) ==
    LET e == worker[w].exec
    IN  /\ worker[w].pc = "recover"
        /\ ~worker[w].orphan
        /\ IF settlement THEN OwnsRow(w, {"running"}) ELSE AssertLease(w, {"running"})
        /\ worker[w].effect \in Unfinished(e)
        /\ ParkOrElse(e, "queued", execution[e])
        /\ worker' = [worker EXCEPT ![w] = Idle]
        /\ UNCHANGED <<obligation, orders, detached, ledger>>

\* The handler's own code catches what execute_once raised and goes on.
Swallow(w) ==
    /\ \E pc \in {"prepared", "claimed", "answered", "raised", "recover"} : CanRun(w, pc)
    /\ worker' = [worker EXCEPT ![w].pc = "handling", ![w].effect = None, ![w].claim = 0]
    /\ UNCHANGED <<store, orders, detached, ledger>>

-----------------------------------------------------------------------------
(* Completion.                                                             *)

\* The outcome the runtime builds.  timely: completed_at <= lease.expires_at;
\* confirmed: the process tree was reaped and its result accepted.
Outcome(w, status, confirmed) ==
    [status |-> status, confirmed |-> confirmed, timely |-> execution[worker[w].exec].ttl >= 0]

\* The handler returns; its process has been reaped by then.
Finish(w, status) ==
    /\ CanRun(w, "handling")
    /\ ~worker[w].orphan
    /\ worker' = [worker EXCEPT ![w].pc = "done", ![w].alive = FALSE,
                                ![w].outcome = Outcome(w, status, Isolation = "process")]
    /\ UNCHANGED <<store, orders, detached, ledger>>

\* Timeout, revocation or death of the handler wherever it is.  A process is
\* killed; a thread inside perform() is only abandoned.
Interrupt(w, status) ==
    /\ \E pc \in InHandler : CanRun(w, pc)
    /\ ~worker[w].orphan
    /\ worker' = [worker EXCEPT ![w].pc = "done", ![w].alive = FALSE,
                                ![w].outcome = Outcome(w, status, FALSE)]
    /\ detached' = IF Isolation = "thread" /\ worker[w].pc = "calling"
                   THEN [detached EXCEPT ![worker[w].effect] = @ + 1] ELSE detached
    /\ UNCHANGED <<store, orders, ledger>>

\* an exhausted retryable result is recorded as it came
CompletedRow_Mutant(row, status) ==
    IF status = "retry" /\ row.attempt < MaxAttempts THEN RequeuedRow(row) ELSE TerminalRow(row, status)

\* complete (settlement = FALSE) and _restore_completion (TRUE, which forgives
\* an expiry that came after the work was done).
CompletedRow(row, status) ==
    CASE status = "retry" /\ row.attempt >= MaxAttempts -> TerminalRow(row, "dead")
      [] status = "retry" /\ row.attempt < MaxAttempts  -> RequeuedRow(row)
      [] OTHER                                          -> TerminalRow(row, status)

\* resolve_supervisor; an obligation the host resolved otherwise raises
CloseObligation(w) ==
    LET e == worker[w].exec
    IN  /\ obligation[e] = [fence |-> worker[w].fence, open |-> TRUE]
        /\ obligation' = [obligation EXCEPT ![e].open = FALSE]

\* What completing does to the obligation.  A receipt may also be settled by the
\* host, which vouches for the cleanup (reconcile_supervisor_result).
ReleaseObligation(w, settlement) ==
    LET confirmed == worker[w].outcome.confirmed /\ obligation[worker[w].exec].fence = worker[w].fence
    IN  \/ (confirmed \/ settlement) /\ CloseObligation(w)
        \/ ~confirmed /\ UNCHANGED obligation

AnswerTo(w) == worker' = [worker EXCEPT ![w] = Idle] \/ UNCHANGED worker

Complete(w, settlement) ==
    LET e == worker[w].exec
    IN  /\ worker[w].pc = "done"
        /\ IF settlement THEN OwnsRow(w, {"running"}) ELSE AssertLease(w, {"running"})
        /\ worker[w].outcome.timely
        /\ ParkOrElse(e, "queued", CompletedRow(execution[e], worker[w].outcome.status))
        /\ IF Unfinished(e) # {} THEN UNCHANGED obligation ELSE ReleaseObligation(w, settlement)
        /\ AnswerTo(w)
        /\ UNCHANGED <<orders, detached, ledger>>

\* complete repeated after its answer was lost: the identical result is found,
\* and the obligation resolved with it, or by the host now.
CompleteAgain(w) ==
    LET e == worker[w].exec
    IN  /\ worker[w].pc = "done"
        /\ execution[e].state \in TerminalStates
        /\ execution[e].result = [status |-> worker[w].outcome.status, fence |-> worker[w].fence]
        /\ UNCHANGED obligation \/ CloseObligation(w)
        /\ worker' = [worker EXCEPT ![w] = Idle]
        /\ UNCHANGED <<execution, effect, outbox, orders, detached, ledger>>

\* dead_letter
DeadLetter(w) ==
    LET e == worker[w].exec
    IN  /\ worker[w].pc \in {"leased", "running", "handling"}
        /\ ~worker[w].alive
        /\ AssertLease(w, ActiveStates)
        /\ ParkOrElse(e, "queued", TerminalRow(execution[e], "dead"))
        /\ worker' = [worker EXCEPT ![w] = Idle]
        /\ UNCHANGED <<obligation, orders, detached, ledger>>

\* What the runtime still holds is worth nothing any more: every call would
\* raise StaleFenceError or InvalidStateTransitionError (a recovery signal may
\* still be restored from its receipt).
Useless(w) ==
    /\ worker[w].pc # "idle"
    /\ ~OwnsRow(w, ActiveStates) \/ (worker[w].pc = "done" /\ ~worker[w].outcome.timely)
       \/ (worker[w].pc # "done" /\ execution[worker[w].exec].ttl <= 0)

\* The runtime drops a lost authority (killing the process it still has).
Abandon(w) ==
    /\ Useless(w)
    /\ ~worker[w].orphan
    /\ worker' = [worker EXCEPT ![w] = Idle]
    /\ detached' = IF Isolation = "thread" /\ worker[w].pc = "calling"
                   THEN [detached EXCEPT ![worker[w].effect] = @ + 1] ELSE detached
    /\ UNCHANGED <<store, orders, ledger>>

\* The runtime dies.  Threads die with it; a process survives as an orphan.
Crash(w) ==
    /\ worker[w].pc # "idle"
    /\ ~worker[w].orphan
    /\ worker' = [worker EXCEPT ![w] = IF worker[w].alive THEN [worker[w] EXCEPT !.orphan = TRUE] ELSE Idle]
    /\ UNCHANGED <<store, orders, detached, ledger>>

OrphanExit(w) ==
    /\ worker[w].orphan
    /\ worker' = [worker EXCEPT ![w] = Idle]
    /\ UNCHANGED <<store, orders, detached, ledger>>

-----------------------------------------------------------------------------
(* Cancellation and recovery.                                              *)

\* cancel presented with the exact current revision (a stale one raises)
Cancel(e) ==
    /\ \/ /\ execution[e].state \in {"queued"} \cup ActiveStates
          /\ ParkOrElse(e, "cancelled", TerminalRow(execution[e], "cancelled"))
       \/ /\ execution[e].state = "recovery_required"
          /\ execution[e].target # "cancelled"
          /\ Unfinished(e) # {}
          /\ execution' = [execution EXCEPT ![e].target = "cancelled", ![e].revision = @ + 1,
                 ![e].pointer = IF @ \in Unfinished(e) THEN @ ELSE First(Unfinished(e))]
          /\ UNCHANGED <<effect, outbox>>
    /\ UNCHANGED <<obligation, worker, orders, detached, ledger>>

\* cancel presented with a live lease
CancelLease(w) ==
    LET e == worker[w].exec
    IN  /\ worker[w].pc \in {"leased", "running", "handling"}
        /\ ~worker[w].alive
        /\ AssertLease(w, ActiveStates)
        /\ ParkOrElse(e, "cancelled", TerminalRow(execution[e], "cancelled"))
        /\ worker' = [worker EXCEPT ![w] = Idle]
        /\ UNCHANGED <<obligation, orders, detached, ledger>>

\* An operator reads an uncertain effect and writes a decision about it, quoting
\* the revision read.  The order may arrive late, or more than once.
WriteOrder(f, decision) ==
    /\ effect[f].state = "indeterminate"
    /\ Cardinality(orders) < MaxOrders
    /\ orders' = orders \cup {[effect |-> f, revision |-> effect[f].revision, decision |-> decision]}
    /\ UNCHANGED <<store, worker, detached, ledger>>

\* the pointer stays on the effect just decided, and a cancellation recorded
\* while parked is forgotten
DecidedRow_MutantPointer(e, remaining) ==
    IF remaining # {} THEN [execution[e] EXCEPT !.revision = @ + 1]
    ELSE [execution[e] EXCEPT !.state = "queued", !.wait = 0, !.pointer = None,
                              !.target = "none", !.revision = @ + 1]

\* The row of e once its effect f is decided and `remaining' are still uncertain
DecidedRow(e, remaining) ==
    IF remaining # {}
    THEN [execution[e] EXCEPT !.pointer = First(remaining), !.revision = @ + 1]
    ELSE IF execution[e].target = "cancelled"
    THEN TerminalRow(execution[e], "cancelled")
    ELSE [execution[e] EXCEPT !.state = "queued", !.wait = 0, !.pointer = None,
                              !.target = "none", !.revision = @ + 1]

\* resolve_effect: the expected revision is that of the effect as it is now
Current(o) == effect[o.effect].revision = o.revision

ResolveEffect(o) ==
    LET f == o.effect
        e == OwnerOf[f]
        remaining == {g \in Effects : OwnerOf[g] = e /\ g # f /\ effect[g].state = "indeterminate"}
        row == DecidedRow(e, remaining)
    IN  /\ Current(o)
        /\ effect[f].state = "indeterminate"
        /\ execution[e].state = "recovery_required"
        /\ execution[e].pointer = f
        /\ CanPublish(e, row)
        /\ effect' = [effect EXCEPT ![f].state = IF o.decision = "applied" THEN "committed" ELSE "not_applied",
                                    ![f].claim = IF o.decision = "applied" THEN @ ELSE 0,
                                    ![f].revision = @ + 1]
        /\ execution' = [execution EXCEPT ![e] = row]
        /\ outbox' = [outbox EXCEPT ![e] = Published(e, row)]
        /\ ledger' = IF o.decision = "applied" THEN ledger ELSE [ledger EXCEPT ![f].waived = @ + 1]
        /\ UNCHANGED <<obligation, worker, orders, detached>>

-----------------------------------------------------------------------------
\* Time passes (_advance_clock): the store sees max(watermark, wall clock).
Tick ==
    /\ \E e \in Executions : execution[e].ttl > -1 \/ execution[e].wait > 0
    /\ execution' = [e \in Executions |->
          [execution[e] EXCEPT !.ttl = IF @ > -1 THEN @ - 1 ELSE @,
                               !.wait = IF @ > 0 THEN @ - 1 ELSE @]]
    /\ UNCHANGED <<effect, obligation, outbox, worker, orders, detached, ledger>>

WorkerStep(w) ==
    \/ \E e \in Executions : Claim(w, e) \/ ClaimAndStart(w, e)
    \/ Start(w) \/ Renew(w) \/ Register(w) \/ Spawn(w) \/ NotInvoked(w)
    \/ \E f \in Effects : PrepareEffect(w, f)
    \/ ClaimEffect(w) \/ VerifyClaim(w) \/ Perform(w) \/ CommitEffect(w) \/ MarkIndeterminate(w)
    \/ Swallow(w)
    \/ \E status \in Outcomes : Finish(w, status)
    \/ \E status \in Outcomes \ {"succeeded"} : Interrupt(w, status)
    \/ \E settlement \in BOOLEAN : Complete(w, settlement) \/ RequireRecovery(w, settlement)
    \/ CompleteAgain(w) \/ DeadLetter(w) \/ CancelLease(w)
    \/ Abandon(w) \/ Crash(w) \/ OrphanExit(w)

Next ==
    \/ \E w \in Workers : WorkerStep(w)
    \/ \E e \in Executions : Submit(e) \/ CancelBeforeAccept(e) \/ Cancel(e) \/ ResolveObligation(e)
    \/ \E f \in Effects : PerformDetached(f)
    \/ \E f \in Effects, d \in Decisions : WriteOrder(f, d)
    \/ \E o \in orders : ResolveEffect(o)
    \/ Reap
    \/ Tick

Spec == Init /\ [][Next]_vars

(* Fairness: the clock advances; some runtime polls run_next, whose claim    *)
(* begins with the reaping; a runtime notices that its authority is gone;  *)
(* a killed process ends and the host resolves its obligation.  No handler *)
(* is assumed to return and no operator to answer.                         *)
Fairness ==
    /\ WF_vars(Tick)
    /\ WF_vars(Reap)
    /\ \A e \in Executions : WF_vars(ResolveObligation(e))
    /\ \A w \in Workers : WF_vars(Abandon(w)) /\ WF_vars(OrphanExit(w))
    /\ WF_vars(\E w \in Workers, e \in Executions : ClaimAndStart(w, e))

FairSpec == Spec /\ Fairness

-----------------------------------------------------------------------------
(* Properties.                                                             *)

Rows == [state : ExecutionStates, attempt : Nat, fence : Nat, revision : Nat,
         lease : Nat, ttl : -1 .. LeaseTicks, wait : 0 .. RetryDelay,
         pointer : Effects \cup {None}, target : {"none", "queued", "cancelled"},
         result : Results \cup {NoResult}]

EffectRows == [state : EffectStates, fence : Nat, claim : Nat, revision : Nat]

Invocations ==
    [pc : WorkerPcs, exec : Executions \cup {None}, attempt : Nat, fence : Nat, revision : Nat,
     effect : Effects \cup {None}, claim : Nat, alive : BOOLEAN, orphan : BOOLEAN,
     outcome : [status : Outcomes, timely : BOOLEAN, confirmed : BOOLEAN]]

\* A runtime that drives an invocation knows its execution, and one between two
\* steps of execute_once its effect, which belongs to that execution.
Linked(i) ==
    /\ i.pc # "idle" => i.exec \in Executions
    /\ i.pc \in EffectPcs \cup {"recover"} => i.effect \in Effects /\ OwnerOf[i.effect] = i.exec

\* The shape of every row and of every invocation.
TypeOK ==
    /\ execution \in [Executions -> Rows]
    /\ effect \in [Effects -> EffectRows]
    /\ obligation \in [Executions -> [fence : Nat, open : BOOLEAN]]
    /\ outbox \in [Executions -> Results \cup {NoResult}]
    /\ worker \in [Workers -> Invocations]
    /\ \A w \in Workers : Linked(worker[w])
    /\ orders \in SUBSET [effect : Effects, revision : Nat, decision : Decisions]
    /\ detached \in [Effects -> Nat]
    /\ ledger \in [Effects -> [granted : Nat, performed : Nat, waived : Nat]]

\* An effect that is prepared or performing belongs to the generation that is
\* running now; an uncertain one is never left on a queued or ended execution,
\* where nobody would ask for a decision.
UnfinishedIsOwned ==
    \A f \in Effects :
       LET row == execution[OwnerOf[f]]
       IN  /\ effect[f].state \in {"prepared", "performing"} =>
                 row.state = "running" /\ row.fence = effect[f].fence
           /\ effect[f].state = "indeterminate" => row.state \in {"running", "recovery_required"}

\* A parked execution always names an effect that a decision can resolve now,
\* and no runtime has a lease on it.
RecoveryPointerSound ==
    \A e \in Executions :
       execution[e].state = "recovery_required" =>
          /\ execution[e].lease = 0
          /\ execution[e].target \in {"queued", "cancelled"}
          /\ execution[e].pointer \in Effects
          /\ OwnerOf[execution[e].pointer] = e
          /\ effect[execution[e].pointer].state = "indeterminate"

\* The outside world sees an effect at most once for the original attempt and
\* once more for every not_applied decision an operator wrote: nothing is
\* replayed by itself, nor by a decision that arrives late or twice.
WrittenFor(f, decision) == {o \in orders : o.effect = f /\ o.decision = decision}

AtMostOncePerDecision ==
    \A f \in Effects : ledger[f].performed <= 1 + Cardinality(WrittenFor(f, "not_applied"))

\* An effect that happened without a decision that it did not is on record as
\* committed or as possibly applied: none is forgotten.
NoForgottenEffect ==
    \A f \in Effects :
       ledger[f].performed > ledger[f].waived =>
          effect[f].state \in {"performing", "indeterminate", "committed"}

\* Attempts never exceed the retry budget plus one for each recovery decision
\* written, although decisions arrive late and repeatedly.
AttemptBudget ==
    \A e \in Executions :
       execution[e].attempt <= MaxAttempts + Cardinality({o \in orders : OwnerOf[o.effect] = e})

\* The outbox holds a fact exactly for the executions that ended, and the same
\* fact as the row.
OutboxMatchesRow ==
    \A e \in Executions :
       outbox[e] = IF execution[e].state \in TerminalStates THEN execution[e].result ELSE NoResult

\* An execution has at most one live process tree, orphans of crashed runtimes
\* included: a new generation waits for the cleanup of the old one.
SingleProcess ==
    \A w1, w2 \in Workers :
       worker[w1].alive /\ worker[w2].alive /\ worker[w1].exec = worker[w2].exec => w1 = w2

\* All that is said of the rows at any moment: who has unfinished effects, what a
\* parked execution waits for, what is delivered, what the outside world saw, how
\* often an attempt was made and where.
KernelSound ==
    /\ TypeOK
    /\ UnfinishedIsOwned
    /\ RecoveryPointerSound
    /\ OutboxMatchesRow
    /\ NoForgottenEffect
    /\ AtMostOncePerDecision
    /\ AttemptBudget
    /\ SingleProcess

\* What has ended stays as it ended, in the row and in the outbox.
TerminalForever ==
    [][\A e \in Executions :
          execution[e].state \in TerminalStates =>
             execution'[e] = execution[e] /\ outbox'[e] = outbox[e]]_vars

\* Once a parked execution is to be cancelled it is never queued again.
CancellationSticks ==
    [][\A e \in Executions :
          execution[e].state = "recovery_required" /\ execution[e].target = "cancelled" =>
             \/ execution'[e].state = "cancelled"
             \/ execution'[e].state = "recovery_required" /\ execution'[e].target = "cancelled"]_vars

\* An accepted execution ends or asks an operator for a decision, although its
\* runtimes crash, its handlers hang and its answers are lost.
Settles ==
    \A e \in Executions :
       execution[e].state = "queued" ~>
          execution[e].state \in TerminalStates \cup {"recovery_required"}

\* Everything above is one way to keep ExecutionPromise.
Promise == INSTANCE ExecutionPromise WITH
    Verdicts  <- TerminalStates,
    Pending   <- "none",
    verdict   <- [e \in Executions |-> outbox[e].status],
    knowledge <- [f \in Effects |->
                    CASE effect[f].state \in {"absent", "prepared", "not_applied"} -> "fresh"
                      [] effect[f].state \in {"performing", "indeterminate"} -> "unknown"
                      [] effect[f].state = "committed" -> "applied"],
    granted   <- [f \in Effects |-> ledger[f].granted],
    performed <- [f \in Effects |-> ledger[f].performed]

KeepsPromise == Promise!Spec

\* What get() answers moves as the orchestrator expects: revisions order the
\* snapshots, an ended execution stays as it is, and a recorded cancellation is
\* not taken back.
View == INSTANCE KernelView WITH
    view <- [e \in Executions |->
               [phase    |-> CASE execution[e].state \in ActiveStates -> "active"
                               [] execution[e].state = "recovery_required" -> "parked"
                               [] execution[e].state \in {"succeeded", "failed", "dead"} -> "done"
                               [] OTHER -> execution[e].state,
                revision |-> execution[e].revision,
                target   |-> execution[e].target]]

KeepsView == View!Spec

=============================================================================
