---------------------------- MODULE StallEpisodes ----------------------------
(***************************************************************************)
(* Stall windows, episodes and dispositions of one execution: the sampler  *)
(* and the courier of observability/supervision.py over the observation    *)
(* journal, and the Kernel's supervision row (execution_kernel/            *)
(* supervision.py), which decides whether a disposition is still current.  *)
(* Several services, one per process, share the journal and the Kernel.    *)
(* Times are ages in ticks: every tick ages what is stored and what is     *)
(* held, up to a cap past which nothing compares; a streak that is long    *)
(* enough does not count on either.                                        *)
(***************************************************************************)
EXTENDS Naturals, FiniteSets

CONSTANTS
    Services,
    Versions,      \* policy_id:version, each registered at most once
    Episodes,      \* identities of episodes; one notice each
    Interval,      \* policy.sample_interval
    Consecutive,   \* policy.consecutive_windows
    Gap,           \* a longer distance of two samples is a sampling gap
    Lag,           \* bound: ticks from the clock of a sample to its transaction
    MaxDeliveries, \* policy.max_deliveries
    None,          \* SQL's NULL
    MaxProgress,   \* bound: progress keys
    MaxOutput,     \* bound: counts of the other metric
    MaxFence,      \* bound: attempts of the execution
    MaxOrders,     \* bound: retries of dead notices
    MaxFaults      \* bound: lapsed leases, deaths, failed calls, unknown and old reports

WindowsAssumption ==
    /\ {Interval, Consecutive, MaxDeliveries} \subseteq Nat \ {0}
    /\ {Gap, Lag, MaxProgress, MaxOutput, MaxFence, MaxOrders, MaxFaults} \subseteq Nat

Cap == Interval * Consecutive + Lag    \* the ages past it are all alike
Older(age) == IF age = None THEN None ELSE IF age < Cap THEN age + 1 ELSE Cap

VARIABLES
    exec,     \* the Kernel's execution row and its confirmed entry
    sup,      \* kernel_supervision
    output,   \* the count of the other metric, as it is reported
    pol,      \* obs_policies; history: how late the streak began to be observed
    ep,       \* obs_episodes
    out,      \* obs_outbox
    ev,       \* where the sampler of a service is
    cour,     \* what the courier of a service delivers
    told,     \* notices the bridge has taken
    quiet,    \* history: age of the last confirmed progress of this attempt
    verdict,  \* history: the disposition that cancelled the execution
    orders, faults

kernel == <<exec, sup, output, quiet, verdict>>
journal == <<pol, ep, out, orders>>
vars == <<exec, sup, output, pol, ep, out, ev, cour, told, quiet, verdict, orders, faults>>

NoRow == [state |-> "absent", fence |-> 0, revision |-> 0, base |-> None, cont |-> None,
          late |-> 0, progress |-> 0, consecutive |-> 0, episode |-> None]
NoEpisode == [state |-> "absent", version |-> None, fence |-> 0, progress |-> 0, late |-> 0, ends |-> None]
NoNotice == [state |-> "absent", attempts |-> 0, lease |-> 0, expired |-> FALSE]
Idle == [pc |-> "idle", row |-> NoRow, version |-> None, age |-> 0, status |-> None, todo |-> {}, at |-> None]
NoSupervision == [fence |-> 0, progress |-> 0, episode |-> None, policy |-> None]

Init ==
    /\ exec = [state |-> "queued", fence |-> 0, entered |-> FALSE, lapsed |-> FALSE]
    /\ sup = NoSupervision /\ output = 0
    /\ pol = [v \in Versions |-> NoRow] /\ ep = [e \in Episodes |-> NoEpisode]
    /\ out = [e \in Episodes |-> NoNotice]
    /\ ev = [s \in Services |-> Idle] /\ cour = [s \in Services |-> None]
    /\ told = {} /\ quiet = 0 /\ verdict = None /\ orders = 0 /\ faults = 0

Fault == faults < MaxFaults /\ faults' = faults + 1

-----------------------------------------------------------------------------
(* The execution and the Kernel's supervision row.                         *)

Running == exec.state = "running"

\* what _assert_lease and the writers of the supervision row ask for
Leased == Running /\ ~exec.lapsed

\* _supervision_row: a row of an earlier attempt starts over.
SupervisionRow == IF sup.fence = exec.fence THEN sup ELSE [NoSupervision EXCEPT !.fence = exec.fence]

\* supervision_status shows the same without writing it.
Progress == SupervisionRow.progress

Start ==
    /\ exec.state = "queued" /\ exec.fence < MaxFence
    /\ exec' = [state |-> "running", fence |-> exec.fence + 1, entered |-> FALSE, lapsed |-> FALSE]
    /\ quiet' = 0
    /\ UNCHANGED <<sup, output, ev, cour, told, verdict, faults>> /\ UNCHANGED journal

ConfirmEntry ==
    /\ Leased /\ ~exec.entered /\ exec' = [exec EXCEPT !.entered = TRUE]
    /\ UNCHANGED <<sup, output, ev, cour, told, quiet, verdict, faults>> /\ UNCHANGED journal

\* The lease runs out; the row says "running" until somebody recovers it.
Lapses ==
    /\ Leased /\ Fault /\ exec' = [exec EXCEPT !.lapsed = TRUE]
    /\ UNCHANGED <<sup, output, ev, cour, told, quiet, verdict>> /\ UNCHANGED journal

\* the execution is queued again, or it ends
Leaves ==
    /\ Running
    /\ \E state \in {"queued", "ended"} : exec' = [exec EXCEPT !.state = state, !.lapsed = FALSE]
    /\ UNCHANGED <<sup, output, ev, cour, told, quiet, verdict, faults>> /\ UNCHANGED journal

\* confirm_progress with a new key; a replayed key changes nothing.
Confirmed(row) == [row EXCEPT !.progress = @ + 1, !.episode = None]

ConfirmProgress ==
    /\ Leased /\ exec.entered /\ Progress < MaxProgress
    /\ sup' = Confirmed(SupervisionRow) /\ quiet' = 0
    /\ UNCHANGED <<exec, output, ev, cour, told, verdict, faults>> /\ UNCHANGED journal

Output ==
    /\ Running /\ exec.entered /\ output < MaxOutput /\ output' = output + 1
    /\ UNCHANGED <<exec, sup, ev, cour, told, quiet, verdict, faults>> /\ UNCHANGED journal

\* register_stall_episode
MayRegister(e) ==
    LET row == SupervisionRow
    IN  /\ Leased /\ ep[e].fence = exec.fence
        /\ row.policy \in {None, ep[e].version} /\ row.progress = ep[e].progress
        /\ row.episode \in {None, e}
Registered(e) == [SupervisionRow EXCEPT !.episode = e, !.policy = ep[e].version]

\* the first policy of an attempt stays
Selected_Mutant(v) ==
    IF SupervisionRow.policy # None THEN SupervisionRow ELSE [SupervisionRow EXCEPT !.policy = v]

\* set_stall_policy replaces what may be disposed of.
Selected(v) ==
    IF SupervisionRow.policy = v THEN SupervisionRow
    ELSE [SupervisionRow EXCEPT !.policy = v, !.episode = None]

\* _assert_stall_disposition, which does not look at the lease
Current(e) ==
    /\ Running /\ sup.fence = exec.fence /\ ep[e].fence = exec.fence
    /\ sup.progress = ep[e].progress /\ sup.episode = e /\ sup.policy = ep[e].version

\* cancel_if_stalled by whoever was told.  It reads the row for its revision and
\* cancels under that revision in a second transaction: one that has moved in
\* between, be it by a renewed lease, or a disposition that is stale then, is
\* refused, and a refused call changes nothing, so the call acts where its second
\* transaction does.  Effects that are under way park the execution instead, with
\* its cancellation to come.
CancelIfStalled(e) ==
    /\ e \in told /\ Current(e)
    /\ \E state \in {"cancelled", "parked"} : exec' = [exec EXCEPT !.state = state]
    /\ verdict' = [quiet |-> quiet, late |-> ep[e].late]
    /\ UNCHANGED <<sup, output, ev, cour, told, quiet, faults>> /\ UNCHANGED journal

-----------------------------------------------------------------------------
(* Registration and selection of policies.                                 *)

Desired == {"active", "registering_policy", "pending_execution"}

\* notices of an episode that ended are not delivered any more
Withdrawn(ended) ==
    [e \in Episodes |->
        IF e \in ended /\ out[e].state \notin {"absent", "bridged", "dead"}
        THEN [out[e] EXCEPT !.state = "superseded", !.expired = FALSE] ELSE out[e]]

\* revision + 1: no number that another sampler holds; only equality is asked for
Bumped(v, me) ==
    CHOOSE n \in 1 .. Cardinality(Services) + 1 :
       \A s \in Services \ {me} : ev[s].version = v => ev[s].row.revision # n

\* What supervision_status has shown to somebody who registers a policy now: a
\* state of the execution, or of the one it was before.
Authorities ==
    {<<"pending_execution", fence>> : fence \in 0 .. exec.fence - (IF exec.state = "queued" THEN 0 ELSE 1)}
        \cup {<<"registering_policy", fence>> : fence \in 1 .. exec.fence}

\* watch: a new version takes the place of the current one and ends its episode;
\* what is still to be told of any superseded episode is withdrawn.
Watch(v) ==
    LET open == {e \in Episodes : ep[e].state \in {"registering", "active"}}
    IN  /\ pol[v].state = "absent"
        /\ \E seen \in Authorities :
             pol' = [w \in Versions |->
                     IF w = v THEN [NoRow EXCEPT !.state = seen[1], !.fence = seen[2], !.revision = 1]
                     ELSE IF pol[w].state \in Desired
                     THEN [pol[w] EXCEPT !.state = "superseded", !.revision = Bumped(w, None)]
                     ELSE pol[w]]
        /\ ep' = [e \in Episodes |-> IF e \in open THEN [ep[e] EXCEPT !.state = "superseded"] ELSE ep[e]]
        /\ out' = Withdrawn({e \in Episodes : ep'[e].state = "superseded"})
        /\ UNCHANGED <<orders, ev, cour, told, faults>> /\ UNCHANGED kernel

\* a subscription of a queued execution waits for the entry of its handler
Migrated(v) == pol[v].state = "pending_execution" /\ exec.entered

Selectable(v) == Migrated(v) \/ (pol[v].state = "registering_policy" /\ pol[v].fence = exec.fence)

\* _select_policies, by the registration itself or by any sampler.
Select(v) ==
    LET to(state) == pol' = [pol EXCEPT ![v].state = state, ![v].fence = exec.fence, ![v].revision = Bumped(v, None)]
        closes(state) == pol' = [pol EXCEPT ![v].state = state, ![v].revision = Bumped(v, None)]
    IN  /\ pol[v].state \in {"registering_policy", "pending_execution"} /\ exec.state # "queued"
        /\ \/ ~Running /\ closes("closed") /\ UNCHANGED sup
           \/ /\ Running /\ pol[v].state = "registering_policy" /\ pol[v].fence # exec.fence
              /\ closes("superseded") /\ UNCHANGED sup
           \/ /\ Leased /\ Selectable(v)
              /\ sup' = Selected(v) /\ to("active")
        /\ UNCHANGED <<exec, output, quiet, verdict, ep, out, orders, ev, cour, told, faults>>

\* The Kernel takes the policy and the transaction of the journal does not commit.
SelectFails(v) ==
    /\ pol[v].state \in {"registering_policy", "pending_execution"} /\ Leased
    /\ Selectable(v) /\ Fault /\ sup' = Selected(v)
    /\ UNCHANGED <<exec, output, quiet, verdict, ev, cour, told>> /\ UNCHANGED journal

-----------------------------------------------------------------------------
(* The sampler: tick evaluates, clears, registers.                         *)

At(s, pc) == ev[s].pc = pc
Goes(s, pc) == ev' = [ev EXCEPT ![s].pc = pc]

\* _evaluate reads the row and the clock ...
Sample(s) ==
    /\ At(s, "idle")
    /\ \/ \E v \in Versions :
             /\ pol[v].state = "active"
             /\ ev' = [ev EXCEPT ![s] = [Idle EXCEPT !.pc = "sampled", !.row = pol[v], !.version = v]]
       \/ /\ \A v \in Versions : pol[v].state # "active"
          /\ \E e \in Episodes : ep[e].state \in {"registering", "ending"}
          /\ Goes(s, "clear")
    /\ UNCHANGED <<cour, told, faults>> /\ UNCHANGED kernel /\ UNCHANGED journal

\* ... and then the state of the execution and the report of its metrics, which
\* may be unknown and may end before the sample.
Observe(s) ==
    /\ At(s, "sampled")
    /\ \E known, fresh \in BOOLEAN :
          /\ \/ known /\ fresh /\ UNCHANGED faults
             \/ ~fresh /\ Fault
          /\ ev' = [ev EXCEPT ![s].pc = "observed",
                       ![s].status = [same |-> Running /\ exec.fence = ev[s].row.fence, progress |-> Progress,
                                      metric |-> output, known |-> known, fresh |-> fresh, late |-> ev[s].age]]
    /\ UNCHANGED <<cour, told>> /\ UNCHANGED kernel /\ UNCHANGED journal

\* _end_episode
Ended(e, state) ==
    IF e # None /\ ep[e].state \in {"registering", "active", "ending"}
    THEN [ep EXCEPT ![e].state = "ending", ![e].ends = state] ELSE ep
Withdraws(e) == IF e # None /\ ep[e].state \in {"registering", "active", "ending"} THEN Withdrawn({e}) ELSE out

\* the row is still the one the sample was taken for
Unchanged(row, current) == current.revision = row.revision /\ current.state = "active"

\* The row after a sample that cannot be used: the streak is broken.
Broken(row, status, state) ==
    [row EXCEPT !.state = state, !.base = None, !.cont = None,
                !.progress = status.progress, !.consecutive = 0]

\* confirmed progress breaks the streak; this sample may begin the next one
Streak(row, status) ==
    IF status.progress = row.progress THEN row ELSE [row EXCEPT !.base = None, !.consecutive = 0]

\* the report reaches the end of the window
Complete(row, status) == row.base # None /\ status.fresh /\ row.base >= Interval

\* The row after a sample that can be used, without an episode of its own.
Advanced(row, status, complete, age) ==
    LET begins == row.base = None
        stagnant == status.metric = row.cont.start
        start == IF begins \/ complete THEN status.metric ELSE row.cont.start
    IN  [row EXCEPT !.progress = status.progress,
            !.base = IF begins \/ complete THEN age ELSE @,
            !.late = IF begins THEN status.late ELSE @,
            !.consecutive = IF ~complete THEN @ ELSE IF ~stagnant THEN 0 ELSE IF @ < Consecutive THEN @ + 1 ELSE @,
            !.cont = [age |-> age, start |-> start]]

\* The transaction of _evaluate.  The sample is judged against the row it was
\* taken for, whose dates have aged since.
Evaluate(s) ==
    LET c == ev[s]
        row == c.row
        status == c.status
        v == c.version
        current == [row EXCEPT !.base = pol[v].base, !.cont = pol[v].cont, !.revision = Bumped(v, s)]
        gap == row.cont # None /\ row.cont.age > Gap
        unusable == ~status.same \/ ~status.known \/ gap
        identity == ~status.same /\ ~gap
        progressed == status.progress # row.progress
        complete == Complete(Streak(row, status), status)
        next == Advanced(Streak(current, status), status, complete, c.age)
        active == ~unusable /\ complete /\ next.consecutive = 0
        due == ~unusable /\ complete /\ next.consecutive >= Consecutive /\ next.episode = None
        ending == IF progressed THEN "progress" ELSE IF active THEN "activity" ELSE "superseded"
        ends == progressed \/ identity \/ active
    IN  /\ At(s, "observed")
        /\ \/ ~Unchanged(row, pol[v]) /\ UNCHANGED <<pol, ep, out>>
           \/ /\ Unchanged(row, pol[v]) /\ ~due
              /\ pol' = [pol EXCEPT ![v] =
                           IF unusable THEN Broken(current, status, IF identity THEN "superseded" ELSE "active") ELSE next]
              /\ ep' = IF ends THEN Ended(row.episode, ending) ELSE ep
              /\ out' = IF ends THEN Withdraws(row.episode) ELSE out
           \/ /\ Unchanged(row, pol[v]) /\ due
              /\ \E e \in Episodes :
                    /\ ep[e].state = "absent"
                    /\ pol' = [pol EXCEPT ![v] = [next EXCEPT !.episode = e]]
                    /\ ep' = [ep EXCEPT ![e] = [state |-> "registering", version |-> v, fence |-> row.fence,
                                                 progress |-> status.progress, late |-> next.late, ends |-> None]]
                    /\ out' = [out EXCEPT ![e].state = "awaiting_authority"]
        /\ ev' = [ev EXCEPT ![s] = [Idle EXCEPT !.pc = "clear"]]
        /\ UNCHANGED <<orders, cour, told, faults>> /\ UNCHANGED kernel

\* _clear_pending and _register_pending each read a list and work it off.
List(s, state, from, to, after) ==
    LET rows == {e \in Episodes : ep[e].state = state}
    IN  /\ At(s, from)
        /\ ev' = [ev EXCEPT ![s] = [Idle EXCEPT !.pc = IF rows = {} THEN after ELSE to, !.todo = rows]]
        /\ UNCHANGED <<cour, told, faults>> /\ UNCHANGED kernel /\ UNCHANGED journal

ListEnding(s) == List(s, "ending", "clear", "clearing", "register")
ListRegistering(s) == List(s, "registering", "register", "registering", "idle")

\* the next of the list, or what follows it
Proceeds(c, after) == IF c.todo = {} THEN [Idle EXCEPT !.pc = after] ELSE [c EXCEPT !.at = None]
After(s) == IF At(s, "clearing") THEN "register" ELSE "idle"
Takes(s, e) == ev' = [ev EXCEPT ![s].todo = @ \ {e}, ![s].at = e]
Skips(s, e) == ev' = [ev EXCEPT ![s] = Proceeds([@ EXCEPT !.todo = @ \ {e}], After(s))]

\* clear_stall_episode ends only the episode it was asked for ...
ClearKernel(s, e) ==
    /\ At(s, "clearing") /\ ev[s].at = None /\ e \in ev[s].todo
    /\ \/ /\ sup' = IF Current(e) THEN [sup EXCEPT !.episode = None] ELSE sup
          /\ Takes(s, e) /\ UNCHANGED faults
       \/ Fault /\ Skips(s, e) /\ UNCHANGED sup
    /\ UNCHANGED <<exec, output, quiet, verdict, cour, told>> /\ UNCHANGED journal

\* ... and then the journal follows.
ClearJournal(s) ==
    LET e == ev[s].at
    IN  /\ At(s, "clearing") /\ e # None
        /\ ep' = IF ep[e].state = "ending" THEN [ep EXCEPT ![e].state = ep[e].ends] ELSE ep
        /\ pol' = [v \in Versions |-> IF ep[e].state = "ending" /\ pol[v].episode = e
                                      THEN [pol[v] EXCEPT !.episode = None, !.revision = Bumped(v, None)] ELSE pol[v]]
        /\ ev' = [ev EXCEPT ![s] = Proceeds(@, After(s))]
        /\ UNCHANGED <<out, orders, cour, told, faults>> /\ UNCHANGED kernel

\* register_stall_episode
RegisterKernel(s, e) ==
    /\ At(s, "registering") /\ ev[s].at = None /\ e \in ev[s].todo
    /\ \/ MayRegister(e) /\ sup' = Registered(e) /\ Takes(s, e) /\ UNCHANGED <<ep, out, faults>>
       \/ /\ ~MayRegister(e) /\ UNCHANGED <<sup, faults>> /\ Skips(s, e)
          /\ IF exec.fence # ep[e].fence \/ Progress # ep[e].progress \/ ~Running
             THEN ep' = Ended(e, "superseded") /\ out' = Withdraws(e)
             ELSE UNCHANGED <<ep, out>>
       \/ Fault /\ Skips(s, e) /\ UNCHANGED <<sup, ep, out>>
    /\ UNCHANGED <<exec, output, quiet, verdict, pol, orders, cour, told>>

RegisterJournal(s) ==
    LET e == ev[s].at
        first == ep[e].state = "registering"
    IN  /\ At(s, "registering") /\ e # None
        /\ ep' = IF first THEN [ep EXCEPT ![e].state = "active"] ELSE ep
        /\ out' = IF first /\ out[e].state = "awaiting_authority" THEN [out EXCEPT ![e].state = "pending"] ELSE out
        /\ ev' = [ev EXCEPT ![s] = Proceeds(@, After(s))]
        /\ UNCHANGED <<pol, orders, cour, told, faults>> /\ UNCHANGED kernel

-----------------------------------------------------------------------------
(* The courier.                                                            *)

LeaseEnds(e) ==
    /\ out[e].state = "delivering" /\ ~out[e].expired /\ out' = [out EXCEPT ![e].expired = TRUE]
    /\ UNCHANGED <<pol, ep, orders, ev, cour, told, faults>> /\ UNCHANGED kernel

\* deliver_pending: the sweep of expired leases and a claim.
Swept == [e \in Episodes |->
    IF out[e].state = "delivering" /\ out[e].expired
    THEN [out[e] EXCEPT !.state = IF out[e].attempts >= MaxDeliveries THEN "dead" ELSE "pending", !.expired = FALSE]
    ELSE out[e]]

ClaimNotice(s) ==
    /\ cour[s] = None
    /\ \/ \E e \in Episodes :
             /\ Swept[e].state = "pending"
             /\ out' = [Swept EXCEPT ![e].state = "delivering", ![e].attempts = @ + 1, ![e].lease = @ + 1]
             /\ cour' = [cour EXCEPT ![s] = [episode |-> e, lease |-> out'[e].lease, state |-> "claimed"]]
       \/ (\A e \in Episodes : Swept[e].state # "pending") /\ Swept # out /\ out' = Swept /\ UNCHANGED cour
    /\ UNCHANGED <<pol, ep, orders, ev, told, faults>> /\ UNCHANGED kernel

\* the notification bridge
Bridge(s) ==
    /\ cour[s] # None /\ cour[s].state = "claimed"
    /\ \/ told' = told \cup {cour[s].episode} /\ cour' = [cour EXCEPT ![s].state = "bridged"] /\ UNCHANGED faults
       \/ Fault /\ cour' = [cour EXCEPT ![s].state = "failed"] /\ UNCHANGED told
    /\ UNCHANGED ev /\ UNCHANGED kernel /\ UNCHANGED journal

\* the receipt counts under the lease of this delivery only
Receipt(s) ==
    LET c == cour[s]
        row == out[c.episode]
        mine == row.state = "delivering" /\ row.lease = c.lease /\ ~row.expired
        state == IF c.state = "bridged" THEN "bridged" ELSE IF row.attempts >= MaxDeliveries THEN "dead" ELSE "pending"
    IN  /\ c # None /\ c.state \in {"bridged", "failed"}
        /\ out' = IF mine THEN [out EXCEPT ![c.episode].state = state] ELSE out
        /\ cour' = [cour EXCEPT ![s] = None]
        /\ UNCHANGED <<pol, ep, orders, ev, told, faults>> /\ UNCHANGED kernel

\* retry_dead, also of a notice whose episode has ended meanwhile.
RetryDead(e) ==
    /\ out[e].state = "dead" /\ orders < MaxOrders /\ orders' = orders + 1
    /\ out' = [out EXCEPT ![e].state = "pending", ![e].attempts = 0]
    /\ UNCHANGED <<pol, ep, ev, cour, told, faults>> /\ UNCHANGED kernel

\* A service dies; another one, or its successor, goes on from the journal.
Crash(s) ==
    /\ ev[s] # Idle \/ cour[s] # None
    /\ Fault /\ ev' = [ev EXCEPT ![s] = Idle] /\ cour' = [cour EXCEPT ![s] = None]
    /\ UNCHANGED told /\ UNCHANGED kernel /\ UNCHANGED journal

\* Time passes for everything that is dated.  The reads of a sample are bounded
\* by their timeouts.
Tick ==
    /\ \A s \in Services : ev[s].pc \in {"sampled", "observed"} => ev[s].age < Lag
    /\ quiet' = IF Running THEN Older(quiet) ELSE quiet
    /\ pol' = [v \in Versions |->
                IF pol[v].state # "active" THEN pol[v]
                ELSE [pol[v] EXCEPT !.base = Older(@), !.cont = IF @ = None THEN @ ELSE [@ EXCEPT !.age = Older(@)]]]
    /\ ev' = [s \in Services |-> IF ev[s].pc \in {"sampled", "observed"} THEN [ev[s] EXCEPT !.age = Older(@)] ELSE ev[s]]
    /\ <<quiet', pol', ev'>> # <<quiet, pol, ev>>
    /\ UNCHANGED <<exec, sup, output, verdict, ep, out, orders, cour, told, faults>>

Sampler(s) ==
    \/ Sample(s) \/ Observe(s) \/ Evaluate(s) \/ ListEnding(s) \/ ListRegistering(s)
    \/ ClearJournal(s) \/ RegisterJournal(s)
    \/ \E e \in Episodes : ClearKernel(s, e) \/ RegisterKernel(s, e)
Courier(s) == ClaimNotice(s) \/ Bridge(s) \/ Receipt(s)

Next ==
    \/ Start \/ ConfirmEntry \/ Lapses \/ Leaves \/ ConfirmProgress \/ Output \/ Tick
    \/ \E v \in Versions : Watch(v) \/ Select(v) \/ SelectFails(v)
    \/ \E s \in Services : Sampler(s) \/ Courier(s) \/ Crash(s)
    \/ \E e \in Episodes : CancelIfStalled(e) \/ LeaseEnds(e) \/ RetryDead(e)

Spec == Init /\ [][Next]_vars

\* One sampler whose turns are in time; the journal and the Kernel answer in the
\* end, leases run out, what is claimed is delivered, and an execution whose lease
\* has lapsed is recovered.  Time passes between
\* two samples sooner or later, as the sampler sleeps there.
Fairness ==
    /\ SF_vars(Tick) /\ WF_vars(exec.lapsed /\ Leaves) /\ \A v \in Versions : WF_vars(Select(v))
    /\ \A s \in Services : WF_vars(Sampler(s)) /\ WF_vars(Courier(s))
    /\ \A e \in Episodes : WF_vars(LeaseEnds(e))

FairSpec == Spec /\ Fairness

-----------------------------------------------------------------------------
(* Properties.                                                             *)

Ages == 0 .. Cap
OrNone(S) == S \cup {None}

TypeOK ==
    /\ exec \in [state : {"queued", "running", "ended", "cancelled", "parked"}, fence : 0 .. MaxFence, entered : BOOLEAN, lapsed : BOOLEAN]
    /\ sup \in [fence : 0 .. MaxFence, progress : 0 .. MaxProgress, episode : OrNone(Episodes), policy : OrNone(Versions)]
    /\ output \in 0 .. MaxOutput
    /\ \A v \in Versions :
         /\ pol[v].state \in Desired \cup {"absent", "superseded", "closed"}
         /\ pol[v].fence \in 0 .. MaxFence /\ pol[v].revision \in Nat /\ pol[v].base \in OrNone(Ages)
         /\ pol[v].cont \in OrNone([age : Ages, start : 0 .. MaxOutput])
         /\ pol[v].progress \in 0 .. MaxProgress /\ pol[v].consecutive \in 0 .. Consecutive /\ pol[v].episode \in OrNone(Episodes)
    /\ ep \in [Episodes -> [state : {"absent", "registering", "active", "ending", "progress", "activity", "superseded"},
                   version : OrNone(Versions), fence : 0 .. MaxFence, progress : 0 .. MaxProgress, late : Ages,
                   ends : OrNone({"progress", "activity", "superseded"})]]
    /\ out \in [Episodes -> [state : {"absent", "awaiting_authority", "pending", "delivering", "bridged", "dead", "superseded"},
                   attempts : 0 .. MaxDeliveries, lease : Nat, expired : BOOLEAN]]
    /\ \A s \in Services : cour[s] \in OrNone([episode : Episodes, lease : Nat, state : {"claimed", "bridged", "failed"}])
    /\ told \subseteq Episodes /\ quiet \in Ages /\ faults \in 0 .. MaxFaults /\ orders \in 0 .. MaxOrders

\* "Confirmed new progress ends the current episode": an execution is cancelled as
\* stalled only when its attempt has confirmed no progress for all the windows
\* the policy asks for, whoever sampled, delivered and cancelled.  The first window
\* is dated by a clock read before the progress was: that much may be missing.
CancelledWasQuiet == verdict # None => verdict.quiet + verdict.late >= Interval * Consecutive

\* Competing samplers open one episode at a time; the next one waits until the
\* Kernel was told of the end of this one.
OneEpisodeAtATime == Cardinality({e \in Episodes : ep[e].state \in {"registering", "active", "ending"}}) <= 1

\* A policy that is active in the journal is the one whose dispositions the
\* Kernel accepts, also when the journal failed after the Kernel had answered.
PoliciesAgree ==
    \A v \in Versions :
       pol[v].state = "active" /\ Running /\ pol[v].fence = exec.fence => sup.fence = exec.fence /\ sup.policy = v

\* Once the journal has closed an episode, its disposition is stale: the Kernel
\* does not cancel with it.  An episode that was superseded with its policy is
\* closed when a policy is active for the attempt: until then, and for good if
\* the new one was registered for an earlier attempt, the Kernel still takes it.
Closed(e) ==
    \/ ep[e].state \in {"progress", "activity"}
    \/ ep[e].state = "superseded"
       /\ \E v \in Versions : pol[v].state = "active" /\ pol[v].fence = exec.fence

ClosedIsStale == \A e \in Episodes : Closed(e) => ~Current(e)

\* The episodes of a silent execution and what is decided from them.
EpisodesSafe ==
    /\ TypeOK
    /\ CancelledWasQuiet
    /\ OneEpisodeAtATime
    /\ PoliciesAgree

\* The same of the dispositions that were handed out, with several samplers.
ToldAndClosedIsStale == \A e \in told : Closed(e) => ~Current(e)

\* A handler that stays silent under a policy is told of in the end, with a
\* disposition the Kernel still accepts.
Silent == Leased /\ exec.entered /\ \E v \in Versions : pol[v].state \in {"active", "registering_policy"} /\ pol[v].fence = exec.fence
Told == \E e \in Episodes : Current(e) /\ out[e].state \in {"bridged", "dead"}

SilenceIsTold == <>[]Silent => <>[]Told

\* An episode does not stay without the Kernel's authority.
EpisodesRegister == \A e \in Episodes : ep[e].state = "registering" ~> ep[e].state # "registering"
=============================================================================
