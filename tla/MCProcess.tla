--------------------------------- MODULE MCProcess ---------------------------------
(* A process handler, for TLC, where the host may adopt orphans or may not.  *)
EXTENDS Integers, Sequences, FiniteSets, TLC

CONSTANTS k1

VARIABLES
    scenario,   \* which of the instances below this behaviour is one of
    clock, startOver, worker, kids, toSup, invoked, doneAt, sup, ending, entered, held,
    sure, sureAt, handed, phase, toPar, par, started, overdue, lateWork, lateStart,
    term, kept, clean, observed, unclocked, revoked, killer, passed, crashed, saved,
    treeSaved, receipt, noted, answer

processVars == <<clock, startOver, worker, kids, toSup, invoked, doneAt, sup, ending,
    entered, held, sure, sureAt, handed, phase, toPar, par, started, overdue, lateWork,
    lateStart, term, kept, clean, observed, unclocked, revoked, killer, passed, crashed,
    saved, treeSaved, receipt, noted, answer>>

\* A tree of processes, with a subreaper.
Tree == INSTANCE ProcessHandler WITH
    Kids <- {k1}, Subreaper <- TRUE, Revocable <- TRUE, Killable <- TRUE,
    Clockless <- TRUE

\* ... and without.
NoAdoption == INSTANCE ProcessHandler WITH
    Kids <- {k1}, Subreaper <- FALSE, Revocable <- TRUE, Killable <- FALSE,
    Clockless <- FALSE

Init ==
    /\ scenario \in {"tree", "no_adoption"}
    /\ \/ scenario = "tree" /\ Tree!Init
       \/ scenario = "no_adoption" /\ NoAdoption!Init

Next ==
    /\ UNCHANGED scenario
    /\ \/ scenario = "tree" /\ Tree!Next
       \/ scenario = "no_adoption" /\ NoAdoption!Next

vars == <<scenario, processVars>>

Spec == Init /\ [][Next]_vars

FairTree ==
    /\ scenario = "tree"
    /\ Tree!Fairness

------------------------------------------------------------------------------
\* What the answer and the receipt of a process handler say of its processes.
ProcessSafe ==
    /\ scenario = "tree" => Tree!ProcessSafe
    /\ scenario = "no_adoption" => NoAdoption!ProcessSafe

\* The call returns, whatever the handler does and whoever dies.
CallReturns == FairTree => Tree!CallReturns

==============================================================================
