----------------------------- MODULE GraphRunner -----------------------------
(***************************************************************************)
(* One claimed run of a graph: the scheduling rounds of the engine         *)
(* (lib/graph/scheduler.ts, runner.ts, budgets.ts), the worker that makes  *)
(* every transition durable (lib/worker/graph-run.ts), and the database    *)
(* functions that refuse what does not fit (record_node_state_as_worker,   *)
(* record_graph_artifact_as_worker, open_node_gate_as_worker, the closer,  *)
(* and the reclaim of a silent run).                                       *)
(*                                                                         *)
(* The engine keeps its own node states (st); the database keeps the       *)
(* node_runs rows (rows).  The nodes of a wave run concurrently: task[n]   *)
(* is where the promise of node n stands.  Any database call may fail, or  *)
(* succeed and lose its answer; either throws out of the engine, while the *)
(* other promises of the wave go on until they are done.                   *)
(*                                                                         *)
(* Not modelled: write locks (a claimed graph is compiled without resolved *)
(* write conflicts, so no two of its nodes write one resource), portfolio  *)
(* capacity (the worker injects none), backoff delays, and the iteration   *)
(* ceiling, which the node budget reaches first.                           *)
(***************************************************************************)
EXTENDS Integers, FiniteSetsExt, SequencesExt

CONSTANTS
    Order,          \* the nodes, in the order the scheduler visits them
    Deps,           \* [Nodes -> SUBSET Nodes]: incoming data edges
    Tolerant,       \* nodes with tolerates_partial_inputs
    Reviewers,      \* MODEL nodes that review: completed by one atomic call
    Gated,          \* nodes with a gate_kind
    Lifecycle,      \* graphs.is_lifecycle
    Attempts,       \* graph_nodes.max_attempts
    MaxNodes, MaxConcurrent, MaxRetries, MaxDiscovery,  \* graph_budgets
    Meters          \* bound: which of "duration" and "tokens" ever rise

Nodes == Range(Order)

ASSUME GraphRunnerAssumption ==
    /\ Order \in Seq(Nodes) /\ IsInjective(Order)
    /\ Deps \in [Nodes -> SUBSET Nodes]
    /\ \A i, j \in 1..Len(Order) : Order[i] \in Deps[Order[j]] => i < j
    /\ Tolerant \subseteq Nodes /\ Reviewers \subseteq Nodes /\ Gated \subseteq Nodes
    /\ Reviewers \cap Gated = {}
    /\ Lifecycle \in BOOLEAN
    /\ Attempts \in Nat \ {0} /\ MaxNodes \in Nat \ {0} /\ MaxConcurrent \in Nat \ {0}
    /\ MaxRetries \in Nat /\ MaxDiscovery \in Nat
    /\ Meters \subseteq {"duration", "tokens"}

VARIABLES
    run,        \* graph_runs.state
    rows,       \* node_runs.state
    gate,       \* graph_gates.state; STALE is OPEN, opened by a run that failed
    paused,     \* whether a person has paused the graph
    claimed,    \* gate_state in the claim's projection, read once
    pc,         \* where the engine is
    outcome,    \* RunResult.outcome
    st,         \* GraphState.states
    attempts,   \* attemptsByNode
    started,    \* nodesStarted
    retries,    \* retriesUsed
    width,      \* concurrency
    meter,      \* elapsed time and tokens: 0 is fine, 1 is near, 2 is spent
    task,       \* the promise of each node of the wave
    delivered,  \* the nodes with an entry in completedOutputs
    capacity    \* nodes whose final failure was a capacity refusal

database == <<run, rows, gate, paused>>
budget   == <<started, retries, width, meter>>
worker   == <<delivered, capacity>>
engine   == <<pc, outcome, st, attempts, budget>>
vars     == <<database, claimed, engine, task, worker>>

-----------------------------------------------------------------------------
NodeState == {"PENDING", "RUNNING", "COMPLETED", "FAILED", "BLOCKED"}

RowState == {"PENDING", "RUNNING", "VERIFYING", "COMPLETED", "FAILED", "SKIPPED", "CANCELLED"}

RunState == {"RUNNING", "COMPLETED", "PARTIAL", "FAILED", "CANCELLED", "BUDGET_STOPPED"}

GateState == {"NONE", "STALE", "OPEN", "APPROVED", "REJECTED"}

Outcome == {"NONE", "PAUSED", "BUDGET_STOPPED", "COMPLETED", "FAILED", "PARTIAL"}

\* What executeNode has reported to the engine for a node.
Returned == {"ok", "again", "failed", "held"}

\* Where a promise waits for an answer of the database.
Calling == {"start", "good", "saved", "hold", "opening", "fail"}

Task == {"idle", "run"} \cup Calling \cup Returned

TypeOK ==
    /\ run \in RunState
    /\ rows \in [Nodes -> RowState]
    /\ gate \in [Gated -> GateState] /\ claimed \in [Gated -> GateState]
    /\ paused \in BOOLEAN
    /\ pc \in {"round", "wave", "close", "done", "stopped"}
    /\ outcome \in Outcome
    /\ st \in [Nodes -> NodeState]
    /\ attempts \in [Nodes -> 0..Attempts]
    /\ started \in Nat /\ retries \in Nat
    /\ width \in 1..MaxConcurrent
    /\ meter \in [{"duration", "tokens"} -> 0..2]
    /\ task \in [Nodes -> Task]
    /\ delivered \subseteq Nodes /\ capacity \subseteq Nodes

\* A gate the graph met in an earlier run is decided, or still open because
\* that run failed at it; a gate of a run that halted at it is decided first.
Init ==
    /\ run = "RUNNING" /\ rows = [n \in Nodes |-> "PENDING"]
    /\ gate \in [Gated -> GateState \ {"OPEN"}] /\ claimed = gate
    /\ paused = FALSE
    /\ pc = "round" /\ outcome = "NONE"
    /\ st = [n \in Nodes |-> "PENDING"] /\ attempts = [n \in Nodes |-> 0]
    /\ started = 0 /\ retries = 0 /\ width = MaxConcurrent
    /\ meter = [m \in {"duration", "tokens"} |-> 0]
    /\ task = [n \in Nodes |-> "idle"]
    /\ delivered = {} /\ capacity = {}

-----------------------------------------------------------------------------
(* The scheduler: tick. *)

InState(s) == {n \in Nodes : st[n] = s}

Settled == InState("COMPLETED") \cup InState("FAILED") \cup InState("BLOCKED")

FansIn(n) == n \in Tolerant /\ Deps[n] # {}

\* Mutant: blocking stops after one hop.
DoomedOneHop(n) ==
    IF FansIn(n)
    THEN Deps[n] \subseteq Settled /\ Deps[n] \cap InState("COMPLETED") = {}
    ELSE Deps[n] \cap InState("FAILED") # {}

Doomed(n) ==
    IF FansIn(n)
    THEN Deps[n] \subseteq Settled /\ Deps[n] \cap InState("COMPLETED") = {}
    ELSE Deps[n] \cap (InState("FAILED") \cup InState("BLOCKED")) # {}

\* Mutant: every node is as patient, and as tolerant, as a fan-in.
ReadyOnceSettled(n) ==
    Deps[n] \subseteq Settled /\ (Deps[n] = {} \/ Deps[n] \cap InState("COMPLETED") # {})

Ready(n) ==
    IF FansIn(n)
    THEN Deps[n] \subseteq Settled /\ Deps[n] \cap InState("COMPLETED") # {}
    ELSE Deps[n] \subseteq InState("COMPLETED")

Blocked == {n \in InState("PENDING") : Doomed(n)}

Before(m, n) == \E i, j \in 1..Len(Order) : i < j /\ Order[i] = m /\ Order[j] = n

\* The first of the ready nodes, as many as the width has slots for.
Start(slots) ==
    LET ready == {n \in InState("PENDING") : Ready(n)}
    IN  {n \in ready : Cardinality({m \in ready : Before(m, n)}) < slots}

-----------------------------------------------------------------------------
(* The budget: assessBudget.  A limit of zero counts as exhausted. *)

\* Mutant: started nodes are only counted, never held against the budget.
ExhaustedWithoutNodes(m) ==
    \/ retries >= MaxRetries
    \/ MaxDiscovery = 0
    \/ \E x \in DOMAIN m : m[x] = 2

Exhausted(m) ==
    \/ started >= MaxNodes
    \/ retries >= MaxRetries
    \/ MaxDiscovery = 0
    \/ \E x \in DOMAIN m : m[x] = 2

Narrowed(m) ==
    LET tight == \/ 5 * started >= 4 * MaxNodes
                 \/ 5 * retries >= 4 * MaxRetries
                 \/ m["duration"] = 1
    IN  IF tight /\ m["tokens"] # 1
        THEN Min({width, Max({1, MaxConcurrent \div 2})})
        ELSE width

Readings ==
    {m \in [{"duration", "tokens"} -> 0..2] :
        \A x \in DOMAIN m : m[x] >= meter[x] /\ (x \notin Meters => m[x] = 0)}

-----------------------------------------------------------------------------
(* The rounds of runGraph. *)

Whole == InState("COMPLETED") = Nodes

Judged ==
    IF Whole THEN "COMPLETED" ELSE IF InState("COMPLETED") = {} THEN "FAILED" ELSE "PARTIAL"

End(result) == pc' = "close" /\ outcome' = result

\* A poll that fails is answered "not paused", so Round and StopForBudget do
\* not require that the graph is not paused.
HonourPause ==
    /\ pc = "round" /\ paused
    /\ End("PAUSED")
    /\ UNCHANGED <<database, claimed, st, attempts, budget, task, worker>>

StopForBudget ==
    /\ pc = "round"
    /\ \E m \in Readings : Exhausted(m) /\ meter' = m
    /\ End("BUDGET_STOPPED")
    /\ UNCHANGED <<database, claimed, st, attempts, started, retries, width, task, worker>>

StartWave(wave) ==
    /\ st' = [n \in Nodes |-> IF n \in wave THEN "RUNNING"
                              ELSE IF n \in Blocked THEN "BLOCKED" ELSE st[n]]
    /\ attempts' = [n \in Nodes |-> IF n \in wave THEN attempts[n] + 1 ELSE attempts[n]]
    /\ started' = started + Cardinality(wave)
    /\ task' = [n \in Nodes |-> IF n \in wave THEN "start" ELSE "idle"]

\* An iteration that neither the pause nor the budget ends.
Round ==
    /\ pc = "round"
    /\ \E m \in Readings :
        /\ ~Exhausted(m)
        /\ meter' = m /\ width' = Narrowed(m)
    /\ LET running == InState("RUNNING")
           wave    == Start(width' - Cardinality(running))
       IN  IF Settled = Nodes \/ wave \cup Blocked \cup running = {}
           THEN End(Judged) /\ UNCHANGED <<st, attempts, started, task>>
           ELSE /\ StartWave(wave)
                /\ pc' = IF wave = {} THEN "round" ELSE "wave"
                /\ UNCHANGED outcome
    /\ UNCHANGED <<database, claimed, retries, worker>>

\* Mutant: a held node is left to its gate, and to the engine still runs.
DecidedUnlessHeld(n) ==
    CASE task[n] = "ok"     -> "COMPLETED"
      [] task[n] = "again"  -> "PENDING"
      [] task[n] = "failed" -> "FAILED"
      [] task[n] = "held"   -> "RUNNING"

Decided(n) ==
    IF task[n] = "ok" THEN "COMPLETED" ELSE IF task[n] = "again" THEN "PENDING" ELSE "FAILED"

\* Promise.all has every answer; the results loop decides each node.
Settle ==
    /\ pc = "wave"
    /\ \A n \in InState("RUNNING") : task[n] \in Returned
    /\ st' = [n \in Nodes |-> IF st[n] = "RUNNING" THEN Decided(n) ELSE st[n]]
    /\ retries' = retries + Cardinality({n \in Nodes : task[n] = "again"})
    /\ task' = [n \in Nodes |-> "idle"]
    /\ pc' = "round"
    /\ UNCHANGED <<database, claimed, outcome, attempts, started, width, meter, worker>>

-----------------------------------------------------------------------------
(* The promise of one node: the executeNode closure of runClaimedGraph. *)

\* record_node_state_as_worker: a row only moves forward, under a running run.
Writable(n, to) ==
    /\ run = "RUNNING"
    /\ \/ rows[n] = "PENDING" /\ to \in {"RUNNING", "SKIPPED"}
       \/ rows[n] = "RUNNING" /\ to # "PENDING"

Throw(n) == task' = [task EXCEPT ![n] = "idle"] /\ pc' = "stopped"

\* The call took effect; the worker reads its answer, or never does.
Answered(n, next) ==
    \/ task' = [task EXCEPT ![n] = next] /\ UNCHANGED pc
    \/ Throw(n)

WriteRow(n, to, next) ==
    /\ Writable(n, to)
    /\ rows' = [rows EXCEPT ![n] = to]
    /\ Answered(n, next)
    /\ UNCHANGED <<run, gate, paused, claimed, outcome, st, attempts, budget, worker>>

\* A refused call, and one that never reached the database.
CallFails(n) ==
    /\ task[n] \in Calling
    /\ Throw(n)
    /\ UNCHANGED <<database, claimed, outcome, st, attempts, budget, worker>>

Dispatch(n) == task[n] = "start" /\ WriteRow(n, "RUNNING", "run")

\* The provider's answer, validated.  A reviewer needs a completed subject.
Succeed(n) ==
    /\ task[n] = "run"
    /\ n \in Reviewers => Deps[n] \cap delivered # {}
    /\ task' = [task EXCEPT ![n] = "good"]
    /\ delivered' = delivered \cup {n}
    /\ UNCHANGED <<database, claimed, engine, capacity>>

\* Mutant: the comparison with maxAttempts is off by one.
FailPastAttempts(n) ==
    /\ task[n] = "run"
    /\ \/ /\ attempts[n] <= Attempts
          /\ task' = [task EXCEPT ![n] = "again"]
          /\ UNCHANGED capacity
       \/ /\ task' = [task EXCEPT ![n] = "fail"]
          /\ capacity' \in {capacity, capacity \cup {n}}
    /\ UNCHANGED <<database, claimed, engine, delivered>>

\* Only the last failure is written; before it the row stays RUNNING.
Fail(n) ==
    /\ task[n] = "run"
    /\ \/ /\ attempts[n] < Attempts
          /\ task' = [task EXCEPT ![n] = "again"]
          /\ UNCHANGED capacity
       \/ /\ task' = [task EXCEPT ![n] = "fail"]
          /\ capacity' \in {capacity, capacity \cup {n}}
    /\ UNCHANGED <<database, claimed, engine, delivered>>

\* Mutant: the gate is looked up when the node is done, not at the claim.
AwaitsGateAsOfNow(n) == n \in Gated /\ gate[n] # "APPROVED"

AwaitsGate(n) == n \in Gated /\ claimed[n] # "APPROVED"

AfterSave(n) ==
    IF ~AwaitsGate(n) THEN "saved" ELSE IF claimed[n] = "REJECTED" THEN "fail" ELSE "hold"

\* record_graph_artifact_as_worker; the content guard may refuse the payload,
\* which fails the node.
Save(n) ==
    /\ task[n] = "good" /\ n \notin Reviewers
    /\ run = "RUNNING" /\ rows[n] = "RUNNING"
    /\ \/ Answered(n, AfterSave(n))
       \/ task' = [task EXCEPT ![n] = "fail"] /\ UNCHANGED pc
    /\ UNCHANGED <<database, claimed, outcome, st, attempts, budget, worker>>

CompleteReviewer(n) ==
    /\ task[n] = "good" /\ n \in Reviewers /\ rows[n] = "RUNNING"
    /\ WriteRow(n, "COMPLETED", "ok")

Complete(n) == task[n] = "saved" /\ WriteRow(n, "COMPLETED", "ok")

Hold(n) == task[n] = "hold" /\ WriteRow(n, "VERIFYING", "opening")

\* Mutant: a failed promise returns without writing its row.
ReturnFailure(n) ==
    /\ task[n] = "fail"
    /\ task' = [task EXCEPT ![n] = "failed"]
    /\ UNCHANGED <<database, claimed, engine, worker>>

RecordFailure(n) == task[n] = "fail" /\ WriteRow(n, "FAILED", "failed")

\* open_node_gate_as_worker: a decided gate is answered as it is.
OpenGate(n) ==
    /\ task[n] = "opening"
    /\ run = "RUNNING" /\ rows[n] = "VERIFYING"
    /\ gate' = [gate EXCEPT ![n] = IF @ \in {"NONE", "STALE"} THEN "OPEN" ELSE @]
    /\ Answered(n, "held")
    /\ UNCHANGED <<run, rows, paused, claimed, outcome, st, attempts, budget, worker>>

-----------------------------------------------------------------------------
(* The end of runClaimedGraph. *)

\* The nodes the engine left undispatched, less those already accounted for.
ToSkip == {n \in Nodes : st[n] \in {"PENDING", "BLOCKED"} /\ rows[n] # "SKIPPED"}

Skip ==
    /\ pc = "close"
    /\ \E n \in ToSkip :
        /\ \A m \in ToSkip : ~Before(m, n)
        /\ Writable(n, "SKIPPED") /\ rows' = [rows EXCEPT ![n] = "SKIPPED"]
    /\ pc' \in {"close", "stopped"}
    /\ UNCHANGED <<run, gate, paused, claimed, outcome, st, attempts, budget, task, worker>>

AwaitingGate == {n \in InState("FAILED") : rows[n] = "VERIFYING"}

CapacityVoided ==
    LET failures == InState("FAILED") \ AwaitingGate
    IN  /\ Lifecycle \/ InState("COMPLETED") = {}
        /\ failures # {} /\ failures \subseteq capacity

FinalState == IF outcome = "PAUSED" \/ CapacityVoided THEN "CANCELLED" ELSE outcome

RowsIn(states) == {n \in Nodes : rows[n] \in states}

\* Mutant: a node at a gate does not stop any close.
AcceptsVerifying(state, partial) ==
    /\ run = "RUNNING"
    /\ partial = (RowsIn({"COMPLETED"}) # Nodes)
    /\ RowsIn({"PENDING", "RUNNING"}) = {}
    /\ state = "COMPLETED" => ~partial

\* Mutant: a run that is already closed is closed again.
AcceptsClosedRun(state, partial) ==
    /\ partial = (RowsIn({"COMPLETED"}) # Nodes)
    /\ RowsIn({"PENDING", "RUNNING"}) = {}
    /\ \/ state = "COMPLETED" /\ ~partial
       \/ state = "PARTIAL"
            /\ \A n \in RowsIn({"VERIFYING"}) : n \in Gated /\ gate[n] = "OPEN"
       \/ state \notin {"COMPLETED", "PARTIAL"} /\ RowsIn({"VERIFYING"}) = {}

\* What the closer accepts for a child set.
Accepts(state, partial) ==
    /\ run = "RUNNING"
    /\ partial = (RowsIn({"COMPLETED"}) # Nodes)
    /\ RowsIn({"PENDING", "RUNNING"}) = {}
    /\ \/ state = "COMPLETED" /\ ~partial
       \/ state = "PARTIAL"
            /\ \A n \in RowsIn({"VERIFYING"}) : n \in Gated /\ gate[n] = "OPEN"
       \/ state \notin {"COMPLETED", "PARTIAL"} /\ RowsIn({"VERIFYING"}) = {}

Closes ==
    /\ pc = "close" /\ ToSkip = {}
    /\ Accepts(FinalState, ~Whole)
    /\ run' = FinalState
    /\ pc' \in {"done", "stopped"}
    /\ UNCHANGED <<rows, gate, paused, claimed, outcome, st, attempts, budget, task, worker>>

\* The worker process ends, or a call outside a wave fails or is refused.
Die ==
    /\ pc \in {"round", "wave", "close"} \/ \E n \in Nodes : task[n] # "idle"
    /\ pc' = "stopped"
    /\ task' = [n \in Nodes |-> "idle"]
    /\ UNCHANGED <<database, claimed, outcome, st, attempts, budget, worker>>

-----------------------------------------------------------------------------
(* Everyone else. *)

\* Mutant: the rows that wait at a gate are forgotten.
ReclaimUnlessVerifying ==
    /\ run = "RUNNING" /\ RowsIn({"VERIFYING"}) = {}
    /\ run' = "FAILED"
    /\ rows' = [n \in Nodes |-> IF rows[n] \in {"PENDING", "RUNNING"}
                                THEN "CANCELLED" ELSE rows[n]]
    /\ UNCHANGED <<gate, paused, claimed, engine, task, worker>>

\* Any claim pass, once the run and its nodes have been silent for two hours.
Reclaim ==
    /\ run = "RUNNING"
    /\ run' = "FAILED"
    /\ rows' = [n \in Nodes |-> IF rows[n] \in {"PENDING", "RUNNING", "VERIFYING"}
                                THEN "CANCELLED" ELSE rows[n]]
    /\ UNCHANGED <<gate, paused, claimed, engine, task, worker>>

\* An owner may decide an open gate at any moment.  An automatic gate decides
\* itself only after the close, and a release gate only with its evidence: both
\* are decided here as early as an owner would.
DecideGate(n) ==
    /\ gate[n] \in {"OPEN", "STALE"}
    /\ \E decision \in {"APPROVED", "REJECTED"} : gate' = [gate EXCEPT ![n] = decision]
    /\ UNCHANGED <<run, rows, paused, claimed, engine, task, worker>>

\* run = "RUNNING" is a bound: the pause of a closed run has no reader here.
TogglePause ==
    /\ run = "RUNNING"
    /\ paused' = ~paused
    /\ UNCHANGED <<run, rows, gate, claimed, engine, task, worker>>

Engine == HonourPause \/ StopForBudget \/ Round \/ Settle \/ Skip \/ Closes

Promise(n) ==
    \/ Dispatch(n) \/ Succeed(n) \/ Fail(n) \/ Save(n) \/ CompleteReviewer(n)
    \/ Complete(n) \/ Hold(n) \/ RecordFailure(n) \/ OpenGate(n) \/ CallFails(n)

Next ==
    \/ Engine
    \/ \E n \in Nodes : Promise(n)
    \/ Die
    \/ Reclaim
    \/ \E n \in Gated : DecideGate(n)
    \/ TogglePause

Spec == Init /\ [][Next]_vars

\* Nothing is being done for the run: its worker is gone, or stopped with
\* every promise of its last wave over.
Silent == pc \in {"stopped", "done"} /\ \A n \in Nodes : task[n] \in {"idle"} \cup Returned

\* A live process runs its event loop, every provider call and database call
\* returns (each has a timeout), a call the database refuses throws, and the
\* scheduled claim passes reclaim a run that has gone silent.
Fairness ==
    /\ WF_vars(Engine)
    /\ WF_vars(pc = "close" /\ Die)
    /\ \A n \in Nodes : WF_vars(Promise(n))
    /\ WF_vars(Silent /\ Reclaim)

FairSpec == Spec /\ Fairness

-----------------------------------------------------------------------------
(* Properties. *)

\* Every attempt of a node, whoever's answers were lost before it, runs on
\* work that is on record: a node's dependencies are COMPLETED rows before it
\* starts, and a tolerant node starts when none can still report and one has.
DependentsRunOnRecordedWork ==
    \A n \in Nodes : attempts[n] > 0 =>
        IF FansIn(n)
        THEN /\ Deps[n] \cap RowsIn({"COMPLETED"}) # {}
             /\ Deps[n] \subseteq Settled
        ELSE Deps[n] \subseteq RowsIn({"COMPLETED"})

\* The row on record is the one that the engine's node state stands for.
OnRecord(n) ==
    \/ st[n] = "COMPLETED" /\ rows[n] = "COMPLETED"
    \/ st[n] = "FAILED"    /\ rows[n] \in {"FAILED", "VERIFYING"}
    \/ st[n] = "BLOCKED"   /\ rows[n] = "PENDING"
    \/ st[n] = "PENDING"   /\ rows[n] = IF attempts[n] = 0 THEN "PENDING" ELSE "RUNNING"

\* What the engine believes at a round is what the database has on record, for
\* as long as the run is the engine's to write: no answer lost, refused or
\* late leaves the two apart while the engine goes on.
EngineAgreesWithRows ==
    run = "RUNNING" => \A n \in Nodes :
        \/ pc \in {"wave", "stopped"}
        \/ pc = "close" /\ rows[n] = "SKIPPED" /\ st[n] \in {"PENDING", "BLOCKED"}
        \/ OnRecord(n)

\* A failure is contained: an engine that was neither paused nor stopped by
\* its budget has run every node some way to which is open, and blocked
\* exactly those all ways to which are closed.
FailuresAreContained ==
    pc \in {"close", "done"} /\ outcome \notin {"PAUSED", "BUDGET_STOPPED"} =>
        /\ Settled = Nodes
        /\ \A n \in Nodes : st[n] = "BLOCKED" <=> Doomed(n)

\* A closed run accounts for every node: nothing of it is left to run, a
\* COMPLETED one is complete, and only a PARTIAL one leaves a node waiting,
\* at a gate that this run opened.
ClosedRunsAccount ==
    run # "RUNNING" =>
        /\ RowsIn({"PENDING", "RUNNING"}) = {}
        /\ run = "COMPLETED" => RowsIn({"COMPLETED"}) = Nodes
        /\ \A n \in RowsIn({"VERIFYING"}) :
              run = "PARTIAL" /\ n \in Gated /\ gate[n] \in {"OPEN", "APPROVED", "REJECTED"}

\* A gated node completes only in a run that was claimed after its approval: a
\* decision made while the run is under way never lets its dependents start.
GatesHoldTheRun ==
    \A n \in Gated : claimed[n] # "APPROVED" =>
        /\ rows[n] # "COMPLETED"
        /\ \A m \in Nodes : n \in Deps[m] /\ ~FansIn(m) => attempts[m] = 0

\* A graph that starts too many attempts has started one wave too many.
OverspendIsOneWave == started < MaxNodes + MaxConcurrent

\* A run that is closed, by its worker or by a reclaim, stays as it is: the
\* promises of a worker that was given up, or threw, record nothing more.
ClosedRunsAreFrozen == [][run # "RUNNING" => UNCHANGED <<run, rows>>]_vars

\* The run, as the database shows it, moves only as GraphPromise says.
Owner == INSTANCE GraphPromise

KeepsOwnersPromise == Owner!Spec

\* The engine comes to an end, in every mixture of failures, retries, held
\* gates and refused calls.
EngineEnds == <>(pc \in {"done", "stopped"})

\* Whatever becomes of its worker, the run ends.
RunEnds == <>(run # "RUNNING")

-----------------------------------------------------------------------------
(* Claims of the repository that the code does not keep. *)

\* lib/worker/graph-run.ts: "Drive one claimed graph to a persisted
\* conclusion."  The close of a run that nobody else has closed is accepted.
CloseIsAccepted ==
    pc = "close" /\ ToSkip = {} /\ run = "RUNNING" => Accepts(FinalState, ~Whole)

\* lib/worker/graph-run.ts accepts a budget of no discovery rounds; a graph
\* that plans none is not stopped before its first node.
BudgetLetsAGraphStart == outcome = "BUDGET_STOPPED" => started > 0
=============================================================================
