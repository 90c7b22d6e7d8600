----------------------------- MODULE GraphQueue -----------------------------
(***************************************************************************)
(* One graph in the queue of the graph workers, over all the runs that are *)
(* made of it: the claim selector with its reclaim of silent runs, the     *)
(* gates at which a run halts and the people and workers who decide them,  *)
(* pause, resume and withdrawal, and the drain loop of a worker process    *)
(* (scripts/graph-worker.mts).                                             *)
(*                                                                         *)
(* A run is what GraphRunner says of it, seen from outside: it is claimed, *)
(* halts at the first gate that was not approved when it was claimed, and  *)
(* closes in one of five states, or is aborted or reclaimed.  The gated    *)
(* stages of a lifecycle are a chain, numbered in its order; a graph that  *)
(* is no lifecycle has none.                                               *)
(*                                                                         *)
(* Timestamps are compared by the code only between a gate's decided_at    *)
(* and the completed_at of answers, so decided[g] is the set of the runs   *)
(* that had answered when the deciding transaction began (its now()).      *)
(***************************************************************************)
EXTENDS Integers, FiniteSetsExt

CONSTANTS
    Workers,        \* drain processes alive at one time
    Gates,          \* the gated stages: 1..n
    Kind,           \* [Gates -> GateKind]: how a gate is decided
    Design,         \* the gates whose approval starts a Phase 1C run
    MaxRuns,        \* the selector's limit of runs of a graph (10)
    MaxFailed       \* and of FAILED ones (3)

\* A RELEASE gate is a HUMAN gate of full_lifecycle version 2.
GateKind == {"HUMAN", "RELEASE", "AUTOMATIC"}

ASSUME GraphQueueAssumption ==
    /\ MaxRuns \in Nat \ {0} /\ MaxFailed \in Nat \ {0}
    /\ Gates \subseteq Nat \ {0} /\ IsFiniteSet(Gates)
    /\ Kind \in [Gates -> GateKind]
    /\ Design \subseteq Gates

VARIABLES
    paused,         \* graphs.pause_requested_at is set
    withdrawn,      \* graphs.withdrawn_at is set
    shipped,        \* the bridge is at PULL_REQUEST_RECORDED or later
    gate,           \* graph_gates.state
    opener,         \* graph_gates.opened_by_run_id; 0 for none
    decided,        \* see above
    deciding,       \* gates with a person's decision in flight
    asOf,           \* the runs that had answered when it began
    made,           \* how many runs were made of the graph
    run,            \* graph_runs.state
    held,           \* the gate whose node the run left VERIFYING; 0 for none
    pc,             \* where a worker process is in its drain loop
    mine,           \* the run it claimed last
    seen            \* gate_state in that claim's projection

person   == <<deciding, asOf>>
gates    == <<gate, opener, decided>>
runs     == <<made, run, held>>
process  == <<pc, mine, seen>>
controls == <<paused, withdrawn, shipped>>
vars     == <<controls, gates, person, runs, process>>

-----------------------------------------------------------------------------
Runs == 1..MaxRuns

GateState == {"NONE", "OPEN", "APPROVED", "REJECTED"}

RunState == {"UNMADE", "RUNNING", "COMPLETED", "PARTIAL", "FAILED", "CANCELLED", "BUDGET_STOPPED"}

TypeOK ==
    /\ paused \in BOOLEAN /\ withdrawn \in BOOLEAN /\ shipped \in BOOLEAN
    /\ gate \in [Gates -> GateState]
    /\ opener \in [Gates -> {0} \cup Runs]
    /\ decided \in [Gates -> SUBSET Runs] /\ asOf \in [Gates -> SUBSET Runs]
    /\ deciding \subseteq Gates
    /\ made \in {0} \cup Runs
    /\ run \in [Runs -> RunState] /\ held \in [Runs -> {0} \cup Gates]
    /\ pc \in [Workers -> {"idle", "claimed", "working", "halted", "deciding"}]
    /\ mine \in [Workers -> {0} \cup Runs]
    /\ seen \in [Workers -> [Gates -> GateState]]

Init ==
    /\ paused = FALSE /\ withdrawn = FALSE /\ shipped = FALSE
    /\ gate = [g \in Gates |-> "NONE"] /\ opener = [g \in Gates |-> 0]
    /\ decided = [g \in Gates |-> {}]
    /\ deciding = {} /\ asOf = [g \in Gates |-> {}]
    /\ made = 0
    /\ run = [r \in Runs |-> "UNMADE"] /\ held = [r \in Runs |-> 0]
    /\ pc = [w \in Workers |-> "idle"] /\ mine = [w \in Workers |-> 0]
    /\ seen = [w \in Workers |-> [g \in Gates |-> "NONE"]]

In(states) == {r \in Runs : run[r] \in states}

\* Runs that answered: a FAILED or CANCELLED one answered nothing.
Answers == In({"COMPLETED", "PARTIAL", "BUDGET_STOPPED"})

-----------------------------------------------------------------------------
(* The claim: claim_planned_graph_target_internal. *)

\* Mutant: the watermark counts runs, and not answers (before ADR-144).
FreshSinceAnyRun(g) ==
    /\ gate[g] = "APPROVED"
    /\ Runs \ (In({"UNMADE", "RUNNING"}) \cup decided[g]) = {}

\* decided_at is later than every answer's completed_at.
Fresh(g) == gate[g] = "APPROVED" /\ Answers \subseteq decided[g]

\* Mutant: any approved gate reopens the graph.
AskedWithoutWatermark(stale) ==
    \/ Answers \cup (In({"RUNNING"}) \ stale) = {}
    \/ In({"RUNNING"}) \subseteq stale /\ \E g \in Gates : gate[g] = "APPROVED"

\* Mutant: a run under way does not keep the graph from being handed out.
AskedBesideRun(stale) == Answers = {} \/ \E g \in Gates : Fresh(g)

\* Mutant: a graph that has answered is never asked again.
AskedOnce(stale) == Answers \cup (In({"RUNNING"}) \ stale) = {}

\* Never answered, or a halted lifecycle of which a gate was approved since.
Asked(stale) ==
    \/ Answers \cup (In({"RUNNING"}) \ stale) = {}
    \/ In({"RUNNING"}) \subseteq stale /\ \E g \in Gates : Fresh(g)

WithinLimits(stale) ==
    /\ Cardinality(In({"FAILED"}) \cup stale) < MaxFailed
    /\ made < MaxRuns

\* Until the approved design has its pull request, the graph waits for it.
Built == shipped \/ \A g \in Design : gate[g] # "APPROVED"

Eligible(stale) ==
    ~withdrawn /\ ~paused /\ Asked(stale) /\ Built /\ WithinLimits(stale)

Reclaimed(stale) == [r \in Runs |-> IF r \in stale THEN "FAILED" ELSE run[r]]

\* Runs found silent for two hours are failed, and their nodes cancelled; then
\* the graph is handed out, if it may be, as a new run.
Claim(w) ==
    /\ pc[w] = "idle"
    /\ \E stale \in SUBSET In({"RUNNING"}) :
        /\ held' = [r \in Runs |-> IF r \in stale THEN 0 ELSE held[r]]
        /\ IF Eligible(stale)
           THEN /\ made' = made + 1
                /\ run' = [Reclaimed(stale) EXCEPT ![made + 1] = "RUNNING"]
                /\ pc' = [pc EXCEPT ![w] = "claimed"]
                /\ mine' = [mine EXCEPT ![w] = made + 1]
                /\ seen' = [seen EXCEPT ![w] = gate]
           ELSE run' = Reclaimed(stale) /\ UNCHANGED <<made, process>>
    /\ UNCHANGED <<controls, gates, person>>

-----------------------------------------------------------------------------
(* The worker: the drain loop around runClaimedGraph. *)

Goto(w, there) == pc' = [pc EXCEPT ![w] = there]

\* abort_graph_run_as_worker: the claim was unusable, and nothing was started.
Abort(w) ==
    /\ pc[w] = "claimed" /\ run[mine[w]] = "RUNNING"
    /\ run' = [run EXCEPT ![mine[w]] = "FAILED"]
    /\ Goto(w, "idle")
    /\ UNCHANGED <<controls, gates, person, made, held, mine, seen>>

Enter(w) ==
    /\ pc[w] = "claimed" /\ Goto(w, "working")
    /\ UNCHANGED <<controls, gates, person, runs, mine, seen>>

\* Mutant: a run passes a gate that nobody has opened yet.
OpenGates(w) == {g \in Gates : seen[w][g] = "OPEN"}

\* The gates at which the run would halt: those its claim did not show approved.
Unapproved(w) == {g \in Gates : seen[w][g] # "APPROVED"}

\* A gate that nobody opened, or whose opener ended without an answer.
Rebinds(g) ==
    \/ gate[g] = "NONE"
    \/ gate[g] = "OPEN" /\ run[opener[g]] \in {"FAILED", "CANCELLED", "BUDGET_STOPPED"}

\* The node at the first unapproved gate is done: its row says VERIFYING and
\* open_node_gate_as_worker opens the gate, rebinds it, or finds it as it is.
Halt(w) ==
    /\ pc[w] = "working" /\ run[mine[w]] = "RUNNING"
    /\ Unapproved(w) # {}
    /\ LET g == Min(Unapproved(w)) IN
        /\ seen[w][g] # "REJECTED"
        /\ held' = [held EXCEPT ![mine[w]] = g]
        /\ IF Rebinds(g)
           THEN gate' = [gate EXCEPT ![g] = "OPEN"] /\ opener' = [opener EXCEPT ![g] = mine[w]]
           ELSE UNCHANGED <<gate, opener>>
    /\ Goto(w, "halted")
    /\ UNCHANGED <<controls, decided, person, made, run, mine, seen>>

CloseAs(w, state) ==
    /\ run[mine[w]] = "RUNNING"
    /\ run' = [run EXCEPT ![mine[w]] = state]
    /\ UNCHANGED <<controls, gates, person, made, held, mine, seen>>

\* The closing function accepts a halted run as PARTIAL only, and only while
\* its gate is open and its own.
CloseHalted(w) ==
    /\ pc[w] = "halted"
    /\ CloseAs(w, "PARTIAL")
    /\ LET g == held[mine[w]] IN gate[g] = "OPEN" /\ opener[g] = mine[w]
    /\ Goto(w, "deciding")

\* No gate in its way: the run completes.
CloseCompleted(w) ==
    /\ pc[w] = "working" /\ Unapproved(w) = {}
    /\ CloseAs(w, "COMPLETED") /\ Goto(w, "idle")

\* A node failed (a rejected one too), the budget ended, a person paused the
\* graph, or the provider withheld its capacity.
CloseShort(w) ==
    /\ pc[w] = "working"
    /\ \E state \in {"PARTIAL", "FAILED", "CANCELLED", "BUDGET_STOPPED"} : CloseAs(w, state)
    /\ Goto(w, "idle")

\* Mutant: the worker decides before it closes.
DecideAutomaticEarly(w) ==
    /\ pc[w] \in {"halted", "deciding"}
    /\ LET g == held[mine[w]] IN
        /\ g # 0 /\ Kind[g] = "AUTOMATIC" /\ gate[g] = "OPEN"
        /\ gate' = [gate EXCEPT ![g] = "APPROVED"]
        /\ decided' = [decided EXCEPT ![g] = Answers]
    /\ IF pc[w] = "halted" THEN UNCHANGED pc ELSE Goto(w, "idle")
    /\ UNCHANGED <<controls, opener, person, runs, mine, seen>>

\* decide_automatic_gate_as_worker, offered once, after the close.
DecideAutomatic(w) ==
    /\ pc[w] = "deciding"
    /\ LET g == held[mine[w]] IN
        /\ Kind[g] = "AUTOMATIC" /\ gate[g] = "OPEN"
        /\ run[opener[g]] \in {"PARTIAL", "COMPLETED"}
        /\ gate' = [gate EXCEPT ![g] = "APPROVED"]
        /\ decided' = [decided EXCEPT ![g] = Answers]
    /\ Goto(w, "idle")
    /\ UNCHANGED <<controls, opener, person, runs, mine, seen>>

\* The process dies, or throws at a call that failed or was refused; a refused
\* decision only takes it back to its loop.  A later dispatch replaces it.
GiveUp(w) ==
    /\ pc[w] # "idle" /\ Goto(w, "idle")
    /\ UNCHANGED <<controls, gates, person, runs, mine, seen>>

-----------------------------------------------------------------------------
(* People: decide_node_gate, the evidence-bound approvals, the controls. *)

\* The deciding transaction begins: its now() is taken.
BeginDecision(g) ==
    /\ g \notin deciding /\ gate[g] = "OPEN"
    /\ deciding' = deciding \cup {g}
    /\ asOf' = [asOf EXCEPT ![g] = Answers]
    /\ UNCHANGED <<controls, gates, runs, process>>

Settled(g, verdict) ==
    /\ gate' = [gate EXCEPT ![g] = verdict]
    /\ decided' = [decided EXCEPT ![g] = asOf[g]]
    /\ deciding' = deciding \ {g}
    /\ UNCHANGED <<controls, opener, asOf, runs, process>>

\* A release gate is approved on the artifact of the closed run that opened it.
Approve(g) ==
    /\ g \in deciding /\ gate[g] = "OPEN"
    /\ Kind[g] # "AUTOMATIC"
    /\ Kind[g] = "RELEASE" => run[opener[g]] \in {"PARTIAL", "COMPLETED"} /\ held[opener[g]] = g
    /\ Settled(g, "APPROVED")

Reject(g) == g \in deciding /\ gate[g] = "OPEN" /\ Settled(g, "REJECTED")

\* The transaction is refused, or rolled back.
Refuse(g) ==
    /\ g \in deciding /\ deciding' = deciding \ {g}
    /\ UNCHANGED <<controls, gates, asOf, runs, process>>

SetPause ==
    /\ ~withdrawn /\ paused' = ~paused
    /\ UNCHANGED <<withdrawn, shipped, gates, person, runs, process>>

Withdraw ==
    /\ ~withdrawn /\ In({"RUNNING"}) = {}
    /\ withdrawn' = TRUE
    /\ UNCHANGED <<paused, shipped, gates, person, runs, process>>

\* The Phase 1C run of the approved design has its pull request on record.
RecordPullRequest ==
    /\ ~shipped /\ \E g \in Design : gate[g] = "APPROVED"
    /\ shipped' = TRUE
    /\ UNCHANGED <<paused, withdrawn, gates, person, runs, process>>

-----------------------------------------------------------------------------
Work(w) ==
    \/ Abort(w) \/ Enter(w) \/ Halt(w) \/ CloseHalted(w) \/ CloseCompleted(w)
    \/ CloseShort(w) \/ DecideAutomatic(w) \/ GiveUp(w)

Decision(g) == Approve(g) \/ Reject(g) \/ Refuse(g)

Next ==
    \/ \E w \in Workers : Claim(w) \/ Work(w)
    \/ \E g \in Gates : BeginDecision(g) \/ Decision(g)
    \/ SetPause \/ Withdraw \/ RecordPullRequest

Spec == Init /\ [][Next]_vars

\* Dispatches keep coming (graph-worker.yml: every two hours, and after each
\* plan), a process goes on or ends, and a transaction commits or is refused.
\* Nobody has to decide a gate, and a Phase 1C run may never be done.
Fairness ==
    /\ \A w \in Workers : WF_vars(Claim(w)) /\ WF_vars(Work(w))
    /\ \A g \in Gates : WF_vars(Decision(g))

FairSpec == Spec /\ Fairness

-----------------------------------------------------------------------------
(* Properties. *)

\* Never are two runs of a graph under way, however late a silent one is
\* reclaimed, and none is under way once the graph is withdrawn.
OneRunAtATime ==
    /\ \A r, q \in In({"RUNNING"}) : r = q
    /\ withdrawn => In({"RUNNING"}) = {}

\* Between any two answers a gate was approved, on the first and before the
\* second, and a run halts further on than every answer before it: no graph
\* halts twice at one gate or answers again unasked, whatever was voided,
\* reclaimed, rebound or paused in between.
AnswersAdvance ==
    \A r, q \in Answers : r < q =>
        /\ \E g \in Gates : gate[g] = "APPROVED" /\ r \in decided[g] /\ q \notin decided[g]
        /\ held[r] # 0 => gate[held[r]] = "APPROVED"
        /\ held[q] = 0 \/ held[q] > held[r]

\* A gate approved on evidence still has it: the run that opened it halted
\* there and answered, and no later run took the gate over.
ApprovedOnStandingEvidence ==
    \A g \in Gates : gate[g] = "APPROVED" /\ Kind[g] # "HUMAN" =>
        run[opener[g]] = "PARTIAL" /\ held[opener[g]] = g

\* A run completes only past gates that were all approved, and nothing takes
\* an approval back.
CompletedPastEveryGate ==
    In({"COMPLETED"}) # {} => \A g \in Gates : gate[g] = "APPROVED"

Last == Max(Answers)

HaltedAt(g) == Answers # {} /\ held[Last] = g

\* What holds a graph off the queue: it has its answer (it completed, ended
\* short of a gate, or was rejected at one), or it has spent its chances.
Concluded ==
    \/ Answers # {} /\ held[Last] = 0
    \/ \E g \in Gates : HaltedAt(g) /\ gate[g] = "REJECTED"
    \/ ~WithinLimits({})

\* What holds it for as long as somebody takes.
Waits ==
    \/ withdrawn \/ paused
    \/ \E g \in Gates : HaltedAt(g) /\ gate[g] = "OPEN" /\ Kind[g] # "AUTOMATIC"
    \/ ~Built

\* The two ways in which a graph is lost: nobody is left to decide an automatic
\* gate, or its approval began before the answer it approves was on record.
Orphaned ==
    \E g \in Gates : HaltedAt(g) /\ gate[g] = "OPEN" /\ Kind[g] = "AUTOMATIC"
Overtaken ==
    \E g \in Gates : HaltedAt(g) /\ gate[g] = "APPROVED" /\ Last \notin decided[g]

\* A graph is out of the queue for a reason: at any time it is under way, can
\* be claimed, waits for somebody, is concluded, or is lost in a known way.
NeverLostOtherwise ==
    \/ In({"RUNNING"}) # {} \/ Eligible({})
    \/ Concluded \/ Waits \/ Orphaned \/ Overtaken

\* An approval is acted upon, through crashes, voids and reclaims: a later run
\* answers, or the graph is held, waits for its pull request, or is spent.
ApprovalsAreAnswered ==
    \A g \in Gates : Fresh(g) ~> (~Fresh(g) \/ Concluded \/ withdrawn \/ paused \/ ~Built)

-----------------------------------------------------------------------------
(* Claims of the repository that the code does not keep. *)

\* 20260824000100: "Anchored automatic gates decide themselves".
AutomaticGatesDecideThemselves ==
    \A g \in Gates : Orphaned /\ HaltedAt(g) ~> gate[g] # "OPEN"
=============================================================================
