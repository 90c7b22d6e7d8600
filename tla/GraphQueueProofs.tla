--------------------------- MODULE GraphQueueProofs ---------------------------
(***************************************************************************)
(* What GraphQueue's runs check of a few runs, gates and workers, for any  *)
(* number of them.                                                         *)
(*                                                                         *)
(* The argument is that a graph's runs come one after the other and its    *)
(* gates open one after the other.  A run is made only when none is under  *)
(* way, so the running one is the last made and answers come in the order  *)
(* of the runs; a gate is opened only past approved ones, so at most one   *)
(* is open and what a decision in flight can have seen is known.           *)
(***************************************************************************)
EXTENDS GraphQueue, FiniteSetTheorems, TLAPS

\* The runs are made in order, and only the last may be under way.
InOrder ==
    \A r \in Runs :
        /\ run[r] = "UNMADE" <=> r > made
        /\ run[r] = "RUNNING" => r = made
        /\ run[r] \notin {"RUNNING", "PARTIAL"} => held[r] = 0
        /\ held[r] # 0 => gate[held[r]] # "NONE"

\* A gate is opened only past approved ones, by a run that then halts there.
GatesInOrder ==
    \A g \in Gates : gate[g] # "NONE" =>
        /\ \A h \in Gates : h < g => gate[h] = "APPROVED"
        /\ opener[g] \in 1..made
        /\ run[opener[g]] # "COMPLETED"
        /\ run[opener[g]] \in {"RUNNING", "PARTIAL"} => held[opener[g]] = g

\* What a process knows of its run and of the gates.
Knows(w) ==
    pc[w] # "idle" =>
        /\ mine[w] \in 1..made
        /\ pc[w] \in {"claimed", "working"} /\ run[mine[w]] = "RUNNING" => held[mine[w]] = 0
        /\ pc[w] = "halted" /\ run[mine[w]] = "RUNNING" => held[mine[w]] # 0
        /\ pc[w] = "deciding" => run[mine[w]] = "PARTIAL" /\ held[mine[w]] # 0
        /\ \A g \in Gates :
              /\ seen[w][g] = "APPROVED" => gate[g] = "APPROVED"
              /\ seen[w][g] # "NONE" => \A h \in Gates : h < g => seen[w][h] = "APPROVED"
        /\ run[mine[w]] = "RUNNING" =>
              \A r \in Answers : held[r] # 0 => seen[w][held[r]] = "APPROVED"

WorkersKnow ==
    /\ \A w \in Workers : Knows(w)
    /\ \A w, v \in Workers : pc[w] # "idle" /\ pc[v] # "idle" /\ mine[w] = mine[v] => w = v

\* A time of a decision is told by the answers before it, without a gap.
ATime(s) == s \subseteq Answers /\ \A r \in s, q \in Answers : q < r => q \in s

\* An approval is of the furthest gate of the answers before it.
DecisionsInOrder ==
    \A g \in Gates :
        /\ ATime(decided[g]) /\ ATime(asOf[g])
        /\ gate[g] = "APPROVED" =>
              \A r \in decided[g] : held[r] # 0 => gate[held[r]] = "APPROVED"

\* AnswersAdvance, of the run under way as well as of the answers.
RunsAdvance ==
    \A r \in Answers, q \in Answers \cup In({"RUNNING"}) : r < q =>
        /\ \E g \in Gates : gate[g] = "APPROVED" /\ r \in decided[g] /\ q \notin decided[g]
        /\ held[r] # 0 => gate[held[r]] = "APPROVED"
        /\ held[q] = 0 \/ held[q] > held[r]

IInv ==
    /\ TypeOK
    /\ InOrder
    /\ GatesInOrder
    /\ WorkersKnow
    /\ DecisionsInOrder
    /\ RunsAdvance
    /\ OneRunAtATime
    /\ ApprovedOnStandingEvidence
    /\ CompletedPastEveryGate

-----------------------------------------------------------------------------
(* Least gates and last runs.                                              *)

\* A nonempty set of numbers has a least one, which Min names.
LEMMA LeastNumber ==
    ASSUME NEW S \in SUBSET Nat, S # {}
    PROVE  Min(S) \in S /\ \A m \in S : Min(S) <= m
<1> DEFINE R == StrictSubsetOrdering(Nat)
           T == {0..n : n \in S}
<1>1. IsWellFoundedOn(R, FiniteSubsetsOf(Nat))
  BY FS_StrictSubsetOrderingWellFounded
<1>2. T \subseteq FiniteSubsetsOf(Nat) /\ T # {}
  <2>1. \A n \in S : IsFiniteSet(0..n) /\ 0..n \subseteq Nat
    BY FS_Interval
  <2> QED BY <2>1 DEF FiniteSubsetsOf
<1> HIDE DEF R
<1>3. \E x \in T : \A y \in T : ~(<<y, x>> \in R)
  <2> HIDE DEF T
  <2> QED BY <1>1, <1>2, WFMin
<1>4. PICK n \in S : \A m \in S : ~(<<0..m, 0..n>> \in R)
  BY <1>3
<1>5. ASSUME NEW m \in S, m < n PROVE FALSE
  <2>1. 0..m \subseteq 0..n /\ n \notin 0..m /\ n \in 0..n
    BY <1>5
  <2>2. <<0..m, 0..n>> \in (SUBSET Nat) \X (SUBSET Nat)
    OBVIOUS
  <2>3. <<0..m, 0..n>> \in R
    BY <2>1, <2>2 DEF R, StrictSubsetOrdering
  <2> QED BY <1>4, <2>3
<1>6. \A m \in S : n <= m
  BY <1>5
<1> QED BY <1>6 DEF Min

\* A nonempty set of runs has a last one, which Max names.
LEMMA LastRun ==
    ASSUME NEW S \in SUBSET Runs, S # {}
    PROVE  Max(S) \in S /\ \A m \in S : m <= Max(S)
<1> DEFINE D == {MaxRuns - r : r \in S}
<1>1. MaxRuns \in Nat /\ \A r \in S : r \in 1..MaxRuns
  BY GraphQueueAssumption DEF Runs
<1>2. D \in SUBSET Nat /\ D # {}
  BY <1>1
<1>3. Min(D) \in D /\ \A d \in D : Min(D) <= d
  <2> HIDE DEF D
  <2> QED BY <1>2, LeastNumber
<1>4. PICK n \in S : Min(D) = MaxRuns - n
  BY <1>3
<1>5. ASSUME NEW m \in S PROVE m <= n
  <2>1. MaxRuns - m \in D
    OBVIOUS
  <2>2. MaxRuns - n <= MaxRuns - m
    BY <1>3, <1>4, <2>1
  <2> QED BY <1>1, <2>2
<1>6. \A x \in S : (\A m \in S : x >= m) => x = n
  BY <1>1, <1>5
<1>7. Max(S) \in S /\ \A m \in S : Max(S) >= m
  BY <1>1, <1>5 DEF Max
<1> QED BY <1>5, <1>6, <1>7

LEMMA GatesAreNumbers == \A g \in Gates : g \in Nat /\ g > 0
BY GraphQueueAssumption

\* Where a run halts: at a gate, with every gate before it approved.
LEMMA HaltingGate ==
    ASSUME NEW w \in Workers, Unapproved(w) # {}
    PROVE  /\ Min(Unapproved(w)) \in Gates
           /\ seen[w][Min(Unapproved(w))] # "APPROVED"
           /\ \A h \in Gates : h < Min(Unapproved(w)) => seen[w][h] = "APPROVED"
<1>1. Unapproved(w) \in SUBSET Nat
  BY GraphQueueAssumption DEF Unapproved
<1>2. /\ Min(Unapproved(w)) \in Unapproved(w)
      /\ \A m \in Unapproved(w) : Min(Unapproved(w)) <= m
  BY <1>1, LeastNumber
<1>3. \A m \in Gates : m \in Nat
  BY GraphQueueAssumption
<1> QED BY <1>2, <1>3 DEF Unapproved

-----------------------------------------------------------------------------
(* Types.                                                                  *)

LEMMA TypeInit == Init => TypeOK
<1> SUFFICES ASSUME Init PROVE TypeOK
  OBVIOUS
<1> USE DEF Init, GateState, RunState
<1>1. paused \in BOOLEAN /\ withdrawn \in BOOLEAN /\ shipped \in BOOLEAN
  OBVIOUS
<1>2. gate \in [Gates -> GateState] /\ opener \in [Gates -> {0} \cup Runs]
  OBVIOUS
<1>3. decided \in [Gates -> SUBSET Runs] /\ asOf \in [Gates -> SUBSET Runs]
  OBVIOUS
<1>4. deciding \subseteq Gates /\ made \in {0} \cup Runs
  OBVIOUS
<1>5. run \in [Runs -> RunState] /\ held \in [Runs -> {0} \cup Gates]
  OBVIOUS
<1>6. /\ pc \in [Workers -> {"idle", "claimed", "working", "halted", "deciding"}]
      /\ mine \in [Workers -> {0} \cup Runs]
  OBVIOUS
<1>7. seen \in [Workers -> [Gates -> GateState]]
  OBVIOUS
<1> QED BY <1>1, <1>2, <1>3, <1>4, <1>5, <1>6, <1>7 DEF TypeOK

LEMMA TypeNext == TypeOK /\ [Next]_vars => TypeOK'
<1> SUFFICES ASSUME TypeOK, [Next]_vars PROVE TypeOK'
  OBVIOUS
<1> USE DEF TypeOK, GateState, RunState
<1>a. MaxRuns \in Nat \ {0} /\ Runs = 1..MaxRuns
  BY GraphQueueAssumption DEF Runs
<1>1. ASSUME NEW w \in Workers, Claim(w) PROVE TypeOK'
  <2>1. PICK stale \in SUBSET In({"RUNNING"}) :
           /\ held' = [r \in Runs |-> IF r \in stale THEN 0 ELSE held[r]]
           /\ IF Eligible(stale)
              THEN /\ made' = made + 1
                   /\ run' = [Reclaimed(stale) EXCEPT ![made + 1] = "RUNNING"]
                   /\ pc' = [pc EXCEPT ![w] = "claimed"]
                   /\ mine' = [mine EXCEPT ![w] = made + 1]
                   /\ seen' = [seen EXCEPT ![w] = gate]
              ELSE run' = Reclaimed(stale) /\ UNCHANGED <<made, process>>
    BY <1>1 DEF Claim
  <2>2. Reclaimed(stale) \in [Runs -> RunState]
    BY DEF Reclaimed
  <2>3. CASE Eligible(stale)
    <3>1. made + 1 \in Runs
      BY <2>3, <1>a DEF Eligible, WithinLimits
    <3>2. run' \in [Runs -> RunState] /\ held' \in [Runs -> {0} \cup Gates]
      BY <2>1, <2>2, <2>3, <3>1
    <3>3. /\ made' \in {0} \cup Runs /\ mine' \in [Workers -> {0} \cup Runs]
          /\ seen' \in [Workers -> [Gates -> GateState]]
      <4>1. /\ made' = made + 1 /\ mine' = [mine EXCEPT ![w] = made + 1]
            /\ seen' = [seen EXCEPT ![w] = gate]
        BY <2>1, <2>3
      <4>2. made' \in {0} \cup Runs /\ mine' \in [Workers -> {0} \cup Runs]
        BY <3>1, <4>1
      <4>3. seen' \in [Workers -> [Gates -> GateState]]
        BY <4>1
      <4> QED BY <4>2, <4>3
    <3>4. pc' \in [Workers -> {"idle", "claimed", "working", "halted", "deciding"}]
      BY <2>1, <2>3
    <3>5. UNCHANGED <<paused, withdrawn, shipped, gate, opener, decided, deciding, asOf>>
      BY <1>1 DEF Claim, controls, gates, person
    <3> QED BY <3>2, <3>3, <3>4, <3>5
  <2>4. CASE ~Eligible(stale)
    BY <1>1, <2>1, <2>2, <2>4 DEF Claim, controls, gates, person, process
  <2> QED BY <2>3, <2>4
<1>2. ASSUME NEW w \in Workers, Abort(w) \/ Enter(w) \/ GiveUp(w) PROVE TypeOK'
  BY <1>2 DEF Abort, Enter, GiveUp, Goto, controls, gates, person, runs
<1>3. ASSUME NEW w \in Workers, Halt(w) PROVE TypeOK'
  <2> DEFINE g == Min(Unapproved(w))
  <2>1. g \in Gates
    BY <1>3, HaltingGate DEF Halt
  <2> HIDE DEF g
  <2>2. /\ held' = [held EXCEPT ![mine[w]] = g]
        /\ \/ gate' = [gate EXCEPT ![g] = "OPEN"] /\ opener' = [opener EXCEPT ![g] = mine[w]]
           \/ UNCHANGED <<gate, opener>>
    BY <1>3 DEF Halt, g
  <2>3. gate' \in [Gates -> GateState] /\ opener' \in [Gates -> {0} \cup Runs]
    <3>1. gate \in [Gates -> GateState] /\ opener \in [Gates -> {0} \cup Runs]
      OBVIOUS
    <3>2. mine[w] \in {0} \cup Runs
      OBVIOUS
    <3>3. gate' \in [Gates -> GateState]
      BY <2>2, <3>1
    <3>4. opener' \in [Gates -> {0} \cup Runs]
      BY <2>2, <3>1, <3>2
    <3> QED BY <3>3, <3>4
  <2>4. held' \in [Runs -> {0} \cup Gates]
    BY <2>1, <2>2
  <2>5. pc' \in [Workers -> {"idle", "claimed", "working", "halted", "deciding"}]
    BY <1>3 DEF Halt, Goto
  <2> QED BY <1>3, <2>3, <2>4, <2>5 DEF Halt, controls, person
<1>4. ASSUME NEW w \in Workers, CloseHalted(w) \/ CloseCompleted(w) \/ CloseShort(w)
      PROVE  TypeOK'
  <2>1. \E state \in RunState : CloseAs(w, state)
    <3>1. CASE CloseHalted(w)
      BY <3>1 DEF CloseHalted
    <3>2. CASE CloseCompleted(w)
      BY <3>2 DEF CloseCompleted
    <3>3. CASE CloseShort(w)
      BY <3>3 DEF CloseShort
    <3> QED BY <1>4, <3>1, <3>2, <3>3
  <2>2. run' \in [Runs -> RunState]
    <3>1. PICK state \in RunState : run' = [run EXCEPT ![mine[w]] = state]
      BY <2>1, Zenon DEF CloseAs
    <3> QED BY <3>1
  <2>3. pc' \in [Workers -> {"idle", "claimed", "working", "halted", "deciding"}]
    BY <1>4 DEF CloseHalted, CloseCompleted, CloseShort, Goto
  <2> QED BY <2>1, <2>2, <2>3 DEF CloseAs, controls, gates, person
<1>5. ASSUME NEW w \in Workers, DecideAutomatic(w) PROVE TypeOK'
  BY <1>5 DEF DecideAutomatic, Answers, In, Goto, controls, person, runs
<1>6. ASSUME NEW g \in Gates, BeginDecision(g) PROVE TypeOK'
  BY <1>6 DEF BeginDecision, Answers, In, controls, gates, runs, process
<1>7. ASSUME NEW g \in Gates, Decision(g) PROVE TypeOK'
  <2>1. CASE Refuse(g)
    BY <2>1 DEF Refuse, controls, gates, runs, process
  <2>2. ASSUME NEW verdict \in GateState, Settled(g, verdict) PROVE TypeOK'
    <3>1. gate' \in [Gates -> GateState] /\ decided' \in [Gates -> SUBSET Runs]
      BY <2>2 DEF Settled
    <3>2. deciding' \subseteq Gates
      BY <2>2 DEF Settled
    <3> QED BY <2>2, <3>1, <3>2 DEF Settled, controls, runs, process
  <2> QED BY <1>7, <2>1, <2>2 DEF Decision, Approve, Reject
<1>8. ASSUME SetPause \/ Withdraw \/ RecordPullRequest PROVE TypeOK'
  BY <1>8 DEF SetPause, Withdraw, RecordPullRequest, gates, person, runs, process
<1>9. CASE UNCHANGED vars
  BY <1>9 DEF vars, controls, gates, person, runs, process
<1> QED BY <1>1, <1>2, <1>3, <1>4, <1>5, <1>6, <1>7, <1>8, <1>9 DEF Next, Work

\* The rows stay what their columns admit, and no graph is made more often
\* than the selector's limit.
THEOREM QueueTypeCorrect == Spec => []TypeOK
<1> QED BY TypeInit, TypeNext, PTL DEF Spec

-----------------------------------------------------------------------------
(* What steps that move no run and decide no gate leave standing.          *)

\* The gates, the runs and what was decided stay as they are.
Still == UNCHANGED <<gate, opener, decided, made, run, held>>

\* Processes only end, or enter the run they claimed.
OnlyGoOn ==
    /\ UNCHANGED <<mine, seen>>
    /\ \A w \in Workers :
          \/ pc'[w] = pc[w] \/ pc'[w] = "idle"
          \/ pc[w] = "claimed" /\ pc'[w] = "working"

LEMMA SameAnswers ==
    ASSUME run' = run
    PROVE  Answers' = Answers /\ In({"RUNNING"})' = In({"RUNNING"})
BY DEF Answers, In

LEMMA StillRunsAndGates ==
    ASSUME IInv, Still
    PROVE  InOrder' /\ GatesInOrder' /\ RunsAdvance' /\ ApprovedOnStandingEvidence' /\ CompletedPastEveryGate'
<1>1. Answers' = Answers /\ In({"RUNNING"})' = In({"RUNNING"}) /\ In({"COMPLETED"})' = In({"COMPLETED"})
  BY SameAnswers DEF Still, In
<1>2. InOrder'
  BY DEF IInv, InOrder, Still
<1>3. GatesInOrder'
  BY DEF IInv, GatesInOrder, Still
<1>4. RunsAdvance'
  BY <1>1 DEF IInv, RunsAdvance, Still
<1>5. ApprovedOnStandingEvidence'
  BY DEF IInv, ApprovedOnStandingEvidence, Still
<1>6. CompletedPastEveryGate'
  BY <1>1 DEF IInv, CompletedPastEveryGate, Still
<1> QED BY <1>2, <1>3, <1>4, <1>5, <1>6

LEMMA StillWorkersKnow ==
    ASSUME IInv, Still, OnlyGoOn
    PROVE  WorkersKnow'
<1>1. Answers' = Answers
  BY SameAnswers DEF Still
<1>2. ASSUME NEW w \in Workers PROVE Knows(w)'
  <2>1. pc[w] = "idle" => pc'[w] = "idle"
    BY DEF OnlyGoOn
  <2>2. Knows(w)
    BY DEF IInv, WorkersKnow
  <2>3. pc'[w] \in {"claimed", "working"} => pc[w] \in {"claimed", "working"}
    BY DEF OnlyGoOn
  <2>4. pc'[w] \in {"halted", "deciding"} => pc[w] = pc'[w]
    BY DEF OnlyGoOn
  <2> QED BY <1>1, <2>1, <2>2, <2>3, <2>4 DEF Knows, Still, OnlyGoOn
<1>3. ASSUME NEW w \in Workers, NEW v \in Workers,
             pc'[w] # "idle", pc'[v] # "idle", mine'[w] = mine'[v]
      PROVE  w = v
  BY <1>3 DEF IInv, WorkersKnow, OnlyGoOn
<1> QED BY <1>2, <1>3 DEF WorkersKnow

LEMMA StillDecisions ==
    ASSUME IInv, Still, NEW g \in Gates,
           asOf' = asOf \/ asOf' = [asOf EXCEPT ![g] = Answers]
    PROVE  DecisionsInOrder'
<1>1. Answers' = Answers
  BY SameAnswers DEF Still
<1>2. ATime(Answers)
  BY DEF ATime
<1>3. ASSUME NEW h \in Gates PROVE ATime(decided[h]) /\ ATime(asOf'[h])
  BY <1>2 DEF IInv, DecisionsInOrder, TypeOK
<1>4. ASSUME NEW h \in Gates PROVE ATime(decided[h])' /\ ATime(asOf[h])'
  BY <1>1, <1>3 DEF ATime, Still
<1> QED BY <1>4 DEF IInv, DecisionsInOrder, Still

\* A step of people's or of a process that moves nothing but asOf.
LEMMA StillKeeps ==
    ASSUME IInv, TypeOK', Still, OnlyGoOn, DecisionsInOrder',
           withdrawn' # withdrawn => In({"RUNNING"}) = {}
    PROVE  IInv'
<1>1. OneRunAtATime'
  <2>1. In({"RUNNING"})' = In({"RUNNING"})
    BY SameAnswers DEF Still
  <2>2. withdrawn' => In({"RUNNING"}) = {}
    BY DEF IInv, OneRunAtATime, TypeOK
  <2> QED BY <2>1, <2>2 DEF IInv, OneRunAtATime
<1> QED BY <1>1, StillRunsAndGates, StillWorkersKnow DEF IInv

-----------------------------------------------------------------------------
(* A run closes, or is aborted.                                            *)

LEMMA Closing ==
    ASSUME IInv, TypeOK', NEW w \in Workers,
           NEW state \in {"COMPLETED", "PARTIAL", "FAILED", "CANCELLED", "BUDGET_STOPPED"},
           CloseAs(w, state),
           \/ pc[w] \in {"claimed", "working"} /\ Goto(w, "idle")
           \/ pc[w] = "halted" /\ state = "PARTIAL" /\ Goto(w, "deciding"),
           state = "COMPLETED" => Unapproved(w) = {}
    PROVE  IInv'
<1> DEFINE q == mine[w]
<1>1. q \in Runs /\ q = made /\ run[q] = "RUNNING" /\ run' = [run EXCEPT ![q] = state]
  BY DEF CloseAs, IInv, WorkersKnow, Knows, TypeOK, Runs, InOrder
<1>2. /\ UNCHANGED <<gate, opener, decided, asOf, made, held, mine, seen, withdrawn>>
      /\ Knows(w) /\ pc[w] # "idle"
  BY DEF CloseAs, gates, person, controls, IInv, WorkersKnow
<1>3. \A r \in Runs : r # q => run'[r] = run[r]
  BY <1>1 DEF IInv, TypeOK
<1>4. run'[q] = state
  BY <1>1 DEF IInv, TypeOK
<1>5. /\ held[q] = 0 \/ (pc[w] = "halted" /\ state = "PARTIAL" /\ held[q] # 0)
      /\ pc[w] = "halted" => held[q] # 0
  BY <1>1, <1>2 DEF Knows
<1>6. In({"RUNNING"})' = {} /\ q \notin Answers
  BY <1>1, <1>3, <1>4 DEF In, Answers, IInv, InOrder
<1>7. \A r \in Runs : r # q => (r \in Answers' <=> r \in Answers)
  BY <1>3 DEF Answers, In
<1>8. Answers \subseteq Answers' /\ \A r \in Answers' : r \in Runs /\ r <= q
  <2>1. Answers \subseteq Answers'
    BY <1>6, <1>7 DEF Answers, In
  <2>2. \A r \in Answers' : r \in Runs /\ run'[r] # "UNMADE"
    BY DEF Answers, In
  <2>3. \A r \in Runs : r > made => run[r] = "UNMADE"
    BY DEF IInv, InOrder
  <2> QED BY <1>1, <1>3, <2>1, <2>2, <2>3 DEF Runs
<1> HIDE DEF q
<1>9. InOrder'
  <2>1. ASSUME NEW r \in Runs
        PROVE  /\ run'[r] = "UNMADE" <=> r > made
               /\ run'[r] # "RUNNING"
               /\ run'[r] # "PARTIAL" => held[r] = 0
               /\ held[r] # 0 => gate[held[r]] # "NONE"
    <3>1. CASE r = q
      BY <1>1, <1>4, <1>5, <3>1 DEF IInv, InOrder
    <3>2. CASE r # q
      BY <1>1, <1>3, <3>2 DEF IInv, InOrder
    <3> QED BY <3>1, <3>2
  <2> QED BY <1>2, <2>1 DEF InOrder
<1>10. GatesInOrder'
  <2>1. ASSUME NEW g \in Gates, gate[g] # "NONE"
        PROVE  /\ run'[opener[g]] # "COMPLETED"
               /\ run'[opener[g]] \in {"RUNNING", "PARTIAL"} => held[opener[g]] = g
    <3>1. /\ opener[g] \in Runs /\ run[opener[g]] # "COMPLETED"
          /\ run[opener[g]] \in {"RUNNING", "PARTIAL"} => held[opener[g]] = g
      BY <2>1 DEF IInv, GatesInOrder, TypeOK, Runs
    <3>2. CASE opener[g] = q
      <4>1. held[q] = g /\ g # 0
        BY <1>1, <3>1, <3>2, GraphQueueAssumption
      <4> QED BY <1>4, <1>5, <3>2, <4>1
    <3>3. CASE opener[g] # q
      BY <1>3, <3>1, <3>3
    <3> QED BY <3>2, <3>3
  <2> QED BY <1>2, <2>1 DEF GatesInOrder, IInv
<1>11. WorkersKnow'
  <2>1. \A v \in Workers : v # w => pc'[v] = pc[v] /\ (pc[v] # "idle" => mine[v] # q)
    BY <1>2 DEF IInv, WorkersKnow, Goto, TypeOK, q
  <2>2. ASSUME NEW v \in Workers PROVE Knows(v)'
    <3>1. Knows(v) /\ (pc[v] # "idle" => mine[v] \in Runs)
      BY DEF IInv, WorkersKnow, Knows, TypeOK, Runs
    <3>2. pc'[v] # "idle" => run'[mine[v]] # "RUNNING" /\ pc[v] # "idle"
      BY <1>2, <1>3, <1>4, <1>6, <2>1, <3>1 DEF In, q
    <3>3. pc'[v] = "deciding" => run'[mine[v]] = "PARTIAL" /\ held[mine[v]] # 0
      <4>1. CASE v = w
        <5>1. pc'[w] = "deciding" => pc[w] = "halted" /\ state = "PARTIAL"
          BY DEF Goto, IInv, TypeOK
        <5> QED BY <1>4, <1>5, <4>1, <5>1 DEF q
      <4>2. CASE v # w
        BY <1>3, <2>1, <3>1, <4>2 DEF Knows
      <4> QED BY <4>1, <4>2
    <3> QED BY <1>2, <3>1, <3>2, <3>3 DEF Knows
  <2>3. \A v, u \in Workers : pc'[v] # "idle" /\ pc'[u] # "idle" /\ mine'[v] = mine'[u] => v = u
    BY <1>2, <2>1 DEF IInv, WorkersKnow, q
  <2> QED BY <2>2, <2>3 DEF WorkersKnow
<1>12. DecisionsInOrder'
  <2>1. ASSUME NEW s, ATime(s) PROVE ATime(s)'
    <3>1. s \subseteq Answers /\ \A r \in s : r \in Runs /\ r < q
      BY <1>1, <1>6, <1>8, <2>1 DEF ATime, Runs
    <3>2. ASSUME NEW r \in s, NEW p \in Answers', p < r PROVE p \in s
      <4>1. p # q /\ p \in Runs
        BY <1>1, <1>8, <3>1, <3>2 DEF Runs
      <4> QED BY <1>7, <2>1, <3>2, <4>1 DEF ATime
    <3> QED BY <1>8, <3>1, <3>2 DEF ATime
  <2>2. ASSUME NEW g \in Gates PROVE ATime(decided[g])' /\ ATime(asOf[g])'
    BY <1>2, <2>1 DEF IInv, DecisionsInOrder, ATime
  <2> QED BY <1>2, <2>2 DEF IInv, DecisionsInOrder
<1>13. RunsAdvance'
  <2>1. ASSUME NEW r \in Answers', NEW p \in Answers', r < p
        PROVE  r \in Answers /\ p \in Answers \cup In({"RUNNING"})
    BY <1>1, <1>7, <1>8, <2>1 DEF In, Runs
  <2> QED BY <1>2, <1>6, <2>1 DEF IInv, RunsAdvance
<1>14. OneRunAtATime'
  BY <1>6 DEF OneRunAtATime
<1>15. ApprovedOnStandingEvidence'
  <2>1. ASSUME NEW g \in Gates, gate[g] = "APPROVED", Kind[g] # "HUMAN"
        PROVE  run'[opener[g]] = "PARTIAL" /\ held[opener[g]] = g
    BY <1>1, <1>3, <2>1 DEF IInv, ApprovedOnStandingEvidence, TypeOK, GatesInOrder, Runs
  <2> QED BY <1>2, <2>1 DEF ApprovedOnStandingEvidence
<1>16. CompletedPastEveryGate'
  <2>1. CASE state = "COMPLETED"
    <3>1. \A g \in Gates : gate[g] = "APPROVED"
      BY <1>2, <2>1 DEF Unapproved, Knows
    <3> QED BY <1>2, <3>1 DEF CompletedPastEveryGate
  <2>2. CASE state # "COMPLETED"
    <3>1. In({"COMPLETED"})' \subseteq In({"COMPLETED"})
      BY <1>3, <1>4, <2>2 DEF In
    <3> QED BY <1>2, <3>1 DEF IInv, CompletedPastEveryGate
  <2> QED BY <2>1, <2>2
<1> QED BY <1>9, <1>10, <1>11, <1>12, <1>13, <1>14, <1>15, <1>16 DEF IInv

-----------------------------------------------------------------------------
(* A run halts at a gate.                                                  *)

LEMMA Halting ==
    ASSUME IInv, TypeOK', NEW w \in Workers, Halt(w)
    PROVE  IInv'
<1> DEFINE q == mine[w]
           g == Min(Unapproved(w))
<1>1. Knows(w) /\ pc[w] = "working"
  BY DEF Halt, IInv, WorkersKnow
<1>2. q \in Runs /\ q = made /\ run[q] = "RUNNING" /\ held[q] = 0
  BY <1>1 DEF Halt, IInv, InOrder, Knows, TypeOK, Runs
<1>3. /\ g \in Gates /\ g \in Nat \ {0}
      /\ seen[w][g] # "APPROVED"
      /\ \A h \in Gates : h < g => seen[w][h] = "APPROVED" /\ gate[h] = "APPROVED"
  BY <1>1, HaltingGate, GraphQueueAssumption DEF Halt, Knows
<1>4. /\ held' = [held EXCEPT ![q] = g]
      /\ \/ Rebinds(g) /\ gate' = [gate EXCEPT ![g] = "OPEN"] /\ opener' = [opener EXCEPT ![g] = q]
         \/ ~Rebinds(g) /\ UNCHANGED <<gate, opener>>
      /\ pc' = [pc EXCEPT ![w] = "halted"]
      /\ UNCHANGED <<decided, asOf, made, run, mine, seen, withdrawn>>
  BY DEF Halt, Goto, person, controls
<1> HIDE DEF q, g
<1>5. held'[q] = g /\ \A r \in Runs : r # q => held'[r] = held[r]
  BY <1>2, <1>4 DEF IInv, TypeOK
<1>6. \A h \in Gates : h # g => gate'[h] = gate[h] /\ opener'[h] = opener[h]
  BY <1>4 DEF IInv, TypeOK
<1>7. \/ gate[g] \in {"NONE", "OPEN"} /\ gate'[g] = "OPEN" /\ opener'[g] = q
      \/ gate[g] # "NONE" /\ UNCHANGED <<gate, opener>>
  BY <1>3, <1>4 DEF Rebinds, IInv, TypeOK
<1>8. \A h \in Gates : /\ gate[h] = "APPROVED" <=> gate'[h] = "APPROVED"
                       /\ gate'[h] = "APPROVED" => opener'[h] = opener[h]
                       /\ gate[h] # "NONE" => gate'[h] # "NONE"
  BY <1>6, <1>7
<1>9. /\ Answers' = Answers /\ In({"RUNNING"})' = In({"RUNNING"})
      /\ In({"COMPLETED"})' = In({"COMPLETED"})
      /\ Answers \in SUBSET Runs /\ q \notin Answers
  BY <1>2, <1>4, SameAnswers DEF Answers, In
<1>10. ASSUME NEW h \in Gates, gate[h] # "NONE" PROVE opener[h] \in Runs /\ opener[h] # q
  <2>1. /\ opener[h] \in 1..made
        /\ run[opener[h]] \in {"RUNNING", "PARTIAL"} => held[opener[h]] = h
    BY <1>10 DEF IInv, GatesInOrder
  <2> QED BY <1>2, <2>1, GraphQueueAssumption DEF IInv, TypeOK, Runs
<1>11. InOrder'
  <2>1. ASSUME NEW r \in Runs
        PROVE  /\ run[r] = "UNMADE" <=> r > made
               /\ run[r] = "RUNNING" => r = made
               /\ run[r] \notin {"RUNNING", "PARTIAL"} => held'[r] = 0
               /\ held'[r] # 0 => gate'[held'[r]] # "NONE"
    <3>1. CASE r = q
      BY <1>2, <1>3, <1>5, <1>7, <3>1 DEF IInv, InOrder
    <3>2. CASE r # q
      BY <1>5, <1>8, <3>2 DEF IInv, InOrder, TypeOK
    <3> QED BY <3>1, <3>2
  <2> QED BY <1>4, <2>1 DEF InOrder
<1>12. GatesInOrder'
  <2>1. ASSUME NEW h \in Gates, gate'[h] # "NONE"
        PROVE  /\ \A k \in Gates : k < h => gate'[k] = "APPROVED"
               /\ opener'[h] \in 1..made
               /\ run[opener'[h]] # "COMPLETED"
               /\ run[opener'[h]] \in {"RUNNING", "PARTIAL"} => held'[opener'[h]] = h
    <3>1. CASE gate[h] # "NONE" /\ opener'[h] = opener[h]
      BY <1>5, <1>8, <1>10, <3>1 DEF IInv, GatesInOrder
    <3>2. CASE h = g /\ opener'[h] = q
      BY <1>2, <1>3, <1>5, <1>8, <3>2 DEF Runs
    <3> QED BY <1>6, <1>7, <2>1, <3>1, <3>2
  <2> QED BY <1>4, <2>1 DEF GatesInOrder
<1>13. WorkersKnow'
  <2>1. \A v \in Workers : v # w => pc'[v] = pc[v] /\ (pc[v] # "idle" => mine[v] # q)
    BY <1>1, <1>4 DEF IInv, WorkersKnow, TypeOK, q
  <2>2. \A r \in Answers : held'[r] = held[r]
    BY <1>5, <1>9
  <2>3. \A v \in Workers, h \in Gates : seen[v][h] = "APPROVED" /\ pc[v] # "idle" => gate'[h] = "APPROVED"
    BY <1>8 DEF IInv, WorkersKnow, Knows
  <2>4. Knows(w)'
    <3>1. pc'[w] = "halted" /\ mine'[w] = q /\ held'[q] # 0
      BY <1>3, <1>4, <1>5 DEF IInv, TypeOK, q
    <3> QED BY <1>1, <1>4, <1>9, <2>2, <2>3, <3>1 DEF Knows, q
  <2>5. ASSUME NEW v \in Workers, v # w PROVE Knows(v)'
    <3>1. Knows(v) /\ pc'[v] = pc[v]
      BY <2>1, <2>5 DEF IInv, WorkersKnow
    <3>2. pc[v] # "idle" => held'[mine[v]] = held[mine[v]]
      BY <1>5, <2>1, <2>5, <3>1 DEF Knows, IInv, TypeOK, Runs
    <3> QED BY <1>4, <1>9, <2>2, <2>3, <3>1, <3>2 DEF Knows
  <2>6. \A v, u \in Workers : pc'[v] # "idle" /\ pc'[u] # "idle" /\ mine'[v] = mine'[u] => v = u
    BY <1>4, <2>1 DEF IInv, WorkersKnow, q
  <2> QED BY <2>4, <2>5, <2>6 DEF WorkersKnow
<1>14. DecisionsInOrder'
  <2>1. ASSUME NEW s, ATime(s) PROVE ATime(s)'
    BY <1>9, <2>1 DEF ATime
  <2>2. ASSUME NEW h \in Gates
        PROVE  /\ ATime(decided[h])' /\ ATime(asOf[h])'
               /\ gate'[h] = "APPROVED" =>
                     \A r \in decided[h] : held'[r] # 0 => gate'[held'[r]] = "APPROVED"
    <3>1. ATime(decided[h]) /\ ATime(asOf[h])
      BY DEF IInv, DecisionsInOrder
    <3>2. ATime(decided[h])' /\ ATime(asOf[h])'
      BY <1>4, <2>1, <3>1 DEF ATime
    <3>3. \A r \in decided[h] : r \in Runs /\ held'[r] = held[r]
      BY <1>5, <1>9, <3>1 DEF ATime
    <3> QED BY <1>8, <3>2, <3>3 DEF IInv, DecisionsInOrder, TypeOK
  <2> QED BY <1>4, <2>2 DEF DecisionsInOrder
<1>15. RunsAdvance'
  <2>1. ASSUME NEW r \in Answers, NEW p \in Answers \cup In({"RUNNING"}), r < p
        PROVE  /\ \E h \in Gates : gate'[h] = "APPROVED" /\ r \in decided[h] /\ p \notin decided[h]
               /\ held'[r] # 0 => gate'[held'[r]] = "APPROVED"
               /\ held'[p] = 0 \/ held'[p] > held'[r]
    <3>1. /\ \E h \in Gates : gate[h] = "APPROVED" /\ r \in decided[h] /\ p \notin decided[h]
          /\ held[r] # 0 => gate[held[r]] = "APPROVED"
          /\ held[p] = 0 \/ held[p] > held[r]
      BY <2>1 DEF IInv, RunsAdvance
    <3>2. r \in Runs /\ held'[r] = held[r] /\ held[r] \in {0} \cup Gates
      BY <1>5, <1>9 DEF IInv, TypeOK
    <3>3. CASE p = q
      <4>1. held[r] # 0 => seen[w][held[r]] = "APPROVED"
        BY <1>1, <1>2 DEF Knows, q
      <4>2. held[r] # 0 => \A h \in Gates : h < held[r] => seen[w][h] = "APPROVED"
        BY <1>1, <3>2, <4>1 DEF Knows
      <4>3. /\ g \in Nat /\ g > 0
            /\ held[r] \in Nat
        <5>1. g \in Gates
          BY <1>3
        <5>2. held[r] \in {0} \cup Gates
          BY <3>2
        <5> QED BY <5>1, <5>2, GatesAreNumbers
      <4>4. held[r] < g
        <5>1. CASE held[r] = 0
          BY <4>3, <5>1
        <5>2. CASE held[r] # 0
          <6>1. held[r] # g /\ ~(g < held[r])
            BY <1>3, <4>1, <4>2, <5>2
          <6> QED BY <4>3, <6>1
        <5> QED BY <5>1, <5>2
      <4> QED BY <1>5, <1>8, <3>1, <3>2, <3>3, <4>3, <4>4
    <3>4. CASE p # q
      <4>1. held'[p] = held[p]
        BY <1>5, <1>9, <3>4 DEF In
      <4> QED BY <1>8, <3>1, <3>2, <4>1
    <3> QED BY <3>3, <3>4
  <2> QED BY <1>4, <1>9, <2>1 DEF RunsAdvance
<1>16. OneRunAtATime'
  BY <1>4, <1>9 DEF IInv, OneRunAtATime
<1>17. ApprovedOnStandingEvidence'
  <2>1. ASSUME NEW h \in Gates, gate'[h] = "APPROVED", Kind[h] # "HUMAN"
        PROVE  run[opener'[h]] = "PARTIAL" /\ held'[opener'[h]] = h
    BY <1>5, <1>8, <1>10, <2>1 DEF IInv, ApprovedOnStandingEvidence
  <2> QED BY <1>4, <2>1 DEF ApprovedOnStandingEvidence
<1>18. CompletedPastEveryGate'
  BY <1>8, <1>9 DEF IInv, CompletedPastEveryGate
<1> QED BY <1>11, <1>12, <1>13, <1>14, <1>15, <1>16, <1>17, <1>18 DEF IInv

-----------------------------------------------------------------------------
(* A gate is decided.                                                      *)

LEMMA Deciding ==
    ASSUME IInv, TypeOK', NEW g \in Gates, gate[g] = "OPEN", OnlyGoOn,
           NEW verdict \in {"APPROVED", "REJECTED"}, NEW s, ATime(s),
           gate' = [gate EXCEPT ![g] = verdict],
           decided' = [decided EXCEPT ![g] = s],
           UNCHANGED <<opener, asOf, made, run, held, withdrawn>>,
           verdict = "APPROVED" /\ Kind[g] # "HUMAN" =>
               run[opener[g]] = "PARTIAL" /\ held[opener[g]] = g
    PROVE  IInv'
<1>1. gate'[g] = verdict /\ \A h \in Gates : h # g => gate'[h] = gate[h]
  BY DEF IInv, TypeOK
<1>2. decided'[g] = s /\ \A h \in Gates : h # g => decided'[h] = decided[h]
  BY DEF IInv, TypeOK
<1>3. \A h \in Gates : /\ gate'[h] # "NONE" => gate[h] # "NONE"
                       /\ gate[h] # "NONE" => gate'[h] # "NONE"
                       /\ gate[h] = "APPROVED" => gate'[h] = "APPROVED" /\ h # g
  BY <1>1
<1>4. /\ Answers' = Answers /\ In({"RUNNING"})' = In({"RUNNING"})
      /\ In({"COMPLETED"})' = In({"COMPLETED"})
      /\ Answers \in SUBSET Runs
  BY SameAnswers DEF Answers, In
<1>5. \A r \in Runs : held[r] \in {0} \cup Gates
  BY DEF IInv, TypeOK
<1>6. InOrder'
  BY <1>3, <1>5 DEF IInv, InOrder
<1>7. GatesInOrder'
  BY <1>3 DEF IInv, GatesInOrder
<1>8. WorkersKnow'
  <2>1. ASSUME NEW w \in Workers PROVE Knows(w)'
    <3>1. Knows(w) /\ (pc'[w] # "idle" => pc[w] # "idle")
      BY DEF IInv, WorkersKnow, OnlyGoOn
    <3>2. pc'[w] \in {"claimed", "working"} => pc[w] \in {"claimed", "working"}
      BY DEF OnlyGoOn
    <3>3. pc'[w] \in {"halted", "deciding"} => pc[w] = pc'[w]
      BY DEF OnlyGoOn
    <3> QED BY <1>3, <1>4, <3>1, <3>2, <3>3 DEF Knows, OnlyGoOn
  <2>2. \A w, v \in Workers : pc'[w] # "idle" /\ pc'[v] # "idle" /\ mine'[w] = mine'[v] => w = v
    BY DEF IInv, WorkersKnow, OnlyGoOn
  <2> QED BY <2>1, <2>2 DEF WorkersKnow
<1>9. DecisionsInOrder'
  <2>1. ASSUME NEW h \in Gates
        PROVE  /\ ATime(decided'[h]) /\ ATime(asOf[h])
               /\ gate'[h] = "APPROVED" =>
                     \A r \in decided'[h] : held[r] # 0 => gate'[held[r]] = "APPROVED"
    <3>1. CASE h # g
      <4>1. \A r \in decided[h] : r \in Runs
        BY <1>4 DEF IInv, DecisionsInOrder, ATime
      <4> QED BY <1>1, <1>2, <1>3, <1>5, <3>1, <4>1 DEF IInv, DecisionsInOrder
    <3>2. CASE h = g
      <4>1. ASSUME NEW r \in s, held[r] # 0, verdict = "APPROVED"
            PROVE  gate'[held[r]] = "APPROVED"
        <5>1. r \in Runs
          BY <1>4 DEF ATime
        <5>2. held[r] \in Gates /\ gate[held[r]] # "NONE"
          BY <1>5, <4>1, <5>1 DEF IInv, InOrder
        <5>3. held[r] = g \/ held[r] < g
          <6>1. g < held[r] => gate[g] = "APPROVED"
            BY <5>2 DEF IInv, GatesInOrder
          <6>2. ~(g < held[r])
            BY <6>1
          <6> QED BY <5>2, <6>2, GatesAreNumbers
        <5>4. held[r] < g => gate[held[r]] = "APPROVED"
          BY <5>2 DEF IInv, GatesInOrder
        <5> QED BY <1>1, <1>3, <4>1, <5>2, <5>3, <5>4
      <4> QED BY <1>1, <1>2, <3>2, <4>1 DEF IInv, DecisionsInOrder
    <3> QED BY <3>1, <3>2
  <2> QED BY <1>4, <2>1 DEF DecisionsInOrder, ATime
<1>10. RunsAdvance'
  <2>1. ASSUME NEW r \in Answers, NEW p \in Answers \cup In({"RUNNING"}), r < p
        PROVE  /\ \E h \in Gates : gate'[h] = "APPROVED" /\ r \in decided'[h] /\ p \notin decided'[h]
               /\ held[r] # 0 => gate'[held[r]] = "APPROVED"
               /\ held[p] = 0 \/ held[p] > held[r]
    <3>1. /\ \E h \in Gates : gate[h] = "APPROVED" /\ r \in decided[h] /\ p \notin decided[h]
          /\ held[r] # 0 => gate[held[r]] = "APPROVED"
          /\ held[p] = 0 \/ held[p] > held[r]
      BY <2>1 DEF IInv, RunsAdvance
    <3>2. held[r] \in {0} \cup Gates
      BY <1>4, <1>5
    <3> QED BY <1>2, <1>3, <3>1, <3>2
  <2> QED BY <1>4, <2>1 DEF RunsAdvance
<1>11. OneRunAtATime'
  BY <1>4 DEF IInv, OneRunAtATime
<1>12. ApprovedOnStandingEvidence'
  BY <1>1 DEF IInv, ApprovedOnStandingEvidence
<1>13. CompletedPastEveryGate'
  BY <1>3, <1>4 DEF IInv, CompletedPastEveryGate
<1> QED BY <1>6, <1>7, <1>8, <1>9, <1>10, <1>11, <1>12, <1>13 DEF IInv

-----------------------------------------------------------------------------
(* The graph is handed out, or only its silent runs are reclaimed.         *)

\* What a claim does to the runs: the silent ones fail, and one more is made.
Reclaims(stale) ==
    /\ stale \subseteq In({"RUNNING"})
    /\ \A r \in Runs : r \in stale => run'[r] = "FAILED" /\ held'[r] = 0
    /\ \A r \in Runs : r \notin stale /\ r <= made => run'[r] = run[r] /\ held'[r] = held[r]
    /\ \A r \in Runs : r > made + 1 => run'[r] = run[r] /\ held'[r] = held[r]

HandsOut(w, stale) ==
    /\ Eligible(stale)
    /\ made' = made + 1 /\ made + 1 \in Runs
    /\ run'[made + 1] = "RUNNING" /\ held'[made + 1] = 0
    /\ pc' = [pc EXCEPT ![w] = "claimed"]
    /\ mine' = [mine EXCEPT ![w] = made + 1]
    /\ seen' = [seen EXCEPT ![w] = gate]

HandsNothingOut ==
    /\ \A r \in Runs : r = made + 1 => run'[r] = run[r] /\ held'[r] = held[r]
    /\ UNCHANGED <<made, pc, mine, seen>>

LEMMA ClaimCases ==
    ASSUME IInv, NEW w \in Workers, Claim(w)
    PROVE  /\ UNCHANGED <<withdrawn, gate, opener, decided, asOf>>
           /\ \E stale : Reclaims(stale) /\ (HandsOut(w, stale) \/ HandsNothingOut)
<1>1. UNCHANGED <<withdrawn, gate, opener, decided, asOf>>
  BY DEF Claim, controls, gates, person
<1>2. PICK stale \in SUBSET In({"RUNNING"}) :
         /\ held' = [r \in Runs |-> IF r \in stale THEN 0 ELSE held[r]]
         /\ IF Eligible(stale)
            THEN /\ made' = made + 1
                 /\ run' = [Reclaimed(stale) EXCEPT ![made + 1] = "RUNNING"]
                 /\ pc' = [pc EXCEPT ![w] = "claimed"]
                 /\ mine' = [mine EXCEPT ![w] = made + 1]
                 /\ seen' = [seen EXCEPT ![w] = gate]
            ELSE run' = Reclaimed(stale) /\ UNCHANGED <<made, process>>
  BY DEF Claim
<1>3. \A r \in stale : r \in Runs /\ r = made
  BY DEF In, IInv, InOrder
<1>4. made \in Nat
  BY GraphQueueAssumption DEF IInv, TypeOK, Runs
<1>5. CASE Eligible(stale)
  <2>1. made + 1 \in Runs
    BY <1>4, <1>5, GraphQueueAssumption DEF Eligible, WithinLimits, Runs
  <2>2. run[made + 1] = "UNMADE" /\ held[made + 1] = 0
    BY <1>4, <2>1 DEF IInv, InOrder
  <2>3. \A r \in Runs : run'[r] = IF r = made + 1 THEN "RUNNING" ELSE
                                  IF r \in stale THEN "FAILED" ELSE run[r]
    BY <1>2, <1>5 DEF Reclaimed
  <2>4. \A r \in Runs : held'[r] = IF r \in stale THEN 0 ELSE held[r]
    BY <1>2
  <2>5. \A r \in Runs : r \in Nat
    BY DEF Runs
  <2>6. Reclaims(stale)
    BY <1>2, <1>3, <1>4, <2>3, <2>4, <2>5 DEF Reclaims
  <2>7. HandsOut(w, stale)
    BY <1>2, <1>3, <1>4, <1>5, <2>1, <2>2, <2>3, <2>4 DEF HandsOut
  <2> QED BY <1>1, <2>6, <2>7
<1>6. CASE ~Eligible(stale)
  <2>1. \A r \in Runs : run'[r] = IF r \in stale THEN "FAILED" ELSE run[r]
    BY <1>2, <1>6 DEF Reclaimed
  <2>2. \A r \in Runs : held'[r] = IF r \in stale THEN 0 ELSE held[r]
    BY <1>2
  <2>3. Reclaims(stale)
    BY <1>2, <1>3, <1>4, <2>1, <2>2 DEF Reclaims
  <2>4. HandsNothingOut
    BY <1>2, <1>3, <1>4, <1>6, <2>1, <2>2 DEF HandsNothingOut, process
  <2> QED BY <1>1, <2>3, <2>4
<1> QED BY <1>5, <1>6

\* At a claim every gate at which an answer halted is approved.
LEMMA AskedAfterApproval ==
    ASSUME IInv, NEW stale, Eligible(stale), NEW r \in Answers
    PROVE  /\ \E g \in Gates : gate[g] = "APPROVED" /\ Answers \subseteq decided[g]
           /\ held[r] # 0 => gate[held[r]] = "APPROVED"
<1>1. PICK g \in Gates : gate[g] = "APPROVED" /\ Answers \subseteq decided[g]
  BY DEF Eligible, Asked, Fresh
<1> QED BY <1>1 DEF IInv, DecisionsInOrder

LEMMA Claiming ==
    ASSUME IInv, TypeOK', NEW w \in Workers, Claim(w)
    PROVE  IInv'
<1>1. UNCHANGED <<withdrawn, gate, opener, decided, asOf>>
  BY ClaimCases
<1>2. PICK stale : Reclaims(stale) /\ (HandsOut(w, stale) \/ HandsNothingOut)
  BY ClaimCases
<1>3. /\ made \in Nat /\ \A r \in Runs : r \in Nat
      /\ \A r \in Runs : run[r] = "UNMADE" <=> r > made
  BY GraphQueueAssumption DEF IInv, TypeOK, InOrder, Runs
<1>4. \A r \in stale : r \in Runs /\ run[r] = "RUNNING" /\ r = made
  BY <1>2 DEF Reclaims, In, IInv, InOrder
<1>5. \A r \in Runs : \/ r \in stale /\ run[r] = "RUNNING" /\ run'[r] = "FAILED" /\ held'[r] = 0
                      \/ r \notin stale /\ run'[r] = run[r] /\ held'[r] = held[r]
                      \/ /\ r = made + 1 /\ run[r] = "UNMADE" /\ HandsOut(w, stale)
                         /\ run'[r] = "RUNNING" /\ held'[r] = 0
  <2>1. ASSUME NEW r \in Runs PROVE r <= made \/ r = made + 1 \/ r > made + 1
    BY <1>3
  <2> QED BY <1>2, <1>3, <1>4, <2>1 DEF Reclaims, HandsOut, HandsNothingOut
<1>6. /\ Answers' = Answers /\ In({"COMPLETED"})' = In({"COMPLETED"})
      /\ \A r \in Answers : r \in Runs /\ held'[r] = held[r] /\ r <= made
  BY <1>3, <1>5 DEF Answers, In
<1>7. HandsOut(w, stale) => In({"RUNNING"}) \subseteq stale /\ ~withdrawn
  BY DEF HandsOut, Eligible, Asked
<1>8. (made' = made + 1 /\ HandsOut(w, stale)) \/ (made' = made /\ HandsNothingOut)
  BY <1>2 DEF HandsOut, HandsNothingOut
<1>9. \A r \in Runs : run'[r] = "RUNNING" =>
         \/ r = made + 1 /\ HandsOut(w, stale)
         \/ HandsNothingOut /\ run[r] = "RUNNING" /\ held'[r] = held[r]
  BY <1>2, <1>5, <1>7 DEF In
<1>10. InOrder'
  <2>1. ASSUME NEW r \in Runs
        PROVE  /\ run'[r] = "UNMADE" <=> r > made'
               /\ run'[r] = "RUNNING" => r = made'
               /\ run'[r] \notin {"RUNNING", "PARTIAL"} => held'[r] = 0
               /\ held'[r] # 0 => gate[held'[r]] # "NONE"
    <3>1. run'[r] = "RUNNING" => r = made'
      BY <1>8, <1>9 DEF IInv, InOrder, HandsOut, HandsNothingOut
    <3>2. run'[r] = "UNMADE" <=> r > made'
      BY <1>2, <1>3, <1>5, <1>8 DEF HandsOut, HandsNothingOut
    <3>3. held'[r] = 0 \/ (held'[r] = held[r] /\ run'[r] = run[r])
      BY <1>5
    <3> QED BY <1>5, <3>1, <3>2, <3>3 DEF IInv, InOrder
  <2> QED BY <1>1, <2>1 DEF InOrder
<1>11. GatesInOrder'
  <2>1. ASSUME NEW g \in Gates, gate[g] # "NONE"
        PROVE  /\ opener[g] \in 1..made'
               /\ run'[opener[g]] # "COMPLETED"
               /\ run'[opener[g]] \in {"RUNNING", "PARTIAL"} => held'[opener[g]] = g
    <3>1. /\ opener[g] \in 1..made /\ opener[g] \in Runs
          /\ run[opener[g]] # "COMPLETED"
          /\ run[opener[g]] \in {"RUNNING", "PARTIAL"} => held[opener[g]] = g
      BY <2>1 DEF IInv, GatesInOrder, TypeOK, Runs
    <3>2. opener[g] # made + 1 /\ opener[g] \in 1..made'
      BY <1>3, <1>8, <3>1
    <3> QED BY <1>5, <3>1, <3>2
  <2> QED BY <1>1, <2>1 DEF GatesInOrder, IInv
<1>12. WorkersKnow'
  <2>1. ASSUME NEW v \in Workers, pc'[v] = pc[v], mine'[v] = mine[v], seen'[v] = seen[v]
        PROVE  Knows(v)'
    <3>1. Knows(v) /\ (pc[v] # "idle" => mine[v] \in 1..made /\ mine[v] \in Runs)
      BY DEF IInv, WorkersKnow, Knows, TypeOK, Runs
    <3>2. pc[v] # "idle" => mine[v] \in 1..made' /\ mine[v] # made + 1
      BY <1>3, <1>8, <3>1
    <3>3. pc[v] # "idle" /\ run'[mine[v]] = "RUNNING" =>
             run[mine[v]] = "RUNNING" /\ held'[mine[v]] = held[mine[v]]
      BY <1>5, <3>1, <3>2
    <3>4. pc[v] = "deciding" => run'[mine[v]] = run[mine[v]] /\ held'[mine[v]] = held[mine[v]]
      BY <1>5, <3>1, <3>2 DEF Knows
    <3> QED BY <1>1, <1>6, <2>1, <3>1, <3>2, <3>3, <3>4 DEF Knows
  <2>2. CASE HandsNothingOut
    <3>1. \A v \in Workers : Knows(v)'
      BY <2>1, <2>2 DEF HandsNothingOut
    <3> QED BY <2>2, <3>1 DEF HandsNothingOut, IInv, WorkersKnow
  <2>3. CASE HandsOut(w, stale)
    <3>1. \A v \in Workers : v # w => pc'[v] = pc[v] /\ mine'[v] = mine[v] /\ seen'[v] = seen[v]
      BY <2>3 DEF HandsOut, IInv, TypeOK
    <3>2. pc'[w] = "claimed" /\ mine'[w] = made + 1 /\ seen'[w] = gate
      BY <2>3 DEF HandsOut, IInv, TypeOK
    <3>3. Knows(w)'
      <4>1. made + 1 \in 1..made' /\ held'[made + 1] = 0
        BY <1>3, <2>3 DEF HandsOut
      <4>2. \A r \in Answers : held[r] # 0 => gate[held[r]] = "APPROVED"
        BY <2>3, AskedAfterApproval DEF HandsOut
      <4>3. \A g \in Gates : gate[g] # "NONE" => \A h \in Gates : h < g => gate[h] = "APPROVED"
        BY DEF IInv, GatesInOrder
      <4> QED BY <1>1, <1>6, <3>2, <4>1, <4>2, <4>3 DEF Knows
    <3>4. \A v \in Workers : v # w /\ pc[v] # "idle" => mine[v] # made + 1
      BY <1>3 DEF IInv, WorkersKnow, Knows
    <3>5. \A v \in Workers : Knows(v)'
      BY <2>1, <3>1, <3>3
    <3> QED BY <3>1, <3>2, <3>4, <3>5 DEF IInv, WorkersKnow
  <2> QED BY <1>2, <2>2, <2>3
<1>13. DecisionsInOrder'
  <2>1. ASSUME NEW g \in Gates
        PROVE  /\ ATime(decided[g])' /\ ATime(asOf[g])'
               /\ gate[g] = "APPROVED" =>
                     \A r \in decided[g] : held'[r] # 0 => gate[held'[r]] = "APPROVED"
    <3>1. ATime(decided[g]) /\ ATime(asOf[g])
      BY DEF IInv, DecisionsInOrder
    <3> QED BY <1>1, <1>6, <3>1 DEF ATime, IInv, DecisionsInOrder
  <2> QED BY <1>1, <2>1 DEF DecisionsInOrder
<1>14. RunsAdvance'
  <2>1. ASSUME NEW r \in Answers, NEW p \in (Answers \cup In({"RUNNING"}))', r < p
        PROVE  /\ \E g \in Gates : gate[g] = "APPROVED" /\ r \in decided[g] /\ p \notin decided[g]
               /\ held[r] # 0 => gate[held[r]] = "APPROVED"
               /\ held'[p] = 0 \/ held'[p] > held[r]
    <3>1. CASE p \in Answers \cup In({"RUNNING"}) /\ held'[p] = held[p]
      BY <2>1, <3>1 DEF IInv, RunsAdvance
    <3>2. CASE p = made + 1 /\ HandsOut(w, stale)
      <4>1. /\ \E g \in Gates : gate[g] = "APPROVED" /\ Answers \subseteq decided[g]
            /\ held[r] # 0 => gate[held[r]] = "APPROVED"
        BY <3>2, AskedAfterApproval DEF HandsOut
      <4>2. \A g \in Gates : decided[g] \subseteq Answers
        BY DEF IInv, DecisionsInOrder, ATime
      <4>3. p \notin Answers /\ held'[p] = 0
        BY <1>3, <1>6, <3>2 DEF HandsOut
      <4> QED BY <4>1, <4>2, <4>3
    <3>3. p \in Answers \/ (p \in Runs /\ run'[p] = "RUNNING")
      BY <1>6 DEF In
    <3> QED BY <1>6, <1>9, <3>1, <3>2, <3>3 DEF In
  <2> QED BY <1>1, <1>6, <2>1 DEF RunsAdvance
<1>15. OneRunAtATime'
  <2>1. \A r \in In({"RUNNING"})' : r \in Runs /\ run'[r] = "RUNNING"
    BY DEF In
  <2>2. \A r, q \in In({"RUNNING"})' : r = q
    BY <1>10, <2>1 DEF InOrder
  <2>3. withdrawn => In({"RUNNING"})' = {}
    BY <1>7, <1>9, <2>1 DEF IInv, OneRunAtATime, In
  <2> QED BY <1>1, <2>2, <2>3 DEF OneRunAtATime
<1>16. ApprovedOnStandingEvidence'
  <2>1. ASSUME NEW g \in Gates, gate[g] = "APPROVED", Kind[g] # "HUMAN"
        PROVE  run'[opener[g]] = "PARTIAL" /\ held'[opener[g]] = g
    <3>1. run[opener[g]] = "PARTIAL" /\ held[opener[g]] = g /\ opener[g] \in Runs
      BY <2>1 DEF IInv, ApprovedOnStandingEvidence, GatesInOrder, TypeOK, Runs
    <3> QED BY <1>5, <3>1
  <2> QED BY <1>1, <2>1 DEF ApprovedOnStandingEvidence
<1>17. CompletedPastEveryGate'
  BY <1>1, <1>6 DEF IInv, CompletedPastEveryGate
<1> QED BY <1>10, <1>11, <1>12, <1>13, <1>14, <1>15, <1>16, <1>17 DEF IInv

-----------------------------------------------------------------------------
(* The invariant.                                                          *)

LEMMA IInvInit == Init => IInv
<1> SUFFICES ASSUME Init PROVE IInv
  OBVIOUS
<1>1. TypeOK
  BY TypeInit
<1>2. Answers = {} /\ In({"RUNNING"}) = {} /\ In({"COMPLETED"}) = {}
  BY DEF Init, Answers, In
<1>3. InOrder
  BY GraphQueueAssumption DEF Init, InOrder, Runs
<1>4. GatesInOrder /\ WorkersKnow /\ ApprovedOnStandingEvidence
  BY DEF Init, GatesInOrder, WorkersKnow, Knows, ApprovedOnStandingEvidence
<1>5. DecisionsInOrder
  BY DEF Init, DecisionsInOrder, ATime
<1>6. RunsAdvance /\ OneRunAtATime /\ CompletedPastEveryGate
  BY <1>2 DEF RunsAdvance, OneRunAtATime, CompletedPastEveryGate, Init
<1> QED BY <1>1, <1>3, <1>4, <1>5, <1>6 DEF IInv

LEMMA IInvNext == IInv /\ [Next]_vars => IInv'
<1> SUFFICES ASSUME IInv, [Next]_vars PROVE IInv'
  OBVIOUS
<1>0. TypeOK'
  BY TypeNext DEF IInv
<1>a. ASSUME Still, OnlyGoOn, UNCHANGED asOf, withdrawn' # withdrawn => In({"RUNNING"}) = {}
      PROVE  IInv'
  <2>1. DecisionsInOrder'
    BY <1>a, SameAnswers DEF IInv, DecisionsInOrder, ATime, Still
  <2> QED BY <1>0, <1>a, <2>1, StillKeeps
<1>1. ASSUME NEW w \in Workers, Claim(w) PROVE IInv'
  BY <1>0, <1>1, Claiming
<1>2. ASSUME NEW w \in Workers, Enter(w) \/ GiveUp(w) PROVE IInv'
  <2>1. Still /\ UNCHANGED <<asOf, withdrawn>>
    BY <1>2 DEF Enter, GiveUp, Still, controls, gates, person, runs
  <2>2. OnlyGoOn
    BY <1>2 DEF Enter, GiveUp, Goto, OnlyGoOn, IInv, TypeOK
  <2> QED BY <1>a, <2>1, <2>2
<1>3. ASSUME NEW w \in Workers, Abort(w) PROVE IInv'
  <2>1. CloseAs(w, "FAILED") /\ pc[w] = "claimed" /\ Goto(w, "idle")
    BY <1>3 DEF Abort, CloseAs
  <2> QED BY <1>0, <2>1, Closing
<1>4. ASSUME NEW w \in Workers, Halt(w) PROVE IInv'
  BY <1>0, <1>4, Halting
<1>5. ASSUME NEW w \in Workers, CloseHalted(w) PROVE IInv'
  BY <1>0, <1>5, Closing DEF CloseHalted
<1>6. ASSUME NEW w \in Workers, CloseCompleted(w) PROVE IInv'
  BY <1>0, <1>6, Closing DEF CloseCompleted
<1>7. ASSUME NEW w \in Workers, CloseShort(w) PROVE IInv'
  <2>1. PICK state \in {"PARTIAL", "FAILED", "CANCELLED", "BUDGET_STOPPED"} : CloseAs(w, state)
    BY <1>7 DEF CloseShort
  <2> QED BY <1>0, <1>7, <2>1, Closing DEF CloseShort
<1>8. ASSUME NEW w \in Workers, DecideAutomatic(w) PROVE IInv'
  <2> DEFINE g == held[mine[w]]
  <2>1. g # 0 /\ mine[w] \in Runs
    BY <1>8 DEF DecideAutomatic, IInv, WorkersKnow, Knows, TypeOK, Runs
  <2>2. g \in Gates
    BY <2>1 DEF IInv, TypeOK
  <2>3. /\ gate[g] = "OPEN" /\ run[opener[g]] \in {"PARTIAL", "COMPLETED"}
        /\ gate' = [gate EXCEPT ![g] = "APPROVED"]
        /\ decided' = [decided EXCEPT ![g] = Answers]
        /\ UNCHANGED <<opener, asOf, made, run, held, withdrawn>>
    BY <1>8 DEF DecideAutomatic, controls, person, runs
  <2>4. run[opener[g]] = "PARTIAL" /\ held[opener[g]] = g
    BY <2>2, <2>3 DEF IInv, GatesInOrder
  <2>5. OnlyGoOn
    BY <1>8 DEF DecideAutomatic, Goto, OnlyGoOn, IInv, TypeOK
  <2>6. ATime(Answers)
    BY DEF ATime
  <2> HIDE DEF g
  <2> QED BY <1>0, <2>2, <2>3, <2>4, <2>5, <2>6, Deciding
<1>9. ASSUME NEW g \in Gates, BeginDecision(g) PROVE IInv'
  <2>1. /\ Still /\ OnlyGoOn /\ UNCHANGED withdrawn
        /\ asOf' = [asOf EXCEPT ![g] = Answers]
    BY <1>9 DEF BeginDecision, Still, OnlyGoOn, controls, gates, runs, process
  <2> QED BY <1>0, <2>1, StillDecisions, StillKeeps
<1>10. ASSUME NEW g \in Gates, Decision(g) PROVE IInv'
  <2>1. CASE Refuse(g)
    BY <1>a, <2>1 DEF Refuse, Still, OnlyGoOn, controls, gates, runs, process
  <2>2. ASSUME NEW verdict \in {"APPROVED", "REJECTED"}, Settled(g, verdict), gate[g] = "OPEN",
               verdict = "APPROVED" /\ Kind[g] # "HUMAN" =>
                   run[opener[g]] = "PARTIAL" /\ held[opener[g]] = g
        PROVE  IInv'
    <3>1. /\ gate' = [gate EXCEPT ![g] = verdict]
          /\ decided' = [decided EXCEPT ![g] = asOf[g]]
          /\ UNCHANGED <<opener, asOf, made, run, held, withdrawn>> /\ OnlyGoOn
      BY <2>2 DEF Settled, OnlyGoOn, controls, runs, process
    <3>2. ATime(asOf[g])
      BY DEF IInv, DecisionsInOrder
    <3> QED BY <1>0, <2>2, <3>1, <3>2, Deciding
  <2>3. CASE Approve(g)
    <3>1. /\ Settled(g, "APPROVED") /\ gate[g] = "OPEN" /\ Kind[g] # "AUTOMATIC"
          /\ Kind[g] = "RELEASE" =>
                run[opener[g]] \in {"PARTIAL", "COMPLETED"} /\ held[opener[g]] = g
      BY <2>3 DEF Approve
    <3>2. Kind[g] \in {"HUMAN", "RELEASE", "AUTOMATIC"}
      BY GraphQueueAssumption DEF GateKind
    <3>3. run[opener[g]] # "COMPLETED"
      BY <3>1 DEF IInv, GatesInOrder
    <3> QED BY <2>2, <3>1, <3>2, <3>3
  <2>4. CASE Reject(g)
    BY <2>2, <2>4 DEF Reject
  <2> QED BY <1>10, <2>1, <2>3, <2>4 DEF Decision
<1>11. ASSUME SetPause \/ Withdraw \/ RecordPullRequest PROVE IInv'
  <2>1. Still /\ OnlyGoOn /\ UNCHANGED asOf
    BY <1>11 DEF SetPause, Withdraw, RecordPullRequest, Still, OnlyGoOn, gates, person, runs, process
  <2>2. withdrawn' # withdrawn => In({"RUNNING"}) = {}
    BY <1>11 DEF SetPause, Withdraw, RecordPullRequest
  <2> QED BY <1>a, <2>1, <2>2
<1>12. CASE UNCHANGED vars
  BY <1>a, <1>12 DEF vars, Still, OnlyGoOn, controls, gates, person, runs, process
<1> QED BY <1>1, <1>2, <1>3, <1>4, <1>5, <1>6, <1>7, <1>8, <1>9, <1>10, <1>11, <1>12
    DEF Next, Work

-----------------------------------------------------------------------------
(* What holds of every graph, however many gates, runs and workers.        *)

LEMMA IInvHolds == Spec => []IInv
<1> QED BY IInvInit, IInvNext, PTL DEF Spec

\* Two runs of a graph are never under way, and none of a withdrawn one.
THEOREM RunsExclude == Spec => []OneRunAtATime
<1>1. IInv => OneRunAtATime
  BY DEF IInv
<1> QED BY <1>1, IInvHolds, PTL

\* The answers of a graph go from gate to gate, each on an approval of its own:
\* reclaims, voids, rebinds and pauses never make it halt twice at one gate.
THEOREM AnswersOnlyAdvance == Spec => []AnswersAdvance
<1>1. IInv => AnswersAdvance
  BY DEF IInv, RunsAdvance, AnswersAdvance
<1> QED BY <1>1, IInvHolds, PTL

\* An approval made on evidence keeps the run that bears it.
THEOREM ApprovalsKeepTheirEvidence == Spec => []ApprovedOnStandingEvidence
<1>1. IInv => ApprovedOnStandingEvidence
  BY DEF IInv
<1> QED BY <1>1, IInvHolds, PTL

\* No run completes but past gates that were all approved.
THEOREM EveryGateIsPassed == Spec => []CompletedPastEveryGate
<1>1. IInv => CompletedPastEveryGate
  BY DEF IInv
<1> QED BY <1>1, IInvHolds, PTL

LEMMA HeldForAReason == IInv => NeverLostOtherwise
<1> SUFFICES ASSUME IInv, In({"RUNNING"}) = {}, ~Eligible({}), ~Concluded, ~Waits
             PROVE  Orphaned \/ Overtaken
  BY DEF NeverLostOtherwise
<1>1. WithinLimits({}) /\ ~withdrawn /\ ~paused /\ Built
  BY DEF Concluded, Waits
<1>2. Answers # {} /\ \A g \in Gates : ~Fresh(g)
  BY <1>1 DEF Eligible, Asked
<1>3. Answers \in SUBSET Runs
  BY DEF Answers, In
<1>4. Last \in Answers /\ \A r \in Answers : r <= Last
  BY <1>2, <1>3, LastRun DEF Last
<1>5. held[Last] \in Gates /\ gate[held[Last]] \in {"OPEN", "APPROVED", "REJECTED"}
  <2>1. Last \in Runs /\ held[Last] # 0
    BY <1>2, <1>3, <1>4 DEF Concluded
  <2> QED BY <2>1 DEF IInv, TypeOK, GateState, InOrder
<1>6. PICK g \in Gates : HaltedAt(g) /\ gate[g] \in {"OPEN", "APPROVED", "REJECTED"}
  BY <1>2, <1>5 DEF HaltedAt
<1>7. CASE gate[g] = "REJECTED"
  BY <1>6, <1>7 DEF Concluded
<1>8. CASE gate[g] = "OPEN"
  BY <1>6, <1>8 DEF Waits, Orphaned
<1>9. CASE gate[g] = "APPROVED"
  <2>1. PICK r \in Answers : r \notin decided[g]
    BY <1>2, <1>9 DEF Fresh
  <2>2. Last \in decided[g] => r = Last \/ r < Last
    BY <1>3, <1>4, <2>1 DEF Runs
  <2>3. Last \notin decided[g]
    BY <2>1, <2>2 DEF IInv, DecisionsInOrder, ATime
  <2> QED BY <1>6, <1>9, <2>3 DEF Overtaken
<1> QED BY <1>6, <1>7, <1>8, <1>9

\* A graph that is off the queue is there for a reason the model names.
THEOREM GraphsAreNeverLostOtherwise == Spec => []NeverLostOtherwise
<1> QED BY HeldForAReason, IInvHolds, PTL
=============================================================================
