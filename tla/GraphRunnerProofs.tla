-------------------------- MODULE GraphRunnerProofs --------------------------
(***************************************************************************)
(* Theorems about GraphRunner, for every acyclic graph, every placement of *)
(* gates, reviewers and tolerant fan-ins, and every budget.                *)
(* GraphRunnerAssumption is the only assumption.                           *)
(*                                                                         *)
(* Two sections are about rounds: how much a wave may overspend the node   *)
(* budget, and that the scheduler never ends with a node it could still    *)
(* have run.  Both rest on the visiting order of the scheduler being a     *)
(* strict total order of the nodes.  The last section shows that           *)
(* GraphRunner implements GraphPromise.                                    *)
(***************************************************************************)
EXTENDS GraphRunner, TLAPS, FiniteSetTheorems

-----------------------------------------------------------------------------
(* A closed run is frozen: no action of anyone writes under it.            *)

\* No step moves the state or a row of a run that is closed: the engine, the
\* promises of a worker that was given up and the reclaim all meet the fence.
THEOREM ClosedRunsStayClosed == Spec => ClosedRunsAreFrozen
<1>1. [Next]_vars => (run # "RUNNING" => UNCHANGED <<run, rows>>)
  <2> SUFFICES ASSUME [Next]_vars, run # "RUNNING" PROVE UNCHANGED <<run, rows>>
    OBVIOUS
  <2>1. CASE Engine
    BY <2>1 DEF Engine, HonourPause, StopForBudget, Round, Settle, Skip, Closes,
                Writable, Accepts, database
  <2>2. ASSUME NEW n \in Nodes, Promise(n) PROVE UNCHANGED <<run, rows>>
    BY <2>2 DEF Promise, Dispatch, Succeed, Fail, Save, CompleteReviewer, Complete, Hold,
                RecordFailure, OpenGate, CallFails, WriteRow, Writable, database
  <2>3. CASE Die
    BY <2>3 DEF Die, database
  <2>4. ~Reclaim /\ ~TogglePause
    BY DEF Reclaim, TogglePause
  <2>5. ASSUME NEW n \in Gated, DecideGate(n) PROVE UNCHANGED <<run, rows>>
    BY <2>5 DEF DecideGate
  <2>6. CASE UNCHANGED vars
    BY <2>6 DEF vars, database
  <2> QED BY <2>1, <2>2, <2>3, <2>4, <2>5, <2>6 DEF Next
<1> QED BY <1>1, PTL DEF Spec, ClosedRunsAreFrozen

-----------------------------------------------------------------------------
(* Type correctness.  A node that may start again has an attempt left:     *)
(* without that, its counter is not bounded by max_attempts.               *)

AttemptsLeft ==
    \A n \in Nodes :
        /\ st[n] = "PENDING" => attempts[n] < Attempts
        /\ task[n] = "again" => attempts[n] < Attempts

\* An engine that is closing the run has an outcome to close it with.
Concluded == pc = "close" => outcome # "NONE"

TypeInv == TypeOK /\ AttemptsLeft /\ Concluded

LEMMA NodesAreFinite == IsFiniteSet(Nodes)
<1>1. Order \in [1..Len(Order) -> Nodes]
  BY GraphRunnerAssumption
<1>2. Order \in Surjection(1..Len(Order), Nodes)
  BY <1>1 DEF Surjection, Nodes, Range
<1>3. IsFiniteSet(1..Len(Order))
  BY <1>1, GraphRunnerAssumption, FS_Interval
<1> QED BY <1>2, <1>3, FS_Surjection

LEMMA CountsAreNatural ==
    ASSUME NEW S \in SUBSET Nodes
    PROVE  Cardinality(S) \in Nat
BY NodesAreFinite, FS_Subset, FS_CardinalityType

\* Min and Max of two numbers are one of them.
LEMMA MinOfTwo ==
    ASSUME NEW x \in Int, NEW y \in Int
    PROVE  Min({x, y}) \in {x, y} /\ Min({x, y}) <= x
<1>1. \E z \in {x, y} : \A w \in {x, y} : z =< w
  <2>1. CASE x <= y BY <2>1
  <2>2. CASE y <= x BY <2>2
  <2> QED BY <2>1, <2>2
<1> QED BY <1>1 DEF Min

LEMMA MaxOfTwo ==
    ASSUME NEW x \in Int, NEW y \in Int
    PROVE  Max({x, y}) \in {x, y} /\ Max({x, y}) >= x
<1>1. \E z \in {x, y} : \A w \in {x, y} : z >= w
  <2>1. CASE x >= y BY <2>1
  <2>2. CASE y >= x BY <2>2
  <2> QED BY <2>1, <2>2
<1> QED BY <1>1 DEF Max

LEMMA NarrowedType ==
    ASSUME width \in 1..MaxConcurrent, NEW m
    PROVE  Narrowed(m) \in 1..MaxConcurrent
<1> DEFINE half == MaxConcurrent \div 2
           most == Max({1, half})
<1>1. half \in Int /\ MaxConcurrent \in Nat \ {0} /\ half <= MaxConcurrent
  BY GraphRunnerAssumption
<1>2. most \in {1, half} /\ most >= 1
  BY <1>1, MaxOfTwo
<1>3. most \in Int
  BY <1>1, <1>2
<1>4. Min({width, most}) \in {width, most} /\ Min({width, most}) <= width
  BY <1>3, MinOfTwo
<1>5. Min({width, most}) \in 1..MaxConcurrent
  BY <1>1, <1>2, <1>3, <1>4
<1> QED BY <1>5 DEF Narrowed

LEMMA InitType == Init => TypeInv
<1> SUFFICES ASSUME Init PROVE TypeOK /\ AttemptsLeft
  BY DEF TypeInv, Concluded, Init
<1>1. /\ run \in RunState /\ rows \in [Nodes -> RowState]
      /\ gate \in [Gated -> GateState] /\ claimed \in [Gated -> GateState]
      /\ paused \in BOOLEAN
  BY DEF Init, RunState, RowState
<1>2. /\ pc \in {"round", "wave", "close", "done", "stopped"} /\ outcome \in Outcome
      /\ st \in [Nodes -> NodeState] /\ task \in [Nodes -> Task]
      /\ delivered \subseteq Nodes /\ capacity \subseteq Nodes
  BY DEF Init, Outcome, NodeState, Task
<1>3. /\ attempts \in [Nodes -> 0..Attempts]
      /\ started \in Nat /\ retries \in Nat /\ width \in 1..MaxConcurrent
      /\ meter \in [{"duration", "tokens"} -> 0..2]
  BY GraphRunnerAssumption DEF Init
<1>4. AttemptsLeft
  BY GraphRunnerAssumption DEF Init, AttemptsLeft
<1> QED BY <1>1, <1>2, <1>3, <1>4 DEF TypeOK

LEMMA RoundType ==
    ASSUME TypeInv, Round
    PROVE  TypeInv'
<1>1. width' \in 1..MaxConcurrent
  BY NarrowedType DEF Round, TypeInv, TypeOK
<1>2. meter' \in [{"duration", "tokens"} -> 0..2]
  BY DEF Round, Readings
<1>3. UNCHANGED <<run, rows, gate, paused, claimed, retries, delivered, capacity>>
  BY DEF Round, database, worker
<1>4. /\ pc' \in {"round", "wave", "close", "done", "stopped"} /\ outcome' \in Outcome
      /\ Concluded'
  BY DEF Round, End, Judged, Outcome, TypeInv, TypeOK, Concluded
<1>5. CASE UNCHANGED <<st, attempts, started, task>>
  BY <1>1, <1>2, <1>3, <1>4, <1>5 DEF TypeInv, TypeOK, AttemptsLeft
<1>6. ASSUME NEW slots, StartWave(Start(slots)) PROVE TypeInv'
  <2> DEFINE wave == Start(slots)
  <2>1. wave \subseteq InState("PENDING")
    BY DEF Start
  <2>2. wave \in SUBSET Nodes
    BY <2>1 DEF InState
  <2>3. started' \in Nat
    <3>1. Cardinality(wave) \in Nat
      BY <2>2, CountsAreNatural
    <3> QED BY <1>6, <3>1 DEF StartWave, TypeInv, TypeOK
  <2>4. st' \in [Nodes -> NodeState]
    BY <1>6 DEF StartWave, TypeInv, TypeOK, NodeState
  <2>5. attempts' \in [Nodes -> 0..Attempts]
    <3> SUFFICES ASSUME NEW n \in Nodes PROVE attempts'[n] \in 0..Attempts
      BY <1>6 DEF StartWave
    <3>1. CASE n \in wave
      <4>1. attempts[n] < Attempts /\ attempts[n] \in 0..Attempts
        BY <2>1, <3>1 DEF InState, TypeInv, TypeOK, AttemptsLeft
      <4>2. attempts'[n] = attempts[n] + 1
        BY <1>6, <3>1 DEF StartWave
      <4> QED BY <4>1, <4>2, GraphRunnerAssumption
    <3>2. CASE n \notin wave
      BY <1>6, <3>2 DEF StartWave, TypeInv, TypeOK
    <3> QED BY <3>1, <3>2
  <2>6. task' \in [Nodes -> Task]
    BY <1>6 DEF StartWave, Task, Calling
  <2>7. AttemptsLeft'
    <3> SUFFICES ASSUME NEW n \in Nodes
                 PROVE  /\ st'[n] = "PENDING" => attempts'[n] < Attempts
                        /\ task'[n] # "again"
      BY DEF AttemptsLeft
    <3>1. task'[n] # "again"
      BY <1>6 DEF StartWave
    <3>2. ASSUME st'[n] = "PENDING" PROVE attempts'[n] < Attempts
      <4>1. n \notin wave /\ st[n] = "PENDING"
        BY <1>6, <3>2 DEF StartWave
      <4> QED BY <1>6, <4>1 DEF StartWave, TypeInv, AttemptsLeft
    <3> QED BY <3>1, <3>2
  <2> QED BY <1>1, <1>2, <1>3, <1>4, <2>3, <2>4, <2>5, <2>6, <2>7 DEF TypeInv, TypeOK
<1> QED BY <1>5, <1>6 DEF Round

LEMMA SettleType ==
    ASSUME TypeInv, Settle
    PROVE  TypeInv'
<1>1. UNCHANGED <<run, rows, gate, paused, claimed, outcome, attempts, started, width, meter,
                  delivered, capacity>>
  BY DEF Settle, database, worker
<1>2. task' \in [Nodes -> Task] /\ \A n \in Nodes : task'[n] = "idle"
  BY DEF Settle, Task
<1>3. retries' \in Nat
  <2>1. Cardinality({n \in Nodes : task[n] = "again"}) \in Nat
    BY CountsAreNatural
  <2> QED BY <2>1 DEF Settle, TypeInv, TypeOK
<1>4. \A n \in Nodes : st[n] = "RUNNING" => Decided(n) \in NodeState
  BY DEF Settle, InState, Decided, Returned, NodeState
<1>5. st' \in [Nodes -> NodeState]
  BY <1>4 DEF Settle, TypeInv, TypeOK
<1>6. AttemptsLeft'
  <2> SUFFICES ASSUME NEW n \in Nodes, st'[n] = "PENDING" PROVE attempts[n] < Attempts
    BY <1>1, <1>2 DEF AttemptsLeft
  <2>1. CASE st[n] = "RUNNING"
    <3>1. Decided(n) = "PENDING"
      BY <2>1 DEF Settle
    <3>2. task[n] \in Returned
      BY <2>1 DEF Settle, InState
    <3>3. task[n] = "again"
      BY <3>1, <3>2 DEF Decided, Returned
    <3> QED BY <3>3 DEF TypeInv, AttemptsLeft
  <2>2. CASE st[n] # "RUNNING"
    BY <2>2 DEF Settle, TypeInv, AttemptsLeft
  <2> QED BY <2>1, <2>2
<1>7. pc' \in {"round", "wave", "close", "done", "stopped"} /\ Concluded'
  BY DEF Settle, Concluded
<1> QED BY <1>1, <1>2, <1>3, <1>5, <1>6, <1>7 DEF TypeInv, TypeOK

LEMMA EngineType ==
    ASSUME TypeInv, Engine
    PROVE  TypeInv'
<1>1. CASE HonourPause
  BY <1>1 DEF HonourPause, End, TypeInv, TypeOK, AttemptsLeft, Concluded, Outcome,
              database, budget, worker
<1>2. CASE StopForBudget
  <2>1. meter' \in [{"duration", "tokens"} -> 0..2]
    BY <1>2 DEF StopForBudget, Readings
  <2> QED BY <1>2, <2>1
          DEF StopForBudget, End, TypeInv, TypeOK, AttemptsLeft, Concluded, Outcome,
              database, worker
<1>3. CASE Skip
  <2>1. rows' \in [Nodes -> RowState]
    BY <1>3 DEF Skip, TypeInv, TypeOK, RowState
  <2> QED BY <1>3, <2>1 DEF Skip, TypeInv, TypeOK, AttemptsLeft, Concluded, budget, worker
<1>4. CASE Closes
  <2>1. FinalState \in RunState
    <3>1. outcome \in Outcome \ {"NONE"}
      BY <1>4 DEF Closes, TypeInv, TypeOK, Concluded
    <3> QED BY <3>1 DEF FinalState, Outcome, RunState
  <2> QED BY <1>4, <2>1 DEF Closes, TypeInv, TypeOK, AttemptsLeft, Concluded, budget, worker
<1> QED BY <1>1, <1>2, <1>3, <1>4, RoundType, SettleType DEF Engine

LEMMA PromiseType ==
    ASSUME TypeInv, NEW n \in Nodes, Promise(n)
    PROVE  TypeInv'
<1>1. /\ UNCHANGED <<run, paused, claimed, outcome, st, attempts, started, retries, width, meter>>
      /\ pc' \in {pc, "stopped"}
  BY DEF Promise, Dispatch, Succeed, Fail, Save, CompleteReviewer, Complete, Hold, RecordFailure,
         OpenGate, CallFails, WriteRow, Answered, Throw, database, engine, budget
<1>2. rows' \in [Nodes -> RowState]
  BY DEF Promise, Dispatch, Succeed, Fail, Save, CompleteReviewer, Complete, Hold, RecordFailure,
         OpenGate, CallFails, WriteRow, database, TypeInv, TypeOK, RowState
<1>3. gate' \in [Gated -> GateState]
  BY DEF Promise, Dispatch, Succeed, Fail, Save, CompleteReviewer, Complete, Hold, RecordFailure,
         OpenGate, CallFails, WriteRow, database, TypeInv, TypeOK, GateState
<1>4. delivered' \subseteq Nodes /\ capacity' \subseteq Nodes
  BY DEF Promise, Dispatch, Succeed, Fail, Save, CompleteReviewer, Complete, Hold, RecordFailure,
         OpenGate, CallFails, WriteRow, worker, TypeInv, TypeOK
<1>5. \E to \in Task : /\ task' = [task EXCEPT ![n] = to]
                       /\ to = "again" => attempts[n] < Attempts
  <2>1. AfterSave(n) \in {"saved", "fail", "hold"}
    BY DEF AfterSave
  <2>2. {"idle", "run", "again", "fail", "good", "ok", "opening", "failed", "held"} \cup
        {AfterSave(n)} \subseteq Task
    BY <2>1 DEF Task, Calling, Returned
  <2> QED BY <2>1, <2>2
          DEF Promise, Dispatch, Succeed, Fail, Save, CompleteReviewer, Complete, Hold,
              RecordFailure, OpenGate, CallFails, WriteRow, Answered, Throw
<1>6. task' \in [Nodes -> Task] /\ AttemptsLeft'
  <2>1. PICK to \in Task : /\ task' = [task EXCEPT ![n] = to]
                           /\ to = "again" => attempts[n] < Attempts
    BY <1>5
  <2>2. task \in [Nodes -> Task]
    BY DEF TypeInv, TypeOK
  <2>3. task' = [task EXCEPT ![n] = to]
    BY <2>1
  <2>4. task' \in [Nodes -> Task] /\ task'[n] = to /\ \A m \in Nodes \ {n} : task'[m] = task[m]
    BY <2>2, <2>3
  <2>5. \A m \in Nodes : st[m] = "PENDING" => attempts[m] < Attempts
    BY DEF TypeInv, AttemptsLeft
  <2>6. \A m \in Nodes : task'[m] = "again" => attempts[m] < Attempts
    BY <2>1, <2>4 DEF TypeInv, AttemptsLeft
  <2> QED BY <1>1, <2>4, <2>5, <2>6 DEF AttemptsLeft
<1>7. Concluded'
  BY <1>1 DEF TypeInv, Concluded
<1> QED BY <1>1, <1>2, <1>3, <1>4, <1>6, <1>7 DEF TypeInv, TypeOK

LEMMA TypeInvStays ==
    ASSUME TypeInv, [Next]_vars
    PROVE  TypeInv'
<1>1. CASE Die
  <2>1. task' \in [Nodes -> Task] /\ \A n \in Nodes : task'[n] = "idle"
    BY <1>1 DEF Die, Task
  <2> QED BY <1>1, <2>1 DEF Die, TypeInv, TypeOK, AttemptsLeft, Concluded,
                              database, budget, worker
<1>2. CASE Reclaim
  <2>1. rows' \in [Nodes -> RowState] /\ run' \in RunState
    BY <1>2 DEF Reclaim, TypeInv, TypeOK, RowState, RunState
  <2> QED BY <1>2, <2>1 DEF Reclaim, TypeInv, TypeOK, AttemptsLeft, Concluded,
                              engine, budget, worker
<1>3. ASSUME NEW n \in Gated, DecideGate(n) PROVE TypeInv'
  <2>1. gate' \in [Gated -> GateState]
    BY <1>3 DEF DecideGate, TypeInv, TypeOK, GateState
  <2> QED BY <1>3, <2>1 DEF DecideGate, TypeInv, TypeOK, AttemptsLeft, Concluded,
                              engine, budget, worker
<1>4. CASE TogglePause
  BY <1>4 DEF TogglePause, TypeInv, TypeOK, AttemptsLeft, Concluded,
                              engine, budget, worker
<1>5. CASE UNCHANGED vars
  BY <1>5 DEF vars, database, engine, budget, worker, TypeInv, TypeOK, AttemptsLeft, Concluded
<1> QED BY <1>1, <1>2, <1>3, <1>4, <1>5, EngineType, PromiseType DEF Next

\* No node is started more often than max_attempts, the engine, its promises
\* and the rows only ever hold the states the code knows, and the width of a
\* wave stays between one and the graph's limit.
THEOREM TypeCorrect == Spec => []TypeOK
<1>1. TypeInv => TypeOK
  BY DEF TypeInv
<1> QED BY <1>1, InitType, TypeInvStays, PTL DEF Spec

-----------------------------------------------------------------------------
(* Gates.  A gated node that was not approved at the claim is never        *)
(* completed: not by the engine, not by a promise that is about to.  So    *)
(* none of its dependents is ever ready.                                   *)

Withheld(n) ==
    /\ rows[n] # "COMPLETED"
    /\ st[n] # "COMPLETED"
    /\ task[n] \notin {"saved", "ok"}

\* The nodes that need n to complete before they start.
DependsOn(m, n) == n \in Deps[m] /\ ~FansIn(m)

GateInv ==
    \A n \in Gated : claimed[n] # "APPROVED" =>
        Withheld(n) /\ \A m \in Nodes : DependsOn(m, n) => attempts[m] = 0

LEMMA GatedNodes == Gated \subseteq Nodes /\ Gated \cap Reviewers = {}
BY GraphRunnerAssumption

LEMMA StartedIsReady ==
    ASSUME NEW slots, NEW m \in Start(slots)
    PROVE  m \in InState("PENDING") /\ Ready(m)
BY DEF Start

LEMMA RoundKeepsGates ==
    ASSUME TypeOK, GateInv, Round
    PROVE  GateInv'
<1>1. UNCHANGED <<rows, claimed>>
  BY DEF Round, database
<1> SUFFICES ASSUME NEW n \in Gated, claimed[n] # "APPROVED"
             PROVE  Withheld(n)' /\ \A m \in Nodes : DependsOn(m, n)' => attempts'[m] = 0
  BY <1>1 DEF GateInv
<1>2. n \in Nodes /\ Withheld(n) /\ \A m \in Nodes : DependsOn(m, n) => attempts[m] = 0
  BY GatedNodes DEF GateInv
<1>3. CASE UNCHANGED <<st, attempts, started, task>>
  BY <1>1, <1>2, <1>3 DEF Withheld, DependsOn, FansIn
<1>4. ASSUME NEW slots, StartWave(Start(slots))
      PROVE  Withheld(n)' /\ \A m \in Nodes : DependsOn(m, n)' => attempts'[m] = 0
  <2>1. st'[n] # "COMPLETED" /\ task'[n] \notin {"saved", "ok"}
    BY <1>2, <1>4 DEF StartWave, Withheld
  <2>2. ASSUME NEW m \in Nodes, DependsOn(m, n) PROVE attempts'[m] = 0
    <3>1. attempts[m] = 0
      BY <1>2, <2>2
    <3>2. m \notin Start(slots)
      <4>1. ~Ready(m)
        BY <1>2, <2>2 DEF Ready, DependsOn, InState, Withheld
      <4> QED BY <4>1, StartedIsReady
    <3> QED BY <1>4, <3>1, <3>2 DEF StartWave
  <2> QED BY <1>1, <1>2, <2>1, <2>2 DEF Withheld, DependsOn, FansIn
<1> QED BY <1>3, <1>4 DEF Round

LEMMA SettleKeepsGates ==
    ASSUME TypeOK, GateInv, Settle
    PROVE  GateInv'
<1>1. UNCHANGED <<rows, claimed, attempts>>
  BY DEF Settle, database
<1>2. ASSUME NEW n \in Gated, Withheld(n) PROVE Withheld(n)'
  <2>1. n \in Nodes /\ task'[n] = "idle"
    BY GatedNodes DEF Settle
  <2>2. st'[n] # "COMPLETED"
    BY <1>2, <2>1 DEF Settle, Decided, Withheld
  <2> QED BY <1>1, <1>2, <2>1, <2>2 DEF Withheld
<1> QED BY <1>1, <1>2 DEF GateInv, DependsOn, FansIn

LEMMA PromiseKeepsGates ==
    ASSUME TypeOK, GateInv, NEW x \in Nodes, Promise(x)
    PROVE  GateInv'
<1>1. UNCHANGED <<claimed, st, attempts>>
  BY DEF Promise, Dispatch, Succeed, Fail, Save, CompleteReviewer, Complete, Hold, RecordFailure,
         OpenGate, CallFails, WriteRow, engine
<1>2. ASSUME NEW n \in Gated, claimed[n] # "APPROVED", Withheld(n) PROVE Withheld(n)'
  <2>1. n \in Nodes /\ n \notin Reviewers
    BY GatedNodes
  <2>2. rows \in [Nodes -> RowState] /\ task \in [Nodes -> Task]
    BY DEF TypeOK
  <2>3. CASE x # n
    <3>1. rows'[n] = rows[n] /\ task'[n] = task[n]
      BY <2>1, <2>2, <2>3
         DEF Promise, Dispatch, Succeed, Fail, Save, CompleteReviewer, Complete, Hold,
             RecordFailure, OpenGate, CallFails, WriteRow, Answered, Throw, database
    <3> QED BY <1>1, <1>2, <3>1 DEF Withheld
  <2>4. CASE x = n
    <3>1. ~CompleteReviewer(n) /\ ~Complete(n)
      BY <1>2, <2>1 DEF CompleteReviewer, Complete, Withheld
    <3>2. AfterSave(n) \in {"fail", "hold"}
      BY <1>2 DEF AfterSave, AwaitsGate
    <3>3. rows'[n] # "COMPLETED"
      BY <1>2, <2>1, <2>2, <2>4, <3>1
         DEF Promise, Dispatch, Succeed, Fail, Save, Hold, RecordFailure, OpenGate, CallFails,
             WriteRow, database, Withheld
    <3>4. task'[n] \notin {"saved", "ok"}
      BY <1>2, <2>1, <2>2, <2>4, <3>1, <3>2
         DEF Promise, Dispatch, Succeed, Fail, Save, Hold, RecordFailure, OpenGate, CallFails,
             WriteRow, Answered, Throw, Withheld
    <3> QED BY <1>1, <1>2, <3>3, <3>4 DEF Withheld
  <2> QED BY <2>3, <2>4
<1> QED BY <1>1, <1>2 DEF GateInv, DependsOn, FansIn

LEMMA GatesAreHeld == Spec => []GateInv
<1>1. Init => GateInv
  BY GatedNodes DEF Init, GateInv, Withheld
<1>2. TypeOK /\ GateInv /\ [Next]_vars => GateInv'
  <2> SUFFICES ASSUME TypeOK, GateInv, [Next]_vars PROVE GateInv'
    OBVIOUS
  <2>1. CASE HonourPause \/ StopForBudget \/ Closes \/ TogglePause
             \/ (\E n \in Gated : DecideGate(n)) \/ UNCHANGED vars
    <3>1. UNCHANGED <<rows, claimed, st, attempts, task>>
      BY <2>1 DEF HonourPause, StopForBudget, Closes, TogglePause, DecideGate,
                  vars, database, engine
    <3> QED BY <3>1 DEF GateInv, Withheld, DependsOn, FansIn
  <2>2. CASE Skip \/ Reclaim \/ Die
    <3>1. UNCHANGED <<claimed, st, attempts>>
      BY <2>2 DEF Skip, Reclaim, Die, engine
    <3>2. \A n \in Nodes : /\ rows'[n] \in {rows[n], "SKIPPED", "CANCELLED"}
                           /\ task'[n] \in {task[n], "idle"}
      BY <2>2 DEF Skip, Reclaim, Die, database, TypeOK
    <3>3. \A n \in Gated : Withheld(n) => Withheld(n)'
      BY <3>1, <3>2, GatedNodes DEF Withheld
    <3> QED BY <3>1, <3>3 DEF GateInv, DependsOn, FansIn
  <2> QED BY <2>1, <2>2, RoundKeepsGates, SettleKeepsGates, PromiseKeepsGates DEF Next, Engine
<1> QED BY <1>1, <1>2, TypeCorrect, PTL DEF Spec

\* A gated node completes only in a run that was claimed after its approval,
\* whatever is decided while the run is under way: until then none of the
\* nodes that need it makes a single attempt.
THEOREM GatesAreKept == Spec => []GatesHoldTheRun
<1>1. GateInv => GatesHoldTheRun
  BY DEF GateInv, GatesHoldTheRun, Withheld, DependsOn
<1> QED BY <1>1, GatesAreHeld, PTL

-----------------------------------------------------------------------------
(* The close accounts for every node.                                      *)

\* Whoever closes a run, its worker or a reclaim, no node of it is left to
\* run, a COMPLETED run is complete, and only a PARTIAL one leaves a node
\* waiting at a gate.
THEOREM EveryNodeIsAccountedFor == Spec => []ClosedRunsAccount
<1>1. Init => ClosedRunsAccount
  BY DEF Init, ClosedRunsAccount
<1>2. TypeOK /\ ClosedRunsAccount /\ [Next]_vars => ClosedRunsAccount'
  <2> SUFFICES ASSUME TypeOK, ClosedRunsAccount, [Next]_vars PROVE ClosedRunsAccount'
    OBVIOUS
  <2>1. CASE Closes
    <3>1. Accepts(run', ~Whole) /\ UNCHANGED <<rows, gate>>
      BY <2>1 DEF Closes
    <3>2. run' = "COMPLETED" => RowsIn({"COMPLETED"}) = Nodes
      BY <3>1 DEF Accepts
    <3> QED BY <3>1, <3>2 DEF Accepts, ClosedRunsAccount, RowsIn
  <2>2. CASE Reclaim
    <3>1. run' = "FAILED"
      BY <2>2 DEF Reclaim
    <3>2. \A n \in Nodes : rows'[n] \notin {"PENDING", "RUNNING", "VERIFYING"}
      BY <2>2 DEF Reclaim
    <3> QED BY <3>1, <3>2 DEF ClosedRunsAccount, RowsIn
  <2>3. CASE \E n \in Gated : DecideGate(n)
    <3>1. UNCHANGED <<run, rows>>
      BY <2>3 DEF DecideGate
    <3>2. \A n \in Gated : gate'[n] \in {gate[n], "APPROVED", "REJECTED"}
      BY <2>3 DEF DecideGate, TypeOK
    <3>3. \A n \in RowsIn({"VERIFYING"}) : run # "RUNNING" => n \in Gated
      BY DEF ClosedRunsAccount
    <3> QED BY <3>1, <3>2, <3>3 DEF ClosedRunsAccount, RowsIn
  <2>4. CASE UNCHANGED <<run, rows, gate>>
    BY <2>4 DEF ClosedRunsAccount, RowsIn
  <2>5. CASE run' = "RUNNING"
    BY <2>5 DEF ClosedRunsAccount
  <2>6. ASSUME Next, ~Closes, ~Reclaim, ~(\E n \in Gated : DecideGate(n))
        PROVE  UNCHANGED <<run, rows, gate>> \/ run' = "RUNNING"
    <3>1. CASE Engine
      BY <2>6, <3>1 DEF Engine, HonourPause, StopForBudget, Round, Settle, Skip, Writable, database
    <3>2. ASSUME NEW n \in Nodes, Promise(n) PROVE UNCHANGED <<run, rows, gate>> \/ run' = "RUNNING"
      BY <3>2 DEF Promise, Dispatch, Succeed, Fail, Save, CompleteReviewer, Complete, Hold,
                  RecordFailure, OpenGate, CallFails, WriteRow, Writable, database
    <3> QED BY <2>6, <3>1, <3>2 DEF Next, Die, TogglePause, database
  <2> QED BY <2>1, <2>2, <2>3, <2>4, <2>5, <2>6 DEF vars, database
<1> QED BY <1>1, <1>2, TypeCorrect, PTL DEF Spec

-----------------------------------------------------------------------------
(* Work on record.  What the engine has completed is a COMPLETED row, and  *)
(* stays one; what a node waited for is never undone.                      *)

Completions ==
    \A n \in Nodes : st[n] = "COMPLETED" \/ task[n] = "ok" => rows[n] = "COMPLETED"

\* A node that has been started has what it waited for, in the engine's states.
Served(n) ==
    IF FansIn(n)
    THEN Deps[n] \cap InState("COMPLETED") # {} /\ Deps[n] \subseteq Settled
    ELSE Deps[n] \subseteq InState("COMPLETED")

WorkInv == Completions /\ \A n \in Nodes : attempts[n] > 0 => Served(n)

\* The engine never takes back that a node has settled.
SettledStay ==
    /\ InState("COMPLETED") \subseteq InState("COMPLETED")'
    /\ Settled \subseteq Settled'

LEMMA ServedStays ==
    ASSUME SettledStay, NEW n \in Nodes, Served(n)
    PROVE  Served(n)'
BY DEF SettledStay, Served, FansIn

LEMMA RoundKeepsWork ==
    ASSUME TypeOK, WorkInv, Round
    PROVE  WorkInv' /\ SettledStay
<1>1. rows' = rows
  BY DEF Round, database
<1>2. CASE UNCHANGED <<st, attempts, started, task>>
  BY <1>1, <1>2 DEF WorkInv, Completions, Served, FansIn, InState, Settled, SettledStay
<1>3. ASSUME NEW slots, StartWave(Start(slots)) PROVE WorkInv' /\ SettledStay
  <2>1. \A n \in Nodes : st'[n] = IF n \in Start(slots) THEN "RUNNING"
                                  ELSE IF n \in Blocked THEN "BLOCKED" ELSE st[n]
    BY <1>3 DEF StartWave
  <2>2. Start(slots) \subseteq InState("PENDING") /\ Blocked \subseteq InState("PENDING")
    BY StartedIsReady DEF Blocked
  <2>3. \A n \in Nodes : st[n] # "PENDING" => st'[n] = st[n]
    BY <2>1, <2>2 DEF InState
  <2>4. SettledStay
    BY <2>3 DEF SettledStay, Settled, InState
  <2>5. Completions'
    <3>1. \A n \in Nodes : task'[n] # "ok"
      BY <1>3 DEF StartWave
    <3>2. \A n \in Nodes : st'[n] = "COMPLETED" => st[n] = "COMPLETED"
      BY <2>1
    <3> QED BY <1>1, <3>1, <3>2 DEF Completions, WorkInv
  <2>6. ASSUME NEW n \in Nodes, attempts'[n] > 0 PROVE Served(n)'
    <3>1. CASE n \in Start(slots)
      <4>1. Ready(n)
        BY <3>1, StartedIsReady
      <4>2. Served(n)
        BY <4>1 DEF Ready, Served
      <4> QED BY <2>4, <4>2, ServedStays
    <3>2. CASE n \notin Start(slots)
      <4>1. attempts'[n] = attempts[n]
        BY <1>3, <3>2 DEF StartWave
      <4> QED BY <2>4, <2>6, <4>1, ServedStays DEF WorkInv
    <3> QED BY <3>1, <3>2
  <2> QED BY <2>4, <2>5, <2>6 DEF WorkInv
<1> QED BY <1>2, <1>3 DEF Round

LEMMA SettleKeepsWork ==
    ASSUME TypeOK, WorkInv, Settle
    PROVE  WorkInv' /\ SettledStay
<1>1. UNCHANGED <<rows, attempts>>
  BY DEF Settle, database
<1>2. \A n \in Nodes : st'[n] = IF st[n] = "RUNNING" THEN Decided(n) ELSE st[n]
  BY DEF Settle
<1>3. SettledStay
  BY <1>2 DEF SettledStay, Settled, InState
<1>4. Completions'
  <2>1. \A n \in Nodes : task'[n] # "ok"
    BY DEF Settle
  <2>2. \A n \in Nodes : st'[n] = "COMPLETED" => st[n] = "COMPLETED" \/ task[n] = "ok"
    BY <1>2 DEF Decided
  <2> QED BY <1>1, <2>1, <2>2 DEF Completions, WorkInv
<1> QED BY <1>1, <1>3, <1>4, ServedStays DEF WorkInv

LEMMA PromiseKeepsWork ==
    ASSUME TypeOK, WorkInv, NEW x \in Nodes, Promise(x)
    PROVE  WorkInv'
<1>1. UNCHANGED <<st, attempts>>
  BY DEF Promise, Dispatch, Succeed, Fail, Save, CompleteReviewer, Complete, Hold, RecordFailure,
         OpenGate, CallFails, WriteRow, engine
<1>2. rows \in [Nodes -> RowState] /\ task \in [Nodes -> Task]
  BY DEF TypeOK
<1>3. ASSUME NEW n \in Nodes, rows[n] = "COMPLETED" PROVE rows'[n] = "COMPLETED"
  BY <1>2, <1>3
     DEF Promise, Dispatch, Succeed, Fail, Save, CompleteReviewer, Complete, Hold, RecordFailure,
         OpenGate, CallFails, WriteRow, Writable, database
<1>4. ASSUME NEW n \in Nodes, task'[n] = "ok", task[n] # "ok" PROVE rows'[n] = "COMPLETED"
  <2>1. AfterSave(x) # "ok"
    BY DEF AfterSave
  <2> QED BY <1>2, <1>4, <2>1
          DEF Promise, Dispatch, Succeed, Fail, Save, CompleteReviewer, Complete, Hold,
              RecordFailure, OpenGate, CallFails, WriteRow, Answered, Throw
<1>5. Completions'
  BY <1>1, <1>3, <1>4 DEF WorkInv, Completions
<1> QED BY <1>1, <1>5 DEF WorkInv, Served, FansIn, InState, Settled

LEMMA WorkIsOnRecord == Spec => []WorkInv
<1>1. Init => WorkInv
  BY DEF Init, WorkInv, Completions
<1>2. TypeOK /\ WorkInv /\ [Next]_vars => WorkInv'
  <2> SUFFICES ASSUME TypeOK, WorkInv, [Next]_vars PROVE WorkInv'
    OBVIOUS
  <2>1. CASE HonourPause \/ StopForBudget \/ Closes \/ TogglePause
             \/ (\E n \in Gated : DecideGate(n)) \/ UNCHANGED vars
    <3>1. UNCHANGED <<rows, st, attempts, task>>
      BY <2>1 DEF HonourPause, StopForBudget, Closes, TogglePause, DecideGate,
                  vars, database, engine
    <3> QED BY <3>1 DEF WorkInv, Completions, Served, FansIn, InState, Settled
  <2>2. CASE Skip \/ Reclaim \/ Die
    <3>1. UNCHANGED <<st, attempts>>
      BY <2>2 DEF Skip, Reclaim, Die, engine
    <3>2. \A n \in Nodes : /\ rows[n] = "COMPLETED" => rows'[n] = "COMPLETED"
                           /\ task'[n] \in {task[n], "idle"}
      BY <2>2 DEF Skip, Reclaim, Die, Writable, database, TypeOK
    <3>3. Completions'
      BY <3>1, <3>2 DEF WorkInv, Completions
    <3> QED BY <3>1, <3>3 DEF WorkInv, Served, FansIn, InState, Settled
  <2> QED BY <2>1, <2>2, RoundKeepsWork, SettleKeepsWork, PromiseKeepsWork DEF Next, Engine
<1> QED BY <1>1, <1>2, TypeCorrect, PTL DEF Spec

\* No attempt of a node, not even one that follows lost answers, retries or
\* refused artifacts, runs on work that is not a COMPLETED row of the database.
THEOREM WorkRunsOnRecord == Spec => []DependentsRunOnRecordedWork
<1>1. TypeOK /\ WorkInv => DependentsRunOnRecordedWork
  <2> SUFFICES ASSUME TypeOK, WorkInv, NEW n \in Nodes, attempts[n] > 0
               PROVE  IF FansIn(n)
                      THEN /\ Deps[n] \cap RowsIn({"COMPLETED"}) # {}
                           /\ Deps[n] \subseteq Settled
                      ELSE Deps[n] \subseteq RowsIn({"COMPLETED"})
    BY DEF DependentsRunOnRecordedWork
  <2>1. InState("COMPLETED") \subseteq RowsIn({"COMPLETED"})
    BY DEF WorkInv, Completions, InState, RowsIn
  <2> QED BY <2>1 DEF WorkInv, Served
<1> QED BY <1>1, WorkIsOnRecord, TypeCorrect, PTL

-----------------------------------------------------------------------------
(* Engine and database.  EngineAgreesWithRows speaks of the rounds; it is  *)
(* inductive once it also says, for a wave, what the row of a node holds   *)
(* at every point its promise can be at.                                   *)

\* The row of a node whose promise is under way.
RowOfPromise(n) ==
    /\ attempts[n] > 0
    /\ task[n] # "idle"
    /\ task[n] = "start" => rows[n] = IF attempts[n] = 1 THEN "PENDING" ELSE "RUNNING"
    /\ task[n] \in {"run", "good", "saved", "hold", "fail", "again"} => rows[n] = "RUNNING"
    /\ task[n] \in {"opening", "held"} => rows[n] = "VERIFYING"
    /\ task[n] = "failed" => rows[n] = "FAILED"
    /\ task[n] = "ok" => rows[n] = "COMPLETED"

SkippedAtClose(n) == pc = "close" /\ rows[n] = "SKIPPED" /\ st[n] \in {"PENDING", "BLOCKED"}

AgreesAt(n) ==
    IF st[n] = "RUNNING"
    THEN pc = "wave" /\ RowOfPromise(n)
    ELSE task[n] = "idle" /\ (OnRecord(n) \/ SkippedAtClose(n))

AgreeInv == run = "RUNNING" /\ pc # "stopped" => \A n \in Nodes : AgreesAt(n)

LEMMA StartedAreNotDoomed ==
    ASSUME NEW n \in Nodes, Served(n)
    PROVE  ~Doomed(n)
BY DEF Served, Doomed, InState, Settled

LEMMA RoundKeepsAgreement ==
    ASSUME TypeOK, WorkInv, AgreeInv, Round
    PROVE  AgreeInv'
<1> SUFFICES ASSUME run = "RUNNING", NEW n \in Nodes PROVE AgreesAt(n)'
  BY DEF AgreeInv, Round, database
<1>1. UNCHANGED rows /\ pc = "round"
  BY DEF Round, database
<1>2. AgreesAt(n)
  BY <1>1 DEF AgreeInv
<1>3. st[n] # "RUNNING" /\ task[n] = "idle" /\ OnRecord(n)
  BY <1>1, <1>2 DEF AgreesAt, SkippedAtClose
<1>4. CASE UNCHANGED <<st, attempts, started, task>>
  BY <1>1, <1>3, <1>4 DEF AgreesAt, OnRecord
<1>5. ASSUME NEW slots, StartWave(Start(slots)),
             pc' = IF Start(slots) = {} THEN "round" ELSE "wave"
      PROVE  AgreesAt(n)'
  <2>1. CASE n \in Start(slots)
    <3>1. st[n] = "PENDING"
      BY <2>1, StartedIsReady DEF InState
    <3>2. pc' = "wave" /\ st'[n] = "RUNNING" /\ task'[n] = "start" /\ attempts'[n] = attempts[n] + 1
      BY <1>5, <2>1 DEF StartWave
    <3>3. attempts[n] \in Nat
      BY DEF TypeOK
    <3>4. rows[n] = IF attempts[n] = 0 THEN "PENDING" ELSE "RUNNING"
      BY <1>3, <3>1 DEF OnRecord
    <3>5. /\ attempts'[n] > 0
          /\ rows[n] = IF attempts'[n] = 1 THEN "PENDING" ELSE "RUNNING"
      BY <3>2, <3>3, <3>4
    <3> QED BY <1>1, <3>2, <3>5 DEF AgreesAt, RowOfPromise
  <2>2. CASE n \notin Start(slots) /\ n \in Blocked
    <3>1. st[n] = "PENDING" /\ Doomed(n)
      BY <2>2 DEF Blocked, InState
    <3>2. attempts[n] = 0
      BY <3>1, StartedAreNotDoomed DEF WorkInv, TypeOK
    <3>3. rows[n] = "PENDING"
      BY <1>3, <3>1, <3>2 DEF OnRecord
    <3>4. st'[n] = "BLOCKED" /\ task'[n] = "idle"
      BY <1>5, <2>2 DEF StartWave
    <3> QED BY <1>1, <3>3, <3>4 DEF AgreesAt, OnRecord
  <2>3. CASE n \notin Start(slots) /\ n \notin Blocked
    <3>1. st'[n] = st[n] /\ task'[n] = "idle" /\ attempts'[n] = attempts[n]
      BY <1>5, <2>3 DEF StartWave
    <3> QED BY <1>1, <1>3, <3>1 DEF AgreesAt, OnRecord
  <2> QED BY <2>1, <2>2, <2>3
<1> QED BY <1>4, <1>5 DEF Round

LEMMA SettleKeepsAgreement ==
    ASSUME TypeOK, AgreeInv, Settle
    PROVE  AgreeInv'
<1> SUFFICES ASSUME run = "RUNNING", NEW n \in Nodes PROVE AgreesAt(n)'
  BY DEF AgreeInv, Settle, database
<1>1. UNCHANGED <<rows, attempts>> /\ pc = "wave" /\ task'[n] = "idle" /\ pc' = "round"
  BY DEF Settle, database
<1>2. AgreesAt(n) /\ st'[n] = IF st[n] = "RUNNING" THEN Decided(n) ELSE st[n]
  BY <1>1 DEF AgreeInv, Settle
<1>3. CASE st[n] # "RUNNING"
  BY <1>1, <1>2, <1>3 DEF AgreesAt, OnRecord, SkippedAtClose
<1>4. CASE st[n] = "RUNNING"
  <2>1. RowOfPromise(n) /\ task[n] \in Returned /\ st'[n] = Decided(n)
    BY <1>2, <1>4 DEF AgreesAt, Settle, InState
  <2>2. attempts[n] \in Nat
    BY DEF TypeOK
  <2>3. CASE task[n] = "ok"
    BY <1>1, <2>1, <2>3 DEF AgreesAt, OnRecord, RowOfPromise, Decided
  <2>4. CASE task[n] = "again"
    BY <1>1, <2>1, <2>2, <2>4 DEF AgreesAt, OnRecord, RowOfPromise, Decided
  <2>5. CASE task[n] \in {"failed", "held"}
    BY <1>1, <2>1, <2>5 DEF AgreesAt, OnRecord, RowOfPromise, Decided
  <2> QED BY <2>1, <2>3, <2>4, <2>5 DEF Returned
<1> QED BY <1>3, <1>4

LEMMA PromiseKeepsAgreement ==
    ASSUME TypeOK, AgreeInv, NEW x \in Nodes, Promise(x)
    PROVE  AgreeInv'
<1>1. UNCHANGED <<run, st, attempts>> /\ pc' \in {pc, "stopped"} /\ task[x] # "idle"
  BY DEF Promise, Dispatch, Succeed, Fail, Save, CompleteReviewer, Complete, Hold, RecordFailure,
         OpenGate, CallFails, Calling, WriteRow, Answered, Throw, database, engine
<1> SUFFICES ASSUME run = "RUNNING", pc' # "stopped", NEW n \in Nodes PROVE AgreesAt(n)'
  BY <1>1 DEF AgreeInv
<1>2. pc' = pc /\ pc # "stopped"
  BY <1>1
<1>3. AgreesAt(n) /\ AgreesAt(x)
  BY <1>2 DEF AgreeInv
<1>4. rows \in [Nodes -> RowState] /\ task \in [Nodes -> Task]
  BY DEF TypeOK
<1>5. CASE n # x
  <2>1. rows'[n] = rows[n] /\ task'[n] = task[n]
    BY <1>4, <1>5
       DEF Promise, Dispatch, Succeed, Fail, Save, CompleteReviewer, Complete, Hold,
           RecordFailure, OpenGate, CallFails, WriteRow, Answered, Throw, database
  <2> QED BY <1>1, <1>2, <1>3, <2>1 DEF AgreesAt, RowOfPromise, OnRecord, SkippedAtClose
<1>6. CASE n = x
  <2>1. st[n] = "RUNNING" /\ pc = "wave" /\ RowOfPromise(n)
    BY <1>1, <1>3, <1>6 DEF AgreesAt
  <2>2. AfterSave(n) \in {"saved", "fail", "hold"}
    BY DEF AfterSave
  <2>3. RowOfPromise(n)'
    <3>1. CASE Dispatch(n) \/ CompleteReviewer(n) \/ Complete(n) \/ Hold(n) \/ RecordFailure(n)
      BY <1>1, <1>2, <1>4, <2>1, <3>1
         DEF Dispatch, CompleteReviewer, Complete, Hold, RecordFailure, WriteRow, Answered, Throw,
             RowOfPromise
    <3>2. CASE Succeed(n) \/ Fail(n)
      BY <1>1, <1>4, <2>1, <3>2 DEF Succeed, Fail, database, RowOfPromise
    <3>3. CASE Save(n)
      BY <1>1, <1>2, <1>4, <2>1, <2>2, <3>3 DEF Save, Answered, Throw, database, RowOfPromise
    <3>4. CASE OpenGate(n)
      BY <1>1, <1>2, <1>4, <2>1, <3>4 DEF OpenGate, Answered, Throw, RowOfPromise
    <3>5. ~CallFails(n)
      BY <1>2 DEF CallFails, Throw
    <3> QED BY <1>6, <3>1, <3>2, <3>3, <3>4, <3>5 DEF Promise
  <2> QED BY <1>1, <1>2, <2>1, <2>3 DEF AgreesAt
<1> QED BY <1>5, <1>6

LEMMA FinalStateCloses ==
    ASSUME TypeInv, pc = "close"
    PROVE  FinalState # "RUNNING"
<1>1. outcome \in Outcome \ {"NONE"}
  BY DEF TypeInv, TypeOK, Concluded
<1> QED BY <1>1 DEF FinalState, Outcome

LEMMA TypeInvHolds == Spec => []TypeInv
BY InitType, TypeInvStays, PTL DEF Spec

LEMMA AgreementHolds == Spec => []AgreeInv
<1>1. Init => AgreeInv
  BY DEF Init, AgreeInv, AgreesAt, OnRecord
<1>2. TypeInv /\ WorkInv /\ AgreeInv /\ [Next]_vars => AgreeInv'
  <2> SUFFICES ASSUME TypeInv, TypeOK, WorkInv, AgreeInv, [Next]_vars PROVE AgreeInv'
    BY DEF TypeInv
  <2>1. CASE HonourPause \/ StopForBudget
    <3>1. UNCHANGED <<run, rows, st, attempts, task>> /\ pc = "round" /\ pc' = "close"
      BY <2>1 DEF HonourPause, StopForBudget, End, database
    <3> QED BY <3>1 DEF AgreeInv, AgreesAt, OnRecord, SkippedAtClose
  <2>2. CASE Skip
    <3>1. UNCHANGED <<run, st, attempts, task>> /\ pc = "close" /\ pc' \in {"close", "stopped"}
      BY <2>2 DEF Skip
    <3>2. \A n \in Nodes : rows'[n] = rows[n] \/ (n \in ToSkip /\ rows'[n] = "SKIPPED")
      <4>1. PICK m \in ToSkip : rows' = [rows EXCEPT ![m] = "SKIPPED"]
        BY <2>2 DEF Skip
      <4>2. rows \in [Nodes -> RowState]
        BY DEF TypeOK
      <4> QED BY <4>1, <4>2
    <3>3. ASSUME run = "RUNNING", pc' # "stopped", NEW n \in Nodes PROVE AgreesAt(n)'
      <4>1. AgreesAt(n) /\ pc' = "close"
        BY <3>1, <3>3 DEF AgreeInv
      <4>2. CASE rows'[n] = rows[n]
        <5>1. st[n] # "RUNNING" /\ task[n] = "idle"
          BY <3>1, <4>1 DEF AgreesAt
        <5>2. OnRecord(n) => OnRecord(n)'
          BY <3>1, <4>2 DEF OnRecord
        <5>3. SkippedAtClose(n) => SkippedAtClose(n)'
          BY <3>1, <4>1, <4>2 DEF SkippedAtClose
        <5> QED BY <3>1, <4>1, <5>1, <5>2, <5>3 DEF AgreesAt
      <4>3. CASE n \in ToSkip /\ rows'[n] = "SKIPPED"
        BY <3>1, <4>1, <4>3 DEF AgreesAt, SkippedAtClose, ToSkip
      <4> QED BY <3>2, <4>2, <4>3
    <3> QED BY <3>1, <3>3 DEF AgreeInv
  <2>3. CASE Closes \/ Reclaim
    <3>1. run' # "RUNNING"
      BY <2>3, FinalStateCloses DEF Closes, Reclaim
    <3> QED BY <3>1 DEF AgreeInv
  <2>4. CASE Die
    BY <2>4 DEF Die, AgreeInv
  <2>5. CASE TogglePause \/ (\E n \in Gated : DecideGate(n)) \/ UNCHANGED vars
    <3>1. UNCHANGED <<run, rows, pc, st, attempts, task>>
      BY <2>5 DEF TogglePause, DecideGate, vars, database, engine
    <3> QED BY <3>1 DEF AgreeInv, AgreesAt, OnRecord, SkippedAtClose, RowOfPromise
  <2> QED BY <2>1, <2>2, <2>3, <2>4, <2>5, RoundKeepsAgreement, SettleKeepsAgreement,
             PromiseKeepsAgreement DEF Next, Engine
<1> QED BY <1>1, <1>2, TypeInvHolds, WorkIsOnRecord, PTL DEF Spec

\* At every round, and at the close, what the engine believes of a node is
\* what the database has on record for it, for as long as the run is its own.
THEOREM EngineAndRowsAgree == Spec => []EngineAgreesWithRows
<1>1. AgreeInv => EngineAgreesWithRows
  BY DEF AgreeInv, AgreesAt, SkippedAtClose, EngineAgreesWithRows
<1> QED BY <1>1, AgreementHolds, PTL

-----------------------------------------------------------------------------
(* The visiting order.                                                     *)

LEMMA VisitedInOrder ==
    /\ \A n \in Nodes : ~Before(n, n)
    /\ \A m, n \in Nodes : m # n => Before(m, n) \/ Before(n, m)
    /\ \A k, m, n \in Nodes : Before(k, m) /\ Before(m, n) => Before(k, n)
<1>1. Len(Order) \in Nat /\ Order \in [1..Len(Order) -> Nodes]
  BY GraphRunnerAssumption
<1>2. \A i, j \in 1..Len(Order) : Order[i] = Order[j] => i = j
  BY <1>1, GraphRunnerAssumption DEF IsInjective
<1>3. \A n \in Nodes : \E i \in 1..Len(Order) : Order[i] = n
  BY <1>1 DEF Nodes, Range
<1>4. ASSUME NEW n \in Nodes PROVE ~Before(n, n)
  BY <1>1, <1>2 DEF Before
<1>5. ASSUME NEW m \in Nodes, NEW n \in Nodes, m # n PROVE Before(m, n) \/ Before(n, m)
  <2>1. PICK i \in 1..Len(Order) : Order[i] = m
    BY <1>3
  <2>2. PICK j \in 1..Len(Order) : Order[j] = n
    BY <1>3
  <2>3. i < j \/ j < i
    BY <1>1, <1>5, <2>1, <2>2
  <2> QED BY <2>1, <2>2, <2>3 DEF Before
<1>6. ASSUME NEW k \in Nodes, NEW m \in Nodes, NEW n \in Nodes, Before(k, m), Before(m, n)
      PROVE  Before(k, n)
  <2>1. PICK i, j \in 1..Len(Order) : i < j /\ Order[i] = k /\ Order[j] = m
    BY <1>6 DEF Before
  <2>2. PICK a, b \in 1..Len(Order) : a < b /\ Order[a] = m /\ Order[b] = n
    BY <1>6 DEF Before
  <2>3. j = a
    BY <1>2, <2>1, <2>2
  <2>4. i < b
    BY <1>1, <2>1, <2>2, <2>3
  <2> QED BY <2>1, <2>2, <2>4 DEF Before
<1> QED BY <1>4, <1>5, <1>6

\* Each node of a wave has a rank of its own among the ready nodes, below the
\* number of slots: a wave has no more nodes than slots.
LEMMA WaveFitsTheSlots ==
    ASSUME NEW slots \in Int
    PROVE  /\ Start(slots) \in SUBSET Nodes
           /\ Start(slots) = {} \/ Cardinality(Start(slots)) <= slots
<1> DEFINE ready == {n \in InState("PENDING") : Ready(n)}
           Ahead(n) == {m \in ready : Before(m, n)}
           wave == Start(slots)
<1>1. ready \in SUBSET Nodes /\ wave = {n \in ready : Cardinality(Ahead(n)) < slots}
  BY DEF Start, InState
<1> HIDE DEF ready, wave
<1>2. \A n \in Nodes : /\ Ahead(n) \in SUBSET Nodes /\ IsFiniteSet(Ahead(n))
                       /\ Cardinality(Ahead(n)) \in Nat
  BY <1>1, NodesAreFinite, FS_Subset, FS_CardinalityType
<1>3. wave \in SUBSET Nodes
  BY <1>1
<1>4. ASSUME NEW m \in wave, NEW n \in wave, Before(m, n)
      PROVE  Cardinality(Ahead(m)) # Cardinality(Ahead(n))
  <2>1. m \in ready /\ m \in Nodes /\ n \in Nodes
    BY <1>1
  <2>2. m \in Ahead(n) /\ m \notin Ahead(m)
    BY <1>4, <2>1, VisitedInOrder
  <2>3. Ahead(m) \in SUBSET Ahead(n)
    BY <1>1, <1>4, <2>1, VisitedInOrder
  <2>4. Cardinality(Ahead(n)) = Cardinality(Ahead(m)) => Ahead(n) = Ahead(m)
    BY <1>2, <2>1, <2>3, FS_Subset
  <2> QED BY <2>2, <2>4
<1>5. CASE slots > 0
  <2> DEFINE rank == [n \in wave |-> Cardinality(Ahead(n))]
  <2>1. rank \in [wave -> 0..(slots - 1)]
    <3> SUFFICES ASSUME NEW n \in wave PROVE Cardinality(Ahead(n)) \in 0..(slots - 1)
      OBVIOUS
    <3>1. Cardinality(Ahead(n)) < slots /\ Cardinality(Ahead(n)) \in Nat
      BY <1>1, <1>2
    <3> QED BY <3>1
  <2>2. \A m, n \in wave : rank[m] = rank[n] => m = n
    BY <1>3, <1>4, VisitedInOrder
  <2>3. rank \in Injection(wave, 0..(slots - 1))
    BY <2>1, <2>2 DEF Injection, IsInjective
  <2>4. IsFiniteSet(0..(slots - 1)) /\ Cardinality(0..(slots - 1)) = slots
    <3>1. slots - 1 \in Int /\ ~(0 > slots - 1) /\ (slots - 1) - 0 + 1 = slots
      BY <1>5
    <3> QED BY <3>1, FS_Interval
  <2>5. Cardinality(wave) <= Cardinality(0..(slots - 1))
    BY <2>3, <2>4, FS_Injection
  <2> QED BY <1>3, <2>4, <2>5 DEF wave
<1>6. CASE ~(slots > 0)
  <2>1. ASSUME NEW n \in wave PROVE FALSE
    <3> DEFINE c == Cardinality(Ahead(n))
    <3>1. c \in Nat /\ c < slots
      BY <1>1, <1>2
    <3> HIDE DEF c
    <3> QED BY <1>6, <3>1
  <2> QED BY <1>3, <2>1 DEF wave
<1> QED BY <1>5, <1>6

-----------------------------------------------------------------------------
(* The node budget.                                                        *)

\* Whatever the graph and its limits, the attempts that are started beyond the
\* node budget are those of one wave: the budget is read once a round, and a
\* round has no more slots than the width.
THEOREM SpendIsBounded == Spec => []OverspendIsOneWave
<1>1. Init => OverspendIsOneWave
  <2>1. MaxNodes \in Nat \ {0} /\ MaxConcurrent \in Nat \ {0}
    BY GraphRunnerAssumption
  <2> QED BY <2>1 DEF Init, OverspendIsOneWave
<1>2. TypeInv /\ OverspendIsOneWave /\ [Next]_vars => OverspendIsOneWave'
  <2> SUFFICES ASSUME TypeInv, OverspendIsOneWave, [Next]_vars PROVE OverspendIsOneWave'
    OBVIOUS
  <2>1. CASE Round
    <3>1. /\ started \in Nat /\ started < MaxNodes
          /\ MaxNodes \in Nat \ {0} /\ MaxConcurrent \in Nat \ {0}
      BY <2>1, GraphRunnerAssumption DEF Round, Exhausted, TypeInv, TypeOK
    <3>2. width' \in 1..MaxConcurrent
      BY <2>1, NarrowedType DEF Round, TypeInv, TypeOK
    <3>3. PICK slots : /\ slots = width' - Cardinality(InState("RUNNING"))
                       /\ started' = started \/ started' = started + Cardinality(Start(slots))
      BY <2>1 DEF Round, StartWave
    <3>4. Cardinality(InState("RUNNING")) \in Nat
      BY CountsAreNatural DEF InState
    <3>5. slots \in Int /\ slots <= MaxConcurrent
      BY <3>1, <3>2, <3>3, <3>4
    <3>6. Start(slots) = {} => Cardinality(Start(slots)) = 0
      BY FS_EmptySet
    <3>7. Cardinality(Start(slots)) \in Nat /\ Cardinality(Start(slots)) <= MaxConcurrent
      BY <3>1, <3>5, <3>6, WaveFitsTheSlots, CountsAreNatural
    <3> QED BY <3>1, <3>3, <3>7 DEF OverspendIsOneWave
  <2>2. ASSUME ~Round PROVE UNCHANGED started
    <3>1. ASSUME Engine PROVE UNCHANGED started
      BY <2>2, <3>1 DEF Engine, HonourPause, StopForBudget, Settle, Skip, Closes, budget
    <3>2. ASSUME NEW n \in Nodes, Promise(n) PROVE UNCHANGED started
      BY <3>2 DEF Promise, Dispatch, Succeed, Fail, Save, CompleteReviewer, Complete, Hold,
                  RecordFailure, OpenGate, CallFails, WriteRow, engine, budget
    <3>3. ASSUME Die \/ Reclaim \/ TogglePause \/ \E n \in Gated : DecideGate(n)
          PROVE  UNCHANGED started
      BY <3>3 DEF Die, Reclaim, TogglePause, DecideGate, engine, budget
    <3>4. ASSUME UNCHANGED vars PROVE UNCHANGED started
      BY <3>4 DEF vars, engine, budget
    <3> QED BY <3>1, <3>2, <3>3, <3>4 DEF Next
  <2> QED BY <2>1, <2>2 DEF OverspendIsOneWave
<1> QED BY <1>1, <1>2, TypeInvHolds, PTL DEF Spec

-----------------------------------------------------------------------------
(* Contained failures.  The rounds only end when nothing is pending: the   *)
(* first pending node in the visiting order waits for no one, so it is     *)
(* ready or doomed, and the round would have started or blocked it.        *)

ContainInv ==
    /\ \A n \in Nodes : st[n] \in {"RUNNING", "COMPLETED", "FAILED"} => attempts[n] > 0
    /\ \A n \in Nodes : st[n] = "BLOCKED" => Doomed(n)
    /\ pc = "round" => InState("RUNNING") = {}
    /\ pc \in {"close", "done"} /\ outcome \notin {"PAUSED", "BUDGET_STOPPED"} =>
          Settled = Nodes

LEMMA FirstOfMany ==
    ASSUME NEW S \in SUBSET Nodes, S # {}
    PROVE  \E n \in S : \A m \in S : ~Before(m, n)
<1> DEFINE Ahead(n) == {m \in Nodes : Before(m, n)}
           R == StrictSubsetOrdering(Nodes)
           T == {Ahead(n) : n \in S}
<1>1. IsWellFoundedOn(R, FiniteSubsetsOf(Nodes))
  BY FS_StrictSubsetOrderingWellFounded
<1>2. FiniteSubsetsOf(Nodes) = SUBSET Nodes
  BY NodesAreFinite, FS_FiniteSubsetsOfFinite
<1>3. T \subseteq SUBSET Nodes /\ T # {}
  OBVIOUS
<1> HIDE DEF R
<1>4. \E x \in T : \A y \in T : ~(<<y, x>> \in R)
  <2> HIDE DEF T
  <2> QED BY <1>1, <1>2, <1>3, WFMin
<1>5. PICK n \in S : \A m \in S : ~(<<Ahead(m), Ahead(n)>> \in R)
  BY <1>4
<1>6. ASSUME NEW m \in S, Before(m, n) PROVE FALSE
  <2>1. m \in Nodes /\ n \in Nodes
    OBVIOUS
  <2>2. Ahead(m) \subseteq Ahead(n) /\ m \in Ahead(n) /\ m \notin Ahead(m)
    BY <1>6, <2>1, VisitedInOrder
  <2>3. <<Ahead(m), Ahead(n)>> \in (SUBSET Nodes) \X (SUBSET Nodes)
    OBVIOUS
  <2>4. <<Ahead(m), Ahead(n)>> \in R
    <3>1. Ahead(m) # Ahead(n)
      BY <2>2
    <3> HIDE DEF Ahead
    <3> QED BY <2>2, <2>3, <3>1 DEF R, StrictSubsetOrdering
  <2> QED BY <1>5, <2>4
<1> QED BY <1>6

LEMMA DepsAreAhead ==
    ASSUME NEW n \in Nodes, NEW d \in Deps[n]
    PROVE  d \in Nodes /\ Before(d, n)
<1>1. Len(Order) \in Nat /\ Order \in [1..Len(Order) -> Nodes] /\ d \in Nodes
  BY GraphRunnerAssumption
<1>2. PICK j \in 1..Len(Order) : Order[j] = n
  BY <1>1 DEF Nodes, Range
<1>3. PICK i \in 1..Len(Order) : Order[i] = d
  BY <1>1 DEF Nodes, Range
<1>4. i < j
  BY <1>2, <1>3, GraphRunnerAssumption
<1> QED BY <1>1, <1>2, <1>3, <1>4 DEF Before

\* A round with a slot and a pending node starts a node or blocks one, unless
\* one is still running.
LEMMA SomethingMoves ==
    ASSUME TypeOK, InState("RUNNING") = {}, InState("PENDING") # {},
           NEW slots \in Int, slots >= 1
    PROVE  Start(slots) \cup Blocked # {}
<1>1. PICK n \in InState("PENDING") : \A m \in InState("PENDING") : ~Before(m, n)
  BY FirstOfMany DEF InState
<1>2. n \in Nodes
  BY DEF InState
<1>3. Deps[n] \subseteq Settled
  <2> SUFFICES ASSUME NEW d \in Deps[n] PROVE d \in Settled
    OBVIOUS
  <2>1. d \in Nodes /\ Before(d, n)
    BY <1>2, DepsAreAhead
  <2>2. st[d] # "PENDING" /\ st[d] # "RUNNING" /\ st[d] \in NodeState
    BY <1>1, <2>1 DEF InState, TypeOK
  <2> QED BY <2>1, <2>2 DEF Settled, InState, NodeState
<1>4. CASE Doomed(n)
  BY <1>1, <1>4 DEF Blocked
<1>5. CASE ~Doomed(n)
  <2>1. Ready(n)
    BY <1>3, <1>5 DEF Doomed, Ready, Settled
  <2>2. {m \in {k \in InState("PENDING") : Ready(k)} : Before(m, n)} = {}
    BY <1>1
  <2>3. Cardinality({m \in {k \in InState("PENDING") : Ready(k)} : Before(m, n)}) < slots
    BY <2>2, FS_EmptySet
  <2>4. n \in Start(slots)
    BY <1>1, <2>1, <2>3 DEF Start
  <2> QED BY <2>4
<1> QED BY <1>4, <1>5

LEMMA DoomedStays ==
    ASSUME TypeOK, NEW n \in Nodes, Doomed(n),
           \A m \in Nodes : st[m] \in {"COMPLETED", "FAILED", "BLOCKED"} => st'[m] = st[m]
    PROVE  Doomed(n)'
<1>1. Deps[n] \subseteq Nodes
  BY GraphRunnerAssumption
<1>2. CASE FansIn(n)
  <2>1. \A d \in Deps[n] : st[d] \in {"FAILED", "BLOCKED"}
    BY <1>1, <1>2 DEF Doomed, Settled, InState
  <2>2. \A d \in Deps[n] : st'[d] \in {"FAILED", "BLOCKED"}
    BY <1>1, <2>1
  <2> QED BY <1>1, <1>2, <2>2 DEF Doomed, FansIn, Settled, InState
<1>3. CASE ~FansIn(n)
  BY <1>1, <1>3 DEF Doomed, FansIn, InState
<1> QED BY <1>2, <1>3

LEMMA RoundContains ==
    ASSUME TypeInv, ContainInv, Round
    PROVE  ContainInv'
<1>1. TypeOK /\ pc = "round" /\ InState("RUNNING") = {}
  BY DEF TypeInv, ContainInv, Round
<1>2. width' \in 1..MaxConcurrent /\ MaxConcurrent \in Nat
  BY <1>1, NarrowedType, GraphRunnerAssumption DEF Round, TypeOK
<1>3. PICK slots : /\ slots = width' - Cardinality(InState("RUNNING"))
                   /\ \/ /\ Settled = Nodes \/ Start(slots) \cup Blocked \cup InState("RUNNING") = {}
                         /\ pc' = "close" /\ UNCHANGED <<st, attempts>>
                      \/ /\ StartWave(Start(slots))
                         /\ pc' = IF Start(slots) = {} THEN "round" ELSE "wave"
  BY DEF Round, End
<1>4. slots \in Int /\ slots >= 1
  <2>1. Cardinality(InState("RUNNING")) = 0
    BY <1>1, FS_EmptySet
  <2> QED BY <1>2, <1>3, <2>1
<1>5. CASE pc' = "close" /\ UNCHANGED <<st, attempts>>
           /\ (Settled = Nodes \/ Start(slots) \cup Blocked \cup InState("RUNNING") = {})
  <2>1. Settled = Nodes
    <3>1. InState("PENDING") = {} => Settled = Nodes
      BY <1>1 DEF Settled, InState, TypeOK, NodeState
    <3> QED BY <1>1, <1>4, <1>5, <3>1, SomethingMoves
  <2> QED BY <1>5, <2>1 DEF ContainInv, Doomed, FansIn, Settled, InState
<1>6. CASE StartWave(Start(slots)) /\ pc' = IF Start(slots) = {} THEN "round" ELSE "wave"
  <2>1. Start(slots) \subseteq InState("PENDING") /\ Blocked \subseteq InState("PENDING")
    BY StartedIsReady DEF Blocked
  <2>2. \A n \in Nodes : /\ st'[n] = IF n \in Start(slots) THEN "RUNNING"
                                      ELSE IF n \in Blocked THEN "BLOCKED" ELSE st[n]
                         /\ attempts'[n] = IF n \in Start(slots) THEN attempts[n] + 1
                                                               ELSE attempts[n]
    BY <1>6 DEF StartWave
  <2>3. \A n \in Nodes : st[n] # "PENDING" => st'[n] = st[n]
    BY <2>1, <2>2 DEF InState
  <2>4. ASSUME NEW n \in Nodes, st'[n] \in {"RUNNING", "COMPLETED", "FAILED"}
        PROVE  attempts'[n] > 0
    <3>1. attempts[n] \in Nat
      BY <1>1, GraphRunnerAssumption DEF TypeOK
    <3>2. n \notin Start(slots) => attempts[n] > 0
      BY <2>2, <2>4 DEF ContainInv
    <3> QED BY <2>2, <3>1, <3>2
  <2>5. ASSUME NEW n \in Nodes, st'[n] = "BLOCKED" PROVE Doomed(n)'
    <3>1. Doomed(n)
      BY <2>2, <2>5 DEF ContainInv, Blocked
    <3> QED BY <1>1, <2>3, <3>1, DoomedStays
  <2>6. pc' = "round" => InState("RUNNING")' = {}
    BY <1>1, <1>6, <2>2 DEF InState
  <2>7. pc' \notin {"close", "done"}
    BY <1>6
  <2> QED BY <2>4, <2>5, <2>6, <2>7 DEF ContainInv
<1> QED BY <1>3, <1>5, <1>6

LEMMA SettleContains ==
    ASSUME TypeInv, ContainInv, Settle
    PROVE  ContainInv'
<1>1. UNCHANGED attempts /\ pc' = "round" /\ TypeOK
  BY DEF Settle, TypeInv
<1>2. \A n \in Nodes : st'[n] = IF st[n] = "RUNNING" THEN Decided(n) ELSE st[n]
  BY DEF Settle
<1>3. \A n \in Nodes : Decided(n) \in {"COMPLETED", "PENDING", "FAILED"}
  BY DEF Decided
<1>4. \A n \in Nodes : st'[n] \in {"RUNNING", "COMPLETED", "FAILED"} => attempts'[n] > 0
  BY <1>1, <1>2 DEF ContainInv
<1>5. ASSUME NEW n \in Nodes, st'[n] = "BLOCKED" PROVE Doomed(n)'
  <2>1. Doomed(n)
    BY <1>2, <1>3, <1>5 DEF ContainInv
  <2> QED BY <1>1, <1>2, <2>1, DoomedStays
<1>6. InState("RUNNING")' = {}
  BY <1>2, <1>3 DEF InState
<1> QED BY <1>1, <1>4, <1>5, <1>6 DEF ContainInv

\* Everyone else leaves the node states of the engine alone.
LEMMA OthersContain ==
    ASSUME ContainInv, [Next]_vars, ~Round, ~Settle
    PROVE  ContainInv'
<1>1. UNCHANGED <<st, attempts>> /\ pc' \in {pc, "stopped", "close", "done"}
      /\ \/ pc' = "close" /\ outcome' \in {"PAUSED", "BUDGET_STOPPED"}
         \/ UNCHANGED outcome /\ (pc' \in {pc, "stopped"} \/ pc = "close")
  <2>1. CASE HonourPause \/ StopForBudget \/ Skip \/ Closes
    BY <2>1 DEF HonourPause, StopForBudget, End, Skip, Closes, budget
  <2>2. ASSUME NEW n \in Nodes, Promise(n)
        PROVE  UNCHANGED <<st, attempts, outcome>> /\ pc' \in {pc, "stopped"}
    BY <2>2 DEF Promise, Dispatch, Succeed, Fail, Save, CompleteReviewer, Complete, Hold,
                RecordFailure, OpenGate, CallFails, WriteRow, Answered, Throw, engine
  <2>3. CASE Die \/ Reclaim \/ TogglePause \/ (\E n \in Gated : DecideGate(n))
    BY <2>3 DEF Die, Reclaim, TogglePause, DecideGate, engine
  <2>4. CASE UNCHANGED vars
    BY <2>4 DEF vars, engine
  <2> QED BY <2>1, <2>2, <2>3, <2>4 DEF Next, Engine
<1>2. \A n \in Nodes : Doomed(n)' = Doomed(n)
  BY <1>1 DEF Doomed, FansIn, Settled, InState
<1>3. Settled' = Settled /\ InState("RUNNING")' = InState("RUNNING")
  BY <1>1 DEF Settled, InState
<1> QED BY <1>1, <1>2, <1>3 DEF ContainInv

\* An engine that was neither paused nor stopped by its budget has settled
\* every node, and blocked exactly the nodes no way to which was left open.
THEOREM FailuresStayContained == Spec => []FailuresAreContained
<1>1. Init => ContainInv
  BY DEF Init, ContainInv, InState
<1>2. TypeInv /\ ContainInv /\ [Next]_vars => ContainInv'
  BY RoundContains, SettleContains, OthersContain
<1>3. TypeInv /\ WorkInv /\ ContainInv => FailuresAreContained
  <2> SUFFICES ASSUME TypeInv, WorkInv, ContainInv, Settled = Nodes, NEW n \in Nodes
               PROVE  st[n] = "BLOCKED" <=> Doomed(n)
    BY DEF ContainInv, FailuresAreContained
  <2>1. st[n] # "BLOCKED" => ~Doomed(n)
    <3> SUFFICES ASSUME st[n] # "BLOCKED" PROVE ~Doomed(n)
      OBVIOUS
    <3>1. st[n] \in {"COMPLETED", "FAILED"}
      BY DEF Settled, InState
    <3>2. Served(n)
      BY <3>1 DEF ContainInv, WorkInv
    <3> QED BY <3>2, StartedAreNotDoomed
  <2> QED BY <2>1 DEF ContainInv
<1> QED BY <1>1, <1>2, <1>3, TypeInvHolds, WorkIsOnRecord, PTL DEF Spec

-----------------------------------------------------------------------------
(* The run as its owner reads it: GraphRunner implements GraphPromise.     *)
(* Agreement says nothing of an engine that stopped, whose promises may    *)
(* still write; these parts of it survive the stop.                        *)

\* The promises under way are those of nodes the engine has running.
Working == \A n \in Nodes : task[n] # "idle" => attempts[n] > 0 /\ st[n] = "RUNNING"

\* The row of a settled node is not worked on.
SettledRest == \A n \in Settled : rows[n] # "RUNNING"

\* Nodes are given up when no promise is under way.
SkipsComeLast == RowsIn({"SKIPPED"}) # {} => \A n \in Nodes : task[n] = "idle"

\* A promise about to hold its node does so for a gate that was not decided.
HoldsAreDue == \A n \in Nodes : task[n] = "hold" => Owner!Waits(n)

\* An engine that is closing says what its node states came to.
Judges == pc = "close" => outcome \in {"PAUSED", "BUDGET_STOPPED", Judged}

OwnerInv ==
    /\ HoldsAreDue /\ Judges
    /\ run = "RUNNING" => Working /\ SettledRest /\ SkipsComeLast

LEMMA AgreementRests ==
    TypeOK /\ AgreeInv /\ run = "RUNNING" /\ pc # "stopped"
      => Working /\ SettledRest /\ SkipsComeLast
<1> SUFFICES ASSUME TypeOK, AgreeInv, run = "RUNNING", pc # "stopped"
             PROVE  Working /\ SettledRest /\ SkipsComeLast
  OBVIOUS
<1>1. \A n \in Nodes : AgreesAt(n) /\ task[n] \in Task
  BY DEF AgreeInv, TypeOK
<1>2. Working
  BY <1>1 DEF Working, AgreesAt, RowOfPromise
<1>3. SettledRest
  BY <1>1 DEF SettledRest, Settled, InState, AgreesAt, OnRecord, SkippedAtClose
<1>4. ASSUME NEW m \in RowsIn({"SKIPPED"}) PROVE \A n \in Nodes : task[n] = "idle"
  <2>1. m \in Nodes /\ rows[m] = "SKIPPED"
    BY DEF RowsIn
  <2>2. ~RowOfPromise(m)
    BY <1>1, <2>1 DEF RowOfPromise, Task, Calling, Returned
  <2>3. pc = "close"
    BY <1>1, <2>1, <2>2 DEF AgreesAt, OnRecord, SkippedAtClose
  <2> QED BY <1>1, <2>3 DEF AgreesAt
<1> QED BY <1>2, <1>3, <1>4 DEF SkipsComeLast

LEMMA PromiseRests ==
    ASSUME TypeOK, NEW x \in Nodes, Promise(x), Working, SettledRest, SkipsComeLast
    PROVE  (Working /\ SettledRest /\ SkipsComeLast)'
<1>1. UNCHANGED <<st, attempts>> /\ task[x] # "idle"
  BY DEF Promise, Dispatch, Succeed, Fail, Save, CompleteReviewer, Complete, Hold, RecordFailure,
         OpenGate, CallFails, Calling, WriteRow, engine
<1>2. rows \in [Nodes -> RowState] /\ task \in [Nodes -> Task]
  BY DEF TypeOK
<1>3. /\ \A n \in Nodes \ {x} : rows'[n] = rows[n] /\ task'[n] = task[n]
      /\ rows'[x] \in {rows[x], "RUNNING", "COMPLETED", "VERIFYING", "FAILED"}
  BY <1>2 DEF Promise, Dispatch, Succeed, Fail, Save, CompleteReviewer, Complete, Hold,
              RecordFailure, OpenGate, CallFails, WriteRow, Answered, Throw, database
<1>4. attempts[x] > 0 /\ st[x] = "RUNNING"
  BY <1>1 DEF Working
<1>5. Working'
  BY <1>1, <1>3, <1>4 DEF Working
<1>6. SettledRest'
  BY <1>1, <1>3, <1>4 DEF SettledRest, Settled, InState
<1>7. RowsIn({"SKIPPED"}) = {}
  BY <1>1 DEF SkipsComeLast
<1>8. SkipsComeLast'
  BY <1>3, <1>7 DEF SkipsComeLast, RowsIn
<1> QED BY <1>5, <1>6, <1>8

LEMMA HoldsStay ==
    ASSUME TypeOK, HoldsAreDue, [Next]_vars
    PROVE  HoldsAreDue'
<1>1. ASSUME NEW x \in Nodes, Promise(x) PROVE HoldsAreDue'
  <2>1. UNCHANGED claimed /\ task \in [Nodes -> Task]
    BY <1>1 DEF TypeOK, Promise, Dispatch, Succeed, Fail, Save, CompleteReviewer, Complete, Hold,
           RecordFailure, OpenGate, CallFails, WriteRow
  <2>2. AfterSave(x) = "hold" => Owner!Waits(x)
    BY DEF AfterSave, AwaitsGate, Owner!Waits
  <2>3. \A n \in Nodes : task'[n] = "hold" => task[n] = "hold" \/ (n = x /\ AfterSave(x) = "hold")
    BY <1>1, <2>1
       DEF Promise, Dispatch, Succeed, Fail, Save, CompleteReviewer, Complete, Hold,
           RecordFailure, OpenGate, CallFails, WriteRow, Answered, Throw
  <2> QED BY <2>1, <2>2, <2>3 DEF HoldsAreDue, Owner!Waits
<1>2. CASE ~\E x \in Nodes : Promise(x)
  <2>1. UNCHANGED claimed /\ \A n \in Nodes : task'[n] = "hold" => task[n] = "hold"
    BY <1>2 DEF Next, Engine, HonourPause, StopForBudget, Round, StartWave, Settle, Skip, Closes, Die,
           Reclaim, DecideGate, TogglePause, vars, engine
  <2> QED BY <2>1 DEF HoldsAreDue, Owner!Waits
<1> QED BY <1>1, <1>2

LEMMA JudgesStay ==
    ASSUME Judges, [Next]_vars
    PROVE  Judges'
<1>1. CASE HonourPause \/ StopForBudget
  BY <1>1 DEF HonourPause, StopForBudget, End, Judges
<1>2. CASE Round
  <2>1. CASE End(Judged) /\ UNCHANGED <<st, attempts, started, task>>
    BY <2>1 DEF End, Judges, Judged, Whole, InState
  <2>2. CASE pc' \in {"round", "wave"}
    BY <2>2 DEF Judges
  <2> QED BY <1>2, <2>1, <2>2 DEF Round
<1>3. CASE Settle
  BY <1>3 DEF Settle, Judges
<1>4. CASE ~(HonourPause \/ StopForBudget \/ Round \/ Settle)
  <2>1. UNCHANGED <<outcome, st>> /\ (pc' = "close" => pc = "close")
    BY <1>4 DEF Next, Engine, Skip, Closes, Die, Reclaim, DecideGate, TogglePause, vars, engine,
           Promise, Dispatch, Succeed, Fail, Save, CompleteReviewer, Complete, Hold,
           RecordFailure, OpenGate, CallFails, WriteRow, Answered, Throw
  <2> QED BY <2>1 DEF Judges, Judged, Whole, InState
<1> QED BY <1>1, <1>2, <1>3, <1>4

\* An engine at its end has no promise under way.
LEMMA ClosingIsQuiet ==
    ASSUME AgreeInv, run = "RUNNING", pc = "close"
    PROVE  \A n \in Nodes : st[n] # "RUNNING" /\ task[n] = "idle"
BY DEF AgreeInv, AgreesAt

LEMMA OwnerInvHolds == Spec => []OwnerInv
<1>1. Init => OwnerInv
  BY DEF Init, OwnerInv, HoldsAreDue, Judges, Working, SettledRest, Settled, InState,
         SkipsComeLast, RowsIn
<1>2. (TypeOK /\ AgreeInv /\ run = "RUNNING" /\ pc # "stopped"
         => Working /\ SettledRest /\ SkipsComeLast)'
  BY AgreementRests, PTL
<1>3. TypeOK /\ TypeOK' /\ AgreeInv /\ AgreeInv' /\ OwnerInv /\ [Next]_vars => OwnerInv'
  <2> SUFFICES ASSUME TypeOK, TypeOK', AgreeInv, AgreeInv', OwnerInv, [Next]_vars PROVE OwnerInv'
    OBVIOUS
  <2>1. HoldsAreDue' /\ Judges'
    BY HoldsStay, JudgesStay DEF OwnerInv
  <2>2. CASE run' # "RUNNING" \/ pc' # "stopped"
    <3>1. run' = "RUNNING" => (Working /\ SettledRest /\ SkipsComeLast)'
      BY <1>2, <2>2
    <3> QED BY <2>1, <3>1 DEF OwnerInv
  <2>3. ASSUME run' = "RUNNING", pc' = "stopped"
        PROVE  (Working /\ SettledRest /\ SkipsComeLast)'
    <3>1. run = "RUNNING" /\ Working /\ SettledRest /\ SkipsComeLast
      <4>1. run = "RUNNING"
        BY <2>3 DEF Next, Engine, HonourPause, StopForBudget, Round, Settle, Skip, Closes, Accepts,
               Die, Reclaim, DecideGate, TogglePause, vars, database, Promise, Dispatch, Succeed,
               Fail, Save, CompleteReviewer, Complete, Hold, RecordFailure, OpenGate, CallFails,
               WriteRow
      <4> QED BY <4>1 DEF OwnerInv
    <3>2. CASE \E x \in Nodes : Promise(x)
      BY <3>1, <3>2, PromiseRests
    <3>3. CASE Skip
      <4>1. UNCHANGED <<st, attempts, task>> /\ pc = "close"
        BY <3>3 DEF Skip
      <4>2. \A n \in Nodes : rows'[n] \in {rows[n], "SKIPPED"}
        BY <3>3 DEF Skip, TypeOK
      <4>3. \A n \in Nodes : task[n] = "idle"
        BY <3>1, <4>1, ClosingIsQuiet
      <4> QED BY <3>1, <4>1, <4>2, <4>3
              DEF Working, SettledRest, Settled, InState, SkipsComeLast
    <3>4. CASE Die
      BY <3>1, <3>4 DEF Die, database, Working, SettledRest, Settled, InState, SkipsComeLast
    <3>5. CASE TogglePause \/ (\E n \in Gated : DecideGate(n)) \/ UNCHANGED vars
      <4>1. UNCHANGED <<rows, st, attempts, task>>
        BY <3>5 DEF TogglePause, DecideGate, vars, database, engine
      <4> QED BY <3>1, <4>1
              DEF Working, SettledRest, Settled, InState, SkipsComeLast, RowsIn
    <3>6. CASE Closes \/ Reclaim
      <4>1. run' # "RUNNING" \/ Closes
        BY <3>6 DEF Reclaim
      <4>2. CASE Closes
        <5>1. UNCHANGED <<rows, st, attempts, task>>
          BY <4>2 DEF Closes
        <5> QED BY <3>1, <5>1
                DEF Working, SettledRest, Settled, InState, SkipsComeLast, RowsIn
      <4> QED BY <2>3, <4>1, <4>2
    <3>7. ~HonourPause /\ ~StopForBudget /\ ~Round /\ ~Settle
      BY <2>3 DEF HonourPause, StopForBudget, Round, Settle, End
    <3> QED BY <3>2, <3>3, <3>4, <3>5, <3>6, <3>7 DEF Next, Engine
  <2> QED BY <2>1, <2>2, <2>3 DEF OwnerInv
<1> QED BY <1>1, <1>3, AgreementHolds, TypeCorrect, PTL DEF Spec

\* A node that a promise dispatches for the first time has what it needs on record.
LEMMA DispatchBegins ==
    ASSUME TypeOK, WorkInv, OwnerInv, NEW n \in Nodes, Dispatch(n)
    PROVE  Owner!Begins(n) \/ UNCHANGED <<run, rows, gate, claimed>>
<1>1. /\ run = "RUNNING" /\ rows' = [rows EXCEPT ![n] = "RUNNING"]
      /\ rows[n] \in {"PENDING", "RUNNING"} /\ task[n] = "start"
      /\ UNCHANGED <<run, gate, claimed>>
  BY DEF Dispatch, WriteRow, Writable
<1>2. CASE rows[n] = "RUNNING"
  <2>1. rows' = rows
    BY <1>1, <1>2 DEF TypeOK
  <2> QED BY <1>1, <2>1
<1>3. CASE rows[n] = "PENDING"
  <2>1. Served(n) /\ RowsIn({"SKIPPED"}) = {} /\ SettledRest
    BY <1>1 DEF OwnerInv, Working, SkipsComeLast, WorkInv
  <2>2. InState("COMPLETED") \subseteq RowsIn({"COMPLETED"})
    BY DEF WorkInv, Completions, InState, RowsIn
  <2>3. Settled \cap RowsIn({"RUNNING"}) = {}
    BY <2>1 DEF SettledRest, RowsIn
  <2>4. \A states : Owner!In(states) = RowsIn(states)
    BY DEF Owner!In, RowsIn
  <2>5. Owner!Needed(n)
    BY <2>1, <2>2, <2>3, <2>4 DEF Served, FansIn, Owner!Needed
  <2> QED BY <1>1, <1>3, <2>1, <2>4, <2>5 DEF Owner!Begins, Owner!Move
<1> QED BY <1>1, <1>2, <1>3

\* A promise moves its row as the owner may expect, and opens a gate it is held at.
LEMMA PromiseMovesAsPromised ==
    ASSUME TypeOK, WorkInv, GateInv, OwnerInv, NEW n \in Nodes, Promise(n)
    PROVE  \/ Owner!Begins(n) \/ Owner!Ends(n)
           \/ n \in Gated /\ Owner!GateOpens(n)
           \/ UNCHANGED <<run, rows, gate, claimed>>
<1>1. CASE Dispatch(n)
  BY <1>1, DispatchBegins
<1>2. ASSUME NEW to \in {"COMPLETED", "VERIFYING", "FAILED"}, NEW next, WriteRow(n, to, next),
             task[n] # "idle",
             to = "COMPLETED" => Owner!Passes(n), to = "VERIFYING" => Owner!Waits(n)
      PROVE  Owner!Ends(n)
  <2>1. /\ run = "RUNNING" /\ rows[n] = "RUNNING" /\ rows' = [rows EXCEPT ![n] = to]
        /\ UNCHANGED <<run, gate, claimed>>
    BY <1>2 DEF WriteRow, Writable
  <2>2. Owner!In({"SKIPPED"}) = {}
    BY <1>2, <2>1 DEF OwnerInv, SkipsComeLast, Owner!In, RowsIn
  <2> QED BY <1>2, <2>1, <2>2 DEF Owner!Ends, Owner!Move
<1>3. CASE CompleteReviewer(n) \/ Complete(n)
  <2>1. Owner!Passes(n)
    BY <1>3, GatedNodes DEF CompleteReviewer, Complete, Owner!Passes, GateInv, Withheld
  <2> QED BY <1>2, <1>3, <2>1 DEF CompleteReviewer, Complete
<1>4. CASE Hold(n)
  <2>1. Owner!Waits(n)
    BY <1>4 DEF Hold, OwnerInv, HoldsAreDue
  <2> QED BY <1>2, <1>4, <2>1 DEF Hold
<1>5. CASE RecordFailure(n)
  BY <1>2, <1>5 DEF RecordFailure
<1>6. CASE OpenGate(n)
  <2>1. CASE n \in Gated /\ gate[n] \in {"NONE", "STALE"}
    BY <1>6, <2>1 DEF OpenGate, Owner!GateOpens
  <2>2. CASE ~(n \in Gated /\ gate[n] \in {"NONE", "STALE"})
    <3>1. gate \in [Gated -> GateState]
      BY DEF TypeOK
    <3>2. gate' = gate
      BY <1>6, <2>2, <3>1 DEF OpenGate
    <3> QED BY <1>6, <3>2 DEF OpenGate
  <2> QED BY <2>1, <2>2
<1>7. CASE Succeed(n) \/ Fail(n) \/ Save(n) \/ CallFails(n)
  BY <1>7 DEF Succeed, Fail, Save, CallFails, database
<1> QED BY <1>1, <1>3, <1>4, <1>5, <1>6, <1>7 DEF Promise

\* What the engine asks to close a run as, its rows have come to.
LEMMA ClosesAsPromised ==
    ASSUME TypeInv, WorkInv, AgreeInv, OwnerInv, Closes
    PROVE  Owner!Closed
<1>1. /\ run = "RUNNING" /\ pc = "close" /\ run' = FinalState /\ Accepts(run', ~Whole)
      /\ UNCHANGED <<rows, gate, claimed>>
  BY DEF Closes, Accepts
<1>2. RowsIn({"COMPLETED"}) = InState("COMPLETED")
  <2>1. \A n \in Nodes : AgreesAt(n) /\ st[n] # "RUNNING"
    BY <1>1, ClosingIsQuiet DEF AgreeInv
  <2> QED BY <2>1 DEF AgreesAt, OnRecord, SkippedAtClose, RowsIn, InState
<1>3. /\ outcome \in {"PAUSED", "BUDGET_STOPPED", Judged}
      /\ run' \in {"CANCELLED", outcome} /\ run' # "PAUSED"
  BY <1>1 DEF OwnerInv, Judges, FinalState
<1>4. /\ Owner!In({"COMPLETED"}) = RowsIn({"COMPLETED"})
      /\ Owner!In({"VERIFYING"}) = RowsIn({"VERIFYING"})
      /\ Owner!In({"COMPLETED", "VERIFYING"}) = RowsIn({"COMPLETED"}) \cup RowsIn({"VERIFYING"})
      /\ Owner!In({"PENDING", "RUNNING"}) = RowsIn({"PENDING", "RUNNING"})
  BY DEF Owner!In, RowsIn
<1>5. Owner!In({"PENDING", "RUNNING"}) = {}
  BY <1>1, <1>4 DEF Accepts
<1>6. ASSUME run' = "COMPLETED" PROVE Owner!AddsUpTo(run')
  <2>1. RowsIn({"COMPLETED"}) = Nodes
    BY <1>1, <1>6 DEF Accepts
  <2> QED BY <1>4, <1>6, <2>1 DEF Owner!AddsUpTo
<1>7. ASSUME run' = "PARTIAL" PROVE Owner!AddsUpTo(run')
  <2>1. InState("COMPLETED") \notin {{}, Nodes}
    BY <1>3, <1>7 DEF Judged, Whole
  <2>2. \A n \in RowsIn({"VERIFYING"}) : n \in Gated /\ gate[n] = "OPEN"
    BY <1>1, <1>7 DEF Accepts
  <2> QED BY <1>2, <1>4, <1>7, <2>1, <2>2 DEF Owner!AddsUpTo
<1>8. ASSUME run' = "FAILED" PROVE Owner!AddsUpTo(run')
  <2>1. InState("COMPLETED") = {}
    BY <1>3, <1>8 DEF Judged, Whole
  <2>2. RowsIn({"VERIFYING"}) = {}
    BY <1>1, <1>8 DEF Accepts
  <2> QED BY <1>2, <1>4, <1>8, <2>1, <2>2 DEF Owner!AddsUpTo
<1>9. ASSUME run' \in {"CANCELLED", "BUDGET_STOPPED"} PROVE Owner!AddsUpTo(run')
  <2>1. RowsIn({"VERIFYING"}) = {}
    BY <1>1, <1>9 DEF Accepts
  <2> QED BY <1>4, <1>9, <2>1 DEF Owner!AddsUpTo
<1>10. Owner!AddsUpTo(run')
  BY <1>3, <1>6, <1>7, <1>8, <1>9 DEF Judged
<1> QED BY <1>1, <1>5, <1>10 DEF Owner!Closed

\* GraphRunner implements GraphPromise: rows, run and gates, as the database
\* shows them, only ever make the moves an owner was promised, however the
\* engine, its promises, lost answers, stops and reclaims interleave.
THEOREM RunsKeepThePromise == Spec => KeepsOwnersPromise
<1>1. Init => Owner!Init
  <2> SUFFICES ASSUME Init PROVE Owner!Init
    OBVIOUS
  <2>1. GateState \ {"OPEN"} = {"NONE", "STALE", "APPROVED", "REJECTED"}
    BY DEF GateState
  <2> QED BY <2>1 DEF Init, Owner!Init
<1>2. TypeInv /\ WorkInv /\ GateInv /\ AgreeInv /\ OwnerInv /\ [Next]_vars
        => [Owner!Next]_<<run, rows, gate, claimed>>
  <2> SUFFICES ASSUME TypeInv, TypeOK, WorkInv, GateInv, AgreeInv, OwnerInv, [Next]_vars,
                      ~UNCHANGED <<run, rows, gate, claimed>>
               PROVE  Owner!Next
    BY DEF TypeInv
  <2>1. CASE Closes
    BY <2>1, ClosesAsPromised DEF Owner!Next
  <2>2. CASE Skip
    <3>1. PICK n \in ToSkip : Writable(n, "SKIPPED") /\ rows' = [rows EXCEPT ![n] = "SKIPPED"]
      BY <2>2 DEF Skip
    <3>2. n \in Nodes /\ run = "RUNNING" /\ rows[n] \in {"PENDING", "RUNNING"}
      BY <3>1 DEF Writable, ToSkip
    <3>3. Owner!GivenUp(n)
      BY <2>2, <3>1, <3>2 DEF Skip, Owner!GivenUp, Owner!Move
    <3> QED BY <3>2, <3>3 DEF Owner!Next
  <2>3. ASSUME NEW n \in Nodes, Promise(n) PROVE Owner!Next
    BY <2>3, PromiseMovesAsPromised DEF Owner!Next
  <2>4. CASE Reclaim
    <3>1. \A n \in Nodes : n \in Owner!In({"PENDING", "RUNNING", "VERIFYING"})
                              <=> rows[n] \in {"PENDING", "RUNNING", "VERIFYING"}
      BY DEF Owner!In
    <3>2. rows' = [n \in Nodes |-> IF n \in Owner!In({"PENDING", "RUNNING", "VERIFYING"})
                                   THEN "CANCELLED" ELSE rows[n]]
      BY <2>4, <3>1 DEF Reclaim
    <3> QED BY <2>4, <3>2 DEF Reclaim, Owner!Reclaimed, Owner!Next
  <2>5. ASSUME NEW n \in Gated, DecideGate(n) PROVE Owner!Next
    BY <2>5 DEF DecideGate, Owner!GateDecided, Owner!Next
  <2>6. CASE HonourPause \/ StopForBudget \/ Round \/ Settle \/ Die \/ TogglePause \/ UNCHANGED vars
    BY <2>6 DEF HonourPause, StopForBudget, Round, Settle, Die, TogglePause, vars, database
  <2> QED BY <2>1, <2>2, <2>3, <2>4, <2>5, <2>6 DEF Next, Engine
<1> QED BY <1>1, <1>2, TypeInvHolds, WorkIsOnRecord, GatesAreHeld, AgreementHolds, OwnerInvHolds,
           PTL DEF Spec, KeepsOwnersPromise, Owner!Spec, Owner!seen
=============================================================================
