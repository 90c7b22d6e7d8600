--------------------------- MODULE RunLeaseProofs ---------------------------
(***************************************************************************)
(* Theorems about RunLease, for every set of runs, workers and agents and  *)
(* every value of the limits.  RunLeaseAssumption is the only assumption.  *)
(***************************************************************************)
EXTENDS RunLease, TLAPS

-----------------------------------------------------------------------------
(* What the transitions do to one run record.                              *)

LEMMA Bounds ==
    /\ 0 \in 0..MaxAttempts
    /\ Expired \in Expired..LeaseTime
    /\ LeaseTime \in Expired..LeaseTime
    /\ Duration \in 0..Duration
BY RunLeaseAssumption DEF Expired

LEMMA SettleType ==
    ASSUME NEW record \in RunRecord, NEW outcome \in RunStatus,
           NEW retryable \in BOOLEAN, NEW error \in ErrorCode
    PROVE  Settle(record, outcome, retryable, error) \in RunRecord
BY Bounds DEF Settle, RunRecord

LEMMA SweptType ==
    ASSUME TypeOK, NEW r \in Runs
    PROVE  /\ SweptRun(r) \in RunRecord
           /\ SweepOutcome(r) \in {"failed", "cancelled"}
<1>1. SweepOutcome(r) \in {"failed", "cancelled"}
  BY DEF SweepOutcome
<1>2. SweepError(r) \in ErrorCode
  BY DEF SweepError, ErrorCode
<1>3. SweptRun(r) \in RunRecord
  BY <1>1, <1>2, SettleType DEF SweptRun, TypeOK, RunStatus
<1> QED BY <1>1, <1>3

LEMMA ClaimedType ==
    ASSUME TypeOK, NEW r \in Runs, NEW w \in Workers, Eligible(r)
    PROVE  /\ run[r].attempt + 1 \in 0..MaxAttempts
           /\ ClaimedRun(r, w) \in RunRecord
<1>1. run[r] \in RunRecord
  BY DEF TypeOK
<1>2. run[r].attempt + 1 \in 0..MaxAttempts
  BY <1>1, RunLeaseAssumption DEF Eligible, RunRecord
<1>3. "running" \in RunStatus /\ "none" \in ErrorCode
  BY DEF RunStatus, ErrorCode
<1>4. ClaimedRun(r, w) \in RunRecord
  BY <1>1, <1>2, <1>3, Bounds DEF ClaimedRun, NewToken, RunRecord
<1> QED BY <1>2, <1>4

LEMMA SweptOthersType ==
    ASSUME TypeOK, NEW swept \in SUBSET Runs
    PROVE  /\ \A a \in Agents : SweptAgent(a, swept) \in AgentRecord
           /\ \A v \in Workers : SweptRow(v, swept) \in RowRecord
BY DEF TypeOK, SweptAgent, SweptRow, AgentRecord, RowRecord

LEMMA VerdictType ==
    ASSUME TypeOK, NEW r \in Runs, NEW outcome \in {"succeeded", "failed", "cancelled"},
           NEW retryable \in BOOLEAN, NEW error \in ErrorCode
    PROVE  Verdict(r, outcome, retryable, error) \in
             [outcome : Terminal, retryable : BOOLEAN, error : ErrorCode]
BY DEF Verdict, Terminal, ErrorCode

LEMMA ElapseType ==
    ASSUME NEW record \in RunRecord
    PROVE  Elapse(record) \in RunRecord
<1> DEFINE lease == IF record.status = "running" /\ record.lease > Expired
                    THEN record.lease - 1 ELSE record.lease
           budget == IF record.started /\ record.budget > 0
                     THEN record.budget - 1 ELSE record.budget
<1>1. lease \in Expired..LeaseTime
  BY RunLeaseAssumption DEF RunRecord, Expired
<1>2. budget \in 0..Duration
  BY RunLeaseAssumption DEF RunRecord
<1>3. Elapse(record) = [record EXCEPT !.lease = lease, !.budget = budget]
  BY DEF Elapse, RunRecord
<1> QED BY <1>1, <1>2, <1>3 DEF RunRecord

\* Time moves only what is left of the lease and of the budget.
LEMMA ElapseFields ==
    ASSUME NEW record \in RunRecord
    PROVE  /\ Elapse(record).status = record.status
           /\ Elapse(record).attempt = record.attempt
           /\ Elapse(record).token = record.token
           /\ Elapse(record).holder = record.holder
           /\ Elapse(record).started = record.started
           /\ Elapse(record).cancel = record.cancel
           /\ Elapse(record).lease = IF record.status = "running" /\ record.lease > Expired
                                     THEN record.lease - 1 ELSE record.lease
BY DEF Elapse, RunRecord

\* Settling keeps the attempt, the cancellation and the clock of a run.
LEMMA SweptFields ==
    ASSUME TypeOK, NEW r \in Runs
    PROVE  /\ SweptRun(r).status = SweepOutcome(r)
           /\ SweptRun(r).attempt = run[r].attempt
           /\ SweptRun(r).started = run[r].started
           /\ SweptRun(r).cancel = run[r].cancel
<1>1. run[r] \in RunRecord
  BY DEF TypeOK
<1> QED BY <1>1 DEF SweptRun, Settle, RunRecord

LEMMA StatusField ==
    ASSUME NEW record \in RunRecord, NEW status
    PROVE  /\ [record EXCEPT !.status = status].status = status
           /\ [record EXCEPT !.status = status].attempt = record.attempt
           /\ [record EXCEPT !.status = status].cancel = record.cancel
           /\ [record EXCEPT !.status = status].started = record.started
           /\ [record EXCEPT !.status = status].token = record.token
BY DEF RunRecord

LEMMA CancelField ==
    ASSUME NEW record \in RunRecord
    PROVE  /\ [record EXCEPT !.cancel = TRUE].status = record.status
           /\ [record EXCEPT !.cancel = TRUE].attempt = record.attempt
           /\ [record EXCEPT !.cancel = TRUE].cancel
           /\ [record EXCEPT !.cancel = TRUE].started = record.started
           /\ [record EXCEPT !.cancel = TRUE].token = record.token
           /\ [record EXCEPT !.cancel = TRUE].lease = record.lease
BY DEF RunRecord

LEMMA CancelledFields ==
    ASSUME NEW record \in RunRecord
    PROVE  /\ [record EXCEPT !.status = "cancelled", !.cancel = TRUE].status = "cancelled"
           /\ [record EXCEPT !.status = "cancelled", !.cancel = TRUE].attempt = record.attempt
           /\ [record EXCEPT !.status = "cancelled", !.cancel = TRUE].cancel
BY DEF RunRecord

\* The owner's calls, on the run they name.
LEMMA OwnerFields ==
    ASSUME TypeOK, NEW r \in Runs
    PROVE  /\ Submit(r) =>
                /\ run'[r].status = "queued"
                /\ run'[r].attempt = run[r].attempt
                /\ run'[r].cancel = run[r].cancel
           /\ CancelQueued(r) =>
                /\ run'[r].status = "cancelled"
                /\ run'[r].attempt = run[r].attempt
                /\ run'[r].cancel
           /\ CancelRunning(r) =>
                /\ run'[r].status = run[r].status
                /\ run'[r].attempt = run[r].attempt
                /\ run'[r].cancel
                /\ run'[r].lease = run[r].lease
                /\ run'[r].token = run[r].token
                /\ run'[r].started = run[r].started
           /\ Retry(r) =>
                /\ run'[r].status = "queued"
                /\ run'[r].attempt = run[r].attempt
                /\ run'[r].cancel = run[r].cancel
<1>0. run[r] \in RunRecord
  BY DEF TypeOK
<1>1. CASE Submit(r)
  <2>1. run'[r] = [run[r] EXCEPT !.status = "queued"]
    BY <1>1 DEF Submit, TypeOK
  <2>2. ~CancelQueued(r) /\ ~CancelRunning(r) /\ ~Retry(r)
    BY <1>1 DEF Submit, CancelQueued, CancelRunning, Retry
  <2> QED BY <1>0, <2>1, <2>2, StatusField
<1>2. CASE CancelQueued(r)
  <2>1. run'[r] = [run[r] EXCEPT !.status = "cancelled", !.cancel = TRUE]
    BY <1>2 DEF CancelQueued, TypeOK
  <2>2. ~Submit(r) /\ ~CancelRunning(r) /\ ~Retry(r)
    BY <1>2 DEF Submit, CancelQueued, CancelRunning, Retry
  <2> QED BY <1>0, <2>1, <2>2, CancelledFields
<1>3. CASE CancelRunning(r)
  <2>1. run'[r] = [run[r] EXCEPT !.cancel = TRUE]
    BY <1>3 DEF CancelRunning, TypeOK
  <2>2. ~Submit(r) /\ ~CancelQueued(r) /\ ~Retry(r)
    BY <1>3 DEF Submit, CancelQueued, CancelRunning, Retry
  <2> QED BY <1>0, <2>1, <2>2, CancelField
<1>4. CASE Retry(r)
  <2>1. run'[r] = Settle(run[r], "queued", FALSE, "none")
    BY <1>4 DEF Retry, TypeOK
  <2>2. ~Submit(r) /\ ~CancelQueued(r) /\ ~CancelRunning(r)
    BY <1>4 DEF Submit, CancelQueued, CancelRunning, Retry
  <2> QED BY <1>0, <2>1, <2>2 DEF Settle, RunRecord
<1> QED BY <1>1, <1>2, <1>3, <1>4

-----------------------------------------------------------------------------
(* Type correctness.                                                       *)

LEMMA RecordType ==
    ASSUME TypeOK, NEW w \in Workers, NEW r \in Runs,
           NEW verdict \in [outcome : Terminal, retryable : BOOLEAN, error : ErrorCode],
           Record(w, r, verdict)
    PROVE  /\ run' \in [Runs -> RunRecord]
           /\ task' \in [Runs -> TaskStatus]
           /\ command' \in [Runs -> CommandStatus]
           /\ agent' \in [Agents -> AgentRecord]
           /\ row' \in [Workers -> RowRecord]
<1>1. Settle(run[r], verdict.outcome, verdict.retryable, verdict.error) \in RunRecord
  BY SettleType DEF TypeOK, Terminal, RunStatus
<1>2. run' \in [Runs -> RunRecord]
  BY <1>1 DEF TypeOK, Record
<1>3. task' \in [Runs -> TaskStatus] /\ command' \in [Runs -> CommandStatus]
  BY DEF TypeOK, Record, TaskOutcome, Terminal, TaskStatus, CommandStatus
<1>4. agent' \in [Agents -> AgentRecord]
  BY DEF TypeOK, Record, AgentRecord
<1>5. row' \in [Workers -> RowRecord]
  BY DEF TypeOK, Record, RowRecord
<1> QED BY <1>2, <1>3, <1>4, <1>5

(* A process that is not executing a run. *)
LEMMA OffType ==
    ASSUME NEW pc \in {"off", "ready", "polling", "busy", "failing", "exiting"}
    PROVE  Off \in ProcRecord /\ [Off EXCEPT !.pc = pc] \in ProcRecord
BY Bounds DEF Off, ProcRecord

LEMMA TypeInit == Init => TypeOK
<1> SUFFICES ASSUME Init PROVE TypeOK
  OBVIOUS
<1>1. NewRun \in RunRecord
  BY Bounds DEF NewRun, RunRecord, RunStatus, ErrorCode
<1>2. Off \in ProcRecord
  BY OffType
<1> QED
  BY <1>1, <1>2 DEF Init, TypeOK, TaskStatus, CommandStatus, AgentRecord, RowRecord

LEMMA TypeStep == TypeOK /\ [Next]_vars => TypeOK'
<1> SUFFICES ASSUME TypeOK, [Next]_vars PROVE TypeOK'
  OBVIOUS
<1> USE RunLeaseAssumption
<1>a. ASSUME NEW r \in Runs, NEW status \in RunStatus, NEW cancel \in BOOLEAN
      PROVE [run[r] EXCEPT !.status = status, !.cancel = cancel] \in RunRecord
  <2>1. run[r] \in RunRecord
    BY DEF TypeOK
  <2> QED BY <2>1 DEF RunRecord
<1>b. ASSUME NEW r \in Runs, NEW status \in RunStatus
      PROVE /\ [run[r] EXCEPT !.status = status] \in RunRecord
            /\ [run[r] EXCEPT !.cancel = TRUE] \in RunRecord
  <2>1. run[r] \in RunRecord
    BY DEF TypeOK
  <2> QED BY <2>1 DEF RunRecord
<1>1. ASSUME NEW r \in Runs, Submit(r) PROVE TypeOK'
  <2>1. [run[r] EXCEPT !.status = "queued"] \in RunRecord
    BY <1>b DEF RunStatus
  <2> QED BY <1>1, <2>1 DEF Submit, TypeOK, TaskStatus, CommandStatus
<1>2. ASSUME NEW r \in Runs, RequestCancellation(r) PROVE TypeOK'
  <2>1. CASE CancelQueued(r)
    <3>1. [run[r] EXCEPT !.status = "cancelled", !.cancel = TRUE] \in RunRecord
      BY <1>a DEF RunStatus
    <3>2. run' = [run EXCEPT ![r] = [run[r] EXCEPT !.status = "cancelled", !.cancel = TRUE]]
      BY <2>1 DEF CancelQueued, TypeOK
    <3> QED BY <2>1, <3>1, <3>2 DEF CancelQueued, TypeOK, TaskStatus, CommandStatus
  <2>2. CASE CancelRunning(r)
    <3>1. [run[r] EXCEPT !.cancel = TRUE] \in RunRecord
      BY <1>b DEF RunStatus
    <3> QED BY <2>2, <3>1 DEF CancelRunning, TypeOK
  <2> QED BY <1>2, <2>1, <2>2 DEF RequestCancellation
<1>3. ASSUME NEW r \in Runs, Retry(r) PROVE TypeOK'
  <2>1. Settle(run[r], "queued", FALSE, "none") \in RunRecord
    BY SettleType DEF TypeOK, RunStatus, ErrorCode
  <2> QED BY <1>3, <2>1 DEF Retry, TypeOK, TaskStatus, CommandStatus
<1>4. ASSUME NEW w \in Workers, NEW scope \in Scopes, PollEmpty(w, scope) PROVE TypeOK'
  <2> DEFINE swept == {r \in scope : Exhausted(r)}
  <2>1. swept \in SUBSET Runs
    BY DEF Scopes
  <2>2. run' \in [Runs -> RunRecord]
    BY <1>4, SweptType DEF PollEmpty, TypeOK
  <2>3. task' \in [Runs -> TaskStatus] /\ command' \in [Runs -> CommandStatus]
    BY <1>4, SweptType DEF PollEmpty, TypeOK, TaskStatus, CommandStatus
  <2>4. agent' \in [Agents -> AgentRecord] /\ row' \in [Workers -> RowRecord]
    BY <1>4, <2>1, SweptOthersType DEF PollEmpty
  <2>5. proc' \in [Workers -> ProcRecord]
    BY <1>4 DEF PollEmpty, TypeOK, ProcRecord
  <2> QED BY <2>2, <2>3, <2>4, <2>5 DEF TypeOK
<1>5. ASSUME NEW w \in Workers, NEW scope \in Scopes, NEW r \in Runs,
             NEW delivered \in BOOLEAN, Claim(w, scope, r, delivered)
      PROVE TypeOK'
  <2> DEFINE swept == {x \in scope : Exhausted(x)}
  <2>1. swept \in SUBSET Runs
    BY DEF Scopes
  <2>2. Eligible(r) /\ ClaimedRun(r, w) \in RunRecord
    BY <1>5, ClaimedType DEF Claim
  <2>3. run' \in [Runs -> RunRecord]
    BY <1>5, <2>2, SweptType DEF Claim, TypeOK
  <2>4. task' \in [Runs -> TaskStatus] /\ command' \in [Runs -> CommandStatus]
    BY <1>5, SweptType DEF Claim, TypeOK, TaskStatus, CommandStatus
  <2>5. agent' \in [Agents -> AgentRecord]
    BY <1>5, <2>1, SweptOthersType DEF Claim, AgentRecord
  <2>6. row' \in [Workers -> RowRecord]
    <3>1. \A v \in Workers : /\ SweptRow(v, swept) \in RowRecord
                             /\ [SweptRow(v, swept) EXCEPT !.current = r] \in RowRecord
      BY <2>1, SweptOthersType DEF RowRecord
    <3>2. row' = [v \in Workers |-> IF v = w
                                    THEN [SweptRow(v, swept) EXCEPT !.current = r]
                                    ELSE SweptRow(v, swept)]
      BY <1>5 DEF Claim
    <3> QED BY <3>1, <3>2
  <2>7. [pc |-> "busy", run |-> r, token |-> NewToken(r), stop |-> FALSE] \in ProcRecord
    BY <2>2, ClaimedType DEF ProcRecord, NewToken
  <2>8. proc' \in [Workers -> ProcRecord]
    BY <1>5, <2>7, OffType DEF Claim, TypeOK
  <2> QED BY <2>3, <2>4, <2>5, <2>6, <2>8 DEF TypeOK
<1>6. ASSUME NEW w \in Workers, Register(w) \/ IdleHeartbeat(w) \/ Finish(w)
             \/ Crash(w) \/ Refused(w)
      PROVE TypeOK'
  <2>0. row[w] \in RowRecord
    BY DEF TypeOK
  <2>1. row' \in [Workers -> RowRecord]
    <3>1. /\ [row[w] EXCEPT !.status = "active"] \in RowRecord
          /\ [row[w] EXCEPT !.current = Nobody] \in RowRecord
      BY <2>0 DEF RowRecord
    <3>2. \A status \in {"idle", "error"} : [status |-> status, current |-> Nobody] \in RowRecord
      BY DEF RowRecord
    <3> QED BY <1>6, <3>1, <3>2 DEF Register, IdleHeartbeat, Finish, Crash, Refused, TypeOK
  <2>2. \A pc \in {"ready", "polling", "exiting"} : [proc[w] EXCEPT !.pc = pc] \in ProcRecord
    BY DEF TypeOK, ProcRecord
  <2>3. proc' \in [Workers -> ProcRecord]
    BY <1>6, <2>2, OffType DEF Register, IdleHeartbeat, Finish, Crash, Refused, TypeOK
  <2> QED
    BY <1>6, <2>1, <2>3
    DEF Register, IdleHeartbeat, Finish, Crash, Refused, TypeOK
<1>7. ASSUME NEW w \in Workers, Heartbeat(w) PROVE TypeOK'
  <2>1. proc[w].run \in Runs
    BY <1>7 DEF Heartbeat, HoldsLease
  <2>2. run[proc[w].run] \in RunRecord
    BY <2>1 DEF TypeOK
  <2>3. Lesser(run[proc[w].run].budget, LeaseTime) \in Expired..LeaseTime
    BY <2>2 DEF Lesser, RunRecord, Expired
  <2>4. [run[proc[w].run] EXCEPT !.lease = Lesser(run[proc[w].run].budget, LeaseTime)]
          \in RunRecord
    BY <2>2, <2>3 DEF RunRecord
  <2>5. run' \in [Runs -> RunRecord]
    BY <1>7, <2>1, <2>4 DEF Heartbeat, TypeOK
  <2>6. row' \in [Workers -> RowRecord]
    BY <1>7, <2>1 DEF Heartbeat, TypeOK, RowRecord
  <2>7. [proc[w] EXCEPT !.stop = run[proc[w].run].cancel] \in ProcRecord
    <3>1. proc[w] \in ProcRecord /\ run[proc[w].run].cancel \in BOOLEAN
      BY <2>2 DEF TypeOK, RunRecord
    <3> QED BY <3>1 DEF ProcRecord
  <2>8. proc' \in [Workers -> ProcRecord]
    BY <1>7, <2>7 DEF Heartbeat, TypeOK
  <2> QED BY <1>7, <2>5, <2>6, <2>8 DEF Heartbeat, TypeOK
<1>8. ASSUME NEW w \in Workers, NEW delivered \in BOOLEAN, Complete(w, delivered)
      PROVE TypeOK'
  <2>1. proc[w].run \in Runs
    BY <1>8 DEF Complete, HoldsLease
  <2>2. Verdict(proc[w].run, "succeeded", FALSE, "none")
          \in [outcome : Terminal, retryable : BOOLEAN, error : ErrorCode]
    BY <2>1, VerdictType DEF ErrorCode
  <2>3. [proc[w] EXCEPT !.pc = "failing"] \in ProcRecord
    BY DEF TypeOK, ProcRecord
  <2>4. proc' \in [Workers -> ProcRecord]
    BY <1>8, <2>3, OffType DEF Complete, TypeOK
  <2>5. CASE Record(w, proc[w].run, Verdict(proc[w].run, "succeeded", FALSE, "none"))
    BY <2>1, <2>2, <2>4, <2>5, RecordType DEF TypeOK
  <2>6. CASE UNCHANGED <<run, task, command, agent, row>>
    BY <2>4, <2>6 DEF TypeOK
  <2> QED BY <1>8, <2>5, <2>6 DEF Complete
<1>9. ASSUME NEW w \in Workers, NEW retryable \in BOOLEAN, NEW delivered \in BOOLEAN,
             NEW error \in {"timed_out", "worker_error"}, Fail(w, retryable, error, delivered)
      PROVE TypeOK'
  <2>1. proc[w].run \in Runs
    BY <1>9 DEF Fail, HoldsLease
  <2> DEFINE verdict == IF proc[w].stop
                        THEN Verdict(proc[w].run, "cancelled", FALSE, "none")
                        ELSE Verdict(proc[w].run, "failed", retryable, error)
  <2>2. verdict \in [outcome : Terminal, retryable : BOOLEAN, error : ErrorCode]
    BY <2>1, VerdictType DEF ErrorCode
  <2>3. PICK pc \in {"ready", "exiting"} : proc' = [proc EXCEPT ![w] = [Off EXCEPT !.pc = pc]]
    <3>1. proc' = [proc EXCEPT ![w] = [Off EXCEPT !.pc = IF delivered THEN "ready" ELSE "exiting"]]
      BY <1>9 DEF Fail
    <3> QED BY <3>1
  <2>4. proc' \in [Workers -> ProcRecord]
    BY <2>3, OffType DEF TypeOK
  <2>5. Record(w, proc[w].run, verdict)
    BY <1>9 DEF Fail
  <2> QED BY <2>1, <2>2, <2>4, <2>5, RecordType DEF TypeOK
<1>10. CASE Tick
  <2>1. run' \in [Runs -> RunRecord]
    BY <1>10, ElapseType DEF Tick, TypeOK
  <2> QED BY <1>10, <2>1 DEF Tick, TypeOK
<1>11. CASE UNCHANGED vars
  BY <1>11 DEF vars, TypeOK
<1> QED
  BY <1>1, <1>2, <1>3, <1>4, <1>5, <1>6, <1>7, <1>8, <1>9, <1>10, <1>11
  DEF Next, OwnerNext, PollNext, WorkerNext

(* Every reachable state of the lease protocol is well typed: attempts     *)
(* stay within max_attempts, leases within the lease time and budgets      *)
(* within the duration.                                                    *)
THEOREM TypeCorrect == Spec => []TypeOK
BY TypeInit, TypeStep, PTL DEF Spec
-----------------------------------------------------------------------------
(* Two active leases of one agent.                                         *)

\* A claim makes no other run live.
LEMMA ClaimMakesOneLive ==
    ASSUME TypeOK, NEW w \in Workers, NEW scope \in Scopes, NEW r \in Runs,
           NEW delivered \in BOOLEAN, Claim(w, scope, r, delivered),
           NEW s \in Runs, s # r, Live(s)'
    PROVE  Live(s)
<1>1. run'[s] = SweptRun(s) \/ run'[s] = run[s]
  BY DEF Claim
<1>2. SweptRun(s).status # "running"
  BY SweptFields DEF SweepOutcome
<1> QED BY <1>1, <1>2 DEF Live

\* Nothing but a claim makes a run live: a heartbeat needs the lease it extends.
LEMMA OnlyClaimsMakeLive ==
    ASSUME TypeOK, [Next]_vars, NEW r \in Runs, Live(r)', ~Live(r)
    PROVE  \E w \in Workers, scope \in Scopes, delivered \in BOOLEAN :
              Claim(w, scope, r, delivered)
<1>0. run[r] \in RunRecord
  BY DEF TypeOK
<1>1. run'[r] # run[r]
  BY DEF Live
<1>2. ASSUME NEW q \in Runs, Submit(q) \/ RequestCancellation(q) \/ Retry(q) PROVE FALSE
  <2>1. q = r
    BY <1>1, <1>2 DEF Submit, RequestCancellation, CancelQueued, CancelRunning, Retry, TypeOK
  <2>2. CASE Submit(r)
    BY <2>2, OwnerFields DEF Live
  <2>3. CASE CancelQueued(r)
    BY <2>3, OwnerFields DEF Live
  <2>4. CASE CancelRunning(r)
    BY <2>4, OwnerFields DEF Live
  <2>5. CASE Retry(r)
    BY <2>5, OwnerFields DEF Live
  <2> QED BY <1>2, <2>1, <2>2, <2>3, <2>4, <2>5 DEF RequestCancellation
<1>3. ASSUME NEW w \in Workers, NEW scope \in Scopes, PollEmpty(w, scope) PROVE FALSE
  <2>1. run'[r] = SweptRun(r)
    BY <1>1, <1>3 DEF PollEmpty
  <2> QED BY <2>1, SweptFields DEF Live, SweepOutcome
<1>4. ASSUME NEW w \in Workers, NEW scope \in Scopes, NEW q \in Runs,
             NEW delivered \in BOOLEAN, Claim(w, scope, q, delivered), q # r
      PROVE FALSE
  BY <1>4, ClaimMakesOneLive
<1>5. ASSUME NEW w \in Workers, Heartbeat(w) PROVE FALSE
  BY <1>1, <1>5 DEF Heartbeat, HoldsLease, Live, TypeOK
<1>6. ASSUME NEW w \in Workers, NEW q \in Runs, NEW verdict, Record(w, q, verdict),
             verdict.outcome \in Terminal
      PROVE FALSE
  <2>1. q = r
    BY <1>1, <1>6 DEF Record, TypeOK
  <2>2. run'[r].status = verdict.outcome
    <3>1. run'[r] = Settle(run[r], verdict.outcome, verdict.retryable, verdict.error)
      BY <1>6, <2>1 DEF Record, TypeOK
    <3> QED BY <1>0, <3>1 DEF Settle, RunRecord
  <2> QED BY <1>6, <2>2 DEF Live, Terminal
<1>7. ASSUME NEW w \in Workers, NEW delivered \in BOOLEAN, Complete(w, delivered) PROVE FALSE
  <2>1. proc[w].run \in Runs
    BY <1>7 DEF Complete, HoldsLease
  <2>2. Verdict(proc[w].run, "succeeded", FALSE, "none").outcome \in Terminal
    BY DEF Verdict, Terminal
  <2> QED BY <1>1, <1>6, <1>7, <2>1, <2>2 DEF Complete
<1>8. ASSUME NEW w \in Workers, NEW retryable \in BOOLEAN, NEW delivered \in BOOLEAN,
             NEW error \in {"timed_out", "worker_error"}, Fail(w, retryable, error, delivered)
      PROVE FALSE
  <2>1. proc[w].run \in Runs
    BY <1>8 DEF Fail, HoldsLease
  <2> DEFINE verdict == IF proc[w].stop
                        THEN Verdict(proc[w].run, "cancelled", FALSE, "none")
                        ELSE Verdict(proc[w].run, "failed", retryable, error)
  <2>2. verdict.outcome \in Terminal
    BY DEF Verdict, Terminal
  <2>3. Record(w, proc[w].run, verdict)
    BY <1>8 DEF Fail
  <2> QED BY <1>6, <2>1, <2>2, <2>3
<1>9. ASSUME Tick PROVE FALSE
  <2>1. run'[r] = Elapse(run[r])
    BY <1>9 DEF Tick
  <2> QED BY <1>0, <2>1, ElapseFields DEF Live, RunRecord, Expired
<1> QED
  BY <1>1, <1>2, <1>3, <1>4, <1>5, <1>7, <1>8, <1>9
  DEF Next, OwnerNext, PollNext, WorkerNext, Register, IdleHeartbeat, 
      Finish, Crash, Refused, vars

(* One neutral logical agent never holds two live leases, whatever workers *)
(* poll, take over and come back: AgentSerial is inductive once only       *)
(* claims are known to make a run live.                                    *)
THEOREM AgentsAreSerial == Spec => []AgentSerial
<1>1. Init => AgentSerial
  BY DEF Init, AgentSerial, Live, NewRun
<1>2. TypeOK /\ AgentSerial /\ [Next]_vars => AgentSerial'
  <2> SUFFICES ASSUME TypeOK, AgentSerial, [Next]_vars,
                      NEW r \in Runs, NEW s \in Runs, r # s, AgentOf[r] = AgentOf[s],
                      Live(r)', Live(s)'
               PROVE  FALSE
    BY DEF AgentSerial, Live
  <2>1. ASSUME NEW x \in Runs, NEW y \in Runs, x # y, AgentOf[x] = AgentOf[y],
               Live(y)', NEW w \in Workers, NEW scope \in Scopes,
               NEW delivered \in BOOLEAN, Claim(w, scope, x, delivered)
        PROVE  FALSE
    <3>1. ~Live(y)
      BY <2>1 DEF Claim, Eligible
    <3> QED BY <2>1, <3>1, ClaimMakesOneLive
  <2>2. Live(r) /\ Live(s)
    BY <2>1, OnlyClaimsMakeLive
  <2> QED BY <2>2 DEF AgentSerial
<1> QED BY <1>1, <1>2, TypeCorrect, PTL DEF Spec
=============================================================================
