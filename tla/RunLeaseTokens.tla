--------------------------- MODULE RunLeaseTokens ---------------------------
(***************************************************************************)
(* Who may speak for a run: leases, tokens and worker rows, for every set  *)
(* of runs, workers and agents and every limit.  A token names one         *)
(* process; only the process with the token of the latest attempt settles  *)
(* a run as succeeded; no sweep marks a worker that holds a live lease; no *)
(* worker holds more leases than it may; prerequisites stay completed.     *)
(***************************************************************************)
EXTENDS RunLeasePromise, FiniteSetTheorems

-----------------------------------------------------------------------------
(* What a step does to one run record.                                     *)

Reports(w, r) ==
    /\ proc[w].run = r /\ HoldsLease(w)
    /\ \E verdict \in [outcome : Terminal, retryable : BOOLEAN, error : ErrorCode] :
          Record(w, r, verdict)

LEMMA RunCases ==
    ASSUME TypeOK, [Next]_vars, NEW r \in Runs
    PROVE  \/ run'[r] = run[r]
           \/ Submit(r) \/ CancelQueued(r) \/ CancelRunning(r) \/ Retry(r)
           \/ Exhausted(r) /\ run'[r] = SweptRun(r)
           \/ \E w \in Workers, scope \in Scopes, delivered \in BOOLEAN :
                 Claim(w, scope, r, delivered)
           \/ \E w \in Workers : Heartbeat(w) /\ proc[w].run = r
           \/ \E w \in Workers : Reports(w, r)
           \/ run'[r] = Elapse(run[r])
<1> SUFFICES ASSUME run'[r] # run[r]
             PROVE  \/ Submit(r) \/ CancelQueued(r) \/ CancelRunning(r) \/ Retry(r)
                    \/ Exhausted(r) /\ run'[r] = SweptRun(r)
                    \/ \E w \in Workers, scope \in Scopes, delivered \in BOOLEAN :
                          Claim(w, scope, r, delivered)
                    \/ \E w \in Workers : Heartbeat(w) /\ proc[w].run = r
                    \/ \E w \in Workers : Reports(w, r)
                    \/ run'[r] = Elapse(run[r])
  OBVIOUS
<1>1. ASSUME NEW q \in Runs, Submit(q) \/ RequestCancellation(q) \/ Retry(q)
      PROVE  Submit(r) \/ CancelQueued(r) \/ CancelRunning(r) \/ Retry(r)
  <2>1. q = r
    BY <1>1 DEF Submit, RequestCancellation, CancelQueued, CancelRunning, Retry, TypeOK
  <2> QED BY <1>1, <2>1 DEF RequestCancellation
<1>2. ASSUME NEW w \in Workers, NEW scope \in Scopes, PollEmpty(w, scope)
      PROVE  Exhausted(r) /\ run'[r] = SweptRun(r)
  BY <1>2 DEF PollEmpty
<1>3. ASSUME NEW w \in Workers, NEW scope \in Scopes, NEW q \in Runs,
             NEW delivered \in BOOLEAN, Claim(w, scope, q, delivered), q # r
      PROVE  Exhausted(r) /\ run'[r] = SweptRun(r)
  BY <1>3 DEF Claim
<1>4. ASSUME NEW w \in Workers, Heartbeat(w) PROVE proc[w].run = r
  BY <1>4 DEF Heartbeat, TypeOK
<1>5. ASSUME NEW w \in Workers, HoldsLease(w),
             NEW verdict \in [outcome : Terminal, retryable : BOOLEAN, error : ErrorCode],
             Record(w, proc[w].run, verdict)
      PROVE  Reports(w, r)
  <2>1. proc[w].run = r
    BY <1>5 DEF Record, HoldsLease, TypeOK
  <2> QED BY <1>5, <2>1 DEF Reports
<1>6. ASSUME NEW w \in Workers, NEW delivered \in BOOLEAN, Complete(w, delivered)
      PROVE  Reports(w, r)
  <2>1. HoldsLease(w) /\ proc[w].run \in Runs
    BY <1>6 DEF Complete, HoldsLease
  <2>2. Verdict(proc[w].run, "succeeded", FALSE, "none")
          \in [outcome : Terminal, retryable : BOOLEAN, error : ErrorCode]
    BY <2>1, VerdictType DEF ErrorCode
  <2>3. Record(w, proc[w].run, Verdict(proc[w].run, "succeeded", FALSE, "none"))
    BY <1>6 DEF Complete
  <2> QED BY <1>5, <2>1, <2>2, <2>3
<1>7. ASSUME NEW w \in Workers, NEW retryable \in BOOLEAN, NEW delivered \in BOOLEAN,
             NEW error \in {"timed_out", "worker_error"}, Fail(w, retryable, error, delivered)
      PROVE  Reports(w, r)
  <2>1. HoldsLease(w) /\ proc[w].run \in Runs
    BY <1>7 DEF Fail, HoldsLease
  <2> DEFINE verdict == IF proc[w].stop
                        THEN Verdict(proc[w].run, "cancelled", FALSE, "none")
                        ELSE Verdict(proc[w].run, "failed", retryable, error)
  <2>2. verdict \in [outcome : Terminal, retryable : BOOLEAN, error : ErrorCode]
    BY <2>1, VerdictType DEF ErrorCode
  <2>3. Record(w, proc[w].run, verdict)
    BY <1>7 DEF Fail
  <2> QED BY <1>5, <2>1, <2>2, <2>3
<1>8. ASSUME Tick PROVE run'[r] = Elapse(run[r])
  BY <1>8 DEF Tick
<1> QED
  BY <1>1, <1>2, <1>3, <1>4, <1>6, <1>7, <1>8
  DEF Next, OwnerNext, PollNext, WorkerNext, Register, IdleHeartbeat,
      Finish, Crash, Refused, vars

\* What each of these leaves of a record, in the fields the proofs are about.
LEMMA HeartbeatFields ==
    ASSUME TypeOK, NEW w \in Workers, NEW r \in Runs, Heartbeat(w), proc[w].run = r
    PROVE  /\ run'[r].status = run[r].status /\ run'[r].attempt = run[r].attempt
           /\ run'[r].token = run[r].token /\ run'[r].holder = run[r].holder
           /\ run'[r].started = run[r].started
<1>1. run[r] \in RunRecord
  BY DEF TypeOK
<1>2. PICK lease : run'[r] = [run[r] EXCEPT !.lease = lease]
  BY DEF Heartbeat, TypeOK
<1> QED BY <1>1, <1>2 DEF RunRecord

LEMMA ReportFields ==
    ASSUME TypeOK, NEW w \in Workers, NEW r \in Runs, Reports(w, r)
    PROVE  /\ run'[r].status \in Terminal
           /\ run'[r].attempt = run[r].attempt
           /\ run'[r].started = run[r].started
<1>1. run[r] \in RunRecord
  BY DEF TypeOK
<1>2. PICK verdict \in [outcome : Terminal, retryable : BOOLEAN, error : ErrorCode] :
         Record(w, r, verdict)
  BY DEF Reports
<1>3. run'[r] = Settle(run[r], verdict.outcome, verdict.retryable, verdict.error)
  BY <1>2 DEF Record, TypeOK
<1> QED BY <1>1, <1>2, <1>3, SettledFields

\* A run that goes on running without a claim keeps its holder and its token.
LEMMA LeasesAreKept ==
    ASSUME TypeOK, [Next]_vars, NEW r \in Runs, run'[r].status = "running",
           ~\E w \in Workers, scope \in Scopes, delivered \in BOOLEAN :
               Claim(w, scope, r, delivered)
    PROVE  /\ run[r].status = "running" /\ run'[r].attempt = run[r].attempt
           /\ run'[r].token = run[r].token /\ run'[r].holder = run[r].holder
<1>0. run[r] \in RunRecord
  BY DEF TypeOK
<1>1. CASE Submit(r) \/ CancelQueued(r) \/ Retry(r)
  BY <1>1, OwnerFields
<1>2. CASE CancelRunning(r)
  <2>1. run'[r] = [run[r] EXCEPT !.cancel = TRUE]
    BY <1>2 DEF CancelRunning, TypeOK
  <2> QED BY <1>0, <1>2, <2>1 DEF CancelRunning, RunRecord
<1>3. CASE Exhausted(r) /\ run'[r] = SweptRun(r)
  BY <1>3, SweptFields, SweptType
<1>4. ASSUME NEW w \in Workers, Heartbeat(w), proc[w].run = r
      PROVE  /\ run[r].status = "running" /\ run'[r].attempt = run[r].attempt
             /\ run'[r].token = run[r].token /\ run'[r].holder = run[r].holder
  BY <1>4, HeartbeatFields
<1>5. ASSUME NEW w \in Workers, Reports(w, r) PROVE FALSE
  BY <1>5, ReportFields DEF Terminal
<1>6. CASE run'[r] = Elapse(run[r])
  BY <1>0, <1>6, ElapseFields
<1>7. CASE run'[r] = run[r]
  BY <1>7
<1> QED BY <1>1, <1>2, <1>3, <1>4, <1>5, <1>6, <1>7, RunCases

-----------------------------------------------------------------------------
(* Tokens.                                                                 *)

\* A running run is run under the token of its latest attempt.
LeasesNameAttempts ==
    \A r \in Runs : run[r].status = "running" =>
        run[r].token = run[r].attempt /\ run[r].attempt > 0

\* No process has a token that was not given out yet.
TokensWereGiven ==
    \A w \in Workers : proc[w].run \in Runs =>
        proc[w].token <= run[proc[w].run].attempt

TokenInv == MoveInv /\ LeasesNameAttempts /\ TokensWereGiven /\ TokensAreExclusive

LEMMA LeasesNameAttemptsStays ==
    ASSUME TypeOK, LeasesNameAttempts, [Next]_vars
    PROVE  LeasesNameAttempts'
<1> SUFFICES ASSUME NEW r \in Runs, run'[r].status = "running"
             PROVE  run'[r].token = run'[r].attempt /\ run'[r].attempt > 0
  BY DEF LeasesNameAttempts
<1>1. CASE \E w \in Workers, scope \in Scopes, delivered \in BOOLEAN :
              Claim(w, scope, r, delivered)
  <2>1. PICK w \in Workers : run'[r] = ClaimedRun(r, w)
    BY <1>1 DEF Claim
  <2>2. run[r].attempt \in 0..MaxAttempts
    BY DEF TypeOK, RunRecord
  <2> QED BY <2>1, <2>2, ClaimedFields, RunLeaseAssumption
<1>2. CASE ~\E w \in Workers, scope \in Scopes, delivered \in BOOLEAN :
              Claim(w, scope, r, delivered)
  BY <1>2, LeasesAreKept DEF LeasesNameAttempts
<1> QED BY <1>1, <1>2

\* No move takes an attempt back.
LEMMA AttemptsGrow ==
    ASSUME TypeOK, NEW r \in Runs, Moves(r)
    PROVE  /\ run[r].attempt \in Nat /\ run'[r].attempt \in Nat
           /\ run[r].attempt <= run'[r].attempt
<1>1. run[r].attempt \in 0..MaxAttempts
  BY DEF TypeOK, RunRecord
<1>2. run'[r].attempt \in {run[r].attempt, run[r].attempt + 1}
  BY DEF Moves, Stays, IsSubmitted, IsStarted, IsStopAsked, IsSettledIn, IsRequeued, MoveTo
<1> QED BY <1>1, <1>2, RunLeaseAssumption

LEMMA TokensWereGivenStays ==
    ASSUME MoveInv, TokensWereGiven, [Next]_vars
    PROVE  TokensWereGiven'
<1> SUFFICES ASSUME NEW w \in Workers, proc'[w].run \in Runs
             PROVE  proc'[w].token <= run'[proc'[w].run].attempt
  BY DEF TokensWereGiven
<1>0. TypeOK /\ \A r \in Runs : Moves(r)
  BY EveryRunMoves DEF MoveInv
<1>1. CASE KeepsRun(w) \/ Heartbeat(w)
  <2>1. proc'[w].run = proc[w].run /\ proc'[w].token = proc[w].token
    BY <1>0, <1>1, ToldAndTaken DEF KeepsRun
  <2>2. proc[w].token \in Nat
    BY <1>0, RunLeaseAssumption DEF TypeOK, ProcRecord
  <2> QED BY <1>0, <2>1, <2>2, AttemptsGrow DEF TokensWereGiven
<1>2. CASE LeavesRun(w)
  BY <1>2, RunLeaseAssumption DEF LeavesRun
<1>3. CASE TakesRun(w)
  <2>1. PICK scope \in Scopes, r \in Runs : Claim(w, scope, r, TRUE)
    BY <1>3 DEF TakesRun
  <2>2. proc'[w].run = r /\ proc'[w].token = run[r].attempt + 1
    BY <1>0, <2>1, ToldAndTaken
  <2>3. run'[r] = ClaimedRun(r, w)
    BY <2>1 DEF Claim
  <2>4. run'[r].attempt = run[r].attempt + 1 /\ run[r].attempt \in Nat
    BY <1>0, <2>3, ClaimedFields, AttemptsGrow
  <2> QED BY <2>2, <2>4
<1> QED BY <1>0, <1>1, <1>2, <1>3, EveryProcessMoves

LEMMA TokensStayExclusive ==
    ASSUME MoveInv, TokensWereGiven, TokensAreExclusive, [Next]_vars
    PROVE  TokensAreExclusive'
<1> SUFFICES ASSUME NEW v \in Workers, NEW w \in Workers, proc'[v].run = proc'[w].run,
                    proc'[v].run \in Runs, proc'[v].token = proc'[w].token, v # w
             PROVE  FALSE
  BY DEF TokensAreExclusive
<1>0. TypeOK /\ \A r \in Runs : Moves(r)
  BY EveryRunMoves DEF MoveInv
<1>1. ASSUME NEW x \in {v, w}
      PROVE  TakesRun(x) \/ (proc'[x].run = proc[x].run /\ proc'[x].token = proc[x].token)
  <2>1. ~LeavesRun(x)
    BY RunLeaseAssumption DEF LeavesRun
  <2> QED BY <1>0, <2>1, EveryProcessMoves, ToldAndTaken DEF KeepsRun
<1>2. ASSUME NEW x \in Workers, NEW y \in Workers, x # y, TakesRun(x),
             proc'[x].run = proc'[y].run, proc'[x].token = proc'[y].token
      PROVE  FALSE
  <2>1. PICK scope \in Scopes, r \in Runs : Claim(x, scope, r, TRUE)
    BY <1>2 DEF TakesRun
  <2>2. proc'[x].run = r /\ proc'[x].token = run[r].attempt + 1 /\ run[r].attempt \in Nat
    BY <1>0, <2>1, ToldAndTaken, AttemptsGrow
  <2>3. proc'[y] = proc[y]
    BY <1>0, <1>2, <2>1 DEF Claim, TypeOK
  <2>4. proc[y].run = r /\ proc[y].token = run[r].attempt + 1
    BY <1>2, <2>2, <2>3
  <2>5. proc[y].token <= run[r].attempt
    BY <2>4 DEF TokensWereGiven
  <2> QED BY <2>2, <2>4, <2>5
<1>3. ~TakesRun(v) /\ ~TakesRun(w)
  BY <1>2
<1> QED BY <1>1, <1>3 DEF TokensAreExclusive

LEMMA TokenInvHolds == Spec => []TokenInv
<1>1. Init => TokenInv
  <2> SUFFICES ASSUME Init PROVE TokenInv
    OBVIOUS
  <2>1. LeasesNameAttempts
    BY DEF Init, NewRun, LeasesNameAttempts
  <2>2. \A w \in Workers : proc[w].run \notin Runs
    BY RunLeaseAssumption DEF Init, Off
  <2>3. MoveInv
    <3>1. StopsAreAsked
      BY DEF Init, StopsAreAsked, Off
    <3>2. StopsInProgress
      BY DEF Init, StopsInProgress, NewRun
    <3> QED BY <3>1, <3>2, TypeInit DEF MoveInv
  <2> QED BY <2>1, <2>2, <2>3 DEF TokenInv, TokensWereGiven, TokensAreExclusive
<1>2. TokenInv /\ [Next]_vars => TokenInv'
  BY MoveInvStays, LeasesNameAttemptsStays, TokensWereGivenStays, TokensStayExclusive
  DEF TokenInv, MoveInv
<1> QED BY <1>1, <1>2, PTL DEF Spec

(* A lease token names one process, so the database can tell a stale       *)
(* process from the one that took its run over.  Inductive once no process *)
(* has a token above the attempts of its run.                              *)
THEOREM TokensNameOneProcess == Spec => []TokensAreExclusive
<1>1. TokenInv => TokensAreExclusive
  BY DEF TokenInv
<1> QED BY <1>1, TokenInvHolds, PTL

LEMMA OnlyCompletionSucceeds ==
    ASSUME TypeOK, StopsAreAsked, [Next]_vars, NEW r \in Runs,
           run[r].status # "succeeded", run'[r].status = "succeeded"
    PROVE  \E w \in Workers, delivered \in BOOLEAN :
              /\ Complete(w, delivered) /\ proc[w].run = r
              /\ Verdict(r, "succeeded", FALSE, "none").outcome = "succeeded"
<1>0. run[r] \in RunRecord /\ run'[r] # run[r]
  BY DEF TypeOK
<1>1. ASSUME NEW w \in Workers, NEW q \in Runs, NEW verdict, Record(w, q, verdict)
      PROVE  q = r /\ verdict.outcome = "succeeded"
  <2>1. q = r
    BY <1>0, <1>1 DEF Record, TypeOK
  <2>2. run'[r] = Settle(run[r], verdict.outcome, verdict.retryable, verdict.error)
    BY <1>1, <2>1 DEF Record, TypeOK
  <2> QED BY <1>0, <2>1, <2>2, SettledFields
<1>2. ASSUME NEW w \in Workers, NEW delivered \in BOOLEAN, Complete(w, delivered)
      PROVE  proc[w].run = r /\ Verdict(r, "succeeded", FALSE, "none").outcome = "succeeded"
  <2>1. proc[w].run \in Runs
    BY <1>2 DEF Complete, HoldsLease
  <2>2. Record(w, proc[w].run, Verdict(proc[w].run, "succeeded", FALSE, "none"))
    BY <1>0, <1>2 DEF Complete
  <2> QED BY <1>1, <2>1, <2>2
<1>3. ASSUME NEW w \in Workers, NEW retryable \in BOOLEAN, NEW delivered \in BOOLEAN,
             NEW error \in {"timed_out", "worker_error"}, Fail(w, retryable, error, delivered)
      PROVE  FALSE
  <2> DEFINE verdict == IF proc[w].stop
                        THEN Verdict(proc[w].run, "cancelled", FALSE, "none")
                        ELSE Verdict(proc[w].run, "failed", retryable, error)
  <2>1. proc[w].run \in Runs /\ Record(w, proc[w].run, verdict)
    BY <1>3 DEF Fail, HoldsLease
  <2>2. verdict.outcome # "succeeded"
    BY DEF Verdict
  <2> QED BY <1>1, <2>1, <2>2
<1>4. ASSUME NEW w \in Workers, PollNext(w) PROVE FALSE
  <2>1. run'[r] = SweptRun(r) \/ \E scope \in Scopes, delivered \in BOOLEAN :
                                    Claim(w, scope, r, delivered)
    <3>1. ASSUME NEW scope \in Scopes, PollEmpty(w, scope) PROVE run'[r] = SweptRun(r)
      BY <1>0, <3>1 DEF PollEmpty
    <3>2. ASSUME NEW scope \in Scopes, NEW q \in Runs, NEW delivered \in BOOLEAN,
                 Claim(w, scope, q, delivered), q # r
          PROVE  run'[r] = SweptRun(r)
      BY <1>0, <3>2 DEF Claim
    <3> QED BY <1>4, <3>1, <3>2 DEF PollNext
  <2>2. CASE run'[r] = SweptRun(r)
    BY <2>2, SweptFields, SweptType
  <2>3. ASSUME NEW scope \in Scopes, NEW delivered \in BOOLEAN, Claim(w, scope, r, delivered)
        PROVE  FALSE
    <3>1. run'[r] = ClaimedRun(r, w)
      BY <2>3 DEF Claim
    <3> QED BY <3>1, ClaimedFields
  <2> QED BY <2>1, <2>2, <2>3
<1>5. ASSUME NEW q \in Runs, Submit(q) \/ RequestCancellation(q) \/ Retry(q) PROVE FALSE
  <2>1. q = r
    BY <1>0, <1>5 DEF Submit, RequestCancellation, CancelQueued, CancelRunning, Retry, TypeOK
  <2>2. run'[r].status \in {"queued", "cancelled", run[r].status}
    BY <1>5, <2>1, OwnerFields DEF RequestCancellation
  <2> QED BY <2>2
<1>6. ASSUME NEW w \in Workers, Heartbeat(w) PROVE FALSE
  <2>1. proc[w].run = r
    BY <1>0, <1>6 DEF Heartbeat, TypeOK
  <2> QED BY <1>6, <2>1, HeartbeatFields
<1>7. ASSUME Tick PROVE FALSE
  <2>1. run'[r] = Elapse(run[r])
    BY <1>7 DEF Tick
  <2> QED BY <1>0, <2>1, ElapseFields
<1> QED
  BY <1>0, <1>2, <1>3, <1>4, <1>5, <1>6, <1>7
  DEF Next, OwnerNext, WorkerNext, Register, IdleHeartbeat, Finish, Crash, Refused, vars

(* A run turns succeeded only by the process with the token of its latest  *)
(* attempt, under a live lease and before the durable deadline: a worker   *)
(* that was taken over, or that comes back from a long stall, cannot.      *)
THEOREM SuccessNeedsTheLease == Spec => SuccessIsFenced
<1>1. TokenInv /\ [Next]_vars =>
        [\A r \in Runs : run[r].status # "succeeded" /\ run'[r].status = "succeeded" =>
          /\ Live(r) /\ run[r].budget > 0
          /\ \E w \in Workers :
                /\ proc[w].pc = "busy" /\ proc[w].run = r
                /\ proc[w].token = run[r].attempt /\ proc[w].token # 0]_vars
  <2> SUFFICES ASSUME TokenInv, [Next]_vars, NEW r \in Runs,
                      run[r].status # "succeeded", run'[r].status = "succeeded"
               PROVE  /\ Live(r) /\ run[r].budget > 0
                      /\ \E w \in Workers :
                            /\ proc[w].pc = "busy" /\ proc[w].run = r
                            /\ proc[w].token = run[r].attempt /\ proc[w].token # 0
    OBVIOUS
  <2>1. PICK w \in Workers, delivered \in BOOLEAN :
           /\ Complete(w, delivered) /\ proc[w].run = r
           /\ Verdict(r, "succeeded", FALSE, "none").outcome = "succeeded"
    BY OnlyCompletionSucceeds DEF TokenInv, MoveInv
  <2>2. HoldsLease(w) /\ proc[w].pc = "busy"
    BY <2>1 DEF Complete
  <2>3. Live(r) /\ proc[w].token = run[r].token
    BY <2>1, <2>2 DEF HoldsLease
  <2>4. run[r].token = run[r].attempt /\ run[r].attempt > 0
    BY <2>3 DEF TokenInv, LeasesNameAttempts, Live
  <2>5. ~DeadlinePassed(r)
    BY <2>1 DEF Verdict
  <2>6. run[r].budget > 0
    <3>1. run[r].budget \in 0..Duration
      BY DEF TokenInv, MoveInv, TypeOK, RunRecord
    <3> QED BY <2>5, <3>1, RunLeaseAssumption DEF DeadlinePassed
  <2> QED BY <2>1, <2>2, <2>3, <2>4, <2>6
<1> QED BY <1>1, TokenInvHolds, PTL DEF Spec, SuccessIsFenced

-----------------------------------------------------------------------------
(* The row of a worker that holds a live lease.                            *)

\* A process that executes nothing names no run, and one that polls has no
\* run in its row.
IdleNamesNothing ==
    \A w \in Workers :
        /\ proc[w].pc \notin {"busy", "failing"} => proc[w].run = Nobody
        /\ proc[w].pc = "polling" => row[w].current = Nobody

LEMMA ProcessFields ==
    ASSUME TypeOK, NEW w \in Workers, NEW pc
    PROVE  /\ proc' = [proc EXCEPT ![w].pc = pc] => proc'[w].pc = pc /\ proc'[w].run = proc[w].run
           /\ proc' = [proc EXCEPT ![w] = Off] => proc'[w].pc = "off" /\ proc'[w].run = Nobody
           /\ proc' = [proc EXCEPT ![w] = [Off EXCEPT !.pc = pc]]
                => proc'[w].pc = pc /\ proc'[w].run = Nobody
<1>1. proc[w] \in ProcRecord
  BY DEF TypeOK
<1>2. ASSUME proc' = [proc EXCEPT ![w].pc = pc]
      PROVE  proc'[w].pc = pc /\ proc'[w].run = proc[w].run
  <2>1. proc'[w] = [proc[w] EXCEPT !.pc = pc]
    BY <1>2 DEF TypeOK
  <2> QED BY <1>1, <2>1 DEF ProcRecord
<1>3. ASSUME proc' = [proc EXCEPT ![w] = Off]
      PROVE  proc'[w].pc = "off" /\ proc'[w].run = Nobody
  <2>1. proc'[w] = Off
    BY <1>3 DEF TypeOK
  <2> QED BY <2>1 DEF Off
<1>4. ASSUME proc' = [proc EXCEPT ![w] = [Off EXCEPT !.pc = pc]]
      PROVE  proc'[w].pc = pc /\ proc'[w].run = Nobody
  <2>1. proc'[w] = [Off EXCEPT !.pc = pc]
    BY <1>4 DEF TypeOK
  <2> QED BY <2>1 DEF Off
<1> QED BY <1>2, <1>3, <1>4

LEMMA IdleNamesNothingStays ==
    ASSUME TypeOK, IdleNamesNothing, [Next]_vars
    PROVE  IdleNamesNothing'
<1> DEFINE Idle(w) == /\ proc'[w].pc \notin {"busy", "failing"} => proc'[w].run = Nobody
                      /\ proc'[w].pc = "polling" => row'[w].current = Nobody
<1> SUFFICES ASSUME NEW w \in Workers PROVE Idle(w)
  BY DEF IdleNamesNothing
<1>0. /\ proc[w].pc \notin {"busy", "failing"} => proc[w].run = Nobody
      /\ proc[w].pc = "polling" => row[w].current = Nobody
      /\ row[w] \in RowRecord /\ proc[w] \in ProcRecord
  BY DEF IdleNamesNothing, TypeOK
<1>1. CASE proc'[w] = proc[w] /\ row'[w] = row[w]
  BY <1>0, <1>1
<1>2. ASSUME NEW v \in Workers, Register(v) \/ IdleHeartbeat(v) \/ Finish(v) \/ Crash(v) \/ Refused(v)
      PROVE  Idle(w)
  <2>1. CASE v # w
    BY <1>1, <1>2, <2>1 DEF Register, IdleHeartbeat, Finish, Crash, Refused, TypeOK
  <2>2. CASE Register(w)
    <3>1. proc' = [proc EXCEPT ![w].pc = "ready"] /\ proc[w].pc = "off"
      BY <2>2 DEF Register
    <3> QED BY <1>0, <3>1, ProcessFields
  <2>3. CASE IdleHeartbeat(w) /\ row[w].status = "active"
    <3>1. /\ proc' = [proc EXCEPT ![w].pc = "polling"] /\ proc[w].pc = "ready"
          /\ row'[w] = [row[w] EXCEPT !.current = Nobody]
      BY <2>3 DEF IdleHeartbeat, TypeOK
    <3>2. row'[w].current = Nobody
      BY <1>0, <3>1 DEF RowRecord
    <3> QED BY <1>0, <3>1, <3>2, ProcessFields
  <2>4. CASE IdleHeartbeat(w) /\ row[w].status # "active"
    <3>1. proc' = [proc EXCEPT ![w].pc = "exiting"] /\ proc[w].pc = "ready"
      BY <2>4 DEF IdleHeartbeat
    <3> QED BY <1>0, <3>1, ProcessFields
  <2>5. CASE Finish(w) \/ Crash(w) \/ Refused(w)
    <3>1. \/ proc' = [proc EXCEPT ![w] = Off]
          \/ proc' = [proc EXCEPT ![w] = [Off EXCEPT !.pc = "exiting"]]
      BY <2>5 DEF Finish, Crash, Refused
    <3> QED BY <3>1, ProcessFields
  <2> QED BY <1>2, <2>1, <2>2, <2>3, <2>4, <2>5
<1>3. ASSUME NEW swept, proc'[w] = proc[w], row'[w] = SweptRow(w, swept) PROVE Idle(w)
  BY <1>0, <1>3 DEF SweptRow
<1>4. ASSUME NEW v \in Workers, NEW scope \in Scopes, PollEmpty(v, scope) PROVE Idle(w)
  <2>1. CASE v # w
    BY <1>3, <1>4, <2>1 DEF PollEmpty, TypeOK
  <2>2. CASE v = w
    <3>1. proc' = [proc EXCEPT ![w].pc = "ready"] /\ proc[w].pc = "polling"
      BY <1>4, <2>2 DEF PollEmpty, CanPoll
    <3>2. proc'[w].pc = "ready" /\ proc'[w].run = proc[w].run
      BY <3>1, ProcessFields
    <3> QED BY <1>0, <3>1, <3>2
  <2> QED BY <2>1, <2>2
<1>5. ASSUME NEW v \in Workers, NEW scope \in Scopes, NEW r \in Runs,
             NEW delivered \in BOOLEAN, Claim(v, scope, r, delivered)
      PROVE  Idle(w)
  <2>1. CASE v # w
    BY <1>3, <1>5, <2>1 DEF Claim, TypeOK
  <2>2. CASE v = w /\ delivered
    <3>1. proc'[w] = [pc |-> "busy", run |-> r, token |-> NewToken(r), stop |-> FALSE]
      BY <1>5, <2>2 DEF Claim, TypeOK
    <3> QED BY <3>1
  <2>3. CASE v = w /\ ~delivered
    <3>1. proc' = [proc EXCEPT ![w] = [Off EXCEPT !.pc = "exiting"]]
      BY <1>5, <2>3 DEF Claim
    <3>2. proc'[w].pc = "exiting" /\ proc'[w].run = Nobody
      BY <3>1, ProcessFields
    <3> QED BY <3>2
  <2> QED BY <2>1, <2>2, <2>3
<1>6. ASSUME NEW v \in Workers, Heartbeat(v) PROVE Idle(w)
  <2>1. CASE v # w
    BY <1>1, <1>6, <2>1 DEF Heartbeat, TypeOK
  <2>2. CASE v = w
    <3>1. proc[w].pc = "busy" /\ \E stop : proc'[w] = [proc[w] EXCEPT !.stop = stop]
      BY <1>6, <2>2 DEF Heartbeat, TypeOK
    <3>2. proc'[w].pc = "busy"
      BY <1>0, <3>1 DEF ProcRecord
    <3> QED BY <3>2
  <2> QED BY <2>1, <2>2
<1>7. ASSUME NEW v \in Workers, NEW delivered \in BOOLEAN, Complete(v, delivered) PROVE Idle(w)
  <2>1. CASE v # w
    <3>1. proc'[w] = proc[w] /\ row'[w] = row[w]
      BY <1>7, <2>1 DEF Complete, Record, TypeOK
    <3> QED BY <1>1, <3>1
  <2>2. CASE v = w
    <3>1. \/ proc' = [proc EXCEPT ![w] = [Off EXCEPT !.pc = "ready"]]
          \/ proc' = [proc EXCEPT ![w].pc = "failing"]
      <4>1. CASE delivered
        BY <1>7, <2>2, <4>1 DEF Complete
      <4>2. CASE ~delivered
        BY <1>7, <2>2, <4>2 DEF Complete
      <4> QED BY <4>1, <4>2
    <3> QED BY <3>1, ProcessFields
  <2> QED BY <2>1, <2>2
<1>8. ASSUME NEW v \in Workers, NEW retryable \in BOOLEAN, NEW delivered \in BOOLEAN,
             NEW error \in {"timed_out", "worker_error"}, Fail(v, retryable, error, delivered)
      PROVE  Idle(w)
  <2>1. CASE v # w
    <3>1. proc'[w] = proc[w] /\ row'[w] = row[w]
      BY <1>8, <2>1 DEF Fail, Record, TypeOK
    <3> QED BY <1>1, <3>1
  <2>2. CASE v = w
    <3>1. PICK pc \in {"ready", "exiting"} : proc' = [proc EXCEPT ![w] = [Off EXCEPT !.pc = pc]]
      <4>1. proc' = [proc EXCEPT ![w] = [Off EXCEPT !.pc = IF delivered THEN "ready" ELSE "exiting"]]
        BY <1>8, <2>2 DEF Fail
      <4> QED BY <4>1
    <3> QED BY <3>1, ProcessFields
  <2> QED BY <2>1, <2>2
<1>9. CASE UNCHANGED <<proc, row>>
  BY <1>1, <1>9
<1> HIDE DEF Idle
<1> QED
  BY <1>2, <1>4, <1>5, <1>6, <1>7, <1>8, <1>9
  DEF Next, OwnerNext, PollNext, WorkerNext, vars, Submit, RequestCancellation,
      CancelQueued, CancelRunning, Retry, Tick

\* A process with a live lease had it before, under the same row, or has just claimed it.
LEMMA LeasesWereHeld ==
    ASSUME TypeOK, TokensWereGiven, [Next]_vars, NEW w \in Workers, HoldsLease(w)', ~TakesRun(w)
    PROVE  HoldsLease(w) /\ proc'[w].run = proc[w].run
<1>0. PICK r \in Runs : r = proc'[w].run
  BY DEF HoldsLease
<1>1. /\ r \in Runs /\ run'[r].status = "running" /\ Live(r)'
      /\ run'[r].holder = w /\ run'[r].token = proc'[w].token
  BY <1>0 DEF HoldsLease, Live
<1>2. ~LeavesRun(w)
  BY <1>0, RunLeaseAssumption DEF LeavesRun
<1>3. proc[w].run = r /\ proc'[w].token = proc[w].token
  BY <1>0, <1>2, EveryProcessMoves, ToldAndTaken DEF KeepsRun
<1>4. ASSUME NEW v \in Workers, NEW scope \in Scopes, NEW delivered \in BOOLEAN,
             Claim(v, scope, r, delivered)
      PROVE  FALSE
  <2>1. run'[r] = ClaimedRun(r, v)
    BY <1>1, <1>4 DEF Claim
  <2>2. run'[r].token = run[r].attempt + 1
    BY <1>1, <2>1, ClaimedFields
  <2>3. proc[w].token <= run[r].attempt /\ proc[w].token \in Nat /\ run[r].attempt \in Nat
    BY <1>1, <1>3, RunLeaseAssumption DEF TokensWereGiven, TypeOK, ProcRecord, RunRecord
  <2> QED BY <1>1, <1>3, <2>2, <2>3
<1>5. Live(r)
  BY <1>1, <1>4, OnlyClaimsMakeLive
<1>6. run[r].holder = w /\ run[r].token = proc[w].token
  BY <1>1, <1>3, <1>4, LeasesAreKept
<1> QED BY <1>0, <1>1, <1>3, <1>5, <1>6 DEF HoldsLease

LEMMA LeaseholderStays ==
    ASSUME TypeOK, TypeOK', TokensWereGiven, IdleNamesNothing, LeaseholderStaysActive, [Next]_vars
    PROVE  LeaseholderStaysActive'
<1> SUFFICES ASSUME NEW w \in Workers, HoldsLease(w)'
             PROVE  row'[w] = [status |-> "active", current |-> proc'[w].run]
  BY DEF LeaseholderStaysActive
<1>r. PICK r \in Runs : r = proc'[w].run
  BY DEF HoldsLease
<1>0. row[w] \in RowRecord /\ row'[w] \in RowRecord
  BY DEF TypeOK
<1>1. CASE TakesRun(w)
  <2>1. PICK scope \in Scopes, q \in Runs : Claim(w, scope, q, TRUE)
    BY <1>1 DEF TakesRun
  <2>2. proc'[w].run = q
    BY <2>1, ToldAndTaken
  <2>3. row[w].status = "active" /\ row[w].current = Nobody
    BY <2>1 DEF Claim, CanPoll, IdleNamesNothing
  <2>4. SweptRow(w, {x \in scope : Exhausted(x)}) = row[w]
    BY <2>3, RunLeaseAssumption DEF SweptRow, Scopes
  <2>5. row'[w] = [row[w] EXCEPT !.current = q]
    BY <2>1, <2>4 DEF Claim
  <2>6. row'[w].status = "active" /\ row'[w].current = q
    BY <1>0, <2>3, <2>5 DEF RowRecord
  <2> QED BY <1>0, <2>2, <2>6 DEF RowRecord
<1>2. CASE ~TakesRun(w)
  <2>1. HoldsLease(w) /\ proc[w].run = r
    BY <1>r, <1>2, LeasesWereHeld
  <2>2. row[w] = [status |-> "active", current |-> r]
    BY <2>1 DEF LeaseholderStaysActive
  <2>3. Live(r) /\ Live(r)'
    BY <1>r, <2>1 DEF HoldsLease, Live
  <2>4. proc[w].pc \in {"busy", "failing"}
    BY <2>1, RunLeaseAssumption DEF IdleNamesNothing
  <2>5. ~Exhausted(r)
    BY <2>3 DEF Exhausted, Live, LeaseLost, Expired
  <2>6. CASE row'[w] = row[w]
    BY <1>r, <2>2, <2>6
  <2>7. ASSUME NEW scope \in Scopes, row'[w] = SweptRow(w, {x \in scope : Exhausted(x)})
        PROVE  row'[w] = row[w]
    BY <2>2, <2>5, <2>7 DEF SweptRow
  <2>8. ASSUME NEW v \in Workers, Register(v) \/ IdleHeartbeat(v) \/ Finish(v) \/ Crash(v) \/ Refused(v)
        PROVE  row'[w] = row[w]
    BY <2>4, <2>8 DEF Register, IdleHeartbeat, Finish, Crash, Refused, TypeOK
  <2>9. ASSUME NEW v \in Workers, NEW scope \in Scopes, PollEmpty(v, scope)
        PROVE  row'[w] = row[w]
    BY <2>7, <2>9 DEF PollEmpty
  <2>10. ASSUME NEW v \in Workers, NEW scope \in Scopes, NEW q \in Runs,
                NEW delivered \in BOOLEAN, Claim(v, scope, q, delivered)
         PROVE  row'[w] = row[w]
    <3>1. v # w
      BY <2>4, <2>10 DEF Claim, CanPoll
    <3> QED BY <2>7, <2>10, <3>1 DEF Claim
  <2>11. ASSUME NEW v \in Workers, Heartbeat(v)
         PROVE  row'[w] = [status |-> "active", current |-> r]
    <3>1. CASE v # w
      BY <2>2, <2>11, <3>1 DEF Heartbeat, TypeOK
    <3>2. CASE v = w
      <4>1. row'[w] = [row[w] EXCEPT !.current = r]
        BY <2>1, <2>11, <3>2 DEF Heartbeat, TypeOK
      <4>2. row'[w].status = "active" /\ row'[w].current = r
        BY <1>0, <2>2, <4>1 DEF RowRecord
      <4> QED BY <1>0, <4>2 DEF RowRecord
    <3> QED BY <3>1, <3>2
  <2>12. ASSUME NEW v \in Workers, HoldsLease(v),
                NEW verdict \in [outcome : Terminal, retryable : BOOLEAN, error : ErrorCode],
                Record(v, proc[v].run, verdict)
         PROVE  row'[w] = row[w]
    <3>1. CASE v # w
      BY <2>12, <3>1 DEF Record, TypeOK
    <3>2. CASE v = w
      <4>1. Reports(w, r)
        BY <2>1, <2>12, <3>2 DEF Reports
      <4> QED BY <2>3, <4>1, ReportFields DEF Live, Terminal
    <3> QED BY <3>1, <3>2
  <2>13. ASSUME NEW v \in Workers, NEW delivered \in BOOLEAN, Complete(v, delivered)
         PROVE  row'[w] = row[w]
    <3>1. HoldsLease(v) /\ proc[v].run \in Runs
      BY <2>13 DEF Complete, HoldsLease
    <3>2. Verdict(proc[v].run, "succeeded", FALSE, "none")
            \in [outcome : Terminal, retryable : BOOLEAN, error : ErrorCode]
      BY <3>1, VerdictType DEF ErrorCode
    <3> QED BY <2>12, <2>13, <3>1, <3>2 DEF Complete
  <2>14. ASSUME NEW v \in Workers, NEW retryable \in BOOLEAN, NEW delivered \in BOOLEAN,
                NEW error \in {"timed_out", "worker_error"}, Fail(v, retryable, error, delivered)
         PROVE  row'[w] = row[w]
    <3>1. HoldsLease(v) /\ proc[v].run \in Runs
      BY <2>14 DEF Fail, HoldsLease
    <3> DEFINE verdict == IF proc[v].stop
                          THEN Verdict(proc[v].run, "cancelled", FALSE, "none")
                          ELSE Verdict(proc[v].run, "failed", retryable, error)
    <3>2. verdict \in [outcome : Terminal, retryable : BOOLEAN, error : ErrorCode]
      BY <3>1, VerdictType DEF ErrorCode
    <3>3. Record(v, proc[v].run, verdict)
      BY <2>14 DEF Fail
    <3> QED BY <2>12, <3>1, <3>2, <3>3
  <2>15. CASE UNCHANGED row
    BY <1>r, <2>2, <2>15
  <2> QED
    BY <1>r, <2>6, <2>8, <2>9, <2>10, <2>11, <2>13, <2>14, <2>15
    DEF Next, OwnerNext, PollNext, WorkerNext, vars, Submit, RequestCancellation,
        CancelQueued, CancelRunning, Retry, Tick
<1> QED BY <1>1, <1>2

(* A sweep of somebody else's stale run never marks the row of a process   *)
(* that holds a live lease.  The row is right because a process that polls *)
(* has no run in its row, and one that executes keeps its run there until  *)
(* it reports, which ends the lease.                                       *)
THEOREM LeaseholdersStayActive == Spec => []LeaseholderStaysActive
<1>1. Init => IdleNamesNothing /\ LeaseholderStaysActive
  BY RunLeaseAssumption DEF Init, Off, IdleNamesNothing, LeaseholderStaysActive, HoldsLease
<1>2. TokenInv /\ IdleNamesNothing /\ LeaseholderStaysActive /\ [Next]_vars
        => IdleNamesNothing' /\ LeaseholderStaysActive'
  BY IdleNamesNothingStays, LeaseholderStays, TypeStep DEF TokenInv, MoveInv
<1> QED BY <1>1, <1>2, TokenInvHolds, PTL DEF Spec

-----------------------------------------------------------------------------
(* Capacity and prerequisites.                                             *)

\* A step adds to the leases of a worker only the run it claims.
LEMMA LeasesGained ==
    ASSUME TypeOK, [Next]_vars, NEW w \in Workers, NEW s \in Runs, Live(s)', run'[s].holder = w,
           ~\E scope \in Scopes, delivered \in BOOLEAN : Claim(w, scope, s, delivered)
    PROVE  s \in LeasesOf(w)
<1>1. ASSUME NEW v \in Workers, NEW scope \in Scopes, NEW delivered \in BOOLEAN,
             Claim(v, scope, s, delivered)
      PROVE  FALSE
  <2>1. run'[s] = ClaimedRun(s, v)
    BY <1>1 DEF Claim
  <2>2. run'[s].holder = v
    BY <2>1, ClaimedFields
  <2> QED BY <1>1, <2>2
<1>2. Live(s)
  BY <1>1, OnlyClaimsMakeLive
<1>3. run[s].holder = w
  BY <1>1, LeasesAreKept DEF Live
<1> QED BY <1>2, <1>3 DEF LeasesOf

LEMMA CapacityStays == TypeOK /\ CapacityRespected /\ [Next]_vars => CapacityRespected'
<1> SUFFICES ASSUME TypeOK, CapacityRespected, [Next]_vars, NEW w \in Workers
             PROVE  Cardinality(LeasesOf(w)') <= Capacity
  BY DEF CapacityRespected
<1>1. IsFiniteSet(LeasesOf(w)) /\ Cardinality(LeasesOf(w)) \in Nat
  BY RunsAreFinite, FS_Subset, FS_CardinalityType DEF LeasesOf
<1>2. LeasesOf(w)' \subseteq Runs
  BY DEF LeasesOf
<1>3. \A s \in LeasesOf(w)' : Live(s)' /\ run'[s].holder = w
  BY DEF LeasesOf
<1>4. Capacity \in Nat
  BY RunLeaseAssumption
<1>5. CASE \E scope \in Scopes, r \in Runs, delivered \in BOOLEAN : Claim(w, scope, r, delivered)
  <2>1. PICK scope \in Scopes, r \in Runs, delivered \in BOOLEAN : Claim(w, scope, r, delivered)
    BY <1>5
  <2>2. Cardinality(LeasesOf(w)) < Capacity /\ r \notin LeasesOf(w)
    BY <2>1 DEF Claim, HasCapacity, Eligible, LeasesOf, Live, LeaseLost, Expired
  <2>3. ASSUME NEW s \in LeasesOf(w)', s # r PROVE s \in LeasesOf(w)
    <3>1. run'[s] = run[s] \/ run'[s] = SweptRun(s)
      BY <1>2, <2>1, <2>3 DEF Claim
    <3>2. SweptRun(s).status # "running"
      BY <1>2, <2>3, SweptFields, SweptType
    <3>3. Live(s)
      BY <1>2, <1>3, <2>1, <2>3, ClaimMakesOneLive
    <3>4. run'[s] = run[s]
      BY <1>3, <2>3, <3>1, <3>2 DEF Live
    <3> QED BY <1>2, <1>3, <2>3, <3>3, <3>4 DEF LeasesOf
  <2>4. LeasesOf(w)' \subseteq LeasesOf(w) \cup {r}
    BY <2>3
  <2>5. /\ IsFiniteSet(LeasesOf(w) \cup {r})
        /\ Cardinality(LeasesOf(w) \cup {r}) = Cardinality(LeasesOf(w)) + 1
    BY <1>1, <2>2, FS_AddElement
  <2>6. Cardinality(LeasesOf(w)') <= Cardinality(LeasesOf(w)) + 1 /\ Cardinality(LeasesOf(w)') \in Nat
    BY <2>4, <2>5, FS_Subset, FS_CardinalityType
  <2> QED BY <1>1, <1>4, <2>2, <2>6
<1>6. CASE ~\E scope \in Scopes, r \in Runs, delivered \in BOOLEAN : Claim(w, scope, r, delivered)
  <2>1. LeasesOf(w)' \subseteq LeasesOf(w)
    BY <1>2, <1>3, <1>6, LeasesGained
  <2>2. Cardinality(LeasesOf(w)') <= Cardinality(LeasesOf(w)) /\ Cardinality(LeasesOf(w)') \in Nat
    BY <1>1, <2>1, FS_Subset, FS_CardinalityType
  <2> QED BY <1>1, <1>4, <2>2 DEF CapacityRespected
<1> QED BY <1>5, <1>6

(* A worker id never holds more live leases than its row allows, also when *)
(* its process was restarted and does not know of what it left behind: the *)
(* claim counts the leases, and nothing but a claim adds one.              *)
THEOREM CapacityHolds == Spec => []CapacityRespected
<1>1. Init => CapacityRespected
  <2> SUFFICES ASSUME Init, NEW w \in Workers PROVE Cardinality(LeasesOf(w)) <= Capacity
    BY DEF CapacityRespected
  <2>1. LeasesOf(w) = {}
    BY DEF Init, NewRun, LeasesOf, Live
  <2>2. Cardinality({}) = 0
    BY FS_EmptySet
  <2> QED BY <2>1, <2>2, RunLeaseAssumption
<1> QED BY <1>1, CapacityStays, TypeCorrect, PTL DEF Spec

\* Only a claim starts a run for the first time.
LEMMA OnlyClaimsStart ==
    ASSUME TypeOK, [Next]_vars, NEW r \in Runs, run'[r].started, ~run[r].started
    PROVE  Eligible(r)
<1>0. run[r] \in RunRecord
  BY DEF TypeOK
<1>1. CASE Submit(r) \/ CancelQueued(r) \/ CancelRunning(r) \/ Retry(r)
  <2>1. CASE Submit(r)
    <3>1. run'[r] = [run[r] EXCEPT !.status = "queued"]
      BY <2>1 DEF Submit, TypeOK
    <3> QED BY <1>0, <3>1, StatusField
  <2>2. CASE CancelQueued(r)
    <3>1. run'[r] = [run[r] EXCEPT !.status = "cancelled", !.cancel = TRUE]
      BY <2>2 DEF CancelQueued, TypeOK
    <3> QED BY <1>0, <3>1 DEF RunRecord
  <2>3. CASE CancelRunning(r)
    BY <2>3, OwnerFields
  <2>4. CASE Retry(r)
    <3>1. run'[r] = Settle(run[r], "queued", FALSE, "none")
      BY <2>4 DEF Retry, TypeOK
    <3>2. run'[r].started = run[r].started
      BY <1>0, <3>1 DEF Settle, RunRecord
    <3> QED BY <3>2
  <2> QED BY <1>1, <2>1, <2>2, <2>3, <2>4
<1>2. CASE run'[r] = SweptRun(r)
  BY <1>2, SweptFields
<1>3. ASSUME NEW w \in Workers, NEW scope \in Scopes, NEW delivered \in BOOLEAN,
             Claim(w, scope, r, delivered)
      PROVE  Eligible(r)
  BY <1>3 DEF Claim
<1>4. ASSUME NEW w \in Workers, Heartbeat(w), proc[w].run = r PROVE FALSE
  BY <1>4, HeartbeatFields
<1>5. ASSUME NEW w \in Workers, Reports(w, r) PROVE FALSE
  BY <1>5, ReportFields
<1>6. CASE run'[r] = Elapse(run[r])
  BY <1>0, <1>6, ElapseFields
<1> QED BY <1>1, <1>2, <1>3, <1>4, <1>5, <1>6, RunCases

(* A run that was ever handed to a worker had all its prerequisite tasks   *)
(* completed, and they still are: nothing reopens a completed task.        *)
THEOREM PrerequisitesStayCompleted == Spec => []PrerequisitesHold
<1>1. Init => PrerequisitesHold
  BY DEF Init, NewRun, PrerequisitesHold
<1>2. MoveInv /\ LedgersAgree /\ LedgersAgree' /\ PrerequisitesHold /\ [Next]_vars
        => PrerequisitesHold'
  <2> SUFFICES ASSUME MoveInv, LedgersAgree, LedgersAgree', PrerequisitesHold, [Next]_vars,
                      NEW r \in Runs, run'[r].started, NEW p \in Prerequisites[r]
               PROVE  task'[p] = "completed"
    BY DEF PrerequisitesHold
  <2>1. p \in Runs
    BY RunLeaseAssumption
  <2>2. task[p] = "completed"
    BY OnlyClaimsStart DEF PrerequisitesHold, Eligible, MoveInv
  <2>3. run[p].status \in RunStatus /\ task[p] = TaskOf(run[p].status)
    BY <2>1 DEF LedgersAgree, MoveInv, TypeOK, RunRecord
  <2>4. run[p].status = "succeeded"
    BY <2>2, <2>3 DEF RunStatus, TaskOf
  <2>5. run'[p].status = "succeeded"
    <3>1. Moves(p)
      BY <2>1, EveryRunMoves DEF MoveInv
    <3> QED
      BY <2>4, <3>1
      DEF Moves, Stays, IsSubmitted, IsStarted, IsStopAsked, IsSettledIn, IsRequeued, MoveTo
  <2>6. task'[p] = TaskOf("succeeded")
    BY <2>1, <2>5 DEF LedgersAgree
  <2> QED BY <2>6 DEF TaskOf
<1> QED BY <1>1, <1>2, MoveInvHolds, LedgersNeverDisagree, PTL DEF Spec
=============================================================================
