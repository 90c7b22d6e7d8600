-------------------------- MODULE RunLeasePromise ---------------------------
(***************************************************************************)
(* RunLease implements RunPromise, for every set of runs, workers and      *)
(* agents and every limit, and what follows from the moves of one run:     *)
(* cancellation wins, the three ledgers agree, prerequisites hold.         *)
(***************************************************************************)
EXTENDS RunLeaseProofs

-----------------------------------------------------------------------------
(* The moves of one run, as its record shows them.                         *)

\* The move of run r by a step, in the fields that RunPromise knows.
MoveTo(r, status, attempt, cancel) ==
    /\ run'[r].status = status
    /\ run'[r].attempt = attempt
    /\ run'[r].cancel = cancel

Stays(r) == MoveTo(r, run[r].status, run[r].attempt, run[r].cancel)

IsSubmitted(r) ==
    run[r].status = "none" /\ MoveTo(r, "queued", run[r].attempt, run[r].cancel)

IsStarted(r) ==
    /\ run[r].status \in {"queued", "running"}
    /\ run[r].attempt < MaxAttempts
    /\ ~run[r].cancel
    /\ MoveTo(r, "running", run[r].attempt + 1, run[r].cancel)

IsStopAsked(r) ==
    \/ run[r].status = "queued" /\ MoveTo(r, "cancelled", run[r].attempt, TRUE)
    \/ run[r].status = "running" /\ MoveTo(r, "running", run[r].attempt, TRUE)

IsSettledIn(r, outcome) ==
    /\ run[r].status \in {"queued", "running"}
    /\ outcome \in Terminal
    /\ outcome = "succeeded" => run[r].status = "running"
    /\ outcome = "cancelled" <=> run[r].cancel
    /\ MoveTo(r, outcome, run[r].attempt, run[r].cancel)

IsRequeued(r) ==
    /\ run[r].status = "failed"
    /\ run[r].attempt < MaxAttempts
    /\ ~run[r].cancel
    /\ MoveTo(r, "queued", run[r].attempt, run[r].cancel)

Moves(r) ==
    \/ Stays(r)
    \/ IsSubmitted(r)
    \/ IsStarted(r)
    \/ IsStopAsked(r)
    \/ \E outcome \in Terminal : IsSettledIn(r, outcome)
    \/ IsRequeued(r)

\* A process that was told to stop was told so because its run is to be cancelled.
StopsAreAsked ==
    \A w \in Workers : proc[w].stop =>
        proc[w].run \in Runs /\ run[proc[w].run].cancel

LEMMA SettledFields ==
    ASSUME NEW record \in RunRecord, NEW outcome, NEW retryable, NEW error
    PROVE  /\ Settle(record, outcome, retryable, error).status = outcome
           /\ Settle(record, outcome, retryable, error).attempt = record.attempt
           /\ Settle(record, outcome, retryable, error).cancel = record.cancel
           /\ Settle(record, outcome, retryable, error).started = record.started
BY DEF Settle, RunRecord

LEMMA ClaimedFields ==
    ASSUME TypeOK, NEW r \in Runs, NEW w \in Workers
    PROVE  /\ ClaimedRun(r, w).status = "running"
           /\ ClaimedRun(r, w).attempt = run[r].attempt + 1
           /\ ClaimedRun(r, w).token = run[r].attempt + 1
           /\ ClaimedRun(r, w).holder = w
           /\ ClaimedRun(r, w).cancel = run[r].cancel
           /\ ClaimedRun(r, w).started
<1>1. run[r] \in RunRecord
  BY DEF TypeOK
<1> QED BY <1>1 DEF ClaimedRun, NewToken, RunRecord

\* A sweep settles a run that is queued or running.
LEMMA SweptMoves ==
    ASSUME TypeOK, NEW r \in Runs, Exhausted(r), run'[r] = SweptRun(r)
    PROVE  IsSettledIn(r, SweepOutcome(r))
<1>1. run[r].status \in {"queued", "running"}
  BY DEF Exhausted, LeaseLost
<1>2. MoveTo(r, SweepOutcome(r), run[r].attempt, run[r].cancel)
  BY SweptFields DEF MoveTo
<1>3. SweepOutcome(r) = IF run[r].cancel THEN "cancelled" ELSE "failed"
  BY DEF SweepOutcome
<1> QED BY <1>1, <1>2, <1>3 DEF IsSettledIn, Terminal

\* A report settles the run of the reporting process, and no other.
LEMMA RecordedMoves ==
    ASSUME TypeOK, NEW w \in Workers, NEW q \in Runs, Live(q),
           NEW outcome \in Terminal, NEW retryable \in BOOLEAN, NEW error \in ErrorCode,
           outcome = "cancelled" => run[q].cancel,
           Record(w, q, Verdict(q, outcome, retryable, error)),
           NEW r \in Runs
    PROVE  Stays(r) \/ (r = q /\ \E settled \in Terminal : IsSettledIn(r, settled))
<1> DEFINE verdict == Verdict(q, outcome, retryable, error)
<1>1. run[r] \in RunRecord /\ run[q] \in RunRecord
  BY DEF TypeOK
<1>2. CASE r # q
  BY <1>2 DEF Record, TypeOK, Stays, MoveTo
<1>3. CASE r = q
  <2>1. run'[r] = Settle(run[r], verdict.outcome, verdict.retryable, verdict.error)
    BY <1>3 DEF Record, TypeOK
  <2>2. MoveTo(r, verdict.outcome, run[r].attempt, run[r].cancel)
    BY <1>1, <2>1, SettledFields DEF MoveTo
  <2>3. verdict.outcome \in Terminal /\ (verdict.outcome = "cancelled" <=> run[r].cancel)
    <3>1. CASE run[q].cancel
      BY <1>3, <3>1 DEF Verdict, Terminal
    <3>2. CASE ~run[q].cancel
      <4>1. verdict.outcome \in {"failed", outcome} /\ outcome # "cancelled"
        BY <3>2 DEF Verdict
      <4> QED BY <1>3, <3>2, <4>1 DEF Terminal
    <3> QED BY <3>1, <3>2
  <2> QED BY <1>3, <2>2, <2>3 DEF IsSettledIn, Live
<1> QED BY <1>2, <1>3

\* A run makes one of the moves of RunPromise, or none, in every step.
LEMMA EveryRunMoves ==
    ASSUME TypeOK, StopsAreAsked, [Next]_vars, NEW r \in Runs
    PROVE  Moves(r)
<1>0. run[r] \in RunRecord
  BY DEF TypeOK
<1>1. CASE run' = run
  BY <1>1 DEF Moves, Stays, MoveTo
<1>2. ASSUME NEW q \in Runs, Submit(q) \/ RequestCancellation(q) \/ Retry(q) PROVE Moves(r)
  <2>1. CASE q # r
    <3>1. run'[r] = run[r]
      BY <1>2, <2>1 DEF Submit, RequestCancellation, CancelQueued, CancelRunning, Retry, TypeOK
    <3> QED BY <3>1 DEF Moves, Stays, MoveTo
  <2>2. CASE Submit(r)
    BY <2>2, OwnerFields DEF Submit, Moves, IsSubmitted, MoveTo
  <2>3. CASE CancelQueued(r)
    <3>1. run[r].status = "queued" /\ run'[r].cancel = TRUE
      <4>1. run'[r] = [run[r] EXCEPT !.status = "cancelled", !.cancel = TRUE]
        BY <2>3 DEF CancelQueued, TypeOK
      <4> QED BY <1>0, <2>3, <4>1 DEF CancelQueued, RunRecord
    <3> QED BY <2>3, <3>1, OwnerFields DEF Moves, IsStopAsked, MoveTo
  <2>4. CASE CancelRunning(r)
    <3>1. run[r].status = "running" /\ run'[r].cancel = TRUE
      <4>1. run'[r] = [run[r] EXCEPT !.cancel = TRUE]
        BY <2>4 DEF CancelRunning, TypeOK
      <4> QED BY <1>0, <2>4, <4>1 DEF CancelRunning, RunRecord
    <3> QED BY <2>4, <3>1, OwnerFields DEF Moves, IsStopAsked, MoveTo
  <2>5. CASE Retry(r)
    BY <2>5, OwnerFields DEF Retry, Moves, IsRequeued, MoveTo
  <2> QED BY <1>2, <2>1, <2>2, <2>3, <2>4, <2>5 DEF RequestCancellation
<1>3. ASSUME NEW w \in Workers, NEW scope \in Scopes, PollEmpty(w, scope) PROVE Moves(r)
  <2>1. run'[r] = run[r] \/ (Exhausted(r) /\ run'[r] = SweptRun(r))
    BY <1>3 DEF PollEmpty
  <2> QED BY <2>1, SweptType, SweptMoves DEF Moves, Stays, MoveTo, Terminal
<1>4. ASSUME NEW w \in Workers, NEW scope \in Scopes, NEW q \in Runs,
             NEW delivered \in BOOLEAN, Claim(w, scope, q, delivered)
      PROVE Moves(r)
  <2>1. CASE q # r
    <3>1. run'[r] = run[r] \/ (Exhausted(r) /\ run'[r] = SweptRun(r))
      BY <1>4, <2>1 DEF Claim
    <3> QED BY <3>1, SweptType, SweptMoves DEF Moves, Stays, MoveTo, Terminal
  <2>2. CASE q = r
    <3>1. run'[r] = ClaimedRun(r, w) /\ Eligible(r)
      BY <1>4, <2>2 DEF Claim
    <3>2. IsStarted(r)
      BY <3>1, ClaimedFields DEF Eligible, LeaseLost, IsStarted, MoveTo
    <3> QED BY <3>2 DEF Moves
  <2> QED BY <2>1, <2>2
<1>5. ASSUME NEW w \in Workers, Heartbeat(w) PROVE Moves(r)
  <2>1. CASE proc[w].run = r
    <3>1. PICK lease : run'[r] = [run[r] EXCEPT !.lease = lease]
      BY <1>5, <2>1 DEF Heartbeat, TypeOK
    <3> QED BY <1>0, <3>1 DEF RunRecord, Moves, Stays, MoveTo
  <2>2. CASE proc[w].run # r
    <3>1. run'[r] = run[r]
      BY <1>5, <2>2 DEF Heartbeat, TypeOK
    <3> QED BY <3>1 DEF Moves, Stays, MoveTo
  <2> QED BY <2>1, <2>2
<1>6. ASSUME NEW w \in Workers, NEW delivered \in BOOLEAN, Complete(w, delivered)
      PROVE Moves(r)
  <2>1. proc[w].run \in Runs /\ Live(proc[w].run)
    BY <1>6 DEF Complete, HoldsLease
  <2>2. CASE Record(w, proc[w].run, Verdict(proc[w].run, "succeeded", FALSE, "none"))
    BY <2>1, <2>2, RecordedMoves DEF Moves, Terminal, ErrorCode
  <2> QED BY <1>1, <1>6, <2>2 DEF Complete
<1>7. ASSUME NEW w \in Workers, NEW retryable \in BOOLEAN, NEW delivered \in BOOLEAN,
             NEW error \in {"timed_out", "worker_error"}, Fail(w, retryable, error, delivered)
      PROVE Moves(r)
  <2>1. proc[w].run \in Runs /\ Live(proc[w].run)
    BY <1>7 DEF Fail, HoldsLease
  <2>2. CASE proc[w].stop
    <3>1. Record(w, proc[w].run, Verdict(proc[w].run, "cancelled", FALSE, "none"))
      BY <1>7, <2>2 DEF Fail
    <3>2. run[proc[w].run].cancel
      BY <2>2 DEF StopsAreAsked
    <3> QED BY <2>1, <3>1, <3>2, RecordedMoves DEF Moves, Terminal, ErrorCode
  <2>3. CASE ~proc[w].stop
    <3>1. Record(w, proc[w].run, Verdict(proc[w].run, "failed", retryable, error))
      BY <1>7, <2>3 DEF Fail
    <3> QED BY <2>1, <3>1, RecordedMoves DEF Moves, Terminal, ErrorCode
  <2> QED BY <2>2, <2>3
<1>8. CASE Tick
  <2>1. run'[r] = Elapse(run[r])
    BY <1>8 DEF Tick
  <2> QED BY <1>0, <2>1, ElapseFields DEF Moves, Stays, MoveTo
<1> QED
  BY <1>1, <1>2, <1>3, <1>4, <1>5, <1>6, <1>7, <1>8
  DEF Next, OwnerNext, PollNext, WorkerNext, Register, IdleHeartbeat,
      Finish, Crash, Refused, vars

-----------------------------------------------------------------------------
(* What the moves keep.                                                    *)

\* A requested cancellation is known only of a run under way or cancelled.
StopsInProgress == \A r \in Runs : run[r].cancel => run[r].status \in {"running", "cancelled"}

MoveInv == TypeOK /\ StopsAreAsked /\ StopsInProgress

\* No move takes a requested cancellation back, and only its own outcome is left.
LEMMA StopsStay ==
    ASSUME TypeOK, TypeOK', NEW r \in Runs, Moves(r), run[r].cancel, StopsInProgress
    PROVE  /\ run'[r].cancel
           /\ run'[r].attempt = run[r].attempt
           /\ run'[r].status \in {run[r].status, "cancelled"}
<1>1. run[r].status \in {"running", "cancelled"}
  BY DEF StopsInProgress
<1>2. CASE Stays(r)
  BY <1>2 DEF Stays, MoveTo
<1>3. CASE IsStopAsked(r)
  BY <1>3 DEF IsStopAsked, MoveTo
<1>4. ASSUME NEW outcome \in Terminal, IsSettledIn(r, outcome)
      PROVE  run'[r].cancel /\ run'[r].attempt = run[r].attempt /\ run'[r].status = "cancelled"
  BY <1>4 DEF IsSettledIn, MoveTo
<1> QED BY <1>1, <1>2, <1>3, <1>4 DEF Moves, IsSubmitted, IsStarted, IsRequeued

(* What a step does to one process: it goes on with its run, leaves it, is *)
(* told by its heartbeat, or takes one.                                    *)

KeepsRun(w) ==
    proc'[w].run = proc[w].run /\ proc'[w].token = proc[w].token /\ proc'[w].stop = proc[w].stop

LeavesRun(w) == proc'[w].run = Nobody /\ proc'[w].token = 0 /\ ~proc'[w].stop

TakesRun(w) == \E scope \in Scopes, r \in Runs : Claim(w, scope, r, TRUE)

LEMMA PcFields ==
    ASSUME TypeOK, NEW w \in Workers, NEW pc
    PROVE  /\ proc' = [proc EXCEPT ![w].pc = pc] => KeepsRun(w)
           /\ proc' = [proc EXCEPT ![w] = Off] => LeavesRun(w)
           /\ proc' = [proc EXCEPT ![w] = [Off EXCEPT !.pc = pc]] => LeavesRun(w)
<1>1. proc[w] \in ProcRecord
  BY DEF TypeOK
<1>2. KeepsRun(w) <=> /\ proc'[w].run = proc[w].run
                      /\ proc'[w].token = proc[w].token
                      /\ proc'[w].stop = proc[w].stop
  BY DEF KeepsRun
<1>3. ASSUME proc' = [proc EXCEPT ![w].pc = pc] PROVE KeepsRun(w)
  <2>1. proc'[w] = [proc[w] EXCEPT !.pc = pc]
    BY <1>3 DEF TypeOK
  <2> QED BY <1>1, <1>2, <2>1 DEF ProcRecord
<1>4. ASSUME proc' = [proc EXCEPT ![w] = Off] PROVE LeavesRun(w)
  <2>1. proc'[w] = Off
    BY <1>4 DEF TypeOK
  <2> QED BY <2>1 DEF Off, LeavesRun
<1>5. ASSUME proc' = [proc EXCEPT ![w] = [Off EXCEPT !.pc = pc]] PROVE LeavesRun(w)
  <2>1. proc'[w] = [Off EXCEPT !.pc = pc]
    BY <1>5 DEF TypeOK
  <2> QED BY <2>1 DEF Off, LeavesRun
<1> QED BY <1>3, <1>4, <1>5

LEMMA EveryProcessMoves ==
    ASSUME TypeOK, [Next]_vars, NEW w \in Workers
    PROVE  KeepsRun(w) \/ LeavesRun(w) \/ Heartbeat(w) \/ TakesRun(w)
<1>1. CASE proc'[w] = proc[w]
  BY <1>1 DEF KeepsRun
<1>2. CASE proc'[w] # proc[w]
  <2>2. ASSUME NEW v \in Workers, NEW scope \in Scopes, PollEmpty(v, scope)
        PROVE  KeepsRun(w)
    <3>1. proc' = [proc EXCEPT ![v].pc = "ready"]
      BY <2>2 DEF PollEmpty
    <3>2. v = w
      BY <1>2, <3>1 DEF TypeOK
    <3> QED BY <3>1, <3>2, PcFields
  <2>3. ASSUME NEW v \in Workers, NEW scope \in Scopes, NEW r \in Runs,
               NEW delivered \in BOOLEAN, Claim(v, scope, r, delivered)
        PROVE  LeavesRun(w) \/ TakesRun(w)
    <3>1. v = w
      BY <1>2, <2>3 DEF Claim, TypeOK
    <3>2. CASE delivered
      BY <2>3, <3>1, <3>2 DEF TakesRun
    <3>3. CASE ~delivered
      <4>1. proc' = [proc EXCEPT ![w] = [Off EXCEPT !.pc = "exiting"]]
        BY <2>3, <3>1, <3>3 DEF Claim
      <4> QED BY <4>1, PcFields
    <3> QED BY <3>2, <3>3
  <2>4. ASSUME NEW v \in Workers, Register(v) \/ IdleHeartbeat(v) PROVE KeepsRun(w)
    <3>1. PICK pc \in {"ready", "polling", "exiting"} : proc' = [proc EXCEPT ![v].pc = pc]
      BY <2>4 DEF Register, IdleHeartbeat
    <3>2. v = w
      BY <1>2, <3>1 DEF TypeOK
    <3> QED BY <3>1, <3>2, PcFields
  <2>5. ASSUME NEW v \in Workers, Finish(v) \/ Crash(v) \/ Refused(v) PROVE LeavesRun(w)
    <3>1. \/ proc' = [proc EXCEPT ![v] = Off]
          \/ proc' = [proc EXCEPT ![v] = [Off EXCEPT !.pc = "exiting"]]
      BY <2>5 DEF Finish, Crash, Refused
    <3>2. v = w
      BY <1>2, <3>1 DEF TypeOK
    <3> QED BY <3>1, <3>2, PcFields
  <2>6. ASSUME NEW v \in Workers, Heartbeat(v) PROVE Heartbeat(w)
    <3>1. v = w
      BY <1>2, <2>6 DEF Heartbeat, TypeOK
    <3> QED BY <2>6, <3>1
  <2>7. ASSUME NEW v \in Workers, NEW delivered \in BOOLEAN, Complete(v, delivered)
        PROVE  KeepsRun(w) \/ LeavesRun(w)
    <3>1. \/ proc' = [proc EXCEPT ![v] = [Off EXCEPT !.pc = "ready"]]
          \/ proc' = [proc EXCEPT ![v].pc = "failing"]
      <4>1. CASE delivered
        BY <2>7, <4>1 DEF Complete
      <4>2. CASE ~delivered
        BY <2>7, <4>2 DEF Complete
      <4> QED BY <4>1, <4>2
    <3>2. v = w
      BY <1>2, <3>1 DEF TypeOK
    <3> QED BY <3>1, <3>2, PcFields
  <2>8. ASSUME NEW v \in Workers, NEW retryable \in BOOLEAN, NEW delivered \in BOOLEAN,
               NEW error \in {"timed_out", "worker_error"}, Fail(v, retryable, error, delivered)
        PROVE  LeavesRun(w)
    <3>1. PICK pc \in {"ready", "exiting"} : proc' = [proc EXCEPT ![v] = [Off EXCEPT !.pc = pc]]
      <4>1. proc' = [proc EXCEPT ![v] = [Off EXCEPT !.pc = IF delivered THEN "ready" ELSE "exiting"]]
        BY <2>8 DEF Fail
      <4> QED BY <4>1
    <3>2. v = w
      BY <1>2, <3>1 DEF TypeOK
    <3> QED BY <3>1, <3>2, PcFields
  <2>9. proc' # proc
    BY <1>2
  <2> QED
    BY <2>2, <2>3, <2>4, <2>5, <2>6, <2>7, <2>8, <2>9
    DEF Next, OwnerNext, PollNext, WorkerNext, vars, Submit, RequestCancellation,
        CancelQueued, CancelRunning, Retry, Tick
<1> QED BY <1>1, <1>2

\* What a heartbeat and a claim leave in the process.
LEMMA ToldAndTaken ==
    ASSUME TypeOK, NEW w \in Workers
    PROVE  /\ Heartbeat(w) =>
                /\ proc[w].run \in Runs /\ proc'[w].run = proc[w].run
                /\ proc'[w].token = proc[w].token
                /\ proc'[w].stop = run[proc[w].run].cancel
           /\ \A scope \in Scopes, r \in Runs : Claim(w, scope, r, TRUE) =>
                /\ proc'[w].run = r
                /\ proc'[w].token = run[r].attempt + 1
                /\ ~proc'[w].stop
<1>0. proc[w] \in ProcRecord
  BY DEF TypeOK
<1>1. ASSUME Heartbeat(w)
      PROVE  /\ proc[w].run \in Runs /\ proc'[w].run = proc[w].run
             /\ proc'[w].token = proc[w].token
             /\ proc'[w].stop = run[proc[w].run].cancel
  <2>1. proc[w].run \in Runs /\ proc'[w] = [proc[w] EXCEPT !.stop = run[proc[w].run].cancel]
    BY <1>1 DEF Heartbeat, HoldsLease, TypeOK
  <2> QED BY <1>0, <2>1 DEF ProcRecord
<1>2. ASSUME NEW scope \in Scopes, NEW r \in Runs, Claim(w, scope, r, TRUE)
      PROVE  proc'[w].run = r /\ proc'[w].token = run[r].attempt + 1 /\ ~proc'[w].stop
  <2>1. proc'[w] = [pc |-> "busy", run |-> r, token |-> NewToken(r), stop |-> FALSE]
    BY <1>2 DEF Claim, TypeOK
  <2> QED BY <2>1 DEF NewToken
<1> QED BY <1>1, <1>2

LEMMA MoveInvStays == MoveInv /\ [Next]_vars => MoveInv'
<1> SUFFICES ASSUME MoveInv, [Next]_vars PROVE MoveInv'
  OBVIOUS
<1>1. TypeOK /\ TypeOK' /\ StopsAreAsked /\ StopsInProgress
  BY TypeStep DEF MoveInv
<1>2. \A r \in Runs : Moves(r)
  BY <1>1, EveryRunMoves
<1>3. StopsInProgress'
  <2> SUFFICES ASSUME NEW r \in Runs, run'[r].cancel
               PROVE  run'[r].status \in {"running", "cancelled"}
    BY DEF StopsInProgress
  <2>1. CASE run[r].cancel
    BY <1>1, <1>2, <2>1, StopsStay DEF StopsInProgress
  <2>2. CASE ~run[r].cancel
    BY <1>2, <2>2 DEF Moves, Stays, IsSubmitted, IsStarted, IsStopAsked, IsSettledIn,
                      IsRequeued, MoveTo, Terminal
  <2> QED BY <2>1, <2>2
<1>4. StopsAreAsked'
  <2> SUFFICES ASSUME NEW w \in Workers, proc'[w].stop
               PROVE  proc'[w].run \in Runs /\ run'[proc'[w].run].cancel
    BY DEF StopsAreAsked
  <2>1. CASE KeepsRun(w)
    BY <1>1, <1>2, <2>1, StopsStay DEF StopsAreAsked, KeepsRun
  <2>2. CASE Heartbeat(w)
    BY <1>1, <1>2, <2>2, ToldAndTaken, StopsStay
  <2> QED BY <1>1, <2>1, <2>2, EveryProcessMoves, ToldAndTaken DEF LeavesRun, TakesRun
<1> QED BY <1>1, <1>3, <1>4 DEF MoveInv

LEMMA MoveInvHolds == Spec => []MoveInv
<1>1. Init => MoveInv
  <2>1. Init => StopsAreAsked
    BY DEF Init, StopsAreAsked, Off
  <2>2. Init => StopsInProgress
    BY DEF Init, StopsInProgress, NewRun
  <2> QED BY <2>1, <2>2, TypeInit DEF MoveInv
<1> QED BY <1>1, MoveInvStays, PTL DEF Spec

(* Cancellation wins at the terminal boundary: a cancellation that was     *)
(* asked for survives completions, failures, sweeps and takeovers, starts  *)
(* no attempt, and leaves the run no other outcome.                        *)
THEOREM CancellationPrevails == Spec => CancellationWins
<1>1. MoveInv /\ [Next]_vars =>
        [\A r \in Runs : run[r].cancel =>
            /\ run'[r].cancel
            /\ run'[r].attempt = run[r].attempt
            /\ run'[r].status \in {run[r].status, "cancelled"}]_vars
  BY EveryRunMoves, StopsStay, TypeStep DEF MoveInv
<1> QED BY <1>1, MoveInvHolds, PTL DEF Spec, CancellationWins

-----------------------------------------------------------------------------
(* The refinement.                                                         *)

\* What RunPromise sees of a run, before and after a step.
LEMMA LifeFields ==
    ASSUME NEW r \in Runs
    PROVE  /\ life[r].phase = run[r].status
           /\ life[r].attempts = run[r].attempt
           /\ life[r].stop = run[r].cancel
           /\ life'[r] = Promise!Life(run'[r].status, run'[r].attempt, run'[r].cancel)
           /\ Stays(r) => life'[r] = life[r]
<1>1. life[r] = [phase |-> run[r].status, attempts |-> run[r].attempt, stop |-> run[r].cancel]
  BY DEF life
<1>2. life'[r] = [phase |-> run'[r].status, attempts |-> run'[r].attempt, stop |-> run'[r].cancel]
  BY DEF life
<1>3. ASSUME Stays(r) PROVE life'[r] = life[r]
  BY <1>1, <1>2, <1>3 DEF Stays, MoveTo
<1> QED BY <1>1, <1>2, <1>3 DEF Promise!Life

\* Every move of a run is a move of its promise.
LEMMA MovesArePromised ==
    ASSUME NEW r \in Runs, Moves(r)
    PROVE  life'[r] = life[r] \/ Promise!Move(life[r], life'[r])
<1>1. CASE Stays(r)
  BY <1>1, LifeFields
<1>2. CASE IsSubmitted(r)
  BY <1>2, LifeFields DEF IsSubmitted, MoveTo, Promise!Move, Promise!Submitted
<1>3. CASE IsStarted(r)
  BY <1>3, LifeFields DEF IsStarted, MoveTo, Promise!Move, Promise!Started
<1>4. CASE IsStopAsked(r)
  BY <1>4, LifeFields DEF IsStopAsked, MoveTo, Promise!Move, Promise!StopAsked
<1>5. ASSUME NEW outcome \in Terminal, IsSettledIn(r, outcome)
      PROVE  Promise!Move(life[r], life'[r])
  <2>1. outcome \in {"succeeded", "failed", "cancelled"}
    BY DEF Terminal
  <2> QED
    BY <1>5, <2>1, LifeFields DEF IsSettledIn, MoveTo, Promise!Move, Promise!Settled
<1>6. CASE IsRequeued(r)
  BY <1>6, LifeFields DEF IsRequeued, MoveTo, Promise!Move, Promise!Requeued
<1> QED BY <1>1, <1>2, <1>3, <1>4, <1>5, <1>6 DEF Moves

LEMMA SeenType ==
    ASSUME NEW record \in RunRecord
    PROVE  [phase |-> record.status, attempts |-> record.attempt, stop |-> record.cancel]
             \in Promise!Lives
<1>1. record.status \in RunStatus /\ record.attempt \in 0..MaxAttempts /\ record.cancel \in BOOLEAN
  BY DEF RunRecord
<1> QED BY <1>1 DEF RunStatus, Promise!Lives, Promise!Phases

(* The lease protocol implements RunPromise: whatever workers, leases,     *)
(* clocks and sweeps do, a run is submitted once, starts at most           *)
(* MaxAttempts attempts, settles in one outcome, which is cancelled        *)
(* exactly if that was asked for, and moves again only from failed.        *)
THEOREM LeasesKeepThePromise == Spec => KeepsPromise
<1>1. Init => Promise!Init
  BY DEF Init, NewRun, life, Promise!Init, Promise!Unborn, Promise!Life
<1>2. MoveInv /\ [Next]_vars => [Promise!Next]_life
  <2> SUFFICES ASSUME MoveInv, [Next]_vars PROVE Promise!Next
    OBVIOUS
  <2>1. TypeOK /\ TypeOK' /\ StopsAreAsked
    BY TypeStep DEF MoveInv
  <2>2. life' \in [Runs -> Promise!Lives]
    BY <2>1, SeenType DEF life, TypeOK
  <2>3. ASSUME NEW r \in Runs PROVE life'[r] = life[r] \/ Promise!Move(life[r], life'[r])
    BY <2>1, EveryRunMoves, MovesArePromised
  <2> QED BY <2>2, <2>3 DEF Promise!Next
<1> QED BY <1>1, <1>2, MoveInvHolds, PTL DEF Spec, KeepsPromise, Promise!Spec

-----------------------------------------------------------------------------
(* The ledgers and the prerequisites.                                      *)

LEMMA LedgersStay == TypeOK /\ LedgersAgree /\ [Next]_vars => LedgersAgree'
<1> SUFFICES ASSUME TypeOK, LedgersAgree, [Next]_vars, NEW r \in Runs
             PROVE  command'[r] = run'[r].status /\ task'[r] = TaskOf(run'[r].status)
  BY DEF LedgersAgree
<1>0. run[r] \in RunRecord /\ command[r] = run[r].status /\ task[r] = TaskOf(run[r].status)
  BY DEF TypeOK, LedgersAgree
<1>a. /\ TaskOf("running") = "in_progress" /\ TaskOf("succeeded") = "completed"
      /\ TaskOf("failed") = "failed" /\ TaskOf("cancelled") = "cancelled"
      /\ TaskOf("queued") = "queued"
  BY DEF TaskOf
<1>1. CASE run'[r].status = run[r].status /\ task'[r] = task[r] /\ command'[r] = command[r]
  BY <1>0, <1>1
<1>2. ASSUME NEW q \in Runs, Submit(q) \/ RequestCancellation(q) \/ Retry(q)
      PROVE  command'[r] = run'[r].status /\ task'[r] = TaskOf(run'[r].status)
  <2>1. CASE q # r
    BY <1>1, <1>2, <2>1 DEF Submit, RequestCancellation, CancelQueued, CancelRunning, Retry, TypeOK
  <2>2. CASE Submit(r)
    <3>1. task'[r] = "queued" /\ command'[r] = "queued"
      BY <2>2 DEF Submit, TypeOK
    <3> QED BY <1>a, <2>2, <3>1, OwnerFields
  <2>3. CASE CancelQueued(r)
    <3>1. task'[r] = "cancelled" /\ command'[r] = "cancelled"
      BY <2>3 DEF CancelQueued, TypeOK
    <3> QED BY <1>a, <2>3, <3>1, OwnerFields
  <2>4. CASE CancelRunning(r)
    BY <1>1, <2>4, OwnerFields DEF CancelRunning
  <2>5. CASE Retry(r)
    <3>1. task'[r] = "queued" /\ command'[r] = "queued"
      BY <2>5 DEF Retry, TypeOK
    <3> QED BY <1>a, <2>5, <3>1, OwnerFields
  <2> QED BY <1>2, <2>1, <2>2, <2>3, <2>4, <2>5 DEF RequestCancellation
<1>3. ASSUME run'[r] = SweptRun(r), task'[r] = SweepOutcome(r), command'[r] = SweepOutcome(r)
      PROVE  command'[r] = run'[r].status /\ task'[r] = TaskOf(run'[r].status)
  <2>1. SweepOutcome(r) \in {"failed", "cancelled"} /\ run'[r].status = SweepOutcome(r)
    BY <1>3, SweptType, SweptFields
  <2> QED BY <1>3, <1>a, <2>1
<1>4. ASSUME NEW w \in Workers, NEW scope \in Scopes, PollEmpty(w, scope)
      PROVE  command'[r] = run'[r].status /\ task'[r] = TaskOf(run'[r].status)
  BY <1>1, <1>3, <1>4 DEF PollEmpty
<1>5. ASSUME NEW w \in Workers, NEW scope \in Scopes, NEW q \in Runs,
             NEW delivered \in BOOLEAN, Claim(w, scope, q, delivered)
      PROVE  command'[r] = run'[r].status /\ task'[r] = TaskOf(run'[r].status)
  <2>1. CASE q # r
    BY <1>1, <1>3, <1>5, <2>1 DEF Claim
  <2>2. CASE q = r
    <3>1. run'[r] = ClaimedRun(r, w) /\ task'[r] = "in_progress" /\ command'[r] = "running"
      BY <1>5, <2>2 DEF Claim
    <3> QED BY <1>a, <3>1, ClaimedFields
  <2> QED BY <2>1, <2>2
<1>6. ASSUME NEW w \in Workers, Heartbeat(w)
      PROVE  command'[r] = run'[r].status /\ task'[r] = TaskOf(run'[r].status)
  <2>1. run'[r].status = run[r].status
    <3>1. run'[r] = run[r] \/ \E lease : run'[r] = [run[r] EXCEPT !.lease = lease]
      BY <1>6 DEF Heartbeat, TypeOK
    <3> QED BY <1>0, <3>1 DEF RunRecord
  <2> QED BY <1>1, <1>6, <2>1 DEF Heartbeat
<1>7. ASSUME NEW w \in Workers, NEW q \in Runs, NEW verdict, verdict.outcome \in Terminal,
             Record(w, q, verdict)
      PROVE  command'[r] = run'[r].status /\ task'[r] = TaskOf(run'[r].status)
  <2>1. CASE q # r
    BY <1>1, <1>7, <2>1 DEF Record, TypeOK
  <2>2. CASE q = r
    <3>1. /\ run'[r] = Settle(run[r], verdict.outcome, verdict.retryable, verdict.error)
          /\ task'[r] = TaskOutcome(verdict.outcome) /\ command'[r] = verdict.outcome
      BY <1>7, <2>2 DEF Record, TypeOK
    <3>2. run'[r].status = verdict.outcome
      BY <1>0, <3>1, SettledFields
    <3> QED BY <1>7, <1>a, <3>1, <3>2 DEF TaskOutcome, Terminal
  <2> QED BY <2>1, <2>2
<1>8. ASSUME NEW w \in Workers, NEW delivered \in BOOLEAN, Complete(w, delivered)
      PROVE  command'[r] = run'[r].status /\ task'[r] = TaskOf(run'[r].status)
  <2>1. proc[w].run \in Runs
    BY <1>8 DEF Complete, HoldsLease
  <2>2. Verdict(proc[w].run, "succeeded", FALSE, "none").outcome \in Terminal
    BY DEF Verdict, Terminal
  <2> QED BY <1>1, <1>7, <1>8, <2>1, <2>2 DEF Complete
<1>9. ASSUME NEW w \in Workers, NEW retryable \in BOOLEAN, NEW delivered \in BOOLEAN,
             NEW error \in {"timed_out", "worker_error"}, Fail(w, retryable, error, delivered)
      PROVE  command'[r] = run'[r].status /\ task'[r] = TaskOf(run'[r].status)
  <2>1. proc[w].run \in Runs
    BY <1>9 DEF Fail, HoldsLease
  <2> DEFINE verdict == IF proc[w].stop
                        THEN Verdict(proc[w].run, "cancelled", FALSE, "none")
                        ELSE Verdict(proc[w].run, "failed", retryable, error)
  <2>2. verdict.outcome \in Terminal
    BY DEF Verdict, Terminal
  <2>3. Record(w, proc[w].run, verdict)
    BY <1>9 DEF Fail
  <2> QED BY <1>7, <2>1, <2>2, <2>3
<1>10. CASE Tick
  <2>1. run'[r] = Elapse(run[r])
    BY <1>10 DEF Tick
  <2> QED BY <1>0, <1>1, <1>10, <2>1, ElapseFields DEF Tick
<1>11. CASE UNCHANGED <<run, task, command>>
  BY <1>0, <1>11
<1> QED
  BY <1>2, <1>4, <1>5, <1>6, <1>8, <1>9, <1>10, <1>11
  DEF Next, OwnerNext, PollNext, WorkerNext, Register, IdleHeartbeat,
      Finish, Crash, Refused, vars

(* The run, its task and its command never tell an owner different things: *)
(* every path that settles, starts or requeues a run moves all three.      *)
THEOREM LedgersNeverDisagree == Spec => []LedgersAgree
<1>1. Init => LedgersAgree
  BY DEF Init, LedgersAgree, NewRun, TaskOf
<1> QED BY <1>1, LedgersStay, TypeCorrect, PTL DEF Spec
=============================================================================
