------------------------------ MODULE RunLease ------------------------------
(***************************************************************************)
(* The durable lease protocol of Phase 1C: the SECURITY DEFINER functions  *)
(* that queue, claim, heartbeat, complete, cancel and retry a run, and the *)
(* worker processes that call them (lib/worker/worker.ts through           *)
(* lib/worker/supabase-store.ts, driven by scripts/worker.mts).            *)
(*                                                                         *)
(* Every SQL function is one atomic step: it locks the run row and commits *)
(* or raises as a whole.  A worker process may be slow for ever, crash, be *)
(* restarted under the same worker id, or lose the response of a call that *)
(* committed.                                                              *)
(*                                                                         *)
(* Time is kept as what is left of it.  run[r].lease is lease_expires_at   *)
(* minus now(): positive while the lease is live (lease_expires_at >       *)
(* now()), Expired once it lies in the past (lease_expires_at < now()),    *)
(* and 0 at the instant that is neither.  run[r].budget is started_at plus *)
(* maximumDurationMs minus now(): the deadline has passed when it is 0.    *)
(* The lease token, a fresh uuid per claim, is named by the attempt number *)
(* that the same UPDATE increments.                                        *)
(***************************************************************************)
EXTENDS Integers, FiniteSets

CONSTANTS
    Runs,           \* agent_runs rows; each has one task and one command
    Workers,        \* worker ids
    Agents,         \* neutral logical agents
    AgentOf,        \* agent_runs.agent_id
    Prerequisites,  \* task_dependencies: the runs whose task must be completed
    Bridged,        \* runs whose command is attached to a graph bridge
    MaxAttempts,    \* agent_runs.max_attempts, 2 for every queued run
    Duration,       \* budget.maximumDurationMs, in clock ticks
    LeaseTime,      \* p_lease_seconds, in clock ticks
    Capacity,       \* phase1c_workers.maximum_concurrent_runs
    Nobody          \* the null worker, run and assignment

ASSUME RunLeaseAssumption ==
    /\ AgentOf \in [Runs -> Agents]
    /\ Prerequisites \in [Runs -> SUBSET Runs]
    /\ Bridged \subseteq Runs
    /\ MaxAttempts \in Nat \ {0}
    /\ Duration \in Nat \ {0}
    /\ LeaseTime \in Nat \ {0}
    /\ Capacity \in Nat \ {0}
    /\ Nobody \notin Runs \cup Workers

ASSUME RunsAreFinite == IsFiniteSet(Runs)

VARIABLES
    run,        \* agent_runs
    task,       \* tasks.status of the run's task
    command,    \* commands.status of the run's command
    agent,      \* agents: status and current_assignment
    row,        \* phase1c_workers: status and current_run_id
    proc        \* the worker processes

vars == <<run, task, command, agent, row, proc>>

-----------------------------------------------------------------------------
Expired == -1

RunStatus == {"none", "queued", "running", "succeeded", "failed", "cancelled"}
TaskStatus == {"none", "queued", "in_progress", "completed", "failed", "cancelled"}
CommandStatus == {"none", "queued", "running", "succeeded", "failed", "cancelled"}
ErrorCode == {"none", "timed_out", "lease_attempts_exhausted", "worker_error"}

RunRecord == [
    status    : RunStatus,
    attempt   : 0..MaxAttempts,
    holder    : Workers \cup {Nobody},
    token     : 0..MaxAttempts,
    lease     : Expired..LeaseTime,
    started   : BOOLEAN,
    budget    : 0..Duration,
    cancel    : BOOLEAN,
    retryable : BOOLEAN,
    error     : ErrorCode]

AgentRecord == [status : {"idle", "busy", "error"}, assignment : Runs \cup {Nobody}]

RowRecord == [status : {"none", "active", "idle", "error"}, current : Runs \cup {Nobody}]

ProcRecord == [
    pc     : {"off", "ready", "polling", "busy", "failing", "exiting"},
    run    : Runs \cup {Nobody},
    token  : 0..MaxAttempts,
    stop   : BOOLEAN]

TypeOK ==
    /\ run \in [Runs -> RunRecord]
    /\ task \in [Runs -> TaskStatus]
    /\ command \in [Runs -> CommandStatus]
    /\ agent \in [Agents -> AgentRecord]
    /\ row \in [Workers -> RowRecord]
    /\ proc \in [Workers -> ProcRecord]

NewRun == [status |-> "none", attempt |-> 0, holder |-> Nobody, token |-> 0,
           lease |-> Expired, started |-> FALSE, budget |-> Duration,
           cancel |-> FALSE, retryable |-> FALSE, error |-> "none"]

Off == [pc |-> "off", run |-> Nobody, token |-> 0, stop |-> FALSE]

Init ==
    /\ run = [r \in Runs |-> NewRun]
    /\ task = [r \in Runs |-> "none"]
    /\ command = [r \in Runs |-> "none"]
    /\ agent = [a \in Agents |-> [status |-> "idle", assignment |-> Nobody]]
    /\ row = [w \in Workers |-> [status |-> "none", current |-> Nobody]]
    /\ proc = [w \in Workers |-> Off]

-----------------------------------------------------------------------------
(* The conditions the SQL functions share.                                 *)

Terminal == {"succeeded", "failed", "cancelled"}

TaskOutcome(outcome) == IF outcome = "succeeded" THEN "completed" ELSE outcome

Live(r) == run[r].status = "running" /\ run[r].lease > 0

LeaseLost(r) == run[r].status = "running" /\ run[r].lease = Expired

DeadlinePassed(r) == ~run[r].started \/ run[r].budget = 0

\* Mutant: the lease's expiry is not compared with now().
HoldsLeaseEvenExpired(w) ==
    LET r == proc[w].run IN
    /\ r \in Runs
    /\ run[r].status = "running"
    /\ run[r].holder = w
    /\ run[r].token = proc[w].token

\* status = 'running' and lease_worker_id, lease_token and lease_expires_at match.
HoldsLease(w) ==
    LET r == proc[w].run IN
    /\ r \in Runs
    /\ Live(r)
    /\ run[r].holder = w
    /\ run[r].token = proc[w].token

LeasesOf(w) == {r \in Runs : Live(r) /\ run[r].holder = w}

\* Mutant: the row's current run stands for the leases the worker holds.
HasCapacityByRow(w) == row[w].current = Nobody

HasCapacity(w) == Cardinality(LeasesOf(w)) < Capacity

\* The lease columns are cleared by every transition out of 'running'.
Settle(record, outcome, retryable, error) ==
    [record EXCEPT !.status = outcome, !.holder = Nobody, !.token = 0,
                   !.lease = Expired, !.retryable = retryable, !.error = error]

-----------------------------------------------------------------------------
(* The owner: submit a command, ask for its cancellation, ask for a retry. *)

Submit(r) ==
    /\ run[r].status = "none"
    /\ run' = [run EXCEPT ![r].status = "queued"]
    /\ task' = [task EXCEPT ![r] = "queued"]
    /\ command' = [command EXCEPT ![r] = "queued"]
    /\ UNCHANGED <<agent, row, proc>>

\* Mutant: the command of a queued run is left behind.
CancelQueuedRunAndTask(r) ==
    /\ run[r].status = "queued"
    /\ run' = [run EXCEPT ![r].status = "cancelled", ![r].cancel = TRUE]
    /\ task' = [task EXCEPT ![r] = "cancelled"]
    /\ UNCHANGED <<command, agent, row, proc>>

CancelQueued(r) ==
    /\ run[r].status = "queued"
    /\ run' = [run EXCEPT ![r].status = "cancelled", ![r].cancel = TRUE]
    /\ task' = [task EXCEPT ![r] = "cancelled"]
    /\ command' = [command EXCEPT ![r] = "cancelled"]
    /\ UNCHANGED <<agent, row, proc>>

CancelRunning(r) ==
    /\ run[r].status = "running"
    /\ run' = [run EXCEPT ![r].cancel = TRUE]
    /\ UNCHANGED <<task, command, agent, row, proc>>

RequestCancellation(r) == CancelQueued(r) \/ CancelRunning(r)

\* The usage budget and the coherence of the recovery evidence may also refuse.
Retry(r) ==
    /\ run[r].status = "failed"
    /\ run[r].retryable
    /\ run[r].attempt < MaxAttempts
    /\ run[r].error # "timed_out"
    /\ ~run[r].cancel
    /\ run' = [run EXCEPT ![r] = Settle(@, "queued", FALSE, "none")]
    /\ task' = [task EXCEPT ![r] = "queued"]
    /\ command' = [command EXCEPT ![r] = "queued"]
    /\ UNCHANGED <<agent, row, proc>>

-----------------------------------------------------------------------------
(* The claim functions: first every exhausted run in scope is settled,     *)
(* then at most one eligible run is leased to the caller.  A claim that    *)
(* names a command has that run alone in scope.  Ordering by priority, the *)
(* owner's pause, portfolio ceilings and provider breakers only decide     *)
(* which eligible run is taken, so any of them may be.                     *)

\* Mutant: only cancelled and used-up runs are swept, not those past the deadline.
ExhaustedByAttempts(r) == LeaseLost(r) /\ (run[r].cancel \/ run[r].attempt >= MaxAttempts)

Exhausted(r) ==
    \/ /\ LeaseLost(r)
       /\ run[r].cancel \/ run[r].attempt >= MaxAttempts \/ DeadlinePassed(r)
    \/ run[r].status = "queued" /\ run[r].started /\ run[r].budget = 0

\* Mutant: the sweep forgets that the owner asked to cancel.
SweepOutcomeFailed(r) == "failed"

SweepOutcome(r) == IF run[r].cancel THEN "cancelled" ELSE "failed"

SweepError(r) ==
    CASE run[r].cancel     -> "none"
      [] DeadlinePassed(r) /\ ~run[r].cancel -> "timed_out"
      [] OTHER             -> "lease_attempts_exhausted"

SweptRun(r) == Settle(run[r], SweepOutcome(r), FALSE, SweepError(r))

SweptAgent(a, swept) ==
    IF \E r \in swept : AgentOf[r] = a
    THEN [status |-> "idle", assignment |-> Nobody]
    ELSE agent[a]

\* Mutant: the row of whoever held the run's last lease is marked.
SweptRowOfHolder(w, swept) ==
    IF \E r \in swept : run[r].holder = w
    THEN [status |-> "error", current |-> Nobody]
    ELSE row[w]

SweptRow(w, swept) ==
    IF row[w].current \in swept
    THEN [status |-> "error", current |-> Nobody]
    ELSE row[w]

\* Mutants: a takeover is not bounded by max_attempts; a second run of a busy
\* agent is taken; a run is taken before its prerequisites.
EligiblePastAttempts(r) ==
    /\ run[r].status = "queued" \/ LeaseLost(r)
    /\ run[r].status = "queued" => run[r].attempt < MaxAttempts
    /\ ~run[r].cancel
    /\ run[r].started => run[r].budget > 0

EligibleBesideBusyAgent(r) ==
    /\ run[r].status = "queued" \/ LeaseLost(r)
    /\ run[r].attempt < MaxAttempts
    /\ ~run[r].cancel
    /\ run[r].started => run[r].budget > 0
    /\ \A p \in Prerequisites[r] : task[p] = "completed"

EligibleBeforePrerequisites(r) ==
    /\ run[r].status = "queued" \/ LeaseLost(r)
    /\ run[r].attempt < MaxAttempts
    /\ ~run[r].cancel
    /\ run[r].started => run[r].budget > 0
    /\ \A other \in Runs \ {r} : AgentOf[other] = AgentOf[r] => ~Live(other)

Eligible(r) ==
    /\ run[r].status = "queued" \/ LeaseLost(r)
    /\ run[r].attempt < MaxAttempts
    /\ ~run[r].cancel
    /\ run[r].started => run[r].budget > 0
    /\ command[r] \in {"queued", "running"}
    /\ task[r] \in {"queued", "in_progress"}
    /\ \A other \in Runs \ {r} : AgentOf[other] = AgentOf[r] => ~Live(other)
    /\ \A p \in Prerequisites[r] : task[p] = "completed"

\* Mutant: a takeover inherits the token of the lease it ends.
NewTokenUnlessTakeover(r) == IF LeaseLost(r) THEN run[r].token ELSE run[r].attempt + 1

NewToken(r) == run[r].attempt + 1

ClaimedRun(r, w) ==
    [run[r] EXCEPT !.status = "running", !.holder = w,
                   !.attempt = @ + 1, !.token = NewToken(r),
                   !.lease = LeaseTime, !.started = TRUE,
                   !.retryable = FALSE, !.error = "none"]

Scopes == {Runs} \cup {{r} : r \in Runs}

\* The row is still active: a sweep marks only rows that name a run, and the idle
\* heartbeat has just cleared this one.
CanPoll(w) ==
    /\ proc[w].pc = "polling"
    /\ row[w].status = "active"

\* Nothing is handed out: no capacity, nothing eligible, or all of it withheld.
PollEmpty(w, scope) ==
    LET swept == {r \in scope : Exhausted(r)} IN
    /\ CanPoll(w)
    /\ run' = [r \in Runs |-> IF r \in swept THEN SweptRun(r) ELSE run[r]]
    /\ task' = [r \in Runs |-> IF r \in swept THEN SweepOutcome(r) ELSE task[r]]
    /\ command' = [r \in Runs |-> IF r \in swept THEN SweepOutcome(r) ELSE command[r]]
    /\ agent' = [a \in Agents |-> SweptAgent(a, swept)]
    /\ row' = [v \in Workers |-> SweptRow(v, swept)]
    /\ proc' = [proc EXCEPT ![w].pc = "ready"]

\* delivered is FALSE when the claim committed but its response, or the bridge
\* binding that follows it, failed: the process exits without knowing the job.
Claim(w, scope, r, delivered) ==
    LET swept == {x \in scope : Exhausted(x)} IN
    /\ CanPoll(w)
    /\ r \in scope
    /\ HasCapacity(w)
    /\ Eligible(r)
    /\ run' = [x \in Runs |-> IF x = r THEN ClaimedRun(r, w)
                              ELSE IF x \in swept THEN SweptRun(x) ELSE run[x]]
    /\ task' = [x \in Runs |-> IF x = r THEN "in_progress"
                               ELSE IF x \in swept THEN SweepOutcome(x) ELSE task[x]]
    /\ command' = [x \in Runs |-> IF x = r THEN "running"
                                  ELSE IF x \in swept THEN SweepOutcome(x) ELSE command[x]]
    /\ agent' = [a \in Agents |-> IF a = AgentOf[r]
                                  THEN [status |-> "busy", assignment |-> r]
                                  ELSE SweptAgent(a, swept)]
    /\ row' = [v \in Workers |-> IF v = w
                                 THEN [SweptRow(v, swept) EXCEPT !.current = r]
                                 ELSE SweptRow(v, swept)]
    /\ proc' = [proc EXCEPT ![w] =
                  IF delivered
                  THEN [pc |-> "busy", run |-> r, token |-> NewToken(r), stop |-> FALSE]
                  ELSE [Off EXCEPT !.pc = "exiting"]]

-----------------------------------------------------------------------------
(* The worker process.                                                     *)

Register(w) ==
    /\ proc[w].pc = "off"
    /\ row' = [row EXCEPT ![w].status = "active"]
    /\ proc' = [proc EXCEPT ![w].pc = "ready"]
    /\ UNCHANGED <<run, task, command, agent>>

\* store.workerHeartbeat(workerId, null) before every poll; it is refused, and
\* the process exits, when a sweep has put the row in 'error'.
IdleHeartbeat(w) ==
    /\ proc[w].pc = "ready"
    /\ \/ /\ row[w].status = "active"
          /\ row' = [row EXCEPT ![w].current = Nobody]
          /\ proc' = [proc EXCEPT ![w].pc = "polling"]
       \/ /\ row[w].status # "active"
          /\ proc' = [proc EXCEPT ![w].pc = "exiting"]
          /\ UNCHANGED row
    /\ UNCHANGED <<run, task, command, agent>>

Finish(w) ==
    /\ proc[w].pc \in {"ready", "exiting"}
    /\ row' = [row EXCEPT ![w] =
                 [status |-> IF proc[w].pc = "ready" THEN "idle" ELSE "error",
                  current |-> Nobody]]
    /\ proc' = [proc EXCEPT ![w] = Off]
    /\ UNCHANGED <<run, task, command, agent>>

Crash(w) ==
    /\ proc[w].pc # "off"
    /\ proc' = [proc EXCEPT ![w] = Off]
    /\ UNCHANGED <<run, task, command, agent, row>>

Lesser(a, b) == IF a < b THEN a ELSE b

\* heartbeat_phase1c_run: extends the lease, never past the deadline, and
\* tells the worker about a cancellation.  A worker that has been told stops.
Heartbeat(w) ==
    LET r == proc[w].run IN
    /\ proc[w].pc = "busy"
    /\ ~proc[w].stop
    /\ HoldsLease(w)
    /\ ~DeadlinePassed(r)
    /\ row[w].status = "active"
    /\ run' = [run EXCEPT ![r].lease = Lesser(run[r].budget, LeaseTime)]
    /\ row' = [row EXCEPT ![w].current = r]
    /\ proc' = [proc EXCEPT ![w].stop = run[r].cancel]
    /\ UNCHANGED <<task, command, agent>>

\* What complete_phase1c_run writes for an outcome the worker asks for: a
\* requested cancellation first, then the deadline, then the worker's word.
\* Mutant: the worker's word comes before the owner's cancellation.
VerdictOfWorker(r, outcome, retryable, error) ==
    IF DeadlinePassed(r)
    THEN [outcome |-> "failed", retryable |-> FALSE, error |-> "timed_out"]
    ELSE [outcome |-> outcome,
          retryable |-> outcome = "failed" /\ retryable /\ run[r].attempt < MaxAttempts,
          error |-> error]

Verdict(r, outcome, retryable, error) ==
    IF run[r].cancel
    THEN [outcome |-> "cancelled", retryable |-> FALSE, error |-> "none"]
    ELSE IF DeadlinePassed(r)
    THEN [outcome |-> "failed", retryable |-> FALSE, error |-> "timed_out"]
    ELSE [outcome |-> outcome,
          retryable |-> outcome = "failed" /\ retryable /\ run[r].attempt < MaxAttempts,
          error |-> error]

Record(w, r, verdict) ==
    /\ run' = [run EXCEPT ![r] = Settle(@, verdict.outcome, verdict.retryable, verdict.error)]
    /\ task' = [task EXCEPT ![r] = TaskOutcome(verdict.outcome)]
    /\ command' = [command EXCEPT ![r] = verdict.outcome]
    /\ agent' = [agent EXCEPT ![AgentOf[r]] =
                   [status |-> IF verdict.outcome = "failed" THEN "error" ELSE "idle",
                    assignment |-> Nobody]]
    /\ row' = [row EXCEPT ![w].current = IF @ = r THEN Nobody ELSE @]

\* store.complete.  For a bridged run the wrapper raises, and rolls back, when
\* the run did not end as 'succeeded'; a lost response looks the same to the
\* worker, which then reports a failure.
Complete(w, delivered) ==
    LET r == proc[w].run
        verdict == Verdict(r, "succeeded", FALSE, "none")
    IN
    /\ proc[w].pc = "busy"
    /\ ~proc[w].stop
    /\ HoldsLease(w)
    /\ \/ /\ r \in Bridged => verdict.outcome = "succeeded"
          /\ Record(w, r, verdict)
          /\ proc' = [proc EXCEPT ![w] =
                        IF delivered THEN [Off EXCEPT !.pc = "ready"]
                                     ELSE [@ EXCEPT !.pc = "failing"]]
       \/ /\ r \in Bridged
          /\ verdict.outcome # "succeeded"
          /\ proc' = [proc EXCEPT ![w].pc = "failing"]
          /\ UNCHANGED <<run, task, command, agent, row>>

\* store.fail, or store.cancel once a heartbeat reported the cancellation.
Fail(w, retryable, error, delivered) ==
    LET r == proc[w].run
        verdict == IF proc[w].stop
                   THEN Verdict(r, "cancelled", FALSE, "none")
                   ELSE Verdict(r, "failed", retryable, error)
    IN
    /\ proc[w].pc \in {"busy", "failing"}
    /\ HoldsLease(w)
    /\ Record(w, r, verdict)
    /\ proc' = [proc EXCEPT ![w] = [Off EXCEPT !.pc = IF delivered THEN "ready" ELSE "exiting"]]

\* Any call of a worker whose lease is gone is refused; reporting the failure
\* is refused too, so runOnce throws and the process exits.
Refused(w) ==
    /\ proc[w].pc \in {"busy", "failing"}
    /\ ~HoldsLease(w)
    /\ proc' = [proc EXCEPT ![w] = [Off EXCEPT !.pc = "exiting"]]
    /\ UNCHANGED <<run, task, command, agent, row>>

-----------------------------------------------------------------------------
Elapse(record) ==
    [record EXCEPT
        !.lease = IF record.status = "running" /\ @ > Expired THEN @ - 1 ELSE @,
        !.budget = IF record.started /\ @ > 0 THEN @ - 1 ELSE @]

Tick ==
    /\ run' = [r \in Runs |-> Elapse(run[r])]
    /\ UNCHANGED <<task, command, agent, row, proc>>

OwnerNext == \E r \in Runs : Submit(r) \/ RequestCancellation(r) \/ Retry(r)

PollNext(w) ==
    \/ \E scope \in Scopes : PollEmpty(w, scope)
    \/ \E scope \in Scopes, r \in Runs, delivered \in BOOLEAN : Claim(w, scope, r, delivered)

WorkerNext(w) ==
    \/ Register(w)
    \/ IdleHeartbeat(w)
    \/ Finish(w)
    \/ Crash(w)
    \/ Heartbeat(w)
    \/ \E delivered \in BOOLEAN : Complete(w, delivered)
    \/ \E retryable, delivered \in BOOLEAN, error \in {"timed_out", "worker_error"} :
          Fail(w, retryable, error, delivered)
    \/ Refused(w)

Next ==
    \/ OwnerNext
    \/ \E w \in Workers : PollNext(w) \/ WorkerNext(w)
    \/ Tick

Spec == Init /\ [][Next]_vars

(***************************************************************************)
(* Fairness.  Time passes; a registered process polls (the five-minute     *)
(* schedule of codex-worker.yml keeps starting untargeted workers, and not *)
(* every one of them dies before its poll, hence SF); a process whose      *)
(* lease is gone notices at its next call, the heartbeat timer at latest.  *)
(* Nothing is assumed of a worker that holds a lease: it may hang.         *)
(***************************************************************************)
Fairness ==
    /\ WF_vars(Tick)
    /\ \A w \in Workers :
        /\ WF_vars(Register(w))
        /\ WF_vars(Refused(w))
        /\ WF_vars(proc[w].pc = "exiting" /\ Finish(w))
        /\ SF_vars(IdleHeartbeat(w))
        /\ SF_vars(PollEmpty(w, Runs))

FairSpec == Spec /\ Fairness

-----------------------------------------------------------------------------
(* Safety.                                                                 *)

\* "One neutral logical agent cannot hold two active leases": two runs of one
\* agent are never leased at the same time, whatever order workers poll in and
\* however a lease expires and is taken over.
AgentSerial ==
    \A r, s \in Runs : r # s /\ AgentOf[r] = AgentOf[s] => ~(Live(r) /\ Live(s))

\* A worker id never holds more live leases than its row allows, although a
\* process restarted under the same id does not know of the lease it left behind.
CapacityRespected == \A w \in Workers : Cardinality(LeasesOf(w)) <= Capacity

TaskOf(status) ==
    CASE status = "running"   -> "in_progress"
      [] status = "succeeded" -> "completed"
      [] OTHER                -> status

\* The three ledgers an owner reads, the run, its task and its command, never
\* disagree: every path that settles or requeues a run moves all of them.
LedgersAgree ==
    \A r \in Runs : command[r] = run[r].status /\ task[r] = TaskOf(run[r].status)

\* A run that was ever handed to a worker had all its prerequisite tasks
\* completed, and they still are: no retry or sweep reopens a completed task.
PrerequisitesHold ==
    \A r \in Runs : run[r].started =>
        \A p \in Prerequisites[r] : task[p] = "completed"

\* A lease token names one process: two processes that believe they execute the
\* same run hold different tokens, so the database can tell which one is stale.
TokensAreExclusive ==
    \A v, w \in Workers :
        /\ proc[v].run = proc[w].run /\ proc[v].run \in Runs
        /\ proc[v].token = proc[w].token
        => v = w

\* A sweep of somebody else's stale run never marks the row of a process that
\* holds a live lease, which would make its heartbeats fail.
LeaseholderStaysActive ==
    \A w \in Workers : HoldsLease(w) =>
        row[w] = [status |-> "active", current |-> proc[w].run]

\* Cancellation wins at the terminal boundary: once asked for, it survives
\* completions, failures, sweeps and takeovers, and no further attempt starts.
CancellationWins ==
    [][\A r \in Runs : run[r].cancel =>
          /\ run'[r].cancel
          /\ run'[r].attempt = run[r].attempt
          /\ run'[r].status \in {run[r].status, "cancelled"}]_vars

\* A run turns succeeded only by the process that holds the token of its latest
\* attempt, under a lease that is live and before the durable deadline: a worker
\* that was taken over, or that comes back from a long stall, cannot do it.
SuccessIsFenced ==
    [][\A r \in Runs : run[r].status # "succeeded" /\ run'[r].status = "succeeded" =>
          /\ Live(r) /\ run[r].budget > 0
          /\ \E w \in Workers :
                /\ proc[w].pc = "busy" /\ proc[w].run = r
                /\ proc[w].token = run[r].attempt /\ proc[w].token # 0]_vars

\* The detailed protocol keeps the promise of RunPromise.
life == [r \in Runs |-> [phase    |-> run[r].status,
                        attempts |-> run[r].attempt,
                        stop     |-> run[r].cancel]]

Promise == INSTANCE RunPromise WITH life <- life

KeepsPromise == Promise!Spec

-----------------------------------------------------------------------------
(* Liveness, under FairSpec.                                               *)

\* A run that a worker ever started settles, even if every worker that takes it
\* hangs or dies: the deadline is durable and a later poll sweeps it.
StartedRunsSettle ==
    \A r \in Runs :
        run[r].started /\ run[r].status \in {"queued", "running"}
            ~> run[r].status \in Terminal

\* A cancellation asked of a running run is carried out, with no help from the
\* worker that executes it.
CancellationsComplete ==
    \A r \in Runs : run[r].cancel ~> run[r].status = "cancelled"

-----------------------------------------------------------------------------
(* What the repository says and the code does not do; see the README.      *)

\* "A recovered worker may lease only the remaining slice of the original
\* durable run deadline": a lease never outlives the run's deadline.
LeaseWithinDeadline ==
    \A r \in Runs : Live(r) => run[r].lease <= run[r].budget
=============================================================================
