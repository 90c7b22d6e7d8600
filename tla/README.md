# SoftwareFactory in TLA+

SoftwareFactory is a control plane that turns an owner's prompt into a draft
pull request.  A Next.js application and a Postgres database (Supabase) hold the
durable state; every transition of that state is a `SECURITY DEFINER` SQL
function.  Worker processes, started by a five-minute GitHub Actions schedule,
poll the database, lease a run, drive Codex in an isolated Git workspace, push a
`factory/` branch, open a draft pull request and watch its checks.  A second
path executes *graphs*: planned sets of nodes with dependencies, budgets,
fan-ins and gates.  Beside them, sessions take leased locks on paths, and a
broker signs AI accounts in.

This directory specifies the part of that system where the hard behaviour is:
leases, takeovers, crashes, retries, cancellations, lost answers, deadlocks and
recoveries.

| module | what it is |
| --- | --- |
| `RunPromise` | abstract specification of a Phase 1C run: what an owner may rely on |
| `RunLease` | the lease protocol under it: seven SQL functions and the polling processes |
| `RunEvidence` | one run's workspace, branch, draft, checks and evidence, through crashes and recoveries |
| `GraphPromise` | abstract specification of one run of a graph: what its owner may read off the database |
| `GraphRunner` | one claimed run of a graph: engine, worker and database, node by node |
| `GraphQueue` | one graph over all the runs made of it: claims, gates, decisions, pause, withdrawal |
| `WorkLocks` | leased locks over path prefixes, with transactions that work with an old `now()` |
| `AuthSessions` | signing AI accounts in: owner, broker, expiry, and the order in which calls lock their rows |
| `RunLeaseProofs`, `RunLeasePromise`, `RunLeaseTokens` | theorems about `RunLease`: types and agents; the refinement of `RunPromise`; leases and tokens |
| `RunEvidenceProofs` | theorems about `RunEvidence`: what is on record, what a success rests on, what the next attempt finds |
| `GraphRunnerProofs` | theorems about `GraphRunner`: engine, rows, gates and closes; waves and rounds; the refinement of `GraphPromise` |
| `GraphQueueProofs`, `WorkLocksProofs`, `AuthSessionsProofs` | theorems about the three modules they are named after |
| `MCRunLease`, `MCRunEvidence`, `MCGraphRunner`, `MCGraphQueue`, `MCWorkLocks`, `MCAuthSessions` | the instances TLC checks; one `.cfg` per question |

To check an instance: `tlc -config RunLease_shared.cfg MCRunLease`; to check the
proofs: `tlapm RunLeaseTokens.tla`, and so on.  `PROJECT.json` lists components, runs,
hazards, findings, theorems, the source lines of every definition, and for each
checked property one plausible bug that breaks it.

Migrations are named by their number: `CLAIM` is
`20260828000200_target_bound_worker_claims.sql`, `ROST`
`20260813001000_logical_agent_roster.sql`, `LINE`
`20260827000200_graph_phase1c_release_lineage.sql`, `PAUSE`
`20260830000400_pause_graph.sql`, `HAND`
`20260814001200_phase2b_task_graph_and_handoffs.sql`, `LOCK`
`20260817000400_task_work_lock_leases.sql`, `ACC`
`20260816000100_ai_accounts_auth_broker.sql`, `CANC`
`20260816000800_cancel_discards_pending_account.sql`.  A function that several migrations replace is
modelled as the last of them leaves it.

## 1. Inventory

Every stateful component is a set of tables and the functions that move them;
the processes around the database are the web application (the *owner*), the run
workers, the graph workers, the broker of sign-in sessions, and GitHub.

| component | state | operations | interacts with | hard behaviour | what makes it correct |
| --- | --- | --- | --- | --- | --- |
| **Phase 1C run leases** (`RunLease`) | `agent_runs`, task and command status, agent row, worker row | submit, claim (with its sweep), heartbeat, complete, fail, cancel, retry, register, idle heartbeat, finish | owner; worker processes; the graph bridge holds back a success | expiry and takeover while the old worker goes on; crash and restart under one id; lost answers; cancel against completion | one live lease per agent; a stale worker settles nothing; ledgers agree; cancellation wins; started runs settle |
| **Run evidence and recovery** (`RunEvidence`) | run row, artifacts, validations, draft row, workspace on disk, branch and draft on GitHub | prepare, replan, branch, edit, validate, commit, record, push, draft, CI, repair, complete, fail | leases; Git; GitHub | death between any two of commit, record, push, draft, record; a late push; a recovery on another disk | pushed work is on record; evidence never strands a run; reported success is earned |
| **Graph scheduler, runner and claimed worker** (`GraphRunner`) | engine's node states, counters and meters; `graph_runs`, `node_runs`, `graph_gates` rows | rounds (tick, decision, wave), node attempts, artifact, gate, close, reclaim, pause | provider, person (gate, pause), claim passes | concurrent promises of a wave; a call that fails or loses its answer; a run reclaimed under its worker | engine and rows agree; work only on recorded work; gates hold; closed runs are frozen and account for every node; the run ends |
| **Graph queue, gates, pause and withdrawal** (`GraphQueue`) | `graphs`, `graph_gates`, `graph_runs` over a graph's life; the drain loop of a worker | claim with its reclaim, halt, open or rebind a gate, close, abort, decide (person, automatic), pause, withdraw, record the pull request | GraphRunner; owner; the bridge | a worker that dies between close and decision; a decision overtaken by a close; voided and reclaimed runs | one run at a time; answers advance; approvals rest on standing evidence; a graph is off the queue only for a known reason |
| **Task work locks** (`WorkLocks`) | `task_work_locks` leases on path prefixes | acquire, heartbeat, release, sweep, rollback | sessions working on one project | heartbeats and sweeps between an acquisition's steps; old `now()`; dead holders | live locks never overlap; a live lock is never retired, a retired one never extended |
| Resource reservations, circuit breakers | slots with a sliding window; breakers with a half-open trial | reserve, release, expire; report fault or success, claim a trial | the claim of a run | slot retired by time under its holder; trial outliving the cool-down | within capacity; one trial at a time; a tripped breaker recovers |
| **AI account sign-in sessions** (`AuthSessions`) | `ai_accounts`, `ai_auth_sessions`, credential slots, calls in flight, the broker's place | connect, paste, cancel, disconnect, remove; claim, report, mark, complete, fail, sweep, demote; expire | owner's requests, broker process, provider | clicks against the broker's exchange; deadlocks; lost answers; a broker relieved or dead | one open sign-in per account; a connected account has its credential; a disconnect is final; every sign-in ends |
| Production operations plane | monitors, incidents, freezes, rollbacks, repair attempts, event queue | ingest, claim event, open, resolve, freeze, roll back, repair | event consumers; promotion | an event claimed by a process that dies | every event is handled; no promotion under a freeze |
| Graph to Phase 1C bridge | intents and lineage rows | attach a command, capture release evidence | gates, runs | the run settles while the gate is decided | a gate's approval names the run that earned it |
| Portfolio scheduler | priorities, ceilings, ages | order the eligible runs | claim | none of its own: it chooses or withholds | no starvation by aging |
| GitHub connection, webhooks, change audit | installations, repositories, reservations | handle event, reserve and record a change | GitHub | reordered and repeated deliveries | the newest event wins |
| Grok planning and admissions | admission hashes | plan, admit, fence | claim | an admission changed after approval | a claim runs what was admitted |
| Autonomy controls and merging; graph planning; graph verification, discovery, integration; provider routing; bots; AgentOS; command intake; improvement ledger; product surfaces; build and deployment | configuration, append-only records, or none | pure judgements and single-function edits | the above | few: no protocol between actors | input/output relations |

The components in bold are modelled.  `PROJECT.json` gives the sources and the
status of each of the twenty-three, and the reason where one is left out; the
hazards it lists name the line where each bites and the properties that cover it.

**How they meet.**  A command creates a run (`queued`).  A poll claims one
eligible run, incrementing its attempt and handing out a fresh lease token; every
later call names worker, token and a live lease, and is refused without them.
The worker records each artifact under the lease *before* it makes it public, so
that a later attempt, on another disk, can continue from the record.  Completion
checks the evidence in the same statement that settles the run.  A graph worker
claims a whole run of a graph; the engine decides waves of nodes from its own
state, and each node's promise writes its row.  A gate stops the run, not the
process: the run closes `PARTIAL`, a person decides, and a later claim starts a
new run which reads the decision once.  `GraphRunner` is the inside of one such
run, `GraphQueue` the outside of all of them.  A sign-in is opened by a click and
driven by the broker: both write the account and the session, in opposite orders.

## 2. How the modules correspond to the code

Common to all: one SQL function is one atomic step, because it takes its row
locks first and commits or raises as a whole.  Where two rows, or a check and
a write, are taken in sequence and others run in between (`WorkLocks`, the six
two-row functions of `AuthSessions`, a decision of `GraphQueue`), the function is several steps.  A call may commit and lose its
answer (`delivered = FALSE`, or a `Throw`).  What a model leaves out only
withholds steps or only changes wording, and is named in section 7.

### RunPromise and RunLease

`run[r]` is the `agent_runs` row; `task`, `command`, `agent` and `row` are the
four other tables the functions move with it; `proc[w]` is the worker process as
`lib/worker/worker.ts` and `scripts/worker.mts` drive it.  Time is kept as what is
left of it: `lease` is `lease_expires_at - now()`, with 0 for the instant at which
the lease is neither live (`>`) nor lost (`<`), and `budget` counts down from
`started_at + maximumDurationMs`.  A lease token is named by the attempt that the
same UPDATE increments.

`Claim` and `PollEmpty` are one function (`CLAIM:663`): it first settles every
exhausted run in its scope (`Exhausted`, `SweptRun`, with the agents and worker
rows of those runs), then refuses or hands out one `Eligible` run.  A poll takes
any eligible run, which covers every priority order.  `Heartbeat`, `Complete`,
`Fail`, `CancelQueued`/`CancelRunning` and `Retry` are the functions of `ROST` and
their later replacements; `Refused` is a process that finds its lease gone;
`Crash` leaves rows behind; `Tick` moves all clocks.

`RunPromise` says what is left when workers, leases and clocks are forgotten: a
run is submitted once, starts at most `MaxAttempts` numbered attempts, settles in
one outcome, is `cancelled` exactly if that was asked for, and moves again only
from `failed`.  `RunLease` maps onto it (`life`), run by run, because one sweep
may settle several runs at once.

### RunEvidence

One run, its row (`rec`), its immutable evidence (`ev`), the run directory on each
worker's disk, the processes, and the repository on GitHub.  A commit is the
sequence of the edits it is built from, so ancestry is `IsPrefix`; equality of
sequences is equality of shas.  Each stage of `worker.ts` between two awaits is an
action.  A process whose lease is gone is *not* stopped: it continues with local
and GitHub steps until its next database call (`Refused`).  `Fault` lets any step
throw, `Crash` stops a process anywhere, `Push(w, FALSE)` is a push whose answer
is lost.  `Retry`, `Sweep` and `Claim` apply `EvidenceEligible` and `RetryCoherent`
as the SQL does.

### GraphPromise and GraphRunner

The engine's states `st` and the database's `rows` are separate variables, because
nothing but the order of awaited calls keeps them together.  `Round` is `tick` and
`applyDecision`; it starts a wave as wide as the budget's `width`.  `task[n]` is
where the promise of node `n` stands; each promise takes its calls one at a time
(`Dispatch`, `Succeed`/`Fail`, `Save`, `Complete`, `Hold`, `OpenGate`, ...) while the
other promises of the wave interleave.  `CallFails` and the lost answers of
`Answered` throw out of the engine (`pc = "stopped"`), and the rest of the wave goes
on writing.  `Settle` acts on the whole wave at once.  `Closes` is the closing call
with the conditions under which the database accepts it (`Accepts`), after `Skip`
has recorded the nodes that never ran.  `claimed` is the gate state read once at
the claim.  `Reclaim` is what a later claim pass does to a silent run.

`GraphPromise` is what is left when engine, promises, attempts, budgets and pause are
forgotten: the run, its rows, the gates, and the gates as of the claim.  A node
begins when what it needs is on record and ends once; a gated node that was not
approved at the claim waits or fails, but does not complete; after the first node
was given up no other begins or ends; a close says what the rows add up to; then
nothing but an open gate moves.  The mapping is the identity on these four variables, so
what has to be shown is that no promise of a wave, in whatever order its calls
and their lost answers fall, and no worker that was given up, writes anything else.

### GraphQueue

`run[r]` is the r-th `graph_runs` row, `held[r]` the gate whose node the run left
`VERIFYING`, `gate`, `opener` and `decided` are the `graph_gates` rows.  The gated
stages of a lifecycle are a chain and are numbered in it.  The code compares
times only between `decided_at` and the `completed_at` of answers, so `decided[g]` *is*
the set of runs that had answered when the deciding transaction began; no clock
is needed.  `Claim` is `claim_planned_graph_target_internal` whole: the reclaim of
silent runs (any set of running ones: two hours may have passed), the selector's
conditions `Asked`, `Built`, `WithinLimits`, and the new run with the projection of
the gates (`seen`) that the worker will go by.  `Halt` opens the first gate that the
projection did not show approved, or rebinds it (`Rebinds`); `CloseHalted`,
`CloseCompleted`, `CloseShort` are the closes, with what the closing function demands
of a halted run; `DecideAutomatic` is the one offer after the close.  A person's
decision is two steps, because its `now()` is taken at `BEGIN` (`BeginDecision`) and its effect at the
commit (`Approve`, `Reject`, `Refuse`).  `GiveUp` is a death at any point.

### WorkLocks

`Enter`, `FindNone`/`Refuse` and `Insert` are the statements of
`acquire_task_work_lock` between which other sessions run.  The acquisition holds the
project's advisory lock, so there is one at a time; heartbeat, release and sweep do
not take it.  `since` is the caller's `now()`, up to `Wait` older than the clock,
because it may have waited for a lock.  `marked` are the rows the acquisition wrote
and has not committed: others wait for them (`Locked`), and a rollback forgets them.

### AuthSessions

A call of the six functions that lock two rows is in `call[c]`: called, first row
held, then committed in one step (`Both`) that needs the second row free.
`Lock`/`Refuse` are the row check of the first `FOR UPDATE`; `Abort` is PostgreSQL's
answer to a deadlock; `Lose` is a request that never arrived, and a completion that commits may still be
heard as a failure.  `at` is the program of `lib/worker/auth-broker.ts`, one point
per await.  `era[s]` is history: how often the account had been disconnected when the session was
opened.  A removed account frees its slot for the next one, which is why the
credential is in `sealed` by slot.  A connect resumes the open sign-in that its lookup
finds, and supersedes it when the lookup fails (`connect/route.ts:97`): `ConnectTo`
may therefore open a sign-in at any time, also over one that the broker is completing.

## 3. What TLC checks

| run | instance | distinct states | what it shows |
| --- | --- | --- | --- |
| `lease_shared` | two runs of one agent, one of them bridged to a graph; two workers | 498,443 | `TypeOK`, `AgentSerial`, `LedgersAgree`, `TokensAreExclusive`, `LeaseholderStaysActive`, `CancellationWins`, `SuccessIsFenced` |
| `lease_chain` | two agents, the second run requires the first; two workers | 31,827 | `PrerequisitesHold`, and `RunLease` implements `RunPromise` (`KeepsPromise`) |
| `lease_capacity` | two agents, one worker id that crashes and restarts | 46,905 | `CapacityRespected` |
| `lease_live` | one run, two workers, fair | 9,945 | `StartedRunsSettle`, `CancellationsComplete` |
| `evidence_publish` | two workers with a disk each, two attempts, one repair, three edits, one move of the base | 249,853 | `TypeOK`, `PushedIsRecorded`, `EvidenceNeverStrands`, `SuccessIsEarned`, `StaleWorkersRecordNothing`, `ReplanOrphansNothing` |
| `graph_analysis` | two inspectors, one of them gated, a tolerant report and a strict review of both; two attempts, five starts | 295,468 | `TypeOK`, `DependentsRunOnRecordedWork`, `EngineAgreesWithRows`, `OverspendIsOneWave`, and `GraphRunner` implements `GraphPromise` (`KeepsOwnersPromise`) |
| `graph_lifecycle` | three stages in a row, the second gated; two attempts; fair | 15,090 | `FailuresAreContained`, `GatesHoldTheRun`, `ClosedRunsAccount`, `EngineEnds`, `RunEnds` |
| `graph_queue` | a lifecycle of three gates, one of each kind, the first of which starts a Phase 1C run; two worker processes; four runs, two failures; fair | 157,644 | `OneRunAtATime`, `AnswersAdvance`, `ApprovedOnStandingEvidence`, `CompletedPastEveryGate`, `NeverLostOtherwise`, `ApprovalsAreAnswered` |
| `work_locks` | two sessions, three rows, two nested prefixes; symmetric | 869,782 | `HoldersExclude`, `RetiredLocksAreOver` |
| `auth_sessions` | two accounts in turn on one slot, two sign-ins, one click in flight, one broker that may leave once; fair | 230,528 | `OneOpenSession`, `ConnectedIsBacked`, `DisconnectStands`, `SignInsEnd` |
| `evidence_reconcile`, `locks_dead` | small | violation | a statement of the repository that the code does not keep, section 4 |

**Bounds and why they are enough.**  Two attempts is the product's own
`max_attempts` for every queued run, and it is the number at which a takeover, a
retry and an exhaustion all exist.  Two workers give one stale holder and one
current one; a third would only repeat the second.  `Duration = 3` with
`LeaseTime = 1` (`lease_shared`) lets a lease expire, be taken over and expire again
before the deadline, and the deadline pass in between; `lease_live` uses a lease of
two ticks, so that a heartbeat can renew a lease that is not yet over.  In
`evidence_publish`, one repair gives a second commit on a published branch,
three edits let an attempt that lost its work redo it, and one move of the base
makes a replan and a stale base.  The analysis graph has the three shapes a
dependency takes (root, strict, tolerant), a gate before the last two of them, a
budget that ends inside the graph, and a meter that rises at any moment; the chain has
a gate with a predecessor and a successor.  In `graph_queue` four runs are one per gate and one to complete, or
fewer with a void and a reclaim among them; two failures make a graph give up
after one that was forgiven; two workers let a dead or silent one be
overtaken.  In `work_locks` three rows let a prefix be held, retired and asked for again
beside a nested one; leases of two and three ticks with transactions one tick old and four
ticks of time let a lease be extended, shortened, lapse and be marked.  In
`auth_sessions` two sign-ins are one that is superseded, cancelled or
disconnected and its successor, and two accounts let a slot be used
again.  It has *one* click in flight besides the broker's call: with two, two clicks can abort each other in
deadlocks for ever, which no fairness of a database excludes; its safety
properties are proved for any number.  Workers are symmetric in the safety runs; no run with a liveness
property uses symmetry.

Deadlock is checked for `RunLease`, where time and polling never stop.  A run of
`RunEvidence` and a run of `GraphRunner` come to an end, a graph is withdrawn or
spent, and the rows of `WorkLocks` and `AuthSessions` are bounded, so those instances say
`CHECK_DEADLOCK FALSE`.

**Fairness.**  `RunLease`: clocks advance; a started process registers, and one whose
lease is gone notices (its heartbeat timer); an exiting one finishes (weak fairness).
An idle process heartbeats and polls with strong fairness: `codex-worker.yml` starts
an untargeted worker every five minutes, and some of those may die before they
poll but not all.  Nothing is assumed of a worker that holds a lease: it may hang
for ever, and the run settles without it.  `GraphRunner`: a live event loop takes its next
step, every call returns (each has a timeout), a refused close throws, and the
scheduled claim passes of `graph-worker.yml` reclaim a run once it has been silent.
A worker that dies is not assumed away: `Die` may happen at any time, and `RunEnds`
holds all the same.  `GraphQueue`: dispatches keep coming (`graph-worker.yml`, every two hours
and after each plan, one at a time by its concurrency group), a process goes on or ends,
and a transaction that decides a gate commits or is refused; nobody has to decide one.
`AuthSessions`: runners start (`auth-broker.yml`, every five minutes, one at a time),
requests are answered, sessions lapse, and the broker goes on.  `Fail` and `Expire` have strong
fairness: every wait of the broker has a deadline that ends in `Fail`, and a sweep that waits for a row is
next in that row's queue.

## 4. Where the code does not do what the repository says

Two are runs of their own, which find the shortest trace.

1. **A refused repair push cannot be reconciled** (`evidence_reconcile`,
   `RetryReconcilesBranch`).  `workspace.ts:514` says "a bounded retry must reconcile
   the remote branch".  When the lost push was that of a repair, the recorded head
   already names the repair commit; `prepare` of every later attempt throws
   `workspace_recovery_mismatch`, which is not retryable.
2. **A dead holder blocks its prefix for good** (`locks_dead`,
   `DeadHoldersNeverBlock`).  `LOCK:103` says "Retire anything abandoned in the same
   statement that contends for it, so a dead holder never blocks a live one. This is
   the reason the whole migration exists."  Retiring sets `expired_at` and leaves
   `released_at` null, and the unique index (`HAND:249`) covers every row whose
   `released_at` is null: the insert for the same prefix raises `unique_violation` and
   takes the retirement back with it.  Once the sweep has marked the row, nothing can free
   the prefix: a release of it violates `task_work_locks_one_ending`.  Another prefix that overlaps is
   free, as the comment says.

The following are stated as formulas, in the part of each module that is headed
"Claims ..." or "What the repository says ...", and belong to no run.  TLC finds the
trace of each when it replaces the properties of the `.cfg` file named with it.

3. *A takeover's lease outlives the deadline* (`LeaseWithinDeadline`;
   `RunLease_live.cfg`).  `ROST:1200`: "A recovered worker may lease only the remaining
   slice of the original durable run deadline."  Only the heartbeat applies
   `least(deadline_at, ...)`; the claim (`CLAIM:1060`) grants the full lease.  A completion
   after the deadline is refused by its own check.
4. *A budget of no discovery rounds stops a graph before its first node*
   (`BudgetLetsAGraphStart`; `GraphRunner_analysis.cfg` with `MaxDiscovery = 0`).  `ratio()` answers 1 for every limit of 0
   (`budgets.ts:75`), while the schema and the planner allow it and most plans have it.
5. *A re-planned run refuses its own workspace* (`ReplannedRunsPrepare`; `RunEvidence_publish.cfg`).  The first
   `prepare` writes the old base into the workspace's marker (`workspace.ts:161`)
   before it finds that the base moved; the second throws
   `workspace_identity_mismatch`.  The unit test of this path mocks the workspace.
6. *A run with a node at its gate cannot always close* (`CloseIsAccepted`; `GraphRunner_lifecycle.cfg`).  Paused,
   stopped by its budget, voided, failed, or decided meanwhile: the closer refuses
   (`LINE:7170`), the worker throws, and the run is reclaimed as `FAILED` two hours
   later, at the price of one of the graph's chances.
7. *An automatic gate does not always decide itself*
   (`AutomaticGatesDecideThemselves`; `GraphQueue_life.cfg`).  `graph-worker.mts:229`: "Anchored automatic gates
   decide themselves".  The decision is offered once, after the close; a worker that
   dies or fails in between leaves the gate open for ever (`Orphaned`), because an
   open gate is not approved and the graph is not claimable.
8. *A dead sign-in goes on being driven* (`DeadSignInsAreDropped`; `AuthSessions_signin.cfg`).
   `auth-broker.ts:186`: "A cancelled or superseded session is not worth driving".
   Cancelling the first sign-in of an account deletes the account, and by cascade the
   session; its status is then unknown, "reads as keep going", and the broker waits out
   the whole relay window.

Read in the models:

- `Overtaken`: a decision stamps `decided_at = now()`, the time its transaction began
  (`LINE:5429`).  If it began before the run that opened the gate closed, and commits
  after, the approval reads as older than the answer and is never heard.
  `NeverLostOtherwise` says that this and `Orphaned` are the only two ways to lose a graph.
- An owner who approves *before* the run closes makes its close be refused (finding 6).
- A human gate opened by a run that then failed stays open; approved later, it makes
  the graph claimable again.
- A disconnected or pending account can hold a working credential: the command-line
  connect writes the base slot (`20260814002500:253`), which the account may share,
  against `CANC:54` and `ACC:542`.  `AuthSessions` leaves that command out.
- `AI/AI_ACCOUNTS_BROKER.md` says "Cancel revokes the session and touches nothing
  else"; `CANC` has since made it delete a pending account.
- A queued cancellation of a *retried* run is reported as never claimed (`ROST:573`);
  `timed_out` is stored as retryable (`worker.ts:95`) while the retry function refuses it; a
  sweep sets an agent idle that is busy with another live run (`CLAIM:742`, the
  displayed status only).
- The output of a node whose artifact was refused is delivered to a tolerant fan-in all
  the same (`graph-run.ts:614`); a node that awaits its second attempt when the run
  stops is recorded as "never dispatched" (`graph-run.ts:799`); a graph that completes
  with its last budgeted start closes `BUDGET_STOPPED`, because the budget is assessed
  before `tick` may say complete (`runner.ts:247`).  The overshoot of `maxNodes` by part
  of a wave is intended (`runner.ts:24`) and `OverspendIsOneWave` bounds it.

## 5. What is proved

TLAPS proves these for every number of runs, workers, agents, nodes, gates,
sessions, prefixes and accounts, every graph and every budget, from the
specification and the modules' named assumptions (`RunLeaseAssumption`,
`RunsAreFinite`, `RunEvidenceAssumption`, `GraphRunnerAssumption`,
`GraphQueueAssumption`, `WorkLocksAssumption`, `AuthSessionsAssumption`) only.  The graph
assumption is that edges run forward in the visiting order, which is what a
compiled graph satisfies.

| theorem | says | the argument |
| --- | --- | --- |
| `RunLeaseProofs!TypeCorrect` | `[]TypeOK` | `TypeOK` is inductive once the clocks' arithmetic and the record updates are lemmas (`SweptType`, `ClaimedType`, `VerdictType`, `ElapseType`) |
| `RunLeaseProofs!AgentsAreSerial` | `[]AgentSerial` | a claim makes one run live, of an agent with no live run after the sweep (`ClaimMakesOneLive`); no other step makes a run live (`OnlyClaimsMakeLive`) |
| `RunLeasePromise!LeasesKeepThePromise` | `KeepsPromise`: `RunLease` implements `RunPromise` | initial states map to initial states; `EveryRunMoves` says, action by action, that a step is for each run *one* move the owner was promised, or none; `MovesArePromised` carries that to the abstract state |
| `RunLeasePromise!LedgersNeverDisagree` | `[]LedgersAgree` | every move of a run record is matched by the task and command rows written with it |
| `RunLeasePromise!CancellationPrevails` | `[][..]` of `CancellationWins` | `MoveInv`: a process told to stop was told so because its run is to be cancelled (`StopsAreAsked`), and a recorded cancellation is that of a run under way or cancelled (`StopsInProgress`) |
| `RunLeaseTokens!TokensNameOneProcess` | `[]TokensAreExclusive` | `TokenInv`: a running run is run under the token of its latest attempt, and no process has a token that was not given out yet |
| `RunLeaseTokens!SuccessNeedsTheLease` | `[][..]` of `SuccessIsFenced` | only a completion settles a run as succeeded (`OnlyCompletionSucceeds`), and its guards, with `TokenInv`, are the fence |
| `RunLeaseTokens!LeaseholdersStayActive` | `[]LeaseholderStaysActive` | the sweep of another run marks the worker that names it, which no live leaseholder does (`IdleNamesNothing`) |
| `RunLeaseTokens!CapacityHolds` | `[]CapacityRespected` | a claim counts the live leases after its sweep, and adds one; needs `RunsAreFinite` |
| `RunLeaseTokens!PrerequisitesStayCompleted` | `[]PrerequisitesHold` | a claim asks for it, and a completed run makes no further move |
| `RunEvidenceProofs!TypesHold` | `[]TypeOK` | needs `Shapes`: a process past its claim has an attempt number, and one that validates has repairs left |
| `RunEvidenceProofs!NoPushIsUnknown` | `[]PushedIsRecorded` | `PushesAreRecorded`: a process that may push has its commit on record already, and evidence is never deleted |
| `RunEvidenceProofs!SuccessesAreEarned` | `[]SuccessIsEarned` | `EarnedSoFar`: every commit a process carries, recovered or its own, has every edit in it validated; `NoPushPasses`, below: no late push moves the branch under a reported success |
| `RunEvidenceProofs!SecondAttemptsAreClaimable` | `[]EvidenceNeverStrands`, if `MaxAttempts <= 2` | `RowKnows` (artifacts and row agree) and `AttemptsApart` (one process, and one draft artifact, per attempt) |
| `RunEvidenceProofs!OnlyTheHolderRecords` | `StaleWorkersRecordNothing` | `HolderWrites`: each of the three recording calls asks for the lease in the transaction that writes |
| `RunEvidenceProofs!ReplansOrphanNothing` | `ReplanOrphansNothing` | a replan asks that the row has no head; without one there is no commit artifact (`RowKnows`), and so no push |
| `GraphRunnerProofs!TypeCorrect` | `[]TypeOK` | needs `AttemptsLeft` (a node that may start has an attempt left) and `Concluded` (a closing engine has an outcome) |
| `GraphRunnerProofs!GatesAreKept` | `[]GatesHoldTheRun` | `GateInv`: a node gated and unapproved at the claim is never `COMPLETED` in engine or rows, *and no promise of it is on the way there* |
| `GraphRunnerProofs!WorkRunsOnRecord` | `[]DependentsRunOnRecordedWork` | `WorkInv`: completed in the engine is completed on record, and whoever made an attempt was served; both survive because settled nodes stay settled |
| `GraphRunnerProofs!EngineAndRowsAgree` | `[]EngineAgreesWithRows` | `AgreeInv` says what the row is at every point of a promise, for as long as the run is open and nothing threw |
| `GraphRunnerProofs!EveryNodeIsAccountedFor` | `[]ClosedRunsAccount` | what the closing function accepts, what the reclaim leaves, and that neither is written after |
| `GraphRunnerProofs!ClosedRunsStayClosed` | `ClosedRunsAreFrozen` | every write of a promise asks that the run is open; `GraphPromise` says the same, so no run checks it apart |
| `GraphRunnerProofs!SpendIsBounded` | `[]OverspendIsOneWave` | the nodes of a wave have distinct ranks below the number of slots (`WaveFitsTheSlots`), and the budget is looked at once a round |
| `GraphRunnerProofs!FailuresStayContained` | `[]FailuresAreContained` | `ContainInv`; the first pending node in the visiting order waits for nobody, so a round would start it or block it (`SomethingMoves`) |
| `GraphRunnerProofs!RunsKeepThePromise` | `KeepsOwnersPromise`: `GraphRunner` implements `GraphPromise` | each action is one move of the promise or none, from `WorkInv`, `GateInv`, `AgreeInv` and `OwnerInv`: what a worker that threw or died leaves on record (`SettledRest`, `SkipsComeLast`), that a promise which holds at a gate was due to, and that a closing engine says what its states came to (`Judges`) |
| `GraphQueueProofs!QueueTypeCorrect` | `[]TypeOK` | needs `WithinLimits` for the last run, and that a process past its claim has a run |
| `GraphQueueProofs!RunsExclude` | `[]OneRunAtATime` | `InOrder`: runs are made in order and only the last may be under way |
| `GraphQueueProofs!AnswersOnlyAdvance` | `[]AnswersAdvance` | `RunsAdvance`, the same of the run under way as well; a claim after an answer needs a gate fresh since *all* answers, which `DecisionsInOrder` makes that of the last halt |
| `GraphQueueProofs!ApprovalsKeepTheirEvidence` | `[]ApprovedOnStandingEvidence` | `GatesInOrder`: the opener of a gate halted there; an approved gate is never rebound |
| `GraphQueueProofs!EveryGateIsPassed` | `[]CompletedPastEveryGate` | `WorkersKnow`: what a projection showed approved still is |
| `GraphQueueProofs!GraphsAreNeverLostOtherwise` | `[]NeverLostOtherwise` | by cases on the gate at which the last answer halted, from `IInv` |
| `WorkLocksProofs!LockTypesCorrect` | `[]TypeOK` | inductive with the times of calls |
| `WorkLocksProofs!LiveLocksExclude` | `[]HoldersExclude` | not inductive: a lock that lapsed on the clock is extended by a heartbeat with an old `now()` and is live again.  `HeldApart` is: *all* rows neither released nor expired are apart, because an acquisition marks all that lapsed for it and finds no other (`Acquires`) |
| `WorkLocksProofs!LiveLocksAreNotTaken` | `[]RetiredLocksAreOver` | a marked row had lapsed by a `now()` that is not in the future, and is locked until the commit (`RetiredWhenOver`); what is marked is neither unmarked nor extended (`RetiredRests`) |
| `AuthSessionsProofs!SignInTypesCorrect` | `[]TypeOK` | with what a call knows of its rows (`CallsKnow`) |
| `AuthSessionsProofs!OneOpenSignIn` | `[]OneOpenSession` | `LocksExclude`: the opener holds the account's row while it revokes what is open |
| `AuthSessionsProofs!ConnectedIsAlwaysBacked` | `[]ConnectedIsBacked` | `SlotsApart`: two accounts never share a slot, so erasing one takes no other's credential; `BrokerKnows`: a probed account is past its first sign-in |
| `AuthSessionsProofs!DisconnectsStand` | `DisconnectStands` | `ErasAreCurrent`: an open session is of its account's present era, because a disconnect revokes all of them |

The hard part of `RunEvidence` is the worker that was taken over: it checked its
lease before, and pushes after, its successor recorded and reported another commit.
Git refuses that push unless it is a fast-forward, so what has to be shown is that
the stale commit never extends the head on record.  `NumbersApart` shows it: every
edit has a number of its own, and until the commit made of it is recorded that number is in
one worker's tree and in no commit on record; so the head a successor records has
an edit in it that no process it took over can have under its commit (`NoPushPasses`).
TLC checked this inductive invariant, with two workers, for two attempts (249,853
states) and for three (1,195,905) before it was proved.

`SecondAttemptsAreClaimable` is the only theorem with a hypothesis.  The product gives
every run two attempts; a third would find two branch artifacts, which
`RecoverableHead` refuses, and the property fails for it (section 7).

Hardly a property of `GraphRunner` is inductive by itself: at a wave's end the
engine's state and the row are briefly different things, and each strengthening
says what the promise in between stands for.  `AgreeInv` is silent about an engine
that stopped in the middle of a wave, and that is where the owner's view could break: the
promises left over go on writing while nobody settles them.  `OwnerInv` carries
through the stop what the owner's view needs: settled rows rest, and once a node is on record as
skipped no promise is under way.

`WorkLocks` has one assumption with weight: no transaction grows as old as the
shortest lease (60 seconds).  The repository sets no statement timeout, so this is an
assumption about the database it runs on.  With a lease as short as a
transaction is old, two live locks can overlap, and the model shows it.

These are all the safety properties that the passing runs check.

**Only model-checked**: liveness (`StartedRunsSettle`, `CancellationsComplete`,
`EngineEnds`, `RunEnds`, `ApprovalsAreAnswered`, `SignInsEnd`) depends on fairness and
thereby on ENABLED, which the prover does not treat: it stays with TLC.  No module uses
a RECURSIVE operator.

## 6. Order of work, and what is left of it

Done, in the order of importance: `RunPromise`, `RunLease`, `RunEvidence`,
`GraphRunner`, `GraphPromise`, `GraphQueue`, `WorkLocks`, `AuthSessions`, and the theorems of all of
these.

Left, each with its instance, its type invariant and what it should say:

1. A refinement of `RunLease` in which the claim's read and its write are two steps,
   to see what READ COMMITTED lets two concurrent claims do.
2. `Breakers` (`20260814000210`, `20260815000500`): one trial in flight, the cool-down
   restarts at a fault, a breaker whose provider recovered closes.
3. The reuse of an earlier run's results between two runs of a graph: the rows that
   `GraphPromise` leaves, as those the next run of `GraphQueue` begins with.
4. The bridge's intents and lineage, between `GraphQueue` and `RunLease`.
5. `Operations` (`20260812002800`): the event queue, freezes and repair attempts.

## 7. What is not modelled, and why

- *Concurrency inside one SQL function.*  Each is atomic.  Row locks make this true for
  the row a function works on; a claim also counts rows it does not lock (`CLAIM:849`,
  `899`), and two claims of one worker id or agent that overlap in time are point 1 of
  section 6.  The claim does lock the agent's row, skipping a candidate whose row is locked
  (`CLAIM:976`), so two claims of one agent collide only if the second took its
  snapshot before the first committed.
- *`RunLease`*: admission hashes and portfolio ceilings, which only withhold claims;
  the graph bridge is one bit of a run (`Bridged`) which decides whether its
  completion may succeed at once.
- *`RunEvidence`*: cancellation (in `RunLease`), the rules of the changed-file scan,
  usage budgets, a person who closes, merges or readies the draft (the run is then
  unclaimable until its deadline), artifact carry-forward.  A third attempt, which the
  product never allots, would leave two branch artifacts and is not explored.
- *`GraphRunner`*: write locks (a claimed graph is compiled without resolved write conflicts),
  portfolio capacity (the claimed worker injects none), backoff delays, the iteration
  ceiling (the node budget is reached first), the release evidence a full lifecycle
  needs to close, and approval intents pending at the close.
- *`GraphQueue`*: two claim transactions that overlap.  The selector locks the graph's row
  (`for update`) and does not modify it, and no index forbids two `RUNNING` runs, so what
  keeps two claims of one graph apart is the workflow's concurrency group.  Also the reuse
  of an earlier run's node results, the other graphs in the queue (a process simply
  claims again), a graph whose budget or plan a claim refuses (an abort), and the intents
  of evidence-bound approvals.  A gate with an intent that is pending or consumed is not
  rebound (`LINE:2213`), where `Rebinds` binds it to the new run: the close of that run is
  refused, and it waits for a reclaim, which the model has for a run that was overtaken
  by a decision.
- *`WorkLocks`*: who reads the locks.  They are advisory: nothing but the routing of
  assignments (`lib/bots/assignment-routing.ts:102`, `235`) looks at them.  Prefixes are
  a relation of overlap.
- *`AuthSessions`*: the connect command of the command line, API-key accounts, the
  status `revoked` of an account (nothing writes it), `forget_provider_credential` (nothing calls
  it), renaming, identities, usage rows, the capacity limits beyond the number of slots.  The
  last transaction of a broker is over before its successor's runner starts, and a
  function that locks one row is one step.
- *Breakers, reservations, operations*: not reached; nothing outside its tests reserves a
  slot, and a breaker only withholds a claim, which `RunLease` allows at every poll.
- *Pure code* (planning, verification, routing, merge eligibility): relations of an
  input to an output with no interleaving; of interest as operators, and behind
  the protocols in the plan.
- *Configuration, ledgers, pages and tooling*: single edits by one actor.
