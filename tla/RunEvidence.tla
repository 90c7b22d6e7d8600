----------------------------- MODULE RunEvidence -----------------------------
(***************************************************************************)
(* What one Phase 1C run leaves behind while workers execute it: the       *)
(* workspace on a worker's disk, the factory branch and the draft pull     *)
(* request on GitHub, and the immutable evidence in the database that      *)
(* decides whether the run may be retried, recovered or reported succeeded *)
(* (lib/worker/worker.ts, workspace.ts, github.ts and the functions that   *)
(* record, retry, replan and complete).                                    *)
(*                                                                         *)
(* The lease protocol is RunLease's; here a lease is only live or not.  A  *)
(* process whose lease is gone is not stopped by that: it goes on with the *)
(* local and the GitHub steps it is in until its next database call.       *)
(*                                                                         *)
(* A commit is the sequence of what it is built from: the base sha, then   *)
(* one number per edit the provider made, so that ancestry is being a      *)
(* prefix.  The uncommitted state of a workspace is its head and the edit  *)
(* on top of it.                                                           *)
(***************************************************************************)
EXTENDS Integers, FiniteSets, SequencesExt

CONSTANTS
    Workers,        \* worker ids, each with a disk of its own
    MaxAttempts,    \* agent_runs.max_attempts
    MaxRepairs,     \* budget.maximumRepairAttempts
    MaxEdits,       \* bound: edits a provider makes in the whole behaviour
    MaxBase,        \* bound: how often the base branch moves
    None

ASSUME RunEvidenceAssumption ==
    /\ MaxAttempts \in Nat \ {0}
    /\ MaxRepairs \in Nat /\ MaxEdits \in Nat /\ MaxBase \in Nat
    /\ None \notin Workers \cup Nat \cup Seq(Nat)

VARIABLES
    rec,        \* the agent_runs row
    ev,         \* phase1c_run_artifacts, phase1c_run_validations, pull_requests
    disk,       \* the run directory on each worker's disk
    proc,       \* the worker processes
    github,     \* the repository on GitHub
    edits       \* how many edits were made so far

vars == <<rec, ev, disk, proc, github, edits>>

-----------------------------------------------------------------------------
NoEdit == 0

AtBase(base) == <<base>>

Commit == Seq(Nat)

Attempt == 1..MaxAttempts

\* failureCode, as far as retryable tells codes apart; "final" is every other code.
ErrorCode == {"none", "worker_failed", "git_push_failed", "final"}

Retryable == {"worker_failed", "git_push_failed"}

RunRow == [
    status    : {"queued", "running", "failed", "succeeded"},
    live      : BOOLEAN,
    attempt   : 0..MaxAttempts,
    holder    : Workers \cup {None},
    base      : 0..MaxBase,
    branch    : BOOLEAN,
    sha       : Commit \cup {None},
    retryable : BOOLEAN,
    error     : ErrorCode]

Recorded == [attempt : Attempt, sha : Commit]

Validation == [attempt : Attempt, round : 1..MaxRepairs + 1, passed : BOOLEAN, tree : Commit]

Evidence == [
    branch : SUBSET Attempt,
    commit : SUBSET Recorded,
    pull   : SUBSET Recorded,
    head   : SUBSET Recorded,
    valid  : SUBSET Validation,
    draft  : BOOLEAN]

Disk == [
    marker : 0..MaxBase \cup {None},
    git    : {"none", "bootstrap", "branch"},
    head   : Commit,
    edit   : 0..MaxEdits]

Stage == {"idle", "prepare", "replan", "branch", "resume", "edit", "validate", "commit",
          "record", "active", "push", "pushed", "draft", "pull", "head", "ci", "final",
          "complete", "failing"}

Process == [
    pc       : Stage,
    attempt  : 0..MaxAttempts,
    base     : 0..MaxBase,
    seen     : 0..MaxBase,
    replanned : BOOLEAN,
    recovery : Commit \cup {None},
    pull     : BOOLEAN,
    resumed  : BOOLEAN,
    sha      : Commit \cup {None},
    round    : 0..MaxRepairs + 1,
    repairs  : 0..MaxRepairs,
    published : BOOLEAN,
    error    : ErrorCode]

Repository == [
    base   : 0..MaxBase,
    branch : Commit \cup {None},
    pull   : 0..MaxBase \cup {None},
    green  : SUBSET Commit]

TypeOK ==
    /\ rec \in RunRow
    /\ ev \in Evidence
    /\ disk \in [Workers -> Disk]
    /\ proc \in [Workers -> Process]
    /\ github \in Repository
    /\ edits \in 0..MaxEdits

EmptyDisk == [marker |-> None, git |-> "none", head |-> AtBase(0), edit |-> NoEdit]

Idle == [pc |-> "idle", attempt |-> 0, base |-> 0, seen |-> 0, replanned |-> FALSE,
         recovery |-> None, pull |-> FALSE, resumed |-> FALSE, sha |-> None, round |-> 0,
         repairs |-> 0, published |-> FALSE, error |-> "none"]

Init ==
    /\ rec = [status |-> "queued", live |-> FALSE, attempt |-> 0, holder |-> None, base |-> 0,
              branch |-> FALSE, sha |-> None, retryable |-> FALSE, error |-> "none"]
    /\ ev = [branch |-> {}, commit |-> {}, pull |-> {}, head |-> {}, valid |-> {},
             draft |-> FALSE]
    /\ disk = [w \in Workers |-> EmptyDisk]
    /\ proc = [w \in Workers |-> Idle]
    /\ github = [base |-> 0, branch |-> None, pull |-> None, green |-> {}]
    /\ edits = 0

-----------------------------------------------------------------------------
(* Conditions the steps share.                                             *)

\* Mutant: any live lease of the run lets a process write.
SomeLeaseIsLive(w) == rec.status = "running" /\ rec.live

HoldsLease(w) ==
    /\ rec.status = "running"
    /\ rec.live
    /\ rec.holder = w
    /\ rec.attempt = proc[w].attempt

\* assertExecutionActive, then assertRemoteBaseSha.
ActiveOnPlannedBase(w) == HoldsLease(w) /\ github.base = proc[w].base

\* verifyExistingDraft, and the pull request check that ends waitForChecks.
DraftMatches(w) ==
    /\ github.pull = proc[w].base
    /\ github.branch = proc[w].sha

Goto(w, pc) == proc' = [proc EXCEPT ![w].pc = pc]

FailWith(w, code) == proc' = [proc EXCEPT ![w].pc = "failing", ![w].error = code]

RecordedIn(set, sha) == \E item \in set : item.sha = sha

\* One branch artifact and a commit artifact of the row's head; at most one
\* pull request artifact, exactly when there is a draft row.
RecoverableHead ==
    /\ Cardinality(ev.branch) = 1
    /\ rec.branch
    /\ rec.sha # None
    /\ RecordedIn(ev.commit, rec.sha)
    /\ Cardinality(ev.pull) = IF ev.draft THEN 1 ELSE 0

NothingPublished ==
    /\ Cardinality(ev.branch) <= 1
    /\ ev.commit = {}
    /\ ev.pull = {}
    /\ ~ev.draft

\* What a claim asks of the evidence of earlier attempts.
EvidenceEligible == NothingPublished \/ RecoverableHead

\* What a retry asks: no evidence at all, a branch intent, or a coherent head
\* that exactly one commit artifact names.
RetryCoherent ==
    \/ NothingPublished
    \/ RecoverableHead /\ Cardinality({c \in ev.commit : c.sha = rec.sha}) = 1

-----------------------------------------------------------------------------
(* The control plane: claim, lease expiry, the sweep, the owner's retry.   *)

Claim(w) ==
    /\ proc[w].pc = "idle"
    /\ rec.status = "queued" \/ (rec.status = "running" /\ ~rec.live)
    /\ rec.attempt < MaxAttempts
    /\ EvidenceEligible
    /\ rec' = [rec EXCEPT !.status = "running", !.live = TRUE, !.attempt = @ + 1,
                          !.holder = w, !.retryable = FALSE, !.error = "none"]
    /\ proc' = [proc EXCEPT ![w] =
                  [Idle EXCEPT !.pc = "prepare", !.attempt = rec.attempt + 1,
                               !.base = rec.base, !.pull = ev.draft,
                               !.recovery = IF rec.branch THEN rec.sha ELSE None]]
    /\ UNCHANGED <<ev, disk, github, edits>>

LeaseExpires ==
    /\ rec.status = "running"
    /\ rec.live
    /\ rec' = [rec EXCEPT !.live = FALSE]
    /\ UNCHANGED <<ev, disk, proc, github, edits>>

\* Attempts used up, or the deadline passed, which may have happened at any time.
Sweep ==
    /\ \/ rec.status = "running" /\ ~rec.live
       \/ rec.status = "queued" /\ rec.attempt > 0
    /\ rec' = [rec EXCEPT !.status = "failed", !.holder = None, !.retryable = FALSE,
                          !.error = "final"]
    /\ UNCHANGED <<ev, disk, proc, github, edits>>

Retry ==
    /\ rec.status = "failed"
    /\ rec.retryable
    /\ rec.attempt < MaxAttempts
    /\ RetryCoherent
    /\ rec' = [rec EXCEPT !.status = "queued", !.retryable = FALSE, !.error = "none"]
    /\ UNCHANGED <<ev, disk, proc, github, edits>>

\* Somebody merges into the repository's base branch.
MoveBase ==
    /\ github.base < MaxBase
    /\ github' = [github EXCEPT !.base = @ + 1]
    /\ UNCHANGED <<rec, ev, disk, proc, edits>>

-----------------------------------------------------------------------------
(* Preparing the workspace.                                                *)

\* GitWorkspaceManager.prepare: the first check that fails, in the code's order.
\* A directory with a git directory is resumed, any other is set up from GitHub.
PrepareVerdict(w) ==
    LET p == proc[w]
        d == disk[w]
    IN  IF d.marker \notin {None, p.base} THEN "workspace_identity_mismatch"
        ELSE IF d.git = "bootstrap" THEN "workspace_branch_mismatch"
        ELSE IF github.base # p.base THEN "stale_base_sha"
        ELSE IF github.branch \notin {None, p.recovery} THEN "workspace_recovery_mismatch"
        ELSE "ready"

\* With no remote branch the workspace starts, or is reset, at the planned base;
\* otherwise a new one checks the branch out and a resumed one is left as it is.
PreparedDisk(w) ==
    LET p == proc[w]
        d == disk[w]
    IN  IF github.branch = None
        THEN [marker |-> p.base, git |-> "branch", head |-> AtBase(p.base), edit |-> NoEdit]
        ELSE IF d.git = "none"
        THEN [marker |-> p.base, git |-> "branch", head |-> github.branch, edit |-> NoEdit]
        ELSE d

\* What an interrupted or refused preparation leaves: the marker is written and
\* the git directory initialised before GitHub is asked anything.
BegunDisk(w) ==
    LET p == proc[w]
        d == disk[w]
    IN  IF d.marker \notin {None, p.base} THEN d
        ELSE [d EXCEPT !.marker = p.base, !.git = IF @ = "none" THEN "bootstrap" ELSE @]

Prepare(w) ==
    /\ proc[w].pc = "prepare"
    /\ \/ /\ PrepareVerdict(w) = "ready"
          /\ disk' = [disk EXCEPT ![w] = PreparedDisk(w)]
          /\ Goto(w, "branch")
       \/ /\ PrepareVerdict(w) = "stale_base_sha"
          /\ proc[w].recovery = None
          /\ ~proc[w].replanned
          /\ disk' = [disk EXCEPT ![w] = BegunDisk(w)]
          /\ proc' = [proc EXCEPT ![w].pc = "replan", ![w].seen = github.base]
       \/ /\ \/ PrepareVerdict(w) \notin {"ready", "stale_base_sha"}
             \/ /\ PrepareVerdict(w) = "stale_base_sha"
                /\ proc[w].recovery # None \/ proc[w].replanned
          /\ disk' = [disk EXCEPT ![w] = BegunDisk(w)]
          /\ FailWith(w, "final")
    /\ UNCHANGED <<rec, ev, github, edits>>

\* replan_phase1c_run, and preparing again with the observed base.
Replan(w) ==
    /\ proc[w].pc = "replan"
    /\ IF HoldsLease(w) /\ rec.sha = None /\ rec.base # proc[w].seen
       THEN /\ rec' = [rec EXCEPT !.base = proc[w].seen]
            /\ proc' = [proc EXCEPT ![w].pc = "prepare", ![w].base = proc[w].seen,
                                    ![w].replanned = TRUE]
       ELSE FailWith(w, "final") /\ UNCHANGED rec
    /\ UNCHANGED <<ev, disk, github, edits>>

\* The branch artifact; then the head decides between recovering and building.
RecordBranch(w) ==
    LET head == disk[w].head IN
    /\ proc[w].pc = "branch"
    /\ HoldsLease(w)
    /\ ev' = [ev EXCEPT !.branch = @ \cup {proc[w].attempt}]
    /\ rec' = [rec EXCEPT !.branch = TRUE]
    /\ \/ /\ proc[w].recovery = head
          /\ proc' = [proc EXCEPT ![w].pc = "resume", ![w].resumed = TRUE, ![w].sha = head]
       \/ /\ proc[w].recovery # head
          /\ proc[w].recovery = None \/ head = AtBase(proc[w].base)
          /\ Goto(w, "edit")
       \/ /\ proc[w].recovery \notin {None, head}
          /\ head # AtBase(proc[w].base)
          /\ FailWith(w, "final")
    /\ UNCHANGED <<disk, github, edits>>

-----------------------------------------------------------------------------
(* Building: the provider's edit, its validation, the local commit.        *)

\* session.run; the provider may also leave the workspace as it was.
Edit(w) ==
    /\ proc[w].pc = "edit"
    /\ \/ /\ edits < MaxEdits
          /\ edits' = edits + 1
          /\ disk' = [disk EXCEPT ![w].edit = edits + 1]
       \/ UNCHANGED <<edits, disk>>
    /\ Goto(w, "validate")
    /\ UNCHANGED <<rec, ev, github>>

Tree(w) ==
    IF disk[w].edit = NoEdit THEN disk[w].head ELSE Append(disk[w].head, disk[w].edit)

\* Mutant: a failed round goes on to publication like a passing one.
ValidateWithoutGate(w, passed) ==
    /\ proc[w].pc = "validate"
    /\ HoldsLease(w)
    /\ ev' = [ev EXCEPT !.valid = @ \cup
                {[attempt |-> proc[w].attempt, round |-> proc[w].round + 1,
                  passed |-> passed, tree |-> Tree(w)]}]
    /\ proc' = [proc EXCEPT ![w].round = @ + 1, ![w].pc = "commit"]
    /\ UNCHANGED <<rec, disk, github, edits>>

\* Mutant: the repair budget is not consulted.
ValidateWithoutBudget(w, passed) ==
    /\ proc[w].pc = "validate"
    /\ HoldsLease(w)
    /\ ev' = [ev EXCEPT !.valid = @ \cup
                {[attempt |-> proc[w].attempt, round |-> proc[w].round + 1,
                  passed |-> passed, tree |-> Tree(w)]}]
    /\ proc' = [proc EXCEPT ![w].round = @ + 1, ![w].pc = IF passed THEN "commit" ELSE "edit",
                            ![w].repairs = IF passed THEN @ ELSE @ + 1]
    /\ UNCHANGED <<rec, disk, github, edits>>

\* A failed round is repaired within the budget before the first publication
\* and ends the attempt after it.
Validate(w, passed) ==
    LET p == proc[w] IN
    /\ p.pc = "validate"
    /\ HoldsLease(w)
    /\ ev' = [ev EXCEPT !.valid = @ \cup
                {[attempt |-> p.attempt, round |-> p.round + 1,
                  passed |-> passed, tree |-> Tree(w)]}]
    /\ \/ /\ passed
          /\ proc' = [proc EXCEPT ![w].round = @ + 1, ![w].pc = "commit"]
       \/ /\ ~passed /\ ~p.published /\ p.repairs < MaxRepairs
          /\ proc' = [proc EXCEPT ![w].round = @ + 1, ![w].pc = "edit", ![w].repairs = @ + 1]
       \/ /\ ~passed
          /\ p.published \/ p.repairs = MaxRepairs
          /\ proc' = [proc EXCEPT ![w].round = @ + 1, ![w].pc = "failing",
                                ![w].error = "worker_failed"]
    /\ UNCHANGED <<rec, disk, github, edits>>

\* Mutant: the commit is pushed before it is recorded.
CommitAndPushFirst(w) ==
    /\ proc[w].pc = "commit"
    /\ disk[w].edit # NoEdit
    /\ disk' = [disk EXCEPT ![w].head = Tree(w), ![w].edit = NoEdit]
    /\ proc' = [proc EXCEPT ![w].pc = "active", ![w].sha = Tree(w)]
    /\ UNCHANGED <<rec, ev, github, edits>>

CommitEdit(w) ==
    /\ proc[w].pc = "commit"
    /\ \/ /\ disk[w].edit # NoEdit
          /\ disk' = [disk EXCEPT ![w].head = Tree(w), ![w].edit = NoEdit]
          /\ proc' = [proc EXCEPT ![w].pc = "record", ![w].sha = Tree(w)]
       \/ /\ disk[w].edit = NoEdit
          /\ FailWith(w, "final")
          /\ UNCHANGED disk
    /\ UNCHANGED <<rec, ev, github, edits>>

-----------------------------------------------------------------------------
(* Publishing: record the commit, push it, open the draft, record it.      *)

\* Mutant: the artifact is stored, agent_runs.head_sha is not.
RecordCommitOnly(w) ==
    /\ proc[w].pc = "record"
    /\ HoldsLease(w)
    /\ ev' = [ev EXCEPT !.commit = @ \cup {[attempt |-> proc[w].attempt, sha |-> proc[w].sha]}]
    /\ Goto(w, IF proc[w].resumed THEN "pull" ELSE "active")
    /\ UNCHANGED <<rec, disk, github, edits>>

RecordCommit(w) ==
    /\ proc[w].pc = "record"
    /\ HoldsLease(w)
    /\ ev' = [ev EXCEPT !.commit = @ \cup {[attempt |-> proc[w].attempt, sha |-> proc[w].sha]}]
    /\ rec' = [rec EXCEPT !.sha = proc[w].sha]
    /\ Goto(w, IF proc[w].resumed THEN "pull" ELSE "active")
    /\ UNCHANGED <<disk, github, edits>>

\* Before a push, and again between the push and the draft.
AssertActive(w) ==
    /\ proc[w].pc \in {"active", "pushed"}
    /\ HoldsLease(w)
    /\ IF ActiveOnPlannedBase(w)
       THEN Goto(w, IF proc[w].pc = "active" THEN "push" ELSE "draft")
       ELSE FailWith(w, "final")
    /\ UNCHANGED <<rec, ev, disk, github, edits>>

\* A push without force: GitHub takes only a descendant of the branch.  Whether
\* the push or only its response failed, the worker sees git_push_failed.
Push(w, delivered) ==
    /\ proc[w].pc = "push"
    /\ \/ /\ github.branch # None => IsPrefix(github.branch, proc[w].sha)
          /\ github' = [github EXCEPT !.branch = proc[w].sha]
          /\ IF delivered THEN Goto(w, "pushed") ELSE FailWith(w, "git_push_failed")
       \/ /\ FailWith(w, "git_push_failed")
          /\ UNCHANGED github
    /\ UNCHANGED <<rec, ev, disk, edits>>

\* The recovered head is checked on disk, under the lease and on the base.
Resume(w) ==
    /\ proc[w].pc = "resume"
    /\ HoldsLease(w)
    /\ IF disk[w].edit = NoEdit /\ ActiveOnPlannedBase(w)
       THEN Goto(w, "draft")
       ELSE FailWith(w, "final")
    /\ UNCHANGED <<rec, ev, disk, github, edits>>

AfterDraft(w) ==
    CASE proc[w].resumed                        -> "record"
      [] ~proc[w].resumed /\ ~proc[w].published -> "pull"
      [] OTHER                                  -> "head"

\* A recovered draft is verified.  Otherwise one is created, or the open one of
\* the branch is found; an answer that is lost, or is not about this head and
\* base, fails the attempt although the draft may exist.
Draft(w) ==
    /\ proc[w].pc = "draft"
    /\ \/ /\ proc[w].resumed /\ proc[w].pull
          /\ IF DraftMatches(w) THEN Goto(w, AfterDraft(w)) ELSE FailWith(w, "final")
          /\ UNCHANGED github
       \/ /\ ~(proc[w].resumed /\ proc[w].pull)
          /\ github' = [github EXCEPT !.pull = IF @ = None THEN github.base ELSE @]
          /\ \/ /\ github.branch = proc[w].sha
                /\ github'.pull = proc[w].base
                /\ Goto(w, AfterDraft(w))
             \/ \E code \in {"worker_failed", "final"} : FailWith(w, code)
    /\ UNCHANGED <<rec, ev, disk, edits>>

RecordPull(w) ==
    /\ proc[w].pc = "pull"
    /\ HoldsLease(w)
    /\ IF rec.sha = proc[w].sha /\ rec.branch
       THEN /\ ev' = [ev EXCEPT !.draft = TRUE,
                                !.pull = @ \cup {[attempt |-> proc[w].attempt,
                                                  sha |-> proc[w].sha]}]
            /\ proc' = [proc EXCEPT ![w].pc = "ci", ![w].published = TRUE]
       ELSE FailWith(w, "worker_failed") /\ UNCHANGED ev
    /\ UNCHANGED <<rec, disk, github, edits>>

RecordHead(w) ==
    /\ proc[w].pc = "head"
    /\ HoldsLease(w)
    /\ IF rec.sha = proc[w].sha
       THEN /\ ev' = [ev EXCEPT !.head = @ \cup {[attempt |-> proc[w].attempt,
                                                  sha |-> proc[w].sha]}]
            /\ Goto(w, "ci")
       ELSE FailWith(w, "worker_failed") /\ UNCHANGED ev
    /\ UNCHANGED <<rec, disk, github, edits>>

-----------------------------------------------------------------------------
(* Observing CI and ending the attempt.                                    *)

\* Checks that pass stably end with a look at the pull request itself.  A
\* failure is repaired within what the budget has left, except after a recovery.
Observe(w, result) ==
    LET p == proc[w] IN
    /\ p.pc = "ci"
    /\ HoldsLease(w)
    /\ \/ /\ result = "passed" /\ DraftMatches(w)
          /\ github' = [github EXCEPT !.green = @ \cup {p.sha}]
          /\ Goto(w, "final")
       \/ /\ \/ result = "passed" /\ ~DraftMatches(w)
             \/ result = "failed" /\ p.resumed
          /\ FailWith(w, "final")
          /\ UNCHANGED github
       \/ /\ result = "failed" /\ ~p.resumed /\ p.repairs < MaxRepairs
          /\ proc' = [proc EXCEPT ![w].pc = "edit", ![w].repairs = @ + 1]
          /\ UNCHANGED github
       \/ /\ \/ result = "failed" /\ ~p.resumed /\ p.repairs = MaxRepairs
             \/ result = "timed_out"
          /\ FailWith(w, "worker_failed")
          /\ UNCHANGED github
    /\ UNCHANGED <<rec, ev, disk, edits>>

Final(w) ==
    /\ proc[w].pc = "final"
    /\ HoldsLease(w)
    /\ IF ActiveOnPlannedBase(w) /\ DraftMatches(w)
       THEN Goto(w, "complete")
       ELSE FailWith(w, "final")
    /\ UNCHANGED <<rec, ev, disk, github, edits>>

InAttempt(set, attempt) == {item \in set : item.attempt = attempt}

\* The rounds of an attempt whose every validation passed.
PassingRounds(valid) ==
    {v \in valid : v.passed /\ \A u \in valid :
        u.attempt = v.attempt /\ u.round = v.round => u.passed}

Latest(valid) ==
    {v \in valid : \A u \in valid :
        u.attempt < v.attempt \/ (u.attempt = v.attempt /\ u.round <= v.round)}

\* An attempt that recovered, and so validated nothing, inherits the latest
\* passing round of the attempts before it.
Carried(attempt) ==
    IF InAttempt(ev.valid, attempt) # {} THEN {}
    ELSE {[v EXCEPT !.attempt = attempt] : v \in Latest(PassingRounds(ev.valid))}

\* The pull request row can be matched with this attempt's evidence; every
\* terminal transition checks it.
Reconcilable(attempt) ==
    attempt \in ev.branch /\ InAttempt(ev.commit, attempt) # {} =>
        \A p \in InAttempt(ev.pull, attempt) :
            [attempt |-> attempt, sha |-> p.sha] \in ev.commit

\* "successful run evidence is not unique and coherent", and the validation that
\* a success requires.
SuccessEvidence(attempt, valid) ==
    LET item == [attempt |-> attempt, sha |-> rec.sha] IN
    /\ attempt \in ev.branch /\ rec.branch
    /\ item \in ev.commit
    /\ Cardinality(InAttempt(ev.pull, attempt)) = 1
    /\ item \in ev.pull \cup ev.head
    /\ ev.draft
    /\ \E v \in Latest(InAttempt(valid, attempt)) : v.attempt = attempt /\ v.passed

\* complete_phase1c_run with 'succeeded'.  The run is over also when its response
\* is lost: the failure the worker then reports finds no lease.
Complete(w) ==
    LET attempt == proc[w].attempt
        valid == ev.valid \cup Carried(attempt)
    IN
    /\ proc[w].pc = "complete"
    /\ HoldsLease(w)
    /\ IF Reconcilable(attempt) /\ SuccessEvidence(attempt, valid)
       THEN /\ ev' = [ev EXCEPT !.valid = valid]
            /\ rec' = [rec EXCEPT !.status = "succeeded", !.live = FALSE, !.holder = None]
            /\ proc' = [proc EXCEPT ![w] = Idle]
       ELSE FailWith(w, "worker_failed") /\ UNCHANGED <<ev, rec>>
    /\ UNCHANGED <<disk, github, edits>>

\* store.fail; when the function raises the process exits and the lease runs out.
Fail(w) ==
    /\ proc[w].pc = "failing"
    /\ HoldsLease(w)
    /\ rec' = IF Reconcilable(proc[w].attempt)
              THEN [rec EXCEPT !.status = "failed", !.live = FALSE, !.holder = None,
                               !.error = proc[w].error,
                               !.retryable = /\ proc[w].error \in Retryable
                                             /\ rec.attempt < MaxAttempts]
              ELSE rec
    /\ proc' = [proc EXCEPT ![w] = Idle]
    /\ UNCHANGED <<ev, disk, github, edits>>

LeftOnDisk(w) == IF proc[w].pc = "prepare" THEN BegunDisk(w) ELSE disk[w]

\* Any step may throw: a lost database response, a token, a budget, a timeout.
Fault(w) ==
    /\ proc[w].pc \notin {"idle", "failing"}
    /\ \E code \in {"worker_failed", "final"} : FailWith(w, code)
    /\ disk' = [disk EXCEPT ![w] = LeftOnDisk(w)]
    /\ UNCHANGED <<rec, ev, github, edits>>

\* The next heartbeat, or the next database call, of a process without its lease.
Refused(w) ==
    /\ proc[w].pc # "idle"
    /\ ~HoldsLease(w)
    /\ proc' = [proc EXCEPT ![w] = Idle]
    /\ UNCHANGED <<rec, ev, disk, github, edits>>

Crash(w) ==
    /\ proc[w].pc # "idle"
    /\ disk' = [disk EXCEPT ![w] = LeftOnDisk(w)]
    /\ proc' = [proc EXCEPT ![w] = Idle]
    /\ UNCHANGED <<rec, ev, github, edits>>

-----------------------------------------------------------------------------
Build(w) ==
    \/ Edit(w)
    \/ \E passed \in BOOLEAN : Validate(w, passed)
    \/ CommitEdit(w)

Publish(w) ==
    \/ RecordCommit(w)
    \/ AssertActive(w)
    \/ \E delivered \in BOOLEAN : Push(w, delivered)
    \/ Resume(w)
    \/ Draft(w)
    \/ RecordPull(w)
    \/ RecordHead(w)

End(w) ==
    \/ \E result \in {"passed", "failed", "timed_out"} : Observe(w, result)
    \/ Final(w)
    \/ Complete(w)
    \/ Fail(w)
    \/ Fault(w)
    \/ Refused(w)
    \/ Crash(w)

WorkerNext(w) ==
    \/ Claim(w) \/ Prepare(w) \/ Replan(w) \/ RecordBranch(w)
    \/ Build(w) \/ Publish(w) \/ End(w)

Next ==
    \/ \E w \in Workers : WorkerNext(w)
    \/ LeaseExpires \/ Sweep \/ Retry \/ MoveBase

Spec == Init /\ [][Next]_vars

-----------------------------------------------------------------------------
(* Safety.                                                                 *)

\* GitHub's factory branch is always a commit the database has an artifact of,
\* whichever process pushed it and whatever it lost before: no pushed work is
\* unknown to the recovery of a later attempt.
PushedIsRecorded == github.branch # None => RecordedIn(ev.commit, github.branch)

\* However an attempt ended, the evidence it left lets the next one be claimed: a
\* run the owner's retry queued, or whose worker died, is never stranded by it.
EvidenceNeverStrands ==
    (rec.status = "queued" \/ (rec.status = "running" /\ ~rec.live))
        /\ rec.attempt < MaxAttempts
    => EvidenceEligible

Passed(tree) == \E v \in ev.valid : v.tree = tree /\ v.passed

\* The commit a succeeded run reports is, and stays, the head of the factory branch
\* under its open draft, whatever a stale process still pushes; its checks passed
\* on GitHub; and it and every commit under it passed deterministic validation,
\* also when the evidence was carried forward from an attempt that died.
SuccessIsEarned ==
    rec.status = "succeeded" =>
        /\ rec.sha # None /\ rec.sha \in github.green
        /\ github.branch = rec.sha /\ github.pull = rec.base
        /\ \A n \in 2..Len(rec.sha) : Passed(SubSeq(rec.sha, 1, n))

Items == ev.commit \cup ev.pull \cup ev.head

RecordsByTheHolder ==
    \A item \in Items' \ Items :
        rec.live /\ item.attempt = rec.attempt /\ rec'.attempt = rec.attempt

\* Evidence is written only for the latest attempt, under its live lease: a
\* process that was taken over adds nothing, although it may still push.
StaleWorkersRecordNothing == [][RecordsByTheHolder]_vars

\* "A re-planned run can never orphan pushed work": the plan moves to another
\* base only while nothing was ever pushed for the run.
ReplanOrphansNothing ==
    [][rec'.base # rec.base => github.branch = None]_vars

-----------------------------------------------------------------------------
(* What the repository says and the code does not do; see the README.      *)

\* "GitHub did not conclusively accept the exact factory commit push; a bounded
\* retry must reconcile the remote branch": when the owner may retry such a run,
\* the branch is one that the next attempt's preparation does not refuse.
RetryReconcilesBranch ==
    rec.status = "failed" /\ rec.retryable /\ rec.error = "git_push_failed" /\ RetryCoherent
        => github.branch \in {None, rec.sha}

\* A run re-planned to the observed head is executed against it: its own
\* workspace does not refuse the plan it was moved to.
ReplannedRunsPrepare ==
    \A w \in Workers : proc[w].pc = "prepare" /\ proc[w].replanned =>
        PrepareVerdict(w) \notin {"workspace_identity_mismatch", "workspace_branch_mismatch"}
=============================================================================
