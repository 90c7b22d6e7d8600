-------------------------- MODULE RunEvidenceProofs --------------------------
(***************************************************************************)
(* Theorems about RunEvidence, for every number of workers, attempts,      *)
(* repairs, edits and moves of the base branch.                            *)
(*                                                                         *)
(* What carries them: every edit has a number of its own, which is at one  *)
(* place, an uncommitted tree or an unrecorded commit, until the commit    *)
(* made of it is on record.  So a commit recorded later than another is    *)
(* never what the other one starts with, and a process that was taken over *)
(* cannot push past the head its successor has on record.                  *)
(***************************************************************************)
EXTENDS RunEvidence, FiniteSetTheorems, SequenceTheorems, TLAPS

\* The stages of an attempt: with the commit it is about on record (Late), and
\* while it builds one.
Late     == {"active", "push", "pushed", "draft", "pull", "head", "ci", "final", "complete"}
Building == {"edit", "validate", "commit"}

\* What a process is, whatever the others do.
Shape(p) ==
    /\ p.round <= p.repairs + 1
    /\ p.pc # "idle" => p.attempt >= 1
    /\ p.pc \in Building => ~p.resumed
    /\ p.pc \in {"edit", "validate"} => p.round <= p.repairs
    /\ p.pc \in Late \cup {"resume", "record"} => p.sha # None
    /\ p.pc \in {"prepare", "replan", "branch"} => ~p.published /\ ~p.resumed /\ p.round = 0
    /\ p.pc \in {"active", "push", "pushed", "head"} => ~p.resumed
    /\ p.pc = "resume" => p.resumed
    /\ p.resumed /\ p.pc \in {"resume", "draft", "record"} => ~p.published
    /\ p.pc = "pull" => ~p.published

Shapes == \A w \in Workers : Shape(proc[w])

\* The row and the evidence: what is on record is of an attempt that was made,
\* and the head of the row is the commit of an artifact.
RowKnows ==
    /\ \A item \in ev.commit \cup ev.pull : item.attempt \in ev.branch
    /\ \A a \in ev.branch : a <= rec.attempt
    /\ rec.branch <=> ev.branch # {}
    /\ rec.sha = None <=> ev.commit = {}
    /\ rec.sha # None => RecordedIn(ev.commit, rec.sha)
    /\ ev.draft <=> ev.pull # {}
    /\ ev.commit = {} => ev.pull = {}

\* Attempts are of one process each, and one draft is recorded in each.
AttemptsApart ==
    /\ \A w \in Workers : proc[w].pc # "idle" => proc[w].attempt <= rec.attempt
    /\ \A w, v \in Workers :
          proc[w].pc # "idle" /\ proc[v].pc # "idle" /\ proc[w].attempt = proc[v].attempt => w = v
    /\ \A w \in Workers : proc[w].pc \in Building \cup Late \cup {"resume", "record"} =>
          proc[w].attempt \in ev.branch
    /\ \A i, j \in ev.pull : i.attempt = j.attempt => i = j
    /\ \A w \in Workers : proc[w].pc # "idle" /\ ~proc[w].published =>
          InAttempt(ev.pull, proc[w].attempt) = {}

\* What the holder of the lease knows of the row.
HolderKnows ==
    \A w \in Workers : LET p == proc[w] IN
        HoldsLease(w) /\ p.pc # "idle" =>
            /\ p.base = rec.base
            /\ p.pc \in {"prepare", "replan", "branch"} => p.recovery \in {None, rec.sha}
            /\ p.pc \in Late \cup {"resume"} => p.sha = rec.sha
            /\ p.pc = "record" /\ p.resumed => p.sha = rec.sha

\* What is pushed, or about to be, is on record.
PushesAreRecorded ==
    /\ PushedIsRecorded
    /\ \A w \in Workers : proc[w].pc \in {"active", "push"} => RecordedIn(ev.commit, proc[w].sha)

\* The workspace under a process.
WorkspaceKnows ==
    \A w \in Workers : LET p == proc[w] IN
        /\ p.pc = "branch" /\ p.recovery = None => disk[w].head = AtBase(p.base)
        /\ p.pc \in Late \cup {"record"} /\ ~p.resumed => disk[w].head = p.sha
        /\ p.pc = "record" /\ ~p.resumed => Len(p.sha) >= 2

\* A commit whose every edit, and what lies under it, passed its validation.
PassedIn(valid, tree) == \E v \in valid : v.tree = tree /\ v.passed

EarnedIn(valid, sha) == \A n \in 2..Len(sha) : PassedIn(valid, SubSeq(sha, 1, n))

Earned(sha) == EarnedIn(ev.valid, sha)

EarnedSoFar ==
    /\ rec.sha # None => Earned(rec.sha)
    /\ \A w \in Workers : LET p == proc[w] IN
        /\ p.pc # "idle" /\ p.recovery # None => Earned(p.recovery)
        /\ p.pc \in Late \cup {"resume", "record"} => Earned(p.sha)
        /\ p.pc \in Building => Earned(disk[w].head)
        /\ p.pc = "commit" => Passed(Tree(w))
        /\ p.pc \in {"final", "complete"} => p.sha \in github.green

\* The number of an edit is in a commit.
Occurs(n, sha) == \E i \in 2..Len(sha) : sha[i] = n

NumberedTo(n, sha) == Len(sha) >= 1 /\ \A i \in 2..Len(sha) : sha[i] <= n

Numbered(sha) == NumberedTo(edits, sha)

\* A number that is nowhere but on the disk of w, and in no commit on record.
UnrecordedIn(commit, disks, n, w) ==
    /\ \A c \in commit : ~Occurs(n, c.sha)
    /\ \A v \in Workers \ {w} : ~Occurs(n, disks[v].head)

Unrecorded(n, w) == UnrecordedIn(ev.commit, disk, n, w)

NumbersApart ==
    /\ \A c \in ev.commit : Numbered(c.sha)
    /\ \A w \in Workers :
        /\ Numbered(disk[w].head) /\ disk[w].edit <= edits
        /\ disk[w].edit # NoEdit =>
            /\ Unrecorded(disk[w].edit, w) /\ ~Occurs(disk[w].edit, disk[w].head)
            /\ \A v \in Workers \ {w} : disk[v].edit # disk[w].edit
        /\ proc[w].pc = "record" /\ ~proc[w].resumed => Unrecorded(Last(proc[w].sha), w)

\* No process can push past the head on record.
NoPushPasses ==
    \A w \in Workers : proc[w].pc \in {"active", "push"} =>
        rec.sha # None /\ (IsPrefix(rec.sha, proc[w].sha) => proc[w].sha = rec.sha)

\* A process about to report success, and a success reported.
CompletionsStand ==
    /\ \A w \in Workers : HoldsLease(w) /\ proc[w].pc = "complete" =>
          github.branch = rec.sha /\ github.pull = rec.base
    /\ SuccessIsEarned

IInv ==
    /\ TypeOK /\ Shapes
    /\ RowKnows /\ AttemptsApart /\ HolderKnows
    /\ PushesAreRecorded /\ WorkspaceKnows /\ EarnedSoFar
    /\ NumbersApart /\ NoPushPasses /\ CompletionsStand

-----------------------------------------------------------------------------
(* Types and shapes.                                                       *)

LEMMA Pc == \A p \in Process, s \in Stage : [p EXCEPT !.pc = s] \in Process
  BY DEF Process

LEMMA Coded == \A p \in Process, c \in ErrorCode : [p EXCEPT !.error = c] \in Process
  BY DEF Process

LEMMA Shaed == \A p \in Process, sha \in Commit : [p EXCEPT !.sha = sha] \in Process
  BY DEF Process

LEMMA Resumes == \A p \in Process, b \in BOOLEAN : [p EXCEPT !.resumed = b] \in Process
  BY DEF Process

LEMMA Seen == \A p \in Process, b \in 0..MaxBase : [p EXCEPT !.seen = b] \in Process
  BY DEF Process

LEMMA Based ==
    \A p \in Process, b \in 0..MaxBase, r \in BOOLEAN :
        [p EXCEPT !.base = b] \in Process /\ [p EXCEPT !.replanned = r] \in Process
  BY DEF Process

LEMMA Counted ==
    /\ \A p \in Process, n \in 0..MaxRepairs + 1 : [p EXCEPT !.round = n] \in Process
    /\ \A p \in Process, n \in 0..MaxRepairs : [p EXCEPT !.repairs = n] \in Process
    /\ \A p \in Process, b \in BOOLEAN : [p EXCEPT !.published = b] \in Process
  BY DEF Process

\* Two processes that differ in their stage only.
Alike(p, q) ==
    /\ q.attempt = p.attempt /\ q.base = p.base /\ q.recovery = p.recovery
    /\ q.resumed = p.resumed /\ q.sha = p.sha /\ q.round = p.round
    /\ q.repairs = p.repairs /\ q.published = p.published

LEMMA Moved ==
    ASSUME TypeOK, NEW w \in Workers, NEW s \in Stage, Goto(w, s)
    PROVE  /\ proc' \in [Workers -> Process]
           /\ proc'[w].pc = s /\ Alike(proc[w], proc'[w])
           /\ \A v \in Workers \ {w} : proc'[v] = proc[v]
<1>1. proc \in [Workers -> Process] /\ proc' = [proc EXCEPT ![w].pc = s]
  BY DEF TypeOK, Goto
<1>2. [proc[w] EXCEPT !.pc = s] \in Process
  BY <1>1, Pc
<1>3. proc'[w].pc = s /\ Alike(proc[w], proc'[w])
  BY <1>1 DEF Process, Alike
<1> QED BY <1>1, <1>2, <1>3

LEMMA Failed ==
    ASSUME TypeOK, NEW w \in Workers, NEW code \in ErrorCode, FailWith(w, code)
    PROVE  /\ proc' \in [Workers -> Process]
           /\ proc'[w].pc = "failing" /\ Alike(proc[w], proc'[w])
           /\ \A v \in Workers \ {w} : proc'[v] = proc[v]
<1>1. /\ proc \in [Workers -> Process]
      /\ proc' = [proc EXCEPT ![w].pc = "failing", ![w].error = code]
  BY DEF TypeOK, FailWith
<1>2. "failing" \in Stage
  BY DEF Stage
<1>3. [proc[w] EXCEPT !.pc = "failing", !.error = code] \in Process
  BY <1>1, <1>2, Pc, Coded
<1>4. proc'[w].pc = "failing" /\ Alike(proc[w], proc'[w])
  BY <1>1 DEF Process, Alike
<1> QED BY <1>1, <1>3, <1>4

LEMMA Trees ==
    ASSUME TypeOK, NEW w \in Workers
    PROVE  /\ disk[w].head \in Seq(Nat) /\ disk[w].edit \in Nat
           /\ Tree(w) \in Seq(Nat)
           /\ \A base \in Nat : AtBase(base) \in Seq(Nat) /\ AtBase(base) # None
           /\ Tree(w) # None /\ disk[w].head # None
<1>1. disk[w] \in Disk
  BY DEF TypeOK
<1>2. disk[w].head \in Seq(Nat) /\ disk[w].edit \in Nat
  BY <1>1, RunEvidenceAssumption DEF Disk, Commit
<1>3. Tree(w) \in Seq(Nat)
  BY <1>2 DEF Tree
<1>4. \A base \in Nat : AtBase(base) \in Seq(Nat)
  BY DEF AtBase
<1> QED BY <1>2, <1>3, <1>4, RunEvidenceAssumption

LEMMA Typed ==
    ASSUME TypeOK, NEW w \in Workers
    PROVE  /\ proc[w] \in Process /\ disk[w] \in Disk
           /\ rec \in RunRow /\ ev \in Evidence /\ github \in Repository
           /\ edits \in 0..MaxEdits
  BY DEF TypeOK

\* The kinds of change a row, a record of evidence and a repository see.
LEMMA RowFields ==
    /\ \A r \in RunRow, b \in 0..MaxBase : [r EXCEPT !.base = b] \in RunRow
    /\ \A r \in RunRow, sha \in Commit : [r EXCEPT !.sha = sha] \in RunRow
    /\ \A r \in RunRow, b \in BOOLEAN : [r EXCEPT !.live = b] \in RunRow
    /\ \A r \in RunRow, b \in BOOLEAN : [r EXCEPT !.branch = b] \in RunRow
    /\ \A r \in RunRow, b \in BOOLEAN : [r EXCEPT !.retryable = b] \in RunRow
    /\ \A r \in RunRow, c \in ErrorCode : [r EXCEPT !.error = c] \in RunRow
    /\ \A r \in RunRow, h \in Workers \cup {None} : [r EXCEPT !.holder = h] \in RunRow
    /\ \A r \in RunRow, a \in 0..MaxAttempts : [r EXCEPT !.attempt = a] \in RunRow
    /\ \A r \in RunRow, s \in {"queued", "running", "failed", "succeeded"} :
          [r EXCEPT !.status = s] \in RunRow
  BY DEF RunRow

LEMMA EvidenceFields ==
    /\ \A e \in Evidence, a \in Attempt : [e EXCEPT !.branch = @ \cup {a}] \in Evidence
    /\ \A e \in Evidence, i \in Recorded : [e EXCEPT !.commit = @ \cup {i}] \in Evidence
    /\ \A e \in Evidence, i \in Recorded : [e EXCEPT !.pull = @ \cup {i}] \in Evidence
    /\ \A e \in Evidence, i \in Recorded : [e EXCEPT !.head = @ \cup {i}] \in Evidence
    /\ \A e \in Evidence, V \in SUBSET Validation : [e EXCEPT !.valid = V] \in Evidence
    /\ \A e \in Evidence, V \in SUBSET Validation : [e EXCEPT !.valid = @ \cup V] \in Evidence
    /\ \A e \in Evidence, b \in BOOLEAN : [e EXCEPT !.draft = b] \in Evidence
  BY DEF Evidence

LEMMA RepositoryFields ==
    /\ \A g \in Repository, b \in 0..MaxBase : [g EXCEPT !.base = b] \in Repository
    /\ \A g \in Repository, sha \in Commit : [g EXCEPT !.branch = sha] \in Repository
    /\ \A g \in Repository, b \in 0..MaxBase : [g EXCEPT !.pull = b] \in Repository
    /\ \A g \in Repository, sha \in Commit : [g EXCEPT !.green = @ \cup {sha}] \in Repository
  BY DEF Repository

LEMMA Became ==
    ASSUME TypeOK, NEW w \in Workers, NEW p \in Process, proc' = [proc EXCEPT ![w] = p]
    PROVE  /\ proc' \in [Workers -> Process]
           /\ proc'[w] = p
           /\ \A v \in Workers \ {w} : proc'[v] = proc[v]
  BY DEF TypeOK

LEMMA IdleIsAProcess == Idle \in Process
  BY RunEvidenceAssumption DEF Idle, Process, Stage, ErrorCode

\* The process a claim starts.
Fresh(attempt, base, draft, recovery) ==
    [Idle EXCEPT !.pc = "prepare", !.attempt = attempt, !.base = base, !.pull = draft,
                 !.recovery = recovery]

LEMMA FreshAttempt ==
    ASSUME NEW a \in 0..MaxAttempts, NEW b \in 0..MaxBase, NEW d \in BOOLEAN,
           NEW r \in Commit \cup {None}
    PROVE  /\ Fresh(a, b, d, r) \in Process
           /\ Fresh(a, b, d, r).pc = "prepare" /\ Fresh(a, b, d, r).attempt = a
           /\ Fresh(a, b, d, r).base = b /\ Fresh(a, b, d, r).recovery = r
           /\ ~Fresh(a, b, d, r).resumed /\ ~Fresh(a, b, d, r).published
           /\ Fresh(a, b, d, r).round = 0 /\ Fresh(a, b, d, r).repairs = 0
<1>1. "prepare" \in Stage
  BY DEF Stage
<1>2. \A p \in Process :
         /\ [p EXCEPT !.attempt = a] \in Process /\ [p EXCEPT !.base = b] \in Process
         /\ [p EXCEPT !.pull = d] \in Process /\ [p EXCEPT !.recovery = r] \in Process
  BY DEF Process
<1>3. Fresh(a, b, d, r) \in Process
  BY <1>1, <1>2, Pc, IdleIsAProcess DEF Fresh
<1> QED BY <1>3 DEF Fresh, Idle

LEMMA Claims ==
    ASSUME TypeOK, NEW w \in Workers, Claim(w)
    PROVE  /\ TypeOK'
           /\ proc'[w] = Fresh(rec.attempt + 1, rec.base, ev.draft,
                               IF rec.branch THEN rec.sha ELSE None)
           /\ proc'[w].pc = "prepare" /\ proc'[w].attempt = rec.attempt + 1
           /\ proc'[w].base = rec.base
           /\ proc'[w].recovery = IF rec.branch THEN rec.sha ELSE None
           /\ ~proc'[w].resumed /\ ~proc'[w].published
           /\ proc'[w].round = 0 /\ proc'[w].repairs = 0
           /\ \A v \in Workers \ {w} : proc'[v] = proc[v]
           /\ rec' = [status |-> "running", live |-> TRUE, attempt |-> rec.attempt + 1,
                      holder |-> w, base |-> rec.base, branch |-> rec.branch,
                      sha |-> rec.sha, retryable |-> FALSE, error |-> "none"]
<1> DEFINE recovery == IF rec.branch THEN rec.sha ELSE None
<1>1. /\ rec.attempt + 1 \in 0..MaxAttempts /\ rec.base \in 0..MaxBase /\ ev.draft \in BOOLEAN
      /\ rec.sha \in Commit \cup {None} /\ rec.branch \in BOOLEAN
  BY RunEvidenceAssumption DEF TypeOK, Claim, RunRow, Evidence
<1>2. recovery \in Commit \cup {None}
  BY <1>1
<1>3. proc' = [proc EXCEPT ![w] = Fresh(rec.attempt + 1, rec.base, ev.draft, recovery)]
  BY DEF Claim, Fresh
<1>4. rec' = [status |-> "running", live |-> TRUE, attempt |-> rec.attempt + 1, holder |-> w,
              base |-> rec.base, branch |-> rec.branch, sha |-> rec.sha,
              retryable |-> FALSE, error |-> "none"]
  BY DEF Claim, TypeOK, RunRow
<1>5. rec' \in RunRow
  BY <1>1, <1>4 DEF RunRow, ErrorCode
<1> HIDE DEF recovery
<1>6. /\ proc' \in [Workers -> Process]
      /\ proc'[w] = Fresh(rec.attempt + 1, rec.base, ev.draft, recovery)
      /\ \A v \in Workers \ {w} : proc'[v] = proc[v]
  <2>1. Fresh(rec.attempt + 1, rec.base, ev.draft, recovery) \in Process
    BY <1>1, <1>2, FreshAttempt
  <2> QED BY <1>3, <2>1, Became
<1>7. TypeOK'
  BY <1>5, <1>6 DEF Claim, TypeOK
<1> QED BY <1>1, <1>2, <1>4, <1>6, <1>7, FreshAttempt DEF recovery

LEMMA ControlTyped ==
    ASSUME TypeOK, LeaseExpires \/ Sweep \/ Retry \/ MoveBase
    PROVE  TypeOK'
<1>1. CASE LeaseExpires
  BY <1>1, RowFields DEF LeaseExpires, TypeOK
<1>2. CASE Sweep
  <2>1. rec' = [status |-> "failed", live |-> rec.live, attempt |-> rec.attempt,
                holder |-> None, base |-> rec.base, branch |-> rec.branch, sha |-> rec.sha,
                retryable |-> FALSE, error |-> "final"]
    BY <1>2 DEF Sweep, TypeOK, RunRow
  <2>2. rec' \in RunRow
    BY <2>1 DEF TypeOK, RunRow, ErrorCode
  <2> QED BY <1>2, <2>2 DEF Sweep, TypeOK
<1>3. CASE Retry
  <2>1. rec' = [status |-> "queued", live |-> rec.live, attempt |-> rec.attempt,
                holder |-> rec.holder, base |-> rec.base, branch |-> rec.branch,
                sha |-> rec.sha, retryable |-> FALSE, error |-> "none"]
    BY <1>3 DEF Retry, TypeOK, RunRow
  <2>2. rec' \in RunRow
    BY <2>1 DEF TypeOK, RunRow, ErrorCode
  <2> QED BY <1>3, <2>2 DEF Retry, TypeOK
<1>4. CASE MoveBase
  <2>1. github.base + 1 \in 0..MaxBase
    BY <1>4, RunEvidenceAssumption DEF MoveBase, TypeOK, Repository
  <2> QED BY <1>4, <2>1, RepositoryFields DEF MoveBase, TypeOK
<1> QED BY <1>1, <1>2, <1>3, <1>4

LEMMA DisksTyped ==
    ASSUME TypeOK, NEW w \in Workers
    PROVE  /\ PreparedDisk(w) \in Disk /\ BegunDisk(w) \in Disk /\ LeftOnDisk(w) \in Disk
           /\ \A d \in Disk : [disk EXCEPT ![w] = d] \in [Workers -> Disk]
           /\ \A n \in 0..MaxEdits : [disk[w] EXCEPT !.edit = n] \in Disk
           /\ [disk[w] EXCEPT !.head = Tree(w), !.edit = NoEdit] \in Disk
<1>1. /\ disk[w] \in Disk /\ disk \in [Workers -> Disk]
      /\ proc[w].base \in 0..MaxBase /\ github.branch \in Commit \cup {None}
  BY Typed DEF Process, Repository, TypeOK
<1>2. PreparedDisk(w) \in Disk
  <2>1. AtBase(proc[w].base) \in Commit
    BY <1>1, Trees DEF Commit
  <2>2. \A c \in Commit :
           [marker |-> proc[w].base, git |-> "branch", head |-> c, edit |-> NoEdit] \in Disk
    BY <1>1, RunEvidenceAssumption DEF Disk, NoEdit
  <2> QED BY <1>1, <2>1, <2>2 DEF PreparedDisk
<1>3. BegunDisk(w) \in Disk
  BY <1>1 DEF BegunDisk, Disk
<1>4. \A n \in 0..MaxEdits : [disk[w] EXCEPT !.edit = n] \in Disk
  BY <1>1 DEF Disk
<1>5. [disk[w] EXCEPT !.head = Tree(w), !.edit = NoEdit] \in Disk
  <2>1. Tree(w) \in Commit /\ NoEdit \in 0..MaxEdits
    BY Trees, RunEvidenceAssumption DEF Commit, NoEdit
  <2> QED BY <1>1, <2>1 DEF Disk
<1> QED BY <1>1, <1>2, <1>3, <1>4, <1>5 DEF LeftOnDisk

LEMMA PreparesTyped ==
    ASSUME TypeOK, NEW w \in Workers, Prepare(w)
    PROVE  TypeOK'
<1>1. disk' \in [Workers -> Disk]
  BY DisksTyped DEF Prepare
<1>2. github.base \in 0..MaxBase /\ "replan" \in Stage /\ "branch" \in Stage /\ "final" \in ErrorCode
  BY DEF TypeOK, Repository, Stage, ErrorCode
<1>3. CASE Goto(w, "branch") \/ FailWith(w, "final")
  BY <1>1, <1>2, <1>3, Moved, Failed DEF Prepare, TypeOK
<1>4. CASE proc' = [proc EXCEPT ![w].pc = "replan", ![w].seen = github.base]
  <2>1. proc[w] \in Process
    BY Typed
  <2>2. [proc[w] EXCEPT !.pc = "replan", !.seen = github.base] \in Process
    BY <1>2, <2>1, Pc, Seen
  <2> QED BY <1>1, <1>4, <2>2, Became DEF Prepare, TypeOK
<1> QED BY <1>3, <1>4 DEF Prepare

LEMMA ReplansTyped ==
    ASSUME TypeOK, NEW w \in Workers, Replan(w)
    PROVE  TypeOK'
<1>1. /\ proc[w] \in Process /\ proc[w].seen \in 0..MaxBase
      /\ "prepare" \in Stage /\ "final" \in ErrorCode
  BY Typed DEF Process, Stage, ErrorCode
<1>2. CASE FailWith(w, "final") /\ UNCHANGED rec
  BY <1>1, <1>2, Failed DEF Replan, TypeOK
<1>3. CASE /\ rec' = [rec EXCEPT !.base = proc[w].seen]
           /\ proc' = [proc EXCEPT ![w].pc = "prepare", ![w].base = proc[w].seen,
                                    ![w].replanned = TRUE]
  <2>1. [proc[w] EXCEPT !.pc = "prepare", !.base = proc[w].seen, !.replanned = TRUE] \in Process
    BY <1>1, Pc, Based
  <2>2. proc' = [proc EXCEPT ![w] =
                    [@ EXCEPT !.pc = "prepare", !.base = proc[w].seen, !.replanned = TRUE]]
    BY <1>3 DEF TypeOK
  <2>3. proc' \in [Workers -> Process]
    BY <2>1, <2>2, Became
  <2> QED BY <1>1, <1>3, <2>3, RowFields DEF Replan, TypeOK
<1> QED BY <1>2, <1>3 DEF Replan

LEMMA BranchesTyped ==
    ASSUME TypeOK, Shapes, NEW w \in Workers, RecordBranch(w)
    PROVE  TypeOK'
<1>1. /\ proc[w] \in Process /\ proc[w].attempt \in Attempt /\ disk[w].head \in Commit
      /\ "resume" \in Stage /\ "edit" \in Stage /\ "final" \in ErrorCode
  <2>1. proc[w] \in Process /\ disk[w] \in Disk
    BY Typed
  <2>2. proc[w].attempt >= 1
    BY DEF Shapes, Shape, RecordBranch
  <2>3. proc[w].attempt \in 0..MaxAttempts /\ disk[w].head \in Commit
    BY <2>1 DEF Process, Disk
  <2>4. proc[w].attempt \in Attempt
    BY <2>2, <2>3, RunEvidenceAssumption DEF Attempt
  <2> QED BY <2>1, <2>3, <2>4 DEF Stage, ErrorCode
<1>2. ev' \in Evidence /\ rec' \in RunRow
  BY <1>1, EvidenceFields, RowFields DEF RecordBranch, TypeOK
<1>3. CASE Goto(w, "edit") \/ FailWith(w, "final")
  BY <1>1, <1>2, <1>3, Moved, Failed DEF RecordBranch, TypeOK
<1>4. CASE proc' = [proc EXCEPT ![w].pc = "resume", ![w].resumed = TRUE,
                                ![w].sha = disk[w].head]
  <2>1. [proc[w] EXCEPT !.pc = "resume", !.resumed = TRUE, !.sha = disk[w].head] \in Process
    BY <1>1, Pc, Resumes, Shaed
  <2> QED BY <1>2, <1>4, <2>1, Became DEF RecordBranch, TypeOK
<1> QED BY <1>3, <1>4 DEF RecordBranch

LEMMA ValidatesTyped ==
    ASSUME TypeOK, Shapes, NEW w \in Workers, NEW passed \in BOOLEAN, Validate(w, passed)
    PROVE  TypeOK'
<1> DEFINE p == proc[w]
           q == [p EXCEPT !.round = p.round + 1]
<1>1. p \in Process /\ Tree(w) \in Commit
  BY Typed, Trees DEF Commit
<1>2. /\ p.attempt \in Attempt /\ p.round \in Nat /\ p.repairs \in 0..MaxRepairs
      /\ p.round <= p.repairs
  BY <1>1, RunEvidenceAssumption DEF Shapes, Shape, Process, Attempt, Validate
<1>3. p.round + 1 \in 1..MaxRepairs + 1
  BY <1>2, RunEvidenceAssumption
<1>4. /\ "commit" \in Stage /\ "edit" \in Stage /\ "failing" \in Stage
      /\ "worker_failed" \in ErrorCode
  BY DEF Stage, ErrorCode
<1>5. ev' \in Evidence
  <2>1. [attempt |-> p.attempt, round |-> p.round + 1, passed |-> passed, tree |-> Tree(w)]
           \in Validation
    BY <1>1, <1>2, <1>3 DEF Validation
  <2> DEFINE V == {[attempt |-> p.attempt, round |-> p.round + 1, passed |-> passed,
                    tree |-> Tree(w)]}
  <2>2. V \in SUBSET Validation /\ ev' = [ev EXCEPT !.valid = @ \cup V] /\ ev \in Evidence
    BY <2>1 DEF Validate, TypeOK
  <2> HIDE DEF V
  <2> QED BY <2>2, EvidenceFields
<1>6. q \in Process
  BY <1>1, <1>3, Counted
<1>7. proc' \in [Workers -> Process]
  <2>1. CASE proc' = [proc EXCEPT ![w].round = @ + 1, ![w].pc = "commit"]
    <3>1. proc' = [proc EXCEPT ![w] = [q EXCEPT !.pc = "commit"]]
      BY <2>1
    <3> QED BY <1>4, <1>6, <3>1, Pc, Became
  <2>2. CASE /\ p.repairs < MaxRepairs
             /\ proc' = [proc EXCEPT ![w].round = @ + 1, ![w].pc = "edit", ![w].repairs = @ + 1]
    <3>1. proc' = [proc EXCEPT ![w] = [q EXCEPT !.pc = "edit", !.repairs = p.repairs + 1]]
      BY <2>2
    <3>2. p.repairs + 1 \in 0..MaxRepairs
      BY <1>2, <2>2, RunEvidenceAssumption
    <3>3. [q EXCEPT !.pc = "edit", !.repairs = p.repairs + 1] \in Process
      BY <1>4, <1>6, <3>2, Pc, Counted
    <3> QED BY <3>1, <3>3, Became
  <2>3. CASE proc' = [proc EXCEPT ![w].round = @ + 1, ![w].pc = "failing",
                                  ![w].error = "worker_failed"]
    <3>1. proc' = [proc EXCEPT ![w] = [q EXCEPT !.pc = "failing", !.error = "worker_failed"]]
      BY <2>3
    <3>2. [q EXCEPT !.pc = "failing", !.error = "worker_failed"] \in Process
      BY <1>4, <1>6, Pc, Coded
    <3> QED BY <3>1, <3>2, Became
  <2> QED BY <2>1, <2>2, <2>3 DEF Validate
<1> QED BY <1>5, <1>7 DEF Validate, TypeOK

LEMMA CommitsTyped ==
    ASSUME TypeOK, NEW w \in Workers, CommitEdit(w)
    PROVE  TypeOK'
<1>1. /\ proc[w] \in Process /\ Tree(w) \in Commit
      /\ "record" \in Stage /\ "final" \in ErrorCode
  BY Typed, Trees DEF Stage, ErrorCode, Commit
<1>2. CASE FailWith(w, "final") /\ UNCHANGED disk
  BY <1>1, <1>2, Failed DEF CommitEdit, TypeOK
<1>3. CASE /\ disk' = [disk EXCEPT ![w].head = Tree(w), ![w].edit = NoEdit]
           /\ proc' = [proc EXCEPT ![w].pc = "record", ![w].sha = Tree(w)]
  <2>1. [proc[w] EXCEPT !.pc = "record", !.sha = Tree(w)] \in Process
    BY <1>1, Pc, Shaed
  <2>2. proc' \in [Workers -> Process]
    BY <1>3, <2>1, Became DEF TypeOK
  <2>3. disk' = [disk EXCEPT ![w] = [disk[w] EXCEPT !.head = Tree(w), !.edit = NoEdit]]
    BY <1>3 DEF TypeOK
  <2>4. disk' \in [Workers -> Disk]
    BY <2>3, DisksTyped
  <2> QED BY <2>2, <2>4 DEF CommitEdit, TypeOK
<1> QED BY <1>2, <1>3 DEF CommitEdit

LEMMA EditsTyped ==
    ASSUME TypeOK, NEW w \in Workers, Edit(w)
    PROVE  TypeOK'
<1>1. disk' \in [Workers -> Disk] /\ edits' \in 0..MaxEdits
  <2>1. CASE UNCHANGED <<edits, disk>>
    BY <2>1 DEF TypeOK
  <2>2. CASE /\ edits < MaxEdits /\ edits' = edits + 1
             /\ disk' = [disk EXCEPT ![w].edit = edits + 1]
    <3>1. edits + 1 \in 0..MaxEdits
      BY <2>2, RunEvidenceAssumption DEF TypeOK
    <3>2. [disk[w] EXCEPT !.edit = edits + 1] \in Disk
      BY <3>1, DisksTyped
    <3> QED BY <2>2, <3>1, <3>2 DEF TypeOK
  <2> QED BY <2>1, <2>2 DEF Edit
<1>2. "validate" \in Stage
  BY DEF Stage
<1> QED BY <1>1, <1>2, Moved DEF Edit, TypeOK

LEMMA PublishTyped ==
    ASSUME TypeOK, Shapes, NEW w \in Workers, Publish(w)
    PROVE  TypeOK'
<1>1. /\ proc[w] \in Process
      /\ proc[w].pc # "idle" => proc[w].attempt \in Attempt
      /\ proc[w].pc \in Late \cup {"record"} => proc[w].sha \in Commit
      /\ github.base \in 0..MaxBase
      /\ {"active", "push", "pushed", "draft", "pull", "head", "ci", "record"} \subseteq Stage
      /\ {"worker_failed", "final", "git_push_failed"} \subseteq ErrorCode
  <2>1. proc[w] \in Process /\ github \in Repository
    BY Typed
  <2>2. /\ proc[w].attempt \in 0..MaxAttempts /\ proc[w].sha \in Commit \cup {None}
        /\ github.base \in 0..MaxBase
    BY <2>1 DEF Process, Repository
  <2>3. /\ proc[w].pc # "idle" => proc[w].attempt >= 1
        /\ proc[w].pc \in Late \cup {"record"} => proc[w].sha # None
    BY DEF Shapes, Shape
  <2>4. proc[w].pc # "idle" => proc[w].attempt \in Attempt
    BY <2>2, <2>3, RunEvidenceAssumption DEF Attempt
  <2>5. /\ {"active", "push", "pushed", "draft", "pull", "head", "ci", "record"} \subseteq Stage
        /\ {"worker_failed", "final", "git_push_failed"} \subseteq ErrorCode
    BY DEF Stage, ErrorCode
  <2> QED BY <2>1, <2>2, <2>3, <2>4, <2>5
<1>2. \A sha \in Commit : proc[w].pc # "idle" =>
         [attempt |-> proc[w].attempt, sha |-> sha] \in Recorded
  BY <1>1 DEF Recorded
<1>3. CASE RecordCommit(w)
  <2>1. ev' \in Evidence /\ rec' \in RunRow
    BY <1>1, <1>2, <1>3, EvidenceFields, RowFields DEF RecordCommit, TypeOK, Late
  <2> QED BY <1>1, <1>3, <2>1, Moved DEF RecordCommit, TypeOK
<1>4. CASE AssertActive(w)
  BY <1>1, <1>4, Moved, Failed DEF AssertActive, TypeOK
<1>5. ASSUME NEW delivered \in BOOLEAN, Push(w, delivered) PROVE TypeOK'
  <2>1. github' \in Repository
    BY <1>1, <1>5, RepositoryFields DEF Push, TypeOK, Late
  <2>2. proc' \in [Workers -> Process]
    BY <1>1, <1>5, Moved, Failed DEF Push
  <2> QED BY <1>5, <2>1, <2>2 DEF Push, TypeOK
<1>6. CASE Resume(w)
  BY <1>1, <1>6, Moved, Failed DEF Resume, TypeOK
<1>7. CASE Draft(w)
  <2>1. github' \in Repository
    BY <1>1, <1>7, RepositoryFields DEF Draft, TypeOK, Repository
  <2>2. AfterDraft(w) \in Stage
    BY <1>1 DEF AfterDraft
  <2>3. proc' \in [Workers -> Process]
    BY <1>1, <1>7, <2>2, Moved, Failed DEF Draft
  <2> QED BY <1>7, <2>1, <2>3 DEF Draft, TypeOK
<1>8. CASE RecordPull(w)
  <2>1. ev' \in Evidence
    <3>1. CASE UNCHANGED ev
      BY <3>1 DEF TypeOK
    <3>2. CASE ev' = [ev EXCEPT !.draft = TRUE,
                                !.pull = @ \cup {[attempt |-> proc[w].attempt,
                                                  sha |-> proc[w].sha]}]
      <4>1. [attempt |-> proc[w].attempt, sha |-> proc[w].sha] \in Recorded
        BY <1>1, <1>2, <1>8 DEF RecordPull, Late
      <4> DEFINE e == [ev EXCEPT !.draft = TRUE]
                 q == ev.pull \cup {[attempt |-> proc[w].attempt, sha |-> proc[w].sha]}
      <4>2. e \in Evidence
        BY EvidenceFields DEF TypeOK
      <4>3. q \in SUBSET Recorded
        BY <4>1 DEF TypeOK, Evidence
      <4>4. ev' = [e EXCEPT !.pull = q]
        BY <3>2
      <4> QED BY <4>2, <4>3, <4>4 DEF Evidence
    <3> QED BY <1>8, <3>1, <3>2 DEF RecordPull
  <2>2. [proc[w] EXCEPT !.pc = "ci", !.published = TRUE] \in Process
    BY <1>1, Pc, Counted
  <2>3. proc' \in [Workers -> Process]
    <3>1. ASSUME FailWith(w, "worker_failed") PROVE proc' \in [Workers -> Process]
      BY <1>1, <3>1, Failed
    <3>2. ASSUME proc' = [proc EXCEPT ![w].pc = "ci", ![w].published = TRUE]
          PROVE  proc' \in [Workers -> Process]
      <4>1. proc' = [proc EXCEPT ![w] = [@ EXCEPT !.pc = "ci", !.published = TRUE]]
        BY <3>2 DEF TypeOK
      <4> QED BY <2>2, <4>1, Became
    <3> QED BY <1>8, <3>1, <3>2 DEF RecordPull
  <2> QED BY <1>8, <2>1, <2>3 DEF RecordPull, TypeOK
<1>9. CASE RecordHead(w)
  <2>1. ev' \in Evidence
    <3> DEFINE item == [attempt |-> proc[w].attempt, sha |-> proc[w].sha]
    <3>1. item \in Recorded /\ ev \in Evidence
      BY <1>1, <1>2, <1>9 DEF RecordHead, TypeOK, Late
    <3>2. UNCHANGED ev \/ ev' = [ev EXCEPT !.head = @ \cup {item}]
      BY <1>9 DEF RecordHead
    <3> HIDE DEF item
    <3> QED BY <3>1, <3>2, EvidenceFields
  <2>2. proc' \in [Workers -> Process]
    BY <1>1, <1>9, Moved, Failed DEF RecordHead
  <2> QED BY <1>9, <2>1, <2>2 DEF RecordHead, TypeOK
<1> QED BY <1>3, <1>4, <1>5, <1>6, <1>7, <1>8, <1>9 DEF Publish

LEMMA Ended ==
    ASSUME TypeOK, NEW w \in Workers, proc' = [proc EXCEPT ![w] = Idle]
    PROVE  proc' \in [Workers -> Process] /\ proc'[w] = Idle
             /\ \A v \in Workers \ {w} : proc'[v] = proc[v]
  BY IdleIsAProcess, Became

LEMMA EndTyped ==
    ASSUME TypeOK, Shapes, NEW w \in Workers, End(w)
    PROVE  TypeOK'
<1>1. /\ proc[w] \in Process
      /\ proc[w].pc # "idle" => proc[w].attempt \in Attempt
      /\ proc[w].pc = "ci" => proc[w].sha \in Commit
      /\ {"final", "complete", "edit"} \subseteq Stage
      /\ {"worker_failed", "final"} \subseteq ErrorCode
  BY Typed, RunEvidenceAssumption
     DEF Shapes, Shape, Process, Stage, ErrorCode, Attempt, Late
<1>2. ASSUME NEW result, Observe(w, result) PROVE TypeOK'
  <2>1. github' \in Repository
    BY <1>1, <1>2, RepositoryFields DEF Observe, TypeOK
  <2>2. CASE proc[w].repairs < MaxRepairs /\ proc' = [proc EXCEPT ![w].pc = "edit", ![w].repairs = @ + 1]
    <3>1. proc[w].repairs + 1 \in 0..MaxRepairs
      BY <1>1, <2>2, RunEvidenceAssumption DEF Process
    <3>2. [proc[w] EXCEPT !.pc = "edit", !.repairs = @ + 1] \in Process
      BY <1>1, <3>1, Pc, Counted
    <3>3. proc' \in [Workers -> Process]
      BY <2>2, <3>2, Became DEF TypeOK
    <3> QED BY <1>2, <2>1, <3>3 DEF Observe, TypeOK
  <2>3. CASE Goto(w, "final") \/ FailWith(w, "final") \/ FailWith(w, "worker_failed")
    BY <1>1, <1>2, <2>1, <2>3, Moved, Failed DEF Observe, TypeOK
  <2> QED BY <1>2, <2>2, <2>3 DEF Observe
<1>3. CASE Final(w)
  BY <1>1, <1>3, Moved, Failed DEF Final, TypeOK
<1>4. CASE Complete(w)
  <2>1. CASE FailWith(w, "worker_failed") /\ UNCHANGED <<ev, rec>>
    BY <1>1, <1>4, <2>1, Failed DEF Complete, TypeOK
  <2>2. CASE /\ ev' = [ev EXCEPT !.valid = ev.valid \cup Carried(proc[w].attempt)]
             /\ rec' = [rec EXCEPT !.status = "succeeded", !.live = FALSE, !.holder = None]
             /\ proc' = [proc EXCEPT ![w] = Idle]
    <3>1. rec' \in RunRow
      BY <2>2, RowFields DEF TypeOK
    <3>2. Carried(proc[w].attempt) \subseteq Validation
      BY <1>1, <1>4 DEF Carried, Latest, PassingRounds, TypeOK, Evidence, Validation, Complete
    <3>3. ev.valid \cup Carried(proc[w].attempt) \in SUBSET Validation
      BY <3>2 DEF TypeOK, Evidence
    <3>4. ev' \in Evidence
      BY <2>2, <3>3, EvidenceFields DEF TypeOK
    <3> QED BY <1>4, <2>2, <3>1, <3>4, Ended DEF Complete, TypeOK
  <2> QED BY <1>4, <2>1, <2>2 DEF Complete
<1>5. CASE Fail(w)
  <2>1. rec' \in RunRow
    <3>1. CASE UNCHANGED rec
      BY <3>1 DEF TypeOK
    <3>2. CASE rec' = [rec EXCEPT !.status = "failed", !.live = FALSE, !.holder = None,
                               !.error = proc[w].error,
                               !.retryable = /\ proc[w].error \in Retryable
                                             /\ rec.attempt < MaxAttempts]
      <4>1. rec' = [status |-> "failed", live |-> FALSE, attempt |-> rec.attempt,
                    holder |-> None, base |-> rec.base, branch |-> rec.branch, sha |-> rec.sha,
                    retryable |-> proc[w].error \in Retryable /\ rec.attempt < MaxAttempts,
                    error |-> proc[w].error]
        BY <3>2 DEF TypeOK, RunRow
      <4> QED BY <1>1, <4>1 DEF TypeOK, RunRow, Process
    <3> QED BY <1>5, <3>1, <3>2 DEF Fail
  <2> QED BY <1>5, <2>1, Ended DEF Fail, TypeOK
<1>6. CASE Fault(w)
  BY <1>1, <1>6, Failed, DisksTyped DEF Fault, TypeOK
<1>7. CASE Refused(w)
  BY <1>7, Ended DEF Refused, TypeOK
<1>8. CASE Crash(w)
  BY <1>8, Ended, DisksTyped DEF Crash, TypeOK
<1> QED BY <1>2, <1>3, <1>4, <1>5, <1>6, <1>7, <1>8 DEF End

LEMMA OthersStand ==
    ASSUME TypeOK, NEW w \in Workers, WorkerNext(w)
    PROVE  \A v \in Workers \ {w} : proc'[v] = proc[v] /\ disk'[v] = disk[v]
<1>1. proc \in [Workers -> Process] /\ disk \in [Workers -> Disk]
  BY DEF TypeOK
<1>2. CASE Claim(w) \/ Prepare(w) \/ Replan(w) \/ RecordBranch(w)
  BY <1>1, <1>2 DEF Claim, Prepare, Replan, RecordBranch, Goto, FailWith
<1>3. CASE Build(w)
  BY <1>1, <1>3 DEF Build, Edit, Validate, CommitEdit, Goto, FailWith
<1>4. CASE Publish(w)
  BY <1>1, <1>4 DEF Publish, RecordCommit, AssertActive, Push, Resume, Draft, RecordPull,
                    RecordHead, Goto, FailWith
<1>5. CASE End(w)
  BY <1>1, <1>5 DEF End, Observe, Final, Complete, Fail, Fault, Refused, Crash, Goto, FailWith
<1> QED BY <1>2, <1>3, <1>4, <1>5 DEF WorkerNext

LEMMA ShapesKept ==
    ASSUME TypeOK, Shapes, NEW w \in Workers, WorkerNext(w)
    PROVE  Shapes'
<1> DEFINE p == proc[w]
           q == proc'[w]
<1>0. SUFFICES Shape(q)
  BY OthersStand DEF Shapes
<1>1. /\ proc \in [Workers -> Process] /\ p \in Process
      /\ Shape(p)
  BY DEF TypeOK, Shapes
<1>2. p.round \in Nat /\ p.repairs \in Nat
  BY <1>1, RunEvidenceAssumption DEF Process
<1>3. ASSUME NEW code \in ErrorCode, FailWith(w, code), p.pc # "idle" PROVE Shape(q)
  BY <1>1, <1>3, Failed DEF Alike, Shape, Building, Late
<1>4. CASE proc' = [proc EXCEPT ![w] = Idle]
  <2>1. q = Idle
    BY <1>1, <1>4
  <2> QED BY <2>1 DEF Idle, Shape, Building, Late
<1>5. /\ "final" \in ErrorCode /\ "worker_failed" \in ErrorCode /\ "git_push_failed" \in ErrorCode
      /\ {"branch", "edit", "active", "push", "pushed", "draft", "pull", "head", "ci", "final",
          "complete", "record", "validate"} \subseteq Stage
  BY DEF ErrorCode, Stage
<1>6. CASE Claim(w)
  BY <1>6, Claims, RunEvidenceAssumption DEF Alike, Shape, Building, Late, TypeOK, RunRow
<1>7. CASE Prepare(w)
  <2>1. CASE Goto(w, "branch")
    BY <1>1, <1>5, <1>7, <2>1, Moved DEF Alike, Shape, Building, Late, Prepare
  <2>2. CASE proc' = [proc EXCEPT ![w].pc = "replan", ![w].seen = github.base]
    BY <1>1, <1>7, <2>2 DEF Alike, Shape, Building, Late, Prepare, Process
  <2> QED BY <1>3, <1>5, <1>7, <2>1, <2>2 DEF Prepare
<1>8. CASE Replan(w)
  BY <1>1, <1>3, <1>5, <1>8 DEF Alike, Shape, Building, Late, Replan, Process
<1>9. CASE RecordBranch(w)
  <2>1. CASE Goto(w, "edit")
    BY <1>1, <1>2, <1>5, <1>9, <2>1, Moved DEF Alike, Shape, Building, Late, RecordBranch
  <2>2. CASE proc' = [proc EXCEPT ![w].pc = "resume", ![w].resumed = TRUE,
                                  ![w].sha = disk[w].head]
    BY <1>1, <1>9, <2>2, Trees DEF Alike, Shape, Building, Late, RecordBranch, Process
  <2> QED BY <1>3, <1>5, <1>9, <2>1, <2>2 DEF RecordBranch
<1>10. CASE Build(w)
  <2>1. CASE Edit(w)
    BY <1>1, <1>5, <2>1, Moved DEF Alike, Shape, Building, Late, Edit
  <2>2. ASSUME NEW passed \in BOOLEAN, Validate(w, passed) PROVE Shape(q)
    BY <1>1, <1>2, <2>2 DEF Alike, Shape, Building, Late, Validate, Process
  <2>3. CASE CommitEdit(w)
    <3>1. CASE proc' = [proc EXCEPT ![w].pc = "record", ![w].sha = Tree(w)]
      BY <1>1, <2>3, <3>1, Trees DEF Shape, Building, Late, CommitEdit, Process
    <3> QED BY <1>3, <1>5, <2>3, <3>1 DEF CommitEdit
  <2> QED BY <1>10, <2>1, <2>2, <2>3 DEF Build
<1>11. CASE Publish(w)
  <2>1. CASE RecordCommit(w)
    BY <1>1, <1>5, <2>1, Moved DEF Alike, Shape, Building, Late, RecordCommit
  <2>2. CASE AssertActive(w)
    BY <1>1, <1>3, <1>5, <2>2, Moved DEF Alike, Shape, Building, Late, AssertActive
  <2>3. ASSUME NEW delivered \in BOOLEAN, Push(w, delivered) PROVE Shape(q)
    BY <1>1, <1>3, <1>5, <2>3, Moved DEF Alike, Shape, Building, Late, Push
  <2>4. CASE Resume(w)
    BY <1>1, <1>3, <1>5, <2>4, Moved DEF Alike, Shape, Building, Late, Resume
  <2>5. CASE Draft(w)
    <3>1. CASE Goto(w, AfterDraft(w))
      BY <1>1, <1>5, <2>5, <3>1, Moved DEF Alike, Shape, Building, Late, Draft, AfterDraft
    <3> QED BY <1>3, <1>5, <2>5, <3>1 DEF Draft
  <2>6. CASE RecordPull(w)
    BY <1>1, <1>3, <1>5, <2>6 DEF Alike, Shape, Building, Late, RecordPull, Process
  <2>7. CASE RecordHead(w)
    BY <1>1, <1>3, <1>5, <2>7, Moved DEF Alike, Shape, Building, Late, RecordHead
  <2> QED BY <1>11, <2>1, <2>2, <2>3, <2>4, <2>5, <2>6, <2>7 DEF Publish
<1>12. CASE End(w)
  <2>1. ASSUME NEW result, Observe(w, result) PROVE Shape(q)
    <3>1. CASE proc' = [proc EXCEPT ![w].pc = "edit", ![w].repairs = @ + 1] /\ ~p.resumed
      BY <1>1, <1>2, <3>1 DEF Alike, Shape, Building, Late, Process
    <3>2. CASE Goto(w, "final")
      BY <1>1, <1>5, <2>1, <3>2, Moved DEF Alike, Shape, Building, Late, Observe
    <3> QED BY <1>3, <1>5, <2>1, <3>1, <3>2 DEF Observe
  <2>2. CASE Final(w)
    BY <1>1, <1>3, <1>5, <2>2, Moved DEF Alike, Shape, Building, Late, Final
  <2>3. CASE Complete(w) \/ Fail(w) \/ Fault(w) \/ Refused(w) \/ Crash(w)
    BY <1>3, <1>4, <1>5, <2>3 DEF Complete, Fail, Fault, Refused, Crash
  <2> QED BY <1>12, <2>1, <2>2, <2>3 DEF End
<1> QED BY <1>6, <1>7, <1>8, <1>9, <1>10, <1>11, <1>12 DEF WorkerNext

LEMMA TypesStep ==
    ASSUME TypeOK, Shapes, [Next]_vars
    PROVE  TypeOK' /\ Shapes'
<1>1. CASE UNCHANGED vars
  BY <1>1 DEF vars, TypeOK, Shapes
<1>2. CASE LeaseExpires \/ Sweep \/ Retry \/ MoveBase
  BY <1>2, ControlTyped DEF LeaseExpires, Sweep, Retry, MoveBase, Shapes
<1>3. ASSUME NEW w \in Workers, WorkerNext(w) PROVE TypeOK' /\ Shapes'
  BY <1>3, ShapesKept, Claims, PreparesTyped, ReplansTyped, BranchesTyped, EditsTyped,
     ValidatesTyped, CommitsTyped, PublishTyped, EndTyped DEF WorkerNext, Build
<1> QED BY <1>1, <1>2, <1>3 DEF Next

-----------------------------------------------------------------------------
(* What a step writes.                                                     *)

LEMMA PullWritten ==
    ASSUME TypeOK, NEW w \in Workers, RecordPull(w)
    PROVE  /\ proc[w].pc = "pull" /\ HoldsLease(w) /\ UNCHANGED <<rec, disk, github, edits>>
           /\ \/ FailWith(w, "worker_failed") /\ UNCHANGED ev
              \/ /\ rec.sha = proc[w].sha /\ rec.branch
                 /\ ev'.draft
                 /\ ev'.pull = ev.pull \cup {[attempt |-> proc[w].attempt, sha |-> proc[w].sha]}
                 /\ ev'.branch = ev.branch /\ ev'.commit = ev.commit
                 /\ ev'.head = ev.head /\ ev'.valid = ev.valid
                 /\ proc'[w].pc = "ci" /\ proc'[w].published
                 /\ proc'[w].attempt = proc[w].attempt /\ proc'[w].base = proc[w].base
                 /\ proc'[w].recovery = proc[w].recovery /\ proc'[w].sha = proc[w].sha
                 /\ proc'[w].resumed = proc[w].resumed
<1> DEFINE pull == ev.pull \cup {[attempt |-> proc[w].attempt, sha |-> proc[w].sha]}
<1>1. ev \in Evidence /\ proc \in [Workers -> Process] /\ proc[w] \in Process
  BY DEF TypeOK
<1>2. proc[w].pc = "pull" /\ HoldsLease(w) /\ rec' = rec /\ disk' = disk /\ github' = github
        /\ edits' = edits
  BY DEF RecordPull
<1>3. CASE FailWith(w, "worker_failed") /\ UNCHANGED ev
  BY <1>2, <1>3
<1>4. CASE /\ rec.sha = proc[w].sha /\ rec.branch
           /\ ev' = [ev EXCEPT !.draft = TRUE, !.pull = pull]
           /\ proc' = [proc EXCEPT ![w].pc = "ci", ![w].published = TRUE]
  <2> HIDE DEF pull
  <2>1. /\ ev'.draft /\ ev'.pull = pull
        /\ ev'.branch = ev.branch /\ ev'.commit = ev.commit
        /\ ev'.head = ev.head /\ ev'.valid = ev.valid
    BY <1>1, <1>4 DEF Evidence
  <2>2. /\ proc'[w].pc = "ci" /\ proc'[w].published
        /\ proc'[w].attempt = proc[w].attempt /\ proc'[w].base = proc[w].base
        /\ proc'[w].recovery = proc[w].recovery /\ proc'[w].sha = proc[w].sha
        /\ proc'[w].resumed = proc[w].resumed
    BY <1>1, <1>4 DEF Process
  <2> QED BY <1>2, <1>4, <2>1, <2>2 DEF pull
<1>5. \/ FailWith(w, "worker_failed") /\ UNCHANGED ev
      \/ /\ rec.sha = proc[w].sha /\ rec.branch
         /\ ev' = [ev EXCEPT !.draft = TRUE, !.pull = pull]
         /\ proc' = [proc EXCEPT ![w].pc = "ci", ![w].published = TRUE]
  BY DEF RecordPull
<1> QED BY <1>3, <1>4, <1>5

\* Each part of the record has one writer.
LEMMA Written ==
    ASSUME TypeOK, NEW w \in Workers, WorkerNext(w)
    PROVE  /\ RecordBranch(w) \/ (ev'.branch = ev.branch /\ rec'.branch = rec.branch)
           /\ RecordCommit(w) \/ (ev'.commit = ev.commit /\ rec'.sha = rec.sha)
           /\ RecordPull(w) \/ (ev'.pull = ev.pull /\ ev'.draft = ev.draft)
           /\ Replan(w) \/ rec'.base = rec.base
           /\ Claim(w) \/ rec'.attempt = rec.attempt
           /\ Claim(w) \/ (rec'.live =>
                              rec.live /\ rec'.status = rec.status /\ rec'.holder = rec.holder)
<1>1. rec \in RunRow /\ ev \in Evidence
  BY Typed
<1>2. CASE Claim(w)
  <2>1. UNCHANGED ev /\ rec' = [status |-> "running", live |-> TRUE,
            attempt |-> rec.attempt + 1, holder |-> w, base |-> rec.base,
            branch |-> rec.branch, sha |-> rec.sha, retryable |-> FALSE, error |-> "none"]
    BY <1>2, Claims DEF Claim
  <2>2. rec'.branch = rec.branch /\ rec'.sha = rec.sha /\ rec'.base = rec.base
    BY <2>1
  <2> QED BY <1>2, <2>1, <2>2
<1>3. CASE Prepare(w) \/ Build(w)
  BY <1>1, <1>3 DEF Prepare, Build, Edit, Validate, CommitEdit, Evidence
<1>4. CASE Replan(w) \/ RecordBranch(w)
  BY <1>1, <1>4 DEF Replan, RecordBranch, Evidence, RunRow
<1>5. CASE Publish(w)
  BY <1>1, <1>5 DEF Publish, RecordCommit, AssertActive, Push, Resume, Draft, RecordPull,
                    RecordHead, Evidence, RunRow
<1>6. CASE Complete(w) \/ Fail(w)
  <2>1. CASE Complete(w)
    BY <1>1, <2>1 DEF Complete, RunRow, Evidence
  <2>2. CASE Fail(w)
    BY <1>1, <2>2 DEF Fail, RunRow
  <2> QED BY <1>6, <2>1, <2>2
<1>7. CASE End(w) /\ ~Complete(w) /\ ~Fail(w)
  BY <1>7 DEF End, Observe, Final, Fault, Refused, Crash
<1> QED BY <1>2, <1>3, <1>4, <1>5, <1>6, <1>7 DEF WorkerNext

LEMMA HeadsStand ==
    ASSUME TypeOK, NEW w \in Workers, WorkerNext(w), ~RecordHead(w)
    PROVE  ev'.head = ev.head
<1>1. ev \in Evidence
  BY DEF TypeOK
<1>2. CASE Claim(w) \/ Prepare(w) \/ Replan(w) \/ RecordBranch(w)
  BY <1>1, <1>2 DEF Claim, Prepare, Replan, RecordBranch, Evidence
<1>3. CASE Build(w)
  BY <1>1, <1>3 DEF Build, Edit, Validate, CommitEdit, Evidence
<1>4. CASE Publish(w)
  <2>1. CASE RecordCommit(w)
    BY <1>1, <2>1 DEF RecordCommit, Evidence
  <2>2. CASE RecordPull(w)
    BY <2>2, PullWritten
  <2> QED BY <1>4, <2>1, <2>2 DEF Publish, AssertActive, Push, Resume, Draft
<1>5. CASE End(w)
  BY <1>1, <1>5 DEF End, Observe, Final, Complete, Fail, Fault, Refused, Crash, Evidence
<1> QED BY <1>2, <1>3, <1>4, <1>5 DEF WorkerNext

LEMMA ControlWrites ==
    ASSUME TypeOK, LeaseExpires \/ Sweep \/ Retry \/ MoveBase
    PROVE  /\ UNCHANGED <<ev, disk, proc, edits, github.branch, github.pull, github.green>>
           /\ rec'.branch = rec.branch /\ rec'.sha = rec.sha /\ rec'.base = rec.base
           /\ rec'.attempt = rec.attempt
           /\ rec'.live => rec.live
           /\ rec'.holder = rec.holder \/ rec'.holder = None
           /\ rec'.status = "running" => rec.status = "running"
           /\ rec'.status = "succeeded" => UNCHANGED rec
<1>1. rec \in RunRow /\ github \in Repository
  BY DEF TypeOK
<1>2. CASE LeaseExpires \/ Sweep \/ Retry
  <2>1. CASE LeaseExpires
    BY <1>1, <2>1 DEF LeaseExpires, RunRow
  <2>2. CASE Sweep
    BY <1>1, <2>2 DEF Sweep, RunRow
  <2>3. CASE Retry
    BY <1>1, <2>3 DEF Retry, RunRow
  <2> QED BY <1>2, <2>1, <2>2, <2>3
<1>3. CASE MoveBase
  BY <1>1, <1>3 DEF MoveBase, Repository
<1> QED BY <1>2, <1>3

LEMMA Grows ==
    ASSUME TypeOK, [Next]_vars
    PROVE  /\ ev.branch \subseteq ev'.branch /\ ev.commit \subseteq ev'.commit
           /\ ev.pull \subseteq ev'.pull /\ ev.valid \subseteq ev'.valid
           /\ github.green \subseteq github'.green
           /\ edits <= edits' /\ rec.attempt <= rec'.attempt
<1>1. /\ rec \in RunRow /\ ev \in Evidence /\ github \in Repository
      /\ rec.attempt \in Nat /\ edits \in Nat
  BY RunEvidenceAssumption DEF TypeOK, RunRow
<1>2. CASE UNCHANGED vars
  BY <1>1, <1>2 DEF vars
<1>3. CASE LeaseExpires \/ Sweep \/ Retry \/ MoveBase
  BY <1>1, <1>3, ControlWrites
<1>4. ASSUME NEW w \in Workers, WorkerNext(w)
      PROVE  /\ ev.branch \subseteq ev'.branch /\ ev.commit \subseteq ev'.commit
             /\ ev.pull \subseteq ev'.pull /\ rec.attempt <= rec'.attempt
  <2>1. RecordBranch(w) => ev.branch \subseteq ev'.branch
    BY <1>1 DEF RecordBranch, Evidence
  <2>2. RecordCommit(w) => ev.commit \subseteq ev'.commit
    BY <1>1 DEF RecordCommit, Evidence
  <2>3. RecordPull(w) => ev.pull \subseteq ev'.pull
    BY <1>1 DEF RecordPull, Evidence
  <2>4. Claim(w) => rec.attempt <= rec'.attempt
    BY <1>1, Claims
  <2> QED BY <1>1, <1>4, <2>1, <2>2, <2>3, <2>4, Written
<1>5. ASSUME NEW w \in Workers, WorkerNext(w)
      PROVE  /\ ev.valid \subseteq ev'.valid /\ github.green \subseteq github'.green
             /\ edits <= edits'
  <2>1. CASE Claim(w) \/ Prepare(w) \/ Replan(w) \/ RecordBranch(w)
    BY <1>1, <2>1 DEF Claim, Prepare, Replan, RecordBranch, Evidence
  <2>2. CASE Build(w)
    BY <1>1, <2>2 DEF Build, Edit, Validate, CommitEdit, Evidence
  <2>3. CASE Publish(w)
    <3>1. CASE AssertActive(w) \/ Resume(w)
      BY <1>1, <3>1 DEF AssertActive, Resume
    <3>3. CASE RecordCommit(w) \/ RecordHead(w)
      BY <1>1, <3>3 DEF RecordCommit, RecordHead, Evidence
    <3>4. CASE RecordPull(w)
      BY <1>1, <3>4, PullWritten
    <3>2. CASE Draft(w) \/ \E delivered \in BOOLEAN : Push(w, delivered)
      BY <1>1, <3>2 DEF Draft, Push, Repository
    <3> QED BY <2>3, <3>1, <3>2, <3>3, <3>4 DEF Publish
  <2>4. CASE End(w)
    BY <1>1, <2>4 DEF End, Observe, Final, Complete, Fail, Fault, Refused, Crash, Evidence,
                      Repository
  <2> QED BY <1>5, <2>1, <2>2, <2>3, <2>4 DEF WorkerNext
<1> QED BY <1>2, <1>3, <1>4, <1>5 DEF Next

\* Only the holder of the lease writes to the record.
LEMMA HolderWrites ==
    ASSUME NEW w \in Workers,
           \/ Replan(w) /\ rec' # rec
           \/ RecordBranch(w)
           \/ RecordCommit(w)
           \/ RecordPull(w)
           \/ RecordHead(w)
           \/ Complete(w)
           \/ Fail(w)
    PROVE  HoldsLease(w) /\ proc[w].pc # "idle"
  BY DEF Replan, RecordBranch, RecordCommit, RecordPull, RecordHead, Complete, Fail

\* A process keeps its attempt until it ends.
LEMMA AttemptKept ==
    ASSUME TypeOK, NEW w \in Workers, WorkerNext(w), ~Claim(w)
    PROVE  /\ proc[w].pc # "idle"
           /\ proc'[w].pc # "idle" => proc'[w].attempt = proc[w].attempt
<1>1. proc \in [Workers -> Process] /\ proc[w] \in Process
  BY Typed DEF TypeOK
<1>2. CASE Prepare(w) \/ Replan(w) \/ RecordBranch(w)
  BY <1>1, <1>2 DEF Prepare, Replan, RecordBranch, Goto, FailWith, Process
<1>3. CASE Build(w)
  BY <1>1, <1>3 DEF Build, Edit, Validate, CommitEdit, Goto, FailWith, Process
<1>4. CASE Publish(w)
  BY <1>1, <1>4 DEF Publish, RecordCommit, AssertActive, Push, Resume, Draft, RecordPull,
                    RecordHead, Goto, FailWith, Process
<1>5. CASE End(w)
  BY <1>1, <1>5 DEF End, Observe, Final, Complete, Fail, Fault, Refused, Crash, Goto,
                    FailWith, Process, Idle
<1> QED BY <1>2, <1>3, <1>4, <1>5 DEF WorkerNext

\* How a process gets to a stage.
LEMMA StagesFollow ==
    ASSUME TypeOK, NEW w \in Workers, WorkerNext(w), ~Claim(w), proc'[w].pc # "idle"
    PROVE  LET p == proc[w]
               q == proc'[w]
           IN  /\ ~q.published => ~p.published
               /\ q.pc \in Building \cup Late \cup {"resume", "record"} =>
                     p.pc \in Building \cup Late \cup {"resume", "record", "branch"}
               /\ p.pc = "branch" => RecordBranch(w) \/ q.pc = "failing"
<1>1. proc \in [Workers -> Process] /\ proc[w] \in Process
  BY DEF TypeOK
<1>2. CASE Prepare(w) \/ Replan(w) \/ RecordBranch(w)
  BY <1>1, <1>2 DEF Prepare, Replan, RecordBranch, Goto, FailWith, Process, Building, Late
<1>3. CASE Build(w)
  BY <1>1, <1>3 DEF Build, Edit, Validate, CommitEdit, Goto, FailWith, Process, Building
<1>4. CASE Publish(w)
  BY <1>1, <1>4 DEF Publish, RecordCommit, AssertActive, Push, Resume, Draft, RecordPull,
                    RecordHead, Goto, FailWith, Process, Late, Building
<1>5. CASE End(w)
  BY <1>1, <1>5 DEF End, Observe, Final, Complete, Fail, Fault, Refused, Crash, Goto,
                    FailWith, Process, Late, Building, Idle
<1> QED BY <1>2, <1>3, <1>4, <1>5 DEF WorkerNext

\* Nobody gets a lease but by a claim.
LEMMA LeaseKept ==
    ASSUME TypeOK, [Next]_vars, NEW w \in Workers, HoldsLease(w)', proc'[w].pc # "idle"
    PROVE  Claim(w) \/ (HoldsLease(w) /\ proc[w].pc # "idle")
<1>1. CASE UNCHANGED vars
  BY <1>1 DEF vars, HoldsLease
<1>2. CASE LeaseExpires \/ Sweep \/ Retry \/ MoveBase
  <2>1. w # None
    BY RunEvidenceAssumption
  <2> QED BY <1>2, <2>1, ControlWrites DEF HoldsLease
<1>3. CASE WorkerNext(w) /\ ~Claim(w)
  BY <1>3, Written, AttemptKept DEF HoldsLease
<1>4. ASSUME NEW v \in Workers \ {w}, WorkerNext(v) PROVE HoldsLease(w) /\ proc[w].pc # "idle"
  <2>1. proc'[w] = proc[w]
    BY <1>4, OthersStand
  <2>2. ~Claim(v)
    BY Claims DEF HoldsLease
  <2> QED BY <1>4, <2>1, <2>2, Written DEF HoldsLease
<1> QED BY <1>1, <1>2, <1>3, <1>4 DEF Next

-----------------------------------------------------------------------------
(* The row, the evidence and who made it.                                  *)

LEMMA RowKnowsStep ==
    ASSUME TypeOK, Shapes, RowKnows, AttemptsApart, [Next]_vars
    PROVE  RowKnows'
<1> DEFINE Same == /\ ev'.branch = ev.branch /\ ev'.commit = ev.commit /\ ev'.pull = ev.pull
                   /\ ev'.draft = ev.draft /\ rec'.branch = rec.branch /\ rec'.sha = rec.sha
<1>1. /\ rec \in RunRow /\ ev \in Evidence
      /\ rec.attempt \in Nat /\ rec'.attempt \in Nat /\ rec.attempt <= rec'.attempt
      /\ \A a \in ev.branch : a \in Nat
  <2>1. rec \in RunRow /\ ev \in Evidence /\ rec' \in RunRow
    BY TypesStep DEF TypeOK
  <2>2. rec.attempt \in Nat /\ rec'.attempt \in Nat
    BY <2>1, RunEvidenceAssumption DEF RunRow
  <2>3. \A a \in ev.branch : a \in Nat
    BY <2>1, RunEvidenceAssumption DEF Evidence, Attempt
  <2> QED BY <2>1, <2>2, <2>3, Grows
<1>2. CASE Same
  BY <1>1, <1>2 DEF RowKnows, RecordedIn
<1>3. ASSUME NEW w \in Workers, RecordBranch(w) PROVE RowKnows'
  <2>1. /\ ev'.branch = ev.branch \cup {proc[w].attempt} /\ ev'.commit = ev.commit
        /\ ev'.pull = ev.pull /\ ev'.draft = ev.draft /\ rec'.branch /\ rec'.sha = rec.sha
        /\ proc[w].attempt = rec.attempt
    BY <1>1, <1>3 DEF RecordBranch, Evidence, RunRow, HoldsLease
  <2> QED BY <1>1, <2>1 DEF RowKnows, RecordedIn
<1>4. ASSUME NEW w \in Workers, RecordCommit(w) PROVE RowKnows'
  <2>1. /\ ev'.branch = ev.branch /\ ev'.pull = ev.pull /\ ev'.draft = ev.draft
        /\ ev'.commit = ev.commit \cup {[attempt |-> proc[w].attempt, sha |-> proc[w].sha]}
        /\ rec'.branch = rec.branch /\ rec'.sha = proc[w].sha
    BY <1>1, <1>4 DEF RecordCommit, Evidence, RunRow
  <2>2. proc[w].sha # None /\ proc[w].attempt \in ev.branch
    BY <1>4 DEF RecordCommit, Shapes, Shape, AttemptsApart, Late
  <2> DEFINE item == [attempt |-> proc[w].attempt, sha |-> proc[w].sha]
  <2>3. item.attempt \in ev.branch /\ item.sha = rec'.sha /\ ev'.commit = ev.commit \cup {item}
    BY <2>1, <2>2
  <2> HIDE DEF item
  <2> QED BY <1>1, <2>1, <2>2, <2>3 DEF RowKnows, RecordedIn
<1>5. ASSUME NEW w \in Workers, RecordPull(w) PROVE RowKnows'
  <2>1. CASE UNCHANGED <<ev, rec>>
    BY <1>2, <2>1
  <2>2. proc[w].sha # None /\ proc[w].attempt \in ev.branch
    BY <1>5, PullWritten DEF Shapes, Shape, AttemptsApart, Late
  <2>3. CASE /\ rec.sha = proc[w].sha /\ ev'.draft
             /\ ev'.pull = ev.pull \cup {[attempt |-> proc[w].attempt, sha |-> proc[w].sha]}
             /\ ev'.branch = ev.branch /\ ev'.commit = ev.commit /\ rec' = rec
    <3> DEFINE item == [attempt |-> proc[w].attempt, sha |-> proc[w].sha]
    <3>1. item.attempt \in ev.branch /\ ev'.pull = ev.pull \cup {item}
      BY <2>2, <2>3
    <3> HIDE DEF item
    <3> QED BY <1>1, <2>2, <2>3, <3>1 DEF RowKnows, RecordedIn
  <2> QED BY <1>5, <2>1, <2>3, PullWritten
<1>6. Same \/ \E w \in Workers : RecordBranch(w) \/ RecordCommit(w) \/ RecordPull(w)
  <2>1. CASE UNCHANGED vars
    BY <2>1 DEF vars
  <2>2. CASE LeaseExpires \/ Sweep \/ Retry \/ MoveBase
    BY <2>2, ControlWrites
  <2>3. ASSUME NEW w \in Workers, WorkerNext(w)
        PROVE  Same \/ RecordBranch(w) \/ RecordCommit(w) \/ RecordPull(w)
    BY <2>3, Written
  <2> QED BY <2>1, <2>2, <2>3 DEF Next
<1> QED BY <1>2, <1>3, <1>4, <1>5, <1>6

LEMMA AttemptsApartStep ==
    ASSUME TypeOK, Shapes, RowKnows, AttemptsApart, [Next]_vars
    PROVE  AttemptsApart'
<1>1. /\ rec.attempt \in Nat /\ rec'.attempt \in Nat /\ rec.attempt <= rec'.attempt
      /\ ev.branch \subseteq ev'.branch
      /\ \A w \in Workers : proc[w].attempt \in Nat
  <2>1. rec \in RunRow /\ rec' \in RunRow /\ \A w \in Workers : proc[w] \in Process
    BY TypesStep DEF TypeOK
  <2> QED BY <2>1, Grows, RunEvidenceAssumption DEF RunRow, Process
<1>2. CASE UNCHANGED vars \/ LeaseExpires \/ Sweep \/ Retry \/ MoveBase
  <2>1. UNCHANGED <<proc, ev>>
    BY <1>2, ControlWrites DEF vars
  <2> QED BY <1>1, <2>1 DEF AttemptsApart, InAttempt
<1>3. ASSUME NEW w \in Workers, WorkerNext(w) PROVE AttemptsApart'
  <2> DEFINE p == proc[w]
             q == proc'[w]
  <2>1. \A v \in Workers \ {w} : proc'[v] = proc[v]
    BY <1>3, OthersStand
  <2>2. q.pc # "idle" =>
           /\ q.attempt <= rec'.attempt
           /\ \A v \in Workers \ {w} : proc[v].pc # "idle" => proc[v].attempt # q.attempt
    <3>1. CASE Claim(w)
      BY <1>1, <3>1, Claims DEF AttemptsApart
    <3> QED BY <1>1, <1>3, <3>1, AttemptKept DEF AttemptsApart
  <2>3. q.pc \in Building \cup Late \cup {"resume", "record"} => q.attempt \in ev'.branch
    <3>1. CASE RecordBranch(w)
      <4>1. ev'.branch = ev.branch \cup {p.attempt}
        BY <3>1 DEF RecordBranch, TypeOK, Evidence
      <4> QED BY <1>3, <3>1, <4>1, AttemptKept, Claims DEF RecordBranch, Building, Late
    <3>2. CASE ~RecordBranch(w)
      <4>1. /\ q.pc \in Building \cup Late \cup {"resume", "record"}
            => p.pc \in Building \cup Late \cup {"resume", "record"} /\ ~Claim(w)
        BY <1>3, <3>2, StagesFollow, Claims DEF Building, Late
      <4> QED BY <1>1, <1>3, <4>1, AttemptKept DEF AttemptsApart, Building, Late
    <3> QED BY <3>1, <3>2
  <2>4. q.pc # "idle" /\ ~q.published /\ ~Claim(w) => ~p.published
    BY <1>3, StagesFollow
  <2>5. CASE ev'.pull = ev.pull
    <3>1. q.pc # "idle" /\ ~q.published => InAttempt(ev.pull, q.attempt) = {}
      <4>1. CASE Claim(w)
        BY <1>1, <4>1, Claims DEF RowKnows, InAttempt
      <4> QED BY <1>3, <2>4, <4>1, AttemptKept DEF AttemptsApart
    <3> QED BY <1>1, <2>1, <2>2, <2>3, <2>5, <3>1 DEF AttemptsApart
  <2>6. CASE RecordPull(w) /\ q.published
    <3> DEFINE item == [attempt |-> p.attempt, sha |-> p.sha]
    <3>1. item.attempt = p.attempt /\ q.attempt = p.attempt /\ p.pc = "pull"
      BY <1>3, <2>6, PullWritten, AttemptKept, Claims, Failed DEF ErrorCode, Alike
    <3>2. ev'.pull = ev.pull \/ ev'.pull = ev.pull \cup {item}
      BY <2>6, PullWritten
    <3>3. InAttempt(ev.pull, p.attempt) = {}
      BY <3>1 DEF AttemptsApart, Shapes, Shape
    <3> HIDE DEF item
    <3>4. \A i, j \in ev'.pull : i.attempt = j.attempt => i = j
      BY <3>1, <3>2, <3>3 DEF AttemptsApart, InAttempt
    <3>5. \A v \in Workers \ {w} : proc[v].pc # "idle" /\ ~proc[v].published =>
             InAttempt(ev'.pull, proc[v].attempt) = {}
      BY <2>2, <3>1, <3>2 DEF AttemptsApart, InAttempt
    <3> QED BY <1>1, <2>1, <2>2, <2>3, <2>6, <3>4, <3>5 DEF AttemptsApart
  <2> QED BY <1>3, <2>5, <2>6, Written, PullWritten
<1> QED BY <1>2, <1>3 DEF Next

\* What a process takes along, and which step brings it to a stage.
LEMMA FieldsFollow ==
    ASSUME TypeOK, NEW w \in Workers, WorkerNext(w), ~Claim(w), proc'[w].pc # "idle"
    PROVE  LET p == proc[w]
               q == proc'[w]
           IN  /\ q.base = p.base \/ (Replan(w) /\ q.pc = "prepare")
               /\ q.recovery = p.recovery
               /\ \/ q.resumed = p.resumed /\ q.sha = p.sha
                  \/ CommitEdit(w) /\ q.pc = "record" /\ q.sha = Tree(w) /\ q.resumed = p.resumed
                  \/ RecordBranch(w) /\ q.pc = "resume" /\ q.sha = disk[w].head
                       /\ p.recovery = disk[w].head
<1>1. proc \in [Workers -> Process] /\ proc[w] \in Process
  BY DEF TypeOK
<1>2. CASE Prepare(w) \/ Replan(w) \/ RecordBranch(w)
  BY <1>1, <1>2 DEF Prepare, Replan, RecordBranch, Goto, FailWith, Process
<1>3. CASE Build(w)
  BY <1>1, <1>3 DEF Build, Edit, Validate, CommitEdit, Goto, FailWith, Process
<1>4. CASE Publish(w)
  BY <1>1, <1>4 DEF Publish, RecordCommit, AssertActive, Push, Resume, Draft, RecordPull,
                    RecordHead, Goto, FailWith, Process
<1>5. CASE End(w)
  BY <1>1, <1>5 DEF End, Observe, Final, Complete, Fail, Fault, Refused, Crash, Goto,
                    FailWith, Process, Idle
<1> QED BY <1>2, <1>3, <1>4, <1>5 DEF WorkerNext

\* The stage each step is taken at and those it leads to.
LEMMA Diagram ==
    ASSUME TypeOK, NEW w \in Workers
    PROVE  LET p == proc[w]
               q == proc'[w]
           IN  /\ Prepare(w) => p.pc = "prepare" /\ q.pc \in {"branch", "replan", "failing"}
               /\ Replan(w) => p.pc = "replan" /\ q.pc \in {"prepare", "failing"}
               /\ RecordBranch(w) => p.pc = "branch" /\ q.pc \in {"resume", "edit", "failing"}
               /\ Edit(w) => p.pc = "edit" /\ q.pc = "validate"
               /\ \A passed \in BOOLEAN : Validate(w, passed) =>
                     /\ p.pc = "validate" /\ q.pc \in {"commit", "edit", "failing"}
                     /\ q.pc = "commit" => passed
               /\ CommitEdit(w) => p.pc = "commit" /\ q.pc \in {"record", "failing"}
               /\ RecordCommit(w) => p.pc = "record" /\ q.pc \in {"pull", "active"}
                                       /\ (q.pc = "active" => ~p.resumed)
               /\ AssertActive(w) => \/ p.pc = "active" /\ q.pc \in {"push", "failing"}
                                     \/ p.pc = "pushed" /\ q.pc \in {"draft", "failing"}
               /\ \A delivered : Push(w, delivered) =>
                     p.pc = "push" /\ q.pc \in {"pushed", "failing"}
               /\ Resume(w) => p.pc = "resume" /\ q.pc \in {"draft", "failing"}
               /\ Draft(w) => /\ p.pc = "draft" /\ q.pc \in {"record", "pull", "head", "failing"}
                              /\ q.pc = "record" => p.resumed
               /\ RecordPull(w) => p.pc = "pull" /\ q.pc \in {"ci", "failing"}
               /\ RecordHead(w) => p.pc = "head" /\ q.pc \in {"ci", "failing"}
               /\ \A result : Observe(w, result) =>
                     /\ p.pc = "ci" /\ q.pc \in {"final", "edit", "failing"}
                     /\ q.pc = "final" => result = "passed"
                     /\ q.pc = "edit" => ~p.resumed
               /\ Final(w) => p.pc = "final" /\ q.pc \in {"complete", "failing"}
               /\ Complete(w) => p.pc = "complete" /\ q.pc \in {"idle", "failing"}
               /\ Fail(w) \/ Fault(w) \/ Refused(w) \/ Crash(w) =>
                     p.pc # "idle" /\ q.pc \in {"idle", "failing"}
<1> DEFINE p == proc[w]
           q == proc'[w]
<1>1. proc \in [Workers -> Process] /\ p \in Process
  BY DEF TypeOK
<1>2. \A s : Goto(w, s) => q.pc = s
  BY <1>1 DEF Goto, Process
<1>3. \A code : FailWith(w, code) => q.pc = "failing"
  BY <1>1 DEF FailWith, Process
<1>4. proc' = [proc EXCEPT ![w] = Idle] => q.pc = "idle"
  BY <1>1 DEF Idle
<1>5. Prepare(w) => p.pc = "prepare" /\ q.pc \in {"branch", "replan", "failing"}
  BY <1>1, <1>2, <1>3 DEF Prepare, Process
<1>6. Replan(w) => p.pc = "replan" /\ q.pc \in {"prepare", "failing"}
  BY <1>1, <1>3 DEF Replan, Process
<1>7. RecordBranch(w) => p.pc = "branch" /\ q.pc \in {"resume", "edit", "failing"}
  BY <1>1, <1>2, <1>3 DEF RecordBranch, Process
<1>8. Edit(w) => p.pc = "edit" /\ q.pc = "validate"
  BY <1>2 DEF Edit
<1>9. ASSUME NEW passed \in BOOLEAN, Validate(w, passed)
      PROVE  /\ p.pc = "validate" /\ q.pc \in {"commit", "edit", "failing"}
             /\ q.pc = "commit" => passed
  BY <1>1, <1>9 DEF Validate, Process
<1>10. CommitEdit(w) => p.pc = "commit" /\ q.pc \in {"record", "failing"}
  BY <1>1, <1>3 DEF CommitEdit, Process
<1>11. RecordCommit(w) => p.pc = "record" /\ q.pc \in {"pull", "active"}
                            /\ (q.pc = "active" => ~p.resumed)
  BY <1>2 DEF RecordCommit
<1>12. AssertActive(w) => \/ p.pc = "active" /\ q.pc \in {"push", "failing"}
                          \/ p.pc = "pushed" /\ q.pc \in {"draft", "failing"}
  BY <1>2, <1>3 DEF AssertActive
<1>13. ASSUME NEW delivered, Push(w, delivered)
       PROVE  p.pc = "push" /\ q.pc \in {"pushed", "failing"}
  BY <1>2, <1>3, <1>13 DEF Push
<1>14. Resume(w) => p.pc = "resume" /\ q.pc \in {"draft", "failing"}
  BY <1>2, <1>3 DEF Resume
<1>15. Draft(w) => /\ p.pc = "draft" /\ q.pc \in {"record", "pull", "head", "failing"}
                   /\ q.pc = "record" => p.resumed
  BY <1>2, <1>3 DEF Draft, AfterDraft
<1>16. RecordPull(w) => p.pc = "pull" /\ q.pc \in {"ci", "failing"}
  BY <1>3, PullWritten
<1>17. RecordHead(w) => p.pc = "head" /\ q.pc \in {"ci", "failing"}
  BY <1>2, <1>3 DEF RecordHead
<1>18. ASSUME NEW result, Observe(w, result)
       PROVE  /\ p.pc = "ci" /\ q.pc \in {"final", "edit", "failing"}
              /\ q.pc = "final" => result = "passed"
              /\ q.pc = "edit" => ~p.resumed
  <2>1. proc' = [proc EXCEPT ![w].pc = "edit", ![w].repairs = @ + 1] => q.pc = "edit"
    BY <1>1 DEF Process
  <2> QED BY <1>2, <1>3, <1>18, <2>1 DEF Observe
<1>19. Final(w) => p.pc = "final" /\ q.pc \in {"complete", "failing"}
  BY <1>2, <1>3 DEF Final
<1>20. Complete(w) => p.pc = "complete" /\ q.pc \in {"idle", "failing"}
  BY <1>3, <1>4 DEF Complete
<1>21. Fail(w) \/ Fault(w) \/ Refused(w) \/ Crash(w) =>
          p.pc # "idle" /\ q.pc \in {"idle", "failing"}
  BY <1>3, <1>4 DEF Fail, Fault, Refused, Crash
<1> QED BY <1>5, <1>6, <1>7, <1>8, <1>9, <1>10, <1>11, <1>12, <1>13, <1>14, <1>15, <1>16,
           <1>17, <1>18, <1>19, <1>20, <1>21

LEMMA StepsTo ==
    ASSUME TypeOK, NEW w \in Workers, WorkerNext(w), ~Claim(w), proc'[w].pc # "idle"
    PROVE  LET p == proc[w]
               q == proc'[w]
           IN  /\ q.pc \in {"prepare", "replan", "branch"} => p.pc \in {"prepare", "replan"}
               /\ q.pc = "branch" => Prepare(w)
               /\ q.pc \in Building =>
                     \/ p.pc \in Building
                     \/ RecordBranch(w)
                     \/ p.pc = "ci" /\ ~p.resumed
               /\ q.pc = "commit" => Validate(w, TRUE)
               /\ q.pc = "resume" => RecordBranch(w)
               /\ q.pc = "record" => CommitEdit(w) \/ (p.pc = "draft" /\ p.resumed)
               /\ q.pc \in Late => p.pc \in Late \/ RecordCommit(w) \/ Resume(w)
               /\ q.pc \in {"active", "push"} => p.pc = "active" \/ (RecordCommit(w) /\ ~p.resumed)
               /\ q.pc \in {"final", "complete"} => Final(w) \/ Observe(w, "passed")
               /\ q.pc = "complete" => Final(w)
<1>1. CASE Prepare(w) \/ Replan(w) \/ RecordBranch(w)
  BY <1>1, Diagram DEF Building, Late
<1>2. CASE Build(w)
  BY <1>2, Diagram DEF Build, Building, Late
<1>3. CASE Publish(w)
  BY <1>3, Diagram DEF Publish, Building, Late
<1>4. CASE End(w)
  BY <1>4, Diagram DEF End, Building, Late
<1> QED BY <1>1, <1>2, <1>3, <1>4 DEF WorkerNext

\* A disk changes under a preparation, an edit and a commit.
LEMMA DisksStand ==
    ASSUME TypeOK, NEW w \in Workers, WorkerNext(w)
    PROVE  \/ disk'[w] = disk[w]
           \/ Prepare(w) \/ Edit(w) \/ CommitEdit(w)
           \/ disk'[w] = BegunDisk(w) /\ proc'[w].pc \in {"idle", "failing"}
<1>1. /\ proc \in [Workers -> Process] /\ disk \in [Workers -> Disk]
      /\ proc[w] \in Process
  BY DEF TypeOK
<1>2. CASE Fault(w) \/ Crash(w)
  BY <1>1, <1>2 DEF Fault, Crash, LeftOnDisk, FailWith, Idle, Process
<1>3. CASE Claim(w) \/ Replan(w) \/ RecordBranch(w) \/ \E passed \in BOOLEAN : Validate(w, passed)
  BY <1>3 DEF Claim, Replan, RecordBranch, Validate
<1>4. CASE Publish(w)
  BY <1>4 DEF Publish, RecordCommit, AssertActive, Push, Resume, Draft, RecordPull, RecordHead
<1>5. CASE End(w) /\ ~Fault(w) /\ ~Crash(w)
  BY <1>5 DEF End, Observe, Final, Complete, Fail, Refused
<1> QED BY <1>2, <1>3, <1>4, <1>5 DEF WorkerNext, Build

LEMMA ResumesItsHead ==
    ASSUME TypeOK, NEW w \in Workers, RecordBranch(w), proc'[w].pc = "resume"
    PROVE  proc'[w].sha = disk[w].head /\ proc[w].recovery = disk[w].head /\ proc'[w].resumed
<1>1. proc \in [Workers -> Process] /\ proc[w] \in Process
  BY DEF TypeOK
<1> QED BY <1>1 DEF RecordBranch, Goto, FailWith, Process

LEMMA HolderKnowsStep ==
    ASSUME TypeOK, Shapes, HolderKnows, [Next]_vars
    PROVE  HolderKnows'
<1> SUFFICES ASSUME NEW w \in Workers, HoldsLease(w)', proc'[w].pc # "idle"
             PROVE  LET q == proc'[w] IN
                    /\ q.base = rec'.base
                    /\ q.pc \in {"prepare", "replan", "branch"} => q.recovery \in {None, rec'.sha}
                    /\ q.pc \in Late \cup {"resume"} => q.sha = rec'.sha
                    /\ q.pc = "record" /\ q.resumed => q.sha = rec'.sha
  BY DEF HolderKnows
<1> DEFINE p == proc[w]
           q == proc'[w]
<1>1. CASE Claim(w)
  BY <1>1, Claims DEF Late
<1>2. CASE ~Claim(w)
  <2>1. HoldsLease(w) /\ p.pc # "idle"
    BY <1>2, LeaseKept
  <2>2. /\ p.base = rec.base
        /\ p.pc \in {"prepare", "replan", "branch"} => p.recovery \in {None, rec.sha}
        /\ p.pc \in Late \cup {"resume"} => p.sha = rec.sha
        /\ p.pc = "record" /\ p.resumed => p.sha = rec.sha
    BY <2>1 DEF HolderKnows
  <2>3. CASE rec'.base = rec.base /\ rec'.sha = rec.sha /\ q = p
    BY <2>2, <2>3
  <2>4. CASE UNCHANGED vars \/ LeaseExpires \/ Sweep \/ Retry \/ MoveBase
    BY <2>3, <2>4, ControlWrites DEF vars
  <2>5. ASSUME NEW v \in Workers \ {w}, WorkerNext(v) PROVE UNCHANGED <<rec.base, rec.sha, proc[w]>>
    <3>1. ~HoldsLease(v)
      BY <2>1 DEF HoldsLease
    <3> QED BY <2>5, <3>1, OthersStand, Written, HolderWrites
  <2>6. CASE WorkerNext(w)
    <3>1. CASE RecordCommit(w)
      <4>1. /\ q.pc \in {"pull", "active"} /\ q.sha = p.sha /\ q.base = p.base
            /\ rec'.base = rec.base /\ rec'.sha = p.sha
        BY <1>2, <2>6, <3>1, Moved, FieldsFollow, Written DEF RecordCommit, Stage, TypeOK, RunRow
      <4> QED BY <2>2, <4>1
    <3>2. CASE Replan(w)
      <4>1. p.pc = "replan" /\ q.pc \in {"prepare", "failing"} /\ q.recovery = p.recovery
              /\ rec'.sha = rec.sha /\ q.base = rec'.base
        BY <2>2, <3>2 DEF Replan, FailWith, TypeOK, Process, RunRow
      <4> QED BY <2>2, <4>1 DEF Late
    <3>3. CASE ~RecordCommit(w) /\ ~Replan(w)
      <4>1. rec'.base = rec.base /\ rec'.sha = rec.sha /\ q.base = p.base
              /\ q.recovery = p.recovery
        BY <1>2, <2>6, <3>3, Written, FieldsFollow
      <4>2. q.pc = "resume" => q.sha = rec'.sha
        <5>1. disk[w].head # None
          BY Trees
        <5>2. q.pc = "resume" => RecordBranch(w) /\ p.pc = "branch"
          BY <1>2, <2>6, StepsTo, Diagram
        <5>3. q.pc = "resume" => q.sha = disk[w].head /\ p.recovery = disk[w].head
          BY <5>2, ResumesItsHead
        <5> QED BY <2>2, <4>1, <5>1, <5>2, <5>3
      <4>3. q.pc \in Late => q.sha = rec'.sha
        BY <1>2, <2>2, <2>6, <3>3, <4>1, StepsTo, FieldsFollow DEF Late, Resume
      <4>4. q.pc = "record" /\ q.resumed => q.sha = rec'.sha
        BY <1>2, <2>2, <2>6, <3>3, <4>1, StepsTo, FieldsFollow
           DEF Late, Building, CommitEdit, RecordBranch, Shapes, Shape
      <4>5. q.pc \in {"prepare", "replan", "branch"} => q.recovery \in {None, rec'.sha}
        BY <1>2, <2>2, <2>6, <4>1, StepsTo
      <4> QED BY <2>2, <4>1, <4>2, <4>3, <4>4, <4>5
    <3> QED BY <3>1, <3>2, <3>3
  <2> QED BY <2>3, <2>4, <2>5, <2>6 DEF Next
<1> QED BY <1>1, <1>2

-----------------------------------------------------------------------------
(* The branch on GitHub, the workspace, and what was validated.            *)

LEMMA RepositoryFollows ==
    ASSUME TypeOK, NEW w \in Workers, WorkerNext(w)
    PROVE  /\ \/ github'.branch = github.branch
              \/ /\ proc[w].pc = "push" /\ github'.branch = proc[w].sha
                 /\ github.branch # None => IsPrefix(github.branch, proc[w].sha)
           /\ github.pull # None => github'.pull = github.pull
<1>1. github \in Repository
  BY DEF TypeOK
<1>2. CASE Claim(w) \/ Prepare(w) \/ Replan(w) \/ RecordBranch(w)
  BY <1>2 DEF Claim, Prepare, Replan, RecordBranch
<1>3. CASE Build(w)
  BY <1>3 DEF Build, Edit, Validate, CommitEdit
<1>4. CASE Publish(w)
  <2>1. CASE RecordCommit(w) \/ AssertActive(w) \/ Resume(w) \/ RecordPull(w) \/ RecordHead(w)
    BY <2>1 DEF RecordCommit, AssertActive, Resume, RecordPull, RecordHead
  <2>2. CASE Draft(w)
    BY <1>1, <2>2 DEF Draft, Repository
  <2>3. ASSUME NEW delivered \in BOOLEAN, Push(w, delivered)
        PROVE  /\ \/ github'.branch = github.branch
                  \/ /\ proc[w].pc = "push" /\ github'.branch = proc[w].sha
                     /\ github.branch # None => IsPrefix(github.branch, proc[w].sha)
               /\ github'.pull = github.pull
    BY <1>1, <2>3 DEF Push, Repository
  <2> QED BY <1>4, <2>1, <2>2, <2>3 DEF Publish
<1>5. CASE End(w)
  <2>1. ASSUME NEW result, Observe(w, result)
        PROVE  github'.branch = github.branch /\ github'.pull = github.pull
    <3> DEFINE green == github.green \cup {proc[w].sha}
    <3>1. UNCHANGED github \/ github' = [github EXCEPT !.green = green]
      BY <2>1 DEF Observe
    <3> HIDE DEF green
    <3> QED BY <1>1, <3>1 DEF Repository
  <2>2. CASE Final(w) \/ Complete(w) \/ Fail(w) \/ Fault(w) \/ Refused(w) \/ Crash(w)
    BY <2>2 DEF Final, Complete, Fail, Fault, Refused, Crash
  <2> QED BY <1>5, <2>1, <2>2 DEF End
<1> QED BY <1>2, <1>3, <1>4, <1>5 DEF WorkerNext

LEMMA PushesAreRecordedStep ==
    ASSUME TypeOK, Shapes, PushesAreRecorded, [Next]_vars
    PROVE  PushesAreRecorded'
<1>1. ev.commit \subseteq ev'.commit
  BY Grows
<1>2. \A sha : RecordedIn(ev.commit, sha) => RecordedIn(ev'.commit, sha)
  BY <1>1 DEF RecordedIn
<1>3. CASE UNCHANGED vars \/ LeaseExpires \/ Sweep \/ Retry \/ MoveBase
  <2>1. UNCHANGED <<ev, proc, github.branch>>
    BY <1>3, ControlWrites DEF vars
  <2> QED BY <2>1 DEF PushesAreRecorded, PushedIsRecorded
<1>4. ASSUME NEW w \in Workers, WorkerNext(w) PROVE PushesAreRecorded'
  <2>1. PushedIsRecorded'
    BY <1>2, <1>4, RepositoryFollows DEF PushesAreRecorded, PushedIsRecorded
  <2>2. proc'[w].pc \in {"active", "push"} => RecordedIn(ev'.commit, proc'[w].sha)
    <3>1. CASE RecordCommit(w)
      <4> DEFINE item == [attempt |-> proc[w].attempt, sha |-> proc[w].sha]
                 commit == ev.commit \cup {item}
      <4>1. ev' = [ev EXCEPT !.commit = commit]
        BY <3>1 DEF RecordCommit
      <4>2. ev'.commit = commit
        <5> HIDE DEF commit
        <5> QED BY <4>1 DEF TypeOK, Evidence
      <4>3. item.sha = proc[w].sha /\ item \in ev'.commit
        BY <4>2
      <4>4. proc'[w].pc \in {"active", "push"} => proc'[w].sha = proc[w].sha
        BY <1>4, <3>1, FieldsFollow, Claims, Diagram
      <4> HIDE DEF item
      <4> QED BY <4>3, <4>4 DEF RecordedIn
    <3>2. CASE ~RecordCommit(w) /\ proc'[w].pc \in {"active", "push"}
      <4>1. ~Claim(w)
        BY <3>2, Claims
      <4>2. proc[w].pc = "active" /\ proc'[w].sha = proc[w].sha
        BY <1>4, <3>2, <4>1, StepsTo, FieldsFollow
      <4> QED BY <1>2, <4>2 DEF PushesAreRecorded
    <3> QED BY <3>1, <3>2
  <2> QED BY <1>2, <1>4, <2>1, <2>2, OthersStand DEF PushesAreRecorded
<1> QED BY <1>3, <1>4 DEF Next

\* Steps that are neither a preparation, an edit nor a commit leave the disk of a
\* process that goes on as it is.
LEMMA DiskKept ==
    ASSUME TypeOK, NEW w \in Workers, WorkerNext(w), proc'[w].pc \notin {"idle", "failing"},
           proc'[w].pc \notin {"branch", "validate", "replan"},
           proc'[w].pc = "record" => proc[w].resumed, Shapes
    PROVE  disk'[w] = disk[w]
<1>1. ~Prepare(w) /\ ~Edit(w)
  BY Diagram
<1>2. ~CommitEdit(w)
  BY Diagram DEF Shapes, Shape, Building
<1> QED BY <1>1, <1>2, DisksStand

LEMMA WorkspaceKnowsStep ==
    ASSUME TypeOK, Shapes, WorkspaceKnows, NumbersApart, [Next]_vars
    PROVE  WorkspaceKnows'
<1>1. CASE UNCHANGED vars \/ LeaseExpires \/ Sweep \/ Retry \/ MoveBase
  <2>1. UNCHANGED <<proc, disk>>
    BY <1>1, ControlWrites DEF vars
  <2> QED BY <2>1 DEF WorkspaceKnows
<1>2. ASSUME NEW w \in Workers, WorkerNext(w) PROVE WorkspaceKnows'
  <2> DEFINE p == proc[w]
             q == proc'[w]
  <2>1. CASE Claim(w)
    BY <1>2, <2>1, OthersStand, Claims DEF WorkspaceKnows, Late
  <2>2. CASE q.pc = "idle"
    BY <1>2, <2>2, OthersStand DEF WorkspaceKnows, Late
  <2>3. CASE ~Claim(w) /\ q.pc # "idle"
    <3>1. q.pc = "branch" /\ q.recovery = None => disk'[w].head = AtBase(q.base)
      <4> SUFFICES ASSUME q.pc = "branch", q.recovery = None
                   PROVE  disk'[w].head = AtBase(q.base)
        OBVIOUS
      <4>1. Prepare(w) /\ q.base = p.base /\ p.recovery = None
        BY <1>2, <2>3, StepsTo, FieldsFollow
      <4>2. PrepareVerdict(w) = "ready" /\ disk' = [disk EXCEPT ![w] = PreparedDisk(w)]
        BY <4>1, Failed DEF Prepare, TypeOK, Process, ErrorCode
      <4>3. github.branch = None
        BY <4>1, <4>2 DEF PrepareVerdict
      <4>4. disk'[w] = PreparedDisk(w)
        BY <4>2 DEF TypeOK
      <4> QED BY <4>1, <4>3, <4>4 DEF PreparedDisk
    <3>2. q.pc \in Late \cup {"record"} /\ ~q.resumed => disk'[w].head = q.sha
      <4> SUFFICES ASSUME q.pc \in Late \cup {"record"}, ~q.resumed
                   PROVE  disk'[w].head = q.sha
        OBVIOUS
      <4>1. CASE CommitEdit(w)
        <5>1. q.sha = Tree(w) /\ disk' = [disk EXCEPT ![w].head = Tree(w), ![w].edit = NoEdit]
          BY <4>1 DEF CommitEdit, FailWith, Late, TypeOK, Process
        <5> QED BY <5>1 DEF TypeOK, Disk
      <4>2. CASE ~CommitEdit(w)
        <5>1. q.sha = p.sha /\ q.resumed = p.resumed
          BY <1>2, <2>3, <4>2, FieldsFollow, Diagram DEF Late
        <5>2. p.pc \in Late \cup {"record"}
          BY <1>2, <2>3, <4>2, <5>1, StepsTo, Diagram DEF Late, Shapes, Shape
        <5>3. disk'[w] = disk[w]
          BY <1>2, <2>3, <4>2, StepsTo, DiskKept DEF Late
        <5> QED BY <5>1, <5>2, <5>3 DEF WorkspaceKnows
      <4> QED BY <4>1, <4>2
    <3>3. q.pc = "record" /\ ~q.resumed => Len(q.sha) >= 2
      <4> SUFFICES ASSUME q.pc = "record", ~q.resumed PROVE Len(q.sha) >= 2
        OBVIOUS
      <4>1. CommitEdit(w)
        BY <1>2, <2>3, StepsTo, FieldsFollow, Diagram
      <4>2. q.sha = Tree(w) /\ disk[w].edit # NoEdit
        BY <4>1 DEF CommitEdit, FailWith, TypeOK, Process
      <4>3. Len(disk[w].head) >= 1 /\ disk[w].head \in Seq(Nat) /\ disk[w].edit \in Nat
        BY Trees DEF NumbersApart, Numbered, NumberedTo
      <4> QED BY <4>2, <4>3, AppendProperties DEF Tree
    <3> QED BY <1>2, <3>1, <3>2, <3>3, OthersStand DEF WorkspaceKnows
  <2> QED BY <2>1, <2>2, <2>3
<1> QED BY <1>1, <1>2 DEF Next

LEMMA EarnedStays ==
    \A U, V, sha : U \subseteq V =>
        /\ \A tree : PassedIn(U, tree) => PassedIn(V, tree)
        /\ EarnedIn(U, sha) => EarnedIn(V, sha)
  BY DEF EarnedIn, PassedIn

LEMMA EarnedAtBase == \A valid, base : EarnedIn(valid, AtBase(base))
  BY DEF EarnedIn, AtBase

LEMMA AppendPrefixes ==
    ASSUME NEW s \in Seq(Nat), NEW e \in Nat
    PROVE  LET t == Append(s, e) IN
           /\ Len(t) = Len(s) + 1
           /\ \A n \in 1..Len(s) : SubSeq(t, 1, n) = SubSeq(s, 1, n)
           /\ SubSeq(t, 1, Len(s) + 1) = t
<1> DEFINE t == Append(s, e)
<1>1. /\ t \in Seq(Nat) /\ Len(t) = Len(s) + 1 /\ Len(s) \in Nat
      /\ \A n \in 1..Len(s) : t[n] = s[n]
      /\ t[Len(s) + 1] = e
  BY AppendProperties, LenProperties
<1>2. SubSeq(t, 1, Len(s) + 1) = t
  BY <1>1, SubSeqFull
<1>3. ASSUME NEW n \in 1..Len(s) PROVE SubSeq(t, 1, n) = SubSeq(s, 1, n)
  <2>1. /\ \A i \in 1..n : s[i] \in Nat /\ t[i] = s[i]
        /\ n \in Nat
    BY <1>1, <1>3, ElementOfSeq
  <2> HIDE DEF t
  <2>2. /\ SubSeq(t, 1, n) \in Seq(Nat) /\ SubSeq(s, 1, n) \in Seq(Nat)
        /\ Len(SubSeq(t, 1, n)) = n /\ Len(SubSeq(s, 1, n)) = n
        /\ \A i \in 1..n : SubSeq(t, 1, n)[i] = t[i] /\ SubSeq(s, 1, n)[i] = s[i]
    <3>1. \A i \in 1..n : t[i] \in Nat
      BY <2>1
    <3>2. /\ SubSeq(s, 1, n) \in Seq(Nat) /\ Len(SubSeq(s, 1, n)) = n
          /\ \A i \in 1..n : SubSeq(s, 1, n)[i] = s[i]
      BY <1>3, <2>1, SubSeqProperties
    <3>3. /\ SubSeq(t, 1, n) \in Seq(Nat) /\ Len(SubSeq(t, 1, n)) = n
          /\ \A i \in 1..n : SubSeq(t, 1, n)[i] = t[i]
      BY <1>3, <2>1, <3>1, SubSeqProperties
    <3> QED BY <3>2, <3>3
  <2> QED BY <2>1, <2>2, SeqEqual
<1> QED BY <1>1, <1>2, <1>3

LEMMA EarnedAppend ==
    ASSUME NEW valid, NEW s \in Seq(Nat), NEW e \in Nat,
           EarnedIn(valid, s), PassedIn(valid, Append(s, e))
    PROVE  EarnedIn(valid, Append(s, e))
<1> DEFINE t == Append(s, e)
<1>0. Len(s) \in Nat
  OBVIOUS
<1>1. /\ Len(t) = Len(s) + 1
      /\ \A n \in 1..Len(s) : SubSeq(t, 1, n) = SubSeq(s, 1, n)
      /\ SubSeq(t, 1, Len(s) + 1) = t
  BY AppendPrefixes, Zenon
<1> HIDE DEF t
<1>2. SUFFICES ASSUME NEW n \in 2..Len(t) PROVE PassedIn(valid, SubSeq(t, 1, n))
  BY DEF EarnedIn, t
<1>3. CASE n \in 2..Len(s)
  <2>1. n \in 1..Len(s)
    BY <1>3
  <2>2. SubSeq(t, 1, n) = SubSeq(s, 1, n)
    BY <1>1, <2>1, Zenon
  <2> QED BY <1>3, <2>2, Zenon DEF EarnedIn
<1>4. CASE n = Len(s) + 1
  BY <1>1, <1>4, Zenon DEF t
<1> QED BY <1>0, <1>1, <1>3, <1>4

\* The commit an edit becomes.
LEMMA Commits ==
    ASSUME TypeOK, NEW w \in Workers, CommitEdit(w), proc'[w].pc = "record"
    PROVE  /\ disk[w].edit # NoEdit
           /\ proc'[w].sha = Tree(w) /\ Tree(w) = Append(disk[w].head, disk[w].edit)
           /\ disk'[w].head = Tree(w) /\ disk'[w].edit = NoEdit
           /\ UNCHANGED <<rec, ev, edits>>
<1>1. /\ disk[w].edit # NoEdit /\ proc'[w].sha = Tree(w)
      /\ disk' = [disk EXCEPT ![w].head = Tree(w), ![w].edit = NoEdit]
      /\ UNCHANGED <<rec, ev, edits>>
  BY DEF CommitEdit, FailWith, TypeOK, Process
<1>2. disk'[w].head = Tree(w) /\ disk'[w].edit = NoEdit
  BY <1>1 DEF TypeOK, Disk
<1> QED BY <1>1, <1>2 DEF Tree

LEMMA Validated ==
    ASSUME TypeOK, NEW w \in Workers, Validate(w, TRUE)
    PROVE  PassedIn(ev'.valid, Tree(w)) /\ disk' = disk
<1> DEFINE round == [attempt |-> proc[w].attempt, round |-> proc[w].round + 1,
                     passed |-> TRUE, tree |-> Tree(w)]
           valid == ev.valid \cup {round}
<1>1. ev' = [ev EXCEPT !.valid = valid] /\ disk' = disk
  BY DEF Validate
<1>2. round \in valid /\ round.tree = Tree(w) /\ round.passed
  OBVIOUS
<1> HIDE DEF round, valid
<1>3. ev'.valid = valid
  BY <1>1 DEF TypeOK, Evidence
<1> QED BY <1>1, <1>2, <1>3 DEF PassedIn

LEMMA EarnedSoFarStep ==
    ASSUME TypeOK, Shapes, RowKnows, WorkspaceKnows, EarnedSoFar, [Next]_vars
    PROVE  EarnedSoFar'
<1>1. /\ ev.valid \subseteq ev'.valid /\ github.green \subseteq github'.green
      /\ \A tree : PassedIn(ev.valid, tree) => PassedIn(ev'.valid, tree)
      /\ \A sha : EarnedIn(ev.valid, sha) => EarnedIn(ev'.valid, sha)
  BY Grows, EarnedStays
<1> DEFINE Facts(p, d, tree, valid, green) ==
              /\ p.pc # "idle" /\ p.recovery # None => EarnedIn(valid, p.recovery)
              /\ p.pc \in Late \cup {"resume", "record"} => EarnedIn(valid, p.sha)
              /\ p.pc \in Building => EarnedIn(valid, d.head)
              /\ p.pc = "commit" => PassedIn(valid, tree)
              /\ p.pc \in {"final", "complete"} => p.sha \in green
<1>2. /\ rec.sha # None => EarnedIn(ev.valid, rec.sha)
      /\ \A v \in Workers : Facts(proc[v], disk[v], Tree(v), ev.valid, github.green)
  BY DEF EarnedSoFar, Earned, Passed, PassedIn
<1>3. \A p, d, tree : Facts(p, d, tree, ev.valid, github.green) =>
                         Facts(p, d, tree, ev'.valid, github'.green)
  BY <1>1
<1>4. SUFFICES /\ rec'.sha # None => EarnedIn(ev'.valid, rec'.sha)
               /\ \A v \in Workers : Facts(proc'[v], disk'[v], Tree(v)', ev'.valid, github'.green)
  BY DEF EarnedSoFar, Earned, Passed, PassedIn
<1> HIDE DEF Facts
<1>5. CASE UNCHANGED vars \/ LeaseExpires \/ Sweep \/ Retry \/ MoveBase
  <2>1. UNCHANGED <<proc, disk, rec.sha>>
    BY <1>5, ControlWrites DEF vars
  <2> QED BY <1>1, <1>2, <1>3, <2>1 DEF Tree
<1>6. ASSUME NEW w \in Workers, WorkerNext(w)
      PROVE  /\ rec'.sha # None => EarnedIn(ev'.valid, rec'.sha)
             /\ \A v \in Workers : Facts(proc'[v], disk'[v], Tree(v)', ev'.valid, github'.green)
  <2> DEFINE p == proc[w]
             q == proc'[w]
  <2>1. Facts(p, disk[w], Tree(w), ev'.valid, github'.green)
    BY <1>2, <1>3
  <2>2. rec'.sha # None => EarnedIn(ev'.valid, rec'.sha)
    <3>1. CASE RecordCommit(w)
      <4>1. p.pc = "record" /\ rec'.sha = p.sha
        BY <3>1 DEF RecordCommit, TypeOK, RunRow
      <4> QED BY <2>1, <4>1 DEF Facts
    <3> QED BY <1>1, <1>2, <1>6, <3>1, Written
  <2>3. \A v \in Workers \ {w} : Facts(proc'[v], disk'[v], Tree(v)', ev'.valid, github'.green)
    BY <1>2, <1>3, <1>6, OthersStand DEF Tree
  <2>4. Facts(q, disk'[w], Tree(w)', ev'.valid, github'.green)
    <3>1. CASE Claim(w)
      <4>1. q.pc = "prepare" /\ (q.recovery # None => q.recovery = rec.sha)
        BY <3>1, Claims
      <4> QED BY <1>1, <1>2, <4>1 DEF Facts, Late, Building
    <3>2. CASE q.pc = "idle"
      BY <3>2 DEF Facts, Late, Building
    <3>3. CASE ~Claim(w) /\ q.pc # "idle"
      <4>1. q.recovery # None => EarnedIn(ev'.valid, q.recovery)
        BY <1>6, <2>1, <3>3, FieldsFollow, AttemptKept DEF Facts
      <4>2. q.pc \in Late \cup {"resume", "record"} => EarnedIn(ev'.valid, q.sha)
        <5> SUFFICES ASSUME q.pc \in Late \cup {"resume", "record"}
                     PROVE  EarnedIn(ev'.valid, q.sha)
          OBVIOUS
        <5>1. CASE CommitEdit(w)
          <6>1. p.pc = "commit" /\ q.pc = "record"
            BY <5>1, Diagram DEF Late
          <6>2. q.sha = Append(disk[w].head, disk[w].edit) /\ Tree(w) = q.sha
            BY <5>1, <6>1, Commits
          <6> QED BY <2>1, <6>1, <6>2, EarnedAppend, Trees DEF Facts, Building
        <5>2. CASE RecordBranch(w)
          <6>1. q.sha = p.recovery /\ p.recovery # None /\ p.pc = "branch"
            BY <5>2, ResumesItsHead, Diagram, Trees DEF Late
          <6> QED BY <2>1, <6>1 DEF Facts
        <5>3. CASE ~CommitEdit(w) /\ ~RecordBranch(w)
          <6>1. q.sha = p.sha
            BY <1>6, <3>3, <5>3, FieldsFollow
          <6>2. p.pc \in Late \cup {"resume", "record"}
            BY <1>6, <3>3, <5>3, StepsTo, Diagram DEF Late
          <6> QED BY <2>1, <6>1, <6>2 DEF Facts
        <5> QED BY <5>1, <5>2, <5>3
      <4>3. q.pc \in Building => EarnedIn(ev'.valid, disk'[w].head)
        <5> SUFFICES ASSUME q.pc \in Building PROVE EarnedIn(ev'.valid, disk'[w].head)
          OBVIOUS
        <5>1. disk'[w].head = disk[w].head
          <6>1. CASE Edit(w)
            BY <6>1 DEF Edit, TypeOK, Disk
          <6>2. CASE ~Edit(w)
            BY <1>6, <3>3, <6>2, DisksStand, Diagram DEF Building
          <6> QED BY <6>1, <6>2
        <5>2. CASE p.pc \in Building
          BY <2>1, <5>1, <5>2 DEF Facts
        <5>3. CASE RecordBranch(w)
          <6>1. p.pc = "branch" /\ q.pc = "edit"
            BY <5>3, Diagram DEF Building
          <6>2. p.recovery = None \/ disk[w].head = AtBase(p.base)
            BY <5>3, <6>1 DEF RecordBranch, FailWith, TypeOK, Process
          <6>3. disk[w].head = AtBase(p.base)
            BY <6>1, <6>2 DEF WorkspaceKnows
          <6> QED BY <5>1, <6>3, EarnedAtBase
        <5>4. CASE p.pc = "ci" /\ ~p.resumed
          <6>1. disk[w].head = p.sha /\ EarnedIn(ev'.valid, p.sha)
            BY <2>1, <5>4 DEF WorkspaceKnows, Facts, Late
          <6> QED BY <5>1, <6>1
        <5> QED BY <1>6, <3>3, <5>2, <5>3, <5>4, StepsTo
      <4>4. q.pc = "commit" => PassedIn(ev'.valid, Tree(w)')
        BY <1>6, <3>3, StepsTo, Validated DEF Tree
      <4>5. q.pc \in {"final", "complete"} => q.sha \in github'.green
        <5> SUFFICES ASSUME q.pc \in {"final", "complete"} PROVE q.sha \in github'.green
          OBVIOUS
        <5>1. CASE Final(w)
          BY <1>6, <2>1, <3>3, <5>1, FieldsFollow, Diagram DEF Facts
        <5>2. CASE Observe(w, "passed") /\ q.pc = "final"
          <6> DEFINE green == github.green \cup {p.sha}
          <6>1. github' = [github EXCEPT !.green = green]
            BY <5>2 DEF Observe, FailWith, TypeOK, Process
          <6>2. p.sha \in green
            OBVIOUS
          <6> HIDE DEF green
          <6>3. github'.green = green
            BY <6>1 DEF TypeOK, Repository
          <6> QED BY <1>6, <3>3, <5>2, <6>2, <6>3, FieldsFollow, Diagram
        <5> QED BY <1>6, <3>3, <5>1, <5>2, StepsTo, Diagram
      <4> QED BY <4>1, <4>2, <4>3, <4>4, <4>5 DEF Facts
    <3> QED BY <3>1, <3>2, <3>3
  <2> QED BY <2>2, <2>3, <2>4
<1> QED BY <1>4, <1>5, <1>6 DEF Next

-----------------------------------------------------------------------------
(* Every edit has a number of its own.                                     *)

LEMMA NumbersOfAppend ==
    ASSUME NEW s \in Seq(Nat), NEW e \in Nat
    PROVE  /\ \A n : Occurs(n, Append(s, e)) => Occurs(n, s) \/ n = e
           /\ \A n \in Nat : NumberedTo(n, s) /\ e <= n => NumberedTo(n, Append(s, e))
           /\ Last(Append(s, e)) = e
<1> DEFINE t == Append(s, e)
<1>1. /\ Len(s) \in Nat /\ Len(t) = Len(s) + 1 /\ t[Len(s) + 1] = e
      /\ \A i \in 1..Len(s) : t[i] = s[i]
  BY AppendProperties, LenProperties
<1> HIDE DEF t
<1>2. \A n : Occurs(n, t) => Occurs(n, s) \/ n = e
  BY <1>1 DEF Occurs
<1>3. \A n \in Nat : NumberedTo(n, s) /\ e <= n => NumberedTo(n, t)
  BY <1>1 DEF NumberedTo
<1>4. Last(t) = e
  BY <1>1 DEF Last
<1> QED BY <1>2, <1>3, <1>4 DEF t

LEMMA BaseIsNumbered ==
    \A base, m, n : NumberedTo(n, AtBase(base)) /\ ~Occurs(m, AtBase(base))
  BY DEF NumberedTo, Occurs, AtBase

LEMMA NumberedMore ==
    ASSUME NEW sha \in Seq(Nat), NEW m \in Nat, NEW n \in Nat, m <= n, NumberedTo(m, sha)
    PROVE  NumberedTo(n, sha)
<1>1. \A i \in 2..Len(sha) : sha[i] \in Nat
  BY ElementOfSeq
<1> QED BY <1>1 DEF NumberedTo

LEMMA BeyondIsNew ==
    ASSUME NEW sha \in Seq(Nat), NEW m \in Nat, NumberedTo(m, sha)
    PROVE  ~Occurs(m + 1, sha)
<1>1. \A i \in 2..Len(sha) : sha[i] \in Nat
  BY ElementOfSeq
<1> QED BY <1>1 DEF NumberedTo, Occurs

LEMMA LastOccurs ==
    ASSUME NEW s \in Seq(Nat), NEW t \in Seq(Nat), Len(s) >= 2, IsPrefix(s, t)
    PROVE  Occurs(Last(s), s) /\ Occurs(Last(s), t)
<1>1. Len(s) \in 2..Len(t) /\ Len(s) \in 2..Len(s) /\ Len(s) \in Nat
  BY DEF IsPrefix
<1>2. SubSeq(t, 1, Len(s)) = s
  BY SubSeqFull DEF IsPrefix
<1>3. SubSeq(t, 1, Len(s))[Len(s)] = t[Len(s)]
  BY <1>1
<1>4. t[Len(s)] = s[Len(s)]
  BY <1>2, <1>3
<1> QED BY <1>1, <1>4 DEF Occurs, Last

LEMMA NumbersAreNats ==
    ASSUME TypeOK
    PROVE  /\ \A c \in ev.commit : c.sha \in Seq(Nat)
           /\ \A w \in Workers : disk[w].head \in Seq(Nat) /\ disk[w].edit \in Nat
           /\ edits \in Nat
<1>1. \A c \in ev.commit : c.sha \in Seq(Nat)
  BY DEF TypeOK, Evidence, Recorded, Commit
<1> QED BY <1>1, Trees, RunEvidenceAssumption DEF TypeOK

LEMMA EditsStand ==
    ASSUME NEW w \in Workers, WorkerNext(w), ~Edit(w)
    PROVE  edits' = edits
<1>1. CASE Claim(w) \/ Prepare(w) \/ Replan(w) \/ RecordBranch(w)
  BY <1>1 DEF Claim, Prepare, Replan, RecordBranch
<1>2. CASE CommitEdit(w) \/ \E passed \in BOOLEAN : Validate(w, passed)
  BY <1>2 DEF CommitEdit, Validate
<1>3. CASE Publish(w)
  BY <1>3 DEF Publish, RecordCommit, AssertActive, Push, Resume, Draft, RecordPull, RecordHead
<1>4. CASE End(w)
  BY <1>4 DEF End, Observe, Final, Complete, Fail, Fault, Refused, Crash
<1> QED BY <1>1, <1>2, <1>3, <1>4 DEF WorkerNext, Build

\* A step that moves no number keeps them apart.
LEMMA QuietSteps ==
    ASSUME NumbersApart, UNCHANGED <<ev.commit, edits>>,
           \A v \in Workers : disk'[v].head = disk[v].head /\ disk'[v].edit = disk[v].edit,
           \A v \in Workers : proc'[v].pc = "record" /\ ~proc'[v].resumed => proc'[v] = proc[v]
    PROVE  NumbersApart'
<1>1. \A n, v : UnrecordedIn(ev.commit, disk, n, v) => UnrecordedIn(ev'.commit, disk', n, v)
  BY DEF UnrecordedIn
<1> QED BY <1>1 DEF NumbersApart, Numbered, Unrecorded

LEMMA NumbersApartPrepare ==
    ASSUME TypeOK, Shapes, PushesAreRecorded, NumbersApart, NEW w \in Workers, Prepare(w)
    PROVE  NumbersApart'
<1>1. /\ disk \in [Workers -> Disk] /\ proc \in [Workers -> Process]
      /\ proc'[w].pc \in {"branch", "replan", "failing"}
      /\ UNCHANGED <<ev, edits>>
      /\ \A v \in Workers \ {w} : proc'[v] = proc[v] /\ disk'[v] = disk[v]
  BY Diagram, OthersStand DEF TypeOK, Prepare, WorkerNext
<1>2. CASE disk' = [disk EXCEPT ![w] = BegunDisk(w)]
  <2>1. disk'[w].head = disk[w].head /\ disk'[w].edit = disk[w].edit
    BY <1>1, <1>2 DEF BegunDisk, Disk
  <2> QED BY <1>1, <2>1, QuietSteps
<1>3. CASE disk' = [disk EXCEPT ![w] = PreparedDisk(w)]
  <2>1. disk'[w] = PreparedDisk(w)
    BY <1>1, <1>3
  <2>2. CASE disk'[w] = disk[w]
    BY <1>1, <2>2, QuietSteps
  <2>3. CASE \/ disk'[w].edit = NoEdit /\ disk'[w].head = AtBase(proc[w].base)
             \/ /\ disk'[w].edit = NoEdit /\ disk'[w].head = github.branch
                /\ github.branch # None
    <3>1. /\ NumberedTo(edits, disk'[w].head)
          /\ \A n : (\A c \in ev.commit : ~Occurs(n, c.sha)) => ~Occurs(n, disk'[w].head)
      <4>1. CASE disk'[w].head = AtBase(proc[w].base)
        BY <4>1, BaseIsNumbered
      <4>2. CASE RecordedIn(ev.commit, disk'[w].head)
        BY <4>2 DEF RecordedIn, NumbersApart, Numbered
      <4> QED BY <2>3, <4>1, <4>2 DEF PushesAreRecorded, PushedIsRecorded
    <3>2. \A n, v : UnrecordedIn(ev.commit, disk, n, v) => UnrecordedIn(ev'.commit, disk', n, v)
      BY <1>1, <3>1 DEF UnrecordedIn
    <3>3. NoEdit <= edits
      BY NumbersAreNats DEF NoEdit
    <3> QED BY <1>1, <2>3, <3>1, <3>2, <3>3 DEF NumbersApart, Numbered, Unrecorded
  <2> QED BY <2>1, <2>2, <2>3 DEF PreparedDisk
<1> QED BY <1>2, <1>3 DEF Prepare

LEMMA NumbersApartEdit ==
    ASSUME TypeOK, Shapes, NumbersApart, NEW w \in Workers, Edit(w)
    PROVE  NumbersApart'
<1>1. /\ disk \in [Workers -> Disk] /\ proc'[w].pc = "validate"
      /\ UNCHANGED ev
      /\ \A v \in Workers \ {w} : proc'[v] = proc[v] /\ disk'[v] = disk[v]
  BY Diagram, OthersStand DEF TypeOK, Edit, WorkerNext, Build
<1>2. CASE UNCHANGED <<edits, disk>>
  BY <1>1, <1>2, QuietSteps
<1>3. CASE edits' = edits + 1 /\ disk' = [disk EXCEPT ![w].edit = edits + 1]
  <2>1. disk'[w].head = disk[w].head /\ disk'[w].edit = edits + 1
    BY <1>1, <1>3 DEF Disk
  <2>2. edits \in Nat /\ edits' \in Nat /\ edits <= edits' /\ edits + 1 # NoEdit
    BY <1>3, NumbersAreNats DEF NoEdit
  <2>3. \A sha \in Seq(Nat) : Numbered(sha) => NumberedTo(edits', sha) /\ ~Occurs(edits + 1, sha)
    BY <2>2, NumberedMore, BeyondIsNew DEF Numbered
  <2>4. /\ \A c \in ev.commit : NumberedTo(edits', c.sha) /\ ~Occurs(edits + 1, c.sha)
        /\ \A v \in Workers : /\ NumberedTo(edits', disk[v].head) /\ ~Occurs(edits + 1, disk[v].head)
                              /\ disk[v].edit <= edits /\ disk[v].edit \in Nat
    BY <2>3, NumbersAreNats DEF NumbersApart
  <2>5. \A v \in Workers : disk'[v].head = disk[v].head
    BY <1>1, <2>1
  <2>6. \A n, v : UnrecordedIn(ev.commit, disk, n, v) => UnrecordedIn(ev'.commit, disk', n, v)
    BY <1>1, <2>5 DEF UnrecordedIn
  <2>7. UnrecordedIn(ev'.commit, disk', edits + 1, w)
    BY <1>1, <2>4, <2>5 DEF UnrecordedIn
  <2>8. \A v \in Workers : v # w => disk'[v].edit # edits + 1 /\ disk'[v].edit <= edits'
    BY <1>1, <2>2, <2>4
  <2>9. ASSUME NEW v \in Workers, disk'[v].edit # NoEdit
        PROVE  /\ UnrecordedIn(ev'.commit, disk', disk'[v].edit, v)
               /\ ~Occurs(disk'[v].edit, disk'[v].head)
               /\ \A u \in Workers \ {v} : disk'[u].edit # disk'[v].edit
    <3>1. CASE v = w
      BY <2>1, <2>4, <2>7, <2>8, <3>1
    <3>2. CASE v # w
      <4>1. disk'[v] = disk[v]
        BY <1>1, <3>2
      <4>2. /\ UnrecordedIn(ev.commit, disk, disk[v].edit, v)
            /\ ~Occurs(disk[v].edit, disk[v].head)
            /\ \A u \in Workers \ {v} : disk[u].edit # disk[v].edit
        BY <2>9, <4>1 DEF NumbersApart, Unrecorded
      <4> QED BY <1>1, <2>1, <2>6, <2>8, <3>2, <4>1, <4>2
    <3> QED BY <3>1, <3>2
  <2>10. ASSUME NEW v \in Workers, proc'[v].pc = "record", ~proc'[v].resumed
         PROVE  UnrecordedIn(ev'.commit, disk', Last(proc'[v].sha), v)
    <3>1. proc'[v] = proc[v]
      BY <1>1, <2>10
    <3> QED BY <2>6, <2>10, <3>1 DEF NumbersApart, Unrecorded
  <2>11. \A v \in Workers : NumberedTo(edits', disk'[v].head) /\ disk'[v].edit <= edits'
    BY <1>3, <2>1, <2>2, <2>4, <2>5, <2>8
  <2> QED BY <1>1, <2>4, <2>9, <2>10, <2>11 DEF NumbersApart, Numbered, Unrecorded
<1> QED BY <1>2, <1>3 DEF Edit

LEMMA NumbersApartCommit ==
    ASSUME TypeOK, Shapes, WorkspaceKnows, NumbersApart, NEW w \in Workers, CommitEdit(w)
    PROVE  NumbersApart'
<1> DEFINE e == disk[w].edit
           h == disk[w].head
<1>1. /\ proc'[w].pc \in {"record", "failing"} /\ UNCHANGED <<ev, edits>>
      /\ \A v \in Workers \ {w} : proc'[v] = proc[v] /\ disk'[v] = disk[v]
      /\ h \in Seq(Nat) /\ e \in Nat /\ edits \in Nat
  BY Diagram, OthersStand, NumbersAreNats DEF CommitEdit, WorkerNext, Build
<1>2. CASE proc'[w].pc = "failing"
  <2>1. UNCHANGED disk
    BY <1>2 DEF CommitEdit, TypeOK, Process
  <2> QED BY <1>1, <1>2, <2>1, QuietSteps
<1>3. CASE proc'[w].pc = "record"
  <2>1. /\ e # NoEdit /\ disk'[w].head = Append(h, e) /\ disk'[w].edit = NoEdit
        /\ proc'[w].sha = Append(h, e)
    BY <1>3, Commits
  <2>2. /\ UnrecordedIn(ev.commit, disk, e, w)
        /\ \A v \in Workers \ {w} : disk[v].edit # e
        /\ NumberedTo(edits, h) /\ e <= edits
    BY <2>1 DEF NumbersApart, Numbered, Unrecorded
  <2>3. NumberedTo(edits, Append(h, e)) /\ Last(Append(h, e)) = e
    BY <1>1, <2>2, NumbersOfAppend
  <2>4. UnrecordedIn(ev'.commit, disk', e, w)
    BY <1>1, <2>2 DEF UnrecordedIn
  <2>5. ASSUME NEW v \in Workers \ {w}, NEW n, n # e, UnrecordedIn(ev.commit, disk, n, v)
        PROVE  UnrecordedIn(ev'.commit, disk', n, v)
    <3>1. ~Occurs(n, Append(h, e))
      BY <1>1, <2>5, NumbersOfAppend DEF UnrecordedIn
    <3> QED BY <1>1, <2>1, <2>5, <3>1 DEF UnrecordedIn
  <2>6. ASSUME NEW v \in Workers \ {w}, proc[v].pc = "record", ~proc[v].resumed
        PROVE  Last(proc[v].sha) # e
    <3>1. disk[v].head = proc[v].sha /\ Len(proc[v].sha) >= 2 /\ disk[v].head \in Seq(Nat)
      BY <2>6, NumbersAreNats DEF WorkspaceKnows
    <3>2. Occurs(Last(proc[v].sha), disk[v].head)
      BY <3>1 DEF Occurs, Last
    <3> QED BY <2>2, <3>2 DEF UnrecordedIn
  <2>7. NoEdit <= edits
    BY <1>1 DEF NoEdit
  <2>8. ASSUME NEW v \in Workers, disk'[v].edit # NoEdit
        PROVE  /\ UnrecordedIn(ev'.commit, disk', disk'[v].edit, v)
               /\ ~Occurs(disk'[v].edit, disk'[v].head)
               /\ \A u \in Workers \ {v} : disk'[u].edit # disk'[v].edit
    <3>1. v # w /\ disk'[v] = disk[v]
      BY <1>1, <2>1, <2>8
    <3>2. /\ UnrecordedIn(ev.commit, disk, disk[v].edit, v)
          /\ ~Occurs(disk[v].edit, disk[v].head)
          /\ \A u \in Workers \ {v} : disk[u].edit # disk[v].edit
      BY <2>8, <3>1 DEF NumbersApart, Unrecorded
    <3> QED BY <1>1, <2>1, <2>2, <2>5, <2>8, <3>1, <3>2
  <2>9. ASSUME NEW v \in Workers, proc'[v].pc = "record", ~proc'[v].resumed
        PROVE  UnrecordedIn(ev'.commit, disk', Last(proc'[v].sha), v)
    <3>1. CASE v = w
      BY <2>1, <2>3, <2>4, <3>1
    <3>2. CASE v # w
      <4>1. proc'[v] = proc[v]
        BY <1>1, <3>2
      <4> QED BY <2>5, <2>6, <2>9, <3>2, <4>1 DEF NumbersApart, Unrecorded
    <3> QED BY <3>1, <3>2
  <2>10. \A v \in Workers : NumberedTo(edits', disk'[v].head) /\ disk'[v].edit <= edits'
    BY <1>1, <2>1, <2>3, <2>7 DEF NumbersApart, Numbered
  <2> QED BY <1>1, <2>8, <2>9, <2>10 DEF NumbersApart, Numbered, Unrecorded
<1> QED BY <1>1, <1>2, <1>3

\* What is recorded is the head of the workspace, or was on record already.
LEMMA WhatIsRecorded ==
    ASSUME TypeOK, Shapes, RowKnows, HolderKnows, WorkspaceKnows,
           NEW w \in Workers, RecordCommit(w)
    PROVE  /\ HoldsLease(w) /\ proc[w].pc = "record" /\ proc[w].sha \in Seq(Nat)
           /\ rec'.sha = proc[w].sha
           /\ ev'.commit = ev.commit \cup {[attempt |-> proc[w].attempt, sha |-> proc[w].sha]}
           /\ IF proc[w].resumed
              THEN rec.sha = proc[w].sha /\ RecordedIn(ev.commit, proc[w].sha)
              ELSE disk[w].head = proc[w].sha /\ Len(proc[w].sha) >= 2
           /\ UNCHANGED <<disk, github, edits>>
<1> DEFINE commit == ev.commit \cup {[attempt |-> proc[w].attempt, sha |-> proc[w].sha]}
<1>1. /\ HoldsLease(w) /\ proc[w].pc = "record" /\ rec' = [rec EXCEPT !.sha = proc[w].sha]
      /\ ev' = [ev EXCEPT !.commit = commit] /\ UNCHANGED <<disk, github, edits>>
  BY DEF RecordCommit
<1> HIDE DEF commit
<1>2. ev'.commit = commit /\ rec'.sha = proc[w].sha
  BY <1>1 DEF TypeOK, Evidence, RunRow
<1>3. proc[w].sha # None /\ proc[w].sha \in Seq(Nat)
  BY <1>1 DEF Shapes, Shape, TypeOK, Process, Commit
<1>4. CASE proc[w].resumed
  BY <1>1, <1>2, <1>3, <1>4 DEF HolderKnows, RowKnows, commit
<1>5. CASE ~proc[w].resumed
  BY <1>1, <1>2, <1>3, <1>5 DEF WorkspaceKnows, commit
<1> QED BY <1>4, <1>5

LEMMA NumbersApartRecord ==
    ASSUME TypeOK, Shapes, RowKnows, HolderKnows, WorkspaceKnows, NumbersApart,
           NEW w \in Workers, RecordCommit(w)
    PROVE  NumbersApart'
<1> DEFINE sha == proc[w].sha
           item == [attempt |-> proc[w].attempt, sha |-> sha]
<1>1. /\ ev'.commit = ev.commit \cup {item} /\ item.sha = sha
      /\ UNCHANGED <<disk, edits>>
      /\ proc[w].pc = "record"
      /\ IF proc[w].resumed THEN RecordedIn(ev.commit, sha) ELSE disk[w].head = sha
  BY WhatIsRecorded
<1>2. /\ proc'[w].pc # "record"
      /\ \A v \in Workers \ {w} : proc'[v] = proc[v]
  BY Diagram, OthersStand DEF WorkerNext, Publish
<1> HIDE DEF item
<1>3. NumberedTo(edits, sha)
  BY <1>1 DEF NumbersApart, Numbered, RecordedIn
<1>4. ASSUME NEW v \in Workers, NEW n, UnrecordedIn(ev.commit, disk, n, v),
             v = w => ~Occurs(n, disk[w].head)
      PROVE  UnrecordedIn(ev'.commit, disk', n, v)
  <2>1. ~Occurs(n, sha)
    BY <1>1, <1>4 DEF UnrecordedIn, RecordedIn
  <2> QED BY <1>1, <1>4, <2>1 DEF UnrecordedIn
<1> QED BY <1>1, <1>2, <1>3, <1>4 DEF NumbersApart, Numbered, Unrecorded

LEMMA NumbersApartStep ==
    ASSUME TypeOK, Shapes, RowKnows, HolderKnows, PushesAreRecorded, WorkspaceKnows,
           NumbersApart, [Next]_vars
    PROVE  NumbersApart'
<1>1. CASE UNCHANGED vars \/ LeaseExpires \/ Sweep \/ Retry \/ MoveBase
  <2>1. UNCHANGED <<ev, disk, proc, edits>>
    BY <1>1, ControlWrites DEF vars
  <2> QED BY <2>1, QuietSteps
<1>2. ASSUME NEW w \in Workers, WorkerNext(w) PROVE NumbersApart'
  <2>1. CASE Prepare(w) \/ Edit(w) \/ CommitEdit(w) \/ RecordCommit(w)
    BY <2>1, NumbersApartPrepare, NumbersApartEdit, NumbersApartCommit, NumbersApartRecord
  <2>2. CASE ~(Prepare(w) \/ Edit(w) \/ CommitEdit(w) \/ RecordCommit(w))
    <3>1. ev'.commit = ev.commit
      BY <1>2, <2>2, Written
    <3>2. edits' = edits
      BY <1>2, <2>2, EditsStand
    <3>3. disk'[w].head = disk[w].head /\ disk'[w].edit = disk[w].edit
      BY <1>2, <2>2, DisksStand, Typed DEF BegunDisk, Disk
    <3>4. proc'[w].pc = "record" => proc'[w].resumed
      <4>1. CASE Claim(w)
        BY <4>1, Claims
      <4>2. CASE ~Claim(w)
        BY <1>2, <2>2, <4>2, StepsTo, FieldsFollow, Diagram
      <4> QED BY <4>1, <4>2
    <3> QED BY <1>2, <3>1, <3>2, <3>3, <3>4, OthersStand, QuietSteps
  <2> QED BY <2>1, <2>2
<1> QED BY <1>1, <1>2 DEF Next

-----------------------------------------------------------------------------
(* A process that was taken over, and the run that succeeds.               *)

LEMMA NoPushPassesStep ==
    ASSUME TypeOK, Shapes, RowKnows, HolderKnows, PushesAreRecorded, WorkspaceKnows,
           NumbersApart, NoPushPasses, [Next]_vars
    PROVE  NoPushPasses'
<1>1. CASE UNCHANGED vars \/ LeaseExpires \/ Sweep \/ Retry \/ MoveBase
  <2>1. UNCHANGED <<proc, rec.sha>>
    BY <1>1, ControlWrites DEF vars
  <2> QED BY <2>1 DEF NoPushPasses
<1>2. ASSUME NEW w \in Workers, WorkerNext(w) PROVE NoPushPasses'
  <2> DEFINE Below(sha, q) == q.pc \in {"active", "push"} =>
                                 sha # None /\ (IsPrefix(sha, q.sha) => q.sha = sha)
  <2>0. \A v \in Workers : Below(rec.sha, proc[v])
    BY DEF NoPushPasses
  <2>1. CASE RecordCommit(w)
    <3>1. /\ rec'.sha = proc[w].sha /\ proc[w].sha \in Seq(Nat) /\ proc[w].sha # None
      BY <2>1, WhatIsRecorded, RunEvidenceAssumption
    <3>2. Below(rec'.sha, proc'[w])
      BY <1>2, <2>1, <3>1, FieldsFollow, Claims, Diagram
    <3>3. ASSUME NEW v \in Workers \ {w} PROVE Below(rec'.sha, proc[v])
      <4>1. CASE proc[w].resumed
        BY <2>0, <2>1, <3>1, <4>1, WhatIsRecorded
      <4>2. CASE ~proc[w].resumed /\ proc[v].pc \in {"active", "push"}
                   /\ IsPrefix(proc[w].sha, proc[v].sha)
        <5>1. RecordedIn(ev.commit, proc[v].sha) /\ proc[v].sha \in Seq(Nat)
          BY <4>2, NumbersAreNats DEF PushesAreRecorded, RecordedIn
        <5>2. Len(proc[w].sha) >= 2 /\ UnrecordedIn(ev.commit, disk, Last(proc[w].sha), w)
          BY <2>1, <4>2, WhatIsRecorded DEF NumbersApart, Unrecorded
        <5>3. Occurs(Last(proc[w].sha), proc[v].sha)
          BY <3>1, <4>2, <5>1, <5>2, LastOccurs
        <5> QED BY <5>1, <5>2, <5>3 DEF UnrecordedIn, RecordedIn
      <4> QED BY <3>1, <4>1, <4>2
    <3> HIDE DEF Below
    <3>4. \A v \in Workers : Below(rec'.sha, proc'[v])
      BY <1>2, <3>2, <3>3, OthersStand
    <3> QED BY <3>4 DEF NoPushPasses, Below
  <2>2. CASE ~RecordCommit(w)
    <3>1. rec'.sha = rec.sha
      BY <1>2, <2>2, Written
    <3>2. ASSUME proc'[w].pc \in {"active", "push"}
          PROVE  proc[w].pc = "active" /\ proc'[w].sha = proc[w].sha
      <4>1. ~Claim(w)
        BY <3>2, Claims
      <4> QED BY <1>2, <2>2, <3>2, <4>1, StepsTo, FieldsFollow
    <3>3. Below(rec'.sha, proc'[w])
      BY <2>0, <3>1, <3>2
    <3> HIDE DEF Below
    <3>4. \A v \in Workers : Below(rec'.sha, proc'[v])
      BY <1>2, <2>0, <3>1, <3>3, OthersStand
    <3> QED BY <3>4 DEF NoPushPasses, Below
  <2> QED BY <2>1, <2>2
<1> QED BY <1>1, <1>2 DEF Next

\* While the branch is the head on record it stays there, whoever pushes.
LEMMA BranchStays ==
    ASSUME TypeOK, NoPushPasses, NEW w \in Workers, WorkerNext(w),
           rec.sha \in Seq(Nat), github.branch = rec.sha, github.pull = rec.base
    PROVE  github'.branch = rec.sha /\ github'.pull = rec.base
<1>1. rec.sha # None /\ rec.base # None
  BY RunEvidenceAssumption DEF TypeOK, RunRow
<1> QED BY <1>1, RepositoryFollows DEF NoPushPasses

LEMMA OnlyCompleteSucceeds ==
    ASSUME TypeOK, [Next]_vars, rec'.status = "succeeded"
    PROVE  \/ rec.status = "succeeded"
           \/ \E w \in Workers : /\ Complete(w)
                                 /\ rec'.sha = rec.sha /\ rec'.base = rec.base
                                 /\ github' = github
<1>1. rec \in RunRow
  BY DEF TypeOK
<1>2. CASE UNCHANGED vars \/ LeaseExpires \/ Sweep \/ Retry \/ MoveBase
  BY <1>2, ControlWrites DEF vars
<1>3. ASSUME NEW w \in Workers, WorkerNext(w), rec.status # "succeeded"
      PROVE  Complete(w) /\ rec'.sha = rec.sha /\ rec'.base = rec.base /\ github' = github
  <2>1. CASE Claim(w) \/ Prepare(w) \/ Build(w)
    BY <1>3, <2>1, Claims DEF Prepare, Build, Edit, Validate, CommitEdit
  <2>2. CASE Replan(w) \/ RecordBranch(w) \/ Publish(w)
    BY <1>1, <1>3, <2>2 DEF Replan, RecordBranch, Publish, RecordCommit, AssertActive, Push,
                            Resume, Draft, RecordPull, RecordHead, RunRow
  <2>3. CASE Complete(w)
    BY <1>1, <2>3 DEF Complete, RunRow
  <2>4. CASE Fail(w)
    BY <1>1, <1>3, <2>4 DEF Fail, RunRow
  <2>5. CASE End(w) /\ ~Complete(w) /\ ~Fail(w)
    BY <1>3, <2>5 DEF End, Observe, Final, Fault, Refused, Crash
  <2> QED BY <1>3, <2>1, <2>2, <2>3, <2>4, <2>5 DEF WorkerNext
<1> QED BY <1>2, <1>3 DEF Next

LEMMA CompletionsStandStep ==
    ASSUME TypeOK, Shapes, RowKnows, HolderKnows, EarnedSoFar, EarnedSoFar', NoPushPasses,
           CompletionsStand, [Next]_vars
    PROVE  CompletionsStand'
<1> DEFINE Stands == github.branch = rec.sha /\ github.pull = rec.base
<1>1. ASSUME NEW w \in Workers, HoldsLease(w)', proc'[w].pc = "complete"
      PROVE  Stands'
  <2>1. ~Claim(w)
    BY <1>1, Claims
  <2>2. HoldsLease(w)
    BY <1>1, <2>1, LeaseKept
  <2>3. CASE UNCHANGED vars \/ LeaseExpires \/ Sweep \/ Retry \/ MoveBase
    <3>1. UNCHANGED <<proc, rec.sha, rec.base, github.branch, github.pull>>
      BY <2>3, ControlWrites DEF vars
    <3> QED BY <1>1, <2>2, <3>1 DEF CompletionsStand
  <2>4. CASE WorkerNext(w)
    <3>1. Final(w) /\ proc[w].pc = "final"
      BY <1>1, <2>1, <2>4, StepsTo, Diagram
    <3>2. /\ DraftMatches(w) /\ UNCHANGED <<rec, github>>
      BY <1>1, <3>1 DEF Final, FailWith, TypeOK, Process
    <3> QED BY <2>2, <3>1, <3>2 DEF DraftMatches, HolderKnows, Late
  <2>5. ASSUME NEW v \in Workers \ {w}, WorkerNext(v) PROVE Stands'
    <3>1. ~HoldsLease(v) /\ proc[w] = proc'[w]
      BY <2>2, <2>5, OthersStand DEF HoldsLease
    <3>2. rec'.sha = rec.sha /\ rec'.base = rec.base
      BY <2>5, <3>1, Written, HolderWrites
    <3>3. Stands
      BY <1>1, <2>2, <3>1 DEF CompletionsStand
    <3>4. rec.sha \in Seq(Nat)
      <4>1. proc[w].sha # None /\ proc[w].sha = rec.sha
        BY <1>1, <2>2, <3>1 DEF HolderKnows, Shapes, Shape, Late
      <4> QED BY <4>1 DEF TypeOK, RunRow, Commit
    <3> QED BY <2>5, <3>2, <3>3, <3>4, BranchStays
  <2> QED BY <2>3, <2>4, <2>5 DEF Next
<1>2. ASSUME rec'.status = "succeeded"
      PROVE  /\ rec'.sha # None /\ rec'.sha \in github'.green
             /\ Stands'
  <2>1. ASSUME NEW w \in Workers, Complete(w), rec'.sha = rec.sha, rec'.base = rec.base,
               github' = github
        PROVE  rec'.sha # None /\ rec'.sha \in github'.green /\ Stands'
    <3>1. HoldsLease(w) /\ proc[w].pc = "complete"
      BY <2>1 DEF Complete
    <3>2. proc[w].sha # None /\ proc[w].sha = rec.sha /\ proc[w].sha \in github.green
      BY <3>1 DEF HolderKnows, Shapes, Shape, Late, EarnedSoFar
    <3> QED BY <2>1, <3>1, <3>2 DEF CompletionsStand
  <2>2. CASE rec.status = "succeeded"
    <3>1. rec.sha # None /\ rec.sha \in github.green /\ Stands
      BY <2>2 DEF CompletionsStand, SuccessIsEarned
    <3>2. CASE UNCHANGED vars \/ LeaseExpires \/ Sweep \/ Retry \/ MoveBase
      BY <3>1, <3>2, ControlWrites DEF vars
    <3>3. ASSUME NEW w \in Workers, WorkerNext(w)
          PROVE  rec'.sha # None /\ rec'.sha \in github'.green /\ Stands'
      <4>1. ~HoldsLease(w)
        BY <2>2 DEF HoldsLease
      <4>2. rec'.sha = rec.sha /\ rec'.base = rec.base
        BY <3>3, <4>1, Written, HolderWrites
      <4>3. rec.sha \in Seq(Nat)
        BY <3>1 DEF TypeOK, RunRow, Commit
      <4> QED BY <3>1, <3>3, <4>2, <4>3, BranchStays, Grows
    <3> QED BY <3>2, <3>3 DEF Next
  <2> QED BY <1>2, <2>1, <2>2, OnlyCompleteSucceeds
<1>3. rec'.sha # None => \A n \in 2..Len(rec'.sha) : Passed(SubSeq(rec.sha, 1, n))'
  BY DEF EarnedSoFar, Earned, EarnedIn, PassedIn, Passed
<1> QED BY <1>1, <1>2, <1>3 DEF CompletionsStand, SuccessIsEarned

-----------------------------------------------------------------------------
(* The invariant and what follows from it.                                 *)

LEMMA InitIInv == Init => IInv
<1> SUFFICES ASSUME Init PROVE IInv
  OBVIOUS
<1>1. TypeOK
  <2>1. rec \in RunRow /\ ev \in Evidence
    BY RunEvidenceAssumption DEF Init, RunRow, Evidence, ErrorCode
  <2>2. EmptyDisk \in Disk
    BY RunEvidenceAssumption DEF EmptyDisk, Disk, AtBase, Commit, NoEdit
  <2>3. github \in Repository /\ edits \in 0..MaxEdits
    BY RunEvidenceAssumption DEF Init, Repository
  <2> QED BY <2>1, <2>2, <2>3, IdleIsAProcess DEF Init, TypeOK
<1>2. \A w \in Workers : proc[w] = Idle /\ proc[w].pc = "idle" /\ disk[w] = EmptyDisk
  BY DEF Init, Idle
<1>3. Shapes
  BY <1>2 DEF Shapes, Shape, Idle, Building, Late
<1>4. RowKnows /\ PushesAreRecorded /\ CompletionsStand
  BY <1>2 DEF Init, RowKnows, PushesAreRecorded, PushedIsRecorded, CompletionsStand,
              SuccessIsEarned
<1>5. AttemptsApart /\ HolderKnows /\ WorkspaceKnows /\ EarnedSoFar /\ NoPushPasses
  BY <1>2 DEF Init, AttemptsApart, HolderKnows, WorkspaceKnows, EarnedSoFar, NoPushPasses,
              Building, Late
<1>6. NumbersApart
  <2>1. EmptyDisk.head = <<0>> /\ EmptyDisk.edit = 0
    BY DEF EmptyDisk, AtBase, NoEdit
  <2>2. \A w \in Workers : disk[w].head = <<0>> /\ disk[w].edit = 0 /\ proc[w].pc = "idle"
    BY <1>2, <2>1
  <2>3. Len(<<0>>) = 1 /\ edits = 0 /\ ev.commit = {}
    BY DEF Init
  <2>4. NumberedTo(edits, <<0>>)
    BY <2>3 DEF NumberedTo
  <2> QED BY <2>2, <2>3, <2>4 DEF NumbersApart, Numbered, NoEdit
<1> QED BY <1>1, <1>3, <1>4, <1>5, <1>6 DEF IInv

LEMMA StepIInv == IInv /\ [Next]_vars => IInv'
<1> SUFFICES ASSUME IInv, [Next]_vars PROVE IInv'
  OBVIOUS
<1>1. /\ TypeOK /\ Shapes /\ RowKnows /\ AttemptsApart /\ HolderKnows /\ PushesAreRecorded
      /\ WorkspaceKnows /\ EarnedSoFar /\ NumbersApart /\ NoPushPasses /\ CompletionsStand
  BY DEF IInv
<1>2. TypeOK' /\ Shapes'
  BY <1>1, TypesStep
<1>3. RowKnows' /\ AttemptsApart'
  BY <1>1, RowKnowsStep, AttemptsApartStep
<1>4. HolderKnows' /\ PushesAreRecorded' /\ WorkspaceKnows'
  BY <1>1, HolderKnowsStep, PushesAreRecordedStep, WorkspaceKnowsStep
<1>5. EarnedSoFar'
  BY <1>1, EarnedSoFarStep
<1>6. NumbersApart' /\ NoPushPasses'
  BY <1>1, NumbersApartStep, NoPushPassesStep
<1>7. CompletionsStand'
  BY <1>1, <1>5, CompletionsStandStep
<1> QED BY <1>2, <1>3, <1>4, <1>5, <1>6, <1>7 DEF IInv

\* The inductive invariant of a run's evidence.
THEOREM IInvHolds == Spec => []IInv
<1> QED BY InitIInv, StepIInv, PTL DEF Spec

\* Row, evidence, disks, processes and repository have their types.
THEOREM TypesHold == Spec => []TypeOK
<1>1. IInv => TypeOK
  BY DEF IInv
<1> QED BY <1>1, IInvHolds, PTL

\* Whoever pushed the factory branch, and whatever he lost before, the database has
\* an artifact of its head.
THEOREM NoPushIsUnknown == Spec => []PushedIsRecorded
<1>1. IInv => PushedIsRecorded
  BY DEF IInv, PushesAreRecorded
<1> QED BY <1>1, IInvHolds, PTL

\* A run that succeeded reports a commit that is, and stays, the head of the branch
\* under its draft, with every edit in it validated and its checks passed.
THEOREM SuccessesAreEarned == Spec => []SuccessIsEarned
<1>1. IInv => SuccessIsEarned
  BY DEF IInv, CompletionsStand
<1> QED BY <1>1, IInvHolds, PTL

LEMMA TwoAttempts ==
    ASSUME MaxAttempts <= 2, IInv PROVE EvidenceNeverStrands
<1> SUFFICES ASSUME rec.attempt < MaxAttempts PROVE EvidenceEligible
  BY DEF EvidenceNeverStrands
<1>1. /\ rec.attempt \in {0, 1} /\ rec.branch \in BOOLEAN
      /\ \A a \in ev.branch : a = 1
      /\ ev.draft \in BOOLEAN
  <2>1. rec \in RunRow /\ ev \in Evidence /\ RowKnows
    BY DEF IInv, TypeOK
  <2>2. rec.attempt \in {0, 1}
    BY <2>1, RunEvidenceAssumption DEF RunRow
  <2>3. \A a \in ev.branch : a \in Nat /\ a >= 1 /\ a <= rec.attempt
    BY <2>1, RunEvidenceAssumption DEF Evidence, Attempt, RowKnows
  <2> QED BY <2>1, <2>2, <2>3 DEF RunRow, Evidence
<1>2. Cardinality({}) = 0 /\ \A x : Cardinality({x}) = 1
  BY FS_EmptySet, FS_Singleton
<1>3. ev.branch = {} \/ ev.branch = {1}
  BY <1>1
<1>4. Cardinality(ev.branch) \in {0, 1} /\ (ev.branch # {} => Cardinality(ev.branch) = 1)
  BY <1>2, <1>3
<1>5. RowKnows /\ AttemptsApart
  BY DEF IInv
<1>6. CASE ev.commit = {}
  <2>1. ev.pull = {} /\ ~ev.draft
    BY <1>5, <1>6 DEF RowKnows
  <2>2. Cardinality(ev.branch) <= 1
    BY <1>4
  <2> QED BY <1>6, <2>1, <2>2 DEF EvidenceEligible, NothingPublished
<1>7. CASE ev.commit # {}
  <2>1. /\ rec.sha # None /\ RecordedIn(ev.commit, rec.sha) /\ ev.branch # {} /\ rec.branch
    BY <1>5, <1>7 DEF RowKnows
  <2>2. CASE ev.draft
    <3>1. PICK i \in ev.pull : TRUE
      BY <1>5, <2>2 DEF RowKnows
    <3>2. \A j \in ev.pull : j = i
      BY <1>1, <1>5, <3>1 DEF RowKnows, AttemptsApart
    <3>3. ev.pull = {i}
      BY <3>1, <3>2
    <3> QED BY <1>2, <1>4, <2>1, <2>2, <3>3 DEF EvidenceEligible, RecoverableHead
  <2>3. CASE ~ev.draft
    <3>1. ev.pull = {}
      BY <1>5, <2>3 DEF RowKnows
    <3> QED BY <1>2, <1>4, <2>1, <2>3, <3>1 DEF EvidenceEligible, RecoverableHead
  <2> QED BY <2>2, <2>3
<1> QED BY <1>6, <1>7

\* With the product's two attempts, no run is stranded by the evidence of the first.
THEOREM SecondAttemptsAreClaimable ==
    ASSUME MaxAttempts <= 2 PROVE Spec => []EvidenceNeverStrands
<1>1. IInv => EvidenceNeverStrands
  BY TwoAttempts
<1> QED BY <1>1, IInvHolds, PTL

\* Only the holder of the lease, in the latest attempt, adds to the evidence.
THEOREM OnlyTheHolderRecords == Spec => StaleWorkersRecordNothing
<1>1. ASSUME IInv, [Next]_vars PROVE RecordsByTheHolder
  <2>1. TypeOK /\ ev \in Evidence
    BY <1>1 DEF IInv, TypeOK
  <2>2. CASE UNCHANGED ev
    BY <2>2 DEF RecordsByTheHolder, Items
  <2>3. CASE UNCHANGED vars \/ LeaseExpires \/ Sweep \/ Retry \/ MoveBase
    BY <2>1, <2>2, <2>3, ControlWrites DEF vars
  <2>4. ASSUME NEW w \in Workers, WorkerNext(w) PROVE RecordsByTheHolder
    <3> DEFINE item == [attempt |-> proc[w].attempt, sha |-> proc[w].sha]
    <3>1. CASE RecordCommit(w) \/ RecordPull(w) \/ RecordHead(w)
      <4>1. HoldsLease(w) /\ rec'.attempt = rec.attempt /\ ~Claim(w)
        BY <2>1, <2>4, <3>1, HolderWrites, Written DEF Claim
      <4>2. \A i \in Items' \ Items : i = item
        <5>1. CASE RecordCommit(w)
          <6> DEFINE commit == ev.commit \cup {item}
          <6>1. ev' = [ev EXCEPT !.commit = commit]
            BY <5>1 DEF RecordCommit
          <6>2. /\ ev'.commit = commit /\ ev'.pull = ev.pull /\ ev'.head = ev.head
            <7> HIDE DEF commit
            <7> QED BY <2>1, <6>1 DEF Evidence
          <6> HIDE DEF item
          <6> QED BY <6>2 DEF Items
        <5>2. CASE RecordPull(w)
          <6>1. UNCHANGED ev \/ (/\ ev'.commit = ev.commit /\ ev'.head = ev.head
                                 /\ ev'.pull = ev.pull \cup {item})
            BY <2>1, <5>2, PullWritten
          <6> HIDE DEF item
          <6> QED BY <6>1 DEF Items
        <5>3. CASE RecordHead(w)
          <6> DEFINE head == ev.head \cup {item}
          <6>1. UNCHANGED ev \/ ev' = [ev EXCEPT !.head = head]
            BY <5>3 DEF RecordHead
          <6>2. UNCHANGED ev \/ (ev'.commit = ev.commit /\ ev'.pull = ev.pull /\ ev'.head = head)
            <7> HIDE DEF head
            <7> QED BY <2>1, <6>1 DEF Evidence
          <6> HIDE DEF item
          <6> QED BY <6>2 DEF Items
        <5> QED BY <3>1, <5>1, <5>2, <5>3
      <4>3. item.attempt = rec.attempt /\ rec.live
        BY <4>1 DEF HoldsLease
      <4> HIDE DEF item
      <4> QED BY <4>1, <4>2, <4>3 DEF RecordsByTheHolder
    <3>2. CASE ~(RecordCommit(w) \/ RecordPull(w) \/ RecordHead(w))
      <4>1. ev'.commit = ev.commit /\ ev'.pull = ev.pull
        BY <2>1, <2>4, <3>2, Written
      <4>2. ev'.head = ev.head
        BY <2>1, <2>4, <3>2, HeadsStand
      <4> QED BY <4>1, <4>2 DEF RecordsByTheHolder, Items
    <3> QED BY <3>1, <3>2
  <2> QED BY <1>1, <2>3, <2>4 DEF Next
<1>2. ASSUME IInv, [Next]_vars PROVE [RecordsByTheHolder]_vars
  BY <1>1, <1>2
<1> QED BY <1>2, IInvHolds, PTL DEF Spec, StaleWorkersRecordNothing

\* A plan moves to another base only while nothing was pushed for the run.
THEOREM ReplansOrphanNothing == Spec => ReplanOrphansNothing
<1>1. ASSUME IInv, [Next]_vars PROVE rec'.base # rec.base => github.branch = None
  <2> SUFFICES ASSUME rec'.base # rec.base PROVE github.branch = None
    OBVIOUS
  <2>1. PICK w \in Workers : Replan(w) /\ rec' # rec
    BY <1>1, Written, ControlWrites DEF IInv, Next, vars
  <2>2. rec.sha = None
    BY <2>1 DEF Replan
  <2> QED BY <1>1, <2>2 DEF IInv, RowKnows, PushesAreRecorded, PushedIsRecorded, RecordedIn
<1>2. ASSUME IInv, [Next]_vars PROVE [rec'.base # rec.base => github.branch = None]_vars
  BY <1>1, <1>2
<1> QED BY <1>2, IInvHolds, PTL DEF Spec, ReplanOrphansNothing
=============================================================================
