------------------------------ MODULE WorkLocks ------------------------------
(***************************************************************************)
(* The leased locks over path prefixes of one project (task_work_locks):   *)
(* acquire, heartbeat, release and sweep, called by many sessions at once. *)
(*                                                                         *)
(* The functions compare leases with now(), which PostgreSQL fixes when a  *)
(* transaction begins; one that then waits for the project's advisory lock *)
(* or for a row works with an old now().  A call takes effect with a now() *)
(* up to Wait old, and an acquisition is three steps between which other   *)
(* sessions run: it marks what has lapsed, looks for a conflict, inserts.  *)
(* Its marks are seen, and its row locks given up, when it ends.           *)
(***************************************************************************)
EXTENDS Integers, FiniteSetsExt

CONSTANTS
    Sessions,       \* the connections that acquire
    Prefixes,       \* path prefixes
    Overlap,        \* the pairs of prefixes of which one starts the other
    Rows,           \* bound: task_work_locks rows of the project
    Leases,         \* the leases a caller may ask for (60 to 3600 seconds)
    Wait,           \* how old a transaction may grow
    Horizon         \* bound: when time stops

\* The exclusion of overlapping locks needs Wait to be below every lease.
ASSUME WorkLocksAssumption ==
    /\ Overlap \subseteq Prefixes \X Prefixes
    /\ \A p \in Prefixes : <<p, p>> \in Overlap
    /\ \A p, q \in Prefixes : <<p, q>> \in Overlap => <<q, p>> \in Overlap
    /\ Wait \in Nat /\ Leases \subseteq Nat /\ \A d \in Leases : d > Wait
    /\ Horizon \in Nat

VARIABLES
    clock,          \* clock_timestamp()
    state,          \* "unused", or how the row stands: held, released, expired
    prefix,         \* path_prefix
    until,          \* expires_at
    born,           \* when the row's insertion was committed
    call,           \* where the session is in an acquisition
    want,           \* the prefix it asks for
    since,          \* its now()
    marked          \* the rows it marked expired, not yet committed

rows    == <<state, prefix, until, born>>
session == <<call, want, since, marked>>
vars    == <<clock, rows, session>>

TypeOK ==
    /\ clock \in 0..Horizon
    /\ state \in [Rows -> {"unused", "held", "released", "expired"}]
    /\ prefix \in [Rows -> Prefixes]
    /\ until \in [Rows -> Nat] /\ born \in [Rows -> 0..Horizon]
    /\ call \in [Sessions -> {"none", "looking", "inserting"}]
    /\ want \in [Sessions -> Prefixes]
    /\ since \in [Sessions -> 0..Horizon]
    /\ marked \in [Sessions -> SUBSET Rows]

Init ==
    /\ clock = 0
    /\ state = [r \in Rows |-> "unused"]
    /\ \E p \in Prefixes : prefix = [r \in Rows |-> p] /\ want = [s \in Sessions |-> p]
    /\ until = [r \in Rows |-> 0] /\ born = [r \in Rows |-> 0]
    /\ call = [s \in Sessions |-> "none"]
    /\ since = [s \in Sessions |-> 0] /\ marked = [s \in Sessions |-> {}]

-----------------------------------------------------------------------------
Held == {r \in Rows : state[r] = "held"}

Lapsed(at) == {r \in Held : until[r] <= at}

\* The now() a call that takes effect at this moment may have.
Times == {t \in 0..clock : clock <= t + Wait}

\* Rows another transaction has written: a statement that writes one waits.
Locked == UNION {marked[s] : s \in Sessions}

\* Mutant: acquisitions are not serialised by the project's advisory lock.
EnterUnserialised(s) ==
    /\ call[s] = "none"
    /\ call' = [call EXCEPT ![s] = "looking"]
    /\ \E p \in Prefixes, at \in Times :
        /\ Lapsed(at) \cap Locked = {}
        /\ want' = [want EXCEPT ![s] = p] /\ since' = [since EXCEPT ![s] = at]
        /\ marked' = [marked EXCEPT ![s] = Lapsed(at)]
    /\ UNCHANGED <<clock, rows>>

\* acquire_task_work_lock has the advisory lock and marks what has lapsed.
Enter(s) ==
    /\ \A other \in Sessions : call[other] = "none"
    /\ call' = [call EXCEPT ![s] = "looking"]
    /\ \E p \in Prefixes, at \in Times :
        /\ want' = [want EXCEPT ![s] = p] /\ since' = [since EXCEPT ![s] = at]
        /\ marked' = [marked EXCEPT ![s] = Lapsed(at)]
    /\ UNCHANGED <<clock, rows>>

\* What its select finds: live by its own now(), and overlapping.
Conflicts(s) ==
    {r \in Held \ marked[s] : until[r] > since[s] /\ <<prefix[r], want[s]>> \in Overlap}

\* What the unique index holds against its insert: the same prefix on a row
\* that was not released.  An expired row was not.
Indexed(s) == {r \in Rows : state[r] \in {"held", "expired"} /\ prefix[r] = want[s]}

Ended(s) ==
    /\ call' = [call EXCEPT ![s] = "none"]
    /\ marked' = [marked EXCEPT ![s] = {}]
    /\ since' = [since EXCEPT ![s] = 0]
    /\ UNCHANGED <<clock, want>>

Marked(s) == [r \in Rows |-> IF r \in marked[s] THEN "expired" ELSE state[r]]

Refuse(s) ==
    /\ call[s] = "looking" /\ Conflicts(s) # {}
    /\ state' = Marked(s)
    /\ Ended(s) /\ UNCHANGED <<prefix, until, born>>

FindNone(s) ==
    /\ call[s] = "looking" /\ Conflicts(s) = {}
    /\ call' = [call EXCEPT ![s] = "inserting"]
    /\ UNCHANGED <<clock, rows, want, since, marked>>

Insert(s) ==
    /\ call[s] = "inserting" /\ Indexed(s) = {}
    /\ \E r \in Rows, lease \in Leases :
        /\ state[r] = "unused"
        /\ state' = [Marked(s) EXCEPT ![r] = "held"]
        /\ prefix' = [prefix EXCEPT ![r] = want[s]]
        /\ until' = [until EXCEPT ![r] = since[s] + lease]
        /\ born' = [born EXCEPT ![r] = clock]
    /\ Ended(s)

\* The index refuses the insert, or the session is lost: nothing is kept.
Rollback(s) == call[s] # "none" /\ Ended(s) /\ UNCHANGED rows

\* Mutant: the heartbeat reads the row without FOR UPDATE.  Its update, by id,
\* waits for whoever is retiring the row, and then extends it all the same.
HeartbeatUnchecked ==
    /\ \E r \in Rows \ Locked, at \in Times, lease \in Leases :
        /\ state[r] \in {"held", "expired"} /\ at >= born[r] /\ until[r] > at
        /\ until' = [until EXCEPT ![r] = at + lease]
    /\ UNCHANGED <<clock, state, prefix, born, session>>

\* heartbeat_task_work_lock: only a live lease is extended, by a caller who
\* has its id.
Heartbeat ==
    /\ \E r \in Held \ Locked, at \in Times, lease \in Leases :
        /\ at >= born[r] /\ until[r] > at
        /\ until' = [until EXCEPT ![r] = at + lease]
    /\ UNCHANGED <<clock, state, prefix, born, session>>

\* release_task_work_lock looks at released_at only; on an expired row the
\* constraint of one ending refuses it, and the row stays as it is.
Release ==
    /\ \E r \in Held \ Locked : state' = [state EXCEPT ![r] = "released"]
    /\ UNCHANGED <<clock, prefix, until, born, session>>

\* expire_abandoned_task_work_locks.
Sweep ==
    /\ \E at \in Times :
        /\ Lapsed(at) # {} /\ Lapsed(at) \cap Locked = {}
        /\ state' = [r \in Rows |-> IF r \in Lapsed(at) THEN "expired" ELSE state[r]]
    /\ UNCHANGED <<clock, prefix, until, born, session>>

\* Time passes; no transaction outlives Wait.
Tick ==
    /\ clock < Horizon /\ clock' = clock + 1
    /\ \A s \in Sessions : call[s] # "none" => clock < since[s] + Wait
    /\ UNCHANGED <<rows, session>>

Next ==
    \/ \E s \in Sessions : Enter(s) \/ Refuse(s) \/ FindNone(s) \/ Insert(s) \/ Rollback(s)
    \/ Heartbeat \/ Release \/ Sweep \/ Tick

Spec == Init /\ [][Next]_vars

-----------------------------------------------------------------------------
(* Properties. *)

\* Two live locks never overlap, in either direction, although heartbeats and
\* acquisitions work with old clocks and between each other's steps.
HoldersExclude ==
    \A r, q \in Held : r # q /\ until[r] > clock /\ until[q] > clock =>
        <<prefix[r], prefix[q]>> \notin Overlap

\* The ground of a live lock is not taken, and taken ground is not claimed back:
\* a row is marked expired only when its lease, as last extended, has run out,
\* and no heartbeat that found the row live before extends it after.
RetiredLocksAreOver == \A r \in Rows : state[r] = "expired" => until[r] <= clock

-----------------------------------------------------------------------------
(* Claims of the repository that the code does not keep. *)

\* 20260817000400: "a dead holder never blocks a live one".
DeadHoldersNeverBlock ==
    \A s \in Sessions : call[s] = "inserting" => Indexed(s) = {}
=============================================================================
