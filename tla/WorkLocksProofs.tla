--------------------------- MODULE WorkLocksProofs ---------------------------
(***************************************************************************)
(* Two live locks never overlap and a live lock is never retired, for      *)
(* any number of sessions, prefixes and rows, any overlap relation and any *)
(* leases, provided that no transaction lives as long as the shortest one. *)
(*                                                                         *)
(* Live locks being apart is not inductive: a lock that lapses and is then *)
(* extended by a heartbeat with an old now() is live again.  What is, is   *)
(* that all rows neither released nor expired are apart: whoever inserts   *)
(* has marked every row that had lapsed for it, and found no other.        *)
(***************************************************************************)
EXTENDS WorkLocks, TLAPS

\* What an acquisition has done so far still holds, and it is the only one.
Acquires(s) ==
    /\ \A t \in Sessions : call[t] # "none" => t = s
    /\ since[s] <= clock /\ clock <= since[s] + Wait
    /\ marked[s] \subseteq Lapsed(since[s])
    /\ \A r \in Held \ marked[s] : until[r] > since[s]
    /\ call[s] = "inserting" =>
          \A r \in Held \ marked[s] : <<prefix[r], want[s]>> \notin Overlap

SessionsInOrder ==
    \A s \in Sessions : IF call[s] = "none" THEN marked[s] = {} ELSE Acquires(s)

HeldApart ==
    \A r, q \in Held : r # q => <<prefix[r], prefix[q]>> \notin Overlap

IInv == TypeOK /\ SessionsInOrder /\ HeldApart

-----------------------------------------------------------------------------
LEMMA TypeInit == Init => TypeOK
<1> SUFFICES ASSUME Init PROVE TypeOK
  OBVIOUS
<1>1. clock \in 0..Horizon /\ 0 \in 0..Horizon
  BY WorkLocksAssumption DEF Init
<1>2. state \in [Rows -> {"unused", "held", "released", "expired"}]
  BY DEF Init
<1>3. prefix \in [Rows -> Prefixes] /\ want \in [Sessions -> Prefixes]
  BY DEF Init
<1>4. until \in [Rows -> Nat] /\ born \in [Rows -> 0..Horizon]
  BY <1>1 DEF Init
<1>5. call \in [Sessions -> {"none", "looking", "inserting"}]
  BY DEF Init
<1>6. since \in [Sessions -> 0..Horizon] /\ marked \in [Sessions -> SUBSET Rows]
  BY <1>1 DEF Init
<1> QED BY <1>1, <1>2, <1>3, <1>4, <1>5, <1>6 DEF TypeOK

LEMMA TimesAreTimes ==
    ASSUME TypeOK, NEW t \in Times
    PROVE  t \in 0..Horizon /\ t \in Nat /\ t <= clock /\ clock <= t + Wait
BY WorkLocksAssumption DEF TypeOK, Times

LEMMA TypeNext == TypeOK /\ [Next]_vars => TypeOK'
<1> SUFFICES ASSUME TypeOK, [Next]_vars PROVE TypeOK'
  OBVIOUS
<1>0. /\ \A s \in Sessions : Marked(s) \in [Rows -> {"unused", "held", "released", "expired"}]
      /\ \A lease \in Leases : lease \in Nat
      /\ \A at : Lapsed(at) \subseteq Rows
  BY WorkLocksAssumption DEF TypeOK, Marked, Lapsed, Held
<1>a. ASSUME NEW s \in Sessions, Ended(s)
      PROVE  /\ call' \in [Sessions -> {"none", "looking", "inserting"}]
             /\ marked' \in [Sessions -> SUBSET Rows]
             /\ since' \in [Sessions -> 0..Horizon]
             /\ clock' \in 0..Horizon /\ want' \in [Sessions -> Prefixes]
  BY <1>a, WorkLocksAssumption DEF TypeOK, Ended
<1>1. ASSUME NEW s \in Sessions, Enter(s) PROVE TypeOK'
  <2>1. PICK p \in Prefixes, at \in Times :
           /\ want' = [want EXCEPT ![s] = p] /\ since' = [since EXCEPT ![s] = at]
           /\ marked' = [marked EXCEPT ![s] = Lapsed(at)]
    BY <1>1 DEF Enter
  <2>2. at \in 0..Horizon
    BY TimesAreTimes
  <2>3. want' \in [Sessions -> Prefixes] /\ since' \in [Sessions -> 0..Horizon]
    BY <2>1, <2>2 DEF TypeOK
  <2>4. marked' \in [Sessions -> SUBSET Rows]
    BY <1>0, <2>1 DEF TypeOK
  <2>5. call' \in [Sessions -> {"none", "looking", "inserting"}]
    BY <1>1 DEF Enter, TypeOK
  <2> QED BY <1>1, <2>3, <2>4, <2>5 DEF Enter, TypeOK, rows
<1>2. ASSUME NEW s \in Sessions, Refuse(s) PROVE TypeOK'
  BY <1>0, <1>a, <1>2 DEF Refuse, TypeOK
<1>3. ASSUME NEW s \in Sessions, FindNone(s) PROVE TypeOK'
  BY <1>3 DEF FindNone, TypeOK, rows
<1>4. ASSUME NEW s \in Sessions, Insert(s) PROVE TypeOK'
  <2>1. PICK r \in Rows, lease \in Leases :
           /\ state' = [Marked(s) EXCEPT ![r] = "held"]
           /\ prefix' = [prefix EXCEPT ![r] = want[s]]
           /\ until' = [until EXCEPT ![r] = since[s] + lease]
           /\ born' = [born EXCEPT ![r] = clock]
    BY <1>4 DEF Insert
  <2>2. state' \in [Rows -> {"unused", "held", "released", "expired"}]
    BY <1>0, <2>1
  <2>3. since[s] + lease \in Nat
    BY <1>0 DEF TypeOK
  <2>4. until' \in [Rows -> Nat] /\ born' \in [Rows -> 0..Horizon] /\ prefix' \in [Rows -> Prefixes]
    BY <2>1, <2>3 DEF TypeOK
  <2> QED BY <1>4, <1>a, <2>2, <2>4 DEF Insert, TypeOK
<1>5. ASSUME NEW s \in Sessions, Rollback(s) PROVE TypeOK'
  BY <1>a, <1>5 DEF Rollback, TypeOK, rows
<1>6. CASE Heartbeat
  <2>1. PICK r \in Rows, at \in Times, lease \in Leases : until' = [until EXCEPT ![r] = at + lease]
    BY <1>6 DEF Heartbeat, Held
  <2>2. at + lease \in Nat
    BY <1>0, TimesAreTimes
  <2>3. until' \in [Rows -> Nat]
    BY <2>1, <2>2 DEF TypeOK
  <2> QED BY <1>6, <2>3 DEF Heartbeat, TypeOK, session
<1>7. CASE Release
  BY <1>7 DEF Release, Held, TypeOK, session
<1>8. CASE Sweep
  BY <1>8 DEF Sweep, TypeOK, session
<1>9. CASE Tick
  BY <1>9, WorkLocksAssumption DEF Tick, TypeOK, rows, session
<1>10. CASE UNCHANGED vars
  BY <1>10 DEF vars, rows, session, TypeOK
<1> QED BY <1>1, <1>2, <1>3, <1>4, <1>5, <1>6, <1>7, <1>8, <1>9, <1>10 DEF Next

-----------------------------------------------------------------------------
(* Steps of an acquisition.                                                *)

LEMMA Entering ==
    ASSUME IInv, NEW s \in Sessions, Enter(s)
    PROVE  SessionsInOrder' /\ HeldApart'
<1>1. PICK at \in Times :
         since' = [since EXCEPT ![s] = at] /\ marked' = [marked EXCEPT ![s] = Lapsed(at)]
  BY DEF Enter
<1>2. /\ \A t \in Sessions : call[t] = "none"
      /\ call' = [call EXCEPT ![s] = "looking"]
      /\ UNCHANGED <<clock, state, prefix, until, born>>
  BY DEF Enter, rows
<1>3. Held' = Held /\ \A t : Lapsed(t)' = Lapsed(t)
  BY <1>2 DEF Held, Lapsed
<1>4. since'[s] = at /\ marked'[s] = Lapsed(at) /\ call'[s] = "looking"
  BY <1>1, <1>2 DEF IInv, TypeOK
<1>5. \A t \in Sessions : t # s => call'[t] = "none" /\ marked'[t] = {}
  BY <1>1, <1>2 DEF IInv, TypeOK, SessionsInOrder
<1>6. at <= clock /\ clock <= at + Wait /\ at \in Nat
  BY TimesAreTimes DEF IInv
<1>7. \A r \in Held \ Lapsed(at) : until[r] > at
  BY <1>6 DEF Lapsed, Held, IInv, TypeOK
<1>8. Acquires(s)'
  BY <1>2, <1>3, <1>4, <1>5, <1>6, <1>7 DEF Acquires
<1>9. SessionsInOrder'
  BY <1>4, <1>5, <1>8 DEF SessionsInOrder
<1> QED BY <1>2, <1>3, <1>9 DEF IInv, HeldApart

\* An acquisition that ends leaves no other behind.
LEMMA Ending ==
    ASSUME IInv, NEW s \in Sessions, call[s] # "none", Ended(s)
    PROVE  SessionsInOrder'
<1>1. \A t \in Sessions : t # s => call[t] = "none" /\ marked[t] = {}
  BY DEF IInv, SessionsInOrder, Acquires
<1>2. \A t \in Sessions : call'[t] = "none" /\ marked'[t] = {}
  BY <1>1 DEF Ended, IInv, TypeOK
<1> QED BY <1>2 DEF SessionsInOrder

LEMMA Inserting ==
    ASSUME IInv, NEW s \in Sessions, Insert(s)
    PROVE  HeldApart'
<1>1. PICK r \in Rows :
         /\ state[r] = "unused"
         /\ state' = [Marked(s) EXCEPT ![r] = "held"]
         /\ prefix' = [prefix EXCEPT ![r] = want[s]]
  BY DEF Insert
<1>2. /\ r \notin Held /\ want[s] \in Prefixes
      /\ \A q \in Held \ marked[s] : <<prefix[q], want[s]>> \notin Overlap
  BY <1>1 DEF Insert, IInv, SessionsInOrder, Acquires, Held, TypeOK
<1>3. \A q \in Rows : q # r => prefix'[q] = prefix[q] /\ state'[q] = Marked(s)[q]
  BY <1>1 DEF IInv, TypeOK, Marked
<1>4. prefix'[r] = want[s]
  BY <1>1 DEF IInv, TypeOK
<1>5. \A q \in Held' : q = r \/ (q \in Held \ marked[s] /\ prefix'[q] = prefix[q])
  BY <1>3 DEF Held, Marked
<1>6. \A p, q \in Prefixes : <<p, q>> \in Overlap => <<q, p>> \in Overlap
  BY WorkLocksAssumption
<1>7. \A q \in Held : prefix[q] \in Prefixes
  BY DEF Held, IInv, TypeOK
<1> QED BY <1>2, <1>4, <1>5, <1>6, <1>7 DEF IInv, HeldApart

\* A step of anybody else: no row comes, the marked ones stay, and what is
\* extended is extended beyond the clock.
LEMMA Interfering ==
    ASSUME IInv, TypeOK', UNCHANGED <<session, prefix>>, clock <= clock',
           \A s \in Sessions : call[s] # "none" => clock' <= since[s] + Wait,
           Held' \subseteq Held,
           \A r \in Locked : state'[r] = state[r] /\ until'[r] = until[r],
           \A r \in Held : until'[r] = until[r] \/ until'[r] > clock
    PROVE  SessionsInOrder' /\ HeldApart'
<1>1. UNCHANGED <<call, want, since, marked, prefix>>
  BY DEF session
<1>2. ASSUME NEW s \in Sessions, call[s] # "none" PROVE Acquires(s)'
  <2>1. Acquires(s)
    BY <1>2 DEF IInv, SessionsInOrder
  <2>2. /\ clock \in Nat /\ clock' \in Nat /\ since[s] \in Nat
        /\ \A r \in Rows : until[r] \in Nat /\ until'[r] \in Nat
    BY <1>1, WorkLocksAssumption DEF IInv, TypeOK
  <2>3. since[s] <= clock' /\ clock' <= since[s] + Wait
    BY <1>2, <2>1, <2>2 DEF Acquires
  <2>4. marked[s] \subseteq Lapsed(since[s])'
    <3>1. ASSUME NEW r \in marked[s] PROVE r \in Lapsed(since[s])'
      <4>1. r \in Locked /\ r \in Lapsed(since[s])
        BY <2>1 DEF Locked, Acquires
      <4>2. r \in Rows /\ state'[r] = "held" /\ until'[r] <= since[s]
        BY <4>1 DEF Lapsed, Held
      <4> QED BY <1>1, <4>2 DEF Lapsed, Held
    <3> QED BY <3>1
  <2>5. \A r \in Held' \ marked[s] : until'[r] > since[s]
    <3>1. ASSUME NEW r \in Held \ marked[s] PROVE until'[r] > since[s]
      BY <2>1, <2>2 DEF Acquires, Held
    <3> QED BY <3>1
  <2> QED BY <1>1, <2>1, <2>3, <2>4, <2>5 DEF Acquires
<1>3. SessionsInOrder'
  BY <1>1, <1>2 DEF IInv, SessionsInOrder
<1>4. HeldApart'
  BY <1>1 DEF IInv, HeldApart
<1> QED BY <1>3, <1>4

-----------------------------------------------------------------------------
LEMMA IInvInit == Init => IInv
<1> SUFFICES ASSUME Init PROVE IInv
  OBVIOUS
<1>1. SessionsInOrder /\ HeldApart
  BY DEF Init, SessionsInOrder, HeldApart, Held
<1> QED BY <1>1, TypeInit DEF IInv

LEMMA IInvNext == IInv /\ [Next]_vars => IInv'
<1> SUFFICES ASSUME IInv, [Next]_vars PROVE IInv'
  OBVIOUS
<1>0. TypeOK'
  BY TypeNext DEF IInv
<1>a. clock \in Nat /\ clock <= clock /\ Wait \in Nat
  BY WorkLocksAssumption DEF IInv, TypeOK
<1>b. \A s \in Sessions : call[s] # "none" => clock <= since[s] + Wait
  BY DEF IInv, SessionsInOrder, Acquires
<1>c. Locked \subseteq Held
  BY DEF Locked, IInv, SessionsInOrder, Acquires, Lapsed
<1>1. ASSUME NEW s \in Sessions, Enter(s) PROVE IInv'
  BY <1>0, <1>1, Entering DEF IInv
<1>2. ASSUME NEW s \in Sessions, Refuse(s) PROVE IInv'
  <2>1. SessionsInOrder'
    BY <1>2, Ending DEF Refuse
  <2>2. Held' \subseteq Held /\ prefix' = prefix
    BY <1>2 DEF Refuse, Marked, Held
  <2>3. HeldApart'
    BY <2>2 DEF IInv, HeldApart
  <2> QED BY <1>0, <2>1, <2>3 DEF IInv
<1>3. ASSUME NEW s \in Sessions, FindNone(s) PROVE IInv'
  <2>1. /\ call' = [call EXCEPT ![s] = "inserting"] /\ call[s] = "looking"
        /\ UNCHANGED <<clock, state, prefix, until, born, want, since, marked>>
    BY <1>3 DEF FindNone, rows
  <2>2. Held' = Held /\ (\A t : Lapsed(t)' = Lapsed(t))
    BY <2>1 DEF Held, Lapsed
  <2>3. Acquires(s) /\ \A r \in Held \ marked[s] : <<prefix[r], want[s]>> \notin Overlap
    BY <1>3, <2>1 DEF IInv, SessionsInOrder, Acquires, FindNone, Conflicts
  <2>4. call'[s] = "inserting" /\ \A t \in Sessions : t # s => call'[t] = "none" /\ marked[t] = {}
    BY <2>1, <2>3 DEF IInv, TypeOK, SessionsInOrder, Acquires
  <2>5. Acquires(s)'
    BY <2>1, <2>2, <2>3, <2>4 DEF Acquires
  <2>6. SessionsInOrder'
    BY <2>1, <2>4, <2>5 DEF SessionsInOrder
  <2> QED BY <1>0, <2>1, <2>2, <2>6 DEF IInv, HeldApart
<1>4. ASSUME NEW s \in Sessions, Insert(s) PROVE IInv'
  BY <1>0, <1>4, Ending, Inserting DEF IInv, Insert
<1>5. ASSUME NEW s \in Sessions, Rollback(s) PROVE IInv'
  <2>1. SessionsInOrder'
    BY <1>5, Ending DEF Rollback
  <2>2. HeldApart'
    BY <1>5 DEF Rollback, rows, IInv, HeldApart, Held
  <2> QED BY <1>0, <2>1, <2>2 DEF IInv
<1>6. CASE Heartbeat
  <2>1. PICK r \in Held \ Locked, at \in Times, lease \in Leases :
           until' = [until EXCEPT ![r] = at + lease]
    BY <1>6 DEF Heartbeat
  <2>2. UNCHANGED <<clock, state, prefix, session>>
    BY <1>6 DEF Heartbeat
  <2>3. at + lease > clock
    <3>1. at \in Nat /\ clock <= at + Wait
      BY TimesAreTimes DEF IInv
    <3>2. lease \in Nat /\ lease > Wait
      BY WorkLocksAssumption
    <3> QED BY <1>a, <3>1, <3>2
  <2>4. \A q \in Held : until'[q] = until[q] \/ until'[q] > clock
    BY <2>1, <2>3 DEF IInv, TypeOK, Held
  <2>5. \A q \in Locked : until'[q] = until[q]
    BY <1>c, <2>1 DEF IInv, TypeOK, Held
  <2>6. Held' = Held
    BY <2>2 DEF Held
  <2> QED BY <1>0, <1>a, <1>b, <2>2, <2>4, <2>5, <2>6, Interfering DEF IInv
<1>7. CASE Release
  <2>1. PICK r \in Held \ Locked : state' = [state EXCEPT ![r] = "released"]
    BY <1>7 DEF Release
  <2>2. UNCHANGED <<clock, prefix, until, session>>
    BY <1>7 DEF Release
  <2>3. Held' \subseteq Held /\ \A q \in Locked : state'[q] = state[q]
    BY <1>c, <2>1 DEF Held, IInv, TypeOK
  <2> QED BY <1>0, <1>a, <1>b, <2>2, <2>3, Interfering DEF IInv
<1>8. CASE Sweep
  <2>1. PICK at \in Times :
           /\ Lapsed(at) \cap Locked = {}
           /\ state' = [r \in Rows |-> IF r \in Lapsed(at) THEN "expired" ELSE state[r]]
    BY <1>8 DEF Sweep
  <2>2. UNCHANGED <<clock, prefix, until, session>>
    BY <1>8 DEF Sweep
  <2>3. Held' \subseteq Held /\ \A q \in Locked : state'[q] = state[q]
    BY <1>c, <2>1 DEF Held
  <2> QED BY <1>0, <1>a, <1>b, <2>2, <2>3, Interfering DEF IInv
<1>9. CASE Tick
  <2>1. UNCHANGED <<state, prefix, until, session>> /\ clock' = clock + 1
    BY <1>9 DEF Tick, rows
  <2>2. \A s \in Sessions : call[s] # "none" => clock' <= since[s] + Wait
    BY <1>9, <1>a DEF Tick, IInv, TypeOK
  <2>3. Held' = Held
    BY <2>1 DEF Held
  <2> QED BY <1>0, <1>a, <2>1, <2>2, <2>3, Interfering DEF IInv
<1>10. CASE UNCHANGED vars
  <2>1. UNCHANGED <<clock, state, prefix, until, session>>
    BY <1>10 DEF vars, rows
  <2>2. Held' = Held
    BY <2>1 DEF Held
  <2> QED BY <1>0, <1>a, <1>b, <2>1, <2>2, Interfering DEF IInv
<1> QED BY <1>1, <1>2, <1>3, <1>4, <1>5, <1>6, <1>7, <1>8, <1>9, <1>10 DEF Next

-----------------------------------------------------------------------------
(* What holds of every project, however many sessions and rows.            *)

LEMMA IInvHolds == Spec => []IInv
<1> QED BY IInvInit, IInvNext, PTL DEF Spec

\* The rows stay what their columns admit.
THEOREM LockTypesCorrect == Spec => []TypeOK
<1>1. IInv => TypeOK
  BY DEF IInv
<1> QED BY <1>1, IInvHolds, PTL

\* Two live locks never overlap.
THEOREM LiveLocksExclude == Spec => []HoldersExclude
<1>1. IInv => HoldersExclude
  BY DEF IInv, HeldApart, HoldersExclude
<1> QED BY <1>1, IInvHolds, PTL

\* A lock is only retired when its lease, as last extended, has run out: its row
\* had lapsed for a now() that is not in the future, and is locked until the
\* commit.
LEMMA RetiredWhenOver ==
    ASSUME IInv, Next, NEW r \in Held, state'[r] = "expired"
    PROVE  until[r] <= clock
<1>1. r \in Rows /\ state[r] = "held" /\ until[r] \in Nat /\ clock \in Nat
  BY WorkLocksAssumption DEF Held, IInv, TypeOK
<1>2. ASSUME NEW s \in Sessions, Refuse(s) \/ Insert(s) PROVE until[r] <= clock
  <2>1. state' = Marked(s) \/ \E q \in Rows : state' = [Marked(s) EXCEPT ![q] = "held"]
    BY <1>2 DEF Refuse, Insert
  <2>2. r \in marked[s]
    BY <1>1, <2>1 DEF Marked
  <2>3. Acquires(s)
    BY <2>2 DEF IInv, SessionsInOrder
  <2>4. until[r] <= since[s] /\ since[s] <= clock /\ since[s] \in Nat
    BY <2>2, <2>3, WorkLocksAssumption DEF Acquires, Lapsed, IInv, TypeOK
  <2> QED BY <1>1, <2>4
<1>3. ASSUME Sweep PROVE until[r] <= clock
  <2>1. PICK at \in Times :
           state' = [q \in Rows |-> IF q \in Lapsed(at) THEN "expired" ELSE state[q]]
    BY <1>3 DEF Sweep
  <2>2. until[r] <= at /\ at <= clock /\ at \in Nat
    BY <1>1, <2>1, TimesAreTimes DEF Lapsed, IInv
  <2> QED BY <1>1, <2>2
<1>4. state' # state
  BY <1>1
<1>5. ~Release
  BY <1>1 DEF Release, IInv, TypeOK
<1> QED BY <1>2, <1>3, <1>4, <1>5 DEF Next, Enter, FindNone, Rollback, Heartbeat, Tick, rows

\* What is retired stays so, and is not extended.
LEMMA RetiredRests ==
    ASSUME IInv, Next, NEW r \in Rows, state'[r] = "expired"
    PROVE  state[r] \in {"held", "expired"} /\ until'[r] = until[r]
<1>1. ASSUME NEW s \in Sessions, Insert(s)
      PROVE  state[r] \in {"held", "expired"} /\ until'[r] = until[r]
  <2>1. PICK q \in Rows, lease \in Leases :
           /\ state' = [Marked(s) EXCEPT ![q] = "held"]
           /\ until' = [until EXCEPT ![q] = since[s] + lease]
    BY <1>1 DEF Insert
  <2>2. r # q /\ Marked(s)[r] = "expired"
    BY <2>1 DEF Marked
  <2>3. until'[r] = until[r]
    BY <2>1, <2>2 DEF IInv, TypeOK
  <2>4. marked[s] \subseteq Held
    BY DEF IInv, SessionsInOrder, Acquires, Lapsed
  <2> QED BY <2>2, <2>3, <2>4 DEF Marked, Held
<1>2. ASSUME NEW s \in Sessions, Refuse(s)
      PROVE  state[r] \in {"held", "expired"} /\ until'[r] = until[r]
  <2>1. marked[s] \subseteq Held
    BY DEF IInv, SessionsInOrder, Acquires, Lapsed
  <2> QED BY <1>2, <2>1 DEF Refuse, Marked, Held
<1>3. ASSUME Heartbeat PROVE state[r] = "expired" /\ until'[r] = until[r]
  <2>1. PICK q \in Held, at \in Times, lease \in Leases : until' = [until EXCEPT ![q] = at + lease]
    BY <1>3 DEF Heartbeat
  <2>2. state[r] = "expired" /\ r # q
    BY <1>3 DEF Heartbeat, Held
  <2> QED BY <2>1, <2>2 DEF IInv, TypeOK
<1>4. ASSUME Release PROVE state[r] = "expired" /\ until'[r] = until[r]
  <2>1. PICK q \in Held : state' = [state EXCEPT ![q] = "released"]
    BY <1>4 DEF Release
  <2> QED BY <1>4, <2>1 DEF Release, IInv, TypeOK
<1>5. ASSUME Sweep PROVE state[r] \in {"held", "expired"} /\ until'[r] = until[r]
  BY <1>5 DEF Sweep, Lapsed, Held
<1>6. ASSUME UNCHANGED rows PROVE state[r] = "expired" /\ until'[r] = until[r]
  BY <1>6 DEF rows
<1> QED BY <1>1, <1>2, <1>3, <1>4, <1>5, <1>6 DEF Next, Enter, FindNone, Rollback, Tick

\* A live lock is never retired, and a retired one never extended, in whatever
\* order heartbeats, sweeps and the steps of acquisitions come.
THEOREM LiveLocksAreNotTaken == Spec => []RetiredLocksAreOver
<1>1. Init => RetiredLocksAreOver
  BY DEF Init, RetiredLocksAreOver
<1>2. IInv /\ RetiredLocksAreOver /\ [Next]_vars => RetiredLocksAreOver'
  <2> SUFFICES ASSUME IInv, RetiredLocksAreOver, [Next]_vars, NEW r \in Rows, state'[r] = "expired"
               PROVE  until'[r] <= clock'
    BY DEF RetiredLocksAreOver
  <2>1. CASE UNCHANGED vars
    BY <2>1 DEF vars, rows, RetiredLocksAreOver
  <2>2. CASE Next
    <3>1. state[r] \in {"held", "expired"} /\ until'[r] = until[r]
      BY <2>2, RetiredRests
    <3>2. until[r] <= clock
      BY <2>2, <3>1, RetiredWhenOver DEF Held, RetiredLocksAreOver
    <3>3. clock <= clock'
      BY <2>2, WorkLocksAssumption
         DEF IInv, TypeOK, Next, Enter, Refuse, FindNone, Insert, Rollback, Ended, Heartbeat,
             Release, Sweep, Tick
    <3>4. until[r] \in Nat /\ clock \in Nat /\ clock' \in Nat
      BY TypeNext, WorkLocksAssumption DEF IInv, TypeOK
    <3> QED BY <3>1, <3>2, <3>3, <3>4
  <2> QED BY <2>1, <2>2
<1> QED BY <1>1, <1>2, IInvHolds, PTL DEF Spec
=============================================================================
