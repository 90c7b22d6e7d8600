-------------------------- MODULE AuthSessionsProofs --------------------------
(***************************************************************************)
(* What the database keeps of the sign-ins, for any number of accounts,    *)
(* sessions, slots and requests in flight.                                 *)
(*                                                                         *)
(* The properties rest on the rows a call has locked staying as it found   *)
(* them (CallsKnow), on no two calls holding one row (LocksExclude), and   *)
(* on every open session having been opened since its account was last     *)
(* disconnected (ErasAreCurrent).                                          *)
(***************************************************************************)
EXTENDS AuthSessions, FiniteSetTheorems, TLAPS

\* A call knows its session and the session's account; the row it holds still
\* admits it.
Knows(c) ==
    /\ call[c].op \in SessionFirst =>
        /\ call[c].session \in Sessions /\ stage[call[c].session] # "none"
        /\ call[c].account = of[call[c].session]
        /\ call[c].held => stage[call[c].session] \in Open
    /\ call[c].op \in AccountFirst =>
        (call[c].held => standing[call[c].account] \in Usable)

CallsKnow == \A c \in Callers : call[c] # NoCall => Knows(c)

LocksExclude ==
    \A c, d \in Callers : call[c] # NoCall /\ call[d] # NoCall /\ c # d
                          /\ call[c].held /\ call[d].held =>
        /\ call[c].op \in SessionFirst /\ call[d].op \in SessionFirst =>
              call[c].session # call[d].session
        /\ call[c].op \in AccountFirst /\ call[d].op \in AccountFirst =>
              call[c].account # call[d].account

BrokerKnows ==
    /\ at \notin {"off", "starting", "idle", "judging"} =>
          job \in Sessions /\ stage[job] # "none"
    /\ at = "judging" => probed \in Accounts /\ standing[probed] \notin {"none", "pending"}
    /\ call[Broker] # NoCall /\ at # "off" => at \in {"completing", "failing"}

\* A session that is there belongs to an account that is.
TenantsExist ==
    \A s \in Sessions : stage[s] \in Open \cup Ended => standing[of[s]] \in Usable

OneOpenEach ==
    \A s, t \in Sessions : stage[s] \in Open /\ stage[t] \in Open /\ of[s] = of[t] => s = t

SlotsApart ==
    \A a, b \in Accounts : standing[a] \in Usable /\ standing[b] \in Usable /\ a # b =>
        slot[a] # slot[b]

ErasAreCurrent ==
    \A s \in Sessions : stage[s] \in Open => era[s] = farewells[of[s]]

Rows == TenantsExist /\ OneOpenEach /\ SlotsApart /\ ErasAreCurrent /\ ConnectedIsBacked

IInv == TypeOK /\ CallsKnow /\ LocksExclude /\ BrokerKnows /\ Rows

-----------------------------------------------------------------------------
(* Types. *)

LEMMA Domains ==
    /\ Accounts \subseteq Nat /\ 1 \in Accounts /\ 0 \notin Accounts
    /\ Sessions \subseteq Nat /\ 0 \notin Sessions
    /\ Broker \in Callers /\ Clicks \subseteq Callers
    /\ NoCall.op \notin SessionFirst \cup AccountFirst
    /\ Open \cap Ended = {} /\ "none" \notin Open \cup Ended /\ "gone" \notin Open \cup Ended
    /\ SessionFirst \cap AccountFirst = {}
BY AuthSessionsAssumption
   DEF Accounts, Sessions, Callers, NoCall, SessionFirst, AccountFirst, Open, Ended

Positions == {"off", "starting", "idle", "judging", "login", "waiting", "checked",
              "verifying", "minting", "completing", "failing"}

LEMMA CallIsACall ==
    ASSUME TypeOK, NEW c \in Callers, call[c] # NoCall
    PROVE  /\ call[c].op \in SessionFirst \cup AccountFirst
           /\ call[c].session \in Sessions \cup {0} /\ call[c].account \in Accounts
           /\ call[c].held \in BOOLEAN /\ call[c].fresh \in BOOLEAN
           /\ call[c] \in Calls
<1>1. call[c] \in Calls
  BY DEF TypeOK
<1> QED BY <1>1 DEF Calls

\* A caller whose operation has a name is calling.
LEMMA NamedIsCalling ==
    ASSUME TypeOK, NEW c \in Callers, call[c].op \in SessionFirst \cup AccountFirst
    PROVE  call[c] # NoCall
BY Domains

LEMMA BeginTypes ==
    ASSUME TypeOK, NEW c \in Callers, NEW op \in SessionFirst \cup AccountFirst,
           NEW s \in Sessions \cup {0}, NEW a \in Accounts, Begin(c, op, s, a)
    PROVE  call' \in [Callers -> Calls \cup {NoCall}]
<1>1. [op |-> op, session |-> s, account |-> a, held |-> FALSE, fresh |-> s \notin lapsed] \in Calls
  BY DEF Calls
<1> QED BY <1>1 DEF TypeOK, Begin

LEMMA FinishTypes ==
    ASSUME TypeOK, NEW c \in Callers, Finish(c)
    PROVE  call' \in [Callers -> Calls \cup {NoCall}]
BY DEF TypeOK, Finish

BrokerTyped ==
    /\ at \in Positions /\ job \in Sessions \cup {0}
    /\ probed \in Accounts \cup {0} /\ leaves \in 0..MaxLeaves

LEMMA MovesTypes ==
    ASSUME TypeOK, NEW where \in Positions, Moves(where)
    PROVE  BrokerTyped'
BY DEF TypeOK, Moves, BrokerTyped, Positions

LEMMA HearsTypes ==
    ASSUME TypeOK, NEW c, NEW heard \in Positions, Hears(c, heard)
    PROVE  BrokerTyped'
BY MovesTypes DEF TypeOK, Hears, BrokerTyped, Positions, broker

LEMMA HearsNoTypes ==
    ASSUME TypeOK, NEW c, HearsNo(c)
    PROVE  BrokerTyped'
BY HearsTypes DEF HearsNo, Positions

AccountsTyped ==
    /\ standing \in [Accounts -> Usable \cup {"none", "removed"}]
    /\ slot \in [Accounts -> Slots] /\ farewells \in [Accounts -> Nat]
    /\ sealed \subseteq Slots

SessionsTyped ==
    /\ stage \in [Sessions -> Open \cup Ended \cup {"none", "gone"}]
    /\ of \in [Sessions -> Accounts] /\ era \in [Sessions -> Nat]
    /\ lapsed \subseteq Sessions

CallsTyped == call \in [Callers -> Calls \cup {NoCall}]

LEMMA TypeParts == TypeOK <=> AccountsTyped /\ SessionsTyped /\ CallsTyped /\ BrokerTyped
BY DEF TypeOK, AccountsTyped, SessionsTyped, CallsTyped, BrokerTyped, Positions

LEMMA TypePartsNext ==
    TypeOK' <=> AccountsTyped' /\ SessionsTyped' /\ CallsTyped' /\ BrokerTyped'
BY DEF TypeOK, AccountsTyped, SessionsTyped, CallsTyped, BrokerTyped, Positions

LEMMA Unchanged ==
    ASSUME TypeOK
    PROVE  /\ UNCHANGED accounts => AccountsTyped'
           /\ UNCHANGED sessions => SessionsTyped'
           /\ UNCHANGED call => CallsTyped'
           /\ UNCHANGED broker => BrokerTyped'
BY TypeParts DEF accounts, sessions, broker, AccountsTyped, SessionsTyped, CallsTyped, BrokerTyped

LEMMA TypeInit == Init => TypeOK
<1> SUFFICES ASSUME Init PROVE TypeOK
  OBVIOUS
<1>1. AccountsTyped
  BY DEF Init, AccountsTyped
<1>2. SessionsTyped
  BY Domains DEF Init, SessionsTyped
<1>3. CallsTyped
  BY DEF Init, CallsTyped
<1>4. BrokerTyped
  BY AuthSessionsAssumption DEF Init, BrokerTyped, Positions
<1> QED BY <1>1, <1>2, <1>3, <1>4, TypeParts

\* What each call does to its session's status.
LEMMA StageTypes ==
    ASSUME TypeOK, NEW a
    PROVE  Revoked(a) \in [Sessions -> Open \cup Ended \cup {"none", "gone"}]
BY DEF TypeOK, Revoked, Ended

LEMMA EraseTypes ==
    ASSUME TypeOK, NEW a, Erase(a), UNCHANGED <<slot, farewells, of, era, lapsed>>
    PROVE  AccountsTyped' /\ SessionsTyped'
BY DEF TypeOK, Erase, AccountsTyped, SessionsTyped

LEMMA NewStage ==
    ASSUME TypeOK, NEW s, NEW st \in Open \cup Ended,
           stage' = [stage EXCEPT ![s] = st], UNCHANGED <<of, era, lapsed>>
    PROVE  SessionsTyped'
BY DEF TypeOK, SessionsTyped

LEMMA BeginStep ==
    ASSUME TypeOK, NEW c \in Callers, NEW op \in SessionFirst \cup AccountFirst,
           NEW s \in Sessions \cup {0}, NEW a \in Accounts, Begin(c, op, s, a)
    PROVE  CallsTyped'
BY BeginTypes DEF CallsTyped

LEMMA CommitTypes ==
    ASSUME TypeOK, CallsKnow, NEW c \in Callers, Commit(c)
    PROVE  TypeOK'
<1>0. ASSUME NEW op, Both(c, op), op \in SessionFirst \cup AccountFirst
      PROVE  /\ CallsTyped'
             /\ call[c].op = op /\ call[c].account \in Accounts
  BY <1>0, FinishTypes, NamedIsCalling, CallIsACall DEF Both, CallsTyped
<1>1. CASE Opened(c)
  <2>1. PICK s \in Sessions :
           /\ Both(c, "open")
           /\ stage' = [Revoked(call[c].account) EXCEPT ![s] = "pending"]
           /\ of' = [of EXCEPT ![s] = call[c].account]
           /\ era' = [era EXCEPT ![s] = farewells[call[c].account]]
           /\ UNCHANGED <<accounts, lapsed, broker>>
    BY <1>1 DEF Opened
  <2>2. CallsTyped' /\ call[c].account \in Accounts
    BY <2>1, <1>0 DEF AccountFirst
  <2>3. stage' \in [Sessions -> Open \cup Ended \cup {"none", "gone"}]
    BY <2>1, StageTypes DEF Open
  <2>4. of' \in [Sessions -> Accounts] /\ era' \in [Sessions -> Nat]
    BY <2>1, <2>2 DEF TypeOK
  <2>5. SessionsTyped'
    BY <2>1, <2>3, <2>4 DEF SessionsTyped, TypeOK
  <2> QED BY <2>1, <2>2, <2>5, Unchanged, TypePartsNext
<1>2. CASE Cancelled(c)
  <2>1. CallsTyped' /\ BrokerTyped'
    BY <1>2, <1>0, Unchanged DEF Cancelled, SessionFirst
  <2>2. CASE Erase(call[c].account)
    BY <1>2, <2>1, <2>2, EraseTypes, TypePartsNext DEF Cancelled
  <2>3. CASE stage' = [stage EXCEPT ![call[c].session] = "revoked"] /\ UNCHANGED <<standing, sealed>>
    <3>1. SessionsTyped'
      BY <1>2, <2>3, NewStage DEF Cancelled, Ended
    <3>2. AccountsTyped'
      BY <1>2, <2>3, Unchanged DEF Cancelled, accounts
    <3> QED BY <2>1, <3>1, <3>2, TypePartsNext
  <2> QED BY <1>2, <2>2, <2>3 DEF Cancelled
<1>3. CASE Disconnected(c)
  <2>1. CallsTyped' /\ BrokerTyped'
    BY <1>3, <1>0, Unchanged DEF Disconnected, AccountFirst
  <2>2. SessionsTyped'
    BY <1>3, StageTypes DEF Disconnected, SessionsTyped, TypeOK
  <2>3. farewells[call[c].account] + 1 \in Nat
    BY <1>3, <1>0 DEF Disconnected, AccountFirst, TypeOK
  <2>4. farewells' \in [Accounts -> Nat]
    BY <1>3, <2>3 DEF Disconnected, TypeOK
  <2>5. AccountsTyped'
    BY <1>3, <2>4 DEF Disconnected, AccountsTyped, TypeOK, Usable
  <2> QED BY <2>1, <2>2, <2>5, TypePartsNext
<1>4. CASE Removed(c)
  <2>1. CallsTyped' /\ BrokerTyped'
    BY <1>4, <1>0, Unchanged DEF Removed, AccountFirst
  <2> QED BY <1>4, <2>1, EraseTypes, TypePartsNext DEF Removed
<1>5. CASE Completed(c)
  <2>1. CallsTyped' /\ call[c].account \in Accounts
    BY <1>5, <1>0 DEF Completed, SessionFirst
  <2>2. SessionsTyped'
    BY <1>5, NewStage DEF Completed, Ended
  <2>3. AccountsTyped'
    BY <1>5, <2>1 DEF Completed, AccountsTyped, TypeOK, Usable
  <2>4. BrokerTyped'
    BY <1>5, HearsTypes DEF Completed, Positions
  <2> QED BY <2>1, <2>2, <2>3, <2>4, TypePartsNext
<1>6. CASE Failed(c)
  <2>1. CallsTyped'
    BY <1>6, <1>0 DEF Failed, SessionFirst
  <2>2. SessionsTyped'
    BY <1>6, NewStage DEF Failed, Ended
  <2>3. AccountsTyped' /\ BrokerTyped'
    BY <1>6, HearsTypes, Unchanged DEF Failed, Positions
  <2> QED BY <2>1, <2>2, <2>3, TypePartsNext
<1> QED BY <1>1, <1>2, <1>3, <1>4, <1>5, <1>6 DEF Commit

LEMMA OwnerTypes ==
    ASSUME TypeOK, Owner
    PROVE  TypeOK'
<1>1. PICK c \in Clicks :
         \/ \E a \in Accounts :
               ConnectTo(c, a) \/ ConnectNew(c, a) \/ Disconnect(c, a) \/ Remove(c, a)
         \/ \E s \in Sessions : Cancel(c, s)
  BY DEF Owner
<1>2. c \in Callers /\ 0 \in Sessions \cup {0}
  BY Domains
<1>3. ASSUME NEW a \in Accounts, ConnectTo(c, a) \/ Disconnect(c, a) \/ Remove(c, a)
      PROVE  TypeOK'
  <2>1. CallsTyped'
    BY <1>2, <1>3, BeginStep DEF ConnectTo, Disconnect, Remove, AccountFirst
  <2> QED BY <1>3, <2>1, Unchanged, TypePartsNext DEF ConnectTo, Disconnect, Remove
<1>4. ASSUME NEW a \in Accounts, ConnectNew(c, a) PROVE TypeOK'
  <2>1. CallsTyped'
    BY <1>2, <1>4, BeginStep DEF ConnectNew, AccountFirst
  <2>2. AccountsTyped'
    BY <1>4 DEF ConnectNew, AccountsTyped, TypeOK, Usable
  <2> QED BY <1>4, <2>1, <2>2, Unchanged, TypePartsNext DEF ConnectNew
<1>5. ASSUME NEW s \in Sessions, Cancel(c, s) PROVE TypeOK'
  <2>1. of[s] \in Accounts
    BY DEF TypeOK
  <2>2. CallsTyped'
    BY <1>2, <1>5, <2>1, BeginStep DEF Cancel, SessionFirst
  <2> QED BY <1>5, <2>2, Unchanged, TypePartsNext DEF Cancel
<1> QED BY <1>1, <1>3, <1>4, <1>5

LEMMA BrokerTypes ==
    ASSUME TypeOK, BrokerKnows,
           \/ Start \/ Leave \/ Expire \/ Judge \/ Claim \/ Drive
           \/ \E a \in Accounts : Probe(a)
    PROVE  TypeOK'
<1>0. ASSUME at \notin {"off", "starting", "idle", "judging"}
      PROVE  job \in Sessions /\ of[job] \in Accounts
  BY <1>0 DEF BrokerKnows, TypeOK
<1>1. CASE Start
  BY <1>1, MovesTypes, Unchanged, TypePartsNext DEF Start, Positions
<1>2. CASE Leave
  <2>1. BrokerTyped'
    BY <1>2, AuthSessionsAssumption DEF Leave, BrokerTyped, TypeOK, Positions
  <2> QED BY <1>2, <2>1, Unchanged, TypePartsNext DEF Leave
<1>3. CASE Expire
  <2>1. SessionsTyped'
    BY <1>3 DEF Expire, SessionsTyped, TypeOK, Ended
  <2> QED BY <1>3, <2>1, MovesTypes, Unchanged, TypePartsNext DEF Expire, Positions
<1>4. CASE Judge
  <2>1. AccountsTyped'
    BY <1>4 DEF Judge, AccountsTyped, TypeOK, Usable
  <2> QED BY <1>4, <2>1, MovesTypes, Unchanged, TypePartsNext DEF Judge, Positions
<1>5. CASE Claim
  <2>1. PICK s \in Claimable :
           stage' = [stage EXCEPT ![s] = "initializing"] /\ at' = "login" /\ job' = s
    BY <1>5 DEF Claim
  <2>2. SessionsTyped'
    BY <1>5, <2>1, NewStage DEF Claim, Open
  <2>3. BrokerTyped'
    BY <1>5, <2>1 DEF Claim, Claimable, BrokerTyped, TypeOK, Positions
  <2> QED BY <1>5, <2>2, <2>3, Unchanged, TypePartsNext DEF Claim
<1>6. CASE Report
  <2>1. SessionsTyped'
    BY <1>6, NewStage, Unchanged DEF Report, Open, sessions
  <2>2. BrokerTyped'
    BY <1>6, MovesTypes DEF Report, Positions
  <2> QED BY <1>6, <2>1, <2>2, Unchanged, TypePartsNext DEF Report
<1>7. CASE Check \/ Poll
  <2>1. BrokerTyped'
    BY <1>7, MovesTypes DEF Check, Poll, Positions
  <2> QED BY <1>7, <2>1, Unchanged, TypePartsNext DEF Check, Poll
<1>8. CASE Mark
  <2>1. SessionsTyped'
    BY <1>8, NewStage, Unchanged DEF Mark, Open, sessions
  <2> QED BY <1>8, <2>1, MovesTypes, Unchanged, TypePartsNext DEF Mark, Positions
<1>9. CASE Complete
  <2>1. CallsTyped'
    BY <1>9, <1>0, BeginStep, Domains DEF Complete, SessionFirst
  <2> QED BY <1>9, <2>1, MovesTypes, Unchanged, TypePartsNext DEF Complete, Positions
<1>10. CASE Fail
  <2>1. CallsTyped'
    BY <1>10, <1>0, BeginStep, Domains DEF Fail, SessionFirst
  <2> QED BY <1>10, <2>1, MovesTypes, Unchanged, TypePartsNext DEF Fail, Positions
<1>11. ASSUME NEW a \in Accounts, Probe(a) PROVE TypeOK'
  <2>1. BrokerTyped'
    BY <1>11 DEF Probe, BrokerTyped, TypeOK, Positions
  <2> QED BY <1>11, <2>1, Unchanged, TypePartsNext DEF Probe
<1> QED BY <1>1, <1>2, <1>3, <1>4, <1>5, <1>6, <1>7, <1>8, <1>9, <1>10, <1>11 DEF Drive

LEMMA RowTypes ==
    ASSUME TypeOK, NEW s \in Sessions, Attach(s) \/ Lapse(s)
    PROVE  TypeOK'
<1>1. CASE Attach(s)
  <2>1. SessionsTyped'
    BY <1>1, NewStage DEF Attach, Open
  <2> QED BY <1>1, <2>1, Unchanged, TypePartsNext DEF Attach
<1>2. CASE Lapse(s)
  <2>1. SessionsTyped'
    BY <1>2 DEF Lapse, SessionsTyped, TypeOK
  <2> QED BY <1>2, <2>1, Unchanged, TypePartsNext DEF Lapse
<1> QED BY <1>1, <1>2

LEMMA CallTypes ==
    ASSUME TypeOK, NEW c \in Callers, Lock(c) \/ Refuse(c) \/ Lose(c) \/ Abort(c)
    PROVE  TypeOK'
<1>1. CASE Lock(c)
  <2>1. call[c] \in Calls
    BY <1>1, CallIsACall DEF Lock
  <2>2. [call[c] EXCEPT !.held = TRUE] \in Calls
    BY <2>1 DEF Calls
  <2>3. CallsTyped'
    BY <1>1, <2>2 DEF Lock, CallsTyped, TypeOK
  <2> QED BY <1>1, <2>3, Unchanged, TypePartsNext DEF Lock
<1>2. CASE Refuse(c) \/ Lose(c) \/ Abort(c)
  <2>1. CallsTyped' /\ BrokerTyped'
    BY <1>2, FinishTypes, HearsNoTypes DEF Refuse, Lose, Abort, CallsTyped
  <2> QED BY <1>2, <2>1, Unchanged, TypePartsNext DEF Refuse, Lose, Abort
<1> QED BY <1>1, <1>2

LEMMA TypeNext == TypeOK /\ CallsKnow /\ BrokerKnows /\ [Next]_vars => TypeOK'
<1> SUFFICES ASSUME TypeOK, CallsKnow, BrokerKnows, [Next]_vars PROVE TypeOK'
  OBVIOUS
<1>1. CASE UNCHANGED vars
  BY <1>1, Unchanged, TypePartsNext DEF vars
<1>2. CASE Next
  BY <1>2, CommitTypes, OwnerTypes, BrokerTypes, RowTypes, CallTypes DEF Next
<1> QED BY <1>1, <1>2

-----------------------------------------------------------------------------
(* Rows. *)

\* A step that leaves the accounts alone and only moves open sessions on.
MovesOn ==
    /\ UNCHANGED <<standing, slot, farewells, sealed, of, era>>
    /\ \A s \in Sessions :
          stage'[s] = stage[s] \/ (stage[s] \in Open /\ stage'[s] \in Open \cup Ended)

LEMMA RowsMoveOn == ASSUME Rows, MovesOn PROVE Rows'
<1>1. \A s \in Sessions : stage'[s] \in Open => stage[s] \in Open
  BY Domains DEF MovesOn
<1>2. \A s \in Sessions : stage'[s] \in Open \cup Ended => stage[s] \in Open \cup Ended
  BY DEF MovesOn
<1>3. TenantsExist'
  BY <1>2 DEF Rows, TenantsExist, MovesOn
<1>4. OneOpenEach'
  BY <1>1 DEF Rows, OneOpenEach, MovesOn
<1>5. SlotsApart' /\ ConnectedIsBacked'
  BY DEF Rows, SlotsApart, ConnectedIsBacked, MovesOn
<1>6. ErasAreCurrent'
  BY <1>1 DEF Rows, ErasAreCurrent, MovesOn
<1> QED BY <1>3, <1>4, <1>5, <1>6 DEF Rows

\* An account goes, with its credential and its sessions.
LEMMA RowsErased ==
    ASSUME TypeOK, Rows, NEW a \in Accounts, standing[a] \in Usable, Erase(a),
           UNCHANGED <<slot, farewells, of, era>>
    PROVE  Rows'
<1>0. /\ \A b \in Accounts : standing'[b] = IF b = a THEN "removed" ELSE standing[b]
      /\ "removed" \notin Usable
  BY DEF Erase, TypeOK, Usable
<1>1. \A s \in Sessions : stage'[s] \in Open \cup Ended => stage'[s] = stage[s] /\ of[s] # a
  BY Domains DEF Erase, SessionsOf
<1>2. TenantsExist'
  BY <1>0, <1>1 DEF Rows, TenantsExist, TypeOK
<1>3. OneOpenEach'
  BY <1>1 DEF Rows, OneOpenEach
<1>4. SlotsApart'
  BY <1>0 DEF Rows, SlotsApart
<1>5. ErasAreCurrent'
  BY <1>1 DEF Rows, ErasAreCurrent
<1>6. ASSUME NEW b \in Accounts, standing'[b] \in {"connected", "needs_reauth"}
      PROVE  slot[b] \in sealed'
  <2>1. b # a /\ standing[b] \in {"connected", "needs_reauth"}
    BY <1>0, <1>6
  <2>2. slot[b] \in sealed /\ slot[b] # slot[a]
    BY <2>1 DEF Rows, ConnectedIsBacked, SlotsApart, Usable
  <2> QED BY <2>2 DEF Erase
<1>7. ConnectedIsBacked'
  BY <1>6 DEF ConnectedIsBacked
<1> QED BY <1>2, <1>3, <1>4, <1>5, <1>7 DEF Rows

LEMMA RowsOpened ==
    ASSUME TypeOK, Rows, NEW s \in Sessions, NEW a \in Accounts, standing[a] \in Usable,
           stage[s] = "none",
           stage' = [Revoked(a) EXCEPT ![s] = "pending"],
           of' = [of EXCEPT ![s] = a], era' = [era EXCEPT ![s] = farewells[a]],
           UNCHANGED accounts
    PROVE  Rows'
<1>1. /\ stage'[s] = "pending" /\ of'[s] = a /\ era'[s] = farewells[a]
      /\ \A t \in Sessions : t # s =>
            /\ of'[t] = of[t] /\ era'[t] = era[t]
            /\ stage'[t] = IF t \in OpenOf(a) THEN "revoked" ELSE stage[t]
  BY DEF TypeOK, Revoked
<1>2. \A t \in Sessions : t # s /\ stage'[t] \in Open => stage[t] \in Open /\ of[t] # a
  BY <1>1, Domains DEF OpenOf, SessionsOf, Open
<1>3. \A t \in Sessions : t # s /\ stage'[t] \in Open \cup Ended => stage[t] \in Open \cup Ended
  BY <1>1 DEF OpenOf
<1>4. TenantsExist'
  BY <1>1, <1>3 DEF Rows, TenantsExist, accounts
<1>5. OneOpenEach'
  BY <1>1, <1>2 DEF Rows, OneOpenEach
<1>6. ErasAreCurrent'
  BY <1>1, <1>2 DEF Rows, ErasAreCurrent, accounts
<1>7. SlotsApart' /\ ConnectedIsBacked'
  BY DEF Rows, SlotsApart, ConnectedIsBacked, accounts
<1> QED BY <1>4, <1>5, <1>6, <1>7 DEF Rows

LEMMA RowsDisconnected ==
    ASSUME TypeOK, Rows, NEW a \in Accounts, standing[a] \in Usable,
           stage' = Revoked(a), sealed' = sealed \ {slot[a]},
           standing' = [standing EXCEPT ![a] = "disconnected"],
           farewells' = [farewells EXCEPT ![a] = @ + 1],
           UNCHANGED <<slot, of, era>>
    PROVE  Rows'
<1>0. \A b \in Accounts :
        /\ standing'[b] = IF b = a THEN "disconnected" ELSE standing[b]
        /\ b # a => farewells'[b] = farewells[b]
  BY DEF TypeOK
<1>1. \A t \in Sessions : stage'[t] \in Open => stage[t] \in Open /\ of[t] # a
  BY Domains DEF Revoked, OpenOf, SessionsOf, Open
<1>2. \A t \in Sessions : stage'[t] \in Open \cup Ended => stage[t] \in Open \cup Ended
  BY DEF Revoked, OpenOf
<1>3. TenantsExist'
  BY <1>0, <1>2 DEF Rows, TenantsExist, TypeOK, Usable
<1>4. OneOpenEach'
  BY <1>1 DEF Rows, OneOpenEach
<1>5. \A s \in Sessions : of[s] \in Accounts
  BY DEF TypeOK
<1>6. ErasAreCurrent'
  BY <1>0, <1>1, <1>5 DEF Rows, ErasAreCurrent
<1>7. SlotsApart'
  BY <1>0 DEF Rows, SlotsApart
<1>8. ASSUME NEW b \in Accounts, standing'[b] \in {"connected", "needs_reauth"}
      PROVE  slot[b] \in sealed'
  <2>1. b # a /\ standing[b] \in {"connected", "needs_reauth"}
    BY <1>0, <1>8
  <2>2. slot[b] \in sealed /\ slot[b] # slot[a]
    BY <2>1 DEF Rows, ConnectedIsBacked, SlotsApart, Usable
  <2> QED BY <2>2
<1>9. ConnectedIsBacked'
  BY <1>8 DEF ConnectedIsBacked
<1> QED BY <1>3, <1>4, <1>6, <1>7, <1>9 DEF Rows

LEMMA RowsConnected ==
    ASSUME TypeOK, Rows, NEW s \in Sessions, NEW a \in Accounts, standing[a] \in Usable,
           stage[s] \in Open,
           stage' = [stage EXCEPT ![s] = "connected"],
           standing' = [standing EXCEPT ![a] = "connected"],
           sealed' = sealed \cup {slot[a]}, UNCHANGED <<slot, farewells, of, era>>
    PROVE  Rows'
<1>0. \A b \in Accounts : standing'[b] = IF b = a THEN "connected" ELSE standing[b]
  BY DEF TypeOK
<1>1. \A t \in Sessions : stage'[t] = IF t = s THEN "connected" ELSE stage[t]
  BY DEF TypeOK
<1>2. \A t \in Sessions : /\ stage'[t] \in Open => stage[t] \in Open
                          /\ stage'[t] \in Open \cup Ended => stage[t] \in Open \cup Ended
  BY <1>1, Domains DEF Ended
<1>3. TenantsExist'
  BY <1>0, <1>2 DEF Rows, TenantsExist, TypeOK, Usable
<1>4. OneOpenEach' /\ ErasAreCurrent'
  BY <1>2 DEF Rows, OneOpenEach, ErasAreCurrent
<1>5. SlotsApart'
  BY <1>0 DEF Rows, SlotsApart
<1>6. ConnectedIsBacked'
  BY <1>0 DEF Rows, ConnectedIsBacked
<1> QED BY <1>3, <1>4, <1>5, <1>6 DEF Rows

LEMMA RowsDemoted ==
    ASSUME TypeOK, Rows, NEW a \in Accounts, standing[a] \in {"connected", "needs_reauth"},
           standing' = [standing EXCEPT ![a] = "needs_reauth"],
           UNCHANGED <<slot, farewells, sealed, stage, of, era>>
    PROVE  Rows'
<1>0. \A b \in Accounts : standing'[b] = IF b = a THEN "needs_reauth" ELSE standing[b]
  BY DEF TypeOK
<1>1. TenantsExist'
  BY <1>0 DEF Rows, TenantsExist, TypeOK, Usable
<1>2. OneOpenEach' /\ ErasAreCurrent'
  BY DEF Rows, OneOpenEach, ErasAreCurrent
<1>3. SlotsApart'
  BY <1>0 DEF Rows, SlotsApart, Usable
<1>4. ConnectedIsBacked'
  BY <1>0 DEF Rows, ConnectedIsBacked
<1> QED BY <1>1, <1>2, <1>3, <1>4 DEF Rows

LEMMA RowsFounded ==
    ASSUME TypeOK, Rows, NEW a \in Accounts, standing[a] = "none",
           NEW p \in Slots \ {slot[b] : b \in Existing}, slot' = [slot EXCEPT ![a] = p],
           standing' = [standing EXCEPT ![a] = "pending"],
           UNCHANGED <<farewells, sealed, stage, of, era>>
    PROVE  Rows'
<1>0. \A b \in Accounts : /\ standing'[b] = IF b = a THEN "pending" ELSE standing[b]
                          /\ slot'[b] = IF b = a THEN p ELSE slot[b]
  BY DEF TypeOK
<1>1. TenantsExist'
  BY <1>0 DEF Rows, TenantsExist, TypeOK, Usable
<1>2. OneOpenEach' /\ ErasAreCurrent'
  BY DEF Rows, OneOpenEach, ErasAreCurrent
<1>3. \A b \in Accounts : standing[b] \in Usable => slot[b] # p
  BY DEF Existing
<1>4. SlotsApart'
  BY <1>0, <1>3 DEF Rows, SlotsApart
<1>5. ConnectedIsBacked'
  BY <1>0 DEF Rows, ConnectedIsBacked
<1> QED BY <1>1, <1>2, <1>4, <1>5 DEF Rows

-----------------------------------------------------------------------------
(* Calls and the broker. *)

\* No session is unmade and no account founded twice.
Onward ==
    /\ \A s \in Sessions : stage[s] # "none" => stage'[s] # "none"
    /\ \A a \in Accounts : standing[a] \notin {"none", "pending"} =>
          standing'[a] \notin {"none", "pending"}

\* What a call knows of its rows is still so.
Kept(d) ==
    /\ call[d].op \in SessionFirst =>
        /\ stage'[call[d].session] # "none"
        /\ of'[call[d].session] = of[call[d].session]
        /\ call[d].held => stage'[call[d].session] \in Open
    /\ call[d].op \in AccountFirst =>
        (call[d].held => standing'[call[d].account] \in Usable)

LEMMA KeptByRest ==
    ASSUME TypeOK, CallsKnow, UNCHANGED <<standing, stage, of>>
    PROVE  Onward /\ \A d \in Callers : call[d] # NoCall => Kept(d)
BY DEF CallsKnow, Knows, Kept, Onward

LEMMA KeptByOpen ==
    ASSUME TypeOK, CallsKnow, MovesOn,
           \A s \in Sessions : stage[s] \in Open => stage'[s] \in Open
    PROVE  Onward /\ \A d \in Callers : call[d] # NoCall => Kept(d)
<1>1. Onward
  BY Domains DEF MovesOn, Onward
<1>2. ASSUME NEW d \in Callers, call[d] # NoCall PROVE Kept(d)
  BY <1>1, <1>2 DEF CallsKnow, Knows, Kept, MovesOn, Onward
<1> QED BY <1>1, <1>2

LEMMA QuietCalls ==
    ASSUME TypeOK, CallsKnow, LocksExclude,
           \A d \in Callers : call'[d] # NoCall => call'[d] = call[d] /\ Kept(d)
    PROVE  CallsKnow' /\ LocksExclude'
<1>1. ASSUME NEW d \in Callers, call'[d] # NoCall PROVE Knows(d)'
  <2>1. call'[d] = call[d] /\ Kept(d) /\ Knows(d)
    BY <1>1 DEF CallsKnow
  <2> QED BY <2>1 DEF Knows, Kept
<1>2. CallsKnow'
  BY <1>1 DEF CallsKnow
<1>3. LocksExclude'
  BY DEF LocksExclude
<1> QED BY <1>2, <1>3

LEMMA NewCall ==
    ASSUME TypeOK, CallsKnow, LocksExclude, NEW c \in Callers,
           NEW op \in SessionFirst \cup AccountFirst,
           NEW s \in Sessions \cup {0}, NEW a \in Accounts, Begin(c, op, s, a),
           op \in SessionFirst => s \in Sessions /\ stage'[s] # "none" /\ a = of'[s],
           \A d \in Callers : call[d] # NoCall => Kept(d)
    PROVE  CallsKnow' /\ LocksExclude'
<1>1. /\ call'[c].op = op /\ call'[c].session = s /\ call'[c].account = a /\ ~call'[c].held
      /\ \A d \in Callers : d # c => call'[d] = call[d]
  BY DEF Begin, TypeOK
<1>2. ASSUME NEW d \in Callers, call'[d] # NoCall PROVE Knows(d)'
  <2>1. CASE d = c
    BY <1>1, <2>1, Domains DEF Knows
  <2>2. CASE d # c
    <3>1. call'[d] = call[d] /\ Kept(d) /\ Knows(d)
      BY <1>1, <1>2, <2>2 DEF CallsKnow
    <3> QED BY <3>1 DEF Knows, Kept
  <2> QED BY <2>1, <2>2
<1>3. CallsKnow'
  BY <1>2 DEF CallsKnow
<1>4. LocksExclude'
  BY <1>1 DEF LocksExclude
<1> QED BY <1>3, <1>4

LEMMA LockedCall ==
    ASSUME TypeOK, CallsKnow, LocksExclude, NEW c \in Callers, Lock(c)
    PROVE  CallsKnow' /\ LocksExclude'
<1>0. /\ call[c] \in Calls /\ call[c].op \in SessionFirst \cup AccountFirst
      /\ UNCHANGED <<standing, stage, of>>
  BY CallIsACall DEF Lock, accounts, sessions
<1>1. /\ call'[c] = [call[c] EXCEPT !.held = TRUE]
      /\ \A d \in Callers : d # c => call'[d] = call[d]
  BY DEF Lock, TypeOK
<1>2. /\ call'[c].op = call[c].op /\ call'[c].session = call[c].session
      /\ call'[c].account = call[c].account
  BY <1>0, <1>1 DEF Calls
<1>3. /\ call[c].op \in SessionFirst => stage[call[c].session] \in Open
      /\ call[c].op \in AccountFirst => standing[call[c].account] \in Usable
  BY <1>0 DEF Lock, Admitted, SessionFirst, AccountFirst, Open, Existing
<1>4. ASSUME NEW d \in Callers, call'[d] # NoCall PROVE Knows(d)'
  <2>1. CASE d = c
    BY <1>0, <1>2, <1>3, <2>1 DEF Knows, CallsKnow, Lock
  <2>2. CASE d # c
    BY <1>0, <1>1, <1>4, <2>2 DEF Knows, CallsKnow
  <2> QED BY <2>1, <2>2
<1>5. CallsKnow'
  BY <1>4 DEF CallsKnow
<1>6. ASSUME NEW d \in Callers, call[d] # NoCall, call[d].held, d # c
      PROVE  /\ call[c].op \in SessionFirst /\ call[d].op \in SessionFirst =>
                   call[c].session # call[d].session
             /\ call[c].op \in AccountFirst /\ call[d].op \in AccountFirst =>
                   call[c].account # call[d].account
  BY <1>0, <1>6, Domains DEF Lock, Free, SessionHeld, AccountHeld
<1>7. LocksExclude'
  BY <1>1, <1>2, <1>6 DEF LocksExclude, Lock
<1> QED BY <1>5, <1>7

LEMMA BrokerStays ==
    ASSUME TypeOK, BrokerKnows, Onward, UNCHANGED broker,
           call'[Broker] # NoCall => call[Broker] # NoCall
    PROVE  BrokerKnows'
BY DEF BrokerKnows, broker, Onward

LEMMA BrokerMoves ==
    ASSUME TypeOK, BrokerKnows, Onward, NEW where, Moves(where), where # "judging",
           where \notin {"off", "starting", "idle"} => job \in Sessions /\ stage[job] # "none",
           call'[Broker] = NoCall \/ where \in {"completing", "failing"}
    PROVE  BrokerKnows'
BY DEF BrokerKnows, Moves, Onward

\* Where the broker is, it drives a session, and no call of its own is open.
LEMMA BrokerFree ==
    ASSUME BrokerKnows, at \notin {"off", "completing", "failing"}
    PROVE  call[Broker] = NoCall
BY DEF BrokerKnows

LEMMA Heard ==
    ASSUME TypeOK, BrokerKnows, Onward, NEW c \in Callers, call[c] # NoCall, Finish(c),
           NEW heard \in {"idle", "failing"}, Hears(c, heard)
    PROVE  BrokerKnows'
<1>1. CASE c = Broker /\ at # "off"
  <2>1. at \in {"completing", "failing"}
    BY <1>1 DEF BrokerKnows
  <2>2. job \in Sessions /\ stage[job] # "none"
    BY <2>1 DEF BrokerKnows
  <2>3. call'[Broker] = NoCall
    BY <1>1 DEF Finish, TypeOK
  <2> QED BY <1>1, <2>2, <2>3, BrokerMoves DEF Hears
<1>2. CASE ~(c = Broker /\ at # "off")
  <2>1. call'[Broker] # NoCall => call[Broker] # NoCall
    BY Domains DEF Finish, TypeOK
  <2> QED BY <1>2, <2>1, BrokerStays DEF Hears
<1> QED BY <1>1, <1>2

-----------------------------------------------------------------------------
(* Steps. *)

Rest == CallsKnow /\ LocksExclude /\ BrokerKnows /\ Rows

LEMMA RowsByRest ==
    ASSUME Rows, UNCHANGED <<accounts, stage, of, era>>
    PROVE  Rows'
BY RowsMoveOn DEF MovesOn, accounts

LEMMA FinishedCalls ==
    ASSUME TypeOK, NEW c \in Callers, Finish(c)
    PROVE  \A d \in Callers : call'[d] # NoCall => d # c /\ call'[d] = call[d] /\ call[d] # NoCall
BY DEF TypeOK, Finish

LEMMA OwnerStep ==
    ASSUME TypeOK, Rest, Owner
    PROVE  Rest'
<1>1. PICK c \in Clicks :
         \/ \E a \in Accounts :
               ConnectTo(c, a) \/ ConnectNew(c, a) \/ Disconnect(c, a) \/ Remove(c, a)
         \/ \E s \in Sessions : Cancel(c, s)
  BY DEF Owner
<1>2. c \in Callers /\ c # Broker /\ 0 \in Sessions \cup {0}
  BY Domains, AuthSessionsAssumption
<1>b. ASSUME NEW op, NEW s, NEW a, Begin(c, op, s, a) PROVE call'[Broker] = call[Broker]
  BY <1>2, <1>b, Domains DEF Begin, TypeOK
<1>3. ASSUME NEW a \in Accounts, ConnectTo(c, a) \/ Disconnect(c, a) \/ Remove(c, a)
      PROVE  Rest'
  <2>1. PICK op \in AccountFirst : Begin(c, op, 0, a)
    BY <1>3 DEF ConnectTo, Disconnect, Remove, AccountFirst
  <2>2. UNCHANGED <<accounts, sessions, broker>>
    BY <1>3 DEF ConnectTo, Disconnect, Remove
  <2>3. Onward /\ \A d \in Callers : call[d] # NoCall => Kept(d)
    BY <2>2, KeptByRest DEF Rest, accounts, sessions
  <2>4. CallsKnow' /\ LocksExclude'
    BY <1>2, <2>1, <2>3, NewCall, Domains DEF Rest
  <2>5. BrokerKnows'
    BY <2>1, <2>2, <2>3, <1>b, BrokerStays DEF Rest
  <2>6. Rows'
    BY <2>2, RowsByRest DEF Rest, sessions
  <2> QED BY <2>4, <2>5, <2>6 DEF Rest
<1>4. ASSUME NEW a \in Accounts, ConnectNew(c, a) PROVE Rest'
  <2>1. /\ Begin(c, "open", 0, a) /\ "open" \in AccountFirst /\ standing[a] = "none"
        /\ standing' = [standing EXCEPT ![a] = "pending"]
        /\ UNCHANGED <<farewells, sealed, sessions, broker>>
    BY <1>4 DEF ConnectNew, AccountFirst
  <2>2. PICK p \in Slots \ {slot[b] : b \in Existing} : slot' = [slot EXCEPT ![a] = p]
    BY <1>4 DEF ConnectNew
  <2>3. Onward
    BY <2>1 DEF Onward, sessions, TypeOK
  <2>4. ASSUME NEW d \in Callers, call[d] # NoCall PROVE Kept(d)
    <3>1. \A b \in Accounts : standing[b] \in Usable => standing'[b] \in Usable
      BY <2>1 DEF TypeOK, Usable
    <3> QED BY <2>1, <2>4, <3>1, CallIsACall DEF Kept, Rest, CallsKnow, Knows, sessions
  <2>5. CallsKnow' /\ LocksExclude'
    BY <1>2, <2>1, <2>4, NewCall, Domains DEF Rest
  <2>6. BrokerKnows'
    BY <2>1, <2>3, <1>b, BrokerStays DEF Rest
  <2>7. Rows'
    BY <2>1, <2>2, RowsFounded DEF Rest, sessions
  <2> QED BY <2>5, <2>6, <2>7 DEF Rest
<1>5. ASSUME NEW s \in Sessions, Cancel(c, s) PROVE Rest'
  <2>1. /\ Begin(c, "cancel", s, of[s]) /\ "cancel" \in SessionFirst /\ of[s] \in Accounts
        /\ stage[s] # "none" /\ UNCHANGED <<accounts, sessions, broker>>
    BY <1>5, Domains DEF Cancel, SessionFirst, TypeOK
  <2>2. Onward /\ \A d \in Callers : call[d] # NoCall => Kept(d)
    BY <2>1, KeptByRest DEF Rest, accounts, sessions
  <2>3. stage'[s] # "none" /\ of[s] = of'[s]
    BY <2>1 DEF sessions
  <2>4. CallsKnow' /\ LocksExclude'
    BY <1>2, <2>1, <2>2, <2>3, NewCall DEF Rest
  <2>5. BrokerKnows'
    BY <2>1, <2>2, <1>b, BrokerStays DEF Rest
  <2>6. Rows'
    BY <2>1, RowsByRest DEF Rest, sessions
  <2> QED BY <2>4, <2>5, <2>6 DEF Rest
<1> QED BY <1>1, <1>3, <1>4, <1>5

LEMMA CallStep ==
    ASSUME TypeOK, Rest, NEW c \in Callers, Lock(c) \/ Refuse(c) \/ Lose(c) \/ Abort(c)
    PROVE  Rest'
<1>1. UNCHANGED <<accounts, sessions>>
  BY DEF Lock, Refuse, Lose, Abort
<1>2. Onward /\ \A d \in Callers : call[d] # NoCall => Kept(d)
  BY <1>1, KeptByRest DEF Rest, accounts, sessions
<1>3. Rows'
  BY <1>1, RowsByRest DEF Rest, sessions
<1>4. CASE Lock(c)
  <2>1. CallsKnow' /\ LocksExclude'
    BY <1>4, LockedCall DEF Rest
  <2>2. call'[Broker] # NoCall => call[Broker] # NoCall
    BY <1>4, Domains DEF Lock, TypeOK
  <2>3. BrokerKnows'
    BY <1>2, <1>4, <2>2, BrokerStays DEF Rest, Lock
  <2> QED BY <1>3, <2>1, <2>3 DEF Rest
<1>5. CASE Refuse(c) \/ Lose(c) \/ Abort(c)
  <2>1. call[c] # NoCall /\ Finish(c) /\ HearsNo(c)
    BY <1>5 DEF Refuse, Lose, Abort
  <2>2. CallsKnow' /\ LocksExclude'
    BY <1>2, <2>1, FinishedCalls, QuietCalls DEF Rest
  <2>3. PICK heard \in {"idle", "failing"} : Hears(c, heard)
    BY <2>1 DEF HearsNo
  <2>4. BrokerKnows'
    BY <1>2, <2>1, <2>3, Heard DEF Rest
  <2> QED BY <1>3, <2>2, <2>4 DEF Rest
<1> QED BY <1>4, <1>5

\* What a call that commits holds.
LEMMA BothFacts ==
    ASSUME TypeOK, Rest, NEW c \in Callers, NEW op \in SessionFirst \cup AccountFirst,
           Both(c, op)
    PROVE  /\ call[c] # NoCall /\ Finish(c) /\ call[c].held /\ call[c].account \in Accounts
           /\ op \in SessionFirst =>
                /\ call[c].session \in Sessions /\ stage[call[c].session] \in Open
                /\ call[c].account = of[call[c].session]
           /\ standing[call[c].account] \in Usable
<1>1. /\ call[c] # NoCall /\ Finish(c) /\ call[c].held /\ call[c].account \in Accounts
      /\ call[c].op = op /\ Knows(c)
  BY NamedIsCalling, CallIsACall DEF Both, Rest, CallsKnow
<1>2. op \in SessionFirst =>
         /\ call[c].session \in Sessions /\ stage[call[c].session] \in Open
         /\ call[c].account = of[call[c].session]
  BY <1>1 DEF Knows
<1>3. standing[call[c].account] \in Usable
  BY <1>1, <1>2 DEF Knows, Rest, Rows, TenantsExist
<1> QED BY <1>1, <1>2, <1>3

\* No other call holds an open session of an account whose sessions end.
LEMMA OthersElsewhere ==
    ASSUME TypeOK, Rest, NEW c \in Callers, NEW op \in SessionFirst \cup AccountFirst,
           Both(c, op), NEW d \in Callers, d # c, call[d] # NoCall, call[d].held
    PROVE  /\ call[d].op \in SessionFirst => of[call[d].session] # call[c].account
           /\ call[d].op \in AccountFirst => call[d].account # call[c].account
<1>1. /\ call[c] # NoCall /\ call[c].held /\ call[c].op = op
      /\ call[d].op \in SessionFirst \cup AccountFirst
  BY BothFacts, CallIsACall DEF Both
<1>2. Knows(d) /\ Knows(c)
  BY <1>1 DEF Rest, CallsKnow
<1>3. CASE op \in SessionFirst
  <2>1. call[d].op \in AccountFirst => call[d].account # call[c].account
    BY <1>1, <1>3 DEF Both, AccountHeld
  <2>2. call[d].op \in SessionFirst => call[d].session # call[c].session
    BY <1>1, <1>3 DEF Rest, LocksExclude
  <2>3. call[d].op \in SessionFirst => of[call[d].session] # of[call[c].session]
    BY <1>1, <1>2, <1>3, <2>2 DEF Rest, Rows, OneOpenEach, Knows
  <2> QED BY <1>1, <1>2, <1>3, <2>1, <2>3 DEF Knows
<1>4. CASE op \in AccountFirst
  <2>1. call[d].op \in AccountFirst => call[d].account # call[c].account
    BY <1>1, <1>4 DEF Rest, LocksExclude
  <2>2. call[d].op \in SessionFirst => call[d].session \notin OpenOf(call[c].account)
    BY <1>1, <1>4, Domains DEF Both, SessionHeld
  <2>3. call[d].op \in SessionFirst => of[call[d].session] # call[c].account
    BY <1>2, <2>2 DEF Knows, OpenOf, SessionsOf
  <2> QED BY <2>1, <2>3
<1> QED BY <1>3, <1>4

LEMMA Commits ==
    ASSUME TypeOK, Rest, NEW c \in Callers, NEW op \in SessionFirst \cup AccountFirst,
           Both(c, op), Onward, Rows',
           UNCHANGED broker \/ \E heard \in {"idle", "failing"} : Hears(c, heard),
           \A d \in Callers : d # c /\ call[d] # NoCall => Kept(d)
    PROVE  Rest'
<1>1. call[c] # NoCall /\ Finish(c)
  BY BothFacts
<1>2. CallsKnow' /\ LocksExclude'
  BY <1>1, FinishedCalls, QuietCalls DEF Rest
<1>3. CASE UNCHANGED broker
  <2>1. call'[Broker] # NoCall => call[Broker] # NoCall
    BY <1>1, FinishedCalls, Domains
  <2> QED BY <1>2, <1>3, <2>1, BrokerStays DEF Rest
<1>4. CASE \E heard \in {"idle", "failing"} : Hears(c, heard)
  BY <1>1, <1>2, <1>4, Heard DEF Rest
<1> QED BY <1>3, <1>4

\* A call whose account is another one is not disturbed.
LEMMA KeptElsewhere ==
    ASSUME TypeOK, Rest, NEW c \in Callers, NEW op \in SessionFirst \cup AccountFirst,
           Both(c, op), Onward,
           \A s \in Sessions : stage[s] # "none" =>
              of'[s] = of[s] /\ (of[s] # call[c].account => stage'[s] = stage[s]),
           \A a \in Accounts : a # call[c].account => standing'[a] = standing[a]
    PROVE  \A d \in Callers : d # c /\ call[d] # NoCall => Kept(d)
<1> SUFFICES ASSUME NEW d \in Callers, d # c, call[d] # NoCall PROVE Kept(d)
  OBVIOUS
<1>1. Knows(d) /\ call[d].account \in Accounts /\ call[d].held \in BOOLEAN
  BY CallIsACall DEF Rest, CallsKnow
<1>2. call[d].held =>
         /\ call[d].op \in SessionFirst => of[call[d].session] # call[c].account
         /\ call[d].op \in AccountFirst => call[d].account # call[c].account
  BY OthersElsewhere
<1> QED BY <1>1, <1>2 DEF Knows, Kept, Onward

LEMMA ErasedStep ==
    ASSUME TypeOK, Rest, NEW c \in Callers, NEW op \in SessionFirst \cup AccountFirst,
           Both(c, op), Erase(call[c].account),
           UNCHANGED <<slot, farewells, of, era, lapsed, broker>>
    PROVE  Rest'
<1>1. call[c].account \in Accounts /\ standing[call[c].account] \in Usable
  BY BothFacts
<1>2. Rows'
  BY <1>1, RowsErased DEF Rest
<1>3. Onward
  BY Domains DEF Erase, Onward, TypeOK
<1>4. /\ \A s \in Sessions : of[s] # call[c].account => stage'[s] = stage[s]
      /\ \A a \in Accounts : a # call[c].account => standing'[a] = standing[a]
  BY DEF Erase, SessionsOf, TypeOK
<1>5. \A d \in Callers : d # c /\ call[d] # NoCall => Kept(d)
  BY <1>3, <1>4, KeptElsewhere
<1> QED BY <1>2, <1>3, <1>5, Commits

LEMMA EndedStep ==
    ASSUME TypeOK, Rest, NEW c \in Callers, NEW op \in SessionFirst, Both(c, op),
           NEW st \in Ended, stage' = [stage EXCEPT ![call[c].session] = st],
           UNCHANGED <<accounts, of, era>>,
           UNCHANGED broker \/ \E heard \in {"idle", "failing"} : Hears(c, heard)
    PROVE  Rest'
<1>1. /\ call[c].session \in Sessions /\ stage[call[c].session] \in Open
      /\ call[c].account = of[call[c].session]
  BY BothFacts
<1>2. \A s \in Sessions : stage'[s] = IF s = call[c].session THEN st ELSE stage[s]
  BY DEF TypeOK
<1>3. MovesOn
  BY <1>1, <1>2 DEF MovesOn, accounts
<1>4. Rows'
  BY <1>3, RowsMoveOn DEF Rest
<1>5. Onward
  BY <1>2, Domains DEF Onward, accounts
<1>6. \A d \in Callers : d # c /\ call[d] # NoCall => Kept(d)
  BY <1>1, <1>2, <1>5, KeptElsewhere DEF accounts
<1> QED BY <1>4, <1>5, <1>6, Commits

LEMMA CommitStep ==
    ASSUME TypeOK, Rest, NEW c \in Callers, Commit(c)
    PROVE  Rest'
<1>1. CASE Opened(c)
  <2>0. "open" \in SessionFirst \cup AccountFirst
    BY DEF AccountFirst
  <2>1. PICK s \in Sessions :
           /\ stage[s] = "none" /\ Both(c, "open")
           /\ stage' = [Revoked(call[c].account) EXCEPT ![s] = "pending"]
           /\ of' = [of EXCEPT ![s] = call[c].account]
           /\ era' = [era EXCEPT ![s] = farewells[call[c].account]]
           /\ UNCHANGED <<accounts, lapsed, broker>>
    BY <1>1 DEF Opened
  <2>2. call[c].account \in Accounts /\ standing[call[c].account] \in Usable
    BY <2>0, <2>1, BothFacts
  <2>3. Rows'
    BY <2>1, <2>2, RowsOpened DEF Rest
  <2>4. /\ stage'[s] = "pending"
        /\ \A t \in Sessions : t # s =>
              /\ of'[t] = of[t]
              /\ stage'[t] = IF t \in OpenOf(call[c].account) THEN "revoked" ELSE stage[t]
    BY <2>1 DEF TypeOK, Revoked
  <2>5. Onward
    BY <2>1, <2>4 DEF Onward, accounts
  <2>6. \A t \in Sessions : stage[t] # "none" =>
           of'[t] = of[t] /\ (of[t] # call[c].account => stage'[t] = stage[t])
    BY <2>1, <2>4 DEF OpenOf, SessionsOf
  <2>7. \A a \in Accounts : standing'[a] = standing[a]
    BY <2>1 DEF accounts
  <2>8. \A d \in Callers : d # c /\ call[d] # NoCall => Kept(d)
    BY <2>0, <2>1, <2>5, <2>6, <2>7, KeptElsewhere
  <2> QED BY <2>0, <2>1, <2>3, <2>5, <2>8, Commits
<1>2. CASE Cancelled(c)
  <2>1. "cancel" \in SessionFirst /\ Both(c, "cancel")
    BY <1>2 DEF Cancelled, SessionFirst
  <2>2. CASE Erase(call[c].account)
    BY <1>2, <2>1, <2>2, ErasedStep DEF Cancelled
  <2>3. CASE stage' = [stage EXCEPT ![call[c].session] = "revoked"] /\ UNCHANGED <<standing, sealed>>
    BY <1>2, <2>1, <2>3, EndedStep DEF Cancelled, Ended, accounts
  <2> QED BY <1>2, <2>2, <2>3 DEF Cancelled
<1>3. CASE Disconnected(c)
  <2>1. "disconnect" \in SessionFirst \cup AccountFirst /\ Both(c, "disconnect")
    BY <1>3 DEF Disconnected, AccountFirst
  <2>2. call[c].account \in Accounts /\ standing[call[c].account] \in Usable
    BY <2>1, BothFacts
  <2>3. Rows'
    BY <1>3, <2>2, RowsDisconnected DEF Rest, Disconnected
  <2>4. /\ \A t \in Sessions : /\ of'[t] = of[t]
                               /\ stage'[t] = IF t \in OpenOf(call[c].account) THEN "revoked"
                                                                              ELSE stage[t]
        /\ \A a \in Accounts :
              standing'[a] = IF a = call[c].account THEN "disconnected" ELSE standing[a]
    BY <1>3 DEF Disconnected, Revoked, TypeOK
  <2>5. Onward
    BY <2>4 DEF Onward
  <2>6. \A t \in Sessions : of[t] # call[c].account => stage'[t] = stage[t]
    BY <2>4 DEF OpenOf, SessionsOf
  <2>7. \A d \in Callers : d # c /\ call[d] # NoCall => Kept(d)
    BY <2>1, <2>4, <2>5, <2>6, KeptElsewhere
  <2> QED BY <1>3, <2>1, <2>3, <2>5, <2>7, Commits DEF Disconnected
<1>4. CASE Removed(c)
  <2>1. "remove" \in SessionFirst \cup AccountFirst /\ Both(c, "remove")
    BY <1>4 DEF Removed, AccountFirst
  <2> QED BY <1>4, <2>1, ErasedStep DEF Removed
<1>5. CASE Completed(c)
  <2>1. "complete" \in SessionFirst \cup AccountFirst /\ Both(c, "complete")
    BY <1>5 DEF Completed, SessionFirst
  <2>2. /\ call[c].account \in Accounts /\ standing[call[c].account] \in Usable
        /\ call[c].session \in Sessions /\ stage[call[c].session] \in Open
        /\ call[c].account = of[call[c].session]
    BY <2>1, BothFacts DEF SessionFirst
  <2>3. Rows'
    BY <1>5, <2>2, RowsConnected DEF Rest, Completed
  <2>4. /\ \A t \in Sessions :
              stage'[t] = IF t = call[c].session THEN "connected" ELSE stage[t]
        /\ \A a \in Accounts :
              standing'[a] = IF a = call[c].account THEN "connected" ELSE standing[a]
    BY <1>5 DEF Completed, TypeOK
  <2>5. Onward /\ UNCHANGED of
    BY <1>5, <2>4 DEF Onward, Completed
  <2>6. \A d \in Callers : d # c /\ call[d] # NoCall => Kept(d)
    BY <2>1, <2>2, <2>4, <2>5, KeptElsewhere
  <2> QED BY <1>5, <2>1, <2>3, <2>5, <2>6, Commits DEF Completed
<1>6. CASE Failed(c)
  BY <1>6, EndedStep DEF Failed, SessionFirst, Ended
<1> QED BY <1>1, <1>2, <1>3, <1>4, <1>5, <1>6 DEF Commit

\* Sessions nobody holds end or move on, and no call notices.
LEMMA KeptByFree ==
    ASSUME TypeOK, CallsKnow, MovesOn,
           \A s \in Sessions : SessionHeld(s) => stage'[s] = stage[s]
    PROVE  Onward /\ \A d \in Callers : call[d] # NoCall => Kept(d)
<1>1. Onward
  BY Domains DEF MovesOn, Onward
<1>2. ASSUME NEW d \in Callers, call[d] # NoCall PROVE Kept(d)
  <2>1. call[d].op \in SessionFirst /\ call[d].held => SessionHeld(call[d].session)
    BY DEF SessionHeld
  <2> QED BY <1>1, <1>2, <2>1 DEF CallsKnow, Knows, Kept, MovesOn, Onward
<1> QED BY <1>1, <1>2

LEMMA SameCalls ==
    ASSUME TypeOK, Rest, Onward, UNCHANGED call, Rows', BrokerKnows',
           \A d \in Callers : call[d] # NoCall => Kept(d)
    PROVE  Rest'
BY QuietCalls DEF Rest

LEMMA BrokerStep ==
    ASSUME TypeOK, Rest,
           \/ Start \/ Leave \/ Expire \/ Judge \/ Claim \/ Drive
           \/ \E a \in Accounts : Probe(a)
    PROVE  Rest'
<1>0. ASSUME UNCHANGED <<accounts, sessions>>
      PROVE  Rows' /\ Onward /\ \A d \in Callers : call[d] # NoCall => Kept(d)
  BY <1>0, RowsByRest, KeptByRest DEF Rest, accounts, sessions
<1>a. ASSUME at \notin {"off", "starting", "idle", "judging"}
      PROVE  job \in Sessions /\ stage[job] # "none" /\ of[job] \in Accounts
  BY <1>a DEF Rest, BrokerKnows, TypeOK
<1>b. ASSUME at \notin {"off", "completing", "failing"} PROVE call[Broker] = NoCall
  BY <1>b, BrokerFree DEF Rest
<1>1. CASE Start
  <2>1. BrokerKnows'
    BY <1>0, <1>1, BrokerMoves DEF Start, Rest
  <2> QED BY <1>0, <1>1, <2>1, SameCalls DEF Start
<1>2. CASE Leave
  <2>1. BrokerKnows'
    BY <1>2 DEF Leave, BrokerKnows
  <2> QED BY <1>0, <1>2, <2>1, SameCalls DEF Leave
<1>3. CASE Expire
  <2>1. \A s \in Sessions : stage'[s] = IF s \in Stale THEN "expired" ELSE stage[s]
    BY <1>3 DEF Expire
  <2>2. MovesOn
    BY <1>3, <2>1 DEF Expire, MovesOn, Stale, Ended, accounts
  <2>3. \A s \in Sessions : SessionHeld(s) => stage'[s] = stage[s]
    BY <1>3, <2>1 DEF Expire
  <2>4. Onward /\ \A d \in Callers : call[d] # NoCall => Kept(d)
    BY <2>2, <2>3, KeptByFree DEF Rest
  <2>5. call[Broker] = NoCall
    BY <1>3, <1>b DEF Expire
  <2>6. BrokerKnows'
    BY <1>3, <2>4, <2>5, BrokerMoves DEF Expire, Rest
  <2> QED BY <1>3, <2>2, <2>4, <2>6, RowsMoveOn, SameCalls DEF Expire, Rest
<1>4. CASE Judge
  <2>1. /\ probed \in Accounts /\ standing[probed] \notin {"none", "pending"}
        /\ call[Broker] = NoCall
    BY <1>4, <1>b DEF Judge, Rest, BrokerKnows
  <2>2. UNCHANGED <<slot, farewells, sealed, sessions, call>>
    BY <1>4 DEF Judge
  <2>3. CASE standing[probed] \in {"connected", "needs_reauth"}
    <3>1. standing' = [standing EXCEPT ![probed] = "needs_reauth"]
      BY <1>4, <2>3 DEF Judge
    <3>2. Rows'
      BY <2>1, <2>2, <2>3, <3>1, RowsDemoted DEF Rest, sessions
    <3>3. \A a \in Accounts : standing'[a] = IF a = probed THEN "needs_reauth" ELSE standing[a]
      BY <3>1 DEF TypeOK
    <3>4. Onward
      BY <2>2, <3>3 DEF Onward, sessions
    <3>5. ASSUME NEW d \in Callers, call[d] # NoCall PROVE Kept(d)
      BY <2>2, <3>3, <3>5, CallIsACall DEF Rest, CallsKnow, Knows, Kept, sessions, Usable
    <3>6. BrokerKnows'
      BY <1>4, <2>1, <2>2, <3>4, BrokerMoves DEF Judge, Rest
    <3> QED BY <2>2, <3>2, <3>4, <3>5, <3>6, SameCalls
  <2>4. CASE standing[probed] \notin {"connected", "needs_reauth"}
    <3>1. UNCHANGED <<accounts, sessions>>
      BY <1>4, <2>1, <2>2, <2>4 DEF Judge, accounts
    <3>2. BrokerKnows'
      BY <1>0, <1>4, <2>1, <2>2, <3>1, BrokerMoves DEF Judge, Rest
    <3> QED BY <1>0, <2>2, <3>1, <3>2, SameCalls
  <2> QED BY <2>3, <2>4
<1>5. CASE Claim
  <2>1. PICK s \in Claimable :
           stage' = [stage EXCEPT ![s] = "initializing"] /\ at' = "login" /\ job' = s
    BY <1>5 DEF Claim
  <2>2. \A t \in Sessions : stage'[t] = IF t = s THEN "initializing" ELSE stage[t]
    BY <2>1 DEF TypeOK
  <2>3. s \in Sessions /\ stage[s] \in Open /\ stage'[s] \in Open
    BY <2>2 DEF Claimable, Open
  <2>4. MovesOn
    BY <1>5, <2>2, <2>3 DEF Claim, MovesOn, accounts
  <2>5. Onward /\ \A d \in Callers : call[d] # NoCall => Kept(d)
    BY <2>2, <2>3, <2>4, KeptByOpen DEF Rest
  <2>6. call[Broker] = NoCall /\ UNCHANGED call
    BY <1>5, <1>b DEF Claim
  <2>7. BrokerKnows'
    BY <2>1, <2>2, <2>3, <2>6 DEF BrokerKnows
  <2> QED BY <2>4, <2>5, <2>6, <2>7, RowsMoveOn, SameCalls DEF Rest
<1>6. CASE Report
  <2>1. call[Broker] = NoCall /\ UNCHANGED call /\ job \in Sessions /\ stage[job] # "none"
    BY <1>6, <1>a, <1>b DEF Report
  <2>2. PICK where \in {"waiting", "idle"} : Moves(where)
    BY <1>6 DEF Report
  <2>3. \A t \in Sessions : \/ stage'[t] = stage[t]
                            \/ stage[t] = "initializing" /\ stage'[t] = "awaiting_user"
    BY <1>6 DEF Report, TypeOK
  <2>4. MovesOn /\ \A s \in Sessions : stage[s] \in Open => stage'[s] \in Open
    BY <1>6, <2>3 DEF Report, MovesOn, Open, accounts
  <2>5. Onward /\ \A d \in Callers : call[d] # NoCall => Kept(d)
    BY <2>4, KeptByOpen DEF Rest
  <2>6. BrokerKnows'
    BY <2>1, <2>2, <2>5, BrokerMoves DEF Rest
  <2> QED BY <2>1, <2>4, <2>5, <2>6, RowsMoveOn, SameCalls DEF Rest
<1>7. CASE Check \/ Poll
  <2>1. /\ call[Broker] = NoCall /\ UNCHANGED <<accounts, sessions, call>>
        /\ job \in Sessions /\ stage[job] # "none"
    BY <1>7, <1>a, <1>b DEF Check, Poll
  <2>2. PICK where \in {"waiting", "idle", "checked", "verifying"} : Moves(where)
    BY <1>7 DEF Check, Poll
  <2>3. BrokerKnows'
    BY <1>0, <2>1, <2>2, BrokerMoves DEF Rest
  <2> QED BY <1>0, <2>1, <2>3, SameCalls
<1>8. CASE Mark
  <2>1. call[Broker] = NoCall /\ UNCHANGED call /\ job \in Sessions /\ stage[job] # "none"
    BY <1>8, <1>a, <1>b DEF Mark
  <2>2. \A t \in Sessions : \/ stage'[t] = stage[t]
                            \/ stage[t] \in Open /\ stage'[t] = "verifying"
    BY <1>8 DEF Mark, TypeOK, Open
  <2>3. MovesOn /\ \A s \in Sessions : stage[s] \in Open => stage'[s] \in Open
    BY <1>8, <2>2 DEF Mark, MovesOn, Open, accounts
  <2>4. Onward /\ \A d \in Callers : call[d] # NoCall => Kept(d)
    BY <2>3, KeptByOpen DEF Rest
  <2>5. BrokerKnows'
    BY <1>8, <2>1, <2>4, BrokerMoves DEF Mark, Rest
  <2> QED BY <2>1, <2>3, <2>4, <2>5, RowsMoveOn, SameCalls DEF Rest
<1>9. CASE Complete \/ Fail
  <2>1. PICK op \in {"complete", "fail"}, where \in {"completing", "failing"} :
           Begin(Broker, op, job, of[job]) /\ Moves(where)
    BY <1>9 DEF Complete, Fail
  <2>2. /\ UNCHANGED <<accounts, sessions>>
        /\ job \in Sessions /\ stage[job] # "none" /\ of[job] \in Accounts
    BY <1>9, <1>a DEF Complete, Fail
  <2>3. op \in SessionFirst /\ stage'[job] # "none" /\ of'[job] = of[job] /\ Broker \in Callers
    BY <2>2, Domains DEF SessionFirst, sessions
  <2>4. CallsKnow' /\ LocksExclude'
    BY <1>0, <2>1, <2>2, <2>3, NewCall DEF Rest
  <2>5. BrokerKnows'
    BY <1>0, <2>1, <2>2, BrokerMoves DEF Rest
  <2> QED BY <1>0, <2>2, <2>4, <2>5 DEF Rest
<1>10. ASSUME NEW a \in Accounts, Probe(a) PROVE Rest'
  <2>1. call[Broker] = NoCall /\ UNCHANGED <<accounts, sessions, call>>
    BY <1>10, <1>b DEF Probe
  <2>2. BrokerKnows'
    BY <1>10, <2>1 DEF Probe, BrokerKnows, accounts
  <2> QED BY <1>0, <2>1, <2>2, SameCalls
<1> QED BY <1>1, <1>2, <1>3, <1>4, <1>5, <1>6, <1>7, <1>8, <1>9, <1>10 DEF Drive

LEMMA RowStep ==
    ASSUME TypeOK, Rest, NEW s \in Sessions, Attach(s) \/ Lapse(s)
    PROVE  Rest'
<1>1. UNCHANGED <<accounts, of, era, call, broker>>
  BY DEF Attach, Lapse
<1>2. \A t \in Sessions : \/ stage'[t] = stage[t]
                          \/ stage[t] = "awaiting_user" /\ stage'[t] = "authenticated"
  BY DEF Attach, Lapse, TypeOK
<1>3. MovesOn /\ \A t \in Sessions : stage[t] \in Open => stage'[t] \in Open
  BY <1>1, <1>2 DEF MovesOn, Open, accounts
<1>4. Onward /\ \A d \in Callers : call[d] # NoCall => Kept(d)
  BY <1>3, KeptByOpen DEF Rest
<1>5. BrokerKnows'
  BY <1>1, <1>4, BrokerStays DEF Rest
<1> QED BY <1>1, <1>3, <1>4, <1>5, RowsMoveOn, SameCalls DEF Rest

LEMMA Starts == Init => IInv
<1> SUFFICES ASSUME Init PROVE IInv
  OBVIOUS
<1>1. TypeOK
  BY TypeInit
<1>2. CallsKnow /\ LocksExclude
  BY DEF Init, CallsKnow, LocksExclude
<1>3. BrokerKnows
  BY Domains DEF Init, BrokerKnows
<1>4. Rows
  BY Domains DEF Init, Rows, TenantsExist, OneOpenEach, SlotsApart, ErasAreCurrent,
                 ConnectedIsBacked, Usable
<1> QED BY <1>1, <1>2, <1>3, <1>4 DEF IInv

LEMMA Steps == IInv /\ [Next]_vars => IInv'
<1> SUFFICES ASSUME IInv, [Next]_vars PROVE IInv'
  OBVIOUS
<1>1. TypeOK /\ Rest
  BY DEF IInv, Rest
<1>2. TypeOK'
  BY <1>1, TypeNext DEF Rest
<1>3. CASE UNCHANGED vars
  <2>1. Onward /\ \A d \in Callers : call[d] # NoCall => Kept(d)
    BY <1>1, <1>3, KeptByRest DEF Rest, vars, accounts, sessions
  <2>2. BrokerKnows'
    BY <1>1, <1>3, <2>1, BrokerStays DEF Rest, vars
  <2>3. Rows'
    BY <1>1, <1>3, RowsByRest DEF Rest, vars, sessions
  <2>4. Rest'
    BY <1>1, <1>3, <2>1, <2>2, <2>3, SameCalls DEF vars
  <2> QED BY <1>2, <2>4 DEF IInv, Rest
<1>4. CASE Next
  <2>1. Rest'
    BY <1>1, <1>4, OwnerStep, CallStep, CommitStep, BrokerStep, RowStep DEF Next
  <2> QED BY <1>2, <2>1 DEF IInv, Rest
<1> QED BY <1>3, <1>4

LEMMA IInvHolds == Spec => []IInv
<1> QED BY Starts, Steps, PTL DEF Spec

-----------------------------------------------------------------------------
(* The results. *)

\* Every variable of the sign-ins keeps its type.
THEOREM SignInTypesCorrect == Spec => []TypeOK
<1>1. IInv => TypeOK
  BY DEF IInv
<1> QED BY <1>1, IInvHolds, PTL

LEMMA OneOpenIsOne == IInv => OneOpenSession
<1> SUFFICES ASSUME IInv, NEW a \in Accounts PROVE Cardinality(OpenOf(a)) <= 1
  BY DEF OneOpenSession
<1>1. CASE OpenOf(a) = {}
  BY <1>1, FS_EmptySet
<1>2. CASE OpenOf(a) # {}
  <2>1. PICK s : s \in OpenOf(a)
    BY <1>2
  <2>2. OpenOf(a) = {s}
    BY <2>1 DEF IInv, Rows, OneOpenEach, OpenOf, SessionsOf
  <2>3. Cardinality({s}) = 1
    BY FS_Singleton
  <2> QED BY <2>2, <2>3
<1> QED BY <1>1, <1>2

\* However many connects, cancels and completions overlap, an account never
\* has two open sign-ins.
THEOREM OneOpenSignIn == Spec => []OneOpenSession
<1> QED BY OneOpenIsOne, IInvHolds, PTL

\* An account that reads connected has its credential.
THEOREM ConnectedIsAlwaysBacked == Spec => []ConnectedIsBacked
<1>1. IInv => ConnectedIsBacked
  BY DEF IInv, Rows
<1> QED BY <1>1, IInvHolds, PTL

LEMMA ConnectedByASignIn ==
    ASSUME IInv, [Next]_vars, NEW a \in Accounts,
           standing[a] # "connected", standing'[a] = "connected"
    PROVE  \E s \in OpenOf(a) : stage'[s] = "connected" /\ era[s] = farewells[a]
<1>0. TypeOK /\ Rest
  BY DEF IInv, Rest
<1>1. ~(UNCHANGED standing)
  OBVIOUS
<1>2. PICK c \in Callers : Completed(c)
  <2>1. ~(UNCHANGED vars \/ (\E c \in Callers : Lock(c) \/ Refuse(c) \/ Lose(c) \/ Abort(c)))
    BY <1>1 DEF vars, accounts, Lock, Refuse, Lose, Abort
  <2>2. ~((\E s \in Sessions : Attach(s) \/ Lapse(s)) \/ Start \/ Leave \/ Expire \/ Claim)
    BY <1>1 DEF accounts, Attach, Lapse, Start, Leave, Expire, Claim
  <2>3. ~(Drive \/ \E b \in Accounts : Probe(b))
    BY <1>1 DEF accounts, Drive, Report, Check, Poll, Mark, Complete, Fail, Probe
  <2>4. ~Judge
    BY <1>0 DEF Judge, TypeOK
  <2>5. ~Owner
    BY <1>0, <1>1 DEF Owner, ConnectTo, ConnectNew, Disconnect, Remove, Cancel, accounts, TypeOK
  <2>6. ASSUME NEW c \in Callers PROVE ~(Opened(c) \/ Failed(c))
    BY <1>1 DEF Opened, Failed, accounts
  <2>7. ASSUME NEW c \in Callers PROVE ~(Cancelled(c) \/ Disconnected(c) \/ Removed(c))
    BY <1>0, <1>1 DEF Cancelled, Disconnected, Removed, Erase, TypeOK
  <2> QED BY <2>1, <2>2, <2>3, <2>4, <2>5, <2>6, <2>7 DEF Next, Commit
<1>3. "complete" \in SessionFirst \cup AccountFirst /\ Both(c, "complete")
  BY <1>2 DEF Completed, SessionFirst
<1>4. /\ call[c].account \in Accounts /\ call[c].session \in Sessions
      /\ stage[call[c].session] \in Open /\ call[c].account = of[call[c].session]
  BY <1>0, <1>3, BothFacts DEF SessionFirst
<1>5. a = call[c].account
  BY <1>0, <1>2 DEF Completed, TypeOK
<1>6. stage'[call[c].session] = "connected"
  BY <1>0, <1>2, <1>4 DEF Completed, TypeOK
<1>7. era[call[c].session] = farewells[a]
  BY <1>0, <1>4, <1>5 DEF Rest, Rows, ErasAreCurrent
<1>8. call[c].session \in OpenOf(a)
  BY <1>4, <1>5, Domains DEF OpenOf, SessionsOf
<1> QED BY <1>6, <1>7, <1>8

\* No sign-in opened before a disconnect connects the account after it.
THEOREM DisconnectsStand == Spec => DisconnectStands
<1>1. IInv /\ [Next]_vars =>
        [\A a \in Accounts : standing[a] # "connected" /\ standing'[a] = "connected" =>
            \E s \in OpenOf(a) : stage'[s] = "connected" /\ era[s] = farewells[a]]_vars
  BY ConnectedByASignIn
<1> QED BY <1>1, IInvHolds, PTL DEF Spec, DisconnectStands
=============================================================================
