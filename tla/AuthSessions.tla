----------------------------- MODULE AuthSessions -----------------------------
(***************************************************************************)
(* Signing an AI account in: ai_accounts, ai_auth_sessions and the slots   *)
(* of provider_credentials, between the owner's clicks and the one broker. *)
(*                                                                         *)
(* Six functions lock two rows.  Cancel, complete and fail lock a session  *)
(* and then its account; open, disconnect and remove lock the account and  *)
(* then its open sessions.  Each is a call of three steps, "called", its   *)
(* first row held, and committed; two of them that meet are a deadlock, of *)
(* which PostgreSQL aborts one.  now() is fixed when a call is made        *)
(* ("fresh": its session had not lapsed then).  The functions that lock    *)
(* one row are one step.                                                   *)
(***************************************************************************)
EXTENDS Naturals, FiniteSets

CONSTANTS
    MaxAccounts,    \* bound: rows of ai_accounts, one provider's
    Slots,          \* credential_purpose, as many as capacity allows
    MaxSessions,    \* bound: sign-ins ever opened
    Clicks,         \* owner requests in flight
    Broker,         \* the requests of the broker
    MaxLeaves       \* bound: brokers that die or are relieved

ASSUME AuthSessionsAssumption ==
    Slots # {} /\ MaxAccounts \in Nat \ {0} /\ MaxSessions \in Nat /\ MaxLeaves \in Nat /\ Broker \notin Clicks

VARIABLES
    standing,       \* an account's status, "none" before and "removed" after
    slot,           \* credential_purpose
    farewells,      \* how often the account was disconnected
    stage,          \* a session's status, "none" before and "gone" after
    of,             \* ai_account_id
    era,            \* farewells of the account when the session was opened
    lapsed,         \* sessions past expires_at
    sealed,         \* slots that hold a credential
    call,           \* the calls in flight
    at,             \* where the broker is
    job,            \* the session it drives
    probed,         \* the account whose credential it found wanting
    leaves          \* how many brokers have left

accounts == <<standing, slot, farewells, sealed>>
sessions == <<stage, of, era, lapsed>>
broker   == <<at, job, probed, leaves>>
vars     == <<accounts, sessions, call, broker>>

Accounts  == 1..MaxAccounts
Sessions  == 1..MaxSessions
Callers   == Clicks \cup {Broker}
Open      == {"pending", "initializing", "awaiting_user", "authenticated", "verifying"}
Ended     == {"connected", "failed", "expired", "revoked"}
Usable    == {"pending", "connected", "needs_reauth", "disconnected"}
SessionFirst == {"cancel", "complete", "fail"}
AccountFirst == {"open", "disconnect", "remove"}

NoCall == [op |-> "none"]
Calls  == [op : SessionFirst \cup AccountFirst, session : Sessions \cup {0},
           account : Accounts, held : BOOLEAN, fresh : BOOLEAN]

TypeOK ==
    /\ standing \in [Accounts -> Usable \cup {"none", "removed"}]
    /\ slot \in [Accounts -> Slots] /\ farewells \in [Accounts -> Nat]
    /\ stage \in [Sessions -> Open \cup Ended \cup {"none", "gone"}]
    /\ of \in [Sessions -> Accounts] /\ era \in [Sessions -> Nat]
    /\ lapsed \subseteq Sessions /\ sealed \subseteq Slots
    /\ call \in [Callers -> Calls \cup {NoCall}]
    /\ at \in {"off", "starting", "idle", "judging", "login", "waiting", "checked",
               "verifying", "minting", "completing", "failing"}
    /\ job \in Sessions \cup {0} /\ probed \in Accounts \cup {0} /\ leaves \in 0..MaxLeaves

Init ==
    /\ standing = [a \in Accounts |-> "none"]
    /\ \E p \in Slots : slot = [a \in Accounts |-> p]
    /\ farewells = [a \in Accounts |-> 0]
    /\ stage = [s \in Sessions |-> "none"] /\ era = [s \in Sessions |-> 0]
    /\ of = [s \in Sessions |-> 1]
    /\ lapsed = {} /\ sealed = {} /\ call = [c \in Callers |-> NoCall]
    /\ at = "off" /\ job = 0 /\ probed = 0 /\ leaves = 0

-----------------------------------------------------------------------------
(* Rows, locks and calls. *)

Existing == {a \in Accounts : standing[a] \in Usable}

SessionsOf(a) == {s \in Sessions : stage[s] # "none" /\ of[s] = a}

OpenOf(a) == {s \in SessionsOf(a) : stage[s] \in Open}

SessionHeld(s) == \E c \in Callers :
    call[c].op \in SessionFirst /\ call[c].held /\ call[c].session = s

AccountHeld(a) == \E c \in Callers :
    call[c].op \in AccountFirst /\ call[c].held /\ call[c].account = a

Begin(c, op, s, a) ==
    /\ call[c] = NoCall
    /\ call' = [call EXCEPT ![c] = [op |-> op, session |-> s, account |-> a,
                                    held |-> FALSE, fresh |-> s \notin lapsed]]

\* Mutant: a completion does not look at the session it has locked.
AdmittedBlindly(k) ==
    \/ k.op \in {"cancel", "fail"} /\ stage[k.session] \in Open
    \/ k.op = "complete" /\ stage[k.session] # "gone" /\ k.fresh
    \/ k.op \in {"open", "remove"} /\ k.account \in Existing
    \/ k.op = "disconnect" /\ k.account \in Existing /\ standing[k.account] # "disconnected"

\* What a function demands of the row it has locked.
Admitted(k) ==
    \/ k.op \in {"cancel", "fail"} /\ stage[k.session] \in Open
    \/ k.op = "complete" /\ stage[k.session] \in {"authenticated", "verifying"} /\ k.fresh
    \/ k.op \in {"open", "remove"} /\ k.account \in Existing
    \/ k.op = "disconnect" /\ k.account \in Existing /\ standing[k.account] # "disconnected"

\* The broker goes to another point of its program; idle, it drives nothing.
Moves(where) ==
    /\ at' = where /\ job' = IF where = "idle" THEN 0 ELSE job
    /\ probed' = 0 /\ UNCHANGED leaves

Finish(c) == call' = [call EXCEPT ![c] = NoCall]

\* The broker goes on from its call, unless it left meanwhile.  A completion
\* that raises or whose answer is lost is reported as a failure.
Hears(c, heard) ==
    IF c = Broker /\ at # "off" THEN Moves(heard) ELSE UNCHANGED broker

HearsNo(c) == Hears(c, IF call[c].op = "complete" THEN "failing" ELSE "idle")

Free(c) ==
    IF call[c].op \in SessionFirst THEN ~SessionHeld(call[c].session)
                                   ELSE ~AccountHeld(call[c].account)

\* select ... for update, of a row that admits the call.
Lock(c) ==
    /\ call[c] # NoCall /\ ~call[c].held /\ Free(c) /\ Admitted(call[c])
    /\ call' = [call EXCEPT ![c].held = TRUE]
    /\ UNCHANGED <<accounts, sessions, broker>>

\* ... and of one that does not: the function returns false or raises.
Refuse(c) ==
    /\ call[c] # NoCall /\ ~call[c].held /\ Free(c) /\ ~Admitted(call[c])
    /\ Finish(c) /\ HearsNo(c)
    /\ UNCHANGED <<accounts, sessions>>

\* A request that never reaches the database.
Lose(c) ==
    /\ call[c] # NoCall /\ ~call[c].held
    /\ Finish(c) /\ HearsNo(c)
    /\ UNCHANGED <<accounts, sessions>>

\* Each holds the row the other wants: one transaction is rolled back.
Abort(c) ==
    /\ call[c] # NoCall /\ call[c].held
    /\ \E d \in Callers :
        /\ call[d] # NoCall /\ call[d].held /\ call[d].account = call[c].account
        /\ (call[c].op \in SessionFirst) # (call[d].op \in SessionFirst)
    /\ Finish(c) /\ HearsNo(c)
    /\ UNCHANGED <<accounts, sessions>>

\* The call holds its first row and gets the second.
Both(c, op) ==
    /\ call[c].op = op /\ call[c].held
    /\ IF op \in SessionFirst THEN ~AccountHeld(call[c].account)
                              ELSE \A s \in OpenOf(call[c].account) : ~SessionHeld(s)
    /\ Finish(c)

\* Mutant: superseding leaves a session whose code is being exchanged alone.
RevokedIfIdle(a) ==
    [s \in Sessions |-> IF s \in OpenOf(a) /\ stage[s] # "verifying" THEN "revoked" ELSE stage[s]]

Revoked(a) == [s \in Sessions |-> IF s \in OpenOf(a) THEN "revoked" ELSE stage[s]]

\* The account's row, its credential and, by cascade, its sessions.
Erase(a) ==
    /\ standing' = [standing EXCEPT ![a] = "removed"]
    /\ sealed' = sealed \ {slot[a]}
    /\ stage' = [s \in Sessions |-> IF s \in SessionsOf(a) THEN "gone" ELSE stage[s]]

-----------------------------------------------------------------------------
(* The owner. *)

\* The bound on sessions leaves a row to every call that may insert one.
Room == Cardinality({c \in Callers : call[c].op = "open"})
            < Cardinality({s \in Sessions : stage[s] = "none"})

\* POST connect to an account that exists.  An open sign-in it finds is resumed,
\* which changes nothing; it opens another when there is none, or when the
\* lookup fails and leaves it ignorant of one.
ConnectTo(c, a) ==
    /\ a \in Existing /\ Room
    /\ Begin(c, "open", 0, a)
    /\ UNCHANGED <<accounts, sessions, broker>>

\* planConnect finds nothing to reuse and a free slot.
ConnectNew(c, a) ==
    /\ standing[a] = "none" /\ \A b \in 1..(a - 1) : standing[b] # "none"
    /\ Room
    /\ \A b \in Existing : standing[b] = "connected"
    /\ \E p \in Slots \ {slot[b] : b \in Existing} : slot' = [slot EXCEPT ![a] = p]
    /\ standing' = [standing EXCEPT ![a] = "pending"]
    /\ Begin(c, "open", 0, a)
    /\ UNCHANGED <<farewells, sealed, sessions, broker>>

Cancel(c, s) ==
    /\ stage[s] \in Open /\ Begin(c, "cancel", s, of[s])
    /\ UNCHANGED <<accounts, sessions, broker>>

Disconnect(c, a) ==
    /\ a \in Existing /\ Begin(c, "disconnect", 0, a)
    /\ UNCHANGED <<accounts, sessions, broker>>

Remove(c, a) ==
    /\ a \in Existing /\ Begin(c, "remove", 0, a)
    /\ UNCHANGED <<accounts, sessions, broker>>

\* The confirmation code, pasted.
Attach(s) ==
    /\ stage[s] = "awaiting_user" /\ s \notin lapsed /\ ~SessionHeld(s)
    /\ stage' = [stage EXCEPT ![s] = "authenticated"]
    /\ UNCHANGED <<accounts, of, era, lapsed, call, broker>>

\* open_ai_auth_session commits: the account's open sign-ins are superseded.
Opened(c) == \E s \in Sessions :
    /\ stage[s] = "none" /\ \A t \in 1..(s - 1) : stage[t] # "none"
    /\ Both(c, "open")
    /\ LET a == call[c].account IN
        /\ stage' = [Revoked(a) EXCEPT ![s] = "pending"]
        /\ of' = [of EXCEPT ![s] = a]
        /\ era' = [era EXCEPT ![s] = farewells[a]]
    /\ UNCHANGED <<accounts, lapsed, broker>>

\* An account that never connected goes with its sign-in.
Discards(a) == standing[a] = "pending"

Cancelled(c) ==
    /\ Both(c, "cancel")
    /\ LET a == call[c].account IN
        \/ Discards(a) /\ Erase(a)
        \/ /\ ~Discards(a)
           /\ stage' = [stage EXCEPT ![call[c].session] = "revoked"]
           /\ UNCHANGED <<standing, sealed>>
    /\ UNCHANGED <<slot, farewells, of, era, lapsed, broker>>

Disconnected(c) ==
    /\ Both(c, "disconnect")
    /\ LET a == call[c].account IN
        /\ stage' = Revoked(a)
        /\ sealed' = sealed \ {slot[a]}
        /\ standing' = [standing EXCEPT ![a] = "disconnected"]
        /\ farewells' = [farewells EXCEPT ![a] = @ + 1]
    /\ UNCHANGED <<slot, of, era, lapsed, broker>>

Removed(c) ==
    /\ Both(c, "remove") /\ Erase(call[c].account)
    /\ UNCHANGED <<slot, farewells, of, era, lapsed, broker>>

Owner == \E c \in Clicks :
    \/ \E a \in Accounts : ConnectTo(c, a) \/ ConnectNew(c, a) \/ Disconnect(c, a) \/ Remove(c, a)
    \/ \E s \in Sessions : Cancel(c, s)

-----------------------------------------------------------------------------
(* The broker: one at a time, by the workflow's concurrency group. *)

\* Its predecessor's last transaction is over long before a runner starts.
Start ==
    /\ at = "off" /\ call[Broker] = NoCall /\ Moves("starting")
    /\ UNCHANGED <<accounts, sessions, call>>

\* It dies, or reaches its deadline or a newer release.
Leave ==
    /\ at # "off" /\ leaves < MaxLeaves
    /\ at' = "off" /\ job' = 0 /\ probed' = 0 /\ leaves' = leaves + 1
    /\ UNCHANGED <<accounts, sessions, call>>

\* Mutant: the sweep leaves a claimed session to its broker.
UnclaimedStale == {s \in lapsed : stage[s] = "pending"}

Stale == {s \in lapsed : stage[s] \in Open}

\* At the start, and then on every thirtieth idle round.
Expire ==
    /\ at = "starting" \/ (at = "idle" /\ Stale # {})
    /\ \A s \in Stale : ~SessionHeld(s)
    /\ stage' = [s \in Sessions |-> IF s \in Stale THEN "expired" ELSE stage[s]]
    /\ Moves("idle")
    /\ UNCHANGED <<accounts, of, era, lapsed, call>>

\* The sweep or the usage probe finds that a connected account's credential
\* does not open, has the wrong shape or is refused by the provider ...
Probe(a) ==
    /\ at = "idle" /\ standing[a] = "connected"
    /\ at' = "judging" /\ probed' = a
    /\ UNCHANGED <<accounts, sessions, call, job, leaves>>

\* Mutant: the demotion does not look at the account again.
JudgeBlindly ==
    /\ at = "judging" /\ ~AccountHeld(probed)
    /\ standing' = [standing EXCEPT ![probed] = "needs_reauth"]
    /\ Moves("idle")
    /\ UNCHANGED <<slot, farewells, sealed, sessions, call>>

\* ... and says so, to an account that may have changed since.
Judge ==
    /\ at = "judging" /\ ~AccountHeld(probed)
    /\ standing' = IF standing[probed] \in {"pending", "connected", "needs_reauth"}
                   THEN [standing EXCEPT ![probed] = "needs_reauth"] ELSE standing
    /\ Moves("idle")
    /\ UNCHANGED <<slot, farewells, sealed, sessions, call>>

Claimable == {s \in Sessions \ lapsed : stage[s] = "pending" /\ ~SessionHeld(s)}

Claim == \E s \in Claimable :
    /\ at = "idle" /\ \A t \in Claimable : s <= t
    /\ stage' = [stage EXCEPT ![s] = "initializing"]
    /\ at' = "login" /\ job' = s
    /\ UNCHANGED <<accounts, of, era, lapsed, call, probed, leaves>>

\* The login has its URL and the session takes it, or is no longer there to.
Report ==
    /\ at = "login" /\ ~SessionHeld(job)
    /\ IF stage[job] = "initializing" /\ job \notin lapsed
       THEN stage' = [stage EXCEPT ![job] = "awaiting_user"] /\ Moves("waiting")
       ELSE stage' = stage /\ Moves("idle")
    /\ UNCHANGED <<accounts, of, era, lapsed, call>>

\* readSessionStatus.  The status of a session that is gone is unknown, and
\* unknown reads as keep going.
Check ==
    /\ at = "waiting"
    /\ Moves(IF stage[job] \in Ended THEN "idle" ELSE "checked")
    /\ UNCHANGED <<accounts, sessions, call>>

\* The provider finished a device login, or the code has arrived, or neither.
Poll ==
    /\ at = "checked"
    /\ \/ Moves("verifying")
       \/ ~(stage[job] = "authenticated" /\ job \notin lapsed) /\ Moves("waiting")
    /\ UNCHANGED <<accounts, sessions, call>>

\* mark_ai_auth_session_verifying; its answer is not looked at.
Mark ==
    /\ at = "verifying" /\ ~SessionHeld(job)
    /\ stage' = IF stage[job] \in {"authenticated", "awaiting_user"} /\ job \notin lapsed
                THEN [stage EXCEPT ![job] = "verifying"] ELSE stage
    /\ Moves("minting")
    /\ UNCHANGED <<accounts, of, era, lapsed, call>>

\* The credential is minted and posted.
Complete ==
    /\ at = "minting" /\ Begin(Broker, "complete", job, of[job]) /\ Moves("completing")
    /\ UNCHANGED <<accounts, sessions>>

\* No URL, no code, no token in time, a failed login or a refused completion.
Fail ==
    /\ at \in {"login", "waiting", "checked", "verifying", "minting", "failing"}
    /\ Begin(Broker, "fail", job, of[job]) /\ Moves("failing")
    /\ UNCHANGED <<accounts, sessions>>

Completed(c) ==
    /\ Both(c, "complete")
    /\ stage' = [stage EXCEPT ![call[c].session] = "connected"]
    /\ standing' = [standing EXCEPT ![call[c].account] = "connected"]
    /\ sealed' = sealed \cup {slot[call[c].account]}
    /\ \E heard \in {"idle", "failing"} : Hears(c, heard)
    /\ UNCHANGED <<slot, farewells, of, era, lapsed>>

Failed(c) ==
    /\ Both(c, "fail")
    /\ stage' = [stage EXCEPT ![call[c].session] = "failed"]
    /\ Hears(c, "idle")
    /\ UNCHANGED <<accounts, of, era, lapsed>>

Drive ==
    \/ Report \/ Check \/ Poll \/ Mark \/ Complete \/ Fail

\* expires_at passes.
Lapse(s) ==
    /\ stage[s] \in Open /\ s \notin lapsed /\ lapsed' = lapsed \cup {s}
    /\ UNCHANGED <<accounts, stage, of, era, call, broker>>

-----------------------------------------------------------------------------
Commit(c) ==
    \/ Opened(c) \/ Cancelled(c) \/ Disconnected(c) \/ Removed(c)
    \/ Completed(c) \/ Failed(c)

Next ==
    \/ Owner
    \/ \E c \in Callers : Lock(c) \/ Refuse(c) \/ Lose(c) \/ Abort(c) \/ Commit(c)
    \/ \E s \in Sessions : Attach(s) \/ Lapse(s)
    \/ Start \/ Leave \/ Expire \/ Judge \/ Claim \/ Drive
    \/ \E a \in Accounts : Probe(a)

Spec == Init /\ [][Next]_vars

\* Runners start on a schedule, requests are answered, time passes and the
\* broker goes on.  Its deadlines end every wait in the end (Fail), and its
\* sweep, waiting for a row, is next in that row's queue (Expire).
Fairness ==
    /\ WF_vars(Start) /\ SF_vars(Expire) /\ WF_vars(Judge) /\ WF_vars(Claim)
    /\ WF_vars(Drive) /\ SF_vars(Fail)
    /\ \A c \in Callers : WF_vars(Lock(c) \/ Refuse(c) \/ Abort(c) \/ Commit(c))
    /\ \A s \in Sessions : WF_vars(Lapse(s))

FairSpec == Spec /\ Fairness

-----------------------------------------------------------------------------
(* Properties. *)

\* The partial unique index is never what stops a sign-in: superseding leaves
\* an account one open session whatever calls overlap.
OneOpenSession == \A a \in Accounts : Cardinality(OpenOf(a)) <= 1

\* An account that says it is connected, or was and must sign in again, has
\* its credential, whichever of two calls on it won and whatever the sweep
\* still thought it knew.
ConnectedIsBacked ==
    \A a \in Accounts : standing[a] \in {"connected", "needs_reauth"} => slot[a] \in sealed

\* A disconnect is final for every sign-in opened before it: the account only
\* becomes connected through an open one begun since.
DisconnectStands ==
    [][\A a \in Accounts : standing[a] # "connected" /\ standing'[a] = "connected" =>
        \E s \in OpenOf(a) : stage'[s] = "connected" /\ era[s] = farewells[a]]_vars

\* Every sign-in ends, the broker dying, the owner gone or the answer lost.
SignInsEnd == \A s \in Sessions : stage[s] \in Open ~> stage[s] \notin Open

-----------------------------------------------------------------------------
(* Claims of the repository that the code does not keep. *)

\* auth-broker.ts:186: "A cancelled or superseded session is not worth driving".
DeadSignInsAreDropped ==
    [][at = "waiting" /\ at' = "checked" => stage[job] \in Open]_vars
=============================================================================
