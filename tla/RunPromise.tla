----------------------------- MODULE RunPromise -----------------------------
(***************************************************************************)
(* What the control plane promises about a Phase 1C run, whatever workers, *)
(* leases, clocks and sweeps do underneath: a run is submitted once, is    *)
(* executed in at most MaxAttempts numbered attempts, settles in one       *)
(* outcome, and a cancellation that was asked for is the only outcome a    *)
(* run can still settle in.  A failed run may be queued again while        *)
(* attempts remain; a succeeded or cancelled run never moves again.        *)
(*                                                                         *)
(* One step of the database may move several runs (the claim functions     *)
(* settle every exhausted run before they hand one out), so a step of this *)
(* specification lets every run take one of its own moves.                 *)
(***************************************************************************)
EXTENDS Integers

CONSTANTS Runs, MaxAttempts

VARIABLE life

Phases == {"none", "queued", "running", "succeeded", "failed", "cancelled"}

Lives == [phase : Phases, attempts : 0..MaxAttempts, stop : BOOLEAN]

Life(phase, attempts, stop) == [phase |-> phase, attempts |-> attempts, stop |-> stop]

Unborn == Life("none", 0, FALSE)

Submitted(old, new) ==
    /\ old.phase = "none"
    /\ new = Life("queued", old.attempts, old.stop)

Started(old, new) ==
    /\ old.phase \in {"queued", "running"}
    /\ old.attempts < MaxAttempts
    /\ ~old.stop
    /\ new = Life("running", old.attempts + 1, old.stop)

StopAsked(old, new) ==
    \/ /\ old.phase = "queued"
       /\ new = Life("cancelled", old.attempts, TRUE)
    \/ /\ old.phase = "running"
       /\ new = Life("running", old.attempts, TRUE)

Settled(old, new) ==
    \E outcome \in {"succeeded", "failed", "cancelled"} :
        /\ old.phase \in {"queued", "running"}
        /\ outcome = "succeeded" => old.phase = "running"
        /\ outcome = "cancelled" <=> old.stop
        /\ new = Life(outcome, old.attempts, old.stop)

Requeued(old, new) ==
    /\ old.phase = "failed"
    /\ old.attempts < MaxAttempts
    /\ ~old.stop
    /\ new = Life("queued", old.attempts, old.stop)

Move(old, new) ==
    \/ Submitted(old, new)
    \/ Started(old, new)
    \/ StopAsked(old, new)
    \/ Settled(old, new)
    \/ Requeued(old, new)

Init == life = [r \in Runs |-> Unborn]

Next ==
    /\ life' \in [Runs -> Lives]
    /\ \A r \in Runs : life'[r] = life[r] \/ Move(life[r], life'[r])

Spec == Init /\ [][Next]_life
=============================================================================
