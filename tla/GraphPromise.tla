---------------------------- MODULE GraphPromise ----------------------------
(***************************************************************************)
(* What the owner of a graph may read off the database about one run of    *)
(* it, whatever engine, promises and workers do underneath: a node begins  *)
(* when what it needs is on record, and ends once; a node with a gate      *)
(* completes only in a run that was claimed after the approval, and waits  *)
(* for a decision otherwise; once a node was given up no other begins or   *)
(* ends; the run closes once, as what its nodes came to, and then nothing  *)
(* of it moves again, except that an open gate may be decided.             *)
(***************************************************************************)
EXTENDS FiniteSets

CONSTANTS Nodes, Deps, Tolerant, Gated

VARIABLES run, rows, gate, claimed

seen == <<run, rows, gate, claimed>>

In(states) == {n \in Nodes : rows[n] \in states}

\* A tolerant node needs one of its inputs, and none that is still worked on.
Needed(n) ==
    IF n \in Tolerant /\ Deps[n] # {}
    THEN /\ Deps[n] \cap In({"COMPLETED"}) # {}
         /\ Deps[n] \cap In({"RUNNING"}) = {}
    ELSE Deps[n] \subseteq In({"COMPLETED"})

Passes(n) == n \in Gated => claimed[n] = "APPROVED"

Waits(n) == n \in Gated /\ claimed[n] \notin {"APPROVED", "REJECTED"}

Move(n, from, to) ==
    /\ run = "RUNNING" /\ rows[n] = from
    /\ rows' = [rows EXCEPT ![n] = to]
    /\ UNCHANGED <<run, gate, claimed>>

Init ==
    /\ run = "RUNNING" /\ rows = [n \in Nodes |-> "PENDING"]
    /\ gate \in [Gated -> {"NONE", "STALE", "APPROVED", "REJECTED"}] /\ claimed = gate

Begins(n) == In({"SKIPPED"}) = {} /\ Needed(n) /\ Move(n, "PENDING", "RUNNING")

Ends(n) ==
    /\ In({"SKIPPED"}) = {}
    /\ \/ Passes(n) /\ Move(n, "RUNNING", "COMPLETED")
       \/ Waits(n) /\ Move(n, "RUNNING", "VERIFYING")
       \/ Move(n, "RUNNING", "FAILED")

\* A node that never began, or that awaits another attempt, is given up.
GivenUp(n) == \E from \in {"PENDING", "RUNNING"} : Move(n, from, "SKIPPED")

GateOpens(n) ==
    /\ run = "RUNNING" /\ rows[n] = "VERIFYING" /\ gate[n] \in {"NONE", "STALE"}
    /\ gate' = [gate EXCEPT ![n] = "OPEN"]
    /\ UNCHANGED <<run, rows, claimed>>

GateDecided(n) ==
    /\ gate[n] \in {"OPEN", "STALE"}
    /\ \E decision \in {"APPROVED", "REJECTED"} : gate' = [gate EXCEPT ![n] = decision]
    /\ UNCHANGED <<run, rows, claimed>>

\* What the rows of a closing run have come to.
AddsUpTo(state) ==
    \/ state = "COMPLETED" /\ In({"COMPLETED"}) = Nodes
    \/ /\ state = "PARTIAL" /\ In({"COMPLETED"}) \notin {{}, Nodes}
       /\ \A n \in In({"VERIFYING"}) : n \in Gated /\ gate[n] = "OPEN"
    \/ state = "FAILED" /\ In({"COMPLETED", "VERIFYING"}) = {}
    \/ state \in {"CANCELLED", "BUDGET_STOPPED"} /\ In({"VERIFYING"}) = {}

Closed ==
    /\ run = "RUNNING" /\ In({"PENDING", "RUNNING"}) = {}
    /\ AddsUpTo(run')
    /\ UNCHANGED <<rows, gate, claimed>>

\* A run that has gone silent fails with all that it had not settled.
Reclaimed ==
    /\ run = "RUNNING" /\ run' = "FAILED"
    /\ rows' = [n \in Nodes |-> IF n \in In({"PENDING", "RUNNING", "VERIFYING"})
                                THEN "CANCELLED" ELSE rows[n]]
    /\ UNCHANGED <<gate, claimed>>

Next ==
    \/ \E n \in Nodes : Begins(n) \/ Ends(n) \/ GivenUp(n)
    \/ \E n \in Gated : GateOpens(n) \/ GateDecided(n)
    \/ Closed
    \/ Reclaimed

Spec == Init /\ [][Next]_seen
=============================================================================
