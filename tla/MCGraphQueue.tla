---------------------------- MODULE MCGraphQueue ----------------------------
(* The lifecycles of the instances of GraphQueue.                          *)
EXTENDS GraphQueue, TLC

CONSTANTS w1, w2

\* One gate of each kind, so that one graph stands for every template.
EveryKind == 1 :> "RELEASE" @@ 2 :> "AUTOMATIC" @@ 3 :> "HUMAN"
=============================================================================
