---------------------------- MODULE MCSessionRun -----------------------------
(* Two workers, whose sessions go through two nodes and one. *)
EXTENDS SessionRun, TLC

CONSTANTS w1, w2

McSteps == w1 :> 2 @@ w2 :> 1
==============================================================================
