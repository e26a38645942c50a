---------------------------- MODULE MCHomeConfig ----------------------------
(* Module HomeConfig for TLC: a run for each of two clusters.               *)
EXTENDS HomeConfig

TwoClusters == [m \in Merger |-> IF m = "p1" THEN "apps" ELSE "cicd"]

=============================================================================
