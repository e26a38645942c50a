---------------------------- MODULE MCApplyTofu -----------------------------
(* Module ApplyTofu for TLC: two drivers and a DNS sync.                    *)
EXTENDS ApplyTofu, TLC

Symmetry == Permutations(Driver) \cup Permutations(Cluster)

=============================================================================
