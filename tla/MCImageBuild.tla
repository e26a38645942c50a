---------------------------- MODULE MCImageBuild ----------------------------
(* Module ImageBuild for TLC: two builds of the one template.               *)
EXTENDS ImageBuild

=============================================================================
