-------------------------- MODULE MCControlGroups ---------------------------
(* Two reapers: their groups are stepped together but do not meet. *)
EXTENDS ControlGroups
MCReaper == {"r1", "r2"}
=============================================================================
