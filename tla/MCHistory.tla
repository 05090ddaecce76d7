------------------------------ MODULE MCHistory ------------------------------
(* Two pages and two logs. *)
EXTENDS History

=============================================================================
