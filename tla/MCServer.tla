------------------------------ MODULE MCServer ------------------------------
(***************************************************************************)
(* Two starts of the process, and requests on sessions of one user.        *)
(***************************************************************************)
EXTENDS Server

OneUser == <<"dispatcher">>

=============================================================================
