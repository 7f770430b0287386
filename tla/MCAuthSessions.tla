----------------------------- MODULE MCAuthSessions -----------------------------
(***************************************************************************)
(* The administrator and a second user, two browsers, three tokens, two    *)
(* requests at a time.                                                     *)
(***************************************************************************)
EXTENDS AuthSessions, TLC

Symmetry == Permutations(Browser)
=============================================================================
