------------------------------- MODULE MCMatch -------------------------------
(***************************************************************************)
(* Match for TLC: the properties of the match logic and the symmetry of    *)
(* its players.                                                            *)
(***************************************************************************)
EXTENDS MatchProps, TLC

Symmetry == Permutations(PlayerIds)
=============================================================================
