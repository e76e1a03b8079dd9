---------------------------- MODULE MCDataSealer ----------------------------
(***************************************************************************)
(* Two threads and a resource with a key a that stays and a key b that     *)
(* comes, stays or goes.                                                   *)
(***************************************************************************)
EXTENDS DataSealer

CONSTANTS a, b, m1, m2

KeyA == [name |-> a, mat |-> m1]
KeyB == [name |-> b, mat |-> m2]

MCContents == {<<KeyA>>, <<KeyA, KeyB>>}

\* What was sealed with b.
MCData == {[label |-> b, key |-> KeyB, expired |-> FALSE]}
=============================================================================
