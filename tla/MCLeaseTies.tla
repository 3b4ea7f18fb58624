----------------------------- MODULE MCLeaseTies -----------------------------
(* Instances of LeaseTies for TLC. *)
EXTENDS LeaseTies, TLC, FiniteSetsExt

CONSTANTS ann, Ann    \* two spellings of one identity; every other actor has one

MCCanon == [a \in Actor |-> IF a = Ann THEN ann ELSE a]

(* Unused row_lock values differ in nothing but their name: take the least. *)
Least(K) == IF K = {} THEN {} ELSE {Min(K)}

(* Actors with one spelling each, none of them a pool, differ only in name. *)
SessionActorSymmetry == Permutations(Session) \cup Permutations(Actor)

=============================================================================
