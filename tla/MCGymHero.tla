----------------------------- MODULE MCGymHero ------------------------------
(* Small instances of GymHero for TLC. *)
EXTENDS GymHero, TLC

CONSTANTS ann, bob, cat, n1, n2, p1, w1, x1, b1, t1, l1, m1

MCSeeded == {bob, p1, w1, x1, b1, t1, l1}

MCSeedName(i) == IF i = bob THEN n2 ELSE IF i \in Exercises \cup Lookups THEN m1 ELSE n1

\* Requests are alike.
Alike == Permutations(Requests)
=============================================================================
