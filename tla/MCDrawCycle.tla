----------------------------- MODULE MCDrawCycle -----------------------------
(***************************************************************************)
(* The instance of DrawCycle for TLC: two single applications and a pair   *)
(* in one commune draw, two requests at a time.                            *)
(***************************************************************************)
EXTENDS DrawCycle, TLC

CONSTANTS y1, d1, a1, a2, a3, c1, c2

OneYear == {y1}
OneDraw == {d1}
OneDrawsYear == d1 :> y1
Filed == {a1, a2, a3}
FiledIn == [a \in Filed |-> d1]
TheSingles == {a1, a2}
OnePair == {a3}

TwoClients == {c1, c2}

\* Clients are interchangeable, and so are the two single applications.
SinglesAlike == Permutations(TheSingles)
Symmetry == Permutations(TwoClients) \cup SinglesAlike

==============================================================================
