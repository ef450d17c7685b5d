------------------------------- MODULE PlaceBook -------------------------------
(***************************************************************************)
(* What becomes of the places a lottery awarded, seen from outside.  Each  *)
(* place is held by the entry that won it until that entry gives it up,    *)
(* and is then offered to the reserves, one at a time, in the order the    *)
(* lottery drew them; a reserve is asked once.  No place is ever added.    *)
(*                                                                         *)
(* Reserves, with its concurrent requests and its rows, is shown to        *)
(* implement this specification.                                           *)
(***************************************************************************)
EXTENDS Integers

CONSTANTS
  WinnerCount,     \* places the lottery awarded, by selection order
  ReserveCount     \* reserves it drew, by call order

VARIABLES
  place,           \* what became of each place
  asked            \* reserves that have been asked, in order

bookVars == <<place, asked>>

Place == {"held", "vacant", "offered", "filled"}

Init ==
  /\ place = [w \in 1 .. WinnerCount |-> "held"]
  /\ asked = {}

Becomes(w, from, to) ==
  /\ place[w] = from
  /\ place' = [place EXCEPT ![w] = to]

GiveUp(w) == Becomes(w, "held", "vacant") /\ UNCHANGED asked

Offer(w) ==
  /\ Becomes(w, "vacant", "offered")
  /\ \E r \in 1 .. ReserveCount : asked = 1 .. r - 1 /\ asked' = 1 .. r

TurnDown(w) == Becomes(w, "offered", "vacant") /\ UNCHANGED asked

TakeUp(w) == Becomes(w, "offered", "filled") /\ UNCHANGED asked

Next == \E w \in 1 .. WinnerCount : GiveUp(w) \/ Offer(w) \/ TurnDown(w) \/ TakeUp(w)

Spec == Init /\ [][Next]_bookVars

==============================================================================
