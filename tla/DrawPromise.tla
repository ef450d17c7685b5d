----------------------------- MODULE DrawPromise -----------------------------
(***************************************************************************)
(* What a commune draw promises, seen by somebody who only reads the       *)
(* permanent records: the terms of the lottery are fixed once (the pool),  *)
(* one result is drawn from exactly those terms, and one announcement is   *)
(* made of it.  No record is ever rewritten or withdrawn.                  *)
(*                                                                         *)
(* DrawCycle, with its concurrent requests and its status columns, is      *)
(* shown to implement this specification.                                  *)
(***************************************************************************)

CONSTANTS
  Draws,         \* commune draws
  Pool,          \* the rows a pool table may hold, each with a field draw
  Result,        \* the rows a result table may hold, each with a field draw
  Drawn(_, _)    \* Drawn(p, r): r is an outcome of a lottery over pool p

VARIABLES
  terms,         \* frozen pools
  outcomes,      \* recorded results
  announced      \* draws whose result is public

promiseVars == <<terms, outcomes, announced>>

Has(table, d) == \E row \in table : row.draw = d

Init ==
  /\ terms = {}
  /\ outcomes = {}
  /\ announced = {}

FixTerms(d) ==
  /\ ~ Has(terms, d)
  /\ \E p \in Pool : p.draw = d /\ terms' = terms \cup {p}
  /\ UNCHANGED <<outcomes, announced>>

Draw(d) ==
  /\ ~ Has(outcomes, d)
  /\ \E p \in terms, r \in Result :
       /\ p.draw = d
       /\ r.draw = d
       /\ Drawn(p, r)
       /\ outcomes' = outcomes \cup {r}
  /\ UNCHANGED <<terms, announced>>

Announce(d) ==
  /\ Has(outcomes, d)
  /\ announced' = announced \cup {d}
  /\ UNCHANGED <<terms, outcomes>>

Next == \E d \in Draws : FixTerms(d) \/ Draw(d) \/ Announce(d)

Spec == Init /\ [][Next]_promiseVars

==============================================================================
