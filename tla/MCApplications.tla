---------------------------- MODULE MCApplications ----------------------------
(***************************************************************************)
(* Registration for TLC: a woman of 44 and her brother, 19 today; a boy;   *)
(* two requests at once, of forms that contradict what is recorded, change *)
(* the places, or name a commune of another wilaya.                        *)
(***************************************************************************)
EXTENDS Registration, TLC

CONSTANTS amina, brahim, chafik, r1, r2

A(id, gender, dob) == [id |-> id, gender |-> gender, dob |-> dob]
Amina == A(amina, "FEMALE", Date(1982, 3, 2))
Brahim == A(brahim, "MALE", Date(2008, 3, 1))

Form(primary, secondary, wilaya) ==
  [primary |-> primary, secondary |-> secondary, communeId |-> "arzew", claimedWilaya |-> wilaya]

TwoRequests == {r1, r2}
TheForms == {
  Form(Amina, Brahim, "oran"),
  Form([Brahim EXCEPT !.gender = "FEMALE"], [Amina EXCEPT !.gender = "MALE"], "oran"),
  Form([Amina EXCEPT !.dob = Date(1960, 1, 1)], None, "oran"),
  Form(Brahim, None, "oran"),
  Form(A(chafik, "MALE", Date(2008, 3, 2)), None, "oran"),
  Form(Brahim, None, "alger"),
  Form(Brahim, Brahim, "oran")}
OneCommune == "arzew" :> [wilaya |-> "oran", isActive |-> TRUE, wilayaIsActive |-> TRUE]
TwoEntered == {Amina, Brahim}
TwoReferences == {"ref1", "ref2"}
FirstOfMarch == Date(2027, 3, 1)

Symmetry == Permutations(TwoRequests)

===============================================================================
