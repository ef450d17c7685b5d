-------------------------------- MODULE Listing --------------------------------
(***************************************************************************)
(* A listing of the console: filters that are chosen, a text that counts   *)
(* only once nobody types any more, and a page of what they leave. Every   *)
(* change of what is asked for sends a request, and the answers arrive in  *)
(* any order, or not at all.                                               *)
(*                                                                         *)
(* Abstracted: the columns; the rows stay as they are (a listing beside    *)
(* changes of what it lists is modelled in PublicResults).                 *)
(***************************************************************************)
EXTENDS Integers, FiniteSets, FiniteSetsExt

CONSTANTS
  None,
  Statuses, Texts, \* values of the filters, None for no filter
  Rows,            \* [rank, choice, text], ranked newest first
  PageSize

ListingAssumption ==
  /\ PageSize \in Nat \ {0} /\ IsFiniteSet(Rows)
  /\ None \in Statuses \cap Texts
  /\ \A r, s \in Rows : r.rank = s.rank => r = s

VARIABLES
  filters,        \* the filters, the text typed and the page
  settled,        \* the text that counts
  requests,       \* the requests on their way, and whether their answer is waited for
  shown           \* what the table shows

vars == <<filters, settled, requests, shown>>

Initial == [choice |-> None, text |-> None, page |-> 1]

\* What the page asks for: its request changes when one of these does.
Query(f, text) == [choice |-> f.choice, text |-> text, page |-> f.page]
Asked == Query(filters, settled)

Loading == [is |-> "loading"]
Failed == [is |-> "error"]

-----------------------------------------------------------------------------
(* The server. *)

Found(q) == {r \in Rows : q.choice \in {None, r.choice} /\ q.text \in {None, r.text}}

\* boundedPaging and paged
PageOf(q) ==
  LET found == Found(q)
      before(r) == Cardinality({s \in found : s.rank < r.rank})
      skip == (q.page - 1) * PageSize
  IN [is |-> "ready", query |-> q, page |-> q.page,
      items |-> {r \in found : before(r) \in skip .. skip + PageSize - 1},
      totalPages |-> Max({(Cardinality(found) + PageSize - 1) \div PageSize, 1})]

-----------------------------------------------------------------------------
(* useAsync *)

\* A request for q, which supersedes the others.
Load(q) ==
  /\ requests' = {[r EXCEPT !.active = FALSE] : r \in requests} \cup {[query |-> q, active |-> TRUE]}
  /\ shown' = Loading

\* A rendering after which the page asks for q.
Ask(q) == IF q = Asked THEN UNCHANGED <<requests, shown>> ELSE Load(q)

Init ==
  /\ filters = Initial
  /\ settled = None
  /\ requests = {[query |-> Query(Initial, None), active |-> TRUE]}
  /\ shown = Loading

\* Faulty: whatever arrives is shown.
AnswerInOrderOfArrival(r, result) ==
  /\ r \in requests
  /\ requests' = requests \ {r}
  /\ shown' = result
  /\ UNCHANGED <<filters, settled>>

\* An answer or a failure arrives; it counts when nothing superseded its request.
Answer(r, result) ==
  /\ r \in requests
  /\ requests' = requests \ {r}
  /\ shown' = IF r.active THEN result ELSE shown
  /\ UNCHANGED <<filters, settled>>

Reload ==
  /\ shown = Failed
  /\ Load(Asked)
  /\ UNCHANGED <<filters, settled>>

-----------------------------------------------------------------------------
(* The filters. *)

SetFilters(f) ==
  /\ f # filters
  /\ filters' = f
  /\ Ask(Query(f, settled))
  /\ UNCHANGED settled

\* narrow
Choose(c) == SetFilters([choice |-> c, text |-> filters.text, page |-> 1])

Type(text) == SetFilters([choice |-> filters.choice, text |-> text, page |-> 1])

Clear == SetFilters(Initial)

\* TablePager, which is there when there are pages.
TurnPage(next) ==
  /\ shown.is = "ready" /\ shown.totalPages > 1
  /\ next \in {shown.page - 1, shown.page + 1} \cap 1 .. shown.totalPages
  /\ SetFilters([filters EXCEPT !.page = next])

\* useDebounced: its timer runs anew with every change of the text.
Settle ==
  /\ settled # filters.text
  /\ settled' = filters.text
  /\ Ask(Query(filters, filters.text))
  /\ UNCHANGED filters

Operator ==
  \/ \E c \in Statuses : Choose(c)
  \/ \E text \in Texts : Type(text)
  \/ Clear
  \/ \E next \in 1 .. Cardinality(Rows) : TurnPage(next)
  \/ Reload

Arrive == \E r \in requests : Answer(r, PageOf(r.query))
Fail == \E r \in requests : Answer(r, Failed)

Next == Operator \/ Settle \/ Arrive \/ Fail

Spec == Init /\ [][Next]_vars

-----------------------------------------------------------------------------

Queries == [choice : Statuses, text : Texts, page : {1} \cup 1 .. Cardinality(Rows)]

TypeOK ==
  /\ filters \in Queries
  /\ settled \in Texts
  /\ requests \subseteq [query : Queries, active : BOOLEAN]
  /\ shown \in {Loading, Failed} \cup {PageOf(q) : q \in Queries}

(* The table shows what was last asked for, whatever the order in which the   *)
(* answers arrive: never the rows of one territory under the filter of another. *)
ShownIsAsked == shown.is = "ready" => shown = PageOf(Asked)

(* The page shown is one of the pages there are: its table is empty only when  *)
(* nothing matches.                                                             *)
PageOfItsFilter == shown.is = "ready" => shown.page <= shown.totalPages

==============================================================================
