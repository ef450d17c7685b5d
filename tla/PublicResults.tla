---------------------------- MODULE PublicResults ----------------------------
(***************************************************************************)
(* What everybody may read: the list of announced results, page by page,   *)
(* and each result in full, both through shared caches that keep successes *)
(* only.  The list is read by two queries that are not of one moment, its  *)
(* rows and their number.  Withdrawals and the reserves' answers go on     *)
(* after the announcement, and are part of the published result.           *)
(*                                                                         *)
(* Abstracted: names and counts; a copy of the caches may be served from   *)
(* when it was made until it expires, at any time; only the pages of this  *)
(* application ask for the list.                                           *)
(***************************************************************************)
EXTENDS Naturals, Sequences, FiniteSets, SequencesExt

CONSTANTS
  Communes,            \* communes whose draw of a year was held
  Year,                \* [Communes -> the year]
  Readers, Visitors,   \* who reads the list, who reads one result
  Amended,             \* communes where a winner gives up the place
  PageSize,
  None

ResultsAssumption ==
  /\ PageSize \in Nat \ {0} /\ \A c \in Communes : Year[c] \in Nat
  /\ Amended \subseteq Communes /\ IsFiniteSet(Communes) /\ Communes # {}

VARIABLES
  feed,      \* the publications, in the order of the listing
  outcome,   \* [commune -> is the winner's place given up, the reserve's state]
  listCopy,  \* [filter, page -> the copy a shared cache holds, or None]
  copy,      \* [commune -> the copy of its result, or None]
  list,      \* [reader -> the page of results: filter, page, what it shows]
  result     \* [reader -> the page of one result]

vars == <<feed, outcome, listCopy, copy, list, result>>

Filters == {None} \cup {Year[c] : c \in Communes}
Pages == 1 .. Cardinality(Communes)

Announced == ToSet(feed)

\* publicationFilter.
Matching(filter) == {c \in Announced : filter = None \/ Year[c] = filter}

\* skip and take, in the order of the listing.
Place(c) == CHOOSE i \in DOMAIN feed : feed[i] = c
Rank(filter, c) == Cardinality({d \in Matching(filter) : Place(d) <= Place(c)})
Window(filter, page) ==
  {c \in Matching(filter) :
     (page - 1) * PageSize < Rank(filter, c) /\ Rank(filter, c) <= page * PageSize}

\* toPublicPage.
TotalPages(total) == IF total = 0 THEN 1 ELSE (total + PageSize - 1) \div PageSize

NoList == [filter |-> None, page |-> 1, state |-> "loading", rows |-> {}, total |-> 0,
           before |-> {}]
NoResult == [at |-> None, state |-> "closed", body |-> None]

Init ==
  /\ feed = <<>>
  /\ outcome = [c \in Communes |-> [withdrawn |-> FALSE, reserve |-> "WAITING"]]
  /\ listCopy = [f \in Filters |-> [p \in Pages |-> None]]
  /\ copy = [c \in Communes |-> None]
  /\ list = [r \in Readers |-> NoList]
  /\ result = [v \in Visitors |-> NoResult]

(***************************************************************************)
(* The administrators.                                                     *)
(***************************************************************************)
\* Newest year first, and within a year the newest announcement.
Publish(c) ==
  /\ c \notin Announced
  /\ LET newer == Cardinality({d \in Announced : Year[d] > Year[c]})
     IN feed' = InsertAt(feed, newer + 1, c)
  /\ UNCHANGED <<outcome, listCopy, copy, list, result>>

\* toPublicWinner and toPublicReserve: what an abandonment, a call and an
\* answer make of the published result, before or after it is published.
Amend(c) ==
  /\ \/ /\ ~ outcome[c].withdrawn
        /\ outcome' = [outcome EXCEPT ![c].withdrawn = TRUE]
     \/ /\ outcome[c].withdrawn /\ outcome[c].reserve = "WAITING"
        /\ outcome' = [outcome EXCEPT ![c].reserve = "CALLED"]
     \/ /\ outcome[c].reserve = "CALLED"
        /\ \E answer \in {"PROMOTED", "DECLINED"} :
             outcome' = [outcome EXCEPT ![c].reserve = answer]
  /\ UNCHANGED <<feed, listCopy, copy, list, result>>

ExpireList(f, p) ==
  /\ listCopy[f][p] # None
  /\ listCopy' = [listCopy EXCEPT ![f][p] = None]
  /\ UNCHANGED <<feed, outcome, copy, list, result>>

Expire(c) ==
  /\ copy[c] # None
  /\ copy' = [copy EXCEPT ![c] = None]
  /\ UNCHANGED <<feed, outcome, listCopy, list, result>>

(***************************************************************************)
(* The page of all results.                                                *)
(***************************************************************************)
Hold(r, record) == list' = [list EXCEPT ![r] = record]

Shown(l, rows, total) == [l EXCEPT !.state = "shown", !.rows = rows, !.total = total]

ListFromCache(r) ==
  LET l == list[r] held == listCopy[l.filter][l.page] IN
  /\ l.state = "loading" /\ held # None
  /\ Hold(r, Shown(l, held.rows, held.total))
  /\ UNCHANGED <<feed, outcome, listCopy, copy, result>>

\* One of the two queries, and then the other with the answer.
ReadRows(r) ==
  LET l == list[r] IN
  /\ l.state = "loading" /\ listCopy[l.filter][l.page] = None
  /\ Hold(r, [l EXCEPT !.state = "rows", !.rows = Window(l.filter, l.page)])
  /\ UNCHANGED <<feed, outcome, listCopy, copy, result>>

CountRows(r) ==
  LET l == list[r] IN
  /\ l.state = "loading" /\ listCopy[l.filter][l.page] = None
  /\ Hold(r, [l EXCEPT !.state = "count", !.total = Cardinality(Matching(l.filter))])
  /\ UNCHANGED <<feed, outcome, listCopy, copy, result>>

AnswerList(r) ==
  LET l == list[r]
      rows == IF l.state = "rows" THEN l.rows ELSE Window(l.filter, l.page)
      total == IF l.state = "count" THEN l.total ELSE Cardinality(Matching(l.filter))
  IN /\ l.state \in {"rows", "count"}
     /\ Hold(r, Shown(l, rows, total))
     /\ listCopy' = [listCopy EXCEPT ![l.filter][l.page] = [rows |-> rows, total |-> total]]
     /\ UNCHANGED <<feed, outcome, copy, result>>

\* Pagination: the page before or after, by the total last shown.
TurnTo(r, p) ==
  LET l == list[r] IN
  /\ l.state = "shown" /\ l.rows # {} /\ p \in 1 .. TotalPages(l.total)
  /\ p = l.page + 1 \/ p = l.page - 1
  /\ Hold(r, [NoList EXCEPT !.filter = l.filter, !.page = p,
                            !.before = IF p = l.page + 1 THEN l.rows ELSE {}])
  /\ UNCHANGED <<feed, outcome, listCopy, copy, result>>

\* changeFilters: back to the first page.
ChangeFilter(r, f) ==
  /\ list[r].state = "shown" /\ f # list[r].filter
  /\ Hold(r, [NoList EXCEPT !.filter = f])
  /\ UNCHANGED <<feed, outcome, listCopy, copy, result>>

(***************************************************************************)
(* The page of one result.                                                 *)
(***************************************************************************)
\* Any commune may be asked for: by a row of the list, or by its address.
OpenResult(v, c) ==
  /\ result' = [result EXCEPT ![v] = [at |-> c, state |-> "loading", body |-> None]]
  /\ UNCHANGED <<feed, outcome, listCopy, copy, list>>

\* Faulty: the answer of a commune that has not announced is kept, too.
ServeKeepingAbsence(v) ==
  LET c == result[v].at
      found == IF copy[c] # None THEN copy[c]
               ELSE IF c \in Announced THEN [state |-> "found", body |-> outcome[c]]
               ELSE [state |-> "absent", body |-> None]
  IN /\ result[v].state = "loading"
     /\ copy' = [copy EXCEPT ![c] = found]
     /\ result' = [result EXCEPT ![v].state = found.state, ![v].body = found.body]
     /\ UNCHANGED <<feed, outcome, listCopy, list>>

\* A copy if there is one.  Only a result is kept: "not found" never is.
Serve(v) ==
  LET c == result[v].at
      found == IF copy[c] # None THEN copy[c]
               ELSE IF c \in Announced THEN [state |-> "found", body |-> outcome[c]]
               ELSE [state |-> "absent", body |-> None]
  IN /\ result[v].state = "loading"
     /\ copy' = IF found.state = "found" THEN [copy EXCEPT ![c] = found] ELSE copy
     /\ result' = [result EXCEPT ![v].state = found.state, ![v].body = found.body]
     /\ UNCHANGED <<feed, outcome, listCopy, list>>

Next ==
  \/ \E c \in Communes : Publish(c) \/ Expire(c)
  \/ \E c \in Amended : Amend(c)
  \/ \E f \in Filters, p \in Pages : ExpireList(f, p)
  \/ \E r \in Readers :
       \/ ListFromCache(r) \/ ReadRows(r) \/ CountRows(r) \/ AnswerList(r)
       \/ \E p \in Pages : TurnTo(r, p)
       \/ \E f \in Filters : ChangeFilter(r, f)
  \/ \E v \in Visitors :
       \/ \E c \in Communes : OpenResult(v, c)
       \/ Serve(v)

Spec == Init /\ [][Next]_vars

-----------------------------------------------------------------------------
(***************************************************************************)
(* Properties.                                                             *)
(***************************************************************************)
TypeOK ==
  /\ IsInjective(feed) /\ Announced \subseteq Communes
  /\ \A i, j \in 1 .. Len(feed) : i < j => Year[feed[i]] >= Year[feed[j]]
  /\ \A c \in Communes : outcome[c].reserve # "WAITING" => outcome[c].withdrawn
  /\ \A r \in Readers :
       /\ list[r].filter \in Filters /\ list[r].page \in Pages
       /\ Cardinality(list[r].rows) <= PageSize
  /\ \A v \in Visitors : result[v].state \in {"closed", "loading", "found", "absent"}

\* Neither page, nor a copy of one, shows a result before it is announced.
NothingUnannounced ==
  /\ \A r \in Readers : list[r].rows \subseteq Announced
  /\ \A v \in Visitors : result[v].state = "found" => result[v].at \in Announced
  /\ \A c \in Communes : copy[c] # None /\ copy[c].state = "found" => c \in Announced

\* Whatever was asked before the announcement, a reader who asks afterwards is
\* not told that there is nothing: absence is never remembered.
NotFoundIsTrue ==
  [][\A v \in Visitors :
       result[v].state = "loading" /\ result'[v].state = "absent" =>
         result[v].at \notin Announced]_vars

\* A page after the first is never empty, which would read as "no results".
NeverPastTheEnd ==
  \A r \in Readers : list[r].state = "shown" /\ list[r].page > 1 => list[r].rows # {}

\* public-results.service: recency paginates correctly; nobody who pages
\* through sees a result twice.
NoRowTwice ==
  \A r \in Readers : list[r].state = "shown" => list[r].rows \cap list[r].before = {}

\* public-cache: a published result never changes.
PublishedNeverChanges ==
  [][\A c \in Announced : outcome'[c] = outcome[c]]_vars
==============================================================================
