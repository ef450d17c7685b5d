--------------------------- MODULE DrawCycleProofs ---------------------------
(***************************************************************************)
(* Proofs about DrawCycle, for every set of years, draws, applications and *)
(* clients and every bound, and about the pages that look at the draws of  *)
(* a year or act on them (Pages): the listings and the dashboard of the    *)
(* console, the public page that watches a draw, the batches, the pages of *)
(* one draw, the form of a citizen, the scripts that take draws back and   *)
(* the public results.  Each has an invariant of its own: IInv,            *)
(* ListingIInv, DashboardIInv, WatchIInv, BatchIInv, ConsoleIInv,          *)
(* FormIInv, ScriptsIInv and ResultsIInv.                                  *)
(***************************************************************************)
EXTENDS DrawCycle, Pages, Sequences, Induction, FiniteSetTheorems, TLAPS

\* A patch in flight is for a commune draw that exists and asks for no status
\* the system reserves for itself; the version an allocation patch was judged
\* against is either gone or still that of a configurable draw.
PatchesAreJudged ==
  \A c \in Clients : request[c].op = "drawPatch" =>
    LET req == request[c]
        target == communeDraw[req.draw]
    IN
    /\ target.status # "ABSENT"
    /\ req.status \notin {"LOCKED", "COMPLETED"}
    /\ req.spots # 0 =>
         /\ req.expected <= target.revision
         /\ req.expected = target.revision => AllowsSpotChanges(target.status)

\* One pool per commune draw, and one result drawn from it.
OnePool == \A p, q \in pools : p.draw = q.draw => p = q

DrawnFromPool ==
  /\ \A r \in results : \E p \in pools : p.draw = r.draw /\ Drawn(p, r)
  /\ \A r, s \in results : r.draw = s.draw => r = s

\* What is pooled, or about to be, was filed in that draw and is ELIGIBLE
\* until the draw has a pool.
PoolsAreLocal ==
  /\ \A p \in pools : \A a \in p.entries : DrawOf[a] = p.draw
  /\ \A c \in Clients : request[c].op = "freeze" =>
       \A a \in request[c].entries :
         /\ DrawOf[a] = request[c].draw
         /\ ~ Has(pools, request[c].draw) => application[a] = "ELIGIBLE"

IInv ==
  /\ TypeOK
  /\ PatchesAreJudged
  /\ StatusIsBacked
  /\ OnePool
  /\ DrawnFromPool
  /\ PoolsAreLocal
  /\ OutcomesFinalized


------------------------------------------------------------------------------
(* Types                                                                    *)

\* The operation a request names tells its shape.
LEMMA RequestShape ==
  ASSUME TypeOK, NEW c \in Clients
  PROVE  /\ request[c] \in Request
         /\ request[c].op = "yearPatch" => request[c] \in YearPatch
         /\ request[c].op = "drawPatch" => request[c] \in DrawPatch
         /\ request[c].op = "freeze" => request[c] \in Freeze
         /\ request[c].op = "publish" => request[c] \in Publish
         /\ request[c].op = "register" => request[c] \in Register
  BY DEF TypeOK, Request, Idle, YearPatch, DrawPatch, Freeze, Publish, Register

\* The initial rows have their types.
LEMMA InitTypeOK == Init => TypeOK
  BY ConfigurationAssumption
  DEF Init, TypeOK, NoCommuneDraw, ApplicationStatus, Request, Idle

\* Every step keeps the types.
LEMMA StepTypeOK == TypeOK /\ PatchesAreJudged /\ [Next]_vars => TypeOK'
  <1> SUFFICES ASSUME TypeOK, PatchesAreJudged, [Next]_vars PROVE TypeOK'
    OBVIOUS
  <1> USE ConfigurationAssumption
  <1>1. ASSUME NEW y \in Years, CreateDrawYear(y) PROVE TypeOK'
    BY <1>1 DEF TypeOK, CreateDrawYear, DrawYearStatus
  <1>2. ASSUME NEW d \in Draws, NEW n \in Spots, CreateCommuneDraw(d, n) PROVE TypeOK'
    BY <1>2 DEF TypeOK, CreateCommuneDraw, WriteDraw, CommuneDrawRow, CommuneDrawStatus, NoCommuneDraw
  <1>3. ASSUME NEW d \in Draws, Execute(d) PROVE TypeOK'
    BY <1>3 DEF TypeOK, Execute, Finalize, WriteDraw, CommuneDrawRow, CommuneDrawStatus, NoCommuneDraw,
                ApplicationStatus
  <1>4. ASSUME NEW c \in Clients, ClientStep(c) PROVE TypeOK'
    <2> USE RequestShape
    <2>1. ASSUME NEW y \in Years, NEW st \in DrawYearStatus, BeginYearPatch(c, y, st)
          PROVE  TypeOK'
      BY <2>1 DEF TypeOK, BeginYearPatch, Starts, Request, YearPatch
    <2>2. CASE CommitYearPatch(c)
      BY <2>2 DEF TypeOK, CommitYearPatch, Ends, Request, YearPatch
    <2>3. ASSUME NEW d \in Draws, NEW st \in CommuneDrawStatus \cup {Keep},
                 NEW n \in 0 .. MaxSpots, NEW v \in 0 .. MaxRevision,
                 BeginDrawPatch(c, d, st, n, v)
          PROVE  TypeOK'
      BY <2>3 DEF TypeOK, BeginDrawPatch, Starts, Request, DrawPatch
    <2>4. CASE CommitDrawPatch(c)
      <3> DEFINE req == request[c]
      <3>1. req \in DrawPatch /\ communeDraw[req.draw].status # "ABSENT"
        BY <2>4 DEF CommitDrawPatch, PatchesAreJudged
      <3>2. communeDraw[req.draw] \in CommuneDrawRow
        BY <3>1 DEF TypeOK, DrawPatch, NoCommuneDraw
      <3>3. communeDraw' \in [Draws -> CommuneDrawRow \cup {NoCommuneDraw}]
        BY <2>4, <3>1, <3>2
        DEF TypeOK, CommitDrawPatch, WriteDraw, DrawPatch, CommuneDrawRow, Spots
      <3> QED
        BY <2>4, <3>3 DEF TypeOK, CommitDrawPatch, Ends, Request
    <2>5. ASSUME NEW a \in Applications, BeginRegister(c, a) PROVE TypeOK'
      BY <2>5 DEF TypeOK, BeginRegister, Starts, Request, Register
    <2>6. CASE CheckCommuneIsDrawing(c)
      BY <2>6 DEF TypeOK, CheckCommuneIsDrawing, Request, Register
    <2>7. CASE CommitRegister(c)
      BY <2>7 DEF TypeOK, CommitRegister, Ends, Request, Register, ApplicationStatus
    <2>8. ASSUME NEW d \in Draws, BeginFreeze(c, d) PROVE TypeOK'
      BY <2>8 DEF TypeOK, BeginFreeze, Starts, Request, Freeze, CommuneDrawRow, NoCommuneDraw
    <2>9. CASE ReadCandidates(c)
      BY <2>9 DEF TypeOK, ReadCandidates, Request, Freeze, EligibleFor
    <2>10. CASE CommitFreeze(c)
      BY <2>10 DEF TypeOK, CommitFreeze, Ends, WriteDraw, Request, Freeze, Pool,
                   CommuneDrawRow, NoCommuneDraw, CommuneDrawStatus
    <2>11. ASSUME NEW d \in Draws, BeginPublish(c, d) PROVE TypeOK'
      BY <2>11 DEF TypeOK, BeginPublish, Starts, Request, Publish, CommuneDrawRow, NoCommuneDraw, CommuneDrawStatus
    <2>12. CASE CommitPublish(c)
      BY <2>12 DEF TypeOK, CommitPublish, Ends, Request, Publish
    <2>13. CASE Refuse(c)
      BY <2>13 DEF TypeOK, Refuse, Ends, Request
    <2> QED
      BY <1>4, <2>1, <2>2, <2>3, <2>4, <2>5, <2>6, <2>7, <2>8, <2>9, <2>10, <2>11,
         <2>12, <2>13 DEF ClientStep
  <1>5. CASE UNCHANGED vars
    BY <1>5 DEF TypeOK, vars
  <1> QED
    BY <1>1, <1>2, <1>3, <1>4, <1>5 DEF Next

------------------------------------------------------------------------------
(* Patches in flight                                                        *)

\* No step leaves a patch in flight that was never judged, or judged too long ago.
LEMMA StepPatchesAreJudged ==
  TypeOK /\ PatchesAreJudged /\ [Next]_vars => PatchesAreJudged'
  <1> SUFFICES ASSUME TypeOK, PatchesAreJudged, [Next]_vars,
                      NEW k \in Clients, request'[k].op = "drawPatch"
               PROVE  LET req == request'[k]
                          target == communeDraw'[req.draw]
                      IN
                      /\ target.status # "ABSENT"
                      /\ req.status \notin {"LOCKED", "COMPLETED"}
                      /\ req.spots # 0 =>
                           /\ req.expected <= target.revision
                           /\ req.expected = target.revision => AllowsSpotChanges(target.status)
    BY DEF PatchesAreJudged
  <1> DEFINE Judged(req, rows) ==
        /\ rows[req.draw].status # "ABSENT"
        /\ req.status \notin {"LOCKED", "COMPLETED"}
        /\ req.spots # 0 =>
             /\ req.expected <= rows[req.draw].revision
             /\ req.expected = rows[req.draw].revision
                  => AllowsSpotChanges(rows[req.draw].status)
  <1>0. SUFFICES Judged(request'[k], communeDraw')
    OBVIOUS
  <1>k. request[k].op = "drawPatch" => request[k] \in DrawPatch /\ Judged(request[k], communeDraw)
    BY RequestShape DEF PatchesAreJudged
  \* A commune draw that is written has a new revision.
  <1>w. ASSUME NEW d \in Draws, NEW st \in CommuneDrawStatus, NEW n, WriteDraw(d, st, n),
               request'[k] = request[k]
        PROVE  Judged(request'[k], communeDraw')
    <2>1. request[k] \in DrawPatch /\ Judged(request[k], communeDraw)
      BY <1>w, <1>k
    <2>2. CASE request[k].draw = d
      <3>1. communeDraw[d].revision \in Nat
        BY DEF TypeOK, CommuneDrawRow, NoCommuneDraw
      <3>2. /\ communeDraw'[d].status = st
            /\ communeDraw'[d].revision = communeDraw[d].revision + 1
        BY <1>w DEF WriteDraw, TypeOK
      <3> QED
        BY <1>w, <2>1, <2>2, <3>1, <3>2 DEF DrawPatch, CommuneDrawStatus
    <2>3. CASE request[k].draw # d
      BY <1>w, <2>1, <2>3 DEF WriteDraw, TypeOK, DrawPatch
    <2> QED
      BY <2>2, <2>3
  <1>u. ASSUME communeDraw' = communeDraw, request'[k] = request[k]
        PROVE  Judged(request'[k], communeDraw')
    BY <1>k, <1>u
  <1>1. ASSUME NEW y \in Years, CreateDrawYear(y) PROVE Judged(request'[k], communeDraw')
    BY <1>1, <1>u DEF CreateDrawYear
  <1>2. ASSUME NEW d \in Draws, NEW n \in Spots, CreateCommuneDraw(d, n)
        PROVE  Judged(request'[k], communeDraw')
    BY <1>2, <1>w DEF CreateCommuneDraw, CommuneDrawStatus
  <1>3. ASSUME NEW d \in Draws, Execute(d) PROVE Judged(request'[k], communeDraw')
    BY <1>3, <1>w DEF Execute, CommuneDrawStatus
  <1>4. ASSUME NEW c \in Clients, ClientStep(c) PROVE Judged(request'[k], communeDraw')
    <2> USE RequestShape
    \* A step of another client leaves the request alone, one that ends the
    \* request leaves nothing to judge.
    <2>e. ASSUME Ends(c) PROVE c # k /\ request'[k] = request[k]
      BY <2>e DEF Ends, TypeOK, Idle
    <2>1. ASSUME NEW y \in Years, NEW st \in DrawYearStatus, BeginYearPatch(c, y, st)
          PROVE  Judged(request'[k], communeDraw')
      BY <2>1, <1>u DEF BeginYearPatch, Starts, TypeOK
    <2>2. CASE CommitYearPatch(c)
      BY <2>2, <2>e, <1>u DEF CommitYearPatch
    <2>3. ASSUME NEW d \in Draws, NEW st \in CommuneDrawStatus \cup {Keep},
                 NEW n \in 0 .. MaxSpots, NEW v \in 0 .. MaxRevision,
                 BeginDrawPatch(c, d, st, n, v)
          PROVE  Judged(request'[k], communeDraw')
      <3>1. CASE c = k
        BY <2>3, <3>1 DEF BeginDrawPatch, Starts, TypeOK, PatchAllowed,
                          IsAdministrativelySettable, Keep
      <3>2. CASE c # k
        BY <2>3, <3>2, <1>u DEF BeginDrawPatch, Starts, TypeOK
      <3> QED
        BY <3>1, <3>2
    <2>4. CASE CommitDrawPatch(c)
      <3> DEFINE req == request[c]
                 target == communeDraw[req.draw]
                 status == IF req.status = Keep THEN target.status ELSE req.status
      <3>1. req \in DrawPatch /\ target.status # "ABSENT"
        BY <2>4 DEF CommitDrawPatch, PatchesAreJudged
      <3>2. status \in CommuneDrawStatus
        BY <3>1 DEF TypeOK, DrawPatch, CommuneDrawRow, NoCommuneDraw
      <3>3. WriteDraw(req.draw, status, IF req.spots = 0 THEN target.spots ELSE req.spots)
        BY <2>4 DEF CommitDrawPatch
      <3>4. request'[k] = request[k]
        BY <2>4, <2>e DEF CommitDrawPatch
      <3>5. req.draw \in Draws
        BY <3>1 DEF DrawPatch
      <3> HIDE DEF req, status, Judged
      <3> QED
        BY <3>2, <3>3, <3>4, <3>5, <1>w
    <2>5. ASSUME NEW a \in Applications, BeginRegister(c, a)
          PROVE  Judged(request'[k], communeDraw')
      BY <2>5, <1>u DEF BeginRegister, Starts, TypeOK
    <2>6. CASE CheckCommuneIsDrawing(c)
      BY <2>6, <1>u DEF CheckCommuneIsDrawing, TypeOK, Register
    <2>7. CASE CommitRegister(c)
      BY <2>7, <2>e, <1>u DEF CommitRegister
    <2>8. ASSUME NEW d \in Draws, BeginFreeze(c, d) PROVE Judged(request'[k], communeDraw')
      BY <2>8, <1>u DEF BeginFreeze, Starts, TypeOK
    <2>9. CASE ReadCandidates(c)
      BY <2>9, <1>u DEF ReadCandidates, TypeOK, Freeze
    <2>10. CASE CommitFreeze(c)
      <3>1. request[c].draw \in Draws
        BY <2>10 DEF CommitFreeze, Freeze
      <3> QED
        BY <2>10, <2>e, <3>1, <1>w DEF CommitFreeze, CommuneDrawStatus
    <2>11. ASSUME NEW d \in Draws, BeginPublish(c, d) PROVE Judged(request'[k], communeDraw')
      BY <2>11, <1>u DEF BeginPublish, Starts, TypeOK
    <2>12. CASE CommitPublish(c)
      BY <2>12, <2>e, <1>u DEF CommitPublish
    <2>13. CASE Refuse(c)
      BY <2>13, <2>e, <1>u DEF Refuse
    <2> QED
      BY <1>4, <2>1, <2>2, <2>3, <2>4, <2>5, <2>6, <2>7, <2>8, <2>9, <2>10, <2>11,
         <2>12, <2>13 DEF ClientStep
  <1>5. CASE UNCHANGED vars
    BY <1>5, <1>u DEF vars
  <1> QED
    BY <1>1, <1>2, <1>3, <1>4, <1>5 DEF Next

------------------------------------------------------------------------------
(* What a step does to the tables                                           *)

\* Only four transactions touch the commune draws.
LEMMA DrawWriters ==
  ASSUME [Next]_vars
  PROVE  \/ communeDraw' = communeDraw
         \/ \E d \in Draws, n \in Spots : CreateCommuneDraw(d, n)
         \/ \E d \in Draws : Execute(d)
         \/ \E c \in Clients : CommitFreeze(c) \/ CommitDrawPatch(c)
  BY DEF Next, ClientStep, vars, CreateDrawYear, BeginYearPatch, CommitYearPatch,
         BeginDrawPatch, BeginRegister, CheckCommuneIsDrawing, CommitRegister,
         BeginFreeze, ReadCandidates, BeginPublish, CommitPublish, Refuse

\* A commune draw is written by an administrator, who cannot reach LOCKED or
\* COMPLETED, by a freeze or by an execution.
LEMMA DrawWrites ==
  ASSUME TypeOK, PatchesAreJudged, [Next]_vars, NEW d \in Draws
  PROVE  \/ communeDraw'[d] = communeDraw[d]
         \/ communeDraw'[d].status \notin {"LOCKED", "COMPLETED"}
         \/ /\ \E c \in Clients : CommitDrawPatch(c) /\ request[c].draw = d
            /\ communeDraw'[d].status = communeDraw[d].status
         \/ \E c \in Clients : CommitFreeze(c) /\ request[c].draw = d
         \/ Execute(d)
  <1> USE RequestShape
  <1>1. ASSUME NEW e \in Draws, NEW n \in Spots, CreateCommuneDraw(e, n)
        PROVE  \/ communeDraw'[d] = communeDraw[d]
               \/ communeDraw'[d].status \notin {"LOCKED", "COMPLETED"}
    BY <1>1 DEF CreateCommuneDraw, WriteDraw, TypeOK
  <1>2. ASSUME NEW e \in Draws, Execute(e)
        PROVE  communeDraw'[d] = communeDraw[d] \/ Execute(d)
    BY <1>2 DEF Execute, WriteDraw, TypeOK
  <1>3. ASSUME NEW c \in Clients, CommitFreeze(c)
        PROVE  communeDraw'[d] = communeDraw[d] \/ request[c].draw = d
    BY <1>3 DEF CommitFreeze, WriteDraw, TypeOK
  <1>4. ASSUME NEW c \in Clients, CommitDrawPatch(c)
        PROVE  \/ communeDraw'[d] = communeDraw[d]
               \/ communeDraw'[d].status \notin {"LOCKED", "COMPLETED"}
               \/ request[c].draw = d /\ communeDraw'[d].status = communeDraw[d].status
    BY <1>4 DEF CommitDrawPatch, WriteDraw, TypeOK, PatchesAreJudged
  <1> QED
    BY <1>1, <1>2, <1>3, <1>4, DrawWriters

\* Only three transactions touch the applications, the pools or the results.
LEMMA RecordWrites ==
  ASSUME [Next]_vars
  PROVE  \/ UNCHANGED <<application, pools, results>>
         \/ \E c \in Clients : CommitRegister(c)
         \/ \E c \in Clients : CommitFreeze(c)
         \/ \E d \in Draws : Execute(d)
  BY DEF Next, ClientStep, vars, CreateDrawYear, CreateCommuneDraw, BeginYearPatch,
         CommitYearPatch, BeginDrawPatch, CommitDrawPatch, BeginRegister,
         CheckCommuneIsDrawing, BeginFreeze, ReadCandidates, BeginPublish,
         CommitPublish, Refuse

\* No pool and no result is ever removed.
LEMMA RecordsGrow ==
  ASSUME [Next]_vars PROVE pools \subseteq pools' /\ results \subseteq results'
  BY RecordWrites DEF CommitRegister, CommitFreeze, Execute

\* Every step keeps LOCKED and COMPLETED backed by their records.
LEMMA StepStatusIsBacked ==
  TypeOK /\ PatchesAreJudged /\ StatusIsBacked /\ [Next]_vars => StatusIsBacked'
  <1> SUFFICES ASSUME TypeOK, PatchesAreJudged, StatusIsBacked, [Next]_vars,
                      NEW d \in Draws
               PROVE  /\ communeDraw'[d].status \in {"LOCKED", "COMPLETED"} => Has(pools', d)
                      /\ communeDraw'[d].status = "COMPLETED" => Has(results', d)
    BY DEF StatusIsBacked, Has
  <1>1. /\ Has(pools, d) => Has(pools', d)
        /\ Has(results, d) => Has(results', d)
    BY RecordsGrow DEF Has
  <1>2. CASE communeDraw'[d].status = communeDraw[d].status
    BY <1>1, <1>2 DEF StatusIsBacked
  <1>3. ASSUME NEW c \in Clients, CommitFreeze(c), request[c].draw = d
        PROVE  Has(pools', d) /\ communeDraw'[d].status = "LOCKED"
    <2>1. communeDraw'[d].status = "LOCKED"
      BY <1>3 DEF CommitFreeze, WriteDraw, TypeOK
    <2>2. [draw |-> d, spots |-> request[c].spots, entries |-> request[c].entries] \in pools'
      BY <1>3 DEF CommitFreeze
    <2> QED
      BY <2>1, <2>2 DEF Has
  <1>4. CASE Execute(d)
    BY <1>4 DEF Execute, Has
  <1> QED
    BY <1>2, <1>3, <1>4, DrawWrites

\* No step moves the allocation of a locked or completed draw.
LEMMA StepFrozenAllocation ==
  ASSUME TypeOK, PatchesAreJudged, [Next]_vars, NEW d \in Draws,
         communeDraw[d].status \in {"LOCKED", "COMPLETED"}
  PROVE  communeDraw'[d].spots = communeDraw[d].spots
  <1> USE RequestShape
  <1>1. ASSUME NEW e \in Draws, NEW n \in Spots, CreateCommuneDraw(e, n)
        PROVE  communeDraw'[d].spots = communeDraw[d].spots
    BY <1>1 DEF CreateCommuneDraw, WriteDraw, TypeOK
  <1>2. ASSUME NEW e \in Draws, Execute(e)
        PROVE  communeDraw'[d].spots = communeDraw[d].spots
    BY <1>2 DEF Execute, WriteDraw, TypeOK
  <1>3. ASSUME NEW c \in Clients, CommitFreeze(c)
        PROVE  communeDraw'[d].spots = communeDraw[d].spots
    BY <1>3 DEF CommitFreeze, WriteDraw, TypeOK
  <1>4. ASSUME NEW c \in Clients, CommitDrawPatch(c)
        PROVE  communeDraw'[d].spots = communeDraw[d].spots
    \* Judged on this very version, the draw was configurable: it is not.
    <2>1. request[c].draw = d => request[c].spots = 0
      BY <1>4 DEF CommitDrawPatch, VersionHolds, PatchesAreJudged, AllowsSpotChanges
    <2> QED
      BY <1>4, <2>1 DEF CommitDrawPatch, WriteDraw, TypeOK
  <1> QED
    BY <1>1, <1>2, <1>3, <1>4, DrawWriters

------------------------------------------------------------------------------
(* Pools, results and outcomes                                              *)

\* A freeze adds one pool, the first of its draw, as it was validated.
LEMMA FreezeEffect ==
  ASSUME TypeOK, NEW c \in Clients, CommitFreeze(c)
  PROVE  \E p \in Pool :
           /\ p.draw = request[c].draw
           /\ p.entries = request[c].entries
           /\ ~ Has(pools, p.draw)
           /\ pools' = pools \cup {p}
           /\ UNCHANGED <<application, results>>
  <1> DEFINE p == [draw |-> request[c].draw, spots |-> request[c].spots,
                   entries |-> request[c].entries]
  <1>1. p \in Pool
    BY RequestShape DEF CommitFreeze, Freeze, Pool
  <1>2. p.draw = request[c].draw /\ p.entries = request[c].entries
    OBVIOUS
  <1>3. ~ Has(pools, p.draw) /\ pools' = pools \cup {p} /\ UNCHANGED <<application, results>>
    BY <1>2 DEF CommitFreeze
  <1> HIDE DEF p
  <1> QED
    BY <1>1, <1>2, <1>3

\* An execution settles the pool's applications as drawn, and no other.
LEMMA FinalizeEffect ==
  ASSUME NEW p, NEW r, Finalize(p, r), Drawn(p, r), NEW a \in Applications
  PROVE  /\ a \in r.winners => application'[a] = "SELECTED"
         /\ a \in r.reserves => application'[a] = "RESERVE"
         /\ a \in p.entries \ (r.winners \cup r.reserves)
              => application'[a] = "NOT_SELECTED"
         /\ a \notin p.entries => application'[a] = application[a]
  <1>1. r.winners \cup r.reserves \subseteq p.entries /\ r.winners \cap r.reserves = {}
    BY DEF Drawn
  <1>2. application'[a] =
          CASE a \in r.winners  -> "SELECTED"
            [] a \in r.reserves -> "RESERVE"
            [] a \in p.entries \ (r.winners \cup r.reserves) -> "NOT_SELECTED"
            [] OTHER -> application[a]
    BY DEF Finalize
  <1>3. CASE a \in r.winners
    BY <1>1, <1>2, <1>3
  <1>4. CASE a \in r.reserves
    BY <1>1, <1>2, <1>4
  <1>5. CASE a \in p.entries \ (r.winners \cup r.reserves)
    BY <1>1, <1>2, <1>5
  <1>6. CASE a \notin p.entries
    BY <1>1, <1>2, <1>6
  <1> QED
    BY <1>1, <1>3, <1>4, <1>5, <1>6

\* No step gives a draw a second pool.
LEMMA StepOnePool == TypeOK /\ OnePool /\ [Next]_vars => OnePool'
  <1> SUFFICES ASSUME TypeOK, OnePool, [Next]_vars PROVE OnePool'
    OBVIOUS
  <1>1. ASSUME NEW c \in Clients, CommitFreeze(c) PROVE OnePool'
    BY <1>1, FreezeEffect DEF OnePool, Has
  <1>2. CASE pools' = pools
    BY <1>2 DEF OnePool
  <1> QED
    BY <1>1, <1>2, RecordWrites DEF CommitRegister, Execute

\* Every step keeps results single and drawn from their pools.
LEMMA StepDrawnFromPool == DrawnFromPool /\ [Next]_vars => DrawnFromPool'
  <1> SUFFICES ASSUME DrawnFromPool, [Next]_vars PROVE DrawnFromPool'
    OBVIOUS
  <1>1. ASSUME NEW d \in Draws, Execute(d) PROVE DrawnFromPool'
    BY <1>1 DEF Execute, DrawnFromPool, Has
  <1>2. CASE results' = results
    BY <1>2, RecordsGrow DEF DrawnFromPool
  <1> QED
    BY <1>1, <1>2, RecordWrites DEF CommitRegister, CommitFreeze


\* The entries a freeze in flight carries are those it had, or what it reads now.
LEMMA FreezeReads ==
  ASSUME TypeOK, [Next]_vars, NEW k \in Clients, request'[k].op = "freeze"
  PROVE  \/ request'[k] = request[k]
         \/ request'[k].entries = {}
         \/ /\ request'[k].entries = EligibleFor(request'[k].draw)
            /\ UNCHANGED <<pools, application>>
  <1> USE RequestShape
  <1>1. ASSUME NEW c \in Clients, ClientStep(c), c # k PROVE request'[k] = request[k]
    BY <1>1 DEF ClientStep, TypeOK, Starts, Ends, BeginYearPatch, CommitYearPatch,
                BeginDrawPatch, CommitDrawPatch, BeginRegister, CheckCommuneIsDrawing,
                CommitRegister, BeginFreeze, ReadCandidates, CommitFreeze, BeginPublish,
                CommitPublish, Refuse
  <1>2. CASE ClientStep(k)
    <2>1. CASE Ends(k)
      BY <2>1 DEF Ends, TypeOK, Idle
    <2>2. CASE ReadCandidates(k)
      BY <2>2 DEF ReadCandidates, TypeOK, Freeze
    <2>3. CASE CheckCommuneIsDrawing(k)
      BY <2>3 DEF CheckCommuneIsDrawing, TypeOK, Register
    <2>4. ASSUME NEW d \in Draws, BeginFreeze(k, d) PROVE request'[k].entries = {}
      BY <2>4 DEF BeginFreeze, Starts, TypeOK
    <2>5. ASSUME NEW req, Starts(k, req), req.op # "freeze" PROVE FALSE
      BY <2>5 DEF Starts, TypeOK
    <2>6. ASSUME NEW y \in Years, NEW st \in DrawYearStatus, BeginYearPatch(k, y, st)
          PROVE  FALSE
      BY <2>5, <2>6 DEF BeginYearPatch
    <2>7. ASSUME NEW d \in Draws, NEW st \in CommuneDrawStatus \cup {Keep},
                 NEW n \in 0 .. MaxSpots, NEW v \in 0 .. MaxRevision,
                 BeginDrawPatch(k, d, st, n, v)
          PROVE  FALSE
      BY <2>5, <2>7 DEF BeginDrawPatch
    <2>8. ASSUME NEW a \in Applications, BeginRegister(k, a) PROVE FALSE
      BY <2>5, <2>8 DEF BeginRegister
    <2>9. ASSUME NEW d \in Draws, BeginPublish(k, d) PROVE FALSE
      BY <2>5, <2>9 DEF BeginPublish
    <2> QED
      BY <1>2, <2>1, <2>2, <2>3, <2>4, <2>6, <2>7, <2>8, <2>9
      DEF ClientStep, CommitYearPatch, CommitDrawPatch, CommitRegister, CommitFreeze,
          CommitPublish, Refuse
  <1>3. CASE UNCHANGED request
    BY <1>3
  <1> QED
    BY <1>1, <1>2, <1>3 DEF Next, vars, CreateDrawYear, CreateCommuneDraw, Execute

\* Every step keeps pools, and freezes in flight, to their own draw.
LEMMA StepPoolsAreLocal ==
  TypeOK /\ PoolsAreLocal /\ [Next]_vars => PoolsAreLocal'
  <1> SUFFICES ASSUME TypeOK, PoolsAreLocal, [Next]_vars PROVE PoolsAreLocal'
    OBVIOUS
  <1>1. \A p \in pools' : \A a \in p.entries : DrawOf[a] = p.draw
    <2>1. ASSUME NEW c \in Clients, CommitFreeze(c)
          PROVE  \A p \in pools' : \A a \in p.entries : DrawOf[a] = p.draw
      BY <2>1, FreezeEffect DEF PoolsAreLocal, CommitFreeze
    <2>2. CASE pools' = pools
      BY <2>2 DEF PoolsAreLocal
    <2> QED
      BY <2>1, <2>2, RecordWrites DEF CommitRegister, Execute
  <1>2. ASSUME NEW k \in Clients, request'[k].op = "freeze", NEW a \in request'[k].entries
        PROVE  /\ DrawOf[a] = request'[k].draw
               /\ ~ Has(pools', request'[k].draw) => application'[a] = "ELIGIBLE"
    <2>1. CASE request'[k].entries = {}
      BY <1>2, <2>1
    <2>2. CASE /\ request'[k].entries = EligibleFor(request'[k].draw)
               /\ UNCHANGED <<pools, application>>
      BY <1>2, <2>2 DEF EligibleFor
    <2>3. CASE request'[k] = request[k]
      <3> DEFINE d == request[k].draw
      <3>1. a \in Applications
        BY <1>2, <2>3, RequestShape DEF Freeze
      <3>2. DrawOf[a] = d /\ (~ Has(pools, d) => application[a] = "ELIGIBLE")
        BY <1>2, <2>3 DEF PoolsAreLocal
      <3>3. ~ Has(pools', d) => ~ Has(pools, d)
        BY RecordsGrow DEF Has
      <3>4. ASSUME ~ Has(pools, d) PROVE application'[a] = application[a]
        <4>1. ASSUME NEW c \in Clients, CommitRegister(c)
              PROVE  application'[a] = application[a]
          BY <3>1, <3>2, <3>4, <4>1 DEF CommitRegister, TypeOK
        \* An execution settles the applications of another draw.
        <4>2. ASSUME NEW e \in Draws, Execute(e) PROVE application'[a] = application[a]
          <5>1. PICK p \in pools, r \in Result : p.draw = e /\ Drawn(p, r) /\ Finalize(p, r)
            BY <4>2 DEF Execute
          <5>2. a \notin p.entries
            BY <3>2, <3>4, <5>1 DEF PoolsAreLocal, Has
          <5> QED
            BY <3>1, <5>1, <5>2, FinalizeEffect
        <4> QED
          BY <4>1, <4>2, RecordWrites DEF CommitFreeze
      <3> QED
        BY <2>3, <3>2, <3>3, <3>4
    <2> QED
      BY <1>2, <2>1, <2>2, <2>3, FreezeReads
  <1>3. PoolsAreLocal' <=>
          /\ \A p \in pools' : \A a \in p.entries : DrawOf[a] = p.draw
          /\ \A k \in Clients : request'[k].op = "freeze" =>
               \A a \in request'[k].entries :
                 /\ DrawOf[a] = request'[k].draw
                 /\ ~ Has(pools', request'[k].draw) => application'[a] = "ELIGIBLE"
    BY DEF PoolsAreLocal, Has
  <1> QED
    BY <1>1, <1>2, <1>3


\* Every step keeps the statuses of applications in accord with the records.
LEMMA StepOutcomesFinalized ==
  IInv /\ [Next]_vars => OutcomesFinalized'
  <1> SUFFICES ASSUME IInv, [Next]_vars PROVE OutcomesFinalized'
    OBVIOUS
  <1>i. TypeOK /\ OnePool /\ DrawnFromPool /\ PoolsAreLocal /\ OutcomesFinalized /\ PatchesAreJudged
    BY DEF IInv
  <1>t. TypeOK'
    BY <1>i, StepTypeOK
  <1>p. \A p \in pools' : p.entries \subseteq Applications
    BY <1>t DEF TypeOK, Pool
  <1>1. ASSUME NEW c \in Clients, CommitRegister(c) PROVE OutcomesFinalized'
    <2> DEFINE new == request[c].application
    <2>1. /\ application[new] = "ABSENT"
          /\ application' = [application EXCEPT ![new] = "ELIGIBLE"]
          /\ UNCHANGED <<pools, results>>
      BY <1>1 DEF CommitRegister
    <2>2. \A p \in pools : new \notin p.entries
      BY <1>i, <2>1 DEF OutcomesFinalized, Has
    <2>3. \A a \in Applications : a # new => application'[a] = application[a]
      BY <1>i, <2>1 DEF TypeOK
    <2>4. new \in Applications => application'[new] = "ELIGIBLE"
      BY <1>i, <2>1 DEF TypeOK
    <2>5. \A a \in Applications : \A p \in pools : a \in p.entries => application'[a] = application[a]
      BY <2>2, <2>3
    <2> HIDE DEF new
    <2> QED
      BY <1>i, <1>p, <2>1, <2>3, <2>4, <2>5 DEF OutcomesFinalized, Has
  <1>2. ASSUME NEW c \in Clients, CommitFreeze(c) PROVE OutcomesFinalized'
    <2>1. PICK q \in Pool :
            /\ q.draw = request[c].draw
            /\ q.entries = request[c].entries
            /\ ~ Has(pools, q.draw)
            /\ pools' = pools \cup {q}
            /\ UNCHANGED <<application, results>>
      BY <1>i, <1>2, FreezeEffect
    <2>2. \A a \in q.entries : application[a] = "ELIGIBLE"
      BY <1>i, <1>2, <2>1 DEF PoolsAreLocal, CommitFreeze
    <2>3. ~ Has(results, q.draw)
      BY <1>i, <2>1 DEF DrawnFromPool, Has
    <2> QED
      BY <1>i, <2>1, <2>2, <2>3 DEF OutcomesFinalized, Has
  <1>3. ASSUME NEW d \in Draws, Execute(d) PROVE OutcomesFinalized'
    <2>1. PICK q \in pools, s \in Result :
            /\ q.draw = d
            /\ s.draw = d
            /\ Drawn(q, s)
            /\ results' = results \cup {s}
            /\ Finalize(q, s)
      BY <1>3 DEF Execute
    <2>2. pools' = pools /\ ~ Has(results, d)
      BY <1>3 DEF Execute
    <2>3. q.entries \subseteq Applications /\ s.winners \cup s.reserves \subseteq q.entries
          /\ s.winners \cap s.reserves = {}
      BY <1>i, <2>1 DEF TypeOK, Pool, Drawn
    \* The entries of another pool are applications of another draw.
    <2>4. ASSUME NEW a \in Applications, a \notin q.entries PROVE application'[a] = application[a]
      BY <2>1, <2>4, FinalizeEffect
    <2>5. \A p \in pools : p # q => p.draw # d /\ p.entries \cap q.entries = {}
      BY <1>i, <2>1 DEF OnePool, PoolsAreLocal
    <2>6. \A p \in pools : p # q => \A a \in p.entries : application'[a] = application[a]
      BY <2>2, <2>4, <2>5, <1>p
    <2>7. \A a \in q.entries :
            /\ application'[a] = "SELECTED" <=> a \in s.winners
            /\ application'[a] = "RESERVE" <=> a \in s.reserves
            /\ application'[a] \in {"SELECTED", "RESERVE", "NOT_SELECTED"}
      BY <2>1, <2>3, FinalizeEffect
    <2>8. \A e \in Draws : Has(results', e) <=> Has(results, e) \/ e = d
      BY <2>1 DEF Has
    <2>9. \A p \in pools : p.draw \in Draws
      BY <1>i DEF TypeOK, Pool
    <2>10. \A p \in pools' : \A a \in p.entries :
             ~ Has(results', p.draw) => application'[a] = "ELIGIBLE"
      BY <1>i, <2>1, <2>2, <2>5, <2>6, <2>8, <2>9 DEF OutcomesFinalized
    <2>11. \A p \in pools', r \in results' : p.draw = r.draw =>
             \A a \in p.entries :
               /\ application'[a] = "SELECTED" <=> a \in r.winners
               /\ application'[a] = "RESERVE" <=> a \in r.reserves
               /\ application'[a] \in {"SELECTED", "RESERVE", "NOT_SELECTED"}
      <3> SUFFICES ASSUME NEW p \in pools, NEW r \in results', p.draw = r.draw,
                          NEW a \in p.entries
                   PROVE  /\ application'[a] = "SELECTED" <=> a \in r.winners
                          /\ application'[a] = "RESERVE" <=> a \in r.reserves
                          /\ application'[a] \in {"SELECTED", "RESERVE", "NOT_SELECTED"}
        BY <2>2
      <3>1. CASE r = s
        BY <2>1, <2>5, <2>7, <3>1
      <3>2. CASE r # s
        <4>1. r \in results /\ r.draw # d
          BY <2>1, <2>2, <3>2 DEF Has
        <4>2. application'[a] = application[a]
          BY <2>1, <2>6, <4>1
        <4> QED
          BY <1>i, <4>1, <4>2 DEF OutcomesFinalized
      <3> QED
        BY <3>1, <3>2
    <2>12. \A a \in Applications :
             application'[a] \in {"SELECTED", "RESERVE", "NOT_SELECTED"}
               => \E p \in pools' : a \in p.entries /\ Has(results', p.draw)
      <3> SUFFICES ASSUME NEW a \in Applications,
                          application'[a] \in {"SELECTED", "RESERVE", "NOT_SELECTED"}
                   PROVE  \E p \in pools : a \in p.entries /\ Has(results', p.draw)
        BY <2>2
      <3>1. CASE a \in q.entries
        BY <2>1, <2>8, <2>9, <3>1
      <3>2. CASE a \notin q.entries
        BY <1>i, <2>4, <2>8, <2>9, <3>2 DEF OutcomesFinalized
      <3> QED
        BY <3>1, <3>2
    <2> QED
      BY <2>10, <2>11, <2>12 DEF OutcomesFinalized, Has
  <1>4. CASE UNCHANGED <<application, pools, results>>
    BY <1>i, <1>4 DEF OutcomesFinalized, Has
  <1> QED
    BY <1>1, <1>2, <1>3, <1>4, RecordWrites

------------------------------------------------------------------------------
(* The theorems                                                             *)

\* The invariant holds before anything happened.
LEMMA InitIInv == Init => IInv
  BY InitTypeOK
  DEF Init, IInv, PatchesAreJudged, StatusIsBacked, OnePool, DrawnFromPool, PoolsAreLocal,
      OutcomesFinalized, Idle, NoCommuneDraw

\* Every step keeps the whole invariant.
LEMMA StepIInv == IInv /\ [Next]_vars => IInv'
  BY StepTypeOK, StepPatchesAreJudged, StepStatusIsBacked, StepOnePool,
     StepDrawnFromPool, StepPoolsAreLocal, StepOutcomesFinalized
  DEF IInv

\* The inductive invariant holds in every reachable state.
THEOREM Invariance == Spec => []IInv
  BY InitIInv, StepIInv, PTL DEF Spec

\* The rows of every table and the requests in flight keep their types.
THEOREM TypeCorrect == Spec => []TypeOK
  <1>1. IInv => TypeOK
    BY DEF IInv
  <1> QED
    BY <1>1, Invariance, PTL

\* A status LOCKED or COMPLETED is always backed by a pool or a result,
\* whatever status patches are in flight.
THEOREM StatusBacked == Spec => []StatusIsBacked
  <1>1. IInv => StatusIsBacked
    BY DEF IInv
  <1> QED
    BY <1>1, Invariance, PTL

\* The statuses of the applications tell exactly what pools and results say.
THEOREM OutcomesCorrect == Spec => []OutcomesFinalized
  <1>1. IInv => OutcomesFinalized
    BY DEF IInv
  <1> QED
    BY <1>1, Invariance, PTL

\* No step changes the allocation of a locked or completed draw.
THEOREM AllocationFrozen == Spec => FrozenAllocation
  <1>1. IInv /\ [Next]_vars =>
          [\A d \in Draws :
             communeDraw[d].status \in {"LOCKED", "COMPLETED"}
               => communeDraw'[d].spots = communeDraw[d].spots]_vars
    BY StepFrozenAllocation DEF IInv
  <1> QED
    BY <1>1, Invariance, PTL DEF Spec, FrozenAllocation

\* The permanent records are those of DrawPromise: terms fixed once, one
\* outcome drawn from them, announced afterwards, nothing withdrawn.
THEOREM PromiseKept == Spec => KeepsPromise
  <1>1. Init => Promise!Init
    BY DEF Init, Promise!Init
  <1>2. IInv /\ [Next]_vars => [Promise!Next]_(Promise!promiseVars)
    <2> SUFFICES ASSUME IInv, [Next]_vars
                 PROVE  Promise!Next \/ UNCHANGED <<pools, results, publications>>
      BY DEF Promise!promiseVars
    <2>i. TypeOK
      BY DEF IInv
    <2>1. ASSUME NEW c \in Clients, CommitFreeze(c)
          PROVE  \E d \in Draws : Promise!FixTerms(d)
      <3>1. PICK p \in Pool : /\ ~ Has(pools, p.draw)
                              /\ pools' = pools \cup {p}
                              /\ UNCHANGED <<application, results>>
        BY <2>i, <2>1, FreezeEffect
      <3>2. UNCHANGED publications
        BY <2>1 DEF CommitFreeze
      <3>3. p.draw \in Draws
        BY DEF Pool
      <3> QED
        BY <3>1, <3>2, <3>3 DEF Promise!FixTerms, Promise!Has, Has
    <2>2. ASSUME NEW d \in Draws, Execute(d) PROVE Promise!Draw(d)
      BY <2>2 DEF Execute, Promise!Draw, Promise!Has, Has
    <2>3. ASSUME NEW c \in Clients, CommitPublish(c)
          PROVE  \E d \in Draws : Promise!Announce(d)
      <3>1. request[c].draw \in Draws
        BY <2>i, <2>3, RequestShape DEF CommitPublish, Publish
      <3>2. Promise!Announce(request[c].draw)
        BY <2>3 DEF CommitPublish, Promise!Announce, Promise!Has, Has
      <3> QED
        BY <3>1, <3>2
    <2>4. \/ UNCHANGED <<pools, results, publications>>
          \/ \E c \in Clients : CommitFreeze(c) \/ CommitPublish(c)
          \/ \E d \in Draws : Execute(d)
      BY DEF Next, ClientStep, vars, CreateDrawYear, CreateCommuneDraw, BeginYearPatch,
             CommitYearPatch, BeginDrawPatch, CommitDrawPatch, BeginRegister,
             CheckCommuneIsDrawing, CommitRegister, BeginFreeze, ReadCandidates,
             BeginPublish, Refuse
    <2> QED
      BY <2>1, <2>2, <2>3, <2>4 DEF Promise!Next
  <1> QED
    BY <1>1, <1>2, Invariance, PTL DEF Spec, KeepsPromise, Promise!Spec

------------------------------------------------------------------------------
(* Listing, for any rows and filters.                                       *)

\* Whoever is still waited for was asked what is asked now.
ListingIInv ==
  /\ Listing!TypeOK
  /\ \A r \in requests : r.active => r.query = Listing!Asked
  /\ Listing!ShownIsAsked

LEMMA KindsOfShown ==
  /\ Listing!Loading.is = "loading" /\ Listing!Failed.is = "error"
  /\ \A q : Listing!PageOf(q).is = "ready"
  BY DEF Listing!Loading, Listing!Failed, Listing!PageOf

LEMMA FirstPage == PagesAssumption => Listing!Initial \in Listing!Queries /\ Nothing \in Texts
  BY DEF PagesAssumption, Listing!ListingAssumption, Listing!Initial, Listing!Queries

LEMMA LoadIsSound ==
  ASSUME requests \subseteq [query : Listing!Queries, active : BOOLEAN],
         NEW q \in Listing!Queries, Listing!Load(q)
  PROVE  /\ requests' \subseteq [query : Listing!Queries, active : BOOLEAN]
         /\ \A r \in requests' : r.active => r.query = q
         /\ shown' = Listing!Loading
  <1> DEFINE Sent == [query : Listing!Queries, active : BOOLEAN]
  <1>1. ASSUME NEW r \in requests' PROVE r \in Sent /\ (r.active => r.query = q)
    <2>1. CASE r = [query |-> q, active |-> TRUE]
      BY <2>1
    <2>2. ASSUME NEW s \in requests, r = [s EXCEPT !.active = FALSE]
          PROVE  r \in Sent /\ (r.active => r.query = q)
      <3>1. s \in Sent
        OBVIOUS
      <3>2. r = [query |-> s.query, active |-> FALSE]
        BY <2>2, <3>1
      <3> QED
        BY <3>1, <3>2
    <2> QED
      BY <2>1, <2>2 DEF Listing!Load
  <1> QED
    BY <1>1 DEF Listing!Load

LEMMA AskIsSound ==
  ASSUME ListingIInv, filters' \in Listing!Queries, settled' \in Texts,
         Listing!Ask(Listing!Query(filters', settled'))
  PROVE  ListingIInv'
  <1> DEFINE q == Listing!Query(filters', settled')
  <1>1. q \in Listing!Queries /\ Listing!Asked' = q
    BY DEF Listing!Query, Listing!Queries, Listing!Asked
  <1>2. CASE q = Listing!Asked
    <2>1. UNCHANGED <<requests, shown>>
      BY <1>2 DEF Listing!Ask
    <2> QED
      BY <1>1, <1>2, <2>1 DEF ListingIInv, Listing!TypeOK, Listing!ShownIsAsked
  <1>3. CASE q # Listing!Asked
    <2>1. Listing!Load(q)
      BY <1>3 DEF Listing!Ask
    <2>2. requests \subseteq [query : Listing!Queries, active : BOOLEAN]
      BY DEF ListingIInv, Listing!TypeOK
    <2> HIDE DEF q
    <2> QED
      BY <1>1, <2>1, <2>2, LoadIsSound, KindsOfShown
      DEF ListingIInv, Listing!TypeOK, Listing!ShownIsAsked
  <1> QED
    BY <1>2, <1>3

LEMMA AnswerIsSound ==
  ASSUME ListingIInv, NEW r \in requests, NEW arrived, Listing!Answer(r, arrived),
         arrived = Listing!Failed \/ arrived = Listing!PageOf(r.query)
  PROVE  ListingIInv'
  <1>1. /\ requests' = requests \ {r} /\ Listing!Asked' = Listing!Asked
        /\ shown' = (IF r.active THEN arrived ELSE shown)
        /\ UNCHANGED <<filters, settled>>
    BY DEF Listing!Answer, Listing!Asked
  <1>2. r.query \in Listing!Queries /\ (r.active => r.query = Listing!Asked)
    BY DEF ListingIInv, Listing!TypeOK
  <1>3. Listing!TypeOK'
    BY <1>1, <1>2 DEF ListingIInv, Listing!TypeOK
  <1>4. Listing!ShownIsAsked'
    BY <1>1, <1>2, KindsOfShown DEF ListingIInv, Listing!ShownIsAsked
  <1> QED
    BY <1>1, <1>3, <1>4 DEF ListingIInv

LEMMA FiltersAreSound ==
  ASSUME ListingIInv, NEW f \in Listing!Queries, Listing!SetFilters(f)
  PROVE  ListingIInv'
  <1>1. filters' = f /\ settled' = settled /\ Listing!Ask(Listing!Query(filters', settled'))
    BY DEF Listing!SetFilters
  <1> QED
    BY <1>1, AskIsSound DEF ListingIInv, Listing!TypeOK

LEMMA ListingStep == PagesAssumption /\ ListingIInv /\ [Listing!Next]_(Listing!vars) => ListingIInv'
  <1> SUFFICES ASSUME PagesAssumption, ListingIInv, [Listing!Next]_(Listing!vars) PROVE ListingIInv'
    OBVIOUS
  <1>1. filters \in Listing!Queries /\ settled \in Texts
    BY DEF ListingIInv, Listing!TypeOK
  <1>2. CASE UNCHANGED Listing!vars
    <2>1. UNCHANGED <<filters, settled, requests, shown>> /\ Listing!Asked' = Listing!Asked
      BY <1>2 DEF Listing!vars, Listing!Asked
    <2> QED
      BY <2>1 DEF ListingIInv, Listing!TypeOK, Listing!ShownIsAsked
  <1>3. ASSUME NEW c \in StatusFilters, Listing!Choose(c) PROVE ListingIInv'
    <2>1. [choice |-> c, text |-> filters.text, page |-> 1] \in Listing!Queries
      BY <1>1 DEF Listing!Queries
    <2> QED
      BY <1>3, <2>1, FiltersAreSound DEF Listing!Choose
  <1>4. ASSUME NEW text \in Texts, Listing!Type(text) PROVE ListingIInv'
    <2>1. [choice |-> filters.choice, text |-> text, page |-> 1] \in Listing!Queries
      BY <1>1 DEF Listing!Queries
    <2> QED
      BY <1>4, <2>1, FiltersAreSound DEF Listing!Type
  <1>5. CASE Listing!Clear
    BY <1>5, FirstPage, FiltersAreSound DEF Listing!Clear
  <1>6. ASSUME NEW next \in 1 .. Listing!Cardinality(ListRows), Listing!TurnPage(next) PROVE ListingIInv'
    <2>1. [filters EXCEPT !.page = next] = [choice |-> filters.choice, text |-> filters.text, page |-> next]
      BY <1>1 DEF Listing!Queries
    <2>2. [choice |-> filters.choice, text |-> filters.text, page |-> next] \in Listing!Queries
      BY <1>1 DEF Listing!Queries
    <2> QED
      BY <1>6, <2>1, <2>2, FiltersAreSound DEF Listing!TurnPage
  <1>7. CASE Listing!Reload
    <2> DEFINE q == Listing!Asked
    <2>1. Listing!Load(q) /\ UNCHANGED <<filters, settled>> /\ Listing!Asked' = q
      BY <1>7 DEF Listing!Reload, Listing!Asked
    <2>2. q \in Listing!Queries
      BY <1>1 DEF Listing!Asked, Listing!Query, Listing!Queries
    <2>3. requests \subseteq [query : Listing!Queries, active : BOOLEAN]
      BY DEF ListingIInv, Listing!TypeOK
    <2> HIDE DEF q
    <2> QED
      BY <1>1, <2>1, <2>2, <2>3, LoadIsSound, KindsOfShown
      DEF ListingIInv, Listing!TypeOK, Listing!ShownIsAsked
  <1>8. CASE Listing!Settle
    <2>1. /\ filters' = filters /\ settled' = filters.text
          /\ Listing!Ask(Listing!Query(filters', settled'))
      BY <1>8 DEF Listing!Settle
    <2>2. filters.text \in Texts
      BY <1>1 DEF Listing!Queries
    <2> QED
      BY <1>1, <2>1, <2>2, AskIsSound
  <1>9. CASE Listing!Arrive \/ Listing!Fail
    <2>1. CASE Listing!Arrive
      BY <2>1, AnswerIsSound DEF Listing!Arrive
    <2>2. CASE Listing!Fail
      BY <2>2, AnswerIsSound DEF Listing!Fail
    <2> QED
      BY <1>9, <2>1, <2>2
  <1> QED
    <2>1. CASE Listing!Operator
      <3>1. CASE \E c \in StatusFilters : Listing!Choose(c)
        BY <1>3, <3>1
      <3>2. CASE \E text \in Texts : Listing!Type(text)
        BY <1>4, <3>2
      <3>3. CASE \E next \in 1 .. Listing!Cardinality(ListRows) : Listing!TurnPage(next)
        BY <1>6, <3>3
      <3> QED
        BY <1>5, <1>7, <2>1, <3>1, <3>2, <3>3 DEF Listing!Operator
    <2> QED
      BY <1>2, <1>8, <1>9, <2>1 DEF Listing!Next

LEMMA ListingInvariance == Listing!Spec => []ListingIInv
  <1>1. Listing!Init => ListingIInv
    <2> SUFFICES ASSUME Listing!Init PROVE ListingIInv
      OBVIOUS
    <2>1. Listing!Query(Listing!Initial, Nothing) \in Listing!Queries
      BY FirstPage, PagesAssumption DEF Listing!Query, Listing!Queries
    <2> QED
      BY <2>1, FirstPage, PagesAssumption, KindsOfShown
      DEF Listing!Init, ListingIInv, Listing!TypeOK, Listing!ShownIsAsked, Listing!Asked
  <1> QED
    BY <1>1, ListingStep, PagesAssumption, PTL DEF Listing!Spec

------------------------------------------------------------------------------
(* The dashboard.                                                           *)

LEMMA DashboardFiniteSets ==
  ASSUME NEW S
  PROVE  /\ Dashboard!IsFiniteSet(S) <=> IsFiniteSet(S)
         /\ Dashboard!Cardinality(S) = Cardinality(S)
  BY DEF Dashboard!IsFiniteSet, IsFiniteSet, Dashboard!Cardinality, Cardinality

Queries == {"groups", "results", "published"}

\* A request whose year is not known yet, or of which nobody knew one.
YearIsSought ==
  /\ reading.year = Nothing
  /\ reading.ask \in {{"open"}, {"latest"}, {}}
  /\ quiet /\ reading.ask # {"open"} => Dashboard!OpenYears = {}
  /\ quiet /\ reading.ask = {} => \A y \in Calendars : ~ Dashboard!Exists(y)

\* A request that counts: what has come back is right as long as nothing happens.
YearIsCounted ==
  /\ reading.year \in Calendars
  /\ reading.ask \in SUBSET Queries
  /\ quiet => /\ Dashboard!OpenYears # {} => reading.year \in Dashboard!OpenYears
              /\ "groups" \notin reading.ask =>
                   reading.got.groups = Dashboard!DrawGroups(reading.year, Territory)
              /\ "results" \notin reading.ask =>
                   reading.got.results = Dashboard!Results(reading.year, Territory)
              /\ "published" \notin reading.ask =>
                   reading.got.published = Dashboard!Published(reading.year, Territory)

ReadingIsRecord ==
  /\ reading = [year |-> reading.year, ask |-> reading.ask, got |-> reading.got]
  /\ reading.got = [groups |-> reading.got.groups, results |-> reading.got.results,
                    published |-> reading.got.published]

DashboardIInv ==
  /\ Dashboard!TypeOK
  /\ reading # Nothing => ReadingIsRecord /\ (YearIsSought \/ YearIsCounted)
  /\ Dashboard!QuietIsExact

LEMMA DashboardConstants ==
  PagesAssumption =>
    /\ Calendars \subseteq Nat /\ IsFiniteSet(Calendars)
    /\ Territory \subseteq Towns /\ IsFiniteSet(Towns)
    /\ Nothing \notin Calendars /\ Nothing \notin Dashboard!Statuses \cup {"REGISTRATION_OPEN"}
  BY DashboardFiniteSets DEF PagesAssumption, Dashboard!DashboardAssumption

LEMMA LatestIsOne ==
  ASSUME PagesAssumption, NEW years \in SUBSET Calendars
  PROVE  /\ years = {} => Dashboard!Latest(years) = Nothing
         /\ years # {} => Dashboard!Latest(years) \in years
  <1>1. CASE years = {}
    BY <1>1 DEF Dashboard!Latest
  <1>2. CASE years # {}
    <2>1. IsFiniteSet(years) /\ years \in SUBSET Nat
      BY DashboardConstants, FS_Subset
    <2>2. \E y \in years : \A z \in years : z <= y
      BY <1>2, <2>1, GreatestNumber
    <2> QED
      BY <1>2, <2>2 DEF Dashboard!Latest
  <1> QED
    BY <1>1, <1>2

\* Once something was done, nothing is claimed of what was read, or is shown.
LEMMA Disturbed ==
  ASSUME DashboardIInv, Dashboard!TypeOK', quiet' = FALSE, UNCHANGED <<reading, dashboard>>
  PROVE  DashboardIInv'
  BY DEF DashboardIInv, YearIsSought, YearIsCounted, ReadingIsRecord, Dashboard!QuietIsExact

LEMMA YearMovesAreSound ==
  ASSUME PagesAssumption, DashboardIInv, Dashboard!YearMoves
  PROVE  DashboardIInv'
  <1> DEFINE YearStatuses == {"DRAFT", "REGISTRATION_OPEN", "REGISTRATION_CLOSED"}
  <1>1. PICK y \in Calendars, from \in YearStatuses \cup {Nothing}, to \in YearStatuses :
          Dashboard!ToYear(y, from, to)
    BY DEF Dashboard!YearMoves
  <1>2. /\ calendar \in [Calendars -> {Nothing, "DRAFT", "REGISTRATION_OPEN", "REGISTRATION_CLOSED"}]
        /\ calendar' = [calendar EXCEPT ![y] = to]
        /\ to = "REGISTRATION_OPEN" => Dashboard!OpenYears = {}
        /\ quiet' = FALSE
        /\ UNCHANGED <<draws, announced, reading, dashboard>>
    BY <1>1 DEF Dashboard!ToYear, DashboardIInv, Dashboard!TypeOK
  <1>3. Dashboard!OpenYears' \subseteq {y} \/ Dashboard!OpenYears' \subseteq Dashboard!OpenYears
    BY <1>2 DEF Dashboard!OpenYears
  <1>4. Dashboard!OpenYears \subseteq Calendars /\ Dashboard!Cardinality(Dashboard!OpenYears) <= 1
    BY DEF DashboardIInv, Dashboard!TypeOK, Dashboard!OpenYears
  <1>5. Dashboard!Cardinality(Dashboard!OpenYears') <= 1
    <2>1. IsFiniteSet(Dashboard!OpenYears) /\ Cardinality(Dashboard!OpenYears) <= 1
      BY <1>4, DashboardConstants, DashboardFiniteSets, FS_Subset
    <2>2. IsFiniteSet({y}) /\ Cardinality({y}) = 1
      BY FS_Singleton
    <2>3. PICK S : IsFiniteSet(S) /\ Cardinality(S) <= 1 /\ Dashboard!OpenYears' \subseteq S
      BY <1>3, <2>1, <2>2
    <2>4. /\ Cardinality(Dashboard!OpenYears') <= Cardinality(S)
          /\ Cardinality(Dashboard!OpenYears') \in Nat /\ Cardinality(S) \in Nat
      BY <2>3, FS_Subset, FS_CardinalityType
    <2> QED
      BY <2>3, <2>4, DashboardFiniteSets
  <1>6. Dashboard!TypeOK'
    BY <1>2, <1>5 DEF DashboardIInv, Dashboard!TypeOK, Dashboard!Drawn
  <1> QED
    BY <1>2, <1>6, Disturbed

LEMMA DrawMovesAreSound ==
  ASSUME PagesAssumption, DashboardIInv, Dashboard!DrawMoves
  PROVE  DashboardIInv'
  <1>1. PICK y \in Calendars, c \in Towns, from \in Dashboard!Statuses \cup {Nothing},
             to \in Dashboard!Statuses :
          Dashboard!ToDraw(y, c, from, to) /\ from # "COMPLETED"
    BY DashboardConstants DEF Dashboard!DrawMoves, Dashboard!Statuses
  <1>2. /\ draws[y][c] # "COMPLETED" /\ draws' = [draws EXCEPT ![y][c] = to]
        /\ quiet' = FALSE
        /\ UNCHANGED <<calendar, announced, reading, dashboard>>
    BY <1>1 DEF Dashboard!ToDraw
  <1>3. /\ \A z \in Calendars : draws[z] \in [Towns -> Dashboard!Statuses \cup {Nothing}]
        /\ \A z \in Calendars : draws'[z] \in [Towns -> Dashboard!Statuses \cup {Nothing}]
    BY <1>2 DEF DashboardIInv, Dashboard!TypeOK
  <1>4. \A z \in Calendars, t \in Towns : draws[z][t] = "COMPLETED" => draws'[z][t] = "COMPLETED"
    BY <1>2, <1>3
  <1>5. \A pair \in announced' : pair[2] \in Dashboard!Drawn(pair[1])'
    BY <1>2, <1>4 DEF DashboardIInv, Dashboard!TypeOK, Dashboard!Drawn
  <1>6. Dashboard!OpenYears' = Dashboard!OpenYears
    BY <1>2 DEF Dashboard!OpenYears
  <1>7. Dashboard!TypeOK'
    BY <1>2, <1>3, <1>5, <1>6 DEF DashboardIInv, Dashboard!TypeOK
  <1> QED
    BY <1>2, <1>7, Disturbed

LEMMA AnnounceIsSound ==
  ASSUME DashboardIInv, NEW y \in Calendars, NEW c \in Towns, Dashboard!Announce(y, c)
  PROVE  DashboardIInv'
  <1>1. /\ c \in Dashboard!Drawn(y) /\ announced' = announced \cup {<<y, c>>}
        /\ quiet' = FALSE
        /\ UNCHANGED <<calendar, draws, reading, dashboard>>
    BY DEF Dashboard!Announce
  <1>2. Dashboard!TypeOK'
    BY <1>1 DEF DashboardIInv, Dashboard!TypeOK, Dashboard!Drawn, Dashboard!OpenYears
  <1> QED
    BY <1>1, <1>2, Disturbed

------------------------------------------------------------------------------
(* The dashboard itself. *)

\* What is counted, and what is true of it, when nothing but the reading changes.
LEMMA SameFacts ==
  ASSUME UNCHANGED <<calendar, draws, announced>>
  PROVE  /\ Dashboard!OpenYears' = Dashboard!OpenYears
         /\ \A y \in Calendars : Dashboard!Exists(y)' <=> Dashboard!Exists(y)
         /\ \A y : /\ Dashboard!DrawGroups(y, Territory)' = Dashboard!DrawGroups(y, Territory)
                   /\ Dashboard!Results(y, Territory)' = Dashboard!Results(y, Territory)
                   /\ Dashboard!Published(y, Territory)' = Dashboard!Published(y, Territory)
  BY DEF Dashboard!OpenYears, Dashboard!Exists, Dashboard!DrawGroups, Dashboard!Results,
         Dashboard!Published, Dashboard!Drawn

LEMMA OpenIsSound ==
  ASSUME DashboardIInv, Dashboard!Open
  PROVE  DashboardIInv'
  <1>1. /\ reading' = [year |-> Nothing, ask |-> {"open"}, got |-> Dashboard!NoCounts]
        /\ dashboard' = Nothing
        /\ UNCHANGED <<calendar, draws, announced>>
    BY DEF Dashboard!Open
  <1>2. ReadingIsRecord' /\ YearIsSought'
    BY <1>1 DEF ReadingIsRecord, YearIsSought, Dashboard!NoCounts
  <1>3. Dashboard!TypeOK' /\ Dashboard!QuietIsExact'
    BY <1>1, SameFacts
    DEF DashboardIInv, Dashboard!TypeOK, Dashboard!QuietIsExact, Dashboard!Drawn
  <1> QED
    BY <1>2, <1>3 DEF DashboardIInv

\* The page stays what it is while its successor is read.
LEMMA PageStays ==
  ASSUME DashboardIInv, UNCHANGED <<calendar, draws, announced, dashboard, before, quiet>>
  PROVE  Dashboard!TypeOK' /\ Dashboard!QuietIsExact'
  <1>1. Dashboard!TypeOK'
    BY SameFacts DEF DashboardIInv, Dashboard!TypeOK, Dashboard!Drawn
  <1>2. Dashboard!QuietIsExact'
    <2> SUFFICES ASSUME dashboard # Nothing, quiet PROVE Dashboard!QuietIsExact'
      BY DEF Dashboard!QuietIsExact
    <2>1. dashboard.year \in Calendars \cup {Nothing}
      BY DEF DashboardIInv, Dashboard!TypeOK
    <2> QED
      BY <2>1, SameFacts DEF DashboardIInv, Dashboard!QuietIsExact
  <1> QED
    BY <1>1, <1>2

\* A year is found: its counts are to be asked, and none has come back.
LEMMA YearFound ==
  ASSUME PagesAssumption, NEW y \in Calendars, reading' = Dashboard!CountsOf(y), quiet' = quiet,
         UNCHANGED <<calendar, draws, announced>>,
         quiet /\ Dashboard!OpenYears # {} => y \in Dashboard!OpenYears
  PROVE  ReadingIsRecord' /\ YearIsCounted'
  <1>1. reading' = [year |-> y, ask |-> Queries, got |-> Dashboard!NoCounts]
    BY DEF Dashboard!CountsOf, Queries
  <1>2. ReadingIsRecord'
    BY <1>1 DEF ReadingIsRecord, Dashboard!NoCounts
  <1>3. YearIsCounted'
    BY <1>1, SameFacts DEF YearIsCounted, Queries
  <1> QED
    BY <1>2, <1>3

LEMMA FindOpenIsSound ==
  ASSUME PagesAssumption, DashboardIInv, Dashboard!FindOpen
  PROVE  DashboardIInv'
  <1>1. /\ UNCHANGED <<calendar, draws, announced, dashboard, before, quiet>>
        /\ reading # Nothing /\ reading.ask = {"open"}
        /\ reading' = IF Dashboard!OpenYears # {}
                       THEN Dashboard!CountsOf(Dashboard!Latest(Dashboard!OpenYears))
                       ELSE [reading EXCEPT !.ask = {"latest"}]
    BY DEF Dashboard!FindOpen
  <1>2. ReadingIsRecord /\ YearIsSought
    BY <1>1 DEF DashboardIInv, YearIsCounted, Queries
  <1>3. CASE Dashboard!OpenYears # {}
    <2>1. Dashboard!OpenYears \in SUBSET Calendars
      BY DEF Dashboard!OpenYears
    <2>2. Dashboard!Latest(Dashboard!OpenYears) \in Dashboard!OpenYears
      BY <1>3, <2>1, LatestIsOne
    <2>3. ReadingIsRecord' /\ YearIsCounted'
      BY <1>1, <1>3, <2>1, <2>2, YearFound
    <2> QED
      BY <1>1, <2>3, PageStays DEF DashboardIInv
  <1>4. CASE Dashboard!OpenYears = {}
    <2>1. reading' = [year |-> Nothing, ask |-> {"latest"}, got |-> reading.got]
      BY <1>1, <1>2, <1>4 DEF ReadingIsRecord, YearIsSought
    <2>2. ReadingIsRecord' /\ YearIsSought'
      BY <1>1, <1>2, <1>4, <2>1, SameFacts DEF ReadingIsRecord, YearIsSought
    <2> QED
      BY <1>1, <2>2, PageStays DEF DashboardIInv
  <1> QED
    BY <1>3, <1>4

LEMMA FindMostRecentIsSound ==
  ASSUME PagesAssumption, DashboardIInv, Dashboard!FindMostRecent
  PROVE  DashboardIInv'
  <1> DEFINE known == {z \in Calendars : Dashboard!Exists(z)}
             y == Dashboard!Latest(known)
  <1>1. /\ UNCHANGED <<calendar, draws, announced, dashboard, before, quiet>>
        /\ reading # Nothing /\ reading.ask = {"latest"}
        /\ reading' = IF y # Nothing THEN Dashboard!CountsOf(y) ELSE [reading EXCEPT !.ask = {}]
    BY DEF Dashboard!FindMostRecent
  <1>2. ReadingIsRecord /\ YearIsSought
    BY <1>1 DEF DashboardIInv, YearIsCounted, Queries
  <1>3. /\ known = {} => y = Nothing
        /\ known # {} => y \in known
    <2>1. known \in SUBSET Calendars
      OBVIOUS
    <2> QED
      BY <2>1, LatestIsOne
  <1>4. quiet => Dashboard!OpenYears = {}
    BY <1>1, <1>2 DEF YearIsSought
  <1>5. CASE y # Nothing
    <2>1. y \in Calendars
      BY <1>3, <1>5
    <2>2. ReadingIsRecord' /\ YearIsCounted'
      <3> HIDE DEF y
      <3> QED
        BY <1>1, <1>4, <1>5, <2>1, YearFound
    <2> QED
      BY <1>1, <2>2, PageStays DEF DashboardIInv
  <1>6. CASE y = Nothing
    <2>1. known = {}
      BY <1>3, <1>6, DashboardConstants
    <2>2. reading' = [year |-> Nothing, ask |-> {}, got |-> reading.got]
      BY <1>1, <1>2, <1>6 DEF ReadingIsRecord, YearIsSought
    <2>3. ReadingIsRecord'
      BY <1>2, <2>2 DEF ReadingIsRecord
    <2>4. YearIsSought'
      <3>1. \A z \in Calendars : ~ Dashboard!Exists(z)'
        BY <1>1, <2>1, SameFacts
      <3>2. quiet' = quiet
        BY <1>1
      <3>3. Dashboard!OpenYears' = Dashboard!OpenYears
        BY <1>1, SameFacts
      <3> HIDE DEF y, known
      <3> QED
        BY <1>4, <2>2, <3>1, <3>2, <3>3 DEF YearIsSought
    <2> QED
      BY <1>1, <2>3, <2>4, PageStays DEF DashboardIInv
  <1> QED
    BY <1>5, <1>6

LEMMA CountIsSound ==
  ASSUME PagesAssumption, DashboardIInv, NEW query \in Queries, Dashboard!Count(query)
  PROVE  DashboardIInv'
  <1> DEFINE y == reading.year
             g == reading.got
             counted ==
               CASE query = "groups"    -> [g EXCEPT !.groups = Dashboard!DrawGroups(y, Territory)]
                 [] query = "results"   -> [g EXCEPT !.results = Dashboard!Results(y, Territory)]
                 [] query = "published" -> [g EXCEPT !.published = Dashboard!Published(y, Territory)]
  <1>1. /\ UNCHANGED <<calendar, draws, announced, dashboard, before, quiet>>
        /\ reading # Nothing /\ query \in reading.ask
    BY DEF Dashboard!Count
  <1>2. ReadingIsRecord /\ YearIsCounted
    BY <1>1 DEF DashboardIInv, YearIsSought, Queries
  <1>3. reading' = [year |-> y, ask |-> reading.ask \ {query}, got |-> counted]
    BY <1>1, <1>2 DEF Dashboard!Count, ReadingIsRecord
  <1>4. counted = [groups |-> IF query = "groups" THEN Dashboard!DrawGroups(y, Territory)
                              ELSE g.groups,
                   results |-> IF query = "results" THEN Dashboard!Results(y, Territory)
                               ELSE g.results,
                   published |-> IF query = "published" THEN Dashboard!Published(y, Territory)
                                 ELSE g.published]
    BY <1>2 DEF ReadingIsRecord, Queries
  <1> HIDE DEF counted
  <1>5. ReadingIsRecord'
    BY <1>3, <1>4 DEF ReadingIsRecord
  <1>6. YearIsCounted'
    BY <1>1, <1>2, <1>3, <1>4, SameFacts DEF YearIsCounted, Queries
  <1> QED
    BY <1>1, <1>5, <1>6, PageStays DEF DashboardIInv

LEMMA AnswerIsExact ==
  ASSUME PagesAssumption, DashboardIInv, Dashboard!Answer
  PROVE  DashboardIInv'
  <1>1. /\ reading # Nothing /\ reading.ask = {} /\ reading' = Nothing
        /\ UNCHANGED <<calendar, draws, announced, before, quiet>>
        /\ dashboard' = [year |-> reading.year, groups |-> reading.got.groups,
                         published |-> reading.got.published,
                         unpublished |-> reading.got.results - reading.got.published]
    BY DEF Dashboard!Answer
  <1>2. YearIsSought \/ YearIsCounted
    BY <1>1 DEF DashboardIInv
  <1>3. reading.year \in Calendars \cup {Nothing}
    BY <1>2 DEF YearIsSought, YearIsCounted
  <1>4. Dashboard!TypeOK'
    BY <1>1, <1>3, SameFacts DEF DashboardIInv, Dashboard!TypeOK, Dashboard!Drawn
  <1>5. Dashboard!QuietIsExact'
    BY <1>1, <1>2, SameFacts, DashboardConstants
    DEF YearIsSought, YearIsCounted, Dashboard!QuietIsExact
  <1> QED
    BY <1>1, <1>4, <1>5 DEF DashboardIInv

LEMMA DashboardStep ==
  PagesAssumption /\ DashboardIInv /\ [Dashboard!Next]_(Dashboard!vars) => DashboardIInv'
  <1> SUFFICES ASSUME PagesAssumption, DashboardIInv, [Dashboard!Next]_(Dashboard!vars)
               PROVE  DashboardIInv'
    OBVIOUS
  <1>1. CASE UNCHANGED Dashboard!vars
    <2>1. UNCHANGED <<calendar, draws, announced, reading, dashboard, before, quiet>>
      BY <1>1 DEF Dashboard!vars
    <2>2. Dashboard!TypeOK' /\ Dashboard!QuietIsExact'
      BY <2>1, PageStays
    <2>3. reading # Nothing /\ YearIsCounted => YearIsCounted'
      BY <2>1, SameFacts DEF YearIsCounted
    <2>4. YearIsSought => YearIsSought'
      BY <2>1, SameFacts DEF YearIsSought
    <2>5. ReadingIsRecord => ReadingIsRecord'
      BY <2>1 DEF ReadingIsRecord
    <2> QED
      BY <2>1, <2>2, <2>3, <2>4, <2>5 DEF DashboardIInv
  <1>2. CASE Dashboard!Next
    <2>1. CASE \E y \in Calendars, c \in Towns : Dashboard!Announce(y, c)
      BY <2>1, AnnounceIsSound
    <2>2. CASE \E query \in {"groups", "results", "published"} : Dashboard!Count(query)
      BY <2>2, CountIsSound DEF Queries
    <2> QED
      BY <1>2, <2>1, <2>2, YearMovesAreSound, DrawMovesAreSound, OpenIsSound, FindOpenIsSound,
         FindMostRecentIsSound, AnswerIsExact DEF Dashboard!Next
  <1> QED
    BY <1>1, <1>2

LEMMA DashboardInvariance == Dashboard!Spec => []DashboardIInv
  <1>1. Dashboard!Init => DashboardIInv
    <2> SUFFICES ASSUME Dashboard!Init PROVE DashboardIInv
      OBVIOUS
    <2>1. /\ calendar = [y \in Calendars |-> Nothing]
          /\ draws = [y \in Calendars |-> [c \in Towns |-> Nothing]]
          /\ announced = {} /\ reading = Nothing /\ dashboard = Nothing
      BY DEF Dashboard!Init
    <2>2. Dashboard!OpenYears = {}
      BY <2>1, DashboardConstants, PagesAssumption DEF Dashboard!OpenYears
    <2>3. Dashboard!Cardinality(Dashboard!OpenYears) <= 1
      BY <2>2, FS_EmptySet, DashboardFiniteSets
    <2> QED
      BY <2>1, <2>3 DEF DashboardIInv, Dashboard!TypeOK, Dashboard!QuietIsExact
  <1> QED
    BY <1>1, DashboardStep, PagesAssumption, PTL DEF Dashboard!Spec

\* Whatever is chosen, typed, opened or announced while answers are on their way: a table
\* shows what was last asked for, and a dashboard behind which nothing happened is exact.
THEOREM TablesShowWhatWasAsked == Listing!Spec /\ Dashboard!Spec => []ShownIsAsked
  <1>1. ListingIInv /\ DashboardIInv => ShownIsAsked
    BY DEF ListingIInv, DashboardIInv, ShownIsAsked
  <1> QED
    BY <1>1, ListingInvariance, DashboardInvariance, PTL

------------------------------------------------------------------------------
(* The page that watches a draw.                                            *)

LEMMA WatchFiniteSets ==
  ASSUME NEW S
  PROVE  /\ DrawWatch!IsFiniteSet(S) <=> IsFiniteSet(S)
         /\ DrawWatch!Cardinality(S) = Cardinality(S)
  BY DEF DrawWatch!IsFiniteSet, IsFiniteSet, DrawWatch!Cardinality, Cardinality

PublicRows ==
  [commune : Watched, phase : {"ACCEPTING", "ENTRIES_CLOSED", "DRAWN", "CANCELLED"},
   resultsPublished : BOOLEAN]

WatchTables ==
  /\ watched \in [Watched -> [status : DrawWatch!CommuneDrawStatus, published : BOOLEAN]]
  /\ row \in [Watched -> PublicRows]
  /\ answer \in [Polls -> PublicRows \cup {Nothing}]
  /\ visible \in PublicRows \cup {Nothing}

WatchPage ==
  /\ at \in Watched \cup {Nothing}
  /\ loading \in BOOLEAN /\ failed \in BOOLEAN /\ hidden \in BOOLEAN /\ polling \in BOOLEAN
  /\ handle \in BOOLEAN
  /\ asking \subseteq Polls
  /\ \A r \in Polls : r \notin asking => answer[r] = Nothing

\* A watch has a page to watch, and its timers and requests never outnumber the polls.
WatchCounts ==
  /\ armed \in Nat /\ armed + Cardinality(asking) <= Cardinality(Polls)
  /\ handle => armed > 0
  /\ at = Nothing => armed = 0 /\ asking = {} /\ ~ failed

WatchIInv ==
  WatchTables /\ WatchPage /\ WatchCounts /\ DrawWatch!NeverForgotten /\ DrawWatch!SaysItWatches

LEMMA WatchConstants == PagesAssumption => IsFiniteSet(Polls) /\ Nothing \notin Watched
  BY WatchFiniteSets DEF PagesAssumption, DrawWatch!WatchAssumption

LEMMA AskingIsFinite ==
  ASSUME PagesAssumption, NEW live \in SUBSET Polls
  PROVE  /\ IsFiniteSet(live) /\ Cardinality(live) \in Nat /\ Cardinality(Polls) \in Nat
         /\ Cardinality(live) <= Cardinality(Polls) /\ Cardinality({}) = 0
         /\ \A r \in Polls \ live : Cardinality(live \cup {r}) = Cardinality(live) + 1
         /\ \A r \in live : Cardinality(live \ {r}) = Cardinality(live) - 1
  <1>1. IsFiniteSet(Polls) /\ IsFiniteSet(live) /\ Cardinality(live) <= Cardinality(Polls)
    BY WatchConstants, FS_Subset
  <1>2. ASSUME NEW r \in Polls \ live PROVE Cardinality(live \cup {r}) = Cardinality(live) + 1
    BY <1>1, FS_AddElement
  <1>3. ASSUME NEW r \in live PROVE Cardinality(live \ {r}) = Cardinality(live) - 1
    BY <1>1, FS_RemoveElement
  <1> QED
    BY <1>1, <1>2, <1>3, FS_CardinalityType, FS_EmptySet

LEMMA WatchIsTyped == PagesAssumption /\ WatchIInv => DrawWatch!TypeOK
  <1> SUFFICES ASSUME PagesAssumption, WatchIInv PROVE DrawWatch!TypeOK
    OBVIOUS
  <1>1. armed \in 0 .. DrawWatch!Cardinality(Polls)
    BY AskingIsFinite, WatchFiniteSets DEF WatchIInv, WatchCounts, WatchPage
  <1>2. DrawWatch!Stage(visible) \in {"WAITING", "DRAWING", "COMPLETED", "UNAVAILABLE"}
    BY DEF WatchIInv, WatchTables, PublicRows, DrawWatch!Stage
  <1> QED
    BY <1>1, <1>2 DEF WatchIInv, WatchTables, WatchPage, WatchCounts, PublicRows, DrawWatch!TypeOK

LEMMA RowIsPublic ==
  ASSUME WatchTables, NEW c \in Watched
  PROVE  DrawWatch!Row(c) \in PublicRows
  BY DEF WatchTables, PublicRows, DrawWatch!Row, DrawWatch!Phase, DrawWatch!CommuneDrawStatus

\* A poll of a page out of view asks nothing, and of one in view something.
LEMMA PollAsks ==
  ASSUME PagesAssumption, NEW live \in SUBSET Polls, DrawWatch!Poll(live), hidden' \in BOOLEAN,
         polling \in BOOLEAN
  PROVE  /\ handle' = FALSE /\ polling' \in BOOLEAN /\ asking' \in SUBSET Polls
         /\ live \subseteq asking'
         /\ hidden' => asking' = live /\ polling' = FALSE
         /\ ~ hidden' => asking' # {} /\ Cardinality(asking') = Cardinality(live) + 1
  <1>1. CASE hidden'
    BY <1>1 DEF DrawWatch!Poll
  <1>2. CASE ~ hidden'
    BY <1>2, AskingIsFinite DEF DrawWatch!Poll
  <1> QED
    BY <1>1, <1>2

LEMMA DrawsGoOn ==
  ASSUME WatchIInv, NEW c \in Watched,
         DrawWatch!Advance(c) \/ DrawWatch!Publish(c) \/ DrawWatch!Revalidate(c)
  PROVE  WatchIInv'
  <1>1. UNCHANGED <<at, visible, loading, failed, hidden, polling, armed, handle, asking, answer>>
    BY DEF DrawWatch!Advance, DrawWatch!Publish, DrawWatch!Revalidate, DrawWatch!page
  <1>2. watched' \in [Watched -> [status : DrawWatch!CommuneDrawStatus, published : BOOLEAN]]
    BY DEF DrawWatch!Advance, DrawWatch!Publish, DrawWatch!Revalidate, WatchIInv, WatchTables
  <1>3. row' \in [Watched -> PublicRows]
    BY RowIsPublic
    DEF DrawWatch!Advance, DrawWatch!Publish, DrawWatch!Revalidate, WatchIInv, WatchTables
  <1> QED
    BY <1>1, <1>2, <1>3
    DEF WatchIInv, WatchTables, WatchPage, WatchCounts, DrawWatch!NeverForgotten,
        DrawWatch!SaysItWatches, DrawWatch!Settled

LEMMA NavigateIsSound ==
  ASSUME PagesAssumption, WatchIInv, NEW c \in Watched, DrawWatch!Navigate(c)
  PROVE  WatchIInv'
  <1>1. /\ at' = c /\ armed' = 0 /\ answer' = [r \in Polls |-> Nothing] /\ hidden' = hidden
        /\ UNCHANGED <<watched, row, visible, loading, failed, failures>>
        /\ DrawWatch!Poll({})
    BY DEF DrawWatch!Navigate
  <1>2. /\ handle' = FALSE /\ polling' \in BOOLEAN /\ asking' \in SUBSET Polls
        /\ ~ hidden' => asking' # {}
    BY <1>1, PollAsks DEF WatchIInv, WatchPage
  <1>3. WatchTables' /\ WatchPage'
    BY <1>1, <1>2 DEF WatchIInv, WatchTables, WatchPage
  <1>4. WatchCounts'
    BY <1>1, <1>2, AskingIsFinite, WatchConstants DEF WatchCounts
  <1> QED
    BY <1>1, <1>2, <1>3, <1>4 DEF WatchIInv, DrawWatch!NeverForgotten, DrawWatch!SaysItWatches

LEMMA RefetchIsSound ==
  ASSUME PagesAssumption, WatchIInv, DrawWatch!Refetch
  PROVE  WatchIInv'
  <1>1. /\ armed' = 0 /\ answer' = [r \in Polls |-> Nothing] /\ hidden' = hidden /\ failed
        /\ loading' = TRUE
        /\ UNCHANGED <<watched, row, at, visible, failed, failures>>
        /\ DrawWatch!Poll({})
    BY DEF DrawWatch!Refetch
  <1>2. /\ handle' = FALSE /\ polling' \in BOOLEAN /\ asking' \in SUBSET Polls
        /\ ~ hidden' => asking' # {}
    BY <1>1, PollAsks DEF WatchIInv, WatchPage
  <1>3. WatchTables' /\ WatchPage'
    BY <1>1, <1>2 DEF WatchIInv, WatchTables, WatchPage
  <1>4. WatchCounts'
    BY <1>1, <1>2, AskingIsFinite DEF WatchIInv, WatchCounts
  <1> QED
    BY <1>1, <1>2, <1>3, <1>4 DEF WatchIInv, DrawWatch!NeverForgotten, DrawWatch!SaysItWatches

LEMMA FireIsSound ==
  ASSUME PagesAssumption, WatchIInv, DrawWatch!Fire
  PROVE  WatchIInv'
  <1>1. /\ armed > 0 /\ armed' = armed - 1 /\ hidden' = hidden
        /\ UNCHANGED <<watched, row, at, visible, loading, failed, answer, failures>>
        /\ DrawWatch!Poll(asking)
    BY DEF DrawWatch!Fire
  <1>2. /\ handle' = FALSE /\ polling' \in BOOLEAN /\ asking' \in SUBSET Polls
        /\ asking \subseteq asking'
        /\ hidden' => asking' = asking
        /\ ~ hidden' => asking' # {} /\ Cardinality(asking') = Cardinality(asking) + 1
    BY <1>1, PollAsks DEF WatchIInv, WatchPage
  <1>3. WatchTables' /\ WatchPage'
    BY <1>1, <1>2 DEF WatchIInv, WatchTables, WatchPage
  <1>4. WatchCounts'
    BY <1>1, <1>2, AskingIsFinite DEF WatchIInv, WatchCounts, WatchPage
  <1> QED
    BY <1>1, <1>2, <1>3, <1>4 DEF WatchIInv, DrawWatch!NeverForgotten, DrawWatch!SaysItWatches

LEMMA HideIsSound ==
  ASSUME WatchIInv, DrawWatch!Hide
  PROVE  WatchIInv'
  <1>1. /\ hidden' = TRUE
        /\ UNCHANGED <<watched, row, at, visible, loading, failed, polling, armed, handle,
                       asking, answer>>
    BY DEF DrawWatch!Hide
  <1> QED
    BY <1>1 DEF WatchIInv, WatchTables, WatchPage, WatchCounts, DrawWatch!NeverForgotten,
                DrawWatch!SaysItWatches

LEMMA ShowIsSound ==
  ASSUME PagesAssumption, WatchIInv, DrawWatch!Show
  PROVE  WatchIInv'
  <1>1. /\ hidden' = FALSE /\ armed + Cardinality(asking) < Cardinality(Polls)
        /\ UNCHANGED <<watched, row, at, visible, loading, failed, armed, answer>>
    BY WatchFiniteSets DEF DrawWatch!Show
  <1>2. CASE at # Nothing /\ ~ handle
    <2>1. /\ handle' = FALSE /\ polling' \in BOOLEAN /\ asking' \in SUBSET Polls
          /\ asking \subseteq asking'
          /\ asking' # {} /\ Cardinality(asking') = Cardinality(asking) + 1
      BY <1>1, <1>2, PollAsks DEF DrawWatch!Show, WatchIInv, WatchPage
    <2>2. WatchTables' /\ WatchPage'
      BY <1>1, <2>1 DEF WatchIInv, WatchTables, WatchPage
    <2>3. WatchCounts'
      BY <1>1, <1>2, <2>1, AskingIsFinite DEF WatchIInv, WatchCounts, WatchPage
    <2> QED
      BY <1>1, <2>1, <2>2, <2>3 DEF WatchIInv, DrawWatch!NeverForgotten, DrawWatch!SaysItWatches
  <1>3. CASE ~ (at # Nothing /\ ~ handle)
    <2>1. UNCHANGED <<handle, polling, asking>>
      BY <1>3 DEF DrawWatch!Show
    <2> QED
      BY <1>1, <1>3, <2>1
      DEF WatchIInv, WatchTables, WatchPage, WatchCounts, DrawWatch!NeverForgotten,
          DrawWatch!SaysItWatches
  <1> QED
    BY <1>2, <1>3

LEMMA ServeIsSound ==
  ASSUME WatchIInv, NEW r \in Polls, DrawWatch!Serve(r)
  PROVE  WatchIInv'
  <1>1. /\ r \in asking /\ answer' = [answer EXCEPT ![r] = row[at]]
        /\ UNCHANGED <<watched, row, at, visible, loading, failed, hidden, polling, armed, handle,
                       asking>>
    BY DEF DrawWatch!Serve
  <1>2. row[at] \in PublicRows
    BY <1>1 DEF WatchIInv, WatchTables, WatchPage, WatchCounts
  <1>3. WatchTables' /\ WatchPage'
    BY <1>1, <1>2 DEF WatchIInv, WatchTables, WatchPage
  <1> QED
    BY <1>1, <1>3
    DEF WatchIInv, WatchCounts, DrawWatch!NeverForgotten, DrawWatch!SaysItWatches

\* An answer, or a failure, after which the next poll is scheduled or nothing is left to see.
LEMMA OutcomeIsSound ==
  ASSUME PagesAssumption, WatchIInv, NEW r \in Polls, DrawWatch!Arrive(r) \/ DrawWatch!Fail(r)
  PROVE  WatchIInv'
  <1>1. /\ r \in asking /\ asking' = asking \ {r} /\ answer' = [answer EXCEPT ![r] = Nothing]
        /\ loading' = FALSE /\ failed' \in BOOLEAN
        /\ visible' \in {visible, answer[r]}
        /\ UNCHANGED <<watched, row, at, hidden>>
        /\ \/ DrawWatch!Schedule
           \/ /\ polling' = FALSE /\ UNCHANGED <<armed, handle>>
              /\ visible' # Nothing /\ DrawWatch!Settled(visible')
    BY DEF DrawWatch!Arrive, DrawWatch!Fail
  <1>2. Cardinality(asking') = Cardinality(asking) - 1 /\ Cardinality(asking) \in Nat
    BY <1>1, AskingIsFinite DEF WatchIInv, WatchPage
  <1>3. at # Nothing
    BY <1>1 DEF WatchIInv, WatchCounts
  <1>4. WatchTables'
    BY <1>1 DEF WatchIInv, WatchTables
  <1>5. at' = at /\ hidden' = hidden /\ \A q \in Polls : q \notin asking' => answer'[q] = Nothing
    BY <1>1 DEF WatchIInv, WatchTables, WatchPage
  <1>6. WatchIInv /\ armed \in Nat /\ armed + Cardinality(asking) <= Cardinality(Polls)
    BY DEF WatchIInv, WatchCounts
  <1>7. Cardinality(Polls) \in Nat
    BY AskingIsFinite
  <1>8. CASE DrawWatch!Schedule
    <2>1. polling' = TRUE /\ handle' = TRUE /\ armed' = armed + 1
      BY <1>8 DEF DrawWatch!Schedule
    <2>2. WatchPage'
      BY <1>1, <1>5, <2>1 DEF WatchIInv, WatchPage
    <2>3. WatchCounts'
      BY <1>2, <1>3, <1>5, <1>6, <1>7, <2>1 DEF WatchCounts
    <2>4. armed' > 0
      BY <2>1 DEF WatchIInv, WatchCounts
    <2> QED
      BY <1>4, <2>2, <2>3, <2>4 DEF WatchIInv, DrawWatch!NeverForgotten, DrawWatch!SaysItWatches
  <1>9. CASE /\ polling' = FALSE /\ UNCHANGED <<armed, handle>>
             /\ visible' # Nothing /\ DrawWatch!Settled(visible')
    <2>1. WatchPage'
      BY <1>1, <1>9, <1>5 DEF WatchIInv, WatchPage
    <2>2. WatchCounts'
      BY <1>2, <1>3, <1>9, <1>5, <1>6, <1>7 DEF WatchIInv, WatchCounts
    <2> QED
      BY <1>4, <1>9, <2>1, <2>2 DEF WatchIInv, DrawWatch!NeverForgotten, DrawWatch!SaysItWatches
  <1> QED
    BY <1>1, <1>8, <1>9

LEMMA WatchStep ==
  PagesAssumption /\ WatchIInv /\ [DrawWatch!Next]_(DrawWatch!vars) => WatchIInv'
  <1> SUFFICES ASSUME PagesAssumption, WatchIInv, [DrawWatch!Next]_(DrawWatch!vars)
               PROVE  WatchIInv'
    OBVIOUS
  <1>1. CASE UNCHANGED DrawWatch!vars
    BY <1>1 DEF DrawWatch!vars, DrawWatch!page, WatchIInv, WatchTables, WatchPage, WatchCounts,
                DrawWatch!NeverForgotten, DrawWatch!SaysItWatches
  <1>2. CASE DrawWatch!Next
    <2>1. CASE \E c \in Watched : DrawWatch!Advance(c) \/ DrawWatch!Publish(c)
                                    \/ DrawWatch!Revalidate(c) \/ DrawWatch!Navigate(c)
      BY <2>1, DrawsGoOn, NavigateIsSound
    <2>2. CASE \E r \in Polls : DrawWatch!Serve(r) \/ DrawWatch!Arrive(r) \/ DrawWatch!Fail(r)
      BY <2>2, ServeIsSound, OutcomeIsSound
    <2> QED
      BY <1>2, <2>1, <2>2, RefetchIsSound, FireIsSound, HideIsSound, ShowIsSound
      DEF DrawWatch!Next
  <1> QED
    BY <1>1, <1>2

LEMMA WatchInvariance == DrawWatch!Spec => []WatchIInv
  <1>1. DrawWatch!Init => WatchIInv
    <2> SUFFICES ASSUME DrawWatch!Init PROVE WatchIInv
      OBVIOUS
    <2>1. WatchTables /\ WatchPage
      BY DEF DrawWatch!Init, WatchTables, WatchPage, PublicRows, DrawWatch!CommuneDrawStatus
    <2>2. WatchCounts
      BY AskingIsFinite, PagesAssumption DEF DrawWatch!Init, WatchCounts
    <2> QED
      BY <2>1, <2>2 DEF DrawWatch!Init, WatchIInv, DrawWatch!NeverForgotten, DrawWatch!SaysItWatches
  <1> QED
    BY <1>1, WatchStep, PagesAssumption, PTL DEF DrawWatch!Spec

THEOREM AWatchGoesOn == DrawWatch!Spec => []NeverForgotten
  <1>1. WatchIInv => NeverForgotten
    BY WatchIsTyped, PagesAssumption DEF WatchIInv, NeverForgotten
  <1> QED
    BY <1>1, WatchInvariance, PTL

------------------------------------------------------------------------------
(* The batches of a year.                                                   *)

Reports(s) == Seq([draw : Batch(s)!AllDraws, status : {"failed", "skipped", "completed"}])

Inquiries(s) ==
  [admin : Batches[s].admins, kind : Batches[s].kinds, opening : Nat, year : Batch(s)!Years,
   ready : {Nothing} \cup SUBSET Batch(s)!AllDraws]

Runs(s) ==
  [at : {"idle", "next", "working", "answered", "broken", "over"},
   year : Batch(s)!Years \cup {Nothing}, from : Nat, todo : SUBSET DOMAIN Batches[s].draws,
   outcome : Reports(s)]

DialogOf(T, R) ==
  [open : BOOLEAN, opening : Nat, phase : {"validating", "confirm", "results"},
   shown : T, pending : BOOLEAN, result : R]

Dialogs(s) == DialogOf(Inquiries(s) \cup {Nothing}, Reports(s) \cup {Nothing})

Rows(s) ==
  [by : Batches[s].admins, kind : Batches[s].kinds, from : Nat, outcome : Reports(s)]

BatchTables(s) ==
  /\ stage \in [Batch(s)!AllDraws -> Batch(s)!Stages]
  /\ inFlight \in [Batches[s].processes -> [Batches[s].kinds -> SUBSET Batch(s)!AllDraws]]
  /\ run \in [Batches[s].admins -> [Batches[s].kinds -> Runs(s)]]
  /\ year \in [Batches[s].admins -> Batch(s)!Years]
  /\ dialog \in [Batches[s].admins -> [Batches[s].kinds -> Dialogs(s)]]
  /\ previews \subseteq Inquiries(s)
  /\ audit \in Seq(Rows(s))
  /\ openings \in Nat /\ faults \in Nat

\* A dialog sends nothing while its batch has not been answered.
OneBatchEach(s) ==
  \A a \in Batches[s].admins, k \in Batches[s].kinds :
    run[a][k].at \in {"next", "working", "answered", "broken"} => dialog[a][k].pending

\* Who works has a draw to work on, of the year of the batch.
WorkIsListed(s) ==
  \A a \in Batches[s].admins, k \in Batches[s].kinds :
    run[a][k].at = "working" =>
      /\ run[a][k].todo # {}
      /\ Batch(s)!Current(a, k) \in Batch(s)!Listed(run[a][k])

\* Whoever claims to have taken a draw on is the only one, and it was taken on.
ClaimsAreTrue(s) ==
  \A k \in Batches[s].kinds, d \in Batch(s)!AllDraws :
    /\ Batch(s)!Claims(k, d) # {} => Batch(s)!Done(k, d)
    /\ \A x, y \in Batch(s)!Claims(k, d) : x = y

BatchIInv(s) ==
  /\ BatchTables(s) /\ OneBatchEach(s) /\ WorkIsListed(s) /\ ClaimsAreTrue(s)
  /\ Batch(s)!NeverAnotherYear /\ Batch(s)!MarksAreLive

LEMMA BatchConstants ==
  ASSUME PagesAssumption, NEW s \in DOMAIN Batches
  PROVE  /\ Batches[s].kinds \subseteq {"freeze", "execute"}
         /\ Batches[s].servedBy \in [Batches[s].admins -> Batches[s].processes]
         /\ Batches[s].draws \in Seq(Batch(s)!AllDraws)
         /\ DOMAIN Batches[s].draws \subseteq Nat
         /\ \A i \in DOMAIN Batches[s].draws : Batches[s].draws[i] \in Batch(s)!AllDraws
         /\ Batches[s].stages \in [Batch(s)!AllDraws -> Batch(s)!Stages]
  <1>1. Batch(s)!BatchAssumption
    BY DEF PagesAssumption
  <1>2. Batches[s].draws \in Seq(Batch(s)!AllDraws)
    BY <1>1 DEF Batch!BatchAssumption
  <1>3. /\ DOMAIN Batches[s].draws \subseteq Nat
        /\ \A i \in DOMAIN Batches[s].draws : Batches[s].draws[i] \in Batch(s)!AllDraws
    BY <1>2
  <1> QED
    BY <1>1, <1>2, <1>3 DEF Batch!BatchAssumption

LEMMA BatchIsTyped ==
  ASSUME NEW s \in DOMAIN Batches, BatchTables(s)
  PROVE  Batch(s)!TypeOK
  <1>1. \A i \in DOMAIN audit : audit[i] \in Rows(s)
    BY DEF BatchTables
  <1>2. \A p \in Batches[s].processes, k \in Batches[s].kinds : inFlight[p][k] \subseteq Batch(s)!AllDraws
    BY DEF BatchTables
  <1>3. \A a \in Batches[s].admins, k \in Batches[s].kinds :
          run[a][k] \in Runs(s) /\ dialog[a][k] \in Dialogs(s)
    BY DEF BatchTables
  <1> QED
    BY <1>1, <1>2, <1>3 DEF BatchTables, Runs, Dialogs, DialogOf, Rows, Batch!TypeOK

\* The draw a batch has come to.
LEMMA CurrentIsADraw ==
  ASSUME PagesAssumption, NEW s \in DOMAIN Batches, BatchTables(s),
         NEW a \in Batches[s].admins, NEW k \in Batches[s].kinds, run[a][k].todo # {}
  PROVE  Batch(s)!Current(a, k) \in Batch(s)!AllDraws
  <1>1. run[a][k].todo \subseteq DOMAIN Batches[s].draws
    BY DEF BatchTables, Runs
  <1>2. run[a][k].todo \subseteq Nat
    BY <1>1, BatchConstants
  <1>3. \E x \in run[a][k].todo : \A y \in run[a][k].todo : x <= y
    BY <1>2, LeastNumber
  <1>4. Batch(s)!Min(run[a][k].todo) \in run[a][k].todo
    BY <1>3 DEF Batch!Min
  <1> QED
    BY <1>1, <1>4, BatchConstants DEF Batch!Current

LEMMA OneMoreReport ==
  ASSUME NEW S, NEW seq \in Seq(S), NEW e \in S, NEW s
  PROVE  \A x : x \in Batch(s)!Range(Append(seq, e)) <=> x \in Batch(s)!Range(seq) \/ x = e
  <1>1. /\ DOMAIN Append(seq, e) = 1 .. Len(seq) + 1 /\ DOMAIN seq = 1 .. Len(seq)
        /\ \A i \in 1 .. Len(seq) : Append(seq, e)[i] = seq[i]
        /\ Append(seq, e)[Len(seq) + 1] = e
        /\ Len(seq) \in Nat
    OBVIOUS
  <1>2. ASSUME NEW x, x \in Batch(s)!Range(Append(seq, e)) PROVE x \in Batch(s)!Range(seq) \/ x = e
    BY <1>1, <1>2 DEF Batch!Range
  <1>3. ASSUME NEW x, x \in Batch(s)!Range(seq) PROVE x \in Batch(s)!Range(Append(seq, e))
    <2>1. PICK i \in 1 .. Len(seq) : x = seq[i]
      BY <1>1, <1>3 DEF Batch!Range
    <2>2. i \in DOMAIN Append(seq, e) /\ Append(seq, e)[i] = x
      BY <1>1, <2>1
    <2> QED
      BY <2>2 DEF Batch!Range
  <1>4. e \in Batch(s)!Range(Append(seq, e))
    <2>1. Len(seq) + 1 \in DOMAIN Append(seq, e)
      BY <1>1
    <2> QED
      BY <1>1, <2>1 DEF Batch!Range
  <1> QED
    BY <1>2, <1>3, <1>4

------------------------------------------------------------------------------
(* What keeps the claims true. *)

\* No claim is made, and what was done stays done.
LEMMA FewerClaims ==
  ASSUME NEW s \in DOMAIN Batches, ClaimsAreTrue(s),
         \A k \in Batches[s].kinds, d \in Batch(s)!AllDraws :
           /\ Batch(s)!Claims(k, d)' \subseteq Batch(s)!Claims(k, d)
           /\ Batch(s)!Done(k, d) => Batch(s)!Done(k, d)'
  PROVE  ClaimsAreTrue(s)'
  <1> SUFFICES ASSUME NEW k \in Batches[s].kinds, NEW d \in Batch(s)!AllDraws
               PROVE  /\ Batch(s)!Claims(k, d)' # {} => Batch(s)!Done(k, d)'
                      /\ \A x, y \in Batch(s)!Claims(k, d)' : x = y
    BY DEF ClaimsAreTrue
  <1> QED
    BY DEF ClaimsAreTrue

\* The batch of one administrator changes, and claims no more than it did.
LEMMA RunClaimsNoMore ==
  ASSUME NEW s \in DOMAIN Batches, BatchTables(s), BatchTables(s)', ClaimsAreTrue(s),
         NEW a \in Batches[s].admins, NEW k \in Batches[s].kinds,
         \A b \in Batches[s].admins, j \in Batches[s].kinds :
           b # a \/ j # k => run'[b][j] = run[b][j],
         audit' = audit,
         run'[a][k].at \in {"next", "working", "broken"} =>
           /\ run[a][k].at \in {"next", "working", "broken"}
           /\ \A d : [draw |-> d, status |-> "completed"] \in Batch(s)!Range(run'[a][k].outcome)
                       => [draw |-> d, status |-> "completed"] \in Batch(s)!Range(run[a][k].outcome),
         \A j \in Batches[s].kinds, d \in Batch(s)!AllDraws : Batch(s)!Done(j, d) => Batch(s)!Done(j, d)'
  PROVE  ClaimsAreTrue(s)'
  <1>1. ASSUME NEW j \in Batches[s].kinds, NEW d \in Batch(s)!AllDraws
        PROVE  Batch(s)!Claims(j, d)' \subseteq Batch(s)!Claims(j, d)
    <2> SUFFICES ASSUME NEW x \in Batch(s)!Claims(j, d)' PROVE x \in Batch(s)!Claims(j, d)
      OBVIOUS
    <2>1. CASE \E i \in DOMAIN audit' : x = <<"row", i>> /\ audit'[i].kind = j
                 /\ [draw |-> d, status |-> "completed"] \in Batch(s)!Range(audit'[i].outcome)
      BY <2>1 DEF Batch!Claims
    <2>2. CASE \E b \in Batches[s].admins : x = <<"run", b>>
                 /\ run'[b][j].at \in {"next", "working", "broken"}
                 /\ [draw |-> d, status |-> "completed"] \in Batch(s)!Range(run'[b][j].outcome)
      BY <2>2 DEF Batch!Claims
    <2> QED
      BY <2>1, <2>2 DEF Batch!Claims, Batch!Range
  <1> QED
    BY <1>1, FewerClaims

------------------------------------------------------------------------------
(* The console. *)

\* What the console shows changes nothing of the batches that run.
LEMMA BatchesGoOn ==
  ASSUME NEW s \in DOMAIN Batches, BatchIInv(s), BatchTables(s)',
         UNCHANGED <<stage, inFlight, run, audit>>,
         \A a \in Batches[s].admins, k \in Batches[s].kinds :
           dialog'[a][k].pending = dialog[a][k].pending
  PROVE  BatchIInv(s)'
  <1>1. OneBatchEach(s)'
    BY DEF BatchIInv, OneBatchEach
  <1>2. WorkIsListed(s)'
    BY DEF BatchIInv, WorkIsListed, Batch!Current, Batch!Listed
  <1>3. ClaimsAreTrue(s)'
    BY DEF BatchIInv, ClaimsAreTrue, Batch!Claims, Batch!Done
  <1>4. Batch(s)!NeverAnotherYear' /\ Batch(s)!MarksAreLive'
    BY DEF BatchIInv, Batch!NeverAnotherYear, Batch!MarksAreLive, Batch!Current
  <1> QED
    BY <1>1, <1>2, <1>3, <1>4 DEF BatchIInv

\* A dialog that shows something else, and waits for what it waited for.
LEMMA ShowIsTyped ==
  ASSUME NEW s \in DOMAIN Batches, BatchTables(s),
         NEW a \in Batches[s].admins, NEW k \in Batches[s].kinds,
         NEW d \in Dialogs(s), Batch(s)!Show(a, k, d)
  PROVE  /\ dialog' \in [Batches[s].admins -> [Batches[s].kinds -> Dialogs(s)]]
         /\ dialog'[a][k] = d
         /\ \A b \in Batches[s].admins, j \in Batches[s].kinds :
              b # a \/ j # k => dialog'[b][j] = dialog[b][j]
  <1> DEFINE All == Dialogs(s)
  <1>1. dialog \in [Batches[s].admins -> [Batches[s].kinds -> All]]
    BY DEF BatchTables
  <1>2. dialog' = [dialog EXCEPT ![a][k] = d] /\ d \in All
    BY DEF Batch!Show
  <1> HIDE DEF All
  <1>3. dialog' \in [Batches[s].admins -> [Batches[s].kinds -> All]]
    BY <1>1, <1>2
  <1>4. dialog'[a][k] = d
    BY <1>1, <1>2
  <1>5. \A b \in Batches[s].admins, j \in Batches[s].kinds :
          b # a \/ j # k => dialog'[b][j] = dialog[b][j]
    BY <1>1, <1>2
  <1> QED
    BY <1>3, <1>4, <1>5 DEF All

LEMMA DialogFields ==
  ASSUME NEW T, NEW R, NEW d \in DialogOf(T, R)
  PROVE  /\ [d EXCEPT !.open = FALSE] \in DialogOf(T, R)
         /\ [d EXCEPT !.open = FALSE].pending = d.pending
         /\ [d EXCEPT !.pending = TRUE] \in DialogOf(T, R)
         /\ [d EXCEPT !.pending = TRUE].pending
         /\ [d EXCEPT !.pending = FALSE] \in DialogOf(T, R)
         /\ \A r \in R :
              [d EXCEPT !.result = r, !.phase = "results", !.pending = FALSE] \in DialogOf(T, R)
  <1>1. [d EXCEPT !.open = FALSE] \in DialogOf(T, R)
    BY DEF DialogOf
  <1>2. [d EXCEPT !.pending = TRUE] \in DialogOf(T, R)
    BY DEF DialogOf
  <1>3. [d EXCEPT !.pending = FALSE] \in DialogOf(T, R)
    BY DEF DialogOf
  <1>5. ASSUME NEW r \in R
        PROVE  [d EXCEPT !.result = r, !.phase = "results", !.pending = FALSE] \in DialogOf(T, R)
    BY DEF DialogOf
  <1>4. [d EXCEPT !.open = FALSE].pending = d.pending /\ [d EXCEPT !.pending = TRUE].pending
    BY DEF DialogOf
  <1> QED
    BY <1>1, <1>2, <1>3, <1>4, <1>5

LEMMA DialogShows ==
  ASSUME NEW T, NEW R, NEW d \in DialogOf(T, R), NEW q \in T
  PROVE  /\ [d EXCEPT !.shown = q, !.phase = "confirm"] \in DialogOf(T, R)
         /\ [d EXCEPT !.shown = q, !.phase = "confirm"].pending = d.pending
  <1>1. [d EXCEPT !.shown = q, !.phase = "confirm"] \in DialogOf(T, R)
    BY DEF DialogOf
  <1>2. [d EXCEPT !.shown = q, !.phase = "confirm"].pending = d.pending
    BY DEF DialogOf
  <1> QED
    BY <1>1, <1>2

LEMMA DialogUpdates ==
  ASSUME NEW s \in DOMAIN Batches, NEW d \in Dialogs(s)
  PROVE  /\ [d EXCEPT !.open = FALSE] \in Dialogs(s)
         /\ [d EXCEPT !.open = FALSE].pending = d.pending
         /\ [d EXCEPT !.pending = TRUE] \in Dialogs(s)
         /\ [d EXCEPT !.pending = TRUE].pending
         /\ [d EXCEPT !.pending = FALSE] \in Dialogs(s)
         /\ \A q \in Inquiries(s) :
              /\ [d EXCEPT !.shown = q, !.phase = "confirm"] \in Dialogs(s)
              /\ [d EXCEPT !.shown = q, !.phase = "confirm"].pending = d.pending
         /\ \A r \in Reports(s) :
              [d EXCEPT !.result = r, !.phase = "results", !.pending = FALSE] \in Dialogs(s)
  <1> DEFINE T == Inquiries(s) \cup {Nothing}
             R == Reports(s) \cup {Nothing}
  <1>1. Dialogs(s) = DialogOf(T, R) /\ Inquiries(s) \subseteq T /\ Reports(s) \subseteq R
    BY DEF Dialogs
  <1> HIDE DEF T, R
  <1>2. d \in DialogOf(T, R)
    BY <1>1
  <1>3. /\ [d EXCEPT !.open = FALSE] \in DialogOf(T, R)
        /\ [d EXCEPT !.open = FALSE].pending = d.pending
        /\ [d EXCEPT !.pending = TRUE] \in DialogOf(T, R)
        /\ [d EXCEPT !.pending = TRUE].pending
        /\ [d EXCEPT !.pending = FALSE] \in DialogOf(T, R)
    BY <1>2, DialogFields
  <1>4. ASSUME NEW q \in Inquiries(s)
        PROVE  /\ [d EXCEPT !.shown = q, !.phase = "confirm"] \in DialogOf(T, R)
               /\ [d EXCEPT !.shown = q, !.phase = "confirm"].pending = d.pending
    <2>1. q \in T
      BY <1>1
    <2> QED
      BY <1>2, <2>1, DialogShows
  <1>5. ASSUME NEW r \in Reports(s)
        PROVE  [d EXCEPT !.result = r, !.phase = "results", !.pending = FALSE] \in DialogOf(T, R)
    BY <1>1, <1>2, DialogFields
  <1> QED
    BY <1>1, <1>3, <1>4, <1>5

LEMMA DialogOpens ==
  ASSUME NEW T, NEW R, NEW q \in T, NEW r \in R, NEW n \in Nat, NEW wait \in BOOLEAN,
         NEW d, d = [open |-> FALSE, opening |-> 0, phase |-> "validating", shown |-> q,
                     pending |-> FALSE, result |-> r]
  PROVE  /\ [d EXCEPT !.open = TRUE, !.opening = n, !.pending = wait] \in DialogOf(T, R)
         /\ [d EXCEPT !.open = TRUE, !.opening = n, !.pending = wait].pending = wait
  <1>1. [d EXCEPT !.open = TRUE, !.opening = n, !.pending = wait] \in DialogOf(T, R)
    BY DEF DialogOf
  <1>2. [d EXCEPT !.open = TRUE, !.opening = n, !.pending = wait].pending = wait
    OBVIOUS
  <1> QED
    BY <1>1, <1>2

LEMMA DialogIsRecord ==
  ASSUME NEW s \in DOMAIN Batches, BatchTables(s),
         NEW a \in Batches[s].admins, NEW k \in Batches[s].kinds
  PROVE  dialog[a][k] \in Dialogs(s) /\ dialog[a][k].pending \in BOOLEAN
  <1>1. dialog[a][k] \in Dialogs(s)
    BY DEF BatchTables
  <1> QED
    BY <1>1 DEF Dialogs, DialogOf

LEMMA ChooseYearIsSound ==
  ASSUME NEW s \in DOMAIN Batches, BatchIInv(s), NEW a \in Batches[s].admins, Batch(s)!ChooseYear(a)
  PROVE  BatchIInv(s)'
  <1>1. /\ UNCHANGED <<stage, inFlight, run, dialog, previews, audit, openings, faults>>
        /\ year' \in [Batches[s].admins -> Batch(s)!Years]
    BY DEF Batch!ChooseYear, BatchIInv, BatchTables
  <1>2. BatchTables(s)'
    BY <1>1 DEF BatchIInv, BatchTables
  <1> QED
    BY <1>1, <1>2, BatchesGoOn

LEMMA OpenIsQuiet ==
  ASSUME NEW s \in DOMAIN Batches, BatchIInv(s),
         NEW a \in Batches[s].admins, NEW k \in Batches[s].kinds, Batch(s)!Open(a, k)
  PROVE  BatchIInv(s)'
  <1> DEFINE n == openings + 1
             wait == dialog[a][k].pending
             d == [Batch(s)!Closed EXCEPT !.open = TRUE, !.opening = n, !.pending = wait]
             q == [admin |-> a, kind |-> k, opening |-> openings', year |-> year[a],
                   ready |-> Nothing]
  <1>1. BatchTables(s)
    BY DEF BatchIInv
  <1>2. /\ Batch(s)!Show(a, k, d) /\ previews' = previews \cup {q}
        /\ openings' = n
        /\ UNCHANGED <<stage, inFlight, run, year, audit, faults>>
    BY DEF Batch!Open
  <1>3. n \in Nat /\ wait \in BOOLEAN
    BY <1>1, DialogIsRecord DEF BatchTables
  <1>7. q \in Inquiries(s)
    <2>1. n \in Nat /\ openings' = n /\ year[a] \in Batch(s)!Years
      BY <1>1, <1>2, <1>3 DEF BatchTables
    <2> DEFINE Found == {Nothing} \cup SUBSET Batch(s)!AllDraws
    <2>2. Nothing \in Found
      OBVIOUS
    <2> HIDE DEF n, Found
    <2>3. q \in [admin : Batches[s].admins, kind : Batches[s].kinds, opening : Nat,
                 year : Batch(s)!Years, ready : Found]
      BY <2>1, <2>2
    <2> QED
      BY <2>3 DEF Inquiries, Found
  <1> HIDE DEF n, wait, q
  <1>6. d \in Dialogs(s) /\ d.pending = wait
    BY <1>3, DialogOpens DEF Batch!Closed, Dialogs
  <1> HIDE DEF d
  <1>4. BatchTables(s)'
    BY <1>1, <1>2, <1>3, <1>6, <1>7, ShowIsTyped DEF BatchTables
  <1>5. \A b \in Batches[s].admins, j \in Batches[s].kinds :
          dialog'[b][j].pending = dialog[b][j].pending
    BY <1>1, <1>2, <1>6, ShowIsTyped DEF wait
  <1> QED
    BY <1>2, <1>4, <1>5, BatchesGoOn

LEMMA CloseIsQuiet ==
  ASSUME NEW s \in DOMAIN Batches, BatchIInv(s),
         NEW a \in Batches[s].admins, NEW k \in Batches[s].kinds, Batch(s)!Close(a, k)
  PROVE  BatchIInv(s)'
  <1> DEFINE d == [dialog[a][k] EXCEPT !.open = FALSE]
  <1>1. BatchTables(s)
    BY DEF BatchIInv
  <1>2. Batch(s)!Show(a, k, d)
        /\ UNCHANGED <<stage, inFlight, run, year, previews, audit, openings, faults>>
    BY DEF Batch!Close
  <1>3. d \in Dialogs(s) /\ d.pending = dialog[a][k].pending
    <2>1. dialog[a][k] \in Dialogs(s)
      BY <1>1, DialogIsRecord
    <2> QED
      BY <2>1, DialogUpdates
  <1> HIDE DEF d
  <1>4. BatchTables(s)'
    BY <1>1, <1>2, <1>3, ShowIsTyped DEF BatchTables
  <1>5. \A b \in Batches[s].admins, j \in Batches[s].kinds :
          dialog'[b][j].pending = dialog[b][j].pending
    BY <1>1, <1>2, <1>3, ShowIsTyped
  <1> QED
    BY <1>2, <1>4, <1>5, BatchesGoOn

LEMMA PreviewsAreQuiet ==
  ASSUME NEW s \in DOMAIN Batches, BatchIInv(s), NEW q \in previews,
         Batch(s)!Validate(q) \/ Batch(s)!ReceivePreview(q) \/ Batch(s)!LosePreview(q)
  PROVE  BatchIInv(s)'
  <1>1. BatchTables(s) /\ q \in Inquiries(s)
    BY DEF BatchIInv, BatchTables
  <1>2. CASE Batch(s)!Validate(q)
    <2> DEFINE served == [q EXCEPT !.ready = {d \in Batch(s)!DrawsOf(q.year) : Batch(s)!Ready(q.kind, d)}]
    <2>1. /\ previews' = (previews \ {q}) \cup {served}
          /\ UNCHANGED <<stage, inFlight, run, year, dialog, audit, openings, faults>>
      BY <1>2 DEF Batch!Validate
    <2>2. served \in Inquiries(s)
      BY <1>1 DEF Inquiries, Batch!DrawsOf
    <2> HIDE DEF served
    <2>3. BatchTables(s)'
      BY <1>1, <2>1, <2>2 DEF BatchTables
    <2> QED
      BY <2>1, <2>3, BatchesGoOn
  <1>3. CASE Batch(s)!ReceivePreview(q)
    <2> DEFINE a == q.admin
               k == q.kind
               d == [dialog[a][k] EXCEPT !.shown = q, !.phase = "confirm"]
    <2>1. a \in Batches[s].admins /\ k \in Batches[s].kinds
      BY <1>1 DEF Inquiries
    <2>2. /\ Batch(s)!Show(a, k, d) /\ previews' = previews \ {q}
          /\ UNCHANGED <<stage, inFlight, run, year, audit, openings, faults>>
      BY <1>3 DEF Batch!ReceivePreview
    <2> HIDE DEF a, k
    <2>3. dialog[a][k] \in Dialogs(s)
      BY <1>1, <2>1, DialogIsRecord
    <2>4. d \in Dialogs(s) /\ d.pending = dialog[a][k].pending
      BY <1>1, <2>3, DialogUpdates
    <2> HIDE DEF d
    <2>5. BatchTables(s)'
      BY <1>1, <2>1, <2>2, <2>4, ShowIsTyped DEF BatchTables
    <2>6. \A b \in Batches[s].admins, j \in Batches[s].kinds :
            dialog'[b][j].pending = dialog[b][j].pending
      BY <1>1, <2>1, <2>2, <2>4, ShowIsTyped
    <2> QED
      BY <2>2, <2>5, <2>6, BatchesGoOn
  <1>4. CASE Batch(s)!LosePreview(q)
    <2>1. /\ previews' = previews \ {q} /\ faults' = faults + 1
          /\ UNCHANGED <<stage, inFlight, run, year, dialog, audit, openings>>
      BY <1>4 DEF Batch!LosePreview
    <2>2. BatchTables(s)'
      BY <1>1, <2>1 DEF BatchTables
    <2> QED
      BY <2>1, <2>2, BatchesGoOn
  <1> QED
    BY <1>2, <1>3, <1>4

------------------------------------------------------------------------------
(* One batch changes. *)

LEMMA RunChanges ==
  ASSUME NEW s \in DOMAIN Batches, BatchTables(s),
         NEW a \in Batches[s].admins, NEW k \in Batches[s].kinds,
         NEW r \in Runs(s), run' = [run EXCEPT ![a][k] = r]
  PROVE  /\ run' \in [Batches[s].admins -> [Batches[s].kinds -> Runs(s)]]
         /\ run'[a][k] = r
         /\ \A b \in Batches[s].admins, j \in Batches[s].kinds :
              b # a \/ j # k => run'[b][j] = run[b][j]
  <1> DEFINE All == Runs(s)
  <1>1. run \in [Batches[s].admins -> [Batches[s].kinds -> All]] /\ r \in All
    BY DEF BatchTables
  <1> HIDE DEF All
  <1>2. run' \in [Batches[s].admins -> [Batches[s].kinds -> All]]
    BY <1>1
  <1>3. run'[a][k] = r
    BY <1>1
  <1>4. \A b \in Batches[s].admins, j \in Batches[s].kinds :
          b # a \/ j # k => run'[b][j] = run[b][j]
    BY <1>1
  <1> QED
    BY <1>2, <1>3, <1>4 DEF All

\* What a batch must bring for all but its marks and claims to hold.
LEMMA RunIsSound ==
  ASSUME NEW s \in DOMAIN Batches, BatchIInv(s),
         NEW a \in Batches[s].admins, NEW k \in Batches[s].kinds,
         NEW r \in Runs(s), run' = [run EXCEPT ![a][k] = r],
         r.at \in {"next", "working", "answered", "broken"} => dialog'[a][k].pending,
         \A b \in Batches[s].admins, j \in Batches[s].kinds :
           b # a \/ j # k => dialog'[b][j].pending = dialog[b][j].pending,
         r.at = "working" => /\ r.todo # {}
                             /\ Batch(s)!Current(a, k)' \in Batch(s)!Listed(r),
         \A o \in Batch(s)!Range(r.outcome) :
           o.status # "failed" => Batches[s].years[o.draw] = r.year
  PROVE  OneBatchEach(s)' /\ WorkIsListed(s)' /\ Batch(s)!NeverAnotherYear'
  <1>1. /\ run'[a][k] = r
        /\ \A b \in Batches[s].admins, j \in Batches[s].kinds :
             b # a \/ j # k => run'[b][j] = run[b][j]
    BY RunChanges DEF BatchIInv
  <1>2. OneBatchEach(s)'
    BY <1>1 DEF BatchIInv, OneBatchEach
  <1>3. WorkIsListed(s)'
    <2> SUFFICES ASSUME NEW b \in Batches[s].admins, NEW j \in Batches[s].kinds,
                        run'[b][j].at = "working"
                 PROVE  /\ run'[b][j].todo # {}
                        /\ Batch(s)!Current(b, j)' \in Batch(s)!Listed(run'[b][j])
      BY DEF WorkIsListed, Batch!Listed
    <2>1. CASE b = a /\ j = k
      BY <1>1, <2>1
    <2>2. CASE b # a \/ j # k
      <3>1. Batch(s)!Current(b, j)' = Batch(s)!Current(b, j)
        BY <1>1, <2>2 DEF Batch!Current
      <3> QED
        BY <1>1, <2>2, <3>1 DEF BatchIInv, WorkIsListed
    <2> QED
      BY <2>1, <2>2
  <1>4. Batch(s)!NeverAnotherYear'
    <2> SUFFICES ASSUME NEW b \in Batches[s].admins, NEW j \in Batches[s].kinds,
                        NEW o \in Batch(s)!Range(run'[b][j].outcome), o.status # "failed"
                 PROVE  Batches[s].years[o.draw] = run'[b][j].year
      BY DEF Batch!NeverAnotherYear, Batch!Range
    <2>1. CASE b = a /\ j = k
      BY <1>1, <2>1
    <2>2. CASE b # a \/ j # k
      BY <1>1, <2>2 DEF BatchIInv, Batch!NeverAnotherYear
    <2> QED
      BY <2>1, <2>2
  <1> QED
    BY <1>2, <1>3, <1>4

\* A batch that was not working had no mark.
LEMMA MarksStay ==
  ASSUME NEW s \in DOMAIN Batches, BatchIInv(s),
         NEW a \in Batches[s].admins, NEW k \in Batches[s].kinds, run[a][k].at # "working",
         \A b \in Batches[s].admins, j \in Batches[s].kinds :
           b # a \/ j # k => run'[b][j] = run[b][j],
         inFlight' = inFlight
  PROVE  Batch(s)!MarksAreLive'
  <1> SUFFICES ASSUME NEW p \in Batches[s].processes, NEW j \in Batches[s].kinds,
                      NEW d \in inFlight[p][j]
               PROVE  \E b \in Batches[s].admins :
                        /\ Batches[s].servedBy[b] = p /\ run'[b][j].at = "working"
                        /\ Batch(s)!Current(b, j)' = d
    BY DEF Batch!MarksAreLive
  <1>1. PICK b \in Batches[s].admins : /\ Batches[s].servedBy[b] = p /\ run[b][j].at = "working"
                                       /\ Batch(s)!Current(b, j) = d
    BY DEF BatchIInv, Batch!MarksAreLive
  <1>2. run'[b][j] = run[b][j]
    BY <1>1
  <1>3. Batch(s)!Current(b, j)' = Batch(s)!Current(b, j)
    BY <1>2 DEF Batch!Current
  <1> QED
    BY <1>1, <1>2, <1>3

\* A batch that ends its turn takes back its own mark.
LEMMA MarkIsReleased ==
  ASSUME NEW s \in DOMAIN Batches, BatchIInv(s),
         NEW a \in Batches[s].admins, NEW k \in Batches[s].kinds, Batch(s)!Release(a, k),
         \A b \in Batches[s].admins, j \in Batches[s].kinds :
           b # a \/ j # k => run'[b][j] = run[b][j]
  PROVE  Batch(s)!MarksAreLive'
  <1>1. /\ inFlight \in [Batches[s].processes -> [Batches[s].kinds -> SUBSET Batch(s)!AllDraws]]
        /\ inFlight' = [inFlight EXCEPT ![Batches[s].servedBy[a]][k] = @ \ {Batch(s)!Current(a, k)}]
    BY DEF BatchIInv, BatchTables, Batch!Release
  <1> SUFFICES ASSUME NEW p \in Batches[s].processes, NEW j \in Batches[s].kinds,
                      NEW d \in inFlight'[p][j]
               PROVE  \E b \in Batches[s].admins :
                        /\ Batches[s].servedBy[b] = p /\ run'[b][j].at = "working"
                        /\ Batch(s)!Current(b, j)' = d
    BY DEF Batch!MarksAreLive
  <1>2. d \in inFlight[p][j] /\ (p = Batches[s].servedBy[a] /\ j = k => d # Batch(s)!Current(a, k))
    BY <1>1
  <1>3. PICK b \in Batches[s].admins : /\ Batches[s].servedBy[b] = p /\ run[b][j].at = "working"
                                       /\ Batch(s)!Current(b, j) = d
    BY <1>2 DEF BatchIInv, Batch!MarksAreLive
  <1>4. b # a \/ j # k
    BY <1>2, <1>3
  <1>5. run'[b][j] = run[b][j]
    BY <1>4
  <1>6. Batch(s)!Current(b, j)' = Batch(s)!Current(b, j)
    BY <1>5 DEF Batch!Current
  <1> QED
    BY <1>3, <1>5, <1>6

LEMMA ConfirmIsSound ==
  ASSUME PagesAssumption, NEW s \in DOMAIN Batches, BatchIInv(s),
         NEW a \in Batches[s].admins, NEW k \in Batches[s].kinds, Batch(s)!Confirm(a, k)
  PROVE  BatchIInv(s)'
  <1> DEFINE d == dialog[a][k]
             waits == [d EXCEPT !.pending = TRUE]
             r == [at |-> "next", year |-> year[a], from |-> d.shown.opening, outcome |-> <<>>,
                   todo |-> {i \in DOMAIN Batches[s].draws : Batches[s].draws[i] \in d.shown.ready}]
  <1>1. /\ ~ d.pending /\ d.shown # Nothing
        /\ Batch(s)!Show(a, k, waits) /\ run' = [run EXCEPT ![a][k] = r]
        /\ UNCHANGED <<stage, inFlight, year, previews, audit, openings, faults>>
    BY DEF Batch!Confirm
  <1>2. BatchTables(s) /\ d \in Dialogs(s)
    BY DialogIsRecord DEF BatchIInv
  <1>3. waits \in Dialogs(s) /\ waits.pending
    BY <1>2, DialogUpdates
  <1>4. r \in Runs(s) /\ r.at = "next" /\ r.outcome = <<>>
    <2>1. d.shown.opening \in Nat
      BY <1>1, <1>2 DEF Dialogs, DialogOf, Inquiries
    <2>2. year[a] \in Batch(s)!Years /\ <<>> \in Reports(s)
      BY <1>2 DEF BatchTables, Reports
    <2> HIDE DEF d
    <2> QED
      BY <2>1, <2>2 DEF Runs
  <1>5. run[a][k].at \notin {"next", "working", "answered", "broken"}
    BY <1>1 DEF BatchIInv, OneBatchEach
  <1> HIDE DEF d, waits, r
  <1>6. BatchTables(s)'
    BY <1>1, <1>2, <1>3, <1>4, ShowIsTyped, RunChanges DEF BatchTables
  <1>7. \A o : o \notin Batch(s)!Range(r.outcome)
    BY <1>4 DEF Batch!Range
  <1>8. OneBatchEach(s)' /\ WorkIsListed(s)' /\ Batch(s)!NeverAnotherYear'
    <2>1. /\ dialog'[a][k].pending
          /\ \A b \in Batches[s].admins, j \in Batches[s].kinds :
               b # a \/ j # k => dialog'[b][j].pending = dialog[b][j].pending
      BY <1>1, <1>2, <1>3, ShowIsTyped
    <2>2. run' = [run EXCEPT ![a][k] = r] /\ r.at # "working"
      BY <1>1, <1>4
    <2> QED
      BY <1>4, <1>7, <2>1, <2>2, RunIsSound
  <1>9. Batch(s)!MarksAreLive'
    BY <1>1, <1>2, <1>4, <1>5, RunChanges, MarksStay
  <1>10. ClaimsAreTrue(s)'
    <2>1. /\ run'[a][k] = r
          /\ \A b \in Batches[s].admins, j \in Batches[s].kinds :
               b # a \/ j # k => run'[b][j] = run[b][j]
      BY <1>1, <1>2, <1>4, RunChanges
    <2>2. ASSUME NEW j \in Batches[s].kinds, NEW e \in Batch(s)!AllDraws
          PROVE  Batch(s)!Claims(j, e)' \subseteq Batch(s)!Claims(j, e)
      BY <1>1, <1>7, <2>1 DEF Batch!Claims
    <2>3. ASSUME NEW j \in Batches[s].kinds, NEW e \in Batch(s)!AllDraws
          PROVE  Batch(s)!Done(j, e)' <=> Batch(s)!Done(j, e)
      BY <1>1 DEF Batch!Done
    <2> QED
      BY <2>2, <2>3, FewerClaims DEF BatchIInv
  <1> QED
    BY <1>6, <1>8, <1>9, <1>10 DEF BatchIInv

LEMMA OutcomeIsReceived ==
  ASSUME PagesAssumption, NEW s \in DOMAIN Batches, BatchIInv(s),
         NEW a \in Batches[s].admins, NEW k \in Batches[s].kinds, Batch(s)!ReceiveOutcome(a, k)
  PROVE  BatchIInv(s)'
  <1> DEFINE d == dialog[a][k]
             o == run[a][k].outcome
             answered == [d EXCEPT !.result = o, !.phase = "results", !.pending = FALSE]
             stops == [d EXCEPT !.pending = FALSE]
             says == IF run[a][k].at = "answered" THEN answered ELSE stops
             r == [run[a][k] EXCEPT !.at = "over"]
  <1>1. /\ run[a][k].at # "working"
        /\ Batch(s)!Show(a, k, says) /\ run' = [run EXCEPT ![a][k].at = "over"]
        /\ UNCHANGED <<stage, inFlight, year, previews, audit, openings, faults>>
    BY DEF Batch!ReceiveOutcome
  <1>2. BatchTables(s) /\ d \in Dialogs(s) /\ run[a][k] \in Runs(s)
    BY DialogIsRecord DEF BatchIInv, BatchTables
  <1>3. o \in Reports(s)
    BY <1>2 DEF Runs
  <1>4. says \in Dialogs(s)
    BY <1>2, <1>3, DialogUpdates
  <1>5. r \in Runs(s) /\ r.at = "over" /\ r.outcome = o /\ r.year = run[a][k].year
    BY <1>2 DEF Runs
  <1>6. run' = [run EXCEPT ![a][k] = r]
    BY <1>1
  <1> HIDE DEF d, says, r
  <1>7. BatchTables(s)'
    <2>1. dialog' \in [Batches[s].admins -> [Batches[s].kinds -> Dialogs(s)]]
      BY <1>1, <1>2, <1>4, ShowIsTyped
    <2>2. run' \in [Batches[s].admins -> [Batches[s].kinds -> Runs(s)]]
      BY <1>2, <1>5, <1>6, RunChanges
    <2> QED
      BY <1>1, <1>2, <2>1, <2>2 DEF BatchTables
  <1>8. OneBatchEach(s)' /\ WorkIsListed(s)' /\ Batch(s)!NeverAnotherYear'
    <2>1. \A x \in Batch(s)!Range(r.outcome) :
            x.status # "failed" => Batches[s].years[x.draw] = r.year
      BY <1>5 DEF BatchIInv, Batch!NeverAnotherYear
    <2>2. \A b \in Batches[s].admins, j \in Batches[s].kinds :
            b # a \/ j # k => dialog'[b][j].pending = dialog[b][j].pending
      BY <1>1, <1>2, <1>4, ShowIsTyped
    <2>3. r.at \notin {"next", "working", "answered", "broken"}
      BY <1>5
    <2> QED
      BY <1>5, <1>6, <2>1, <2>2, <2>3, RunIsSound
  <1>9. Batch(s)!MarksAreLive'
    BY <1>1, <1>2, <1>5, <1>6, RunChanges, MarksStay
  <1>10. ClaimsAreTrue(s)'
    <2>1. /\ run'[a][k] = r
          /\ \A b \in Batches[s].admins, j \in Batches[s].kinds :
               b # a \/ j # k => run'[b][j] = run[b][j]
      BY <1>2, <1>5, <1>6, RunChanges
    <2>3. \A j \in Batches[s].kinds, e \in Batch(s)!AllDraws :
            Batch(s)!Done(j, e) => Batch(s)!Done(j, e)'
      BY <1>1 DEF Batch!Done
    <2> QED
      BY <1>1, <1>2, <1>5, <1>7, <2>1, <2>3, RunClaimsNoMore DEF BatchIInv
  <1> QED
    BY <1>7, <1>8, <1>9, <1>10 DEF BatchIInv

------------------------------------------------------------------------------
(* The loop on the server. *)

\* A turn that ends, with whatever outcome, leaves all but marks and claims in order.
LEMMA TurnEnds ==
  ASSUME PagesAssumption, NEW s \in DOMAIN Batches, BatchIInv(s),
         NEW a \in Batches[s].admins, NEW k \in Batches[s].kinds,
         run[a][k].at \in {"next", "working"}, run[a][k].todo # {},
         NEW status \in {"failed", "skipped", "completed"},
         Batch(s)!Record(a, k, Batch(s)!Current(a, k), status),
         status # "failed" => Batch(s)!Current(a, k) \in Batch(s)!Listed(run[a][k]),
         dialog' = dialog
  PROVE  /\ run' \in [Batches[s].admins -> [Batches[s].kinds -> Runs(s)]]
         /\ run'[a][k].at = "next"
         /\ \A x : x \in Batch(s)!Range(run'[a][k].outcome) <=>
                   \/ x \in Batch(s)!Range(run[a][k].outcome)
                   \/ x = [draw |-> Batch(s)!Current(a, k), status |-> status]
         /\ \A b \in Batches[s].admins, j \in Batches[s].kinds :
              b # a \/ j # k => run'[b][j] = run[b][j]
         /\ OneBatchEach(s)' /\ WorkIsListed(s)' /\ Batch(s)!NeverAnotherYear'
  <1> DEFINE d == Batch(s)!Current(a, k)
             entry == [draw |-> d, status |-> status]
             r == [at |-> "next", year |-> run[a][k].year, from |-> run[a][k].from,
                   todo |-> run[a][k].todo \ {Batch(s)!Min(run[a][k].todo)},
                   outcome |-> Append(run[a][k].outcome, entry)]
  <1>1. BatchTables(s) /\ run[a][k] \in Runs(s)
    BY DEF BatchIInv, BatchTables
  <1>2. run' = [run EXCEPT ![a][k] = r]
    BY DEF Batch!Record
  <1>3. d \in Batch(s)!AllDraws
    BY <1>1, CurrentIsADraw
  <1> HIDE DEF d
  <1>4. entry \in [draw : Batch(s)!AllDraws, status : {"failed", "skipped", "completed"}]
    BY <1>3
  <1> HIDE DEF entry
  <1>5. /\ Append(run[a][k].outcome, entry) \in Reports(s)
        /\ \A x : x \in Batch(s)!Range(Append(run[a][k].outcome, entry)) <=>
                  x \in Batch(s)!Range(run[a][k].outcome) \/ x = entry
    <2> DEFINE Entry == [draw : Batch(s)!AllDraws, status : {"failed", "skipped", "completed"}]
    <2>1. run[a][k].outcome \in Seq(Entry) /\ Reports(s) = Seq(Entry)
      BY <1>1 DEF Runs, Reports
    <2>2. entry \in Entry
      BY <1>4
    <2> HIDE DEF Entry
    <2> QED
      BY <2>1, <2>2, OneMoreReport
  <1>6. r \in Runs(s)
    BY <1>1, <1>5 DEF Runs
  <1>7. /\ r.at = "next" /\ r.year = run[a][k].year
        /\ r.outcome = Append(run[a][k].outcome, entry)
    OBVIOUS
  <1> HIDE DEF r
  <1>8. ASSUME NEW o \in Batch(s)!Range(r.outcome), o.status # "failed"
        PROVE  Batches[s].years[o.draw] = r.year
    <2>1. CASE o \in Batch(s)!Range(run[a][k].outcome)
      BY <1>7, <1>8, <2>1 DEF BatchIInv, Batch!NeverAnotherYear
    <2>2. CASE o = entry
      <3>1. status # "failed" /\ o.draw = d
        BY <1>8, <2>2 DEF entry
      <3>2. d \in Batch(s)!Listed(run[a][k])
        BY <3>1 DEF d
      <3> QED
        BY <1>7, <3>1, <3>2 DEF Batch!Listed, Batch!DrawsOf
    <2> QED
      BY <1>5, <1>7, <1>8, <2>1, <2>2
  <1>9. dialog'[a][k].pending
    BY DEF BatchIInv, OneBatchEach
  <1>10. OneBatchEach(s)' /\ WorkIsListed(s)' /\ Batch(s)!NeverAnotherYear'
    BY <1>2, <1>6, <1>7, <1>8, <1>9, RunIsSound
  <1> QED
    BY <1>1, <1>2, <1>5, <1>6, <1>7, <1>10, RunChanges DEF entry, d

\* A turn that ends without having taken the draw on.
LEMMA RefusalIsSound ==
  ASSUME PagesAssumption, NEW s \in DOMAIN Batches, BatchIInv(s),
         NEW a \in Batches[s].admins, NEW k \in Batches[s].kinds,
         run[a][k].at \in {"next", "working"}, run[a][k].todo # {},
         NEW status \in {"failed", "skipped"},
         Batch(s)!Record(a, k, Batch(s)!Current(a, k), status),
         status # "failed" => Batch(s)!Current(a, k) \in Batch(s)!Listed(run[a][k]),
         (run[a][k].at # "working" /\ inFlight' = inFlight) \/ Batch(s)!Release(a, k),
         UNCHANGED <<stage, year, dialog, previews, audit, openings>>, faults' \in Nat
  PROVE  BatchIInv(s)'
  <1>1. /\ run' \in [Batches[s].admins -> [Batches[s].kinds -> Runs(s)]]
        /\ run'[a][k].at = "next"
        /\ \A x : x \in Batch(s)!Range(run'[a][k].outcome) <=>
                  \/ x \in Batch(s)!Range(run[a][k].outcome)
                  \/ x = [draw |-> Batch(s)!Current(a, k), status |-> status]
        /\ \A b \in Batches[s].admins, j \in Batches[s].kinds :
             b # a \/ j # k => run'[b][j] = run[b][j]
        /\ OneBatchEach(s)' /\ WorkIsListed(s)' /\ Batch(s)!NeverAnotherYear'
    <2>1. status \in {"failed", "skipped", "completed"} /\ dialog' = dialog
      OBVIOUS
    <2> QED
      <3>1. CASE status = "failed"
        BY <2>1, <3>1, TurnEnds
      <3>2. CASE status = "skipped"
        BY <2>1, <3>2, TurnEnds
      <3> QED
        BY <3>1, <3>2
  <1>2. Batch(s)!MarksAreLive'
    BY <1>1, MarksStay, MarkIsReleased
  <1>3. inFlight' \in [Batches[s].processes -> [Batches[s].kinds -> SUBSET Batch(s)!AllDraws]]
    <2> DEFINE Marks == SUBSET Batch(s)!AllDraws
               p == Batches[s].servedBy[a]
    <2>1. inFlight \in [Batches[s].processes -> [Batches[s].kinds -> Marks]]
      BY DEF BatchIInv, BatchTables
    <2>2. inFlight' = inFlight \/ inFlight' = [inFlight EXCEPT ![p][k] = @ \ {Batch(s)!Current(a, k)}]
      BY DEF Batch!Release
    <2>3. \A old \in Marks : old \ {Batch(s)!Current(a, k)} \in Marks
      OBVIOUS
    <2> HIDE DEF Marks, p
    <2>4. inFlight' \in [Batches[s].processes -> [Batches[s].kinds -> Marks]]
      BY <2>1, <2>2, <2>3
    <2> QED
      BY <2>4 DEF Marks
  <1>4. BatchTables(s)'
    BY <1>1, <1>3 DEF BatchIInv, BatchTables
  <1>5. \A d : [draw |-> d, status |-> "completed"]
                 # [draw |-> Batch(s)!Current(a, k), status |-> status]
    BY Zenon
  <1>6. \A j \in Batches[s].kinds, e \in Batch(s)!AllDraws :
          Batch(s)!Done(j, e) => Batch(s)!Done(j, e)'
    BY DEF Batch!Done
  <1>7. ClaimsAreTrue(s)'
    BY <1>1, <1>4, <1>5, <1>6, RunClaimsNoMore DEF BatchIInv
  <1> QED
    BY <1>1, <1>2, <1>4, <1>7 DEF BatchIInv

LEMMA RefusalsAreSound ==
  ASSUME PagesAssumption, NEW s \in DOMAIN Batches, BatchIInv(s),
         NEW a \in Batches[s].admins, NEW k \in Batches[s].kinds,
         \/ Batch(s)!RefuseUnlisted(a, k) \/ Batch(s)!SkipInFlight(a, k)
         \/ Batch(s)!FindDone(a, k) \/ Batch(s)!Fail(a, k) \/ Batch(s)!Break(a, k)
  PROVE  BatchIInv(s)'
  <1> DEFINE d == Batch(s)!Current(a, k)
  <1>1. run[a][k].at = "working" => run[a][k].todo # {} /\ d \in Batch(s)!Listed(run[a][k])
    BY DEF BatchIInv, WorkIsListed
  <1>2. openings \in Nat /\ faults \in Nat
    BY DEF BatchIInv, BatchTables
  <1>3. CASE Batch(s)!RefuseUnlisted(a, k)
    <2>1. /\ run[a][k].at = "next" /\ run[a][k].todo # {} /\ Batch(s)!Record(a, k, d, "failed")
          /\ UNCHANGED <<stage, inFlight, year, dialog, previews, audit, openings, faults>>
      BY <1>3 DEF Batch!RefuseUnlisted, Batch!HasNext, Batch!client
    <2> QED
      BY <1>2, <2>1, RefusalIsSound
  <1>4. CASE Batch(s)!SkipInFlight(a, k)
    <2>1. /\ run[a][k].at = "next" /\ run[a][k].todo # {} /\ Batch(s)!Record(a, k, d, "skipped")
          /\ d \in Batch(s)!Listed(run[a][k])
          /\ UNCHANGED <<stage, inFlight, year, dialog, previews, audit, openings, faults>>
      BY <1>4 DEF Batch!SkipInFlight, Batch!HasNext, Batch!client
    <2> QED
      BY <1>2, <2>1, RefusalIsSound
  <1>5. CASE Batch(s)!FindDone(a, k)
    <2>1. /\ run[a][k].at = "working" /\ Batch(s)!Record(a, k, d, "skipped")
          /\ Batch(s)!Release(a, k)
          /\ UNCHANGED <<stage, year, dialog, previews, audit, openings, faults>>
      BY <1>5 DEF Batch!FindDone, Batch!client
    <2> QED
      BY <1>1, <1>2, <2>1, RefusalIsSound
  <1>6. CASE Batch(s)!Fail(a, k)
    <2>1. /\ run[a][k].at = "working" /\ Batch(s)!Record(a, k, d, "failed")
          /\ Batch(s)!Release(a, k)
          /\ UNCHANGED <<stage, year, dialog, previews, audit, openings, faults>>
      BY <1>6 DEF Batch!Fail, Batch!client
    <2> QED
      BY <1>1, <1>2, <2>1, RefusalIsSound
  <1>7. CASE Batch(s)!Break(a, k)
    <2>1. /\ run[a][k].at = "working" /\ Batch(s)!Record(a, k, d, "failed")
          /\ Batch(s)!Release(a, k) /\ faults' = faults + 1
          /\ UNCHANGED <<stage, year, dialog, previews, audit, openings>>
      BY <1>7 DEF Batch!Break, Batch!client
    <2> QED
      BY <1>1, <1>2, <2>1, RefusalIsSound
  <1> QED
    BY <1>3, <1>4, <1>5, <1>6, <1>7

LEMMA StartIsSound ==
  ASSUME PagesAssumption, NEW s \in DOMAIN Batches, BatchIInv(s),
         NEW a \in Batches[s].admins, NEW k \in Batches[s].kinds, Batch(s)!Start(a, k)
  PROVE  BatchIInv(s)'
  <1> DEFINE d == Batch(s)!Current(a, k)
             r == [run[a][k] EXCEPT !.at = "working"]
             p == Batches[s].servedBy[a]
             Marks == SUBSET Batch(s)!AllDraws
  <1>1. /\ run[a][k].at = "next" /\ run[a][k].todo # {} /\ d \in Batch(s)!Listed(run[a][k])
        /\ inFlight' = [inFlight EXCEPT ![p][k] = @ \cup {d}]
        /\ run' = [run EXCEPT ![a][k] = r]
        /\ UNCHANGED <<stage, year, dialog, previews, audit, openings, faults>>
    BY DEF Batch!Start, Batch!HasNext, Batch!client
  <1>2. BatchTables(s) /\ run[a][k] \in Runs(s)
    BY DEF BatchIInv, BatchTables
  <1>3. d \in Batch(s)!AllDraws
    BY <1>1, <1>2, CurrentIsADraw
  <1>4. r \in Runs(s) /\ r.at = "working" /\ r.outcome = run[a][k].outcome
        /\ r.year = run[a][k].year /\ r.todo = run[a][k].todo
    BY <1>2 DEF Runs
  <1> HIDE DEF r
  <1>5. /\ run' \in [Batches[s].admins -> [Batches[s].kinds -> Runs(s)]]
        /\ run'[a][k] = r
        /\ \A b \in Batches[s].admins, j \in Batches[s].kinds :
             b # a \/ j # k => run'[b][j] = run[b][j]
    BY <1>1, <1>2, <1>4, RunChanges
  <1>6. \A b \in Batches[s].admins, j \in Batches[s].kinds :
          Batch(s)!Current(b, j)' = Batch(s)!Current(b, j)
    BY <1>4, <1>5 DEF Batch!Current
  <1>7. inFlight \in [Batches[s].processes -> [Batches[s].kinds -> Marks]]
    BY <1>2 DEF BatchTables
  <1>8. \A old \in Marks : old \cup {d} \in Marks
    BY <1>3
  <1> HIDE DEF Marks, p, d
  <1>9. /\ inFlight' \in [Batches[s].processes -> [Batches[s].kinds -> Marks]]
        /\ \A q \in Batches[s].processes, j \in Batches[s].kinds :
             \A e \in inFlight'[q][j] : e \in inFlight[q][j] \/ (q = p /\ j = k /\ e = d)
    BY <1>1, <1>7, <1>8
  <1>10. BatchTables(s)'
    BY <1>1, <1>2, <1>5, <1>9 DEF BatchTables, Marks
  <1>11. OneBatchEach(s)' /\ WorkIsListed(s)' /\ Batch(s)!NeverAnotherYear'
    <2>1. dialog'[a][k].pending
      BY <1>1 DEF BatchIInv, OneBatchEach
    <2>2. r.todo # {} /\ Batch(s)!Current(a, k)' \in Batch(s)!Listed(r)
      BY <1>1, <1>4, <1>6 DEF d, Batch!Listed
    <2>3. \A o \in Batch(s)!Range(r.outcome) :
            o.status # "failed" => Batches[s].years[o.draw] = r.year
      BY <1>4 DEF BatchIInv, Batch!NeverAnotherYear
    <2> QED
      BY <1>1, <1>4, <2>1, <2>2, <2>3, RunIsSound
  <1>12. Batch(s)!MarksAreLive'
    <2> SUFFICES ASSUME NEW q \in Batches[s].processes, NEW j \in Batches[s].kinds,
                        NEW e \in inFlight'[q][j]
                 PROVE  \E b \in Batches[s].admins :
                          /\ Batches[s].servedBy[b] = q /\ run'[b][j].at = "working"
                          /\ Batch(s)!Current(b, j)' = e
      BY DEF Batch!MarksAreLive
    <2>1. CASE e \in inFlight[q][j]
      <3>1. PICK b \in Batches[s].admins : /\ Batches[s].servedBy[b] = q /\ run[b][j].at = "working"
                                           /\ Batch(s)!Current(b, j) = e
        BY <2>1 DEF BatchIInv, Batch!MarksAreLive
      <3>2. run'[b][j].at = "working"
        BY <1>4, <1>5, <3>1
      <3> QED
        BY <1>6, <3>1, <3>2
    <2>2. CASE q = p /\ j = k /\ e = d
      BY <1>4, <1>5, <1>6, <2>2 DEF p, d
    <2> QED
      BY <1>9, <2>1, <2>2
  <1>13. ClaimsAreTrue(s)'
    <2>1. \A j \in Batches[s].kinds, e \in Batch(s)!AllDraws :
            Batch(s)!Done(j, e) => Batch(s)!Done(j, e)'
      BY <1>1 DEF Batch!Done
    <2> QED
      BY <1>1, <1>2, <1>4, <1>5, <1>10, <2>1, RunClaimsNoMore DEF BatchIInv
  <1> QED
    BY <1>10, <1>11, <1>12, <1>13 DEF BatchIInv

\* A draw that was ready was not done, and is done once it was taken on.
LEMMA TakenOnIsDone ==
  ASSUME NEW s \in DOMAIN Batches, NEW k \in {"freeze", "execute"},
         NEW d \in Batch(s)!AllDraws, Batch(s)!Ready(k, d),
         stage \in [Batch(s)!AllDraws -> Batch(s)!Stages],
         stage' = [stage EXCEPT ![d] = Batch(s)!StageAfter(k)]
  PROVE  /\ ~ Batch(s)!Done(k, d) /\ Batch(s)!Done(k, d)'
         /\ \A j \in Batches[s].kinds, e \in Batch(s)!AllDraws :
              Batch(s)!Done(j, e) => Batch(s)!Done(j, e)'
         /\ stage' \in [Batch(s)!AllDraws -> Batch(s)!Stages]
  <1>1. /\ stage'[d] = Batch(s)!StageAfter(k)
        /\ \A e \in Batch(s)!AllDraws : e # d => stage'[e] = stage[e]
    OBVIOUS
  <1>2. Batch(s)!StageAfter(k) \in Batch(s)!Stages
    BY DEF Batch!StageAfter, Batch!Stages
  <1>3. stage' \in [Batch(s)!AllDraws -> Batch(s)!Stages]
    BY <1>2
  <1>4. CASE k = "freeze"
    <2>1. stage[d] = "READY" /\ stage'[d] = "LOCKED"
      BY <1>1, <1>4 DEF Batch!Ready, Batch!StageAfter
    <2>2. ~ Batch(s)!Done(k, d) /\ Batch(s)!Done(k, d)'
      BY <1>4, <2>1 DEF Batch!Done
    <2>3. ASSUME NEW j \in Batches[s].kinds, NEW e \in Batch(s)!AllDraws, Batch(s)!Done(j, e)
          PROVE  Batch(s)!Done(j, e)'
      BY <1>1, <2>1, <2>3 DEF Batch!Done
    <2> QED
      BY <1>3, <2>2, <2>3
  <1>5. CASE k = "execute"
    <2>1. stage[d] = "LOCKED" /\ stage'[d] = "COMPLETED"
      BY <1>1, <1>5 DEF Batch!Ready, Batch!StageAfter
    <2>2. ~ Batch(s)!Done(k, d) /\ Batch(s)!Done(k, d)'
      BY <1>5, <2>1 DEF Batch!Done
    <2>3. ASSUME NEW j \in Batches[s].kinds, NEW e \in Batch(s)!AllDraws, Batch(s)!Done(j, e)
          PROVE  Batch(s)!Done(j, e)'
      BY <1>1, <2>1, <2>3 DEF Batch!Done
    <2> QED
      BY <1>3, <2>2, <2>3
  <1> QED
    BY <1>4, <1>5

\* A draw that is taken on was not done, so that nobody claimed it; now it is.
LEMMA SucceedIsSound ==
  ASSUME PagesAssumption, NEW s \in DOMAIN Batches, BatchIInv(s),
         NEW a \in Batches[s].admins, NEW k \in Batches[s].kinds, Batch(s)!Succeed(a, k)
  PROVE  BatchIInv(s)'
  <1> DEFINE p == Batches[s].servedBy[a]
             Marks == SUBSET Batch(s)!AllDraws
  <1>0. PICK d \in Batch(s)!AllDraws : d = Batch(s)!Current(a, k)
    <2>1. BatchTables(s) /\ run[a][k].todo # {}
      BY DEF BatchIInv, WorkIsListed, Batch!Succeed
    <2> QED
      BY <2>1, CurrentIsADraw
  <1>1. /\ run[a][k].at = "working" /\ Batch(s)!Ready(k, d)
        /\ stage' = [stage EXCEPT ![d] = Batch(s)!StageAfter(k)]
        /\ Batch(s)!Record(a, k, d, "completed")
        /\ Batch(s)!Release(a, k)
        /\ UNCHANGED <<year, dialog, previews, audit, openings, faults>>
    BY <1>0 DEF Batch!Succeed, Batch!Claimable, Batch!client
  <1>2. run[a][k].todo # {} /\ d \in Batch(s)!Listed(run[a][k])
    BY <1>0, <1>1 DEF BatchIInv, WorkIsListed
  <1>3. BatchTables(s) /\ d \in Batch(s)!AllDraws
    BY DEF BatchIInv
  <1>4. /\ run' \in [Batches[s].admins -> [Batches[s].kinds -> Runs(s)]]
        /\ run'[a][k].at = "next"
        /\ \A x : x \in Batch(s)!Range(run'[a][k].outcome) <=>
                  \/ x \in Batch(s)!Range(run[a][k].outcome)
                  \/ x = [draw |-> d, status |-> "completed"]
        /\ \A b \in Batches[s].admins, j \in Batches[s].kinds :
             b # a \/ j # k => run'[b][j] = run[b][j]
        /\ OneBatchEach(s)' /\ WorkIsListed(s)' /\ Batch(s)!NeverAnotherYear'
    BY <1>0, <1>1, <1>2, TurnEnds
  <1>5. Batch(s)!MarksAreLive'
    BY <1>1, <1>4, MarkIsReleased
  <1>6. k \in {"freeze", "execute"}
    BY BatchConstants
  <1>7. /\ ~ Batch(s)!Done(k, d) /\ Batch(s)!Done(k, d)'
        /\ \A j \in Batches[s].kinds, e \in Batch(s)!AllDraws :
             Batch(s)!Done(j, e) => Batch(s)!Done(j, e)'
        /\ stage' \in [Batch(s)!AllDraws -> Batch(s)!Stages]
    <2>1. stage \in [Batch(s)!AllDraws -> Batch(s)!Stages]
      BY <1>3 DEF BatchTables
    <2>2. Batch(s)!Ready(k, d) /\ stage' = [stage EXCEPT ![d] = Batch(s)!StageAfter(k)]
      BY <1>1
    <2> QED
      BY <1>3, <1>6, <2>1, <2>2, TakenOnIsDone
  <1>8. inFlight' \in [Batches[s].processes -> [Batches[s].kinds -> Marks]]
    <2>1. inFlight \in [Batches[s].processes -> [Batches[s].kinds -> Marks]]
      BY <1>3 DEF BatchTables
    <2>2. inFlight' = [inFlight EXCEPT ![p][k] = @ \ {d}]
      BY <1>0, <1>1 DEF Batch!Release
    <2>3. \A old \in Marks : old \ {d} \in Marks
      OBVIOUS
    <2> HIDE DEF Marks, p
    <2> QED
      BY <2>1, <2>2, <2>3
  <1>9. BatchTables(s)'
    BY <1>1, <1>3, <1>4, <1>7, <1>8 DEF BatchTables
  <1>10. ASSUME NEW j \in Batches[s].kinds, NEW e \in Batch(s)!AllDraws, j # k \/ e # d
         PROVE  Batch(s)!Claims(j, e)' \subseteq Batch(s)!Claims(j, e)
    <2>1. [draw |-> e, status |-> "completed"] # [draw |-> d, status |-> "completed"] \/ j # k
      BY <1>10
    <2>2. ASSUME NEW b \in Batches[s].admins,
                 [draw |-> e, status |-> "completed"] \in Batch(s)!Range(run'[b][j].outcome),
                 run'[b][j].at \in {"next", "working", "broken"}
          PROVE  /\ [draw |-> e, status |-> "completed"] \in Batch(s)!Range(run[b][j].outcome)
                 /\ run[b][j].at \in {"next", "working", "broken"}
      <3>1. CASE b = a /\ j = k
        BY <1>1, <1>4, <2>1, <2>2, <3>1
      <3>2. CASE b # a \/ j # k
        BY <1>4, <2>2, <3>2
      <3> QED
        BY <3>1, <3>2
    <2> QED
      BY <1>1, <2>2 DEF Batch!Claims, Batch!Range
  <1>11. Batch(s)!Claims(k, d)' \subseteq {<<"run", a>>}
    <2>1. Batch(s)!Claims(k, d) = {}
      BY <1>3, <1>7 DEF BatchIInv, ClaimsAreTrue
    <2>2. ASSUME NEW b \in Batches[s].admins, b # a
          PROVE  ~ (/\ run'[b][k].at \in {"next", "working", "broken"}
                    /\ [draw |-> d, status |-> "completed"] \in Batch(s)!Range(run'[b][k].outcome))
      <3>1. <<"run", b>> \notin Batch(s)!Claims(k, d)
        BY <2>1
      <3> QED
        BY <1>4, <2>2, <3>1 DEF Batch!Claims
    <2>3. ASSUME NEW i \in DOMAIN audit, audit[i].kind = k
          PROVE  [draw |-> d, status |-> "completed"] \notin Batch(s)!Range(audit[i].outcome)
      <3>1. <<"row", i>> \notin Batch(s)!Claims(k, d)
        BY <2>1
      <3> QED
        BY <2>3, <3>1 DEF Batch!Claims
    <2> SUFFICES ASSUME NEW x \in Batch(s)!Claims(k, d)' PROVE x = <<"run", a>>
      OBVIOUS
    <2>4. CASE \E i \in DOMAIN audit' : x = <<"row", i>> /\ audit'[i].kind = k
                 /\ [draw |-> d, status |-> "completed"] \in Batch(s)!Range(audit'[i].outcome)
      BY <1>1, <2>3, <2>4
    <2>5. CASE \E b \in Batches[s].admins : x = <<"run", b>>
                 /\ run'[b][k].at \in {"next", "working", "broken"}
                 /\ [draw |-> d, status |-> "completed"] \in Batch(s)!Range(run'[b][k].outcome)
      BY <2>2, <2>5
    <2> QED
      BY <2>4, <2>5 DEF Batch!Claims, Batch!Range
  <1>12. ClaimsAreTrue(s)'
    <2> SUFFICES ASSUME NEW j \in Batches[s].kinds, NEW e \in Batch(s)!AllDraws
                 PROVE  /\ Batch(s)!Claims(j, e)' # {} => Batch(s)!Done(j, e)'
                        /\ \A x, y \in Batch(s)!Claims(j, e)' : x = y
      BY DEF ClaimsAreTrue
    <2>1. CASE j = k /\ e = d
      <3>1. Batch(s)!Claims(j, e)' = Batch(s)!Claims(k, d)' /\ Batch(s)!Done(j, e)' = Batch(s)!Done(k, d)'
        BY <2>1
      <3> QED
        BY <1>7, <1>11, <3>1
    <2>2. CASE j # k \/ e # d
      BY <1>7, <1>10, <2>2 DEF BatchIInv, ClaimsAreTrue
    <2> QED
      BY <2>1, <2>2
  <1> QED
    BY <1>4, <1>5, <1>9, <1>12 DEF BatchIInv

\* The row of a batch that is over claims what the batch claimed, in its stead.
LEMMA ReportIsSound ==
  ASSUME PagesAssumption, NEW s \in DOMAIN Batches, BatchIInv(s),
         NEW a \in Batches[s].admins, NEW k \in Batches[s].kinds, Batch(s)!Report(a, k)
  PROVE  BatchIInv(s)'
  <1> DEFINE r == [run[a][k] EXCEPT !.at = "answered"]
             entry == [by |-> a, kind |-> k, from |-> run[a][k].from,
                       outcome |-> run[a][k].outcome]
             n == Len(audit) + 1
  <1>1. /\ run[a][k].at = "next" /\ audit' = Append(audit, entry)
        /\ run' = [run EXCEPT ![a][k] = r]
        /\ UNCHANGED <<stage, inFlight, year, dialog, previews, openings, faults>>
    BY DEF Batch!Report, Batch!client
  <1>2. BatchTables(s) /\ run[a][k] \in Runs(s)
    BY DEF BatchIInv, BatchTables
  <1>3. /\ r \in Runs(s) /\ r.at = "answered" /\ r.outcome = run[a][k].outcome
        /\ r.year = run[a][k].year
        /\ entry \in Rows(s) /\ entry.outcome = run[a][k].outcome /\ entry.kind = k
    BY <1>2 DEF Runs, Rows
  <1> HIDE DEF r, entry
  <1>4. /\ run' \in [Batches[s].admins -> [Batches[s].kinds -> Runs(s)]]
        /\ run'[a][k] = r
        /\ \A b \in Batches[s].admins, j \in Batches[s].kinds :
             b # a \/ j # k => run'[b][j] = run[b][j]
    <2>1. BatchTables(s) /\ r \in Runs(s) /\ run' = [run EXCEPT ![a][k] = r]
      BY <1>1, <1>2, <1>3
    <2> QED
      BY <2>1, RunChanges
  <1>5. /\ audit' \in Seq(Rows(s)) /\ DOMAIN audit' = DOMAIN audit \cup {n} /\ n \notin DOMAIN audit
        /\ audit'[n] = entry /\ \A i \in DOMAIN audit : audit'[i] = audit[i]
    <2> DEFINE R == Rows(s)
    <2>1. audit \in Seq(R) /\ entry \in R
      BY <1>2, <1>3 DEF BatchTables
    <2> HIDE DEF R
    <2>2. audit' \in Seq(R) /\ DOMAIN audit' = 1 .. n /\ DOMAIN audit = 1 .. Len(audit)
          /\ Len(audit) \in Nat
      BY <1>1, <2>1
    <2>3. audit'[n] = entry /\ \A i \in 1 .. Len(audit) : audit'[i] = audit[i]
      BY <1>1, <2>1
    <2> QED
      BY <2>2, <2>3 DEF R
  <1> HIDE DEF n
  <1>6. BatchTables(s)'
    BY <1>1, <1>2, <1>4, <1>5 DEF BatchTables
  <1>7. OneBatchEach(s)' /\ WorkIsListed(s)' /\ Batch(s)!NeverAnotherYear'
    <2>1. dialog'[a][k].pending
      BY <1>1 DEF BatchIInv, OneBatchEach
    <2>2. \A o \in Batch(s)!Range(r.outcome) :
            o.status # "failed" => Batches[s].years[o.draw] = r.year
      BY <1>3 DEF BatchIInv, Batch!NeverAnotherYear
    <2> QED
      BY <1>1, <1>3, <2>1, <2>2, RunIsSound
  <1>8. Batch(s)!MarksAreLive'
    BY <1>1, <1>4, MarksStay
  <1>9. ASSUME NEW j \in Batches[s].kinds, NEW e \in Batch(s)!AllDraws,
               NEW x \in Batch(s)!Claims(j, e)'
        PROVE  \/ x \in Batch(s)!Claims(j, e) /\ (j = k => x # <<"run", a>>)
               \/ x = <<"row", n>> /\ j = k /\ <<"run", a>> \in Batch(s)!Claims(j, e)
    <2>1. CASE \E i \in DOMAIN audit' : x = <<"row", i>> /\ audit'[i].kind = j
                 /\ [draw |-> e, status |-> "completed"] \in Batch(s)!Range(audit'[i].outcome)
      <3>1. PICK i \in DOMAIN audit' : x = <<"row", i>> /\ audit'[i].kind = j
                 /\ [draw |-> e, status |-> "completed"] \in Batch(s)!Range(audit'[i].outcome)
        BY <2>1
      <3>2. CASE i = n
        <4>1. j = k /\ [draw |-> e, status |-> "completed"] \in Batch(s)!Range(run[a][j].outcome)
          BY <1>3, <1>5, <3>1, <3>2
        <4>2. <<"run", a>> \in Batch(s)!Claims(j, e)
          BY <1>1, <4>1 DEF Batch!Claims
        <4> QED
          BY <3>1, <3>2, <4>1, <4>2
      <3>3. CASE i \in DOMAIN audit
        <4>1. audit'[i] = audit[i]
          BY <1>5, <3>3
        <4>2. x \in Batch(s)!Claims(j, e)
          BY <3>1, <3>3, <4>1 DEF Batch!Claims
        <4> QED
          BY <3>1, <4>2
      <3> QED
        BY <1>5, <3>1, <3>2, <3>3
    <2>2. CASE \E b \in Batches[s].admins : x = <<"run", b>>
                 /\ run'[b][j].at \in {"next", "working", "broken"}
                 /\ [draw |-> e, status |-> "completed"] \in Batch(s)!Range(run'[b][j].outcome)
      <3>1. PICK b \in Batches[s].admins : x = <<"run", b>>
                 /\ run'[b][j].at \in {"next", "working", "broken"}
                 /\ [draw |-> e, status |-> "completed"] \in Batch(s)!Range(run'[b][j].outcome)
        BY <2>2
      <3>2. b # a \/ j # k
        BY <1>3, <1>4, <3>1
      <3>3. run'[b][j] = run[b][j]
        BY <1>4, <3>2
      <3>4. x \in Batch(s)!Claims(j, e)
        BY <3>1, <3>3 DEF Batch!Claims
      <3> QED
        BY <3>1, <3>2, <3>4
    <2> QED
      BY <2>1, <2>2 DEF Batch!Claims, Batch!Range
  <1>10. ClaimsAreTrue(s)'
    <2> SUFFICES ASSUME NEW j \in Batches[s].kinds, NEW e \in Batch(s)!AllDraws
                 PROVE  /\ Batch(s)!Claims(j, e)' # {} => Batch(s)!Done(j, e)'
                        /\ \A x, y \in Batch(s)!Claims(j, e)' : x = y
      BY DEF ClaimsAreTrue
    <2>1. /\ Batch(s)!Claims(j, e) # {} => Batch(s)!Done(j, e)
          /\ \A x, y \in Batch(s)!Claims(j, e) : x = y
      BY DEF BatchIInv, ClaimsAreTrue
    <2>2. Batch(s)!Done(j, e)' <=> Batch(s)!Done(j, e)
      BY <1>1 DEF Batch!Done
    <2>3. Batch(s)!Claims(j, e)' # {} => Batch(s)!Claims(j, e) # {}
      BY <1>9
    <2>4. ASSUME NEW x \in Batch(s)!Claims(j, e)', NEW y \in Batch(s)!Claims(j, e)'
          PROVE  x = y
      BY <1>9, <2>1
    <2> QED
      BY <2>1, <2>2, <2>3, <2>4
  <1> QED
    BY <1>6, <1>7, <1>8, <1>10 DEF BatchIInv

\* A crash ends the batches of its process with the marks they had set, and no others.
LEMMA CrashIsSound ==
  ASSUME PagesAssumption, NEW s \in DOMAIN Batches, BatchIInv(s),
         NEW p \in Batches[s].processes, Batch(s)!Crash(p)
  PROVE  BatchIInv(s)'
  <1> DEFINE Hit(b, j) == Batches[s].servedBy[b] = p /\ run[b][j].at \in {"next", "working"}
             ended(b, j) == [run[b][j] EXCEPT !.at = "broken", !.todo = {}]
             All == Runs(s)
             Marks == SUBSET Batch(s)!AllDraws
  <1>1. /\ inFlight' = [inFlight EXCEPT ![p] = [k \in Batches[s].kinds |-> {}]]
        /\ run' = [a \in Batches[s].admins |-> [k \in Batches[s].kinds |->
                      IF Hit(a, k) THEN ended(a, k) ELSE run[a][k]]]
        /\ faults' = faults + 1
        /\ UNCHANGED <<stage, year, dialog, previews, audit, openings>>
    BY Zenon DEF Batch!Crash, Batch!client
  <1>2. BatchTables(s)
    BY DEF BatchIInv
  <1>3. ASSUME NEW b \in Batches[s].admins, NEW j \in Batches[s].kinds
        PROVE  /\ ended(b, j) \in All /\ ended(b, j).at = "broken"
               /\ ended(b, j).outcome = run[b][j].outcome /\ ended(b, j).year = run[b][j].year
               /\ run[b][j] \in All
    <2>1. run[b][j] \in Runs(s)
      BY <1>2 DEF BatchTables
    <2> QED
      BY <2>1 DEF Runs
  <1> HIDE DEF ended, All
  <1>4. \A b \in Batches[s].admins, j \in Batches[s].kinds :
          run'[b][j] = IF Hit(b, j) THEN ended(b, j) ELSE run[b][j]
    BY <1>1
  <1>5. run' \in [Batches[s].admins -> [Batches[s].kinds -> All]]
    BY <1>1, <1>3
  <1>6. /\ inFlight' \in [Batches[s].processes -> [Batches[s].kinds -> Marks]]
        /\ \A q \in Batches[s].processes, j \in Batches[s].kinds :
             inFlight'[q][j] = IF q = p THEN {} ELSE inFlight[q][j]
    <2>1. inFlight \in [Batches[s].processes -> [Batches[s].kinds -> Marks]] /\ {} \in Marks
      BY <1>2 DEF BatchTables
    <2> HIDE DEF Marks
    <2> QED
      BY <1>1, <2>1
  <1>7. BatchTables(s)'
    BY <1>1, <1>2, <1>5, <1>6 DEF BatchTables, All
  <1>8. OneBatchEach(s)'
    <2> SUFFICES ASSUME NEW b \in Batches[s].admins, NEW j \in Batches[s].kinds,
                        run'[b][j].at \in {"next", "working", "answered", "broken"}
                 PROVE  dialog'[b][j].pending
      BY DEF OneBatchEach
    <2>1. run[b][j].at \in {"next", "working", "answered", "broken"}
      BY <1>4
    <2> QED
      BY <1>1, <2>1 DEF BatchIInv, OneBatchEach
  <1>9. ASSUME NEW b \in Batches[s].admins, NEW j \in Batches[s].kinds, run'[b][j].at = "working"
        PROVE  run'[b][j] = run[b][j] /\ Batch(s)!Current(b, j)' = Batch(s)!Current(b, j)
    <2>1. run'[b][j] = run[b][j]
      BY <1>3, <1>4, <1>9
    <2> QED
      BY <2>1 DEF Batch!Current
  <1>10. WorkIsListed(s)'
    <2> SUFFICES ASSUME NEW b \in Batches[s].admins, NEW j \in Batches[s].kinds,
                        run'[b][j].at = "working"
                 PROVE  /\ run'[b][j].todo # {}
                        /\ Batch(s)!Current(b, j)' \in Batch(s)!Listed(run'[b][j])
      BY DEF WorkIsListed, Batch!Listed
    <2> QED
      BY <1>9 DEF BatchIInv, WorkIsListed
  <1>11. Batch(s)!NeverAnotherYear'
    <2> SUFFICES ASSUME NEW b \in Batches[s].admins, NEW j \in Batches[s].kinds,
                        NEW o \in Batch(s)!Range(run'[b][j].outcome), o.status # "failed"
                 PROVE  Batches[s].years[o.draw] = run'[b][j].year
      BY DEF Batch!NeverAnotherYear, Batch!Range
    <2>1. run'[b][j].outcome = run[b][j].outcome /\ run'[b][j].year = run[b][j].year
      BY <1>3, <1>4
    <2> QED
      BY <2>1 DEF BatchIInv, Batch!NeverAnotherYear
  <1>12. Batch(s)!MarksAreLive'
    <2> SUFFICES ASSUME NEW q \in Batches[s].processes, NEW j \in Batches[s].kinds,
                        NEW d \in inFlight'[q][j]
                 PROVE  \E b \in Batches[s].admins :
                          /\ Batches[s].servedBy[b] = q /\ run'[b][j].at = "working"
                          /\ Batch(s)!Current(b, j)' = d
      BY DEF Batch!MarksAreLive
    <2>1. q # p /\ d \in inFlight[q][j]
      BY <1>6
    <2>2. PICK b \in Batches[s].admins : /\ Batches[s].servedBy[b] = q /\ run[b][j].at = "working"
                                         /\ Batch(s)!Current(b, j) = d
      BY <2>1 DEF BatchIInv, Batch!MarksAreLive
    <2>3. run'[b][j].at = "working"
      BY <1>4, <2>1, <2>2
    <2> QED
      BY <1>9, <2>2, <2>3
  <1>13. ClaimsAreTrue(s)'
    <2>1. ASSUME NEW j \in Batches[s].kinds, NEW e \in Batch(s)!AllDraws,
                 NEW x \in Batch(s)!Claims(j, e)'
          PROVE  x \in Batch(s)!Claims(j, e)
      <3>1. CASE \E i \in DOMAIN audit' : x = <<"row", i>> /\ audit'[i].kind = j
                   /\ [draw |-> e, status |-> "completed"] \in Batch(s)!Range(audit'[i].outcome)
        BY <1>1, <3>1 DEF Batch!Claims
      <3>2. CASE \E b \in Batches[s].admins : x = <<"run", b>>
                   /\ run'[b][j].at \in {"next", "working", "broken"}
                   /\ [draw |-> e, status |-> "completed"] \in Batch(s)!Range(run'[b][j].outcome)
        <4>1. PICK b \in Batches[s].admins : x = <<"run", b>>
                   /\ run'[b][j].at \in {"next", "working", "broken"}
                   /\ [draw |-> e, status |-> "completed"] \in Batch(s)!Range(run'[b][j].outcome)
          BY <3>2
        <4>2. run'[b][j].outcome = run[b][j].outcome /\ run[b][j].at \in {"next", "working", "broken"}
          BY <1>3, <1>4, <4>1
        <4> QED
          BY <4>1, <4>2 DEF Batch!Claims
      <3> QED
        BY <2>1, <3>1, <3>2 DEF Batch!Claims, Batch!Range
    <2>2. ASSUME NEW j \in Batches[s].kinds, NEW e \in Batch(s)!AllDraws
          PROVE  Batch(s)!Done(j, e) => Batch(s)!Done(j, e)'
      BY <1>1 DEF Batch!Done
    <2> QED
      BY <2>1, <2>2, FewerClaims DEF BatchIInv
  <1> QED
    BY <1>7, <1>8, <1>10, <1>11, <1>12, <1>13 DEF BatchIInv

\* A draw taken a step on from its own page claims nothing, and takes back nothing done.
LEMMA AloneIsSound ==
  ASSUME PagesAssumption, NEW s \in DOMAIN Batches, BatchIInv(s),
         NEW d \in Batch(s)!AllDraws, Batch(s)!Alone(d)
  PROVE  BatchIInv(s)'
  <1>1. UNCHANGED <<inFlight, run, year, dialog, previews, audit, openings, faults>>
    BY DEF Batch!Alone, Batch!client
  <1>2. BatchTables(s) /\ stage \in [Batch(s)!AllDraws -> Batch(s)!Stages]
    BY DEF BatchIInv, BatchTables
  <1>3. /\ stage' \in [Batch(s)!AllDraws -> Batch(s)!Stages]
        /\ \A j \in Batches[s].kinds, e \in Batch(s)!AllDraws :
             Batch(s)!Done(j, e) => Batch(s)!Done(j, e)'
    <2>1. CASE stage[d] = "DRAFT" /\ stage' = [stage EXCEPT ![d] = "READY"]
      <3>1. stage' \in [Batch(s)!AllDraws -> Batch(s)!Stages]
        BY <1>2, <2>1 DEF Batch!Stages
      <3>2. ASSUME NEW j \in Batches[s].kinds, NEW e \in Batch(s)!AllDraws, Batch(s)!Done(j, e)
            PROVE  Batch(s)!Done(j, e)'
        <4>1. e # d
          BY <2>1, <3>2 DEF Batch!Done
        <4>2. stage'[e] = stage[e]
          BY <1>2, <2>1, <4>1
        <4> QED
          BY <3>2, <4>2 DEF Batch!Done
      <3> QED
        BY <3>1, <3>2
    <2>2. CASE Batch(s)!Claimable("freeze", d) /\ stage' = [stage EXCEPT ![d] = "LOCKED"]
      <3>1. Batch(s)!Ready("freeze", d) /\ stage' = [stage EXCEPT ![d] = Batch(s)!StageAfter("freeze")]
        BY <2>2 DEF Batch!Claimable, Batch!StageAfter
      <3> QED
        BY <1>2, <3>1, TakenOnIsDone
    <2>3. CASE Batch(s)!Claimable("execute", d) /\ stage' = [stage EXCEPT ![d] = "COMPLETED"]
      <3>1. Batch(s)!Ready("execute", d) /\ stage' = [stage EXCEPT ![d] = Batch(s)!StageAfter("execute")]
        BY <2>3 DEF Batch!Claimable, Batch!StageAfter
      <3> QED
        BY <1>2, <3>1, TakenOnIsDone
    <2> QED
      BY <2>1, <2>2, <2>3 DEF Batch!Alone
  <1>4. BatchTables(s)'
    BY <1>1, <1>2, <1>3 DEF BatchTables
  <1>5. OneBatchEach(s)' /\ WorkIsListed(s)'
    BY <1>1 DEF BatchIInv, OneBatchEach, WorkIsListed, Batch!Current, Batch!Listed
  <1>6. Batch(s)!NeverAnotherYear' /\ Batch(s)!MarksAreLive'
    BY <1>1 DEF BatchIInv, Batch!NeverAnotherYear, Batch!MarksAreLive, Batch!Current
  <1>7. ClaimsAreTrue(s)'
    <2>1. ASSUME NEW j \in Batches[s].kinds, NEW e \in Batch(s)!AllDraws
          PROVE  Batch(s)!Claims(j, e)' \subseteq Batch(s)!Claims(j, e)
      BY <1>1 DEF Batch!Claims
    <2> QED
      BY <1>3, <2>1, FewerClaims DEF BatchIInv
  <1> QED
    BY <1>4, <1>5, <1>6, <1>7 DEF BatchIInv

LEMMA BatchStep ==
  ASSUME PagesAssumption, NEW s \in DOMAIN Batches, BatchIInv(s), [Batch(s)!Next]_(Batch(s)!vars)
  PROVE  BatchIInv(s)'
  <1>1. CASE UNCHANGED Batch(s)!vars
    <2>1. UNCHANGED <<stage, inFlight, run, year, dialog, previews, audit, openings, faults>>
      BY <1>1 DEF Batch!vars
    <2>2. BatchTables(s)'
      BY <2>1 DEF BatchIInv, BatchTables
    <2> QED
      BY <2>1, <2>2, BatchesGoOn
  <1>2. ASSUME NEW a \in Batches[s].admins, Batch(s)!ChooseYear(a) PROVE BatchIInv(s)'
    BY <1>2, ChooseYearIsSound
  <1>3. ASSUME NEW a \in Batches[s].admins, NEW k \in Batches[s].kinds,
               \/ Batch(s)!Open(a, k) \/ Batch(s)!Close(a, k)
               \/ Batch(s)!Confirm(a, k) \/ Batch(s)!ReceiveOutcome(a, k)
        PROVE  BatchIInv(s)'
    BY <1>3, OpenIsQuiet, CloseIsQuiet, ConfirmIsSound, OutcomeIsReceived
  <1>4. ASSUME NEW a \in Batches[s].admins, NEW k \in Batches[s].kinds,
               Batch(s)!Serve(a, k) \/ Batch(s)!Break(a, k)
        PROVE  BatchIInv(s)'
    <2>1. CASE Batch(s)!Start(a, k)
      BY <2>1, StartIsSound
    <2>2. CASE Batch(s)!Succeed(a, k)
      BY <2>2, SucceedIsSound
    <2>3. CASE Batch(s)!Report(a, k)
      BY <2>3, ReportIsSound
    <2>4. CASE \/ Batch(s)!RefuseUnlisted(a, k) \/ Batch(s)!SkipInFlight(a, k)
               \/ Batch(s)!FindDone(a, k) \/ Batch(s)!Fail(a, k) \/ Batch(s)!Break(a, k)
      BY <2>4, RefusalsAreSound
    <2> QED
      BY <1>4, <2>1, <2>2, <2>3, <2>4 DEF Batch!Serve
  <1>5. ASSUME NEW q \in previews,
               Batch(s)!Validate(q) \/ Batch(s)!ReceivePreview(q) \/ Batch(s)!LosePreview(q)
        PROVE  BatchIInv(s)'
    BY <1>5, PreviewsAreQuiet
  <1>6. ASSUME NEW p \in Batches[s].processes, Batch(s)!Crash(p) PROVE BatchIInv(s)'
    BY <1>6, CrashIsSound
  <1>7. ASSUME NEW d \in Batch(s)!AllDraws, Batch(s)!Alone(d) PROVE BatchIInv(s)'
    BY <1>7, AloneIsSound
  <1> QED
    BY <1>1, <1>2, <1>3, <1>4, <1>5, <1>6, <1>7 DEF Batch!Next

LEMMA BatchesStartIdle ==
  ASSUME PagesAssumption, NEW s \in DOMAIN Batches, Batch(s)!Init
  PROVE  BatchIInv(s)
  <1> DEFINE Marks == SUBSET Batch(s)!AllDraws
             T == Inquiries(s) \cup {Nothing}
             R == Reports(s) \cup {Nothing}
             AllRuns == Runs(s)
             AllRows == Rows(s)
  <1>1. /\ stage = Batches[s].stages
        /\ inFlight = [p \in Batches[s].processes |-> [k \in Batches[s].kinds |-> {}]]
        /\ run = [a \in Batches[s].admins |-> [k \in Batches[s].kinds |-> Batch(s)!Idle]]
        /\ year \in [Batches[s].admins -> Batch(s)!Years]
        /\ dialog = [a \in Batches[s].admins |-> [k \in Batches[s].kinds |-> Batch(s)!Closed]]
        /\ previews = {} /\ audit = <<>> /\ openings = 0 /\ faults = 0
    BY DEF Batch!Init
  <1>2. Batch(s)!Idle \in AllRuns /\ Batch(s)!Idle.at = "idle" /\ Batch(s)!Idle.outcome = <<>>
    <2>1. <<>> \in Reports(s)
      BY DEF Reports
    <2> QED
      BY <2>1 DEF Runs, Batch!Idle
  <1>3. Batch(s)!Closed \in DialogOf(T, R)
    <2>1. Nothing \in T /\ Nothing \in R
      OBVIOUS
    <2> HIDE DEF T, R
    <2> QED
      BY <2>1 DEF DialogOf, Batch!Closed
  <1> HIDE DEF AllRuns, AllRows, T, R
  <1>4. BatchTables(s)
    <2>1. inFlight \in [Batches[s].processes -> [Batches[s].kinds -> Marks]]
      BY <1>1
    <2>2. run \in [Batches[s].admins -> [Batches[s].kinds -> AllRuns]]
      BY <1>1, <1>2
    <2>3. dialog \in [Batches[s].admins -> [Batches[s].kinds -> DialogOf(T, R)]]
      BY <1>1, <1>3
    <2>4. audit \in Seq(AllRows)
      BY <1>1
    <2>5. stage \in [Batch(s)!AllDraws -> Batch(s)!Stages]
      BY <1>1, BatchConstants
    <2> QED
      BY <1>1, <2>1, <2>2, <2>3, <2>4, <2>5 DEF BatchTables, Marks, AllRuns, AllRows, Dialogs, T, R
  <1>5. \A a \in Batches[s].admins, k \in Batches[s].kinds :
          run[a][k].at = "idle" /\ run[a][k].outcome = <<>>
    BY <1>1, <1>2
  <1>6. OneBatchEach(s) /\ WorkIsListed(s)
    BY <1>5 DEF OneBatchEach, WorkIsListed
  <1>7. Batch(s)!NeverAnotherYear
    BY <1>5 DEF Batch!NeverAnotherYear, Batch!Range
  <1>8. Batch(s)!MarksAreLive
    BY <1>1 DEF Batch!MarksAreLive
  <1>9. ClaimsAreTrue(s)
    <2>1. ASSUME NEW k \in Batches[s].kinds, NEW d \in Batch(s)!AllDraws
          PROVE  Batch(s)!Claims(k, d) = {}
      BY <1>1, <1>5 DEF Batch!Claims
    <2> QED
      BY <2>1 DEF ClaimsAreTrue
  <1> QED
    BY <1>4, <1>6, <1>7, <1>8, <1>9 DEF BatchIInv

LEMMA AtMostOne ==
  ASSUME NEW C, \A x, y \in C : x = y
  PROVE  Cardinality(C) <= 1
  <1>1. CASE C = {}
    <2>1. Cardinality(C) = 0
      BY <1>1, FS_EmptySet
    <2> QED
      BY <2>1
  <1>2. CASE C # {}
    <2>1. PICK x \in C : TRUE
      BY <1>2
    <2>2. C = {x}
      BY <2>1
    <2>3. Cardinality(C) = 1
      BY <2>2, FS_Singleton
    <2> QED
      BY <2>3
  <1> QED
    BY <1>1, <1>2

\* Claims that are all the same are at most one claim.
LEMMA BatchesAreDoneOnce ==
  ASSUME NEW s \in DOMAIN Batches, BatchIInv(s)
  PROVE  Batch(s)!DoneOnce
  <1> SUFFICES ASSUME NEW k \in Batches[s].kinds, NEW d \in Batch(s)!AllDraws
               PROVE  Batch(s)!Cardinality(Batch(s)!Claims(k, d)) <= 1
    BY DEF Batch!DoneOnce
  <1> DEFINE C == Batch(s)!Claims(k, d)
  <1>1. \A x, y \in C : x = y
    BY DEF BatchIInv, ClaimsAreTrue
  <1>2. Batch(s)!Cardinality(C) = Cardinality(C)
    BY DEF Batch!Cardinality, Cardinality
  <1>3. Cardinality(C) <= 1
    <2> HIDE DEF C
    <2> QED
      BY <1>1, AtMostOne
  <1> QED
    BY <1>2, <1>3

LEMMA BatchInvariance ==
  ASSUME PagesAssumption, NEW s \in DOMAIN Batches
  PROVE  Batch(s)!Spec => []BatchIInv(s)
  <1>1. Batch(s)!Init => BatchIInv(s)
    BY BatchesStartIdle
  <1>2. BatchIInv(s) /\ [Batch(s)!Next]_(Batch(s)!vars) => BatchIInv(s)'
    BY BatchStep
  <1> QED
    BY <1>1, <1>2, PTL DEF Batch!Spec

\* In whatever setting the batches of a year run, with any number of administrators, kinds
\* and server processes: a draw is acted on once, in its year, and no mark outlives its batch.
THEOREM ABatchActsOnce ==
  ASSUME NEW s \in DOMAIN Batches
  PROVE  setting = s /\ [][UNCHANGED setting]_setting /\ Batch(s)!Spec => []DoneOnce
  <1>1. PagesAssumption
    BY PagesAssumption
  <1>2. Batch(s)!Spec => []BatchIInv(s)
    BY <1>1, BatchInvariance
  <1>3. setting = s /\ [UNCHANGED setting]_setting => (setting = s)'
    OBVIOUS
  <1>4. setting = s /\ BatchIInv(s) => DoneOnce
    BY BatchIsTyped, BatchesAreDoneOnce DEF DoneOnce, BatchIInv
  <1> QED
    BY <1>2, <1>3, <1>4, PTL

------------------------------------------------------------------------------
(* The pages of one draw. *)

Answered(s) ==
  [status : {"WAITING", "CALLED", "ACCEPTED", "DECLINED"}, place : Consoles[s].winners \cup {Nothing}]

RowOf(T, S, P, W, R) ==
  [status : T, spots : S, version : Nat, pool : P, published : BOOLEAN, abandoned : W, reserve : R]

\* The shapes of what a page holds; T, P, R and A stand for the contents.
PageOf(T, P, R, A) == [draw : T, pool : P, result : R, live : R, dialog : A]

DraftOf(V, T) == [view : V, typed : T, seeded : BOOLEAN, seen : T, failed : BOOLEAN]

Requests(s) ==
  {[kind |-> "freeze"], [kind |-> "execute"], [kind |-> "publish"]}
  \cup [kind : {"transition"}, to : DrawConsole(s)!CommuneDrawStatus]
  \cup [kind : {"abandon"}, place : Consoles[s].winners]
  \cup [kind : {"call", "accept", "decline"}, reserve : Consoles[s].positions]

DrawViews(s) == [status : DrawConsole(s)!CommuneDrawStatus, spots : Consoles[s].spots] \cup {Awaited}
PoolViews(s) == [spots : Consoles[s].spots] \cup {Nothing, Awaited}
ResultViews(s) ==
  [published : BOOLEAN, abandoned : SUBSET Consoles[s].winners, reserve : DrawConsole(s)!Reserves]
  \cup {Nothing, Awaited}

PageSet(s) == PageOf(DrawViews(s), PoolViews(s), ResultViews(s), Requests(s) \cup {Nothing})
DraftSet(s) == DraftOf(DrawConsole(s)!Draws \cup {Awaited}, Consoles[s].spots \cup {Nothing})

Final(d) == d.status \in {"LOCKED", "COMPLETED"}

\* What no act of anybody takes back: d may become e.
GoesOnTo(s, d, e) ==
  /\ DrawConsole(s)!IsDraw(e)
  /\ Final(d) => Final(e) /\ e.spots = d.spots
  /\ d.pool # Nothing => e.pool = d.pool
  /\ \A r \in Consoles[s].positions : d.reserve[r].status # "WAITING" =>
       e.reserve[r].status # "WAITING" /\ e.reserve[r].place = d.reserve[r].place

\* Of a result seen, the places of those who were called are the draw's.
PlacesAreKept(s, seen, d) ==
  \A r \in Consoles[s].positions : seen.reserve[r].status # "WAITING" =>
    d.reserve[r].status # "WAITING" /\ seen.reserve[r].place = d.reserve[r].place

ViewIsTrue(s, v, d) ==
  /\ v.draw # Awaited /\ Final(v.draw) => Final(d) /\ v.draw.spots = d.spots
  /\ v.pool \notin {Nothing, Awaited} => v.pool = d.pool
  /\ v.live # Nothing => PlacesAreKept(s, v.live, d)
  /\ v.result \notin {Nothing, Awaited} => PlacesAreKept(s, v.result, d)

\* A dialog that is open was offered by what its page still holds.
DialogIsBacked(s, v) == v.dialog # Nothing =>
  /\ v.draw # Awaited
  /\ v.dialog.kind = "execute" => v.draw.status = "LOCKED"
  /\ v.dialog.kind \in {"accept", "decline"} =>
       /\ DrawConsole(s)!CurrentResult(v) # Nothing
       /\ DrawConsole(s)!CurrentResult(v).reserve[v.dialog.reserve].status = "CALLED"

PagesAreTrue(s) == \A p \in Consoles[s].pages :
  ViewIsTrue(s, page[p], draw) /\ DialogIsBacked(s, page[p])

\* What can be sent was loaded before it was typed over.
DraftsAreTyped(s) == \A e \in Consoles[s].editors : editor[e] # Nothing =>
  /\ editor[e] \in DraftSet(s)
  /\ editor[e].seeded => editor[e].typed \in Consoles[s].spots
  /\ editor[e].view # Awaited => editor[e].seeded

ConsoleIInv(s) ==
  /\ DrawConsole(s)!IsDraw(draw)
  /\ page \in [Consoles[s].pages -> PageSet(s)]
  /\ editor \in [Consoles[s].editors -> DraftSet(s) \cup {Nothing}]
  /\ PagesAreTrue(s) /\ DraftsAreTyped(s)
  /\ DrawConsole(s)!ExecutesAsShown /\ DrawConsole(s)!AnswersForThePlaceShown

------------------------------------------------------------------------------
(* The rows. *)

LEMMA ConsoleConstants ==
  ASSUME PagesAssumption, NEW s \in DOMAIN Consoles
  PROVE  DrawConsole(s)!ConsoleAssumption
  BY DEF PagesAssumption

Moved(d, t) == [d EXCEPT !.status = t, !.version = @ + 1]
Frozen(d, p) == [d EXCEPT !.status = "LOCKED", !.version = @ + 1, !.pool = p]

\* What the changes of a row leave, and that they leave a row.
LEMMA RowMoves ==
  ASSUME NEW T, NEW S, NEW P, NEW W, NEW R, NEW d \in RowOf(T, S, P, W, R), NEW t \in T
  PROVE  LET e == Moved(d, t) IN
         /\ e \in RowOf(T, S, P, W, R)
         /\ e.status = t /\ e.version = d.version + 1
         /\ e.spots = d.spots /\ e.pool = d.pool /\ e.reserve = d.reserve
  <1> DEFINE n == d.version + 1
             f == [d EXCEPT !.status = t, !.version = n]
  <1>1. n \in Nat
    BY DEF RowOf
  <1>2. Moved(d, t) = f
    BY DEF RowOf, Moved
  <1> HIDE DEF n
  <1>3. f \in RowOf(T, S, P, W, R)
    BY <1>1 DEF RowOf
  <1>4. /\ f.status = t /\ f.version = n
        /\ f.spots = d.spots /\ f.pool = d.pool /\ f.reserve = d.reserve
    BY <1>1, <1>3 DEF RowOf
  <1> HIDE DEF f
  <1> QED
    BY <1>2, <1>3, <1>4 DEF n

LEMMA RowFreezes ==
  ASSUME NEW T, NEW S, NEW P, NEW W, NEW R, NEW d \in RowOf(T, S, P, W, R), NEW t \in T, NEW p \in P, t = "LOCKED"
  PROVE  LET e == Frozen(d, p) IN
         /\ e \in RowOf(T, S, P, W, R)
         /\ e.status = t /\ e.version = d.version + 1
         /\ e.spots = d.spots /\ e.pool = p /\ e.reserve = d.reserve
  <1> DEFINE n == d.version + 1
             f == [d EXCEPT !.status = t, !.version = n, !.pool = p]
  <1>1. n \in Nat
    BY DEF RowOf
  <1>2. Frozen(d, p) = f
    BY DEF RowOf, Frozen
  <1> HIDE DEF n
  <1>3. f \in RowOf(T, S, P, W, R)
    BY <1>1 DEF RowOf
  <1>4. /\ f.status = t /\ f.version = n
        /\ f.spots = d.spots /\ f.pool = p /\ f.reserve = d.reserve
    BY <1>1, <1>3 DEF RowOf
  <1> HIDE DEF f
  <1> QED
    BY <1>2, <1>3, <1>4 DEF n

LEMMA RowCompletes ==
  ASSUME NEW T, NEW S, NEW P, NEW W, NEW R, NEW d \in RowOf(T, S, P, W, R), NEW t \in T,
         NEW e, e = [d EXCEPT !.status = t]
  PROVE  /\ e \in RowOf(T, S, P, W, R)
         /\ e.status = t /\ e.version = d.version
         /\ e.spots = d.spots /\ e.pool = d.pool /\ e.reserve = d.reserve
  BY DEF RowOf

LEMMA RowIsPublished ==
  ASSUME NEW T, NEW S, NEW P, NEW W, NEW R, NEW d \in RowOf(T, S, P, W, R),
         NEW e, e = [d EXCEPT !.published = TRUE]
  PROVE  /\ e \in RowOf(T, S, P, W, R)
         /\ e.status = d.status /\ e.version = d.version
         /\ e.spots = d.spots /\ e.pool = d.pool /\ e.reserve = d.reserve
  BY DEF RowOf

LEMMA RowIsAbandoned ==
  ASSUME NEW T, NEW S, NEW P, NEW W, NEW R, NEW d \in RowOf(T, S, P, W, R), NEW w \in W,
         NEW e, e = [d EXCEPT !.abandoned = w]
  PROVE  /\ e \in RowOf(T, S, P, W, R)
         /\ e.status = d.status /\ e.version = d.version
         /\ e.spots = d.spots /\ e.pool = d.pool /\ e.reserve = d.reserve
  BY DEF RowOf

LEMMA RowAnswers ==
  ASSUME NEW T, NEW S, NEW P, NEW W, NEW R, NEW d \in RowOf(T, S, P, W, R), NEW x \in R,
         NEW e, e = [d EXCEPT !.reserve = x]
  PROVE  /\ e \in RowOf(T, S, P, W, R)
         /\ e.status = d.status /\ e.version = d.version
         /\ e.spots = d.spots /\ e.pool = d.pool /\ e.reserve = x
  BY DEF RowOf

LEMMA RowIsDraw ==
  ASSUME NEW s
  PROVE  DrawConsole(s)!Draws =
           RowOf(DrawConsole(s)!CommuneDrawStatus, Consoles[s].spots,
                 [spots : Consoles[s].spots] \cup {Nothing}, SUBSET Consoles[s].winners,
                 DrawConsole(s)!Reserves)
  BY DEF RowOf, DrawConsole!Draws

LEMMA DrawGoesOn ==
  ASSUME NEW s, NEW d, DrawConsole(s)!IsDraw(d), NEW e \in DrawConsole(s)!Draws,
         e.pool # Nothing <=> Final(e),
         e.version <= Consoles[s].edits + (IF e.pool = Nothing THEN 0 ELSE 1),
         e.spots = d.spots, Final(d) => Final(e), d.pool # Nothing => e.pool = d.pool,
         \A r \in Consoles[s].positions : d.reserve[r].status # "WAITING" =>
           e.reserve[r].status # "WAITING" /\ e.reserve[r].place = d.reserve[r].place
  PROVE  GoesOnTo(s, d, e)
  BY DEF GoesOnTo, DrawConsole!IsDraw, Final

LEMMA DrawFields ==
  ASSUME NEW s, NEW d \in DrawConsole(s)!Draws
  PROVE  /\ d.status \in {"DRAFT", "READY", "LOCKED", "COMPLETED", "CANCELLED"}
         /\ d.spots \in Consoles[s].spots /\ d.version \in Nat
         /\ d.pool \in [spots : Consoles[s].spots] \cup {Nothing}
         /\ d.published \in BOOLEAN /\ d.abandoned \in SUBSET Consoles[s].winners
         /\ d.reserve \in [Consoles[s].positions -> Answered(s)]
  BY DEF DrawConsole!Draws, DrawConsole!CommuneDrawStatus, DrawConsole!Reserves, Answered

\* Whatever of the draw changes but its reserves.
LEMMA StatusGoesOn ==
  ASSUME PagesAssumption, NEW s \in DOMAIN Consoles, NEW d, DrawConsole(s)!IsDraw(d), NEW national,
         NEW e, e # Nothing,
         \/ d.version < Consoles[s].edits /\ \E to : e = DrawConsole(s)!Transition(d, to, national)
         \/ e = DrawConsole(s)!FreezePool(d)
         \/ e = DrawConsole(s)!ExecuteDraw(d)
         \/ e = DrawConsole(s)!PublishResult(d)
         \/ \E w \in Consoles[s].winners : e = DrawConsole(s)!AbandonWinner(d, w)
  PROVE  GoesOnTo(s, d, e)
  <1> DEFINE T == DrawConsole(s)!CommuneDrawStatus
             S == Consoles[s].spots
             P == [spots : Consoles[s].spots] \cup {Nothing}
             W == SUBSET Consoles[s].winners
             R == DrawConsole(s)!Reserves
  <1>0. DrawConsole(s)!Draws = RowOf(T, S, P, W, R) /\ d \in RowOf(T, S, P, W, R)
    BY RowIsDraw DEF DrawConsole!IsDraw
  <1>9. d \in RowOf(T, S, P, W, R)
    BY <1>0
  <1>1. /\ d \in DrawConsole(s)!Draws
        /\ d.pool # Nothing <=> Final(d)
        /\ d.version <= Consoles[s].edits + (IF d.pool = Nothing THEN 0 ELSE 1)
    BY DEF DrawConsole!IsDraw, Final
  <1>2. /\ d.status \in {"DRAFT", "READY", "LOCKED", "COMPLETED", "CANCELLED"}
        /\ d.spots \in S /\ d.version \in Nat /\ d.abandoned \in W
        /\ T = {"DRAFT", "READY", "LOCKED", "COMPLETED", "CANCELLED"}
    BY <1>1, DrawFields DEF DrawConsole!CommuneDrawStatus
  <1>3. Consoles[s].edits \in Nat /\ Nothing \notin [spots : S]
    BY ConsoleConstants DEF DrawConsole!ConsoleAssumption
  <1> HIDE DEF T, S, P, W, R
  <1>4. CASE d.version < Consoles[s].edits /\ \E to : e = DrawConsole(s)!Transition(d, to, national)
    <2>1. PICK to : e = DrawConsole(s)!Transition(d, to, national)
      BY <1>4
    <2>2. /\ to \in T \ {"LOCKED", "COMPLETED"} /\ ~ Final(d)
          /\ e = Moved(d, to)
      BY <1>2, <2>1 DEF Moved, DrawConsole!Transition, DrawConsole!CanTransitionCommuneDraw, Final,
         DrawConsole!CommuneDrawTransitions, DrawConsole!IsAdministrativelySettable
    <2>3. /\ e \in RowOf(T, S, P, W, R)
          /\ e.status = to /\ e.version = d.version + 1
          /\ e.spots = d.spots /\ e.pool = d.pool /\ e.reserve = d.reserve
      BY <1>9, <2>2, RowMoves
    <2>4. e.pool # Nothing <=> Final(e)
      BY <1>1, <2>2, <2>3 DEF Final
    <2>5. e.version <= Consoles[s].edits + (IF e.pool = Nothing THEN 0 ELSE 1)
      BY <1>2, <1>3, <1>4, <2>3
    <2> QED
      BY <1>0, <1>1, <2>2, <2>3, <2>4, <2>5, DrawGoesOn
  <1>5. CASE e = DrawConsole(s)!FreezePool(d)
    <2>1. CASE d.pool # Nothing
      <3>1. e = d
        BY <1>5, <2>1 DEF DrawConsole!FreezePool
      <3> QED
        BY <1>0, <1>1, <3>1, DrawGoesOn
    <2>2. CASE d.pool = Nothing
      <3> DEFINE p == [spots |-> d.spots]
      <3>1. p \in P /\ p # Nothing
        <4>1. p \in [spots : S]
          BY <1>2
        <4> QED
          BY <1>3, <4>1 DEF P, S
      <3>2. e = Frozen(d, p)
        BY <1>5, <2>2 DEF Frozen, DrawConsole!FreezePool
      <3> HIDE DEF p
      <3>3. /\ e \in RowOf(T, S, P, W, R)
            /\ e.status = "LOCKED" /\ e.version = d.version + 1
            /\ e.spots = d.spots /\ e.pool = p /\ e.reserve = d.reserve
        <4>1. "LOCKED" \in T
          BY <1>2
        <4> QED
          BY <1>9, <3>1, <3>2, <4>1, RowFreezes
      <3>4. Final(e)
        BY <3>3 DEF Final
      <3>5. e.version <= Consoles[s].edits + (IF e.pool = Nothing THEN 0 ELSE 1)
        BY <1>1, <1>2, <1>3, <2>2, <3>1, <3>3
      <3> QED
        BY <1>0, <1>1, <2>2, <3>1, <3>3, <3>4, <3>5, DrawGoesOn
    <2> QED
      BY <2>1, <2>2
  <1>6. CASE e = DrawConsole(s)!ExecuteDraw(d)
    <2>1. d.status = "LOCKED" /\ e = [d EXCEPT !.status = "COMPLETED"]
      BY <1>6 DEF DrawConsole!ExecuteDraw
    <2>2. /\ e \in RowOf(T, S, P, W, R)
          /\ e.status = "COMPLETED" /\ e.version = d.version
          /\ e.spots = d.spots /\ e.pool = d.pool /\ e.reserve = d.reserve
      <3>1. "COMPLETED" \in T
        BY <1>2
      <3> QED
        BY <1>9, <2>1, <3>1, RowCompletes
    <2>3. Final(d) /\ Final(e)
      BY <2>1, <2>2 DEF Final
    <2> QED
      BY <1>0, <1>1, <2>2, <2>3, DrawGoesOn
  <1>7. CASE e = DrawConsole(s)!PublishResult(d)
    <2>1. e = [d EXCEPT !.published = TRUE]
      BY <1>7 DEF DrawConsole!PublishResult
    <2>2. /\ e \in RowOf(T, S, P, W, R)
          /\ e.status = d.status /\ e.version = d.version
          /\ e.spots = d.spots /\ e.pool = d.pool /\ e.reserve = d.reserve
      BY <1>9, <2>1, RowIsPublished
    <2>3. Final(d) <=> Final(e)
      BY <2>2 DEF Final
    <2> QED
      BY <1>0, <1>1, <2>2, <2>3, DrawGoesOn
  <1>8. CASE \E w \in Consoles[s].winners : e = DrawConsole(s)!AbandonWinner(d, w)
    <2>1. PICK w \in Consoles[s].winners : e = DrawConsole(s)!AbandonWinner(d, w)
      BY <1>8
    <2> DEFINE gone == d.abandoned \cup {w}
    <2>2. e = [d EXCEPT !.abandoned = gone]
      BY <2>1 DEF DrawConsole!AbandonWinner
    <2>3. gone \in W
      BY <1>2 DEF W
    <2> HIDE DEF gone
    <2>4. /\ e \in RowOf(T, S, P, W, R)
          /\ e.status = d.status /\ e.version = d.version
          /\ e.spots = d.spots /\ e.pool = d.pool /\ e.reserve = d.reserve
      BY <1>9, <2>2, <2>3, RowIsAbandoned
    <2>5. Final(d) <=> Final(e)
      BY <2>4 DEF Final
    <2> QED
      BY <1>0, <1>1, <2>4, <2>5, DrawGoesOn
  <1> QED
    BY <1>4, <1>5, <1>6, <1>7, <1>8

\* Only who waits is called; an answer leaves the place.
LEMMA ReservesGoOn ==
  ASSUME PagesAssumption, NEW s \in DOMAIN Consoles, NEW d, DrawConsole(s)!IsDraw(d),
         NEW e, e # Nothing, NEW r,
         \/ \E w : e = DrawConsole(s)!CallReserve(d, r, w)
         \/ r \in Consoles[s].positions /\ (e = DrawConsole(s)!AcceptReserve(d, r)
                                              \/ e = DrawConsole(s)!DeclineReserve(d, r))
  PROVE  GoesOnTo(s, d, e)
  <1> DEFINE T == DrawConsole(s)!CommuneDrawStatus
             S == Consoles[s].spots
             P == [spots : Consoles[s].spots] \cup {Nothing}
             W == SUBSET Consoles[s].winners
             R == DrawConsole(s)!Reserves
             Positions == Consoles[s].positions
             Kept(x) == \A q \in Positions : d.reserve[q].status # "WAITING" =>
               x[q].status # "WAITING" /\ x[q].place = d.reserve[q].place
  <1>0. DrawConsole(s)!Draws = RowOf(T, S, P, W, R) /\ d \in RowOf(T, S, P, W, R)
    BY RowIsDraw DEF DrawConsole!IsDraw
  <1>9. d \in RowOf(T, S, P, W, R)
    BY <1>0
  <1>1. /\ d \in DrawConsole(s)!Draws
        /\ d.pool # Nothing <=> Final(d)
        /\ d.version <= Consoles[s].edits + (IF d.pool = Nothing THEN 0 ELSE 1)
    BY DEF DrawConsole!IsDraw, Final
  <1>2. /\ d.reserve \in [Positions -> Answered(s)] /\ R = [Positions -> Answered(s)]
        /\ d.abandoned \subseteq Consoles[s].winners
    BY <1>1, DrawFields DEF DrawConsole!Reserves, Answered
  <1> HIDE DEF T, S, P, W, R
  <1>3. ASSUME NEW x \in R, e = [d EXCEPT !.reserve = x], Kept(x)
        PROVE  GoesOnTo(s, d, e)
    <2>1. /\ e \in RowOf(T, S, P, W, R)
          /\ e.status = d.status /\ e.version = d.version
          /\ e.spots = d.spots /\ e.pool = d.pool /\ e.reserve = x
      BY <1>9, <1>3, RowAnswers
    <2>2. Final(d) <=> Final(e)
      BY <2>1 DEF Final
    <2> QED
      BY <1>0, <1>1, <1>3, <2>1, <2>2, DrawGoesOn
  <1>4. CASE \E w : e = DrawConsole(s)!CallReserve(d, r, w)
    <2>1. PICK w : e = DrawConsole(s)!CallReserve(d, r, w)
      BY <1>4
    <2> DEFINE called == [status |-> "CALLED", place |-> w]
               x == [d.reserve EXCEPT ![r] = called]
    <2>2. /\ r \in Positions /\ d.reserve[r].status = "WAITING" /\ w \in d.abandoned
          /\ e = [d EXCEPT !.reserve[r] = called]
      BY <2>1 DEF DrawConsole!CallReserve, DrawConsole!Vacant, DrawConsole!NextWaiting
    <2>3. called \in Answered(s)
      BY <1>2, <2>2 DEF Answered
    <2> HIDE DEF called
    <2>4. x \in R /\ Kept(x)
      BY <1>2, <2>2, <2>3
    <2>5. e = [d EXCEPT !.reserve = x]
      BY <2>2
    <2> QED
      BY <1>3, <2>4, <2>5
  <1>5. ASSUME NEW status \in {"ACCEPTED", "DECLINED"}, r \in Positions,
               d.reserve[r].status = "CALLED", e = DrawConsole(s)!Answers(d, r, status)
        PROVE  GoesOnTo(s, d, e)
    <2> DEFINE given == [d.reserve[r] EXCEPT !.status = status]
               x == [d.reserve EXCEPT ![r] = given]
    <2>1. given \in Answered(s) /\ given.status = status /\ given.place = d.reserve[r].place
      BY <1>2, <1>5 DEF Answered
    <2>2. e = [d EXCEPT !.reserve = x]
      BY <1>5 DEF DrawConsole!Answers
    <2> HIDE DEF given
    <2>3. x \in R /\ Kept(x)
      BY <1>2, <1>5, <2>1
    <2> QED
      BY <1>3, <2>2, <2>3
  <1>6. CASE r \in Positions /\ e = DrawConsole(s)!AcceptReserve(d, r)
    BY <1>5, <1>6 DEF DrawConsole!AcceptReserve
  <1>7. CASE r \in Positions /\ e = DrawConsole(s)!DeclineReserve(d, r)
    BY <1>5, <1>7 DEF DrawConsole!DeclineReserve, DrawConsole!Decline
  <1> QED
    BY <1>4, <1>6, <1>7

\* What the server makes of a request that it does not refuse.
LEMMA ServedGoesOn ==
  ASSUME PagesAssumption, NEW s \in DOMAIN Consoles, NEW d, DrawConsole(s)!IsDraw(d),
         NEW ask, NEW national \in BOOLEAN,
         ask.kind \in {"transition", "freeze", "execute", "publish", "abandon", "call", "accept", "decline"},
         ask.kind = "transition" => d.version < Consoles[s].edits,
         ask.kind = "abandon" => ask.place \in Consoles[s].winners,
         ask.kind \in {"accept", "decline"} => ask.reserve \in Consoles[s].positions,
         DrawConsole(s)!Served(d, ask, national) # Nothing
  PROVE  GoesOnTo(s, d, DrawConsole(s)!Served(d, ask, national))
  <1> DEFINE e == DrawConsole(s)!Served(d, ask, national)
  <1>1. CASE ask.kind = "transition"
    <2>1. e = DrawConsole(s)!Transition(d, ask.to, national)
      BY <1>1 DEF DrawConsole!Served
    <2> QED
      BY <1>1, <2>1, StatusGoesOn
  <1>2. CASE ask.kind \in {"freeze", "execute", "publish"}
    <2>1. \/ e = DrawConsole(s)!FreezePool(d) \/ e = DrawConsole(s)!ExecuteDraw(d)
          \/ e = DrawConsole(s)!PublishResult(d)
      BY <1>2 DEF DrawConsole!Served
    <2> QED
      BY <2>1, StatusGoesOn
  <1>3. CASE ask.kind = "abandon"
    <2>1. e = DrawConsole(s)!AbandonWinner(d, ask.place)
      BY <1>3 DEF DrawConsole!Served
    <2> QED
      BY <1>3, <2>1, StatusGoesOn
  <1>4. CASE ask.kind = "call"
    <2>1. e = DrawConsole(s)!CallReserve(d, ask.reserve, ask.place)
      BY <1>4 DEF DrawConsole!Served
    <2> QED
      BY <2>1, ReservesGoOn
  <1>5. CASE ask.kind \in {"accept", "decline"}
    <2>1. \/ e = DrawConsole(s)!AcceptReserve(d, ask.reserve)
          \/ e = DrawConsole(s)!DeclineReserve(d, ask.reserve)
      BY <1>5 DEF DrawConsole!Served
    <2> QED
      BY <1>5, <2>1, ReservesGoOn
  <1> QED
    BY <1>1, <1>2, <1>3, <1>4, <1>5

------------------------------------------------------------------------------
(* What the pages hold. *)

LEMMA DrawArrives ==
  ASSUME NEW T, NEW P, NEW R, NEW A, NEW v \in PageOf(T, P, R, A), NEW x \in T,
         NEW e, e = [v EXCEPT !.draw = x]
  PROVE  /\ e \in PageOf(T, P, R, A)
         /\ e.draw = x /\ e.pool = v.pool /\ e.result = v.result /\ e.live = v.live /\ e.dialog = v.dialog
  BY DEF PageOf

LEMMA PoolArrives ==
  ASSUME NEW T, NEW P, NEW R, NEW A, NEW v \in PageOf(T, P, R, A), NEW x \in P,
         NEW e, e = [v EXCEPT !.pool = x]
  PROVE  /\ e \in PageOf(T, P, R, A)
         /\ e.draw = v.draw /\ e.pool = x /\ e.result = v.result /\ e.live = v.live /\ e.dialog = v.dialog
  BY DEF PageOf

LEMMA ResultArrives ==
  ASSUME NEW T, NEW P, NEW R, NEW A, NEW v \in PageOf(T, P, R, A), NEW x \in R,
         NEW e, e = [v EXCEPT !.result = x]
  PROVE  /\ e \in PageOf(T, P, R, A)
         /\ e.draw = v.draw /\ e.pool = v.pool /\ e.result = x /\ e.live = v.live /\ e.dialog = v.dialog
  BY DEF PageOf

LEMMA DialogMoves ==
  ASSUME NEW T, NEW P, NEW R, NEW A, NEW v \in PageOf(T, P, R, A), NEW x \in A,
         NEW e, e = [v EXCEPT !.dialog = x]
  PROVE  /\ e \in PageOf(T, P, R, A)
         /\ e.draw = v.draw /\ e.pool = v.pool /\ e.result = v.result /\ e.live = v.live /\ e.dialog = x
  BY DEF PageOf

ShowsNow(v, x) == [v EXCEPT !.dialog = Nothing, !.live = x]

LEMMA ResultIsShown ==
  ASSUME NEW T, NEW P, NEW R, NEW A, NEW v \in PageOf(T, P, R, A), NEW x \in R, Nothing \in A
  PROVE  /\ ShowsNow(v, x) \in PageOf(T, P, R, A)
         /\ ShowsNow(v, x).draw = v.draw /\ ShowsNow(v, x).pool = v.pool
         /\ ShowsNow(v, x).result = v.result /\ ShowsNow(v, x).live = x
         /\ ShowsNow(v, x).dialog = Nothing
  <1>1. ShowsNow(v, x) \in PageOf(T, P, R, A)
    BY DEF PageOf, ShowsNow
  <1>2. ShowsNow(v, x).draw = v.draw /\ ShowsNow(v, x).pool = v.pool /\ ShowsNow(v, x).result = v.result
    BY DEF PageOf, ShowsNow
  <1>3. ShowsNow(v, x).live = x
    BY DEF PageOf, ShowsNow
  <1>4. ShowsNow(v, x).dialog = Nothing
    BY DEF PageOf, ShowsNow
  <1> QED
    BY <1>1, <1>2, <1>3, <1>4

LEMMA RequestFields ==
  ASSUME NEW s, NEW q \in Requests(s)
  PROVE  /\ q.kind \in {"transition", "freeze", "execute", "publish", "abandon", "call", "accept", "decline"}
         /\ q.kind = "abandon" => q.place \in Consoles[s].winners
         /\ q.kind \in {"call", "accept", "decline"} => q.reserve \in Consoles[s].positions
  BY DEF Requests

LEMMA ViewsOfADraw ==
  ASSUME NEW s, NEW d, DrawConsole(s)!IsDraw(d)
  PROVE  /\ DrawConsole(s)!DrawView(d) \in DrawViews(s)
         /\ DrawConsole(s)!PoolView(d) \in PoolViews(s)
         /\ DrawConsole(s)!ResultView(d) \in ResultViews(s)
         /\ DrawConsole(s)!DrawView(d).status = d.status /\ DrawConsole(s)!DrawView(d).spots = d.spots
         /\ DrawConsole(s)!ResultView(d) # Nothing => DrawConsole(s)!ResultView(d).reserve = d.reserve
  <1>1. /\ d.status \in DrawConsole(s)!CommuneDrawStatus /\ d.spots \in Consoles[s].spots
        /\ d.pool \in [spots : Consoles[s].spots] \cup {Nothing} /\ d.published \in BOOLEAN
        /\ d.abandoned \in SUBSET Consoles[s].winners /\ d.reserve \in DrawConsole(s)!Reserves
    BY DEF DrawConsole!IsDraw, DrawConsole!Draws
  <1>2. DrawConsole(s)!DrawView(d) \in DrawViews(s)
    BY <1>1 DEF DrawViews, DrawConsole!DrawView
  <1>3. DrawConsole(s)!PoolView(d) \in PoolViews(s)
    BY <1>1 DEF PoolViews, DrawConsole!PoolView
  <1>4. DrawConsole(s)!ResultView(d) \in ResultViews(s)
    BY <1>1 DEF ResultViews, DrawConsole!ResultView
  <1>5. DrawConsole(s)!DrawView(d).status = d.status /\ DrawConsole(s)!DrawView(d).spots = d.spots
    BY DEF DrawConsole!DrawView
  <1>6. DrawConsole(s)!ResultView(d) # Nothing => DrawConsole(s)!ResultView(d).reserve = d.reserve
    BY DEF DrawConsole!ResultView
  <1> QED
    BY <1>2, <1>3, <1>4, <1>5, <1>6

\* What was true of a draw is true of what it became.
LEMMA ViewsStayTrue ==
  ASSUME NEW s, NEW v, NEW d, NEW e, ViewIsTrue(s, v, d), GoesOnTo(s, d, e) \/ e = d
  PROVE  ViewIsTrue(s, v, e)
  BY DEF ViewIsTrue, GoesOnTo, PlacesAreKept

\* One page comes to hold something else; the draw may have gone on.
LEMMA PageIsHeld ==
  ASSUME NEW s \in DOMAIN Consoles, ConsoleIInv(s), NEW p \in Consoles[s].pages,
         NEW v \in PageSet(s), DrawConsole(s)!HoldOn(p, v), editor' = editor,
         GoesOnTo(s, draw, draw') \/ draw' = draw,
         ViewIsTrue(s, v, draw'), DialogIsBacked(s, v),
         DrawConsole(s)!ExecutesAsShown', DrawConsole(s)!AnswersForThePlaceShown'
  PROVE  ConsoleIInv(s)'
  <1> DEFINE All == PageSet(s)
  <1>1. page \in [Consoles[s].pages -> All] /\ page' = [page EXCEPT ![p] = v] /\ v \in All
    BY DEF ConsoleIInv, DrawConsole!HoldOn
  <1> HIDE DEF All
  <1>2. /\ page' \in [Consoles[s].pages -> All]
        /\ \A q \in Consoles[s].pages : page'[q] = IF q = p THEN v ELSE page[q]
    BY <1>1
  <1>3. DrawConsole(s)!IsDraw(draw)'
    <2>1. DrawConsole(s)!IsDraw(draw')
      BY DEF ConsoleIInv, GoesOnTo
    <2> QED
      BY <2>1 DEF DrawConsole!IsDraw, DrawConsole!Draws, DrawConsole!Reserves, DrawConsole!CommuneDrawStatus
  <1>4. PagesAreTrue(s)'
    <2>1. ASSUME NEW q \in Consoles[s].pages
          PROVE  ViewIsTrue(s, page'[q], draw') /\ DialogIsBacked(s, page'[q])
      <3>1. CASE q = p
        BY <1>2, <3>1
      <3>2. CASE q # p
        BY <1>2, <3>2, ViewsStayTrue DEF ConsoleIInv, PagesAreTrue
      <3> QED
        BY <3>1, <3>2
    <2> QED
      BY <2>1 DEF PagesAreTrue, ViewIsTrue, DialogIsBacked, PlacesAreKept, Final,
         DrawConsole!CurrentResult
  <1>5. DraftsAreTyped(s)' /\ (editor \in [Consoles[s].editors -> DraftSet(s) \cup {Nothing}])'
    BY DEF ConsoleIInv, DraftsAreTyped, DraftSet, DrawConsole!Draws, DrawConsole!Reserves,
       DrawConsole!CommuneDrawStatus
  <1> QED
    BY <1>2, <1>3, <1>4, <1>5 DEF ConsoleIInv, All, PageSet

LEMMA PageIsTyped ==
  ASSUME NEW s \in DOMAIN Consoles, ConsoleIInv(s), NEW p \in Consoles[s].pages
  PROVE  /\ page[p] \in PageSet(s)
         /\ page[p] \in PageOf(DrawViews(s), PoolViews(s), ResultViews(s), Requests(s) \cup {Nothing})
         /\ ViewIsTrue(s, page[p], draw) /\ DialogIsBacked(s, page[p])
         /\ DrawConsole(s)!IsDraw(draw)
  BY DEF ConsoleIInv, PagesAreTrue, PageSet

LEMMA LastStays ==
  ASSUME NEW s, ConsoleIInv(s), last' = last
  PROVE  DrawConsole(s)!ExecutesAsShown' /\ DrawConsole(s)!AnswersForThePlaceShown'
  BY DEF ConsoleIInv, DrawConsole!ExecutesAsShown, DrawConsole!AnswersForThePlaceShown

LEMMA LoadIsTrue ==
  ASSUME NEW s \in DOMAIN Consoles, ConsoleIInv(s), NEW p \in Consoles[s].pages,
         NEW part \in {"draw", "pool", "result"}, DrawConsole(s)!Load(p, part)
  PROVE  ConsoleIInv(s)'
  <1> DEFINE v == page[p]
             T == DrawViews(s)
             P == PoolViews(s)
             R == ResultViews(s)
             A == Requests(s) \cup {Nothing}
  <1>1. /\ v[part] = Awaited /\ editor' = editor /\ draw' = draw /\ last' = last
        /\ v \in PageOf(T, P, R, A) /\ PageSet(s) = PageOf(T, P, R, A)
        /\ ViewIsTrue(s, v, draw) /\ DialogIsBacked(s, v) /\ DrawConsole(s)!IsDraw(draw)
    BY PageIsTyped DEF DrawConsole!Load, PageSet
  <1>2. DrawConsole(s)!ExecutesAsShown' /\ DrawConsole(s)!AnswersForThePlaceShown'
    BY <1>1, LastStays
  <1>3. CASE part = "draw"
    <2> DEFINE x == DrawConsole(s)!DrawView(draw)
               e == [v EXCEPT !.draw = x]
    <2>1. DrawConsole(s)!HoldOn(p, e)
      BY <1>3 DEF DrawConsole!Load
    <2>2. x \in T /\ x.status = draw.status /\ x.spots = draw.spots
      BY <1>1, ViewsOfADraw
    <2>3. v \in PageOf(T, P, R, A) /\ v.draw = Awaited
      BY <1>1, <1>3
    <2> HIDE DEF T, P, R, A, x, v
    <2>4. /\ e \in PageOf(T, P, R, A) /\ e.draw = x /\ e.pool = v.pool /\ e.result = v.result
          /\ e.live = v.live /\ e.dialog = v.dialog
      BY <2>2, <2>3, DrawArrives
    <2> HIDE DEF e
    <2>5. ViewIsTrue(s, e, draw')
      BY <1>1, <2>2, <2>4 DEF ViewIsTrue, Final
    <2>6. DialogIsBacked(s, e)
      BY <1>1, <2>3, <2>4 DEF DialogIsBacked
    <2> QED
      BY <1>1, <1>2, <2>1, <2>4, <2>5, <2>6, PageIsHeld
  <1>4. CASE part = "pool"
    <2> DEFINE x == DrawConsole(s)!PoolView(draw)
               e == [v EXCEPT !.pool = x]
    <2>1. DrawConsole(s)!HoldOn(p, e)
      BY <1>4 DEF DrawConsole!Load
    <2>2. x \in P /\ x = draw.pool
      BY <1>1, ViewsOfADraw DEF DrawConsole!PoolView
    <2> HIDE DEF T, P, R, A, x, v
    <2>4. /\ e \in PageOf(T, P, R, A) /\ e.draw = v.draw /\ e.pool = x /\ e.result = v.result
          /\ e.live = v.live /\ e.dialog = v.dialog
      BY <1>1, <2>2, PoolArrives
    <2> HIDE DEF e
    <2>5. ViewIsTrue(s, e, draw')
      BY <1>1, <2>2, <2>4 DEF ViewIsTrue, Final
    <2>6. DialogIsBacked(s, e)
      BY <1>1, <2>4 DEF DialogIsBacked, DrawConsole!CurrentResult
    <2> QED
      BY <1>1, <1>2, <2>1, <2>4, <2>5, <2>6, PageIsHeld
  <1>5. CASE part = "result"
    <2> DEFINE x == DrawConsole(s)!ResultView(draw)
               e == [v EXCEPT !.result = x]
    <2>1. DrawConsole(s)!HoldOn(p, e)
      BY <1>5 DEF DrawConsole!Load
    <2>2. x \in R /\ (x # Nothing => x.reserve = draw.reserve)
      BY <1>1, ViewsOfADraw
    <2>3. v.result = Awaited
      BY <1>1, <1>5
    <2> HIDE DEF T, P, R, A, x, v
    <2>4. /\ e \in PageOf(T, P, R, A) /\ e.draw = v.draw /\ e.pool = v.pool /\ e.result = x
          /\ e.live = v.live /\ e.dialog = v.dialog
      BY <1>1, <2>2, ResultArrives
    <2> HIDE DEF e
    <2>5. ViewIsTrue(s, e, draw')
      BY <1>1, <2>2, <2>4 DEF ViewIsTrue, Final, PlacesAreKept
    <2>6. DialogIsBacked(s, e)
      BY <1>1, <2>3, <2>4 DEF DialogIsBacked, DrawConsole!CurrentResult
    <2> QED
      BY <1>1, <1>2, <2>1, <2>4, <2>5, <2>6, PageIsHeld
  <1> QED
    BY <1>3, <1>4, <1>5

\* A page that has loaded nothing yet says nothing wrong.
LEMMA BlankIsTrue ==
  ASSUME NEW s, NEW d
  PROVE  /\ DrawConsole(s)!Blank \in PageSet(s)
         /\ ViewIsTrue(s, DrawConsole(s)!Blank, d) /\ DialogIsBacked(s, DrawConsole(s)!Blank)
  <1>1. DrawConsole(s)!Blank \in PageSet(s)
    <2>1. /\ Awaited \in DrawViews(s) /\ Awaited \in PoolViews(s)
          /\ Awaited \in ResultViews(s) /\ Nothing \in ResultViews(s)
      BY DEF DrawViews, PoolViews, ResultViews
    <2> QED
      BY <2>1 DEF DrawConsole!Blank, PageSet, PageOf
  <1>2. ViewIsTrue(s, DrawConsole(s)!Blank, d) /\ DialogIsBacked(s, DrawConsole(s)!Blank)
    BY DEF DrawConsole!Blank, ViewIsTrue, DialogIsBacked
  <1> QED
    BY <1>1, <1>2

LEMMA RefreshIsTrue ==
  ASSUME NEW s \in DOMAIN Consoles, ConsoleIInv(s), NEW p \in Consoles[s].pages,
         DrawConsole(s)!Refresh(p)
  PROVE  ConsoleIInv(s)'
  <1>1. /\ DrawConsole(s)!HoldOn(p, DrawConsole(s)!Blank)
        /\ editor' = editor /\ draw' = draw /\ last' = last
    BY DEF DrawConsole!Refresh
  <1>2. /\ DrawConsole(s)!Blank \in PageSet(s)
        /\ ViewIsTrue(s, DrawConsole(s)!Blank, draw') /\ DialogIsBacked(s, DrawConsole(s)!Blank)
    BY BlankIsTrue
  <1>3. DrawConsole(s)!ExecutesAsShown' /\ DrawConsole(s)!AnswersForThePlaceShown'
    BY <1>1, LastStays
  <1> QED
    BY <1>1, <1>2, <1>3, PageIsHeld

\* What a page offers, its own view bears out.
LEMMA OffersAreBacked ==
  ASSUME PagesAssumption, NEW s \in DOMAIN Consoles, NEW v, NEW national,
         NEW ask \in DrawConsole(s)!Offered(v, national)
  PROVE  /\ ask \in Requests(s)
         /\ ask.kind = "execute" => v.draw.status = "LOCKED"
         /\ ask.kind \in {"accept", "decline"} =>
              /\ DrawConsole(s)!CurrentResult(v) # Nothing
              /\ DrawConsole(s)!CurrentResult(v).reserve[ask.reserve].status = "CALLED"
  <1> DEFINE result0 == DrawConsole(s)!CurrentResult(v)
             C == DrawConsole(s)!Called(result0)
  <1>1. CASE ask \in {[kind |-> "transition", to |-> t] : t \in DrawConsole(s)!CommuneDrawStatus}
    BY <1>1 DEF Requests
  <1>2. CASE ask = [kind |-> "freeze"] \/ ask = [kind |-> "publish"]
    BY <1>2 DEF Requests
  <1>3. CASE ask = [kind |-> "execute"] /\ DrawConsole(s)!Executable(v)
    BY <1>3 DEF Requests, DrawConsole!Executable
  <1>4. CASE ask \in {[kind |-> "abandon", place |-> w] : w \in Consoles[s].winners}
    BY <1>4 DEF Requests
  <1>5. CASE ask \in {[kind |-> "call", reserve |-> r] : r \in Consoles[s].positions}
    BY <1>5 DEF Requests
  <1>6. CASE /\ result0 # Nothing /\ C # {}
             /\ ask \in {[kind |-> k, reserve |-> DrawConsole(s)!First(C)] : k \in {"accept", "decline"}}
    <2>1. C \subseteq Consoles[s].positions /\ Consoles[s].positions \subseteq Nat
      BY ConsoleConstants DEF DrawConsole!Called, DrawConsole!ConsoleAssumption
    <2>2. \E x \in C : \A y \in C : x <= y
      <3> HIDE DEF C
      <3>1. C \in SUBSET Nat /\ C # {}
        BY <1>6, <2>1
      <3> QED
        BY <3>1, LeastNumber
    <2>3. DrawConsole(s)!First(C) \in C
      <3> HIDE DEF C
      <3> QED
        BY <2>2 DEF DrawConsole!First
    <2>4. /\ DrawConsole(s)!First(C) \in Consoles[s].positions
          /\ result0.reserve[DrawConsole(s)!First(C)].status = "CALLED"
      BY <2>3 DEF DrawConsole!Called
    <2> HIDE DEF C, result0
    <2>5. PICK k \in {"accept", "decline"} : ask = [kind |-> k, reserve |-> DrawConsole(s)!First(C)]
      BY <1>6
    <2>6. ask.kind = k /\ ask.reserve = DrawConsole(s)!First(C)
      BY <2>5
    <2>7. ask \in Requests(s)
      BY <2>4, <2>5 DEF Requests
    <2> QED
      BY <1>6, <2>4, <2>6, <2>7 DEF result0
  <1>7. \/ ask \in {[kind |-> "transition", to |-> t] : t \in DrawConsole(s)!CommuneDrawStatus}
        \/ ask = [kind |-> "freeze"]
        \/ ask = [kind |-> "execute"] /\ DrawConsole(s)!Executable(v)
        \/ result0 # Nothing /\ ask \in DrawConsole(s)!OfferedForResult(result0)
    BY DEF DrawConsole!Offered
  <1>8. ASSUME result0 # Nothing, ask \in DrawConsole(s)!OfferedForResult(result0)
        PROVE  \/ ask = [kind |-> "publish"]
               \/ ask \in {[kind |-> "abandon", place |-> w] : w \in Consoles[s].winners}
               \/ ask \in DrawConsole(s)!OfferedForReserves(result0)
    BY <1>8 DEF DrawConsole!OfferedForResult
  <1>9. ASSUME result0 # Nothing, ask \in DrawConsole(s)!OfferedForReserves(result0)
        PROVE  \/ ask \in {[kind |-> "call", reserve |-> r] : r \in Consoles[s].positions}
               \/ /\ C # {}
                  /\ ask \in {[kind |-> k, reserve |-> DrawConsole(s)!First(C)] : k \in {"accept", "decline"}}
    BY <1>9 DEF DrawConsole!OfferedForReserves, DrawConsole!NextWaiting
  <1> QED
    BY <1>1, <1>2, <1>3, <1>4, <1>5, <1>6, <1>7, <1>8, <1>9

LEMMA DialogsAreTrue ==
  ASSUME PagesAssumption, NEW s \in DOMAIN Consoles, ConsoleIInv(s), NEW p \in Consoles[s].pages,
         DrawConsole(s)!OpenDialog(p) \/ DrawConsole(s)!Dismiss(p)
  PROVE  ConsoleIInv(s)'
  <1> DEFINE v == page[p]
             T == DrawViews(s)
             P == PoolViews(s)
             R == ResultViews(s)
             A == Requests(s) \cup {Nothing}
  <1>1. PICK x : /\ DrawConsole(s)!HoldOn(p, [v EXCEPT !.dialog = x])
                 /\ \/ x = Nothing
                    \/ v.draw # Awaited
                       /\ x \in DrawConsole(s)!Offered(v, p \in Consoles[s].national)
    BY DEF DrawConsole!OpenDialog, DrawConsole!Dismiss
  <1>2. editor' = editor /\ draw' = draw /\ last' = last
    BY DEF DrawConsole!OpenDialog, DrawConsole!Dismiss
  <1>3. /\ v \in PageOf(T, P, R, A) /\ PageSet(s) = PageOf(T, P, R, A)
        /\ ViewIsTrue(s, v, draw)
    BY PageIsTyped DEF PageSet
  <1>4. x # Nothing =>
          /\ v.draw # Awaited /\ x \in Requests(s)
          /\ x.kind = "execute" => v.draw.status = "LOCKED"
          /\ x.kind \in {"accept", "decline"} =>
               /\ DrawConsole(s)!CurrentResult(v) # Nothing
               /\ DrawConsole(s)!CurrentResult(v).reserve[x.reserve].status = "CALLED"
    <2> HIDE DEF v
    <2> QED
      BY <1>1, OffersAreBacked
  <1> DEFINE e == [v EXCEPT !.dialog = x]
  <1>5. x \in A
    BY <1>4
  <1> HIDE DEF T, P, R, A, v
  <1>6. /\ e \in PageOf(T, P, R, A) /\ e.draw = v.draw /\ e.pool = v.pool /\ e.result = v.result
        /\ e.live = v.live /\ e.dialog = x
    BY <1>3, <1>5, DialogMoves
  <1> HIDE DEF e
  <1>7. ViewIsTrue(s, e, draw')
    BY <1>2, <1>3, <1>6 DEF ViewIsTrue
  <1>8. DialogIsBacked(s, e)
    BY <1>4, <1>6 DEF DialogIsBacked, DrawConsole!CurrentResult
  <1>9. DrawConsole(s)!ExecutesAsShown' /\ DrawConsole(s)!AnswersForThePlaceShown'
    BY <1>2, LastStays
  <1> QED
    BY <1>1, <1>2, <1>3, <1>6, <1>7, <1>8, <1>9, PageIsHeld DEF e

\* What a page asked for is served on what it showed.
LEMMA ConfirmIsTrue ==
  ASSUME PagesAssumption, NEW s \in DOMAIN Consoles, ConsoleIInv(s), NEW p \in Consoles[s].pages,
         DrawConsole(s)!Confirm(p)
  PROVE  ConsoleIInv(s)'
  <1> DEFINE v == page[p]
             ask == DrawConsole(s)!Request(v)
             national == p \in Consoles[s].national
             next == DrawConsole(s)!Served(draw, ask, national)
             T == DrawViews(s)
             P == PoolViews(s)
             R == ResultViews(s)
             A == Requests(s) \cup {Nothing}
             now == DrawConsole(s)!ResultView(next)
             e == IF next = Nothing THEN v
                  ELSE IF ask.kind \in {"abandon", "call", "accept", "decline"}
                  THEN ShowsNow(v, now) ELSE DrawConsole(s)!Blank
  <1>1. /\ v.draw # Awaited /\ v.dialog # Nothing
        /\ v.dialog.kind = "transition" => draw.version < Consoles[s].edits
        /\ draw' = IF next = Nothing THEN draw ELSE next
        /\ last' = [kind |-> ask.kind, accepted |-> next # Nothing, fresh |-> DrawConsole(s)!IsFresh(v),
                    shown |-> DrawConsole(s)!Facts(v, ask), acted |-> DrawConsole(s)!Truth(ask)]
        /\ DrawConsole(s)!HoldOn(p, e)
        /\ editor' = editor
    BY DEF DrawConsole!Confirm, ShowsNow
  <1>2. /\ v \in PageOf(T, P, R, A) /\ PageSet(s) = PageOf(T, P, R, A)
        /\ ViewIsTrue(s, v, draw) /\ DialogIsBacked(s, v) /\ DrawConsole(s)!IsDraw(draw)
    BY PageIsTyped DEF PageSet
  <1>3. v.dialog \in Requests(s)
    BY <1>1, <1>2 DEF PageOf
  <1>4. /\ ask.kind = v.dialog.kind
        /\ ask.kind # "call" => ask = v.dialog
        /\ ask.kind \in {"transition", "freeze", "execute", "publish", "abandon", "call", "accept", "decline"}
        /\ ask.kind = "abandon" => ask.place \in Consoles[s].winners
        /\ ask.kind \in {"accept", "decline"} => ask.reserve \in Consoles[s].positions
    BY <1>3, RequestFields DEF DrawConsole!Request
  <1> HIDE DEF ask, T, P, R, A
  <1>5. next # Nothing => GoesOnTo(s, draw, next)
    <2>1. national \in BOOLEAN
      OBVIOUS
    <2> HIDE DEF national
    <2> QED
      BY <1>1, <1>2, <1>4, <2>1, ServedGoesOn
  <1>6. GoesOnTo(s, draw, draw') \/ draw' = draw
    BY <1>1, <1>5
  <1> HIDE DEF next
  <1>7. /\ e \in PageSet(s) /\ ViewIsTrue(s, e, draw') /\ DialogIsBacked(s, e)
    <2>1. CASE next = Nothing
      BY <1>1, <1>2, <2>1
    <2>2. CASE next # Nothing /\ ask.kind \in {"abandon", "call", "accept", "decline"}
      <3>1. e = ShowsNow(v, now) /\ draw' = next /\ DrawConsole(s)!IsDraw(next)
        BY <1>1, <1>5, <2>2 DEF GoesOnTo
      <3>2. now \in R /\ (now # Nothing => now.reserve = next.reserve)
        BY <3>1, ViewsOfADraw DEF R
      <3>3. Nothing \in A
        BY DEF A
      <3> HIDE DEF e, now, v
      <3>4. /\ e \in PageOf(T, P, R, A)
            /\ e.draw = v.draw /\ e.pool = v.pool
            /\ e.result = v.result /\ e.live = now /\ e.dialog = Nothing
        BY <1>2, <3>1, <3>2, <3>3, ResultIsShown
      <3>5. ViewIsTrue(s, v, next)
        BY <1>2, <1>6, <3>1, ViewsStayTrue
      <3>6. ViewIsTrue(s, e, next)
        BY <3>2, <3>4, <3>5 DEF ViewIsTrue, PlacesAreKept
      <3>7. DialogIsBacked(s, e)
        BY <3>4 DEF DialogIsBacked
      <3> QED
        BY <1>2, <3>1, <3>4, <3>6, <3>7
    <2>3. CASE next # Nothing /\ ask.kind \notin {"abandon", "call", "accept", "decline"}
      BY <2>3, BlankIsTrue
    <2> QED
      BY <2>1, <2>2, <2>3
  <1>8. DrawConsole(s)!ExecutesAsShown'
    <2> SUFFICES ASSUME last'.kind = "execute" PROVE last'.shown = last'.acted
      BY DEF DrawConsole!ExecutesAsShown
    <2>1. ask.kind = "execute"
      BY <1>1
    <2>2. v.draw.status = "LOCKED"
      BY <1>1, <1>2, <1>4, <2>1 DEF DialogIsBacked
    <2>3. v.draw.spots = draw.spots /\ (v.pool \notin {Nothing, Awaited} => v.pool = draw.pool)
      BY <1>1, <1>2, <2>2 DEF ViewIsTrue, Final
    <2>4. DrawConsole(s)!Facts(v, ask) = [spots |-> v.draw.spots,
                pool |-> IF v.pool \in {Nothing, Awaited} THEN draw.pool ELSE v.pool]
      BY <2>1 DEF DrawConsole!Facts
    <2>5. DrawConsole(s)!Truth(ask) = [spots |-> draw.spots, pool |-> draw.pool]
      BY <2>1 DEF DrawConsole!Truth
    <2>6. last'.shown = DrawConsole(s)!Facts(v, ask) /\ last'.acted = DrawConsole(s)!Truth(ask)
      BY <1>1
    <2> QED
      BY <2>3, <2>4, <2>5, <2>6
  <1>9. DrawConsole(s)!AnswersForThePlaceShown'
    <2> SUFFICES ASSUME last'.kind \in {"accept", "decline"} PROVE last'.shown = last'.acted
      BY DEF DrawConsole!AnswersForThePlaceShown
    <2>1. ask.kind \in {"accept", "decline"} /\ ask = v.dialog /\ ask.reserve \in Consoles[s].positions
      BY <1>1, <1>4
    <2> DEFINE seen == DrawConsole(s)!CurrentResult(v)
    <2>2. seen # Nothing /\ seen.reserve[ask.reserve].status = "CALLED"
      BY <1>1, <1>2, <2>1 DEF DialogIsBacked
    <2>3. PlacesAreKept(s, seen, draw)
      BY <1>2, <2>2 DEF ViewIsTrue, DrawConsole!CurrentResult
    <2>4. seen.reserve[ask.reserve].place = draw.reserve[ask.reserve].place
      BY <2>1, <2>2, <2>3 DEF PlacesAreKept
    <2>5. DrawConsole(s)!Facts(v, ask) = [place |-> seen.reserve[ask.reserve].place]
      BY <2>1 DEF DrawConsole!Facts
    <2>6. DrawConsole(s)!Truth(ask) = [place |-> draw.reserve[ask.reserve].place]
      BY <2>1 DEF DrawConsole!Truth
    <2>7. last'.shown = DrawConsole(s)!Facts(v, ask) /\ last'.acted = DrawConsole(s)!Truth(ask)
      BY <1>1
    <2> QED
      BY <2>4, <2>5, <2>6, <2>7
  <1> HIDE DEF e
  <1> QED
    BY <1>1, <1>6, <1>7, <1>8, <1>9, PageIsHeld

------------------------------------------------------------------------------
(* What the editing dialogs hold. *)

LEMMA EditorIsHeld ==
  ASSUME NEW s \in DOMAIN Consoles, ConsoleIInv(s), NEW a \in Consoles[s].editors,
         NEW b, DrawConsole(s)!Edit(a, b), page' = page,
         GoesOnTo(s, draw, draw') \/ draw' = draw,
         b # Nothing => /\ b \in DraftSet(s)
                        /\ b.seeded => b.typed \in Consoles[s].spots
                        /\ b.view # Awaited => b.seeded,
         DrawConsole(s)!ExecutesAsShown', DrawConsole(s)!AnswersForThePlaceShown'
  PROVE  ConsoleIInv(s)'
  <1> DEFINE All == DraftSet(s) \cup {Nothing}
  <1>1. editor \in [Consoles[s].editors -> All] /\ editor' = [editor EXCEPT ![a] = b] /\ b \in All
    BY DEF ConsoleIInv, DrawConsole!Edit
  <1> HIDE DEF All
  <1>2. /\ editor' \in [Consoles[s].editors -> All]
        /\ \A c \in Consoles[s].editors : editor'[c] = IF c = a THEN b ELSE editor[c]
    BY <1>1
  <1>3. DrawConsole(s)!IsDraw(draw)'
    <2>1. DrawConsole(s)!IsDraw(draw')
      BY DEF ConsoleIInv, GoesOnTo
    <2> QED
      BY <2>1 DEF DrawConsole!IsDraw, DrawConsole!Draws, DrawConsole!Reserves, DrawConsole!CommuneDrawStatus
  <1>4. PagesAreTrue(s)'
    <2>1. ASSUME NEW q \in Consoles[s].pages
          PROVE  ViewIsTrue(s, page[q], draw') /\ DialogIsBacked(s, page[q])
      BY ViewsStayTrue DEF ConsoleIInv, PagesAreTrue
    <2> QED
      BY <2>1 DEF PagesAreTrue, ViewIsTrue, DialogIsBacked, PlacesAreKept, Final,
         DrawConsole!CurrentResult
  <1>5. DraftsAreTyped(s)'
    <2>1. ASSUME NEW c \in Consoles[s].editors, editor'[c] # Nothing
          PROVE  /\ editor'[c] \in DraftSet(s)
                 /\ editor'[c].seeded => editor'[c].typed \in Consoles[s].spots
                 /\ editor'[c].view # Awaited => editor'[c].seeded
      <3>1. CASE c = a
        BY <1>2, <2>1, <3>1
      <3>2. CASE c # a
        BY <1>2, <2>1, <3>2 DEF ConsoleIInv, DraftsAreTyped
      <3> QED
        BY <3>1, <3>2
    <2> QED
      BY <2>1 DEF DraftsAreTyped, DraftSet, DrawConsole!Draws, DrawConsole!Reserves,
         DrawConsole!CommuneDrawStatus
  <1>6. (page \in [Consoles[s].pages -> PageSet(s)])'
    BY DEF ConsoleIInv, PageSet
  <1>7. (editor \in [Consoles[s].editors -> DraftSet(s) \cup {Nothing}])'
    BY <1>2 DEF All, DraftSet
  <1> QED
    BY <1>3, <1>4, <1>5, <1>6, <1>7 DEF ConsoleIInv

LEMMA DraftLoads ==
  ASSUME NEW V, NEW T, NEW b \in DraftOf(V, T), NEW x \in V, NEW e, e = [b EXCEPT !.view = x]
  PROVE  e \in DraftOf(V, T) /\ e.view = x /\ e.typed = b.typed /\ e.seeded = b.seeded
  BY DEF DraftOf

LEMMA DraftIsTyped ==
  ASSUME NEW V, NEW T, NEW b \in DraftOf(V, T), NEW x \in T, NEW e, e = [b EXCEPT !.typed = x]
  PROVE  e \in DraftOf(V, T) /\ e.view = b.view /\ e.typed = x /\ e.seeded = b.seeded
  BY DEF DraftOf

Seeded(b, d) == [b EXCEPT !.view = d, !.typed = d.spots, !.seeded = TRUE, !.seen = d.spots]

LEMMA DraftIsSeeded ==
  ASSUME NEW V, NEW T, NEW b \in DraftOf(V, T), NEW d \in V, d.spots \in T
  PROVE  /\ Seeded(b, d) \in DraftOf(V, T) /\ Seeded(b, d).view = d
         /\ Seeded(b, d).typed = d.spots /\ Seeded(b, d).seeded
  <1>1. Seeded(b, d) \in DraftOf(V, T)
    BY DEF DraftOf, Seeded
  <1>2. Seeded(b, d).view = d
    BY DEF DraftOf, Seeded
  <1>3. Seeded(b, d).typed = d.spots
    BY DEF DraftOf, Seeded
  <1>4. Seeded(b, d).seeded
    BY DEF DraftOf, Seeded
  <1> QED
    BY <1>1, <1>2, <1>3, <1>4

\* An allocation that is edited was not final, and its draw has no pool.
Edited(d, spots) == [d EXCEPT !.spots = spots, !.version = @ + 1]

LEMMA RowIsEdited ==
  ASSUME NEW T, NEW S, NEW P, NEW W, NEW R, NEW d \in RowOf(T, S, P, W, R), NEW x \in S
  PROVE  LET e == Edited(d, x) IN
         /\ e \in RowOf(T, S, P, W, R)
         /\ e.status = d.status /\ e.version = d.version + 1
         /\ e.pool = d.pool /\ e.reserve = d.reserve
  <1> DEFINE n == d.version + 1
             f == [d EXCEPT !.spots = x, !.version = n]
  <1>1. n \in Nat
    BY DEF RowOf
  <1>2. Edited(d, x) = f
    BY DEF RowOf, Edited
  <1> HIDE DEF n
  <1>3. f \in RowOf(T, S, P, W, R)
    BY <1>1 DEF RowOf
  <1>4. f.status = d.status /\ f.version = n /\ f.pool = d.pool /\ f.reserve = d.reserve
    BY <1>1, <1>3 DEF RowOf
  <1> HIDE DEF f
  <1> QED
    BY <1>2, <1>3, <1>4 DEF n

LEMMA EditGoesOn ==
  ASSUME PagesAssumption, NEW s \in DOMAIN Consoles, NEW d, DrawConsole(s)!IsDraw(d),
         NEW x \in Consoles[s].spots, d.version < Consoles[s].edits,
         DrawConsole(s)!AllowsSpotChanges(d.status)
  PROVE  GoesOnTo(s, d, Edited(d, x))
  <1> DEFINE T == DrawConsole(s)!CommuneDrawStatus
             S == Consoles[s].spots
             P == [spots : Consoles[s].spots] \cup {Nothing}
             W == SUBSET Consoles[s].winners
             R == DrawConsole(s)!Reserves
             e == Edited(d, x)
  <1>1. DrawConsole(s)!Draws = RowOf(T, S, P, W, R) /\ d \in RowOf(T, S, P, W, R) /\ x \in S
    BY RowIsDraw DEF DrawConsole!IsDraw
  <1>2. d \in RowOf(T, S, P, W, R) /\ x \in S
    BY <1>1
  <1>3. /\ ~ Final(d) /\ d.pool = Nothing /\ d.version \in Nat /\ Consoles[s].edits \in Nat
    BY DrawFields, ConsoleConstants DEF DrawConsole!IsDraw, Final, DrawConsole!AllowsSpotChanges,
       DrawConsole!ConsoleAssumption
  <1> HIDE DEF T, S, P, W, R
  <1>4. /\ e \in RowOf(T, S, P, W, R)
        /\ e.status = d.status /\ e.version = d.version + 1
        /\ e.pool = d.pool /\ e.reserve = d.reserve
    BY <1>2, RowIsEdited
  <1> HIDE DEF e
  <1>5. e \in DrawConsole(s)!Draws /\ ~ Final(e) /\ e.pool = Nothing
    BY <1>1, <1>3, <1>4 DEF Final
  <1>6. e.version <= Consoles[s].edits
    BY <1>3, <1>4
  <1>7. DrawConsole(s)!IsDraw(e)
    BY <1>3, <1>5, <1>6 DEF DrawConsole!IsDraw, Final
  <1> QED
    BY <1>3, <1>4, <1>7 DEF GoesOnTo, e

LEMMA EditorsAreTyped ==
  ASSUME PagesAssumption, NEW s \in DOMAIN Consoles, ConsoleIInv(s), NEW a \in Consoles[s].editors,
         \/ DrawConsole(s)!OpenEditor(a) \/ DrawConsole(s)!LoadEditor(a) \/ DrawConsole(s)!Type(a)
         \/ DrawConsole(s)!Submit(a) \/ DrawConsole(s)!Retry(a) \/ DrawConsole(s)!CloseEditor(a)
  PROVE  ConsoleIInv(s)'
  <1> DEFINE V == DrawConsole(s)!Draws \cup {Awaited}
             T == Consoles[s].spots \cup {Nothing}
             b == editor[a]
             Fits(x) == /\ x \in DraftSet(s)
                        /\ x.seeded => x.typed \in Consoles[s].spots
                        /\ x.view # Awaited => x.seeded
  <1>1. b # Nothing => b \in DraftOf(V, T) /\ Fits(b)
    BY DEF ConsoleIInv, DraftsAreTyped, DraftSet
  <1>2. DrawConsole(s)!IsDraw(draw) /\ draw \in DrawConsole(s)!Draws /\ draw.spots \in Consoles[s].spots
        /\ DraftSet(s) = DraftOf(V, T)
    BY DrawFields DEF ConsoleIInv, DrawConsole!IsDraw, DraftSet
  <1>3. draw \in V /\ Awaited \in V /\ draw.spots \in T /\ Nothing \in T
    BY <1>2
  <1>4. ASSUME NEW x, DrawConsole(s)!Edit(a, x), page' = page, x # Nothing => Fits(x),
               draw' = draw, last' = last
        PROVE  ConsoleIInv(s)'
    <2>1. DrawConsole(s)!ExecutesAsShown' /\ DrawConsole(s)!AnswersForThePlaceShown'
      BY <1>4, LastStays
    <2> QED
      BY <1>4, <2>1, EditorIsHeld
  <1> HIDE DEF b, T, V
  <1>5. CASE DrawConsole(s)!OpenEditor(a)
    <2> DEFINE x == [view |-> Awaited, typed |-> Nothing, seeded |-> FALSE, seen |-> Nothing,
                     failed |-> FALSE]
    <2>1. DrawConsole(s)!Edit(a, x) /\ UNCHANGED <<draw, page, last>>
      BY <1>5 DEF DrawConsole!OpenEditor
    <2>2. x \in DraftOf(V, T) /\ ~ x.seeded /\ x.view = Awaited
      BY <1>3 DEF DraftOf
    <2> HIDE DEF x
    <2> QED
      BY <1>2, <1>4, <2>1, <2>2
  <1>6. CASE DrawConsole(s)!LoadEditor(a)
    <2>1. b # Nothing /\ UNCHANGED <<draw, page, last>> /\ b \in DraftOf(V, T) /\ Fits(b)
      BY <1>1, <1>6 DEF DrawConsole!LoadEditor, b
    <2>2. CASE b.seeded
      <3> DEFINE x == [b EXCEPT !.view = draw]
      <3>1. DrawConsole(s)!Edit(a, x)
        BY <1>6, <2>2 DEF DrawConsole!LoadEditor, b
      <3>2. x \in DraftOf(V, T) /\ x.seeded = b.seeded /\ x.typed = b.typed
        BY <1>3, <2>1, DraftLoads
      <3> HIDE DEF x
      <3> QED
        BY <1>2, <1>4, <2>1, <2>2, <3>1, <3>2
    <2>3. CASE ~ b.seeded
      <3>1. DrawConsole(s)!Edit(a, Seeded(b, draw))
        BY <1>6, <2>3 DEF DrawConsole!LoadEditor, b, Seeded
      <3>2. /\ Seeded(b, draw) \in DraftOf(V, T) /\ Seeded(b, draw).typed = draw.spots
            /\ Seeded(b, draw).seeded
        BY <1>3, <2>1, DraftIsSeeded
      <3> QED
        BY <1>2, <1>4, <2>1, <3>1, <3>2
    <2> QED
      BY <2>2, <2>3
  <1>7. CASE DrawConsole(s)!Type(a)
    <2>1. PICK n \in Consoles[s].spots : DrawConsole(s)!Edit(a, [b EXCEPT !.typed = n])
      BY <1>7 DEF DrawConsole!Type, b
    <2>2. b # Nothing /\ b.view # Awaited /\ UNCHANGED <<draw, page, last>>
          /\ b \in DraftOf(V, T) /\ Fits(b)
      BY <1>1, <1>7 DEF DrawConsole!Type, b
    <2> DEFINE x == [b EXCEPT !.typed = n]
    <2>3. n \in T
      BY DEF T
    <2>4. x \in DraftOf(V, T) /\ x.view = b.view /\ x.seeded = b.seeded /\ x.typed = n
      BY <2>2, <2>3, DraftIsTyped
    <2>5. DrawConsole(s)!Edit(a, x)
      BY <2>1
    <2> HIDE DEF x
    <2> QED
      BY <1>2, <1>4, <2>2, <2>4, <2>5
  <1>8. CASE DrawConsole(s)!Submit(a)
    <2> DEFINE accepted == /\ DrawConsole(s)!AllowsSpotChanges(draw.status)
                           /\ DrawConsole(s)!AcceptsVersion(b.view.version)
               failing == [b EXCEPT !.failed = TRUE]
               x == IF accepted THEN Nothing ELSE failing
    <2>1. /\ b # Nothing /\ b.view # Awaited /\ draw.version < Consoles[s].edits
          /\ draw' = IF accepted THEN Edited(draw, b.typed) ELSE draw
          /\ DrawConsole(s)!Edit(a, x) /\ page' = page
          /\ last'.kind = "edit"
          /\ b \in DraftOf(V, T) /\ Fits(b)
      BY <1>1, <1>8 DEF DrawConsole!Submit, b, Edited
    <2>2. b.typed \in Consoles[s].spots
      BY <2>1
    <2>3. draw' = draw \/ GoesOnTo(s, draw, draw')
      <3>1. CASE accepted
        BY <1>2, <2>1, <2>2, <3>1, EditGoesOn
      <3>2. CASE ~ accepted
        BY <2>1, <3>2
      <3> QED
        BY <3>1, <3>2
    <2> HIDE DEF accepted
    <2>4. /\ failing \in DraftOf(V, T) /\ failing.view = b.view
          /\ failing.typed = b.typed /\ failing.seeded = b.seeded
      <3>1. b \in DraftOf(V, T)
        BY <2>1
      <3> QED
        BY <3>1 DEF DraftOf
    <2> HIDE DEF failing
    <2>5. x # Nothing => Fits(x)
      BY <1>2, <2>1, <2>4
    <2>6. DrawConsole(s)!ExecutesAsShown' /\ DrawConsole(s)!AnswersForThePlaceShown'
      BY <2>1 DEF DrawConsole!ExecutesAsShown, DrawConsole!AnswersForThePlaceShown
    <2> HIDE DEF x
    <2> QED
      BY <2>1, <2>3, <2>5, <2>6, EditorIsHeld
  <1>9. CASE DrawConsole(s)!Retry(a)
    <2> DEFINE x == [b EXCEPT !.view = Awaited]
    <2>1. b # Nothing /\ UNCHANGED <<draw, page, last>> /\ DrawConsole(s)!Edit(a, x)
          /\ b \in DraftOf(V, T) /\ Fits(b)
      BY <1>1, <1>9 DEF DrawConsole!Retry, b
    <2>2. x \in DraftOf(V, T) /\ x.view = Awaited /\ x.seeded = b.seeded /\ x.typed = b.typed
      BY <1>3, <2>1, DraftLoads
    <2> HIDE DEF x
    <2> QED
      BY <1>2, <1>4, <2>1, <2>2
  <1>10. CASE DrawConsole(s)!CloseEditor(a)
    <2>1. UNCHANGED <<draw, page, last>> /\ DrawConsole(s)!Edit(a, Nothing)
      BY <1>10 DEF DrawConsole!CloseEditor
    <2> QED
      BY <1>4, <2>1
  <1> QED
    BY <1>5, <1>6, <1>7, <1>8, <1>9, <1>10

LEMMA ConsoleStep ==
  ASSUME PagesAssumption, NEW s \in DOMAIN Consoles, ConsoleIInv(s),
         [DrawConsole(s)!Next]_(DrawConsole(s)!vars)
  PROVE  ConsoleIInv(s)'
  <1>1. CASE UNCHANGED DrawConsole(s)!vars
    <2>1. UNCHANGED <<draw, page, editor, last>>
      BY <1>1 DEF DrawConsole!vars
    <2>2. DrawConsole(s)!IsDraw(draw)'
      BY <2>1 DEF ConsoleIInv, DrawConsole!IsDraw, DrawConsole!Draws, DrawConsole!Reserves,
         DrawConsole!CommuneDrawStatus
    <2>3. PagesAreTrue(s)'
      BY <2>1 DEF ConsoleIInv, PagesAreTrue, ViewIsTrue, DialogIsBacked, PlacesAreKept, Final,
         DrawConsole!CurrentResult
    <2>4. DraftsAreTyped(s)'
      BY <2>1 DEF ConsoleIInv, DraftsAreTyped, DraftSet, DrawConsole!Draws, DrawConsole!Reserves,
         DrawConsole!CommuneDrawStatus
    <2>5. DrawConsole(s)!ExecutesAsShown' /\ DrawConsole(s)!AnswersForThePlaceShown'
      BY <2>1, LastStays
    <2> QED
      BY <2>1, <2>2, <2>3, <2>4, <2>5 DEF ConsoleIInv, PageSet, DraftSet
  <1>2. ASSUME NEW p \in Consoles[s].pages, NEW part \in {"draw", "pool", "result"},
               DrawConsole(s)!Load(p, part)
        PROVE  ConsoleIInv(s)'
    BY <1>2, LoadIsTrue
  <1>3. ASSUME NEW p \in Consoles[s].pages,
               \/ DrawConsole(s)!Refresh(p) \/ DrawConsole(s)!OpenDialog(p)
               \/ DrawConsole(s)!Dismiss(p) \/ DrawConsole(s)!Confirm(p)
        PROVE  ConsoleIInv(s)'
    BY <1>3, RefreshIsTrue, DialogsAreTrue, ConfirmIsTrue
  <1>4. ASSUME NEW a \in Consoles[s].editors,
               \/ DrawConsole(s)!OpenEditor(a) \/ DrawConsole(s)!LoadEditor(a)
               \/ DrawConsole(s)!Type(a) \/ DrawConsole(s)!Submit(a)
               \/ DrawConsole(s)!Retry(a) \/ DrawConsole(s)!CloseEditor(a)
        PROVE  ConsoleIInv(s)'
    BY <1>4, EditorsAreTyped
  <1> QED
    BY <1>1, <1>2, <1>3, <1>4 DEF DrawConsole!Next

LEMMA ConsoleInvariance ==
  ASSUME PagesAssumption, NEW s \in DOMAIN Consoles
  PROVE  DrawConsole(s)!Spec => []ConsoleIInv(s)
  <1>1. DrawConsole(s)!Init => ConsoleIInv(s)
    <2> SUFFICES ASSUME DrawConsole(s)!Init PROVE ConsoleIInv(s)
      OBVIOUS
    <2>1. /\ draw = Consoles[s].draw /\ last = Nothing
          /\ page = [p \in Consoles[s].pages |-> DrawConsole(s)!Blank]
          /\ editor = [a \in Consoles[s].editors |-> Nothing]
      BY DEF DrawConsole!Init
    <2>2. DrawConsole(s)!IsDraw(draw)
      BY <2>1, ConsoleConstants DEF DrawConsole!ConsoleAssumption
    <2>3. page \in [Consoles[s].pages -> PageSet(s)] /\ PagesAreTrue(s)
      BY <2>1, BlankIsTrue DEF PagesAreTrue
    <2>4. editor \in [Consoles[s].editors -> DraftSet(s) \cup {Nothing}] /\ DraftsAreTyped(s)
      BY <2>1 DEF DraftsAreTyped
    <2>5. DrawConsole(s)!ExecutesAsShown /\ DrawConsole(s)!AnswersForThePlaceShown
      BY <2>1 DEF DrawConsole!ExecutesAsShown, DrawConsole!AnswersForThePlaceShown
    <2> QED
      BY <2>2, <2>3, <2>4, <2>5 DEF ConsoleIInv
  <1>2. ConsoleIInv(s) /\ [DrawConsole(s)!Next]_(DrawConsole(s)!vars) => ConsoleIInv(s)'
    BY ConsoleStep
  <1> QED
    BY <1>1, <1>2, PTL DEF DrawConsole!Spec

\* In whatever setting the pages of a draw are used, with any number of pages, dialogs and
\* edits: what was confirmed is what is executed, and a reserve answers for the place shown.
THEOREM APageExecutesAsItShows ==
  ASSUME NEW s \in DOMAIN Consoles
  PROVE  setting = s /\ [][UNCHANGED setting]_setting /\ DrawConsole(s)!Spec => []ExecutesAsShown
  <1>1. PagesAssumption
    BY PagesAssumption
  <1>2. DrawConsole(s)!Spec => []ConsoleIInv(s)
    BY <1>1, ConsoleInvariance
  <1>3. setting = s /\ [UNCHANGED setting]_setting => (setting = s)'
    OBVIOUS
  <1>4. setting = s /\ ConsoleIInv(s) => ExecutesAsShown
    <2> SUFFICES ASSUME setting = s, ConsoleIInv(s) PROVE ExecutesAsShown
      OBVIOUS
    <2>1. DrawConsole(s)!TypeOK
      BY DEF ConsoleIInv, DraftsAreTyped, DraftSet, DraftOf, DrawConsole!TypeOK
    <2> QED
      BY <2>1 DEF ExecutesAsShown, ConsoleIInv
  <1> QED
    BY <1>2, <1>3, <1>4, PTL

------------------------------------------------------------------------------
(* The form of a citizen. *)

\* Who has answered everything and is old enough on a day.
Whole(a, d) ==
  /\ a.id # Nothing /\ a.gender # Nothing /\ a.dob # Nothing
  /\ 19 <= RegisterForm!CalculateAgeAt(a.dob, Days[d])

\* Where a step is in the list, by the answers and the day of the rendering.
LocationAt(f, d) == IF RegisterForm!EntryTypeIsChoice(f, d) THEN 3 ELSE 2
ReviewAt(f, d) == LocationAt(f, d) + (IF f.entryType = "PAIRED" THEN 2 ELSE 1)

\* How one applies is how the first applicant may.
Suits(f, d) ==
  /\ f.primary.gender = "MALE" => f.entryType = "SINGLE"
  /\ RegisterForm!NeedsMahram(f, d) => f.entryType = "PAIRED"

Placed(f) ==
  f.commune # Nothing => f.wilaya \in RegisterForm!Wilayas /\ f.commune \in Places[f.wilaya]

Accompanied(f, d) == f.entryType = "PAIRED" =>
  Whole(f.secondary, d) /\ f.secondary.gender = "MALE" /\ f.primary.id # f.secondary.id

\* What the steps before the one shown have made sure of.
Behind(f, i, r, d) ==
  /\ i > 1 => Whole(f.primary, d) /\ Suits(f, r)
  /\ i > LocationAt(f, r) => f.wilaya # Nothing /\ f.commune # Nothing
  /\ i = ReviewAt(f, r) => Accompanied(f, d)

\* What the server accepts.
Lawful(f, d) ==
  /\ Whole(f.primary, d) /\ Suits(f, d) /\ Accompanied(f, d)
  /\ f.wilaya # Nothing /\ f.commune # Nothing /\ Placed(f)

FormIInv ==
  /\ RegisterForm!TypeOK
  /\ Placed(form)
  /\ Behind(form, stepIndex, rendered, day)
  /\ sent # Nothing => Lawful(sent, day)

\* Nobody gets younger.
LEMMA AgeGrows ==
  ASSUME NEW dob \in RegisterForm!Dates, NEW a \in RegisterForm!Dates, NEW b \in RegisterForm!Dates,
         RegisterForm!NotAfter(a, b)
  PROVE  /\ RegisterForm!CalculateAgeAt(dob, a) \in Int
         /\ RegisterForm!CalculateAgeAt(dob, b) \in Int
         /\ RegisterForm!CalculateAgeAt(dob, a) <= RegisterForm!CalculateAgeAt(dob, b)
  BY DEF RegisterForm!Dates, RegisterForm!NotAfter, RegisterForm!CalculateAgeAt

LEMMA DaysFollow ==
  ASSUME NEW c \in DOMAIN Days, NEW d \in DOMAIN Days, c <= d, NEW dob \in Births
  PROVE  /\ RegisterForm!CalculateAgeAt(dob, Days[c]) \in Int
         /\ RegisterForm!CalculateAgeAt(dob, Days[d]) \in Int
         /\ RegisterForm!CalculateAgeAt(dob, Days[c]) <= RegisterForm!CalculateAgeAt(dob, Days[d])
  <1>1. Days[c] \in RegisterForm!Dates /\ Days[d] \in RegisterForm!Dates
    BY PagesAssumption DEF RegisterForm!FormAssumption
  <1>2. dob \in RegisterForm!Dates /\ RegisterForm!NotAfter(Days[c], Days[d])
    BY PagesAssumption DEF RegisterForm!FormAssumption
  <1> QED
    BY <1>1, <1>2, AgeGrows

LEMMA WholeLasts ==
  ASSUME NEW c \in DOMAIN Days, NEW d \in DOMAIN Days, c <= d, NEW a \in RegisterForm!Values,
         Whole(a, c)
  PROVE  Whole(a, d)
  <1>1. a.dob \in Births
    BY DEF Whole, RegisterForm!Values
  <1> QED
    BY <1>1, DaysFollow DEF Whole

\* A mahram is needed no longer than until a birthday.
LEMMA NeedEnds ==
  ASSUME NEW c \in DOMAIN Days, NEW d \in DOMAIN Days, c <= d, NEW f \in RegisterForm!FormStates,
         RegisterForm!NeedsMahram(f, d)
  PROVE  RegisterForm!NeedsMahram(f, c)
  <1>1. f.primary.dob \in Births
    BY DEF RegisterForm!NeedsMahram, RegisterForm!FormStates, RegisterForm!Values
  <1> QED
    BY <1>1, DaysFollow DEF RegisterForm!NeedsMahram, RegisterForm!MAHRAM_OPTIONAL_AGE

LEMMA StepsMoveBack ==
  ASSUME NEW c \in DOMAIN Days, NEW d \in DOMAIN Days, c <= d, NEW f \in RegisterForm!FormStates
  PROVE  /\ LocationAt(f, c) \in {2, 3} /\ LocationAt(f, d) \in {2, 3}
         /\ LocationAt(f, c) <= LocationAt(f, d)
         /\ ReviewAt(f, c) \in 3 .. 5 /\ ReviewAt(f, d) \in 3 .. 5
         /\ ReviewAt(f, c) <= ReviewAt(f, d)
         /\ Suits(f, c) => Suits(f, d)
  BY NeedEnds DEF LocationAt, ReviewAt, Suits, RegisterForm!EntryTypeIsChoice

LEMMA FormsHold ==
  ASSUME NEW f \in RegisterForm!FormStates
  PROVE  /\ f.primary \in RegisterForm!Values /\ f.secondary \in RegisterForm!Values
         /\ f.entryType \in {"SINGLE", "PAIRED"}
         /\ f.wilaya \in RegisterForm!Wilayas \cup {Nothing}
         /\ f.commune \in RegisterForm!Communes \cup {Nothing}
  BY DEF RegisterForm!FormStates

LEMMA AccompaniedLasts ==
  ASSUME NEW c \in DOMAIN Days, NEW d \in DOMAIN Days, c <= d, NEW f \in RegisterForm!FormStates,
         Accompanied(f, c)
  PROVE  Accompanied(f, d)
  BY WholeLasts, FormsHold DEF Accompanied

LEMMA BehindLasts ==
  ASSUME NEW r \in DOMAIN Days, NEW s \in DOMAIN Days, NEW c \in DOMAIN Days, NEW d \in DOMAIN Days,
         r <= s, c <= d, NEW f \in RegisterForm!FormStates,
         NEW i \in 1 .. ReviewAt(f, r), Behind(f, i, r, c)
  PROVE  i \in 1 .. ReviewAt(f, s) /\ Behind(f, i, s, d)
  <1>1. /\ LocationAt(f, r) \in {2, 3} /\ LocationAt(f, s) \in {2, 3}
        /\ LocationAt(f, r) <= LocationAt(f, s)
        /\ ReviewAt(f, r) \in 3 .. 5 /\ ReviewAt(f, s) \in 3 .. 5 /\ ReviewAt(f, r) <= ReviewAt(f, s)
        /\ Suits(f, r) => Suits(f, s)
    BY StepsMoveBack
  <1>2. Whole(f.primary, c) => Whole(f.primary, d)
    BY WholeLasts, FormsHold
  <1>3. Accompanied(f, c) => Accompanied(f, d)
    BY AccompaniedLasts
  <1> QED
    BY <1>1, <1>2, <1>3 DEF Behind

LEMMA LawfulLasts ==
  ASSUME NEW c \in DOMAIN Days, NEW d \in DOMAIN Days, c <= d, NEW f \in RegisterForm!FormStates,
         Lawful(f, c)
  PROVE  Lawful(f, d)
  BY WholeLasts, FormsHold, AccompaniedLasts, StepsMoveBack DEF Lawful

LEMMA OneStepMore ==
  ASSUME NEW S, NEW s \in Seq(S), NEW e \in S
  PROVE  /\ s \o <<e>> \in Seq(S) /\ s \o <<>> = s
         /\ Len(s \o <<e>>) = Len(s) + 1 /\ (s \o <<e>>)[Len(s) + 1] = e
         /\ \A i \in 1 .. Len(s) : (s \o <<e>>)[i] = s[i]
  <1>1. s \o <<e>> \in Seq(S)
    OBVIOUS
  <1>2. s \o <<>> = s
    OBVIOUS
  <1>3. Len(s \o <<e>>) = Len(s) + 1
    OBVIOUS
  <1>4. (s \o <<e>>)[Len(s) + 1] = e
    OBVIOUS
  <1>5. \A i \in 1 .. Len(s) : (s \o <<e>>)[i] = s[i]
    OBVIOUS
  <1> QED
    BY <1>1, <1>2, <1>3, <1>4, <1>5

\* The list of the steps, by its places.
LEMMA StepsAre ==
  ASSUME NEW f \in RegisterForm!FormStates, NEW d \in DOMAIN Days
  PROVE  /\ DOMAIN RegisterForm!StepKeys(f, d) = 1 .. ReviewAt(f, d)
         /\ RegisterForm!StepKeys(f, d)[1] = "primary"
         /\ LocationAt(f, d) = 3 => RegisterForm!StepKeys(f, d)[2] = "entryType"
         /\ RegisterForm!StepKeys(f, d)[LocationAt(f, d)] = "location"
         /\ f.entryType = "PAIRED" => RegisterForm!StepKeys(f, d)[LocationAt(f, d) + 1] = "secondary"
         /\ RegisterForm!StepKeys(f, d)[ReviewAt(f, d)] = "review"
  <1> DEFINE Keys == {"primary", "entryType", "location", "secondary", "review"}
             one == <<"primary">>
             two == IF RegisterForm!EntryTypeIsChoice(f, d) THEN one \o <<"entryType">> ELSE one \o <<>>
             three == two \o <<"location">>
             four == IF f.entryType = "PAIRED" THEN three \o <<"secondary">> ELSE three \o <<>>
             five == four \o <<"review">>
  <1>1. RegisterForm!StepKeys(f, d) = five
    BY DEF RegisterForm!StepKeys
  <1>2. one \in Seq(Keys) /\ Len(one) = 1 /\ one[1] = "primary"
    <2>1. "primary" \in Keys
      OBVIOUS
    <2> HIDE DEF Keys
    <2>2. one \in Seq(Keys)
      BY <2>1
    <2>3. Len(one) = 1 /\ one[1] = "primary"
      OBVIOUS
    <2> QED
      BY <2>2, <2>3
  <1> HIDE DEF Keys, one
  <1>3. /\ two \in Seq(Keys) /\ Len(two) = LocationAt(f, d) - 1 /\ two[1] = "primary"
        /\ LocationAt(f, d) = 3 => two[2] = "entryType"
    <2>1. "entryType" \in Keys
      BY DEF Keys
    <2>2. CASE RegisterForm!EntryTypeIsChoice(f, d)
      <3>1. two = one \o <<"entryType">> /\ LocationAt(f, d) = 3
        BY <2>2 DEF LocationAt
      <3>2. /\ two \in Seq(Keys) /\ Len(two) = Len(one) + 1 /\ two[Len(one) + 1] = "entryType"
            /\ \A i \in 1 .. Len(one) : two[i] = one[i]
        <4>1. one \in Seq(Keys)
          BY <1>2
        <4>2. LET more == one \o <<"entryType">> IN
                /\ more \in Seq(Keys) /\ Len(more) = Len(one) + 1 /\ more[Len(one) + 1] = "entryType"
                /\ \A i \in 1 .. Len(one) : more[i] = one[i]
          BY <2>1, <4>1, OneStepMore
        <4> QED
          BY <3>1, <4>2
      <3> HIDE DEF two
      <3> QED
        BY <1>2, <3>1, <3>2
    <2>3. CASE ~ RegisterForm!EntryTypeIsChoice(f, d)
      <3>1. two = one \o <<>> /\ LocationAt(f, d) = 2
        BY <2>3 DEF LocationAt
      <3>2. two = one
        BY <1>2, <2>1, <3>1, OneStepMore
      <3> QED
        BY <1>2, <3>1, <3>2
    <2> QED
      BY <2>2, <2>3
  <1> HIDE DEF two
  <1>4. /\ three \in Seq(Keys) /\ Len(three) = LocationAt(f, d) /\ three[1] = "primary"
        /\ LocationAt(f, d) = 3 => three[2] = "entryType"
        /\ three[LocationAt(f, d)] = "location"
    <2>1. "location" \in Keys /\ LocationAt(f, d) \in {2, 3}
      BY DEF Keys, LocationAt
    <2> QED
      BY <1>3, <2>1, OneStepMore
  <1> HIDE DEF three
  <1>5. /\ four \in Seq(Keys) /\ Len(four) = ReviewAt(f, d) - 1 /\ four[1] = "primary"
        /\ LocationAt(f, d) = 3 => four[2] = "entryType"
        /\ four[LocationAt(f, d)] = "location"
        /\ f.entryType = "PAIRED" => four[LocationAt(f, d) + 1] = "secondary"
    <2>1. "secondary" \in Keys /\ LocationAt(f, d) \in {2, 3}
      BY DEF Keys, LocationAt
    <2>2. CASE f.entryType = "PAIRED"
      <3>1. four = three \o <<"secondary">> /\ ReviewAt(f, d) = LocationAt(f, d) + 2
        BY <2>1, <2>2 DEF ReviewAt
      <3>2. /\ four \in Seq(Keys) /\ Len(four) = Len(three) + 1 /\ four[Len(three) + 1] = "secondary"
            /\ \A i \in 1 .. Len(three) : four[i] = three[i]
        BY <1>4, <2>1, <3>1, OneStepMore
      <3> HIDE DEF four
      <3> QED
        BY <1>4, <2>1, <3>1, <3>2
    <2>3. CASE f.entryType # "PAIRED"
      BY <1>4, <2>1, <2>3, OneStepMore DEF ReviewAt
    <2> QED
      BY <2>2, <2>3
  <1> HIDE DEF four
  <1>6. /\ five \in Seq(Keys) /\ Len(five) = ReviewAt(f, d) /\ five[1] = "primary"
        /\ LocationAt(f, d) = 3 => five[2] = "entryType"
        /\ five[LocationAt(f, d)] = "location"
        /\ f.entryType = "PAIRED" => five[LocationAt(f, d) + 1] = "secondary"
        /\ five[ReviewAt(f, d)] = "review"
    <2>1. /\ "review" \in Keys /\ LocationAt(f, d) \in {2, 3}
          /\ ReviewAt(f, d) = LocationAt(f, d) + 1 \/ ReviewAt(f, d) = LocationAt(f, d) + 2
          /\ f.entryType = "PAIRED" => ReviewAt(f, d) = LocationAt(f, d) + 2
      BY DEF Keys, LocationAt, ReviewAt
    <2>2. /\ five \in Seq(Keys) /\ Len(five) = Len(four) + 1 /\ five[Len(four) + 1] = "review"
          /\ \A i \in 1 .. Len(four) : five[i] = four[i]
      <3>1. four \in Seq(Keys) /\ "review" \in Keys
        BY <1>5, <2>1
      <3> QED
        BY <3>1, OneStepMore
    <2> HIDE DEF five
    <2>3. 1 \in 1 .. Len(four) /\ LocationAt(f, d) \in 1 .. Len(four)
      BY <1>5, <2>1
    <2>4. five[1] = "primary" /\ five[LocationAt(f, d)] = "location" /\ five[ReviewAt(f, d)] = "review"
      BY <1>5, <2>1, <2>2, <2>3
    <2>5. LocationAt(f, d) = 3 => five[2] = "entryType"
      BY <1>5, <2>1, <2>2
    <2>6. f.entryType = "PAIRED" => five[LocationAt(f, d) + 1] = "secondary"
      BY <1>5, <2>1, <2>2
    <2>7. Len(five) = ReviewAt(f, d)
      BY <1>5, <2>1, <2>2
    <2> QED
      BY <2>2, <2>4, <2>5, <2>6, <2>7
  <1> HIDE DEF five
  <1> QED
    BY <1>1, <1>6

LEMMA KeyIsAt ==
  ASSUME NEW f \in RegisterForm!FormStates, NEW d \in DOMAIN Days, NEW i \in 1 .. ReviewAt(f, d)
  PROVE  LET key == RegisterForm!KeyAt(f, d, i) IN
         /\ key = "primary" <=> i = 1
         /\ key = "entryType" <=> i = 2 /\ LocationAt(f, d) = 3
         /\ key = "location" <=> i = LocationAt(f, d)
         /\ key = "secondary" <=> f.entryType = "PAIRED" /\ i = LocationAt(f, d) + 1
         /\ key = "review" <=> i = ReviewAt(f, d)
         /\ key \in {"primary", "entryType", "location", "secondary", "review"}
  <1>1. RegisterForm!KeyAt(f, d, i) = RegisterForm!StepKeys(f, d)[i]
    BY StepsAre DEF RegisterForm!KeyAt
  <1>2. /\ LocationAt(f, d) \in {2, 3} /\ f.entryType \in {"SINGLE", "PAIRED"}
        /\ f.entryType = "PAIRED" => ReviewAt(f, d) = LocationAt(f, d) + 2
        /\ f.entryType # "PAIRED" => ReviewAt(f, d) = LocationAt(f, d) + 1
    BY FormsHold DEF LocationAt, ReviewAt
  <1>3. CASE f.entryType = "PAIRED"
    BY <1>1, <1>2, <1>3, StepsAre
  <1>4. CASE f.entryType # "PAIRED"
    BY <1>1, <1>2, <1>4, StepsAre
  <1> QED
    BY <1>3, <1>4

LEMMA CountedDays ==
  /\ Len(Days) \in Nat /\ DOMAIN Days = 1 .. Len(Days) /\ 1 \in DOMAIN Days
  BY PagesAssumption DEF RegisterForm!FormAssumption

\* The checks let through exactly what is whole.
LEMMA ChecksAre ==
  ASSUME day \in DOMAIN Days, NEW a \in RegisterForm!Values
  PROVE  RegisterForm!ApplicantErrors(a) = {} <=> Whole(a, day)
  <1>1. DOMAIN a = {"id", "gender", "dob"}
    BY DEF RegisterForm!Values
  <1>2. a.dob # Nothing => RegisterForm!CalculateAgeAt(a.dob, Days[day]) \in Int
    BY DaysFollow, CountedDays, day <= day DEF RegisterForm!Values
  <1>3. {field \in DOMAIN a : a[field] = Nothing} = {} <=>
          a.id # Nothing /\ a.gender # Nothing /\ a.dob # Nothing
    BY <1>1
  <1> DEFINE missing == {field \in DOMAIN a : a[field] = Nothing}
             young == a.dob # Nothing /\ RegisterForm!CalculateAgeAt(a.dob, Days[day]) < 19
  <1>4. RegisterForm!ApplicantErrors(a) = missing \cup (IF young THEN {"dob"} ELSE {})
    BY DEF RegisterForm!ApplicantErrors, RegisterForm!AgeToday, RegisterForm!MINIMUM_APPLICATION_AGE
  <1>5. RegisterForm!ApplicantErrors(a) = {} <=> missing = {} /\ ~ young
    <2> HIDE DEF missing, young
    <2> QED
      BY <1>4
  <1>6. a.dob # Nothing => (~ young <=> 19 <= RegisterForm!CalculateAgeAt(a.dob, Days[day]))
    BY <1>2
  <1> QED
    BY <1>3, <1>5, <1>6 DEF Whole

LEMMA PlaceChecksAre ==
  ASSUME NEW f \in RegisterForm!FormStates
  PROVE  RegisterForm!LocationErrors(f) = {} <=> f.wilaya # Nothing /\ f.commune # Nothing
  BY DEF RegisterForm!LocationErrors

LEMMA PairChecksAre ==
  ASSUME day \in DOMAIN Days, NEW f \in RegisterForm!FormStates, f.entryType = "PAIRED"
  PROVE  RegisterForm!SecondaryErrors(f) = {} <=> Accompanied(f, day)
  <1>1. RegisterForm!ApplicantErrors(f.secondary) = {} <=> Whole(f.secondary, day)
    BY ChecksAre, FormsHold
  <1>2. f.secondary.gender \in {"FEMALE", "MALE", Nothing}
    BY FormsHold DEF RegisterForm!Values
  <1> QED
    BY <1>1, <1>2 DEF RegisterForm!SecondaryErrors, Accompanied, Whole

\* What a step finds, seen with the eyes of the rendering it brings about.
LEMMA FoundNow ==
  ASSUME FormIInv
  PROVE  /\ form \in RegisterForm!FormStates /\ Placed(form)
         /\ day \in DOMAIN Days /\ rendered \in DOMAIN Days /\ rendered <= day
         /\ stepIndex \in 1 .. ReviewAt(form, rendered)
         /\ Behind(form, stepIndex, rendered, day)
         /\ stepIndex \in 1 .. ReviewAt(form, day)
         /\ Behind(form, stepIndex, day, day)
  <1>1. /\ form \in RegisterForm!FormStates /\ Placed(form)
        /\ day \in DOMAIN Days /\ rendered \in DOMAIN Days /\ rendered <= day
        /\ Behind(form, stepIndex, rendered, day)
        /\ stepIndex \in DOMAIN RegisterForm!StepKeys(form, rendered)
    BY CountedDays DEF FormIInv, RegisterForm!TypeOK
  <1>2. stepIndex \in 1 .. ReviewAt(form, rendered)
    BY <1>1, StepsAre
  <1>3. day <= day
    BY <1>1, CountedDays
  <1> QED
    BY <1>1, <1>2, <1>3, BehindLasts

\* What has to be seen of a step that renders the form anew.
LEMMA RenderedAnew ==
  ASSUME FormIInv, NEW f \in RegisterForm!FormStates, Placed(f),
         NEW i \in 1 .. ReviewAt(f, day), Behind(f, i, day, day),
         form' = f, stepIndex' = i, rendered' = day, day' = day,
         sent' \in {sent, Nothing},
         loaded' \in RegisterForm!Wilayas \cup {Nothing}, asked' \subseteq RegisterForm!Wilayas
  PROVE  FormIInv'
  <1>1. /\ day \in DOMAIN Days /\ day \in 1 .. day
        /\ sent \in RegisterForm!FormStates \cup {Nothing}
        /\ sent # Nothing => Lawful(sent, day)
    BY CountedDays DEF FormIInv, RegisterForm!TypeOK
  <1>2. i \in DOMAIN RegisterForm!StepKeys(f, day)
    BY <1>1, StepsAre
  <1>3. RegisterForm!TypeOK'
    <2>1. /\ form' \in RegisterForm!FormStates /\ sent' \in RegisterForm!FormStates \cup {Nothing}
          /\ stepIndex' \in DOMAIN RegisterForm!StepKeys(form', rendered')
          /\ day' \in DOMAIN Days /\ rendered' \in 1 .. day'
      BY <1>1, <1>2
    <2> QED
      BY <2>1 DEF RegisterForm!TypeOK
  <1>4. Behind(form', stepIndex', rendered', day') /\ Placed(form')
    OBVIOUS
  <1>5. sent' # Nothing => Lawful(sent', day')
    BY <1>1
  <1> QED
    BY <1>3, <1>4, <1>5 DEF FormIInv

LEMMA FormStart == ASSUME RegisterForm!Init PROVE FormIInv
  <1>1. /\ form = [entryType |-> "SINGLE", wilaya |-> Nothing, commune |-> Nothing,
                   primary |-> RegisterForm!Blank, secondary |-> RegisterForm!Blank]
        /\ stepIndex = 1 /\ day = 1 /\ rendered = 1 /\ loaded = Nothing /\ asked = {} /\ sent = Nothing
    BY DEF RegisterForm!Init
  <1>2. form \in RegisterForm!FormStates
    BY <1>1 DEF RegisterForm!FormStates, RegisterForm!Values, RegisterForm!Blank
  <1>3. LocationAt(form, 1) \in {2, 3} /\ ReviewAt(form, 1) \in 3 .. 5
    BY <1>2, CountedDays, StepsMoveBack, 1 <= 1
  <1>4. 1 \in DOMAIN RegisterForm!StepKeys(form, 1)
    BY <1>2, <1>3, CountedDays, StepsAre
  <1>5. RegisterForm!TypeOK
    BY <1>1, <1>2, <1>4, CountedDays DEF RegisterForm!TypeOK
  <1>6. Behind(form, 1, 1, 1)
    BY <1>3 DEF Behind
  <1>7. Placed(form)
    BY <1>1 DEF Placed
  <1> QED
    BY <1>1, <1>5, <1>6, <1>7 DEF FormIInv

\* What is filled in before its step is left is not judged yet.
LEMMA PrimaryFilled ==
  ASSUME FormIInv, NEW field \in {"id", "gender", "dob"}, NEW value,
         \/ field = "id" /\ value \in Ids
         \/ field = "gender" /\ value \in {"FEMALE", "MALE"}
         \/ field = "dob" /\ value \in Births,
         RegisterForm!FillPrimary(field, value)
  PROVE  FormIInv'
  <1> DEFINE f == [form EXCEPT !.primary[field] = value]
  <1>1. /\ form' = f /\ stepIndex' = stepIndex /\ rendered' = day /\ day' = day
        /\ sent' = sent /\ loaded' = loaded /\ asked' = asked
        /\ RegisterForm!CurrentKey = "primary"
    BY DEF RegisterForm!FillPrimary, RegisterForm!Answer, RegisterForm!Render, RegisterForm!At
  <1>2. f \in RegisterForm!FormStates /\ Placed(f)
    <2>1. f.primary \in RegisterForm!Values
      BY FoundNow DEF RegisterForm!FormStates, RegisterForm!Values
    <2> QED
      BY <2>1, FoundNow DEF RegisterForm!FormStates, Placed
  <1> HIDE DEF f
  <1>3. stepIndex = 1
    BY <1>1, FoundNow, KeyIsAt DEF RegisterForm!CurrentKey
  <1>4. LocationAt(f, day) \in {2, 3} /\ ReviewAt(f, day) \in 3 .. 5
    BY <1>2, FoundNow, CountedDays, StepsMoveBack, day <= day
  <1>5. 1 \in 1 .. ReviewAt(f, day) /\ Behind(f, 1, day, day)
    BY <1>4 DEF Behind
  <1>6. loaded \in RegisterForm!Wilayas \cup {Nothing} /\ asked \subseteq RegisterForm!Wilayas
    BY DEF FormIInv, RegisterForm!TypeOK
  <1> QED
    BY <1>1, <1>2, <1>3, <1>5, <1>6, RenderedAnew

\* Neither the list nor what is behind it depends on who comes along.
LEMMA SecondaryFilled ==
  ASSUME FormIInv, NEW field \in {"id", "gender", "dob"}, NEW value,
         \/ field = "id" /\ value \in Ids
         \/ field = "gender" /\ value \in {"FEMALE", "MALE"}
         \/ field = "dob" /\ value \in Births,
         RegisterForm!FillSecondary(field, value)
  PROVE  FormIInv'
  <1> DEFINE f == [form EXCEPT !.secondary[field] = value]
  <1>1. /\ form' = f /\ stepIndex' = stepIndex /\ rendered' = day /\ day' = day
        /\ sent' = sent /\ loaded' = loaded /\ asked' = asked
        /\ RegisterForm!CurrentKey = "secondary"
    BY DEF RegisterForm!FillSecondary, RegisterForm!Answer, RegisterForm!Render, RegisterForm!At
  <1>2. /\ f \in RegisterForm!FormStates /\ Placed(f)
        /\ f.primary = form.primary /\ f.entryType = form.entryType
        /\ f.wilaya = form.wilaya /\ f.commune = form.commune
    <2>1. f.secondary \in RegisterForm!Values
      BY FoundNow DEF RegisterForm!FormStates, RegisterForm!Values
    <2> QED
      BY <2>1, FoundNow DEF RegisterForm!FormStates, Placed
  <1> HIDE DEF f
  <1>3. stepIndex = LocationAt(form, rendered) + 1 /\ form.entryType = "PAIRED"
    BY <1>1, FoundNow, KeyIsAt DEF RegisterForm!CurrentKey
  <1>4. /\ LocationAt(form, rendered) \in {2, 3} /\ LocationAt(form, day) \in {2, 3}
        /\ LocationAt(form, rendered) <= LocationAt(form, day)
    BY FoundNow, StepsMoveBack
  <1>5. ReviewAt(form, day) = LocationAt(form, day) + 2
    BY <1>3 DEF ReviewAt
  <1>6. /\ LocationAt(f, day) = LocationAt(form, day) /\ ReviewAt(f, day) = ReviewAt(form, day)
        /\ Suits(form, day) => Suits(f, day)
    BY <1>2 DEF LocationAt, ReviewAt, Suits, RegisterForm!NeedsMahram, RegisterForm!EntryTypeIsChoice
  <1>7. stepIndex \in 1 .. ReviewAt(f, day) /\ Behind(f, stepIndex, day, day)
    BY <1>2, <1>3, <1>4, <1>5, <1>6, FoundNow DEF Behind
  <1>8. loaded \in RegisterForm!Wilayas \cup {Nothing} /\ asked \subseteq RegisterForm!Wilayas
    BY DEF FormIInv, RegisterForm!TypeOK
  <1> QED
    BY <1>1, <1>2, <1>7, <1>8, RenderedAnew

\* How one applies is chosen only where it is a choice, and stays one.
LEMMA EntryTypeChosen ==
  ASSUME FormIInv, NEW type \in {"SINGLE", "PAIRED"}, RegisterForm!ChooseEntryType(type)
  PROVE  FormIInv'
  <1> DEFINE f == [form EXCEPT !.entryType = type]
  <1>1. /\ form' = f /\ stepIndex' = stepIndex /\ rendered' = day /\ day' = day
        /\ sent' = sent /\ loaded' = loaded /\ asked' = asked
        /\ RegisterForm!CurrentKey = "entryType"
    BY DEF RegisterForm!ChooseEntryType, RegisterForm!Answer, RegisterForm!Render, RegisterForm!At
  <1>2. /\ f \in RegisterForm!FormStates /\ Placed(f) /\ f.primary = form.primary
    BY FoundNow DEF RegisterForm!FormStates, Placed
  <1> HIDE DEF f
  <1>3. stepIndex = 2 /\ LocationAt(form, rendered) = 3
    BY <1>1, FoundNow, KeyIsAt DEF RegisterForm!CurrentKey
  <1>4. LocationAt(form, day) = 3
    BY <1>3, FoundNow, StepsMoveBack
  <1>5. RegisterForm!EntryTypeIsChoice(f, day) /\ LocationAt(f, day) = 3 /\ ReviewAt(f, day) \in {4, 5}
    BY <1>2, <1>4
    DEF LocationAt, ReviewAt, RegisterForm!EntryTypeIsChoice, RegisterForm!NeedsMahram
  <1>6. Suits(f, day)
    BY <1>5 DEF Suits, RegisterForm!EntryTypeIsChoice
  <1>7. stepIndex \in 1 .. ReviewAt(f, day) /\ Behind(f, stepIndex, day, day)
    BY <1>2, <1>3, <1>5, <1>6, FoundNow DEF Behind
  <1>8. loaded \in RegisterForm!Wilayas \cup {Nothing} /\ asked \subseteq RegisterForm!Wilayas
    BY DEF FormIInv, RegisterForm!TypeOK
  <1> QED
    BY <1>1, <1>2, <1>7, <1>8, RenderedAnew

\* While the place is being chosen, the review is still ahead.
LEMMA PlacingIsAhead ==
  ASSUME FormIInv, NEW f \in RegisterForm!FormStates, Placed(f), RegisterForm!At("location"),
         f.primary = form.primary, f.entryType = form.entryType
  PROVE  stepIndex \in 1 .. ReviewAt(f, day) /\ Behind(f, stepIndex, day, day)
  <1>1. stepIndex = LocationAt(form, rendered)
    BY FoundNow, KeyIsAt DEF RegisterForm!CurrentKey, RegisterForm!At
  <1>2. /\ LocationAt(form, rendered) \in {2, 3} /\ LocationAt(form, day) \in {2, 3}
        /\ LocationAt(form, rendered) <= LocationAt(form, day)
    BY FoundNow, StepsMoveBack
  <1>3. ReviewAt(form, day) \in {LocationAt(form, day) + 1, LocationAt(form, day) + 2}
    BY DEF ReviewAt
  <1>4. /\ LocationAt(f, day) = LocationAt(form, day) /\ ReviewAt(f, day) = ReviewAt(form, day)
        /\ Suits(form, day) => Suits(f, day)
    BY DEF LocationAt, ReviewAt, Suits, RegisterForm!NeedsMahram, RegisterForm!EntryTypeIsChoice
  <1> QED
    BY <1>1, <1>2, <1>3, <1>4, FoundNow DEF Behind

LEMMA WilayaChosen ==
  ASSUME FormIInv, NEW w \in RegisterForm!Wilayas, RegisterForm!ChooseWilaya(w)
  PROVE  FormIInv'
  <1> DEFINE f == [form EXCEPT !.wilaya = w, !.commune = Nothing]
  <1>1. /\ form' = f /\ stepIndex' = stepIndex /\ rendered' = day /\ day' = day
        /\ sent' = sent /\ loaded' = loaded /\ asked' = asked \cup {w}
        /\ RegisterForm!At("location")
    BY DEF RegisterForm!ChooseWilaya, RegisterForm!Answer, RegisterForm!Render
  <1>2. /\ f \in RegisterForm!FormStates /\ Placed(f)
        /\ f.primary = form.primary /\ f.entryType = form.entryType
    BY FoundNow DEF RegisterForm!FormStates, Placed
  <1> HIDE DEF f
  <1>3. stepIndex \in 1 .. ReviewAt(f, day) /\ Behind(f, stepIndex, day, day)
    BY <1>1, <1>2, PlacingIsAhead
  <1>4. loaded \in RegisterForm!Wilayas \cup {Nothing} /\ asked \cup {w} \subseteq RegisterForm!Wilayas
    BY DEF FormIInv, RegisterForm!TypeOK
  <1> QED
    BY <1>1, <1>2, <1>3, <1>4, RenderedAnew

LEMMA CommuneChosen ==
  ASSUME FormIInv, NEW c \in RegisterForm!Communes, RegisterForm!ChooseCommune(c)
  PROVE  FormIInv'
  <1> DEFINE f == [form EXCEPT !.commune = c]
  <1>1. /\ form' = f /\ stepIndex' = stepIndex /\ rendered' = day /\ day' = day
        /\ sent' = sent /\ loaded' = loaded /\ asked' = asked
        /\ RegisterForm!At("location")
        /\ loaded = form.wilaya /\ loaded # Nothing /\ c \in Places[loaded]
    BY DEF RegisterForm!ChooseCommune, RegisterForm!Answer, RegisterForm!Render
  <1>2. /\ f \in RegisterForm!FormStates /\ Placed(f)
        /\ f.primary = form.primary /\ f.entryType = form.entryType
    BY <1>1, FoundNow DEF RegisterForm!FormStates, Placed
  <1> HIDE DEF f
  <1>3. stepIndex \in 1 .. ReviewAt(f, day) /\ Behind(f, stepIndex, day, day)
    BY <1>1, <1>2, PlacingIsAhead
  <1>4. loaded \in RegisterForm!Wilayas \cup {Nothing} /\ asked \subseteq RegisterForm!Wilayas
    BY DEF FormIInv, RegisterForm!TypeOK
  <1> QED
    BY <1>1, <1>2, <1>3, <1>4, RenderedAnew

\* What arrives renders the form as it is.
LEMMA Arrived ==
  ASSUME FormIInv, form' = form, stepIndex' = stepIndex, rendered' = day, day' = day,
         sent' \in {sent, Nothing},
         loaded' \in RegisterForm!Wilayas \cup {Nothing}, asked' \subseteq RegisterForm!Wilayas
  PROVE  FormIInv'
  BY FoundNow, RenderedAnew

LEMMA Shown ==
  ASSUME FormIInv, NEW f \in RegisterForm!FormStates, Placed(f),
         NEW i \in 1 .. ReviewAt(f, day), Behind(f, i, day, day), RegisterForm!Show(i, f)
  PROVE  FormIInv'
  <1>1. /\ form' = f /\ stepIndex' = i /\ rendered' = day /\ day' = day /\ sent' = sent
        /\ \/ loaded' = Nothing /\ asked' = (IF f.wilaya = Nothing THEN {} ELSE {f.wilaya})
           \/ loaded' = loaded /\ asked' = asked
    BY DEF RegisterForm!Show, RegisterForm!Render
  <1>2. loaded \in RegisterForm!Wilayas \cup {Nothing} /\ asked \subseteq RegisterForm!Wilayas
    BY DEF FormIInv, RegisterForm!TypeOK
  <1>3. f.wilaya # Nothing => f.wilaya \in RegisterForm!Wilayas
    BY FormsHold
  <1>4. loaded' \in RegisterForm!Wilayas \cup {Nothing} /\ asked' \subseteq RegisterForm!Wilayas
    BY <1>1, <1>2, <1>3
  <1> QED
    BY <1>1, <1>4, RenderedAnew

\* Leaving the first step settles how its applicant applies.
LEMMA FirstStepLeft ==
  ASSUME FormIInv, RegisterForm!GoNext, RegisterForm!CurrentKey = "primary"
  PROVE  FormIInv'
  <1> DEFINE f == RegisterForm!Settled(form)
  <1>1. RegisterForm!Show(stepIndex + 1, f) /\ RegisterForm!ApplicantErrors(form.primary) = {}
    BY DEF RegisterForm!GoNext, RegisterForm!ErrorsOfStep
  <1>2. stepIndex = 1
    BY FoundNow, KeyIsAt DEF RegisterForm!CurrentKey
  <1>3. /\ f \in RegisterForm!FormStates /\ Placed(f) /\ f.primary = form.primary
        /\ f.entryType = IF form.primary.gender = "MALE" THEN "SINGLE"
                         ELSE IF RegisterForm!NeedsMahram(form, rendered) THEN "PAIRED" ELSE form.entryType
    BY FoundNow DEF RegisterForm!Settled, RegisterForm!FormStates, Placed
  <1> HIDE DEF f
  <1>4. Whole(f.primary, day)
    BY <1>1, <1>3, FoundNow, FormsHold, ChecksAre
  <1>5. RegisterForm!NeedsMahram(f, day) => RegisterForm!NeedsMahram(form, rendered)
    <2>1. RegisterForm!NeedsMahram(f, day) => RegisterForm!NeedsMahram(form, day)
      BY <1>3 DEF RegisterForm!NeedsMahram
    <2> QED
      BY <2>1, FoundNow, NeedEnds
  <1>6. RegisterForm!NeedsMahram(f, day) => form.primary.gender # "MALE"
    BY <1>3 DEF RegisterForm!NeedsMahram
  <1>7. Suits(f, day)
    BY <1>3, <1>5, <1>6 DEF Suits
  <1>8. LocationAt(f, day) \in {2, 3} /\ ReviewAt(f, day) \in 3 .. 5
    BY <1>3, FoundNow, CountedDays, StepsMoveBack, day <= day
  <1>9. stepIndex + 1 \in 1 .. ReviewAt(f, day) /\ Behind(f, stepIndex + 1, day, day)
    BY <1>2, <1>4, <1>7, <1>8 DEF Behind
  <1> QED
    BY <1>1, <1>3, <1>9, Shown

LEMMA NextStep ==
  ASSUME FormIInv, RegisterForm!GoNext, RegisterForm!CurrentKey # "primary"
  PROVE  FormIInv'
  <1> DEFINE key == RegisterForm!CurrentKey
             there == LocationAt(form, rendered)
             now == LocationAt(form, day)
  <1>1. RegisterForm!Show(stepIndex + 1, form) /\ RegisterForm!ErrorsOfStep = {} /\ key # "review"
    BY DEF RegisterForm!GoNext
  <1>2. /\ there \in {2, 3} /\ now \in {2, 3} /\ there <= now
        /\ ReviewAt(form, rendered) <= ReviewAt(form, day)
        /\ ReviewAt(form, rendered) \in 3 .. 5 /\ ReviewAt(form, day) \in 3 .. 5
    BY FoundNow, StepsMoveBack
  <1>3. /\ form.entryType = "PAIRED" => ReviewAt(form, rendered) = there + 2 /\ ReviewAt(form, day) = now + 2
        /\ form.entryType # "PAIRED" => ReviewAt(form, rendered) = there + 1 /\ ReviewAt(form, day) = now + 1
    BY DEF ReviewAt
  <1>4. /\ stepIndex # 1
        /\ key = "entryType" <=> stepIndex = 2 /\ there = 3
        /\ key = "location" <=> stepIndex = there
        /\ key = "secondary" <=> form.entryType = "PAIRED" /\ stepIndex = there + 1
        /\ key = "review" <=> stepIndex = ReviewAt(form, rendered)
        /\ key \in {"primary", "entryType", "location", "secondary", "review"}
    BY FoundNow, KeyIsAt DEF RegisterForm!CurrentKey
  <1> HIDE DEF key, there, now
  <1>5. stepIndex + 1 \in 1 .. ReviewAt(form, day)
    BY <1>1, <1>2, <1>4, FoundNow
  <1>6. Whole(form.primary, day) /\ Suits(form, day)
    BY <1>4, FoundNow DEF Behind
  <1>7. CASE key = "entryType"
    BY <1>1, <1>2, <1>3, <1>4, <1>5, <1>6, <1>7, FoundNow, Shown DEF Behind, now
  <1>8. CASE key = "location"
    <2>1. form.wilaya # Nothing /\ form.commune # Nothing
      BY <1>1, <1>8, FoundNow, PlaceChecksAre DEF RegisterForm!ErrorsOfStep, key
    <2>2. stepIndex + 1 = ReviewAt(form, day) => form.entryType # "PAIRED"
      BY <1>2, <1>3, <1>4, <1>8
    <2>3. Behind(form, stepIndex + 1, day, day)
      BY <1>6, <2>1, <2>2 DEF Behind, Accompanied
    <2> QED
      BY <1>1, <1>5, <2>3, FoundNow, Shown
  <1>9. CASE key = "secondary"
    <2>1. Accompanied(form, day)
      BY <1>1, <1>4, <1>9, FoundNow, PairChecksAre DEF RegisterForm!ErrorsOfStep, key
    <2>2. form.wilaya # Nothing /\ form.commune # Nothing
      BY <1>2, <1>4, <1>9, FoundNow DEF Behind, there
    <2>3. Behind(form, stepIndex + 1, day, day)
      BY <1>6, <2>1, <2>2 DEF Behind
    <2> QED
      BY <1>1, <1>5, <2>3, FoundNow, Shown
  <1> QED
    BY <1>1, <1>4, <1>7, <1>8, <1>9 DEF key

LEMMA StepBack ==
  ASSUME FormIInv, RegisterForm!GoBack
  PROVE  FormIInv'
  <1>1. RegisterForm!Show(stepIndex - 1, form) /\ stepIndex > 1
    BY DEF RegisterForm!GoBack
  <1>2. LocationAt(form, day) \in {2, 3} /\ ReviewAt(form, day) \in 3 .. 5
    BY DEF LocationAt, ReviewAt
  <1>3. stepIndex - 1 \in 1 .. ReviewAt(form, day) /\ Behind(form, stepIndex - 1, day, day)
    BY <1>1, <1>2, FoundNow DEF Behind
  <1> QED
    BY <1>1, <1>3, FoundNow, Shown

\* At the review everything is behind.
LEMMA Reviewed ==
  ASSUME FormIInv, RegisterForm!CurrentKey = "review"
  PROVE  Lawful(form, day) /\ stepIndex = ReviewAt(form, rendered)
  <1>1. stepIndex = ReviewAt(form, rendered)
    BY FoundNow, KeyIsAt DEF RegisterForm!CurrentKey
  <1>2. /\ LocationAt(form, rendered) \in {2, 3}
        /\ ReviewAt(form, rendered) \in {LocationAt(form, rendered) + 1, LocationAt(form, rendered) + 2}
    BY DEF LocationAt, ReviewAt
  <1>3. stepIndex > 1 /\ stepIndex > LocationAt(form, rendered)
    BY <1>1, <1>2
  <1>4. Suits(form, rendered) => Suits(form, day)
    BY FoundNow, StepsMoveBack
  <1> QED
    BY <1>1, <1>3, <1>4, FoundNow DEF Behind, Lawful

LEMMA StepPicked ==
  ASSUME FormIInv, NEW key \in {"primary", "entryType", "location", "secondary"},
         RegisterForm!GoToStep(key)
  PROVE  FormIInv'
  <1> DEFINE keys == RegisterForm!StepKeys(form, rendered)
             i == CHOOSE j \in DOMAIN keys : keys[j] = key
  <1>1. RegisterForm!CurrentKey = "review" /\ RegisterForm!Show(i, form)
        /\ key \in RegisterForm!ToSet(keys)
    BY DEF RegisterForm!GoToStep, RegisterForm!At
  <1>2. i \in DOMAIN keys
    BY <1>1 DEF RegisterForm!ToSet
  <1>3. DOMAIN keys = 1 .. ReviewAt(form, rendered)
    BY FoundNow, StepsAre
  <1>4. ReviewAt(form, rendered) <= ReviewAt(form, day) /\ ReviewAt(form, day) \in 3 .. 5
        /\ ReviewAt(form, rendered) \in 3 .. 5
    BY FoundNow, StepsMoveBack
  <1> HIDE DEF i, keys
  <1>5. i \in 1 .. ReviewAt(form, day)
    BY <1>2, <1>3, <1>4
  <1>6. Behind(form, i, day, day)
    BY <1>1, Reviewed DEF Lawful, Behind
  <1> QED
    BY <1>1, <1>5, <1>6, FoundNow, Shown DEF i, keys

LEMMA Sent ==
  ASSUME FormIInv, RegisterForm!Submit
  PROVE  FormIInv'
  <1>1. /\ form' = form /\ stepIndex' = stepIndex /\ rendered' = day /\ day' = day
        /\ sent' = form /\ loaded' = loaded /\ asked' = asked
        /\ RegisterForm!CurrentKey = "review"
    BY DEF RegisterForm!Submit, RegisterForm!Render, RegisterForm!At
  <1>2. Lawful(form, day)
    BY <1>1, Reviewed
  <1>3. stepIndex \in DOMAIN RegisterForm!StepKeys(form, day)
    BY FoundNow, StepsAre
  <1>4. RegisterForm!TypeOK'
    <2>1. /\ form' \in RegisterForm!FormStates /\ sent' \in RegisterForm!FormStates \cup {Nothing}
          /\ stepIndex' \in DOMAIN RegisterForm!StepKeys(form', rendered')
          /\ day' \in DOMAIN Days /\ rendered' \in 1 .. day'
          /\ loaded' \in RegisterForm!Wilayas \cup {Nothing} /\ asked' \subseteq RegisterForm!Wilayas
      BY <1>1, <1>3, FoundNow, CountedDays DEF FormIInv, RegisterForm!TypeOK
    <2> QED
      BY <2>1 DEF RegisterForm!TypeOK
  <1>5. Behind(form', stepIndex', rendered', day') /\ Placed(form')
    BY <1>1, FoundNow
  <1>6. sent' # Nothing => Lawful(sent', day')
    BY <1>1, <1>2
  <1> QED
    BY <1>4, <1>5, <1>6 DEF FormIInv

LEMMA DayTurned ==
  ASSUME FormIInv, RegisterForm!Midnight
  PROVE  FormIInv'
  <1>1. /\ day' = day + 1 /\ day < Len(Days)
        /\ form' = form /\ stepIndex' = stepIndex /\ rendered' = rendered
        /\ sent' = sent /\ loaded' = loaded /\ asked' = asked
    BY DEF RegisterForm!Midnight
  <1>2. day' \in DOMAIN Days /\ day <= day' /\ rendered \in 1 .. day' /\ rendered <= rendered
    BY <1>1, FoundNow, CountedDays
  <1>3. RegisterForm!TypeOK'
    <2>1. /\ form' \in RegisterForm!FormStates /\ sent' \in RegisterForm!FormStates \cup {Nothing}
          /\ stepIndex' \in DOMAIN RegisterForm!StepKeys(form', rendered')
          /\ day' \in DOMAIN Days /\ rendered' \in 1 .. day'
          /\ loaded' \in RegisterForm!Wilayas \cup {Nothing} /\ asked' \subseteq RegisterForm!Wilayas
      BY <1>1, <1>2 DEF FormIInv, RegisterForm!TypeOK
    <2> QED
      BY <2>1 DEF RegisterForm!TypeOK
  <1>4. Behind(form, stepIndex, rendered, day')
    BY <1>2, FoundNow, BehindLasts
  <1>5. sent # Nothing => Lawful(sent, day')
    BY <1>2, FoundNow, LawfulLasts DEF FormIInv, RegisterForm!TypeOK
  <1> QED
    BY <1>1, <1>3, <1>4, <1>5, FoundNow DEF FormIInv

LEMMA FormStep == ASSUME FormIInv, [RegisterForm!Next]_(RegisterForm!vars) PROVE FormIInv'
  <1> DEFINE Unread == /\ form' = form /\ stepIndex' = stepIndex /\ rendered' = day /\ day' = day
                       /\ sent' \in {sent, Nothing}
  <1>0. loaded \in RegisterForm!Wilayas \cup {Nothing} /\ asked \subseteq RegisterForm!Wilayas
    BY DEF FormIInv, RegisterForm!TypeOK
  <1>1. CASE RegisterForm!WindowKnown
    <2>1. Unread /\ loaded' = loaded /\ asked' = asked
      BY <1>1 DEF RegisterForm!WindowKnown, RegisterForm!Render
    <2> QED
      BY <1>0, <2>1, Arrived
  <1>2. ASSUME NEW id \in Ids, RegisterForm!FillPrimary("id", id) \/ RegisterForm!FillSecondary("id", id)
        PROVE  FormIInv'
    BY <1>2, PrimaryFilled, SecondaryFilled
  <1>3. ASSUME NEW gender \in {"FEMALE", "MALE"},
               RegisterForm!FillPrimary("gender", gender) \/ RegisterForm!FillSecondary("gender", gender)
        PROVE  FormIInv'
    BY <1>3, PrimaryFilled, SecondaryFilled
  <1>4. ASSUME NEW dob \in Births,
               RegisterForm!FillPrimary("dob", dob) \/ RegisterForm!FillSecondary("dob", dob)
        PROVE  FormIInv'
    BY <1>4, PrimaryFilled, SecondaryFilled
  <1>5. ASSUME NEW type \in {"SINGLE", "PAIRED"}, RegisterForm!ChooseEntryType(type)
        PROVE  FormIInv'
    BY <1>5, EntryTypeChosen
  <1>6. ASSUME NEW w \in RegisterForm!Wilayas, RegisterForm!ChooseWilaya(w)
        PROVE  FormIInv'
    BY <1>6, WilayaChosen
  <1>7. ASSUME NEW w \in RegisterForm!Wilayas, RegisterForm!CommunesLoaded(w)
        PROVE  FormIInv'
    <2>1. Unread /\ asked' = asked \ {w} /\ loaded' \in {w, loaded}
      BY <1>7 DEF RegisterForm!CommunesLoaded, RegisterForm!Render
    <2> QED
      BY <1>0, <2>1, Arrived
  <1>8. ASSUME NEW c \in RegisterForm!Communes, RegisterForm!ChooseCommune(c)
        PROVE  FormIInv'
    BY <1>8, CommuneChosen
  <1>9. CASE RegisterForm!GoNext
    BY <1>9, FirstStepLeft, NextStep
  <1>10. CASE RegisterForm!GoBack
    BY <1>10, StepBack
  <1>11. ASSUME NEW key \in {"primary", "entryType", "location", "secondary"}, RegisterForm!GoToStep(key)
         PROVE  FormIInv'
    BY <1>11, StepPicked
  <1>12. CASE RegisterForm!Submit
    BY <1>12, Sent
  <1>13. ASSUME NEW reply \in {"receipt", "refused", "unknown"}, RegisterForm!Answered(reply)
         PROVE  FormIInv'
    <2>1. Unread /\ loaded' = loaded /\ asked' = asked
      BY <1>13 DEF RegisterForm!Answered, RegisterForm!Render
    <2> QED
      BY <1>0, <2>1, Arrived
  <1>14. CASE RegisterForm!Midnight
    BY <1>14, DayTurned
  <1>15. CASE UNCHANGED RegisterForm!vars
    BY <1>15
    DEF FormIInv, RegisterForm!TypeOK, RegisterForm!vars
  <1> QED
    BY <1>1, <1>2, <1>3, <1>4, <1>5, <1>6, <1>7, <1>8, <1>9, <1>10, <1>11, <1>12, <1>13, <1>14, <1>15
    DEF RegisterForm!Next

\* What is lawful is what the server's rules let through.
LEMMA LawfulIsAccepted ==
  ASSUME day \in DOMAIN Days, NEW f \in RegisterForm!FormStates, Lawful(f, day)
  PROVE  RegisterForm!EvaluateEligibility(RegisterForm!Subject(f)) = {}
  <1> DEFINE person(a) == [id |-> a.id, gender |-> a.gender, dob |-> a.dob, hasWon |-> FALSE,
                           applications |-> {}]
             s == RegisterForm!Subject(f)
             age(a) == RegisterForm!CalculateAgeAt(a.dob, Days[day])
             w == CHOOSE v \in RegisterForm!Wilayas : f.commune \in Places[v]
             paired == f.entryType = "PAIRED"
  <1>1. w = f.wilaya /\ w \in RegisterForm!Wilayas
    <2>1. f.wilaya \in RegisterForm!Wilayas /\ f.commune \in Places[f.wilaya]
      BY DEF Lawful, Placed
    <2>2. \A v \in RegisterForm!Wilayas : f.commune \in Places[v] => v = f.wilaya
      BY <2>1, PagesAssumption DEF RegisterForm!FormAssumption
    <2> QED
      BY <2>1, <2>2
  <1>2. /\ s.primary = person(f.primary)
        /\ s.secondary = (IF paired THEN person(f.secondary) ELSE Nothing)
        /\ s.entryType = f.entryType
        /\ s.commune = [wilaya |-> w, isActive |-> TRUE, wilayaIsActive |-> TRUE]
        /\ s.claimedWilaya = f.wilaya /\ s.drawYear = FormYear /\ s.expectedDrawYear = Nothing
        /\ s.registrationDate = Days[day] /\ s.applicationId = Nothing
    BY DEF RegisterForm!Subject
  <1>3. /\ f.primary \in RegisterForm!Values /\ f.secondary \in RegisterForm!Values
        /\ f.entryType \in {"SINGLE", "PAIRED"}
        /\ Whole(f.primary, day)
        /\ paired => Whole(f.secondary, day)
    BY FormsHold DEF Lawful, Accompanied
  <1>4. ASSUME NEW a \in RegisterForm!Values, Whole(a, day)
        PROVE  /\ person(a) # Nothing /\ age(a) \in Int /\ 19 <= age(a)
               /\ a.gender \in {"FEMALE", "MALE"} /\ a.gender # Nothing
    <2>1. a.id \in Ids /\ a.gender \in {"FEMALE", "MALE"} /\ a.dob \in Births /\ 19 <= age(a)
      BY <1>4 DEF Whole, RegisterForm!Values
    <2>2. age(a) \in Int
      BY <2>1, DaysFollow, CountedDays, day <= day
    <2>3. person(a) \in [id : Ids, gender : {"FEMALE", "MALE"}, dob : Births, hasWon : {FALSE},
                         applications : {{}}]
      BY <2>1
    <2> QED
      BY <1>4, <2>1, <2>2, <2>3, PagesAssumption DEF RegisterForm!FormAssumption, Whole
  <1>5. /\ f.primary.gender = "FEMALE" \/ f.entryType = "SINGLE"
        /\ f.primary.gender = "MALE" \/ paired \/ 45 <= age(f.primary)
        /\ paired => f.secondary.gender = "MALE" /\ f.primary.id # f.secondary.id
    <2>1. f.primary.gender \in {"FEMALE", "MALE"} /\ f.primary.dob # Nothing /\ age(f.primary) \in Int
      BY <1>3, <1>4 DEF Whole
    <2> QED
      BY <2>1
      DEF Lawful, Suits, Accompanied, RegisterForm!NeedsMahram, RegisterForm!MAHRAM_OPTIONAL_AGE
  <1> HIDE DEF w, s, person
  <1>6. s.commune # Nothing
    <2>1. [wilaya |-> w, isActive |-> TRUE, wilayaIsActive |-> TRUE]
            \in [wilaya : RegisterForm!Wilayas, isActive : {TRUE}, wilayaIsActive : {TRUE}]
      BY <1>1
    <2> QED
      BY <1>2, <2>1, PagesAssumption DEF RegisterForm!FormAssumption
  <1>7. /\ s.primary # Nothing /\ s.primary.id = f.primary.id /\ s.primary.gender = f.primary.gender
        /\ s.primary.dob = f.primary.dob /\ s.primary.hasWon = FALSE /\ s.primary.applications = {}
    BY <1>2, <1>3, <1>4 DEF person
  <1>8. paired => /\ s.secondary # Nothing /\ s.secondary.id = f.secondary.id
                  /\ s.secondary.gender = f.secondary.gender /\ s.secondary.dob = f.secondary.dob
                  /\ s.secondary.hasWon = FALSE /\ s.secondary.applications = {}
    BY <1>2, <1>3, <1>4 DEF person
  <1>9. ~ paired => s.secondary = Nothing
    BY <1>2
  <1>10. /\ s.commune.isActive = TRUE /\ s.commune.wilayaIsActive = TRUE
         /\ s.commune.wilaya = s.claimedWilaya
         /\ s.drawYear \in 2000 .. 2200 /\ s.expectedDrawYear = Nothing
         /\ s.registrationDate = Days[day] /\ s.entryType = f.entryType
    BY <1>1, <1>2, PagesAssumption
    DEF RegisterForm!FormAssumption, RegisterForm!MIN_DRAW_YEAR, RegisterForm!MAX_DRAW_YEAR
  <1>11. /\ age(f.primary) \in Int /\ 19 <= age(f.primary) /\ f.primary.gender \in {"FEMALE", "MALE"}
         /\ paired => age(f.secondary) \in Int /\ 19 <= age(f.secondary)
         /\ "MALE" # Nothing /\ f.primary.gender # Nothing
         /\ \A a : RegisterForm!OccupiesAnother(a, Nothing) <=> a.applications \ {Nothing} # {}
    BY <1>3, <1>4, PagesAssumption DEF RegisterForm!FormAssumption, RegisterForm!OccupiesAnother
  <1>12. RegisterForm!CalculateAgeAt(s.primary.dob, s.registrationDate) = age(f.primary)
    BY <1>7, <1>10 DEF RegisterForm!CalculateAgeAt
  <1>13. paired => RegisterForm!CalculateAgeAt(s.secondary.dob, s.registrationDate) = age(f.secondary)
    BY <1>8, <1>10 DEF RegisterForm!CalculateAgeAt
  <1>14. /\ ~ RegisterForm!OccupiesAnother(s.primary, s.applicationId)
         /\ paired => ~ RegisterForm!OccupiesAnother(s.secondary, s.applicationId)
    BY <1>7, <1>8 DEF RegisterForm!OccupiesAnother
  <1> HIDE DEF age
  <1> DEFINE reasons == RegisterForm!EvaluateEligibility(s)
  <1>15. reasons \subseteq {"PARTICIPANT_NOT_FOUND", "SECONDARY_PARTICIPANT_NOT_FOUND", "APPLICATION_INCOMPLETE", "ENTRY_TYPE_MISMATCH", "DUPLICATE_APPLICANTS", "INVALID_COMMUNE", "DRAW_YEAR_INVALID", "PARTICIPANT_HAS_ALREADY_WON", "SECONDARY_PARTICIPANT_HAS_ALREADY_WON", "DUPLICATE_ANNUAL_APPLICATION", "SECONDARY_ALREADY_REGISTERED", "UNDER_MINIMUM_AGE", "SECONDARY_UNDER_MINIMUM_AGE", "GENDER_UNAVAILABLE", "MAHRAM_REQUIRED", "INVALID_MAHRAM_GENDER", "INVALID_PAIRED_GENDERS"}
    BY DEF RegisterForm!EvaluateEligibility
  <1>16. "PARTICIPANT_NOT_FOUND" \notin reasons
    BY <1>7 DEF RegisterForm!EvaluateEligibility
  <1>17. "SECONDARY_PARTICIPANT_NOT_FOUND" \notin reasons
    <2>1. "SECONDARY_PARTICIPANT_NOT_FOUND" \in reasons =>
            s.entryType = "PAIRED" /\ s.secondary = Nothing
      BY DEF RegisterForm!EvaluateEligibility
    <2> QED
      BY <1>8, <1>10, <2>1
  <1>18. "APPLICATION_INCOMPLETE" \notin reasons
    <2>1. "APPLICATION_INCOMPLETE" \in reasons =>
            s.entryType = "PAIRED" /\ s.secondary = Nothing
      BY DEF RegisterForm!EvaluateEligibility
    <2> QED
      BY <1>8, <1>10, <2>1
  <1>19. "ENTRY_TYPE_MISMATCH" \notin reasons
    <2>1. "ENTRY_TYPE_MISMATCH" \in reasons =>
            s.entryType # "PAIRED" /\ s.secondary # Nothing
      BY DEF RegisterForm!EvaluateEligibility
    <2> QED
      BY <1>9, <1>10, <2>1
  <1>20. "DUPLICATE_APPLICANTS" \notin reasons
    BY <1>5, <1>7, <1>8, <1>9 DEF RegisterForm!EvaluateEligibility
  <1>21. "INVALID_COMMUNE" \notin reasons
    BY <1>6, <1>10 DEF RegisterForm!EvaluateEligibility
  <1>22. "DRAW_YEAR_INVALID" \notin reasons
    BY <1>10 DEF RegisterForm!EvaluateEligibility, RegisterForm!MIN_DRAW_YEAR, RegisterForm!MAX_DRAW_YEAR
  <1>23. "PARTICIPANT_HAS_ALREADY_WON" \notin reasons
    BY <1>7 DEF RegisterForm!EvaluateEligibility
  <1>24. "SECONDARY_PARTICIPANT_HAS_ALREADY_WON" \notin reasons
    BY <1>8, <1>9 DEF RegisterForm!EvaluateEligibility
  <1>25. "DUPLICATE_ANNUAL_APPLICATION" \notin reasons
    BY <1>14 DEF RegisterForm!EvaluateEligibility
  <1>26. "SECONDARY_ALREADY_REGISTERED" \notin reasons
    BY <1>9, <1>14 DEF RegisterForm!EvaluateEligibility
  <1>27. "UNDER_MINIMUM_AGE" \notin reasons
    <2>1. "UNDER_MINIMUM_AGE" \in reasons =>
            RegisterForm!CalculateAgeAt(s.primary.dob, s.registrationDate) < 19
      BY DEF RegisterForm!EvaluateEligibility, RegisterForm!MINIMUM_APPLICATION_AGE
    <2> QED
      BY <1>11, <1>12, <2>1
  <1>28. "SECONDARY_UNDER_MINIMUM_AGE" \notin reasons
    <2>1. "SECONDARY_UNDER_MINIMUM_AGE" \in reasons =>
            /\ s.secondary # Nothing
            /\ RegisterForm!CalculateAgeAt(s.secondary.dob, s.registrationDate) < 19
      BY DEF RegisterForm!EvaluateEligibility, RegisterForm!MINIMUM_APPLICATION_AGE
    <2> QED
      BY <1>9, <1>11, <1>13, <2>1
  <1>29. "GENDER_UNAVAILABLE" \notin reasons
    BY <1>5, <1>7, <1>8, <1>9, <1>11 DEF RegisterForm!EvaluateEligibility
  <1>30. "MAHRAM_REQUIRED" \notin reasons
    <2>1. "MAHRAM_REQUIRED" \in reasons =>
            /\ s.entryType # "PAIRED" /\ s.primary.gender = "FEMALE"
            /\ RegisterForm!CalculateAgeAt(s.primary.dob, s.registrationDate) < 45
      BY DEF RegisterForm!EvaluateEligibility, RegisterForm!MAHRAM_OPTIONAL_AGE
    <2> QED
      BY <1>5, <1>7, <1>10, <1>11, <1>12, <2>1
  <1>31. "INVALID_MAHRAM_GENDER" \notin reasons
    <2>1. "INVALID_MAHRAM_GENDER" \in reasons =>
            s.entryType = "PAIRED" /\ s.secondary.gender # "MALE"
      BY DEF RegisterForm!EvaluateEligibility
    <2> QED
      BY <1>5, <1>8, <1>10, <2>1
  <1>32. "INVALID_PAIRED_GENDERS" \notin reasons
    <2>1. "INVALID_PAIRED_GENDERS" \in reasons =>
            /\ s.entryType = "PAIRED"
            /\ s.primary.gender # "FEMALE" \/ s.secondary.gender # "MALE"
      BY DEF RegisterForm!EvaluateEligibility
    <2> QED
      BY <1>3, <1>5, <1>7, <1>8, <1>10, <1>11, <2>1
  <1> HIDE DEF reasons
  <1>33. reasons = {}
    BY <1>15, <1>16, <1>17, <1>18, <1>19, <1>20, <1>21, <1>22, <1>23, <1>24, <1>25, <1>26, <1>27, <1>28, <1>29, <1>30, <1>31, <1>32
  <1> QED
    BY <1>33 DEF s, reasons

LEMMA FormInvariance == RegisterForm!Spec => []FormIInv
  <1>1. RegisterForm!Init => FormIInv
    BY FormStart
  <1>2. FormIInv /\ [RegisterForm!Next]_(RegisterForm!vars) => FormIInv'
    BY FormStep
  <1> QED
    BY <1>1, <1>2, PTL DEF RegisterForm!Spec

\* Whatever is answered, gone back over, changed and answered again, and whatever birthdays
\* come meanwhile: the review is only reached by a form without an error, and nothing is
\* sent that the server's rules refuse of people it does not know yet.
THEOREM AFormIsSentWhole == RegisterForm!Spec => []SentIsAccepted
  <1>1. FormIInv => SentIsAccepted
    <2> SUFFICES ASSUME FormIInv PROVE SentIsAccepted
      OBVIOUS
    <2>1. RegisterForm!CurrentKey = "review" => RegisterForm!Validate(form) = {}
      <3> SUFFICES ASSUME RegisterForm!CurrentKey = "review" PROVE RegisterForm!Validate(form) = {}
        OBVIOUS
      <3>1. Lawful(form, day)
        BY Reviewed
      <3>2. RegisterForm!ApplicantErrors(form.primary) = {} /\ RegisterForm!LocationErrors(form) = {}
        BY <3>1, FoundNow, FormsHold, ChecksAre, PlaceChecksAre DEF Lawful
      <3>3. form.entryType = "PAIRED" => RegisterForm!SecondaryErrors(form) = {}
        BY <3>1, FoundNow, PairChecksAre DEF Lawful
      <3> QED
        BY <3>2, <3>3 DEF RegisterForm!Validate
    <2>2. sent # Nothing => RegisterForm!EvaluateEligibility(RegisterForm!Subject(sent)) = {}
      BY FoundNow, LawfulIsAccepted DEF FormIInv, RegisterForm!TypeOK
    <2> QED
      BY <2>1, <2>2 DEF FormIInv, SentIsAccepted, RegisterForm!ReviewIsComplete, RegisterForm!SentIsAccepted
  <1> QED
    BY <1>1, FormInvariance, PTL

------------------------------------------------------------------------------
(* The scripts that take draws back. *)

ScriptTables ==
  /\ pool \in [TownDraws -> {Nothing} \cup [id : Nat, entries : SUBSET Entries]]
  /\ resultOf \in [TownDraws -> {Nothing} \cup [pool : Nat, winner : Entries]]
  /\ froze \in Nat

\* Who holds a place was in the pool, which is there as long as the result is.
WinnersWerePooled == \A d \in TownDraws : resultOf[d] # Nothing =>
  pool[d] # Nothing /\ resultOf[d].winner \in pool[d].entries

\* Two applications of a year have nobody in common, and a pool is of applications there are.
EntriesAreApart == \A a, b \in Entries :
  /\ standing[a] # Nothing /\ standing[b] # Nothing
  /\ DevScripts!YearIn(a) = DevScripts!YearIn(b) /\ a # b
  => OccupantsOf[a] \cap OccupantsOf[b] = {}

PooledAreRegistered == \A d \in TownDraws : pool[d] # Nothing =>
  \A a \in pool[d].entries : standing[a] # Nothing

\* A row that an execution wrote is of somebody in the pool of a draw of its year that has
\* a result.
DrawnIn(d, record) ==
  /\ resultOf[d] # Nothing /\ pool[d] # Nothing /\ YearDrawn[d] = record.year
  /\ \E a \in pool[d].entries : record.person \in OccupantsOf[a]

RowsAreDrawn == \A record \in ledger : record.source = "APPLICATION" =>
  \E d \in TownDraws : DrawnIn(d, record)

\* What a script has read is what there is: no server writes in between.
StillAsRead ==
  /\ script.draws \subseteq TownDraws
  /\ \A d \in script.draws :
       /\ pool[d] # Nothing =>
            [draw |-> d, id |-> pool[d].id] \in script.pools /\ pool[d].entries \subseteq script.entries
       /\ resultOf[d] # Nothing => [draw |-> d, id |-> resultOf[d].pool] \in script.results
  /\ \A x \in script.pools \cup script.results : x.draw \in script.draws
  /\ \A a \in script.entries :
       \E d \in script.draws : pool[d] # Nothing /\ a \in pool[d].entries

ReadIsTrue == script = DevScripts!Idle \/ (script.at = "read" /\ StillAsRead)

ScriptsIInv ==
  /\ DevScripts!TypeOK
  /\ ScriptTables
  /\ DevScripts!StatusTellsPool
  /\ DevScripts!MarkMeansWin
  /\ WinnersWerePooled
  /\ EntriesAreApart
  /\ PooledAreRegistered
  /\ RowsAreDrawn
  /\ ReadIsTrue

LEMMA OccupantsArePeople == \A a \in Entries : OccupantsOf[a] \subseteq People
  BY PagesAssumption DEF DevScripts!ScriptsAssumption

\* What a pool and a result are, where there is one.
LEMMA PoolHeld ==
  ASSUME DevScripts!TypeOK, ScriptTables, NEW d \in TownDraws
  PROVE  /\ pool[d] # Nothing => /\ pool[d] \in [id : 1 .. froze, entries : (SUBSET DevScripts!Of(d)) \ {{}}]
                                 /\ pool[d].entries \subseteq Entries
                                 /\ \A a \in pool[d].entries : a \in Entries /\ DrawFor[a] = d
                                 /\ pool[d].id \in Nat
         /\ resultOf[d] # Nothing => /\ resultOf[d] \in [pool : 1 .. froze, winner : DevScripts!Of(d)]
                                     /\ resultOf[d].winner \in Entries
                                     /\ DrawFor[resultOf[d].winner] = d
         /\ froze \in Nat
  <1>1. froze \in Nat
    BY DEF ScriptTables
  <1>2. DevScripts!Of(d) \subseteq Entries /\ \A a \in DevScripts!Of(d) : DrawFor[a] = d
    BY DEF DevScripts!Of
  <1>3. pool[d] # Nothing => pool[d] \in [id : 1 .. froze, entries : (SUBSET DevScripts!Of(d)) \ {{}}]
    BY DEF DevScripts!TypeOK
  <1>4. resultOf[d] # Nothing => resultOf[d] \in [pool : 1 .. froze, winner : DevScripts!Of(d)]
    BY DEF DevScripts!TypeOK
  <1> QED
    BY <1>1, <1>2, <1>3, <1>4

\* The pools of two draws of a year have nobody in common.
LEMMA DrawsAreApart ==
  ASSUME ScriptsIInv, NEW c \in TownDraws, NEW d \in TownDraws, YearDrawn[c] = YearDrawn[d],
         pool[c] # Nothing, pool[d] # Nothing,
         NEW a \in pool[c].entries, NEW b \in pool[d].entries, NEW p,
         p \in OccupantsOf[a], p \in OccupantsOf[b]
  PROVE  c = d
  <1>1. a \in Entries /\ b \in Entries /\ DrawFor[a] = c /\ DrawFor[b] = d
    BY PoolHeld DEF ScriptsIInv
  <1>2. DevScripts!YearIn(a) = DevScripts!YearIn(b)
    BY <1>1 DEF DevScripts!YearIn
  <1>3. standing[a] # Nothing /\ standing[b] # Nothing
    BY DEF ScriptsIInv, PooledAreRegistered
  <1> QED
    BY <1>1, <1>2, <1>3 DEF ScriptsIInv, EntriesAreApart

LEMMA ScriptsStart == ASSUME DevScripts!Init PROVE ScriptsIInv
  <1>1. DevScripts!TypeOK
    BY DEF DevScripts!Init, DevScripts!TypeOK
  <1>2. ScriptTables
    BY DEF DevScripts!Init, ScriptTables
  <1>3. DevScripts!StatusTellsPool
    BY DEF DevScripts!Init, DevScripts!StatusTellsPool
  <1>4. WinnersWerePooled
    BY DEF DevScripts!Init, WinnersWerePooled
  <1>5. RowsAreDrawn
    BY DEF DevScripts!Init, RowsAreDrawn
  <1>6. ReadIsTrue
    BY DEF DevScripts!Init, ReadIsTrue
  <1>7. DevScripts!MarkMeansWin
    BY DEF DevScripts!Init, DevScripts!MarkMeansWin
  <1>8. EntriesAreApart /\ PooledAreRegistered
    BY DEF DevScripts!Init, EntriesAreApart, PooledAreRegistered
  <1> QED
    BY <1>1, <1>2, <1>3, <1>4, <1>5, <1>6, <1>7, <1>8 DEF ScriptsIInv

\* Nothing but the script that has read goes on.
LEMMA ServersAreDown ==
  ASSUME DevScripts!Serves
  PROVE  script = DevScripts!Idle
  BY DEF DevScripts!Serves

\* Steps that write neither a pool nor a result.
LEMMA NothingDrawn ==
  ASSUME ScriptsIInv, DevScripts!TypeOK', UNCHANGED <<pool, resultOf, froze, script>>,
         script = DevScripts!Idle,
         \A record \in ledger' : record.source = "APPLICATION" => record \in ledger,
         \A a \in Entries : standing[a] # Nothing => standing'[a] # Nothing,
         EntriesAreApart', DevScripts!StatusTellsPool', DevScripts!MarkMeansWin'
  PROVE  ScriptsIInv'
  <1>1. ScriptTables'
    BY DEF ScriptsIInv, ScriptTables
  <1>2. WinnersWerePooled'
    BY DEF ScriptsIInv, WinnersWerePooled
  <1>3. RowsAreDrawn'
    BY DEF ScriptsIInv, RowsAreDrawn, DrawnIn
  <1>4. ReadIsTrue'
    BY DEF ReadIsTrue, DevScripts!Idle
  <1>5. PooledAreRegistered'
    <2> SUFFICES ASSUME NEW d \in TownDraws, pool[d] # Nothing, NEW a \in pool[d].entries
                 PROVE  standing'[a] # Nothing
      BY DEF PooledAreRegistered
    <2>1. a \in Entries
      BY PoolHeld DEF ScriptsIInv
    <2> QED
      BY <2>1 DEF ScriptsIInv, PooledAreRegistered
  <1> QED
    BY <1>1, <1>2, <1>3, <1>4, <1>5 DEF ScriptsIInv

LEMMA EntryRegistered ==
  ASSUME ScriptsIInv, NEW a \in Entries, DevScripts!Register(a)
  PROVE  ScriptsIInv'
  <1>1. /\ UNCHANGED <<theYear, drawOf, pool, resultOf, hasWon, legacy, ledger, trail, froze, script>>
        /\ script = DevScripts!Idle /\ standing' = [standing EXCEPT ![a] = "ELIGIBLE"]
    BY ServersAreDown DEF DevScripts!Register
  <1>2. DevScripts!TypeOK'
    BY <1>1 DEF ScriptsIInv, DevScripts!TypeOK
  <1>3. DevScripts!StatusTellsPool'
    BY <1>1 DEF ScriptsIInv, DevScripts!StatusTellsPool
  <1>4. DevScripts!MarkMeansWin'
    BY <1>1 DEF ScriptsIInv, DevScripts!MarkMeansWin, DevScripts!Winners
  <1>5. /\ \A b \in Entries : b # a => standing'[b] = standing[b]
        /\ standing'[a] = "ELIGIBLE" /\ Nothing # "ELIGIBLE"
    BY <1>1, PagesAssumption DEF ScriptsIInv, DevScripts!TypeOK, DevScripts!ScriptsAssumption
  <1>6. \A b \in Entries : standing[b] # Nothing /\ DevScripts!YearIn(b) = DevScripts!YearIn(a) =>
          OccupantsOf[b] \cap OccupantsOf[a] = {}
    BY DEF DevScripts!Register, DevScripts!Registered
  <1>7. EntriesAreApart'
    <2> SUFFICES ASSUME NEW b \in Entries, NEW c \in Entries,
                        standing'[b] # Nothing, standing'[c] # Nothing,
                        DevScripts!YearIn(b) = DevScripts!YearIn(c), b # c
                 PROVE  OccupantsOf[b] \cap OccupantsOf[c] = {}
      BY DEF EntriesAreApart, DevScripts!YearIn
    <2>1. CASE b = a
      BY <2>1, <1>5, <1>6
    <2>2. CASE c = a
      BY <2>2, <1>5, <1>6
    <2>3. CASE b # a /\ c # a
      BY <2>3, <1>5 DEF ScriptsIInv, EntriesAreApart
    <2> QED
      BY <2>1, <2>2, <2>3
  <1>8. \A b \in Entries : standing[b] # Nothing => standing'[b] # Nothing
    BY <1>5
  <1> QED
    BY <1>1, <1>2, <1>3, <1>4, <1>7, <1>8, NothingDrawn

LEMMA YearMoved ==
  ASSUME ScriptsIInv, NEW y \in DrawnYears,
         DevScripts!OpenRegistration(y) \/ DevScripts!CloseRegistration(y) \/ DevScripts!ReopenRegistration(y)
  PROVE  ScriptsIInv'
  <1>1. /\ UNCHANGED <<drawOf, pool, resultOf, standing, hasWon, legacy, ledger, trail, froze, script>>
        /\ script = DevScripts!Idle
        /\ \E status \in {"REGISTRATION_OPEN", "REGISTRATION_CLOSED"} :
             theYear' = [theYear EXCEPT ![y] = status]
    BY ServersAreDown
    DEF DevScripts!OpenRegistration, DevScripts!CloseRegistration, DevScripts!ReopenRegistration,
        DevScripts!drawn
  <1>2. DevScripts!TypeOK'
    BY <1>1 DEF ScriptsIInv, DevScripts!TypeOK
  <1>3. DevScripts!StatusTellsPool'
    BY <1>1 DEF ScriptsIInv, DevScripts!StatusTellsPool
  <1>4. DevScripts!MarkMeansWin'
    BY <1>1 DEF ScriptsIInv, DevScripts!MarkMeansWin, DevScripts!Winners
  <1>5. EntriesAreApart'
    BY <1>1 DEF ScriptsIInv, EntriesAreApart, DevScripts!YearIn
  <1> QED
    BY <1>1, <1>2, <1>3, <1>4, <1>5, NothingDrawn

LEMMA ResultPublished ==
  ASSUME ScriptsIInv, NEW d \in TownDraws, DevScripts!Serves, DevScripts!Publish(d)
  PROVE  ScriptsIInv'
  <1>1. /\ UNCHANGED <<theYear, drawOf, pool, resultOf, standing, hasWon, legacy, ledger, froze, script>>
        /\ script = DevScripts!Idle
    BY ServersAreDown DEF DevScripts!Publish
  <1>2. DevScripts!TypeOK'
    BY <1>1 DEF ScriptsIInv, DevScripts!TypeOK
  <1>3. DevScripts!StatusTellsPool'
    BY <1>1 DEF ScriptsIInv, DevScripts!StatusTellsPool
  <1>4. DevScripts!MarkMeansWin'
    BY <1>1 DEF ScriptsIInv, DevScripts!MarkMeansWin, DevScripts!Winners
  <1>5. EntriesAreApart'
    BY <1>1 DEF ScriptsIInv, EntriesAreApart, DevScripts!YearIn
  <1> QED
    BY <1>1, <1>2, <1>3, <1>4, <1>5, NothingDrawn

LEMMA RowsTyped == ASSUME ScriptsIInv
  PROVE ledger \subseteq [person : People, year : DrawnYears,
                          source : {"APPLICATION", "LEGACY_IMPORT", "ADMIN_CORRECTION"}]
  BY DEF ScriptsIInv, DevScripts!TypeOK

LEMMA RecordImported ==
  ASSUME ScriptsIInv, NEW old \in OldRecords, DevScripts!Import(old)
  PROVE  ScriptsIInv'
  <1>1. PICK record : record = DevScripts!Row(old.person, old.year, "LEGACY_IMPORT")
    OBVIOUS
  <1>2. old.person \in People /\ old.year \in DrawnYears
    BY PagesAssumption DEF DevScripts!ScriptsAssumption
  <1>3. /\ record \in [person : People, year : DrawnYears,
                    source : {"APPLICATION", "LEGACY_IMPORT", "ADMIN_CORRECTION"}]
        /\ record.source = "LEGACY_IMPORT"
    BY <1>1, <1>2 DEF DevScripts!Row
  <1>4. /\ UNCHANGED <<theYear, drawOf, pool, resultOf, standing, trail, froze, script>>
        /\ script = DevScripts!Idle /\ ledger' = ledger \cup {record}
        /\ \/ legacy' = legacy /\ hasWon' = hasWon
           \/ legacy' = legacy \cup {old.person} /\ hasWon' = hasWon \cup {old.person}
    BY <1>1, ServersAreDown DEF DevScripts!Import
  <1>5. DevScripts!TypeOK'
    <2>1. ledger' \subseteq [person : People, year : DrawnYears,
                             source : {"APPLICATION", "LEGACY_IMPORT", "ADMIN_CORRECTION"}]
      BY <1>3, <1>4, RowsTyped
    <2>2. hasWon' \subseteq People /\ legacy' \subseteq People
      BY <1>2, <1>4 DEF ScriptsIInv, DevScripts!TypeOK
    <2> QED
      BY <1>4, <2>1, <2>2 DEF ScriptsIInv, DevScripts!TypeOK
  <1>6. DevScripts!StatusTellsPool'
    BY <1>4 DEF ScriptsIInv, DevScripts!StatusTellsPool
  <1>7. DevScripts!MarkMeansWin'
    BY <1>4 DEF ScriptsIInv, DevScripts!MarkMeansWin, DevScripts!Winners
  <1>8. EntriesAreApart'
    BY <1>4 DEF ScriptsIInv, EntriesAreApart, DevScripts!YearIn
  <1>9. \A r \in ledger' : r.source = "APPLICATION" => r \in ledger
    BY <1>3, <1>4
  <1> QED
    BY <1>4, <1>5, <1>6, <1>7, <1>8, <1>9, NothingDrawn

LEMMA RowCorrected ==
  ASSUME ScriptsIInv, NEW old \in ledger, DevScripts!Correct(old)
  PROVE  ScriptsIInv'
  <1>1. PICK record : record = DevScripts!Row(old.person, old.year, "ADMIN_CORRECTION")
    OBVIOUS
  <1>2. /\ record \in [person : People, year : DrawnYears,
                    source : {"APPLICATION", "LEGACY_IMPORT", "ADMIN_CORRECTION"}]
        /\ record.source = "ADMIN_CORRECTION"
    BY <1>1, RowsTyped DEF DevScripts!Row
  <1>3. /\ UNCHANGED <<theYear, drawOf, pool, resultOf, standing, hasWon, legacy, trail, froze, script>>
        /\ script = DevScripts!Idle /\ ledger' = (ledger \ {old}) \cup {record}
    BY <1>1, ServersAreDown DEF DevScripts!Correct
  <1>4. DevScripts!TypeOK'
    <2>1. ledger' \subseteq [person : People, year : DrawnYears,
                             source : {"APPLICATION", "LEGACY_IMPORT", "ADMIN_CORRECTION"}]
      BY <1>2, <1>3, RowsTyped
    <2> QED
      BY <1>3, <2>1 DEF ScriptsIInv, DevScripts!TypeOK
  <1>5. DevScripts!StatusTellsPool'
    BY <1>3 DEF ScriptsIInv, DevScripts!StatusTellsPool
  <1>6. DevScripts!MarkMeansWin'
    BY <1>3 DEF ScriptsIInv, DevScripts!MarkMeansWin, DevScripts!Winners
  <1>7. EntriesAreApart'
    BY <1>3 DEF ScriptsIInv, EntriesAreApart, DevScripts!YearIn
  <1>8. \A r \in ledger' : r.source = "APPLICATION" => r \in ledger
    BY <1>2, <1>3
  <1> QED
    BY <1>3, <1>4, <1>5, <1>6, <1>7, <1>8, NothingDrawn

LEMMA DrawsMoved ==
  ASSUME ScriptsIInv, NEW ds, NEW from \in {"DRAFT", "READY"}, NEW to \in {"DRAFT", "READY"},
         DevScripts!Move(ds, from, to)
  PROVE  ScriptsIInv'
  <1>1. /\ UNCHANGED <<theYear, pool, resultOf, standing, hasWon, legacy, ledger, trail, froze, script>>
        /\ script = DevScripts!Idle
        /\ drawOf' = [d \in TownDraws |-> IF d \in ds /\ drawOf[d] = from THEN to ELSE drawOf[d]]
    BY DEF DevScripts!Move
  <1>2. DevScripts!TypeOK'
    BY <1>1 DEF ScriptsIInv, DevScripts!TypeOK
  <1>3. DevScripts!StatusTellsPool'
    BY <1>1 DEF ScriptsIInv, DevScripts!StatusTellsPool
  <1>4. DevScripts!MarkMeansWin'
    BY <1>1 DEF ScriptsIInv, DevScripts!MarkMeansWin, DevScripts!Winners
  <1>5. EntriesAreApart'
    BY <1>1 DEF ScriptsIInv, EntriesAreApart, DevScripts!YearIn
  <1> QED
    BY <1>1, <1>2, <1>3, <1>4, <1>5, NothingDrawn

\* A script reads what there is.
LEMMA DrawsRead ==
  ASSUME ScriptsIInv, NEW ds \in SUBSET TownDraws, DevScripts!Read(ds)
  PROVE  ScriptsIInv'
  <1> DEFINE taken == {d \in ds : pool[d] # Nothing \/ resultOf[d] # Nothing}
             pooled == {e \in taken : pool[e] # Nothing}
             decided == {e \in taken : resultOf[e] # Nothing}
  <1>1. /\ UNCHANGED <<theYear, drawOf, pool, resultOf, standing, hasWon, legacy, ledger, trail, froze>>
        /\ script' = [at |-> "read", draws |-> taken,
                      pools |-> {[draw |-> d, id |-> pool[d].id] : d \in pooled},
                      results |-> {[draw |-> d, id |-> resultOf[d].pool] : d \in decided},
                      entries |-> UNION {pool[d].entries : d \in pooled}]
    BY DEF DevScripts!Read, DevScripts!drawn
  <1>2. /\ script'.at = "read" /\ script'.draws = taken
        /\ script'.pools = {[draw |-> d, id |-> pool[d].id] : d \in pooled}
        /\ script'.results = {[draw |-> d, id |-> resultOf[d].pool] : d \in decided}
        /\ script'.entries = UNION {pool[d].entries : d \in pooled}
    BY <1>1
  <1>3. \A x \in script'.pools \cup script'.results : x.draw \in taken
    <2>1. \A d \in pooled : [draw |-> d, id |-> pool[d].id].draw \in taken
      OBVIOUS
    <2>2. \A d \in decided : [draw |-> d, id |-> resultOf[d].pool].draw \in taken
      OBVIOUS
    <2> QED
      BY <1>2, <2>1, <2>2
  <1>4. \A d \in taken :
          /\ pool[d] # Nothing =>
               [draw |-> d, id |-> pool[d].id] \in script'.pools /\ pool[d].entries \subseteq script'.entries
          /\ resultOf[d] # Nothing => [draw |-> d, id |-> resultOf[d].pool] \in script'.results
    BY <1>2
  <1>5. \A a \in script'.entries : \E d \in taken : pool[d] # Nothing /\ a \in pool[d].entries
    BY <1>2
  <1>6. ReadIsTrue'
    BY <1>1, <1>2, <1>3, <1>4, <1>5 DEF ReadIsTrue, StillAsRead
  <1>7. DevScripts!TypeOK'
    BY <1>1 DEF ScriptsIInv, DevScripts!TypeOK
  <1>8. DevScripts!StatusTellsPool'
    BY <1>1 DEF ScriptsIInv, DevScripts!StatusTellsPool
  <1>9. DevScripts!MarkMeansWin'
    BY <1>1 DEF ScriptsIInv, DevScripts!MarkMeansWin, DevScripts!Winners
  <1>10. ScriptTables'
    BY <1>1 DEF ScriptsIInv, ScriptTables
  <1>11. WinnersWerePooled' /\ PooledAreRegistered'
    BY <1>1 DEF ScriptsIInv, WinnersWerePooled, PooledAreRegistered
  <1>12. RowsAreDrawn'
    BY <1>1 DEF ScriptsIInv, RowsAreDrawn, DrawnIn
  <1>13. EntriesAreApart'
    BY <1>1 DEF ScriptsIInv, EntriesAreApart, DevScripts!YearIn
  <1> QED
    BY <1>6, <1>7, <1>8, <1>9, <1>10, <1>11, <1>12, <1>13 DEF ScriptsIInv

LEMMA EverybodyRemoved ==
  ASSUME ScriptsIInv, DevScripts!ResetParticipants
  PROVE  ScriptsIInv'
  <1>1. /\ pool' = [d \in TownDraws |-> Nothing] /\ resultOf' = [d \in TownDraws |-> Nothing]
        /\ standing' = [a \in Entries |-> Nothing] /\ hasWon' = {} /\ legacy' = {} /\ ledger' = {}
        /\ drawOf' = [d \in TownDraws |->
                        IF drawOf[d] \in {"LOCKED", "COMPLETED"} THEN "READY" ELSE drawOf[d]]
        /\ theYear' = theYear /\ froze' = froze /\ script' = script /\ script = DevScripts!Idle
    BY DEF DevScripts!ResetParticipants
  <1>2. DevScripts!TypeOK'
    BY <1>1 DEF ScriptsIInv, DevScripts!TypeOK
  <1>3. DevScripts!StatusTellsPool'
    BY <1>1 DEF ScriptsIInv, DevScripts!StatusTellsPool, DevScripts!TypeOK
  <1>4. DevScripts!MarkMeansWin'
    BY <1>1 DEF DevScripts!MarkMeansWin
  <1>5. ScriptTables'
    BY <1>1 DEF ScriptsIInv, ScriptTables
  <1>6. WinnersWerePooled' /\ PooledAreRegistered'
    BY <1>1 DEF WinnersWerePooled, PooledAreRegistered
  <1>7. RowsAreDrawn'
    BY <1>1 DEF RowsAreDrawn
  <1>8. ReadIsTrue'
    BY <1>1 DEF ReadIsTrue, DevScripts!Idle
  <1>9. EntriesAreApart'
    BY <1>1 DEF EntriesAreApart
  <1> QED
    BY <1>2, <1>3, <1>4, <1>5, <1>6, <1>7, <1>8, <1>9 DEF ScriptsIInv

LEMMA PoolTaken ==
  ASSUME ScriptsIInv, NEW c \in TownDraws, DevScripts!Freeze(c)
  PROVE  ScriptsIInv'
  <1> DEFINE mine == DevScripts!Candidates(c)
             n == froze + 1
             new == [id |-> n, entries |-> mine]
  <1>1. /\ UNCHANGED <<theYear, resultOf, standing, hasWon, legacy, ledger, script>>
        /\ script = DevScripts!Idle /\ mine # {} /\ drawOf[c] = "READY" /\ pool[c] = Nothing
        /\ drawOf' = [drawOf EXCEPT ![c] = "LOCKED"]
        /\ froze' = n
        /\ pool' = [pool EXCEPT ![c] = [id |-> froze', entries |-> mine]]
    BY ServersAreDown DEF DevScripts!Freeze
  <1>2. /\ froze \in Nat /\ n \in Nat /\ n \in 1 .. n
        /\ mine \in (SUBSET DevScripts!Of(c)) \ {{}} /\ mine \in SUBSET Entries
    <2>1. froze \in Nat
      BY DEF ScriptsIInv, ScriptTables
    <2>2. mine \subseteq DevScripts!Of(c) /\ DevScripts!Of(c) \subseteq Entries
      BY DEF DevScripts!Candidates, DevScripts!Of
    <2> HIDE DEF mine
    <2> QED
      BY <1>1, <2>1, <2>2
  <1>3. 1 .. froze \subseteq 1 .. froze' /\ froze' = n /\ froze' \in Nat
    BY <1>1, <1>2
  <1>4. new \in [id : 1 .. n, entries : (SUBSET DevScripts!Of(c)) \ {{}}] /\ new # Nothing
        /\ new \in [id : Nat, entries : SUBSET Entries] /\ new.entries = mine /\ new.id = n
    <2> HIDE DEF mine, n
    <2>1. new \in [id : 1 .. n, entries : (SUBSET DevScripts!Of(c)) \ {{}}]
      BY <1>2
    <2>2. new \in [id : Nat, entries : SUBSET Entries]
      BY <1>2
    <2>3. new.entries = mine /\ new.id = n
      OBVIOUS
    <2> HIDE DEF new
    <2>4. new # Nothing
      BY <2>2, PagesAssumption DEF DevScripts!ScriptsAssumption
    <2> QED
      BY <2>1, <2>2, <2>3, <2>4
  <1>5. \A a \in mine : standing[a] = "ELIGIBLE"
    BY DEF DevScripts!Candidates
  <1> HIDE DEF new, mine, n
  <1>6. pool' = [pool EXCEPT ![c] = new]
    BY <1>1, <1>3 DEF new
  <1>7. /\ pool' \in [TownDraws -> {Nothing} \cup [id : Nat, entries : SUBSET Entries]]
        /\ pool'[c] = new /\ \A d \in TownDraws : d # c => pool'[d] = pool[d]
    BY <1>4, <1>6 DEF ScriptsIInv, ScriptTables
  <1>8. /\ drawOf' \in [TownDraws -> {"DRAFT", "READY", "LOCKED", "COMPLETED"}]
        /\ drawOf'[c] = "LOCKED" /\ \A d \in TownDraws : d # c => drawOf'[d] = drawOf[d]
    BY <1>1 DEF ScriptsIInv, DevScripts!TypeOK
  <1>9. resultOf[c] = Nothing
    BY <1>1 DEF ScriptsIInv, DevScripts!StatusTellsPool
  <1>10. DevScripts!TypeOK'
    <2>1. ASSUME NEW d \in TownDraws
          PROVE pool'[d] = Nothing \/ pool'[d] \in [id : 1 .. froze', entries : (SUBSET DevScripts!Of(d)) \ {{}}]
      <3>1. CASE d = c
        BY <3>1, <1>3, <1>4, <1>7
      <3>2. CASE d # c
        BY <3>2, <1>3, <1>7 DEF ScriptsIInv, DevScripts!TypeOK
      <3> QED
        BY <3>1, <3>2
    <2>2. \A d \in TownDraws :
            resultOf'[d] = Nothing \/ resultOf'[d] \in [pool : 1 .. froze', winner : DevScripts!Of(d)]
      BY <1>1, <1>3 DEF ScriptsIInv, DevScripts!TypeOK
    <2> QED
      BY <1>1, <1>8, <2>1, <2>2 DEF ScriptsIInv, DevScripts!TypeOK
  <1>11. ScriptTables'
    BY <1>1, <1>3, <1>7 DEF ScriptsIInv, ScriptTables
  <1>12. DevScripts!StatusTellsPool'
    BY <1>1, <1>4, <1>7, <1>8, <1>9 DEF ScriptsIInv, DevScripts!StatusTellsPool
  <1>13. WinnersWerePooled'
    BY <1>1, <1>7, <1>9 DEF ScriptsIInv, WinnersWerePooled
  <1>14. RowsAreDrawn'
    BY <1>1, <1>7, <1>9 DEF ScriptsIInv, RowsAreDrawn, DrawnIn
  <1>15. ReadIsTrue'
    BY <1>1 DEF ReadIsTrue, DevScripts!Idle
  <1>16. DevScripts!MarkMeansWin'
    BY <1>1 DEF ScriptsIInv, DevScripts!MarkMeansWin, DevScripts!Winners
  <1>17. EntriesAreApart'
    BY <1>1 DEF ScriptsIInv, EntriesAreApart, DevScripts!YearIn
  <1>18. PooledAreRegistered'
    <2>1. Nothing # "ELIGIBLE"
      BY PagesAssumption DEF DevScripts!ScriptsAssumption
    <2> QED
      BY <1>1, <1>4, <1>5, <1>7, <2>1 DEF ScriptsIInv, PooledAreRegistered
  <1> QED
    BY <1>10, <1>11, <1>12, <1>13, <1>14, <1>15, <1>16, <1>17, <1>18 DEF ScriptsIInv

\* The execution writes the rows of its pool, and one result.
LEMMA DrawExecuted ==
  ASSUME ScriptsIInv, NEW c \in TownDraws, DevScripts!Serves, drawOf[c] = "LOCKED",
         pool[c] # Nothing, resultOf[c] = Nothing, DevScripts!Execute(c)
  PROVE  ScriptsIInv'
  <1> DEFINE written == {DevScripts!Row(p, YearDrawn[c], "APPLICATION") : p \in DevScripts!Pooled(c)}
  <1>1. PICK winner \in pool[c].entries :
          /\ drawOf' = [drawOf EXCEPT ![c] = "COMPLETED"]
          /\ resultOf' = [resultOf EXCEPT ![c] = [pool |-> pool[c].id, winner |-> winner]]
          /\ standing' = [a \in Entries |->
               IF a = winner THEN "SELECTED" ELSE IF a \in pool[c].entries THEN "NOT_SELECTED" ELSE standing[a]]
          /\ hasWon' = hasWon \cup OccupantsOf[winner]
          /\ ledger' = ledger \cup written
          /\ UNCHANGED <<theYear, pool, legacy, froze, script>>
    BY DEF DevScripts!Execute
  <1> DEFINE new == [pool |-> pool[c].id, winner |-> winner]
  <1>2. /\ pool[c] \in [id : 1 .. froze, entries : (SUBSET DevScripts!Of(c)) \ {{}}]
        /\ winner \in Entries /\ winner \in DevScripts!Of(c) /\ froze \in Nat
        /\ \A a \in pool[c].entries : a \in Entries
    BY <1>1, PoolHeld DEF ScriptsIInv
  <1>3. /\ new \in [pool : 1 .. froze, winner : DevScripts!Of(c)]
        /\ new \in [pool : Nat, winner : Entries] /\ new # Nothing
        /\ new.pool = pool[c].id /\ new.winner = winner
    BY <1>2, PagesAssumption DEF DevScripts!ScriptsAssumption
  <1>4. resultOf' = [resultOf EXCEPT ![c] = new]
    BY <1>1
  <1> HIDE DEF new
  <1>5. /\ resultOf' \in [TownDraws -> {Nothing} \cup [pool : Nat, winner : Entries]]
        /\ resultOf'[c] = new /\ \A d \in TownDraws : d # c => resultOf'[d] = resultOf[d]
    BY <1>3, <1>4 DEF ScriptsIInv, ScriptTables
  <1>6. /\ drawOf' \in [TownDraws -> {"DRAFT", "READY", "LOCKED", "COMPLETED"}]
        /\ drawOf'[c] = "COMPLETED" /\ \A d \in TownDraws : d # c => drawOf'[d] = drawOf[d]
    BY <1>1 DEF ScriptsIInv, DevScripts!TypeOK
  <1>7. \A p \in DevScripts!Pooled(c) : p \in People /\ \E a \in pool[c].entries : p \in OccupantsOf[a]
    BY <1>2, OccupantsArePeople DEF DevScripts!Pooled
  <1>8. \A record \in written :
          /\ record \in [person : People, year : DrawnYears,
                      source : {"APPLICATION", "LEGACY_IMPORT", "ADMIN_CORRECTION"}]
          /\ record.year = YearDrawn[c] /\ \E a \in pool[c].entries : record.person \in OccupantsOf[a]
    <2>1. YearDrawn[c] \in DrawnYears
      BY PagesAssumption DEF DevScripts!ScriptsAssumption
    <2>2. ASSUME NEW p \in DevScripts!Pooled(c), NEW record, record = DevScripts!Row(p, YearDrawn[c], "APPLICATION")
          PROVE  /\ record \in [person : People, year : DrawnYears,
                             source : {"APPLICATION", "LEGACY_IMPORT", "ADMIN_CORRECTION"}]
                 /\ record.year = YearDrawn[c] /\ record.person = p
      BY <1>7, <2>1, <2>2 DEF DevScripts!Row
    <2> QED
      BY <1>7, <2>2
  <1> HIDE DEF written
  <1>9. \A a \in Entries : standing[a] = Nothing <=> standing'[a] = Nothing
    <2>1. Nothing \notin {"SELECTED", "NOT_SELECTED"}
      BY PagesAssumption DEF DevScripts!ScriptsAssumption
    <2>2. \A a \in pool[c].entries : standing[a] # Nothing
      BY DEF ScriptsIInv, PooledAreRegistered
    <2> QED
      BY <1>1, <2>1, <2>2
  <1>10. DevScripts!TypeOK'
    <2>1. \A d \in TownDraws :
            resultOf'[d] = Nothing \/ resultOf'[d] \in [pool : 1 .. froze', winner : DevScripts!Of(d)]
      BY <1>1, <1>3, <1>5 DEF ScriptsIInv, DevScripts!TypeOK
    <2>2. \A d \in TownDraws :
            pool'[d] = Nothing \/ pool'[d] \in [id : 1 .. froze', entries : (SUBSET DevScripts!Of(d)) \ {{}}]
      BY <1>1 DEF ScriptsIInv, DevScripts!TypeOK
    <2>3. standing' \in [Entries -> {Nothing, "ELIGIBLE", "SELECTED", "NOT_SELECTED"}]
      BY <1>1 DEF ScriptsIInv, DevScripts!TypeOK
    <2>4. ledger' \subseteq [person : People, year : DrawnYears,
                             source : {"APPLICATION", "LEGACY_IMPORT", "ADMIN_CORRECTION"}]
      BY <1>1, <1>8, RowsTyped
    <2>5. hasWon' \subseteq People
      BY <1>1, <1>2, OccupantsArePeople DEF ScriptsIInv, DevScripts!TypeOK
    <2> QED
      BY <1>1, <1>6, <2>1, <2>2, <2>3, <2>4, <2>5 DEF ScriptsIInv, DevScripts!TypeOK
  <1>11. ScriptTables'
    BY <1>1, <1>5 DEF ScriptsIInv, ScriptTables
  <1>12. DevScripts!StatusTellsPool'
    BY <1>1, <1>3, <1>5, <1>6 DEF ScriptsIInv, DevScripts!StatusTellsPool
  <1>13. WinnersWerePooled'
    BY <1>1, <1>3, <1>5 DEF ScriptsIInv, WinnersWerePooled
  <1>14. RowsAreDrawn'
    <2> SUFFICES ASSUME NEW record \in ledger', record.source = "APPLICATION"
                 PROVE  \E d \in TownDraws : DrawnIn(d, record)'
      BY DEF RowsAreDrawn
    <2>1. CASE record \in written
      <3>1. DrawnIn(c, record)'
        BY <1>1, <1>3, <1>5, <1>8, <2>1 DEF DrawnIn
      <3> QED
        BY <3>1
    <2>2. CASE record \in ledger
      <3>1. PICK d \in TownDraws : DrawnIn(d, record)
        BY <2>2 DEF ScriptsIInv, RowsAreDrawn
      <3>2. d # c
        BY <3>1 DEF DrawnIn
      <3>3. DrawnIn(d, record)'
        BY <1>1, <1>5, <3>1, <3>2 DEF DrawnIn
      <3> QED
        BY <3>3
    <2> QED
      BY <1>1, <2>1, <2>2
  <1>15. ReadIsTrue'
    BY <1>1, ServersAreDown DEF ReadIsTrue, DevScripts!Idle
  <1>16. DevScripts!MarkMeansWin'
    <2> SUFFICES ASSUME NEW p \in hasWon', p \notin legacy' PROVE p \in DevScripts!Winners'
      BY DEF DevScripts!MarkMeansWin
    <2>1. CASE p \in OccupantsOf[winner]
      BY <1>3, <1>5, <2>1 DEF DevScripts!Winners
    <2>2. CASE p \in hasWon
      <3>1. PICK d \in TownDraws : resultOf[d] # Nothing /\ p \in OccupantsOf[resultOf[d].winner]
        BY <1>1, <2>2 DEF ScriptsIInv, DevScripts!MarkMeansWin, DevScripts!Winners
      <3>2. resultOf'[d] = resultOf[d]
        BY <1>5, <3>1
      <3> QED
        BY <3>1, <3>2 DEF DevScripts!Winners
    <2> QED
      BY <1>1, <2>1, <2>2
  <1>17. EntriesAreApart'
    BY <1>9 DEF ScriptsIInv, EntriesAreApart, DevScripts!YearIn
  <1>18. PooledAreRegistered'
    <2> SUFFICES ASSUME NEW d \in TownDraws, pool[d] # Nothing, NEW a \in pool[d].entries
                 PROVE  standing'[a] # Nothing
      BY <1>1 DEF PooledAreRegistered
    <2>1. a \in Entries /\ standing[a] # Nothing
      BY PoolHeld DEF ScriptsIInv, PooledAreRegistered
    <2> QED
      BY <1>9, <2>1
  <1> QED
    BY <1>10, <1>11, <1>12, <1>13, <1>14, <1>15, <1>16, <1>17, <1>18 DEF ScriptsIInv

\* What a script undoes is all there is of the draws it read, and nothing of the others.
LEMMA UndoneWhole ==
  ASSUME ScriptsIInv, DevScripts!Undo
  PROVE  /\ script.at = "read" /\ StillAsRead
         /\ \A d \in script.draws : pool'[d] = Nothing /\ resultOf'[d] = Nothing /\ drawOf'[d] = "READY"
         /\ \A d \in TownDraws \ script.draws :
              pool'[d] = pool[d] /\ resultOf'[d] = resultOf[d] /\ drawOf'[d] = drawOf[d]
         /\ DOMAIN pool' = TownDraws /\ DOMAIN resultOf' = TownDraws
         /\ drawOf' \in [TownDraws -> {"DRAFT", "READY", "LOCKED", "COMPLETED"}]
         /\ hasWon' = hasWon \ DevScripts!Touched(script)
         /\ ledger' \subseteq ledger
         /\ \A record \in ledger : record \in ledger' <=>
              ~ (record.source = "APPLICATION" /\ record.person \in DevScripts!TouchedIn(script, record.year))
         /\ standing' = [a \in Entries |-> IF a \in script.entries THEN "ELIGIBLE" ELSE standing[a]]
         /\ script' = DevScripts!Idle
         /\ UNCHANGED <<theYear, legacy, froze>>
  <1>1. /\ script.at = "read" /\ script' = DevScripts!Idle
        /\ UNCHANGED <<theYear, legacy, froze>>
        /\ pool' = [d \in TownDraws |->
             IF pool[d] # Nothing /\ [draw |-> d, id |-> pool[d].id] \in script.pools THEN Nothing ELSE pool[d]]
        /\ resultOf' = [d \in TownDraws |->
             IF resultOf[d] # Nothing /\ [draw |-> d, id |-> resultOf[d].pool] \in script.results
             THEN Nothing ELSE resultOf[d]]
        /\ hasWon' = DevScripts!WonAfter(script)
        /\ standing' = [a \in Entries |-> IF a \in script.entries THEN "ELIGIBLE" ELSE standing[a]]
        /\ ledger' = DevScripts!LedgerAfter(script)
        /\ drawOf' = DevScripts!StatusAfter(script)
    BY DEF DevScripts!Undo
  <1>2. StillAsRead
    BY <1>1 DEF ScriptsIInv, ReadIsTrue, DevScripts!Idle
  <1>3. \A d \in script.draws : pool'[d] = Nothing /\ resultOf'[d] = Nothing
    BY <1>1, <1>2 DEF StillAsRead
  <1>4. ASSUME NEW d \in TownDraws \ script.draws
        PROVE  pool'[d] = pool[d] /\ resultOf'[d] = resultOf[d]
    <2>1. \A n : LET x == [draw |-> d, id |-> n] IN x \notin script.pools /\ x \notin script.results
      <3> SUFFICES ASSUME NEW n, [draw |-> d, id |-> n] \in script.pools \cup script.results
                   PROVE  FALSE
        OBVIOUS
      <3>1. [draw |-> d, id |-> n].draw = d
        OBVIOUS
      <3> QED
        BY <1>2, <3>1 DEF StillAsRead
    <2> QED
      BY <1>1, <2>1
  <1>5. /\ drawOf' \in [TownDraws -> {"DRAFT", "READY", "LOCKED", "COMPLETED"}]
        /\ \A d \in script.draws : drawOf'[d] = "READY"
        /\ \A d \in TownDraws \ script.draws : drawOf'[d] = drawOf[d]
    BY <1>1, <1>2 DEF DevScripts!StatusAfter, ScriptsIInv, DevScripts!TypeOK, StillAsRead
  <1>6. DOMAIN pool' = TownDraws /\ DOMAIN resultOf' = TownDraws
    BY <1>1
  <1>7. hasWon' = hasWon \ DevScripts!Touched(script)
    BY <1>1 DEF DevScripts!WonAfter
  <1>8. /\ ledger' \subseteq ledger
        /\ \A record \in ledger : record \in ledger' <=>
              ~ (record.source = "APPLICATION" /\ record.person \in DevScripts!TouchedIn(script, record.year))
    BY <1>1 DEF DevScripts!LedgerAfter
  <1> QED
    BY <1>1, <1>2, <1>3, <1>4, <1>5, <1>6, <1>7, <1>8

\* The applications a script has read are those in the pools of its draws.
LEMMA ReadEntries ==
  ASSUME ScriptsIInv, StillAsRead
  PROVE  /\ \A d \in script.draws : pool[d] # Nothing => pool[d].entries \subseteq script.entries
         /\ \A a \in script.entries : a \in Entries /\ DrawFor[a] \in script.draws /\ standing[a] # Nothing
  <1>1. \A d \in script.draws : pool[d] # Nothing => pool[d].entries \subseteq script.entries
    BY DEF StillAsRead
  <1>2. ASSUME NEW a \in script.entries
        PROVE  a \in Entries /\ DrawFor[a] \in script.draws /\ standing[a] # Nothing
    <2>1. PICK d \in script.draws : pool[d] # Nothing /\ a \in pool[d].entries
      BY DEF StillAsRead
    <2>2. d \in TownDraws
      BY <2>1 DEF StillAsRead
    <2>3. a \in Entries /\ DrawFor[a] = d
      BY <2>1, <2>2, PoolHeld DEF ScriptsIInv
    <2>4. standing[a] # Nothing
      BY <2>1, <2>2 DEF ScriptsIInv, PooledAreRegistered
    <2> QED
      BY <2>3, <2>4
  <1> QED
    BY <1>1, <1>2

LEMMA DrawsUndone ==
  ASSUME ScriptsIInv, DevScripts!Undo
  PROVE  ScriptsIInv'
  <1>1. \A a \in Entries : standing[a] = Nothing <=> standing'[a] = Nothing
    <2>1. Nothing # "ELIGIBLE"
      BY PagesAssumption DEF DevScripts!ScriptsAssumption
    <2> QED
      BY <2>1, UndoneWhole, ReadEntries
  <1>2. DevScripts!TypeOK'
    <2>1. \A d \in TownDraws :
            /\ pool'[d] = Nothing \/ pool'[d] \in [id : 1 .. froze', entries : (SUBSET DevScripts!Of(d)) \ {{}}]
            /\ resultOf'[d] = Nothing \/ resultOf'[d] \in [pool : 1 .. froze', winner : DevScripts!Of(d)]
      BY UndoneWhole DEF ScriptsIInv, DevScripts!TypeOK
    <2>2. standing' \in [Entries -> {Nothing, "ELIGIBLE", "SELECTED", "NOT_SELECTED"}]
      BY UndoneWhole DEF ScriptsIInv, DevScripts!TypeOK
    <2>3. ledger' \subseteq [person : People, year : DrawnYears,
                             source : {"APPLICATION", "LEGACY_IMPORT", "ADMIN_CORRECTION"}]
      BY UndoneWhole, RowsTyped
    <2>4. hasWon' \subseteq People /\ legacy' \subseteq People
      BY UndoneWhole DEF ScriptsIInv, DevScripts!TypeOK
    <2>5. /\ theYear' \in [DrawnYears -> {"DRAFT", "REGISTRATION_OPEN", "REGISTRATION_CLOSED"}]
          /\ drawOf' \in [TownDraws -> {"DRAFT", "READY", "LOCKED", "COMPLETED"}]
      BY UndoneWhole DEF ScriptsIInv, DevScripts!TypeOK
    <2> QED
      BY <2>1, <2>2, <2>3, <2>4, <2>5 DEF DevScripts!TypeOK
  <1>3. ScriptTables'
    <2>1. \A d \in TownDraws : pool'[d] \in {pool[d], Nothing} /\ resultOf'[d] \in {resultOf[d], Nothing}
      BY UndoneWhole
    <2>2. pool' = [d \in TownDraws |-> pool'[d]] /\ resultOf' = [d \in TownDraws |-> resultOf'[d]]
          /\ froze' = froze
      BY DEF DevScripts!Undo
    <2>3. \A d \in TownDraws :
            /\ pool'[d] \in {Nothing} \cup [id : Nat, entries : SUBSET Entries]
            /\ resultOf'[d] \in {Nothing} \cup [pool : Nat, winner : Entries]
      BY <2>1 DEF ScriptsIInv, ScriptTables
    <2> QED
      BY <2>2, <2>3 DEF ScriptsIInv, ScriptTables
  <1>4. DevScripts!StatusTellsPool'
    BY UndoneWhole DEF ScriptsIInv, DevScripts!StatusTellsPool
  <1>5. WinnersWerePooled'
    BY UndoneWhole DEF ScriptsIInv, WinnersWerePooled
  <1>6. RowsAreDrawn'
    <2> SUFFICES ASSUME NEW record \in ledger', record.source = "APPLICATION"
                 PROVE  \E d \in TownDraws : DrawnIn(d, record)'
      BY DEF RowsAreDrawn
    <2>1. record \in ledger /\ record.person \notin DevScripts!TouchedIn(script, record.year)
      BY UndoneWhole
    <2>2. PICK d \in TownDraws : DrawnIn(d, record)
      BY <2>1 DEF ScriptsIInv, RowsAreDrawn
    <2>3. d \notin script.draws
      <3> SUFFICES ASSUME d \in script.draws PROVE FALSE
        OBVIOUS
      <3>1. PICK a \in pool[d].entries : record.person \in OccupantsOf[a]
        BY <2>2 DEF DrawnIn
      <3>2. a \in script.entries
        BY <2>2, <3>1, UndoneWhole, ReadEntries DEF DrawnIn
      <3>3. DevScripts!YearIn(a) = record.year
        <4>1. DrawFor[a] = d /\ YearDrawn[d] = record.year
          BY <2>2, <3>1, PoolHeld DEF ScriptsIInv, DrawnIn
        <4> QED
          BY <4>1 DEF DevScripts!YearIn
      <3> QED
        BY <2>1, <3>1, <3>2, <3>3 DEF DevScripts!TouchedIn
    <2>4. DrawnIn(d, record)'
      BY <2>2, <2>3, UndoneWhole DEF DrawnIn
    <2> QED
      BY <2>4
  <1>7. ReadIsTrue'
    BY UndoneWhole DEF ReadIsTrue, DevScripts!Idle
  <1>8. DevScripts!MarkMeansWin'
    <2> SUFFICES ASSUME NEW p \in hasWon', p \notin legacy' PROVE p \in DevScripts!Winners'
      BY DEF DevScripts!MarkMeansWin
    <2>1. p \in hasWon /\ p \notin legacy /\ p \notin DevScripts!Touched(script)
      BY UndoneWhole
    <2>2. PICK d \in TownDraws : resultOf[d] # Nothing /\ p \in OccupantsOf[resultOf[d].winner]
      BY <2>1 DEF ScriptsIInv, DevScripts!MarkMeansWin, DevScripts!Winners
    <2>3. d \notin script.draws
      <3>1. pool[d] # Nothing /\ resultOf[d].winner \in pool[d].entries
        BY <2>2 DEF ScriptsIInv, WinnersWerePooled
      <3> QED
        BY <2>1, <2>2, <3>1, UndoneWhole, ReadEntries DEF DevScripts!Touched
    <2>4. resultOf'[d] = resultOf[d]
      BY <2>3, UndoneWhole
    <2> QED
      BY <2>2, <2>4 DEF DevScripts!Winners
  <1>9. EntriesAreApart'
    BY <1>1 DEF ScriptsIInv, EntriesAreApart, DevScripts!YearIn
  <1>10. PooledAreRegistered'
    <2> SUFFICES ASSUME NEW d \in TownDraws, pool'[d] # Nothing, NEW a \in pool'[d].entries
                 PROVE  standing'[a] # Nothing
      BY DEF PooledAreRegistered
    <2>1. pool'[d] = pool[d] /\ pool[d] # Nothing /\ a \in pool[d].entries
      BY UndoneWhole
    <2>2. a \in Entries /\ standing[a] # Nothing
      BY <2>1, PoolHeld DEF ScriptsIInv, PooledAreRegistered
    <2> QED
      BY <1>1, <2>2
  <1> QED
    BY <1>2, <1>3, <1>4, <1>5, <1>6, <1>7, <1>8, <1>9, <1>10 DEF ScriptsIInv

\* The draws that were not read are left alone, with the rows of those who are in them.
LEMMA UndoneApart ==
  ASSUME ScriptsIInv, DevScripts!Undo, NEW d \in TownDraws \ script.draws
  PROVE  /\ drawOf'[d] = drawOf[d] /\ pool'[d] = pool[d] /\ resultOf'[d] = resultOf[d]
         /\ \A a \in DevScripts!Of(d) :
              /\ standing'[a] = standing[a]
              /\ standing[a] # Nothing => \A record \in ledger \ ledger' :
                   record.year = YearDrawn[d] => record.person \notin OccupantsOf[a]
  <1>1. drawOf'[d] = drawOf[d] /\ pool'[d] = pool[d] /\ resultOf'[d] = resultOf[d]
    BY UndoneWhole
  <1>2. \A a \in DevScripts!Of(d) : a \in Entries /\ DrawFor[a] = d /\ a \notin script.entries
    BY UndoneWhole, ReadEntries DEF DevScripts!Of
  <1>3. \A a \in DevScripts!Of(d) : standing'[a] = standing[a]
    BY <1>2, UndoneWhole
  <1>4. ASSUME NEW a \in DevScripts!Of(d), standing[a] # Nothing, NEW record \in ledger \ ledger',
               record.year = YearDrawn[d], record.person \in OccupantsOf[a]
        PROVE  FALSE
    <2>1. record.person \in DevScripts!TouchedIn(script, record.year)
      BY UndoneWhole
    <2>2. PICK e \in script.entries : DevScripts!YearIn(e) = record.year /\ record.person \in OccupantsOf[e]
      BY <2>1 DEF DevScripts!TouchedIn
    <2>3. e \in Entries /\ standing[e] # Nothing /\ e # a
      BY <1>2, <2>2, UndoneWhole, ReadEntries
    <2>4. DevScripts!YearIn(a) = record.year
      BY <1>2, <1>4 DEF DevScripts!YearIn
    <2> QED
      BY <1>2, <1>4, <2>2, <2>3, <2>4 DEF ScriptsIInv, EntriesAreApart
  <1> QED
    BY <1>1, <1>3, <1>4

LEMMA ScriptsStep == ASSUME ScriptsIInv, [DevScripts!Next]_(DevScripts!vars) PROVE ScriptsIInv'
  <1>1. ASSUME NEW a \in Entries, DevScripts!Register(a) PROVE ScriptsIInv'
    BY <1>1, EntryRegistered
  <1>2. ASSUME NEW y \in DrawnYears,
               DevScripts!OpenRegistration(y) \/ DevScripts!CloseRegistration(y)
               \/ DevScripts!ReopenRegistration(y)
        PROVE  ScriptsIInv'
    BY <1>2, YearMoved
  <1>3. ASSUME NEW d \in TownDraws, DevScripts!Freeze(d) PROVE ScriptsIInv'
    BY <1>3, PoolTaken
  <1>4. ASSUME NEW d \in TownDraws, DevScripts!Serves, drawOf[d] = "LOCKED", pool[d] # Nothing,
               resultOf[d] = Nothing, DevScripts!Execute(d)
        PROVE  ScriptsIInv'
    BY <1>4, DrawExecuted
  <1>5. ASSUME NEW d \in TownDraws, DevScripts!Serves, DevScripts!Publish(d) PROVE ScriptsIInv'
    BY <1>5, ResultPublished
  <1>6. ASSUME NEW d \in TownDraws, DevScripts!ResetCommuneDraw(d) PROVE ScriptsIInv'
    <2>1. {d} \in SUBSET TownDraws /\ DevScripts!Read({d})
      BY <1>6 DEF DevScripts!ResetCommuneDraw
    <2> QED
      BY <2>1, DrawsRead
  <1>7. ASSUME NEW old \in OldRecords, DevScripts!Import(old) PROVE ScriptsIInv'
    BY <1>7, RecordImported
  <1>8. ASSUME NEW record \in ledger, DevScripts!Correct(record) PROVE ScriptsIInv'
    BY <1>8, RowCorrected
  <1>9. CASE DevScripts!ResetCommuneDraws
    <2>1. PICK ds \in SUBSET TownDraws : DevScripts!Read(ds)
      BY <1>9 DEF DevScripts!ResetCommuneDraws, DevScripts!In
    <2> QED
      BY <2>1, DrawsRead
  <1>10. CASE DevScripts!Undo
    BY <1>10, DrawsUndone
  <1>11. CASE DevScripts!ResetParticipants
    BY <1>11, EverybodyRemoved
  <1>12. CASE DevScripts!ReadyCommuneDraws \/ DevScripts!DraftCommuneDraws
    <2>1. \E ds : DevScripts!Move(ds, "DRAFT", "READY") \/ DevScripts!Move(ds, "READY", "DRAFT")
      BY <1>12 DEF DevScripts!ReadyCommuneDraws, DevScripts!DraftCommuneDraws
    <2> QED
      BY <2>1, DrawsMoved
  <1>13. CASE UNCHANGED DevScripts!vars
    BY <1>13
    DEF DevScripts!vars, ScriptsIInv, DevScripts!TypeOK, ScriptTables, DevScripts!StatusTellsPool,
        WinnersWerePooled, RowsAreDrawn, DrawnIn, ReadIsTrue, StillAsRead, DevScripts!MarkMeansWin,
        DevScripts!Winners, EntriesAreApart, PooledAreRegistered, DevScripts!YearIn
  <1> QED
    BY <1>1, <1>2, <1>3, <1>4, <1>5, <1>6, <1>7, <1>8, <1>9, <1>10, <1>11, <1>12, <1>13
    DEF DevScripts!Next

\* Whoever has a row of an execution is in the pool of a draw of that year that has a
\* result, and in no other pool of the year.
LEMMA NoExecutionLeftARow == ASSUME ScriptsIInv PROVE DevScripts!NoRowLeftBehind
  <1> SUFFICES ASSUME NEW d \in TownDraws, drawOf[d] = "LOCKED", NEW record \in ledger,
                      record.source = "APPLICATION", record.year = YearDrawn[d],
                      record.person \in DevScripts!Pooled(d)
               PROVE  FALSE
    BY DEF DevScripts!NoRowLeftBehind
  <1>1. pool[d] # Nothing /\ resultOf[d] = Nothing
    BY DEF ScriptsIInv, DevScripts!StatusTellsPool
  <1>2. PICK a \in pool[d].entries : record.person \in OccupantsOf[a]
    BY DEF DevScripts!Pooled
  <1>3. PICK e \in TownDraws : DrawnIn(e, record)
    BY DEF ScriptsIInv, RowsAreDrawn
  <1>4. d = e
    BY <1>1, <1>2, <1>3, DrawsAreApart DEF DrawnIn
  <1> QED
    BY <1>1, <1>3, <1>4 DEF DrawnIn

LEMMA ScriptsInvariance == DevScripts!Spec => []ScriptsIInv
  <1>1. DevScripts!Init => ScriptsIInv
    BY ScriptsStart
  <1>2. ScriptsIInv /\ [DevScripts!Next]_(DevScripts!vars) => ScriptsIInv'
    BY ScriptsStep
  <1> QED
    BY <1>1, <1>2, PTL DEF DevScripts!Spec

\* While no server runs, a draw that was taken back can be drawn again, by a pool frozen
\* anew, whatever draws of whatever years were taken back: its status tells what there is of
\* it, no row that an execution wrote bars it, and whoever has the mark of a winner holds a
\* place or an imported win; the draws that were not taken back are untouched, with the rows
\* of those in them. That winners keep the mark is not claimed: the scripts take it off
\* people who won in another year.
THEOREM ATakenBackDrawIsAsNew == DevScripts!Spec => DrawableAgain
  <1>1. ScriptsIInv => /\ DevScripts!TypeOK /\ DevScripts!StatusTellsPool
                       /\ DevScripts!NoRowLeftBehind /\ DevScripts!MarkMeansWin
    BY NoExecutionLeftARow DEF ScriptsIInv
  <1>2. ASSUME ScriptsIInv, [DevScripts!Next]_(DevScripts!vars)
        PROVE  DevScripts!Undo => DevScripts!OthersStay
    <2>1. SUFFICES ASSUME DevScripts!Undo, NEW d \in TownDraws \ script.draws
          PROVE  /\ drawOf'[d] = drawOf[d] /\ pool'[d] = pool[d] /\ resultOf'[d] = resultOf[d]
                 /\ \A a \in DevScripts!Of(d) :
                      /\ standing'[a] = standing[a]
                      /\ standing[a] # Nothing => \A record \in ledger \ ledger' :
                           record.year = YearDrawn[d] => record.person \notin OccupantsOf[a]
      BY DEF DevScripts!OthersStay
    <2> QED
      BY <1>2, <2>1, UndoneApart
  <1> QED
    BY <1>1, <1>2, ScriptsInvariance, PTL DEF DevScripts!Spec, DrawableAgain, DevScripts!OthersUntouched

------------------------------------------------------------------------------
(* The public results. *)

Outcomes == [withdrawn : BOOLEAN, reserve : {"WAITING", "CALLED", "PROMOTED", "DECLINED"}]

\* The feed names a commune once, the newest year first.
FeedIsOrdered ==
  /\ feed \in Seq(Announcing)
  /\ \A i, j \in DOMAIN feed : feed[i] = feed[j] => i = j
  /\ \A i, j \in DOMAIN feed : i < j => YearHeld[feed[i]] >= YearHeld[feed[j]]

ResultTables ==
  /\ outcome \in [Announcing -> Outcomes]
  /\ listCopy \in [PublicResults!Filters -> [PublicResults!Pages ->
       {Nothing} \cup [rows : SUBSET Announcing, total : Nat]]]
  /\ copy \in [Announcing -> {Nothing} \cup [state : {"found"}, body : Outcomes]]
  /\ list \in [Followers -> [filter : PublicResults!Filters, page : PublicResults!Pages,
                             state : {"loading", "rows", "count", "shown"},
                             rows : SUBSET Announcing, total : Nat, before : SUBSET Announcing]]
  /\ result \in [Visitors -> [at : Announcing \cup {Nothing},
                              state : {"closed", "loading", "found", "absent"},
                              body : Outcomes \cup {Nothing}]]

\* How much is listed of each filter.
Listed == [f \in PublicResults!Filters |-> Cardinality(PublicResults!Matching(f))]

\* What an answer about a page of a listing says, which the announcements that follow do
\* not make untrue: its rows are announced and fit a page, a page after the first has some,
\* and its total is not more than there is.
RowsAreTrue(rows, p, published) ==
  /\ rows \subseteq published
  /\ IsFiniteSet(rows) /\ Cardinality(rows) <= ResultsPerPage
  /\ p > 1 => rows # {}

\* Something is listed on a page.
PageExists(p, listed) == p > 1 => (p - 1) * ResultsPerPage < listed

PageIsTrue(l, published, listed) ==
  /\ PageExists(l.page, listed)
  /\ l.rows # {} \/ l.state \in {"rows", "shown"} => RowsAreTrue(l.rows, l.page, published)
  /\ l.state \in {"count", "shown"} => l.total <= listed

CopyIsTrue(held, p, published, listed) ==
  held # Nothing => RowsAreTrue(held.rows, p, published) /\ held.total <= listed

ListsAreTrue == \A r \in Followers :
  PageIsTrue(list[r], PublicResults!Announced, Listed[list[r].filter])

CopiesAreTrue == \A f \in PublicResults!Filters : \A p \in PublicResults!Pages :
  CopyIsTrue(listCopy[f][p], p, PublicResults!Announced, Listed[f])

ResultsAreAnnounced ==
  /\ \A c \in Announcing : copy[c] # Nothing => c \in PublicResults!Announced
  /\ \A v \in Visitors :
       /\ result[v].state = "found" => result[v].at \in PublicResults!Announced
       /\ result[v].state = "loading" => result[v].at \in Announcing
  /\ \A c \in Announcing : outcome[c].reserve # "WAITING" => outcome[c].withdrawn

ResultsIInv == FeedIsOrdered /\ ResultTables /\ ListsAreTrue /\ CopiesAreTrue /\ ResultsAreAnnounced

LEMMA SetsAreCounted ==
  ASSUME NEW S
  PROVE  PublicResults!Cardinality(S) = Cardinality(S)
  BY DEF PublicResults!Cardinality, Cardinality

LEMMA PageSizeIsCounted == ResultsPerPage \in Nat \ {0} /\ \A c \in Announcing : YearHeld[c] \in Nat
  BY PagesAssumption DEF PublicResults!ResultsAssumption

\* What has been announced is as many as the feed is long, and each has its place.
LEMMA AnnouncedAre ==
  ASSUME FeedIsOrdered
  PROVE  /\ PublicResults!Announced \subseteq Announcing
         /\ IsFiniteSet(PublicResults!Announced)
         /\ \A c : c \in PublicResults!Announced <=> \E i \in DOMAIN feed : feed[i] = c
         /\ Len(feed) \in Nat /\ DOMAIN feed = 1 .. Len(feed)
  <1>1. Len(feed) \in Nat /\ DOMAIN feed = 1 .. Len(feed) /\ \A i \in DOMAIN feed : feed[i] \in Announcing
    BY DEF FeedIsOrdered
  <1>2. \A c : c \in PublicResults!Announced <=> \E i \in DOMAIN feed : feed[i] = c
    BY DEF PublicResults!Announced, PublicResults!ToSet
  <1>3. IsFiniteSet(PublicResults!Announced)
    <2> DEFINE order == [i \in 1 .. Len(feed) |-> feed[i]]
    <2>1. order \in Surjection(1 .. Len(feed), PublicResults!Announced)
      BY <1>1, <1>2 DEF Surjection
    <2>2. IsFiniteSet(1 .. Len(feed))
      BY <1>1, FS_Interval
    <2> HIDE DEF order
    <2> QED
      BY <2>1, <2>2, FS_Surjection
  <1> QED
    BY <1>1, <1>2, <1>3

LEMMA MatchingAre ==
  ASSUME FeedIsOrdered, NEW f
  PROVE  /\ PublicResults!Matching(f) \subseteq PublicResults!Announced
         /\ IsFiniteSet(PublicResults!Matching(f)) /\ Cardinality(PublicResults!Matching(f)) \in Nat
  <1>1. PublicResults!Matching(f) \subseteq PublicResults!Announced
    BY DEF PublicResults!Matching
  <1> QED
    BY <1>1, AnnouncedAre, FS_Subset, FS_CardinalityType

LEMMA PlacesAre ==
  ASSUME FeedIsOrdered
  PROVE  /\ \A c \in PublicResults!Announced :
              PublicResults!Place(c) \in DOMAIN feed /\ PublicResults!Place(c) \in Nat
              /\ feed[PublicResults!Place(c)] = c
         /\ \A c, d \in PublicResults!Announced : PublicResults!Place(c) = PublicResults!Place(d) => c = d
  <1>1. ASSUME NEW c \in PublicResults!Announced
        PROVE  PublicResults!Place(c) \in DOMAIN feed /\ feed[PublicResults!Place(c)] = c
    BY AnnouncedAre DEF PublicResults!Place
  <1> QED
    BY <1>1, AnnouncedAre

\* Of a listing, those up to a row: one more at each.
LEMMA RanksAre ==
  ASSUME FeedIsOrdered, NEW f, NEW c \in PublicResults!Matching(f)
  PROVE  /\ PublicResults!Rank(f, c) \in 1 .. Cardinality(PublicResults!Matching(f))
         /\ \A d \in PublicResults!Matching(f) :
              PublicResults!Place(d) < PublicResults!Place(c) =>
                PublicResults!Rank(f, d) < PublicResults!Rank(f, c)
  <1> DEFINE upTo(d) == {e \in PublicResults!Matching(f) : PublicResults!Place(e) <= PublicResults!Place(d)}
  <1>1. ASSUME NEW d \in PublicResults!Matching(f)
        PROVE  /\ IsFiniteSet(upTo(d)) /\ Cardinality(upTo(d)) \in 1 .. Cardinality(PublicResults!Matching(f))
               /\ PublicResults!Rank(f, d) = Cardinality(upTo(d))
    <2>1. d \in upTo(d) /\ upTo(d) \in SUBSET PublicResults!Matching(f)
      BY MatchingAre, PlacesAre
    <2>4. PublicResults!Rank(f, d) = Cardinality(upTo(d))
      BY SetsAreCounted DEF PublicResults!Rank
    <2> HIDE DEF upTo
    <2>2. IsFiniteSet(upTo(d)) /\ Cardinality(upTo(d)) <= Cardinality(PublicResults!Matching(f))
      BY <2>1, MatchingAre, FS_Subset
    <2>3. Cardinality(upTo(d)) \in Nat /\ Cardinality(upTo(d)) # 0
      BY <2>1, <2>2, FS_CardinalityType, FS_EmptySet
    <2> QED
      BY <2>2, <2>3, <2>4, MatchingAre
  <1>2. ASSUME NEW d \in PublicResults!Matching(f), PublicResults!Place(d) < PublicResults!Place(c)
        PROVE  PublicResults!Rank(f, d) < PublicResults!Rank(f, c)
    <2>1. upTo(d) \in SUBSET upTo(c) /\ c \in upTo(c) /\ c \notin upTo(d)
      BY <1>2, MatchingAre, PlacesAre
    <2>2. /\ IsFiniteSet(upTo(c)) /\ Cardinality(upTo(c)) \in Int /\ Cardinality(upTo(d)) \in Int
      BY <1>1
    <2> HIDE DEF upTo
    <2>3. Cardinality(upTo(d)) <= Cardinality(upTo(c)) /\ Cardinality(upTo(c)) # Cardinality(upTo(d))
      BY <2>1, <2>2, FS_Subset
    <2> QED
      BY <1>1, <2>2, <2>3
  <1> QED
    BY <1>1, <1>2

\* Some announcements have a first and a last.
LEMMA SomeAreFirstAndLast ==
  ASSUME FeedIsOrdered, NEW S \in SUBSET PublicResults!Announced, S # {}
  PROVE  /\ \E c \in S : \A d \in S : PublicResults!Place(c) <= PublicResults!Place(d)
         /\ \E c \in S : \A d \in S : PublicResults!Place(d) <= PublicResults!Place(c)
  <1> DEFINE places == {PublicResults!Place(c) : c \in S}
  <1>1. places # {} /\ places \in SUBSET Nat /\ \A n \in places : n <= Len(feed)
    BY PlacesAre, AnnouncedAre
  <1> HIDE DEF places
  <1>2. IsFiniteSet(places)
    BY <1>1, AnnouncedAre, FS_BoundedSetOfNaturals
  <1>3. \E x \in places : \A y \in places : x <= y
    BY <1>1, LeastNumber
  <1>4. \E x \in places : \A y \in places : y <= x
    BY <1>1, <1>2, GreatestNumber
  <1> QED
    BY <1>3, <1>4 DEF places

\* There is a row at each number up to the last: the first of those past the numbers before.
LEMMA EveryRankIsHeld ==
  ASSUME FeedIsOrdered, NEW f, NEW k \in Nat, k < Cardinality(PublicResults!Matching(f))
  PROVE  \E c \in PublicResults!Matching(f) : PublicResults!Rank(f, c) = k + 1
  <1> DEFINE M == PublicResults!Matching(f)
             R(c) == PublicResults!Rank(f, c)
             P(c) == PublicResults!Place(c)
             past == {c \in M : k < R(c)}
             upTo(c) == {d \in M : P(d) <= P(c)}
  <1>1. /\ IsFiniteSet(M) /\ Cardinality(M) \in Nat
        /\ \A c \in M : P(c) \in Nat /\ P(c) \in DOMAIN feed
        /\ \A c, d \in M : P(c) = P(d) => c = d
        /\ \A c \in M : R(c) \in Nat /\ R(c) >= 1
    BY MatchingAre, PlacesAre, RanksAre
  <1>2. \A c, d \in M : P(d) < P(c) => R(d) < R(c)
    BY RanksAre
  <1>3. \A c \in M : R(c) = Cardinality(upTo(c))
    BY SetsAreCounted DEF PublicResults!Rank
  <1>0. M \in SUBSET PublicResults!Announced
    BY MatchingAre
  <1> HIDE DEF M, R, P
  <1>4. past # {}
    <2>1. M # {}
      BY <1>1, FS_EmptySet DEF M
    <2>2. \E c \in M : \A d \in M : P(d) <= P(c)
      BY <1>0, <2>1, SomeAreFirstAndLast DEF P
    <2>3. PICK c \in M : \A d \in M : P(d) <= P(c)
      BY <2>2
    <2>4. upTo(c) = M
      BY <2>3
    <2>5. R(c) = Cardinality(M)
      BY <1>3, <2>4
    <2> QED
      BY <1>1, <2>5 DEF M
  <1>5. PICK c \in past : \A d \in past : P(c) <= P(d)
    <2>1. past \in SUBSET PublicResults!Announced
      BY <1>0
    <2> HIDE DEF past
    <2> QED
      BY <1>4, <2>1, SomeAreFirstAndLast DEF P
  <1>6. R(c) <= k + 1
    <2> DEFINE earlier == {d \in M : P(d) < P(c)}
    <2>1. \A d \in earlier : R(d) <= k
      <3> SUFFICES ASSUME NEW d \in earlier, ~ (R(d) <= k) PROVE FALSE
        OBVIOUS
      <3>1. d \in past
        BY <1>1
      <3> QED
        BY <1>1, <1>5, <3>1
    <2>2. upTo(c) = earlier \cup {c} /\ c \notin earlier
      BY <1>1, <1>5
    <2>3. earlier \in SUBSET M
      OBVIOUS
    <2>4. IsFiniteSet(earlier) /\ Cardinality(earlier) \in Nat
      BY <1>1, <2>3, FS_Subset, FS_CardinalityType
    <2>5. R(c) = Cardinality(earlier) + 1
      <3>1. Cardinality(earlier \cup {c}) = Cardinality(earlier) + 1
        <4> HIDE DEF earlier
        <4> QED
          BY <2>2, <2>4, FS_AddElement
      <3> QED
        BY <1>3, <1>5, <2>2, <3>1
    <2>6. CASE earlier = {}
      BY <2>5, <2>6, FS_EmptySet
    <2>7. CASE earlier # {}
      <3>1. PICK e \in earlier : \A d \in earlier : P(d) <= P(e)
        <4>1. earlier \in SUBSET PublicResults!Announced
          BY <1>0
        <4> HIDE DEF earlier
        <4> QED
          BY <2>7, <4>1, SomeAreFirstAndLast DEF P
      <3>2. upTo(e) = earlier
        BY <1>1, <1>5, <3>1
      <3>3. R(e) = Cardinality(earlier)
        BY <1>3, <3>2
      <3> QED
        BY <1>1, <2>1, <2>5, <3>1, <3>3
    <2> QED
      BY <2>6, <2>7
  <1> QED
    BY <1>1, <1>5, <1>6 DEF M, R

\* A window is of as many rows as fit, and has some where the page exists.
LEMMA WindowsAre ==
  ASSUME FeedIsOrdered, NEW f, NEW p \in Nat \ {0}, PageExists(p, Cardinality(PublicResults!Matching(f)))
  PROVE  RowsAreTrue(PublicResults!Window(f, p), p, PublicResults!Announced) /\ PublicResults!Window(f, p) \subseteq Announcing
  <1> DEFINE rows == PublicResults!Window(f, p)
             M == PublicResults!Matching(f)
             R(c) == PublicResults!Rank(f, c)
             low == (p - 1) * ResultsPerPage
             high == p * ResultsPerPage
  <1>1. low \in Nat /\ high \in Nat /\ high = low + ResultsPerPage /\ ResultsPerPage \in Nat \ {0}
    <2>1. ResultsPerPage \in Nat \ {0}
      BY PageSizeIsCounted
    <2> QED
      BY <2>1
  <1>2. rows = {c \in M : low < R(c) /\ R(c) <= high}
    BY DEF PublicResults!Window
  <1>3. rows \in SUBSET M
    BY <1>2
  <1>4. \A c \in M : R(c) \in Nat
    BY RanksAre, MatchingAre
  <1>5. \A c, d \in M : R(c) = R(d) => c = d
    <2> SUFFICES ASSUME NEW c \in M, NEW d \in M, R(c) = R(d), c # d PROVE FALSE
      OBVIOUS
    <2>1. /\ c \in PublicResults!Announced /\ d \in PublicResults!Announced
          /\ PublicResults!Place(c) \in Nat /\ PublicResults!Place(d) \in Nat
          /\ PublicResults!Place(c) # PublicResults!Place(d)
      BY MatchingAre, PlacesAre
    <2>2. PublicResults!Place(c) < PublicResults!Place(d) \/ PublicResults!Place(d) < PublicResults!Place(c)
      BY <2>1
    <2>3. R(c) < R(d) \/ R(d) < R(c)
      BY <2>2, RanksAre
    <2> QED
      BY <1>4, <2>3
  <1>6. IsFiniteSet(M) /\ Cardinality(M) \in Nat /\ M \subseteq PublicResults!Announced
    BY MatchingAre
  <1>7. p > 1 => rows # {}
    <2> SUFFICES ASSUME p > 1 PROVE rows # {}
      OBVIOUS
    <2>1. low < Cardinality(M)
      BY DEF PageExists
    <2> HIDE DEF low
    <2>2. PICK c \in M : R(c) = low + 1
      BY <1>1, <2>1, EveryRankIsHeld
    <2> HIDE DEF M, R, rows, high
    <2> QED
      BY <1>1, <1>2, <2>2
  <1> HIDE DEF rows, M, R, low, high
  <1>8. IsFiniteSet(rows) /\ Cardinality(rows) <= ResultsPerPage
    <2> DEFINE order == [c \in rows |-> R(c)]
               numbers == low + 1 .. high
    <2>1. IsFiniteSet(numbers) /\ Cardinality(numbers) = ResultsPerPage
      <3>1. low + 1 \in Int /\ high \in Int /\ ~ (low + 1 > high) /\ high - (low + 1) + 1 = ResultsPerPage
        BY <1>1
      <3> QED
        BY <3>1, FS_Interval
    <2>2. order \in Injection(rows, numbers)
      <3>1. order \in [rows -> numbers]
        BY <1>1, <1>2, <1>4
      <3>2. \A c, d \in rows : order[c] = order[d] => c = d
        BY <1>3, <1>5
      <3> QED
        BY <3>1, <3>2 DEF Injection, IsInjective
    <2> HIDE DEF order, numbers
    <2> QED
      BY <2>1, <2>2, FS_Injection
  <1>9. rows \subseteq PublicResults!Announced /\ rows \subseteq Announcing
    BY <1>3, <1>6, AnnouncedAre
  <1> QED
    BY <1>7, <1>8, <1>9 DEF RowsAreTrue, rows

\* The last page by a total has something on it.
LEMMA PagesTold ==
  ASSUME NEW total \in Nat, NEW p \in 1 .. PublicResults!TotalPages(total), p \in Nat, p > 1
  PROVE  (p - 1) * ResultsPerPage < total
  <1> DEFINE n == total + ResultsPerPage - 1
             q == n \div ResultsPerPage
  <1>1. ResultsPerPage \in Nat \ {0}
    BY PageSizeIsCounted
  <1>2. total # 0 /\ p <= q
    BY DEF PublicResults!TotalPages
  <1>3. n \in Nat
    BY <1>1, <1>2
  <1>4. q \in Nat /\ q * ResultsPerPage <= n
    <2> HIDE DEF n
    <2> QED
      BY <1>1, <1>3
  <1> HIDE DEF q
  <1>5. p * ResultsPerPage <= q * ResultsPerPage
    BY <1>1, <1>2, <1>4
  <1>6. (p - 1) * ResultsPerPage = p * ResultsPerPage - ResultsPerPage
    BY <1>1
  <1>7. p * ResultsPerPage \in Nat /\ q * ResultsPerPage \in Nat
    BY <1>1, <1>4
  <1> QED
    BY <1>1, <1>4, <1>5, <1>6, <1>7

\* The newer announcements are the first of the feed.
LEMMA NewerAreFirst ==
  ASSUME FeedIsOrdered, NEW y \in Nat
  PROVE  LET newer == Cardinality({d \in PublicResults!Announced : YearHeld[d] > y}) IN
         /\ newer \in 0 .. Len(feed)
         /\ \A i \in DOMAIN feed : YearHeld[feed[i]] > y <=> i <= newer
  <1> DEFINE S == {d \in PublicResults!Announced : YearHeld[d] > y}
  <1>1. S \in SUBSET PublicResults!Announced
    OBVIOUS
  <1>2. \A i \in DOMAIN feed : feed[i] \in PublicResults!Announced /\ YearHeld[feed[i]] \in Nat
    BY AnnouncedAre, PageSizeIsCounted
  <1>3. CASE S = {}
    <2>1. Cardinality(S) = 0
      BY <1>3, FS_EmptySet
    <2>2. \A i \in DOMAIN feed : ~ (YearHeld[feed[i]] > y) /\ i >= 1
      BY <1>2, <1>3, AnnouncedAre
    <2> HIDE DEF S
    <2> QED
      BY <2>1, <2>2, AnnouncedAre DEF S
  <1>4. CASE S # {}
    <2>1. PICK c \in S : \A d \in S : PublicResults!Place(d) <= PublicResults!Place(c)
      BY <1>1, <1>4, SomeAreFirstAndLast
    <2> DEFINE k == PublicResults!Place(c)
    <2>2. k \in DOMAIN feed /\ k \in Nat /\ feed[k] = c /\ YearHeld[c] > y
      BY <2>1, PlacesAre
    <2>3. \A i \in DOMAIN feed : PublicResults!Place(feed[i]) = i
      BY <1>2, PlacesAre DEF FeedIsOrdered
    <2> HIDE DEF k
    <2>4. \A i \in DOMAIN feed : YearHeld[feed[i]] > y <=> i <= k
      <3> SUFFICES ASSUME NEW i \in DOMAIN feed PROVE YearHeld[feed[i]] > y <=> i <= k
        OBVIOUS
      <3>1. i \in Nat
        BY AnnouncedAre
      <3>2. ASSUME YearHeld[feed[i]] > y PROVE i <= k
        BY <1>2, <2>1, <2>3, <3>2 DEF k
      <3>3. ASSUME i < k PROVE YearHeld[feed[i]] > y
        <4>1. YearHeld[feed[i]] >= YearHeld[feed[k]]
          BY <2>2, <3>3 DEF FeedIsOrdered
        <4> QED
          BY <1>2, <2>2, <4>1
      <3> QED
        BY <2>2, <3>1, <3>2, <3>3
    <2>5. Cardinality(S) = k
      <3> DEFINE order == [i \in 1 .. k |-> feed[i]]
      <3>1. order \in Bijection(1 .. k, S)
        <4>1. 1 .. k \subseteq DOMAIN feed
          BY <2>2, AnnouncedAre
        <4>2. order \in [1 .. k -> S]
          BY <1>2, <2>4, <4>1
        <4>3. \A i, j \in 1 .. k : order[i] = order[j] => i = j
          BY <4>1 DEF FeedIsOrdered
        <4>4. \A d \in S : \E i \in 1 .. k : order[i] = d
          <5> SUFFICES ASSUME NEW d \in S PROVE \E i \in 1 .. k : order[i] = d
            OBVIOUS
          <5>1. PICK i \in DOMAIN feed : feed[i] = d
            BY AnnouncedAre
          <5>2. i \in 1 .. k
            BY <2>2, <2>4, <5>1, AnnouncedAre
          <5> QED
            BY <5>1, <5>2
        <4> HIDE DEF order, S
        <4> QED
          BY <4>2, <4>3, <4>4 DEF Bijection, Injection, Surjection, IsInjective
      <3>2. IsFiniteSet(1 .. k) /\ Cardinality(1 .. k) = k
        BY <2>2, AnnouncedAre, FS_Interval
      <3>3. ExistsBijection(1 .. k, S)
        BY <3>1 DEF ExistsBijection
      <3> HIDE DEF S
      <3> QED
        BY <3>2, <3>3, FS_Bijection
    <2> HIDE DEF S
    <2>6. k \in 0 .. Len(feed)
      BY <2>2, AnnouncedAre
    <2>7. Cardinality(S) \in 0 .. Len(feed) /\ \A i \in DOMAIN feed : YearHeld[feed[i]] > y <=> i <= Cardinality(S)
      BY <2>4, <2>5, <2>6
    <2> QED
      BY <2>7 DEF S
  <1> QED
    BY <1>3, <1>4

LEMMA InsertedAre ==
  ASSUME FeedIsOrdered, NEW e \in Announcing, NEW i \in 1 .. Len(feed) + 1
  PROVE  LET new == PublicResults!InsertAt(feed, i, e) IN
         /\ new \in Seq(Announcing) /\ Len(new) = Len(feed) + 1 /\ new[i] = e
         /\ \A j \in 1 .. i - 1 : new[j] = feed[j]
         /\ \A j \in i + 1 .. Len(feed) + 1 : new[j] = feed[j - 1]
  <1> DEFINE a == SubSeq(feed, 1, i - 1)
             ae == a \o <<e>>
             b == SubSeq(feed, i, Len(feed))
             new == ae \o b
  <1>00. feed \in Seq(Announcing)
    BY DEF FeedIsOrdered
  <1>0. Len(feed) \in Nat /\ i \in Nat
    BY <1>00
  <1>1. a \in Seq(Announcing) /\ Len(a) = i - 1
    BY <1>00
  <1>2. \A j \in 1 .. i - 1 : a[j] = feed[j]
    BY <1>00
  <1>3. b \in Seq(Announcing)
    BY <1>00
  <1>4. Len(b) = Len(feed) - i + 1
    BY <1>00
  <1>5. \A j \in 1 .. Len(feed) - i + 1 : b[j] = feed[i + j - 1]
    BY <1>00
  <1> HIDE DEF a, b
  <1>6. ae \in Seq(Announcing) /\ Len(ae) = i
    BY <1>0, <1>1
  <1>7. ae[i] = e
    BY <1>0, <1>1
  <1>8. \A j \in 1 .. i - 1 : ae[j] = feed[j]
    BY <1>0, <1>1, <1>2
  <1> HIDE DEF ae
  <1>9. new \in Seq(Announcing) /\ Len(new) = Len(feed) + 1
    BY <1>0, <1>3, <1>4, <1>6
  <1>10. \A j \in 1 .. i : new[j] = ae[j]
    BY <1>0, <1>3, <1>6
  <1>11. \A j \in i + 1 .. Len(feed) + 1 : new[j] = b[j - i]
    BY <1>0, <1>3, <1>4, <1>6
  <1> HIDE DEF new
  <1>12. \A j \in i + 1 .. Len(feed) + 1 : new[j] = feed[j - 1]
    <2> SUFFICES ASSUME NEW j \in i + 1 .. Len(feed) + 1 PROVE new[j] = feed[j - 1]
      OBVIOUS
    <2>1. j - i \in 1 .. Len(feed) - i + 1 /\ i + (j - i) - 1 = j - 1
      BY <1>0
    <2> QED
      BY <1>5, <1>11, <2>1
  <1>13. PublicResults!InsertAt(feed, i, e) = new
    BY DEF PublicResults!InsertAt, new, ae, a, b
  <1>14. new[i] = e /\ \A j \in 1 .. i - 1 : new[j] = feed[j]
    BY <1>0, <1>7, <1>8, <1>10
  <1> QED
    BY <1>9, <1>12, <1>13, <1>14

\* What is listed after a step is finite, too.
LEMMA MatchingStaysFinite ==
  FeedIsOrdered' => \A f : IsFiniteSet(PublicResults!Matching(f)') /\ Cardinality(PublicResults!Matching(f)') \in Nat
  <1>1. FeedIsOrdered => \A f : IsFiniteSet(PublicResults!Matching(f)) /\ Cardinality(PublicResults!Matching(f)) \in Nat
    BY MatchingAre
  <1>2. (FeedIsOrdered => \A f : IsFiniteSet(PublicResults!Matching(f)) /\ Cardinality(PublicResults!Matching(f)) \in Nat)'
    BY <1>1, PTL
  <1> QED
    BY <1>2

\* What the list of announcements becomes.
LEMMA FeedGrows ==
  ASSUME FeedIsOrdered, NEW c \in Announcing, PublicResults!Publish(c)
  PROVE  /\ FeedIsOrdered'
         /\ PublicResults!Announced \subseteq PublicResults!Announced'
         /\ \A f : Cardinality(PublicResults!Matching(f)) <= Cardinality(PublicResults!Matching(f)')
  <1> DEFINE n == Cardinality({d \in PublicResults!Announced : YearHeld[d] > YearHeld[c]})
             new == PublicResults!InsertAt(feed, n + 1, c)
  <1>1. feed' = new /\ c \notin PublicResults!Announced
    BY SetsAreCounted DEF PublicResults!Publish
  <1>2. n \in 0 .. Len(feed) /\ \A i \in DOMAIN feed : YearHeld[feed[i]] > YearHeld[c] <=> i <= n
    BY NewerAreFirst, PageSizeIsCounted
  <1>3. feed \in Seq(Announcing) /\ Len(feed) \in Nat /\ DOMAIN feed = 1 .. Len(feed)
    BY AnnouncedAre DEF FeedIsOrdered
  <1> HIDE DEF n
  <1>4. /\ new \in Seq(Announcing) /\ Len(new) = Len(feed) + 1 /\ new[n + 1] = c
        /\ \A j \in 1 .. n : new[j] = feed[j]
        /\ \A j \in n + 2 .. Len(feed) + 1 : new[j] = feed[j - 1]
    <2> DEFINE k == n + 1
    <2>1. k \in 1 .. Len(feed) + 1 /\ k - 1 = n /\ k + 1 = n + 2
      BY <1>2, <1>3
    <2>2. new = PublicResults!InsertAt(feed, k, c)
      OBVIOUS
    <2> HIDE DEF k, new
    <2>3. LET w == PublicResults!InsertAt(feed, k, c) IN
          /\ w \in Seq(Announcing) /\ Len(w) = Len(feed) + 1 /\ w[k] = c
          /\ \A j \in 1 .. k - 1 : w[j] = feed[j]
          /\ \A j \in k + 1 .. Len(feed) + 1 : w[j] = feed[j - 1]
      BY <2>1, InsertedAre
    <2>4. /\ new \in Seq(Announcing) /\ Len(new) = Len(feed) + 1 /\ new[k] = c
          /\ \A j \in 1 .. k - 1 : new[j] = feed[j]
          /\ \A j \in k + 1 .. Len(feed) + 1 : new[j] = feed[j - 1]
      BY <2>2, <2>3
    <2> QED
      BY <2>1, <2>4 DEF k
  <1> HIDE DEF new
  <1>5. DOMAIN new = 1 .. Len(feed) + 1
    BY <1>3, <1>4
  \* Where each row of the new feed comes from.
  <1>6. ASSUME NEW i \in DOMAIN new
        PROVE  \/ i = n + 1 /\ new[i] = c
               \/ i <= n /\ i \in DOMAIN feed /\ new[i] = feed[i]
               \/ i > n + 1 /\ i - 1 \in DOMAIN feed /\ new[i] = feed[i - 1]
    BY <1>2, <1>3, <1>4, <1>5
  <1>7. \A i \in DOMAIN feed : feed[i] # c /\ YearHeld[feed[i]] \in Nat
    BY <1>1, AnnouncedAre, PageSizeIsCounted
  <1>8. \A i \in DOMAIN new, j \in DOMAIN new : new[i] = new[j] => i = j
    <2> SUFFICES ASSUME NEW i \in DOMAIN new, NEW j \in DOMAIN new, new[i] = new[j] PROVE i = j
      OBVIOUS
    <2>1. \A k \in DOMAIN feed, m \in DOMAIN feed : feed[k] = feed[m] => k = m
      BY DEF FeedIsOrdered
    <2> QED
      BY <1>2, <1>3, <1>5, <1>6, <1>7, <2>1
  <1>9. \A i \in DOMAIN new, j \in DOMAIN new : i < j => YearHeld[new[i]] >= YearHeld[new[j]]
    <2> SUFFICES ASSUME NEW i \in DOMAIN new, NEW j \in DOMAIN new, i < j
                 PROVE  YearHeld[new[i]] >= YearHeld[new[j]]
      OBVIOUS
    <2>1. \A k \in DOMAIN feed, m \in DOMAIN feed : k < m => YearHeld[feed[k]] >= YearHeld[feed[m]]
      BY DEF FeedIsOrdered
    <2>2. YearHeld[c] \in Nat
      BY PageSizeIsCounted
    <2>3. i \in Nat /\ j \in Nat /\ n \in Nat
      BY <1>2, <1>3, <1>5
    <2> QED
      BY <1>2, <1>3, <1>6, <1>7, <2>1, <2>2, <2>3
  <1>10. FeedIsOrdered'
    BY <1>1, <1>4, <1>8, <1>9 DEF FeedIsOrdered
  <1>11. \A d : d \in PublicResults!Announced' <=> \E i \in DOMAIN feed' : feed'[i] = d
    BY DEF PublicResults!Announced, PublicResults!ToSet
  <1>12. ASSUME NEW d \in PublicResults!Announced PROVE d \in PublicResults!Announced'
    <2>1. PICK i \in DOMAIN feed : feed[i] = d
      BY AnnouncedAre
    <2>2. \E j \in DOMAIN new : new[j] = d
      <3>1. CASE i <= n
        <4>1. i \in 1 .. n /\ i \in DOMAIN new
          BY <1>2, <1>3, <1>5, <2>1, <3>1
        <4> QED
          BY <1>4, <2>1, <4>1
      <3>2. CASE i > n
        <4>1. i + 1 \in n + 2 .. Len(feed) + 1 /\ i + 1 - 1 = i /\ i + 1 \in DOMAIN new
          BY <1>2, <1>3, <1>5, <3>2
        <4> QED
          BY <1>4, <2>1, <4>1
      <3> QED
        BY <1>2, <1>3, <3>1, <3>2
    <2> QED
      BY <1>1, <1>11, <2>2
  <1>13. ASSUME NEW f
         PROVE  Cardinality(PublicResults!Matching(f)) <= Cardinality(PublicResults!Matching(f)')
    <2>1. PublicResults!Matching(f) \in SUBSET PublicResults!Matching(f)'
      BY <1>12 DEF PublicResults!Matching
    <2>2. IsFiniteSet(PublicResults!Matching(f)')
      BY <1>10, MatchingStaysFinite
    <2> QED
      BY <2>1, <2>2, FS_Subset
  <1> QED
    BY <1>10, <1>12, <1>13

LEMMA ListedAre ==
  ASSUME FeedIsOrdered
  PROVE  \A f \in PublicResults!Filters :
           Listed[f] = Cardinality(PublicResults!Matching(f)) /\ Listed[f] \in Nat
  BY MatchingAre DEF Listed

\* A step that announces nothing lists what was listed.
LEMMA FeedStays ==
  ASSUME UNCHANGED feed
  PROVE  PublicResults!Announced' = PublicResults!Announced /\ Listed' = Listed
  <1>1. PublicResults!Announced' = PublicResults!Announced
    BY DEF PublicResults!Announced
  <1>2. \A f : PublicResults!Matching(f)' = PublicResults!Matching(f)
    BY <1>1 DEF PublicResults!Matching
  <1> QED
    BY <1>1, <1>2 DEF Listed

LEMMA AnnouncedStay == (FeedIsOrdered => PublicResults!Announced \subseteq Announcing)'
  <1>1. FeedIsOrdered => PublicResults!Announced \subseteq Announcing
    BY AnnouncedAre
  <1> QED
    BY <1>1, PTL

\* What a listing says stays true while more is announced.
LEMMA PagesStayTrue ==
  ASSUME NEW published, NEW more \in SUBSET Announcing, published \subseteq more,
         NEW n \in Nat, NEW m \in Nat, n <= m
  PROVE  /\ \A l : l.page \in PublicResults!Pages /\ l.total \in Nat /\ PageIsTrue(l, published, n) => PageIsTrue(l, more, m)
         /\ \A held, p : held.total \in Nat /\ CopyIsTrue(held, p, published, n) => CopyIsTrue(held, p, more, m)
  <1>1. \A l, p : l.total \in Nat /\ l.total <= n => l.total <= m
    OBVIOUS
  <1>2. \A rows, p : RowsAreTrue(rows, p, published) => RowsAreTrue(rows, p, more)
    BY DEF RowsAreTrue
  <1>3. \A p \in PublicResults!Pages : PageExists(p, n) => PageExists(p, m)
    <2> SUFFICES ASSUME NEW p \in PublicResults!Pages, p > 1, (p - 1) * ResultsPerPage < n
                 PROVE  (p - 1) * ResultsPerPage < m
      BY DEF PageExists
    <2> DEFINE k == (p - 1) * ResultsPerPage
    <2>1. k \in Int
      <3>1. p \in Int /\ ResultsPerPage \in Int
        BY PageSizeIsCounted DEF PublicResults!Pages
      <3> QED
        BY <3>1
    <2> HIDE DEF k
    <2>2. k < n
      BY DEF k
    <2>3. k < m
      BY <2>1, <2>2
    <2> QED
      BY <2>3 DEF k
  <1>4. \A l : l.page \in PublicResults!Pages /\ l.total \in Nat /\ PageIsTrue(l, published, n) => PageIsTrue(l, more, m)
    BY <1>1, <1>2, <1>3 DEF PageIsTrue
  <1>5. \A held, p : held.total \in Nat /\ CopyIsTrue(held, p, published, n) => CopyIsTrue(held, p, more, m)
    BY <1>1, <1>2 DEF CopyIsTrue
  <1> QED
    BY <1>4, <1>5

LEMMA OnePageAtLeast == PublicResults!Pages \subseteq Nat \ {0} /\ 1 \in PublicResults!Pages /\ Nothing \in PublicResults!Filters
  <1>1. IsFiniteSet(Announcing) /\ Announcing # {}
    BY PagesAssumption DEF PublicResults!ResultsAssumption, PublicResults!IsFiniteSet, IsFiniteSet
  <1>2. Cardinality(Announcing) \in Nat /\ Cardinality(Announcing) # 0
    BY <1>1, FS_CardinalityType, FS_EmptySet
  <1>3. PublicResults!Pages = 1 .. Cardinality(Announcing)
    BY SetsAreCounted DEF PublicResults!Pages
  <1>4. Nothing \in PublicResults!Filters
    BY DEF PublicResults!Filters
  <1> QED
    BY <1>2, <1>3, <1>4

LEMMA ResultsStart ==
  ASSUME PublicResults!Init
  PROVE  ResultsIInv
  <1>1. FeedIsOrdered
    BY DEF PublicResults!Init, FeedIsOrdered
  <1>2. /\ outcome = [c \in Announcing |-> [withdrawn |-> FALSE, reserve |-> "WAITING"]]
        /\ listCopy = [f \in PublicResults!Filters |-> [p \in PublicResults!Pages |-> Nothing]]
        /\ copy = [c \in Announcing |-> Nothing]
        /\ list = [r \in Followers |-> PublicResults!NoList]
        /\ result = [v \in Visitors |-> PublicResults!NoResult]
    BY DEF PublicResults!Init
  <1>3. /\ outcome \in [Announcing -> Outcomes]
        /\ copy \in [Announcing -> {Nothing} \cup [state : {"found"}, body : Outcomes]]
    BY <1>2 DEF Outcomes
  <1>4. listCopy \in [PublicResults!Filters -> [PublicResults!Pages ->
           {Nothing} \cup [rows : SUBSET Announcing, total : Nat]]]
    BY <1>2
  <1>5. /\ list \in [Followers -> [filter : PublicResults!Filters, page : PublicResults!Pages,
                             state : {"loading", "rows", "count", "shown"},
                             rows : SUBSET Announcing, total : Nat, before : SUBSET Announcing]]
    BY <1>2, OnePageAtLeast DEF PublicResults!NoList
  <1>6. /\ result \in [Visitors -> [at : Announcing \cup {Nothing},
                              state : {"closed", "loading", "found", "absent"},
                              body : Outcomes \cup {Nothing}]]
    BY <1>2 DEF PublicResults!NoResult
  <1>7. ListsAreTrue
    BY <1>2 DEF ListsAreTrue, PageIsTrue, PageExists, PublicResults!NoList
  <1>8. CopiesAreTrue
    BY <1>2 DEF CopiesAreTrue, CopyIsTrue
  <1>9. ResultsAreAnnounced
    BY <1>2 DEF ResultsAreAnnounced, PublicResults!NoResult
  <1>10. ResultTables
    BY <1>3, <1>4, <1>5, <1>6 DEF ResultTables
  <1> QED
    BY <1>1, <1>7, <1>8, <1>9, <1>10 DEF ResultsIInv

\* A step that only changes what is announced.
LEMMA PublishingIsListed ==
  ASSUME ResultsIInv, NEW c \in Announcing, PublicResults!Publish(c)
  PROVE  ResultsIInv'
  <1>1. FeedIsOrdered /\ ResultTables /\ UNCHANGED <<outcome, listCopy, copy, list, result>>
    BY DEF ResultsIInv, PublicResults!Publish
  <1>2. /\ FeedIsOrdered' /\ PublicResults!Announced \subseteq PublicResults!Announced'
        /\ \A f : Cardinality(PublicResults!Matching(f)) <= Cardinality(PublicResults!Matching(f)')
    BY <1>1, FeedGrows
  <1>3. \A f \in PublicResults!Filters : Listed[f] \in Nat /\ Listed'[f] \in Nat /\ Listed[f] <= Listed'[f]
    <2>1. \A f \in PublicResults!Filters : Listed'[f] = Cardinality(PublicResults!Matching(f)') /\ Listed'[f] \in Nat
      BY <1>2, MatchingStaysFinite DEF Listed
    <2> QED
      BY <1>1, <1>2, <2>1, ListedAre
  <1>4. PublicResults!Announced' \in SUBSET Announcing
    <2>2. (FeedIsOrdered => PublicResults!Announced \subseteq Announcing)'
      BY AnnouncedStay
    <2> QED
      BY <1>2, <2>2
  <1> DEFINE A == PublicResults!Announced
             B == PublicResults!Announced'
  <1>5. \A f \in PublicResults!Filters :
          /\ \A l : l.page \in PublicResults!Pages /\ l.total \in Nat /\ PageIsTrue(l, A, Listed[f]) => PageIsTrue(l, B, Listed'[f])
          /\ \A held, p : held.total \in Nat /\ CopyIsTrue(held, p, A, Listed[f]) => CopyIsTrue(held, p, B, Listed'[f])
    <2> HIDE DEF A, B
    <2> SUFFICES ASSUME NEW f \in PublicResults!Filters
                 PROVE  /\ \A l : l.page \in PublicResults!Pages /\ l.total \in Nat /\ PageIsTrue(l, A, Listed[f]) => PageIsTrue(l, B, Listed'[f])
                        /\ \A held, p : held.total \in Nat /\ CopyIsTrue(held, p, A, Listed[f]) => CopyIsTrue(held, p, B, Listed'[f])
      OBVIOUS
    <2> DEFINE n == Listed[f]
               m == Listed'[f]
    <2>1. n \in Nat /\ m \in Nat /\ n <= m
      BY <1>3
    <2>2. A \subseteq B /\ B \in SUBSET Announcing
      BY <1>2, <1>4 DEF A, B
    <2> HIDE DEF n, m
    <2>3. /\ \A l : l.page \in PublicResults!Pages /\ l.total \in Nat /\ PageIsTrue(l, A, n) => PageIsTrue(l, B, m)
          /\ \A held, p : held.total \in Nat /\ CopyIsTrue(held, p, A, n) => CopyIsTrue(held, p, B, m)
      BY <2>1, <2>2, PagesStayTrue
    <2> QED
      BY <2>3 DEF n, m
  <1>6. ListsAreTrue'
    <2>1. \A r \in Followers : /\ list[r].filter \in PublicResults!Filters /\ list[r].page \in PublicResults!Pages
                               /\ list[r].total \in Nat /\ list'[r] = list[r]
      BY <1>1 DEF ResultTables
    <2>2. \A r \in Followers : PageIsTrue(list[r], A, Listed[list[r].filter])
      BY DEF ResultsIInv, ListsAreTrue
    <2> HIDE DEF A, B
    <2>3. \A r \in Followers : PageIsTrue(list'[r], B, Listed'[list'[r].filter])
      BY <1>5, <2>1, <2>2
    <2> QED
      BY <2>3 DEF B, ListsAreTrue
  <1>7. CopiesAreTrue'
    <2>1. \A f \in PublicResults!Filters, p \in PublicResults!Pages :
            /\ listCopy[f][p] # Nothing => listCopy[f][p].total \in Nat
            /\ listCopy'[f][p] = listCopy[f][p]
      BY <1>1 DEF ResultTables
    <2>2. \A f \in PublicResults!Filters, p \in PublicResults!Pages : CopyIsTrue(listCopy[f][p], p, A, Listed[f])
      BY DEF ResultsIInv, CopiesAreTrue
    <2>3. \A p, n, published : CopyIsTrue(Nothing, p, published, n)
      BY DEF CopyIsTrue
    <2> HIDE DEF A, B
    <2>4. \A f \in PublicResults!Filters, p \in PublicResults!Pages : CopyIsTrue(listCopy'[f][p], p, B, Listed'[f])
      <3> SUFFICES ASSUME NEW f \in PublicResults!Filters, NEW p \in PublicResults!Pages
                   PROVE  CopyIsTrue(listCopy[f][p], p, B, Listed'[f])
        BY <2>1
      <3>1. CASE listCopy[f][p] = Nothing
        BY <2>3, <3>1
      <3>2. CASE listCopy[f][p] # Nothing
        BY <1>5, <2>1, <2>2, <3>2
      <3> QED
        BY <3>1, <3>2
    <2> QED
      BY <2>4 DEF B, CopiesAreTrue
  <1>8. ResultsAreAnnounced'
    BY <1>1, <1>2 DEF ResultsIInv, ResultsAreAnnounced
  <1>9. ResultTables'
    BY <1>1 DEF ResultTables
  <1> QED
    BY <1>2, <1>6, <1>7, <1>8, <1>9 DEF ResultsIInv

PagesHeld == [filter : PublicResults!Filters, page : PublicResults!Pages,
              state : {"loading", "rows", "count", "shown"},
              rows : SUBSET Announcing, total : Nat, before : SUBSET Announcing]

\* A reader's page becomes one that is true.
LEMMA AReaderGoesOn ==
  ASSUME ResultsIInv, UNCHANGED <<feed, outcome, copy, result>>, NEW r \in Followers,
         NEW l \in PagesHeld, PublicResults!Hold(r, l),
         PageIsTrue(l, PublicResults!Announced, Listed[l.filter]),
         CopiesAreTrue',
         listCopy' \in [PublicResults!Filters -> [PublicResults!Pages ->
           {Nothing} \cup [rows : SUBSET Announcing, total : Nat]]]
  PROVE  ResultsIInv'
  <1>1. FeedIsOrdered' /\ ResultsAreAnnounced'
    <2>1. PublicResults!Announced' = PublicResults!Announced
      BY FeedStays
    <2> QED
      BY <2>1 DEF ResultsIInv, ResultsAreAnnounced, FeedIsOrdered
  <1>2. list \in [Followers -> PagesHeld] /\ list' = [list EXCEPT ![r] = l]
    BY DEF ResultsIInv, ResultTables, PagesHeld, PublicResults!Hold
  <1> HIDE DEF PagesHeld
  <1>3. list' \in [Followers -> PagesHeld] /\ list'[r] = l /\ \A q \in Followers : q # r => list'[q] = list[q]
    BY <1>2
  <1>4. ListsAreTrue'
    <2>1. \A q \in Followers : PageIsTrue(list[q], PublicResults!Announced, Listed[list[q].filter])
      BY DEF ResultsIInv, ListsAreTrue
    <2>2. \A q \in Followers : PageIsTrue(list'[q], PublicResults!Announced, Listed[list'[q].filter])
      BY <1>3, <2>1
    <2>3. PublicResults!Announced' = PublicResults!Announced /\ Listed' = Listed
      BY FeedStays
    <2>4. \A q \in Followers : PageIsTrue(list'[q], PublicResults!Announced', Listed'[list'[q].filter])
      BY <2>2, <2>3
    <2> QED
      BY <2>4 DEF ListsAreTrue
  <1>5. ResultTables'
    BY <1>3 DEF ResultsIInv, ResultTables, PagesHeld
  <1> QED
    BY <1>1, <1>4, <1>5 DEF ResultsIInv

\* A step that touches neither the listing nor what is said of it.
LEMMA TheListingStays ==
  ASSUME ResultsIInv, UNCHANGED <<feed, listCopy, list>>
  PROVE  FeedIsOrdered' /\ ListsAreTrue' /\ CopiesAreTrue'
  <1>1. PublicResults!Announced' = PublicResults!Announced /\ Listed' = Listed
    BY FeedStays
  <1> QED
    BY <1>1 DEF ResultsIInv, FeedIsOrdered, ListsAreTrue, CopiesAreTrue

\* A step that leaves the copies of the listing alone.
LEMMA TheCopiesStay ==
  ASSUME ResultsIInv, UNCHANGED <<feed, listCopy>>
  PROVE  /\ CopiesAreTrue'
         /\ listCopy' \in [PublicResults!Filters -> [PublicResults!Pages ->
              {Nothing} \cup [rows : SUBSET Announcing, total : Nat]]]
  <1>1. PublicResults!Announced' = PublicResults!Announced /\ Listed' = Listed
    BY FeedStays
  <1> QED
    BY <1>1 DEF ResultsIInv, CopiesAreTrue, ResultTables

LEMMA AmendingIsListed ==
  ASSUME ResultsIInv, NEW c \in Announcing, PublicResults!Amend(c)
  PROVE  ResultsIInv'
  <1>1. UNCHANGED <<feed, listCopy, copy, list, result>>
    BY DEF PublicResults!Amend
  <1>2. outcome \in [Announcing -> Outcomes] /\ \A d \in Announcing : outcome[d].reserve # "WAITING" => outcome[d].withdrawn
    BY DEF ResultsIInv, ResultTables, ResultsAreAnnounced
  <1>3. /\ outcome' \in [Announcing -> Outcomes]
        /\ \A d \in Announcing : outcome'[d].reserve # "WAITING" => outcome'[d].withdrawn
    <2>1. CASE ~ outcome[c].withdrawn /\ outcome' = [outcome EXCEPT ![c].withdrawn = TRUE]
      BY <1>2, <2>1 DEF Outcomes
    <2>2. CASE \E s \in {"CALLED", "PROMOTED", "DECLINED"} : outcome[c].withdrawn /\ outcome' = [outcome EXCEPT ![c].reserve = s]
      BY <1>2, <2>2 DEF Outcomes
    <2>3. outcome[c].reserve = "CALLED" => outcome[c].withdrawn
      BY <1>2
    <2> QED
      BY <2>1, <2>2, <2>3 DEF PublicResults!Amend
  <1>4. PublicResults!Announced' = PublicResults!Announced
    BY <1>1, FeedStays
  <1>5. ResultTables' /\ ResultsAreAnnounced'
    BY <1>1, <1>3, <1>4 DEF ResultsIInv, ResultTables, ResultsAreAnnounced
  <1> QED
    BY <1>1, <1>5, TheListingStays DEF ResultsIInv

LEMMA ExpiringIsListed ==
  ASSUME ResultsIInv
  PROVE  /\ \A c \in Announcing : PublicResults!Expire(c) => ResultsIInv'
         /\ \A f \in PublicResults!Filters, p \in PublicResults!Pages : PublicResults!ExpireList(f, p) => ResultsIInv'
  <1>1. ASSUME NEW c \in Announcing, PublicResults!Expire(c) PROVE ResultsIInv'
    <2>1. UNCHANGED <<feed, outcome, listCopy, list, result>> /\ copy' = [copy EXCEPT ![c] = Nothing]
      BY <1>1 DEF PublicResults!Expire
    <2>2. PublicResults!Announced' = PublicResults!Announced
      BY <2>1, FeedStays
    <2>3. ResultTables'
      BY <2>1 DEF ResultsIInv, ResultTables
    <2>4. ResultsAreAnnounced'
      BY <2>1, <2>2 DEF ResultsIInv, ResultTables, ResultsAreAnnounced
    <2> QED
      BY <2>1, <2>3, <2>4, TheListingStays DEF ResultsIInv
  <1>2. ASSUME NEW f \in PublicResults!Filters, NEW p \in PublicResults!Pages, PublicResults!ExpireList(f, p)
        PROVE  ResultsIInv'
    <2>1. UNCHANGED <<feed, outcome, copy, list, result>> /\ listCopy' = [listCopy EXCEPT ![f][p] = Nothing]
      BY <1>2 DEF PublicResults!ExpireList
    <2>2. PublicResults!Announced' = PublicResults!Announced /\ Listed' = Listed
      BY <2>1, FeedStays
    <2>3. ResultTables'
      BY <2>1 DEF ResultsIInv, ResultTables
    <2>4. \A g \in PublicResults!Filters, q \in PublicResults!Pages :
            listCopy'[g][q] = Nothing \/ listCopy'[g][q] = listCopy[g][q]
      BY <2>1 DEF ResultsIInv, ResultTables
    <2>5. CopiesAreTrue'
      <3>1. \A q, n, published : CopyIsTrue(Nothing, q, published, n)
        BY DEF CopyIsTrue
      <3>2. \A g \in PublicResults!Filters, q \in PublicResults!Pages : CopyIsTrue(listCopy'[g][q], q, PublicResults!Announced, Listed[g])
        BY <2>4, <3>1 DEF ResultsIInv, CopiesAreTrue
      <3>3. \A g \in PublicResults!Filters, q \in PublicResults!Pages : CopyIsTrue(listCopy'[g][q], q, PublicResults!Announced', Listed'[g])
        BY <2>2, <3>2
      <3> QED
        BY <3>3 DEF CopiesAreTrue
    <2>6. FeedIsOrdered' /\ ListsAreTrue' /\ ResultsAreAnnounced'
      BY <2>1, <2>2 DEF ResultsIInv, FeedIsOrdered, ListsAreTrue, ResultsAreAnnounced
    <2> QED
      BY <2>3, <2>5, <2>6 DEF ResultsIInv
  <1> QED
    BY <1>1, <1>2

LEMMA PagesHeldAre ==
  ASSUME ResultsIInv, NEW r \in Followers
  PROVE  /\ list[r] \in PagesHeld /\ PageIsTrue(list[r], PublicResults!Announced, Listed[list[r].filter])
         /\ Listed[list[r].filter] = Cardinality(PublicResults!Matching(list[r].filter))
         /\ Listed[list[r].filter] \in Nat
         /\ CopyIsTrue(listCopy[list[r].filter][list[r].page], list[r].page,
                       PublicResults!Announced, Listed[list[r].filter])
         /\ listCopy[list[r].filter][list[r].page] \in {Nothing} \cup [rows : SUBSET Announcing, total : Nat]
  <1>1. list[r] \in PagesHeld /\ list[r].filter \in PublicResults!Filters /\ list[r].page \in PublicResults!Pages
    BY DEF ResultsIInv, ResultTables, PagesHeld
  <1>2. PageIsTrue(list[r], PublicResults!Announced, Listed[list[r].filter])
    BY DEF ResultsIInv, ListsAreTrue
  <1>3. /\ Listed[list[r].filter] = Cardinality(PublicResults!Matching(list[r].filter))
        /\ Listed[list[r].filter] \in Nat
    BY <1>1, ListedAre DEF ResultsIInv
  <1>4. CopyIsTrue(listCopy[list[r].filter][list[r].page], list[r].page,
                   PublicResults!Announced, Listed[list[r].filter])
    BY <1>1 DEF ResultsIInv, CopiesAreTrue
  <1>5. listCopy[list[r].filter][list[r].page] \in {Nothing} \cup [rows : SUBSET Announcing, total : Nat]
    BY <1>1 DEF ResultsIInv, ResultTables
  <1> QED
    BY <1>1, <1>2, <1>3, <1>4, <1>5

\* What the two queries answer of a reader's page.
LEMMA QueriesTell ==
  ASSUME ResultsIInv, NEW r \in Followers
  PROVE  LET rows == PublicResults!Window(list[r].filter, list[r].page) IN
         /\ RowsAreTrue(rows, list[r].page, PublicResults!Announced) /\ rows \subseteq Announcing
         /\ Cardinality(PublicResults!Matching(list[r].filter)) = Listed[list[r].filter]
  <1>1. list[r].page \in Nat \ {0}
    BY PagesHeldAre, OnePageAtLeast DEF PagesHeld
  <1>2. PageExists(list[r].page, Cardinality(PublicResults!Matching(list[r].filter)))
    BY PagesHeldAre DEF PageIsTrue
  <1> QED
    BY <1>1, <1>2, PagesHeldAre, WindowsAre DEF ResultsIInv

\* A page with an answer put on it, and with one of its two halves.
WithRows(l, rows) == [l EXCEPT !.state = "rows", !.rows = rows]
WithTotal(l, total) == [l EXCEPT !.state = "count", !.total = total]
TurnedTo(f, p, kept) == [PublicResults!NoList EXCEPT !.filter = f, !.page = p, !.before = kept]

LEMMA AnswersFit ==
  ASSUME NEW l \in PagesHeld, NEW rows \in SUBSET Announcing, NEW total \in Nat, NEW n \in Nat, NEW published,
         PageIsTrue(l, published, n), RowsAreTrue(rows, l.page, published), total <= n
  PROVE  /\ PublicResults!Shown(l, rows, total) \in PagesHeld
         /\ PublicResults!Shown(l, rows, total).filter = l.filter
         /\ PageIsTrue(PublicResults!Shown(l, rows, total), published, n)
  <1>1. /\ PublicResults!Shown(l, rows, total) \in PagesHeld
        /\ PublicResults!Shown(l, rows, total).filter = l.filter
        /\ PublicResults!Shown(l, rows, total).page = l.page
        /\ PublicResults!Shown(l, rows, total).rows = rows
        /\ PublicResults!Shown(l, rows, total).total = total
    BY DEF PublicResults!Shown, PagesHeld
  <1>2. PageExists(l.page, n)
    BY DEF PageIsTrue
  <1> QED
    BY <1>1, <1>2 DEF PageIsTrue

LEMMA RowsFit ==
  ASSUME NEW l \in PagesHeld, NEW rows \in SUBSET Announcing, NEW n \in Nat, NEW published,
         PageIsTrue(l, published, n), RowsAreTrue(rows, l.page, published)
  PROVE  /\ WithRows(l, rows) \in PagesHeld /\ WithRows(l, rows).filter = l.filter
         /\ PageIsTrue(WithRows(l, rows), published, n)
  <1>1. /\ WithRows(l, rows) \in PagesHeld /\ WithRows(l, rows).filter = l.filter
        /\ WithRows(l, rows).page = l.page /\ WithRows(l, rows).rows = rows /\ WithRows(l, rows).state = "rows"
    BY DEF PagesHeld, WithRows
  <1>2. PageExists(l.page, n)
    BY DEF PageIsTrue
  <1> QED
    BY <1>1, <1>2 DEF PageIsTrue

LEMMA TotalsFit ==
  ASSUME NEW l \in PagesHeld, NEW total \in Nat, NEW n \in Nat, NEW published,
         PageIsTrue(l, published, n), total <= n
  PROVE  /\ WithTotal(l, total) \in PagesHeld /\ WithTotal(l, total).filter = l.filter
         /\ PageIsTrue(WithTotal(l, total), published, n)
  <1>1. /\ WithTotal(l, total) \in PagesHeld /\ WithTotal(l, total).filter = l.filter
        /\ WithTotal(l, total).page = l.page /\ WithTotal(l, total).rows = l.rows
        /\ WithTotal(l, total).total = total /\ WithTotal(l, total).state = "count"
    BY DEF PagesHeld, WithTotal
  <1>2. PageExists(l.page, n) /\ (l.rows # {} => RowsAreTrue(l.rows, l.page, published))
    BY DEF PageIsTrue
  <1> QED
    BY <1>1, <1>2 DEF PageIsTrue

LEMMA TurnsFit ==
  ASSUME NEW f \in PublicResults!Filters, NEW p \in PublicResults!Pages, NEW kept \in SUBSET Announcing,
         NEW n, NEW published, PageExists(p, n)
  PROVE  /\ TurnedTo(f, p, kept) \in PagesHeld /\ TurnedTo(f, p, kept).filter = f
         /\ PageIsTrue(TurnedTo(f, p, kept), published, n)
  <1>1. PublicResults!NoList \in PagesHeld /\ PublicResults!NoList.state = "loading" /\ PublicResults!NoList.rows = {}
    BY OnePageAtLeast DEF PublicResults!NoList, PagesHeld
  <1>2. /\ TurnedTo(f, p, kept) \in PagesHeld /\ TurnedTo(f, p, kept).filter = f
        /\ TurnedTo(f, p, kept).page = p /\ TurnedTo(f, p, kept).rows = {}
        /\ TurnedTo(f, p, kept).state = "loading"
    BY <1>1 DEF TurnedTo, PagesHeld
  <1> QED
    BY <1>2 DEF PageIsTrue

LEMMA ReadersGoOn ==
  ASSUME ResultsIInv, NEW r \in Followers
  PROVE  /\ PublicResults!ListFromCache(r) => ResultsIInv'
         /\ PublicResults!ReadRows(r) => ResultsIInv'
         /\ PublicResults!CountRows(r) => ResultsIInv'
  <1> DEFINE l == list[r]
             n == Listed[l.filter]
             A == PublicResults!Announced
             held == listCopy[l.filter][l.page]
             rows == PublicResults!Window(l.filter, l.page)
             total == Cardinality(PublicResults!Matching(l.filter))
  <1>1. /\ l \in PagesHeld /\ PageIsTrue(l, A, n) /\ n \in Nat /\ total = n
        /\ CopyIsTrue(held, l.page, A, n)
        /\ held # Nothing => held.rows \in SUBSET Announcing /\ held.total \in Nat
    BY PagesHeldAre
  <1>2. RowsAreTrue(rows, l.page, A) /\ rows \in SUBSET Announcing
    BY QueriesTell
  <1>3. \A read : PublicResults!Hold(r, read) /\ UNCHANGED <<feed, outcome, listCopy, copy, result>>
          /\ read \in PagesHeld /\ PageIsTrue(read, A, Listed[read.filter]) => ResultsIInv'
    BY TheCopiesStay, AReaderGoesOn
  <1>4. PublicResults!Cardinality(PublicResults!Matching(l.filter)) = total
    BY SetsAreCounted
  <1>5. ASSUME PublicResults!ListFromCache(r) PROVE ResultsIInv'
    <2> DEFINE read == PublicResults!Shown(l, held.rows, held.total)
    <2>1. /\ held # Nothing /\ PublicResults!Hold(r, read)
          /\ UNCHANGED <<feed, outcome, listCopy, copy, result>>
      BY <1>5 DEF PublicResults!ListFromCache
    <2>2. held.rows \in SUBSET Announcing /\ held.total \in Nat /\ RowsAreTrue(held.rows, l.page, A) /\ held.total <= n
      BY <1>1, <2>1 DEF CopyIsTrue
    <2>3. read \in PagesHeld /\ read.filter = l.filter /\ PageIsTrue(read, A, n)
      <3> DEFINE rowsHeld == held.rows
                 totalHeld == held.total
      <3>1. rowsHeld \in SUBSET Announcing /\ totalHeld \in Nat /\ RowsAreTrue(rowsHeld, l.page, A) /\ totalHeld <= n
        BY <2>2
      <3> HIDE DEF l, n, A, held, rowsHeld, totalHeld
      <3>2. /\ PublicResults!Shown(l, rowsHeld, totalHeld) \in PagesHeld
            /\ PublicResults!Shown(l, rowsHeld, totalHeld).filter = l.filter
            /\ PageIsTrue(PublicResults!Shown(l, rowsHeld, totalHeld), A, n)
        BY <1>1, <3>1, AnswersFit
      <3> QED
        BY <3>2 DEF rowsHeld, totalHeld
    <2> HIDE DEF l, n, A, held
    <2> HIDE DEF read
    <2> QED
      BY <1>3, <2>1, <2>3 DEF n
  <1>6. ASSUME PublicResults!ReadRows(r) PROVE ResultsIInv'
    <2> DEFINE read == WithRows(l, rows)
    <2>1. PublicResults!Hold(r, read) /\ UNCHANGED <<feed, outcome, listCopy, copy, result>>
      BY <1>6 DEF PublicResults!ReadRows, WithRows
    <2> HIDE DEF l, n, A, rows
    <2>2. read \in PagesHeld /\ read.filter = l.filter /\ PageIsTrue(read, A, n)
      BY <1>1, <1>2, RowsFit
    <2> HIDE DEF read
    <2> QED
      BY <1>3, <2>1, <2>2 DEF n
  <1>7. ASSUME PublicResults!CountRows(r) PROVE ResultsIInv'
    <2> DEFINE read == WithTotal(l, total)
    <2>1. PublicResults!Hold(r, read) /\ UNCHANGED <<feed, outcome, listCopy, copy, result>>
      BY <1>4, <1>7 DEF PublicResults!CountRows, WithTotal
    <2> HIDE DEF l, n, A, total
    <2>2. total \in Nat /\ total <= n
      BY <1>1
    <2>3. read \in PagesHeld /\ read.filter = l.filter /\ PageIsTrue(read, A, n)
      BY <1>1, <2>2, TotalsFit
    <2> HIDE DEF read
    <2> QED
      BY <1>3, <2>1, <2>3 DEF n
  <1> QED
    BY <1>5, <1>6, <1>7

LEMMA AnswersAreTrue ==
  ASSUME ResultsIInv, NEW r \in Followers, PublicResults!AnswerList(r)
  PROVE  ResultsIInv'
  <1> DEFINE l == list[r]
             f == l.filter
             p == l.page
             n == Listed[f]
             A == PublicResults!Announced
             window == PublicResults!Window(f, p)
             size == PublicResults!Cardinality(PublicResults!Matching(f))
             rows == IF l.state = "rows" THEN l.rows ELSE window
             total == IF l.state = "count" THEN l.total ELSE size
             read == PublicResults!Shown(l, rows, total)
             kept == [rows |-> rows, total |-> total]
  <1>1. /\ l \in PagesHeld /\ PageIsTrue(l, A, n) /\ n \in Nat /\ size = n
    BY PagesHeldAre, SetsAreCounted
  <1>2. RowsAreTrue(window, p, A) /\ window \in SUBSET Announcing
    BY QueriesTell
  <1>3. /\ PublicResults!Hold(r, read) /\ UNCHANGED <<feed, outcome, copy, result>>
        /\ listCopy' = [listCopy EXCEPT ![f][p] = kept]
    BY DEF PublicResults!AnswerList
  <1>4. f \in PublicResults!Filters /\ p \in PublicResults!Pages
    BY <1>1 DEF PagesHeld
  <1> HIDE DEF l, f, p, n, A, window, size
  <1>5. rows \in SUBSET Announcing /\ total \in Nat /\ RowsAreTrue(rows, p, A) /\ total <= n
    <2>1. l.rows \in SUBSET Announcing /\ l.total \in Nat
      BY <1>1 DEF PagesHeld
    <2>2. (l.state = "rows" => RowsAreTrue(l.rows, p, A)) /\ (l.state = "count" => l.total <= n)
      BY <1>1 DEF PageIsTrue, p
    <2> QED
      BY <1>1, <1>2, <2>1, <2>2
  <1> HIDE DEF rows, total
  <1>6. read \in PagesHeld /\ read.filter = f /\ PageIsTrue(read, A, n)
    <2>1. RowsAreTrue(rows, l.page, A)
      BY <1>5 DEF p
    <2> QED
      BY <1>1, <1>5, <2>1, AnswersFit DEF f
  <1>7. kept \in [rows : SUBSET Announcing, total : Nat] /\ CopyIsTrue(kept, p, A, n)
    BY <1>5 DEF CopyIsTrue
  <1> HIDE DEF kept, read
  <1>8. listCopy' \in [PublicResults!Filters -> [PublicResults!Pages ->
           {Nothing} \cup [rows : SUBSET Announcing, total : Nat]]]
    BY <1>3, <1>4, <1>7 DEF ResultsIInv, ResultTables
  <1>9. CopiesAreTrue'
    <2>1. \A g \in PublicResults!Filters, q \in PublicResults!Pages :
            (g = f /\ q = p /\ listCopy'[g][q] = kept) \/ listCopy'[g][q] = listCopy[g][q]
      <3>1. listCopy \in [PublicResults!Filters -> [PublicResults!Pages ->
              {Nothing} \cup [rows : SUBSET Announcing, total : Nat]]]
        BY DEF ResultsIInv, ResultTables
      <3> QED
        BY <1>3, <1>4, <3>1
    <2>2. \A g \in PublicResults!Filters, q \in PublicResults!Pages : CopyIsTrue(listCopy[g][q], q, A, Listed[g])
      BY DEF ResultsIInv, CopiesAreTrue, A
    <2>3. \A g \in PublicResults!Filters, q \in PublicResults!Pages : CopyIsTrue(listCopy'[g][q], q, A, Listed[g])
      BY <1>7, <2>1, <2>2 DEF n
    <2>4. PublicResults!Announced' = A /\ Listed' = Listed
      BY <1>3, FeedStays DEF A
    <2>5. \A g \in PublicResults!Filters, q \in PublicResults!Pages : CopyIsTrue(listCopy'[g][q], q, PublicResults!Announced', Listed'[g])
      BY <2>3, <2>4
    <2> QED
      BY <2>5 DEF CopiesAreTrue
  <1> QED
    BY <1>3, <1>6, <1>8, <1>9, AReaderGoesOn DEF n, A

\* To another page: the next one exists by the total last shown.
LEMMA ReadersTurn ==
  ASSUME ResultsIInv, NEW r \in Followers
  PROVE  /\ \A p \in PublicResults!Pages : PublicResults!TurnTo(r, p) => ResultsIInv'
         /\ \A f \in PublicResults!Filters : PublicResults!ChangeFilter(r, f) => ResultsIInv'
  <1> DEFINE l == list[r]
             A == PublicResults!Announced
  <1>1. l \in PagesHeld /\ PageIsTrue(l, A, Listed[l.filter]) /\ Listed[l.filter] \in Nat
    BY PagesHeldAre
  <1>2. \A read : PublicResults!Hold(r, read) /\ UNCHANGED <<feed, outcome, listCopy, copy, result>>
          /\ read \in PagesHeld /\ PageIsTrue(read, A, Listed[read.filter]) => ResultsIInv'
    BY TheCopiesStay, AReaderGoesOn
  <1>4. ASSUME NEW p \in PublicResults!Pages, PublicResults!TurnTo(r, p) PROVE ResultsIInv'
    <2> DEFINE kept == IF p = l.page + 1 THEN l.rows ELSE {}
               read == TurnedTo(l.filter, p, kept)
    <2>1. /\ l.state = "shown" /\ p \in 1 .. PublicResults!TotalPages(l.total)
          /\ PublicResults!Hold(r, read) /\ UNCHANGED <<feed, outcome, listCopy, copy, result>>
      BY <1>4 DEF PublicResults!TurnTo, TurnedTo
    <2>2. l.filter \in PublicResults!Filters /\ kept \in SUBSET Announcing /\ l.total \in Nat
      BY <1>1 DEF PagesHeld
    <2>3. l.total <= Listed[l.filter]
      BY <1>1, <2>1 DEF PageIsTrue
    <2>4. PageExists(p, Listed[l.filter])
      <3> DEFINE n == Listed[l.filter]
                 t == l.total
                 past == (p - 1) * ResultsPerPage
      <3>1. p \in Nat
        BY OnePageAtLeast
      <3>2. past \in Int
        <4>1. ResultsPerPage \in Int
          BY PageSizeIsCounted
        <4> QED
          BY <3>1, <4>1
      <3>3. p > 1 => past < t
        BY <2>1, <2>2, <3>1, PagesTold
      <3>4. t \in Nat /\ n \in Nat /\ t <= n
        BY <1>1, <2>2, <2>3
      <3> HIDE DEF past, t, n
      <3>5. p > 1 => past < n
        BY <3>2, <3>3, <3>4
      <3> QED
        BY <3>5 DEF PageExists, past, n
    <2> HIDE DEF A, kept, l
    <2>5. read \in PagesHeld /\ read.filter = l.filter /\ PageIsTrue(read, A, Listed[l.filter])
      BY <2>2, <2>4, TurnsFit
    <2> HIDE DEF read
    <2> QED
      BY <1>2, <2>1, <2>5
  <1>5. ASSUME NEW f \in PublicResults!Filters, PublicResults!ChangeFilter(r, f) PROVE ResultsIInv'
    <2> DEFINE read == [PublicResults!NoList EXCEPT !.filter = f]
    <2>1. PublicResults!Hold(r, read) /\ UNCHANGED <<feed, outcome, listCopy, copy, result>>
      BY <1>5 DEF PublicResults!ChangeFilter
    <2>2. read = [filter |-> f, page |-> 1, state |-> "loading", rows |-> {}, total |-> 0, before |-> {}]
      BY DEF PublicResults!NoList
    <2>3. read \in PagesHeld /\ PageIsTrue(read, A, Listed[read.filter])
      BY <2>2, OnePageAtLeast DEF PagesHeld, PageIsTrue, PageExists
    <2> HIDE DEF read, A
    <2> QED
      BY <1>2, <2>1, <2>3
  <1> QED
    BY <1>4, <1>5

LEMMA VisitorsAsk ==
  ASSUME ResultsIInv, NEW v \in Visitors
  PROVE  /\ \A c \in Announcing : PublicResults!OpenResult(v, c) => ResultsIInv'
         /\ PublicResults!Serve(v) => ResultsIInv'
         /\ PublicResults!Serve(v) =>
              (result[v].state = "loading" /\ result'[v].state = "absent" =>
                 result[v].at \notin PublicResults!Announced)
         /\ PublicResults!Serve(v) => \A w \in Visitors \ {v} : result'[w] = result[w]
  <1>1. /\ result \in [Visitors -> [at : Announcing \cup {Nothing},
                              state : {"closed", "loading", "found", "absent"}, body : Outcomes \cup {Nothing}]]
        /\ copy \in [Announcing -> {Nothing} \cup [state : {"found"}, body : Outcomes]]
        /\ outcome \in [Announcing -> Outcomes]
        /\ \A c \in Announcing : copy[c] # Nothing => c \in PublicResults!Announced
        /\ \A w \in Visitors :
             /\ result[w].state = "found" => result[w].at \in PublicResults!Announced
             /\ result[w].state = "loading" => result[w].at \in Announcing
    BY DEF ResultsIInv, ResultTables, ResultsAreAnnounced
  <1>2. ASSUME NEW c \in Announcing, PublicResults!OpenResult(v, c) PROVE ResultsIInv'
    <2>1. /\ UNCHANGED <<feed, outcome, listCopy, copy, list>>
          /\ result' = [result EXCEPT ![v] = [at |-> c, state |-> "loading", body |-> Nothing]]
      BY <1>2 DEF PublicResults!OpenResult
    <2>2. PublicResults!Announced' = PublicResults!Announced
      BY <2>1, FeedStays
    <2>3. /\ result' \in [Visitors -> [at : Announcing \cup {Nothing},
                              state : {"closed", "loading", "found", "absent"}, body : Outcomes \cup {Nothing}]]
          /\ \A w \in Visitors :
               /\ result'[w].state = "found" => result'[w].at \in PublicResults!Announced
               /\ result'[w].state = "loading" => result'[w].at \in Announcing
      BY <1>1, <2>1
    <2>4. ResultTables' /\ ResultsAreAnnounced'
      BY <2>1, <2>2, <2>3 DEF ResultsIInv, ResultTables, ResultsAreAnnounced
    <2> QED
      BY <2>1, <2>4, TheListingStays DEF ResultsIInv
  <1>3. ASSUME PublicResults!Serve(v)
        PROVE  /\ ResultsIInv'
               /\ result[v].state = "loading" /\ result'[v].state = "absent" => result[v].at \notin PublicResults!Announced
               /\ \A w \in Visitors \ {v} : result'[w] = result[w]
    <2> DEFINE c == result[v].at
               found == IF copy[c] # Nothing THEN copy[c]
                        ELSE IF c \in PublicResults!Announced THEN [state |-> "found", body |-> outcome[c]]
                        ELSE [state |-> "absent", body |-> Nothing]
    <2>1. /\ UNCHANGED <<feed, outcome, listCopy, list>> /\ result[v].state = "loading"
          /\ copy' = IF found.state = "found" THEN [copy EXCEPT ![c] = found] ELSE copy
          /\ result' = [result EXCEPT ![v].state = found.state, ![v].body = found.body]
      BY <1>3 DEF PublicResults!Serve
    <2>2. c \in Announcing
      BY <1>1, <2>1
    <2>3. /\ found.state \in {"found", "absent"} /\ found.body \in Outcomes \cup {Nothing}
          /\ found.state = "found" => found \in [state : {"found"}, body : Outcomes] /\ c \in PublicResults!Announced
          /\ found.state = "absent" => c \notin PublicResults!Announced
      <3>1. CASE copy[c] # Nothing
        <4>1. found = copy[c] /\ copy[c] \in [state : {"found"}, body : Outcomes] /\ c \in PublicResults!Announced
          BY <1>1, <2>2, <3>1
        <4> QED
          BY <4>1
      <3>2. CASE copy[c] = Nothing /\ c \in PublicResults!Announced
        <4>1. found = [state |-> "found", body |-> outcome[c]] /\ outcome[c] \in Outcomes
          BY <1>1, <2>2, <3>2
        <4> QED
          BY <3>2, <4>1
      <3>3. CASE copy[c] = Nothing /\ c \notin PublicResults!Announced
        BY <3>3
      <3> QED
        BY <3>1, <3>2, <3>3
    <2> HIDE DEF found
    <2>4. /\ result'[v].state = found.state /\ result'[v].at = c
          /\ result'[v] \in [at : Announcing \cup {Nothing},
                             state : {"closed", "loading", "found", "absent"}, body : Outcomes \cup {Nothing}]
          /\ \A w \in Visitors \ {v} : result'[w] = result[w]
          /\ DOMAIN result' = Visitors
      BY <1>1, <2>1, <2>2, <2>3
    <2>5. copy' \in [Announcing -> {Nothing} \cup [state : {"found"}, body : Outcomes]]
          /\ \A d \in Announcing : copy'[d] # Nothing => d \in PublicResults!Announced
      BY <1>1, <2>1, <2>2, <2>3
    <2> HIDE DEF c
    <2>6. PublicResults!Announced' = PublicResults!Announced
      BY <2>1, FeedStays
    <2>7. result' \in [Visitors -> [at : Announcing \cup {Nothing},
                              state : {"closed", "loading", "found", "absent"}, body : Outcomes \cup {Nothing}]]
      <3>1. \A w \in Visitors : result'[w] \in [at : Announcing \cup {Nothing},
                              state : {"closed", "loading", "found", "absent"}, body : Outcomes \cup {Nothing}]
        BY <1>1, <2>4
      <3>2. result' = [w \in Visitors |-> result'[w]]
        BY <1>1, <2>1
      <3> QED
        BY <3>1, <3>2
    <2>8. \A w \in Visitors :
            /\ result'[w].state = "found" => result'[w].at \in PublicResults!Announced
            /\ result'[w].state = "loading" => result'[w].at \in Announcing
      BY <1>1, <2>2, <2>3, <2>4
    <2>9. ResultTables' /\ ResultsAreAnnounced'
      BY <2>1, <2>5, <2>6, <2>7, <2>8 DEF ResultsIInv, ResultTables, ResultsAreAnnounced
    <2>10. ResultsIInv'
      BY <2>1, <2>9, TheListingStays DEF ResultsIInv
    <2>11. result'[v].state = "absent" => result[v].at \notin PublicResults!Announced
      BY <2>3, <2>4 DEF c
    <2> QED
      BY <2>4, <2>10, <2>11
  <1> QED
    BY <1>2, <1>3

LEMMA ResultsStep ==
  ASSUME ResultsIInv, [PublicResults!Next]_(PublicResults!vars)
  PROVE  /\ ResultsIInv'
         /\ \A v \in Visitors :
              result[v].state = "loading" /\ result'[v].state = "absent" =>
                result[v].at \notin PublicResults!Announced
  <1>1. CASE UNCHANGED PublicResults!vars
    <2>1. UNCHANGED <<feed, outcome, listCopy, copy, list, result>>
      BY <1>1 DEF PublicResults!vars
    <2>2. PublicResults!Announced' = PublicResults!Announced
      BY <2>1, FeedStays
    <2>3. ResultTables' /\ ResultsAreAnnounced'
      BY <2>1, <2>2 DEF ResultsIInv, ResultTables, ResultsAreAnnounced
    <2> QED
      BY <2>1, <2>3, TheListingStays DEF ResultsIInv
  <1>2. ASSUME NEW v \in Visitors, PublicResults!Serve(v)
        PROVE  /\ ResultsIInv'
               /\ \A w \in Visitors :
                    result[w].state = "loading" /\ result'[w].state = "absent" =>
                      result[w].at \notin PublicResults!Announced
    <2>1. \A w \in Visitors \ {v} : result'[w] = result[w]
      BY <1>2, VisitorsAsk
    <2>2. ResultsIInv' /\ (result[v].state = "loading" /\ result'[v].state = "absent" => result[v].at \notin PublicResults!Announced)
      BY <1>2, VisitorsAsk
    <2> QED
      BY <2>1, <2>2
  <1>3. ASSUME NEW v \in Visitors, NEW c \in Announcing, PublicResults!OpenResult(v, c)
        PROVE  /\ ResultsIInv'
               /\ \A w \in Visitors : result'[w].state # "absent" \/ result'[w] = result[w]
    <2>1. ResultsIInv'
      BY <1>3, VisitorsAsk
    <2>2. result' = [result EXCEPT ![v] = [at |-> c, state |-> "loading", body |-> Nothing]]
      BY <1>3 DEF PublicResults!OpenResult
    <2>3. \A w \in Visitors : result'[w].state # "absent" \/ result'[w] = result[w]
      BY <2>2 DEF ResultsIInv, ResultTables
    <2> QED
      BY <2>1, <2>3
  <1>4. ASSUME NEW c \in Announcing, PublicResults!Publish(c) PROVE ResultsIInv' /\ UNCHANGED result
    BY <1>4, PublishingIsListed DEF PublicResults!Publish
  <1>5. ASSUME NEW c \in Announcing, PublicResults!Expire(c) PROVE ResultsIInv' /\ UNCHANGED result
    BY <1>5, ExpiringIsListed DEF PublicResults!Expire
  <1>6. ASSUME NEW c \in Amended, PublicResults!Amend(c) PROVE ResultsIInv' /\ UNCHANGED result
    <2>1. c \in Announcing
      BY PagesAssumption DEF PublicResults!ResultsAssumption
    <2> QED
      BY <1>6, <2>1, AmendingIsListed DEF PublicResults!Amend
  <1>7. ASSUME NEW f \in PublicResults!Filters, NEW p \in PublicResults!Pages, PublicResults!ExpireList(f, p)
        PROVE  ResultsIInv' /\ UNCHANGED result
    BY <1>7, ExpiringIsListed DEF PublicResults!ExpireList
  <1>8. ASSUME NEW r \in Followers,
               \/ PublicResults!ListFromCache(r) \/ PublicResults!ReadRows(r)
               \/ PublicResults!CountRows(r) \/ PublicResults!AnswerList(r)
        PROVE  ResultsIInv' /\ UNCHANGED result
    <2>1. ResultsIInv'
      BY <1>8, ReadersGoOn, AnswersAreTrue
    <2>2. UNCHANGED result
      BY <1>8 DEF PublicResults!ListFromCache, PublicResults!ReadRows, PublicResults!CountRows, PublicResults!AnswerList
    <2> QED
      BY <2>1, <2>2
  <1>9. ASSUME NEW r \in Followers,
               \/ \E p \in PublicResults!Pages : PublicResults!TurnTo(r, p)
               \/ \E f \in PublicResults!Filters : PublicResults!ChangeFilter(r, f)
        PROVE  ResultsIInv' /\ UNCHANGED result
    <2>1. ResultsIInv'
      BY <1>9, ReadersTurn
    <2>2. UNCHANGED result
      <3>1. \A p : PublicResults!TurnTo(r, p) => UNCHANGED result
        BY DEF PublicResults!TurnTo
      <3>2. \A f : PublicResults!ChangeFilter(r, f) => UNCHANGED result
        BY DEF PublicResults!ChangeFilter
      <3> QED
        BY <1>9, <3>1, <3>2
    <2> QED
      BY <2>1, <2>2
  <1>10. CASE PublicResults!Next
    <2>1. \/ \E c \in Announcing : PublicResults!Publish(c) \/ PublicResults!Expire(c)
          \/ \E c \in Amended : PublicResults!Amend(c)
          \/ \E f \in PublicResults!Filters, p \in PublicResults!Pages : PublicResults!ExpireList(f, p)
          \/ \E r \in Followers :
               \/ PublicResults!ListFromCache(r) \/ PublicResults!ReadRows(r)
               \/ PublicResults!CountRows(r) \/ PublicResults!AnswerList(r)
               \/ \E p \in PublicResults!Pages : PublicResults!TurnTo(r, p)
               \/ \E f \in PublicResults!Filters : PublicResults!ChangeFilter(r, f)
          \/ \E v \in Visitors :
               \/ \E c \in Announcing : PublicResults!OpenResult(v, c)
               \/ PublicResults!Serve(v)
      BY <1>10 DEF PublicResults!Next
    <2>2. CASE \E v \in Visitors : PublicResults!Serve(v)
      BY <1>2, <2>2
    <2>3. CASE \E v \in Visitors, c \in Announcing : PublicResults!OpenResult(v, c)
      <3>1. ResultsIInv' /\ \A w \in Visitors : result'[w].state # "absent" \/ result'[w] = result[w]
        BY <1>3, <2>3
      <3> QED
        BY <3>1
    <2>4. CASE \/ \E c \in Announcing : PublicResults!Publish(c) \/ PublicResults!Expire(c)
               \/ \E c \in Amended : PublicResults!Amend(c)
               \/ \E f \in PublicResults!Filters, p \in PublicResults!Pages : PublicResults!ExpireList(f, p)
      <3>1. ResultsIInv' /\ UNCHANGED result
        BY <1>4, <1>5, <1>6, <1>7, <2>4
      <3> QED
        BY <3>1
    <2>5. CASE \E r \in Followers :
               \/ PublicResults!ListFromCache(r) \/ PublicResults!ReadRows(r)
               \/ PublicResults!CountRows(r) \/ PublicResults!AnswerList(r)
               \/ \E p \in PublicResults!Pages : PublicResults!TurnTo(r, p)
               \/ \E f \in PublicResults!Filters : PublicResults!ChangeFilter(r, f)
      <3>1. ResultsIInv' /\ UNCHANGED result
        BY <1>8, <1>9, <2>5
      <3> QED
        BY <3>1
    <2> QED
      BY <2>1, <2>2, <2>3, <2>4, <2>5
  <1> QED
    BY <1>1, <1>10

LEMMA ResultsSay ==
  ASSUME ResultsIInv
  PROVE  PublicResults!TypeOK /\ PublicResults!NothingUnannounced /\ PublicResults!NeverPastTheEnd
  <1>1. PublicResults!IsInjective(feed) /\ PublicResults!Announced \subseteq Announcing
    <2>1. PublicResults!Announced \subseteq Announcing
      BY AnnouncedAre DEF ResultsIInv
    <2> QED
      BY <2>1 DEF ResultsIInv, FeedIsOrdered, PublicResults!IsInjective
  <1>2. \A i, j \in 1 .. Len(feed) : i < j => YearHeld[feed[i]] >= YearHeld[feed[j]]
    BY AnnouncedAre DEF ResultsIInv, FeedIsOrdered
  <1>3. ASSUME NEW r \in Followers
        PROVE  /\ list[r].filter \in PublicResults!Filters /\ list[r].page \in PublicResults!Pages
               /\ PublicResults!Cardinality(list[r].rows) <= ResultsPerPage
               /\ list[r].rows \subseteq PublicResults!Announced
               /\ list[r].state = "shown" /\ list[r].page > 1 => list[r].rows # {}
    <2>1. list[r] \in PagesHeld /\ PageIsTrue(list[r], PublicResults!Announced, Listed[list[r].filter])
      BY PagesHeldAre
    <2>2. list[r].filter \in PublicResults!Filters /\ list[r].page \in PublicResults!Pages
      BY <2>1 DEF PagesHeld
    <2>3. list[r].rows = {} => PublicResults!Cardinality(list[r].rows) <= ResultsPerPage
      BY SetsAreCounted, FS_EmptySet, PageSizeIsCounted
    <2>4. list[r].rows # {} => RowsAreTrue(list[r].rows, list[r].page, PublicResults!Announced)
      BY <2>1 DEF PageIsTrue
    <2>5. list[r].state = "shown" => RowsAreTrue(list[r].rows, list[r].page, PublicResults!Announced)
      BY <2>1 DEF PageIsTrue
    <2> QED
      BY <2>2, <2>3, <2>4, <2>5, SetsAreCounted DEF RowsAreTrue
  <1>4. /\ \A v \in Visitors : result[v].state \in {"closed", "loading", "found", "absent"}
        /\ \A v \in Visitors : result[v].state = "found" => result[v].at \in PublicResults!Announced
        /\ \A c \in Announcing : copy[c] # Nothing /\ copy[c].state = "found" => c \in PublicResults!Announced
        /\ \A c \in Announcing : outcome[c].reserve # "WAITING" => outcome[c].withdrawn
    BY DEF ResultsIInv, ResultTables, ResultsAreAnnounced
  <1> QED
    BY <1>1, <1>2, <1>3, <1>4 DEF PublicResults!TypeOK, PublicResults!NothingUnannounced, PublicResults!NeverPastTheEnd

\* Public results (NotFoundIsTrue): whatever is announced meanwhile, no page or copy shows a
\* result before its announcement, no page after the first is empty, and nobody who asks
\* once a result is announced is told that there is none.
THEOREM AbsenceIsNeverRemembered == PublicResults!Spec => NotFoundIsTrue
  <1>1. PublicResults!Init => ResultsIInv
    BY ResultsStart
  <1>2. ResultsIInv /\ [PublicResults!Next]_(PublicResults!vars) => ResultsIInv'
    BY ResultsStep
  <1>3. ResultsIInv /\ [PublicResults!Next]_(PublicResults!vars) =>
          [\A v \in Visitors :
             result[v].state = "loading" /\ result'[v].state = "absent" =>
               result[v].at \notin PublicResults!Announced]_(PublicResults!vars)
    BY ResultsStep
  <1>4. ResultsIInv => PublicResults!TypeOK /\ PublicResults!NothingUnannounced /\ PublicResults!NeverPastTheEnd
    BY ResultsSay
  <1> QED
    BY <1>1, <1>2, <1>3, <1>4, PTL DEF NotFoundIsTrue, PublicResults!NotFoundIsTrue, PublicResults!Spec

==============================================================================
