------------------------------- MODULE Snapshot -------------------------------
(***************************************************************************)
(* The fingerprint of a frozen pool, and the check a draw makes of the     *)
(* rows it loads before it draws a single random number.  Between the two  *)
(* the rows may be changed, exchanged or lost, or only be read in another  *)
(* order.                                                                  *)
(*                                                                         *)
(* Abstracted: the digest is taken to be its canonical text, and an        *)
(* application id to be its place in the order of all of them.             *)
(***************************************************************************)
EXTENDS Integers, Sequences, FiniteSetsExt

CONSTANTS
  CommuneDraw,    \* the commune draw
  PoolEntries,    \* what an entry of its pool may be
  MaxEntries      \* bound on the entries of a pool

EntryFields == {"application", "entryType", "primary", "secondary", "weight"}

IsEntry(e) ==
  e = [f \in EntryFields |-> e[f]] /\ e.application \in Nat /\ e.weight \in Nat

ASSUME SnapshotAssumption == MaxEntries \in Nat /\ \A e \in PoolEntries : IsEntry(e)

VARIABLES
  frozen,         \* the pool as it was frozen
  row,            \* draw_pools: its row as it is now
  loaded          \* draw_pool_entries: its entries, in the order they are read now

snapshotVars == <<frozen, row, loaded>>

------------------------------------------------------------------------------
SNAPSHOT_VERSION == 1

PilgrimCountOf(entry) == IF entry.entryType = "PAIRED" THEN 2 ELSE 1

Weights(entries) == [i \in DOMAIN entries |-> entries[i].weight]
PilgrimCounts(entries) == [i \in DOMAIN entries |-> PilgrimCountOf(entries[i])]

Total(counts) == MapThenSumSet(LAMBDA i : counts[i], DOMAIN counts)

Listed(entries) == {entries[i] : i \in DOMAIN entries}

\* sort(): an entry comes after those of smaller application ids.
Earlier(entries, e) == {i \in DOMAIN entries : entries[i].application < e.application}

ByApplication(entries) ==
  [k \in DOMAIN entries |-> CHOOSE e \in Listed(entries) : Cardinality(Earlier(entries, e)) = k - 1]

Header(draw, spots, entries) == <<SNAPSHOT_VERSION, draw, spots, Len(entries)>>

\* Faulty: who, and not what they weigh.
CanonicalizeIdentities(draw, spots, entries) ==
  [header |-> Header(draw, spots, entries),
   entries |-> [k \in DOMAIN entries |->
     LET e == ByApplication(entries)[k] IN <<e.application, e.entryType, e.primary, e.secondary>>]]

\* A header, then every entry field by field in the order of the application ids.
CanonicalizePool(draw, spots, entries) ==
  [header |-> Header(draw, spots, entries),
   entries |-> [k \in DOMAIN entries |->
     LET e == ByApplication(entries)[k]
     IN <<e.application, e.entryType, e.primary, e.secondary, e.weight>>]]

\* What the freeze stores beside the entries.
PoolRow(draw, spots, entries) ==
  [spots |-> spots, entryCount |-> Len(entries), version |-> SNAPSHOT_VERSION,
   pilgrimCount |-> Total(PilgrimCounts(entries)),
   totalWeight |-> Total(Weights(entries)),
   snapshotHash |-> CanonicalizePool(draw, spots, entries)]

\* What a draw requires of the row and the entries it loads.
SnapshotIntact(draw, pool, entries) ==
  /\ pool.version = SNAPSHOT_VERSION
  /\ Len(entries) = pool.entryCount
  /\ Total(Weights(entries)) = pool.totalWeight
  /\ Total(PilgrimCounts(entries)) = pool.pilgrimCount
  /\ CanonicalizePool(draw, pool.spots, entries) = pool.snapshotHash

------------------------------------------------------------------------------
\* draw_pool_entries_draw_pool_id_application_id_key
Keyed(entries) ==
  \A i, j \in DOMAIN entries : entries[i].application = entries[j].application => i = j

Pools == {p \in UNION {[1 .. n -> PoolEntries] : n \in 1 .. MaxEntries} : Keyed(p)}

SnapshotInit ==
  /\ frozen = <<>>
  /\ row = <<>>
  /\ loaded = <<>>

Freeze(entries) ==
  /\ frozen = <<>>
  /\ frozen' = entries
  /\ row' = PoolRow(CommuneDraw, 1, entries)
  /\ loaded' = entries

\* Entries changed by somebody at the database, which keeps one to an application.
Rewrite(entries) == Keyed(entries) /\ loaded' = entries /\ UNCHANGED <<frozen, row>>

ChangeEntry(i, e) == Rewrite([loaded EXCEPT ![i] = e])

ExchangeWeights(i, j) ==
  Rewrite([loaded EXCEPT ![i].weight = loaded[j].weight, ![j].weight = loaded[i].weight])

ReadInAnotherOrder(i, j) == Rewrite([loaded EXCEPT ![i] = loaded[j], ![j] = loaded[i]])

LoseEntry == loaded # <<>> /\ Rewrite(Tail(loaded))

ChangeSpots(n) == row' = [row EXCEPT !.spots = n] /\ UNCHANGED <<frozen, loaded>>

SnapshotNext ==
  \/ \E p \in Pools : Freeze(p)
  \/ /\ frozen # <<>>
     /\ \/ \E i \in DOMAIN loaded, e \in PoolEntries : ChangeEntry(i, e)
        \/ \E i, j \in DOMAIN loaded : ExchangeWeights(i, j) \/ ReadInAnotherOrder(i, j)
        \/ LoseEntry
        \/ \E n \in {1, 2} : ChangeSpots(n)

SnapshotSpec == SnapshotInit /\ [][SnapshotNext]_snapshotVars

------------------------------------------------------------------------------
SameEntries == Len(loaded) = Len(frozen) /\ Listed(loaded) = Listed(frozen)

\* A draw runs on the pool that was frozen or not at all, two weights exchanged included,
\* and the order the database returns the rows in never makes a sound pool look altered.
TamperingIsNoticed == frozen # <<>> =>
  /\ SnapshotIntact(CommuneDraw, row, loaded) => SameEntries /\ row.spots = 1
  /\ SameEntries /\ row.spots = 1 => SnapshotIntact(CommuneDraw, row, loaded)

==============================================================================
