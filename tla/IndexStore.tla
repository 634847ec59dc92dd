------------------------------ MODULE IndexStore ------------------------------
(***************************************************************************)
(* The in-memory IndexedDB index (src/WebCore/Modules/indexeddb/server/):  *)
(* an IndexValueStore and a MemoryIndexCursor iterating over it.           *)
(*                                                                         *)
(* The store keeps two structures: m_records, a hash map from index key to *)
(* an IndexValueEntry (the ordered set of primary keys with that index     *)
(* key), and m_orderedKeys, the ordered set of index keys used for         *)
(* iteration.  A cursor keeps its position (m_currentKey,                  *)
(* m_currentPrimaryKey) and an iterator into both structures; MemoryIndex  *)
(* invalidates the iterator when the record at the position changes or    *)
(* the store is cleared, and iterate() then finds its way back from the    *)
(* position.                                                               *)
(*                                                                         *)
(* IndexValueEntry, IDBKeyRangeData and MemoryIndex are not part of this   *)
(* source.  An entry is modelled as a set of primary keys with std::set    *)
(* semantics (find is lower_bound, reverseFind the last key not above,     *)
(* removeKey reports whether it erased the key; a unique entry matches     *)
(* exactly); MemoryIndex's calls are the environment actions at the end.   *)
(* A null or dangling dereference ends the behaviour (crashed).            *)
(* Keys are small integers; 0 is the null key, which as a bound means     *)
(* unbounded.                                                              *)
(***************************************************************************)
EXTENDS Naturals, FiniteSets, FiniteSetsExt

CONSTANTS
    NumKeys,    \* index keys 1 .. NumKeys
    NumPKs,     \* primary keys 1 .. NumPKs
    MaxCount    \* bound on the count argument of iterate()

Keys == 1 .. NumKeys
PKs == 1 .. NumPKs
NoKey == 0
Counts == 0 .. MaxCount

Dirs == {"next", "nextunique", "prev", "prevunique"}
Forward(d) == d \in {"next", "nextunique"}
NoDuplicate(d) == d \in {"nextunique", "prevunique"}

\* IDBKeyRangeData: bounds (NoKey when absent) and openness.
Ranges == {r \in [lower : Keys \cup {NoKey}, lowerOpen : BOOLEAN,
                  upper : Keys \cup {NoKey}, upperOpen : BOOLEAN] :
              r.lower # NoKey /\ r.upper # NoKey => r.lower <= r.upper}

VARIABLES
    unique,     \* m_unique of the store (fixed per index)
    store,      \* MemoryIndex's m_records pointer is non-null
    records,    \* m_records: index key -> its entry's primary keys ({} = no entry)
    ordered,    \* m_orderedKeys
    cursor,     \* the MemoryIndexCursor
    crashed,    \* a null or dangling pointer was dereferenced
    rolledBack  \* removeRecord() has run (history, for CrashOnlyAfterRollback)

vars == <<unique, store, records, ordered, cursor, crashed, rolledBack>>

\* IndexValueStore::Iterator: valid at (key, pk), invalid, or crashed.
End == [st |-> "end", key |-> NoKey, pk |-> NoKey]
Crash == [st |-> "crash", key |-> NoKey, pk |-> NoKey]
At(k, p) == [st |-> "valid", key |-> k, pk |-> p]

(* IDBKeyRangeData::containsKey().                                         *)
InRange(r, k) ==
    /\ r.lower = NoKey \/ k > r.lower \/ (k = r.lower /\ ~r.lowerOpen)
    /\ r.upper = NoKey \/ k < r.upper \/ (k = r.upper /\ ~r.upperOpen)

\* The first element of S in the direction of iteration, or NoKey.
FirstOf(S, fwd) == IF S = {} THEN NoKey ELSE IF fwd THEN Min(S) ELSE Max(S)

(* IndexValueEntry::find()/reverseFind(): the first primary key at or     *)
(* beyond p; a unique entry only matches p itself.                        *)
EntryFind(S, p, fwd) ==
    IF unique THEN (IF p \in S THEN p ELSE NoKey)
    ELSE FirstOf({q \in S : IF fwd THEN q >= p ELSE q <= p}, fwd)

(* IndexValueEntry::Iterator::operator++: the next primary key.           *)
EntryNext(S, p, fwd) == FirstOf({q \in S : IF fwd THEN q > p ELSE q < p}, fwd)

(* The next key of m_orderedKeys after k, as ++ on a set iterator.        *)
NextOrdered(k, fwd) == FirstOf({j \in ordered : IF fwd THEN j > k ELSE j < k}, fwd)

-----------------------------------------------------------------------------
(* lowestIteratorInRange(): the first ordered key inside the range.       *)
LowestIteratorInRange(r) == FirstOf({k \in ordered : InRange(r, k)}, TRUE)

(* highestReverseIteratorInRange(): the last ordered key inside it.       *)
HighestReverseIteratorInRange(r) == FirstOf({k \in ordered : InRange(r, k)}, FALSE)

\* The range find() and reverseFind() build from a key and openness.
FromKey(k, open) == [lower |-> k, lowerOpen |-> open, upper |-> NoKey, upperOpen |-> FALSE]
UpToKey(k, open) == [lower |-> NoKey, lowerOpen |-> FALSE, upper |-> k, upperOpen |-> open]

(* m_records.get() of an ordered key, then the entry's begin(): a key      *)
(* without a record is a null dereference.                                *)
EntryStart(k, fwd) ==
    CASE k = NoKey -> End
      [] records[k] = {} -> Crash
      [] OTHER -> At(k, FirstOf(records[k], fwd))

(* find(key, open) / reverseFind(key, open).                               *)
FindKey(k, open, fwd) ==
    EntryStart(IF fwd THEN LowestIteratorInRange(FromKey(k, open))
               ELSE HighestReverseIteratorInRange(UpToKey(k, open)), fwd)

(* find(key, primaryKey) / reverseFind(key, primaryKey): the first key at *)
(* or beyond key; in its entry, the primary key found from primaryKey,    *)
(* else the start of the next key's entry.                                *)
FindPrimary(k, p, fwd) ==
    LET i == IF fwd THEN LowestIteratorInRange(FromKey(k, FALSE))
             ELSE HighestReverseIteratorInRange(UpToKey(k, FALSE))
    IN CASE i = NoKey -> End
         [] records[i] = {} -> Crash
         [] EntryFind(records[i], p, fwd) # NoKey -> At(i, EntryFind(records[i], p, fwd))
         [] OTHER -> EntryStart(NextOrdered(i, fwd), fwd)

(* Iterator::nextIndexEntry(): the start of the next key's entry; an      *)
(* iterator whose key was erased from m_orderedKeys dangles.               *)
NextIndexEntry(it, fwd) ==
    CASE it.st # "valid" -> it
      [] it.key \notin ordered -> Crash
      [] OTHER -> EntryStart(NextOrdered(it.key, fwd), fwd)

(* Iterator::operator++: the next primary key of the entry, else the next *)
(* entry; a primary key iterator whose key or entry is gone dangles.       *)
Increment(it, fwd) ==
    CASE it.st # "valid" -> it
      [] it.key \notin ordered \/ it.pk \notin records[it.key] -> Crash
      [] EntryNext(records[it.key], it.pk, fwd) # NoKey ->
            At(it.key, EntryNext(records[it.key], it.pk, fwd))
      [] OTHER -> NextIndexEntry(it, fwd)

-----------------------------------------------------------------------------
(* Faulty variants of the helpers below, each the way a plausible slip in  *)
(* the C++ would change it; each property must fail under one of them.     *)

\* Counting the restored position as an iteration even when it is the
\* current record itself.
RestoredCountAlways(c, it, n) == n - 1

\* clearIndexValueStore() without telling the cursors.
IndexRecordsAllChangedKept(c) == c

\* Erasing from m_orderedKeys every key whose entry lost the primary key,
\* rather than the keys whose entry became empty.
EntryKeysToRemoveLost(recs, p) == {k \in Keys : p \in recs[k]}

\* Testing getCount() before removeKey() instead of after it.
EntryKeysToRemoveBefore(recs, p) == {k \in Keys : recs[k] = {}}

(* MemoryIndexCursor::iterate(): a restored iterator that is not at the   *)
(* current record already stands on the next one, which counts.           *)
RestoredCount(c, it, n) ==
    IF c.key # it.key \/ c.pk # it.pk THEN n - 1 ELSE n

(* removeEntriesWithValueKey(): the keys whose entry is left empty.       *)
EntryKeysToRemove(recs, p) == {k \in Keys : recs[k] # {} /\ recs[k] \ {p} = {}}

(* The while (count) loop of iterate(): ++ or nextIndexEntry() until the  *)
(* count is used up or the iterator becomes invalid.                       *)
RECURSIVE Advance(_, _, _)
Advance(it, n, d) ==
    IF n = 0 \/ it.st # "valid" THEN it
    ELSE LET nx == IF NoDuplicate(d) THEN NextIndexEntry(it, Forward(d))
                   ELSE Increment(it, Forward(d))
         IN IF nx.st # "valid" THEN nx ELSE Advance(nx, n - 1, d)

(* IDBKeyRangeData::isExactlyOneKey(): both bounds set, equal and closed. *)
IsExactlyOneKey(r) ==
    r.lower # NoKey /\ r.lower = r.upper /\ ~r.lowerOpen /\ ~r.upperOpen

(* IndexValueStore::lowestKeyWithRecordInRange(): a one-key range asks      *)
(* m_records; any other range takes the first key of m_orderedKeys in it.  *)
LowestKeyWithRecordInRange(r) ==
    IF IsExactlyOneKey(r) THEN (IF records[r.lower] # {} THEN r.lower ELSE NoKey)
    ELSE LowestIteratorInRange(r)

(* IndexValueStore::lowestValueForKey(): the entry's lowest primary key,   *)
(* NoKey (a null pointer) without an entry.                                *)
LowestValueForKey(k) == IF k = NoKey THEN NoKey ELSE FirstOf(records[k], TRUE)

(* The cursor takes the iterator's position; an invalid one clears the    *)
(* position (the end of the cursor).                                      *)
Settle(c, it) == [c EXCEPT !.key = it.key, !.pk = it.pk, !.it = it]
-----------------------------------------------------------------------------
(* IndexValueStore::addRecord(): add the entry if new (a unique store      *)
(* refuses an existing key), add the primary key and the ordered key.     *)
AddRecord(recs, ord, k, p) ==
    IF unique /\ recs[k] # {}
    THEN [records |-> recs, ordered |-> ord]
    ELSE [records |-> [recs EXCEPT ![k] = @ \cup {p}], ordered |-> ord \cup {k}]

\* MemoryIndexCursor::indexValueChanged() and indexRecordsAllChanged().
IndexValueChanged(c, k, p) ==
    IF c.key = k /\ c.pk = p THEN [c EXCEPT !.it = End] ELSE c
IndexRecordsAllChanged(c) == [c EXCEPT !.it = End]

NoCursor == [open |-> FALSE, dir |-> "next",
             range |-> FromKey(NoKey, FALSE), key |-> NoKey, pk |-> NoKey, it |-> End]

Init ==
    /\ unique \in BOOLEAN
    /\ store = FALSE
    /\ records = [k \in Keys |-> {}]
    /\ ordered = {}
    /\ cursor = NoCursor
    /\ crashed = FALSE
    /\ rolledBack = FALSE

(* The MemoryIndexCursor constructor: find the first record from the       *)
(* range's bound in the cursor's direction and take its position; the     *)
(* iterator itself is not kept.                                            *)
OpenCursor ==
    /\ ~crashed /\ ~cursor.open
    /\ \E d \in Dirs, r \in Ranges :
          LET it == IF ~store THEN End
                    ELSE IF Forward(d) THEN FindKey(r.lower, r.lowerOpen, TRUE)
                    ELSE FindKey(r.upper, r.upperOpen, FALSE)
          IN /\ cursor' = [open |-> TRUE, dir |-> d, range |-> r,
                           key |-> it.key, pk |-> it.pk, it |-> End]
             /\ crashed' = (it.st = "crash")
    /\ UNCHANGED <<unique, store, records, ordered, rolledBack>>

(* iterate(key = null, count): restore an invalidated iterator from the   *)
(* position in the cursor's direction (a restored iterator past the       *)
(* position counts as one step), advance count steps, drop a result out   *)
(* of range.  The client only iterates a cursor that has a record.        *)
IterateCount(n) ==
    /\ ~crashed /\ cursor.open /\ cursor.key # NoKey
    /\ LET c == cursor
           d == c.dir
           fwd == Forward(d)
           cnt == IF n = 0 THEN 1 ELSE n
           restored == CASE d = "next" \/ d = "prev" -> FindPrimary(c.key, c.pk, fwd)
                         [] OTHER -> FindKey(c.key, TRUE, fwd)
           start == IF c.it.st = "valid" THEN c.it ELSE restored
           left == IF c.it.st = "valid" THEN cnt ELSE RestoredCount(c, restored, cnt)
           moved == IF start.st = "valid" THEN Advance(start, left, d) ELSE start
           it == IF moved.st = "valid" /\ ~InRange(c.range, moved.key) THEN End ELSE moved
       IN IF ~store /\ c.it.st # "valid"
          THEN /\ cursor' = Settle(c, End) /\ UNCHANGED crashed
          ELSE /\ cursor' = Settle(c, it) /\ crashed' = (it.st = "crash")
    /\ UNCHANGED <<unique, store, records, ordered, rolledBack>>

(* iterate(key, 0), the client's continue(key) past the current key:      *)
(* find again from the current key (the key argument is not used) and     *)
(* take that position.                                                     *)
IterateToKey(k) ==
    /\ ~crashed /\ cursor.open /\ cursor.key # NoKey
    /\ IF Forward(cursor.dir) THEN k > cursor.key ELSE k < cursor.key
    /\ IF ~store
       THEN /\ cursor' = [cursor EXCEPT !.key = NoKey, !.pk = NoKey]
            /\ UNCHANGED crashed
       ELSE LET it == FindKey(cursor.key, FALSE, Forward(cursor.dir))
            IN /\ cursor' = Settle(cursor, it)
               /\ crashed' = (it.st = "crash")
    /\ UNCHANGED <<unique, store, records, ordered, rolledBack>>

-----------------------------------------------------------------------------
(* MemoryIndex::putIndexKey(): create the store if there is none (every    *)
(* cursor is told all records changed), addRecord(), and tell the cursors *)
(* the record at (k, p) changed.                                           *)
PutIndexKey(k, p) ==
    /\ ~crashed
    /\ LET recs == IF store THEN records ELSE [x \in Keys |-> {}]
           ord == IF store THEN ordered ELSE {}
           c == IF store THEN cursor ELSE IndexRecordsAllChanged(cursor)
           res == AddRecord(recs, ord, k, p)
       IN /\ records' = res.records
          /\ ordered' = res.ordered
          /\ cursor' = IndexValueChanged(c, k, p)
    /\ store' = TRUE
    /\ UNCHANGED <<unique, crashed, rolledBack>>

(* IndexValueStore::removeEntriesWithValueKey(), when a record is deleted: *)
(* remove the primary key from every entry (telling the cursors), then    *)
(* erase the entries left empty from both structures.                      *)
RemoveEntriesWithValueKey(p) ==
    /\ ~crashed /\ store
    /\ LET gone == EntryKeysToRemove(records, p)
       IN /\ records' = [k \in Keys |-> records[k] \ {p}]
          /\ ordered' = ordered \ gone
          /\ cursor' = IF \E k \in Keys : p \in records[k] /\ cursor.key = k /\ cursor.pk = p
                        THEN IndexValueChanged(cursor, cursor.key, p) ELSE cursor
    /\ UNCHANGED <<unique, store, crashed, rolledBack>>

(* IndexValueStore::removeRecord(), rolling back an index key just added  *)
(* for record p: the entry is found, removeKey() erases p and reports it, *)
(* and the whole entry is then removed from m_records.                    *)
RemoveRecord(k, p) ==
    /\ ~crashed /\ store
    /\ p \in records[k]
    /\ records' = [records EXCEPT ![k] = {}]
    /\ rolledBack' = TRUE
    /\ UNCHANGED <<unique, store, ordered, cursor, crashed>>

(* MemoryIndex::clearIndexValueStore(): drop the store, tell the cursors. *)
ClearIndexValueStore ==
    /\ ~crashed /\ store
    /\ store' = FALSE
    /\ records' = [k \in Keys |-> {}]
    /\ ordered' = {}
    /\ cursor' = IndexRecordsAllChanged(cursor)
    /\ UNCHANGED <<unique, crashed, rolledBack>>

Next ==
    \/ OpenCursor
    \/ \E n \in Counts : IterateCount(n)
    \/ \E k \in Keys : IterateToKey(k)
    \/ \E k \in Keys, p \in PKs : PutIndexKey(k, p) \/ RemoveRecord(k, p)
    \/ \E p \in PKs : RemoveEntriesWithValueKey(p)
    \/ ClearIndexValueStore

Spec == Init /\ [][Next]_vars
-----------------------------------------------------------------------------
\* The (index key, primary key) pairs the store holds.
Pairs == {q \in Keys \X PKs : q[2] \in records[q[1]]}

AbsIndex == INSTANCE IndexAbstract WITH pairs <- Pairs

\* Record order: by index key, then primary key; Beyond(d, a, b) says a
\* comes after b when iterating in direction d.
Less(a, b) == a[1] < b[1] \/ (a[1] = b[1] /\ a[2] < b[2])
Beyond(d, a, b) == IF Forward(d) THEN Less(b, a) ELSE Less(a, b)

\* Reference iteration: the n-th record of the range after position pos,
\* skipping the other records of a key in the no-duplicate directions.
RECURSIVE NthRecord(_, _, _, _)
NthRecord(pos, n, d, r) ==
    LET C == {q \in Pairs : InRange(r, q[1]) /\ Beyond(d, q, pos) /\
                            (NoDuplicate(d) => q[1] # pos[1])}
    IN IF n = 0 THEN pos
       ELSE IF C = {} THEN <<NoKey, NoKey>>
       ELSE NthRecord(CHOOSE q \in C : \A o \in C \ {q} : Beyond(d, o, q), n - 1, d, r)

Position(c) == <<c.key, c.pk>>

(* The index refines a set of pairs: putIndexKey adds its pair, the        *)
(* rollback through removeRecord() removes its own pair, deleting a record *)
(* removes all pairs of its primary key, clearing removes all, and cursor *)
(* steps change nothing.                                                   *)
RefinesIndexAbstract == AbsIndex!Spec

(* Every index key that has records is in m_orderedKeys, so ordered        *)
(* iteration reaches every record, through any sequence of puts, record   *)
(* deletions that empty some entries and not others, rollbacks and clears.*)
RecordKeysOrdered == \A k \in Keys : records[k] # {} => k \in ordered

(* A counted iterate() never returns the current record again or one      *)
(* behind it (and a no-duplicate cursor moves to another key), also after  *)
(* its iterator was invalidated by changes to the index and restored from  *)
(* the position.                                                           *)
CursorAdvances ==
    [][\A n \in Counts :
          IterateCount(n) /\ ~crashed' /\ cursor'.key # NoKey =>
             /\ Beyond(cursor.dir, Position(cursor'), Position(cursor))
             /\ NoDuplicate(cursor.dir) => cursor'.key # cursor.key]_vars

CrashOnlyAfterRollback ==
    crashed => rolledBack

(* A get() over an index key range (MemoryIndex takes                      *)
(* lowestKeyWithRecordInRange() and then lowestValueForKey() of that key)  *)
(* yields the range's first record in index order, or nothing for an      *)
(* empty range: m_orderedKeys and m_records agree on which keys have       *)
(* records after any puts, record deletions and clears (removeRecord's     *)
(* rollback is the known exception, see RefinesIndexAbstract).             *)
IndexGetFindsFirstRecord ==
    ~rolledBack =>
        \A r \in Ranges :
            LET k == LowestKeyWithRecordInRange(r)
                inRange == {q \in Pairs : InRange(r, q[1])}
            IN IF inRange = {} THEN k = NoKey
               ELSE <<k, LowestValueForKey(k)>> =
                        CHOOSE q \in inRange : \A o \in inRange \ {q} : Less(q, o)

=============================================================================
