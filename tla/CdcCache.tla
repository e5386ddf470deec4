------------------------------ MODULE CdcCache ------------------------------
(***************************************************************************)
(* One table of the in-memory cache (events-processor/cache): a snapshot   *)
(* of the database table, then the change stream of the table replayed     *)
(* from the oldest record the topic still holds.  Every process start uses *)
(* a new consumer group, so the stream overlaps the snapshot, and old      *)
(* versions of rows are applied on top of newer ones.                      *)
(*                                                                         *)
(* The database and Debezium (external) are the sequence of row versions   *)
(* in commit order; position n of the stream is the table after n changes. *)
(***************************************************************************)
EXTENDS Integers, Sequences

CONSTANTS
    Ids,           \* primary keys of rows
    Keys,          \* cache keys, e.g. (organization, code)
    Tables,        \* the kinds of tables to look at
    Resolution,    \* changes per millisecond of updated_at
    MaxChanges,    \* bound: changes of the table
    MaxRestarts    \* bound: restarts of the process

\* keyOf: the keys a row may have.  keepDeleted: the consumer's Delete is
\* deleteWithTTL (subscriptions), else delete.
Table == [keyOf : [Ids -> SUBSET Keys], keepDeleted : BOOLEAN]

ASSUME CdcAssumption ==
    /\ Tables \subseteq Table
    \* The key of a subscription holds its id.
    /\ \A t \in Tables : t.keepDeleted =>
          \A i, j \in Ids : i # j => t.keyOf[i] \cap t.keyOf[j] = {}
    /\ Resolution \in Nat \ {0}
    /\ MaxChanges \in Nat /\ MaxRestarts \in Nat

Version == [id : Ids, key : Keys, updatedAt : 1 .. MaxChanges,
            deleted : BOOLEAN]
Entry == [row : Version, ttl : BOOLEAN]

VARIABLES
    table,       \* the table the cache follows
    changes,     \* the row versions in commit order
    reader,      \* "off", "loaded" (snapshot done) or "consuming"
    snapshotAt,  \* changes the snapshot contains
    position,    \* changes consumed from the stream
    cache,       \* cache[k]: the entry under k: a set of at most one
    missed,      \* keys whose last operation on the cache failed
    expired,     \* keys whose terminated row was too old to keep
    restarts

process == <<reader, snapshotAt, position, cache, missed, expired>>
vars == <<table, changes, process, restarts>>

now == Len(changes)

Init ==
    /\ table \in Tables
    /\ changes = <<>>
    /\ reader = "off"
    /\ snapshotAt = 0
    /\ position = 0
    /\ cache = [k \in Keys |-> {}]
    /\ missed = {}
    /\ expired = {}
    /\ restarts = 0

-----------------------------------------------------------------------------
(* The table after n changes                                               *)

\* The last version of every row.
rowsAt(n) ==
    {changes[i] : i \in {j \in 1 .. n :
        \A l \in j + 1 .. n : changes[l].id # changes[j].id}}

\* The rows a cache of this table should hold under a key: the live one, and
\* for subscriptions the terminated one too.
wanted(n, k) ==
    {v \in rowsAt(n) : v.key = k /\ (table.keepDeleted \/ ~v.deleted)}

-----------------------------------------------------------------------------
(* The application changes the table                                       *)

change(id, key, deleted) ==
    /\ now < MaxChanges
    /\ changes' = Append(changes,
                         [id |-> id, key |-> key, updatedAt |-> now + 1,
                          deleted |-> deleted])
    /\ UNCHANGED <<table, process, restarts>>

\* The key is unique among the rows that are not deleted.
Insert(id, key) ==
    /\ key \in table.keyOf[id]
    /\ \A v \in rowsAt(now) : v.id # id /\ (v.key = key => v.deleted)
    /\ change(id, key, FALSE)

\* A terminated subscription may still be updated.
Update(v) ==
    (table.keepDeleted \/ ~v.deleted) /\ change(v.id, v.key, v.deleted)

SoftDelete(v) == ~v.deleted /\ change(v.id, v.key, TRUE)

\* A column of the key changes, such as the code of a metric.
Rekey(v, key) ==
    /\ ~v.deleted
    /\ key \in table.keyOf[v.id] \ {v.key}
    /\ \A w \in rowsAt(now) : w.key = key => w.deleted
    /\ change(v.id, key, FALSE)

-----------------------------------------------------------------------------
(* The process                                                             *)

\* UnixMilli of updated_at, which has microseconds.
GetUpdatedAt(v) == v.updatedAt \div Resolution

\* StreamRows hands over every row of the query; an error on the way, in the
\* query, a scan or the iteration, leaves nothing of what was read.
GetAllWithStreaming(rows) == {rows, {}}

setItems(list) ==
    [k \in Keys |-> {[row |-> v, ttl |-> FALSE] : v \in {w \in list : w.key = k}}]

\* Every row the query returns is set under its key, without a TTL: all but
\* the terminated ones older than a month.  Items that cannot be set are
\* skipped, and nobody looks at the result of a query that fails.
LoadSnapshot ==
    /\ reader = "off"
    /\ LET rows == UNION {wanted(now, k) : k \in Keys} IN
       \E old \in SUBSET {v \in rows : v.deleted} :
       \E list \in GetAllWithStreaming(rows \ old) :
       \E set \in SUBSET list :
          /\ cache' = setItems(set)
          /\ missed' = {v.key : v \in (rows \ old) \ set}
          /\ expired' = {v.key : v \in old}
    /\ snapshotAt' = now
    /\ reader' = "loaded"
    /\ UNCHANGED <<table, changes, position, restarts>>

\* Plausible slip: consumption starts at the end of the topic.
startGenericConsumer_fromEnd ==
    /\ reader = "loaded"
    /\ position' = now
    /\ reader' = "consuming"
    /\ UNCHANGED <<table, changes, snapshotAt, cache, missed, expired,
                   restarts>>

\* The consumer starts at the oldest record of the topic.  The retention is
\* far longer than a start, so no record after the snapshot is gone.
startGenericConsumer ==
    /\ reader = "loaded"
    /\ position' \in 0 .. snapshotAt
    /\ reader' = "consuming"
    /\ UNCHANGED <<table, changes, snapshotAt, cache, missed, expired,
                   restarts>>

put(k, entries) ==
    /\ cache' = [cache EXCEPT ![k] = entries]
    /\ missed' = missed \ {k}
    /\ expired' = expired \ {k}

\* Plausible slip: the ids are not compared.
deleteRecord_anyId(v) ==
    put(v.key, IF table.keepDeleted THEN {[row |-> v, ttl |-> TRUE]} ELSE {})

\* Plausible slip: terminated subscriptions are removed at once.
deleteRecord_hard(v) ==
    IF \E e \in cache[v.key] : e.row.id = v.id
    THEN put(v.key, {})
    ELSE UNCHANGED <<cache, missed, expired>>

\* Plausible slip: the Delete of subscriptions is configured for every table.
deleteRecord_keepsAll(v) ==
    IF \E e \in cache[v.key] : e.row.id = v.id
    THEN put(v.key, {[row |-> v, ttl |-> TRUE]})
    ELSE UNCHANGED <<cache, missed, expired>>

\* A deleted row removes the entry of the same row, or gives it a TTL.
deleteRecord(v) ==
    IF \E e \in cache[v.key] : e.row.id = v.id
    THEN put(v.key, IF table.keepDeleted
                    THEN {[row |-> v, ttl |-> TRUE]} ELSE {})
    ELSE UNCHANGED <<cache, missed, expired>>

\* Plausible slip: a message always wins.
updateRecord_unordered(v) == put(v.key, {[row |-> v, ttl |-> FALSE]})

\* A live row is set unless the cached version is as recent.
updateRecord(v) ==
    IF \E e \in cache[v.key] : GetUpdatedAt(e.row) >= GetUpdatedAt(v)
    THEN UNCHANGED <<cache, missed, expired>>
    ELSE put(v.key, {[row |-> v, ttl |-> FALSE]})

\* One record of the stream; a record that cannot be read or applied is
\* captured and never tried again.
processRecord ==
    /\ reader = "consuming"
    /\ position < now
    /\ LET v == changes[position + 1] IN
          \/ IF v.deleted THEN deleteRecord(v) ELSE updateRecord(v)
          \/ /\ missed' = missed \cup {v.key}
             /\ UNCHANGED <<cache, expired>>
    /\ position' = position + 1
    /\ UNCHANGED <<table, changes, reader, snapshotAt, restarts>>

\* Badger drops an entry whose TTL has passed.
expireEntry(k) ==
    /\ \E e \in cache[k] : e.ttl
    /\ cache' = [cache EXCEPT ![k] = {}]
    /\ expired' = expired \cup {k}
    /\ UNCHANGED <<table, changes, reader, snapshotAt, position, missed,
                   restarts>>

\* The cache is in memory: a new process starts with an empty one.
Restart ==
    /\ reader # "off"
    /\ restarts < MaxRestarts
    /\ reader' = "off"
    /\ snapshotAt' = 0
    /\ position' = 0
    /\ cache' = [k \in Keys |-> {}]
    /\ missed' = {}
    /\ expired' = {}
    /\ restarts' = restarts + 1
    /\ UNCHANGED <<table, changes>>

-----------------------------------------------------------------------------

tableStep ==
    \/ \E id \in Ids, key \in Keys : Insert(id, key)
    \/ \E v \in rowsAt(now) :
          Update(v) \/ SoftDelete(v) \/ \E key \in Keys : Rekey(v, key)

Next ==
    \/ tableStep
    \/ LoadSnapshot
    \/ startGenericConsumer
    \/ processRecord
    \/ \E k \in Keys : expireEntry(k)
    \/ Restart

\* The process starts and its consumer goroutine runs; nothing is assumed of
\* the application, the TTL and the restarts.
Fairness ==
    /\ WF_vars(LoadSnapshot)
    /\ WF_vars(startGenericConsumer)
    /\ WF_vars(processRecord)

Spec == Init /\ [][Next]_vars /\ Fairness

-----------------------------------------------------------------------------
(* Properties                                                              *)

\* Types; the cache holds at most one entry per key.
TypeOK ==
    /\ table \in Tables
    /\ changes \in Seq(Version) /\ Len(changes) <= MaxChanges
    /\ reader \in {"off", "loaded", "consuming"}
    /\ snapshotAt \in 0 .. now /\ position \in 0 .. now
    /\ cache \in [Keys -> SUBSET Entry]
    /\ \A k \in Keys : \A d, e \in cache[k] : d = e
    /\ missed \in SUBSET Keys /\ expired \in SUBSET Keys
    /\ restarts \in 0 .. MaxRestarts

cachedRows(k) == {e.row : e \in cache[k]}

\* A version as the consumer tells versions apart.
toMillisecond(v) == [v EXCEPT !.updatedAt = GetUpdatedAt(v)]

sameRows(S, T) == {toMillisecond(v) : v \in S} = {toMillisecond(v) : v \in T}

\* The last of the first n changes that was made under k, if any.
lastUnder(n, k) ==
    {changes[i] : i \in {j \in 1 .. n : changes[j].key = k /\
        \A l \in j + 1 .. n : changes[l].key # k}}

\* The row that had k last has another key now.
abandoned(n, k) ==
    \E v \in lastUnder(n, k) : \E w \in rowsAt(n) : w.id = v.id /\ w.key # k

\* A row left k and another one took it within a millisecond: the consumer
\* takes the first version of the second for an old one and skips it.  (The
\* properties except such a key for good, the code until its next update.)
contested(n, k) ==
    \E i, j \in 1 .. n :
        /\ changes[i].key = k /\ ~changes[i].deleted
        /\ changes[j].key = k /\ ~changes[j].deleted
        /\ changes[i].id # changes[j].id
        /\ GetUpdatedAt(changes[i]) = GetUpdatedAt(changes[j])

\* What the cache holds under k is what the table held after n changes, but
\* for entries that ran out of their TTL, and versions of one millisecond.
asOf(n, k) ==
    IF k \in expired
    THEN cache[k] = {} /\ \A v \in wanted(n, k) : v.deleted
    ELSE sameRows(cachedRows(k), wanted(n, k))

\* Nothing removes the entry of a row that left k: it may be there, as it was
\* when the row left.
current(n, k) ==
    \/ contested(n, k)
    \/ asOf(n, k)
    \/ /\ k \notin expired /\ abandoned(n, k)
       /\ sameRows(cachedRows(k), lastUnder(n, k))

\* Once the consumer has passed the changes the snapshot contains, the cache is
\* the table as of the stream position: replaying old versions over a newer
\* snapshot neither resurrects a deleted row nor loses or downgrades a live
\* one, however keys are reused by other rows.
PrefixConsistent ==
    reader = "consuming" /\ position >= snapshotAt =>
        \A k \in Keys \ missed : current(position, k)

\* Within one process no entry is replaced by an older version of a live row,
\* although the stream replays versions older than the snapshot's.  (The delete
\* path has no such check: a terminated row may fall back for a while.)
NoDowngrade ==
    [][restarts' = restarts =>
          \A k \in Keys : \A d \in cachedRows(k), e \in cachedRows(k)' :
              ~e.deleted => d.updatedAt <= e.updatedAt]_vars

\* Within one process an entry that is up to date with the table stays: no
\* replayed delete or update removes or replaces it, not even one of another
\* row that had the same key before, so events never miss a live row that is
\* already cached.
CurrentStays ==
    [][restarts' = restarts =>
          \A k \in Keys : \A v \in cachedRows(k) \cap wanted(now, k) :
              ~v.deleted => v \in cachedRows(k)']_vars

\* The cache follows the table: when the application stops changing rows, the
\* cache ends up as the table, except for keys whose update failed.
EventuallyCurrent ==
    <>[](\A k \in Keys \ missed : current(now, k))

-----------------------------------------------------------------------------
(* The inductive invariant behind the safety properties                    *)

isLast(i, n) == \A l \in i + 1 .. n : changes[l].id # changes[i].id

\* The table: versions are stamped in commit order, a row has a last version
\* and stays deleted, and no change is made under the key of another live row.
TableInv ==
    \A i \in 1 .. now :
        /\ changes[i].updatedAt = i
        /\ changes[i].key \in table.keyOf[changes[i].id]
        /\ \E j \in i .. now : changes[j].id = changes[i].id /\ isLast(j, now)
        /\ \A l \in i + 1 .. now :
              /\ changes[l].id = changes[i].id /\ changes[i].deleted =>
                    changes[l].deleted
              /\ isLast(i, l) /\ ~changes[i].deleted =>
                    changes[l].key # changes[i].key

\* The cache: it is empty before the snapshot, and entries with a TTL are of
\* deleted rows.
CacheInv ==
    /\ reader = "off" => \A k \in Keys : cache[k] = {}
    /\ \A k \in Keys : \A e \in cache[k] : e.ttl => e.row.deleted

\* A row is deleted under the key it has.
DeletedInPlace ==
    \A i \in 1 .. now : changes[i].deleted =>
        \E j \in 1 .. i - 1 :
            /\ isLast(j, i - 1) /\ (table.keepDeleted \/ ~changes[j].deleted)
            /\ changes[j].id = changes[i].id /\ changes[j].key = changes[i].key

\* Only the cache of subscriptions has deleted rows.
LiveOnly ==
    ~table.keepDeleted =>
        expired = {} /\ \A k \in Keys : \A e \in cache[k] : ~e.row.deleted

\* Under every key the cache is as the snapshot, until the replayed stream
\* writes there, and as the stream from then on.
Replayed ==
    reader # "off" => \A k \in Keys \ missed :
        \/ position <= snapshotAt /\ asOf(snapshotAt, k)
        \/ reader = "consuming" /\ current(position, k)

\* What every change of the table and every step of the cache preserves, first
\* by themselves and then together.
StateInv == TypeOK /\ TableInv /\ CacheInv
IInv == StateInv /\ DeletedInPlace /\ LiveOnly /\ Replayed
=============================================================================
