--------------------------- MODULE CdcCacheProofs ---------------------------
(***************************************************************************)
(* Proofs about CdcCache, for any rows, keys, tables and resolution of the *)
(* clock: replaying the change stream over the snapshot neither downgrades *)
(* an entry to an older live version nor removes one that is up to date,   *)
(* and ends with the table as of the stream.                               *)
(***************************************************************************)
EXTENDS CdcCache, TLAPS

USE DEF process, now

-----------------------------------------------------------------------------
(* The table                                                               *)

\* The rows are the last versions.
LEMMA RowsAt ==
    ASSUME NEW n, NEW v
    PROVE  v \in rowsAt(n) <=> \E i \in 1 .. n : isLast(i, n) /\ v = changes[i]
BY DEF rowsAt, isLast

\* Later versions have later milliseconds, or the same.
LEMMA MillisecondsInOrder ==
    ASSUME NEW s \in Nat, NEW t \in Nat, s <= t
    PROVE  /\ s \div Resolution \in Int /\ t \div Resolution \in Int
           /\ s \div Resolution <= t \div Resolution
<1>. DEFINE p == s \div Resolution
            q == t \div Resolution
<1>1. Resolution \in Nat /\ Resolution > 0
    BY CdcAssumption
<1>2. /\ p \in Int /\ q \in Int
      /\ Resolution * p <= s /\ s < Resolution * p + Resolution
      /\ Resolution * q <= t /\ t < Resolution * q + Resolution
    BY <1>1
<1>. HIDE DEF p, q
<1>3. ASSUME q < p PROVE FALSE
    <2>1. p - q - 1 \in Nat
        BY <1>2, <1>3
    <2>2. Resolution * (p - q - 1) \in Nat
        BY <1>1, <2>1
    <2>3. Resolution * (p - q - 1) = Resolution * p - Resolution * q - Resolution
        BY <1>1, <1>2
    <2>4. Resolution * p \in Int /\ Resolution * q \in Int
        BY <1>1, <1>2
    <2>. QED  BY <1>1, <1>2, <2>2, <2>3, <2>4
<1>4. p <= q
    BY <1>2, <1>3
<1>. QED  BY <1>2, <1>4 DEF p, q

\* An entry is made of a version and of whether it has a TTL.
LEMMA EntryFields ==
    ASSUME NEW v \in Version, NEW t \in BOOLEAN
    PROVE  /\ [row |-> v, ttl |-> t] \in Entry
           /\ [row |-> v, ttl |-> t].row = v
           /\ [row |-> v, ttl |-> t].ttl = t
BY DEF Entry

\* As long as a row keeps a key, nothing else is written under it.
LEMMA KeyIsTaken ==
    ASSUME StateInv, NEW n \in 0 .. now, NEW i \in 1 .. n, isLast(i, n),
           table.keepDeleted \/ ~changes[i].deleted, NEW j \in i + 1 .. n
    PROVE  changes[j].key # changes[i].key
<1>. SUFFICES ASSUME changes[j].key = changes[i].key PROVE FALSE
    OBVIOUS
<1>1. now \in Nat /\ table \in Tables /\ i \in 1 .. now /\ j \in 1 .. now
    BY DEF StateInv, TypeOK
<1>2. changes[i].id # changes[j].id /\ isLast(i, j) /\ j \in i + 1 .. now
    BY <1>1 DEF isLast
<1>3. changes[i].deleted
    BY <1>1, <1>2 DEF StateInv, TableInv
<1>4. table.keepDeleted
    BY <1>3
<1>5. changes[i] \in Version /\ changes[j] \in Version
    BY <1>1 DEF StateInv, TypeOK
<1>6. changes[i].id \in Ids /\ changes[j].id \in Ids
    BY <1>5 DEF Version
<1>7. /\ changes[i].key \in table.keyOf[changes[i].id]
      /\ changes[i].key \in table.keyOf[changes[j].id]
    BY <1>1 DEF StateInv, TableInv
<1>. QED  BY <1>1, <1>2, <1>4, <1>6, <1>7, CdcAssumption

\* Two rows a cache of this table should hold under a key are the same.
LEMMA OneRowPerKey ==
    ASSUME StateInv, NEW n \in 0 .. now, NEW k \in Keys,
           NEW v \in wanted(n, k), NEW w \in wanted(n, k)
    PROVE  v = w
<1>1. PICK i \in 1 .. n : isLast(i, n) /\ v = changes[i]
    BY RowsAt DEF wanted
<1>2. PICK j \in 1 .. n : isLast(j, n) /\ w = changes[j]
    BY RowsAt DEF wanted
<1>3. /\ v.key = k /\ (table.keepDeleted \/ ~v.deleted)
      /\ w.key = k /\ (table.keepDeleted \/ ~w.deleted)
    BY DEF wanted
<1>4. now \in Nat
    BY DEF StateInv, TypeOK
<1>5. ~(i < j) /\ ~(j < i)
    BY <1>1, <1>2, <1>3, <1>4, KeyIsTaken
<1>6. i = j
    BY <1>4, <1>5
<1>. QED  BY <1>1, <1>2, <1>6

-----------------------------------------------------------------------------
(* StateInv is inductive                                                   *)

\* The table and the cache are empty at the start.
LEMMA Init_StateInv == Init => StateInv
<1>. SUFFICES ASSUME Init PROVE StateInv
    OBVIOUS
<1>1. changes \in Seq(Version) /\ Len(changes) = 0
    BY DEF Init
<1>2. TypeOK
    BY <1>1, CdcAssumption DEF Init, TypeOK
<1>3. TableInv /\ CacheInv
    BY <1>1 DEF Init, TableInv, CacheInv
<1>. QED  BY <1>2, <1>3 DEF StateInv

\* A change of the application appends a version that respects the rows there
\* are: it does not undelete its row, and takes no key of another live row.
LEMMA Change_StateInv ==
    ASSUME StateInv, NEW id \in Ids, NEW key \in Keys, NEW deleted \in BOOLEAN,
           change(id, key, deleted), key \in table.keyOf[id],
           \A v \in rowsAt(now) : v.id = id /\ v.deleted => deleted,
           \A v \in rowsAt(now) : v.id # id /\ ~v.deleted => v.key # key
    PROVE  StateInv'
<1>. DEFINE new == [id |-> id, key |-> key, updatedAt |-> now + 1,
                    deleted |-> deleted]
<1>0. PICK n \in Nat : n = Len(changes)
    BY DEF StateInv, TypeOK
<1>1. /\ n = now /\ n < MaxChanges /\ MaxChanges \in Nat
      /\ changes' = Append(changes, new)
      /\ UNCHANGED <<table, process, restarts>>
    BY <1>0, CdcAssumption DEF change
<1>2. new \in Version
    BY <1>1 DEF Version
<1>3. /\ changes' \in Seq(Version) /\ Len(changes') = n + 1
      /\ changes'[n + 1] = new
      /\ \A i \in 1 .. n : changes'[i] = changes[i]
    BY <1>1, <1>2 DEF StateInv, TypeOK
<1>4. /\ new.id = id /\ new.key = key /\ new.updatedAt = n + 1
      /\ new.deleted = deleted
    BY <1>1
<1>. HIDE DEF new
<1>5. TypeOK'
    BY <1>1, <1>3 DEF StateInv, TypeOK
<1>6. CacheInv'
    BY <1>1 DEF StateInv, CacheInv
<1>7. \A i \in 1 .. n + 1 : i \in 1 .. n \/ i = n + 1
    BY <1>1
<1>8. ASSUME NEW i \in 1 .. n, NEW m \in i .. n
      PROVE  isLast(i, m)' <=> isLast(i, m)
    BY <1>1, <1>3 DEF isLast
<1>9. ASSUME NEW i \in 1 .. n
      PROVE  isLast(i, n + 1)' <=> isLast(i, n) /\ id # changes[i].id
    <2>1. \A l \in i + 1 .. n + 1 : l \in i + 1 .. n \/ l = n + 1
        BY <1>1
    <2>2. n + 1 \in i + 1 .. n + 1 /\ \A l \in i + 1 .. n : l \in 1 .. n
        BY <1>1
    <2>. QED  BY <1>1, <1>3, <1>4, <2>1, <2>2 DEF isLast
<1>10. isLast(n + 1, n + 1)'
    BY <1>1 DEF isLast
<1>11. ASSUME NEW i \in 1 .. n
       PROVE  /\ changes'[i].updatedAt = i
              /\ changes'[i].key \in table.keyOf[changes'[i].id]
              /\ \E j \in i .. n + 1 :
                    changes'[j].id = changes'[i].id /\ isLast(j, n + 1)'
              /\ \A l \in i + 1 .. n + 1 :
                    /\ changes'[l].id = changes'[i].id /\ changes'[i].deleted =>
                          changes'[l].deleted
                    /\ isLast(i, l)' /\ ~changes'[i].deleted =>
                          changes'[l].key # changes'[i].key
    <2>1. /\ changes[i].updatedAt = i
          /\ changes[i].key \in table.keyOf[changes[i].id]
          /\ \A l \in i + 1 .. n :
                /\ changes[l].id = changes[i].id /\ changes[i].deleted =>
                      changes[l].deleted
                /\ isLast(i, l) /\ ~changes[i].deleted =>
                      changes[l].key # changes[i].key
        BY <1>1 DEF StateInv, TableInv
    <2>2. PICK j \in i .. n : changes[j].id = changes[i].id /\ isLast(j, n)
        BY <1>1 DEF StateInv, TableInv
    <2>3. j \in 1 .. n /\ j \in i .. n + 1 /\ n + 1 \in i .. n + 1
        BY <1>1
    <2>4. changes[j] \in rowsAt(now)
        BY <1>1, <2>2, <2>3, RowsAt
    <2>5. \E m \in i .. n + 1 :
             changes'[m].id = changes'[i].id /\ isLast(m, n + 1)'
        <3>1. CASE changes[i].id = id
            BY <1>3, <1>4, <1>10, <2>3, <3>1
        <3>2. CASE changes[i].id # id
            BY <1>3, <1>9, <2>2, <2>3, <3>2
        <3>. QED  BY <3>1, <3>2
    <2>6. ASSUME NEW l \in i + 1 .. n
          PROVE  /\ changes'[l].id = changes'[i].id /\ changes'[i].deleted =>
                       changes'[l].deleted
                 /\ isLast(i, l)' /\ ~changes'[i].deleted =>
                       changes'[l].key # changes'[i].key
        <3>1. l \in 1 .. n /\ l \in i .. n
            BY <1>1
        <3>. QED  BY <1>3, <1>8, <2>1, <3>1
    <2>7. id = changes[i].id /\ changes[i].deleted => deleted
        <3>1. changes[i].deleted => changes[j].deleted
            <4>1. i = j \/ j \in i + 1 .. n
                BY <1>1
            <4>. QED  BY <2>1, <2>2, <4>1
        <3>. QED  BY <2>2, <2>4, <3>1
    <2>8. isLast(i, n + 1)' /\ ~changes[i].deleted => key # changes[i].key
        BY <1>1, <1>9, RowsAt
    <2>9. \A l \in i + 1 .. n + 1 : l \in i + 1 .. n \/ l = n + 1
        BY <1>1
    <2>10. /\ changes'[n + 1].id = changes'[i].id /\ changes'[i].deleted =>
                 changes'[n + 1].deleted
           /\ isLast(i, n + 1)' /\ ~changes'[i].deleted =>
                 changes'[n + 1].key # changes'[i].key
        BY <1>3, <1>4, <2>7, <2>8
    <2>. QED  BY <1>3, <2>1, <2>5, <2>6, <2>9, <2>10
<1>12. /\ changes'[n + 1].updatedAt = n + 1
       /\ changes'[n + 1].key \in table.keyOf[changes'[n + 1].id]
       /\ n + 1 \in n + 1 .. n + 1
       /\ \A l \in (n + 1) + 1 .. n + 1 : FALSE
    BY <1>1, <1>3, <1>4
<1>13. TableInv'
    <2>1. Len(changes') = n + 1 /\ table' = table
        BY <1>1, <1>3
    <2>2. \A i \in 1 .. n + 1 :
             /\ changes'[i].updatedAt = i
             /\ changes'[i].key \in table.keyOf[changes'[i].id]
             /\ \E j \in i .. n + 1 :
                   changes'[j].id = changes'[i].id /\ isLast(j, n + 1)'
             /\ \A l \in i + 1 .. n + 1 :
                   /\ changes'[l].id = changes'[i].id /\ changes'[i].deleted =>
                         changes'[l].deleted
                   /\ isLast(i, l)' /\ ~changes'[i].deleted =>
                         changes'[l].key # changes'[i].key
        BY <1>7, <1>10, <1>11, <1>12
    <2>3. \A j : isLast(j, n + 1)' <=> isLast(j, now)'
        BY <2>1 DEF isLast
    <2>4. \A i \in 1 .. Len(changes') :
             /\ changes'[i].updatedAt = i
             /\ changes'[i].key \in table'.keyOf[changes'[i].id]
             /\ \E j \in i .. Len(changes') :
                   changes'[j].id = changes'[i].id /\ isLast(j, now)'
             /\ \A l \in i + 1 .. Len(changes') :
                   /\ changes'[l].id = changes'[i].id /\ changes'[i].deleted =>
                         changes'[l].deleted
                   /\ isLast(i, l)' /\ ~changes'[i].deleted =>
                         changes'[l].key # changes'[i].key
        BY <2>1, <2>2, <2>3
    <2>. QED  BY <2>4 DEF TableInv
<1>. QED  BY <1>5, <1>6, <1>13 DEF StateInv

\* The four changes of the application are such changes.
LEMMA TableStep_StateInv ==
    ASSUME StateInv, tableStep
    PROVE  StateInv'
<1>1. /\ \A v \in rowsAt(now) : /\ v \in Version
                                /\ v.key \in table.keyOf[v.id]
      /\ \A v, w \in rowsAt(now) : v.id = w.id => v = w
    <2>1. ASSUME NEW v \in rowsAt(now)
          PROVE  v \in Version /\ v.key \in table.keyOf[v.id]
        <3>1. PICK i \in 1 .. now : v = changes[i]
            BY RowsAt
        <3>. QED  BY <3>1 DEF StateInv, TypeOK, TableInv
    <2>2. ASSUME NEW v \in rowsAt(now), NEW w \in rowsAt(now), v.id = w.id
          PROVE  v = w
        <3>1. PICK i \in 1 .. now : isLast(i, now) /\ v = changes[i]
            BY RowsAt
        <3>2. PICK j \in 1 .. now : isLast(j, now) /\ w = changes[j]
            BY RowsAt
        <3>3. i = j
            BY <2>2, <3>1, <3>2 DEF StateInv, TypeOK, isLast
        <3>. QED  BY <3>1, <3>2, <3>3
    <2>. QED  BY <2>1, <2>2
<1>2. ASSUME NEW v \in rowsAt(now), NEW w \in rowsAt(now),
             table.keepDeleted \/ ~v.deleted, v.id # w.id, ~w.deleted
      PROVE  w.key # v.key
    <2>. SUFFICES ASSUME w.key = v.key PROVE FALSE
        OBVIOUS
    <2>1. v.key \in Keys /\ v \in wanted(now, v.key) /\ w \in wanted(now, v.key)
        BY <1>1, <1>2 DEF wanted, Version
    <2>. QED  BY <1>2, <2>1, OneRowPerKey
<1>3. ASSUME NEW id \in Ids, NEW key \in Keys, Insert(id, key) PROVE StateInv'
    BY <1>3, Change_StateInv DEF Insert
<1>4. ASSUME NEW v \in rowsAt(now), Update(v) PROVE StateInv'
    <2>1. v.id \in Ids /\ v.key \in Keys /\ v.deleted \in BOOLEAN
        BY <1>1 DEF Version
    <2>. QED  BY <1>1, <1>2, <1>4, <2>1, Change_StateInv DEF Update
<1>5. ASSUME NEW v \in rowsAt(now), SoftDelete(v) PROVE StateInv'
    <2>1. v.id \in Ids /\ v.key \in Keys /\ v.deleted \in BOOLEAN
        BY <1>1 DEF Version
    <2>2. ~v.deleted /\ change(v.id, v.key, TRUE)
        BY <1>5 DEF SoftDelete
    <2>3. \A w \in rowsAt(now) : w.id # v.id /\ ~w.deleted => w.key # v.key
        BY <1>2, <2>2
    <2>4. v.key \in table.keyOf[v.id]
        BY <1>1
    <2>. QED  BY <2>1, <2>2, <2>3, <2>4, Change_StateInv
<1>6. ASSUME NEW v \in rowsAt(now), NEW key \in Keys, Rekey(v, key) PROVE StateInv'
    <2>1. v.id \in Ids /\ v.key \in Keys /\ v.deleted \in BOOLEAN
        BY <1>1 DEF Version
    <2>. QED  BY <1>1, <1>6, <2>1, Change_StateInv DEF Rekey
<1>. QED  BY <1>3, <1>4, <1>5, <1>6 DEF tableStep

\* A step of the process leaves the table alone.
LEMMA SameTable ==
    ASSUME TableInv, UNCHANGED <<table, changes>>
    PROVE  TableInv'
BY DEF TableInv, isLast

\* The snapshot holds one entry per key, without a TTL.
LEMMA LoadSnapshot_StateInv ==
    ASSUME StateInv, LoadSnapshot
    PROVE  StateInv'
<1>. DEFINE rows == UNION {wanted(now, k) : k \in Keys}
<1>1. PICK old \in SUBSET {v \in rows : v.deleted} :
         \E list \in GetAllWithStreaming(rows \ old) : \E set \in SUBSET list :
             /\ cache' = setItems(set)
             /\ missed' = {v.key : v \in (rows \ old) \ set}
             /\ expired' = {v.key : v \in old}
    BY DEF LoadSnapshot
<1>2. PICK set \in SUBSET rows :
         /\ cache' = setItems(set)
         /\ missed' = {v.key : v \in (rows \ old) \ set}
         /\ expired' = {v.key : v \in old}
    BY <1>1 DEF GetAllWithStreaming
<1>3. /\ snapshotAt' = now /\ reader' = "loaded"
      /\ UNCHANGED <<table, changes, position, restarts>>
    BY DEF LoadSnapshot
<1>4. ASSUME NEW v \in rows
      PROVE  v \in Version /\ v.key \in Keys /\ v \in wanted(now, v.key)
    <2>1. v \in rowsAt(now) /\ v.key \in Keys /\ v \in wanted(now, v.key)
        BY DEF wanted
    <2>2. PICK i \in 1 .. now : v = changes[i]
        BY <2>1, RowsAt
    <2>. QED  BY <2>1, <2>2 DEF StateInv, TypeOK
<1>. HIDE DEF rows
<1>5. ASSUME NEW k \in Keys, NEW e \in cache'[k]
      PROVE  /\ e.row \in set /\ e.row.key = k /\ e.ttl = FALSE
             /\ e = [row |-> e.row, ttl |-> FALSE]
    BY <1>2 DEF setItems
<1>6. ASSUME NEW k \in Keys, NEW d \in cache'[k], NEW e \in cache'[k]
      PROVE  d = e
    <2>1. d.row \in wanted(now, k) /\ e.row \in wanted(now, k)
        BY <1>4, <1>5
    <2>2. d.row = e.row
        BY <2>1, OneRowPerKey
    <2>. QED  BY <1>5, <2>2
<1>7. cache' \in [Keys -> SUBSET Entry]
    <2>1. ASSUME NEW k \in Keys, NEW e \in cache'[k] PROVE e \in Entry
        <3>1. e.row \in Version /\ e = [row |-> e.row, ttl |-> FALSE]
            BY <1>4, <1>5
        <3>. QED  BY <3>1, EntryFields
    <2>. QED  BY <1>2, <2>1 DEF setItems
<1>8. missed' \in SUBSET Keys /\ expired' \in SUBSET Keys
    BY <1>1, <1>2, <1>4
<1>9. TypeOK'
    BY <1>3, <1>6, <1>7, <1>8 DEF StateInv, TypeOK
<1>10. CacheInv'
    BY <1>3, <1>5 DEF CacheInv
<1>. QED  BY <1>3, <1>9, <1>10, SameTable DEF StateInv

\* The consumer starts somewhere in the history.
LEMMA StartGenericConsumer_StateInv ==
    ASSUME StateInv, startGenericConsumer
    PROVE  StateInv'
<1>1. TypeOK' /\ CacheInv'
    BY DEF StateInv, TypeOK, CacheInv, startGenericConsumer
<1>. QED  BY <1>1, SameTable DEF StateInv, startGenericConsumer

\* What put leaves under a key is one entry or none.
LEMMA Put ==
    ASSUME StateInv, NEW k \in Keys, NEW entries \in SUBSET Entry,
           \A d, e \in entries : d = e,
           \A e \in entries : e.ttl => e.row.deleted,
           put(k, entries)
    PROVE  /\ cache' \in [Keys -> SUBSET Entry]
           /\ \A l \in Keys : \A d, e \in cache'[l] : d = e
           /\ \A l \in Keys : \A e \in cache'[l] : e.ttl => e.row.deleted
           /\ missed' \in SUBSET Keys /\ expired' \in SUBSET Keys
           /\ cache'[k] = entries
           /\ \A l \in Keys \ {k} : cache'[l] = cache[l]
<1>1. /\ cache' = [cache EXCEPT ![k] = entries]
      /\ missed' = missed \ {k} /\ expired' = expired \ {k}
    BY DEF put
<1>2. /\ cache \in [Keys -> SUBSET Entry]
      /\ \A l \in Keys : \A d, e \in cache[l] : d = e
      /\ \A l \in Keys : \A e \in cache[l] : e.ttl => e.row.deleted
      /\ missed \in SUBSET Keys /\ expired \in SUBSET Keys
    BY DEF StateInv, TypeOK, CacheInv
<1>3. /\ cache' \in [Keys -> SUBSET Entry] /\ cache'[k] = entries
      /\ \A l \in Keys \ {k} : cache'[l] = cache[l]
    BY <1>1, <1>2
<1>. QED  BY <1>1, <1>2, <1>3

\* What a record of the stream may do to the cache: nothing; for a deleted
\* row, drop the entry of the same row or give it a TTL; for a live one,
\* replace an entry of an earlier millisecond.
LEMMA RecordApplied ==
    ASSUME StateInv, processRecord
    PROVE  \E v \in Version :
              /\ position + 1 \in 1 .. now /\ v = changes[position + 1]
              /\ \/ UNCHANGED cache
                 \/ \E entries \in SUBSET Entry :
                       /\ put(v.key, entries)
                       /\ v.deleted
                       /\ \E e \in cache[v.key] : e.row.id = v.id
                       /\ \A e \in entries :
                             e = [row |-> v, ttl |-> TRUE]
                 \/ /\ put(v.key, {[row |-> v, ttl |-> FALSE]})
                    /\ ~v.deleted
                    /\ \A e \in cache[v.key] :
                          ~(GetUpdatedAt(e.row) >= GetUpdatedAt(v))
<1>. DEFINE v == changes[position + 1]
<1>1. position + 1 \in 1 .. now
    BY DEF StateInv, TypeOK, processRecord
<1>2. v \in Version
    BY <1>1 DEF StateInv, TypeOK
<1>3. \/ IF v.deleted THEN deleteRecord(v) ELSE updateRecord(v)
      \/ UNCHANGED cache
    BY DEF processRecord
<1>. HIDE DEF v
<1>4. CASE v.deleted /\ deleteRecord(v)
    <2>1. CASE \E e \in cache[v.key] : e.row.id = v.id
        <3>. DEFINE entries == IF table.keepDeleted
                               THEN {[row |-> v, ttl |-> TRUE]} ELSE {}
        <3>1. entries \in SUBSET Entry
            BY <1>2 DEF Entry
        <3>2. \A e \in entries : e = [row |-> v, ttl |-> TRUE]
            OBVIOUS
        <3>3. put(v.key, entries)
            BY <1>4, <2>1 DEF deleteRecord
        <3>. HIDE DEF entries
        <3>. QED  BY <1>1, <1>2, <1>4, <2>1, <3>1, <3>2, <3>3 DEF v
    <2>2. CASE ~ \E e \in cache[v.key] : e.row.id = v.id
        <3>1. UNCHANGED cache
            BY <1>4, <2>2 DEF deleteRecord
        <3>. QED  BY <1>1, <1>2, <3>1 DEF v
    <2>. QED  BY <2>1, <2>2
<1>5. CASE ~v.deleted /\ updateRecord(v)
    BY <1>1, <1>2, <1>5 DEF v, updateRecord
<1>6. CASE UNCHANGED cache
    BY <1>1, <1>2, <1>6 DEF v
<1>. QED  BY <1>3, <1>4, <1>5, <1>6

\* A record keeps one entry per key.
LEMMA ProcessRecord_StateInv ==
    ASSUME StateInv, processRecord
    PROVE  StateInv'
<1>1. /\ position' = position + 1 /\ reader = "consuming" /\ position < now
      /\ UNCHANGED <<table, changes, reader, snapshotAt, restarts>>
    BY DEF processRecord
<1>2. PICK v \in Version :
         /\ position + 1 \in 1 .. now /\ v = changes[position + 1]
         /\ \/ UNCHANGED cache
            \/ \E entries \in SUBSET Entry :
                  /\ put(v.key, entries)
                  /\ v.deleted
                  /\ \E e \in cache[v.key] : e.row.id = v.id
                  /\ \A e \in entries : e = [row |-> v, ttl |-> TRUE]
            \/ /\ put(v.key, {[row |-> v, ttl |-> FALSE]})
               /\ ~v.deleted
               /\ \A e \in cache[v.key] :
                     ~(GetUpdatedAt(e.row) >= GetUpdatedAt(v))
    BY RecordApplied
<1>3. v.key \in Keys
    BY DEF Version
<1>4. /\ cache' \in [Keys -> SUBSET Entry]
      /\ \A k \in Keys : \A d, e \in cache'[k] : d = e
      /\ \A k \in Keys : \A e \in cache'[k] : e.ttl => e.row.deleted
    <2>1. CASE UNCHANGED cache
        BY <2>1 DEF StateInv, TypeOK, CacheInv
    <2>2. ASSUME NEW entries \in SUBSET Entry, put(v.key, entries), v.deleted,
                 \A e \in entries : e = [row |-> v, ttl |-> TRUE]
          PROVE  /\ cache' \in [Keys -> SUBSET Entry]
                 /\ \A k \in Keys : \A d, e \in cache'[k] : d = e
                 /\ \A k \in Keys : \A e \in cache'[k] : e.ttl => e.row.deleted
        <3>1. /\ \A d, e \in entries : d = e
              /\ \A e \in entries : e.row = v
            BY <2>2, EntryFields
        <3>2. \A e \in entries : e.row.deleted
            BY <2>2, <3>1
        <3>. QED  BY <1>3, <2>2, <3>1, <3>2, Put
    <2>3. CASE put(v.key, {[row |-> v, ttl |-> FALSE]})
        <3>. DEFINE entries == {[row |-> v, ttl |-> FALSE]}
        <3>1. /\ entries \in SUBSET Entry /\ \A d, e \in entries : d = e
              /\ \A e \in entries : e.ttl => e.row.deleted
            BY DEF Entry
        <3>. HIDE DEF entries
        <3>2. put(v.key, entries)
            BY <2>3 DEF entries
        <3>. QED  BY <1>3, <3>1, <3>2, Put
    <2>. QED  BY <1>2, <2>1, <2>2, <2>3
<1>5. missed' \in SUBSET Keys /\ expired' \in SUBSET Keys
    <2>1. changes[position + 1].key \in Keys
        BY <1>2, <1>3
    <2>. QED  BY <2>1 DEF StateInv, TypeOK, processRecord, deleteRecord,
              updateRecord, put
<1>6. TypeOK'
    BY <1>1, <1>2, <1>4, <1>5 DEF StateInv, TypeOK
<1>7. CacheInv'
    BY <1>1, <1>4 DEF CacheInv
<1>. QED  BY <1>1, <1>6, <1>7, SameTable DEF StateInv

\* An entry runs out, or the process starts again with an empty cache.
LEMMA ExpireAndRestart_StateInv ==
    ASSUME StateInv, (\E k \in Keys : expireEntry(k)) \/ Restart \/ UNCHANGED vars
    PROVE  StateInv'
<1>1. ASSUME NEW k \in Keys, expireEntry(k) PROVE StateInv'
    <2>1. /\ cache' = [cache EXCEPT ![k] = {}] /\ expired' = expired \cup {k}
          /\ UNCHANGED <<table, changes, reader, snapshotAt, position, missed,
                         restarts>>
        BY <1>1 DEF expireEntry
    <2>2. TypeOK' /\ CacheInv'
        BY <2>1 DEF StateInv, TypeOK, CacheInv
    <2>. QED  BY <2>1, <2>2, SameTable DEF StateInv
<1>2. ASSUME Restart PROVE StateInv'
    <2>1. TypeOK' /\ CacheInv'
        BY <1>2, CdcAssumption DEF StateInv, TypeOK, CacheInv, Restart
    <2>. QED  BY <1>2, <2>1, SameTable DEF StateInv, Restart
<1>3. ASSUME UNCHANGED vars PROVE StateInv'
    <2>1. TypeOK' /\ CacheInv'
        BY <1>3 DEF StateInv, TypeOK, CacheInv, vars
    <2>. QED  BY <1>3, <2>1, SameTable DEF StateInv, vars
<1>. QED  BY <1>1, <1>2, <1>3

\* Every step preserves the types and the order of the table.
LEMMA Next_StateInv ==
    ASSUME StateInv, [Next]_vars
    PROVE  StateInv'
BY TableStep_StateInv, LoadSnapshot_StateInv, StartGenericConsumer_StateInv,
   ProcessRecord_StateInv, ExpireAndRestart_StateInv DEF Next

-----------------------------------------------------------------------------
(* What the table holds under a key, from one change to the next           *)

\* A row has one last version.
LEMMA OneVersionPerRow ==
    ASSUME StateInv, NEW n \in 0 .. now, NEW v \in rowsAt(n),
           NEW w \in rowsAt(n), v.id = w.id
    PROVE  v = w
<1>1. PICK i \in 1 .. n : isLast(i, n) /\ v = changes[i]
    BY RowsAt
<1>2. PICK j \in 1 .. n : isLast(j, n) /\ w = changes[j]
    BY RowsAt
<1>3. i = j
    BY <1>1, <1>2 DEF StateInv, TypeOK, isLast
<1>. QED  BY <1>1, <1>2, <1>3

\* The row under a key is the last one written there.
LEMMA WantedIsLast ==
    ASSUME StateInv, NEW n \in 0 .. now, NEW k \in Keys, NEW v \in wanted(n, k)
    PROVE  lastUnder(n, k) = {v}
<1>1. PICK i \in 1 .. n : isLast(i, n) /\ v = changes[i]
    BY RowsAt DEF wanted
<1>2. v.key = k /\ (table.keepDeleted \/ ~v.deleted)
    BY DEF wanted
<1>3. \A l \in i + 1 .. n : changes[l].key # k
    BY <1>1, <1>2, KeyIsTaken
<1>4. ASSUME NEW w \in lastUnder(n, k) PROVE w = v
    <2>1. PICK j \in 1 .. n : /\ changes[j].key = k /\ w = changes[j]
                              /\ \A l \in j + 1 .. n : changes[l].key # k
        BY DEF lastUnder
    <2>2. i = j
        BY <1>1, <1>2, <1>3, <2>1 DEF StateInv, TypeOK
    <2>. QED  BY <1>1, <2>1, <2>2
<1>5. v \in lastUnder(n, k)
    BY <1>1, <1>2, <1>3 DEF lastUnder
<1>. QED  BY <1>4, <1>5

\* Nothing is wanted under a key that its last row has left.
LEMMA AbandonedIsUnwanted ==
    ASSUME StateInv, NEW n \in 0 .. now, NEW k \in Keys, abandoned(n, k)
    PROVE  wanted(n, k) = {}
<1>. SUFFICES ASSUME NEW v \in wanted(n, k) PROVE FALSE
    OBVIOUS
<1>1. lastUnder(n, k) = {v} /\ v \in rowsAt(n) /\ v.key = k
    BY WantedIsLast DEF wanted
<1>2. PICK w \in rowsAt(n) : w.id = v.id /\ w.key # k
    BY <1>1 DEF abandoned
<1>. QED  BY <1>1, <1>2, OneVersionPerRow

\* A change replaces the version of its row.
LEMMA NextRows ==
    ASSUME StateInv, NEW p \in Nat, p + 1 \in 1 .. now, NEW v
    PROVE  v \in rowsAt(p + 1) <=>
              \/ v = changes[p + 1]
              \/ v \in rowsAt(p) /\ v.id # changes[p + 1].id
<1>1. isLast(p + 1, p + 1)
    BY DEF isLast
<1>2. ASSUME NEW i \in 1 .. p
      PROVE  isLast(i, p + 1) <=>
                isLast(i, p) /\ changes[p + 1].id # changes[i].id
    <2>1. \A l \in i + 1 .. p + 1 : l \in i + 1 .. p \/ l = p + 1
        OBVIOUS
    <2>2. p + 1 \in i + 1 .. p + 1 /\ \A l \in i + 1 .. p : l \in i + 1 .. p + 1
        OBVIOUS
    <2>. QED  BY <2>1, <2>2 DEF isLast
<1>3. \A i \in 1 .. p + 1 : i \in 1 .. p \/ i = p + 1
    OBVIOUS
<1>4. p + 1 \in 1 .. p + 1 /\ \A i \in 1 .. p : i \in 1 .. p + 1
    OBVIOUS
<1>. QED  BY <1>1, <1>2, <1>3, <1>4, RowsAt

\* The row that was just written is the one under its key.
LEMMA WrittenIsWanted ==
    ASSUME StateInv, NEW p \in Nat, p + 1 \in 1 .. now,
           table.keepDeleted \/ ~changes[p + 1].deleted
    PROVE  wanted(p + 1, changes[p + 1].key) = {changes[p + 1]}
<1>1. changes[p + 1] \in Version /\ now \in Nat
    BY DEF StateInv, TypeOK
<1>2. changes[p + 1] \in wanted(p + 1, changes[p + 1].key)
    BY NextRows DEF wanted
<1>3. changes[p + 1].key \in Keys /\ p + 1 \in 0 .. now
    BY <1>1 DEF Version
<1>. QED  BY <1>2, <1>3, OneRowPerKey

\* The version a deleted one replaces.
LEMMA BeforeDelete ==
    ASSUME StateInv, DeletedInPlace, NEW p \in Nat, p + 1 \in 1 .. now,
           changes[p + 1].deleted
    PROVE  \E v \in wanted(p, changes[p + 1].key) : v.id = changes[p + 1].id
<1>1. (p + 1) - 1 = p
    OBVIOUS
<1>2. PICK j \in 1 .. p :
         /\ isLast(j, p) /\ (table.keepDeleted \/ ~changes[j].deleted)
         /\ changes[j].id = changes[p + 1].id
         /\ changes[j].key = changes[p + 1].key
    BY <1>1 DEF DeletedInPlace
<1>. QED  BY <1>2, RowsAt DEF wanted

\* A table that does not keep its deleted rows has none under that key then.
LEMMA DeletedIsUnwanted ==
    ASSUME StateInv, DeletedInPlace, NEW p \in Nat, p + 1 \in 1 .. now,
           changes[p + 1].deleted, ~table.keepDeleted
    PROVE  wanted(p + 1, changes[p + 1].key) = {}
<1>. DEFINE k == changes[p + 1].key
<1>1. changes[p + 1] \in Version /\ now \in Nat
    BY DEF StateInv, TypeOK
<1>2. k \in Keys /\ p \in 0 .. now
    BY <1>1 DEF Version
<1>3. PICK v \in wanted(p, k) : v.id = changes[p + 1].id
    BY BeforeDelete
<1>4. ASSUME NEW w \in wanted(p + 1, k) PROVE FALSE
    <2>1. w \in rowsAt(p + 1) /\ w.key = k /\ ~w.deleted
        BY DEF wanted
    <2>2. w \in rowsAt(p) /\ w.id # changes[p + 1].id
        BY <2>1, NextRows
    <2>3. w \in wanted(p, k)
        BY <2>1, <2>2 DEF wanted
    <2>. QED  BY <1>2, <1>3, <2>2, <2>3, OneRowPerKey
<1>. QED  BY <1>4

\* What was contested stays contested.
LEMMA MoreContested ==
    ASSUME NEW p \in Nat, NEW k, contested(p, k)
    PROVE  contested(p + 1, k)
<1>1. \A i \in 1 .. p : i \in 1 .. p + 1
    OBVIOUS
<1>. QED  BY <1>1 DEF contested

\* The entry under a key, and no other.
LEMMA CachedRow ==
    ASSUME StateInv, NEW k \in Keys, NEW v \in cachedRows(k)
    PROVE  /\ \E e \in cache[k] : e.row = v
           /\ \A e \in cache[k] : e.row = v
           /\ v \in Version
<1>1. PICK e \in cache[k] : e.row = v
    BY DEF cachedRows
<1>2. \A d \in cache[k] : d = e
    BY DEF StateInv, TypeOK
<1>3. e \in Entry
    BY DEF StateInv, TypeOK
<1>. QED  BY <1>1, <1>2, <1>3 DEF Entry

-----------------------------------------------------------------------------
(* From one position to the next, under a key the record leaves alone      *)

\* What the consumer can tell of a version.
LEMMA ToMillisecond ==
    ASSUME NEW v \in Version, NEW w \in Version
    PROVE  toMillisecond(v) = toMillisecond(w) <=>
              /\ v.id = w.id /\ v.key = w.key /\ v.deleted = w.deleted
              /\ GetUpdatedAt(v) = GetUpdatedAt(w)
BY DEF toMillisecond, Version

\* What is cached is in the table, up to the millisecond.
LEMMA SameRowsMembers ==
    ASSUME NEW S, NEW T, sameRows(S, T)
    PROVE  /\ \A v \in S : \E w \in T : toMillisecond(v) = toMillisecond(w)
           /\ \A w \in T : \E v \in S : toMillisecond(v) = toMillisecond(w)
<1>. DEFINE A == {toMillisecond(v) : v \in S}
            B == {toMillisecond(v) : v \in T}
<1>1. A = B
    BY DEF sameRows
<1>2. \A v \in S : toMillisecond(v) \in A
    OBVIOUS
<1>3. \A v \in T : toMillisecond(v) \in B
    OBVIOUS
<1>. QED  BY <1>1, <1>2, <1>3

\* Another key: its row may have moved away.
LEMMA PassOther ==
    ASSUME StateInv, NEW p \in Nat, p + 1 \in 1 .. now, NEW k \in Keys,
           changes[p + 1].key # k, current(p, k)
    PROVE  current(p + 1, k)
<1>. DEFINE u == changes[p + 1]
<1>0. p \in 0 .. now
    BY DEF StateInv, TypeOK
<1>1. ASSUME NEW v
      PROVE  v \in wanted(p + 1, k) <=> v \in wanted(p, k) /\ v.id # u.id
    BY NextRows DEF wanted
<1>2. lastUnder(p + 1, k) = lastUnder(p, k)
    <2>1. ASSUME NEW j \in 1 .. p
          PROVE  (\A l \in j + 1 .. p + 1 : changes[l].key # k) <=>
                     (\A l \in j + 1 .. p : changes[l].key # k)
        <3>1. \A l \in j + 1 .. p + 1 : l \in j + 1 .. p \/ l = p + 1
            OBVIOUS
        <3>2. \A l \in j + 1 .. p : l \in j + 1 .. p + 1
            OBVIOUS
        <3>. QED  BY <3>1, <3>2
    <2>2. \A j : j \in 1 .. p + 1 <=> j \in 1 .. p \/ j = p + 1
        OBVIOUS
    <2>3. {j \in 1 .. p + 1 : /\ changes[j].key = k
                              /\ \A l \in j + 1 .. p + 1 : changes[l].key # k}
          = {j \in 1 .. p : /\ changes[j].key = k
                            /\ \A l \in j + 1 .. p : changes[l].key # k}
        BY <2>1, <2>2
    <2>. QED  BY <2>3 DEF lastUnder
<1>3. CASE contested(p, k)
    BY <1>3, MoreContested DEF current
<1>4. CASE k \notin expired /\ abandoned(p, k)
             /\ sameRows(cachedRows(k), lastUnder(p, k))
    <2>1. PICK v \in lastUnder(p, k), w \in rowsAt(p) :
             w.id = v.id /\ w.key # k
        BY <1>4 DEF abandoned
    <2>2. w \in rowsAt(p + 1) \/ u.id = v.id
        BY <2>1, NextRows
    <2>3. u \in rowsAt(p + 1)
        BY NextRows
    <2>4. abandoned(p + 1, k)
        BY <1>2, <2>1, <2>2, <2>3 DEF abandoned
    <2>. QED  BY <1>2, <1>4, <2>4 DEF current
<1>5. CASE asOf(p, k) /\ k \in expired
    BY <1>1, <1>5 DEF asOf, current
<1>6. CASE asOf(p, k) /\ k \notin expired
    <2>1. sameRows(cachedRows(k), wanted(p, k))
        BY <1>6 DEF asOf
    <2>2. CASE \A v \in wanted(p, k) : v.id # u.id
        <3>1. wanted(p + 1, k) = wanted(p, k)
            BY <1>1, <2>2
        <3>. QED  BY <1>6, <2>1, <3>1 DEF asOf, current
    <2>3. ASSUME NEW v \in wanted(p, k), v.id = u.id PROVE current(p + 1, k)
        <3>1. lastUnder(p, k) = {v}
            BY <1>0, WantedIsLast
        <3>2. wanted(p, k) = {v}
            BY <1>0, OneRowPerKey
        <3>3. u \in rowsAt(p + 1)
            BY NextRows
        <3>4. abandoned(p + 1, k)
            BY <1>2, <2>3, <3>1, <3>3 DEF abandoned
        <3>5. sameRows(cachedRows(k), lastUnder(p + 1, k))
            BY <1>2, <2>1, <3>1, <3>2
        <3>. QED  BY <1>6, <3>4, <3>5 DEF current
    <2>. QED  BY <2>2, <2>3
<1>. QED  BY <1>3, <1>4, <1>5, <1>6 DEF current

\* A deleted row that is not cached: it ran out of its TTL.
LEMMA PassDelete ==
    ASSUME StateInv, DeletedInPlace, LiveOnly, NEW p \in Nat,
           p + 1 \in 1 .. now, NEW k \in Keys, changes[p + 1].key = k,
           changes[p + 1].deleted,
           \A e \in cache[k] : e.row.id # changes[p + 1].id,
           current(p, k)
    PROVE  current(p + 1, k)
<1>. DEFINE u == changes[p + 1]
<1>0. p \in 0 .. now
    BY DEF StateInv, TypeOK
<1>1. PICK v \in wanted(p, k) : v.id = u.id
    BY BeforeDelete
<1>2. CASE contested(p, k)
    BY <1>2, MoreContested DEF current
<1>3. ~abandoned(p, k)
    BY <1>0, <1>1, AbandonedIsUnwanted
<1>4. CASE asOf(p, k) /\ k \in expired
    <2>1. table.keepDeleted
        BY <1>4 DEF LiveOnly
    <2>2. wanted(p + 1, k) = {u}
        BY <2>1, WrittenIsWanted
    <2>. QED  BY <1>4, <2>2 DEF asOf, current
<1>5. CASE asOf(p, k) /\ k \notin expired
    <2>1. PICK w \in cachedRows(k) : toMillisecond(w) = toMillisecond(v)
        BY <1>5, SameRowsMembers DEF asOf
    <2>2. PICK e \in cache[k] : e.row = w
        BY <2>1 DEF cachedRows
    <2>3. w \in Version
        BY <2>1, CachedRow
    <2>4. v \in Version
        <3>1. PICK i \in 1 .. p : v = changes[i]
            BY RowsAt DEF wanted
        <3>. QED  BY <1>0, <3>1 DEF StateInv, TypeOK
    <2>5. w.id = v.id
        BY <2>1, <2>3, <2>4, ToMillisecond
    <2>. QED  BY <1>1, <2>2, <2>5
<1>. QED  BY <1>2, <1>3, <1>4, <1>5 DEF current

\* A live row whose cached version is as recent: it is of the same millisecond.
LEMMA PassUpdate ==
    ASSUME StateInv, LiveOnly, NEW p \in Nat, p + 1 \in 1 .. now,
           NEW k \in Keys, changes[p + 1].key = k, ~changes[p + 1].deleted,
           NEW e \in cache[k], GetUpdatedAt(e.row) >= GetUpdatedAt(changes[p + 1]),
           current(p, k)
    PROVE  current(p + 1, k)
<1>. DEFINE u == changes[p + 1]
<1>0. p \in 0 .. now /\ now \in Nat /\ table \in Tables
    BY DEF StateInv, TypeOK
<1>1. CASE contested(p, k)
    BY <1>1, MoreContested DEF current
<1>2. ASSUME ~contested(p, k), ~contested(p + 1, k) PROVE current(p + 1, k)
    <2>1. k \notin expired
        BY <1>2 DEF current, asOf
    <2>2. \/ sameRows(cachedRows(k), wanted(p, k))
          \/ sameRows(cachedRows(k), lastUnder(p, k))
        BY <1>2, <2>1 DEF current, asOf
    <2>3. e.row \in cachedRows(k)
        BY DEF cachedRows
    <2>4. PICK w \in wanted(p, k) \cup lastUnder(p, k) :
             toMillisecond(e.row) = toMillisecond(w)
        BY <2>2, <2>3, SameRowsMembers
    <2>5. PICK i \in 1 .. p : w = changes[i] /\ w.key = k
        BY <2>4, RowsAt DEF wanted, lastUnder
    <2>6. /\ e.row \in Version /\ w \in Version /\ u \in Version
          /\ \A f \in cache[k] : f.row = e.row
        BY <1>0, <2>3, <2>5, CachedRow DEF StateInv, TypeOK
    <2>7. /\ e.row.id = w.id /\ e.row.key = w.key /\ e.row.deleted = w.deleted
          /\ GetUpdatedAt(e.row) = GetUpdatedAt(w)
        BY <2>4, <2>6, ToMillisecond
    <2>8. GetUpdatedAt(w) = GetUpdatedAt(u)
        <3>1. w.updatedAt = i /\ u.updatedAt = p + 1
            BY <1>0, <2>5 DEF StateInv, TableInv
        <3>2. /\ i \div Resolution \in Int /\ (p + 1) \div Resolution \in Int
              /\ i \div Resolution <= (p + 1) \div Resolution
            BY MillisecondsInOrder
        <3>. QED  BY <2>7, <3>1, <3>2 DEF GetUpdatedAt
    <2>9. ~w.deleted
        <3>1. CASE ~table.keepDeleted
            BY <2>7, <3>1 DEF LiveOnly
        <3>2. CASE table.keepDeleted
            <4>1. w.id \in Ids /\ u.id \in Ids
                BY <2>6 DEF Version
            <4>2. k \in table.keyOf[w.id] /\ k \in table.keyOf[u.id]
                BY <1>0, <2>5 DEF StateInv, TableInv
            <4>3. w.id = u.id
                BY <1>0, <3>2, <4>1, <4>2, CdcAssumption
            <4>4. i \in 1 .. now /\ p + 1 \in i + 1 .. now
                BY <1>0
            <4>. QED  BY <2>5, <4>3, <4>4 DEF StateInv, TableInv
        <3>. QED  BY <3>1, <3>2
    <2>10. w.id = u.id
        <3>1. i \in 1 .. p + 1 /\ p + 1 \in 1 .. p + 1
            BY <1>0
        <3>. QED  BY <1>2, <2>5, <2>8, <2>9, <3>1 DEF contested
    <2>11. toMillisecond(e.row) = toMillisecond(u)
        <3>1. w.deleted = u.deleted
            BY <2>6, <2>9 DEF Version
        <3>. QED  BY <2>5, <2>6, <2>7, <2>8, <2>10, <3>1, ToMillisecond
    <2>12. wanted(p + 1, k) = {u}
        BY WrittenIsWanted
    <2>13. cachedRows(k) = {e.row}
        BY <2>6 DEF cachedRows
    <2>14. {toMillisecond(x) : x \in {e.row}} = {toMillisecond(x) : x \in {u}}
        BY <2>11
    <2>15. sameRows(cachedRows(k), wanted(p + 1, k))
        BY <2>12, <2>13, <2>14 DEF sameRows
    <2>. QED  BY <2>1, <2>15 DEF asOf, current
<1>. QED  BY <1>1, <1>2 DEF current

-----------------------------------------------------------------------------
(* The rest of IInv is inductive                                           *)

\* What the table held after n changes does not depend on later ones.
LEMMA SamePrefix ==
    ASSUME NEW n \in Nat, \A i \in 1 .. n : changes'[i] = changes[i],
           table' = table, NEW k
    PROVE  /\ wanted(n, k)' = wanted(n, k)
           /\ lastUnder(n, k)' = lastUnder(n, k)
           /\ abandoned(n, k)' <=> abandoned(n, k)
           /\ contested(n, k)' <=> contested(n, k)
<1>0. \A j \in 1 .. n : \A l \in j + 1 .. n : l \in 1 .. n
    OBVIOUS
<1>1. rowsAt(n)' = rowsAt(n)
    <2>. DEFINE R == {j \in 1 .. n :
                        \A l \in j + 1 .. n : changes[l].id # changes[j].id}
                S == {j \in 1 .. n :
                        \A l \in j + 1 .. n : changes'[l].id # changes'[j].id}
    <2>1. R = S
        BY <1>0
    <2>2. R \in SUBSET (1 .. n)
        OBVIOUS
    <2>. HIDE DEF R, S
    <2>3. {changes'[i] : i \in S} = {changes[i] : i \in R}
        BY <2>1, <2>2
    <2>. QED  BY <2>3 DEF rowsAt, R, S
<1>2. lastUnder(n, k)' = lastUnder(n, k)
    <2>. DEFINE R == {j \in 1 .. n : changes[j].key = k /\
                        \A l \in j + 1 .. n : changes[l].key # k}
                S == {j \in 1 .. n : changes'[j].key = k /\
                        \A l \in j + 1 .. n : changes'[l].key # k}
    <2>1. R = S
        BY <1>0
    <2>2. R \in SUBSET (1 .. n)
        OBVIOUS
    <2>. HIDE DEF R, S
    <2>3. {changes'[i] : i \in S} = {changes[i] : i \in R}
        BY <2>1, <2>2
    <2>. QED  BY <2>3 DEF lastUnder, R, S
<1>3. wanted(n, k)' = wanted(n, k)
    BY <1>1 DEF wanted
<1>4. abandoned(n, k)' <=> abandoned(n, k)
    BY <1>1, <1>2 DEF abandoned
<1>5. contested(n, k)' <=> contested(n, k)
    BY DEF contested, GetUpdatedAt
<1>. QED  BY <1>2, <1>3, <1>4, <1>5

\* An entry that stays is as it was.
LEMMA SameEntry ==
    ASSUME NEW n \in Nat, \A i \in 1 .. n : changes'[i] = changes[i],
           table' = table, NEW k,
           cache'[k] = cache[k], k \in expired' <=> k \in expired
    PROVE  /\ asOf(n, k)' <=> asOf(n, k)
           /\ current(n, k)' <=> current(n, k)
<1>1. /\ wanted(n, k)' = wanted(n, k)
      /\ lastUnder(n, k)' = lastUnder(n, k)
      /\ abandoned(n, k)' <=> abandoned(n, k)
      /\ contested(n, k)' <=> contested(n, k)
    BY SamePrefix
<1>2. cachedRows(k)' = cachedRows(k)
    BY DEF cachedRows
<1>3. asOf(n, k)' <=> asOf(n, k)
    BY <1>1, <1>2 DEF asOf, sameRows, toMillisecond, GetUpdatedAt
<1>. QED  BY <1>1, <1>2, <1>3
          DEF current, sameRows, toMillisecond, GetUpdatedAt

\* A change of the application concerns no earlier position, and deletes a row
\* under its key.
LEMMA TableStep_Replayed ==
    ASSUME IInv, tableStep
    PROVE  DeletedInPlace' /\ LiveOnly' /\ Replayed'
<1>0. PICK n \in Nat : n = now
    BY DEF IInv, StateInv, TypeOK
<1>1. PICK id, key, deleted :
         /\ change(id, key, deleted) /\ deleted \in BOOLEAN
         /\ deleted => \E v \in rowsAt(now) :
               /\ v.id = id /\ v.key = key
               /\ table.keepDeleted \/ ~v.deleted
    <2>1. ASSUME NEW v \in rowsAt(now) PROVE v.deleted \in BOOLEAN
        <3>1. PICK i \in 1 .. now : v = changes[i]
            BY RowsAt
        <3>2. v \in Version
            BY <3>1 DEF IInv, StateInv, TypeOK
        <3>. QED  BY <3>2 DEF Version
    <2>2. CASE \E id \in Ids, key \in Keys : Insert(id, key)
        BY <2>2 DEF Insert
    <2>3. ASSUME NEW v \in rowsAt(now), Update(v)
          PROVE  /\ change(v.id, v.key, v.deleted)
                 /\ v.deleted => table.keepDeleted
        BY <2>3 DEF Update
    <2>4. ASSUME NEW v \in rowsAt(now), SoftDelete(v)
          PROVE  change(v.id, v.key, TRUE) /\ ~v.deleted
        BY <2>4 DEF SoftDelete
    <2>5. CASE \E v \in rowsAt(now) : \E key \in Keys : Rekey(v, key)
        BY <2>5 DEF Rekey
    <2>6. CASE \E v \in rowsAt(now) : Update(v)
        BY <2>1, <2>3, <2>6
    <2>7. CASE \E v \in rowsAt(now) : SoftDelete(v)
        BY <2>4, <2>7
    <2>. QED  BY <2>2, <2>5, <2>6, <2>7 DEF tableStep
<1>2. /\ changes' = Append(changes, [id |-> id, key |-> key,
                                     updatedAt |-> now + 1, deleted |-> deleted])
      /\ UNCHANGED <<table, process, restarts>>
    BY <1>1 DEF change
<1>3. /\ Len(changes') = n + 1 /\ \A i \in 1 .. n : changes'[i] = changes[i]
      /\ changes'[n + 1].id = id /\ changes'[n + 1].key = key
      /\ changes'[n + 1].deleted = deleted
    <2>. DEFINE new == [id |-> id, key |-> key,
                        updatedAt |-> now + 1, deleted |-> deleted]
    <2>1. changes' = Append(changes, new) /\ changes \in Seq(Version)
        BY <1>2 DEF IInv, StateInv, TypeOK
    <2>2. new.id = id /\ new.key = key /\ new.deleted = deleted
        OBVIOUS
    <2>. HIDE DEF new
    <2>. QED  BY <1>0, <2>1, <2>2
<1>4. LiveOnly'
    BY <1>2 DEF IInv, LiveOnly
<1>5. ASSUME NEW m \in 0 .. n, NEW j \in 1 .. m
      PROVE  isLast(j, m)' <=> isLast(j, m)
    BY <1>3 DEF isLast
<1>6. ASSUME NEW i \in 1 .. n, changes'[i].deleted
      PROVE  \E j \in 1 .. i - 1 :
                /\ isLast(j, i - 1)'
                /\ table'.keepDeleted \/ ~changes'[j].deleted
                /\ changes'[j].id = changes'[i].id
                /\ changes'[j].key = changes'[i].key
    <2>1. PICK j \in 1 .. i - 1 :
             /\ isLast(j, i - 1) /\ (table.keepDeleted \/ ~changes[j].deleted)
             /\ changes[j].id = changes[i].id /\ changes[j].key = changes[i].key
        BY <1>0, <1>3, <1>6 DEF IInv, DeletedInPlace
    <2>2. i - 1 \in 0 .. n /\ j \in 1 .. n
        OBVIOUS
    <2>3. isLast(j, i - 1)'
        BY <1>5, <2>1, <2>2
    <2>. QED  BY <1>2, <1>3, <2>1, <2>2, <2>3
<1>7. ASSUME deleted
      PROVE  \E j \in 1 .. n :
                /\ isLast(j, n)'
                /\ table'.keepDeleted \/ ~changes'[j].deleted
                /\ changes'[j].id = changes'[n + 1].id
                /\ changes'[j].key = changes'[n + 1].key
    <2>1. PICK v \in rowsAt(n) : /\ v.id = id /\ v.key = key
                                 /\ table.keepDeleted \/ ~v.deleted
        BY <1>0, <1>1, <1>7
    <2>2. PICK j \in 1 .. n : isLast(j, n) /\ v = changes[j]
        BY <2>1, RowsAt
    <2>3. isLast(j, n)'
        BY <1>5, <2>2
    <2>. QED  BY <1>2, <1>3, <2>1, <2>2, <2>3
<1>8. DeletedInPlace'
    <2>1. \A i \in 1 .. n + 1 : i \in 1 .. n \/ (i = n + 1 /\ i - 1 = n)
        OBVIOUS
    <2>2. \A i \in 1 .. n + 1 : changes'[i].deleted =>
             \E j \in 1 .. i - 1 :
                /\ isLast(j, i - 1)'
                /\ table'.keepDeleted \/ ~changes'[j].deleted
                /\ changes'[j].id = changes'[i].id
                /\ changes'[j].key = changes'[i].key
        <3>. SUFFICES ASSUME NEW i \in 1 .. n + 1, changes'[i].deleted
                      PROVE  \E j \in 1 .. i - 1 :
                                /\ isLast(j, i - 1)'
                                /\ table'.keepDeleted \/ ~changes'[j].deleted
                                /\ changes'[j].id = changes'[i].id
                                /\ changes'[j].key = changes'[i].key
            OBVIOUS
        <3>1. CASE i \in 1 .. n
            BY <1>6, <3>1
        <3>2. CASE i = n + 1 /\ i - 1 = n
            <4>1. deleted
                BY <1>3, <3>2
            <4>. QED  BY <1>7, <3>2, <4>1
        <3>. QED  BY <2>1, <3>1, <3>2
    <2>. QED  BY <1>3, <2>2 DEF DeletedInPlace
<1>9. Replayed'
    <2>1. snapshotAt \in 0 .. n /\ position \in 0 .. n
        BY <1>0 DEF IInv, StateInv, TypeOK
    <2>2. PICK s \in 0 .. n, p \in 0 .. n : s = snapshotAt /\ p = position
        BY <2>1
    <2>3. ASSUME NEW k \in Keys
          PROVE  (asOf(s, k)' <=> asOf(s, k)) /\ (current(p, k)' <=> current(p, k))
        <3>1. /\ \A i \in 1 .. s : changes'[i] = changes[i]
              /\ \A i \in 1 .. p : changes'[i] = changes[i]
            BY <1>3
        <3>2. cache' = cache /\ expired' = expired /\ table' = table
            BY <1>2
        <3>. QED  BY <3>1, <3>2, SameEntry
    <2>4. /\ reader' = reader /\ missed' = missed
          /\ snapshotAt' = s /\ position' = p
        BY <1>2, <2>2
    <2>. QED  BY <2>2, <2>3, <2>4 DEF IInv, Replayed
<1>. QED  BY <1>4, <1>8, <1>9

\* A step of the process leaves the deletions alone.
LEMMA SameDeletions ==
    ASSUME DeletedInPlace, UNCHANGED <<table, changes>>
    PROVE  DeletedInPlace'
BY DEF DeletedInPlace, isLast

\* The snapshot is the table, but for what failed and what was too old.
LEMMA LoadSnapshot_Replayed ==
    ASSUME IInv, LoadSnapshot
    PROVE  DeletedInPlace' /\ LiveOnly' /\ Replayed'
<1>. DEFINE rows == UNION {wanted(now, k) : k \in Keys}
<1>0. PICK n \in Nat : n = now
    BY DEF IInv, StateInv, TypeOK
<1>1. PICK old \in SUBSET {v \in rows : v.deleted} :
         \E list \in GetAllWithStreaming(rows \ old) : \E set \in SUBSET list :
             /\ cache' = setItems(set)
             /\ missed' = {v.key : v \in (rows \ old) \ set}
             /\ expired' = {v.key : v \in old}
    BY DEF LoadSnapshot
<1>2. PICK set \in SUBSET (rows \ old) :
         /\ cache' = setItems(set)
         /\ missed' = {v.key : v \in (rows \ old) \ set}
         /\ expired' = {v.key : v \in old}
    BY <1>1 DEF GetAllWithStreaming
<1>3. /\ snapshotAt' = n /\ reader' = "loaded" /\ position' = position
      /\ UNCHANGED <<table, changes, restarts>>
    BY <1>0 DEF LoadSnapshot
<1>4. ASSUME NEW v, NEW k \in Keys
      PROVE  v \in rows /\ v.key = k <=> v \in wanted(n, k)
    BY <1>0 DEF wanted
<1>5. /\ ~table.keepDeleted => \A v \in rows : ~v.deleted
      /\ old \in SUBSET rows /\ \A v \in old : v.deleted
    BY <1>1 DEF wanted
<1>. HIDE DEF rows
<1>6. ASSUME NEW k \in Keys
      PROVE  cachedRows(k)' = {v \in set : v.key = k}
    <2>1. cache'[k] = {[row |-> v, ttl |-> FALSE] :
                          v \in {w \in set : w.key = k}}
        BY <1>2 DEF setItems
    <2>2. cachedRows(k)' = {e.row : e \in cache'[k]}
        BY DEF cachedRows
    <2>3. \A v : [row |-> v, ttl |-> FALSE].row = v
        OBVIOUS
    <2>4. {e.row : e \in {[row |-> v, ttl |-> FALSE] : v \in {w \in set : w.key = k}}}
          = {w \in set : w.key = k}
        BY <2>3
    <2>. QED  BY <2>1, <2>2, <2>4
<1>7. LiveOnly'
    <2>1. ASSUME ~table.keepDeleted, NEW k \in Keys, NEW e \in cache'[k]
          PROVE  ~e.row.deleted
        <3>1. e.row \in cachedRows(k)'
            BY <2>1 DEF cachedRows
        <3>. QED  BY <1>2, <1>5, <1>6, <2>1, <3>1
    <2>2. ~table.keepDeleted => expired' = {}
        BY <1>2, <1>5
    <2>. QED  BY <1>3, <2>1, <2>2 DEF LiveOnly
<1>8. ASSUME NEW k \in Keys, k \notin missed' PROVE asOf(n, k)'
    <2>1. wanted(n, k)' = wanted(n, k)
        BY <1>3, SamePrefix
    <2>2. \A v \in wanted(n, k) : v \in old \/ v \in set
        BY <1>2, <1>4, <1>8
    <2>3. \A v, w \in wanted(n, k) : v = w
        <3>1. n \in 0 .. now
            BY <1>0
        <3>. QED  BY <3>1, OneRowPerKey DEF IInv
    <2>4. CASE k \in expired'
        <3>1. PICK v \in old : v.key = k
            BY <1>2, <2>4
        <3>2. v \in wanted(n, k) /\ v.deleted
            BY <1>4, <1>5, <3>1
        <3>3. \A w \in wanted(n, k) : w = v
            BY <2>3, <3>2
        <3>4. cache'[k] = {}
            <4>1. \A w \in set : w.key # k
                BY <1>2, <1>4, <3>1, <3>3
            <4>. QED  BY <1>2, <4>1 DEF setItems
        <3>. QED  BY <2>1, <2>4, <3>2, <3>3, <3>4 DEF asOf
    <2>5. CASE k \notin expired'
        <3>1. \A v \in wanted(n, k) : v \in set
            BY <1>2, <1>4, <2>2, <2>5
        <3>2. cachedRows(k)' = wanted(n, k)
            BY <1>2, <1>4, <1>6, <3>1
        <3>. QED  BY <2>1, <2>5, <3>2 DEF asOf, sameRows
    <2>. QED  BY <2>4, <2>5
<1>9. position \in 0 .. n
    BY <1>0 DEF IInv, StateInv, TypeOK
<1>10. Replayed'
    BY <1>3, <1>8, <1>9 DEF Replayed
<1>. QED  BY <1>3, <1>7, <1>10, SameDeletions DEF IInv

\* The consumer starts at or before the snapshot.
LEMMA StartGenericConsumer_Replayed ==
    ASSUME IInv, startGenericConsumer
    PROVE  DeletedInPlace' /\ LiveOnly' /\ Replayed'
<1>1. /\ reader = "loaded" /\ position' \in 0 .. snapshotAt
      /\ UNCHANGED <<table, changes, snapshotAt, cache, missed, expired>>
    BY DEF startGenericConsumer
<1>2. PICK s \in Nat : s = snapshotAt
    BY DEF IInv, StateInv, TypeOK
<1>3. LiveOnly'
    BY <1>1 DEF IInv, LiveOnly
<1>4. ASSUME NEW k \in Keys \ missed PROVE asOf(s, k)'
    <2>1. asOf(s, k)
        BY <1>1, <1>2 DEF IInv, Replayed
    <2>. QED  BY <1>1, <2>1, SameEntry
<1>5. Replayed'
    BY <1>1, <1>2, <1>4 DEF Replayed
<1>. QED  BY <1>1, <1>3, <1>5, SameDeletions DEF IInv

\* What a record writes under its key is what the table holds there.
LEMMA PutIsCurrent ==
    ASSUME IInv, NEW p \in Nat, p + 1 \in 1 .. now, NEW t \in BOOLEAN,
           UNCHANGED <<table, changes>>,
           put(changes[p + 1].key,
               IF table.keepDeleted \/ ~changes[p + 1].deleted
               THEN {[row |-> changes[p + 1], ttl |-> t]} ELSE {})
    PROVE  current(p + 1, changes[p + 1].key)' /\ LiveOnly'
<1>. DEFINE u == changes[p + 1]
            k == u.key
<1>1. u \in Version /\ cache \in [Keys -> SUBSET Entry]
    BY DEF IInv, StateInv, TypeOK
<1>2. k \in Keys
    BY <1>1 DEF Version
<1>3. k \notin expired' /\ expired' \in SUBSET expired
    BY DEF put
<1>4. wanted(p + 1, k)' = wanted(p + 1, k)
    BY SamePrefix
<1>5. ASSUME NEW l \in Keys, l # k PROVE cache'[l] = cache[l]
    BY <1>1, <1>5 DEF put
<1>6. CASE table.keepDeleted \/ ~u.deleted
    <2>1. cache'[k] = {[row |-> u, ttl |-> t]}
        BY <1>1, <1>2, <1>6 DEF put
    <2>2. cachedRows(k)' = {u}
        BY <1>1, <2>1, EntryFields DEF cachedRows
    <2>3. wanted(p + 1, k) = {u}
        BY <1>6, WrittenIsWanted DEF IInv
    <2>4. asOf(p + 1, k)'
        BY <1>3, <1>4, <2>2, <2>3 DEF asOf, sameRows
    <2>5. LiveOnly'
        <3>1. ASSUME ~table.keepDeleted, NEW l \in Keys, NEW e \in cache'[l]
              PROVE  ~e.row.deleted
            <4>1. CASE l = k
                BY <1>1, <1>6, <2>1, <3>1, <4>1, EntryFields
            <4>2. CASE l # k
                BY <1>5, <3>1, <4>2 DEF IInv, LiveOnly
            <4>. QED  BY <4>1, <4>2
        <3>. QED  BY <1>3, <3>1 DEF IInv, LiveOnly
    <2>. QED  BY <2>4, <2>5 DEF current
<1>7. CASE ~(table.keepDeleted \/ ~u.deleted)
    <2>1. cache'[k] = {}
        BY <1>1, <1>2, <1>7 DEF put
    <2>2. cachedRows(k)' = {}
        BY <2>1 DEF cachedRows
    <2>3. wanted(p + 1, k) = {}
        BY <1>7, DeletedIsUnwanted DEF IInv
    <2>4. asOf(p + 1, k)'
        BY <1>3, <1>4, <2>2, <2>3 DEF asOf, sameRows
    <2>5. LiveOnly'
        BY <1>3, <1>5, <2>1 DEF IInv, LiveOnly
    <2>. QED  BY <2>4, <2>5 DEF current
<1>. QED  BY <1>6, <1>7

\* A record writes what the table holds under its key, is skipped for a good
\* reason, or fails and is known to have.
LEMMA ProcessRecord_Replayed ==
    ASSUME IInv, processRecord
    PROVE  DeletedInPlace' /\ LiveOnly' /\ Replayed'
<1>0. PICK p \in Nat, s \in Nat : p = position /\ s = snapshotAt
    BY DEF IInv, StateInv, TypeOK
<1>. DEFINE u == changes[p + 1]
<1>1. /\ reader = "consuming" /\ p + 1 \in 1 .. now /\ position' = p + 1
      /\ UNCHANGED <<table, changes, reader, snapshotAt, restarts>>
    BY <1>0 DEF IInv, StateInv, TypeOK, processRecord
<1>. SUFFICES LiveOnly' /\ Replayed'
    BY <1>1, SameDeletions DEF IInv
<1>2. u \in Version /\ u.key \in Keys
    <2>1. u \in Version
        BY <1>1 DEF IInv, StateInv, TypeOK
    <2>. QED  BY <2>1 DEF Version
<1>3. ASSUME NEW k \in Keys, k \notin missed, cache'[k] = cache[k],
             k \in expired' <=> k \in expired, current(p, k) => current(p + 1, k)
      PROVE  \/ position' <= s /\ asOf(s, k)'
             \/ current(p + 1, k)'
    <2>1. /\ asOf(s, k)' <=> asOf(s, k)
          /\ current(p + 1, k)' <=> current(p + 1, k)
        BY <1>1, <1>3, SameEntry
    <2>2. CASE p <= s /\ asOf(s, k)
        <3>1. CASE p = s
            BY <1>3, <2>1, <2>2, <3>1 DEF current
        <3>2. CASE p # s
            BY <1>1, <2>1, <2>2, <3>2
        <3>. QED  BY <3>1, <3>2
    <2>3. CASE current(p, k)
        BY <1>3, <2>1, <2>3
    <2>. QED  BY <1>0, <1>1, <1>3, <2>2, <2>3 DEF IInv, Replayed
<1>4. ASSUME NEW k \in Keys, u.key # k PROVE current(p, k) => current(p + 1, k)
    BY <1>1, <1>4, PassOther DEF IInv
<1>5. ASSUME NEW t \in BOOLEAN,
             put(u.key, IF table.keepDeleted \/ ~u.deleted
                        THEN {[row |-> u, ttl |-> t]} ELSE {})
      PROVE  LiveOnly' /\ Replayed'
    <2>1. current(p + 1, u.key)' /\ LiveOnly'
        BY <1>1, <1>5, PutIsCurrent
    <2>2. ASSUME NEW k \in Keys, k \notin missed', k # u.key
          PROVE  \/ position' <= s /\ asOf(s, k)'
                 \/ current(p + 1, k)'
        <3>1. cache \in [Keys -> SUBSET Entry]
            BY DEF IInv, StateInv, TypeOK
        <3>2. /\ k \notin missed /\ cache'[k] = cache[k]
              /\ k \in expired' <=> k \in expired
            BY <1>5, <2>2, <3>1 DEF put
        <3>. QED  BY <1>3, <1>4, <2>2, <3>2
    <2>. QED  BY <1>0, <1>1, <2>1, <2>2 DEF Replayed
<1>6. ASSUME UNCHANGED <<cache, missed, expired>>,
             current(p, u.key) => current(p + 1, u.key)
      PROVE  LiveOnly' /\ Replayed'
    <2>1. LiveOnly'
        BY <1>1, <1>6 DEF IInv, LiveOnly
    <2>2. ASSUME NEW k \in Keys, k \notin missed'
          PROVE  \/ position' <= s /\ asOf(s, k)'
                 \/ current(p + 1, k)'
        <3>1. current(p, k) => current(p + 1, k)
            BY <1>4, <1>6
        <3>2. /\ k \notin missed /\ cache'[k] = cache[k]
              /\ k \in expired' <=> k \in expired
            BY <1>6, <2>2
        <3>. QED  BY <1>3, <3>1, <3>2
    <2>. QED  BY <1>0, <1>1, <2>1, <2>2 DEF Replayed
<1>7. CASE u.deleted /\ deleteRecord(u)
    <2>1. CASE \E e \in cache[u.key] : e.row.id = u.id
        <3>1. put(u.key, IF table.keepDeleted
                         THEN {[row |-> u, ttl |-> TRUE]} ELSE {})
            BY <1>7, <2>1 DEF deleteRecord
        <3>2. (table.keepDeleted \/ ~u.deleted) <=> table.keepDeleted
            BY <1>7
        <3>3. put(u.key, IF table.keepDeleted \/ ~u.deleted
                         THEN {[row |-> u, ttl |-> TRUE]} ELSE {})
            BY <3>1, <3>2
        <3>. QED  BY <1>5, <3>3
    <2>2. CASE ~ \E e \in cache[u.key] : e.row.id = u.id
        <3>1. UNCHANGED <<cache, missed, expired>>
            BY <1>7, <2>2 DEF deleteRecord
        <3>2. current(p, u.key) => current(p + 1, u.key)
            BY <1>1, <1>2, <1>7, <2>2, PassDelete DEF IInv
        <3>. QED  BY <1>6, <3>1, <3>2
    <2>. QED  BY <2>1, <2>2
<1>8. CASE ~u.deleted /\ updateRecord(u)
    <2>1. CASE \E e \in cache[u.key] : GetUpdatedAt(e.row) >= GetUpdatedAt(u)
        <3>1. UNCHANGED <<cache, missed, expired>>
            BY <1>8, <2>1 DEF updateRecord
        <3>2. current(p, u.key) => current(p + 1, u.key)
            BY <1>1, <1>2, <1>8, <2>1, PassUpdate DEF IInv
        <3>. QED  BY <1>6, <3>1, <3>2
    <2>2. CASE ~ \E e \in cache[u.key] : GetUpdatedAt(e.row) >= GetUpdatedAt(u)
        <3>1. put(u.key, {[row |-> u, ttl |-> FALSE]})
            BY <1>8, <2>2 DEF updateRecord
        <3>2. put(u.key, IF table.keepDeleted \/ ~u.deleted
                         THEN {[row |-> u, ttl |-> FALSE]} ELSE {})
            BY <1>8, <3>1
        <3>. QED  BY <1>5, <3>2
    <2>. QED  BY <2>1, <2>2
<1>9. CASE missed' = missed \cup {u.key} /\ UNCHANGED <<cache, expired>>
    <2>1. LiveOnly'
        BY <1>1, <1>9 DEF IInv, LiveOnly
    <2>2. ASSUME NEW k \in Keys, k \notin missed'
          PROVE  \/ position' <= s /\ asOf(s, k)'
                 \/ current(p + 1, k)'
        <3>1. /\ k \notin missed /\ k # u.key /\ cache'[k] = cache[k]
              /\ k \in expired' <=> k \in expired
            BY <1>9, <2>2
        <3>. QED  BY <1>3, <1>4, <3>1
    <2>. QED  BY <1>0, <1>1, <2>1, <2>2 DEF Replayed
<1>10. \/ u.deleted /\ deleteRecord(u)
       \/ ~u.deleted /\ updateRecord(u)
       \/ missed' = missed \cup {u.key} /\ UNCHANGED <<cache, expired>>
    BY <1>0 DEF processRecord
<1>. QED  BY <1>7, <1>8, <1>9, <1>10

\* An entry that runs out is of a deleted row.
LEMMA ExpireEntry_Replayed ==
    ASSUME IInv, NEW k \in Keys, expireEntry(k)
    PROVE  DeletedInPlace' /\ LiveOnly' /\ Replayed'
<1>0. PICK p \in Nat, s \in Nat : p = position /\ s = snapshotAt
    BY DEF IInv, StateInv, TypeOK
<1>1. /\ cache' = [cache EXCEPT ![k] = {}] /\ expired' = expired \cup {k}
      /\ UNCHANGED <<table, changes, reader, snapshotAt, position, missed>>
      /\ cache \in [Keys -> SUBSET Entry]
    BY DEF expireEntry, IInv, StateInv, TypeOK
<1>2. PICK e \in cache[k] : e.ttl /\ e.row.deleted
    BY DEF expireEntry, IInv, StateInv, CacheInv
<1>3. table.keepDeleted
    BY <1>2 DEF IInv, LiveOnly
<1>4. cache'[k] = {} /\ \A l \in Keys \ {k} : cache'[l] = cache[l]
    BY <1>1
<1>5. ASSUME NEW n \in 0 .. now, asOf(n, k)
      PROVE  \A v \in wanted(n, k) : v.deleted
    <2>1. CASE k \in expired
        BY <1>5, <2>1 DEF asOf
    <2>2. ASSUME k \notin expired, NEW v \in wanted(n, k) PROVE v.deleted
        <3>1. PICK w \in cachedRows(k) : toMillisecond(w) = toMillisecond(v)
            BY <1>5, <2>2, SameRowsMembers DEF asOf
        <3>2. w \in Version /\ e.row = w
            BY <3>1, CachedRow DEF IInv
        <3>3. v \in Version
            <4>1. PICK i \in 1 .. n : v = changes[i]
                BY <2>2, RowsAt DEF wanted
            <4>. QED  BY <1>5, <4>1 DEF IInv, StateInv, TypeOK
        <3>. QED  BY <1>2, <3>1, <3>2, <3>3, ToMillisecond
    <2>. QED  BY <2>1, <2>2
<1>6. ASSUME NEW n \in 0 .. now, \A v \in wanted(n, k) : v.deleted
      PROVE  asOf(n, k)'
    <2>1. n \in Nat /\ wanted(n, k)' = wanted(n, k)
        BY <1>1, SamePrefix DEF IInv, StateInv, TypeOK
    <2>. QED  BY <1>1, <1>4, <1>6, <2>1 DEF asOf
<1>7. p \in 0 .. now /\ s \in 0 .. now
    BY <1>0 DEF IInv, StateInv, TypeOK
<1>8. asOf(s, k) => asOf(s, k)'
    BY <1>5, <1>6, <1>7
<1>9. current(p, k) => current(p, k)'
    <2>1. CASE contested(p, k)
        BY <1>1, <2>1, SamePrefix DEF current
    <2>2. CASE asOf(p, k)
        BY <1>5, <1>6, <1>7, <2>2 DEF current
    <2>3. CASE abandoned(p, k)
        <3>1. wanted(p, k) = {}
            BY <1>7, <2>3, AbandonedIsUnwanted DEF IInv
        <3>. QED  BY <1>6, <1>7, <3>1 DEF current
    <2>. QED  BY <2>1, <2>2, <2>3 DEF current
<1>10. ASSUME NEW l \in Keys \ {k}
       PROVE  (asOf(s, l)' <=> asOf(s, l)) /\ (current(p, l)' <=> current(p, l))
    BY <1>1, <1>4, SameEntry
<1>11. ASSUME NEW l \in Keys
       PROVE  (asOf(s, l) => asOf(s, l)') /\ (current(p, l) => current(p, l)')
    BY <1>8, <1>9, <1>10
<1>12. Replayed'
    BY <1>0, <1>1, <1>11 DEF IInv, Replayed
<1>13. LiveOnly'
    BY <1>1, <1>3 DEF LiveOnly
<1>. QED  BY <1>1, <1>12, <1>13, SameDeletions DEF IInv

\* A new process has not loaded anything yet.
LEMMA Restart_Replayed ==
    ASSUME IInv, Restart
    PROVE  DeletedInPlace' /\ LiveOnly' /\ Replayed'
<1>1. LiveOnly' /\ Replayed'
    BY DEF Restart, LiveOnly, Replayed
<1>. QED  BY <1>1, SameDeletions DEF IInv, Restart

\* Every step preserves the invariant.
LEMMA Next_IInv ==
    ASSUME IInv, [Next]_vars
    PROVE  IInv'
<1>1. StateInv'
    BY Next_StateInv DEF IInv
<1>2. CASE UNCHANGED vars
    <2>1. LiveOnly'
        BY <1>2 DEF IInv, LiveOnly, vars
    <2>2. PICK p \in Nat, s \in Nat : p = position /\ s = snapshotAt
        BY DEF IInv, StateInv, TypeOK
    <2>3. ASSUME NEW k \in Keys
          PROVE  (asOf(s, k)' <=> asOf(s, k)) /\ (current(p, k)' <=> current(p, k))
        BY <1>2, SameEntry DEF vars
    <2>4. Replayed'
        BY <1>2, <2>2, <2>3 DEF IInv, Replayed, vars
    <2>. QED  BY <1>1, <1>2, <2>1, <2>4, SameDeletions DEF IInv, vars
<1>. QED
    BY <1>1, <1>2, TableStep_Replayed, LoadSnapshot_Replayed,
       StartGenericConsumer_Replayed, ProcessRecord_Replayed,
       ExpireEntry_Replayed, Restart_Replayed
    DEF Next, IInv

-----------------------------------------------------------------------------
(* The theorems                                                            *)

\* In whatever order changes, snapshot and replayed records come, the cache is
\* under every key as the snapshot or as the stream, unless an operation on it
\* failed.
THEOREM CacheInvariant == Spec => []IInv
<1>1. Init => IInv
    <2>. SUFFICES ASSUME Init PROVE IInv
        OBVIOUS
    <2>1. StateInv
        BY Init_StateInv
    <2>2. Len(changes) = 0
        BY DEF Init
    <2>3. DeletedInPlace
        BY <2>2 DEF DeletedInPlace
    <2>4. LiveOnly /\ Replayed
        BY DEF Init, LiveOnly, Replayed
    <2>. QED  BY <2>1, <2>3, <2>4 DEF IInv
<1>2. IInv /\ [Next]_vars => IInv'
    BY Next_IInv
<1>. QED  BY <1>1, <1>2, PTL DEF Spec

\* When the consumer has passed what the snapshot contains, the cache is the
\* table as of the stream: nothing is resurrected, lost or downgraded.
THEOREM CacheFollowsTable == Spec => []PrefixConsistent
<1>1. IInv => PrefixConsistent
    <2>. SUFFICES ASSUME IInv, reader = "consuming", position >= snapshotAt,
                         NEW k \in Keys \ missed
                  PROVE  current(position, k)
        BY DEF PrefixConsistent
    <2>1. CASE position <= snapshotAt /\ asOf(snapshotAt, k)
        <3>1. position = snapshotAt
            BY <2>1 DEF IInv, StateInv, TypeOK
        <3>. QED  BY <2>1, <3>1 DEF current
    <2>. QED  BY <2>1 DEF IInv, Replayed
<1>. QED  BY CacheInvariant, <1>1, PTL

\* Within a process the cache changes by the snapshot, by a record of the
\* stream and by an entry that runs out.
LEMMA CacheSteps ==
    ASSUME StateInv, [Next]_vars, restarts' = restarts
    PROVE  \/ UNCHANGED cache
           \/ \A k \in Keys : cache[k] = {}
           \/ processRecord
           \/ \E k \in Keys : expireEntry(k)
<1>1. CASE tableStep
    BY <1>1 DEF tableStep, Insert, Update, SoftDelete, Rekey, change
<1>2. CASE LoadSnapshot
    BY <1>2 DEF StateInv, CacheInv, LoadSnapshot
<1>3. CASE startGenericConsumer \/ UNCHANGED vars
    BY <1>3 DEF startGenericConsumer, vars
<1>4. CASE Restart
    BY <1>4 DEF StateInv, TypeOK, Restart
<1>. QED  BY <1>1, <1>2, <1>3, <1>4 DEF Next

\* What an entry that runs out or a record leaves under a key.
LEMMA CacheAfter ==
    ASSUME StateInv, NEW k \in Keys, NEW v \in cachedRows(k),
           processRecord \/ \E l \in Keys : expireEntry(l)
    PROVE  \/ cache'[k] = cache[k]
           \/ v.deleted /\ cache'[k] = {}
           \/ \E p \in 1 .. now :
                 /\ changes[p].key = k /\ changes[p].deleted
                 /\ changes[p].id = v.id
                 /\ \A e \in cache'[k] : e.row = changes[p]
           \/ \E p \in 1 .. now :
                 /\ changes[p].key = k /\ ~changes[p].deleted
                 /\ ~(GetUpdatedAt(v) >= GetUpdatedAt(changes[p]))
                 /\ \A e \in cache'[k] : e.row = changes[p]
<1>1. ASSUME NEW l \in Keys, expireEntry(l)
      PROVE  cache'[k] = cache[k] \/ (v.deleted /\ cache'[k] = {})
    <2>1. cache' = [cache EXCEPT ![l] = {}] /\ cache \in [Keys -> SUBSET Entry]
        BY <1>1 DEF expireEntry, StateInv, TypeOK
    <2>2. CASE l = k
        <3>1. PICK e \in cache[k] : e.ttl
            BY <1>1, <2>2 DEF expireEntry
        <3>2. e.row.deleted
            BY <3>1 DEF StateInv, CacheInv
        <3>3. e.row = v
            BY CachedRow
        <3>. QED  BY <2>1, <2>2, <3>2, <3>3
    <2>3. CASE l # k
        <3>1. cache'[k] = cache[k]
            BY <2>1, <2>3
        <3>. QED  BY <3>1
    <2>. QED  BY <2>2, <2>3
<1>2. ASSUME processRecord
      PROVE  \/ cache'[k] = cache[k]
             \/ \E p \in 1 .. now :
                   /\ changes[p].key = k /\ changes[p].deleted
                   /\ changes[p].id = v.id
                   /\ \A e \in cache'[k] : e.row = changes[p]
             \/ \E p \in 1 .. now :
                   /\ changes[p].key = k /\ ~changes[p].deleted
                   /\ ~(GetUpdatedAt(v) >= GetUpdatedAt(changes[p]))
                   /\ \A e \in cache'[k] : e.row = changes[p]
    <2>1. PICK w \in Version :
             /\ position + 1 \in 1 .. now /\ w = changes[position + 1]
             /\ \/ UNCHANGED cache
                \/ \E entries \in SUBSET Entry :
                      /\ put(w.key, entries)
                      /\ w.deleted
                      /\ \E e \in cache[w.key] : e.row.id = w.id
                      /\ \A e \in entries : e = [row |-> w, ttl |-> TRUE]
                \/ /\ put(w.key, {[row |-> w, ttl |-> FALSE]})
                   /\ ~w.deleted
                   /\ \A e \in cache[w.key] :
                         ~(GetUpdatedAt(e.row) >= GetUpdatedAt(w))
        BY <1>2, RecordApplied
    <2>2. w.key \in Keys /\ cache \in [Keys -> SUBSET Entry]
        BY DEF Version, StateInv, TypeOK
    <2>3. ASSUME NEW entries, put(w.key, entries)
          PROVE  IF w.key = k THEN cache'[k] = entries
                 ELSE cache'[k] = cache[k]
        BY <2>2, <2>3 DEF put
    <2>4. CASE UNCHANGED cache
        BY <2>4
    <2>5. ASSUME NEW entries \in SUBSET Entry, put(w.key, entries), w.deleted,
                 \E e \in cache[w.key] : e.row.id = w.id,
                 \A e \in entries : e = [row |-> w, ttl |-> TRUE],
                 w.key = k
          PROVE  /\ changes[position + 1].key = k
                 /\ changes[position + 1].deleted
                 /\ changes[position + 1].id = v.id
                 /\ \A e \in cache'[k] : e.row = changes[position + 1]
        <3>1. w.id = v.id
            BY <2>5, CachedRow
        <3>2. \A e \in cache'[k] : e.row = w
            BY <2>3, <2>5, EntryFields
        <3>. QED  BY <2>1, <2>5, <3>1, <3>2
    <2>6. ASSUME put(w.key, {[row |-> w, ttl |-> FALSE]}), ~w.deleted,
                 \A e \in cache[w.key] :
                    ~(GetUpdatedAt(e.row) >= GetUpdatedAt(w)),
                 w.key = k
          PROVE  /\ changes[position + 1].key = k
                 /\ ~changes[position + 1].deleted
                 /\ ~(GetUpdatedAt(v) >= GetUpdatedAt(changes[position + 1]))
                 /\ \A e \in cache'[k] : e.row = changes[position + 1]
        <3>1. ~(GetUpdatedAt(v) >= GetUpdatedAt(w))
            BY <2>6, CachedRow
        <3>2. \A e \in cache'[k] : e.row = w
            BY <2>3, <2>6, EntryFields
        <3>. QED  BY <2>1, <2>6, <3>1, <3>2
    <2>. QED  BY <2>1, <2>3, <2>4, <2>5, <2>6
<1>. QED  BY <1>1, <1>2

\* updateRecord replaces an entry by a version of a later millisecond only, and
\* the delete path by a deleted one: no entry falls back to an older version of
\* a live row, although the stream starts long before the snapshot.
THEOREM NeverDowngraded == Spec => NoDowngrade
<1>1. ASSUME StateInv, [Next]_vars, restarts' = restarts, NEW k \in Keys,
             NEW d \in cachedRows(k), NEW e \in cachedRows(k)', ~e.deleted
      PROVE  d.updatedAt <= e.updatedAt
    <2>1. PICK f \in cache'[k] : f.row = e
        BY DEF cachedRows
    <2>2. /\ \E c \in cache[k] : c.row = d
          /\ \A c \in cache[k] : c.row = d
          /\ d \in Version
        BY <1>1, CachedRow
    <2>3. d.updatedAt \in Nat
        BY <2>2 DEF Version
    <2>4. CASE cache'[k] = cache[k]
        BY <2>1, <2>2, <2>3, <2>4
    <2>5. ASSUME NEW p \in 1 .. now, e = changes[p],
                 ~(GetUpdatedAt(d) >= GetUpdatedAt(changes[p]))
          PROVE  d.updatedAt <= e.updatedAt
        <3>1. e.updatedAt = p /\ p \in Nat
            BY <1>1, <2>5 DEF StateInv, TableInv
        <3>2. ~(d.updatedAt \div Resolution >= p \div Resolution)
            BY <2>5, <3>1 DEF GetUpdatedAt
        <3>3. ASSUME p <= d.updatedAt PROVE FALSE
            BY <2>3, <3>1, <3>2, <3>3, MillisecondsInOrder
        <3>. QED  BY <2>3, <3>1, <3>3
    <2>6. CASE processRecord \/ \E l \in Keys : expireEntry(l)
        BY <1>1, <2>1, <2>4, <2>5, <2>6, CacheAfter
    <2>. QED  BY <1>1, <2>2, <2>4, <2>6, CacheSteps
<1>2. StateInv /\ [Next]_vars =>
         [restarts' = restarts =>
             \A k \in Keys : \A d \in cachedRows(k), e \in cachedRows(k)' :
                 ~e.deleted => d.updatedAt <= e.updatedAt]_vars
    BY <1>1
<1>3. IInv => StateInv
    BY DEF IInv
<1>. QED  BY CacheInvariant, <1>2, <1>3, PTL DEF Spec, NoDowngrade

\* A live row that is cached in its last version stays: a replayed delete is of
\* another row (deleteRecord compares the ids, and a row that is deleted never
\* comes back), and a replayed update is not of a later millisecond, since
\* nobody else can have taken the key.
THEOREM CurrentRowsStay == Spec => CurrentStays
<1>1. ASSUME StateInv, [Next]_vars, restarts' = restarts, NEW k \in Keys,
             NEW v \in cachedRows(k) \cap wanted(now, k), ~v.deleted
      PROVE  v \in cachedRows(k)'
    <2>1. v \in cachedRows(k) /\ v \in rowsAt(now) /\ v.key = k
        BY DEF wanted
    <2>2. PICK j \in 1 .. now : isLast(j, now) /\ v = changes[j]
        BY <2>1, RowsAt
    <2>3. v.updatedAt = j /\ j \in Nat /\ now \in Nat
        BY <1>1, <2>2 DEF StateInv, TypeOK, TableInv
    <2>4. CASE cache'[k] = cache[k]
        BY <2>1, <2>4 DEF cachedRows
    <2>5. ASSUME NEW p \in 1 .. now, changes[p].deleted, changes[p].id = v.id
          PROVE  FALSE
        <3>1. ~(j < p)
            BY <2>2, <2>3, <2>5 DEF isLast
        <3>2. j # p
            BY <1>1, <2>2, <2>5
        <3>3. j \in p + 1 .. now
            BY <2>3, <3>1, <3>2
        <3>. QED  BY <1>1, <2>2, <2>5, <3>3 DEF StateInv, TableInv
    <2>6. ASSUME NEW p \in 1 .. now, changes[p].key = k,
                 ~(GetUpdatedAt(v) >= GetUpdatedAt(changes[p]))
          PROVE  FALSE
        <3>1. changes[p].updatedAt = p
            BY <1>1 DEF StateInv, TableInv
        <3>2. ~(j \div Resolution >= p \div Resolution)
            BY <2>3, <2>6, <3>1 DEF GetUpdatedAt
        <3>3. ~(p <= j)
            BY <2>3, <3>2, MillisecondsInOrder
        <3>4. p \in j + 1 .. now /\ isLast(j, p)
            BY <2>2, <2>3, <3>3 DEF isLast
        <3>. QED  BY <1>1, <2>1, <2>2, <2>6, <3>4 DEF StateInv, TableInv
    <2>7. CASE processRecord \/ \E l \in Keys : expireEntry(l)
        BY <1>1, <2>1, <2>4, <2>5, <2>6, <2>7, CacheAfter
    <2>8. cache[k] # {}
        BY <2>1 DEF cachedRows
    <2>. QED  BY <1>1, <2>4, <2>7, <2>8, CacheSteps
<1>2. StateInv /\ [Next]_vars =>
         [restarts' = restarts =>
             \A k \in Keys : \A v \in cachedRows(k) \cap wanted(now, k) :
                 ~v.deleted => v \in cachedRows(k)']_vars
    BY <1>1
<1>3. IInv => StateInv
    BY DEF IInv
<1>. QED  BY CacheInvariant, <1>2, <1>3, PTL DEF Spec, CurrentStays
=============================================================================
