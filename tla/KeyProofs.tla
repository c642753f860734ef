------------------------------ MODULE KeyProofs ------------------------------
(***************************************************************************)
(* Idempotency keys, for any number of clients, keys and notifications and *)
(* any sizes of batches: the theorems about IdempotencyKeys.  They rest on *)
(* what the two unique indexes keep: a key is once in each table.          *)
(***************************************************************************)
EXTENDS IdempotencyKeys, FiniteSetTheorems, TLAPS

(* The unique index of a table: no key is in two of its rows.              *)
Unique(rows) ==
    \A a, b \in rows : keyOf[a] = keyOf[b] /\ keyOf[a] # NoKey => a = b


(***************************************************************************)
(* Types.                                                                  *)
(***************************************************************************)

LEMMA AnsweredType ==
    ASSUME KeyTypeOK, NEW r \in Requests, Answered(r)
    PROVE  /\ rpc' \in [Requests -> {"idle", "lookup", "insert"}]
           /\ rkey' \in [Requests -> Keys \cup {NoKey}]
BY DEF KeyTypeOK, Answered

LEMMA InsertRowsType ==
    ASSUME TableTypeOK, NEW S \in SUBSET Ids, InsertRows(S)
    PROVE  TableTypeOK'
BY DEF TableTypeOK, InsertRows, InitialStatus, Status

LEMMA KeyTypeStep == KeyTypeOK /\ [KeyNext]_keyVars => KeyTypeOK'
<1> SUFFICES ASSUME KeyTypeOK, [KeyNext]_keyVars
             PROVE  KeyTypeOK'
  OBVIOUS
<1>1. ASSUME UNCHANGED tableVars
      PROVE  TableTypeOK'
  BY <1>1 DEF KeyTypeOK, TableTypeOK, tableVars
<1>2. ASSUME NEW r \in Requests, NEW k \in Keys \cup {NoKey}, BeginCreate(r, k)
      PROVE  KeyTypeOK'
  BY <1>1, <1>2 DEF KeyTypeOK, BeginCreate
<1>3. ASSUME NEW r \in Requests, Lookup(r)
      PROVE  KeyTypeOK'
  <2>1. CASE WithKey(table, rkey[r]) # {}
    BY <1>1, <1>3, <2>1, AnsweredType DEF KeyTypeOK, Lookup
  <2>2. CASE WithKey(table, rkey[r]) = {}
    BY <1>1, <1>3, <2>2 DEF KeyTypeOK, Lookup
  <2> QED
    BY <2>1, <2>2
<1>4. ASSUME NEW r \in Requests, NEW id \in Fresh, Insert(r, id)
      PROVE  KeyTypeOK'
  <2>1. {id} \in SUBSET Ids
    BY DEF Fresh
  <2>2. TableTypeOK'
    BY <1>4, <2>1, InsertRowsType DEF KeyTypeOK, Insert
  <2> QED
    BY <1>4, <2>2, AnsweredType DEF KeyTypeOK, Insert
<1>5. ASSUME NEW r \in Requests, InsertRefused(r)
      PROVE  KeyTypeOK'
  <2>1. rkey[r] \in Keys
    BY <1>5 DEF InsertRefused, WithKey, KeyTypeOK
  <2> QED
    BY <1>1, <1>5, <2>1, AnsweredType DEF KeyTypeOK, InsertRefused
<1>6. ASSUME NEW S \in SUBSET Fresh, NEW k \in [S -> Keys \cup {NoKey}], InsertBatch(S, k)
      PROVE  KeyTypeOK'
  <2>1. S \in SUBSET Ids
    BY DEF Fresh
  <2>2. TableTypeOK'
    BY <1>6, <2>1, InsertRowsType DEF KeyTypeOK, InsertBatch
  <2>3. keyOf' \in [Ids -> Keys \cup {NoKey}]
    BY <1>6, <2>1 DEF InsertBatch, KeyTypeOK
  <2> QED
    BY <1>6, <2>2, <2>3 DEF KeyTypeOK, InsertBatch
<1>7. ASSUME NEW id \in Ids, Complete(id)
      PROVE  KeyTypeOK'
  <2>1. TableTypeOK'
    BY <1>7 DEF Complete, UpdateStatus, KeyTypeOK, TableTypeOK, Status, NoProviderID
  <2> QED
    BY <1>7, <2>1 DEF KeyTypeOK, Complete
<1>8. ASSUME NEW id \in Ids, Age(id)
      PROVE  KeyTypeOK'
  BY <1>1, <1>8 DEF KeyTypeOK, Age
<1>9. ASSUME NEW S \in ToArchive, ArchiveRows(S)
      PROVE  KeyTypeOK'
  <2>1. S \in SUBSET table
    BY DEF ToArchive, Archivable
  <2>2. TableTypeOK'
    <3>1. CASE UniqueIn(archive, S, keyOf)
      BY <1>9, <2>1, <3>1 DEF ArchiveRows, Archive, KeyTypeOK, TableTypeOK
    <3>2. CASE ~ UniqueIn(archive, S, keyOf)
      BY <1>1, <1>9, <3>2 DEF ArchiveRows
    <3> QED
      BY <3>1, <3>2
  <2> QED
    BY <1>9, <2>2 DEF KeyTypeOK, ArchiveRows
<1>10. CASE UNCHANGED keyVars
  BY <1>1, <1>10 DEF keyVars, KeyTypeOK
<1> QED
  BY <1>2, <1>3, <1>4, <1>5, <1>6, <1>7, <1>8, <1>9, <1>10 DEF KeyNext, ArchiveTick

(* The tables of the service keep their types, whatever clients send.      *)
THEOREM KeysAreTyped == KeySpec => []KeyTypeOK
<1>1. KeyInit => KeyTypeOK
  BY DEF KeyInit, TableInit, KeyTypeOK, TableTypeOK, NoProviderID
<1> QED
  BY <1>1, KeyTypeStep, PTL DEF KeySpec

(***************************************************************************)
(* The unique indexes.                                                     *)
(***************************************************************************)

(* New rows with new keys keep a table unique, and leave the other alone.  *)
LEMMA InsertKeepsUnique ==
    ASSUME KeyTypeOK, Unique(table), Unique(archive),
           NEW S \in SUBSET Fresh, NEW k \in [S -> Keys \cup {NoKey}],
           UniqueIn(table, S, k), InsertRows(S),
           keyOf' = [id \in Ids |-> IF id \in S THEN k[id] ELSE keyOf[id]]
    PROVE  Unique(table)' /\ Unique(archive)'
<1>1. /\ table \in SUBSET Ids /\ archive \in SUBSET Ids /\ S \in SUBSET Ids
      /\ S \cap table = {} /\ S \cap archive = {}
      /\ table' = table \cup S /\ archive' = archive
  BY DEF KeyTypeOK, TableTypeOK, Fresh, InsertRows
<1>2. \A id \in S : keyOf'[id] = k[id]
  BY <1>1
<1>3. \A id \in table \cup archive : keyOf'[id] = keyOf[id]
  BY <1>1
<1>4. Unique(archive)'
  BY <1>1, <1>3 DEF Unique
<1>5. ASSUME NEW a \in table', NEW b \in table', keyOf'[a] = keyOf'[b], keyOf'[a] # NoKey
      PROVE  a = b
  <2>1. CASE a \in table /\ b \in table
    BY <1>3, <1>5, <2>1 DEF Unique
  <2>2. CASE a \in S /\ b \in S
    BY <1>2, <1>5, <2>2 DEF UniqueIn
  <2>3. \A c \in S, d \in table : k[c] = keyOf[d] => k[c] = NoKey
    BY DEF UniqueIn, WithKey
  <2>4. CASE a \in S /\ b \in table
    BY <1>2, <1>3, <1>5, <2>3, <2>4
  <2>5. CASE a \in table /\ b \in S
    BY <1>2, <1>3, <1>5, <2>3, <2>5
  <2> QED
    BY <1>1, <2>1, <2>2, <2>4, <2>5
<1> QED
  BY <1>4, <1>5 DEF Unique

LEMMA UniqueStep ==
    KeyTypeOK /\ Unique(table) /\ Unique(archive) /\ [KeyNext]_keyVars
        => Unique(table)' /\ Unique(archive)'
<1> SUFFICES ASSUME KeyTypeOK, Unique(table), Unique(archive), [KeyNext]_keyVars
             PROVE  Unique(table)' /\ Unique(archive)'
  OBVIOUS
<1>1. ASSUME UNCHANGED <<table, archive, keyOf>>
      PROVE  Unique(table)' /\ Unique(archive)'
  BY <1>1 DEF Unique
<1>2. ASSUME NEW r \in Requests, NEW k \in Keys \cup {NoKey}, BeginCreate(r, k)
      PROVE  Unique(table)' /\ Unique(archive)'
  BY <1>1, <1>2 DEF BeginCreate, tableVars
<1>3. ASSUME NEW r \in Requests, Lookup(r)
      PROVE  Unique(table)' /\ Unique(archive)'
  BY <1>1, <1>3 DEF Lookup, tableVars
<1>4. ASSUME NEW r \in Requests, NEW id \in Fresh, Insert(r, id)
      PROVE  Unique(table)' /\ Unique(archive)'
  <2> DEFINE k == [i \in {id} |-> rkey[r]]
  <2>1. k \in [{id} -> Keys \cup {NoKey}] /\ {id} \in SUBSET Fresh
    BY DEF KeyTypeOK
  <2>2. UniqueIn(table, {id}, k) /\ InsertRows({id})
    BY <1>4 DEF Insert, UniqueIn
  <2>3. keyOf' = [i \in Ids |-> IF i \in {id} THEN k[i] ELSE keyOf[i]]
    BY <1>4 DEF Insert, KeyTypeOK
  <2> HIDE DEF k
  <2> QED
    BY <2>1, <2>2, <2>3, InsertKeepsUnique
<1>5. ASSUME NEW r \in Requests, InsertRefused(r)
      PROVE  Unique(table)' /\ Unique(archive)'
  BY <1>1, <1>5 DEF InsertRefused, tableVars
<1>6. ASSUME NEW S \in SUBSET Fresh, NEW k \in [S -> Keys \cup {NoKey}], InsertBatch(S, k)
      PROVE  Unique(table)' /\ Unique(archive)'
  BY <1>6, InsertKeepsUnique DEF InsertBatch
<1>7. ASSUME NEW id \in Ids, Complete(id)
      PROVE  Unique(table)' /\ Unique(archive)'
  BY <1>1, <1>7 DEF Complete, UpdateStatus
<1>8. ASSUME NEW id \in Ids, Age(id)
      PROVE  Unique(table)' /\ Unique(archive)'
  BY <1>1, <1>8 DEF Age, tableVars
<1>9. ASSUME NEW S \in ToArchive, ArchiveRows(S)
      PROVE  Unique(table)' /\ Unique(archive)'
  <2>1. S \in SUBSET table /\ keyOf' = keyOf
    BY <1>9 DEF ToArchive, Archivable, ArchiveRows
  <2>2. CASE UniqueIn(archive, S, keyOf)
    <3>1. table' \subseteq table /\ archive' = archive \cup S
      BY <1>9, <2>1, <2>2 DEF ArchiveRows, Archive
    <3>2. \A c \in S, d \in archive : keyOf[c] = keyOf[d] => keyOf[c] = NoKey
      BY <2>2 DEF UniqueIn, WithKey
    <3> QED
      BY <2>1, <3>1, <3>2 DEF Unique
  <2>3. CASE ~ UniqueIn(archive, S, keyOf)
    BY <1>1, <1>9, <2>3 DEF ArchiveRows, tableVars
  <2> QED
    BY <2>2, <2>3
<1>10. CASE UNCHANGED keyVars
  BY <1>1, <1>10 DEF keyVars, tableVars
<1> QED
  BY <1>2, <1>3, <1>4, <1>5, <1>6, <1>7, <1>8, <1>9, <1>10 DEF KeyNext, ArchiveTick

LEMMA AlwaysUnique == KeySpec => [](KeyTypeOK /\ Unique(table) /\ Unique(archive))
<1>1. KeyInit => Unique(table) /\ Unique(archive)
  BY DEF KeyInit, TableInit, Unique
<1> QED
  BY <1>1, UniqueStep, KeysAreTyped, PTL DEF KeySpec

LEMMA OneWithKey ==
    ASSUME NEW rows, Unique(rows), NEW k
    PROVE  \E id : WithKey(rows, k) \subseteq {id}
BY DEF Unique, WithKey

LEMMA AtMostTwo ==
    ASSUME NEW S, NEW a, NEW b, S \subseteq {a, b}
    PROVE  Cardinality(S) <= 2
<1>1. IsFiniteSet({a}) /\ Cardinality({a}) = 1
  BY FS_Singleton
<1>2. IsFiniteSet({a, b}) /\ Cardinality({a, b}) <= 2
  <2>1. {a, b} = {a} \cup {b}
    OBVIOUS
  <2>2. /\ IsFiniteSet({a} \cup {b})
        /\ Cardinality({a} \cup {b}) = IF b \in {a} THEN 1 ELSE 1 + 1
    BY <1>1, FS_AddElement
  <2> QED
    BY <2>1, <2>2
<1>3. /\ Cardinality(S) <= Cardinality({a, b})
      /\ Cardinality(S) \in Nat /\ Cardinality({a, b}) \in Nat
  BY <1>2, FS_Subset, FS_CardinalityType
<1> QED
  BY <1>2, <1>3

(* The lookup of Create and its INSERT are two statements, batches do not  *)
(* look keys up, and the archive moves rows in between: still the unique   *)
(* indexes of notifications and notifications_archive leave no more than   *)
(* two notifications with a key.                                           *)
THEOREM KeysAreUsedTwiceAtMost == KeySpec => []AtMostTwoPerKey
<1>1. Unique(table) /\ Unique(archive) => AtMostTwoPerKey
  <2> SUFFICES ASSUME Unique(table), Unique(archive), NEW k \in Keys
               PROVE  Cardinality(WithKey(table \cup archive, k)) <= 2
    BY DEF AtMostTwoPerKey
  <2>1. PICK a : WithKey(table, k) \subseteq {a}
    BY OneWithKey
  <2>2. PICK b : WithKey(archive, k) \subseteq {b}
    BY OneWithKey
  <2>3. WithKey(table \cup archive, k) \subseteq {a, b}
    BY <2>1, <2>2 DEF WithKey
  <2> QED
    BY <2>3, AtMostTwo
<1> QED
  BY <1>1, AlwaysUnique, PTL

=============================================================================
