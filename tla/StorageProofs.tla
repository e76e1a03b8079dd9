----------------------------- MODULE StorageProofs -----------------------------
(***************************************************************************)
(* Proofs about MemoryStorageService and the ReplayCache that keeps its    *)
(* values there, for any threads, contexts, keys, data, times and bounds.  *)
(***************************************************************************)
EXTENDS ReplayCache, TLAPS

-----------------------------------------------------------------------------
(***************************************************************************)
(* MemoryStorageService: the types, and that it implements StorageService. *)
(* Each call maps to the call of the same name, the reaping of expired     *)
(* records and the first half of a read to a step that changes nothing.    *)
(***************************************************************************)
Records(records) == DOMAIN records \subseteq Key /\ records \in [DOMAIN records -> Record]

LEMMA WrittenRecords == ASSUME TypeOK, NEW c \in Context PROVE Records(WriteContext(c))
BY DEF TypeOK, WriteContext, Empty, Records

LEMMA SetRecords ==
    ASSUME TypeOK, NEW c \in Context, NEW records, Records(records),
           SetContext(c, records), UNCHANGED now,
           upgrading' \in [Caller -> (Context \X Key \X (0..MaxVersion)) \cup {NoRead}]
    PROVE  TypeOK'
BY DEF TypeOK, SetContext, Put, Records

LEMMA InitTypeOK == Init => TypeOK
BY StorageAssumption DEF Init, TypeOK, Time, Empty

LEMMA PutRecords ==
    ASSUME NEW records, Records(records), NEW k \in Key, NEW r \in Record
    PROVE  Records(Put(records, k, r))
BY DEF Records, Put

LEMMA EraseRecords ==
    ASSUME NEW records, Records(records), NEW keys
    PROVE  Records(Erase(records, keys))
BY DEF Records, Erase

\* The record that an update makes.
LEMMA UpdatedRecord ==
    ASSUME NEW r \in Record, NEW data \in Data \cup {NoData}, NEW expiration \in Time,
           Updated(r, data, expiration).version <= MaxVersion
    PROVE  Updated(r, data, expiration) \in Record
BY StorageAssumption DEF Updated, Record, Time

LEMMA NextTypeOK == TypeOK /\ [Next]_vars => TypeOK'
<1> SUFFICES ASSUME TypeOK, [Next]_vars PROVE TypeOK'
  OBVIOUS
<1>0. upgrading \in [Caller -> (Context \X Key \X (0..MaxVersion)) \cup {NoRead}]
  BY DEF TypeOK
<1>1. CASE UNCHANGED vars
  BY <1>1 DEF vars, TypeOK
<1>2. CASE Tick
  BY <1>2, StorageAssumption DEF Tick, TypeOK, Time
<1>3. ASSUME NEW c \in Context, NEW k \in Key, NEW data \in Data, NEW expiration \in Time,
             CreateString(c, k, data, expiration)
      PROVE  TypeOK'
  <2>1. [data |-> data, version |-> 1, expiration |-> expiration] \in Record
    BY StorageAssumption DEF Record
  <2> QED BY <1>0, <1>3, <2>1, WrittenRecords, PutRecords, SetRecords DEF CreateString
<1>4. ASSUME NEW c \in Context, NEW k \in Key, NEW version \in 0..MaxVersion,
             ReadString(c, k, version)
      PROVE  TypeOK'
  BY <1>4 DEF ReadString, TypeOK
<1>5. ASSUME NEW c \in Context, NEW k \in Key, NEW version \in 0..MaxVersion, NEW p \in Caller,
             ReadContextMiss(p, c, k, version)
      PROVE  TypeOK'
  BY <1>5 DEF ReadContextMiss, TypeOK
<1>6. ASSUME NEW c \in Context, NEW k \in Key, NEW version \in 0..MaxVersion, NEW p \in Caller,
             ReadStringUpgraded(p, c, k, version)
      PROVE  TypeOK'
  <2>1. upgrading' \in [Caller -> (Context \X Key \X (0..MaxVersion)) \cup {NoRead}]
    BY <1>0, <1>6 DEF ReadStringUpgraded
  <2> QED BY <1>6, <2>1, WrittenRecords, SetRecords DEF ReadStringUpgraded
<1>7. ASSUME NEW c \in Context, NEW k \in Key, NEW data \in Data \cup {NoData},
             NEW expiration \in Time, NEW version \in 0..MaxVersion,
             UpdateString(c, k, data, expiration, version)
      PROVE  TypeOK'
  <2>1. CASE SetContext(c, WriteContext(c))
    BY <1>0, <1>7, <2>1, WrittenRecords, SetRecords DEF UpdateString
  <2>2. CASE ~SetContext(c, WriteContext(c))
    <3> DEFINE new == Updated(WriteContext(c)[k], data, expiration)
    <3>1. FindAlive(c, k) /\ new.version <= MaxVersion
          /\ SetContext(c, Put(WriteContext(c), k, new)) /\ UNCHANGED <<now, upgrading>>
      BY <1>7, <2>2 DEF UpdateString
    <3>2. WriteContext(c)[k] \in Record
      BY <3>1, WrittenRecords DEF FindAlive, Find, Records
    <3>3. new \in Record
      BY <3>1, <3>2, UpdatedRecord
    <3>4. Records(Put(WriteContext(c), k, new))
      BY <3>3, WrittenRecords, PutRecords
    <3> QED BY <1>0, <3>1, <3>4, SetRecords
  <2> QED BY <2>1, <2>2
<1>8. ASSUME NEW c \in Context, NEW k \in Key, DeleteString(c, k)
      PROVE  TypeOK'
  BY <1>0, <1>8, WrittenRecords, EraseRecords, SetRecords DEF DeleteString
<1>9. ASSUME NEW c \in Context, NEW expiration \in Time, UpdateContext(c, expiration)
      PROVE  TypeOK'
  <2>1. Records([k \in DOMAIN WriteContext(c) |->
                    IF Expired(WriteContext(c)[k]) THEN WriteContext(c)[k]
                    ELSE [WriteContext(c)[k] EXCEPT !.expiration = expiration]])
    BY WrittenRecords DEF Records, Record
  <2> QED BY <1>0, <1>9, <2>1, SetRecords DEF UpdateContext
<1>10. ASSUME NEW c \in Context, DeleteContext(c)
       PROVE  TypeOK'
  BY <1>10 DEF DeleteContext, Erase, TypeOK
<1>11. ASSUME NEW c \in Context, Reap(c)
       PROVE  TypeOK'
  BY <1>0, <1>11, WrittenRecords, EraseRecords, SetRecords DEF Reap, Reaped
<1>12. CASE Cleanup
  BY <1>12 DEF Cleanup, Reaped, Erase, TypeOK
<1> QED BY <1>1, <1>2, <1>3, <1>4, <1>5, <1>6, <1>7, <1>8, <1>9, <1>10, <1>11, <1>12 DEF Next

(***************************************************************************)
(* Every stored record has data, a version of at least 1 and a time, under *)
(* a context and a key (Record and Context of MemoryStorageService.cpp).   *)
(***************************************************************************)
THEOREM TypeCorrect == Spec => []TypeOK
BY InitTypeOK, NextTypeOK, PTL DEF Spec
-----------------------------------------------------------------------------
(***************************************************************************)
(* What a client sees.                                                     *)
(***************************************************************************)
Visible == Seen(contexts, now)

LEMMA SeenAt ==
    ASSUME TypeOK, NEW c \in Context, NEW k \in Key
    PROVE  Visible[<<c, k>>] = IF FindAlive(c, k) THEN WriteContext(c)[k] ELSE NoRecord
<1>1. CASE c \in DOMAIN contexts
  <2>1. WriteContext(c) = contexts[c]
    BY <1>1 DEF WriteContext
  <2>2. Find(c, k) <=> k \in DOMAIN contexts[c]
    BY <2>1 DEF Find
  <2>3. Visible[<<c, k>>] = IF k \in DOMAIN contexts[c] /\ now < contexts[c][k].expiration
                            THEN contexts[c][k] ELSE NoRecord
    BY <1>1 DEF Visible, Seen
  <2>4. k \in DOMAIN contexts[c] => contexts[c][k] \in Record
    BY <1>1 DEF TypeOK
  <2>5. k \in DOMAIN contexts[c] =>
          (now < contexts[c][k].expiration <=> ~Expired(contexts[c][k]))
    BY <2>4 DEF TypeOK, Record, Time, Expired
  <2> QED BY <2>1, <2>2, <2>3, <2>5 DEF FindAlive
<1>2. CASE c \notin DOMAIN contexts
  BY <1>2 DEF Visible, Seen, FindAlive, Find, WriteContext, Empty
<1> QED BY <1>1, <1>2

\* A record that is found cannot be taken for none.
LEMMA SeenSome ==
    ASSUME TypeOK, NEW c \in Context, NEW k \in Key
    PROVE  /\ Visible[<<c, k>>] = NoRecord <=> ~FindAlive(c, k)
           /\ FindAlive(c, k) => WriteContext(c)[k] \in Record
<1>1. FindAlive(c, k) => WriteContext(c)[k] \in Record
  BY WrittenRecords DEF FindAlive, Find, Records
<1>2. \A r \in Record : r # NoRecord
  BY DEF Record, NoRecord
<1> QED BY <1>1, <1>2, SeenAt

\* What is seen once context c holds records.
LEMMA SeenSet ==
    ASSUME NEW c \in Context, NEW records, SetContext(c, records), UNCHANGED now
    PROVE  Visible' = [s \in Context \X Key |->
                          IF s[1] = c
                          THEN IF s[2] \in DOMAIN records /\ now < records[s[2]].expiration
                               THEN records[s[2]] ELSE NoRecord
                          ELSE Visible[s]]
BY DEF Visible, Seen, SetContext, Put

\* Records that look the same leave what is seen as it is.
LEMMA SeenSame ==
    ASSUME TypeOK, NEW c \in Context, NEW records, SetContext(c, records), UNCHANGED now,
           \A k \in Key : IF k \in DOMAIN records /\ now < records[k].expiration
                          THEN FindAlive(c, k) /\ records[k] = WriteContext(c)[k]
                          ELSE ~FindAlive(c, k)
    PROVE  Visible' = Visible
<1>1. \A s \in Context \X Key : s[1] = c => Visible'[s] = Visible[s]
  <2> SUFFICES ASSUME NEW k \in Key PROVE Visible'[<<c, k>>] = Visible[<<c, k>>]
    OBVIOUS
  <2>1. Visible'[<<c, k>>] = IF k \in DOMAIN records /\ now < records[k].expiration
                             THEN records[k] ELSE NoRecord
    BY SeenSet
  <2> QED BY <2>1, SeenAt
<1>2. \A s \in Context \X Key : s[1] # c => Visible'[s] = Visible[s]
  BY SeenSet
<1> QED BY <1>1, <1>2 DEF Visible, Seen

LEMMA SeenRewritten ==
    ASSUME TypeOK, NEW c \in Context, SetContext(c, WriteContext(c)), UNCHANGED now
    PROVE  Visible' = Visible
<1>1. \A k \in Key : Find(c, k) =>
        (now < WriteContext(c)[k].expiration <=> ~Expired(WriteContext(c)[k]))
  BY WrittenRecords DEF Find, Records, TypeOK, Record, Time, Expired
<1> QED BY <1>1, SeenSame DEF FindAlive, Find

\* One record is written.
LEMMA SeenPut ==
    ASSUME TypeOK, NEW c \in Context, NEW k \in Key, NEW r, UNCHANGED now,
           SetContext(c, Put(WriteContext(c), k, r))
    PROVE  Visible' = [Visible EXCEPT ![<<c, k>>] = IF now < r.expiration THEN r ELSE NoRecord]
<1>1. \A s \in Context \X Key : s # <<c, k>> => Visible'[s] = Visible[s]
  <2> SUFFICES ASSUME NEW d \in Context, NEW j \in Key, <<d, j>> # <<c, k>>
               PROVE  Visible'[<<d, j>>] = Visible[<<d, j>>]
    OBVIOUS
  <2>1. CASE d = c
    <3>1. Visible'[<<d, j>>] =
            IF j \in DOMAIN WriteContext(c) /\ now < WriteContext(c)[j].expiration
            THEN WriteContext(c)[j] ELSE NoRecord
      BY <2>1, SeenSet DEF Put
    <3>2. Find(c, j) => (now < WriteContext(c)[j].expiration <=> ~Expired(WriteContext(c)[j]))
      BY WrittenRecords DEF Find, Records, TypeOK, Record, Time, Expired
    <3> QED BY <2>1, <3>1, <3>2, SeenAt DEF FindAlive, Find
  <2>2. CASE d # c
    BY <2>2, SeenSet
  <2> QED BY <2>1, <2>2
<1>2. Visible'[<<c, k>>] = IF now < r.expiration THEN r ELSE NoRecord
  BY SeenSet DEF Put
<1>3. /\ Visible = [s \in Context \X Key |-> Visible[s]]
      /\ Visible' = [s \in Context \X Key |-> Visible'[s]]
  BY DEF Visible, Seen
<1> QED BY <1>1, <1>2, <1>3
-----------------------------------------------------------------------------
(***************************************************************************)
(* Each step is one of the abstract service, or changes nothing there.     *)
(***************************************************************************)
LEMMA InitRefines == Init => Storage!StorageInit
BY DEF Init, Storage!StorageInit, Storage!NoRet, Storage!NoRecord, Storage!Slot,
       Seen, NoRecord

LEMMA TickRefines ==
    ASSUME TypeOK, Tick
    PROVE  Storage!Tick
<1>1. \A c \in Context, k \in Key :
        Visible'[<<c, k>>] = Storage!Alive(Visible[<<c, k>>], now + 1)
  <2> SUFFICES ASSUME NEW c \in Context, NEW k \in Key
               PROVE  Visible'[<<c, k>>] = Storage!Alive(Visible[<<c, k>>], now + 1)
    OBVIOUS
  <2>1. contexts' = contexts /\ now' = now + 1 /\ now \in Nat
    BY DEF Tick, TypeOK, Time
  <2>2. CASE c \in DOMAIN contexts /\ k \in DOMAIN contexts[c]
    <3>1. contexts[c][k].expiration \in Nat
      BY <2>2 DEF TypeOK, Record, Time
    <3> QED BY <2>1, <2>2, <3>1 DEF Visible, Seen, Storage!Alive, NoRecord, Storage!NoRecord
  <2>3. CASE ~(c \in DOMAIN contexts /\ k \in DOMAIN contexts[c])
    BY <2>1, <2>3 DEF Visible, Seen, Storage!Alive, NoRecord, Storage!NoRecord
  <2> QED BY <2>2, <2>3
<1>2. Visible' = [s \in Context \X Key |-> Storage!Alive(Visible[s], now + 1)]
  BY <1>1 DEF Visible, Seen
<1> QED BY <1>2 DEF Tick, Visible, Storage!Tick, Storage!Slot, Storage!NoRet

LEMMA CreateRefines ==
    ASSUME TypeOK, NEW c \in Context, NEW k \in Key, NEW data \in Data, NEW expiration \in Time,
           CreateString(c, k, data, expiration)
    PROVE  Storage!Create(<<c, k>>, data, expiration)
<1> DEFINE new == [data |-> data, version |-> 1, expiration |-> expiration]
<1>1. (Visible[<<c, k>>] = NoRecord) = ~FindAlive(c, k)
  BY SeenSome
<1>2. ret' = Storage!Done("create", Visible[<<c, k>>] = NoRecord) /\ UNCHANGED now
  BY <1>1 DEF CreateString, Done, Storage!Done
<1>3. CASE FindAlive(c, k)
  <2>1. Visible' = Visible
    BY <1>3, SeenRewritten DEF CreateString
  <2> QED BY <1>1, <1>2, <1>3, <2>1 DEF Visible, Storage!Create, Storage!NoRecord, NoRecord
<1>4. CASE ~FindAlive(c, k)
  <2>1. Visible' = [Visible EXCEPT ![<<c, k>>] =
                       IF now < new.expiration THEN new ELSE NoRecord]
    BY <1>4, SeenPut DEF CreateString
  <2> QED BY <1>1, <1>2, <1>4, <2>1 DEF Visible, Storage!Create, Storage!NoRecord, NoRecord,
                                        Storage!Alive, Storage!Created
<1> QED BY <1>3, <1>4

LEMMA LookupRefines ==
    ASSUME TypeOK, NEW c \in Context, NEW k \in Key, NEW version \in 0..MaxVersion,
           ret' = Lookup(c, k, version), Visible' = Visible, UNCHANGED now
    PROVE  Storage!Read(<<c, k>>, version)
BY SeenAt DEF Visible, Lookup, Fetched, Copied, Storage!Read, Storage!Fetched, Storage!Copied

LEMMA ReadRefines ==
    ASSUME TypeOK, NEW c \in Context, NEW k \in Key, NEW version \in 0..MaxVersion,
           \/ ReadString(c, k, version)
           \/ \E p \in Caller : ReadStringUpgraded(p, c, k, version)
    PROVE  Storage!Read(<<c, k>>, version)
<1>1. CASE ReadString(c, k, version)
  BY <1>1, LookupRefines DEF ReadString, Visible
<1>2. CASE \E p \in Caller : ReadStringUpgraded(p, c, k, version)
  <2>1. Visible' = Visible
    BY <1>2, SeenRewritten DEF ReadStringUpgraded
  <2> QED BY <1>2, <2>1, LookupRefines DEF ReadStringUpgraded
<1> QED BY <1>1, <1>2

LEMMA UpdateRefines ==
    ASSUME TypeOK, NEW c \in Context, NEW k \in Key, NEW data \in Data \cup {NoData},
           NEW expiration \in Time, NEW version \in 0..MaxVersion,
           UpdateString(c, k, data, expiration, version)
    PROVE  Storage!Update(<<c, k>>, data, expiration, version)
<1> DEFINE old == WriteContext(c)[k]
           new == Updated(old, data, expiration)
<1>1. CASE ~FindAlive(c, k)
  <2>1. Visible' = Visible /\ ret' = Numbered(0) /\ UNCHANGED now
    BY <1>1, SeenRewritten DEF UpdateString
  <2> QED BY <1>1, <2>1, SeenSome DEF Visible, Storage!Update, Numbered, Storage!Numbered,
                                      NoRecord, Storage!NoRecord
<1>2. CASE FindAlive(c, k) /\ ~InSync(old, version)
  <2>1. Visible' = Visible /\ ret' = Numbered(-1) /\ UNCHANGED now
    BY <1>2, SeenRewritten DEF UpdateString
  <2> QED BY <1>2, <2>1, SeenSome, SeenAt DEF Visible, Storage!Update, Numbered,
             Storage!Numbered, NoRecord, Storage!NoRecord, InSync, Storage!InSync
<1>3. CASE FindAlive(c, k) /\ InSync(old, version)
  <2>1. SetContext(c, Put(WriteContext(c), k, new)) /\ ret' = Numbered(new.version) /\ UNCHANGED now
    BY <1>3 DEF UpdateString
  <2>2. Visible' = [Visible EXCEPT ![<<c, k>>] =
                       IF now < new.expiration THEN new ELSE NoRecord]
    BY <2>1, SeenPut
  <2>3. Visible[<<c, k>>] = old /\ Visible[<<c, k>>] # NoRecord
    BY <1>3, SeenSome, SeenAt
  <2>4. new = Storage!Updated(old, data, expiration) /\ Storage!InSync(old, version)
    BY <1>3 DEF Updated, Storage!Updated, InSync, Storage!InSync
  <2> QED BY <2>1, <2>2, <2>3, <2>4 DEF Visible, Storage!Update, Storage!Alive, Numbered,
             Storage!Numbered, NoRecord, Storage!NoRecord
<1> QED BY <1>1, <1>2, <1>3

LEMMA DeleteRefines ==
    ASSUME TypeOK, NEW c \in Context, NEW k \in Key, DeleteString(c, k)
    PROVE  Storage!Delete(<<c, k>>)
<1>1. SetContext(c, Erase(WriteContext(c), {k})) /\ UNCHANGED now
      /\ ret' = Done("delete", Find(c, k))
  BY DEF DeleteString
<1>2. \A d \in Context, j \in Key :
        Visible'[<<d, j>>] = IF d = c /\ j = k THEN NoRecord ELSE Visible[<<d, j>>]
  <2> SUFFICES ASSUME NEW d \in Context, NEW j \in Key
               PROVE  Visible'[<<d, j>>] = IF d = c /\ j = k THEN NoRecord ELSE Visible[<<d, j>>]
    OBVIOUS
  <2>1. CASE d = c
    <3>1. Find(c, j) => (now < WriteContext(c)[j].expiration <=> ~Expired(WriteContext(c)[j]))
      BY WrittenRecords DEF Find, Records, TypeOK, Record, Time, Expired
    <3> QED BY <1>1, <2>1, <3>1, SeenSet, SeenAt DEF Erase, FindAlive, Find
  <2>2. CASE d # c
    BY <1>1, <2>2, SeenSet
  <2> QED BY <2>1, <2>2
<1>3. Visible' = [Visible EXCEPT ![<<c, k>>] = NoRecord]
  <2>1. /\ Visible = [s \in Context \X Key |-> Visible[s]]
        /\ Visible' = [s \in Context \X Key |-> Visible'[s]]
    BY DEF Visible, Seen
  <2>2. \A s \in Context \X Key : s # <<c, k>> => Visible'[s] = Visible[s]
    BY <1>2
  <2>3. Visible'[<<c, k>>] = NoRecord
    BY <1>2
  <2> QED BY <2>1, <2>2, <2>3
<1>4. Visible[<<c, k>>] # NoRecord => Find(c, k)
  BY SeenSome DEF FindAlive
<1>5. Find(c, k) \in BOOLEAN
  BY DEF Find
<1> QED BY <1>1, <1>3, <1>4, <1>5 DEF Visible, Storage!Delete, Done, Storage!Done, NoRecord,
                                      Storage!NoRecord

LEMMA UpdateContextRefines ==
    ASSUME TypeOK, NEW c \in Context, NEW expiration \in Time, UpdateContext(c, expiration)
    PROVE  Storage!UpdateContext(c, expiration)
<1> DEFINE records == [k \in DOMAIN WriteContext(c) |->
                          IF Expired(WriteContext(c)[k]) THEN WriteContext(c)[k]
                          ELSE [WriteContext(c)[k] EXCEPT !.expiration = expiration]]
           longer(r) == [r EXCEPT !.expiration = expiration]
<1>1. SetContext(c, records) /\ UNCHANGED now /\ ret' = [call |-> "none"]
  BY DEF UpdateContext
<1>2. ASSUME NEW k \in Key
      PROVE  Visible'[<<c, k>>] = IF Visible[<<c, k>>] # NoRecord
                                  THEN Storage!Alive(longer(Visible[<<c, k>>]), now)
                                  ELSE NoRecord
  <2>1. Visible'[<<c, k>>] = IF k \in DOMAIN records /\ now < records[k].expiration
                             THEN records[k] ELSE NoRecord
    <3> HIDE DEF records
    <3> QED BY <1>1, SeenSet
  <2>2. Find(c, k) => WriteContext(c)[k] \in Record
    BY WrittenRecords DEF Find, Records
  <2>3. CASE FindAlive(c, k)
    <3>1. records[k] = longer(WriteContext(c)[k]) /\ k \in DOMAIN records
      BY <2>3 DEF FindAlive, Find
    <3>2. Visible[<<c, k>>] = WriteContext(c)[k] /\ Visible[<<c, k>>] # NoRecord
      BY <2>3, SeenSome, SeenAt
    <3>3. longer(WriteContext(c)[k]).expiration = expiration
      BY <2>2, <2>3 DEF FindAlive, Record
    <3> QED BY <2>1, <3>1, <3>2, <3>3 DEF Storage!Alive, NoRecord, Storage!NoRecord
  <2>4. CASE Find(c, k) /\ Expired(WriteContext(c)[k])
    <3>1. records[k] = WriteContext(c)[k]
      BY <2>4 DEF Find
    <3>2. ~(now < WriteContext(c)[k].expiration)
      BY <2>2, <2>4 DEF TypeOK, Record, Time, Expired
    <3> QED BY <2>1, <2>4, <3>1, <3>2, SeenAt DEF FindAlive
  <2>5. CASE ~Find(c, k)
    BY <2>1, <2>5, SeenAt DEF FindAlive, Find
  <2> QED BY <2>3, <2>4, <2>5 DEF FindAlive
<1>3. \A s \in Context \X Key :
        Visible'[s] = IF s[1] = c /\ Visible[s] # NoRecord
                      THEN Storage!Alive(longer(Visible[s]), now) ELSE Visible[s]
  <2> SUFFICES ASSUME NEW d \in Context, NEW k \in Key
               PROVE  Visible'[<<d, k>>] = IF d = c /\ Visible[<<d, k>>] # NoRecord
                                           THEN Storage!Alive(longer(Visible[<<d, k>>]), now)
                                           ELSE Visible[<<d, k>>]
    OBVIOUS
  <2>1. CASE d = c
    BY <1>2, <2>1
  <2>2. CASE d # c
    BY <1>1, <2>2, SeenSet
  <2> QED BY <2>1, <2>2
<1>4. Visible' = [s \in Context \X Key |-> Visible'[s]]
  BY DEF Visible, Seen
<1> QED BY <1>1, <1>3, <1>4 DEF Visible, Storage!UpdateContext, Storage!Slot, Storage!NoRet,
                                NoRecord, Storage!NoRecord

LEMMA DeleteContextRefines ==
    ASSUME TypeOK, NEW c \in Context, DeleteContext(c)
    PROVE  Storage!DeleteContext(c)
<1>1. Visible' = [s \in Context \X Key |-> IF s[1] = c THEN NoRecord ELSE Visible[s]]
  BY DEF DeleteContext, Visible, Seen, Erase
<1> QED BY <1>1 DEF DeleteContext, Visible, Storage!DeleteContext, Storage!Slot, Storage!NoRet,
                    NoRecord, Storage!NoRecord

\* Expired records go, which nobody sees.
LEMMA ReapUnseen ==
    ASSUME TypeOK, Cleanup \/ \E c \in Context : Reap(c)
    PROVE  Visible' = Visible /\ UNCHANGED <<now, ret>>
<1>1. ASSUME NEW c \in Context, Reap(c)
      PROVE  Visible' = Visible /\ UNCHANGED <<now, ret>>
  <2>1. \A k \in Key : Find(c, k) =>
          (now < WriteContext(c)[k].expiration <=> ~Expired(WriteContext(c)[k]))
    BY WrittenRecords DEF Find, Records, TypeOK, Record, Time, Expired
  <2> DEFINE records == Reaped(WriteContext(c))
  <2>2. \A k \in Key : /\ k \in DOMAIN records <=> FindAlive(c, k)
                       /\ k \in DOMAIN records => records[k] = WriteContext(c)[k]
    BY DEF Reaped, Erase, FindAlive, Find
  <2>3. \A k \in Key : IF k \in DOMAIN records /\ now < records[k].expiration
                       THEN FindAlive(c, k) /\ records[k] = WriteContext(c)[k]
                       ELSE ~FindAlive(c, k)
    BY <2>1, <2>2 DEF FindAlive
  <2>4. SetContext(c, records) /\ UNCHANGED <<now, ret>>
    BY <1>1 DEF Reap
  <2> HIDE DEF records
  <2> QED BY <2>3, <2>4, SeenSame
<1>2. CASE Cleanup
  <2>1. \A c \in DOMAIN contexts : \A k \in DOMAIN contexts[c] :
          now < contexts[c][k].expiration <=> ~Expired(contexts[c][k])
    BY DEF TypeOK, Record, Time, Expired
  <2>2. UNCHANGED <<now, ret>> /\ contexts' = [c \in DOMAIN contexts |-> Reaped(contexts[c])]
    BY <1>2 DEF Cleanup
  <2>3. \A c \in DOMAIN contexts : \A k \in Key :
          /\ k \in DOMAIN contexts'[c] <=> k \in DOMAIN contexts[c] /\ ~Expired(contexts[c][k])
          /\ k \in DOMAIN contexts'[c] => contexts'[c][k] = contexts[c][k]
    BY <2>2 DEF Reaped, Erase
  <2> QED BY <2>1, <2>2, <2>3 DEF Visible, Seen
<1> QED BY <1>1, <1>2

LEMMA StepRefines == TypeOK /\ [Next]_vars => [Storage!StorageNext]_<<now, Visible, ret>>
<1> SUFFICES ASSUME TypeOK, [Next]_vars
             PROVE  Storage!StorageNext \/ UNCHANGED <<now, Visible, ret>>
  OBVIOUS
<1>1. CASE UNCHANGED vars
  BY <1>1 DEF vars, Visible, Seen
<1>2. CASE Tick
  BY <1>2, TickRefines DEF Storage!StorageNext
<1>3. ASSUME NEW c \in Context, NEW k \in Key, NEW data \in Data, NEW expiration \in Time,
             CreateString(c, k, data, expiration)
      PROVE  Storage!StorageNext
  <2>1. Storage!Create(<<c, k>>, data, expiration)
    BY <1>3, CreateRefines
  <2> QED BY <2>1 DEF Storage!StorageNext, Storage!Slot, Storage!Time, Time
<1>4. ASSUME NEW c \in Context, NEW k \in Key, NEW version \in 0..MaxVersion,
             \/ ReadString(c, k, version)
             \/ \E p \in Caller : ReadStringUpgraded(p, c, k, version)
      PROVE  Storage!StorageNext
  <2>1. Storage!Read(<<c, k>>, version)
    BY <1>4, ReadRefines
  <2> QED BY <2>1 DEF Storage!StorageNext, Storage!Slot
<1>5. ASSUME NEW c \in Context, NEW k \in Key, NEW version \in 0..MaxVersion, NEW p \in Caller,
             ReadContextMiss(p, c, k, version)
      PROVE  UNCHANGED <<now, Visible, ret>>
  BY <1>5 DEF ReadContextMiss, Visible, Seen
<1>6. ASSUME NEW c \in Context, NEW k \in Key, NEW data \in Data \cup {NoData},
             NEW expiration \in Time, NEW version \in 0..MaxVersion,
             UpdateString(c, k, data, expiration, version)
      PROVE  Storage!StorageNext
  <2>1. Storage!Update(<<c, k>>, data, expiration, version)
    BY <1>6, UpdateRefines
  <2> QED BY <2>1 DEF Storage!StorageNext, Storage!Slot, Storage!Time, Time
<1>7. ASSUME NEW c \in Context, NEW k \in Key, DeleteString(c, k)
      PROVE  Storage!StorageNext
  <2>1. Storage!Delete(<<c, k>>)
    BY <1>7, DeleteRefines
  <2> QED BY <2>1 DEF Storage!StorageNext, Storage!Slot
<1>8. ASSUME NEW c \in Context, NEW expiration \in Time, UpdateContext(c, expiration)
      PROVE  Storage!StorageNext
  <2>1. Storage!UpdateContext(c, expiration)
    BY <1>8, UpdateContextRefines
  <2> QED BY <2>1 DEF Storage!StorageNext, Storage!Time, Time
<1>9. ASSUME NEW c \in Context, DeleteContext(c)
      PROVE  Storage!StorageNext
  <2>1. Storage!DeleteContext(c)
    BY <1>9, DeleteContextRefines
  <2> QED BY <2>1 DEF Storage!StorageNext
<1>10. CASE Cleanup \/ \E c \in Context : Reap(c)
  BY <1>10, ReapUnseen
<1> QED BY <1>1, <1>2, <1>3, <1>4, <1>5, <1>6, <1>7, <1>8, <1>9, <1>10 DEF Next

(***************************************************************************)
(* The map of contexts with its lazily removed records answers every call  *)
(* like a service in which an expired record is no record.                 *)
(***************************************************************************)
THEOREM Implements == Spec => Refinement
<1>1. TypeOK /\ [Next]_vars => [Storage!StorageNext]_(Storage!storageVars)
  BY StepRefines DEF Visible, Storage!storageVars
<1> QED BY InitRefines, <1>1, TypeCorrect, PTL DEF Spec, Refinement, Storage!StorageSpec

-----------------------------------------------------------------------------
(***************************************************************************)
(* ReplayCache: the record of a value expires when the value does, and is  *)
(* there while a true result reserves the value.                           *)
(***************************************************************************)
StoredRecord(k) == WriteContext(Replays)[k]

TimesOK ==
    /\ now \in Nat
    /\ expires \in [Key -> Nat]
    /\ promised \in [Key -> Nat]
    /\ begun \in [Caller -> Nat]
    /\ arg \in [Caller -> Key]
    /\ pc \in [Caller -> {"idle", "read", "upgrade", "create", "true", "false"}]

\* The record of a value is the one the last true result stored.
RecordsMatch ==
    \A k \in Key : Find(Replays, k) =>
        /\ StoredRecord(k) \in [data : Data, version : Nat \ {0}, expiration : Nat]
        /\ StoredRecord(k).expiration = expires[k]
        /\ promised[k] = expires[k]

PromisesMatch == \A k \in Key : promised[k] \in {0, expires[k]}

Backed == \A k \in Key : now < promised[k] => Find(Replays, k)

\* What a check found reserved when it began is reserved no less now, and only
\* a check that found nothing reserved goes on to store.
ChecksOK ==
    \A t \in Caller : /\ begun[t] <= promised[arg[t]]
                      /\ pc[t] = "create" => begun[t] <= now

IInv == TimesOK /\ RecordsMatch /\ PromisesMatch /\ Backed /\ ChecksOK

LEMMA InitIInv == ReplayInit => IInv
<1> SUFFICES ASSUME ReplayInit PROVE IInv
  OBVIOUS
<1>1. TimesOK
  BY StorageAssumption DEF ReplayInit, Init, TimesOK, Time
<1>2. \A k \in Key : ~Find(Replays, k)
  BY DEF ReplayInit, Init, Find, WriteContext, Empty
<1>3. PromisesMatch /\ Backed /\ ChecksOK
  BY <1>1, <1>2 DEF ReplayInit, Init, PromisesMatch, Backed, ChecksOK, TimesOK
<1> QED BY <1>1, <1>2, <1>3 DEF IInv, RecordsMatch

-----------------------------------------------------------------------------
\* WriteContext after a step that sets the context, or leaves all of them.
LEMMA ContextSet ==
    ASSUME NEW records, SetContext(Replays, records)
    PROVE  WriteContext(Replays)' = records
BY DEF SetContext, Put, WriteContext

\* A lookup finds a record just where there is one that has not expired.
LEMMA LookupFinds ==
    ASSUME IInv, NEW k \in Key, ret' = Lookup(Replays, k, 0)
    PROVE  Found <=> FindAlive(Replays, k)
<1>1. CASE FindAlive(Replays, k)
  BY <1>1 DEF Lookup, Found, Fetched, Copied, FindAlive, IInv, RecordsMatch, StoredRecord
<1>2. CASE ~FindAlive(Replays, k)
  BY <1>2 DEF Lookup, Found, Fetched, Copied, NoRecord
<1> QED BY <1>1, <1>2

\* A value that is reserved has a record that has not expired.
LEMMA ReservedAlive ==
    ASSUME IInv, NEW k \in Key, now < promised[k]
    PROVE  FindAlive(Replays, k)
BY DEF IInv, TimesOK, Backed, RecordsMatch, StoredRecord, FindAlive, Expired

\* A step of thread t that reads, and leaves the records as they are.
LEMMA ReadPreserves ==
    ASSUME IInv, NEW t \in Caller, NEW from, NEW to \in {"read", "upgrade", "create", "false"},
           At(t, from, to),
           to = "create" => ~FindAlive(Replays, arg[t]),
           WriteContext(Replays)' = WriteContext(Replays),
           UNCHANGED <<now, expires, arg, promised, begun>>
    PROVE  IInv'
<1>1. TimesOK'
  BY DEF IInv, TimesOK, At
<1>2. (RecordsMatch /\ PromisesMatch /\ Backed)'
  BY DEF IInv, RecordsMatch, PromisesMatch, Backed, Find, StoredRecord
<1>3. to = "create" => begun[t] <= now
  <2>1. to = "create" => ~(now < promised[arg[t]])
    BY ReservedAlive DEF IInv, TimesOK
  <2> QED BY <2>1 DEF IInv, TimesOK, ChecksOK
<1>4. ChecksOK'
  BY <1>3 DEF IInv, TimesOK, ChecksOK, At
<1> QED BY <1>1, <1>2, <1>4 DEF IInv

LEMMA ReadStep ==
    ASSUME IInv, NEW t \in Caller, ReadStored(t) \/ ReadMiss(t) \/ ReadUpgraded(t)
    PROVE  IInv'
<1>0. arg[t] \in Key
  BY DEF IInv, TimesOK
<1>1. CASE ReadStored(t)
  <2>1. ret' = Lookup(Replays, arg[t], 0) /\ WriteContext(Replays)' = WriteContext(Replays)
    BY <1>1 DEF ReadStored, ReadString, WriteContext
  <2>2. Found <=> FindAlive(Replays, arg[t])
    BY <1>0, <2>1, LookupFinds
  <2>3. At(t, "read", IF Found THEN "false" ELSE "create")
    BY <1>1 DEF ReadStored
  <2>4. UNCHANGED <<now, expires, arg, promised, begun>>
    BY <1>1 DEF ReadStored, ReadString
  <2>5. CASE Found
    BY <2>1, <2>3, <2>4, <2>5, ReadPreserves
  <2>6. CASE ~Found
    BY <2>1, <2>2, <2>3, <2>4, <2>6, ReadPreserves
  <2> QED BY <2>5, <2>6
<1>2. CASE ReadMiss(t)
  <2>1. /\ WriteContext(Replays)' = WriteContext(Replays)
        /\ UNCHANGED <<now, expires, arg, promised, begun>>
        /\ At(t, "read", "upgrade")
    BY <1>2 DEF ReadMiss, ReadContextMiss, WriteContext
  <2> QED BY <2>1, ReadPreserves
<1>3. CASE ReadUpgraded(t)
  <2>1. ret' = Lookup(Replays, arg[t], 0) /\ WriteContext(Replays)' = WriteContext(Replays)
    BY <1>3, ContextSet DEF ReadUpgraded, ReadStringUpgraded
  <2>2. Found <=> FindAlive(Replays, arg[t])
    BY <1>0, <2>1, LookupFinds
  <2>3. At(t, "upgrade", IF Found THEN "false" ELSE "create")
    BY <1>3 DEF ReadUpgraded
  <2>4. UNCHANGED <<now, expires, arg, promised, begun>>
    BY <1>3 DEF ReadUpgraded, ReadStringUpgraded
  <2>5. CASE Found
    BY <2>1, <2>3, <2>4, <2>5, ReadPreserves
  <2>6. CASE ~Found
    BY <2>1, <2>2, <2>3, <2>4, <2>6, ReadPreserves
  <2> QED BY <2>5, <2>6
<1> QED BY <1>1, <1>2, <1>3

LEMMA CheckStep ==
    ASSUME IInv, NEW t \in Caller, NEW k \in Key, Check(t, k)
    PROVE  IInv'
<1>1. UNCHANGED <<vars, expires, promised>> /\ arg' = [arg EXCEPT ![t] = k]
      /\ begun' = [begun EXCEPT ![t] = promised[k]] /\ pc' = [pc EXCEPT ![t] = "read"]
  BY DEF Check
<1>2. TimesOK'
  BY <1>1 DEF IInv, TimesOK, vars
<1>3. (RecordsMatch /\ PromisesMatch /\ Backed)'
  BY <1>1 DEF IInv, RecordsMatch, PromisesMatch, Backed, Find, StoredRecord, WriteContext, vars
<1>4. ChecksOK'
  BY <1>1 DEF IInv, TimesOK, ChecksOK, vars
<1> QED BY <1>2, <1>3, <1>4 DEF IInv

\* createString() keeps the record that is alive, and expires[k] with it.
LEMMA StoreStep ==
    ASSUME IInv, NEW t \in Caller, Store(t)
    PROVE  IInv'
<1> DEFINE k == arg[t]
<1>0. k \in Key
  BY DEF IInv, TimesOK
<1>1. PICK data \in Data : CreateString(Replays, k, data, expires[k])
  BY DEF Store
<1>2. /\ UNCHANGED <<now, expires, arg, begun>> /\ pc' = [pc EXCEPT ![t] = "true"]
      /\ promised' = [promised EXCEPT ![k] = expires[k]]
  BY <1>1 DEF Store, CreateString, At
<1>3. TimesOK' /\ PromisesMatch'
  BY <1>0, <1>2 DEF IInv, TimesOK, PromisesMatch
<1>4. WriteContext(Replays)' =
        IF FindAlive(Replays, k) THEN WriteContext(Replays)
        ELSE Put(WriteContext(Replays), k,
                 [data |-> data, version |-> 1, expiration |-> expires[k]])
  BY <1>1, ContextSet DEF CreateString
<1>5. RecordsMatch' /\ Backed'
  <2>1. CASE FindAlive(Replays, k)
    BY <1>0, <1>2, <1>4, <2>1 DEF IInv, TimesOK, RecordsMatch, Backed, Find, StoredRecord, FindAlive
  <2>2. CASE ~FindAlive(Replays, k)
    BY <1>0, <1>2, <1>4, <2>2 DEF IInv, TimesOK, RecordsMatch, Backed, Find, StoredRecord, Put
  <2> QED BY <2>1, <2>2
<1>6. ChecksOK'
  <2>1. \A j \in Key : promised[j] <= promised'[j]
    BY <1>0, <1>2 DEF IInv, TimesOK, PromisesMatch
  <2> QED BY <1>2, <1>3, <2>1 DEF IInv, TimesOK, ChecksOK
<1> QED BY <1>3, <1>5, <1>6 DEF IInv

LEMMA TickStep ==
    ASSUME IInv, Tick, UNCHANGED own
    PROVE  IInv'
<1>1. now' = now + 1 /\ UNCHANGED <<contexts, expires, pc, arg, promised, begun>>
  BY DEF Tick, own
<1> QED BY <1>1 DEF IInv, TimesOK, RecordsMatch, PromisesMatch, Backed, ChecksOK, Find,
                    StoredRecord, WriteContext

\* reap() and the cleanup thread take expired records and nothing else.
LEMMA ReapStep ==
    ASSUME IInv, Reap(Replays) \/ Cleanup, UNCHANGED own
    PROVE  IInv'
<1>1. WriteContext(Replays)' = Reaped(WriteContext(Replays))
  <2>1. CASE Reap(Replays)
    BY <2>1, ContextSet DEF Reap
  <2>2. CASE Cleanup
    BY <2>2 DEF Cleanup, WriteContext, Reaped, Erase, Empty
  <2> QED BY <2>1, <2>2
<1>2. UNCHANGED <<now, expires, pc, arg, promised, begun>>
  BY DEF Reap, Cleanup, own
<1>3. \A k \in Key : Find(Replays, k)' <=> FindAlive(Replays, k)
  BY <1>1 DEF Find, FindAlive, Reaped, Erase
<1>4. \A k \in Key : Find(Replays, k)' => StoredRecord(k)' = StoredRecord(k)
  BY <1>1 DEF Find, StoredRecord, Reaped, Erase
<1>5. RecordsMatch'
  BY <1>2, <1>3, <1>4 DEF IInv, RecordsMatch, FindAlive
<1>6. Backed'
  BY <1>2, <1>3, ReservedAlive DEF Backed
<1> QED BY <1>2, <1>5, <1>6 DEF IInv, TimesOK, PromisesMatch, ChecksOK

LEMMA NextIInv == IInv /\ [ReplayNext]_replayVars => IInv'
<1> SUFFICES ASSUME IInv, [ReplayNext]_replayVars PROVE IInv'
  OBVIOUS
<1>1. CASE UNCHANGED replayVars
  BY <1>1 DEF replayVars, vars, own, IInv, TimesOK, RecordsMatch, PromisesMatch, Backed, ChecksOK,
              Find, StoredRecord, WriteContext
<1>2. CASE ReplayNext
  BY <1>2, CheckStep, ReadStep, StoreStep, TickStep, ReapStep DEF ReplayNext
<1> QED BY <1>1, <1>2

\* Records, promises and the checks under way stay consistent.
THEOREM Inductive == ReplaySpec => []IInv
BY InitIInv, NextIInv, PTL DEF ReplaySpec

(***************************************************************************)
(* A value that a true result has reserved keeps an unexpired record, for  *)
(* as many threads, values and reaps as there may be.                      *)
(***************************************************************************)
THEOREM PromisesKept == ReplaySpec => []PromiseKept
<1>1. IInv => PromiseKept
  BY ReservedAlive DEF PromiseKept
<1> QED BY <1>1, Inductive, PTL

(***************************************************************************)
(* No replay gets through after the first check of a value has returned:   *)
(* a check that begins later and before the value expires returns false.   *)
(***************************************************************************)
THEOREM NoReplayGetsThrough == ReplaySpec => NoReplayAfter
<1>1. IInv /\ [ReplayNext]_replayVars =>
        [\A t \in Caller : Returns(t, "true") => begun[t] <= now]_replayVars
  <2> SUFFICES ASSUME IInv, ReplayNext, NEW t \in Caller, Returns(t, "true")
               PROVE  begun[t] <= now
    BY DEF replayVars, own, Returns
  <2>1. PICK u \in Caller : \/ \E k \in Key : Check(u, k)
                            \/ ReadStored(u) \/ ReadMiss(u) \/ ReadUpgraded(u) \/ Store(u)
    BY DEF ReplayNext, own, Returns
  <2>2. t = u /\ pc[t] = "create"
    BY <2>1 DEF Returns, Check, ReadStored, ReadMiss, ReadUpgraded, Store, At, IInv, TimesOK
  <2> QED BY <2>2 DEF IInv, ChecksOK
<1> QED BY <1>1, Inductive, PTL DEF ReplaySpec, NoReplayAfter

(***************************************************************************)
(* A value is turned down only while a true result for it is in force.     *)
(***************************************************************************)
THEOREM NothingTurnedDownInVain == ReplaySpec => NoFalseAlarm
<1>1. IInv /\ [ReplayNext]_replayVars =>
        [\A t \in Caller : Returns(t, "false") => now < promised[arg[t]]]_replayVars
  <2> SUFFICES ASSUME IInv, ReplayNext, NEW t \in Caller, Returns(t, "false")
               PROVE  now < promised[arg[t]]
    BY DEF replayVars, own, Returns
  <2>0. arg[t] \in Key
    BY DEF IInv, TimesOK
  <2>1. PICK u \in Caller : \/ \E k \in Key : Check(u, k)
                            \/ ReadStored(u) \/ ReadMiss(u) \/ ReadUpgraded(u) \/ Store(u)
    BY DEF ReplayNext, own, Returns
  <2>2. t = u /\ (ReadStored(t) \/ ReadUpgraded(t)) /\ Found
    BY <2>1 DEF Returns, Check, ReadStored, ReadMiss, ReadUpgraded, Store, At, IInv, TimesOK
  <2>3. ret' = Lookup(Replays, arg[t], 0)
    BY <2>2 DEF ReadStored, ReadString, ReadUpgraded, ReadStringUpgraded
  <2>4. FindAlive(Replays, arg[t])
    BY <2>0, <2>2, <2>3, LookupFinds
  <2> QED BY <2>0, <2>4 DEF FindAlive, Expired, StoredRecord, IInv, TimesOK, RecordsMatch
<1> QED BY <1>1, Inductive, PTL DEF ReplaySpec, NoFalseAlarm
=============================================================================
