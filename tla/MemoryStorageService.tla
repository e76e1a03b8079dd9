------------------------ MODULE MemoryStorageService ------------------------
(***************************************************************************)
(* impl/MemoryStorageService.cpp: a map of contexts, each a map of         *)
(* records, under one read/write lock.  Every call holds the lock from the *)
(* lookup of the context to its end, and is one step here; only the read   *)
(* of a context that does not exist lets go of the lock in between.        *)
(* Expired records stay until something meets them: a create, a reap(), or *)
(* the cleanup thread.                                                     *)
(***************************************************************************)
EXTENDS Integers

CONSTANTS Context, Key, Data, NoData, MaxTime, MaxVersion,
          Caller         \* the threads that read at once

ASSUME StorageAssumption ==
    MaxTime \in Nat /\ MaxVersion \in Nat \ {0} /\ NoData \notin Data

VARIABLES now, ret,
          contexts,      \* m_contextMap
          upgrading      \* the read each caller has between unlock() and wrlock()

vars == <<now, ret, contexts, upgrading>>

NoRecord == [data |-> NoData, version |-> 0, expiration |-> 0]

\* What a client can see of a context map.
Seen(map, t) ==
    [s \in Context \X Key |->
        IF s[1] \in DOMAIN map /\ s[2] \in DOMAIN map[s[1]]
             /\ t < map[s[1]][s[2]].expiration
        THEN map[s[1]][s[2]]
        ELSE NoRecord]

Storage == INSTANCE StorageService WITH visible <- Seen(contexts, now)

Time == 0..MaxTime + 1
Record == [data : Data, version : 1..MaxVersion, expiration : Time]
Empty == [k \in {} |-> NoRecord]
NoRead == <<>>

\* With the types: a record never has data without a version.
TypeOK ==
    /\ now \in Time
    /\ DOMAIN contexts \subseteq Context
    /\ \A c \in DOMAIN contexts :
          DOMAIN contexts[c] \subseteq Key /\ contexts[c] \in [DOMAIN contexts[c] -> Record]
    /\ upgrading \in [Caller -> (Context \X Key \X (0..MaxVersion)) \cup {NoRead}]

Init ==
    /\ now = 0 /\ ret = [call |-> "none"]
    /\ contexts = [c \in {} |-> Empty]
    /\ upgrading = [p \in Caller |-> NoRead]
-----------------------------------------------------------------------------
Done(call, ok) == [call |-> call, ok |-> ok]
Fetched(record) == [call |-> "read", record |-> record]
Numbered(version) == [call |-> "update", version |-> version]

\* map[key] = value of std::map
Put(map, key, val) == [k \in DOMAIN map \cup {key} |-> IF k = key THEN val ELSE map[k]]
Erase(map, keys) == [k \in DOMAIN map \ keys |-> map[k]]

\* writeContext(): m_contextMap[context] makes the context if there is none.
WriteContext(c) == IF c \in DOMAIN contexts THEN contexts[c] ELSE Empty
SetContext(c, records) == contexts' = Put(contexts, c, records)

\* Mutant: a record expires one second early.
ExpiredEarly(record) == now + 1 >= record.expiration

Expired(record) == now >= record.expiration
Find(c, k) == k \in DOMAIN WriteContext(c)
FindAny(c, k) == Find(c, k)   \* Mutant: expired records are found.
FindAlive(c, k) == Find(c, k) /\ ~Expired(WriteContext(c)[k])

Tick ==
    /\ now <= MaxTime
    /\ now' = now + 1
    /\ ret' = [call |-> "none"]
    /\ UNCHANGED <<contexts, upgrading>>

\* Mutant: versions start from 0, which stands for "no record".
CreateStringFromZero(c, k, data, expiration) ==
    /\ SetContext(c, IF FindAlive(c, k) THEN WriteContext(c)
                     ELSE Put(WriteContext(c), k,
                              [data |-> data, version |-> 0, expiration |-> expiration]))
    /\ ret' = Done("create", ~FindAlive(c, k))
    /\ UNCHANGED <<now, upgrading>>

CreateString(c, k, data, expiration) ==
    /\ SetContext(c, IF FindAlive(c, k) THEN WriteContext(c)
                     ELSE Put(WriteContext(c), k,
                              [data |-> data, version |-> 1, expiration |-> expiration]))
    /\ ret' = Done("create", ~FindAlive(c, k))
    /\ UNCHANGED <<now, upgrading>>
-----------------------------------------------------------------------------
Copied(record, version) ==
    [record EXCEPT !.data = IF record.version = version THEN NoData ELSE record.data]

Lookup(c, k, version) ==
    Fetched(Copied(IF FindAlive(c, k) THEN WriteContext(c)[k] ELSE NoRecord, version))

\* readContext() finds the context under the read lock.
ReadString(c, k, version) ==
    /\ c \in DOMAIN contexts
    /\ ret' = Lookup(c, k, version)
    /\ UNCHANGED <<now, contexts, upgrading>>

\* It does not, and gives the read lock up ...
ReadContextMiss(p, c, k, version) ==
    /\ upgrading[p] = NoRead
    /\ c \notin DOMAIN contexts
    /\ upgrading' = [upgrading EXCEPT ![p] = <<c, k, version>>]
    /\ UNCHANGED <<now, ret, contexts>>

\* ... for the write lock, under which others may have made the context.
ReadStringUpgraded(p, c, k, version) ==
    /\ upgrading[p] = <<c, k, version>>
    /\ SetContext(c, WriteContext(c))
    /\ ret' = Lookup(c, k, version)
    /\ upgrading' = [upgrading EXCEPT ![p] = NoRead]
    /\ UNCHANGED now
-----------------------------------------------------------------------------

Updated(record, data, expiration) ==
    [data       |-> IF data = NoData THEN record.data ELSE data,
     version    |-> IF data = NoData THEN record.version ELSE record.version + 1,
     expiration |-> IF expiration = 0 THEN record.expiration ELSE expiration]

InSync(record, version) == version = 0 \/ version = record.version

UpdateString(c, k, data, expiration, version) ==
    LET records == WriteContext(c)
    IN  /\ \/ /\ ~FindAlive(c, k)
              /\ ret' = Numbered(0)
              /\ SetContext(c, records)
           \/ /\ FindAlive(c, k) /\ ~InSync(records[k], version)
              /\ ret' = Numbered(-1)
              /\ SetContext(c, records)
           \/ /\ FindAlive(c, k) /\ InSync(records[k], version)
              /\ LET new == Updated(records[k], data, expiration)
                 IN  /\ new.version <= MaxVersion
                     /\ ret' = Numbered(new.version)
                     /\ SetContext(c, Put(records, k, new))
        /\ UNCHANGED <<now, upgrading>>

\* An expired record is deleted, and reported, like any other.
DeleteString(c, k) ==
    /\ SetContext(c, Erase(WriteContext(c), {k}))
    /\ ret' = Done("delete", Find(c, k))
    /\ UNCHANGED <<now, upgrading>>

\* Mutant: expired records are given another life.
UpdateContextAll(c, expiration) ==
    /\ SetContext(c, [k \in DOMAIN WriteContext(c) |->
                         [WriteContext(c)[k] EXCEPT !.expiration = expiration]])
    /\ ret' = [call |-> "none"]
    /\ UNCHANGED <<now, upgrading>>

UpdateContext(c, expiration) ==
    /\ SetContext(c, [k \in DOMAIN WriteContext(c) |->
                         IF Expired(WriteContext(c)[k]) THEN WriteContext(c)[k]
                         ELSE [WriteContext(c)[k] EXCEPT !.expiration = expiration]])
    /\ ret' = [call |-> "none"]
    /\ UNCHANGED <<now, upgrading>>

DeleteContext(c) ==
    /\ contexts' = Erase(contexts, {c})
    /\ ret' = [call |-> "none"]
    /\ UNCHANGED <<now, upgrading>>
-----------------------------------------------------------------------------
\* Mutant: reap() compares with < where the lookups compare with <=.
ReapedEarly(records) == Erase(records, {k \in DOMAIN records : ExpiredEarly(records[k])})

\* Context::reap()
Reaped(records) == Erase(records, {k \in DOMAIN records : Expired(records[k])})

Reap(c) ==
    /\ SetContext(c, Reaped(WriteContext(c)))
    /\ UNCHANGED <<now, ret, upgrading>>

\* Mutant: the clock is read once, when the thread starts.
CleanupOldClock ==
    /\ contexts' = [c \in DOMAIN contexts |->
                       Erase(contexts[c], {k \in DOMAIN contexts[c] :
                                             contexts[c][k].expiration = 0})]
    /\ UNCHANGED <<now, ret, upgrading>>

\* One round of the cleanup thread, under the write lock.  Contexts stay.
Cleanup ==
    /\ contexts' = [c \in DOMAIN contexts |-> Reaped(contexts[c])]
    /\ UNCHANGED <<now, ret, upgrading>>

Next ==
    \/ Tick
    \/ \E c \in Context, k \in Key :
          \/ \E data \in Data, expiration \in Time : CreateString(c, k, data, expiration)
          \/ \E version \in 0..MaxVersion : ReadString(c, k, version)
          \/ \E version \in 0..MaxVersion, p \in Caller :
                ReadContextMiss(p, c, k, version) \/ ReadStringUpgraded(p, c, k, version)
          \/ \E data \in Data \cup {NoData}, expiration \in Time, version \in 0..MaxVersion :
                UpdateString(c, k, data, expiration, version)
          \/ DeleteString(c, k)
    \/ \E c \in Context :
          \/ \E expiration \in Time : UpdateContext(c, expiration)
          \/ DeleteContext(c)
          \/ Reap(c)
    \/ Cleanup

\* The cleanup thread wakes up again and again.
Spec == Init /\ [][Next]_vars /\ WF_vars(Cleanup)
-----------------------------------------------------------------------------
(***************************************************************************)
(* Expired records that are still there, contexts made by a read, reaping  *)
(* and cleaning up cannot be told from outside: the service answers every  *)
(* call as if an expired record were no record (StorageService.h).         *)
(***************************************************************************)
Refinement == Storage!StorageSpec

(***************************************************************************)
(* An expired record does not stay for ever, even if nobody asks for it:   *)
(* the cleanup thread reaps every context (cleanup_fn).                    *)
(***************************************************************************)
ExpiredPurged ==
    \A c \in Context, k \in Key :
        []<>~(c \in DOMAIN contexts /\ k \in DOMAIN contexts[c] /\ Expired(contexts[c][k]))
=============================================================================
