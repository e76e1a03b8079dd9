--------------------------- MODULE StorageService ---------------------------
(***************************************************************************)
(* What util/StorageService.h promises: records with an expiration and a   *)
(* version, each under a context and a key.  A record that has expired is  *)
(* no record.  Strings and texts are the same thing here.                  *)
(***************************************************************************)
EXTENDS Integers

CONSTANTS Context, Key, Data,
          NoData,        \* the null pointer where data is expected
          MaxTime,       \* bound: the last tick of the clock
          MaxVersion     \* bound: versions of one record

VARIABLES now,       \* time(nullptr)
          visible,   \* the unexpired record under each context and key
          ret        \* what the last call returned

storageVars == <<now, visible, ret>>

Slot == Context \X Key
Time == 0..MaxTime + 1
Record == [data : Data, version : 1..MaxVersion, expiration : Time]
NoRecord == [data |-> NoData, version |-> 0, expiration |-> 0]

NoRet == [call |-> "none"]
Done(call, ok) == [call |-> call, ok |-> ok]
Fetched(record) == [call |-> "read", record |-> record]
Numbered(version) == [call |-> "update", version |-> version]

StorageInit ==
    /\ now = 0
    /\ visible = [s \in Slot |-> NoRecord]
    /\ ret = NoRet
-----------------------------------------------------------------------------
\* What is left of a record at time t.
Alive(record, t) == IF t < record.expiration THEN record ELSE NoRecord

Tick ==
    /\ now <= MaxTime
    /\ now' = now + 1
    /\ visible' = [s \in Slot |-> Alive(visible[s], now + 1)]
    /\ ret' = NoRet

Created(data, expiration) == [data |-> data, version |-> 1, expiration |-> expiration]

Create(s, data, expiration) ==
    /\ visible' = IF visible[s] = NoRecord
                  THEN [visible EXCEPT ![s] = Alive(Created(data, expiration), now)]
                  ELSE visible
    /\ ret' = Done("create", visible[s] = NoRecord)
    /\ UNCHANGED now

\* The data is not copied back if the version is the one the caller has.
Copied(record, version) ==
    [record EXCEPT !.data = IF record.version = version THEN NoData ELSE record.data]

Read(s, version) ==
    /\ ret' = Fetched(Copied(visible[s], version))
    /\ UNCHANGED <<now, visible>>

\* The record after an update; NoData and 0 leave what there is.
Updated(record, data, expiration) ==
    [data       |-> IF data = NoData THEN record.data ELSE data,
     version    |-> IF data = NoData THEN record.version ELSE record.version + 1,
     expiration |-> IF expiration = 0 THEN record.expiration ELSE expiration]

InSync(record, version) == version = 0 \/ version = record.version

Update(s, data, expiration, version) ==
    /\ \/ /\ visible[s] # NoRecord /\ InSync(visible[s], version)
          /\ LET new == Updated(visible[s], data, expiration)
             IN  /\ visible' = [visible EXCEPT ![s] = Alive(new, now)]
                 /\ ret' = Numbered(new.version)
       \/ /\ visible[s] # NoRecord /\ ~InSync(visible[s], version)
          /\ ret' = Numbered(-1)
          /\ UNCHANGED visible
       \/ /\ visible[s] = NoRecord
          /\ ret' = Numbered(0)
          /\ UNCHANGED visible
    /\ UNCHANGED now

\* Without a record the answer is open: one that expired may still be there.
Delete(s) ==
    /\ visible' = [visible EXCEPT ![s] = NoRecord]
    /\ \E existed \in BOOLEAN :
          /\ visible[s] # NoRecord => existed
          /\ ret' = Done("delete", existed)
    /\ UNCHANGED now

UpdateContext(c, expiration) ==
    /\ visible' = [s \in Slot |->
                      IF s[1] = c /\ visible[s] # NoRecord
                      THEN Alive([visible[s] EXCEPT !.expiration = expiration], now)
                      ELSE visible[s]]
    /\ ret' = NoRet
    /\ UNCHANGED now

DeleteContext(c) ==
    /\ visible' = [s \in Slot |-> IF s[1] = c THEN NoRecord ELSE visible[s]]
    /\ ret' = NoRet
    /\ UNCHANGED now

StorageNext ==
    \/ Tick
    \/ \E s \in Slot :
          \/ \E data \in Data, expiration \in Time : Create(s, data, expiration)
          \/ \E version \in 0..MaxVersion : Read(s, version)
          \/ \E data \in Data \cup {NoData}, expiration \in Time, version \in 0..MaxVersion :
                Update(s, data, expiration, version)
          \/ Delete(s)
    \/ \E c \in Context :
          \/ \E expiration \in Time : UpdateContext(c, expiration)
          \/ DeleteContext(c)

StorageSpec == StorageInit /\ [][StorageNext]_storageVars
=============================================================================
