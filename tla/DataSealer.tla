----------------------------- MODULE DataSealer -----------------------------
(***************************************************************************)
(* Threads that wrap() and unwrap() data (security/impl/DataSealer.cpp)    *)
(* with the keys of a VersionedDataSealerKeyStrategy, whose file or remote *)
(* resource changes as keys are rolled over.  lock() looks for a change    *)
(* under the read lock (ManagedResource::stale), gives that lock up for    *)
(* the write lock, looks again, and loads.                                 *)
(*                                                                         *)
(* A key is a label and key material.  A content of the resource is the    *)
(* sequence of the lines load() makes keys of; that of a file that cannot  *)
(* be opened is empty.  Sealed data is the key it was sealed with, the     *)
(* label written in front of it, and whether it has expired.               *)
(***************************************************************************)
EXTENDS Integers, Sequences

CONSTANTS Thread,
          Name,        \* labels of keys
          Material,    \* key material
          Wrap,        \* the call of wrap()
          Gone,        \* stat() fails, or the server does not answer
          NoKey,       \* the null pointer in place of a key
          NoName,      \* the empty label
          Spoilt,      \* a map that one thread changed while another used it:
                       \* what is in it, and what a call makes of it, is undefined
          Contents,    \* what the resource may contain
          Data,        \* sealed data that is there to unwrap
          MaxEdits     \* bound: how often the resource changes

Key == [name : Name, mat : Material]

ASSUME SealerAssumption ==
    /\ MaxEdits \in Nat
    /\ NoKey \notin Material /\ NoName \notin Name
    /\ Contents \subseteq Seq(Key)
    /\ Data \subseteq [label : Name, key : Key, expired : BOOLEAN]
    /\ Wrap \notin Data /\ Gone \notin Contents

VARIABLES local,       \* a file, or a remote resource
          file,        \* the resource: its content and modification time
          version,     \* number of the content, from 1
          filestamp,   \* the time of the file that was taken as loaded; of a remote resource,
               \* whose clock is left to the steps of stale(), whether any load began
          cacheTag,    \* the version a remote resource was fetched in
          backing,     \* content of the file a fetched resource is written to and read from
          keys,        \* m_keyMap, Spoilt for ever once lookups have raced
          default,     \* m_default
          pc,          \* where each thread is in lock() or in the call
          call,        \* the call it makes: Wrap, or sealed data to unwrap
          seen,        \* the time stale() saw, 0 if others may have reloaded
          result,      \* what the call that has returned came to
          broken,      \* history: that file could not be written
          have,        \* history: version of the content last loaded
          need,        \* history: version a thread found in stale()
          always       \* history: keys that were in every content

resource == <<local, file, version>>
strategy == <<filestamp, cacheTag, backing, keys, default>>
history == <<broken, have, need, always>>
vars == <<resource, strategy, pc, call, seen, result, history>>

Call == {Wrap} \cup Data

Results == {"none", "sealed", "data", "no key", "undecrypted", "mismatch", "expired",
            "anything"}     \* what a lookup in a spoilt map comes to

raced == keys = Spoilt

\* Who holds m_lock for reading, and for writing.
Readers == {t \in Thread : pc[t] \in {"read", "in", "map"}}
Writers == {t \in Thread : pc[t] = "load"}

\* With the types, that the write lock excludes everybody else.
TypeOK ==
    /\ local \in BOOLEAN
    /\ file \in [content : Contents \cup {Gone}, mtime : 1..MaxEdits + 1]
    /\ version \in 1..MaxEdits + 1
    /\ filestamp \in 0..MaxEdits + 1
    /\ cacheTag \in 0..MaxEdits + 1
    /\ backing \in Contents \cup {Gone, <<>>}
    /\ ~raced => DOMAIN keys \subseteq Name \cup {NoName}
    /\ default \in Name \cup {NoName}
    /\ pc \in [Thread -> {"out", "read", "elevate", "load", "relock", "in", "map"}]
    /\ call \in [Thread -> Call]
    /\ seen \in [Thread -> 0..MaxEdits + 1]
    /\ result \in Results
    /\ broken \in BOOLEAN
    /\ have \in 0..MaxEdits + 1
    /\ need \in [Thread -> 0..MaxEdits + 1]
    /\ always \subseteq Key
    /\ \A t \in Writers : Writers = {t} /\ Readers = {}
-----------------------------------------------------------------------------
(***************************************************************************)
(* load(): the last line with a label counts, and the last line of all is  *)
(* the default.                                                            *)
(***************************************************************************)
Lines(content) == IF content = Gone THEN <<>> ELSE content
Labels(content) == {Lines(content)[i].name : i \in DOMAIN Lines(content)}

LastLine(content, n) ==
    CHOOSE i \in DOMAIN Lines(content) :
        /\ Lines(content)[i].name = n
        /\ \A j \in DOMAIN Lines(content) : Lines(content)[j].name = n => j <= i

KeyMap(content) == [n \in Labels(content) |-> Lines(content)[LastLine(content, n)].mat]

Default(content) ==
    IF Lines(content) = <<>> THEN NoName ELSE Lines(content)[Len(Lines(content))].name

KeysIn(content) == {k \in Key : k.name \in Labels(content) /\ KeyMap(content)[k.name] = k.mat}

\* The keys of the map; an entry that operator[] made has none, and of a spoilt
\* map none can be relied on.
Usable(map) == {k \in Key : map # Spoilt /\ k.name \in DOMAIN map /\ map[k.name] = k.mat}

Init ==
    /\ local \in BOOLEAN
    /\ file \in [content : Contents, mtime : {1}]
    /\ version = 1
    /\ filestamp = 0 /\ cacheTag = 0 /\ backing = Gone
    /\ keys = KeyMap(<<>>) /\ default = NoName
    /\ pc = [t \in Thread |-> "out"]
    /\ call = [t \in Thread |-> Wrap]
    /\ seen = [t \in Thread |-> 0]
    /\ result = "none"
    /\ broken = FALSE
    /\ have = 0
    /\ need = [t \in Thread |-> 0]
    /\ always = KeysIn(file.content)

\* Keys are rolled over, or the resource is spoilt, or taken away.  Two
\* changes within a second have the same modification time.
Edit ==
    /\ version <= MaxEdits
    /\ version' = version + 1
    /\ \E content \in Contents \cup {Gone}, mtime \in {file.mtime, version + 1} :
          /\ file' = [content |-> content, mtime |-> mtime]
          /\ always' = IF content = Gone /\ ~local THEN always ELSE always \cap KeysIn(content)
    /\ UNCHANGED <<local, strategy, pc, call, seen, result, broken, have, need>>
-----------------------------------------------------------------------------
(***************************************************************************)
(* lock()                                                                  *)
(***************************************************************************)
Step(t, from, to) == pc[t] = from /\ pc' = [pc EXCEPT ![t] = to]

\* A thread calls wrap() or unwrap(), which lock the strategy: rdlock().  A call
\* that waits for this first lock is one that has not begun.
Begin(t) ==
    /\ Writers = {}
    /\ Step(t, "out", "read")
    /\ \E c \in Call : call' = [call EXCEPT ![t] = c]
    /\ result' = "none"
    /\ UNCHANGED <<resource, strategy, seen, history>>

\* The version stale() found on the disk, if its time tells it from others.
Noticed == IF file.mtime = version THEN version ELSE 0

\* A fault: what has been loaded once is never looked at again.
NotStaleOnce(t) ==
    /\ Step(t, "read", "in")
    /\ local => file.content = Gone \/ filestamp # 0
    /\ UNCHANGED <<resource, strategy, call, seen, result, history>>

\* stat() fails, or the time is that of the content loaded; or the reload
\* interval has not elapsed.
NotStale(t) ==
    /\ Step(t, "read", "in")
    /\ IF local
       THEN /\ file.content = Gone \/ filestamp >= file.mtime
            /\ need' = [need EXCEPT ![t] = IF file.content = Gone THEN 0 ELSE Noticed]
       ELSE filestamp # 0 /\ need' = need
    /\ UNCHANGED <<resource, strategy, call, seen, result, broken, have, always>>

\* A fault: the time is stored while the thread has only the read lock.
StaleStamped(t) ==
    /\ Step(t, "read", "elevate")
    /\ IF local
       THEN /\ file.content # Gone /\ filestamp < file.mtime
            /\ seen' = [seen EXCEPT ![t] = file.mtime]
            /\ need' = [need EXCEPT ![t] = Noticed]
            /\ filestamp' = file.mtime
       ELSE seen' = [seen EXCEPT ![t] = 1] /\ need' = need /\ filestamp' = filestamp
    /\ UNCHANGED <<resource, cacheTag, backing, keys, default, call, result, broken, have, always>>

\* The read lock is given up.
Stale(t) ==
    /\ Step(t, "read", "elevate")
    /\ IF local
       THEN /\ file.content # Gone /\ filestamp < file.mtime
            /\ seen' = [seen EXCEPT ![t] = file.mtime]
            /\ need' = [need EXCEPT ![t] = Noticed]
       ELSE seen' = [seen EXCEPT ![t] = 1] /\ need' = need
    /\ UNCHANGED <<resource, strategy, call, result, broken, have, always>>

\* A fault: the write lock does not wait for readers.
WriteLockFreeAmongWriters == Writers = {}

WriteLockFree == Readers = {} /\ Writers = {}

\* "Somebody else handled it, just downgrade."
Handled(t) ==
    /\ WriteLockFree
    /\ IF local THEN filestamp >= seen[t] ELSE seen[t] = 0
    /\ Step(t, "elevate", "relock")
    /\ seen' = [seen EXCEPT ![t] = 0]
    /\ UNCHANGED <<resource, strategy, call, result, history>>

\* The time is stored before anything is loaded.  With a remote resource, others
\* who have found its time elapsed may find now that it has not.
StartLoad(t) ==
    /\ WriteLockFree
    /\ local => filestamp < seen[t]
    /\ Step(t, "elevate", "load")
    /\ filestamp' = IF local THEN seen[t] ELSE 1
    /\ seen' = IF local THEN [seen EXCEPT ![t] = 0] ELSE [u \in Thread |-> 0]
    /\ UNCHANGED <<resource, cacheTag, backing, keys, default, call, result, history>>

\* The keys are replaced, which makes no good map of a spoilt one, and the write
\* lock is given up for the read lock.
Load(t, content) ==
    /\ Step(t, "load", "relock")
    /\ keys' = IF raced THEN Spoilt ELSE KeyMap(content)
    /\ default' = Default(content)
    /\ UNCHANGED <<resource, filestamp, call, seen, result, need, always>>

LoadFile(t) ==
    /\ local
    /\ Load(t, file.content)
    /\ have' = version
    /\ UNCHANGED <<cacheTag, backing, broken>>

\* An answer with a body, with which send() stores the tag.
Fetched == ~local /\ file.content # Gone /\ cacheTag # version /\ cacheTag' = version

FetchWhole(t) ==
    /\ Fetched
    /\ Load(t, file.content)
    /\ backing' = file.content
    /\ have' = version
    /\ UNCHANGED broken

\* The backing file cannot be opened, or the disk is full; nothing looks at
\* out's state, and what is in the file is loaded.
FetchUnwritten(t) ==
    /\ Fetched
    /\ backing' \in {backing, <<>>}
    /\ Load(t, backing')
    /\ broken' = TRUE
    /\ UNCHANGED have

\* send() throws, whatever the tag: "maintaining existing keys".
FetchFails(t) ==
    /\ ~local
    /\ Step(t, "load", "relock")
    /\ UNCHANGED <<resource, strategy, call, seen, result, history>>

\* 304
NotModified(t) ==
    /\ ~local
    /\ file.content # Gone
    /\ cacheTag = version
    /\ Step(t, "load", "relock")
    /\ UNCHANGED <<resource, strategy, call, seen, result, history>>

Relock(t) ==
    /\ Writers = {}
    /\ Step(t, "relock", "in")
    /\ UNCHANGED <<resource, strategy, call, seen, result, history>>
-----------------------------------------------------------------------------
(***************************************************************************)
(* wrap() and unwrap(), with the read lock.  getKey() and getDefaultKey()  *)
(* use operator[], which inserts an entry for a label that is not there.   *)
(* Where another thread is in the map meanwhile, that is a data race.      *)
(***************************************************************************)
Label(t) == IF call[t] = Wrap THEN default ELSE call[t].label
Inserts(t) == Label(t) \notin DOMAIN keys

Races(t) == \E u \in Thread \ {t} : pc[u] = "map" /\ (Inserts(t) \/ Inserts(u))

Enter(t) ==
    /\ Step(t, "in", "map")
    /\ keys' = IF ~raced /\ Races(t) THEN Spoilt ELSE keys
    /\ UNCHANGED <<resource, filestamp, cacheTag, backing, default, call, seen, result, history>>

Outcome(t, key) ==
    CASE key = NoKey                             -> "no key"
      [] key # NoKey /\ call[t] = Wrap         -> "sealed"
      [] key # NoKey /\ call[t] # Wrap ->
            IF key # call[t].key.mat THEN "undecrypted"
            ELSE IF call[t].key.name # call[t].label THEN "mismatch"
            ELSE IF call[t].expired THEN "expired"
            ELSE "data"

\* The key is looked up and used, and the lock released.
Use(t) ==
    /\ Step(t, "map", "out")
    /\ IF raced
       THEN keys' = Spoilt /\ result' = "anything"
       ELSE IF Inserts(t)
       THEN /\ keys' = [n \in DOMAIN keys \cup {Label(t)} |->
                            IF n = Label(t) THEN NoKey ELSE keys[n]]
            /\ result' = "no key"
       ELSE keys' = keys /\ result' = Outcome(t, keys[Label(t)])
    /\ call' = [call EXCEPT ![t] = Wrap]
    /\ need' = [need EXCEPT ![t] = 0]
    /\ UNCHANGED <<resource, filestamp, cacheTag, backing, default, seen, broken, have, always>>

Advance(t) ==
    \/ NotStale(t) \/ Stale(t) \/ Handled(t)
    \/ StartLoad(t) \/ LoadFile(t) \/ FetchWhole(t) \/ FetchUnwritten(t)
    \/ FetchFails(t) \/ NotModified(t)
    \/ Relock(t) \/ Enter(t) \/ Use(t)

Next ==
    \/ Edit
    \/ \E t \in Thread : Begin(t) \/ Advance(t)

(***************************************************************************)
(* A thread that has begun runs on, and gets a lock that is free again and *)
(* again.  Calls are made for ever, the reload interval of a remote        *)
(* resource elapses now and then, and a server that is asked again and     *)
(* again answers.                                                          *)
(***************************************************************************)
Fairness ==
    /\ \A t \in Thread : SF_vars(Advance(t))
    /\ SF_vars(\E t \in Thread : Begin(t))
    /\ SF_vars(~local /\ \E t \in Thread : Stale(t))
    /\ SF_vars(\E t \in Thread : FetchWhole(t))

Spec == Init /\ [][Next]_vars
FairSpec == Spec /\ Fairness
-----------------------------------------------------------------------------
(***************************************************************************)
(* Properties                                                              *)
(***************************************************************************)
\* A thread that has found a change on the disk does not go on to use keys
\* from before that change, even if another thread had the write lock first
\* and it was told that the change is handled.
NoStaleKey ==
    \A t \in Thread : local /\ pc[t] \in {"in", "map"} => have >= need[t]

\* While anybody is between lock() and unlock(), which is while a pointer to a
\* key is in use, no key and no default is replaced, whatever other callers do
\* on the way to the write lock, and although getKey() and getDefaultKey() insert
\* entries; as long as no two lookups have met in the map, of which one inserts:
\* that race leaves nothing to rely on.
KeysStable ==
    [][Readers # {} /\ ~raced' => Usable(keys') = Usable(keys) /\ default' = default]_vars

\* Data sealed under a key that has been in every content of the resource is
\* opened, with the keys once loaded: roll-overs, failed fetches ("maintaining
\* existing keys"), answers not modified and the other threads' calls lose none.
KeyKept ==
    [][\A t \in Thread :
          /\ pc[t] = "map" /\ pc'[t] = "out"
          /\ call[t] # Wrap /\ call[t].key \in always /\ call[t].label = call[t].key.name
          /\ have # 0 /\ ~raced /\ ~broken
          => result' = IF call[t].expired THEN "expired" ELSE "data"]_vars

\* If the resource comes to rest, with a time of its own if it is a file, and
\* the backing file could always be written, the keys come to be those it contains.
AtRest == file.content # Gone /\ (local => file.mtime = version)

EventuallyCurrent ==
    /\ <>[]AtRest
    /\ []<>WriteLockFree
    /\ [](~broken /\ ~raced)
    => <>[](Usable(keys) = KeysIn(file.content) /\ default = Default(file.content))
=============================================================================
