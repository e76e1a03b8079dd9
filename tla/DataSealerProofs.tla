-------------------------- MODULE DataSealerProofs --------------------------
(***************************************************************************)
(* Proofs about DataSealer, for any number of threads, keys and changes.   *)
(* What makes a thread that finds a change handled by another use the new  *)
(* keys is that, with no writer about, the content loaded is no older than *)
(* the time stored (Stamped).                                              *)
(***************************************************************************)
EXTENDS DataSealer, TLAPS

Stamped == local /\ Writers = {} => have >= filestamp
Bounded ==
    /\ have <= version /\ filestamp <= version /\ file.mtime <= version
    /\ \A t \in Thread : need[t] <= version
Seen == \A t \in Thread :
    local /\ pc[t] = "elevate" => need[t] <= seen[t] /\ seen[t] <= version
Served == \A t \in Thread :
    local /\ pc[t] \in {"relock", "in", "map"} => have >= need[t]

IInv == TypeOK /\ Stamped /\ Bounded /\ Seen /\ Served

LEMMA KeyMapType ==
    ASSUME NEW content \in Contents \cup {Gone, <<>>}
    PROVE  /\ DOMAIN KeyMap(content) \subseteq Name
           /\ Default(content) \in Name \cup {NoName}
<1>1. Lines(content) \in Seq(Key)
  <2>1. CASE content \in Contents
    BY <2>1, SealerAssumption DEF Lines
  <2>2. CASE content \in {Gone, <<>>}
    <3>1. Lines(content) = <<>>
      BY <2>2 DEF Lines
    <3>2. <<>> \in Seq(Key)
      OBVIOUS
    <3> QED BY <3>1, <3>2
  <2> QED BY <2>1, <2>2
<1>2. \A i \in DOMAIN Lines(content) : Lines(content)[i].name \in Name
  <2> SUFFICES ASSUME NEW i \in DOMAIN Lines(content) PROVE Lines(content)[i] \in Key
    BY DEF Key
  <2> QED BY <1>1
<1>3. DOMAIN KeyMap(content) \subseteq Name
  BY <1>2 DEF KeyMap, Labels
<1>4. CASE Lines(content) = <<>>
  BY <1>3, <1>4 DEF Default
<1>5. CASE Lines(content) # <<>>
  <2>1. Len(Lines(content)) \in DOMAIN Lines(content)
    BY <1>1, <1>5
  <2> QED BY <1>2, <1>3, <1>5, <2>1 DEF Default
<1> QED BY <1>4, <1>5

LEMMA InitIInv == Init => IInv
<1> SUFFICES ASSUME Init PROVE IInv
  OBVIOUS
<1>1. MaxEdits + 1 \in Nat /\ 1 <= MaxEdits + 1
  BY SealerAssumption
<1>2. file \in [content : Contents \cup {Gone}, mtime : 1..MaxEdits + 1] /\ file.mtime = 1
  BY <1>1 DEF Init
<1>3. ~raced => DOMAIN keys \subseteq Name \cup {NoName}
  BY KeyMapType DEF Init
<1>4. Writers = {} /\ Readers = {}
  BY DEF Init, Writers, Readers
<1>5. always \subseteq Key
  BY DEF Init, KeysIn
<1>6. TypeOK
  <2>1. /\ local \in BOOLEAN /\ broken \in BOOLEAN
        /\ default \in Name \cup {NoName} /\ result \in Results
        /\ backing \in Contents \cup {Gone, <<>>}
    BY DEF Init, Results
  <2>2. /\ version \in 1..MaxEdits + 1 /\ filestamp \in 0..MaxEdits + 1
        /\ cacheTag \in 0..MaxEdits + 1 /\ have \in 0..MaxEdits + 1
        /\ seen \in [Thread -> 0..MaxEdits + 1] /\ need \in [Thread -> 0..MaxEdits + 1]
    BY <1>1 DEF Init
  <2>3. /\ pc \in [Thread -> {"out", "read", "elevate", "load", "relock", "in", "map"}]
        /\ call \in [Thread -> Call]
    BY DEF Init, Call
  <2> QED BY <1>2, <1>3, <1>4, <1>5, <2>1, <2>2, <2>3 DEF TypeOK
<1>7. Bounded /\ Stamped /\ Seen /\ Served
  BY <1>2 DEF Init, Bounded, Stamped, Seen, Served
<1> QED BY <1>6, <1>7 DEF IInv

\* The resource changes: its version counts up, and its time with it.
LEMMA EditStep == ASSUME IInv, Edit PROVE IInv'
<1>1. version' = version + 1 /\ version' \in 1..MaxEdits + 1
  BY SealerAssumption DEF Edit, IInv, TypeOK
<1>2. /\ file' \in [content : Contents \cup {Gone}, mtime : 1..MaxEdits + 1]
      /\ file'.mtime <= version'
  BY <1>1, SealerAssumption DEF Edit, IInv, TypeOK, Bounded
<1>3. always' \subseteq Key
  BY DEF Edit, IInv, TypeOK
<1>4. Writers' = Writers /\ Readers' = Readers
  BY DEF Edit, Writers, Readers
<1>5. TypeOK'
  BY <1>1, <1>2, <1>3, <1>4 DEF Edit, strategy, IInv, TypeOK, raced
<1>6. Bounded' /\ Stamped' /\ Seen' /\ Served'
  BY <1>1, <1>2, <1>4 DEF Edit, strategy, IInv, TypeOK, Bounded, Stamped, Seen, Served
<1> QED BY <1>5, <1>6 DEF IInv

\* The lock: the threads' places stay in order.
LEMMA LockKept ==
    ASSUME TypeOK, NEW t \in Thread, NEW from, NEW to, Step(t, from, to),
           to \in {"out", "read", "elevate", "load", "relock", "in", "map"},
           from # to,
           to \in {"read", "in"} => Writers = {} \/ from = "read",
           to = "map" => from = "in",
           to = "load" => WriteLockFree
    PROVE  /\ pc' \in [Thread -> {"out", "read", "elevate", "load", "relock", "in", "map"}]
           /\ Writers' = IF to = "load" THEN {t} ELSE Writers \ {t}
           /\ \A u \in Writers' : Writers' = {u} /\ Readers' = {}
<1>1. pc' \in [Thread -> {"out", "read", "elevate", "load", "relock", "in", "map"}]
  BY DEF Step, TypeOK
<1>2. \A u \in Thread : pc'[u] = IF u = t THEN to ELSE pc[u]
  BY DEF Step, TypeOK
<1>3. Writers' = IF to = "load" THEN {t} ELSE Writers \ {t}
  BY <1>2 DEF Writers, WriteLockFree
<1>4. \A u \in Writers' : Writers' = {u} /\ Readers' = {}
  <2>1. CASE to = "load"
    BY <1>2, <1>3, <2>1 DEF Readers, WriteLockFree
  <2>2. CASE to # "load"
    <3> SUFFICES ASSUME NEW u \in Writers' PROVE Writers' = {u} /\ Readers' = {}
      OBVIOUS
    <3>1. u # t /\ u \in Writers /\ Writers = {u} /\ Readers = {}
      BY <1>3, <2>2 DEF TypeOK
    <3>2. to \notin {"read", "in", "map"}
      BY <3>1 DEF Step, Readers
    <3> QED BY <1>2, <1>3, <2>2, <3>1, <3>2 DEF Readers
  <2> QED BY <2>1, <2>2
<1> QED BY <1>1, <1>3, <1>4

Places == {"out", "read", "elevate", "load", "relock", "in", "map"}

\* A step that leaves the data strategy.load() loads alone keeps the types if it
\* keeps the lock.
LEMMA QuietType ==
    ASSUME TypeOK, UNCHANGED <<resource, strategy, have, always>>,
           pc' \in [Thread -> Places], call' \in [Thread -> Call],
           seen' \in [Thread -> 0..MaxEdits + 1], need' \in [Thread -> 0..MaxEdits + 1],
           result' \in Results, broken' \in BOOLEAN,
           \A u \in Writers' : Writers' = {u} /\ Readers' = {}
    PROVE  TypeOK'
BY DEF TypeOK, resource, strategy, Places, raced

\* Threads that look whether the resource has changed.
LEMMA LookStep ==
    ASSUME IInv, NEW t \in Thread, Begin(t) \/ NotStale(t) \/ Stale(t) \/ Handled(t)
    PROVE  IInv'
<1> USE DEF IInv
<1>1. CASE Begin(t)
  <2>1. Step(t, "out", "read") /\ Writers = {}
    BY <1>1 DEF Begin
  <2>2. /\ pc' \in [Thread -> Places] /\ Writers' = {}
        /\ \A u \in Writers' : Writers' = {u} /\ Readers' = {}
    BY <2>1, LockKept DEF Places
  <2>3. TypeOK'
    BY <1>1, <2>2, QuietType DEF Begin, TypeOK, Results, history
  <2>4. Bounded' /\ Stamped' /\ Seen' /\ Served'
    BY <1>1, <2>1, <2>2 DEF Begin, Step, TypeOK, resource, strategy, history, Bounded, Stamped,
                            Seen, Served
  <2> QED BY <2>3, <2>4
<1>2. CASE NotStale(t)
  <2>1. Step(t, "read", "in") /\ Writers = {}
    BY <1>2 DEF NotStale, Step, TypeOK, Readers
  <2>2. /\ pc' \in [Thread -> Places] /\ Writers' = {}
        /\ \A u \in Writers' : Writers' = {u} /\ Readers' = {}
    BY <2>1, LockKept DEF Places
  <2>3. need' \in [Thread -> 0..MaxEdits + 1]
    <3>2. 0 \in 0..MaxEdits + 1 /\ Noticed \in 0..MaxEdits + 1
      BY SealerAssumption DEF Noticed, TypeOK
    <3>3. need' \in {need, [need EXCEPT ![t] = 0], [need EXCEPT ![t] = Noticed]}
      BY <1>2 DEF NotStale
    <3>4. need \in [Thread -> 0..MaxEdits + 1]
      BY DEF TypeOK
    <3>5. [need EXCEPT ![t] = 0] \in [Thread -> 0..MaxEdits + 1]
      BY <3>2, <3>4
    <3>6. [need EXCEPT ![t] = Noticed] \in [Thread -> 0..MaxEdits + 1]
      BY <3>2, <3>4
    <3> QED BY <3>3, <3>4, <3>5, <3>6
  <2>4. TypeOK'
    BY <1>2, <2>2, <2>3, QuietType DEF NotStale, TypeOK
  <2>5. \A u \in Thread : /\ need'[u] <= version
                          /\ u # t => need'[u] = need[u]
                          /\ local => need'[t] <= have
    BY <1>2, <2>1, SealerAssumption DEF NotStale, Noticed, TypeOK, Bounded, Stamped
  <2>6. Bounded' /\ Stamped' /\ Seen' /\ Served'
    BY <1>2, <2>1, <2>2, <2>5 DEF NotStale, Step, TypeOK, resource, strategy, Bounded, Stamped,
                                  Seen, Served
  <2> QED BY <2>4, <2>6
<1>3. CASE Stale(t)
  <2>1. Step(t, "read", "elevate") /\ Writers = {}
    BY <1>3 DEF Stale, Step, TypeOK, Readers
  <2>2. /\ pc' \in [Thread -> Places] /\ Writers' = {}
        /\ \A u \in Writers' : Writers' = {u} /\ Readers' = {}
    BY <2>1, LockKept DEF Places
  <2>3. need' \in [Thread -> 0..MaxEdits + 1] /\ seen' \in [Thread -> 0..MaxEdits + 1]
    <3>1. need \in [Thread -> 0..MaxEdits + 1] /\ seen \in [Thread -> 0..MaxEdits + 1]
      BY DEF TypeOK
    <3>2. /\ Noticed \in 0..MaxEdits + 1 /\ file.mtime \in 0..MaxEdits + 1
          /\ 1 \in 0..MaxEdits + 1
      BY SealerAssumption DEF Noticed, TypeOK
    <3>3. need' \in {need, [need EXCEPT ![t] = Noticed]}
      BY <1>3 DEF Stale
    <3>4. seen' \in {[seen EXCEPT ![t] = file.mtime], [seen EXCEPT ![t] = 1]}
      BY <1>3 DEF Stale
    <3>5. [need EXCEPT ![t] = Noticed] \in [Thread -> 0..MaxEdits + 1]
      BY <3>1, <3>2
    <3>6. /\ [seen EXCEPT ![t] = file.mtime] \in [Thread -> 0..MaxEdits + 1]
          /\ [seen EXCEPT ![t] = 1] \in [Thread -> 0..MaxEdits + 1]
      BY <3>1, <3>2
    <3> QED BY <3>1, <3>3, <3>4, <3>5, <3>6
  <2>4. TypeOK'
    BY <1>3, <2>2, <2>3, QuietType DEF Stale, TypeOK
  <2>5. \A u \in Thread : /\ need'[u] <= version
                          /\ u # t => need'[u] = need[u] /\ seen'[u] = seen[u]
                          /\ local => need'[t] <= seen'[t] /\ seen'[t] <= version
    BY <1>3, <2>1, SealerAssumption DEF Stale, Noticed, TypeOK, Bounded
  <2>6. Bounded' /\ Stamped' /\ Seen' /\ Served'
    BY <1>3, <2>1, <2>2, <2>5 DEF Stale, Step, TypeOK, resource, strategy, Bounded, Stamped,
                                  Seen, Served
  <2> QED BY <2>4, <2>6
<1>4. CASE Handled(t)
  <2>1. Step(t, "elevate", "relock") /\ Writers = {}
    BY <1>4 DEF Handled, WriteLockFree
  <2>2. /\ pc' \in [Thread -> Places] /\ Writers' = {}
        /\ \A u \in Writers' : Writers' = {u} /\ Readers' = {}
    BY <2>1, LockKept DEF Places
  <2>3. TypeOK'
    <3>1. seen' \in [Thread -> 0..MaxEdits + 1]
      BY <1>4, SealerAssumption DEF Handled, TypeOK
    <3> QED BY <1>4, <2>2, <3>1, QuietType DEF Handled, TypeOK, history
  <2>4. local => have >= need[t]
    BY <1>4, <2>1 DEF Handled, Step, TypeOK, Stamped, Seen, Bounded
  <2>5. Bounded' /\ Stamped' /\ Seen' /\ Served'
    BY <1>4, <2>1, <2>2, <2>4 DEF Handled, Step, TypeOK, resource, strategy, history, Bounded,
                                  Stamped, Seen, Served
  <2> QED BY <2>3, <2>5
<1> QED BY <1>1, <1>2, <1>3, <1>4

\* What load() brings: from a file the content as it is, so no older than any
\* change noticed.
LEMMA LoadedStep ==
    ASSUME IInv, NEW t \in Thread, NEW content \in Contents \cup {Gone, <<>>}, Load(t, content),
           cacheTag' \in {cacheTag, version}, backing' \in Contents \cup {Gone, <<>>},
           broken' \in {broken, TRUE}, have' \in {have, version}, local => have' = version
    PROVE  IInv'
<1> USE DEF IInv
<1>1. Step(t, "load", "relock") /\ Writers = {t} /\ Readers = {}
  BY DEF Load, Step, TypeOK, Writers
<1>2. /\ pc' \in [Thread -> Places] /\ Writers' = {}
      /\ \A u \in Writers' : Writers' = {u} /\ Readers' = {}
  BY <1>1, LockKept DEF Places
<1>3. /\ raced' \/ DOMAIN keys' \subseteq Name \cup {NoName}
      /\ default' \in Name \cup {NoName}
  BY KeyMapType DEF Load, raced
<1>4. have' \in 0..MaxEdits + 1 /\ cacheTag' \in 0..MaxEdits + 1
  BY SealerAssumption DEF TypeOK
<1>5. TypeOK'
  BY <1>2, <1>3, <1>4 DEF Load, TypeOK, resource, Places
<1>6. have <= have' /\ have' <= version /\ version' = version
  BY <1>4 DEF Load, resource, Bounded, TypeOK
<1>7. Bounded' /\ Stamped' /\ Seen' /\ Served'
  BY <1>1, <1>6 DEF Load, Step, TypeOK, resource, Bounded, Stamped, Seen, Served
<1> QED BY <1>5, <1>7

\* Threads on the way to the write lock and back.
LEMMA LoadStep ==
    ASSUME IInv, NEW t \in Thread,
           StartLoad(t) \/ LoadFile(t) \/ FetchWhole(t) \/ FetchUnwritten(t) \/ FetchFails(t)
             \/ NotModified(t) \/ Relock(t)
    PROVE  IInv'
<1> USE DEF IInv
<1>1. CASE StartLoad(t)
  <2>1. Step(t, "elevate", "load") /\ WriteLockFree
    BY <1>1 DEF StartLoad
  <2>2. /\ pc' \in [Thread -> Places] /\ Writers' = {t}
        /\ \A u \in Writers' : Writers' = {u} /\ Readers' = {}
    BY <2>1, LockKept DEF Places
  <2>3. seen' \in [Thread -> 0..MaxEdits + 1] /\ filestamp' \in 0..MaxEdits + 1
    BY <1>1, SealerAssumption DEF StartLoad, TypeOK
  <2>4. TypeOK'
    BY <1>1, <2>2, <2>3 DEF StartLoad, TypeOK, resource, history, Places, raced
  <2>5. filestamp' <= version
    BY <1>1, <2>1, SealerAssumption DEF StartLoad, Step, Bounded, Seen, TypeOK
  <2>6. Bounded' /\ Stamped' /\ Seen' /\ Served'
    BY <1>1, <2>1, <2>2, <2>5 DEF StartLoad, Step, TypeOK, resource, history, Bounded, Stamped,
                                  Seen, Served
  <2> QED BY <2>4, <2>6
<1>2. CASE LoadFile(t)
  <2>1. file.content \in Contents \cup {Gone, <<>>} /\ backing \in Contents \cup {Gone, <<>>}
    BY DEF TypeOK
  <2> QED BY <1>2, <2>1, LoadedStep DEF LoadFile
<1>3. CASE FetchWhole(t) \/ FetchUnwritten(t)
  <2>1. file.content \in Contents \cup {Gone, <<>>} /\ backing \in Contents \cup {Gone, <<>>}
    BY DEF TypeOK
  <2>2. CASE FetchWhole(t)
    BY <2>1, <2>2, LoadedStep DEF FetchWhole, Fetched
  <2>3. CASE FetchUnwritten(t)
    BY <2>1, <2>3, LoadedStep DEF FetchUnwritten, Fetched
  <2> QED BY <1>3, <2>2, <2>3
<1>4. CASE FetchFails(t) \/ NotModified(t)
  <2>1. Step(t, "load", "relock") /\ ~local
    BY <1>4 DEF FetchFails, NotModified
  <2>2. /\ pc' \in [Thread -> Places]
        /\ \A u \in Writers' : Writers' = {u} /\ Readers' = {}
    BY <2>1, LockKept DEF Places
  <2>3. UNCHANGED <<resource, strategy, call, seen, result, history>>
    BY <1>4 DEF FetchFails, NotModified
  <2>4. TypeOK'
    BY <2>2, <2>3, QuietType DEF TypeOK, history
  <2>5. Bounded' /\ Stamped' /\ Seen' /\ Served'
    BY <2>1, <2>3 DEF Step, TypeOK, resource, strategy, history, Bounded, Stamped, Seen, Served
  <2> QED BY <2>4, <2>5
<1>5. CASE Relock(t)
  <2>1. Step(t, "relock", "in") /\ Writers = {}
    BY <1>5 DEF Relock
  <2>2. /\ pc' \in [Thread -> Places] /\ Writers' = {}
        /\ \A u \in Writers' : Writers' = {u} /\ Readers' = {}
    BY <2>1, LockKept DEF Places
  <2>3. TypeOK'
    BY <1>5, <2>2, QuietType DEF Relock, TypeOK, history
  <2>4. Bounded' /\ Stamped' /\ Seen' /\ Served'
    BY <1>5, <2>1, <2>2 DEF Relock, Step, TypeOK, resource, strategy, history, Bounded, Stamped,
                            Seen, Served
  <2> QED BY <2>3, <2>4
<1> QED BY <1>1, <1>2, <1>3, <1>4, <1>5

\* wrap() and unwrap() themselves.
LEMMA UseStep ==
    ASSUME IInv, NEW t \in Thread, Enter(t) \/ Use(t)
    PROVE  IInv'
<1> USE DEF IInv
<1>1. CASE Enter(t)
  <2>1. Step(t, "in", "map") /\ Writers = {}
    BY <1>1 DEF Enter, Step, TypeOK, Readers
  <2>2. /\ pc' \in [Thread -> Places] /\ Writers' = {}
        /\ \A u \in Writers' : Writers' = {u} /\ Readers' = {}
    BY <2>1, LockKept DEF Places
  <2>3. raced' \/ DOMAIN keys' \subseteq Name \cup {NoName}
    BY <1>1 DEF Enter, TypeOK, raced
  <2>4. TypeOK'
    BY <1>1, <2>2, <2>3 DEF Enter, TypeOK, resource, history, Places
  <2>5. Bounded' /\ Stamped' /\ Seen' /\ Served'
    BY <1>1, <2>1, <2>2 DEF Enter, Step, TypeOK, resource, history, Bounded, Stamped, Seen,
                            Served
  <2> QED BY <2>4, <2>5
<1>2. CASE Use(t)
  <2>1. Step(t, "map", "out") /\ Writers = {}
    BY <1>2 DEF Use, Step, TypeOK, Readers
  <2>2. /\ pc' \in [Thread -> Places] /\ Writers' = {}
        /\ \A u \in Writers' : Writers' = {u} /\ Readers' = {}
    BY <2>1, LockKept DEF Places
  <2>3. call[t] # Wrap => call[t].label \in Name
    BY SealerAssumption DEF TypeOK, Call
  <2>4. Label(t) \in Name \cup {NoName}
    BY <2>3 DEF Label, TypeOK
  <2>5. raced' \/ DOMAIN keys' \subseteq Name \cup {NoName}
    <3>1. raced' \/ (~raced /\ DOMAIN keys' \subseteq DOMAIN keys \cup {Label(t)})
      BY <1>2 DEF Use, raced
    <3> QED BY <2>4, <3>1 DEF TypeOK
  <2>6. result' \in Results
    BY <1>2 DEF Use, Outcome, Results
  <2>7. call' \in [Thread -> Call] /\ need' \in [Thread -> 0..MaxEdits + 1]
    <3>1. 0 \in 0..MaxEdits + 1 /\ Wrap \in Call
      BY SealerAssumption DEF Call
    <3>2. call' = [call EXCEPT ![t] = Wrap] /\ need' = [need EXCEPT ![t] = 0]
      BY <1>2 DEF Use
    <3> QED BY <3>1, <3>2 DEF TypeOK
  <2>8. TypeOK'
    BY <1>2, <2>2, <2>5, <2>6, <2>7 DEF Use, TypeOK, resource, Places
  <2>9. Bounded' /\ Stamped' /\ Seen' /\ Served'
    <3>1. /\ UNCHANGED <<local, file, version, filestamp, have, seen>>
          /\ \A u \in Thread : need'[u] = IF u = t THEN 0 ELSE need[u]
      BY <1>2 DEF Use, resource, TypeOK
    <3>2. pc' = [pc EXCEPT ![t] = "out"]
      BY <2>1 DEF Step
    <3>3. Bounded'
      <4>1. 0 <= version
        BY SealerAssumption DEF TypeOK
      <4>2. \A u \in Thread : need'[u] <= version
        BY <3>1, <4>1 DEF Bounded
      <4> QED BY <3>1, <4>2 DEF Bounded
    <3>4. Stamped'
      BY <2>1, <3>1 DEF Stamped
    <3>5. Seen' /\ Served'
      BY <3>1, <3>2 DEF TypeOK, Seen, Served
    <3> QED BY <3>3, <3>4, <3>5
  <2> QED BY <2>8, <2>9
<1> QED BY <1>1, <1>2

\* A spoilt map stays spoilt.
LEMMA SpoiltForEver == ASSUME raced, [Next]_vars PROVE raced'
BY DEF raced, Next, Advance, Edit, Begin, NotStale, Stale, Handled, StartLoad, LoadFile, FetchWhole,
       FetchUnwritten, Load, FetchFails, NotModified, Relock, Enter, Use, vars, strategy

\* Lookups take no key away, unless they race.
LEMMA UseKeepsKeys ==
    ASSUME NEW t \in Thread, Use(t), ~raced, ~raced' PROVE Usable(keys') = Usable(keys)
<1>1. CASE ~Inserts(t)
  BY <1>1 DEF Use
<1>2. CASE Inserts(t)
  <2>1. DOMAIN keys' = DOMAIN keys \cup {Label(t)}
    BY <1>2 DEF Use
  <2>2. \A n \in DOMAIN keys : keys'[n] = keys[n]
    BY <1>2 DEF Use, Inserts
  <2>3. keys'[Label(t)] = NoKey /\ Label(t) \notin DOMAIN keys
    BY <1>2 DEF Use, Inserts
  <2>4. \A k \in Key : k.mat # NoKey
    BY SealerAssumption DEF Key
  <2> QED BY <2>1, <2>2, <2>3, <2>4 DEF Usable, raced
<1> QED BY <1>1, <1>2

LEMMA NextIInv == IInv /\ [Next]_vars => IInv'
<1> SUFFICES ASSUME IInv, [Next]_vars PROVE IInv'
  OBVIOUS
<1>1. CASE UNCHANGED vars
  BY <1>1 DEF vars, resource, strategy, history, IInv, TypeOK, Stamped, Bounded, Seen, Served,
              Writers, Readers, raced
<1>2. CASE Next
  BY <1>2, EditStep, LookStep, LoadStep, UseStep DEF Next, Advance
<1> QED BY <1>1, <1>2

\* What the threads have seen, what they are due and what is loaded stay in step.
THEOREM Inductive == Spec => []IInv
BY InitIInv, NextIInv, PTL DEF Spec

(***************************************************************************)
(* Every variable keeps its type, and the write lock excludes all others,  *)
(* through every exchange of read for write lock in stale() and lock().    *)
(***************************************************************************)
THEOREM TypeCorrect == Spec => []TypeOK
<1>1. IInv => TypeOK
  BY DEF IInv
<1> QED BY <1>1, Inductive, PTL

(***************************************************************************)
(* However many threads find the file changed at once, none of them goes   *)
(* on to use keys older than the change it found, although only one loads  *)
(* (stale() and lock()).                                                   *)
(***************************************************************************)
THEOREM NoThreadUsesStaleKeys == Spec => []NoStaleKey
<1>1. IInv => NoStaleKey
  BY DEF IInv, Served, NoStaleKey
<1> QED BY <1>1, Inductive, PTL

(***************************************************************************)
(* However many threads there are, none of them sees a key or the default  *)
(* replaced between its lock() and its unlock(), although lock() exchanges *)
(* locks and a lookup inserts, until two lookups race in the map.          *)
(***************************************************************************)
THEOREM KeysAreStable == Spec => KeysStable
<1>1. IInv /\ [Next]_vars =>
          [Readers # {} /\ ~raced' => Usable(keys') = Usable(keys) /\ default' = default]_vars
  <2> SUFFICES ASSUME IInv, Next, Readers # {}, ~raced'
               PROVE  Usable(keys') = Usable(keys) /\ default' = default
    OBVIOUS
  <2>0. ~raced
    BY SpoiltForEver
  <2>1. CASE UNCHANGED <<keys, default>>
    BY <2>1
  <2>2. ASSUME NEW t \in Thread, NEW content, Load(t, content) PROVE FALSE
    BY <2>2 DEF Load, Step, IInv, TypeOK, Writers
  <2>3. ASSUME NEW t \in Thread, Use(t)
        PROVE  Usable(keys') = Usable(keys) /\ default' = default
    BY <2>0, <2>3, UseKeepsKeys DEF Use
  <2>4. ASSUME NEW t \in Thread, Enter(t) PROVE UNCHANGED <<keys, default>>
    BY <2>4 DEF Enter, raced
  <2>5. \/ UNCHANGED <<keys, default>>
        \/ \E t \in Thread : Enter(t) \/ Use(t) \/ \E content : Load(t, content)
    BY DEF Next, Advance, Edit, Begin, NotStale, Stale, Handled, StartLoad, LoadFile, FetchWhole,
           FetchUnwritten, FetchFails, NotModified, Relock, strategy
  <2> QED BY <2>1, <2>2, <2>3, <2>4, <2>5
<1> QED BY <1>1, Inductive, PTL DEF Spec, KeysStable

(***************************************************************************)
(* The keys that stay: they are in the resource, and once loaded in the    *)
(* map.                                                                    *)
(***************************************************************************)
InResource == local \/ file.content # Gone => always \subseteq KeysIn(file.content)
InMap == have # 0 /\ ~broken /\ ~raced => always \subseteq Usable(keys)
KInv == InResource /\ InMap

LEMMA KeysInMap ==
    \A content : KeyMap(content) # Spoilt => Usable(KeyMap(content)) = KeysIn(content)
BY DEF Usable, KeysIn, KeyMap

LEMMA InitKInv == Init => KInv
BY DEF Init, KInv, InResource, InMap, raced

LEMMA NextKInv == IInv /\ KInv /\ [Next]_vars => KInv'
<1> SUFFICES ASSUME IInv, KInv, [Next]_vars PROVE KInv'
  OBVIOUS
<1>1. CASE UNCHANGED <<local, file, always, have, broken, keys>>
  BY <1>1 DEF KInv, InResource, InMap, raced
<1>2. CASE Edit
  <2>1. InMap'
    BY <1>2 DEF Edit, strategy, KInv, InMap, raced
  <2>2. InResource'
    BY <1>2 DEF Edit, KInv, InResource
  <2> QED BY <2>1, <2>2 DEF KInv
<1>3. ASSUME NEW t \in Thread, LoadFile(t) \/ FetchWhole(t) PROVE KInv'
  <2>1. /\ UNCHANGED <<local, file, always>> /\ (raced' \/ keys' = KeyMap(file.content))
        /\ local \/ file.content # Gone
    BY <1>3 DEF LoadFile, FetchWhole, Fetched, Load, resource, raced
  <2>2. InResource'
    BY <2>1 DEF KInv, InResource
  <2>3. raced' \/ always' \subseteq Usable(keys')
    BY <2>1, KeysInMap DEF KInv, InResource, raced
  <2> QED BY <2>2, <2>3 DEF KInv, InMap
<1>4. ASSUME NEW t \in Thread, FetchUnwritten(t) PROVE KInv'
  BY <1>4 DEF FetchUnwritten, Load, resource, KInv, InResource, InMap
<1>5. ASSUME NEW t \in Thread, Use(t) PROVE KInv'
  <2>1. UNCHANGED <<local, file, always, have, broken>>
    BY <1>5 DEF Use, resource
  <2>2. raced => raced'
    BY SpoiltForEver
  <2> QED BY <1>5, <2>1, <2>2, UseKeepsKeys DEF KInv, InResource, InMap
<1>6. ASSUME NEW t \in Thread, Enter(t) PROVE KInv'
  BY <1>6 DEF Enter, resource, history, KInv, InResource, InMap, raced
<1>7. \/ UNCHANGED <<local, file, always, have, broken, keys>>
      \/ Edit
      \/ \E t \in Thread : LoadFile(t) \/ FetchWhole(t) \/ FetchUnwritten(t) \/ Enter(t) \/ Use(t)
  BY DEF Next, Advance, Begin, NotStale, Stale, Handled, StartLoad, FetchFails, NotModified,
         Relock, resource, strategy, history, vars
<1> QED BY <1>1, <1>2, <1>3, <1>4, <1>5, <1>6, <1>7

(***************************************************************************)
(* With any number of threads, roll-overs, failed fetches and lookups, what *)
(* was sealed under a key that stays in the resource is opened or, if so,  *)
(* found expired (unwrap()).                                               *)
(***************************************************************************)
THEOREM NoKeyIsLost == Spec => KeyKept
<1> DEFINE Opens(t) ==
        /\ pc[t] = "map" /\ pc'[t] = "out"
        /\ call[t] # Wrap /\ call[t].key \in always /\ call[t].label = call[t].key.name
        /\ have # 0 /\ ~raced /\ ~broken
        => result' = IF call[t].expired THEN "expired" ELSE "data"
<1>1. IInv /\ KInv /\ [Next]_vars => [\A t \in Thread : Opens(t)]_vars
  <2> SUFFICES ASSUME IInv, KInv, Next, NEW t \in Thread,
                      pc[t] = "map", pc'[t] = "out",
                      call[t] # Wrap, call[t].key \in always, call[t].label = call[t].key.name,
                      have # 0, ~raced, ~broken
               PROVE  result' = IF call[t].expired THEN "expired" ELSE "data"
    OBVIOUS
  <2>1. Use(t)
    <3>1. pc' # pc
      OBVIOUS
    <3>2. PICK u \in Thread : Begin(u) \/ Advance(u)
      BY <3>1 DEF Next, Edit
    <3>3. \/ Use(u)
          \/ \E to \in {"read", "elevate", "load", "relock", "in", "map"} :
                pc' = [pc EXCEPT ![u] = to]
      BY <3>2 DEF Begin, Advance, NotStale, Stale, Handled, StartLoad, LoadFile, FetchWhole,
                  FetchUnwritten, Load, FetchFails, NotModified, Relock, Enter, Step
    <3>4. Use(u)
      BY <3>3 DEF IInv, TypeOK
    <3>5. u = t
      BY <3>4 DEF Use, Step, IInv, TypeOK
    <3> QED BY <3>4, <3>5
  <2>2. call[t].key \in Usable(keys)
    BY DEF KInv, InMap
  <2>3. Label(t) = call[t].key.name /\ ~Inserts(t) /\ keys[Label(t)] = call[t].key.mat
    BY <2>2 DEF Label, Inserts, Usable
  <2>4. keys[Label(t)] # NoKey
    BY <2>2, <2>3, SealerAssumption DEF Usable, Key
  <2>5. result' = Outcome(t, keys[Label(t)])
    BY <2>1, <2>3 DEF Use
  <2> QED BY <2>3, <2>4, <2>5 DEF Outcome
<1>2. Spec => []KInv
  BY InitKInv, NextKInv, Inductive, PTL DEF Spec
<1> QED BY <1>1, <1>2, Inductive, PTL DEF Spec, KeyKept
=============================================================================
