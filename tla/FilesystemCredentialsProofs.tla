--------------------- MODULE FilesystemCredentialsProofs ---------------------
(***************************************************************************)
(* The credential of a FilesystemCredentialResolver is whole and stable,   *)
(* for any threads, contents, orders of resources and roll-overs.          *)
(***************************************************************************)
EXTENDS FilesystemCredentials, TLAPS

\* A thread that elevates or loads is at one of the resources.
AtResource == \A t \in Thread : pc[t] \in {"elevate", "downgrade", "load"} => More(t)

Inv == TypeOK /\ AtResource

\* The parts of TypeOK that an action may leave as they are.
ResourcesType ==
    /\ order \in Orders
    /\ local \in BOOLEAN
    /\ file \in [Resource -> [content : Content, mtime : Stamp, edit : Stamp]]
    /\ clock \in Stamp

ManagedType ==
    /\ loaded \in [Resource -> Readable \cup {None}]
    /\ format \in [Resource -> Form \cup {""}]
    /\ filestamp \in [Resource -> Stamp]
    /\ cacheTag \in [Resource -> Content \cup {None}]
    /\ backing \in [Resource -> Content \cup {None}]

CredentialType ==
    /\ credential \in [Resource -> Readable \cup {None}]
    /\ attached \in [key : Readable \cup {None}, cert : Readable \cup {None}]

ThreadsType ==
    /\ pc \in [Thread -> {"out", "check", "elevate", "downgrade", "write", "load", "relock", "in"}]
    /\ at \in [Thread -> 1..4]
    /\ seen \in [Thread -> Stamp]
    /\ updated \in [Thread -> BOOLEAN]

Exclusive == \A t \in Writers : Writers = {t} /\ Readers = {}

LEMMA TypeParts ==
    TypeOK <=> ResourcesType /\ ManagedType /\ CredentialType /\ ThreadsType /\ Exclusive
  BY DEF TypeOK, ResourcesType, ManagedType, CredentialType, ThreadsType, Exclusive

LEMMA TypePartsNext ==
    TypeOK' <=> ResourcesType' /\ ManagedType' /\ CredentialType' /\ ThreadsType' /\ Exclusive'
  BY DEF TypeOK, ResourcesType, ManagedType, CredentialType, ThreadsType, Exclusive

(* lock() has at most three resources to go through. *)
LEMMA OrderType ==
    ASSUME order \in Orders
    PROVE  /\ Len(order) \in 1..3
           /\ \A i \in 1..Len(order) : order[i] \in Resource
           /\ Configured(order) \subseteq Resource
<1>1. order \in {<<"key", "cert", "crl">>, <<"key", "cert">>, <<"cert">>, <<"cert", "crl">>}
  BY CredentialAssumption
<1>. QED BY <1>1 DEF Resource, Configured

(* The resource a thread is at, and the one it goes on to. *)
LEMMA AtOne ==
    ASSUME Inv, NEW t \in Thread, More(t)
    PROVE  Res(t) \in Resource /\ at[t] + 1 \in 1..4
<1>1. at[t] \in 1..4 /\ order \in Orders
  BY DEF Inv, TypeOK
<1>. QED BY <1>1, OrderType DEF More, Res

LEMMA Passed ==
    ASSUME Inv, NEW t \in Thread, More(t), Passes(t)
    PROVE  at' \in [Thread -> 1..4] /\ \A u \in Thread : u # t => at'[u] = at[u]
<1>1. at' = [at EXCEPT ![t] = at[t] + 1] /\ at \in [Thread -> 1..4]
  BY DEF Passes, Inv, TypeOK
<1>. QED BY <1>1, AtOne

(* What can be loaded can be read. *)
LEMMA LoadsReadable ==
    ASSUME NEW r \in Resource, NEW c, NEW fmt, Loads(r, c, fmt)
    PROVE  c \in Readable
  BY DEF Loads, Resource, loadKey, loadCert, loadCRL, Parses

(* What is loaded replaces the old objects, or they are maintained. *)
LEMMA LoadedType ==
    ASSUME Inv, NEW t \in Thread, Res(t) \in Resource, NEW c, LoadsContent(t, c)
    PROVE  /\ loaded' \in [Resource -> Readable \cup {None}]
           /\ format' \in [Resource -> Form \cup {""}]
           /\ updated' \in [Thread -> BOOLEAN]
<1>1. CASE Replaces(t, c)
  <2>1. c \in Readable
    BY <1>1, LoadsReadable DEF Replaces
  <2>2. c.form \in Form
    BY <2>1 DEF Readable
  <2>3. FormatOf(Res(t), c) \in Form \cup {""}
    BY <2>2 DEF FormatOf, guessEncodingFormat, Inv, TypeOK
  <2>. QED BY <1>1, <2>1, <2>3 DEF Replaces, Inv, TypeOK
<1>2. CASE Maintains(t, c)
  BY <1>2 DEF Maintains, Inv, TypeOK
<1>. QED BY <1>1, <1>2 DEF LoadsContent
-----------------------------------------------------------------------------
LEMMA InitInv == Init => Inv
<1> SUFFICES ASSUME Init PROVE Inv
  OBVIOUS
<1>1. PICK c \in First :
        /\ file = [r \in Resource |-> [content |-> IF r \in Configured(order) THEN c ELSE Gone,
                                       mtime |-> 1, edit |-> 1]]
        /\ loaded = [r \in Resource |-> IF r \in Configured(order) THEN c ELSE None]
        /\ format = [r \in Resource |-> IF r \in Configured(order) THEN guessEncodingFormat(c) ELSE ""]
        /\ backing = [r \in Resource |-> IF local THEN None
                                         ELSE IF r \in Configured(order) THEN c ELSE None]
        /\ cacheTag = backing
        /\ credential = loaded
  BY DEF Init
<1>2. c \in Readable /\ c.form \in Form /\ c \in Content /\ Gone \in Content
  BY CredentialAssumption DEF Readable, Content
<1>3. 0 \in Stamp /\ 1 \in Stamp
  BY CredentialAssumption DEF Stamp
<1>4. ResourcesType
  <2>1. order \in Orders /\ local \in BOOLEAN /\ clock \in Stamp
    BY <1>3 DEF Init
  <2>2. \A r \in Resource : (IF r \in Configured(order) THEN c ELSE Gone) \in Content
    BY <1>2
  <2>. QED BY <1>1, <1>3, <2>1, <2>2 DEF ResourcesType
<1>5. ManagedType
  <2>1. guessEncodingFormat(c) \in Form
    BY <1>2 DEF guessEncodingFormat
  <2>. QED BY <1>1, <1>2, <1>3, <2>1 DEF Init, ManagedType
<1>6. CredentialType
  BY <1>1, <1>2 DEF Init, CredentialType
<1>7. /\ pc = [t \in Thread |-> "out"]
      /\ at = [t \in Thread |-> 1]
      /\ seen = [t \in Thread |-> 0]
      /\ updated = [t \in Thread |-> FALSE]
  BY DEF Init
<1>8. ThreadsType /\ \A t \in Thread : pc[t] = "out"
  BY <1>3, <1>7 DEF ThreadsType
<1>9. Exclusive /\ AtResource
  BY <1>8 DEF Exclusive, Writers, AtResource
<1>. QED BY <1>4, <1>5, <1>6, <1>8, <1>9, TypeParts DEF Inv
-----------------------------------------------------------------------------
State == {"out", "check", "elevate", "downgrade", "write", "load", "relock", "in"}

(* A thread that takes a lock only when it may keeps the write lock exclusive,  *)
(* and is at a resource if it is to load one.                                   *)
LEMMA Moves ==
    ASSUME Inv, NEW t \in Thread, NEW to \in State,
           pc' = [pc EXCEPT ![t] = to], order' = order,
           at' \in [Thread -> 1..4], \A u \in Thread : u # t => at'[u] = at[u],
           to \in {"check", "in"} => Writers = {} \/ pc[t] \in {"check", "in"},
           to \in {"write", "load"} => WriteLockFree \/ pc[t] \in {"write", "load"},
           to \in {"elevate", "downgrade", "load"} => More(t) /\ at'[t] = at[t]
    PROVE  pc' \in [Thread -> State] /\ Exclusive' /\ AtResource'
<1>1. pc \in [Thread -> State] /\ Exclusive /\ AtResource
  BY TypeParts DEF Inv, ThreadsType, State
<1>2. \A u \in Thread : pc'[u] = IF u = t THEN to ELSE pc[u]
  BY <1>1
<1>3. Exclusive'
  <2> SUFFICES ASSUME NEW w \in Writers' PROVE Writers' = {w} /\ Readers' = {}
    BY DEF Exclusive
  <2>1. CASE to \in {"write", "load"}
    <3>1. \A u \in Thread : u # t => pc[u] \notin {"write", "load", "check", "in"}
      BY <1>1, <2>1 DEF Exclusive, WriteLockFree, Writers, Readers
    <3>. QED BY <1>2, <2>1, <3>1 DEF Writers, Readers
  <2>2. CASE to \notin {"write", "load"}
    <3>1. w \in Writers /\ w # t
      BY <1>2, <2>2 DEF Writers
    <3>2. Writers = {w} /\ Readers = {} /\ to \notin {"check", "in"}
      BY <1>1, <3>1 DEF Exclusive, Writers, Readers
    <3>. QED BY <1>2, <2>2, <3>1, <3>2 DEF Writers, Readers
  <2>. QED BY <2>1, <2>2
<1>4. AtResource'
  BY <1>1, <1>2 DEF AtResource, More
<1>. QED BY <1>1, <1>2, <1>3, <1>4

(* A thread that is not moving on stays where it is. *)
LEMMA Stays ==
    ASSUME Inv, UNCHANGED <<order, pc, at>>
    PROVE  pc' \in [Thread -> State] /\ at' \in [Thread -> 1..4] /\ Exclusive' /\ AtResource'
<1>1. pc \in [Thread -> State] /\ at \in [Thread -> 1..4] /\ Exclusive /\ AtResource
  BY TypeParts DEF Inv, ThreadsType, State
<1>. QED BY <1>1 DEF Exclusive, Writers, Readers, AtResource, More
-----------------------------------------------------------------------------
LEMMA EditInv == ASSUME Inv, NEW r \in Resource, Edit(r) PROVE Inv'
<1>1. ResourcesType'
  <2>1. clock + 1 \in Stamp /\ Later \subseteq Content /\ ResourcesType
    BY CredentialAssumption, TypeParts DEF Edit, Inv, Stamp, ResourcesType
  <2>2. PICK c \in Later, mtime \in {file[r].mtime, clock + 1} :
          file' = [file EXCEPT ![r] = IF local THEN [content |-> c, mtime |-> mtime, edit |-> clock + 1]
                                      ELSE [file[r] EXCEPT !.content = c]]
    BY ZenonT(30) DEF Edit
  <2>3. file[r].mtime \in Stamp
    BY <2>1 DEF ResourcesType
  <2>. QED BY <2>1, <2>2, <2>3 DEF Edit, ResourcesType
<1>2. ManagedType' /\ CredentialType'
  BY TypeParts DEF Edit, Inv, managed, ManagedType, CredentialType
<1>3. ThreadsType' /\ Exclusive' /\ AtResource'
  BY Stays, TypeParts DEF Edit, Inv, threads, ThreadsType, State
<1>. QED BY <1>1, <1>2, <1>3, TypePartsNext DEF Inv

LEMMA BeginInv == ASSUME Inv, NEW t \in Thread, Begin(t) PROVE Inv'
<1>1. ResourcesType' /\ ManagedType' /\ CredentialType'
  BY TypeParts DEF Begin, Inv, resources, managed, ResourcesType, ManagedType, CredentialType
<1>2. at' \in [Thread -> 1..4] /\ \A u \in Thread : u # t => at'[u] = at[u]
  <2>1. at' = [at EXCEPT ![t] = 1] /\ at \in [Thread -> 1..4]
    BY DEF Begin, Inv, TypeOK
  <2>. QED BY <2>1
<1>3. pc' \in [Thread -> State] /\ Exclusive' /\ AtResource'
  BY <1>2, Moves DEF Begin, Step, resources, State
<1>4. ThreadsType'
  BY <1>2, <1>3, TypeParts DEF Begin, Inv, ThreadsType, State
<1>. QED BY <1>1, <1>3, <1>4, TypePartsNext DEF Inv

LEMMA NotStaleInv == ASSUME Inv, NEW t \in Thread, NotStale(t) PROVE Inv'
<1>1. ResourcesType' /\ ManagedType' /\ CredentialType'
  BY TypeParts DEF NotStale, Inv, resources, managed, ResourcesType, ManagedType, CredentialType
<1>2. at' \in [Thread -> 1..4] /\ \A u \in Thread : u # t => at'[u] = at[u]
  BY Passed DEF NotStale
<1>3. pc[t] \in {"check", "write"} /\ pc' = [pc EXCEPT ![t] = pc[t]] /\ order' = order
  BY DEF NotStale, resources, Inv, TypeOK
<1>4. pc' \in [Thread -> State] /\ Exclusive' /\ AtResource'
  BY <1>2, <1>3, Moves DEF State
<1>5. ThreadsType'
  BY <1>2, <1>4, TypeParts DEF NotStale, Inv, ThreadsType, State
<1>. QED BY <1>1, <1>4, <1>5, TypePartsNext DEF Inv

LEMMA StaleInv == ASSUME Inv, NEW t \in Thread, Stale(t) PROVE Inv'
<1>1. ResourcesType' /\ ManagedType' /\ CredentialType'
  BY TypeParts DEF Stale, Inv, resources, managed, ResourcesType, ManagedType, CredentialType
<1>2. at' \in [Thread -> 1..4] /\ at' = at /\ More(t)
  BY DEF Stale, Inv, TypeOK
<1>3. pc' \in [Thread -> State] /\ Exclusive' /\ AtResource'
  BY <1>2, Moves DEF Stale, Step, resources, State
<1>4. Sees(t) \in Stamp
  <2>1. file[Res(t)].mtime \in Stamp
    BY <1>2, AtOne DEF Inv, TypeOK
  <2>. QED BY <2>1, CredentialAssumption DEF Sees, Stamp
<1>5. ThreadsType'
  BY <1>2, <1>3, <1>4, TypeParts DEF Stale, Inv, ThreadsType, State
<1>. QED BY <1>1, <1>3, <1>5, TypePartsNext DEF Inv

LEMMA HandledInv == ASSUME Inv, NEW t \in Thread, Handled(t) PROVE Inv'
<1>1. ResourcesType' /\ ManagedType' /\ CredentialType'
  BY TypeParts DEF Handled, Inv, resources, managed, ResourcesType, ManagedType, CredentialType
<1>2. at' \in [Thread -> 1..4] /\ at' = at /\ More(t)
  BY DEF Handled, Step, Inv, TypeOK, AtResource
<1>3. pc' \in [Thread -> State] /\ Exclusive' /\ AtResource'
  BY <1>2, Moves DEF Handled, Step, resources, State
<1>4. ThreadsType'
  BY <1>2, <1>3, TypeParts, CredentialAssumption DEF Handled, Inv, ThreadsType, State, Stamp
<1>. QED BY <1>1, <1>3, <1>4, TypePartsNext DEF Inv

LEMMA DowngradedInv == ASSUME Inv, NEW t \in Thread, Downgraded(t) PROVE Inv'
<1>1. ResourcesType' /\ ManagedType' /\ CredentialType'
  BY TypeParts DEF Downgraded, Inv, resources, managed, ResourcesType, ManagedType,
                   CredentialType
<1>2. at' \in [Thread -> 1..4] /\ \A u \in Thread : u # t => at'[u] = at[u]
  BY Passed DEF Downgraded, Step, Inv, AtResource
<1>3. pc' \in [Thread -> State] /\ Exclusive' /\ AtResource'
  BY <1>2, Moves DEF Downgraded, Step, resources, State
<1>4. ThreadsType'
  BY <1>2, <1>3, TypeParts DEF Downgraded, Inv, ThreadsType, State
<1>. QED BY <1>1, <1>3, <1>4, TypePartsNext DEF Inv

(* What a thread that gets to load a resource does to the time and to what the  *)
(* others saw of it.                                                            *)
LEMMA StampsType ==
    ASSUME Inv, NEW t \in Thread, Elevated(t) \/ StaleWhileWriting(t), Res(t) \in Resource
    PROVE  filestamp' \in [Resource -> Stamp] /\ seen' \in [Thread -> Stamp]
<1>1. 0 \in Stamp /\ file[Res(t)].mtime \in Stamp /\ seen[t] \in Stamp
  <2>1. 0 \in Stamp
    BY CredentialAssumption DEF Stamp
  <2>. QED BY <2>1 DEF Inv, TypeOK
<1>2. filestamp \in [Resource -> Stamp] /\ seen \in [Thread -> Stamp]
  BY DEF Inv, TypeOK
<1>3. CASE Elevated(t)
  BY <1>1, <1>2, <1>3 DEF Elevated
<1>4. CASE StaleWhileWriting(t)
  BY <1>1, <1>2, <1>4 DEF StaleWhileWriting
<1>. QED BY <1>3, <1>4

LEMMA ElevatedInv == ASSUME Inv, NEW t \in Thread, Elevated(t) PROVE Inv'
<1>1. ResourcesType' /\ CredentialType'
  BY TypeParts DEF Elevated, Inv, resources, ResourcesType, CredentialType
<1>2. at' \in [Thread -> 1..4] /\ at' = at /\ More(t)
  BY DEF Elevated, Step, Inv, TypeOK, AtResource
<1>3. pc' \in [Thread -> State] /\ Exclusive' /\ AtResource'
  BY <1>2, Moves DEF Elevated, Step, resources, State
<1>4. filestamp' \in [Resource -> Stamp] /\ seen' \in [Thread -> Stamp]
  BY <1>2, AtOne, StampsType
<1>5. ThreadsType' /\ ManagedType'
  BY <1>2, <1>3, <1>4, TypeParts DEF Elevated, Inv, ThreadsType, ManagedType, State
<1>. QED BY <1>1, <1>3, <1>5, TypePartsNext DEF Inv

LEMMA StaleWhileWritingInv == ASSUME Inv, NEW t \in Thread, StaleWhileWriting(t) PROVE Inv'
<1>1. ResourcesType' /\ CredentialType'
  BY TypeParts DEF StaleWhileWriting, Inv, resources, ResourcesType, CredentialType
<1>2. at' \in [Thread -> 1..4] /\ at' = at /\ More(t)
  BY DEF StaleWhileWriting, Inv, TypeOK
<1>3. pc' \in [Thread -> State] /\ Exclusive' /\ AtResource'
  BY <1>2, Moves DEF StaleWhileWriting, Step, resources, State
<1>4. filestamp' \in [Resource -> Stamp] /\ seen' \in [Thread -> Stamp]
  BY <1>2, AtOne, StampsType
<1>5. ThreadsType' /\ ManagedType'
  BY <1>2, <1>3, <1>4, TypeParts DEF StaleWhileWriting, Inv, ThreadsType, ManagedType, State
<1>. QED BY <1>1, <1>3, <1>5, TypePartsNext DEF Inv

(* A load passes the resource it was at. *)
LEMMA LoadPasses ==
    ASSUME Inv, NEW t \in Thread, Step(t, "load", "write"), Passes(t), order' = order
    PROVE  /\ at' \in [Thread -> 1..4]
           /\ Res(t) \in Resource
           /\ pc' \in [Thread -> State] /\ Exclusive' /\ AtResource'
<1>1. More(t)
  BY DEF Step, Inv, AtResource
<1>2. at' \in [Thread -> 1..4] /\ \A u \in Thread : u # t => at'[u] = at[u]
  BY <1>1, Passed
<1>3. Res(t) \in Resource
  BY <1>1, AtOne
<1>. QED BY <1>2, <1>3, Moves DEF Step, State

LEMMA LoadFileInv == ASSUME Inv, NEW t \in Thread, LoadFile(t) PROVE Inv'
<1>1. ResourcesType' /\ CredentialType' /\ order' = order
  BY TypeParts DEF LoadFile, Inv, resources, ResourcesType, CredentialType
<1>2. at' \in [Thread -> 1..4] /\ Res(t) \in Resource
      /\ pc' \in [Thread -> State] /\ Exclusive' /\ AtResource'
  BY <1>1, LoadPasses DEF LoadFile
<1>3. /\ loaded' \in [Resource -> Readable \cup {None}]
      /\ format' \in [Resource -> Form \cup {""}]
      /\ updated' \in [Thread -> BOOLEAN]
  BY <1>2, LoadedType DEF LoadFile
<1>4. ThreadsType' /\ ManagedType'
  BY <1>2, <1>3, TypeParts DEF LoadFile, Inv, ThreadsType, ManagedType, State
<1>. QED BY <1>1, <1>2, <1>4, TypePartsNext DEF Inv

LEMMA FetchInv == ASSUME Inv, NEW t \in Thread, Fetch(t) \/ FetchUnwritten(t) PROVE Inv'
<1>1. /\ Answered(t)
      /\ backing' \in {backing, [backing EXCEPT ![Res(t)] = file[Res(t)].content],
                      [backing EXCEPT ![Res(t)] = Spoilt]}
      /\ \E c : LoadsContent(t, c)
  BY DEF Fetch, FetchUnwritten
<1>2. ResourcesType' /\ CredentialType' /\ order' = order
  BY <1>1, TypeParts DEF Answered, Inv, resources, ResourcesType, CredentialType
<1>3. at' \in [Thread -> 1..4] /\ Res(t) \in Resource
      /\ pc' \in [Thread -> State] /\ Exclusive' /\ AtResource'
  BY <1>1, <1>2, LoadPasses DEF Answered
<1>4. /\ loaded' \in [Resource -> Readable \cup {None}]
      /\ format' \in [Resource -> Form \cup {""}]
      /\ updated' \in [Thread -> BOOLEAN]
  BY <1>1, <1>3, LoadedType
<1>5. /\ cacheTag' \in [Resource -> Content \cup {None}]
      /\ backing' \in [Resource -> Content \cup {None}]
  <2>1. file[Res(t)].content \in Content /\ Spoilt \in Content
    BY <1>3 DEF Inv, TypeOK, Content
  <2>2. /\ cacheTag \in [Resource -> Content \cup {None}]
        /\ backing \in [Resource -> Content \cup {None}]
    BY DEF Inv, TypeOK
  <2>. QED BY <1>1, <2>1, <2>2 DEF Answered
<1>6. ThreadsType' /\ ManagedType'
  BY <1>1, <1>3, <1>4, <1>5, TypeParts DEF Answered, Inv, ThreadsType, ManagedType, State
<1>. QED BY <1>2, <1>3, <1>6, TypePartsNext DEF Inv

LEMMA NotFetchedInv == ASSUME Inv, NEW t \in Thread, NotFetched(t) PROVE Inv'
<1>1. ResourcesType' /\ ManagedType' /\ CredentialType' /\ order' = order
  BY TypeParts DEF NotFetched, Inv, resources, managed, ResourcesType, ManagedType,
                   CredentialType
<1>2. at' \in [Thread -> 1..4] /\ pc' \in [Thread -> State] /\ Exclusive' /\ AtResource'
  BY <1>1, LoadPasses DEF NotFetched
<1>3. ThreadsType'
  BY <1>2, TypeParts DEF NotFetched, Inv, ThreadsType, State
<1>. QED BY <1>1, <1>2, <1>3, TypePartsNext DEF Inv

LEMMA SwapInv == ASSUME Inv, NEW t \in Thread, Swap(t) PROVE Inv'
<1>1. ResourcesType' /\ ManagedType'
  BY TypeParts DEF Swap, Inv, resources, managed, ResourcesType, ManagedType
<1>2. CredentialType'
  BY TypeParts DEF Swap, Inv, ManagedType, CredentialType
<1>3. at' \in [Thread -> 1..4] /\ at' = at
  BY DEF Swap, Inv, TypeOK
<1>4. pc' \in [Thread -> State] /\ Exclusive' /\ AtResource'
  BY <1>3, Moves DEF Swap, Step, resources, State
<1>5. ThreadsType'
  BY <1>3, <1>4, TypeParts DEF Swap, Inv, ThreadsType, State
<1>. QED BY <1>1, <1>2, <1>4, <1>5, TypePartsNext DEF Inv

LEMMA RelockInv == ASSUME Inv, NEW t \in Thread, Relock(t) \/ Stable(t) PROVE Inv'
<1>1. ResourcesType' /\ ManagedType' /\ CredentialType'
  BY TypeParts DEF Relock, Stable, Inv, resources, managed, ResourcesType, ManagedType,
                   CredentialType
<1>2. at' \in [Thread -> 1..4] /\ at' = at
  BY DEF Relock, Stable, Inv, TypeOK
<1>3. pc' \in [Thread -> State] /\ Exclusive' /\ AtResource'
  BY <1>2, Moves DEF Relock, Stable, Step, resources, State
<1>4. ThreadsType'
  BY <1>2, <1>3, TypeParts DEF Relock, Stable, Inv, ThreadsType, State
<1>. QED BY <1>1, <1>3, <1>4, TypePartsNext DEF Inv

LEMMA AttachInv == ASSUME Inv, NEW t \in Thread, Attach(t) PROVE Inv'
<1>1. ResourcesType' /\ ManagedType'
  BY TypeParts DEF Attach, Inv, resources, managed, ResourcesType, ManagedType
<1>2. CredentialType'
  <2>1. credential \in [Resource -> Readable \cup {None}] /\ credential' = credential
    BY DEF Attach, Inv, TypeOK
  <2>2. PICK c : loadKey(c, format["key"])
                 /\ attached' = [key |-> c, cert |-> credential["cert"]]
    BY DEF Attach
  <2>3. c \in Readable /\ credential["cert"] \in Readable \cup {None}
    BY <2>1, <2>2 DEF loadKey, Parses, Resource
  <2>. QED BY <2>1, <2>2, <2>3 DEF CredentialType
<1>3. ThreadsType' /\ Exclusive' /\ AtResource'
  BY Stays, TypeParts DEF Attach, Inv, threads, resources, ThreadsType, State
<1>. QED BY <1>1, <1>2, <1>3, TypePartsNext DEF Inv

LEMMA UnlockInv == ASSUME Inv, NEW t \in Thread, Unlock(t) PROVE Inv'
<1>1. ResourcesType' /\ ManagedType' /\ CredentialType'
  BY TypeParts DEF Unlock, Inv, resources, managed, ResourcesType, ManagedType, CredentialType
<1>2. at' \in [Thread -> 1..4] /\ at' = at
  BY DEF Unlock, Inv, TypeOK
<1>3. pc' \in [Thread -> State] /\ Exclusive' /\ AtResource'
  BY <1>2, Moves DEF Unlock, Step, resources, State
<1>4. ThreadsType'
  BY <1>2, <1>3, TypeParts DEF Unlock, Inv, ThreadsType, State
<1>. QED BY <1>1, <1>3, <1>4, TypePartsNext DEF Inv

LEMMA StutterInv == Inv /\ UNCHANGED vars => Inv'
<1> SUFFICES ASSUME Inv, UNCHANGED vars PROVE Inv'
  OBVIOUS
<1>1. ResourcesType' /\ ManagedType' /\ CredentialType'
  BY TypeParts DEF vars, Inv, resources, managed, ResourcesType, ManagedType, CredentialType
<1>2. ThreadsType' /\ Exclusive' /\ AtResource'
  BY Stays, TypeParts DEF Inv, vars, threads, resources, ThreadsType, State
<1>. QED BY <1>1, <1>2, TypePartsNext DEF Inv

LEMMA NextInv == Inv /\ [Next]_vars => Inv'
<1> SUFFICES ASSUME Inv, [Next]_vars PROVE Inv'
  OBVIOUS
<1>1. ASSUME NEW r \in Resource, Edit(r) PROVE Inv'
  BY <1>1, EditInv
<1>2. ASSUME NEW t \in Thread, Begin(t) \/ Advance(t) \/ Attach(t) PROVE Inv'
  BY <1>2, BeginInv, NotStaleInv, StaleInv, HandledInv, DowngradedInv, ElevatedInv,
     StaleWhileWritingInv, LoadFileInv, FetchInv, NotFetchedInv, SwapInv, RelockInv, AttachInv,
     UnlockInv DEF Advance
<1>. QED BY <1>1, <1>2, StutterInv DEF Next

(* lock() gives up one lock before it takes the other, and every pointer it     *)
(* uses is to a resource: the variables keep their types, no two threads hold   *)
(* the write lock, and none holds it while another reads.                       *)
THEOREM TypeCorrect == Spec => []TypeOK
<1>1. Inv => TypeOK
  BY DEF Inv
<1>. QED BY <1>1, InitInv, NextInv, PTL DEF Spec

LEMMA InvAlways == Spec => []Inv
  BY InitInv, NextInv, PTL DEF Spec
-----------------------------------------------------------------------------
(* What getCredential() lets through is a key with its certificate. *)
LEMMA OnlySwap ==
    ASSUME Inv, [Next]_vars, credential' # credential
    PROVE  \E t \in Thread : pc[t] = "write" /\ Matches(loaded) /\ credential' = loaded
<1>1. PICK t \in Thread : Swap(t)
  BY DEF Next, Advance, Edit, Begin, NotStale, Stale, Handled, Downgraded, Elevated,
         StaleWhileWriting, LoadFile, Fetch, FetchUnwritten, Answered, NotFetched, Relock, Stable, Attach, Unlock, vars
<1>. QED BY <1>1 DEF Swap, Step

(* "First, verify that the key and certificate match" (getCredential): whatever *)
(* roll-over, in however many steps, and whatever failed loads come between the *)
(* steps of however many lock() calls, the credential's key is its              *)
(* certificate's.                                                               *)
THEOREM KeyMatchesCertificate == Spec => []MatchedCredential
<1>1. Init => MatchedCredential
  <2> SUFFICES ASSUME Init, credential["key"] # None, credential["cert"] # None
               PROVE  credential["key"].gen = credential["cert"].gen
    BY DEF MatchedCredential
  <2>1. PICK c \in First :
          credential = [r \in Resource |-> IF r \in Configured(order) THEN c ELSE None]
    BY DEF Init
  <2>. QED BY <2>1 DEF Resource
<1>2. Inv /\ MatchedCredential /\ [Next]_vars => MatchedCredential'
  <2> SUFFICES ASSUME Inv, MatchedCredential, [Next]_vars PROVE MatchedCredential'
    OBVIOUS
  <2>1. CASE credential' = credential
    BY <2>1 DEF MatchedCredential
  <2>2. CASE credential' # credential
    <3>1. Matches(loaded) /\ credential' = loaded
      BY <2>2, OnlySwap
    <3>. QED BY <3>1 DEF Matches, MatchedCredential
  <2>. QED BY <2>1, <2>2
<1>. QED BY <1>1, <1>2, InvAlways, PTL DEF Spec

(* The credential a thread was given is not replaced before its unlock(): the   *)
(* swap needs the write lock, which nobody gets while the thread reads.         *)
THEOREM CredentialIsStable == Spec => CredentialStable
<1>1. Inv /\ [Next]_vars => [(\E t \in Thread : pc[t] = "in") => credential' = credential]_vars
  <2> SUFFICES ASSUME Inv, [Next]_vars, NEW t \in Thread, pc[t] = "in"
               PROVE  credential' = credential
    OBVIOUS
  <2>1. SUFFICES ASSUME credential' # credential PROVE FALSE
    OBVIOUS
  <2>2. PICK u \in Thread : pc[u] = "write"
    BY <2>1, OnlySwap
  <2>3. u \in Writers /\ t \in Readers
    BY <2>2 DEF Writers, Readers
  <2>. QED BY <2>3 DEF Inv, TypeOK
<1>. QED BY <1>1, InvAlways, PTL DEF Spec, CredentialStable
=============================================================================
