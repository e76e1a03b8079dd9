---------------------- MODULE ReloadableXMLFileProofs ----------------------
(***************************************************************************)
(* Proofs about ReloadableXMLFile, for any set of readers and any number   *)
(* of changes: the write lock and the place of the reload thread must      *)
(* agree, and the time in its stat_buf must be one a file had.             *)
(*                                                                         *)
(* Of RemoteBacking, for any number of versions and of crashes: nothing    *)
(* the process holds is newer than what the server has, what it is about   *)
(* to commit is not older than what it uses, and the backup is what is in  *)
(* use or, once the copy is renamed over it, what is about to be.          *)
(*                                                                         *)
(* And of the stream that a document is fetched through, that it gives its *)
(* bytes once and in order.                                                *)
(***************************************************************************)
EXTENDS ReloadableXMLFile, RemoteBacking, CurlURLInputStream, SequenceTheorems, TLAPS

(***************************************************************************)
(* The threads.                                                            *)
(***************************************************************************)

LoadLocked == writing <=> tpc = "loading"
StampTaken == tpc = "changed" => seen # 0

IInv == TypeOK /\ LoadLocked /\ StampTaken

LEMMA InitIInv == Init => IInv
<1> SUFFICES ASSUME Init PROVE IInv
  OBVIOUS
<1>1. file \in [doc : Good \cup {Bad, Gone}, mtime : 1..MaxEdits + 1]
  BY ReloadAssumption DEF Init, Good
<1>2. edits \in 0..MaxEdits /\ filestamp \in 1..MaxEdits + 1 /\ seen \in 0..MaxEdits + 1
  BY ReloadAssumption DEF Init
<1>3. rpc \in [Reader -> {"out", "want", "locked", "signal", "in"}] /\ Holders = {}
  BY DEF Init, Holders
<1> QED BY <1>1, <1>2, <1>3 DEF Init, IInv, TypeOK, LoadLocked, StampTaken

\* The steps of the owner and of the resource.
LEMMA OwnerStep ==
    ASSUME IInv, Edit \/ Startup \/ FirstLoad \/ Flag \/ SignalShutdown \/ Join \/ Destroyed
    PROVE  IInv'
<1>1. CASE Edit
  <2>1. edits' \in 0..MaxEdits
    BY <1>1, ReloadAssumption DEF Edit, IInv, TypeOK
  <2>2. file' \in [doc : Good \cup {Bad, Gone}, mtime : 1..MaxEdits + 1]
    BY <1>1, ReloadAssumption DEF Edit, IInv, TypeOK, Good
  <2> QED BY <1>1, <2>1, <2>2 DEF Edit, IInv, TypeOK, LoadLocked, StampTaken, Holders
<1>2. CASE Startup
  BY <1>2 DEF Startup, IInv, TypeOK, LoadLocked, StampTaken, Holders
<1>3. CASE FirstLoad
  BY <1>3 DEF FirstLoad, LockFree, IInv, TypeOK, LoadLocked, StampTaken, Holders
<1>4. CASE Flag
  BY <1>4 DEF Flag, IInv, TypeOK, LoadLocked, StampTaken, Holders
<1>5. CASE SignalShutdown
  BY <1>5 DEF SignalShutdown, Signalled, IInv, TypeOK, LoadLocked, StampTaken, Holders
<1>6. CASE Join
  BY <1>6 DEF Join, IInv, TypeOK, LoadLocked, StampTaken, Holders
<1>7. CASE Destroyed
  BY <1>7 DEF Destroyed, vars, IInv, TypeOK, LoadLocked, StampTaken, Holders
<1> QED BY <1>1, <1>2, <1>3, <1>4, <1>5, <1>6, <1>7

\* A reader takes the lock only while nobody writes.
LEMMA ReaderStep ==
    ASSUME IInv, NEW r \in Reader,
           Lock(r) \/ RdLock(r) \/ NothingNew(r) \/ ChangeDetected(r)
             \/ SignalReload(r) \/ Unlock(r)
    PROVE  IInv'
<1>1. CASE Lock(r)
  BY <1>1 DEF Lock, Step, IInv, TypeOK, LoadLocked, StampTaken, Holders
<1>2. CASE RdLock(r)
  BY <1>2 DEF RdLock, Step, IInv, TypeOK, LoadLocked, StampTaken, Holders
<1>3. CASE NothingNew(r)
  BY <1>3 DEF NothingNew, Step, IInv, TypeOK, LoadLocked, StampTaken, Holders
<1>4. CASE ChangeDetected(r)
  BY <1>4 DEF ChangeDetected, Step, IInv, TypeOK, LoadLocked, StampTaken, Holders
<1>5. CASE SignalReload(r)
  BY <1>5 DEF SignalReload, Signalled, Step, IInv, TypeOK, LoadLocked, StampTaken, Holders
<1>6. CASE Unlock(r)
  BY <1>6 DEF Unlock, Step, IInv, TypeOK, LoadLocked, StampTaken, Holders
<1> QED BY <1>1, <1>2, <1>3, <1>4, <1>5, <1>6

LEMMA ThreadStep ==
    ASSUME IInv, CheckShutdown \/ Wait \/ Timeout \/ SpuriousWakeup \/ Woken
                   \/ SetStamp \/ BeginLoad \/ FinishLoad
    PROVE  IInv'
<1>1. CASE CheckShutdown
  BY <1>1 DEF CheckShutdown, Goto, IInv, TypeOK, LoadLocked, StampTaken, Holders
<1>2. CASE Wait \/ Timeout \/ SpuriousWakeup
  BY <1>2 DEF Wait, Timeout, SpuriousWakeup, Goto, IInv, TypeOK, LoadLocked, StampTaken, Holders
<1>3. CASE Woken
  <2>1. seen' \in 0..MaxEdits + 1 /\ (tpc' = "changed" => seen' # 0)
    BY <1>3, ReloadAssumption DEF Woken, Goto, IInv, TypeOK
  <2>2. tpc' \in {"done", "load", "check", "changed"} /\ tpc = "woken"
    BY <1>3 DEF Woken, Goto
  <2> QED BY <1>3, <2>1, <2>2 DEF Woken, IInv, TypeOK, LoadLocked, StampTaken, Holders
<1>4. CASE SetStamp
  <2>1. filestamp' \in 1..MaxEdits + 1
    BY <1>4, ReloadAssumption DEF SetStamp, Goto, IInv, TypeOK, StampTaken
  <2> QED BY <1>4, <2>1 DEF SetStamp, Goto, LockFree, IInv, TypeOK, LoadLocked, StampTaken, Holders
<1>5. CASE BeginLoad
  BY <1>5 DEF BeginLoad, Goto, LockFree, IInv, TypeOK, LoadLocked, StampTaken, Holders
<1>6. CASE FinishLoad
  <2>1. config' \in Good \cup {None}
    BY <1>6 DEF FinishLoad, Loaded, IInv, TypeOK
  <2> QED BY <1>6, <2>1 DEF FinishLoad, Goto, IInv, TypeOK, LoadLocked, StampTaken, Holders
<1> QED BY <1>1, <1>2, <1>3, <1>4, <1>5, <1>6

LEMMA NextIInv == IInv /\ [Next]_vars => IInv'
<1> SUFFICES ASSUME IInv, [Next]_vars PROVE IInv'
  OBVIOUS
<1>1. CASE UNCHANGED vars
  BY <1>1 DEF vars, IInv, TypeOK, LoadLocked, StampTaken, Holders
<1>2. CASE Next
  BY <1>2, OwnerStep, ReaderStep, ThreadStep DEF Next
<1> QED BY <1>1, <1>2

\* The lock, the reload thread and the time it found stay consistent.
THEOREM Inductive == Spec => []IInv
BY InitIInv, NextIInv, PTL DEF Spec

(***************************************************************************)
(* Every variable keeps its type, and nobody reads while the write lock is *)
(* held (lock() and reload_fn()).                                          *)
(***************************************************************************)
THEOREM TypeCorrect == Spec => []TypeOK
<1>1. IInv => TypeOK
  BY DEF IInv
<1> QED BY <1>1, Inductive, PTL

(***************************************************************************)
(* However many readers there are, none of them sees the configuration     *)
(* change between its lock() and its unlock().                             *)
(***************************************************************************)
THEOREM ConfigurationStable == Spec => ConfigStable
<1>1. IInv /\ [Next]_vars => [config' # config => Holders = {} /\ Holders' = {}]_vars
  <2> SUFFICES ASSUME IInv, [Next]_vars, config' # config
               PROVE  Holders = {} /\ Holders' = {}
    OBVIOUS
  <2>1. FirstLoad \/ FinishLoad
    BY DEF Next, vars, Edit, Startup, Flag, SignalShutdown, Join, Destroyed, Lock, RdLock,
           NothingNew, ChangeDetected, SignalReload, Unlock, CheckShutdown, Wait, Timeout,
           SpuriousWakeup, Woken, SetStamp, BeginLoad
  <2>2. CASE FirstLoad
    BY <2>2 DEF FirstLoad, LockFree, Holders
  <2>3. CASE FinishLoad
    BY <2>3 DEF FinishLoad, Goto, IInv, LoadLocked, TypeOK, Holders
  <2> QED BY <2>1, <2>2, <2>3
<1> QED BY <1>1, Inductive, PTL DEF Spec, ConfigStable
-----------------------------------------------------------------------------
(***************************************************************************)
(* The backup.                                                             *)
(***************************************************************************)

Committing == proc \in {"fetched", "removed", "renamed"}

\* Whatever goes wrong.
Ordered ==
    /\ backup <= remote /\ temp <= remote /\ fetched <= remote /\ inUse <= remote
    /\ Committing => inUse <= fetched
    /\ proc \in {"down", "restore"} => inUse = Nothing

\* What the backup and the copy hold.  Until the copy is renamed over it, the
\* backup is what is in use; then it is the copy of what will be in use.
Held ==
    /\ "write" \notin faults => backup # Broken /\ temp # Broken
    /\ Committing => temp \in {fetched, Broken}
    /\ "commit" \notin faults =>
          /\ proc \in {"load", "idle", "fetched"} /\ m_loaded => backup \in {inUse, Broken}
          /\ proc = "renamed" => backup = temp

BackingInv == BackingTypeOK /\ Ordered /\ Held

USE DEF m_loaded
USE DEF Version, Nothing, Broken, PossibleFaults

LEMMA InitBackingInv == BackingInit => BackingInv
BY BackingAssumption DEF BackingInit, BackingInv, BackingTypeOK, Ordered, Held, Committing

LEMMA ProcessStep ==
    ASSUME BackingInv, Publish \/ Boot \/ Crash \/ Reload
    PROVE  BackingInv'
<1>1. CASE Publish
  BY <1>1, BackingAssumption DEF Publish, BackingInv, BackingTypeOK, Ordered, Held, Committing
<1>2. CASE Boot
  BY <1>2, BackingAssumption DEF Boot, BackingInv, BackingTypeOK, Ordered, Held, Committing
<1>3. CASE Crash
  BY <1>3, BackingAssumption DEF Crash, BackingInv, BackingTypeOK, Ordered, Held, Committing
<1>4. CASE Reload
  BY <1>4, BackingAssumption DEF Reload, BackingInv, BackingTypeOK, Ordered, Held, Committing
<1> QED BY <1>1, <1>2, <1>3, <1>4

LEMMA FetchStep ==
    ASSUME BackingInv, FetchWhole \/ FetchUnwritten \/ FetchBroken \/ Unreachable \/ NotModified \/ Restore
    PROVE  BackingInv'
<1>1. CASE FetchWhole \/ FetchUnwritten
  <2>1. /\ remote' = remote /\ backup' = backup /\ tagFile' = tagFile /\ inUse' = inUse
        /\ crashes' = crashes /\ proc = "load" /\ proc' = "fetched"
        /\ fetched' = remote /\ cacheTag' \in {remote, cacheTag}
        /\ \/ temp' = remote /\ faults' = faults
           \/ temp' = Broken /\ faults' = faults \cup {"write"}
    BY <1>1 DEF FetchWhole, FetchUnwritten, NewTag
  <2>2. /\ faults' \subseteq PossibleFaults
        /\ "write" \notin faults' => "write" \notin faults /\ temp' = remote
        /\ "commit" \notin faults' => "commit" \notin faults
    BY <2>1 DEF BackingInv, BackingTypeOK
  <2>3. temp' \in {remote, Broken}
    BY <2>1
  <2>4. BackingTypeOK'
    BY <2>1, <2>2, <2>3, BackingAssumption DEF BackingInv, BackingTypeOK
  <2>5. Ordered'
    BY <2>1, <2>3, BackingAssumption DEF BackingInv, BackingTypeOK, Ordered, Committing
  <2>6. Held'
    <3>1. temp' \in {fetched', Broken} /\ ("write" \notin faults' => temp' # Broken)
      BY <2>1, <2>2, <2>3 DEF BackingInv, BackingTypeOK
    <3>2. "write" \notin faults' => backup' # Broken
      BY <2>1, <2>2 DEF BackingInv, Held
    <3>3. "commit" \notin faults' /\ inUse' # Nothing => backup' \in {inUse', Broken}
      BY <2>1, <2>2 DEF BackingInv, Held
    <3> QED BY <2>1, <3>1, <3>2, <3>3 DEF Held
  <2> QED BY <2>4, <2>5, <2>6 DEF BackingInv
<1>2. CASE FetchBroken \/ Unreachable \/ NotModified
  BY <1>2, BackingAssumption DEF FetchBroken, Unreachable, NotModified, NewTag, Failover,
         BackingInv, BackingTypeOK, Ordered, Held, Committing
<1>3. CASE Restore
  BY <1>3, BackingAssumption DEF Restore, BackingInv, BackingTypeOK, Ordered, Held, Committing
<1> QED BY <1>1, <1>2, <1>3

LEMMA CommitStep ==
    ASSUME BackingInv, Remove \/ Rename \/ Finish \/ FinishUntagged
    PROVE  BackingInv'
<1>1. CASE Remove
  <2>1. faults' \subseteq PossibleFaults
    BY <1>1 DEF Remove, Committed, BackingInv, BackingTypeOK
  <2>2. backup' \in {backup, Nothing}
    BY <1>1 DEF Remove, Committed
  <2>3. "commit" \notin faults' => "commit" \notin faults /\ backup' = Nothing
    BY <1>1 DEF Remove, Committed
  <2>4. "write" \notin faults' => "write" \notin faults
    BY <1>1 DEF Remove, Committed
  <2> QED BY <1>1, <2>1, <2>2, <2>3, <2>4, BackingAssumption DEF Remove, BackingInv, BackingTypeOK, Ordered, Held, Committing
<1>2. CASE Rename
  <2>1. faults' \subseteq PossibleFaults
    BY <1>2 DEF Rename, Committed, BackingInv, BackingTypeOK
  <2>2. backup' \in {backup, temp}
    BY <1>2 DEF Rename, Committed
  <2>3. "commit" \notin faults' => "commit" \notin faults /\ backup' = temp
    BY <1>2 DEF Rename, Committed
  <2>4. "write" \notin faults' => "write" \notin faults
    BY <1>2 DEF Rename, Committed
  <2> QED BY <1>2, <2>1, <2>2, <2>3, <2>4, BackingAssumption DEF Rename, BackingInv, BackingTypeOK, Ordered, Held, Committing
<1>3. CASE Finish \/ FinishUntagged
  <2>1. /\ remote' = remote /\ backup' = backup /\ inUse' = fetched /\ cacheTag' = cacheTag
        /\ crashes' = crashes /\ proc = "renamed" /\ proc' = "idle"
        /\ temp' = Nothing /\ fetched' = Nothing
        /\ tagFile' \in {tagFile, cacheTag, Nothing}
        /\ faults' = faults \/ faults' = faults \cup {"write"}
    BY <1>3 DEF Finish, FinishUntagged
  <2>2. /\ faults' \subseteq PossibleFaults
        /\ "write" \notin faults' => "write" \notin faults
        /\ "commit" \notin faults' => "commit" \notin faults
    BY <2>1 DEF BackingInv, BackingTypeOK
  <2>3. BackingTypeOK'
    BY <2>1, <2>2, BackingAssumption DEF BackingInv, BackingTypeOK
  <2>4. Ordered'
    BY <2>1, BackingAssumption DEF BackingInv, BackingTypeOK, Ordered, Committing
  <2>5. Held'
    BY <2>1, <2>2 DEF BackingInv, BackingTypeOK, Held, Committing
  <2> QED BY <2>3, <2>4, <2>5 DEF BackingInv
<1> QED BY <1>1, <1>2, <1>3

LEMMA NextBackingInv == BackingInv /\ [BackingNext]_backingVars => BackingInv'
<1> SUFFICES ASSUME BackingInv, [BackingNext]_backingVars PROVE BackingInv'
  OBVIOUS
<1>1. CASE UNCHANGED backingVars
  BY <1>1 DEF backingVars, BackingInv, BackingTypeOK, Ordered, Held, Committing
<1>2. CASE BackingNext
  BY <1>2, ProcessStep, FetchStep, CommitStep DEF BackingNext
<1> QED BY <1>1, <1>2

\* Nothing the process holds is newer than the server's version.
THEOREM BackingInductive == BackingSpec => []BackingInv
BY InitBackingInv, NextBackingInv, PTL DEF BackingSpec

(***************************************************************************)
(* Every variable keeps its type, and a copy of the response is there      *)
(* exactly during a commit (load()).                                       *)
(***************************************************************************)
THEOREM BackingTypeCorrect == BackingSpec => []BackingTypeOK
<1>1. BackingInv => BackingTypeOK
  BY DEF BackingInv
<1> QED BY <1>1, BackingInductive, PTL

(***************************************************************************)
(* Between two loads the backup is the document in use, so that a restart  *)
(* without the server finds it, unless a remove() or rename() failed; and  *)
(* unless a write failed it is never a broken file, not even between the   *)
(* steps of a commit (load(), CloneInputStream).                           *)
(***************************************************************************)
THEOREM FallbackIsReady == BackingSpec => []FallbackReady
<1>1. BackingInv => FallbackReady
  BY DEF BackingInv, Held, FallbackReady
<1> QED BY <1>1, BackingInductive, PTL

(***************************************************************************)
(* A process never exchanges its document for an older one, even where the *)
(* backup cannot be replaced (load() and its use of m_loaded).             *)
(***************************************************************************)
THEOREM NoRegression == BackingSpec => NeverBack
<1>1. BackingInv /\ [BackingNext]_backingVars
         => [inUse # Nothing /\ inUse' # Nothing => inUse' >= inUse]_backingVars
  <2> SUFFICES ASSUME BackingInv, BackingNext, inUse # Nothing, inUse' # Nothing
               PROVE  inUse' >= inUse
    BY DEF backingVars, BackingInv, BackingTypeOK
  <2>1. CASE Finish \/ FinishUntagged
    BY <2>1 DEF Finish, FinishUntagged, BackingInv, BackingTypeOK, Ordered, Held, Committing
  <2>2. CASE ~Finish /\ ~FinishUntagged
    <3>1. inUse' = inUse
      BY <2>2 DEF BackingNext, Publish, Boot, Crash, Reload, FetchWhole, FetchUnwritten, FetchBroken,
             Unreachable, NotModified, Restore, Remove, Rename, Committed, BackingInv, BackingTypeOK, Ordered
    <3> QED BY <3>1, BackingAssumption DEF BackingInv, BackingTypeOK
  <2> QED BY <2>1, <2>2
<1> QED BY <1>1, BackingInductive, PTL DEF BackingSpec, NeverBack
-----------------------------------------------------------------------------
(***************************************************************************)
(* The tags, while responses are whole and files can be written, removed   *)
(* and renamed.  On disk a tag never runs ahead of the backup; in memory it    *)
(* never runs ahead of what is in use or about to be committed.            *)
(***************************************************************************)
TagBehind ==
    /\ tagFile <= remote
    /\ tagFile = remote => backup = remote
    /\ proc # "down" => tagFile <= cacheTag /\ cacheTag <= remote
    /\ Committing => tagFile < fetched /\ cacheTag <= fetched
    /\ proc = "renamed" => backup = fetched
    /\ proc \in {"load", "idle", "restore"} /\ cacheTag = remote =>
          IF m_loaded THEN inUse = remote ELSE backup = remote

TagInv == BackingInv /\ (faults = {} => TagBehind)

LEMMA InitTagInv == BackingInit => TagInv
BY InitBackingInv DEF BackingInit, TagInv, TagBehind, Committing

LEMMA NextTagInv ==
    ASSUME TagInv, [BackingNext]_backingVars
    PROVE  TagInv'
<1>1. BackingInv'
  BY NextBackingInv DEF TagInv
<1>2. BackingTypeOK /\ Ordered /\ Held /\ BackingTypeOK' /\ Held'
  BY <1>1 DEF BackingInv, TagInv
<1>3. remote \in Nat /\ tagFile \in Nat /\ cacheTag \in Nat /\ temp \in Int /\ fetched \in Nat /\ backup \in Int /\ inUse \in Nat
  BY <1>2, BackingAssumption DEF BackingTypeOK
<1>4. ASSUME faults' = {} PROVE TagBehind'
  <2>0. faults = {} /\ TagBehind
    BY <1>4 DEF TagInv, BackingNext, backingVars, Publish, Boot, Crash, Reload, FetchWhole,
                FetchUnwritten, FetchBroken, Unreachable, NotModified, Restore, Remove, Rename, Finish,
                FinishUntagged, Committed
  <2>1. CASE UNCHANGED backingVars
    BY <1>2, <2>0, <2>1 DEF backingVars, TagBehind, Committing
  <2>2. CASE Publish
    BY <1>2, <1>3, <1>4, <2>0, <2>2 DEF Publish, TagBehind, BackingTypeOK, Ordered, Held, Committing
  <2>3. CASE Boot
    BY <1>2, <1>3, <1>4, <2>0, <2>3 DEF Boot, TagBehind, BackingTypeOK, Ordered, Held, Committing
  <2>4. CASE Crash
    BY <1>2, <1>3, <1>4, <2>0, <2>4 DEF Crash, TagBehind, BackingTypeOK, Ordered, Held, Committing
  <2>5. CASE Reload
    BY <1>2, <1>3, <1>4, <2>0, <2>5 DEF Reload, TagBehind, BackingTypeOK, Ordered, Held, Committing
  <2>6. CASE FetchWhole
    BY <1>2, <1>3, <1>4, <2>0, <2>6 DEF FetchWhole, NewTag, TagBehind, BackingTypeOK, Ordered, Held, Committing
  <2>7. CASE Unreachable \/ NotModified
    BY <1>2, <1>3, <1>4, <2>0, <2>7
       DEF Unreachable, NotModified, Failover, TagBehind, BackingTypeOK, Ordered, Held, Committing
  <2>8. CASE Restore
    BY <1>2, <1>3, <1>4, <2>0, <2>8 DEF Restore, TagBehind, BackingTypeOK, Ordered, Held, Committing
  <2>9. CASE Remove
    BY <1>2, <1>3, <1>4, <2>0, <2>9 DEF Remove, Committed, TagBehind, BackingTypeOK, Ordered, Held, Committing
  <2>10. CASE Rename
    BY <1>2, <1>3, <1>4, <2>0, <2>10 DEF Rename, Committed, TagBehind, BackingTypeOK, Ordered, Held, Committing
  <2>11. CASE Finish
    BY <1>2, <1>3, <1>4, <2>0, <2>11 DEF Finish, TagBehind, BackingTypeOK, Ordered, Held, Committing
  <2>12. ~FetchBroken /\ ~FetchUnwritten /\ ~FinishUntagged
    BY <1>4 DEF FetchBroken, FetchUnwritten, FinishUntagged
  <2> QED BY <2>1, <2>2, <2>3, <2>4, <2>5, <2>6, <2>7, <2>8, <2>9, <2>10, <2>11, <2>12 DEF BackingNext
<1> QED BY <1>1, <1>4 DEF TagInv

(***************************************************************************)
(* While responses are whole and writes and commits succeed, "not          *)
(* modified" says that the current version is in use, or that the backup   *)
(* has it, through any number of crashes between the steps of a commit     *)
(* (load(), preserveCacheTag()).                                           *)
(***************************************************************************)
THEOREM NotModifiedIsHonest == BackingSpec => []NotModifiedHonest
<1>1. TagInv /\ [BackingNext]_backingVars => TagInv'
  BY NextTagInv
<1>2. TagInv => NotModifiedHonest
  BY DEF TagInv, TagBehind, NotModifiedHonest, NotModifiedMeansCurrent
<1> QED BY InitTagInv, <1>1, <1>2, PTL DEF BackingSpec
-----------------------------------------------------------------------------
(***************************************************************************)
(* CurlURLInputStream, the stream that the document is fetched through, for *)
(* bodies, pieces and reads of any size: every byte of a body is in one    *)
(* place, returned, in the reader's hands or in the buffer, in order.      *)
(***************************************************************************)
(* What is read: the bytes of a body, or of the document for a status. *)
V == Nat \cup {"URLInputSourceStatus"}

Members ==
    [fBuffer : Seq(V), head : Nat, tail : Nat, fBufferSize : Nat, fBytesToRead : Nat,
     toFill : Seq(V), fTotalBytesRead : Nat, fStatusCode : Nat]

Content(s) == s.toFill \o Buffered(s)

(* A stream that libcurl may write to: nothing waits while the reader wants more, *)
(* and nothing has been taken of what waits.                                      *)
Writable(s) ==
    /\ s \in Members /\ s.tail = 0
    /\ s.head <= Len(s.fBuffer) /\ s.head <= s.fBufferSize
    /\ s.fBytesToRead > 0 => s.head = 0

(* Bytes change hands between the reader and the stream, and none is lost count of. *)
Accounted(r, s) ==
    /\ r.fTotalBytesRead - Len(r.toFill) = s.fTotalBytesRead - Len(s.toFill)
    /\ r.fBytesToRead + Len(r.toFill) = s.fBytesToRead + Len(s.toFill)
    /\ r.fStatusCode = s.fStatusCode

(* Sequences of what is read. *)
LEMMA Joined ==
    /\ \A x, y \in Seq(V) : x \o y \in Seq(V) /\ Len(x \o y) = Len(x) + Len(y)
    /\ \A x, y, z \in Seq(V) : (x \o y) \o z = x \o (y \o z)
    /\ <<>> \in Seq(V) /\ Len(<<>>) = 0
    /\ \A x \in Seq(V) : /\ x \o <<>> = x /\ <<>> \o x = x /\ Len(x) \in Nat
                         /\ SubSeq(x, 1, Len(x)) = x
                         /\ Len(x) = 0 => x = <<>>
<1>1. \A x, y \in Seq(V) : x \o y \in Seq(V) /\ Len(x \o y) = Len(x) + Len(y)
  BY ConcatProperties
<1>2. \A x, y, z \in Seq(V) : (x \o y) \o z = x \o (y \o z)
  <2>1. ASSUME NEW x \in Seq(V), NEW y \in Seq(V), NEW z \in Seq(V)
        PROVE  (x \o y) \o z = x \o (y \o z)
    BY ConcatAssociative
  <2>. QED BY <2>1
<1>3. \A x \in Seq(V) : x \o <<>> = x /\ <<>> \o x = x
  BY ConcatEmptySeq, Zenon
<1>4. \A x \in Seq(V) : SubSeq(x, 1, Len(x)) = x
  BY SubSeqFull, Zenon
<1>5. /\ <<>> \in Seq(V) /\ Len(<<>>) = 0
      /\ \A x \in Seq(V) : Len(x) \in Nat /\ (Len(x) = 0 => x = <<>>)
  BY EmptySeq
<1>. QED BY <1>1, <1>2, <1>3, <1>4, <1>5, Zenon

(* The bytes of a body, in order. *)
LEMMA BytesJoin ==
    ASSUME NEW m \in Nat, NEW n \in Nat, m <= n
    PROVE  /\ Bytes(m + 1, n) \in Seq(V) /\ Len(Bytes(m + 1, n)) = n - m
           /\ Bytes(1, m) \in Seq(V) /\ Len(Bytes(1, m)) = m
           /\ Bytes(1, m) \o Bytes(m + 1, n) = Bytes(1, n)
<1>1. ASSUME NEW f \in Nat \ {0}, NEW l \in Nat, f <= l + 1
      PROVE  /\ Bytes(f, l) \in Seq(V) /\ Len(Bytes(f, l)) = l - f + 1
             /\ \A k \in 1..l - f + 1 : Bytes(f, l)[k] = f + k - 1
  <2> DEFINE len == l - f + 1
  <2>1. len \in Nat /\ \A k \in 1..len : f + k - 1 \in V
    BY <1>1 DEF V
  <2>2. Bytes(f, l) \in [1..len -> V]
    BY <2>1 DEF Bytes
  <2>3. Bytes(f, l) \in Seq(V) /\ Len(Bytes(f, l)) = len
    BY <2>1, <2>2
  <2>. QED BY <2>3 DEF Bytes
<1> DEFINE a == Bytes(1, m)
           b == Bytes(m + 1, n)
           c == Bytes(1, n)
<1>2. a \in Seq(V) /\ Len(a) = m /\ \A k \in 1..m : a[k] = k
  BY <1>1
<1>3. b \in Seq(V) /\ Len(b) = n - m /\ \A k \in 1..n - m : b[k] = m + k
  <2>1. m + 1 \in Nat \ {0} /\ m + 1 <= n + 1 /\ n - (m + 1) + 1 = n - m
    OBVIOUS
  <2>2. /\ b \in Seq(V) /\ Len(b) = n - (m + 1) + 1
        /\ \A k \in 1..n - (m + 1) + 1 : b[k] = m + 1 + k - 1
    BY <1>1, <2>1
  <2> HIDE DEF b
  <2>. QED BY <2>1, <2>2
<1>4. c \in Seq(V) /\ Len(c) = n /\ \A k \in 1..n : c[k] = k
  BY <1>1
<1> HIDE DEF a, b, c
<1>5. /\ a \o b \in Seq(V) /\ Len(a \o b) = n
      /\ \A k \in 1..n : (a \o b)[k] = IF k <= m THEN a[k] ELSE b[k - m]
  <2>1. /\ a \o b \in Seq(V) /\ Len(a \o b) = Len(a) + Len(b)
        /\ \A k \in 1..Len(a) + Len(b) : (a \o b)[k] = IF k <= Len(a) THEN a[k] ELSE b[k - Len(a)]
    <3>1. a \in Seq(V) /\ b \in Seq(V)
      BY <1>2, <1>3
    <3>. QED BY <3>1, ConcatProperties
  <2>2. Len(a) = m /\ Len(a) + Len(b) = n
    BY <1>2, <1>3
  <2>. QED BY <2>1, <2>2
<1>6. \A k \in 1..n : (a \o b)[k] = c[k]
  BY <1>2, <1>3, <1>4, <1>5
<1>7. a \o b = c
  BY <1>4, <1>5, <1>6, SeqEqual
<1>. QED BY <1>2, <1>3, <1>7 DEF a, b, c

(* The first part of a sequence and the rest of it. *)
LEMMA Split ==
    ASSUME NEW s \in Seq(V), NEW n \in 0..Len(s)
    PROVE  /\ SubSeq(s, 1, n) \in Seq(V) /\ Len(SubSeq(s, 1, n)) = n
           /\ SubSeq(s, n + 1, Len(s)) \in Seq(V) /\ Len(SubSeq(s, n + 1, Len(s))) = Len(s) - n
           /\ SubSeq(s, 1, n) \o SubSeq(s, n + 1, Len(s)) = s
<1>1. Len(s) \in Nat /\ \A i \in 1..Len(s) : s[i] \in V
  OBVIOUS
<1>2. SubSeq(s, 1, n) \in Seq(V) /\ Len(SubSeq(s, 1, n)) = n
  BY <1>1, SubSeqProperties
<1>3. SubSeq(s, n + 1, Len(s)) \in Seq(V) /\ Len(SubSeq(s, n + 1, Len(s))) = Len(s) - n
  BY <1>1, SubSeqProperties
<1>4. SubSeq(s, 1, n) \o SubSeq(s, n + 1, Len(s)) = SubSeq(s, 1, Len(s))
  <2>1. 1 \in 1..Len(s) + 1 /\ n \in 1 - 1..Len(s) /\ Len(s) \in n..Len(s)
    BY <1>1
  <2>. QED BY <2>1, ConcatAdjacentSubSeq
<1>5. SubSeq(s, 1, Len(s)) = s
  BY Joined
<1>. QED BY <1>2, <1>3, <1>4, <1>5

LEMMA WriteKeeps ==
    ASSUME NEW s, Writable(s), NEW bytes \in Seq(V)
    PROVE  LET r == writeCallback(s, bytes)
           IN  /\ Writable(r) /\ Accounted(r, s)
               /\ Content(r) = Content(s) \o bytes
<1> DEFINE consume == Smaller(Len(bytes), s.fBytesToRead)
           part == SubSeq(bytes, 1, consume)
           rest == SubSeq(bytes, consume + 1, Len(bytes))
           missing == Len(rest) - (s.fBufferSize - s.head)
           kept == SubSeq(s.fBuffer, 1, s.head)
           r == writeCallback(s, bytes)
<1>1. /\ s \in Members /\ s.tail = 0
      /\ s.fBuffer \in Seq(V) /\ s.toFill \in Seq(V)
      /\ s.head \in Nat /\ s.fBufferSize \in Nat /\ s.fBytesToRead \in Nat
      /\ s.fTotalBytesRead \in Nat /\ s.fStatusCode \in Nat
      /\ s.head <= Len(s.fBuffer) /\ s.head <= s.fBufferSize
      /\ s.fBytesToRead > 0 => s.head = 0
  BY DEF Writable, Members
<1>2. consume \in 0..Len(bytes) /\ consume <= s.fBytesToRead
      /\ (consume < Len(bytes) => consume = s.fBytesToRead)
  BY <1>1 DEF Smaller
<1> HIDE DEF consume
<1>3. /\ part \in Seq(V) /\ rest \in Seq(V)
      /\ Len(part) = consume /\ Len(rest) = Len(bytes) - consume /\ Len(bytes) \in Nat
  BY <1>2, Split
<1>4. kept \in Seq(V) /\ Len(kept) = s.head
  BY <1>1, Split
<1>5. r = [s EXCEPT !.toFill = s.toFill \o part, !.fBytesToRead = s.fBytesToRead - Len(part),
                    !.fTotalBytesRead = s.fTotalBytesRead + Len(part),
                    !.fBufferSize = IF missing > 0 THEN s.fBufferSize + missing ELSE s.fBufferSize,
                    !.tail = IF missing > 0 THEN 0 ELSE s.tail,
                    !.fBuffer = kept \o rest, !.head = s.head + Len(rest)]
  BY <1>1 DEF writeCallback, Filled, Members, consume
<1> HIDE DEF part, rest, kept, r
<1>6. kept \o rest \in Seq(V) /\ Len(kept \o rest) = s.head + Len(rest)
  <2>1. kept \o rest \in Seq(V) /\ Len(kept \o rest) = Len(kept) + Len(rest)
    <3>1. kept \in Seq(V) /\ rest \in Seq(V)
      BY <1>3, <1>4
    <3>. QED BY <3>1, Joined
  <2>. QED BY <1>4, <2>1
<1>7. s.toFill \o part \in Seq(V) /\ Len(s.toFill \o part) = Len(s.toFill) + consume
  <2>1. s.toFill \o part \in Seq(V) /\ Len(s.toFill \o part) = Len(s.toFill) + Len(part)
    <3>1. s.toFill \in Seq(V) /\ part \in Seq(V)
      BY <1>1, <1>3
    <3>. QED BY <3>1, Joined
  <2>. QED BY <1>3, <2>1
<1>8. /\ r.toFill = s.toFill \o part /\ r.fBytesToRead = s.fBytesToRead - consume
      /\ r.fTotalBytesRead = s.fTotalBytesRead + consume
      /\ r.tail = 0 /\ r.fBuffer = kept \o rest /\ r.head = s.head + Len(rest)
      /\ r.fStatusCode = s.fStatusCode
      /\ r.fBufferSize \in Nat /\ r.head <= r.fBufferSize
  <2>1. missing \in Int /\ Len(rest) \in Nat
    BY <1>1, <1>3
  <2>2. r.fBufferSize = IF missing > 0 THEN s.fBufferSize + missing ELSE s.fBufferSize
    BY <1>1, <1>5 DEF Members
  <2>3. r.fBufferSize \in Nat /\ s.head + Len(rest) <= r.fBufferSize
    BY <1>1, <2>1, <2>2
  <2> HIDE DEF missing
  <2>. QED BY <1>1, <1>3, <1>5, <2>3 DEF Members
<1>9. r \in Members
  <2>1. s.fBytesToRead - consume \in Nat /\ s.fTotalBytesRead + consume \in Nat
        /\ s.head + Len(rest) \in Nat
    <3>1. consume \in Nat /\ Len(rest) \in Nat
      BY <1>2, <1>3
    <3>2. s.fBytesToRead \in Nat /\ s.fTotalBytesRead \in Nat /\ s.head \in Nat
      BY <1>1
    <3>3. consume <= s.fBytesToRead
      BY <1>2
    <3>4. s.fBytesToRead - consume \in Nat
      BY <3>1, <3>2, <3>3
    <3>5. s.fTotalBytesRead + consume \in Nat
      BY <3>1, <3>2
    <3>6. s.head + Len(rest) \in Nat
      BY <3>1, <3>2
    <3>. QED BY <3>4, <3>5, <3>6
  <2> DEFINE q == [fBuffer |-> r.fBuffer, head |-> r.head, tail |-> r.tail, fBufferSize |-> r.fBufferSize,
                   fBytesToRead |-> r.fBytesToRead, toFill |-> r.toFill,
                   fTotalBytesRead |-> r.fTotalBytesRead, fStatusCode |-> r.fStatusCode]
  <2>2. q \in Members
    BY <1>1, <1>6, <1>7, <1>8, <2>1 DEF Members
  <2>3. r = q
    BY <1>1, <1>5 DEF Members
  <2>. QED BY <2>2, <2>3
<1>10. Writable(r)
  <2>1. s.fBytesToRead - consume > 0 => s.head + Len(rest) = 0
    BY <1>1, <1>2, <1>3
  <2>. QED BY <1>6, <1>8, <1>9, <2>1 DEF Writable
<1>11. Accounted(r, s)
  <2>1. consume \in Int /\ Len(s.toFill) \in Int /\ s.fBytesToRead \in Int /\ s.fTotalBytesRead \in Int
    BY <1>1, <1>2, Joined
  <2>2. Len(r.toFill) = Len(s.toFill) + consume
    BY <1>7, <1>8
  <2>3. /\ r.fTotalBytesRead = s.fTotalBytesRead + consume /\ r.fBytesToRead = s.fBytesToRead - consume
        /\ r.fStatusCode = s.fStatusCode
    BY <1>8
  <2>4. r.fTotalBytesRead - Len(r.toFill) = s.fTotalBytesRead - Len(s.toFill)
    BY <2>1, <2>2, <2>3
  <2>5. r.fBytesToRead + Len(r.toFill) = s.fBytesToRead + Len(s.toFill)
    BY <2>1, <2>2, <2>3
  <2>. QED BY <2>3, <2>4, <2>5 DEF Accounted
<1>12. Content(r) = Content(s) \o bytes
  <2>1. Buffered(s) = kept
    BY <1>1 DEF Buffered, kept
  <2>2. Buffered(r) = kept \o rest
    <3>1. r.head = Len(kept \o rest) /\ r.tail + 1 = 1
      BY <1>6, <1>8
    <3>2. SubSeq(kept \o rest, 1, Len(kept \o rest)) = kept \o rest
      BY <1>6, Joined
    <3>. QED BY <1>8, <3>1, <3>2 DEF Buffered
  <2>3. CASE s.fBytesToRead = 0
    <3>1. consume = 0
      BY <1>2, <2>3
    <3>2. part = <<>>
      BY <1>3, <3>1, Joined
    <3>3. rest = bytes
      BY <3>1, Joined DEF rest
    <3>4. s.toFill \o part = s.toFill
      BY <1>1, <3>2, Joined
    <3>5. Content(r) = s.toFill \o (kept \o bytes)
      BY <1>8, <2>2, <3>3, <3>4 DEF Content
    <3>6. s.toFill \o (kept \o bytes) = (s.toFill \o kept) \o bytes
      <4>1. s.toFill \in Seq(V) /\ kept \in Seq(V) /\ bytes \in Seq(V)
        BY <1>1, <1>4
      <4>. QED BY <4>1, Joined, Zenon
    <3>. QED BY <2>1, <3>5, <3>6 DEF Content
  <2>4. CASE s.head = 0
    <3>1. kept = <<>>
      BY <1>4, <2>4, Joined
    <3>2. kept \o rest = rest
      BY <1>3, <3>1, Joined
    <3>3. Content(r) = (s.toFill \o part) \o rest
      BY <1>8, <2>2, <3>2 DEF Content
    <3>4. (s.toFill \o part) \o rest = s.toFill \o (part \o rest)
      <4>1. s.toFill \in Seq(V) /\ part \in Seq(V) /\ rest \in Seq(V)
        BY <1>1, <1>3
      <4>. QED BY <4>1, Joined, Zenon
    <3>5. part \o rest = bytes
      BY <1>2, Split DEF part, rest
    <3>6. Content(s) = s.toFill
      BY <1>1, <2>1, <3>1, Joined DEF Content
    <3>. QED BY <3>3, <3>4, <3>5, <3>6
  <2>. QED BY <1>1, <2>3, <2>4
<1>. QED BY <1>10, <1>11, <1>12 DEF r

(* What waits in the buffer. *)
LEMMA BufferedType ==
    ASSUME NEW s \in Members, s.tail <= s.head, s.head <= Len(s.fBuffer)
    PROVE  Buffered(s) \in Seq(V) /\ Content(s) \in Seq(V)
<1>1. /\ s.fBuffer \in Seq(V) /\ s.tail \in Nat /\ s.head \in Nat
      /\ s.toFill \in Seq(V)
  BY DEF Members
<1>2. \A i \in s.tail + 1..s.head : s.fBuffer[i] \in V
  BY <1>1
<1>3. Buffered(s) \in Seq(V)
  BY <1>1, <1>2, SubSeqProperties DEF Buffered
<1>. QED BY <1>1, <1>3, Joined DEF Content

(* What has arrived, n bytes of a body or the document for a status. *)
Arrived(s, n) == IF s.fStatusCode >= 300 THEN StatusDocument(answer.code) ELSE Bytes(1, n)

(* The stream holds what has arrived and was not returned yet. *)
Holds(s, returned, n) ==
    /\ s \in Members
    /\ s.tail <= s.head /\ s.head <= Len(s.fBuffer)
    /\ s.tail = s.head => s.head = 0
    /\ s.fStatusCode >= 300 \/ s.head <= s.fBufferSize
    /\ returned \o Content(s) = Arrived(s, n)
    /\ s.fTotalBytesRead = Len(returned) + Len(s.toFill)

LEMMA WriteHolds ==
    ASSUME NEW s, NEW returned \in Seq(V), NEW m \in Nat, NEW n \in Nat, m <= n,
           Writable(s), s.fStatusCode < 300, Holds(s, returned, m)
    PROVE  LET r == writeCallback(s, Bytes(m + 1, n))
           IN  Writable(r) /\ Accounted(r, s) /\ Holds(r, returned, n)
<1> DEFINE bytes == Bytes(m + 1, n)
           r == writeCallback(s, bytes)
<1>1. bytes \in Seq(V) /\ Bytes(1, m) \o bytes = Bytes(1, n)
  BY BytesJoin
<1> HIDE DEF bytes
<1>2. Writable(r) /\ Accounted(r, s) /\ Content(r) = Content(s) \o bytes
  BY <1>1, WriteKeeps
<1> HIDE DEF r
<1>3. Content(s) \in Seq(V)
  BY BufferedType DEF Holds
<1>4. s \in Members /\ r \in Members
  BY <1>2 DEF Writable
<1>5. returned \o Content(s) = Bytes(1, m)
  <2>1. s.fStatusCode \in Nat
    BY <1>4 DEF Members
  <2>2. ~(s.fStatusCode >= 300)
    BY <2>1
  <2>3. Arrived(s, m) = Bytes(1, m)
    BY <2>2, Zenon DEF Arrived
  <2>4. returned \o Content(s) = Arrived(s, m)
    BY Zenon DEF Holds
  <2>. QED BY <2>3, <2>4, Zenon
<1>6. returned \o Content(r) = Bytes(1, n)
  <2>1. returned \o (Content(s) \o bytes) = (returned \o Content(s)) \o bytes
    BY <1>1, <1>3, Joined, Zenon
  <2>. QED BY <1>1, <1>2, <1>5, <2>1
<1>7. r.fStatusCode = s.fStatusCode /\ r.fStatusCode \in Nat
  BY <1>2, <1>4 DEF Accounted, Members
<1>8. Arrived(r, n) = Bytes(1, n)
  BY <1>7 DEF Arrived
<1>9. r.fTotalBytesRead = Len(returned) + Len(r.toFill)
  <2>1. /\ r.fTotalBytesRead \in Nat /\ s.fTotalBytesRead \in Nat
        /\ r.toFill \in Seq(V) /\ s.toFill \in Seq(V)
    BY <1>4 DEF Members
  <2>2. Len(r.toFill) \in Nat /\ Len(s.toFill) \in Nat /\ Len(returned) \in Nat
    BY <2>1, Joined
  <2>3. /\ r.fTotalBytesRead - Len(r.toFill) = s.fTotalBytesRead - Len(s.toFill)
        /\ s.fTotalBytesRead = Len(returned) + Len(s.toFill)
    BY <1>2 DEF Accounted, Holds
  <2> DEFINE a == r.fTotalBytesRead
             b == Len(r.toFill)
             c == s.fTotalBytesRead
             d == Len(s.toFill)
             e == Len(returned)
  <2>4. a \in Nat /\ b \in Nat /\ c \in Nat /\ d \in Nat /\ e \in Nat /\ a - b = c - d /\ c = e + d
    BY <2>1, <2>2, <2>3
  <2> HIDE DEF a, b, c, d, e
  <2>5. a = e + b
    BY <2>4
  <2>. QED BY <2>5, Zenon DEF a, b, e
<1>10. /\ r.tail <= r.head /\ r.head <= Len(r.fBuffer)
       /\ r.tail = r.head => r.head = 0
       /\ r.head <= r.fBufferSize
  BY <1>2, <1>4 DEF Writable, Members
<1>11. Holds(r, returned, n)
  BY <1>4, <1>6, <1>8, <1>9, <1>10 DEF Holds
<1>. QED BY <1>2, <1>11 DEF r, bytes

(* What libcurl passes on. *)
LEMMA PassedHolds ==
    ASSUME NEW pieces \in Chunks, sent \in Nat, received \in Seq(V),
           Writable(in), in.fStatusCode < 300, Holds(in, received, sent)
    PROVE  /\ Writable(Passed(pieces)) /\ Accounted(Passed(pieces), in)
           /\ Holds(Passed(pieces), received, sent + Total(pieces))
           /\ sent + Total(pieces) \in Nat
<1> DEFINE m == sent + pieces[1]
           n == sent + Total(pieces)
           r == writeCallback(in, Bytes(sent + 1, m))
           q == writeCallback(r, Bytes(m + 1, n))
<1>1. m \in Nat /\ n \in Nat /\ sent <= m /\ m <= n
  BY StreamAssumption DEF Chunks, Total
<1>2. Passed(pieces) = q
  BY DEF Passed
<1> HIDE DEF m, n
<1>3. Writable(r) /\ Accounted(r, in) /\ Holds(r, received, m)
  BY <1>1, WriteHolds
<1> HIDE DEF r
<1>4. r.fStatusCode < 300
  BY <1>3 DEF Accounted
<1>5. Writable(q) /\ Accounted(q, r) /\ Holds(q, received, n)
  BY <1>1, <1>3, <1>4, WriteHolds
<1> HIDE DEF q
<1>6. Accounted(q, in)
  BY <1>3, <1>5 DEF Accounted
<1>. QED BY <1>1, <1>2, <1>5, <1>6 DEF n

(* What the reader takes out of the buffer. *)
LEMMA TakenHolds ==
    ASSUME NEW s, NEW returned \in Seq(V), NEW n, Holds(s, returned, n), s.head > s.tail
    PROVE  Accounted(takeBuffered(s), s) /\ Holds(takeBuffered(s), returned, n)
<1> DEFINE count == Smaller(s.head - s.tail, s.fBytesToRead)
           taken == SubSeq(s.fBuffer, s.tail + 1, s.tail + count)
           left == SubSeq(s.fBuffer, s.tail + count + 1, s.head)
           r == takeBuffered(s)
<1>1. /\ s \in Members
      /\ s.fBuffer \in Seq(V) /\ s.toFill \in Seq(V)
      /\ s.head \in Nat /\ s.tail \in Nat /\ s.fBufferSize \in Nat /\ s.fBytesToRead \in Nat
      /\ s.fTotalBytesRead \in Nat /\ s.fStatusCode \in Nat
      /\ s.head <= Len(s.fBuffer) /\ Len(s.fBuffer) \in Nat
  BY DEF Holds, Members
<1>2. count \in Nat /\ count <= s.head - s.tail /\ count <= s.fBytesToRead
  BY <1>1 DEF Smaller
<1> HIDE DEF count
<1>3. taken \in Seq(V) /\ Len(taken) = count
  <2>1. \A i \in s.tail + 1..s.tail + count : s.fBuffer[i] \in V
    BY <1>1, <1>2
  <2>2. s.tail + 1 \in Int /\ s.tail + count \in Int
    BY <1>1, <1>2
  <2> DEFINE f == s.tail + 1
             l == s.tail + count
  <2> HIDE DEF f, l
  <2>3. SubSeq(s.fBuffer, f, l) \in Seq(V)
        /\ Len(SubSeq(s.fBuffer, f, l)) = IF f <= l THEN l - f + 1 ELSE 0
    <3>1. f \in Int /\ l \in Int /\ s.fBuffer \in Seq(V) /\ \A i \in f..l : s.fBuffer[i] \in V
      BY <1>1, <2>1, <2>2 DEF f, l
    <3>. QED BY <3>1, SubSeqProperties
  <2>4. taken \in Seq(V) /\ Len(taken) = IF f <= l THEN l - f + 1 ELSE 0
    BY <2>3, Zenon DEF f, l
  <2> HIDE DEF taken
  <2>5. (IF f <= l THEN l - f + 1 ELSE 0) = count
    <3> DEFINE t == s.tail
    <3>1. t \in Nat /\ count \in Nat
      BY <1>1, <1>2
    <3>2. f = t + 1 /\ l = t + count
      BY Zenon DEF f, l
    <3> HIDE DEF t
    <3>. QED BY <3>1, <3>2
  <2>. QED BY <2>4, <2>5
<1>4. left \in Seq(V)
  <2>1. \A i \in s.tail + count + 1..s.head : s.fBuffer[i] \in V
    BY <1>1, <1>2
  <2>2. s.tail + count + 1 \in Int /\ s.head \in Int
    BY <1>1, <1>2
  <2>. QED BY <2>1, <2>2, SubSeqProperties
<1>5. taken \o left = Buffered(s)
  <2>1. /\ s.tail + 1 \in 1..Len(s.fBuffer) + 1
        /\ s.tail + count \in (s.tail + 1) - 1..Len(s.fBuffer)
        /\ s.head \in s.tail + count..Len(s.fBuffer)
    <3> DEFINE h == s.head
               t == s.tail
               n0 == Len(s.fBuffer)
    <3>1. h \in Nat /\ t \in Nat /\ n0 \in Nat /\ h > t /\ h <= n0
          /\ count \in Nat /\ count <= h - t
      BY <1>1, <1>2
    <3> HIDE DEF h, t, n0
    <3>2. t + 1 \in 1..n0 + 1
      BY <3>1
    <3>3. t + count \in (t + 1) - 1..n0
      BY <3>1
    <3>4. h \in t + count..n0
      BY <3>1
    <3>. QED BY <3>2, <3>3, <3>4, Zenon DEF h, t, n0
  <2>. QED BY <1>1, <2>1, ConcatAdjacentSubSeq DEF Buffered
<1> DEFINE empty == s.tail + count = s.head
<1>6. r = [s EXCEPT !.toFill = s.toFill \o taken, !.fBytesToRead = s.fBytesToRead - Len(taken),
                    !.fTotalBytesRead = s.fTotalBytesRead + Len(taken),
                    !.tail = IF empty THEN 0 ELSE s.tail + count,
                    !.head = IF empty THEN 0 ELSE s.head]
  <2> DEFINE t == [Filled(s, taken) EXCEPT !.tail = @ + count]
  <2>1. t = [s EXCEPT !.toFill = s.toFill \o taken, !.fBytesToRead = s.fBytesToRead - Len(taken),
                      !.fTotalBytesRead = s.fTotalBytesRead + Len(taken), !.tail = s.tail + count]
    BY <1>1 DEF Filled, Members
  <2>2. r = IF t.tail = t.head THEN [t EXCEPT !.tail = 0, !.head = 0] ELSE t
    BY DEF takeBuffered, count
  <2> HIDE DEF t, r, taken
  <2>3. t.tail = s.tail + count /\ t.head = s.head
    BY <1>1, <2>1 DEF Members
  <2>. QED BY <1>1, <2>1, <2>2, <2>3 DEF Members
<1> HIDE DEF taken, left, r
<1>7. /\ r.toFill = s.toFill \o taken /\ r.fBytesToRead = s.fBytesToRead - count
      /\ r.fTotalBytesRead = s.fTotalBytesRead + count
      /\ r.tail = (IF empty THEN 0 ELSE s.tail + count) /\ r.head = (IF empty THEN 0 ELSE s.head)
      /\ r.fStatusCode = s.fStatusCode /\ r.fBuffer = s.fBuffer /\ r.fBufferSize = s.fBufferSize
  BY <1>1, <1>3, <1>6 DEF Members
<1>8. /\ s.toFill \o taken \in Seq(V) /\ Len(s.toFill \o taken) = Len(s.toFill) + count
      /\ Len(s.toFill) \in Nat
  <2>1. s.toFill \in Seq(V) /\ taken \in Seq(V)
    BY <1>1, <1>3
  <2>2. s.toFill \o taken \in Seq(V) /\ Len(s.toFill \o taken) = Len(s.toFill) + Len(taken)
    BY <2>1, Joined
  <2>. QED BY <1>3, <2>1, <2>2, Joined
<1>9. r \in Members
  <2>1. s.fBytesToRead - count \in Nat
    <3> DEFINE wanted == s.fBytesToRead
    <3>1. wanted \in Nat /\ count \in Nat /\ count <= wanted
      BY <1>1, <1>2
    <3> HIDE DEF wanted
    <3>2. wanted - count \in Nat
      BY <3>1
    <3>. QED BY <3>2, Zenon DEF wanted
  <2>2. s.fTotalBytesRead + count \in Nat /\ s.tail + count \in Nat
    <3>1. s.fTotalBytesRead \in Nat /\ s.tail \in Nat /\ count \in Nat
      BY <1>1, <1>2
    <3>. QED BY <3>1
  <2>3. r.tail \in Nat /\ r.head \in Nat
    BY <1>1, <1>7, <2>2
  <2> DEFINE q == [fBuffer |-> r.fBuffer, head |-> r.head, tail |-> r.tail, fBufferSize |-> r.fBufferSize,
                   fBytesToRead |-> r.fBytesToRead, toFill |-> r.toFill,
                   fTotalBytesRead |-> r.fTotalBytesRead, fStatusCode |-> r.fStatusCode]
  <2>4. q \in Members
    BY <1>1, <1>7, <1>8, <2>1, <2>2, <2>3 DEF Members
  <2>5. r = q
    BY <1>1, <1>6 DEF Members
  <2>. QED BY <2>4, <2>5
<1>10. Accounted(r, s)
  <2>1. r.fTotalBytesRead - Len(r.toFill) = s.fTotalBytesRead - Len(s.toFill)
    BY <1>1, <1>2, <1>7, <1>8
  <2>2. r.fBytesToRead + Len(r.toFill) = s.fBytesToRead + Len(s.toFill)
    BY <1>1, <1>2, <1>7, <1>8
  <2>. QED BY <1>7, <2>1, <2>2 DEF Accounted
<1>11. Buffered(r) = left
  <2>1. CASE empty
    <3>1. Buffered(r) = SubSeq(s.fBuffer, 1, 0)
      BY <1>7, <2>1 DEF Buffered
    <3>2. SubSeq(s.fBuffer, 1, 0) = <<>> /\ SubSeq(s.fBuffer, s.head + 1, s.head) = <<>>
      BY <1>1, SubSeqEmpty
    <3>. QED BY <2>1, <3>1, <3>2 DEF left
  <2>2. CASE ~empty
    BY <1>7, <2>2 DEF Buffered, left
  <2>. QED BY <2>1, <2>2
<1>12. Content(r) = Content(s)
  <2>1. s.toFill \in Seq(V) /\ taken \in Seq(V) /\ left \in Seq(V)
    BY <1>1, <1>3, <1>4
  <2>2. (s.toFill \o taken) \o left = s.toFill \o (taken \o left)
    BY <2>1, Joined, Zenon
  <2>. QED BY <1>5, <1>7, <1>11, <2>2 DEF Content
<1>13. Arrived(r, n) = Arrived(s, n)
  BY <1>7 DEF Arrived
<1>14. r.fTotalBytesRead = Len(returned) + Len(r.toFill)
  <2>1. s.fTotalBytesRead = Len(returned) + Len(s.toFill) /\ Len(returned) \in Nat
    BY Joined DEF Holds
  <2>. QED BY <1>1, <1>2, <1>7, <1>8, <2>1
<1>15. /\ r.tail <= r.head /\ r.head <= Len(r.fBuffer)
       /\ r.tail = r.head => r.head = 0
       /\ r.fStatusCode >= 300 \/ r.head <= r.fBufferSize
  <2>1. s.fStatusCode >= 300 \/ s.head <= s.fBufferSize
    BY DEF Holds
  <2>. QED BY <1>1, <1>2, <1>7, <2>1
<1>16. Holds(r, returned, n)
  BY <1>9, <1>12, <1>13, <1>14, <1>15 DEF Holds
<1>. QED BY <1>10, <1>16 DEF r

(* What is returned leaves the hands of the stream. *)
LEMMA ReturnedHolds ==
    ASSUME NEW s, NEW returned \in Seq(V), NEW n, Holds(s, returned, n)
    PROVE  /\ Holds([s EXCEPT !.toFill = <<>>], returned \o s.toFill, n)
           /\ returned \o s.toFill \in Seq(V)
<1> DEFINE r == [s EXCEPT !.toFill = <<>>]
<1>1. s \in Members /\ s.toFill \in Seq(V) /\ Buffered(s) \in Seq(V)
  BY BufferedType DEF Holds, Members
<1>2. /\ r \in Members /\ r.toFill = <<>> /\ r.tail = s.tail /\ r.head = s.head
      /\ r.fBuffer = s.fBuffer /\ r.fBufferSize = s.fBufferSize
      /\ r.fTotalBytesRead = s.fTotalBytesRead /\ r.fStatusCode = s.fStatusCode
  BY <1>1, Joined DEF Members
<1> HIDE DEF r
<1>3. Content(r) = Buffered(s)
  <2>1. Buffered(r) = Buffered(s)
    BY <1>2 DEF Buffered
  <2>. QED BY <1>1, <1>2, <2>1, Joined DEF Content
<1>4. (returned \o s.toFill) \o Buffered(s) = returned \o Content(s)
  BY <1>1, Joined, Zenon DEF Content
<1>5. Arrived(r, n) = Arrived(s, n)
  BY <1>2 DEF Arrived
<1>6. /\ returned \o s.toFill \in Seq(V) /\ Len(returned \o s.toFill) = Len(returned) + Len(s.toFill)
      /\ Len(returned \o s.toFill) \in Nat
  BY <1>1, Joined
<1>7. r.fTotalBytesRead = Len(returned \o s.toFill) + Len(r.toFill)
  <2>1. Len(r.toFill) = 0
    BY <1>2, Joined
  <2>2. r.fTotalBytesRead = Len(returned \o s.toFill)
    BY <1>2, <1>6 DEF Holds
  <2>. QED BY <1>6, <2>1, <2>2
<1>8. (returned \o s.toFill) \o Content(r) = Arrived(r, n)
  BY <1>3, <1>4, <1>5 DEF Holds
<1>9. Holds(r, returned \o s.toFill, n)
  BY <1>2, <1>7, <1>8 DEF Holds
<1>. QED BY <1>6, <1>9 DEF r

(* The inductive invariant.  Beside what the stream holds it says what the reader *)
(* may rely on when it starts to read, and what the end of a transfer means.      *)
StreamInv ==
    /\ answer \in Answers /\ sent \in 0..answer.length /\ transfer \in {"running", "over"}
    /\ received \in Seq(V) /\ Holds(in, received, sent) /\ copy = received
    /\ transfer = "over" => sent = answer.length /\ (reader = "thrown" \/ ~answer.fails)
    /\ reader = "init" => /\ transfer = "running" /\ received = <<>>
                          /\ in.fStatusCode < 300 /\ in.tail = 0
                          /\ in.fBytesToRead = 0 /\ in.toFill = <<>>
    /\ reader = "idle" => in.toFill = <<>>
    /\ reader = "reading" => in.fBytesToRead + Len(in.toFill) > 0
    /\ reader = "end" => /\ received = Arrived(in, sent)
                         /\ in.fStatusCode >= 300 \/ transfer = "over"

LEMMA HoldsPrimed ==
    ASSUME answer' = answer, Holds(in', received', sent')
    PROVE  Holds(in, received, sent)'
<1>1. Arrived(in, sent)' = Arrived(in', sent')
  BY DEF Arrived
<1>. QED BY <1>1, Zenon DEF Holds, Content, Buffered, Members

LEMMA AnswerType ==
    ASSUME answer \in Answers
    PROVE  answer.length \in Nat /\ answer.code \in Nat
<1>1. answer \in [code : StatusCodes, length : 0..BodySize, fails : BOOLEAN]
  BY Zenon DEF Answers
<1>2. answer.code \in StatusCodes /\ answer.length \in 0..BodySize
  BY <1>1
<1>3. answer.code \in Nat
  BY <1>2, StreamAssumption
<1>4. answer.length \in Nat
  BY <1>2, StreamAssumption
<1>. QED BY <1>3, <1>4

(* The end of a transfer in the order in which readMore() finds it. *)
LEMMA ReadMoreStep ==
    ASSUME StreamInv, NEW pieces \in Chunks, NEW ends \in BOOLEAN, readMore(pieces, ends),
           sent + Total(pieces) \in Nat
    PROVE  /\ sent' = sent + Total(pieces) /\ sent' \in 0..answer.length
           /\ transfer' \in {"running", "over"}
           /\ transfer' = "over" => ends /\ sent' = answer.length
           /\ transfer' = "over" /\ ~Fails(ends) => reader = "thrown" \/ ~answer.fails
           /\ ends => transfer' = "over"
<1>1. answer.length \in Nat
  BY AnswerType DEF StreamInv
<1>2. /\ sent' = sent + Total(pieces) /\ sent + Total(pieces) <= answer.length
      /\ transfer' = IF ends THEN "over" ELSE "running"
      /\ ends => sent + Total(pieces) = answer.length
  BY Zenon DEF readMore
<1>3. sent' \in 0..answer.length
  <2> DEFINE n == sent + Total(pieces)
  <2>1. n \in Nat /\ n <= answer.length /\ sent' = n
    BY <1>2
  <2> HIDE DEF n
  <2>. QED BY <1>1, <2>1
<1>4. (ends => transfer' = "over") /\ (~ends => transfer' = "running")
  BY <1>2, Zenon
<1>5. transfer' = "over" => ends
  BY <1>4
<1>6. transfer' = "over" => sent' = answer.length
  BY <1>2, <1>5, Zenon
<1>7. transfer = "over" => reader = "thrown" \/ ~answer.fails
  BY Zenon DEF StreamInv
<1>8. transfer = "running" \/ transfer = "over"
  BY DEF StreamInv
<1>9. transfer' = "over" /\ ~Fails(ends) => reader = "thrown" \/ ~answer.fails
  BY <1>5, <1>7, <1>8, Zenon DEF Fails
<1>10. transfer' \in {"running", "over"}
  BY <1>4
<1>. QED BY <1>2, <1>3, <1>4, <1>5, <1>6, <1>9, <1>10, Zenon

LEMMA InitStreamInv == StreamInit => StreamInv
<1> SUFFICES ASSUME StreamInit PROVE StreamInv
  OBVIOUS
<1>1. answer \in Answers /\ answer.length \in Nat
  BY AnswerType DEF StreamInit
<1>2. /\ in = Stream /\ sent = 0 /\ received = <<>> /\ copy = <<>>
      /\ transfer = "running" /\ reader = "init"
  BY DEF StreamInit
<1>3. <<>> \in Seq(V) /\ Len(<<>>) = 0 /\ <<>> \o <<>> = <<>>
  BY Joined
<1>4. Stream \in Members
  BY <1>3 DEF Stream, Members
<1>5. Bytes(1, 0) = <<>>
  <2>1. Bytes(1, 0) \in Seq(V) /\ Len(Bytes(1, 0)) = 0
    BY BytesJoin
  <2>. QED BY <2>1, Joined
<1>6. Arrived(Stream, 0) = <<>>
  BY <1>5 DEF Arrived, Stream
<1>7. Buffered(Stream) = <<>>
  <2>1. Buffered(Stream) = SubSeq(<<>>, 1, 0)
    BY DEF Buffered, Stream
  <2>. QED BY <2>1, SubSeqEmpty
<1>8. Stream.toFill = <<>> /\ Stream.tail = 0 /\ Stream.head = 0 /\ Stream.fBuffer = <<>>
      /\ Stream.fBufferSize = 0 /\ Stream.fTotalBytesRead = 0 /\ Stream.fBytesToRead = 0
      /\ Stream.fStatusCode = 200
  BY DEF Stream
<1>9. Content(Stream) = <<>>
  BY <1>3, <1>7, <1>8 DEF Content
<1>10. Holds(Stream, <<>>, 0)
  <2>1. <<>> \o Content(Stream) = Arrived(Stream, 0)
    BY <1>3, <1>6, <1>9
  <2>2. Stream.fTotalBytesRead = Len(<<>>) + Len(Stream.toFill)
    BY <1>3, <1>8
  <2>. QED BY <1>3, <1>4, <1>8, <2>1, <2>2 DEF Holds
<1>. QED BY <1>1, <1>2, <1>3, <1>8, <1>10 DEF StreamInv

(* readBytes() starts with empty hands. *)
LEMMA ReadBytesStep ==
    ASSUME StreamInv, NEW n \in 1..ReadSize, readBytes(n)
    PROVE  StreamInv'
<1>1. n \in Nat /\ n > 0
  BY StreamAssumption
<1>2. /\ in' = [in EXCEPT !.toFill = <<>>, !.fBytesToRead = n]
      /\ reader = "idle" /\ reader' = "reading"
      /\ UNCHANGED <<answer, sent, transfer, received, copy>>
  BY DEF readBytes
<1>3. /\ in \in Members /\ in.toFill = <<>> /\ Holds(in, received, sent)
      /\ <<>> \in Seq(V) /\ Len(<<>>) = 0
  BY <1>2, Joined DEF StreamInv, Holds
<1>4. /\ in' \in Members /\ in'.toFill = <<>> /\ in'.fBytesToRead = n
      /\ in'.tail = in.tail /\ in'.head = in.head /\ in'.fBuffer = in.fBuffer
      /\ in'.fBufferSize = in.fBufferSize /\ in'.fStatusCode = in.fStatusCode
      /\ in'.fTotalBytesRead = in.fTotalBytesRead
  BY <1>1, <1>2, <1>3 DEF Members
<1>5. Content(in') = Content(in) /\ Arrived(in', sent) = Arrived(in, sent)
  BY <1>3, <1>4 DEF Content, Buffered, Arrived
<1>6. Holds(in', received, sent)
  BY <1>3, <1>4, <1>5 DEF Holds
<1>7. Holds(in, received, sent)'
  BY <1>2, <1>6, HoldsPrimed
<1>8. in'.fBytesToRead + Len(in'.toFill) > 0
  BY <1>1, <1>3, <1>4
<1>. QED BY <1>2, <1>7, <1>8 DEF StreamInv

LEMMA TakesBufferedStep ==
    ASSUME StreamInv, TakesBuffered
    PROVE  StreamInv'
<1>1. /\ in' = takeBuffered(in) /\ reader = "reading" /\ in.head > in.tail
      /\ UNCHANGED <<answer, sent, transfer, reader, received, copy>>
  BY DEF TakesBuffered, Loops
<1>2. received \in Seq(V) /\ Holds(in, received, sent)
      /\ in.fBytesToRead + Len(in.toFill) > 0
  BY <1>1 DEF StreamInv
<1>3. Accounted(in', in) /\ Holds(in', received, sent)
  BY <1>1, <1>2, TakenHolds
<1>4. Holds(in, received, sent)'
  BY <1>1, <1>3, HoldsPrimed
<1>5. in'.fBytesToRead + Len(in'.toFill) > 0
  BY <1>2, <1>3 DEF Accounted
<1>. QED BY <1>1, <1>4, <1>5 DEF StreamInv

(* Nothing waits in a buffer that has been read to its end. *)
LEMMA NothingWaits ==
    ASSUME NEW s \in Members, s.head = s.tail, s.toFill = <<>>, NEW returned \in Seq(V)
    PROVE  returned \o Content(s) = returned
<1>1. s.tail \in Nat
  BY DEF Members
<1>2. Buffered(s) = <<>>
  <2>1. Buffered(s) = SubSeq(s.fBuffer, s.tail + 1, s.tail)
    BY DEF Buffered
  <2>. QED BY <1>1, <2>1, SubSeqEmpty
<1>. QED BY <1>2, Joined DEF Content

(* What readBytes() returns, and the end when that is nothing. *)
LEMMA ReturnedStep ==
    ASSUME StreamInv, NEW s, Holds(s, received, sent'), Returned(s), answer' = answer,
           s.fBytesToRead + Len(s.toFill) > 0,
           sent' \in 0..answer.length, transfer' \in {"running", "over"},
           transfer' = "over" => sent' = answer.length /\ ~answer.fails,
           s.toFill = <<>> => /\ s.head = s.tail
                              /\ s.fStatusCode >= 300 \/ transfer' = "over"
    PROVE  StreamInv'
<1>1. /\ in' = [s EXCEPT !.toFill = <<>>] /\ received' = received \o s.toFill
      /\ copy' = copy \o s.toFill
      /\ reader' = IF s.toFill = <<>> THEN "end" ELSE "idle"
  BY DEF Returned
<1>2. received \in Seq(V) /\ copy = received /\ answer \in Answers
  BY DEF StreamInv
<1>3. Holds(in', received', sent') /\ received' \in Seq(V)
  BY <1>1, <1>2, ReturnedHolds
<1>4. Holds(in, received, sent)'
  BY <1>3, HoldsPrimed
<1>5. s \in Members
  BY DEF Holds
<1>6. in'.toFill = <<>> /\ in'.fStatusCode = s.fStatusCode
  BY <1>1, <1>5 DEF Members
<1>7. s.toFill = <<>> => received' = Arrived(in, sent)'
  <2> SUFFICES ASSUME s.toFill = <<>> PROVE received' = Arrived(in, sent)'
    OBVIOUS
  <2>1. received' = received
    BY <1>1, <1>2, Joined
  <2>2. received \o Content(s) = received
    BY <1>2, <1>5, NothingWaits
  <2>3. received \o Content(s) = Arrived(s, sent')
    BY DEF Holds
  <2>4. Arrived(s, sent') = Arrived(in, sent)'
    BY <1>6 DEF Arrived
  <2>. QED BY <2>1, <2>2, <2>3, <2>4
<1>8. copy' = received'
  BY <1>1, <1>2
<1>. QED BY <1>1, <1>2, <1>3, <1>4, <1>6, <1>7, <1>8 DEF StreamInv

LEMMA ReturnsStep ==
    ASSUME StreamInv, Returns
    PROVE  StreamInv'
<1>1. /\ reader = "reading" /\ Returned(in) /\ (Loops => in.head = in.tail /\ in.fStatusCode >= 300)
      /\ UNCHANGED <<answer, sent, transfer>>
  BY DEF Returns
<1>2. /\ Holds(in, received, sent) /\ in.fBytesToRead + Len(in.toFill) > 0
      /\ sent \in 0..answer.length /\ transfer \in {"running", "over"}
      /\ transfer = "over" => sent = answer.length /\ ~answer.fails
  BY <1>1 DEF StreamInv
<1>3. in.toFill = <<>> => in.head = in.tail /\ in.fStatusCode >= 300
  <2>1. in.toFill = <<>> => in.fBytesToRead > 0
    BY <1>2, Joined DEF Holds, Members
  <2>. QED BY <1>1, <2>1 DEF Loops
<1>4. /\ Holds(in, received, sent') /\ sent' \in 0..answer.length /\ transfer' \in {"running", "over"}
      /\ transfer' = "over" => sent' = answer.length /\ ~answer.fails
      /\ answer' = answer
  BY <1>1, <1>2
<1>. QED BY <1>1, <1>2, <1>3, <1>4, ReturnedStep

LEMMA ReadsMoreStep ==
    ASSUME StreamInv, ReadsMore
    PROVE  StreamInv'
<1>1. /\ reader = "reading" /\ in.head = in.tail /\ in.fStatusCode < 300 /\ answer' = answer
  BY DEF ReadsMore, Loops
<1>2. PICK pieces \in Chunks, ends \in BOOLEAN :
         /\ readMore(pieces, ends)
         /\ IF Fails(ends) THEN Throws(Passed(pieces))
            ELSE IF ends THEN Returned(Passed(pieces))
            ELSE in' = Passed(pieces) /\ UNCHANGED <<reader, received, copy>>
  BY DEF ReadsMore
<1>3. /\ received \in Seq(V) /\ Holds(in, received, sent) /\ sent \in Nat
      /\ in.fBytesToRead + Len(in.toFill) > 0 /\ copy = received /\ answer \in Answers
      /\ in \in Members
  BY <1>1, AnswerType DEF StreamInv, Holds
<1>4. Writable(in)
  <2>1. in.head = 0 /\ in.tail = 0 /\ in.head <= Len(in.fBuffer)
    BY <1>1, <1>3 DEF Holds
  <2>2. in.fBufferSize \in Nat
    BY <1>3 DEF Members
  <2>. QED BY <1>3, <2>1, <2>2 DEF Writable
<1> DEFINE s == Passed(pieces)
<1>5. /\ Writable(s) /\ Accounted(s, in) /\ Holds(s, received, sent + Total(pieces))
      /\ sent + Total(pieces) \in Nat
  BY <1>1, <1>3, <1>4, PassedHolds
<1> HIDE DEF s
<1>6. /\ sent' = sent + Total(pieces) /\ sent' \in 0..answer.length
      /\ transfer' \in {"running", "over"}
      /\ transfer' = "over" => ends /\ sent' = answer.length
      /\ transfer' = "over" /\ ~Fails(ends) => ~answer.fails
      /\ ends => transfer' = "over"
  BY <1>1, <1>2, <1>5, ReadMoreStep
<1>7. Holds(s, received, sent') /\ s.fBytesToRead + Len(s.toFill) > 0
  <2>1. s.fBytesToRead + Len(s.toFill) = in.fBytesToRead + Len(in.toFill)
    BY <1>5 DEF Accounted
  <2>. QED BY <1>3, <1>5, <1>6, <2>1
<1>8. CASE Fails(ends)
  <2>1. in' = s /\ reader' = "thrown" /\ received' = received /\ copy' = copy
    BY <1>2, <1>8 DEF Throws, s
  <2>2. Holds(in, received, sent)'
    BY <1>1, <1>7, <2>1, HoldsPrimed
  <2>. QED BY <1>1, <1>3, <1>6, <2>1, <2>2 DEF StreamInv
<1>9. CASE ~Fails(ends) /\ ends
  <2>1. Returned(s)
    BY <1>2, <1>9 DEF s
  <2>2. transfer' = "over" /\ sent' = answer.length /\ ~answer.fails
    BY <1>6, <1>9
  <2>3. s.toFill = <<>> => s.head = s.tail
    <3> SUFFICES ASSUME s.toFill = <<>> PROVE s.head = s.tail
      OBVIOUS
    <3>1. s.fBytesToRead > 0
      BY <1>5, <1>7, Joined DEF Writable, Members
    <3>. QED BY <1>5, <3>1 DEF Writable
  <2>. QED BY <1>1, <1>6, <1>7, <2>1, <2>2, <2>3, ReturnedStep
<1>10. CASE ~Fails(ends) /\ ~ends
  <2>1. in' = s /\ reader' = reader /\ received' = received /\ copy' = copy
    BY <1>2, <1>10 DEF s
  <2>2. Holds(in, received, sent)'
    BY <1>1, <1>7, <2>1, HoldsPrimed
  <2>3. transfer' # "over"
    BY <1>6, <1>10
  <2>4. in'.fBytesToRead + Len(in'.toFill) > 0
    BY <1>7, <2>1
  <2>. QED BY <1>1, <1>3, <1>6, <2>1, <2>2, <2>3, <2>4 DEF StreamInv
<1>. QED BY <1>8, <1>9, <1>10

(* The document for a status takes the place of what init() has read. *)
LEMMA StatusHolds ==
    ASSUME NEW s, NEW n, answer \in Answers, s.fStatusCode < 300, Holds(s, <<>>, n), s.toFill = <<>>
    PROVE  Holds(WithStatus(s), <<>>, n) /\ WithStatus(s).toFill = <<>>
<1> DEFINE document == StatusDocument(answer.code)
           r == WithStatus(s)
<1>1. s \in Members /\ answer.code \in Nat /\ <<>> \in Seq(V) /\ Len(<<>>) = 0
  BY AnswerType, Joined DEF Holds
<1>2. document \in Seq(V) /\ Len(document) = 2
  BY <1>1 DEF StatusDocument, V
<1> HIDE DEF document
<1>3. s.fStatusCode \in Nat
  BY <1>1 DEF Members
<1>4. CASE answer.code < 300
  <2>1. r = [s EXCEPT !.fStatusCode = answer.code]
    BY <1>4 DEF WithStatus
  <2> HIDE DEF r
  <2>2. /\ r \in Members /\ r.toFill = <<>> /\ r.fStatusCode = answer.code
        /\ r.tail = s.tail /\ r.head = s.head /\ r.fBuffer = s.fBuffer
        /\ r.fBufferSize = s.fBufferSize /\ r.fTotalBytesRead = s.fTotalBytesRead
    BY <1>1, <2>1 DEF Members
  <2>3. Content(r) = Content(s)
    BY <2>2 DEF Content, Buffered
  <2>4. Arrived(r, n) = Bytes(1, n)
    <3>1. ~(r.fStatusCode >= 300)
      BY <1>1, <1>4, <2>2
    <3>. QED BY <3>1, Zenon DEF Arrived
  <2>5. Arrived(s, n) = Bytes(1, n)
    <3>1. ~(s.fStatusCode >= 300)
      BY <1>3
    <3>. QED BY <3>1, Zenon DEF Arrived
  <2>6. ~(s.fStatusCode >= 300)
    BY <1>3
  <2>7. Holds(r, <<>>, n)
    BY <2>2, <2>3, <2>4, <2>5, <2>6 DEF Holds
  <2>. QED BY <2>2, <2>7 DEF r
<1>5. CASE answer.code >= 300
  <2>1. r = [s EXCEPT !.fStatusCode = answer.code, !.fBuffer = document, !.tail = 0,
                      !.head = Len(document)]
    BY <1>1, <1>5 DEF WithStatus, document, Members
  <2> HIDE DEF r
  <2>2. /\ r \in Members /\ r.toFill = <<>> /\ r.fStatusCode = answer.code
        /\ r.tail = 0 /\ r.head = 2 /\ r.fBuffer = document
        /\ r.fTotalBytesRead = s.fTotalBytesRead
    <3>1. /\ s.toFill \in Seq(V) /\ s.fBufferSize \in Nat /\ s.fBytesToRead \in Nat
          /\ s.fTotalBytesRead \in Nat
      BY <1>1 DEF Members
    <3> DEFINE q == [fBuffer |-> document, head |-> 2, tail |-> 0, fBufferSize |-> s.fBufferSize,
                     fBytesToRead |-> s.fBytesToRead, toFill |-> s.toFill,
                     fTotalBytesRead |-> s.fTotalBytesRead, fStatusCode |-> answer.code]
    <3>2. q \in Members
      BY <1>1, <1>2, <3>1 DEF Members
    <3>3. r = q
      BY <1>1, <1>2, <2>1 DEF Members
    <3>. QED BY <3>2, <3>3
  <2>3. Content(r) = document
    <3>1. Buffered(r) = SubSeq(document, 1, Len(document))
      BY <1>2, <2>2 DEF Buffered
    <3>2. Buffered(r) = document
      BY <1>2, <3>1, Joined
    <3>. QED BY <1>2, <2>2, <3>2, Joined DEF Content
  <2>4. Arrived(r, n) = document
    BY <1>5, <2>2 DEF Arrived, document
  <2>5. <<>> \o Content(r) = Arrived(r, n)
    BY <1>2, <2>3, <2>4, Joined
  <2>6. r.fTotalBytesRead = Len(<<>>) + Len(r.toFill)
    BY <2>2 DEF Holds
  <2>7. /\ r.tail <= r.head /\ r.head <= Len(r.fBuffer) /\ r.fStatusCode >= 300
        /\ r.tail = r.head => r.head = 0
    <3>1. r.fStatusCode >= 300
      BY <1>5, <2>2
    <3>2. Len(r.fBuffer) = 2
      BY <1>2, <2>2, Zenon
    <3>3. r.tail = 0 /\ r.head = 2
      BY <2>2, Zenon
    <3>. QED BY <3>1, <3>2, <3>3
  <2>8. Holds(r, <<>>, n)
    <3>1. r \in Members
      BY <2>2
    <3>. QED BY <2>5, <2>6, <2>7, <3>1, Zenon DEF Holds
  <2>. QED BY <2>2, <2>8 DEF r
<1>. QED BY <1>1, <1>4, <1>5

LEMMA StartsStep ==
    ASSUME StreamInv, Starts
    PROVE  StreamInv'
<1>1. reader = "init" /\ answer' = answer
  BY DEF Starts
<1>2. PICK pieces \in Chunks, ends \in BOOLEAN :
         /\ readMore(pieces, ends)
         /\ IF Fails(ends) THEN Throws(Passed(pieces))
            ELSE /\ IF Passed(pieces).head = 0 /\ ~ends
                    THEN in' = Passed(pieces) /\ reader' = "init"
                    ELSE in' = WithStatus(Passed(pieces)) /\ reader' = "idle"
                 /\ UNCHANGED <<received, copy>>
  BY DEF Starts
<1>3. /\ received \in Seq(V) /\ received = <<>> /\ Holds(in, received, sent) /\ sent \in Nat
      /\ in.fStatusCode < 300 /\ in.tail = 0 /\ in.fBytesToRead = 0 /\ in.toFill = <<>>
      /\ copy = received /\ answer \in Answers /\ in \in Members
  BY <1>1, AnswerType DEF StreamInv, Holds
<1>4. Writable(in)
  <2>1. in.head <= Len(in.fBuffer) /\ (in.fStatusCode >= 300 \/ in.head <= in.fBufferSize)
    BY <1>3 DEF Holds
  <2>2. in.fStatusCode \in Nat
    BY <1>3 DEF Members
  <2>. QED BY <1>3, <2>1, <2>2 DEF Writable
<1> DEFINE s == Passed(pieces)
<1>5. /\ Writable(s) /\ Accounted(s, in) /\ Holds(s, received, sent + Total(pieces))
      /\ sent + Total(pieces) \in Nat
  BY <1>3, <1>4, PassedHolds
<1> HIDE DEF s
<1>6. /\ sent' = sent + Total(pieces) /\ sent' \in 0..answer.length
      /\ transfer' \in {"running", "over"}
      /\ transfer' = "over" => ends /\ sent' = answer.length
      /\ transfer' = "over" /\ ~Fails(ends) => ~answer.fails
  BY <1>1, <1>2, <1>5, ReadMoreStep
<1>7. s.toFill = <<>> /\ s.fBytesToRead = 0 /\ s.fStatusCode < 300 /\ s.tail = 0
  <2>1. /\ s.fBytesToRead + Len(s.toFill) = in.fBytesToRead + Len(in.toFill)
        /\ s.fStatusCode = in.fStatusCode
    BY <1>5 DEF Accounted
  <2>2. s.fBytesToRead \in Nat /\ s.toFill \in Seq(V) /\ s.tail = 0
    BY <1>5 DEF Writable, Members
  <2>3. Len(s.toFill) \in Nat /\ Len(in.toFill) = 0
    BY <1>3, <2>2, Joined
  <2>4. s.fBytesToRead = 0 /\ Len(s.toFill) = 0
    BY <1>3, <2>1, <2>2, <2>3
  <2>. QED BY <1>3, <2>1, <2>2, <2>4, Joined
<1>8. Holds(s, received, sent')
  BY <1>5, <1>6
<1>9. CASE Fails(ends)
  <2>1. in' = s /\ reader' = "thrown" /\ received' = received /\ copy' = copy
    BY <1>2, <1>9 DEF Throws, s
  <2>2. Holds(in, received, sent)'
    BY <1>1, <1>8, <2>1, HoldsPrimed
  <2>. QED BY <1>1, <1>3, <1>6, <2>1, <2>2 DEF StreamInv
<1>10. CASE ~Fails(ends) /\ s.head = 0 /\ ~ends
  <2>1. in' = s /\ reader' = "init" /\ received' = received /\ copy' = copy
    BY <1>2, <1>10 DEF s
  <2>2. Holds(in, received, sent)'
    BY <1>1, <1>8, <2>1, HoldsPrimed
  <2>3. transfer' = "running"
    BY <1>6, <1>10
  <2>. QED BY <1>1, <1>3, <1>6, <1>7, <2>1, <2>2, <2>3 DEF StreamInv
<1>11. CASE ~Fails(ends) /\ ~(s.head = 0 /\ ~ends)
  <2>1. in' = WithStatus(s) /\ reader' = "idle" /\ received' = received /\ copy' = copy
    BY <1>2, <1>11 DEF s
  <2>2. Holds(WithStatus(s), received, sent') /\ WithStatus(s).toFill = <<>>
    BY <1>3, <1>7, <1>8, StatusHolds
  <2>3. Holds(in, received, sent)'
    BY <1>1, <2>1, <2>2, HoldsPrimed
  <2>4. in'.toFill = <<>>
    BY <2>1, <2>2
  <2>. QED BY <1>1, <1>3, <1>6, <1>11, <2>1, <2>3, <2>4 DEF StreamInv
<1>. QED BY <1>9, <1>10, <1>11

LEMMA StreamStep == StreamInv /\ [StreamNext]_streamVars => StreamInv'
<1> SUFFICES ASSUME StreamInv, [StreamNext]_streamVars PROVE StreamInv'
  OBVIOUS
<1>1. CASE Starts
  BY <1>1, StartsStep
<1>2. CASE TakesBuffered
  BY <1>2, TakesBufferedStep
<1>3. CASE ReadsMore
  BY <1>3, ReadsMoreStep
<1>4. CASE Returns
  BY <1>4, ReturnsStep
<1>5. ASSUME NEW n \in 1..ReadSize, readBytes(n) PROVE StreamInv'
  BY <1>5, ReadBytesStep
<1>6. CASE UNCHANGED streamVars
  <2>1. /\ answer' = answer /\ sent' = sent /\ transfer' = transfer /\ in' = in
        /\ reader' = reader /\ received' = received /\ copy' = copy
    BY <1>6 DEF streamVars
  <2>2. Holds(in, received, sent)'
    BY <2>1, HoldsPrimed DEF StreamInv
  <2>3. Arrived(in, sent)' = Arrived(in, sent)
    BY <2>1 DEF Arrived
  <2>. QED BY <2>1, <2>2, <2>3 DEF StreamInv
<1>. QED BY <1>1, <1>2, <1>3, <1>4, <1>5, <1>6 DEF StreamNext

LEMMA InvFaithful == StreamInv => StreamFaithful
<1> SUFFICES ASSUME StreamInv PROVE StreamFaithful
  OBVIOUS
<1>1. Holds(in, received, sent) /\ received \in Seq(V) /\ copy = received
  BY DEF StreamInv
<1>2. in \in Members /\ in.toFill \in Seq(V) /\ Buffered(in) \in Seq(V)
  BY <1>1, BufferedType DEF Holds, Members
<1>3. received \o in.toFill \o Buffered(in) = Arrived(in, sent)
  <2>1. (received \o in.toFill) \o Buffered(in) = received \o Content(in)
    BY <1>1, <1>2, Joined, Zenon DEF Content
  <2>. QED BY <1>1, <2>1 DEF Holds
<1>4. in.fTotalBytesRead = Len(received \o in.toFill)
  <2>1. Len(received \o in.toFill) = Len(received) + Len(in.toFill)
    BY <1>1, <1>2, Joined
  <2>. QED BY <1>1, <2>1 DEF Holds
<1>5. in.fStatusCode >= 300 \/ in.head <= in.fBufferSize
  BY <1>1 DEF Holds
<1>6. reader = "end" => /\ received = Arrived(in, sent)
                        /\ in.fStatusCode >= 300 \/ (sent = answer.length /\ ~answer.fails)
  BY DEF StreamInv
<1>. QED BY <1>1, <1>3, <1>4, <1>5, <1>6 DEF StreamFaithful, Arrived

(***************************************************************************)
(* However libcurl cuts a body into pieces, and whatever sizes it is read  *)
(* in, the reader of CurlURLInputStream gets it once and in order, nothing *)
(* is written beyond the buffer, the copy that CloneInputStream keeps is   *)
(* what was read, and the end is reached by a whole body only.             *)
(***************************************************************************)
THEOREM BodyReadFaithfully == StreamSpec => []StreamFaithful
<1>1. StreamSpec => []StreamInv
  BY InitStreamInv, StreamStep, PTL DEF StreamSpec
<1>. QED BY <1>1, InvFaithful, PTL
=============================================================================
