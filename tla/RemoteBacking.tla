--------------------------- MODULE RemoteBacking ---------------------------
(***************************************************************************)
(* load() of a remote resource with a backing file                         *)
(* (ReloadableXMLFile.cpp, CurlURLInputStream.cpp): the conditional fetch, *)
(* the commit of the copy it leaves, the fallback to that copy, and the    *)
(* caching tag, in memory and on disk, across crashes and restarts.        *)
(*                                                                         *)
(* A document is the number of its version, and so is the tag (ETag) the   *)
(* server sends with it.  The server never goes back to an older version.  *)
(***************************************************************************)
EXTENDS Integers

CONSTANTS MaxVersion,    \* bound: versions the server publishes
          MaxCrashes     \* bound: how often the process is killed

ASSUME BackingAssumption == MaxVersion \in Nat \ {0} /\ MaxCrashes \in Nat

VARIABLES remote,      \* the version on the server
          backup,      \* the file m_backing: a version, Broken or Nothing
          tagFile,     \* the file m_backing + ".tag": a tag or Nothing
          temp,        \* the copy of the response, a file beside the backup
          fetched,     \* the document that was parsed from the response
          cacheTag,    \* m_cacheTag
          inUse,       \* the version in use; m_loaded says it is not Nothing
          proc,        \* where the process is
          crashes,     \* how often it was killed
          faults       \* history: what else went wrong

backingVars == <<remote, backup, tagFile, temp, fetched, cacheTag, inUse, proc, crashes, faults>>

PossibleFaults == {"broken",     \* a response whose body is cut off or is no
                                 \* XML or has no valid signature
                   "write",      \* the disk takes a file in part or not at all:
                                 \* no stream is asked whether it could write
                   "commit"}     \* remove() or rename() of a file fails

Nothing == 0
Broken == -1
Version == 1..MaxVersion

\* With the types, that a copy and its document are there during a commit only.
BackingTypeOK ==
    /\ remote \in Version
    /\ backup \in Version \cup {Nothing, Broken}
    /\ tagFile \in Version \cup {Nothing}
    /\ temp \in Version \cup {Nothing, Broken}
    /\ fetched \in Version \cup {Nothing}
    /\ cacheTag \in Version \cup {Nothing}
    /\ inUse \in Version \cup {Nothing}
    /\ proc \in {"down", "load", "fetched", "removed", "renamed", "restore", "idle"}
    /\ crashes \in 0..MaxCrashes
    /\ faults \subseteq PossibleFaults
    /\ temp # Nothing <=> proc \in {"fetched", "removed", "renamed"}
    /\ fetched # Nothing <=> proc \in {"fetched", "removed", "renamed"}

BackingInit ==
    /\ remote = 1 /\ crashes = 0 /\ proc = "down"
    /\ backup = Nothing /\ tagFile = Nothing /\ temp = Nothing /\ fetched = Nothing
    /\ cacheTag = Nothing /\ inUse = Nothing
    /\ faults = {}

m_loaded == inUse # Nothing
-----------------------------------------------------------------------------
Publish ==
    /\ remote < MaxVersion
    /\ remote' = remote + 1
    /\ UNCHANGED <<backup, tagFile, temp, fetched, cacheTag, inUse, proc, crashes, faults>>

\* The constructor reads the tag; the subclass calls load().
Boot ==
    /\ proc = "down"
    /\ proc' = "load"
    /\ cacheTag' = tagFile
    /\ UNCHANGED <<remote, backup, tagFile, temp, fetched, inUse, crashes, faults>>

\* A copy under a random name stays on the disk, but nothing refers to it.  A
\* tag that is just being written is lost.
Crash ==
    /\ proc # "down"
    /\ crashes < MaxCrashes
    /\ crashes' = crashes + 1
    /\ proc' = "down"
    /\ tagFile' \in {tagFile} \cup (IF proc = "renamed" THEN {Nothing} ELSE {})
    /\ cacheTag' = Nothing /\ inUse' = Nothing /\ temp' = Nothing /\ fetched' = Nothing
    /\ UNCHANGED <<remote, backup, faults>>

\* The reload interval has passed.
Reload ==
    /\ proc = "idle"
    /\ proc' = "load"
    /\ UNCHANGED <<remote, backup, tagFile, temp, fetched, cacheTag, inUse, crashes, faults>>
-----------------------------------------------------------------------------
(***************************************************************************)
(* The fetch.  The header hook sets m_cacheTag as the headers arrive, if   *)
(* the response has a tag; load() looks at the body later.                 *)
(***************************************************************************)
NewTag == {remote, cacheTag}

FetchWhole ==
    /\ proc = "load"
    /\ cacheTag # remote
    /\ proc' = "fetched"
    /\ fetched' = remote /\ temp' = remote
    /\ cacheTag' \in NewTag
    /\ UNCHANGED <<remote, backup, tagFile, inUse, crashes, faults>>

\* The document is parsed from the connection and is good, but CloneInputStream
\* wrote the copy in part.  (If it could not open the file there is no copy; then
\* the commit fails.)
FetchUnwritten ==
    /\ proc = "load"
    /\ cacheTag # remote
    /\ proc' = "fetched"
    /\ fetched' = remote /\ temp' = Broken
    /\ cacheTag' \in NewTag
    /\ faults' = faults \cup {"write"}
    /\ UNCHANGED <<remote, backup, tagFile, inUse, crashes>>

\* Mutant: the backup is tried whether or not there is something better.
FailoverAlways == proc' = "restore" /\ UNCHANGED <<temp, fetched>>

\* load() failed, and removed the copy.  The backup is used if nothing is
\* loaded, else the exception leaves load().
Failover ==
    /\ proc' = IF m_loaded THEN "idle" ELSE "restore"
    /\ UNCHANGED <<temp, fetched>>

\* Mutant: the copy is committed before it is parsed.
FetchBrokenCommitted ==
    /\ proc = "load"
    /\ cacheTag # remote
    /\ cacheTag' \in NewTag
    /\ faults' = faults \cup {"broken"}
    /\ proc' = "fetched"
    /\ fetched' = remote /\ temp' = Broken
    /\ UNCHANGED <<remote, backup, tagFile, inUse, crashes>>

FetchBroken ==
    /\ proc = "load"
    /\ cacheTag # remote
    /\ cacheTag' \in NewTag
    /\ faults' = faults \cup {"broken"}
    /\ Failover
    /\ UNCHANGED <<remote, backup, tagFile, inUse, crashes>>

\* No answer, or one with an error status.
Unreachable ==
    /\ proc = "load"
    /\ Failover
    /\ UNCHANGED <<remote, backup, tagFile, cacheTag, inUse, crashes, faults>>

\* The server answers 304.
NotModified ==
    /\ proc = "load"
    /\ cacheTag = remote
    /\ Failover
    /\ UNCHANGED <<remote, backup, tagFile, cacheTag, inUse, crashes, faults>>

\* load(true): the subclass gives up without a configuration, or tries again.
Restore ==
    /\ proc = "restore"
    /\ IF backup \in Version
       THEN inUse' = backup /\ proc' = "idle" /\ cacheTag' = cacheTag
       ELSE /\ inUse' = inUse
            /\ \/ proc' = "idle" /\ cacheTag' = cacheTag
               \/ proc' = "down" /\ cacheTag' = Nothing
    /\ UNCHANGED <<remote, backup, tagFile, temp, fetched, crashes, faults>>
-----------------------------------------------------------------------------
(***************************************************************************)
(* The commit, under the backup lock.                                      *)
(***************************************************************************)

\* The backup becomes what it should, or the file operation fails.
Committed(content) ==
    \/ backup' = content /\ faults' = faults
    \/ backup' = backup /\ faults' = faults \cup {"commit"}

\* Mutant: the tag is written before the backup is in place.
RemoveAfterTag ==
    /\ proc = "fetched"
    /\ proc' = "removed"
    /\ backup' = backup
    /\ tagFile' = IF cacheTag = Nothing THEN tagFile ELSE cacheTag
    /\ UNCHANGED <<remote, temp, fetched, cacheTag, inUse, crashes, faults>>

Remove ==
    /\ proc = "fetched"
    /\ proc' = "removed"
    /\ Committed(Nothing)
    /\ UNCHANGED <<remote, tagFile, temp, fetched, cacheTag, inUse, crashes>>

Rename ==
    /\ proc = "removed"
    /\ proc' = "renamed"
    /\ Committed(temp)
    /\ UNCHANGED <<remote, tagFile, temp, fetched, cacheTag, inUse, crashes>>

\* preserveCacheTag(), whether or not the file was renamed, and the return
\* from load() with the document.
Finish ==
    /\ proc = "renamed"
    /\ proc' = "idle"
    /\ tagFile' = IF cacheTag = Nothing THEN tagFile ELSE cacheTag
    /\ inUse' = fetched
    /\ temp' = Nothing /\ fetched' = Nothing
    /\ UNCHANGED <<remote, backup, cacheTag, crashes, faults>>

\* The file of the tag cannot be opened, or comes out empty or cut off: then it
\* holds no tag that the server knows.
FinishUntagged ==
    /\ proc = "renamed"
    /\ cacheTag # Nothing
    /\ proc' = "idle"
    /\ tagFile' \in {tagFile, Nothing}
    /\ inUse' = fetched
    /\ temp' = Nothing /\ fetched' = Nothing
    /\ faults' = faults \cup {"write"}
    /\ UNCHANGED <<remote, backup, cacheTag, crashes>>

BackingNext ==
    \/ Publish \/ Boot \/ Crash \/ Reload
    \/ FetchWhole \/ FetchUnwritten \/ FetchBroken \/ Unreachable \/ NotModified \/ Restore
    \/ Remove \/ Rename \/ Finish \/ FinishUntagged

(***************************************************************************)
(* The process goes on, is started again, and its server, if it is asked   *)
(* again and again, now and then answers with what it has.                 *)
(***************************************************************************)
BackingFairness ==
    /\ WF_backingVars(Boot) /\ WF_backingVars(Reload) /\ WF_backingVars(Restore)
    /\ WF_backingVars(Remove) /\ WF_backingVars(Rename) /\ WF_backingVars(Finish)
    /\ SF_backingVars(FetchWhole) /\ SF_backingVars(NotModified)

BackingSpec == BackingInit /\ [][BackingNext]_backingVars /\ BackingFairness
-----------------------------------------------------------------------------
(***************************************************************************)
(* A process that is started again while the server is away comes up with  *)
(* what it ran before: between two loads the backup is the document in     *)
(* use, through crashes, lost answers and broken ones, unless a remove()   *)
(* or rename() failed.  Where no write failed it is never a broken file,   *)
(* whenever the process is killed (load(), CloneInputStream).              *)
(***************************************************************************)
FallbackReady ==
    /\ "write" \notin faults => backup # Broken
    /\ "commit" \notin faults /\ proc = "idle" /\ m_loaded => backup \in {inUse, Broken}

(***************************************************************************)
(* If the server would answer "not modified", the version it has is the    *)
(* one in use or, when none is, the one in the backup: "the document       *)
(* hasn't changed" (ReloadableXMLFile.cpp:543-546).                        *)
(***************************************************************************)
NotModifiedMeansCurrent ==
    proc = "load" /\ cacheTag = remote =>
        IF m_loaded THEN inUse = remote ELSE backup = remote

(***************************************************************************)
(* So it is through crashes between any two steps of a commit and lost     *)
(* answers, as long as no body was broken and neither a write nor another  *)
(* file operation failed (load(), preserveCacheTag()).                     *)
(***************************************************************************)
NotModifiedHonest == faults = {} => NotModifiedMeansCurrent

(***************************************************************************)
(* A running process never goes back to an older version: the backup is    *)
(* for when nothing is loaded.                                             *)
(***************************************************************************)
NeverBack == [][inUse # Nothing /\ inUse' # Nothing => inUse' >= inUse]_backingVars

(***************************************************************************)
(* The last version published is in use in the end, through lost answers   *)
(* and crashes between the steps of a commit, if nothing else goes wrong.  *)
(***************************************************************************)
EventuallyFresh == [](faults = {}) => <>[](inUse = remote)
=============================================================================
