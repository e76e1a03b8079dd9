------------------------- MODULE ReloadableXMLFile -------------------------
(***************************************************************************)
(* The threads around one ReloadableXMLFile (util/ReloadableXMLFile.cpp):  *)
(* readers that lock() it, the thread that reloads it, and its owner, who  *)
(* shuts that thread down.  What load() does is in RemoteBacking; here it  *)
(* yields the document the source has at that moment, or fails.            *)
(*                                                                         *)
(* The base class keeps no configuration.  config stands for what a        *)
(* subclass builds in background_load() from the document it is given.     *)
(***************************************************************************)
EXTENDS Integers

CONSTANTS Reader,        \* the threads that use the configuration
          MaxEdits       \* bound: how often the resource changes

ASSUME ReloadAssumption == MaxEdits \in Nat

VARIABLES local,       \* m_local: a file with reloadChanges, or a remote
                       \* resource with a reloadInterval
          file,        \* the resource: its document and its modification time
          edits,       \* how often it was changed
          filestamp,   \* m_filestamp
          config,      \* the document last loaded, or None
          shutdown,    \* m_shutdown
          writing,     \* is m_lock held for writing
          rpc,         \* where each reader is
          tpc,         \* where the reload thread is
          seen,        \* the modification time in its stat_buf
          owner        \* where the owner is

vars == <<local, file, edits, filestamp, config, shutdown, writing, rpc, tpc, seen, owner>>

None == 0        \* no document
Bad == -1        \* the resource cannot be parsed
Gone == -2       \* the resource cannot be accessed
Good == 1..MaxEdits + 1

Holders == {r \in Reader : rpc[r] \in {"locked", "signal", "in"}}
LockFree == ~writing /\ Holders = {}

\* With the types, that a write lock excludes read locks.
TypeOK ==
    /\ local \in BOOLEAN
    /\ file \in [doc : Good \cup {Bad, Gone}, mtime : 1..MaxEdits + 1]
    /\ edits \in 0..MaxEdits
    /\ filestamp \in 1..MaxEdits + 1
    /\ config \in Good \cup {None}
    /\ shutdown \in BOOLEAN
    /\ writing \in BOOLEAN
    /\ rpc \in [Reader -> {"out", "want", "locked", "signal", "in"}]
    /\ tpc \in {"off", "check", "running", "wait", "woken", "changed", "load", "loading",
               "done"}
    /\ seen \in 0..MaxEdits + 1
    /\ owner \in {"loading", "running", "flagged", "joining", "joined"}
    /\ writing => Holders = {}

\* The constructor took the time of the file; nothing has been loaded.
Init ==
    /\ local \in BOOLEAN
    /\ file = [doc |-> 1, mtime |-> 1]
    /\ edits = 0
    /\ filestamp = 1
    /\ config = None
    /\ shutdown = FALSE
    /\ writing = FALSE
    /\ rpc = [r \in Reader |-> "out"]
    /\ tpc = "off"
    /\ seen = 0
    /\ owner = "loading"
-----------------------------------------------------------------------------
\* The administrator changes the resource, spoils it, or takes it away.  Two
\* changes within a second have the same modification time.
Edit ==
    /\ edits < MaxEdits
    /\ edits' = edits + 1
    /\ \E doc \in {edits + 2, Bad, Gone}, mtime \in {file.mtime, edits + 2} :
          file' = [doc |-> doc, mtime |-> mtime]
    /\ UNCHANGED <<local, filestamp, config, shutdown, writing, rpc, tpc, seen, owner>>

Loaded == IF file.doc \in Good THEN file.doc ELSE config
-----------------------------------------------------------------------------
(***************************************************************************)
(* The owner.  Whether it or the constructor calls startup() first or      *)
(* loads first is up to the subclass.                                      *)
(***************************************************************************)
Startup ==
    /\ owner \in {"loading", "running"}
    /\ tpc = "off"
    /\ tpc' = "check"
    /\ UNCHANGED <<local, file, edits, filestamp, config, shutdown, writing, rpc, seen, owner>>

\* The subclass loads for the first time.
FirstLoad ==
    /\ owner = "loading"
    /\ LockFree
    /\ file.doc \in Good
    /\ config' = file.doc
    /\ owner' = "running"
    /\ UNCHANGED <<local, file, edits, filestamp, shutdown, writing, rpc, tpc, seen>>

\* shutdown(), called by a destructor: when no reader is left, or when the
\* first load has failed.  Without a thread there is nothing to do ...
Flag ==
    /\ \/ owner = "running"
       \/ owner = "loading" /\ file.doc \notin Good
    /\ \A r \in Reader : rpc[r] = "out"
    /\ shutdown' = (tpc # "off")
    /\ owner' = IF tpc = "off" THEN "joined" ELSE "flagged"
    /\ UNCHANGED <<local, file, edits, filestamp, config, writing, rpc, tpc, seen>>

\* A signal is lost unless the thread waits.
Signalled == IF tpc = "wait" THEN "woken" ELSE tpc

\* ... m_reload_wait->signal(), not under the mutex of the thread ...
SignalShutdown ==
    /\ owner = "flagged"
    /\ owner' = "joining"
    /\ tpc' = Signalled
    /\ UNCHANGED <<local, file, edits, filestamp, config, shutdown, writing, rpc, seen>>

\* ... m_reload_thread->join().
Join ==
    /\ owner = "joining"
    /\ tpc = "done"
    /\ owner' = "joined"
    /\ UNCHANGED <<local, file, edits, filestamp, config, shutdown, writing, rpc, tpc, seen>>
-----------------------------------------------------------------------------
(***************************************************************************)
(* A reader: lock() and unlock().                                          *)
(***************************************************************************)
Step(r, from, to) == rpc[r] = from /\ rpc' = [rpc EXCEPT ![r] = to]

Lock(r) ==
    /\ owner = "running"
    /\ Step(r, "out", "want")
    /\ UNCHANGED <<local, file, edits, filestamp, config, shutdown, writing, tpc, seen, owner>>

RdLock(r) ==
    /\ ~writing
    /\ Step(r, "want", IF local THEN "locked" ELSE "in")
    /\ UNCHANGED <<local, file, edits, filestamp, config, shutdown, writing, tpc, seen, owner>>

\* stat() fails, or the file has not changed, or there is no thread to signal.
NothingNew(r) ==
    /\ file.doc = Gone \/ filestamp >= file.mtime \/ tpc = "off"
    /\ Step(r, "locked", "in")
    /\ UNCHANGED <<local, file, edits, filestamp, config, shutdown, writing, tpc, seen, owner>>

ChangeDetected(r) ==
    /\ file.doc # Gone
    /\ filestamp < file.mtime
    /\ tpc # "off"
    /\ Step(r, "locked", "signal")
    /\ UNCHANGED <<local, file, edits, filestamp, config, shutdown, writing, tpc, seen, owner>>

SignalReload(r) ==
    /\ Step(r, "signal", "in")
    /\ tpc' = Signalled
    /\ UNCHANGED <<local, file, edits, filestamp, config, shutdown, writing, seen, owner>>

Unlock(r) ==
    /\ Step(r, "in", "out")
    /\ UNCHANGED <<local, file, edits, filestamp, config, shutdown, writing, tpc, seen, owner>>
-----------------------------------------------------------------------------
(***************************************************************************)
(* The reload thread: reload_fn().                                         *)
(***************************************************************************)
Goto(from, to) == tpc = from /\ tpc' = to

\* while (!m_shutdown)
CheckShutdown ==
    /\ Goto("check", IF shutdown THEN "done" ELSE "running")
    /\ UNCHANGED <<local, file, edits, filestamp, config, shutdown, writing, rpc, seen, owner>>

\* wait() or timedwait().  The mutex of the thread is its own: nobody who
\* signals holds it, and a signal may come between the test and the wait.
Wait ==
    /\ Goto("running", "wait")
    /\ UNCHANGED <<local, file, edits, filestamp, config, shutdown, writing, rpc, seen, owner>>

\* Mutant: a remote resource waits without a timeout.
TimeoutNever == FALSE /\ tpc' = tpc /\ UNCHANGED vars

\* timedwait() returns after the reload interval; wait() does not.
Timeout ==
    /\ ~local
    /\ Goto("wait", "woken")
    /\ UNCHANGED <<local, file, edits, filestamp, config, shutdown, writing, rpc, seen, owner>>

\* pthread_cond_wait() may return without a signal.
SpuriousWakeup ==
    /\ Goto("wait", "woken")
    /\ UNCHANGED <<local, file, edits, filestamp, config, shutdown, writing, rpc, seen, owner>>

\* Mutant: a file that cannot be accessed ends the thread.
WokenGivesUp ==
    /\ seen' = IF local /\ file.doc # Gone THEN file.mtime ELSE seen
    /\ Goto("woken", IF shutdown \/ (local /\ file.doc = Gone) THEN "done"
                     ELSE IF ~local THEN "load"
                     ELSE IF filestamp >= file.mtime THEN "check"
                     ELSE "changed")
    /\ UNCHANGED <<local, file, edits, filestamp, config, shutdown, writing, rpc, owner>>

\* After the wait: m_shutdown, then stat() and the comparison.
Woken ==
    /\ seen' = IF local /\ file.doc # Gone THEN file.mtime ELSE seen
    /\ Goto("woken", IF shutdown THEN "done"
                     ELSE IF ~local THEN "load"
                     ELSE IF file.doc = Gone \/ filestamp >= file.mtime THEN "check"
                     ELSE "changed")
    /\ UNCHANGED <<local, file, edits, filestamp, config, shutdown, writing, rpc, owner>>

\* The time is set under the write lock, before anything is loaded.
SetStamp ==
    /\ LockFree
    /\ Goto("changed", "load")
    /\ filestamp' = seen
    /\ UNCHANGED <<local, file, edits, config, shutdown, writing, rpc, seen, owner>>

\* Mutant: the write lock is not taken.
BeginLoadUnlocked ==
    /\ Goto("load", "loading")
    /\ writing' = TRUE
    /\ UNCHANGED <<local, file, edits, filestamp, config, shutdown, rpc, seen, owner>>

\* background_load()
BeginLoad ==
    /\ LockFree
    /\ Goto("load", "loading")
    /\ writing' = TRUE
    /\ UNCHANGED <<local, file, edits, filestamp, config, shutdown, rpc, seen, owner>>

\* Mutant: a failed load is tried again with the lock held.
FinishLoadRetrying ==
    /\ tpc = "loading"
    /\ \/ /\ file.doc \in Good
          /\ Goto("loading", "check")
          /\ config' = Loaded
          /\ writing' = FALSE
          /\ UNCHANGED <<local, file, edits, filestamp, shutdown, rpc, seen, owner>>
       \/ file.doc \notin Good /\ UNCHANGED vars

\* A failed load keeps the configuration; SharedLock releases the lock.
FinishLoad ==
    /\ Goto("loading", "check")
    /\ config' = Loaded
    /\ writing' = FALSE
    /\ UNCHANGED <<local, file, edits, filestamp, shutdown, rpc, seen, owner>>

\* A joined thread is gone, and so is the object.
Destroyed == owner = "joined" /\ UNCHANGED vars

Next ==
    \/ Edit
    \/ Startup \/ FirstLoad \/ Flag \/ SignalShutdown \/ Join
    \/ \E r \in Reader : \/ Lock(r) \/ RdLock(r) \/ NothingNew(r)
                         \/ ChangeDetected(r) \/ SignalReload(r) \/ Unlock(r)
    \/ CheckShutdown \/ Wait \/ Timeout \/ SpuriousWakeup \/ Woken
    \/ SetStamp \/ BeginLoad \/ FinishLoad
    \/ Destroyed

(***************************************************************************)
(* Every thread keeps running, and a reader that holds the lock lets go of *)
(* it.  Strong fairness of the locks: a reader or a writer that waits gets *)
(* the lock when it is free again and again.  Nobody has to edit, to lock, *)
(* to start or to shut down, and no wakeup is owed that was not signalled. *)
(***************************************************************************)
Fairness ==
    /\ \A r \in Reader : /\ SF_vars(RdLock(r)) /\ WF_vars(SignalReload(r))
                         /\ WF_vars(NothingNew(r) \/ ChangeDetected(r))
                         /\ WF_vars(Unlock(r))
    /\ WF_vars(CheckShutdown) /\ WF_vars(Wait)
    /\ WF_vars(Timeout) /\ WF_vars(Woken)
    /\ SF_vars(SetStamp) /\ SF_vars(BeginLoad) /\ WF_vars(FinishLoad)
    /\ WF_vars(SignalShutdown) /\ WF_vars(Join)

Spec == Init /\ [][Next]_vars /\ Fairness
-----------------------------------------------------------------------------
(***************************************************************************)
(* The configuration a reader sees from lock() to unlock() is one and the  *)
(* same: background_load() replaces it under the write lock.               *)
(***************************************************************************)
ConfigStable == [][config' # config => Holders = {} /\ Holders' = {}]_vars

(***************************************************************************)
(* A change of the resource is picked up: once it changes no more and is   *)
(* usable, the configuration is its document from some time on -- if the   *)
(* object is not shut down, its thread runs, readers come again and again  *)
(* (they alone notice a changed file) and leave the lock free again and    *)
(* again.  A load that failed, a signal that was lost and a change in the  *)
(* middle of a reload must all be made up for.  Only a last change of a    *)
(* file that has the modification time of the one before it is lost.       *)
(***************************************************************************)
EventuallyCurrent ==
    /\ <>[](owner = "running" /\ tpc # "off" /\ file.doc \in Good)
    /\ []<>LockFree
    /\ local => <>[](file.mtime = edits + 1)
    /\ local => []<>(\E r \in Reader : rpc[r] = "locked")
    => <>[](config = file.doc)

(***************************************************************************)
(* A reader in lock() gets the lock, whatever the loads in between come    *)
(* to: no failure of load() leaves the write lock held.                    *)
(***************************************************************************)
ReaderServed == \A r \in Reader : rpc[r] = "want" ~> rpc[r] # "want"

(***************************************************************************)
(* shutdown() returns if the wait is timed, or if the thread was waiting   *)
(* when the flag was set: the wakeup comes after the flag (shutdown(),     *)
(* reload_fn()).                                                           *)
(***************************************************************************)
ShutdownNoticed ==
    owner = "flagged" /\ (local => tpc = "wait") ~> owner = "joined"

(***************************************************************************)
(* "Shuts down reload thread" (ReloadableXMLFile.h:175): shutdown() makes  *)
(* the thread end, and returns.                                            *)
(***************************************************************************)
ShutdownReturns == owner = "flagged" ~> owner = "joined"
=============================================================================
