---------------------------- MODULE ReplayCache ----------------------------
(***************************************************************************)
(* util/ReplayCache.cpp: threads that check() values, over the records of  *)
(* a MemoryStorageService.  check() is two calls of the service, and other *)
(* threads come in between.                                                *)
(*                                                                         *)
(* A value is stored under itself or its hash, a Key here; the time it     *)
(* expires belongs to the message it comes from.                           *)
(***************************************************************************)
EXTENDS MemoryStorageService

CONSTANT Replays      \* the context label

ASSUME ReplayAssumption == Replays \in Context

VARIABLES expires,   \* when each value expires
          pc,        \* where each thread is in check()
          arg,       \* the value it checks
          promised,  \* history: until when a true result has reserved a value
          begun      \* history: promised[arg] when the check began

own == <<expires, pc, arg, promised, begun>>
replayVars == <<vars, own>>

ReplayTypeOK ==
    /\ expires \in [Key -> Time]
    /\ pc \in [Caller -> {"idle", "read", "upgrade", "create", "true", "false"}]
    /\ arg \in [Caller -> Key]
    /\ promised \in [Key -> Time]
    /\ begun \in [Caller -> Time]

ReplayInit ==
    /\ Init
    /\ expires \in [Key -> Time]
    /\ arg \in [Caller -> Key]
    /\ pc = [t \in Caller |-> "idle"]
    /\ promised = [k \in Key |-> 0]
    /\ begun = [t \in Caller |-> 0]
-----------------------------------------------------------------------------
At(t, from, to) == pc[t] = from /\ pc' = [pc EXCEPT ![t] = to]

\* check() is called with a value.
Check(t, k) ==
    /\ pc[t] \in {"idle", "true", "false"}
    /\ pc' = [pc EXCEPT ![t] = "read"]
    /\ arg' = [arg EXCEPT ![t] = k]
    /\ begun' = [begun EXCEPT ![t] = promised[k]]
    /\ UNCHANGED <<vars, expires, promised>>

\* "In storage already?"
Found == ret'.record.version # 0

ReadStored(t) ==
    /\ ReadString(Replays, arg[t], 0)
    /\ At(t, "read", IF Found THEN "false" ELSE "create")
    /\ UNCHANGED <<expires, arg, promised, begun>>

ReadMiss(t) ==
    /\ ReadContextMiss(t, Replays, arg[t], 0)
    /\ At(t, "read", "upgrade")
    /\ UNCHANGED <<expires, arg, promised, begun>>

ReadUpgraded(t) ==
    /\ ReadStringUpgraded(t, Replays, arg[t], 0)
    /\ At(t, "upgrade", IF Found THEN "false" ELSE "create")
    /\ UNCHANGED <<expires, arg, promised, begun>>

\* Whether createString() found a duplicate is not looked at.
Store(t) ==
    /\ \E data \in Data : CreateString(Replays, arg[t], data, expires[arg[t]])
    /\ At(t, "create", "true")
    /\ promised' = [promised EXCEPT ![arg[t]] = expires[arg[t]]]
    /\ UNCHANGED <<expires, arg, begun>>

ReplayNext ==
    \/ \E t \in Caller : \/ \E k \in Key : Check(t, k)
                         \/ ReadStored(t) \/ ReadMiss(t) \/ ReadUpgraded(t) \/ Store(t)
    \/ (Tick \/ Reap(Replays) \/ Cleanup) /\ UNCHANGED own

ReplaySpec == ReplayInit /\ [][ReplayNext]_replayVars
-----------------------------------------------------------------------------
(***************************************************************************)
(* As long as a true result reserves a value, its record is there and      *)
(* alive: nothing that is done for the room of expired records takes it.   *)
(***************************************************************************)
PromiseKept == \A k \in Key : now < promised[k] => FindAlive(Replays, k)

Returns(t, answer) == pc[t] # answer /\ pc'[t] = answer

(***************************************************************************)
(* A check that begins after another one has returned true does not return *)
(* true for the same value before the value expires, whatever is reaped    *)
(* and cleaned up in between.                                              *)
(***************************************************************************)
NoReplayAfter == [][\A t \in Caller : Returns(t, "true") => begun[t] <= now]_replayVars

(***************************************************************************)
(* A value is turned down only because it was accepted and has not expired *)
(* ("true iff the check value is not found", ReplayCache.h:58).            *)
(***************************************************************************)
NoFalseAlarm == [][\A t \in Caller : Returns(t, "false") => now < promised[arg[t]]]_replayVars

(***************************************************************************)
(* "Returns true iff the check value is not found in the cache, and stores *)
(* it" (ReplayCache.h:58): of two checks of one value, at once or not,     *)
(* one returns true until the value expires.                               *)
(***************************************************************************)
AcceptedOnce ==
    [][\A t \in Caller : Returns(t, "true") => promised[arg[t]] <= now]_replayVars
=============================================================================
