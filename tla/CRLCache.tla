------------------------------- MODULE CRLCache -------------------------------
(***************************************************************************)
(* The cache of CRLs that PKIXPathValidator::getRemoteCRLs() keeps for a   *)
(* distribution point (security/impl/PKIXPathValidator.cpp): a file, a     *)
(* staging file beside it, and the time of the last attempt in a map that  *)
(* all validators of the process share, with a mutex that a thread takes   *)
(* four times in a call and does not hold while it downloads.              *)
(*                                                                         *)
(* A CRL is the time it was issued and that of the next update.            *)
(***************************************************************************)
EXTENDS Integers, Sequences

CONSTANTS Caller,       \* threads
          Issued,       \* CRLs the distribution point may serve
          Unusable,     \* a content that cannot be parsed
          Absent,       \* no file, no answer, no CRL
          Delay,        \* minRefreshDelay
          SecondsLeft, PercentLeft,  \* minSecondsRemaining, minPercentRemaining
          LastTime,     \* bound: the clock stops there
          MaxPublished, \* bound: how often the distribution point changes
          MaxCrashes    \* bound: how often the process is restarted

ASSUME CRLAssumption ==
    /\ Issued \subseteq {c \in [from : Nat, next : Nat] : c.from < c.next}
    /\ {Delay, SecondsLeft, PercentLeft, LastTime, MaxPublished, MaxCrashes} \subseteq Nat
    /\ Unusable # Absent /\ {Unusable, Absent} \cap Issued = {}
    /\ Absent \notin Caller

VARIABLES served,       \* at the distribution point
          time, published, crashes,
          cdpfile, cdpstaging,
          attempt,      \* m_crlUpdateMap[cdpuri], 0 if it is not there
          lock,         \* who holds m_lock over more than one step
          step,         \* where each caller is
          now, crls, msg    \* its local variables; it answers with the first of crls

files == <<cdpfile, cdpstaging>>
world == <<served, time, published, crashes>>
locals == <<now, crls, msg>>
crlVars == <<world, files, attempt, lock, step, locals>>
-----------------------------------------------------------------------------
\* X509_cmp_time() takes the very second for past.
Expired(crl, t) == crl.next <= t

isFreshCRL(crl) ==
    /\ time + SecondsLeft < crl.next
    /\ (crl.next - time) * 100 > PercentLeft * (crl.next - crl.from)

CRLInit ==
    /\ served \in Issued \cup {Absent}
    /\ time = Delay + 1 /\ published = 0 /\ crashes = 0
    /\ cdpfile = Absent /\ cdpstaging = Absent
    /\ attempt = 0
    /\ lock = Absent
    /\ step = [t \in Caller |-> "idle"]
    /\ now = [t \in Caller |-> 0]
    /\ crls = [t \in Caller |-> <<>>]
    /\ msg = [t \in Caller |-> Absent]

Goto(t, s) == step' = [step EXCEPT ![t] = s]

Call(t) ==
    /\ step[t] = "idle"
    /\ now' = [now EXCEPT ![t] = time]
    /\ Goto(t, "cached")
    /\ UNCHANGED <<world, files, attempt, lock, crls, msg>>

\* What is cached is used unless it has expired.
ReadCached(t) ==
    /\ step[t] = "cached" /\ lock = Absent
    /\ IF cdpfile \in Issued /\ Expired(cdpfile, now[t])
       THEN cdpfile' = Absent /\ attempt' = 0 /\ UNCHANGED crls
       ELSE /\ crls' = [crls EXCEPT ![t] = IF cdpfile \in Issued THEN <<cdpfile>> ELSE <<>>]
            /\ UNCHANGED <<cdpfile, attempt>>
    /\ Goto(t, "fresh")
    /\ UNCHANGED <<world, cdpstaging, lock, now, msg>>

\* A CRL that is fresh will do.
Served(t) ==
    /\ step[t] = "fresh" /\ crls[t] # <<>> /\ isFreshCRL(Head(crls[t]))
    /\ Goto(t, "answer")
    /\ UNCHANGED <<world, files, attempt, lock, locals>>

\* A fault: an attempt that is put off counts as one.
DueRenewed(t) ==
    /\ step[t] = "fresh" /\ ~(crls[t] # <<>> /\ isFreshCRL(Head(crls[t])))
    /\ lock = Absent
    /\ Goto(t, IF now[t] - attempt > Delay THEN "fetch" ELSE "note")
    /\ UNCHANGED <<world, files, attempt, lock, locals>>

\* Not more than one attempt in the time given, "to limit the rate of
\* unsuccessful attempts".
Due(t) ==
    /\ step[t] = "fresh" /\ ~(crls[t] # <<>> /\ isFreshCRL(Head(crls[t])))
    /\ lock = Absent
    /\ Goto(t, IF now[t] - attempt > Delay THEN "fetch" ELSE "answer")
    /\ UNCHANGED <<world, files, attempt, lock, locals>>

\* send() and receive() throw if there is no answer.
Download(t) ==
    /\ step[t] = "fetch"
    /\ msg' = [msg EXCEPT ![t] = served]
    /\ Goto(t, IF served = Absent THEN "note" ELSE "stage")
    /\ UNCHANGED <<world, files, attempt, lock, now, crls>>

\* A fault: the download goes straight to the file that is used.
StageInPlace(t) ==
    /\ step[t] = "stage" /\ lock = Absent
    /\ lock' = t
    /\ cdpfile' = Unusable
    /\ Goto(t, "write")
    /\ UNCHANGED <<world, cdpstaging, attempt, locals>>

\* The file is emptied, and then written.
Stage(t) ==
    /\ step[t] = "stage" /\ lock = Absent
    /\ lock' = t
    /\ cdpstaging' = Unusable
    /\ Goto(t, "write")
    /\ UNCHANGED <<world, cdpfile, attempt, locals>>

\* The CRLs are appended to those there are, or none is there and the loading
\* throws; the first of them all decides what becomes of the file.
Loaded(t) == Append(crls[t], msg[t])

\* A fault: what was downloaded is not looked at.
UsableAnyway(t) == TRUE

Usable(t) == ~Expired(Head(Loaded(t)), now[t])

Load(t) ==
    /\ step[t] = "write"
    /\ IF msg[t] = Unusable
       THEN /\ Goto(t, "note") /\ lock' = Absent
            /\ cdpstaging' = Unusable
            /\ UNCHANGED <<cdpfile, crls>>
       ELSE IF Usable(t)
            THEN /\ Goto(t, "commit")
                 /\ crls' = [crls EXCEPT ![t] = Loaded(t)]
                 /\ cdpstaging' = msg[t]
                 /\ cdpfile' = Absent
                 /\ UNCHANGED lock
            ELSE /\ Goto(t, "note") /\ lock' = Absent
                 /\ crls' = [crls EXCEPT ![t] = <<>>]
                 /\ cdpstaging' = Absent
                 /\ UNCHANGED cdpfile
    /\ msg' = [msg EXCEPT ![t] = Absent]
    /\ UNCHANGED <<world, attempt, now>>

Commit(t) ==
    /\ step[t] = "commit"
    /\ cdpfile' = cdpstaging /\ cdpstaging' = Absent
    /\ lock' = Absent
    /\ Goto(t, "note")
    /\ UNCHANGED <<world, attempt, locals>>

Note(t) ==
    /\ step[t] = "note" /\ lock = Absent
    /\ attempt' = now[t]
    /\ Goto(t, "answer")
    /\ UNCHANGED <<world, files, lock, locals>>

Return(t) ==
    /\ step[t] = "answer"
    /\ now' = [now EXCEPT ![t] = 0]
    /\ crls' = [crls EXCEPT ![t] = <<>>]
    /\ Goto(t, "idle")
    /\ UNCHANGED <<world, files, attempt, lock, msg>>

Getting(t) ==
    \/ Call(t) \/ ReadCached(t) \/ Served(t) \/ Due(t) \/ Download(t)
    \/ Stage(t) \/ Load(t) \/ Commit(t) \/ Note(t) \/ Return(t)
-----------------------------------------------------------------------------
Elapse ==
    /\ time < LastTime /\ time' = time + 1
    /\ UNCHANGED <<served, published, crashes, files, attempt, lock, step, locals>>

Publish ==
    /\ published < MaxPublished /\ published' = published + 1
    /\ \E c \in Issued \cup {Unusable, Absent} : c # served /\ served' = c
    /\ UNCHANGED <<time, crashes, files, attempt, lock, step, locals>>

\* The process is killed and started again: the files are what they are.
Restart ==
    /\ crashes < MaxCrashes /\ crashes' = crashes + 1
    /\ attempt' = 0 /\ lock' = Absent
    /\ step' = [t \in Caller |-> "idle"]
    /\ now' = [t \in Caller |-> 0]
    /\ crls' = [t \in Caller |-> <<>>]
    /\ msg' = [t \in Caller |-> Absent]
    /\ UNCHANGED <<served, time, published, files>>

CRLNext == (\E t \in Caller : Getting(t)) \/ Elapse \/ Publish \/ Restart

\* Callers keep asking, their calls go on, and time passes.
CRLFairness == WF_crlVars(Elapse) /\ \A t \in Caller : WF_crlVars(Getting(t))

CRLSpec == CRLInit /\ [][CRLNext]_crlVars /\ CRLFairness
-----------------------------------------------------------------------------
\* The CRL that a call is answered with had not expired when the call began,
\* whoever has replaced the file since and whatever was downloaded: OpenSSL would
\* reject the certificate for it.
AnswerUnexpired ==
    \A t \in Caller :
      step[t] = "answer" /\ crls[t] # <<>> => ~Expired(Head(crls[t]), now[t])

\* What is cached is a whole CRL, also for the process that is started after a
\* crash in the middle of a download.
CacheWhole == cdpfile # Unusable

\* The cache is sound: for the callers of now, and for those after a crash.
CacheSound == AnswerUnexpired /\ CacheWhole

\* A distribution point that has a CRL which stays fresh is heard in the end,
\* however often there are attempts that fail or are put off: the cache holds a
\* CRL that is fresh.  The time that is left must do for an attempt.
Steady(c) ==
    /\ served = c
    /\ time + Delay + 1 < LastTime
    /\ c.next > LastTime + SecondsLeft
    /\ (c.next - LastTime) * 100 > PercentLeft * (c.next - c.from)

CRLRefreshed ==
    \A c \in Issued :
      Steady(c) ~> served # c \/ (cdpfile \in Issued /\ isFreshCRL(cdpfile))
=============================================================================
