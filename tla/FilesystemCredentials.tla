------------------------ MODULE FilesystemCredentials ------------------------
(***************************************************************************)
(* A FilesystemCredentialResolver                                          *)
(* (security/impl/FilesystemCredentialResolver.cpp): one credential built  *)
(* from a key, a certificate and a CRL, each in a file of its own or at a  *)
(* URL, which are rolled over while threads use the resolver.  lock()      *)
(* looks at each resource in turn, elevates its read lock at the first     *)
(* that is stale, loads it and every later one that is stale, and swaps    *)
(* the credential if the key and the certificate match.                    *)
(*                                                                         *)
(* A content of a resource is the generation of keys it belongs to and the *)
(* form it is encoded in.  The password and the names of keys, which do    *)
(* not change, are left out.                                               *)
(***************************************************************************)
EXTENDS Integers, Sequences

CONSTANTS Thread,
          Gen,         \* generations: a key matches the certificate of its own
          Form,        \* encodings: "PEM", "DER", "PKCS12"
          Spoilt,      \* a content that cannot be parsed
          Gone,        \* stat() fails, or the server does not answer
          None,
          Orders,      \* the resources a resolver may have been configured with
          First,       \* what they may contain at the start
          Later,       \* and after a change
          MaxEdits     \* bound: how often the resources change

Readable == [gen : Gen, form : Form]
Content == Readable \cup {Spoilt, Gone}
Resource == {"key", "cert", "crl"}

ASSUME CredentialAssumption ==
    /\ MaxEdits \in Nat
    /\ Form \subseteq {"PEM", "DER", "PKCS12"}
    /\ Orders \subseteq {<<"key", "cert", "crl">>, <<"key", "cert">>, <<"cert">>, <<"cert", "crl">>}
    /\ First \subseteq Readable /\ Later \subseteq Content
    /\ {Spoilt, Gone, None} \cap Readable = {}
    /\ Spoilt # Gone /\ Spoilt # None /\ Gone # None

VARIABLES order,       \* the configured resources, as lock() goes through them
          local,       \* they are files, or at URLs
          file,        \* what each contains, when it was changed, and its modification
                       \* time, which is that of an earlier change of the same second
          clock,       \* time of the last change
          loaded,      \* m_key.key, m_certs, m_crls
          format,      \* the form each is taken to have, "" if not known
          filestamp,   \* time of the change that was taken as loaded
          cacheTag,    \* of a remote resource, the content fetched last
          backing,     \* the file that content was written to
          credential,  \* m_credential: a copy of what was loaded
          pc, at,      \* where each thread is in lock(), and at which resource
          seen,        \* the time stale() saw, 0 if others have reloaded
          updated,     \* something has been loaded by this lock()
          attached     \* what attach() left in the SSL context made last

resources == <<order, local, file, clock>>
managed == <<loaded, format, filestamp, cacheTag, backing>>
threads == <<pc, at, seen, updated>>
vars == <<resources, managed, credential, threads, attached>>

Readers == {t \in Thread : pc[t] \in {"check", "in"}}
Writers == {t \in Thread : pc[t] \in {"write", "load"}}
WriteLockFree == Readers = {} /\ Writers = {}

Stamp == 0..MaxEdits + 1

\* With the types, that the write lock excludes everybody else.
TypeOK ==
    /\ order \in Orders
    /\ local \in BOOLEAN
    /\ file \in [Resource -> [content : Content, mtime : Stamp, edit : Stamp]]
    /\ clock \in Stamp
    /\ loaded \in [Resource -> Readable \cup {None}]
    /\ format \in [Resource -> Form \cup {""}]
    /\ filestamp \in [Resource -> Stamp]
    /\ cacheTag \in [Resource -> Content \cup {None}]
    /\ backing \in [Resource -> Content \cup {None}]
    /\ credential \in [Resource -> Readable \cup {None}]
    /\ pc \in [Thread -> {"out", "check", "elevate", "downgrade", "write", "load", "relock", "in"}]
    /\ at \in [Thread -> 1..4]
    /\ seen \in [Thread -> Stamp]
    /\ updated \in [Thread -> BOOLEAN]
    /\ attached \in [key : Readable \cup {None}, cert : Readable \cup {None}]
    /\ \A t \in Writers : Writers = {t} /\ Readers = {}
-----------------------------------------------------------------------------
(***************************************************************************)
(* Loading (security/impl/SecurityHelper.cpp).  Without a form to go by,   *)
(* the first byte of the file tells it; with one, the file is taken to     *)
(* have it.                                                                *)
(***************************************************************************)
guessEncodingFormat(c) == c.form

Parses(c, fmt, forms) == c \in Readable /\ c.form \in forms /\ fmt \in {"", c.form}

loadKey(c, fmt)  == Parses(c, fmt, {"PEM", "DER", "PKCS12"})
loadCert(c, fmt) == Parses(c, fmt, {"PEM", "DER", "PKCS12"})
loadCRL(c, fmt)  == Parses(c, fmt, {"PEM", "DER"})

Loads(r, c, fmt) ==
    CASE r = "key"  -> loadKey(c, fmt)
      [] r = "cert" -> loadCert(c, fmt)
      [] r = "crl"  -> loadCRL(c, fmt)

\* The format found at the first load is kept for every later one.
FormatOf(r, c) == IF format[r] = "" THEN guessEncodingFormat(c) ELSE format[r]

\* A fault: the key and the certificate are not compared.
MatchesAlways(objects) == TRUE

\* getCredential() throws unless the key is that of the certificate.
Matches(objects) ==
    objects["key"] # None /\ objects["cert"] # None
    => objects["key"].gen = objects["cert"].gen

Configured(o) == {o[i] : i \in DOMAIN o}

\* The constructor loads everything, or throws.  A file may have been written
\* in the very second the constructor runs.
Init ==
    /\ order \in Orders
    /\ local \in BOOLEAN
    /\ \E c \in First :
          /\ \A r \in Configured(order) : Loads(r, c, "")
          /\ LET of(r, yes, no) == IF r \in Configured(order) THEN yes ELSE no
             IN  /\ file = [r \in Resource |-> [content |-> of(r, c, Gone), mtime |-> 1,
                                                  edit |-> 1]]
                 /\ loaded = [r \in Resource |-> of(r, c, None)]
                 /\ format = [r \in Resource |-> of(r, guessEncodingFormat(c), "")]
                 /\ backing = [r \in Resource |-> IF local THEN None ELSE of(r, c, None)]
                 /\ cacheTag = backing
                 /\ credential = loaded
    /\ clock = 1
    /\ filestamp = [r \in Resource |-> 1]
    /\ pc = [t \in Thread |-> "out"]
    /\ at = [t \in Thread |-> 1]
    /\ seen = [t \in Thread |-> 0]
    /\ updated = [t \in Thread |-> FALSE]
    /\ attached = [key |-> None, cert |-> None]

\* A resource is rolled over, spoilt or taken away.  Two changes within a
\* second have the same time; of what is at a URL nobody looks at the time.
Edit(r) ==
    /\ clock <= MaxEdits
    /\ r \in Configured(order)
    /\ clock' = clock + 1
    /\ \E c \in Later, mtime \in {file[r].mtime, clock + 1} :
          file' = [file EXCEPT ![r] = IF local THEN [content |-> c, mtime |-> mtime, edit |-> clock + 1]
                                      ELSE [@ EXCEPT !.content = c]]
    /\ UNCHANGED <<order, local, managed, credential, threads, attached>>
-----------------------------------------------------------------------------
(***************************************************************************)
(* lock()                                                                  *)
(***************************************************************************)
Step(t, from, to) == pc[t] = from /\ pc' = [pc EXCEPT ![t] = to]

Begin(t) ==
    /\ Writers = {}
    /\ Step(t, "out", "check")
    /\ at' = [at EXCEPT ![t] = 1]
    /\ updated' = [updated EXCEPT ![t] = FALSE]
    /\ UNCHANGED <<resources, managed, credential, seen, attached>>

More(t) == at[t] <= Len(order)
Res(t) == order[at[t]]
Passes(t) == at' = [at EXCEPT ![t] = at[t] + 1]

\* stale(): a file has a newer time than the one that was loaded.  The interval
\* of a remote resource may have elapsed or not, whenever it is asked.
NewerFile(r) == file[r].content # Gone /\ filestamp[r] < file[r].mtime

NotStale(t) ==
    /\ pc[t] \in {"check", "write"} /\ More(t)
    /\ local => ~NewerFile(Res(t))
    /\ Passes(t)
    /\ UNCHANGED <<resources, managed, credential, pc, seen, updated, attached>>

Sees(t) == IF local THEN file[Res(t)].mtime ELSE 1

\* A fault: the lock is not elevated.
StaleUnelevated(t) ==
    /\ Step(t, "check", "load") /\ More(t)
    /\ local => NewerFile(Res(t))
    /\ filestamp' = [filestamp EXCEPT ![Res(t)] = IF local THEN file[Res(t)].mtime ELSE @]
    /\ UNCHANGED <<resources, loaded, format, cacheTag, backing, credential, at, seen, updated,
                   attached>>

\* The read lock is given up for the write lock.
Stale(t) ==
    /\ Step(t, "check", "elevate") /\ More(t)
    /\ local => NewerFile(Res(t))
    /\ seen' = [seen EXCEPT ![t] = Sees(t)]
    /\ UNCHANGED <<resources, managed, credential, at, updated, attached>>

\* Another thread handled it: its time is stored, or the interval restarted.
Handled(t) ==
    /\ WriteLockFree
    /\ Step(t, "elevate", "downgrade")
    /\ IF local THEN filestamp[Res(t)] >= seen[t] ELSE seen[t] = 0
    /\ seen' = [seen EXCEPT ![t] = 0]
    /\ UNCHANGED <<resources, managed, credential, at, updated, attached>>

Downgraded(t) ==
    /\ Writers = {}
    /\ Step(t, "downgrade", "check")
    /\ Passes(t)
    /\ UNCHANGED <<resources, managed, credential, seen, updated, attached>>

\* The time is stored before anything is loaded: "No point in repeatedly trying."
Elevated(t) ==
    /\ WriteLockFree
    /\ Step(t, "elevate", "load")
    /\ IF local
       THEN /\ filestamp[Res(t)] < seen[t]
            /\ filestamp' = [filestamp EXCEPT ![Res(t)] = seen[t]]
            /\ seen' = [seen EXCEPT ![t] = 0]
       ELSE /\ seen[t] # 0
            /\ seen' = [u \in Thread |-> IF at[u] = at[t] THEN 0 ELSE seen[u]]
            /\ filestamp' = filestamp
    /\ UNCHANGED <<resources, loaded, format, cacheTag, backing, credential, at, updated, attached>>

\* "Once a stale check comes back true, further checks leave the lock alone."
StaleWhileWriting(t) ==
    /\ Step(t, "write", "load") /\ More(t)
    /\ IF local
       THEN /\ NewerFile(Res(t))
            /\ filestamp' = [filestamp EXCEPT ![Res(t)] = file[Res(t)].mtime]
            /\ seen' = seen
       ELSE /\ filestamp' = filestamp
            /\ seen' = [u \in Thread |-> IF at[u] = at[t] THEN 0 ELSE seen[u]]
    /\ UNCHANGED <<resources, loaded, format, cacheTag, backing, credential, at, updated, attached>>

\* A fault: what is loaded after the key is not counted as an update.
ReplacesKeyOnly(t, c) ==
    /\ Loads(Res(t), c, format[Res(t)])
    /\ loaded' = [loaded EXCEPT ![Res(t)] = c]
    /\ format' = [format EXCEPT ![Res(t)] = FormatOf(Res(t), c)]
    /\ updated' = [updated EXCEPT ![t] = Res(t) = "key"]

\* The new objects replace the old ones once they are all there.
Replaces(t, c) ==
    /\ Loads(Res(t), c, format[Res(t)])
    /\ loaded' = [loaded EXCEPT ![Res(t)] = c]
    /\ format' = [format EXCEPT ![Res(t)] = FormatOf(Res(t), c)]
    /\ updated' = [updated EXCEPT ![t] = TRUE]

\* "maintaining existing ..."
Maintains(t, c) ==
    /\ ~Loads(Res(t), c, format[Res(t)])
    /\ UNCHANGED <<loaded, format, updated>>

LoadsContent(t, c) == Replaces(t, c) \/ Maintains(t, c)

LoadFile(t) ==
    /\ local
    /\ Step(t, "load", "write") /\ Passes(t)
    /\ LoadsContent(t, file[Res(t)].content)
    /\ UNCHANGED <<resources, filestamp, cacheTag, backing, credential, seen, attached>>

\* An answer with a body and a tag, of which the tag is stored at once.
Answered(t) ==
    /\ ~local
    /\ Step(t, "load", "write") /\ Passes(t)
    /\ file[Res(t)].content \notin {Gone, cacheTag[Res(t)]}
    /\ cacheTag' = [cacheTag EXCEPT ![Res(t)] = file[Res(t)].content]
    /\ UNCHANGED <<resources, filestamp, credential, seen, attached>>

\* The body is written to the backing file and read from there.
Fetch(t) ==
    /\ Answered(t)
    /\ backing' = [backing EXCEPT ![Res(t)] = file[Res(t)].content]
    /\ LoadsContent(t, backing'[Res(t)])

\* The backing file cannot be opened, or the disk is full; nothing looks at out's
\* state, and what is in the file is read.
FetchUnwritten(t) ==
    /\ Answered(t)
    /\ backing' \in {backing, [backing EXCEPT ![Res(t)] = Spoilt]}
    /\ LoadsContent(t, backing'[Res(t)])

\* The server answers that nothing has changed, or send() throws.
NotFetched(t) ==
    /\ ~local
    /\ Step(t, "load", "write") /\ Passes(t)
    /\ UNCHANGED <<resources, managed, credential, seen, updated, attached>>

\* The credential is swapped under the write lock, which is then given up for
\* the read lock.
Swap(t) ==
    /\ Step(t, "write", "relock") /\ ~More(t)
    /\ credential' = IF updated[t] /\ Matches(loaded) THEN loaded ELSE credential
    /\ UNCHANGED <<resources, managed, at, seen, updated, attached>>

Relock(t) ==
    /\ Writers = {}
    /\ Step(t, "relock", "in")
    /\ UNCHANGED <<resources, managed, credential, at, seen, updated, attached>>

Stable(t) ==
    /\ Step(t, "check", "in") /\ ~More(t)
    /\ UNCHANGED <<resources, managed, credential, at, seen, updated, attached>>

\* attach() reads the key from its file again, and takes the certificate of the
\* credential.
Attach(t) ==
    /\ pc[t] = "in" /\ "key" \in Configured(order)
    /\ LET c == IF local THEN file["key"].content ELSE backing["key"]
       IN  /\ loadKey(c, format["key"])
           /\ attached' = [key |-> c, cert |-> credential["cert"]]
    /\ UNCHANGED <<resources, managed, credential, threads>>

Unlock(t) ==
    /\ Step(t, "in", "out")
    /\ attached' = [key |-> None, cert |-> None]
    /\ UNCHANGED <<resources, managed, credential, at, seen, updated>>

Advance(t) ==
    \/ NotStale(t) \/ Stale(t) \/ Handled(t) \/ Downgraded(t) \/ Elevated(t)
    \/ StaleWhileWriting(t) \/ LoadFile(t) \/ Fetch(t) \/ FetchUnwritten(t) \/ NotFetched(t)
    \/ Swap(t) \/ Relock(t) \/ Stable(t) \/ Unlock(t)

Next ==
    \/ \E r \in Resource : Edit(r)
    \/ \E t \in Thread : Begin(t) \/ Advance(t) \/ Attach(t)

Spec == Init /\ [][Next]_vars

(***************************************************************************)
(* A thread that has begun runs on and gets a lock that is free again and  *)
(* again; the resolver is locked for ever.  The interval of each remote    *)
(* resource elapses now and then, and its server, asked again and again,   *)
(* answers.                                                                *)
(***************************************************************************)
Fairness ==
    /\ \A t \in Thread : SF_vars(Advance(t))
    /\ SF_vars(\E t \in Thread : Begin(t))
    /\ \A i \in UNION {DOMAIN o : o \in Orders} :
          /\ SF_vars(~local /\ \E t \in Thread : at[t] = i /\ (Stale(t) \/ StaleWhileWriting(t)))
          /\ SF_vars(\E t \in Thread : at[t] = i /\ Fetch(t))

FairSpec == Spec /\ Fairness
-----------------------------------------------------------------------------
(***************************************************************************)
(* Properties                                                              *)
(***************************************************************************)
\* "First, verify that the key and certificate match" (getCredential): however
\* a roll-over of the two files, in two steps, falls between the steps of
\* lock(), and whichever of the loads fail, no thread is given a credential
\* whose key is not that of its certificate.
MatchedCredential ==
    credential["key"] # None /\ credential["cert"] # None
    => credential["key"].gen = credential["cert"].gen

\* The pointer that resolve() returns stays good until unlock(): while anybody
\* is between the two, no other thread's lock() replaces the credential.
CredentialStable == [][(\E t \in Thread : pc[t] = "in") => credential' = credential]_vars

\* Once the files have come to rest, each with a time of its own, in the formats
\* they had at the start, the credential comes to be what they contain: failed
\* loads, and a mismatch met on the way, are made up for.  Not so a backing file
\* that was not written: the server answers its tag with 304 from then on.
AtRest ==
    /\ \A r \in Configured(order) :
          /\ Loads(r, file[r].content, format[r])
          /\ IF local THEN file[r].mtime = file[r].edit ELSE backing[r] = cacheTag[r]
    /\ Matches([r \in Resource |-> IF r \in Configured(order) THEN file[r].content ELSE None])

EventuallyCurrent ==
    <>[]AtRest /\ []<>WriteLockFree
    => <>[](\A r \in Configured(order) : credential[r] = file[r].content)

\* What attach() leaves in an SSL context is one credential.
AttachMatches ==
    attached.key # None /\ attached.cert # None => attached.key.gen = attached.cert.gen
=============================================================================
