-------------------------- MODULE XMLToolingConfig ---------------------------
(***************************************************************************)
(* XMLToolingInternalConfig: the library is brought up by the first init() *)
(* and taken down by the term() that matches it, while threads parse with  *)
(* its ParserPool and send with its CURLPool.                              *)
(*                                                                         *)
(* Each of init() and term() is one step under m_lock; load_library()      *)
(* holds the lock while the extension's own code runs.  Threads keep to    *)
(* the interface: they use the library between an init() that succeeded    *)
(* and the term() that goes with it.  RuntimeCalls names what they might   *)
(* do besides.                                                             *)
(***************************************************************************)
EXTENDS CURLTransport

CONSTANTS Library,
          IntMax,       \* INT_MAX
          MaxInits,     \* calls of init()
          RuntimeCalls

HazardousRuntimeCalls == {"lateFailure", "reentrant"}

ASSUME RuntimeAssumption ==
    /\ IntMax \in Nat \ {0} /\ MaxInits \in Nat
    /\ RuntimeCalls \subseteq HazardousRuntimeCalls

VARIABLES count,  \* m_initCount
          lock,   \* the thread inside load_library(), which has m_lock
          up,     \* how often each part is up
          libs,   \* m_libhandles
          inits,  \* the init() calls of each thread that its term() must match
          tries   \* calls of init() so far

configVars == <<count, lock, up, libs, inits, tries>>
runtimeVars == <<poolVars, transportVars, configVars>>

\* What init() sets up, in order.
Parts == <<"curl", "xerces", "xsec", "parsers", "paths", "builders", "validators", "plugins",
           "transports", "schemes", "openssl">>

\* Parts that a second registration replaces: the pools and resolvers are reset,
\* a builder is deleted before the new one is kept, a factory is overwritten.
Replaced == {"parsers", "paths", "builders", "plugins"}

\* Setting up part p once more.
Added(p) == IF p \in Replaced THEN 1 ELSE up[p] + 1

\* What term() leaves: the schemes of HTTPResponse are never taken back.
Lasting == {"schemes"}

ConfigTypeOK ==
    /\ count \in 0..IntMax
    /\ lock \in Thread \cup {Null}
    /\ up \in [ToSet(Parts) -> Nat]
    /\ libs \in Seq(Library)
    /\ inits \in [Thread -> Nat]
    /\ tries \in 0..MaxInits

TypeOK == PoolTypeOK /\ TransportTypeOK /\ ConfigTypeOK

Init ==
    /\ PoolInit
    /\ TransportInit
    /\ count = 0
    /\ lock = Null
    /\ up = [p \in ToSet(Parts) |-> 0]
    /\ libs = <<>>
    /\ inits = [t \in Thread |-> 0]
    /\ tries = 0

\* Thread t is in no call of the library and holds no object of it.
AtRest(t) == ~Busy(t) /\ writer # t /\ client[t].state = "none" /\ evicting # t /\ lock # t

Tries == lock = Null /\ tries < MaxInits /\ tries' = tries + 1
Others == UNCHANGED <<poolVars, transportVars, lock, libs>>
-----------------------------------------------------------------------------
\* init() of a library that is up, or has been called too often.
InitCounted(t) ==
    /\ AtRest(t) /\ Tries
    /\ count > 0
    /\ IF count = IntMax THEN UNCHANGED <<count, inits>>
       ELSE count' = count + 1 /\ inits' = [inits EXCEPT ![t] = @ + 1]
    /\ UNCHANGED up /\ Others

\* init() that brings the library up.
InitFirst(t) ==
    /\ AtRest(t) /\ Tries
    /\ count = 0
    /\ up' = [p \in ToSet(Parts) |-> Added(p)]
    /\ count' = 1
    /\ inits' = [inits EXCEPT ![t] = @ + 1]
    /\ Others

\* Mutant: libcurl is left up.
FailedUncleaned(n) == [p \in ToSet(Parts) |->
    IF \E i \in 1..n : Parts[i] = p THEN Added(p) ELSE up[p]]

\* An XMLException after n parts: libcurl is cleaned up, and nothing else.
Failed(n) == [p \in ToSet(Parts) |->
    IF p = "curl" THEN up[p] ELSE IF \E i \in 1..n : Parts[i] = p THEN Added(p) ELSE up[p]]

\* init() that fails: in curl_global_init(), in XMLPlatformUtils::Initialize(),
\* or with an exception of Xerces later on.
InitFails(t) ==
    /\ AtRest(t) /\ Tries
    /\ count = 0
    /\ \/ UNCHANGED up
       \/ up' = Failed(1)
       \/ "lateFailure" \in RuntimeCalls /\ \E n \in 2..Len(Parts) - 1 : up' = Failed(n)
    /\ UNCHANGED <<count, inits>> /\ Others

\* Whether this term() takes the library down.
Down(t) == count' = count - 1 /\ count = 1

\* term() that is not the last.
TermCounted(t) ==
    /\ AtRest(t) /\ lock = Null
    /\ inits[t] > 0
    /\ count' = count - 1 /\ count > 1
    /\ inits' = [inits EXCEPT ![t] = @ - 1]
    /\ UNCHANGED <<poolVars, transportVars, lock, up, libs, tries>>

\* term() that takes the library down; the extensions end last one first.
TermLast(t) ==
    /\ AtRest(t) /\ lock = Null
    /\ inits[t] > 0
    /\ Down(t)
    /\ inits' = [inits EXCEPT ![t] = @ - 1]
    /\ up' = [p \in ToSet(Parts) |->
                 IF p \in Lasting THEN up[p]
                 ELSE IF p \in {"curl", "xerces", "xsec"} THEN up[p] - 1 ELSE 0]
    /\ libs' = <<>>
    /\ Destroyed
    /\ Drained
    /\ UNCHANGED <<lock, tries>>

\* load_library() up to the extension's xmltooling_extension_init().
Loads(t) ==
    /\ AtRest(t) /\ lock = Null /\ inits[t] > 0
    /\ Len(libs) < Cardinality(Library)
    /\ lock' = t
    /\ UNCHANGED <<poolVars, transportVars, count, up, libs, inits, tries>>

\* It returns, with 0 or not, or throws; an extension that asks for the lock of
\* the library, by getNamedMutex() or load_library(), never does.
Loaded(t) ==
    /\ lock = t
    /\ \/ UNCHANGED libs
       \/ \E l \in Library \ ToSet(libs) : libs' = Append(libs, l)
    /\ lock' = Null
    /\ UNCHANGED <<poolVars, transportVars, count, up, inits, tries>>

\* A thread parses a document of its own, or the answer to what it sent
\* (SOAPClient::receive()).
UsesParser(t) ==
    /\ inits[t] > 0 /\ lock # t
    /\ client[t].state \in {"none", "sent"} /\ evicting # t
    /\ ParseStep(t)
    /\ UNCHANGED <<transportVars, configVars>>

RegistersSchema(t) ==
    /\ inits[t] > 0 /\ (writer = t \/ AtRest(t))
    /\ RegisterStep(t)
    /\ UNCHANGED <<transportVars, configVars>>

UsesTransport(t) ==
    /\ inits[t] > 0 /\ ~Busy(t) /\ writer # t /\ lock # t /\ evicting # t
    /\ SendStep(t)
    /\ UNCHANGED <<poolVars, configVars>>

MakesRoom(t) == PutStep(t) /\ UNCHANGED <<poolVars, configVars>>

Next ==
    \E t \in Thread :
        \/ InitCounted(t) \/ InitFirst(t) \/ InitFails(t)
        \/ TermCounted(t) \/ TermLast(t)
        \/ Loads(t) \/ Loaded(t)
        \/ UsesParser(t) \/ RegistersSchema(t)
        \/ UsesTransport(t) \/ MakesRoom(t)

\* A thread inside put() runs on, and an extension that may end its
\* initialisation does, unless it waits for the lock its caller holds.
Fairness ==
    \A t \in Thread :
        /\ WF_runtimeVars(MakesRoom(t))
        /\ "reentrant" \notin RuntimeCalls => WF_runtimeVars(Loaded(t))

Spec == Init /\ [][Next]_runtimeVars /\ Fairness
-----------------------------------------------------------------------------
(***************************************************************************)
(* Between calls of init() and term() the library is either up, every part *)
(* of it once, or down with nothing left: no part, no extension, no parser *)
(* and no connection handle.  While a thread uses a parser or a transport, *)
(* or loads an extension, it is up.                                        *)
(***************************************************************************)
WholeOrGone ==
    /\ \A p \in ToSet(Parts) \ Lasting : up[p] = (IF count > 0 THEN 1 ELSE 0)
    /\ count = 0 =>
          /\ libs = <<>>
          /\ \A x \in Parser : owner[x] \in {"unmade", "deleted"}
          /\ \A h \in Handle : handle[h].made => handle[h].freed
          /\ \A t \in Thread : AtRest(t)

(***************************************************************************)
(* The lock of the library and the lock of the pool are let go: an         *)
(* extension is loaded or refused, and room is made in the pool.           *)
(***************************************************************************)
LocksReturned ==
    /\ lock # Null ~> lock = Null
    /\ RoomMade
=============================================================================
