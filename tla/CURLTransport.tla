---------------------------- MODULE CURLTransport ----------------------------
(***************************************************************************)
(* SOAPClient, CURLSOAPTransport and CURLPool: threads that send through   *)
(* connection handles, which a pool keeps for the next transport to the    *)
(* same address.                                                           *)
(*                                                                         *)
(* A handle carries CURLOPT_PRIVATE over to the next transport, which      *)
(* stands for the outcome of the last handshake.  libcurl is external: a   *)
(* call may fail, and makes a handshake or goes on with a session that the *)
(* handle has.                                                             *)
(*                                                                         *)
(* Calls names what the interface allows beyond what SOAPClient needs.     *)
(***************************************************************************)
EXTENDS ParserPool, FiniteSets

CONSTANTS Handle,
          Address,      \* records of from, to and endpoint, where from and to may be
                        \* Null, with what callers ask of trust at that address
          ConnPoolMax,  \* 256
          Calls

HazardousTransportCalls == {"resend", "mixed"}

ASSUME TransportAssumption ==
    /\ Null \notin Thread \cup Handle \cup BOOLEAN
    /\ ConnPoolMax \in Nat
    /\ Calls \subseteq HazardousTransportCalls

VARIABLES bound,    \* m_bindingMap: the free handles of each key
          order,    \* m_pools, as keys, the most recently used first
          size,     \* m_size
          handle,   \* what libcurl keeps of each handle
          client,   \* the SOAPClient of each thread, with its transport
          evicting  \* the thread that holds the pool's lock to make room

transportVars == <<bound, order, size, handle, client, evicting>>

\* What a caller asks for in prepareTransport(): no trust engine, one whose
\* verdict is noted, or one that must agree.
Trust == {"none", "optional", "mandatory"}
States == {"none", "prepared", "sent", "failed", "kill"}

NoClient == [state |-> "none", address |-> Null, handle |-> Null, trust |-> "none",
             keep |-> FALSE, authenticated |-> FALSE]

NewHandle == [made |-> FALSE, freed |-> FALSE, secure |-> FALSE, session |-> "none"]
Freed == [NewHandle EXCEPT !.made = TRUE, !.freed = TRUE]    \* curl_easy_cleanup()

Part(x) == IF x = Null THEN <<>> ELSE <<x>>

\* The key of CURLPool::get(): a name that is absent leaves no mark.
GetKey(a) == <<a.endpoint>> \o Part(a.from) \o Part(a.to)

\* The key of CURLPool::put(): the transport has made empty names of them.
PutKey(a) ==
    LET Name(x) == IF x = Null THEN "" ELSE x
    IN  <<a.endpoint, Name(a.from), Name(a.to)>>

Keys == {GetKey(a) : a \in Address} \cup {PutKey(a) : a \in Address}

\* Who uses the handles of a pool asks the same of trust.
ASSUME TrustAssumption ==
    \A a, b \in Address : PutKey(a) = GetKey(b) => a.trust = b.trust

TransportTypeOK ==
    /\ bound \in [Keys -> Seq(Handle)]
    /\ order \in Seq(Keys)
    /\ size \in 0..ConnPoolMax + 1
    /\ handle \in [Handle -> [made : BOOLEAN, freed : BOOLEAN, secure : BOOLEAN,
                              session : {"none", "unchecked", "untrusted", "trusted"}]]
    /\ client \in [Thread -> [state : States, address : Address \cup {Null},
                              handle : Handle \cup {Null}, trust : Trust,
                              keep : BOOLEAN, authenticated : BOOLEAN]]
    /\ evicting \in Thread \cup {Null}

TransportInit ==
    /\ bound = [k \in Keys |-> <<>>]
    /\ order = <<>>
    /\ size = 0
    /\ handle = [h \in Handle |-> NewHandle]
    /\ client = [t \in Thread |-> NoClient]
    /\ evicting = Null

\* The end of isConfidential(): the scheme of the endpoint.
Confidential(a) == a.endpoint = "https"
-----------------------------------------------------------------------------
\* m_pools.remove() and push_front(): a key is there once.
ToFront(k) ==
    <<k>> \o RemoveAt(order, CHOOSE i \in DOMAIN order : order[i] = k)

\* Mutant: the handle stays in the pool.
ReusesShared(t, a, h) ==
    LET k == GetKey(a)
    IN  /\ bound[k] # <<>>
        /\ h = Last(bound[k])
        /\ order' = ToFront(k)
        /\ UNCHANGED <<bound, size, handle>>

\* CURLPool::get() with a free handle: the pool of the key comes to the front.
Reuses(t, a, h) ==
    LET k == GetKey(a)
    IN  /\ bound[k] # <<>>
        /\ h = Last(bound[k])
        /\ bound' = [bound EXCEPT ![k] = Front(@)]
        /\ order' = ToFront(k)
        /\ size' = size - 1
        /\ UNCHANGED handle

\* CURLPool::get() without: curl_easy_init(), which may use freed memory again.
Makes(t, a, h) ==
    LET k == GetKey(a)
    IN  /\ bound[k] = <<>>
        /\ NewOf({x \in Handle : ~handle[x].made \/ handle[x].freed}, h)
        /\ handle' = [handle EXCEPT ![h] = [NewHandle EXCEPT !.made = TRUE]]
        /\ order' = IF \E i \in DOMAIN order : order[i] = k THEN ToFront(k) ELSE order
        /\ UNCHANGED <<bound, size>>

\* SOAPClient::send(), to the end of prepareTransport(): a new transport takes a
\* handle.  A transport that is there is forgotten with its handle.
Opens(t) ==
    /\ evicting = Null
    /\ client[t].state = "none" \/ (client[t].state # "kill" /\ "resend" \in Calls)
    /\ \E a \in Address, h \in Handle, trust \in Trust :
          /\ trust = a.trust \/ "mixed" \in Calls
          /\ Reuses(t, a, h) \/ Makes(t, a, h)
          /\ client' = [client EXCEPT ![t] =
                           [NoClient EXCEPT !.state = "prepared", !.address = a,
                                            !.handle = h, !.trust = trust]]
    /\ UNCHANGED evicting

\* Mutant: the state is restored whatever it was.
RestoredAlways(c, h) == c.trust # "none"

\* Restoring the security state, before the call is made.
Restored(c, h) == c.trust # "none" /\ h.secure

\* The session a call can use, and the verdict of verify_callback(): there is one
\* only in a handshake, and only with a trust engine.
Sessions(c, h) ==
    IF ~Confidential(c.address) THEN {<<"none", Null>>}
    ELSE {<<s, Null>> : s \in {h.session} \ {"none"}}
         \cup (IF c.trust = "none" THEN {<<"unchecked", Null>>}
               ELSE {<<"trusted", TRUE>>, <<"untrusted", FALSE>>})

\* CURLSOAPTransport::send(), to the end or to an IOException.
Performs(t) ==
    LET c == client[t]
        h == handle[c.handle]
    IN  /\ c.state = "prepared"
        /\ c.trust = "mandatory" => Confidential(c.address)
        /\ \E ok \in BOOLEAN, used \in Sessions(c, h) :
              /\ ok => ~(used[2] = FALSE /\ c.trust = "mandatory")
              /\ handle' = [handle EXCEPT ![c.handle].session = used[1]]
              /\ client' = [client EXCEPT
                     ![t].state = IF ok THEN "sent" ELSE "failed",
                     ![t].keep = ok,
                     ![t].authenticated = ok /\ (IF used[2] = Null THEN Restored(c, h)
                                                 ELSE used[2])]
    /\ UNCHANGED <<bound, order, size, evicting>>

\* "Blocking unprotected HTTP request": nothing is sent.
Blocked(t) ==
    /\ client[t].state = "prepared"
    /\ client[t].trust = "mandatory"
    /\ ~Confidential(client[t].address)
    /\ client' = [client EXCEPT ![t].state = "failed"]
    /\ UNCHANGED <<bound, order, size, handle, evicting>>

\* Mutant: the count is not compared with what the pool may hold.
PutUnbounded(t, k) ==
    /\ bound' = [bound EXCEPT ![k] = Append(@, client[t].handle)]
    /\ order' = IF \E i \in DOMAIN order : order[i] = k THEN order ELSE <<k>> \o order
    /\ size' = size + 1
    /\ UNCHANGED evicting

\* CURLPool::put() as far as the count; a pool that is full keeps the lock.
Put(t, k) ==
    /\ bound' = [bound EXCEPT ![k] = Append(@, client[t].handle)]
    /\ order' = IF \E i \in DOMAIN order : order[i] = k THEN order ELSE <<k>> \o order
    /\ size' = size + 1
    /\ evicting' = IF size + 1 > ConnPoolMax THEN t ELSE Null

\* ~CURLSOAPTransport(), by SOAPClient::reset() or the destructor: a handle that
\* served goes to the pool with its security state, another is cleaned up.
Closes(t) ==
    LET c == client[t]
        h == c.handle
    IN  /\ c.state \in {"prepared", "sent", "failed"}
        /\ client' = [client EXCEPT ![t] = NoClient]
        /\ IF c.keep
           THEN /\ evicting = Null
                /\ handle' = [handle EXCEPT ![h].secure = c.authenticated]
                /\ Put(t, PutKey(c.address))
           ELSE /\ handle' = [handle EXCEPT ![h] = Freed]
                /\ UNCHANGED <<bound, order, size, evicting>>

\* Mutant: the empty pool stays at the back.
RotatesNot(t) ==
    /\ evicting = t
    /\ bound[Last(order)] = <<>>
    /\ UNCHANGED transportVars

\* The loop of put(): an empty pool goes to the front.
Rotates(t) ==
    /\ evicting = t
    /\ bound[Last(order)] = <<>>
    /\ order' = <<Last(order)>> \o Front(order)
    /\ UNCHANGED <<bound, size, handle, client, evicting>>

\* The loop ends with a handle from the pool at the back, the lock is released,
\* and the handle is cleaned up after.
Kicks(t) ==
    LET k == Last(order)
    IN  /\ evicting = t
        /\ bound[k] # <<>>
        /\ bound' = [bound EXCEPT ![k] = Front(@)]
        /\ size' = size - 1
        /\ client' = [client EXCEPT ![t] = [NoClient EXCEPT !.state = "kill",
                                                            !.handle = Last(bound[k])]]
        /\ evicting' = Null
        /\ UNCHANGED <<order, handle>>

Kills(t) ==
    /\ client[t].state = "kill"
    /\ handle' = [handle EXCEPT ![client[t].handle] = Freed]
    /\ client' = [client EXCEPT ![t] = NoClient]
    /\ UNCHANGED <<bound, order, size, evicting>>

SendStep(t) == Opens(t) \/ Performs(t) \/ Blocked(t) \/ Closes(t)
PutStep(t) == Rotates(t) \/ Kicks(t) \/ Kills(t)

\* ~CURLPool(), and g_CURLPool is gone.
Drained ==
    /\ handle' = [h \in Handle |-> IF \E k \in Keys : h \in ToSet(bound[k])
                                   THEN Freed ELSE handle[h]]
    /\ bound' = [k \in Keys |-> <<>>]
    /\ order' = <<>>
    /\ size' = 0
    /\ UNCHANGED <<client, evicting>>
-----------------------------------------------------------------------------
Pooled(h) == \E k \in Keys : h \in ToSet(bound[k])
Held(h) == \E t \in Thread : client[t].handle = h

(***************************************************************************)
(* A handle has one user: it is in one pool, or with one client, or        *)
(* cleaned up, and none is lost.                                           *)
(***************************************************************************)
HandleExclusive ==
    /\ \A k, l \in Keys : \A i \in DOMAIN bound[k], j \in DOMAIN bound[l] :
          bound[k][i] = bound[l][j] => k = l /\ i = j
    /\ \A t, u \in Thread : client[t].handle \in {client[u].handle} \ {Null} => t = u
    /\ \A h \in Handle :
          /\ ~(Pooled(h) /\ Held(h))
          /\ handle[h].freed => ~Pooled(h) /\ ~Held(h)
          /\ (handle[h].made /\ "resend" \notin Calls) =>
                handle[h].freed \/ Pooled(h) \/ Held(h)

(***************************************************************************)
(* m_size is the number of free handles, no more than the pool may hold    *)
(* once a put() has made room, and m_pools names each pool that has        *)
(* handles once, so that the loop that makes room ends.                    *)
(***************************************************************************)
PoolCounted ==
    /\ size = Cardinality({h \in Handle : Pooled(h)})
    /\ evicting = Null => size <= ConnPoolMax
    /\ \A i, j \in DOMAIN order : order[i] = order[j] => i = j
    /\ \A k \in Keys : bound[k] # <<>> => k \in ToSet(order)

(***************************************************************************)
(* Both pools hand out what they have to one client at a time: the parsers *)
(* with the schemas known (ParserSound of ParserPool), the handles without *)
(* losing count of them.                                                   *)
(***************************************************************************)
PoolsSound == ParserSound /\ HandleExclusive /\ PoolCounted

(***************************************************************************)
(* A handle that is kept is one that some transport will ask for.          *)
(***************************************************************************)
KeptForReuse == \A k \in Keys : bound[k] # <<>> => \E a \in Address : GetKey(a) = k

(***************************************************************************)
(* A transport says that its peer is authenticated only if a trust engine  *)
(* accepted the peer in the handshake of the session it used; and where    *)
(* that is mandatory, it is said of every call that went through.          *)
(***************************************************************************)
AuthenticatedHonest ==
    \A t \in Thread : client[t].state = "sent" =>
        /\ client[t].authenticated => handle[client[t].handle].session = "trusted"
        /\ client[t].trust = "mandatory" => client[t].authenticated

(***************************************************************************)
(* A put() that found the pool full lets go of the lock.                   *)
(***************************************************************************)
RoomMade == evicting # Null ~> evicting = Null
=============================================================================
