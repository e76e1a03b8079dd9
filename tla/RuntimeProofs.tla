----------------------------- MODULE RuntimeProofs -----------------------------
(***************************************************************************)
(* Proofs about XMLToolingConfig with its two pools, for any threads,      *)
(* parsers, schemas, handles and addresses, and any size of the pool: what *)
(* a pool hands out has one user, the pool of connections keeps count, and *)
(* a transport says of its peer what a trust engine said.                  *)
(***************************************************************************)
EXTENDS XMLToolingConfig, FiniteSetTheorems, SequenceTheorems, TLAPS

(* Without its last element, a sequence has the rest of them. *)
LEMMA FrontProperties ==
    ASSUME NEW S, NEW s \in Seq(S), s # <<>>
    PROVE  /\ Len(s) \in Nat \ {0} /\ DOMAIN s = 1..Len(s)
           /\ Last(s) = s[Len(s)] /\ Last(s) \in S
           /\ Front(s) \in Seq(S) /\ Len(Front(s)) = Len(s) - 1
           /\ DOMAIN Front(s) = 1..(Len(s) - 1)
           /\ \A i \in 1..(Len(s) - 1) : Front(s)[i] = s[i]
<1>1. Len(s) \in Nat \ {0} /\ DOMAIN s = 1..Len(s)
  OBVIOUS
<1>2. Last(s) = s[Len(s)] /\ Last(s) \in S
  BY DEF Last
<1> DEFINE n == Len(s) - 1
<1>3. n \in Nat /\ 1 \in Int /\ n \in Int /\ \A i \in 1..n : s[i] \in S
  BY <1>1
<1>4. /\ SubSeq(s, 1, n) \in Seq(S)
      /\ Len(SubSeq(s, 1, n)) = IF 1 <= n THEN n - 1 + 1 ELSE 0
      /\ \A i \in 1 .. n - 1 + 1 : SubSeq(s, 1, n)[i] = s[1 + i - 1]
  BY <1>3, SubSeqProperties
<1>5. Front(s) = SubSeq(s, 1, n)
  BY DEF Front
<1> HIDE DEF n
<1>6. /\ Front(s) \in Seq(S) /\ Len(Front(s)) = n
      /\ \A i \in 1..n : Front(s)[i] = s[i]
  BY <1>3, <1>4, <1>5
<1>7. DOMAIN Front(s) = 1..n
  BY <1>6
<1>. QED BY <1>1, <1>2, <1>6, <1>7 DEF n

(* With one more at its end. *)
LEMMA AppendedProperties ==
    ASSUME NEW S, NEW s \in Seq(S), NEW x \in S
    PROVE  /\ Len(s) \in Nat /\ DOMAIN s = 1..Len(s)
           /\ Append(s, x) \in Seq(S) /\ DOMAIN Append(s, x) = 1..(Len(s) + 1)
           /\ \A i \in 1..Len(s) : Append(s, x)[i] = s[i]
           /\ Append(s, x)[Len(s) + 1] = x
  OBVIOUS

(* With one more before it. *)
LEMMA ConsProperties ==
    ASSUME NEW S, NEW x \in S, NEW s \in Seq(S)
    PROVE  /\ Len(s) \in Nat /\ DOMAIN s = 1..Len(s)
           /\ <<x>> \o s \in Seq(S) /\ DOMAIN (<<x>> \o s) = 1..(Len(s) + 1)
           /\ (<<x>> \o s)[1] = x
           /\ \A j \in 2..(Len(s) + 1) : (<<x>> \o s)[j] = s[j - 1]
<1>1. <<x>> \in Seq(S) /\ Len(<<x>>) = 1 /\ <<x>>[1] = x
  OBVIOUS
<1>2. Len(s) \in Nat /\ DOMAIN s = 1..Len(s)
  OBVIOUS
<1>3. /\ <<x>> \o s \in Seq(S)
      /\ Len(<<x>> \o s) = 1 + Len(s)
      /\ \A i \in 1 .. 1 + Len(s) : (<<x>> \o s)[i] = IF i <= 1 THEN <<x>>[i] ELSE s[i - 1]
  BY <1>1, ConcatProperties
<1> DEFINE r == <<x>> \o s
<1> HIDE DEF r
<1>4. r \in Seq(S) /\ Len(r) = Len(s) + 1 /\ DOMAIN r = 1..(Len(s) + 1)
  BY <1>2, <1>3 DEF r
<1>5. \A j \in 2..(Len(s) + 1) : r[j] = s[j - 1]
  BY <1>2, <1>3 DEF r
<1>6. r[1] = x
  BY <1>1, <1>2, <1>3 DEF r
<1>. QED BY <1>2, <1>4, <1>5, <1>6 DEF r
-----------------------------------------------------------------------------
(***************************************************************************)
(* ParserPool                                                              *)
(***************************************************************************)
\* Under the rule nobody parses while a schema is registered.
WriterAlone == ~LateSchemas /\ writer # Null => \A t \in Thread : ~Busy(t)

PoolInv == PoolTypeOK /\ ParserSound /\ WriterAlone

LEMMA PoolInitInv == PoolInit => PoolInv
<1> SUFFICES ASSUME PoolInit PROVE PoolInv
  OBVIOUS
<1> USE DEF PoolInit
<1>1. PoolTypeOK
  <2>0. raced \in BOOLEAN
    OBVIOUS
  <2>1. pool \in Seq(Parser) /\ schemas \subseteq Schema
    OBVIOUS
  <2>2. hint \in [Parser -> SUBSET Schema]
    OBVIOUS
  <2>3. owner \in [Parser -> {"unmade", "pool", "deleted"} \cup Thread]
    OBVIOUS
  <2>. QED BY <2>0, <2>1, <2>2, <2>3 DEF PoolTypeOK
<1>2. \A p \in Parser : owner[p] = "unmade" /\ "unmade" \notin Thread /\ handler[p] = Null
  BY ParserPoolAssumption
<1>3. \A t \in Thread : parsing[t] = Null /\ Null \notin Parser
  BY ParserPoolAssumption
<1>4. ParserExclusive
  BY <1>2, <1>3 DEF ParserExclusive
<1>5. SchemasKnown /\ WriterAlone
  BY <1>3 DEF SchemasKnown, WriterAlone, Busy
<1>. QED BY <1>1, <1>4, <1>5 DEF PoolInv, ParserSound

(* A parser that is new or was the last of the pool goes to a thread. *)
LEMMA CheckoutInv ==
    ASSUME PoolInv, NEW t \in Thread, Checkout(t)
    PROVE  PoolInv'
<1>1. PICK p \in Parser :
         /\ Creates(t, p) \/ Takes(t, p)
         /\ owner' = [owner EXCEPT ![p] = t]
         /\ handler' = [handler EXCEPT ![p] = t]
         /\ parsing' = [parsing EXCEPT ![t] = p]
  BY DEF Checkout
<1>2. ~Busy(t) /\ writer = Null /\ UNCHANGED <<schemas, writer, raced>>
  BY DEF Checkout
<1>3. hint' = [hint EXCEPT ![p] = schemas]
  BY <1>1 DEF Creates, Takes
<1> USE DEF PoolInv
<1>4. /\ owner[p] \in {"unmade", "pool"}
      /\ pool' \in Seq(Parser)
      /\ \A q \in Parser : (\E i \in DOMAIN pool' : pool'[i] = q)
                              <=> q # p /\ (\E i \in DOMAIN pool : pool[i] = q)
      /\ \A i, j \in DOMAIN pool' : pool'[i] = pool'[j] => i = j
  <2>1. CASE Creates(t, p)
    BY <2>1 DEF Creates, NewOf, PoolTypeOK, ParserSound, ParserExclusive
  <2>2. CASE Takes(t, p)
    <3>1. pool # <<>> /\ p = Last(pool) /\ pool' = Front(pool) /\ pool \in Seq(Parser)
      BY <2>2 DEF Takes, PoolTypeOK
    <3>2. \A i, j \in DOMAIN pool : pool[i] = pool[j] => i = j
      BY DEF ParserSound, ParserExclusive
    <3>3. owner[p] = "pool"
      BY <3>1, FrontProperties DEF ParserSound, ParserExclusive
    <3>. QED BY <3>1, <3>2, <3>3, FrontProperties
  <2>. QED BY <1>1, <2>1, <2>2
<1>5. PoolTypeOK'
  BY <1>1, <1>2, <1>3, <1>4 DEF PoolTypeOK
<1>6. ParserExclusive'
  BY <1>1, <1>2, <1>4, ParserPoolAssumption DEF PoolTypeOK, ParserSound, ParserExclusive, Busy
<1>7. SchemasKnown' /\ WriterAlone'
  BY <1>1, <1>2, <1>3, <1>4, ParserPoolAssumption
  DEF PoolTypeOK, ParserSound, ParserExclusive, SchemasKnown, WriterAlone, Busy
<1>. QED BY <1>5, <1>6, <1>7 DEF ParserSound

LEMMA ResolvesInv ==
    ASSUME PoolInv, NEW t \in Thread, Resolves(t)
    PROVE  PoolInv'
  BY DEF Resolves, PoolInv, PoolTypeOK, ParserSound, ParserExclusive, SchemasKnown, WriterAlone, Busy

(* The parser is the thread's no more, and has no handler. *)
LEMMA LetGo ==
    ASSUME PoolInv, NEW t \in Thread, Busy(t), NEW o \in {"pool", "deleted"},
           owner' = [owner EXCEPT ![parsing[t]] = o],
           handler' = [handler EXCEPT ![parsing[t]] = Null],
           parsing' = [parsing EXCEPT ![t] = Null],
           UNCHANGED <<hint, schemas, writer, raced>>
    PROVE  /\ parsing[t] \in Parser /\ owner[parsing[t]] = t
           /\ owner' \in [Parser -> {"unmade", "pool", "deleted"} \cup Thread]
           /\ handler' \in [Parser -> Thread \cup {Null}]
           /\ parsing' \in [Thread -> Parser \cup {Null}]
           /\ \A u \in Thread : \A p \in Parser : owner'[p] = u <=> parsing'[u] = p
           /\ \A p \in Parser : handler'[p] # Null => parsing'[handler'[p]] = p
           /\ SchemasKnown' /\ WriterAlone'
<1> USE DEF PoolInv, Busy
<1>1. parsing[t] \in Parser /\ owner[parsing[t]] = t
  BY DEF PoolTypeOK, ParserSound, ParserExclusive
<1>2. \A u \in Thread : \A p \in Parser : owner'[p] = u <=> parsing'[u] = p
  BY <1>1, ParserPoolAssumption DEF PoolTypeOK, ParserSound, ParserExclusive
<1>3. \A p \in Parser : handler'[p] # Null => parsing'[handler'[p]] = p
  <2> SUFFICES ASSUME NEW p \in Parser, handler'[p] # Null PROVE parsing'[handler'[p]] = p
    OBVIOUS
  <2>1. p # parsing[t] /\ handler'[p] = handler[p] /\ handler[p] \in Thread
    BY <1>1 DEF PoolTypeOK
  <2>2. parsing[handler[p]] = p
    BY <2>1 DEF ParserSound, ParserExclusive
  <2>. QED BY <2>1, <2>2 DEF PoolTypeOK
<1>4. SchemasKnown' /\ WriterAlone'
  BY <1>1 DEF PoolTypeOK, ParserSound, SchemasKnown, WriterAlone
<1>. QED BY <1>1, <1>2, <1>3, <1>4 DEF PoolTypeOK

LEMMA FinishesInv ==
    ASSUME PoolInv, NEW t \in Thread, Finishes(t)
    PROVE  PoolInv'
<1>1. /\ Busy(t) /\ pool' = Append(pool, parsing[t])
      /\ owner' = [owner EXCEPT ![parsing[t]] = "pool"]
      /\ handler' = [handler EXCEPT ![parsing[t]] = Null]
      /\ parsing' = [parsing EXCEPT ![t] = Null]
      /\ UNCHANGED <<hint, schemas, writer, raced>>
  BY DEF Finishes, HandlerTaken
<1>2. /\ parsing[t] \in Parser /\ owner[parsing[t]] = t
      /\ owner' \in [Parser -> {"unmade", "pool", "deleted"} \cup Thread]
      /\ handler' \in [Parser -> Thread \cup {Null}]
      /\ parsing' \in [Thread -> Parser \cup {Null}]
      /\ \A u \in Thread : \A p \in Parser : owner'[p] = u <=> parsing'[u] = p
      /\ \A p \in Parser : handler'[p] # Null => parsing'[handler'[p]] = p
      /\ SchemasKnown' /\ WriterAlone'
  BY <1>1, LetGo
<1>3. /\ pool \in Seq(Parser)
      /\ \A p \in Parser : owner[p] = "pool" <=> \E i \in DOMAIN pool : pool[i] = p
      /\ \A i, j \in DOMAIN pool : pool[i] = pool[j] => i = j
      /\ \A i \in DOMAIN pool : pool[i] # parsing[t]
  BY <1>2, ParserPoolAssumption DEF PoolInv, PoolTypeOK, ParserSound, ParserExclusive
<1>4. /\ pool' \in Seq(Parser)
      /\ \A p \in Parser : (\E i \in DOMAIN pool' : pool'[i] = p)
                              <=> p = parsing[t] \/ (\E i \in DOMAIN pool : pool[i] = p)
      /\ \A i, j \in DOMAIN pool' : pool'[i] = pool'[j] => i = j
  BY <1>1, <1>2, <1>3, AppendedProperties
<1>5. \A p \in Parser : owner'[p] = "pool" <=> p = parsing[t] \/ owner[p] = "pool"
  BY <1>1, <1>2 DEF PoolInv, PoolTypeOK
<1>6. PoolTypeOK'
  BY <1>1, <1>2, <1>4 DEF PoolInv, PoolTypeOK
<1>. QED BY <1>2, <1>3, <1>4, <1>5, <1>6 DEF PoolInv, ParserSound, ParserExclusive

LEMMA EscapesInv ==
    ASSUME PoolInv, NEW t \in Thread, Escapes(t)
    PROVE  PoolInv'
<1>1. /\ Busy(t) /\ pool' = pool
      /\ owner' = [owner EXCEPT ![parsing[t]] = "deleted"]
      /\ handler' = [handler EXCEPT ![parsing[t]] = Null]
      /\ parsing' = [parsing EXCEPT ![t] = Null]
      /\ UNCHANGED <<hint, schemas, writer, raced>>
  BY DEF Escapes
<1>2. /\ parsing[t] \in Parser /\ owner[parsing[t]] = t
      /\ owner' \in [Parser -> {"unmade", "pool", "deleted"} \cup Thread]
      /\ handler' \in [Parser -> Thread \cup {Null}]
      /\ parsing' \in [Thread -> Parser \cup {Null}]
      /\ \A u \in Thread : \A p \in Parser : owner'[p] = u <=> parsing'[u] = p
      /\ \A p \in Parser : handler'[p] # Null => parsing'[handler'[p]] = p
      /\ SchemasKnown' /\ WriterAlone'
  BY <1>1, LetGo
<1>3. \A p \in Parser : owner'[p] = "pool" <=> owner[p] = "pool"
  BY <1>1, <1>2, ParserPoolAssumption DEF PoolInv, PoolTypeOK
<1>4. PoolTypeOK'
  BY <1>1, <1>2 DEF PoolInv, PoolTypeOK
<1>. QED BY <1>1, <1>2, <1>3, <1>4 DEF PoolInv, ParserSound, ParserExclusive

LEMMA RegisterInv ==
    ASSUME PoolInv, NEW t \in Thread, RegisterStep(t)
    PROVE  PoolInv'
<1> USE DEF PoolInv, PoolTypeOK, ParserSound, ParserExclusive, SchemasKnown, WriterAlone, Busy
<1>1. CASE Registers(t)
  BY <1>1 DEF Registers
<1>2. CASE Registered(t)
  BY <1>2 DEF Registered
<1>. QED BY <1>1, <1>2 DEF RegisterStep

(* The pool is destroyed while nobody parses. *)
LEMMA DestroyedInv ==
    ASSUME PoolInv, Destroyed, \A t \in Thread : ~Busy(t)
    PROVE  PoolInv'
<1>1. \A p \in Parser : owner[p] \notin Thread /\ handler[p] = Null
  BY ParserPoolAssumption DEF PoolInv, PoolTypeOK, ParserSound, ParserExclusive, Busy
<1>. QED BY <1>1, ParserPoolAssumption
         DEF Destroyed, PoolInv, PoolTypeOK, ParserSound, ParserExclusive, SchemasKnown, WriterAlone, Busy

LEMMA ParseInv ==
    ASSUME PoolInv, NEW t \in Thread, ParseStep(t)
    PROVE  PoolInv'
  BY CheckoutInv, ResolvesInv, FinishesInv, EscapesInv DEF ParseStep
-----------------------------------------------------------------------------
(***************************************************************************)
(* CURLPool: its lists and its count                                       *)
(***************************************************************************)
OnceEach(o) == \A i, j \in DOMAIN o : o[i] = o[j] => i = j

(* One element of a list comes to the front. *)
LEMMA Rearranged ==
    ASSUME NEW n \in Nat, NEW s, NEW r, DOMAIN s = 1..n, DOMAIN r = 1..n, NEW i \in 1..n,
           r[1] = s[i],
           \A j \in 2..n : r[j] = IF j <= i THEN s[j - 1] ELSE s[j],
           OnceEach(s)
    PROVE  OnceEach(r) /\ ToSet(r) = ToSet(s)
<1> DEFINE at(j) == IF j = 1 THEN i ELSE IF j <= i THEN j - 1 ELSE j
<1>1. \A j \in 1..n : at(j) \in 1..n /\ r[j] = s[at(j)]
  OBVIOUS
<1>2. \A j, k \in 1..n : at(j) = at(k) => j = k
  OBVIOUS
<1>3. \A k \in 1..n : \E j \in 1..n : at(j) = k
  <2> SUFFICES ASSUME NEW k \in 1..n PROVE \E j \in 1..n : at(j) = k
    OBVIOUS
  <2>1. CASE k = i
    BY <2>1
  <2>2. CASE k < i
    <3>1. k + 1 \in 1..n /\ at(k + 1) = k
      BY <2>2
    <3>. QED BY <3>1
  <2>3. CASE k > i
    <3>1. k \in 1..n /\ at(k) = k
      BY <2>3
    <3>. QED BY <3>1
  <2>. QED BY <2>1, <2>2, <2>3
<1> HIDE DEF at
<1>4. OnceEach(r)
  BY <1>1, <1>2 DEF OnceEach
<1>5. ToSet(r) \subseteq ToSet(s)
  BY <1>1 DEF ToSet
<1>6. ToSet(s) \subseteq ToSet(r)
  <2> SUFFICES ASSUME NEW k \in 1..n PROVE s[k] \in ToSet(r)
    BY DEF ToSet
  <2>1. PICK j \in 1..n : at(j) = k
    BY <1>3
  <2>2. r[j] = s[k]
    BY <1>1, <2>1
  <2>. QED BY <2>2 DEF ToSet
<1>. QED BY <1>4, <1>5, <1>6

(* A key that is moved to the front. *)
LEMMA MovedToFront ==
    ASSUME order \in Seq(Keys), OnceEach(order), NEW k \in Keys,
           \E i \in DOMAIN order : order[i] = k
    PROVE  /\ ToFront(k) \in Seq(Keys) /\ OnceEach(ToFront(k))
           /\ ToSet(ToFront(k)) = ToSet(order)
<1> DEFINE n == Len(order)
           i == CHOOSE j \in DOMAIN order : order[j] = k
           r == ToFront(k)
           a == SubSeq(order, 1, i - 1)
           b == SubSeq(order, i + 1, n)
           c == a \o b
<1>1. n \in Nat /\ DOMAIN order = 1..n /\ i \in 1..n /\ order[i] = k
  OBVIOUS
<1>2. r = <<k>> \o c
  BY DEF ToFront, RemoveAt
<1> HIDE DEF i, n
<1>3. /\ a \in Seq(Keys) /\ Len(a) = i - 1
      /\ \A j \in 1..(i - 1) : a[j] = order[j]
  <2>1. 1 \in Int /\ i - 1 \in Int /\ \A j \in 1..(i - 1) : order[j] \in Keys
    BY <1>1
  <2>2. /\ a \in Seq(Keys)
        /\ Len(a) = IF 1 <= i - 1 THEN (i - 1) - 1 + 1 ELSE 0
        /\ \A j \in 1..((i - 1) - 1 + 1) : a[j] = order[1 + j - 1]
    BY <2>1, SubSeqProperties
  <2> HIDE DEF a
  <2>. QED BY <1>1, <2>2
<1>4. /\ b \in Seq(Keys) /\ Len(b) = n - i
      /\ \A j \in 1..(n - i) : b[j] = order[i + j]
  <2>1. i + 1 \in Int /\ n \in Int /\ \A j \in (i + 1)..n : order[j] \in Keys
    BY <1>1
  <2>2. /\ b \in Seq(Keys)
        /\ Len(b) = IF i + 1 <= n THEN n - (i + 1) + 1 ELSE 0
        /\ \A j \in 1..(n - (i + 1) + 1) : b[j] = order[i + 1 + j - 1]
    BY <2>1, SubSeqProperties
  <2> HIDE DEF b
  <2>. QED BY <1>1, <2>2
<1> HIDE DEF a, b
<1>5. /\ c \in Seq(Keys) /\ Len(c) = Len(a) + Len(b)
      /\ \A j \in 1..(Len(a) + Len(b)) : c[j] = IF j <= Len(a) THEN a[j] ELSE b[j - Len(a)]
  BY <1>3, <1>4, ConcatProperties
<1> HIDE DEF c
<1>6. /\ Len(c) = n - 1
      /\ \A j \in 1..(n - 1) : c[j] = IF j <= i - 1 THEN order[j] ELSE order[j + 1]
  <2>1. Len(a) + Len(b) = n - 1
    BY <1>1, <1>3, <1>4
  <2>2. ASSUME NEW j \in 1..(n - 1), j <= i - 1 PROVE c[j] = order[j]
    <3>1. j \in 1..(i - 1) /\ j <= Len(a) /\ j \in 1..(Len(a) + Len(b))
      BY <1>1, <1>3, <2>1, <2>2
    <3>. QED BY <1>3, <1>5, <3>1
  <2>3. ASSUME NEW j \in 1..(n - 1), ~(j <= i - 1) PROVE c[j] = order[j + 1]
    <3>1. /\ j - Len(a) \in 1..(n - i) /\ ~(j <= Len(a)) /\ j \in 1..(Len(a) + Len(b))
          /\ i + (j - Len(a)) = j + 1
      BY <1>1, <1>3, <2>1, <2>3
    <3>. QED BY <1>4, <1>5, <3>1
  <2>. QED BY <1>5, <2>1, <2>2, <2>3
<1>7. /\ r \in Seq(Keys) /\ DOMAIN r = 1..(Len(c) + 1) /\ r[1] = k
      /\ \A j \in 2..(Len(c) + 1) : r[j] = c[j - 1]
  BY <1>2, <1>5, ConsProperties
<1> HIDE DEF r
<1>8. DOMAIN r = 1..n /\ r[1] = order[i]
  BY <1>1, <1>6, <1>7
<1>9. \A j \in 2..n : r[j] = IF j <= i THEN order[j - 1] ELSE order[j]
  BY <1>1, <1>6, <1>7
<1>10. OnceEach(r) /\ ToSet(r) = ToSet(order)
  BY <1>1, <1>8, <1>9, Rearranged
<1>. QED BY <1>7, <1>10 DEF r

(* So does a key that goes from the back to the front. *)
LEMMA RotatedToFront ==
    ASSUME order \in Seq(Keys), OnceEach(order), order # <<>>
    PROVE  /\ <<Last(order)>> \o Front(order) \in Seq(Keys)
           /\ OnceEach(<<Last(order)>> \o Front(order))
           /\ ToSet(<<Last(order)>> \o Front(order)) = ToSet(order)
<1> DEFINE n == Len(order)
           r == <<Last(order)>> \o Front(order)
<1>1. /\ n \in Nat \ {0} /\ DOMAIN order = 1..n
      /\ Last(order) = order[n] /\ Last(order) \in Keys
      /\ Front(order) \in Seq(Keys) /\ Len(Front(order)) = n - 1
      /\ \A j \in 1..(n - 1) : Front(order)[j] = order[j]
  BY FrontProperties
<1> DEFINE f == Front(order)
<1> HIDE DEF f
<1>2. /\ r \in Seq(Keys) /\ DOMAIN r = 1..(Len(f) + 1) /\ r[1] = Last(order)
      /\ \A j \in 2..(Len(f) + 1) : r[j] = f[j - 1]
  <2>1. f \in Seq(Keys) /\ Last(order) \in Keys /\ r = <<Last(order)>> \o f
    BY <1>1 DEF f
  <2> HIDE DEF r
  <2>. QED BY <2>1, ConsProperties
<1> HIDE DEF n, r
<1>3. DOMAIN r = 1..n /\ r[1] = order[n] /\ n \in 1..n
  BY <1>1, <1>2 DEF f
<1>4. \A j \in 2..n : r[j] = IF j <= n THEN order[j - 1] ELSE order[j]
  BY <1>1, <1>2 DEF f
<1>5. OnceEach(r) /\ ToSet(r) = ToSet(order)
  BY <1>1, <1>3, <1>4, Rearranged
<1>. QED BY <1>2, <1>5 DEF r

(* A key that is new is put in front of the rest. *)
LEMMA PutInFront ==
    ASSUME order \in Seq(Keys), OnceEach(order), NEW k \in Keys, k \notin ToSet(order)
    PROVE  /\ <<k>> \o order \in Seq(Keys) /\ OnceEach(<<k>> \o order)
           /\ ToSet(<<k>> \o order) = ToSet(order) \cup {k}
<1> DEFINE n == Len(order)
           r == <<k>> \o order
<1>1. n \in Nat /\ DOMAIN order = 1..n
  OBVIOUS
<1>2. /\ r \in Seq(Keys) /\ DOMAIN r = 1..(n + 1) /\ r[1] = k
      /\ \A j \in 2..(n + 1) : r[j] = order[j - 1]
  BY <1>1, ConsProperties
<1> HIDE DEF n, r
<1>3. \A j \in 1..n : order[j] # k
  BY <1>1 DEF ToSet
<1>4. \A j \in 2..(n + 1) : j - 1 \in 1..n
  BY <1>1
<1>5. OnceEach(r)
  <2>1. \A i, j \in 2..(n + 1) : r[i] = r[j] => i = j
    <3> SUFFICES ASSUME NEW i \in 2..(n + 1), NEW j \in 2..(n + 1), r[i] = r[j]
                 PROVE  i = j
      OBVIOUS
    <3>1. i - 1 \in DOMAIN order /\ j - 1 \in DOMAIN order /\ order[i - 1] = order[j - 1]
      BY <1>1, <1>2, <1>4
    <3>2. i - 1 = j - 1
      BY <3>1 DEF OnceEach
    <3>. QED BY <1>1, <3>2
  <2>2. \A j \in 2..(n + 1) : r[j] # r[1]
    BY <1>2, <1>3, <1>4
  <2>3. \A j \in 1..(n + 1) : j = 1 \/ j \in 2..(n + 1)
    BY <1>1
  <2>. QED BY <1>2, <2>1, <2>2, <2>3 DEF OnceEach
<1>6. ASSUME NEW j \in 1..(n + 1) PROVE r[j] \in ToSet(order) \cup {k}
  <2>1. CASE j = 1
    BY <1>2, <2>1
  <2>2. CASE j # 1
    <3>1. j \in 2..(n + 1)
      BY <1>1, <2>2
    <3>2. r[j] = order[j - 1] /\ j - 1 \in DOMAIN order
      BY <1>1, <1>2, <1>4, <3>1
    <3>. QED BY <3>2 DEF ToSet
  <2>. QED BY <2>1, <2>2
<1>7. ASSUME NEW j \in 1..n PROVE order[j] \in ToSet(r)
  <2>1. j + 1 \in 2..(n + 1) /\ (j + 1) - 1 = j
    BY <1>1
  <2>2. r[j + 1] = order[j] /\ j + 1 \in DOMAIN r
    BY <1>1, <1>2, <2>1
  <2>. QED BY <2>2 DEF ToSet
<1>8. k \in ToSet(r)
  <2>1. 1 \in DOMAIN r
    BY <1>1, <1>2
  <2>. QED BY <1>2, <2>1 DEF ToSet
<1>9. ToSet(r) = ToSet(order) \cup {k}
  <2>1. ToSet(r) \subseteq ToSet(order) \cup {k}
    BY <1>2, <1>6 DEF ToSet
  <2>2. ToSet(order) \subseteq ToSet(r)
    BY <1>1, <1>7 DEF ToSet
  <2>. QED BY <1>8, <2>1, <2>2
<1>. QED BY <1>2, <1>5, <1>9 DEF r

\* The free handles, each of which is in one place.
Free == {h \in Handle : Pooled(h)}

InOnePlace ==
    \A k, l \in Keys : \A i \in DOMAIN bound[k], j \in DOMAIN bound[l] :
       bound[k][i] = bound[l][j] => k = l /\ i = j

BoundInv ==
    /\ bound \in [Keys -> Seq(Handle)] /\ InOnePlace
    /\ IsFiniteSet(Free) /\ size = Cardinality(Free)

OrderInv ==
    /\ order \in Seq(Keys) /\ OnceEach(order)
    /\ \A k \in Keys : bound[k] # <<>> => k \in ToSet(order)

LEMMA PooledAt ==
    ASSUME bound \in [Keys -> Seq(Handle)], NEW h
    PROVE  Pooled(h) <=> \E k \in Keys : \E i \in DOMAIN bound[k] : bound[k][i] = h
  BY DEF Pooled, ToSet

(* The last handle of a pool is taken. *)
LEMMA HandleTaken ==
    ASSUME BoundInv, NEW k \in Keys, bound[k] # <<>>,
           bound' = [bound EXCEPT ![k] = Front(@)], size' = size - 1
    PROVE  /\ BoundInv'
           /\ Last(bound[k]) \in Handle /\ Pooled(Last(bound[k]))
           /\ \A x \in Handle : Pooled(x)' <=> Pooled(x) /\ x # Last(bound[k])
           /\ \A l \in Keys : bound'[l] # <<>> => bound[l] # <<>>
           /\ \A l \in Keys : \A i \in DOMAIN bound'[l] :
                 i \in DOMAIN bound[l] /\ bound'[l][i] = bound[l][i]
           /\ size \in Nat /\ size' \in Nat
<1> DEFINE n == Len(bound[k])
           h == Last(bound[k])
<1>1. /\ bound[k] \in Seq(Handle) /\ n \in Nat \ {0} /\ DOMAIN bound[k] = 1..n
      /\ h = bound[k][n] /\ h \in Handle
      /\ Front(bound[k]) \in Seq(Handle) /\ DOMAIN Front(bound[k]) = 1..(n - 1)
      /\ \A i \in 1..(n - 1) : Front(bound[k])[i] = bound[k][i]
  BY FrontProperties DEF BoundInv
<1>2. /\ bound' \in [Keys -> Seq(Handle)]
      /\ bound'[k] = Front(bound[k])
      /\ \A l \in Keys \ {k} : bound'[l] = bound[l]
  BY <1>1 DEF BoundInv
<1> HIDE DEF n, h
<1>3. \A l \in Keys : \A i \in DOMAIN bound'[l] :
         i \in DOMAIN bound[l] /\ bound'[l][i] = bound[l][i] /\ ~(l = k /\ i = n)
  BY <1>1, <1>2
<1>4. \A l \in Keys : \A i \in DOMAIN bound[l] : ~(l = k /\ i = n) => i \in DOMAIN bound'[l]
  BY <1>1, <1>2
<1>5. InOnePlace'
  BY <1>3 DEF BoundInv, InOnePlace
<1>6. Pooled(h)
  BY <1>1, PooledAt DEF BoundInv
<1>7. ASSUME NEW x \in Handle PROVE Pooled(x)' <=> Pooled(x) /\ x # h
  <2>1. Pooled(x)' <=> \E l \in Keys : \E i \in DOMAIN bound'[l] : bound'[l][i] = x
    BY <1>2 DEF Pooled, ToSet
  <2>2. ASSUME Pooled(x)' PROVE Pooled(x) /\ x # h
    <3>1. PICK l \in Keys : \E i \in DOMAIN bound'[l] : bound'[l][i] = x
      BY <2>1, <2>2
    <3>2. PICK i \in DOMAIN bound'[l] : bound'[l][i] = x
      BY <3>1
    <3>3. i \in DOMAIN bound[l] /\ bound[l][i] = x /\ ~(l = k /\ i = n)
      BY <1>3, <3>2
    <3>4. x # h
      BY <1>1, <3>3 DEF BoundInv, InOnePlace
    <3>. QED BY <3>3, <3>4, PooledAt DEF BoundInv
  <2>3. ASSUME Pooled(x), x # h PROVE Pooled(x)'
    <3>1. PICK l \in Keys : \E i \in DOMAIN bound[l] : bound[l][i] = x
      BY <2>3, PooledAt DEF BoundInv
    <3>2. PICK i \in DOMAIN bound[l] : bound[l][i] = x
      BY <3>1
    <3>3. i \in DOMAIN bound'[l]
      BY <1>1, <1>4, <2>3, <3>2
    <3>. QED BY <1>3, <2>1, <3>2, <3>3
  <2>. QED BY <2>2, <2>3
<1>8. Free' = Free \ {h}
  BY <1>7 DEF Free
<1>9. h \in Free
  BY <1>1, <1>6 DEF Free
<1>10. IsFiniteSet(Free') /\ Cardinality(Free') = Cardinality(Free) - 1 /\ Cardinality(Free) \in Nat
  BY <1>8, <1>9, FS_RemoveElement, FS_CardinalityType DEF BoundInv
<1>11. Cardinality(Free') \in Nat
  BY <1>10, FS_CardinalityType
<1>12. \A l \in Keys : bound'[l] # <<>> => bound[l] # <<>>
  <2>1. ASSUME NEW l \in Keys, bound'[l] # <<>> PROVE bound[l] # <<>>
    BY <1>2, <2>1
  <2>. QED BY <2>1
<1>. QED BY <1>1, <1>2, <1>3, <1>5, <1>6, <1>7, <1>10, <1>11, <1>12 DEF BoundInv, h

(* A handle that is in no pool goes to one. *)
LEMMA HandlePut ==
    ASSUME BoundInv, NEW k \in Keys, NEW h \in Handle, ~Pooled(h),
           bound' = [bound EXCEPT ![k] = Append(@, h)], size' = size + 1
    PROVE  /\ BoundInv'
           /\ \A x \in Handle : Pooled(x)' <=> Pooled(x) \/ x = h
           /\ \A l \in Keys \ {k} : bound'[l] = bound[l]
           /\ \A l \in Keys : \A i \in DOMAIN bound'[l] :
                 \/ i \in DOMAIN bound[l] /\ bound'[l][i] = bound[l][i]
                 \/ l = k /\ bound'[l][i] = h
           /\ size \in Nat
<1> DEFINE n == Len(bound[k])
<1>1. /\ bound[k] \in Seq(Handle) /\ n \in Nat /\ DOMAIN bound[k] = 1..n
      /\ Append(bound[k], h) \in Seq(Handle) /\ DOMAIN Append(bound[k], h) = 1..(n + 1)
      /\ \A i \in 1..n : Append(bound[k], h)[i] = bound[k][i]
      /\ Append(bound[k], h)[n + 1] = h
  BY AppendedProperties DEF BoundInv
<1>2. /\ bound' \in [Keys -> Seq(Handle)]
      /\ bound'[k] = Append(bound[k], h)
      /\ \A l \in Keys \ {k} : bound'[l] = bound[l]
  BY <1>1 DEF BoundInv
<1> HIDE DEF n
<1>3. \A l \in Keys : \A i \in DOMAIN bound'[l] :
         \/ i \in DOMAIN bound[l] /\ bound'[l][i] = bound[l][i]
         \/ l = k /\ i = n + 1 /\ bound'[l][i] = h
  BY <1>1, <1>2
<1>4. \A l \in Keys : \A i \in DOMAIN bound[l] : i \in DOMAIN bound'[l] /\ bound'[l][i] = bound[l][i]
  BY <1>1, <1>2
<1>5. \A l \in Keys : \A i \in DOMAIN bound[l] : bound[l][i] # h
  BY PooledAt DEF BoundInv
<1>6. InOnePlace'
  BY <1>3, <1>5 DEF BoundInv, InOnePlace
<1>7. ASSUME NEW x \in Handle PROVE Pooled(x)' <=> Pooled(x) \/ x = h
  <2>1. Pooled(x)' <=> \E l \in Keys : \E i \in DOMAIN bound'[l] : bound'[l][i] = x
    BY <1>2 DEF Pooled, ToSet
  <2>2. Pooled(x) <=> \E l \in Keys : \E i \in DOMAIN bound[l] : bound[l][i] = x
    BY PooledAt DEF BoundInv
  <2>3. n + 1 \in DOMAIN bound'[k] /\ bound'[k][n + 1] = h
    BY <1>1, <1>2
  <2>. QED BY <1>3, <1>4, <2>1, <2>2, <2>3
<1>8. Free' = Free \cup {h} /\ h \notin Free
  BY <1>7 DEF Free
<1>9. IsFiniteSet(Free') /\ Cardinality(Free') = Cardinality(Free) + 1 /\ Cardinality(Free) \in Nat
  BY <1>8, FS_AddElement, FS_CardinalityType DEF BoundInv
<1>. QED BY <1>2, <1>3, <1>6, <1>7, <1>9 DEF BoundInv
-----------------------------------------------------------------------------
(***************************************************************************)
(* SOAPClient and CURLSOAPTransport: clients, handles and room             *)
(***************************************************************************)
Clients == [state : States, address : Address \cup {Null}, handle : Handle \cup {Null},
            trust : Trust, keep : BOOLEAN, authenticated : BOOLEAN]
HandleStates == [made : BOOLEAN, freed : BOOLEAN, secure : BOOLEAN,
                 session : {"none", "unchecked", "untrusted", "trusted"}]

\* A transport has a handle and an address; it asks what is asked there.
ClientOK(c) ==
    /\ c.state = "none" => c = NoClient
    /\ c.state # "none" => c.handle \in Handle
    /\ c.state \in {"prepared", "sent", "failed"} =>
          c.address \in Address /\ ("mixed" \notin Calls => c.trust = c.address.trust)
    /\ c.keep => c.state = "sent"

ClientInv ==
    /\ client \in [Thread -> Clients]
    /\ \A t \in Thread : ClientOK(client[t])
    /\ \A t, u \in Thread : client[t].handle \in {client[u].handle} \ {Null} => t = u

\* A handle that is in use is a live one in one place, and a live one is in use.
HandleOK(x) ==
    /\ ~(Pooled(x) /\ Held(x))
    /\ Pooled(x) \/ Held(x) => handle[x].made /\ ~handle[x].freed
    /\ handle[x].made /\ "resend" \notin Calls => handle[x].freed \/ Pooled(x) \/ Held(x)

HandleInv ==
    /\ handle \in [Handle -> HandleStates]
    /\ \A x \in Handle : HandleOK(x)

\* There is one handle too many just while a thread makes room.
RoomInv ==
    /\ evicting \in Thread \cup {Null}
    /\ evicting = Null => size <= ConnPoolMax
    /\ evicting # Null => size = ConnPoolMax + 1 /\ client[evicting] = NoClient

\* What is true of a handle in pool k.
Kept(k, h) ==
    /\ h.secure => h.session = "trusted"
    /\ k[1] # "https" => h.session = "none"
    /\ "mixed" \notin Calls =>
          \A a \in Address : GetKey(a) = k /\ a.trust = "mandatory" => h.secure

\* What is true of the handle h of a client that is about to send, and that has sent.
Prepared(c, h) ==
    /\ h.secure => h.session = "trusted"
    /\ ~Confidential(c.address) => h.session = "none"
    /\ "mixed" \notin Calls /\ c.trust = "mandatory" => h.session = "none" \/ h.secure

Sent(c, h) ==
    /\ c.authenticated => h.session = "trusted"
    /\ ~Confidential(c.address) => h.session = "none"
    /\ "mixed" \notin Calls /\ c.trust = "mandatory" => c.authenticated

SessionInv ==
    /\ \A k \in Keys : \A i \in DOMAIN bound[k] : Kept(k, handle[bound[k][i]])
    /\ \A t \in Thread : client[t].state = "prepared" => Prepared(client[t], handle[client[t].handle])
    /\ \A t \in Thread : client[t].state = "sent" => Sent(client[t], handle[client[t].handle])

TransportInv == BoundInv /\ OrderInv /\ ClientInv /\ HandleInv /\ RoomInv /\ SessionInv

(* What a client is before and after. *)
LEMMA ClientTypes ==
    /\ NoClient \in Clients /\ NoClient.state = "none" /\ NoClient.handle = Null /\ NoClient.keep = FALSE
    /\ NewHandle \in HandleStates /\ Freed \in HandleStates /\ Freed.freed = TRUE
    /\ \A c \in Clients, h \in HandleStates :
          /\ c.keep \in BOOLEAN /\ c.authenticated \in BOOLEAN /\ c.state \in States
          /\ h.made \in BOOLEAN /\ h.freed \in BOOLEAN /\ h.secure \in BOOLEAN
  BY DEF NoClient, Clients, NewHandle, Freed, HandleStates, States, Trust

(* Both keys of an address begin with its endpoint. *)
LEMMA KeyEndpoint ==
    ASSUME NEW a \in Address
    PROVE  /\ GetKey(a) \in Keys /\ GetKey(a)[1] = a.endpoint
           /\ PutKey(a) \in Keys /\ PutKey(a)[1] = a.endpoint
<1>1. GetKey(a) \in Keys /\ PutKey(a) \in Keys
  BY DEF Keys
<1>2. PutKey(a)[1] = a.endpoint
  BY DEF PutKey
<1>3. GetKey(a)[1] = a.endpoint
  <2> DEFINE S == {a.endpoint, a.from, a.to}
             e == <<a.endpoint>>
             f == Part(a.from)
             g == Part(a.to)
  <2>0. a.endpoint \in S /\ a.from \in S /\ a.to \in S
    OBVIOUS
  <2> HIDE DEF S
  <2>1. e \in Seq(S) /\ Len(e) = 1 /\ e[1] = a.endpoint
    BY <2>0
  <2>2. f \in Seq(S) /\ g \in Seq(S) /\ Len(f) \in Nat /\ Len(g) \in Nat
    BY <2>0 DEF Part
  <2> HIDE DEF e, f, g
  <2>3. /\ e \o f \in Seq(S) /\ Len(e \o f) = Len(e) + Len(f)
        /\ \A i \in 1..(Len(e) + Len(f)) : (e \o f)[i] = IF i <= Len(e) THEN e[i] ELSE f[i - Len(e)]
    BY <2>1, <2>2, ConcatProperties
  <2> DEFINE ef == e \o f
  <2> HIDE DEF ef
  <2>4. ef \in Seq(S) /\ Len(ef) \in Nat \ {0} /\ ef[1] = a.endpoint
    BY <2>1, <2>2, <2>3 DEF ef
  <2>5. \A i \in 1..(Len(ef) + Len(g)) : (ef \o g)[i] = IF i <= Len(ef) THEN ef[i] ELSE g[i - Len(ef)]
    BY <2>2, <2>4, ConcatProperties
  <2>6. (ef \o g)[1] = a.endpoint
    BY <2>2, <2>4, <2>5
  <2>. QED BY <2>6 DEF GetKey, ef, e, f, g
<1>. QED BY <1>1, <1>2, <1>3

(* A free handle is live, in one place, with nobody, and as its pool needs it. *)
LEMMA ReusesFree ==
    ASSUME TransportInv, NEW t \in Thread, NEW a \in Address, NEW h \in Handle, Reuses(t, a, h)
    PROVE  /\ BoundInv' /\ OrderInv' /\ size' \in Nat /\ size' = size - 1
           /\ handle' = handle /\ Pooled(h) /\ ~Held(h)
           /\ \A x \in Handle : Pooled(x)' <=> Pooled(x) /\ x # h
           /\ Kept(GetKey(a), handle[h])
           /\ \A l \in Keys : \A i \in DOMAIN bound'[l] :
                 i \in DOMAIN bound[l] /\ bound'[l][i] = bound[l][i] /\ bound[l][i] # h
<1> DEFINE k == GetKey(a)
<1> USE DEF TransportInv
<1>1. /\ k \in Keys /\ bound[k] # <<>> /\ h = Last(bound[k])
      /\ bound' = [bound EXCEPT ![k] = Front(@)] /\ size' = size - 1
      /\ order' = ToFront(k) /\ handle' = handle
  BY KeyEndpoint DEF Reuses
<1> HIDE DEF k
<1>2. /\ BoundInv' /\ Pooled(h)
      /\ \A x \in Handle : Pooled(x)' <=> Pooled(x) /\ x # h
      /\ \A l \in Keys : bound'[l] # <<>> => bound[l] # <<>>
      /\ \A l \in Keys : \A i \in DOMAIN bound'[l] :
            i \in DOMAIN bound[l] /\ bound'[l][i] = bound[l][i]
      /\ size \in Nat /\ size' \in Nat
  BY <1>1, HandleTaken
<1>3. k \in ToSet(order) /\ order \in Seq(Keys) /\ OnceEach(order)
  BY <1>1 DEF OrderInv
<1>4. \E i \in DOMAIN order : order[i] = k
  BY <1>3 DEF ToSet
<1>5. order' \in Seq(Keys) /\ OnceEach(order') /\ ToSet(order') = ToSet(order)
  BY <1>1, <1>3, <1>4, MovedToFront
<1>6. OrderInv'
  <2>1. ASSUME NEW l \in Keys, bound'[l] # <<>> PROVE l \in ToSet(order')
    BY <1>2, <1>5, <2>1 DEF OrderInv
  <2>. QED BY <1>5, <2>1 DEF OrderInv
<1>7. ~Held(h)
  BY <1>2 DEF HandleInv, HandleOK
<1>8. Kept(k, handle[h])
  <2>1. /\ Len(bound[k]) \in DOMAIN bound[k] /\ bound[k][Len(bound[k])] = h
    BY <1>1, FrontProperties DEF BoundInv
  <2>. QED BY <1>1, <2>1 DEF SessionInv
<1>9. ASSUME NEW l \in Keys, NEW i \in DOMAIN bound'[l] PROVE bound[l][i] # h
  <2>1. i \in DOMAIN bound'[l] /\ bound'[l][i] = bound[l][i] /\ bound[l][i] \in Handle
    BY <1>2, <1>9 DEF BoundInv
  <2>2. Pooled(bound[l][i])'
    BY <1>2, <2>1, PooledAt DEF BoundInv, Pooled, ToSet
  <2>. QED BY <1>2, <2>1, <2>2
<1>. QED BY <1>1, <1>2, <1>6, <1>7, <1>8, <1>9 DEF k

(* A new handle takes the place of none, or of one that was cleaned up. *)
LEMMA MakesNew ==
    ASSUME TransportInv, NEW t \in Thread, NEW a \in Address, NEW h \in Handle, Makes(t, a, h)
    PROVE  /\ BoundInv' /\ OrderInv' /\ size' = size /\ bound' = bound
           /\ handle' = [handle EXCEPT ![h] = [NewHandle EXCEPT !.made = TRUE]]
           /\ ~Pooled(h) /\ ~Held(h)
<1> DEFINE k == GetKey(a)
<1> USE DEF TransportInv
<1>1. /\ k \in Keys
      /\ NewOf({x \in Handle : ~handle[x].made \/ handle[x].freed}, h)
      /\ handle' = [handle EXCEPT ![h] = [NewHandle EXCEPT !.made = TRUE]]
      /\ order' = IF \E i \in DOMAIN order : order[i] = k THEN ToFront(k) ELSE order
      /\ bound' = bound /\ size' = size
  BY KeyEndpoint DEF Makes
<1> HIDE DEF k
<1>2. ~Pooled(h) /\ ~Held(h)
  BY <1>1 DEF NewOf, HandleInv, HandleOK
<1>3. order' \in Seq(Keys) /\ OnceEach(order') /\ ToSet(order') = ToSet(order)
  BY <1>1, MovedToFront DEF OrderInv
<1>4. OrderInv'
  BY <1>1, <1>3 DEF OrderInv
<1>5. BoundInv'
  <2>1. Free' = Free
    BY <1>1 DEF Free, Pooled
  <2>. QED BY <1>1, <2>1 DEF BoundInv, InOnePlace
<1>. QED BY <1>1, <1>2, <1>4, <1>5

(* Either way the client has a handle of its own that is fit for the address. *)
LEMMA HandleObtained ==
    ASSUME TransportInv, NEW t \in Thread, NEW a \in Address, NEW h \in Handle,
           Reuses(t, a, h) \/ Makes(t, a, h)
    PROVE  /\ BoundInv' /\ OrderInv' /\ size' \in Nat /\ size' <= size /\ size \in Nat
           /\ ~Held(h)
           /\ \A x \in Handle : Pooled(x)' <=> Pooled(x) /\ x # h
           /\ handle' \in [Handle -> HandleStates]
           /\ \A x \in Handle \ {h} : handle'[x] = handle[x]
           /\ handle'[h].made = TRUE /\ handle'[h].freed = FALSE
           /\ handle'[h].secure => handle'[h].session = "trusted"
           /\ ~Confidential(a) => handle'[h].session = "none"
           /\ "mixed" \notin Calls /\ a.trust = "mandatory" =>
                 handle'[h].session = "none" \/ handle'[h].secure
           /\ \A k \in Keys : \A i \in DOMAIN bound'[k] : Kept(k, handle'[bound'[k][i]])
<1> USE DEF TransportInv
<1>0. size \in Nat
  BY FS_CardinalityType DEF BoundInv
<1>1. CASE Reuses(t, a, h)
  <2>1. /\ BoundInv' /\ OrderInv' /\ size' \in Nat /\ size' = size - 1
        /\ handle' = handle /\ Pooled(h) /\ ~Held(h)
        /\ \A x \in Handle : Pooled(x)' <=> Pooled(x) /\ x # h
        /\ Kept(GetKey(a), handle[h])
        /\ \A l \in Keys : \A i \in DOMAIN bound'[l] :
              i \in DOMAIN bound[l] /\ bound'[l][i] = bound[l][i] /\ bound[l][i] # h
    BY <1>1, ReusesFree
  <2>2. /\ handle[h].made = TRUE /\ handle[h].freed = FALSE
        /\ handle \in [Handle -> HandleStates] /\ handle[h] \in HandleStates
    BY <2>1, ClientTypes DEF HandleInv, HandleOK
  <2>3. /\ handle[h].secure => handle[h].session = "trusted"
        /\ ~Confidential(a) => handle[h].session = "none"
        /\ "mixed" \notin Calls /\ a.trust = "mandatory" => handle[h].secure
    BY <2>1, KeyEndpoint DEF Kept, Confidential
  <2>4. \A k \in Keys : \A i \in DOMAIN bound'[k] : Kept(k, handle'[bound'[k][i]])
    BY <2>1 DEF SessionInv
  <2>. QED BY <1>0, <2>1, <2>2, <2>3, <2>4
<1>2. CASE Makes(t, a, h)
  <2>1. /\ BoundInv' /\ OrderInv' /\ size' = size /\ bound' = bound
        /\ handle' = [handle EXCEPT ![h] = [NewHandle EXCEPT !.made = TRUE]]
        /\ ~Pooled(h) /\ ~Held(h)
    BY <1>2, MakesNew
  <2>2. /\ handle' \in [Handle -> HandleStates]
        /\ \A x \in Handle \ {h} : handle'[x] = handle[x]
        /\ handle'[h].made = TRUE /\ handle'[h].freed = FALSE
        /\ handle'[h].secure = FALSE /\ handle'[h].session = "none"
    BY <2>1 DEF HandleInv, HandleStates, NewHandle
  <2>3. \A x \in Handle : Pooled(x)' <=> Pooled(x) /\ x # h
    BY <2>1 DEF Pooled
  <2>4. \A k \in Keys : \A i \in DOMAIN bound[k] : bound[k][i] \in Handle \ {h}
    BY <2>1, PooledAt DEF BoundInv
  <2>5. \A k \in Keys : \A i \in DOMAIN bound'[k] : Kept(k, handle'[bound'[k][i]])
    BY <2>1, <2>2, <2>4 DEF SessionInv
  <2>6. /\ handle'[h].secure => handle'[h].session = "trusted"
        /\ ~Confidential(a) => handle'[h].session = "none"
        /\ "mixed" \notin Calls /\ a.trust = "mandatory" =>
              handle'[h].session = "none" \/ handle'[h].secure
    BY <2>2
  <2>7. size' \in Nat /\ size' <= size
    BY <1>0, <2>1
  <2>. QED BY <1>0, <2>1, <2>2, <2>3, <2>5, <2>6, <2>7
<1>. QED BY <1>1, <1>2

(* The sessions of clients whose handles stay as they are. *)
LEMMA OthersKept ==
    ASSUME TransportInv, NEW t \in Thread,
           \A u \in Thread \ {t} : client'[u] = client[u],
           \A u \in Thread \ {t} : client[u].handle \in Handle =>
               handle'[client[u].handle] = handle[client[u].handle]
    PROVE  \A u \in Thread \ {t} :
             /\ ClientOK(client'[u])
             /\ client'[u].state = "prepared" => Prepared(client'[u], handle'[client'[u].handle])
             /\ client'[u].state = "sent" => Sent(client'[u], handle'[client'[u].handle])
<1> SUFFICES ASSUME NEW u \in Thread \ {t}
             PROVE  /\ ClientOK(client'[u])
                    /\ client'[u].state = "prepared" => Prepared(client'[u], handle'[client'[u].handle])
                    /\ client'[u].state = "sent" => Sent(client'[u], handle'[client'[u].handle])
  OBVIOUS
<1>1. client'[u] = client[u] /\ ClientOK(client[u])
  BY DEF TransportInv, ClientInv
<1>2. client[u].state \in {"prepared", "sent"} => handle'[client'[u].handle] = handle[client[u].handle]
  BY <1>1 DEF ClientOK
<1>. QED BY <1>1, <1>2 DEF TransportInv, SessionInv

LEMMA OpensInv ==
    ASSUME TransportInv, NEW t \in Thread, Opens(t)
    PROVE  TransportInv'
<1>1. PICK a \in Address, h \in Handle, trust \in Trust :
         /\ trust = a.trust \/ "mixed" \in Calls
         /\ Reuses(t, a, h) \/ Makes(t, a, h)
         /\ client' = [client EXCEPT ![t] =
                           [NoClient EXCEPT !.state = "prepared", !.address = a,
                                            !.handle = h, !.trust = trust]]
  BY DEF Opens
<1>2. /\ evicting = Null /\ evicting' = Null
      /\ client[t].state = "none" \/ "resend" \in Calls
  BY DEF Opens
<1>3. /\ BoundInv' /\ OrderInv' /\ size' \in Nat /\ size' <= size /\ size \in Nat
      /\ ~Held(h)
      /\ \A x \in Handle : Pooled(x)' <=> Pooled(x) /\ x # h
      /\ handle' \in [Handle -> HandleStates]
      /\ \A x \in Handle \ {h} : handle'[x] = handle[x]
      /\ handle'[h].made = TRUE /\ handle'[h].freed = FALSE
      /\ handle'[h].secure => handle'[h].session = "trusted"
      /\ ~Confidential(a) => handle'[h].session = "none"
      /\ "mixed" \notin Calls /\ a.trust = "mandatory" =>
            handle'[h].session = "none" \/ handle'[h].secure
      /\ \A k \in Keys : \A i \in DOMAIN bound'[k] : Kept(k, handle'[bound'[k][i]])
  BY <1>1, HandleObtained
<1>4. /\ client \in [Thread -> Clients] /\ client' \in [Thread -> Clients]
      /\ client'[t].state = "prepared" /\ client'[t].address = a /\ client'[t].handle = h
      /\ client'[t].trust = trust /\ client'[t].keep = FALSE /\ client'[t].authenticated = FALSE
      /\ \A u \in Thread \ {t} : client'[u] = client[u]
  BY <1>1 DEF TransportInv, ClientInv, Clients, NoClient, States
<1>5. \A u \in Thread \ {t} : client[u].handle # h
  BY <1>3 DEF Held
<1>6. \A u \in Thread \ {t} :
         /\ ClientOK(client'[u])
         /\ client'[u].state = "prepared" => Prepared(client'[u], handle'[client'[u].handle])
         /\ client'[u].state = "sent" => Sent(client'[u], handle'[client'[u].handle])
  <2>1. \A u \in Thread \ {t} : client[u].handle \in Handle =>
            handle'[client[u].handle] = handle[client[u].handle]
    BY <1>3, <1>5
  <2>. QED BY <1>4, <2>1, OthersKept
<1>7. ClientInv'
  <2>1. ClientOK(client'[t])
    BY <1>1, <1>4 DEF ClientOK
  <2>2. \A u \in Thread : ClientOK(client'[u])
    BY <1>6, <2>1
  <2>3. \A u, v \in Thread : client'[u].handle \in {client'[v].handle} \ {Null} => u = v
    BY <1>4, <1>5 DEF TransportInv, ClientInv
  <2>. QED BY <1>4, <2>2, <2>3 DEF ClientInv
<1>8. HandleInv'
  <2>1. ASSUME NEW x \in Handle \ {h} PROVE HandleOK(x)'
    <3>1. handle'[x] = handle[x] /\ HandleOK(x) /\ (Pooled(x)' <=> Pooled(x))
      BY <1>3 DEF TransportInv, HandleInv
    <3>2. Held(x)' => Held(x)
      BY <1>4 DEF Held
    <3>3. Held(x) => Held(x)' \/ "resend" \in Calls
      <4>1. client[t].state = "none" => client[t].handle # x
        BY ClientTypes, TransportAssumption DEF TransportInv, ClientInv, ClientOK
      <4>. QED BY <1>2, <1>4, <4>1 DEF Held
    <3>. QED BY <3>1, <3>2, <3>3 DEF HandleOK
  <2>2. HandleOK(h)'
    <3>1. Held(h)' /\ ~Pooled(h)'
      BY <1>3, <1>4 DEF Held
    <3>. QED BY <1>3, <3>1 DEF HandleOK
  <2>. QED BY <1>3, <2>1, <2>2 DEF HandleInv
<1>9. RoomInv'
  BY <1>2, <1>3, TransportAssumption DEF TransportInv, RoomInv
<1>10. SessionInv'
  <2>1. Prepared(client'[t], handle'[client'[t].handle])
    BY <1>1, <1>3, <1>4 DEF Prepared
  <2>. QED BY <1>3, <1>4, <1>6, <2>1 DEF SessionInv
<1>. QED BY <1>3, <1>7, <1>8, <1>9, <1>10 DEF TransportInv

LEMMA PerformsInv ==
    ASSUME TransportInv, NEW t \in Thread, Performs(t)
    PROVE  TransportInv'
<1> DEFINE c == client[t]
           h == handle[c.handle]
<1>1. PICK ok \in BOOLEAN, used \in Sessions(c, h) :
         /\ ok => ~(used[2] = FALSE /\ c.trust = "mandatory")
         /\ handle' = [handle EXCEPT ![c.handle].session = used[1]]
         /\ client' = [client EXCEPT
                ![t].state = IF ok THEN "sent" ELSE "failed",
                ![t].keep = ok,
                ![t].authenticated = ok /\ (IF used[2] = Null THEN Restored(c, h) ELSE used[2])]
  BY DEF Performs
<1>2. /\ c.state = "prepared" /\ (c.trust = "mandatory" => Confidential(c.address))
      /\ UNCHANGED <<bound, order, size, evicting>>
  BY DEF Performs
<1>3. /\ client \in [Thread -> Clients] /\ c \in Clients /\ ClientOK(c)
      /\ c.handle \in Handle /\ c.address \in Address
      /\ handle \in [Handle -> HandleStates] /\ h \in HandleStates
      /\ Prepared(c, h) /\ HandleOK(c.handle)
  BY <1>2 DEF TransportInv, ClientInv, ClientOK, HandleInv, SessionInv
<1> HIDE DEF c, h
<1> DEFINE said == IF used[2] = Null THEN Restored(c, h) ELSE used[2]
<1>4. /\ used[1] \in {"none", "unchecked", "untrusted", "trusted"}
      /\ ~Confidential(c.address) => used[1] = "none"
      /\ said \in BOOLEAN
      /\ said = TRUE => used[1] = "trusted"
      /\ ("mixed" \notin Calls /\ c.trust = "mandatory" /\ used[2] = Null) => said = TRUE
  <2>1. h.secure \in BOOLEAN /\ h.session \in {"none", "unchecked", "untrusted", "trusted"}
    BY <1>3 DEF HandleStates
  <2>2. CASE ~Confidential(c.address)
    <3>1. used = <<"none", Null>>
      BY <2>2 DEF Sessions
    <3>2. used[1] = "none" /\ used[2] = Null
      BY <3>1
    <3>3. h.secure = FALSE
      BY <1>3, <2>1, <2>2 DEF Prepared
    <3>4. said = FALSE
      BY <3>2, <3>3 DEF Restored
    <3>. QED BY <1>2, <2>2, <3>2, <3>4
  <2>3. CASE Confidential(c.address)
    <3>0. \/ \E s \in {h.session} \ {"none"} : used = <<s, Null>>
          \/ c.trust = "none" /\ used = <<"unchecked", Null>>
          \/ used = <<"trusted", TRUE>>
          \/ used = <<"untrusted", FALSE>>
      <4>1. used \in {<<s, Null>> : s \in {h.session} \ {"none"}}
                     \cup (IF c.trust = "none" THEN {<<"unchecked", Null>>}
                           ELSE {<<"trusted", TRUE>>, <<"untrusted", FALSE>>})
        BY <2>3 DEF Sessions
      <4>2. CASE c.trust = "none"
        BY <4>1, <4>2
      <4>3. CASE c.trust # "none"
        BY <4>1, <4>3, Zenon
      <4>. QED BY <4>2, <4>3
    <3>1. CASE used[2] = Null
      <4>1. \/ used[1] = h.session /\ h.session # "none"
            \/ used[1] = "unchecked" /\ c.trust = "none"
        <5>1. CASE \E s \in {h.session} \ {"none"} : used = <<s, Null>>
          BY <5>1
        <5>2. CASE c.trust = "none" /\ used = <<"unchecked", Null>>
          BY <5>2
        <5>3. used # <<"trusted", TRUE>> /\ used # <<"untrusted", FALSE>>
          <6>1. used[2] # TRUE /\ used[2] # FALSE
            BY <3>1, TransportAssumption, Zenon
          <6>2. <<"trusted", TRUE>>[2] = TRUE /\ <<"untrusted", FALSE>>[2] = FALSE
            OBVIOUS
          <6>. QED BY <6>1, <6>2, Zenon
        <5>. QED BY <3>0, <5>1, <5>2, <5>3
      <4>2. said = (c.trust # "none" /\ h.secure)
        BY <3>1 DEF Restored
      <4> HIDE DEF said
      <4>3. CASE c.trust = "none"
        <5>1. said = FALSE
          BY <4>2, <4>3
        <5>. QED BY <2>1, <2>3, <4>1, <4>3, <5>1
      <4>4. CASE c.trust # "none" /\ h.secure = TRUE
        <5>1. said = TRUE
          BY <4>2, <4>4
        <5>2. used[1] = "trusted"
          BY <1>3, <4>1, <4>4 DEF Prepared
        <5>. QED BY <2>3, <5>1, <5>2
      <4>5. CASE c.trust # "none" /\ h.secure = FALSE
        <5>1. said = FALSE
          BY <4>2, <4>5
        <5>2. ~("mixed" \notin Calls /\ c.trust = "mandatory")
          BY <1>3, <4>1, <4>5 DEF Prepared
        <5>. QED BY <2>1, <2>3, <4>1, <4>5, <5>1, <5>2
      <4>. QED BY <2>1, <4>3, <4>4, <4>5
    <3>2. CASE used[2] # Null
      <4>1. used = <<"trusted", TRUE>> \/ used = <<"untrusted", FALSE>>
        <5>1. CASE \E s \in {h.session} \ {"none"} : used = <<s, Null>>
          BY <3>2, <5>1
        <5>2. CASE c.trust = "none" /\ used = <<"unchecked", Null>>
          BY <3>2, <5>2
        <5>. QED BY <3>0, <5>1, <5>2, Zenon
      <4>2. CASE used = <<"trusted", TRUE>>
        <5>1. used[1] = "trusted" /\ used[2] = TRUE
          BY <4>2
        <5>2. said = TRUE
          BY <3>2, <5>1
        <5>. QED BY <2>3, <3>2, <5>1, <5>2
      <4>3. CASE used = <<"untrusted", FALSE>>
        <5>1. used[1] = "untrusted" /\ used[2] = FALSE
          BY <4>3
        <5>2. said = FALSE
          BY <3>2, <5>1
        <5>. QED BY <2>3, <3>2, <5>1, <5>2
      <4>. QED BY <4>1, <4>2, <4>3
    <3>. QED BY <3>1, <3>2
  <2>. QED BY <2>2, <2>3
<1>5. /\ client' \in [Thread -> Clients]
      /\ client'[t].state = IF ok THEN "sent" ELSE "failed"
      /\ client'[t].keep = ok
      /\ client'[t].authenticated = (ok /\ said)
      /\ client'[t].trust = c.trust /\ client'[t].address = c.address /\ client'[t].handle = c.handle
      /\ \A u \in Thread \ {t} : client'[u] = client[u]
  BY <1>1, <1>3, <1>4 DEF Clients, States, c
<1> HIDE DEF said
<1>6. /\ handle' \in [Handle -> HandleStates]
      /\ handle'[c.handle].session = used[1]
      /\ \A x \in Handle \ {c.handle} : handle'[x] = handle[x]
      /\ \A x \in Handle : handle'[x].made = handle[x].made /\ handle'[x].freed = handle[x].freed
  BY <1>1, <1>3, <1>4 DEF HandleStates
<1>7. \A u \in Thread : client'[u].handle = client[u].handle
  BY <1>5 DEF c
<1>8. \A u \in Thread \ {t} : client[u].handle # c.handle
  BY <1>3, TransportAssumption DEF TransportInv, ClientInv, c
<1>9. BoundInv' /\ OrderInv' /\ \A x \in Handle : Pooled(x)' <=> Pooled(x)
  <2>1. Free' = Free /\ \A x \in Handle : Pooled(x)' <=> Pooled(x)
    BY <1>2 DEF Free, Pooled
  <2>. QED BY <1>2, <2>1 DEF TransportInv, BoundInv, InOnePlace, OrderInv
<1>10. \A u \in Thread \ {t} :
         /\ ClientOK(client'[u])
         /\ client'[u].state = "prepared" => Prepared(client'[u], handle'[client'[u].handle])
         /\ client'[u].state = "sent" => Sent(client'[u], handle'[client'[u].handle])
  BY <1>5, <1>6, <1>8, OthersKept
<1>11. ClientInv'
  <2>1. ClientOK(client'[t])
    BY <1>2, <1>3, <1>5 DEF ClientOK
  <2>2. \A u \in Thread : ClientOK(client'[u])
    BY <1>10, <2>1
  <2>3. \A u, v \in Thread : client'[u].handle \in {client'[v].handle} \ {Null} => u = v
    BY <1>7 DEF TransportInv, ClientInv
  <2>. QED BY <1>5, <2>2, <2>3 DEF ClientInv
<1>12. HandleInv'
  <2>1. \A x \in Handle : Held(x)' <=> Held(x)
    BY <1>7 DEF Held
  <2>. QED BY <1>6, <1>9, <2>1 DEF TransportInv, HandleInv, HandleOK
<1>13. RoomInv'
  <2>1. evicting # Null => evicting # t
    BY <1>2, ClientTypes DEF TransportInv, RoomInv, c
  <2>. QED BY <1>2, <1>5, <2>1 DEF TransportInv, RoomInv
<1>14. SessionInv'
  <2>1. ASSUME NEW k \in Keys, NEW i \in DOMAIN bound[k] PROVE Kept(k, handle'[bound[k][i]])
    <3>1. Held(c.handle)
      BY DEF Held, c
    <3>2. Pooled(bound[k][i]) /\ bound[k][i] \in Handle
      BY <2>1, PooledAt DEF TransportInv, BoundInv
    <3>3. bound[k][i] # c.handle
      BY <1>3, <3>1, <3>2 DEF HandleOK
    <3>. QED BY <1>6, <2>1, <3>2, <3>3 DEF TransportInv, SessionInv
  <2>2. client'[t].state = "sent" => Sent(client'[t], handle'[client'[t].handle])
    <3> SUFFICES ASSUME client'[t].state = "sent" PROVE Sent(client'[t], handle'[client'[t].handle])
      OBVIOUS
    <3>1. ok = TRUE /\ client'[t].authenticated = said
      BY <1>4, <1>5
    <3>2. "mixed" \notin Calls /\ c.trust = "mandatory" => said = TRUE
      BY <1>1, <1>4, <3>1 DEF said
    <3>. QED BY <1>4, <1>5, <1>6, <3>1, <3>2 DEF Sent
  <2>3. client'[t].state # "prepared"
    BY <1>5
  <2>. QED BY <1>2, <1>10, <2>1, <2>2, <2>3 DEF SessionInv
<1>. QED BY <1>9, <1>11, <1>12, <1>13, <1>14 DEF TransportInv

LEMMA BlockedInv ==
    ASSUME TransportInv, NEW t \in Thread, Blocked(t)
    PROVE  TransportInv'
<1>1. /\ client[t].state = "prepared" /\ client' = [client EXCEPT ![t].state = "failed"]
      /\ UNCHANGED <<bound, order, size, handle, evicting>>
  BY DEF Blocked
<1>2. client[t] \in Clients /\ client \in [Thread -> Clients] /\ ClientOK(client[t])
  BY DEF TransportInv, ClientInv
<1>3. /\ client' \in [Thread -> Clients]
      /\ client'[t].state = "failed" /\ client'[t].keep = client[t].keep
      /\ client'[t].trust = client[t].trust /\ client'[t].address = client[t].address
      /\ client'[t].handle = client[t].handle
      /\ \A u \in Thread \ {t} : client'[u] = client[u]
  BY <1>1, <1>2 DEF Clients, States
<1>4. \A u \in Thread : client'[u].handle = client[u].handle
  BY <1>3
<1>5. BoundInv' /\ OrderInv' /\ \A x \in Handle : Pooled(x)' <=> Pooled(x)
  <2>1. Free' = Free /\ \A x \in Handle : Pooled(x)' <=> Pooled(x)
    BY <1>1 DEF Free, Pooled
  <2>. QED BY <1>1, <2>1 DEF TransportInv, BoundInv, InOnePlace, OrderInv
<1>6. ClientInv'
  <2>1. ClientOK(client'[t])
    BY <1>1, <1>2, <1>3 DEF ClientOK
  <2>2. \A u \in Thread : ClientOK(client'[u])
    BY <1>3, <2>1 DEF TransportInv, ClientInv
  <2>. QED BY <1>3, <1>4, <2>2 DEF TransportInv, ClientInv
<1>7. HandleInv'
  <2>1. \A x \in Handle : Held(x)' <=> Held(x)
    BY <1>4 DEF Held
  <2>. QED BY <1>1, <1>5, <2>1 DEF TransportInv, HandleInv, HandleOK
<1>8. RoomInv'
  <2>1. evicting # Null => evicting # t
    BY <1>1, ClientTypes DEF TransportInv, RoomInv
  <2>. QED BY <1>1, <1>3, <2>1 DEF TransportInv, RoomInv
<1>9. SessionInv'
  BY <1>1, <1>3 DEF TransportInv, SessionInv
<1>. QED BY <1>5, <1>6, <1>7, <1>8, <1>9 DEF TransportInv

(* Nothing moves in the pools. *)
LEMMA BoundKept ==
    ASSUME BoundInv, UNCHANGED <<bound, size>>
    PROVE  BoundInv' /\ \A x \in Handle : Pooled(x)' <=> Pooled(x)
<1>1. Free' = Free /\ \A x \in Handle : Pooled(x)' <=> Pooled(x)
  BY DEF Free, Pooled
<1>. QED BY <1>1 DEF BoundInv, InOnePlace

(* The transport of a client is gone, and its handle with nobody. *)
LEMMA LetHandleGo ==
    ASSUME ClientInv, NEW t \in Thread, client[t].handle \in Handle,
           client' = [client EXCEPT ![t] = NoClient]
    PROVE  /\ ClientInv' /\ client'[t] = NoClient
           /\ \A u \in Thread \ {t} : client'[u] = client[u]
           /\ \A x \in Handle : Held(x)' <=> Held(x) /\ x # client[t].handle
<1>1. /\ client' \in [Thread -> Clients] /\ client'[t] = NoClient
      /\ \A u \in Thread \ {t} : client'[u] = client[u]
  BY ClientTypes DEF ClientInv
<1>2. ClientOK(NoClient)
  BY ClientTypes DEF ClientOK
<1>3. \A u \in Thread : ClientOK(client'[u])
  BY <1>1, <1>2 DEF ClientInv
<1>4. \A u \in Thread : client'[u].handle # Null => u # t /\ client'[u].handle = client[u].handle
  BY <1>1, ClientTypes
<1>5. \A u, v \in Thread : client'[u].handle \in {client'[v].handle} \ {Null} => u = v
  BY <1>4 DEF ClientInv
<1>6. ASSUME NEW x \in Handle PROVE Held(x)' <=> Held(x) /\ x # client[t].handle
  <2>1. x # Null
    BY TransportAssumption
  <2>2. \A u \in Thread \ {t} : client[u].handle # client[t].handle
    BY TransportAssumption DEF ClientInv
  <2>. QED BY <1>1, <1>4, <2>1, <2>2 DEF Held
<1>. QED BY <1>1, <1>3, <1>5, <1>6 DEF ClientInv

(* A handle that served goes to the pool of the address it served. *)
LEMMA KeptHandle ==
    ASSUME TransportInv, NEW t \in Thread, client[t].keep, evicting = Null,
           NEW h, h = client[t].handle, NEW k, k = PutKey(client[t].address),
           client' = [client EXCEPT ![t] = NoClient],
           handle' = [handle EXCEPT ![h].secure = client[t].authenticated],
           Put(t, k)
    PROVE  TransportInv'
<1> DEFINE c == client[t]
<1>1. /\ c \in Clients /\ c.state = "sent" /\ h \in Handle /\ c.address \in Address
      /\ ("mixed" \notin Calls => c.trust = c.address.trust)
      /\ Sent(c, handle[h])
  BY DEF TransportInv, ClientInv, ClientOK, SessionInv
<1>2. /\ bound' = [bound EXCEPT ![k] = Append(@, h)] /\ size' = size + 1
      /\ order' = IF \E i \in DOMAIN order : order[i] = k THEN order ELSE <<k>> \o order
      /\ evicting' = IF size + 1 > ConnPoolMax THEN t ELSE Null
  BY DEF Put
<1>3. k \in Keys /\ k[1] = c.address.endpoint
  BY <1>1, KeyEndpoint
<1>4. /\ ClientInv' /\ client'[t] = NoClient
      /\ \A u \in Thread \ {t} : client'[u] = client[u]
      /\ \A x \in Handle : Held(x)' <=> Held(x) /\ x # h
  BY <1>1, LetHandleGo DEF TransportInv
<1>5. /\ handle' \in [Handle -> HandleStates] /\ handle[h] \in HandleStates
      /\ handle'[h].made = handle[h].made /\ handle'[h].freed = handle[h].freed
      /\ handle'[h].session = handle[h].session
      /\ handle'[h].secure = c.authenticated
      /\ \A x \in Handle \ {h} : handle'[x] = handle[x]
  BY <1>1 DEF TransportInv, HandleInv, HandleStates, Clients
<1>6. Held(h) /\ ~Pooled(h)
  BY <1>1 DEF Held, TransportInv, HandleInv, HandleOK
<1>7. /\ BoundInv' /\ size \in Nat
      /\ \A x \in Handle : Pooled(x)' <=> Pooled(x) \/ x = h
      /\ \A l \in Keys \ {k} : bound'[l] = bound[l]
      /\ \A l \in Keys : \A i \in DOMAIN bound'[l] :
            \/ i \in DOMAIN bound[l] /\ bound'[l][i] = bound[l][i]
            \/ l = k /\ bound'[l][i] = h
  <2>1. bound' = [bound EXCEPT ![k] = Append(@, h)] /\ size' = size + 1
    BY <1>2
  <2>2. BoundInv /\ k \in Keys /\ h \in Handle /\ ~Pooled(h)
    BY <1>1, <1>3, <1>6 DEF TransportInv
  <2>3. BoundInv' /\ size \in Nat /\ \A x \in Handle : Pooled(x)' <=> Pooled(x) \/ x = h
    BY <2>1, <2>2, HandlePut
  <2>4. \A l \in Keys \ {k} : bound'[l] = bound[l]
    BY <2>1, <2>2, HandlePut
  <2>5. \A l \in Keys : \A i \in DOMAIN bound'[l] :
            \/ i \in DOMAIN bound[l] /\ bound'[l][i] = bound[l][i]
            \/ l = k /\ bound'[l][i] = h
    BY <2>1, <2>2, HandlePut
  <2>. QED BY <2>3, <2>4, <2>5
<1>8. \A u \in Thread \ {t} : client[u].handle \in Handle =>
         handle'[client[u].handle] = handle[client[u].handle]
  BY <1>1, <1>5, TransportAssumption DEF TransportInv, ClientInv
<1>9. \A u \in Thread \ {t} :
         /\ client'[u].state = "prepared" => Prepared(client'[u], handle'[client'[u].handle])
         /\ client'[u].state = "sent" => Sent(client'[u], handle'[client'[u].handle])
  BY <1>4, <1>8, OthersKept
<1>10. Kept(k, handle'[h])
  <2>1. handle'[h].secure => handle'[h].session = "trusted"
    BY <1>1, <1>5 DEF Sent
  <2>2. k[1] # "https" => handle'[h].session = "none"
    BY <1>1, <1>3, <1>5 DEF Sent, Confidential
  <2>3. ASSUME "mixed" \notin Calls, NEW a \in Address, GetKey(a) = k, a.trust = "mandatory"
        PROVE  handle'[h].secure
    <3>1. c.trust = "mandatory"
      BY <1>1, <2>3, TrustAssumption
    <3>. QED BY <1>1, <1>5, <2>3, <3>1 DEF Sent
  <2>. QED BY <2>1, <2>2, <2>3 DEF Kept
<1> HIDE DEF c
<1>11. OrderInv'
  <2>1. order' \in Seq(Keys) /\ OnceEach(order') /\ ToSet(order) \cup {k} \subseteq ToSet(order')
    <3>1. CASE k \in ToSet(order)
      <4>1. order' = order
        BY <1>2, <3>1 DEF ToSet
      <4>. QED BY <3>1, <4>1 DEF TransportInv, OrderInv
    <3>2. CASE k \notin ToSet(order)
      <4>1. order' = <<k>> \o order
        BY <1>2, <3>2 DEF ToSet
      <4>. QED BY <1>3, <3>2, <4>1, PutInFront DEF TransportInv, OrderInv
    <3>. QED BY <3>1, <3>2
  <2>2. ASSUME NEW l \in Keys, bound'[l] # <<>> PROVE l \in ToSet(order')
    BY <1>7, <2>1, <2>2 DEF TransportInv, OrderInv
  <2>. QED BY <2>1, <2>2 DEF OrderInv
<1>12. HandleInv'
  <2>1. ASSUME NEW x \in Handle PROVE HandleOK(x)'
    BY <1>4, <1>5, <1>6, <1>7 DEF TransportInv, HandleInv, HandleOK
  <2>. QED BY <1>5, <2>1 DEF HandleInv
<1>13. RoomInv'
  <2>1. size <= ConnPoolMax /\ size \in Nat /\ ConnPoolMax \in Nat
    BY <1>7, TransportAssumption DEF TransportInv, RoomInv
  <2>2. CASE size + 1 > ConnPoolMax
    <3>1. evicting' = t /\ size' = ConnPoolMax + 1
      BY <1>2, <2>1, <2>2
    <3>. QED BY <1>4, <3>1, TransportAssumption DEF RoomInv
  <2>3. CASE ~(size + 1 > ConnPoolMax)
    <3>1. evicting' = Null /\ size' <= ConnPoolMax
      BY <1>2, <2>1, <2>3
    <3>. QED BY <3>1 DEF RoomInv
  <2>. QED BY <2>2, <2>3
<1>14. SessionInv'
  <2>1. ASSUME NEW l \in Keys, NEW i \in DOMAIN bound'[l] PROVE Kept(l, handle'[bound'[l][i]])
    <3>1. CASE i \in DOMAIN bound[l] /\ bound'[l][i] = bound[l][i]
      <4>1. Pooled(bound[l][i]) /\ bound[l][i] \in Handle
        BY <3>1, PooledAt DEF TransportInv, BoundInv
      <4>2. bound[l][i] # h
        BY <1>6, <4>1
      <4>. QED BY <1>5, <3>1, <4>1, <4>2 DEF TransportInv, SessionInv
    <3>2. CASE l = k /\ bound'[l][i] = h
      BY <1>10, <3>2
    <3>. QED BY <1>7, <3>1, <3>2
  <2>2. client'[t].state # "prepared" /\ client'[t].state # "sent"
    BY <1>4, ClientTypes
  <2>. QED BY <1>9, <2>1, <2>2 DEF SessionInv
<1>. QED BY <1>4, <1>7, <1>11, <1>12, <1>13, <1>14 DEF TransportInv

(* A handle is cleaned up while it is with nobody else. *)
LEMMA FreedHandle ==
    ASSUME TransportInv, NEW t \in Thread, client[t].handle \in Handle,
           client' = [client EXCEPT ![t] = NoClient],
           handle' = [handle EXCEPT ![client[t].handle] = Freed],
           UNCHANGED <<bound, order, size, evicting>>
    PROVE  TransportInv'
<1> DEFINE h == client[t].handle
<1>1. /\ ClientInv' /\ client'[t] = NoClient
      /\ \A u \in Thread \ {t} : client'[u] = client[u]
      /\ \A x \in Handle : Held(x)' <=> Held(x) /\ x # h
  BY LetHandleGo DEF TransportInv
<1>2. /\ handle' \in [Handle -> HandleStates] /\ handle'[h] = Freed
      /\ \A x \in Handle \ {h} : handle'[x] = handle[x]
  BY ClientTypes DEF TransportInv, HandleInv
<1>3. Held(h) /\ ~Pooled(h) /\ h \in Handle
  BY DEF Held, TransportInv, HandleInv, HandleOK
<1>4. BoundInv' /\ \A x \in Handle : Pooled(x)' <=> Pooled(x)
  BY BoundKept DEF TransportInv
<1>5. \A u \in Thread \ {t} : client[u].handle \in Handle =>
         handle'[client[u].handle] = handle[client[u].handle]
  BY <1>2, <1>3, TransportAssumption DEF TransportInv, ClientInv
<1>6. \A u \in Thread \ {t} :
         /\ client'[u].state = "prepared" => Prepared(client'[u], handle'[client'[u].handle])
         /\ client'[u].state = "sent" => Sent(client'[u], handle'[client'[u].handle])
  BY <1>1, <1>5, OthersKept
<1> HIDE DEF h
<1>7. OrderInv'
  BY DEF TransportInv, OrderInv
<1>8. HandleInv'
  <2>1. ASSUME NEW x \in Handle PROVE HandleOK(x)'
    BY <1>1, <1>2, <1>3, <1>4, ClientTypes DEF TransportInv, HandleInv, HandleOK
  <2>. QED BY <1>2, <2>1 DEF HandleInv
<1>9. RoomInv'
  BY <1>1 DEF TransportInv, RoomInv
<1>10. SessionInv'
  <2>1. ASSUME NEW l \in Keys, NEW i \in DOMAIN bound[l] PROVE Kept(l, handle'[bound[l][i]])
    <3>1. Pooled(bound[l][i]) /\ bound[l][i] \in Handle
      BY PooledAt DEF TransportInv, BoundInv
    <3>. QED BY <1>2, <1>3, <3>1 DEF TransportInv, SessionInv
  <2>2. client'[t].state # "prepared" /\ client'[t].state # "sent"
    BY <1>1, ClientTypes
  <2>. QED BY <1>6, <2>1, <2>2 DEF SessionInv
<1>. QED BY <1>1, <1>4, <1>7, <1>8, <1>9, <1>10 DEF TransportInv

LEMMA ClosesInv ==
    ASSUME TransportInv, NEW t \in Thread, Closes(t)
    PROVE  TransportInv'
<1>1. client[t].handle \in Handle
  BY DEF Closes, TransportInv, ClientInv, ClientOK
<1>2. CASE client[t].keep
  BY <1>2, KeptHandle DEF Closes
<1>3. CASE ~client[t].keep
  BY <1>1, <1>3, FreedHandle DEF Closes
<1>. QED BY <1>2, <1>3

LEMMA KillsInv ==
    ASSUME TransportInv, NEW t \in Thread, Kills(t)
    PROVE  TransportInv'
<1>1. client[t].handle \in Handle
  BY DEF Kills, TransportInv, ClientInv, ClientOK
<1>. QED BY <1>1, FreedHandle DEF Kills

(* Where there is a handle too many, there is a pool to search. *)
LEMMA SomePool ==
    ASSUME TransportInv, evicting # Null
    PROVE  order # <<>> /\ Last(order) \in Keys
<1>1. size \in Nat /\ size # 0
  BY FS_CardinalityType, TransportAssumption DEF TransportInv, BoundInv, RoomInv
<1>2. Free # {}
  BY <1>1, FS_EmptySet DEF TransportInv, BoundInv
<1>3. PICK k \in Keys : \E h \in Handle : h \in ToSet(bound[k])
  BY <1>2 DEF Free, Pooled
<1>4. bound[k] # <<>>
  BY <1>3 DEF ToSet
<1>5. k \in ToSet(order)
  BY <1>4 DEF TransportInv, OrderInv
<1>6. order # <<>>
  BY <1>5 DEF ToSet
<1>. QED BY <1>6, FrontProperties DEF TransportInv, OrderInv

LEMMA RotatesInv ==
    ASSUME TransportInv, NEW t \in Thread, Rotates(t)
    PROVE  TransportInv'
<1>1. /\ evicting # Null /\ order' = <<Last(order)>> \o Front(order)
      /\ UNCHANGED <<bound, size, handle, client, evicting>>
  BY TransportAssumption DEF Rotates
<1>2. order' \in Seq(Keys) /\ OnceEach(order') /\ ToSet(order') = ToSet(order)
  BY <1>1, SomePool, RotatedToFront DEF TransportInv, OrderInv
<1>3. BoundInv' /\ \A x \in Handle : Pooled(x)' <=> Pooled(x)
  BY <1>1, BoundKept DEF TransportInv
<1>4. OrderInv'
  BY <1>1, <1>2 DEF TransportInv, OrderInv
<1>5. HandleInv'
  BY <1>1, <1>3 DEF TransportInv, HandleInv, HandleOK, Held
<1>6. ClientInv' /\ RoomInv' /\ SessionInv'
  BY <1>1 DEF TransportInv, ClientInv, RoomInv, SessionInv
<1>. QED BY <1>3, <1>4, <1>5, <1>6 DEF TransportInv

LEMMA KicksInv ==
    ASSUME TransportInv, NEW t \in Thread, Kicks(t)
    PROVE  TransportInv'
<1> DEFINE k == Last(order)
           h == Last(bound[k])
<1>1. /\ evicting = t /\ bound[k] # <<>>
      /\ bound' = [bound EXCEPT ![k] = Front(@)] /\ size' = size - 1
      /\ client' = [client EXCEPT ![t] = [NoClient EXCEPT !.state = "kill", !.handle = h]]
      /\ evicting' = Null
      /\ UNCHANGED <<order, handle>>
  BY DEF Kicks
<1>2. evicting # Null /\ k \in Keys
  BY <1>1, SomePool, TransportAssumption
<1> HIDE DEF k
<1>3. /\ BoundInv' /\ h \in Handle /\ Pooled(h)
      /\ \A x \in Handle : Pooled(x)' <=> Pooled(x) /\ x # h
      /\ \A l \in Keys : bound'[l] # <<>> => bound[l] # <<>>
      /\ \A l \in Keys : \A i \in DOMAIN bound'[l] :
            i \in DOMAIN bound[l] /\ bound'[l][i] = bound[l][i]
      /\ size \in Nat /\ size' \in Nat
  BY <1>1, <1>2, HandleTaken DEF TransportInv
<1> HIDE DEF h
<1>4. client[t] = NoClient /\ size = ConnPoolMax + 1
  BY <1>1, <1>2 DEF TransportInv, RoomInv
<1>5. /\ client' \in [Thread -> Clients] /\ client'[t].state = "kill"
      /\ client'[t].handle = h /\ client'[t].keep = FALSE
      /\ \A u \in Thread \ {t} : client'[u] = client[u]
  BY <1>1, <1>3 DEF TransportInv, ClientInv, Clients, NoClient, States, Trust
<1>6. \A u \in Thread : client[u].handle # h
  BY <1>3 DEF TransportInv, HandleInv, HandleOK, Held
<1>7. ClientInv'
  <2>1. ClientOK(client'[t])
    BY <1>3, <1>5 DEF ClientOK
  <2>2. \A u \in Thread : ClientOK(client'[u])
    BY <1>5, <2>1 DEF TransportInv, ClientInv
  <2>3. \A u, v \in Thread : client'[u].handle \in {client'[v].handle} \ {Null} => u = v
    BY <1>5, <1>6 DEF TransportInv, ClientInv
  <2>. QED BY <1>5, <2>2, <2>3 DEF ClientInv
<1>8. OrderInv'
  BY <1>1, <1>3 DEF TransportInv, OrderInv
<1>9. HandleInv'
  <2>1. ASSUME NEW x \in Handle PROVE HandleOK(x)'
    <3>1. Held(x)' <=> Held(x) \/ x = h
      <4>1. client[t].handle # x
        BY <1>4, ClientTypes, TransportAssumption
      <4>. QED BY <1>5, <4>1 DEF Held
    <3>2. handle'[x] = handle[x]
      BY <1>1
    <3>. QED BY <1>3, <3>1, <3>2 DEF TransportInv, HandleInv, HandleOK
  <2>. QED BY <1>1, <2>1 DEF TransportInv, HandleInv
<1>10. RoomInv'
  BY <1>1, <1>3, <1>4, TransportAssumption DEF RoomInv
<1>11. SessionInv'
  <2>1. ASSUME NEW l \in Keys, NEW i \in DOMAIN bound'[l] PROVE Kept(l, handle'[bound'[l][i]])
    BY <1>1, <1>3 DEF TransportInv, SessionInv
  <2>. QED BY <1>1, <1>5, <2>1 DEF TransportInv, SessionInv
<1>. QED BY <1>3, <1>7, <1>8, <1>9, <1>10, <1>11 DEF TransportInv

LEMMA SendPutInv ==
    ASSUME TransportInv, NEW t \in Thread, SendStep(t) \/ PutStep(t)
    PROVE  TransportInv'
  BY OpensInv, PerformsInv, BlockedInv, ClosesInv, RotatesInv, KicksInv, KillsInv
  DEF SendStep, PutStep

LEMMA TransportInitInv == TransportInit => TransportInv
<1> SUFFICES ASSUME TransportInit PROVE TransportInv
  OBVIOUS
<1> USE DEF TransportInit
<1>1. \A k \in Keys : bound[k] = <<>>
  OBVIOUS
<1>2. \A x : ~Pooled(x)
  BY <1>1 DEF Pooled, ToSet
<1>3. Free = {}
  BY <1>2 DEF Free
<1>4. BoundInv
  BY <1>1, <1>3, FS_EmptySet DEF BoundInv, InOnePlace
<1>5. OrderInv
  BY <1>1 DEF OrderInv, OnceEach
<1>6. \A t \in Thread : client[t] = NoClient
  OBVIOUS
<1>7. \A x \in Handle : ~Held(x)
  BY <1>6, ClientTypes, TransportAssumption DEF Held
<1>8. ClientInv
  BY <1>6, ClientTypes DEF ClientInv, ClientOK
<1>9. HandleInv
  BY <1>2, <1>7, ClientTypes DEF HandleInv, HandleOK, NewHandle
<1>10. RoomInv
  BY TransportAssumption DEF RoomInv
<1>11. SessionInv
  BY <1>1, <1>6, ClientTypes DEF SessionInv
<1>. QED BY <1>4, <1>5, <1>8, <1>9, <1>10, <1>11 DEF TransportInv

(* The pool of connections is destroyed while nobody has a transport. *)
LEMMA DrainedInv ==
    ASSUME TransportInv, Drained, \A t \in Thread : client[t].state = "none" /\ evicting # t
    PROVE  /\ TransportInv'
           /\ "resend" \notin Calls => \A x \in Handle : handle'[x].made => handle'[x].freed
<1>1. /\ \A k \in Keys : bound'[k] = <<>>
      /\ bound' = [k \in Keys |-> <<>>]
      /\ order' = <<>> /\ size' = 0 /\ UNCHANGED <<client, evicting>>
      /\ handle' = [x \in Handle |-> IF Pooled(x) THEN Freed ELSE handle[x]]
  BY DEF Drained, Pooled
<1>2. \A t \in Thread : client[t] = NoClient /\ client[t].handle = Null
  BY ClientTypes DEF TransportInv, ClientInv, ClientOK
<1>3. \A x \in Handle : ~Held(x) /\ ~Held(x)'
  BY <1>1, <1>2, TransportAssumption DEF Held
<1>4. \A x : ~Pooled(x)'
  BY <1>1 DEF Pooled, ToSet
<1>5. Free' = {}
  BY <1>4 DEF Free
<1>6. BoundInv'
  BY <1>1, <1>5, FS_EmptySet DEF BoundInv, InOnePlace
<1>7. OrderInv'
  BY <1>1 DEF OrderInv, OnceEach
<1>8. ClientInv' /\ evicting = Null
  BY <1>1 DEF TransportInv, ClientInv, RoomInv
<1>9. /\ handle' \in [Handle -> HandleStates]
      /\ \A x \in Handle : handle'[x] = Freed \/ (~Pooled(x) /\ handle'[x] = handle[x])
  <2>1. ASSUME NEW x \in Handle
        PROVE  handle'[x] \in HandleStates /\ (handle'[x] = Freed \/ (~Pooled(x) /\ handle'[x] = handle[x]))
    <3>0. handle \in [Handle -> HandleStates]
      BY DEF TransportInv, HandleInv
    <3>1. handle[x] \in HandleStates /\ Freed \in HandleStates
      BY <3>0, ClientTypes
    <3>2. CASE Pooled(x)
      BY <1>1, <3>1, <3>2
    <3>3. CASE ~Pooled(x)
      BY <1>1, <3>1, <3>3
    <3>. QED BY <3>2, <3>3
  <2>2. handle' = [x \in Handle |-> handle'[x]]
    BY <1>1
  <2>. QED BY <2>1, <2>2
<1>10. HandleInv'
  <2>1. ASSUME NEW x \in Handle PROVE HandleOK(x)'
    BY <1>3, <1>4, <1>9, ClientTypes DEF TransportInv, HandleInv, HandleOK
  <2>. QED BY <1>9, <2>1 DEF HandleInv
<1>11. RoomInv'
  BY <1>1, <1>8, TransportAssumption DEF RoomInv
<1>12. SessionInv'
  BY <1>1, <1>2, ClientTypes DEF SessionInv
<1>13. "resend" \notin Calls => \A x \in Handle : handle'[x].made => handle'[x].freed
  BY <1>3, <1>4, <1>10 DEF HandleInv, HandleOK
<1>. QED BY <1>6, <1>7, <1>8, <1>10, <1>11, <1>12, <1>13 DEF TransportInv
-----------------------------------------------------------------------------
(***************************************************************************)
(* XMLToolingConfig: the count of init() and what it stands for            *)
(***************************************************************************)
\* The init() calls that a term() must still match.
Outstanding == {c \in Thread \X Nat : 1 <= c[2] /\ c[2] <= inits[c[1]]}

CountInv ==
    /\ inits \in [Thread -> Nat]
    /\ IsFiniteSet(Outstanding) /\ count = Cardinality(Outstanding)

\* Who is in a call of the library, or holds an object of it, has an init() of its own.
InUse == \A t \in Thread : ~AtRest(t) => inits[t] > 0

\* What is up can be taken down once for each time it was set up.
UpInv ==
    /\ up \in [ToSet(Parts) -> Nat]
    /\ count > 0 => \A p \in ToSet(Parts) : up[p] >= 1

ConfigInv == ConfigTypeOK /\ CountInv /\ InUse /\ UpInv

RuntimeInv == PoolInv /\ TransportInv /\ ConfigInv

(* One more init(). *)
LEMMA CountedUp ==
    ASSUME CountInv, NEW t \in Thread,
           count' = count + 1, inits' = [inits EXCEPT ![t] = @ + 1]
    PROVE  CountInv' /\ count \in Nat /\ \A u \in Thread : inits[u] > 0 => inits'[u] > 0
<1> DEFINE c == <<t, inits[t] + 1>>
<1>1. /\ inits' \in [Thread -> Nat] /\ inits[t] \in Nat /\ inits'[t] = inits[t] + 1
      /\ \A u \in Thread \ {t} : inits'[u] = inits[u]
  BY DEF CountInv
<1>2. c \in Thread \X Nat /\ c[1] = t /\ c[2] = inits[t] + 1
  BY <1>1
<1> HIDE DEF c
<1>3. ASSUME NEW d \in Thread \X Nat PROVE d \in Outstanding' <=> d \in Outstanding \/ d = c
  <2>1. d[1] \in Thread /\ d[2] \in Nat /\ (d = c <=> d[1] = t /\ d[2] = inits[t] + 1)
    BY <1>2
  <2>2. inits[d[1]] \in Nat
    BY <2>1 DEF CountInv
  <2>3. CASE d[1] = t
    BY <1>1, <2>1, <2>2, <2>3 DEF Outstanding
  <2>4. CASE d[1] # t
    BY <1>1, <2>1, <2>2, <2>4 DEF Outstanding
  <2>. QED BY <2>3, <2>4
<1>4. Outstanding' = Outstanding \cup {c}
  BY <1>2, <1>3 DEF Outstanding
<1>5. c \notin Outstanding
  BY <1>1, <1>2 DEF Outstanding
<1>6. /\ IsFiniteSet(Outstanding') /\ Cardinality(Outstanding') = Cardinality(Outstanding) + 1
      /\ Cardinality(Outstanding) \in Nat
  BY <1>4, <1>5, FS_AddElement, FS_CardinalityType DEF CountInv
<1>7. \A u \in Thread : inits[u] > 0 => inits'[u] > 0
  BY <1>1
<1>. QED BY <1>1, <1>6, <1>7 DEF CountInv

(* One more term(). *)
LEMMA CountedDown ==
    ASSUME CountInv, NEW t \in Thread, inits[t] > 0,
           count' = count - 1, inits' = [inits EXCEPT ![t] = @ - 1]
    PROVE  CountInv' /\ count \in Nat \ {0} /\ \A u \in Thread \ {t} : inits'[u] = inits[u]
<1> DEFINE c == <<t, inits[t]>>
<1>1. /\ inits' \in [Thread -> Nat] /\ inits[t] \in Nat \ {0} /\ inits'[t] = inits[t] - 1
      /\ \A u \in Thread \ {t} : inits'[u] = inits[u]
  BY DEF CountInv
<1>2. c \in Thread \X Nat /\ c[1] = t /\ c[2] = inits[t]
  BY <1>1
<1> HIDE DEF c
<1>3. ASSUME NEW d \in Thread \X Nat PROVE d \in Outstanding' <=> d \in Outstanding /\ d # c
  <2>1. d[1] \in Thread /\ d[2] \in Nat /\ (d = c <=> d[1] = t /\ d[2] = inits[t])
    BY <1>2
  <2>2. inits[d[1]] \in Nat
    BY <2>1 DEF CountInv
  <2>3. CASE d[1] = t
    BY <1>1, <2>1, <2>2, <2>3 DEF Outstanding
  <2>4. CASE d[1] # t
    BY <1>1, <2>1, <2>2, <2>4 DEF Outstanding
  <2>. QED BY <2>3, <2>4
<1>4. Outstanding' = Outstanding \ {c}
  BY <1>3 DEF Outstanding
<1>5. c \in Outstanding
  BY <1>1, <1>2 DEF Outstanding
<1>6. /\ IsFiniteSet(Outstanding') /\ Cardinality(Outstanding') = Cardinality(Outstanding) - 1
      /\ Cardinality(Outstanding) \in Nat /\ Cardinality(Outstanding') \in Nat
  <2>1. IsFiniteSet(Outstanding') /\ Cardinality(Outstanding') = Cardinality(Outstanding) - 1
    BY <1>4, <1>5, FS_RemoveElement DEF CountInv
  <2>. QED BY <2>1, FS_CardinalityType DEF CountInv
<1>. QED BY <1>1, <1>6 DEF CountInv

(* Nobody has an init() to match when the count is zero. *)
LEMMA CountZero ==
    ASSUME CountInv, count = 0
    PROVE  \A t \in Thread : inits[t] = 0
<1>1. Outstanding = {}
  BY FS_EmptySet DEF CountInv
<1> SUFFICES ASSUME NEW t \in Thread, inits[t] # 0 PROVE FALSE
  OBVIOUS
<1> DEFINE c == <<t, 1>>
<1>2. c \in Thread \X Nat /\ c[1] = t /\ c[2] = 1 /\ inits[t] \in Nat
  BY DEF CountInv
<1> HIDE DEF c
<1>3. c \in Outstanding
  BY <1>2 DEF Outstanding
<1>. QED BY <1>1, <1>3

(* The term() that takes the library down is that of the one thread that has *)
(* an init() to match.                                                       *)
LEMMA CountOne ==
    ASSUME CountInv, count = 1, NEW t \in Thread, inits[t] > 0
    PROVE  \A u \in Thread \ {t} : inits[u] = 0
<1>1. PICK d : Outstanding = {d}
  BY FS_Singleton DEF CountInv
<1> SUFFICES ASSUME NEW u \in Thread \ {t}, inits[u] # 0 PROVE FALSE
  OBVIOUS
<1> DEFINE c == <<t, 1>>
           e == <<u, 1>>
<1>2. /\ c \in Thread \X Nat /\ c[1] = t /\ c[2] = 1 /\ inits[t] \in Nat
      /\ e \in Thread \X Nat /\ e[1] = u /\ e[2] = 1 /\ inits[u] \in Nat
  BY DEF CountInv
<1> HIDE DEF c, e
<1>3. c \in Outstanding /\ e \in Outstanding
  BY <1>2 DEF Outstanding
<1>4. c # e
  BY <1>2
<1>. QED BY <1>1, <1>3, <1>4

(* Nobody uses a library that is down. *)
LEMMA AllAtRest ==
    ASSUME CountInv, InUse, count = 0
    PROVE  \A t \in Thread : inits[t] = 0 /\ AtRest(t)
  BY CountZero DEF InUse
-----------------------------------------------------------------------------
(***************************************************************************)
(* A step of one thread leaves the others as they are.                     *)
(***************************************************************************)
LEMMA OthersInUse ==
    ASSUME InUse, NEW t \in Thread, inits[t] > 0, inits' = inits,
           \A u \in Thread \ {t} :
              /\ parsing'[u] = parsing[u] /\ client'[u] = client[u]
              /\ writer' = u => writer = u
              /\ evicting' = u => evicting = u
              /\ lock' = u => lock = u
    PROVE  InUse'
  BY DEF InUse, AtRest, Busy

LEMMA ParseFrame ==
    ASSUME PoolInv, NEW t \in Thread, ParseStep(t)
    PROVE  writer' = writer /\ \A u \in Thread \ {t} : parsing'[u] = parsing[u]
<1> USE DEF PoolInv, PoolTypeOK
<1>1. CASE Checkout(t)
  BY <1>1 DEF Checkout
<1>2. CASE Resolves(t)
  BY <1>2 DEF Resolves
<1>3. CASE Finishes(t)
  BY <1>3 DEF Finishes
<1>4. CASE Escapes(t)
  BY <1>4 DEF Escapes
<1>. QED BY <1>1, <1>2, <1>3, <1>4 DEF ParseStep

LEMMA RegisterFrame ==
    ASSUME NEW t \in Thread, RegisterStep(t)
    PROVE  writer' \in {t, Null} /\ parsing' = parsing
  BY DEF RegisterStep, Registers, Registered

LEMMA TransportFrame ==
    ASSUME TransportInv, NEW t \in Thread, SendStep(t) \/ PutStep(t)
    PROVE  /\ evicting' \in {evicting, t, Null}
           /\ \A u \in Thread \ {t} : client'[u] = client[u]
<1>0. client \in [Thread -> Clients]
  BY DEF TransportInv, ClientInv
<1>1. CASE Opens(t)
  BY <1>0, <1>1 DEF Opens
<1>2. CASE Performs(t)
  BY <1>0, <1>2 DEF Performs
<1>3. CASE Blocked(t)
  BY <1>0, <1>3 DEF Blocked
<1>4. CASE Closes(t)
  BY <1>0, <1>4 DEF Closes, Put
<1>5. CASE Rotates(t)
  BY <1>5 DEF Rotates
<1>6. CASE Kicks(t)
  BY <1>0, <1>6 DEF Kicks
<1>7. CASE Kills(t)
  BY <1>0, <1>7 DEF Kills
<1>. QED BY <1>1, <1>2, <1>3, <1>4, <1>5, <1>6, <1>7 DEF SendStep, PutStep

LEMMA PoolSame ==
    ASSUME PoolInv, UNCHANGED poolVars
    PROVE  PoolInv'
  BY DEF poolVars, PoolInv, PoolTypeOK, ParserSound, ParserExclusive, SchemasKnown, WriterAlone, Busy

LEMMA TransportSame ==
    ASSUME TransportInv, UNCHANGED transportVars
    PROVE  TransportInv'
<1> USE DEF transportVars
<1>1. BoundInv' /\ \A x \in Handle : Pooled(x)' <=> Pooled(x)
  BY BoundKept DEF TransportInv
<1>2. HandleInv'
  BY <1>1 DEF TransportInv, HandleInv, HandleOK, Held
<1>3. OrderInv' /\ ClientInv' /\ RoomInv' /\ SessionInv'
  BY DEF TransportInv, OrderInv, ClientInv, RoomInv, SessionInv
<1>. QED BY <1>1, <1>2, <1>3 DEF TransportInv
-----------------------------------------------------------------------------
(***************************************************************************)
(* One step for each action of the library                                 *)
(***************************************************************************)
LEMMA ConfigSame ==
    ASSUME ConfigInv, UNCHANGED configVars, InUse'
    PROVE  ConfigInv'
  BY DEF configVars, ConfigInv, ConfigTypeOK, CountInv, Outstanding, UpInv

\* Nothing is in use that was not.
LEMMA RestSame ==
    ASSUME UNCHANGED <<parsing, writer, client, evicting, lock>>
    PROVE  \A t \in Thread : AtRest(t)' <=> AtRest(t)
  BY DEF AtRest, Busy

LEMMA InitCountedInv ==
    ASSUME RuntimeInv, NEW t \in Thread, InitCounted(t)
    PROVE  RuntimeInv' /\ count' > 0
<1>1. /\ UNCHANGED poolVars /\ UNCHANGED transportVars /\ lock' = lock /\ libs' = libs /\ up' = up
      /\ count > 0 /\ tries < MaxInits /\ tries' = tries + 1
  BY DEF InitCounted, Tries, Others
<1>2. PoolInv' /\ TransportInv'
  BY <1>1, PoolSame, TransportSame DEF RuntimeInv
<1>3. count \in 0..IntMax /\ tries \in 0..MaxInits /\ IntMax \in Nat /\ MaxInits \in Nat
  BY RuntimeAssumption DEF RuntimeInv, ConfigInv, ConfigTypeOK
<1>4. /\ CountInv' /\ count' \in 0..IntMax /\ count' > 0
      /\ \A u \in Thread : inits[u] > 0 => inits'[u] > 0
  <2>1. CASE count = IntMax
    <3>1. count' = count /\ inits' = inits
      BY <2>1 DEF InitCounted
    <3>. QED BY <1>1, <1>3, <3>1 DEF RuntimeInv, ConfigInv, CountInv, Outstanding
  <2>2. CASE count # IntMax
    <3>1. count' = count + 1 /\ inits' = [inits EXCEPT ![t] = @ + 1]
      BY <2>2 DEF InitCounted
    <3>2. CountInv' /\ count \in Nat /\ \A u \in Thread : inits[u] > 0 => inits'[u] > 0
      BY <3>1, CountedUp DEF RuntimeInv, ConfigInv
    <3>. QED BY <1>1, <1>3, <2>2, <3>1, <3>2
  <2>. QED BY <2>1, <2>2
<1>5. InUse'
  <2>1. \A u \in Thread : AtRest(u)' <=> AtRest(u)
    BY <1>1, RestSame DEF poolVars, transportVars
  <2>. QED BY <1>4, <2>1 DEF RuntimeInv, ConfigInv, InUse
<1>6. UpInv' /\ ConfigTypeOK'
  BY <1>1, <1>3, <1>4 DEF RuntimeInv, ConfigInv, UpInv, ConfigTypeOK, CountInv
<1>. QED BY <1>2, <1>4, <1>5, <1>6 DEF RuntimeInv, ConfigInv

LEMMA InitFirstInv ==
    ASSUME RuntimeInv, NEW t \in Thread, InitFirst(t)
    PROVE  RuntimeInv' /\ count' = 1 /\ \A p \in ToSet(Parts) : up'[p] = Added(p)
<1>1. /\ UNCHANGED poolVars /\ UNCHANGED transportVars /\ lock' = lock /\ libs' = libs
      /\ up' = [p \in ToSet(Parts) |-> Added(p)]
      /\ count = 0 /\ count' = 1 /\ inits' = [inits EXCEPT ![t] = @ + 1]
      /\ tries < MaxInits /\ tries' = tries + 1
  BY DEF InitFirst, Tries, Others
<1>2. PoolInv' /\ TransportInv'
  BY <1>1, PoolSame, TransportSame DEF RuntimeInv
<1>3. tries \in 0..MaxInits /\ IntMax \in Nat \ {0} /\ MaxInits \in Nat
  BY RuntimeAssumption DEF RuntimeInv, ConfigInv, ConfigTypeOK
<1>4. CountInv' /\ \A u \in Thread : inits[u] > 0 => inits'[u] > 0
  <2>1. CountInv /\ count' = count + 1 /\ inits' = [inits EXCEPT ![t] = @ + 1]
    BY <1>1 DEF RuntimeInv, ConfigInv
  <2>. QED BY <2>1, CountedUp
<1>5. InUse'
  <2>1. \A u \in Thread : AtRest(u)' <=> AtRest(u)
    BY <1>1, RestSame DEF poolVars, transportVars
  <2>. QED BY <1>4, <2>1 DEF RuntimeInv, ConfigInv, InUse
<1>6. \A p \in ToSet(Parts) : Added(p) \in Nat /\ Added(p) >= 1
  BY DEF RuntimeInv, ConfigInv, UpInv, Added
<1>7. UpInv'
  BY <1>1, <1>6 DEF UpInv
<1>8. ConfigTypeOK'
  BY <1>1, <1>3, <1>4, <1>7 DEF RuntimeInv, ConfigInv, UpInv, ConfigTypeOK, CountInv
<1>. QED BY <1>1, <1>2, <1>4, <1>5, <1>7, <1>8 DEF RuntimeInv, ConfigInv

LEMMA InitFailsInv ==
    ASSUME RuntimeInv, NEW t \in Thread, InitFails(t)
    PROVE  /\ RuntimeInv' /\ count' = 0
           /\ "lateFailure" \notin RuntimeCalls => \A p \in ToSet(Parts) : up'[p] = up[p]
<1>1. /\ UNCHANGED poolVars /\ UNCHANGED transportVars /\ lock' = lock /\ libs' = libs
      /\ count = 0 /\ count' = count /\ inits' = inits
      /\ tries < MaxInits /\ tries' = tries + 1
  BY DEF InitFails, Tries, Others
<1>2. PoolInv' /\ TransportInv'
  BY <1>1, PoolSame, TransportSame DEF RuntimeInv
<1>3. tries \in 0..MaxInits /\ MaxInits \in Nat
  BY RuntimeAssumption DEF RuntimeInv, ConfigInv, ConfigTypeOK
<1>4. CountInv'
  BY <1>1 DEF RuntimeInv, ConfigInv, CountInv, Outstanding
<1>5. InUse'
  <2>1. \A u \in Thread : AtRest(u)' <=> AtRest(u)
    BY <1>1, RestSame DEF poolVars, transportVars
  <2>. QED BY <1>1, <2>1 DEF RuntimeInv, ConfigInv, InUse
<1>6. up \in [ToSet(Parts) -> Nat]
  BY DEF RuntimeInv, ConfigInv, UpInv
<1>7. \A n : Failed(n) \in [ToSet(Parts) -> Nat]
  <2>1. \A p \in ToSet(Parts) : up[p] \in Nat /\ Added(p) \in Nat
    BY <1>6 DEF Added
  <2>. QED BY <2>1 DEF Failed
<1>8. up' \in [ToSet(Parts) -> Nat]
  BY <1>6, <1>7 DEF InitFails
<1>9. ASSUME "lateFailure" \notin RuntimeCalls, NEW p \in ToSet(Parts) PROVE up'[p] = up[p]
  <2>1. up' = up \/ up' = Failed(1)
    BY <1>9 DEF InitFails
  <2>2. \A i \in 1..1 : Parts[i] = "curl"
    BY DEF Parts
  <2>3. Failed(1)[p] = up[p]
    BY <2>2 DEF Failed
  <2>. QED BY <2>1, <2>3
<1>10. UpInv' /\ ConfigTypeOK'
  BY <1>1, <1>3, <1>8 DEF RuntimeInv, ConfigInv, UpInv, ConfigTypeOK
<1>. QED BY <1>1, <1>2, <1>4, <1>5, <1>9, <1>10 DEF RuntimeInv, ConfigInv

LEMMA TermCountedInv ==
    ASSUME RuntimeInv, NEW t \in Thread, TermCounted(t)
    PROVE  RuntimeInv' /\ count' > 0
<1>1. /\ UNCHANGED poolVars /\ UNCHANGED transportVars /\ UNCHANGED <<lock, up, libs, tries>>
      /\ count > 1 /\ count' = count - 1 /\ inits[t] > 0 /\ inits' = [inits EXCEPT ![t] = @ - 1]
      /\ AtRest(t)
  BY DEF TermCounted
<1>2. PoolInv' /\ TransportInv'
  BY <1>1, PoolSame, TransportSame DEF RuntimeInv
<1>3. CountInv' /\ count \in Nat \ {0} /\ \A u \in Thread \ {t} : inits'[u] = inits[u]
  BY <1>1, CountedDown DEF RuntimeInv, ConfigInv
<1>4. count' \in 0..IntMax /\ count' > 0
  BY <1>1, <1>3, RuntimeAssumption DEF RuntimeInv, ConfigInv, ConfigTypeOK
<1>5. InUse'
  <2>1. \A u \in Thread : AtRest(u)' <=> AtRest(u)
    BY <1>1, RestSame DEF poolVars, transportVars
  <2>. QED BY <1>1, <1>3, <2>1 DEF RuntimeInv, ConfigInv, InUse
<1>6. UpInv' /\ ConfigTypeOK'
  BY <1>1, <1>3, <1>4 DEF RuntimeInv, ConfigInv, UpInv, ConfigTypeOK, CountInv
<1>. QED BY <1>2, <1>3, <1>4, <1>5, <1>6 DEF RuntimeInv, ConfigInv

LEMMA TermLastInv ==
    ASSUME RuntimeInv, NEW t \in Thread, TermLast(t)
    PROVE  /\ RuntimeInv' /\ count' = 0 /\ libs' = <<>>
           /\ count = 1
           /\ \A p \in ToSet(Parts) \ Lasting :
                 up'[p] = IF p \in {"curl", "xerces", "xsec"} THEN up[p] - 1 ELSE 0
           /\ \A x \in Parser : owner'[x] \in {"unmade", "deleted"}
           /\ "resend" \notin Calls => \A h \in Handle : handle'[h].made => handle'[h].freed
<1>1. /\ AtRest(t) /\ inits[t] > 0 /\ count = 1 /\ count' = count - 1
      /\ inits' = [inits EXCEPT ![t] = @ - 1]
      /\ up' = [p \in ToSet(Parts) |->
                 IF p \in Lasting THEN up[p]
                 ELSE IF p \in {"curl", "xerces", "xsec"} THEN up[p] - 1 ELSE 0]
      /\ libs' = <<>> /\ Destroyed /\ Drained /\ UNCHANGED <<lock, tries>>
  BY DEF TermLast, Down
<1>2. UNCHANGED <<parsing, writer, client, evicting, lock>>
  BY <1>1 DEF Destroyed, Drained
<1>3. \A u \in Thread : AtRest(u)
  BY <1>1, CountOne DEF RuntimeInv, ConfigInv, InUse
<1>4. \A u \in Thread : ~Busy(u) /\ client[u].state = "none" /\ evicting # u
  BY <1>3 DEF AtRest
<1>5. PoolInv'
  BY <1>1, <1>4, DestroyedInv DEF RuntimeInv
<1>6. /\ TransportInv'
      /\ "resend" \notin Calls => \A h \in Handle : handle'[h].made => handle'[h].freed
  BY <1>1, <1>4, DrainedInv DEF RuntimeInv
<1>7. CountInv' /\ count' = 0
  <2>1. /\ CountInv /\ inits[t] > 0
        /\ count' = count - 1 /\ inits' = [inits EXCEPT ![t] = @ - 1]
    BY <1>1 DEF RuntimeInv, ConfigInv
  <2>2. CountInv'
    BY <2>1, CountedDown
  <2>. QED BY <1>1, <2>2
<1>8. InUse'
  BY <1>2, <1>3, RestSame DEF InUse
<1>9. UpInv'
  <2>1. \A p \in ToSet(Parts) : up[p] \in Nat /\ up[p] - 1 \in Nat
    BY <1>1 DEF RuntimeInv, ConfigInv, UpInv
  <2>2. up' \in [ToSet(Parts) -> Nat]
    BY <1>1, <2>1
  <2>. QED BY <1>7, <2>2 DEF UpInv
<1>10. ConfigTypeOK'
  BY <1>1, <1>7, <1>9, RuntimeAssumption DEF RuntimeInv, ConfigInv, ConfigTypeOK, UpInv, CountInv
<1>11. \A x \in Parser : owner'[x] \in {"unmade", "deleted"}
  <2>1. \A x \in Parser : owner[x] \in {"unmade", "pool", "deleted"}
    <3>1. \A u \in Thread : parsing[u] = Null
      BY <1>4 DEF Busy
    <3>2. \A x \in Parser : owner[x] \notin Thread
      BY <3>1, ParserPoolAssumption DEF RuntimeInv, PoolInv, ParserSound, ParserExclusive
    <3>. QED BY <3>2 DEF RuntimeInv, PoolInv, PoolTypeOK
  <2>. QED BY <1>1, <2>1 DEF Destroyed
<1>12. \A p \in ToSet(Parts) \ Lasting :
          up'[p] = IF p \in {"curl", "xerces", "xsec"} THEN up[p] - 1 ELSE 0
  BY <1>1
<1>. QED BY <1>1, <1>5, <1>6, <1>7, <1>8, <1>9, <1>10, <1>11, <1>12 DEF RuntimeInv, ConfigInv

LEMMA LoadsInv ==
    ASSUME RuntimeInv, NEW t \in Thread, Loads(t)
    PROVE  RuntimeInv' /\ inits[t] > 0 /\ count' = count /\ up' = up
<1>1. /\ UNCHANGED poolVars /\ UNCHANGED transportVars
      /\ UNCHANGED <<count, up, libs, inits, tries>>
      /\ lock' = t /\ inits[t] > 0
  BY DEF Loads
<1>2. PoolInv' /\ TransportInv'
  BY <1>1, PoolSame, TransportSame DEF RuntimeInv
<1>3. InUse'
  BY <1>1, OthersInUse DEF RuntimeInv, ConfigInv, poolVars, transportVars
<1>4. ConfigTypeOK' /\ CountInv' /\ UpInv'
  BY <1>1 DEF RuntimeInv, ConfigInv, ConfigTypeOK, CountInv, Outstanding, UpInv
<1>. QED BY <1>1, <1>2, <1>3, <1>4 DEF RuntimeInv, ConfigInv

LEMMA LoadedInv ==
    ASSUME RuntimeInv, NEW t \in Thread, Loaded(t)
    PROVE  RuntimeInv' /\ inits[t] > 0 /\ count' = count /\ up' = up
<1>1. /\ UNCHANGED poolVars /\ UNCHANGED transportVars
      /\ UNCHANGED <<count, up, inits, tries>>
      /\ lock = t /\ lock' = Null
  BY DEF Loaded
<1>2. libs' = libs \/ \E l \in Library : libs' = Append(libs, l)
  BY DEF Loaded
<1>3. libs' \in Seq(Library)
  <2>1. libs \in Seq(Library)
    BY DEF RuntimeInv, ConfigInv, ConfigTypeOK
  <2>2. \A l \in Library : Append(libs, l) \in Seq(Library)
    BY <2>1
  <2>. QED BY <1>2, <2>1, <2>2
<1>4. PoolInv' /\ TransportInv'
  BY <1>1, PoolSame, TransportSame DEF RuntimeInv
<1>5. inits[t] > 0
  BY <1>1 DEF RuntimeInv, ConfigInv, InUse, AtRest
<1>6. \A u \in Thread : lock' # u
  BY <1>1, ParserPoolAssumption
<1>7. InUse'
  BY <1>1, <1>5, <1>6, OthersInUse DEF RuntimeInv, ConfigInv, poolVars, transportVars
<1>8. ConfigTypeOK' /\ CountInv' /\ UpInv'
  BY <1>1, <1>3 DEF RuntimeInv, ConfigInv, ConfigTypeOK, CountInv, Outstanding, UpInv
<1>. QED BY <1>1, <1>4, <1>5, <1>7, <1>8 DEF RuntimeInv, ConfigInv

LEMMA UsesParserInv ==
    ASSUME RuntimeInv, NEW t \in Thread, UsesParser(t)
    PROVE  RuntimeInv' /\ inits[t] > 0 /\ count' = count /\ up' = up
<1>1. inits[t] > 0 /\ ParseStep(t) /\ UNCHANGED transportVars /\ UNCHANGED configVars
  BY DEF UsesParser
<1>2. PoolInv' /\ TransportInv'
  BY <1>1, ParseInv, TransportSame DEF RuntimeInv
<1>3. writer' = writer /\ \A u \in Thread \ {t} : parsing'[u] = parsing[u]
  BY <1>1, ParseFrame DEF RuntimeInv
<1>4. InUse'
  BY <1>1, <1>3, OthersInUse DEF RuntimeInv, ConfigInv, transportVars, configVars
<1>5. ConfigInv'
  BY <1>1, <1>4, ConfigSame DEF RuntimeInv
<1>. QED BY <1>1, <1>2, <1>5 DEF RuntimeInv, configVars

LEMMA RegistersSchemaInv ==
    ASSUME RuntimeInv, NEW t \in Thread, RegistersSchema(t)
    PROVE  RuntimeInv' /\ inits[t] > 0 /\ count' = count /\ up' = up
<1>1. inits[t] > 0 /\ RegisterStep(t) /\ UNCHANGED transportVars /\ UNCHANGED configVars
  BY DEF RegistersSchema
<1>2. PoolInv' /\ TransportInv'
  BY <1>1, RegisterInv, TransportSame DEF RuntimeInv
<1>3. parsing' = parsing /\ \A u \in Thread \ {t} : writer' # u
  BY <1>1, RegisterFrame, ParserPoolAssumption
<1>4. InUse'
  BY <1>1, <1>3, OthersInUse DEF RuntimeInv, ConfigInv, transportVars, configVars
<1>5. ConfigInv'
  BY <1>1, <1>4, ConfigSame DEF RuntimeInv
<1>. QED BY <1>1, <1>2, <1>5 DEF RuntimeInv, configVars

LEMMA UsesTransportInv ==
    ASSUME RuntimeInv, NEW t \in Thread, UsesTransport(t) \/ MakesRoom(t)
    PROVE  RuntimeInv' /\ inits[t] > 0 /\ count' = count /\ up' = up
<1>1. /\ SendStep(t) \/ PutStep(t)
      /\ UNCHANGED poolVars /\ UNCHANGED configVars
  BY DEF UsesTransport, MakesRoom
<1>2. inits[t] > 0
  <2>1. CASE UsesTransport(t)
    BY <2>1 DEF UsesTransport
  <2>2. CASE MakesRoom(t)
    <3>1. evicting = t \/ client[t].state = "kill"
      BY <2>2 DEF MakesRoom, PutStep, Rotates, Kicks, Kills
    <3>. QED BY <3>1 DEF RuntimeInv, ConfigInv, InUse, AtRest
  <2>. QED BY <2>1, <2>2
<1>3. PoolInv' /\ TransportInv'
  BY <1>1, SendPutInv, PoolSame DEF RuntimeInv
<1>4. /\ \A u \in Thread \ {t} : evicting' = u => evicting = u
      /\ \A u \in Thread \ {t} : client'[u] = client[u]
  <2>1. evicting' \in {evicting, t, Null} /\ \A u \in Thread \ {t} : client'[u] = client[u]
    BY <1>1, TransportFrame DEF RuntimeInv
  <2>. QED BY <2>1, TransportAssumption
<1>5. InUse'
  BY <1>1, <1>2, <1>4, OthersInUse DEF RuntimeInv, ConfigInv, poolVars, configVars
<1>6. ConfigInv'
  BY <1>1, <1>5, ConfigSame DEF RuntimeInv
<1>. QED BY <1>1, <1>2, <1>3, <1>6 DEF RuntimeInv, configVars

LEMMA RuntimeInitInv == Init => RuntimeInv
<1> SUFFICES ASSUME Init PROVE RuntimeInv
  OBVIOUS
<1>1. PoolInv /\ TransportInv
  BY PoolInitInv, TransportInitInv DEF Init
<1>2. /\ count = 0 /\ lock = Null /\ up = [p \in ToSet(Parts) |-> 0] /\ libs = <<>>
      /\ inits = [t \in Thread |-> 0] /\ tries = 0
  BY DEF Init
<1>3. \A t \in Thread : AtRest(t)
  <2>1. \A t \in Thread : parsing[t] = Null /\ writer = Null /\ client[t] = NoClient /\ evicting = Null
    BY DEF Init, PoolInit, TransportInit
  <2>. QED BY <1>2, <2>1, ClientTypes, ParserPoolAssumption DEF AtRest, Busy
<1>4. Outstanding = {}
  BY <1>2 DEF Outstanding
<1>5. CountInv
  BY <1>2, <1>4, FS_EmptySet DEF CountInv
<1>6. ConfigTypeOK /\ UpInv
  BY <1>2, RuntimeAssumption DEF ConfigTypeOK, UpInv
<1>. QED BY <1>1, <1>3, <1>5, <1>6 DEF RuntimeInv, ConfigInv, InUse

LEMMA RuntimeStepInv == RuntimeInv /\ [Next]_runtimeVars => RuntimeInv'
<1> SUFFICES ASSUME RuntimeInv, [Next]_runtimeVars PROVE RuntimeInv'
  OBVIOUS
<1>1. CASE UNCHANGED runtimeVars
  <2>1. UNCHANGED poolVars /\ UNCHANGED transportVars /\ UNCHANGED configVars
    BY <1>1 DEF runtimeVars
  <2>2. PoolInv' /\ TransportInv'
    BY <2>1, PoolSame, TransportSame DEF RuntimeInv
  <2>3. InUse'
    BY <2>1, RestSame DEF RuntimeInv, ConfigInv, InUse, poolVars, transportVars, configVars
  <2>. QED BY <2>1, <2>2, <2>3, ConfigSame DEF RuntimeInv
<1>2. ASSUME NEW t \in Thread,
             \/ InitCounted(t) \/ InitFirst(t) \/ InitFails(t)
             \/ TermCounted(t) \/ TermLast(t)
             \/ Loads(t) \/ Loaded(t)
             \/ UsesParser(t) \/ RegistersSchema(t)
             \/ UsesTransport(t) \/ MakesRoom(t)
      PROVE  RuntimeInv'
  BY <1>2, InitCountedInv, InitFirstInv, InitFailsInv, TermCountedInv, TermLastInv,
     LoadsInv, LoadedInv, UsesParserInv, RegistersSchemaInv, UsesTransportInv
<1>. QED BY <1>1, <1>2 DEF Next
-----------------------------------------------------------------------------
(***************************************************************************)
(* What follows from the invariant                                         *)
(***************************************************************************)
LEMMA InvTypeOK == RuntimeInv => TypeOK
<1> SUFFICES ASSUME RuntimeInv PROVE TypeOK
  OBVIOUS
<1>1. size \in Nat /\ size <= ConnPoolMax + 1
  BY FS_CardinalityType, TransportAssumption DEF RuntimeInv, TransportInv, BoundInv, RoomInv
<1>2. TransportTypeOK
  BY <1>1, TransportAssumption
  DEF RuntimeInv, TransportInv, BoundInv, OrderInv, ClientInv, HandleInv, RoomInv, Clients, HandleStates,
      TransportTypeOK
<1>. QED BY <1>2 DEF RuntimeInv, PoolInv, ConfigInv, TypeOK

LEMMA InvPoolsSound == RuntimeInv => PoolsSound
<1> SUFFICES ASSUME RuntimeInv PROVE PoolsSound
  OBVIOUS
<1>1. HandleExclusive
  <2>1. \A x \in Handle : HandleOK(x)
    BY DEF RuntimeInv, TransportInv, HandleInv
  <2>2. \A x \in Handle :
          /\ ~(Pooled(x) /\ Held(x))
          /\ handle[x].freed => ~Pooled(x) /\ ~Held(x)
          /\ (handle[x].made /\ "resend" \notin Calls) => handle[x].freed \/ Pooled(x) \/ Held(x)
    BY <2>1 DEF HandleOK
  <2>. QED BY <2>2 DEF RuntimeInv, TransportInv, BoundInv, InOnePlace, ClientInv, HandleExclusive
<1>2. PoolCounted
  BY DEF RuntimeInv, TransportInv, BoundInv, Free, OrderInv, OnceEach, RoomInv, PoolCounted
<1>. QED BY <1>1, <1>2 DEF RuntimeInv, PoolInv, PoolsSound

LEMMA InvHonest ==
    ASSUME "mixed" \notin Calls
    PROVE  RuntimeInv => AuthenticatedHonest
  BY DEF RuntimeInv, TransportInv, SessionInv, Sent, AuthenticatedHonest

(* The library always keeps its types. *)
THEOREM RuntimeTypeCorrect == Spec => []TypeOK
  BY RuntimeInitInv, RuntimeStepInv, InvTypeOK, PTL DEF Spec

(* What a pool hands out has one user at a time, a parser knows the schemas, *)
(* no connection handle is lost, and the pool of connections keeps count.    *)
THEOREM PoolsAlwaysSound == Spec => []PoolsSound
  BY RuntimeInitInv, RuntimeStepInv, InvPoolsSound, PTL DEF Spec

(* A transport says of its peer what a trust engine said in the handshake of *)
(* the session it used, when all who use a handle ask the same of trust.     *)
THEOREM AlwaysHonest ==
    ASSUME "mixed" \notin Calls
    PROVE  Spec => []AuthenticatedHonest
  BY RuntimeInitInv, RuntimeStepInv, InvHonest, PTL DEF Spec
-----------------------------------------------------------------------------
(***************************************************************************)
(* Up once, or gone                                                        *)
(***************************************************************************)
\* What WholeOrGone says beyond the invariant.
Whole ==
    /\ \A p \in ToSet(Parts) \ Lasting : up[p] = (IF count > 0 THEN 1 ELSE 0)
    /\ count = 0 =>
          /\ libs = <<>>
          /\ \A x \in Parser : owner[x] \in {"unmade", "deleted"}
          /\ \A h \in Handle : handle[h].made => handle[h].freed

WholeInv == RuntimeInv /\ Whole

(* Nobody takes a step that needs the library while it is down. *)
LEMMA UsedWhileUp ==
    ASSUME RuntimeInv, NEW t \in Thread, inits[t] > 0
    PROVE  count > 0
<1>1. count # 0
  BY CountZero DEF RuntimeInv, ConfigInv
<1>2. count \in Nat
  BY DEF RuntimeInv, ConfigInv, ConfigTypeOK
<1>. QED BY <1>1, <1>2

LEMMA WholeInitInv == Init => WholeInv
<1> SUFFICES ASSUME Init PROVE Whole
  BY RuntimeInitInv DEF WholeInv
<1>1. count = 0 /\ libs = <<>> /\ \A p \in ToSet(Parts) : up[p] = 0
  BY DEF Init
<1>2. \A x \in Parser : owner[x] = "unmade"
  BY DEF Init, PoolInit
<1>3. \A h \in Handle : handle[h] = NewHandle
  BY DEF Init, TransportInit
<1>. QED BY <1>1, <1>2, <1>3 DEF Whole, NewHandle

LEMMA WholeStepInv ==
    ASSUME "resend" \notin Calls, "lateFailure" \notin RuntimeCalls
    PROVE  WholeInv /\ [Next]_runtimeVars => WholeInv'
<1> SUFFICES ASSUME WholeInv, [Next]_runtimeVars PROVE Whole'
  BY RuntimeStepInv DEF WholeInv
<1>0. RuntimeInv /\ Whole
  BY DEF WholeInv
<1>1. CASE UNCHANGED runtimeVars
  BY <1>0, <1>1 DEF runtimeVars, poolVars, transportVars, configVars, Whole
<1>2. ASSUME NEW t \in Thread, InitCounted(t) PROVE Whole'
  <2>1. count' > 0 /\ count > 0 /\ up' = up
    BY <1>0, <1>2, InitCountedInv DEF InitCounted
  <2>. QED BY <1>0, <2>1 DEF Whole
<1>3. ASSUME NEW t \in Thread, InitFirst(t) PROVE Whole'
  <2>1. count = 0 /\ count' = 1 /\ \A p \in ToSet(Parts) : up'[p] = Added(p)
    BY <1>0, <1>3, InitFirstInv DEF InitFirst
  <2>2. \A p \in ToSet(Parts) \ Lasting : up'[p] = 1
    BY <1>0, <2>1 DEF Whole, Added
  <2>. QED BY <2>1, <2>2 DEF Whole
<1>4. ASSUME NEW t \in Thread, InitFails(t) PROVE Whole'
  <2>1. count = 0 /\ count' = 0 /\ \A p \in ToSet(Parts) : up'[p] = up[p]
    BY <1>0, <1>4, InitFailsInv DEF InitFails
  <2>2. libs' = libs /\ owner' = owner /\ handle' = handle
    BY <1>4 DEF InitFails, Others, poolVars, transportVars
  <2>. QED BY <1>0, <2>1, <2>2 DEF Whole
<1>5. ASSUME NEW t \in Thread, TermCounted(t) PROVE Whole'
  <2>1. count' > 0 /\ count > 0 /\ up' = up
    BY <1>0, <1>5, TermCountedInv, RuntimeAssumption
    DEF TermCounted, RuntimeInv, ConfigInv, ConfigTypeOK
  <2>. QED BY <1>0, <2>1 DEF Whole
<1>6. ASSUME NEW t \in Thread, TermLast(t) PROVE Whole'
  <2>1. /\ count' = 0 /\ libs' = <<>> /\ count = 1
        /\ \A p \in ToSet(Parts) \ Lasting :
              up'[p] = IF p \in {"curl", "xerces", "xsec"} THEN up[p] - 1 ELSE 0
        /\ \A x \in Parser : owner'[x] \in {"unmade", "deleted"}
        /\ \A h \in Handle : handle'[h].made => handle'[h].freed
    BY <1>0, <1>6, TermLastInv
  <2>2. \A p \in ToSet(Parts) \ Lasting : up'[p] = 0
    BY <1>0, <2>1 DEF Whole
  <2>. QED BY <2>1, <2>2 DEF Whole
<1>7. ASSUME NEW t \in Thread,
             Loads(t) \/ Loaded(t) \/ UsesParser(t) \/ RegistersSchema(t) \/ UsesTransport(t) \/ MakesRoom(t)
      PROVE  Whole'
  <2>1. inits[t] > 0 /\ count' = count /\ up' = up
    BY <1>0, <1>7, LoadsInv, LoadedInv, UsesParserInv, RegistersSchemaInv, UsesTransportInv
  <2>2. count > 0
    BY <1>0, <2>1, UsedWhileUp
  <2>. QED BY <1>0, <2>1, <2>2 DEF Whole
<1>. QED BY <1>1, <1>2, <1>3, <1>4, <1>5, <1>6, <1>7 DEF Next

LEMMA InvWholeOrGone == WholeInv => WholeOrGone
  BY AllAtRest DEF WholeInv, Whole, WholeOrGone, RuntimeInv, ConfigInv

(* The library is up, every part of it once, or nothing is left of it, when *)
(* clients are used as SOAPClient asks and init() fails only where it       *)
(* handles it.                                                              *)
THEOREM AlwaysWholeOrGone ==
    ASSUME "resend" \notin Calls, "lateFailure" \notin RuntimeCalls
    PROVE  Spec => []WholeOrGone
  BY WholeInitInv, WholeStepInv, InvWholeOrGone, PTL DEF Spec
=============================================================================
