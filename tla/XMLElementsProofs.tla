------------------------- MODULE XMLElementsProofs -------------------------
(***************************************************************************)
(* Proofs about XMLElements, for any set of classes, any number of calls and *)
(* any documents of their schemas and near it: the typed members of an     *)
(* object and its m_children stay in step.                                 *)
(*                                                                         *)
(* Three things carry the proof.  Every class has a member for each child  *)
(* that its processChildElement() takes (Well).  A child that is given to an *)
(* object has an identity of its own, so that it is in one place.  And each *)
(* operation keeps the two sides in step (Sound): those that remove a child *)
(* find the place it is in.                                                *)
(***************************************************************************)
EXTENDS XMLElements, SequenceTheorems, TLAPS

(***************************************************************************)
(* The class records, and what the helpers that write them keep.           *)
(***************************************************************************)

\* The attributes a class can have.
AttributeNames ==
    {"Algorithm", "URI", "Id", "Type", "MimeType", "Encoding", "Recipient", "Target", "extension"}

\* The classes, as records.
ElementClass ==
    [name : Tag \cup {Null}, simple : BOOLEAN, slots : Seq(Tag), lists : SUBSET Tag,
     takes : Seq(Tag), byName : SUBSET Tag, wild : SUBSET Namespaces, copied : Seq(Tag),
     bag : BOOLEAN, pairs : BOOLEAN, qname : BOOLEAN, attrs : SUBSET AttributeNames,
     attrsCopied : SUBSET AttributeNames, attrsWritten : SUBSET AttributeNames,
     attrsRead : SUBSET AttributeNames]

\* No two are the same.
Distinct(s) == \A i, j \in DOMAIN s : s[i] = s[j] => i = j

\* A member for every child that is taken.
HasMembers(c) ==
    /\ ToSet(c.takes) \cup c.byName \subseteq Member(c)
    /\ c.wild # {} => Unknown \in Member(c)

\* Pairs and nothing else.
HasPairs(c) ==
    /\ c.slots = <<>> /\ c.lists = {} /\ c.byName = {}
    /\ "ds" \notin c.wild

\* What processChildElement() and the setters rely on.
Well(c) ==
    /\ c \in ElementClass
    /\ Distinct(c.slots)
    /\ ToSet(c.slots) \cap c.lists = {}
    /\ Unknown \notin ToSet(c.takes) \cup c.byName
    /\ c.attrs \subseteq c.attrsRead
    /\ IF c.pairs THEN HasPairs(c) ELSE HasMembers(c)

LEMMA TagUnknown == Unknown \in Tag /\ Extension \in Tag /\ AnyElement \in Tag
BY DEF Tag

LEMMA ToSetIs == ASSUME NEW S, NEW s \in Seq(S) PROVE ToSet(s) \in SUBSET S
BY DEF ToSet

LEMMA ToSetEmpty == ToSet(<<>>) = {}
BY DEF ToSet

LEMMA PlainWell == Well(Plain) /\ ~Plain.pairs /\ Plain.slots = <<>>
<1>1. Plain \in ElementClass
  BY DEF Plain, ElementClass
<1>2. /\ Plain.slots = <<>> /\ Plain.lists = {} /\ Plain.takes = <<>> /\ Plain.byName = {}
      /\ Plain.wild = {} /\ Plain.attrs = {} /\ Plain.pairs = FALSE
  BY DEF Plain
<1>3. Distinct(<<>>)
  BY DEF Distinct
<1> QED
  BY <1>1, <1>2, <1>3, ToSetEmpty DEF Well, HasMembers

LEMMA SimpleWell == Well(Simple) /\ ~Simple.pairs /\ Simple.slots = <<>>
<1>1. Simple \in ElementClass
  BY PlainWell DEF Simple, Well, ElementClass
<1>2. /\ Simple.slots = <<>> /\ Simple.lists = {} /\ Simple.takes = <<>> /\ Simple.byName = {}
      /\ Simple.wild = {} /\ Simple.attrs = {} /\ Simple.pairs = FALSE
  BY DEF Simple, Plain
<1>3. Distinct(<<>>)
  BY DEF Distinct
<1> QED
  BY <1>1, <1>2, <1>3, ToSetEmpty DEF Well, HasMembers

LEMMA AttributesWell ==
    ASSUME NEW c, Well(c), NEW A \in SUBSET AttributeNames
    PROVE  /\ Well(Attributes(c, A))
           /\ Attributes(c, A).pairs = c.pairs /\ Attributes(c, A).slots = c.slots
           /\ A \subseteq Attributes(c, A).attrsRead
<1> DEFINE d == Attributes(c, A)
<1>1. d \in ElementClass
  BY DEF Well, ElementClass, Attributes
<1>2. /\ d.slots = c.slots /\ d.lists = c.lists /\ d.takes = c.takes /\ d.byName = c.byName
      /\ d.wild = c.wild /\ d.pairs = c.pairs
  BY DEF Well, ElementClass, Attributes
<1>3. d.attrs = c.attrs \cup A /\ d.attrsRead = c.attrsRead \cup A
  BY DEF Well, ElementClass, Attributes
<1> HIDE DEF d
<1>4. Well(d)
  BY <1>1, <1>2, <1>3 DEF Well, HasMembers, HasPairs, Member
<1> QED
  BY <1>2, <1>3, <1>4 DEF d

LEMMA ExtensibleWell ==
    ASSUME NEW c, Well(c)
    PROVE  Well(Extensible(c)) /\ Extensible(c).pairs = c.pairs
<1>1. {"extension"} \in SUBSET AttributeNames
  BY DEF AttributeNames
<1> HIDE DEF Well
<1> QED
  BY <1>1, AttributesWell DEF Extensible

LEMMA OrderWell ==
    ASSUME NEW c, Well(c), NEW s \in Seq(Tag), NEW b \in BOOLEAN
    PROVE  /\ Well([c EXCEPT !.copied = s]) /\ [c EXCEPT !.copied = s].pairs = c.pairs
           /\ Well([c EXCEPT !.bag = b]) /\ [c EXCEPT !.bag = b].pairs = c.pairs
           /\ Well([c EXCEPT !.copied = s, !.bag = b])
           /\ [c EXCEPT !.copied = s, !.bag = b].pairs = c.pairs
<1>1. ASSUME NEW d, d = [c EXCEPT !.copied = s] \/ d = [c EXCEPT !.bag = b]
                    \/ d = [c EXCEPT !.copied = s, !.bag = b]
      PROVE  Well(d) /\ d.pairs = c.pairs
  <2>1. d \in ElementClass
    BY <1>1 DEF Well, ElementClass
  <2>2. /\ d.slots = c.slots /\ d.lists = c.lists /\ d.takes = c.takes /\ d.byName = c.byName
        /\ d.wild = c.wild /\ d.pairs = c.pairs /\ d.attrs = c.attrs /\ d.attrsRead = c.attrsRead
    BY <1>1 DEF Well, ElementClass
  <2> QED
    BY <2>1, <2>2 DEF Well, HasMembers, HasPairs, Member
<1> QED
  BY <1>1

LEMMA NameWell ==
    ASSUME NEW c, Well(c), NEW q \in Tag
    PROVE  LET d == [c EXCEPT !.name = q]
           IN  Well(d) /\ d.name = q /\ d.pairs = c.pairs /\ d.attrsRead = c.attrsRead
<1> DEFINE d == [c EXCEPT !.name = q]
<1>1. d \in ElementClass
  BY DEF Well, ElementClass
<1>2. /\ d.slots = c.slots /\ d.lists = c.lists /\ d.takes = c.takes /\ d.byName = c.byName
      /\ d.wild = c.wild /\ d.pairs = c.pairs /\ d.attrs = c.attrs /\ d.attrsRead = c.attrsRead
      /\ d.name = q
  BY DEF Well, ElementClass
<1> HIDE DEF d
<1>3. Well(d)
  BY <1>1, <1>2 DEF Well, HasMembers, HasPairs, Member
<1> QED
  BY <1>2, <1>3 DEF d

LEMMA ChildrenWell ==
    ASSUME NEW s \in Seq(Tag \ {Unknown}), Distinct(s)
    PROVE  Well(Children(s)) /\ ~Children(s).pairs /\ Children(s).slots = s
<1> DEFINE d == Children(s)
<1>1. s \in Seq(Tag)
  OBVIOUS
<1>2. d \in ElementClass
  BY <1>1 DEF ElementClass, Children, Plain
<1>3. /\ d.slots = s /\ d.lists = {} /\ d.takes = s /\ d.byName = {}
      /\ d.wild = {} /\ d.pairs = FALSE /\ d.attrs = {}
  BY DEF Children, Plain
<1>4. ToSet(s) \in SUBSET (Tag \ {Unknown})
  BY ToSetIs
<1> HIDE DEF d
<1>5. Well(d)
  BY <1>2, <1>3, <1>4 DEF Well, HasMembers, Member
<1> QED
  BY <1>3, <1>5 DEF d

LEMMA CollectionsWell ==
    ASSUME NEW s \in Seq(Tag \ {Unknown})
    PROVE  Well(Collections(s)) /\ ~Collections(s).pairs /\ Collections(s).slots = <<>>
<1> DEFINE d == Collections(s)
<1>1. s \in Seq(Tag)
  OBVIOUS
<1>4. ToSet(s) \in SUBSET (Tag \ {Unknown})
  BY ToSetIs
<1>2. d \in ElementClass
  BY <1>1, <1>4, PlainWell DEF Well, ElementClass, Collections
<1>3. /\ d.slots = <<>> /\ d.lists = ToSet(s) /\ d.takes = s /\ d.byName = {}
      /\ d.wild = {} /\ d.pairs = FALSE /\ d.attrs = {}
  BY DEF Collections, Plain
<1> HIDE DEF d
<1>6. Distinct(<<>>)
  BY DEF Distinct
<1>5. Well(d)
  BY <1>2, <1>3, <1>4, <1>6, ToSetEmpty DEF Well, HasMembers, Member
<1> QED
  BY <1>3, <1>5 DEF d

LEMMA WildcardWell ==
    ASSUME NEW c, Well(c), ~c.pairs, Unknown \notin ToSet(c.slots), NEW N \in SUBSET Namespaces
    PROVE  Well(Wildcard(c, N)) /\ Wildcard(c, N).pairs = c.pairs
<1> DEFINE d == Wildcard(c, N)
<1>1. c \in ElementClass /\ c.copied \in Seq(Tag) /\ c.lists \in SUBSET Tag
  BY DEF Well, ElementClass
<1>2. Append(c.copied, Unknown) \in Seq(Tag) /\ c.lists \cup {Unknown} \in SUBSET Tag
  BY <1>1, TagUnknown
<1>3. d \in ElementClass
  BY <1>1, <1>2 DEF ElementClass, Wildcard
<1>4. /\ d.slots = c.slots /\ d.lists = c.lists \cup {Unknown} /\ d.takes = c.takes
      /\ d.byName = c.byName /\ d.pairs = c.pairs /\ d.attrs = c.attrs
      /\ d.attrsRead = c.attrsRead
  BY <1>1 DEF ElementClass, Wildcard
<1> HIDE DEF d
<1>5. Well(d)
  BY <1>3, <1>4 DEF Well, HasMembers, Member
<1> QED
  BY <1>4, <1>5 DEF d
-----------------------------------------------------------------------------
(***************************************************************************)
(* The names the classes are written with.                                 *)
(***************************************************************************)

\* Names of members.
Members == Tag \ {Unknown}

LEMMA RegisteredMembers == Registered \subseteq Members
<1>1. /\ \A n : Ds(n) # Unknown /\ Ds11(n) # Unknown /\ Enc(n) # Unknown /\ Enc11(n) # Unknown
      /\ \A n : Soap(n) # Unknown
  BY DEF Ds, Ds11, Enc, Enc11, Soap, Unknown
<1>2. Unknown \notin KeyInfoRegistered
  BY <1>1 DEF KeyInfoRegistered, KeyInfoSimple, KeyInfoComplex
<1>3. Unknown \notin EncryptionRegistered
  BY <1>1 DEF EncryptionRegistered, EncryptionSimple, EncryptionComplex
<1>4. \A n \in {"faultcode", "faultstring", "faultactor", "detail"} : Bare(n) # Unknown
  BY DEF Bare, Unknown
<1>5. Unknown \notin SOAPRegistered
  BY <1>1, <1>4 DEF SOAPRegistered, SOAPSimple, SOAPComplex
<1> QED
  BY <1>2, <1>3, <1>5 DEF Registered, Members, Tag

DsNames ==
    {"KeyName", "MgmtData", "Modulus", "Exponent", "Seed", "PgenCounter", "P", "Q", "G", "Y", "J",
     "XPath", "X509IssuerName", "X509SerialNumber", "X509SKI", "X509SubjectName",
     "X509Certificate", "X509CRL", "SPKISexp", "PGPKeyID", "PGPKeyPacket",
     "KeyInfo", "KeyValue", "DSAKeyValue", "RSAKeyValue", "Transform", "Transforms",
     "RetrievalMethod", "X509IssuerSerial", "X509Data", "SPKIData", "PGPData"}
Ds11Names ==
    {"OCSPResponse", "PublicKey", "DEREncodedKeyValue", "ECKeyValue", "KeyInfoReference",
     "NamedCurve", "X509Digest", "ECParameters"}
EncNames ==
    {"CarriedKeyName", "CipherValue", "KeySize", "OAEPparams", "EncryptionMethod", "Transforms",
     "CipherReference", "CipherData", "EncryptionProperty", "EncryptionProperties",
     "DataReference", "KeyReference", "ReferenceList", "EncryptedData", "EncryptedKey"}
SoapNames == {"Fault", "Body", "Header", "Envelope"}
BareNames == {"faultcode", "faultstring", "faultactor", "detail"}

LEMMA NamesAre ==
    /\ \A n \in DsNames : Ds(n) \in Members
    /\ \A n \in Ds11Names : Ds11(n) \in Members
    /\ \A n \in EncNames : Enc(n) \in Members
    /\ Enc11("MGF") \in Members
    /\ \A n \in SoapNames : Soap(n) \in Members
    /\ \A n \in BareNames : Bare(n) \in Members
<1>1. \A n \in DsNames : Ds(n) \in KeyInfoRegistered
  BY DEF DsNames, KeyInfoRegistered, KeyInfoSimple, KeyInfoComplex
<1>2. \A n \in Ds11Names \ {"ECParameters"} : Ds11(n) \in KeyInfoRegistered
  BY DEF Ds11Names, KeyInfoRegistered, KeyInfoSimple, KeyInfoComplex
<1>3. \A n \in EncNames : Enc(n) \in EncryptionRegistered
  BY DEF EncNames, EncryptionRegistered, EncryptionSimple, EncryptionComplex
<1>4. Enc11("MGF") \in EncryptionRegistered
  BY DEF EncryptionRegistered, EncryptionComplex
<1>5. /\ \A n \in SoapNames : Soap(n) \in SOAPRegistered
      /\ \A n \in BareNames : Bare(n) \in SOAPRegistered
  BY DEF SoapNames, BareNames, SOAPRegistered, SOAPSimple, SOAPComplex
<1>6. Ds11("ECParameters") \in Members
  BY DEF Members, Tag, Ds11, Unknown
<1>7. \A n \in Ds11Names : n = "ECParameters" \/ n \in Ds11Names \ {"ECParameters"}
  OBVIOUS
<1> QED
  BY <1>1, <1>2, <1>3, <1>4, <1>5, <1>6, <1>7, RegisteredMembers DEF Registered

LEMMA EachDs ==
    ASSUME NEW s \in Seq(DsNames)
    PROVE  /\ Each(s, Ds) \in Seq(Members) /\ Len(Each(s, Ds)) = Len(s)
           /\ \A i \in DOMAIN s : Each(s, Ds)[i] = Ds(s[i])
           /\ Distinct(s) => Distinct(Each(s, Ds))
<1> DEFINE t == [i \in DOMAIN s |-> Ds(s[i])]
<1>1. DOMAIN s = 1..Len(s) /\ Len(s) \in Nat /\ \A i \in DOMAIN s : s[i] \in DsNames
  OBVIOUS
<1>2. \A i \in DOMAIN s : t[i] \in Members
  BY <1>1, NamesAre
<1>3. t \in Seq(Members) /\ Len(t) = Len(s)
  BY <1>1, <1>2, SeqDef
<1>4. \A a, b : Ds(a) = Ds(b) => a = b
  BY DEF Ds
<1>5. Distinct(s) => Distinct(t)
  BY <1>4 DEF Distinct
<1>6. Each(s, Ds) = t
  BY DEF Each
<1> HIDE DEF t
<1>7. \A i \in DOMAIN s : t[i] = Ds(s[i])
  BY DEF t
<1> QED
  BY <1>3, <1>5, <1>6, <1>7

LEMMA EachDs11 ==
    ASSUME NEW s \in Seq(Ds11Names)
    PROVE  /\ Each(s, Ds11) \in Seq(Members) /\ Len(Each(s, Ds11)) = Len(s)
           /\ \A i \in DOMAIN s : Each(s, Ds11)[i] = Ds11(s[i])
           /\ Distinct(s) => Distinct(Each(s, Ds11))
<1> DEFINE t == [i \in DOMAIN s |-> Ds11(s[i])]
<1>1. DOMAIN s = 1..Len(s) /\ Len(s) \in Nat /\ \A i \in DOMAIN s : s[i] \in Ds11Names
  OBVIOUS
<1>2. \A i \in DOMAIN s : t[i] \in Members
  BY <1>1, NamesAre
<1>3. t \in Seq(Members) /\ Len(t) = Len(s)
  BY <1>1, <1>2, SeqDef
<1>4. \A a, b : Ds11(a) = Ds11(b) => a = b
  BY DEF Ds11
<1>5. Distinct(s) => Distinct(t)
  BY <1>4 DEF Distinct
<1>6. Each(s, Ds11) = t
  BY DEF Each
<1> HIDE DEF t
<1>7. \A i \in DOMAIN s : t[i] = Ds11(s[i])
  BY DEF t
<1> QED
  BY <1>3, <1>5, <1>6, <1>7

LEMMA EachEnc ==
    ASSUME NEW s \in Seq(EncNames)
    PROVE  /\ Each(s, Enc) \in Seq(Members) /\ Len(Each(s, Enc)) = Len(s)
           /\ \A i \in DOMAIN s : Each(s, Enc)[i] = Enc(s[i])
           /\ Distinct(s) => Distinct(Each(s, Enc))
<1> DEFINE t == [i \in DOMAIN s |-> Enc(s[i])]
<1>1. DOMAIN s = 1..Len(s) /\ Len(s) \in Nat /\ \A i \in DOMAIN s : s[i] \in EncNames
  OBVIOUS
<1>2. \A i \in DOMAIN s : t[i] \in Members
  BY <1>1, NamesAre
<1>3. t \in Seq(Members) /\ Len(t) = Len(s)
  BY <1>1, <1>2, SeqDef
<1>4. \A a, b : Enc(a) = Enc(b) => a = b
  BY DEF Enc
<1>5. Distinct(s) => Distinct(t)
  BY <1>4 DEF Distinct
<1>6. Each(s, Enc) = t
  BY DEF Each
<1> HIDE DEF t
<1>7. \A i \in DOMAIN s : t[i] = Enc(s[i])
  BY DEF t
<1> QED
  BY <1>3, <1>5, <1>6, <1>7

LEMMA EachSoap ==
    ASSUME NEW s \in Seq(SoapNames)
    PROVE  /\ Each(s, Soap) \in Seq(Members) /\ Len(Each(s, Soap)) = Len(s)
           /\ \A i \in DOMAIN s : Each(s, Soap)[i] = Soap(s[i])
           /\ Distinct(s) => Distinct(Each(s, Soap))
<1> DEFINE t == [i \in DOMAIN s |-> Soap(s[i])]
<1>1. DOMAIN s = 1..Len(s) /\ Len(s) \in Nat /\ \A i \in DOMAIN s : s[i] \in SoapNames
  OBVIOUS
<1>2. \A i \in DOMAIN s : t[i] \in Members
  BY <1>1, NamesAre
<1>3. t \in Seq(Members) /\ Len(t) = Len(s)
  BY <1>1, <1>2, SeqDef
<1>4. \A a, b : Soap(a) = Soap(b) => a = b
  BY DEF Soap
<1>5. Distinct(s) => Distinct(t)
  BY <1>4 DEF Distinct
<1>6. Each(s, Soap) = t
  BY DEF Each
<1> HIDE DEF t
<1>7. \A i \in DOMAIN s : t[i] = Soap(s[i])
  BY DEF t
<1> QED
  BY <1>3, <1>5, <1>6, <1>7

LEMMA EachBare ==
    ASSUME NEW s \in Seq(BareNames)
    PROVE  /\ Each(s, Bare) \in Seq(Members) /\ Len(Each(s, Bare)) = Len(s)
           /\ \A i \in DOMAIN s : Each(s, Bare)[i] = Bare(s[i])
           /\ Distinct(s) => Distinct(Each(s, Bare))
<1> DEFINE t == [i \in DOMAIN s |-> Bare(s[i])]
<1>1. DOMAIN s = 1..Len(s) /\ Len(s) \in Nat /\ \A i \in DOMAIN s : s[i] \in BareNames
  OBVIOUS
<1>2. \A i \in DOMAIN s : t[i] \in Members
  BY <1>1, NamesAre
<1>3. t \in Seq(Members) /\ Len(t) = Len(s)
  BY <1>1, <1>2, SeqDef
<1>4. \A a, b : Bare(a) = Bare(b) => a = b
  BY DEF Bare
<1>5. Distinct(s) => Distinct(t)
  BY <1>4 DEF Distinct
<1>6. Each(s, Bare) = t
  BY DEF Each
<1> HIDE DEF t
<1>7. \A i \in DOMAIN s : t[i] = Bare(s[i])
  BY DEF t
<1> QED
  BY <1>3, <1>5, <1>6, <1>7
-----------------------------------------------------------------------------
(***************************************************************************)
(* The classes, one by one.                                                *)
(***************************************************************************)

LEMMA WildcardAfterChildren ==
    ASSUME NEW s \in Seq(Members), Distinct(s), NEW N \in SUBSET Namespaces
    PROVE  Well(Wildcard(Children(s), N)) /\ ~Wildcard(Children(s), N).pairs
<1>1. Unknown \notin ToSet(s)
  BY ToSetIs DEF Members
<1> HIDE DEF Well
<1> QED
  BY <1>1, ChildrenWell, WildcardWell DEF Members

LEMMA WildcardAfterCollections ==
    ASSUME NEW s \in Seq(Members), NEW N \in SUBSET Namespaces
    PROVE  Well(Wildcard(Collections(s), N)) /\ ~Wildcard(Collections(s), N).pairs
<1> HIDE DEF Well
<1> QED
  BY CollectionsWell, WildcardWell, ToSetEmpty DEF Members

LEMMA WildcardOnly ==
    ASSUME NEW N \in SUBSET Namespaces
    PROVE  Well(Wildcard(Plain, N)) /\ ~Wildcard(Plain, N).pairs
<1> HIDE DEF Well
<1> QED
  BY PlainWell, WildcardWell, ToSetEmpty

LEMMA Foreign == \A ns : OtherThan(ns) \in SUBSET Namespaces
BY DEF OtherThan

LEMMA DSAKeyValueImplWell == Well(DSAKeyValueImpl) /\ ~DSAKeyValueImpl.pairs
<1> DEFINE n == <<"P", "Q", "G", "Y", "J", "Seed", "PgenCounter">>
<1>1. n \in Seq(DsNames) /\ Distinct(n)
  BY DEF DsNames, Distinct
<1>2. Each(n, Ds) \in Seq(Members) /\ Distinct(Each(n, Ds))
  BY <1>1, EachDs
<1>3. Well(Children(Each(n, Ds))) /\ ~Children(Each(n, Ds)).pairs
  BY <1>2, ChildrenWell DEF Members
<1> QED
  BY <1>3 DEF DSAKeyValueImpl

LEMMA RSAKeyValueImplWell == Well(RSAKeyValueImpl) /\ ~RSAKeyValueImpl.pairs
<1> DEFINE n == <<"Modulus", "Exponent">>
<1>1. n \in Seq(DsNames) /\ Distinct(n)
  BY DEF DsNames, Distinct
<1>2. Each(n, Ds) \in Seq(Members) /\ Distinct(Each(n, Ds))
  BY <1>1, EachDs
<1>3. Well(Children(Each(n, Ds))) /\ ~Children(Each(n, Ds)).pairs
  BY <1>2, ChildrenWell DEF Members
<1> QED
  BY <1>3 DEF RSAKeyValueImpl

LEMMA X509IssuerSerialImplWell == Well(X509IssuerSerialImpl) /\ ~X509IssuerSerialImpl.pairs
<1> DEFINE n == <<"X509IssuerName", "X509SerialNumber">>
<1>1. n \in Seq(DsNames) /\ Distinct(n)
  BY DEF DsNames, Distinct
<1>2. Each(n, Ds) \in Seq(Members) /\ Distinct(Each(n, Ds))
  BY <1>1, EachDs
<1>3. Well(Children(Each(n, Ds))) /\ ~Children(Each(n, Ds)).pairs
  BY <1>2, ChildrenWell DEF Members
<1> QED
  BY <1>3 DEF X509IssuerSerialImpl

LEMMA CipherDataImplWell == Well(CipherDataImpl) /\ ~CipherDataImpl.pairs
<1> DEFINE n == <<"CipherValue", "CipherReference">>
<1>1. n \in Seq(EncNames) /\ Distinct(n)
  BY DEF EncNames, Distinct
<1>2. Each(n, Enc) \in Seq(Members) /\ Distinct(Each(n, Enc))
  BY <1>1, EachEnc
<1>3. Well(Children(Each(n, Enc))) /\ ~Children(Each(n, Enc)).pairs
  BY <1>2, ChildrenWell DEF Members
<1> QED
  BY <1>3 DEF CipherDataImpl

LEMMA FaultImplWell == Well(FaultImpl) /\ ~FaultImpl.pairs
<1> DEFINE n == <<"faultcode", "faultstring", "faultactor", "detail">>
<1>1. n \in Seq(BareNames) /\ Distinct(n)
  BY DEF BareNames, Distinct
<1>2. Each(n, Bare) \in Seq(Members) /\ Distinct(Each(n, Bare))
  BY <1>1, EachBare
<1>3. Well(Children(Each(n, Bare))) /\ ~Children(Each(n, Bare)).pairs
  BY <1>2, ChildrenWell DEF Members
<1> QED
  BY <1>3 DEF FaultImpl

LEMMA NamedCurveImplWell == Well(NamedCurveImpl) /\ ~NamedCurveImpl.pairs
    /\ {"URI"} \subseteq NamedCurveImpl.attrsRead
<1>1. {"URI"} \in SUBSET AttributeNames
  BY DEF AttributeNames
<1> QED
  BY <1>1, AttributesWell, PlainWell DEF NamedCurveImpl

LEMMA DEREncodedKeyValueImplWell == Well(DEREncodedKeyValueImpl)
    /\ ~DEREncodedKeyValueImpl.pairs /\ {"Id"} \subseteq DEREncodedKeyValueImpl.attrsRead
<1>1. {"Id"} \in SUBSET AttributeNames
  BY DEF AttributeNames
<1> QED
  BY <1>1, AttributesWell, SimpleWell DEF DEREncodedKeyValueImpl

LEMMA X509DigestImplWell == Well(X509DigestImpl) /\ ~X509DigestImpl.pairs
    /\ {"Algorithm"} \subseteq X509DigestImpl.attrsRead
<1>1. {"Algorithm"} \in SUBSET AttributeNames
  BY DEF AttributeNames
<1> QED
  BY <1>1, AttributesWell, SimpleWell DEF X509DigestImpl

LEMMA KeyInfoReferenceImplWell == Well(KeyInfoReferenceImpl) /\ ~KeyInfoReferenceImpl.pairs
    /\ {"Id", "URI"} \subseteq KeyInfoReferenceImpl.attrsRead
<1>1. {"Id", "URI"} \in SUBSET AttributeNames
  BY DEF AttributeNames
<1> QED
  BY <1>1, AttributesWell, PlainWell DEF KeyInfoReferenceImpl

LEMMA MGFImplWell == Well(MGFImpl) /\ ~MGFImpl.pairs /\ {"Algorithm"} \subseteq MGFImpl.attrsRead
<1>1. {"Algorithm"} \in SUBSET AttributeNames
  BY DEF AttributeNames
<1> QED
  BY <1>1, AttributesWell, SimpleWell DEF MGFImpl

LEMMA TransformsImplWell == Well(TransformsImpl) /\ ~TransformsImpl.pairs
<1> DEFINE s == <<Ds("Transform")>>
<1>1. s \in Seq(Members) /\ Distinct(s)
  BY NamesAre DEF DsNames, EncNames, Distinct
<1>3. Well(Collections(s)) /\ ~Collections(s).pairs
  BY <1>1, CollectionsWell DEF Members
<1> QED
  BY <1>3 DEF TransformsImpl

LEMMA RetrievalMethodImplWell == Well(RetrievalMethodImpl) /\ ~RetrievalMethodImpl.pairs
    /\ {"URI", "Type"} \subseteq RetrievalMethodImpl.attrsRead
<1> DEFINE s == <<Ds("Transforms")>>
<1>1. s \in Seq(Members) /\ Distinct(s)
  BY NamesAre DEF DsNames, EncNames, Distinct
<1>3. Well(Children(s)) /\ ~Children(s).pairs
  BY <1>1, ChildrenWell DEF Members
<1>5. {"URI", "Type"} \in SUBSET AttributeNames
  BY DEF AttributeNames
<1> QED
  BY <1>3, <1>5, AttributesWell DEF RetrievalMethodImpl

LEMMA EncTransformsImplWell == Well(EncTransformsImpl) /\ ~EncTransformsImpl.pairs
<1> DEFINE s == <<Ds("Transform")>>
<1>1. s \in Seq(Members) /\ Distinct(s)
  BY NamesAre DEF DsNames, EncNames, Distinct
<1>3. Well(Collections(s)) /\ ~Collections(s).pairs
  BY <1>1, CollectionsWell DEF Members
<1> QED
  BY <1>3 DEF EncTransformsImpl

LEMMA CipherReferenceImplWell == Well(CipherReferenceImpl) /\ ~CipherReferenceImpl.pairs
    /\ {"URI"} \subseteq CipherReferenceImpl.attrsRead
<1> DEFINE s == <<Enc("Transforms")>>
<1>1. s \in Seq(Members) /\ Distinct(s)
  BY NamesAre DEF DsNames, EncNames, Distinct
<1>3. Well(Children(s)) /\ ~Children(s).pairs
  BY <1>1, ChildrenWell DEF Members
<1>5. {"URI"} \in SUBSET AttributeNames
  BY DEF AttributeNames
<1> QED
  BY <1>3, <1>5, AttributesWell DEF CipherReferenceImpl

LEMMA EncryptionPropertiesImplWell == Well(EncryptionPropertiesImpl)
    /\ ~EncryptionPropertiesImpl.pairs /\ {"Id"} \subseteq EncryptionPropertiesImpl.attrsRead
<1> DEFINE s == <<Enc("EncryptionProperty")>>
<1>1. s \in Seq(Members) /\ Distinct(s)
  BY NamesAre DEF DsNames, EncNames, Distinct
<1>3. Well(Collections(s)) /\ ~Collections(s).pairs
  BY <1>1, CollectionsWell DEF Members
<1>5. {"Id"} \in SUBSET AttributeNames
  BY DEF AttributeNames
<1> QED
  BY <1>3, <1>5, AttributesWell DEF EncryptionPropertiesImpl

LEMMA DetailImplWell == Well(DetailImpl) /\ ~DetailImpl.pairs
BY WildcardOnly, ExtensibleWell DEF DetailImpl

LEMMA BodyImplWell == Well(BodyImpl) /\ ~BodyImpl.pairs
BY WildcardOnly, ExtensibleWell DEF BodyImpl

LEMMA HeaderImplWell == Well(HeaderImpl) /\ ~HeaderImpl.pairs
BY WildcardOnly, ExtensibleWell DEF HeaderImpl

LEMMA EncryptionPropertyImplWell == Well(EncryptionPropertyImpl) /\ ~EncryptionPropertyImpl.pairs
<1>1. {"Id", "Target"} \in SUBSET AttributeNames
  BY DEF AttributeNames
<1> QED
  BY <1>1, WildcardOnly, AttributesWell, ExtensibleWell DEF EncryptionPropertyImpl

LEMMA ReferenceTypeImplWell ==
    Well(ReferenceTypeImpl) /\ ~ReferenceTypeImpl.pairs
    /\ {"URI"} \subseteq ReferenceTypeImpl.attrsRead
<1>1. {"URI"} \in SUBSET AttributeNames
  BY DEF AttributeNames
<1> QED
  BY <1>1, WildcardOnly, AttributesWell DEF ReferenceTypeImpl

LEMMA EnvelopeImplWell == Well(EnvelopeImpl) /\ ~EnvelopeImpl.pairs
<1> DEFINE n == <<"Header", "Body">>
<1>1. n \in Seq(SoapNames) /\ Distinct(n)
  BY DEF SoapNames, Distinct
<1>2. Each(n, Soap) \in Seq(Members) /\ Distinct(Each(n, Soap))
  BY <1>1, EachSoap
<1>3. Well(Children(Each(n, Soap))) /\ ~Children(Each(n, Soap)).pairs
  BY <1>2, ChildrenWell DEF Members
<1> QED
  BY <1>3, ExtensibleWell DEF EnvelopeImpl

LEMMA FaultcodeImplWell == Well(FaultcodeImpl) /\ ~FaultcodeImpl.pairs
<1> DEFINE d == FaultcodeImpl
<1>1. Simple \in ElementClass
  BY SimpleWell DEF Well
<1>2. d \in ElementClass
  BY <1>1 DEF FaultcodeImpl, ElementClass
<1>3. /\ d.slots = Simple.slots /\ d.lists = Simple.lists /\ d.takes = Simple.takes
      /\ d.byName = Simple.byName /\ d.wild = Simple.wild /\ d.pairs = Simple.pairs
      /\ d.attrs = Simple.attrs /\ d.attrsRead = Simple.attrsRead
  BY <1>1 DEF FaultcodeImpl, ElementClass
<1> HIDE DEF d
<1>4. Well(d) /\ ~d.pairs
  BY <1>2, <1>3, SimpleWell DEF Well, HasMembers, HasPairs, Member
<1> QED
  BY <1>4 DEF d

LEMMA ReferenceListImplWell == Well(ReferenceListImpl) /\ ~ReferenceListImpl.pairs
<1> DEFINE n == <<"DataReference", "KeyReference">>
<1>1. n \in Seq(EncNames)
  BY DEF EncNames
<1>2. Each(n, Enc) \in Seq(Members)
  BY <1>1, EachEnc
<1> DEFINE c == Collections(Each(n, Enc))
<1>3. Well(c) /\ ~c.pairs
  BY <1>2, CollectionsWell DEF Members
<1>4. ReferenceListImpl = [c EXCEPT !.bag = TRUE]
  BY DEF ReferenceListImpl
<1> HIDE DEF c
<1>5. <<>> \in Seq(Tag)
  OBVIOUS
<1> QED
  BY <1>3, <1>4, <1>5, OrderWell

LEMMA EncryptionMethodImplWell ==
    Well(EncryptionMethodImpl) /\ ~EncryptionMethodImpl.pairs
    /\ {"Algorithm"} \subseteq EncryptionMethodImpl.attrsRead
<1> DEFINE n == <<"KeySize", "OAEPparams">>
<1>1. n \in Seq(EncNames) /\ Distinct(n)
  BY DEF EncNames, Distinct
<1>2. Each(n, Enc) \in Seq(Members) /\ Distinct(Each(n, Enc))
  BY <1>1, EachEnc
<1> DEFINE c == Wildcard(Children(Each(n, Enc)), OtherThan("enc"))
<1>3. Well(c) /\ ~c.pairs
  BY <1>2, WildcardAfterChildren, Foreign
<1>4. EncryptionMethodImpl = Attributes(c, {"Algorithm"})
  BY DEF EncryptionMethodImpl
<1> HIDE DEF c
<1>5. {"Algorithm"} \in SUBSET AttributeNames
  BY DEF AttributeNames
<1> QED
  BY <1>3, <1>4, <1>5, AttributesWell

LEMMA PGPDataImplWell == Well(PGPDataImpl) /\ ~PGPDataImpl.pairs
<1> DEFINE n == <<"PGPKeyID", "PGPKeyPacket">>
<1>1. n \in Seq(DsNames) /\ Distinct(n)
  BY DEF DsNames, Distinct
<1>2. Each(n, Ds) \in Seq(Members) /\ Distinct(Each(n, Ds))
  BY <1>1, EachDs
<1> QED
  BY <1>2, WildcardAfterChildren, Foreign DEF PGPDataImpl

LEMMA TransformImplWell ==
    Well(TransformImpl) /\ ~TransformImpl.pairs /\ {"Algorithm"} \subseteq TransformImpl.attrsRead
<1> DEFINE c == Wildcard(Collections(<<Ds("XPath")>>), OtherThan("ds"))
           d == [c EXCEPT !.bag = TRUE]
<1>1. <<Ds("XPath")>> \in Seq(Members)
  BY NamesAre DEF DsNames
<1>2. Well(c) /\ ~c.pairs
  BY <1>1, WildcardAfterCollections, Foreign
<1>3. <<>> \in Seq(Tag)
  OBVIOUS
<1>4. TransformImpl = Attributes(d, {"Algorithm"})
  BY DEF TransformImpl
<1> HIDE DEF c
<1>6. Well(d) /\ ~d.pairs
  BY <1>2, <1>3, OrderWell
<1> HIDE DEF d
<1>5. {"Algorithm"} \in SUBSET AttributeNames
  BY DEF AttributeNames
<1> QED
  BY <1>4, <1>5, <1>6, AttributesWell

LEMMA KeyInfoImplWell == Well(KeyInfoImpl) /\ ~KeyInfoImpl.pairs
<1> DEFINE s == <<Ds("X509Data"), Ds("KeyName"), Ds("KeyValue"),
                   Ds11("DEREncodedKeyValue"), Ds("RetrievalMethod"), Ds("MgmtData"),
                   Ds("SPKIData"), Ds("PGPData"), Ds11("KeyInfoReference")>>
           c == Wildcard(Collections(s), OtherThan("ds"))
           d == [c EXCEPT !.bag = TRUE]
<1>0. /\ Ds("X509Data") \in Members /\ Ds("KeyName") \in Members /\ Ds("KeyValue") \in Members
      /\ Ds11("DEREncodedKeyValue") \in Members /\ Ds("RetrievalMethod") \in Members
      /\ Ds("MgmtData") \in Members /\ Ds("SPKIData") \in Members /\ Ds("PGPData") \in Members
      /\ Ds11("KeyInfoReference") \in Members
  BY NamesAre DEF DsNames, Ds11Names
<1>1. s \in Seq(Members)
  BY <1>0
<1>2. Well(c) /\ ~c.pairs
  BY <1>1, WildcardAfterCollections, Foreign
<1>3. <<>> \in Seq(Tag)
  OBVIOUS
<1>4. KeyInfoImpl = Attributes(d, {"Id"})
  BY DEF KeyInfoImpl
<1> HIDE DEF c
<1>6. Well(d) /\ ~d.pairs
  BY <1>2, <1>3, OrderWell
<1> HIDE DEF d
<1>5. {"Id"} \in SUBSET AttributeNames
  BY DEF AttributeNames
<1> QED
  BY <1>4, <1>5, <1>6, AttributesWell

LEMMA SeqDomain ==
    ASSUME NEW S, NEW s \in Seq(S)
    PROVE  DOMAIN s = 1..Len(s) /\ Len(s) \in Nat /\ \A i \in 1..Len(s) : s[i] \in S
OBVIOUS

\* Where the elements of one sequence and another go.
LEMMA Joined ==
    ASSUME NEW S, NEW s \in Seq(S), NEW t \in Seq(S)
    PROVE  /\ s \o t \in Seq(S) /\ Len(s \o t) = Len(s) + Len(t)
           /\ DOMAIN (s \o t) = 1..Len(s) + Len(t)
           /\ \A i \in 1..Len(s) : (s \o t)[i] = s[i]
           /\ \A i \in 1..Len(t) : (s \o t)[Len(s) + i] = t[i]
<1>1. /\ s \o t \in Seq(S)
      /\ Len(s \o t) = Len(s) + Len(t)
      /\ \A i \in 1..Len(s) + Len(t) : (s \o t)[i] = IF i <= Len(s) THEN s[i] ELSE t[i - Len(s)]
  BY ConcatProperties
<1>2. Len(s) \in Nat /\ Len(t) \in Nat
  OBVIOUS
<1>3. DOMAIN (s \o t) = 1..Len(s) + Len(t)
  BY <1>1, SeqDomain
<1>4. \A i \in 1..Len(s) : (s \o t)[i] = s[i]
  BY <1>1, <1>2
<1>5. ASSUME NEW i \in 1..Len(t) PROVE (s \o t)[Len(s) + i] = t[i]
  <2>1. Len(s) + i \in 1..Len(s) + Len(t) /\ ~(Len(s) + i <= Len(s)) /\ Len(s) + i - Len(s) = i
    BY <1>2
  <2> QED
    BY <1>1, <2>1
<1> QED
  BY <1>1, <1>3, <1>4, <1>5

LEMMA ChildrenFields ==
    ASSUME NEW s \in Seq(Tag)
    PROVE  /\ Children(s) \in ElementClass
           /\ Children(s).slots = s /\ Children(s).lists = {} /\ Children(s).takes = s
           /\ Children(s).byName = {} /\ Children(s).wild = {} /\ Children(s).pairs = FALSE
           /\ Children(s).attrs = {} /\ Children(s).attrsRead = {}
<1>1. Children(s) \in ElementClass
  BY DEF ElementClass, Children, Plain
<1> QED
  BY <1>1 DEF Children, Plain

\* A class of single children which takes some of them on other terms.
LEMMA ChildrenOtherwise ==
    ASSUME NEW s \in Seq(Tag), Distinct(s),
           NEW t \in Seq(Members), NEW B \in SUBSET Members, NEW N \in SUBSET Namespaces,
           ToSet(t) \cup B \subseteq ToSet(s), N # {} => Unknown \in ToSet(s),
           NEW c, c \in ElementClass, c.slots = s, c.lists = {}, c.takes = t, c.byName = B,
           c.wild = N, c.pairs = FALSE, c.attrs = {}
    PROVE  Well(c) /\ ~c.pairs
<1>1. Unknown \notin ToSet(t) \cup B
  BY ToSetIs DEF Members
<1> QED
  BY <1>1 DEF Well, HasMembers, Member

LEMMA ECKeyValueImplWell == Well(ECKeyValueImpl) /\ ~ECKeyValueImpl.pairs
<1> DEFINE n == <<"ECParameters", "NamedCurve", "PublicKey">>
           parts == Each(n, Ds11)
           c == [Children(parts) EXCEPT !.takes = Tail(parts), !.byName = {parts[1]}]
<1>1. n \in Seq(Ds11Names) /\ Distinct(n) /\ Len(n) = 3
  BY DEF Ds11Names, Distinct
<1>2. parts \in Seq(Members) /\ Distinct(parts) /\ Len(parts) = 3
  BY <1>1, EachDs11
<1>3. ECKeyValueImpl = Attributes(c, {"Id"})
  BY DEF ECKeyValueImpl
<1> HIDE DEF parts
<1>4. parts \in Seq(Tag) /\ parts[1] \in Members
  <2>1. parts \in Seq(Tag)
    BY <1>2 DEF Members
  <2>2. DOMAIN parts = 1..3
    BY <1>2
  <2>3. parts[1] \in Members
    BY <1>2, <2>2
  <2> QED
    BY <2>1, <2>3
<1>5. /\ Tail(parts) \in Seq(Members) /\ Len(Tail(parts)) = 2
      /\ \A i \in DOMAIN Tail(parts) : i + 1 \in DOMAIN parts /\ Tail(parts)[i] = parts[i + 1]
  <2>1. parts # <<>>
    BY <1>2
  <2>2. /\ Tail(parts) \in Seq(Members) /\ Len(Tail(parts)) = 2
        /\ \A i \in 1..Len(Tail(parts)) : Tail(parts)[i] = parts[i + 1]
    BY <1>2, <2>1, HeadTailProperties
  <2>3. DOMAIN parts = 1..3 /\ DOMAIN Tail(parts) = 1..2
    BY <1>2, <2>2, SeqDomain
  <2> QED
    BY <2>2, <2>3
<1>6. ToSet(Tail(parts)) \cup {parts[1]} \subseteq ToSet(parts)
  BY <1>2, <1>5 DEF ToSet
<1>7. c \in ElementClass /\ {parts[1]} \in SUBSET Members /\ {} \in SUBSET Namespaces
  <2>1. Tail(parts) \in Seq(Tag) /\ {parts[1]} \in SUBSET Tag
    BY <1>4, <1>5 DEF Members
  <2>2. Children(parts) \in ElementClass
    BY <1>4, ChildrenFields
  <2>3. c \in ElementClass
    BY <2>1, <2>2 DEF ElementClass
  <2> QED
    BY <2>3, <1>4
<1>8. /\ c.slots = parts /\ c.lists = {} /\ c.takes = Tail(parts) /\ c.byName = {parts[1]}
      /\ c.wild = {} /\ c.pairs = FALSE /\ c.attrs = {}
  <2>1. /\ Children(parts) \in ElementClass
        /\ Children(parts).slots = parts /\ Children(parts).lists = {}
        /\ Children(parts).wild = {} /\ Children(parts).pairs = FALSE
        /\ Children(parts).attrs = {}
    BY <1>4, ChildrenFields
  <2> QED
    BY <2>1 DEF ElementClass
<1> HIDE DEF c
<1>9. Well(c) /\ ~c.pairs
  BY <1>2, <1>4, <1>5, <1>6, <1>7, <1>8, ChildrenOtherwise
<1>10. {"Id"} \in SUBSET AttributeNames
  BY DEF AttributeNames
<1> QED
  BY <1>3, <1>9, <1>10, AttributesWell

LEMMA KeyValueImplWell == Well(KeyValueImpl) /\ ~KeyValueImpl.pairs
<1> DEFINE keys == <<Ds("DSAKeyValue"), Ds("RSAKeyValue"), Ds11("ECKeyValue")>>
           all == Append(keys, Unknown)
           c == [Children(all) EXCEPT !.takes = keys, !.wild = OtherThan("ds")]
<1>1. keys \in Seq(Members) /\ Len(keys) = 3
  BY NamesAre DEF DsNames, Ds11Names
<1>2. Distinct(keys)
  BY DEF Distinct, Ds, Ds11
<1> HIDE DEF keys
<1>3. /\ all \in Seq(Tag) /\ Len(all) = 4 /\ all[4] = Unknown
      /\ \A i \in 1..3 : all[i] = keys[i] /\ keys[i] # Unknown
  <2>1. keys \in Seq(Tag) /\ Unknown \in Tag
    BY <1>1, TagUnknown DEF Members
  <2>2. \A i \in 1..3 : keys[i] \in Members
    BY <1>1
  <2>3. /\ all \in Seq(Tag) /\ Len(all) = 4 /\ all[4] = Unknown
        /\ \A i \in 1..3 : all[i] = keys[i]
    <3>1. Len(keys) = 3
      BY <1>1
    <3>2. /\ all \in Seq(Tag) /\ Len(all) = Len(keys) + 1
          /\ \A i \in 1..Len(keys) : all[i] = keys[i]
          /\ all[Len(keys) + 1] = Unknown
      BY <2>1, AppendProperties
    <3> HIDE DEF all
    <3>3. Len(keys) + 1 = 4
      BY <3>1
    <3> QED
      BY <3>1, <3>2, <3>3
  <2> QED
    BY <2>2, <2>3 DEF Members
<1>4. Distinct(all)
  BY <1>1, <1>2, <1>3 DEF Distinct
<1>5. ToSet(keys) \cup {} \subseteq ToSet(all) /\ Unknown \in ToSet(all)
  BY <1>1, <1>3 DEF ToSet
<1> HIDE DEF all
<1>6. keys \in Seq(Tag)
  BY <1>1 DEF Members
<1>7. c \in ElementClass
  <2>1. Children(all) \in ElementClass
    BY <1>3, ChildrenFields
  <2>2. OtherThan("ds") \in SUBSET Namespaces
    BY Foreign
  <2> QED
    BY <1>6, <2>1, <2>2 DEF ElementClass
<1>8. /\ c.slots = all /\ c.lists = {} /\ c.takes = keys /\ c.byName = {}
      /\ c.wild = OtherThan("ds") /\ c.pairs = FALSE /\ c.attrs = {}
  <2>1. /\ Children(all) \in ElementClass
        /\ Children(all).slots = all /\ Children(all).lists = {}
        /\ Children(all).byName = {} /\ Children(all).pairs = FALSE
        /\ Children(all).attrs = {}
    BY <1>3, ChildrenFields
  <2> QED
    BY <2>1 DEF ElementClass
<1>9. KeyValueImpl = c
  BY DEF KeyValueImpl, keys, all
<1> HIDE DEF c
<1>10. Well(c) /\ ~c.pairs
  BY <1>1, <1>3, <1>4, <1>5, <1>7, <1>8, Foreign, ChildrenOtherwise
<1> QED
  BY <1>9, <1>10

LEMMA X509DataImplWell == Well(X509DataImpl) /\ ~X509DataImpl.pairs
<1> DEFINE n == <<"X509IssuerSerial", "X509SKI", "X509SubjectName", "X509Certificate", "X509CRL">>
           m == <<"X509Digest", "OCSPResponse">>
           k == <<"X509Certificate", "X509CRL", "X509SubjectName", "X509IssuerSerial", "X509SKI">>
           ofDs == Each(n, Ds)
           of11 == Each(m, Ds11)
           copied == Each(k, Ds) \o of11
           c == Collections(ofDs \o of11)
           d == [c EXCEPT !.copied = copied, !.bag = TRUE]
<1>1. n \in Seq(DsNames) /\ k \in Seq(DsNames) /\ m \in Seq(Ds11Names)
  BY DEF DsNames, Ds11Names
<1>2. ofDs \in Seq(Members) /\ of11 \in Seq(Members) /\ Each(k, Ds) \in Seq(Members)
  BY <1>1, EachDs, EachDs11
<1>3. X509DataImpl = Wildcard(d, OtherThan("ds"))
  BY DEF X509DataImpl
<1> HIDE DEF ofDs, of11
<1>4. copied \in Seq(Members) /\ ofDs \o of11 \in Seq(Members)
  BY <1>2
<1>5. Well(c) /\ ~c.pairs /\ c.slots = <<>>
  BY <1>4, CollectionsWell DEF Members
<1>6. copied \in Seq(Tag)
  BY <1>4 DEF Members
<1> HIDE DEF copied, c
<1>7. Well(d) /\ ~d.pairs
  BY <1>5, <1>6, OrderWell
<1>8. d.slots = <<>>
  BY <1>5 DEF Well, ElementClass
<1> HIDE DEF d
<1> QED
  BY <1>3, <1>7, <1>8, ToSetEmpty, Foreign, WildcardWell

LEMMA SPKIDataImplWell == Well(SPKIDataImpl)
<1> DEFINE d == SPKIDataImpl
<1>1. <<Ds("SPKISexp")>> \in Seq(Members)
  BY NamesAre DEF DsNames
<1>2. <<Ds("SPKISexp")>> \in Seq(Tag)
  BY <1>1 DEF Members
<1>3. d \in ElementClass
  BY <1>2, Foreign, PlainWell DEF Well, SPKIDataImpl, ElementClass
<1>4. /\ d.slots = <<>> /\ d.lists = {} /\ d.takes = <<Ds("SPKISexp")>> /\ d.byName = {}
      /\ d.wild = OtherThan("ds") /\ d.pairs = TRUE /\ d.attrs = {}
  BY DEF SPKIDataImpl, Plain
<1>5. Unknown \notin ToSet(d.takes)
  <2>1. ToSet(<<Ds("SPKISexp")>>) \in SUBSET Members
    BY <1>1, ToSetIs
  <2> QED
    BY <2>1, <1>4 DEF Members
<1>6. Distinct(<<>>)
  BY DEF Distinct
<1> HIDE DEF d
<1>7. Well(d)
  BY <1>3, <1>4, <1>5, <1>6, ToSetEmpty DEF Well, HasPairs, OtherThan
<1> QED
  BY <1>7 DEF d

LEMMA EncryptedTypeImplWell ==
    /\ Well(EncryptedTypeImpl) /\ ~EncryptedTypeImpl.pairs
    /\ EncryptedTypeImpl.slots = <<Enc("EncryptionMethod"), Ds("KeyInfo"), Enc("CipherData"),
                                   Enc("EncryptionProperties")>>
    /\ EncryptedTypeImpl.takes = EncryptedTypeImpl.slots
    /\ EncryptedTypeImpl.lists = {} /\ EncryptedTypeImpl.byName = {} /\ EncryptedTypeImpl.wild = {}
<1> DEFINE s == <<Enc("EncryptionMethod"), Ds("KeyInfo"), Enc("CipherData"),
                  Enc("EncryptionProperties")>>
<1>0. /\ Enc("EncryptionMethod") \in Members /\ Ds("KeyInfo") \in Members
      /\ Enc("CipherData") \in Members /\ Enc("EncryptionProperties") \in Members
  BY NamesAre DEF DsNames, EncNames
<1>1. s \in Seq(Members)
  BY <1>0
<1>2. Distinct(s)
  BY DEF Distinct, Enc, Ds
<1> DEFINE A == {"Id", "Type", "MimeType", "Encoding"}
<1>3. EncryptedTypeImpl = Attributes(Children(s), A)
  BY DEF EncryptedTypeImpl
<1>4. A \in SUBSET AttributeNames
  BY DEF AttributeNames
<1> HIDE DEF s, A
<1>5. s \in Seq(Tag)
  BY <1>1 DEF Members
<1>6. Well(Children(s)) /\ ~Children(s).pairs
  BY <1>1, <1>2, ChildrenWell DEF Members
<1>7. /\ Attributes(Children(s), A).slots = s /\ Attributes(Children(s), A).takes = s
      /\ Attributes(Children(s), A).lists = {} /\ Attributes(Children(s), A).byName = {}
      /\ Attributes(Children(s), A).wild = {}
  <2>1. /\ Children(s) \in ElementClass
        /\ Children(s).slots = s /\ Children(s).lists = {} /\ Children(s).takes = s
        /\ Children(s).byName = {} /\ Children(s).wild = {}
    BY <1>5, ChildrenFields
  <2> QED
    BY <2>1 DEF Attributes, ElementClass
<1>8. Well(EncryptedTypeImpl) /\ ~EncryptedTypeImpl.pairs
  BY <1>3, <1>4, <1>6, AttributesWell
<1> QED
  BY <1>3, <1>7, <1>8 DEF s

LEMMA EncryptedKeyImplWell == Well(EncryptedKeyImpl) /\ ~EncryptedKeyImpl.pairs
<1> DEFINE n == <<"ReferenceList", "CarriedKeyName">>
           own == Each(n, Enc)
           e == EncryptedTypeImpl
           c == [e EXCEPT !.slots = @ \o own, !.takes = own \o @, !.copied = @ \o own]
<1>1. n \in Seq(EncNames) /\ Distinct(n) /\ Len(n) = 2
  BY DEF EncNames, Distinct
<1>2. own \in Seq(Members) /\ Distinct(own) /\ Len(own) = 2
  BY <1>1, EachEnc
<1>3. own[1] = Enc("ReferenceList") /\ own[2] = Enc("CarriedKeyName")
  <2>1. 1 \in DOMAIN n /\ 2 \in DOMAIN n /\ n[1] = "ReferenceList" /\ n[2] = "CarriedKeyName"
    OBVIOUS
  <2> HIDE DEF n
  <2>2. own[1] = Enc(n[1]) /\ own[2] = Enc(n[2])
    BY <1>1, <2>1, EachEnc
  <2> QED
    BY <2>1, <2>2
<1>4. EncryptedKeyImpl = Attributes(c, {"Recipient"})
  BY DEF EncryptedKeyImpl
<1> HIDE DEF own
<1>5. /\ e \in ElementClass /\ e.slots \in Seq(Tag) /\ Len(e.slots) = 4 /\ e.takes = e.slots
      /\ e.lists = {} /\ e.byName = {} /\ e.wild = {} /\ ~e.pairs /\ Distinct(e.slots)
      /\ Unknown \notin ToSet(e.slots)
  BY EncryptedTypeImplWell DEF Well, ElementClass
<1>6. \A i \in 1..4 : e.slots[i] # own[1] /\ e.slots[i] # own[2]
  BY <1>3, EncryptedTypeImplWell DEF Enc, Ds
<1>7. own \in Seq(Tag)
  BY <1>2 DEF Members
<1>8. /\ c \in ElementClass /\ c.slots = e.slots \o own /\ c.takes = own \o e.slots
      /\ c.lists = {} /\ c.byName = {} /\ c.wild = {} /\ c.pairs = e.pairs
      /\ c.attrs = e.attrs /\ c.attrsRead = e.attrsRead
  <2>1. /\ e.slots \o own \in Seq(Tag) /\ own \o e.takes \in Seq(Tag)
    BY <1>5, <1>7
  <2>2. e.copied \in Seq(Tag)
    BY <1>5 DEF ElementClass
  <2>3. e.copied \o own \in Seq(Tag)
    BY <2>2, <1>7
  <2>4. c = [e EXCEPT !.slots = e.slots \o own, !.takes = own \o e.takes,
        !.copied = e.copied \o own]
    BY <1>5 DEF ElementClass
  <2>5. c \in ElementClass
    BY <1>5, <2>1, <2>3, <2>4 DEF ElementClass
  <2>6. /\ c.slots = e.slots \o own /\ c.takes = own \o e.takes /\ c.pairs = e.pairs
        /\ c.lists = e.lists /\ c.byName = e.byName /\ c.wild = e.wild
        /\ c.attrs = e.attrs /\ c.attrsRead = e.attrsRead
    BY <1>5, <2>4 DEF ElementClass
  <2> QED
    BY <1>5, <2>5, <2>6
<1> HIDE DEF c
<1>9. /\ \A i \in 1..4 : c.slots[i] = e.slots[i]
      /\ c.slots[5] = own[1] /\ c.slots[6] = own[2] /\ DOMAIN c.slots = 1..6
  <2> DEFINE s == e.slots
             t == c.slots
  <2>1. s \in Seq(Tag) /\ own \in Seq(Tag)
    BY <1>5, <1>7
  <2>2. Len(s) = 4 /\ Len(own) = 2 /\ t = s \o own
    BY <1>2, <1>5, <1>8
  <2> HIDE DEF s, t
  <2> DEFINE u == s \o own
  <2>6. /\ DOMAIN u = 1..Len(s) + Len(own)
        /\ \A i \in 1..Len(s) : u[i] = s[i]
        /\ \A i \in 1..Len(own) : u[Len(s) + i] = own[i]
    BY <2>1, Joined
  <2>7. t = u
    BY <2>2
  <2> HIDE DEF u
  <2>3. /\ DOMAIN t = 1..Len(s) + Len(own)
        /\ \A i \in 1..Len(s) : t[i] = s[i]
        /\ \A i \in 1..Len(own) : t[Len(s) + i] = own[i]
    BY <2>6, <2>7
  <2>4. t[4 + 1] = own[1] /\ t[4 + 2] = own[2]
    BY <2>2, <2>3
  <2>5. /\ \A i \in 1..4 : t[i] = s[i]
        /\ t[5] = own[1] /\ t[6] = own[2] /\ DOMAIN t = 1..6
    BY <2>2, <2>3, <2>4
  <2> QED
    BY <2>5 DEF s, t
<1>10. Distinct(c.slots)
  <2>1. own[1] # own[2]
    BY <1>2 DEF Distinct
  <2>2. \A i, j \in 1..4 : e.slots[i] = e.slots[j] => i = j
    BY <1>5 DEF Distinct
  <2> QED
    BY <1>6, <1>9, <2>1, <2>2 DEF Distinct
<1>11. ToSet(c.takes) \subseteq ToSet(c.slots)
  <2>1. /\ DOMAIN c.takes = 1..6 /\ c.takes[1] = own[1] /\ c.takes[2] = own[2]
        /\ c.takes[3] = e.slots[1] /\ c.takes[4] = e.slots[2]
        /\ c.takes[5] = e.slots[3] /\ c.takes[6] = e.slots[4]
    <3> DEFINE s == e.slots
               t == c.takes
    <3>1. s \in Seq(Tag) /\ own \in Seq(Tag)
      BY <1>5, <1>7
    <3>2. Len(s) = 4 /\ Len(own) = 2 /\ t = own \o s
      BY <1>2, <1>5, <1>8
    <3> HIDE DEF s, t
    <3> DEFINE u == own \o s
    <3>6. /\ DOMAIN u = 1..Len(own) + Len(s)
          /\ \A i \in 1..Len(own) : u[i] = own[i]
          /\ \A i \in 1..Len(s) : u[Len(own) + i] = s[i]
      BY <3>1, Joined
    <3>7. t = u
      BY <3>2
    <3> HIDE DEF u
    <3>3. /\ DOMAIN t = 1..Len(own) + Len(s)
          /\ \A i \in 1..Len(own) : t[i] = own[i]
          /\ \A i \in 1..Len(s) : t[Len(own) + i] = s[i]
      BY <3>6, <3>7
    <3>4. t[2 + 1] = s[1] /\ t[2 + 2] = s[2] /\ t[2 + 3] = s[3] /\ t[2 + 4] = s[4]
      BY <3>2, <3>3
    <3>5. /\ DOMAIN t = 1..6 /\ t[1] = own[1] /\ t[2] = own[2]
          /\ t[3] = s[1] /\ t[4] = s[2] /\ t[5] = s[3] /\ t[6] = s[4]
      BY <3>2, <3>3, <3>4
    <3> QED
      BY <3>5 DEF s, t
  <2> QED
    BY <2>1, <1>9 DEF ToSet
<1>12. Unknown \notin ToSet(c.slots)
  <2>1. own[1] # Unknown /\ own[2] # Unknown
    BY <1>2 DEF Members
  <2>2. \A i \in 1..4 : e.slots[i] # Unknown
    BY <1>5 DEF ToSet
  <2> QED
    BY <2>1, <2>2, <1>9 DEF ToSet
<1>13. Well(c) /\ ~c.pairs
  <2>1. c.attrs \subseteq c.attrsRead
    BY <1>8, EncryptedTypeImplWell DEF Well
  <2> QED
    BY <2>1, <1>5, <1>8, <1>10, <1>11, <1>12 DEF Well, HasMembers, Member
<1>14. {"Recipient"} \in SUBSET AttributeNames
  BY DEF AttributeNames
<1> QED
  BY <1>4, <1>13, <1>14, AttributesWell
-----------------------------------------------------------------------------
(***************************************************************************)
(* Every class of the library.                                             *)
(***************************************************************************)

\* What is said of the class of an element.
Right(q, c) ==
    /\ Well(c)
    /\ c.pairs => q = Ds("SPKIData")
    /\ Required(q) \subseteq c.attrsRead

LEMMA KeyInfoClassRight == \A q \in KeyInfoRegistered : Right(q, KeyInfoClass(q))
<1>1. ASSUME NEW q \in KeyInfoSimple PROVE Right(q, KeyInfoClass(q))
  <2>1. KeyInfoClass(q) = Simple
    BY DEF KeyInfoClass
  <2>2. Required(q) = {}
    BY DEF Required, KeyInfoSimple, Ds, Ds11, Enc, Enc11, Soap, Bare
  <2> QED
    BY <2>1, <2>2, SimpleWell DEF Right
<1>2. Right(Ds("KeyInfo"), KeyInfoClass(Ds("KeyInfo")))
  <2>1. Ds("KeyInfo") \notin KeyInfoSimple
    BY DEF KeyInfoSimple, Ds, Ds11, Enc, Enc11, Soap, Bare
  <2>2. KeyInfoClass(Ds("KeyInfo")) = KeyInfoImpl
    BY <2>1 DEF KeyInfoClass, Ds, Ds11, Enc, Enc11, Soap, Bare
  <2>3. Required(Ds("KeyInfo")) = {}
    BY DEF Required, Ds, Ds11, Enc, Enc11, Soap, Bare
  <2> QED
    BY <2>2, <2>3, KeyInfoImplWell DEF Right
<1>3. Right(Ds("KeyValue"), KeyInfoClass(Ds("KeyValue")))
  <2>1. Ds("KeyValue") \notin KeyInfoSimple
    BY DEF KeyInfoSimple, Ds, Ds11, Enc, Enc11, Soap, Bare
  <2>2. KeyInfoClass(Ds("KeyValue")) = KeyValueImpl
    BY <2>1 DEF KeyInfoClass, Ds, Ds11, Enc, Enc11, Soap, Bare
  <2>3. Required(Ds("KeyValue")) = {}
    BY DEF Required, Ds, Ds11, Enc, Enc11, Soap, Bare
  <2> QED
    BY <2>2, <2>3, KeyValueImplWell DEF Right
<1>4. Right(Ds("DSAKeyValue"), KeyInfoClass(Ds("DSAKeyValue")))
  <2>1. Ds("DSAKeyValue") \notin KeyInfoSimple
    BY DEF KeyInfoSimple, Ds, Ds11, Enc, Enc11, Soap, Bare
  <2>2. KeyInfoClass(Ds("DSAKeyValue")) = DSAKeyValueImpl
    BY <2>1 DEF KeyInfoClass, Ds, Ds11, Enc, Enc11, Soap, Bare
  <2>3. Required(Ds("DSAKeyValue")) = {}
    BY DEF Required, Ds, Ds11, Enc, Enc11, Soap, Bare
  <2> QED
    BY <2>2, <2>3, DSAKeyValueImplWell DEF Right
<1>5. Right(Ds("RSAKeyValue"), KeyInfoClass(Ds("RSAKeyValue")))
  <2>1. Ds("RSAKeyValue") \notin KeyInfoSimple
    BY DEF KeyInfoSimple, Ds, Ds11, Enc, Enc11, Soap, Bare
  <2>2. KeyInfoClass(Ds("RSAKeyValue")) = RSAKeyValueImpl
    BY <2>1 DEF KeyInfoClass, Ds, Ds11, Enc, Enc11, Soap, Bare
  <2>3. Required(Ds("RSAKeyValue")) = {}
    BY DEF Required, Ds, Ds11, Enc, Enc11, Soap, Bare
  <2> QED
    BY <2>2, <2>3, RSAKeyValueImplWell DEF Right
<1>6. Right(Ds("Transform"), KeyInfoClass(Ds("Transform")))
  <2>1. Ds("Transform") \notin KeyInfoSimple
    BY DEF KeyInfoSimple, Ds, Ds11, Enc, Enc11, Soap, Bare
  <2>2. KeyInfoClass(Ds("Transform")) = TransformImpl
    BY <2>1 DEF KeyInfoClass, Ds, Ds11, Enc, Enc11, Soap, Bare
  <2>3. Required(Ds("Transform")) = {"Algorithm"}
    BY DEF Required, Ds, Ds11, Enc, Enc11, Soap, Bare
  <2> QED
    BY <2>2, <2>3, TransformImplWell DEF Right
<1>7. Right(Ds("Transforms"), KeyInfoClass(Ds("Transforms")))
  <2>1. Ds("Transforms") \notin KeyInfoSimple
    BY DEF KeyInfoSimple, Ds, Ds11, Enc, Enc11, Soap, Bare
  <2>2. KeyInfoClass(Ds("Transforms")) = TransformsImpl
    BY <2>1 DEF KeyInfoClass, Ds, Ds11, Enc, Enc11, Soap, Bare
  <2>3. Required(Ds("Transforms")) = {}
    BY DEF Required, Ds, Ds11, Enc, Enc11, Soap, Bare
  <2> QED
    BY <2>2, <2>3, TransformsImplWell DEF Right
<1>8. Right(Ds("RetrievalMethod"), KeyInfoClass(Ds("RetrievalMethod")))
  <2>1. Ds("RetrievalMethod") \notin KeyInfoSimple
    BY DEF KeyInfoSimple, Ds, Ds11, Enc, Enc11, Soap, Bare
  <2>2. KeyInfoClass(Ds("RetrievalMethod")) = RetrievalMethodImpl
    BY <2>1 DEF KeyInfoClass, Ds, Ds11, Enc, Enc11, Soap, Bare
  <2>3. Required(Ds("RetrievalMethod")) = {"URI"}
    BY DEF Required, Ds, Ds11, Enc, Enc11, Soap, Bare
  <2> QED
    BY <2>2, <2>3, RetrievalMethodImplWell DEF Right
<1>9. Right(Ds("X509IssuerSerial"), KeyInfoClass(Ds("X509IssuerSerial")))
  <2>1. Ds("X509IssuerSerial") \notin KeyInfoSimple
    BY DEF KeyInfoSimple, Ds, Ds11, Enc, Enc11, Soap, Bare
  <2>2. KeyInfoClass(Ds("X509IssuerSerial")) = X509IssuerSerialImpl
    BY <2>1 DEF KeyInfoClass, Ds, Ds11, Enc, Enc11, Soap, Bare
  <2>3. Required(Ds("X509IssuerSerial")) = {}
    BY DEF Required, Ds, Ds11, Enc, Enc11, Soap, Bare
  <2> QED
    BY <2>2, <2>3, X509IssuerSerialImplWell DEF Right
<1>10. Right(Ds("X509Data"), KeyInfoClass(Ds("X509Data")))
  <2>1. Ds("X509Data") \notin KeyInfoSimple
    BY DEF KeyInfoSimple, Ds, Ds11, Enc, Enc11, Soap, Bare
  <2>2. KeyInfoClass(Ds("X509Data")) = X509DataImpl
    BY <2>1 DEF KeyInfoClass, Ds, Ds11, Enc, Enc11, Soap, Bare
  <2>3. Required(Ds("X509Data")) = {}
    BY DEF Required, Ds, Ds11, Enc, Enc11, Soap, Bare
  <2> QED
    BY <2>2, <2>3, X509DataImplWell DEF Right
<1>11. Right(Ds("SPKIData"), KeyInfoClass(Ds("SPKIData")))
  <2>1. Ds("SPKIData") \notin KeyInfoSimple
    BY DEF KeyInfoSimple, Ds, Ds11, Enc, Enc11, Soap, Bare
  <2>2. KeyInfoClass(Ds("SPKIData")) = SPKIDataImpl
    BY <2>1 DEF KeyInfoClass, Ds, Ds11, Enc, Enc11, Soap, Bare
  <2>3. Required(Ds("SPKIData")) = {}
    BY DEF Required, Ds, Ds11, Enc, Enc11, Soap, Bare
  <2> QED
    BY <2>2, <2>3, SPKIDataImplWell DEF Right
<1>12. Right(Ds("PGPData"), KeyInfoClass(Ds("PGPData")))
  <2>1. Ds("PGPData") \notin KeyInfoSimple
    BY DEF KeyInfoSimple, Ds, Ds11, Enc, Enc11, Soap, Bare
  <2>2. KeyInfoClass(Ds("PGPData")) = PGPDataImpl
    BY <2>1 DEF KeyInfoClass, Ds, Ds11, Enc, Enc11, Soap, Bare
  <2>3. Required(Ds("PGPData")) = {}
    BY DEF Required, Ds, Ds11, Enc, Enc11, Soap, Bare
  <2> QED
    BY <2>2, <2>3, PGPDataImplWell DEF Right
<1>13. Right(Ds11("DEREncodedKeyValue"), KeyInfoClass(Ds11("DEREncodedKeyValue")))
  <2>1. Ds11("DEREncodedKeyValue") \notin KeyInfoSimple
    BY DEF KeyInfoSimple, Ds, Ds11, Enc, Enc11, Soap, Bare
  <2>2. KeyInfoClass(Ds11("DEREncodedKeyValue")) = DEREncodedKeyValueImpl
    BY <2>1 DEF KeyInfoClass, Ds, Ds11, Enc, Enc11, Soap, Bare
  <2>3. Required(Ds11("DEREncodedKeyValue")) = {}
    BY DEF Required, Ds, Ds11, Enc, Enc11, Soap, Bare
  <2> QED
    BY <2>2, <2>3, DEREncodedKeyValueImplWell DEF Right
<1>14. Right(Ds11("ECKeyValue"), KeyInfoClass(Ds11("ECKeyValue")))
  <2>1. Ds11("ECKeyValue") \notin KeyInfoSimple
    BY DEF KeyInfoSimple, Ds, Ds11, Enc, Enc11, Soap, Bare
  <2>2. KeyInfoClass(Ds11("ECKeyValue")) = ECKeyValueImpl
    BY <2>1 DEF KeyInfoClass, Ds, Ds11, Enc, Enc11, Soap, Bare
  <2>3. Required(Ds11("ECKeyValue")) = {}
    BY DEF Required, Ds, Ds11, Enc, Enc11, Soap, Bare
  <2> QED
    BY <2>2, <2>3, ECKeyValueImplWell DEF Right
<1>15. Right(Ds11("KeyInfoReference"), KeyInfoClass(Ds11("KeyInfoReference")))
  <2>1. Ds11("KeyInfoReference") \notin KeyInfoSimple
    BY DEF KeyInfoSimple, Ds, Ds11, Enc, Enc11, Soap, Bare
  <2>2. KeyInfoClass(Ds11("KeyInfoReference")) = KeyInfoReferenceImpl
    BY <2>1 DEF KeyInfoClass, Ds, Ds11, Enc, Enc11, Soap, Bare
  <2>3. Required(Ds11("KeyInfoReference")) = {"URI"}
    BY DEF Required, Ds, Ds11, Enc, Enc11, Soap, Bare
  <2> QED
    BY <2>2, <2>3, KeyInfoReferenceImplWell DEF Right
<1>16. Right(Ds11("NamedCurve"), KeyInfoClass(Ds11("NamedCurve")))
  <2>1. Ds11("NamedCurve") \notin KeyInfoSimple
    BY DEF KeyInfoSimple, Ds, Ds11, Enc, Enc11, Soap, Bare
  <2>2. KeyInfoClass(Ds11("NamedCurve")) = NamedCurveImpl
    BY <2>1 DEF KeyInfoClass, Ds, Ds11, Enc, Enc11, Soap, Bare
  <2>3. Required(Ds11("NamedCurve")) = {"URI"}
    BY DEF Required, Ds, Ds11, Enc, Enc11, Soap, Bare
  <2> QED
    BY <2>2, <2>3, NamedCurveImplWell DEF Right
<1>17. Right(Ds11("X509Digest"), KeyInfoClass(Ds11("X509Digest")))
  <2>1. Ds11("X509Digest") \notin KeyInfoSimple
    BY DEF KeyInfoSimple, Ds, Ds11, Enc, Enc11, Soap, Bare
  <2>2. KeyInfoClass(Ds11("X509Digest")) = X509DigestImpl
    BY <2>1 DEF KeyInfoClass, Ds, Ds11, Enc, Enc11, Soap, Bare
  <2>3. Required(Ds11("X509Digest")) = {"Algorithm"}
    BY DEF Required, Ds, Ds11, Enc, Enc11, Soap, Bare
  <2> QED
    BY <2>2, <2>3, X509DigestImplWell DEF Right
<1>18. \A q \in KeyInfoComplex : q = Ds("KeyInfo") \/ q = Ds("KeyValue")
       \/ q = Ds("DSAKeyValue") \/ q = Ds("RSAKeyValue") \/ q = Ds("Transform")
       \/ q = Ds("Transforms") \/ q = Ds("RetrievalMethod") \/ q = Ds("X509IssuerSerial")
       \/ q = Ds("X509Data") \/ q = Ds("SPKIData") \/ q = Ds("PGPData")
       \/ q = Ds11("DEREncodedKeyValue") \/ q = Ds11("ECKeyValue")
       \/ q = Ds11("KeyInfoReference") \/ q = Ds11("NamedCurve") \/ q = Ds11("X509Digest")
  BY DEF KeyInfoComplex
<1> QED
  BY <1>1, <1>2, <1>3, <1>4, <1>5, <1>6, <1>7, <1>8, <1>9, <1>10, <1>11, <1>12, <1>13, <1>14,
     <1>15, <1>16, <1>17, <1>18 DEF KeyInfoRegistered

LEMMA EncryptionClassRight == \A q \in EncryptionRegistered : Right(q, EncryptionClass(q))
<1>1. ASSUME NEW q \in EncryptionSimple PROVE Right(q, EncryptionClass(q))
  <2>1. EncryptionClass(q) = Simple
    BY DEF EncryptionClass
  <2>2. Required(q) = {}
    BY DEF Required, EncryptionSimple, Ds, Ds11, Enc, Enc11, Soap, Bare
  <2> QED
    BY <2>1, <2>2, SimpleWell DEF Right
<1>2. Right(Enc("EncryptionMethod"), EncryptionClass(Enc("EncryptionMethod")))
  <2>1. Enc("EncryptionMethod") \notin EncryptionSimple
    BY DEF EncryptionSimple, Ds, Ds11, Enc, Enc11, Soap, Bare
  <2>2. EncryptionClass(Enc("EncryptionMethod")) = EncryptionMethodImpl
    BY <2>1 DEF EncryptionClass, Ds, Ds11, Enc, Enc11, Soap, Bare
  <2>3. Required(Enc("EncryptionMethod")) = {"Algorithm"}
    BY DEF Required, Ds, Ds11, Enc, Enc11, Soap, Bare
  <2> QED
    BY <2>2, <2>3, EncryptionMethodImplWell DEF Right
<1>3. Right(Enc("Transforms"), EncryptionClass(Enc("Transforms")))
  <2>1. Enc("Transforms") \notin EncryptionSimple
    BY DEF EncryptionSimple, Ds, Ds11, Enc, Enc11, Soap, Bare
  <2>2. EncryptionClass(Enc("Transforms")) = EncTransformsImpl
    BY <2>1 DEF EncryptionClass, Ds, Ds11, Enc, Enc11, Soap, Bare
  <2>3. Required(Enc("Transforms")) = {}
    BY DEF Required, Ds, Ds11, Enc, Enc11, Soap, Bare
  <2> QED
    BY <2>2, <2>3, EncTransformsImplWell DEF Right
<1>4. Right(Enc("CipherReference"), EncryptionClass(Enc("CipherReference")))
  <2>1. Enc("CipherReference") \notin EncryptionSimple
    BY DEF EncryptionSimple, Ds, Ds11, Enc, Enc11, Soap, Bare
  <2>2. EncryptionClass(Enc("CipherReference")) = CipherReferenceImpl
    BY <2>1 DEF EncryptionClass, Ds, Ds11, Enc, Enc11, Soap, Bare
  <2>3. Required(Enc("CipherReference")) = {"URI"}
    BY DEF Required, Ds, Ds11, Enc, Enc11, Soap, Bare
  <2> QED
    BY <2>2, <2>3, CipherReferenceImplWell DEF Right
<1>5. Right(Enc("CipherData"), EncryptionClass(Enc("CipherData")))
  <2>1. Enc("CipherData") \notin EncryptionSimple
    BY DEF EncryptionSimple, Ds, Ds11, Enc, Enc11, Soap, Bare
  <2>2. EncryptionClass(Enc("CipherData")) = CipherDataImpl
    BY <2>1 DEF EncryptionClass, Ds, Ds11, Enc, Enc11, Soap, Bare
  <2>3. Required(Enc("CipherData")) = {}
    BY DEF Required, Ds, Ds11, Enc, Enc11, Soap, Bare
  <2> QED
    BY <2>2, <2>3, CipherDataImplWell DEF Right
<1>6. Right(Enc("EncryptionProperty"), EncryptionClass(Enc("EncryptionProperty")))
  <2>1. Enc("EncryptionProperty") \notin EncryptionSimple
    BY DEF EncryptionSimple, Ds, Ds11, Enc, Enc11, Soap, Bare
  <2>2. EncryptionClass(Enc("EncryptionProperty")) = EncryptionPropertyImpl
    BY <2>1 DEF EncryptionClass, Ds, Ds11, Enc, Enc11, Soap, Bare
  <2>3. Required(Enc("EncryptionProperty")) = {}
    BY DEF Required, Ds, Ds11, Enc, Enc11, Soap, Bare
  <2> QED
    BY <2>2, <2>3, EncryptionPropertyImplWell DEF Right
<1>7. Right(Enc("EncryptionProperties"), EncryptionClass(Enc("EncryptionProperties")))
  <2>1. Enc("EncryptionProperties") \notin EncryptionSimple
    BY DEF EncryptionSimple, Ds, Ds11, Enc, Enc11, Soap, Bare
  <2>2. EncryptionClass(Enc("EncryptionProperties")) = EncryptionPropertiesImpl
    BY <2>1 DEF EncryptionClass, Ds, Ds11, Enc, Enc11, Soap, Bare
  <2>3. Required(Enc("EncryptionProperties")) = {}
    BY DEF Required, Ds, Ds11, Enc, Enc11, Soap, Bare
  <2> QED
    BY <2>2, <2>3, EncryptionPropertiesImplWell DEF Right
<1>8. Right(Enc("DataReference"), EncryptionClass(Enc("DataReference")))
  <2>1. Enc("DataReference") \notin EncryptionSimple
    BY DEF EncryptionSimple, Ds, Ds11, Enc, Enc11, Soap, Bare
  <2>2. EncryptionClass(Enc("DataReference")) = DataReferenceImpl
    BY <2>1 DEF EncryptionClass, Ds, Ds11, Enc, Enc11, Soap, Bare
  <2>3. Required(Enc("DataReference")) = {"URI"}
    BY DEF Required, Ds, Ds11, Enc, Enc11, Soap, Bare
  <2> QED
    BY <2>2, <2>3, ReferenceTypeImplWell DEF Right, DataReferenceImpl
<1>9. Right(Enc("KeyReference"), EncryptionClass(Enc("KeyReference")))
  <2>1. Enc("KeyReference") \notin EncryptionSimple
    BY DEF EncryptionSimple, Ds, Ds11, Enc, Enc11, Soap, Bare
  <2>2. EncryptionClass(Enc("KeyReference")) = KeyReferenceImpl
    BY <2>1 DEF EncryptionClass, Ds, Ds11, Enc, Enc11, Soap, Bare
  <2>3. Required(Enc("KeyReference")) = {"URI"}
    BY DEF Required, Ds, Ds11, Enc, Enc11, Soap, Bare
  <2> QED
    BY <2>2, <2>3, ReferenceTypeImplWell DEF Right, KeyReferenceImpl
<1>10. Right(Enc("ReferenceList"), EncryptionClass(Enc("ReferenceList")))
  <2>1. Enc("ReferenceList") \notin EncryptionSimple
    BY DEF EncryptionSimple, Ds, Ds11, Enc, Enc11, Soap, Bare
  <2>2. EncryptionClass(Enc("ReferenceList")) = ReferenceListImpl
    BY <2>1 DEF EncryptionClass, Ds, Ds11, Enc, Enc11, Soap, Bare
  <2>3. Required(Enc("ReferenceList")) = {}
    BY DEF Required, Ds, Ds11, Enc, Enc11, Soap, Bare
  <2> QED
    BY <2>2, <2>3, ReferenceListImplWell DEF Right
<1>11. Right(Enc("EncryptedData"), EncryptionClass(Enc("EncryptedData")))
  <2>1. Enc("EncryptedData") \notin EncryptionSimple
    BY DEF EncryptionSimple, Ds, Ds11, Enc, Enc11, Soap, Bare
  <2>2. EncryptionClass(Enc("EncryptedData")) = EncryptedDataImpl
    BY <2>1 DEF EncryptionClass, Ds, Ds11, Enc, Enc11, Soap, Bare
  <2>3. Required(Enc("EncryptedData")) = {}
    BY DEF Required, Ds, Ds11, Enc, Enc11, Soap, Bare
  <2> QED
    BY <2>2, <2>3, EncryptedTypeImplWell DEF Right, EncryptedDataImpl
<1>12. Right(Enc("EncryptedKey"), EncryptionClass(Enc("EncryptedKey")))
  <2>1. Enc("EncryptedKey") \notin EncryptionSimple
    BY DEF EncryptionSimple, Ds, Ds11, Enc, Enc11, Soap, Bare
  <2>2. EncryptionClass(Enc("EncryptedKey")) = EncryptedKeyImpl
    BY <2>1 DEF EncryptionClass, Ds, Ds11, Enc, Enc11, Soap, Bare
  <2>3. Required(Enc("EncryptedKey")) = {}
    BY DEF Required, Ds, Ds11, Enc, Enc11, Soap, Bare
  <2> QED
    BY <2>2, <2>3, EncryptedKeyImplWell DEF Right
<1>13. Right(Enc11("MGF"), EncryptionClass(Enc11("MGF")))
  <2>1. Enc11("MGF") \notin EncryptionSimple
    BY DEF EncryptionSimple, Ds, Ds11, Enc, Enc11, Soap, Bare
  <2>2. EncryptionClass(Enc11("MGF")) = MGFImpl
    BY <2>1 DEF EncryptionClass, Ds, Ds11, Enc, Enc11, Soap, Bare
  <2>3. Required(Enc11("MGF")) = {"Algorithm"}
    BY DEF Required, Ds, Ds11, Enc, Enc11, Soap, Bare
  <2> QED
    BY <2>2, <2>3, MGFImplWell DEF Right
<1>14. \A q \in EncryptionComplex : q = Enc("EncryptionMethod") \/ q = Enc("Transforms")
       \/ q = Enc("CipherReference") \/ q = Enc("CipherData") \/ q = Enc("EncryptionProperty")
       \/ q = Enc("EncryptionProperties") \/ q = Enc("DataReference")
       \/ q = Enc("KeyReference") \/ q = Enc("ReferenceList") \/ q = Enc("EncryptedData")
       \/ q = Enc("EncryptedKey") \/ q = Enc11("MGF")
  BY DEF EncryptionComplex
<1> QED
  BY <1>1, <1>2, <1>3, <1>4, <1>5, <1>6, <1>7, <1>8, <1>9, <1>10, <1>11, <1>12, <1>13, <1>14
     DEF EncryptionRegistered

LEMMA SOAPClassRight == \A q \in SOAPRegistered : Right(q, SOAPClass(q))
<1>1. ASSUME NEW q \in SOAPSimple PROVE Right(q, SOAPClass(q))
  <2>1. SOAPClass(q) = Simple
    BY DEF SOAPClass
  <2>2. Required(q) = {}
    <3>1. Required(Bare("faultstring")) = {}
      BY DEF Required, Ds, Ds11, Enc, Enc11, Soap, Bare
    <3>2. Required(Bare("faultactor")) = {}
      BY DEF Required, Ds, Ds11, Enc, Enc11, Soap, Bare
    <3> QED
      BY <3>1, <3>2 DEF SOAPSimple
  <2> QED
    BY <2>1, <2>2, SimpleWell DEF Right
<1>2. Right(Bare("faultcode"), SOAPClass(Bare("faultcode")))
  <2>1. Bare("faultcode") \notin SOAPSimple
    BY DEF SOAPSimple, Ds, Ds11, Enc, Enc11, Soap, Bare
  <2>2. SOAPClass(Bare("faultcode")) = FaultcodeImpl
    BY <2>1 DEF SOAPClass, Ds, Ds11, Enc, Enc11, Soap, Bare
  <2>3. Required(Bare("faultcode")) = {}
    BY DEF Required, Ds, Ds11, Enc, Enc11, Soap, Bare
  <2> QED
    BY <2>2, <2>3, FaultcodeImplWell DEF Right
<1>3. Right(Bare("detail"), SOAPClass(Bare("detail")))
  <2>1. Bare("detail") \notin SOAPSimple
    BY DEF SOAPSimple, Ds, Ds11, Enc, Enc11, Soap, Bare
  <2>2. SOAPClass(Bare("detail")) = DetailImpl
    BY <2>1 DEF SOAPClass, Ds, Ds11, Enc, Enc11, Soap, Bare
  <2>3. Required(Bare("detail")) = {}
    BY DEF Required, Ds, Ds11, Enc, Enc11, Soap, Bare
  <2> QED
    BY <2>2, <2>3, DetailImplWell DEF Right
<1>4. Right(Soap("Fault"), SOAPClass(Soap("Fault")))
  <2>1. Soap("Fault") \notin SOAPSimple
    BY DEF SOAPSimple, Ds, Ds11, Enc, Enc11, Soap, Bare
  <2>2. SOAPClass(Soap("Fault")) = FaultImpl
    BY <2>1 DEF SOAPClass, Ds, Ds11, Enc, Enc11, Soap, Bare
  <2>3. Required(Soap("Fault")) = {}
    BY DEF Required, Ds, Ds11, Enc, Enc11, Soap, Bare
  <2> QED
    BY <2>2, <2>3, FaultImplWell DEF Right
<1>5. Right(Soap("Body"), SOAPClass(Soap("Body")))
  <2>1. Soap("Body") \notin SOAPSimple
    BY DEF SOAPSimple, Ds, Ds11, Enc, Enc11, Soap, Bare
  <2>2. SOAPClass(Soap("Body")) = BodyImpl
    BY <2>1 DEF SOAPClass, Ds, Ds11, Enc, Enc11, Soap, Bare
  <2>3. Required(Soap("Body")) = {}
    BY DEF Required, Ds, Ds11, Enc, Enc11, Soap, Bare
  <2> QED
    BY <2>2, <2>3, BodyImplWell DEF Right
<1>6. Right(Soap("Header"), SOAPClass(Soap("Header")))
  <2>1. Soap("Header") \notin SOAPSimple
    BY DEF SOAPSimple, Ds, Ds11, Enc, Enc11, Soap, Bare
  <2>2. SOAPClass(Soap("Header")) = HeaderImpl
    BY <2>1 DEF SOAPClass, Ds, Ds11, Enc, Enc11, Soap, Bare
  <2>3. Required(Soap("Header")) = {}
    BY DEF Required, Ds, Ds11, Enc, Enc11, Soap, Bare
  <2> QED
    BY <2>2, <2>3, HeaderImplWell DEF Right
<1>7. Right(Soap("Envelope"), SOAPClass(Soap("Envelope")))
  <2>1. Soap("Envelope") \notin SOAPSimple
    BY DEF SOAPSimple, Ds, Ds11, Enc, Enc11, Soap, Bare
  <2>2. SOAPClass(Soap("Envelope")) = EnvelopeImpl
    BY <2>1 DEF SOAPClass, Ds, Ds11, Enc, Enc11, Soap, Bare
  <2>3. Required(Soap("Envelope")) = {}
    BY DEF Required, Ds, Ds11, Enc, Enc11, Soap, Bare
  <2> QED
    BY <2>2, <2>3, EnvelopeImplWell DEF Right
<1>8. \A q \in SOAPComplex : q = Bare("faultcode") \/ q = Bare("detail") \/ q = Soap("Fault")
      \/ q = Soap("Body") \/ q = Soap("Header") \/ q = Soap("Envelope")
  BY DEF SOAPComplex
<1> QED
  BY <1>1, <1>2, <1>3, <1>4, <1>5, <1>6, <1>7, <1>8 DEF SOAPRegistered

LEMMA RegisteredApart ==
    /\ \A q \in KeyInfoRegistered : q[1] \in {"ds", "ds11"}
    /\ \A q \in EncryptionRegistered : q[1] \in {"enc", "enc11"}
    /\ \A q \in SOAPRegistered : q[1] \in {"soap", ""}
<1>1. \A q \in KeyInfoRegistered : q[1] \in {"ds", "ds11"}
  BY DEF KeyInfoRegistered, KeyInfoSimple, KeyInfoComplex, Ds, Ds11
<1>2. \A q \in EncryptionRegistered : q[1] \in {"enc", "enc11"}
  BY DEF EncryptionRegistered, EncryptionSimple, EncryptionComplex, Enc, Enc11
<1>3. \A q \in SOAPRegistered : q[1] \in {"soap", ""}
  <2>1. \A n : Soap(n)[1] = "soap" /\ Bare(n)[1] = ""
    BY DEF Soap, Bare
  <2> QED
    BY <2>1 DEF SOAPRegistered, SOAPSimple, SOAPComplex
<1> QED
  BY <1>1, <1>2, <1>3

(***************************************************************************)
(* Every class of the library, as its Impl file and the macros of base.h   *)
(* make it, has a member for each child that its processChildElement()     *)
(* takes, a place of its own for each single child, and reads each         *)
(* attribute it can have and those its schema requires; and only SPKIData  *)
(* keeps its children in pairs.                                            *)
(***************************************************************************)
THEOREM ClassesWell == \A q \in Registered : Right(q, Class(q)) /\ Class(q).name = q
<1> SUFFICES ASSUME NEW q \in Registered PROVE Right(q, Class(q)) /\ Class(q).name = q
  OBVIOUS
<1> DEFINE k == CASE q \in KeyInfoRegistered -> KeyInfoClass(q)
                  [] q \in EncryptionRegistered -> EncryptionClass(q)
                  [] q \in SOAPRegistered -> SOAPClass(q)
<1>0. Class(q) = [k EXCEPT !.name = q]
  BY DEF Class
<1>1. Right(q, k)
  <2>1. CASE q \in KeyInfoRegistered
    <3>1. q \notin EncryptionRegistered /\ q \notin SOAPRegistered
      BY <2>1, RegisteredApart
    <3>2. k = KeyInfoClass(q)
      BY <2>1, <3>1
    <3> QED
      BY <2>1, <3>2, KeyInfoClassRight
  <2>2. CASE q \in EncryptionRegistered
    <3>1. q \notin KeyInfoRegistered /\ q \notin SOAPRegistered
      BY <2>2, RegisteredApart
    <3>2. k = EncryptionClass(q)
      BY <2>2, <3>1
    <3> QED
      BY <2>2, <3>2, EncryptionClassRight
  <2>3. CASE q \in SOAPRegistered
    <3>1. q \notin KeyInfoRegistered /\ q \notin EncryptionRegistered
      BY <2>3, RegisteredApart
    <3>2. k = SOAPClass(q)
      BY <2>3, <3>1
    <3> QED
      BY <2>3, <3>2, SOAPClassRight
  <2> QED
    BY <2>1, <2>2, <2>3 DEF Registered
<1> HIDE DEF k
<1>3. q \in Tag
  BY DEF Tag
<1>4. LET d == [k EXCEPT !.name = q]
      IN  Well(d) /\ d.name = q /\ d.pairs = k.pairs /\ d.attrsRead = k.attrsRead
  BY <1>1, <1>3, NameWell DEF Right
<1> QED
  BY <1>0, <1>1, <1>4 DEF Right
-----------------------------------------------------------------------------
(***************************************************************************)
(* The documents that are read.                                            *)
(***************************************************************************)

\* Sequences of names.
Words == SUBSET Seq(Tag)

LEMMA WordsAre ==
    /\ \A A, B \in Words : Then(A, B) \in Words
    /\ \A A \in Words : Optional(A) \in Words
    /\ \A N \in SUBSET Tag : OneOf(N) \in Words /\ OneOrMore(N) \in Words /\ ZeroOrMore(N) \in Words
<1>1. ASSUME NEW A \in Words, NEW B \in Words PROVE Then(A, B) \in Words
  <2>1. ASSUME NEW a \in A, NEW b \in B PROVE a \o b \in Seq(Tag)
    <3>1. a \in Seq(Tag) /\ b \in Seq(Tag)
      BY DEF Words
    <3> QED
      BY <3>1, ConcatProperties
  <2>2. \A x \in Then(A, B) : \E a \in A, b \in B : x = a \o b
    BY DEF Then
  <2>3. \A x \in Then(A, B) : x \in Seq(Tag)
    BY <2>1, <2>2
  <2> QED
    BY <2>3 DEF Words
<1>2. ASSUME NEW A \in Words PROVE Optional(A) \in Words
  <2>1. <<>> \in Seq(Tag)
    OBVIOUS
  <2> QED
    BY <2>1 DEF Optional, Words
<1>3. ASSUME NEW N \in SUBSET Tag PROVE OneOf(N) \in Words
  <2>1. \A n \in N : <<n>> \in Seq(Tag)
    OBVIOUS
  <2> QED
    BY <2>1 DEF OneOf, Words
<1>4. ASSUME NEW N \in SUBSET Tag PROVE OneOrMore(N) \in Words
  <2>1. ASSUME NEW k \in 1..Repeat, NEW f \in [1..k -> N] PROVE f \in Seq(Tag)
    <3>1. k \in Nat
      BY SchemasAssumption
    <3>2. \A i \in 1..k : f[i] \in Tag
      OBVIOUS
    <3> QED
      BY <3>1, <3>2, SeqDef
  <2> QED
    BY <2>1 DEF OneOrMore, Words
<1> QED
  BY <1>1, <1>2, <1>3, <1>4 DEF ZeroOrMore

LEMMA OtherWords == \A ns : Other(ns) \in SUBSET Tag
BY DEF Other, Tag

LEMMA AnyNameWords == AnyName \in SUBSET Tag
BY DEF AnyName, Tag

LEMMA PartWords ==
    /\ \A n \in DsNames : {<<Ds(n)>>} \in Words
    /\ \A n \in Ds11Names : {<<Ds11(n)>>} \in Words
    /\ \A n \in EncNames : {<<Enc(n)>>} \in Words
    /\ \A n \in SoapNames : {<<Soap(n)>>} \in Words
    /\ \A n \in BareNames : {<<Bare(n)>>} \in Words
BY NamesAre DEF Members, Words

LEMMA NamesIn ==
    /\ \A n \in DsNames : Ds(n) \in Tag
    /\ \A n \in Ds11Names : Ds11(n) \in Tag
    /\ \A n \in EncNames : Enc(n) \in Tag
    /\ \A n \in SoapNames : Soap(n) \in Tag
    /\ \A n \in BareNames : Bare(n) \in Tag
BY NamesAre DEF Members

LEMMA DSAKeyValueTypeWords == DSAKeyValueType \in Words
<1>1. {<<Ds("P")>>} \in Words
  BY PartWords DEF DsNames
<1>2. {<<Ds("Q")>>} \in Words
  BY PartWords DEF DsNames
<1>3. Then({<<Ds("P")>>}, {<<Ds("Q")>>}) \in Words
  BY <1>1, <1>2, WordsAre
<1>4. Optional(Then({<<Ds("P")>>}, {<<Ds("Q")>>})) \in Words
  BY <1>3, WordsAre
<1>5. {<<Ds("G")>>} \in Words
  BY PartWords DEF DsNames
<1>6. Optional({<<Ds("G")>>}) \in Words
  BY <1>5, WordsAre
<1>7. {<<Ds("Y")>>} \in Words
  BY PartWords DEF DsNames
<1>8. {<<Ds("J")>>} \in Words
  BY PartWords DEF DsNames
<1>9. Optional({<<Ds("J")>>}) \in Words
  BY <1>8, WordsAre
<1>10. {<<Ds("Seed")>>} \in Words
  BY PartWords DEF DsNames
<1>11. {<<Ds("PgenCounter")>>} \in Words
  BY PartWords DEF DsNames
<1>12. Then({<<Ds("Seed")>>}, {<<Ds("PgenCounter")>>}) \in Words
  BY <1>10, <1>11, WordsAre
<1>13. Optional(Then({<<Ds("Seed")>>}, {<<Ds("PgenCounter")>>})) \in Words
  BY <1>12, WordsAre
<1>14. Then(Optional({<<Ds("J")>>}), Optional(Then({<<Ds("Seed")>>},
       {<<Ds("PgenCounter")>>}))) \in Words
  BY <1>9, <1>13, WordsAre
<1>15. Then({<<Ds("Y")>>}, Then(Optional({<<Ds("J")>>}), Optional(Then({<<Ds("Seed")>>},
       {<<Ds("PgenCounter")>>})))) \in Words
  BY <1>7, <1>14, WordsAre
<1>16. Then(Optional({<<Ds("G")>>}), Then({<<Ds("Y")>>}, Then(Optional({<<Ds("J")>>}),
       Optional(Then({<<Ds("Seed")>>}, {<<Ds("PgenCounter")>>}))))) \in Words
  BY <1>6, <1>15, WordsAre
<1>17. Then(Optional(Then({<<Ds("P")>>}, {<<Ds("Q")>>})), Then(Optional({<<Ds("G")>>}),
       Then({<<Ds("Y")>>}, Then(Optional({<<Ds("J")>>}), Optional(Then({<<Ds("Seed")>>},
       {<<Ds("PgenCounter")>>})))))) \in Words
  BY <1>4, <1>16, WordsAre
<1> QED
  BY <1>17 DEF DSAKeyValueType

LEMMA RSAKeyValueTypeWords == RSAKeyValueType \in Words
<1>1. {<<Ds("Modulus"), Ds("Exponent")>>} \in Words
  BY NamesIn DEF Words, DsNames
<1> QED
  BY <1>1 DEF RSAKeyValueType

LEMMA ECKeyValueTypeWords == ECKeyValueType \in Words
<1>1. {Ds11("ECParameters"), Ds11("NamedCurve")} \in SUBSET Tag
  BY OtherWords, AnyNameWords, NamesIn DEF Ds11Names
<1>2. OneOf({Ds11("ECParameters"), Ds11("NamedCurve")}) \in Words
  BY <1>1, WordsAre
<1>3. {<<Ds11("PublicKey")>>} \in Words
  BY PartWords DEF Ds11Names
<1>4. Then(OneOf({Ds11("ECParameters"), Ds11("NamedCurve")}), {<<Ds11("PublicKey")>>}) \in Words
  BY <1>2, <1>3, WordsAre
<1> QED
  BY <1>4 DEF ECKeyValueType

LEMMA KeyValueTypeWords == KeyValueType \in Words
<1>1. {Ds("DSAKeyValue"), Ds("RSAKeyValue")} \cup Other("ds") \in SUBSET Tag
  BY OtherWords, AnyNameWords, NamesIn DEF DsNames
<1>2. OneOf({Ds("DSAKeyValue"), Ds("RSAKeyValue")} \cup Other("ds")) \in Words
  BY <1>1, WordsAre
<1> QED
  BY <1>2 DEF KeyValueType

LEMMA TransformTypeWords == TransformType \in Words
<1>1. {Ds("XPath")} \cup Other("ds") \in SUBSET Tag
  BY OtherWords, AnyNameWords, NamesIn DEF DsNames
<1>2. ZeroOrMore({Ds("XPath")} \cup Other("ds")) \in Words
  BY <1>1, WordsAre
<1> QED
  BY <1>2 DEF TransformType

LEMMA TransformsTypeWords == TransformsType \in Words
<1>1. {Ds("Transform")} \in SUBSET Tag
  BY OtherWords, AnyNameWords, NamesIn DEF DsNames
<1>2. OneOrMore({Ds("Transform")}) \in Words
  BY <1>1, WordsAre
<1> QED
  BY <1>2 DEF TransformsType

LEMMA RetrievalMethodTypeWords == RetrievalMethodType \in Words
<1>1. {<<Ds("Transforms")>>} \in Words
  BY PartWords DEF DsNames
<1>2. Optional({<<Ds("Transforms")>>}) \in Words
  BY <1>1, WordsAre
<1> QED
  BY <1>2 DEF RetrievalMethodType

LEMMA X509IssuerSerialTypeWords == X509IssuerSerialType \in Words
<1>1. {<<Ds("X509IssuerName"), Ds("X509SerialNumber")>>} \in Words
  BY NamesIn DEF Words, DsNames
<1> QED
  BY <1>1 DEF X509IssuerSerialType

LEMMA X509DataTypeWords == X509DataType \in Words
<1>1. {Ds("X509IssuerSerial"), Ds("X509SKI"), Ds("X509SubjectName"),
                      Ds("X509Certificate"), Ds("X509CRL")} \cup Other("ds") \in SUBSET Tag
  BY OtherWords, AnyNameWords, NamesIn DEF DsNames
<1>2. OneOrMore({Ds("X509IssuerSerial"), Ds("X509SKI"), Ds("X509SubjectName"),
                      Ds("X509Certificate"), Ds("X509CRL")} \cup Other("ds")) \in Words
  BY <1>1, WordsAre
<1> QED
  BY <1>2 DEF X509DataType

LEMMA SPKIDataTypeWords == SPKIDataType \in Words
<1> DEFINE pair == Then({<<Ds("SPKISexp")>>}, Optional(OneOf(Other("ds"))))
<1>1. {<<Ds("SPKISexp")>>} \in Words
  BY PartWords DEF DsNames
<1>2. Optional(OneOf(Other("ds"))) \in Words
  BY OtherWords, WordsAre
<1>3. pair \in Words
  BY <1>1, <1>2, WordsAre
<1>4. SPKIDataType = pair \cup Then(pair, pair)
  BY DEF SPKIDataType
<1> HIDE DEF pair
<1>5. Then(pair, pair) \in Words
  BY <1>3, WordsAre
<1> QED
  BY <1>3, <1>4, <1>5 DEF Words

LEMMA PGPDataTypeWords == PGPDataType \in Words
<1>1. {<<Ds("PGPKeyID")>>, <<Ds("PGPKeyID"), Ds("PGPKeyPacket")>>, <<Ds("PGPKeyPacket")>>} \in Words
  BY NamesIn DEF Words, DsNames
<1>2. Other("ds") \in SUBSET Tag
  BY OtherWords, AnyNameWords, NamesIn
<1>3. ZeroOrMore(Other("ds")) \in Words
  BY <1>2, WordsAre
<1>4. Then({<<Ds("PGPKeyID")>>, <<Ds("PGPKeyID"), Ds("PGPKeyPacket")>>, <<Ds("PGPKeyPacket")>>},
      ZeroOrMore(Other("ds"))) \in Words
  BY <1>1, <1>3, WordsAre
<1> QED
  BY <1>4 DEF PGPDataType

LEMMA KeyInfoTypeWords == KeyInfoType \in Words
<1> DEFINE names == {"KeyName", "KeyValue", "RetrievalMethod", "X509Data", "PGPData", "SPKIData",
                     "MgmtData"}
<1>1. names \subseteq DsNames
  BY DEF DsNames
<1>2. KeyInfoType = OneOrMore({Ds(n) : n \in names} \cup Other("ds"))
  BY DEF KeyInfoType
<1> HIDE DEF names
<1>3. {Ds(n) : n \in names} \cup Other("ds") \in SUBSET Tag
  BY <1>1, NamesIn, OtherWords
<1> QED
  BY <1>2, <1>3, WordsAre

LEMMA EncryptionMethodTypeWords == EncryptionMethodType \in Words
<1>1. {<<Enc("KeySize")>>} \in Words
  BY PartWords DEF EncNames
<1>2. Optional({<<Enc("KeySize")>>}) \in Words
  BY <1>1, WordsAre
<1>3. {<<Enc("OAEPparams")>>} \in Words
  BY PartWords DEF EncNames
<1>4. Optional({<<Enc("OAEPparams")>>}) \in Words
  BY <1>3, WordsAre
<1>5. Other("enc") \in SUBSET Tag
  BY OtherWords, AnyNameWords, NamesIn
<1>6. ZeroOrMore(Other("enc")) \in Words
  BY <1>5, WordsAre
<1>7. Then(Optional({<<Enc("OAEPparams")>>}), ZeroOrMore(Other("enc"))) \in Words
  BY <1>4, <1>6, WordsAre
<1>8. Then(Optional({<<Enc("KeySize")>>}), Then(Optional({<<Enc("OAEPparams")>>}),
      ZeroOrMore(Other("enc")))) \in Words
  BY <1>2, <1>7, WordsAre
<1> QED
  BY <1>8 DEF EncryptionMethodType

LEMMA CipherDataTypeWords == CipherDataType \in Words
<1>1. {Enc("CipherValue"), Enc("CipherReference")} \in SUBSET Tag
  BY OtherWords, AnyNameWords, NamesIn DEF EncNames
<1>2. OneOf({Enc("CipherValue"), Enc("CipherReference")}) \in Words
  BY <1>1, WordsAre
<1> QED
  BY <1>2 DEF CipherDataType

LEMMA CipherReferenceTypeWords == CipherReferenceType \in Words
<1>1. {<<Enc("Transforms")>>} \in Words
  BY PartWords DEF EncNames
<1>2. Optional({<<Enc("Transforms")>>}) \in Words
  BY <1>1, WordsAre
<1> QED
  BY <1>2 DEF CipherReferenceType

LEMMA ReferenceTypeWords == ReferenceType \in Words
<1>1. Other("enc") \in SUBSET Tag
  BY OtherWords, AnyNameWords, NamesIn
<1>2. ZeroOrMore(Other("enc")) \in Words
  BY <1>1, WordsAre
<1> QED
  BY <1>2 DEF ReferenceType

LEMMA ReferenceListTypeWords == ReferenceListType \in Words
<1>1. {Enc("DataReference"), Enc("KeyReference")} \in SUBSET Tag
  BY OtherWords, AnyNameWords, NamesIn DEF EncNames
<1>2. OneOrMore({Enc("DataReference"), Enc("KeyReference")}) \in Words
  BY <1>1, WordsAre
<1> QED
  BY <1>2 DEF ReferenceListType

LEMMA EncryptionPropertiesTypeWords == EncryptionPropertiesType \in Words
<1>1. {Enc("EncryptionProperty")} \in SUBSET Tag
  BY OtherWords, AnyNameWords, NamesIn DEF EncNames
<1>2. OneOrMore({Enc("EncryptionProperty")}) \in Words
  BY <1>1, WordsAre
<1> QED
  BY <1>2 DEF EncryptionPropertiesType

LEMMA EncryptionPropertyTypeWords == EncryptionPropertyType \in Words
<1>1. Other("enc") \in SUBSET Tag
  BY OtherWords, AnyNameWords, NamesIn
<1>2. OneOrMore(Other("enc")) \in Words
  BY <1>1, WordsAre
<1> QED
  BY <1>2 DEF EncryptionPropertyType

LEMMA EncryptedTypeWords == EncryptedType \in Words
<1>1. {<<Enc("EncryptionMethod")>>} \in Words
  BY PartWords DEF EncNames
<1>2. Optional({<<Enc("EncryptionMethod")>>}) \in Words
  BY <1>1, WordsAre
<1>3. {<<Ds("KeyInfo")>>} \in Words
  BY PartWords DEF DsNames
<1>4. Optional({<<Ds("KeyInfo")>>}) \in Words
  BY <1>3, WordsAre
<1>5. {<<Enc("CipherData")>>} \in Words
  BY PartWords DEF EncNames
<1>6. {<<Enc("EncryptionProperties")>>} \in Words
  BY PartWords DEF EncNames
<1>7. Optional({<<Enc("EncryptionProperties")>>}) \in Words
  BY <1>6, WordsAre
<1>8. Then({<<Enc("CipherData")>>}, Optional({<<Enc("EncryptionProperties")>>})) \in Words
  BY <1>5, <1>7, WordsAre
<1>9. Then(Optional({<<Ds("KeyInfo")>>}), Then({<<Enc("CipherData")>>},
      Optional({<<Enc("EncryptionProperties")>>}))) \in Words
  BY <1>4, <1>8, WordsAre
<1>10. Then(Optional({<<Enc("EncryptionMethod")>>}), Then(Optional({<<Ds("KeyInfo")>>}),
       Then({<<Enc("CipherData")>>}, Optional({<<Enc("EncryptionProperties")>>})))) \in Words
  BY <1>2, <1>9, WordsAre
<1> QED
  BY <1>10 DEF EncryptedType

LEMMA EncryptedKeyTypeWords == EncryptedKeyType \in Words
<1>1. {<<Enc("ReferenceList")>>} \in Words /\ {<<Enc("CarriedKeyName")>>} \in Words
  BY PartWords DEF EncNames
<1>2. /\ Optional({<<Enc("ReferenceList")>>}) \in Words
      /\ Optional({<<Enc("CarriedKeyName")>>}) \in Words
  BY <1>1, WordsAre
<1>3. Then(Optional({<<Enc("ReferenceList")>>}), Optional({<<Enc("CarriedKeyName")>>})) \in Words
  BY <1>2, WordsAre
<1> QED
  BY <1>3, EncryptedTypeWords, WordsAre DEF EncryptedKeyType

LEMMA EnvelopeTypeWords == EnvelopeType \in Words
<1>1. {<<Soap("Header")>>} \in Words
  BY PartWords DEF SoapNames
<1>2. Optional({<<Soap("Header")>>}) \in Words
  BY <1>1, WordsAre
<1>3. {<<Soap("Body")>>} \in Words
  BY PartWords DEF SoapNames
<1>4. Other("soap") \in SUBSET Tag
  BY OtherWords, AnyNameWords, NamesIn
<1>5. ZeroOrMore(Other("soap")) \in Words
  BY <1>4, WordsAre
<1>6. Then({<<Soap("Body")>>}, ZeroOrMore(Other("soap"))) \in Words
  BY <1>3, <1>5, WordsAre
<1>7. Then(Optional({<<Soap("Header")>>}), Then({<<Soap("Body")>>},
      ZeroOrMore(Other("soap")))) \in Words
  BY <1>2, <1>6, WordsAre
<1> QED
  BY <1>7 DEF EnvelopeType

LEMMA HeaderTypeWords == HeaderType \in Words
<1>1. Other("soap") \in SUBSET Tag
  BY OtherWords, AnyNameWords, NamesIn
<1>2. ZeroOrMore(Other("soap")) \in Words
  BY <1>1, WordsAre
<1> QED
  BY <1>2 DEF HeaderType

LEMMA BodyTypeWords == BodyType \in Words
<1>1. AnyName \in SUBSET Tag
  BY OtherWords, AnyNameWords, NamesIn
<1>2. ZeroOrMore(AnyName) \in Words
  BY <1>1, WordsAre
<1> QED
  BY <1>2 DEF BodyType

LEMMA FaultTypeWords == FaultType \in Words
<1>1. {<<Bare("faultcode"), Bare("faultstring")>>} \in Words
  BY NamesIn DEF Words, BareNames
<1>2. {<<Bare("faultactor")>>} \in Words
  BY PartWords DEF BareNames
<1>3. Optional({<<Bare("faultactor")>>}) \in Words
  BY <1>2, WordsAre
<1>4. {<<Bare("detail")>>} \in Words
  BY PartWords DEF BareNames
<1>5. Optional({<<Bare("detail")>>}) \in Words
  BY <1>4, WordsAre
<1>6. Then(Optional({<<Bare("faultactor")>>}), Optional({<<Bare("detail")>>})) \in Words
  BY <1>3, <1>5, WordsAre
<1>7. Then({<<Bare("faultcode"), Bare("faultstring")>>}, Then(Optional({<<Bare("faultactor")>>}),
      Optional({<<Bare("detail")>>}))) \in Words
  BY <1>1, <1>6, WordsAre
<1> QED
  BY <1>7 DEF FaultType

LEMMA detailWords == detail \in Words
<1>1. AnyName \in SUBSET Tag
  BY OtherWords, AnyNameWords, NamesIn
<1>2. ZeroOrMore(AnyName) \in Words
  BY <1>1, WordsAre
<1> QED
  BY <1>2 DEF detail

LEMMA ContentModelWords == \A q \in Tag : ContentModel(q) \in Words
<1>1. {<<>>} \in Words
  BY DEF Words
<1>2. ContentModel(Ds("DSAKeyValue")) \in Words
  BY DSAKeyValueTypeWords DEF ContentModel, Ds, Enc, Soap, Bare, Ds11
<1>3. ContentModel(Ds("RSAKeyValue")) \in Words
  BY RSAKeyValueTypeWords DEF ContentModel, Ds, Enc, Soap, Bare, Ds11
<1>4. ContentModel(Ds11("ECKeyValue")) \in Words
  BY ECKeyValueTypeWords DEF ContentModel, Ds, Enc, Soap, Bare, Ds11
<1>5. ContentModel(Ds("KeyValue")) \in Words
  BY KeyValueTypeWords DEF ContentModel, Ds, Enc, Soap, Bare, Ds11
<1>6. ContentModel(Ds("Transform")) \in Words
  BY TransformTypeWords DEF ContentModel, Ds, Enc, Soap, Bare, Ds11
<1>7. ContentModel(Ds("Transforms")) \in Words
  BY TransformsTypeWords DEF ContentModel, Ds, Enc, Soap, Bare, Ds11
<1>8. ContentModel(Enc("Transforms")) \in Words
  BY TransformsTypeWords DEF ContentModel, Ds, Enc, Soap, Bare, Ds11
<1>9. ContentModel(Ds("RetrievalMethod")) \in Words
  BY RetrievalMethodTypeWords DEF ContentModel, Ds, Enc, Soap, Bare, Ds11
<1>10. ContentModel(Ds("X509IssuerSerial")) \in Words
  BY X509IssuerSerialTypeWords DEF ContentModel, Ds, Enc, Soap, Bare, Ds11
<1>11. ContentModel(Ds("X509Data")) \in Words
  BY X509DataTypeWords DEF ContentModel, Ds, Enc, Soap, Bare, Ds11
<1>12. ContentModel(Ds("SPKIData")) \in Words
  BY SPKIDataTypeWords DEF ContentModel, Ds, Enc, Soap, Bare, Ds11
<1>13. ContentModel(Ds("PGPData")) \in Words
  BY PGPDataTypeWords DEF ContentModel, Ds, Enc, Soap, Bare, Ds11
<1>14. ContentModel(Ds("KeyInfo")) \in Words
  BY KeyInfoTypeWords DEF ContentModel, Ds, Enc, Soap, Bare, Ds11
<1>15. ContentModel(Enc("EncryptionMethod")) \in Words
  BY EncryptionMethodTypeWords DEF ContentModel, Ds, Enc, Soap, Bare, Ds11
<1>16. ContentModel(Enc("CipherData")) \in Words
  BY CipherDataTypeWords DEF ContentModel, Ds, Enc, Soap, Bare, Ds11
<1>17. ContentModel(Enc("CipherReference")) \in Words
  BY CipherReferenceTypeWords DEF ContentModel, Ds, Enc, Soap, Bare, Ds11
<1>18. ContentModel(Enc("DataReference")) \in Words
  BY ReferenceTypeWords DEF ContentModel, Ds, Enc, Soap, Bare, Ds11
<1>19. ContentModel(Enc("KeyReference")) \in Words
  BY ReferenceTypeWords DEF ContentModel, Ds, Enc, Soap, Bare, Ds11
<1>20. ContentModel(Enc("ReferenceList")) \in Words
  BY ReferenceListTypeWords DEF ContentModel, Ds, Enc, Soap, Bare, Ds11
<1>21. ContentModel(Enc("EncryptionProperties")) \in Words
  BY EncryptionPropertiesTypeWords DEF ContentModel, Ds, Enc, Soap, Bare, Ds11
<1>22. ContentModel(Enc("EncryptionProperty")) \in Words
  BY EncryptionPropertyTypeWords DEF ContentModel, Ds, Enc, Soap, Bare, Ds11
<1>23. ContentModel(Enc("EncryptedData")) \in Words
  BY EncryptedTypeWords DEF ContentModel, Ds, Enc, Soap, Bare, Ds11
<1>24. ContentModel(Enc("EncryptedKey")) \in Words
  BY EncryptedKeyTypeWords DEF ContentModel, Ds, Enc, Soap, Bare, Ds11
<1>25. ContentModel(Soap("Envelope")) \in Words
  BY EnvelopeTypeWords DEF ContentModel, Ds, Enc, Soap, Bare, Ds11
<1>26. ContentModel(Soap("Header")) \in Words
  BY HeaderTypeWords DEF ContentModel, Ds, Enc, Soap, Bare, Ds11
<1>27. ContentModel(Soap("Body")) \in Words
  BY BodyTypeWords DEF ContentModel, Ds, Enc, Soap, Bare, Ds11
<1>28. ContentModel(Soap("Fault")) \in Words
  BY FaultTypeWords DEF ContentModel, Ds, Enc, Soap, Bare, Ds11
<1>29. ContentModel(Bare("detail")) \in Words
  BY detailWords DEF ContentModel, Ds, Enc, Soap, Bare, Ds11
<1>30. ASSUME NEW q, q \notin {Ds("DSAKeyValue"), Ds("RSAKeyValue"), Ds11("ECKeyValue"),
       Ds("KeyValue"), Ds("Transform"), Ds("Transforms"), Enc("Transforms"),
       Ds("RetrievalMethod"), Ds("X509IssuerSerial"), Ds("X509Data"), Ds("SPKIData"),
       Ds("PGPData"), Ds("KeyInfo"), Enc("EncryptionMethod"), Enc("CipherData"),
       Enc("CipherReference"), Enc("DataReference"), Enc("KeyReference"), Enc("ReferenceList"),
       Enc("EncryptionProperties"), Enc("EncryptionProperty"), Enc("EncryptedData"),
       Enc("EncryptedKey"), Soap("Envelope"), Soap("Header"), Soap("Body"), Soap("Fault"),
       Bare("detail")} PROVE ContentModel(q) \in Words
  BY <1>30, <1>1 DEF ContentModel
<1> QED
  BY <1>2, <1>3, <1>4, <1>5, <1>6, <1>7, <1>8, <1>9, <1>10, <1>11, <1>12, <1>13, <1>14, <1>15,
     <1>16, <1>17, <1>18, <1>19, <1>20, <1>21, <1>22, <1>23, <1>24, <1>25, <1>26, <1>27, <1>28,
     <1>29, <1>30

LEMMA DocumentsWords ==
    ASSUME NEW c, Well(c), c.name \in Tag
    PROVE  Documents(c) \in Words
<1> DEFINE A == Strangers \cup ToSet(c.takes) \cup c.byName
           B == ToSet(c.takes) \cup {Extension}
<1>1. ToSet(c.takes) \in SUBSET Tag /\ c.byName \in SUBSET Tag
  BY ToSetIs DEF Well, ElementClass
<1>2. A \in SUBSET Tag /\ B \in SUBSET Tag
  BY <1>1, TagUnknown DEF Tag
<1>3. Documents(c) = ContentModel(c.name) \cup (IF c.simple THEN {} ELSE
          {<<a>> : a \in A} \cup {<<a, b>> : a, b \in B})
  BY DEF Documents
<1> HIDE DEF A, B
<1>4. /\ \A a \in A : <<a>> \in Seq(Tag)
      /\ \A a, b \in B : <<a, b>> \in Seq(Tag)
  BY <1>2
<1>5. {<<a>> : a \in A} \in Words /\ {<<a, b>> : a, b \in B} \in Words
  <2>1. {<<a>> : a \in A} \subseteq Seq(Tag)
    BY <1>4
  <2> DEFINE P == {<<a, b>> : a, b \in B}
  <2>2. P = B \X B
    OBVIOUS
  <2>3. ASSUME NEW x \in B \X B PROVE x \in Seq(Tag)
    <3>1. x = <<x[1], x[2]>> /\ x[1] \in B /\ x[2] \in B
      OBVIOUS
    <3>2. <<x[1], x[2]>> \in Seq(Tag)
      BY <1>4, <3>1
    <3> QED
      BY <3>1, <3>2, Zenon
  <2>4. P \subseteq Seq(Tag)
    BY <2>2, <2>3
  <2>5. P \in Words
    BY <2>4 DEF Words
  <2> QED
    BY <2>1, <2>5 DEF Words
<1>6. ContentModel(c.name) \in Words
  BY ContentModelWords
<1> QED
  BY <1>3, <1>5, <1>6 DEF Words
-----------------------------------------------------------------------------
(***************************************************************************)
(* m_children, when a child comes, goes or takes the place of another.     *)
(***************************************************************************)

\* What a place of m_children holds.
Pointer == Kid \cup {Null}

\* Places that hold each child once, children that were adopted, of identities
\* up to n.
KidsSound(kids, adopted, n) ==
    /\ kids \in Seq(Pointer)
    /\ \A p \in DOMAIN kids : kids[p] # Null => kids[p].id <= n
    /\ ToSet(kids) \ {Null} = adopted
    /\ Once(kids)

\* A child that was not there, with the identities given so far.
IsNew(child, n, m) == child # Null => n < child.id /\ child.id <= m

\* A sequence without its element at p.
LEMMA RemoveAtIs ==
    ASSUME NEW S, NEW s \in Seq(S), NEW p \in 1..Len(s)
    PROVE  /\ RemoveAt(s, p) \in Seq(S) /\ Len(RemoveAt(s, p)) = Len(s) - 1
           /\ DOMAIN RemoveAt(s, p) = 1..Len(s) - 1
           /\ \A i \in 1..Len(s) - 1 : RemoveAt(s, p)[i] = IF i < p THEN s[i] ELSE s[i + 1]
<1> DEFINE a == SubSeq(s, 1, p - 1)
           b == SubSeq(s, p + 1, Len(s))
<1>1. Len(s) \in Nat /\ p \in Int /\ 1 <= p /\ p <= Len(s) /\ \A i \in 1..Len(s) : s[i] \in S
  OBVIOUS
<1>2. /\ a \in Seq(S) /\ Len(a) = p - 1
      /\ \A i \in 1..p - 1 : a[i] = s[i]
  <2>1. \A i \in 1..p - 1 : s[i] \in S
    BY <1>1
  <2>2. /\ a \in Seq(S)
        /\ Len(a) = IF 1 <= p - 1 THEN p - 1 - 1 + 1 ELSE 0
        /\ \A i \in 1..p - 1 - 1 + 1 : a[i] = s[1 + i - 1]
    BY <1>1, <2>1, SubSeqProperties
  <2> HIDE DEF a
  <2>3. Len(a) = p - 1
    BY <1>1, <2>2
  <2>4. ASSUME NEW i \in 1..p - 1 PROVE a[i] = s[i]
    <3>1. i \in 1..p - 1 - 1 + 1 /\ 1 + i - 1 = i
      BY <1>1
    <3> QED
      BY <2>2, <3>1
  <2> QED
    BY <2>2, <2>3, <2>4
<1>3. /\ b \in Seq(S) /\ Len(b) = Len(s) - p
      /\ \A i \in 1..Len(s) - p : b[i] = s[p + i]
  <2>1. \A i \in p + 1..Len(s) : s[i] \in S
    BY <1>1
  <2>2. /\ b \in Seq(S)
        /\ Len(b) = IF p + 1 <= Len(s) THEN Len(s) - (p + 1) + 1 ELSE 0
        /\ \A i \in 1..Len(s) - (p + 1) + 1 : b[i] = s[p + 1 + i - 1]
    BY <1>1, <2>1, SubSeqProperties
  <2> HIDE DEF b
  <2>3. Len(b) = Len(s) - p
    BY <1>1, <2>2
  <2>4. ASSUME NEW i \in 1..Len(s) - p PROVE b[i] = s[p + i]
    <3>1. i \in 1..Len(s) - (p + 1) + 1 /\ p + 1 + i - 1 = p + i
      BY <1>1
    <3> QED
      BY <2>2, <3>1
  <2> QED
    BY <2>2, <2>3, <2>4
<1>4. RemoveAt(s, p) = a \o b
  BY DEF RemoveAt
<1> HIDE DEF a, b
<1>5. /\ a \o b \in Seq(S) /\ Len(a \o b) = Len(a) + Len(b)
      /\ DOMAIN (a \o b) = 1..Len(a) + Len(b)
      /\ \A i \in 1..Len(a) : (a \o b)[i] = a[i]
      /\ \A i \in 1..Len(b) : (a \o b)[Len(a) + i] = b[i]
  <2>1. a \in Seq(S) /\ b \in Seq(S)
    BY <1>2, <1>3
  <2> QED
    BY <2>1, Joined
<1>6. Len(a) + Len(b) = Len(s) - 1
  BY <1>1, <1>2, <1>3
<1> DEFINE r == a \o b
<1> HIDE DEF r
<1>7. /\ r \in Seq(S) /\ Len(r) = Len(s) - 1 /\ DOMAIN r = 1..Len(s) - 1
      /\ \A i \in 1..Len(a) : r[i] = a[i]
      /\ \A i \in 1..Len(b) : r[Len(a) + i] = b[i]
  BY <1>5, <1>6 DEF r
<1>8. ASSUME NEW i \in 1..Len(s) - 1 PROVE r[i] = IF i < p THEN s[i] ELSE s[i + 1]
  <2>1. CASE i < p
    <3>1. i \in 1..p - 1
      BY <1>1, <2>1
    <3> QED
      BY <1>2, <1>7, <2>1, <3>1
  <2>2. CASE ~(i < p)
    <3>1. i - (p - 1) \in 1..Len(s) - p /\ p - 1 + (i - (p - 1)) = i /\ p + (i - (p - 1)) = i + 1
      BY <1>1, <2>2
    <3> DEFINE j == i - (p - 1)
    <3> HIDE DEF j
    <3>2. j \in 1..Len(s) - p /\ p - 1 + j = i /\ p + j = i + 1
      BY <3>1 DEF j
    <3>3. r[p - 1 + j] = b[j] /\ b[j] = s[p + j]
      BY <1>2, <1>3, <1>7, <3>2
    <3> QED
      BY <2>2, <3>2, <3>3
  <2> QED
    BY <2>1, <2>2
<1> QED
  BY <1>4, <1>7, <1>8 DEF r

\* The place an element had before that at p was removed.
Skip(i, p) == IF i < p THEN i ELSE i + 1

LEMMA Skipped ==
    ASSUME NEW S, NEW s \in Seq(S), NEW p \in 1..Len(s)
    PROVE  /\ \A i \in DOMAIN RemoveAt(s, p) :
                 Skip(i, p) \in DOMAIN s /\ Skip(i, p) # p /\ RemoveAt(s, p)[i] = s[Skip(i, p)]
           /\ \A i, j \in DOMAIN RemoveAt(s, p) : i < j <=> Skip(i, p) < Skip(j, p)
           /\ \A i, j \in DOMAIN RemoveAt(s, p) : Skip(i, p) = Skip(j, p) => i = j
           /\ \A q \in DOMAIN s : q # p => \E i \in DOMAIN RemoveAt(s, p) : Skip(i, p) = q
<1> DEFINE r == RemoveAt(s, p)
<1>1. DOMAIN s = 1..Len(s) /\ Len(s) \in Nat
  OBVIOUS
<1>2. /\ DOMAIN r = 1..Len(s) - 1
      /\ \A i \in 1..Len(s) - 1 : r[i] = IF i < p THEN s[i] ELSE s[i + 1]
  BY RemoveAtIs
<1> HIDE DEF r
<1>3. \A i \in DOMAIN r : Skip(i, p) \in DOMAIN s /\ Skip(i, p) # p /\ r[i] = s[Skip(i, p)]
  BY <1>1, <1>2 DEF Skip
<1>4. \A i, j \in DOMAIN r : i < j <=> Skip(i, p) < Skip(j, p)
  BY <1>1, <1>2 DEF Skip
<1>5. \A i, j \in DOMAIN r : Skip(i, p) = Skip(j, p) => i = j
  BY <1>1, <1>2 DEF Skip
<1>6. ASSUME NEW q \in DOMAIN s, q # p PROVE \E i \in DOMAIN r : Skip(i, p) = q
  <2>1. CASE q < p
    <3>1. q \in DOMAIN r /\ Skip(q, p) = q
      BY <1>1, <1>2, <2>1 DEF Skip
    <3> QED
      BY <3>1
  <2>2. CASE q > p
    <3>1. q - 1 \in DOMAIN r /\ Skip(q - 1, p) = q
      BY <1>1, <1>2, <2>2 DEF Skip
    <3> QED
      BY <3>1
  <2> QED
    BY <1>1, <1>6, <2>1, <2>2
<1> QED
  BY <1>3, <1>4, <1>5, <1>6 DEF r

\* A child takes the place of another.
LEMMA KidsReplaced ==
    ASSUME NEW kids, NEW adopted, NEW n \in Nat, NEW m \in Nat, n <= m, KidsSound(kids, adopted, n),
           NEW p \in 1..Len(kids), NEW child \in Pointer, IsNew(child, n, m)
    PROVE  KidsSound([kids EXCEPT ![p] = child], (adopted \ {kids[p]}) \cup ({child} \ {Null}), m)
<1> DEFINE k == [kids EXCEPT ![p] = child]
<1>1. kids \in Seq(Pointer) /\ DOMAIN kids = 1..Len(kids) /\ Len(kids) \in Nat
  BY DEF KidsSound
<1>2. k \in Seq(Pointer) /\ DOMAIN k = DOMAIN kids
  BY <1>1, ExceptSeq
<1>3. \A q \in DOMAIN k : k[q] = IF q = p THEN child ELSE kids[q]
  BY <1>1
<1> HIDE DEF k
<1>9. \A q \in DOMAIN kids : kids[q] # Null => kids[q].id \in Nat
  BY <1>1 DEF Pointer, Kid
<1>8. child # Null => child.id \in Nat
  BY DEF Pointer, Kid
<1>4. \A q \in DOMAIN k : k[q] # Null => k[q].id <= m
  BY <1>2, <1>3, <1>9, <1>8 DEF KidsSound, IsNew
<1>5. \A q \in DOMAIN kids : child # Null => kids[q] # child
  BY <1>9, <1>8 DEF KidsSound, IsNew
<1>6. Once(k)
  BY <1>2, <1>3, <1>5 DEF KidsSound, Once
<1>7. ToSet(k) \ {Null} = (adopted \ {kids[p]}) \cup ({child} \ {Null})
  <2>1. \A x : x \in ToSet(k) <=> \E q \in DOMAIN k : x = k[q]
    BY DEF ToSet
  <2>2. \A x : x \in adopted <=> x # Null /\ \E q \in DOMAIN kids : x = kids[q]
    BY DEF ToSet, KidsSound
  <2>3. \A q \in DOMAIN kids : kids[q] # Null /\ kids[q] = kids[p] => q = p
    BY <1>1 DEF KidsSound, Once
  <2> QED
    BY <1>1, <1>2, <1>3, <2>1, <2>2, <2>3
<1> QED
  BY <1>2, <1>4, <1>6, <1>7 DEF KidsSound, k

\* A child is added.
LEMMA KidsAdded ==
    ASSUME NEW kids, NEW adopted, NEW n \in Nat, NEW m \in Nat, n <= m, KidsSound(kids, adopted, n),
           NEW child \in Pointer, IsNew(child, n, m)
    PROVE  KidsSound(Append(kids, child), adopted \cup ({child} \ {Null}), m)
<1> DEFINE k == Append(kids, child)
<1>1. kids \in Seq(Pointer) /\ DOMAIN kids = 1..Len(kids) /\ Len(kids) \in Nat
  BY DEF KidsSound
<1>2. /\ k \in Seq(Pointer) /\ Len(k) = Len(kids) + 1
      /\ \A q \in 1..Len(kids) : k[q] = kids[q]
      /\ k[Len(kids) + 1] = child
  BY <1>1, AppendProperties
<1> HIDE DEF k
<1>3. DOMAIN k = 1..Len(kids) + 1
  BY <1>2, SeqDomain
<1>10. \A q \in DOMAIN k : q \in DOMAIN kids \/ q = Len(kids) + 1
  BY <1>1, <1>3
<1>11. DOMAIN kids \subseteq DOMAIN k /\ Len(kids) + 1 \in DOMAIN k
  BY <1>1, <1>3
<1>9. \A q \in DOMAIN kids : kids[q] # Null => kids[q].id \in Nat
  BY <1>1 DEF Pointer, Kid
<1>8. child # Null => child.id \in Nat
  BY DEF Pointer, Kid
<1>4. \A q \in DOMAIN k : k[q] # Null => k[q].id <= m
  BY <1>1, <1>2, <1>10, <1>9, <1>8 DEF KidsSound, IsNew
<1>5. \A q \in DOMAIN kids : child # Null => kids[q] # child
  BY <1>9, <1>8 DEF KidsSound, IsNew
<1>6. Once(k)
  BY <1>1, <1>2, <1>10, <1>5 DEF KidsSound, Once
<1>7. ToSet(k) \ {Null} = adopted \cup ({child} \ {Null})
  <2>1. \A x : x \in ToSet(k) <=> \E q \in DOMAIN k : x = k[q]
    BY DEF ToSet
  <2>2. \A x : x \in adopted <=> x # Null /\ \E q \in DOMAIN kids : x = kids[q]
    BY DEF ToSet, KidsSound
  <2> QED
    BY <1>1, <1>2, <1>10, <1>11, <2>1, <2>2
<1> QED
  BY <1>2, <1>4, <1>6, <1>7 DEF KidsSound, k

\* A child is removed.
LEMMA KidsRemoved ==
    ASSUME NEW kids, NEW adopted, NEW n \in Nat, KidsSound(kids, adopted, n), NEW p \in 1..Len(kids)
    PROVE  KidsSound(RemoveAt(kids, p), adopted \ {kids[p]}, n)
<1> DEFINE k == RemoveAt(kids, p)
<1>0. kids \in Seq(Pointer)
  BY DEF KidsSound
<1>1. kids \in Seq(Pointer) /\ DOMAIN kids = 1..Len(kids) /\ Len(kids) \in Nat
  BY DEF KidsSound
<1>2. k \in Seq(Pointer)
  BY <1>0, RemoveAtIs
<1>3. /\ \A i \in DOMAIN k : Skip(i, p) \in DOMAIN kids /\ Skip(i, p) # p /\ k[i] = kids[Skip(i, p)]
      /\ \A i, j \in DOMAIN k : Skip(i, p) = Skip(j, p) => i = j
      /\ \A q \in DOMAIN kids : q # p => \E i \in DOMAIN k : Skip(i, p) = q
  BY <1>0, Skipped
<1> HIDE DEF k
<1>6. \A q \in DOMAIN k : k[q] # Null => k[q].id <= n
  BY <1>3 DEF KidsSound
<1>7. Once(k)
  BY <1>3 DEF KidsSound, Once
<1>8. ToSet(k) \ {Null} = adopted \ {kids[p]}
  <2>1. \A x : x \in ToSet(k) <=> \E q \in DOMAIN k : x = k[q]
    BY DEF ToSet
  <2>2. \A x : x \in adopted <=> x # Null /\ \E q \in DOMAIN kids : x = kids[q]
    BY DEF ToSet, KidsSound
  <2>3. \A q \in DOMAIN kids : kids[q] # Null /\ kids[q] = kids[p] => q = p
    BY <1>1 DEF KidsSound, Once
  <2> QED
    BY <1>1, <1>3, <2>1, <2>2, <2>3
<1> QED
  BY <1>2, <1>6, <1>7, <1>8 DEF KidsSound, k
-----------------------------------------------------------------------------
(***************************************************************************)
(* The lists, that share out m_children.                                   *)
(***************************************************************************)

\* The three parts of ListsInStep, by places.
Same(kids, n, lists) ==
    /\ \A p \in n + 1..Len(kids) : \E l \in DOMAIN lists : \E j \in DOMAIN lists[l] : kids[p] = lists[l][j]
    /\ \A l \in DOMAIN lists : \A j \in DOMAIN lists[l] : \E p \in n + 1..Len(kids) : kids[p] = lists[l][j]

Shared(lists) ==
    \A l \in DOMAIN lists : \A m \in DOMAIN lists : \A i \in DOMAIN lists[l] : \A j \in DOMAIN lists[m] :
        lists[l][i] = lists[m][j] => l = m

Ordered(kids, n, lists) ==
    \A m \in DOMAIN lists : \A i \in DOMAIN lists[m] : \A j \in DOMAIN lists[m] :
        \A p \in n + 1..Len(kids) : \A q \in n + 1..Len(kids) :
            i < j /\ kids[p] = lists[m][i] /\ kids[q] = lists[m][j] => p < q

\* They are what ListsInStep says.
LEMMA ListsInStepIs ==
    ASSUME NEW kids, NEW n, NEW lists
    PROVE  ListsInStep(kids, n, lists)
             <=> Same(kids, n, lists) /\ Shared(lists) /\ Ordered(kids, n, lists)
<1> DEFINE Rest == n + 1..Len(kids)
           A == {kids[p] : p \in Rest}
           B == UNION {ToSet(lists[m]) : m \in DOMAIN lists}
<1>1. \A x : x \in A <=> \E p \in Rest : x = kids[p]
  OBVIOUS
<1>2. \A x : x \in B <=> \E l \in DOMAIN lists : \E j \in DOMAIN lists[l] : x = lists[l][j]
  BY DEF ToSet
<1>3. A = B <=> Same(kids, n, lists)
  <2> HIDE DEF A, B, Rest
  <2>1. Same(kids, n, lists) <=>
          /\ \A p \in Rest : \E l \in DOMAIN lists : \E j \in DOMAIN lists[l] : kids[p] = lists[l][j]
          /\ \A l \in DOMAIN lists : \A j \in DOMAIN lists[l] : \E p \in Rest : kids[p] = lists[l][j]
    BY DEF Same, Rest
  <2>2. A = B <=> \A x : x \in A <=> x \in B
    OBVIOUS
  <2>3. ASSUME A = B PROVE Same(kids, n, lists)
    BY <1>1, <1>2, <2>1, <2>3
  <2>4. ASSUME Same(kids, n, lists) PROVE \A x : x \in A <=> x \in B
    <3>1. ASSUME NEW x \in A PROVE x \in B
      BY <1>1, <1>2, <2>1, <2>4
    <3>2. ASSUME NEW x \in B PROVE x \in A
      BY <1>1, <1>2, <2>1, <2>4
    <3> QED
      BY <3>1, <3>2
  <2> QED
    BY <2>2, <2>3, <2>4
<1>4. (\A l, m \in DOMAIN lists : l # m => ToSet(lists[l]) \cap ToSet(lists[m]) = {})
        <=> Shared(lists)
  BY DEF Shared, ToSet
<1>5. (\A m \in DOMAIN lists : \A i, j \in DOMAIN lists[m] : \A p, q \in Rest :
          i < j /\ kids[p] = lists[m][i] /\ kids[q] = lists[m][j] => p < q)
        <=> Ordered(kids, n, lists)
  BY DEF Ordered
<1> QED
  BY <1>3, <1>4, <1>5 DEF ListsInStep

\* A place that is not one of a list changes.
LEMMA ListsKept ==
    ASSUME NEW kids, NEW n, NEW lists, ListsInStep(kids, n, lists),
           NEW k, Len(k) = Len(kids), \A p \in n + 1..Len(kids) : k[p] = kids[p]
    PROVE  ListsInStep(k, n, lists)
<1>1. Same(kids, n, lists) /\ Shared(lists) /\ Ordered(kids, n, lists)
  BY ListsInStepIs
<1>2. Same(k, n, lists)
  BY <1>1 DEF Same
<1>3. Ordered(k, n, lists)
  BY <1>1 DEF Ordered
<1> QED
  BY <1>1, <1>2, <1>3, ListsInStepIs

\* A child is added at the end of a list, and at the end of all.
LEMMA ListsAdded ==
    ASSUME NEW kids \in Seq(Pointer), NEW n \in Nat, n <= Len(kids),
           NEW M, NEW lists \in [M -> Seq(Kid)], ListsInStep(kids, n, lists),
           NEW m \in M, NEW child \in Kid, \A p \in DOMAIN kids : kids[p] # child
    PROVE  /\ [lists EXCEPT ![m] = Append(@, child)] \in [M -> Seq(Kid)]
           /\ ListsInStep(Append(kids, child), n, [lists EXCEPT ![m] = Append(@, child)])
<1> DEFINE k == Append(kids, child)
           e == lists[m]
           f == Append(e, child)
           s == [lists EXCEPT ![m] = f]
<1>1. Same(kids, n, lists) /\ Shared(lists) /\ Ordered(kids, n, lists)
  BY ListsInStepIs
<1>2. e \in Seq(Kid) /\ Len(e) \in Nat /\ DOMAIN e = 1..Len(e)
  <2>1. e \in Seq(Kid)
    OBVIOUS
  <2> HIDE DEF e
  <2> QED
    BY <2>1
<1>3. /\ f \in Seq(Kid) /\ Len(f) = Len(e) + 1 /\ f[Len(e) + 1] = child
      /\ \A i \in 1..Len(e) : f[i] = e[i]
  <2> HIDE DEF e
  <2> QED
    BY <1>2, AppendProperties
<1>4. DOMAIN f = 1..Len(e) + 1
  <2> HIDE DEF e, f
  <2> QED
    BY <1>3, SeqDomain
<1>5. Len(kids) \in Nat /\ DOMAIN kids = 1..Len(kids)
  OBVIOUS
<1>6. /\ Len(k) = Len(kids) + 1 /\ k[Len(kids) + 1] = child
      /\ \A p \in 1..Len(kids) : k[p] = kids[p]
  <2>1. child \in Pointer
    BY DEF Pointer
  <2> QED
    BY <2>1, AppendProperties
<1>7. DOMAIN lists = M /\ DOMAIN s = M /\ s[m] = f /\ \A l \in M \ {m} : s[l] = lists[l]
  OBVIOUS
<1>8. s \in [M -> Seq(Kid)]
  BY <1>3
<1>9. lists[m] = e /\ \A l \in M : lists[l] \in Seq(Kid)
  OBVIOUS
<1> HIDE DEF k, e, f, s
<1>10. \A l \in M : \A j \in DOMAIN s[l] :
          \/ j \in DOMAIN lists[l] /\ s[l][j] = lists[l][j]
          \/ l = m /\ j = Len(e) + 1 /\ s[l][j] = child
  <2>1. ASSUME NEW j \in DOMAIN f
        PROVE  (j \in DOMAIN e /\ f[j] = e[j]) \/ (j = Len(e) + 1 /\ f[j] = child)
    <3>1. j \in 1..Len(e) \/ j = Len(e) + 1
      BY <1>2, <1>4
    <3> QED
      BY <1>2, <1>3, <3>1
  <2>2. ASSUME NEW l \in M, NEW j \in DOMAIN s[l]
        PROVE  \/ j \in DOMAIN lists[l] /\ s[l][j] = lists[l][j]
               \/ l = m /\ j = Len(e) + 1 /\ s[l][j] = child
    <3>1. CASE l = m
      <4>1. s[l] = f /\ lists[l] = e
        BY <1>7, <1>9, <3>1
      <4> QED
        BY <2>1, <3>1, <4>1
    <3>2. CASE l # m
      <4>1. s[l] = lists[l]
        BY <1>7, <3>2
      <4> QED
        BY <4>1
    <3> QED
      BY <3>1, <3>2
  <2> QED
    BY <2>2
<1>11. \A l \in M : \A j \in DOMAIN lists[l] : j \in DOMAIN s[l] /\ s[l][j] = lists[l][j]
  <2>1. ASSUME NEW j \in DOMAIN e PROVE j \in DOMAIN f /\ f[j] = e[j]
    BY <1>2, <1>3, <1>4
  <2>2. ASSUME NEW l \in M, NEW j \in DOMAIN lists[l]
        PROVE  j \in DOMAIN s[l] /\ s[l][j] = lists[l][j]
    <3>1. CASE l = m
      <4>1. s[l] = f /\ lists[l] = e
        BY <1>7, <1>9, <3>1
      <4> QED
        BY <2>1, <4>1
    <3>2. CASE l # m
      <4>1. s[l] = lists[l]
        BY <1>7, <3>2
      <4> QED
        BY <4>1
    <3> QED
      BY <3>1, <3>2
  <2> QED
    BY <2>2
<1>12. Len(e) + 1 \in DOMAIN s[m] /\ s[m][Len(e) + 1] = child
  BY <1>2, <1>3, <1>4, <1>7
<1>13. \A p \in n + 1..Len(k) : (p \in n + 1..Len(kids) /\ k[p] = kids[p])
                                  \/ (p = Len(kids) + 1 /\ k[p] = child)
  BY <1>5, <1>6
<1>14. /\ \A p \in n + 1..Len(kids) : p \in n + 1..Len(k) /\ k[p] = kids[p]
       /\ Len(kids) + 1 \in n + 1..Len(k) /\ k[Len(kids) + 1] = child
  BY <1>5, <1>6
<1>15. \A l \in M : \A j \in DOMAIN lists[l] : lists[l][j] # child
  <2>1. \A l \in M : \A j \in DOMAIN lists[l] : \E p \in n + 1..Len(kids) : kids[p] = lists[l][j]
    BY <1>1, <1>7 DEF Same
  <2>2. \A p \in n + 1..Len(kids) : p \in DOMAIN kids
    BY <1>5
  <2> QED
    BY <2>1, <2>2
<1>16. Same(k, n, s)
  <2>1. ASSUME NEW p \in n + 1..Len(k)
        PROVE  \E l \in M : \E j \in DOMAIN s[l] : k[p] = s[l][j]
    <3>1. CASE p \in n + 1..Len(kids) /\ k[p] = kids[p]
      <4>1. PICK l \in M : \E j \in DOMAIN lists[l] : kids[p] = lists[l][j]
        BY <1>1, <1>7, <3>1 DEF Same
      <4> QED
        BY <3>1, <4>1, <1>11
    <3>2. CASE k[p] = child
      BY <3>2, <1>12
    <3> QED
      BY <1>13, <3>1, <3>2
  <2>2. ASSUME NEW l \in M, NEW j \in DOMAIN s[l]
        PROVE  \E p \in n + 1..Len(k) : k[p] = s[l][j]
    <3>1. CASE j \in DOMAIN lists[l] /\ s[l][j] = lists[l][j]
      <4>1. PICK p \in n + 1..Len(kids) : kids[p] = lists[l][j]
        BY <1>1, <1>7, <3>1 DEF Same
      <4> QED
        BY <3>1, <4>1, <1>14
    <3>2. CASE s[l][j] = child
      BY <3>2, <1>14
    <3> QED
      BY <1>10, <3>1, <3>2
  <2> QED
    BY <2>1, <2>2, <1>7 DEF Same
<1>17. Shared(s)
  BY <1>1, <1>7, <1>10, <1>15 DEF Shared
<1>18. Ordered(k, n, s)
  <2>1. SUFFICES ASSUME NEW l \in M, NEW i \in DOMAIN s[l], NEW j \in DOMAIN s[l],
                        NEW p \in n + 1..Len(k), NEW q \in n + 1..Len(k),
                        i < j, k[p] = s[l][i], k[q] = s[l][j]
                 PROVE  p < q
    BY <1>7 DEF Ordered
  <2>2. i \in DOMAIN lists[l] /\ s[l][i] = lists[l][i]
    <3>1. CASE l = m /\ i = Len(e) + 1
      <4>1. j \in 1..Len(e) + 1
        BY <3>1, <1>4, <1>7
      <4> QED
        BY <1>2, <2>1, <3>1, <4>1
    <3> QED
      BY <1>10, <3>1
  <2>3. p \in n + 1..Len(kids) /\ k[p] = kids[p]
    <3>1. k[p] # child
      BY <2>1, <2>2, <1>15
    <3> QED
      BY <1>13, <3>1
  <2>4. CASE q = Len(kids) + 1
    BY <2>3, <2>4, <1>5
  <2>5. CASE q \in n + 1..Len(kids) /\ k[q] = kids[q]
    <3>1. \A x \in DOMAIN kids : kids[x] # child
      OBVIOUS
    <3>2. s[l][j] # child
      BY <1>5, <2>1, <2>5, <3>1
    <3>3. j \in DOMAIN lists[l] /\ s[l][j] = lists[l][j]
      BY <3>2, <1>10
    <3>4. kids[p] = lists[l][i] /\ kids[q] = lists[l][j]
      BY <2>1, <2>2, <2>3, <2>5, <3>3
    <3>5. i \in DOMAIN lists[l] /\ p \in n + 1..Len(kids) /\ q \in n + 1..Len(kids)
      BY <2>2, <2>3, <2>5
    <3> QED
      BY <1>1, <1>7, <2>1, <3>3, <3>4, <3>5 DEF Ordered
  <2> QED
    BY <2>4, <2>5, <1>13
<1> QED
  BY <1>8, <1>16, <1>17, <1>18, ListsInStepIs DEF k, s, f, e

\* A child leaves its list and the places.
LEMMA ListsRemoved ==
    ASSUME NEW kids \in Seq(Pointer), Once(kids), NEW n \in Nat, n <= Len(kids),
           NEW M, NEW lists \in [M -> Seq(Kid)], ListsInStep(kids, n, lists),
           NEW m \in M, NEW i \in DOMAIN lists[m], NEW p \in n + 1..Len(kids),
           kids[p] = lists[m][i]
    PROVE  /\ [lists EXCEPT ![m] = RemoveAt(@, i)] \in [M -> Seq(Kid)]
           /\ ListsInStep(RemoveAt(kids, p), n, [lists EXCEPT ![m] = RemoveAt(@, i)])
<1> DEFINE k == RemoveAt(kids, p)
           e == lists[m]
           f == RemoveAt(e, i)
           s == [lists EXCEPT ![m] = f]
           On(l, j) == IF l = m THEN Skip(j, i) ELSE j
<1>1. Same(kids, n, lists) /\ Shared(lists) /\ Ordered(kids, n, lists)
  BY ListsInStepIs
<1>2. e \in Seq(Kid) /\ i \in 1..Len(e)
  <2>1. e \in Seq(Kid) /\ i \in DOMAIN e
    OBVIOUS
  <2> HIDE DEF e
  <2> QED
    BY <2>1
<1>3. f \in Seq(Kid)
  <2> HIDE DEF e
  <2> QED
    BY <1>2, RemoveAtIs
<1>4. /\ \A j \in DOMAIN f : Skip(j, i) \in DOMAIN e /\ Skip(j, i) # i /\ f[j] = e[Skip(j, i)]
      /\ \A a, b \in DOMAIN f : a < b <=> Skip(a, i) < Skip(b, i)
      /\ \A q \in DOMAIN e : q # i => \E j \in DOMAIN f : Skip(j, i) = q
  <2> HIDE DEF e
  <2> QED
    BY <1>2, Skipped
<1>5. Len(kids) \in Nat /\ DOMAIN kids = 1..Len(kids) /\ p \in 1..Len(kids)
  OBVIOUS
<1>0. p \in 1..Len(kids)
  BY <1>5
<1>6. k \in Seq(Pointer) /\ Len(k) = Len(kids) - 1 /\ DOMAIN k = 1..Len(kids) - 1
  BY <1>0, RemoveAtIs
<1>7. /\ \A x \in DOMAIN k : Skip(x, p) \in DOMAIN kids /\ Skip(x, p) # p /\ k[x] = kids[Skip(x, p)]
      /\ \A x, y \in DOMAIN k : x < y <=> Skip(x, p) < Skip(y, p)
      /\ \A q \in DOMAIN kids : q # p => \E x \in DOMAIN k : Skip(x, p) = q
  BY <1>0, Skipped
<1>8. DOMAIN lists = M /\ DOMAIN s = M /\ s[m] = f /\ \A l \in M \ {m} : s[l] = lists[l]
  OBVIOUS
<1>9. s \in [M -> Seq(Kid)]
  BY <1>3
<1>10. lists[m] = e /\ \A l \in M : lists[l] \in Seq(Kid)
  OBVIOUS
<1> HIDE DEF k, e, f, s
<1>11. \A x \in n + 1..Len(k) : /\ x \in DOMAIN k /\ Skip(x, p) \in n + 1..Len(kids)
                                /\ Skip(x, p) # p /\ k[x] = kids[Skip(x, p)]
  <2>1. \A x \in n + 1..Len(k) : x \in DOMAIN k /\ Skip(x, p) >= n + 1
    BY <1>5, <1>6 DEF Skip
  <2> QED
    BY <1>5, <1>7, <2>1
<1>12. \A q \in n + 1..Len(kids) : q # p => \E x \in n + 1..Len(k) : Skip(x, p) = q
  <2>1. SUFFICES ASSUME NEW q \in n + 1..Len(kids), q # p
                 PROVE  \E x \in n + 1..Len(k) : Skip(x, p) = q
    OBVIOUS
  <2>2. PICK x \in DOMAIN k : Skip(x, p) = q
    BY <1>5, <1>7, <2>1
  <2>3. x \in n + 1..Len(k)
    BY <1>5, <1>6, <2>1, <2>2 DEF Skip
  <2> QED
    BY <2>2, <2>3
<1>13. \A l \in M : \A j \in DOMAIN s[l] :
          On(l, j) \in DOMAIN lists[l] /\ s[l][j] = lists[l][On(l, j)] /\ (l = m => On(l, j) # i)
  <2>1. SUFFICES ASSUME NEW l \in M, NEW j \in DOMAIN s[l]
                 PROVE  /\ On(l, j) \in DOMAIN lists[l] /\ s[l][j] = lists[l][On(l, j)]
                        /\ (l = m => On(l, j) # i)
    OBVIOUS
  <2>2. CASE l = m
    <3>1. s[l] = f /\ lists[l] = e
      BY <1>8, <1>10, <2>2
    <3> QED
      BY <1>4, <2>2, <3>1
  <2>3. CASE l # m
    <3>1. s[l] = lists[l]
      BY <1>8, <2>3
    <3> QED
      BY <2>3, <3>1
  <2> QED
    BY <2>2, <2>3
<1>14. \A l \in M : \A j \in DOMAIN lists[l] :
          ~(l = m /\ j = i) => \E h \in DOMAIN s[l] : On(l, h) = j
  <2>1. SUFFICES ASSUME NEW l \in M, NEW j \in DOMAIN lists[l], ~(l = m /\ j = i)
                 PROVE  \E h \in DOMAIN s[l] : On(l, h) = j
    OBVIOUS
  <2>2. CASE l = m
    <3>1. s[l] = f /\ lists[l] = e
      BY <1>8, <1>10, <2>2
    <3> QED
      BY <1>4, <2>1, <2>2, <3>1
  <2>3. CASE l # m
    <3>1. s[l] = lists[l]
      BY <1>8, <2>3
    <3> QED
      BY <2>3, <3>1
  <2> QED
    BY <2>2, <2>3
<1>15. \A l \in M : \A a \in DOMAIN s[l] : \A b \in DOMAIN s[l] : a < b => On(l, a) < On(l, b)
  <2>1. SUFFICES ASSUME NEW l \in M, NEW a \in DOMAIN s[l], NEW b \in DOMAIN s[l], a < b
                 PROVE  On(l, a) < On(l, b)
    OBVIOUS
  <2>2. CASE l = m
    <3>1. s[l] = f
      BY <1>8, <2>2
    <3> QED
      BY <1>4, <2>1, <2>2, <3>1
  <2> QED
    BY <2>1, <2>2
<1> HIDE DEF On
<1>16. \A l \in M : \A j \in DOMAIN lists[l] : lists[l][j] \in Kid /\ lists[l][j] # Null
  BY <1>10, ElementsAssumption
<1>17. Same(k, n, s)
  <2>1. ASSUME NEW x \in n + 1..Len(k)
        PROVE  \E l \in M : \E j \in DOMAIN s[l] : k[x] = s[l][j]
    <3>1. Skip(x, p) \in n + 1..Len(kids) /\ Skip(x, p) # p /\ k[x] = kids[Skip(x, p)]
      BY <1>11
    <3>2. PICK l \in M : \E j \in DOMAIN lists[l] : kids[Skip(x, p)] = lists[l][j]
      <4>1. \A q \in n + 1..Len(kids) :
               \E l \in M : \E j \in DOMAIN lists[l] : kids[q] = lists[l][j]
        BY <1>1, <1>8 DEF Same
      <4> QED
        BY <4>1, <3>1
    <3>3. PICK j \in DOMAIN lists[l] : kids[Skip(x, p)] = lists[l][j]
      BY <3>2
    <3>4. ~(l = m /\ j = i)
      <4>1. Skip(x, p) \in DOMAIN kids
        BY <1>5, <3>1
      <4> QED
        BY <1>5, <1>16, <3>1, <3>3, <4>1 DEF Once
    <3>5. PICK h \in DOMAIN s[l] : On(l, h) = j
      BY <1>14, <3>4
    <3> QED
      BY <1>13, <3>1, <3>3, <3>5
  <2>2. ASSUME NEW l \in M, NEW j \in DOMAIN s[l]
        PROVE  \E x \in n + 1..Len(k) : k[x] = s[l][j]
    <3>1. On(l, j) \in DOMAIN lists[l] /\ s[l][j] = lists[l][On(l, j)] /\ (l = m => On(l, j) # i)
      BY <1>13
    <3>2. PICK q \in n + 1..Len(kids) : kids[q] = lists[l][On(l, j)]
      BY <1>1, <1>8, <3>1 DEF Same
    <3>3. q # p
      <4>1. ASSUME q = p PROVE FALSE
        <5>1. l = m
          BY <1>1, <1>8, <3>1, <3>2, <4>1 DEF Shared
        <5>2. On(l, j) < i \/ i < On(l, j)
          <6>1. DOMAIN lists[m] \subseteq Int
            BY <1>2, <1>10
          <6> QED
            BY <3>1, <5>1, <6>1
        <5>3. p < p
          BY <1>1, <1>8, <3>1, <3>2, <4>1, <5>1, <5>2 DEF Ordered
        <5> QED
          BY <1>5, <5>3
      <4> QED
        BY <4>1
    <3>4. PICK x \in n + 1..Len(k) : Skip(x, p) = q
      BY <1>12, <3>3
    <3> QED
      BY <1>11, <3>1, <3>2, <3>4
  <2> QED
    BY <2>1, <2>2, <1>8 DEF Same
<1>18. Shared(s)
  BY <1>1, <1>8, <1>13 DEF Shared
<1>19. Ordered(k, n, s)
  <2>1. SUFFICES ASSUME NEW l \in M, NEW a \in DOMAIN s[l], NEW b \in DOMAIN s[l],
                        NEW x \in n + 1..Len(k), NEW y \in n + 1..Len(k),
                        a < b, k[x] = s[l][a], k[y] = s[l][b]
                 PROVE  x < y
    BY <1>8 DEF Ordered
  <2>2. On(l, a) \in DOMAIN lists[l] /\ On(l, b) \in DOMAIN lists[l] /\ On(l, a) < On(l, b)
    BY <1>13, <1>15, <2>1
  <2>3. /\ Skip(x, p) \in n + 1..Len(kids) /\ Skip(y, p) \in n + 1..Len(kids)
        /\ x \in DOMAIN k /\ y \in DOMAIN k
    BY <1>11
  <2>4. kids[Skip(x, p)] = lists[l][On(l, a)] /\ kids[Skip(y, p)] = lists[l][On(l, b)]
    BY <1>11, <1>13, <2>1
  <2>5. Skip(x, p) < Skip(y, p)
    BY <1>1, <1>8, <2>2, <2>3, <2>4 DEF Ordered
  <2> QED
    BY <1>7, <2>3, <2>5
<1> QED
  BY <1>9, <1>17, <1>18, <1>19, ListsInStepIs DEF k, s, f, e
-----------------------------------------------------------------------------
(***************************************************************************)
(* The pairs, one after the other in m_children.                           *)
(***************************************************************************)

\* What XMLObjectPairList holds: the second of a pair may be missing.
Pair == Kid \X Pointer

\* Two are added, one after the other.
LEMMA TwoAppended ==
    ASSUME NEW S, NEW s \in Seq(S), NEW a \in S, NEW b \in S
    PROVE  s \o <<a, b>> = Append(Append(s, a), b)
<1> DEFINE t == s \o <<a, b>>
           u == Append(Append(s, a), b)
<1>1. <<a, b>> \in Seq(S) /\ Len(<<a, b>>) = 2 /\ <<a, b>>[1] = a /\ <<a, b>>[2] = b
  OBVIOUS
<1> DEFINE w == <<a, b>>
<1>2. w \in Seq(S)
  BY <1>1
<1>3. Len(w) = 2 /\ w[1] = a /\ w[2] = b
  BY <1>1
<1> HIDE DEF w
<1>4. /\ s \o w \in Seq(S) /\ Len(s \o w) = Len(s) + Len(w)
      /\ \A i \in 1..Len(s) : (s \o w)[i] = s[i]
      /\ \A i \in 1..Len(w) : (s \o w)[Len(s) + i] = w[i]
  BY <1>2, Joined
<1>5. t = s \o w
  BY DEF w
<1> HIDE DEF t
<1>6. /\ t \in Seq(S) /\ Len(t) = Len(s) + 2 /\ t[Len(s) + 1] = a /\ t[Len(s) + 2] = b
      /\ \A i \in 1..Len(s) : t[i] = s[i]
  BY <1>3, <1>4, <1>5
<1> DEFINE v == Append(s, a)
<1>7. /\ v \in Seq(S) /\ Len(v) = Len(s) + 1 /\ v[Len(s) + 1] = a
      /\ \A i \in 1..Len(s) : v[i] = s[i]
  BY AppendProperties
<1> HIDE DEF v
<1>8. /\ Append(v, b) \in Seq(S) /\ Len(Append(v, b)) = Len(v) + 1 /\ Append(v, b)[Len(v) + 1] = b
      /\ \A i \in 1..Len(v) : Append(v, b)[i] = v[i]
  <2>1. v \in Seq(S)
    BY <1>7
  <2> QED
    BY <2>1, AppendProperties
<1>9. u = Append(v, b)
  BY DEF v
<1> HIDE DEF u
<1>10. Len(s) \in Nat
  OBVIOUS
<1>11. /\ u \in Seq(S) /\ Len(u) = Len(s) + 2 /\ u[Len(s) + 1] = a /\ u[Len(s) + 2] = b
       /\ \A i \in 1..Len(s) : u[i] = s[i]
  <2>1. u \in Seq(S) /\ Len(u) = Len(v) + 1 /\ u[Len(v) + 1] = b
        /\ \A i \in 1..Len(v) : u[i] = v[i]
    BY <1>8, <1>9
  <2>2. Len(v) = Len(s) + 1 /\ Len(s) + 1 + 1 = Len(s) + 2 /\ Len(s) + 1 \in 1..Len(v)
        /\ \A i \in 1..Len(s) : i \in 1..Len(v)
    BY <1>7, <1>10
  <2> QED
    BY <1>7, <2>1, <2>2
<1>12. \A i \in 1..Len(t) : i \in 1..Len(s) \/ i = Len(s) + 1 \/ i = Len(s) + 2
  BY <1>6, <1>10
<1>13. \A i \in 1..Len(t) : t[i] = u[i]
  BY <1>6, <1>11, <1>12
<1>14. t \in Seq(S) /\ u \in Seq(S) /\ Len(t) = Len(u)
  BY <1>6, <1>11
<1>15. t = u
  BY <1>13, <1>14, SeqEqual
<1> QED
  BY <1>15 DEF t, u

\* A pair comes.
LEMMA PairsAdded ==
    ASSUME NEW kids \in Seq(Pointer), NEW pairs \in Seq(Pair), PairsInStep(kids, pairs),
           NEW a \in Kid, NEW b \in Pointer
    PROVE  /\ Append(pairs, <<a, b>>) \in Seq(Pair)
           /\ PairsInStep(kids \o <<a, b>>, Append(pairs, <<a, b>>))
<1> DEFINE w == <<a, b>>
           k == kids \o w
           r == Append(pairs, w)
<1>1. w \in Pair
  BY DEF Pair
<1>2. a \in Pointer
  BY DEF Pointer
<1>3. w \in Seq(Pointer) /\ Len(w) = 2 /\ w[1] = a /\ w[2] = b
  BY <1>2
<1>4. Len(kids) \in Nat /\ Len(pairs) \in Nat /\ DOMAIN pairs = 1..Len(pairs)
  OBVIOUS
<1>5. w = <<w[1], w[2]>>
  BY <1>3
<1> HIDE DEF w
<1>6. /\ k \in Seq(Pointer) /\ Len(k) = Len(kids) + Len(w)
      /\ \A i \in 1..Len(kids) : k[i] = kids[i]
      /\ \A i \in 1..Len(w) : k[Len(kids) + i] = w[i]
  <2>1. w \in Seq(Pointer)
    BY <1>3
  <2> QED
    BY <2>1, Joined
<1>7. /\ r \in Seq(Pair) /\ Len(r) = Len(pairs) + 1 /\ r[Len(pairs) + 1] = w
      /\ \A i \in 1..Len(pairs) : r[i] = pairs[i]
  BY <1>1, AppendProperties
<1> HIDE DEF k, r
<1>8. DOMAIN r = 1..Len(pairs) + 1
  BY <1>7, SeqDomain
<1>9. Len(kids) = 2 * Len(pairs)
  BY DEF PairsInStep
<1>10. Len(k) = 2 * Len(r)
  BY <1>3, <1>4, <1>6, <1>7, <1>9
<1>11. ASSUME NEW i \in DOMAIN r PROVE r[i] = <<k[2 * i - 1], k[2 * i]>>
  <2>1. CASE i \in 1..Len(pairs)
    <3>1. pairs[i] = <<kids[2 * i - 1], kids[2 * i]>>
      BY <1>4, <2>1 DEF PairsInStep
    <3>2. 2 * i - 1 \in 1..Len(kids) /\ 2 * i \in 1..Len(kids)
      BY <1>4, <1>9, <2>1
    <3>3. k[2 * i - 1] = kids[2 * i - 1] /\ k[2 * i] = kids[2 * i]
      BY <1>6, <3>2
    <3> QED
      BY <1>7, <2>1, <3>1, <3>3
  <2>2. CASE i = Len(pairs) + 1
    <3>1. k[Len(kids) + 1] = w[1] /\ k[Len(kids) + 2] = w[2]
      BY <1>3, <1>6
    <3>2. 2 * i - 1 = Len(kids) + 1 /\ 2 * i = Len(kids) + 2
      BY <1>4, <1>9, <2>2
    <3> QED
      BY <1>5, <1>7, <2>2, <3>1, <3>2
  <2> QED
    BY <1>4, <1>8, <2>1, <2>2
<1> QED
  BY <1>7, <1>10, <1>11 DEF PairsInStep, k, r, w

\* A pair goes.
LEMMA PairsRemoved ==
    ASSUME NEW kids \in Seq(Pointer), NEW pairs \in Seq(Pair), PairsInStep(kids, pairs),
           NEW i \in 1..Len(pairs)
    PROVE  /\ RemoveAt(pairs, i) \in Seq(Pair)
           /\ 2 * i \in 1..Len(kids) /\ 2 * i - 1 \in 1..Len(kids) - 1
           /\ PairsInStep(RemoveAt(RemoveAt(kids, 2 * i), 2 * i - 1), RemoveAt(pairs, i))
<1> DEFINE h == RemoveAt(kids, 2 * i)
           k == RemoveAt(h, 2 * i - 1)
           r == RemoveAt(pairs, i)
<1>1. Len(kids) \in Nat /\ Len(pairs) \in Nat /\ DOMAIN pairs = 1..Len(pairs)
  OBVIOUS
<1>2. Len(kids) = 2 * Len(pairs)
  BY DEF PairsInStep
<1>3. 2 * i \in 1..Len(kids)
  BY <1>1, <1>2
<1>4. 2 * i - 1 \in 1..Len(kids) - 1
  BY <1>1, <1>2
<1>5. /\ h \in Seq(Pointer) /\ Len(h) = Len(kids) - 1
      /\ \A j \in 1..Len(kids) - 1 : h[j] = IF j < 2 * i THEN kids[j] ELSE kids[j + 1]
  BY <1>3, RemoveAtIs
<1> HIDE DEF h
<1>6. /\ k \in Seq(Pointer) /\ Len(k) = Len(h) - 1
      /\ \A j \in 1..Len(h) - 1 : k[j] = IF j < 2 * i - 1 THEN h[j] ELSE h[j + 1]
  <2>1. h \in Seq(Pointer)
    BY <1>5
  <2>2. 2 * i - 1 \in 1..Len(h)
    BY <1>4, <1>5
  <2> QED
    BY <2>1, <2>2, RemoveAtIs
<1> HIDE DEF k
<1>7. /\ r \in Seq(Pair) /\ Len(r) = Len(pairs) - 1 /\ DOMAIN r = 1..Len(pairs) - 1
      /\ \A j \in 1..Len(pairs) - 1 : r[j] = IF j < i THEN pairs[j] ELSE pairs[j + 1]
  BY RemoveAtIs
<1> HIDE DEF r
<1>8. ASSUME NEW j \in 1..Len(kids) - 2 PROVE k[j] = IF j < 2 * i - 1 THEN kids[j] ELSE kids[j + 2]
  <2>1. j \in 1..Len(h) - 1 /\ j \in 1..Len(kids) - 1 /\ j + 1 \in 1..Len(kids) - 1
    BY <1>1, <1>5
  <2>2. CASE j < 2 * i - 1
    <3>1. j < 2 * i
      BY <1>1, <2>2
    <3> QED
      BY <1>5, <1>6, <2>1, <2>2, <3>1
  <2>3. CASE ~(j < 2 * i - 1)
    <3>1. ~(j + 1 < 2 * i) /\ j + 1 + 1 = j + 2
      BY <1>1, <2>3
    <3> QED
      BY <1>5, <1>6, <2>1, <2>3, <3>1
  <2> QED
    BY <2>2, <2>3
<1>9. Len(k) = 2 * Len(r)
  BY <1>1, <1>2, <1>5, <1>6, <1>7
<1>10. ASSUME NEW j \in DOMAIN r PROVE r[j] = <<k[2 * j - 1], k[2 * j]>>
  <2>1. 2 * j - 1 \in 1..Len(kids) - 2 /\ 2 * j \in 1..Len(kids) - 2
    BY <1>1, <1>2, <1>7
  <2>2. CASE j < i
    <3>1. 2 * j - 1 < 2 * i - 1 /\ 2 * j < 2 * i - 1 /\ j \in 1..Len(pairs)
      BY <1>1, <1>7, <2>2
    <3>2. pairs[j] = <<kids[2 * j - 1], kids[2 * j]>>
      BY <1>1, <3>1 DEF PairsInStep
    <3>3. k[2 * j - 1] = kids[2 * j - 1] /\ k[2 * j] = kids[2 * j]
      BY <1>8, <2>1, <3>1
    <3> QED
      BY <1>7, <2>2, <3>2, <3>3
  <2>3. CASE ~(j < i)
    <3>1. ~(2 * j - 1 < 2 * i - 1) /\ ~(2 * j < 2 * i - 1) /\ j + 1 \in 1..Len(pairs)
      BY <1>1, <1>7, <2>3
    <3>2. pairs[j + 1] = <<kids[2 * (j + 1) - 1], kids[2 * (j + 1)]>>
      BY <1>1, <3>1 DEF PairsInStep
    <3>3. 2 * (j + 1) - 1 = 2 * j - 1 + 2 /\ 2 * (j + 1) = 2 * j + 2
      BY <1>1, <1>7
    <3>4. k[2 * j - 1] = kids[2 * j - 1 + 2] /\ k[2 * j] = kids[2 * j + 2]
      BY <1>8, <2>1, <3>1
    <3> QED
      BY <1>7, <2>3, <3>2, <3>3, <3>4
  <2> QED
    BY <2>2, <2>3
<1> QED
  BY <1>3, <1>4, <1>7, <1>9, <1>10 DEF PairsInStep, h, k, r
-----------------------------------------------------------------------------
(***************************************************************************)
(* What the operations do to members and children.                         *)
(***************************************************************************)

\* A record of the members of an object and no other.
IsObject(o) ==
    o = [class |-> o.class, kids |-> o.kids, slot |-> o.slot, list |-> o.list, pairs |-> o.pairs,
         text |-> o.text, code |-> o.code, attr |-> o.attr, adopted |-> o.adopted, dom |-> o.dom]

\* The members and the children of one object are those of another.
Alike(r, o) ==
    /\ r.class = o.class /\ r.kids = o.kids /\ r.slot = o.slot /\ r.list = o.list
    /\ r.pairs = o.pairs /\ r.adopted = o.adopted

\* What the operations on children do to the members and the children.
SlotSet(r, o, p, m, child) ==
    /\ IsObject(r) /\ r.class = o.class
    /\ r.kids = [o.kids EXCEPT ![p] = child]
    /\ r.slot = [o.slot EXCEPT ![m] = child]
    /\ r.list = o.list /\ r.pairs = o.pairs
    /\ r.adopted = (o.adopted \ {o.slot[m]}) \cup ({child} \ {Null})

PushedBack(r, o, m, child) ==
    /\ IsObject(r) /\ r.class = o.class
    /\ r.kids = Append(o.kids, child) /\ r.slot = o.slot
    /\ r.list = [o.list EXCEPT ![m] = Append(@, child)]
    /\ r.pairs = o.pairs /\ r.adopted = o.adopted \cup {child}

PairPushed(r, o, pair) ==
    /\ IsObject(r) /\ r.class = o.class
    /\ r.kids = o.kids \o pair /\ r.slot = o.slot /\ r.list = o.list
    /\ r.pairs = Append(o.pairs, pair)
    /\ r.adopted = o.adopted \cup (ToSet(pair) \ {Null})

Erased(r, o, p, m, i) ==
    /\ IsObject(r) /\ r.class = o.class
    /\ r.kids = RemoveAt(o.kids, p) /\ r.slot = o.slot
    /\ r.list = [o.list EXCEPT ![m] = RemoveAt(@, i)]
    /\ r.pairs = o.pairs /\ r.adopted = o.adopted \ {o.list[m][i]}

PairErased(r, o, p, i) ==
    /\ IsObject(r) /\ r.class = o.class
    /\ r.kids = RemoveAt(RemoveAt(o.kids, p + 1), p)
    /\ r.slot = o.slot /\ r.list = o.list
    /\ r.pairs = RemoveAt(o.pairs, i)
    /\ r.adopted = o.adopted \ ToSet(o.pairs[i])

\* The place removeChild() finds, and that of the first of a pair.
FirstPlace(o, child) ==
    CHOOSE p \in DOMAIN o.kids : o.kids[p] = child /\ \A q \in 1..p - 1 : o.kids[q] # child
PairPlace(o, i) == CHOOSE n \in DOMAIN o.kids : n % 2 = 1 /\ o.kids[n] = o.pairs[i][1]

LEMMA SetSlotIs ==
    ASSUME NEW o, IsObject(o), NEW m, NEW child
    PROVE  SlotSet(SetSlot(o, m, child), o, Place(o, m), m, child)
<1> DEFINE p == Place(o, m)
<1>1. SetSlot(o, m, child) = [o EXCEPT !.slot[m] = child, !.kids[p] = child,
                                       !.adopted = (@ \ {o.slot[m]}) \cup ({child} \ {Null}),
                                       !.dom = FALSE]
  BY DEF SetSlot
<1> HIDE DEF p
<1>2. SlotSet(SetSlot(o, m, child), o, p, m, child)
  BY <1>1 DEF IsObject, SlotSet
<1> QED
  BY <1>2 DEF p

LEMMA PushBackIs ==
    ASSUME NEW o, IsObject(o), NEW m, NEW child
    PROVE  PushedBack(PushBack(o, m, child), o, m, child)
<1>1. PushBack(o, m, child) = [o EXCEPT !.list[m] = Append(@, child), !.kids = Append(@, child),
                                        !.adopted = @ \cup {child}, !.dom = FALSE]
  BY DEF PushBack
<1> QED
  BY <1>1 DEF IsObject, PushedBack

LEMMA PushPairIs ==
    ASSUME NEW o, IsObject(o), NEW pair
    PROVE  PairPushed(PushPair(o, pair), o, pair)
<1>1. PushPair(o, pair) = [o EXCEPT !.pairs = Append(@, pair), !.kids = @ \o pair,
                                    !.adopted = @ \cup (ToSet(pair) \ {Null}), !.dom = FALSE]
  BY DEF PushPair
<1> QED
  BY <1>1 DEF IsObject, PairPushed

LEMMA EraseIs ==
    ASSUME NEW o, IsObject(o), NEW m, NEW i
    PROVE  Erased(Erase(o, m, i), o, FirstPlace(o, o.list[m][i]), m, i)
<1> DEFINE p == FirstPlace(o, o.list[m][i])
<1>1. Erase(o, m, i) = [o EXCEPT !.list[m] = RemoveAt(@, i), !.kids = RemoveAt(@, p),
                                 !.adopted = @ \ {o.list[m][i]}, !.dom = FALSE]
  BY DEF Erase, FirstPlace
<1> HIDE DEF p
<1>2. Erased(Erase(o, m, i), o, p, m, i)
  BY <1>1 DEF IsObject, Erased
<1> QED
  BY <1>2 DEF p

LEMMA ErasePairIs ==
    ASSUME NEW o, IsObject(o), NEW i
    PROVE  PairErased(ErasePair(o, i), o, PairPlace(o, i), i)
<1> DEFINE p == PairPlace(o, i)
<1>1. ErasePair(o, i) = [o EXCEPT !.pairs = RemoveAt(@, i),
                                  !.kids = RemoveAt(RemoveAt(@, p + 1), p),
                                  !.adopted = @ \ ToSet(o.pairs[i]), !.dom = FALSE]
  BY DEF ErasePair, PairPlace
<1> HIDE DEF p
<1>2. PairErased(ErasePair(o, i), o, p, i)
  BY <1>1 DEF IsObject, PairErased
<1> QED
  BY <1>2 DEF p

LEMMA SetTextIs ==
    ASSUME NEW o, IsObject(o), NEW t, NEW p
    PROVE  IsObject(SetText(o, t, p)) /\ Alike(SetText(o, t, p), o)
<1>1. \E text, d : SetText(o, t, p) = [o EXCEPT !.text = text, !.dom = d]
  BY DEF SetText
<1> QED
  BY <1>1 DEF IsObject, Alike

LEMMA SetAttributeIs ==
    ASSUME NEW o, IsObject(o), NEW a, NEW v
    PROVE  IsObject(SetAttribute(o, a, v)) /\ Alike(SetAttribute(o, a, v), o)
<1>1. \E d : SetAttribute(o, a, v) = [o EXCEPT !.attr[a] = v, !.dom = d]
  BY DEF SetAttribute
<1> QED
  BY <1>1 DEF IsObject, Alike

LEMMA SetCodeIs ==
    ASSUME NEW o, IsObject(o), NEW code
    PROVE  IsObject(SetCode(o, code)) /\ Alike(SetCode(o, code), o)
<1> DEFINE s == SetText(o, IF code = Null THEN <<>> ELSE code, 0)
<1>1. IsObject(s) /\ Alike(s, o)
  BY SetTextIs
<1>2. SetCode(o, code) = [s EXCEPT !.code = code, !.dom = @ /\ o.code = Null /\ code = Null]
  BY DEF SetCode
<1> HIDE DEF s
<1> QED
  BY <1>1, <1>2 DEF IsObject, Alike

LEMMA DomIs ==
    ASSUME NEW o, IsObject(o), NEW d, NEW code
    PROVE  /\ IsObject([o EXCEPT !.dom = d]) /\ Alike([o EXCEPT !.dom = d], o)
           /\ IsObject([o EXCEPT !.code = code, !.dom = d])
           /\ Alike([o EXCEPT !.code = code, !.dom = d], o)
<1>1. ASSUME NEW r, r = [o EXCEPT !.dom = d] \/ r = [o EXCEPT !.code = code, !.dom = d]
      PROVE  IsObject(r) /\ Alike(r, o)
  BY <1>1 DEF IsObject, Alike
<1> QED
  BY <1>1
-----------------------------------------------------------------------------
(***************************************************************************)
(* Each operation keeps them in step.                                      *)
(***************************************************************************)

\* The single children, in their places.
SlotsSound(slots, kids, slot) ==
    /\ slot \in [ToSet(slots) -> Pointer]
    /\ Len(kids) >= Len(slots)
    /\ \A i \in DOMAIN slots : kids[i] = slot[slots[i]]

\* The object as InStep has it, with identities up to n.
Sound(o, n) ==
    /\ IsObject(o) /\ Well(o.class)
    /\ KidsSound(o.kids, o.adopted, n)
    /\ SlotsSound(o.class.slots, o.kids, o.slot)
    /\ IF o.class.pairs
       THEN o.pairs \in Seq(Pair) /\ PairsInStep(o.kids, o.pairs)
       ELSE /\ o.pairs = <<>> /\ o.list \in [o.class.lists -> Seq(Kid)]
            /\ ListsInStep(o.kids, Len(o.class.slots), o.list)

LEMMA AlikeSound ==
    ASSUME NEW o, NEW n, Sound(o, n), NEW r, IsObject(r), Alike(r, o)
    PROVE  Sound(r, n)
BY DEF Sound, Alike

LEMMA WellFacts ==
    ASSUME NEW c, Well(c)
    PROVE  /\ c.slots \in Seq(Tag) /\ DOMAIN c.slots = 1..Len(c.slots) /\ Len(c.slots) \in Nat
           /\ Distinct(c.slots) /\ c.lists \in SUBSET Tag /\ ToSet(c.slots) \in SUBSET Tag
           /\ c.pairs \in BOOLEAN
           /\ c.pairs => c.slots = <<>> /\ ToSet(c.slots) = {} /\ c.lists = {}
<1>1. c.slots \in Seq(Tag) /\ c.lists \in SUBSET Tag /\ c.pairs \in BOOLEAN
  BY DEF Well, ElementClass
<1>2. DOMAIN c.slots = 1..Len(c.slots) /\ Len(c.slots) \in Nat
  BY <1>1
<1>3. ToSet(c.slots) \in SUBSET Tag
  BY <1>1, ToSetIs
<1>4. Distinct(c.slots) /\ (c.pairs => c.slots = <<>> /\ c.lists = {})
  BY DEF Well, HasPairs
<1> QED
  BY <1>1, <1>2, <1>3, <1>4, ToSetEmpty

LEMMA OlderKids ==
    ASSUME NEW o, NEW n \in Nat, Sound(o, n), NEW child \in Kid, n < child.id
    PROVE  \A p \in DOMAIN o.kids : o.kids[p] # child
<1>1. o.kids \in Seq(Pointer) /\ \A p \in DOMAIN o.kids : o.kids[p] # Null => o.kids[p].id <= n
  BY DEF Sound, KidsSound
<1>2. \A p \in DOMAIN o.kids : o.kids[p] # Null => o.kids[p].id \in Nat
  BY <1>1 DEF Pointer, Kid
<1>3. child.id \in Nat /\ child # Null
  BY ElementsAssumption DEF Kid
<1> QED
  BY <1>1, <1>2, <1>3

\* The setter of a single child.
LEMMA SetSlotSound ==
    ASSUME NEW o, NEW n \in Nat, NEW k \in Nat, n <= k, Sound(o, n),
           NEW m \in ToSet(o.class.slots), NEW child \in Pointer, IsNew(child, n, k)
    PROVE  Sound(SetSlot(o, m, child), k)
<1> DEFINE r == SetSlot(o, m, child)
           c == o.class
           p == Place(o, m)
<1>1. Well(c) /\ IsObject(o) /\ ~c.pairs
  BY WellFacts DEF Sound
<1>2. p \in DOMAIN c.slots /\ c.slots[p] = m
  BY DEF Place, ToSet
<1>3. /\ IsObject(r) /\ r.class = c
      /\ r.kids = [o.kids EXCEPT ![p] = child] /\ r.slot = [o.slot EXCEPT ![m] = child]
      /\ r.list = o.list /\ r.pairs = o.pairs
      /\ r.adopted = (o.adopted \ {o.slot[m]}) \cup ({child} \ {Null})
  <2>1. SlotSet(r, o, p, m, child)
    BY <1>1, SetSlotIs
  <2> HIDE DEF r, p
  <2> QED
    BY <2>1 DEF SlotSet
<1>4. /\ c.slots \in Seq(Tag) /\ DOMAIN c.slots = 1..Len(c.slots) /\ Len(c.slots) \in Nat
      /\ Distinct(c.slots)
  BY <1>1, WellFacts
<1>5. /\ o.slot \in [ToSet(c.slots) -> Pointer] /\ Len(o.kids) >= Len(c.slots)
      /\ \A i \in DOMAIN c.slots : o.kids[i] = o.slot[c.slots[i]]
  BY DEF Sound, SlotsSound
<1>6. KidsSound(o.kids, o.adopted, n)
  BY DEF Sound
<1>7. o.kids \in Seq(Pointer) /\ Len(o.kids) \in Nat
  BY <1>6 DEF KidsSound
<1> HIDE DEF r, c, p
<1>8. p \in 1..Len(o.kids) /\ o.slot[m] = o.kids[p]
  <2>1. p \in 1..Len(c.slots) /\ o.kids[p] = o.slot[c.slots[p]]
    BY <1>2, <1>4, <1>5
  <2>2. p \in 1..Len(o.kids)
    <3>1. Len(o.kids) >= Len(c.slots) /\ Len(c.slots) \in Nat /\ Len(o.kids) \in Nat
      BY <1>4, <1>5, <1>7
    <3> QED
      BY <2>1, <3>1
  <2> QED
    BY <1>2, <2>1, <2>2
<1>9. KidsSound(r.kids, r.adopted, k)
  BY <1>3, <1>6, <1>8, KidsReplaced
<1>10. Len(r.kids) = Len(o.kids) /\ \A i \in 1..Len(o.kids) :
          r.kids[i] = IF i = p THEN child ELSE o.kids[i]
  BY <1>3, <1>7, <1>8, ExceptSeq
<1>11. SlotsSound(c.slots, r.kids, r.slot)
  <2>1. m \in ToSet(c.slots)
    BY DEF c
  <2>2. r.slot \in [ToSet(c.slots) -> Pointer]
    BY <1>3, <1>5, <2>1
  <2>3. ASSUME NEW i \in DOMAIN c.slots PROVE r.kids[i] = r.slot[c.slots[i]]
    <3>1. i \in 1..Len(o.kids)
      <4>1. Len(o.kids) >= Len(c.slots) /\ Len(c.slots) \in Nat /\ Len(o.kids) \in Nat
        BY <1>4, <1>5, <1>7
      <4>2. i \in 1..Len(c.slots)
        BY <1>4
      <4> QED
        BY <4>1, <4>2
    <3>2. c.slots[i] \in ToSet(c.slots)
      BY DEF ToSet
    <3>3. CASE i = p
      BY <1>2, <1>3, <1>5, <1>10, <2>1, <3>1, <3>3
    <3>4. CASE i # p
      <4>1. c.slots[i] # m
        BY <1>2, <1>4, <3>4 DEF Distinct
      <4> QED
        BY <1>3, <1>5, <1>10, <3>1, <3>2, <3>4, <4>1
    <3> QED
      BY <3>3, <3>4
  <2> QED
    BY <1>5, <1>10, <2>2, <2>3 DEF SlotsSound
<1>12. ListsInStep(r.kids, Len(c.slots), o.list)
  <2>1. ListsInStep(o.kids, Len(c.slots), o.list)
    BY <1>1 DEF Sound, c
  <2>2. \A q \in Len(c.slots) + 1..Len(o.kids) : r.kids[q] = o.kids[q]
    BY <1>2, <1>4, <1>7, <1>10
  <2> QED
    BY <1>10, <2>1, <2>2, ListsKept
<1>13. r.pairs = <<>> /\ r.list \in [c.lists -> Seq(Kid)]
  BY <1>1, <1>3 DEF Sound, c
<1>14. Sound(r, k)
  BY <1>1, <1>3, <1>9, <1>11, <1>12, <1>13 DEF Sound
<1> QED
  BY <1>14 DEF r

\* push_back() on a list.
LEMMA PushBackSound ==
    ASSUME NEW o, NEW n \in Nat, NEW k \in Nat, n <= k, Sound(o, n),
           NEW m \in o.class.lists, NEW child \in Kid, IsNew(child, n, k)
    PROVE  Sound(PushBack(o, m, child), k)
<1> DEFINE r == PushBack(o, m, child)
           c == o.class
<1>1. Well(c) /\ IsObject(o) /\ ~c.pairs
  BY WellFacts DEF Sound
<1>2. child \in Pointer /\ child # Null
  BY ElementsAssumption DEF Pointer
<1>3. /\ IsObject(r) /\ r.class = c
      /\ r.kids = Append(o.kids, child) /\ r.slot = o.slot
      /\ r.list = [o.list EXCEPT ![m] = Append(@, child)]
      /\ r.pairs = o.pairs /\ r.adopted = o.adopted \cup {child}
  <2>1. PushedBack(r, o, m, child)
    BY <1>1, PushBackIs
  <2> HIDE DEF r
  <2> QED
    BY <2>1 DEF PushedBack
<1>4. c.slots \in Seq(Tag) /\ DOMAIN c.slots = 1..Len(c.slots) /\ Len(c.slots) \in Nat
  BY <1>1, WellFacts
<1>5. /\ o.slot \in [ToSet(c.slots) -> Pointer] /\ Len(o.kids) >= Len(c.slots)
      /\ \A i \in DOMAIN c.slots : o.kids[i] = o.slot[c.slots[i]]
  BY DEF Sound, SlotsSound
<1>6. KidsSound(o.kids, o.adopted, n)
  BY DEF Sound
<1>7. o.kids \in Seq(Pointer)
  BY <1>6 DEF KidsSound
<1>15. Len(o.kids) \in Nat
  BY <1>7
<1>16. m \in c.lists
  OBVIOUS
<1>17. /\ o.pairs = <<>> /\ o.list \in [c.lists -> Seq(Kid)]
       /\ ListsInStep(o.kids, Len(c.slots), o.list)
  BY <1>1 DEF Sound
<1> HIDE DEF r, c
<1>8. \A p \in DOMAIN o.kids : o.kids[p] # child
  BY <1>2, OlderKids DEF IsNew
<1>9. KidsSound(r.kids, r.adopted, k)
  <2>1. KidsSound(Append(o.kids, child), o.adopted \cup ({child} \ {Null}), k)
    BY <1>2, <1>6, KidsAdded
  <2>2. {child} \ {Null} = {child}
    BY <1>2
  <2> QED
    BY <1>3, <2>1, <2>2
<1>10. /\ Len(r.kids) = Len(o.kids) + 1
       /\ \A i \in 1..Len(o.kids) : r.kids[i] = o.kids[i]
  <2>1. child \in Pointer
    BY <1>2
  <2>2. /\ Len(Append(o.kids, child)) = Len(o.kids) + 1
        /\ \A i \in 1..Len(o.kids) : Append(o.kids, child)[i] = o.kids[i]
    BY <1>7, <2>1, AppendProperties
  <2> QED
    BY <1>3, <2>2
<1>11. SlotsSound(c.slots, r.kids, r.slot)
  BY <1>3, <1>4, <1>5, <1>10, <1>15 DEF SlotsSound
<1>12. /\ [o.list EXCEPT ![m] = Append(@, child)] \in [c.lists -> Seq(Kid)]
       /\ ListsInStep(Append(o.kids, child), Len(c.slots), [o.list EXCEPT ![m] = Append(@, child)])
  BY <1>4, <1>5, <1>7, <1>8, <1>15, <1>16, <1>17, ListsAdded
<1>14. Sound(r, k)
  BY <1>1, <1>3, <1>9, <1>11, <1>12, <1>17 DEF Sound
<1> QED
  BY <1>14 DEF r

\* A child that is there has one place, and FirstPlace finds it.
LEMMA FirstPlaceIs ==
    ASSUME NEW o, NEW child, NEW p \in 1..Len(o.kids), o.kids \in Seq(Pointer), Once(o.kids),
           child # Null, o.kids[p] = child
    PROVE  FirstPlace(o, child) = p
<1>1. DOMAIN o.kids = 1..Len(o.kids) /\ Len(o.kids) \in Nat
  OBVIOUS
<1>2. \A q \in DOMAIN o.kids : o.kids[q] = child => q = p
  BY <1>1 DEF Once
<1>3. \A q \in 1..p - 1 : o.kids[q] # child
  <2>1. \A q \in 1..p - 1 : q \in DOMAIN o.kids /\ q # p
    BY <1>1
  <2> QED
    BY <1>2, <2>1
<1>4. p \in DOMAIN o.kids /\ o.kids[p] = child /\ \A q \in 1..p - 1 : o.kids[q] # child
  BY <1>1, <1>3
<1>5. FirstPlace(o, child) \in DOMAIN o.kids /\ o.kids[FirstPlace(o, child)] = child
  BY <1>4 DEF FirstPlace
<1> QED
  BY <1>2, <1>5

\* erase() on a list.
LEMMA EraseSound ==
    ASSUME NEW o, NEW n \in Nat, Sound(o, n),
           NEW m \in o.class.lists, NEW i \in DOMAIN o.list[m]
    PROVE  Sound(Erase(o, m, i), n)
<1> DEFINE r == Erase(o, m, i)
           c == o.class
           child == o.list[m][i]
           size == Len(c.slots)
<1>1. Well(c) /\ IsObject(o) /\ ~c.pairs
  BY WellFacts DEF Sound
<1>2. c.slots \in Seq(Tag) /\ DOMAIN c.slots = 1..Len(c.slots) /\ Len(c.slots) \in Nat
  BY <1>1, WellFacts
<1>3. SlotsSound(c.slots, o.kids, o.slot)
  BY DEF Sound
<1>4. KidsSound(o.kids, o.adopted, n)
  BY DEF Sound
<1>5. o.kids \in Seq(Pointer) /\ Once(o.kids)
  BY <1>4 DEF KidsSound
<1>6. Len(o.kids) \in Nat
  BY <1>5
<1>7. /\ o.pairs = <<>> /\ o.list \in [c.lists -> Seq(Kid)]
      /\ ListsInStep(o.kids, size, o.list)
  BY <1>1 DEF Sound
<1>8. m \in c.lists /\ i \in DOMAIN o.list[m]
  OBVIOUS
<1>9. child \in Kid /\ child # Null
  BY <1>7, ElementsAssumption
<1>10. PICK p \in size + 1..Len(o.kids) : o.kids[p] = child
  <2>1. Same(o.kids, size, o.list) /\ DOMAIN o.list = c.lists
    BY <1>7, ListsInStepIs
  <2> QED
    BY <1>8, <2>1 DEF Same
<1>11. p \in 1..Len(o.kids) /\ size <= Len(o.kids)
  BY <1>2, <1>3, <1>6 DEF SlotsSound
<1>12. FirstPlace(o, child) = p
  BY <1>5, <1>9, <1>10, <1>11, FirstPlaceIs
<1>13. Erased(r, o, p, m, i)
  BY <1>1, <1>12, EraseIs
<1> HIDE DEF r, c
<1>14. /\ IsObject(r) /\ r.class = c
       /\ r.kids = RemoveAt(o.kids, p) /\ r.slot = o.slot
       /\ r.list = [o.list EXCEPT ![m] = RemoveAt(@, i)]
       /\ r.pairs = o.pairs /\ r.adopted = o.adopted \ {o.kids[p]}
  BY <1>10, <1>13 DEF Erased, c
<1>15. KidsSound(r.kids, r.adopted, n)
  BY <1>4, <1>11, <1>14, KidsRemoved
<1> HIDE DEF size, child
<1>16. /\ r.list \in [c.lists -> Seq(Kid)]
       /\ ListsInStep(r.kids, size, r.list)
  <2>1. size \in Nat
    BY <1>2 DEF size
  <2>2. o.kids[p] = o.list[m][i]
    BY <1>10 DEF child
  <2>3. /\ o.kids \in Seq(Pointer) /\ Once(o.kids) /\ size <= Len(o.kids)
        /\ o.list \in [c.lists -> Seq(Kid)] /\ ListsInStep(o.kids, size, o.list)
        /\ m \in c.lists /\ i \in DOMAIN o.list[m]
    BY <1>5, <1>7, <1>8, <1>11 DEF c
  <2>4. /\ [o.list EXCEPT ![m] = RemoveAt(@, i)] \in [c.lists -> Seq(Kid)]
        /\ ListsInStep(RemoveAt(o.kids, p), size, [o.list EXCEPT ![m] = RemoveAt(@, i)])
    BY <2>1, <2>2, <2>3, ListsRemoved
  <2> QED
    BY <1>14, <2>4
<1>17. SlotsSound(c.slots, r.kids, r.slot)
  <2>1. /\ Len(RemoveAt(o.kids, p)) = Len(o.kids) - 1
        /\ \A j \in 1..Len(o.kids) - 1 :
              RemoveAt(o.kids, p)[j] = IF j < p THEN o.kids[j] ELSE o.kids[j + 1]
    <3>1. o.kids \in Seq(Pointer)
      BY <1>5
    <3> QED
      BY <1>11, <3>1, RemoveAtIs
  <2>3. size \in Nat /\ DOMAIN c.slots = 1..size
    BY <1>2 DEF size
  <2>6. p \in size + 1..Len(o.kids)
    OBVIOUS
  <2>4. Len(r.kids) = Len(o.kids) - 1
    BY <1>14, <2>1
  <2>5. Len(r.kids) >= size /\ \A j \in 1..size : j \in 1..Len(o.kids) - 1 /\ j < p
    BY <1>6, <2>3, <2>4, <2>6
  <2>2. Len(r.kids) >= Len(c.slots) /\ \A j \in DOMAIN c.slots : j \in 1..Len(o.kids) - 1 /\ j < p
    BY <2>3, <2>5 DEF size
  <2> QED
    BY <1>3, <1>14, <2>1, <2>2 DEF SlotsSound
<1>18. Sound(r, n)
  BY <1>1, <1>7, <1>14, <1>15, <1>16, <1>17 DEF Sound, size
<1> QED
  BY <1>18 DEF r

\* A class of pairs has no slots.
LEMMA PairFacts ==
    ASSUME NEW o, NEW n, Sound(o, n), o.class.pairs
    PROVE  /\ o.class.slots = <<>> /\ ToSet(o.class.slots) = {}
           /\ o.kids \in Seq(Pointer) /\ Len(o.kids) \in Nat
           /\ o.pairs \in Seq(Pair) /\ Len(o.pairs) \in Nat /\ DOMAIN o.pairs = 1..Len(o.pairs)
           /\ PairsInStep(o.kids, o.pairs) /\ Once(o.kids) /\ KidsSound(o.kids, o.adopted, n)
           /\ IsObject(o) /\ Well(o.class)
           /\ \A kids \in Seq(Pointer) : SlotsSound(o.class.slots, kids, o.slot)
<1>1. o.class.slots = <<>> /\ ToSet(o.class.slots) = {}
  BY WellFacts DEF Sound
<1>2. o.kids \in Seq(Pointer) /\ o.pairs \in Seq(Pair)
  BY DEF Sound, KidsSound
<1>3. Len(o.kids) \in Nat /\ Len(o.pairs) \in Nat /\ DOMAIN o.pairs = 1..Len(o.pairs)
  BY <1>2
<1>4. ASSUME NEW kids \in Seq(Pointer) PROVE SlotsSound(o.class.slots, kids, o.slot)
  <2>1. Len(kids) \in Nat
    OBVIOUS
  <2>2. Len(o.class.slots) = 0 /\ \A i \in DOMAIN o.class.slots : FALSE
    <3>1. Len(o.class.slots) = 0
      BY <1>1
    <3>2. DOMAIN o.class.slots = 1..Len(o.class.slots)
      BY WellFacts DEF Sound
    <3> QED
      BY <3>1, <3>2
  <2>3. o.slot \in [ToSet(o.class.slots) -> Pointer]
    BY DEF Sound, SlotsSound
  <2> QED
    BY <2>1, <2>2, <2>3 DEF SlotsSound
<1> QED
  BY <1>1, <1>2, <1>3, <1>4 DEF Sound, KidsSound

\* XMLObjectPairList::push_back()
LEMMA PushPairSound ==
    ASSUME NEW o, NEW n \in Nat, NEW j \in Nat, NEW k \in Nat, n <= j, j <= k, Sound(o, n),
    o.class.pairs,
           NEW a \in Kid, NEW b \in Pointer, IsNew(a, n, j), IsNew(b, j, k)
    PROVE  Sound(PushPair(o, <<a, b>>), k)
<1> DEFINE r == PushPair(o, <<a, b>>)
           c == o.class
           w == <<a, b>>
<1>1. /\ o.kids \in Seq(Pointer) /\ o.pairs \in Seq(Pair) /\ PairsInStep(o.kids, o.pairs)
      /\ KidsSound(o.kids, o.adopted, n) /\ IsObject(o) /\ Well(c)
      /\ \A kids \in Seq(Pointer) : SlotsSound(c.slots, kids, o.slot)
  BY PairFacts
<1>2. a \in Pointer /\ a # Null
  BY ElementsAssumption DEF Pointer
<1>3. PairPushed(r, o, w)
  BY <1>1, PushPairIs
<1>4. ToSet(w) = {a, b}
  <2>1. DOMAIN w = 1..2 /\ w[1] = a /\ w[2] = b
    OBVIOUS
  <2> HIDE DEF w
  <2>2. 1..2 = {1, 2}
    OBVIOUS
  <2> QED
    BY <2>1, <2>2 DEF ToSet
<1> HIDE DEF r
<1>5. /\ IsObject(r) /\ r.class = c /\ r.kids = o.kids \o w /\ r.slot = o.slot
      /\ r.pairs = Append(o.pairs, w) /\ r.adopted = o.adopted \cup ({a, b} \ {Null})
  BY <1>3, <1>4 DEF PairPushed
<1>6. o.kids \o w = Append(Append(o.kids, a), b)
  <2>1. o.kids \in Seq(Pointer) /\ a \in Pointer
    BY <1>1, <1>2
  <2> HIDE DEF w
  <2>2. o.kids \o <<a, b>> = Append(Append(o.kids, a), b)
    BY <2>1, TwoAppended
  <2> QED
    BY <2>2 DEF w
<1>7. KidsSound(Append(o.kids, a), o.adopted \cup ({a} \ {Null}), j)
  BY <1>1, <1>2, KidsAdded
<1>8. KidsSound(Append(Append(o.kids, a), b),
                o.adopted \cup ({a} \ {Null}) \cup ({b} \ {Null}), k)
  BY <1>7, KidsAdded
<1>9. KidsSound(r.kids, r.adopted, k)
  <2>1. o.adopted \cup ({a} \ {Null}) \cup ({b} \ {Null}) = o.adopted \cup ({a, b} \ {Null})
    OBVIOUS
  <2> QED
    BY <1>5, <1>6, <1>8, <2>1
<1>10. r.pairs \in Seq(Pair) /\ PairsInStep(r.kids, r.pairs)
  BY <1>1, <1>5, PairsAdded
<1>11. SlotsSound(c.slots, r.kids, r.slot)
  BY <1>1, <1>5, <1>9 DEF KidsSound
<1>12. Sound(r, k)
  BY <1>1, <1>5, <1>9, <1>10, <1>11 DEF Sound
<1> QED
  BY <1>12 DEF r

\* XMLObjectPairList::erase()
LEMMA ErasePairSound ==
    ASSUME NEW o, NEW n \in Nat, Sound(o, n), o.class.pairs, NEW i \in DOMAIN o.pairs
    PROVE  Sound(ErasePair(o, i), n)
<1> DEFINE r == ErasePair(o, i)
           c == o.class
           p == PairPlace(o, i)
<1>1. /\ o.kids \in Seq(Pointer) /\ o.pairs \in Seq(Pair) /\ PairsInStep(o.kids, o.pairs)
      /\ KidsSound(o.kids, o.adopted, n) /\ IsObject(o) /\ Well(c) /\ Once(o.kids)
      /\ \A kids \in Seq(Pointer) : SlotsSound(c.slots, kids, o.slot)
      /\ Len(o.kids) \in Nat /\ Len(o.pairs) \in Nat /\ i \in 1..Len(o.pairs)
  BY PairFacts
<1>2. DOMAIN o.kids = 1..Len(o.kids)
  BY <1>1
<1>3. /\ RemoveAt(o.pairs, i) \in Seq(Pair)
      /\ 2 * i \in 1..Len(o.kids) /\ 2 * i - 1 \in 1..Len(o.kids) - 1
      /\ PairsInStep(RemoveAt(RemoveAt(o.kids, 2 * i), 2 * i - 1), RemoveAt(o.pairs, i))
  BY <1>1, PairsRemoved
<1>4. 2 * i - 1 \in DOMAIN o.kids /\ (2 * i - 1) % 2 = 1 /\ 2 * i - 1 + 1 = 2 * i
  BY <1>1, <1>2, <1>3
<1>5. /\ o.pairs[i] = <<o.kids[2 * i - 1], o.kids[2 * i]>> /\ o.pairs[i] \in Pair
      /\ o.pairs[i][1] = o.kids[2 * i - 1] /\ o.pairs[i][1] # Null
  <2>1. o.pairs[i] = <<o.kids[2 * i - 1], o.kids[2 * i]>>
    BY <1>1 DEF PairsInStep
  <2>2. o.pairs[i] \in Pair
    BY <1>1
  <2>3. o.pairs[i][1] \in Kid
    BY <2>2 DEF Pair
  <2> QED
    BY <2>1, <2>2, <2>3, ElementsAssumption
<1>6. p = 2 * i - 1
  <2>1. p \in DOMAIN o.kids /\ p % 2 = 1 /\ o.kids[p] = o.pairs[i][1]
    BY <1>4, <1>5 DEF PairPlace
  <2> QED
    BY <1>1, <1>4, <1>5, <2>1 DEF Once
<1>7. PairErased(r, o, p, i)
  BY <1>1, ErasePairIs
<1>8. ToSet(o.pairs[i]) = {o.kids[2 * i - 1], o.kids[2 * i]}
  <2> DEFINE a == o.kids[2 * i - 1]
             b == o.kids[2 * i]
             w == <<a, b>>
  <2>1. DOMAIN w = 1..2 /\ w[1] = a /\ w[2] = b
    OBVIOUS
  <2> HIDE DEF w
  <2>2. 1..2 = {1, 2}
    OBVIOUS
  <2>3. ToSet(w) = {a, b}
    BY <2>1, <2>2 DEF ToSet
  <2> QED
    BY <1>5, <2>3 DEF w
<1> HIDE DEF r, p
<1>9. /\ IsObject(r) /\ r.class = c
      /\ r.kids = RemoveAt(RemoveAt(o.kids, 2 * i), 2 * i - 1)
      /\ r.slot = o.slot /\ r.pairs = RemoveAt(o.pairs, i)
      /\ r.adopted = o.adopted \ {o.kids[2 * i - 1], o.kids[2 * i]}
  BY <1>4, <1>6, <1>7, <1>8 DEF PairErased
<1> DEFINE h == RemoveAt(o.kids, 2 * i)
<1>10. KidsSound(h, o.adopted \ {o.kids[2 * i]}, n)
  BY <1>1, <1>3, KidsRemoved
<1>11. Len(h) = Len(o.kids) - 1
       /\ \A q \in 1..Len(o.kids) - 1 : h[q] = IF q < 2 * i THEN o.kids[q] ELSE o.kids[q + 1]
  <2>1. o.kids \in Seq(Pointer)
    BY <1>1
  <2> QED
    BY <1>3, <2>1, RemoveAtIs
<1> HIDE DEF h
<1>12. 2 * i - 1 \in 1..Len(h) /\ h[2 * i - 1] = o.kids[2 * i - 1]
  <2>1. 2 * i - 1 < 2 * i
    BY <1>1
  <2> QED
    BY <1>3, <1>11, <2>1
<1>13. KidsSound(RemoveAt(h, 2 * i - 1), (o.adopted \ {o.kids[2 * i]}) \ {h[2 * i - 1]}, n)
  BY <1>10, <1>12, KidsRemoved
<1>14. KidsSound(r.kids, r.adopted, n)
  <2>1. (o.adopted \ {o.kids[2 * i]}) \ {o.kids[2 * i - 1]}
           = o.adopted \ {o.kids[2 * i - 1], o.kids[2 * i]}
    OBVIOUS
  <2> QED
    BY <1>9, <1>12, <1>13, <2>1 DEF h
<1>15. SlotsSound(c.slots, r.kids, r.slot)
  BY <1>1, <1>9, <1>14 DEF KidsSound
<1>16. Sound(r, n)
  BY <1>1, <1>3, <1>9, <1>14, <1>15 DEF Sound
<1> QED
  BY <1>16 DEF r
-----------------------------------------------------------------------------
(***************************************************************************)
(* So do the constructor and the handlers of unmarshall().                 *)
(***************************************************************************)

\* More identities are given.
LEMMA SoundLater ==
    ASSUME NEW o, NEW n \in Nat, NEW k \in Nat, n <= k, Sound(o, n)
    PROVE  Sound(o, k)
<1>1. KidsSound(o.kids, o.adopted, n)
  BY DEF Sound
<1>2. \A p \in DOMAIN o.kids : o.kids[p] # Null => o.kids[p].id \in Nat
  BY <1>1 DEF KidsSound, Pointer, Kid
<1>3. KidsSound(o.kids, o.adopted, k)
  BY <1>1, <1>2 DEF KidsSound
<1> QED
  BY <1>3 DEF Sound

\* The constructor and unmarshallAttributes().
LEMMA ReadAttributesSound ==
    ASSUME NEW c, Well(c), NEW A, A \subseteq c.attrsRead
    PROVE  Sound(ReadAttributes(c, A), 0) /\ ReadAttributes(c, A).class = c
<1> DEFINE r == ReadAttributes(c, A)
           kids == [i \in DOMAIN c.slots |-> Null]
           slot == [m \in ToSet(c.slots) |-> Null]
           list == [m \in c.lists |-> <<>>]
           size == Len(c.slots)
<1>1. \E attr : r = [class |-> c, kids |-> kids, slot |-> slot, list |-> list, pairs |-> <<>>,
                     text |-> <<>>, code |-> Null, attr |-> attr, adopted |-> {}, dom |-> FALSE]
  BY DEF ReadAttributes, Blank
<1>2. /\ c.slots \in Seq(Tag) /\ DOMAIN c.slots = 1..Len(c.slots) /\ Len(c.slots) \in Nat
      /\ ToSet(c.slots) \in SUBSET Tag /\ c.pairs \in BOOLEAN
      /\ c.pairs => c.slots = <<>>
  BY WellFacts
<1>3. Null \in Pointer
  BY DEF Pointer
<1>4. size \in Nat /\ kids \in [1..size -> Pointer] /\ DOMAIN kids = 1..size
      /\ \A i \in 1..size : kids[i] = Null
  BY <1>2, <1>3
<1>5. slot \in [ToSet(c.slots) -> Pointer] /\ \A m \in ToSet(c.slots) : slot[m] = Null
  BY <1>3
<1>6. <<>> \in Seq(Kid) /\ <<>> \in Seq(Pair) /\ DOMAIN <<>> = 1..0 /\ Len(<<>>) = 0
  OBVIOUS
<1>7. list \in [c.lists -> Seq(Kid)] /\ DOMAIN list = c.lists /\ \A m \in c.lists : list[m] = <<>>
  BY <1>6
<1>8. c.pairs => size = 0
  BY <1>2, <1>6
<1>9. \A i \in DOMAIN c.slots : i \in 1..size /\ c.slots[i] \in ToSet(c.slots)
  BY <1>2 DEF ToSet
<1> HIDE DEF r, kids, slot, list, size
<1>10. kids \in Seq(Pointer) /\ Len(kids) = size
  <2>1. kids \in Seq(Pointer)
    BY <1>4, SeqDef
  <2>2. DOMAIN kids = 1..Len(kids) /\ Len(kids) \in Nat
    BY <2>1
  <2> QED
    BY <1>4, <2>1, <2>2, LenProperties
<1>11. KidsSound(kids, {}, 0)
  <2>1. ToSet(kids) \ {Null} = {}
    BY <1>4 DEF ToSet
  <2>2. Once(kids)
    BY <1>4 DEF Once
  <2> QED
    BY <1>4, <1>10, <2>1, <2>2 DEF KidsSound
<1>12. SlotsSound(c.slots, kids, slot)
  <2>1. \A i \in DOMAIN c.slots : kids[i] = slot[c.slots[i]]
    BY <1>4, <1>5, <1>9
  <2>2. Len(kids) >= Len(c.slots)
    BY <1>2, <1>10 DEF size
  <2> QED
    BY <1>5, <2>1, <2>2 DEF SlotsSound
<1>13. c.pairs => <<>> \in Seq(Pair) /\ PairsInStep(kids, <<>>)
  BY <1>6, <1>8, <1>10 DEF PairsInStep
<1>14. ListsInStep(kids, Len(c.slots), list)
  <2>1. size + 1..Len(kids) = {}
    BY <1>4, <1>10
  <2>2. \A m \in DOMAIN list : \A j \in DOMAIN list[m] : FALSE
    BY <1>6, <1>7
  <2>3. Same(kids, size, list) /\ Shared(list) /\ Ordered(kids, size, list)
    BY <2>1, <2>2 DEF Same, Shared, Ordered
  <2> QED
    BY <2>3, ListsInStepIs DEF size
<1>15. /\ IsObject(r) /\ r.class = c /\ r.kids = kids /\ r.slot = slot /\ r.list = list
       /\ r.pairs = <<>> /\ r.adopted = {}
  BY <1>1 DEF IsObject
<1>16. Sound(r, 0)
  BY <1>2, <1>7, <1>11, <1>12, <1>13, <1>14, <1>15 DEF Sound
<1> QED
  BY <1>15, <1>16 DEF r

\* setTextContent()
LEMMA ReadTextSound ==
    ASSUME NEW o, NEW n, Sound(o, n), NEW t, NEW p, ReadText(o, t, p) # Rejected
    PROVE  Sound(ReadText(o, t, p), n) /\ ReadText(o, t, p).class = o.class
<1>1. IsObject(o)
  BY DEF Sound
<1>2. ReadText(o, t, p) = o \/ ReadText(o, t, p) = SetText(o, t, p)
  BY DEF ReadText
<1>3. Sound(SetText(o, t, p), n) /\ SetText(o, t, p).class = o.class
  <2>1. IsObject(SetText(o, t, p)) /\ Alike(SetText(o, t, p), o)
    BY <1>1, SetTextIs
  <2> QED
    BY <2>1, AlikeSound DEF Alike
<1> QED
  BY <1>2, <1>3

\* No operation on children changes the class.
LEMMA SameClass ==
    ASSUME NEW o, IsObject(o), NEW m, NEW child, NEW i
    PROVE  /\ SetSlot(o, m, child).class = o.class /\ PushBack(o, m, child).class = o.class
           /\ PushPair(o, child).class = o.class /\ Erase(o, m, i).class = o.class
           /\ ErasePair(o, i).class = o.class
<1>1. ASSUME NEW r, NEW p,
             \/ SlotSet(r, o, p, m, child) \/ PushedBack(r, o, m, child)
             \/ PairPushed(r, o, child)
             \/ Erased(r, o, p, m, i) \/ PairErased(r, o, p, i)
      PROVE  r.class = o.class
  BY <1>1 DEF SlotSet, PushedBack, PairPushed, Erased, PairErased
<1>2. SlotSet(SetSlot(o, m, child), o, Place(o, m), m, child)
  BY SetSlotIs
<1>3. PushedBack(PushBack(o, m, child), o, m, child)
  BY PushBackIs
<1>4. PairPushed(PushPair(o, child), o, child)
  BY PushPairIs
<1>5. Erased(Erase(o, m, i), o, FirstPlace(o, o.list[m][i]), m, i)
  BY EraseIs
<1>6. PairErased(ErasePair(o, i), o, PairPlace(o, i), i)
  BY ErasePairIs
<1> QED
  BY <1>1, <1>2, <1>3, <1>4, <1>5, <1>6

\* processChildElement()
LEMMA ProcessSound ==
    ASSUME NEW o, NEW n \in Nat, NEW k \in Nat, n <= k, Sound(o, n),
           NEW child \in Kid, IsNew(child, n, k), Takes(o, child),
           o.class.pairs => child.name[1] = "ds"
    PROVE  Sound(Process(o, child), k) /\ Process(o, child).class = o.class
<1> DEFINE c == o.class
           typed == \E i \in DOMAIN c.takes : Typed(o, child, c.takes[i])
           m == IF typed THEN child.name ELSE IF child.name \in c.byName THEN child.name ELSE Unknown
<1>1. Well(c) /\ IsObject(o)
  BY DEF Sound
<1>2. child \in Pointer /\ child # Null
  BY ElementsAssumption DEF Pointer
<1>3. typed => child.name \in ToSet(c.takes)
  BY DEF Typed, ToSet
<1>4. typed \/ child.name \in c.byName \/ child.name[1] \in c.wild
  BY DEF Takes
<1>5. Unknown \notin ToSet(c.takes) \cup c.byName
  BY <1>1 DEF Well
<1>6. CASE c.pairs
  <2>1. typed
    BY <1>1, <1>4, <1>6 DEF Well, HasPairs
  <2>2. m # Unknown
    BY <1>3, <1>5, <2>1
  <2>3. Process(o, child) = PushPair(o, <<child, Null>>)
    BY <1>6, <2>2 DEF Process
  <2>4. Null \in Pointer /\ IsNew(Null, k, k)
    BY DEF Pointer, IsNew
  <2>5. Sound(PushPair(o, <<child, Null>>), k)
    BY <1>6, <2>4, PushPairSound
  <2>6. PushPair(o, <<child, Null>>).class = c
    BY <1>1, SameClass
  <2> QED
    BY <2>3, <2>5, <2>6
<1>7. CASE ~c.pairs
  <2>1. HasMembers(c)
    BY <1>1, <1>7 DEF Well
  <2>2. m \in ToSet(c.slots) \cup c.lists
    <3>1. CASE typed
      BY <1>3, <2>1, <3>1 DEF HasMembers, Member
    <3>2. CASE ~typed /\ child.name \in c.byName
      BY <2>1, <3>2 DEF HasMembers, Member
    <3>3. CASE ~typed /\ child.name \notin c.byName
      BY <1>4, <2>1, <3>3 DEF HasMembers, Member
    <3> QED
      BY <3>1, <3>2, <3>3
  <2>3. Process(o, child) = IF IsSlot(o, m) THEN SetSlot(o, m, child) ELSE PushBack(o, m, child)
    BY <1>7 DEF Process
  <2> HIDE DEF m
  <2>4. CASE m \in ToSet(c.slots)
    <3>1. Sound(SetSlot(o, m, child), k)
      BY <1>2, <2>4, SetSlotSound
    <3>2. SetSlot(o, m, child).class = c
      BY <1>1, SameClass
    <3>3. Process(o, child) = SetSlot(o, m, child)
      BY <2>3, <2>4 DEF IsSlot
    <3> QED
      BY <3>1, <3>2, <3>3
  <2>5. CASE m \notin ToSet(c.slots)
    <3>1. m \in c.lists
      BY <2>2, <2>5
    <3>2. Sound(PushBack(o, m, child), k)
      BY <3>1, PushBackSound
    <3>3. PushBack(o, m, child).class = c
      BY <1>1, SameClass
    <3>4. Process(o, child) = PushBack(o, m, child)
      BY <2>3, <2>5 DEF IsSlot
    <3> QED
      BY <3>2, <3>3, <3>4
  <2> QED
    BY <2>4, <2>5
<1> QED
  BY <1>6, <1>7
-----------------------------------------------------------------------------
(***************************************************************************)
(* The steps.                                                              *)
(***************************************************************************)

\* The identities given so far.
Given == Len(read.kids) + 2 * calls

(***************************************************************************)
(* InStep needs to know more: that the class of the object is one of the   *)
(* library's, where the members are those its processChildElement() and    *)
(* its setters look for (Well, in Sound); that what an entry of m_children *)
(* points to has an identity that was given before; and what was read.     *)
(***************************************************************************)
ElementsInv ==
    /\ \E q \in Registered : read.class = Class(q)
    /\ obj.class = read.class
    /\ read = [class |-> read.class, attrs |-> read.attrs, kids |-> read.kids, texts |-> read.texts]
    /\ read.kids \in Seq(Kid)
    /\ calls \in Nat
    /\ phase = "read" => calls = 0
    /\ Sound(obj, Given)

\* What every step uses.
LEMMA InvFacts ==
    ASSUME ElementsInv
    PROVE  /\ Len(read.kids) \in Nat /\ Given \in Nat
           /\ IsObject(obj) /\ Well(obj.class) /\ obj.class.name \in Registered
           /\ obj.class.name \in Tag
           /\ obj.class.pairs => obj.class.name = Ds("SPKIData")
<1>1. Len(read.kids) \in Nat /\ Given \in Nat
  BY DEF ElementsInv, Given
<1>2. PICK q \in Registered : obj.class = Class(q)
  BY DEF ElementsInv
<1>3. obj.class.name = q /\ Right(q, obj.class)
  BY <1>2, ClassesWell
<1> QED
  BY <1>1, <1>3 DEF ElementsInv, Sound, Right, Tag

\* The object before anything was read into it.
LEMMA InitInv == ElementsInit => ElementsInv
<1>1. SUFFICES ASSUME ElementsInit PROVE ElementsInv
  OBVIOUS
<1>2. PICK q \in Classes : \E A \in {{}, Required(Class(q).name), Class(q).attrs} :
          /\ read = [class |-> Class(q), attrs |-> A, kids |-> <<>>, texts |-> << <<>> >>]
          /\ obj = ReadAttributes(Class(q), A)
  BY <1>1 DEF ElementsInit
<1>3. q \in Registered
  BY ElementsAssumption
<1>4. Right(q, Class(q)) /\ Class(q).name = q
  BY <1>3, ClassesWell
<1> DEFINE c == Class(q)
<1>5. PICK A \in {{}, Required(c.name), c.attrs} :
          /\ read = [class |-> c, attrs |-> A, kids |-> <<>>, texts |-> << <<>> >>]
          /\ obj = ReadAttributes(c, A)
  BY <1>2
<1> HIDE DEF c
<1>6. Well(c) /\ c.name = q /\ Required(q) \subseteq c.attrsRead
  BY <1>4 DEF Right, c
<1>7. A \subseteq c.attrsRead
  BY <1>5, <1>6 DEF Well
<1>8. Sound(obj, 0) /\ obj.class = c
  BY <1>5, <1>6, <1>7, ReadAttributesSound
<1>9. read.class = c /\ read.kids = <<>>
      /\ read = [class |-> read.class, attrs |-> read.attrs, kids |-> read.kids,
      texts |-> read.texts]
  BY <1>5
<1>10. <<>> \in Seq(Kid) /\ Len(<<>>) = 0
  OBVIOUS
<1>11. calls = 0
  BY <1>1 DEF ElementsInit
<1>12. Given = 0
  BY <1>9, <1>10, <1>11 DEF Given
<1> QED
  BY <1>3, <1>8, <1>9, <1>10, <1>11, <1>12 DEF ElementsInv, c

\* What Keep() makes of what a handler returns.
LEMMA KeepInv ==
    ASSUME ElementsInv, NEW r, Keep(r), NEW n, Sound(obj, n),
           r # Rejected => Sound(r, n) /\ r.class = obj.class
    PROVE  Sound(obj', n) /\ obj'.class = obj.class /\ (phase' = "read" => phase = "read")
<1>1. CASE r = Rejected
  BY <1>1 DEF Keep
<1>2. CASE r # Rejected
  BY <1>2 DEF Keep
<1> QED
  BY <1>1, <1>2

LEMMA ReadsTextInv == ElementsInv /\ ReadsText => ElementsInv'
<1>1. SUFFICES ASSUME ElementsInv, ReadsText PROVE ElementsInv'
  OBVIOUS
<1>2. PICK t \in Texts :
          /\ read' = [read EXCEPT !.texts[Len(read.texts)] = <<t>>]
          /\ Keep(ReadText(obj, <<t>>, Len(read.kids)))
  BY <1>1 DEF ReadsText
<1>3. /\ read'.class = read.class /\ read'.kids = read.kids
      /\ read' = [class |-> read'.class, attrs |-> read'.attrs, kids |-> read'.kids,
                  texts |-> read'.texts]
  BY <1>1, <1>2 DEF ElementsInv
<1>4. calls' = calls /\ phase = "read"
  BY <1>1 DEF ReadsText
<1>5. Given' = Given
  BY <1>3, <1>4 DEF Given
<1> DEFINE r == ReadText(obj, <<t>>, Len(read.kids))
<1>6. Sound(obj, Given)
  BY <1>1 DEF ElementsInv
<1>7. r # Rejected => Sound(r, Given) /\ r.class = obj.class
  BY <1>6, ReadTextSound
<1> HIDE DEF r
<1>8. Keep(r)
  BY <1>2 DEF r
<1>9. Sound(obj', Given) /\ obj'.class = obj.class
  BY <1>1, <1>6, <1>7, <1>8, KeepInv
<1> QED
  BY <1>1, <1>3, <1>4, <1>5, <1>9 DEF ElementsInv

LEMMA ReadsChildInv ==
    ASSUME "pairs" \notin Calls, ElementsInv, ReadsChild
    PROVE  ElementsInv'
<1> DEFINE n == Len(read.kids) + 1
           c == read.class
           types == IF "xsiType" \in Calls THEN {Ds("KeyValue")} ELSE {}
<1>1. phase = "read" /\ calls = 0 /\ calls' = calls
  BY DEF ElementsInv, ReadsChild
<1>2. /\ Len(read.kids) \in Nat /\ Well(c) /\ c.name \in Tag
      /\ c.pairs => c.name = Ds("SPKIData")
  BY InvFacts DEF ElementsInv
<1>3. Given = Len(read.kids)
  BY <1>1, <1>2 DEF Given
<1>4. PICK d \in Documents(c) :
          /\ n <= Len(d)
          /\ ~Mistreated(c.name, SubSeq(d, 1, n))
          /\ \E class \in {Built(d[n])} \cup types :
                LET child == [id |-> n, name |-> d[n], class |-> class]
                IN  /\ read' = [read EXCEPT !.kids = Append(@, child), !.texts = Append(@, <<>>)]
                    /\ Keep(ReadChild(obj, child))
  BY DEF ReadsChild
<1>5. PICK class \in {Built(d[n])} \cup types :
                LET child == [id |-> n, name |-> d[n], class |-> class]
                IN  /\ read' = [read EXCEPT !.kids = Append(@, child), !.texts = Append(@, <<>>)]
                    /\ Keep(ReadChild(obj, child))
  BY <1>4
<1> DEFINE child == [id |-> n, name |-> d[n], class |-> class]
           r == ReadChild(obj, child)
<1>6. d \in Seq(Tag)
  BY <1>2, DocumentsWords DEF Words
<1>7. n \in Nat /\ n \in 1..Len(d)
  <2>1. Len(d) \in Nat
    BY <1>6
  <2> QED
    BY <1>2, <1>4, <2>1
<1>8. d[n] \in Tag
  BY <1>6, <1>7
<1>9. class \in Tag
  <2>1. Built(d[n]) \in Tag
    BY TagUnknown DEF Built, Tag
  <2>2. Ds("KeyValue") \in Tag
    BY NamesIn DEF DsNames
  <2> QED
    BY <1>5, <2>1, <2>2
<1>10. child \in Kid
  BY <1>7, <1>8, <1>9 DEF Kid
<1>11. c.pairs => d[n][1] = "ds"
  <2>1. SUFFICES ASSUME c.pairs PROVE d[n][1] = "ds"
    OBVIOUS
  <2>2. ~\E i \in DOMAIN SubSeq(d, 1, n) : SubSeq(d, 1, n)[i][1] # "ds"
    BY <1>2, <1>4, <2>1 DEF Mistreated
  <2>3. n \in DOMAIN SubSeq(d, 1, n) /\ SubSeq(d, 1, n)[n] = d[n]
    <3> HIDE DEF n
    <3>1. /\ SubSeq(d, 1, n) \in Seq(Tag)
          /\ Len(SubSeq(d, 1, n)) = IF 1 <= n THEN n - 1 + 1 ELSE 0
          /\ \A i \in 1..n - 1 + 1 : SubSeq(d, 1, n)[i] = d[1 + i - 1]
      <4>1. \A i \in 1..n : d[i] \in Tag
        BY <1>6, <1>7
      <4> QED
        BY <1>6, <1>7, <4>1, SubSeqProperties
    <3>2. n \in 1..n - 1 + 1 /\ 1 + n - 1 = n /\ Len(SubSeq(d, 1, n)) = n
      BY <1>7, <3>1
    <3>3. DOMAIN SubSeq(d, 1, n) = 1..Len(SubSeq(d, 1, n))
      BY <3>1, SeqDomain
    <3> QED
      BY <1>7, <3>1, <3>2, <3>3
  <2> QED
    BY <2>2, <2>3
<1>12. IsNew(child, Len(read.kids), n)
  BY <1>2 DEF IsNew
<1>13. read' = [read EXCEPT !.kids = Append(@, child), !.texts = Append(@, <<>>)] /\ Keep(r)
  BY <1>5
<1>14. child.name = d[n]
  OBVIOUS
<1> HIDE DEF child, r
<1>15. /\ read'.class = c /\ read'.kids = Append(read.kids, child)
       /\ read' = [class |-> read'.class, attrs |-> read'.attrs, kids |-> read'.kids,
                   texts |-> read'.texts]
  BY <1>13 DEF ElementsInv
<1>16. read'.kids \in Seq(Kid) /\ Len(read'.kids) = n
  <2>1. read.kids \in Seq(Kid)
    BY DEF ElementsInv
  <2> QED
    BY <1>10, <1>15, <2>1, AppendProperties
<1>17. Given' = n
  BY <1>1, <1>7, <1>16 DEF Given
<1>18. Sound(obj, Len(read.kids)) /\ obj.class = c
  BY <1>3 DEF ElementsInv
<1>19. Len(read.kids) <= n
  BY <1>2
<1> HIDE DEF n
<1>20. Sound(obj, n)
  BY <1>2, <1>7, <1>18, <1>19, SoundLater
<1>21. r # Rejected => Sound(r, n) /\ r.class = obj.class
  <2>1. SUFFICES ASSUME r # Rejected PROVE Sound(r, n) /\ r.class = obj.class
    OBVIOUS
  <2>2. Takes(obj, child) /\ r = Process(obj, child)
    BY <2>1 DEF r, ReadChild
  <2>3. obj.class.pairs => child.name[1] = "ds"
    BY <1>11, <1>14, <1>18
  <2> QED
    BY <1>2, <1>7, <1>10, <1>12, <1>18, <1>19, <2>2, <2>3, ProcessSound
<1>22. Sound(obj', n) /\ obj'.class = obj.class
  BY <1>13, <1>20, <1>21, KeepInv
<1> QED
  BY <1>1, <1>15, <1>16, <1>17, <1>18, <1>22 DEF ElementsInv

LEMMA ReadsEndInv == ElementsInv /\ ReadsEnd => ElementsInv'
<1>1. SUFFICES ASSUME ElementsInv, ReadsEnd PROVE ElementsInv'
  OBVIOUS
<1>2. read' = read /\ calls' = calls /\ phase' = "client"
  BY <1>1 DEF ReadsEnd
<1>3. Given' = Given
  BY <1>2 DEF Given
<1>4. IsObject(obj) /\ Sound(obj, Given)
  BY <1>1, InvFacts DEF ElementsInv
<1>5. obj' = obj \/ obj' = [obj EXCEPT !.dom = TRUE]
  BY <1>1 DEF ReadsEnd
<1>6. IsObject(obj') /\ Alike(obj', obj)
  <2>1. IsObject([obj EXCEPT !.dom = TRUE]) /\ Alike([obj EXCEPT !.dom = TRUE], obj)
    BY <1>4, DomIs
  <2>2. Alike(obj, obj)
    BY DEF Alike
  <2> QED
    BY <1>4, <1>5, <2>1, <2>2
<1>7. Sound(obj', Given) /\ obj'.class = obj.class
  BY <1>4, <1>6, AlikeSound DEF Alike
<1> QED
  BY <1>1, <1>2, <1>3, <1>7 DEF ElementsInv

\* What a call of the client makes of the object.
LEMMA CallInv ==
    ASSUME ElementsInv, phase = "client", NEW r, Call(r), Sound(r, Given + 2), r.class = obj.class
    PROVE  ElementsInv'
<1>1. obj' = r /\ calls' = calls + 1 /\ read' = read /\ phase' = "client"
  BY DEF Call
<1>2. calls \in Nat /\ Len(read.kids) \in Nat
  BY InvFacts DEF ElementsInv
<1>3. calls + 1 \in Nat /\ Given' = Given + 2
  BY <1>1, <1>2 DEF Given
<1> QED
  BY <1>1, <1>3 DEF ElementsInv

\* A child the client makes was not there.
LEMMA FreshNew ==
    ASSUME ElementsInv, NEW m \in Tag
    PROVE  /\ Fresh(obj, m) \in Kid /\ Fresh(obj, m).id = Given + 1
           /\ IsNew(Fresh(obj, m), Given, Given + 1)
           /\ IsNew(Fresh(obj, m), Given, Given + 2)
           /\ [Fresh(obj, m) EXCEPT !.id = @ + 1] \in Kid
           /\ IsNew([Fresh(obj, m) EXCEPT !.id = @ + 1], Given + 1, Given + 2)
<1> DEFINE name == IF m = Unknown THEN Extension ELSE m
           class == IF m = Unknown THEN AnyElement ELSE Built(m)
<1>1. Given \in Nat
  BY InvFacts
<1>2. name \in Tag
  BY TagUnknown
<1>3. class \in Tag
  BY TagUnknown DEF Built, Tag
<1>4. Fresh(obj, m) = [id |-> Given + 1, name |-> name, class |-> class]
  BY DEF Fresh, Given
<1> HIDE DEF name, class
<1>5. [Fresh(obj, m) EXCEPT !.id = @ + 1] = [id |-> Given + 1 + 1, name |-> name, class |-> class]
  BY <1>4
<1>6. Given + 1 \in Nat /\ Given + 1 + 1 \in Nat /\ Given < Given + 1 /\ Given + 1 < Given + 1 + 1
      /\ Given + 1 <= Given + 2 /\ Given + 1 + 1 <= Given + 2 /\ Given + 1 <= Given + 1
  BY <1>1
<1> QED
  BY <1>2, <1>3, <1>4, <1>5, <1>6 DEF Kid, IsNew

LEMMA SetsSlotInv == ElementsInv /\ SetsSlot => ElementsInv'
<1>1. SUFFICES ASSUME ElementsInv, SetsSlot PROVE ElementsInv'
  OBVIOUS
<1>2. phase = "client"
  BY <1>1 DEF SetsSlot, Client
<1>9. PICK m \in ToSet(obj.class.slots) : \E child \in {Null, Fresh(obj, m)} :
         Call(SetSlot(obj, m, child))
  BY <1>1 DEF SetsSlot
<1>3. PICK child \in {Null, Fresh(obj, m)} : Call(SetSlot(obj, m, child))
  BY <1>9
<1>4. Given \in Nat /\ Given + 2 \in Nat /\ Given <= Given + 2 /\ IsObject(obj) /\ Sound(obj, Given)
  BY <1>1, InvFacts DEF ElementsInv
<1>5. m \in Tag
  BY <1>1, InvFacts, WellFacts
<1>6. child \in Pointer /\ IsNew(child, Given, Given + 2)
  BY <1>1, <1>3, <1>5, FreshNew DEF Pointer, IsNew
<1>7. Sound(SetSlot(obj, m, child), Given + 2)
  BY <1>4, <1>6, SetSlotSound
<1>8. SetSlot(obj, m, child).class = obj.class
  BY <1>4, SameClass
<1> QED
  BY <1>1, <1>2, <1>3, <1>7, <1>8, CallInv

LEMMA PushesBackInv == ElementsInv /\ PushesBack => ElementsInv'
<1>1. SUFFICES ASSUME ElementsInv, PushesBack PROVE ElementsInv'
  OBVIOUS
<1>2. phase = "client"
  BY <1>1 DEF PushesBack, Client
<1>3. PICK m \in obj.class.lists : Call(PushBack(obj, m, Fresh(obj, m)))
  BY <1>1 DEF PushesBack
<1>4. Given \in Nat /\ Given + 2 \in Nat /\ Given <= Given + 2 /\ IsObject(obj) /\ Sound(obj, Given)
  BY <1>1, InvFacts DEF ElementsInv
<1>5. m \in Tag
  BY <1>1, InvFacts, WellFacts
<1>6. Fresh(obj, m) \in Kid /\ IsNew(Fresh(obj, m), Given, Given + 2)
  BY <1>1, <1>5, FreshNew
<1>7. Sound(PushBack(obj, m, Fresh(obj, m)), Given + 2)
  BY <1>4, <1>6, PushBackSound
<1>8. PushBack(obj, m, Fresh(obj, m)).class = obj.class
  BY <1>4, SameClass
<1> QED
  BY <1>1, <1>2, <1>3, <1>7, <1>8, CallInv

LEMMA ErasesInv == ElementsInv /\ Erases => ElementsInv'
<1>1. SUFFICES ASSUME ElementsInv, Erases PROVE ElementsInv'
  OBVIOUS
<1>2. phase = "client"
  BY <1>1 DEF Erases, Client
<1>9. PICK m \in obj.class.lists : \E i \in DOMAIN obj.list[m] : Call(Erase(obj, m, i))
  BY <1>1 DEF Erases
<1>3. PICK i \in DOMAIN obj.list[m] : Call(Erase(obj, m, i))
  BY <1>9
<1>4. Given \in Nat /\ Given + 2 \in Nat /\ Given <= Given + 2 /\ IsObject(obj) /\ Sound(obj, Given)
  BY <1>1, InvFacts DEF ElementsInv
<1>5. Sound(Erase(obj, m, i), Given)
  BY <1>4, EraseSound
<1>6. Sound(Erase(obj, m, i), Given + 2)
  BY <1>4, <1>5, SoundLater
<1>7. Erase(obj, m, i).class = obj.class
  BY <1>4, SameClass
<1> QED
  BY <1>1, <1>2, <1>3, <1>6, <1>7, CallInv

LEMMA PushesPairInv == ElementsInv /\ PushesPair => ElementsInv'
<1>1. SUFFICES ASSUME ElementsInv, PushesPair PROVE ElementsInv'
  OBVIOUS
<1>2. phase = "client" /\ obj.class.pairs
  BY <1>1 DEF PushesPair, Client
<1> DEFINE sexp == Fresh(obj, Ds("SPKISexp"))
<1>3. PICK second \in {Null, [Fresh(obj, Unknown) EXCEPT !.id = @ + 1]} :
         Call(PushPair(obj, <<sexp, second>>))
  BY <1>1 DEF PushesPair
<1>4. /\ Given \in Nat /\ Given + 1 \in Nat /\ Given + 2 \in Nat
      /\ Given <= Given + 1 /\ Given + 1 <= Given + 2
      /\ IsObject(obj) /\ Sound(obj, Given)
  BY <1>1, InvFacts DEF ElementsInv
<1>5. Ds("SPKISexp") \in Tag /\ Unknown \in Tag
  BY NamesIn, TagUnknown DEF DsNames
<1>6. sexp \in Kid /\ IsNew(sexp, Given, Given + 1)
  BY <1>1, <1>5, FreshNew
<1>7. second \in Pointer /\ IsNew(second, Given + 1, Given + 2)
  BY <1>1, <1>3, <1>5, FreshNew DEF Pointer, IsNew
<1> HIDE DEF sexp
<1>8. Sound(PushPair(obj, <<sexp, second>>), Given + 2)
  BY <1>2, <1>4, <1>6, <1>7, PushPairSound
<1>9. PushPair(obj, <<sexp, second>>).class = obj.class
  BY <1>4, SameClass
<1> QED
  BY <1>1, <1>2, <1>3, <1>8, <1>9, CallInv

LEMMA ErasesPairInv == ElementsInv /\ ErasesPair => ElementsInv'
<1>1. SUFFICES ASSUME ElementsInv, ErasesPair PROVE ElementsInv'
  OBVIOUS
<1>2. phase = "client"
  BY <1>1 DEF ErasesPair, Client
<1>3. PICK i \in DOMAIN obj.pairs : Call(ErasePair(obj, i))
  BY <1>1 DEF ErasesPair
<1>4. Given \in Nat /\ Given + 2 \in Nat /\ Given <= Given + 2 /\ IsObject(obj) /\ Sound(obj, Given)
  BY <1>1, InvFacts DEF ElementsInv
<1>5. obj.class.pairs
  <2>1. obj.pairs # <<>>
    BY <1>3
  <2> QED
    BY <1>4, <2>1 DEF Sound
<1>6. Sound(ErasePair(obj, i), Given)
  BY <1>4, <1>5, ErasePairSound
<1>7. Sound(ErasePair(obj, i), Given + 2)
  BY <1>4, <1>6, SoundLater
<1>8. ErasePair(obj, i).class = obj.class
  BY <1>4, SameClass
<1> QED
  BY <1>1, <1>2, <1>3, <1>7, <1>8, CallInv

\* A call that touches neither the members nor the children.
LEMMA AlikeInv ==
    ASSUME ElementsInv, phase = "client", NEW r, Call(r), IsObject(r), Alike(r, obj)
    PROVE  ElementsInv'
<1>1. Given \in Nat /\ Given + 2 \in Nat /\ Given <= Given + 2 /\ Sound(obj, Given)
  BY InvFacts DEF ElementsInv
<1>2. Sound(r, Given) /\ r.class = obj.class
  BY <1>1, AlikeSound DEF Alike
<1>3. Sound(r, Given + 2)
  BY <1>1, <1>2, SoundLater
<1> QED
  BY <1>2, <1>3, CallInv

LEMMA SetsAttributeInv == ElementsInv /\ SetsAttribute => ElementsInv'
<1>1. SUFFICES ASSUME ElementsInv, SetsAttribute PROVE ElementsInv'
  OBVIOUS
<1>2. phase = "client" /\ IsObject(obj)
  BY <1>1, InvFacts DEF SetsAttribute, Client
<1>3. PICK a, v : Call(SetAttribute(obj, a, v))
  BY <1>1 DEF SetsAttribute
<1> QED
  BY <1>1, <1>2, <1>3, AlikeInv, SetAttributeIs

LEMMA SetsTextInv == ElementsInv /\ SetsText => ElementsInv'
<1>1. SUFFICES ASSUME ElementsInv, SetsText PROVE ElementsInv'
  OBVIOUS
<1>2. phase = "client" /\ IsObject(obj)
  BY <1>1, InvFacts DEF SetsText, Client
<1>3. PICK t, p : Call(SetText(obj, <<t>>, p))
  BY <1>1 DEF SetsText
<1> QED
  BY <1>1, <1>2, <1>3, AlikeInv, SetTextIs

LEMMA SetsCodeInv == ElementsInv /\ SetsCode => ElementsInv'
<1>1. SUFFICES ASSUME ElementsInv, SetsCode PROVE ElementsInv'
  OBVIOUS
<1>2. phase = "client" /\ IsObject(obj)
  BY <1>1, InvFacts DEF SetsCode, Client
<1>3. CASE \E code : Call(SetCode(obj, code))
  BY <1>1, <1>2, <1>3, AlikeInv, SetCodeIs
<1>4. CASE Call([obj EXCEPT !.code = GetCode(obj), !.dom = FALSE])
  <2>1. IsObject([obj EXCEPT !.code = GetCode(obj), !.dom = FALSE])
        /\ Alike([obj EXCEPT !.code = GetCode(obj), !.dom = FALSE], obj)
    BY <1>2, DomIs
  <2> QED
    BY <1>1, <1>2, <1>4, <2>1, AlikeInv
<1> QED
  BY <1>1, <1>3, <1>4 DEF SetsCode

LEMMA NextInv ==
    ASSUME "pairs" \notin Calls, ElementsInv, [ElementsNext]_elementsVars
    PROVE  ElementsInv'
<1>1. CASE UNCHANGED elementsVars
  BY <1>1 DEF ElementsInv, elementsVars, Given
<1>2. CASE ElementsNext
  BY <1>2, ReadsTextInv, ReadsChildInv, ReadsEndInv, SetsSlotInv, PushesBackInv, ErasesInv,
     PushesPairInv, ErasesPairInv, SetsAttributeInv, SetsTextInv, SetsCodeInv DEF ElementsNext
<1> QED
  BY <1>1, <1>2

LEMMA InvInStep == ElementsInv => InStep
BY DEF ElementsInv, Sound, KidsSound, SlotsSound, InStep

(***************************************************************************)
(* Whatever document is read into an object of whatever class, valid or    *)
(* not, and whatever calls of its client follow: the typed members that    *)
(* the macros of base.h declare and m_children, which they change          *)
(* separately, point to the same children, each once and in the same       *)
(* order, and each child has the object as its parent.  Calls leaves out   *)
(* what XMLObjectPairList does not survive.                                *)
(***************************************************************************)
THEOREM MembersInStep ==
    ASSUME "pairs" \notin Calls
    PROVE  ElementsSpec => []InStep
<1>1. ElementsInit => ElementsInv
  BY InitInv
<1>2. ElementsInv /\ [ElementsNext]_elementsVars => ElementsInv'
  BY NextInv
<1>3. ElementsInv => InStep
  BY InvInStep
<1> QED
  BY <1>1, <1>2, <1>3, PTL DEF ElementsSpec
=============================================================================
