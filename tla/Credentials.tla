----------------------------- MODULE Credentials -----------------------------
(***************************************************************************)
(* Credentials, the KeyInfo they publish, the credentials found in a       *)
(* KeyInfo, and the criteria that select among credentials                 *)
(* (security/impl/BasicX509Credential.cpp, InlineKeyResolver.cpp,          *)
(* CredentialCriteria.cpp, ChainingCredentialResolver.cpp).                *)
(*                                                                         *)
(* A certificate is a record with the key it certifies, its subject, the   *)
(* names in it, its issuer and its serial number; that of an issuer is     *)
(* found by name, and a name is a member of a small set.  An encoding that *)
(* cannot be decoded is the value Spoilt.                                  *)
(***************************************************************************)
EXTENDS Integers, Sequences, SequencesExt, FiniteSetsExt, Functions

CONSTANTS None, Spoilt

FirstOf(s) == IF s = <<>> THEN None ELSE Head(s)
-----------------------------------------------------------------------------
(***************************************************************************)
(* Keys.  alg is what the type of a key says of it, half which half of an  *)
(* asymmetric key is there.                                                *)
(***************************************************************************)
Key(id, alg, half, size) == [id |-> id, alg |-> alg, half |-> half, size |-> size]

PublicHalf(k) == [k EXCEPT !.half = "public"]

Asymmetric == {"RSA", "DSA", "EC"}

\* Two keys match in the half that the first one names.
KeysMatch(k1, k2) ==
    /\ k1.alg \in Asymmetric /\ k2.alg = k1.alg
    /\ k2.half \in (IF k1.half = "private" THEN {"private", "pair"} ELSE {"public", "pair"})
    /\ k1.id = k2.id

\* A public key is encoded with its type, and decoded into the same.
getDEREncoding(k) == IF k.half \in {"public", "pair"} THEN PublicHalf(k) ELSE None
fromDEREncoding(e) == IF e \in {Spoilt, None} THEN None ELSE e

\* What the XML algorithms say of the key they want; registerXMLAlgorithms().
AlgorithmMap ==
    [sha1 |-> <<None, 0>>, rsaSha256 |-> <<"RSA", 0>>, ecdsaSha256 |-> <<"EC", 0>>,
     dsaSha1 |-> <<"DSA", 0>>, hmacSha256 |-> <<"HMAC", 0>>, rsaOaep |-> <<"RSA", 0>>,
     rsa15 |-> <<"RSA", 0>>, kw3des |-> <<"DESede", 192>>, kwAes128 |-> <<"AES", 128>>,
     kwAes256 |-> <<"AES", 256>>, aes128 |-> <<"AES", 128>>, aes256 |-> <<"AES", 256>>,
     aes128gcm |-> <<"AES", 128>>, des3 |-> <<"DESede", 192>>]

mapXMLAlgorithm(a) == IF a \in DOMAIN AlgorithmMap THEN AlgorithmMap[a] ELSE <<None, 0>>

\* The kinds of use they are registered for; authenticated ciphers are ciphers too.
Registered ==
    [digest |-> {"sha1"}, sign |-> {"rsaSha256", "ecdsaSha256", "dsaSha1", "hmacSha256"},
     keyencrypt |-> {"rsaOaep", "rsa15", "kw3des", "kwAes128", "kwAes256"},
     encrypt |-> {"aes128", "aes256", "des3", "aes128gcm"}, authnencrypt |-> {"aes128gcm"}]

isXMLAlgorithmSupported(a, use) == a \in Registered[use]
-----------------------------------------------------------------------------
(***************************************************************************)
(* KeyInfo, with the content the code reads or writes.                     *)
(***************************************************************************)
X509Data == [subject |-> None, issuerSerial |-> None, certs |-> <<>>, digest |-> None, crls |-> <<>>]
EmptyKeyInfo == [names |-> {}, values |-> <<>>, der |-> <<>>, x509 |-> <<>>, refs |-> <<>>,
                 others |-> <<>>, methods |-> <<>>]

HasChildren(ki) == ki # EmptyKeyInfo

\* The ds:X509Data that content is added to: the first one.
InX509Data(ki, F(_)) ==
    [ki EXCEPT !.x509 = IF @ = <<>> THEN <<F(X509Data)>> ELSE [@ EXCEPT ![1] = F(@)]]
-----------------------------------------------------------------------------
(***************************************************************************)
(* BasicX509Credential                                                     *)
(***************************************************************************)
BasicCredential(key, certs, crls) ==
    [usage |-> {}, key |-> key, certs |-> certs, crls |-> crls, names |-> {},
     subject |-> None, issuer |-> None, serial |-> None, full |-> None, compact |-> None,
     context |-> None]

getAlgorithm(c) == IF c.key = None THEN None ELSE c.key.alg
getKeySize(c) == IF c.key # None /\ c.key.alg \in {"RSA", "AES", "DESede"} THEN c.key.size ELSE 0

\* The halves of an asymmetric key; a secret key is neither of them.
HasHalf(c, half) == c.key # None /\ c.key.alg \in Asymmetric /\ c.key.half \in {half, "pair"}
getPrivateKey(c) == IF HasHalf(c, "private") THEN c.key ELSE None
getPublicKey(c) == IF HasHalf(c, "public") THEN c.key ELSE None

\* The names in the first certificate.
extract(c) ==
    IF c.certs = <<>> THEN c
    ELSE LET x == Head(c.certs)
         IN  [c EXCEPT !.issuer = x.issuer, !.serial = x.serial, !.subject = x.subject,
                       !.names = @ \cup (({x.subject, x.cn} \cup x.alt) \ {None})]

\* A credential from files: the names in the certificate, if they are wanted,
\* and the configured ones.
FileCredential(key, certs, crls, usage, extractNames, keynames) ==
    LET k == IF key # None THEN key ELSE IF certs = <<>> THEN None ELSE Head(certs).key
        basic == [BasicCredential(k, certs, crls) EXCEPT !.usage = usage]
        named == IF extractNames THEN extract(basic) ELSE basic
    IN  [named EXCEPT !.names = @ \cup keynames]

DefaultTypes == {"value", "name", "cert", "subject", "digest"}

\* initKeyInfo(): the names and the description of the certificate make the
\* compact form; with the certificates added it is the full one.  The digest is
\* put into the compact form alone.
NameInfo(c, types) ==
    IF "name" \in types /\ c.names # {}
    THEN [EmptyKeyInfo EXCEPT !.names = c.names \ {c.subject}] ELSE None

SubjectInfo(ki, c, types) ==
    LET serial == c.issuer # None /\ c.serial # None
        data == [X509Data EXCEPT
                   !.subject = IF "subject" \in types THEN c.subject ELSE None,
                   !.issuerSerial = IF "serial" \in types /\ serial
                                    THEN <<c.issuer, c.serial>> ELSE None]
    IN  IF types \cap {"subject", "serial"} # {} /\ (c.subject # None \/ serial)
        THEN [(IF ki = None THEN EmptyKeyInfo ELSE ki) EXCEPT !.x509 = Append(@, data)]
        ELSE ki

CertInfo(ki, c, types) ==
    LET WithCerts(d) == [d EXCEPT !.certs = @ \o c.certs]
    IN  IF "cert" \in types /\ c.certs # <<>>
        THEN InX509Data(IF ki = None THEN EmptyKeyInfo ELSE ki, WithCerts) ELSE None

DigestInfo(ki, c, types) ==
    LET WithDigest(d) == [d EXCEPT !.digest = Head(c.certs)]
    IN  IF "digest" \in types /\ c.certs # <<>>
        THEN InX509Data(IF ki = None THEN EmptyKeyInfo ELSE ki, WithDigest) ELSE ki

initKeyInfo(c, mask) ==
    LET types == IF mask = {} THEN DefaultTypes ELSE mask
        plain == SubjectInfo(NameInfo(c, types), c, types)
    IN  [c EXCEPT !.full = CertInfo(plain, c, types), !.compact = DigestInfo(plain, c, types)]
-----------------------------------------------------------------------------
(***************************************************************************)
(* InlineKeyResolver: a credential out of a KeyInfo.  References lead to   *)
(* another ds:KeyInfo of the document (or to Spoilt, something else) and   *)
(* are followed once.                                                      *)
(***************************************************************************)
Decoded(s) == SelectSeq(s, LAMBDA x : x # Spoilt)
Referred(ki) == Decoded(ki.refs)

CertsIn(ki) ==
    LET lists == [i \in DOMAIN ki.x509 |-> Decoded(ki.x509[i].certs)]
        found == SelectSeq(lists, LAMBDA l : l # <<>>)
    IN  IF found = <<>> THEN <<>> ELSE Head(found)

KeysIn(ki) ==
    Decoded(ki.values)
      \o SelectSeq([i \in DOMAIN ki.der |-> fromDEREncoding(ki.der[i])], LAMBDA k : k # None)

CRLsIn(ki) == FlattenSeq([i \in DOMAIN ki.x509 |-> Decoded(ki.x509[i].crls)])

\* What In finds in the KeyInfo, or else in the first reference that has any.
Following(ki, follow, In(_)) ==
    LET through == SelectSeq([i \in DOMAIN Referred(ki) |-> In(Referred(ki)[i])],
                             LAMBDA s : s # <<>>)
    IN  IF In(ki) # <<>> \/ ~follow \/ through = <<>> THEN In(ki) ELSE Head(through)

resolveCerts(ki, follow) == Following(ki, follow, CertsIn)
resolveKey(ki, follow) == FirstOf(Following(ki, follow, KeysIn))
resolveCRLs(ki, follow) == Following(ki, follow, CRLsIn)

\* The key is that of the certificate if certificates are wanted, and otherwise
\* only if there is none by itself; names and serial number are always taken.
Subjects(ki) == SelectSeq([i \in DOMAIN ki.x509 |-> ki.x509[i].subject], LAMBDA n : n # None)
Serials(ki) == SelectSeq([i \in DOMAIN ki.x509 |-> ki.x509[i].issuerSerial], LAMBDA n : n # None)
LastOf(s) == IF s = <<>> THEN None ELSE Last(s)

KeyFound(ki, types, follow) ==
    LET certs == resolveCerts(ki, follow)
        certified == IF certs = <<>> THEN None ELSE PublicHalf(Head(certs).key)
        bare == resolveKey(ki, follow)
    IN  IF "keys" \notin types THEN None
        ELSE IF "certs" \in types THEN IF certs # <<>> THEN certified ELSE bare
        ELSE IF bare # None THEN bare ELSE certified

CertsFound(ki, types, follow) ==
    IF "certs" \in types \/ ("keys" \in types /\ resolveKey(ki, follow) = None)
    THEN resolveCerts(ki, follow) ELSE <<>>

ResolveKeyInfo(ki, types, follow) ==
    [BasicCredential(KeyFound(ki, types, follow), CertsFound(ki, types, follow),
                     IF "crls" \in types THEN resolveCRLs(ki, follow) ELSE <<>>)
     EXCEPT !.names = ki.names \cup Range(Subjects(ki)),
            !.subject = LastOf(Subjects(ki)),
            !.issuer = IF Serials(ki) = <<>> THEN None ELSE Last(Serials(ki))[1],
            !.serial = IF Serials(ki) = <<>> THEN None ELSE Last(Serials(ki))[2],
            !.context = ki]

\* The list that the XML-Security library keeps of a signature's ds:KeyInfo: its
\* own resolver takes a key from the first item that has one.
Natively(ki) == [ki EXCEPT !.refs = <<>>, !.others = <<>>, !.methods = <<>>]

ResolveNative(ki, types) ==
    LET certs == CertsIn(ki)
        key == FirstOf(Decoded(ki.values) \o [i \in DOMAIN certs |-> PublicHalf(certs[i].key)])
    IN  [ResolveKeyInfo(Natively(ki), {}, FALSE)
         EXCEPT !.key = IF "keys" \in types THEN key ELSE None,
                !.certs = IF "certs" \in types THEN certs ELSE <<>>,
                !.crls = IF "crls" \in types THEN CRLsIn(ki) ELSE <<>>]

isEmpty(c) ==
    /\ c.key = None /\ c.certs = <<>> /\ c.crls = <<>> /\ c.names = {}
    /\ c.serial = None /\ c.issuer = None

AllTypes == {"keys", "certs", "crls"}

Resolved(c) == IF isEmpty(c) THEN None ELSE c

resolve(ki, wanted, follow) ==
    IF ki = None THEN None
    ELSE Resolved(ResolveKeyInfo(ki, IF wanted = {} THEN AllTypes ELSE wanted, follow))

resolveNativeKeyInfo(ki, wanted) ==
    IF ki = None THEN None
    ELSE Resolved(ResolveNative(ki, IF wanted = {} THEN AllTypes ELSE wanted))

\* getKeyInfo() of an inline credential gives back what it was found in, less
\* the references, and in the compact form less the keys and certificates.
NonEmpty(ki) == IF HasChildren(ki) THEN ki ELSE None

InlineKeyInfo(c, compact) ==
    IF c.context = None THEN None
    ELSE LET ki == [c.context EXCEPT !.methods = <<>>, !.refs = <<>>]
             bare == [i \in DOMAIN ki.x509 |-> [ki.x509[i] EXCEPT !.certs = <<>>, !.crls = <<>>]]
         IN  NonEmpty(IF ~compact THEN ki
                      ELSE [ki EXCEPT !.values = <<>>, !.der = <<>>, !.others = <<>>,
                                      !.x509 = SelectSeq(bare, LAMBDA d : d # X509Data)])

getKeyInfo(c, compact) ==
    IF c.context # None THEN InlineKeyInfo(c, compact)
    ELSE IF compact \/ c.full = None THEN c.compact ELSE c.full
-----------------------------------------------------------------------------
(***************************************************************************)
(* CredentialCriteria                                                      *)
(***************************************************************************)
NoCriteria ==
    [usage |-> {}, peer |-> None, alg |-> None, size |-> 0, max |-> 0, names |-> {},
     key |-> None, keyInfo |-> None, native |-> None, found |-> None]

setUsage(c, usage) == [c EXCEPT !.usage = usage]

\* The algorithm brings a size with it.
setXMLAlgorithm(c, a) == [c EXCEPT !.alg = mapXMLAlgorithm(a)[1], !.size = mapXMLAlgorithm(a)[2]]

Wanted(extraction) ==
    (IF "key" \in extraction THEN {"keys"} ELSE {})
      \cup (IF "names" \in extraction THEN {"certs"} ELSE {})

Found(cred, extraction) == IF cred # None /\ "names" \in extraction THEN extract(cred) ELSE cred

\* Following references is a setting of the resolver, off unless configured.
setKeyInfo(c, ki, extraction) ==
    [c EXCEPT !.keyInfo = ki,
              !.found = IF extraction = {} THEN None
                        ELSE Found(resolve(ki, Wanted(extraction), FALSE), extraction)]

setNativeKeyInfo(c, ki, extraction) ==
    [c EXCEPT !.native = ki,
              !.found = IF extraction = {} THEN None
                        ELSE Found(resolveNativeKeyInfo(ki, Wanted(extraction)), extraction)]

\* A signature that was built has the KeyInfo, one that was read the native list.
setSignature(c, sig, extraction) ==
    LET d == setXMLAlgorithm(c, sig.alg)
    IN  IF sig.built /\ sig.keyInfo # None THEN setKeyInfo(d, sig.keyInfo, extraction)
        ELSE setNativeKeyInfo(d, sig.keyInfo, extraction)

\* The peer's name and the public key stay.
reset(c) == [NoCriteria EXCEPT !.peer = c.peer, !.key = c.key]

\* Whatever one side leaves open is no reason against.
SizeFits(c, size) ==
    size = 0 \/ IF c.size > 0 /\ c.max = 0 THEN size = c.size
                ELSE size >= c.size /\ (c.max > 0 => size <= c.max)

NamesSought(c) == c.names \cup (IF c.found = None THEN {} ELSE c.found.names)
KeySought(c) == IF c.key # None \/ c.found = None THEN c.key ELSE getPublicKey(c.found)

\* A fault: a credential without a name matches no criteria that have one.
matchesNamed(c, cred) ==
    /\ c.usage # {} /\ cred.usage # {} => c.usage \cap cred.usage # {}
    /\ c.alg # None /\ getAlgorithm(cred) # None => c.alg = getAlgorithm(cred)
    /\ SizeFits(c, getKeySize(cred))
    /\ NamesSought(c) # {} => NamesSought(c) \subseteq cred.names
    /\ KeySought(c) # None /\ getPublicKey(cred) # None => KeysMatch(KeySought(c), getPublicKey(cred))

matches(c, cred) ==
    /\ c.usage # {} /\ cred.usage # {} => c.usage \cap cred.usage # {}
    /\ c.alg # None /\ getAlgorithm(cred) # None => c.alg = getAlgorithm(cred)
    /\ SizeFits(c, getKeySize(cred))
    /\ NamesSought(c) # {} /\ cred.names # {} => NamesSought(c) \cap cred.names # {}
    /\ KeySought(c) # None /\ getPublicKey(cred) # None => KeysMatch(KeySought(c), getPublicKey(cred))

\* A resolver over files has one credential; a chain of resolvers asks them all.
ResolveAll(creds, c) == SelectSeq(creds, LAMBDA cred : matches(c, cred))
ResolveOne(creds, c) == FirstOf(ResolveAll(creds, c))
=============================================================================
