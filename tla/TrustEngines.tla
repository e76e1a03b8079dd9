----------------------------- MODULE TrustEngines -----------------------------
(***************************************************************************)
(* The trust engines: explicit keys (ExplicitKeyTrustEngine.cpp), PKIX     *)
(* with static anchors (AbstractPKIXTrustEngine.cpp,                       *)
(* StaticPKIXTrustEngine.cpp, PKIXPathValidator.cpp) and a chain of        *)
(* engines (ChainingTrustEngine.cpp).  A caller asks the chain about a     *)
(* signature or a certificate, again and again, with the same criteria     *)
(* object, which the engines change; engines come and go between calls.    *)
(*                                                                         *)
(* Whether a key verifies a signature and whether a path of certificates   *)
(* is sound is decided outside, by OpenSSL: here by who signed what.  What *)
(* getRemoteCRLs() answers for a distribution point is given; CRLCache is  *)
(* about how it comes to be.                                               *)
(***************************************************************************)
EXTENDS Credentials

CONSTANTS Signatures,   \* [alg, keyInfo, built, signer, by]: the key, and the names of
                        \* the credential that signed
          Presented,    \* [certs, ee]: certificates shown, and the place of the first
          PeerSets,     \* sequences of credentials the caller's resolver may hold
          Engines,      \* [kind, names, revocation, depth, anchors, crls]
          Asked,        \* criteria a caller may begin with, None among them
          Remotes,      \* functions from distribution points to a CRL or None
          MaxEngines    \* bound: the length of the chain

\* The three ways there are to check revocation, and lists that are lists: those
\* of a KeyInfo are made by SelectSeq and FlattenSeq, of which a proof knows nothing.
IsList(s) == s \in Seq(Range(s))

ASSUME EngineAssumption ==
    /\ \A e \in Engines :
          e.revocation \in {"off", "entityOnly", "fullChain"} /\ IsList(e.crls)
    /\ \A sig \in Signatures :
          sig.keyInfo # None =>
             /\ IsList(CertsIn(sig.keyInfo)) /\ IsList(CRLsIn(sig.keyInfo))
             /\ \A x \in Range(CertsIn(sig.keyInfo)) : IsList(x.cdps)

VARIABLES peers,        \* what the caller's resolver holds
          remote,       \* what is at the distribution points
          chain,        \* m_engines
          crit,         \* the caller's criteria, None if it passes none
          call,         \* what is asked about, and the criteria at that time
          verdict

trustVars == <<peers, remote, chain, crit, call, verdict>>
-----------------------------------------------------------------------------
(***************************************************************************)
(* Signatures                                                              *)
(***************************************************************************)
\* SignatureValidator and verifyRawSignature(): by the library.
Verifies(key, sig) ==
    key # None /\ key.half \in {"public", "pair"} /\ key.id = sig.signer.id
               /\ key.alg = mapXMLAlgorithm(sig.alg)[1]

CertificateOf(credential, sig) == Verifies(getPublicKey(credential), sig)

\* An engine answers with its verdict and what has become of the criteria.
Answer(ok, c) == [ok |-> ok, crit |-> c]
WithCriteria(c) == IF c = None THEN NoCriteria ELSE c
Returned(was, c) == IF was = None THEN None ELSE c

Signing(c) == setUsage(WithCriteria(c), {"sign"})

\* ExplicitKeyTrustEngine: the peer's keys are tried one after the other.
ExplicitSignature(sig, creds, c) ==
    LET d == setSignature(Signing(c), sig, {"key"})
    IN  Answer(\E i \in DOMAIN ResolveAll(creds, d) : CertificateOf(ResolveAll(creds, d)[i], sig),
               Returned(c, d))

ExplicitRaw(sig, creds, c) ==
    LET d == setXMLAlgorithm(setKeyInfo(Signing(c), sig.keyInfo, {"key"}), sig.alg)
    IN  Answer(\E i \in DOMAIN ResolveAll(creds, d) : CertificateOf(ResolveAll(creds, d)[i], sig),
               Returned(c, d))

ExplicitCertificate(ee, creds, c) ==
    LET d == IF c = None \/ c.usage = {} THEN Signing(c) ELSE c
    IN  Answer(\E i \in DOMAIN ResolveAll(creds, d) :
                  LET key == getPublicKey(ResolveAll(creds, d)[i])
                  IN  key # None /\ KeysMatch(PublicHalf(ee.key), key),
               Returned(c, d))
-----------------------------------------------------------------------------
(***************************************************************************)
(* PKIX                                                                    *)
(***************************************************************************)
SelfIssued(x) == x.issuer = x.subject

\* Paths from a certificate to a self-issued anchor, as OpenSSL looks for them.
Links(p) == \A i \in 1..Len(p) - 1 : p[i].issuer = p[i + 1].subject

Paths(ee, untrusted, anchors) ==
    LET middle == {x \in Range(untrusted) \cup Range(anchors) : ~SelfIssued(x)}
        roots == {x \in Range(anchors) : SelfIssued(x)}
    IN  {p \in {<<ee>> \o m \o <<r>> : m \in {<<>>} \cup {<<x>> : x \in middle \ {ee}}, r \in roots} :
            Links(p)} \cup {<<ee>> : x \in {y \in roots : y = ee}}

Intermediates(p) == Len(p) - 2

\* A CRL that is current is not past its nextUpdate; one that is fresh is far
\* enough from it.  The distribution points of the certificates come first, one
\* CRL for each issuer, and an old one is used if there is no other.
UsableAt(x) ==
    {i \in DOMAIN x.cdps :
        LET crl == remote[x.cdps[i]]
        IN  crl # None /\ (crl.fresh \/ i = Len(x.cdps))}

Fetched(acc, x) ==
    IF x.issuer \in acc.issuers \/ UsableAt(x) = {} THEN acc
    ELSE [issuers |-> acc.issuers \cup {x.issuer},
          crls |-> acc.crls \cup {remote[x.cdps[Min(UsableAt(x))]]}]

FromCDPs(untrusted) ==
    LET acc[i \in 0..Len(untrusted)] ==
          IF i = 0 THEN [issuers |-> {}, crls |-> {}] ELSE Fetched(acc[i - 1], untrusted[i])
    IN  acc[Len(untrusted)]

\* A fault: what the signature brings along comes first.
StoreInlineFirst(untrusted, inline) ==
    LET brought == {inline[i] : i \in {j \in DOMAIN inline : inline[j].current}}
        dps == FromCDPs(untrusted)
    IN  brought \cup {c \in dps.crls : \A b \in brought : b.issuer # c.issuer}

\* Then the CRLs that were brought along, for issuers that have none yet.
Added(acc, c) ==
    IF ~c.current \/ c.issuer \in acc.issuers THEN acc
    ELSE [issuers |-> acc.issuers \cup {c.issuer}, crls |-> acc.crls \cup {c}]

Store(untrusted, inline) ==
    LET acc[i \in 0..Len(inline)] ==
          IF i = 0 THEN FromCDPs(untrusted) ELSE Added(acc[i - 1], inline[i])
    IN  acc[Len(inline)].crls

\* With revocation checking, every certificate concerned needs a CRL.
Unrevoked(x, crls) ==
    /\ \E c \in crls : c.issuer = x.issuer
    /\ \A c \in crls : c.issuer = x.issuer => x.serial \notin c.revoked

PathValid(e, ee, untrusted, inline) ==
    \E p \in Paths(ee, untrusted, e.anchors) :
        /\ Intermediates(p) <= e.depth
        /\ CASE e.revocation = "fullChain" ->
                  \A x \in Range(p) : Unrevoked(x, Store(untrusted, inline))
             [] e.revocation = "entityOnly" -> Unrevoked(ee, Store(untrusted, inline))
             [] OTHER -> TRUE

\* checkEntityNames(): a name of the certificate is among the trusted ones, the
\* peer's and those of its credentials.
NamesIn(x) == ({x.subject, x.cn} \cup x.alt) \ {None}

checkEntityNames(e, ee, creds, c) ==
    LET known == ResolveAll(creds, c)
    IN  NamesIn(ee) \cap (e.names \cup ({c.peer} \ {None})
                            \cup UNION {known[i].names : i \in DOMAIN known}) # {}

\* validateWithCRLs(): the names are checked only if there are any to check.
validateWithCRLs(e, ee, untrusted, creds, c, inline) ==
    LET named == c # None /\ c.peer # None
        d == IF named /\ c.usage = {} THEN setUsage(c, {"sign"}) ELSE c
        acceptable ==
          IF named THEN checkEntityNames(e, ee, creds, d)
          ELSE e.names = {} \/ checkEntityNames(e, ee, creds, Signing(None))
    IN  Answer(acceptable /\ PathValid(e, ee, untrusted, inline \o e.crls), d)

\* The certificate whose key verifies the signature is the one to validate.
EndEntity(certs, sig) ==
    LET able == {i \in DOMAIN certs : Verifies(PublicHalf(certs[i].key), sig)}
    IN  IF able = {} THEN None ELSE certs[Min(able)]

PKIXSignature(e, sig, creds, c) ==
    LET found == IF sig.built THEN resolve(sig.keyInfo, {"certs", "crls"}, FALSE)
                 ELSE resolveNativeKeyInfo(sig.keyInfo, {"certs", "crls"})
    IN  IF found = None \/ EndEntity(found.certs, sig) = None THEN Answer(FALSE, c)
        ELSE validateWithCRLs(e, EndEntity(found.certs, sig), found.certs, creds, c, found.crls)

\* CRLs are not looked for.
PKIXRaw(e, sig, creds, c) ==
    LET found == resolve(sig.keyInfo, {"certs"}, FALSE)
    IN  IF found = None \/ EndEntity(found.certs, sig) = None THEN Answer(FALSE, c)
        ELSE validateWithCRLs(e, EndEntity(found.certs, sig), found.certs, creds, c, <<>>)

PKIXCertificate(e, ee, certs, creds, c) == validateWithCRLs(e, ee, certs, creds, c, <<>>)
-----------------------------------------------------------------------------
(***************************************************************************)
(* The chain                                                               *)
(***************************************************************************)
Validate(e, q, creds, c) ==
    IF e.kind = "explicit"
    THEN CASE q.op = "signature"   -> ExplicitSignature(q.sig, creds, c)
           [] q.op = "raw"         -> ExplicitRaw(q.sig, creds, c)
           [] q.op = "certificate" -> ExplicitCertificate(q.shown.ee, creds, c)
    ELSE CASE q.op = "signature"   -> PKIXSignature(e, q.sig, creds, c)
           [] q.op = "raw"         -> PKIXRaw(e, q.sig, creds, c)
           [] q.op = "certificate" -> PKIXCertificate(e, q.shown.ee, q.shown.certs, creds, c)

\* A fault: the usage is not put back.
CleanedBare(c, usage) == reset(c)

\* After an engine that fails, the criteria are reset but for the usage.
Cleaned(c, usage) == setUsage(reset(c), usage)

Turn(e, q, creds, so, usage) ==
    LET r == Validate(e, q, creds, so.crit)
    IN  IF so.ok THEN so
        ELSE IF r.ok THEN r
        ELSE Answer(FALSE, Returned(so.crit, Cleaned(r.crit, usage)))

ValidateInTurn(engines, q, creds, c) ==
    LET acc[i \in 0..Len(engines)] ==
          IF i = 0 THEN Answer(FALSE, c)
          ELSE Turn(engines[i], q, creds, acc[i - 1], WithCriteria(c).usage)
    IN  acc[Len(engines)]

NoCall == [op |-> "none", asked |-> None]

TrustInit ==
    /\ peers \in PeerSets
    /\ remote \in Remotes
    /\ chain = <<>>
    /\ crit \in Asked
    /\ call = NoCall
    /\ verdict = FALSE

addTrustEngine ==
    /\ call = NoCall
    /\ Len(chain) < MaxEngines
    /\ \E e \in Engines : e \notin Range(chain) /\ chain' = Append(chain, e)
    /\ call' = NoCall /\ verdict' = FALSE
    /\ UNCHANGED <<peers, remote, crit>>

\* The engine is taken off every list it is on, and handed back; the next caller
\* has criteria of its own.
removeTrustEngine ==
    /\ \E i \in DOMAIN chain : chain' = RemoveAt(chain, i)
    /\ call' = NoCall /\ verdict' = FALSE
    /\ crit' \in Asked
    /\ UNCHANGED <<peers, remote>>

Questions ==
    [op : {"signature", "raw"}, sig : Signatures] \cup [op : {"certificate"}, shown : Presented]

\* The criteria go into the next call as this one leaves them.
Ask ==
    /\ chain # <<>>
    /\ \E q \in Questions :
          LET r == ValidateInTurn(chain, q, peers, crit)
          IN  /\ call' = [op |-> "asked", q |-> q, asked |-> crit]
              /\ verdict' = r.ok
              /\ crit' = r.crit
    /\ UNCHANGED <<peers, remote, chain>>

TrustNext == addTrustEngine \/ removeTrustEngine \/ Ask

TrustSpec == TrustInit /\ [][TrustNext]_trustVars
-----------------------------------------------------------------------------
(***************************************************************************)
(* Properties                                                              *)
(***************************************************************************)
\* Whether the criteria hold nothing but what a chain keeps: reset() throws the
\* rest away after the first engine that fails.
Lasting(c) ==
    c = None \/ c = [NoCriteria EXCEPT !.usage = c.usage, !.peer = c.peer, !.key = c.key]

\* A chain accepts what one of its engines accepts alone, whatever their order
\* and whatever the ones before have done to the criteria they share.
ChainAgrees ==
    call.op = "asked" /\ Lasting(call.asked)
    => (verdict <=> \E i \in DOMAIN chain : Validate(chain[i], call.q, peers, call.asked).ok)

\* "Pull CRLs from external CDP first, since an attacker is likely to stick an old
\* but valid CRL into the signature" (PKIXPathValidator): what the distribution
\* point of the signer's certificate says is revoked is not accepted, whatever CRL
\* the signature brings along.
CDPWins ==
    call.op = "asked" /\ call.q.op = "signature" /\ verdict
    /\ (\A i \in DOMAIN chain : chain[i].kind = "pkix" /\ chain[i].revocation # "off")
    => LET found == resolve(call.q.sig.keyInfo, {"certs"}, FALSE)
           ee == EndEntity(found.certs, call.q.sig)
       IN  \A i \in DOMAIN ee.cdps :
              LET crl == remote[ee.cdps[i]]
              IN  crl # None /\ crl.fresh /\ crl.issuer = ee.issuer /\ ee = Head(found.certs)
                    /\ (\A j \in 1..i - 1 : remote[ee.cdps[j]] = None \/ ~remote[ee.cdps[j]].fresh)
                  => ee.serial \notin crl.revoked

NamesSent(sig) == IF sig.keyInfo = None THEN {} ELSE sig.keyInfo.names

\* A peer whose credential is among those the caller's resolver holds, under the
\* same names or under one that it sends, can sign with it: whatever KeyInfo it
\* publishes with the signature, full or compact, the explicit engine comes upon
\* that credential.
SignerAccepted ==
    call.op = "asked" /\ call.q.op # "certificate" /\ Lasting(call.asked)
    /\ WithCriteria(call.asked).key = None
    /\ (\E i \in DOMAIN chain : chain[i].kind = "explicit")
    /\ (\E i \in DOMAIN peers :
           CertificateOf(peers[i], call.q.sig)
             /\ (call.q.sig.by = peers[i].names \/ NamesSent(call.q.sig) \cap peers[i].names # {})
             /\ (peers[i].usage = {} \/ "sign" \in peers[i].usage))
    => verdict
=============================================================================
