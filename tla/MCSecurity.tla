------------------------------ MODULE MCSecurity ------------------------------
(* What protects messages, for TLC: a behaviour is one of TrustEngines, of *)
(* XMLSignature, of XMLEncryption or of CRLCache, which share no state;    *)
(* the others stay in one of their initial states.                         *)
EXTENDS TrustEngines, XMLSignature, XMLEncryption, CRLCache

CONSTANT Running      \* which of them are checked

ASSUME RunningAssumption == Running \subseteq {"trust", "signature", "encryption", "crl"}

VARIABLE running

mcVars == <<trustVars, signatureVars, encryptionVars, crlVars, running>>
-----------------------------------------------------------------------------
(* A small PKI. *)
Pair(id) == Key(id, "RSA", "pair", 0)
Cert(id, subject, issuer, serial, cdps) ==
    [key |-> PublicHalf(Pair(id)), subject |-> subject, cn |-> "cn", alt |-> {},
     issuer |-> issuer, serial |-> serial, cdps |-> cdps]

RootCert  == [Cert("kr", "root", "root", 1, <<>>) EXCEPT !.cn = "rootCN"]
InterCert == [Cert("ki", "inter", "root", 2, <<"cdpRoot">>) EXCEPT !.cn = None]
PeerCert  == [Cert("kp", "peerDN", "inter", 3, <<"cdpA", "cdpB">>) EXCEPT !.cn = "peer"]
LoneCert  == [Cert("kl", "loneDN", "loneDN", 4, <<>>) EXCEPT !.cn = "lone", !.alt = {"alias"}]

CRL(issuer, revoked, fresh, current) ==
    [issuer |-> issuer, revoked |-> revoked, fresh |-> fresh, current |-> current]
RootCRL == CRL("root", {}, TRUE, TRUE)
OldCRL  == CRL("inter", {}, FALSE, TRUE)
NewCRL  == CRL("inter", {3}, TRUE, TRUE)

MCRemotes == {[cdpRoot |-> RootCRL, cdpA |-> x[1], cdpB |-> x[2]] :
               x \in {<<NewCRL, OldCRL>>, <<None, OldCRL>>, <<None, None>>}}

PeerCred(mask, extracted) ==
    initKeyInfo(FileCredential(Pair("kp"), <<PeerCert, InterCert>>, <<>>, {"sign"}, extracted, {"name"}),
                mask)
LoneCred(usage) ==
    initKeyInfo(FileCredential(Pair("kl"), <<LoneCert>>, <<>>, usage, TRUE, {}), {})

SignedBy(cred, alg, compact, built, list) ==
    LET ki == getKeyInfo(cred, compact)
        Brings(d) == [d EXCEPT !.crls = list]
    IN  [alg |-> alg, built |-> built, signer |-> cred.key, by |-> cred.names,
         keyInfo |-> IF ki = None \/ list = <<>> THEN ki ELSE InX509Data(ki, Brings)]

\* A signer of another make, which encodes its key.
SignedBare ==
    [alg |-> "rsaSha256", built |-> TRUE, signer |-> Pair("kp"), by |-> {"peer"},
     keyInfo |-> [EmptyKeyInfo EXCEPT !.der = <<Spoilt, getDEREncoding(Pair("kp"))>>]]

MCSignatures ==
    {SignedBy(PeerCred({}, TRUE), "rsaSha256", FALSE, built, <<OldCRL>>) : built \in BOOLEAN}
    \cup {SignedBy(PeerCred({"name"}, x), "rsaSha256", TRUE, x, <<>>) : x \in BOOLEAN}
    \cup {SignedBy(LoneCred({"sign"}), "rsaSha256", FALSE, TRUE, <<>>), SignedBare}

MCPresented == {[ee |-> PeerCert, certs |-> <<PeerCert, InterCert>>], [ee |-> LoneCert, certs |-> <<>>]}

MCPeerSets == {<<PeerCred({}, TRUE), LoneCred({"sign"})>>, <<PeerCred({}, FALSE), LoneCred({"tls"})>>}

Explicit == [kind |-> "explicit", names |-> {}, revocation |-> "off", depth |-> 0, anchors |-> <<>>, crls |-> <<>>]
PKIX(names, revocation, depth) ==
    [kind |-> "pkix", names |-> names, revocation |-> revocation, depth |-> depth,
     anchors |-> <<RootCert>>, crls |-> <<RootCRL>>]
MCEngines == {Explicit, PKIX({"peer"}, "fullChain", 1), PKIX({}, "entityOnly", 0)}

MCAsked == {None, [NoCriteria EXCEPT !.peer = "peer"],
            [NoCriteria EXCEPT !.usage = {"tls"}]}
-----------------------------------------------------------------------------
(* Two signing credentials, and two recipients of encrypted data, one of whom *)
(* also has a secret key, which the sender tries in vain.                    *)
MCSigners == {[key |-> "k1", keyInfo |-> "i1"], [key |-> "k2", keyInfo |-> Null]}

RecipientCred(id, name, mask) ==
    initKeyInfo(FileCredential(Pair(id), <<Cert(id, name, "ca", id, <<>>)>>, <<>>, {"encrypt"}, TRUE, {}),
                mask)
SecretCred ==
    initKeyInfo([BasicCredential(Key(14, "AES", None, 128), <<>>, <<>>)
                 EXCEPT !.names = {"shared"}, !.usage = {"encrypt"}], {})

MCDataAlg == <<"aes128", "aes128gcm">>
MCParties ==
    [alice |-> <<RecipientCred(12, "alice", {"name"})>>,
     bob   |-> <<SecretCred, RecipientCred(13, "bob", {})>>]
MCWrapAlg == {None, "rsa15"}
MCDecryptWith == {NoCriteria}

\* A CRL that expires in the run, and one that outlives it.
MCIssued == {[from |-> 1, next |-> 4], [from |-> 2, next |-> 9]}
-----------------------------------------------------------------------------
AnyOf(S) == CHOOSE x \in S : TRUE

MCInit ==
    /\ running \in Running
    /\ TrustInit /\ SignatureInit /\ EncryptionInit /\ CRLInit
    /\ running # "trust" => /\ peers = AnyOf(PeerSets) /\ remote = AnyOf(Remotes)
                             /\ crit = AnyOf(Asked)
    /\ running # "signature" => text = AnyOf(Text)
    /\ IF running = "crl" THEN served # AnyOf(Issued) ELSE served = Absent

Runs(mode) == running = mode /\ running' = mode

TrustStep == Runs("trust") /\ TrustNext /\ UNCHANGED <<signatureVars, encryptionVars, crlVars>>
SignatureStep == Runs("signature") /\ SignatureNext /\ UNCHANGED <<trustVars, encryptionVars, crlVars>>
EncryptionStep == Runs("encryption") /\ EncryptionNext /\ UNCHANGED <<trustVars, signatureVars, crlVars>>
CRLStep == Runs("crl") /\ CRLNext /\ UNCHANGED <<trustVars, signatureVars, encryptionVars>>

MCNext == TrustStep \/ SignatureStep \/ EncryptionStep \/ CRLStep

\* CRLFairness, of the behaviours that are its own.
MCFairness ==
    /\ WF_crlVars(running = "crl" /\ Elapse)
    /\ \A t \in Caller : WF_crlVars(running = "crl" /\ Getting(t))

MCSpec == MCInit /\ [][MCNext]_mcVars /\ MCFairness
=============================================================================
