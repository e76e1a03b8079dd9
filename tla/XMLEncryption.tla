---------------------------- MODULE XMLEncryption ----------------------------
(***************************************************************************)
(* Encrypter, Decrypter and EncryptedKeyResolver (encryption/impl).  A     *)
(* sender encrypts with parameters it keeps and may use again; the data    *)
(* key is generated into a buffer of the Encrypter, to which the           *)
(* parameters then point, and wrapped for one recipient; more recipients   *)
(* are added with encryptKey().  A recipient tries the private keys of its *)
(* credentials on the data, where they open nothing, and then looks for an *)
(* EncryptedKey it can unwrap.  A credential in the parameters themselves, *)
(* for a key that is shared, makes the Encrypter throw: the credentials of *)
(* the library give no secret key away (BasicX509Credential.cpp).          *)
(*                                                                         *)
(* What is encrypted is known by the key it can be decrypted with, and a   *)
(* key by its number; a wrong key is found out.                            *)
(***************************************************************************)
EXTENDS Credentials

CONSTANTS Slots,       \* the sender's parameter structures, each with the data made
          DataAlg,     \* their data encryption algorithms
          Parties,     \* recipients: functions from their names to their credentials
          WrapAlg,     \* key transport algorithms a sender names, None among them
          DecryptWith, \* criteria a Decrypter may be given, None for none
          MaxKeys,     \* bound: keys generated
          MaxEncryptedKeys, \* bound: EncryptedKeys in a KeyInfo
          EncryptCalls \* the hazardous calls a client makes, of HazardousEncryption

\* Using a pointer into the Encrypter's buffer after it holds another key, and
\* an EncryptedKey that names no recipient beside others.
HazardousEncryption == {"alias", "anonymous"}

ASSUME EncryptionAssumption ==
    /\ MaxKeys \in Nat /\ MaxEncryptedKeys \in Nat
    /\ EncryptCalls \subseteq HazardousEncryption
    /\ None \in WrapAlg /\ DOMAIN DataAlg = Slots

VARIABLES buffer,      \* Encrypter::m_keyBuffer: the number of the key in it
          keys,        \* how many have been generated
          params,      \* EncryptionParams
          sent,        \* the EncryptedData made with each, None before
          decrypterCriteria,
          outcome      \* of the last decryptData()

encryptionVars == <<buffer, keys, params, sent, decrypterCriteria, outcome>>

\* key is the one that the Encrypter's buffer held when m_keyBuffer of the
\* parameters was pointed to it; what is used is the one the buffer holds now.
EncryptionParams(alg) == [alg |-> alg, key |-> None]
KeyEncryptionParams(cred, alg, recipient) == [cred |-> cred, alg |-> alg, recipient |-> recipient]

\* A recipient's credential as the sender has it: the public half of the key.  A
\* secret key is of no use to either side.
PublicSide(c) == IF c.key.alg \in Asymmetric THEN [c EXCEPT !.key = PublicHalf(@)] ELSE c

NoOutcome == [slot |-> None, party |-> None, strict |-> FALSE, ok |-> FALSE]

EncryptionInit ==
    /\ buffer = 0 /\ keys = 0
    /\ params = [i \in Slots |-> None]
    /\ sent = [i \in Slots |-> None]
    /\ decrypterCriteria = None
    /\ outcome = NoOutcome
-----------------------------------------------------------------------------
(***************************************************************************)
(* Encrypter                                                               *)
(***************************************************************************)
\* A secret key of 128 bits and one of 192 are known by other algorithms; for the
\* secret keys of AES every case of the switch falls through to the last.
getKeyTransportAlgorithm(cred) ==
    CASE getAlgorithm(cred) \in {None, "RSA"} -> "rsaOaep"
      [] getAlgorithm(cred) = "DESede" -> "kw3des"
      [] OTHER -> None

TransportFor(k) == IF k.alg # None THEN k.alg ELSE getKeyTransportAlgorithm(k.cred)

Wrapped(key, k, alg, compact) ==
    [alg |-> alg, kek |-> getPublicKey(k.cred).id, wraps |-> key, recipient |-> k.recipient,
     keyInfo |-> getKeyInfo(k.cred, compact)]

EncryptedKeys(data) == IF data.keyInfo = None THEN <<>> ELSE data.keyInfo.others

InKeyInfo(ki, encKey) == [(IF ki = None THEN EmptyKeyInfo ELSE ki) EXCEPT !.others = Append(@, encKey)]

NewParams(i) ==
    /\ params' = [params EXCEPT ![i] = EncryptionParams(DataAlg[i])]
    /\ sent' = [sent EXCEPT ![i] = None]
    /\ outcome' = NoOutcome
    /\ UNCHANGED <<buffer, keys, decrypterCriteria>>

\* checkParams(): a key is generated once for the parameters.
NeedsKey(p) == p.key = None

\* A fault: the key stays the one that is in the buffer.
KeyDrawnOnce(p) == IF NeedsKey(p) /\ buffer = 0 THEN keys + 1 ELSE buffer

KeyDrawn(p) == IF NeedsKey(p) THEN keys + 1 ELSE buffer

KeyUnused(n) == \A j \in Slots : sent[j] # None => sent[j].key # n

\* encryptElement(), encryptElementContent(), encryptStream(): they differ in what
\* is encrypted.  The recipient's key is looked at only after the data is done, so
\* that a failure then leaves the parameters with a key.
Encrypt(i, k, compact) ==
    LET p == params[i]
        key == KeyDrawn(p)
        wraps == k # None /\ getPublicKey(k.cred) # None /\ TransportFor(k) # None
    IN  /\ p # None
        /\ NeedsKey(p) => k # None /\ keys < MaxKeys
        /\ p.key # None => "alias" \in EncryptCalls \/ (p.key = buffer /\ KeyUnused(buffer))
        /\ buffer' = KeyDrawn(p)
        /\ keys' = IF NeedsKey(p) THEN keys + 1 ELSE keys
        /\ params' = [params EXCEPT ![i].key = IF NeedsKey(p) THEN KeyDrawn(p) ELSE @]
        /\ sent' = IF k # None /\ ~wraps THEN sent
                   ELSE [sent EXCEPT ![i] =
                           [alg |-> p.alg, key |-> key,
                            keyInfo |-> IF k = None THEN None
                                        ELSE InKeyInfo(None, Wrapped(key, k, TransportFor(k), compact))]]
        /\ outcome' = NoOutcome
        /\ UNCHANGED decrypterCriteria

\* encryptKey() with the key the parameters point to: the one in the buffer now.
\* The algorithm must be named, and the client puts the result into the KeyInfo.
encryptKey(i, k, compact) ==
    /\ params[i] # None /\ params[i].key # None /\ sent[i] # None
    /\ params[i].key = buffer \/ "alias" \in EncryptCalls
    /\ k.alg # None /\ getPublicKey(k.cred) # None
    /\ Len(EncryptedKeys(sent[i])) < MaxEncryptedKeys
    /\ sent' = [sent EXCEPT ![i].keyInfo = InKeyInfo(@, Wrapped(buffer, k, k.alg, compact))]
    /\ outcome' = NoOutcome
    /\ UNCHANGED <<buffer, keys, params, decrypterCriteria>>
-----------------------------------------------------------------------------
(***************************************************************************)
(* EncryptedKeyResolver and Decrypter                                      *)
(***************************************************************************)
\* A fault: the recipient is not looked at.
resolveAnyEncryptedKey(data, recipient) == FirstOf(EncryptedKeys(data))

\* The first EncryptedKey for the recipient, or for nobody in particular; one that
\* a RetrievalMethod leads to is taken whoever it is for.
resolveEncryptedKey(data, recipient) ==
    IF data.keyInfo = None THEN None
    ELSE FirstOf(SelectSeq(data.keyInfo.others,
                         LAMBDA e : recipient = None \/ e.recipient \in {None, recipient})
                 \o data.keyInfo.methods)

\* What is looked for, in the caller's criteria if there are any.
Sought(c, ki, alg) ==
    setXMLAlgorithm(setKeyInfo(setUsage(IF c = None THEN NoCriteria ELSE c, {"encrypt"}), ki, {"key", "names"}),
                    alg)

\* A credential whose key opens what was wrapped with key id.
Opens(creds, id) ==
    \E j \in DOMAIN creds : getPrivateKey(creds[j]) # None /\ getPrivateKey(creds[j]).id = id

\* The first look-up finds private keys, and none that data is encrypted with; it
\* leaves its criteria.  decryptKey() answers with some key in any case: with one
\* that was drawn at random if none of the credentials can unwrap it.
decryptData(data, creds, recipient, c) ==
    LET direct == Sought(c, data.keyInfo, data.alg)
        encKey == resolveEncryptedKey(data, recipient)
        unwrap == Sought(direct, encKey.keyInfo, encKey.alg)
    IN  IF encKey = None THEN [ok |-> FALSE, crit |-> direct]
        ELSE [ok |-> Opens(ResolveAll(creds, unwrap), encKey.kek) /\ encKey.wraps = data.key,
              crit |-> unwrap]

\* A Decrypter may have been made to require an authenticated cipher.
Permitted(data, strict) == strict => isXMLAlgorithmSupported(data.alg, "authnencrypt")

Decrypt(i, party, strict) ==
    /\ sent[i] # None
    /\ LET r == decryptData(sent[i], Parties[party], party, decrypterCriteria)
       IN  /\ outcome' = [slot |-> i, party |-> party, strict |-> strict,
                          ok |-> r.ok /\ Permitted(sent[i], strict)]
           /\ decrypterCriteria' = IF decrypterCriteria = None THEN None ELSE r.crit
    /\ UNCHANGED <<buffer, keys, params, sent>>

setKEKResolver ==
    /\ decrypterCriteria' \in DecryptWith
    /\ outcome' = NoOutcome
    /\ UNCHANGED <<buffer, keys, params, sent>>

Recipients ==
    UNION {[cred : {PublicSide(Parties[r][j]) : j \in DOMAIN Parties[r]}, alg : WrapAlg,
            recipient : {r} \cup (IF "anonymous" \in EncryptCalls THEN {None} ELSE {})] : r \in DOMAIN Parties}

EncryptionNext ==
    \/ \E i \in Slots : NewParams(i)
    \/ \E i \in Slots, k \in Recipients \cup {None}, compact \in BOOLEAN : Encrypt(i, k, compact)
    \/ \E i \in Slots, k \in Recipients, compact \in BOOLEAN : encryptKey(i, k, compact)
    \/ \E i \in Slots, r \in DOMAIN Parties, strict \in BOOLEAN : Decrypt(i, r, strict)
    \/ setKEKResolver

EncryptionSpec == EncryptionInit /\ [][EncryptionNext]_encryptionVars
-----------------------------------------------------------------------------
(***************************************************************************)
(* Properties                                                              *)
(***************************************************************************)
KeysFor(data, r) == {e \in Range(EncryptedKeys(data)) : e.recipient = r}

\* A recipient decrypts data with an EncryptedKey in it that names the recipient,
\* whichever of its credentials that was meant for, however full the KeyInfo is,
\* whoever else it was encrypted for and whatever the same Decrypter has been used
\* for before; and nobody else does.
DecryptsBack ==
    outcome.slot # None =>
    LET data == sent[outcome.slot]
    IN  outcome.ok <=> /\ KeysFor(data, outcome.party) # {}
                       /\ outcome.strict => data.alg = "aes128gcm"

\* Data made with different parameters has different keys: "a random key will be
\* generated" (Encrypter.h).
KeysApart ==
    \A i, j \in Slots :
      i # j /\ sent[i] # None /\ sent[j] # None => sent[i].key # sent[j].key
=============================================================================
