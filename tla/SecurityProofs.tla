----------------------------- MODULE SecurityProofs -----------------------------
(***************************************************************************)
(* Proofs about what protects messages: what was signed verifies and stays *)
(* at home, data encrypted apart has keys apart, the cache of CRLs answers *)
(* with one that is whole and has not expired, a chain of trust engines    *)
(* accepts what one of them accepts, and the CRLs of distribution points   *)
(* come first; for any texts, algorithms, keys, KeyInfos, credentials and  *)
(* engines, any number of callers and any CRLs that are served.            *)
(***************************************************************************)
EXTENDS XMLSignature, XMLEncryption, CRLCache, TrustEngines, WellFoundedInduction, TLAPS

\* The signature has a DOM while the root has one, which says what the root says.
RootInStep ==
    /\ rootDOM => sdom # Null /\ native # FreedDoc /\ tree = text /\ document # NoDoc
    /\ sdom # Null /\ native # FreedDoc => tree \in Text

\* The native signature follows the DOM of the signature, but for one left behind.
NativeInStep ==
    /\ native # FreedDoc => native = IF sdom # Null THEN document ELSE NoDoc
    /\ native = FreedDoc => sdom # Null
    /\ sdom # Null => xml = Null

\* Nothing that was signed is lost or altered, but a KeyInfo may be added, as long
\* as no object is used again that marshall() has left without a document.
ValueKept ==
    made # Null /\ "reuse" \notin SignCalls =>
        /\ Kept # Null
        /\ made.value # Null /\ made.value.alg = made.alg
        /\ Kept.value = made.value /\ Kept.alg = made.alg
        /\ made.keyInfo # Null => Kept.keyInfo = made.keyInfo

SignatureInv == SignatureTypeOK /\ RootInStep /\ NativeInStep /\ ValueKept

\* The KeyInfo has its DOM in the document of the root only with the signature.
KeyInfoInStep ==
    native # FreedDoc =>
        /\ keyInfoDOM # FreedDoc
        /\ keyInfoDOM \in Documents => sdom # Null

\* The client may call more than the destructor.
Fit == native # FreedDoc \/ "reuse" \in SignCalls
-----------------------------------------------------------------------------
(* Every signature is a record that Null is not. *)
LEMMA NotNull ==
    /\ \A s \in NativeSignatures : s # Null
    /\ \A v \in Values : v # Null
    /\ \A s \in Signers : s # Null
  BY SignatureAssumption

(* What a signature operation leaves is a signature again. *)
LEMMA SignedType ==
    ASSUME NEW s \in NativeSignatures, NEW signer \in Signers \cup {Null}, NEW over \in Text,
           SignatureTypeOK, KeyOf(signer) # Null
    PROVE  /\ KeyOf(signer) \in SigningKey
           /\ Signed(s, signer, over) \in NativeSignatures
           /\ Signed(s, signer, over).alg = s.alg
           /\ Signed(s, signer, over).keyInfo = s.keyInfo
           /\ Signed(s, signer, over).value \in Values
           /\ Signed(s, signer, over).value.alg = s.alg
<1>1. KeyOf(signer) \in SigningKey
  BY SignatureAssumption DEF KeyOf, SignatureTypeOK
<1>2. [key |-> KeyOf(signer), alg |-> s.alg, over |-> over] \in Values
  BY <1>1 DEF Values, NativeSignatures
<1>. QED BY <1>1, <1>2 DEF Signed, NativeSignatures

(* What is read of a signature is one, and the one that is kept if its DOM lives. *)
LEMMA WhatIsRead ==
    ASSUME SignatureInv
    PROVE  /\ Read \subseteq NativeSignatures \cup {Null}
           /\ native # FreedDoc => Read = {Kept}
           /\ Kept \in NativeSignatures \cup {Null}
  BY DEF Read, Kept, SignatureInv, SignatureTypeOK

(* The DOM is saved as it is. *)
LEMMA Released ==
    ASSUME SignatureInv, Fit, ReleaseDOM, UNCHANGED <<made, document>>
    PROVE  /\ sdom' = Null /\ native' = NoDoc /\ xml' \in NativeSignatures \cup {Null}
           /\ ValueKept'
<1>1. sdom' = Null /\ native' = NoDoc /\ xml' \in Read /\ made' = made
  BY DEF ReleaseDOM
<1>2. ASSUME "reuse" \notin SignCalls PROVE Kept' = Kept
  BY <1>1, <1>2, WhatIsRead DEF Kept, Fit
<1>. QED BY <1>1, <1>2, WhatIsRead DEF ValueKept, SignatureInv

(* Touching a setting. *)
LEMMA Touched ==
    ASSUME SignatureInv, Fit, Touch, UNCHANGED <<text, document, tree, made>>
    PROVE  /\ sdom' \in NativeSignatures \cup {Null} /\ xml' \in NativeSignatures \cup {Null}
           /\ native' \in Documents \cup {NoDoc, FreedDoc} /\ rootDOM' \in BOOLEAN /\ requested' = FALSE
           /\ RootInStep' /\ NativeInStep' /\ ValueKept'
<1> USE DEF NoDoc, FreedDoc
<1>1. CASE sdom # Null
  <2>1. ReleaseDOM /\ rootDOM' = FALSE /\ requested' = FALSE
    BY <1>1 DEF Touch
  <2>2. sdom' = Null /\ native' = NoDoc /\ xml' \in NativeSignatures \cup {Null} /\ ValueKept'
    BY <2>1, Released
  <2>3. RootInStep' /\ NativeInStep'
    BY <2>1, <2>2 DEF RootInStep, NativeInStep
  <2>. QED BY <2>1, <2>2, <2>3
<1>2. CASE sdom = Null
  <2>1. UNCHANGED <<sdom, native, xml, rootDOM>> /\ requested' = FALSE
    BY <1>2 DEF Touch
  <2>2. Kept' = Kept
    BY <2>1 DEF Kept
  <2>. QED BY <1>2, <2>1, <2>2 DEF SignatureInv, SignatureTypeOK, RootInStep, NativeInStep, ValueKept
<1>. QED BY <1>1, <1>2
-----------------------------------------------------------------------------
LEMMA InitInv == SignatureInit => SignatureInv /\ KeyInfoInStep
<1> SUFFICES ASSUME SignatureInit PROVE SignatureInv /\ KeyInfoInStep
  OBVIOUS
<1> USE DEF SignatureInit, NoDoc, OwnDoc, FreedDoc, Documents
<1>1. SignatureTypeOK
  BY DEF SignatureTypeOK
<1>2. RootInStep /\ NativeInStep /\ ValueKept
  BY DEF RootInStep, NativeInStep, ValueKept
<1>3. KeyInfoInStep
  BY DEF KeyInfoInStep
<1>. QED BY <1>1, <1>2, <1>3 DEF SignatureInv

(* What marshall() puts into the new document. *)
LEMMA PutIn ==
    ASSUME SignatureInv, Fit, NEW s \in Signers \cup {Null}, NEW was \in Marshalled
    PROVE  /\ KeyInfoOf(s) \in SignKeyInfo \cup {Null}
           /\ Full(was, s) \in NativeSignatures
           /\ Full(was, s).alg = was.alg /\ Full(was, s).value = was.value
           /\ was.keyInfo # Null => Full(was, s).keyInfo = was.keyInfo
           /\ Kept # Null /\ "reuse" \notin SignCalls => was = Kept
<1>1. KeyInfoOf(s) \in SignKeyInfo \cup {Null}
  BY SignatureAssumption DEF KeyInfoOf, SignatureInv, SignatureTypeOK
<1>2. Blank \in NativeSignatures
  BY DEF Blank, SignatureInv, SignatureTypeOK, NativeSignatures, Algorithms
<1>3. was \in NativeSignatures
  BY <1>2, WhatIsRead DEF Marshalled
<1>4. Kept # Null /\ "reuse" \notin SignCalls => was = Kept
  BY WhatIsRead DEF Marshalled, Fit
<1>. QED BY <1>1, <1>3, <1>4 DEF Full, Written, NativeSignatures

(* Where its KeyInfo has a DOM then. *)
LEMMA KeyInfoPut ==
    ASSUME SignatureInv, NEW s \in Signers \cup {Null}
    PROVE  KeyInfoLeft(s) \in Documents \cup {NoDoc, OwnDoc, FreedDoc}
  BY DEF KeyInfoLeft, ReleasedKeyInfo, SignatureInv, SignatureTypeOK

(* marshall() of a root without a DOM. *)
LEMMA RootMarshalled ==
    ASSUME SignatureInv, Fit, NEW s \in Signers \cup {Null}, NEW sign \in BOOLEAN, MarshallRoot(sign, s)
    PROVE  SignatureInv'
<1>1. PICK was \in Marshalled :
         /\ sdom' = IF sign THEN Signed(Full(was, s), s, text) ELSE Full(was, s)
         /\ LET kd == IF Written(was, s) THEN New ELSE KeyInfoLeft(s)
            IN  keyInfoDOM' = IF kd # NoDoc /\ kd = document THEN FreedDoc ELSE kd
  BY DEF MarshallRoot
<1>2. /\ sign => CanSign(s)
      /\ made' = IF sign THEN sdom' ELSE made
      /\ native' = New /\ xml' = Null /\ keyInfo' = KeyInfoOf(s)
      /\ rootDOM' = TRUE /\ document' = New /\ tree' = text
      /\ requested' = sign
      /\ UNCHANGED <<text, settings>>
  BY DEF MarshallRoot
<1>3. text \in Text /\ New \in Documents /\ New # NoDoc /\ New # FreedDoc
  BY DEF SignatureInv, SignatureTypeOK, Documents, NoDoc, FreedDoc, New
<1>4. keyInfoDOM' \in Documents \cup {NoDoc, OwnDoc, FreedDoc}
  BY <1>1, <1>3, KeyInfoPut
<1>5. sdom' \in NativeSignatures /\ made' \in NativeSignatures \cup {Null} /\ ValueKept'
  <2>1. CASE sign
    <3>1. /\ KeyOf(s) # Null /\ SignatureTypeOK
          /\ sdom' = Signed(Full(was, s), s, text) /\ made' = sdom'
      BY <1>1, <1>2, <2>1 DEF CanSign, SignatureInv
    <3>2. /\ sdom' \in NativeSignatures /\ sdom'.value \in Values
          /\ sdom'.value.alg = sdom'.alg
      BY <1>3, <3>1, PutIn, SignedType
    <3>3. sdom' # Null /\ sdom'.value # Null
      BY <3>2, NotNull
    <3>. QED BY <3>1, <3>2, <3>3 DEF ValueKept, Kept
  <2>2. CASE ~sign
    <3>1. sdom' = Full(was, s) /\ made' = made
      BY <1>1, <1>2, <2>2
    <3>2. sdom' \in NativeSignatures /\ sdom' # Null
      BY <3>1, PutIn, NotNull
    <3>3. ValueKept'
      BY <3>1, <3>2, PutIn DEF ValueKept, Kept, SignatureInv
    <3>. QED BY <3>1, <3>2, <3>3 DEF SignatureInv, SignatureTypeOK
  <2>. QED BY <2>1, <2>2
<1>6. SignatureTypeOK'
  <2>1. KeyInfoOf(s) \in SignKeyInfo \cup {Null}
    BY <1>1, PutIn
  <2>. QED BY <1>2, <1>3, <1>4, <1>5, <2>1 DEF SignatureInv, SignatureTypeOK, settings
<1>7. sdom' # Null
  BY <1>5, NotNull
<1>8. RootInStep' /\ NativeInStep'
  BY <1>2, <1>3, <1>7 DEF RootInStep, NativeInStep
<1>. QED BY <1>5, <1>6, <1>8 DEF SignatureInv

(* marshall() throws half way, and what was in the signature is in it still. *)
LEMMA RootNotMarshalled ==
    ASSUME SignatureInv, Fit, NEW s \in Signers \cup {Null}, MarshallRootThrows(s)
    PROVE  SignatureInv'
<1>1. PICK was \in Marshalled :
         /\ sdom' = Full(was, s)
         /\ keyInfoDOM' = IF Written(was, s) THEN FreedDoc ELSE KeyInfoLeft(s)
  BY DEF MarshallRootThrows
<1>2. /\ ~rootDOM /\ native' = FreedDoc /\ xml' = Null /\ keyInfo' = KeyInfoOf(s)
      /\ requested' = FALSE
      /\ UNCHANGED <<text, rootDOM, document, tree, sm, signingKey, reference, made>>
  BY DEF MarshallRootThrows, rootVars, settings
<1>3. keyInfoDOM' \in Documents \cup {NoDoc, OwnDoc, FreedDoc}
  BY <1>1, KeyInfoPut
<1>4. sdom' \in NativeSignatures /\ sdom' # Null /\ KeyInfoOf(s) \in SignKeyInfo \cup {Null}
  BY <1>1, PutIn, NotNull
<1>5. ValueKept'
  BY <1>1, <1>2, <1>4, PutIn DEF ValueKept, Kept, SignatureInv
<1>6. SignatureTypeOK'
  BY <1>2, <1>3, <1>4 DEF SignatureInv, SignatureTypeOK
<1>. QED BY <1>2, <1>4, <1>5, <1>6 DEF SignatureInv, RootInStep, NativeInStep

(* sign() of a signature that has a DOM. *)
LEMMA OnDOM ==
    ASSUME SignatureInv, NEW s \in Signers \cup {Null}, Signs(s)
    PROVE  /\ sdom # Null /\ KeyOf(s) # Null
           /\ native # FreedDoc => tree \in Text
           /\ Read \ {Null} \subseteq NativeSignatures
  BY WhatIsRead DEF Signs, CanSign, SignatureInv, RootInStep, NativeInStep

(* What does not reach the signature. *)
LEMMA Untouched ==
    ASSUME NativeInStep, ValueKept, UNCHANGED <<document, sdom, native, xml, made>>
    PROVE  NativeInStep' /\ ValueKept'
<1>1. NativeInStep'
  BY DEF NativeInStep
<1>2. Kept' = Kept
  BY DEF Kept
<1>. QED BY <1>1, <1>2 DEF ValueKept

LEMMA CallInvariant ==
    ASSUME SignatureInv, Fit, SignatureCall
    PROVE  SignatureInv'
<1> USE DEF SignatureInv
<1>1. ASSUME NEW t \in Text, SetText(t) PROVE SignatureInv'
  <2>1. /\ text' = t /\ rootDOM' = FALSE /\ requested' = FALSE
        /\ UNCHANGED <<document, tree, sdom, native, xml, sm, signingKey, reference, keyInfo, keyInfoDOM, made>>
    BY <1>1 DEF SetText, settings
  <2>2. SignatureTypeOK'
    <3>1. rootDOM' \in BOOLEAN /\ requested' \in BOOLEAN /\ reference' \in BOOLEAN
      BY <2>1 DEF SignatureTypeOK
    <3>2. text' \in Text
      BY <2>1 DEF SignatureTypeOK
    <3>. QED BY <2>1, <3>1, <3>2 DEF SignatureTypeOK
  <2>3. RootInStep'
    BY <2>1 DEF RootInStep
  <2>. QED BY <2>1, <2>2, <2>3, Untouched
<1>2. ASSUME NEW a \in SignatureAlg, setSignatureAlgorithm(a) PROVE SignatureInv'
  <2>1. Touch /\ sm' = a /\ UNCHANGED <<text, document, tree, signingKey, reference, keyInfo, keyInfoDOM, made>>
    BY <1>2 DEF setSignatureAlgorithm
  <2>2. /\ sdom' \in NativeSignatures \cup {Null} /\ xml' \in NativeSignatures \cup {Null}
        /\ native' \in Documents \cup {NoDoc, FreedDoc} /\ rootDOM' \in BOOLEAN /\ requested' = FALSE
        /\ RootInStep' /\ NativeInStep' /\ ValueKept'
    BY <2>1, Touched
  <2>3. SignatureTypeOK'
    BY <2>1, <2>2 DEF SignatureTypeOK
  <2>. QED BY <2>2, <2>3
<1>3. ASSUME NEW k \in SignKeyInfo, setSignatureKeyInfo(k) PROVE SignatureInv'
  <2>1. Touch /\ keyInfo' = k /\ keyInfoDOM' = NoDoc
        /\ UNCHANGED <<text, document, tree, sm, signingKey, reference, made>>
    BY <1>3 DEF setSignatureKeyInfo, settings
  <2>2. /\ sdom' \in NativeSignatures \cup {Null} /\ xml' \in NativeSignatures \cup {Null}
        /\ native' \in Documents \cup {NoDoc, FreedDoc} /\ rootDOM' \in BOOLEAN /\ requested' = FALSE
        /\ RootInStep' /\ NativeInStep' /\ ValueKept'
    BY <2>1, Touched
  <2>3. SignatureTypeOK'
    BY <2>1, <2>2 DEF SignatureTypeOK
  <2>. QED BY <2>2, <2>3
<1>4. ASSUME NEW k \in SigningKey, setSigningKey(k) PROVE SignatureInv'
  <2>1. /\ signingKey' = k /\ requested' = FALSE
        /\ UNCHANGED <<text, rootDOM, document, tree, sdom, native, xml, sm, reference, keyInfo, keyInfoDOM, made>>
    BY <1>4 DEF setSigningKey, rootVars
  <2>2. SignatureTypeOK'
    <3>1. rootDOM' \in BOOLEAN /\ requested' \in BOOLEAN /\ reference' \in BOOLEAN
      BY <2>1 DEF SignatureTypeOK
    <3>2. signingKey' \in SigningKey \cup {Null}
      BY <2>1 DEF SignatureTypeOK
    <3>. QED BY <2>1, <3>1, <3>2 DEF SignatureTypeOK
  <2>3. RootInStep'
    BY <2>1 DEF RootInStep
  <2>. QED BY <2>1, <2>2, <2>3, Untouched
<1>5. CASE setContentReference
  <2>1. /\ reference' = TRUE /\ requested' = FALSE
        /\ UNCHANGED <<text, rootDOM, document, tree, sdom, native, xml, sm, signingKey, keyInfo, keyInfoDOM, made>>
    BY <1>5 DEF setContentReference, rootVars
  <2>2. SignatureTypeOK'
    <3>1. rootDOM' \in BOOLEAN /\ requested' \in BOOLEAN /\ reference' \in BOOLEAN
      BY <2>1 DEF SignatureTypeOK
    <3>2. signingKey' \in SigningKey \cup {Null}
      BY <2>1 DEF SignatureTypeOK
    <3>. QED BY <2>1, <3>1, <3>2 DEF SignatureTypeOK
  <2>3. RootInStep'
    BY <2>1 DEF RootInStep
  <2>. QED BY <2>1, <2>2, <2>3, Untouched
<1>6. CASE releaseThisAndChildrenDOM
  <2>1. /\ rootDOM' = FALSE /\ keyInfoDOM' = NoDoc /\ requested' = FALSE
        /\ UNCHANGED <<text, document, tree, sm, signingKey, reference, keyInfo, made>>
    BY <1>6 DEF releaseThisAndChildrenDOM, settings
  <2>2. CASE sdom # Null
    <3>1. ReleaseDOM
      BY <1>6, <2>2 DEF releaseThisAndChildrenDOM
    <3>2. /\ sdom' = Null /\ native' = NoDoc /\ xml' \in NativeSignatures \cup {Null}
          /\ ValueKept'
      BY <2>1, <3>1, Released
    <3>3. SignatureTypeOK'
      BY <2>1, <3>2 DEF SignatureTypeOK
    <3>. QED BY <2>1, <3>2, <3>3 DEF RootInStep, NativeInStep, NoDoc, FreedDoc
  <2>3. CASE sdom = Null
    <3>1. UNCHANGED <<sdom, native, xml>>
      BY <1>6, <2>3 DEF releaseThisAndChildrenDOM
    <3>. QED BY <2>1, <2>3, <3>1 DEF SignatureTypeOK, RootInStep, NativeInStep, ValueKept, Kept
  <2>. QED BY <2>2, <2>3
<1>7. ASSUME NEW s \in Signers \cup {Null}, NEW sign \in BOOLEAN, MarshallRootCached(sign, s)
      PROVE SignatureInv'
  BY <1>7 DEF MarshallRootCached, rootVars, settings, SignatureTypeOK, RootInStep, NativeInStep,
              ValueKept, Kept
<1>8. ASSUME NEW s \in Signers \cup {Null}, NEW sign \in BOOLEAN, MarshallRoot(sign, s)
      PROVE SignatureInv'
  BY <1>8, RootMarshalled
<1>9. ASSUME NEW s \in Signers \cup {Null}, MarshallRootThrows(s) PROVE SignatureInv'
  BY <1>9, RootNotMarshalled
<1>10. ASSUME NEW s \in Signers \cup {Null}, Sign(s) PROVE SignatureInv'
  <2>1. PICK was \in Read \ {Null}, over \in IF native = FreedDoc THEN Text ELSE {tree} :
          sdom' = Signed(was, s, over)
    BY <1>10 DEF Sign
  <2>2. /\ Signs(s) /\ made' = sdom' /\ requested' = FALSE
        /\ UNCHANGED <<text, rootDOM, document, tree, native, xml, sm, signingKey, reference,
                        keyInfo, keyInfoDOM>>
    BY <1>10 DEF Sign, rootVars, settings
  <2>3. sdom # Null /\ KeyOf(s) # Null /\ over \in Text /\ was \in NativeSignatures
    BY <2>1, <2>2, OnDOM
  <2>4. /\ sdom' \in NativeSignatures /\ sdom'.value \in Values /\ sdom'.value.alg = sdom'.alg
    <3>1. SignatureTypeOK
      OBVIOUS
    <3>. QED BY <2>1, <2>3, <3>1, SignedType
  <2>5. sdom' # Null /\ sdom'.value # Null
    BY <2>4, NotNull
  <2>6. ValueKept'
    BY <2>2, <2>4, <2>5 DEF ValueKept, Kept
  <2>. QED BY <2>2, <2>3, <2>4, <2>5, <2>6 DEF SignatureTypeOK, RootInStep, NativeInStep
<1>11. ASSUME NEW s \in Signers \cup {Null}, SignFails(s) PROVE SignatureInv'
  <2>1. PICK was \in Read \ {Null} : sdom' = [was EXCEPT !.value = Null]
    BY <1>11 DEF SignFails
  <2>2. /\ Signs(s) /\ made' = Null /\ requested' = FALSE
        /\ UNCHANGED <<text, rootDOM, document, tree, native, xml, sm, signingKey, reference,
                        keyInfo, keyInfoDOM>>
    BY <1>11 DEF SignFails, rootVars, settings
  <2>3. sdom # Null /\ was \in NativeSignatures
    BY <2>2, OnDOM
  <2>4. sdom' \in NativeSignatures /\ sdom' # Null
    BY <2>1, <2>3, NotNull DEF NativeSignatures
  <2>. QED BY <2>2, <2>3, <2>4 DEF SignatureTypeOK, RootInStep, NativeInStep, ValueKept
<1>12. CASE CloneRoot
  <2>1. reference' = FALSE /\ requested' = FALSE /\ UNCHANGED <<text, rootDOM, made>>
    BY <1>12 DEF CloneRoot
  <2>2. CASE rootDOM
    <3>1. /\ native' = document /\ sm' = Null /\ signingKey' = Null
          /\ keyInfo' = Null /\ keyInfoDOM' = NoDoc
          /\ UNCHANGED <<document, tree, sdom, xml>>
      BY <1>12, <2>2 DEF CloneRoot
    <3>2. native = document /\ sdom # Null
      BY <2>2 DEF RootInStep, NativeInStep
    <3>. QED BY <2>1, <2>2, <3>1, <3>2 DEF SignatureTypeOK, RootInStep, NativeInStep, ValueKept, Kept
  <2>3. CASE ~rootDOM
    <3>1. /\ sdom' = Null /\ native' = NoDoc /\ xml' \in Read /\ document' = NoDoc /\ tree' = Null
          /\ keyInfoDOM' = IF keyInfoDOM \in Documents THEN OwnDoc ELSE keyInfoDOM
          /\ UNCHANGED <<sm, signingKey, keyInfo>>
      BY <1>12, <2>3 DEF CloneRoot, Copied
    <3>2. xml' \in NativeSignatures \cup {Null} /\ ("reuse" \notin SignCalls => xml' = Kept)
      BY <3>1, WhatIsRead DEF Fit
    <3>3. "reuse" \notin SignCalls => Kept' = Kept
      BY <3>1, <3>2 DEF Kept
    <3>4. ValueKept'
      BY <2>1, <3>3 DEF ValueKept
    <3>5. RootInStep' /\ NativeInStep'
      BY <2>1, <2>3, <3>1 DEF RootInStep, NativeInStep, NoDoc, FreedDoc
    <3>6. SignatureTypeOK'
      BY <2>1, <3>1, <3>2 DEF SignatureTypeOK
    <3>. QED BY <3>4, <3>5, <3>6
  <2>. QED BY <2>2, <2>3
<1>. QED BY <1>1, <1>2, <1>3, <1>4, <1>5, <1>6, <1>7, <1>8, <1>9, <1>10, <1>11, <1>12 DEF SignatureCall

(* A new root, as in the beginning. *)
LEMMA Discarded == Discard => SignatureInv' /\ KeyInfoInStep'
<1> SUFFICES ASSUME Discard PROVE SignatureInv' /\ KeyInfoInStep'
  OBVIOUS
<1> USE DEF Discard, NoDoc, OwnDoc, FreedDoc, Documents
<1>1. SignatureTypeOK'
  BY DEF SignatureTypeOK
<1>2. RootInStep' /\ NativeInStep' /\ ValueKept'
  BY DEF RootInStep, NativeInStep, ValueKept
<1>3. KeyInfoInStep'
  BY DEF KeyInfoInStep
<1>. QED BY <1>1, <1>2, <1>3 DEF SignatureInv

LEMMA Step ==
    ASSUME SignatureInv, [SignatureNext]_signatureVars
    PROVE  SignatureInv'
<1>1. CASE UNCHANGED signatureVars
  BY <1>1 DEF SignatureInv, signatureVars, rootVars, settings, SignatureTypeOK, RootInStep, NativeInStep,
              ValueKept, Kept
<1>. QED BY <1>1, CallInvariant, Discarded DEF SignatureNext, Fit

(* The invariant behind the theorems. *)
LEMMA Invariant == SignatureSpec => []SignatureInv
<1>1. SignatureInit => SignatureInv
  BY InitInv
<1>2. SignatureInv /\ [SignatureNext]_signatureVars => SignatureInv'
  BY Step
<1>. QED BY <1>1, <1>2, PTL DEF SignatureSpec
-----------------------------------------------------------------------------
(***************************************************************************)
(* The types hold.                                                         *)
(***************************************************************************)
THEOREM SignatureTypeCorrect == SignatureSpec => []SignatureTypeOK
<1>1. SignatureInv => SignatureTypeOK
  BY DEF SignatureInv
<1>. QED BY <1>1, Invariant, PTL

(***************************************************************************)
(* What was signed verifies when it is sent, whatever a client does with   *)
(* the settings of the signature in between, late changes included, and    *)
(* whatever fails: the value and the algorithm outlive the DOM and every   *)
(* document, unless an object is used that a marshall() has thrown for.    *)
(***************************************************************************)
THEOREM WhatWasSignedVerifies ==
    ASSUME "reuse" \notin SignCalls
    PROVE  SignatureSpec => []SentVerifies
<1>1. SignatureInv => SentVerifies
  <2> SUFFICES ASSUME SignatureInv, rootDOM, made # Null, made.value.over = text
               PROVE  Validates(made.value.key) /\ (made.keyInfo # Null => sdom.keyInfo = made.keyInfo)
    BY DEF SentVerifies
  <2>1. sdom # Null /\ tree = text /\ native = document /\ document # NoDoc /\ Kept = sdom
    BY DEF SignatureInv, RootInStep, NativeInStep, Kept
  <2>2. /\ made.value # Null /\ made.value.alg = made.alg
        /\ sdom.value = made.value /\ sdom.alg = made.alg
        /\ made.keyInfo # Null => sdom.keyInfo = made.keyInfo
    BY <2>1 DEF SignatureInv, ValueKept
  <2>3. made.value \in Values
    BY <2>2 DEF SignatureInv, SignatureTypeOK, NativeSignatures
  <2>4. made.value = [key |-> made.value.key, alg |-> made.alg, over |-> text]
    BY <2>2, <2>3 DEF Values
  <2>. QED BY <2>1, <2>2, <2>4 DEF Validates
<1>. QED BY <1>1, Invariant, PTL
-----------------------------------------------------------------------------
(* The KeyInfo's DOM stays where the signature's is, without the late calls. *)
LEMMA KeyInfoCall ==
    ASSUME SignCalls = {}, native # FreedDoc, SignatureInv, KeyInfoInStep, SignatureCall
    PROVE  KeyInfoInStep'
<1> USE DEF KeyInfoInStep, NoDoc, OwnDoc, FreedDoc, Documents
<1>1. ASSUME Touch, sdom # Null PROVE keyInfoDOM = NoDoc
  BY <1>1 DEF Touch, Kept
<1>2. ASSUME Touch, sdom = Null PROVE sdom' = Null
  BY <1>2 DEF Touch
<1>3. ASSUME NEW t \in Text, SetText(t) PROVE KeyInfoInStep'
  BY <1>3 DEF SetText
<1>4. ASSUME NEW a \in SignatureAlg, setSignatureAlgorithm(a) PROVE KeyInfoInStep'
  BY <1>1, <1>4 DEF setSignatureAlgorithm
<1>5. ASSUME NEW k \in SignKeyInfo, setSignatureKeyInfo(k) PROVE KeyInfoInStep'
  BY <1>5 DEF setSignatureKeyInfo
<1>6. ASSUME NEW k \in SigningKey, setSigningKey(k) PROVE KeyInfoInStep'
  BY <1>6 DEF setSigningKey
<1>7. CASE setContentReference
  BY <1>7 DEF setContentReference
<1>8. CASE releaseThisAndChildrenDOM
  BY <1>8 DEF releaseThisAndChildrenDOM
<1>9. ASSUME NEW s \in Signers \cup {Null}, NEW sign \in BOOLEAN, MarshallRootCached(sign, s)
      PROVE KeyInfoInStep'
  BY <1>9 DEF MarshallRootCached
<1>10. ASSUME NEW s \in Signers \cup {Null}, NEW sign \in BOOLEAN, MarshallRoot(sign, s)
       PROVE KeyInfoInStep'
  <2>1. /\ document' = New
        /\ \E kd \in {New, NoDoc, ReleasedKeyInfo(keyInfoDOM)} :
              keyInfoDOM' = IF kd # NoDoc /\ kd = document THEN FreedDoc ELSE kd
    BY <1>10 DEF MarshallRoot, KeyInfoLeft
  <2>2. SignatureInv'
    BY <1>10, RootMarshalled DEF Fit
  <2>3. sdom' # Null
    BY <1>10, <2>2 DEF MarshallRoot, SignatureInv, RootInStep
  <2>4. New # document /\ New \in Documents /\ document \in 0..2
    BY DEF SignatureInv, SignatureTypeOK, New
  <2>5. ReleasedKeyInfo(keyInfoDOM) \in {NoDoc, OwnDoc}
    BY DEF ReleasedKeyInfo, SignatureInv, SignatureTypeOK
  <2>. QED BY <2>1, <2>3, <2>4, <2>5
<1>11. ASSUME NEW s \in Signers \cup {Null}, MarshallRootThrows(s) PROVE KeyInfoInStep'
  BY <1>11 DEF MarshallRootThrows
<1>12. ASSUME NEW s \in Signers \cup {Null}, Sign(s) \/ SignFails(s) PROVE KeyInfoInStep'
  <2>1. UNCHANGED <<native, keyInfoDOM, document>> /\ native # NoDoc
    BY <1>12 DEF Sign, SignFails, Signs, rootVars
  <2>2. SignatureInv'
    <3>1. SignatureCall
      BY <1>12 DEF SignatureCall
    <3>. QED BY <3>1, CallInvariant DEF Fit
  <2>. QED BY <2>1, <2>2 DEF SignatureInv, NativeInStep
<1>13. CASE CloneRoot
  BY <1>13 DEF CloneRoot
<1>. QED BY <1>3, <1>4, <1>5, <1>6, <1>7, <1>8, <1>9, <1>10, <1>11, <1>12, <1>13 DEF SignatureCall

LEMMA KeyInfoStep ==
    ASSUME SignCalls = {}, SignatureInv, KeyInfoInStep, [SignatureNext]_signatureVars
    PROVE  KeyInfoInStep'
<1>1. CASE UNCHANGED signatureVars
  BY <1>1 DEF signatureVars, KeyInfoInStep
<1>. QED BY <1>1, KeyInfoCall, Discarded DEF SignatureNext

(***************************************************************************)
(* Unless settings are changed after marshalling (SignCalls), the native   *)
(* signature works on the DOM that the signature has, in the document of   *)
(* the root, and nothing points into a document that was released, until a *)
(* marshall() throws, after which the objects are only given up.           *)
(***************************************************************************)
THEOREM SignatureStaysAtHome ==
    ASSUME SignCalls = {}
    PROVE  SignatureSpec => []SignatureAtHome
<1>1. SignatureInit => SignatureInv /\ KeyInfoInStep
  BY InitInv
<1>2. SignatureInv /\ KeyInfoInStep /\ [SignatureNext]_signatureVars
        => (SignatureInv /\ KeyInfoInStep)'
  BY Step, KeyInfoStep
<1>3. SignatureInv /\ KeyInfoInStep => SignatureAtHome
  BY DEF SignatureInv, NativeInStep, KeyInfoInStep, SignatureAtHome
<1>. QED BY <1>1, <1>2, <1>3, PTL DEF SignatureSpec
-----------------------------------------------------------------------------
(***************************************************************************)
(* CRLCache                                                                *)
(***************************************************************************)
Contents == Issued \cup {Unusable, Absent}
Steps == {"idle", "cached", "fresh", "fetch", "stage", "write", "commit", "note", "answer"}

CRLTypeOK ==
    /\ time \in Nat /\ now \in [Caller -> Nat]
    /\ served \in Contents /\ cdpfile \in Contents /\ cdpstaging \in Contents
    /\ lock \in Caller \cup {Absent}
    /\ step \in [Caller -> Steps]
    /\ crls \in [Caller -> Seq(Issued)]
    /\ msg \in [Caller -> Contents]

\* Who writes has the lock, and has something to write.
WriterLocks ==
    \A t \in Caller :
        /\ step[t] \in {"write", "commit"} => lock = t
        /\ step[t] \in {"stage", "write"} => msg[t] # Absent
        /\ step[t] = "commit" => cdpstaging \in Issued

\* What a caller has found had not expired when its call began.
FoundUnexpired ==
    \A t \in Caller :
        /\ step[t] \in {"idle", "cached"} => crls[t] = <<>>
        /\ crls[t] # <<>> => ~Expired(Head(crls[t]), now[t])

CRLInv == CRLTypeOK /\ CacheWhole /\ WriterLocks /\ FoundUnexpired

LEMMA CRLInitInv == CRLInit => CRLInv
  BY CRLAssumption
  DEF CRLInit, CRLInv, CRLTypeOK, Contents, Steps, CacheWhole, WriterLocks, FoundUnexpired

(* A step that writes no file and leaves the lock to whom it was. *)
LEMMA WalkInv ==
    ASSUME CRLInv, NEW t \in Caller, NEW s \in Steps \ {"stage", "write", "commit", "cached", "idle"},
           Goto(t, s), step[t] \notin {"write", "commit"},
           UNCHANGED <<time, served, files, lock, locals>>
    PROVE  CRLInv'
  BY DEF Goto, files, locals, CRLInv, CRLTypeOK, CacheWhole, WriterLocks, FoundUnexpired

LEMMA CallInv ==
    ASSUME CRLInv, NEW t \in Caller, Call(t)
    PROVE  CRLInv'
<1>1. /\ step[t] = "idle" /\ step' = [step EXCEPT ![t] = "cached"]
      /\ now' = [now EXCEPT ![t] = time]
      /\ UNCHANGED <<time, served, cdpfile, cdpstaging, lock, crls, msg>>
  BY DEF Call, Goto, world, files
<1>. QED BY <1>1 DEF CRLInv, CRLTypeOK, Steps, CacheWhole, WriterLocks, FoundUnexpired

LEMMA ReadCachedInv ==
    ASSUME CRLInv, NEW t \in Caller, ReadCached(t)
    PROVE  CRLInv'
<1>1. /\ step[t] = "cached" /\ step' = [step EXCEPT ![t] = "fresh"]
      /\ UNCHANGED <<time, served, cdpstaging, lock, now, msg>>
  BY DEF ReadCached, Goto, world
<1>2. CASE cdpfile \in Issued /\ Expired(cdpfile, now[t])
  <2>1. cdpfile' = Absent /\ crls' = crls
    BY <1>2 DEF ReadCached
  <2>. QED BY <1>1, <2>1, CRLAssumption
           DEF CRLInv, CRLTypeOK, Contents, Steps, CacheWhole, WriterLocks, FoundUnexpired
<1>3. CASE ~(cdpfile \in Issued /\ Expired(cdpfile, now[t]))
  <2>1. /\ cdpfile' = cdpfile
        /\ crls' = [crls EXCEPT ![t] = IF cdpfile \in Issued THEN <<cdpfile>> ELSE <<>>]
    BY <1>3 DEF ReadCached
  <2>2. crls' \in [Caller -> Seq(Issued)] /\ (crls'[t] # <<>> => ~Expired(Head(crls'[t]), now[t]))
    <3>1. CASE cdpfile \in Issued
      <4>1. <<cdpfile>> \in Seq(Issued) /\ Head(<<cdpfile>>) = cdpfile
        BY <3>1
      <4>. QED BY <1>3, <2>1, <3>1, <4>1 DEF CRLInv, CRLTypeOK
    <3>2. CASE cdpfile \notin Issued
      BY <2>1, <3>2 DEF CRLInv, CRLTypeOK
    <3>. QED BY <3>1, <3>2
  <2>3. \A u \in Caller \ {t} : crls'[u] = crls[u]
    BY <2>1 DEF CRLInv, CRLTypeOK
  <2>. QED BY <1>1, <2>1, <2>2, <2>3
           DEF CRLInv, CRLTypeOK, Contents, Steps, CacheWhole, WriterLocks, FoundUnexpired
<1>. QED BY <1>2, <1>3

LEMMA DownloadInv ==
    ASSUME CRLInv, NEW t \in Caller, Download(t)
    PROVE  CRLInv'
<1>1. /\ step[t] = "fetch" /\ msg' = [msg EXCEPT ![t] = served]
      /\ step' = [step EXCEPT ![t] = IF served = Absent THEN "note" ELSE "stage"]
      /\ UNCHANGED <<time, served, cdpfile, cdpstaging, lock, now, crls>>
  BY DEF Download, Goto, world, files
<1>. QED BY <1>1 DEF CRLInv, CRLTypeOK, Steps, CacheWhole, WriterLocks, FoundUnexpired

LEMMA StageInv ==
    ASSUME CRLInv, NEW t \in Caller, Stage(t)
    PROVE  CRLInv'
<1>1. /\ step[t] = "stage" /\ step' = [step EXCEPT ![t] = "write"]
      /\ lock = Absent /\ lock' = t /\ cdpstaging' = Unusable
      /\ UNCHANGED <<time, served, cdpfile, now, crls, msg>>
  BY DEF Stage, Goto, world, locals
<1>2. \A u \in Caller : step[u] \notin {"write", "commit"}
  BY <1>1, CRLAssumption DEF CRLInv, WriterLocks
<1>. QED BY <1>1, <1>2 DEF CRLInv, CRLTypeOK, Contents, Steps, CacheWhole, WriterLocks, FoundUnexpired

LEMMA LoadInv ==
    ASSUME CRLInv, NEW t \in Caller, Load(t)
    PROVE  CRLInv'
<1>1. /\ step[t] = "write" /\ lock = t /\ UNCHANGED <<time, served, now>>
      /\ msg' = [msg EXCEPT ![t] = Absent] /\ msg[t] \in Issued \cup {Unusable}
      /\ msg' \in [Caller -> Contents]
      /\ \A u \in Caller \ {t} : step[u] \notin {"write", "commit"} /\ msg'[u] = msg[u]
  <2>1. step[t] = "write" /\ UNCHANGED <<time, served, now>> /\ msg' = [msg EXCEPT ![t] = Absent]
    BY DEF Load, world
  <2>2. lock = t /\ msg[t] # Absent
    BY <2>1 DEF CRLInv, WriterLocks
  <2>3. \A u \in Caller \ {t} : step[u] \notin {"write", "commit"}
    BY <2>2 DEF CRLInv, WriterLocks
  <2>. QED BY <2>1, <2>2, <2>3 DEF CRLInv, CRLTypeOK, Contents
<1>2. CASE msg[t] = Unusable
  <2>1. /\ step' = [step EXCEPT ![t] = "note"] /\ lock' = Absent /\ cdpstaging' = Unusable
        /\ UNCHANGED <<cdpfile, crls>>
    BY <1>2 DEF Load, Goto
  <2>. QED BY <1>1, <2>1 DEF CRLInv, CRLTypeOK, Contents, Steps, CacheWhole, WriterLocks, FoundUnexpired
<1>3. CASE msg[t] # Unusable /\ Usable(t)
  <2>1. /\ step' = [step EXCEPT ![t] = "commit"] /\ crls' = [crls EXCEPT ![t] = Loaded(t)]
        /\ cdpstaging' = msg[t] /\ cdpfile' = Absent /\ lock' = lock
    BY <1>3 DEF Load, Goto
  <2>2. Loaded(t) \in Seq(Issued) /\ ~Expired(Head(Loaded(t)), now[t])
    BY <1>1, <1>3 DEF Loaded, Usable, CRLInv, CRLTypeOK
  <2>3. /\ crls' \in [Caller -> Seq(Issued)] /\ crls'[t] = Loaded(t)
        /\ \A u \in Caller \ {t} : crls'[u] = crls[u]
    BY <2>1, <2>2 DEF CRLInv, CRLTypeOK
  <2>4. /\ step' \in [Caller -> Steps] /\ step'[t] = "commit"
        /\ \A u \in Caller \ {t} : step'[u] = step[u]
    BY <2>1 DEF CRLInv, CRLTypeOK, Steps
  <2>5. CRLTypeOK'
    BY <1>1, <2>1, <2>3, <2>4 DEF CRLInv, CRLTypeOK, Contents
  <2>6. WriterLocks'
    BY <1>1, <1>3, <2>1, <2>4 DEF CRLInv, WriterLocks
  <2>7. FoundUnexpired'
    BY <1>1, <2>2, <2>3, <2>4 DEF CRLInv, FoundUnexpired
  <2>. QED BY <2>1, <2>5, <2>6, <2>7, CRLAssumption DEF CRLInv, CacheWhole
<1>4. CASE msg[t] # Unusable /\ ~Usable(t)
  <2>1. /\ step' = [step EXCEPT ![t] = "note"] /\ lock' = Absent
        /\ crls' = [crls EXCEPT ![t] = <<>>] /\ cdpstaging' = Absent /\ cdpfile' = cdpfile
    BY <1>4 DEF Load, Goto
  <2>2. /\ crls' \in [Caller -> Seq(Issued)] /\ crls'[t] = <<>>
        /\ \A u \in Caller \ {t} : crls'[u] = crls[u]
    BY <2>1 DEF CRLInv, CRLTypeOK
  <2>. QED BY <1>1, <2>1, <2>2
           DEF CRLInv, CRLTypeOK, Contents, Steps, CacheWhole, WriterLocks, FoundUnexpired
<1>. QED BY <1>2, <1>3, <1>4

LEMMA CommitInv ==
    ASSUME CRLInv, NEW t \in Caller, Commit(t)
    PROVE  CRLInv'
<1>1. /\ step[t] = "commit" /\ step' = [step EXCEPT ![t] = "note"]
      /\ cdpfile' = cdpstaging /\ cdpstaging' = Absent /\ lock' = Absent
      /\ UNCHANGED <<time, served, now, crls, msg>>
  BY DEF Commit, Goto, world, locals
<1>2. lock = t /\ cdpstaging \in Issued
  BY <1>1 DEF CRLInv, WriterLocks
<1>3. \A u \in Caller \ {t} : step[u] \notin {"write", "commit"}
  BY <1>2 DEF CRLInv, WriterLocks
<1>. QED BY <1>1, <1>2, <1>3, CRLAssumption
         DEF CRLInv, CRLTypeOK, Contents, Steps, CacheWhole, WriterLocks, FoundUnexpired

LEMMA ReturnInv ==
    ASSUME CRLInv, NEW t \in Caller, Return(t)
    PROVE  CRLInv'
<1>1. /\ step[t] = "answer" /\ step' = [step EXCEPT ![t] = "idle"]
      /\ crls' = [crls EXCEPT ![t] = <<>>] /\ now' = [now EXCEPT ![t] = 0]
      /\ UNCHANGED <<time, served, cdpfile, cdpstaging, lock, msg>>
  BY DEF Return, Goto, world, files
<1>2. /\ crls' \in [Caller -> Seq(Issued)] /\ crls'[t] = <<>>
      /\ \A u \in Caller \ {t} : crls'[u] = crls[u] /\ (now'[u] = now[u] \/ crls[u] = <<>>)
  <2>1. CASE \A u \in Caller : crls[u] = <<>>
    BY <1>1, <2>1 DEF CRLInv, CRLTypeOK
  <2>. QED BY <1>1 DEF CRLInv, CRLTypeOK
<1>. QED BY <1>1, <1>2 DEF CRLInv, CRLTypeOK, Steps, CacheWhole, WriterLocks, FoundUnexpired

LEMMA GettingInv ==
    ASSUME CRLInv, NEW t \in Caller, Getting(t)
    PROVE  CRLInv'
<1>1. ASSUME Served(t) \/ Due(t) \/ Note(t) PROVE CRLInv'
  <2>1. CASE Served(t)
    BY <2>1, WalkInv DEF Served, world, Steps
  <2>2. CASE Due(t)
    BY <2>2, WalkInv DEF Due, world, Steps
  <2>3. CASE Note(t)
    BY <2>3, WalkInv DEF Note, world, Steps
  <2>. QED BY <1>1, <2>1, <2>2, <2>3
<1>. QED BY <1>1, CallInv, ReadCachedInv, DownloadInv, StageInv, LoadInv, CommitInv, ReturnInv DEF Getting

LEMMA CRLStepInv == CRLInv /\ [CRLNext]_crlVars => CRLInv'
<1> SUFFICES ASSUME CRLInv, [CRLNext]_crlVars PROVE CRLInv'
  OBVIOUS
<1> USE DEF CRLInv, CRLTypeOK, CacheWhole, WriterLocks, FoundUnexpired
<1>1. CASE UNCHANGED crlVars
  BY <1>1 DEF crlVars, world, files, locals
<1>2. CASE Elapse
  BY <1>2 DEF Elapse, files, locals
<1>3. CASE Publish
  BY <1>3 DEF Publish, files, locals, Contents
<1>4. CASE Restart
  BY <1>4 DEF Restart, files, Contents, Steps
<1>. QED BY <1>1, <1>2, <1>3, <1>4, GettingInv DEF CRLNext

(* A CRL that a call is answered with had not expired when the call began, *)
(* and what is cached is whole, whoever downloads at the same time and     *)
(* wherever a crash comes.                                                 *)
THEOREM CacheAlwaysSound == CRLSpec => []CacheSound
<1>1. CRLInv => CacheSound
  BY DEF CRLInv, FoundUnexpired, CacheSound, AnswerUnexpired
<1>. QED BY <1>1, CRLInitInv, CRLStepInv, PTL DEF CRLSpec
-----------------------------------------------------------------------------
(***************************************************************************)
(* Encrypter                                                               *)
(***************************************************************************)
\* What the parameters of slot i are, and the form of data that was made.
ParamsOf(i) == [alg : {DataAlg[i]}, key : (1..keys) \cup {None}]
DataForm(d) == d = [alg |-> d.alg, key |-> d.key, keyInfo |-> d.keyInfo]

\* The buffer holds the last key that was generated.
BufferLast == keys \in 0..MaxKeys /\ buffer = keys

ParamsInv ==
    /\ params = [i \in Slots |-> params[i]]
    /\ \A i \in Slots : params[i] # None => params[i] \in ParamsOf(i)

\* Data is under a key that was generated.
SentInv ==
    /\ sent = [i \in Slots |-> sent[i]]
    /\ \A i \in Slots : sent[i] # None =>
          /\ params[i] \in ParamsOf(i) /\ DataForm(sent[i])
          /\ sent[i].key \in 1..keys

EncryptionInv == BufferLast /\ ParamsInv /\ SentInv /\ KeysApart

LEMMA EncryptionInitInv == EncryptionInit => EncryptionInv
<1> SUFFICES ASSUME EncryptionInit PROVE EncryptionInv
  OBVIOUS
<1>1. keys = 0 /\ buffer = 0 /\ \A i \in Slots : params[i] = None /\ sent[i] = None
  BY DEF EncryptionInit
<1>2. BufferLast
  BY <1>1, EncryptionAssumption DEF BufferLast
<1>3. ParamsInv /\ SentInv /\ KeysApart
  BY <1>1 DEF EncryptionInit, ParamsInv, SentInv, KeysApart
<1>. QED BY <1>2, <1>3 DEF EncryptionInv

(* Keys are generated one after the other, so none of those that were is again. *)
LEMMA ParamsGrow ==
    ASSUME BufferLast, keys' \in {keys, keys + 1}, NEW i \in Slots, NEW p, p \in ParamsOf(i)
    PROVE  p \in ParamsOf(i)'
<1>1. 1..keys \subseteq 1..keys'
  BY DEF BufferLast
<1>. QED BY <1>1 DEF ParamsOf

LEMMA NewParamsInv ==
    ASSUME EncryptionInv, NEW i \in Slots, NewParams(i)
    PROVE  EncryptionInv'
<1>1. params' = [params EXCEPT ![i] = EncryptionParams(DataAlg[i])]
  BY DEF NewParams
<1>2. sent' = [sent EXCEPT ![i] = None] /\ UNCHANGED <<buffer, keys>>
  BY DEF NewParams
<1>3. EncryptionParams(DataAlg[i]) \in ParamsOf(i)
  BY DEF EncryptionParams, ParamsOf
<1>4. /\ params' = [j \in Slots |-> params'[j]] /\ params'[i] \in ParamsOf(i)
      /\ \A j \in Slots \ {i} : params'[j] = params[j]
  BY <1>1, <1>3 DEF EncryptionInv, ParamsInv
<1>5. /\ sent' = [j \in Slots |-> sent'[j]] /\ sent'[i] = None
      /\ \A j \in Slots \ {i} : sent'[j] = sent[j]
  BY <1>2 DEF EncryptionInv, SentInv
<1>6. \A j \in Slots : ParamsOf(j)' = ParamsOf(j)
  BY <1>2 DEF ParamsOf
<1>7. BufferLast'
  BY <1>2 DEF EncryptionInv, BufferLast
<1>8. ParamsInv'
  BY <1>4, <1>6 DEF EncryptionInv, ParamsInv
<1>9. SentInv'
  BY <1>2, <1>4, <1>5, <1>6 DEF EncryptionInv, SentInv
<1>10. KeysApart'
  BY <1>4, <1>5 DEF EncryptionInv, KeysApart
<1>. QED BY <1>7, <1>8, <1>9, <1>10 DEF EncryptionInv

(* Data under a key that no other data is under. *)
LEMMA DataMade ==
    ASSUME EncryptionInv, NEW i \in Slots, NEW d, DataForm(d),
           sent' = [sent EXCEPT ![i] = d], keys' \in {keys, keys + 1}, buffer' = keys', keys' <= MaxKeys,
           params[i] \in ParamsOf(i), params'[i] \in ParamsOf(i)',
           params' = [j \in Slots |-> params'[j]],
           \A j \in Slots \ {i} : params'[j] = params[j],
           d.key \in 1..keys',
           \A j \in Slots \ {i} : sent[j] # None => sent[j].key # d.key
    PROVE  EncryptionInv'
<1>1. /\ sent' = [j \in Slots |-> sent'[j]] /\ sent'[i] = d
      /\ \A j \in Slots \ {i} : sent'[j] = sent[j]
  BY DEF EncryptionInv, SentInv
<1>2. BufferLast' /\ 1..keys \subseteq 1..keys'
  BY DEF EncryptionInv, BufferLast
<1>3. \A j \in Slots \ {i} : params[j] \in ParamsOf(j) => params'[j] \in ParamsOf(j)'
  BY ParamsGrow DEF EncryptionInv
<1>4. ParamsInv'
  BY <1>3 DEF EncryptionInv, ParamsInv
<1>5. SentInv'
  <2>1. ASSUME NEW j \in Slots \ {i}, sent'[j] # None
        PROVE  /\ params'[j] \in ParamsOf(j)' /\ DataForm(sent'[j])
               /\ sent'[j].key \in 1..keys'
    BY <1>1, <1>2, <1>3, <2>1 DEF EncryptionInv, SentInv
  <2>. QED BY <1>1, <2>1 DEF SentInv
<1>6. KeysApart'
  <2> SUFFICES ASSUME NEW j \in Slots, NEW k \in Slots, j # k, sent'[j] # None, sent'[k] # None
               PROVE  sent'[j].key # sent'[k].key
    BY DEF KeysApart
  <2>1. CASE j = i
    BY <1>1, <2>1
  <2>2. CASE k = i
    BY <1>1, <2>2
  <2>3. CASE j # i /\ k # i
    BY <1>1, <2>3 DEF EncryptionInv, KeysApart
  <2>. QED BY <2>1, <2>2, <2>3
<1>. QED BY <1>2, <1>4, <1>5, <1>6 DEF EncryptionInv

LEMMA EncryptInv ==
    ASSUME "alias" \notin EncryptCalls, EncryptionInv,
           NEW i \in Slots, NEW k, NEW compact, Encrypt(i, k, compact)
    PROVE  EncryptionInv'
<1> DEFINE p == params[i]
           key == KeyDrawn(p)
<1>1. /\ p # None /\ p \in ParamsOf(i)
      /\ NeedsKey(p) => keys < MaxKeys
      /\ p.key # None => p.key = buffer /\ KeyUnused(buffer)
      /\ buffer' = KeyDrawn(p) /\ keys' = IF NeedsKey(p) THEN keys + 1 ELSE keys
      /\ params' = [params EXCEPT ![i].key = IF NeedsKey(p) THEN KeyDrawn(p) ELSE @]
  BY DEF Encrypt, EncryptionInv, ParamsInv
<1>2. \/ sent' = sent
      \/ \E alg, info : sent' = [sent EXCEPT ![i] = [alg |-> alg, key |-> key, keyInfo |-> info]]
  BY DEF Encrypt
<1>3. /\ keys \in 0..MaxKeys /\ buffer = keys
      /\ keys' \in {keys, keys + 1} /\ buffer' = keys' /\ keys' <= MaxKeys /\ MaxKeys \in Nat
      /\ NeedsKey(p) => keys' = keys + 1 /\ KeyDrawn(p) = keys + 1
      /\ ~NeedsKey(p) => keys' = keys /\ KeyDrawn(p) = keys
  BY <1>1, EncryptionAssumption DEF EncryptionInv, BufferLast, KeyDrawn
<1>4. /\ params' = [j \in Slots |-> params'[j]] /\ params'[i] \in ParamsOf(i)'
      /\ \A j \in Slots \ {i} : params'[j] = params[j]
  <2>1. p \in ParamsOf(i)'
    BY <1>1, <1>3, ParamsGrow DEF EncryptionInv
  <2>2. keys + 1 \in 1..(keys + 1)
    BY <1>3
  <2>3. CASE NeedsKey(p)
    <3>1. params' = [params EXCEPT ![i] = [p EXCEPT !.key = keys + 1]]
      BY <1>1, <1>3, <2>3
    <3>2. [p EXCEPT !.key = keys + 1] \in ParamsOf(i)'
      BY <1>3, <2>1, <2>2, <2>3 DEF ParamsOf
    <3>. QED BY <3>1, <3>2 DEF EncryptionInv, ParamsInv
  <2>4. CASE ~NeedsKey(p)
    <3>1. params' = [params EXCEPT ![i] = [p EXCEPT !.key = p.key]]
      BY <1>1, <2>4
    <3>2. [p EXCEPT !.key = p.key] = p
      BY <1>1 DEF ParamsOf
    <3>. QED BY <2>1, <3>1, <3>2 DEF EncryptionInv, ParamsInv
  <2>. QED BY <2>3, <2>4
<1>5. CASE sent' = sent
  <2>1. BufferLast' /\ 1..keys \subseteq 1..keys'
    BY <1>3 DEF BufferLast
  <2>2. \A j \in Slots : params[j] \in ParamsOf(j) => params'[j] \in ParamsOf(j)'
    BY <1>3, <1>4, ParamsGrow DEF EncryptionInv
  <2>3. ParamsInv'
    BY <1>1, <1>4, <2>2 DEF EncryptionInv, ParamsInv
  <2>4. SentInv'
    BY <1>5, <2>1, <2>2 DEF EncryptionInv, SentInv
  <2>5. KeysApart'
    BY <1>5 DEF EncryptionInv, KeysApart
  <2>. QED BY <2>1, <2>3, <2>4, <2>5 DEF EncryptionInv
<1>6. ASSUME NEW alg, NEW info, sent' = [sent EXCEPT ![i] = [alg |-> alg, key |-> key, keyInfo |-> info]]
      PROVE  EncryptionInv'
  <2> DEFINE d == [alg |-> alg, key |-> key, keyInfo |-> info]
  <2>1. DataForm(d) /\ d.key = key
    BY DEF DataForm
  <2>2. key \in 1..keys'
    <3>1. CASE NeedsKey(p)
      BY <1>3, <3>1
    <3>2. CASE ~NeedsKey(p)
      <4>1. p.key # None /\ p.key = keys
        BY <1>1, <1>3, <3>2 DEF NeedsKey
      <4>2. keys \in 1..keys
        BY <1>1, <4>1 DEF ParamsOf
      <4>. QED BY <1>3, <3>2, <4>2
    <3>. QED BY <3>1, <3>2
  <2>3. ASSUME NEW j \in Slots \ {i}, sent[j] # None PROVE sent[j].key # key
    <3>1. sent[j].key \in 1..keys
      BY <2>3 DEF EncryptionInv, SentInv
    <3>2. CASE NeedsKey(p)
      BY <1>3, <3>1, <3>2
    <3>3. CASE ~NeedsKey(p)
      <4>1. key = buffer /\ KeyUnused(buffer)
        BY <1>1, <1>3, <3>3 DEF NeedsKey
      <4>. QED BY <2>3, <4>1 DEF KeyUnused
    <3>. QED BY <3>2, <3>3
  <2> HIDE DEF key, d
  <2>. QED BY <1>1, <1>3, <1>4, <1>6, <2>1, <2>2, <2>3, DataMade DEF d
<1>. QED BY <1>2, <1>5, <1>6

LEMMA AnotherRecipientInv ==
    ASSUME EncryptionInv, NEW i \in Slots, NEW k, NEW compact, encryptKey(i, k, compact)
    PROVE  EncryptionInv'
<1>1. PICK info : sent' = [sent EXCEPT ![i].keyInfo = info]
  BY DEF encryptKey
<1>2. sent[i] # None /\ UNCHANGED <<buffer, keys, params>>
  BY DEF encryptKey
<1>3. DataForm(sent[i])
  BY <1>2 DEF EncryptionInv, SentInv
<1>4. /\ sent' = [j \in Slots |-> sent'[j]]
      /\ sent'[i].key = sent[i].key /\ DataForm(sent'[i])
      /\ \A j \in Slots \ {i} : sent'[j] = sent[j]
  <2> DEFINE d == [sent[i] EXCEPT !.keyInfo = info]
  <2>1. sent' = [sent EXCEPT ![i] = d]
    BY <1>1
  <2>2. PICK a, n, x : sent[i] = [alg |-> a, key |-> n, keyInfo |-> x]
    BY <1>3 DEF DataForm
  <2>3. d = [alg |-> a, key |-> n, keyInfo |-> info]
    BY <2>2
  <2>4. d.key = sent[i].key /\ DataForm(d)
    BY <2>2, <2>3 DEF DataForm
  <2> HIDE DEF d
  <2>. QED BY <2>1, <2>4 DEF EncryptionInv, SentInv
<1>5. \A j \in Slots : ParamsOf(j)' = ParamsOf(j)
  BY <1>2 DEF ParamsOf
<1>6. BufferLast' /\ ParamsInv'
  BY <1>2, <1>5 DEF EncryptionInv, BufferLast, ParamsInv
<1>7. SentInv'
  BY <1>2, <1>4, <1>5 DEF EncryptionInv, SentInv
<1>8. KeysApart'
  BY <1>2, <1>4 DEF EncryptionInv, KeysApart
<1>. QED BY <1>6, <1>7, <1>8 DEF EncryptionInv

LEMMA EncryptionStepInv ==
    ASSUME "alias" \notin EncryptCalls
    PROVE  EncryptionInv /\ [EncryptionNext]_encryptionVars => EncryptionInv'
<1> SUFFICES ASSUME EncryptionInv, [EncryptionNext]_encryptionVars PROVE EncryptionInv'
  OBVIOUS
<1>1. ASSUME UNCHANGED <<buffer, keys, params, sent>> PROVE EncryptionInv'
  <2>1. \A j \in Slots : ParamsOf(j)' = ParamsOf(j)
    BY <1>1 DEF ParamsOf
  <2>. QED BY <1>1, <2>1 DEF EncryptionInv, BufferLast, ParamsInv, SentInv, KeysApart
<1>2. CASE UNCHANGED encryptionVars
  BY <1>1, <1>2 DEF encryptionVars
<1>3. ASSUME NEW i \in Slots, NEW r \in DOMAIN Parties, NEW strict \in BOOLEAN, Decrypt(i, r, strict)
      PROVE  EncryptionInv'
  BY <1>1, <1>3 DEF Decrypt
<1>4. CASE setKEKResolver
  BY <1>1, <1>4 DEF setKEKResolver
<1>. QED BY <1>2, <1>3, <1>4, NewParamsInv, EncryptInv, AnotherRecipientInv DEF EncryptionNext

(* Data made with different parameters has different keys, as long as the    *)
(* client uses no key that is not in the Encrypter's buffer any more.        *)
THEOREM KeysStayApart ==
    ASSUME "alias" \notin EncryptCalls
    PROVE  EncryptionSpec => []KeysApart
<1>1. EncryptionInv => KeysApart
  BY DEF EncryptionInv
<1>. QED BY <1>1, EncryptionInitInv, EncryptionStepInv, PTL DEF EncryptionSpec
-----------------------------------------------------------------------------
(* A set of numbers that has 0, and the next of each that it has, has all. *)
LEMMA NatInductive ==
    ASSUME NEW S, 0 \in S, \A n \in Nat : n \in S => n + 1 \in S
    PROVE  Nat \subseteq S
<1> DEFINE T == Nat \ S
<1>1. SUFFICES ASSUME T # {} PROVE FALSE
  OBVIOUS
<1>2. PICK x \in T : \A y \in T : ~(<<y, x>> \in OpToRel(<, Nat))
  BY <1>1, WFMin, NatLessThanWellFounded, Zenon
<1>3. \A y \in T : ~(y < x)
  BY <1>2, Zenon DEF OpToRel
<1>4. x # 0 /\ x - 1 \in Nat
  OBVIOUS
<1>5. x - 1 \in S
  BY <1>3, <1>4
<1>. QED BY <1>4, <1>5

(* The chain goes from engine to engine. *)
AreTurns(f, s, q, creds, c, u, n) ==
    f = [i \in 0..n |-> IF i = 0 THEN c ELSE Turn(s[i], q, creds, f[i - 1], u)]

LEMMA TurnsExist ==
    ASSUME NEW s, NEW q, NEW creds, NEW c, NEW u, NEW n \in Nat
    PROVE  \E f : AreTurns(f, s, q, creds, c, u, n)
<1> DEFINE Reaches(m) == \E f : f = [i \in 0..m |-> IF i = 0 THEN c ELSE Turn(s[i], q, creds, f[i - 1], u)]
           S == {m \in Nat : Reaches(m)}
<1>1. 0 \in S
  <2>1. [i \in 0..0 |-> c]
          = [i \in 0..0 |-> IF i = 0 THEN c ELSE Turn(s[i], q, creds, [j \in 0..0 |-> c][i - 1], u)]
    OBVIOUS
  <2>. QED BY <2>1
<1>2. ASSUME NEW m \in Nat, m \in S PROVE m + 1 \in S
  <2>1. PICK f : f = [i \in 0..m |-> IF i = 0 THEN c ELSE Turn(s[i], q, creds, f[i - 1], u)]
    BY <1>2
  <2> DEFINE g == [i \in 0..m + 1 |-> IF i = m + 1 THEN Turn(s[i], q, creds, f[m], u) ELSE f[i]]
  <2>2. \A i \in 0..m : f[i] = IF i = 0 THEN c ELSE Turn(s[i], q, creds, f[i - 1], u)
    BY <2>1
  <2>3. /\ \A i \in 0..m : g[i] = f[i]
        /\ g[m + 1] = Turn(s[m + 1], q, creds, f[m], u)
        /\ g = [i \in 0..m + 1 |-> g[i]]
    OBVIOUS
  <2> HIDE DEF g
  <2>4. \A i \in 0..m + 1 : g[i] = IF i = 0 THEN c ELSE Turn(s[i], q, creds, g[i - 1], u)
    <3>1. ASSUME NEW i \in 1..m
          PROVE  g[i] = Turn(s[i], q, creds, g[i - 1], u)
      <4>1. i - 1 \in 0..m /\ i \in 0..m /\ i # 0
        OBVIOUS
      <4>2. f[i] = Turn(s[i], q, creds, f[i - 1], u)
        BY <2>2, <4>1
      <4>. QED BY <2>3, <4>1, <4>2
    <3>2. g[0] = c
      <4>1. 0 \in 0..m
        OBVIOUS
      <4>2. f[0] = c
        BY <2>2, <4>1
      <4>. QED BY <2>3, <4>1, <4>2
    <3>3. g[m + 1] = Turn(s[m + 1], q, creds, g[m], u)
      BY <2>3
    <3>. QED BY <3>1, <3>2, <3>3
  <2>5. g = [i \in 0..m + 1 |-> IF i = 0 THEN c ELSE Turn(s[i], q, creds, g[i - 1], u)]
    BY <2>3, <2>4
  <2>. QED BY <2>5
<1> HIDE DEF S
<1>3. n \in S
  BY <1>1, <1>2, NatInductive
<1>. QED BY <1>3 DEF S, AreTurns

LEMMA Turns ==
    ASSUME NEW s, NEW q, NEW creds, NEW c, Len(s) \in Nat
    PROVE  \E f : /\ f[0].crit = c /\ ~f[0].ok
                  /\ \A i \in 1..Len(s) : f[i] = Turn(s[i], q, creds, f[i - 1], WithCriteria(c).usage)
                  /\ ValidateInTurn(s, q, creds, c) = f[Len(s)]
<1> DEFINE u == WithCriteria(c).usage
           so == Answer(FALSE, c)
           f == CHOOSE g : AreTurns(g, s, q, creds, so, u, Len(s))
<1>1. ValidateInTurn(s, q, creds, c) = f[Len(s)]
  BY DEF ValidateInTurn, AreTurns
<1> HIDE DEF u, so
<1>2. AreTurns(f, s, q, creds, so, u, Len(s))
  BY TurnsExist
<1> HIDE DEF f
<1>3. f[0] = so /\ \A i \in 1..Len(s) : f[i] = Turn(s[i], q, creds, f[i - 1], u)
  BY <1>2 DEF AreTurns
<1>4. so.crit = c /\ ~so.ok
  BY DEF so, Answer
<1>. QED BY <1>1, <1>3, <1>4 DEF u

(* No engine takes the peer's name or the key out of the criteria. *)
LEMMA CriteriaKept ==
    ASSUME NEW e, NEW q \in Questions, NEW creds, NEW c, Lasting(c)
    PROVE  /\ c = None => Validate(e, q, creds, c).crit = None
           /\ c # None => /\ Validate(e, q, creds, c).crit.peer = c.peer
                          /\ Validate(e, q, creds, c).crit.key = c.key
<1>0. q.op \in {"signature", "raw", "certificate"}
  BY DEF Questions
<1>1. /\ \A sig : /\ ExplicitSignature(sig, creds, None).crit = None
                  /\ ExplicitRaw(sig, creds, None).crit = None
                  /\ PKIXSignature(e, sig, creds, None).crit = None
                  /\ PKIXRaw(e, sig, creds, None).crit = None
      /\ \A ee : ExplicitCertificate(ee, creds, None).crit = None
      /\ \A ee, certs : PKIXCertificate(e, ee, certs, creds, None).crit = None
  BY DEF ExplicitSignature, ExplicitRaw, ExplicitCertificate, PKIXSignature, PKIXRaw,
         PKIXCertificate, validateWithCRLs, Returned, Answer
<1>2. c = None => Validate(e, q, creds, c).crit = None
  BY <1>0, <1>1 DEF Validate
<1>. SUFFICES ASSUME c # None
     PROVE  Validate(e, q, creds, c).crit.peer = c.peer /\ Validate(e, q, creds, c).crit.key = c.key
  BY <1>2
<1> DEFINE Same(d) == d.peer = c.peer /\ d.key = c.key
<1>3. \E u, p, k : c = [usage |-> u, peer |-> p, alg |-> None, size |-> 0, max |-> 0, names |-> {},
                  key |-> k, keyInfo |-> None, native |-> None, found |-> None]
  BY DEF Lasting, NoCriteria
<1>4. \A sig : Same(ExplicitSignature(sig, creds, c).crit)
  BY <1>3 DEF ExplicitSignature, Returned, Answer, setSignature, setXMLAlgorithm, setKeyInfo,
      setNativeKeyInfo, Signing, setUsage, WithCriteria
<1>5. \A sig : Same(ExplicitRaw(sig, creds, c).crit)
  BY <1>3 DEF ExplicitRaw, Returned, Answer, setXMLAlgorithm, setKeyInfo, Signing, setUsage, WithCriteria
<1>6. \A ee : Same(ExplicitCertificate(ee, creds, c).crit)
  BY <1>3 DEF ExplicitCertificate, Returned, Answer, Signing, setUsage, WithCriteria
<1>7. \A ee, certs, inline : Same(validateWithCRLs(e, ee, certs, creds, c, inline).crit)
  BY <1>3 DEF validateWithCRLs, Answer, setUsage
<1> HIDE DEF Same
<1>8. \A sig : Same(PKIXSignature(e, sig, creds, c).crit)
  BY <1>7 DEF PKIXSignature, Answer, Same
<1>9. \A sig : Same(PKIXRaw(e, sig, creds, c).crit)
  BY <1>7 DEF PKIXRaw, Answer, Same
<1>10. \A ee, certs : Same(PKIXCertificate(e, ee, certs, creds, c).crit)
  BY <1>7 DEF PKIXCertificate
<1>11. Same(Validate(e, q, creds, c).crit)
  BY <1>0, <1>4, <1>5, <1>6, <1>8, <1>9, <1>10 DEF Validate
<1>. QED BY <1>11 DEF Same

LEMMA CriteriaAsBefore ==
    ASSUME NEW e, NEW q \in Questions, NEW creds, NEW c, Lasting(c)
    PROVE  Returned(c, Cleaned(Validate(e, q, creds, c).crit, WithCriteria(c).usage)) = c
<1>. DEFINE d == Validate(e, q, creds, c).crit
<1>1. CASE c = None
  BY <1>1 DEF Returned
<1>2. CASE c # None
  <2>1. d.peer = c.peer /\ d.key = c.key
    BY <1>2, CriteriaKept
  <2> HIDE DEF d
  <2>3. PICK usage, p, k : c = [usage |-> usage, peer |-> p, alg |-> None, size |-> 0, max |-> 0,
                                names |-> {}, key |-> k, keyInfo |-> None, native |-> None,
                                found |-> None]
    BY <1>2 DEF Lasting, NoCriteria
  <2>2. d.peer = p /\ d.key = k /\ WithCriteria(c).usage = usage
    BY <1>2, <2>1, <2>3 DEF WithCriteria
  <2>4. reset(d) = [usage |-> {}, peer |-> p, alg |-> None, size |-> 0, max |-> 0, names |-> {},
                    key |-> k, keyInfo |-> None, native |-> None, found |-> None]
    <3>1. reset(d) = [NoCriteria EXCEPT !.peer = p, !.key = k]
      BY <2>2 DEF reset
    <3>. QED BY <3>1 DEF NoCriteria
  <2>5. Cleaned(d, usage) = c
    BY <2>3, <2>4 DEF Cleaned, setUsage
  <2>. QED BY <1>2, <2>2, <2>5 DEF d, Returned
<1>. QED BY <1>1, <1>2

(* Before an engine accepts, the criteria are what the caller gave; and the   *)
(* chain accepts from the first engine on that accepts alone.                 *)
LEMMA ChainIsAny ==
    ASSUME NEW S, NEW s \in Seq(S), NEW q \in Questions, NEW creds, NEW c, Lasting(c)
    PROVE  ValidateInTurn(s, q, creds, c).ok
             <=> \E i \in DOMAIN s : Validate(s[i], q, creds, c).ok
<1>1. PICK f : /\ f[0].crit = c /\ ~f[0].ok
               /\ \A i \in 1..Len(s) : f[i] = Turn(s[i], q, creds, f[i - 1], WithCriteria(c).usage)
               /\ ValidateInTurn(s, q, creds, c) = f[Len(s)]
  BY Turns
<1> DEFINE accepts(i) == Validate(s[i], q, creds, c).ok
           Good(i) == IF f[i].ok THEN \E j \in 1..i : accepts(j)
                      ELSE f[i].crit = c /\ \A j \in 1..i : ~accepts(j)
           N == {i \in Nat : i <= Len(s) => Good(i)}
<1>2. 0 \in N
  BY <1>1
<1>3. ASSUME NEW n \in Nat, n \in N PROVE n + 1 \in N
  <2>1. SUFFICES ASSUME n + 1 <= Len(s) PROVE Good(n + 1)
    OBVIOUS
  <2>2. Good(n) /\ n + 1 \in 1..Len(s) /\ 1..n + 1 = (1..n) \cup {n + 1}
    BY <1>3, <2>1
  <2>3. f[n + 1] = Turn(s[n + 1], q, creds, f[n], WithCriteria(c).usage)
    BY <1>1, <2>2
  <2>4. CASE f[n].ok
    BY <2>2, <2>3, <2>4 DEF Turn
  <2>5. CASE ~f[n].ok
    <3> DEFINE r == Validate(s[n + 1], q, creds, c)
    <3>1. f[n].crit = c /\ \A j \in 1..n : ~accepts(j)
      BY <2>2, <2>5
    <3>2. f[n + 1] = IF r.ok THEN r
                     ELSE Answer(FALSE, Returned(c, Cleaned(r.crit, WithCriteria(c).usage)))
      BY <2>3, <2>5, <3>1 DEF Turn
    <3>3. Returned(c, Cleaned(r.crit, WithCriteria(c).usage)) = c
      BY CriteriaAsBefore
    <3>4. CASE r.ok
      BY <2>2, <3>2, <3>4
    <3>5. CASE ~r.ok
      BY <2>2, <3>1, <3>2, <3>3, <3>5 DEF Answer
    <3>. QED BY <3>4, <3>5
  <2>. QED BY <2>4, <2>5
<1> HIDE DEF N
<1>4. Len(s) \in N
  BY <1>2, <1>3, NatInductive
<1>. QED BY <1>1, <1>4 DEF N

(* What an engine answers depends on the distribution points, and on no other *)
(* variable.                                                                  *)
LEMMA SameRemote ==
    ASSUME remote' = remote
    PROVE  \A e, creds, c : \A q \in Questions : Validate(e, q, creds, c)' = Validate(e, q, creds, c)
<1>3. \A u : FromCDPs(u)' = FromCDPs(u)
  BY DEF FromCDPs, Fetched, UsableAt
<1>4. \A u, i : Store(u, i)' = Store(u, i)
  BY <1>3 DEF Store
<1>5. \A e, ee, u, i : PathValid(e, ee, u, i)' = PathValid(e, ee, u, i)
  BY <1>4 DEF PathValid
<1>6. \A e, ee, u, creds, c, i : validateWithCRLs(e, ee, u, creds, c, i)' = validateWithCRLs(e, ee, u, creds, c, i)
  BY <1>5 DEF validateWithCRLs
<1>7. \A e, ee, certs, creds, c : PKIXCertificate(e, ee, certs, creds, c)' = PKIXCertificate(e, ee, certs, creds, c)
  BY <1>6 DEF PKIXCertificate
<1>8. \A e, sig, creds, c : PKIXRaw(e, sig, creds, c)' = PKIXRaw(e, sig, creds, c)
  BY <1>6 DEF PKIXRaw, Answer
<1>9. \A e, sig, creds, c : PKIXSignature(e, sig, creds, c)' = PKIXSignature(e, sig, creds, c)
  <2> TAKE e, sig, creds, c
  <2> DEFINE found == IF sig.built THEN resolve(sig.keyInfo, {"certs", "crls"}, FALSE)
                      ELSE resolveNativeKeyInfo(sig.keyInfo, {"certs", "crls"})
             none == found = None \/ EndEntity(found.certs, sig) = None
             path == validateWithCRLs(e, EndEntity(found.certs, sig), found.certs, creds, c, found.crls)
             failed == Answer(FALSE, c)
  <2>1. /\ PKIXSignature(e, sig, creds, c) = IF none THEN failed ELSE path
        /\ PKIXSignature(e, sig, creds, c)' = IF none THEN failed ELSE path'
    BY Zenon DEF PKIXSignature
  <2>2. path' = path
    BY <1>6
  <2> HIDE DEF found, none, path, failed
  <2>. QED BY <2>1, <2>2
<1>10. \A q \in Questions : q.op \in {"signature", "raw", "certificate"}
  BY DEF Questions
<1>. QED BY <1>7, <1>8, <1>9, <1>10 DEF Validate

(* The answer to the last question, with the types that the next one needs. *)
ChainInv ==
    /\ chain \in Seq(Engines)
    /\ call.op = "asked" => call.q \in Questions
    /\ ChainAgrees

LEMMA ChainStep == ChainInv /\ [TrustNext]_trustVars => ChainInv'
<1> SUFFICES ASSUME ChainInv, [TrustNext]_trustVars PROVE ChainInv'
  OBVIOUS
<1>1. CASE addTrustEngine
  BY <1>1 DEF addTrustEngine, ChainInv, ChainAgrees, NoCall
<1>2. CASE removeTrustEngine
  <2>1. PICK i \in DOMAIN chain : chain' = RemoveAt(chain, i)
    BY <1>2 DEF removeTrustEngine
  <2>2. chain' \in Seq(Engines)
    BY <2>1 DEF ChainInv, RemoveAt
  <2>. QED BY <1>2, <2>2 DEF removeTrustEngine, ChainInv, ChainAgrees, NoCall
<1>3. ASSUME UNCHANGED <<remote, peers, chain>>, call'.op = "asked" => call'.q \in Questions,
             call'.op = "asked" /\ Lasting(call'.asked)
               => (verdict' <=> \E i \in DOMAIN chain : Validate(chain[i], call'.q, peers, call'.asked).ok)
      PROVE  ChainInv'
  <2>1. ASSUME call'.op = "asked", NEW e
        PROVE  Validate(e, call.q, peers, call.asked)' = Validate(e, call'.q, peers, call'.asked)
    BY <1>3, <2>1, SameRemote
  <2>2. ChainAgrees'
    BY <1>3, <2>1 DEF ChainAgrees, Lasting
  <2>. QED BY <1>3, <2>2 DEF ChainInv
<1>4. CASE Ask
  <2>1. PICK q \in Questions :
           /\ call' = [op |-> "asked", q |-> q, asked |-> crit]
           /\ verdict' = ValidateInTurn(chain, q, peers, crit).ok
           /\ UNCHANGED <<peers, remote, chain>>
    BY <1>4 DEF Ask
  <2>2. ASSUME Lasting(crit)
        PROVE  verdict' <=> \E i \in DOMAIN chain : Validate(chain[i], q, peers, crit).ok
    BY <2>1, <2>2, ChainIsAny DEF ChainInv
  <2>3. call'.q = q /\ call'.asked = crit
    BY <2>1
  <2>. QED BY <1>3, <2>1, <2>2, <2>3
<1>5. CASE UNCHANGED trustVars
  BY <1>3, <1>5 DEF trustVars, ChainInv, ChainAgrees
<1>. QED BY <1>1, <1>2, <1>4, <1>5 DEF TrustNext

(***************************************************************************)
(* However the list of engines changes between questions, a chain that is  *)
(* asked with criteria that hold nothing but what reset() spares accepts   *)
(* exactly what one of its engines accepts alone: neither their order nor  *)
(* what an engine did to the shared criteria matters                       *)
(* (ChainingTrustEngine::validate).                                        *)
(***************************************************************************)
THEOREM ChainAlwaysAgrees == TrustSpec => []ChainAgrees
<1>1. TrustInit => ChainInv
  BY DEF TrustInit, ChainInv, ChainAgrees, NoCall
<1>2. ChainInv => ChainAgrees
  BY DEF ChainInv
<1>. QED BY <1>1, <1>2, ChainStep, PTL DEF TrustSpec
-----------------------------------------------------------------------------
(* From certificate to certificate. *)
AreFetched(f, s, c, n) ==
    f = [i \in 0..n |-> IF i = 0 THEN c ELSE Fetched(f[i - 1], s[i])]

LEMMA FetchedExist ==
    ASSUME NEW s, NEW c, NEW n \in Nat
    PROVE  \E f : AreFetched(f, s, c, n)
<1> DEFINE Reaches(m) == \E f : f = [i \in 0..m |-> IF i = 0 THEN c ELSE Fetched(f[i - 1], s[i])]
           S == {m \in Nat : Reaches(m)}
<1>1. 0 \in S
  <2>1. [i \in 0..0 |-> c]
          = [i \in 0..0 |-> IF i = 0 THEN c ELSE Fetched([j \in 0..0 |-> c][i - 1], s[i])]
    OBVIOUS
  <2>. QED BY <2>1
<1>2. ASSUME NEW m \in Nat, m \in S PROVE m + 1 \in S
  <2>1. PICK f : f = [i \in 0..m |-> IF i = 0 THEN c ELSE Fetched(f[i - 1], s[i])]
    BY <1>2
  <2> DEFINE g == [i \in 0..m + 1 |-> IF i = m + 1 THEN Fetched(f[m], s[i]) ELSE f[i]]
  <2>2. \A i \in 0..m : f[i] = IF i = 0 THEN c ELSE Fetched(f[i - 1], s[i])
    BY <2>1
  <2>3. /\ \A i \in 0..m : g[i] = f[i]
        /\ g[m + 1] = Fetched(f[m], s[m + 1])
        /\ g = [i \in 0..m + 1 |-> g[i]]
    OBVIOUS
  <2> HIDE DEF g
  <2>4. \A i \in 0..m + 1 : g[i] = IF i = 0 THEN c ELSE Fetched(g[i - 1], s[i])
    <3>1. ASSUME NEW i \in 1..m
          PROVE  g[i] = Fetched(g[i - 1], s[i])
      <4>1. i - 1 \in 0..m /\ i \in 0..m /\ i # 0
        OBVIOUS
      <4>2. f[i] = Fetched(f[i - 1], s[i])
        BY <2>2, <4>1
      <4>. QED BY <2>3, <4>1, <4>2
    <3>2. g[0] = c
      <4>1. 0 \in 0..m
        OBVIOUS
      <4>2. f[0] = c
        BY <2>2, <4>1
      <4>. QED BY <2>3, <4>1, <4>2
    <3>3. g[m + 1] = Fetched(g[m], s[m + 1])
      <4>1. m \in 0..m
        OBVIOUS
      <4>2. g[m] = f[m]
        BY <2>3, <4>1
      <4>. QED BY <2>3, <4>2
    <3>. QED BY <3>1, <3>2, <3>3
  <2>5. g = [i \in 0..m + 1 |-> IF i = 0 THEN c ELSE Fetched(g[i - 1], s[i])]
    BY <2>3, <2>4
  <2>. QED BY <2>5
<1> HIDE DEF S
<1>3. n \in S
  BY <1>1, <1>2, NatInductive
<1>. QED BY <1>3 DEF S, AreFetched

(* From CRL to CRL. *)
AreAdded(f, s, c, n) ==
    f = [i \in 0..n |-> IF i = 0 THEN c ELSE Added(f[i - 1], s[i])]

LEMMA AddedExist ==
    ASSUME NEW s, NEW c, NEW n \in Nat
    PROVE  \E f : AreAdded(f, s, c, n)
<1> DEFINE Reaches(m) == \E f : f = [i \in 0..m |-> IF i = 0 THEN c ELSE Added(f[i - 1], s[i])]
           S == {m \in Nat : Reaches(m)}
<1>1. 0 \in S
  <2>1. [i \in 0..0 |-> c]
          = [i \in 0..0 |-> IF i = 0 THEN c ELSE Added([j \in 0..0 |-> c][i - 1], s[i])]
    OBVIOUS
  <2>. QED BY <2>1
<1>2. ASSUME NEW m \in Nat, m \in S PROVE m + 1 \in S
  <2>1. PICK f : f = [i \in 0..m |-> IF i = 0 THEN c ELSE Added(f[i - 1], s[i])]
    BY <1>2
  <2> DEFINE g == [i \in 0..m + 1 |-> IF i = m + 1 THEN Added(f[m], s[i]) ELSE f[i]]
  <2>2. \A i \in 0..m : f[i] = IF i = 0 THEN c ELSE Added(f[i - 1], s[i])
    BY <2>1
  <2>3. /\ \A i \in 0..m : g[i] = f[i]
        /\ g[m + 1] = Added(f[m], s[m + 1])
        /\ g = [i \in 0..m + 1 |-> g[i]]
    OBVIOUS
  <2> HIDE DEF g
  <2>4. \A i \in 0..m + 1 : g[i] = IF i = 0 THEN c ELSE Added(g[i - 1], s[i])
    <3>1. ASSUME NEW i \in 1..m
          PROVE  g[i] = Added(g[i - 1], s[i])
      <4>1. i - 1 \in 0..m /\ i \in 0..m /\ i # 0
        OBVIOUS
      <4>2. f[i] = Added(f[i - 1], s[i])
        BY <2>2, <4>1
      <4>. QED BY <2>3, <4>1, <4>2
    <3>2. g[0] = c
      <4>1. 0 \in 0..m
        OBVIOUS
      <4>2. f[0] = c
        BY <2>2, <4>1
      <4>. QED BY <2>3, <4>1, <4>2
    <3>3. g[m + 1] = Added(g[m], s[m + 1])
      <4>1. m \in 0..m
        OBVIOUS
      <4>2. g[m] = f[m]
        BY <2>3, <4>1
      <4>. QED BY <2>3, <4>2
    <3>. QED BY <3>1, <3>2, <3>3
  <2>5. g = [i \in 0..m + 1 |-> IF i = 0 THEN c ELSE Added(g[i - 1], s[i])]
    BY <2>3, <2>4
  <2>. QED BY <2>5
<1> HIDE DEF S
<1>3. n \in S
  BY <1>1, <1>2, NatInductive
<1>. QED BY <1>3 DEF S, AreAdded


LEMMA AcceptedByOne ==
    ASSUME NEW S, NEW s \in Seq(S), NEW q, NEW creds, NEW c, ValidateInTurn(s, q, creds, c).ok
    PROVE  \E i \in DOMAIN s : \E d : Validate(s[i], q, creds, d).ok
<1>1. PICK f : /\ f[0].crit = c /\ ~f[0].ok
               /\ \A i \in 1..Len(s) : f[i] = Turn(s[i], q, creds, f[i - 1], WithCriteria(c).usage)
               /\ ValidateInTurn(s, q, creds, c) = f[Len(s)]
  BY Turns
<1> DEFINE Accepted == \E i \in DOMAIN s : \E d : Validate(s[i], q, creds, d).ok
           N == {i \in Nat : i <= Len(s) /\ f[i].ok => Accepted}
<1>2. 0 \in N
  BY <1>1
<1>3. ASSUME NEW n \in Nat, n \in N PROVE n + 1 \in N
  <2>1. SUFFICES ASSUME n + 1 <= Len(s), f[n + 1].ok, ~f[n].ok PROVE Accepted
    BY <1>3
  <2>2. n + 1 \in DOMAIN s /\ n + 1 \in 1..Len(s)
    BY <2>1
  <2>3. f[n + 1] = Turn(s[n + 1], q, creds, f[n], WithCriteria(c).usage)
    BY <1>1, <2>2
  <2>4. Validate(s[n + 1], q, creds, f[n].crit).ok
    BY <2>1, <2>3 DEF Turn, Answer
  <2>. QED BY <2>2, <2>4
<1> HIDE DEF N, Accepted
<1>4. Len(s) \in N
  BY <1>2, <1>3, NatInductive
<1>. QED BY <1>1, <1>4 DEF N, Accepted

(* The CRL of the first certificate is in the store, and stays there. *)
LEMMA FirstFetched ==
    ASSUME NEW u, IsList(u), u # <<>>, UsableAt(u[1]) # {}
    PROVE  remote[u[1].cdps[Min(UsableAt(u[1]))]] \in FromCDPs(u).crls
<1> DEFINE none == [issuers |-> {}, crls |-> {}]
           crl == remote[u[1].cdps[Min(UsableAt(u[1]))]]
           f == CHOOSE g : AreFetched(g, u, none, Len(u))
<1>1. FromCDPs(u) = f[Len(u)]
  BY DEF FromCDPs, AreFetched
<1>2. Len(u) \in Nat \ {0} /\ 1 \in 1..Len(u)
  BY DEF IsList
<1>3. none.issuers = {} /\ none.crls = {}
  OBVIOUS
<1> HIDE DEF none
<1>4. AreFetched(f, u, none, Len(u))
  BY <1>2, FetchedExist
<1> HIDE DEF f
<1>5. f[0] = none /\ \A i \in 1..Len(u) : f[i] = Fetched(f[i - 1], u[i])
  BY <1>2, <1>4 DEF AreFetched
<1>6. f[1] = Fetched(none, u[1])
  BY <1>2, <1>5
<1>7. crl \in f[1].crls
  BY <1>3, <1>6 DEF Fetched
<1> DEFINE N == {n \in Nat : n + 1 <= Len(u) => crl \in f[n + 1].crls}
<1> HIDE DEF crl
<1>8. 0 \in N
  BY <1>7
<1>9. ASSUME NEW n \in Nat, n \in N PROVE n + 1 \in N
  <2>1. SUFFICES ASSUME n + 2 <= Len(u), crl \in f[n + 1].crls PROVE crl \in f[n + 2].crls
    BY <1>9
  <2>2. f[n + 2] = Fetched(f[n + 1], u[n + 2])
    BY <1>2, <1>5, <2>1
  <2>. QED BY <2>1, <2>2 DEF Fetched
<1> HIDE DEF N
<1>10. Len(u) - 1 \in N
  BY <1>2, <1>8, <1>9, NatInductive
<1>11. crl \in f[Len(u)].crls
  BY <1>2, <1>10 DEF N
<1>. QED BY <1>1, <1>11 DEF crl

(* What was brought along takes nothing out of the store. *)
LEMMA StoreKeeps ==
    ASSUME NEW u, NEW w, Len(w) \in Nat
    PROVE  FromCDPs(u).crls \subseteq Store(u, w)
<1> DEFINE first == FromCDPs(u)
           f == CHOOSE g : AreAdded(g, w, first, Len(w))
<1>1. Store(u, w) = f[Len(w)].crls
  BY DEF Store, AreAdded
<1> HIDE DEF first
<1>2. AreAdded(f, w, first, Len(w))
  BY AddedExist
<1> HIDE DEF f
<1>3. f[0] = first /\ \A i \in 1..Len(w) : f[i] = Added(f[i - 1], w[i])
  BY <1>2 DEF AreAdded
<1> DEFINE N == {n \in Nat : n <= Len(w) => first.crls \subseteq f[n].crls}
<1>4. 0 \in N
  BY <1>3
<1>5. ASSUME NEW n \in Nat, n \in N PROVE n + 1 \in N
  <2>1. SUFFICES ASSUME n + 1 <= Len(w), first.crls \subseteq f[n].crls
                 PROVE  first.crls \subseteq f[n + 1].crls
    BY <1>5
  <2>2. f[n + 1] = Added(f[n], w[n + 1])
    BY <1>3, <2>1
  <2>. QED BY <2>1, <2>2 DEF Added
<1> HIDE DEF N
<1>6. Len(w) \in N
  BY <1>4, <1>5, NatInductive
<1>. QED BY <1>1, <1>6 DEF N, first

(* Of the distribution points, the first that has a fresh CRL is taken. *)
LEMMA FirstFresh ==
    ASSUME NEW x, IsList(x.cdps), NEW i \in DOMAIN x.cdps,
           remote[x.cdps[i]] # None, remote[x.cdps[i]].fresh,
           \A j \in 1..i - 1 : remote[x.cdps[j]] = None \/ ~remote[x.cdps[j]].fresh
    PROVE  UsableAt(x) # {} /\ Min(UsableAt(x)) = i
<1> DEFINE U == UsableAt(x)
<1>1. DOMAIN x.cdps = 1..Len(x.cdps) /\ Len(x.cdps) \in Nat /\ i \in Nat
  BY DEF IsList
<1>2. i \in U /\ U \subseteq Nat
  BY <1>1 DEF UsableAt
<1>3. ASSUME NEW j \in U, j < i PROVE FALSE
  <2>1. j \in 1..i - 1 /\ j # Len(x.cdps)
    BY <1>1, <1>3 DEF UsableAt
  <2>. QED BY <1>3, <2>1 DEF UsableAt
<1> HIDE DEF U
<1>4. \A j \in U : i <= j
  BY <1>1, <1>2, <1>3
<1>5. \A k \in U : (\A j \in U : k <= j) => k = i
  BY <1>1, <1>2, <1>4
<1>6. Min(U) = i
  BY <1>2, <1>4, <1>5 DEF Min
<1>. QED BY <1>2, <1>6 DEF U

(* The certificate that is to be validated is on each of its paths. *)
LEMMA OnPath ==
    ASSUME NEW ee, NEW u, NEW a, NEW p \in Paths(ee, u, a)
    PROVE  ee \in Range(p)
<1>1. ASSUME NEW m, NEW r, m = <<>> \/ \E x : m = <<x>>, p = <<ee>> \o m \o <<r>>
      PROVE  ee \in Range(p)
  <2>1. PICK T : <<ee>> \in Seq(T) /\ m \in Seq(T) /\ <<r>> \in Seq(T)
    <3>1. CASE m = <<>>
      BY <3>1, <<ee>> \in Seq({ee, r}) /\ m \in Seq({ee, r}) /\ <<r>> \in Seq({ee, r})
    <3>2. ASSUME NEW x, m = <<x>> PROVE \E T : <<ee>> \in Seq(T) /\ m \in Seq(T) /\ <<r>> \in Seq(T)
      BY <3>2, <<ee>> \in Seq({ee, x, r}) /\ m \in Seq({ee, x, r}) /\ <<r>> \in Seq({ee, x, r})
    <3>. QED BY <1>1, <3>1, <3>2
  <2> DEFINE l == <<ee>> \o m
  <2>2. l \in Seq(T) /\ Len(l) >= 1 /\ l[1] = ee
    BY <2>1
  <2> HIDE DEF l
  <2>3. l \o <<r>> \in Seq(T) /\ Len(l \o <<r>>) >= 1 /\ (l \o <<r>>)[1] = ee
    BY <2>1, <2>2
  <2>4. p[1] = ee /\ 1 \in DOMAIN p
    BY <1>1, <2>3 DEF l
  <2>. QED BY <2>4 DEF Range
<1>2. ASSUME p = <<ee>>
      PROVE  ee \in Range(p)
  <2>1. p[1] = ee /\ 1 \in DOMAIN p
    BY <1>2
  <2>. QED BY <2>1 DEF Range
<1> DEFINE middle == {x \in Range(u) \cup Range(a) : ~SelfIssued(x)}
           roots == {x \in Range(a) : SelfIssued(x)}
           M == {<<>>} \cup {<<x>> : x \in middle \ {ee}}
           long == {<<ee>> \o m \o <<r>> : m \in M, r \in roots}
           short == {<<ee>> : x \in {y \in roots : y = ee}}
<1>3. p \in {q \in long : Links(q)} \cup short
  <2>1. Paths(ee, u, a) = {q \in long : Links(q)} \cup short
    BY DEF Paths
  <2> HIDE DEF long, short
  <2>. QED BY <2>1
<1>4. \A m \in M : m = <<>> \/ \E x : m = <<x>>
  OBVIOUS
<1> HIDE DEF M, roots
<1>5. CASE p \in long
  <2>1. PICK m \in M, r \in roots : p = <<ee>> \o m \o <<r>>
    BY <1>5
  <2>. QED BY <1>1, <1>4, <2>1
<1>6. CASE p \in short
  BY <1>2, <1>6
<1> HIDE DEF long, short
<1>. QED BY <1>3, <1>5, <1>6

(* What the distribution point of the signer's certificate says holds for a *)
(* path that a revocation-checking engine finds.                            *)
LEMMA RevokedRefused ==
    ASSUME NEW e, e.revocation \in {"entityOnly", "fullChain"}, NEW u, IsList(u), u # <<>>,
           NEW w, Len(w) \in Nat, NEW ee, ee = u[1], IsList(ee.cdps), PathValid(e, ee, u, w),
           NEW i \in DOMAIN ee.cdps, remote[ee.cdps[i]] # None, remote[ee.cdps[i]].fresh,
           remote[ee.cdps[i]].issuer = ee.issuer,
           \A j \in 1..i - 1 : remote[ee.cdps[j]] = None \/ ~remote[ee.cdps[j]].fresh
    PROVE  ee.serial \notin remote[ee.cdps[i]].revoked
<1>1. UsableAt(ee) # {} /\ Min(UsableAt(ee)) = i
  BY FirstFresh
<1>2. remote[ee.cdps[i]] \in Store(u, w)
  BY <1>1, FirstFetched, StoreKeeps
<1>3. Unrevoked(ee, Store(u, w))
  BY OnPath DEF PathValid
<1>. QED BY <1>2, <1>3 DEF Unrevoked

(* What is accepted was signed with a KeyInfo that has certificates, and a path *)
(* was found from the one whose key verifies the signature.                     *)
LEMMA AcceptedSignature ==
    ASSUME NEW e \in Engines, NEW sig \in Signatures, NEW creds, NEW d,
           PKIXSignature(e, sig, creds, d).ok
    PROVE  /\ sig.keyInfo # None /\ CertsIn(sig.keyInfo) # <<>>
           /\ \E w : /\ Len(w) \in Nat
                     /\ PathValid(e, EndEntity(CertsIn(sig.keyInfo), sig), CertsIn(sig.keyInfo), w)
<1> DEFINE ki == sig.keyInfo
           found == IF sig.built THEN resolve(ki, {"certs", "crls"}, FALSE)
                    ELSE resolveNativeKeyInfo(ki, {"certs", "crls"})
           ee == EndEntity(found.certs, sig)
<1>1. found # None /\ ee # None
  BY DEF PKIXSignature, Answer
<1>2. validateWithCRLs(e, ee, found.certs, creds, d, found.crls).ok
  BY <1>1 DEF PKIXSignature
<1> HIDE DEF found, ee
<1>3. PathValid(e, ee, found.certs, found.crls \o e.crls)
  BY <1>2 DEF validateWithCRLs, Answer
<1>4. ki # None
  BY <1>1 DEF found, resolve, resolveNativeKeyInfo
<1>5. found.certs = CertsIn(ki) /\ found.crls = CRLsIn(ki)
  <2>1. CASE sig.built
    <3> DEFINE r == ResolveKeyInfo(ki, {"certs", "crls"}, FALSE)
    <3>1. found = r
      BY <1>1, <1>4, <2>1 DEF found, resolve, Resolved
    <3>2. r.certs = CertsIn(ki) /\ r.crls = CRLsIn(ki)
      BY DEF ResolveKeyInfo, BasicCredential, CertsFound, resolveCerts, resolveCRLs, Following
    <3>. QED BY <3>1, <3>2
  <2>2. CASE ~sig.built
    <3> DEFINE r == ResolveNative(ki, {"certs", "crls"})
    <3>1. found = r
      BY <1>1, <1>4, <2>2 DEF found, resolveNativeKeyInfo, Resolved
    <3>2. r.certs = CertsIn(ki) /\ r.crls = CRLsIn(ki)
      BY DEF ResolveNative, ResolveKeyInfo, BasicCredential
    <3>. QED BY <3>1, <3>2
  <2>. QED BY <2>1, <2>2
<1>6. CertsIn(ki) # <<>>
  <2>1. ee = EndEntity(CertsIn(ki), sig)
    BY <1>5 DEF ee
  <2>2. CertsIn(ki) = <<>> => EndEntity(CertsIn(ki), sig) = None
    BY DEF EndEntity
  <2>. QED BY <1>1, <2>1, <2>2
<1>7. Len(CRLsIn(ki) \o e.crls) \in Nat
  <2>1. CRLsIn(ki) \in Seq(Range(CRLsIn(ki))) /\ e.crls \in Seq(Range(e.crls))
    BY <1>4, EngineAssumption DEF IsList
  <2> DEFINE s == CRLsIn(ki)
             t == e.crls
             T == Range(s) \cup Range(t)
  <2>2. s \in Seq(T) /\ t \in Seq(T)
    <3> DEFINE A == Range(s)
               B == Range(t)
    <3>1. s \in Seq(A) /\ t \in Seq(B)
      BY <2>1
    <3> HIDE DEF A, B, s, t
    <3>2. s \in Seq(A \cup B) /\ t \in Seq(A \cup B)
      BY <3>1
    <3>. QED BY <3>2 DEF A, B
  <2> HIDE DEF s, t, T
  <2>3. s \o t \in Seq(T)
    BY <2>2
  <2>4. Len(s \o t) \in Nat
    BY <2>3
  <2>. QED BY <2>4 DEF s, t
<1>. QED BY <1>3, <1>4, <1>5, <1>6, <1>7 DEF ee

(* What the property looks for in the KeyInfo is what the engine found. *)
LEMMA SameCertificates ==
    ASSUME NEW ki, ki # None, CertsIn(ki) # <<>>
    PROVE  resolve(ki, {"certs"}, FALSE).certs = CertsIn(ki)
<1> DEFINE r == ResolveKeyInfo(ki, {"certs"}, FALSE)
<1>1. r.certs = CertsIn(ki)
  BY DEF ResolveKeyInfo, BasicCredential, CertsFound, resolveCerts, Following
<1> HIDE DEF r
<1>2. resolve(ki, {"certs"}, FALSE) = r
  BY <1>1 DEF resolve, Resolved, isEmpty, r
<1>. QED BY <1>1, <1>2

\* What CDPWins says of a signature that was accepted.
Heeded(sig) ==
    LET found == resolve(sig.keyInfo, {"certs"}, FALSE)
        ee == EndEntity(found.certs, sig)
    IN  \A i \in DOMAIN ee.cdps :
           LET crl == remote[ee.cdps[i]]
           IN  crl # None /\ crl.fresh /\ crl.issuer = ee.issuer /\ ee = Head(found.certs)
                 /\ (\A j \in 1..i - 1 : remote[ee.cdps[j]] = None \/ ~remote[ee.cdps[j]].fresh)
               => ee.serial \notin crl.revoked

Concerned ==
    /\ call.op = "asked" /\ call.q.op = "signature" /\ verdict
    /\ \A i \in DOMAIN chain : chain[i].kind = "pkix" /\ chain[i].revocation # "off"

LEMMA WhatCDPWinsSays ==
    /\ CDPWins <=> (Concerned => Heeded(call.q.sig))
    /\ CDPWins' <=> (Concerned' => Heeded(call.q.sig)')
  BY Zenon DEF CDPWins, Concerned, Heeded

(* The answer to the last question, with the type of the chain. *)
CDPInv ==
    /\ chain \in Seq(Engines)
    /\ CDPWins

LEMMA CDPStep == CDPInv /\ [TrustNext]_trustVars => CDPInv'
<1> SUFFICES ASSUME CDPInv, [TrustNext]_trustVars PROVE CDPInv'
  OBVIOUS
<1>0. call'.op # "asked" => CDPWins'
  BY WhatCDPWinsSays DEF Concerned
<1>1. CASE addTrustEngine
  BY <1>0, <1>1 DEF addTrustEngine, CDPInv, NoCall
<1>2. CASE removeTrustEngine
  <2>1. PICK i \in DOMAIN chain : chain' = RemoveAt(chain, i)
    BY <1>2 DEF removeTrustEngine
  <2>2. chain' \in Seq(Engines)
    BY <2>1 DEF CDPInv, RemoveAt
  <2>. QED BY <1>0, <1>2, <2>2 DEF removeTrustEngine, CDPInv, NoCall
<1>3. CASE Ask
  <2>1. PICK q \in Questions :
           /\ call' = [op |-> "asked", q |-> q, asked |-> crit]
           /\ verdict' = ValidateInTurn(chain, q, peers, crit).ok
           /\ UNCHANGED <<peers, remote, chain>>
    BY <1>3 DEF Ask
  <2>2. call'.q = q
    BY <2>1
  <2> DEFINE ki == q.sig.keyInfo
             u == CertsIn(ki)
             ee == EndEntity(u, q.sig)
  <2>3. ASSUME q.op = "signature", verdict',
               \A i \in DOMAIN chain : chain[i].kind = "pkix" /\ chain[i].revocation # "off"
        PROVE  /\ q.sig \in Signatures /\ ki # None /\ u # <<>>
               /\ \E e \in Engines :
                     /\ e.revocation \in {"entityOnly", "fullChain"}
                     /\ \E w : Len(w) \in Nat /\ PathValid(e, ee, u, w)
    <3>1. q.sig \in Signatures
      BY <2>3 DEF Questions
    <3>2. PICK i \in DOMAIN chain : \E d : Validate(chain[i], q, peers, d).ok
      BY <2>1, <2>3, AcceptedByOne DEF CDPInv
    <3>3. chain[i] \in Engines /\ chain[i].kind = "pkix" /\ chain[i].revocation # "off"
      BY <2>3 DEF CDPInv
    <3>4. \E d : PKIXSignature(chain[i], q.sig, peers, d).ok
      BY <2>3, <3>2, <3>3 DEF Validate
    <3>5. chain[i].revocation \in {"entityOnly", "fullChain"}
      BY <3>3, EngineAssumption
    <3>. QED BY <3>1, <3>3, <3>4, <3>5, AcceptedSignature
  <2>4. ASSUME q.op = "signature", verdict',
               \A i \in DOMAIN chain : chain[i].kind = "pkix" /\ chain[i].revocation # "off",
               ee = u[1], NEW i \in DOMAIN ee.cdps,
               remote[ee.cdps[i]] # None, remote[ee.cdps[i]].fresh,
               remote[ee.cdps[i]].issuer = ee.issuer,
               \A j \in 1..i - 1 : remote[ee.cdps[j]] = None \/ ~remote[ee.cdps[j]].fresh
        PROVE  ee.serial \notin remote[ee.cdps[i]].revoked
    <3>1. q.sig \in Signatures /\ ki # None /\ u # <<>>
      BY <2>3, <2>4
    <3>2. PICK e \in Engines : /\ e.revocation \in {"entityOnly", "fullChain"}
                              /\ \E w : Len(w) \in Nat /\ PathValid(e, ee, u, w)
      BY <2>3, <2>4
    <3>3. IsList(u) /\ \A x \in Range(u) : IsList(x.cdps)
      BY <3>1, EngineAssumption
    <3>4. u[1] \in Range(u)
      BY <3>1, <3>3 DEF IsList, Range
    <3>5. IsList(ee.cdps)
      BY <2>4, <3>3, <3>4
    <3> HIDE DEF ee, u
    <3>. QED BY <2>4, <3>1, <3>2, <3>3, <3>5, RevokedRefused
  <2>5. Concerned' => Heeded(q.sig)
    <3>1. SUFFICES ASSUME q.op = "signature", verdict',
                          \A i \in DOMAIN chain : chain[i].kind = "pkix" /\ chain[i].revocation # "off"
                   PROVE  Heeded(q.sig)
      BY <2>1, <2>2 DEF Concerned
    <3>2. resolve(ki, {"certs"}, FALSE).certs = u
      BY <2>3, <3>1, SameCertificates
    <3>3. u[1] = Head(u)
      BY DEF u
    <3> HIDE DEF u, ee
    <3>. QED BY <2>4, <3>1, <3>2, <3>3 DEF Heeded, ee
  <2>6. \A sig : Heeded(sig)' <=> Heeded(sig)
    BY <2>1 DEF Heeded
  <2>7. CDPWins'
    BY <2>2, <2>5, <2>6, WhatCDPWinsSays
  <2>. QED BY <2>1, <2>7 DEF CDPInv
<1>4. CASE UNCHANGED trustVars
  BY <1>4 DEF trustVars, CDPInv, CDPWins
<1>. QED BY <1>1, <1>2, <1>3, <1>4 DEF TrustNext

(***************************************************************************)
(* A chain whose engines all check revocation does not accept a signature  *)
(* whose certificate is revoked by the CRL that its distribution point     *)
(* serves, whatever certificates and CRLs the signature brings along and   *)
(* wherever a path may lead (PKIXPathValidator::validate pulls the CRLs of *)
(* distribution points first).                                             *)
(***************************************************************************)
THEOREM DistributionPointsWin == TrustSpec => []CDPWins
<1>1. TrustInit => CDPInv
  BY WhatCDPWinsSays DEF TrustInit, CDPInv, Concerned, NoCall
<1>2. CDPInv => CDPWins
  BY DEF CDPInv
<1>. QED BY <1>1, <1>2, CDPStep, PTL DEF TrustSpec
=============================================================================
