----------------------------- MODULE XMLSignature -----------------------------
(***************************************************************************)
(* A ds:Signature below a root (signature/impl/XMLSecSignatureImpl.cpp,    *)
(* impl/UnknownElement.cpp).  It is at any time a DOM with a native        *)
(* signature on top, or text that was saved when the DOM was released, or  *)
(* neither yet; the documents the DOM is in come and go with the root,     *)
(* which is DOMCache's subject and here one object with a text.            *)
(*                                                                         *)
(* A signature is its algorithm, the ds:KeyInfo in it and the value, which *)
(* is over the text of the document it is in.                              *)
(***************************************************************************)
EXTENDS Naturals

CONSTANTS Null,
          Text,          \* contents of the root
          SignatureAlg,  \* algorithms
          DefaultAlg,    \* the one marshall() takes if none was set
          SigningKey,
          SignKeyInfo,   \* KeyInfo objects a client may set
          Signers,       \* credentials: [key, keyInfo]
          SignCalls      \* the hazardous calls a client makes, of HazardousSigning

HazardousSigning == {"late",     \* changing a setting of a signature that has been
                                 \* marshalled already, with a KeyInfo that has a DOM
                     "reuse"}    \* any call of an object whose marshall() has thrown

\* What a signature says, in its DOM or as text.
Algorithms == SignatureAlg \cup {DefaultAlg}
Values == [key : SigningKey, alg : Algorithms, over : Text]
NativeSignatures == [alg : Algorithms, keyInfo : SignKeyInfo \cup {Null}, value : Values \cup {Null}]

ASSUME SignatureAssumption ==
    /\ SignCalls \subseteq HazardousSigning
    /\ Signers \subseteq [key : SigningKey, keyInfo : SignKeyInfo \cup {Null}]
    /\ Null \notin SignatureAlg \cup SigningKey \cup SignKeyInfo \cup Text
    /\ Null \notin NativeSignatures \cup Values \cup Signers

VARIABLES text,          \* the content of the root
          rootDOM,       \* the root has a DOM
          document,      \* the document bound to the root
          tree,          \* the text in that document
          sdom,          \* m_dom of the signature: what it says
          native,        \* m_signature: the document it works on
          xml,           \* m_xml
          sm, signingKey, reference,
          keyInfo,       \* m_keyInfo
          keyInfoDOM,    \* the document of its DOM
          made,          \* what sign() made last
          requested      \* the last call was marshall() and asked for a signature

rootVars == <<text, rootDOM, document, tree>>
settings == <<sm, signingKey, reference>>
signatureVars == <<rootVars, sdom, native, xml, settings, keyInfo, keyInfoDOM, made, requested>>

\* Documents: none, two that the root uses in turn, one of the KeyInfo's own, and
\* one that has been released.
NoDoc == 0
Documents == {1, 2}
OwnDoc == 3
FreedDoc == 4

SignatureTypeOK ==
    /\ text \in Text /\ rootDOM \in BOOLEAN
    /\ document \in Documents \cup {NoDoc} /\ tree \in Text \cup {Null}
    /\ sdom \in NativeSignatures \cup {Null} /\ native \in Documents \cup {NoDoc, FreedDoc}
    /\ xml \in NativeSignatures \cup {Null}
    /\ sm \in SignatureAlg \cup {Null} /\ signingKey \in SigningKey \cup {Null}
    /\ reference \in BOOLEAN
    /\ keyInfo \in SignKeyInfo \cup {Null}
    /\ keyInfoDOM \in Documents \cup {NoDoc, OwnDoc, FreedDoc}
    /\ made \in NativeSignatures \cup {Null} /\ requested \in BOOLEAN
-----------------------------------------------------------------------------
SignatureInit ==
    /\ text \in Text
    /\ rootDOM = FALSE /\ document = NoDoc /\ tree = Null
    /\ sdom = Null /\ native = NoDoc /\ xml = Null
    /\ sm = Null /\ signingKey = Null /\ reference = FALSE
    /\ keyInfo = Null /\ keyInfoDOM = NoDoc
    /\ made = Null /\ requested = FALSE

\* What the signature says, wherever it is kept.
Kept == IF sdom # Null THEN sdom ELSE xml

\* What is read of it.  From a DOM in a released document that is undefined.
Read == IF native = FreedDoc THEN NativeSignatures \cup {Null} ELSE {Kept}

\* releaseDOM() saves the DOM as text and lets go of the native signature.
ReleaseDOM ==
    /\ sdom' = Null
    /\ native' = NoDoc
    /\ xml' \in Read

SetText(t) ==
    /\ t # text /\ text' = t
    /\ rootDOM' = FALSE
    /\ requested' = FALSE
    /\ UNCHANGED <<document, tree, sdom, native, xml, settings, keyInfo, keyInfoDOM, made>>

\* A setting of a signature with a DOM releases it, and the root's.
Touch ==
    /\ Kept # Null => keyInfoDOM = NoDoc \/ "late" \in SignCalls
    /\ IF sdom # Null THEN ReleaseDOM /\ rootDOM' = FALSE ELSE UNCHANGED <<sdom, native, xml, rootDOM>>
    /\ requested' = FALSE

setSignatureAlgorithm(a) ==
    /\ a # sm /\ sm' = a
    /\ Touch
    /\ UNCHANGED <<text, document, tree, signingKey, reference, keyInfo, keyInfoDOM, made>>

setSignatureKeyInfo(k) ==
    /\ k # keyInfo /\ keyInfo' = k /\ keyInfoDOM' = NoDoc
    /\ Touch
    /\ UNCHANGED <<text, document, tree, settings, made>>

setSigningKey(k) ==
    /\ signingKey' = k
    /\ requested' = FALSE
    /\ UNCHANGED <<rootVars, sdom, native, xml, sm, reference, keyInfo, keyInfoDOM, made>>

setContentReference ==
    /\ reference' = TRUE
    /\ requested' = FALSE
    /\ UNCHANGED <<rootVars, sdom, native, xml, sm, signingKey, keyInfo, keyInfoDOM, made>>

releaseThisAndChildrenDOM ==
    /\ rootDOM' = FALSE
    /\ IF sdom # Null THEN ReleaseDOM ELSE UNCHANGED <<sdom, native, xml>>
    /\ keyInfoDOM' = NoDoc
    /\ requested' = FALSE
    /\ UNCHANGED <<text, document, tree, settings, keyInfo, made>>
-----------------------------------------------------------------------------
(***************************************************************************)
(* Signing.  The key is that of the credential, or the one that was set.   *)
(***************************************************************************)
KeyOf(signer) == IF signer # Null THEN signer.key ELSE signingKey
CanSign(signer) == reference /\ KeyOf(signer) # Null

Signed(s, signer, over) ==
    [s EXCEPT !.value = [key |-> KeyOf(signer), alg |-> s.alg, over |-> over]]

\* sign() of a signature that has a DOM; without a reference or a key it throws
\* and does nothing.
Signs(signer) == native # NoDoc /\ CanSign(signer)

Sign(signer) ==
    /\ Signs(signer)
    /\ \E s \in Read \ {Null}, over \in IF native = FreedDoc THEN Text ELSE {tree} :
          sdom' = Signed(s, signer, over)
    /\ made' = sdom'
    /\ requested' = FALSE
    /\ UNCHANGED <<rootVars, native, xml, settings, keyInfo, keyInfoDOM>>

\* The library fails after the old references have been removed: what is left
\* verifies no more.
SignFails(signer) ==
    /\ Signs(signer)
    /\ \E s \in Read \ {Null} : sdom' = [s EXCEPT !.value = Null]
    /\ made' = Null
    /\ requested' = FALSE
    /\ UNCHANGED <<rootVars, native, xml, settings, keyInfo, keyInfoDOM>>

\* The root has a DOM: it is returned as it is, whatever else is asked for.
MarshallRootCached(sign, signer) ==
    /\ rootDOM
    /\ requested' = sign
    /\ UNCHANGED <<rootVars, sdom, native, xml, settings, keyInfo, keyInfoDOM, made>>

\* A fault: the DOM of the KeyInfo is left behind.
ReleasedKeyInfoKept(k) == k

\* A DOM of another document is released, that of the KeyInfo with it.
ReleasedKeyInfo(k) == IF sdom # Null THEN NoDoc ELSE k

\* The root is given a new document.  A signature that has been marshalled before
\* is put into it as it was, a new one is empty; the KeyInfo, that of the
\* credential if there is one, goes in if there is none.
New == IF document = 1 THEN 2 ELSE 1
Blank == [alg |-> IF sm = Null THEN DefaultAlg ELSE sm, keyInfo |-> Null, value |-> Null]
Marshalled == {IF s # Null THEN s ELSE Blank : s \in Read}
KeyInfoOf(signer) == IF signer # Null THEN signer.keyInfo ELSE keyInfo
Written(was, signer) == KeyInfoOf(signer) # Null /\ was.keyInfo = Null
Full(was, signer) == IF Written(was, signer) THEN [was EXCEPT !.keyInfo = KeyInfoOf(signer)] ELSE was
KeyInfoLeft(signer) == IF signer # Null THEN NoDoc ELSE ReleasedKeyInfo(keyInfoDOM)

MarshallRoot(sign, signer) ==
    /\ ~rootDOM
    /\ sign => CanSign(signer)
    /\ \E was \in Marshalled :
          LET full == Full(was, signer)
              kd == IF Written(was, signer) THEN New ELSE KeyInfoLeft(signer)
          IN  /\ sdom' = IF sign THEN Signed(full, signer, text) ELSE full
              /\ keyInfoDOM' = IF kd # NoDoc /\ kd = document THEN FreedDoc ELSE kd
    /\ made' = IF sign THEN sdom' ELSE made
    /\ native' = New
    /\ xml' = Null
    /\ keyInfo' = KeyInfoOf(signer)
    /\ rootDOM' = TRUE /\ document' = New /\ tree' = text
    /\ requested' = sign
    /\ UNCHANGED <<text, settings>>

\* sign() throws in marshallInto(), for want of a reference or a key or in the
\* library.  By then the signature and its KeyInfo have their DOM in the new
\* document, which is released before the root takes it.
MarshallRootThrows(signer) ==
    /\ ~rootDOM
    /\ \E was \in Marshalled :
          /\ sdom' = Full(was, signer)
          /\ keyInfoDOM' = IF Written(was, signer) THEN FreedDoc ELSE KeyInfoLeft(signer)
    /\ native' = FreedDoc
    /\ xml' = Null
    /\ keyInfo' = KeyInfoOf(signer)
    /\ requested' = FALSE
    /\ UNCHANGED <<rootVars, settings, made>>

\* The client gives the root up and builds another.
Discard ==
    /\ text' \in Text
    /\ rootDOM' = FALSE /\ document' = NoDoc /\ tree' = Null
    /\ sdom' = Null /\ native' = NoDoc /\ xml' = Null
    /\ sm' = Null /\ signingKey' = Null /\ reference' = FALSE
    /\ keyInfo' = Null /\ keyInfoDOM' = NoDoc
    /\ made' = Null /\ requested' = FALSE

\* A fault: a clone takes the saved text but does not save the DOM.
CopiedTextOnly == {xml}

\* cloneSignature() copies the text, or the DOM as text.
Copied == Read

\* The client goes on with a clone of the root.  With a DOM it is made by parsing
\* a copy of that, and without one from clones of the children, the KeyInfo's from
\* its own DOM; what the signature refers to is not copied.
CloneRoot ==
    /\ IF rootDOM
       THEN /\ native' = document /\ sm' = Null /\ signingKey' = Null
            /\ keyInfo' = Null /\ keyInfoDOM' = NoDoc
            /\ UNCHANGED <<document, tree, sdom, xml>>
       ELSE /\ sdom' = Null /\ native' = NoDoc
            /\ xml' \in Copied
            /\ document' = NoDoc /\ tree' = Null
            /\ keyInfoDOM' = IF keyInfoDOM \in Documents THEN OwnDoc ELSE keyInfoDOM
            /\ UNCHANGED <<sm, signingKey, keyInfo>>
    /\ reference' = FALSE
    /\ requested' = FALSE
    /\ UNCHANGED <<text, rootDOM, made>>

SignatureCall ==
    \/ \E t \in Text : SetText(t)
    \/ \E a \in SignatureAlg : setSignatureAlgorithm(a)
    \/ \E k \in SignKeyInfo : setSignatureKeyInfo(k)
    \/ \E k \in SigningKey : setSigningKey(k)
    \/ setContentReference
    \/ releaseThisAndChildrenDOM
    \/ \E s \in Signers \cup {Null}, sign \in BOOLEAN :
          MarshallRootCached(sign, s) \/ MarshallRoot(sign, s)
    \/ \E s \in Signers \cup {Null} : MarshallRootThrows(s) \/ Sign(s) \/ SignFails(s)
    \/ CloneRoot

SignatureNext ==
    \/ (native # FreedDoc \/ "reuse" \in SignCalls) /\ SignatureCall
    \/ Discard

SignatureSpec == SignatureInit /\ [][SignatureNext]_signatureVars

\* SignatureValidator::validate() with the key.
Validates(key) ==
    /\ native # NoDoc
    /\ sdom.value # Null /\ sdom.value = [key |-> key, alg |-> sdom.alg, over |-> tree]
-----------------------------------------------------------------------------
\* A signature that was made over what the root still says verifies when the root
\* is sent: releasing, marshalling again, moving to another document and cloning
\* bring back the same value, algorithm and KeyInfo, unless a later sign() failed.
SentVerifies ==
    rootDOM /\ made # Null /\ made.value.over = text
    => Validates(made.value.key) /\ (made.keyInfo # Null => sdom.keyInfo = made.keyInfo)

\* The native signature works on the DOM the signature has, in the document of the
\* root, and no KeyInfo has its DOM in a document that has been released, until a
\* marshall() throws; what it leaves is fit to be destroyed only.
SignatureAtHome ==
    native # FreedDoc =>
        /\ native = IF sdom # Null THEN document ELSE NoDoc
        /\ sdom # Null => xml = Null
        /\ keyInfoDOM # FreedDoc

\* "This depends on all objects being able to preserve their DOM at all costs"
\* (AbstractXMLObjectMarshaller.cpp, XMLSecSignatureImpl.cpp): whatever marshall()
\* does, no object is left with a DOM in a document that has been released.
DOMAtAllCosts == native # FreedDoc /\ keyInfoDOM # FreedDoc

\* "sigs: ordered array of signatures to create after marshalling is complete"
\* (XMLObject.h): a call of marshall() that asks for a signature ends with one over
\* what the root says.
SignedOnRequest ==
    requested => sdom.value # Null /\ sdom.value.over = text
=============================================================================
