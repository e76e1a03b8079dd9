------------------------ MODULE EncryptionElements -------------------------
(***************************************************************************)
(* The classes of XML Encryption (EncryptionImpl.cpp) and their            *)
(* registration (EncryptionSchemaValidators.cpp).                          *)
(***************************************************************************)
EXTENDS ElementMacros

EncryptionMethodImpl ==
    Attributes(Wildcard(Children(Each(<<"KeySize", "OAEPparams">>, Enc)), OtherThan("enc")),
               {"Algorithm"})

\* xenc:Transforms holds ds:Transform.
EncTransformsImpl == Collections(<<Ds("Transform")>>)

CipherReferenceImpl == Attributes(Children(<<Enc("Transforms")>>), {"URI"})

CipherDataImpl == Children(Each(<<"CipherValue", "CipherReference">>, Enc))

\* Takes every child.  An attribute that is not Id goes through setAttribute(),
\* which its override directs to Id and Target.
EncryptionPropertyImpl ==
    Extensible(Attributes(Wildcard(Plain, Namespaces), {"Id", "Target"}))

EncryptionPropertiesImpl == Attributes(Collections(<<Enc("EncryptionProperty")>>), {"Id"})

\* The base class of DataReference and KeyReference takes every child.
ReferenceTypeImpl == Attributes(Wildcard(Plain, Namespaces), {"URI"})
DataReferenceImpl == ReferenceTypeImpl
KeyReferenceImpl == ReferenceTypeImpl

ReferenceListImpl ==
    [Collections(Each(<<"DataReference", "KeyReference">>, Enc)) EXCEPT !.bag = TRUE]

EncryptedTypeImpl ==
    Attributes(Children(<<Enc("EncryptionMethod"), Ds("KeyInfo"), Enc("CipherData"),
                          Enc("EncryptionProperties")>>), {"Id", "Type", "MimeType", "Encoding"})

EncryptedDataImpl == EncryptedTypeImpl

\* Mutant: _clone() does not call that of its base class.
EncryptedKeyNoBaseClone ==
    LET own == Each(<<"ReferenceList", "CarriedKeyName">>, Enc)
    IN  Attributes([EncryptedTypeImpl EXCEPT !.slots = @ \o own, !.takes = own \o @,
                                             !.copied = own], {"Recipient"})

\* Its own places follow those of its base class.
EncryptedKeyImpl ==
    LET own == Each(<<"ReferenceList", "CarriedKeyName">>, Enc)
    IN  Attributes([EncryptedTypeImpl EXCEPT !.slots = @ \o own, !.takes = own \o @,
                                             !.copied = @ \o own], {"Recipient"})

MGFImpl == Attributes(Simple, {"Algorithm"})

EncryptionSimple ==
    {Enc(n) : n \in {"CarriedKeyName", "CipherValue", "KeySize", "OAEPparams"}}

EncryptionComplex ==
    {Enc(n) : n \in {"EncryptionMethod", "Transforms", "CipherReference", "CipherData",
                     "EncryptionProperty", "EncryptionProperties", "DataReference",
                     "KeyReference", "ReferenceList", "EncryptedData", "EncryptedKey"}}
    \cup {Enc11("MGF")}

EncryptionClass(q) ==
    IF q \in EncryptionSimple THEN Simple
    ELSE CASE q = Enc("EncryptionMethod") -> EncryptionMethodImpl
           [] q = Enc("Transforms") -> EncTransformsImpl
           [] q = Enc("CipherReference") -> CipherReferenceImpl
           [] q = Enc("CipherData") -> CipherDataImpl
           [] q = Enc("EncryptionProperty") -> EncryptionPropertyImpl
           [] q = Enc("EncryptionProperties") -> EncryptionPropertiesImpl
           [] q = Enc("DataReference") -> DataReferenceImpl
           [] q = Enc("KeyReference") -> KeyReferenceImpl
           [] q = Enc("ReferenceList") -> ReferenceListImpl
           [] q = Enc("EncryptedData") -> EncryptedDataImpl
           [] q = Enc("EncryptedKey") -> EncryptedKeyImpl
           [] q = Enc11("MGF") -> MGFImpl

\* registerEncryptionClasses()
EncryptionRegistered == EncryptionSimple \cup EncryptionComplex
=============================================================================
