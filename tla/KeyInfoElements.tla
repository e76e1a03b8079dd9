-------------------------- MODULE KeyInfoElements --------------------------
(***************************************************************************)
(* The classes of ds:KeyInfo and of what it contains (KeyInfoImpl.cpp),    *)
(* their validators and their registration (KeyInfoSchemaValidators.cpp).  *)
(***************************************************************************)
EXTENDS ElementMacros

\* Mutant: the last child is left out of the copy constructor.
DSAKeyValueShortCopy ==
    LET parts == Each(<<"P", "Q", "G", "Y", "J", "Seed", "PgenCounter">>, Ds)
    IN  [Children(parts) EXCEPT !.copied = Front(parts)]

DSAKeyValueImpl == Children(Each(<<"P", "Q", "G", "Y", "J", "Seed", "PgenCounter">>, Ds))

RSAKeyValueImpl == Children(Each(<<"Modulus", "Exponent">>, Ds))

NamedCurveImpl == Attributes(Plain, {"URI"})

\* ECParameters is held as an XMLObject, whatever its class, and its setter
\* replaces one that was there.
ECKeyValueImpl ==
    LET parts == Each(<<"ECParameters", "NamedCurve", "PublicKey">>, Ds11)
    IN  Attributes([Children(parts) EXCEPT !.takes = Tail(parts), !.byName = {parts[1]}], {"Id"})

\* The wildcard has a place of its own, and its setter replaces what was there.
KeyValueImpl ==
    LET keys == <<Ds("DSAKeyValue"), Ds("RSAKeyValue"), Ds11("ECKeyValue")>>
        all == Append(keys, Unknown)
    IN  [Children(all) EXCEPT !.takes = keys, !.wild = OtherThan("ds")]

DEREncodedKeyValueImpl == Attributes(Simple, {"Id"})

TransformImpl ==
    Attributes([Wildcard(Collections(<<Ds("XPath")>>), OtherThan("ds")) EXCEPT !.bag = TRUE],
               {"Algorithm"})

TransformsImpl == Collections(<<Ds("Transform")>>)

\* Mutant: Type is not written.
RetrievalMethodMute ==
    [Attributes(Children(<<Ds("Transforms")>>), {"URI", "Type"}) EXCEPT !.attrsWritten = {"URI"}]

RetrievalMethodImpl == Attributes(Children(<<Ds("Transforms")>>), {"URI", "Type"})

X509IssuerSerialImpl == Children(Each(<<"X509IssuerName", "X509SerialNumber">>, Ds))

X509DigestImpl == Attributes(Simple, {"Algorithm"})

\* The copy asks in another order than processChildElement().
X509DataImpl ==
    LET ofDs == Each(<<"X509IssuerSerial", "X509SKI", "X509SubjectName", "X509Certificate",
                       "X509CRL">>, Ds)
        of11 == Each(<<"X509Digest", "OCSPResponse">>, Ds11)
        copied == Each(<<"X509Certificate", "X509CRL", "X509SubjectName", "X509IssuerSerial",
                         "X509SKI">>, Ds) \o of11
    IN  Wildcard([Collections(ofDs \o of11) EXCEPT !.copied = copied, !.bag = TRUE],
                 OtherThan("ds"))

\* Pairs of an S-expression and of the extension that may follow it.
SPKIDataImpl ==
    [Plain EXCEPT !.pairs = TRUE, !.takes = <<Ds("SPKISexp")>>, !.wild = OtherThan("ds")]

PGPDataImpl == Wildcard(Children(Each(<<"PGPKeyID", "PGPKeyPacket">>, Ds)), OtherThan("ds"))

KeyInfoReferenceImpl == Attributes(Plain, {"Id", "URI"})

\* Mutant: the copy goes member by member, not in the order of the children.
KeyInfoUnordered ==
    Attributes(Wildcard(Collections(<<Ds("X509Data"), Ds("KeyName"), Ds("KeyValue"),
                   Ds11("DEREncodedKeyValue"), Ds("RetrievalMethod"), Ds("MgmtData"),
                   Ds("SPKIData"), Ds("PGPData"), Ds11("KeyInfoReference")>>), OtherThan("ds")),
               {"Id"})

KeyInfoImpl ==
    Attributes([Wildcard(Collections(<<Ds("X509Data"), Ds("KeyName"), Ds("KeyValue"),
                   Ds11("DEREncodedKeyValue"), Ds("RetrievalMethod"), Ds("MgmtData"),
                   Ds("SPKIData"), Ds("PGPData"), Ds11("KeyInfoReference")>>), OtherThan("ds"))
                EXCEPT !.bag = TRUE], {"Id"})

\* The classes made by DECL_XMLOBJECTIMPL_SIMPLE.
KeyInfoSimple ==
    {Ds(n) : n \in {"KeyName", "MgmtData", "Modulus", "Exponent", "Seed", "PgenCounter", "P", "Q",
                    "G", "Y", "J", "XPath", "X509IssuerName", "X509SerialNumber", "X509SKI",
                    "X509SubjectName", "X509Certificate", "X509CRL", "SPKISexp", "PGPKeyID",
                    "PGPKeyPacket"}}
    \cup {Ds11(n) : n \in {"OCSPResponse", "PublicKey"}}

KeyInfoComplex ==
    {Ds(n) : n \in {"KeyInfo", "KeyValue", "DSAKeyValue", "RSAKeyValue", "Transform",
                    "Transforms", "RetrievalMethod", "X509IssuerSerial", "X509Data", "SPKIData",
                    "PGPData"}}
    \cup {Ds11(n) : n \in {"DEREncodedKeyValue", "ECKeyValue", "KeyInfoReference", "NamedCurve",
                           "X509Digest"}}

\* The class behind the builder of a name.
KeyInfoClass(q) ==
    IF q \in KeyInfoSimple THEN Simple
    ELSE CASE q = Ds("KeyInfo") -> KeyInfoImpl
           [] q = Ds("KeyValue") -> KeyValueImpl
           [] q = Ds("DSAKeyValue") -> DSAKeyValueImpl
           [] q = Ds("RSAKeyValue") -> RSAKeyValueImpl
           [] q = Ds("Transform") -> TransformImpl
           [] q = Ds("Transforms") -> TransformsImpl
           [] q = Ds("RetrievalMethod") -> RetrievalMethodImpl
           [] q = Ds("X509IssuerSerial") -> X509IssuerSerialImpl
           [] q = Ds("X509Data") -> X509DataImpl
           [] q = Ds("SPKIData") -> SPKIDataImpl
           [] q = Ds("PGPData") -> PGPDataImpl
           [] q = Ds11("DEREncodedKeyValue") -> DEREncodedKeyValueImpl
           [] q = Ds11("ECKeyValue") -> ECKeyValueImpl
           [] q = Ds11("KeyInfoReference") -> KeyInfoReferenceImpl
           [] q = Ds11("NamedCurve") -> NamedCurveImpl
           [] q = Ds11("X509Digest") -> X509DigestImpl

\* registerKeyInfoClasses(): every class, by the name of its element.
KeyInfoRegistered == KeyInfoSimple \cup KeyInfoComplex
=============================================================================
