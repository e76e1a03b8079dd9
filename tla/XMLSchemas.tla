----------------------------- MODULE XMLSchemas -----------------------------
(***************************************************************************)
(* The content models of the schemas in src/schemas, as sets of sequences  *)
(* of element names.  What may repeat repeats up to Repeat times, and      *)
(* Strangers stands for the elements of other namespaces.  The schemas are *)
(* what the element classes are compared with; they do not use them.       *)
(***************************************************************************)
EXTENDS ElementMacros

CONSTANTS Repeat, Strangers

ASSUME SchemasAssumption == Repeat \in Nat \ {0}

Then(A, B) == {a \o b : a \in A, b \in B}
Optional(A) == {<<>>} \cup A
OneOf(names) == {<<n>> : n \in names}
OneOrMore(names) == UNION {[1..k -> names] : k \in 1..Repeat}
ZeroOrMore(names) == Optional(OneOrMore(names))
Other(ns) == {n \in Strangers : n[1] \in OtherThan(ns)}
AnyName == Strangers

DSAKeyValueType ==
    LET Part(n) == {<<Ds(n)>>}
    IN  Then(Optional(Then(Part("P"), Part("Q"))),
         Then(Optional(Part("G")),
          Then(Part("Y"),
           Then(Optional(Part("J")), Optional(Then(Part("Seed"), Part("PgenCounter")))))))

RSAKeyValueType == {<<Ds("Modulus"), Ds("Exponent")>>}

ECKeyValueType ==
    Then(OneOf({Ds11("ECParameters"), Ds11("NamedCurve")}), {<<Ds11("PublicKey")>>})

KeyValueType == OneOf({Ds("DSAKeyValue"), Ds("RSAKeyValue")} \cup Other("ds"))

TransformType == ZeroOrMore({Ds("XPath")} \cup Other("ds"))

TransformsType == OneOrMore({Ds("Transform")})

RetrievalMethodType == Optional({<<Ds("Transforms")>>})

X509IssuerSerialType == {<<Ds("X509IssuerName"), Ds("X509SerialNumber")>>}

X509DataType == OneOrMore({Ds("X509IssuerSerial"), Ds("X509SKI"), Ds("X509SubjectName"),
                      Ds("X509Certificate"), Ds("X509CRL")} \cup Other("ds"))

SPKIDataType ==
    LET pair == Then({<<Ds("SPKISexp")>>}, Optional(OneOf(Other("ds"))))
    IN  pair \cup Then(pair, pair)

PGPDataType ==
    Then({<<Ds("PGPKeyID")>>, <<Ds("PGPKeyID"), Ds("PGPKeyPacket")>>, <<Ds("PGPKeyPacket")>>},
         ZeroOrMore(Other("ds")))

KeyInfoType ==
    OneOrMore({Ds(n) : n \in {"KeyName", "KeyValue", "RetrievalMethod", "X509Data", "PGPData",
                         "SPKIData", "MgmtData"}} \cup Other("ds"))

EncryptionMethodType ==
    Then(Optional({<<Enc("KeySize")>>}),
         Then(Optional({<<Enc("OAEPparams")>>}), ZeroOrMore(Other("enc"))))

CipherDataType == OneOf({Enc("CipherValue"), Enc("CipherReference")})

CipherReferenceType == Optional({<<Enc("Transforms")>>})

ReferenceType == ZeroOrMore(Other("enc"))

ReferenceListType == OneOrMore({Enc("DataReference"), Enc("KeyReference")})

EncryptionPropertiesType == OneOrMore({Enc("EncryptionProperty")})

EncryptionPropertyType == OneOrMore(Other("enc"))

EncryptedType ==
    Then(Optional({<<Enc("EncryptionMethod")>>}),
         Then(Optional({<<Ds("KeyInfo")>>}),
              Then({<<Enc("CipherData")>>}, Optional({<<Enc("EncryptionProperties")>>}))))

EncryptedKeyType ==
    Then(EncryptedType,
         Then(Optional({<<Enc("ReferenceList")>>}), Optional({<<Enc("CarriedKeyName")>>})))

EnvelopeType ==
    Then(Optional({<<Soap("Header")>>}), Then({<<Soap("Body")>>}, ZeroOrMore(Other("soap"))))

HeaderType == ZeroOrMore(Other("soap"))

BodyType == ZeroOrMore(AnyName)

FaultType ==
    Then({<<Bare("faultcode"), Bare("faultstring")>>},
         Then(Optional({<<Bare("faultactor")>>}), Optional({<<Bare("detail")>>})))

detail == ZeroOrMore(AnyName)

ContentModel(q) ==
    CASE q = Ds("DSAKeyValue") -> DSAKeyValueType
      [] q = Ds("RSAKeyValue") -> RSAKeyValueType
      [] q = Ds11("ECKeyValue") -> ECKeyValueType
      [] q = Ds("KeyValue") -> KeyValueType
      [] q = Ds("Transform") -> TransformType
      [] q \in {Ds("Transforms"), Enc("Transforms")} -> TransformsType
      [] q = Ds("RetrievalMethod") -> RetrievalMethodType
      [] q = Ds("X509IssuerSerial") -> X509IssuerSerialType
      [] q = Ds("X509Data") -> X509DataType
      [] q = Ds("SPKIData") -> SPKIDataType
      [] q = Ds("PGPData") -> PGPDataType
      [] q = Ds("KeyInfo") -> KeyInfoType
      [] q = Enc("EncryptionMethod") -> EncryptionMethodType
      [] q = Enc("CipherData") -> CipherDataType
      [] q = Enc("CipherReference") -> CipherReferenceType
      [] q \in {Enc("DataReference"), Enc("KeyReference")} -> ReferenceType
      [] q = Enc("ReferenceList") -> ReferenceListType
      [] q = Enc("EncryptionProperties") -> EncryptionPropertiesType
      [] q = Enc("EncryptionProperty") -> EncryptionPropertyType
      [] q = Enc("EncryptedData") -> EncryptedType
      [] q = Enc("EncryptedKey") -> EncryptedKeyType
      [] q = Soap("Envelope") -> EnvelopeType
      [] q = Soap("Header") -> HeaderType
      [] q = Soap("Body") -> BodyType
      [] q = Soap("Fault") -> FaultType
      [] q = Bare("detail") -> detail
      [] OTHER -> {<<>>}

\* The attributes with use="required".
Required(q) ==
    CASE q \in {Ds("Transform"), Ds11("X509Digest"), Enc("EncryptionMethod"), Enc11("MGF")}
                -> {"Algorithm"}
      [] q \in {Ds("RetrievalMethod"), Ds11("NamedCurve"), Ds11("KeyInfoReference"),
                Enc("CipherReference"), Enc("DataReference"), Enc("KeyReference")} -> {"URI"}
      [] OTHER -> {}
=============================================================================
