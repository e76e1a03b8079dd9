-------------------------- MODULE SchemaValidators --------------------------
(***************************************************************************)
(* What the schema validators of the element classes accept (the           *)
(* XMLOBJECTVALIDATOR macros of base.h).  Has is the set of the members    *)
(* and attributes the object has, Text whether it has text, and Wild the   *)
(* names of its wildcard children.  xsi:nil is left out.                   *)
(***************************************************************************)
EXTENDS ElementMacros

Attribute(a) == <<"@", a>>
Child == <<"", "child">>      \* the object has some child
Code == <<"", "Code">>        \* Faultcode::getCode()

NoneOrBoth(a, b) == a <=> b
OnlyOneOf(members, Has) == Cardinality(members \cap Has) = 1
CheckWildcardNS(Wild, ns) == \A n \in Wild : n[1] \in OtherThan(ns)

\* Mutant: the two are required.
DSAKeyValueStrict(Has) == {Ds("Y"), Ds("P"), Ds("Q")} \subseteq Has

DSAKeyValueValid(Has) ==
    /\ Ds("Y") \in Has
    /\ NoneOrBoth(Ds("P") \in Has, Ds("Q") \in Has)
    /\ NoneOrBoth(Ds("Seed") \in Has, Ds("PgenCounter") \in Has)

KeyInfoValid(q, Has, Text, Wild) ==
    CASE q = Ds("RSAKeyValue") -> {Ds("Modulus"), Ds("Exponent")} \subseteq Has
      [] q = Ds("DSAKeyValue") -> DSAKeyValueValid(Has)
      [] q = Ds("KeyValue") -> OnlyOneOf({Ds("DSAKeyValue"), Ds("RSAKeyValue"),
                                          Ds11("ECKeyValue"), Unknown}, Has)
      [] q \in {Ds("Transform"), Ds11("X509Digest")} -> Attribute("Algorithm") \in Has
      [] q = Ds("Transforms") -> Ds("Transform") \in Has
      [] q \in {Ds("RetrievalMethod"), Ds11("KeyInfoReference"), Ds11("NamedCurve")} ->
            Attribute("URI") \in Has
      [] q = Ds("X509IssuerSerial") ->
            {Ds("X509IssuerName"), Ds("X509SerialNumber")} \subseteq Has
      [] q \in {Ds("X509Data"), Ds("KeyInfo")} -> Child \in Has /\ CheckWildcardNS(Wild, "ds")
      [] q = Ds("SPKIData") -> Ds("SPKISexp") \in Has
      [] q = Ds("PGPData") -> {Ds("PGPKeyID"), Ds("PGPKeyPacket")} \cap Has # {}
      [] q = Ds11("ECKeyValue") -> /\ {Ds11("ECParameters"), Ds11("NamedCurve")} \cap Has # {}
                                   /\ Ds11("PublicKey") \in Has
      [] OTHER -> Text

EncryptionValid(q, Has, Text, Wild) ==
    CASE q \in {Enc("EncryptionMethod"), Enc11("MGF")} -> Attribute("Algorithm") \in Has
      [] q = Enc("Transforms") -> Ds("Transform") \in Has
      [] q = Enc("CipherReference") -> Attribute("URI") \in Has
      [] q = Enc("CipherData") -> OnlyOneOf({Enc("CipherValue"), Enc("CipherReference")}, Has)
      [] q = Enc("EncryptionProperty") -> Child \in Has /\ CheckWildcardNS(Wild, "enc")
      [] q = Enc("EncryptionProperties") -> Enc("EncryptionProperty") \in Has
      [] q \in {Enc("DataReference"), Enc("KeyReference")} ->
            Attribute("URI") \in Has /\ CheckWildcardNS(Wild, "enc")
      [] q = Enc("ReferenceList") -> Child \in Has
      [] q \in {Enc("EncryptedData"), Enc("EncryptedKey")} -> Enc("CipherData") \in Has
      [] OTHER -> Text

\* Body, Header and detail have no validator.
SOAPValid(q, Has, Text) ==
    CASE q = Bare("faultcode") -> Code \in Has
      [] q = Soap("Fault") -> {Bare("faultcode"), Bare("faultstring")} \subseteq Has
      [] q = Soap("Envelope") -> Soap("Body") \in Has
      [] q \in {Soap("Body"), Soap("Header"), Bare("detail")} -> TRUE
      [] OTHER -> Text
=============================================================================
