---------------------------- MODULE SOAPElements ---------------------------
(***************************************************************************)
(* The classes of SOAP 1.1 (SOAPImpl.cpp) and their registration           *)
(* (SOAPSchemaValidators.cpp).  The children of Fault have no namespace.   *)
(***************************************************************************)
EXTENDS ElementMacros

\* The text is a qualified name, also kept in m_qname; the copy constructor
\* copies the text with AbstractSimpleElement and then calls setCode().
FaultcodeImpl == [Simple EXCEPT !.qname = TRUE]

DetailImpl == Extensible(Wildcard(Plain, Namespaces))

\* Mutant: two places are initialised in the wrong order.
FaultSwapped ==
    LET parts == Each(<<"faultcode", "faultstring", "faultactor", "detail">>, Bare)
    IN  [Children(parts) EXCEPT !.slots = <<parts[2], parts[1], parts[3], parts[4]>>]

FaultImpl == Children(Each(<<"faultcode", "faultstring", "faultactor", "detail">>, Bare))

BodyImpl == Extensible(Wildcard(Plain, Namespaces))

HeaderImpl == Extensible(Wildcard(Plain, Namespaces))

EnvelopeImpl == Extensible(Children(Each(<<"Header", "Body">>, Soap)))

SOAPSimple == {Bare("faultstring"), Bare("faultactor")}

SOAPComplex == {Bare("faultcode"), Bare("detail")}
                 \cup {Soap(n) : n \in {"Fault", "Body", "Header", "Envelope"}}

SOAPClass(q) ==
    IF q \in SOAPSimple THEN Simple
    ELSE CASE q = Bare("faultcode") -> FaultcodeImpl
           [] q = Bare("detail") -> DetailImpl
           [] q = Soap("Fault") -> FaultImpl
           [] q = Soap("Body") -> BodyImpl
           [] q = Soap("Header") -> HeaderImpl
           [] q = Soap("Envelope") -> EnvelopeImpl

\* registerSOAPClasses()
SOAPRegistered == SOAPSimple \cup SOAPComplex
=============================================================================
