----------------------------- MODULE MCElements -----------------------------
(***************************************************************************)
(* What becomes XML or HTML, or comes in as XML, for TLC: a behaviour is   *)
(* one of XMLElements, of UnknownElement, of TemplateEngine, of            *)
(* MarshalledNamespaces or of CurlURLInputStream, which share no state;    *)
(* the others stay in one of their initial states.  XMLElements has every  *)
(* class with children or attributes, and three of those made by           *)
(* DECL_XMLOBJECTIMPL_SIMPLE.                                              *)
(***************************************************************************)
EXTENDS XMLElements, UnknownElement, TemplateEngine, MarshalledNamespaces, CurlURLInputStream

VARIABLE running

mcVars == <<elementsVars, unknownVars, templateVars, namespaceVars, streamVars, running>>

MCClasses == KeyInfoComplex \cup EncryptionComplex \cup SOAPComplex
                \cup {Ds("KeyName"), Enc("KeySize"), Bare("faultstring")}

\* One element of each of the other namespaces, and one of the class's own
\* namespace that its content model does not have.
MCStrangers == {Extension, Ds("MgmtData"), Ds11("KeyInfoReference"), Enc("EncryptedKey"),
                Enc11("MGF"), Soap("Fault")}
-----------------------------------------------------------------------------
\* Two names, and the two that stand for the entry of a loop.
MCNames == {"k", "n", "$name", "$value"}
Nothing(x) == [name \in MCNames |-> x]

Parameters(map, request, thrown, loops) ==
    [map |-> map, request |-> request, thrown |-> thrown, loops |-> loops]

MCGiven ==
    {Parameters([Nothing(Absent) EXCEPT !["k"] = "v"], Nothing(Absent), Nothing(Absent),
                [Nothing(<<>>) EXCEPT !["k"] = <<<<"x", "y">>, <<"x", "">>>>]),
     Parameters(Nothing(Absent), [Nothing(Absent) EXCEPT !["k"] = "v"],
                [Nothing(Absent) EXCEPT !["k"] = "e", !["n"] = ""],
                [Nothing(<<>>) EXCEPT !["n"] = <<<<"x", "y">>>>])}
-----------------------------------------------------------------------------
\* A prefix and the empty one, each with two namespaces.
Q(prefix, uri) == [prefix |-> prefix, uri |-> uri]

MCElementNames == {Q("p", "u"), Q("", "u"), Q("", "")}
MCAttributeNames == {Q("", ""), Q("p", "v")}
MCValueNames == {Q("p", "v")}
MCXsi == Q("xsi", "XSI")

MCSymmetry == Permutations(XMLObject)
-----------------------------------------------------------------------------
AnyOf(S) == CHOOSE x \in S : TRUE

MCInit ==
    /\ running \in {"element", "unknown", "template", "namespaces", "stream"}
    /\ ElementsInit /\ UnknownInit /\ TemplateInit /\ NamespacesInit /\ StreamInit
    /\ running # "element" => read.class = Class(Ds("KeyName")) /\ read.attrs = {}
    /\ running # "unknown" => document = [d \in Document |-> "none"]
    /\ running # "template" => given = AnyOf(Given)
    /\ running # "stream" => answer = AnyOf(Answers)

Running(mode) == running = mode /\ running' = mode

ElementStep ==
    Running("element") /\ ElementsNext
    /\ UNCHANGED <<unknownVars, templateVars, namespaceVars, streamVars>>
UnknownStep ==
    Running("unknown") /\ UnknownNext
    /\ UNCHANGED <<elementsVars, templateVars, namespaceVars, streamVars>>
TemplateStep ==
    Running("template") /\ TemplateNext
    /\ UNCHANGED <<elementsVars, unknownVars, namespaceVars, streamVars>>
NamespacesStep ==
    Running("namespaces") /\ NamespacesNext
    /\ UNCHANGED <<elementsVars, unknownVars, templateVars, streamVars>>
StreamStep ==
    Running("stream") /\ StreamNext
    /\ UNCHANGED <<elementsVars, unknownVars, templateVars, namespaceVars>>

MCNext == ElementStep \/ UnknownStep \/ TemplateStep \/ NamespacesStep \/ StreamStep

MCSpec == MCInit /\ [][MCNext]_mcVars
=============================================================================
