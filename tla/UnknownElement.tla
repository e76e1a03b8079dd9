--------------------------- MODULE UnknownElement ---------------------------
(***************************************************************************)
(* impl/UnknownElement.cpp: an element without a builder of its own, kept  *)
(* as the DOM it was read from or, once that is released, as the XML that  *)
(* m_xml holds.  A document is the caller's, or was made by the parser     *)
(* pool, or has been released.  Where in its document an element hangs is  *)
(* left out.                                                               *)
(***************************************************************************)
CONSTANTS Element,   \* UnknownElementImpl objects
          Document,  \* DOM documents
          Nil      \* neither a document nor content

\* Of every object: its fields, Nil where there is nothing in them.
UnknownObjects == [dom : Document \cup {Nil}, m_document : Document \cup {Nil},
                   m_xml : Element \cup {Nil}, content : Element]

ASSUME NilAssumption == Nil \notin Element \cup Document \cup UnknownObjects

VARIABLES unknown,  \* the objects, Nil where there is none
          document  \* "none", "caller", "owned" by an object, or "released"

unknownVars == <<unknown, document>>

Objects == {u \in Element : unknown[u] # Nil}

\* The builder's object, and what the element it stands for says.
New(content) == [dom |-> Nil, m_document |-> Nil, m_xml |-> Nil, content |-> content]

Put(u, o) == unknown' = [unknown EXCEPT ![u] = o]

\* Text of the element that the object has as its DOM.
serialize(o) == IF o.dom # Nil THEN o.content ELSE Nil

\* What the documents become when an object with another m_document is bound to d.
Rebound(o, d, docs) ==
    IF o.m_document \in {Nil, d} THEN docs ELSE [docs EXCEPT ![o.m_document] = "released"]
-----------------------------------------------------------------------------
UnknownInit ==
    /\ unknown = [u \in Element |-> Nil]
    /\ document \in [Document -> {"none", "caller"}]

\* unmarshall() of an element in a document of the caller, which may hand it over.
unmarshall(u, d, bind) ==
    /\ unknown[u] = Nil /\ document[d] = "caller"
    /\ \A v \in Objects : unknown[v].dom # d
    /\ Put(u, [New(u) EXCEPT !.dom = d, !.m_document = IF bind THEN d ELSE Nil])
    /\ document' = [document EXCEPT ![d] = IF bind THEN "owned" ELSE "caller"]

\* releaseDOM() keeps the content, and the document it came in.
releaseDOM(u) ==
    /\ unknown[u].dom # Nil
    /\ Put(u, [unknown[u] EXCEPT !.m_xml = serialize(unknown[u]), !.dom = Nil])
    /\ UNCHANGED document

CloneXml(o) == IF o.m_xml = Nil THEN serialize(o) ELSE o.m_xml

clone(u, v) ==
    /\ unknown[v] = Nil
    /\ Put(v, [New(unknown[u].content) EXCEPT !.m_xml = CloneXml(unknown[u])])
    /\ UNCHANGED document

\* Either marshall() with a DOM: as it is, or imported into the document asked for.
MarshallAsItIs(u, d) ==
    /\ unknown[u].dom # Nil
    /\ IF d \in {Nil, unknown[u].dom} THEN UNCHANGED unknown
       ELSE Put(u, [unknown[u] EXCEPT !.dom = d])
    /\ UNCHANGED document

ParsedAsideLeft(d, made) == [document EXCEPT ![made] = "owned"]

\* The document that the parser made, when its element is imported into d.
ParsedAside(d, made) == [document EXCEPT ![made] = "released"]

\* Either marshall() without one, that parses m_xml into a new document.
MarshallParsed(u, d, made) ==
    LET o == unknown[u]
        read == [o EXCEPT !.m_xml = Nil, !.content = o.m_xml]
    IN  /\ o.dom = Nil /\ o.m_xml # Nil /\ document[made] = "none"
        /\ IF d = Nil
           THEN /\ Put(u, [read EXCEPT !.dom = made, !.m_document = made])
                /\ document' = Rebound(o, made, [document EXCEPT ![made] = "owned"])
           ELSE /\ Put(u, [read EXCEPT !.dom = d])
                /\ document' = ParsedAside(d, made)

\* Where a caller may have an element put: its own documents, and the object's.
Targets(u) == {d \in Document : document[d] = "caller" \/ d = unknown[u].m_document}

marshall(u, d) == MarshallAsItIs(u, d) \/ \E made \in Document : MarshallParsed(u, d, made)

\* ~AbstractDOMCachingXMLObject().
Destructor(u) ==
    /\ Put(u, Nil)
    /\ document' = Rebound(unknown[u], Nil, document)

\* A caller releases a document that no object has its DOM in.
CallerReleases(d) ==
    /\ document[d] = "caller" /\ \A u \in Objects : unknown[u].dom # d
    /\ document' = [document EXCEPT ![d] = "released"] /\ UNCHANGED unknown

UnknownNext ==
    \/ \E u \in Element, d \in Document, bind \in BOOLEAN : unmarshall(u, d, bind)
    \/ \E u \in Objects :
         \/ releaseDOM(u)
         \/ \E v \in Element : clone(u, v)
         \/ marshall(u, Nil)                         \* a document of its own
         \/ \E d \in Targets(u) : marshall(u, d)       \* a document, or an element of one
         \/ Destructor(u)
    \/ \E d \in Document : CallerReleases(d)

UnknownSpec == UnknownInit /\ [][UnknownNext]_unknownVars
-----------------------------------------------------------------------------
(***************************************************************************)
(* Whatever is released, cloned, marshalled and destroyed, in whatever     *)
(* order, an object has its content in one form and no other: as XML, or   *)
(* as the DOM of a document that still exists.  Each document that was     *)
(* parsed or handed over belongs to one object, which will release it.     *)
(***************************************************************************)
UnknownKept ==
    /\ \A u \in Objects :
         LET o == unknown[u]
         IN  IF o.dom = Nil THEN o.m_xml = o.content /\ o.content # Nil
             ELSE o.m_xml = Nil /\ document[o.dom] \in {"caller", "owned"}
    /\ \A d \in Document :
         document[d] = "owned" <=> \E u \in Objects : unknown[u].m_document = d
    /\ \A u, v \in Objects : u # v /\ unknown[u].m_document # Nil
                               => unknown[u].m_document # unknown[v].m_document
=============================================================================
