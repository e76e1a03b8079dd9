------------------------ MODULE MarshalledNamespaces ------------------------
(***************************************************************************)
(* The namespace declarations of the marshalled form                       *)
(* (AbstractXMLObject.cpp, AbstractAttributeExtensibleXMLObject.cpp, the   *)
(* marshaller and the unmarshaller): objects collect the namespaces they   *)
(* use, marshall() declares those that are not declared above, and keeps   *)
(* the DOM of children that have one in the same document as it is.        *)
(*                                                                         *)
(* A qualified name is its prefix and its namespace; local names, and      *)
(* texts that are no names, are left out.  There is one document that the  *)
(* caller marshalls into again and again, and new ones of the library.     *)
(***************************************************************************)
EXTENDS Integers, Sequences, SequencesExt, FiniteSetsExt

CONSTANTS XMLObject,
          Prefix, URI,
          NoPrefix, NoURI,   \* members of these: the empty ones
          Nowhere,
          Xsi,               \* the name of xsi:type
          ElementNames, AttributeNames, ValueNames,
          MaxNames,          \* bound: the objects that are made, and the attributes and types set
          NameCalls          \* the hazardous calls a client makes, of HazardousNaming

\* Using a prefix for two namespaces, in one object or above what keeps its
\* declarations; an attribute without a namespace where no element has taken the
\* empty prefix; clearing an attribute whose prefix only values use then; marshalling a part
\* of a tree, or growing a tree, of which parts stay in the caller's document.
HazardousNaming == {"rebind", "plain", "clear", "alone", "grow"}

QNames == [prefix : Prefix, uri : URI]

ASSUME NamesAssumption ==
    /\ NoPrefix \in Prefix /\ NoURI \in URI
    /\ Nowhere \notin URI /\ Nowhere \notin QNames
    /\ ElementNames \cup AttributeNames \cup ValueNames \cup {Xsi} \subseteq QNames
    /\ NameCalls \subseteq HazardousNaming /\ MaxNames \in Nat

VARIABLES built,   \* the objects: [name, type, attribute, namespaces], or Nowhere
          kids,    \* m_children
          element, \* m_dom: [document, declared, scope], or Nowhere
          named    \* how many objects have been made, and attributes and types set

namespaceVars == <<built, kids, element, named>>

NamespacesInit ==
    /\ built = [o \in XMLObject |-> Nowhere]
    /\ kids = [o \in XMLObject |-> <<>>]
    /\ element = [o \in XMLObject |-> Nowhere]
    /\ named = 0
-----------------------------------------------------------------------------
Made == {o \in XMLObject : built[o] # Nowhere}
ParentsOf(o) == {p \in XMLObject : o \in ToSet(kids[p])}
IsTop(o) == ParentsOf(o) = {}

\* o and the objects above it, and o and those below it.
Above(o) == LET up[x \in XMLObject] == {x} \cup UNION {up[p] : p \in ParentsOf(x)} IN up[o]
Below(o) == {x \in Made : o \in Above(x)}

Released(S) == [o \in XMLObject |-> IF o \in S THEN Nowhere ELSE element[o]]
InCallers(o) == element[o] # Nowhere /\ element[o].document = "caller"
-----------------------------------------------------------------------------
Namespace(name, pinned, usage) == [name |-> name, pinned |-> pinned, usage |-> usage]
Visible(name) == Namespace(name, FALSE, "VisiblyUsed")
NonVisible(name) == Namespace(name, FALSE, "NonVisiblyUsed")

\* Mutant: the usage a namespace was first added with stays.
WeakestFirst(old, new) == old

Stronger(old, new) ==
    IF new = "Indeterminate" \/ (new = "NonVisiblyUsed" /\ old = "VisiblyUsed") THEN old ELSE new

\* The first namespace of a prefix stays.
addNamespace(namespaces, ns) ==
    IF \A n \in namespaces : n.name.prefix # ns.name.prefix THEN namespaces \cup {ns}
    ELSE {IF n.name = ns.name
          THEN Namespace(n.name, n.pinned \/ ns.pinned, Stronger(n.usage, ns.usage))
          ELSE n : n \in namespaces}

Added(namespaces, list) == FoldLeft(addNamespace, namespaces, list)

Optionally(x) == IF x = Nowhere THEN {} ELSE {x}

\* The constructor.
Constructed(name, type) ==
    Added({}, <<Visible(name)>> \o (IF type = Nowhere THEN <<>> ELSE <<NonVisible(type)>>))

\* An attribute has the name it was first set under, and a value: a name set as such,
\* a name that was read as text, or a text that is none.
Unqualified == [prefix |-> NoPrefix, uri |-> NoURI]
ExtensionAttribute(key, form, value) == [key |-> key, form |-> form, value |-> value]

AttributesOf(x) == {x.attribute[u] : u \in URI} \ {Nowhere}
ValuesOf(x, forms) == {a.value : a \in {b \in AttributesOf(x) : b.form \in forms}}

\* The names in an element of which the prefix counts.  An attribute without a
\* prefix has no namespace, whatever the default.
VisiblyUsed(x) ==
    {x.name} \cup ({a.key : a \in AttributesOf(x)} \ {Unqualified})
             \cup (IF x.type = Nowhere THEN {} ELSE {Xsi})
Meant(x) == VisiblyUsed(x) \cup Optionally(x.type) \cup ValuesOf(x, {"name", "text"})

Bound(x) == Meant(x) \cup {n.name : n \in x.namespaces}
Agree(A, B) == \A a \in A, b \in B : a.prefix = b.prefix => a.uri = b.uri

\* What a careful client may have o say: nothing of another meaning in o, and in what
\* below it keeps its declarations or its text.
Careful(o, S) ==
    \/ "rebind" \in NameCalls
    \/ /\ Agree(S, S)
       /\ \A x \in Below(o) : x = o \/ InCallers(x) \/ ValuesOf(built[x], {"text"}) # {}
                              => Agree(S, Bound(built[x]))
-----------------------------------------------------------------------------
(***************************************************************************)
(* What a client does.                                                     *)
(***************************************************************************)
Make(o, name, type) ==
    /\ built[o] = Nowhere
    /\ Agree({name}, Optionally(type))
    /\ named' = named + 1 + Cardinality(Optionally(type)) /\ named' <= MaxNames
    /\ built' = [built EXCEPT ![o] =
                   [name |-> name, type |-> type, attribute |-> [u \in URI |-> Nowhere],
                    namespaces |-> Constructed(name, type)]]
    /\ UNCHANGED <<kids, element>>

\* setAttribute(), of a text or of a qualified name.
Assigned(x, key, form, value) ==
    LET set == x.attribute[key.uri] # Nowhere
        list == (IF set THEN <<>> ELSE <<Visible(key)>>)
                  \o (IF form = "name" THEN <<NonVisible(value)>> ELSE <<>>)
    IN  [x EXCEPT !.attribute[key.uri] = ExtensionAttribute(IF set THEN @.key ELSE key, form, value),
                  !.namespaces = Added(@, list)]

SetExtensionAttribute(o, key, form, value) ==
    /\ built[o] # Nowhere /\ named < MaxNames
    /\ key # Unqualified \/ built[o].name.prefix = NoPrefix \/ "plain" \in NameCalls
    /\ Careful(o, ({key} \ {Unqualified}) \cup (IF form = "name" THEN {value} ELSE {}))
    /\ built' = [built EXCEPT ![o] = Assigned(@, key, form, value)]
    /\ element' = Released(Above(o))
    /\ named' = named + 1
    /\ UNCHANGED kids

\* The namespaces of what is cleared stay.
ClearAttribute(o, key) ==
    /\ built[o] # Nowhere /\ built[o].attribute[key.uri] # Nowhere
    /\ key = Unqualified \/ key = built[o].name \/ "clear" \in NameCalls
    /\ built' = [built EXCEPT ![o].attribute[key.uri] = Nowhere]
    /\ element' = Released(Above(o))
    /\ UNCHANGED <<kids, named>>

\* What is read as a text brings no namespace for the names in it.
ReadAsText(o) == \E x \in Below(o) : ValuesOf(built[x], {"text"}) # {}

\* Elements in no namespace declare that only where there is a default.
NeedsNoDefault(o) == \E x \in Below(o) : InCallers(x) /\ built[x].name = Unqualified

Grow(p, o) ==
    /\ built[p] # Nowhere /\ built[o] # Nowhere /\ IsTop(o) /\ o \notin Above(p)
    /\ NeedsNoDefault(o) => "grow" \in NameCalls
    /\ kids' = [kids EXCEPT ![p] = Append(@, o)]
    /\ element' = Released(Above(p))
    /\ UNCHANGED <<built, named>>

\* detach() destroys the parent, and the siblings with it.
Detach(o) ==
    \E p \in ParentsOf(o) :
      LET lost == Below(p) \ Below(o)
      IN  /\ IsTop(p)
          /\ (ReadAsText(o) \/ \E x \in Below(o) : element[x] # Nowhere) => "alone" \in NameCalls
          /\ built' = [x \in XMLObject |-> IF x \in lost THEN Nowhere ELSE built[x]]
          /\ kids' = [x \in XMLObject |-> IF x \in lost THEN <<>> ELSE kids[x]]
          /\ element' = Released(lost)
          /\ UNCHANGED named
-----------------------------------------------------------------------------
(***************************************************************************)
(* Marshalling.  declared is what an element declares, scope what it sees. *)
(***************************************************************************)
RootScope == [p \in Prefix |-> IF p = NoPrefix THEN NoURI ELSE Nowhere]

\* Mutant: a prefix is declared only where none is.
DeclaredOnce(namespaces, scope) ==
    [p \in Prefix |-> IF \E n \in namespaces : n.name.prefix = p /\ (n.pinned \/ scope[p] = Nowhere)
                      THEN (CHOOSE n \in namespaces : n.name.prefix = p).name.uri
                      ELSE Nowhere]

Declared(namespaces, scope) ==
    [p \in Prefix |-> IF \E n \in namespaces : n.name.prefix = p
                                                 /\ (n.pinned \/ scope[p] # n.name.uri)
                      THEN (CHOOSE n \in namespaces : n.name.prefix = p).name.uri
                      ELSE Nowhere]

Seen(scope, declared) ==
    [p \in Prefix |-> IF declared[p] # Nowhere THEN declared[p] ELSE scope[p]]

\* marshallElementType().
WithXsi(x) ==
    IF x.type = Nowhere THEN x ELSE [x EXCEPT !.namespaces = addNamespace(@, Visible(Xsi))]

\* The elements of the tree below top when top becomes the root of a document, and
\* those of Kept are moved there as they are.
Elements(top, document, Kept) ==
    LET Of[o \in XMLObject] ==
          LET scope == IF o = top THEN RootScope ELSE Of[CHOOSE p \in ParentsOf(o) : TRUE].scope
              declared == IF o \in Kept THEN element[o].declared
                          ELSE Declared(WithXsi(built[o]).namespaces, scope)
          IN  [document |-> document, declared |-> declared, scope |-> Seen(scope, declared)]
    IN  [o \in XMLObject |-> IF o \in Below(top) THEN Of[o]
                             ELSE Released(Above(top))[o]]

\* marshall() of an object without a usable DOM.
MarshallAnew(o, document) ==
    /\ built[o] # Nowhere
    /\ element[o] = Nowhere \/ (document = "caller" /\ ~InCallers(o))
    /\ \/ IsTop(o)
       \/ document = "own" /\ ~ReadAsText(o)
       \/ ~ReadAsText(o) /\ \A x \in Below(o) : ~InCallers(x) /\ built[x].name # Unqualified
       \/ "alone" \in NameCalls
    /\ LET Kept == IF document = "own" THEN {} ELSE {x \in Below(o) : InCallers(x)}
       IN  /\ element' = Elements(o, document, Kept)
           /\ built' = [x \in XMLObject |-> IF x \in Below(o) \ Kept THEN WithXsi(built[x]) ELSE built[x]]
    /\ UNCHANGED <<kids, named>>

\* marshall() of one that has: it is returned where it is, or becomes the root of its
\* document.
MarshallKept(o, document) ==
    /\ built[o] # Nowhere /\ element[o] # Nowhere
    /\ document = "caller" => InCallers(o)
    /\ (document = "caller" /\ ~IsTop(o)) => "alone" \in NameCalls
    /\ element' = IF document = "caller" THEN Elements(o, document, Below(o))
                  ELSE Released(Above(o) \ {o})
    /\ UNCHANGED <<built, kids, named>>
-----------------------------------------------------------------------------
(***************************************************************************)
(* Unmarshalling.  The attributes of an element come in the order of their *)
(* names, which is before "xmlns" or behind it.                            *)
(***************************************************************************)
getNodeValueAsQName(scope, name) == [prefix |-> name.prefix, uri |-> scope[name.prefix]]

unmarshallAttributes(x, e, before) ==
    LET declarations == SetToSeq({Namespace([prefix |-> p, uri |-> e.declared[p]], TRUE, "Indeterminate") :
                                    p \in {q \in Prefix : e.declared[q] # Nowhere}})
        attributes == SetToSeq({Visible(a.key) : a \in AttributesOf(x)})
        type == IF x.type = Nowhere THEN Nowhere ELSE getNodeValueAsQName(e.scope, x.type)
        Text(a) == IF a # Nowhere /\ a.form = "name" THEN [a EXCEPT !.form = "text"] ELSE a
    IN  [name |-> x.name, type |-> type,
         attribute |-> [u \in URI |-> Text(x.attribute[u])],
         namespaces |-> Added(Constructed(x.name, type),
                              IF before THEN attributes \o declarations
                              ELSE declarations \o attributes)]

\* A document that was marshalled is read by somebody.
Unmarshall(top, before) ==
    /\ built[top] # Nowhere /\ IsTop(top) /\ element[top] # Nowhere
    /\ built' = [x \in XMLObject |-> IF x \in Below(top)
                                     THEN unmarshallAttributes(built[x], element[x], before)
                                     ELSE built[x]]
    /\ element' = [x \in XMLObject |-> IF x \in Below(top)
                                       THEN [element[x] EXCEPT !.document = "own"] ELSE element[x]]
    /\ UNCHANGED <<kids, named>>

NamespacesNext ==
    \E o \in XMLObject :
       \/ \E n \in ElementNames, t \in ValueNames \cup {Nowhere} : Make(o, n, t)
       \/ \E key \in AttributeNames :
            \/ SetExtensionAttribute(o, key, "none", Unqualified)
            \/ \E v \in ValueNames : SetExtensionAttribute(o, key, "name", v)
            \/ ClearAttribute(o, key)
       \/ \E p \in XMLObject : Grow(p, o)
       \/ Detach(o)
       \/ \E d \in {"own", "caller"} : MarshallAnew(o, d) \/ MarshallKept(o, d)
       \/ \E before \in BOOLEAN : Unmarshall(o, before)
-----------------------------------------------------------------------------
(***************************************************************************)
(* In whatever order a tree is built, marshalled whole or in part, read    *)
(* and changed, every prefix that an element uses, for itself, for its     *)
(* attributes, or in a value, means in the document what it meant to the   *)
(* client.                                                                 *)
(***************************************************************************)
PrefixesResolve ==
    \A o \in Made : element[o] # Nowhere =>
        \A n \in Meant(built[o]) : element[o].scope[n.prefix] = n.uri

\* XMLHelper::getNonVisiblyUsedPrefixes(): own is what an object adds to the map over
\* what is there, below what is added where there is nothing.
None == [p \in Prefix |-> Nowhere]
Merged(a, b) == [p \in Prefix |-> IF a[p] # Nowhere THEN a[p] ELSE b[p]]

getNonVisiblyUsedPrefixes(o) ==
    LET Of[x \in XMLObject] ==
          LET child_prefixes == FoldLeft(LAMBDA map, k : Merged(Merged(Of[k].own, map), Of[k].below),
                                         None, kids[x])
              Uri(p, usage) == {n.name.uri : n \in {m \in built[x].namespaces :
                                                      m.name.prefix = p /\ m.usage = usage}}
          IN  [own |-> [p \in Prefix |-> IF Uri(p, "NonVisiblyUsed") = {} THEN Nowhere
                                         ELSE CHOOSE u \in Uri(p, "NonVisiblyUsed") : TRUE],
               below |-> [p \in Prefix |-> IF child_prefixes[p] \in Uri(p, "VisiblyUsed") THEN Nowhere
                                           ELSE child_prefixes[p]]]
    IN  Merged(Of[o].own, Of[o].below)

(***************************************************************************)
(* Exclusive canonicalisation renders a declaration where an element uses  *)
(* the prefix, or if it is told of the prefix: with the prefixes that      *)
(* getNonVisiblyUsedPrefixes() finds, what is signed of a part of a tree   *)
(* keeps the meaning of its values.  A prefix that has two meanings in     *)
(* that part is beyond the function.                                       *)
(***************************************************************************)
SignedKeepsMeaning ==
    \A top \in Made : element[top] # Nowhere =>
      LET prefixes == getNonVisiblyUsedPrefixes(top)
      IN  \A o \in Below(top) :
            \A n \in Optionally(built[o].type) \cup ValuesOf(built[o], {"name"}) :
              (\A x \in Below(top) : Agree({n}, Bound(built[x])))
              => \/ prefixes[n.prefix] # Nowhere
                 \/ \E x \in Above(o) \cap Below(top) : n \in VisiblyUsed(built[x])

(***************************************************************************)
(* Names mean the same to those who build a tree, to those who read it,    *)
(* and to those who check the signature of a part of it.                   *)
(***************************************************************************)
NamesKept == PrefixesResolve /\ SignedKeepsMeaning
=============================================================================
