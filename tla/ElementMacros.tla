--------------------------- MODULE ElementMacros ---------------------------
(***************************************************************************)
(* The vocabulary in which the element classes are written: what the       *)
(* macros of base.h make of a few lines per class.                         *)
(*                                                                         *)
(* An element is named by a namespace and a local name, and the class that *)
(* implements it goes by the same pair.  A class is a record that keeps    *)
(* apart what its source says in different places, so that the places can  *)
(* disagree:                                                               *)
(*   name      the pair                                                    *)
(*   simple    text only (AbstractSimpleElement)                           *)
(*   slots     members with a place in m_children, in the order of init()  *)
(*   lists     members that are vectors, inserted at m_children.end()      *)
(*   takes     the typed branches of processChildElement()                 *)
(*   byName    branches that look at the name only and call the setter     *)
(*   wild      the namespaces its wildcard branch takes                    *)
(*   copied    the members the copy constructor or _clone() copies         *)
(*   bag       whether it does so in the order of m_children               *)
(*   attrs, attrsCopied, attrsWritten, attrsRead                           *)
(***************************************************************************)
EXTENDS Naturals, Sequences, FiniteSets, SequencesExt

CONSTANT Null

Namespaces == {"ds", "ds11", "enc", "enc11", "soap", "ext", ""}

Ds(name) == <<"ds", name>>
Ds11(name) == <<"ds11", name>>
Enc(name) == <<"enc", name>>
Enc11(name) == <<"enc11", name>>
Soap(name) == <<"soap", name>>
Bare(name) == <<"", name>>
Extension == <<"ext", "Extension">>        \* an element of a foreign namespace
AnyElement == <<"", "AnyElement">>         \* the class of what has no builder
Unknown == <<"", "UnknownXMLObject">>      \* the member for wildcards

Each(names, Ns(_)) == [i \in DOMAIN names |-> Ns(names[i])]
Member(c) == ToSet(c.slots) \cup c.lists

\* An element without children and attributes, of complex type.
Plain == [name |-> Null, simple |-> FALSE, slots |-> <<>>, lists |-> {}, takes |-> <<>>, byName |-> {},
          wild |-> {}, copied |-> <<>>, bag |-> FALSE, pairs |-> FALSE, qname |-> FALSE,
          attrs |-> {}, attrsCopied |-> {}, attrsWritten |-> {}, attrsRead |-> {}]

\* DECL_XMLOBJECTIMPL_SIMPLE
Simple == [Plain EXCEPT !.simple = TRUE]

\* IMPL_STRING_ATTRIB or IMPL_ID_ATTRIB_EX, IMPL_CLONE_ATTRIB, MARSHALL_... and
\* PROC_..._ATTRIB for each of the attributes.
Attributes(c, A) == [c EXCEPT !.attrs = @ \cup A, !.attrsCopied = @ \cup A,
                              !.attrsWritten = @ \cup A, !.attrsRead = @ \cup A]

\* AbstractAttributeExtensibleXMLObject: any further attribute is kept.
Extensible(c) == Attributes(c, {"extension"})

\* A class of single children: IMPL_TYPED_CHILD, PROC_TYPED_CHILD,
\* IMPL_CLONE_TYPED_CHILD.
Children(slots) == [Plain EXCEPT !.slots = slots, !.takes = slots, !.copied = slots]

\* A wildcard: IMPL_XMLOBJECT_CHILDREN and IMPL_CLONE_XMLOBJECT_CHILDREN or its
\* bag form, after the other members.
Wildcard(c, namespaces) ==
    [c EXCEPT !.lists = @ \cup {Unknown}, !.wild = namespaces, !.copied = Append(@, Unknown)]

\* "a namespace that is not ns, and not empty"
OtherThan(ns) == Namespaces \ {ns, ""}

\* A class of collections: IMPL_TYPED_CHILDREN, PROC_TYPED_CHILDREN.
Collections(members) ==
    [Plain EXCEPT !.lists = ToSet(members), !.takes = members, !.copied = members]
=============================================================================
