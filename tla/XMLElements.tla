---------------------------- MODULE XMLElements -----------------------------
(***************************************************************************)
(* One XMLObject of any of the library's element classes, from the empty   *)
(* object or from a document, through the calls of a client, with what its *)
(* clone() and its serialised form would be at each point.                 *)
(*                                                                         *)
(* A child is what m_children points to: an identity, the name of its      *)
(* element and the class that was built for it.  m_children keeps a        *)
(* place, empty at first, for each single child (m_pos_...), and the lists *)
(* and slots point to the same objects.                                    *)
(*                                                                         *)
(* Calls names what the interface allows and the classes do not survive.   *)
(***************************************************************************)
EXTENDS KeyInfoElements, EncryptionElements, SOAPElements, SchemaValidators, XMLSchemas

CONSTANTS Classes,   \* the classes whose objects are looked at
          MaxCalls,  \* calls of the client
          MaxFirst,  \* children an object may have before the client calls
          Calls

Registered == KeyInfoRegistered \cup EncryptionRegistered \cup SOAPRegistered

HazardousCalls == {"setCode", "farText", "setText", "pairs", "trailer", "xsiType"}

\* The names of elements, and of classes.
Tag == Registered \cup Strangers \cup {Ds11("ECParameters"), Extension, AnyElement, Unknown}

\* What m_children points to.
Kid == [id : Nat, name : Tag, class : Tag]

ASSUME ElementsAssumption ==
    /\ Calls \subseteq HazardousCalls
    /\ Classes \subseteq Registered
    /\ MaxCalls \in Nat /\ MaxFirst \in Nat
    /\ Null \notin Kid

VARIABLES obj,    \* the object
          read,   \* the document read so far: attributes, children, text
          phase,  \* "read", "client", or "rejected" by an UnmarshallingException
          calls   \* calls of the client so far

elementsVars == <<obj, read, phase, calls>>

Class(q) ==
    [CASE q \in KeyInfoRegistered -> KeyInfoClass(q)
       [] q \in EncryptionRegistered -> EncryptionClass(q)
       [] q \in SOAPRegistered -> SOAPClass(q) EXCEPT !.name = q]

\* XMLObjectBuilder::getBuilder(): the class built for an element.
Built(name) == IF name \in Registered THEN name ELSE AnyElement

Texts == {"text"}
Living(kids) == SelectSeq(kids, LAMBDA k : k # Null)
Place(o, m) == CHOOSE i \in DOMAIN o.class.slots : o.class.slots[i] = m
IsSlot(o, m) == m \in ToSet(o.class.slots)
-----------------------------------------------------------------------------
(***************************************************************************)
(* Building, text and attributes.                                          *)
(***************************************************************************)

\* The constructor and init().
Blank(c) ==
    [class |-> c,
     kids |-> [i \in DOMAIN c.slots |-> Null],
     slot |-> [m \in ToSet(c.slots) |-> Null],
     list |-> [m \in c.lists |-> <<>>],
     pairs |-> <<>>,
     text |-> <<>>,
     code |-> Null,
     attr |-> [a \in c.attrs |-> FALSE],
     adopted |-> {},
     dom |-> FALSE]

TextAt(o, p) == IF p < Len(o.text) THEN o.text[p + 1] ELSE <<>>

\* Whether setTextContent() throws nothing.
TextAllowed(o, p) == IF o.class.simple THEN p = 0 ELSE p <= Len(o.kids)

\* Mutant: the position is that of the placeholder, counted from one.
SetTextOff(o, t, p) ==
    LET size == IF p < Len(o.text) THEN Len(o.text) ELSE p + 2
    IN  [o EXCEPT !.text = [i \in 1..size |-> TextAt(o, i - 1) \o (IF i = p + 2 THEN t ELSE <<>>)],
                  !.dom = FALSE]

\* setTextContent(): text that is there is kept, and the new text follows it.
SetText(o, t, p) ==
    LET size == IF p < Len(o.text) THEN Len(o.text) ELSE p + 1
    IN  [o EXCEPT !.text = [i \in 1..size |-> TextAt(o, i - 1) \o (IF i = p + 1 THEN t ELSE <<>>)],
                  !.dom = IF t = <<>> THEN @ ELSE FALSE]

\* A setter of an attribute.
SetAttribute(o, a, value) ==
    [o EXCEPT !.attr[a] = value, !.dom = IF @ /\ o.attr[a] = value THEN TRUE ELSE FALSE]

\* FaultcodeImpl::getCode(): from m_qname, else from the DOM.
GetCode(o) == IF o.code # Null THEN o.code
           ELSE IF o.dom /\ TextAt(o, 0) # <<>> THEN TextAt(o, 0) ELSE Null

\* FaultcodeImpl::setCode()
SetCode(o, code) ==
    [SetText(o, IF code = Null THEN <<>> ELSE code, 0) EXCEPT
        !.code = code, !.dom = @ /\ o.code = Null /\ code = Null]
-----------------------------------------------------------------------------
(***************************************************************************)
(* Children.                                                               *)
(***************************************************************************)

\* Mutant: the setter leaves out prepareForAssignment().
SetSlotOrphan(o, m, child) ==
    [o EXCEPT !.slot[m] = child, !.kids[Place(o, m)] = child, !.dom = FALSE]

\* Mutant: the setter forgets m_pos_....
SetSlotOnly(o, m, child) == [o EXCEPT !.slot[m] = child, !.dom = FALSE]

\* The setter of IMPL_TYPED_CHILD and IMPL_XMLOBJECT_CHILD; the child that was
\* there is deleted.
SetSlot(o, m, child) ==
    [o EXCEPT !.slot[m] = child,
              !.kids[Place(o, m)] = child,
              !.adopted = (@ \ {o.slot[m]}) \cup ({child} \ {Null}),
              !.dom = FALSE]

\* push_back() on the list of IMPL_TYPED_CHILDREN; the fence is the end.
PushBack(o, m, child) ==
    [o EXCEPT !.list[m] = Append(@, child),
              !.kids = Append(@, child),
              !.adopted = @ \cup {child},
              !.dom = FALSE]

\* erase() on that list, by a client that releases the DOM itself; removeChild()
\* takes the first entry that points to the child.
Erase(o, m, i) ==
    LET child == o.list[m][i]
        place == CHOOSE p \in DOMAIN o.kids :
                    o.kids[p] = child /\ \A q \in 1..p - 1 : o.kids[q] # child
    IN  [o EXCEPT !.list[m] = RemoveAt(@, i),
                  !.kids = RemoveAt(@, place),
                  !.adopted = @ \ {child},
                  !.dom = FALSE]

\* XMLObjectPairList::push_back()
PushPair(o, pair) ==
    [o EXCEPT !.pairs = Append(@, pair),
              !.kids = @ \o pair,
              !.adopted = @ \cup (ToSet(pair) \ {Null}),
              !.dom = FALSE]

\* Whether XMLObjectPairList::erase() throws nothing: both are owned.
PairErasable(o, i) == ToSet(o.pairs[i]) \ {Null} \subseteq o.adopted

\* XMLObjectPairList::erase(): removeChild() looks at every other entry.
ErasePair(o, i) ==
    LET k == CHOOSE n \in DOMAIN o.kids : n % 2 = 1 /\ o.kids[n] = o.pairs[i][1]
    IN  [o EXCEPT !.pairs = RemoveAt(@, i),
                  !.kids = RemoveAt(RemoveAt(@, k + 1), k),
                  !.adopted = @ \ ToSet(o.pairs[i]),
                  !.dom = FALSE]

\* PROC_TYPED_CHILD and PROC_TYPED_CHILDREN: the condition.
Typed(o, child, m) ==
    /\ child.name = m
    /\ child.class = m
    /\ IsSlot(o, m) => o.slot[m] = Null

\* SPKIDataImpl::processChildElement(): an extension completes the last pair.
Completes(o) == o.pairs # <<>> /\ Last(o.pairs)[2] = Null

\* Whether processChildElement() takes the child.
Takes(o, child) ==
    LET c == o.class
    IN  \/ child.name \in c.byName
        \/ \E i \in DOMAIN c.takes : Typed(o, child, c.takes[i])
        \/ child.name[1] \in c.wild /\ (c.pairs => Completes(o))

\* processChildElement() of a child that is taken.
Process(o, child) ==
    LET c == o.class
        m == IF \E i \in DOMAIN c.takes : Typed(o, child, c.takes[i]) THEN child.name
             ELSE IF child.name \in c.byName THEN child.name ELSE Unknown
    IN  IF c.pairs THEN IF m # Unknown THEN PushPair(o, <<child, Null>>)
                        ELSE [o EXCEPT !.pairs[Len(o.pairs)][2] = child,
                                       !.kids[Len(o.kids)] = child]
        ELSE IF IsSlot(o, m) THEN SetSlot(o, m, child)
        ELSE PushBack(o, m, child)
-----------------------------------------------------------------------------
(***************************************************************************)
(* Serialising, parsing and copying.                                       *)
(***************************************************************************)

\* AbstractXMLObjectMarshaller: attributes, then text and children in turn.
Marshalled(o) ==
    LET kids == Living(o.kids)
    IN  [class |-> o.class,
         attrs |-> {a \in o.class.attrsWritten : o.attr[a]},
         kids |-> kids,
         texts |-> [i \in 1..Len(kids) + 1 |-> TextAt(o, i - 1)]]

Rejected == [class |-> Null]

\* unmarshallAttributes()
ReadAttributes(c, attrs) ==
    IF attrs \subseteq c.attrsRead
    THEN [Blank(c) EXCEPT !.attr = [a \in c.attrs |-> a \in attrs]]
    ELSE Rejected

\* unmarshallContent(): a text node at position p, and the element after it.
ReadText(o, t, p) ==
    IF o = Rejected \/ t = <<>> THEN o
    ELSE IF TextAllowed(o, p) THEN SetText(o, t, p) ELSE Rejected

ReadChild(o, child) ==
    IF o = Rejected \/ ~Takes(o, child) THEN Rejected ELSE Process(o, child)

\* unmarshall(): the object read keeps the DOM.
Unmarshalled(doc) ==
    LET Step[i \in 0..Len(doc.kids)] ==
            ReadText(IF i = 0 THEN ReadAttributes(doc.class, doc.attrs)
                     ELSE ReadChild(Step[i - 1], doc.kids[i]), doc.texts[i + 1], i)
        o == Step[Len(doc.kids)]
    IN  IF o = Rejected THEN o ELSE [o EXCEPT !.dom = TRUE]

\* The copy of the children in the order of m_children: each goes to the first
\* member whose class it has.
BagCopy(o, blank) ==
    LET copied == o.class.copied
        Target(k) == copied[CHOOSE i \in DOMAIN copied :
                              /\ copied[i] \in {k.class, Unknown}
                              /\ \A j \in 1..i - 1 : copied[j] # k.class]
    IN  FoldLeft(LAMBDA acc, k : PushBack(acc, Target(k), k), blank, Living(o.kids))

\* The copy member by member.
MemberCopy(o, blank) ==
    LET Copy(acc, m) == IF IsSlot(o, m)
                        THEN IF o.slot[m] = Null THEN acc ELSE SetSlot(acc, m, o.slot[m])
                        ELSE FoldLeft(LAMBDA a, k : PushBack(a, m, k), acc, o.list[m])
    IN  FoldLeft(Copy, blank, o.class.copied)

\* The copy constructor, with _clone() where there is one.  The children are
\* copies; they keep their identities here, since no step looks at both.
Copied(o) ==
    LET c == o.class
        blank == [Blank(o.class) EXCEPT !.text = o.text,
                                        !.attr = [a \in c.attrs |-> a \in c.attrsCopied /\ o.attr[a]]]
    IN  IF c.qname THEN SetCode(blank, GetCode(o))
        ELSE IF c.pairs THEN FoldLeft(PushPair, blank, o.pairs)
        ELSE IF c.bag THEN BagCopy(o, blank) ELSE MemberCopy(o, blank)

\* clone(): through the DOM if there is one.
Clone(o) == IF o.dom THEN Unmarshalled(Marshalled(o)) ELSE Copied(o)
-----------------------------------------------------------------------------
(***************************************************************************)
(* Behaviour.                                                              *)
(***************************************************************************)

\* The names of children in the documents that are read: those of the schema,
\* and a few that break it.
Documents(c) ==
    ContentModel(c.name) \cup (IF c.simple THEN {} ELSE
        {<<a>> : a \in Strangers \cup ToSet(c.takes) \cup c.byName}
        \cup {<<a, b>> : a, b \in ToSet(c.takes) \cup {Extension}})

\* The documents the code is known to mistreat.
Mistreated(q, names) ==
    \/ q = Soap("Envelope") /\ Len(names) > 0 /\ names[Len(names)][1] # "soap"
       /\ "trailer" \notin Calls
    \/ q = Ds("SPKIData") /\ (\E i \in DOMAIN names : names[i][1] # "ds")
       /\ "pairs" \notin Calls

Names(doc) == [i \in DOMAIN doc.kids |-> doc.kids[i].name]

ElementsInit ==
    /\ \E c \in {Class(q) : q \in Classes} : \E A \in {{}, Required(c.name), c.attrs} :
          /\ read = [class |-> c, attrs |-> A, kids |-> <<>>, texts |-> << <<>> >>]
          /\ obj = ReadAttributes(c, A)
    /\ phase = "read"
    /\ calls = 0

Keep(o) == IF o = Rejected THEN phase' = "rejected" /\ UNCHANGED obj
           ELSE obj' = o /\ UNCHANGED phase

\* A text node comes, once a document.
ReadsText ==
    /\ phase = "read"
    /\ \A i \in DOMAIN read.texts : read.texts[i] = <<>>
    /\ Len(read.kids) <= MaxFirst
    /\ \E t \in Texts :
          /\ read' = [read EXCEPT !.texts[Len(read.texts)] = <<t>>]
          /\ Keep(ReadText(obj, <<t>>, Len(read.kids)))
    /\ UNCHANGED calls

\* An element comes, with the xsi:type of a class of the library or without.
ReadsChild ==
    /\ phase = "read"
    /\ \E d \in Documents(read.class) :
          LET n == Len(read.kids) + 1
              types == IF "xsiType" \in Calls THEN {Ds("KeyValue")} ELSE {}
          IN  /\ n <= Len(d)
              /\ SubSeq(d, 1, n - 1) = Names(read)
              /\ ~Mistreated(read.class.name, SubSeq(d, 1, n))
              /\ \E class \in {Built(d[n])} \cup types :
                    LET child == [id |-> n, name |-> d[n], class |-> class]
                    IN  /\ read' = [read EXCEPT !.kids = Append(@, child),
                                                !.texts = Append(@, <<>>)]
                        /\ Keep(ReadChild(obj, child))
    /\ UNCHANGED calls

\* unmarshall() ends, and the object has the DOM; or there is no document, and
\* a builder made the object.
ReadsEnd ==
    /\ phase = "read"
    /\ phase' = "client"
    /\ obj' \in {[obj EXCEPT !.dom = TRUE]} \cup
                (IF read.kids = <<>> /\ obj.text = <<>> THEN {obj} ELSE {})
    /\ UNCHANGED <<read, calls>>

\* A child a client can give to member m.  Two are made for a pair.
Fresh(o, m) ==
    [id |-> Len(read.kids) + 2 * calls + 1, name |-> IF m = Unknown THEN Extension ELSE m,
     class |-> IF m = Unknown THEN AnyElement ELSE Built(m)]

Call(o) == obj' = o /\ calls' = calls + 1 /\ UNCHANGED <<read, phase>>

Client == phase = "client" /\ calls < MaxCalls /\ Len(read.kids) <= MaxFirst

SetsSlot == Client /\ \E m \in ToSet(obj.class.slots) : \E child \in {Null, Fresh(obj, m)} :
               Call(SetSlot(obj, m, child))

PushesBack == Client /\ \E m \in obj.class.lists : Call(PushBack(obj, m, Fresh(obj, m)))

Erases == Client /\ \E m \in obj.class.lists : \E i \in DOMAIN obj.list[m] :
             Call(Erase(obj, m, i))

PushesPair ==
    /\ Client
    /\ obj.class.pairs
    /\ LET sexp == Fresh(obj, Ds("SPKISexp"))
       IN  \E second \in {Null, [Fresh(obj, Unknown) EXCEPT !.id = @ + 1]} :
              Call(PushPair(obj, <<sexp, second>>))

ErasesPair == Client /\ \E i \in DOMAIN obj.pairs : PairErasable(obj, i) /\ Call(ErasePair(obj, i))

SetsAttribute == Client /\ \E a \in obj.class.attrs : \E v \in BOOLEAN :
                    Call(SetAttribute(obj, a, v))

\* Text beyond the last child is kept for a child that is not there.
SetsText ==
    /\ Client
    /\ ~obj.class.qname
    /\ \E t \in Texts, p \in 0..Len(obj.kids) :
          /\ TextAllowed(obj, p)
          /\ p > Len(Living(obj.kids)) => "farText" \in Calls
          /\ TextAt(obj, p) # <<>> => "setText" \in Calls
          /\ Call(SetText(obj, <<t>>, p))

\* A code is set or dropped, or that of the DOM is kept when the DOM goes.
SetsCode ==
    /\ Client
    /\ obj.class.qname
    /\ \/ Call(SetCode(obj, Null))
       \/ "setCode" \in Calls /\ Call(SetCode(obj, <<"code">>))
       \/ "setCode" \in Calls /\ Call([obj EXCEPT !.code = GetCode(obj), !.dom = FALSE])

ElementsNext ==
    \/ ReadsText \/ ReadsChild \/ ReadsEnd
    \/ SetsSlot \/ PushesBack \/ Erases \/ PushesPair \/ ErasesPair
    \/ SetsAttribute \/ SetsText \/ SetsCode

ElementsSpec == ElementsInit /\ [][ElementsNext]_elementsVars
-----------------------------------------------------------------------------
(***************************************************************************)
(* Properties.                                                             *)
(***************************************************************************)

\* What an object says, whatever its places and its DOM.
Shape(o) == [Marshalled(o) EXCEPT !.attrs = {a \in o.class.attrs : o.attr[a]}]

(***************************************************************************)
(* The typed members and m_children, which the macros change separately,   *)
(* point to the same objects: each single child is in its place, and the   *)
(* lists share out the rest, each in the order of m_children.  No child is *)
(* there twice, to be deleted twice, and every one has this object as its  *)
(* parent, so that what happens to the child releases the DOM of this      *)
(* object.                                                                 *)
(***************************************************************************)
Once(kids) == \A p, q \in DOMAIN kids : kids[p] = kids[q] /\ kids[p] # Null => p = q

\* The pairs one after the other.
PairsInStep(kids, pairs) ==
    /\ Len(kids) = 2 * Len(pairs)
    /\ \A i \in DOMAIN pairs : pairs[i] = <<kids[2 * i - 1], kids[2 * i]>>

\* The lists, whose children begin behind the first n places.
ListsInStep(kids, n, lists) ==
    LET Rest == n + 1..Len(kids)
    IN  /\ {kids[p] : p \in Rest} = UNION {ToSet(lists[m]) : m \in DOMAIN lists}
        /\ \A l, m \in DOMAIN lists : l # m => ToSet(lists[l]) \cap ToSet(lists[m]) = {}
        /\ \A m \in DOMAIN lists : \A i, j \in DOMAIN lists[m] : \A p, q \in Rest :
              i < j /\ kids[p] = lists[m][i] /\ kids[q] = lists[m][j] => p < q

InStep ==
    LET c == obj.class
    IN  /\ ToSet(obj.kids) \ {Null} = obj.adopted
        /\ Once(obj.kids)
        /\ Len(obj.kids) >= Len(c.slots)
        /\ \A i \in DOMAIN c.slots : obj.kids[i] = obj.slot[c.slots[i]]
        /\ IF c.pairs THEN PairsInStep(obj.kids, obj.pairs)
           ELSE ListsInStep(obj.kids, Len(c.slots), obj.list)

(***************************************************************************)
(* Both copies of an object say what it says, in the same members: its     *)
(* clone(), by the DOM or by the copy constructor, and what unmarshall()   *)
(* reads from what marshall() writes.                                      *)
(***************************************************************************)
SameContent(o) ==
    /\ o # Rejected
    /\ Shape(o) = Shape(obj)
    /\ o.slot = obj.slot /\ o.list = obj.list /\ o.pairs = obj.pairs

CopySame ==
    phase = "client" => SameContent(Clone(obj)) /\ SameContent(Unmarshalled(Marshalled(obj)))

(***************************************************************************)
(* A document that follows the schema is read, and written again as it is. *)
(***************************************************************************)
ReadAndWritten ==
    (Names(read) \in ContentModel(read.class.name) /\ Required(read.class.name) \subseteq read.attrs)
        => /\ phase # "rejected"
           /\ calls = 0 => Marshalled(obj) = read

(***************************************************************************)
(* The validator of the class lets such a document pass.                   *)
(***************************************************************************)
ValidatorAgrees ==
    (/\ phase = "client" /\ calls = 0 /\ obj.dom
     /\ Names(read) \in ContentModel(read.class.name) /\ Required(read.class.name) \subseteq read.attrs
     /\ read.class.simple => read.texts[1] # <<>>)
        => LET c == obj.class
               Has == {m \in ToSet(c.slots) : obj.slot[m] # Null}
                        \cup {m \in c.lists : obj.list[m] # <<>>}
                        \cup {m \in ToSet(c.takes) : obj.pairs # <<>>}
                        \cup {Attribute(a) : a \in {x \in c.attrs : obj.attr[x]}}
                        \cup {m \in {Child} : Living(obj.kids) # <<>>}
                        \cup {m \in {Code} : GetCode(obj) # Null}
               text == TextAt(obj, 0) # <<>>
               wild == IF Unknown \in obj.class.lists
                       THEN {k.name : k \in ToSet(obj.list[Unknown])} ELSE {}
               q == obj.class.name
           IN  CASE q \in KeyInfoRegistered -> KeyInfoValid(q, Has, text, wild)
                 [] q \in EncryptionRegistered -> EncryptionValid(q, Has, text, wild)
                 [] OTHER -> SOAPValid(q, Has, text)

(***************************************************************************)
(* What the schema allows, the classes keep and the validators accept.     *)
(***************************************************************************)
SchemaKept == ReadAndWritten /\ ValidatorAgrees
=============================================================================
