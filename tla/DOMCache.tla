------------------------------ MODULE DOMCache ------------------------------
(***************************************************************************)
(* The tree of XMLObjects with the DOM each of them caches                 *)
(* (AbstractXMLObject, AbstractDOMCachingXMLObject, AbstractComplexElement,*)
(* XMLObjectChildrenList, AbstractXMLObjectMarshaller and -Unmarshaller).  *)
(*                                                                         *)
(* Every object may hold a pointer m_dom to the DOM element that renders   *)
(* it, and may own the Xerces document m_document.  Setters must release   *)
(* the DOM of the object and of its ancestors, and marshall() reuses what  *)
(* DOM is left.  An element is abstracted to the document that owns it and *)
(* to the rendering it was given.                                          *)
(*                                                                         *)
(* Calls names the things a client does that the interface allows and that *)
(* this cache does not survive; see the README.                            *)
(***************************************************************************)
EXTENDS XMLTree

CONSTANTS LibDoc,      \* documents the library creates
          CallerDoc,   \* documents a caller creates, owns and keeps alive
          Freed,       \* stands for a document that has been released
          Calls,       \* the hazardous client calls that are made
          AnyClass     \* the objects are AnyElements: TRUE, or of classes
                       \* made with the IMPL_XMLOBJECT_CLONE_EX macro: FALSE

HazardousCalls == {"erase", "releaseDOM", "throw", "detach"}

ASSUME DOMAssumption ==
    /\ LibDoc \cap CallerDoc = {}
    /\ Null \notin LibDoc \cup CallerDoc
    /\ Freed \notin LibDoc \cup CallerDoc \cup {Null}
    /\ Calls \subseteq HazardousCalls
    /\ AnyClass \in BOOLEAN

VARIABLES dom,       \* m_dom: NoDOM, or a document and a rendering
          mdoc,      \* m_document: the document bound to the object, or Null
          docs       \* the library's documents that are allocated

vars == <<live, parent, value, out, dom, mdoc, docs>>

NoDOM == [doc |-> Null, view |-> {}]
HasDOM(o) == dom[o] # NoDOM

\* What a DOM can say, and the values of m_dom.
Views == SUBSET (Obj \X Value \X SUBSET Obj)
DOMs == [doc : LibDoc \cup CallerDoc \cup {Null, Freed}, view : Views]

\* The values of m_dom of all objects: a DOM shows its own object.
Caches == {cache \in [Obj -> DOMs] :
             \A o \in Obj : cache[o] # NoDOM => o \in Named(cache[o].view)}

Results == [call : {"marshall"}, of : live, view : Views]
             \cup [call : {"clone"}, of : live, to : live]

(***************************************************************************)
(* The types, and the fact that nothing is left of a destroyed object: no  *)
(* object has it as its parent.                                            *)
(***************************************************************************)
TypeOK ==
    /\ live \subseteq Obj
    /\ parent \in [Obj -> live \cup {Null}]
    /\ value \in [Obj -> Value \cup {Null}]
    /\ dom \in Caches
    /\ mdoc \in [Obj -> LibDoc \cup {Null}]
    /\ docs \subseteq LibDoc
    /\ out \in Results \cup {Null}
    /\ \A o \in live : value[o] \in Value
    /\ \A o \in Obj \ live :
          parent[o] = Null /\ value[o] = Null /\ dom[o] = NoDOM /\ mdoc[o] = Null

Init == TreeInit /\ dom = [o \in Obj |-> NoDOM]
                 /\ mdoc = [o \in Obj |-> Null]
                 /\ docs = {}
-----------------------------------------------------------------------------
(***************************************************************************)
(* Releasing.                                                              *)
(***************************************************************************)

\* Mutant: the propagation is forgotten (releaseParentDOM(false)).
ParentsReleasedOneLevel(o) == {a \in {parent[o]} \ {Null} : HasDOM(a)}

\* releaseParentDOM(true): the ancestors of o that are reached before the
\* first one without a DOM, where the propagation stops.
ParentsReleased(o) ==
    {a \in Above(o) \ {o} : \A z \in Above(o) \ {o} : z \in Below(a) => HasDOM(z)}

\* Mutant: releaseDOM() alone.
ThisOnly(o) == {o}

\* releaseThisandParentDOM()
ThisAndParents(o) == {o} \cup ParentsReleased(o)

\* m_dom once the objects of R have released theirs.
Without(cache, R) == [o \in Obj |-> IF o \in R THEN NoDOM ELSE cache[o]]

\* What is left of the pointers into the documents of D when these are freed.
Dangle(cache, D) ==
    [o \in Obj |-> IF cache[o].doc \in D THEN [cache[o] EXCEPT !.doc = Freed] ELSE cache[o]]

\* ~AbstractDOMCachingXMLObject of each object of S, then cache for the rest.
Destroy(S, cache) ==
    LET gone == {mdoc[x] : x \in S} \ {Null}
    IN  /\ dom' = Dangle(Without(cache, S), gone)
        /\ docs' = docs \ gone
        /\ mdoc' = [o \in Obj |-> IF o \in S THEN Null ELSE mdoc[o]]
-----------------------------------------------------------------------------
(***************************************************************************)
(* Building and changing the tree.                                         *)
(***************************************************************************)

\* A rendering names the objects it was made from; an object allocated later
\* is none of them, even where the cache is stale.
Unused == Obj \ (live \cup UNION {Named(dom[x].view) : x \in live})

NewObject(o, v) ==
    /\ o \in Unused
    /\ Build(o, v)
    /\ UNCHANGED <<dom, mdoc, docs>>

\* Mutant: the setter releases the DOM of the object but not of its parents.
AssignValueThisOnly(o, v) ==
    /\ SetValue(o, v)
    /\ dom' = Without(dom, {o})
    /\ UNCHANGED <<mdoc, docs>>

\* nil(), prepareForAssignment() of a string, setAttribute(), setTextContent().
\* Given the value the object has, they do nothing, but for setAttribute(),
\* which still releases the DOM (ReleaseThisAndParents).
AssignValue(o, v) ==
    /\ SetValue(o, v)
    /\ dom' = Without(dom, ThisAndParents(o))
    /\ UNCHANGED <<mdoc, docs>>

\* Mutants: push_back releases nothing; it releases the DOM of the child too.
PushBackQuiet(p, c) == AddChild(p, c) /\ UNCHANGED <<dom, mdoc, docs>>
PushBackGreedy(p, c) ==
    /\ AddChild(p, c)
    /\ dom' = Without(dom, ThisAndParents(p) \cup {c})
    /\ UNCHANGED <<mdoc, docs>>

\* XMLObjectChildrenList::push_back: the new child releases its parents' DOM.
PushBack(p, c) ==
    /\ AddChild(p, c)
    /\ dom' = Without(dom, IF HasDOM(p) THEN ThisAndParents(p) ELSE {})
    /\ UNCHANGED <<mdoc, docs>>

\* XMLObjectChildrenList::erase releases the ancestors of p, not p.
Erase(p, c) ==
    /\ HasDOM(p) => "erase" \in Calls
    /\ RemoveChild(p, c)
    /\ Destroy(Below(c), Without(dom, ParentsReleased(p)))

\* The setter of a child with one value: prepareForAssignment(XMLObject*).
AssignChild(p, new) ==
    /\ AddChild(p, new)
    /\ dom' = Without(dom, ThisAndParents(p))
    /\ UNCHANGED <<mdoc, docs>>
ReassignChild(p, old, new) ==
    /\ ReplaceChild(p, old, new)
    /\ Destroy(Below(old), Without(dom, ThisAndParents(p)))

\* The setter given a null child; erase() followed by a call of
\* releaseThisandParentDOM() on p comes to the same.
ClearChild(p, old) ==
    /\ RemoveChild(p, old)
    /\ Destroy(Below(old), Without(dom, ThisAndParents(p)))

\* Mutants: the document stays with the parent; the parent is not told that
\* it lost the document, and releases it.
DetachWithoutDocument(c) == Detach(c) /\ Destroy(Below(parent[c]) \ Below(c), dom)
DetachKeepingPointer(c) ==
    LET p == parent[c]
        gone == ({mdoc[x] : x \in Below(p) \ Below(c)} \cup {mdoc[c]}) \ {Null}
    IN  /\ Detach(c)
        /\ mdoc' = [o \in Obj |-> IF o \in Below(p) \ Below(c) THEN Null
                                  ELSE IF o = c THEN mdoc[p] ELSE mdoc[o]]
        /\ docs' = docs \ gone
        /\ dom' = Dangle(Without(dom, Below(p) \ Below(c)), gone)

\* A child takes its parent's document over, and the parent is deleted.
\* Binding a document releases the one the child has.
DetachChild(c) ==
    LET p == parent[c]
        taken == mdoc[p]
        dropped == IF taken = Null THEN {} ELSE {mdoc[c]} \ {Null}
        gone == {mdoc[x] : x \in Below(p) \ (Below(c) \cup {p})} \ {Null}
    IN  /\ Detach(c)
        /\ (\E x \in Below(c) : dom[x].doc \in dropped) => "detach" \in Calls
        /\ mdoc' = [o \in Obj |-> IF o \in Below(p) \ Below(c) THEN Null
                                  ELSE IF o = c /\ taken # Null THEN taken
                                  ELSE mdoc[o]]
        /\ docs' = docs \ (gone \cup dropped)
        /\ dom' = Dangle(Without(dom, Below(p) \ Below(c)), gone \cup dropped)

DeleteTree(o) == Delete(o) /\ Destroy(Below(o), dom)
-----------------------------------------------------------------------------
(***************************************************************************)
(* Marshalling.                                                            *)
(***************************************************************************)

\* From o down to x.
Path(o, x) == Below(o) \cap Above(x)

\* The highest objects below o with a DOM: marshallContent goes no further.
TopDOM(o) == {y \in Below(o) : HasDOM(y) /\ \A z \in Path(o, y) \ {y} : ~HasDOM(z)}

\* Those whose DOM is in document d already, and is reused.
Reused(o, d) == {y \in TopDOM(o) : dom[y].doc = d}

\* The objects below o whose DOM is built again when o is put in d.
Rebuilt(o, d) == Below(o) \ UNION {Below(y) : y \in Reused(o, d)}

\* The rendering of x made of new elements and of the elements reused.
Rendering(o, d, x) ==
    {<<y, value[y], Kids(y)>> : y \in Rebuilt(o, d) \cap Below(x)}
      \cup UNION {dom[y].view : y \in Reused(o, d) \cap Below(x)}

\* marshall() of an object that has a DOM, with no document or with the one its
\* DOM is in.  The parents keep theirs if the DOM stays where it is.
MarshallCached(o) ==
    /\ o \in live
    /\ HasDOM(o)
    /\ out' = [call |-> "marshall", of |-> o, view |-> dom[o].view]
    /\ dom' \in {dom, Without(dom, ParentsReleased(o))}
    /\ UNCHANGED <<live, parent, value, mdoc, docs>>

\* The DOM of o and of what is below it, built in d; the objects of R have
\* released theirs before or release it after.
BuildDOM(o, d) ==
    [x \in Obj |-> IF x \in Rebuilt(o, d)
                   THEN [doc |-> d, view |-> Rendering(o, d, x)]
                   ELSE dom[x]]

\* Mutant: the new document is not bound.
MarshallUnbound(o, d) ==
    /\ o \in live /\ ~HasDOM(o) /\ d \in LibDoc \ docs
    /\ out' = [call |-> "marshall", of |-> o, view |-> Rendering(o, d, o)]
    /\ dom' = Without(BuildDOM(o, d), ParentsReleased(o))
    /\ docs' = docs \cup {d}
    /\ UNCHANGED <<live, parent, value, mdoc>>

\* marshall() with no document: one is created and bound to o.
MarshallNew(o, d) ==
    /\ o \in live
    /\ ~HasDOM(o)
    /\ d \in LibDoc \ docs
    /\ out' = [call |-> "marshall", of |-> o, view |-> Rendering(o, d, o)]
    /\ dom' = Dangle(Without(BuildDOM(o, d), ParentsReleased(o)), {mdoc[o]} \ {Null})
    /\ mdoc' = [mdoc EXCEPT ![o] = d]
    /\ docs' = (docs \cup {d}) \ {mdoc[o]}
    /\ UNCHANGED <<live, parent, value>>

\* marshall(document) or marshall(parentElement) with a caller's document
\* that is not the one the DOM of o is in.
MarshallInto(o, d) ==
    /\ o \in live
    /\ d \in CallerDoc
    /\ HasDOM(o) => dom[o].doc # d
    /\ out' = [call |-> "marshall", of |-> o, view |-> Rendering(o, d, o)]
    /\ dom' = Without(BuildDOM(o, d), ParentsReleased(o))
    /\ UNCHANGED <<live, parent, value, mdoc, docs>>

(***************************************************************************)
(* A MarshallingException or SignatureException from object f.  The        *)
(* siblings K of the path from o to f that came before f are rendered; on  *)
(* the path no DOM is cached, and a DOM in another document has been       *)
(* released with all that was below it.                                    *)
(***************************************************************************)
Siblings(o, f) ==
    IF f = o THEN {{}, Kids(o)}
    ELSE SUBSET ({k \in Below(o) : parent[k] \in Path(o, f) \ {f}} \ Path(o, f))

AfterThrow(o, d, f, K) ==
    LET done == UNION {Below(k) : k \in K}
        dropped == UNION {Below(y) : y \in {z \in Path(o, f) : HasDOM(z)}}
    IN  [x \in Obj |-> IF x \in done THEN BuildDOM(o, d)[x]
                       ELSE IF x \in dropped THEN NoDOM
                       ELSE dom[x]]

\* The document made for the call is released by its janitor.
ThrowNew(o, d, f, K) ==
    /\ ~HasDOM(o)
    /\ d \in LibDoc \ docs
    /\ f \in Rebuilt(o, d)
    /\ K # {} => "throw" \in Calls
    /\ dom' = Dangle(AfterThrow(o, d, f, K), {d})

ThrowInto(o, d, f, K) ==
    /\ d \in CallerDoc
    /\ HasDOM(o) => dom[o].doc # d
    /\ f \in Rebuilt(o, d)
    /\ ~IsRoot(o) /\ HasDOM(o) => "throw" \in Calls
    /\ dom' = AfterThrow(o, d, f, K)

MarshallThrows(o) ==
    /\ o \in live
    /\ \E f \in Below(o) : \E K \in Siblings(o, f), d \in LibDoc \cup CallerDoc :
          ThrowNew(o, d, f, K) \/ ThrowInto(o, d, f, K)
    /\ Silent
    /\ UNCHANGED <<mdoc, docs>>
-----------------------------------------------------------------------------
(***************************************************************************)
(* Explicit release of the cache.                                          *)
(***************************************************************************)
Release(R) ==
    /\ Silent
    /\ dom' = Without(dom, R)
    /\ UNCHANGED <<mdoc, docs>>

\* Below a parent with a DOM this leaves a hole in the chain of DOMs.
ReleaseDOM(o) ==
    /\ ~IsRoot(o) /\ HasDOM(parent[o]) => "releaseDOM" \in Calls
    /\ Release({o})

ReleaseThisAndParents(o) == Release(ThisAndParents(o))

ReleaseThisAndChildren(o) ==
    /\ ~IsRoot(o) /\ HasDOM(parent[o]) => "releaseDOM" \in Calls
    /\ Release(Below(o))
-----------------------------------------------------------------------------
(***************************************************************************)
(* Unmarshalling and cloning.                                              *)
(***************************************************************************)

\* The part of a rendering that is below object k.
SubView(view, k) ==
    {e \in view : \A T \in SUBSET Named(view) :
        k \in T /\ (\A g \in view : g[1] \in T => g[3] \subseteq T) => e[1] \in T}

\* buildFromDocument(doc, true): every object caches the element it was
\* built from and the root owns the document.
UnmarshallNew(r, S, above, content, d) ==
    LET parsed == {<<x, content[x], {c \in S : above[c] = x}>> : x \in S}
    IN  /\ d \in LibDoc \ docs
        /\ S \subseteq Unused
        /\ Unmarshall(r, S, above, content)
        /\ docs' = docs \cup {d}
        /\ mdoc' = [mdoc EXCEPT ![r] = d]
        /\ dom' = [x \in Obj |-> IF x \in S THEN [doc |-> d, view |-> SubView(parsed, x)]
                                 ELSE dom[x]]

\* The objects copied one by one, with their children; AnyElementImpl::clone()
\* copies the children of the copy, which has none.
CopiedByHand(o) ==
    IF HasDOM(o) THEN {}
    ELSE IF AnyClass THEN {o}
    ELSE Subtree({x \in live : ~HasDOM(x)}, parent, o)

\* The objects whose DOM is imported in a new document and unmarshalled.
CopiedByDOM(o) == IF HasDOM(o) THEN {o} ELSE IF AnyClass THEN {} ELSE TopDOM(o)

\* Mutant: the copies made one by one get no children.
CloneViewShallow(o) ==
    {<<y, value[y], {}>> : y \in CopiedByHand(o)}
      \cup UNION {dom[y].view : y \in CopiedByDOM(o)}

CloneView(o) ==
    {<<y, value[y], IF AnyClass THEN {} ELSE Kids(y)>> : y \in CopiedByHand(o)}
      \cup UNION {dom[y].view : y \in CopiedByDOM(o)}

\* bound[y] is the document made for the copy of y.
CloneTree(o) ==
    \E f \in Fresh(CloneView(o)), bound \in [CopiedByDOM(o) -> LibDoc \ docs] :
      /\ \A k \in DOMAIN f : f[k] \in Unused
      /\ \A y, z \in CopiedByDOM(o) : bound[y] = bound[z] => y = z
      /\ Copy(CloneView(o), f)
      /\ out' = [call |-> "clone", of |-> o, to |-> f[o]]
      /\ docs' = docs \cup {bound[y] : y \in CopiedByDOM(o)}
      /\ mdoc' = [x \in Obj |->
             IF \E y \in CopiedByDOM(o) \cap DOMAIN f : f[y] = x
             THEN bound[CHOOSE y \in CopiedByDOM(o) \cap DOMAIN f : f[y] = x]
             ELSE mdoc[x]]
      /\ dom' = [x \in Obj |->
             IF \E y \in CopiedByDOM(o), k \in DOMAIN f : k \in Named(dom[y].view) /\ f[k] = x
             THEN LET k == CHOOSE j \in DOMAIN f : f[j] = x
                      y == CHOOSE z \in CopiedByDOM(o) : k \in Named(dom[z].view)
                  IN  [doc |-> bound[y], view |-> Image(SubView(dom[y].view, k), f)]
             ELSE dom[x]]
-----------------------------------------------------------------------------
Next ==
    \/ \E o \in Obj, v \in Value : NewObject(o, v) \/ AssignValue(o, v)
    \/ \E p, c \in live : \/ PushBack(p, c) \/ AssignChild(p, c)
                          \/ Erase(p, c) \/ ClearChild(p, c)
    \/ \E p, old, new \in live : ReassignChild(p, old, new)
    \/ \E o \in live : \/ DetachChild(o) \/ DeleteTree(o) \/ CloneTree(o)
                       \/ MarshallCached(o) \/ MarshallThrows(o)
                       \/ ReleaseDOM(o) \/ ReleaseThisAndParents(o)
                       \/ ReleaseThisAndChildren(o)
    \/ \E o \in live, d \in LibDoc \cup CallerDoc : MarshallNew(o, d) \/ MarshallInto(o, d)
    \/ \E S \in SUBSET Obj, d \in LibDoc : \E r \in S : \E above \in Shapes(r, S) :
           \E content \in [S -> Value] : UnmarshallNew(r, S, above, content, d)

Spec == Init /\ [][Next]_vars
-----------------------------------------------------------------------------
(***************************************************************************)
(* A cached DOM says what its object and the objects below it say: every   *)
(* change of the tree has released the DOM of everything it shows in       *)
(* (releaseThisandParentDOM in the setters).  This is what allows          *)
(* marshall() to return a cached DOM as it is.                             *)
(***************************************************************************)
CacheFaithful == \A o \in live : HasDOM(o) => dom[o].view = View(o)

(***************************************************************************)
(* No object points into a document that has been released: documents live *)
(* as long as the object they are bound to (setDocument, detach, the       *)
(* destructors and the janitor of marshall()).                             *)
(***************************************************************************)
NoDangling == \A o \in live : dom[o].doc # Freed

(***************************************************************************)
(* Every document the library made is bound to exactly one object and no   *)
(* object is bound to a document that is gone: none is leaked and none is  *)
(* released twice.                                                         *)
(***************************************************************************)
DocOwned ==
    /\ \A d \in docs : \E o \in live : mdoc[o] = d
    /\ \A o \in live : mdoc[o] # Null => mdoc[o] \in docs
    /\ \A o, p \in live : mdoc[o] = mdoc[p] /\ mdoc[o] # Null => o = p

(***************************************************************************)
(* Where a parent has a DOM its children have theirs: releaseParentDOM may *)
(* stop at the first ancestor without one.                                 *)
(***************************************************************************)
NoHole == \A o \in live : parent[o] # Null /\ HasDOM(parent[o]) => HasDOM(o)

(***************************************************************************)
(* A DOM is in a document of the caller, or in one bound to the object or  *)
(* to one of its ancestors.                                                *)
(***************************************************************************)
DOMAtHome ==
    \A o \in live : HasDOM(o) =>
        \/ dom[o].doc \in CallerDoc
        \/ \E a \in Above(o) : mdoc[a] = dom[o].doc /\ mdoc[a] # Null

(***************************************************************************)
(* A change of the tree costs no object its DOM whose own subtree stays as *)
(* it was: "this depends on all objects being able to preserve their DOM   *)
(* at all costs" (AbstractXMLObjectMarshaller.cpp:97), and so does the     *)
(* signature over a sibling.                                               *)
(***************************************************************************)
DOMPreserved ==
    [][<<live, parent, value>>' # <<live, parent, value>> =>
          \A o \in live \cap live' : View(o)' = View(o) => dom'[o] = dom[o]]_vars

\* The cache is invisible: with it the tree does what XMLTree promises.
Tree == INSTANCE XMLTree
Refinement == Tree!TreeSpec
=============================================================================
