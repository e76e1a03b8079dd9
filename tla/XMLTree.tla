------------------------------ MODULE XMLTree ------------------------------
(***************************************************************************)
(* What the XMLObject interface promises (XMLObject.h): a forest of        *)
(* objects, each with content of its own and an ordered list of children,  *)
(* whose marshalled form is the content of the whole subtree as it is at   *)
(* the moment of the call.  No DOM and no document appears here; they are  *)
(* caches, added by DOMCache, which is shown to implement this module.     *)
(*                                                                         *)
(* The order of the children and the difference between text, attributes   *)
(* and xsi:nil are abstracted: the content of one object, its children     *)
(* apart, is one member of Value.                                          *)
(***************************************************************************)
EXTENDS Naturals, FiniteSets

CONSTANTS Obj,      \* addresses at which an XMLObject can be allocated
          Value,    \* contents of one element, its children apart
          Null      \* the null pointer

ASSUME NullAssumption == Null \notin Obj \cup Value

VARIABLES live,     \* the objects that exist
          parent,   \* m_parent of each object
          value,    \* attributes, text and xsi:nil of each object
          out       \* what the last marshall() or clone() returned, or Null

treeVars == <<live, parent, value, out>>
-----------------------------------------------------------------------------
(***************************************************************************)
(* The shape of the forest.                                                *)
(***************************************************************************)
Kids(o) == {c \in live : parent[c] = o}

\* The nodes of L at or below o, where above[x] is the parent of x: those that
\* are in every set that holds o and, with any node, its children.
Subtree(L, above, o) ==
    {x \in L : \A S \in SUBSET L :
        o \in S /\ (\A c \in L : above[c] \in S => c \in S) => x \in S}

Below(o) == Subtree(live, parent, o)

\* o and its ancestors.
Above(o) == {a \in live : o \in Below(a)}

IsRoot(o) == o \in live /\ parent[o] = Null

\* What the subtree of o says: one entry for each object in it.
View(o) == {<<x, value[x], Kids(x)>> : x \in Below(o)}

\* The objects that appear in a rendering.
Named(view) == {e[1] : e \in view}
-----------------------------------------------------------------------------
TreeInit ==
    /\ live = {}
    /\ parent = [o \in Obj |-> Null]
    /\ value = [o \in Obj |-> Null]
    /\ out = Null

(***************************************************************************)
(* Allocation.  A deleted object leaves no trace: its fields are reset so  *)
(* that a reused address does not split states.                            *)
(***************************************************************************)
Build(o, v) ==
    /\ o \notin live
    /\ live' = live \cup {o}
    /\ parent' = [parent EXCEPT ![o] = Null]
    /\ value' = [value EXCEPT ![o] = v]
    /\ out' = Null

\* The objects of S stop existing; keep is the new m_parent of the others.
Forget(S, keep) ==
    /\ live' = live \ S
    /\ parent' = [o \in Obj |-> IF o \in S THEN Null ELSE keep[o]]
    /\ value' = [o \in Obj |-> IF o \in S THEN Null ELSE value[o]]

SetValue(o, v) ==
    /\ o \in live
    /\ value[o] # v
    /\ value' = [value EXCEPT ![o] = v]
    /\ out' = Null
    /\ UNCHANGED <<live, parent>>

\* A root becomes a child.  No caller puts an object below itself.
Addable(p, c) == p \in live /\ IsRoot(c) /\ p \notin Below(c)

AddChild(p, c) ==
    /\ Addable(p, c)
    /\ parent' = [parent EXCEPT ![c] = p]
    /\ out' = Null
    /\ UNCHANGED <<live, value>>

\* Mutant: the children of c are left behind.
RemoveChildOnly(p, c) == c \in Kids(p) /\ Forget({c}, parent) /\ out' = Null

\* c is removed from its parent and destroyed, with all that is below it.
RemoveChild(p, c) ==
    /\ c \in Kids(p)
    /\ Forget(Below(c), parent)
    /\ out' = Null

\* A single-valued child is given another value: old is destroyed.  The object
\* whose setter runs outlives the call.
ReplaceChild(p, old, new) ==
    /\ old \in Kids(p)
    /\ p \notin Below(old)
    /\ Addable(p, new)
    /\ Forget(Below(old), [parent EXCEPT ![new] = p])
    /\ out' = Null

\* A child of a root becomes a root, and its parent is destroyed.
Detach(c) ==
    /\ c \in live
    /\ IsRoot(parent[c])
    /\ Forget(Below(parent[c]) \ Below(c), [parent EXCEPT ![c] = Null])
    /\ out' = Null

Delete(o) ==
    /\ IsRoot(o)
    /\ Forget(Below(o), parent)
    /\ out' = Null

\* The parent and the content of object k in a rendering.
ParentIn(view, k) ==
    IF \E e \in view : k \in e[3] THEN (CHOOSE e \in view : k \in e[3])[1] ELSE Null
ValueIn(view, k) == (CHOOSE e \in view : e[1] = k)[2]

\* Fresh objects f[k] for the objects k of a rendering take its content.
Copy(view, f) ==
    LET copies == {f[k] : k \in Named(view)}
        original(o) == CHOOSE k \in Named(view) : f[k] = o
        above(k) == IF k = Null THEN Null ELSE f[k]
    IN  /\ live' = live \cup copies
        /\ parent' = [o \in Obj |-> IF o \in copies
                                    THEN above(ParentIn(view, original(o)))
                                    ELSE parent[o]]
        /\ value' = [o \in Obj |-> IF o \in copies
                                   THEN ValueIn(view, original(o))
                                   ELSE value[o]]

\* The ways to allocate copies of the objects of a rendering.
Fresh(view) == {f \in [Named(view) -> Obj \ live] :
                    \A x, y \in Named(view) : f[x] = f[y] => x = y}

Clone(o) ==
    /\ o \in live
    /\ \E f \in Fresh(View(o)) :
          Copy(View(o), f) /\ out' = [call |-> "clone", of |-> o, to |-> f[o]]

\* A document parsed elsewhere becomes a tree of new objects S rooted at r:
\* above[x] is the parent of x, content[x] its content.
Unmarshall(r, S, above, content) ==
    /\ r \in S /\ S \cap live = {}
    /\ live' = live \cup S
    /\ parent' = [o \in Obj |-> IF o \in S THEN above[o] ELSE parent[o]]
    /\ value' = [o \in Obj |-> IF o \in S THEN content[o] ELSE value[o]]
    /\ out' = Null

\* The shapes of a tree with the objects S and the root r.
Shapes(r, S) ==
    {above \in [S -> S \cup {Null}] :
        /\ above[r] = Null
        /\ \A x \in S \ {r} : above[x] # Null
        /\ Subtree(S, above, r) = S}

\* marshall() returns the current content of the whole subtree.
Marshall(o) ==
    /\ o \in live
    /\ out' = [call |-> "marshall", of |-> o, view |-> View(o)]
    /\ UNCHANGED <<live, parent, value>>

\* A call that returns nothing and changes no content: a marshall() that
\* throws, or the release of a cache.
Silent == out' = Null /\ UNCHANGED <<live, parent, value>>

TreeNext ==
    \/ Silent
    \/ \E o \in live : Marshall(o) \/ Delete(o) \/ Detach(o)
    \/ \E o \in Obj, v \in Value : Build(o, v) \/ SetValue(o, v)
    \/ \E p, c \in live : AddChild(p, c) \/ RemoveChild(p, c)
    \/ \E p, old, new \in live : ReplaceChild(p, old, new)
    \/ \E o \in live : Clone(o)
    \/ \E S \in SUBSET (Obj \ live) : \E r \in S : \E above \in Shapes(r, S) :
           \E content \in [S -> Value] : Unmarshall(r, S, above, content)

TreeSpec == TreeInit /\ [][TreeNext]_treeVars
-----------------------------------------------------------------------------
\* A rendering, after its objects were renamed by f.
Image(view, f) ==
    {<<f[e[1]], e[2], {f[k] : k \in e[3] \cap DOMAIN f}>> : e \in view}

\* The subtrees of o and p say the same, object by object.
Alike(o, p) ==
    \E f \in [Below(o) -> Below(p)] : f[o] = p /\ Image(View(o), f) = View(p)

(***************************************************************************)
(* What marshall() returns is the content of the object and of everything  *)
(* below it at the time of the call, whatever DOM was cached before        *)
(* (XMLObject.h, marshall).                                                *)
(***************************************************************************)
MarshallCurrent ==
    out # Null /\ out.call = "marshall" => out.view = View(out.of)

(***************************************************************************)
(* A clone says what the original says, and shares no object with it       *)
(* (XMLObject.h, clone).                                                   *)
(***************************************************************************)
CloneAlike ==
    out # Null /\ out.call = "clone" =>
        Alike(out.of, out.to) /\ Below(out.of) \cap Below(out.to) = {}
=============================================================================
