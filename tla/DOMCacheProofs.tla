--------------------------- MODULE DOMCacheProofs ---------------------------
(***************************************************************************)
(* Proofs about DOMCache, for any number of objects, documents and values, *)
(* and, at the end, about UnknownElement, which shares nothing with it.    *)
(***************************************************************************)
EXTENDS DOMCache, UnknownElement, TLAPS

(***************************************************************************)
(* The subtree of a node, for any forest.                                  *)
(***************************************************************************)
LEMMA SubtreeRoot ==
    ASSUME NEW L, NEW above, NEW o \in L
    PROVE  o \in Subtree(L, above, o)
BY DEF Subtree

LEMMA SubtreeClosed ==
    ASSUME NEW L, NEW above, NEW o, NEW c \in L, above[c] \in Subtree(L, above, o)
    PROVE  c \in Subtree(L, above, o)
BY DEF Subtree

LEMMA SubtreeLeast ==
    ASSUME NEW L, NEW above, NEW o, NEW S \in SUBSET L, o \in S,
           \A c \in L : above[c] \in S => c \in S
    PROVE  Subtree(L, above, o) \subseteq S
BY DEF Subtree

\* What is below a node below o is below o.
LEMMA SubtreeTrans ==
    ASSUME NEW L, NEW above, NEW o, NEW x \in Subtree(L, above, o)
    PROVE  Subtree(L, above, x) \subseteq Subtree(L, above, o)
<1>1. Subtree(L, above, o) \in SUBSET L
  BY DEF Subtree
<1>2. \A c \in L : above[c] \in Subtree(L, above, o) => c \in Subtree(L, above, o)
  BY SubtreeClosed
<1>. QED BY <1>1, <1>2, SubtreeLeast

\* A node below o that is not o has its parent below o.
LEMMA SubtreeParent ==
    ASSUME NEW L, NEW above, NEW o \in L, NEW x \in Subtree(L, above, o), x # o
    PROVE  above[x] \in Subtree(L, above, o)
<1>. DEFINE S == {y \in Subtree(L, above, o) : y = o \/ above[y] \in Subtree(L, above, o)}
<1>1. S \in SUBSET L
  BY DEF Subtree
<1>2. o \in Subtree(L, above, o)
  BY SubtreeRoot
<1>3. \A c \in L : above[c] \in S => c \in S
  BY SubtreeClosed
<1>4. o \in S
  BY <1>2
<1>5. Subtree(L, above, o) \subseteq S
  <2>. HIDE DEF S
  <2>. QED BY <1>1, <1>3, <1>4, SubtreeLeast
<1>. QED BY <1>5

\* When the parents that stay keep their children, subtrees do not shrink.
LEMMA SubtreeGrows ==
    ASSUME NEW L, NEW above, NEW M, NEW over, NEW a \in L, a \in M,
           \A k \in L : above[k] \in M => k \in M /\ over[k] = above[k]
    PROVE  Subtree(L, above, a) \subseteq Subtree(M, over, a)
<1>. SUFFICES ASSUME NEW x \in Subtree(L, above, a)
              PROVE  x \in Subtree(M, over, a)
  OBVIOUS
<1>1. ASSUME NEW T \in SUBSET M, a \in T, \A c \in M : over[c] \in T => c \in T
      PROVE  x \in T
  <2>1. \A c \in L : above[c] \in T \cap L => c \in T \cap L
    BY <1>1
  <2>2. T \cap L \in SUBSET L /\ a \in T \cap L
    BY <1>1
  <2>. QED BY <2>1, <2>2 DEF Subtree
<1>2. M \in SUBSET M /\ a \in M /\ \A c \in M : over[c] \in M => c \in M
  OBVIOUS
<1>. QED BY <1>1, <1>2 DEF Subtree

\* When what goes is a set S with all that is below it, the rest of a subtree
\* stays.
LEMMA SubtreePruned ==
    ASSUME NEW L, NEW above, NEW M, NEW over, NEW S, NEW a \in M,
           M = L \ S,
           \A k \in L : above[k] \in S => k \in S,
           \A k \in M : above[k] \in M => over[k] = above[k],
           NEW x \in Subtree(L, above, a), x \notin S
    PROVE  x \in Subtree(M, over, a)
<1>1. ASSUME NEW T \in SUBSET M, a \in T, \A c \in M : over[c] \in T => c \in T
      PROVE  x \in T
  <2>. DEFINE T2 == (T \cup S) \cap L
  <2>1. \A c \in L : above[c] \in T2 => c \in T2
    BY <1>1
  <2>2. T2 \in SUBSET L /\ a \in T2
    BY <1>1
  <2>3. x \in T2
    BY <2>1, <2>2 DEF Subtree
  <2>. QED BY <2>3
<1>2. x \in M
  BY DEF Subtree
<1>. QED BY <1>1, <1>2 DEF Subtree

(***************************************************************************)
(* Renderings and caches have the right type.                              *)
(***************************************************************************)
LEMMA CacheTypes ==
    ASSUME NEW cache \in Caches, NEW R
    PROVE  /\ NoDOM \in DOMs
           /\ Without(cache, R) \in Caches
           /\ Null \notin R => Dangle(cache, R) \in Caches
<1>1. NoDOM \in DOMs
  BY DEF NoDOM, DOMs, Views
<1>2. Without(cache, R) \in Caches
  BY <1>1 DEF Without, Caches
<1>3. ASSUME NEW o \in Obj
      PROVE  /\ [cache[o] EXCEPT !.doc = Freed] \in DOMs
             /\ [cache[o] EXCEPT !.doc = Freed].view = cache[o].view
  BY DEF DOMs, Caches
<1>4. ASSUME Null \notin R PROVE Dangle(cache, R) \in Caches
  <2>1. Dangle(cache, R) \in [Obj -> DOMs]
    BY <1>3 DEF Dangle, Caches
  <2>2. ASSUME NEW o \in Obj, Dangle(cache, R)[o] # NoDOM
        PROVE  o \in Named(Dangle(cache, R)[o].view)
    <3>1. cache[o] # NoDOM
      BY <1>4, <2>2 DEF Dangle, NoDOM
    <3>. QED BY <1>3, <3>1 DEF Dangle, Caches
  <2>. QED BY <2>1, <2>2 DEF Caches
<1>. QED BY <1>1, <1>2, <1>4

LEMMA RenderingType ==
    ASSUME TypeOK, NEW o, NEW d, NEW x
    PROVE  Rendering(o, d, x) \in Views
<1>1. Rebuilt(o, d) \subseteq live /\ Reused(o, d) \subseteq Obj
  BY DEF Rebuilt, Reused, TopDOM, Below, Subtree, TypeOK
<1>2. \A y \in live : <<y, value[y], Kids(y)>> \in Obj \X Value \X SUBSET Obj
  BY DEF TypeOK, Kids
<1>3. \A y \in Obj : dom[y].view \in Views
  BY DEF TypeOK, DOMs, Caches
<1>. QED BY <1>1, <1>2, <1>3 DEF Rendering, Views

LEMMA BuildDOMType ==
    ASSUME TypeOK, NEW o, NEW d \in LibDoc \cup CallerDoc
    PROVE  BuildDOM(o, d) \in Caches
<1>. DEFINE new(x) == [doc |-> d, view |-> Rendering(o, d, x)]
<1>1. ASSUME NEW x \in Obj PROVE new(x) \in DOMs
  BY RenderingType DEF DOMs
<1>2. ASSUME NEW x \in Rebuilt(o, d) PROVE x \in Named(new(x).view)
  <2>1. x \in Below(x)
    BY SubtreeRoot DEF Rebuilt, Below, Subtree
  <2>2. <<x, value[x], Kids(x)>> \in Rendering(o, d, x)
    BY <2>1 DEF Rendering
  <2>. QED BY <2>2 DEF Named
<1>3. dom \in Caches
  BY DEF TypeOK
<1>. HIDE DEF new
<1>4. BuildDOM(o, d) = [x \in Obj |-> IF x \in Rebuilt(o, d) THEN new(x) ELSE dom[x]]
  BY DEF BuildDOM, new
<1>. QED BY <1>1, <1>2, <1>3, <1>4 DEF Caches

LEMMA AfterThrowType ==
    ASSUME TypeOK, NEW o, NEW d \in LibDoc \cup CallerDoc, NEW f, NEW K
    PROVE  AfterThrow(o, d, f, K) \in Caches
<1>1. BuildDOM(o, d) \in Caches /\ dom \in Caches
  BY BuildDOMType DEF TypeOK
<1>2. NoDOM \in DOMs
  BY DEF NoDOM, DOMs, Views
<1>. QED BY <1>1, <1>2 DEF AfterThrow, Caches

(***************************************************************************)
(* Type correctness, action by action.                                     *)
(***************************************************************************)

\* A cache that says nothing of the objects that do not exist.
Clean(cache) == cache \in Caches /\ \A o \in Obj \ live : cache[o] = NoDOM

LEMMA CleanWithout ==
    ASSUME TypeOK, NEW R
    PROVE  Clean(dom) /\ Clean(Without(dom, R))
BY CacheTypes DEF Clean, TypeOK, Without

\* What the three variables of the tree become when the objects of S go.
LEMMA ForgetType ==
    ASSUME NullAssumption, TypeOK, NEW S, NEW keep,
           \A o \in live \ S : keep[o] \in (live \ S) \cup {Null},
           \A o \in Obj \ live : keep[o] = Null,
           Forget(S, keep)
    PROVE  /\ live' \subseteq Obj
           /\ parent' \in [Obj -> live' \cup {Null}]
           /\ value' \in [Obj -> Value \cup {Null}]
           /\ \A o \in live' : value'[o] \in Value
           /\ \A o \in Obj \ live' : parent'[o] = Null /\ value'[o] = Null
<1>1. live' = live \ S
  BY DEF Forget
<1>2. parent' = [o \in Obj |-> IF o \in S THEN Null ELSE keep[o]]
  BY DEF Forget
<1>3. value' = [o \in Obj |-> IF o \in S THEN Null ELSE value[o]]
  BY DEF Forget
<1>4. live' \subseteq Obj
  BY <1>1 DEF TypeOK
<1>5. parent' \in [Obj -> live' \cup {Null}]
  BY <1>1, <1>2
<1>6. value' \in [Obj -> Value \cup {Null}]
  BY <1>3 DEF TypeOK
<1>7. \A o \in live' : value'[o] \in Value
  BY <1>1, <1>3, <1>4 DEF TypeOK
<1>8. \A o \in Obj \ live' : parent'[o] = Null /\ value'[o] = Null
  BY <1>1, <1>2, <1>3 DEF TypeOK
<1>. QED BY <1>4, <1>5, <1>6, <1>7, <1>8

LEMMA DestroyType ==
    ASSUME TypeOK, NEW S, NEW cache, Clean(cache), Destroy(S, cache), live' = live \ S
    PROVE  /\ dom' \in Caches
           /\ mdoc' \in [Obj -> LibDoc \cup {Null}]
           /\ docs' \subseteq LibDoc
           /\ \A o \in Obj \ live' : dom'[o] = NoDOM /\ mdoc'[o] = Null
<1>. DEFINE gone == {mdoc[x] : x \in S} \ {Null}
<1>1. dom' = Dangle(Without(cache, S), gone)
  BY DEF Destroy
<1>2. dom' \in Caches
  BY <1>1, CacheTypes DEF Clean
<1>3. \A o \in Obj \ live' : dom'[o] = NoDOM
  <2>1. \A o \in Obj \ live' : Without(cache, S)[o] = NoDOM
    BY DEF Without, Clean
  <2>2. NoDOM.doc \notin gone
    BY DEF NoDOM
  <2>. QED BY <1>1, <2>1, <2>2 DEF Dangle
<1>4. mdoc' = [o \in Obj |-> IF o \in S THEN Null ELSE mdoc[o]]
  BY DEF Destroy
<1>5. docs' \subseteq LibDoc
  BY DEF Destroy, TypeOK
<1>6. mdoc' \in [Obj -> LibDoc \cup {Null}]
  BY <1>4 DEF TypeOK
<1>7. \A o \in Obj \ live' : mdoc'[o] = Null
  BY <1>4 DEF TypeOK
<1>. QED BY <1>2, <1>3, <1>5, <1>6, <1>7

\* The parent of what stays stays, when a subtree goes.
LEMMA KeepRest ==
    ASSUME NullAssumption, TypeOK, NEW o \in live
    PROVE  \A x \in live \ Below(o) : parent[x] \in (live \ Below(o)) \cup {Null}
<1>1. \A x \in live : parent[x] \in Below(o) => x \in Below(o)
  BY SubtreeClosed DEF Below
<1>. QED BY <1>1 DEF TypeOK

LEMMA NoResult ==
    ASSUME out' = Null
    PROVE  (out \in Results \cup {Null})'
OBVIOUS

LEMMA NewObjectType ==
    ASSUME NullAssumption, TypeOK, NEW o \in Obj, NEW v \in Value, NewObject(o, v)
    PROVE  TypeOK'
<1>. USE DEF NewObject, Build, TypeOK
<1>1. live' \subseteq Obj /\ out' = Null
  OBVIOUS
<1>2. parent' \in [Obj -> live' \cup {Null}]
  OBVIOUS
<1>3. value' \in [Obj -> Value \cup {Null}]
  OBVIOUS
<1>4. \A x \in live' : value'[x] \in Value
  OBVIOUS
<1>5. \A x \in Obj \ live' : parent'[x] = Null /\ value'[x] = Null
  OBVIOUS
<1>. QED BY <1>1, <1>2, <1>3, <1>4, <1>5

LEMMA AssignValueType ==
    ASSUME NullAssumption, TypeOK, NEW o \in Obj, NEW v \in Value, AssignValue(o, v)
    PROVE  TypeOK'
<1>1. dom' = Without(dom, ThisAndParents(o))
  BY DEF AssignValue
<1>2. Clean(dom')
  BY <1>1, CleanWithout
<1>. QED BY <1>2 DEF AssignValue, SetValue, TypeOK, Clean

\* A child is added: the release of DOMs apart, only its m_parent changes.
LEMMA AddChildType ==
    ASSUME NullAssumption, TypeOK, NEW p \in live, NEW c \in live, NEW R,
           AddChild(p, c), dom' = Without(dom, R), UNCHANGED <<mdoc, docs>>
    PROVE  TypeOK'
<1>1. Clean(dom')
  BY CleanWithout
<1>2. c \in Obj /\ p # Null
  BY DEF TypeOK, NullAssumption
<1>3. parent' \in [Obj -> live' \cup {Null}]
  BY DEF AddChild, TypeOK
<1>. QED BY <1>1, <1>2, <1>3 DEF AddChild, TypeOK, Clean

\* A subtree goes.
LEMMA RemoveType ==
    ASSUME NullAssumption, TypeOK, NEW o \in live, NEW R,
           Forget(Below(o), parent), out' = Null, Destroy(Below(o), Without(dom, R))
    PROVE  TypeOK'
<1>1. \A x \in live \ Below(o) : parent[x] \in (live \ Below(o)) \cup {Null}
  BY KeepRest
<1>2. \A x \in Obj \ live : parent[x] = Null
  BY DEF TypeOK
<1>3. live' = live \ Below(o)
  BY DEF Forget
<1>4. /\ live' \subseteq Obj
      /\ parent' \in [Obj -> live' \cup {Null}]
      /\ value' \in [Obj -> Value \cup {Null}]
      /\ \A x \in live' : value'[x] \in Value
      /\ \A x \in Obj \ live' : parent'[x] = Null /\ value'[x] = Null
  BY <1>1, <1>2, ForgetType
<1>5. Clean(Without(dom, R))
  BY CleanWithout
<1>6. /\ dom' \in Caches
      /\ mdoc' \in [Obj -> LibDoc \cup {Null}]
      /\ docs' \subseteq LibDoc
      /\ \A x \in Obj \ live' : dom'[x] = NoDOM /\ mdoc'[x] = Null
  BY <1>3, <1>5, DestroyType
<1>. QED BY <1>4, <1>6 DEF TypeOK

\* One child is replaced by another.
LEMMA ReassignChildType ==
    ASSUME NullAssumption, TypeOK, NEW p \in live, NEW old \in live, NEW new \in live,
           ReassignChild(p, old, new)
    PROVE  TypeOK'
<1>. DEFINE keep == [parent EXCEPT ![new] = p]
<1>1. /\ p \notin Below(old) /\ Forget(Below(old), keep) /\ out' = Null
      /\ Destroy(Below(old), Without(dom, ThisAndParents(p)))
  BY DEF ReassignChild, ReplaceChild
<1>2. \A x \in live \ Below(old) : keep[x] \in (live \ Below(old)) \cup {Null}
  BY <1>1, KeepRest DEF TypeOK
<1>3. \A x \in Obj \ live : keep[x] = Null
  BY DEF TypeOK
<1>5. live' = live \ Below(old)
  BY <1>1 DEF Forget
<1>6. /\ live' \subseteq Obj
      /\ parent' \in [Obj -> live' \cup {Null}]
      /\ value' \in [Obj -> Value \cup {Null}]
      /\ \A x \in live' : value'[x] \in Value
      /\ \A x \in Obj \ live' : parent'[x] = Null /\ value'[x] = Null
  <2>. HIDE DEF keep
  <2>. QED BY <1>1, <1>2, <1>3, ForgetType
<1>7. Clean(Without(dom, ThisAndParents(p)))
  BY CleanWithout
<1>8. /\ dom' \in Caches
      /\ mdoc' \in [Obj -> LibDoc \cup {Null}]
      /\ docs' \subseteq LibDoc
      /\ \A x \in Obj \ live' : dom'[x] = NoDOM /\ mdoc'[x] = Null
  BY <1>1, <1>5, <1>7, DestroyType
<1>. QED BY <1>1, <1>6, <1>8 DEF TypeOK

\* A child of a root takes the document of its parent over.
LEMMA DetachChildType ==
    ASSUME NullAssumption, DOMAssumption, TypeOK, NEW c \in live, DetachChild(c)
    PROVE  TypeOK'
<1>. DEFINE p == parent[c]
            S == Below(p) \ Below(c)
            keep == [parent EXCEPT ![c] = Null]
            taken == mdoc[p]
            dropped == IF taken = Null THEN {} ELSE {mdoc[c]} \ {Null}
            lost == ({mdoc[x] : x \in Below(p) \ (Below(c) \cup {p})} \ {Null}) \cup dropped
<1>1. /\ p \in live /\ Forget(S, keep) /\ out' = Null
      /\ mdoc' = [o \in Obj |-> IF o \in S THEN Null
                                ELSE IF o = c /\ taken # Null THEN taken
                                ELSE mdoc[o]]
      /\ docs' = docs \ lost
      /\ dom' = Dangle(Without(dom, S), lost)
  BY DEF DetachChild, Detach, IsRoot
<1>2. \A x \in live \ S : keep[x] \in (live \ S) \cup {Null}
  <2>1. SUFFICES ASSUME NEW x \in live \ S, x # c, parent[x] \in S
                 PROVE  FALSE
    BY DEF TypeOK
  <2>2. x \in Below(p)
    BY <2>1, SubtreeClosed DEF Below
  <2>3. x \in Below(c)
    BY <2>2
  <2>4. parent[x] \in Below(c)
    BY <2>1, <2>3, SubtreeParent DEF Below
  <2>. QED BY <2>1, <2>4
<1>3. \A x \in Obj \ live : keep[x] = Null
  BY DEF TypeOK
<1>4. live' = live \ S
  BY <1>1 DEF Forget
<1>5. /\ live' \subseteq Obj
      /\ parent' \in [Obj -> live' \cup {Null}]
      /\ value' \in [Obj -> Value \cup {Null}]
      /\ \A x \in live' : value'[x] \in Value
      /\ \A x \in Obj \ live' : parent'[x] = Null /\ value'[x] = Null
  <2>. HIDE DEF keep, S
  <2>. QED BY <1>1, <1>2, <1>3, ForgetType
<1>6. Clean(Without(dom, S))
  BY CleanWithout
<1>7. dom' \in Caches
  BY <1>1, <1>6, CacheTypes DEF Clean
<1>8. \A x \in Obj \ live' : dom'[x] = NoDOM
  <2>1. \A x \in Obj \ live' : Without(dom, S)[x] = NoDOM
    BY <1>4, <1>6 DEF Without, Clean
  <2>2. NoDOM.doc \notin lost
    BY DEF NoDOM
  <2>. QED BY <1>1, <2>1, <2>2 DEF Dangle
<1>9. mdoc' \in [Obj -> LibDoc \cup {Null}] /\ docs' \subseteq LibDoc
  <2>1. p \in Obj
    BY <1>1 DEF TypeOK
  <2>. QED BY <1>1, <2>1 DEF TypeOK
<1>10. \A x \in Obj \ live' : mdoc'[x] = Null
  <2>1. c \in live'
    BY <1>4, SubtreeRoot DEF Below
  <2>. QED BY <1>1, <1>4, <2>1 DEF TypeOK
<1>. QED BY <1>1, <1>5, <1>7, <1>8, <1>9, <1>10 DEF TypeOK

\* The tree stays as it is; the caches and the documents get new values.
LEMMA CacheOnlyType ==
    ASSUME TypeOK, NEW cache, Clean(cache), dom' = cache,
           UNCHANGED <<live, parent, value>>,
           out' \in Results \cup {Null},
           mdoc' \in [Obj -> LibDoc \cup {Null}],
           \A x \in Obj \ live : mdoc'[x] = Null,
           docs' \subseteq LibDoc
    PROVE  TypeOK'
BY DEF TypeOK, Clean, Results

LEMMA ReleaseType ==
    ASSUME TypeOK, NEW R, Release(R)
    PROVE  TypeOK'
<1>1. Clean(Without(dom, R))
  BY CleanWithout
<1>2. mdoc' \in [Obj -> LibDoc \cup {Null}] /\ docs' \subseteq LibDoc
  BY DEF TypeOK, Release
<1>3. \A x \in Obj \ live : mdoc'[x] = Null
  BY DEF TypeOK, Release
<1>. QED BY <1>1, <1>2, <1>3, CacheOnlyType DEF Release, Silent

LEMMA MarshallCachedType ==
    ASSUME TypeOK, NEW o \in live, MarshallCached(o)
    PROVE  TypeOK'
<1>1. Clean(Without(dom, ParentsReleased(o)))
  BY CleanWithout
<1>2. out' \in Results
  <2>1. dom[o].view \in Views
    <3>1. o \in Obj /\ dom \in [Obj -> DOMs]
      BY DEF TypeOK, Caches
    <3>. QED BY <3>1 DEF DOMs
  <2>. QED BY <2>1 DEF MarshallCached, Results
<1>3. mdoc' \in [Obj -> LibDoc \cup {Null}] /\ docs' \subseteq LibDoc
  BY DEF TypeOK, MarshallCached
<1>4. \A x \in Obj \ live : mdoc'[x] = Null
  BY DEF TypeOK, MarshallCached
<1>5. Clean(dom)
  BY DEF TypeOK, Clean
<1>6. Clean(dom')
  BY <1>1, <1>5 DEF MarshallCached
<1>7. UNCHANGED <<live, parent, value>>
  BY DEF MarshallCached
<1>. QED BY <1>2, <1>3, <1>4, <1>6, <1>7, CacheOnlyType

\* Only objects that exist are given a DOM.
LEMMA BuildDOMClean ==
    ASSUME TypeOK, NEW o, NEW d \in LibDoc \cup CallerDoc, NEW R, NEW D, Null \notin D
    PROVE  /\ Clean(BuildDOM(o, d))
           /\ Clean(Without(BuildDOM(o, d), R))
           /\ Clean(Dangle(Without(BuildDOM(o, d), R), D))
<1>1. Clean(BuildDOM(o, d))
  <2>1. Rebuilt(o, d) \subseteq live
    BY DEF Rebuilt, Below, Subtree
  <2>. QED BY <2>1, BuildDOMType DEF BuildDOM, TypeOK, Clean
<1>2. Clean(Without(BuildDOM(o, d), R))
  BY <1>1, CacheTypes DEF Clean, Without
<1>3. ASSUME NEW cache, Clean(cache) PROVE Clean(Dangle(cache, D))
  <2>1. NoDOM.doc \notin D
    BY DEF NoDOM
  <2>. QED BY <1>3, <2>1, CacheTypes DEF Clean, Dangle
<1>. QED BY <1>1, <1>2, <1>3

LEMMA MarshallResult ==
    ASSUME TypeOK, NEW o \in live, NEW d,
           out' = [call |-> "marshall", of |-> o, view |-> Rendering(o, d, o)]
    PROVE  out' \in Results
BY RenderingType DEF Results

LEMMA MarshallNewType ==
    ASSUME TypeOK, NEW o \in live, NEW d \in LibDoc \cup CallerDoc, MarshallNew(o, d)
    PROVE  TypeOK'
<1>1. Null \notin {mdoc[o]} \ {Null}
  OBVIOUS
<1>2. Clean(Dangle(Without(BuildDOM(o, d), ParentsReleased(o)), {mdoc[o]} \ {Null}))
  BY <1>1, BuildDOMClean
<1>3. out' \in Results
  BY MarshallResult DEF MarshallNew
<1>4. mdoc' \in [Obj -> LibDoc \cup {Null}] /\ docs' \subseteq LibDoc
  BY DEF TypeOK, MarshallNew
<1>5. \A x \in Obj \ live : mdoc'[x] = Null
  BY DEF TypeOK, MarshallNew
<1>. QED BY <1>2, <1>3, <1>4, <1>5, CacheOnlyType DEF MarshallNew

LEMMA MarshallIntoType ==
    ASSUME TypeOK, NEW o \in live, NEW d \in LibDoc \cup CallerDoc, MarshallInto(o, d)
    PROVE  TypeOK'
<1>1. Clean(Without(BuildDOM(o, d), ParentsReleased(o)))
  BY BuildDOMClean, Null \notin {}
<1>2. out' \in Results
  BY MarshallResult DEF MarshallInto
<1>3. mdoc' \in [Obj -> LibDoc \cup {Null}] /\ docs' \subseteq LibDoc
  BY DEF TypeOK, MarshallInto
<1>4. \A x \in Obj \ live : mdoc'[x] = Null
  BY DEF TypeOK, MarshallInto
<1>. QED BY <1>1, <1>2, <1>3, <1>4, CacheOnlyType DEF MarshallInto

LEMMA MarshallThrowsType ==
    ASSUME DOMAssumption, TypeOK, NEW o \in live, MarshallThrows(o)
    PROVE  TypeOK'
<1>1. PICK f \in Below(o) : \E K \in Siblings(o, f), d \in LibDoc \cup CallerDoc :
               ThrowNew(o, d, f, K) \/ ThrowInto(o, d, f, K)
  BY DEF MarshallThrows
<1>2. PICK K \in Siblings(o, f), d \in LibDoc \cup CallerDoc :
               ThrowNew(o, d, f, K) \/ ThrowInto(o, d, f, K)
  BY <1>1
<1>. DEFINE cache == AfterThrow(o, d, f, K)
<1>3. Clean(cache)
  <2>1. cache \in Caches
    BY AfterThrowType
  <2>2. Clean(BuildDOM(o, d))
    BY BuildDOMClean, Null \notin {}
  <2>3. \A x \in Obj \ live : dom[x] = NoDOM
    BY DEF TypeOK
  <2>. QED BY <2>1, <2>2, <2>3 DEF AfterThrow, Clean
<1>4. Clean(Dangle(cache, {d}))
  <2>1. NoDOM.doc \notin {d}
    BY DEF NoDOM, DOMAssumption
  <2>2. cache \in Caches
    BY AfterThrowType
  <2>3. Dangle(cache, {d}) \in Caches
    BY <2>2, CacheTypes
  <2>. HIDE DEF cache
  <2>. QED BY <1>3, <2>1, <2>3 DEF Clean, Dangle
<1>5. dom' = cache \/ dom' = Dangle(cache, {d})
  BY <1>2 DEF ThrowNew, ThrowInto
<1>6. Clean(dom')
  BY <1>3, <1>4, <1>5
<1>7. mdoc' \in [Obj -> LibDoc \cup {Null}] /\ docs' \subseteq LibDoc
  BY DEF TypeOK, MarshallThrows
<1>8. \A x \in Obj \ live : mdoc'[x] = Null
  BY DEF TypeOK, MarshallThrows
<1>. QED BY <1>6, <1>7, <1>8, CacheOnlyType DEF MarshallThrows, Silent
\* A subtree read from a document caches it object by object.
LEMMA UnmarshallNewType ==
    ASSUME TypeOK, NEW S \in SUBSET Obj, NEW r \in S, NEW above \in Shapes(r, S),
           NEW content \in [S -> Value], NEW d \in LibDoc,
           UnmarshallNew(r, S, above, content, d)
    PROVE  TypeOK'
<1>. DEFINE parsed == {<<x, content[x], {c \in S : above[c] = x}>> : x \in S}
            cached(x) == [doc |-> d, view |-> SubView(parsed, x)]
<1>1. /\ live' = live \cup S
      /\ parent' = [o \in Obj |-> IF o \in S THEN above[o] ELSE parent[o]]
      /\ value' = [o \in Obj |-> IF o \in S THEN content[o] ELSE value[o]]
      /\ out' = Null
      /\ docs' = docs \cup {d}
      /\ mdoc' = [mdoc EXCEPT ![r] = d]
      /\ dom' = [x \in Obj |-> IF x \in S THEN cached(x) ELSE dom[x]]
  BY DEF UnmarshallNew, Unmarshall
<1>2. above \in [S -> S \cup {Null}]
  BY DEF Shapes
<1>3. parsed \in Views
  BY DEF Views
<1>4. \A x \in S : cached(x) \in DOMs /\ x \in Named(cached(x).view)
  <2>. SUFFICES ASSUME NEW x \in S
                PROVE  cached(x) \in DOMs /\ x \in Named(cached(x).view)
    OBVIOUS
  <2>1. SubView(parsed, x) \in Views
    BY <1>3 DEF SubView, Views
  <2>2. cached(x) \in DOMs
    BY <2>1 DEF DOMs
  <2>3. <<x, content[x], {c \in S : above[c] = x}>> \in SubView(parsed, x)
    BY DEF SubView
  <2>. HIDE DEF parsed
  <2>4. x \in Named(SubView(parsed, x))
    BY <2>3 DEF Named
  <2>. QED BY <2>2, <2>4
<1>. HIDE DEF parsed, cached
<1>5. dom' \in Caches
  <2>1. dom' \in [Obj -> DOMs]
    BY <1>1, <1>4 DEF TypeOK, Caches
  <2>2. \A x \in Obj : dom'[x] # NoDOM => x \in Named(dom'[x].view)
    BY <1>1, <1>4 DEF TypeOK, Caches
  <2>. QED BY <2>1, <2>2 DEF Caches
<1>6. live' \subseteq Obj /\ parent' \in [Obj -> live' \cup {Null}]
  BY <1>1, <1>2 DEF TypeOK
<1>7. value' \in [Obj -> Value \cup {Null}] /\ \A o \in live' : value'[o] \in Value
  BY <1>1 DEF TypeOK
<1>8. mdoc' \in [Obj -> LibDoc \cup {Null}] /\ docs' \subseteq LibDoc
  BY <1>1 DEF TypeOK
<1>9. \A o \in Obj \ live' :
          parent'[o] = Null /\ value'[o] = Null /\ dom'[o] = NoDOM /\ mdoc'[o] = Null
  BY <1>1 DEF TypeOK
<1>. QED BY <1>1, <1>5, <1>6, <1>7, <1>8, <1>9 DEF TypeOK
-----------------------------------------------------------------------------
(***************************************************************************)
(* Cloning.                                                                *)
(***************************************************************************)
LEMMA CloneViewType ==
    ASSUME TypeOK, NEW o \in live
    PROVE  CloneView(o) \in Views /\ o \in Named(CloneView(o))
<1>. DEFINE children(y) == IF AnyClass THEN {} ELSE Kids(y)
            byHand == {<<y, value[y], children(y)>> : y \in CopiedByHand(o)}
            byDOM == UNION {dom[y].view : y \in CopiedByDOM(o)}
<1>1. CloneView(o) = byHand \cup byDOM
  BY DEF CloneView
<1>2. live \subseteq Obj
  BY DEF TypeOK
<1>3. CopiedByHand(o) \subseteq live /\ CopiedByDOM(o) \subseteq live
  BY DEF CopiedByHand, CopiedByDOM, TopDOM, Below, Subtree
<1>4. byHand \in Views
  <2>1. \A y \in CopiedByHand(o) : children(y) \in SUBSET Obj
    BY <1>2 DEF Kids
  <2>2. \A y \in CopiedByHand(o) : y \in Obj /\ value[y] \in Value
    BY <1>2, <1>3 DEF TypeOK
  <2>. HIDE DEF children
  <2>. QED BY <2>1, <2>2 DEF Views
<1>5. byDOM \in Views
  <2>1. \A y \in Obj : dom[y] \in DOMs
    BY DEF TypeOK, Caches
  <2>2. \A y \in CopiedByDOM(o) : dom[y].view \in Views
    BY <1>2, <1>3, <2>1 DEF DOMs
  <2>. QED BY <2>2 DEF Views
<1>6. o \in Named(CloneView(o))
  <2>1. CASE HasDOM(o)
    <3>2. o \in CopiedByDOM(o)
      BY <2>1 DEF CopiedByDOM
    <3>3. o \in Named(dom[o].view)
      BY <1>2, <2>1 DEF TypeOK, Caches, HasDOM
    <3>4. dom[o].view \subseteq CloneView(o)
      BY <1>1, <3>2
    <3>. QED BY <3>3, <3>4 DEF Named
  <2>2. CASE ~HasDOM(o)
    <3>1. o \in CopiedByHand(o)
      <4>1. o \in Subtree({x \in live : ~HasDOM(x)}, parent, o)
        BY <2>2, SubtreeRoot
      <4>. QED BY <2>2, <4>1 DEF CopiedByHand
    <3>2. <<o, value[o], children(o)>> \in CloneView(o)
      BY <1>1, <3>1
    <3>. QED BY <3>2 DEF Named
  <2>. QED BY <2>1, <2>2
<1>. QED BY <1>1, <1>4, <1>5, <1>6 DEF Views
\* The copies are new objects with the content of their originals.
LEMMA CopyType ==
    ASSUME TypeOK, NEW view \in Views, NEW f \in Fresh(view), Copy(view, f)
    PROVE  /\ live' = live \cup {f[k] : k \in Named(view)}
           /\ live' \subseteq Obj
           /\ parent' \in [Obj -> live' \cup {Null}]
           /\ value' \in [Obj -> Value \cup {Null}]
           /\ \A x \in live' : value'[x] \in Value
           /\ \A x \in Obj \ live' : parent'[x] = Null /\ value'[x] = Null
<1>. DEFINE copies == {f[k] : k \in Named(view)}
            original(x) == CHOOSE k \in Named(view) : f[k] = x
            above(k) == IF k = Null THEN Null ELSE f[k]
            lifted(x) == above(ParentIn(view, original(x)))
            content(x) == ValueIn(view, original(x))
<1>1. /\ live' = live \cup copies
      /\ parent' = [x \in Obj |-> IF x \in copies THEN lifted(x) ELSE parent[x]]
      /\ value' = [x \in Obj |-> IF x \in copies THEN content(x) ELSE value[x]]
  BY DEF Copy
<1>2. copies \subseteq Obj
  BY DEF Fresh
<1>3. \A x \in copies : original(x) \in Named(view)
  OBVIOUS
<1>4. \A k : ParentIn(view, k) \in Named(view) \cup {Null}
  BY DEF ParentIn, Named
<1>5. \A k \in Named(view) : ValueIn(view, k) \in Value
  BY DEF ValueIn, Named, Views
<1>6. \A x \in copies : lifted(x) \in copies \cup {Null}
  BY <1>4
<1>7. \A x \in copies : content(x) \in Value
  BY <1>3, <1>5
<1>. HIDE DEF copies, original, above, lifted, content
<1>8. live' \subseteq Obj
  BY <1>1, <1>2 DEF TypeOK
<1>9. parent' \in [Obj -> live' \cup {Null}]
  BY <1>1, <1>6 DEF TypeOK
<1>10. value' \in [Obj -> Value \cup {Null}] /\ \A x \in live' : value'[x] \in Value
  BY <1>1, <1>2, <1>7 DEF TypeOK
<1>11. \A x \in Obj \ live' : parent'[x] = Null /\ value'[x] = Null
  BY <1>1 DEF TypeOK
<1>. QED BY <1>1, <1>8, <1>9, <1>10, <1>11 DEF copies

\* A rendering, renamed, shows the new name of what it showed.
LEMMA ImageType ==
    ASSUME NEW view \in Views, NEW whole, view \subseteq whole,
           NEW f \in [Named(whole) -> Obj], NEW k \in Named(view)
    PROVE  Image(SubView(view, k), f) \in Views
           /\ f[k] \in Named(Image(SubView(view, k), f))
<1>1. SubView(view, k) \subseteq view
  BY DEF SubView
<1>2. \A e \in view : e[1] \in Named(whole)
  BY DEF Named
<1>3. \A e \in SubView(view, k) : f[e[1]] \in Obj /\ e[2] \in Value
  BY <1>1, <1>2 DEF Views
<1>4. \A e : {f[j] : j \in e[3] \cap DOMAIN f} \in SUBSET Obj
  OBVIOUS
<1>5. Image(SubView(view, k), f) \in Views
  BY <1>3, <1>4 DEF Image, Views
<1>6. PICK e \in view : e[1] = k
  BY DEF Named
<1>7. e \in SubView(view, k)
  BY <1>6 DEF SubView
<1>8. <<f[e[1]], e[2], {f[j] : j \in e[3] \cap DOMAIN f}>> \in Image(SubView(view, k), f)
  BY <1>7 DEF Image
<1>9. f[k] \in Named(Image(SubView(view, k), f))
  <2>. DEFINE image == Image(SubView(view, k), f)
              entry == <<f[e[1]], e[2], {f[j] : j \in e[3] \cap DOMAIN f}>>
  <2>1. entry \in image /\ entry[1] = f[k]
    BY <1>6, <1>8
  <2>. HIDE DEF image, entry
  <2>2. f[k] \in Named(image)
    BY <2>1 DEF Named
  <2>. QED BY <2>2 DEF image
<1>. QED BY <1>5, <1>9

LEMMA CloneTreeType ==
    ASSUME TypeOK, NEW o \in live, CloneTree(o)
    PROVE  TypeOK'
<1>. DEFINE view == CloneView(o)
            roots == CopiedByDOM(o)
<1>1. PICK f \in Fresh(view), bound \in [roots -> LibDoc \ docs] :
      /\ Copy(view, f)
      /\ out' = [call |-> "clone", of |-> o, to |-> f[o]]
      /\ docs' = docs \cup {bound[y] : y \in roots}
      /\ mdoc' = [x \in Obj |->
             IF \E y \in roots \cap DOMAIN f : f[y] = x
             THEN bound[CHOOSE y \in roots \cap DOMAIN f : f[y] = x]
             ELSE mdoc[x]]
      /\ dom' = [x \in Obj |->
             IF \E y \in roots, k \in DOMAIN f : k \in Named(dom[y].view) /\ f[k] = x
             THEN LET k == CHOOSE j \in DOMAIN f : f[j] = x
                      y == CHOOSE z \in roots : k \in Named(dom[z].view)
                  IN  [doc |-> bound[y], view |-> Image(SubView(dom[y].view, k), f)]
             ELSE dom[x]]
  BY DEF CloneTree
<1>2. view \in Views /\ o \in Named(view)
  BY CloneViewType
<1>3. /\ f \in [Named(view) -> Obj \ live]
      /\ \A x, y \in Named(view) : f[x] = f[y] => x = y
  BY DEF Fresh
<1>4. \A y \in roots : dom[y].view \in Views /\ dom[y].view \subseteq view
  <2>1. roots \subseteq Obj
    BY DEF CopiedByDOM, TopDOM, Below, Subtree, TypeOK
  <2>2. \A y \in Obj : dom[y].view \in Views
    BY DEF TypeOK, Caches, DOMs
  <2>3. \A y \in roots : dom[y].view \subseteq view
    BY DEF CloneView
  <2>. QED BY <2>1, <2>2, <2>3
<1>. HIDE DEF view, roots
<1>5. /\ live' = live \cup {f[k] : k \in Named(view)}
      /\ live' \subseteq Obj
      /\ parent' \in [Obj -> live' \cup {Null}]
      /\ value' \in [Obj -> Value \cup {Null}]
      /\ \A x \in live' : value'[x] \in Value
      /\ \A x \in Obj \ live' : parent'[x] = Null /\ value'[x] = Null
  BY <1>1, <1>2, CopyType
<1>6. out' \in Results'
  <2>1. o \in live' /\ f[o] \in live'
    BY <1>2, <1>5
  <2>. QED BY <1>1, <2>1 DEF Results
<1>7. docs' \subseteq LibDoc
  BY <1>1 DEF TypeOK
<1>8. mdoc' \in [Obj -> LibDoc \cup {Null}] /\ \A x \in Obj \ live' : mdoc'[x] = Null
  <2>. DEFINE copied(x) == \E y \in roots \cap DOMAIN f : f[y] = x
              source(x) == CHOOSE y \in roots \cap DOMAIN f : f[y] = x
  <2>1. \A x \in Obj : copied(x) => bound[source(x)] \in LibDoc /\ x \in live'
    BY <1>1, <1>3, <1>5
  <2>2. mdoc' = [x \in Obj |-> IF copied(x) THEN bound[source(x)] ELSE mdoc[x]]
    BY <1>1
  <2>. HIDE DEF copied, source
  <2>. QED BY <2>1, <2>2, <1>5 DEF TypeOK
<1>9. dom' \in Caches /\ \A x \in Obj \ live' : dom'[x] = NoDOM
  <2>. DEFINE copied(x) ==
                  \E y \in roots, k \in DOMAIN f : k \in Named(dom[y].view) /\ f[k] = x
              original(x) == CHOOSE j \in DOMAIN f : f[j] = x
              source(x) == CHOOSE z \in roots : original(x) \in Named(dom[z].view)
              cached(x) == [doc |-> bound[source(x)],
                            view |-> Image(SubView(dom[source(x)].view, original(x)), f)]
  <2>1. dom' = [x \in Obj |-> IF copied(x) THEN cached(x) ELSE dom[x]]
    BY <1>1
  <2>2. ASSUME NEW x \in Obj, copied(x)
        PROVE  cached(x) \in DOMs /\ x \in Named(cached(x).view) /\ x \in live'
    <3>1. PICK y \in roots, k \in DOMAIN f : k \in Named(dom[y].view) /\ f[k] = x
      BY <2>2
    <3>2. original(x) = k
      BY <1>3, <3>1
    <3>. DEFINE z == source(x)
    <3>3. z \in roots /\ k \in Named(dom[z].view)
      BY <3>1, <3>2
    <3>. HIDE DEF z
    <3>4. dom[z].view \in Views /\ dom[z].view \subseteq view
      BY <1>4, <3>3
    <3>5. Image(SubView(dom[z].view, k), f) \in Views
            /\ f[k] \in Named(Image(SubView(dom[z].view, k), f))
      BY <1>3, <3>3, <3>4, ImageType
    <3>6. bound[z] \in LibDoc
      BY <3>3
    <3>. DEFINE image == Image(SubView(dom[z].view, k), f)
    <3>7. cached(x) = [doc |-> bound[z], view |-> image]
      BY <3>2 DEF z
    <3>. HIDE DEF image, cached
    <3>8. cached(x) \in DOMs
      BY <3>5, <3>6, <3>7 DEF DOMs, image
    <3>9. x \in Named(cached(x).view)
      BY <3>1, <3>5, <3>7 DEF image
    <3>10. x \in live'
      BY <3>1, <1>3, <1>5
    <3>. QED BY <3>8, <3>9, <3>10
  <2>. HIDE DEF copied, original, source, cached
  <2>3. dom' \in [Obj -> DOMs]
    BY <2>1, <2>2 DEF TypeOK, Caches
  <2>4. \A x \in Obj : dom'[x] # NoDOM => x \in Named(dom'[x].view)
    BY <2>1, <2>2 DEF TypeOK, Caches
  <2>5. \A x \in Obj \ live' : dom'[x] = NoDOM
    BY <2>1, <2>2, <1>5 DEF TypeOK
  <2>. QED BY <2>3, <2>4, <2>5 DEF Caches
<1>. QED BY <1>5, <1>6, <1>7, <1>8, <1>9 DEF TypeOK
-----------------------------------------------------------------------------
(***************************************************************************)
(* Every state is well typed, and nothing is left of a destroyed object.   *)
(***************************************************************************)
LEMMA TypeInit ==
    ASSUME NullAssumption, Init
    PROVE  TypeOK
<1>1. dom \in Caches
  <2>1. dom \in [Obj -> DOMs]
    BY DEF Init, NoDOM, DOMs, Views
  <2>. QED BY <2>1 DEF Init, Caches
<1>. QED BY <1>1 DEF Init, TreeInit, TypeOK

LEMMA TypeStep ==
    ASSUME NullAssumption, DOMAssumption, TypeOK, [Next]_vars
    PROVE  TypeOK'
<1>1. ASSUME NEW o \in Obj, NEW v \in Value, NewObject(o, v) \/ AssignValue(o, v)
      PROVE  TypeOK'
  BY <1>1, NewObjectType, AssignValueType
<1>2. ASSUME NEW p \in live, NEW c \in live, PushBack(p, c) \/ AssignChild(p, c)
      PROVE  TypeOK'
  BY <1>2, AddChildType DEF PushBack, AssignChild
<1>3. ASSUME NEW p \in live, NEW c \in live, Erase(p, c) \/ ClearChild(p, c)
      PROVE  TypeOK'
  BY <1>3, RemoveType DEF Erase, ClearChild, RemoveChild
<1>4. ASSUME NEW p \in live, NEW old \in live, NEW new \in live, ReassignChild(p, old, new)
      PROVE  TypeOK'
  BY <1>4, ReassignChildType
<1>5. ASSUME NEW o \in live, DeleteTree(o)
      PROVE  TypeOK'
  <2>1. dom = Without(dom, {})
    BY DEF Without, TypeOK, Caches
  <2>. QED BY <1>5, <2>1, RemoveType DEF DeleteTree, Delete
<1>6. ASSUME NEW o \in live, DetachChild(o) \/ CloneTree(o) \/ MarshallCached(o)
                               \/ MarshallThrows(o)
      PROVE  TypeOK'
  BY <1>6, DetachChildType, CloneTreeType, MarshallCachedType, MarshallThrowsType
<1>7. ASSUME NEW o \in live, ReleaseDOM(o) \/ ReleaseThisAndParents(o)
                               \/ ReleaseThisAndChildren(o)
      PROVE  TypeOK'
  BY <1>7, ReleaseType DEF ReleaseDOM, ReleaseThisAndParents, ReleaseThisAndChildren
<1>8. ASSUME NEW o \in live, NEW d \in LibDoc \cup CallerDoc,
             MarshallNew(o, d) \/ MarshallInto(o, d)
      PROVE  TypeOK'
  BY <1>8, MarshallNewType, MarshallIntoType
<1>9. ASSUME NEW S \in SUBSET Obj, NEW d \in LibDoc, NEW r \in S,
             NEW above \in Shapes(r, S), NEW content \in [S -> Value],
             UnmarshallNew(r, S, above, content, d)
      PROVE  TypeOK'
  BY <1>9, UnmarshallNewType
<1>10. CASE UNCHANGED vars
  BY <1>10 DEF TypeOK, vars, Caches, DOMs, Views, Results
<1>. QED BY <1>1, <1>2, <1>3, <1>4, <1>5, <1>6, <1>7, <1>8, <1>9, <1>10 DEF Next

\* The types of the model hold, and no object keeps a destroyed parent.
THEOREM TypeCorrect == Spec => []TypeOK
<1>1. Init => TypeOK
  BY TypeInit, NullAssumption
<1>2. TypeOK /\ [Next]_vars => TypeOK'
  BY TypeStep, NullAssumption, DOMAssumption
<1>. QED BY <1>1, <1>2, PTL DEF Spec
-----------------------------------------------------------------------------
(***************************************************************************)
(* Who owns which document.  The property is inductive on top of the       *)
(* types; it needs no assumption on what clients call.                     *)
(***************************************************************************)
LEMMA DocsKept ==
    ASSUME TypeOK, TypeOK', DocOwned, live \subseteq live', UNCHANGED <<mdoc, docs>>
    PROVE  DocOwned'
<1>1. \A o \in live' \ live : mdoc[o] = Null
  BY DEF TypeOK
<1>. QED BY <1>1 DEF DocOwned

LEMMA DestroyDocs ==
    ASSUME TypeOK, DocOwned, NEW S \in SUBSET live, NEW cache,
           Destroy(S, cache), live' = live \ S
    PROVE  DocOwned'
<1>. DEFINE gone == {mdoc[x] : x \in S} \ {Null}
<1>1. /\ docs' = docs \ gone
      /\ mdoc' = [o \in Obj |-> IF o \in S THEN Null ELSE mdoc[o]]
  BY DEF Destroy
<1>2. \A o \in live' : o \in Obj /\ o \in live /\ mdoc'[o] = mdoc[o]
  BY <1>1 DEF TypeOK
<1>3. ASSUME NEW d \in docs' PROVE \E o \in live' : mdoc'[o] = d
  <2>1. PICK o \in live : mdoc[o] = d
    BY <1>1 DEF DocOwned
  <2>2. d # Null
    BY <1>1, DOMAssumption DEF TypeOK, DOMAssumption
  <2>3. o \notin S
    BY <1>1, <2>1, <2>2
  <2>. QED BY <1>2, <2>1, <2>3
<1>4. ASSUME NEW o \in live', mdoc'[o] # Null PROVE mdoc'[o] \in docs'
  <2>1. mdoc[o] \notin gone
    <3>1. \A x \in S : x \in live /\ x # o
      OBVIOUS
    <3>. QED BY <1>2, <1>4, <3>1 DEF DocOwned
  <2>. QED BY <1>1, <1>2, <1>4, <2>1 DEF DocOwned
<1>5. \A o, p \in live' : mdoc'[o] = mdoc'[p] /\ mdoc'[o] # Null => o = p
  BY <1>2 DEF DocOwned
<1>. QED BY <1>3, <1>4, <1>5 DEF DocOwned

\* A new document for one object releases the one it had.
LEMMA MarshallNewDocs ==
    ASSUME TypeOK, DocOwned, NEW o \in live, NEW d \in LibDoc \cup CallerDoc,
           MarshallNew(o, d)
    PROVE  DocOwned'
<1>1. d \in LibDoc \ docs
  BY DEF MarshallNew
<1>2. /\ mdoc' = [mdoc EXCEPT ![o] = d]
      /\ docs' = (docs \cup {d}) \ {mdoc[o]}
      /\ live' = live
  BY DEF MarshallNew
<1>3. \A x \in live : x \in Obj /\ mdoc'[x] = IF x = o THEN d ELSE mdoc[x]
  BY <1>2 DEF TypeOK
<1>4. \A x \in live : mdoc[x] # d
  BY <1>1, DOMAssumption DEF DocOwned, DOMAssumption
<1>5. mdoc[o] # d
  BY <1>4
<1>6. ASSUME NEW e \in docs' PROVE \E x \in live' : mdoc'[x] = e
  <2>1. CASE e = d
    BY <2>1, <1>2, <1>3
  <2>2. CASE e # d
    <3>1. PICK x \in live : mdoc[x] = e
      BY <2>2, <1>2 DEF DocOwned
    <3>2. x # o
      BY <1>2, <3>1
    <3>. QED BY <1>2, <1>3, <3>1, <3>2
  <2>. QED BY <2>1, <2>2
<1>7. \A x \in live' : mdoc'[x] # Null => mdoc'[x] \in docs'
  BY <1>2, <1>3, <1>4 DEF DocOwned
<1>8. \A x, y \in live' : mdoc'[x] = mdoc'[y] /\ mdoc'[x] # Null => x = y
  BY <1>2, <1>3, <1>4 DEF DocOwned
<1>. QED BY <1>6, <1>7, <1>8 DEF DocOwned

\* A parsed document is bound to the root of the new tree.
LEMMA UnmarshallNewDocs ==
    ASSUME TypeOK, DocOwned, NEW S \in SUBSET Obj, NEW r \in S, NEW above \in Shapes(r, S),
           NEW content \in [S -> Value], NEW d \in LibDoc,
           UnmarshallNew(r, S, above, content, d)
    PROVE  DocOwned'
<1>1. /\ d \in LibDoc \ docs
      /\ live' = live \cup S /\ S \cap live = {}
      /\ mdoc' = [mdoc EXCEPT ![r] = d]
      /\ docs' = docs \cup {d}
  BY DEF UnmarshallNew, Unmarshall
<1>2. \A x \in live : x \in Obj /\ mdoc'[x] = mdoc[x] /\ mdoc[x] # d
  BY <1>1, DOMAssumption DEF TypeOK, DocOwned, DOMAssumption
<1>3. \A x \in S : mdoc'[x] = IF x = r THEN d ELSE Null
  BY <1>1 DEF TypeOK
<1>4. \A e \in docs' : \E x \in live' : mdoc'[x] = e
  BY <1>1, <1>2, <1>3 DEF DocOwned
<1>5. \A x \in live' : mdoc'[x] # Null => mdoc'[x] \in docs'
  BY <1>1, <1>2, <1>3 DEF DocOwned
<1>6. \A x, y \in live' : mdoc'[x] = mdoc'[y] /\ mdoc'[x] # Null => x = y
  BY <1>1, <1>2, <1>3 DEF DocOwned
<1>. QED BY <1>4, <1>5, <1>6 DEF DocOwned

\* Each document made for a clone is bound to the copy of what it shows.
LEMMA CloneTreeDocs ==
    ASSUME TypeOK, DocOwned, NEW o \in live, CloneTree(o)
    PROVE  DocOwned'
<1>. DEFINE view == CloneView(o)
            roots == CopiedByDOM(o)
<1>1. PICK f \in Fresh(view), bound \in [roots -> LibDoc \ docs] :
      /\ \A y, z \in roots : bound[y] = bound[z] => y = z
      /\ Copy(view, f)
      /\ docs' = docs \cup {bound[y] : y \in roots}
      /\ mdoc' = [x \in Obj |->
             IF \E y \in roots \cap DOMAIN f : f[y] = x
             THEN bound[CHOOSE y \in roots \cap DOMAIN f : f[y] = x]
             ELSE mdoc[x]]
  BY DEF CloneTree
<1>2. view \in Views
  BY CloneViewType
<1>3. /\ f \in [Named(view) -> Obj \ live]
      /\ \A x, y \in Named(view) : f[x] = f[y] => x = y
  BY DEF Fresh
<1>4. live' = live \cup {f[k] : k \in Named(view)}
  BY <1>1, <1>2, CopyType
<1>5. roots \subseteq Named(view)
  <2>1. \A y \in roots : y \in live /\ HasDOM(y)
    BY DEF CopiedByDOM, TopDOM, Below, Subtree
  <2>2. \A y \in roots : y \in Named(dom[y].view)
    BY <2>1 DEF TypeOK, Caches, HasDOM
  <2>3. \A y \in roots : dom[y].view \subseteq view
    BY DEF CloneView
  <2>. QED BY <2>2, <2>3 DEF Named
<1>. HIDE DEF view, roots
<1>6. \A y \in roots : f[y] \in live' \ live /\ mdoc'[f[y]] = bound[y]
  <2>. SUFFICES ASSUME NEW y \in roots
                PROVE  f[y] \in live' \ live /\ mdoc'[f[y]] = bound[y]
    OBVIOUS
  <2>1. y \in roots \cap DOMAIN f /\ f[y] \in Obj \ live
    BY <1>3, <1>5
  <2>2. \A z \in roots \cap DOMAIN f : f[z] = f[y] => z = y
    BY <1>3, <1>5
  <2>3. (CHOOSE z \in roots \cap DOMAIN f : f[z] = f[y]) = y
    BY <2>1, <2>2
  <2>. QED BY <1>1, <1>3, <1>4, <1>5, <2>1, <2>3
<1>7. \A x \in live' : x \notin {f[y] : y \in roots} => mdoc'[x] = mdoc[x]
  <2>1. \A x \in live' : x \in Obj
    BY <1>3, <1>4 DEF TypeOK
  <2>. QED BY <1>1, <2>1
<1>8. \A x \in live : x \notin {f[y] : y \in roots}
  BY <1>6
<1>9. \A x \in live' \ live : mdoc[x] = Null
  BY <1>3, <1>4 DEF TypeOK
<1>10. \A y \in roots : bound[y] \in LibDoc \ docs
  BY <1>1
<1>11. \A x \in live : mdoc[x] # Null => mdoc[x] \in docs
  BY DEF DocOwned
<1>12. \A e \in docs' : \E x \in live' : mdoc'[x] = e
  <2>1. ASSUME NEW e \in docs PROVE \E x \in live' : mdoc'[x] = e
    <3>1. PICK x \in live : mdoc[x] = e
      BY DEF DocOwned
    <3>. QED BY <3>1, <1>4, <1>7, <1>8
  <2>2. ASSUME NEW y \in roots PROVE \E x \in live' : mdoc'[x] = bound[y]
    BY <1>6
  <2>3. \A e \in docs' : e \in docs \/ \E y \in roots : e = bound[y]
    BY <1>1
  <2>. QED BY <2>1, <2>2, <2>3
<1>13. \A x \in live' : mdoc'[x] # Null => mdoc'[x] \in docs'
  <2>1. \A y \in roots : mdoc'[f[y]] \in docs'
    <3>1. \A y \in roots : bound[y] \in docs'
      BY <1>1
    <3>. QED BY <1>6, <3>1
  <2>2. docs \subseteq docs'
    BY <1>1
  <2>. DEFINE copies == {f[y] : y \in roots}
  <2>3. \A x \in copies : mdoc'[x] \in docs'
    BY <2>1
  <2>4. \A x \in live' : x \notin copies => mdoc'[x] = mdoc[x]
    BY <1>7
  <2>. HIDE DEF copies
  <2>. QED BY <2>2, <2>3, <2>4, <1>9, <1>11
<1>14. \A x, z \in live' : mdoc'[x] = mdoc'[z] /\ mdoc'[x] # Null => x = z
  <2>. SUFFICES ASSUME NEW x \in live', NEW z \in live',
                       mdoc'[x] = mdoc'[z], mdoc'[x] # Null
                PROVE  x = z
    OBVIOUS
  <2>. DEFINE copies == {f[y] : y \in roots}
  <2>1. \A w \in live' : w \notin copies /\ mdoc'[w] # Null =>
            w \in live /\ mdoc'[w] = mdoc[w] /\ mdoc'[w] \in docs
    BY <1>7, <1>9, <1>11
  <2>2. \A w \in copies : mdoc'[w] \notin docs
    BY <1>6, <1>10
  <2>3. CASE x \in copies /\ z \in copies
    BY <2>3, <1>1, <1>6
  <2>4. CASE x \notin copies /\ z \notin copies
    BY <2>1, <2>4 DEF DocOwned
  <2>. HIDE DEF copies
  <2>. QED BY <2>1, <2>2, <2>3, <2>4
<1>. QED BY <1>12, <1>13, <1>14 DEF DocOwned

\* The child takes the document of the parent, and drops its own for it.
LEMMA DetachChildDocs ==
    ASSUME TypeOK, DocOwned, NEW c \in live, DetachChild(c)
    PROVE  DocOwned'
<1>. DEFINE p == parent[c]
            S == Below(p) \ Below(c)
            taken == mdoc[p]
            dropped == IF taken = Null THEN {} ELSE {mdoc[c]} \ {Null}
            gone == {mdoc[x] : x \in Below(p) \ (Below(c) \cup {p})} \ {Null}
<1>1. /\ p \in live /\ parent[p] = Null
      /\ live' = live \ S
      /\ mdoc' = [o \in Obj |-> IF o \in S THEN Null
                                ELSE IF o = c /\ taken # Null THEN taken ELSE mdoc[o]]
      /\ docs' = docs \ (gone \cup dropped)
  BY DEF DetachChild, Detach, IsRoot, Forget
<1>2. Below(c) \subseteq live /\ Below(p) \subseteq live /\ live \subseteq Obj
  BY DEF Below, Subtree, TypeOK
<1>3. c \in Below(c) /\ p \in Below(p)
  BY <1>1, SubtreeRoot DEF Below
<1>4. p \notin Below(c)
  <2>1. p # c
    BY <1>1, <1>2, NullAssumption DEF NullAssumption
  <2>2. p \in Below(c) => parent[p] \in Below(c)
    BY <2>1, SubtreeParent DEF Below
  <2>. QED BY <1>1, <1>2, <2>2, NullAssumption DEF NullAssumption
<1>5. p \in S /\ c \notin S
  BY <1>3, <1>4
<1>6. \A x \in S \ {p} : mdoc[x] # Null => mdoc[x] \in gone
  OBVIOUS
<1>7. \A d \in gone : \E x \in S \ {p} : mdoc[x] = d
  OBVIOUS
<1>. HIDE DEF S, gone, p
<1>8. \A x \in live' : x \in live /\ x \notin S /\ x \in Obj
                         /\ mdoc'[x] = IF x = c /\ taken # Null THEN taken ELSE mdoc[x]
  BY <1>1, <1>2
<1>9. S \subseteq live
  BY <1>2 DEF S
<1>10. c \in live'
  BY <1>1, <1>5
<1>11. ASSUME NEW d \in docs' PROVE \E x \in live' : mdoc'[x] = d
  <2>1. d \in docs /\ d \notin gone /\ d \notin dropped
    BY <1>1
  <2>2. d # Null
    BY <2>1, DOMAssumption DEF TypeOK, DOMAssumption
  <2>3. PICK x \in live : mdoc[x] = d
    BY <2>1 DEF DocOwned
  <2>4. CASE x = p
    BY <1>8, <1>10, <2>2, <2>3, <2>4
  <2>5. CASE x # p
    <3>1. x \in live'
      BY <1>1, <1>6, <2>1, <2>2, <2>3, <2>5
    <3>2. x = c => taken = Null
      BY <2>1, <2>2, <2>3
    <3>. QED BY <1>8, <2>3, <3>1, <3>2
  <2>. QED BY <2>4, <2>5
<1>12. ASSUME NEW x \in live', mdoc'[x] # Null PROVE mdoc'[x] \in docs'
  <2>1. PICK y \in live : mdoc[y] = mdoc'[x] /\ y \notin S \ {p}
                            /\ (y = c => taken = Null)
    <3>1. CASE x = c /\ taken # Null
      BY <1>1, <1>5, <1>8, <3>1
    <3>2. CASE ~(x = c /\ taken # Null)
      <4>1. x \in live /\ mdoc[x] = mdoc'[x] /\ x \notin S
        BY <1>8, <3>2
      <4>2. x = c => taken = Null
        BY <3>2
      <4>. HIDE DEF taken
      <4>. QED BY <4>1, <4>2
    <3>. QED BY <3>1, <3>2
  <2>2. mdoc[y] \in docs
    BY <1>12, <2>1 DEF DocOwned
  <2>3. mdoc[y] \notin gone
    BY <1>7, <1>9, <1>12, <2>1 DEF DocOwned
  <2>4. mdoc[y] \notin dropped
    BY <1>12, <2>1 DEF DocOwned
  <2>. QED BY <1>1, <2>1, <2>2, <2>3, <2>4
<1>13. ASSUME NEW x \in live', NEW y \in live', mdoc'[x] = mdoc'[y], mdoc'[x] # Null
       PROVE  x = y
  <2>1. x # p /\ y # p
    BY <1>1, <1>5
  <2>. QED BY <1>1, <1>8, <1>13, <2>1 DEF DocOwned
<1>. QED BY <1>11, <1>12, <1>13 DEF DocOwned

LEMMA DocStep ==
    ASSUME TypeOK, DocOwned, [Next]_vars
    PROVE  DocOwned'
<1>. TypeOK'
  BY TypeStep, NullAssumption, DOMAssumption
<1>0. \A o : Below(o) \subseteq live
  BY DEF Below, Subtree
<1>1. ASSUME NEW o \in Obj, NEW v \in Value, NewObject(o, v) \/ AssignValue(o, v)
      PROVE  DocOwned'
  BY <1>1, DocsKept DEF NewObject, Build, AssignValue, SetValue
<1>2. ASSUME NEW p \in live, NEW c \in live, PushBack(p, c) \/ AssignChild(p, c)
      PROVE  DocOwned'
  BY <1>2, DocsKept DEF PushBack, AssignChild, AddChild
<1>3. ASSUME NEW p \in live, NEW c \in live, Erase(p, c) \/ ClearChild(p, c)
      PROVE  DocOwned'
  BY <1>0, <1>3, DestroyDocs DEF Erase, ClearChild, RemoveChild, Forget
<1>4. ASSUME NEW p \in live, NEW old \in live, NEW new \in live, ReassignChild(p, old, new)
      PROVE  DocOwned'
  BY <1>0, <1>4, DestroyDocs DEF ReassignChild, ReplaceChild, Forget
<1>5. ASSUME NEW o \in live, DeleteTree(o)
      PROVE  DocOwned'
  BY <1>0, <1>5, DestroyDocs DEF DeleteTree, Delete, Forget
<1>6. ASSUME NEW o \in live, DetachChild(o) \/ CloneTree(o)
      PROVE  DocOwned'
  BY <1>6, DetachChildDocs, CloneTreeDocs
<1>7. ASSUME NEW o \in live, MarshallCached(o) \/ MarshallThrows(o)
      PROVE  DocOwned'
  BY <1>7, DocsKept DEF MarshallCached, MarshallThrows, Silent
<1>8. ASSUME NEW o \in live, ReleaseDOM(o) \/ ReleaseThisAndParents(o)
                               \/ ReleaseThisAndChildren(o)
      PROVE  DocOwned'
  BY <1>8, DocsKept DEF ReleaseDOM, ReleaseThisAndParents, ReleaseThisAndChildren,
                        Release, Silent
<1>9. ASSUME NEW o \in live, NEW d \in LibDoc \cup CallerDoc, MarshallNew(o, d)
      PROVE  DocOwned'
  BY <1>9, MarshallNewDocs
<1>10. ASSUME NEW o \in live, NEW d \in LibDoc \cup CallerDoc, MarshallInto(o, d)
      PROVE  DocOwned'
  BY <1>10, DocsKept DEF MarshallInto
<1>11. ASSUME NEW S \in SUBSET Obj, NEW d \in LibDoc, NEW r \in S,
              NEW above \in Shapes(r, S), NEW content \in [S -> Value],
              UnmarshallNew(r, S, above, content, d)
       PROVE  DocOwned'
  BY <1>11, UnmarshallNewDocs
<1>12. CASE UNCHANGED vars
  BY <1>12, DocsKept DEF vars
<1>. QED BY <1>1, <1>2, <1>3, <1>4, <1>5, <1>6, <1>7, <1>8, <1>9, <1>10, <1>11, <1>12
         DEF Next

\* No document is leaked, and none is released twice, whatever clients call.
THEOREM DocumentsOwned == Spec => []DocOwned
<1>1. Init => DocOwned
  BY DEF Init, TreeInit, DocOwned
<1>2. TypeOK /\ DocOwned /\ [Next]_vars => DocOwned'
  BY DocStep
<1>. QED BY <1>1, <1>2, TypeCorrect, PTL DEF Spec
-----------------------------------------------------------------------------
(***************************************************************************)
(* The cache of a client that makes none of the hazardous calls.  That a   *)
(* cached DOM says what its object says is not inductive alone: a setter   *)
(* releases what it reaches before the first ancestor without a DOM, so    *)
(* there must be no DOM above one (NoHole), no object above itself         *)
(* (Acyclic), and a document that is released must not be the home of a    *)
(* DOM that stays (DOMAtHome, with the ownership of documents).            *)
(***************************************************************************)
LEMMA SubtreeIn ==
    ASSUME NEW L, NEW above, NEW o
    PROVE  Subtree(L, above, o) \subseteq L
BY DEF Subtree

\* Two nodes above a third are one above the other.
LEMMA SubtreeChain ==
    ASSUME NEW L, NEW above, NEW x \in L, NEW y \in L,
           NEW z \in Subtree(L, above, x), z \in Subtree(L, above, y)
    PROVE  x \in Subtree(L, above, y) \/ y \in Subtree(L, above, x)
<1>. SUFFICES ASSUME x \notin Subtree(L, above, y), y \notin Subtree(L, above, x)
              PROVE  FALSE
  OBVIOUS
<1>. DEFINE S == Subtree(L, above, x) \ Subtree(L, above, y)
<1>1. S \in SUBSET L /\ x \in S
  BY SubtreeIn, SubtreeRoot
<1>2. ASSUME NEW c \in L, above[c] \in S PROVE c \in S
  <2>1. c \in Subtree(L, above, x)
    BY <1>2, SubtreeClosed
  <2>2. c # y
    BY <2>1
  <2>3. c \notin Subtree(L, above, y)
    BY <1>2, <2>2, SubtreeParent
  <2>. QED BY <2>1, <2>3
<1>3. Subtree(L, above, x) \subseteq S
  <2>. HIDE DEF S
  <2>. QED BY <1>1, <1>2, SubtreeLeast
<1>. QED BY <1>3

LEMMA BelowFacts ==
    /\ \A o : Below(o) \subseteq live
    /\ \A o \in live : o \in Below(o)
    /\ \A o : \A c \in live : parent[c] \in Below(o) => c \in Below(o)
    /\ \A o \in live : \A x \in Below(o) : x # o => parent[x] \in Below(o)
    /\ \A o : \A x \in Below(o) : Below(x) \subseteq Below(o)
    /\ \A x, y \in live : \A z \in Below(x) \cap Below(y) : x \in Below(y) \/ y \in Below(x)
BY SubtreeIn, SubtreeRoot, SubtreeClosed, SubtreeParent, SubtreeTrans, SubtreeChain DEF Below

LEMMA BelowLeast ==
    ASSUME NEW o, NEW S \in SUBSET live, o \in S, \A c \in live : parent[c] \in S => c \in S
    PROVE  Below(o) \subseteq S
BY SubtreeLeast DEF Below

Acyclic == \A o \in live : parent[o] \notin Below(o)

\* What a careful client sees.
Sound == Acyclic /\ NoHole /\ CacheFaithful /\ DOMAtHome
CarefulInv == TypeOK /\ DocOwned /\ Sound

\* Who shows no change keeps its DOM.
Preserved == \A x \in live \cap live' : View(x)' = View(x) => dom'[x] = dom[x]

CarefulStep == Sound' /\ Preserved

LEMMA BelowDOM ==
    ASSUME TypeOK, NoHole, NEW a \in live, HasDOM(a), NEW x \in Below(a)
    PROVE  HasDOM(x)
<1>. DEFINE S == {y \in live : HasDOM(y)}
<1>1. ASSUME NEW c \in live, parent[c] \in S PROVE c \in S
  BY <1>1, NullAssumption DEF NoHole, NullAssumption, TypeOK
<1>2. Below(a) \subseteq S
  <2>1. S \in SUBSET live /\ a \in S
    OBVIOUS
  <2>. HIDE DEF S
  <2>. QED BY <1>1, <2>1, BelowLeast
<1>. QED BY <1>2

\* What propagates up comes to all that shows the object.
LEMMA ReleasedAbove ==
    ASSUME TypeOK, NoHole, NEW o \in live, NEW x \in live
    PROVE  /\ Without(dom, ThisAndParents(o))[x] = IF o \in Below(x) THEN NoDOM ELSE dom[x]
           /\ Without(dom, ParentsReleased(o))[x] =
                  IF o \in Below(x) /\ x # o THEN NoDOM ELSE dom[x]
<1>1. x \in Obj
  BY DEF TypeOK
<1>2. x \in ParentsReleased(o) => o \in Below(x) /\ x # o
  BY DEF ParentsReleased, Above
<1>3. ASSUME o \in Below(x), x # o, HasDOM(x) PROVE x \in ParentsReleased(o)
  <2>1. \A z \in Above(o) \ {o} : z \in Below(x) => HasDOM(z)
    BY <1>3, BelowDOM
  <2>. QED BY <1>3, <2>1 DEF ParentsReleased, Above
<1>4. o \in Below(o)
  BY BelowFacts
<1>5. Without(dom, ParentsReleased(o))[x] = IF o \in Below(x) /\ x # o THEN NoDOM ELSE dom[x]
  BY <1>1, <1>2, <1>3 DEF Without, HasDOM
<1>6. x \in ThisAndParents(o) <=> x = o \/ x \in ParentsReleased(o)
  BY DEF ThisAndParents
<1>. QED BY <1>1, <1>2, <1>3, <1>4, <1>5, <1>6 DEF Without, HasDOM

\* A subtree stays as it is.
LEMMA Untouched ==
    ASSUME NEW x \in live, parent[x] \notin Below(x),
           \A y \in Below(x) : /\ y \in live' /\ value'[y] = value[y]
                               /\ y # x => parent'[y] = parent[y],
           \A y \in live' : parent'[y] \in Below(x) => y \in Below(x) /\ y # x
    PROVE  Below(x)' = Below(x) /\ View(x)' = View(x)
<1>. DEFINE T == Below(x)
            U == Subtree(live', parent', x)
<1>1. T \in SUBSET live' /\ x \in T /\ x \in live'
  BY BelowFacts
<1>2. U \subseteq T
  <2>1. \A c \in live' : parent'[c] \in T => c \in T
    OBVIOUS
  <2>. HIDE DEF T
  <2>. QED BY <1>1, <2>1, SubtreeLeast
<1>3. T \subseteq U
  <2>1. U \in SUBSET live
    BY <1>2, BelowFacts
  <2>2. x \in U
    BY <1>1, SubtreeRoot
  <2>3. ASSUME NEW c \in live, parent[c] \in U PROVE c \in U
    <3>1. c \in T
      BY <1>2, <2>3, BelowFacts
    <3>2. c # x
      BY <1>2, <2>3
    <3>3. c \in live' /\ parent'[c] \in U
      BY <2>3, <3>1, <3>2
    <3>. QED BY <3>3, SubtreeClosed
  <2>. HIDE DEF T, U
  <2>4. Below(x) \subseteq U
    BY <2>1, <2>2, <2>3, BelowLeast
  <2>. QED BY <2>4 DEF T
<1>4. Below(x)' = T
  BY <1>2, <1>3 DEF Below
<1>. HIDE DEF T
<1>5. ASSUME NEW y \in T PROVE Kids(y)' = Kids(y)
  <2>1. ASSUME NEW c \in live, parent[c] = y PROVE c \in live' /\ parent'[c] = y
    <3>1. c \in Below(x) /\ c # x
      BY <1>5, <2>1, BelowFacts DEF T
    <3>. QED BY <2>1, <3>1
  <2>2. ASSUME NEW c \in live', parent'[c] = y PROVE c \in live /\ parent[c] = y
    <3>1. c \in Below(x) /\ c # x
      BY <1>5, <2>2 DEF T
    <3>. QED BY <2>2, <3>1, BelowFacts
  <2>. QED BY <2>1, <2>2 DEF Kids
<1>6. \A y \in T : value'[y] = value[y]
  BY DEF T
<1>7. View(x)' = {<<y, value'[y], Kids(y)'>> : y \in T}
  BY <1>4 DEF View
<1>8. View(x) = {<<y, value[y], Kids(y)>> : y \in T}
  BY DEF View, T
<1>9. {<<y, value'[y], Kids(y)'>> : y \in T} = {<<y, value[y], Kids(y)>> : y \in T}
  BY <1>5, <1>6
<1>. QED BY <1>4, <1>7, <1>8, <1>9 DEF T

(***************************************************************************)
(* A change at object p: the objects of S, below p or p itself, go, p may  *)
(* get another content, a root may become a child of p, a child of p a     *)
(* root; and the DOM of all that shows p is released.                      *)
(***************************************************************************)
Change(p, S) ==
    /\ p \in live /\ S \subseteq live /\ live' = live \ S
    /\ \A y \in S : parent[y] \in S \cup {p, Null}
    /\ \A y \in live' : y # p => value'[y] = value[y]
    /\ \A y \in live' : \/ parent'[y] = parent[y]
                        \/ parent'[y] = p /\ parent[y] = Null /\ p \notin Below(y)
                        \/ parent'[y] = Null /\ parent[y] = p
    /\ \A y \in live' : dom'[y] = IF p \in Below(y) THEN NoDOM ELSE dom[y]

LEMMA ChangeElsewhere ==
    ASSUME TypeOK, Acyclic, NEW p, NEW S, Change(p, S), NEW x \in live', p \notin Below(x)
    PROVE  Below(x)' = Below(x) /\ View(x)' = View(x)
<1>0. Null \notin live
  BY NullAssumption DEF TypeOK, NullAssumption
<1>1. x \in live /\ x \notin S /\ parent[x] \notin Below(x)
  BY DEF Change, Acyclic
<1>2. Below(x) \cap S = {}
  <2>. DEFINE U == Below(x) \ S
  <2>1. U \in SUBSET live /\ x \in U
    BY <1>1, BelowFacts
  <2>2. ASSUME NEW c \in live, parent[c] \in U PROVE c \in U
    <3>1. c \in Below(x) /\ parent[c] # Null /\ parent[c] # p /\ parent[c] \notin S
      BY <1>0, <2>2, BelowFacts
    <3>2. c \notin S
      BY <3>1 DEF Change
    <3>. QED BY <3>1, <3>2
  <2>3. Below(x) \subseteq U
    <3>. HIDE DEF U
    <3>. QED BY <2>1, <2>2, BelowLeast
  <2>. QED BY <2>3
<1>3. \A y \in Below(x) : y \in live' /\ y # p
  BY <1>2, BelowFacts DEF Change
<1>4. \A y \in Below(x) : y # x => parent[y] \in Below(x) /\ parent[y] # Null /\ parent[y] # p
  BY <1>0, <1>1, BelowFacts
<1>5. \A y \in Below(x) : /\ y \in live' /\ value'[y] = value[y]
                          /\ y # x => parent'[y] = parent[y]
  BY <1>3, <1>4 DEF Change
<1>6. ASSUME NEW y \in live', parent'[y] \in Below(x) PROVE y \in Below(x) /\ y # x
  <2>1. y \in live /\ parent'[y] # p /\ parent'[y] # Null
    BY <1>0, <1>6, BelowFacts DEF Change
  <2>2. parent'[y] = parent[y]
    BY <2>1 DEF Change
  <2>. QED BY <1>1, <1>6, <2>1, <2>2, BelowFacts
<1>. QED BY <1>1, <1>5, <1>6, Untouched

LEMMA ChangeAcyclic ==
    ASSUME TypeOK, TypeOK', Acyclic, NEW p, NEW S, Change(p, S)
    PROVE  Acyclic'
<1>. SUFFICES ASSUME NEW x \in live' PROVE parent'[x] \notin Below(x)'
  BY DEF Acyclic
<1>0. Null \notin live /\ Null \notin live' /\ p \in live /\ x \in live
  BY NullAssumption DEF TypeOK, NullAssumption, Change
<1>1. CASE p \notin Below(x)
  <2>1. parent[x] \notin Below(x) /\ Null \notin Below(x)
    BY <1>0, BelowFacts DEF Acyclic
  <2>2. Below(x)' = Below(x)
    BY <1>1, ChangeElsewhere
  <2>. QED BY <1>1, <2>1, <2>2 DEF Change
<1>2. CASE p \in Below(x)
  <2>. DEFINE new == {n \in live : parent[n] = Null /\ p \notin Below(n)}
              T == (Below(x) \cup UNION {Below(n) : n \in new}) \cap live'
  <2>1. T \in SUBSET live' /\ x \in T
    BY <1>0, BelowFacts
  <2>2. ASSUME NEW c \in live', parent'[c] \in T PROVE c \in T
    <3>0. c \in live /\ parent'[c] # Null
      BY <1>0, <2>2 DEF Change
    <3>1. CASE parent'[c] = parent[c]
      BY <2>2, <3>0, <3>1, BelowFacts
    <3>2. CASE parent[c] = Null /\ p \notin Below(c)
      <4>1. c \in new /\ c \in Below(c)
        BY <3>0, <3>2, BelowFacts
      <4>. QED BY <4>1
    <3>. QED BY <3>0, <3>1, <3>2 DEF Change
  <2>3. Subtree(live', parent', x) \subseteq T
    <3>. HIDE DEF T
    <3>. QED BY <2>1, <2>2, SubtreeLeast
  <2>4. Below(x)' \subseteq T
    BY <2>3 DEF Below
  <2>5. CASE parent'[x] = parent[x]
    <3>1. parent[x] \notin Below(x)
      BY <1>0 DEF Acyclic
    <3>2. ASSUME NEW n \in new, parent[x] \in Below(n) PROVE FALSE
      <4>1. x \in Below(n)
        BY <1>0, <3>2, BelowFacts
      <4>. QED BY <1>2, <4>1, BelowFacts
    <3>. QED BY <2>4, <2>5, <3>1, <3>2
  <2>6. CASE parent'[x] = Null
    BY <1>0, <2>4, <2>6
  <2>. QED BY <1>2, <2>5, <2>6 DEF Change
<1>. QED BY <1>1, <1>2

LEMMA ChangeFaithful ==
    ASSUME TypeOK, TypeOK', Acyclic, NoHole, CacheFaithful, NEW p, NEW S, Change(p, S)
    PROVE  NoHole' /\ CacheFaithful'
<1>1. \A x \in live' : x \in live /\ (HasDOM(x)' => p \notin Below(x) /\ dom'[x] = dom[x])
  BY DEF Change, HasDOM
<1>2. ASSUME NEW x \in live', HasDOM(x)' PROVE dom'[x].view = View(x)'
  BY <1>1, <1>2, ChangeElsewhere DEF CacheFaithful, HasDOM
<1>3. ASSUME NEW x \in live', parent'[x] # Null, HasDOM(parent[x])' PROVE HasDOM(x)'
  <2>1. parent'[x] \in live' /\ x \in live
    BY <1>3 DEF TypeOK, Change
  <2>2. p \notin Below(parent'[x]) /\ dom'[parent'[x]] = dom[parent'[x]] /\ parent'[x] \in live
    BY <1>1, <1>3, <2>1 DEF HasDOM
  <2>3. parent'[x] # p
    BY <2>2, BelowFacts
  <2>4. parent'[x] = parent[x]
    BY <1>3, <2>3 DEF Change
  <2>5. HasDOM(x)
    BY <1>3, <2>1, <2>2, <2>4 DEF NoHole, HasDOM
  <2>6. p \notin Below(x)
    BY <2>1, <2>2, <2>4, BelowFacts
  <2>. QED BY <2>1, <2>5, <2>6 DEF Change, HasDOM
<1>. QED BY <1>2, <1>3 DEF NoHole, CacheFaithful

\* The owners of the documents stay above the DOMs in them.
LEMMA ChangeHome ==
    ASSUME TypeOK, DOMAtHome, NEW p, NEW S, Change(p, S),
           \A y \in live : parent[y] \in S => y \in S,
           \A y \in live' : mdoc'[y] = mdoc[y],
           \A y \in live' : parent[y] = p => parent'[y] = p
    PROVE  DOMAtHome'
<1>0. Null \notin live
  BY NullAssumption DEF TypeOK, NullAssumption
<1>. SUFFICES ASSUME NEW x \in live', HasDOM(x)', dom'[x].doc \notin CallerDoc
              PROVE  \E a \in Above(x)' : mdoc'[a] = dom'[x].doc /\ mdoc'[a] # Null
  BY DEF DOMAtHome
<1>1. x \in live /\ x \notin S /\ HasDOM(x) /\ dom'[x] = dom[x]
  BY DEF Change, HasDOM
<1>2. PICK a \in Above(x) : mdoc[a] = dom[x].doc /\ mdoc[a] # Null
  BY <1>1 DEF DOMAtHome
<1>3. a \in live /\ x \in Below(a)
  BY <1>2 DEF Above
<1>4. a \notin S
  <2>1. SUFFICES ASSUME a \in S PROVE FALSE
    OBVIOUS
  <2>2. Below(a) \subseteq S
    BY <2>1, BelowLeast DEF Change
  <2>. QED BY <1>1, <1>3, <2>2
<1>5. a \in live'
  BY <1>3, <1>4 DEF Change
<1>6. \A k \in live' : parent[k] \in live' => parent'[k] = parent[k]
  BY <1>0 DEF Change
<1>7. x \in Subtree(live', parent', a)
  <2>1. live' = live \ S
    BY DEF Change
  <2>2. x \in Subtree(live, parent, a)
    BY <1>3 DEF Below
  <2>. QED BY <1>1, <1>5, <1>6, <2>1, <2>2, SubtreePruned
<1>8. a \in Above(x)'
  BY <1>5, <1>7 DEF Above, Below
<1>. QED BY <1>1, <1>2, <1>5, <1>8

\* All that shows the change has lost its DOM; and nothing else has.
LEMMA ChangeShown ==
    ASSUME TypeOK, Acyclic, NEW p, NEW S, Change(p, S),
           p \in S \/ value'[p] # value[p] \/ Kids(p)' # Kids(p)
    PROVE  \A x \in live \cap live' : View(x)' = View(x) => dom'[x] = dom[x]
<1>. SUFFICES ASSUME NEW x \in live \cap live', View(x)' = View(x), p \in Below(x)
              PROVE  FALSE
  BY DEF Change
<1>1. <<p, value[p], Kids(p)>> \in View(x)
  BY DEF View
<1>2. \A e \in View(x)' : e[1] \in live' /\ e[2] = value'[e[1]] /\ e[3] = Kids(e[1])'
  <2>1. Below(x)' \subseteq live'
    BY SubtreeIn DEF Below
  <2>. QED BY <2>1 DEF View
<1>. QED BY <1>1, <1>2 DEF Change
-----------------------------------------------------------------------------
(***************************************************************************)
(* Changes of the tree, one by one.                                        *)
(***************************************************************************)

\* What is destroyed takes no document along that is needed elsewhere.
LEMMA DestroyQuiet ==
    ASSUME TypeOK, DocOwned, DOMAtHome, NEW S \in SUBSET live, NEW cache,
           \A y \in live : parent[y] \in S => y \in S,
           \A y \in live \ S : cache[y] \in {NoDOM, dom[y]},
           Destroy(S, cache), live' = live \ S
    PROVE  \A x \in live' : dom'[x] = cache[x] /\ mdoc'[x] = mdoc[x]
<1>. SUFFICES ASSUME NEW x \in live'
              PROVE  dom'[x] = cache[x] /\ mdoc'[x] = mdoc[x]
  OBVIOUS
<1>. DEFINE gone == {mdoc[y] : y \in S} \ {Null}
<1>1. x \in Obj /\ x \in live /\ x \notin S
  BY DEF TypeOK
<1>2. dom'[x] = IF cache[x].doc \in gone THEN [cache[x] EXCEPT !.doc = Freed] ELSE cache[x]
  BY <1>1 DEF Destroy, Dangle, Without
<1>3. mdoc'[x] = mdoc[x]
  BY <1>1 DEF Destroy
<1>4. ASSUME HasDOM(x), dom[x].doc \in gone PROVE FALSE
  <2>1. PICK s \in S : mdoc[s] = dom[x].doc /\ mdoc[s] # Null
    BY <1>4
  <2>2. mdoc[s] \in LibDoc
    BY <2>1 DEF TypeOK
  <2>3. PICK a \in Above(x) : mdoc[a] = dom[x].doc
    BY <1>1, <1>4, <2>1, <2>2, DOMAssumption DEF DOMAtHome, DOMAssumption
  <2>4. a \in live /\ x \in Below(a)
    BY <2>3 DEF Above
  <2>5. a = s
    BY <2>1, <2>3, <2>4 DEF DocOwned
  <2>6. Below(s) \subseteq S
    BY BelowLeast
  <2>. QED BY <1>1, <2>4, <2>5, <2>6
<1>5. NoDOM.doc \notin gone
  BY DEF NoDOM
<1>6. cache[x] = NoDOM \/ (cache[x] = dom[x] /\ HasDOM(x))
  BY <1>1 DEF HasDOM
<1>7. cache[x].doc \notin gone
  BY <1>4, <1>5, <1>6
<1>. QED BY <1>2, <1>3, <1>7

LEMMA ChangeCareful ==
    ASSUME CarefulInv, TypeOK', NEW p, NEW S, Change(p, S),
           \A y \in live : parent[y] \in S => y \in S,
           \A y \in live' : mdoc'[y] = mdoc[y],
           \A y \in live' : parent[y] = p => parent'[y] = p,
           p \in S \/ value'[p] # value[p] \/ Kids(p)' # Kids(p)
    PROVE  CarefulStep
BY ChangeAcyclic, ChangeFaithful, ChangeHome, ChangeShown DEF CarefulStep, CarefulInv, Sound, Preserved

LEMMA AssignValueCareful ==
    ASSUME CarefulInv, TypeOK', NEW o, NEW v, AssignValue(o, v)
    PROVE  CarefulStep
<1>1. o \in live /\ value' = [value EXCEPT ![o] = v] /\ value[o] # v
  BY DEF AssignValue, SetValue
<1>2. UNCHANGED <<live, parent, mdoc>> /\ dom' = Without(dom, ThisAndParents(o))
  BY DEF AssignValue, SetValue
<1>3. TypeOK /\ NoHole
  BY DEF CarefulInv, Sound
<1>4. \A y \in live : y \in Obj /\ value \in [Obj -> Value \cup {Null}]
  BY <1>3 DEF TypeOK
<1>5. Change(o, {})
  BY <1>1, <1>2, <1>3, <1>4, ReleasedAbove DEF Change
<1>6. value'[o] # value[o]
  BY <1>1, <1>4
<1>. QED BY <1>2, <1>5, <1>6, ChangeCareful

LEMMA AddChildCareful ==
    ASSUME CarefulInv, TypeOK', NEW p, NEW c, AddChild(p, c), mdoc' = mdoc,
           \A x \in live : dom'[x] = IF p \in Below(x) THEN NoDOM ELSE dom[x]
    PROVE  CarefulStep
<1>0. TypeOK
  BY DEF CarefulInv, Sound
<1>1. /\ p \in live /\ c \in live /\ parent[c] = Null /\ p \notin Below(c)
      /\ parent' = [parent EXCEPT ![c] = p]
      /\ UNCHANGED <<live, value>>
  BY DEF AddChild, Addable, IsRoot
<1>2. Null \notin live /\ \A y \in live : y \in Obj
  BY <1>0, NullAssumption DEF TypeOK, NullAssumption
<1>3. \A y \in live : parent'[y] = IF y = c THEN p ELSE parent[y]
  BY <1>0, <1>1, <1>2 DEF TypeOK
<1>4. Change(p, {})
  BY <1>1, <1>3 DEF Change
<1>5. Kids(p)' # Kids(p)
  BY <1>1, <1>2, <1>3 DEF Kids
<1>6. \A y \in live' : parent[y] = p => parent'[y] = p
  BY <1>1, <1>3
<1>. QED BY <1>1, <1>4, <1>5, <1>6, ChangeCareful

LEMMA PushBackCareful ==
    ASSUME CarefulInv, TypeOK', NEW p, NEW c, PushBack(p, c) \/ AssignChild(p, c)
    PROVE  CarefulStep
<1>0. TypeOK /\ NoHole
  BY DEF CarefulInv, Sound
<1>1. AddChild(p, c) /\ mdoc' = mdoc /\ p \in live
  BY DEF PushBack, AssignChild, AddChild, Addable
<1>2. ASSUME NEW x \in live PROVE dom'[x] = IF p \in Below(x) THEN NoDOM ELSE dom[x]
  <2>1. CASE dom' = Without(dom, ThisAndParents(p))
    BY <1>0, <1>1, <2>1, ReleasedAbove
  <2>2. CASE dom' = Without(dom, {}) /\ ~HasDOM(p)
    <3>1. p \in Below(x) => ~HasDOM(x)
      BY <1>0, <2>2, BelowDOM
    <3>2. x \in Obj
      BY <1>0 DEF TypeOK
    <3>. QED BY <2>2, <3>1, <3>2 DEF Without, HasDOM
  <2>3. dom' = Without(dom, ThisAndParents(p)) \/ (dom' = Without(dom, {}) /\ ~HasDOM(p))
    BY DEF PushBack, AssignChild
  <2>. QED BY <2>1, <2>2, <2>3
<1>. QED BY <1>1, <1>2, AddChildCareful

\* A subtree goes from below p, or with p as its root.
LEMMA RemoveCareful ==
    ASSUME CarefulInv, TypeOK', NEW p \in live, NEW c \in live, NEW cache,
           Forget(Below(c), parent), Destroy(Below(c), cache),
           parent[c] = p \/ (parent[c] = Null /\ p = c),
           \A x \in live \ Below(c) : cache[x] = IF p \in Below(x) THEN NoDOM ELSE dom[x]
    PROVE  CarefulStep
<1>. DEFINE S == Below(c)
<1>0. TypeOK /\ DocOwned /\ DOMAtHome /\ Acyclic
  BY DEF CarefulInv, Sound
<1>1. /\ live' = live \ S
      /\ \A y \in Obj : parent'[y] = IF y \in S THEN Null ELSE parent[y]
      /\ \A y \in Obj : value'[y] = IF y \in S THEN Null ELSE value[y]
  BY DEF Forget
<1>2. S \in SUBSET live /\ (\A y \in live : parent[y] \in S => y \in S) /\ c \in S
  BY BelowFacts
<1>3. \A y \in live' : y \in Obj /\ y \in live /\ y \notin S
  BY <1>0, <1>1 DEF TypeOK
<1>4. \A x \in live' : dom'[x] = cache[x] /\ mdoc'[x] = mdoc[x]
  <2>1. \A y \in live \ S : cache[y] \in {NoDOM, dom[y]}
    OBVIOUS
  <2>. HIDE DEF S
  <2>. QED BY <1>0, <1>1, <1>2, <2>1, DestroyQuiet DEF S
<1>5. \A y \in S : parent[y] \in S \cup {p, Null}
  BY BelowFacts
<1>6. Change(p, S)
  <2>1. \A x \in live' : dom'[x] = IF p \in Below(x) THEN NoDOM ELSE dom[x]
    BY <1>3, <1>4
  <2>. HIDE DEF S
  <2>. QED BY <1>1, <1>2, <1>3, <1>5, <2>1 DEF Change
<1>7. p \in S \/ Kids(p)' # Kids(p)
  <2>1. CASE parent[c] = p
    BY <1>1, <1>2, <2>1 DEF Kids
  <2>. QED BY <1>2, <2>1
<1>8. \A y \in live' : parent[y] = p => parent'[y] = p
  BY <1>1, <1>3
<1>. HIDE DEF S
<1>. QED BY <1>2, <1>4, <1>6, <1>7, <1>8, ChangeCareful

LEMMA EraseCareful ==
    ASSUME CarefulInv, TypeOK', "erase" \notin Calls, NEW p \in live, NEW c \in live,
           Erase(p, c) \/ ClearChild(p, c)
    PROVE  CarefulStep
<1>0. TypeOK /\ NoHole
  BY DEF CarefulInv, Sound
<1>1. c \in live /\ parent[c] = p /\ Forget(Below(c), parent)
  BY DEF Erase, ClearChild, RemoveChild, Kids
<1>2. CASE ClearChild(p, c)
  <2>1. Destroy(Below(c), Without(dom, ThisAndParents(p)))
    BY <1>2 DEF ClearChild
  <2>2. \A x \in live : Without(dom, ThisAndParents(p))[x]
                            = IF p \in Below(x) THEN NoDOM ELSE dom[x]
    BY <1>0, ReleasedAbove
  <2>. QED BY <1>1, <2>1, <2>2, RemoveCareful
<1>3. CASE Erase(p, c)
  <2>1. Destroy(Below(c), Without(dom, ParentsReleased(p))) /\ dom[p] = NoDOM
    BY <1>3 DEF Erase, HasDOM
  <2>2. \A x \in live : Without(dom, ParentsReleased(p))[x]
                            = IF p \in Below(x) THEN NoDOM ELSE dom[x]
    BY <1>0, <2>1, ReleasedAbove
  <2>. QED BY <1>1, <2>1, <2>2, RemoveCareful
<1>. QED BY <1>2, <1>3

LEMMA DeleteTreeCareful ==
    ASSUME CarefulInv, TypeOK', NEW o \in live, DeleteTree(o)
    PROVE  CarefulStep
<1>1. parent[o] = Null /\ Forget(Below(o), parent) /\ Destroy(Below(o), dom)
  BY DEF DeleteTree, Delete, IsRoot
<1>2. ASSUME NEW x \in live \ Below(o) PROVE o \notin Below(x)
  <2>1. x # o /\ Null \notin Below(x)
    BY BelowFacts, NullAssumption DEF CarefulInv, Sound, TypeOK, NullAssumption
  <2>. QED BY <1>1, <2>1, BelowFacts
<1>. QED BY <1>1, <1>2, RemoveCareful

LEMMA ReassignChildCareful ==
    ASSUME CarefulInv, TypeOK', NEW p \in live, NEW old \in live, NEW new \in live,
           ReassignChild(p, old, new)
    PROVE  CarefulStep
<1>. DEFINE S == Below(old)
            cache == Without(dom, ThisAndParents(p))
<1>0. TypeOK /\ DocOwned /\ DOMAtHome /\ NoHole
  BY DEF CarefulInv, Sound
<1>1. /\ parent[old] = p /\ p \notin S
      /\ parent[new] = Null /\ p \notin Below(new)
      /\ Forget(S, [parent EXCEPT ![new] = p])
      /\ Destroy(S, cache)
  BY DEF ReassignChild, ReplaceChild, Addable, IsRoot, Kids
<1>2. /\ live' = live \ S
      /\ \A y \in Obj : parent'[y] = IF y \in S THEN Null ELSE [parent EXCEPT ![new] = p][y]
      /\ \A y \in Obj : value'[y] = IF y \in S THEN Null ELSE value[y]
  BY <1>1 DEF Forget
<1>3. S \in SUBSET live /\ (\A y \in live : parent[y] \in S => y \in S) /\ old \in S
  BY BelowFacts
<1>4. /\ \A y \in live' : y \in Obj /\ y \in live /\ y \notin S
      /\ Null \notin live /\ parent \in [Obj -> live \cup {Null}]
  BY <1>0, <1>2, NullAssumption DEF TypeOK, NullAssumption
<1>5. \A x \in live : cache[x] = IF p \in Below(x) THEN NoDOM ELSE dom[x]
  BY <1>0, ReleasedAbove
<1>. HIDE DEF S, cache
<1>6. \A x \in live' : dom'[x] = cache[x] /\ mdoc'[x] = mdoc[x]
  BY <1>0, <1>1, <1>2, <1>3, <1>5, DestroyQuiet
<1>7. \A y \in S : parent[y] \in S \cup {p, Null}
  BY <1>1, BelowFacts DEF S
<1>8. \A y \in live' : parent'[y] = IF y = new THEN p ELSE parent[y]
  BY <1>2, <1>4
<1>9. Change(p, S)
  <2>1. \A y \in live' : dom'[y] = IF p \in Below(y) THEN NoDOM ELSE dom[y]
    BY <1>4, <1>5, <1>6
  <2>. QED BY <1>1, <1>2, <1>3, <1>4, <1>7, <1>8, <2>1 DEF Change
<1>10. Kids(p)' # Kids(p)
  BY <1>1, <1>2, <1>3 DEF Kids
<1>11. \A y \in live' : parent[y] = p => parent'[y] = p
  BY <1>8
<1>. QED BY <1>3, <1>6, <1>9, <1>10, <1>11, ChangeCareful

\* A child that owns no document its own DOM is in becomes a root.
LEMMA DetachChildCareful ==
    ASSUME CarefulInv, TypeOK', "detach" \notin Calls, NEW c \in live, DetachChild(c)
    PROVE  CarefulStep
<1>. DEFINE p == parent[c]
            S == Below(p) \ Below(c)
            taken == mdoc[p]
            dropped == IF taken = Null THEN {} ELSE {mdoc[c]} \ {Null}
            gone == {mdoc[x] : x \in Below(p) \ (Below(c) \cup {p})} \ {Null}
<1>0. TypeOK /\ DocOwned /\ Acyclic /\ NoHole /\ CacheFaithful /\ DOMAtHome
  BY DEF CarefulInv, Sound
<1>1. /\ p \in live /\ parent[p] = Null
      /\ Forget(S, [parent EXCEPT ![c] = Null])
      /\ \A x \in Below(c) : dom[x].doc \notin dropped
      /\ mdoc' = [o \in Obj |-> IF o \in S THEN Null
                                ELSE IF o = c /\ taken # Null THEN taken ELSE mdoc[o]]
      /\ dom' = Dangle(Without(dom, S), gone \cup dropped)
  BY DEF DetachChild, Detach, IsRoot
<1>2. /\ live' = live \ S
      /\ \A y \in Obj : parent'[y] = IF y \in S THEN Null ELSE [parent EXCEPT ![c] = Null][y]
      /\ \A y \in Obj : value'[y] = IF y \in S THEN Null ELSE value[y]
  BY <1>1 DEF Forget
<1>3. /\ live \subseteq Obj /\ Null \notin live /\ parent \in [Obj -> live \cup {Null}]
      /\ S \subseteq live /\ p # c
  BY <1>0, <1>1, BelowFacts, NullAssumption DEF TypeOK, NullAssumption
<1>4. \A y \in live : p \in Below(y) => y = p
  BY <1>1, <1>3, BelowFacts
<1>5. p \in S /\ c \notin S
  BY <1>1, <1>3, <1>4, BelowFacts
\* What is above something that stays is p, or stays too.
<1>6. ASSUME NEW x \in live \ S, NEW a \in S, x \in Below(a) PROVE x \in Below(c) /\ a = p
  <2>1. x \in Below(p)
    BY <1>1, <1>6, BelowFacts
  <2>2. x \in Below(c)
    BY <1>6, <2>1
  <2>3. c \in Below(a)
    BY <1>3, <1>6, <2>2, BelowFacts
  <2>4. p \in Below(a)
    BY <1>3, <1>5, <1>6, <2>3, BelowFacts
  <2>. QED BY <1>3, <1>4, <1>6, <2>2, <2>4
<1>7. \A x \in live : HasDOM(x) /\ dom[x].doc \notin CallerDoc =>
          \E a \in live : x \in Below(a) /\ mdoc[a] = dom[x].doc /\ mdoc[a] # Null
  BY <1>0 DEF DOMAtHome, Above
<1>8. ASSUME NEW x \in live', HasDOM(x), dom[x].doc \in gone \cup dropped PROVE FALSE
  <2>0. \A d \in gone \cup dropped : d \in LibDoc
    BY <1>0, <1>3 DEF TypeOK
  <2>1. PICK a \in live : x \in Below(a) /\ mdoc[a] = dom[x].doc /\ mdoc[a] # Null
    BY <1>2, <1>7, <1>8, <2>0, DOMAssumption DEF DOMAssumption
  <2>2. CASE dom[x].doc \in gone
    <3>1. PICK s \in S \ {p} : mdoc[s] = dom[x].doc
      BY <2>2
    <3>2. a = s
      BY <1>0, <1>3, <2>1, <3>1 DEF DocOwned
    <3>. QED BY <1>2, <1>6, <2>1, <3>1, <3>2
  <2>3. CASE dom[x].doc \in dropped
    <3>1. a = c
      BY <1>0, <2>1, <2>3 DEF DocOwned
    <3>. QED BY <1>1, <2>1, <2>3, <3>1
  <2>. QED BY <1>8, <2>2, <2>3
<1>9. ASSUME NEW x \in live' PROVE dom'[x] = dom[x]
  <2>1. x \in Obj /\ x \notin S
    BY <1>2, <1>3
  <2>2. NoDOM.doc \notin gone \cup dropped
    BY DEF NoDOM
  <2>3. dom[x].doc \notin gone \cup dropped
    BY <1>8, <2>2 DEF HasDOM
  <2>4. dom'[x] = IF dom[x].doc \in gone \cup dropped
                  THEN [dom[x] EXCEPT !.doc = Freed] ELSE dom[x]
    BY <1>1, <2>1 DEF Dangle, Without
  <2>. QED BY <2>3, <2>4
<1>10. \A x \in live' : /\ x \in live /\ x \in Obj /\ x \notin S
                        /\ p \notin Below(x)
                        /\ parent'[x] = (IF x = c THEN Null ELSE parent[x])
                        /\ value'[x] = value[x]
                        /\ mdoc'[x] = IF x = c /\ taken # Null THEN taken ELSE mdoc[x]
  BY <1>1, <1>2, <1>3, <1>4, <1>5
<1>11. \A y \in S : parent[y] \in S \cup {p, Null}
  <2>. SUFFICES ASSUME NEW y \in S, y # p PROVE parent[y] \in S
    BY <1>1
  <2>1. parent[y] \in Below(p)
    BY <1>1, BelowFacts
  <2>2. parent[y] \notin Below(c)
    BY <1>3, BelowFacts
  <2>. QED BY <2>1, <2>2
<1>12. Change(p, S)
  <2>. HIDE DEF S, p
  <2>. QED BY <1>1, <1>2, <1>3, <1>9, <1>10, <1>11 DEF Change, p
<1>13. Acyclic' /\ NoHole' /\ CacheFaithful' /\ Preserved
  <2>. HIDE DEF S, p
  <2>. QED BY <1>0, <1>5, <1>12, ChangeAcyclic, ChangeFaithful, ChangeShown DEF Preserved
<1>14. \A x \in live' : Below(x)' = Below(x)
  <2>. HIDE DEF S, p
  <2>. QED BY <1>0, <1>10, <1>12, ChangeElsewhere
<1>15. ASSUME NEW x \in live', HasDOM(x)', dom'[x].doc \notin CallerDoc
       PROVE  \E a \in Above(x)' : mdoc'[a] = dom'[x].doc /\ mdoc'[a] # Null
  <2>1. HasDOM(x) /\ dom'[x] = dom[x] /\ x \in live \ S
    BY <1>9, <1>10, <1>15 DEF HasDOM
  <2>2. PICK a \in live : x \in Below(a) /\ mdoc[a] = dom[x].doc /\ mdoc[a] # Null
    BY <1>7, <1>15, <2>1
  <2>3. \A b \in live' : x \in Below(b) => b \in Above(x)'
    BY <1>14 DEF Above
  <2>4. c \in live'
    BY <1>2, <1>5
  <2>5. CASE a \in S
    <3>1. x \in Below(c) /\ a = p
      BY <1>6, <2>1, <2>2, <2>5
    <3>2. mdoc'[c] = mdoc[p] /\ taken # Null
      BY <1>10, <2>2, <2>4, <3>1
    <3>. QED BY <2>1, <2>2, <2>3, <2>4, <3>1, <3>2
  <2>6. CASE a \notin S
    <3>1. a \in live'
      BY <1>2, <2>2, <2>6
    <3>2. a # c \/ taken = Null
      BY <1>1, <2>2
    <3>3. mdoc'[a] = mdoc[a]
      BY <1>10, <3>1, <3>2
    <3>. QED BY <2>1, <2>2, <2>3, <3>1, <3>3
  <2>. QED BY <2>5, <2>6
<1>. QED BY <1>13, <1>15 DEF CarefulStep, Sound, DOMAtHome
-----------------------------------------------------------------------------
(***************************************************************************)
(* Where the tree stays as it is, and only the DOM changes.                *)
(***************************************************************************)
LEMMA SameTree ==
    ASSUME UNCHANGED <<live, parent, value>>
    PROVE  \A x : /\ Below(x)' = Below(x) /\ Above(x)' = Above(x)
                  /\ Kids(x)' = Kids(x) /\ View(x)' = View(x)
BY DEF Below, Above, Kids, View

\* What must be shown of the new DOMs.
LEMMA CacheOnlySound ==
    ASSUME CarefulInv, UNCHANGED <<live, parent, value>>,
           \A x \in live : parent[x] # Null /\ dom'[parent[x]] # NoDOM => dom'[x] # NoDOM,
           \A x \in live : dom'[x] # NoDOM =>
               /\ dom'[x].view = View(x)
               /\ \/ dom'[x].doc \in CallerDoc
                  \/ \E a \in Above(x) : mdoc'[a] = dom'[x].doc /\ mdoc'[a] # Null
    PROVE  Sound'
<1>1. Acyclic'
  BY SameTree DEF CarefulInv, Sound, Acyclic
<1>2. NoHole'
  BY DEF NoHole, HasDOM
<1>3. CacheFaithful'
  BY SameTree DEF CacheFaithful, HasDOM
<1>4. DOMAtHome'
  BY SameTree DEF DOMAtHome, HasDOM
<1>. QED BY <1>1, <1>2, <1>3, <1>4 DEF Sound

LEMMA ReleaseSound ==
    ASSUME CarefulInv, UNCHANGED <<live, parent, value, mdoc>>,
           \A x \in live : dom'[x] \in {NoDOM, dom[x]},
           \A x \in live : parent[x] # Null /\ dom'[x] = NoDOM => dom'[parent[x]] = NoDOM
    PROVE  Sound'
<1>1. \A x \in live : dom'[x] # NoDOM =>
               /\ dom'[x].view = View(x)
               /\ \/ dom'[x].doc \in CallerDoc
                  \/ \E a \in Above(x) : mdoc'[a] = dom'[x].doc /\ mdoc'[a] # Null
  BY DEF CarefulInv, Sound, CacheFaithful, DOMAtHome, HasDOM
<1>. QED BY <1>1, CacheOnlySound

LEMMA ReleaseAboveSound ==
    ASSUME CarefulInv, UNCHANGED <<live, parent, value, mdoc>>, NEW o \in live,
           dom' = Without(dom, ThisAndParents(o)) \/ dom' = Without(dom, ParentsReleased(o))
    PROVE  Sound'
<1>0. TypeOK /\ NoHole
  BY DEF CarefulInv, Sound
<1>1. \A x \in live : parent[x] # Null => parent[x] \in live /\ Below(x) \subseteq Below(parent[x])
  <2>1. \A x \in live : parent[x] # Null => parent[x] \in live
    BY <1>0 DEF TypeOK
  <2>2. \A x \in live : parent[x] # Null => x \in Below(parent[x])
    BY <2>1, BelowFacts
  <2>. QED BY <2>1, <2>2, BelowFacts
<1>2. \A x \in live : parent[x] # Null /\ dom[x] = NoDOM => dom[parent[x]] = NoDOM
  BY <1>0 DEF NoHole, HasDOM
<1>3. CASE dom' = Without(dom, ThisAndParents(o))
  <2>1. \A x \in live : dom'[x] = IF o \in Below(x) THEN NoDOM ELSE dom[x]
    BY <1>0, <1>3, ReleasedAbove
  <2>. QED BY <1>1, <1>2, <2>1, ReleaseSound
<1>4. CASE dom' = Without(dom, ParentsReleased(o))
  <2>1. \A x \in live : dom'[x] = IF o \in Below(x) /\ x # o THEN NoDOM ELSE dom[x]
    BY <1>0, <1>4, ReleasedAbove
  <2>2. \A x \in live : parent[x] # Null /\ o \in Below(x) => parent[x] # o
    <3>1. Acyclic
      BY DEF CarefulInv, Sound
    <3>. QED BY <3>1 DEF Acyclic
  <2>. QED BY <1>1, <1>2, <2>1, <2>2, ReleaseSound
<1>. QED BY <1>3, <1>4

LEMMA ReleasesSound ==
    ASSUME CarefulInv, "releaseDOM" \notin Calls, NEW o \in live,
           ReleaseDOM(o) \/ ReleaseThisAndParents(o) \/ ReleaseThisAndChildren(o)
    PROVE  Sound'
<1>0. TypeOK /\ NoHole /\ \A x \in live : x \in Obj
  BY DEF CarefulInv, Sound, TypeOK
<1>1. CASE ReleaseThisAndParents(o)
  BY <1>1, ReleaseAboveSound DEF ReleaseThisAndParents, Release, Silent
<1>2. ASSUME NEW R, o \in R, \A x \in R \ {o} : parent[x] \in R \cup {Null},
             ~(~IsRoot(o) /\ HasDOM(parent[o])), Release(R)
      PROVE  Sound'
  <2>1. UNCHANGED <<live, parent, value, mdoc>> /\ dom' = Without(dom, R)
    BY <1>2 DEF Release, Silent
  <2>2. \A x \in live : dom'[x] = IF x \in R THEN NoDOM ELSE dom[x]
    BY <1>0, <2>1 DEF Without
  <2>3. ASSUME NEW x \in live, parent[x] # Null, dom'[x] = NoDOM
        PROVE  dom'[parent[x]] = NoDOM
    <3>0. parent[x] \in live
      BY <1>0, <2>3 DEF TypeOK
    <3>1. CASE x \in R /\ x # o
      BY <1>2, <2>2, <2>3, <3>0, <3>1
    <3>2. CASE x = o
      BY <1>2, <2>2, <2>3, <3>0, <3>2 DEF IsRoot, HasDOM
    <3>3. CASE x \notin R
      BY <1>0, <2>2, <2>3, <3>0, <3>3 DEF NoHole, HasDOM
    <3>. QED BY <3>1, <3>2, <3>3
  <2>. QED BY <2>1, <2>2, <2>3, ReleaseSound
<1>3. CASE ReleaseDOM(o)
  BY <1>2, <1>3 DEF ReleaseDOM
<1>4. CASE ReleaseThisAndChildren(o)
  BY <1>2, <1>4, BelowFacts DEF ReleaseThisAndChildren
<1>. QED BY <1>1, <1>3, <1>4
-----------------------------------------------------------------------------
(***************************************************************************)
(* Marshalling.  Whatever is reused, what is rendered is the view.         *)
(***************************************************************************)
LEMMA BuildFacts ==
    ASSUME TypeOK, NoHole, NEW o \in live, NEW d
    PROVE  /\ Rebuilt(o, d) \subseteq Below(o)
           /\ \A y \in Reused(o, d) : y \in Below(o) /\ HasDOM(y) /\ dom[y].doc = d
           /\ \A x \in Below(o) \ Rebuilt(o, d) : HasDOM(x)
           /\ \A x \in Below(o) \ Rebuilt(o, d) : \E y \in Reused(o, d) : x \in Below(y)
<1>1. Rebuilt(o, d) \subseteq Below(o)
  BY DEF Rebuilt
<1>2. \A y \in Reused(o, d) : y \in Below(o) /\ HasDOM(y) /\ dom[y].doc = d
  BY DEF Reused, TopDOM
<1>3. \A x \in Below(o) \ Rebuilt(o, d) : \E y \in Reused(o, d) : x \in Below(y)
  BY DEF Rebuilt
<1>4. \A y \in Reused(o, d) : y \in live
  BY <1>2, BelowFacts
<1>5. \A x \in Below(o) \ Rebuilt(o, d) : HasDOM(x)
  BY <1>2, <1>3, <1>4, BelowDOM
<1>. QED BY <1>1, <1>2, <1>3, <1>5

LEMMA RenderingIsView ==
    ASSUME CarefulInv, NEW o \in live, NEW d, NEW x \in Rebuilt(o, d)
    PROVE  Rendering(o, d, x) = View(x)
<1>. DEFINE entry(y) == <<y, value[y], Kids(y)>>
            fresh == Rebuilt(o, d) \cap Below(x)
            reused == Reused(o, d) \cap Below(x)
<1>0. TypeOK /\ NoHole /\ CacheFaithful
  BY DEF CarefulInv, Sound
<1>1. /\ x \in Below(o) /\ x \in live
      /\ \A y \in Reused(o, d) : y \in live /\ HasDOM(y)
  BY <1>0, BuildFacts, BelowFacts
<1>2. \A y \in Reused(o, d) : x \notin Below(y)
  BY DEF Rebuilt
<1>3. \A y \in reused : dom[y].view = {entry(z) : z \in Below(y)}
  BY <1>0, <1>1 DEF CacheFaithful, View
<1>4. Below(x) = fresh \cup UNION {Below(y) : y \in reused}
  <2>1. ASSUME NEW z \in Below(x), z \notin Rebuilt(o, d)
        PROVE  \E y \in reused : z \in Below(y)
    <3>1. z \in Below(o)
      BY <1>1, BelowFacts
    <3>2. PICK y \in Reused(o, d) : z \in Below(y)
      BY <1>0, <2>1, <3>1, BuildFacts
    <3>3. y \in Below(x)
      BY <1>1, <1>2, <3>2, BelowFacts
    <3>. QED BY <3>2, <3>3
  <2>2. \A y \in reused : Below(y) \subseteq Below(x)
    BY BelowFacts
  <2>. QED BY <2>1, <2>2
<1>5. Rendering(o, d, x) = {entry(z) : z \in fresh} \cup UNION {dom[y].view : y \in reused}
  BY DEF Rendering
<1>6. UNION {dom[y].view : y \in reused} = UNION {{entry(z) : z \in Below(y)} : y \in reused}
  BY <1>3
<1>. HIDE DEF fresh, reused, entry
<1>7. {entry(z) : z \in fresh \cup UNION {Below(y) : y \in reused}}
        = {entry(z) : z \in fresh} \cup UNION {{entry(z) : z \in Below(y)} : y \in reused}
  OBVIOUS
<1>8. View(x) = {entry(z) : z \in Below(x)}
  BY DEF View, entry
<1>. QED BY <1>4, <1>5, <1>6, <1>7, <1>8

\* The DOM that is built is that of the tree as it is.
LEMMA BuiltDOM ==
    ASSUME CarefulInv, NEW o \in live, NEW d \in LibDoc \cup CallerDoc, NEW x \in live
    PROVE  /\ x \in Rebuilt(o, d) => BuildDOM(o, d)[x] = [doc |-> d, view |-> View(x)]
           /\ x \notin Rebuilt(o, d) => BuildDOM(o, d)[x] = dom[x]
           /\ x \in Below(o) => BuildDOM(o, d)[x] # NoDOM
           /\ x \notin Below(o) => BuildDOM(o, d)[x] = dom[x]
           /\ BuildDOM(o, d)[x] # NoDOM => BuildDOM(o, d)[x].view = View(x)
           /\ BuildDOM(o, d)[x] = dom[x] \/ BuildDOM(o, d)[x].doc = d
<1>0. TypeOK /\ NoHole /\ CacheFaithful
  BY DEF CarefulInv, Sound
<1>1. x \in Obj
  BY <1>0 DEF TypeOK
<1>2. x \in Rebuilt(o, d) => BuildDOM(o, d)[x] = [doc |-> d, view |-> View(x)]
  BY <1>1, RenderingIsView DEF BuildDOM
<1>3. x \notin Rebuilt(o, d) => BuildDOM(o, d)[x] = dom[x]
  BY <1>1 DEF BuildDOM
<1>4. [doc |-> d, view |-> View(x)] # NoDOM
  BY DOMAssumption DEF NoDOM, DOMAssumption
<1>5. x \in Below(o) \ Rebuilt(o, d) => dom[x] # NoDOM
  BY <1>0, BuildFacts DEF HasDOM
<1>6. x \notin Below(o) => x \notin Rebuilt(o, d)
  BY DEF Rebuilt
<1>7. dom[x] # NoDOM => dom[x].view = View(x)
  BY <1>0 DEF CacheFaithful, HasDOM
<1>. QED BY <1>2, <1>3, <1>4, <1>5, <1>6, <1>7

LEMMA BuildSound ==
    ASSUME CarefulInv, UNCHANGED <<live, parent, value>>,
           NEW o \in live, NEW d \in LibDoc \cup CallerDoc,
           \A x \in live : dom'[x] = IF o \in Below(x) /\ x # o THEN NoDOM
                                     ELSE BuildDOM(o, d)[x],
           \A x \in live : dom'[x] # NoDOM =>
               \/ dom'[x].doc \in CallerDoc
               \/ \E a \in Above(x) : mdoc'[a] = dom'[x].doc /\ mdoc'[a] # Null
    PROVE  Sound'
<1>0. TypeOK /\ NoHole /\ Acyclic
  BY DEF CarefulInv, Sound
<1>. DEFINE built == BuildDOM(o, d)
<1>b. /\ \A x \in live : built[x] # NoDOM => built[x].view = View(x)
      /\ \A x \in Below(o) : built[x] # NoDOM
      /\ \A x \in live \ Below(o) : built[x] = dom[x]
  <2>1. ASSUME NEW x \in live
        PROVE  /\ built[x] # NoDOM => built[x].view = View(x)
               /\ x \in Below(o) => built[x] # NoDOM
               /\ x \notin Below(o) => built[x] = dom[x]
    BY BuiltDOM
  <2>. QED BY <2>1, BelowFacts
<1>. HIDE DEF built
<1>c. \A x \in live : dom'[x] = IF o \in Below(x) /\ x # o THEN NoDOM ELSE built[x]
  BY DEF built
<1>1. \A x \in live : dom'[x] # NoDOM => dom'[x].view = View(x)
  BY <1>b, <1>c
<1>2. ASSUME NEW x \in live, parent[x] # Null, dom'[parent[x]] # NoDOM PROVE dom'[x] # NoDOM
  <2>. DEFINE q == parent[x]
  <2>1. q \in live /\ x \in Below(q)
    BY <1>0, <1>2, BelowFacts DEF TypeOK
  <2>2. ~(o \in Below(q) /\ q # o) /\ dom'[q] = built[q]
    BY <1>2, <1>c, <2>1
  <2>3. o \in Below(x) => x = o
    <3>1. SUFFICES ASSUME o \in Below(x) PROVE x = o
      OBVIOUS
    <3>2. q = o
      BY <2>1, <2>2, <3>1, BelowFacts
    <3>. QED BY <1>0, <2>1, <3>1, <3>2 DEF Acyclic
  <2>4. dom'[x] = built[x]
    BY <1>c, <2>3
  <2>5. CASE x \in Below(o)
    BY <1>b, <2>4, <2>5
  <2>6. CASE x \notin Below(o)
    <3>1. q \notin Below(o)
      BY <2>6, BelowFacts
    <3>2. dom[q] # NoDOM
      BY <1>2, <1>b, <2>1, <2>2, <3>1
    <3>3. dom[x] # NoDOM
      BY <1>0, <1>2, <3>2 DEF NoHole, HasDOM
    <3>. QED BY <1>b, <2>4, <2>6, <3>3
  <2>. QED BY <2>5, <2>6
<1>. QED BY <1>1, <1>2, CacheOnlySound

\* The parents release theirs: what they have is not below o.
LEMMA BuiltBelow ==
    ASSUME CarefulInv, NEW o \in live, NEW d \in LibDoc \cup CallerDoc, NEW x \in live
    PROVE  Without(BuildDOM(o, d), ParentsReleased(o))[x] =
               IF o \in Below(x) /\ x # o THEN NoDOM ELSE BuildDOM(o, d)[x]
<1>0. TypeOK /\ NoHole /\ Acyclic
  BY DEF CarefulInv, Sound
<1>1. x \in Obj
  BY <1>0 DEF TypeOK
<1>2. x \in ParentsReleased(o) => o \in Below(x) /\ x # o
  BY DEF ParentsReleased, Above
<1>3. ASSUME o \in Below(x), x # o PROVE BuildDOM(o, d)[x] = dom[x]
  <2>1. x \notin Below(o)
    <3>1. parent[o] \in Below(x)
      BY <1>3, BelowFacts
    <3>. QED BY <1>0, <3>1, BelowFacts DEF Acyclic
  <2>. QED BY <2>1, BuiltDOM
<1>4. Without(dom, ParentsReleased(o))[x] = IF o \in Below(x) /\ x # o THEN NoDOM ELSE dom[x]
  BY <1>0, ReleasedAbove
<1>. QED BY <1>1, <1>2, <1>3, <1>4 DEF Without

LEMMA MarshallIntoSound ==
    ASSUME CarefulInv, NEW o \in live, NEW d, MarshallInto(o, d)
    PROVE  Sound' /\ out'.view = View(o)
<1>0. TypeOK /\ NoHole /\ DOMAtHome
  BY DEF CarefulInv, Sound
<1>1. /\ UNCHANGED <<live, parent, value>> /\ mdoc' = mdoc
      /\ d \in CallerDoc /\ d \in LibDoc \cup CallerDoc
      /\ dom' = Without(BuildDOM(o, d), ParentsReleased(o))
  BY DEF MarshallInto
<1>2. \A x \in live : dom'[x] = IF o \in Below(x) /\ x # o THEN NoDOM ELSE BuildDOM(o, d)[x]
  BY <1>1, BuiltBelow
<1>3. \A x \in live : BuildDOM(o, d)[x] = dom[x] \/ BuildDOM(o, d)[x].doc = d
  BY <1>1, BuiltDOM
<1>4. \A x \in live : dom'[x] # NoDOM =>
               \/ dom'[x].doc \in CallerDoc
               \/ \E a \in Above(x) : mdoc'[a] = dom'[x].doc /\ mdoc'[a] # Null
  BY <1>0, <1>1, <1>2, <1>3 DEF DOMAtHome, HasDOM
<1>5. Sound'
  BY <1>1, <1>2, <1>4, BuildSound
<1>6. ASSUME NEW y \in Reused(o, d), o \in Below(y) PROVE FALSE
  <2>1. y \in Below(o) /\ HasDOM(y) /\ dom[y].doc = d /\ y \in live
    BY <1>0, BuildFacts, BelowFacts
  <2>2. y # o
    BY <2>1 DEF MarshallInto
  <2>3. parent[y] \in Below(y)
    BY <1>6, <2>1, <2>2, BelowFacts
  <2>. QED BY <2>1, <2>3 DEF CarefulInv, Sound, Acyclic
<1>7. o \in Rebuilt(o, d)
  BY <1>6, BelowFacts DEF Rebuilt
<1>. QED BY <1>5, <1>7, RenderingIsView DEF MarshallInto

LEMMA MarshallNewSound ==
    ASSUME CarefulInv, NEW o \in live, NEW d, MarshallNew(o, d)
    PROVE  Sound' /\ out'.view = View(o)
<1>. DEFINE old == {mdoc[o]} \ {Null}
            built == Without(BuildDOM(o, d), ParentsReleased(o))
<1>0. TypeOK /\ NoHole /\ DOMAtHome /\ DocOwned /\ live \subseteq Obj
  BY DEF CarefulInv, Sound, TypeOK
<1>1. /\ UNCHANGED <<live, parent, value>> /\ mdoc' = [mdoc EXCEPT ![o] = d]
      /\ d \in LibDoc /\ d \notin docs /\ d \in LibDoc \cup CallerDoc /\ d # Null
      /\ dom' = Dangle(built, old)
  BY DOMAssumption DEF MarshallNew, DOMAssumption
<1>2. \A x \in live : HasDOM(x) /\ dom[x].doc \notin CallerDoc =>
          \E a \in live : x \in Below(a) /\ mdoc[a] = dom[x].doc /\ mdoc[a] # Null
  BY <1>0 DEF DOMAtHome, Above
<1>3. \A a \in live : mdoc[a] # d
  BY <1>0, <1>1 DEF DocOwned
<1>4. \A x \in live : HasDOM(x) => dom[x].doc # d
  BY <1>1, <1>2, <1>3, DOMAssumption DEF DOMAssumption
<1>5. Rebuilt(o, d) = Below(o)
  BY <1>0, <1>4, BuildFacts, BelowFacts DEF Rebuilt
<1>6. ASSUME NEW x \in live
      PROVE  /\ built[x] = IF o \in Below(x) /\ x # o THEN NoDOM ELSE BuildDOM(o, d)[x]
             /\ built[x] # NoDOM => \/ x \in Below(o) /\ built[x].doc = d
                                    \/ x \notin Below(o) /\ built[x] = dom[x] /\ HasDOM(x)
  <2>1. built[x] = IF o \in Below(x) /\ x # o THEN NoDOM ELSE BuildDOM(o, d)[x]
    BY <1>1, BuiltBelow
  <2>2. ASSUME x \in Below(o) PROVE BuildDOM(o, d)[x].doc = d
    <3>1. BuildDOM(o, d)[x] = [doc |-> d, view |-> View(x)]
      BY <1>1, <1>5, <2>2, BuiltDOM
    <3>. QED BY <3>1
  <2>3. x \notin Below(o) => BuildDOM(o, d)[x] = dom[x]
    BY <1>1, BuiltDOM
  <2>. HIDE DEF built
  <2>. QED BY <2>1, <2>2, <2>3 DEF HasDOM
<1>. HIDE DEF built
<1>7. ASSUME NEW x \in live, built[x] # NoDOM, x \notin Below(o), dom[x].doc \notin CallerDoc
      PROVE  \E a \in live \ {o} : x \in Below(a) /\ mdoc[a] = dom[x].doc /\ mdoc[a] # Null
  BY <1>2, <1>6, <1>7
<1>8. ASSUME NEW x \in live, built[x] # NoDOM PROVE built[x].doc \notin old
  <2>1. SUFFICES ASSUME mdoc[o] # Null, built[x].doc = mdoc[o] PROVE FALSE
    OBVIOUS
  <2>2. mdoc[o] \in docs /\ mdoc[o] \in LibDoc
    BY <1>0, <2>1 DEF DocOwned, TypeOK
  <2>3. x \notin Below(o) /\ built[x] = dom[x]
    BY <1>1, <1>6, <1>8, <2>1, <2>2
  <2>4. mdoc[o] \notin CallerDoc
    BY <2>2, DOMAssumption DEF DOMAssumption
  <2>5. PICK a \in live \ {o} : mdoc[a] = dom[x].doc
    BY <1>7, <1>8, <2>1, <2>3, <2>4
  <2>. QED BY <1>0, <2>1, <2>3, <2>5 DEF DocOwned
<1>9. \A x \in live : dom'[x] = built[x]
  <2>. SUFFICES ASSUME NEW x \in live PROVE dom'[x] = built[x]
    OBVIOUS
  <2>1. dom'[x] = IF built[x].doc \in old THEN [built[x] EXCEPT !.doc = Freed] ELSE built[x]
    BY <1>0, <1>1 DEF Dangle
  <2>2. NoDOM.doc \notin old
    BY DEF NoDOM
  <2>. QED BY <1>8, <2>1, <2>2
<1>10. ASSUME NEW x \in live, dom'[x] # NoDOM
       PROVE  \/ dom'[x].doc \in CallerDoc
              \/ \E a \in Above(x) : mdoc'[a] = dom'[x].doc /\ mdoc'[a] # Null
  <2>0. \A a \in live : mdoc'[a] = IF a = o THEN d ELSE mdoc[a]
    BY <1>0, <1>1 DEF TypeOK
  <2>1. CASE x \in Below(o)
    <3>1. o \in Above(x)
      BY <2>1 DEF Above
    <3>2. dom'[x].doc = d
      BY <1>6, <1>9, <1>10, <2>1
    <3>3. mdoc'[o] = d
      BY <2>0
    <3>. QED BY <1>1, <3>1, <3>2, <3>3
  <2>2. CASE x \notin Below(o) /\ dom[x].doc \notin CallerDoc
    <3>1. PICK a \in live \ {o} : x \in Below(a) /\ mdoc[a] = dom[x].doc /\ mdoc[a] # Null
      BY <1>7, <1>9, <1>10, <2>2
    <3>2. a \in Above(x)
      BY <3>1 DEF Above
    <3>. QED BY <1>6, <1>9, <1>10, <2>0, <2>2, <3>1, <3>2
  <2>3. CASE x \notin Below(o) /\ dom[x].doc \in CallerDoc
    BY <1>6, <1>9, <1>10, <2>3
  <2>. QED BY <2>1, <2>2, <2>3
<1>11. Sound'
  <2>1. \A x \in live : dom'[x] = IF o \in Below(x) /\ x # o THEN NoDOM ELSE BuildDOM(o, d)[x]
    BY <1>6, <1>9
  <2>. QED BY <1>1, <1>10, <2>1, BuildSound
<1>12. Rendering(o, d, o) = View(o)
  BY <1>5, BelowFacts, RenderingIsView
<1>. QED BY <1>11, <1>12 DEF MarshallNew

LEMMA MarshallCachedSound ==
    ASSUME CarefulInv, NEW o \in live, MarshallCached(o)
    PROVE  Sound' /\ out'.view = View(o)
<1>1. UNCHANGED <<live, parent, value, mdoc>>
  BY DEF MarshallCached
<1>2. CASE dom' = dom
  <2>1. \A x \in live : parent[x] # Null /\ dom'[x] = NoDOM => dom'[parent[x]] = NoDOM
    BY <1>2 DEF CarefulInv, Sound, NoHole, HasDOM
  <2>. QED BY <1>1, <1>2, <2>1, ReleaseSound DEF MarshallCached, CarefulInv, Sound, CacheFaithful
<1>3. CASE dom' = Without(dom, ParentsReleased(o))
  BY <1>1, <1>3, ReleaseAboveSound DEF MarshallCached, CarefulInv, Sound, CacheFaithful
<1>. QED BY <1>2, <1>3 DEF MarshallCached

\* What an exception leaves: some siblings are done, what was in the way is gone.
LEMMA ThrowSound ==
    ASSUME CarefulInv, UNCHANGED <<live, parent, value, mdoc>>,
           NEW o \in live, NEW d \in LibDoc \cup CallerDoc, NEW f \in Below(o),
           NEW K \in SUBSET Below(o), K = {} \/ d \in CallerDoc,
           HasDOM(o) => parent[o] = Null,
           \A x \in live : dom'[x] = AfterThrow(o, d, f, K)[x]
    PROVE  Sound'
<1>. DEFINE done == UNION {Below(k) : k \in K}
            dropped == UNION {Below(y) : y \in {z \in Path(o, f) : HasDOM(z)}}
            built == BuildDOM(o, d)
<1>0. /\ TypeOK /\ NoHole /\ DOMAtHome /\ live \subseteq Obj /\ Null \notin live
      /\ CacheFaithful
  BY NullAssumption DEF CarefulInv, Sound, TypeOK, NullAssumption
<1>1. \A x \in live : dom'[x] = IF x \in done THEN built[x]
                                ELSE IF x \in dropped THEN NoDOM ELSE dom[x]
  BY <1>0 DEF AfterThrow
<1>2. ASSUME NEW x \in live
      PROVE  /\ built[x] # NoDOM => built[x].view = View(x)
             /\ x \in Below(o) => built[x] # NoDOM
             /\ built[x] = dom[x] \/ built[x].doc = d
  BY BuiltDOM
<1>3. done \subseteq Below(o) /\ \A c \in live : parent[c] \in done => c \in done
  BY BelowFacts
<1>4. \A c \in live : parent[c] \in dropped => c \in dropped
  BY BelowFacts
<1>5. ASSUME NEW x \in dropped, x \in live, parent[x] # Null, HasDOM(parent[x])
      PROVE  parent[x] \in dropped
  <2>1. PICK y \in Path(o, f) : HasDOM(y) /\ x \in Below(y)
    BY <1>5
  <2>2. y \in live /\ y \in Below(o) /\ f \in Below(y)
    BY <2>1 DEF Path, Above
  <2>3. CASE x # y
    BY <2>1, <2>2, <2>3, BelowFacts
  <2>4. CASE x = y
    <3>1. y # o
      BY <1>5, <2>1, <2>4
    <3>2. parent[y] \in live /\ parent[y] \in Below(o) /\ f \in Below(parent[y])
      BY <2>2, <3>1, BelowFacts
    <3>3. parent[y] \in Path(o, f)
      BY <3>2 DEF Path, Above
    <3>4. parent[y] \in Below(parent[y])
      BY <3>2, BelowFacts
    <3>. QED BY <1>5, <2>4, <3>3, <3>4
  <2>. QED BY <2>3, <2>4
<1>. HIDE DEF dropped, built
<1>6. ASSUME NEW x \in live, parent[x] # Null, dom'[parent[x]] # NoDOM PROVE dom'[x] # NoDOM
  <2>0. parent[x] \in live
    BY <1>0, <1>6 DEF TypeOK
  <2>1. CASE x \in done
    BY <1>1, <1>2, <1>3, <2>1
  <2>2. CASE x \notin done
    <3>1. parent[x] \notin done /\ parent[x] \notin dropped /\ dom[parent[x]] # NoDOM
      BY <1>1, <1>3, <1>6, <2>0, <2>2
    <3>2. dom[x] # NoDOM
      BY <1>0, <1>6, <3>1 DEF NoHole, HasDOM
    <3>3. x \notin dropped
      BY <1>5, <1>6, <3>1 DEF HasDOM
    <3>. QED BY <1>1, <2>2, <3>2, <3>3
  <2>. QED BY <2>1, <2>2
<1>7. ASSUME NEW x \in live, dom'[x] # NoDOM
      PROVE  /\ dom'[x].view = View(x)
             /\ \/ dom'[x].doc \in CallerDoc
                \/ \E a \in Above(x) : mdoc'[a] = dom'[x].doc /\ mdoc'[a] # Null
  <2>1. CASE dom'[x] = dom[x]
    BY <1>0, <1>7, <2>1 DEF CacheFaithful, DOMAtHome, HasDOM
  <2>2. CASE x \in done /\ dom'[x] # dom[x]
    <3>1. d \in CallerDoc
      BY <2>2
    <3>. QED BY <1>1, <1>2, <1>7, <2>2, <3>1
  <2>. QED BY <1>1, <1>7, <2>1, <2>2
<1>. QED BY <1>6, <1>7, CacheOnlySound

LEMMA MarshallThrowsSound ==
    ASSUME CarefulInv, "throw" \notin Calls, NEW o \in live, MarshallThrows(o)
    PROVE  Sound'
<1>0. TypeOK /\ DocOwned /\ DOMAtHome /\ live \subseteq Obj
  BY DEF CarefulInv, Sound, TypeOK
<1>1. PICK f \in Below(o) : \E K \in Siblings(o, f), d \in LibDoc \cup CallerDoc :
               ThrowNew(o, d, f, K) \/ ThrowInto(o, d, f, K)
  BY DEF MarshallThrows
<1>2. PICK K \in Siblings(o, f), d \in LibDoc \cup CallerDoc :
               ThrowNew(o, d, f, K) \/ ThrowInto(o, d, f, K)
  BY <1>1
<1>3. UNCHANGED <<live, parent, value, mdoc>>
  BY DEF MarshallThrows, Silent
<1>4. K \in SUBSET Below(o)
  <2>1. Kids(o) \subseteq Below(o)
    BY BelowFacts DEF Kids
  <2>. QED BY <2>1 DEF Siblings
<1>5. CASE ThrowInto(o, d, f, K)
  <2>1. d \in CallerDoc /\ (HasDOM(o) => parent[o] = Null) /\ dom' = AfterThrow(o, d, f, K)
    BY <1>5 DEF ThrowInto, IsRoot
  <2>. QED BY <1>3, <1>4, <2>1, ThrowSound
<1>6. CASE ThrowNew(o, d, f, K)
  <2>. DEFINE cache == AfterThrow(o, d, f, K)
  <2>1. d \in LibDoc \ docs /\ ~HasDOM(o) /\ K = {} /\ dom' = Dangle(cache, {d})
    BY <1>6 DEF ThrowNew
  <2>2. \A x \in live : cache[x] \in {NoDOM, dom[x]}
    BY <1>0, <2>1 DEF AfterThrow
  <2>. HIDE DEF cache
  <2>3. ASSUME NEW x \in live, HasDOM(x) PROVE dom[x].doc # d
    <3>1. SUFFICES ASSUME dom[x].doc = d PROVE FALSE
      OBVIOUS
    <3>2. PICK a \in Above(x) : mdoc[a] = d /\ mdoc[a] # Null
      BY <1>0, <2>1, <2>3, <3>1, DOMAssumption DEF DOMAtHome, DOMAssumption
    <3>. QED BY <1>0, <2>1, <3>2 DEF DocOwned, Above
  <2>4. NoDOM.doc # d
    BY <2>1, DOMAssumption DEF NoDOM, DOMAssumption
  <2>5. \A x \in live : cache[x].doc # d
    BY <2>2, <2>3, <2>4 DEF HasDOM
  <2>6. \A x \in live : dom'[x] = cache[x]
    BY <1>0, <2>1, <2>5 DEF Dangle
  <2>. QED BY <1>3, <1>4, <2>1, <2>6, ThrowSound DEF cache
<1>. QED BY <1>2, <1>5, <1>6
-----------------------------------------------------------------------------
(***************************************************************************)
(* New objects beside the old ones.                                        *)
(***************************************************************************)
Beside ==
    /\ live \subseteq live'
    /\ \A x \in live : parent'[x] = parent[x] /\ value'[x] = value[x]
    /\ \A y \in live' \ live : parent'[y] \notin live

LEMMA BesideSame ==
    ASSUME Acyclic, Beside
    PROVE  \A x \in live : Below(x)' = Below(x) /\ View(x)' = View(x)
<1>. SUFFICES ASSUME NEW x \in live PROVE Below(x)' = Below(x) /\ View(x)' = View(x)
  OBVIOUS
<1>1. parent[x] \notin Below(x) /\ Below(x) \subseteq live
  BY BelowFacts DEF Acyclic
<1>2. \A y \in Below(x) : y \in live' /\ value'[y] = value[y] /\ parent'[y] = parent[y]
  BY <1>1 DEF Beside
<1>3. ASSUME NEW y \in live', parent'[y] \in Below(x) PROVE y \in Below(x) /\ y # x
  <2>1. y \in live /\ parent[y] \in Below(x)
    BY <1>1, <1>3 DEF Beside
  <2>. QED BY <1>1, <2>1, BelowFacts
<1>. QED BY <1>1, <1>2, <1>3, Untouched

LEMMA BesideCareful ==
    ASSUME CarefulInv, Beside,
           \A x \in live : dom'[x] = dom[x] /\ mdoc'[x] = mdoc[x],
           \A x \in live' \ live :
               /\ parent'[x] \notin Below(x)'
               /\ parent'[x] # Null /\ dom'[parent'[x]] # NoDOM => dom'[x] # NoDOM
               /\ dom'[x] # NoDOM =>
                     /\ dom'[x].view = View(x)'
                     /\ \/ dom'[x].doc \in CallerDoc
                        \/ \E a \in Above(x)' : mdoc'[a] = dom'[x].doc /\ mdoc'[a] # Null
    PROVE  CarefulStep
<1>0. TypeOK /\ Acyclic /\ NoHole /\ CacheFaithful /\ DOMAtHome
  BY DEF CarefulInv, Sound
<1>1. \A x \in live : Below(x)' = Below(x) /\ View(x)' = View(x)
  BY <1>0, BesideSame
<1>2. Acyclic'
  <2>1. \A x \in live : parent'[x] \notin Below(x)'
    BY <1>0, <1>1 DEF Acyclic, Beside
  <2>. QED BY <2>1 DEF Acyclic
<1>3. NoHole'
  <2>1. ASSUME NEW x \in live, parent'[x] # Null, dom'[parent'[x]] # NoDOM PROVE dom'[x] # NoDOM
    <3>1. parent'[x] = parent[x] /\ parent[x] \in live
      BY <1>0, <2>1 DEF Beside, TypeOK
    <3>. QED BY <1>0, <2>1, <3>1 DEF NoHole, HasDOM
  <2>. QED BY <2>1 DEF NoHole, HasDOM
<1>4. CacheFaithful'
  BY <1>0, <1>1 DEF CacheFaithful, HasDOM
<1>5. DOMAtHome'
  <2>1. ASSUME NEW x \in live, HasDOM(x)'
        PROVE  \/ dom'[x].doc \in CallerDoc
               \/ \E a \in Above(x)' : mdoc'[a] = dom'[x].doc /\ mdoc'[a] # Null
    <3>1. \A a \in Above(x) : a \in Above(x)' /\ a \in live
      BY <1>1 DEF Above, Beside
    <3>2. HasDOM(x) /\ dom'[x] = dom[x]
      BY <2>1 DEF HasDOM
    <3>. QED BY <1>0, <3>1, <3>2 DEF DOMAtHome
  <2>. QED BY <2>1 DEF DOMAtHome, HasDOM
<1>. QED BY <1>2, <1>3, <1>4, <1>5 DEF CarefulStep, Sound, Preserved

LEMMA NewObjectCareful ==
    ASSUME CarefulInv, NEW o \in Obj, NEW v, NewObject(o, v)
    PROVE  CarefulStep
<1>0. TypeOK
  BY DEF CarefulInv
<1>1. /\ o \notin live /\ live' = live \cup {o}
      /\ parent' = [parent EXCEPT ![o] = Null] /\ value' = [value EXCEPT ![o] = v]
      /\ UNCHANGED <<dom, mdoc>>
  BY DEF NewObject, Build
<1>2. /\ Null \notin live' /\ parent'[o] = Null /\ dom'[o] = NoDOM
      /\ \A x \in live : parent'[x] = parent[x] /\ value'[x] = value[x]
  BY <1>0, <1>1, NullAssumption DEF TypeOK, NullAssumption
<1>3. Beside
  BY <1>1, <1>2 DEF Beside
<1>4. Below(o)' \subseteq live'
  BY SubtreeIn DEF Below
<1>. QED BY <1>1, <1>2, <1>3, <1>4, BesideCareful

\* A part of a forest that nothing else hangs on.
LEMMA SubtreePart ==
    ASSUME NEW L, NEW over, NEW S \in SUBSET L, NEW above, NEW x \in S,
           \A c \in S : over[c] = above[c],
           \A c \in L : over[c] \in S => c \in S
    PROVE  Subtree(L, over, x) = Subtree(S, above, x)
<1>. DEFINE T == Subtree(S, above, x)
            U == Subtree(L, over, x)
<1>1. U \subseteq T
  <2>1. T \in SUBSET L /\ x \in T
    BY SubtreeIn, SubtreeRoot
  <2>2. \A c \in L : over[c] \in T => c \in T
    BY SubtreeIn, SubtreeClosed
  <2>. HIDE DEF T
  <2>. QED BY <2>1, <2>2, SubtreeLeast
<1>2. T \subseteq U
  <2>. DEFINE V == U \cap S
  <2>1. V \in SUBSET S /\ x \in V
    BY SubtreeRoot
  <2>2. \A c \in S : above[c] \in V => c \in V
    BY SubtreeClosed
  <2>3. T \subseteq V
    <3>. HIDE DEF V
    <3>. QED BY <2>1, <2>2, SubtreeLeast
  <2>. QED BY <2>3
<1>. QED BY <1>1, <1>2

\* What SubView cuts out of the rendering of a tree.
Entries(S, above, content, T) == {<<y, content[y], {c \in S : above[c] = y}>> : y \in T}

LEMMA SubViewIs ==
    ASSUME NEW S, NEW above, NEW content, NEW x \in S
    PROVE  SubView(Entries(S, above, content, S), x)
             = Entries(S, above, content, Subtree(S, above, x))
<1>. DEFINE entry(y) == <<y, content[y], {c \in S : above[c] = y}>>
            view == Entries(S, above, content, S)
<1>0. view = {entry(y) : y \in S}
  BY DEF Entries
<1>. HIDE DEF view
<1>1. Named(view) = S
  <2>1. \A y \in S : entry(y) \in view /\ entry(y)[1] = y
    BY <1>0
  <2>2. \A e \in view : \E y \in S : e = entry(y)
    BY <1>0
  <2>. HIDE DEF entry
  <2>3. Named(view) \subseteq S
    BY <2>1, <2>2 DEF Named
  <2>4. S \subseteq Named(view)
    BY <2>1 DEF Named
  <2>. QED BY <2>3, <2>4
<1>2. ASSUME NEW T \in SUBSET S
      PROVE  (\A g \in view : g[1] \in T => g[3] \subseteq T)
                <=> (\A c \in S : above[c] \in T => c \in T)
  <2>1. ASSUME \A g \in view : g[1] \in T => g[3] \subseteq T, NEW c \in S, above[c] \in T
        PROVE  c \in T
    <3>1. entry(above[c]) \in view
      BY <1>0, <2>1
    <3>. QED BY <2>1, <3>1
  <2>2. ASSUME \A c \in S : above[c] \in T => c \in T, NEW g \in view, g[1] \in T
        PROVE  g[3] \subseteq T
    BY <1>0, <2>2
  <2>. QED BY <2>1, <2>2
<1>3. ASSUME NEW y \in S
      PROVE  entry(y) \in SubView(view, x) <=> y \in Subtree(S, above, x)
  <2>1. entry(y) \in view /\ entry(y)[1] = y
    BY <1>0, <1>3
  <2>. HIDE DEF entry
  <2>2. entry(y) \in SubView(view, x) <=>
           \A T \in SUBSET S : x \in T /\ (\A g \in view : g[1] \in T => g[3] \subseteq T) => y \in T
    BY <1>1, <2>1 DEF SubView
  <2>3. y \in Subtree(S, above, x) <=>
           \A T \in SUBSET S : x \in T /\ (\A c \in S : above[c] \in T => c \in T) => y \in T
    BY <1>3 DEF Subtree
  <2>. QED BY <1>2, <2>2, <2>3
<1>4. \A e \in SubView(view, x) : \E y \in S : e = entry(y)
  BY <1>0 DEF SubView
<1>5. Subtree(S, above, x) \subseteq S
  BY SubtreeIn
<1>. HIDE DEF entry
<1>6. SubView(view, x) = {entry(y) : y \in Subtree(S, above, x)}
  BY <1>3, <1>4, <1>5
<1>. QED BY <1>6 DEF entry, view, Entries

\* In a tree that is below its root nothing is above itself.
LEMMA ShapeAcyclic ==
    ASSUME NEW S, Null \notin S, NEW r \in S, NEW above \in Shapes(r, S), NEW x \in S
    PROVE  above[x] \notin Subtree(S, above, x)
<1>. SUFFICES ASSUME above[x] \in Subtree(S, above, x) PROVE FALSE
  OBVIOUS
<1>1. above[r] = Null /\ Subtree(S, above, r) = S /\ x \in Subtree(S, above, x)
  BY SubtreeRoot DEF Shapes
<1>. DEFINE U == S \ Subtree(S, above, x)
<1>2. r \in U
  <2>1. Null \notin Subtree(S, above, x)
    BY SubtreeIn
  <2>2. x # r
    BY <1>1, <2>1
  <2>. QED BY <1>1, <2>1, <2>2, SubtreeParent
<1>3. ASSUME NEW c \in S, above[c] \in U PROVE c \in U
  <2>1. c # x
    BY <1>3
  <2>. QED BY <1>3, <2>1, SubtreeParent
<1>4. S \subseteq U
  <2>1. U \in SUBSET S
    OBVIOUS
  <2>. HIDE DEF U
  <2>. QED BY <1>1, <1>2, <1>3, <2>1, SubtreeLeast
<1>. QED BY <1>1, <1>4

LEMMA UnmarshallNewCareful ==
    ASSUME CarefulInv, NEW S \in SUBSET Obj, NEW r \in S, NEW above \in Shapes(r, S),
           NEW content \in [S -> Value], NEW d \in LibDoc,
           UnmarshallNew(r, S, above, content, d)
    PROVE  CarefulStep
<1>. DEFINE kids(y) == {c \in S : above[c] = y}
            parsed == {<<y, content[y], kids(y)>> : y \in S}
<1>0. TypeOK /\ live \subseteq Obj /\ Null \notin Obj
  BY NullAssumption DEF CarefulInv, TypeOK, NullAssumption
<1>1. /\ live' = live \cup S /\ S \cap live = {}
      /\ \A y \in Obj : parent'[y] = IF y \in S THEN above[y] ELSE parent[y]
      /\ \A y \in Obj : value'[y] = IF y \in S THEN content[y] ELSE value[y]
      /\ mdoc' = [mdoc EXCEPT ![r] = d]
      /\ \A x \in Obj : dom'[x] = IF x \in S THEN [doc |-> d, view |-> SubView(parsed, x)]
                                  ELSE dom[x]
  BY DEF UnmarshallNew, Unmarshall
<1>2. /\ above \in [S -> S \cup {Null}] /\ above[r] = Null
      /\ Subtree(S, above, r) = S
  BY DEF Shapes
<1>3. Beside
  BY <1>0, <1>1, <1>2 DEF Beside
<1>4. ASSUME NEW x \in S PROVE Below(x)' = Subtree(S, above, x)
  <2>1. S \in SUBSET live'
    BY <1>1
  <2>2. \A c \in S : parent'[c] = above[c]
    BY <1>1
  <2>3. \A c \in live' : parent'[c] \in S => c \in S
    BY <1>0, <1>1 DEF TypeOK
  <2>4. Subtree(live', parent', x) = Subtree(S, above, x)
    BY <2>1, <2>2, <2>3, SubtreePart
  <2>. QED BY <2>4 DEF Below
<1>5. \A y \in S : Kids(y)' = kids(y)
  BY <1>0, <1>1 DEF Kids, TypeOK
<1>6. ASSUME NEW x \in S PROVE SubView(parsed, x) = View(x)'
  <2>1. SubView(parsed, x) = {<<y, content[y], kids(y)>> : y \in Subtree(S, above, x)}
    <3>1. parsed = Entries(S, above, content, S)
      BY DEF Entries
    <3>2. SubView(parsed, x) = Entries(S, above, content, Subtree(S, above, x))
      BY <3>1, SubViewIs
    <3>. QED BY <3>2 DEF Entries
  <2>2. View(x)' = {<<y, value'[y], Kids(y)'>> : y \in Subtree(S, above, x)}
    BY <1>4 DEF View
  <2>3. \A y \in Subtree(S, above, x) : y \in S /\ value'[y] = content[y] /\ Kids(y)' = kids(y)
    BY <1>1, <1>5, SubtreeIn
  <2>. HIDE DEF parsed, kids
  <2>. QED BY <2>1, <2>2, <2>3
<1>. HIDE DEF parsed, kids
<1>7. \A x \in live : dom'[x] = dom[x] /\ mdoc'[x] = mdoc[x]
  <2>1. \A x \in live : x \in Obj /\ x \notin S /\ x # r
    BY <1>0, <1>1
  <2>2. \A x \in live : dom'[x] = dom[x]
    BY <1>1, <2>1
  <2>3. \A x \in live : mdoc'[x] = mdoc[x]
    BY <1>0, <1>1, <2>1 DEF TypeOK
  <2>. QED BY <2>2, <2>3
<1>8. ASSUME NEW x \in live' \ live
      PROVE  /\ parent'[x] \notin Below(x)'
             /\ dom'[x] # NoDOM /\ dom'[x].view = View(x)' /\ dom'[x].doc = d
             /\ r \in Above(x)'
  <2>1. x \in S /\ parent'[x] = above[x]
    BY <1>0, <1>1
  <2>2. parent'[x] \notin Below(x)'
    BY <1>0, <1>4, <2>1, ShapeAcyclic
  <2>3. dom'[x] = [doc |-> d, view |-> View(x)']
    BY <1>1, <1>6, <2>1
  <2>4. d # Null
    BY DOMAssumption DEF DOMAssumption
  <2>5. r \in Above(x)'
    BY <1>1, <1>2, <1>4, <2>1 DEF Above
  <2>. QED BY <2>2, <2>3, <2>4, <2>5 DEF NoDOM
<1>9. mdoc'[r] = d /\ d # Null
  BY <1>0, <1>1, DOMAssumption DEF TypeOK, DOMAssumption
<1>. QED BY <1>3, <1>7, <1>8, <1>9, BesideCareful
-----------------------------------------------------------------------------
(***************************************************************************)
(* Copies.                                                                 *)
(***************************************************************************)
LEMMA ViewEntries ==
    ASSUME NEW o \in live
    PROVE  View(o) = Entries(Below(o), parent, value, Below(o))
<1>1. \A y \in Below(o) : Kids(y) = {c \in Below(o) : parent[c] = y}
  BY BelowFacts DEF Kids
<1>. QED BY <1>1 DEF View, Entries

\* What is cut out of the view of an object is the view of one below it.
LEMMA SubViewOfView ==
    ASSUME NEW o \in live, NEW k \in Below(o)
    PROVE  SubView(View(o), k) = View(k)
<1>. DEFINE B == Below(o)
<1>1. B \in SUBSET live /\ k \in B
  BY BelowFacts
<1>2. Subtree(B, parent, k) = Below(k)
  <2>1. \A c \in B : parent[c] = parent[c]
    OBVIOUS
  <2>2. \A c \in live : parent[c] \in B => c \in B
    BY BelowFacts
  <2>. HIDE DEF B
  <2>3. Subtree(live, parent, k) = Subtree(B, parent, k)
    BY <1>1, <2>1, <2>2, SubtreePart
  <2>. QED BY <2>3 DEF Below
<1>3. SubView(View(o), k) = Entries(B, parent, value, Below(k))
  <2>1. View(o) = Entries(B, parent, value, B)
    BY ViewEntries
  <2>. HIDE DEF B
  <2>2. SubView(Entries(B, parent, value, B), k) = Entries(B, parent, value, Subtree(B, parent, k))
    BY <1>1, SubViewIs
  <2>. QED BY <1>2, <2>1, <2>2
<1>4. \A y \in Below(k) : Kids(y) = {c \in B : parent[c] = y}
  <2>1. \A y \in Below(k) : y \in B
    BY BelowFacts
  <2>2. \A y \in B : \A c \in live : parent[c] = y => c \in B
    BY BelowFacts
  <2>3. B \subseteq live
    BY <1>1
  <2>. HIDE DEF B
  <2>. QED BY <2>1, <2>2, <2>3 DEF Kids
<1>5. View(k) = Entries(B, parent, value, Below(k))
  <2>. HIDE DEF B
  <2>. QED BY <1>4 DEF View, Entries
<1>. QED BY <1>3, <1>5

LEMMA EntriesNamed ==
    ASSUME NEW S, NEW above, NEW content, NEW T
    PROVE  Named(Entries(S, above, content, T)) = T
<1>. DEFINE entry(y) == <<y, content[y], {c \in S : above[c] = y}>>
            view == Entries(S, above, content, T)
<1>1. view = {entry(y) : y \in T} /\ \A y \in T : entry(y)[1] = y
  BY DEF Entries
<1>. HIDE DEF entry, view
<1>2. \A y \in T : entry(y) \in view /\ entry(y)[1] = y
  BY <1>1
<1>3. T \subseteq Named(view)
  BY <1>2 DEF Named
<1>4. Named(view) \subseteq T
  BY <1>1 DEF Named
<1>. QED BY <1>3, <1>4 DEF view

\* Where the objects of a rendering find their parent and their content.
LEMMA EntriesRead ==
    ASSUME NEW B, NEW k \in B, NEW above, NEW content
    PROVE  /\ ParentIn(Entries(B, above, content, B), k) = IF above[k] \in B THEN above[k] ELSE Null
           /\ ValueIn(Entries(B, above, content, B), k) = content[k]
<1>. DEFINE kids(y) == {c \in B : above[c] = y}
            entry(y) == <<y, content[y], kids(y)>>
            view == Entries(B, above, content, B)
<1>1. view = {entry(y) : y \in B}
  BY DEF Entries
<1>2. \A y \in B : entry(y)[1] = y /\ entry(y)[2] = content[y] /\ entry(y)[3] = kids(y)
  OBVIOUS
<1>3. \A y : k \in kids(y) <=> above[k] = y
  OBVIOUS
<1>. HIDE DEF entry, view, kids
<1>4. \A e \in view : k \in e[3] <=> e[1] = above[k]
  BY <1>1, <1>2, <1>3
<1>5. \A e \in view : e[1] \in B /\ e[2] = content[e[1]]
  BY <1>1, <1>2
<1>6. \A y \in B : entry(y) \in view /\ entry(y)[1] = y
  BY <1>1, <1>2
<1>7. ParentIn(view, k) = IF above[k] \in B THEN above[k] ELSE Null
  <2>1. CASE above[k] \in B
    <3>1. \E e \in view : k \in e[3]
      BY <1>4, <1>6, <2>1
    <3>. DEFINE e == CHOOSE e \in view : k \in e[3]
    <3>2. e \in view /\ k \in e[3]
      BY <3>1
    <3>3. e[1] = above[k]
      BY <1>4, <3>2
    <3>. QED BY <2>1, <3>1, <3>3 DEF ParentIn
  <2>2. CASE above[k] \notin B
    <3>1. ~\E e \in view : k \in e[3]
      BY <1>4, <1>5, <2>2
    <3>. QED BY <2>2, <3>1 DEF ParentIn
  <2>. QED BY <2>1, <2>2
<1>8. ValueIn(view, k) = content[k]
  <2>. DEFINE e == CHOOSE e \in view : e[1] = k
  <2>1. e \in view /\ e[1] = k
    BY <1>6
  <2>2. e[2] = content[k]
    BY <1>5, <2>1
  <2>. QED BY <2>2 DEF ValueIn
<1>. QED BY <1>7, <1>8 DEF view

\* The objects of B, at or below o, have been copied to those f names.
CopyOf(B, o, f) ==
    /\ B \subseteq live /\ o \in B /\ parent[o] \notin B
    /\ \A k \in B : k # o => parent[k] \in B
    /\ f \in [B -> Obj \ live]
    /\ \A j, k \in B : f[j] = f[k] => j = k
    /\ live' = live \cup {f[k] : k \in B}
    /\ \A x \in live : parent'[x] = parent[x] /\ value'[x] = value[x]
    /\ \A k \in B : /\ parent'[f[k]] = IF k = o THEN Null ELSE f[parent[k]]
                    /\ value'[f[k]] = value[k]

LEMMA CopyIs ==
    ASSUME TypeOK, NEW B \in SUBSET live, NEW o \in B, parent[o] \notin B,
           \A k \in B : k # o => parent[k] \in B,
           NEW f \in Fresh(Entries(B, parent, value, B)),
           Copy(Entries(B, parent, value, B), f)
    PROVE  CopyOf(B, o, f)
<1>. DEFINE view == Entries(B, parent, value, B)
            copies == {f[k] : k \in B}
            original(x) == CHOOSE k \in B : f[k] = x
            above(k) == IF k = Null THEN Null ELSE f[k]
            lifted(x) == above(ParentIn(view, original(x)))
            content(x) == ValueIn(view, original(x))
<1>1. Named(view) = B
  BY EntriesNamed
<1>2. /\ f \in [B -> Obj \ live]
      /\ \A j, k \in B : f[j] = f[k] => j = k
  BY <1>1 DEF Fresh
<1>3. \A k \in B : /\ ParentIn(view, k) = IF parent[k] \in B THEN parent[k] ELSE Null
                   /\ ValueIn(view, k) = value[k]
  BY EntriesRead
<1>. HIDE DEF view
<1>4. /\ live' = live \cup copies
      /\ parent' = [x \in Obj |-> IF x \in copies THEN lifted(x) ELSE parent[x]]
      /\ value' = [x \in Obj |-> IF x \in copies THEN content(x) ELSE value[x]]
  BY <1>1 DEF Copy, view
<1>5. ASSUME NEW k \in B
      PROVE  /\ f[k] \in copies /\ f[k] \in Obj /\ original(f[k]) = k
  <2>1. \A j \in B : f[j] = f[k] => j = k
    BY <1>2
  <2>. QED BY <1>2, <2>1
<1>6. Null \notin B /\ \A x \in live : x \in Obj /\ x \notin copies
  BY <1>2, NullAssumption DEF TypeOK, NullAssumption
<1>7. ASSUME NEW k \in B
      PROVE  /\ lifted(f[k]) = IF k = o THEN Null ELSE f[parent[k]]
             /\ content(f[k]) = value[k]
  <2>1. original(f[k]) = k
    BY <1>5
  <2>2. ParentIn(view, k) = IF k = o THEN Null ELSE parent[k]
    BY <1>3
  <2>. HIDE DEF original
  <2>3. lifted(f[k]) = above(ParentIn(view, k))
    BY <2>1
  <2>4. lifted(f[k]) = IF k = o THEN Null ELSE f[parent[k]]
    BY <1>6, <2>2, <2>3
  <2>5. content(f[k]) = value[k]
    BY <1>3, <2>1
  <2>. QED BY <2>4, <2>5
<1>. HIDE DEF copies, lifted, content
<1>8. \A x \in live : parent'[x] = parent[x] /\ value'[x] = value[x]
  BY <1>4, <1>6
<1>9. \A k \in B : /\ parent'[f[k]] = IF k = o THEN Null ELSE f[parent[k]]
                   /\ value'[f[k]] = value[k]
  BY <1>4, <1>5, <1>7
<1>. QED BY <1>2, <1>4, <1>8, <1>9 DEF CopyOf, copies

\* The subtree of a copy is the copy of the subtree.
LEMMA CopyBelow ==
    ASSUME TypeOK, NEW B, NEW o, NEW f, CopyOf(B, o, f), NEW k \in B
    PROVE  Below(f[k])' = {f[j] : j \in Subtree(B, parent, k)}
<1>. DEFINE part == Subtree(B, parent, k)
            T == {f[j] : j \in part}
            U == Subtree(live', parent', f[k])
            V == {j \in B : f[j] \in U}
<1>0. /\ B \subseteq live /\ o \in B /\ parent[o] \notin B
      /\ \A j \in B : j # o => parent[j] \in B
      /\ f \in [B -> Obj \ live]
      /\ \A j, m \in B : f[j] = f[m] => j = m
      /\ live' = live \cup {f[j] : j \in B}
      /\ \A x \in live : parent'[x] = parent[x]
      /\ \A j \in B : parent'[f[j]] = IF j = o THEN Null ELSE f[parent[j]]
  BY DEF CopyOf
<1>1. part \subseteq B /\ k \in part
  BY SubtreeIn, SubtreeRoot
<1>2. Null \notin Obj /\ \A x \in live : parent[x] \in live \cup {Null}
  BY NullAssumption DEF TypeOK, NullAssumption
<1>3. U \subseteq T
  <2>1. T \in SUBSET live' /\ f[k] \in T
    BY <1>0, <1>1
  <2>2. ASSUME NEW c \in live', parent'[c] \in T PROVE c \in T
    <3>1. T \subseteq Obj \ live
      BY <1>0, <1>1
    <3>2. c \notin live
      BY <1>0, <1>2, <2>2, <3>1
    <3>3. PICK m \in B : c = f[m]
      BY <1>0, <3>2
    <3>4. PICK j \in part : parent'[c] = f[j]
      BY <2>2
    <3>5. m # o /\ f[parent[m]] = f[j]
      BY <1>0, <1>1, <1>2, <3>3, <3>4
    <3>6. parent[m] = j
      BY <1>0, <1>1, <3>5
    <3>7. m \in part
      BY <3>4, <3>6, SubtreeClosed
    <3>. QED BY <3>3, <3>7
  <2>. HIDE DEF T
  <2>. QED BY <2>1, <2>2, SubtreeLeast
<1>4. part \subseteq V
  <2>1. V \in SUBSET B /\ k \in V
    BY <1>0, SubtreeRoot
  <2>2. ASSUME NEW c \in B, parent[c] \in V PROVE c \in V
    <3>1. c # o /\ f[parent[c]] \in U
      BY <1>0, <2>2
    <3>2. f[c] \in live' /\ parent'[f[c]] \in U
      BY <1>0, <3>1
    <3>3. f[c] \in U
      BY <3>2, SubtreeClosed
    <3>. QED BY <3>3
  <2>. HIDE DEF V
  <2>. QED BY <2>1, <2>2, SubtreeLeast
<1>5. U = T
  <2>. HIDE DEF U, part
  <2>. QED BY <1>3, <1>4
<1>. QED BY <1>5 DEF Below

\* The copy says what the original says, under the new names.
LEMMA CopyView ==
    ASSUME TypeOK, NEW B, NEW o, NEW f, CopyOf(B, o, f), NEW k \in B
    PROVE  View(f[k])' = Image(Entries(B, parent, value, Subtree(B, parent, k)), f)
<1>. DEFINE part == Subtree(B, parent, k)
            kids(y) == {c \in B : parent[c] = y}
            entry(y) == <<y, value[y], kids(y)>>
            image(y) == <<f[y], value[y], {f[c] : c \in kids(y)}>>
<1>0. /\ B \subseteq live /\ o \in B /\ parent[o] \notin B
      /\ \A j \in B : j # o => parent[j] \in B
      /\ f \in [B -> Obj \ live]
      /\ \A j, m \in B : f[j] = f[m] => j = m
      /\ live' = live \cup {f[j] : j \in B}
      /\ \A x \in live : parent'[x] = parent[x]
      /\ \A j \in B : parent'[f[j]] = IF j = o THEN Null ELSE f[parent[j]]
      /\ \A j \in B : value'[f[j]] = value[j]
  BY DEF CopyOf
<1>1. part \subseteq B
  BY SubtreeIn
<1>2. Null \notin Obj /\ \A x \in live : parent[x] \in live \cup {Null}
  BY NullAssumption DEF TypeOK, NullAssumption
<1>3. ASSUME NEW y \in B PROVE Kids(f[y])' = {f[c] : c \in kids(y)}
  <2>1. ASSUME NEW c \in live', parent'[c] = f[y] PROVE c \in {f[m] : m \in kids(y)}
    <3>1. f[y] \in Obj \ live
      BY <1>0
    <3>2. c \notin live
      BY <1>0, <1>2, <2>1, <3>1
    <3>3. PICK m \in B : c = f[m]
      BY <1>0, <3>2
    <3>4. m # o /\ parent[m] \in B /\ f[parent[m]] = f[y]
      BY <1>0, <1>2, <2>1, <3>1, <3>3
    <3>5. parent[m] = y
      BY <1>0, <3>4
    <3>. QED BY <3>3, <3>5
  <2>2. ASSUME NEW m \in kids(y) PROVE f[m] \in live' /\ parent'[f[m]] = f[y]
    BY <1>0
  <2>. HIDE DEF kids
  <2>. QED BY <2>1, <2>2 DEF Kids
<1>4. View(f[k])' = {<<x, value'[x], Kids(x)'>> : x \in {f[y] : y \in part}}
  BY CopyBelow DEF View
<1>5. \A y \in part : value'[f[y]] = value[y] /\ Kids(f[y])' = {f[c] : c \in kids(y)}
  BY <1>0, <1>1, <1>3
<1>6. View(f[k])' = {image(y) : y \in part}
  <2>1. {<<x, value'[x], Kids(x)'>> : x \in {f[y] : y \in part}}
          = {<<f[y], value'[f[y]], Kids(f[y])'>> : y \in part}
    <3>. HIDE DEF part
    <3>. QED OBVIOUS
  <2>. HIDE DEF part, kids
  <2>. QED BY <1>4, <1>5, <2>1
<1>7. \A y \in part : kids(y) \cap DOMAIN f = kids(y)
  BY <1>0
<1>8. Image(Entries(B, parent, value, part), f) = {image(y) : y \in part}
  <2>1. Entries(B, parent, value, part) = {entry(y) : y \in part}
    BY DEF Entries
  <2>2. \A y \in part : entry(y)[1] = y /\ entry(y)[2] = value[y] /\ entry(y)[3] = kids(y)
    OBVIOUS
  <2>. DEFINE renamed(e) == <<f[e[1]], e[2], {f[c] : c \in e[3] \cap DOMAIN f}>>
  <2>3. Image(Entries(B, parent, value, part), f) = {renamed(e) : e \in Entries(B, parent, value, part)}
    BY DEF Image
  <2>4. \A y \in part : renamed(entry(y)) = image(y)
    <3>. SUFFICES ASSUME NEW y \in part PROVE renamed(entry(y)) = image(y)
      OBVIOUS
    <3>1. renamed(entry(y)) = <<f[y], value[y], {f[c] : c \in kids(y) \cap DOMAIN f}>>
      <4>. HIDE DEF entry, kids, part
      <4>. QED BY <2>2
    <3>2. kids(y) \cap DOMAIN f = kids(y)
      BY <1>7
    <3>. HIDE DEF kids, part
    <3>. QED BY <3>1, <3>2
  <2>. HIDE DEF renamed, entry, image, part
  <2>. QED BY <2>1, <2>3, <2>4
<1>. QED BY <1>6, <1>8

\* What a clone is made of: the whole subtree, but for an AnyElement.
Cloned(o) == IF AnyClass /\ ~HasDOM(o) THEN {o} ELSE Below(o)

LEMMA ClonedByDOM ==
    ASSUME CarefulInv, NEW o \in live
    PROVE  \A y \in CopiedByDOM(o) : y \in Below(o) /\ y \in live /\ HasDOM(y) /\ dom[y].view = View(y)
<1>1. \A y \in CopiedByDOM(o) : y \in Below(o) /\ HasDOM(y)
  BY BelowFacts DEF CopiedByDOM, TopDOM
<1>2. \A y \in Below(o) : y \in live
  BY BelowFacts
<1>. QED BY <1>1, <1>2 DEF CarefulInv, Sound, CacheFaithful

LEMMA ClonedByHand ==
    ASSUME CarefulInv, NEW o \in live, ~AnyClass, ~HasDOM(o)
    PROVE  Below(o) = CopiedByHand(o) \cup UNION {Below(y) : y \in CopiedByDOM(o)}
<1>. DEFINE bare == {x \in live : ~HasDOM(x)}
            hand == Subtree(bare, parent, o)
            V == hand \cup UNION {Below(y) : y \in TopDOM(o)}
<1>0. TypeOK /\ NoHole
  BY DEF CarefulInv, Sound
<1>1. CopiedByHand(o) = hand /\ CopiedByDOM(o) = TopDOM(o)
  BY DEF CopiedByHand, CopiedByDOM
<1>2. hand \subseteq bare /\ o \in hand
  BY SubtreeIn, SubtreeRoot
<1>3. hand \subseteq Below(o)
  <2>. DEFINE W == Below(o) \cap bare
  <2>1. W \in SUBSET bare /\ o \in W
    BY BelowFacts
  <2>2. \A c \in bare : parent[c] \in W => c \in W
    BY BelowFacts
  <2>3. hand \subseteq W
    <3>. HIDE DEF W, bare
    <3>. QED BY <2>1, <2>2, SubtreeLeast
  <2>. QED BY <2>3
<1>4. UNION {Below(y) : y \in TopDOM(o)} \subseteq Below(o)
  BY BelowFacts DEF TopDOM
<1>5. Below(o) \subseteq V
  <2>1. V \in SUBSET live /\ o \in V
    BY <1>2, <1>3, <1>4, BelowFacts
  <2>2. ASSUME NEW c \in live, parent[c] \in V PROVE c \in V
    <3>1. CASE \E y \in TopDOM(o) : parent[c] \in Below(y)
      BY <3>1, <2>2, BelowFacts
    <3>2. CASE parent[c] \in hand /\ ~HasDOM(c)
      <4>1. c \in hand
        BY <2>2, <3>2, SubtreeClosed
      <4>. QED BY <4>1
    <3>3. CASE parent[c] \in hand /\ HasDOM(c)
      <4>1. c \in Below(o) /\ ~HasDOM(parent[c])
        BY <1>2, <1>3, <2>2, <3>3, BelowFacts
      <4>2. ASSUME NEW z \in Path(o, c) \ {c}, HasDOM(z) PROVE FALSE
        <5>1. z \in live /\ c \in Below(z) /\ c # z
          BY <4>2 DEF Path, Above
        <5>2. parent[c] \in Below(z)
          BY <5>1, BelowFacts
        <5>. QED BY <1>0, <4>1, <4>2, <5>1, <5>2, BelowDOM
      <4>3. c \in TopDOM(o)
        BY <3>3, <4>1, <4>2 DEF TopDOM
      <4>4. c \in Below(c)
        BY <2>2, BelowFacts
      <4>. QED BY <4>3, <4>4
    <3>4. parent[c] \in hand \/ \E y \in TopDOM(o) : parent[c] \in Below(y)
      BY <2>2
    <3>. QED BY <3>1, <3>2, <3>3, <3>4
  <2>. HIDE DEF V
  <2>. QED BY <2>1, <2>2, BelowLeast
<1>. HIDE DEF hand
<1>. QED BY <1>1, <1>3, <1>4, <1>5

\* A clone is made from what the object says.
LEMMA CloneViewIsView ==
    ASSUME CarefulInv, NEW o \in live, HasDOM(o) \/ ~AnyClass
    PROVE  CloneView(o) = View(o)
<1>1. CASE HasDOM(o)
  <2>1. CopiedByHand(o) = {} /\ CopiedByDOM(o) = {o}
    BY <1>1 DEF CopiedByHand, CopiedByDOM
  <2>2. CloneView(o) = dom[o].view
    BY <2>1 DEF CloneView
  <2>. QED BY <2>1, <2>2, ClonedByDOM
<1>2. CASE ~HasDOM(o)
  <2>. DEFINE entry(y) == <<y, value[y], Kids(y)>>
              hand == CopiedByHand(o)
              roots == CopiedByDOM(o)
  <2>1. ~AnyClass /\ Below(o) = hand \cup UNION {Below(y) : y \in roots}
    BY <1>2, ClonedByHand
  <2>2. CloneView(o) = {entry(y) : y \in hand} \cup UNION {dom[y].view : y \in roots}
    BY <2>1 DEF CloneView
  <2>3. \A y \in roots : dom[y].view = {entry(z) : z \in Below(y)}
    BY ClonedByDOM DEF View
  <2>4. View(o) = {entry(z) : z \in Below(o)}
    BY DEF View
  <2>. HIDE DEF entry, hand, roots
  <2>5. UNION {dom[y].view : y \in roots} = UNION {{entry(z) : z \in Below(y)} : y \in roots}
    BY <2>3
  <2>6. {entry(z) : z \in hand \cup UNION {Below(y) : y \in roots}}
          = {entry(z) : z \in hand} \cup UNION {{entry(z) : z \in Below(y)} : y \in roots}
    OBVIOUS
  <2>. QED BY <2>1, <2>2, <2>4, <2>5, <2>6
<1>. QED BY <1>1, <1>2

LEMMA CloneViewEntries ==
    ASSUME CarefulInv, NEW o \in live
    PROVE  /\ Cloned(o) \in SUBSET live /\ o \in Cloned(o) /\ parent[o] \notin Cloned(o)
           /\ \A k \in Cloned(o) : k # o => parent[k] \in Cloned(o)
           /\ CloneView(o) = Entries(Cloned(o), parent, value, Cloned(o))
<1>0. Acyclic /\ parent[o] \notin Below(o) /\ o \in Below(o)
  BY BelowFacts DEF CarefulInv, Sound, Acyclic
<1>1. CASE HasDOM(o) \/ ~AnyClass
  <2>1. Cloned(o) = Below(o)
    BY <1>1 DEF Cloned
  <2>2. CloneView(o) = Entries(Below(o), parent, value, Below(o))
    BY <1>1, CloneViewIsView, ViewEntries
  <2>. QED BY <1>0, <2>1, <2>2, BelowFacts
<1>2. CASE ~HasDOM(o) /\ AnyClass
  <2>1. Cloned(o) = {o} /\ CopiedByHand(o) = {o} /\ CopiedByDOM(o) = {}
    BY <1>2 DEF Cloned, CopiedByHand, CopiedByDOM
  <2>2. parent[o] # o
    BY <1>0
  <2>3. CloneView(o) = {<<o, value[o], {}>>}
    BY <1>2, <2>1 DEF CloneView
  <2>4. {c \in {o} : parent[c] = o} = {}
    BY <2>2
  <2>5. Entries({o}, parent, value, {o}) = {<<o, value[o], {c \in {o} : parent[c] = o}>>}
    BY DEF Entries
  <2>. QED BY <2>1, <2>2, <2>3, <2>4, <2>5
<1>. QED BY <1>1, <1>2

\* The DOM of the copies: those of the imported subtrees.
LEMMA CloneDOM ==
    ASSUME CarefulInv, NEW o \in live, NEW f, CopyOf(Cloned(o), o, f),
           NEW bound \in [CopiedByDOM(o) -> LibDoc \ docs],
           dom' = [x \in Obj |->
             IF \E y \in CopiedByDOM(o), k \in DOMAIN f : k \in Named(dom[y].view) /\ f[k] = x
             THEN LET k == CHOOSE j \in DOMAIN f : f[j] = x
                      y == CHOOSE z \in CopiedByDOM(o) : k \in Named(dom[z].view)
                  IN  [doc |-> bound[y], view |-> Image(SubView(dom[y].view, k), f)]
             ELSE dom[x]],
           NEW k \in Cloned(o)
    PROVE  \/ /\ dom'[f[k]] = NoDOM
              /\ \A y \in CopiedByDOM(o) : k \notin Below(y)
           \/ \E y \in CopiedByDOM(o) : /\ k \in Below(y)
                                        /\ dom'[f[k]] = [doc |-> bound[y], view |-> View(f[k])']
<1>. DEFINE B == Cloned(o)
            roots == CopiedByDOM(o)
            copied(x) == \E y \in roots, j \in DOMAIN f : j \in Named(dom[y].view) /\ f[j] = x
            original(x) == CHOOSE j \in DOMAIN f : f[j] = x
            source(x) == CHOOSE z \in roots : original(x) \in Named(dom[z].view)
            image(x) == Image(SubView(dom[source(x)].view, original(x)), f)
<1>0. TypeOK /\ f \in [B -> Obj \ live] /\ \A i, j \in B : f[i] = f[j] => i = j
  BY DEF CarefulInv, CopyOf
<1>1. \A y \in roots : y \in live /\ dom[y].view = View(y) /\ Named(dom[y].view) = Below(y)
  <2>1. ASSUME NEW y \in live PROVE Named(View(y)) = Below(y)
    BY ViewEntries, EntriesNamed
  <2>. QED BY <2>1, ClonedByDOM
<1>2. dom' = [x \in Obj |-> IF copied(x) THEN [doc |-> bound[source(x)], view |-> image(x)]
                            ELSE dom[x]]
  OBVIOUS
<1>3. original(f[k]) = k /\ f[k] \in Obj /\ f[k] \notin live
  <2>1. \A j \in DOMAIN f : f[j] = f[k] => j = k
    BY <1>0
  <2>. QED BY <1>0, <2>1
<1>4. copied(f[k]) <=> \E y \in roots : k \in Below(y)
  BY <1>0, <1>1
<1>5. CASE \E y \in roots : k \in Below(y)
  <2>. DEFINE y == source(f[k])
  <2>1. y \in roots /\ k \in Below(y)
    <3>1. \E z \in roots : k \in Named(dom[z].view)
      BY <1>1, <1>5
    <3>2. y = CHOOSE z \in roots : k \in Named(dom[z].view)
      BY <1>3
    <3>3. y \in roots /\ k \in Named(dom[y].view)
      <4>. HIDE DEF y
      <4>. QED BY <3>1, <3>2
    <3>. QED BY <1>1, <3>3
  <2>2. image(f[k]) = Image(SubView(dom[y].view, k), f)
    BY <1>3
  <2>. HIDE DEF y
  <2>3. SubView(dom[y].view, k) = View(k)
    BY <1>1, <2>1, SubViewOfView
  <2>4. View(k) = Entries(B, parent, value, Subtree(B, parent, k))
    <3>1. B = Below(o)
      <4>1. ~(AnyClass /\ ~HasDOM(o))
        BY <2>1 DEF CopiedByDOM
      <4>. QED BY <4>1 DEF Cloned
    <3>2. SubView(View(o), k) = View(k)
      BY <3>1, SubViewOfView
    <3>3. SubView(Entries(B, parent, value, B), k) = Entries(B, parent, value, Subtree(B, parent, k))
      BY SubViewIs
    <3>4. View(o) = Entries(B, parent, value, B)
      BY <3>1, ViewEntries
    <3>. QED BY <3>2, <3>3, <3>4
  <2>5. View(f[k])' = Image(View(k), f)
    BY <1>0, <2>4, CopyView
  <2>6. dom'[f[k]] = [doc |-> bound[source(f[k])], view |-> image(f[k])]
    <3>. HIDE DEF copied, image, source, roots
    <3>. QED BY <1>2, <1>3, <1>4, <1>5
  <2>7. dom'[f[k]] = [doc |-> bound[y], view |-> View(f[k])']
    <3>. HIDE DEF image
    <3>. QED BY <2>2, <2>3, <2>5, <2>6 DEF y
  <2>. QED BY <2>1, <2>7
<1>6. CASE ~\E y \in roots : k \in Below(y)
  <2>1. dom'[f[k]] = dom[f[k]]
    <3>. HIDE DEF copied, image, source
    <3>. QED BY <1>2, <1>3, <1>4, <1>6
  <2>2. dom[f[k]] = NoDOM
    BY <1>0, <1>3 DEF TypeOK
  <2>. QED BY <1>6, <2>1, <2>2
<1>. QED BY <1>5, <1>6

LEMMA CloneTreeCareful ==
    ASSUME CarefulInv, NEW o \in live, CloneTree(o)
    PROVE  /\ CarefulStep
           /\ HasDOM(o) \/ ~AnyClass => Clone(o)
<1>. DEFINE view == CloneView(o)
            roots == CopiedByDOM(o)
            B == Cloned(o)
<1>0. TypeOK /\ Acyclic /\ NoHole
  BY DEF CarefulInv, Sound
<1>1. PICK f \in Fresh(view), bound \in [roots -> LibDoc \ docs] :
      /\ Copy(view, f)
      /\ out' = [call |-> "clone", of |-> o, to |-> f[o]]
      /\ mdoc' = [x \in Obj |->
             IF \E y \in roots \cap DOMAIN f : f[y] = x
             THEN bound[CHOOSE y \in roots \cap DOMAIN f : f[y] = x]
             ELSE mdoc[x]]
      /\ dom' = [x \in Obj |->
             IF \E y \in roots, k \in DOMAIN f : k \in Named(dom[y].view) /\ f[k] = x
             THEN LET k == CHOOSE j \in DOMAIN f : f[j] = x
                      y == CHOOSE z \in roots : k \in Named(dom[z].view)
                  IN  [doc |-> bound[y], view |-> Image(SubView(dom[y].view, k), f)]
             ELSE dom[x]]
  BY DEF CloneTree
<1>2. /\ B \in SUBSET live /\ o \in B /\ parent[o] \notin B
      /\ \A k \in B : k # o => parent[k] \in B
      /\ view = Entries(B, parent, value, B)
  BY CloneViewEntries
<1>3. HasDOM(o) \/ ~AnyClass => Clone(o)
  BY <1>1, CloneViewIsView DEF Clone
<1>4. CopyOf(B, o, f)
  <2>. HIDE DEF B, view
  <2>. QED BY <1>0, <1>1, <1>2, CopyIs
<1>5. /\ f \in [B -> Obj \ live]
      /\ \A j, k \in B : f[j] = f[k] => j = k
      /\ live' = live \cup {f[k] : k \in B}
      /\ \A x \in live : parent'[x] = parent[x] /\ value'[x] = value[x]
      /\ \A k \in B : parent'[f[k]] = IF k = o THEN Null ELSE f[parent[k]]
  BY <1>4 DEF CopyOf
<1>6. ASSUME NEW k \in B
      PROVE  \/ /\ dom'[f[k]] = NoDOM
                /\ \A y \in roots : k \notin Below(y)
             \/ \E y \in roots : /\ k \in Below(y)
                                 /\ dom'[f[k]] = [doc |-> bound[y], view |-> View(f[k])']
  BY <1>1, <1>4, CloneDOM
<1>7. roots \subseteq B
  <2>1. AnyClass /\ ~HasDOM(o) => roots = {}
    BY DEF CopiedByDOM
  <2>. QED BY <2>1, ClonedByDOM DEF Cloned
<1>8. ASSUME NEW y \in roots PROVE mdoc'[f[y]] = bound[y] /\ bound[y] # Null
  <2>1. y \in roots \cap DOMAIN f /\ f[y] \in Obj
    BY <1>5, <1>7
  <2>2. \A z \in roots \cap DOMAIN f : f[z] = f[y] => z = y
    BY <1>5, <1>7
  <2>3. (CHOOSE z \in roots \cap DOMAIN f : f[z] = f[y]) = y
    BY <2>1, <2>2
  <2>4. bound[y] # Null
    BY DOMAssumption DEF DOMAssumption
  <2>. QED BY <1>1, <2>1, <2>3, <2>4
<1>9. \A x \in live : dom'[x] = dom[x] /\ mdoc'[x] = mdoc[x]
  <2>1. \A x \in live : x \in Obj /\ \A k \in DOMAIN f : f[k] # x
    BY <1>0, <1>5 DEF TypeOK
  <2>. QED BY <1>1, <2>1
<1>10. \A k \in B : Below(f[k])' = {f[j] : j \in Subtree(B, parent, k)}
  BY <1>0, <1>4, CopyBelow
<1>11. \A k \in B : Subtree(B, parent, k) \subseteq Below(k)
  <2>. SUFFICES ASSUME NEW k \in B PROVE Subtree(B, parent, k) \subseteq Below(k)
    OBVIOUS
  <2>. DEFINE W == Below(k) \cap B
  <2>1. W \in SUBSET B /\ k \in W
    BY <1>2, BelowFacts
  <2>2. \A c \in B : parent[c] \in W => c \in W
    BY <1>2, BelowFacts
  <2>3. Subtree(B, parent, k) \subseteq W
    <3>. HIDE DEF W, B
    <3>. QED BY <2>1, <2>2, SubtreeLeast
  <2>. QED BY <2>3
<1>12. \A x \in live' \ live : \E k \in B : x = f[k]
  BY <1>5
<1>. HIDE DEF B, view, roots
<1>13. Beside
  <2>1. \A k \in B : parent'[f[k]] \notin live
    <3>1. Null \notin live
      BY <1>0, NullAssumption DEF TypeOK, NullAssumption
    <3>. QED BY <1>2, <1>5, <3>1
  <2>. QED BY <1>5, <1>12, <2>1 DEF Beside
<1>14. ASSUME NEW k \in B PROVE parent'[f[k]] \notin Below(f[k])'
  <2>1. Null \notin Obj
    BY NullAssumption DEF NullAssumption
  <2>2. parent[k] \notin Below(k) /\ Subtree(B, parent, k) \subseteq B
    BY <1>0, <1>2, SubtreeIn DEF Acyclic
  <2>3. \A j \in Subtree(B, parent, k) : j # parent[k]
    BY <1>11, <2>2
  <2>4. CASE k = o
    BY <1>5, <1>10, <2>1, <2>2, <2>4
  <2>5. CASE k # o
    <3>1. parent[k] \in B /\ parent'[f[k]] = f[parent[k]]
      BY <1>2, <1>5, <2>5
    <3>2. \A j \in Subtree(B, parent, k) : f[j] # f[parent[k]]
      BY <1>5, <2>2, <2>3, <3>1
    <3>. QED BY <1>10, <3>1, <3>2
  <2>. QED BY <2>4, <2>5
<1>15. ASSUME NEW k \in B, parent'[f[k]] # Null, dom'[parent'[f[k]]] # NoDOM
       PROVE  dom'[f[k]] # NoDOM
  <2>1. k # o /\ parent[k] \in B /\ parent'[f[k]] = f[parent[k]]
    BY <1>2, <1>5, <1>15
  <2>2. PICK y \in roots : parent[k] \in Below(y)
    BY <1>6, <1>15, <2>1
  <2>3. k \in Below(y)
    BY <1>2, <2>2, BelowFacts
  <2>4. PICK z \in roots : dom'[f[k]] = [doc |-> bound[z], view |-> View(f[k])']
    BY <1>6, <2>3
  <2>5. dom'[f[k]].doc = bound[z] /\ NoDOM.doc = Null
    BY <2>4 DEF NoDOM
  <2>. QED BY <1>8, <2>5
<1>16. ASSUME NEW k \in B, dom'[f[k]] # NoDOM
       PROVE  /\ dom'[f[k]].view = View(f[k])'
              /\ \E a \in Above(f[k])' : mdoc'[a] = dom'[f[k]].doc /\ mdoc'[a] # Null
  <2>1. PICK y \in roots : /\ k \in Below(y)
                           /\ dom'[f[k]] = [doc |-> bound[y], view |-> View(f[k])']
    BY <1>6, <1>16
  <2>2. dom'[f[k]].doc = bound[y] /\ dom'[f[k]].view = View(f[k])'
    BY <2>1
  <2>3. k \in Subtree(B, parent, y)
    <3>1. B = Below(o)
      <4>1. ~(AnyClass /\ ~HasDOM(o))
        BY <2>1 DEF CopiedByDOM, roots
      <4>. QED BY <4>1 DEF Cloned, B
    <3>2. \A c \in B : parent[c] = parent[c]
      OBVIOUS
    <3>3. \A c \in live : parent[c] \in B => c \in B
      BY <3>1, BelowFacts
    <3>4. Subtree(live, parent, y) = Subtree(B, parent, y)
      BY <1>2, <1>7, <3>2, <3>3, SubtreePart
    <3>. QED BY <2>1, <3>4 DEF Below
  <2>4. f[k] \in Below(f[y])' /\ f[y] \in live'
    BY <1>5, <1>7, <1>10, <2>3
  <2>5. f[y] \in Above(f[k])'
    BY <2>4 DEF Above
  <2>. QED BY <1>8, <2>2, <2>5
<1>17. ASSUME NEW x \in live' \ live
       PROVE  /\ parent'[x] \notin Below(x)'
              /\ parent'[x] # Null /\ dom'[parent'[x]] # NoDOM => dom'[x] # NoDOM
              /\ dom'[x] # NoDOM =>
                    /\ dom'[x].view = View(x)'
                    /\ \E a \in Above(x)' : mdoc'[a] = dom'[x].doc /\ mdoc'[a] # Null
  <2>1. PICK k \in B : x = f[k]
    BY <1>12
  <2>2. parent'[x] \notin Below(x)'
    BY <1>14, <2>1
  <2>3. parent'[x] # Null /\ dom'[parent'[x]] # NoDOM => dom'[x] # NoDOM
    BY <1>15, <2>1
  <2>4. dom'[x] # NoDOM =>
                    /\ dom'[x].view = View(x)'
                    /\ \E a \in Above(x)' : mdoc'[a] = dom'[x].doc /\ mdoc'[a] # Null
    BY <1>16, <2>1
  <2>. QED BY <2>2, <2>3, <2>4
<1>18. CarefulStep
  BY <1>9, <1>13, <1>17, BesideCareful
<1>. QED BY <1>3, <1>18
-----------------------------------------------------------------------------
(***************************************************************************)
(* One step of a careful client.                                           *)
(***************************************************************************)
Unchanged == UNCHANGED <<live, parent, value>>

LEMMA SoundStep ==
    ASSUME Calls = {}, CarefulInv, [Next]_vars
    PROVE  Sound' /\ (Unchanged \/ Preserved)
<1>0. TypeOK /\ TypeOK' /\ "erase" \notin Calls /\ "releaseDOM" \notin Calls
        /\ "throw" \notin Calls /\ "detach" \notin Calls
  BY TypeStep, NullAssumption, DOMAssumption DEF CarefulInv
<1>1. ASSUME NEW o \in Obj, NEW v \in Value, NewObject(o, v) \/ AssignValue(o, v)
      PROVE  CarefulStep
  BY <1>0, <1>1, NewObjectCareful, AssignValueCareful
<1>2. ASSUME NEW p \in live, NEW c \in live, PushBack(p, c) \/ AssignChild(p, c)
      PROVE  CarefulStep
  BY <1>0, <1>2, PushBackCareful
<1>3. ASSUME NEW p \in live, NEW c \in live, Erase(p, c) \/ ClearChild(p, c)
      PROVE  CarefulStep
  BY <1>0, <1>3, EraseCareful
<1>4. ASSUME NEW p \in live, NEW old \in live, NEW new \in live, ReassignChild(p, old, new)
      PROVE  CarefulStep
  BY <1>0, <1>4, ReassignChildCareful
<1>5. ASSUME NEW o \in live, DetachChild(o) \/ DeleteTree(o) \/ CloneTree(o)
      PROVE  CarefulStep
  BY <1>0, <1>5, DetachChildCareful, DeleteTreeCareful, CloneTreeCareful
<1>6. ASSUME NEW o \in live, MarshallCached(o)
      PROVE  Sound' /\ Unchanged
  BY <1>6, MarshallCachedSound DEF MarshallCached, Unchanged
<1>7. ASSUME NEW o \in live, MarshallThrows(o)
      PROVE  Sound' /\ Unchanged
  BY <1>0, <1>7, MarshallThrowsSound DEF MarshallThrows, Silent, Unchanged
<1>8. ASSUME NEW o \in live, ReleaseDOM(o) \/ ReleaseThisAndParents(o)
                               \/ ReleaseThisAndChildren(o)
      PROVE  Sound' /\ Unchanged
  BY <1>0, <1>8, ReleasesSound
     DEF ReleaseDOM, ReleaseThisAndParents, ReleaseThisAndChildren, Release, Silent, Unchanged
<1>9. ASSUME NEW o \in live, NEW d \in LibDoc \cup CallerDoc,
             MarshallNew(o, d) \/ MarshallInto(o, d)
      PROVE  Sound' /\ Unchanged
  <2>1. Sound'
    BY <1>9, MarshallNewSound, MarshallIntoSound
  <2>2. Unchanged
    BY <1>9 DEF MarshallNew, MarshallInto, Unchanged
  <2>. QED BY <2>1, <2>2
<1>10. ASSUME NEW S \in SUBSET Obj, NEW d \in LibDoc, NEW r \in S,
              NEW above \in Shapes(r, S), NEW content \in [S -> Value],
              UnmarshallNew(r, S, above, content, d)
       PROVE  CarefulStep
  BY <1>10, UnmarshallNewCareful
<1>11. ASSUME UNCHANGED vars PROVE Sound' /\ Unchanged
  <2>1. UNCHANGED <<live, parent, value, mdoc>> /\ dom' = dom
    BY <1>11 DEF vars
  <2>2. \A x \in live : parent[x] # Null /\ dom'[x] = NoDOM => dom'[parent[x]] = NoDOM
    BY <2>1 DEF CarefulInv, Sound, NoHole, HasDOM
  <2>3. \A x \in live : dom'[x] \in {NoDOM, dom[x]}
    BY <2>1
  <2>. QED BY <2>1, <2>2, <2>3, ReleaseSound DEF Unchanged
<1>. QED
  BY <1>1, <1>2, <1>3, <1>4, <1>5, <1>6, <1>7, <1>8, <1>9, <1>10, <1>11 DEF Next, CarefulStep

LEMMA CarefulInit ==
    ASSUME Init PROVE CarefulInv
<1>1. TypeOK
  BY TypeInit, NullAssumption
<1>2. DocOwned /\ Sound
  BY DEF Init, TreeInit, DocOwned, Sound, Acyclic, NoHole, CacheFaithful, DOMAtHome
<1>. QED BY <1>1, <1>2 DEF CarefulInv

LEMMA CarefulInvStep ==
    ASSUME Calls = {}, CarefulInv, [Next]_vars
    PROVE  CarefulInv'
<1>1. TypeOK'
  BY TypeStep, NullAssumption, DOMAssumption DEF CarefulInv
<1>2. DocOwned'
  BY DocStep DEF CarefulInv
<1>3. Sound'
  BY SoundStep
<1>. QED BY <1>1, <1>2, <1>3 DEF CarefulInv

\* Whatever a careful client does, a DOM that is cached says what the objects
\* say, and marshall() may return it as it is.
THEOREM CacheAlwaysFaithful ==
    ASSUME Calls = {}
    PROVE  Spec => []CacheFaithful
<1>1. Init => CarefulInv
  BY CarefulInit
<1>2. CarefulInv /\ [Next]_vars => CarefulInv'
  BY CarefulInvStep
<1>3. CarefulInv => CacheFaithful
  BY DEF CarefulInv, Sound
<1>. QED BY <1>1, <1>2, <1>3, PTL DEF Spec

\* No DOM that is cached is in a document that has been released: it is in a
\* document of the caller or of an ancestor.
THEOREM NothingDangles ==
    ASSUME Calls = {}
    PROVE  Spec => []NoDangling
<1>1. Init => CarefulInv
  BY CarefulInit
<1>2. CarefulInv /\ [Next]_vars => CarefulInv'
  BY CarefulInvStep
<1>3. CarefulInv => NoDangling
  <2>. SUFFICES ASSUME CarefulInv, NEW o \in live PROVE dom[o].doc # Freed
    BY DEF NoDangling
  <2>1. Freed \notin LibDoc \cup CallerDoc \cup {Null}
    BY DOMAssumption DEF DOMAssumption
  <2>2. CASE ~HasDOM(o)
    BY <2>1, <2>2 DEF HasDOM, NoDOM
  <2>3. CASE HasDOM(o)
    <3>1. \A a \in live : mdoc[a] \in LibDoc \cup {Null}
      BY DEF CarefulInv, TypeOK
    <3>2. \A a \in Above(o) : a \in live
      BY DEF Above
    <3>3. dom[o].doc \in CallerDoc \/ \E a \in Above(o) : mdoc[a] = dom[o].doc
      BY <2>3 DEF CarefulInv, Sound, DOMAtHome
    <3>. QED BY <2>1, <3>1, <3>2, <3>3
  <2>. QED BY <2>2, <2>3
<1>. QED BY <1>1, <1>2, <1>3, PTL DEF Spec

\* A change of the tree costs no object its DOM that says the same after it.
THEOREM DOMsPreserved ==
    ASSUME Calls = {}
    PROVE  Spec => DOMPreserved
<1>1. Init => CarefulInv
  BY CarefulInit
<1>2. CarefulInv /\ [Next]_vars => CarefulInv'
  BY CarefulInvStep
<1>3. CarefulInv /\ [Next]_vars =>
        [<<live, parent, value>>' # <<live, parent, value>> =>
            \A o \in live \cap live' : View(o)' = View(o) => dom'[o] = dom[o]]_vars
  <2>1. CarefulInv /\ [Next]_vars => Unchanged \/ Preserved
    BY SoundStep
  <2>. QED BY <2>1 DEF Unchanged, Preserved
<1>. QED BY <1>1, <1>2, <1>3, PTL DEF Spec, DOMPreserved
-----------------------------------------------------------------------------
(***************************************************************************)
(* The cache is invisible.                                                 *)
(***************************************************************************)
LEMMA TreeOperators ==
    /\ \A o : Tree!Below(o) = Below(o) /\ Tree!Kids(o) = Kids(o) /\ Tree!View(o) = View(o)
    /\ \A o : Tree!IsRoot(o) <=> IsRoot(o)
    /\ \A r, S : Tree!Shapes(r, S) = Shapes(r, S)
    /\ \A view : Tree!Named(view) = Named(view) /\ Tree!Fresh(view) = Fresh(view)
    /\ \A view, k : Tree!ParentIn(view, k) = ParentIn(view, k) /\ Tree!ValueIn(view, k) = ValueIn(view, k)
    /\ \A p, c : Tree!Addable(p, c) <=> Addable(p, c)
    /\ \A S, keep : Tree!Forget(S, keep) <=> Forget(S, keep)
<1>1. \A L, above, o : Tree!Subtree(L, above, o) = Subtree(L, above, o)
  BY DEF Tree!Subtree, Subtree
<1>2. \A o : Tree!Below(o) = Below(o)
  BY <1>1 DEF Tree!Below, Below
<1>3. \A o : Tree!Kids(o) = Kids(o) /\ (Tree!IsRoot(o) <=> IsRoot(o))
  BY DEF Tree!Kids, Kids, Tree!IsRoot, IsRoot
<1>4. \A o : Tree!View(o) = View(o)
  BY <1>2, <1>3 DEF Tree!View, View
<1>5. \A r, S : Tree!Shapes(r, S) = Shapes(r, S)
  BY <1>1 DEF Tree!Shapes, Shapes
<1>6. \A view : Tree!Named(view) = Named(view)
  BY DEF Tree!Named, Named
<1>7. \A view : Tree!Fresh(view) = Fresh(view)
  BY <1>6 DEF Tree!Fresh, Fresh
<1>8. \A view, k : Tree!ParentIn(view, k) = ParentIn(view, k) /\ Tree!ValueIn(view, k) = ValueIn(view, k)
  BY DEF Tree!ParentIn, ParentIn, Tree!ValueIn, ValueIn
<1>9. \A p, c : Tree!Addable(p, c) <=> Addable(p, c)
  BY <1>2, <1>3 DEF Tree!Addable, Addable
<1>10. \A S, keep : Tree!Forget(S, keep) <=> Forget(S, keep)
  BY DEF Tree!Forget, Forget
<1>. QED BY <1>2, <1>3, <1>4, <1>5, <1>6, <1>7, <1>8, <1>9, <1>10

LEMMA TreeActions ==
    /\ Tree!Silent <=> Silent
    /\ \A o : /\ Tree!Marshall(o) <=> Marshall(o)
              /\ Tree!Delete(o) <=> Delete(o)
              /\ Tree!Detach(o) <=> Detach(o)
              /\ Tree!Clone(o) <=> Clone(o)
    /\ \A o, v : /\ Tree!Build(o, v) <=> Build(o, v)
                 /\ Tree!SetValue(o, v) <=> SetValue(o, v)
    /\ \A p, c : /\ Tree!AddChild(p, c) <=> AddChild(p, c)
                 /\ Tree!RemoveChild(p, c) <=> RemoveChild(p, c)
    /\ \A p, old, new : Tree!ReplaceChild(p, old, new) <=> ReplaceChild(p, old, new)
    /\ \A r, S, above, content :
          Tree!Unmarshall(r, S, above, content) <=> Unmarshall(r, S, above, content)
<1>1. Tree!Silent <=> Silent
  BY DEF Tree!Silent, Silent
<1>2. \A o : Tree!Marshall(o) <=> Marshall(o)
  BY TreeOperators DEF Tree!Marshall, Marshall
<1>3. \A o : Tree!Delete(o) <=> Delete(o)
  BY TreeOperators DEF Tree!Delete, Delete
<1>4. \A o : Tree!Detach(o) <=> Detach(o)
  BY TreeOperators DEF Tree!Detach, Detach
<1>5. \A view, f : Tree!Copy(view, f) <=> Copy(view, f)
  BY TreeOperators DEF Tree!Copy, Copy
<1>6. \A o : Tree!Clone(o) <=> Clone(o)
  BY <1>5, TreeOperators DEF Tree!Clone, Clone
<1>7. \A o, v : (Tree!Build(o, v) <=> Build(o, v)) /\ (Tree!SetValue(o, v) <=> SetValue(o, v))
  BY DEF Tree!Build, Build, Tree!SetValue, SetValue
<1>8. \A p, c : /\ Tree!AddChild(p, c) <=> AddChild(p, c)
                /\ Tree!RemoveChild(p, c) <=> RemoveChild(p, c)
  BY TreeOperators DEF Tree!AddChild, AddChild, Tree!RemoveChild, RemoveChild
<1>9. \A p, old, new : Tree!ReplaceChild(p, old, new) <=> ReplaceChild(p, old, new)
  BY TreeOperators DEF Tree!ReplaceChild, ReplaceChild
<1>10. \A r, S, above, content :
          Tree!Unmarshall(r, S, above, content) <=> Unmarshall(r, S, above, content)
  BY DEF Tree!Unmarshall, Unmarshall
<1>. QED BY <1>1, <1>2, <1>3, <1>4, <1>6, <1>7, <1>8, <1>9, <1>10

\* The cached DOM or the new one, the client gets the view.
LEMMA MarshallIsTree ==
    ASSUME CarefulInv, NEW o \in live, NEW d,
           MarshallCached(o) \/ MarshallNew(o, d) \/ MarshallInto(o, d)
    PROVE  Marshall(o)
<1>1. out'.view = View(o)
  BY MarshallCachedSound, MarshallNewSound, MarshallIntoSound
<1>2. PICK shown : out' = [call |-> "marshall", of |-> o, view |-> shown]
  BY DEF MarshallCached, MarshallNew, MarshallInto
<1>3. out' = [call |-> "marshall", of |-> o, view |-> View(o)]
  BY <1>1, <1>2
<1>4. UNCHANGED <<live, parent, value>>
  BY DEF MarshallCached, MarshallNew, MarshallInto
<1>. QED BY <1>3, <1>4 DEF Marshall

LEMMA TreeStep ==
    ASSUME AnyClass = FALSE, CarefulInv, [Next]_vars
    PROVE  [Tree!TreeNext]_treeVars
<1>1. ASSUME NEW o \in Obj, NEW v \in Value, NewObject(o, v) \/ AssignValue(o, v)
      PROVE  Tree!TreeNext
  BY <1>1, TreeActions DEF NewObject, AssignValue, Tree!TreeNext
<1>2. ASSUME NEW p \in live, NEW c \in live,
             PushBack(p, c) \/ AssignChild(p, c) \/ Erase(p, c) \/ ClearChild(p, c)
      PROVE  Tree!TreeNext
  BY <1>2, TreeActions DEF PushBack, AssignChild, Erase, ClearChild, Tree!TreeNext
<1>3. ASSUME NEW p \in live, NEW old \in live, NEW new \in live, ReassignChild(p, old, new)
      PROVE  Tree!TreeNext
  BY <1>3, TreeActions DEF ReassignChild, Tree!TreeNext
<1>4. ASSUME NEW o \in live, DetachChild(o) \/ DeleteTree(o)
      PROVE  Tree!TreeNext
  BY <1>4, TreeActions DEF DetachChild, DeleteTree, Tree!TreeNext
<1>5. ASSUME NEW o \in live, CloneTree(o)
      PROVE  Tree!TreeNext
  <2>1. Clone(o)
    BY <1>5, CloneTreeCareful
  <2>. QED BY <2>1, TreeActions DEF Tree!TreeNext
<1>6. ASSUME NEW o \in live, NEW d, MarshallCached(o) \/ MarshallNew(o, d) \/ MarshallInto(o, d)
      PROVE  Tree!TreeNext
  <2>1. Marshall(o)
    BY <1>6, MarshallIsTree
  <2>. QED BY <2>1, TreeActions DEF Tree!TreeNext
<1>7. ASSUME NEW o \in live, \/ MarshallThrows(o) \/ ReleaseDOM(o)
                             \/ ReleaseThisAndParents(o) \/ ReleaseThisAndChildren(o)
      PROVE  Tree!TreeNext
  <2>1. Silent
    BY <1>7 DEF MarshallThrows, ReleaseDOM, ReleaseThisAndParents, ReleaseThisAndChildren, Release
  <2>. QED BY <2>1, TreeActions DEF Tree!TreeNext
<1>8. ASSUME NEW S \in SUBSET Obj, NEW d \in LibDoc, NEW r \in S,
             NEW above \in Shapes(r, S), NEW content \in [S -> Value],
             UnmarshallNew(r, S, above, content, d)
      PROVE  Tree!TreeNext
  <2>1. Unmarshall(r, S, above, content)
    BY <1>8 DEF UnmarshallNew
  <2>2. S \in SUBSET (Obj \ live)
    BY <2>1 DEF Unmarshall
  <2>3. above \in Tree!Shapes(r, S) /\ Tree!Unmarshall(r, S, above, content)
    BY <2>1, TreeOperators, TreeActions
  <2>. QED BY <2>2, <2>3 DEF Tree!TreeNext
<1>9. CASE UNCHANGED vars
  BY <1>9 DEF vars, treeVars
<1>. QED BY <1>1, <1>2, <1>3, <1>4, <1>5, <1>6, <1>7, <1>8, <1>9 DEF Next

\* With the cache, and objects of the classes that clone all of their content,
\* the tree does for a careful client what XMLObject promises: what marshall()
\* returns and clone() copies is what the objects say at the time of the call.
THEOREM ImplementsTree ==
    ASSUME Calls = {}, AnyClass = FALSE
    PROVE  Spec => Refinement
<1>1. Init => CarefulInv
  BY CarefulInit
<1>2. CarefulInv /\ [Next]_vars => CarefulInv'
  BY CarefulInvStep
<1>3. Init => Tree!TreeInit
  BY DEF Init, TreeInit, Tree!TreeInit
<1>4. CarefulInv /\ [Next]_vars => [Tree!TreeNext]_Tree!treeVars
  BY TreeStep DEF treeVars, Tree!treeVars
<1>. QED BY <1>1, <1>2, <1>3, <1>4, PTL DEF Spec, Refinement, Tree!TreeSpec
-----------------------------------------------------------------------------
(***************************************************************************)
(* UnknownElement.  That each document has one owner is not enough: a      *)
(* document that its owner releases must be the home of no other object,   *)
(* so a DOM in a document that is owned is its owner's (AtItsOwner).       *)
(***************************************************************************)
UnknownTypeOK ==
    /\ unknown \in [Element -> UnknownObjects \cup {Nil}]
    /\ document \in [Document -> {"none", "caller", "owned", "released"}]

AtItsOwner ==
    \A u \in Objects : unknown[u].dom # Nil /\ document[unknown[u].dom] = "owned"
                         => unknown[u].m_document = unknown[u].dom

UnknownInv == UnknownTypeOK /\ UnknownKept /\ AtItsOwner

\* What an object must be while the documents are as in held.
KeptIn(o, held) ==
    IF o.dom = Nil THEN o.m_xml = o.content
    ELSE /\ o.m_xml = Nil
         /\ held[o.dom] \in {"caller", "owned"}
         /\ held[o.dom] = "owned" => o.m_document = o.dom

Others(u) == Objects \ {u}

\* What the invariant says, object by object.
LEMMA UnknownFacts ==
    ASSUME UnknownInv
    PROVE  /\ \A u \in Objects : u \in Element /\ unknown[u] \in UnknownObjects
           /\ \A u \in Objects : KeptIn(unknown[u], document)
           /\ \A u \in Element : unknown[u] = Nil \/ u \in Objects
           /\ \A u \in Objects : unknown[u].m_document # Nil
                 => document[unknown[u].m_document] = "owned"
           /\ Nil \notin Element /\ Nil \notin Document /\ Nil \notin UnknownObjects
<1>1. \A u \in Objects : u \in Element /\ unknown[u] \in UnknownObjects
  BY DEF UnknownInv, UnknownTypeOK, Objects
<1>2. \A u \in Objects : KeptIn(unknown[u], document)
  BY DEF UnknownInv, UnknownKept, AtItsOwner, KeptIn
<1>3. \A u \in Objects : unknown[u].m_document # Nil => document[unknown[u].m_document] = "owned"
  <2>1. \A u \in Objects : unknown[u].m_document \in Document \cup {Nil}
    BY <1>1 DEF UnknownObjects
  <2>. QED BY <2>1 DEF UnknownInv, UnknownKept
<1>. QED BY <1>1, <1>2, <1>3, NilAssumption DEF Objects, NilAssumption

\* One object becomes o, or goes, and the documents change.
LEMMA PutKept ==
    ASSUME UnknownInv, NEW u \in Element, NEW o \in UnknownObjects \cup {Nil}, Put(u, o),
           document' \in [Document -> {"none", "caller", "owned", "released"}],
           o # Nil => KeptIn(o, document'),
           \A v \in Others(u) : unknown[v].dom # Nil
               => document'[unknown[v].dom] = document[unknown[v].dom],
           \A d \in Document : document'[d] = "owned" <=>
               \/ o # Nil /\ o.m_document = d
               \/ \E v \in Others(u) : unknown[v].m_document = d,
           o # Nil /\ o.m_document # Nil
               => \A v \in Others(u) : unknown[v].m_document # o.m_document
    PROVE  UnknownInv'
<1>0. /\ \A v \in Objects : v \in Element /\ unknown[v] \in UnknownObjects
      /\ \A v \in Objects : KeptIn(unknown[v], document)
      /\ Nil \notin Element /\ Nil \notin UnknownObjects
  BY UnknownFacts
<1>1. unknown' \in [Element -> UnknownObjects \cup {Nil}]
  BY DEF Put, UnknownInv, UnknownTypeOK
<1>2. /\ unknown'[u] = o
      /\ \A v \in Element : v # u => unknown'[v] = unknown[v]
  BY DEF Put, UnknownInv, UnknownTypeOK
<1>3. /\ \A v \in Objects' : v \in Element /\ (v # u => v \in Others(u))
      /\ \A v \in Others(u) : v \in Objects' /\ unknown'[v] = unknown[v]
      /\ u \in Objects' <=> o # Nil
  BY <1>0, <1>2 DEF Objects, Others
<1>4. \A v \in Objects' : KeptIn(unknown'[v], document')
  <2>1. ASSUME NEW v \in Others(u) PROVE KeptIn(unknown[v], document')
    <3>1. KeptIn(unknown[v], document)
      BY <1>0 DEF Others
    <3>. QED BY <2>1, <3>1 DEF KeptIn
  <2>. QED BY <1>2, <1>3, <2>1
<1>5. \A v \in Objects' : unknown'[v].content # Nil
  <2>1. \A v \in Objects' : unknown'[v] \in UnknownObjects
    BY <1>1, <1>3 DEF Objects
  <2>. QED BY <1>0, <2>1 DEF UnknownObjects
<1>6. \A d \in Document : document'[d] = "owned" <=> \E v \in Objects' : unknown'[v].m_document = d
  <2>1. ASSUME NEW d \in Document
        PROVE  (\E v \in Objects' : unknown'[v].m_document = d) <=>
                  \/ o # Nil /\ o.m_document = d
                  \/ \E v \in Others(u) : unknown[v].m_document = d
    BY <1>2, <1>3
  <2>. QED BY <2>1
<1>7. \A v, w \in Objects' : v # w /\ unknown'[v].m_document # Nil
                               => unknown'[v].m_document # unknown'[w].m_document
  <2>1. \A v, w \in Others(u) : v # w /\ unknown[v].m_document # Nil
                               => unknown[v].m_document # unknown[w].m_document
    BY DEF Others, UnknownInv, UnknownKept
  <2>2. \A v \in Objects' : \/ v = u /\ o # Nil /\ unknown'[v] = o
                            \/ v \in Others(u) /\ unknown'[v] = unknown[v]
    BY <1>2, <1>3
  <2>3. ASSUME NEW v \in Objects', NEW w \in Objects', v # w, unknown'[v].m_document # Nil
        PROVE  unknown'[v].m_document # unknown'[w].m_document
    <3>1. CASE v = u
      BY <2>2, <2>3, <3>1 DEF Others
    <3>2. CASE w = u
      BY <2>2, <2>3, <3>2 DEF Others
    <3>3. CASE v # u /\ w # u
      BY <2>1, <2>2, <2>3, <3>3
    <3>. QED BY <3>1, <3>2, <3>3
  <2>. QED BY <2>3
<1>8. UnknownKept'
  <2>1. ASSUME NEW v \in Objects'
        PROVE  IF unknown'[v].dom = Nil THEN unknown'[v].m_xml = unknown'[v].content /\ unknown'[v].content # Nil
               ELSE unknown'[v].m_xml = Nil /\ document'[unknown'[v].dom] \in {"caller", "owned"}
    BY <1>4, <1>5, <2>1 DEF KeptIn
  <2>. QED BY <1>6, <1>7, <2>1 DEF UnknownKept
<1>9. AtItsOwner'
  BY <1>4 DEF AtItsOwner, KeptIn
<1>. QED BY <1>1, <1>8, <1>9 DEF UnknownInv, UnknownTypeOK

\* What the objects but u keep when a document that is not theirs changes.
LEMMA OthersFacts ==
    ASSUME UnknownInv, NEW u \in Element
    PROVE  /\ \A v \in Others(u) : v \in Objects /\ KeptIn(unknown[v], document)
           /\ \A v \in Others(u) : unknown[v].dom \in Document \cup {Nil}
           /\ \A v \in Others(u) : unknown[v].m_document \in Document \cup {Nil}
           /\ \A d \in Document : document[d] = "owned" <=>
               \/ u \in Objects /\ unknown[u].m_document = d
               \/ \E v \in Others(u) : unknown[v].m_document = d
           /\ u \in Objects /\ unknown[u].m_document # Nil
               => \A v \in Others(u) : /\ unknown[v].m_document # unknown[u].m_document
                                       /\ unknown[v].dom # unknown[u].m_document
<1>1. \A v \in Objects : v \in Element /\ unknown[v] \in UnknownObjects /\ KeptIn(unknown[v], document)
  BY UnknownFacts
<1>2. \A v \in Objects : unknown[v].dom \in Document \cup {Nil} /\ unknown[v].m_document \in Document \cup {Nil}
  BY <1>1 DEF UnknownObjects
<1>3. \A d \in Document : document[d] = "owned" <=>
               \/ u \in Objects /\ unknown[u].m_document = d
               \/ \E v \in Others(u) : unknown[v].m_document = d
  BY DEF UnknownInv, UnknownKept, Others
<1>4. ASSUME u \in Objects, unknown[u].m_document # Nil, NEW v \in Others(u)
      PROVE  unknown[v].m_document # unknown[u].m_document
  BY <1>4 DEF UnknownInv, UnknownKept, Others
<1>5. ASSUME u \in Objects, unknown[u].m_document # Nil, NEW v \in Others(u)
      PROVE  unknown[v].dom # unknown[u].m_document
  <2>1. document[unknown[u].m_document] = "owned"
    BY <1>5, UnknownFacts
  <2>2. unknown[v].dom = unknown[u].m_document => unknown[v].m_document = unknown[v].dom
    BY <1>1, <1>5, <2>1 DEF KeptIn, Others
  <2>. QED BY <1>4, <1>5, <2>2
<1>. QED BY <1>1, <1>2, <1>3, <1>4, <1>5 DEF Others

LEMMA UnmarshallKept ==
    ASSUME UnknownInv, NEW u \in Element, NEW d \in Document, NEW bind \in BOOLEAN, unmarshall(u, d, bind)
    PROVE  UnknownInv'
<1> DEFINE home == IF bind THEN d ELSE Nil
           o == [New(u) EXCEPT !.dom = d, !.m_document = home]
<1>0. u \notin Objects /\ document[d] = "caller" /\ d # Nil
  BY NilAssumption DEF unmarshall, Objects, NilAssumption
<1>1. o \in UnknownObjects /\ Put(u, o) /\ o.dom = d /\ o.m_document = home /\ o.m_xml = Nil
  <2>1. New(u) \in UnknownObjects /\ New(u).m_xml = Nil
    BY DEF New, UnknownObjects
  <2>2. o \in UnknownObjects /\ o.dom = d /\ o.m_document = home /\ o.m_xml = Nil
    BY <2>1 DEF UnknownObjects
  <2>3. Put(u, o)
    BY DEF unmarshall
  <2>. QED BY <2>2, <2>3
<1> HIDE DEF o
<1>2. document' = [document EXCEPT ![d] = IF bind THEN "owned" ELSE "caller"]
  BY DEF unmarshall
<1>3. /\ document \in [Document -> {"none", "caller", "owned", "released"}]
      /\ document' \in [Document -> {"none", "caller", "owned", "released"}]
  BY <1>2 DEF UnknownInv, UnknownTypeOK
<1>4. KeptIn(o, document')
  BY <1>0, <1>1, <1>2, <1>3 DEF KeptIn
<1>5. \A v \in Others(u) : unknown[v].dom # d
  BY DEF unmarshall, Others
<1>6. \A v \in Others(u) : unknown[v].m_document # d
  BY <1>0, UnknownFacts DEF Others
<1>7. \A v \in Others(u) : unknown[v].dom # Nil => document'[unknown[v].dom] = document[unknown[v].dom]
  BY <1>2, <1>3, <1>5, OthersFacts
<1>8. \A c \in Document : document'[c] = "owned" <=>
               \/ o.m_document = c
               \/ \E v \in Others(u) : unknown[v].m_document = c
  <2>1. \A c \in Document : document[c] = "owned" <=> \E v \in Others(u) : unknown[v].m_document = c
    BY <1>0, OthersFacts
  <2>2. \A c \in Document : o.m_document = c <=> bind /\ c = d
    BY <1>1, NilAssumption DEF NilAssumption
  <2>3. \A c \in Document : document'[c] = "owned" <=> (bind /\ c = d) \/ (c # d /\ document[c] = "owned")
    BY <1>0, <1>2, <1>3
  <2>. QED BY <1>6, <2>1, <2>2, <2>3
<1>9. o.m_document # Nil => \A v \in Others(u) : unknown[v].m_document # o.m_document
  BY <1>1, <1>6
<1>10. o # Nil
  BY <1>1, NilAssumption DEF NilAssumption
<1>. QED BY <1>1, <1>10, <1>3, <1>4, <1>7, <1>8, <1>9, PutKept

\* An object that keeps its document, the documents being as they were.
LEMMA SameDocuments ==
    ASSUME UnknownInv, NEW u \in Element, NEW o \in UnknownObjects, Put(u, o), UNCHANGED document,
           KeptIn(o, document),
           IF u \in Objects THEN o.m_document = unknown[u].m_document ELSE o.m_document = Nil
    PROVE  UnknownInv'
<1>1. o # Nil
  BY NilAssumption DEF NilAssumption
<1>2. document' \in [Document -> {"none", "caller", "owned", "released"}]
  BY DEF UnknownInv, UnknownTypeOK
<1>3. \A c \in Document : document'[c] = "owned" <=>
               \/ o.m_document = c
               \/ \E v \in Others(u) : unknown[v].m_document = c
  <2>1. \A c \in Document : (u \in Objects /\ unknown[u].m_document = c) <=> o.m_document = c
    BY NilAssumption DEF NilAssumption
  <2>. QED BY <2>1, OthersFacts
<1>4. o.m_document # Nil => \A v \in Others(u) : unknown[v].m_document # o.m_document
  BY OthersFacts
<1>5. KeptIn(o, document')
  OBVIOUS
<1>. QED BY <1>1, <1>2, <1>3, <1>4, <1>5, PutKept

LEMMA ReleaseKept ==
    ASSUME UnknownInv, NEW u \in Objects, releaseDOM(u)
    PROVE  UnknownInv'
<1> DEFINE was == unknown[u]
           o == [was EXCEPT !.m_xml = was.content, !.dom = Nil]
<1>1. u \in Element /\ was \in UnknownObjects
  BY UnknownFacts
<1>2. o \in UnknownObjects /\ o.dom = Nil /\ o.m_xml = o.content /\ o.m_document = was.m_document
  BY <1>1 DEF UnknownObjects
<1>3. Put(u, o) /\ UNCHANGED document
  BY DEF releaseDOM, serialize
<1>4. KeptIn(o, document)
  BY <1>2 DEF KeptIn
<1> HIDE DEF o
<1>. QED BY <1>1, <1>2, <1>3, <1>4, SameDocuments

LEMMA CloneKept ==
    ASSUME UnknownInv, NEW u \in Objects, NEW v \in Element, clone(u, v)
    PROVE  UnknownInv'
<1> DEFINE was == unknown[u]
           o == [dom |-> Nil, m_document |-> Nil, m_xml |-> CloneXml(was), content |-> was.content]
<1>1. was \in UnknownObjects /\ KeptIn(was, document) /\ Nil \notin Element
  BY UnknownFacts
<1>2. was.content \in Element
  BY <1>1 DEF UnknownObjects
<1>3. CloneXml(was) = was.content
  BY <1>1, <1>2 DEF KeptIn, CloneXml, serialize
<1>4. o \in UnknownObjects /\ KeptIn(o, document)
  BY <1>2, <1>3 DEF UnknownObjects, KeptIn
<1>5. Put(v, o) /\ UNCHANGED document /\ v \notin Objects
  BY DEF clone, New, Objects
<1>6. o.m_document = Nil
  OBVIOUS
<1> HIDE DEF o
<1>. QED BY <1>4, <1>5, <1>6, SameDocuments

LEMMA AsItIsKept ==
    ASSUME UnknownInv, NEW u \in Objects, NEW d \in Targets(u) \cup {Nil}, MarshallAsItIs(u, d)
    PROVE  UnknownInv'
<1> DEFINE was == unknown[u]
           o == [was EXCEPT !.dom = d]
<1>1. u \in Element /\ was \in UnknownObjects /\ KeptIn(was, document)
  BY UnknownFacts
<1>2. CASE d \in {Nil, was.dom}
  <2>1. UNCHANGED <<unknown, document>>
    BY <1>2 DEF MarshallAsItIs
  <2>. QED BY <2>1 DEF UnknownInv, UnknownTypeOK, UnknownKept, AtItsOwner, Objects
<1>3. CASE d \notin {Nil, was.dom}
  <2>1. d \in Document /\ (document[d] = "caller" \/ d = was.m_document)
    BY <1>3 DEF Targets
  <2>2. document[d] = "caller" \/ (document[d] = "owned" /\ d = was.m_document)
    BY <1>3, <2>1, UnknownFacts
  <2>3. Put(u, o) /\ UNCHANGED document /\ was.dom # Nil
    BY <1>3 DEF MarshallAsItIs
  <2>4. o \in UnknownObjects /\ o.dom = d /\ o.m_xml = was.m_xml /\ o.m_document = was.m_document
    BY <1>1, <2>1 DEF UnknownObjects
  <2>5. KeptIn(o, document)
    BY <1>1, <1>3, <2>2, <2>3, <2>4 DEF KeptIn
  <2> HIDE DEF o
  <2>. QED BY <1>1, <2>3, <2>4, <2>5, SameDocuments
<1>. QED BY <1>2, <1>3

\* An object without a DOM parses its XML into a document of its own ...
LEMMA ParsedKept ==
    ASSUME UnknownInv, NEW u \in Objects, NEW made \in Document, MarshallParsed(u, Nil, made)
    PROVE  UnknownInv'
<1> DEFINE was == unknown[u]
           own == was.m_document
           o == [was EXCEPT !.m_xml = Nil, !.content = was.m_xml, !.dom = made, !.m_document = made]
<1>1. u \in Element /\ was \in UnknownObjects
  BY UnknownFacts
<1>2. was.m_xml \in Element /\ document[made] = "none"
  BY <1>1 DEF MarshallParsed, UnknownObjects
<1>3. Put(u, o)
  BY DEF MarshallParsed
<1>4. o \in UnknownObjects /\ o.dom = made /\ o.m_document = made /\ o.m_xml = Nil
  BY <1>1, <1>2 DEF UnknownObjects
<1>5. o # Nil /\ made # Nil
  BY <1>4, NilAssumption DEF NilAssumption
<1>6. document' = Rebound(was, made, [document EXCEPT ![made] = "owned"])
  BY DEF MarshallParsed
<1>7. own \in Document \cup {Nil} /\ own # made
  BY <1>1, <1>2, <1>5, UnknownFacts DEF UnknownObjects
<1> HIDE DEF o
<1>8. /\ document \in [Document -> {"none", "caller", "owned", "released"}]
      /\ document' \in [Document -> {"none", "caller", "owned", "released"}]
      /\ document'[made] = "owned"
      /\ \A c \in Document \ {made, own} : document'[c] = document[c]
      /\ own # Nil => document'[own] = "released"
  <2>1. document \in [Document -> {"none", "caller", "owned", "released"}]
    BY DEF UnknownInv, UnknownTypeOK
  <2>2. CASE own = Nil
    BY <1>6, <2>1, <2>2 DEF Rebound
  <2>3. CASE own # Nil
    <3>1. document' = [[document EXCEPT ![made] = "owned"] EXCEPT ![own] = "released"]
      BY <1>6, <1>7, <2>3 DEF Rebound
    <3>. QED BY <1>7, <2>1, <2>3, <3>1
  <2>. QED BY <2>2, <2>3
<1>9. KeptIn(o, document')
  BY <1>4, <1>5, <1>8 DEF KeptIn
<1>10. \A v \in Others(u) : unknown[v].dom # Nil
           => unknown[v].dom \in Document \ {made, own}
  <2>1. \A v \in Others(u) : unknown[v].dom # Nil => document[unknown[v].dom] # "none"
    BY <1>1, OthersFacts DEF KeptIn
  <2>. QED BY <1>1, <1>2, <2>1, OthersFacts
<1>11. \A v \in Others(u) : unknown[v].m_document # made
  BY <1>1, <1>2, <1>5, UnknownFacts DEF Others
<1>12. \A c \in Document : document'[c] = "owned" <=>
               \/ o.m_document = c
               \/ \E v \in Others(u) : unknown[v].m_document = c
  <2>1. \A c \in Document : document[c] = "owned" <=>
               \/ own = c
               \/ \E v \in Others(u) : unknown[v].m_document = c
    BY <1>1, OthersFacts
  <2>2. \A v \in Others(u) : own # Nil => unknown[v].m_document # own
    BY <1>1, OthersFacts
  <2>3. ASSUME NEW c \in Document
        PROVE  document'[c] = "owned" <=>
                 \/ made = c
                 \/ \E v \in Others(u) : unknown[v].m_document = c
    <3>1. CASE c = made
      BY <1>8, <3>1
    <3>2. CASE c = own
      BY <1>7, <1>8, <2>2, <3>2, NilAssumption DEF NilAssumption
    <3>3. CASE c \notin {made, own}
      BY <1>8, <2>1, <3>3
    <3>. QED BY <3>1, <3>2, <3>3
  <2>. QED BY <1>4, <2>3
<1>13. o.m_document # Nil => \A v \in Others(u) : unknown[v].m_document # o.m_document
  BY <1>4, <1>11
<1>14. \A v \in Others(u) : unknown[v].dom # Nil => document'[unknown[v].dom] = document[unknown[v].dom]
  BY <1>8, <1>10
<1>. QED BY <1>1, <1>3, <1>4, <1>5, <1>8, <1>9, <1>12, <1>13, <1>14, PutKept

\* ... or has it imported into another document, and the parsed one is released.
LEMMA ParsedAsideKept ==
    ASSUME UnknownInv, NEW u \in Objects, NEW d \in Targets(u), NEW made \in Document,
           MarshallParsed(u, d, made)
    PROVE  UnknownInv'
<1> DEFINE was == unknown[u]
           o == [was EXCEPT !.m_xml = Nil, !.content = was.m_xml, !.dom = d]
<1>1. u \in Element /\ was \in UnknownObjects
  BY UnknownFacts
<1>2. was.m_xml \in Element /\ document[made] = "none"
  BY <1>1 DEF MarshallParsed, UnknownObjects
<1>3. d \in Document /\ d # Nil /\ (document[d] = "caller" \/ d = was.m_document)
  BY NilAssumption DEF Targets, NilAssumption
<1>4. document[d] = "caller" \/ (document[d] = "owned" /\ d = was.m_document)
  BY <1>3, UnknownFacts
<1>5. Put(u, o) /\ document' = [document EXCEPT ![made] = "released"]
  BY <1>3 DEF MarshallParsed, ParsedAside
<1>6. o \in UnknownObjects /\ o.dom = d /\ o.m_document = was.m_document /\ o.m_xml = Nil
  BY <1>1, <1>2, <1>3 DEF UnknownObjects
<1>7. o # Nil
  BY <1>6, NilAssumption DEF NilAssumption
<1> HIDE DEF o
<1>8. /\ document' \in [Document -> {"none", "caller", "owned", "released"}]
      /\ \A c \in Document \ {made} : document'[c] = document[c]
      /\ document'[made] = "released"
  BY <1>5 DEF UnknownInv, UnknownTypeOK
<1>9. document'[d] = document[d]
  BY <1>2, <1>3, <1>4, <1>8
<1>10. KeptIn(o, document')
  BY <1>3, <1>4, <1>6, <1>9 DEF KeptIn
<1>11. \A v \in Others(u) : unknown[v].dom # Nil => document'[unknown[v].dom] = document[unknown[v].dom]
  <2>1. \A v \in Others(u) : unknown[v].dom # Nil => document[unknown[v].dom] # "none"
    BY <1>1, OthersFacts DEF KeptIn
  <2>2. \A v \in Others(u) : unknown[v].dom # Nil => unknown[v].dom \in Document
    BY <1>1, OthersFacts
  <2>. QED BY <1>2, <1>8, <2>1, <2>2
<1>12. \A c \in Document : document'[c] = "owned" <=>
               \/ o.m_document = c
               \/ \E v \in Others(u) : unknown[v].m_document = c
  <2>1. \A c \in Document : document[c] = "owned" <=>
               \/ o.m_document = c
               \/ \E v \in Others(u) : unknown[v].m_document = c
    BY <1>1, <1>6, OthersFacts
  <2>2. \A c \in Document : document'[c] = "owned" <=> document[c] = "owned"
    BY <1>2, <1>8
  <2>. QED BY <2>1, <2>2
<1>13. o.m_document # Nil => \A v \in Others(u) : unknown[v].m_document # o.m_document
  BY <1>1, <1>6, OthersFacts
<1>14. Put(u, o)
  BY <1>5
<1>15. document' \in [Document -> {"none", "caller", "owned", "released"}]
  BY <1>8
<1>16. u \in Element /\ o \in UnknownObjects
  BY <1>1, <1>6
<1>. QED BY <1>7, <1>14, <1>15, <1>16, <1>10, <1>11, <1>12, <1>13, PutKept

LEMMA DestructorKept ==
    ASSUME UnknownInv, NEW u \in Objects, Destructor(u)
    PROVE  UnknownInv'
<1> DEFINE own == unknown[u].m_document
<1>1. u \in Element /\ own \in Document \cup {Nil}
  BY UnknownFacts DEF UnknownObjects
<1>2. Put(u, Nil) /\ document' = Rebound(unknown[u], Nil, document)
  BY DEF Destructor
<1>3. /\ document' \in [Document -> {"none", "caller", "owned", "released"}]
      /\ \A c \in Document \ {own} : document'[c] = document[c]
      /\ own # Nil => document'[own] = "released"
  BY <1>1, <1>2 DEF Rebound, UnknownInv, UnknownTypeOK
<1>4. \A v \in Others(u) : unknown[v].dom # Nil => document'[unknown[v].dom] = document[unknown[v].dom]
  <2>1. \A v \in Others(u) : unknown[v].dom # Nil => unknown[v].dom \in Document \ {own}
    BY <1>1, OthersFacts
  <2>. QED BY <1>3, <2>1
<1>5. \A c \in Document : document'[c] = "owned" <=> \E v \in Others(u) : unknown[v].m_document = c
  <2>1. \A c \in Document : document[c] = "owned" <=>
               \/ own = c
               \/ \E v \in Others(u) : unknown[v].m_document = c
    BY <1>1, OthersFacts
  <2>2. \A v \in Others(u) : own # Nil => unknown[v].m_document # own
    BY <1>1, OthersFacts
  <2>3. ASSUME NEW c \in Document
        PROVE  document'[c] = "owned" <=> \E v \in Others(u) : unknown[v].m_document = c
    <3>1. CASE c = own
      BY <1>3, <2>2, <3>1, NilAssumption DEF NilAssumption
    <3>2. CASE c # own
      BY <1>3, <2>1, <3>2
    <3>. QED BY <3>1, <3>2
  <2>. QED BY <2>3
<1>. QED BY <1>1, <1>2, <1>3, <1>4, <1>5, PutKept

LEMMA CallerReleasesKept ==
    ASSUME UnknownInv, NEW d \in Document, CallerReleases(d)
    PROVE  UnknownInv'
<1>1. /\ document[d] = "caller"
      /\ \A u \in Objects : unknown[u].dom # d
      /\ document' = [document EXCEPT ![d] = "released"]
      /\ unknown' = unknown
  BY DEF CallerReleases
<1>2. Objects' = Objects
  BY <1>1 DEF Objects
<1>3. /\ document' \in [Document -> {"none", "caller", "owned", "released"}]
      /\ \A c \in Document \ {d} : document'[c] = document[c]
      /\ document'[d] = "released"
  BY <1>1 DEF UnknownInv, UnknownTypeOK
<1>4. \A u \in Objects : unknown[u].dom # Nil => document'[unknown[u].dom] = document[unknown[u].dom]
  <2>1. \A u \in Objects : unknown[u].dom # Nil => unknown[u].dom \in Document \ {d}
    BY <1>1, UnknownFacts DEF UnknownObjects
  <2>. QED BY <1>3, <2>1
<1>5. \A c \in Document : document'[c] = "owned" <=> document[c] = "owned"
  BY <1>1, <1>3
<1>6. UnknownKept'
  <2>1. ASSUME NEW u \in Objects
        PROVE  IF unknown[u].dom = Nil THEN unknown[u].m_xml = unknown[u].content /\ unknown[u].content # Nil
               ELSE unknown[u].m_xml = Nil /\ document'[unknown[u].dom] \in {"caller", "owned"}
    BY <1>4 DEF UnknownInv, UnknownKept
  <2>2. \A c \in Document : document'[c] = "owned" <=> \E u \in Objects : unknown[u].m_document = c
    BY <1>5 DEF UnknownInv, UnknownKept
  <2>3. \A u, v \in Objects : u # v /\ unknown[u].m_document # Nil
                               => unknown[u].m_document # unknown[v].m_document
    BY DEF UnknownInv, UnknownKept
  <2>4. \A u \in Objects' : u \in Objects /\ unknown'[u] = unknown[u]
    BY <1>1, <1>2
  <2>5. \A u \in Objects' : IF unknown'[u].dom = Nil THEN unknown'[u].m_xml = unknown'[u].content /\ unknown'[u].content # Nil
               ELSE unknown'[u].m_xml = Nil /\ document'[unknown'[u].dom] \in {"caller", "owned"}
    BY <2>1, <2>4
  <2>6. \A c \in Document : document'[c] = "owned" <=> \E u \in Objects' : unknown'[u].m_document = c
    BY <1>1, <1>2, <2>2
  <2>7. \A u, v \in Objects' : u # v /\ unknown'[u].m_document # Nil
                               => unknown'[u].m_document # unknown'[v].m_document
    BY <2>3, <2>4
  <2>. QED BY <2>5, <2>6, <2>7 DEF UnknownKept
<1>7. AtItsOwner'
  BY <1>1, <1>2, <1>4 DEF AtItsOwner, UnknownInv
<1>8. unknown' \in [Element -> UnknownObjects \cup {Nil}]
  BY <1>1 DEF UnknownInv, UnknownTypeOK
<1>. QED BY <1>3, <1>6, <1>7, <1>8 DEF UnknownInv, UnknownTypeOK

LEMMA UnknownInitially ==
    ASSUME UnknownInit
    PROVE  UnknownInv
<1>1. UnknownTypeOK
  BY DEF UnknownInit, UnknownTypeOK
<1>2. Objects = {} /\ \A d \in Document : document[d] # "owned"
  BY DEF UnknownInit, Objects
<1>3. UnknownKept /\ AtItsOwner
  BY <1>2 DEF UnknownKept, AtItsOwner
<1>. QED BY <1>1, <1>3 DEF UnknownInv

LEMMA UnknownStep ==
    ASSUME UnknownInv, [UnknownNext]_unknownVars
    PROVE  UnknownInv'
<1>1. ASSUME NEW u \in Element, NEW d \in Document, NEW bind \in BOOLEAN, unmarshall(u, d, bind)
      PROVE  UnknownInv'
  BY <1>1, UnmarshallKept
<1>2. ASSUME NEW u \in Objects, releaseDOM(u)
      PROVE  UnknownInv'
  BY <1>2, ReleaseKept
<1>3. ASSUME NEW u \in Objects, NEW v \in Element, clone(u, v)
      PROVE  UnknownInv'
  BY <1>3, CloneKept
<1>4. ASSUME NEW u \in Objects, marshall(u, Nil)
      PROVE  UnknownInv'
  BY <1>4, AsItIsKept, ParsedKept DEF marshall
<1>5. ASSUME NEW u \in Objects, NEW d \in Targets(u), marshall(u, d)
      PROVE  UnknownInv'
  BY <1>5, AsItIsKept, ParsedAsideKept DEF marshall
<1>6. ASSUME NEW u \in Objects, Destructor(u)
      PROVE  UnknownInv'
  BY <1>6, DestructorKept
<1>7. ASSUME NEW d \in Document, CallerReleases(d)
      PROVE  UnknownInv'
  BY <1>7, CallerReleasesKept
<1>8. CASE UNCHANGED unknownVars
  BY <1>8 DEF unknownVars, UnknownInv, UnknownTypeOK, UnknownKept, AtItsOwner, Objects
<1>. QED BY <1>1, <1>2, <1>3, <1>4, <1>5, <1>6, <1>7, <1>8 DEF UnknownNext

\* An element without a builder has its content as XML or as the DOM of a
\* document that exists, whatever is released, cloned, marshalled and
\* destroyed, and every document that was handed over has one owner.
THEOREM UnknownsKept == UnknownSpec => []UnknownKept
<1>1. UnknownInit => UnknownInv
  BY UnknownInitially
<1>2. UnknownInv /\ [UnknownNext]_unknownVars => UnknownInv'
  BY UnknownStep
<1>3. UnknownInv => UnknownKept
  BY DEF UnknownInv
<1>. QED BY <1>1, <1>2, <1>3, PTL DEF UnknownSpec
=============================================================================
