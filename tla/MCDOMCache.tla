----------------------------- MODULE MCDOMCache -----------------------------
(* DOMCache for TLC: addresses, documents and contents are interchangeable. *)
EXTENDS DOMCache, TLC

Symmetry == Permutations(Obj) \cup Permutations(LibDoc) \cup Permutations(Value)

\* A bound: from where four objects exist the run goes on only if they have one
\* content and two documents of the library at the most, which is enough for
\* the copy of a parent and its child.
MCBound ==
    Cardinality(live) < 4 \/ (Cardinality({value[o] : o \in live}) = 1 /\ Cardinality(docs) <= 2)
=============================================================================
