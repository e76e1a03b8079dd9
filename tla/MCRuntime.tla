----------------------------- MODULE MCRuntime ------------------------------
(* XMLToolingConfig for TLC: two addresses of TLS endpoints, one whose peer *)
(* must be authenticated and one whose peer may be, and one without TLS.    *)
EXTENDS XMLToolingConfig

At3(from, to, endpoint, trust) ==
    [from |-> from, to |-> to, endpoint |-> endpoint, trust |-> trust]

MCAddress == {At3("sp", "idp", "https", "mandatory"), At3("sp", "op", "https", "optional"),
              At3("sp", "idp", "http", "mandatory")}

Symmetry == Permutations(Thread) \cup Permutations(Parser) \cup Permutations(Handle)
=============================================================================
