----------------------------- MODULE ParserPool -----------------------------
(***************************************************************************)
(* ParserPool: DOM parsers that threads take from a stack and put back.    *)
(*                                                                         *)
(* A parser keeps pointers that its user gave it: the error handler is a   *)
(* local variable of parse(), and the list of schemas is that of the pool  *)
(* when it was last taken.  The map of schemas is read by parsers without  *)
(* the lock under which it is written: XMLToolingConfig.h asks callers to  *)
(* register schemas while nobody parses, and LateSchemas drops that rule.  *)
(***************************************************************************)
EXTENDS Naturals, Sequences, SequencesExt

CONSTANTS Thread, Parser, Schema, Null,
          LateSchemas

ASSUME ParserPoolAssumption ==
    /\ Null \notin Thread \cup Parser
    /\ Thread \cap {"unmade", "pool", "deleted"} = {}
    /\ LateSchemas \in BOOLEAN

VARIABLES pool,       \* m_pool, the top of the stack last
          owner,      \* where each parser is: "unmade", "pool", a thread, "deleted"
          handler,    \* the thread whose handler the parser points to
          hint,       \* the schemas the parser was told of
          schemas,    \* m_schemaLocMap and m_schemaLocations
          writer,     \* the thread inside loadSchema() or loadCatalog()
          parsing,    \* the parser each thread runs in parse()
          raced       \* the map was read and written at once

poolVars == <<pool, owner, handler, hint, schemas, writer, parsing, raced>>

PoolTypeOK ==
    /\ pool \in Seq(Parser)
    /\ owner \in [Parser -> {"unmade", "pool", "deleted"} \cup Thread]
    /\ handler \in [Parser -> Thread \cup {Null}]
    /\ hint \in [Parser -> SUBSET Schema]
    /\ schemas \subseteq Schema
    /\ writer \in Thread \cup {Null}
    /\ parsing \in [Thread -> Parser \cup {Null}]
    /\ raced \in BOOLEAN

\* The constructor.
PoolInit ==
    /\ pool = <<>>
    /\ owner = [p \in Parser |-> "unmade"]
    /\ handler = [p \in Parser |-> Null]
    /\ hint = [p \in Parser |-> {}]
    /\ schemas = {}
    /\ writer = Null
    /\ parsing = [t \in Thread |-> Null]
    /\ raced = FALSE

Busy(t) == parsing[t] # Null

\* Which new object it is makes no difference.
NewOf(S, x) == x \in S /\ x = CHOOSE y \in S : TRUE
-----------------------------------------------------------------------------
\* checkoutBuilder() with nothing in the pool: createBuilder().
Creates(t, p) ==
    /\ pool = <<>>
    /\ NewOf({q \in Parser : owner[q] = "unmade"}, p)
    /\ hint' = [hint EXCEPT ![p] = schemas]
    /\ UNCHANGED pool

\* Mutant: the parser keeps the list it was made with.
TakesStale(t, p) ==
    /\ pool # <<>>
    /\ p = Last(pool)
    /\ pool' = Front(pool)
    /\ UNCHANGED hint

\* checkoutBuilder(): the top of the stack, told of the schemas of now.
Takes(t, p) ==
    /\ pool # <<>>
    /\ p = Last(pool)
    /\ pool' = Front(pool)
    /\ hint' = [hint EXCEPT ![p] = schemas]

\* parse() has a parser and gives it its error handler.
Checkout(t) ==
    /\ ~Busy(t)
    /\ writer = Null
    /\ \E p \in Parser :
          /\ Creates(t, p) \/ Takes(t, p)
          /\ owner' = [owner EXCEPT ![p] = t]
          /\ handler' = [handler EXCEPT ![p] = t]
          /\ parsing' = [parsing EXCEPT ![t] = p]
    /\ UNCHANGED <<schemas, writer, raced>>

\* resolveResource(): the map is searched, first by key and then by value.
Resolves(t) ==
    /\ Busy(t)
    /\ raced' = (raced \/ writer # Null)
    /\ UNCHANGED <<pool, owner, handler, hint, schemas, writer, parsing>>

\* Mutant: an exception leaves the handler where it is.
HandlerKept(t) == \E result \in {"document", "exception"} :
    handler' = IF result = "document" THEN [handler EXCEPT ![parsing[t]] = Null] ELSE handler

\* The document is there, or it had errors, or a DOMException, SAXException or
\* XMLException was thrown: each branch takes the handler back.
HandlerTaken(t) == handler' = [handler EXCEPT ![parsing[t]] = Null]

\* The end of parse(): checkinBuilder().
Finishes(t) ==
    /\ Busy(t)
    /\ writer = Null
    /\ HandlerTaken(t)
    /\ pool' = Append(pool, parsing[t])
    /\ owner' = [owner EXCEPT ![parsing[t]] = "pool"]
    /\ parsing' = [parsing EXCEPT ![t] = Null]
    /\ UNCHANGED <<hint, schemas, writer, raced>>

\* An exception that parse() does not know: the janitor deletes the parser.
Escapes(t) ==
    /\ Busy(t)
    /\ owner' = [owner EXCEPT ![parsing[t]] = "deleted"]
    /\ handler' = [handler EXCEPT ![parsing[t]] = Null]
    /\ parsing' = [parsing EXCEPT ![t] = Null]
    /\ UNCHANGED <<pool, hint, schemas, writer, raced>>

\* loadSchema(), and loadCatalog() once the catalog is parsed: the lock is
\* taken and the map changes.
Registers(t) ==
    /\ ~Busy(t)
    /\ writer = Null
    /\ LateSchemas \/ \A u \in Thread : ~Busy(u)
    /\ \E s \in Schema \ schemas : schemas' = schemas \cup {s}
    /\ writer' = t
    /\ UNCHANGED <<pool, owner, handler, hint, parsing, raced>>

\* The list is written anew, and the lock is released.
Registered(t) ==
    /\ writer = t
    /\ writer' = Null
    /\ UNCHANGED <<pool, owner, handler, hint, schemas, parsing, raced>>

ParseStep(t) == Checkout(t) \/ Resolves(t) \/ Finishes(t) \/ Escapes(t)

RegisterStep(t) == Registers(t) \/ Registered(t)

\* ~ParserPool()
Destroyed ==
    /\ owner' = [p \in Parser |-> IF owner[p] = "pool" THEN "deleted" ELSE owner[p]]
    /\ pool' = <<>>
    /\ schemas' = {}
    /\ UNCHANGED <<handler, hint, parsing, writer, raced>>

PoolNext == \E t \in Thread : ParseStep(t) \/ RegisterStep(t)

PoolSpec == PoolInit /\ [][PoolNext]_poolVars
-----------------------------------------------------------------------------
(***************************************************************************)
(* A parser is used by one thread at a time: those in the pool are there   *)
(* once and nobody has them, the parser of a thread is its own, and no     *)
(* parser points to the error handler of a parse() that has returned,      *)
(* whichever way it returned.                                              *)
(***************************************************************************)
ParserExclusive ==
    /\ \A p \in Parser : owner[p] = "pool" <=> \E i \in DOMAIN pool : pool[i] = p
    /\ \A i, j \in DOMAIN pool : pool[i] = pool[j] => i = j
    /\ \A t \in Thread : \A p \in Parser : owner[p] = t <=> parsing[t] = p
    /\ \A p \in Parser : handler[p] # Null => parsing[handler[p]] = p

(***************************************************************************)
(* Under the rule, the map is never read while it changes, and while a     *)
(* thread parses its parser knows the schemas registered before.           *)
(***************************************************************************)
SchemasKnown ==
    ~LateSchemas =>
        /\ ~raced
        /\ \A t \in Thread : Busy(t) => hint[parsing[t]] = schemas

(***************************************************************************)
(* What parse() has: a parser of its own that knows the schemas.           *)
(***************************************************************************)
ParserSound == ParserExclusive /\ SchemasKnown
=============================================================================
