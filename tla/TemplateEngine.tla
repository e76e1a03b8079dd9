--------------------------- MODULE TemplateEngine ---------------------------
(***************************************************************************)
(* util/TemplateEngine.cpp: a template is a sequence of pieces, text       *)
(* without a "<" or one of the engine's tags, and process() goes through   *)
(* it with a position that the calls it makes for nested tags move.  An    *)
(* author writes the template, and run() is called on it.                  *)
(***************************************************************************)
EXTENDS Integers, Sequences, SequencesExt

CONSTANTS Given,        \* the parameters a template may be run with
          TemplateSize  \* tags and texts of a template

VARIABLES page,      \* the template as its author sees it, tags within tags
          given,     \* the parameters: [map, request, thrown, loops]
          output     \* what run() wrote, Unrun before

templateVars == <<page, given, output>>

Empty == ""
Absent == "absent"            \* the null pointer of getParameter()
Unrun == <<"unrun">>
NoEntry == <<Empty, Empty>>

Enclosing == {"if", "ifnot", "for"}
Ending == {"endif", "endifnot", "endfor"}
-----------------------------------------------------------------------------
getParameter(p, name) == IF p.map[name] # Absent THEN p.map[name] ELSE p.request[name]

Property(p, name) == IF getParameter(p, name) # Absent THEN getParameter(p, name) ELSE p.thrown[name]

html_encode(value) == IF value \in {Empty, Absent} THEN <<>> ELSE <<<<"encoded", value>>>>

\* <mlp name/>, which in a loop may ask for the entry.
KeyText(p, name, entry) ==
    html_encode(IF name = "$name" /\ entry[1] # Empty THEN entry[1]
                ELSE IF name = "$value" /\ entry[2] # Empty THEN entry[2]
                ELSE Property(p, name))

IfShown(p, visible, name) == visible /\ Property(p, name) # Absent

IfNotAlone(p, visible, name) == Property(p, name) = Absent

IfNotShown(p, visible, name) == visible /\ Property(p, name) = Absent

\* What process() is called for: once for each entry, or once to pass over.
LoopRounds(p, visible, name) ==
    IF p.loops[name] = <<>> THEN <<[visible |-> FALSE, entry |-> NoEntry]>>
    ELSE [i \in DOMAIN p.loops[name] |-> [visible |-> visible, entry |-> p.loops[name][i]]]

RECURSIVE process(_, _, _, _, _)
process(p, buf, visible, lastpos, entry) ==
    LET piece == buf[lastpos]
        Say(out) == IF visible THEN out ELSE <<>>
        Go(out, from) ==
            LET rest == process(p, buf, visible, from, entry)
            IN  [rest EXCEPT !.out = out \o @]
        Enter(shown, within) == process(p, buf, shown, lastpos + 1, within)
        Nested(shown) == LET inner == Enter(shown, entry) IN Go(inner.out, inner.pos)
    IN  IF \A i \in lastpos .. Len(buf) : buf[i].tag = "text"
        THEN [out |-> Say([i \in 1 .. Len(buf) - lastpos + 1 |-> <<"text", buf[lastpos + i - 1].name>>]),
              pos |-> lastpos]
        ELSE CASE piece.tag = "text" -> Go(Say(<<<<"text", piece.name>>>>), lastpos + 1)
               [] piece.tag = "key" -> Go(Say(KeyText(p, piece.name, entry)), lastpos + 1)
               [] piece.tag = "if" -> Nested(IfShown(p, visible, piece.name))
               [] piece.tag = "ifnot" -> Nested(IfNotShown(p, visible, piece.name))
               [] piece.tag = "for" ->
                    LET rounds == LoopRounds(p, visible, piece.name)
                        runs == [i \in DOMAIN rounds |-> Enter(rounds[i].visible, rounds[i].entry)]
                    IN  Go(FlattenSeq([i \in DOMAIN runs |-> runs[i].out]), Last(runs).pos)
               [] piece.tag \in Ending -> [out |-> <<>>, pos |-> lastpos + 1]

Run(p, buf) == process(p, buf, TRUE, 1, NoEntry).out
-----------------------------------------------------------------------------
(* The template as its author nests it, and what the header says of it. *)

RECURSIVE Pieces(_)
Pieces(nodes) ==
    FlattenSeq([i \in DOMAIN nodes |->
        LET n == nodes[i]
        IN  IF n.tag \in Enclosing
            THEN <<[tag |-> n.tag, name |-> n.name]>> \o Pieces(n.body)
                   \o <<[tag |-> "end" \o n.tag, name |-> Empty]>>
            ELSE <<[tag |-> n.tag, name |-> n.name]>>])

RECURSIVE Rendered(_, _, _)
Rendered(p, nodes, entry) ==
    FlattenSeq([i \in DOMAIN nodes |->
        LET n == nodes[i]
            Here == Rendered(p, n.body, entry)
        IN  CASE n.tag = "text" -> <<<<"text", n.name>>>>
              [] n.tag = "key" -> KeyText(p, n.name, entry)
              [] n.tag = "if" -> IF Property(p, n.name) # Absent THEN Here ELSE <<>>
              [] n.tag = "ifnot" -> IF Property(p, n.name) = Absent THEN Here ELSE <<>>
              [] n.tag = "for" ->
                   FlattenSeq([j \in DOMAIN p.loops[n.name] |-> Rendered(p, n.body, p.loops[n.name][j])])])

KeyNames == UNION {DOMAIN p.loops : p \in Given}
Node(tag, name, body) == [tag |-> tag, name |-> name, body |-> body]

TemplateInit == page = <<>> /\ given \in Given /\ output = Unrun

Writes(nodes) == page' = nodes /\ output = Unrun /\ UNCHANGED <<given, output>>

Appends ==
    /\ Len(Pieces(page)) < TemplateSize
    /\ \/ \E t \in {"a", "b"} : Writes(Append(page, Node("text", t, <<>>)))
       \/ \E name \in KeyNames : Writes(Append(page, Node("key", name, <<>>)))

\* The last pieces of the page are put inside a tag.
Encloses ==
    /\ Len(Pieces(page)) + 1 < TemplateSize
    /\ \E tag \in Enclosing, name \in KeyNames \ {"$name", "$value"}, n \in 0 .. Len(page) :
         Writes(Append(SubSeq(page, 1, n), Node(tag, name, SubSeq(page, n + 1, Len(page)))))

Runs == output = Unrun /\ output' = Run(given, Pieces(page)) /\ UNCHANGED <<page, given>>

TemplateNext == Appends \/ Encloses \/ Runs
-----------------------------------------------------------------------------
(***************************************************************************)
(* A template whose tags are nested is rendered as its nesting says,       *)
(* whatever is invisible and however often a loop goes round: the calls of *)
(* process() agree on where each of them ends.                             *)
(***************************************************************************)
RendersNested == output # Unrun => output = Rendered(given, page, NoEntry)
=============================================================================
