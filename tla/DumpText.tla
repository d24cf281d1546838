------------------------------ MODULE DumpText -------------------------------
(***************************************************************************)
(* The text of a dump, and its parse: serialization.py, and the text-mode  *)
(* file reads of sync.py and cli.py.                                       *)
(*                                                                         *)
(* A text is a sequence of lines, each ended by a newline, and a line a    *)
(* sequence of pieces with a carriage return between any two: one piece,   *)
(* for a line without one.  Of a piece matters whether it is empty, three  *)
(* dashes after some number of backslashes, a comment, the header of a     *)
(* block, or anything else.  A header stands for all lines of a block up   *)
(* to the empty one: a field or an edge a line, none of them empty or a    *)
(* rule of dashes.                                                         *)
(***************************************************************************)
EXTENDS Naturals, Sequences, SequencesExt, FiniteSetsExt

Blank     == <<"blank">>
Comment   == <<"comment">>
Rule(k)   == <<"rule", k>>     \* k backslashes and "---"
Separator == <<Rule(0)>>

\* _BODY_SENTINEL_RE, which looks at a whole line.
IsRule(line) == Len(line) = 1 /\ line[1][1] = "rule"
-----------------------------------------------------------------------------
(* Writing.                                                                *)

MutEscape(line) == IF line = Separator THEN <<Rule(1)>> ELSE line

\* _escape_body, of one line: one more backslash.
Escape(line) == IF IsRule(line) THEN <<Rule(line[1][2] + 1)>> ELSE line

MutUnescape(line) ==
    IF IsRule(line) /\ line[1][2] > 1 THEN <<Rule(line[1][2] - 1)>> ELSE line

\* _unescape_body_line
Unescape(line) ==
    IF IsRule(line) /\ line[1][2] > 0 THEN <<Rule(line[1][2] - 1)>> ELSE line

\* The block of a node or an event: its header, an empty line, its text.
Block(header, text) ==
    << <<header>>, <<Blank>> >> \o [i \in DOMAIN text |-> Escape(text[i])]

\* dump_node: the node's block, then one for each of its events.
NodeBlocks(pair) ==
    <<Block(<<"node", pair.node, pair.edges>>, pair.body)>>
      \o SetToSeq({Block(<<"event", e.says>>, e.reason) : e \in pair.events})

\* dump_all: a separator before every block but the first.
DumpAll(pairs) ==
    LET blocks == FlattenSeq([i \in DOMAIN pairs |-> NodeBlocks(pairs[i])])
    IN  << <<Comment>>, <<Comment>>, <<Blank>> >>
          \o FlattenSeq([i \in DOMAIN blocks |->
                 IF i = 1 THEN blocks[i] ELSE <<Separator>> \o blocks[i]])
-----------------------------------------------------------------------------
(* Reading.                                                                *)

\* Path.read_text opens the file with universal newlines: a carriage return, and
\* one before a newline, reads as a newline.
ReadText(text) ==
    FlattenSeq([i \in DOMAIN text |->
        LET pieces == IF Len(text[i]) > 1 /\ Last(text[i]) = Blank
                      THEN Front(text[i]) ELSE text[i]
        IN  [j \in DOMAIN pieces |-> <<pieces[j]>>]])

\* The text after the leading comments and empty lines.
Trimmed(text) ==
    LET kept == {i \in DOMAIN text : text[i] \notin {<<Comment>>, <<Blank>>}}
    IN  IF kept = {} THEN <<>> ELSE SubSeq(text, Min(kept), Len(text))

\* split("\n---\n"): a rule on a line of its own, neither first nor last, nor right
\* after one that was split at.
Cuts(text) ==
    LET cut[i \in 0..Len(text)] ==
            i > 1 /\ i < Len(text) /\ text[i] = Separator /\ ~cut[i - 1]
    IN  {i \in 1..Len(text) : cut[i]}

Blocks(text) ==
    {SubSeq(text, 1 + Max({0} \cup {c \in Cuts(text) : c < end}), end - 1) :
         end \in Cuts(text) \cup {Len(text) + 1}}

\* The blocks whose first line is a header of that kind.
Headed(kind, text) ==
    {b \in Blocks(text) : b # <<>> /\ Len(b[1]) = 1 /\ b[1][1][1] = kind}

\* What follows the first empty line of a block, unescaped.
TextOf(block) ==
    LET text == SubSeq(block, 1 + SelectInSeq(block, LAMBDA line : line = <<Blank>>),
                       Len(block))
    IN  [i \in DOMAIN text |-> Unescape(text[i])]

\* parse_dump: a block that is headed by neither is dropped, and so is an event of
\* a node that is not there.
ParseDump(text) ==
    LET body == Trimmed(text)
        Event(b) == [says |-> b[1][1][2], reason |-> TextOf(b)]
    IN  {[node   |-> b[1][1][2],
          edges  |-> b[1][1][3],
          body   |-> TextOf(b),
          events |-> {e \in {Event(c) : c \in Headed("event", body)} :
                          e.says.on = b[1][1][2].id}] : b \in Headed("node", body)}
=============================================================================
