------------------------------- MODULE MCDump --------------------------------
(* Small instances of Dump: graphs of two nodes, and the texts of their       *)
(* bodies and of the reasons that name them.                                 *)
EXTENDS Dump, TLC

CONSTANTS n1, n2

Prose == <<"prose">>

\* Texts of lines that look like the marks of a dump.
RuledText == (n1 :> << <<Rule(0)>>, <<Rule(1)>> >>)
          @@ (n2 :> << <<Prose>>, <<Rule(0)>>, <<Blank>> >>)

\* A text with the line ends of another platform: a title, a rule, and prose.
ReturnedText == (n1 :> << <<Prose, Blank>>, <<Rule(0), Blank>>, <<Prose>> >>)
             @@ (n2 :> << <<Prose>> >>)
=============================================================================
