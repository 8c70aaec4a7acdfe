----------------------------- MODULE ShGrammar ------------------------------
(***************************************************************************)
(* The parser of sh.c against the grammar it is meant to parse:            *)
(*    line   ::= pipe '&'* [ ';' line ]                                    *)
(*    pipe   ::= exec [ '|' pipe ]                                         *)
(*    exec   ::= '(' line ')' redir* | redir* ( 'a' redir* )*              *)
(*    redir  ::= '<' 'a' | '>' 'a'                                         *)
(* with fewer than MAXARGS words in an exec.                               *)
(* X(i) below is the set of positions where an X that starts at position i *)
(* of the line may end, so that no order of alternatives is assumed.       *)
(***************************************************************************)
EXTENDS ShParse, FiniteSets

VARIABLE line   \* the tokens typed at the prompt

Is(i, t) == i <= Len(line) /\ line[i] = t
RECURSIVE Redirs(_), Words(_, _), Backs_(_), LineEnds(_), PipeEnds(_), ExecEnds(_)
Redirs(i) ==
  {i} \cup IF (Is(i, "<") \/ Is(i, ">")) /\ Is(i + 1, "a") THEN Redirs(i + 2) ELSE {}
Words(i, n) ==
  {i} \cup IF Is(i, "a") /\ n + 1 < MAXARGS THEN UNION {Words(j, n + 1) : j \in Redirs(i + 1)} ELSE {}
ExecEnds(i) ==
  UNION {Words(j, 0) : j \in Redirs(i)} \cup
  IF Is(i, "(") THEN UNION {Redirs(j + 1) : j \in {k \in LineEnds(i + 1) : Is(k, ")")}} ELSE {}
PipeFrom(ends) == ends \cup UNION {PipeEnds(j + 1) : j \in {k \in ends : Is(k, "|")}}
PipeEnds(i) == PipeFrom(ExecEnds(i))
Backs_(i) == {i} \cup IF Is(i, "&") THEN Backs_(i + 1) ELSE {}
LineFrom(ends) == ends \cup UNION {LineEnds(j + 1) : j \in {k \in ends : Is(k, ";")}}
LineEnds(i) == LineFrom(UNION {Backs_(j) : j \in PipeEnds(i)})

Count(c) == Cardinality({k \in DOMAIN line : line[k] = c})
RECURSIVE Size(_, _)
Size(cmd, t) ==
  (IF cmd.t = t THEN 1 ELSE 0) +
  CASE Len(cmd.kids) = 0 -> 0
    [] Len(cmd.kids) = 1 -> Size(cmd.kids[1], t)
    [] OTHER -> Size(cmd.kids[1], t) + Size(cmd.kids[2], t)
RECURSIVE AllArgs(_)
AllArgs(cmd) ==
  CASE Len(cmd.kids) = 0 -> cmd.n
    [] Len(cmd.kids) = 1 -> AllArgs(cmd.kids[1])
    [] OTHER -> AllArgs(cmd.kids[1]) + AllArgs(cmd.kids[2])

AcceptsTheGrammar(r) == ~Failed(r) <=> Len(line) + 1 \in LineEnds(1)
TreeOfTheLine(r) ==
  ~Failed(r) => /\ Size(r.cmd, "PIPE") = Count("|") /\ Size(r.cmd, "LIST") = Count(";")
                /\ Size(r.cmd, "BACK") = Count("&") /\ Size(r.cmd, "REDIR") = Count("<") + Count(">")
                /\ AllArgs(r.cmd) = Count("a") - Count("<") - Count(">")
Parses(r) == AcceptsTheGrammar(r) /\ TreeOfTheLine(r)

\* parsecmd() is a parser for the grammar: it accepts a line exactly when the
\* grammar has it, deciding by the next token alone, and an accepted line loses
\* nothing: every "|", ";", "&" and redirection of it is one node of the tree,
\* every other word an argument.
ParsesTheGrammar == Parses(parsecmd(line))
=============================================================================
