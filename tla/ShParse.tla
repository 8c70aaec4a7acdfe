------------------------------ MODULE ShParse -------------------------------
(***************************************************************************)
(* The recursive-descent parser of sh.c, on tokens: "a" is a word, the     *)
(* others stand for themselves.  peek() looks at the first token,          *)
(* gettoken() takes it.  A command is [t, kids, n]: its type, what it is   *)
(* built from, and for EXEC the number of arguments, for REDIR the         *)
(* descriptor.  A parse function returns the command and the rest of the   *)
(* tokens; rest "!" stands for panic(), which ends the process.            *)
(***************************************************************************)
EXTENDS Integers, Sequences

CONSTANT MAXARGS

Cmd(t, kids, n) == [t |-> t, kids |-> kids, n |-> n]
Panic == [cmd |-> Cmd("EXEC", <<>>, 0), rest |-> <<"!">>]
Got(cmd, rest) == [cmd |-> cmd, rest |-> rest]
Failed(r) == r.rest = <<"!">>
peek(s, toks) == s # <<>> /\ Head(s) \in toks

\* parseredirs(): each redirection wraps the ones before it.
RECURSIVE parseredirs(_, _)
parseredirs(cmd, s) ==
  IF ~peek(s, {"<", ">"}) THEN Got(cmd, s)
  ELSE IF Len(s) < 2 \/ s[2] # "a" THEN Panic
  ELSE parseredirs(Cmd("REDIR", <<cmd>>, IF s[1] = "<" THEN 0 ELSE 1), SubSeq(s, 3, Len(s)))

\* The arguments go to the EXEC command inside the redirections.
RECURSIVE AddArg(_)
AddArg(cmd) ==
  IF cmd.t = "EXEC" THEN [cmd EXCEPT !.n = @ + 1] ELSE [cmd EXCEPT !.kids = <<AddArg(@[1])>>]
RECURSIVE Argc(_)
Argc(cmd) == IF cmd.t = "EXEC" THEN cmd.n ELSE Argc(cmd.kids[1])

\* The loop of parseexec(); r: what was parsed before.
RECURSIVE parseargs(_)
MoreArgs(cmd, s) ==
  IF peek(s, {"|", ")", "&", ";"}) \/ s = <<>> THEN Got(cmd, s)
  ELSE IF Head(s) # "a" \/ Argc(cmd) + 1 >= MAXARGS THEN Panic
  ELSE parseargs(parseredirs(AddArg(cmd), Tail(s)))
parseargs(r) == IF Failed(r) THEN r ELSE MoreArgs(r.cmd, r.rest)

\* A bug: "&" ends a pipeline only once.
Backs_one(s) == peek(s, {"&"}) /\ ~(Len(s) > 1 /\ s[2] = "&")
Backs(s) == peek(s, {"&"})

RECURSIVE parseline(_), parsepipe(_), parsebacks(_)

\* parseblock(), after the line in the parentheses.
Block(r) == IF Failed(r) \/ ~peek(r.rest, {")"}) THEN Panic ELSE parseredirs(r.cmd, Tail(r.rest))
parseexec(s) ==
  IF peek(s, {"("}) THEN Block(parseline(Tail(s))) ELSE parseargs(parseredirs(Cmd("EXEC", <<>>, 0), s))

\* The command of type t made of l and r.
Joined(t, l, r) == IF Failed(r) THEN r ELSE Got(Cmd(t, <<l.cmd, r.cmd>>, 0), r.rest)
PipeAfter(l) ==
  IF Failed(l) \/ ~peek(l.rest, {"|"}) THEN l ELSE Joined("PIPE", l, parsepipe(Tail(l.rest)))
parsepipe(s) == PipeAfter(parseexec(s))

parsebacks(r) ==
  IF ~Failed(r) /\ Backs(r.rest) THEN parsebacks(Got(Cmd("BACK", <<r.cmd>>, 0), Tail(r.rest))) ELSE r

LineAfter(l) ==
  IF Failed(l) \/ ~peek(l.rest, {";"}) THEN l ELSE Joined("LIST", l, parseline(Tail(l.rest)))
parseline(s) == LineAfter(parsebacks(parsepipe(s)))

\* parsecmd(): tokens left over are a syntax error too.
Whole(r) == IF r.rest = <<>> THEN r ELSE Panic
parsecmd(s) == Whole(parseline(s))
=============================================================================
