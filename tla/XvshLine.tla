------------------------------ MODULE XvshLine ------------------------------
(***************************************************************************)
(* How xvsh takes a command line apart (strtok_custom(), process_one_cmd() *)
(* and the splitting in execute_piped_commands() and                       *)
(* execute_redirection()), in place in its buffer, against what the line   *)
(* says.  A character is "a" (any letter), " ", "|", ">" or "&"; the word  *)
(* "x" stands for "exit".  0 is a null pointer.                            *)
(***************************************************************************)
EXTENDS Integers, Sequences

CONSTANT MAXTOKENS

NUL == "0"

VARIABLE line   \* what has been typed at the prompt, without the newline

MinOf(S) == CHOOSE x \in S : \A y \in S : x <= y

(***************************************************************************)
(* strtok_custom(s, delim) on buffer b: the token and the buffer and the   *)
(* static pointer "last" that it leaves.  A null s continues from "last".  *)
(***************************************************************************)
Skip(b, s, delim) == MinOf({k \in s..Len(b) : b[k] # delim})
TokenAt(b, from, to) ==
  IF b[to] = NUL THEN [b |-> b, tok |-> from, last |-> 0]
  ELSE [b |-> [b EXCEPT ![to] = NUL], tok |-> from, last |-> to + 1]
TokenFrom(b, from, delim) ==
  IF b[from] = NUL THEN [b |-> b, tok |-> 0, last |-> 0]
  ELSE TokenAt(b, from, MinOf({k \in from..Len(b) : b[k] \in {delim, NUL}}))
Strtok(b, s, delim) ==
  IF s = 0 THEN [b |-> b, tok |-> 0, last |-> 0] ELSE TokenFrom(b, Skip(b, s, delim), delim)

Word(b, k) == SubSeq(b, k, MinOf({j \in k..Len(b) : b[j] = NUL}) - 1)

\* The tokens of a string one after the other, at most n; stop: the word after
\* which no more are taken.
RECURSIVE Tokens(_, _, _, _, _)
NoTokens(b, stopped) == [b |-> b, words |-> <<>>, stopped |-> stopped]
Before(word, rest) == [rest EXCEPT !.words = <<word>> \o @]
TokensAfter(t, delim, n, stop) ==
  IF t.tok = 0 \/ n = 0 THEN NoTokens(t.b, FALSE)
  ELSE IF Word(t.b, t.tok) = stop THEN NoTokens(t.b, TRUE)
  ELSE Before(Word(t.b, t.tok), Tokens(t.b, t.last, delim, n - 1, stop))
Tokens(b, s, delim, n, stop) == TokensAfter(Strtok(b, s, delim), delim, n, stop)

\* The null-terminated copy in the shell's buffer.
Buf == line \o <<NUL>>

\* The first token is never compared with "&".
RECURSIVE Trim(_)
Trim(w) == IF w # <<>> /\ Head(w) = " " THEN Trim(Tail(w)) ELSE w
SplitAfter(t) ==
  IF t.tok = 0 THEN NoTokens(t.b, FALSE)
  ELSE Before(Word(t.b, t.tok), Tokens(t.b, t.last, " ", Len(t.b), <<"&">>))
Split == SplitAfter(Strtok(Buf, 1, " "))

has(words, c) == \E k \in DOMAIN words : words[k] = <<c>>
First(words, c) == MinOf({k \in DOMAIN words : words[k] = <<c>>})

\* execute_piped_commands(): the arguments of each command.
Args(cmd) == Tokens(cmd \o <<NUL>>, 1, " ", MAXTOKENS - 1, <<>>).words

\* execute_redirection(): the arguments end at the first ">", word k.
\* A bug: the ">" stays among the arguments.
RedirectedAt_kept(words, k) ==
  [args |-> SubSeq(words, 1, k), out |-> IF k < Len(words) THEN words[k + 1] ELSE <<>>]
RedirectedAt(words, k) ==
  IF k > MAXTOKENS - 1 THEN [args |-> SubSeq(words, 1, MAXTOKENS - 1), out |-> <<>>]
  ELSE [args |-> SubSeq(words, 1, k - 1), out |-> IF k < Len(words) THEN words[k + 1] ELSE <<>>]
Redirected(words) == RedirectedAt(words, First(words, ">"))

\* The buffer that is split at "|" has been split at " " before.
Commands(t) == Tokens(t.b, 1, "|", MAXTOKENS, <<>>).words

\* process_one_cmd()
PlanOf(kind, cmds, out, bg) == [kind |-> kind, cmds |-> cmds, out |-> out, bg |-> bg]
Piped(cmds) == PlanOf("pipe", [k \in DOMAIN cmds |-> Args(Trim(cmds[k]))], <<>>, FALSE)
Redirection(r, bg) == PlanOf("redir", <<r.args>>, r.out, bg)
PlanFor(t) ==
  IF t.words # <<>> /\ t.words[1] = <<"x">> THEN PlanOf("exit", <<>>, <<>>, FALSE)
  ELSE IF has(t.words, "|") THEN Piped(Commands(t))
  ELSE IF has(t.words, ">") THEN Redirection(Redirected(t.words), t.stopped)
  ELSE PlanOf("normal", <<t.words>>, <<>>, t.stopped)
Plan == PlanFor(Split)

(***************************************************************************)
(* What the line says: its words are the runs of other characters between  *)
(* blanks.                                                                 *)
(***************************************************************************)
Starts == {k \in DOMAIN line : line[k] # " " /\ (k = 1 \/ line[k-1] = " ")}
WordFrom(k) == SubSeq(line, k, MinOf({j \in k..Len(line) : j = Len(line) \/ line[j+1] = " "}))
RECURSIVE WordsOf(_)
WordsOf(S) == IF S = {} THEN <<>> ELSE <<WordFrom(MinOf(S))>> \o WordsOf(S \ {MinOf(S)})
UpTo(ws, amp) == IF amp = {} THEN ws ELSE SubSeq(ws, 1, MinOf(amp) - 1)
UpToAmp(ws) == UpTo(ws, {k \in DOMAIN ws : k > 1 /\ ws[k] = <<"&">>})
Said == UpToAmp(WordsOf(Starts))
HasAmp(ws) == \E k \in DOMAIN ws : k > 1 /\ ws[k] = <<"&">>
Background == HasAmp(WordsOf(Starts))

\* The words of a part of the line, between two "|" words.
RECURSIVE SplitAt(_)
SplitAt(ws) ==
  IF ~has(ws, "|") THEN <<ws>>
  ELSE <<SubSeq(ws, 1, First(ws, "|") - 1)>> \o SplitAt(SubSeq(ws, First(ws, "|") + 1, Len(ws)))

RunsAs(plan, said) ==
  ~has(said, "|") /\ plan.kind # "exit" =>
     /\ plan.bg = Background
     /\ ~has(said, ">") => plan.kind = "normal" /\ plan.cmds = <<said>>
     /\ has(said, ">") /\ First(said, ">") < MAXTOKENS =>
          /\ plan.kind = "redir" /\ plan.cmds = <<SubSeq(said, 1, First(said, ">") - 1)>>
          /\ plan.out = IF First(said, ">") = Len(said) THEN <<>> ELSE said[First(said, ">") + 1]

\* A line without "|" is run as it reads: the command is its words up to ">"
\* or "&", however many, and the word after ">" is the output if ">" is among
\* the first MAXTOKENS - 1 words, all that execute_redirection() looks at.
RunsAsTyped == RunsAs(Plan, Said)

CutAs(plan, said, parts) ==
  has(said, "|") /\ plan.kind = "pipe" /\ (\A k \in DOMAIN parts : parts[k] # <<>>) => Len(plan.cmds) = Len(parts)

\* "Split the command by '|'": the commands of a pipeline are the parts of the
\* line between the "|" words.
PipelineAsTyped == CutAs(Plan, Said, SplitAt(Said))
=============================================================================
