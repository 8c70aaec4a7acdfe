-------------------------------- MODULE Xvsh --------------------------------
(***************************************************************************)
(* The shell xvsh.c: a line is typed, taken apart by XvshLine, and run:    *)
(* fork(), the descriptors each child gives itself before exec(), and      *)
(* which child each wait() collects.                                       *)
(***************************************************************************)
EXTENDS XvshLine, FiniteSets

CONSTANTS
  Kids,       \* process slots 1..n for children: fork() fails when all are taken
  NOFILE,
  Chars,
  MaxLine, MaxTyped   \* bounds: the length of a line, characters typed in all

ASSUME XvshAssumption == Kids \subseteq Nat \ {0} /\ NOFILE > 3

VARIABLES
  pc,      \* where the shell is: "prompt", "pipe", "fork", "wait", "drain",
           \* "gone" after "exit", "eof" after the end of the input
  job,     \* the line being run, [kind, n, out, bg]: n commands, out: a file is
           \* named after ">", bg: ended in "&"
  i,       \* commands started, then children waited for
  fds,     \* the shell's descriptors
  in, fd,  \* variables of execute_piped_commands() and execute_redirection()
  kid,     \* children: st "none", "forked", "run" or "zombie", their descriptors
           \* and their copies of the shell's variables
  typed, lines, bgs,  \* characters and lines read; background children started
  failed   \* a pipe() or fork() has failed

input == <<line, typed, lines>>
shell == <<pc, job, i, fds, in, fd>>
vars == <<input, shell, kid, bgs, failed>>

None == <<"none", 0>>
Cons == <<"cons", 0>>
Out == <<"out", 0>>
R(k) == <<"r", k>>
W(k) == <<"w", k>>
NoJob == [kind |-> "normal", n |-> 1, out |-> FALSE, bg |-> FALSE]
NoKid == [st |-> "none", fds |-> <<>>, job |-> NoJob, i |-> 0, in |-> 0, fd |-> <<0, 0>>, pipe |-> 0]

FreeFd(t) == {f \in 0..NOFILE-1 : t[f] = None}
Low(t) == CHOOSE f \in FreeFd(t) : \A g \in FreeFd(t) : f <= g

\* dup() and close() of the system.
Dup(t, f) == IF FreeFd(t) = {} THEN t ELSE [t EXCEPT ![Low(t)] = t[f]]
Close(t, f) == [t EXCEPT ![f] = None]

Init ==
  /\ pc = "prompt" /\ job = NoJob /\ i = 0
  /\ fds = [f \in 0..NOFILE-1 |-> IF f <= 2 THEN Cons ELSE None]
  /\ in = 0 /\ fd = <<0, 0>>
  /\ kid = [k \in Kids |-> NoKid]
  /\ line = <<>> /\ typed = 0 /\ lines = 0 /\ bgs = 0 /\ failed = FALSE

(***************************************************************************)
(* The shell                                                               *)
(***************************************************************************)
type(c) ==
  /\ pc = "prompt" /\ Len(line) < MaxLine /\ typed < MaxTyped
  /\ line' = Append(line, c) /\ typed' = typed + 1
  /\ UNCHANGED <<lines, shell, kid, bgs, failed>>

JobOf(plan) == [kind |-> plan.kind, n |-> Len(plan.cmds), out |-> plan.out # <<>>, bg |-> plan.bg]

\* main() gets the line, an empty one only prompts again; process_one_cmd()
\* takes it apart; execute_redirection() opens the output.  A pipeline of no
\* command at all ("|") starts and waits for nothing.
read_line ==
  /\ pc = "prompt" /\ line # <<>>
  /\ line' = <<>> /\ lines' = lines + 1 /\ i' = 0 /\ in' = 0
  /\ job' = JobOf(Plan)
  /\ LET opens == job'.kind = "redir" /\ job'.out IN
       /\ pc' = (CASE job'.kind = "exit" -> "drain"
                   [] opens /\ FreeFd(fds) = {} -> "prompt"
                   [] job'.kind = "pipe" -> IF job'.n = 0 THEN "prompt" ELSE "pipe"
                   [] OTHER -> "fork")
       /\ fds' = IF opens /\ FreeFd(fds) # {} THEN [fds EXCEPT ![Low(fds)] = Out] ELSE fds
       /\ fd' = IF opens /\ FreeFd(fds) # {} THEN <<Low(fds), 0>> ELSE fd
       /\ failed' = (failed \/ (opens /\ FreeFd(fds) = {}))
  /\ UNCHANGED <<typed, kid, bgs>>

\* read() returns 0: exit() without a wait().
read_eof ==
  /\ pc = "prompt" /\ line = <<>> /\ pc' = "eof"
  /\ UNCHANGED <<input, job, i, fds, in, fd, kid, bgs, failed>>

\* A name for the pipe of command i of this line.
Pipe == lines * 10 + i

\* pipe(fd), or "Pipe failed".
call_pipe ==
  /\ pc = "pipe"
  /\ IF Cardinality(FreeFd(fds)) < 2
     THEN pc' = "prompt" /\ failed' = TRUE /\ UNCHANGED <<fds, fd>>
     ELSE LET r == Low(fds)
              t == [fds EXCEPT ![r] = R(Pipe)]
          IN  /\ fds' = [t EXCEPT ![Low(t)] = W(Pipe)]
              /\ fd' = <<r, Low(t)>>
              /\ pc' = "fork" /\ UNCHANGED failed
  /\ UNCHANGED <<job, i, in, kid, input, bgs>>

\* What the parent does with its descriptors after the fork(); the read end of
\* the last pipe of a line is never closed.
ParentFds(t) ==
  CASE job.kind = "pipe" -> Close(IF in # 0 THEN Close(t, in) ELSE t, fd[2])
    [] job.kind = "redir" /\ job.out -> Close(t, fd[1])
    [] OTHER -> t

\* The child starts with the descriptors and the variables of the shell, in the
\* first free slot.
fork(k) ==
  /\ pc = "fork" /\ kid[k].st = "none" /\ \A l \in Kids : kid[l].st = "none" => k <= l
  /\ kid' = [kid EXCEPT ![k] = [st |-> "forked", fds |-> fds, job |-> job, i |-> i, in |-> in, fd |-> fd, pipe |-> Pipe]]
  /\ fds' = ParentFds(fds)
  /\ in' = (IF job.kind = "pipe" THEN fd[1] ELSE in)
  /\ IF i + 1 < job.n THEN i' = i + 1 /\ pc' = "pipe" ELSE i' = 0 /\ pc' = IF job.bg THEN "prompt" ELSE "wait"
  /\ bgs' = IF job.bg THEN bgs + 1 ELSE bgs
  /\ UNCHANGED <<job, fd, input, failed>>

\* "Fork failed": back to the prompt as things are.
fork_fails ==
  /\ pc = "fork" /\ \A k \in Kids : kid[k].st # "none"
  /\ pc' = "prompt" /\ failed' = TRUE
  /\ UNCHANGED <<job, i, fds, in, fd, kid, input, bgs>>

Collected(k) == kid' = [kid EXCEPT ![k] = NoKid]
NoKids == \A k \in Kids : kid[k].st = "none"

Waited == i + 1 = job.n

\* wait() collects some child that has ended, or returns -1 when there is none.
wait ==
  /\ pc = "wait"
  /\ (\E k \in Kids : kid[k].st = "zombie" /\ Collected(k)) \/ (NoKids /\ UNCHANGED kid)
  /\ IF Waited THEN pc' = "prompt" /\ i' = 0 ELSE i' = i + 1 /\ pc' = pc
  /\ UNCHANGED <<job, fds, in, fd, input, bgs, failed>>

\* Two bugs: the loop runs once; it waits for a pid of 0, not -1.
Drained_once == TRUE
Drained_zero == FALSE
Drained == NoKids

\* wait_for_background_processes(), then exit().
wait_for_background_processes ==
  /\ pc = "drain"
  /\ \/ \E k \in Kids : kid[k].st = "zombie" /\ Collected(k) /\ UNCHANGED pc
     \/ Drained /\ pc' = "gone" /\ UNCHANGED kid
  /\ UNCHANGED <<job, i, fds, in, fd, input, bgs, failed>>

(***************************************************************************)
(* The children.  What a child does before exec() depends on its place.    *)
(***************************************************************************)
ChildFds(c) ==
  LET t1 == IF c.in # 0 THEN Close(Dup(c.fds, c.in), c.in) ELSE c.fds
  IN  CASE c.job.kind = "pipe" /\ c.i < c.job.n - 1 -> Close(Close(Dup(t1, c.fd[2]), c.fd[1]), c.fd[2])
        [] c.job.kind = "redir" /\ c.job.out -> Close(Dup(t1, c.fd[1]), c.fd[1])
        [] OTHER -> t1

child(k) ==
  /\ kid[k].st = "forked"
  /\ kid' = [kid EXCEPT ![k].st = "run", ![k].fds = ChildFds(kid[k])]
  /\ UNCHANGED <<shell, input, bgs, failed>>

\* The program ends, or exec() failed and the child exits.
finish(k) ==
  /\ kid[k].st = "run"
  /\ kid' = [kid EXCEPT ![k].st = "zombie", ![k].fds = <<>>]
  /\ UNCHANGED <<shell, input, bgs, failed>>

Shell ==
  \/ call_pipe \/ fork_fails \/ wait \/ wait_for_background_processes
  \/ \E k \in Kids : fork(k)

Next ==
  \/ \E c \in Chars : type(c)
  \/ read_line \/ read_eof \/ Shell
  \/ \E k \in Kids : child(k) \/ finish(k)

Spec == Init /\ [][Next]_vars

\* The scheduler runs the shell and the children, and the programs end.
LiveSpec == Spec /\ WF_vars(Shell) /\ \A k \in Kids : WF_vars(child(k)) /\ WF_vars(finish(k))

(***************************************************************************)
(* Properties                                                              *)
(***************************************************************************)
\* The types; the shell keeps the console on its descriptors 0, 1 and 2.
TypeOK ==
  /\ pc \in {"prompt", "pipe", "fork", "wait", "drain", "gone", "eof"}
  /\ \A f \in 0..2 : fds[f] = Cons
  /\ \A k \in Kids : kid[k].st \in {"none", "forked", "run", "zombie"}
  /\ i \in 0..2

Children == Cardinality({k \in Kids : kid[k].st # "none"})

\* Children are neither lost nor collected twice: as long as no pipe() or fork()
\* failed, there are at the prompt as many, running or zombies, as were started
\* in the background, although a wait() for the foreground may have taken one of
\* those in exchange; and the shell that was told to exit leaves none behind
\* ("Wait for all background processes to finish").
ChildrenAccounted ==
  /\ pc = "prompt" /\ ~failed => Children = bgs
  /\ pc = "gone" => Children = 0

\* A line that was read is followed by another prompt, or by the exit.
PromptReturns == pc \notin {"prompt", "gone", "eof"} ~> pc \in {"prompt", "gone"}

\* "Foreground process": the shell waits for the children of the line it runs
\* before it prompts again.
ForegroundWaited ==
  pc = "prompt" => \A k \in Kids : kid[k].st \in {"forked", "run"} => kid[k].job.bg

\* "Parent process" of a pipeline: it is done with the pipes when it prompts.
NoEndLeft == pc = "prompt" => \A f \in 3..NOFILE-1 : fds[f] = None

\* "Execute piped commands": the output of a command goes to its pipe.
PipeWired ==
  \A k \in Kids : LET c == kid[k] IN
    c.st = "run" /\ c.job.kind = "pipe" /\ c.i < c.job.n - 1 => c.fds[1] = W(c.pipe)

\* "Execute commands with redirection": the output goes to the file.
OutputRedirected ==
  \A k \in Kids : kid[k].st = "run" /\ kid[k].job.out => kid[k].fds[1] = Out
=============================================================================
