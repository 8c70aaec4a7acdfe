--------------------------------- MODULE Sh ---------------------------------
(***************************************************************************)
(* sh.c running command lines: main() and the processes of runcmd(), with  *)
(* their descriptors, so that it matters who holds which end of a pipe     *)
(* when.  A program reads its standard input to the end before it ends.    *)
(***************************************************************************)
EXTENDS ShGrammar

LOCAL S == INSTANCE SequencesExt

CONSTANTS
  Slots,     \* process slots 1..n; fork() fails when all are taken
  NFD,
  Tokens,
  MaxTokens, \* bound: the first line may be any of this length ...
  Lines,     \* ... and these lines, as tokens, may be entered and run,
  MaxLines   \* at most so many

Shell == 0
Procs == {Shell} \cup Slots
Initproc == -1    \* the parent of orphans

VARIABLES
  proc,    \* of each slot: st, cmd, fds, parent, p: its pipe, left: children it
           \* will still wait for, bg: started by a BACK command
  lines,   \* lines read
  failed   \* a fork1() or pipe() has failed

vars == <<line, proc, lines, failed>>

None == <<"none", 0>>
Cons == <<"cons", 0>>
R(k) == <<"r", k>>
W(k) == <<"w", k>>
NoCmd == Cmd("EXEC", <<>>, 0)
Free == [st |-> "free", cmd |-> NoCmd, fds |-> [f \in 0..NFD-1 |-> None], parent |-> Shell, p |-> <<0, 0>>,
         left |-> 0, bg |-> FALSE]
ConsFds == [f \in 0..NFD-1 |-> IF f <= 2 THEN Cons ELSE None]

FreeFd(t) == {f \in 0..NFD-1 : t[f] = None}
Low(t) == CHOOSE f \in FreeFd(t) : \A g \in FreeFd(t) : f <= g
Dup(t, f) == [t EXCEPT ![Low(t)] = t[f]]
Close(t, f) == [t EXCEPT ![f] = None]

Init ==
  /\ proc = [q \in Procs |-> IF q = Shell THEN [Free EXCEPT !.st = "prompt", !.fds = ConsFds] ELSE Free]
  /\ line = <<>> /\ lines = 0 /\ failed = FALSE

FreeSlots == {q \in Slots : proc[q].st = "free"}
Slot == CHOOSE q \in FreeSlots : \A r \in FreeSlots : q <= r

\* exit(): open files are closed and children go to init.
Exited(pr, q) ==
  [r \in Procs |-> IF r = q THEN [pr[q] EXCEPT !.st = "zombie", !.fds = Free.fds]
                   ELSE IF pr[r].parent = q /\ pr[r].st # "free" THEN [pr[r] EXCEPT !.parent = Initproc]
                   ELSE pr[r]]

\* fork1(): the child runs cmd with descriptors t; q goes on as me.  It panics
\* when fork() fails.
fork1(q, cmd, t, bg, me) ==
  IF FreeSlots = {}
  THEN proc' = Exited(proc, q) /\ failed' = TRUE
  ELSE /\ proc' = [proc EXCEPT ![q] = me, ![Slot] = [Free EXCEPT !.st = "run", !.cmd = cmd, !.fds = t, !.parent = q,
                                                                 !.bg = proc[q].bg \/ bg]]
       /\ UNCHANGED failed

\* wait(): some child that has ended.
wait(q, me) ==
  \E r \in Slots : /\ proc[r].st = "zombie" /\ proc[r].parent = q
                   /\ proc' = [proc EXCEPT ![q] = me, ![r] = Free]

(***************************************************************************)
(* main()                                                                  *)
(***************************************************************************)
type(c) ==
  /\ proc[Shell].st = "prompt" /\ lines < MaxLines
  /\ \/ lines = 0 /\ Len(line) < MaxTokens
     \/ \E l \in Lines : S!IsPrefix(Append(line, c), l)
  /\ line' = Append(line, c)
  /\ UNCHANGED <<proc, lines, failed>>

\* getcmd() and fork1(); a line that does not parse ends the child.
main_fork ==
  /\ proc[Shell].st = "prompt" /\ lines < MaxLines /\ line \in Lines
  /\ lines' = lines + 1 /\ line' = <<>>
  /\ fork1(Shell, parsecmd(line).cmd, proc[Shell].fds, FALSE, [proc[Shell] EXCEPT !.st = "wait"])

\* "cd": the shell changes its own directory, or says that it cannot, and
\* prompts again; no process is started.
main_cd ==
  /\ proc[Shell].st = "prompt" /\ lines < MaxLines /\ line = <<>>
  /\ lines' = lines + 1
  /\ UNCHANGED <<line, proc, failed>>

\* getcmd() finds the end of the input.
main_exit ==
  /\ proc[Shell].st = "prompt" /\ line = <<>>
  /\ proc' = Exited(proc, Shell)
  /\ UNCHANGED <<line, lines, failed>>

main_wait ==
  /\ proc[Shell].st = "wait"
  /\ wait(Shell, [proc[Shell] EXCEPT !.st = "prompt"])
  /\ UNCHANGED <<line, lines, failed>>

\* init collects what it was given.
init_wait ==
  /\ \E r \in Slots : /\ proc[r].st = "zombie" /\ proc[r].parent = Initproc
                      /\ proc' = [proc EXCEPT ![r] = Free]
  /\ UNCHANGED <<line, lines, failed>>

(***************************************************************************)
(* runcmd(), case by case                                                  *)
(***************************************************************************)
Running(q, t) == proc[q].st = "run" /\ proc[q].cmd.t = t
me(q) == proc[q]

\* A program of the user; without a name, or if exec() fails, the process exits.
exec(q) ==
  /\ Running(q, "EXEC")
  /\ \/ proc[q].cmd.n > 0 /\ proc' = [proc EXCEPT ![q].st = "program"]
     \/ proc' = Exited(proc, q)
  /\ UNCHANGED <<line, lines, failed>>

\* A bug: the descriptor is not closed first, so the file opens elsewhere.
Redirect_open(t, fd) == [t EXCEPT ![Low(t)] = <<"file", fd>>]
Redirect(t, fd) == LET u == Close(t, fd) IN [u EXCEPT ![Low(u)] = <<"file", fd>>]

redir(q) ==
  /\ Running(q, "REDIR")
  /\ \/ proc' = [proc EXCEPT ![q].fds = Redirect(@, proc[q].cmd.n), ![q].cmd = @.kids[1]]
     \/ proc' = Exited(proc, q)   \* the file cannot be opened
  /\ UNCHANGED <<line, lines, failed>>

list(q) ==
  /\ Running(q, "LIST")
  /\ fork1(q, proc[q].cmd.kids[1], proc[q].fds, FALSE, [me(q) EXCEPT !.st = "listwait"])
  /\ UNCHANGED <<line, lines>>
list_wait(q) ==
  /\ proc[q].st = "listwait"
  /\ wait(q, [me(q) EXCEPT !.st = "run", !.cmd = @.kids[2]])
  /\ UNCHANGED <<line, lines, failed>>

\* pipe(p); a pipe is named after its process and line.
pipe(q) ==
  /\ Running(q, "PIPE")
  /\ LET k == lines * 10 + q
         t == [me(q).fds EXCEPT ![Low(me(q).fds)] = R(k)]
     IN  \/ proc' = Exited(proc, q) /\ failed' = TRUE   \* panic("pipe")
         \/ /\ proc' = [proc EXCEPT ![q].fds = [t EXCEPT ![Low(t)] = W(k)],
                                      ![q].p = <<Low(me(q).fds), Low(t)>>, ![q].st = "left"]
            /\ UNCHANGED failed
  /\ UNCHANGED <<line, lines>>

CloseBoth(t, p) == Close(Close(t, p[1]), p[2])

pipe_left(q) ==
  /\ proc[q].st = "left"
  /\ LET p == me(q).p IN
       fork1(q, me(q).cmd.kids[1], CloseBoth(Dup(Close(me(q).fds, 1), p[2]), p), FALSE, [me(q) EXCEPT !.st = "right"])
  /\ UNCHANGED <<line, lines>>

RightFds(t, p) == CloseBoth(Dup(Close(t, 0), p[1]), p)

pipe_right(q) ==
  /\ proc[q].st = "right"
  /\ LET p == me(q).p IN
       fork1(q, me(q).cmd.kids[2], RightFds(me(q).fds, p), FALSE, [me(q) EXCEPT !.st = "close", !.left = 2])
  /\ UNCHANGED <<line, lines>>

\* Two bugs: the parent keeps both ends; it waits for one child.
ParentFds_open(t, p) == t
ParentFds(t, p) == CloseBoth(t, p)
Waits_one(n) == n <= 2
Waits(n) == n = 1

pipe_close(q) ==
  /\ proc[q].st = "close"
  /\ proc' = [proc EXCEPT ![q].fds = ParentFds(@, proc[q].p), ![q].st = "pipewait"]
  /\ UNCHANGED <<line, lines, failed>>
pipe_wait(q) ==
  /\ proc[q].st = "pipewait"
  /\ wait(q, IF Waits(me(q).left) THEN [me(q) EXCEPT !.left = 0, !.st = "exit"] ELSE [me(q) EXCEPT !.left = @ - 1])
  /\ UNCHANGED <<line, lines, failed>>

back(q) ==
  /\ Running(q, "BACK")
  /\ fork1(q, me(q).cmd.kids[1], me(q).fds, TRUE, [me(q) EXCEPT !.st = "exit"])
  /\ UNCHANGED <<line, lines>>

exit(q) == proc[q].st = "exit" /\ proc' = Exited(proc, q) /\ UNCHANGED <<line, lines, failed>>

\* The program of q reads to the end of its input, which for a pipe comes when
\* no process holds the write end any more, and ends.
Writers(k) == {r \in Procs : \E f \in 0..NFD-1 : proc[r].fds[f] = W(k)}
finish(q) ==
  /\ proc[q].st = "program"
  /\ proc[q].fds[0][1] = "r" => Writers(proc[q].fds[0][2]) = {}
  /\ proc' = Exited(proc, q)
  /\ UNCHANGED <<line, lines, failed>>

Step(q) ==
  \/ exec(q) \/ redir(q) \/ list(q) \/ list_wait(q) \/ pipe(q) \/ pipe_left(q) \/ pipe_right(q)
  \/ pipe_close(q) \/ pipe_wait(q) \/ back(q) \/ exit(q) \/ finish(q)

Next ==
  \/ \E c \in Tokens : type(c)
  \/ main_fork \/ main_cd \/ main_exit \/ main_wait \/ init_wait
  \/ \E q \in Slots : Step(q)

Spec == Init /\ [][Next]_vars

\* The scheduler runs every process that can go on.
LiveSpec == Spec /\ WF_vars(main_wait) /\ WF_vars(init_wait) /\ \A q \in Slots : WF_vars(Step(q))

(***************************************************************************)
(* Properties                                                              *)
(***************************************************************************)
\* A program runs with standard descriptors open and none of the shell's pipe
\* ends beside them: whatever was nested and redirected, dup() and open() gave
\* the lowest free number, which is the one just closed.
StandardDescriptors ==
  \A q \in Slots : proc[q].st = "program" =>
    /\ \A f \in 0..2 : proc[q].fds[f] # None
    /\ \A f \in 3..NFD-1 : proc[q].fds[f] = None
    /\ proc[q].fds[0][1] # "w" /\ proc[q].fds[1][1] # "r"
    /\ proc[q].fds[0] # <<"file", 1>> /\ proc[q].fds[1] # <<"file", 0>>

\* When the shell prompts again, nothing of the lines before is left but what
\* was put in the background, unless a fork1() or pipe() failed.
PromptAfterForeground ==
  proc[Shell].st = "prompt" /\ ~failed =>
    \A q \in Slots : proc[q].st \in {"free", "zombie"} \/ proc[q].bg

\* Every line is run to its end: no reader of a pipe waits for ever for an end
\* that some process forgot to close, and no wait() for a child that is not
\* there.
PromptReturns == proc[Shell].st = "wait" ~> proc[Shell].st = "prompt"
=============================================================================
