------------------------------ MODULE Console -------------------------------
(***************************************************************************)
(* The console (console.c): the ring buffer that the keyboard interrupt    *)
(* fills and edits, consoleread() of several processes, and where the      *)
(* characters that are echoed or written go on the screen.                 *)
(***************************************************************************)
EXTENDS Integers, Sequences, FiniteSets

CONSTANTS
  Procs, Killable,
  Letters,             \* ordinary characters
  INPUT_BUF, UINT,     \* UINT: the indices wrap around here
  COLS, ROWS,          \* 80 and 24
  Sizes                \* the n of consoleread()

NL == "nl"
EOF == "^D"
BACKSPACE == "bs"
Chars == Letters \cup {NL, EOF}

ASSUME RingAssumption ==
  /\ INPUT_BUF \in Nat \ {0} /\ UINT \in Nat /\ UINT % INPUT_BUF = 0 /\ UINT > INPUT_BUF
  /\ COLS \in Nat \ {0} /\ ROWS \in Nat \ {0}
  /\ Letters \cap {NL, EOF, BACKSPACE} = {} /\ Sizes \subseteq Nat

VARIABLES
  buf, r, w, e,   \* input
  rd,             \* of each process: pc "user", "enter", "loop", "presleep" or
                  \* "asleep", n: characters it still wants, got: those it has
  killed,
  ret,            \* what consoleread() returned, <<"-1">> for -1
  pos             \* the cursor

vars == <<buf, r, w, e, rd, killed, ret, pos>>

Idle == [pc |-> "user", n |-> 0, got |-> <<>>]

Init ==
  /\ buf = [k \in 0..INPUT_BUF-1 |-> NL] /\ r = 0 /\ w = 0 /\ e = 0
  /\ rd = [p \in Procs |-> Idle] /\ killed = [p \in Procs |-> FALSE]
  /\ ret = [p \in Procs |-> <<>>] /\ pos = 0

\* cons.lock is held by a reader until it sleeps or returns.
Locked == \E p \in Procs : rd[p].pc \in {"loop", "presleep"}

Add(a, n) == (a + n) % UINT
Count(a, b) == (b - a) % UINT   \* b - a in uint
Ring(b, a, n) == [k \in 1..n |-> b[Add(a, k - 1) % INPUT_BUF]]   \* n characters of b from a

\* cgaputc().  A bug: the screen scrolls one row too late.
Scrolled_late(q) == IF q \div COLS >= ROWS + 1 THEN q - COLS ELSE q
Scrolled(q) == IF q \div COLS >= ROWS THEN q - COLS ELSE q
cgaputc(q, c) ==
  Scrolled(CASE c = NL -> q + COLS - (q % COLS)
             [] c = BACKSPACE -> IF q > 0 THEN q - 1 ELSE q
             [] OTHER -> q + 1)

\* wakeup(&input.r).  A bug: it is left out.
Woken_not == rd
Woken == [p \in Procs |-> IF rd[p].pc = "asleep" THEN [rd[p] EXCEPT !.pc = "enter"] ELSE rd[p]]

(***************************************************************************)
(* consoleintr(), one character                                            *)
(***************************************************************************)
\* A bug: the limit counts from the line being edited.
Fits_line == Count(w, e) < INPUT_BUF
Fits == Count(r, e) < INPUT_BUF

key(c) ==
  /\ ~Locked /\ Fits
  /\ buf' = [buf EXCEPT ![e % INPUT_BUF] = c]
  /\ e' = Add(e, 1) /\ pos' = cgaputc(pos, c)
  /\ IF c \in {NL, EOF} \/ e' = Add(r, INPUT_BUF)
     THEN w' = e' /\ rd' = Woken
     ELSE UNCHANGED <<w, rd>>
  /\ UNCHANGED <<r, killed, ret>>

key_backspace ==
  /\ ~Locked /\ e # w
  /\ e' = Add(e, -1) /\ pos' = cgaputc(pos, BACKSPACE)
  /\ UNCHANGED <<buf, r, w, rd, killed, ret>>

\* C('U') erases to the start of the line.
Erased(d) == IF d > pos THEN 0 ELSE pos - d
key_kill ==
  /\ ~Locked /\ e # w
  /\ LET stops == {k \in 1..Count(w, e) : buf[Add(e, -k) % INPUT_BUF] = NL}
         d == IF stops = {} THEN Count(w, e) ELSE (CHOOSE k \in stops : \A j \in stops : k <= j) - 1
     IN  e' = Add(e, -d) /\ pos' = Erased(d)
  /\ UNCHANGED <<buf, r, w, rd, killed, ret>>

(***************************************************************************)
(* consoleread() and consolewrite()                                        *)
(***************************************************************************)
consoleread(p, n) ==
  /\ rd[p].pc = "user" /\ ~killed[p]
  /\ rd' = [rd EXCEPT ![p] = [pc |-> "enter", n |-> n, got |-> <<>>]]
  /\ ret' = [ret EXCEPT ![p] = <<>>]
  /\ UNCHANGED <<buf, r, w, e, killed, pos>>

\* acquire(&cons.lock), here and in sleep() on the way back.
lock(p) ==
  /\ rd[p].pc = "enter" /\ ~Locked
  /\ rd' = [rd EXCEPT ![p].pc = "loop"]
  /\ UNCHANGED <<buf, r, w, e, killed, ret, pos>>

Return(p, v) == rd' = [rd EXCEPT ![p] = Idle] /\ ret' = [ret EXCEPT ![p] = v]

Saves(got) == got # <<>>

Done(c, n) == c = NL \/ n = 1

\* One turn of the loop, with the lock held and something to read.
read_char(p) ==
  /\ rd[p].pc = "loop" /\ r # w
  /\ LET c == buf[r % INPUT_BUF]
         got == Append(rd[p].got, c)
     IN  \/ /\ c = EOF
            /\ r' = IF Saves(rd[p].got) THEN r ELSE Add(r, 1)
            /\ Return(p, rd[p].got)
         \/ /\ c # EOF /\ r' = Add(r, 1)
            /\ IF Done(c, rd[p].n) THEN Return(p, got)
               ELSE rd' = [rd EXCEPT ![p].n = @ - 1, ![p].got = got] /\ UNCHANGED ret
  /\ UNCHANGED <<buf, w, e, killed, pos>>

\* Nothing to read: give up if killed, else go to sleep.
read_empty(p) ==
  /\ rd[p].pc = "loop" /\ r = w
  /\ IF killed[p] THEN Return(p, <<"-1">>) ELSE rd' = [rd EXCEPT ![p].pc = "presleep"] /\ UNCHANGED ret
  /\ UNCHANGED <<buf, r, w, e, killed, pos>>

sleep(p) ==
  /\ rd[p].pc = "presleep"
  /\ rd' = [rd EXCEPT ![p].pc = "asleep"]
  /\ UNCHANGED <<buf, r, w, e, killed, ret, pos>>

consolewrite(c) ==
  /\ ~Locked /\ pos' = cgaputc(pos, c)
  /\ UNCHANGED <<buf, r, w, e, rd, killed, ret>>

\* kill() takes no console lock; it wakes a sleeper.
kill(p) ==
  /\ p \in Killable /\ ~killed[p]
  /\ killed' = [killed EXCEPT ![p] = TRUE]
  /\ rd' = [rd EXCEPT ![p].pc = IF @ = "asleep" THEN "enter" ELSE @]
  /\ UNCHANGED <<buf, r, w, e, ret, pos>>

Read(p) == lock(p) \/ read_char(p) \/ read_empty(p) \/ sleep(p)

Next ==
  \/ \E c \in Chars : key(c)
  \/ key_backspace \/ key_kill
  \/ \E c \in {"a", NL} : consolewrite(c)
  \/ \E p \in Procs : Read(p) \/ kill(p) \/ \E n \in Sizes : consoleread(p, n)

Spec == Init /\ [][Next]_vars

(***************************************************************************)
(* Properties                                                              *)
(***************************************************************************)
Reader == [pc : {"user", "enter", "loop", "presleep", "asleep"}, n : Int, got : Seq(Letters)]

\* The types; the indices of the ring stay within a uint, and what a reader has
\* while it goes on is neither a newline nor ^D.
TypeOK ==
  /\ buf \in [0..INPUT_BUF-1 -> Chars]
  /\ r \in 0..UINT-1 /\ w \in 0..UINT-1 /\ e \in 0..UINT-1
  /\ rd \in [Procs -> Reader] /\ killed \in [Procs -> BOOLEAN] /\ pos \in Nat
  /\ ret \in [Procs -> Seq(Chars \cup {"-1"})]

\* Through wrapping indices, editing and a full buffer, the ring is a queue of
\* complete lines and a line being edited, and readers take exactly what was
\* typed, in order (LineInput).
L ==
  INSTANCE LineInput WITH
    queue <- Ring(buf, r, Count(r, w)), editing <- Ring(buf, w, Count(w, e)),
    Chars <- Chars, Commits <- {NL, EOF}, Size <- INPUT_BUF
\* consoleintr() and consoleread() implement LineInput.
IsLineInput == L!Spec

\* A read() returns at most one line: a newline only at its end, and never ^D.
ReadsALine ==
  \A p \in Procs : \A k \in DOMAIN ret[p] : ret[p][k] # EOF /\ (ret[p][k] = NL => k = Len(ret[p]))

\* "to make sure caller gets a 0-byte result": a ^D leaves the buffer only with
\* a read() that returns 0 bytes, also when characters came before it.
EofReturnsZero ==
  [][r' # r /\ buf[r % INPUT_BUF] = EOF =>
       \E p \in Procs : rd[p].pc = "loop" /\ rd'[p].pc = "user" /\ ret'[p] = <<>>]_vars

\* A reader sleeps only while there is nothing to read: no wakeup() is lost
\* between the test and the sleep(), whoever else reads.
ReaderNotForgotten ==
  \A p \in Procs : rd[p].pc = "asleep" => r = w

\* The cursor stays where crt[pos] is on the screen and the scrolled part has a
\* size of at least 0, so panic("pos under/overflow") is not reached.
CursorOnScreen == pos < COLS * ROWS
=============================================================================
