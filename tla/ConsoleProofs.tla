--------------------------- MODULE ConsoleProofs ----------------------------
(***************************************************************************)
(* Theorems about Console, for any size of the ring, of the screen and of  *)
(* a uint, and any number of readers.                                      *)
(***************************************************************************)
EXTENDS Console, SequenceTheorems, TLAPS

\* Leaves that name no prover are Zenon's.
USE Zenon

Holding(p) == rd[p].pc \in {"loop", "presleep"}

\* The ring: complete lines from r to w, the line being edited from w to e, and
\* no more than INPUT_BUF characters in both.
RingInv ==
  /\ Count(r, w) + Count(w, e) <= INPUT_BUF
  /\ \A k \in 0..Count(w, e)-1 : buf[Add(w, k) % INPUT_BUF] \in Letters

\* cons.lock, and who may sleep: the lock is not given up between the test
\* r = w and the sleep().
LockInv ==
  /\ \A p, q \in Procs : Holding(p) /\ Holding(q) => p = q
  /\ \A p \in Procs : rd[p].pc \in {"presleep", "asleep"} => r = w

Inv == TypeOK /\ RingInv /\ LockInv /\ CursorOnScreen /\ ReadsALine
(***************************************************************************)
(* Arithmetic of the ring                                                  *)
(***************************************************************************)
LEMMA ModRange ==
  ASSUME NEW m \in Nat, m > 0, NEW x \in Int
  PROVE  x % m \in 0..m-1 /\ x = m * (x \div m) + (x % m) /\ x \div m \in Int
BY SMT

LEMMA ModIs ==
  ASSUME NEW m \in Nat, m > 0, NEW q \in Int, NEW x \in 0..m-1
  PROVE  (q * m + x) % m = x
BY SMT

LEMMA ModShift ==
  ASSUME NEW m \in Nat, m > 0, NEW x \in Int, NEW q \in Int
  PROVE  (x + q * m) % m = x % m
<1> DEFINE d == x \div m
           y == x % m
<1>1. d \in Int /\ y \in 0..m-1 /\ x = m * d + y
  BY ModRange
<1> HIDE DEF d, y
<1>2. x + q * m = (d + q) * m + y /\ d + q \in Int
  BY SMT, <1>1
<1>3. ((d + q) * m + y) % m = y
  BY <1>1, <1>2, ModIs
<1>4. QED
  BY <1>2, <1>3 DEF y

LEMMA Uint == UINT \in Nat /\ UINT > 0 /\ INPUT_BUF \in Nat /\ INPUT_BUF > 0 /\ INPUT_BUF < UINT
BY SMT, RingAssumption

\* Adding twice; the index in the ring.
LEMMA AddAdd ==
  ASSUME NEW a \in Int, NEW i \in Int, NEW j \in Int
  PROVE  Add(Add(a, i), j) = Add(a, i + j) /\ Add(a, i) \in 0..UINT-1
<1> DEFINE d == (a + i) \div UINT
           y == (a + i) % UINT
<1>1. d \in Int /\ y \in 0..UINT-1 /\ a + i = UINT * d + y
  BY SMT, ModRange, Uint
<1> HIDE DEF d, y
<1>2. y + j = (a + (i + j)) + (-d) * UINT /\ -d \in Int /\ a + (i + j) \in Int
  BY SMT, <1>1, Uint
<1>3. ((a + (i + j)) + (-d) * UINT) % UINT = (a + (i + j)) % UINT
  BY <1>2, ModShift, Uint
<1>4. QED
  BY <1>1, <1>2, <1>3 DEF Add, y

LEMMA AddZero ==
  ASSUME NEW a \in 0..UINT-1
  PROVE  Add(a, 0) = a /\ Count(a, a) = 0
<1>1. (0 * UINT + a) % UINT = a /\ (0 * UINT + 0) % UINT = 0
  BY SMT, ModIs, Uint
<1>2. QED
  BY SMT, <1>1, Uint DEF Add, Count

LEMMA AddCount ==
  ASSUME NEW a \in 0..UINT-1, NEW b \in 0..UINT-1
  PROVE  Add(a, Count(a, b)) = b /\ Count(a, b) \in 0..UINT-1
<1> DEFINE d == (b - a) \div UINT
           y == (b - a) % UINT
<1>1. d \in Int /\ y \in 0..UINT-1 /\ b - a = UINT * d + y
  BY SMT, ModRange, Uint
<1> HIDE DEF d, y
<1>2. a + y = (-d) * UINT + b /\ -d \in Int
  BY SMT, <1>1, Uint
<1>3. ((-d) * UINT + b) % UINT = b
  BY <1>2, ModIs, Uint
<1>4. QED
  BY <1>1, <1>2, <1>3 DEF Add, Count, y

LEMMA CountAdd ==
  ASSUME NEW a \in 0..UINT-1, NEW n \in 0..UINT-1
  PROVE  Count(a, Add(a, n)) = n
<1> DEFINE d == (a + n) \div UINT
           y == (a + n) % UINT
<1>1. d \in Int /\ y \in 0..UINT-1 /\ a + n = UINT * d + y
  BY SMT, ModRange, Uint
<1> HIDE DEF d, y
<1>2. y - a = (-d) * UINT + n /\ -d \in Int
  BY SMT, <1>1, Uint
<1>3. ((-d) * UINT + n) % UINT = n
  BY <1>2, ModIs, Uint
<1>4. QED
  BY <1>1, <1>2, <1>3 DEF Add, Count, y

LEMMA CountZero ==
  ASSUME NEW a \in 0..UINT-1, NEW b \in 0..UINT-1
  PROVE  Count(a, b) = 0 <=> a = b
BY ZenonT(40), AddCount, AddZero

\* The place of a character does not depend on where the indices wrap.
LEMMA Slot ==
  ASSUME NEW a \in Int, NEW i \in Int
  PROVE  Add(a, i) % INPUT_BUF = (a + i) % INPUT_BUF /\ Add(a, i) % INPUT_BUF \in 0..INPUT_BUF-1
<1> DEFINE k == UINT \div INPUT_BUF
           d == (a + i) \div UINT
           y == (a + i) % UINT
<1>1. k \in Int /\ UINT = INPUT_BUF * k
  BY SMT, ModRange, Uint, RingAssumption
<1>2. d \in Int /\ y \in 0..UINT-1 /\ a + i = UINT * d + y
  BY SMT, ModRange, Uint
<1> HIDE DEF d, y, k
<1> DEFINE x == k * d
<1>3. a + i = y + x * INPUT_BUF /\ x \in Int /\ y \in Int
  BY SMT, <1>1, <1>2, Uint
<1> HIDE DEF x
<1>4. (y + x * INPUT_BUF) % INPUT_BUF = y % INPUT_BUF
  BY <1>2, <1>3, ModShift, Uint
<1>5. y % INPUT_BUF \in 0..INPUT_BUF-1
  BY SMT, <1>2, ModRange, Uint
<1>6. QED
  BY <1>3, <1>4, <1>5 DEF Add, y

\* Characters less than INPUT_BUF apart have places of their own.
LEMMA SlotsDiffer ==
  ASSUME NEW a \in Int, NEW i \in Int, NEW j \in Int, i < j, j < i + INPUT_BUF
  PROVE  Add(a, i) % INPUT_BUF # Add(a, j) % INPUT_BUF
<1> DEFINE d == (a + i) \div INPUT_BUF
           y == (a + i) % INPUT_BUF
           f == (a + j) \div INPUT_BUF
           z == (a + j) % INPUT_BUF
<1>1. d \in Int /\ y \in 0..INPUT_BUF-1 /\ a + i = INPUT_BUF * d + y
  BY SMT, ModRange, Uint
<1>2. f \in Int /\ z \in 0..INPUT_BUF-1 /\ a + j = INPUT_BUF * f + z
  BY SMT, ModRange, Uint
<1> HIDE DEF d, y, f, z
<1>3. SUFFICES ASSUME y = z PROVE FALSE
  BY Slot DEF y, z
<1>4. j - i = INPUT_BUF * (f - d) /\ f - d \in Int
  BY SMT, <1>1, <1>2, <1>3, Uint
<1>5. f - d > 0 /\ f - d < 1
  BY SMT, <1>4, Uint
<1>6. QED
  BY SMT, <1>4, <1>5

(***************************************************************************)
(* The cursor                                                              *)
(***************************************************************************)
LEMMA Cursor ==
  ASSUME NEW q \in 0..COLS * ROWS - 1, NEW c
  PROVE  cgaputc(q, c) \in 0..COLS * ROWS - 1
<1> DEFINE d == q \div COLS
           y == q % COLS
           v == CASE c = NL -> q + COLS - (q % COLS)
                  [] c = BACKSPACE -> IF q > 0 THEN q - 1 ELSE q
                  [] OTHER -> q + 1
<1>1. COLS \in Nat /\ COLS > 0 /\ ROWS \in Nat /\ ROWS > 0 /\ COLS * ROWS \in Nat /\ COLS * ROWS >= COLS
  BY SMT, RingAssumption
<1>2. d \in Int /\ y \in 0..COLS-1 /\ q = COLS * d + y
  BY SMT, <1>1, ModRange
<1>3. d >= 0 /\ d < ROWS
  BY SMT, <1>1, <1>2
<1>4. COLS * (d + 1) <= COLS * ROWS /\ q + COLS - y = COLS * (d + 1)
  BY SMT, <1>1, <1>2, <1>3
<1>5. v \in 0..COLS * ROWS
  BY SMT, <1>1, <1>4
<1>6. v = COLS * ROWS => v \div COLS = ROWS
  BY SMT, <1>1
<1>7. ASSUME v < COLS * ROWS PROVE v \div COLS < ROWS
  <2> DEFINE x == v
  <2>1. x \in Int /\ x < COLS * ROWS
    BY SMT, <1>5, <1>7
  <2> HIDE DEF x
  <2>2. x = COLS * (x \div COLS) + (x % COLS) /\ x % COLS >= 0 /\ x \div COLS \in Int
    BY SMT, <1>1, <2>1, ModRange
  <2>3. x \div COLS < ROWS
    BY SMT, <1>1, <2>1, <2>2
  <2>4. QED
    BY <2>3 DEF x
<1>8. cgaputc(q, c) = IF v \div COLS >= ROWS THEN v - COLS ELSE v
  BY DEF cgaputc, Scrolled
<1> HIDE DEF v
<1>9. QED
  BY SMT, <1>1, <1>5, <1>6, <1>7, <1>8

(***************************************************************************)
(* The ring                                                                *)
(***************************************************************************)
\* What the ring's part of the state is typed by.
RingTypes ==
  /\ buf \in [0..INPUT_BUF-1 -> Chars]
  /\ r \in 0..UINT-1 /\ w \in 0..UINT-1 /\ e \in 0..UINT-1

\* The three indices, in terms of the number of characters between them.
LEMMA Indices ==
  ASSUME RingTypes, RingInv, NEW m, NEW n, m = Count(r, w), n = Count(w, e)
  PROVE  /\ m \in 0..INPUT_BUF /\ n \in 0..INPUT_BUF /\ m + n <= INPUT_BUF
         /\ w = Add(r, m) /\ e = Add(w, n) /\ e = Add(r, m + n) /\ Count(r, e) = m + n
         /\ r \in Int /\ w \in Int /\ e \in Int
<1>1. m \in 0..UINT-1 /\ n \in 0..UINT-1 /\ w = Add(r, m) /\ e = Add(w, n)
  BY AddCount DEF RingTypes
<1>2. m + n <= INPUT_BUF
  BY DEF RingInv
<1>3. e = Add(r, m + n)
  BY SMT, <1>1, AddAdd, Uint DEF RingTypes
<1>4. m + n \in 0..UINT-1
  BY SMT, <1>1, <1>2, Uint
<1>5. Count(r, e) = m + n
  BY SMT, <1>3, <1>4, CountAdd DEF RingTypes
<1>6. QED
  BY SMTT(40), <1>1, <1>2, <1>3, <1>5, Uint DEF RingTypes

\* The character i places after index a.
Char(b, a, i) == b[Add(a, i) % INPUT_BUF]

LEMMA RingSeq ==
  ASSUME NEW b \in [0..INPUT_BUF-1 -> Chars], NEW a \in Int, NEW n \in Nat
  PROVE  /\ Ring(b, a, n) \in Seq(Chars) /\ Len(Ring(b, a, n)) = n
         /\ \A k \in 1..n : Ring(b, a, n)[k] = Char(b, a, k - 1)
<1>1. ASSUME NEW k \in 1..n PROVE Char(b, a, k - 1) \in Chars
  <2>1. k - 1 \in Int
    BY SMT
  <2>2. Add(a, k - 1) % INPUT_BUF \in 0..INPUT_BUF-1
    BY <2>1, Slot
  <2>3. QED
    BY <2>2 DEF Char
<1>2. Ring(b, a, n) = [k \in 1..n |-> Char(b, a, k - 1)]
  BY DEF Ring, Char
<1>3. Ring(b, a, n) \in [1..n -> Chars]
  BY <1>1, <1>2
<1>4. QED
  BY SMT, <1>2, <1>3

LEMMA key_ring ==
  ASSUME RingTypes, RingInv, NEW c \in Chars, key(c)
  PROVE  RingTypes' /\ RingInv' /\ L!Type(c)
<1> DEFINE m == Count(r, w)
           n == Count(w, e)
<1>1. /\ m \in 0..INPUT_BUF /\ n \in 0..INPUT_BUF /\ w = Add(r, m) /\ e = Add(w, n)
      /\ e = Add(r, m + n) /\ Count(r, e) = m + n /\ r \in Int /\ w \in Int /\ e \in Int
  BY Indices
<1>2. m + n < INPUT_BUF
  BY <1>1 DEF key, Fits
<1>3. r \in 0..UINT-1 /\ w \in 0..UINT-1 /\ e \in 0..UINT-1
  BY DEF RingTypes
<1>a. Count(r, w) = m /\ Count(w, e) = n
  OBVIOUS
<1> HIDE DEF m, n
<1>4. e' = Add(w, n + 1) /\ e' = Add(r, m + n + 1) /\ e' \in 0..UINT-1 /\ r' = r
  <2>1. e' = Add(e, 1) /\ r' = r
    BY DEF key
  <2>2. QED
    BY SMTT(40), <1>1, <1>3, <2>1, AddAdd
<1>5. buf' = [buf EXCEPT ![e % INPUT_BUF] = c] /\ e % INPUT_BUF \in 0..INPUT_BUF-1
  <2>1. e % INPUT_BUF \in 0..INPUT_BUF-1
    BY SMT, <1>1, Slot
  <2>2. QED
    BY <2>1 DEF key
<1>6. buf' \in [0..INPUT_BUF-1 -> Chars] /\ buf'[e % INPUT_BUF] = c
  BY <1>5 DEF RingTypes
<1>7. \A k \in 0..m+n-1 : Char(buf', r, k) = Char(buf, r, k)
  <2> SUFFICES ASSUME NEW k \in 0..m+n-1
               PROVE  Char(buf', r, k) = Char(buf, r, k)
    OBVIOUS
  <2>0. k \in Int /\ m + n \in Int /\ k < m + n /\ m + n < k + INPUT_BUF
    BY SMT, <1>1, <1>2, Uint
  <2>1. Add(r, k) % INPUT_BUF # e % INPUT_BUF
    BY <1>1, <2>0, SlotsDiffer
  <2>2. Add(r, k) % INPUT_BUF \in 0..INPUT_BUF-1
    BY <1>1, <2>0, Slot
  <2>3. QED
    BY <1>5, <2>1, <2>2 DEF RingTypes, Char
<1>8. \A k \in 0..n : Add(w, k) = Add(r, m + k)
  BY SMT, <1>1, AddAdd
<1>9. \A k \in 0..n-1 : Char(buf', w, k) = Char(buf, w, k)
  <2>1. \A k \in 0..n-1 : m + k \in 0..m+n-1 /\ k \in 0..n
    BY SMT, <1>1
  <2>2. QED
    BY <1>7, <1>8, <2>1 DEF Char
<1>b. m \in Nat /\ n \in Nat /\ m + n + 1 \in Nat /\ n + 1 \in Nat /\ buf \in [0..INPUT_BUF-1 -> Chars]
  BY SMT, <1>1, Uint DEF RingTypes
<1>c. Char(buf', w, n) = c
  BY <1>1, <1>6 DEF Char
<1>10. (e' = Add(r, INPUT_BUF)) <=> m + n + 1 = INPUT_BUF
  <2>1. Count(r, Add(r, INPUT_BUF)) = INPUT_BUF /\ Count(r, Add(r, m + n + 1)) = m + n + 1
    BY SMT, <1>1, <1>2, <1>3, CountAdd, Uint
  <2>2. QED
    BY <1>4, <2>1
<1> DEFINE queue == Ring(buf, r, m)
           editing == Ring(buf, w, n)
<1>11. /\ queue \in Seq(Chars) /\ Len(queue) = m /\ \A k \in 1..m : queue[k] = Char(buf, r, k - 1)
       /\ editing \in Seq(Chars) /\ Len(editing) = n
       /\ \A k \in 1..n : editing[k] = Char(buf, w, k - 1)
  BY <1>1, <1>b, RingSeq
<1> HIDE DEF queue, editing
<1>12. /\ Append(editing, c) \in Seq(Chars) /\ Len(Append(editing, c)) = n + 1
       /\ \A k \in 1..n+1 : Append(editing, c)[k] = Char(buf', w, k - 1)
  <2>1. /\ Append(editing, c) \in Seq(Chars) /\ Len(Append(editing, c)) = n + 1
        /\ \A k \in 1..n : Append(editing, c)[k] = editing[k]
        /\ Append(editing, c)[n + 1] = c
    BY SMT, <1>11, AppendProperties
  <2>2. Char(buf', w, (n + 1) - 1) = c
    <3>1. (n + 1) - 1 = n
      BY SMT, <1>b
    <3>2. QED
      BY <1>c, <3>1
  <2>3. \A k \in 1..n : editing[k] = Char(buf', w, k - 1)
    <3>1. \A k \in 1..n : k - 1 \in 0..n-1
      BY SMT, <1>1
    <3>2. QED
      BY <1>9, <1>11, <3>1
  <2>4. \A k \in 1..n+1 : k \in 1..n \/ k = n + 1
    BY SMT, <1>1
  <2>5. QED
    BY <2>1, <2>2, <2>3, <2>4
<1>13. CASE c \in {NL, EOF} \/ e' = Add(r, INPUT_BUF)
  <2>1. w' = e'
    BY <1>13 DEF key
  <2>2. Count(r', w') = m + n + 1 /\ Count(w', e') = 0
    <3>1. m + n + 1 \in 0..UINT-1
      BY SMT, <1>1, <1>2, Uint
    <3>2. QED
      BY SMT, <1>3, <1>4, <2>1, <3>1, CountAdd, AddZero
  <2>3. RingTypes' /\ RingInv'
    <3>1. Count(r', w') + Count(w', e') <= INPUT_BUF
      BY SMT, <1>1, <1>2, <2>2, Uint
    <3>2. 0..Count(w', e')-1 = {}
      BY SMT, <2>2
    <3>3. QED
      BY <1>3, <1>4, <1>6, <2>1, <3>1, <3>2 DEF RingTypes, RingInv
  <2>4. Ring(buf', w', 0) = <<>>
    BY SMT, <1>6, <1>4, <2>1, RingSeq
  <2>5. Ring(buf', r, m + n + 1) = queue \o Append(editing, c)
    <3> DEFINE s == Ring(buf', r, m + n + 1)
               t == queue \o Append(editing, c)
    <3>1. s \in Seq(Chars) /\ Len(s) = m + n + 1 /\ \A k \in 1..m+n+1 : s[k] = Char(buf', r, k - 1)
      BY <1>1, <1>b, <1>6, RingSeq
    <3>2. /\ t \in Seq(Chars) /\ Len(t) = m + (n + 1)
          /\ \A k \in 1..m + (n + 1) : t[k] = IF k <= m THEN queue[k] ELSE Append(editing, c)[k - m]
      <4> DEFINE a == Append(editing, c)
      <4>1. a \in Seq(Chars) /\ Len(a) = n + 1 /\ queue \in Seq(Chars) /\ Len(queue) = m
        BY <1>11, <1>12
      <4> HIDE DEF a
      <4>2. /\ queue \o a \in Seq(Chars) /\ Len(queue \o a) = m + (n + 1)
            /\ \A k \in 1..m + (n + 1) : (queue \o a)[k] = IF k <= m THEN queue[k] ELSE a[k - m]
        BY SMT, <4>1, ConcatProperties
      <4>3. QED
        BY <4>2 DEF a
    <3> HIDE DEF s, t
    <3>3. ASSUME NEW k \in 1..m+n+1 PROVE s[k] = t[k]
      <4>1. CASE k <= m
        <5>1. k \in 1..m /\ k - 1 \in 0..m+n-1 /\ k \in 1..m + (n + 1)
          BY SMT, <1>1, <4>1
        <5>2. QED
          BY <1>7, <1>11, <3>1, <3>2, <4>1, <5>1
      <4>2. CASE k > m
        <5>1. k - m \in 1..n+1 /\ (k - m) - 1 \in 0..n /\ m + ((k - m) - 1) = k - 1 /\ k \in 1..m + (n + 1) /\ ~(k <= m)
          BY SMT, <1>1, <4>2
        <5>2. Char(buf', w, (k - m) - 1) = Char(buf', r, k - 1)
          BY <1>8, <5>1 DEF Char
        <5>3. t[k] = Append(editing, c)[k - m]
          BY <3>2, <5>1
        <5>4. QED
          BY <1>12, <3>1, <5>1, <5>2, <5>3
      <4>3. QED
        BY SMT, <1>1, <4>1, <4>2
    <3>4. s = t
      <4>1. Len(s) = Len(t) /\ \A k \in 1..Len(s) : s[k] = t[k]
        BY SMT, <1>1, <3>1, <3>2, <3>3
      <4>2. QED
        BY <3>1, <3>2, <4>1, SeqEqual
    <3>5. QED
      BY <3>4 DEF s, t
  <2>6. c \in {NL, EOF} \/ Len(queue) + Len(Append(editing, c)) = INPUT_BUF
    BY SMT, <1>1, <1>10, <1>11, <1>12, <1>13
  <2>7. Len(queue) + Len(editing) < INPUT_BUF
    BY <1>2, <1>11
  <2>8. L!Type(c)
    BY <1>a, <1>4, <2>2, <2>4, <2>5, <2>6, <2>7 DEF L!Type, queue, editing
  <2>9. QED
    BY <2>3, <2>8
<1>14. CASE ~(c \in {NL, EOF} \/ e' = Add(r, INPUT_BUF))
  <2>1. w' = w
    BY <1>14 DEF key
  <2>2. Count(r', w') = m /\ Count(w', e') = n + 1
    <3>1. n + 1 \in 0..UINT-1
      BY SMT, <1>1, <1>2, Uint
    <3>2. QED
      BY SMT, <1>a, <1>3, <1>4, <2>1, <3>1, CountAdd
  <2>3. RingTypes' /\ RingInv'
    <3>1. \A k \in 0..(n+1)-1 : Char(buf', w, k) \in Letters
      <4>1. \A k \in 0..(n+1)-1 : k \in 0..n-1 \/ k = n
        BY SMT, <1>1
      <4>2. c \in Letters
        BY <1>14 DEF Chars
      <4>3. \A k \in 0..n-1 : Char(buf, w, k) \in Letters
        BY <1>a DEF RingInv, Char
      <4>4. QED
        BY <1>c, <1>9, <4>1, <4>2, <4>3
    <3>2. m + (n + 1) <= INPUT_BUF
      BY SMT, <1>1, <1>2, Uint
    <3>3. QED
      BY <1>3, <1>4, <1>6, <2>1, <2>2, <3>1, <3>2 DEF RingTypes, RingInv, Char
  <2>4. Ring(buf', r, m) = queue
    <3> DEFINE s == Ring(buf', r, m)
    <3>1. s \in Seq(Chars) /\ Len(s) = m /\ \A k \in 1..m : s[k] = Char(buf', r, k - 1)
      BY <1>1, <1>b, <1>6, RingSeq
    <3> HIDE DEF s
    <3>2. \A k \in 1..m : k - 1 \in 0..m+n-1
      BY SMT, <1>1
    <3>3. \A k \in 1..m : s[k] = queue[k]
      BY <1>7, <1>11, <3>1, <3>2
    <3>4. s = queue
      BY <1>11, <3>1, <3>3, SeqEqual
    <3>5. QED
      BY <3>4 DEF s
  <2>5. Ring(buf', w, n + 1) = Append(editing, c)
    <3> DEFINE s == Ring(buf', w, n + 1)
               t == Append(editing, c)
    <3>1. s \in Seq(Chars) /\ Len(s) = n + 1 /\ \A k \in 1..n+1 : s[k] = Char(buf', w, k - 1)
      BY <1>1, <1>b, <1>6, RingSeq
    <3>2. t \in Seq(Chars) /\ Len(t) = n + 1 /\ \A k \in 1..n+1 : t[k] = Char(buf', w, k - 1)
      BY <1>12
    <3> HIDE DEF s, t
    <3>3. s = t
      BY <3>1, <3>2, SeqEqual
    <3>4. QED
      BY <3>3 DEF s, t
  <2>6. ~(c \in {NL, EOF} \/ Len(queue) + Len(Append(editing, c)) = INPUT_BUF)
    BY SMT, <1>1, <1>10, <1>11, <1>12, <1>14
  <2>7. Len(queue) + Len(editing) < INPUT_BUF
    BY <1>2, <1>11
  <2>8. L!Type(c)
    BY <1>a, <1>4, <2>1, <2>2, <2>4, <2>5, <2>6, <2>7 DEF L!Type, queue, editing
  <2>9. QED
    BY <2>3, <2>8
<1>15. QED
  BY <1>13, <1>14

LEMMA key_backspace_ring ==
  ASSUME RingTypes, RingInv, key_backspace
  PROVE  RingTypes' /\ RingInv' /\ L!Erase
<1> DEFINE m == Count(r, w)
           n == Count(w, e)
<1>1. /\ m \in 0..INPUT_BUF /\ n \in 0..INPUT_BUF /\ m + n <= INPUT_BUF /\ e = Add(w, n) /\ r \in Int /\ w \in Int
  BY Indices
<1>2. Count(r, w) = m /\ Count(w, e) = n /\ w \in 0..UINT-1 /\ e \in 0..UINT-1
  BY DEF RingTypes
<1>3. n # 0
  BY <1>2, CountZero DEF key_backspace
<1> HIDE DEF m, n
<1>4. e' = Add(w, n - 1) /\ e' \in 0..UINT-1 /\ UNCHANGED <<buf, r, w>>
  <2>1. e' = Add(e, -1) /\ UNCHANGED <<buf, r, w>>
    BY DEF key_backspace
  <2>2. n \in Int /\ -1 \in Int /\ n - 1 \in Int /\ n + (-1) = n - 1
    BY SMT, <1>1
  <2>3. Add(Add(w, n), -1) = Add(w, n + (-1)) /\ Add(w, n - 1) \in 0..UINT-1
    BY <1>1, <2>2, AddAdd
  <2>4. QED
    BY <1>1, <2>1, <2>2, <2>3
<1>5. Count(r', w') = m /\ Count(w', e') = n - 1
  <2>1. n - 1 \in 0..UINT-1
    BY SMT, <1>1, <1>3, Uint
  <2>2. QED
    BY <1>2, <1>4, <2>1, CountAdd
<1>6. RingTypes' /\ RingInv'
  <2>1. m + (n - 1) <= INPUT_BUF /\ \A k \in 0..(n-1)-1 : k \in 0..n-1
    BY SMT, <1>1, Uint
  <2>2. \A k \in 0..n-1 : Char(buf, w, k) \in Letters
    BY <1>2 DEF RingInv, Char
  <2>3. QED
    BY <1>4, <1>5, <2>1, <2>2 DEF RingTypes, RingInv, Char
<1> DEFINE editing == Ring(buf, w, n)
           s == Ring(buf, w, n - 1)
<1>7. /\ n \in Nat /\ n - 1 \in Nat /\ editing \in Seq(Chars) /\ Len(editing) = n
      /\ \A k \in 1..n : editing[k] = Char(buf, w, k - 1) /\ editing[k] \in Chars
      /\ s \in Seq(Chars) /\ Len(s) = n - 1 /\ \A k \in 1..n-1 : s[k] = Char(buf, w, k - 1)
  <2>1. n \in Nat /\ n - 1 \in Nat /\ buf \in [0..INPUT_BUF-1 -> Chars]
    BY SMT, <1>1, <1>3, Uint DEF RingTypes
  <2>2. QED
    BY ZenonT(40), <1>1, <2>1, RingSeq, ElementOfSeq
<1> HIDE DEF editing, s
<1>8. s = SubSeq(editing, 1, n - 1)
  <2> DEFINE t == SubSeq(editing, 1, n - 1)
  <2>1. \A k \in 1..n-1 : k \in 1..n /\ editing[k] \in Chars
    BY SMT, <1>7
  <2>2. t \in Seq(Chars) /\ Len(t) = n - 1 /\ \A k \in 1..n-1 : t[k] = editing[k]
    BY SMT, <1>7, <2>1
  <2> HIDE DEF t
  <2>3. \A k \in 1..n-1 : s[k] = t[k]
    BY <1>7, <2>1, <2>2
  <2>4. s = t
    BY <1>7, <2>2, <2>3, SeqEqual
  <2>5. QED
    BY <2>4 DEF t
<1>9. editing # <<>>
  BY SMT, <1>3, <1>7
<1>10. L!Erase
  BY <1>2, <1>4, <1>5, <1>7, <1>8, <1>9 DEF L!Erase, editing, s
<1>11. QED
  BY <1>6, <1>10

\* The line being edited holds no newline: C('U') erases all of it.
LEMMA key_kill_ring ==
  ASSUME RingTypes, RingInv, key_kill
  PROVE  RingTypes' /\ RingInv' /\ L!Kill /\ pos' = Erased(Count(w, e))
<1> DEFINE m == Count(r, w)
           n == Count(w, e)
           stops == {k \in 1..Count(w, e) : buf[Add(e, -k) % INPUT_BUF] = NL}
<1>1. /\ m \in 0..INPUT_BUF /\ n \in 0..INPUT_BUF /\ e = Add(w, n) /\ r \in Int /\ w \in Int
  BY Indices
<1>2. Count(r, w) = m /\ Count(w, e) = n /\ w \in 0..UINT-1 /\ e \in 0..UINT-1
  BY DEF RingTypes
<1>3. stops = {}
  <2> SUFFICES ASSUME NEW k \in 1..n PROVE buf[Add(e, -k) % INPUT_BUF] # NL
    OBVIOUS
  <2>1. n \in Int /\ -k \in Int /\ n + (-k) = n - k /\ n - k \in 0..n-1
    BY SMT, <1>1
  <2>2. Add(e, -k) = Add(w, n - k)
    BY SMT, <1>1, <2>1, AddAdd
  <2>3. buf[Add(w, n - k) % INPUT_BUF] \in Letters
    BY <2>1 DEF RingInv
  <2>4. NL \notin Letters
    BY RingAssumption
  <2>5. QED
    BY <2>2, <2>3, <2>4
<1>4. e' = Add(e, -n) /\ pos' = Erased(n) /\ UNCHANGED <<buf, r, w>>
  BY <1>3 DEF key_kill
<1> HIDE DEF m, n
<1>5. e' = w
  <2>1. n \in Int /\ -n \in Int /\ n + (-n) = 0
    BY SMT, <1>1
  <2>2. e' = Add(w, 0)
    BY <1>1, <1>4, <2>1, AddAdd
  <2>3. QED
    BY <1>2, <2>2, AddZero
<1>6. Count(r', w') = m /\ Count(w', e') = 0
  BY <1>2, <1>4, <1>5, AddZero
<1>7. RingTypes' /\ RingInv'
  <2>1. m + 0 <= INPUT_BUF /\ 0..0-1 = {}
    BY SMT, <1>1, Uint
  <2>2. QED
    BY <1>4, <1>5, <1>6, <2>1 DEF RingTypes, RingInv
<1>8. Ring(buf, w, 0) = <<>>
  BY SMT, <1>1, RingSeq DEF RingTypes
<1>9. L!Kill
  BY <1>2, <1>4, <1>6, <1>8 DEF L!Kill
<1>10. QED
  BY <1>2, <1>4, <1>7, <1>9

LEMMA read_char_ring ==
  ASSUME RingTypes, RingInv, NEW p \in Procs, read_char(p)
  PROVE  RingTypes' /\ RingInv' /\ (L!Take(1) \/ UNCHANGED L!vars)
<1> DEFINE m == Count(r, w)
           n == Count(w, e)
<1>1. /\ m \in 0..INPUT_BUF /\ n \in 0..INPUT_BUF /\ m + n <= INPUT_BUF /\ w = Add(r, m) /\ r \in Int /\ w \in Int
  BY Indices
<1>2. Count(r, w) = m /\ Count(w, e) = n /\ r \in 0..UINT-1 /\ w \in 0..UINT-1
  BY DEF RingTypes
<1>3. m # 0
  BY <1>2, CountZero DEF read_char
<1>4. (r' = r \/ r' = Add(r, 1)) /\ UNCHANGED <<buf, w, e>>
  BY DEF read_char
<1> HIDE DEF m, n
<1>5. CASE r' = r
  BY <1>4, <1>5 DEF RingTypes, RingInv, L!vars
<1>6. CASE r' = Add(r, 1)
  <2>1. r' \in 0..UINT-1 /\ w = Add(r', m - 1)
    <3>1. m - 1 \in Int /\ 1 + (m - 1) = m
      BY SMT, <1>1
    <3>2. Add(Add(r, 1), m - 1) = Add(r, 1 + (m - 1))
      BY SMT, <1>1, <3>1, AddAdd
    <3>4. Add(r, 1) \in 0..UINT-1
      BY SMT, <1>1, <3>1, AddAdd
    <3>3. QED
      BY <1>1, <1>6, <3>1, <3>2, <3>4
  <2>2. Count(r', w') = m - 1 /\ Count(w', e') = n
    <3>1. m - 1 \in 0..UINT-1
      BY SMT, <1>1, <1>3, Uint
    <3>2. QED
      BY SMT, <1>2, <1>4, <2>1, <3>1, CountAdd
  <2>3. RingTypes' /\ RingInv'
    <3>1. (m - 1) + n <= INPUT_BUF
      BY SMT, <1>1, Uint
    <3>2. \A k \in 0..n-1 : Char(buf, w, k) \in Letters
      BY <1>2 DEF RingInv, Char
    <3>3. QED
      BY <1>4, <2>1, <2>2, <3>1, <3>2 DEF RingTypes, RingInv, Char
  <2> DEFINE queue == Ring(buf, r, m)
             s == Ring(buf, r', m - 1)
  <2>4. /\ m \in Nat /\ queue \in Seq(Chars) /\ Len(queue) = m
        /\ \A k \in 1..m : queue[k] = Char(buf, r, k - 1) /\ queue[k] \in Chars
        /\ s \in Seq(Chars) /\ Len(s) = m - 1 /\ \A k \in 1..m-1 : s[k] = Char(buf, r', k - 1)
    <3>1. m \in Nat /\ m - 1 \in Nat /\ buf \in [0..INPUT_BUF-1 -> Chars] /\ r' \in Int
      BY SMT, <1>1, <1>3, <2>1, Uint DEF RingTypes
    <3>2. QED
      BY SMTT(40), <1>1, <3>1, RingSeq, ElementOfSeq
  <2> HIDE DEF queue, s
  <2>5. \A k \in 1..m-1 : Char(buf, r', k - 1) = Char(buf, r, k)
    <3> SUFFICES ASSUME NEW k \in 1..m-1 PROVE Char(buf, r', k - 1) = Char(buf, r, k)
      OBVIOUS
    <3>1. k - 1 \in Int /\ 1 + (k - 1) = k
      BY SMT
    <3>2. Add(r', k - 1) = Add(r, k)
      BY SMT, <1>1, <1>6, <3>1, AddAdd
    <3>3. QED
      BY <3>2 DEF Char
  <2>6. s = SubSeq(queue, 1 + 1, m)
    <3> DEFINE t == SubSeq(queue, 1 + 1, m)
    <3>1. t \in Seq(Chars) /\ Len(t) = m - 1 /\ \A k \in 1..m-1 : t[k] = queue[k + 1]
      <4>1. m >= 1
        BY SMT, <1>1, <1>3
      <4>2. QED
        BY SMT, <2>4, <4>1
    <3> HIDE DEF t
    <3>2. ASSUME NEW k \in 1..m-1 PROVE s[k] = t[k]
      <4>1. k + 1 \in 1..m /\ (k + 1) - 1 = k
        BY SMT, <2>4
      <4>2. queue[k + 1] = Char(buf, r, k)
        BY <2>4, <4>1
      <4>3. QED
        BY <2>4, <2>5, <3>1, <4>2
    <3>3. s = t
      BY <2>4, <3>1, <3>2, SeqEqual
    <3>4. QED
      BY <3>3 DEF t
  <2>7. 1 <= Len(queue)
    BY SMT, <1>3, <2>4
  <2>8. L!Take(1)
    BY <1>2, <1>4, <2>2, <2>4, <2>6, <2>7 DEF L!Take, queue, s
  <2>9. QED
    BY <2>3, <2>8
<1>7. QED
  BY <1>4, <1>5, <1>6

(***************************************************************************)
(* The other state: readers, the lock, the cursor                          *)
(***************************************************************************)
\* What the actions do to the readers: at most one process moves, or all the
\* sleepers wake up.
LEMMA OneReader ==
  ASSUME TypeOK, NEW p \in Procs, NEW x \in Reader, rd' = [rd EXCEPT ![p] = x]
  PROVE  rd' \in [Procs -> Reader] /\ rd'[p] = x /\ \A q \in Procs : q # p => rd'[q] = rd[q]
BY DEF TypeOK

LEMMA WokenOf ==
  ASSUME TypeOK
  PROVE  /\ Woken \in [Procs -> Reader]
         /\ \A q \in Procs : Woken[q].pc = (IF rd[q].pc = "asleep" THEN "enter" ELSE rd[q].pc)
<1>1. ASSUME NEW q \in Procs
      PROVE  [rd[q] EXCEPT !.pc = "enter"] \in Reader /\ [rd[q] EXCEPT !.pc = "enter"].pc = "enter" /\ rd[q] \in Reader
  BY DEF TypeOK, Reader
<1>2. QED
  BY SMT, <1>1 DEF Woken

LEMMA CursorMoves ==
  ASSUME TypeOK, CursorOnScreen, NEW c, pos' = cgaputc(pos, c)
  PROVE  pos' \in Nat /\ CursorOnScreen'
<1>1. COLS * ROWS \in Nat
  BY SMT, RingAssumption
<1>2. pos \in 0..COLS * ROWS - 1
  BY SMT, <1>1 DEF TypeOK, CursorOnScreen
<1>3. pos' \in 0..COLS * ROWS - 1
  BY <1>2, Cursor
<1>4. QED
  BY SMT, <1>1, <1>3 DEF CursorOnScreen

LEMMA KeyStep ==
  ASSUME Inv, NEW c \in Chars, key(c)
  PROVE  Inv' /\ L!Type(c)
<1>1. RingTypes' /\ RingInv' /\ L!Type(c)
  BY key_ring DEF Inv, TypeOK, RingTypes
<1>2. pos' \in Nat /\ CursorOnScreen'
  BY CursorMoves DEF Inv, key
<1>3. (rd' = rd /\ w' = w) \/ rd' = Woken
  BY DEF key
<1>4. \A q \in Procs : ~Holding(q)
  BY DEF key, Locked, Holding
<1>5. TypeOK'
  BY SMTT(40), <1>1, <1>2, <1>3, WokenOf DEF Inv, TypeOK, RingTypes, key
<1>6. LockInv'
  <2>1. CASE rd' = rd /\ w' = w
    BY <2>1 DEF Inv, LockInv, Holding, key
  <2>2. CASE rd' = Woken
    <3>1. \A q \in Procs : rd'[q].pc \notin {"loop", "presleep", "asleep"}
      BY <1>4, <2>2, WokenOf DEF Holding, Inv
    <3>2. QED
      BY <3>1 DEF LockInv, Holding
  <2>3. QED
    BY <1>3, <2>1, <2>2
<1>7. ReadsALine'
  BY DEF Inv, ReadsALine, key
<1>8. QED
  BY <1>1, <1>2, <1>5, <1>6, <1>7 DEF Inv

LEMMA EraseStep ==
  ASSUME Inv, key_backspace \/ key_kill
  PROVE  Inv' /\ (L!Erase \/ L!Kill)
<1>1. RingTypes' /\ RingInv' /\ (L!Erase \/ L!Kill)
  BY key_backspace_ring, key_kill_ring DEF Inv, TypeOK, RingTypes
<1>2. pos' \in Nat /\ CursorOnScreen'
  <2>1. CASE key_backspace
    BY <2>1, CursorMoves DEF Inv, key_backspace
  <2>2. CASE key_kill
    <3> DEFINE d == Count(w, e)
    <3>1. pos' = Erased(d)
      BY <2>2, key_kill_ring DEF Inv, TypeOK, RingTypes
    <3>2. d \in Nat
      BY SMT, AddCount DEF Inv, TypeOK
    <3> HIDE DEF d
    <3>3. QED
      BY SMT, <3>1, <3>2, RingAssumption DEF Inv, TypeOK, CursorOnScreen, Erased
  <2>3. QED
    BY <2>1, <2>2
<1>3. UNCHANGED <<buf, r, w, rd, killed, ret>>
  BY DEF key_backspace, key_kill
<1>4. TypeOK'
  BY <1>1, <1>2, <1>3 DEF Inv, TypeOK, RingTypes
<1>5. LockInv' /\ ReadsALine'
  BY <1>3 DEF Inv, LockInv, Holding, ReadsALine
<1>6. QED
  BY <1>1, <1>2, <1>4, <1>5 DEF Inv

LEMMA WriteStep ==
  ASSUME Inv, NEW c, consolewrite(c)
  PROVE  Inv' /\ UNCHANGED L!vars
<1>1. UNCHANGED <<buf, r, w, e, rd, killed, ret>>
  BY DEF consolewrite
<1>2. pos' \in Nat /\ CursorOnScreen'
  BY CursorMoves DEF Inv, consolewrite
<1>3. QED
  BY <1>1, <1>2 DEF Inv, TypeOK, RingInv, LockInv, Holding, ReadsALine, L!vars

\* A step that changes one process, kills, or returns from consoleread().
LEMMA ReaderStep ==
  ASSUME Inv, UNCHANGED <<buf, r, w, e, pos>>, killed' \in [Procs -> BOOLEAN],
         NEW p \in Procs, NEW x \in Reader, rd' = [rd EXCEPT ![p] = x],
         x.pc \in {"loop", "presleep"} => \A q \in Procs : q # p => ~Holding(q),
         x.pc \in {"presleep", "asleep"} => r = w,
         ret' \in [Procs -> Seq(Chars \cup {"-1"})], ReadsALine'
  PROVE  Inv' /\ UNCHANGED L!vars
<1>1. rd' \in [Procs -> Reader] /\ rd'[p] = x /\ \A q \in Procs : q # p => rd'[q] = rd[q]
  BY OneReader DEF Inv
<1>2. TypeOK'
  BY <1>1 DEF Inv, TypeOK
<1>3. LockInv'
  BY <1>1 DEF Inv, LockInv, Holding
<1>4. RingInv' /\ CursorOnScreen' /\ UNCHANGED L!vars
  BY DEF Inv, RingInv, CursorOnScreen, L!vars
<1>5. QED
  BY <1>2, <1>3, <1>4 DEF Inv

LEMMA IdleTyped == Idle \in Reader /\ Idle.pc = "user"
BY SMT DEF Idle, Reader

LEMMA CallStep ==
  ASSUME Inv, NEW p \in Procs, NEW k \in Sizes, consoleread(p, k)
  PROVE  Inv' /\ UNCHANGED L!vars
<1> DEFINE x == [pc |-> "enter", n |-> k, got |-> <<>>]
<1>1. x \in Reader /\ x.pc = "enter"
  BY SMT, RingAssumption DEF Reader
<1>2. rd' = [rd EXCEPT ![p] = x] /\ UNCHANGED <<buf, r, w, e, pos, killed>> /\ ret' = [ret EXCEPT ![p] = <<>>]
  BY DEF consoleread
<1> HIDE DEF x
<1>3. ReadsALine'
  BY SMT, <1>2 DEF Inv, ReadsALine, TypeOK
<1>4. ret' \in [Procs -> Seq(Chars \cup {"-1"})]
  BY SMT, <1>2 DEF Inv, TypeOK
<1>5. QED
  BY <1>1, <1>2, <1>3, <1>4, ReaderStep DEF Inv, TypeOK

LEMMA LockStep ==
  ASSUME Inv, NEW p \in Procs, lock(p)
  PROVE  Inv' /\ UNCHANGED L!vars
<1> DEFINE x == [rd[p] EXCEPT !.pc = "loop"]
<1>1. x \in Reader /\ x.pc = "loop"
  BY DEF Inv, TypeOK, Reader
<1>2. rd' = [rd EXCEPT ![p] = x] /\ UNCHANGED <<buf, r, w, e, pos, killed, ret>>
  BY DEF lock
<1> HIDE DEF x
<1>3. \A q \in Procs : ~Holding(q)
  BY DEF lock, Locked, Holding
<1>4. ReadsALine'
  BY <1>2 DEF Inv, ReadsALine
<1>5. QED
  BY <1>1, <1>2, <1>3, <1>4, ReaderStep DEF Inv, TypeOK

LEMMA EmptyStep ==
  ASSUME Inv, NEW p \in Procs, read_empty(p)
  PROVE  Inv' /\ UNCHANGED L!vars
<1>1. rd[p].pc = "loop" /\ r = w /\ UNCHANGED <<buf, r, w, e, pos, killed>>
  BY DEF read_empty
<1>2. CASE killed[p]
  <2>1. rd' = [rd EXCEPT ![p] = Idle] /\ ret' = [ret EXCEPT ![p] = <<"-1">>]
    BY <1>2 DEF read_empty, Return
  <2>2. ReadsALine'
    BY SMT, <2>1 DEF Inv, TypeOK, ReadsALine, EOF, NL
  <2>4. <<"-1">> \in Seq(Chars \cup {"-1"})
    BY SMT
  <2>5. ret' \in [Procs -> Seq(Chars \cup {"-1"})]
    BY <2>1, <2>4 DEF Inv, TypeOK
  <2>3. QED
    BY <1>1, <2>1, <2>2, <2>5, IdleTyped, ReaderStep DEF Inv, TypeOK
<1>3. CASE ~killed[p]
  <2> DEFINE x == [rd[p] EXCEPT !.pc = "presleep"]
  <2>1. x \in Reader /\ x.pc = "presleep"
    BY DEF Inv, TypeOK, Reader
  <2>2. rd' = [rd EXCEPT ![p] = x] /\ ret' = ret
    BY <1>3 DEF read_empty
  <2> HIDE DEF x
  <2>3. \A q \in Procs : q # p => ~Holding(q)
    BY <1>1 DEF Inv, LockInv, Holding
  <2>4. ReadsALine'
    BY <2>2 DEF Inv, ReadsALine
  <2>5. QED
    BY <1>1, <2>1, <2>2, <2>3, <2>4, ReaderStep DEF Inv, TypeOK
<1>4. QED
  BY <1>2, <1>3

LEMMA SleepStep ==
  ASSUME Inv, NEW p \in Procs, sleep(p)
  PROVE  Inv' /\ UNCHANGED L!vars
<1> DEFINE x == [rd[p] EXCEPT !.pc = "asleep"]
<1>1. x \in Reader /\ x.pc = "asleep"
  BY DEF Inv, TypeOK, Reader
<1>2. rd' = [rd EXCEPT ![p] = x] /\ UNCHANGED <<buf, r, w, e, pos, killed, ret>>
  BY DEF sleep
<1>3. r = w
  BY DEF Inv, LockInv, sleep
<1> HIDE DEF x
<1>4. ReadsALine'
  BY <1>2 DEF Inv, ReadsALine
<1>5. QED
  BY <1>1, <1>2, <1>3, <1>4, ReaderStep DEF Inv, TypeOK

LEMMA KillStep ==
  ASSUME Inv, NEW p \in Procs, kill(p)
  PROVE  Inv' /\ UNCHANGED L!vars
<1> DEFINE x == [rd[p] EXCEPT !.pc = IF @ = "asleep" THEN "enter" ELSE @]
<1>1. x \in Reader /\ x.pc = (IF rd[p].pc = "asleep" THEN "enter" ELSE rd[p].pc)
  BY DEF Inv, TypeOK, Reader
<1>2. /\ rd' = [rd EXCEPT ![p] = x] /\ UNCHANGED <<buf, r, w, e, pos, ret>>
      /\ killed' \in [Procs -> BOOLEAN]
  BY DEF kill, Inv, TypeOK
<1> HIDE DEF x
<1>3. ReadsALine'
  BY <1>2 DEF Inv, ReadsALine
<1>4. QED
  BY <1>1, <1>2, <1>3, ReaderStep DEF Inv, TypeOK, LockInv, Holding

LEMMA CharStep ==
  ASSUME Inv, NEW p \in Procs, read_char(p)
  PROVE  Inv' /\ (L!Take(1) \/ UNCHANGED L!vars)
<1> DEFINE c == buf[r % INPUT_BUF]
           got == Append(rd[p].got, c)
<1>1. RingTypes' /\ RingInv' /\ (L!Take(1) \/ UNCHANGED L!vars)
  BY read_char_ring DEF Inv, TypeOK, RingTypes
<1>2. rd[p].pc = "loop" /\ r # w /\ UNCHANGED <<buf, w, e, killed, pos>>
  BY DEF read_char
<1>3. c \in Chars /\ rd[p] \in Reader /\ rd[p].got \in Seq(Letters)
  <2>1. r % INPUT_BUF \in 0..INPUT_BUF-1
    BY SMT, ModRange, Uint DEF Inv, TypeOK
  <2>2. QED
    BY <2>1 DEF Inv, TypeOK, Reader
<1>4. PICK x \in Reader : /\ rd' = [rd EXCEPT ![p] = x] /\ x.pc \in {"user", "loop"}
                          /\ \/ ret' = ret
                             \/ ret' = [ret EXCEPT ![p] = rd[p].got]
                             \/ c # EOF /\ ret' = [ret EXCEPT ![p] = got]
  <2>1. CASE c = EOF
    BY <2>1, IdleTyped DEF read_char, Return
  <2>2. CASE c # EOF /\ Done(c, rd[p].n)
    BY <2>2, IdleTyped DEF read_char, Return
  <2>3. CASE c # EOF /\ ~Done(c, rd[p].n)
    <3> DEFINE x == [rd[p] EXCEPT !.n = @ - 1, !.got = got]
    <3>1. rd' = [rd EXCEPT ![p].n = @ - 1, ![p].got = got] /\ ret' = ret
      BY <2>3 DEF read_char
    <3>2. rd' = [rd EXCEPT ![p] = x]
      BY <3>1 DEF Inv, TypeOK, Reader
    <3>3. got \in Seq(Letters)
      BY SMT, <1>3, <2>3 DEF Done, Chars
    <3> HIDE DEF got, c
    <3>a. rd[p].n - 1 \in Int
      BY SMT, <1>3 DEF Reader
    <3>b. \A v \in Reader, i \in Int, g \in Seq(Letters) :
             [v EXCEPT !.n = i, !.got = g] \in Reader /\ [v EXCEPT !.n = i, !.got = g].pc = v.pc
      BY DEF Reader
    <3>4. x \in Reader /\ x.pc = rd[p].pc
      BY <1>3, <3>3, <3>a, <3>b
    <3>5. QED
      BY <1>2, <3>1, <3>2, <3>4
  <2>4. QED
    BY <2>1, <2>2, <2>3
<1>5. rd' \in [Procs -> Reader] /\ rd'[p] = x /\ \A q \in Procs : q # p => rd'[q] = rd[q]
  BY <1>4, OneReader DEF Inv
<1>a. rd[p].got \in Seq(Chars \cup {"-1"}) /\ got \in Seq(Chars \cup {"-1"})
  <2>1. rd[p].got \in Seq(Chars \cup {"-1"})
    BY <1>3, SeqMonotonic DEF Chars
  <2>2. QED
    BY SMT, <1>3, <2>1
<1>b. ret' \in [Procs -> Seq(Chars \cup {"-1"})]
  <2> HIDE DEF got, c
  <2>1. QED
    BY <1>4, <1>a DEF Inv, TypeOK
<1>6. TypeOK'
  BY <1>1, <1>2, <1>5, <1>b DEF Inv, TypeOK, RingTypes
<1>7. LockInv'
  <2>1. \A q \in Procs : q # p => ~Holding(q) /\ rd[q].pc # "asleep"
    BY <1>2 DEF Inv, LockInv, Holding
  <2>2. QED
    BY <1>4, <1>5, <2>1 DEF LockInv, Holding
<1>8. ReadsALine'
  <2>1. \A k \in DOMAIN rd[p].got : rd[p].got[k] # EOF /\ rd[p].got[k] # NL
    BY SMT, <1>3, RingAssumption
  <2>2. c # EOF => \A k \in DOMAIN got : got[k] # EOF /\ (got[k] = NL => k = Len(got))
    <3>1. /\ DOMAIN got = 1..Len(rd[p].got) + 1 /\ Len(got) = Len(rd[p].got) + 1 /\ got[Len(got)] = c
          /\ \A k \in 1..Len(rd[p].got) : got[k] = rd[p].got[k] /\ k \in DOMAIN rd[p].got
          /\ \A k \in DOMAIN got : k \in 1..Len(rd[p].got) \/ k = Len(got)
      BY SMT, <1>3
    <3>2. QED
      BY <2>1, <3>1
  <2> HIDE DEF got, c
  <2>3. \A q \in Procs : q # p => ret'[q] = ret[q]
    BY <1>4 DEF Inv, TypeOK
  <2>4. ret'[p] = ret[p] \/ ret'[p] = rd[p].got \/ (c # EOF /\ ret'[p] = got)
    BY <1>4 DEF Inv, TypeOK
  <2>5. ASSUME NEW q \in Procs, NEW k \in DOMAIN ret'[q]
        PROVE  ret'[q][k] # EOF /\ (ret'[q][k] = NL => k = Len(ret'[q]))
    <3>1. CASE ret'[q] = ret[q]
      BY <2>5, <3>1 DEF Inv, ReadsALine
    <3>2. CASE ret'[q] = rd[p].got
      BY <2>1, <2>5, <3>2
    <3>3. CASE c # EOF /\ ret'[q] = got
      BY <2>2, <2>5, <3>3
    <3>4. QED
      BY <2>3, <2>4, <3>1, <3>2, <3>3
  <2>6. QED
    BY <2>5 DEF ReadsALine
<1>9. CursorOnScreen'
  BY <1>2 DEF Inv, CursorOnScreen
<1>10. QED
  BY <1>1, <1>6, <1>7, <1>8, <1>9 DEF Inv

LEMMA InitInv == Init => Inv /\ L!Init
<1> SUFFICES ASSUME Init PROVE Inv /\ L!Init
  OBVIOUS
<1>1. 0 \in 0..UINT-1 /\ Count(0, 0) = 0
  BY SMT, AddZero, Uint
<1>2. buf \in [0..INPUT_BUF-1 -> Chars] /\ r = 0 /\ w = 0 /\ e = 0
  BY DEF Init, Chars
<1>3. \A p \in Procs : rd[p] = Idle /\ ret[p] = <<>>
  BY DEF Init
<1>4. TypeOK
  BY SMT, <1>1, <1>2, IdleTyped DEF Init, TypeOK
<1>5. RingInv
  BY SMT, <1>1, <1>2, Uint DEF RingInv
<1>6. LockInv /\ ReadsALine
  BY SMT, <1>2, <1>3, IdleTyped DEF LockInv, Holding, ReadsALine
<1>7. CursorOnScreen
  BY SMT, RingAssumption DEF Init, CursorOnScreen
<1>8. Ring(buf, 0, 0) = <<>>
  BY SMT, <1>2, RingSeq
<1>9. L!Init
  BY <1>1, <1>2, <1>8 DEF L!Init
<1>10. QED
  BY <1>4, <1>5, <1>6, <1>7, <1>9 DEF Inv

LEMMA NextInv == Inv /\ [Next]_vars => Inv' /\ [L!Next]_L!vars
<1> SUFFICES ASSUME Inv, [Next]_vars PROVE Inv' /\ [L!Next]_L!vars
  OBVIOUS
<1>1. CASE UNCHANGED vars
  BY <1>1 DEF vars, Inv, TypeOK, RingInv, LockInv, Holding, CursorOnScreen, ReadsALine, L!vars
<1>2. ASSUME NEW c \in Chars, key(c) PROVE Inv' /\ L!Next
  BY <1>2, KeyStep DEF L!Next
<1>3. CASE key_backspace \/ key_kill
  BY <1>3, EraseStep DEF L!Next
<1>4. ASSUME NEW c, consolewrite(c) PROVE Inv' /\ UNCHANGED L!vars
  BY <1>4, WriteStep
<1>5. ASSUME NEW p \in Procs, Read(p) \/ kill(p) \/ \E n \in Sizes : consoleread(p, n)
      PROVE  Inv' /\ (L!Take(1) \/ UNCHANGED L!vars)
  BY <1>5, LockStep, CharStep, EmptyStep, SleepStep, KillStep, CallStep DEF Read
<1>6. 1 \in 1..INPUT_BUF
  BY SMT, Uint
<1>7. L!Take(1) => L!Next
  BY <1>6 DEF L!Next
<1>8. QED
  BY <1>1, <1>2, <1>3, <1>4, <1>5, <1>7 DEF Next

(***************************************************************************)
(* The properties                                                          *)
(***************************************************************************)
LEMMA Invariance == Spec => []Inv
BY InitInv, NextInv, PTL DEF Spec

\* A reader asleep in consoleread() has nothing to read, however many readers
\* share the input, whatever is typed and whoever is killed.
THEOREM NoReaderForgotten == Spec => []ReaderNotForgotten
<1>1. Inv => ReaderNotForgotten
  BY DEF Inv, LockInv, ReaderNotForgotten
<1>2. QED
  BY <1>1, Invariance, PTL

\* cgaputc() keeps the cursor on a screen of any size.
THEOREM CursorStays == Spec => []CursorOnScreen
BY Invariance, PTL DEF Inv

\* consoleread() returns at most one line, and no ^D.
THEOREM OneLinePerRead == Spec => []ReadsALine
BY Invariance, PTL DEF Inv

\* The ring with wrapping indices implements the queue of lines: readers take
\* what was typed and not erased, once and in order.
THEOREM RingIsLineInput == Spec => IsLineInput
BY InitInv, NextInv, Invariance, PTL DEF Spec, IsLineInput, L!Spec

\* ^D leaves the input only with a consoleread() that returns 0 bytes.
THEOREM EofGivesZero == Spec => EofReturnsZero
<1> DEFINE A == r' # r /\ buf[r % INPUT_BUF] = EOF =>
                  \E p \in Procs : rd[p].pc = "loop" /\ rd'[p].pc = "user" /\ ret'[p] = <<>>
<1>1. Inv /\ [Next]_vars => [A]_vars
  <2> SUFFICES ASSUME Inv, Next, r' # r, buf[r % INPUT_BUF] = EOF
               PROVE  \E p \in Procs : rd[p].pc = "loop" /\ rd'[p].pc = "user" /\ ret'[p] = <<>>
    OBVIOUS
  <2>1. PICK p \in Procs : read_char(p)
    BY DEF Next, Read, key, key_backspace, key_kill, consolewrite, lock, read_empty, sleep, kill, consoleread
  <2>2. rd[p].got = <<>> /\ Return(p, rd[p].got)
    BY <2>1 DEF read_char, Saves
  <2>3. rd'[p] = Idle /\ ret'[p] = <<>>
    BY <2>2 DEF Return, Inv, TypeOK
  <2>4. QED
    BY <2>1, <2>3, IdleTyped DEF read_char
<1>2. QED
  BY <1>1, Invariance, PTL DEF Spec, EofReturnsZero

=============================================================================
