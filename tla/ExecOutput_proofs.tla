-------------------------- MODULE ExecOutput_proofs --------------------------
(***************************************************************************)
(* Proofs about the output of a job (ExecOutput), for every pair of        *)
(* streams, every limit and every size of page: what is retained is the    *)
(* end of the output, a page is the longest run of it that fits, and a     *)
(* client that follows next_cursor misses nothing unless it is told.       *)
(*                                                                         *)
(* Sums over sequences are handled by induction over sets of natural       *)
(* numbers (SetInduction).  The argument then works with cursors alone:    *)
(* Weight(text, c) is the size of the first c characters, an event is the  *)
(* text between two cursors, and so are what is trimmed of it and what a   *)
(* page takes of it.                                                       *)
(***************************************************************************)
EXTENDS ExecOutput, SequenceTheorems, WellFoundedInduction, TLAPS

-----------------------------------------------------------------------------
(* Induction over the natural numbers, for a set instead of a predicate.   *)

(* A set of natural numbers has a least element.                           *)
LEMMA Least ==
  ASSUME NEW S, S \subseteq Nat, S # {}
  PROVE  \E m \in S : \A k \in S : m <= k
<1> DEFINE Less == {ss \in Nat \X Nat : ss[1] < ss[2]}
<1>1. IsWellFoundedOn(Less, Nat)
  BY NatLessThanWellFounded DEF OpToRel
<1>2. ASSUME NEW x \in Nat, NEW y \in Nat, x < y
      PROVE  <<x, y>> \in Less
  <2>1. <<x, y>> \in Nat \X Nat /\ <<x, y>>[1] < <<x, y>>[2]
    BY <1>2
  <2> QED
    BY <2>1, Zenon
<1> HIDE DEF Less
<1>3. PICK m \in S : \A y \in S : <<y, m>> \notin Less
  BY <1>1, WFMin
<1>4. ASSUME NEW k \in S
      PROVE  m <= k
  <2>1. ~(k < m)
    BY <1>2, <1>3
  <2> QED
    BY <2>1
<1> QED
  BY <1>4

(* A set that holds 0 and the successor of each of its members holds every *)
(* natural number.                                                         *)
LEMMA SetInduction ==
  ASSUME NEW S, 0 \in S, \A n \in Nat : n \in S => n + 1 \in S
  PROVE  \A n \in Nat : n \in S
<1> SUFFICES ASSUME NEW n \in Nat, n \notin S
             PROVE  FALSE
  OBVIOUS
<1> DEFINE Missing == Nat \ S
<1>1. Missing \subseteq Nat /\ Missing # {}
  OBVIOUS
<1>2. PICK m \in Missing : \A k \in Missing : m <= k
  <2> HIDE DEF Missing
  <2> QED
    BY <1>1, Least
<1>3. m # 0 /\ m - 1 \in Nat /\ m - 1 \in S
  BY <1>2
<1> QED
  BY <1>2, <1>3

-----------------------------------------------------------------------------
(* Sums.                                                                   *)

(* The recursion behind FoldLeft has a solution.                           *)
Sums(g, n, s) ==
  /\ g \in [SUBSET (1..n) -> Nat]
  /\ \A t \in SUBSET (1..n) :
       g[t] = IF t = {} THEN 0 ELSE g[t \ {Max(t)}] + s[Max(t)]

(* The greatest element of a set that goes no further than one of its      *)
(* members.                                                                *)
LEMMA MaxIs ==
  ASSUME NEW n \in Nat, NEW t \in SUBSET (1..n), n \in t
  PROVE  Max(t) = n
<1> DEFINE Top(x) == \A y \in t : x >= y
<1>1. Top(n)
  OBVIOUS
<1>2. \A x \in t : Top(x) => x = n
  OBVIOUS
<1>3. Max(t) = CHOOSE x \in t : Top(x)
  BY DEF Max
<1> HIDE DEF Top
<1> QED
  BY <1>1, <1>2, <1>3, Zenon

(* That recursion has a solution over every sequence of numbers, so the    *)
(* CHOOSE in FoldLeft picks one.                                           *)
LEMMA SumsExist ==
  ASSUME NEW N \in Nat, NEW s \in [1..N -> Nat]
  PROVE  \E g : Sums(g, N, s)
<1> DEFINE P == {n \in Nat : n <= N => \E g : Sums(g, n, s)}
<1>1. 0 \in P
  <2> DEFINE g == [t \in SUBSET (1..0) |-> 0]
  <2>1. \A t \in SUBSET (1..0) : t = {}
    OBVIOUS
  <2>2. Sums(g, 0, s)
    BY <2>1 DEF Sums
  <2> QED
    BY <2>2
<1>2. ASSUME NEW n \in Nat, n \in P
      PROVE  n + 1 \in P
  <2> SUFFICES ASSUME n + 1 <= N
               PROVE  \E g : Sums(g, n + 1, s)
    OBVIOUS
  <2>1. PICK g : Sums(g, n, s)
    BY <1>2
  <2> DEFINE h == [t \in SUBSET (1..(n + 1)) |->
                     IF n + 1 \in t THEN g[t \ {n + 1}] + s[n + 1] ELSE g[t]]
  <2>2. \A t \in SUBSET (1..(n + 1)) :
          /\ t \ {n + 1} \in SUBSET (1..n)
          /\ n + 1 \notin t => t \in SUBSET (1..n)
    OBVIOUS
  <2>3. s[n + 1] \in Nat
    OBVIOUS
  <2>4. h \in [SUBSET (1..(n + 1)) -> Nat]
    BY <2>1, <2>2, <2>3 DEF Sums
  <2>5. ASSUME NEW t \in SUBSET (1..(n + 1))
        PROVE  h[t] = IF t = {} THEN 0 ELSE h[t \ {Max(t)}] + s[Max(t)]
    <3>1. CASE n + 1 \in t
      <4>1. Max(t) = n + 1
        BY <3>1, MaxIs
      <4>2. h[t \ {n + 1}] = g[t \ {n + 1}]
        BY <2>2
      <4> QED
        BY <3>1, <4>1, <4>2
    <3>2. CASE n + 1 \notin t
      <4>1. h[t] = g[t] /\ t \in SUBSET (1..n)
        BY <2>2, <3>2
      <4>2. h[t \ {Max(t)}] = g[t \ {Max(t)}]
        BY <3>2
      <4> HIDE DEF h
      <4> QED
        BY <2>1, <4>1, <4>2 DEF Sums
    <3> QED
      BY <3>1, <3>2
  <2> HIDE DEF h
  <2>6. Sums(h, n + 1, s)
    BY <2>4, <2>5 DEF Sums
  <2> QED
    BY <2>6
<1>3. N \in P
  <2> HIDE DEF P
  <2> QED
    BY <1>1, <1>2, SetInduction
<1> QED
  BY <1>3

(* What Total computes: the running sums of a sequence.                    *)
Running(h, n, s) ==
  /\ h \in [0..n -> Nat]
  /\ h[0] = 0
  /\ \A k \in 1..n : h[k] = h[k - 1] + s[k]

(* Total is the last of the running sums.                                  *)
LEMMA TotalRuns ==
  ASSUME NEW n \in Nat, NEW s \in [1..n -> Nat]
  PROVE  \E h : Running(h, n, s) /\ Total(s) = h[n]
<1> DEFINE F == [t \in SUBSET (1..n) |-> 0]
           iter == CHOOSE g : g = [t \in SUBSET (1..n) |->
                     IF t = {} THEN 0 ELSE g[t \ {Max(t)}] + s[Max(t)]]
<1>1. DOMAIN s = 1..n
  OBVIOUS
<1>2. Total(s) = iter[1..n]
  BY <1>1, Zenon DEF Total, FoldLeft, MapThenFoldSet
<1>3. PICK g : Sums(g, n, s)
  BY SumsExist
<1>4. g = [t \in SUBSET (1..n) |->
             IF t = {} THEN 0 ELSE g[t \ {Max(t)}] + s[Max(t)]]
  BY <1>3 DEF Sums
<1>5. iter = [t \in SUBSET (1..n) |->
                IF t = {} THEN 0 ELSE iter[t \ {Max(t)}] + s[Max(t)]]
  BY <1>4
<1> HIDE DEF iter
<1>6. iter[{}] = 0
  BY <1>5
<1>7. ASSUME NEW k \in 1..n
      PROVE  iter[1..k] = iter[1..(k - 1)] + s[k]
  <2>1. 1..k \in SUBSET (1..n) /\ 1..k # {} /\ k - 1 \in Nat
    OBVIOUS
  <2>2. Max(1..k) = k
    BY <2>1, MaxIs
  <2>3. (1..k) \ {k} = 1..(k - 1)
    OBVIOUS
  <2> QED
    BY <1>5, <2>1, <2>2, <2>3
<1> DEFINE P == {k \in Nat : k <= n => iter[1..k] \in Nat}
<1>8. \A k \in Nat : k \in P
  <2>1. 0 \in P
    BY <1>6, 1..0 = {}
  <2>2. ASSUME NEW k \in Nat, k \in P
        PROVE  k + 1 \in P
    BY <1>7, <2>2, k + 1 - 1 = k
  <2> HIDE DEF P
  <2> QED
    BY <2>1, <2>2, SetInduction
<1> DEFINE h == [k \in 0..n |-> iter[1..k]]
<1>9. Running(h, n, s)
  BY <1>6, <1>7, <1>8, 1..0 = {} DEF Running
<1> QED
  BY <1>2, <1>9

(* The first n terms of a sequence and their sum.                          *)
LEMMA TotalOfNone ==
  ASSUME NEW s \in [1..0 -> Nat]
  PROVE  Total(s) = 0
BY TotalRuns DEF Running

(* A sequence longer by one term sums to that much more.                   *)
LEMMA TotalStep ==
  ASSUME NEW n \in Nat, NEW s \in [1..(n + 1) -> Nat], NEW t \in [1..n -> Nat],
         \A k \in 1..n : s[k] = t[k]
  PROVE  Total(s) = Total(t) + s[n + 1] /\ Total(t) \in Nat
<1>1. PICK g : Running(g, n + 1, s) /\ Total(s) = g[n + 1]
  BY TotalRuns
<1>2. PICK h : Running(h, n, t) /\ Total(t) = h[n]
  BY TotalRuns
<1> DEFINE P == {k \in Nat : k <= n => g[k] = h[k]}
<1>3. 0 \in P
  BY <1>1, <1>2 DEF Running
<1>4. ASSUME NEW k \in Nat, k \in P
      PROVE  k + 1 \in P
  BY <1>1, <1>2, <1>4 DEF Running
<1>5. n \in P
  <2> HIDE DEF P
  <2> QED
    BY <1>3, <1>4, SetInduction
<1>6. g[n + 1] = g[n] + s[n + 1] /\ h[n] \in Nat
  BY <1>1, <1>2 DEF Running
<1> QED
  BY <1>1, <1>2, <1>5, <1>6

-----------------------------------------------------------------------------
(* Characters, and the bytes of a text.                                    *)

(* A character has between one and four bytes of UTF-8.                    *)
LEMMA WidthType ==
  ASSUME NEW c \in Characters
  PROVE  WidthOf(c) \in 1..4
<1>1. PICK s \in Streams : \E n \in 1..Len(Width[s]) : c = Char(s, n)
  BY DEF Characters
<1>2. PICK n \in 1..Len(Width[s]) : c = Char(s, n)
  BY <1>1
<1>3. Width[s] \in Seq(1..4)
  BY OutputAssumption
<1>4. Width[s][n] \in 1..4
  BY <1>3, ElementOfSeq
<1> QED
  BY <1>2, <1>4 DEF WidthOf, Char

(* What the first k characters of a text weigh.                            *)
Weight(text, k) == Bytes(SubSeq(text, 1, k))

(* What a prefix of a sequence is.                                         *)
LEMMA PrefixOf ==
  ASSUME NEW S, NEW t \in Seq(S), NEW k \in 0..Len(t)
  PROVE  /\ SubSeq(t, 1, k) \in Seq(S)
         /\ Len(SubSeq(t, 1, k)) = k
         /\ \A i \in 1..k : SubSeq(t, 1, k)[i] = t[i]
<1>1. \A i \in 1..k : t[i] \in S
  BY ElementOfSeq
<1> QED
  BY <1>1, SubSeqProperties

(* A prefix longer by one character weighs that character more.            *)
LEMMA WeightStep ==
  ASSUME NEW t \in Seq(Characters), NEW k \in Nat, k < Len(t)
  PROVE  /\ Weight(t, k) \in Nat
         /\ Weight(t, k + 1) = Weight(t, k) + WidthOf(t[k + 1])
         /\ WidthOf(t[k + 1]) \in 1..4
<1> DEFINE a == SubSeq(t, 1, k)
           b == SubSeq(t, 1, k + 1)
           wa == [i \in 1..Len(a) |-> WidthOf(a[i])]
           wb == [i \in 1..Len(b) |-> WidthOf(b[i])]
<1>1. /\ Len(a) = k /\ \A i \in 1..k : a[i] = t[i]
      /\ Len(b) = k + 1 /\ \A i \in 1..(k + 1) : b[i] = t[i]
  BY PrefixOf
<1>2. \A i \in 1..(k + 1) : WidthOf(t[i]) \in 1..4
  BY WidthType, ElementOfSeq
<1> HIDE DEF a, b
<1>3. wa \in [1..k -> Nat] /\ wb \in [1..(k + 1) -> Nat]
  BY <1>1, <1>2
<1>4. \A i \in 1..k : wb[i] = wa[i]
  BY <1>1
<1>5. wb[k + 1] = WidthOf(t[k + 1])
  BY <1>1
<1>6. Bytes(a) = Total(wa) /\ Bytes(b) = Total(wb)
  BY DEF Bytes
<1> HIDE DEF wa, wb
<1>7. Total(wb) = Total(wa) + wb[k + 1] /\ Total(wa) \in Nat
  BY <1>3, <1>4, TotalStep
<1> QED
  BY <1>2, <1>5, <1>6, <1>7 DEF Weight, a, b

(* No text, no bytes.                                                      *)
LEMMA BytesOfNone == Bytes(<<>>) = 0
<1> DEFINE w == [i \in 1..0 |-> WidthOf(<<>>[i])]
<1>1. w \in [1..0 -> Nat]
  OBVIOUS
<1>2. Bytes(<<>>) = Total(w)
  BY Len(<<>>) = 0 DEF Bytes
<1> HIDE DEF w
<1> QED
  BY <1>1, <1>2, TotalOfNone

(* The empty prefix weighs nothing.                                        *)
LEMMA WeightOfNone ==
  ASSUME NEW t
  PROVE  Weight(t, 0) = 0
<1>1. SubSeq(t, 1, 0) = <<>>
  BY SubSeqEmpty
<1> QED
  BY <1>1, BytesOfNone DEF Weight

(* Weights are natural numbers that grow with each character.              *)
LEMMA WeightType ==
  ASSUME NEW t \in Seq(Characters), NEW k \in 0..Len(t)
  PROVE  Weight(t, k) \in Nat
<1>1. CASE k = 0
  BY <1>1, WeightOfNone
<1>2. CASE k # 0
  <2>1. k - 1 \in Nat /\ k - 1 < Len(t) /\ (k - 1) + 1 = k
    BY <1>2
  <2>2. /\ Weight(t, k - 1) \in Nat
        /\ Weight(t, k) = Weight(t, k - 1) + WidthOf(t[k])
        /\ WidthOf(t[k]) \in 1..4
    BY <2>1, WeightStep
  <2> QED
    BY <2>2
<1> QED
  BY <1>1, <1>2

(* A longer prefix weighs more: no character is free.                      *)
LEMMA WeightGrows ==
  ASSUME NEW t \in Seq(Characters), NEW k \in 0..Len(t), NEW m \in 0..Len(t),
         k < m
  PROVE  Weight(t, k) < Weight(t, m)
<1> DEFINE P == {i \in Nat : k + 1 + i <= Len(t) =>
                                Weight(t, k) < Weight(t, k + 1 + i)}
<1>1. 0 \in P
  <2> SUFFICES ASSUME k + 1 <= Len(t)
               PROVE  Weight(t, k) < Weight(t, k + 1)
    BY k + 1 + 0 = k + 1
  <2>1. k \in Nat /\ k < Len(t)
    OBVIOUS
  <2>2. /\ Weight(t, k) \in Nat
        /\ Weight(t, k + 1) = Weight(t, k) + WidthOf(t[k + 1])
        /\ WidthOf(t[k + 1]) \in 1..4
    BY <2>1, WeightStep
  <2> HIDE DEF P
  <2> QED
    BY <2>2
<1>2. ASSUME NEW i \in Nat, i \in P
      PROVE  i + 1 \in P
  <2> SUFFICES ASSUME k + 1 + (i + 1) <= Len(t)
               PROVE  Weight(t, k) < Weight(t, k + 1 + (i + 1))
    OBVIOUS
  <2> DEFINE j == k + 1 + i
  <2>1. j \in Nat /\ j < Len(t) /\ j + 1 = k + 1 + (i + 1)
    OBVIOUS
  <2>2. Weight(t, k) < Weight(t, j)
    BY <1>2, <2>1
  <2> HIDE DEF j
  <2>3. Weight(t, j) < Weight(t, j + 1) /\ Weight(t, j) \in Nat
        /\ Weight(t, j + 1) \in Nat
    BY <2>1, WeightStep
  <2>4. Weight(t, k) \in Nat
    BY WeightType
  <2> HIDE DEF P
  <2>5. Weight(t, k) < Weight(t, j + 1)
    BY <2>2, <2>3, <2>4
  <2> QED
    BY <2>1, <2>5
<1>3. m - k - 1 \in Nat
  OBVIOUS
<1>4. m - k - 1 \in P
  <2> HIDE DEF P
  <2> QED
    BY <1>1, <1>2, <1>3, SetInduction
<1> QED
  BY <1>4, k + 1 + (m - k - 1) = m

(* What a piece of a sequence is.                                          *)
LEMMA PieceIs ==
  ASSUME NEW S, NEW t \in Seq(S), NEW a \in 1..(Len(t) + 1), NEW b \in (a - 1)..Len(t)
  PROVE  /\ SubSeq(t, a, b) \in Seq(S)
         /\ Len(SubSeq(t, a, b)) = b - a + 1
         /\ \A i \in 1..(b - a + 1) : SubSeq(t, a, b)[i] = t[a + i - 1]
<1>1. \A i \in a..b : t[i] \in S
  BY ElementOfSeq
<1> QED
  BY <1>1, SubSeqProperties

(* A piece of a piece is a piece of the whole.                             *)
LEMMA PieceOfPiece ==
  ASSUME NEW S, NEW t \in Seq(S), NEW a \in 1..(Len(t) + 1), NEW b \in (a - 1)..Len(t),
         NEW x \in 1..(b - a + 2), NEW y \in (x - 1)..(b - a + 1)
  PROVE  SubSeq(SubSeq(t, a, b), x, y) = SubSeq(t, a + x - 1, a + y - 1)
<1> DEFINE u == SubSeq(t, a, b)
           l == SubSeq(u, x, y)
           r == SubSeq(t, a + x - 1, a + y - 1)
<1>1. /\ u \in Seq(S) /\ Len(u) = b - a + 1
      /\ \A i \in 1..(b - a + 1) : u[i] = t[a + i - 1]
  BY PieceIs
<1> HIDE DEF u
<1>2. /\ l \in Seq(S) /\ Len(l) = y - x + 1
      /\ \A i \in 1..(y - x + 1) : l[i] = u[x + i - 1]
  BY <1>1, PieceIs
<1>3. a + x - 1 \in 1..(Len(t) + 1) /\ a + y - 1 \in (a + x - 1 - 1)..Len(t)
  OBVIOUS
<1>4. /\ r \in Seq(S) /\ Len(r) = (a + y - 1) - (a + x - 1) + 1
      /\ \A i \in 1..((a + y - 1) - (a + x - 1) + 1) : r[i] = t[(a + x - 1) + i - 1]
  BY <1>3, PieceIs
<1> HIDE DEF l, r
<1>5. ASSUME NEW i \in 1..(y - x + 1)
      PROVE  l[i] = r[i]
  <2>1. l[i] = u[x + i - 1] /\ x + i - 1 \in 1..(b - a + 1)
    BY <1>2
  <2>2. u[x + i - 1] = t[a + (x + i - 1) - 1]
    BY <1>1, <2>1
  <2>3. r[i] = t[(a + x - 1) + i - 1]
    BY <1>4
  <2> QED
    BY <2>1, <2>2, <2>3, a + (x + i - 1) - 1 = (a + x - 1) + i - 1
<1> QED
  BY <1>2, <1>4, <1>5, SeqEqual DEF l, r, u

(* The bytes of a piece of a text are the difference of two weights.       *)
LEMMA BytesOfPiece ==
  ASSUME NEW t \in Seq(Characters), NEW a \in 1..(Len(t) + 1), NEW b \in (a - 1)..Len(t)
  PROVE  Bytes(SubSeq(t, a, b)) = Weight(t, b) - Weight(t, a - 1)
<1> DEFINE P == {i \in Nat : a - 1 + i <= Len(t) =>
                   Bytes(SubSeq(t, a, a - 1 + i)) = Weight(t, a - 1 + i) - Weight(t, a - 1)}
<1>1. 0 \in P
  <2>1. Bytes(SubSeq(t, a, a - 1)) = 0
    <3>1. SubSeq(t, a, a - 1) = <<>>
      BY SubSeqEmpty
    <3> QED
      BY <3>1, BytesOfNone
  <2>2. Weight(t, a - 1) \in Nat
    BY WeightType
  <2> QED
    BY <2>1, <2>2, a - 1 + 0 = a - 1
<1>2. ASSUME NEW i \in Nat, i \in P
      PROVE  i + 1 \in P
  <2> DEFINE e == a - 1 + i
             u == SubSeq(t, a, e + 1)
  <2> SUFFICES ASSUME a - 1 + (i + 1) <= Len(t)
               PROVE  Bytes(u) = Weight(t, e + 1) - Weight(t, a - 1)
    BY a - 1 + (i + 1) = e + 1
  <2>1. e \in (a - 1)..Len(t) /\ e + 1 \in (a - 1)..Len(t) /\ e < Len(t) /\ e \in Nat
    OBVIOUS
  <2>2. Bytes(SubSeq(t, a, e)) = Weight(t, e) - Weight(t, a - 1)
    BY <1>2, <2>1
  <2>3. (e + 1) - a + 1 = i + 1 /\ a + (i + 1) - 1 = e + 1 /\ a + i - 1 = e
        /\ a + 1 - 1 = a
    OBVIOUS
  <2> HIDE DEF e
  <2>4. u \in Seq(Characters) /\ Len(u) = i + 1 /\ u[i + 1] = t[e + 1]
    BY <2>1, <2>3, PieceIs
  <2>5. SubSeq(u, 1, i) = SubSeq(t, a, e)
    BY <2>1, <2>3, PieceOfPiece
  <2>6. SubSeq(u, 1, i + 1) = u
    BY <2>4, SubSeqFull
  <2> HIDE DEF u
  <2>7. Weight(u, i + 1) = Weight(u, i) + WidthOf(u[i + 1]) /\ Weight(u, i) \in Nat
    BY <2>4, WeightStep
  <2>8. Weight(t, e + 1) = Weight(t, e) + WidthOf(t[e + 1]) /\ WidthOf(t[e + 1]) \in 1..4
    BY <2>1, WeightStep
  <2>9. Weight(t, e) \in Nat /\ Weight(t, a - 1) \in Nat
    BY <2>1, WeightType
  <2>10. /\ Bytes(u) = Weight(u, i + 1)
         /\ Bytes(SubSeq(t, a, e)) = Weight(u, i)
    BY <2>5, <2>6 DEF Weight
  <2> HIDE DEF P
  <2> QED
    BY <2>2, <2>4, <2>7, <2>8, <2>9, <2>10
<1>3. b - (a - 1) \in Nat
  OBVIOUS
<1>4. b - (a - 1) \in P
  <2> HIDE DEF P
  <2> QED
    BY <1>1, <1>2, <1>3, SetInduction
<1> QED
  BY <1>4, a - 1 + (b - (a - 1)) = b

(* Appending text leaves what was written before as it was.                *)
LEMMA PieceOfConcat ==
  ASSUME NEW S, NEW t \in Seq(S), NEW u \in Seq(S),
         NEW a \in 1..(Len(t) + 1), NEW b \in (a - 1)..Len(t)
  PROVE  SubSeq(t \o u, a, b) = SubSeq(t, a, b)
<1>1. CASE b = a - 1
  BY <1>1, SubSeqEmpty
<1>2. CASE b # a - 1
  <2>1. a \in 1..Len(t) /\ b \in 1..Len(t)
    BY <1>2
  <2> QED
    BY <2>1, SubSeqOfConcat1
<1> QED
  BY <1>1, <1>2

(* Appending text leaves the weights of the old prefixes as they were.     *)
LEMMA WeightOfConcat ==
  ASSUME NEW t \in Seq(Characters), NEW u \in Seq(Characters), NEW k \in 0..Len(t)
  PROVE  Weight(t \o u, k) = Weight(t, k)
<1>1. SubSeq(t \o u, 1, k) = SubSeq(t, 1, k)
  BY PieceOfConcat
<1> QED
  BY <1>1 DEF Weight

-----------------------------------------------------------------------------
(* Events that divide the end of a text between them.                      *)

Tiled(evs, w) ==
  /\ evs \in Seq(Event)
  /\ \A i \in 1..Len(evs) :
       /\ EndCursor(evs[i]) <= Len(w)
       /\ evs[i].text = SubSeq(w, evs[i].start, EndCursor(evs[i]))
       /\ evs[i].bytes = Bytes(evs[i].text)
       /\ EndCursor(evs[i]) + 1 =
            IF i = Len(evs) THEN Len(w) + 1 ELSE evs[i + 1].start

(* The cursor before the first event, and the last cursor of each.         *)
Bound(evs, i) == IF i = 0 THEN evs[1].start - 1 ELSE EndCursor(evs[i])

(* Events that tile a text follow one another from the first start to the  *)
(* end of the text, and each weighs what lies between its bounds.          *)
LEMMA Bounds ==
  ASSUME NEW w \in Seq(Characters), NEW evs, Tiled(evs, w), evs # <<>>
  PROVE  /\ Len(evs) \in Nat \ {0}
         /\ Bound(evs, Len(evs)) = Len(w)
         /\ \A i \in 0..Len(evs) : Bound(evs, i) \in 0..Len(w)
         /\ \A i \in 1..Len(evs) :
              /\ evs[i] \in Event
              /\ evs[i].start = Bound(evs, i - 1) + 1
              /\ EndCursor(evs[i]) = Bound(evs, i)
              /\ Bound(evs, i - 1) <= Bound(evs, i)
              /\ Len(evs[i].text) = Bound(evs, i) - Bound(evs, i - 1)
              /\ evs[i].text = SubSeq(w, Bound(evs, i - 1) + 1, Bound(evs, i))
              /\ evs[i].bytes = Weight(w, Bound(evs, i)) - Weight(w, Bound(evs, i - 1))
<1>1. Len(evs) \in Nat \ {0}
  BY EmptySeq DEF Tiled
<1>2. ASSUME NEW i \in 1..Len(evs)
      PROVE  /\ evs[i] \in Event
             /\ evs[i].start \in Nat \ {0}
             /\ Len(evs[i].text) \in Nat
             /\ EndCursor(evs[i]) = evs[i].start + Len(evs[i].text) - 1
             /\ EndCursor(evs[i]) \in 0..Len(w)
  <2>1. evs[i] \in Event
    BY ElementOfSeq DEF Tiled
  <2>2. evs[i].text \in Seq(Characters) /\ evs[i].start \in Nat \ {0}
    BY <2>1 DEF Event
  <2>3. Len(evs[i].text) \in Nat
    BY <2>2, LenProperties
  <2>4. EndCursor(evs[i]) <= Len(w)
    BY DEF Tiled
  <2> QED
    BY <2>1, <2>2, <2>3, <2>4 DEF EndCursor
<1>3. ASSUME NEW i \in 1..Len(evs)
      PROVE  evs[i].start = Bound(evs, i - 1) + 1
  <2>1. CASE i = 1
    BY <1>2, <2>1 DEF Bound
  <2>2. CASE i # 1
    <3>1. i - 1 \in 1..Len(evs) /\ i - 1 # Len(evs) /\ (i - 1) + 1 = i /\ i - 1 # 0
      BY <2>2
    <3>2. EndCursor(evs[i - 1]) + 1 = evs[i].start
      BY <3>1 DEF Tiled
    <3> QED
      BY <3>1, <3>2 DEF Bound
  <2> QED
    BY <2>1, <2>2
<1>4. \A i \in 1..Len(evs) : Bound(evs, i) = EndCursor(evs[i])
  BY DEF Bound
<1>5. Bound(evs, Len(evs)) = Len(w)
  <2>1. EndCursor(evs[Len(evs)]) + 1 = Len(w) + 1
    BY <1>1 DEF Tiled
  <2> QED
    BY <1>1, <1>2, <1>4, <2>1
<1>6. \A i \in 0..Len(evs) : Bound(evs, i) \in 0..Len(w)
  <2>1. \A i \in 1..Len(evs) : Bound(evs, i) \in 0..Len(w)
    BY <1>2, <1>4
  <2>2. Bound(evs, 0) \in 0..Len(w)
    <3>1. 1 \in 1..Len(evs)
      BY <1>1
    <3>2. /\ evs[1].start \in Nat \ {0} /\ Len(evs[1].text) \in Nat
          /\ evs[1].start + Len(evs[1].text) - 1 \in 0..Len(w)
      BY <1>2, <3>1
    <3>3. Bound(evs, 0) = evs[1].start - 1
      BY DEF Bound
    <3>4. PICK start, length : start = evs[1].start /\ length = Len(evs[1].text)
      OBVIOUS
    <3>5. start - 1 \in 0..Len(w)
      BY <3>2, <3>4
    <3> QED
      BY <3>3, <3>4, <3>5
  <2> QED
    BY <2>1, <2>2
<1>7. ASSUME NEW i \in 1..Len(evs)
      PROVE  /\ Bound(evs, i - 1) <= Bound(evs, i)
             /\ Len(evs[i].text) = Bound(evs, i) - Bound(evs, i - 1)
             /\ evs[i].text = SubSeq(w, Bound(evs, i - 1) + 1, Bound(evs, i))
             /\ evs[i].bytes = Weight(w, Bound(evs, i)) - Weight(w, Bound(evs, i - 1))
  <2>1. Bound(evs, i - 1) \in 0..Len(w) /\ Bound(evs, i) \in 0..Len(w)
    BY <1>6
  <2>2. /\ Bound(evs, i - 1) <= Bound(evs, i)
        /\ Len(evs[i].text) = Bound(evs, i) - Bound(evs, i - 1)
    <3>1. PICK from, start, length :
               from = Bound(evs, i - 1) /\ start = evs[i].start
            /\ length = Len(evs[i].text)
      OBVIOUS
    <3>2. from \in Nat /\ start \in Nat /\ length \in Nat /\ start = from + 1
      BY <1>2, <1>3, <2>1, <3>1
    <3>3. Bound(evs, i) = start + length - 1
      BY <1>2, <1>4, <3>1
    <3>4. from <= start + length - 1 /\ length = (start + length - 1) - from
      BY <3>2
    <3> QED
      BY <3>1, <3>3, <3>4
  <2>3. evs[i].text = SubSeq(w, Bound(evs, i - 1) + 1, Bound(evs, i))
    BY <1>3, <1>4 DEF Tiled
  <2>4. evs[i].bytes = Bytes(evs[i].text)
    BY DEF Tiled
  <2>5. Bytes(SubSeq(w, Bound(evs, i - 1) + 1, Bound(evs, i)))
          = Weight(w, Bound(evs, i)) - Weight(w, Bound(evs, i - 1))
    <3> DEFINE a == Bound(evs, i - 1) + 1
               b == Bound(evs, i)
    <3>1. a \in 1..(Len(w) + 1) /\ b \in (a - 1)..Len(w)
          /\ a - 1 = Bound(evs, i - 1)
      BY <2>1, <2>2
    <3> HIDE DEF a, b
    <3>2. Bytes(SubSeq(w, a, b)) = Weight(w, b) - Weight(w, a - 1)
      BY <3>1, BytesOfPiece
    <3> QED
      BY <3>1, <3>2 DEF a, b
  <2> QED
    BY <2>2, <2>3, <2>4, <2>5
<1> QED
  BY <1>1, <1>2, <1>3, <1>4, <1>5, <1>6, <1>7

(* The first k events weigh what lies between their bounds.                *)
LEMMA WeightOfEvents ==
  ASSUME NEW w \in Seq(Characters), NEW evs, Tiled(evs, w), evs # <<>>,
         NEW n \in 0..Len(evs)
  PROVE  Total([i \in 1..n |-> evs[i].bytes])
           = Weight(w, Bound(evs, n)) - Weight(w, Bound(evs, 0))
<1> DEFINE B(i) == Bound(evs, i)
           W(i) == Weight(w, B(i))
           s(k) == [i \in 1..k |-> evs[i].bytes]
           P == {k \in Nat : k <= Len(evs) => Total(s(k)) = W(k) - W(0)}
<1>1. \A i \in 0..Len(evs) : W(i) \in Nat
  BY Bounds, WeightType
<1>2. \A i \in 1..Len(evs) : evs[i].bytes = W(i) - W(i - 1) /\ evs[i].bytes \in Nat
  BY Bounds DEF Event
<1>3. Len(evs) \in Nat
  BY Bounds
<1>4. 0 \in P
  <2>1. s(0) \in [1..0 -> Nat]
    OBVIOUS
  <2>2. Total(s(0)) = 0
    BY <2>1, TotalOfNone
  <2> HIDE DEF s, W
  <2> QED
    BY <1>1, <1>3, <2>2
<1>5. ASSUME NEW k \in Nat, k \in P
      PROVE  k + 1 \in P
  <2> SUFFICES ASSUME k + 1 <= Len(evs)
               PROVE  Total(s(k + 1)) = W(k + 1) - W(0)
    OBVIOUS
  <2>1. s(k + 1) \in [1..(k + 1) -> Nat] /\ s(k) \in [1..k -> Nat]
    BY <1>2, <1>3
  <2>2. \A i \in 1..k : s(k + 1)[i] = s(k)[i]
    OBVIOUS
  <2>3. s(k + 1)[k + 1] = evs[k + 1].bytes
    OBVIOUS
  <2>4. Total(s(k)) = W(k) - W(0)
    BY <1>3, <1>5
  <2>5. evs[k + 1].bytes = W(k + 1) - W(k)
    BY <1>2, k + 1 - 1 = k
  <2>6. W(k + 1) \in Nat /\ W(k) \in Nat /\ W(0) \in Nat
    BY <1>1, <1>3
  <2> HIDE DEF s, W, P
  <2>7. Total(s(k + 1)) = Total(s(k)) + s(k + 1)[k + 1]
    BY <2>1, <2>2, TotalStep
  <2> QED
    BY <2>3, <2>4, <2>5, <2>6, <2>7
<1>6. n \in P
  <2> HIDE DEF P
  <2> QED
    BY <1>3, <1>4, <1>5, SetInduction
<1> QED
  BY <1>6

(* Prefixes and suffixes of a piece, and what they weigh.                  *)
LEMMA PrefixOfPiece ==
  ASSUME NEW w \in Seq(Characters), NEW a \in 0..Len(w), NEW b \in a..Len(w),
         NEW m \in 0..(b - a)
  PROVE  /\ Bytes(SubSeq(SubSeq(w, a + 1, b), 1, m)) = Weight(w, a + m) - Weight(w, a)
         /\ SubSeq(SubSeq(w, a + 1, b), 1, m) = SubSeq(w, a + 1, a + m)
         /\ Suffix(SubSeq(w, a + 1, b), m) = SubSeq(w, a + m + 1, b)
<1> DEFINE c == a + 1
<1>1. /\ c \in 1..(Len(w) + 1) /\ b \in (c - 1)..Len(w) /\ c - 1 = a
      /\ 1 \in 1..(b - c + 2) /\ m \in (1 - 1)..(b - c + 1)
      /\ m + 1 \in 1..(b - c + 2) /\ b - c + 1 \in ((m + 1) - 1)..(b - c + 1)
      /\ c + 1 - 1 = c /\ c + m - 1 = a + m /\ a + m \in (c - 1)..Len(w)
      /\ c + (m + 1) - 1 = a + m + 1 /\ c + (b - c + 1) - 1 = b
  OBVIOUS
<1> HIDE DEF c
<1>2. SubSeq(SubSeq(w, c, b), 1, m) = SubSeq(w, c, a + m)
  <2>1. SubSeq(SubSeq(w, c, b), 1, m) = SubSeq(w, c + 1 - 1, c + m - 1)
    BY <1>1, PieceOfPiece
  <2> QED
    BY <1>1, <2>1
<1>3. Bytes(SubSeq(w, c, a + m)) = Weight(w, a + m) - Weight(w, a)
  <2>1. Bytes(SubSeq(w, c, a + m)) = Weight(w, a + m) - Weight(w, c - 1)
    BY <1>1, BytesOfPiece
  <2> QED
    BY <1>1, <2>1
<1>4. Suffix(SubSeq(w, c, b), m) = SubSeq(w, a + m + 1, b)
  <2>1. Len(SubSeq(w, c, b)) = b - c + 1
    BY <1>1, PieceIs
  <2>2. SubSeq(SubSeq(w, c, b), m + 1, b - c + 1)
          = SubSeq(w, c + (m + 1) - 1, c + (b - c + 1) - 1)
    BY <1>1, PieceOfPiece
  <2> QED
    BY <1>1, <2>1, <2>2 DEF Suffix
<1> QED
  BY <1>2, <1>3, <1>4 DEF c

(* Of two cursors the one with less before it comes first.                 *)
LEMMA WeightsOrder ==
  ASSUME NEW w \in Seq(Characters), NEW i \in 0..Len(w), NEW j \in 0..Len(w)
  PROVE  /\ Weight(w, i) \in Nat /\ Weight(w, j) \in Nat
         /\ Weight(w, i) < Weight(w, j) <=> i < j
         /\ Weight(w, i) <= Weight(w, j) <=> i <= j
<1>1. Weight(w, i) \in Nat /\ Weight(w, j) \in Nat
  BY WeightType
<1>2. i < j => Weight(w, i) < Weight(w, j)
  BY WeightGrows
<1>3. j < i => Weight(w, j) < Weight(w, i)
  BY WeightGrows
<1> QED
  BY <1>1, <1>2, <1>3

(* An event that is cut loses the fewest characters that make up for the   *)
(* excess.                                                                 *)
LEMMA CutLoses ==
  ASSUME NEW w \in Seq(Characters), NEW a \in 0..Len(w), NEW b \in a..Len(w),
         NEW e \in Event, e.start = a + 1, e.text = SubSeq(w, a + 1, b),
         e.bytes = Weight(w, b) - Weight(w, a),
         NEW excess \in Nat, 0 < excess, excess < e.bytes
  PROVE  \E c \in (a + 1)..b :
           /\ Weight(w, c) - Weight(w, a) >= excess
           /\ Weight(w, c - 1) - Weight(w, a) < excess
           /\ Cut(e, excess) = [start |-> c + 1, stream |-> e.stream,
                                text |-> SubSeq(w, c + 1, b),
                                bytes |-> Weight(w, b) - Weight(w, c)]
<1> DEFINE Prefix(m) == Bytes(SubSeq(e.text, 1, m))
           Enough == {m \in 0..(b - a) : Prefix(m) >= excess}
           Loss(m) == Prefix(m) >= excess /\ Prefix(m - 1) < excess
           n == CHOOSE m \in 1..Len(e.text) : Loss(m)
<1>1. \A m \in 0..(b - a) : /\ Prefix(m) = Weight(w, a + m) - Weight(w, a)
                            /\ Suffix(e.text, m) = SubSeq(w, a + m + 1, b)
  BY PrefixOfPiece
<1>2. \A m \in 0..(b - a) : Weight(w, a + m) \in Nat
  BY WeightType
<1> HIDE DEF Prefix
<1>3. Len(e.text) = b - a
  <2>1. Len(SubSeq(w, a + 1, b)) = b - (a + 1) + 1
    BY PieceIs, a + 1 \in 1..(Len(w) + 1), b \in (a + 1 - 1)..Len(w)
  <2> QED
    BY <2>1
<1>4. \E m \in 1..(b - a) : Loss(m)
  <2>1. b - a \in Enough
    <3>1. Prefix(b - a) = Weight(w, a + (b - a)) - Weight(w, a)
      BY <1>1
    <3>2. a + (b - a) = b /\ b - a \in 0..(b - a)
      OBVIOUS
    <3>3. Weight(w, a) \in Nat /\ Weight(w, b) \in Nat
      BY WeightType
    <3>4. Prefix(b - a) = Weight(w, b) - Weight(w, a)
      BY <3>1, <3>2
    <3>5. Prefix(b - a) >= excess
      BY <3>3, <3>4
    <3> QED
      BY <3>2, <3>5
  <2>2. PICK m \in Enough : \A k \in Enough : m <= k
    <3>1. Enough \subseteq Nat /\ Enough # {}
      BY <2>1
    <3> HIDE DEF Enough
    <3> QED
      BY <3>1, Least
  <2>3. m # 0
    <3>1. Prefix(0) = 0
      <4>1. Prefix(0) = Weight(w, a + 0) - Weight(w, a) /\ Weight(w, a + 0) \in Nat
        <5>1. 0 \in 0..(b - a)
          OBVIOUS
        <5> QED
          BY <1>1, <1>2, <5>1
      <4>2. a + 0 = a
        OBVIOUS
      <4> HIDE DEF Enough, Loss, n
      <4> QED
        BY <4>1, <4>2
    <3> QED
      BY <3>1
  <2>4. m - 1 \in 0..(b - a) /\ m - 1 \notin Enough /\ m \in 1..(b - a)
    BY <2>2, <2>3
  <2>5. Prefix(m - 1) \in Int
    <3>1. /\ Prefix(m - 1) = Weight(w, a + (m - 1)) - Weight(w, a)
          /\ Weight(w, a + (m - 1)) \in Nat
      BY <1>1, <1>2, <2>4
    <3>2. Weight(w, a) \in Nat
      BY WeightType
    <3> QED
      BY <3>1, <3>2
  <2>6. Prefix(m - 1) < excess
    BY <2>4, <2>5
  <2> QED
    BY <2>2, <2>4, <2>6
<1> HIDE DEF Loss
<1>5. n \in 1..(b - a) /\ Loss(n)
  BY <1>3, <1>4
<1>6. Cut(e, excess) = [e EXCEPT !.start = @ + n, !.text = Suffix(@, n),
                                 !.bytes = @ - Bytes(SubSeq(e.text, 1, n))]
  BY DEF Cut, Loss, Prefix
<1> HIDE DEF n
<1>7. Cut(e, excess) = [start |-> a + 1 + n, stream |-> e.stream,
                        text |-> Suffix(e.text, n), bytes |-> e.bytes - Prefix(n)]
  BY <1>6 DEF Event, Prefix
<1> DEFINE c == a + n
<1>8. c \in (a + 1)..b /\ a + 1 + n = c + 1 /\ a + n + 1 = c + 1 /\ a + (n - 1) = c - 1
  BY <1>5
<1>9. /\ Prefix(n) = Weight(w, c) - Weight(w, a)
      /\ Prefix(n - 1) = Weight(w, c - 1) - Weight(w, a)
      /\ Suffix(e.text, n) = SubSeq(w, c + 1, b)
  <2>1. n \in 0..(b - a) /\ n - 1 \in 0..(b - a)
    BY <1>5
  <2>2. /\ Prefix(n) = Weight(w, a + n) - Weight(w, a)
        /\ Prefix(n - 1) = Weight(w, a + (n - 1)) - Weight(w, a)
        /\ Suffix(e.text, n) = SubSeq(w, a + n + 1, b)
    BY <1>1, <2>1
  <2> QED
    BY <1>8, <2>2
<1>10. Weight(w, a) \in Nat /\ Weight(w, b) \in Nat /\ Weight(w, c) \in Nat
  BY <1>8, WeightType
<1>11. e.bytes - Prefix(n) = Weight(w, b) - Weight(w, c)
  BY <1>9, <1>10
<1>12. Prefix(n) >= excess /\ Prefix(n - 1) < excess
  BY <1>5 DEF Loss
<1> HIDE DEF c
<1> QED
  <2>1. Weight(w, c) - Weight(w, a) >= excess /\ Weight(w, c - 1) - Weight(w, a) < excess
    BY <1>9, <1>12
  <2>2. Cut(e, excess) = [start |-> c + 1, stream |-> e.stream,
                          text |-> SubSeq(w, c + 1, b),
                          bytes |-> Weight(w, b) - Weight(w, c)]
    BY <1>7, <1>8, <1>9, <1>11
  <2> QED
    BY <1>8, <2>1, <2>2

(* The events that leave whole: each was more than the limit allows, and   *)
(* the one after them is not.                                              *)
LEMMA WholeGoneIs ==
  ASSUME NEW w \in Seq(Characters), NEW evs, Tiled(evs, w), evs # <<>>,
         NEW bytes, bytes = Weight(w, Len(w)) - Weight(w, Bound(evs, 0)),
         NEW k, k = WholeGone(evs, bytes)
  PROVE  LET W(i) == Weight(w, Bound(evs, i))
             N == Len(evs)
         IN  /\ k \in 0..N /\ k < N
             /\ \A i \in 0..N : W(i) \in Nat
             /\ LeftAfter(evs, bytes, k) = W(N) - W(k)
             /\ k > 0 => W(N) - W(k - 1) > OutputLimit /\ W(N) - W(k) >= OutputLimit
             /\ W(N) - W(k) <= OutputLimit \/ W(N) - W(k + 1) < OutputLimit
<1> DEFINE N == Len(evs)
           W == [i \in 0..N |-> Weight(w, Bound(evs, i))]
           Left(i) == LeftAfter(evs, bytes, i)
           Goes(i) == LET excess == LeftAfter(evs, bytes, i - 1) - OutputLimit
                      IN  excess > 0 /\ evs[i].bytes <= excess
           Stop(m) == (\A i \in 1..m : Goes(i)) /\ (m < N => ~Goes(m + 1))
<1>1. N \in Nat \ {0} /\ OutputLimit \in Nat /\ OutputLimit >= 4
  BY Bounds, OutputAssumption
<1>2. \A i \in 0..N : W[i] \in Nat
  BY Bounds, WeightType
<1>3. \A i \in 0..N : Left(i) = W[N] - W[i]
  <2> SUFFICES ASSUME NEW i \in 0..N
               PROVE  Left(i) = W[N] - W[i]
    OBVIOUS
  <2>1. Total([j \in 1..i |-> evs[j].bytes]) = W[i] - W[0]
    <3>1. Total([j \in 1..i |-> evs[j].bytes])
            = Weight(w, Bound(evs, i)) - Weight(w, Bound(evs, 0))
      BY WeightOfEvents
    <3> QED
      BY <1>1, <3>1
  <2>2. bytes = W[N] - W[0]
    <3>1. Bound(evs, N) = Len(w)
      BY Bounds
    <3> QED
      BY <1>1, <3>1
  <2>3. W[i] \in Nat /\ W[0] \in Nat /\ W[N] \in Nat
    BY <1>1, <1>2
  <2> QED
    BY <2>1, <2>2, <2>3 DEF LeftAfter
<1>4. \A i \in 1..N : evs[i].bytes = W[i] - W[i - 1]
  BY <1>1, Bounds
<1> HIDE DEF Left
<1>5. \A i \in 1..N : Goes(i) <=> /\ W[N] - W[i - 1] > OutputLimit
                                  /\ W[N] - W[i] >= OutputLimit
  <2> SUFFICES ASSUME NEW i \in 1..N
               PROVE  Goes(i) <=> /\ W[N] - W[i - 1] > OutputLimit
                                  /\ W[N] - W[i] >= OutputLimit
    OBVIOUS
  <2>1. i - 1 \in 0..N
    BY <1>1
  <2>2. Left(i - 1) = W[N] - W[i - 1] /\ evs[i].bytes = W[i] - W[i - 1]
    BY <1>3, <1>4, <2>1
  <2>3. W[i - 1] \in Nat /\ W[i] \in Nat /\ W[N] \in Nat
    BY <1>1, <1>2, <2>1
  <2>4. Goes(i) <=> Left(i - 1) - OutputLimit > 0
                    /\ evs[i].bytes <= Left(i - 1) - OutputLimit
    BY DEF Left
  <2> HIDE DEF Goes
  <2> QED
    BY <1>1, <2>2, <2>3, <2>4
<1>6. k = CHOOSE m \in 0..N : Stop(m)
  BY DEF WholeGone
<1> HIDE DEF Goes
<1>7. \E m \in 0..N : Stop(m)
  <2> DEFINE Stops == {m \in 0..N : m = N \/ ~Goes(m + 1)}
  <2>1. Stops \subseteq Nat /\ N \in Stops
    BY <1>1
  <2>2. PICK m \in Stops : \A i \in Stops : m <= i
    <3> HIDE DEF Stops
    <3> QED
      BY <2>1, Least
  <2>3. ASSUME NEW i \in 1..m
        PROVE  Goes(i)
    <3>1. i - 1 \in 0..N /\ i - 1 # N /\ ~(m <= i - 1) /\ (i - 1) + 1 = i
      BY <1>1
    <3>2. i - 1 \notin Stops
      BY <2>2, <3>1
    <3> QED
      BY <3>1, <3>2
  <2>4. m < N => ~Goes(m + 1)
    BY <1>1
  <2> QED
    BY <2>3, <2>4
<1> HIDE DEF Stop
<1>8. k \in 0..N /\ Stop(k)
  BY <1>6, <1>7
<1>9. k > 0 => Goes(k)
  BY <1>1, <1>8 DEF Stop
<1>10. k < N
  <2> SUFFICES ASSUME k = N
               PROVE  FALSE
    BY <1>1, <1>8
  <2>1. W[N] - W[N] >= OutputLimit
    <3>1. N \in 1..N /\ k > 0
      BY <1>1
    <3> QED
      BY <1>5, <1>9, <3>1
  <2>2. W[N] \in Nat
    BY <1>1, <1>2
  <2> QED
    BY <1>1, <2>1, <2>2
<1>11. ~Goes(k + 1)
  BY <1>8, <1>10 DEF Stop
<1>12. k > 0 => /\ W[N] - W[k - 1] > OutputLimit
                /\ W[N] - W[k] >= OutputLimit
  <2>1. k > 0 => k \in 1..N
    BY <1>1, <1>8
  <2> HIDE DEF N
  <2> QED
    BY <1>5, <1>9, <2>1
<1>13. \/ W[N] - W[k] <= OutputLimit
       \/ W[N] - W[k + 1] < OutputLimit
  <2>1. k + 1 \in 1..N /\ (k + 1) - 1 = k /\ k \in 0..N /\ k + 1 \in 0..N
    BY <1>1, <1>8, <1>10
  <2>2. ~(W[N] - W[k] > OutputLimit /\ W[N] - W[k + 1] >= OutputLimit)
    BY <1>5, <1>11, <2>1
  <2>3. W[k] \in Nat /\ W[k + 1] \in Nat /\ W[N] \in Nat
    BY <1>1, <1>2, <2>1
  <2> QED
    BY <1>1, <2>2, <2>3
<1>14. \A i \in 0..N : W[i] = Weight(w, Bound(evs, i))
  OBVIOUS
<1>15. /\ N \in 0..N /\ k \in 0..N /\ k + 1 \in 0..N
       /\ k > 0 => k - 1 \in 0..N
  BY <1>1, <1>8, <1>10
<1>16. LeftAfter(evs, bytes, k) = W[N] - W[k]
  BY <1>3, <1>8 DEF Left
<1> HIDE DEF W, N
<1> QED
  BY <1>2, <1>8, <1>10, <1>12, <1>13, <1>14, <1>15, <1>16 DEF N

(* Without the first k events the rest still tiles the end of the text.    *)
LEMMA TiledSuffix ==
  ASSUME NEW w \in Seq(Characters), NEW evs, Tiled(evs, w), evs # <<>>,
         NEW k \in 0..Len(evs), k < Len(evs),
         NEW rest, rest = Suffix(evs, k)
  PROVE  /\ Tiled(rest, w)
         /\ Len(rest) = Len(evs) - k
         /\ rest # <<>>
         /\ rest[1] = evs[k + 1]
<1>1. evs \in Seq(Event) /\ Len(evs) \in Nat
  BY LenProperties DEF Tiled
<1>2. /\ rest \in Seq(Event) /\ Len(rest) = Len(evs) - k
      /\ \A i \in 1..(Len(evs) - k) : rest[i] = evs[k + i]
  <2>1. k + 1 \in 1..(Len(evs) + 1) /\ Len(evs) \in ((k + 1) - 1)..Len(evs)
    BY <1>1
  <2>2. /\ SubSeq(evs, k + 1, Len(evs)) \in Seq(Event)
        /\ Len(SubSeq(evs, k + 1, Len(evs))) = Len(evs) - (k + 1) + 1
        /\ \A i \in 1..(Len(evs) - (k + 1) + 1) :
             SubSeq(evs, k + 1, Len(evs))[i] = evs[(k + 1) + i - 1]
    BY <1>1, <2>1, PieceIs
  <2>3. Len(evs) - (k + 1) + 1 = Len(evs) - k
        /\ \A i \in 1..(Len(evs) - k) : (k + 1) + i - 1 = k + i
    BY <1>1
  <2> QED
    BY <2>2, <2>3 DEF Suffix
<1>3. Len(rest) # 0
  BY <1>1, <1>2
<1>4. rest # <<>>
  BY <1>3, EmptySeq
<1>5. ASSUME NEW i \in 1..Len(rest)
      PROVE  /\ EndCursor(rest[i]) <= Len(w)
             /\ rest[i].text = SubSeq(w, rest[i].start, EndCursor(rest[i]))
             /\ rest[i].bytes = Bytes(rest[i].text)
             /\ EndCursor(rest[i]) + 1 =
                  IF i = Len(rest) THEN Len(w) + 1 ELSE rest[i + 1].start
  <2>1. k + i \in 1..Len(evs) /\ rest[i] = evs[k + i]
        /\ (i = Len(rest) <=> k + i = Len(evs))
    BY <1>1, <1>2
  <2>2. i # Len(rest) => rest[i + 1] = evs[(k + i) + 1]
    <3> SUFFICES ASSUME i # Len(rest)
                 PROVE  rest[i + 1] = evs[(k + i) + 1]
      OBVIOUS
    <3>1. i + 1 \in 1..(Len(evs) - k) /\ k + (i + 1) = (k + i) + 1
      <4>1. i \in 1..(Len(evs) - k) /\ i # Len(evs) - k
        BY <1>2
      <4> QED
        BY <1>1, <4>1
    <3> QED
      BY <1>2, <3>1
  <2>3. /\ EndCursor(evs[k + i]) <= Len(w)
        /\ evs[k + i].text = SubSeq(w, evs[k + i].start, EndCursor(evs[k + i]))
        /\ evs[k + i].bytes = Bytes(evs[k + i].text)
        /\ EndCursor(evs[k + i]) + 1 =
             IF k + i = Len(evs) THEN Len(w) + 1 ELSE evs[(k + i) + 1].start
    BY <2>1 DEF Tiled
  <2> QED
    BY <2>1, <2>2, <2>3
<1>6. rest[1] = evs[k + 1]
  BY <1>1, <1>2
<1> QED
  BY <1>2, <1>4, <1>5, <1>6 DEF Tiled

(* And so it does with the first event cut short at some cursor.           *)
LEMMA TiledCut ==
  ASSUME NEW w \in Seq(Characters), NEW evs, Tiled(evs, w), evs # <<>>,
         NEW c \in 0..Len(w), Bound(evs, 0) <= c, c <= Bound(evs, 1),
         NEW e, e = [start |-> c + 1, stream |-> evs[1].stream,
                     text |-> SubSeq(w, c + 1, Bound(evs, 1)),
                     bytes |-> Weight(w, Bound(evs, 1)) - Weight(w, c)]
  PROVE  Tiled([evs EXCEPT ![1] = e], w)
<1> DEFINE b == Bound(evs, 1)
           new == [evs EXCEPT ![1] = e]
<1>1. /\ Len(evs) \in Nat \ {0} /\ 1 \in 1..Len(evs) /\ 1 \in 0..Len(evs)
      /\ evs[1] \in Event /\ EndCursor(evs[1]) = b
  BY Bounds
<1>2. b \in 0..Len(w)
  BY <1>1, Bounds
<1>3. /\ SubSeq(w, c + 1, b) \in Seq(Characters)
      /\ Len(SubSeq(w, c + 1, b)) = b - c
      /\ Bytes(SubSeq(w, c + 1, b)) = Weight(w, b) - Weight(w, c)
  <2> DEFINE a == c + 1
  <2>1. a \in 1..(Len(w) + 1) /\ b \in (a - 1)..Len(w) /\ a - 1 = c
        /\ b - a + 1 = b - c
    BY <1>2
  <2> HIDE DEF a, b
  <2>2. SubSeq(w, a, b) \in Seq(Characters) /\ Len(SubSeq(w, a, b)) = b - a + 1
    BY <2>1, PieceIs
  <2>3. Bytes(SubSeq(w, a, b)) = Weight(w, b) - Weight(w, a - 1)
    BY <2>1, BytesOfPiece
  <2> QED
    BY <2>1, <2>2, <2>3 DEF a
<1>4. EndCursor(e) = b
  BY <1>2, <1>3 DEF EndCursor
<1>5. Weight(w, b) - Weight(w, c) \in Nat
  BY <1>2, WeightsOrder
<1>6. e \in Event
  <2>1. /\ e.start \in Nat \ {0} /\ e.stream \in Streams
        /\ e.text \in Seq(Characters) /\ e.bytes \in Nat
    BY <1>1, <1>3, <1>5 DEF Event
  <2>2. e = [start |-> e.start, stream |-> e.stream, text |-> e.text,
             bytes |-> e.bytes]
    BY <1>1 DEF Event
  <2> QED
    BY <2>1, <2>2 DEF Event
<1> HIDE DEF b
<1>7. evs \in Seq(Event)
  BY DEF Tiled
<1>8. /\ new \in Seq(Event) /\ Len(new) = Len(evs)
      /\ new[1] = e
      /\ \A i \in 2..Len(evs) : new[i] = evs[i]
  <2>1. /\ new \in Seq(Event) /\ Len(new) = Len(evs)
        /\ \A i \in 1..Len(evs) : new[i] = IF i = 1 THEN e ELSE evs[i]
    BY <1>1, <1>6, <1>7, ExceptSeq
  <2> HIDE DEF new
  <2>2. \A i \in 2..Len(evs) : i \in 1..Len(evs) /\ i # 1
    BY <1>1
  <2> QED
    BY <1>1, <2>1, <2>2
<1> HIDE DEF new
<1>9. ASSUME NEW i \in 1..Len(new)
      PROVE  /\ EndCursor(new[i]) <= Len(w)
             /\ new[i].text = SubSeq(w, new[i].start, EndCursor(new[i]))
             /\ new[i].bytes = Bytes(new[i].text)
             /\ EndCursor(new[i]) + 1 =
                  IF i = Len(new) THEN Len(w) + 1 ELSE new[i + 1].start
  <2>1. /\ EndCursor(evs[i]) <= Len(w)
        /\ evs[i].text = SubSeq(w, evs[i].start, EndCursor(evs[i]))
        /\ evs[i].bytes = Bytes(evs[i].text)
        /\ EndCursor(evs[i]) + 1 =
             IF i = Len(evs) THEN Len(w) + 1 ELSE evs[i + 1].start
    BY <1>8 DEF Tiled
  <2>2. i # Len(new) => new[i + 1] = evs[i + 1]
    BY <1>1, <1>8
  <2>3. CASE i = 1
    <3>1. e.start = c + 1 /\ e.text = SubSeq(w, c + 1, b)
          /\ e.bytes = Weight(w, b) - Weight(w, c)
      BY DEF b
    <3> QED
      BY <1>1, <1>3, <1>4, <1>8, <2>1, <2>2, <2>3, <3>1
  <2>4. CASE i # 1
    <3>1. new[i] = evs[i]
      BY <1>1, <1>8, <2>4
    <3> QED
      BY <1>8, <2>1, <2>2, <3>1
  <2> QED
    BY <2>3, <2>4
<1> QED
  BY <1>8, <1>9 DEF Tiled, new

(* Bounds follow each other.                                               *)
LEMMA BoundsOrder ==
  ASSUME NEW w \in Seq(Characters), NEW evs, Tiled(evs, w), evs # <<>>,
         NEW k \in 0..Len(evs), NEW m \in 0..k
  PROVE  Bound(evs, m) <= Bound(evs, k)
<1> DEFINE P == {i \in Nat : m + i <= Len(evs) => Bound(evs, m) <= Bound(evs, m + i)}
<1>1. /\ Len(evs) \in Nat
      /\ \A i \in 0..Len(evs) : Bound(evs, i) \in Nat
      /\ \A i \in 1..Len(evs) : Bound(evs, i - 1) <= Bound(evs, i)
  <2>1. Len(w) \in Nat
    BY LenProperties
  <2> QED
    BY <2>1, Bounds
<1>2. 0 \in P
  BY <1>1, m + 0 = m
<1>3. ASSUME NEW i \in Nat, i \in P
      PROVE  i + 1 \in P
  <2> SUFFICES ASSUME m + (i + 1) <= Len(evs)
               PROVE  Bound(evs, m) <= Bound(evs, m + (i + 1))
    OBVIOUS
  <2> DEFINE j == m + (i + 1)
  <2>1. j \in 1..Len(evs) /\ j - 1 = m + i /\ m + i \in 0..Len(evs) /\ m \in 0..Len(evs)
        /\ j \in 0..Len(evs)
    BY <1>1
  <2>2. Bound(evs, m) <= Bound(evs, m + i)
    BY <1>3, <2>1
  <2> HIDE DEF j
  <2>3. Bound(evs, m + i) <= Bound(evs, j)
    BY <1>1, <2>1
  <2>4. Bound(evs, m) \in Nat /\ Bound(evs, m + i) \in Nat /\ Bound(evs, j) \in Nat
    BY <1>1, <2>1
  <2> HIDE DEF P
  <2>5. Bound(evs, m) <= Bound(evs, j)
    BY <2>2, <2>3, <2>4
  <2> QED
    BY <2>5 DEF j
<1>4. k - m \in Nat
  BY <1>1
<1>5. k - m \in P
  <2> HIDE DEF P
  <2> QED
    BY <1>2, <1>3, <1>4, SetInduction
<1> QED
  BY <1>1, <1>5, m + (k - m) = k

(* How far trimming goes: the k events up to cursor a leave whole, and     *)
(* "left" bytes remain; the next event, up to cursor b, is cut if that is  *)
(* still too much.                                                         *)
TrimmedAt(w, evs, bytes, f, k, a, b, left) ==
  LET rest == Suffix(evs, k)
      e    == Cut(rest[1], left - OutputLimit)
  IN  /\ f \in 0..Len(w) /\ a <= b
      /\ left = Weight(w, Len(w)) - Weight(w, a)
      /\ Tiled(rest, w) /\ rest # <<>> /\ 1 \in DOMAIN rest
      /\ Bound(rest, 0) = a /\ Bound(rest, 1) = b
      /\ left <= OutputLimit \/ Weight(w, Len(w)) - Weight(w, b) < OutputLimit
      /\ k = 0 => a = f
      /\ k > 0 => \E p \in f..a : /\ Weight(w, Len(w)) - Weight(w, p) > OutputLimit
                                  /\ left >= OutputLimit
      /\ Trimmed(evs, bytes) =
           IF left <= OutputLimit
           THEN [events |-> rest, bytes |-> left, cut |-> k > 0]
           ELSE [events |-> [rest EXCEPT ![1] = e],
                 bytes |-> left - rest[1].bytes + e.bytes, cut |-> TRUE]

(* What _trim_output_locked does to events that tile the end of a text.    *)
LEMMA TrimmedIs ==
  ASSUME NEW w \in Seq(Characters), NEW evs, Tiled(evs, w), evs # <<>>,
         NEW bytes, bytes = Weight(w, Len(w)) - Weight(w, evs[1].start - 1),
         NEW f, f = evs[1].start - 1
  PROVE  \E k \in 0..Len(evs), a \in f..Len(w), b \in f..Len(w), left \in Int :
           TrimmedAt(w, evs, bytes, f, k, a, b, left)
<1> DEFINE B == [i \in 0..Len(evs) |-> Bound(evs, i)]
<1>1. Bound(evs, 0) = f
  BY DEF Bound
<1>2. PICK k : k = WholeGone(evs, bytes)
  OBVIOUS
<1>4. \A i \in 0..Len(evs) : Bound(evs, i) = B[i]
  OBVIOUS
<1>5. Len(evs) \in Nat \ {0}
  BY Bounds
<1>6. /\ B[0] = f /\ B[Len(evs)] = Len(w)
      /\ \A i \in 0..Len(evs) : B[i] \in 0..Len(w)
  <2>1. /\ Bound(evs, Len(evs)) = Len(w)
        /\ \A i \in 0..Len(evs) : Bound(evs, i) \in 0..Len(w)
    BY Bounds
  <2> QED
    BY <1>1, <1>5, <2>1
<1>7. \A i \in 0..Len(evs), j \in 0..Len(evs) : i <= j => B[i] <= B[j]
  <2> SUFFICES ASSUME NEW i \in 0..Len(evs), NEW j \in 0..Len(evs), i <= j
               PROVE  Bound(evs, i) <= Bound(evs, j)
    OBVIOUS
  <2>1. i \in 0..j
    BY <1>5
  <2> QED
    BY <2>1, BoundsOrder
<1>8. LET W(i) == Weight(w, Bound(evs, i))
          N == Len(evs)
      IN  /\ k \in 0..N /\ k < N
          /\ \A i \in 0..N : W(i) \in Nat
          /\ LeftAfter(evs, bytes, k) = W(N) - W(k)
          /\ k > 0 => W(N) - W(k - 1) > OutputLimit /\ W(N) - W(k) >= OutputLimit
          /\ W(N) - W(k) <= OutputLimit \/ W(N) - W(k + 1) < OutputLimit
  <2>1. bytes = Weight(w, Len(w)) - Weight(w, Bound(evs, 0))
    BY <1>1
  <2> HIDE DEF B
  <2> QED
    BY <1>2, <2>1, WholeGoneIs
<1> DEFINE a == B[k]
           b == B[k + 1]
           left == LeftAfter(evs, bytes, k)
           rest == Suffix(evs, k)
<1>9. k \in 0..Len(evs) /\ k + 1 \in 0..Len(evs) /\ Len(evs) \in 0..Len(evs)
      /\ 0 \in 0..Len(evs) /\ k + 1 \in 1..Len(evs) /\ k + 1 - 1 = k
      /\ (k > 0 => k - 1 \in 0..Len(evs)) /\ k - 1 <= k
  BY <1>5, <1>8
<1>10. f \in 0..Len(w) /\ a \in f..Len(w) /\ b \in f..Len(w) /\ a <= b /\ Len(w) \in Nat
  <2>1. f <= a /\ f <= b /\ a <= b
    BY <1>6, <1>7, <1>8, <1>9
  <2>2. Len(w) \in Nat
    BY LenProperties
  <2> HIDE DEF B
  <2> QED
    BY <1>6, <1>9, <2>1, <2>2
<1>11. left = Weight(w, Len(w)) - Weight(w, a) /\ left \in Int
  <2>1. Bound(evs, k) = a /\ Bound(evs, Len(evs)) = Len(w)
    BY <1>4, <1>6, <1>9
  <2>2. left = Weight(w, Bound(evs, Len(evs))) - Weight(w, Bound(evs, k))
    BY <1>8
  <2> HIDE DEF left, a
  <2>3. Weight(w, Len(w)) \in Nat /\ Weight(w, a) \in Nat
    <3>1. a \in 0..Len(w) /\ Len(w) \in 0..Len(w)
      BY <1>10
    <3> QED
      BY <3>1, WeightType
  <2> QED
    BY <2>1, <2>2, <2>3
<1>12. left <= OutputLimit \/ Weight(w, Len(w)) - Weight(w, b) < OutputLimit
  <2> HIDE DEF B
  <2> QED
    BY <1>4, <1>6, <1>8, <1>9
<1>13. k > 0 => \E p \in f..a : /\ Weight(w, Len(w)) - Weight(w, p) > OutputLimit
                                /\ left >= OutputLimit
  <2> SUFFICES ASSUME k > 0
               PROVE  \E p \in f..a : /\ Weight(w, Len(w)) - Weight(w, p) > OutputLimit
                                      /\ left >= OutputLimit
    OBVIOUS
  <2> DEFINE p == B[k - 1]
  <2>1. k - 1 \in 0..Len(evs) /\ 0 <= k - 1
    BY <1>9, <1>8
  <2>2. f <= p /\ p <= a /\ p \in Int
    <3> HIDE DEF B
    <3> QED
      BY <1>6, <1>7, <1>9, <2>1
  <2>3. Weight(w, Len(w)) - Weight(w, p) > OutputLimit
    <3> HIDE DEF B
    <3> QED
      BY <1>4, <1>6, <1>8, <1>9, <2>1
  <2>4. left >= OutputLimit
    BY <1>8
  <2>5. p \in f..a
    BY <1>10, <2>2
  <2> QED
    BY <2>3, <2>4, <2>5
<1>14. k = 0 => a = f
  BY <1>6
<1>15. Tiled(rest, w) /\ rest # <<>> /\ Len(rest) = Len(evs) - k /\ rest[1] = evs[k + 1]
  BY <1>8, TiledSuffix
<1>16. 1 \in DOMAIN rest
  <2>1. rest \in Seq(Event)
    BY <1>15 DEF Tiled
  <2> HIDE DEF rest
  <2>2. DOMAIN rest = 1..Len(rest)
    BY <2>1, LenProperties
  <2> QED
    BY <1>5, <1>8, <1>15, <2>2
<1>17. Bound(rest, 0) = a /\ Bound(rest, 1) = b
  <2>1. evs[k + 1].start = Bound(evs, k) + 1 /\ EndCursor(evs[k + 1]) = Bound(evs, k + 1)
    <3>1. /\ evs[k + 1].start = Bound(evs, (k + 1) - 1) + 1
          /\ EndCursor(evs[k + 1]) = Bound(evs, k + 1)
      <4> DEFINE j == k + 1
      <4>1. j \in 1..Len(evs)
        BY <1>9
      <4> HIDE DEF B, a, b, left, rest, j
      <4>2. evs[j].start = Bound(evs, j - 1) + 1 /\ EndCursor(evs[j]) = Bound(evs, j)
        BY <4>1, Bounds
      <4> QED
        BY <4>2 DEF j
    <3> QED
      BY <1>9, <3>1
  <2>2. a = Bound(evs, k) /\ b = Bound(evs, k + 1)
    BY <1>9
  <2>3. Bound(rest, 0) = rest[1].start - 1 /\ Bound(rest, 1) = EndCursor(rest[1])
    BY DEF Bound
  <2>4. a \in Int
    BY <1>10
  <2> HIDE DEF a, b, rest
  <2> QED
    BY <1>15, <2>1, <2>2, <2>3, <2>4
<1>18. Trimmed(evs, bytes) =
         IF left <= OutputLimit
         THEN [events |-> rest, bytes |-> left, cut |-> k > 0]
         ELSE LET e == Cut(rest[1], left - OutputLimit)
              IN  [events |-> [rest EXCEPT ![1] = e],
                   bytes |-> left - rest[1].bytes + e.bytes, cut |-> TRUE]
  BY <1>2, <1>15 DEF Trimmed
<1> HIDE DEF a, b, left, rest
<1>19. /\ f \in 0..Len(w) /\ a <= b
       /\ left = Weight(w, Len(w)) - Weight(w, a)
       /\ Tiled(rest, w) /\ rest # <<>> /\ 1 \in DOMAIN rest
       /\ Bound(rest, 0) = a /\ Bound(rest, 1) = b
       /\ left <= OutputLimit \/ Weight(w, Len(w)) - Weight(w, b) < OutputLimit
       /\ k = 0 => a = f
       /\ k > 0 => \E p \in f..a : /\ Weight(w, Len(w)) - Weight(w, p) > OutputLimit
                                   /\ left >= OutputLimit
  BY <1>10, <1>11, <1>12, <1>13, <1>14, <1>15, <1>16, <1>17
<1> QED
  <2>1. k \in 0..Len(evs) /\ a \in f..Len(w) /\ b \in f..Len(w) /\ left \in Int
    BY <1>9, <1>10, <1>11
  <2> USE <2>1
  <2> WITNESS k \in 0..Len(evs), a \in f..Len(w), b \in f..Len(w), left \in Int
  <2> QED
    BY <1>18, <1>19 DEF rest, TrimmedAt

(* What trimming leaves: still the end of the text, no more than the limit *)
(* allows, and with the last character that went it was more.              *)
LEMMA TrimmedKeeps ==
  ASSUME NEW w \in Seq(Characters), NEW evs, Tiled(evs, w), evs # <<>>,
         NEW bytes, bytes = Weight(w, Len(w)) - Weight(w, evs[1].start - 1),
         NEW r, r = Trimmed(evs, bytes)
  PROVE  /\ Tiled(r.events, w) /\ r.events # <<>>
         /\ r.bytes = Weight(w, Len(w)) - Weight(w, r.events[1].start - 1)
         /\ r.bytes \in 0..OutputLimit
         /\ r.cut \in BOOLEAN
         /\ r.cut => /\ r.events[1].start > evs[1].start
                     /\ r.bytes + WidthOf(w[r.events[1].start - 1]) > OutputLimit
         /\ ~r.cut => r.events[1].start = evs[1].start
<1>1. PICK f : f = evs[1].start - 1
  OBVIOUS
<1>2. PICK k \in 0..Len(evs), a \in f..Len(w), b \in f..Len(w), left \in Int :
        TrimmedAt(w, evs, bytes, f, k, a, b, left)
  BY <1>1, TrimmedIs
<1>20. PICK rest : rest = Suffix(evs, k)
  OBVIOUS
<1>3. Len(w) \in Nat /\ Len(evs) \in Nat /\ OutputLimit \in Nat
  BY LenProperties, Bounds, OutputAssumption
<1>8. Tiled(rest, w) /\ rest # <<>> /\ 1 \in DOMAIN rest
  BY <1>2, <1>20, Zenon DEF TrimmedAt
<1>21. Bound(rest, 0) = a /\ Bound(rest, 1) = b
  BY <1>2, <1>20, Zenon DEF TrimmedAt
<1>22. f \in 0..Len(w) /\ a <= b
  BY <1>2, <1>20, Zenon DEF TrimmedAt
<1>4. /\ f \in 0..Len(w) /\ a \in 0..Len(w) /\ b \in a..Len(w) /\ b \in 0..Len(w)
      /\ Len(w) \in 0..Len(w) /\ f <= a /\ k \in Nat
  BY <1>22, <1>3
<1>5. \A c \in 0..Len(w) : Weight(w, c) \in Nat
  BY WeightType
<1>6. evs[1].start = f + 1
  <2>1. evs[1].start \in Nat
    <3>1. 1 \in 1..Len(evs)
      BY Bounds
    <3>2. evs[1] \in Event
      BY <3>1, Bounds
    <3> QED
      BY <3>2 DEF Event
  <2> QED
    BY <1>1, <2>1
<1>7. /\ rest[1] \in Event /\ rest[1].start = a + 1
      /\ rest[1].text = SubSeq(w, a + 1, b)
      /\ rest[1].bytes = Weight(w, b) - Weight(w, a)
  <2>1. PICK i : i = 1
    OBVIOUS
  <2>2. i \in 1..Len(rest) /\ i - 1 = 0
    BY <1>8, <2>1, Bounds
  <2>3. /\ rest[i] \in Event
        /\ rest[i].start = Bound(rest, i - 1) + 1
        /\ rest[i].text = SubSeq(w, Bound(rest, i - 1) + 1, Bound(rest, i))
        /\ rest[i].bytes = Weight(w, Bound(rest, i)) - Weight(w, Bound(rest, i - 1))
    BY <1>8, <2>2, Bounds
  <2> QED
    BY <1>21, <2>1, <2>2, <2>3
<1>9. r = IF left <= OutputLimit
          THEN [events |-> rest, bytes |-> left, cut |-> k > 0]
          ELSE [events |-> [rest EXCEPT ![1] = Cut(rest[1], left - OutputLimit)],
                bytes |-> left - rest[1].bytes
                            + Cut(rest[1], left - OutputLimit).bytes, cut |-> TRUE]
  BY <1>2, <1>20, Zenon DEF TrimmedAt
<1>10. left = Weight(w, Len(w)) - Weight(w, a)
  BY <1>2, Zenon DEF TrimmedAt
<1>11. left <= OutputLimit \/ Weight(w, Len(w)) - Weight(w, b) < OutputLimit
  BY <1>2, Zenon DEF TrimmedAt
<1>12. ASSUME k = 0
       PROVE  a = f
  BY <1>2, <1>12, Zenon DEF TrimmedAt
<1>13. ASSUME k > 0
       PROVE  \E p \in f..a : /\ Weight(w, Len(w)) - Weight(w, p) > OutputLimit
                              /\ left >= OutputLimit
  BY <1>2, <1>13, Zenon DEF TrimmedAt
<1>23. PICK va : va = Weight(w, a)
  OBVIOUS
<1>24. PICK vb : vb = Weight(w, b)
  OBVIOUS
<1>25. PICK vl : vl = Weight(w, Len(w))
  OBVIOUS
<1>26. PICK limit : limit = OutputLimit
  OBVIOUS
<1>27. va \in Nat /\ vb \in Nat /\ vl \in Nat /\ limit \in Nat
  BY <1>3, <1>4, <1>5, <1>23, <1>24, <1>25, <1>26
<1>28. left = vl - va
  BY <1>10, <1>23, <1>25
<1>29. va <= vl
  <2>1. a <= Len(w)
    BY <1>3, <1>4
  <2> QED
    BY <1>4, <1>23, <1>25, <2>1, WeightsOrder
<1>14. CASE left <= OutputLimit
  <2>1. r = [events |-> rest, bytes |-> left, cut |-> k > 0]
    BY <1>9, <1>14
  <2>2. r.events = rest /\ r.bytes = left /\ r.cut = (k > 0)
    BY <2>1
  <2>3. r.events[1].start = a + 1 /\ r.events[1].start - 1 = a
    <3>1. r.events[1].start = a + 1
      BY <1>7, <2>2
    <3>2. (a + 1) - 1 = a
      BY <1>3, <1>4
    <3> QED
      BY <3>1, <3>2
  <2>4. left \in 0..OutputLimit
    <3>1. left <= limit
      BY <1>14, <1>26
    <3>2. left \in 0..limit
      BY <1>27, <1>28, <1>29, <3>1
    <3> QED
      BY <1>26, <3>2
  <2>5. ASSUME k > 0
        PROVE  a > f /\ left + WidthOf(w[a]) > OutputLimit
    <3>1. PICK p \in f..a : /\ Weight(w, Len(w)) - Weight(w, p) > OutputLimit
                            /\ left >= OutputLimit
      BY <1>13, <2>5
    <3>2. p \in 0..Len(w) /\ p <= a /\ f <= p
      BY <1>4
    <3>3. Weight(w, p) \in Nat /\ Weight(w, Len(w)) \in Nat /\ Weight(w, a) \in Nat
      BY <1>4, <1>5, <3>2
    <3>4. Weight(w, p) < Weight(w, a)
      BY <1>3, <1>10, <1>14, <3>1, <3>3
    <3>5. p < a
      BY <1>4, <3>2, <3>4, WeightsOrder
    <3>6. a > f /\ a \in 1..Len(w)
      BY <1>4, <3>2, <3>5
    <3>7. WidthOf(w[a]) \in 1..4
      BY <3>6, WidthType, ElementOfSeq
    <3> QED
      BY <1>3, <3>1, <3>6, <3>7
  <2>6. k > 0 => /\ r.events[1].start > evs[1].start
                 /\ r.bytes + WidthOf(w[r.events[1].start - 1]) > OutputLimit
    <3>1. a > f => a + 1 > f + 1
      BY <1>4
    <3> QED
      BY <1>6, <2>2, <2>3, <2>5, <3>1
  <2>7. ~(k > 0) => r.events[1].start = evs[1].start
    BY <1>4, <1>6, <1>12, <2>3
  <2> QED
    <3>1. r.bytes = Weight(w, Len(w)) - Weight(w, r.events[1].start - 1)
      BY <1>10, <2>2, <2>3
    <3>2. r.cut \in BOOLEAN /\ (r.cut <=> k > 0)
      <4>1. CASE k > 0
        <5>1. r.cut = TRUE
          BY <2>2, <4>1
        <5> QED
          BY <4>1, <5>1
      <4>2. CASE ~(k > 0)
        <5>1. r.cut = FALSE
          <6>1. (k > 0) = FALSE
            BY <1>4, <4>2
          <6> QED
            BY <2>2, <6>1
        <5> QED
          BY <4>2, <5>1
      <4> QED
        BY <4>1, <4>2
    <3>3. Tiled(r.events, w) /\ r.events # <<>> /\ r.bytes \in 0..OutputLimit
      BY <1>8, <2>2, <2>4
    <3> QED
      BY <2>6, <2>7, <3>1, <3>2, <3>3
<1>15. CASE ~(left <= OutputLimit)
  <2>1. PICK excess : excess = left - OutputLimit
    OBVIOUS
  <2>3. excess \in Nat /\ 0 < excess /\ excess < rest[1].bytes
    <3>1. rest[1].bytes = vb - va
      BY <1>7, <1>23, <1>24
    <3>2. left > limit /\ excess = left - limit /\ vl - vb < limit
      BY <1>11, <1>15, <1>24, <1>25, <1>26, <1>27, <2>1
    <3>3. excess \in Nat /\ 0 < excess /\ excess < vb - va
      BY <1>27, <1>28, <3>2
    <3> QED
      BY <3>1, <3>3
  <2>4. PICK e : e = Cut(rest[1], excess)
    OBVIOUS
  <2>5. PICK c \in (a + 1)..b :
          /\ Weight(w, c) - Weight(w, a) >= excess
          /\ Weight(w, c - 1) - Weight(w, a) < excess
          /\ Cut(rest[1], excess) = [start |-> c + 1, stream |-> rest[1].stream,
                                     text |-> SubSeq(w, c + 1, b),
                                     bytes |-> Weight(w, b) - Weight(w, c)]
    BY <1>4, <1>7, <2>3, CutLoses
  <2>6. /\ c \in 0..Len(w) /\ c - 1 \in 0..Len(w) /\ c \in 1..Len(w)
        /\ a < c /\ c <= b /\ c <= Len(w) /\ a <= c
    BY <1>3, <1>4
  <2>18. PICK vc : vc = Weight(w, c)
    OBVIOUS
  <2>19. PICK vd : vd = Weight(w, c - 1)
    OBVIOUS
  <2>7. vc \in Nat /\ vd \in Nat
    BY <1>5, <2>6, <2>18, <2>19
  <2>21. /\ vc - va >= left - limit
         /\ vd - va < left - limit
    BY <1>23, <1>26, <2>1, <2>5, <2>18, <2>19
  <2>8. e = [start |-> c + 1, stream |-> rest[1].stream,
             text |-> SubSeq(w, c + 1, b), bytes |-> Weight(w, b) - Weight(w, c)]
    BY <2>4, <2>5
  <2>9. Tiled([rest EXCEPT ![1] = e], w)
    <3>1. /\ Bound(rest, 0) <= c /\ c <= Bound(rest, 1)
      BY <1>21, <2>6
    <3>2. e = [start |-> c + 1, stream |-> rest[1].stream,
               text |-> SubSeq(w, c + 1, Bound(rest, 1)),
               bytes |-> Weight(w, Bound(rest, 1)) - Weight(w, c)]
      BY <1>21, <2>8
    <3> QED
      BY <1>8, <2>6, <3>1, <3>2, TiledCut
  <2>10. r = [events |-> [rest EXCEPT ![1] = e],
              bytes |-> left - rest[1].bytes + e.bytes, cut |-> TRUE]
    BY <1>9, <1>15, <2>1, <2>4
  <2>11. /\ r.events = [rest EXCEPT ![1] = e] /\ r.cut = TRUE
         /\ r.bytes = left - rest[1].bytes + e.bytes
    <3> DEFINE new == [rest EXCEPT ![1] = e]
               size == left - rest[1].bytes + e.bytes
    <3>1. r = [events |-> new, bytes |-> size, cut |-> TRUE]
      BY <2>10
    <3> HIDE DEF new, size
    <3>2. r.events = new /\ r.cut = TRUE /\ r.bytes = size
      BY <3>1
    <3> QED
      BY <3>2 DEF new, size
  <2>12. r.events[1] = e /\ r.events # <<>>
    <3>1. [rest EXCEPT ![1] = e][1] = e
      BY <1>8
    <3>2. 1 \in DOMAIN [rest EXCEPT ![1] = e]
      BY <1>8
    <3> QED
      BY <2>11, <3>1, <3>2
  <2>13. e.start = c + 1 /\ e.start - 1 = c /\ e.bytes = Weight(w, b) - Weight(w, c)
    BY <2>6, <2>8
  <2>14. r.bytes = vl - vc
    <3>1. rest[1].bytes = vb - va /\ e.bytes = vb - vc
      BY <1>7, <1>23, <1>24, <2>13, <2>18
    <3>2. r.bytes = (vl - va) - (vb - va) + (vb - vc)
      BY <1>28, <2>11, <3>1
    <3>3. (vl - va) - (vb - va) + (vb - vc) = vl - vc
      BY <1>27, <2>7
    <3> QED
      BY <3>2, <3>3
  <2>15. r.bytes \in 0..OutputLimit
    <3>1. vc <= vl
      BY <1>4, <1>25, <2>6, <2>18, WeightsOrder
    <3>2. vl - vc \in 0..limit
      BY <1>27, <1>28, <2>7, <2>21, <3>1
    <3> QED
      BY <1>26, <2>14, <3>2
  <2>16. r.bytes + WidthOf(w[c]) > OutputLimit
    <3>1. c - 1 \in Nat /\ c - 1 < Len(w) /\ (c - 1) + 1 = c
      BY <1>3, <2>6
    <3>2. Weight(w, c) = Weight(w, c - 1) + WidthOf(w[c]) /\ WidthOf(w[c]) \in 1..4
      <4> DEFINE d == c - 1
      <4>1. d \in Nat /\ d < Len(w)
        BY <3>1
      <4> HIDE DEF d
      <4>2. Weight(w, d + 1) = Weight(w, d) + WidthOf(w[d + 1])
            /\ WidthOf(w[d + 1]) \in 1..4
        BY <4>1, WeightStep
      <4> QED
        BY <3>1, <4>2 DEF d
    <3> QED
      <4>1. PICK width : width = WidthOf(w[c])
        OBVIOUS
      <4>2. vc = vd + width /\ width \in 1..4
        BY <2>18, <2>19, <3>2, <4>1
      <4>3. vl - vc + width > limit
        BY <1>27, <1>28, <2>7, <2>21, <4>2
      <4> QED
        BY <1>26, <2>14, <4>1, <4>3
  <2>17. e.start > evs[1].start
    BY <1>4, <1>6, <2>6, <2>13
  <2>20. r.bytes = Weight(w, Len(w)) - Weight(w, r.events[1].start - 1)
    BY <1>25, <2>12, <2>13, <2>14, <2>18
  <2> QED
    BY <2>20, <2>9, <2>11, <2>12, <2>13, <2>14, <2>15, <2>16, <2>17
<1> QED
  BY <1>14, <1>15

-----------------------------------------------------------------------------
(* Appending.                                                              *)

(* A chunk continues the characters its reader has decoded so far.         *)
LEMMA ChunkIs ==
  ASSUME NEW s \in Streams, NEW from \in Nat, NEW k \in Nat,
         from + k <= Len(Width[s])
  PROVE  /\ [i \in 1..k |-> Char(s, from + i)] \in Seq(Characters)
         /\ Len([i \in 1..k |-> Char(s, from + i)]) = k
<1> DEFINE t == [i \in 1..k |-> Char(s, from + i)]
<1>1. Len(Width[s]) \in Nat
  BY OutputAssumption, LenProperties
<1>2. ASSUME NEW i \in 1..k
      PROVE  Char(s, from + i) \in Characters
  <2>1. from + i \in 1..Len(Width[s])
    BY <1>1
  <2> QED
    BY <2>1 DEF Characters
<1>3. t \in [1..k -> Characters]
  BY <1>2
<1> HIDE DEF t
<1>4. t \in Seq(Characters) /\ Len(t) = k
  BY <1>3, IsASeq
<1> QED
  BY <1>4 DEF t

(* A new event tiles the new end of the text.                              *)
LEMMA AppendTiles ==
  ASSUME NEW w \in Seq(Characters), NEW evs, Tiled(evs, w), evs = <<>> => w = <<>>,
         NEW t \in Seq(Characters), NEW s \in Streams,
         NEW e, e = [start |-> Len(w) + 1, stream |-> s, text |-> t,
                     bytes |-> Bytes(t)]
  PROVE  /\ Tiled(Append(evs, e), w \o t) /\ Append(evs, e) # <<>>
         /\ Append(evs, e)[1].start = IF evs = <<>> THEN Len(w) + 1 ELSE evs[1].start
<1> DEFINE evs2 == Append(evs, e)
           w2 == w \o t
           n == Len(evs)
<1>1. evs \in Seq(Event) /\ n \in Nat /\ Len(w) \in Nat /\ Len(t) \in Nat
  BY LenProperties DEF Tiled
<1>2. w2 \in Seq(Characters) /\ Len(w2) = Len(w) + Len(t)
  BY ConcatProperties
<1>3. e \in Event /\ e.start = Len(w) + 1 /\ e.text = t /\ e.bytes = Bytes(e.text)
      /\ EndCursor(e) = Len(w) + Len(t)
  <2>1. Bytes(t) \in Nat
    <3>1. Weight(t, Len(t)) \in Nat /\ SubSeq(t, 1, Len(t)) = t
      BY <1>1, WeightType, SubSeqFull
    <3> QED
      BY <3>1 DEF Weight
  <2>2. Len(w) + 1 \in Nat \ {0}
    BY <1>1
  <2>3. e \in Event
    BY <2>1, <2>2 DEF Event
  <2>4. e.start = Len(w) + 1 /\ e.text = t /\ e.bytes = Bytes(e.text)
    OBVIOUS
  <2>5. EndCursor(e) = (Len(w) + 1) + Len(t) - 1
    BY <2>4 DEF EndCursor
  <2> QED
    BY <1>1, <2>3, <2>4, <2>5
<1>4. /\ evs2 \in Seq(Event) /\ Len(evs2) = n + 1 /\ evs2[n + 1] = e
      /\ \A i \in 1..n : evs2[i] = evs[i]
  BY <1>1, <1>3, AppendProperties
<1>5. e.text = SubSeq(w2, e.start, EndCursor(e))
  <2>1. SubSeq(w2, Len(w) + 1, Len(w2)) = t
    BY SubSeqOfConcat2
  <2> QED
    BY <1>2, <1>3, <2>1
<1>6. ASSUME NEW i \in 1..n
      PROVE  /\ EndCursor(evs[i]) <= Len(w)
             /\ evs[i].text = SubSeq(w2, evs[i].start, EndCursor(evs[i]))
             /\ evs[i].bytes = Bytes(evs[i].text)
             /\ EndCursor(evs[i]) + 1 = IF i = n THEN e.start ELSE evs[i + 1].start
  <2>1. evs # <<>>
    BY <1>1
  <2>2. /\ EndCursor(evs[i]) <= Len(w)
        /\ evs[i].text = SubSeq(w, evs[i].start, EndCursor(evs[i]))
        /\ evs[i].bytes = Bytes(evs[i].text)
        /\ EndCursor(evs[i]) + 1 = IF i = n THEN Len(w) + 1 ELSE evs[i + 1].start
    BY DEF Tiled
  <2>3. /\ Bound(evs, i - 1) \in 0..Len(w) /\ Bound(evs, i) \in 0..Len(w)
        /\ evs[i].start = Bound(evs, i - 1) + 1 /\ EndCursor(evs[i]) = Bound(evs, i)
        /\ Bound(evs, i - 1) <= Bound(evs, i)
    <3>1. i - 1 \in 0..n /\ i \in 0..n
      BY <1>1
    <3> QED
      BY <2>1, <3>1, Bounds
  <2>4. evs[i].start \in 1..(Len(w) + 1)
        /\ EndCursor(evs[i]) \in (evs[i].start - 1)..Len(w)
    BY <1>1, <2>3
  <2>5. SubSeq(w2, evs[i].start, EndCursor(evs[i]))
          = SubSeq(w, evs[i].start, EndCursor(evs[i]))
    <3>1. PICK x : x = evs[i].start
      OBVIOUS
    <3>2. PICK y : y = EndCursor(evs[i])
      OBVIOUS
    <3>3. x \in 1..(Len(w) + 1) /\ y \in (x - 1)..Len(w)
      BY <2>4, <3>1, <3>2
    <3>4. SubSeq(w \o t, x, y) = SubSeq(w, x, y)
      BY <3>3, PieceOfConcat
    <3> QED
      BY <3>1, <3>2, <3>4
  <2> QED
    BY <1>3, <2>2, <2>5
<1> HIDE DEF evs2, w2, n
<1>7. Tiled(evs2, w2)
  <2> SUFFICES ASSUME NEW i \in 1..Len(evs2)
               PROVE  /\ EndCursor(evs2[i]) <= Len(w2)
                      /\ evs2[i].text = SubSeq(w2, evs2[i].start, EndCursor(evs2[i]))
                      /\ evs2[i].bytes = Bytes(evs2[i].text)
                      /\ EndCursor(evs2[i]) + 1 =
                           IF i = Len(evs2) THEN Len(w2) + 1 ELSE evs2[i + 1].start
    BY <1>4 DEF Tiled
  <2>1. CASE i = n + 1
    <3>1. evs2[i] = e /\ i = Len(evs2)
      BY <1>4, <2>1
    <3>2. EndCursor(e) = Len(w2) /\ EndCursor(e) <= Len(w2)
      BY <1>1, <1>2, <1>3
    <3> QED
      BY <1>3, <1>5, <3>1, <3>2
  <2>2. CASE i # n + 1
    <3>1. i \in 1..n /\ i # Len(evs2) /\ i + 1 \in 1..(n + 1)
      BY <1>1, <1>4, <2>2
    <3>2. evs2[i] = evs[i] /\ evs2[i + 1] = IF i = n THEN e ELSE evs[i + 1]
      <4>1. CASE i = n
        BY <1>4, <3>1, <4>1
      <4>2. CASE i # n
        <5>1. i + 1 \in 1..n
          BY <1>1, <3>1, <4>2
        <5> QED
          BY <1>4, <3>1, <4>2, <5>1
      <4> QED
        BY <4>1, <4>2
    <3>3. EndCursor(evs[i]) <= Len(w2)
      <4>1. EndCursor(evs[i]) <= Len(w) /\ EndCursor(evs[i]) \in Int
        <5>1. evs[i] \in Event
          BY <1>1, <3>1, ElementOfSeq DEF n
        <5>2. evs[i].start \in Nat /\ Len(evs[i].text) \in Nat
          BY <5>1, LenProperties DEF Event
        <5>3. EndCursor(evs[i]) \in Int
          BY <5>2 DEF EndCursor
        <5> QED
          BY <1>6, <3>1, <5>3
      <4> QED
        BY <1>1, <1>2, <4>1
    <3> QED
      BY <1>6, <3>1, <3>2, <3>3
  <2> QED
    BY <2>1, <2>2
<1>8. evs2 # <<>>
  BY <1>1, <1>4, EmptySeq
<1>9. evs2[1].start = IF evs = <<>> THEN Len(w) + 1 ELSE evs[1].start
  <2>1. CASE evs = <<>>
    BY <1>3, <1>4, <2>1, Len(<<>>) = 0, 0 + 1 = 1 DEF n
  <2>2. CASE evs # <<>>
    <3>1. 1 \in 1..n
      BY <2>2, Bounds DEF n
    <3> QED
      BY <1>4, <2>2, <3>1
  <2> QED
    BY <2>1, <2>2
<1> QED
  BY <1>7, <1>8, <1>9 DEF evs2, w2

-----------------------------------------------------------------------------
(* The inductive invariant: the events divide the end of the output        *)
(* between them, retained_bytes is their weight, and the last character    *)
(* that went was one too many.                                             *)
Kept ==
  /\ written \in Seq(Characters)
  /\ nextCursor = Len(written) + 1
  /\ Tiled(events, written)
  /\ events = <<>> => written = <<>>
  /\ retained = Weight(written, Len(written)) - Weight(written, FirstCursor - 1)
  /\ retained \in 0..OutputLimit
  /\ truncated \in BOOLEAN
  /\ truncated => /\ FirstCursor > 1
                  /\ retained + WidthOf(written[FirstCursor - 1]) > OutputLimit
  /\ ~truncated => FirstCursor = 1

(* The first cursor that can still be read.                                *)
LEMMA FirstIs ==
  ASSUME Kept
  PROVE  /\ Len(written) \in Nat /\ FirstCursor \in 1..(Len(written) + 1)
         /\ FirstCursor - 1 \in 0..Len(written)
         /\ events = <<>> => FirstCursor = 1
         /\ events # <<>> => FirstCursor = events[1].start
<1>1. Len(written) \in Nat
  BY LenProperties DEF Kept
<1>2. CASE events = <<>>
  <2>1. FirstCursor = Len(<<>>) + 1
    BY <1>2 DEF Kept, FirstCursor
  <2>2. FirstCursor = 1
    BY <2>1, Len(<<>>) = 0
  <2> QED
    BY <1>1, <1>2, <2>2
<1>3. CASE events # <<>>
  <2>1. FirstCursor = events[1].start
    BY <1>3 DEF FirstCursor
  <2>2. Tiled(events, written) /\ written \in Seq(Characters)
    BY DEF Kept
  <2>3. PICK i : i = 1
    OBVIOUS
  <2>4. i \in 1..Len(events) /\ i - 1 \in 0..Len(events)
    BY <1>3, <2>2, <2>3, Bounds
  <2>5. events[i].start = Bound(events, i - 1) + 1
        /\ Bound(events, i - 1) \in 0..Len(written)
    BY <1>3, <2>2, <2>4, Bounds
  <2>6. FirstCursor \in 1..(Len(written) + 1)
    BY <1>1, <2>1, <2>3, <2>5
  <2> QED
    BY <1>1, <1>3, <2>1, <2>6
<1> QED
  BY <1>2, <1>3

(* _append_output with its trimming leaves the invariant true, and what is *)
(* gone does not come back.                                                *)
LEMMA AppendKeeps ==
  ASSUME Kept, NEW s \in Streams, NEW t \in Seq(Characters), Append_output(s, t)
  PROVE  Kept' /\ events' # <<>> /\ FirstCursor' >= FirstCursor
<1> DEFINE e == [start |-> nextCursor, stream |-> s, text |-> t, bytes |-> Bytes(t)]
           evs == Append(events, e)
           w == written \o t
           bytes == retained + e.bytes
<1>1. PICK r : r = Trimmed(evs, bytes)
  OBVIOUS
<1>2. /\ events' = r.events /\ retained' = r.bytes /\ truncated' = (truncated \/ r.cut)
      /\ nextCursor' = nextCursor + Len(t) /\ written' = w
  BY <1>1 DEF Append_output
<1>3. PICK f : f = FirstCursor
  OBVIOUS
<1>4. /\ written \in Seq(Characters) /\ nextCursor = Len(written) + 1
      /\ Tiled(events, written) /\ (events = <<>> => written = <<>>)
      /\ retained = Weight(written, Len(written)) - Weight(written, f - 1)
      /\ truncated \in BOOLEAN
      /\ (truncated => f > 1 /\ retained + WidthOf(written[f - 1]) > OutputLimit)
      /\ (~truncated => f = 1)
  BY <1>3 DEF Kept
<1>5. /\ Len(written) \in Nat /\ f \in 1..(Len(written) + 1)
      /\ f - 1 \in 0..Len(written) /\ Len(t) \in Nat
      /\ f = IF events = <<>> THEN Len(written) + 1 ELSE events[1].start
  <2>1. f = IF events = <<>> THEN Len(written) + 1 ELSE events[1].start
    BY <1>3, <1>4 DEF FirstCursor
  <2> QED
    BY <1>3, <2>1, FirstIs, LenProperties
<1>6. Tiled(evs, w) /\ evs # <<>> /\ evs[1].start = f
  <2>1. e = [start |-> Len(written) + 1, stream |-> s, text |-> t, bytes |-> Bytes(t)]
    BY <1>4
  <2> HIDE DEF e
  <2> QED
    BY <1>4, <1>5, <2>1, AppendTiles
<1>7. w \in Seq(Characters) /\ Len(w) = Len(written) + Len(t)
  BY <1>4, ConcatProperties
<1>8. /\ Weight(w, f - 1) = Weight(written, f - 1)
      /\ Weight(w, Len(written)) = Weight(written, Len(written))
  BY <1>4, <1>5, WeightOfConcat
<1>9. Bytes(t) = Weight(w, Len(w)) - Weight(w, Len(written))
  <2>1. SubSeq(w, Len(written) + 1, Len(w)) = t
    BY <1>4, SubSeqOfConcat2
  <2>2. PICK a : a = Len(written) + 1
    OBVIOUS
  <2>3. a \in 1..(Len(w) + 1) /\ Len(w) \in (a - 1)..Len(w) /\ a - 1 = Len(written)
    BY <1>5, <1>7, <2>2
  <2> HIDE DEF w
  <2>4. Bytes(SubSeq(w, a, Len(w))) = Weight(w, Len(w)) - Weight(w, a - 1)
    BY <1>7, <2>3, BytesOfPiece
  <2> QED
    BY <2>1, <2>2, <2>3, <2>4
<1> HIDE DEF w, evs
<1>10. /\ Weight(w, f - 1) \in Nat /\ Weight(w, Len(written)) \in Nat
       /\ Weight(w, Len(w)) \in Nat
       /\ Weight(w, Len(written)) <= Weight(w, Len(w))
  <2>1. /\ f - 1 \in 0..Len(w) /\ Len(written) \in 0..Len(w) /\ Len(w) \in 0..Len(w)
        /\ Len(written) <= Len(w)
    BY <1>5, <1>7
  <2> QED
    BY <1>7, <2>1, WeightsOrder
<1>11. bytes = Weight(w, Len(w)) - Weight(w, f - 1) /\ retained <= bytes
       /\ bytes \in Int /\ retained \in Int
  <2>1. PICK x : x = Weight(w, f - 1)
    OBVIOUS
  <2>2. PICK y : y = Weight(w, Len(written))
    OBVIOUS
  <2>3. PICK z : z = Weight(w, Len(w))
    OBVIOUS
  <2>4. x \in Nat /\ y \in Nat /\ z \in Nat /\ y <= z
    BY <1>10, <2>1, <2>2, <2>3
  <2>5. retained = y - x /\ bytes = retained + (z - y)
    BY <1>4, <1>8, <1>9, <2>1, <2>2, <2>3
  <2> HIDE DEF bytes
  <2>6. retained \in Int /\ bytes = z - x
    BY <2>4, <2>5
  <2>7. retained <= bytes /\ bytes \in Int
    BY <2>4, <2>5, <2>6
  <2> QED
    BY <2>1, <2>3, <2>6, <2>7
<1>12. /\ Tiled(r.events, w) /\ r.events # <<>>
       /\ r.bytes = Weight(w, Len(w)) - Weight(w, r.events[1].start - 1)
       /\ r.bytes \in 0..OutputLimit
       /\ r.cut \in BOOLEAN
       /\ r.cut => /\ r.events[1].start > f
                   /\ r.bytes + WidthOf(w[r.events[1].start - 1]) > OutputLimit
       /\ ~r.cut => r.events[1].start = f
  <2>1. bytes = Weight(w, Len(w)) - Weight(w, evs[1].start - 1)
    BY <1>6, <1>11
  <2>2. /\ Tiled(r.events, w) /\ r.events # <<>>
        /\ r.bytes = Weight(w, Len(w)) - Weight(w, r.events[1].start - 1)
        /\ r.bytes \in 0..OutputLimit
        /\ r.cut \in BOOLEAN
        /\ r.cut => /\ r.events[1].start > evs[1].start
                    /\ r.bytes + WidthOf(w[r.events[1].start - 1]) > OutputLimit
        /\ ~r.cut => r.events[1].start = evs[1].start
    <3>1. PICK size : size = bytes
      OBVIOUS
    <3> HIDE DEF bytes, e
    <3>2. w \in Seq(Characters) /\ Tiled(evs, w) /\ evs # <<>>
      BY <1>6, <1>7
    <3>3. size = Weight(w, Len(w)) - Weight(w, evs[1].start - 1)
      BY <2>1, <3>1
    <3>4. r = Trimmed(evs, size)
      BY <1>1, <3>1
    <3> QED
      BY <3>2, <3>3, <3>4, TrimmedKeeps
  <2> QED
    BY <1>6, <2>2
<1>13. events' # <<>> /\ FirstCursor' = r.events[1].start
  BY <1>2, <1>12 DEF FirstCursor
<1>14. FirstCursor' >= f
  <2>1. CASE r.cut
    <3>1. PICK g : g = r.events[1].start
      OBVIOUS
    <3>2. PICK i : i = 1
      OBVIOUS
    <3>3. r.events[i] \in Event
      BY <1>7, <1>12, <3>2, Bounds
    <3>4. g \in Nat /\ g > f
      BY <1>12, <2>1, <3>1, <3>2, <3>3 DEF Event
    <3> QED
      BY <1>5, <1>13, <3>1, <3>4
  <2>2. CASE ~r.cut
    BY <1>5, <1>12, <1>13, <2>2
  <2> QED
    BY <2>1, <2>2
<1>15. truncated' \in BOOLEAN
  BY <1>2, <1>4, <1>12, Zenon
<1>16. nextCursor' = Len(w) + 1
  BY <1>2, <1>4, <1>5, <1>7
<1>17. truncated' => /\ FirstCursor' > 1
                     /\ retained' + WidthOf(written'[FirstCursor' - 1]) > OutputLimit
  <2>1. CASE r.cut
    <3>1. FirstCursor' > f /\ retained' + WidthOf(written'[FirstCursor' - 1]) > OutputLimit
      BY <1>2, <1>12, <1>13, <2>1
    <3>2. FirstCursor' > 1
      <4>1. PICK g : g = FirstCursor'
        OBVIOUS
      <4>2. PICK i : i = 1
        OBVIOUS
      <4>3. r.events[i] \in Event
        BY <1>7, <1>12, <4>2, Bounds
      <4>4. g \in Nat /\ g > f
        BY <1>13, <3>1, <4>1, <4>2, <4>3 DEF Event
      <4> QED
        BY <1>5, <4>1, <4>4
    <3> QED
      BY <3>1, <3>2
  <2>2. CASE ~r.cut /\ truncated
    <3>1. FirstCursor' = f /\ f > 1
      BY <1>4, <1>12, <1>13, <2>2
    <3>2. PICK c : c = f - 1
      OBVIOUS
    <3>3. c \in 1..Len(written)
      BY <1>5, <3>1, <3>2
    <3>4. w[c] = written[c]
      BY <1>4, <3>3, ConcatProperties DEF w
    <3>5. retained' = bytes
      BY <1>2, <1>11, <1>12, <2>2
    <3>6. PICK width : width = WidthOf(written[c])
      OBVIOUS
    <3>7. width \in 1..4 /\ retained + width > OutputLimit
      <4>1. written[c] \in Characters
        BY <1>4, <3>3, ElementOfSeq
      <4> QED
        BY <1>4, <2>2, <3>2, <3>6, <4>1, WidthType
    <3>8. retained' + width > OutputLimit
      <4> HIDE DEF bytes
      <4> QED
        BY <1>11, <3>5, <3>7, OutputAssumption
    <3> QED
      BY <1>2, <3>1, <3>2, <3>4, <3>6, <3>8
  <2>3. CASE ~r.cut /\ ~truncated
    BY <1>2, <2>3
  <2> QED
    BY <2>1, <2>2, <2>3
<1>18. ~truncated' => FirstCursor' = 1
  BY <1>2, <1>4, <1>12, <1>13
<1> QED
  <2>1. retained' = Weight(written', Len(written')) - Weight(written', FirstCursor' - 1)
        /\ retained' \in 0..OutputLimit
    BY <1>2, <1>12, <1>13
  <2>2. written' \in Seq(Characters) /\ nextCursor' = Len(written') + 1
        /\ Tiled(events', written')
    BY <1>2, <1>7, <1>12, <1>16
  <2>3. Kept'
    BY <2>1, <2>2, <1>13, <1>15, <1>17, <1>18 DEF Kept
  <2> QED
    BY <1>3, <1>13, <1>14, <2>3

-----------------------------------------------------------------------------
(* Pages.                                                                  *)

(* The candidates of the events divide what comes after m, the later of    *)
(* the client's cursor and what was trimmed.                               *)
Past(m, x) == IF x <= m THEN m ELSE x

(* The candidate of one event: what of its text comes after m.             *)
LEMMA CandidateIs ==
  ASSUME NEW w \in Seq(Characters), NEW evs, Tiled(evs, w), evs # <<>>,
         NEW cursor \in 0..Len(w), NEW m, m = Past(cursor, Bound(evs, 0)),
         NEW i \in 1..Len(evs)
  PROVE  \E p \in m..Len(w) : \E q \in p..Len(w) :
           /\ p = Past(m, Bound(evs, i - 1)) /\ q = Past(m, Bound(evs, i))
           /\ Candidate(cursor, evs[i]) = SubSeq(w, p + 1, q)
           /\ p < q => evs[i].start + Skip(cursor, evs[i]) = p + 1
<1>11. PICK p : p = Past(m, Bound(evs, i - 1))
  OBVIOUS
<1>12. PICK q : q = Past(m, Bound(evs, i))
  OBVIOUS
<1>1. PICK a : a = Bound(evs, i - 1)
  OBVIOUS
<1>2. PICK b : b = Bound(evs, i)
  OBVIOUS
<1>3. PICK z : z = Bound(evs, 0)
  OBVIOUS
<1>4. PICK n : n = Len(w)
  OBVIOUS
<1>5. PICK e : e = evs[i]
  OBVIOUS
<1>6. /\ n \in Nat /\ a \in 0..n /\ b \in a..n /\ z \in 0..a /\ cursor \in 0..n
      /\ e.start = a + 1 /\ EndCursor(e) = b /\ e.text = SubSeq(w, a + 1, b)
      /\ Len(e.text) = b - a
  <2>1. n \in Nat /\ Len(evs) \in Nat
    BY <1>4, LenProperties, Bounds
  <2>2. i - 1 \in 0..Len(evs) /\ i \in 0..Len(evs) /\ 0 \in 0..Len(evs)
    BY <2>1
  <2>3. a \in 0..n /\ b \in 0..n /\ z \in 0..n
    BY <1>1, <1>2, <1>3, <1>4, <2>2, Bounds
  <2>4. /\ e.start = a + 1 /\ EndCursor(e) = b /\ e.text = SubSeq(w, a + 1, b)
        /\ Len(e.text) = b - a /\ a <= b
    <3>1. /\ evs[i].start = Bound(evs, i - 1) + 1
          /\ EndCursor(evs[i]) = Bound(evs, i)
          /\ Bound(evs, i - 1) <= Bound(evs, i)
          /\ Len(evs[i].text) = Bound(evs, i) - Bound(evs, i - 1)
          /\ evs[i].text = SubSeq(w, Bound(evs, i - 1) + 1, Bound(evs, i))
      BY Bounds
    <3> QED
      BY <1>1, <1>2, <1>5, <3>1
  <2>5. z <= a
    <3>1. PICK k : k = i - 1
      OBVIOUS
    <3>2. k \in 0..Len(evs) /\ 0 \in 0..k
      BY <2>1, <2>2, <3>1
    <3>3. Bound(evs, 0) <= Bound(evs, k)
      BY <3>2, BoundsOrder
    <3> QED
      BY <1>1, <1>3, <3>1, <3>3
  <2> QED
    BY <1>4, <2>1, <2>3, <2>4, <2>5
<1>7. m = Past(cursor, z) /\ p = Past(m, a) /\ q = Past(m, b)
  BY <1>1, <1>2, <1>3, <1>11, <1>12
<1>8. m \in 0..n /\ p \in m..n /\ q \in p..n
  BY <1>6, <1>7 DEF Past
<1>9. CASE b <= cursor
  <2>1. p = q
    BY <1>6, <1>7, <1>9 DEF Past
  <2>2. SubSeq(w, p + 1, q) = <<>>
    BY <1>8, <2>1, SubSeqEmpty
  <2>3. Candidate(cursor, e) = <<>>
    BY <1>6, <1>9 DEF Candidate
  <2> QED
    BY <1>4, <1>5, <1>8, <1>11, <1>12, <2>1, <2>2, <2>3
<1>10. CASE ~(b <= cursor)
  <2>1. q = b /\ cursor < b
    BY <1>6, <1>7, <1>10 DEF Past
  <2>2. PICK k : k = Skip(cursor, e)
    OBVIOUS
  <2>3. k \in 0..(b - a) /\ (p < q => a + k = p)
        /\ (p = q => k = b - a)
    <3>1. CASE cursor >= a + 1
      <4>1. k = cursor - (a + 1) + 1
        BY <1>6, <2>2, <3>1 DEF Skip
      <4>2. m = cursor /\ p = cursor
        BY <1>6, <1>7, <3>1 DEF Past
      <4> QED
        BY <1>6, <2>1, <3>1, <4>1, <4>2
    <3>2. CASE ~(cursor >= a + 1)
      <4>1. k = 0
        BY <1>6, <2>2, <3>2 DEF Skip
      <4>2. p = a
        BY <1>6, <1>7, <3>2 DEF Past
      <4> QED
        BY <1>6, <2>1, <4>1, <4>2
    <3> QED
      BY <3>1, <3>2
  <2>4. Candidate(cursor, e) = Suffix(e.text, k)
    <3>1. ~(EndCursor(e) <= cursor)
      BY <1>6, <1>10
    <3> QED
      BY <2>2, <3>1 DEF Candidate
  <2>5. a + k = p
    <3>1. CASE p = q
      <4>1. p = b /\ k = b - a
        BY <2>1, <2>3, <3>1
      <4>2. a + (b - a) = b
        BY <1>6
      <4> QED
        BY <4>1, <4>2
    <3>2. p < q \/ p = q
      BY <1>6, <1>8
    <3> QED
      BY <2>3, <3>1, <3>2
  <2>6. Suffix(e.text, k) = SubSeq(w, a + k + 1, b)
    <3>1. a \in 0..Len(w) /\ b \in a..Len(w)
      BY <1>4, <1>6
    <3>2. Suffix(SubSeq(w, a + 1, b), k) = SubSeq(w, a + k + 1, b)
      BY <2>3, <3>1, PrefixOfPiece
    <3> QED
      BY <1>6, <3>2
  <2>7. Candidate(cursor, e) = SubSeq(w, p + 1, q)
    BY <2>1, <2>4, <2>5, <2>6
  <2>8. e.start + Skip(cursor, e) = p + 1
    BY <1>6, <2>2, <2>3, <2>5
  <2> QED
    BY <1>4, <1>5, <1>8, <1>11, <1>12, <2>7, <2>8
<1> QED
  BY <1>9, <1>10

(* What fits of a piece is the longest prefix that does.                   *)
LEMMA FittingIs ==
  ASSUME NEW w \in Seq(Characters), NEW a \in 0..Len(w), NEW b \in a..Len(w),
         NEW room \in Nat
  PROVE  \E x \in a..b :
           /\ Fitting(SubSeq(w, a + 1, b), room) = SubSeq(w, a + 1, x)
           /\ Weight(w, x) - Weight(w, a) <= room
           /\ x < b => Weight(w, x + 1) - Weight(w, a) > room
<1> DEFINE t == SubSeq(w, a + 1, b)
           fits(m) == /\ Bytes(SubSeq(t, 1, m)) <= room
                      /\ m < Len(t) => Bytes(SubSeq(t, 1, m + 1)) > room
<1>1. Len(w) \in Nat
  BY LenProperties
<1>2. Len(t) = b - a
  <2>1. a + 1 \in 1..(Len(w) + 1) /\ b \in ((a + 1) - 1)..Len(w)
        /\ b - (a + 1) + 1 = b - a
    BY <1>1
  <2> QED
    BY <2>1, PieceIs
<1>3. \A m \in 0..(b - a) :
        Bytes(SubSeq(t, 1, m)) = Weight(w, a + m) - Weight(w, a)
  BY PrefixOfPiece
<1> HIDE DEF t
<1>4. \A c \in 0..Len(w) : Weight(w, c) \in Nat
  BY WeightType
<1>5. \E m \in 0..Len(t) : fits(m)
  <2> DEFINE S == {m \in 0..(b - a) :
                     m < b - a => Bytes(SubSeq(t, 1, m + 1)) > room}
  <2>1. S \subseteq Nat /\ b - a \in S
    BY <1>1
  <2>2. PICK m \in S : \A k \in S : m <= k
    <3> HIDE DEF S
    <3> QED
      BY <2>1, Least
  <2>3. m \in 0..(b - a) /\ (m < b - a => Bytes(SubSeq(t, 1, m + 1)) > room)
    BY <2>2
  <2>4. Bytes(SubSeq(t, 1, m)) <= room
    <3>1. CASE m = 0
      <4>1. SubSeq(t, 1, 0) = <<>>
        BY SubSeqEmpty
      <4>2. Bytes(SubSeq(t, 1, m)) = 0
        BY <3>1, <4>1, BytesOfNone
      <4>3. 0 <= room
        OBVIOUS
      <4> QED
        BY <4>2, <4>3
    <3>2. CASE m # 0
      <4>1. PICK k : k = m - 1
        OBVIOUS
      <4>2. k \in 0..(b - a) /\ k < b - a /\ k + 1 = m /\ k < m
        BY <1>1, <2>3, <3>2, <4>1
      <4>3. k \notin S
        BY <2>2, <2>3, <4>2
      <4>4. ~(Bytes(SubSeq(t, 1, k + 1)) > room)
        BY <4>2, <4>3
      <4>5. Bytes(SubSeq(t, 1, m)) \in Int
        <5>1. a + m \in 0..Len(w) /\ a \in 0..Len(w)
          BY <1>1, <2>3
        <5>2. Weight(w, a + m) \in Nat /\ Weight(w, a) \in Nat
          BY <1>4, <5>1
        <5> QED
          BY <1>3, <2>3, <5>2
      <4> QED
        BY <4>2, <4>4, <4>5
    <3> QED
      BY <3>1, <3>2
  <2> QED
    BY <1>2, <2>3, <2>4
<1>6. PICK m : m = CHOOSE k \in 0..Len(t) : fits(k)
  OBVIOUS
<1>7. m \in 0..Len(t) /\ fits(m)
  <2> HIDE DEF fits
  <2> QED
    BY <1>5, <1>6
<1>8. Fitting(t, room) = SubSeq(t, 1, m)
  BY <1>6 DEF Fitting
<1>9. m \in 0..(b - a) /\ (m < b - a => m + 1 \in 0..(b - a))
  BY <1>1, <1>2, <1>7
<1>10. SubSeq(t, 1, m) = SubSeq(w, a + 1, a + m)
  BY <1>9, PrefixOfPiece DEF t
<1>11. PICK x : x = a + m
  OBVIOUS
<1>12. x \in a..b /\ (x < b => m < b - a /\ x + 1 = a + (m + 1))
  BY <1>1, <1>9, <1>11
<1>13. Weight(w, x) - Weight(w, a) <= room
  BY <1>3, <1>7, <1>9, <1>11
<1>14. x < b => Weight(w, x + 1) - Weight(w, a) > room
  BY <1>2, <1>3, <1>7, <1>9, <1>12
<1> QED
  BY <1>8, <1>10, <1>11, <1>12, <1>13, <1>14 DEF t

(* Sequences of natural numbers that never fall.                           *)
LEMMA Rising ==
  ASSUME NEW n \in Nat, NEW P \in [0..n -> Nat],
         \A k \in 1..n : P[k - 1] <= P[k],
         NEW j \in 0..n, NEW i \in 0..j
  PROVE  P[i] <= P[j]
<1> DEFINE S == {d \in Nat : i + d <= n => P[i] <= P[i + d]}
<1>1. 0 \in S
  BY i + 0 = i
<1>2. ASSUME NEW d \in Nat, d \in S
      PROVE  d + 1 \in S
  <2> SUFFICES ASSUME i + (d + 1) <= n
               PROVE  P[i] <= P[i + (d + 1)]
    OBVIOUS
  <2>1. PICK k : k = i + (d + 1)
    OBVIOUS
  <2>2. k \in 1..n /\ k - 1 = i + d /\ i + d <= n /\ i + d \in 0..n /\ k \in 0..n
    BY <2>1
  <2>3. P[i] <= P[i + d]
    BY <1>2, <2>2
  <2>4. P[i + d] <= P[k]
    BY <2>2
  <2>5. P[i] \in Nat /\ P[i + d] \in Nat /\ P[k] \in Nat
    BY <2>2
  <2>6. P[i] <= P[k]
    BY <2>3, <2>4, <2>5
  <2> QED
    BY <2>1, <2>6
<1>3. j - i \in Nat /\ i + (j - i) = j
  OBVIOUS
<1>4. j - i \in S
  <2> HIDE DEF S
  <2> QED
    BY <1>1, <1>2, <1>3, SetInduction
<1> QED
  BY <1>3, <1>4

(* Each number between the first and the last is passed at some place.     *)
LEMMA Passed ==
  ASSUME NEW n \in Nat, NEW P \in [0..n -> Nat], NEW c \in Nat, P[0] < c, c <= P[n]
  PROVE  \E k \in 1..n : P[k - 1] < c /\ c <= P[k]
<1> DEFINE S == {k \in 0..n : c <= P[k]}
<1>1. S \subseteq Nat /\ n \in S
  OBVIOUS
<1>2. PICK k \in S : \A j \in S : k <= j
  <2> HIDE DEF S
  <2> QED
    BY <1>1, Least
<1>3. k \in 0..n /\ c <= P[k] /\ k # 0
  BY <1>2
<1>4. PICK j : j = k - 1
  OBVIOUS
<1>5. j \in 0..n /\ j < k /\ k \in 1..n
  BY <1>3, <1>4
<1>6. j \notin S
  BY <1>2, <1>5
<1>7. P[j] < c
  BY <1>5, <1>6
<1> QED
  BY <1>3, <1>4, <1>5, <1>7

(* Where the candidates meet.                                              *)
Places(P, m, cursor) ==
  /\ P \in [0..Len(events) -> m..Len(written)]
  /\ P[0] = m /\ P[Len(events)] = Len(written)
  /\ \A k \in 1..Len(events) :
       /\ P[k - 1] <= P[k]
       /\ Candidate(cursor, events[k]) = SubSeq(written, P[k - 1] + 1, P[k])
       /\ P[k - 1] < P[k] => events[k].start + Skip(cursor, events[k]) = P[k - 1] + 1

(* The candidates of all events meet end to end, from m to the end of the  *)
(* output.                                                                 *)
LEMMA PlacesExist ==
  ASSUME Kept, events # <<>>, NEW cursor \in 0..Len(written),
         NEW m, m = Past(cursor, FirstCursor - 1)
  PROVE  m \in 0..Len(written) /\ \E P : Places(P, m, cursor)
<1>1. written \in Seq(Characters) /\ Tiled(events, written)
  BY DEF Kept
<1>2. m = Past(cursor, Bound(events, 0))
  BY DEF FirstCursor, Bound
<1>3. PICK n : n = Len(events)
  OBVIOUS
<1>4. PICK N : N = Len(written)
  OBVIOUS
<1>5. n \in Nat \ {0} /\ N \in Nat /\ cursor \in 0..N
  BY <1>1, <1>3, <1>4, Bounds, LenProperties
<1>6. /\ Bound(events, n) = N /\ \A k \in 0..n : Bound(events, k) \in 0..N
  BY <1>1, <1>3, <1>4, Bounds
<1>7. m \in 0..N /\ Past(m, Bound(events, 0)) = m
  <2>1. PICK z : z = Bound(events, 0)
    OBVIOUS
  <2>2. z \in 0..N
    BY <1>5, <1>6, <2>1
  <2>3. m = Past(cursor, z)
    BY <1>2, <2>1
  <2>4. m \in 0..N /\ Past(m, z) = m
    BY <1>5, <2>2, <2>3 DEF Past
  <2> QED
    BY <2>1, <2>4
<1> DEFINE P == [k \in 0..n |-> Past(m, Bound(events, k))]
<1>8. P \in [0..n -> m..N]
  <2> SUFFICES ASSUME NEW k \in 0..n
               PROVE  Past(m, Bound(events, k)) \in m..N
    OBVIOUS
  <2> QED
    BY <1>5, <1>6, <1>7 DEF Past
<1>9. P[0] = m
  BY <1>5, <1>7
<1>10. P[n] = N
  <2>1. P[n] = Past(m, N)
    BY <1>5, <1>6
  <2> HIDE DEF P
  <2> QED
    BY <1>5, <1>7, <2>1 DEF Past
<1>11. ASSUME NEW k \in 1..n
       PROVE  /\ P[k - 1] <= P[k]
              /\ Candidate(cursor, events[k]) = SubSeq(written, P[k - 1] + 1, P[k])
              /\ P[k - 1] < P[k] =>
                   events[k].start + Skip(cursor, events[k]) = P[k - 1] + 1
  <2>1. PICK p : p = Past(m, Bound(events, k - 1))
    OBVIOUS
  <2>2. PICK q : q = Past(m, Bound(events, k))
    OBVIOUS
  <2>3. k - 1 \in 0..n /\ k \in 0..n
    BY <1>5
  <2>4. P[k - 1] = p /\ P[k] = q
    BY <2>1, <2>2, <2>3
  <2>5. k \in 1..Len(events)
    BY <1>3
  <2> HIDE DEF P
  <2>6. /\ p \in m..N /\ q \in p..N
        /\ Candidate(cursor, events[k]) = SubSeq(written, p + 1, q)
        /\ p < q => events[k].start + Skip(cursor, events[k]) = p + 1
    <3>1. PICK evs : evs = events
      OBVIOUS
    <3>2. PICK w : w = written
      OBVIOUS
    <3>3. /\ w \in Seq(Characters) /\ Tiled(evs, w) /\ evs # <<>>
          /\ cursor \in 0..Len(w) /\ k \in 1..Len(evs)
          /\ m = Past(cursor, Bound(evs, 0))
          /\ p = Past(m, Bound(evs, k - 1)) /\ q = Past(m, Bound(evs, k))
      BY <1>1, <1>2, <2>1, <2>2, <2>5, <3>1, <3>2
    <3>4. \E x \in m..Len(w) : \E y \in x..Len(w) :
             /\ x = Past(m, Bound(evs, k - 1)) /\ y = Past(m, Bound(evs, k))
             /\ Candidate(cursor, evs[k]) = SubSeq(w, x + 1, y)
             /\ x < y => evs[k].start + Skip(cursor, evs[k]) = x + 1
      BY <3>3, CandidateIs
    <3>5. /\ p \in m..Len(w) /\ q \in p..Len(w)
          /\ Candidate(cursor, evs[k]) = SubSeq(w, p + 1, q)
          /\ p < q => evs[k].start + Skip(cursor, evs[k]) = p + 1
      BY <3>3, <3>4
    <3> QED
      BY <1>4, <3>1, <3>2, <3>5
  <2>7. p <= q
    BY <1>5, <1>7, <2>6
  <2> QED
    BY <2>4, <2>6, <2>7
<1> HIDE DEF P
<1>12. Places(P, m, cursor)
  BY <1>3, <1>4, <1>8, <1>9, <1>10, <1>11 DEF Places
<1> QED
  BY <1>4, <1>7, <1>12

(* The loop has charged a page for what lies between m and an event.       *)
LEMMA ChargedIs ==
  ASSUME Kept, NEW cursor, NEW m \in 0..Len(written), NEW P, Places(P, m, cursor),
         NEW i \in 1..Len(events)
  PROVE  ChargedBefore(cursor, i) = Weight(written, P[i - 1]) - Weight(written, m)
<1>1. written \in Seq(Characters) /\ Len(written) \in Nat /\ Len(events) \in Nat
  BY LenProperties DEF Kept, Tiled
<1>2. /\ \A k \in 0..Len(events) : P[k] \in m..Len(written)
      /\ P[0] = m
      /\ \A k \in 1..Len(events) :
           /\ P[k - 1] <= P[k]
           /\ Candidate(cursor, events[k]) = SubSeq(written, P[k - 1] + 1, P[k])
  BY DEF Places
<1> DEFINE W(k) == Weight(written, P[k])
           s(n) == [k \in 1..n |-> Bytes(Candidate(cursor, events[k]))]
           S == {n \in Nat : n <= Len(events) => Total(s(n)) = W(n) - W(0)}
<1>3. \A k \in 0..Len(events) : W(k) \in Nat /\ P[k] \in 0..Len(written)
  <2> SUFFICES ASSUME NEW k \in 0..Len(events)
               PROVE  W(k) \in Nat /\ P[k] \in 0..Len(written)
    OBVIOUS
  <2>1. P[k] \in 0..Len(written)
    BY <1>1, <1>2
  <2> QED
    BY <1>1, <2>1, WeightType
<1>4. ASSUME NEW k \in 1..Len(events)
      PROVE  /\ Bytes(Candidate(cursor, events[k])) = W(k) - W(k - 1)
             /\ Bytes(Candidate(cursor, events[k])) \in Nat
  <2>1. PICK p : p = P[k - 1]
    OBVIOUS
  <2>2. PICK q : q = P[k]
    OBVIOUS
  <2>3. k - 1 \in 0..Len(events) /\ k \in 0..Len(events)
    BY <1>1
  <2>4. p \in 0..Len(written) /\ q \in 0..Len(written) /\ p <= q
    BY <1>2, <1>3, <2>1, <2>2, <2>3
  <2>5. PICK a : a = p + 1
    OBVIOUS
  <2>6. a \in 1..(Len(written) + 1) /\ q \in (a - 1)..Len(written) /\ a - 1 = p
    BY <1>1, <2>4, <2>5
  <2>7. Bytes(SubSeq(written, a, q)) = Weight(written, q) - Weight(written, a - 1)
    BY <1>1, <2>6, BytesOfPiece
  <2>8. Candidate(cursor, events[k]) = SubSeq(written, a, q)
    BY <1>2, <2>1, <2>2, <2>5
  <2>9. Weight(written, p) <= Weight(written, q)
        /\ Weight(written, p) \in Nat /\ Weight(written, q) \in Nat
    BY <1>1, <2>4, WeightsOrder
  <2>10. /\ Bytes(Candidate(cursor, events[k])) = Weight(written, q) - Weight(written, p)
         /\ Bytes(Candidate(cursor, events[k])) \in Nat
    BY <2>6, <2>7, <2>8, <2>9
  <2> QED
    BY <2>1, <2>2, <2>10
<1>5. 0 \in S
  <2>1. s(0) \in [1..0 -> Nat]
    OBVIOUS
  <2>2. Total(s(0)) = 0
    <3> HIDE DEF s
    <3> QED
      BY <2>1, TotalOfNone
  <2>3. W(0) \in Nat
    BY <1>1, <1>3
  <2> HIDE DEF s, W
  <2> QED
    BY <2>2, <2>3
<1>6. ASSUME NEW n \in Nat, n \in S
      PROVE  n + 1 \in S
  <2> SUFFICES ASSUME n + 1 <= Len(events)
               PROVE  Total(s(n + 1)) = W(n + 1) - W(0)
    OBVIOUS
  <2>1. PICK k : k = n + 1
    OBVIOUS
  <2>2. k \in 1..Len(events) /\ k - 1 = n /\ n <= Len(events) /\ k = n + 1
        /\ n \in 0..Len(events) /\ k \in 0..Len(events) /\ 0 \in 0..Len(events)
    BY <1>1, <2>1
  <2>3. \A j \in 1..k : j \in 1..Len(events)
    BY <1>1, <2>2
  <2>4. s(k) \in [1..(n + 1) -> Nat] /\ s(n) \in [1..n -> Nat]
        /\ (\A j \in 1..n : s(k)[j] = s(n)[j]) /\ s(k)[n + 1] = W(k) - W(n)
    <3>1. s(k) \in [1..k -> Nat]
      BY <1>4, <2>3
    <3>2. s(n) \in [1..n -> Nat]
      <4>1. \A j \in 1..n : j \in 1..k
        BY <2>2
      <4> QED
        BY <1>4, <2>3, <4>1
    <3>3. \A j \in 1..n : s(k)[j] = s(n)[j]
      BY <2>2
    <3>4. s(k)[k] = W(k) - W(k - 1)
      BY <1>4, <2>2
    <3> HIDE DEF s, W
    <3> QED
      BY <2>1, <2>2, <3>1, <3>2, <3>3, <3>4
  <2>5. W(k) \in Nat /\ W(n) \in Nat /\ W(0) \in Nat
    BY <1>3, <2>2
  <2>6. Total(s(n)) = W(n) - W(0)
    BY <1>6, <2>2
  <2> HIDE DEF s, W
  <2>7. Total(s(k)) = Total(s(n)) + s(k)[n + 1]
    BY <2>4, TotalStep
  <2>8. Total(s(k)) = W(k) - W(0)
    BY <2>4, <2>5, <2>6, <2>7
  <2> QED
    BY <2>1, <2>8
<1>7. PICK n : n = i - 1
  OBVIOUS
<1>8. n \in Nat /\ n <= Len(events)
  BY <1>1, <1>7
<1>9. n \in S
  <2> HIDE DEF S
  <2> QED
    BY <1>5, <1>6, <1>8, SetInduction
<1>10. Total(s(n)) = Weight(written, P[n]) - Weight(written, m)
  BY <1>2, <1>8, <1>9
<1> QED
  BY <1>7, <1>10 DEF ChargedBefore

(* The end of a page: the last cursor whose text after m fits.             *)
Fits(w, m, end, max) ==
  /\ Weight(w, end) - Weight(w, m) <= max
  /\ end < Len(w) => Weight(w, end + 1) - Weight(w, m) > max

(* Such an end exists.                                                     *)
LEMMA EndExists ==
  ASSUME NEW w \in Seq(Characters), NEW m \in 0..Len(w), NEW max \in Nat
  PROVE  \E end \in m..Len(w) : Fits(w, m, end, max)
<1>1. Len(w) \in m..Len(w)
  BY LenProperties
<1>2. PICK b : b = Len(w)
  OBVIOUS
<1>3. b \in m..Len(w)
  BY <1>1, <1>2
<1>4. \E x \in m..b : /\ Weight(w, x) - Weight(w, m) <= max
                      /\ x < b => Weight(w, x + 1) - Weight(w, m) > max
  BY <1>3, FittingIs
<1> QED
  BY <1>2, <1>4 DEF Fits

(* Each event contributes its candidate up to that end.                    *)
Upto(end, x) == IF x <= end THEN x ELSE end

(* What the loop of _status_snapshot_locked takes of one event is that part*)
(* of its candidate, whether an earlier event was cut short, did not fit,  *)
(* or used up the room exactly.                                            *)
LEMMA SelectedIs ==
  ASSUME Kept, NEW cursor, NEW m \in 0..Len(written), NEW P, Places(P, m, cursor),
         NEW max \in Nat, NEW end \in m..Len(written), Fits(written, m, end, max),
         NEW i \in 1..Len(events)
  PROVE  Selected(cursor, max, i)
           = SubSeq(written, Upto(end, P[i - 1]) + 1, Upto(end, P[i]))
<1>1. PICK w : w = written
  OBVIOUS
<1>2. PICK N : N = Len(w)
  OBVIOUS
<1>3. PICK p : p = P[i - 1]
  OBVIOUS
<1>4. PICK q : q = P[i]
  OBVIOUS
<1>5. PICK e : e = end
  OBVIOUS
<1>6. /\ w \in Seq(Characters) /\ N \in Nat /\ m \in 0..N /\ e \in m..N
      /\ p \in m..N /\ q \in p..N /\ e \in 0..N /\ p \in 0..N /\ q \in 0..N
      /\ Candidate(cursor, events[i]) = SubSeq(w, p + 1, q)
  <2>1. w \in Seq(Characters) /\ N \in Nat /\ Len(events) \in Nat
    BY <1>1, <1>2, LenProperties DEF Kept, Tiled
  <2>2. i - 1 \in 0..Len(events) /\ i \in 0..Len(events)
    BY <2>1
  <2>3. /\ P[i - 1] \in m..Len(written) /\ P[i] \in m..Len(written) /\ P[i - 1] <= P[i]
        /\ Candidate(cursor, events[i]) = SubSeq(written, P[i - 1] + 1, P[i])
    BY <2>2 DEF Places
  <2>4. p \in m..N /\ q \in m..N /\ p <= q /\ m \in 0..N /\ e \in m..N
        /\ Candidate(cursor, events[i]) = SubSeq(w, p + 1, q)
    BY <1>1, <1>2, <1>3, <1>4, <1>5, <2>3
  <2> QED
    BY <2>1, <2>4
<1>7. PICK vm : vm = Weight(w, m)
  OBVIOUS
<1>8. PICK ve : ve = Weight(w, e)
  OBVIOUS
<1>9. PICK vp : vp = Weight(w, p)
  OBVIOUS
<1>10. \A c \in 0..N : Weight(w, c) \in Nat
  BY <1>2, <1>6, WeightType
<1>11. vm \in Nat /\ ve \in Nat /\ vp \in Nat
  BY <1>6, <1>7, <1>8, <1>9, <1>10
<1>12. ve - vm <= max /\ (e < N => Weight(w, e + 1) - vm > max)
  BY <1>1, <1>2, <1>5, <1>7, <1>8 DEF Fits
<1>13. ASSUME NEW x \in 0..N, NEW y \in 0..N, x <= y
       PROVE  Weight(w, x) <= Weight(w, y)
  BY <1>2, <1>6, <1>13, WeightsOrder
<1>14. PICK charged : charged = ChargedBefore(cursor, i)
  OBVIOUS
<1>15. charged = vp - vm
  BY <1>1, <1>3, <1>7, <1>9, <1>14, ChargedIs
<1>16. PICK text : text = Selected(cursor, max, i)
  OBVIOUS
<1>17. charged >= max => text = <<>>
  BY <1>14, <1>16 DEF Selected
<1>18. ASSUME ~(charged >= max)
       PROVE  \E x \in p..q :
                /\ text = SubSeq(w, p + 1, x)
                /\ Weight(w, x) <= max + vm
                /\ x < q => Weight(w, x + 1) > max + vm
  <2>1. PICK room : room = max - charged
    OBVIOUS
  <2>2. room \in Nat /\ room = max - (vp - vm)
    BY <1>11, <1>15, <1>18, <2>1
  <2>3. text = Fitting(SubSeq(w, p + 1, q), room)
    BY <1>6, <1>14, <1>16, <1>18, <2>1 DEF Selected
  <2>4. p \in 0..Len(w) /\ q \in p..Len(w)
    BY <1>2, <1>6
  <2>5. PICK x \in p..q :
          /\ Fitting(SubSeq(w, p + 1, q), room) = SubSeq(w, p + 1, x)
          /\ Weight(w, x) - Weight(w, p) <= room
          /\ x < q => Weight(w, x + 1) - Weight(w, p) > room
    BY <1>6, <2>2, <2>4, FittingIs
  <2>6. x \in 0..N /\ (x < q => x + 1 \in 0..N)
    BY <1>6
  <2>7. PICK vx : vx = Weight(w, x)
    OBVIOUS
  <2>8. PICK vy : vy = Weight(w, x + 1)
    OBVIOUS
  <2>9. vx \in Nat /\ (x < q => vy \in Nat)
    BY <1>10, <2>6, <2>7, <2>8
  <2>10. vx - vp <= room /\ (x < q => vy - vp > room)
    BY <1>9, <2>5, <2>7, <2>8
  <2>11. vx <= max + vm
    BY <1>11, <2>2, <2>9, <2>10
  <2>12. x < q => vy > max + vm
    BY <1>11, <2>2, <2>9, <2>10
  <2> QED
    BY <2>3, <2>5, <2>7, <2>8, <2>11, <2>12
<1>19. PICK bound : bound = max + vm
  OBVIOUS
<1>20. bound \in Nat /\ ve <= bound /\ (charged >= max <=> vp >= bound)
  BY <1>11, <1>12, <1>15, <1>19
<1>21. e < N => Weight(w, e + 1) > bound /\ e + 1 \in 0..N /\ Weight(w, e + 1) \in Nat
  <2> SUFFICES ASSUME e < N
               PROVE  Weight(w, e + 1) > bound /\ e + 1 \in 0..N
                      /\ Weight(w, e + 1) \in Nat
    OBVIOUS
  <2>1. PICK f : f = e + 1
    OBVIOUS
  <2>2. f \in 0..N
    BY <1>6, <2>1
  <2>3. PICK vf : vf = Weight(w, f)
    OBVIOUS
  <2>4. vf \in Nat
    BY <1>10, <2>2, <2>3
  <2>5. vf - vm > max
    BY <1>12, <2>1, <2>3
  <2>6. vf > bound
    BY <1>11, <1>19, <2>4, <2>5
  <2> QED
    BY <2>1, <2>2, <2>3, <2>4, <2>6
<1>22. text = SubSeq(w, Upto(e, p) + 1, Upto(e, q))
  <2>1. CASE p > e
    <3>1. Upto(e, p) = e /\ Upto(e, q) = e /\ e < N
      BY <1>6, <2>1 DEF Upto
    <3>2. SubSeq(w, e + 1, e) = <<>>
      BY <1>6, SubSeqEmpty
    <3>3. PICK f : f = e + 1
      OBVIOUS
    <3>4. f \in 0..N /\ f <= p /\ Weight(w, f) > bound /\ Weight(w, f) \in Nat
      BY <1>6, <1>21, <2>1, <3>1, <3>3
    <3>5. Weight(w, f) <= vp
      BY <1>6, <1>9, <1>13, <3>4
    <3>6. vp >= bound
      BY <1>11, <1>20, <3>4, <3>5
    <3> QED
      BY <1>17, <1>20, <3>1, <3>2, <3>6
  <2>2. CASE p <= e /\ vp >= bound
    <3>1. vp >= ve
      BY <1>11, <1>20, <2>2
    <3>2. p = e
      <4>1. ~(p < e)
        <5>1. p < e => Weight(w, p) < Weight(w, e)
          BY <1>2, <1>6, WeightsOrder
        <5> QED
          BY <1>8, <1>9, <1>11, <3>1, <5>1
      <4> QED
        BY <1>6, <2>2, <4>1
    <3>3. Upto(e, p) = e /\ Upto(e, q) = e
      BY <1>6, <3>2 DEF Upto
    <3>4. SubSeq(w, e + 1, e) = <<>>
      BY <1>6, SubSeqEmpty
    <3> QED
      BY <1>17, <1>20, <2>2, <3>3, <3>4
  <2>3. CASE p <= e /\ ~(vp >= bound)
    <3>1. PICK x \in p..q : /\ text = SubSeq(w, p + 1, x)
                            /\ Weight(w, x) <= bound
                            /\ x < q => Weight(w, x + 1) > bound
      BY <1>18, <1>19, <1>20, <2>3
    <3>2. x \in 0..N
      BY <1>6
    <3>3. ~(x > e)
      <4> SUFFICES ASSUME x > e
                   PROVE  FALSE
        OBVIOUS
      <4>1. PICK f : f = e + 1
        OBVIOUS
      <4>2. f \in 0..N /\ f <= x /\ Weight(w, f) > bound /\ Weight(w, f) \in Nat
        BY <1>6, <1>21, <3>2, <4>1
      <4>3. Weight(w, f) <= Weight(w, x) /\ Weight(w, x) \in Nat
        BY <1>10, <1>13, <3>2, <4>2
      <4> QED
        BY <1>20, <3>1, <4>2, <4>3
    <3>4. ~(x < e /\ x < q)
      <4> SUFFICES ASSUME x < e, x < q
                   PROVE  FALSE
        OBVIOUS
      <4>1. PICK y : y = x + 1
        OBVIOUS
      <4>2. y \in 0..N /\ y <= e
        BY <1>6, <3>2, <4>1
      <4>3. Weight(w, y) <= ve /\ Weight(w, y) \in Nat
        BY <1>6, <1>8, <1>10, <1>13, <4>2
      <4>4. Weight(w, y) > bound
        BY <3>1, <4>1
      <4> QED
        BY <1>11, <1>20, <4>3, <4>4
    <3>5. Upto(e, p) = p /\ Upto(e, q) = x
      BY <1>6, <2>3, <3>2, <3>3, <3>4 DEF Upto
    <3> QED
      BY <3>1, <3>5
  <2>4. p > e \/ p <= e
    BY <1>6
  <2> QED
    BY <2>1, <2>2, <2>3, <2>4
<1> QED
  BY <1>1, <1>3, <1>4, <1>5, <1>16, <1>22

(* Where the selected texts meet.                                          *)
Marks(R, m, end, cursor, max) ==
  /\ R \in [0..Len(events) -> m..end]
  /\ R[0] = m /\ R[Len(events)] = end
  /\ \A k \in 1..Len(events) :
       /\ R[k - 1] <= R[k]
       /\ Selected(cursor, max, k) = SubSeq(written, R[k - 1] + 1, R[k])
       /\ R[k - 1] < R[k] => events[k].start + Skip(cursor, events[k]) = R[k - 1] + 1

(* The selected texts meet end to end, from m to the end of the page.      *)
LEMMA MarksExist ==
  ASSUME Kept, NEW cursor \in 0..Len(written), NEW max \in Nat,
         NEW m, m = Past(cursor, FirstCursor - 1)
  PROVE  /\ m \in 0..Len(written)
         /\ \E end \in m..Len(written) :
              Fits(written, m, end, max) /\ \E R : Marks(R, m, end, cursor, max)
<1>1. written \in Seq(Characters) /\ Len(written) \in Nat /\ Len(events) \in Nat
  BY LenProperties DEF Kept, Tiled
<1>2. m \in 0..Len(written)
  <2>1. PICK f : f = FirstCursor - 1
    OBVIOUS
  <2>2. f \in 0..Len(written)
    BY <2>1, FirstIs
  <2>3. m = Past(cursor, f)
    BY <2>1
  <2> QED
    BY <1>1, <2>2, <2>3 DEF Past
<1>3. PICK end \in m..Len(written) : Fits(written, m, end, max)
  BY <1>1, <1>2, EndExists
<1>4. CASE events = <<>>
  <2> DEFINE R == [k \in 0..Len(events) |-> m]
  <2>1. Len(events) = 0
    BY <1>4
  <2>2. written = <<>>
    BY <1>4 DEF Kept
  <2>3. Len(written) = 0
    BY <2>2
  <2>4. m = 0 /\ end = 0
    BY <1>2, <2>3
  <2>5. R \in [0..Len(events) -> m..end] /\ R[0] = m /\ R[Len(events)] = end
    BY <2>1, <2>4
  <2>6. 1..Len(events) = {}
    BY <2>1
  <2> HIDE DEF R
  <2>7. Marks(R, m, end, cursor, max)
    BY <2>5, <2>6 DEF Marks
  <2> QED
    BY <1>2, <1>3, <2>7
<1>5. CASE events # <<>>
  <2>1. PICK P : Places(P, m, cursor)
    BY <1>5, PlacesExist
  <2>2. PICK n : n = Len(events)
    OBVIOUS
  <2>3. PICK N : N = Len(written)
    OBVIOUS
  <2>4. n \in Nat /\ N \in Nat /\ m \in 0..N /\ end \in m..N
    BY <1>1, <1>2, <1>3, <2>2, <2>3
  <2>5. (\A k \in 0..n : P[k] \in m..N) /\ P[0] = m /\ P[n] = N
        /\ \A k \in 1..n :
             /\ P[k - 1] <= P[k]
             /\ P[k - 1] < P[k] =>
                  events[k].start + Skip(cursor, events[k]) = P[k - 1] + 1
    BY <2>1, <2>2, <2>3 DEF Places
  <2> DEFINE R == [k \in 0..n |-> Upto(end, P[k])]
  <2>6. R \in [0..n -> m..end]
    <3> SUFFICES ASSUME NEW k \in 0..n
                 PROVE  Upto(end, P[k]) \in m..end
      OBVIOUS
    <3>1. P[k] \in m..N
      BY <2>5
    <3> QED
      BY <2>4, <3>1 DEF Upto
  <2>7. R[0] = m
    BY <2>4, <2>5 DEF Upto
  <2>8. R[n] = end
    BY <2>4, <2>5 DEF Upto
  <2>9. ASSUME NEW k \in 1..n
        PROVE  /\ R[k - 1] <= R[k]
               /\ Selected(cursor, max, k) = SubSeq(written, R[k - 1] + 1, R[k])
               /\ R[k - 1] < R[k] =>
                    events[k].start + Skip(cursor, events[k]) = R[k - 1] + 1
    <3>1. PICK p : p = P[k - 1]
      OBVIOUS
    <3>2. PICK q : q = P[k]
      OBVIOUS
    <3>3. k - 1 \in 0..n /\ k \in 0..n /\ k \in 1..Len(events)
      BY <2>2, <2>4
    <3>4. R[k - 1] = Upto(end, p) /\ R[k] = Upto(end, q)
      BY <3>1, <3>2, <3>3
    <3> HIDE DEF R
    <3>5. p \in m..N /\ q \in m..N /\ p <= q
          /\ (p < q => events[k].start + Skip(cursor, events[k]) = p + 1)
      BY <2>5, <3>1, <3>2, <3>3
    <3>6. Selected(cursor, max, k)
            = SubSeq(written, Upto(end, P[k - 1]) + 1, Upto(end, P[k]))
      BY <1>2, <1>3, <2>1, <3>3, SelectedIs
    <3>7. Selected(cursor, max, k) = SubSeq(written, Upto(end, p) + 1, Upto(end, q))
      BY <3>1, <3>2, <3>6
    <3>8. Upto(end, p) <= Upto(end, q)
          /\ (Upto(end, p) < Upto(end, q) => p < q /\ Upto(end, p) = p)
      BY <2>4, <3>5 DEF Upto
    <3> QED
      BY <3>4, <3>5, <3>7, <3>8
  <2> HIDE DEF R
  <2>10. Marks(R, m, end, cursor, max)
    BY <2>2, <2>6, <2>7, <2>8, <2>9 DEF Marks
  <2> QED
    BY <1>2, <1>3, <2>10
<1> QED
  BY <1>4, <1>5

(* A page is the text after m up to its end.                               *)
LEMMA PageIs ==
  ASSUME Kept, NEW cursor \in 0..Len(written), NEW max \in Nat,
         NEW reply, reply = StatusPage(cursor, max),
         NEW m \in 0..Len(written), NEW end \in m..Len(written),
         NEW R, Marks(R, m, end, cursor, max)
  PROVE  /\ reply.cursor = cursor /\ reply.max = max
         /\ reply.next = IF end = m THEN cursor ELSE end
         /\ Learned(reply) = {<<c, written[c]>> : c \in (m + 1)..end}
         /\ reply.hasMore = (reply.next < nextCursor - 1)
         /\ reply.truncatedBefore = TruncatedBefore(cursor)
<1> DEFINE shown == {i \in 1..Len(events) : Selected(cursor, max, i) # <<>>}
           entry(i) == Entry(cursor, max, i)
           next == IF shown = {} THEN cursor ELSE entry(Max(shown)).cursor
           listed == [i \in shown |-> entry(i)]
<1>1. /\ reply.cursor = cursor /\ reply.max = max
      /\ reply.events = listed /\ reply.next = next
      /\ reply.hasMore = (next < nextCursor - 1)
      /\ reply.truncatedBefore = TruncatedBefore(cursor)
  <2>1. reply = [cursor |-> cursor, max |-> max, events |-> listed, next |-> next,
                 hasMore |-> next < nextCursor - 1,
                 truncatedBefore |-> TruncatedBefore(cursor)]
    BY Zenon DEF StatusPage
  <2> HIDE DEF shown, entry, next, listed
  <2> QED
    BY <2>1
<1>2. PICK n : n = Len(events)
  OBVIOUS
<1>3. PICK w : w = written
  OBVIOUS
<1>4. /\ n \in Nat /\ w \in Seq(Characters) /\ Len(w) \in Nat
      /\ m \in 0..Len(w) /\ end \in m..Len(w)
  BY <1>2, <1>3, LenProperties DEF Kept, Tiled
<1>5. /\ R \in [0..n -> m..end] /\ R[0] = m /\ R[n] = end
      /\ \A k \in 1..n :
           /\ R[k - 1] <= R[k]
           /\ Selected(cursor, max, k) = SubSeq(w, R[k - 1] + 1, R[k])
           /\ R[k - 1] < R[k] =>
                events[k].start + Skip(cursor, events[k]) = R[k - 1] + 1
  BY <1>2, <1>3 DEF Marks
<1>6. R \in [0..n -> Nat] /\ \A k \in 0..n : R[k] \in 0..Len(w)
  <2>1. \A x \in m..end : x \in Nat /\ x \in 0..Len(w)
    BY <1>4
  <2>2. R \in [0..n -> m..end]
    BY <1>5
  <2> QED
    BY <2>1, <2>2
<1>7. ASSUME NEW k \in 1..n
      PROVE  /\ k \in shown <=> R[k - 1] < R[k]
             /\ R[k - 1] \in 0..Len(w) /\ R[k] \in R[k - 1]..Len(w)
             /\ k \in shown =>
                  /\ entry(k).cursor = R[k]
                  /\ Len(entry(k).text) = R[k] - R[k - 1]
                  /\ \A j \in 1..(R[k] - R[k - 1]) : entry(k).text[j] = w[R[k - 1] + j]
  <2>1. PICK x : x = R[k - 1]
    OBVIOUS
  <2>2. PICK y : y = R[k]
    OBVIOUS
  <2>3. k - 1 \in 0..n /\ k \in 0..n
    BY <1>4
  <2>4. x \in 0..Len(w) /\ y \in x..Len(w)
    BY <1>4, <1>5, <1>6, <2>1, <2>2, <2>3
  <2>5. PICK text : text = Selected(cursor, max, k)
    OBVIOUS
  <2>6. text = SubSeq(w, x + 1, y)
    BY <1>5, <2>1, <2>2, <2>5
  <2>7. Len(text) = y - x /\ \A j \in 1..(y - x) : text[j] = w[x + j]
    <3>1. PICK a : a = x + 1
      OBVIOUS
    <3>2. a \in 1..(Len(w) + 1) /\ y \in (a - 1)..Len(w) /\ y - a + 1 = y - x
      BY <1>4, <2>4, <3>1
    <3>3. Len(SubSeq(w, a, y)) = y - a + 1
          /\ \A j \in 1..(y - a + 1) : SubSeq(w, a, y)[j] = w[a + j - 1]
      BY <1>4, <3>2, PieceIs
    <3>4. \A j \in 1..(y - x) : a + j - 1 = x + j
      BY <2>4, <3>1
    <3> QED
      BY <2>6, <3>1, <3>2, <3>3, <3>4
  <2>8. text = <<>> <=> ~(x < y)
    <3>1. CASE x < y
      <4>1. Len(text) # 0
        BY <2>4, <2>7, <3>1
      <4> QED
        BY <3>1, <4>1, Len(<<>>) = 0
    <3>2. CASE ~(x < y)
      <4>1. x = y
        BY <1>4, <2>4, <3>2
      <4> QED
        BY <1>4, <2>4, <2>6, <3>2, <4>1, SubSeqEmpty
    <3> QED
      BY <3>1, <3>2
  <2>9. k \in shown <=> x < y
    BY <1>2, <2>5, <2>8
  <2>10. k \in shown => entry(k).cursor = y /\ entry(k).text = text
    <3> SUFFICES ASSUME k \in shown
                 PROVE  entry(k).cursor = y /\ entry(k).text = text
      OBVIOUS
    <3>1. PICK at : at = events[k].start + Skip(cursor, events[k])
      OBVIOUS
    <3>2. at = x + 1
      BY <1>5, <2>1, <2>2, <2>9, <3>1
    <3>3. PICK last : last = at + Len(text) - 1
      OBVIOUS
    <3>4. last = y
      BY <1>4, <2>4, <2>7, <3>2, <3>3
    <3>5. entry(k) = [cursor |-> last, stream |-> events[k].stream, text |-> text]
      BY <2>5, <3>1, <3>3, Zenon DEF Entry
    <3> HIDE DEF entry
    <3> QED
      BY <3>4, <3>5
  <2> HIDE DEF shown, entry
  <2> QED
    BY <2>1, <2>2, <2>4, <2>7, <2>9, <2>10
<1>8. shown \subseteq 1..n
  BY <1>2
<1> HIDE DEF shown, entry
<1>9. ASSUME NEW c \in (m + 1)..end
      PROVE  \E k \in shown : R[k - 1] < c /\ c <= R[k]
  <2>1. c \in Nat /\ R[0] < c /\ c <= R[n]
    BY <1>4, <1>5
  <2>2. PICK k \in 1..n : R[k - 1] < c /\ c <= R[k]
    BY <1>4, <1>6, <2>1, Passed
  <2>3. R[k - 1] < R[k]
    BY <1>4, <1>7, <2>1, <2>2
  <2> QED
    BY <1>7, <2>2, <2>3
<1>10. next = IF end = m THEN cursor ELSE end
  <2>1. CASE end = m
    <3>1. shown = {}
      <4> SUFFICES ASSUME NEW k \in shown
                   PROVE  FALSE
        OBVIOUS
      <4>1. k \in 1..n
        BY <1>8
      <4>2. k \in 0..n /\ k - 1 \in 0..n
        BY <1>4, <4>1
      <4>3. R[k] \in m..end /\ R[k - 1] \in m..end
        BY <1>5, <4>2
      <4>4. R[k - 1] < R[k]
        BY <1>7, <4>1
      <4> QED
        BY <1>4, <2>1, <4>3, <4>4
    <3> QED
      BY <2>1, <3>1
  <2>2. CASE end # m
    <3>1. end \in (m + 1)..end
      BY <1>4, <2>2
    <3>2. PICK k \in shown : R[k - 1] < end /\ end <= R[k]
      BY <1>9, <3>1
    <3>3. shown # {}
      BY <3>2
    <3>4. ASSUME NEW i \in shown
          PROVE  k <= i => R[i] = end
      <4> SUFFICES ASSUME k <= i
                   PROVE  R[i] = end
        OBVIOUS
      <4>1. k \in 0..i /\ i \in 0..n
        BY <1>4, <1>8, <3>2
      <4>2. R[k] <= R[i]
        BY <1>4, <1>5, <1>6, <4>1, Rising
      <4>3. k \in 0..n
        BY <1>4, <1>8, <3>2
      <4>4. R[i] \in m..end /\ R[k] \in m..end
        BY <1>5, <4>1, <4>3
      <4> QED
        BY <1>4, <3>2, <4>2, <4>4
    <3>5. PICK i \in shown : \A j \in shown : j <= i
      <4> DEFINE T == {n - j : j \in shown}
      <4>1. T \subseteq Nat /\ T # {}
        BY <1>4, <1>8, <3>3
      <4>2. PICK t \in T : \A u \in T : t <= u
        <5> HIDE DEF T
        <5> QED
          BY <4>1, Least
      <4>3. PICK i \in shown : t = n - i
        BY <4>2
      <4>4. ASSUME NEW j \in shown
            PROVE  j <= i
        <5>1. n - i <= n - j
          BY <4>2, <4>3
        <5> QED
          BY <1>4, <1>8, <5>1
      <4> QED
        BY <4>3, <4>4
    <3>6. Max(shown) = i
      <4>1. i \in Nat /\ shown \in SUBSET (1..i) /\ i \in shown
        BY <1>4, <1>8, <3>5
      <4> QED
        BY <4>1, MaxIs
    <3>7. R[i] = end /\ entry(i).cursor = R[i]
      <4>1. k <= i /\ i \in 1..n
        BY <1>8, <3>2, <3>5
      <4> QED
        BY <1>7, <3>4, <3>5, <4>1
    <3> QED
      BY <2>2, <3>3, <3>6, <3>7
  <2> QED
    BY <2>1, <2>2
<1>11. Learned(reply) = {<<c, w[c]>> : c \in (m + 1)..end}
  <2>1. Learned(reply) = UNION {{<<e.cursor - Len(e.text) + j, e.text[j]>> :
                                   j \in 1..Len(e.text)} : e \in Range(listed)}
    BY <1>1 DEF Learned
  <2>2. ASSUME NEW k \in shown, NEW j \in 1..(R[k] - R[k - 1])
        PROVE  /\ R[k] - (R[k] - R[k - 1]) + j = R[k - 1] + j
               /\ R[k - 1] + j \in (m + 1)..end
    <3>1. PICK x : x = R[k - 1]
      OBVIOUS
    <3>2. PICK y : y = R[k]
      OBVIOUS
    <3>3. k \in 1..n
      BY <1>8
    <3>4. k \in 0..n /\ k - 1 \in 0..n
      BY <1>4, <3>3
    <3>5. x \in m..end /\ y \in m..end
      BY <1>5, <3>1, <3>2, <3>4
    <3>6. j \in 1..(y - x)
      BY <3>1, <3>2
    <3>7. y - (y - x) + j = x + j /\ x + j \in (m + 1)..end
      BY <1>4, <3>5, <3>6
    <3> QED
      BY <3>1, <3>2, <3>7
  <2>3. ASSUME NEW g \in Learned(reply)
        PROVE  g \in {<<c, w[c]>> : c \in (m + 1)..end}
    <3>1. PICK k \in shown :
            \E j \in 1..Len(entry(k).text) :
              g = <<entry(k).cursor - Len(entry(k).text) + j, entry(k).text[j]>>
      BY <2>1 DEF Range
    <3>2. PICK j \in 1..Len(entry(k).text) :
            g = <<entry(k).cursor - Len(entry(k).text) + j, entry(k).text[j]>>
      BY <3>1
    <3>3. k \in 1..n
      BY <1>8
    <3>4. /\ entry(k).cursor = R[k] /\ Len(entry(k).text) = R[k] - R[k - 1]
          /\ \A i \in 1..(R[k] - R[k - 1]) : entry(k).text[i] = w[R[k - 1] + i]
      BY <1>7, <3>1, <3>3
    <3>5. j \in 1..(R[k] - R[k - 1])
      BY <3>2, <3>4
    <3>6. g = <<R[k - 1] + j, w[R[k - 1] + j]>> /\ R[k - 1] + j \in (m + 1)..end
      BY <2>2, <3>1, <3>2, <3>4, <3>5
    <3> QED
      BY <3>6
  <2>4. ASSUME NEW c \in (m + 1)..end
        PROVE  <<c, w[c]>> \in Learned(reply)
    <3>1. PICK k \in shown : R[k - 1] < c /\ c <= R[k]
      BY <1>9
    <3>2. k \in 1..n
      BY <1>8
    <3>3. /\ entry(k).cursor = R[k] /\ Len(entry(k).text) = R[k] - R[k - 1]
          /\ \A i \in 1..(R[k] - R[k - 1]) : entry(k).text[i] = w[R[k - 1] + i]
          /\ R[k - 1] \in 0..Len(w) /\ R[k] \in R[k - 1]..Len(w)
      BY <1>7, <3>1, <3>2
    <3>4. PICK j : j = c - R[k - 1]
      OBVIOUS
    <3>5. j \in 1..(R[k] - R[k - 1]) /\ R[k - 1] + j = c
      <4>1. PICK a, b : a = R[k - 1] /\ b = R[k]
        OBVIOUS
      <4>2. a \in Nat /\ b \in Nat /\ c \in Nat /\ a < c /\ c <= b /\ j = c - a
        BY <1>4, <3>1, <3>3, <3>4, <4>1
      <4>3. j \in 1..(b - a) /\ a + j = c
        BY <4>2
      <4> QED
        BY <4>1, <4>3
    <3>6. R[k] - (R[k] - R[k - 1]) + j = R[k - 1] + j
      BY <2>2, <3>1, <3>5
    <3>7. <<entry(k).cursor - Len(entry(k).text) + j, entry(k).text[j]>> = <<c, w[c]>>
      BY <3>3, <3>5, <3>6
    <3>8. listed[k] = entry(k) /\ k \in DOMAIN listed
      BY <3>1
    <3> HIDE DEF listed
    <3>9. entry(k) \in Range(listed)
      BY <3>8 DEF Range
    <3>10. j \in 1..Len(entry(k).text)
      BY <3>3, <3>5
    <3> QED
      BY <2>1, <3>7, <3>9, <3>10
  <2> QED
    BY <2>3, <2>4
<1> QED
  BY <1>1, <1>3, <1>10, <1>11

-----------------------------------------------------------------------------
(* The invariant and the theorems.                                         *)

OutputInv == TypeOK /\ Kept /\ page.next < nextCursor /\ NoSilentLoss

(* Before the first read nothing is retained and nothing was read.         *)
LEMMA OutputInit == Init => OutputInv
<1> SUFFICES ASSUME Init
             PROVE  OutputInv
  OBVIOUS
<1>1. /\ written = <<>> /\ sent = [s \in Streams |-> 0]
      /\ reader = [s \in Streams |-> "reading"]
      /\ over = FALSE
      /\ events = <<>> /\ nextCursor = 1 /\ retained = 0 /\ truncated = FALSE
      /\ page.next = 0 /\ got = {} /\ lossy = FALSE
  BY DEF Init, NoPage
<1>2. \A s \in Streams : Len(Width[s]) \in Nat
  BY OutputAssumption, LenProperties
<1>3. <<>> \in Seq(Characters) /\ <<>> \in Seq(Event) /\ Len(<<>>) = 0
  OBVIOUS
<1>4. TypeOK
  <2>1. written \in Seq(Characters) /\ events \in Seq(Event)
    BY <1>1, <1>3
  <2>2. (\A s \in Streams : sent[s] \in 0..Len(Width[s])) /\ DOMAIN sent = Streams
    BY <1>1, <1>2
  <2>3. reader \in [Streams -> {"reading", "late", "done"}]
    BY <1>1
  <2>4. over \in BOOLEAN /\ truncated \in BOOLEAN /\ lossy \in BOOLEAN
    BY <1>1
  <2>5. nextCursor \in Nat \ {0} /\ retained \in 0..OutputLimit
        /\ page.next \in Nat /\ got \subseteq (Nat \ {0}) \X Characters
    BY <1>1, OutputAssumption
  <2> QED
    BY <2>1, <2>2, <2>3, <2>4, <2>5 DEF TypeOK
<1>5. FirstCursor = 1
  BY <1>1 DEF FirstCursor
<1>6. Tiled(events, written)
  BY <1>1, <1>3 DEF Tiled
<1>7. retained = Weight(written, Len(written)) - Weight(written, FirstCursor - 1)
  <2>1. Weight(written, 0) = 0
    BY WeightOfNone
  <2>2. Len(written) = 0 /\ FirstCursor - 1 = 0
    BY <1>1, <1>3, <1>5
  <2> QED
    BY <1>1, <2>1, <2>2
<1>8. Kept
  <2>1. written \in Seq(Characters) /\ (events = <<>> => written = <<>>)
    BY <1>1, <1>3
  <2>2. nextCursor = Len(written) + 1
    BY <1>1, <1>3
  <2>3. retained \in 0..OutputLimit
    BY <1>1, OutputAssumption
  <2>4. truncated \in BOOLEAN /\ ~truncated
    BY <1>1
  <2> QED
    BY <1>5, <1>6, <1>7, <2>1, <2>2, <2>3, <2>4 DEF Kept
<1>9. NoSilentLoss
  BY <1>1 DEF NoSilentLoss
<1> QED
  BY <1>1, <1>4, <1>8, <1>9 DEF OutputInv

(* Text appended later changes nothing of what a client has read.          *)
LEMMA ReadChunkKeeps ==
  ASSUME OutputInv, NEW s \in Streams, NEW k \in 1..ChunkChars, ReadChunk(s, k)
  PROVE  OutputInv'
<1> DEFINE t == [i \in 1..k |-> Char(s, sent[s] + i)]
<1>1. /\ TypeOK /\ Kept /\ page.next < nextCursor /\ NoSilentLoss
  BY DEF OutputInv
<1>2. Len(Width[s]) \in Nat /\ sent[s] \in 0..Len(Width[s]) /\ k \in Nat \ {0}
  BY <1>1, OutputAssumption, LenProperties DEF TypeOK
<1>3. sent[s] + k <= Len(Width[s]) /\ sent[s] \in Nat
  BY <1>2 DEF ReadChunk
<1>4. t \in Seq(Characters) /\ Len(t) = k
  BY <1>2, <1>3, ChunkIs
<1>5. /\ Append_output(s, t) /\ reader[s] # "done"
      /\ sent' = [sent EXCEPT ![s] = @ + k]
      /\ reader' = [reader EXCEPT ![s] = IF @ = "late" THEN "done" ELSE @]
      /\ over' = over /\ page' = page /\ got' = got /\ lossy' = lossy
  BY DEF ReadChunk, clientVars
<1> HIDE DEF t
<1>6. Kept' /\ FirstCursor' >= FirstCursor
  BY <1>1, <1>4, <1>5, AppendKeeps
<1>7. nextCursor' = nextCursor + k /\ written' = written \o t
  BY <1>4, <1>5 DEF Append_output
<1>8. Len(written) \in Nat /\ nextCursor = Len(written) + 1
      /\ written \in Seq(Characters) /\ page.next \in Nat
  BY <1>1, LenProperties DEF Kept, TypeOK
<1>9. TypeOK'
  <2>1. \A r \in Streams : sent'[r] \in 0..Len(Width[r])
    <3> SUFFICES ASSUME NEW r \in Streams
                 PROVE  sent'[r] \in 0..Len(Width[r])
      OBVIOUS
    <3>1. sent[r] \in 0..Len(Width[r]) /\ DOMAIN sent = Streams
      BY <1>1 DEF TypeOK
    <3>2. CASE r = s
      <4>1. sent'[r] = sent[s] + k
        BY <1>5, <3>1, <3>2
      <4> QED
        BY <1>2, <1>3, <3>2, <4>1
    <3>3. CASE r # s
      BY <1>5, <3>1, <3>3
    <3> QED
      BY <3>2, <3>3
  <2>2. DOMAIN sent' = Streams
    BY <1>1, <1>5 DEF TypeOK
  <2>3. reader' \in [Streams -> {"reading", "late", "done"}]
    BY <1>1, <1>5 DEF TypeOK
  <2>4. over' \in BOOLEAN /\ truncated' \in BOOLEAN /\ lossy' \in BOOLEAN
    BY <1>1, <1>5, <1>6 DEF TypeOK, Kept
  <2>5. nextCursor' \in Nat \ {0} /\ retained' \in 0..OutputLimit
        /\ written' \in Seq(Characters) /\ events' \in Seq(Event)
    BY <1>2, <1>6, <1>7, <1>8 DEF Kept, Tiled
  <2>6. page'.next \in Nat /\ got' \subseteq (Nat \ {0}) \X Characters
    BY <1>1, <1>5 DEF TypeOK
  <2> QED
    BY <2>1, <2>2, <2>3, <2>4, <2>5, <2>6 DEF TypeOK
<1>10. page'.next < nextCursor'
  BY <1>1, <1>2, <1>5, <1>7, <1>8
<1>11. NoSilentLoss'
  <2>1. ASSUME NEW g \in got'
        PROVE  g[1] <= page'.next /\ g[2] = written'[g[1]]
    <3>1. g[1] <= page.next /\ g[2] = written[g[1]] /\ g[1] \in Nat \ {0}
      BY <1>1, <1>5 DEF NoSilentLoss, TypeOK
    <3>2. PICK c : c = g[1]
      OBVIOUS
    <3>3. c \in 1..Len(written)
      BY <1>1, <1>8, <3>1, <3>2
    <3>4. (written \o t)[c] = written[c]
      BY <1>4, <1>8, <3>3, ConcatProperties
    <3> QED
      BY <1>5, <1>7, <3>1, <3>2, <3>4
  <2>2. \A c \in 1..page'.next : lossy' \/ \E g \in got' : g[1] = c
    BY <1>1, <1>5 DEF NoSilentLoss
  <2> QED
    BY <2>1, <2>2 DEF NoSilentLoss
<1> QED
  BY <1>6, <1>9, <1>10, <1>11 DEF OutputInv

(* A page adds to what the client has read the text after its cursor, or   *)
(* after the text that is gone, and then it says so.                       *)
LEMMA PollKeeps ==
  ASSUME OutputInv, NEW maxBytes \in PageSizes, Poll(maxBytes)
  PROVE  OutputInv'
<1>1. /\ TypeOK /\ Kept /\ page.next < nextCursor /\ NoSilentLoss
  BY DEF OutputInv
<1>2. PICK cursor : cursor = page.next
  OBVIOUS
<1>3. PICK reply : reply = StatusPage(cursor, maxBytes)
  OBVIOUS
<1>4. /\ page' = reply /\ got' = got \cup Learned(reply)
      /\ lossy' = (lossy \/ reply.truncatedBefore)
      /\ written' = written /\ sent' = sent /\ reader' = reader /\ over' = over
      /\ events' = events /\ nextCursor' = nextCursor /\ retained' = retained
      /\ truncated' = truncated
  BY <1>2, <1>3 DEF Poll, jobVars
<1>5. PICK N : N = Len(written)
  OBVIOUS
<1>6. N \in Nat /\ nextCursor = N + 1 /\ written \in Seq(Characters) /\ cursor \in 0..N
  BY <1>1, <1>2, <1>5, LenProperties DEF Kept, TypeOK
<1>7. maxBytes \in Nat
  BY OutputAssumption
<1>8. PICK f : f = FirstCursor
  OBVIOUS
<1>9. f \in 1..(N + 1)
  BY <1>1, <1>5, <1>8, FirstIs
<1>10. PICK m : m = Past(cursor, FirstCursor - 1)
  OBVIOUS
<1>11. cursor \in 0..Len(written)
  BY <1>5, <1>6
<1>12. PICK end \in m..Len(written) : \E R : Marks(R, m, end, cursor, maxBytes)
  BY <1>1, <1>7, <1>10, <1>11, MarksExist
<1>13. m \in 0..Len(written)
  BY <1>1, <1>7, <1>10, <1>11, MarksExist
<1>14. PICK R : Marks(R, m, end, cursor, maxBytes)
  BY <1>12
<1>15. /\ reply.next = IF end = m THEN cursor ELSE end
       /\ Learned(reply) = {<<c, written[c]>> : c \in (m + 1)..end}
       /\ reply.truncatedBefore = TruncatedBefore(cursor)
  BY <1>1, <1>3, <1>7, <1>11, <1>13, <1>14, PageIs
<1>16. m \in cursor..N /\ end \in m..N /\ (m = cursor \/ cursor < f - 1)
  BY <1>5, <1>6, <1>8, <1>9, <1>10, <1>12, <1>13 DEF Past
<1>17. reply.next \in cursor..N /\ (m < end => reply.next = end)
       /\ (end = m => reply.next = cursor) /\ reply.next <= end
  BY <1>6, <1>15, <1>16
<1>18. reply.truncatedBefore \in BOOLEAN /\ (reply.truncatedBefore <=> cursor < f - 1)
  <2>1. TruncatedBefore(cursor) = (cursor < f - 1)
    BY <1>8 DEF TruncatedBefore
  <2>2. (cursor < f - 1) \in BOOLEAN
    BY <1>6, <1>9
  <2> QED
    BY <1>15, <2>1, <2>2, Zenon
<1>19. Kept'
  BY <1>1, <1>4 DEF Kept, FirstCursor
<1>20. ASSUME NEW c \in (m + 1)..end
       PROVE  /\ c \in Nat \ {0} /\ c \in 1..N /\ written[c] \in Characters
              /\ c <= reply.next
  <2>1. c \in Nat \ {0} /\ c \in 1..N /\ m < end /\ c <= end
    BY <1>6, <1>16
  <2>2. written[c] \in Characters
    BY <1>5, <1>6, <2>1, ElementOfSeq
  <2> QED
    BY <1>17, <2>1, <2>2
<1>21. TypeOK'
  <2>1. page'.next \in Nat
    BY <1>4, <1>6, <1>17
  <2>2. lossy' \in BOOLEAN
    BY <1>1, <1>4, <1>18, Zenon DEF TypeOK
  <2>3. got' \subseteq (Nat \ {0}) \X Characters
    <3>1. Learned(reply) \subseteq (Nat \ {0}) \X Characters
      BY <1>15, <1>20
    <3> QED
      BY <1>1, <1>4, <3>1 DEF TypeOK
  <2> QED
    BY <1>1, <1>4, <2>1, <2>2, <2>3 DEF TypeOK
<1>22. page'.next < nextCursor'
  BY <1>4, <1>6, <1>17
<1>23. NoSilentLoss'
  <2>1. ASSUME NEW g \in got'
        PROVE  g[1] <= page'.next /\ g[2] = written'[g[1]]
    <3>1. CASE g \in got
      <4>1. g[1] <= cursor /\ g[2] = written[g[1]] /\ g[1] \in Nat
        BY <1>1, <1>2, <3>1 DEF NoSilentLoss, TypeOK
      <4>2. PICK c : c = g[1]
        OBVIOUS
      <4>3. c <= reply.next
        BY <1>6, <1>17, <4>1, <4>2
      <4> QED
        BY <1>4, <4>1, <4>2, <4>3
    <3>2. CASE g \in Learned(reply)
      <4>1. PICK c \in (m + 1)..end : g = <<c, written[c]>>
        BY <1>15, <3>2
      <4>2. g[1] = c /\ g[2] = written[c] /\ c <= reply.next
        BY <1>20, <4>1
      <4> QED
        BY <1>4, <4>2
    <3> QED
      BY <1>4, <3>1, <3>2
  <2>2. ASSUME NEW c \in 1..page'.next
        PROVE  lossy' \/ \E g \in got' : g[1] = c
    <3>1. c \in Nat /\ 1 <= c /\ c <= reply.next
      BY <1>4, <1>6, <1>17
    <3>2. CASE c <= cursor
      <4>1. c \in 1..page.next
        BY <1>2, <1>6, <3>1, <3>2
      <4>2. lossy \/ \E g \in got : g[1] = c
        BY <1>1, <4>1 DEF NoSilentLoss
      <4> QED
        BY <1>4, <4>2
    <3>3. CASE cursor < c /\ cursor < f - 1
      BY <1>4, <1>18, <3>3
    <3>4. CASE cursor < c /\ ~(cursor < f - 1)
      <4>1. c \in (m + 1)..end
        BY <1>6, <1>16, <1>17, <3>1, <3>4
      <4>2. <<c, written[c]>> \in got'
        BY <1>4, <1>15, <4>1
      <4>3. <<c, written[c]>>[1] = c
        OBVIOUS
      <4> QED
        BY <4>2, <4>3
    <3>5. c <= cursor \/ cursor < c
      BY <1>6, <3>1
    <3> QED
      BY <3>2, <3>3, <3>4, <3>5
  <2> QED
    BY <2>1, <2>2 DEF NoSilentLoss
<1> QED
  BY <1>19, <1>21, <1>22, <1>23 DEF OutputInv

(* Every step keeps the invariant: a reader's, the end of the job, a poll. *)
LEMMA OutputNext == OutputInv /\ [Next]_vars => OutputInv'
<1> SUFFICES ASSUME OutputInv, [Next]_vars
             PROVE  OutputInv'
  OBVIOUS
<1>1. ASSUME NEW s \in Streams, NEW k \in 1..ChunkChars, ReadChunk(s, k)
      PROVE  OutputInv'
  BY <1>1, ReadChunkKeeps
<1>2. ASSUME NEW maxBytes \in PageSizes, Poll(maxBytes)
      PROVE  OutputInv'
  BY <1>2, PollKeeps
<1>3. ASSUME /\ written' = written /\ sent' = sent /\ events' = events
             /\ nextCursor' = nextCursor /\ retained' = retained
             /\ truncated' = truncated
             /\ page' = page /\ got' = got /\ lossy' = lossy,
             reader' \in [Streams -> {"reading", "late", "done"}], over' \in BOOLEAN
      PROVE  OutputInv'
  <2>1. TypeOK'
    BY <1>3 DEF OutputInv, TypeOK
  <2>2. Kept'
    BY <1>3 DEF OutputInv, Kept, FirstCursor
  <2>3. page'.next < nextCursor' /\ NoSilentLoss'
    BY <1>3 DEF OutputInv, NoSilentLoss
  <2> QED
    BY <2>1, <2>2, <2>3 DEF OutputInv
<1>4. reader \in [Streams -> {"reading", "late", "done"}] /\ over \in BOOLEAN
  BY DEF OutputInv, TypeOK
<1>5. ASSUME NEW s \in Streams, ReaderEnds(s)
      PROVE  OutputInv'
  <2>1. reader' \in [Streams -> {"reading", "late", "done"}]
    BY <1>4, <1>5 DEF ReaderEnds
  <2> QED
    BY <1>3, <1>4, <1>5, <2>1 DEF ReaderEnds, clientVars
<1>6. CASE FinishJob
  <2>1. reader' \in [Streams -> {"reading", "late", "done"}] /\ over' \in BOOLEAN
    BY <1>4, <1>6 DEF FinishJob
  <2> QED
    BY <1>3, <1>6, <2>1 DEF FinishJob, clientVars
<1>7. CASE UNCHANGED vars
  BY <1>3, <1>4, <1>7 DEF vars, jobVars, clientVars
<1> QED
  BY <1>1, <1>2, <1>5, <1>6, <1>7 DEF Next

(* The inductive invariant of the output buffer.                           *)
THEOREM OutputInvariance == Spec => []OutputInv
<1> QED
  BY OutputInit, OutputNext, PTL DEF Spec

(* The types of the state are an invariant.                                *)
THEOREM OutputTypes == Spec => []TypeOK
<1>1. OutputInv => TypeOK
  BY DEF OutputInv
<1> QED
  BY <1>1, OutputInvariance, PTL

(* What is retained is the end of the output, whatever was trimmed, and no *)
(* more is forgotten than the limit asks for.                              *)
LEMMA KeptRetains == Kept => RetainsSuffix
<1> SUFFICES ASSUME Kept
             PROVE  RetainsSuffix
  OBVIOUS
<1>1. /\ written \in Seq(Characters) /\ Tiled(events, written)
      /\ nextCursor = Len(written) + 1
  BY DEF Kept
<1>2. ASSUME NEW i \in 1..Len(events)
      PROVE  /\ events[i].text = SubSeq(written, events[i].start, EndCursor(events[i]))
             /\ EndCursor(events[i]) + 1 =
                  IF i = Len(events) THEN nextCursor ELSE events[i + 1].start
             /\ events[i].bytes = Bytes(events[i].text)
  BY <1>1 DEF Tiled
<1>3. retained = Total([i \in 1..Len(events) |-> Bytes(events[i].text)])
  <2>1. CASE events = <<>>
    <3>1. written = <<>> /\ FirstCursor = 1 /\ Len(events) = 0
      BY <2>1, FirstIs DEF Kept
    <3>2. Len(written) = 0 /\ FirstCursor - 1 = 0
      BY <3>1
    <3>3. retained = 0
      <4>1. retained = Weight(written, 0) - Weight(written, 0)
        BY <3>2 DEF Kept
      <4>2. Weight(written, 0) = 0
        BY WeightOfNone
      <4> QED
        BY <4>1, <4>2
    <3> DEFINE s == [i \in 1..Len(events) |-> Bytes(events[i].text)]
    <3>4. s \in [1..0 -> Nat]
      BY <3>1
    <3> HIDE DEF s
    <3>5. Total(s) = 0
      BY <3>4, TotalOfNone
    <3> QED
      BY <3>3, <3>5 DEF s
  <2>2. CASE events # <<>>
    <3>1. PICK n : n = Len(events)
      OBVIOUS
    <3>2. n \in 0..Len(events) /\ Bound(events, n) = Len(written)
      BY <1>1, <2>2, <3>1, Bounds
    <3>3. Total([i \in 1..n |-> events[i].bytes])
            = Weight(written, Bound(events, n)) - Weight(written, Bound(events, 0))
      BY <1>1, <2>2, <3>2, WeightOfEvents
    <3>4. Bound(events, 0) = FirstCursor - 1
      BY <2>2 DEF Bound, FirstCursor
    <3>5. Total([i \in 1..n |-> events[i].bytes]) = retained
      BY <3>2, <3>3, <3>4 DEF Kept
    <3>6. [i \in 1..n |-> events[i].bytes] = [i \in 1..n |-> Bytes(events[i].text)]
      BY <1>2, <3>1
    <3> QED
      BY <3>1, <3>5, <3>6
  <2> QED
    BY <2>1, <2>2
<1> QED
  BY <1>1, <1>2, <1>3 DEF RetainsSuffix, Kept

(* The events of a job are the end of its output without gap or overlap,   *)
(* retained_bytes is their size, and with the last character that was      *)
(* trimmed they were too large, in every state.                            *)
THEOREM OutputRetained == Spec => []RetainsSuffix
<1>1. OutputInv => RetainsSuffix
  BY KeptRetains DEF OutputInv
<1> QED
  BY <1>1, OutputInvariance, PTL

(* A client that follows next_cursor misses nothing unless it is told.     *)
THEOREM ClientsMissNothing == Spec => []NoSilentLoss
<1>1. OutputInv => NoSilentLoss
  BY DEF OutputInv
<1> QED
  BY <1>1, OutputInvariance, PTL

(* The text that is kept is never empty when some is gone: a client behind *)
(* it has something to read.                                               *)
LEMMA SomethingKept ==
  ASSUME Kept, FirstCursor > 1
  PROVE  FirstCursor - 1 < Len(written)
<1>1. PICK f : f = FirstCursor - 1
  OBVIOUS
<1>2. Len(written) \in Nat /\ f \in 0..Len(written) /\ FirstCursor \in Nat
  BY <1>1, FirstIs
<1>3. f \in 1..Len(written)
  BY <1>1, <1>2
<1>4. truncated /\ written \in Seq(Characters) /\ retained \in Nat
      /\ retained = Weight(written, Len(written)) - Weight(written, f)
      /\ retained + WidthOf(written[f]) > OutputLimit
  BY <1>1, OutputAssumption DEF Kept
<1>5. PICK width : width = WidthOf(written[f])
  OBVIOUS
<1>6. width \in 1..4
  BY <1>3, <1>4, <1>5, ElementOfSeq, WidthType
<1>7. retained > 0
  BY <1>4, <1>5, <1>6, OutputAssumption
<1>8. ASSUME f = Len(written)
      PROVE  FALSE
  <2>1. Len(written) \in 0..Len(written)
    BY <1>2
  <2>2. Weight(written, Len(written)) \in Nat
    BY <1>4, <2>1, WeightType
  <2>3. retained = Weight(written, Len(written)) - Weight(written, Len(written))
    BY <1>4, <1>8
  <2> QED
    BY <1>7, <2>2, <2>3
<1> QED
  BY <1>1, <1>2, <1>8

(* The page a client gets, as an interval of the text.                     *)
PageAt(reply, cursor, max, m, end) ==
  /\ m = Past(cursor, FirstCursor - 1)
  /\ m = cursor \/ m < Len(written)
  /\ Fits(written, m, end, max)
  /\ reply.cursor = cursor /\ reply.max = max
  /\ reply.next = IF end = m THEN cursor ELSE end
  /\ Learned(reply) = {<<c, written[c]>> : c \in (m + 1)..end}
  /\ reply.hasMore = (reply.next < nextCursor - 1)

(* Every reply of status is such a page.                                   *)
LEMMA PageBounds ==
  ASSUME Kept, NEW cursor \in 0..Len(written), NEW max \in Nat,
         NEW reply, reply = StatusPage(cursor, max)
  PROVE  \E m \in cursor..Len(written) : \E end \in m..Len(written) :
           PageAt(reply, cursor, max, m, end)
<1>1. PICK m : m = Past(cursor, FirstCursor - 1)
  OBVIOUS
<1>2. m \in 0..Len(written)
  BY <1>1, MarksExist
<1>3. PICK end \in m..Len(written) :
        Fits(written, m, end, max) /\ \E R : Marks(R, m, end, cursor, max)
  BY <1>1, MarksExist
<1>4. PICK R : Marks(R, m, end, cursor, max)
  BY <1>3
<1>5. /\ reply.cursor = cursor /\ reply.max = max
      /\ reply.next = IF end = m THEN cursor ELSE end
      /\ Learned(reply) = {<<c, written[c]>> : c \in (m + 1)..end}
      /\ reply.hasMore = (reply.next < nextCursor - 1)
  BY <1>2, <1>4, PageIs
<1>6. PICK f : f = FirstCursor
  OBVIOUS
<1>7. Len(written) \in Nat /\ f \in 1..(Len(written) + 1)
      /\ (f > 1 => f - 1 < Len(written))
  BY <1>6, FirstIs, SomethingKept
<1>8. m \in cursor..Len(written) /\ (m = cursor \/ m < Len(written))
  <2>1. m = Past(cursor, f - 1)
    BY <1>1, <1>6
  <2> QED
    BY <1>2, <1>7, <2>1 DEF Past
<1>9. PageAt(reply, cursor, max, m, end)
  BY <1>1, <1>3, <1>5, <1>8 DEF PageAt
<1> QED
  BY <1>3, <1>8, <1>9

(* A client that is behind gets on, however the text is cut into events.   *)
LEMMA Advances == OutputInv => PollAdvances
<1> SUFFICES ASSUME OutputInv, NEW maxBytes \in {m \in PageSizes : m >= WidestChar},
                    page.next + 1 < nextCursor
             PROVE  StatusPage(page.next, maxBytes).next > page.next
  BY DEF PollAdvances
<1>1. PICK cursor : cursor = page.next
  OBVIOUS
<1>2. PICK reply : reply = StatusPage(cursor, maxBytes)
  OBVIOUS
<1>3. PICK N : N = Len(written)
  OBVIOUS
<1>4. /\ Kept /\ written \in Seq(Characters) /\ N \in Nat /\ maxBytes \in Nat
      /\ maxBytes >= 4 /\ cursor \in 0..N /\ cursor < N
  <2>1. Kept /\ written \in Seq(Characters) /\ N \in Nat /\ nextCursor = N + 1
        /\ cursor \in Nat
    BY <1>1, <1>3, LenProperties DEF OutputInv, Kept, TypeOK
  <2>2. maxBytes \in Nat /\ maxBytes >= 4
    BY OutputAssumption DEF WidestChar
  <2>3. cursor + 1 < N + 1
    BY <1>1, <2>1
  <2> QED
    BY <2>1, <2>2, <2>3
<1>5. PICK m \in cursor..Len(written) : \E end \in m..Len(written) :
        PageAt(reply, cursor, maxBytes, m, end)
  <2>1. cursor \in 0..Len(written)
    BY <1>3, <1>4
  <2> QED
    BY <1>2, <1>4, <2>1, PageBounds
<1>10. PICK end \in m..Len(written) : PageAt(reply, cursor, maxBytes, m, end)
  BY <1>5
<1>6. /\ m = cursor \/ m < Len(written)
      /\ Fits(written, m, end, maxBytes)
      /\ reply.next = IF end = m THEN cursor ELSE end
  BY <1>10 DEF PageAt
<1>7. m \in cursor..N /\ m < N /\ end \in m..N /\ m \in Nat
  BY <1>3, <1>4, <1>6
<1>8. end # m
  <2> SUFFICES ASSUME end = m
               PROVE  FALSE
    OBVIOUS
  <2>1. Weight(written, m + 1) - Weight(written, m) > maxBytes
    BY <1>3, <1>6, <1>7 DEF Fits
  <2>2. /\ Weight(written, m) \in Nat
        /\ Weight(written, m + 1) = Weight(written, m) + WidthOf(written[m + 1])
        /\ WidthOf(written[m + 1]) \in 1..4
    BY <1>3, <1>4, <1>7, WeightStep
  <2>3. PICK x : x = Weight(written, m)
    OBVIOUS
  <2>4. PICK y : y = WidthOf(written[m + 1])
    OBVIOUS
  <2>5. x \in Nat /\ y \in 1..4 /\ (x + y) - x > maxBytes
    BY <2>1, <2>2, <2>3, <2>4
  <2> QED
    BY <1>4, <2>5
<1>9. reply.next > cursor
  BY <1>4, <1>6, <1>7, <1>8
<1> QED
  BY <1>1, <1>2, <1>9

(* A poll with room for any character returns at least one to a client that*)
(* is behind, whatever was trimmed or cut before, in every state.          *)
THEOREM PollsAdvance == Spec => []PollAdvances
<1> QED
  BY Advances, OutputInvariance, PTL

(* Each page is the longest run of what is retained that max_bytes admits. *)
LEMMA PageStep ==
  ASSUME OutputInv, NEW maxBytes \in PageSizes, Poll(maxBytes),
         NEW from, from = IF page'.cursor + 1 > FirstCursor THEN page'.cursor + 1
                          ELSE FirstCursor,
         NEW last, last = IF Learned(page') = {} THEN from - 1 ELSE page'.next,
         NEW text, text = SubSeq(written, from, last)
  PROVE  /\ Learned(page') = {<<c, written[c]>> : c \in from..last}
         /\ Bytes(text) <= page'.max
         /\ last + 1 < nextCursor =>
              Bytes(text) + WidthOf(written[last + 1]) > page'.max
         /\ page'.hasMore <=> last + 1 < nextCursor
<1>1. PICK cursor : cursor = page.next
  OBVIOUS
<1>2. PICK N : N = Len(written)
  OBVIOUS
<1>3. PICK f : f = FirstCursor
  OBVIOUS
<1>4. /\ Kept /\ written \in Seq(Characters) /\ N \in Nat /\ maxBytes \in Nat
      /\ cursor \in 0..N /\ nextCursor = N + 1
  <2>1. Kept /\ written \in Seq(Characters) /\ N \in Nat /\ nextCursor = N + 1
        /\ cursor \in Nat /\ cursor < nextCursor
    BY <1>1, <1>2, LenProperties DEF OutputInv, Kept, TypeOK
  <2>2. maxBytes \in Nat
    BY OutputAssumption
  <2> QED
    BY <2>1, <2>2
<1>5. f \in 1..(N + 1)
  BY <1>2, <1>3, <1>4, FirstIs
<1>6. page' = StatusPage(cursor, maxBytes)
  BY <1>1 DEF Poll
<1>7. PICK reply : reply = page'
  OBVIOUS
<1>8. PICK m \in cursor..Len(written) : \E end \in m..Len(written) :
        PageAt(reply, cursor, maxBytes, m, end)
  <2>1. cursor \in 0..Len(written) /\ reply = StatusPage(cursor, maxBytes)
    BY <1>2, <1>4, <1>6, <1>7
  <2> QED
    BY <1>4, <2>1, PageBounds
<1>21. PICK end \in m..Len(written) : PageAt(reply, cursor, maxBytes, m, end)
  BY <1>8
<1>9. /\ m = Past(cursor, FirstCursor - 1)
      /\ m = cursor \/ m < Len(written)
      /\ Fits(written, m, end, maxBytes)
      /\ reply.cursor = cursor /\ reply.max = maxBytes
      /\ reply.next = IF end = m THEN cursor ELSE end
      /\ Learned(reply) = {<<c, written[c]>> : c \in (m + 1)..end}
      /\ reply.hasMore = (reply.next < nextCursor - 1)
  BY <1>21 DEF PageAt
<1>10. m \in 0..N /\ m \in cursor..N /\ end \in m..N /\ end \in 0..N
  BY <1>2, <1>4, <1>9
<1>11. from = m + 1
  <2>1. from = IF cursor + 1 > f THEN cursor + 1 ELSE f
    BY <1>3, <1>7, <1>9
  <2>2. m = IF f - 1 <= cursor THEN cursor ELSE f - 1
    BY <1>3, <1>9 DEF Past
  <2> QED
    BY <1>4, <1>5, <2>1, <2>2
<1>12. last = end
  <2>1. CASE end = m
    <3>1. (m + 1)..end = {}
      BY <1>10, <2>1
    <3>2. Learned(reply) = {}
      BY <1>9, <3>1
    <3>3. last = (m + 1) - 1
      BY <1>7, <1>11, <3>2
    <3> QED
      BY <1>10, <2>1, <3>3
  <2>2. CASE end # m
    <3>1. end \in (m + 1)..end
      BY <1>10, <2>2
    <3>2. Learned(reply) # {}
      BY <1>9, <3>1
    <3> QED
      BY <1>7, <1>9, <2>2, <3>2
  <2> QED
    BY <2>1, <2>2
<1>13. PICK vm : vm = Weight(written, m)
  OBVIOUS
<1>14. PICK ve : ve = Weight(written, end)
  OBVIOUS
<1>15. vm \in Nat /\ ve \in Nat
  BY <1>2, <1>4, <1>10, <1>13, <1>14, WeightType
<1>16. Bytes(text) = ve - vm
  <2>1. from \in 1..(Len(written) + 1) /\ end \in (from - 1)..Len(written)
        /\ from - 1 = m
    <3>1. m + 1 \in 1..(N + 1) /\ end \in ((m + 1) - 1)..N /\ (m + 1) - 1 = m
      BY <1>4, <1>10
    <3> QED
      BY <1>2, <1>11, <3>1
  <2>2. Bytes(SubSeq(written, from, end)) = Weight(written, end) - Weight(written, from - 1)
    BY <1>4, <2>1, BytesOfPiece
  <2> QED
    BY <1>12, <1>13, <1>14, <2>1, <2>2
<1>17. Bytes(text) <= maxBytes
  BY <1>9, <1>13, <1>14, <1>16 DEF Fits
<1>18. ASSUME end < N
       PROVE  Bytes(text) + WidthOf(written[end + 1]) > maxBytes
  <2>1. Weight(written, end + 1) - Weight(written, m) > maxBytes
    BY <1>2, <1>9, <1>18 DEF Fits
  <2>2. /\ Weight(written, end + 1) = Weight(written, end) + WidthOf(written[end + 1])
        /\ WidthOf(written[end + 1]) \in 1..4
    <3>1. end \in Nat /\ end < Len(written)
      BY <1>2, <1>4, <1>10, <1>18
    <3> QED
      BY <1>4, <3>1, WeightStep
  <2>3. PICK y : y = WidthOf(written[end + 1])
    OBVIOUS
  <2>4. y \in 1..4 /\ (ve + y) - vm > maxBytes
    BY <1>13, <1>14, <2>1, <2>2, <2>3
  <2>5. (ve - vm) + y > maxBytes
    BY <1>4, <1>15, <2>4
  <2> QED
    BY <1>16, <2>3, <2>5
<1>19. reply.hasMore <=> end < N
  <2>1. reply.next < N <=> end < N
    BY <1>2, <1>4, <1>9, <1>10
  <2>2. nextCursor - 1 = N
    BY <1>4
  <2> QED
    BY <1>9, <2>1, <2>2
<1>20. last + 1 < nextCursor <=> end < N
  BY <1>4, <1>10, <1>12
<1> QED
  BY <1>7, <1>9, <1>11, <1>12, <1>17, <1>18, <1>19, <1>20

(* Each reply of status holds the longest run of retained characters after *)
(* the cursor that max_bytes admits, each under its own cursor, and its    *)
(* has_more says whether more is there.                                    *)
THEOREM PagesAreLongestRuns == Spec => PageIsLongestRun
<1> DEFINE Longest ==
      LET from  == IF page'.cursor + 1 > FirstCursor THEN page'.cursor + 1
                   ELSE FirstCursor
          end   == IF Learned(page') = {} THEN from - 1 ELSE page'.next
          text  == SubSeq(written, from, end)
      IN  /\ Learned(page') = {<<c, written[c]>> : c \in from..end}
          /\ Bytes(text) <= page'.max
          /\ end + 1 < nextCursor =>
               Bytes(text) + WidthOf(written[end + 1]) > page'.max
          /\ page'.hasMore <=> end + 1 < nextCursor
<1>1. ASSUME OutputInv, [Next]_vars
      PROVE  [page' # page => Longest]_vars
  <2> SUFFICES ASSUME Next, page' # page
               PROVE  Longest
    BY <1>1
  <2>1. PICK maxBytes \in PageSizes : Poll(maxBytes)
    BY DEF Next, ReadChunk, ReaderEnds, FinishJob, clientVars
  <2> QED
    BY <1>1, <2>1, PageStep
<1> QED
  BY <1>1, OutputInvariance, PTL DEF Spec, PageIsLongestRun
=============================================================================
