--------------------------- MODULE ShellHostProofs ---------------------------
(***************************************************************************)
(* Lemmas about ShellHost, for both programs that are hosts of a shell:    *)
(* what the display makes of a sequence of bytes, what is typed before the *)
(* first control character, and what the steps of the shell and of its     *)
(* host do to the bytes between them.                                      *)
(***************************************************************************)
EXTENDS ShellHost, TLAPS, SequenceTheorems, WellFoundedInduction

-----------------------------------------------------------------------------
(***************************************************************************)
(* Sequences in a row.  What FlattenSeq computes is shown by the least     *)
(* length for which it would not.                                          *)
(***************************************************************************)
LEMMA Least ==
  ASSUME NEW T \in SUBSET Nat, T # {}
  PROVE  \E i \in T : \A j \in T : i <= j
<1> DEFINE R == OpToRel(<, Nat)
<1>1. \A i, j \in Nat : j < i => <<j, i>> \in R
  BY Zenon DEF OpToRel
<1>2. IsWellFoundedOn(R, Nat)
  BY NatLessThanWellFounded, Zenon
<1> HIDE DEF R
<1>3. PICK i \in T : \A j \in T : <<j, i>> \notin R
  BY <1>2, WFMin, Zenon
<1>4. \A j \in T : ~(j < i)
  BY <1>1, <1>3, Zenon
<1>5. \A j \in T : i <= j
  BY <1>4
<1> QED
  BY <1>5

\* f[i] is the first i of the sequences, one after the other.
Joins(f, seqs, n) ==
  \A i \in 1..n : f[i] = IF i = 1 THEN seqs[i] ELSE f[i - 1] \o seqs[i]

LEMMA JoinExists ==
  ASSUME NEW S, NEW seqs \in Seq(Seq(S))
  PROVE  \E f \in [1..Len(seqs) -> Seq(S)] : Joins(f, seqs, Len(seqs))
<1> DEFINE Good(n) == \E f \in [1..n -> Seq(S)] : Joins(f, seqs, n)
           Bad == {n \in 0..Len(seqs) : ~Good(n)}
<1>1. Len(seqs) \in Nat /\ \A i \in 1..Len(seqs) : seqs[i] \in Seq(S)
  BY LenProperties
<1>2. SUFFICES ASSUME Bad # {} PROVE FALSE
  BY <1>1
<1>3. PICK n \in Bad : \A m \in Bad : n <= m
  <2>1. Bad \in SUBSET Nat
    BY <1>1
  <2> QED
    BY <1>2, <2>1, Least
<1>4. n # 0
  <2>1. [i \in 1..0 |-> <<>>] \in [1..0 -> Seq(S)]
    OBVIOUS
  <2>2. Joins([i \in 1..0 |-> <<>>], seqs, 0)
    BY DEF Joins
  <2> QED
    BY <2>1, <2>2
<1>5. n \in Nat /\ n - 1 \in 0..Len(seqs) /\ n \in 1..Len(seqs)
  BY <1>1, <1>4
<1>6. PICK f \in [1..(n - 1) -> Seq(S)] : Joins(f, seqs, n - 1)
  <2>1. n - 1 \notin Bad
    <3>1. ~(n <= n - 1)
      BY <1>5
    <3> QED
      BY <1>3, <3>1, Zenon
  <2>2. Good(n - 1)
    BY <1>5, <2>1
  <2> QED
    BY <2>2
<1> DEFINE g == [i \in 1..n |-> IF i < n THEN f[i]
                                ELSE IF n = 1 THEN seqs[n] ELSE f[n - 1] \o seqs[n]]
<1>7. g \in [1..n -> Seq(S)]
  <2>1. n # 1 => f[n - 1] \o seqs[n] \in Seq(S)
    BY <1>1, <1>5, ConcatProperties
  <2>2. seqs[n] \in Seq(S)
    BY <1>1, <1>5
  <2>3. \A i \in 1..n : i < n => f[i] \in Seq(S)
    BY <1>5
  <2> QED
    BY <2>1, <2>2, <2>3
<1>8. Joins(g, seqs, n)
  <2> SUFFICES ASSUME NEW i \in 1..n
               PROVE  g[i] = IF i = 1 THEN seqs[i] ELSE g[i - 1] \o seqs[i]
    BY DEF Joins
  <2>1. i # 1 => i - 1 \in 1..(n - 1) /\ i - 1 \in 1..n /\ g[i - 1] = f[i - 1]
    BY <1>5
  <2>2. i < n => f[i] = IF i = 1 THEN seqs[i] ELSE f[i - 1] \o seqs[i]
    <3>1. i < n => i \in 1..(n - 1)
      BY <1>5
    <3> QED
      BY <1>6, <3>1, Zenon DEF Joins
  <2>3. i < n => g[i] = f[i]
    OBVIOUS
  <2>4. ~(i < n) => i = n /\ g[i] = IF i = 1 THEN seqs[i] ELSE f[i - 1] \o seqs[i]
    BY <1>5
  <2> HIDE DEF g
  <2> QED
    BY <2>1, <2>2, <2>3, <2>4
<1> QED
  BY <1>7, <1>8

\* Two functions that join the same sequences are the same.
LEMMA JoinUnique ==
  ASSUME NEW seqs, NEW n \in Nat, NEW f, NEW g, Joins(f, seqs, n), Joins(g, seqs, n)
  PROVE  \A i \in 1..n : f[i] = g[i]
<1> DEFINE Bad == {i \in 1..n : f[i] # g[i]}
<1>1. SUFFICES ASSUME Bad # {} PROVE FALSE
  OBVIOUS
<1>2. PICK i \in Bad : \A j \in Bad : i <= j
  <2>1. Bad \in SUBSET Nat
    OBVIOUS
  <2> QED
    BY <1>1, <2>1, Least
<1>3. i # 1 => f[i - 1] = g[i - 1]
  <2> SUFFICES ASSUME i # 1 PROVE f[i - 1] = g[i - 1]
    OBVIOUS
  <2>1. i - 1 \in 1..n /\ ~(i <= i - 1)
    OBVIOUS
  <2> QED
    BY <1>2, <2>1
<1>4. f[i] = IF i = 1 THEN seqs[i] ELSE f[i - 1] \o seqs[i]
  BY DEF Joins
<1>5. g[i] = IF i = 1 THEN seqs[i] ELSE g[i - 1] \o seqs[i]
  BY DEF Joins
<1> QED
  BY <1>3, <1>4, <1>5

LEMMA FlattenIsJoin ==
  ASSUME NEW S, NEW seqs \in Seq(Seq(S)), seqs # <<>>
  PROVE  \E f \in [1..Len(seqs) -> Seq(S)] :
           Joins(f, seqs, Len(seqs)) /\ FlattenSeq(seqs) = f[Len(seqs)]
<1> DEFINE n == Len(seqs)
           Is(f) == f = [i \in 1..n |-> IF i = 1 THEN seqs[i] ELSE f[i - 1] \o seqs[i]]
           flatten == CHOOSE f : Is(f)
<1>1. n \in Nat \ {0}
  BY EmptySeq
<1>2. FlattenSeq(seqs) = flatten[n]
  BY <1>1 DEF FlattenSeq
<1>3. PICK f \in [1..n -> Seq(S)] : Joins(f, seqs, n)
  BY JoinExists
<1>4. Is(f)
  BY <1>3 DEF Joins
<1>5. Is(flatten)
  BY <1>4
<1> HIDE DEF flatten
<1>6. Joins(flatten, seqs, n)
  BY <1>5 DEF Joins
<1>7. \A i \in 1..n : f[i] = flatten[i]
  BY <1>1, <1>3, <1>6, JoinUnique
<1>8. n \in 1..n
  BY <1>1
<1>9. FlattenSeq(seqs) = f[n]
  BY <1>2, <1>7, <1>8
<1> QED
  BY <1>3, <1>9

LEMMA FlattenEmpty == FlattenSeq(<<>>) = <<>>
<1>1. Len(<<>>) = 0
  BY EmptySeq
<1> QED
  BY <1>1 DEF FlattenSeq

LEMMA FlattenType ==
  ASSUME NEW S, NEW seqs \in Seq(Seq(S))
  PROVE  FlattenSeq(seqs) \in Seq(S)
<1>1. CASE seqs = <<>>
  BY <1>1, FlattenEmpty, EmptySeq
<1>2. CASE seqs # <<>>
  <2>1. Len(seqs) \in 1..Len(seqs)
    BY <1>2, EmptySeq, SMT
  <2>2. PICK f \in [1..Len(seqs) -> Seq(S)] : FlattenSeq(seqs) = f[Len(seqs)]
    BY <1>2, FlattenIsJoin
  <2> QED
    BY <2>1, <2>2
<1> QED
  BY <1>1, <1>2

\* One more sequence comes last.
LEMMA FlattenAppend ==
  ASSUME NEW S, NEW seqs \in Seq(Seq(S)), NEW s \in Seq(S)
  PROVE  FlattenSeq(Append(seqs, s)) = FlattenSeq(seqs) \o s
<1> DEFINE more == Append(seqs, s)
           n == Len(seqs)
<1>1. /\ more \in Seq(Seq(S)) /\ more # <<>> /\ Len(more) = n + 1 /\ n \in Nat
      /\ \A i \in 1..n : more[i] = seqs[i]
      /\ more[n + 1] = s
  BY AppendProperties, LenProperties
<1> HIDE DEF more
<1>2. PICK f \in [1..(n + 1) -> Seq(S)] :
        Joins(f, more, n + 1) /\ FlattenSeq(more) = f[n + 1]
  BY <1>1, FlattenIsJoin
<1>3. f[n + 1] = IF n = 0 THEN s ELSE f[n] \o s
  <2>1. n + 1 \in 1..(n + 1) /\ (n + 1) - 1 = n
    BY <1>1
  <2>2. f[n + 1] = IF n + 1 = 1 THEN more[n + 1] ELSE f[(n + 1) - 1] \o more[n + 1]
    BY <1>2, <2>1 DEF Joins
  <2> QED
    BY <1>1, <2>1, <2>2
<1>4. CASE seqs = <<>>
  <2>1. n = 0 /\ FlattenSeq(seqs) = <<>> /\ <<>> \o s = s
    BY <1>4, FlattenEmpty, EmptySeq, ConcatEmptySeq
  <2> QED
    BY <1>2, <1>3, <2>1 DEF more
<1>5. CASE seqs # <<>>
  <2>1. n \in Nat \ {0}
    BY <1>5, EmptySeq
  <2>2. PICK g \in [1..n -> Seq(S)] : Joins(g, seqs, n) /\ FlattenSeq(seqs) = g[n]
    BY <1>5, FlattenIsJoin
  <2>3. Joins(f, seqs, n)
    <3>1. \A i \in 1..n : i \in 1..(n + 1)
      BY <1>1
    <3> QED
      BY <1>1, <1>2, <3>1, Zenon DEF Joins
  <2>4. f[n] = g[n]
    <3>1. n \in Nat /\ Joins(g, seqs, n) /\ Joins(f, seqs, n)
      BY <2>1, <2>2, <2>3
    <3> HIDE DEF n
    <3>2. \A i \in 1..n : f[i] = g[i]
      BY <3>1, JoinUnique
    <3> QED
      BY <2>1, <3>2 DEF n
  <2> QED
    BY <1>2, <1>3, <2>1, <2>2, <2>4 DEF more
<1> QED
  BY <1>4, <1>5

LEMMA FlattenThree ==
  ASSUME NEW S, NEW s \in Seq(Seq(S)), NEW t \in Seq(Seq(S)), NEW u \in Seq(S)
  PROVE  (FlattenSeq(s) \o FlattenSeq(t)) \o u = FlattenSeq(s) \o (FlattenSeq(t) \o u)
<1>1. FlattenSeq(s) \in Seq(S) /\ FlattenSeq(t) \in Seq(S)
  BY FlattenType
<1>2. \A x, y \in Seq(S) : (x \o y) \o u = x \o (y \o u)
  BY ConcatAssociative
<1> QED
  BY <1>1, <1>2, Zenon

LEMMA FlattenConcat ==
  ASSUME NEW S, NEW s \in Seq(Seq(S)), NEW t \in Seq(Seq(S))
  PROVE  FlattenSeq(s \o t) = FlattenSeq(s) \o FlattenSeq(t)
<1> DEFINE Good(u) == FlattenSeq(s \o u) = FlattenSeq(s) \o FlattenSeq(u)
           Bad == {n \in Nat : \E u \in Seq(Seq(S)) : Len(u) = n /\ ~Good(u)}
<1>1. SUFFICES ASSUME Bad # {} PROVE FALSE
  <2>1. Len(t) \in Nat
    BY LenProperties
  <2> QED
    BY <2>1
<1>2. PICK n \in Bad : \A m \in Bad : n <= m
  <2>1. Bad \in SUBSET Nat
    OBVIOUS
  <2> QED
    BY <1>1, <2>1, Least
<1>3. PICK u \in Seq(Seq(S)) : Len(u) = n /\ ~Good(u)
  BY <1>2
<1>4. FlattenSeq(s) \in Seq(S)
  BY FlattenType
<1>5. u # <<>>
  <2>1. s \o <<>> = s /\ FlattenSeq(s) \o <<>> = FlattenSeq(s)
    BY <1>4, ConcatEmptySeq
  <2> QED
    BY <1>3, <2>1, FlattenEmpty
<1>6. PICK v \in Seq(Seq(S)), w \in Seq(S) : u = Append(v, w)
  BY <1>5, SequenceEmptyOrAppend
<1>7. Len(v) \in Nat /\ Len(u) = Len(v) + 1
  BY <1>6, LenProperties, AppendProperties
<1>8. Good(v)
  <2>1. Len(v) \notin Bad
    <3>1. ~(n <= Len(v))
      BY <1>3, <1>7
    <3> QED
      BY <1>2, <3>1, Zenon
  <2> QED
    BY <1>7, <2>1
<1>9. s \o u = Append(s \o v, w)
  <2>1. s \o v \in Seq(Seq(S)) /\ <<w>> \in Seq(Seq(S))
    BY ConcatProperties
  <2>2. u = v \o <<w>> /\ Append(s \o v, w) = (s \o v) \o <<w>>
    BY <1>6, <2>1, AppendIsConcat
  <2> QED
    BY <2>1, <2>2, ConcatAssociative
<1>10. FlattenSeq(s \o u) = FlattenSeq(s \o v) \o w
  BY <1>9, ConcatProperties, FlattenAppend
<1>11. FlattenSeq(u) = FlattenSeq(v) \o w
  BY <1>6, FlattenAppend
<1>12. FlattenSeq(v) \in Seq(S)
  BY FlattenType
<1>13. (FlattenSeq(s) \o FlattenSeq(v)) \o w = FlattenSeq(s) \o (FlattenSeq(v) \o w)
  <2> HIDE DEF Good, Bad
  <2> QED
    BY FlattenThree
<1> QED
  BY <1>3, <1>8, <1>10, <1>11, <1>13

LEMMA FlattenOne ==
  ASSUME NEW S, NEW s \in Seq(S)
  PROVE  FlattenSeq(<<s>>) = s
<1>1. <<>> \in Seq(Seq(S)) /\ Append(<<>>, s) = <<s>>
  OBVIOUS
<1>2. FlattenSeq(<<s>>) = <<>> \o s
  BY <1>1, FlattenAppend, FlattenEmpty
<1> QED
  BY <1>2, ConcatEmptySeq

LEMMA BytesAssociative ==
  \A x, y, z \in Seq(Bytes) : (x \o y) \o z = x \o (y \o z)
<1> TAKE x, y, z \in Seq(Bytes)
<1> QED
  BY ConcatAssociative

\* Sequences with something in them come to something.
LEMMA FlattenNonEmpty ==
  ASSUME NEW S, NEW s \in Seq(Seq(S)), s # <<>>, \A i \in 1..Len(s) : s[i] # <<>>
  PROVE  FlattenSeq(s) # <<>>
<1>1. PICK v \in Seq(Seq(S)), w \in Seq(S) : s = Append(v, w)
  BY SequenceEmptyOrAppend
<1>2. Len(v) \in Nat /\ Len(s) = Len(v) + 1 /\ s[Len(v) + 1] = w
  BY <1>1, LenProperties, AppendProperties
<1>3. w # <<>>
  BY <1>2
<1>4. FlattenSeq(s) = FlattenSeq(v) \o w /\ FlattenSeq(v) \in Seq(S)
  BY <1>1, FlattenAppend, FlattenType
<1> QED
  BY <1>3, <1>4, ConcatEqualIffEmpty

\* Sequences of one element each, one after the other, are the sequence of the elements.
LEMMA FlattenSingletons ==
  ASSUME NEW S, NEW s \in Seq(S)
  PROVE  /\ [i \in 1..Len(s) |-> <<s[i]>>] \in Seq(Seq(S))
         /\ FlattenSeq([i \in 1..Len(s) |-> <<s[i]>>]) = s
<1> DEFINE Split(u) == [i \in 1..Len(u) |-> <<u[i]>>]
           Bad == {n \in Nat : \E u \in Seq(S) : Len(u) = n /\ FlattenSeq(Split(u)) # u}
<1>1. ASSUME NEW u \in Seq(S) PROVE Split(u) \in Seq(Seq(S)) /\ Len(u) \in Nat
  <2>1. Len(u) \in Nat /\ \A i \in 1..Len(u) : <<u[i]>> \in Seq(S)
    BY LenProperties
  <2>2. Split(u) \in [1..Len(u) -> Seq(S)]
    BY <2>1
  <2> QED
    BY <2>1, <2>2, SeqDef
<1>2. SUFFICES ASSUME Bad # {} PROVE FALSE
  BY <1>1
<1>3. PICK n \in Bad : \A m \in Bad : n <= m
  <2>1. Bad \in SUBSET Nat
    OBVIOUS
  <2> QED
    BY <1>2, <2>1, Least
<1>4. PICK u \in Seq(S) : Len(u) = n /\ FlattenSeq(Split(u)) # u
  BY <1>3
<1>5. u # <<>>
  <2>1. Split(<<>>) = <<>>
    OBVIOUS
  <2> QED
    BY <1>4, <2>1, FlattenEmpty
<1>6. PICK v \in Seq(S), e \in S : u = Append(v, e)
  BY <1>5, SequenceEmptyOrAppend
<1>7. /\ Len(v) \in Nat /\ Len(u) = Len(v) + 1 /\ u[Len(v) + 1] = e
      /\ \A i \in 1..Len(v) : u[i] = v[i]
  BY <1>6, LenProperties, AppendProperties
<1>8. FlattenSeq(Split(v)) = v
  <2>1. Len(v) \notin Bad
    <3>1. ~(n <= Len(v))
      BY <1>4, <1>7
    <3> QED
      BY <1>3, <3>1, Zenon
  <2> QED
    BY <1>7, <2>1
<1>9. Split(u) = Append(Split(v), <<e>>)
  BY <1>1, <1>7
<1>10. FlattenSeq(Split(u)) = v \o <<e>>
  <2>1. <<e>> \in Seq(S) /\ Split(v) \in Seq(Seq(S))
    BY <1>1
  <2> HIDE DEF Split
  <2> QED
    BY <1>8, <1>9, <2>1, FlattenAppend
<1> QED
  BY <1>4, <1>6, <1>10, AppendIsConcat

-----------------------------------------------------------------------------
(***************************************************************************)
(* What the display makes of bytes, and what comes before the first ^C and *)
(* ^D.                                                                     *)
(***************************************************************************)
LEMMA ScreenPieces ==
  ASSUME NEW s \in Seq(Bytes)
  PROVE  [i \in 1..Len(s) |-> OnScreen(s[i])] \in Seq(Seq(Bytes))
<1>1. Len(s) \in Nat /\ \A i \in 1..Len(s) : s[i] \in Bytes
  BY LenProperties
<1>2. ASSUME NEW byte \in Bytes PROVE OnScreen(byte) \in Seq(Bytes)
  <2>1. "CR" \in Bytes /\ "LF" \in Bytes
    BY DEF Bytes
  <2>2. <<"CR", "LF">> \in Seq(Bytes) /\ <<byte>> \in Seq(Bytes)
    BY <2>1
  <2> QED
    BY <2>2 DEF OnScreen
<1>3. [i \in 1..Len(s) |-> OnScreen(s[i])] \in [1..Len(s) -> Seq(Bytes)]
  BY <1>1, <1>2
<1> QED
  BY <1>1, <1>3, SeqDef

LEMMA ScreenType ==
  ASSUME NEW s \in Seq(Bytes)
  PROVE  Screen(s) \in Seq(Bytes)
BY ScreenPieces, FlattenType DEF Screen

LEMMA ScreenEmpty == Screen(<<>>) = <<>>
<1>1. [i \in 1..Len(<<>>) |-> OnScreen(<<>>[i])] = <<>>
  OBVIOUS
<1> QED
  BY <1>1, FlattenEmpty DEF Screen

\* What is displayed in two parts is what is displayed at once.
LEMMA ScreenConcat ==
  ASSUME NEW s \in Seq(Bytes), NEW t \in Seq(Bytes)
  PROVE  Screen(s \o t) = Screen(s) \o Screen(t)
<1> DEFINE Pieces(u) == [i \in 1..Len(u) |-> OnScreen(u[i])]
<1>1. Pieces(s) \in Seq(Seq(Bytes)) /\ Pieces(t) \in Seq(Seq(Bytes))
  BY ScreenPieces
<1>2. /\ s \o t \in Seq(Bytes) /\ Len(s \o t) = Len(s) + Len(t)
      /\ Len(s) \in Nat /\ Len(t) \in Nat
      /\ \A i \in 1..Len(s) + Len(t) : (s \o t)[i] = IF i <= Len(s) THEN s[i] ELSE t[i - Len(s)]
  BY ConcatProperties, LenProperties
<1>3. Pieces(s \o t) = Pieces(s) \o Pieces(t)
  <2>1. /\ Len(Pieces(s)) = Len(s) /\ Len(Pieces(t)) = Len(t)
        /\ Len(Pieces(s \o t)) = Len(s) + Len(t)
        /\ Pieces(s \o t) \in Seq(Seq(Bytes))
    BY <1>2, ScreenPieces
  <2>2. /\ Pieces(s) \o Pieces(t) \in Seq(Seq(Bytes))
        /\ Len(Pieces(s) \o Pieces(t)) = Len(s) + Len(t)
        /\ \A i \in 1..Len(s) + Len(t) :
             (Pieces(s) \o Pieces(t))[i]
               = IF i <= Len(s) THEN Pieces(s)[i] ELSE Pieces(t)[i - Len(s)]
    <3> DEFINE p == Pieces(s)
               q == Pieces(t)
    <3>1. /\ p \in Seq(Seq(Bytes)) /\ q \in Seq(Seq(Bytes))
          /\ Len(p) = Len(s) /\ Len(q) = Len(t)
      BY <1>1, <2>1
    <3> HIDE DEF p, q
    <3>2. /\ p \o q \in Seq(Seq(Bytes))
          /\ Len(p \o q) = Len(p) + Len(q)
          /\ \A i \in 1..Len(p) + Len(q) : (p \o q)[i] = IF i <= Len(p) THEN p[i] ELSE q[i - Len(p)]
      BY <3>1, ConcatProperties
    <3> HIDE DEF Pieces
    <3> QED
      BY <3>1, <3>2 DEF p, q
  <2>3. ASSUME NEW i \in 1..Len(s) + Len(t)
        PROVE  Pieces(s \o t)[i] = (Pieces(s) \o Pieces(t))[i]
    <3>1. Pieces(s \o t)[i] = OnScreen((s \o t)[i])
      BY <1>2
    <3>2. CASE i <= Len(s)
      <4>1. Pieces(s)[i] = OnScreen(s[i]) /\ (s \o t)[i] = s[i]
        BY <1>2, <3>2
      <4> HIDE DEF Pieces
      <4> QED
        BY <2>2, <3>1, <3>2, <4>1
    <3>3. CASE ~(i <= Len(s))
      <4>1. Pieces(t)[i - Len(s)] = OnScreen(t[i - Len(s)]) /\ (s \o t)[i] = t[i - Len(s)]
        BY <1>2, <3>3
      <4> HIDE DEF Pieces
      <4> QED
        BY <2>2, <3>1, <3>3, <4>1
    <3> QED
      BY <3>2, <3>3
  <2> HIDE DEF Pieces
  <2> QED
    BY <2>1, <2>2, <2>3, SeqEqual
<1>4. FlattenSeq(Pieces(s) \o Pieces(t)) = FlattenSeq(Pieces(s)) \o FlattenSeq(Pieces(t))
  <2> HIDE DEF Pieces
  <2> QED
    BY <1>1, FlattenConcat
<1> QED
  BY <1>3, <1>4 DEF Screen

\* What has been displayed of the first of what was written comes first on the display.
LEMMA ScreenPrefix ==
  ASSUME NEW s \in Seq(Bytes), NEW t \in Seq(Bytes)
  PROVE  IsPrefix(Screen(s), Screen(s \o t))
<1> DEFINE a == Screen(s)
           b == Screen(t)
<1>1. Screen(s \o t) = a \o b
  BY ScreenConcat
<1>2. a \in Seq(Bytes) /\ b \in Seq(Bytes)
  BY ScreenType
<1> HIDE DEF a, b
<1>3. /\ a \o b \in Seq(Bytes) /\ Len(a \o b) = Len(a) + Len(b)
      /\ Len(a) \in Nat /\ Len(b) \in Nat
      /\ \A i \in 1..Len(a) + Len(b) : (a \o b)[i] = IF i <= Len(a) THEN a[i] ELSE b[i - Len(a)]
  BY <1>2, ConcatProperties, LenProperties
<1>4. \A i \in 1..Len(a) : a[i] \in Bytes /\ (a \o b)[i] = a[i]
  <2>1. \A i \in 1..Len(a) : i \in 1..Len(a) + Len(b) /\ i <= Len(a)
    BY <1>3
  <2> QED
    BY <1>2, <1>3, <2>1, ElementOfSeq
<1>5. /\ SubSeq(a, 1, Len(a)) \in Seq(Bytes) /\ Len(SubSeq(a, 1, Len(a))) = Len(a)
      /\ \A i \in 1..Len(a) : SubSeq(a, 1, Len(a))[i] = a[i]
  <2>1. SubSeq(a, 1, Len(a)) = a
    BY <1>2, SubSeqFull
  <2> QED
    BY <1>2, <2>1
<1>6. /\ SubSeq(a \o b, 1, Len(a)) \in Seq(Bytes) /\ Len(SubSeq(a \o b, 1, Len(a))) = Len(a)
      /\ \A i \in 1..Len(a) : SubSeq(a \o b, 1, Len(a))[i] = (a \o b)[i]
  BY <1>3, <1>4, SubSeqProperties
<1>7. SubSeq(a, 1, Len(a)) = SubSeq(a \o b, 1, Len(a))
  BY <1>4, <1>5, <1>6, SeqEqual
<1> QED
  BY <1>1, <1>3, <1>7 DEF IsPrefix, a

LEMMA CleanBytes ==
  ASSUME opt.script \in Seq(Bytes)
  PROVE  /\ Clean \in Seq(Bytes)
         /\ Len(Clean) \in 0..Len(opt.script)
         /\ \A i \in 1..Len(Clean) :
              Clean[i] = opt.script[i] /\ opt.script[i] \notin {"ETX", "EOT"}
         /\ Len(Clean) < Len(opt.script) =>
              opt.script[Len(Clean) + 1] \in {"ETX", "EOT"}
<1> DEFINE s == opt.script
           control == {i \in 1..Len(s) : s[i] \in {"ETX", "EOT"}}
           first == IF control = {} THEN Len(s) + 1
                    ELSE CHOOSE i \in control : \A j \in control : i <= j
<1>1. Clean = SubSeq(s, 1, first - 1)
  BY DEF Clean
<1>2. Len(s) \in Nat /\ control \in SUBSET Nat
  BY LenProperties
<1>3. /\ first \in 1..(Len(s) + 1)
      /\ \A i \in 1..(first - 1) : s[i] \notin {"ETX", "EOT"}
      /\ first <= Len(s) => s[first] \in {"ETX", "EOT"}
  <2>1. CASE control = {}
    BY <1>2, <2>1
  <2>2. CASE control # {}
    <3>1. first \in control /\ \A j \in control : first <= j
      <4>1. \E i \in control : \A j \in control : i <= j
        BY <1>2, <2>2, Least
      <4> QED
        BY <2>2, <4>1
    <3>2. first \in 1..Len(s) /\ s[first] \in {"ETX", "EOT"}
      BY <3>1
    <3> HIDE DEF first
    <3>3. \A i \in 1..(first - 1) : i \in 1..Len(s) /\ ~(first <= i)
      BY <1>2, <3>2
    <3> QED
      BY <1>2, <3>1, <3>2, <3>3
  <2> QED
    BY <2>1, <2>2
<1> HIDE DEF first, control
<1>4. \A i \in 1..(first - 1) : s[i] \in Bytes
  BY <1>2, <1>3, LenProperties
<1>5. /\ Clean \in Seq(Bytes)
      /\ Len(Clean) = first - 1
      /\ \A i \in 1..(first - 1) : Clean[i] = s[i]
  BY <1>1, <1>2, <1>3, <1>4, SubSeqProperties
<1> QED
  BY <1>2, <1>3, <1>5

-----------------------------------------------------------------------------
(***************************************************************************)
(* The host's loop and the shell.                                          *)
(***************************************************************************)

\* The types of what the shell and its host share.
HostTypes ==
  /\ pipe_event \in {"none", "in", "hup"}
  /\ buffer \in Seq(Bytes)
  /\ host \in {"forward", "reply"} <=> buffer # <<>>
  /\ shell \in {"none", "reading", "command", "gone"}
  /\ sigint \in BOOLEAN
  /\ to_shell \in Seq(Bytes) /\ to_shell_open \in BOOLEAN
  /\ from_shell \in Seq(Bytes) /\ from_shell_open \in BOOLEAN
  /\ fed \in Seq(Bytes)
  /\ written \in Seq(Bytes)

\* What poll has said is still so when it is used: there is something to read, or the
\* shell is gone and there is nothing.
PollTold ==
  host \in {"input", "forward", "pipe"} =>
    /\ pipe_event = "in" => from_shell_open /\ from_shell # <<>>
    /\ pipe_event = "hup" => from_shell_open /\ from_shell = <<>> /\ shell = "gone"

HostInv ==
  /\ HostTypes
  /\ PollTold
  /\ host = "reply" => from_shell_open
  /\ shell = "none" => from_shell = <<>> /\ written = <<>> /\ ~from_shell_open

\* What has been written and is still to be passed on.
Coming == (IF host = "reply" THEN buffer ELSE <<>>) \o from_shell

LEMMA HostInit ==
  ASSUME SessionInit
  PROVE  HostInv
<1>1. <<>> \in Seq(Bytes)
  OBVIOUS
<1> QED
  BY <1>1 DEF SessionInit, HostInv, HostTypes, PollTold

\* The shell's steps.
LEMMA ShellKeepsHost ==
  ASSUME HostInv, UNCHANGED hostVars,
         ShellReads \/ ShellWrites \/ CommandEnds \/ ShellQuits
  PROVE  /\ HostInv' /\ shell \notin {"none", "gone"} /\ shell' # "none"
         /\ from_shell_open' = from_shell_open
         /\ \E piece \in Seq(Bytes) :
              /\ written' = written \o piece
              /\ from_shell_open => Coming' = Coming \o piece
<1>1. /\ UNCHANGED <<host, pipe_event, buffer, to_shell_open, from_shell_open, fed>>
      /\ shell # "none" /\ shell # "gone" /\ shell' \in {"reading", "command", "gone"}
      /\ sigint' \in {sigint, FALSE}
      /\ to_shell' \in {to_shell, <<>>} \/ (to_shell # <<>> /\ to_shell' = Tail(to_shell))
  BY DEF hostVars, ShellReads, ShellWrites, CommandEnds, ShellQuits, ShellEnds, outputPipe
<1>2. to_shell' \in Seq(Bytes)
  BY <1>1, EmptySeq, HeadTailProperties DEF HostInv, HostTypes
<1>3. \E piece \in Seq(Bytes) :
        /\ written' = written \o piece
        /\ from_shell' = from_shell \o piece
        /\ ~from_shell_open => piece = <<>>
  <2>1. CASE ShellWrites /\ from_shell_open
    BY <2>1, ShellHostAssumption DEF ShellWrites
  <2>2. CASE ~(ShellWrites /\ from_shell_open)
    <3>1. written' = written /\ from_shell' = from_shell
      BY <2>2 DEF ShellReads, ShellWrites, CommandEnds, ShellQuits, outputPipe
    <3>2. written \o <<>> = written /\ from_shell \o <<>> = from_shell /\ <<>> \in Seq(Bytes)
      BY ConcatEmptySeq, EmptySeq DEF HostInv, HostTypes
    <3> QED
      BY <3>1, <3>2
  <2> QED
    BY <2>1, <2>2
<1>4. PICK piece \in Seq(Bytes) :
        /\ written' = written \o piece
        /\ from_shell' = from_shell \o piece
        /\ ~from_shell_open => piece = <<>>
  BY <1>3
<1>5. written \in Seq(Bytes) /\ from_shell \in Seq(Bytes) /\ buffer \in Seq(Bytes)
  BY DEF HostInv, HostTypes
<1>6. /\ written' \in Seq(Bytes) /\ from_shell' \in Seq(Bytes)
      /\ from_shell' = <<>> => from_shell = <<>>
  <2>1. from_shell \o piece = <<>> => from_shell = <<>>
    BY <1>5, ConcatEqualIffEmpty
  <2> QED
    BY <1>4, <1>5, <2>1, ConcatProperties
<1>7. HostInv'
  BY <1>1, <1>2, <1>6 DEF HostInv, HostTypes, PollTold
<1>8. Coming' = Coming \o piece
  <2> DEFINE kept == IF host = "reply" THEN buffer ELSE <<>>
  <2>1. kept \in Seq(Bytes) /\ Coming = kept \o from_shell /\ Coming' = kept \o (from_shell \o piece)
    BY <1>1, <1>4, <1>5, EmptySeq DEF Coming
  <2> HIDE DEF kept
  <2>2. (kept \o from_shell) \o piece = kept \o (from_shell \o piece)
    BY <1>5, <2>1, BytesAssociative, Zenon
  <2> QED
    BY <2>1, <2>2
<1> QED
  BY <1>1, <1>4, <1>7, <1>8

\* The shell is forked, or the child cannot run it.
LEMMA ForkKeepsHost ==
  ASSUME HostInv, host \notin {"forward", "reply"}, shell = "none",
         ForkShell \/ ExecFails
  PROVE  /\ HostInv' /\ host' = "poll" /\ shell' \in {"reading", "gone"}
         /\ Coming' = written' /\ written' \in Seq(Bytes)
<1>1. <<"x">> \in Seq(Bytes) /\ <<>> \in Seq(Bytes)
  BY DEF Bytes
<1>2. HostInv' /\ host' = "poll" /\ from_shell' = written' /\ shell' \in {"reading", "gone"}
  BY <1>1 DEF ForkShell, ExecFails, HostInv, HostTypes, PollTold
<1>3. Coming' = <<>> \o written'
  BY <1>2 DEF Coming
<1>4. written' \in Seq(Bytes)
  BY <1>2 DEF HostInv, HostTypes
<1> QED
  BY <1>2, <1>3, <1>4, ConcatEmptySeq

\* A round of the loop, but for what is read from the user and replied to him.
LEMMA RoundKeepsHost ==
  ASSUME HostInv, (\E readable \in BOOLEAN : Poll(readable)) \/ Forward \/ PipeSilent \/ ReadShell
  PROVE  /\ HostInv' /\ host' \in {"input", "pipe", "forward", "handler", "poll", "reply"}
         /\ written' = written /\ from_shell_open' = from_shell_open
         /\ shell' = shell /\ Coming' = Coming
<1>1. <<>> \in Seq(Bytes) /\ buffer \in Seq(Bytes) /\ from_shell \in Seq(Bytes)
  BY EmptySeq DEF HostInv, HostTypes
<1>2. CASE \E readable \in BOOLEAN : Poll(readable)
  BY <1>2 DEF Poll, PipeEvent, HostInv, HostTypes, PollTold, Coming, shellVars, inputPipe,
     outputPipe
<1>3. CASE Forward
  <2>1. /\ host = "forward" /\ buffer # <<>>
        /\ host' \in {"pipe", "handler", "forward"}
        /\ UNCHANGED <<pipe_event, shell, written, from_shell, from_shell_open>>
        /\ buffer' \in {<<>>, Tail(buffer)}
        /\ host' = "forward" <=> buffer' # <<>>
        /\ sigint' \in BOOLEAN /\ to_shell_open' \in BOOLEAN
        /\ \/ to_shell' = to_shell /\ fed' = fed
           \/ /\ to_shell' = Append(to_shell, ToShell(Head(buffer)))
              /\ fed' = Append(fed, ToShell(Head(buffer)))
    <3>1. CASE ForwardInterrupt \/ ForwardEnd
      BY <3>1 DEF ForwardInterrupt, ForwardEnd, shellVars, inputPipe, outputPipe, HostInv,
         HostTypes
    <3>2. CASE ForwardByte
      BY <3>2 DEF ForwardByte, shellVars, outputPipe, HostInv, HostTypes
    <3> QED
      BY <1>3, <3>1, <3>2 DEF Forward
  <2>2. /\ Head(buffer) \in Bytes /\ Tail(buffer) \in Seq(Bytes)
        /\ ToShell(Head(buffer)) \in Bytes
    <3>1. Head(buffer) \in Bytes /\ Tail(buffer) \in Seq(Bytes)
      BY <1>1, <2>1, HeadTailProperties
    <3>2. "LF" \in Bytes
      BY DEF Bytes
    <3> QED
      BY <3>1, <3>2 DEF ToShell
  <2>3. to_shell' \in Seq(Bytes) /\ fed' \in Seq(Bytes) /\ buffer' \in Seq(Bytes)
    <3> DEFINE byte == ToShell(Head(buffer))
    <3>1. /\ to_shell \in Seq(Bytes) /\ fed \in Seq(Bytes) /\ byte \in Bytes
          /\ to_shell' \in {to_shell, Append(to_shell, byte)}
          /\ fed' \in {fed, Append(fed, byte)}
      BY <2>1, <2>2 DEF HostInv, HostTypes
    <3> HIDE DEF byte
    <3>2. \A s \in Seq(Bytes) : \A e \in Bytes : Append(s, e) \in Seq(Bytes)
      BY AppendProperties
    <3>3. to_shell' \in Seq(Bytes) /\ fed' \in Seq(Bytes)
      BY <3>1, <3>2, Zenon
    <3> QED
      BY <1>1, <2>1, <2>2, <3>3
  <2> QED
    BY <2>1, <2>3 DEF HostInv, HostTypes, PollTold, Coming
<1>4. CASE PipeSilent
  BY <1>4 DEF PipeSilent, HostInv, HostTypes, PollTold, Coming, shellVars, inputPipe,
     outputPipe
<1>5. CASE ReadShell
  <2>1. /\ host = "pipe" /\ host' = "reply" /\ from_shell_open /\ from_shell # <<>>
        /\ buffer = <<>> /\ buffer' = from_shell /\ from_shell' = <<>>
        /\ UNCHANGED <<pipe_event, shell, sigint, written, to_shell, to_shell_open, fed,
                       from_shell_open>>
    BY <1>5 DEF ReadShell, HostInv, HostTypes, PollTold, shellVars, inputPipe
  <2>2. Coming' = from_shell \o <<>> /\ Coming = <<>> \o from_shell
    BY <2>1 DEF Coming
  <2>3. Coming' = Coming
    BY <1>1, <2>2, ConcatEmptySeq
  <2> QED
    BY <1>1, <2>1, <2>3 DEF HostInv, HostTypes, PollTold
<1> QED
  BY <1>2, <1>3, <1>4, <1>5

\* The host ends.
LEMMA EndKeepsHost ==
  ASSUME HostInv, NEW how \in {"finished", "harvested", "sigpipe", "failed", "killed"},
         HostEnds(how)
  PROVE  HostInv' /\ host' = how /\ written' = written /\ shell' = shell /\ ~from_shell_open'
<1>1. <<>> \in Seq(Bytes)
  OBVIOUS
<1> QED
  BY <1>1 DEF HostEnds, HostInv, HostTypes, PollTold, shellVars
=============================================================================
