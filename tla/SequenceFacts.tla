---------------------------- MODULE SequenceFacts ----------------------------
(***************************************************************************)
(* Facts about sequences that the proofs of the components cite: induction *)
(* over numbers and over sequences, stated for a set of them, and what the *)
(* community modules' folds compute.  A fold is one of an operator, so it  *)
(* is a constant here, and a proof takes an instance for each it needs.    *)
(***************************************************************************)
EXTENDS Integers, SequencesExt, TLAPS, WellFoundedInduction, SequenceTheorems

CONSTANT Op(_, _)

----------------------------------------------------------------------------

\* A set of numbers has a least one.
LEMMA LeastNat ==
  ASSUME NEW T, T \subseteq Nat, T # {} PROVE \E m \in T : \A n \in T : m <= n
<1> DEFINE R == {ss \in Nat \X Nat : ss[1] < ss[2]}
<1>1. IsWellFoundedOn(R, Nat)
  BY NatLessThanWellFounded DEF OpToRel
<1>2. PICK m \in T : \A y \in T : ~(<<y, m>> \in R)
  <2> HIDE DEF R
  <2> QED BY <1>1, WFMin
<1>3. \A y \in T : ~(y < m)
  BY <1>2
<1> QED BY <1>3

\* A set that has 0 and the successor of each of its numbers has them all.
LEMMA SetInduction ==
  ASSUME NEW T, 0 \in T, \A n \in Nat : n \in T => n + 1 \in T
  PROVE  \A n \in Nat : n \in T
<1> SUFFICES ASSUME NEW k \in Nat, k \notin T PROVE FALSE
  OBVIOUS
<1> DEFINE U == {n \in Nat : n \notin T}
<1>1. PICK m \in U : \A n \in U : m <= n
  <2>1. U \subseteq Nat /\ U # {}
    OBVIOUS
  <2> QED BY <2>1, LeastNat
<1>2. m # 0 /\ m - 1 \in Nat /\ m - 1 \notin U
  BY <1>1
<1>3. m - 1 \in T
  BY <1>2
<1>4. (m - 1) + 1 = m
  BY <1>1
<1> QED BY <1>1, <1>2, <1>3, <1>4

\* The same for sequences that grow by one element.
LEMMA SeqInduction ==
  ASSUME NEW S, NEW T, <<>> \in T,
         \A s \in Seq(S), x \in S : s \in T => Append(s, x) \in T
  PROVE  \A s \in Seq(S) : s \in T
<1> DEFINE N == {n \in Nat : \A s \in Seq(S) : Len(s) = n => s \in T}
<1>1. 0 \in N
  <2>1. \A s \in Seq(S) : Len(s) = 0 => s = <<>>
    BY EmptySeq
  <2> QED BY <2>1
<1>2. \A n \in Nat : n \in N => n + 1 \in N
  <2> SUFFICES ASSUME NEW n \in Nat, n \in N, NEW s \in Seq(S), Len(s) = n + 1
               PROVE  s \in T
    OBVIOUS
  <2>1. s # <<>>
    BY EmptySeq
  <2>2. PICK r \in Seq(S), x \in S : s = Append(r, x)
    BY <2>1, SequenceEmptyOrAppend
  <2>3. Len(r) = n
    BY <2>2, AppendProperties, LenProperties
  <2> QED BY <2>2, <2>3
<1>3. \A n \in Nat : n \in N
  <2> HIDE DEF N
  <2> QED BY <1>1, <1>2, SetInduction
<1> QED BY <1>3, LenProperties

\* A sequence of the length of a number is a sequence.
LEMMA SeqByIndex ==
  ASSUME NEW S, NEW s, NEW n \in Nat, DOMAIN s = 1..n, s = [i \in 1..n |-> s[i]],
         \A i \in 1..n : s[i] \in S
  PROVE  s \in Seq(S) /\ Len(s) = n
  BY SeqDef

----------------------------------------------------------------------------

\* Prefixes.
LEMMA PrefixConcat ==
  ASSUME NEW S, NEW s \in Seq(S), NEW t \in Seq(S) PROVE IsPrefix(s, s \o t)
<1>1. Len(s) \in Nat /\ Len(t) \in Nat /\ Len(s) <= Len(s \o t)
  BY ConcatProperties, LenProperties
<1>2. SubSeq(s, 1, Len(s)) = s
  BY SubSeqFull
<1>3. SubSeq(s \o t, 1, Len(s)) = s
  <2>1. /\ s \o t \in Seq(S) /\ Len(s \o t) = Len(s) + Len(t)
        /\ \A i \in 1..Len(s) : (s \o t)[i] = s[i] /\ s[i] \in S
    BY <1>1, ConcatProperties, ElementOfSeq
  <2>2. /\ SubSeq(s \o t, 1, Len(s)) \in Seq(S)
        /\ Len(SubSeq(s \o t, 1, Len(s))) = Len(s)
        /\ \A i \in 1..Len(s) : SubSeq(s \o t, 1, Len(s))[i] = (s \o t)[i]
    BY <1>1, <2>1, SubSeqProperties
  <2> QED BY <2>1, <2>2, SeqEqual
<1> QED BY <1>1, <1>2, <1>3 DEF IsPrefix

LEMMA PrefixAppend ==
  ASSUME NEW S, NEW s \in Seq(S), NEW x \in S PROVE IsPrefix(s, Append(s, x))
<1>1. Append(s, x) = s \o <<x>> /\ <<x>> \in Seq(S)
  BY AppendIsConcat
<1>2. IsPrefix(s, s \o <<x>>)
  BY <1>1, PrefixConcat
<1> QED BY <1>1, <1>2

\* A sequence is a prefix of another when it is no longer and agrees with it.
LEMMA PrefixByIndex ==
  ASSUME NEW S, NEW s \in Seq(S), NEW t \in Seq(S)
  PROVE  IsPrefix(s, t) <=> (Len(s) <= Len(t) /\ \A i \in 1..Len(s) : s[i] = t[i])
<1>1. Len(s) \in Nat /\ Len(t) \in Nat
  BY LenProperties
<1>2. SubSeq(s, 1, Len(s)) = s
  BY SubSeqFull
<1>3. ASSUME Len(s) <= Len(t)
      PROVE  (SubSeq(t, 1, Len(s)) = s) <=> (\A i \in 1..Len(s) : s[i] = t[i])
  <2>1. \A i \in 1..Len(s) : t[i] \in S
    BY <1>1, <1>3, ElementOfSeq
  <2>2. /\ SubSeq(t, 1, Len(s)) \in Seq(S) /\ Len(SubSeq(t, 1, Len(s))) = Len(s)
        /\ \A i \in 1..Len(s) : SubSeq(t, 1, Len(s))[i] = t[i]
    BY <1>1, <2>1, SubSeqProperties
  <2> QED BY <2>2, SeqEqual
<1> QED BY <1>2, <1>3 DEF IsPrefix

----------------------------------------------------------------------------

\* What lies within a sequence is not changed by what is appended to it.
LEMMA SubSeqOfAppend ==
  ASSUME NEW S, NEW t \in Seq(S), NEW x \in S, NEW m \in Nat \ {0}, NEW n \in Nat, n <= Len(t)
  PROVE  /\ SubSeq(t, m, n) \in Seq(S)
         /\ SubSeq(Append(t, x), m, n) = SubSeq(t, m, n)
<1> DEFINE u == Append(t, x)
<1>1. Len(t) \in Nat /\ u \in Seq(S) /\ \A i \in 1..Len(t) : u[i] = t[i]
  BY LenProperties, AppendProperties
<1>2. \A i \in m..n : t[i] \in S /\ u[i] = t[i]
  BY <1>1, ElementOfSeq
<1> HIDE DEF u
<1>3. /\ SubSeq(t, m, n) \in Seq(S) /\ Len(SubSeq(t, m, n)) = IF m <= n THEN n - m + 1 ELSE 0
      /\ \A i \in 1..(n - m + 1) : SubSeq(t, m, n)[i] = t[m + i - 1]
  BY <1>2, SubSeqProperties
<1>4. /\ SubSeq(u, m, n) \in Seq(S) /\ Len(SubSeq(u, m, n)) = IF m <= n THEN n - m + 1 ELSE 0
      /\ \A i \in 1..(n - m + 1) : SubSeq(u, m, n)[i] = u[m + i - 1]
  BY <1>2, SubSeqProperties
<1>5. \A i \in 1..Len(SubSeq(t, m, n)) : SubSeq(u, m, n)[i] = SubSeq(t, m, n)[i]
  <2> TAKE i \in 1..Len(SubSeq(t, m, n))
  <2>1. m <= n /\ i \in 1..(n - m + 1) /\ m + i - 1 \in m..n
    BY <1>3
  <2> QED BY <1>2, <1>3, <1>4, <2>1
<1> QED BY <1>3, <1>4, <1>5, SeqEqual DEF u

LEMMA SubSeqToAppended ==
  ASSUME NEW S, NEW t \in Seq(S), NEW x \in S, NEW m \in 1..(Len(t) + 1)
  PROVE  SubSeq(Append(t, x), m, Len(t) + 1) = Append(SubSeq(t, m, Len(t)), x)
<1> DEFINE u == Append(t, x)
           n == Len(t)
<1>1. n \in Nat /\ u \in Seq(S) /\ Len(u) = n + 1 /\ u[n + 1] = x
  BY LenProperties, AppendProperties
<1>2. SubSeq(u, m, n) = SubSeq(t, m, n) /\ SubSeq(t, m, n) \in Seq(S)
  BY <1>1, SubSeqOfAppend
<1> HIDE DEF u
<1>3. SubSeq(u, m, n + 1) = SubSeq(u, m, n) \o <<u[n + 1]>>
  <2>1. m \in 1..Len(u) /\ n + 1 \in m..Len(u)
    BY <1>1
  <2>2. SubSeq(u, m, n + 1) = SubSeq(u, m, (n + 1) - 1) \o <<u[n + 1]>>
    BY <1>1, <2>1, SubSeqRecursiveSecond
  <2>3. (n + 1) - 1 = n
    BY <1>1
  <2> QED BY <2>2, <2>3
<1>4. Append(SubSeq(t, m, n), x) = SubSeq(t, m, n) \o <<x>>
  BY <1>2, AppendIsConcat
<1> QED BY <1>1, <1>2, <1>3, <1>4 DEF u

LEMMA SubSeqGrows ==
  ASSUME NEW S, NEW t \in Seq(S), NEW n \in Nat, n < Len(t), NEW m \in 1..(n + 1)
  PROVE  /\ SubSeq(t, m, n) \in Seq(S) /\ t[n + 1] \in S
         /\ SubSeq(t, m, n + 1) = Append(SubSeq(t, m, n), t[n + 1])
<1>1. /\ Len(t) \in Nat /\ n + 1 \in 1..Len(t) /\ m \in 1..Len(t) /\ n + 1 \in m..Len(t)
      /\ (n + 1) - 1 = n
  BY LenProperties
<1>2. \A i \in 1..Len(t) : t[i] \in S
  BY ElementOfSeq
<1>3. SubSeq(t, m, n + 1) = SubSeq(t, m, (n + 1) - 1) \o <<t[n + 1]>>
  BY <1>1, SubSeqRecursiveSecond
<1>4. SubSeq(t, m, n) \in Seq(S)
  <2>1. \A i \in m..n : t[i] \in S
    BY <1>1, <1>2
  <2> QED BY <1>1, <2>1, SubSeqProperties
<1>5. t[n + 1] \in S
  BY <1>1, <1>2
<1>6. Append(SubSeq(t, m, n), t[n + 1]) = SubSeq(t, m, n) \o <<t[n + 1]>>
  BY <1>4, <1>5, AppendIsConcat
<1> QED BY <1>1, <1>3, <1>4, <1>5, <1>6

----------------------------------------------------------------------------

\* What FoldLeft computes, with its recursion over sets of indices.
Folding(g, base, seq, n) ==
  g = [s \in SUBSET (1..n) |-> IF s = {} THEN base ELSE Op(g[s \ {Max(s)}], seq[Max(s)])]

Fold(base, seq) == (CHOOSE g : Folding(g, base, seq, Len(seq)))[1..Len(seq)]

LEMMA MaxOfPrefix ==
  ASSUME NEW n \in Nat, NEW s \in SUBSET (1..(n + 1)), n + 1 \in s PROVE Max(s) = n + 1
<1>1. \A y \in s : n + 1 >= y /\ y \in Nat
  OBVIOUS
<1>2. Max(s) \in s /\ \A y \in s : Max(s) >= y
  BY <1>1 DEF Max
<1>3. Max(s) >= n + 1 /\ n + 1 >= Max(s) /\ Max(s) \in Nat
  BY <1>1, <1>2
<1> QED BY <1>3

LEMMA FoldingExists ==
  ASSUME NEW base, NEW seq, NEW n \in Nat PROVE \E g : Folding(g, base, seq, n)
<1> DEFINE T == {k \in Nat : \E g : Folding(g, base, seq, k)}
<1>1. 0 \in T
  <2>1. Folding([s \in SUBSET (1..0) |-> base], base, seq, 0)
    BY DEF Folding
  <2> QED BY <2>1
<1>2. \A k \in Nat : k \in T => k + 1 \in T
  <2> SUFFICES ASSUME NEW k \in Nat, NEW g, Folding(g, base, seq, k) PROVE k + 1 \in T
    OBVIOUS
  <2> DEFINE h == [s \in SUBSET (1..(k + 1)) |->
                     IF k + 1 \in s THEN Op(g[s \ {k + 1}], seq[k + 1]) ELSE g[s]]
  <2>1. \A s \in SUBSET (1..k) : h[s] = g[s]
    OBVIOUS
  <2>2. ASSUME NEW s \in SUBSET (1..(k + 1)), k + 1 \in s
        PROVE  s # {} /\ h[s] = Op(h[s \ {Max(s)}], seq[Max(s)])
    <3>1. Max(s) = k + 1
      BY <2>2, MaxOfPrefix
    <3>2. s \ {k + 1} \in SUBSET (1..k)
      BY <2>2
    <3>3. h[s] = Op(g[s \ {k + 1}], seq[k + 1])
      BY <2>2
    <3>4. h[s \ {k + 1}] = g[s \ {k + 1}]
      BY <2>1, <3>2
    <3> QED BY <2>2, <3>1, <3>3, <3>4
  <2>3. ASSUME NEW s \in SUBSET (1..(k + 1)), k + 1 \notin s, s # {}
        PROVE  h[s] = Op(h[s \ {Max(s)}], seq[Max(s)])
    <3>1. s \in SUBSET (1..k) /\ s \ {Max(s)} \in SUBSET (1..k)
      <4>1. \A i \in s : i \in 1..(k + 1) /\ i # k + 1
        BY <2>3
      <4>2. \A i \in s : i \in 1..k
        BY <4>1
      <4> QED BY <4>2
    <3>2. g[s] = Op(g[s \ {Max(s)}], seq[Max(s)])
      BY <2>3, <3>1 DEF Folding
    <3> QED BY <2>1, <3>1, <3>2
  <2>4. h[{}] = base
    <3>1. {} \in SUBSET (1..k)
      OBVIOUS
    <3> QED BY <2>1, <3>1 DEF Folding
  <2>5. h = [s \in SUBSET (1..(k + 1)) |-> h[s]]
    OBVIOUS
  <2>6. \A s \in SUBSET (1..(k + 1)) :
          h[s] = IF s = {} THEN base ELSE Op(h[s \ {Max(s)}], seq[Max(s)])
    <3> HIDE DEF h
    <3> QED BY <2>2, <2>3, <2>4
  <2>7. Folding(h, base, seq, k + 1)
    <3> HIDE DEF h
    <3> QED BY <2>5, <2>6 DEF Folding
  <2> QED BY <2>7
<1>3. \A k \in Nat : k \in T
  <2> HIDE DEF T
  <2> QED BY <1>1, <1>2, SetInduction
<1> QED BY <1>3

\* Along the prefixes of the sequence it applies the operator once each.
LEMMA FoldingPrefix ==
  ASSUME NEW base, NEW seq, NEW n \in Nat, NEW g, Folding(g, base, seq, n)
  PROVE  /\ g[1..0] = base
         /\ \A k \in Nat : k < n => g[1..(k + 1)] = Op(g[1..k], seq[k + 1])
<1>1. g[1..0] = base
  <2>1. 1..0 = {} /\ {} \in SUBSET (1..n)
    OBVIOUS
  <2> QED BY <2>1 DEF Folding
<1>2. ASSUME NEW k \in Nat, k < n PROVE g[1..(k + 1)] = Op(g[1..k], seq[k + 1])
  <2>1. 1..(k + 1) \in SUBSET (1..n) /\ k + 1 \in 1..(k + 1) /\ 1..(k + 1) # {}
    BY <1>2
  <2>2. Max(1..(k + 1)) = k + 1
    BY <2>1, MaxOfPrefix
  <2>3. (1..(k + 1)) \ {k + 1} = 1..k
    OBVIOUS
  <2> QED BY <2>1, <2>2, <2>3 DEF Folding
<1> QED BY <1>1, <1>2

\* Sequences that agree are folded alike.
LEMMA FoldingAgrees ==
  ASSUME NEW base, NEW seq, NEW other, NEW n \in Nat, NEW m \in Nat, n <= m,
         NEW g, Folding(g, base, seq, n), NEW h, Folding(h, base, other, m),
         \A i \in 1..n : seq[i] = other[i]
  PROVE  g[1..n] = h[1..n]
<1> DEFINE T == {k \in Nat : k <= n => g[1..k] = h[1..k]}
<1>1. 0 \in T
  <2>1. 1..0 = {} /\ {} \in SUBSET (1..n) /\ {} \in SUBSET (1..m)
    OBVIOUS
  <2> QED BY <2>1 DEF Folding
<1>2. \A k \in Nat : k \in T => k + 1 \in T
  <2> SUFFICES ASSUME NEW k \in Nat, k \in T, k + 1 <= n PROVE g[1..(k + 1)] = h[1..(k + 1)]
    OBVIOUS
  <2>1. g[1..(k + 1)] = Op(g[1..k], seq[k + 1])
    BY FoldingPrefix
  <2>2. h[1..(k + 1)] = Op(h[1..k], other[k + 1])
    BY FoldingPrefix
  <2>3. seq[k + 1] = other[k + 1] /\ g[1..k] = h[1..k]
    OBVIOUS
  <2> QED BY <2>1, <2>2, <2>3
<1>3. \A k \in Nat : k \in T
  <2> HIDE DEF T
  <2> QED BY <1>1, <1>2, SetInduction
<1> QED BY <1>3

LEMMA FoldEmpty == ASSUME NEW base PROVE Fold(base, <<>>) = base
<1> DEFINE g == CHOOSE f : Folding(f, base, <<>>, 0)
<1>1. \E f : Folding(f, base, <<>>, 0)
  BY FoldingExists
<1>2. Folding(g, base, <<>>, 0)
  BY <1>1
<1>3. Fold(base, <<>>) = g[1..0]
  BY DEF Fold
<1> HIDE DEF g
<1>4. g[1..0] = base
  BY <1>2, FoldingPrefix
<1> QED BY <1>3, <1>4

LEMMA FoldAppend ==
  ASSUME NEW base, NEW S, NEW seq \in Seq(S), NEW x \in S
  PROVE  Fold(base, Append(seq, x)) = Op(Fold(base, seq), x)
<1> DEFINE n == Len(seq)
           more == Append(seq, x)
           g == CHOOSE f : Folding(f, base, seq, Len(seq))
           h == CHOOSE f : Folding(f, base, more, Len(more))
<1>1. n \in Nat /\ Len(more) = n + 1 /\ more[n + 1] = x /\ \A i \in 1..n : seq[i] = more[i]
  BY AppendProperties, LenProperties
<1>2. \E f : Folding(f, base, seq, Len(seq))
  BY <1>1, FoldingExists
<1>3. \E f : Folding(f, base, more, Len(more))
  <2> HIDE DEF more
  <2> QED BY <1>1, FoldingExists
<1>4. Folding(g, base, seq, n)
  BY <1>2
<1>5. Folding(h, base, more, n + 1)
  BY <1>1, <1>3
<1>6. Fold(base, seq) = g[1..n] /\ Fold(base, more) = h[1..(n + 1)]
  BY <1>1 DEF Fold
<1> HIDE DEF g, h, more, n
<1>7. h[1..(n + 1)] = Op(h[1..n], more[n + 1])
  BY <1>1, <1>5, FoldingPrefix
<1>8. h[1..n] = g[1..n]
  BY <1>1, <1>4, <1>5, FoldingAgrees
<1> QED BY <1>1, <1>6, <1>7, <1>8 DEF more

\* The two together, for a second part of the sequence.
LEMMA FoldConcat ==
  ASSUME NEW base, NEW S, NEW seq \in Seq(S), NEW rest \in Seq(S)
  PROVE  Fold(base, seq \o rest) = Fold(Fold(base, seq), rest)
<1> DEFINE T == {r \in Seq(S) : Fold(base, seq \o r) = Fold(Fold(base, seq), r)}
<1>1. <<>> \in T
  BY ConcatEmptySeq, EmptySeq, FoldEmpty
<1>2. \A r \in Seq(S), x \in S : r \in T => Append(r, x) \in T
  <2> SUFFICES ASSUME NEW r \in Seq(S), NEW x \in S, r \in T PROVE Append(r, x) \in T
    OBVIOUS
  <2>1. seq \o Append(r, x) = Append(seq \o r, x) /\ seq \o r \in Seq(S) /\ Append(r, x) \in Seq(S)
    <3>1. Append(r, x) = r \o <<x>> /\ <<x>> \in Seq(S) /\ seq \o r \in Seq(S)
      BY AppendIsConcat, ConcatProperties
    <3>2. Append(seq \o r, x) = (seq \o r) \o <<x>>
      BY <3>1, AppendIsConcat
    <3> QED BY <3>1, <3>2, ConcatAssociative, AppendProperties
  <2>2. Fold(base, Append(seq \o r, x)) = Op(Fold(base, seq \o r), x)
    BY <2>1, FoldAppend
  <2>3. Fold(Fold(base, seq), Append(r, x)) = Op(Fold(Fold(base, seq), r), x)
    BY FoldAppend
  <2> QED BY <2>1, <2>2, <2>3
<1>3. \A r \in Seq(S) : r \in T
  <2> HIDE DEF T
  <2> QED BY <1>1, <1>2, SeqInduction
<1> QED BY <1>3

\* What an operator keeps, its fold keeps.
LEMMA FoldType ==
  ASSUME NEW R, NEW base \in R, NEW S, NEW seq \in Seq(S),
         \A r \in R, x \in S : Op(r, x) \in R
  PROVE  Fold(base, seq) \in R
<1> DEFINE T == {r \in Seq(S) : Fold(base, r) \in R}
<1>1. <<>> \in T
  BY EmptySeq, FoldEmpty
<1>2. \A r \in Seq(S), x \in S : r \in T => Append(r, x) \in T
  BY FoldAppend, AppendProperties
<1>3. \A r \in Seq(S) : r \in T
  <2> HIDE DEF T
  <2> QED BY <1>1, <1>2, SeqInduction
<1> QED BY <1>3

----------------------------------------------------------------------------

\* What FlattenSeq computes.
Flattening(f, seqs, n) ==
  f = [i \in 1..n |-> IF i = 1 THEN seqs[i] ELSE f[i - 1] \o seqs[i]]

LEMMA FlatteningAt ==
  ASSUME NEW f, NEW seqs, NEW n \in Nat, Flattening(f, seqs, n), NEW i \in 1..n
  PROVE  f[i] = IF i = 1 THEN seqs[i] ELSE f[i - 1] \o seqs[i]
<1> DEFINE g == [j \in 1..n |-> IF j = 1 THEN seqs[j] ELSE f[j - 1] \o seqs[j]]
<1>1. f = g
  BY DEF Flattening
<1>2. g[i] = IF i = 1 THEN seqs[i] ELSE f[i - 1] \o seqs[i]
  OBVIOUS
<1> QED BY <1>1, <1>2

LEMMA FlatteningExists == ASSUME NEW seqs, NEW n \in Nat PROVE \E f : Flattening(f, seqs, n)
<1> DEFINE T == {k \in Nat : \E f : Flattening(f, seqs, k)}
<1>1. 0 \in T
  <2>1. Flattening([i \in 1..0 |-> <<>>], seqs, 0)
    BY DEF Flattening
  <2> QED BY <2>1
<1>2. \A k \in Nat : k \in T => k + 1 \in T
  <2> SUFFICES ASSUME NEW k \in Nat, NEW f, Flattening(f, seqs, k) PROVE k + 1 \in T
    OBVIOUS
  <2> DEFINE h == [i \in 1..(k + 1) |->
                     IF i = k + 1 THEN IF i = 1 THEN seqs[i] ELSE f[k] \o seqs[i] ELSE f[i]]
  <2>1. ASSUME NEW i \in 1..k PROVE h[i] = IF i = 1 THEN seqs[i] ELSE h[i - 1] \o seqs[i]
    <3>1. h[i] = f[i] /\ (i # 1 => h[i - 1] = f[i - 1])
      OBVIOUS
    <3> QED BY <3>1, FlatteningAt
  <2>2. h[k + 1] = IF k + 1 = 1 THEN seqs[k + 1] ELSE h[k] \o seqs[k + 1]
    OBVIOUS
  <2>3. h = [i \in 1..(k + 1) |-> h[i]]
    OBVIOUS
  <2> HIDE DEF h
  <2>4. \A i \in 1..(k + 1) : h[i] = IF i = 1 THEN seqs[i] ELSE h[i - 1] \o seqs[i]
    <3> TAKE i \in 1..(k + 1)
    <3>1. CASE i = k + 1
      BY <2>2, <3>1
    <3>2. CASE i # k + 1
      BY <2>1, <3>2
    <3> QED BY <3>1, <3>2
  <2>5. Flattening(h, seqs, k + 1)
    BY <2>3, <2>4 DEF Flattening
  <2> QED BY <2>5
<1>3. \A k \in Nat : k \in T
  <2> HIDE DEF T
  <2> QED BY <1>1, <1>2, SetInduction
<1> QED BY <1>3

LEMMA FlatteningAgrees ==
  ASSUME NEW seqs, NEW other, NEW n \in Nat, NEW m \in Nat, n <= m,
         NEW f, Flattening(f, seqs, n), NEW h, Flattening(h, other, m),
         \A i \in 1..n : seqs[i] = other[i]
  PROVE  \A i \in 1..n : f[i] = h[i]
<1> DEFINE T == {k \in Nat : k \in 1..n => f[k] = h[k]}
<1>1. 0 \in T
  OBVIOUS
<1>2. \A k \in Nat : k \in T => k + 1 \in T
  <2> SUFFICES ASSUME NEW k \in Nat, k \in T, k + 1 \in 1..n PROVE f[k + 1] = h[k + 1]
    OBVIOUS
  <2>1. f[k + 1] = IF k + 1 = 1 THEN seqs[k + 1] ELSE f[k] \o seqs[k + 1]
    BY FlatteningAt
  <2>2. h[k + 1] = IF k + 1 = 1 THEN other[k + 1] ELSE h[k] \o other[k + 1]
    BY FlatteningAt
  <2>3. seqs[k + 1] = other[k + 1] /\ (k + 1 # 1 => f[k] = h[k])
    OBVIOUS
  <2> QED BY <2>1, <2>2, <2>3
<1>3. \A k \in Nat : k \in T
  <2> HIDE DEF T
  <2> QED BY <1>1, <1>2, SetInduction
<1> QED BY <1>3

LEMMA FlattenEmpty == FlattenSeq(<<>>) = <<>>
  BY DEF FlattenSeq

\* The flattening of a non-empty sequence is the last of its prefixes'.
LEMMA FlattenIs ==
  ASSUME NEW seqs, Len(seqs) \in Nat \ {0}
  PROVE  \E f : Flattening(f, seqs, Len(seqs)) /\ FlattenSeq(seqs) = f[Len(seqs)]
<1> DEFINE f == CHOOSE f : Flattening(f, seqs, Len(seqs))
<1>1. Flattening(f, seqs, Len(seqs))
  BY FlatteningExists
<1>2. FlattenSeq(seqs) = f[Len(seqs)]
  BY DEF FlattenSeq, Flattening
<1> QED BY <1>1, <1>2

LEMMA FlattenAppend ==
  ASSUME NEW S, NEW seqs \in Seq(Seq(S)), NEW s \in Seq(S)
  PROVE  FlattenSeq(Append(seqs, s)) = FlattenSeq(seqs) \o s
<1> DEFINE n == Len(seqs)
           more == Append(seqs, s)
<1>1. n \in Nat /\ Len(more) = n + 1 /\ more[n + 1] = s /\ \A i \in 1..n : seqs[i] = more[i]
  BY AppendProperties, LenProperties
<1> HIDE DEF more
<1>2. PICK h : Flattening(h, more, n + 1) /\ FlattenSeq(more) = h[n + 1]
  BY <1>1, FlattenIs
<1>3. h[n + 1] = IF n + 1 = 1 THEN more[n + 1] ELSE h[n] \o more[n + 1]
  BY <1>1, <1>2, FlatteningAt
<1>4. CASE n = 0
  <2>1. seqs = <<>>
    BY <1>4, EmptySeq
  <2> QED BY <1>1, <1>2, <1>3, <1>4, <2>1, FlattenEmpty, ConcatEmptySeq DEF more
<1>5. CASE n # 0
  <2>1. PICK f : Flattening(f, seqs, n) /\ FlattenSeq(seqs) = f[n]
    BY <1>1, <1>5, FlattenIs
  <2> HIDE DEF n
  <2>2. \A i \in 1..n : f[i] = h[i]
    <3>1. n + 1 \in Nat /\ n <= n + 1
      BY <1>1
    <3> QED BY <1>1, <1>2, <2>1, <3>1, FlatteningAgrees
  <2>3. f[n] = h[n] /\ n + 1 # 1
    BY <1>1, <1>5, <2>2
  <2>4. FlattenSeq(more) = f[n] \o s
    BY <1>1, <1>2, <1>3, <2>3
  <2> QED BY <2>1, <2>4 DEF more
<1> QED BY <1>4, <1>5

LEMMA FlattenType ==
  ASSUME NEW S, NEW seqs \in Seq(Seq(S)) PROVE FlattenSeq(seqs) \in Seq(S)
<1> DEFINE T == {ss \in Seq(Seq(S)) : FlattenSeq(ss) \in Seq(S)}
<1>1. <<>> \in T
  BY EmptySeq, FlattenEmpty
<1>2. \A ss \in Seq(Seq(S)), s \in Seq(S) : ss \in T => Append(ss, s) \in T
  <2> SUFFICES ASSUME NEW ss \in Seq(Seq(S)), NEW s \in Seq(S), FlattenSeq(ss) \in Seq(S)
               PROVE  Append(ss, s) \in T
    OBVIOUS
  <2>1. FlattenSeq(Append(ss, s)) = FlattenSeq(ss) \o s
    BY FlattenAppend
  <2>2. Append(ss, s) \in Seq(Seq(S)) /\ FlattenSeq(ss) \o s \in Seq(S)
    BY AppendProperties, ConcatProperties
  <2> QED BY <2>1, <2>2
<1>3. \A ss \in Seq(Seq(S)) : ss \in T
  <2> HIDE DEF T
  <2> QED BY <1>1, <1>2, SeqInduction
<1> QED BY <1>3

LEMMA FlattenConcat ==
  ASSUME NEW S, NEW seqs \in Seq(Seq(S)), NEW rest \in Seq(Seq(S))
  PROVE  FlattenSeq(seqs \o rest) = FlattenSeq(seqs) \o FlattenSeq(rest)
<1> DEFINE T == {r \in Seq(Seq(S)) :
                   FlattenSeq(seqs \o r) = FlattenSeq(seqs) \o FlattenSeq(r)}
<1>1. <<>> \in T
  BY EmptySeq, FlattenEmpty, FlattenType, ConcatEmptySeq
<1>2. \A r \in Seq(Seq(S)), s \in Seq(S) : r \in T => Append(r, s) \in T
  <2> SUFFICES ASSUME NEW r \in Seq(Seq(S)), NEW s \in Seq(S), r \in T
               PROVE  Append(r, s) \in T
    OBVIOUS
  <2>1. Append(r, s) = r \o <<s>> /\ <<s>> \in Seq(Seq(S)) /\ seqs \o r \in Seq(Seq(S))
    BY AppendIsConcat, ConcatProperties
  <2>2. seqs \o Append(r, s) = Append(seqs \o r, s)
    <3>1. Append(seqs \o r, s) = (seqs \o r) \o <<s>>
      BY <2>1, AppendIsConcat
    <3> QED BY <2>1, <3>1, ConcatAssociative
  <2>3. FlattenSeq(Append(seqs \o r, s)) = FlattenSeq(seqs \o r) \o s
    BY <2>1, FlattenAppend
  <2>4. FlattenSeq(Append(r, s)) = FlattenSeq(r) \o s
    BY FlattenAppend
  <2>5. (FlattenSeq(seqs) \o FlattenSeq(r)) \o s = FlattenSeq(seqs) \o (FlattenSeq(r) \o s)
    BY FlattenType, ConcatAssociative
  <2> QED BY <2>2, <2>3, <2>4, <2>5, AppendProperties
<1>3. \A r \in Seq(Seq(S)) : r \in T
  <2> HIDE DEF T
  <2> QED BY <1>1, <1>2, SeqInduction
<1> QED BY <1>3

LEMMA FlattenGrows ==
  ASSUME NEW S, NEW g \in Seq(Seq(S)), NEW h \in Seq(Seq(S)), Len(h) = Len(g) + 1,
         \A i \in 1..Len(g) : h[i] = g[i]
  PROVE  FlattenSeq(h) = FlattenSeq(g) \o h[Len(g) + 1]
<1> DEFINE n == Len(g)
           x == h[n + 1]
           longer == Append(g, x)
<1>1. n \in Nat /\ Len(h) = n + 1
  BY LenProperties
<1>2. x \in Seq(S)
  BY <1>1, ElementOfSeq
<1> HIDE DEF x
<1>3. /\ longer \in Seq(Seq(S)) /\ Len(longer) = n + 1
      /\ longer[n + 1] = x /\ \A i \in 1..n : longer[i] = g[i]
  BY <1>2, AppendProperties
<1>4. FlattenSeq(longer) = FlattenSeq(g) \o x
  BY <1>2, FlattenAppend
<1> HIDE DEF longer
<1>5. \A i \in 1..Len(h) : h[i] = longer[i]
  <2> TAKE i \in 1..Len(h)
  <2>1. CASE i \in 1..n
    BY <1>3, <2>1
  <2>2. CASE i = n + 1
    BY <1>3, <2>2 DEF x
  <2> QED BY <1>1, <2>1, <2>2
<1>6. h = longer
  BY <1>1, <1>3, <1>5, SeqEqual
<1> QED BY <1>4, <1>6 DEF x

LEMMA FlattenNothing ==
  ASSUME NEW S, NEW seqs \in Seq(Seq(S)), \A i \in 1..Len(seqs) : seqs[i] = <<>>
  PROVE  FlattenSeq(seqs) = <<>>
<1> DEFINE Empties(ss) == \A i \in 1..Len(ss) : ss[i] = <<>>
           T == {ss \in Seq(Seq(S)) : Empties(ss) => FlattenSeq(ss) = <<>>}
<1>1. <<>> \in T
  BY EmptySeq, FlattenEmpty
<1>2. \A ss \in Seq(Seq(S)), s \in Seq(S) : ss \in T => Append(ss, s) \in T
  <2> SUFFICES ASSUME NEW ss \in Seq(Seq(S)), NEW s \in Seq(S), ss \in T,
                      Empties(Append(ss, s))
               PROVE  FlattenSeq(Append(ss, s)) = <<>>
    BY AppendProperties
  <2>1. /\ Len(ss) \in Nat /\ Len(Append(ss, s)) = Len(ss) + 1
        /\ Append(ss, s)[Len(ss) + 1] = s
        /\ \A i \in 1..Len(ss) : Append(ss, s)[i] = ss[i]
    BY AppendProperties, LenProperties
  <2>2. Empties(ss) /\ s = <<>>
    BY <2>1
  <2>3. FlattenSeq(Append(ss, s)) = FlattenSeq(ss) \o s
    BY FlattenAppend
  <2> QED BY <2>2, <2>3, ConcatEmptySeq, EmptySeq
<1>3. \A ss \in Seq(Seq(S)) : ss \in T
  <2> HIDE DEF T
  <2> QED BY <1>1, <1>2, SeqInduction
<1> QED BY <1>3

\* A sequence of sequences in two parts.
LEMMA FlattenSplit ==
  ASSUME NEW S, NEW g \in Seq(Seq(S)), NEW h \in Seq(Seq(S)), NEW k \in Seq(Seq(S)),
         Len(k) = Len(g) + Len(h), \A i \in 1..Len(g) : k[i] = g[i],
         \A i \in 1..Len(h) : k[Len(g) + i] = h[i]
  PROVE  FlattenSeq(k) = FlattenSeq(g) \o FlattenSeq(h)
<1> DEFINE both == g \o h
<1>1. Len(g) \in Nat /\ Len(h) \in Nat
  BY LenProperties
<1>2. /\ both \in Seq(Seq(S)) /\ Len(both) = Len(g) + Len(h)
      /\ \A i \in 1..(Len(g) + Len(h)) : both[i] = IF i <= Len(g) THEN g[i] ELSE h[i - Len(g)]
  BY ConcatProperties
<1>3. FlattenSeq(both) = FlattenSeq(g) \o FlattenSeq(h)
  BY FlattenConcat
<1> HIDE DEF both
<1>4. \A i \in 1..Len(k) : k[i] = both[i]
  <2> TAKE i \in 1..Len(k)
  <2>1. CASE i <= Len(g)
    <3>1. i \in 1..Len(g) /\ i \in 1..(Len(g) + Len(h))
      BY <1>1, <2>1
    <3>2. k[i] = g[i]
      BY <3>1
    <3> QED BY <1>2, <2>1, <3>1, <3>2
  <2>2. CASE ~(i <= Len(g))
    <3>1. i - Len(g) \in 1..Len(h) /\ Len(g) + (i - Len(g)) = i /\ i \in 1..(Len(g) + Len(h))
      BY <1>1, <2>2
    <3>2. k[i] = h[i - Len(g)]
      BY <3>1
    <3> QED BY <1>2, <2>2, <3>1, <3>2
  <2> QED BY <2>1, <2>2
<1>5. k = both
  BY <1>2, <1>4, SeqEqual
<1> QED BY <1>3, <1>5

\* Elements one by one.
LEMMA FlattenSingles ==
  ASSUME NEW S, NEW s \in Seq(S), NEW g \in Seq(Seq(S)), Len(g) = Len(s),
         \A i \in 1..Len(s) : g[i] = <<s[i]>>
  PROVE  FlattenSeq(g) = s
<1> DEFINE Is(f, t) == Len(f) = Len(t) /\ \A i \in 1..Len(t) : f[i] = <<t[i]>>
           T == {t \in Seq(S) : \A f \in Seq(Seq(S)) : Is(f, t) => FlattenSeq(f) = t}
<1>1. <<>> \in T
  <2>1. \A f \in Seq(Seq(S)) : Len(f) = 0 => f = <<>>
    BY EmptySeq
  <2> QED BY <2>1, EmptySeq, FlattenEmpty
<1>2. \A t \in Seq(S), x \in S : t \in T => Append(t, x) \in T
  <2> SUFFICES ASSUME NEW t \in Seq(S), NEW x \in S, t \in T, NEW f \in Seq(Seq(S)),
                      Is(f, Append(t, x))
               PROVE  FlattenSeq(f) = Append(t, x)
    BY AppendProperties
  <2> DEFINE n == Len(t)
             e == SubSeq(f, 1, n)
             u == Append(t, x)
  <2>1. /\ n \in Nat /\ Len(u) = n + 1 /\ u[n + 1] = x
        /\ \A i \in 1..n : u[i] = t[i]
    BY AppendProperties, LenProperties
  <2>2. Len(f) = n + 1 /\ f[n + 1] = <<x>> /\ \A i \in 1..n : f[i] = <<t[i]>>
    <3> HIDE DEF u
    <3>1. Len(f) = Len(u) /\ \A i \in 1..Len(u) : f[i] = <<u[i]>>
      BY DEF u
    <3> QED BY <2>1, <3>1
  <2>3. e \in Seq(Seq(S)) /\ Len(e) = n /\ \A i \in 1..n : e[i] = f[i]
    <3>1. \A i \in 1..n : f[i] \in Seq(S)
      BY <2>1, <2>2, ElementOfSeq
    <3> QED BY <2>1, <3>1, SubSeqProperties
  <2> HIDE DEF e
  <2>4. FlattenSeq(e) = t
    <3>1. Is(e, t)
      BY <2>2, <2>3
    <3> QED BY <2>3, <3>1
  <2>5. FlattenSeq(f) = FlattenSeq(e) \o f[n + 1]
    <3>1. Len(f) = Len(e) + 1 /\ \A i \in 1..Len(e) : f[i] = e[i]
      BY <2>2, <2>3
    <3>2. FlattenSeq(f) = FlattenSeq(e) \o f[Len(e) + 1]
      <4> HIDE DEF T, Is
      <4> QED BY <2>3, <3>1, FlattenGrows
    <3> QED BY <2>3, <3>2
  <2> QED BY <2>2, <2>4, <2>5, AppendIsConcat
<1>3. \A t \in Seq(S) : t \in T
  <2> HIDE DEF T
  <2> QED BY <1>1, <1>2, SeqInduction
<1> QED BY <1>3
=============================================================================
