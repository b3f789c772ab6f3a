------------------------------- MODULE Lemmas -------------------------------
(***************************************************************************)
(* What the proofs need of natural numbers and of sequences: induction     *)
(* over a set, and sequences of elements of any kind.                      *)
(***************************************************************************)
EXTENDS Integers, SequencesExt, SequenceTheorems, WellFoundedInduction, TLAPS

\* A set of natural numbers has a least one.
LEMMA Least ==
  ASSUME NEW T \in SUBSET Nat, T # {}
  PROVE  \E m \in T : \A n \in T : m <= n
  <1>1. PICK m \in T : \A n \in T : <<n, m>> \notin OpToRel(<, Nat)
    BY NatLessThanWellFounded, WFMin
  <1>2. \A n \in T : ~(n < m) BY <1>1 DEF OpToRel
  <1>3. QED BY <1>2

\* What holds of 0, and of a number's successor when it holds of the number,
\* holds of every number.
LEMMA Induct ==
  ASSUME NEW S \in SUBSET Nat, 0 \in S, \A n \in S : n + 1 \in S
  PROVE  S = Nat
  <1> SUFFICES ASSUME Nat \ S # {} PROVE FALSE OBVIOUS
  <1>1. PICK m \in Nat \ S : \A n \in Nat \ S : m <= n BY Least
  <1>2. m # 0 /\ m - 1 \in Nat BY <1>1
  <1>3. m - 1 \in S BY <1>1, <1>2
  <1>4. m - 1 + 1 = m BY <1>1
  <1>5. QED BY <1>1, <1>3, <1>4
-----------------------------------------------------------------------------
(* Sequences of any elements.                                              *)

IsSeq(s) == s \in Seq(Range(s))
Leads(s, t) ==
  /\ IsSeq(s) /\ IsSeq(t) /\ Len(s) <= Len(t)
  /\ \A i \in 1 .. Len(s) : s[i] = t[i]

LEMMA Empty == <<>> \in Seq(Range(<<>>)) /\ DOMAIN <<>> = {}
  <1>1. <<>> \in Seq({}) OBVIOUS
  <1>2. QED BY <1>1, SeqOfRange

\* A sequence with one more element.
LEMMA Appended ==
  ASSUME NEW s, s \in Seq(Range(s)), NEW x
  PROVE  /\ Append(s, x) \in Seq(Range(Append(s, x)))
         /\ Len(s) \in Nat /\ DOMAIN s = 1 .. Len(s)
         /\ DOMAIN Append(s, x) = 1 .. Len(s) + 1
         /\ \A i \in 1 .. Len(s) : Append(s, x)[i] = s[i]
         /\ Append(s, x)[Len(s) + 1] = x
  <1> DEFINE S == Range(s) \cup {x}
  <1>1. s \in Seq(S) OBVIOUS
  <1>2. Append(s, x) \in Seq(S) BY <1>1
  <1>3. Append(s, x) \in Seq(Range(Append(s, x))) BY <1>2, SeqOfRange
  <1>4. QED BY <1>1, <1>3

LEMMA SameSeq ==
  ASSUME NEW s, NEW t, IsSeq(s), IsSeq(t), Len(s) = Len(t), \A i \in 1 .. Len(s) : s[i] = t[i]
  PROVE  s = t
  <1> DEFINE S == Range(s) \cup Range(t)
  <1>1. s \in Seq(S) /\ t \in Seq(S) BY SeqMonotonic DEF IsSeq
  <1>2. QED BY <1>1, SeqEqual

LEMMA LeadsIsPrefix ==
  ASSUME NEW s, NEW t, Leads(s, t)
  PROVE  IsPrefix(s, t)
  <1> DEFINE S == Range(s) \cup Range(t)
             n == Len(s)
             a == SubSeq(s, 1, n)
             b == SubSeq(t, 1, n)
  <1>1. s \in Seq(S) /\ t \in Seq(S) BY SeqMonotonic DEF IsSeq, Leads
  <1>2. n \in Nat /\ Len(t) \in Nat /\ n <= Len(t) BY <1>1 DEF Leads
  <1> HIDE DEF S, n
  <1>3. a \in Seq(S) /\ Len(a) = n /\ \A i \in 1 .. n : a[i] = s[i]
    BY <1>1, <1>2 DEF n
  <1>4. b \in Seq(S) /\ Len(b) = n /\ \A i \in 1 .. n : b[i] = t[i] BY <1>1, <1>2
  <1>5. \A i \in 1 .. n : s[i] = t[i] BY DEF Leads, n
  <1> HIDE DEF a, b
  <1>6. \A i \in 1 .. n : a[i] = b[i] BY <1>3, <1>4, <1>5
  <1>7. a = b BY <1>3, <1>4, <1>6, SeqEqual
  <1>8. QED BY <1>2, <1>7 DEF IsPrefix, a, b, n

LEMMA LeadsItself == \A s : IsSeq(s) => Leads(s, s)
  <1> SUFFICES ASSUME NEW s, IsSeq(s) PROVE Leads(s, s) OBVIOUS
  <1>1. Len(s) \in Nat BY DEF IsSeq
  <1>2. QED BY <1>1 DEF Leads

LEMMA LeadsFurther ==
  ASSUME NEW s, NEW t, NEW u, Leads(s, t), Leads(t, u)
  PROVE  Leads(s, u)
  <1>1. Len(s) \in Nat /\ Len(t) \in Nat /\ Len(u) \in Nat BY DEF Leads, IsSeq
  <1>2. \A i \in 1 .. Len(s) : i \in 1 .. Len(t) BY <1>1 DEF Leads
  <1>3. QED BY <1>1, <1>2 DEF Leads

LEMMA LeadsAppended ==
  ASSUME NEW s, IsSeq(s), NEW x
  PROVE  /\ Leads(s, Append(s, x)) /\ IsSeq(Append(s, x))
         /\ Len(Append(s, x)) = Len(s) + 1 /\ Append(s, x)[Len(s) + 1] = x
  <1>1. /\ Append(s, x) \in Seq(Range(Append(s, x)))
        /\ Len(s) \in Nat /\ \A i \in 1 .. Len(s) : Append(s, x)[i] = s[i]
        /\ Append(s, x)[Len(s) + 1] = x
    BY Appended DEF IsSeq
  <1>2. Len(Append(s, x)) = Len(s) + 1 BY DEF IsSeq
  <1>3. QED BY <1>1, <1>2 DEF Leads, IsSeq
-----------------------------------------------------------------------------
(* FlattenSeq().                                                           *)

Flat(seqs) ==
  LET flatten[i \in 1 .. Len(seqs)] == IF i = 1 THEN seqs[i] ELSE flatten[i - 1] \o seqs[i]
  IN flatten

\* What has been joined so far is what was joined before, and one more.
LEMMA FlatStep ==
  ASSUME NEW seqs, Len(seqs) \in Nat
  PROVE  \A i \in 1 .. Len(seqs) :
           Flat(seqs)[i] = IF i = 1 THEN seqs[i] ELSE Flat(seqs)[i - 1] \o seqs[i]
  <1> DEFINE Is(f, N) == f = [i \in 1 .. N |-> IF i = 1 THEN seqs[i] ELSE f[i - 1] \o seqs[i]]
  <1>1. \E f : Is(f, 0)
    <2> DEFINE f == [i \in 1 .. 0 |-> <<>>]
    <2>1. Is(f, 0) OBVIOUS
    <2>2. QED BY <2>1
  <1>2. ASSUME NEW N \in Nat, NEW f, Is(f, N) PROVE \E g : Is(g, N + 1)
    <2> DEFINE x == IF N + 1 = 1 THEN seqs[N + 1] ELSE f[N] \o seqs[N + 1]
               g == [i \in 1 .. N + 1 |-> IF i = N + 1 THEN x ELSE f[i]]
    <2>1. \A i \in 1 .. N : f[i] = IF i = 1 THEN seqs[i] ELSE f[i - 1] \o seqs[i]
      BY <1>2
    <2>2. \A i \in 1 .. N + 1 : g[i] = IF i = 1 THEN seqs[i] ELSE g[i - 1] \o seqs[i]
      <3> TAKE i \in 1 .. N + 1
      <3>1. CASE i = N + 1
        <4>1. g[i] = x BY <3>1
        <4>2. N # 0 => g[N] = f[N] /\ N + 1 # 1 /\ i - 1 = N BY <3>1
        <4>3. CASE N = 0 BY <3>1, <4>1, <4>3
        <4>4. CASE N # 0 BY <3>1, <4>1, <4>2, <4>4
        <4>5. QED BY <4>3, <4>4
      <3>2. CASE i # N + 1
        <4>1. i \in 1 .. N /\ (i # 1 => i - 1 \in 1 .. N /\ i - 1 # N + 1) BY <3>2
        <4>2. g[i] = f[i] /\ (i # 1 => g[i - 1] = f[i - 1]) BY <3>2, <4>1
        <4>3. QED BY <2>1, <4>1, <4>2
      <3>3. QED BY <3>1, <3>2
    <2>3. Is(g, N + 1) BY <2>2
    <2>4. QED BY <2>3
  <1> DEFINE T == {N \in Nat : \E f : Is(f, N)}
  <1> HIDE DEF Is
  <1>3. 0 \in T /\ \A N \in T : N + 1 \in T BY <1>1, <1>2
  <1>4. Len(seqs) \in T BY <1>3, Induct
  <1>5. Is(Flat(seqs), Len(seqs)) BY <1>4 DEF Flat, Is
  <1>6. QED BY <1>5 DEF Is

\* One more sequence is joined to the others.
LEMMA FlattenAppended ==
  ASSUME NEW S, NEW s \in Seq(Seq(S)), NEW x \in Seq(S)
  PROVE  /\ FlattenSeq(s) \in Seq(S)
         /\ FlattenSeq(Append(s, x)) = FlattenSeq(s) \o x
  <1> DEFINE n == Len(s)
             t == Append(s, x)
  <1>1. n \in Nat /\ t \in Seq(Seq(S)) /\ Len(t) = n + 1 /\ t[n + 1] = x
    OBVIOUS
  <1>2. \A i \in 1 .. n : t[i] = s[i] /\ s[i] \in Seq(S) OBVIOUS
  <1> HIDE DEF n, t
  <1>3. \A i \in 1 .. n : Flat(s)[i] = IF i = 1 THEN s[i] ELSE Flat(s)[i - 1] \o s[i]
    BY <1>1, FlatStep DEF n
  <1>4. \A i \in 1 .. n + 1 : Flat(t)[i] = IF i = 1 THEN t[i] ELSE Flat(t)[i - 1] \o t[i]
    <2>1. Len(t) \in Nat BY <1>1
    <2>2. \A i \in 1 .. Len(t) : Flat(t)[i] = IF i = 1 THEN t[i] ELSE Flat(t)[i - 1] \o t[i]
      BY <2>1, FlatStep
    <2>3. QED BY <1>1, <2>2
  <1> DEFINE T == {i \in Nat : i + 1 <= n => Flat(s)[i + 1] \in Seq(S) /\ Flat(t)[i + 1] = Flat(s)[i + 1]}
  <1>5. 0 \in T
    <2>1. 0 + 1 = 1 OBVIOUS
    <2>2. 1 <= n => 1 \in 1 .. n /\ 1 \in 1 .. n + 1 BY <1>1
    <2>3. QED BY <2>1, <2>2, <1>2, <1>3, <1>4
  <1>6. ASSUME NEW i \in T PROVE i + 1 \in T
    <2> SUFFICES ASSUME i + 1 + 1 <= n
                 PROVE  Flat(s)[i + 1 + 1] \in Seq(S) /\ Flat(t)[i + 1 + 1] = Flat(s)[i + 1 + 1]
      OBVIOUS
    <2>1. PICK j \in 1 .. n : j = i + 1 + 1 /\ j # 1 /\ j - 1 = i + 1 /\ j \in 1 .. n + 1
      BY <1>1
    <2>2. Flat(s)[j - 1] \in Seq(S) /\ Flat(t)[j - 1] = Flat(s)[j - 1] BY <1>1, <2>1
    <2>3. Flat(s)[j] = Flat(s)[j - 1] \o s[j] /\ Flat(t)[j] = Flat(t)[j - 1] \o t[j]
      BY <1>3, <1>4, <2>1
    <2>4. t[j] = s[j] /\ s[j] \in Seq(S) BY <1>2
    <2>5. Flat(t)[j] = Flat(s)[j] BY <2>2, <2>3, <2>4
    <2>6. Flat(s)[j] \in Seq(S) BY <2>2, <2>3, <2>4
    <2>7. QED BY <2>1, <2>5, <2>6
  <1> HIDE DEF T
  <1>7. T = Nat BY <1>5, <1>6, Induct DEF T
  <1>8. n # 0 => Flat(s)[n] \in Seq(S) /\ Flat(t)[n] = Flat(s)[n]
    <2>1. n # 0 => n - 1 \in T /\ n - 1 + 1 = n BY <1>1, <1>7
    <2>2. QED BY <1>1, <2>1 DEF T
  <1>9. FlattenSeq(t) = Flat(t)[n + 1]
    <2>1. Len(t) # 0 BY <1>1
    <2>2. QED BY <1>1, <2>1 DEF FlattenSeq, Flat
  <1>10. CASE n = 0
    <2>1. s = <<>> BY <1>10 DEF n
    <2>2. FlattenSeq(s) = <<>> BY <1>10, <2>1 DEF FlattenSeq, n
    <2>3. Flat(t)[n + 1] = x BY <1>1, <1>4, <1>10
    <2>4. QED BY <1>9, <2>2, <2>3 DEF t
  <1>11. CASE n # 0
    <2>1. FlattenSeq(s) = Flat(s)[n] BY <1>11 DEF FlattenSeq, Flat, n
    <2>2. Flat(t)[n + 1] = Flat(t)[n] \o x
      <3>1. PICK j \in 1 .. n + 1 : j = n + 1 /\ j # 1 /\ j - 1 = n BY <1>1, <1>11
      <3>2. Flat(t)[j] = Flat(t)[j - 1] \o t[j] BY <1>4, <3>1
      <3>3. QED BY <1>1, <3>1, <3>2
    <2>3. QED BY <1>8, <1>9, <1>11, <2>1, <2>2 DEF t
  <1>12. QED BY <1>10, <1>11

\* One sequence behind another.
LEMMA TwoInOne ==
  ASSUME NEW S, NEW s \in Seq(S), NEW t \in Seq(S)
  PROVE  /\ s \o t \in Seq(S) /\ Len(s) \in Nat /\ Len(t) \in Nat
         /\ Len(s \o t) = Len(s) + Len(t)
         /\ \A i \in 1 .. Len(s) : (s \o t)[i] = s[i]
         /\ \A i \in 1 .. Len(t) : (s \o t)[Len(s) + i] = t[i]
  <1>1. s \o t \in Seq(S) /\ Len(s \o t) = Len(s) + Len(t) /\ Len(s) \in Nat /\ Len(t) \in Nat
    OBVIOUS
  <1>2. \A i \in 1 .. Len(s) : (s \o t)[i] = s[i] OBVIOUS
  <1>3. \A i \in 1 .. Len(t) : (s \o t)[Len(s) + i] = t[i] OBVIOUS
  <1>4. QED BY <1>1, <1>2, <1>3

\* The first n + 1 of some elements are the first n and one more.
LEMMA FirstAndNext ==
  ASSUME NEW S, NEW s \in Seq(S), NEW n \in Nat, n + 1 <= Len(s)
  PROVE  /\ SubSeq(s, 1, n) \in Seq(S) /\ Len(SubSeq(s, 1, n)) = n /\ s[n + 1] \in S
         /\ SubSeq(s, 1, n + 1) = Append(SubSeq(s, 1, n), s[n + 1])
  OBVIOUS

\* A part of a sequence.
LEMMA Slice ==
  ASSUME NEW S, NEW s \in Seq(S), NEW k \in Nat, NEW m \in Nat,
         m <= Len(s), 1 <= k, k <= m + 1
  PROVE  /\ SubSeq(s, k, m) \in Seq(S) /\ Len(SubSeq(s, k, m)) = m - k + 1
         /\ \A i \in 1 .. m - k + 1 : SubSeq(s, k, m)[i] = s[k + i - 1]
  OBVIOUS

\* What follows the first o elements.
LEMMA SliceAfter ==
  ASSUME NEW S, NEW s \in Seq(S), NEW o \in Nat, NEW m \in Nat, o <= m, m <= Len(s)
  PROVE  /\ SubSeq(s, o + 1, m) \in Seq(S) /\ Len(SubSeq(s, o + 1, m)) = m - o
         /\ \A i \in 1 .. m - o : SubSeq(s, o + 1, m)[i] = s[o + i]
  OBVIOUS
=============================================================================
