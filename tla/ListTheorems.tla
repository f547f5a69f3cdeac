---------------------------- MODULE ListTheorems ----------------------------
(***************************************************************************)
(* Induction over the natural numbers, and functions defined by recursion  *)
(* on them, with sets and functions in the place of predicates and         *)
(* operators; and what they say of the sequences Only computes.            *)
(***************************************************************************)
EXTENDS Lists, Integers, SequencesExt, TLAPS, WellFoundedInduction

Less == {ss \in Nat \X Nat : ss[1] < ss[2]}

LEMMA LessWellFounded == IsWellFoundedOn(Less, Nat)
    BY NatLessThanWellFounded, Zenon DEF OpToRel, Less

\* A set of natural numbers that holds 0 and with n also n + 1 holds all.
LEMMA SetInduction ==
    ASSUME NEW T \in SUBSET Nat, 0 \in T, \A n \in T : n + 1 \in T
    PROVE  T = Nat
<1>1. SUFFICES ASSUME Nat \ T # {} PROVE FALSE
    OBVIOUS
<1>2. PICK n \in Nat \ T : \A m \in Nat \ T : ~(<<m, n>> \in Less)
  <2>1. Nat \ T \subseteq Nat
      OBVIOUS
  <2> QED BY <1>1, <2>1, LessWellFounded, WFMin, Zenon
<1>3. n # 0 /\ n - 1 \in Nat
    OBVIOUS
<1>4. <<n - 1, n>> \in Less
    BY <1>3 DEF Less
<1>5. n - 1 \in T
    BY <1>2, <1>3, <1>4
<1>6. QED
    BY <1>3, <1>5

\* The first n steps of an iteration, as a function.
Upto(h, n, b, step, S) ==
    /\ h \in [0..n -> S] /\ h[0] = b
    /\ \A k \in Nat : k < n => h[k + 1] = step[<<k, h[k]>>]

\* There is a function that starts with b and goes on with step.
Iterable(b, step, S) ==
    \E g \in [Nat -> S] :
        g[0] = b /\ \A n \in Nat : g[n + 1] = step[<<n, g[n]>>]

LEMMA Iterates ==
    ASSUME NEW S, NEW b \in S, NEW step \in [Nat \X S -> S]
    PROVE  Iterable(b, step, S)
<1> DEFINE P(h, n) == Upto(h, n, b, step, S)
<1>1. \A n \in Nat : \E h : P(h, n)
  <2> DEFINE T == {n \in Nat : \E h : P(h, n)}
  <2>1. 0 \in T
    <3>1. P([k \in 0..0 |-> b], 0)
        BY DEF Upto
    <3> QED BY <3>1
  <2>2. ASSUME NEW n \in T PROVE n + 1 \in T
    <3>1. PICK h : P(h, n)
        OBVIOUS
    <3> DEFINE q == [k \in 0..(n + 1) |->
                       IF k = n + 1 THEN step[<<n, h[n]>>] ELSE h[k]]
    <3>2. q \in [0..(n + 1) -> S]
      <4>1. h[n] \in S
        BY <3>1 DEF Upto
      <4>2. step[<<n, h[n]>>] \in S
        BY <4>1
      <4> QED BY <3>1, <4>2 DEF Upto
    <3>3. q[0] = b
      BY <3>1 DEF Upto
    <3>4. ASSUME NEW k \in Nat, k < n + 1
          PROVE  q[k + 1] = step[<<k, q[k]>>]
      <4>1. CASE k = n
        <5>1. q[n + 1] = step[<<n, h[n]>>] /\ q[n] = h[n]
          BY n \in Nat
        <5> HIDE DEF q
        <5> QED BY <4>1, <5>1
      <4>2. CASE k < n
        BY <4>2, <3>1 DEF Upto
      <4> QED BY <3>4, <4>1, <4>2
    <3>5. P(q, n + 1)
      BY <3>2, <3>3, <3>4 DEF Upto
    <3> QED BY <3>5
  <2>3. T = Nat
    <3> HIDE DEF P
    <3>1. T \in SUBSET Nat
        OBVIOUS
    <3> HIDE DEF T
    <3> QED BY <2>1, <2>2, <3>1, SetInduction
  <2> QED BY <2>3
<1>2. ASSUME NEW m \in Nat, NEW h, NEW q, P(h, m), P(q, m)
      PROVE  h = q
  <2> DEFINE T == {k \in Nat : k <= m => h[k] = q[k]}
  <2>1. 0 \in T
    BY <1>2 DEF Upto
  <2>2. ASSUME NEW k \in T PROVE k + 1 \in T
    <3>1. CASE k + 1 <= m
      <4>1. k < m /\ k <= m /\ k \in Nat
        BY <3>1
      <4>2. h[k + 1] = step[<<k, h[k]>>] /\ q[k + 1] = step[<<k, q[k]>>]
        BY <1>2, <4>1 DEF Upto
      <4>3. h[k] = q[k]
        BY <4>1
      <4> QED BY <4>1, <4>2, <4>3
    <3>2. CASE ~(k + 1 <= m)
      BY <3>2
    <3> QED BY <3>1, <3>2
  <2>3. T = Nat
    <3>1. T \in SUBSET Nat
        OBVIOUS
    <3> HIDE DEF T
    <3> QED BY <2>1, <2>2, <3>1, SetInduction
  <2> QED BY <2>3, <1>2 DEF Upto
<1>3. ASSUME NEW n \in Nat, NEW h, P(h, n + 1)
      PROVE  P([k \in 0..n |-> h[k]], n)
  BY <1>3 DEF Upto
<1> DEFINE H(n) == CHOOSE h : P(h, n)
           g == [n \in Nat |-> H(n)[n]]
<1>4. ASSUME NEW n \in Nat PROVE P(H(n), n)
  <2> HIDE DEF P
  <2> QED BY <1>1
<1> HIDE DEF H
<1>5. g \in [Nat -> S]
  <2>1. ASSUME NEW n \in Nat PROVE H(n)[n] \in S
    BY <1>4 DEF Upto
  <2> QED BY <2>1
<1>6. g[0] = b
  BY <1>4 DEF Upto
<1>7. ASSUME NEW n \in Nat PROVE g[n + 1] = step[<<n, g[n]>>]
  <2>1. P(H(n + 1), n + 1)
    BY <1>4
  <2>2. [k \in 0..n |-> H(n + 1)[k]] = H(n)
    <3>1. P([k \in 0..n |-> H(n + 1)[k]], n)
      BY <1>3, <2>1
    <3> QED BY <1>2, <1>4, <3>1
  <2>3. H(n + 1)[n] = H(n)[n]
    BY <2>2, n \in 0..n, SMT
  <2>4. H(n + 1)[n + 1] = step[<<n, H(n + 1)[n]>>]
    BY <2>1 DEF Upto
  <2> QED BY <2>3, <2>4
<1>8. QED
  BY <1>5, <1>6, <1>7 DEF Iterable

\* The least element of a set of natural numbers.
LEMMA Least ==
    ASSUME NEW T \in SUBSET Nat, T # {}
    PROVE  \E n \in T : \A m \in T : n <= m
<1>1. PICK n \in T : \A m \in T : ~(<<m, n>> \in Less)
    BY LessWellFounded, WFMin, Zenon
<1>2. ASSUME NEW m \in T PROVE n <= m
  <2>1. m \in Nat /\ n \in Nat /\ (m < n => <<m, n>> \in Less)
    BY DEF Less
  <2> QED BY <1>1, <2>1
<1> QED BY <1>2

-----------------------------------------------------------------------------
\* The loop behind Only(d, T), round by round, for a sequence over S.
Filtered(d, S, T) ==
    \E f \in [0..Len(d) -> Seq(S \cap T)] :
        /\ f[0] = <<>> /\ Only(d, T) = f[Len(d)]
        /\ \A i \in 1..Len(d) :
             f[i] = IF d[i] \in T THEN Append(f[i - 1], d[i]) ELSE f[i - 1]

LEMMA OnlyRounds ==
  ASSUME NEW S, NEW d \in Seq(S), NEW T
  PROVE  Filtered(d, S, T)
  <1> DEFINE n == Len(d)
             Body(f) == [i \in 0..n |->
                 IF i = 0 THEN <<>>
                 ELSE IF d[i] \in T THEN Append(f[i - 1], d[i])
                      ELSE f[i - 1]]
             step == [p \in Nat \X Seq(S \cap T) |->
                 IF p[1] + 1 <= n /\ d[p[1] + 1] \in T
                   THEN Append(p[2], d[p[1] + 1]) ELSE p[2]]
  <1>1. /\ n \in Nat /\ <<>> \in Seq(S \cap T)
        /\ \A i \in 1..n : d[i] \in T =>
             \A s \in Seq(S \cap T) : Append(s, d[i]) \in Seq(S \cap T)
    OBVIOUS
  <1>2. step \in [Nat \X Seq(S \cap T) -> Seq(S \cap T)]
    BY <1>1
  <1>3. PICK g \in [Nat -> Seq(S \cap T)] :
          g[0] = <<>> /\ \A i \in Nat : g[i + 1] = step[<<i, g[i]>>]
    <2>1. <<>> \in Seq(S \cap T)
      BY <1>1
    <2> HIDE DEF step
    <2>2. Iterable(<<>>, step, Seq(S \cap T))
      BY <1>2, <2>1, Iterates
    <2> QED BY <2>2 DEF Iterable
  <1> DEFINE h == [i \in 0..n |-> g[i]]
  <1>4. \A i \in 1..n :
          h[i] = IF d[i] \in T THEN Append(h[i - 1], d[i]) ELSE h[i - 1]
    <2> TAKE i \in 1..n
    <2>1. i - 1 \in Nat /\ g[i] = step[<<i - 1, g[i - 1]>>]
      <3>1. i - 1 \in Nat /\ (i - 1) + 1 = i
        BY <1>1
      <3> HIDE DEF step
      <3>2. g[(i - 1) + 1] = step[<<i - 1, g[i - 1]>>]
        BY <1>3, <3>1
      <3> QED BY <3>1, <3>2
    <2>2. /\ g[i - 1] \in Seq(S \cap T)
          /\ g[i] = IF d[i] \in T THEN Append(g[i - 1], d[i]) ELSE g[i - 1]
      <3>1. g[i - 1] \in Seq(S \cap T) /\ (i - 1) + 1 = i /\ i <= n
        BY <1>1, <2>1
      <3>2. step[<<i - 1, g[i - 1]>>] =
              IF d[i] \in T THEN Append(g[i - 1], d[i]) ELSE g[i - 1]
        BY <2>1, <3>1
      <3> QED BY <2>1, <3>1, <3>2
    <2>3. h[i] = g[i] /\ h[i - 1] = g[i - 1]
      BY <1>1
    <2> QED BY <2>2, <2>3
  <1>5. h = Body(h)
    <2>1. h[0] = <<>>
      BY <1>1, <1>3
    <2> HIDE DEF h
    <2>2. \A i \in 0..n : h[i] = Body(h)[i]
      BY <1>1, <1>4, <2>1
    <2>3. h = [i \in 0..n |-> h[i]]
      BY DEF h
    <2> QED BY <2>2, <2>3
  <1> DEFINE L == CHOOSE f : f = Body(f)
  <1>6. L = Body(L)
    <2> HIDE DEF h, Body
    <2> QED BY <1>5
  <1> HIDE DEF Body, step, h
  <1>7. Only(d, T) = L[n] /\ L = Body(L)
    BY <1>6 DEF Only, Body
  <1>8. PICK f : Only(d, T) = f[n] /\ f = Body(f)
    BY <1>7
  <1> HIDE DEF L
  <1>9. /\ f[0] = <<>> /\ DOMAIN f = 0..n
        /\ \A i \in 1..n : 
              f[i] = IF d[i] \in T THEN Append(f[i - 1], d[i]) ELSE f[i - 1]
    <2>1. \A i \in 0..n : f[i] = Body(f)[i]
      BY <1>8
    <2>2. DOMAIN f = 0..n
      BY <1>8 DEF Body
    <2>3. f[0] = <<>>
      BY <1>1, <2>1 DEF Body
    <2>4. ASSUME NEW i \in 1..n
          PROVE  f[i] = IF d[i] \in T THEN Append(f[i - 1], d[i])
                                        ELSE f[i - 1]
      <3>1. i \in 0..n /\ i # 0
        BY <1>1
      <3>2. Body(f)[i] = IF d[i] \in T THEN Append(f[i - 1], d[i])
                                        ELSE f[i - 1]
        BY <3>1 DEF Body
      <3> QED BY <2>1, <3>1, <3>2
    <2> QED BY <2>2, <2>3, <2>4
  <1> DEFINE I == {i \in Nat : i <= n => f[i] \in Seq(S \cap T)}
  <1>10. I = Nat
    <2>1. 0 \in I
      BY <1>1, <1>9
    <2>2. ASSUME NEW i \in I PROVE i + 1 \in I
      <3>1. CASE i + 1 <= n
        <4>1. i + 1 \in 1..n /\ (i + 1) - 1 = i /\ i \in Nat /\ f[i] \in Seq(S \cap T)
          BY <1>1, <3>1
        <4>2. f[i + 1] \in Seq(S \cap T)
          BY <1>1, <1>9, <4>1
        <4> QED BY <4>1, <4>2
      <3> QED BY <3>1
    <2>3. I \in SUBSET Nat
      OBVIOUS
    <2> HIDE DEF I
    <2> QED BY <2>1, <2>2, <2>3, SetInduction
  <1>11. f \in [0..n -> Seq(S \cap T)]
    <2>1. ASSUME NEW i \in 0..n PROVE f[i] \in Seq(S \cap T)
      <3>1. i \in Nat /\ i <= n
        BY <1>1
      <3>2. i \in I
        <4> HIDE DEF I
        <4> QED BY <1>10, <3>1
      <3> QED BY <3>1, <3>2
    <2>2. f = [i \in 0..n |-> f[i]]
      BY <1>8 DEF Body
    <2> QED BY <2>1, <2>2
  <1> QED BY <1>8, <1>9, <1>11 DEF Filtered

-----------------------------------------------------------------------------
\* Min, where there is one.
LEMMA MinOf ==
  ASSUME NEW S \in SUBSET Nat, S # {}
  PROVE  Min(S) \in S
  <1>1. \E n \in S : \A m \in S : n <= m
    BY Least
  <1> QED BY <1>1, Zenon DEF Min

-----------------------------------------------------------------------------
\* The concatenation, one sequence after the other.
Concatenated(ss, C) ==
    \E f \in [1..Len(ss) -> Seq(C)] :
        /\ FlattenSeq(ss) = f[Len(ss)]
        /\ f[1] = ss[1]
        /\ \A i \in 2..Len(ss) : f[i] = f[i - 1] \o ss[i]

LEMMA FlattenRounds ==
  ASSUME NEW C, NEW ss \in Seq(Seq(C)), ss # <<>>
  PROVE  Concatenated(ss, C)
  <1> DEFINE n == Len(ss)
             Body(f) == [i \in 1..n |->
                           IF i = 1 THEN ss[i] ELSE f[i - 1] \o ss[i]]
             step == [p \in Nat \X Seq(C) |->
                        IF p[1] + 2 <= n THEN p[2] \o ss[p[1] + 2] ELSE p[2]]
  <1>1. n \in Nat /\ n # 0 /\ \A i \in 1..n : ss[i] \in Seq(C)
    OBVIOUS
  <1>2. step \in [Nat \X Seq(C) -> Seq(C)]
    BY <1>1
  <1>3. PICK g \in [Nat -> Seq(C)] :
          g[0] = ss[1] /\ \A i \in Nat : g[i + 1] = step[<<i, g[i]>>]
    <2>1. ss[1] \in Seq(C)
      BY <1>1
    <2> HIDE DEF step
    <2>2. Iterable(ss[1], step, Seq(C))
      BY <1>2, <2>1, Iterates
    <2> QED BY <2>2 DEF Iterable
  <1> DEFINE h == [i \in 1..n |-> g[i - 1]]
  <1>4. \A i \in 1..n : h[i] = IF i = 1 THEN ss[i] ELSE h[i - 1] \o ss[i]
    <2> TAKE i \in 1..n
    <2>1. CASE i = 1
      BY <1>1, <1>3, <2>1
    <2>2. CASE i # 1
      <3>1. i - 2 \in Nat /\ (i - 2) + 1 = i - 1 /\ (i - 2) + 2 = i
            /\ i - 1 \in 1..n /\ (i - 1) - 1 = i - 2
        BY <1>1, <2>2
      <3>2. h[i] = g[i - 1] /\ h[i - 1] = g[i - 2]
        BY <3>1
      <3>3. g[i - 1] = step[<<i - 2, g[i - 2]>>]
        <4> HIDE DEF step
        <4>1. g[(i - 2) + 1] = step[<<i - 2, g[i - 2]>>]
          BY <1>3, <3>1
        <4> QED BY <3>1, <4>1
      <3>4. g[i - 2] \in Seq(C)
        BY <3>1
      <3>5. step[<<i - 2, g[i - 2]>>] = g[i - 2] \o ss[i]
        <4>1. (i - 2) + 2 <= n
          BY <1>1, <3>1
        <4> QED BY <3>1, <3>4, <4>1
      <3> QED BY <2>2, <3>2, <3>3, <3>5
    <2> QED BY <2>1, <2>2
  <1>5. h = Body(h)
    <2> HIDE DEF h
    <2>2. \A i \in 1..n : h[i] = Body(h)[i]
      BY <1>1, <1>4
    <2>3. h = [i \in 1..n |-> h[i]]
      BY DEF h
    <2> QED BY <2>2, <2>3
  <1> DEFINE L == CHOOSE f : f = Body(f)
  <1>6. L = Body(L)
    <2> HIDE DEF h, Body
    <2> QED BY <1>5
  <1> HIDE DEF Body, step, h
  <1>7. FlattenSeq(ss) = L[n] /\ L = Body(L)
    BY <1>1, <1>6 DEF FlattenSeq, Body
  <1>8. PICK f : FlattenSeq(ss) = f[n] /\ f = Body(f)
    BY <1>7
  <1> HIDE DEF L
  <1>9. /\ DOMAIN f = 1..n /\ f[1] = ss[1]
        /\ \A i \in 2..n : f[i] = f[i - 1] \o ss[i]
    <2>1. \A i \in 1..n : f[i] = Body(f)[i]
      BY <1>8
    <2>2. DOMAIN f = 1..n
      BY <1>8 DEF Body
    <2>3. f[1] = ss[1]
      BY <1>1, <2>1 DEF Body
    <2>4. ASSUME NEW i \in 2..n PROVE f[i] = f[i - 1] \o ss[i]
      <3>1. i \in 1..n /\ i # 1
        BY <1>1
      <3>2. Body(f)[i] = f[i - 1] \o ss[i]
        BY <3>1 DEF Body
      <3> QED BY <2>1, <3>1, <3>2
    <2> QED BY <2>2, <2>3, <2>4
  <1> DEFINE I == {i \in Nat : i + 1 <= n => f[i + 1] \in Seq(C)}
  <1>10. I = Nat
    <2>1. 0 \in I
      BY <1>1, <1>9
    <2>2. ASSUME NEW i \in I PROVE i + 1 \in I
      <3>1. CASE (i + 1) + 1 <= n
        <4>1. /\ (i + 1) + 1 \in 2..n /\ ((i + 1) + 1) - 1 = i + 1
              /\ i \in Nat /\ f[i + 1] \in Seq(C)
          BY <1>1, <3>1
        <4>2. f[(i + 1) + 1] = f[i + 1] \o ss[(i + 1) + 1]
          BY <1>9, <4>1
        <4>3. ss[(i + 1) + 1] \in Seq(C)
          BY <1>1, <4>1
        <4> HIDE DEF I
        <4>4. f[(i + 1) + 1] \in Seq(C)
          BY <4>1, <4>2, <4>3
        <4> QED BY <4>1, <4>4 DEF I
      <3> QED BY <3>1
    <2>3. I \in SUBSET Nat
      OBVIOUS
    <2> HIDE DEF I
    <2> QED BY <2>1, <2>2, <2>3, SetInduction
  <1>11. f \in [1..n -> Seq(C)]
    <2>1. ASSUME NEW i \in 1..n PROVE f[i] \in Seq(C)
      <3>1. i - 1 \in Nat /\ (i - 1) + 1 = i /\ i <= n
        BY <1>1
      <3>2. i - 1 \in I
        <4> HIDE DEF I
        <4> QED BY <1>10, <3>1
      <3> QED BY <3>1, <3>2
    <2>2. f = [i \in 1..n |-> f[i]]
      BY <1>8 DEF Body
    <2> QED BY <2>1, <2>2
  <1> QED BY <1>8, <1>9, <1>11 DEF Concatenated

LEMMA FlattenEmpty == FlattenSeq(<<>>) = <<>>
  BY DEF FlattenSeq

LEMMA FlattenAppend ==
  ASSUME NEW C, NEW ss \in Seq(Seq(C)), NEW s \in Seq(C)
  PROVE  FlattenSeq(Append(ss, s)) = FlattenSeq(ss) \o s
  <1> DEFINE tt == Append(ss, s)
             n == Len(ss)
  <1>1. n \in Nat /\ ss \in Seq(Seq(C)) /\ s \in Seq(C)
    OBVIOUS
  <1>5. Len(tt) = n + 1 /\ tt[n + 1] = s /\ \A i \in 1..n : tt[i] = ss[i]
    <2> DEFINE D == Seq(C)
    <2>1. ss \in Seq(D) /\ s \in D
      OBVIOUS
    <2> HIDE DEF D
    <2> QED BY <2>1
  <1>6. tt \in Seq(Seq(C)) /\ tt # <<>>
    <2> DEFINE D == Seq(C)
    <2>1. ss \in Seq(D) /\ s \in D
      OBVIOUS
    <2> HIDE DEF D
    <2>2. tt \in Seq(D) /\ Len(tt) = n + 1
      BY <2>1
    <2>3. tt # <<>>
      BY <2>2, <1>1
    <2> QED BY <2>2, <2>3 DEF D
  <1> HIDE DEF tt
  <1>7. PICK q \in Seq(Seq(C)) : q = tt /\ q # <<>>
    BY <1>6
  <1>2. PICK g \in [1..Len(tt) -> Seq(C)] :
          /\ FlattenSeq(tt) = g[Len(tt)] /\ g[1] = tt[1]
          /\ \A i \in 2..Len(tt) : g[i] = g[i - 1] \o tt[i]
    <2>1. Concatenated(q, C)
      BY <1>7, FlattenRounds
    <2> QED BY <1>7, <2>1 DEF Concatenated
  <1>3. CASE ss = <<>>
    <2>1. n = 0
      BY <1>3
    <2>2. FlattenSeq(tt) = s
      BY <1>1, <1>5, <1>2, <2>1
    <2>3. FlattenSeq(ss) \o s = s
      BY <1>3, FlattenEmpty
    <2> QED BY <2>2, <2>3 DEF tt
  <1>4. CASE ss # <<>>
    <2>1. n >= 1 /\ n + 1 \in 2..Len(tt) /\ (n + 1) - 1 = n
      BY <1>1, <1>5, <1>4
    <2>2. PICK f \in [1..n -> Seq(C)] :
            /\ FlattenSeq(ss) = f[n] /\ f[1] = ss[1]
            /\ \A i \in 2..n : f[i] = f[i - 1] \o ss[i]
      <3>1. Concatenated(ss, C)
        BY <1>4, FlattenRounds
      <3> QED BY <3>1 DEF Concatenated
    <2> DEFINE I == {i \in Nat : i + 1 <= n => g[i + 1] = f[i + 1]}
    <2>3. I = Nat
      <3>1. 0 \in I
        BY <1>1, <1>5, <1>2, <2>1, <2>2
      <3>2. ASSUME NEW i \in I PROVE i + 1 \in I
        <4>1. CASE (i + 1) + 1 <= n
          <5>1. /\ (i + 1) + 1 \in 2..n /\ (i + 1) + 1 \in 2..Len(tt)
                /\ ((i + 1) + 1) - 1 = i + 1
                /\ (i + 1) + 1 \in 1..n /\ g[i + 1] = f[i + 1]
            BY <1>1, <1>5, <4>1
          <5>2. g[(i + 1) + 1] = g[i + 1] \o tt[(i + 1) + 1]
            BY <1>2, <5>1
          <5>3. f[(i + 1) + 1] = f[i + 1] \o ss[(i + 1) + 1]
            BY <2>2, <5>1
          <5>4. tt[(i + 1) + 1] = ss[(i + 1) + 1]
            BY <1>1, <1>5, <5>1
          <5>5. g[(i + 1) + 1] = f[(i + 1) + 1]
            BY <5>1, <5>2, <5>3, <5>4
          <5> QED BY <5>5
        <4> QED BY <4>1
      <3>3. I \in SUBSET Nat
        OBVIOUS
      <3> HIDE DEF I
      <3> QED BY <3>1, <3>2, <3>3, SetInduction
    <2>4. g[n] = f[n]
      <3>1. n - 1 \in Nat /\ (n - 1) + 1 = n
        BY <1>1, <1>5, <2>1
      <3>2. n - 1 \in I
        <4> HIDE DEF I
        <4> QED BY <2>3, <3>1
      <3> QED BY <3>1, <3>2
    <2>5. FlattenSeq(tt) = g[n] \o s
      BY <1>1, <1>5, <1>2, <2>1
    <2> QED BY <2>2, <2>4, <2>5 DEF tt
  <1> QED BY <1>3, <1>4
LEMMA FlattenType ==
  ASSUME NEW C, NEW ss \in Seq(Seq(C))
  PROVE  FlattenSeq(ss) \in Seq(C)
  <1>1. CASE ss = <<>>
    <2>1. <<>> \in Seq(C)
      OBVIOUS
    <2> QED BY <1>1, <2>1, FlattenEmpty
  <1>2. CASE ss # <<>>
    <2>1. Concatenated(ss, C)
      BY <1>2, FlattenRounds
    <2>2. Len(ss) \in 1..Len(ss)
      BY <1>2
    <2> QED BY <2>1, <2>2 DEF Concatenated
  <1> QED BY <1>1, <1>2

-----------------------------------------------------------------------------
\* Facts about sequences, each for itself.
LEMMA ConcatAppend ==
  ASSUME NEW C, NEW a \in Seq(C), NEW b \in Seq(C), NEW c \in C
  PROVE  a \o Append(b, c) = Append(a \o b, c)
  OBVIOUS

LEMMA SubSeqType ==
  ASSUME NEW C, NEW p \in Seq(C), NEW i \in 1..(Len(p) + 1), NEW j \in 0..Len(p)
  PROVE  SubSeq(p, i, j) \in Seq(C)
  OBVIOUS

LEMMA SubSeqAppend ==
  ASSUME NEW C, NEW p \in Seq(C), NEW i \in 1..Len(p)
  PROVE  SubSeq(p, 1, i) = Append(SubSeq(p, 1, i - 1), p[i])
  OBVIOUS
=============================================================================
