----------------------------- MODULE KeptProofs -----------------------------
(* What Keep keeps, and the induction on the natural numbers that says so: the
   induction theorems of the library take an operator, which the provers do not
   instantiate; this one takes a set. *)
EXTENDS Kept, FiniteSets, FiniteSetTheorems, TLAPS

\* A set with 0 and the successor of each of its numbers has them all.  If it did
\* not have n, adding one would map its numbers below n into those but 0, without
\* two meeting: a finite set into a smaller one.
LEMMA SetInduction ==
  ASSUME NEW S, 0 \in S, \A n \in Nat : n \in S => n + 1 \in S
  PROVE  Nat \subseteq S
<1> SUFFICES ASSUME NEW n \in Nat, n \notin S PROVE FALSE
  OBVIOUS
<1> DEFINE A == S \cap (0..n)
           f == [x \in A |-> x + 1]
<1>1. IsFiniteSet(A)
  BY FS_BoundedSetOfNaturals
<1>2. 0 \in A
  OBVIOUS
<1>3. IsFiniteSet(A \ {0}) /\ Cardinality(A \ {0}) = Cardinality(A) - 1 /\ Cardinality(A) \in Nat
  BY <1>1, <1>2, FS_RemoveElement, FS_CardinalityType
<1>4. \A x \in A : x \in Nat /\ x # n /\ x + 1 \in A \ {0}
  OBVIOUS
<1>5. f \in [A -> A \ {0}]
  BY <1>4
<1>6. \E x, y \in A : x # y /\ f[x] = f[y]
  <2>1. Cardinality(A \ {0}) < Cardinality(A)
    BY <1>3
  <2> HIDE DEF f, A
  <2> QED BY <1>1, <1>3, <1>5, <2>1, FS_PigeonHole
<1> QED BY <1>4, <1>6
\* A sequence that is not empty is one more element at the end of another.
LEMMA FrontAndLast ==
  ASSUME NEW S, NEW n \in Nat, NEW t \in Seq(S), Len(t) = n + 1
  PROVE  \E u \in Seq(S) : Len(u) = n /\ t[n + 1] \in S /\ t = Append(u, t[n + 1])
<1> DEFINE u == [i \in 1..n |-> t[i]]
<1>1. u \in Seq(S) /\ Len(u) = n /\ t[n + 1] \in S
  OBVIOUS
<1>2. t = Append(u, t[n + 1])
  <2>1. Append(u, t[n + 1]) \in Seq(S) /\ Len(Append(u, t[n + 1])) = n + 1
    BY <1>1
  <2>2. \A i \in 1..(n + 1) : Append(u, t[n + 1])[i] = t[i]
    BY <1>1
  <2> QED BY <2>1, <2>2
<1> QED BY <1>1, <1>2

\* A set with the empty sequence and, with each, those that are one longer, has all.
LEMMA SeqInduction ==
  ASSUME NEW S, NEW P, <<>> \in P, \A s \in Seq(S) : s \in P => \A e \in S : Append(s, e) \in P
  PROVE  Seq(S) \subseteq P
<1> DEFINE N == {n \in Nat : \A s \in Seq(S) : Len(s) = n => s \in P}
<1>1. 0 \in N
  <2>1. \A s \in Seq(S) : Len(s) = 0 => s = <<>>
    OBVIOUS
  <2> QED BY <2>1
<1>2. ASSUME NEW n \in Nat, n \in N PROVE n + 1 \in N
  <2> SUFFICES ASSUME NEW s \in Seq(S), Len(s) = n + 1 PROVE s \in P
    OBVIOUS
  <2>1. PICK u \in Seq(S) : Len(u) = n /\ s[n + 1] \in S /\ s = Append(u, s[n + 1])
    BY FrontAndLast
  <2> QED BY <1>2, <2>1
<1>3. Nat \subseteq N
  <2> HIDE DEF N
  <2> QED BY <1>1, <1>2, SetInduction
<1> QED BY <1>3

-----------------------------------------------------------------------------
\* f is the function of Keep, for the first n elements of s.
IsKept(f, s, T, n) ==
  f = [i \in 0..n |-> IF i = 0 THEN <<>>
        ELSE IF s[i] \in T THEN Append(f[i - 1], s[i]) ELSE f[i - 1]]

\* There is such a function for every length: by induction on it.
LEMMA KeptExists ==
  ASSUME NEW s, NEW T, NEW n \in Nat
  PROVE  \E f : IsKept(f, s, T, n)
<1> DEFINE N == {m \in Nat : \E f : IsKept(f, s, T, m)}
<1>1. 0 \in N
  <2>1. IsKept([i \in 0..0 |-> <<>>], s, T, 0)
    BY DEF IsKept
  <2> QED BY <2>1
<1>2. ASSUME NEW m \in Nat, m \in N PROVE m + 1 \in N
  <2>1. PICK f : IsKept(f, s, T, m)
    BY <1>2
  <2> DEFINE g == [i \in 0..(m + 1) |->
                     IF i = m + 1
                       THEN IF s[m + 1] \in T THEN Append(f[m], s[m + 1]) ELSE f[m]
                       ELSE f[i]]
  <2>2. IsKept(g, s, T, m + 1)
    <3>1. \A i \in 0..m : f[i] = IF i = 0 THEN <<>>
            ELSE IF s[i] \in T THEN Append(f[i - 1], s[i]) ELSE f[i - 1]
      BY <2>1 DEF IsKept
    <3>2. \A i \in 0..(m + 1) : g[i] = IF i = 0 THEN <<>>
            ELSE IF s[i] \in T THEN Append(g[i - 1], s[i]) ELSE g[i - 1]
      BY <3>1
    <3> HIDE DEF g
    <3>3. g = [i \in 0..(m + 1) |-> g[i]]
      BY DEF g
    <3> QED BY <3>2, <3>3 DEF IsKept
  <2> HIDE DEF g
  <2> QED BY <2>2
<1>3. Nat \subseteq N
  <2> HIDE DEF N
  <2> QED BY <1>1, <1>2, SetInduction
<1> QED BY <1>3

\* What is kept of a sequence is decided by it up to there: by induction.
LEMMA KeptAgree ==
  ASSUME NEW s, NEW t, NEW T, NEW n \in Nat, NEW m \in Nat, n <= m,
         \A i \in 1..n : s[i] = t[i],
         NEW f, IsKept(f, s, T, n), NEW g, IsKept(g, t, T, m)
  PROVE  \A k \in 0..n : f[k] = g[k]
<1> DEFINE N == {k \in Nat : k <= n => f[k] = g[k]}
<1>1. /\ \A i \in 0..n : f[i] = IF i = 0 THEN <<>>
            ELSE IF s[i] \in T THEN Append(f[i - 1], s[i]) ELSE f[i - 1]
      /\ \A i \in 0..m : g[i] = IF i = 0 THEN <<>>
            ELSE IF t[i] \in T THEN Append(g[i - 1], t[i]) ELSE g[i - 1]
  BY DEF IsKept
<1>2. 0 \in N
  BY <1>1
<1>3. ASSUME NEW k \in Nat, k \in N PROVE k + 1 \in N
  <2> SUFFICES ASSUME k + 1 <= n PROVE f[k + 1] = g[k + 1]
    OBVIOUS
  <2>1. f[k] = g[k] /\ k + 1 \in 0..n /\ k + 1 \in 0..m /\ (k + 1) - 1 = k
        /\ k + 1 # 0 /\ s[k + 1] = t[k + 1]
    BY <1>3
  <2> QED BY <1>1, <2>1
<1>4. Nat \subseteq N
  <2> HIDE DEF N
  <2> QED BY <1>2, <1>3, SetInduction
<1> QED BY <1>4

\* An element that is appended is kept at the end, or not at all.
LEMMA KeepAppend ==
  ASSUME NEW S, NEW s \in Seq(S), NEW e \in S, NEW T
  PROVE  Keep(Append(s, e), T) = IF e \in T THEN Append(Keep(s, T), e) ELSE Keep(s, T)
<1> DEFINE t == Append(s, e)
           n == Len(s)
           f == CHOOSE h : IsKept(h, s, T, n)
           g == CHOOSE h : IsKept(h, t, T, n + 1)
<1>1. n \in Nat /\ Len(t) = n + 1 /\ t[n + 1] = e /\ \A i \in 1..n : s[i] = t[i]
  OBVIOUS
<1>2. Keep(s, T) = f[n] /\ Keep(t, T) = g[n + 1]
  BY <1>1 DEF Keep, IsKept
<1> HIDE DEF t, n
<1>3. IsKept(f, s, T, n)
  BY <1>1, KeptExists
<1>3a. n + 1 \in Nat /\ n <= n + 1 /\ n \in 0..n /\ n + 1 \in 0..(n + 1) /\ (n + 1) - 1 = n /\ n + 1 # 0
  BY <1>1
<1>3b. IsKept(g, t, T, n + 1)
  BY <1>3a, KeptExists
<1> HIDE DEF f, g
<1>4. f[n] = g[n]
  <2>1. \A k \in 0..n : f[k] = g[k]
    <3> DEFINE m == n + 1
    <3>1. m \in Nat /\ n <= m /\ IsKept(g, t, T, m)
      BY <1>3a, <1>3b
    <3> HIDE DEF m
    <3> QED BY <1>1, <1>3, <3>1, KeptAgree
  <2> QED BY <1>3a, <2>1
<1>5. g[n + 1] = IF t[n + 1] \in T THEN Append(g[n], t[n + 1]) ELSE g[n]
  <2>1. g = [i \in 0..(n + 1) |-> IF i = 0 THEN <<>>
        ELSE IF t[i] \in T THEN Append(g[i - 1], t[i]) ELSE g[i - 1]]
    BY <1>3b DEF IsKept
  <2>2. \A i \in 0..(n + 1) : g[i] = IF i = 0 THEN <<>>
        ELSE IF t[i] \in T THEN Append(g[i - 1], t[i]) ELSE g[i - 1]
    BY <2>1
  <2> QED BY <1>3a, <2>2
<1> QED BY <1>1, <1>2, <1>4, <1>5 DEF t

\* Nothing is kept of the empty sequence.
LEMMA KeepEmpty ==
  ASSUME NEW T
  PROVE  Keep(<<>>, T) = <<>>
<1> DEFINE n == 0
           s == <<>>
           f == CHOOSE h : IsKept(h, s, T, n)
<1>1. n \in Nat /\ n = Len(s) /\ n \in 0..n
  OBVIOUS
<1>2. Keep(s, T) = f[n]
  BY <1>1 DEF Keep, IsKept
<1>3. n = 0 /\ s = <<>>
  OBVIOUS
<1> HIDE DEF n, s
<1>4. IsKept(f, s, T, n)
  BY <1>1, KeptExists
<1> HIDE DEF f
<1>5. f[n] = <<>>
  BY <1>1, <1>3, <1>4 DEF IsKept
<1> QED BY <1>2, <1>3, <1>5

\* What is kept are elements of the sequence.
LEMMA KeepType ==
  ASSUME NEW S, NEW T, NEW s \in Seq(S)
  PROVE  Keep(s, T) \in Seq(S)
<1> DEFINE P == {t \in Seq(S) : Keep(t, T) \in Seq(S)}
<1>1. <<>> \in P
  <2>1. Keep(<<>>, T) = <<>> /\ <<>> \in Seq(S)
    BY KeepEmpty
  <2>2. Keep(<<>>, T) \in Seq(S)
    BY <2>1
  <2> QED BY <2>1, <2>2, Zenon
<1>2. ASSUME NEW t \in Seq(S), t \in P, NEW e \in S PROVE Append(t, e) \in P
  <2>1. Keep(Append(t, e), T) = IF e \in T THEN Append(Keep(t, T), e) ELSE Keep(t, T)
    BY KeepAppend
  <2> QED BY <1>2, <2>1, SMTT(30)
<1>3. Seq(S) \subseteq P
  <2> HIDE DEF P
  <2> QED BY <1>1, <1>2, SeqInduction
<1> QED BY <1>3

\* The elements of a sequence.
ElementsOf(s) == {s[i] : i \in DOMAIN s}

LEMMA ElementsOfAppend ==
  ASSUME NEW S, NEW s \in Seq(S), NEW e \in S
  PROVE  ElementsOf(Append(s, e)) = ElementsOf(s) \cup {e}
<1>1. /\ Len(s) \in Nat /\ DOMAIN s = 1..Len(s) /\ DOMAIN Append(s, e) = 1..(Len(s) + 1)
      /\ \A i \in DOMAIN s : Append(s, e)[i] = s[i]
      /\ Append(s, e)[Len(s) + 1] = e
  OBVIOUS
<1>2. \A x : x \in ElementsOf(Append(s, e)) <=> x \in ElementsOf(s) \/ x = e
  BY <1>1 DEF ElementsOf
<1> QED BY <1>2

\* An element at the end of the second of two sequences is at the end of both.
LEMMA AppendLater ==
  ASSUME NEW S, NEW s \in Seq(S), NEW t \in Seq(S), NEW e \in S
  PROVE  s \o Append(t, e) = Append(s \o t, e) /\ s \o t \in Seq(S)
OBVIOUS

\* What is kept depends on which of the elements are in the set.
LEMMA KeepSame ==
  ASSUME NEW S, NEW T, NEW U, NEW s \in Seq(S), T \cap ElementsOf(s) = U \cap ElementsOf(s)
  PROVE  Keep(s, T) = Keep(s, U)
<1> DEFINE P == {t \in Seq(S) : T \cap ElementsOf(t) = U \cap ElementsOf(t) => Keep(t, T) = Keep(t, U)}
<1>1. <<>> \in P
  BY KeepEmpty
<1>2. ASSUME NEW t \in Seq(S), t \in P, NEW e \in S PROVE Append(t, e) \in P
  <2> SUFFICES ASSUME T \cap ElementsOf(Append(t, e)) = U \cap ElementsOf(Append(t, e))
               PROVE  Keep(Append(t, e), T) = Keep(Append(t, e), U)
    OBVIOUS
  <2>1. ElementsOf(Append(t, e)) = ElementsOf(t) \cup {e}
    BY ElementsOfAppend
  <2>2. Keep(t, T) = Keep(t, U) /\ (e \in T <=> e \in U)
    BY <1>2, <2>1
  <2>3. /\ Keep(Append(t, e), T) = IF e \in T THEN Append(Keep(t, T), e) ELSE Keep(t, T)
        /\ Keep(Append(t, e), U) = IF e \in U THEN Append(Keep(t, U), e) ELSE Keep(t, U)
    BY KeepAppend
  <2> QED BY <2>2, <2>3
<1>3. Seq(S) \subseteq P
  <2> HIDE DEF P
  <2> QED BY <1>1, <1>2, SeqInduction
<1> QED BY <1>3

\* Nothing is kept where no element is in the set.
LEMMA KeepNone ==
  ASSUME NEW S, NEW T, NEW s \in Seq(S), T \cap ElementsOf(s) = {}
  PROVE  Keep(s, T) = <<>>
<1> DEFINE P == {t \in Seq(S) : Keep(t, {}) = <<>>}
<1>1. <<>> \in P
  BY KeepEmpty
<1>2. ASSUME NEW t \in Seq(S), t \in P, NEW e \in S PROVE Append(t, e) \in P
  <2>1. Keep(Append(t, e), {}) = Keep(t, {})
    BY KeepAppend
  <2> QED BY <1>2, <2>1
<1>3. Seq(S) \subseteq P
  <2> HIDE DEF P
  <2> QED BY <1>1, <1>2, SeqInduction
<1>4. Keep(s, T) = Keep(s, {})
  BY KeepSame
<1> QED BY <1>3, <1>4

\* What is kept of two sequences, one after the other.
LEMMA KeepConcat ==
  ASSUME NEW S, NEW T, NEW s \in Seq(S), NEW t \in Seq(S)
  PROVE  Keep(s \o t, T) = Keep(s, T) \o Keep(t, T)
<1> DEFINE P == {u \in Seq(S) : Keep(s \o u, T) = Keep(s, T) \o Keep(u, T)}
<1>1. <<>> \in P
  <2>1. Keep(s, T) \in Seq(S) /\ Keep(<<>>, T) = <<>> /\ s \o <<>> = s
    BY KeepType, KeepEmpty
  <2> QED BY <2>1
<1>2. ASSUME NEW u \in Seq(S), u \in P, NEW e \in S PROVE Append(u, e) \in P
  <2>1. s \o Append(u, e) = Append(s \o u, e) /\ s \o u \in Seq(S)
    BY AppendLater
  <2>2. /\ Keep(Append(s \o u, e), T) = IF e \in T THEN Append(Keep(s \o u, T), e) ELSE Keep(s \o u, T)
        /\ Keep(Append(u, e), T) = IF e \in T THEN Append(Keep(u, T), e) ELSE Keep(u, T)
    BY <2>1, KeepAppend
  <2>3. Keep(s, T) \in Seq(S) /\ Keep(u, T) \in Seq(S)
    BY KeepType
  <2>4. Keep(s, T) \o Append(Keep(u, T), e) = Append(Keep(s, T) \o Keep(u, T), e)
    BY <2>3, AppendLater
  <2>5. Keep(s \o u, T) = Keep(s, T) \o Keep(u, T)
    BY <1>2
  <2>6. Keep(Append(s \o u, e), T) = Keep(s, T) \o Keep(Append(u, e), T)
    BY <2>2, <2>4, <2>5
  <2>7. Append(u, e) \in Seq(S) /\ Keep(s \o Append(u, e), T) = Keep(s, T) \o Keep(Append(u, e), T)
    BY <2>1, <2>6
  <2> QED BY <2>7
<1>3. Seq(S) \subseteq P
  <2> HIDE DEF P
  <2> QED BY <1>1, <1>2, SeqInduction
<1> QED BY <1>3

-----------------------------------------------------------------------------
\* No element twice.
Distinct(s) == \A i, j \in DOMAIN s : s[i] = s[j] => i = j

LEMMA EmptyIsDistinct == ElementsOf(<<>>) = {} /\ Distinct(<<>>)
BY DEF ElementsOf, Distinct

\* A new element at the end is one that was not there.
LEMMA DistinctAppend ==
  ASSUME NEW S, NEW s \in Seq(S), NEW e \in S, Distinct(s), e \notin ElementsOf(s)
  PROVE  Distinct(Append(s, e))
<1>1. /\ Len(s) \in Nat /\ DOMAIN s = 1..Len(s) /\ DOMAIN Append(s, e) = 1..(Len(s) + 1)
      /\ \A i \in DOMAIN s : Append(s, e)[i] = s[i]
      /\ Append(s, e)[Len(s) + 1] = e
  OBVIOUS
<1>2. \A i \in DOMAIN Append(s, e) : i \in DOMAIN s \/ i = Len(s) + 1
  BY <1>1
<1> QED BY <1>1, <1>2 DEF Distinct, ElementsOf

\* Taking the first element of a sequence: the others are what is left of it.
LEMMA HeadAndRest ==
  ASSUME NEW S, NEW s \in Seq(S), s # <<>>, Distinct(s)
  PROVE  /\ Head(s) \in S /\ Head(s) \in ElementsOf(s)
         /\ Tail(s) \in Seq(S) /\ Distinct(Tail(s))
         /\ ElementsOf(Tail(s)) = ElementsOf(s) \ {Head(s)}
<1> DEFINE t == Tail(s)
<1>1. /\ t \in Seq(S) /\ Head(s) \in S
      /\ DOMAIN s = 1..Len(s) /\ Len(s) \in Nat /\ 1 \in DOMAIN s /\ Head(s) = s[1]
      /\ DOMAIN t = 1..(Len(s) - 1)
      /\ \A i \in DOMAIN t : i + 1 \in DOMAIN s /\ t[i] = s[i + 1]
  OBVIOUS
<1>2. \A i \in DOMAIN s : i = 1 \/ (i - 1 \in DOMAIN t /\ (i - 1) + 1 = i)
  BY <1>1
<1> HIDE DEF t
<1>3. Distinct(t)
  <2> SUFFICES ASSUME NEW i \in DOMAIN t, NEW j \in DOMAIN t, t[i] = t[j] PROVE i = j
    BY DEF Distinct
  <2>1. i + 1 = j + 1
    BY <1>1 DEF Distinct
  <2> QED BY <1>1, <2>1
<1>4. \A c : (\E i \in DOMAIN t : c = t[i]) <=> (\E i \in DOMAIN s : c = s[i]) /\ c # s[1]
  <2>1. ASSUME NEW i \in DOMAIN t PROVE t[i] # s[1]
    <3>1. i + 1 # 1
      BY <1>1
    <3> QED BY <1>1, <3>1 DEF Distinct
  <2>2. ASSUME NEW i \in DOMAIN s, s[i] # s[1] PROVE \E j \in DOMAIN t : s[i] = t[j]
    BY <1>1, <1>2, <2>2
  <2> QED BY <1>1, <2>1, <2>2
<1>5. \A c : c \in ElementsOf(t) <=> c \in ElementsOf(s) /\ c # s[1]
  BY <1>4 DEF ElementsOf
<1>6. s[1] \in ElementsOf(s)
  BY <1>1 DEF ElementsOf
<1>7. ElementsOf(t) = ElementsOf(s) \ {s[1]}
  BY <1>5
<1> QED BY <1>1, <1>3, <1>6, <1>7 DEF t

\* What is kept of a sequence, begun with its first element.
LEMMA KeepFirst ==
  ASSUME NEW S, NEW T, NEW s \in Seq(S), s # <<>>
  PROVE  Keep(s, T) = (IF Head(s) \in T THEN <<Head(s)>> ELSE <<>>) \o Keep(Tail(s), T)
<1> DEFINE h == <<Head(s)>>
<1>1. Head(s) \in S /\ Tail(s) \in Seq(S) /\ h \in Seq(S) /\ h = Append(<<>>, Head(s))
  OBVIOUS
<1>2. s = h \o Tail(s)
  <2>1. h \o Tail(s) \in Seq(S) /\ Len(h \o Tail(s)) = Len(s)
    BY <1>1
  <2>2. \A i \in 1..Len(s) : (h \o Tail(s))[i] = s[i]
    BY <1>1
  <2> QED BY <2>1, <2>2
<1>3. Keep(h, T) = IF Head(s) \in T THEN h ELSE <<>>
  <2>1. Keep(<<>>, T) = <<>> /\ <<>> \in Seq(S)
    BY KeepEmpty
  <2>2. Keep(Append(<<>>, Head(s)), T)
          = IF Head(s) \in T THEN Append(Keep(<<>>, T), Head(s)) ELSE Keep(<<>>, T)
    BY <1>1, <2>1, KeepAppend
  <2> QED BY <1>1, <2>1, <2>2
<1>4. Keep(h \o Tail(s), T) = Keep(h, T) \o Keep(Tail(s), T)
  <2> HIDE DEF h
  <2> QED BY <1>1, KeepConcat
<1> QED BY <1>2, <1>3, <1>4

\* What is kept of what was kept.
LEMMA KeepKeep ==
  ASSUME NEW S, NEW T, NEW U, T \subseteq U, NEW s \in Seq(S)
  PROVE  Keep(Keep(s, U), T) = Keep(s, T)
<1> DEFINE P == {t \in Seq(S) : Keep(Keep(t, U), T) = Keep(t, T)}
<1>1. <<>> \in P
  BY KeepEmpty
<1>2. ASSUME NEW t \in Seq(S), t \in P, NEW e \in S PROVE Append(t, e) \in P
  <2>1. Keep(t, U) \in Seq(S) /\ Append(t, e) \in Seq(S)
    BY KeepType
  <2>2. Keep(Append(t, e), U) = IF e \in U THEN Append(Keep(t, U), e) ELSE Keep(t, U)
    BY KeepAppend
  <2>3. Keep(Append(t, e), T) = IF e \in T THEN Append(Keep(t, T), e) ELSE Keep(t, T)
    BY KeepAppend
  <2>4. Keep(Append(Keep(t, U), e), T) =
          IF e \in T THEN Append(Keep(Keep(t, U), T), e) ELSE Keep(Keep(t, U), T)
    BY <2>1, KeepAppend
  <2> QED BY <1>2, <2>1, <2>2, <2>3, <2>4
<1>3. Seq(S) \subseteq P
  <2> HIDE DEF P
  <2> QED BY <1>1, <1>2, SeqInduction
<1> QED BY <1>3

-----------------------------------------------------------------------------
\* The places, in their order, of the elements of a sequence that are in a set.
Enumerates(places, s, T) ==
  /\ places \in Seq(1..Len(s))
  /\ \A i \in DOMAIN places : s[places[i]] \in T
  /\ \A i, j \in DOMAIN places : i < j => places[i] < places[j]
  /\ \A k \in 1..Len(s) : s[k] \in T => \E i \in DOMAIN places : places[i] = k

\* Those of a sequence with one more element.
LEMMA EnumeratesMore ==
  ASSUME NEW S, NEW T, NEW s \in Seq(S), NEW e \in S, NEW places, Enumerates(places, s, T)
  PROVE  /\ e \notin T => Enumerates(places, Append(s, e), T)
         /\ e \in T => Enumerates(Append(places, Len(s) + 1), Append(s, e), T)
<1> DEFINE t == Append(s, e)
           n == Len(s)
           more == Append(places, n + 1)
<1>1. /\ n \in Nat /\ Len(t) = n + 1 /\ t[n + 1] = e /\ \A k \in 1..n : t[k] = s[k]
  OBVIOUS
<1>2. places \in Seq(1..n) /\ Len(places) \in Nat /\ DOMAIN places = 1..Len(places)
      /\ \A i \in DOMAIN places : places[i] \in 1..n
  BY DEF Enumerates
<1>3. places \in Seq(1..(n + 1))
  <2>1. \A i \in DOMAIN places : places[i] \in 1..(n + 1)
    BY <1>1, <1>2
  <2> QED BY <1>2, <2>1
<1>4. /\ more \in Seq(1..(n + 1)) /\ DOMAIN more = 1..(Len(places) + 1)
      /\ \A i \in DOMAIN places : more[i] = places[i]
      /\ more[Len(places) + 1] = n + 1
  BY <1>1, <1>2, <1>3
<1> HIDE DEF t, n, more
<1>5. /\ \A i \in DOMAIN places : s[places[i]] \in T
      /\ \A i, j \in DOMAIN places : i < j => places[i] < places[j]
      /\ \A k \in 1..n : s[k] \in T => \E i \in DOMAIN places : places[i] = k
  BY DEF Enumerates, n
<1>6. \A i \in DOMAIN more : i \in DOMAIN places \/ i = Len(places) + 1
  BY <1>2, <1>4
<1>7. \A k \in 1..(n + 1) : k \in 1..n \/ k = n + 1
  BY <1>1
<1>8. ASSUME e \notin T PROVE Enumerates(places, t, T)
  BY <1>1, <1>2, <1>3, <1>5, <1>7, <1>8 DEF Enumerates
<1>9. ASSUME e \in T PROVE Enumerates(more, t, T)
  <2>1. \A i \in DOMAIN more : t[more[i]] \in T
    BY <1>1, <1>2, <1>4, <1>5, <1>6, <1>9
  <2>2. \A i, j \in DOMAIN more : i < j => more[i] < more[j]
    <3> SUFFICES ASSUME NEW i \in DOMAIN more, NEW j \in DOMAIN more, i < j
                 PROVE  more[i] < more[j]
      OBVIOUS
    <3>1. i \in DOMAIN places
      BY <1>2, <1>4
    <3>2. CASE j \in DOMAIN places
      BY <1>4, <1>5, <3>1, <3>2
    <3>3. CASE j = Len(places) + 1
      BY <1>1, <1>2, <1>4, <3>1, <3>3
    <3> QED BY <1>6, <3>2, <3>3
  <2>3. \A k \in 1..(n + 1) : t[k] \in T => \E i \in DOMAIN more : more[i] = k
    <3>1. Len(places) + 1 \in DOMAIN more /\ \A i \in DOMAIN places : i \in DOMAIN more
      BY <1>2, <1>4
    <3> QED BY <1>1, <1>4, <1>5, <1>7, <3>1
  <2> QED BY <1>1, <1>4, <2>1, <2>2, <2>3 DEF Enumerates
<1> QED BY <1>8, <1>9 DEF t, n, more

\* And those of a sequence without its last element.
LEMMA EnumeratesFewer ==
  ASSUME NEW S, NEW T, NEW s \in Seq(S), NEW e \in S, NEW places,
         Enumerates(places, Append(s, e), T), e \notin T
  PROVE  Enumerates(places, s, T)
<1> DEFINE t == Append(s, e)
           n == Len(s)
<1>1. /\ n \in Nat /\ Len(t) = n + 1 /\ t[n + 1] = e /\ \A k \in 1..n : t[k] = s[k]
  OBVIOUS
<1> HIDE DEF t, n
<1>2. /\ places \in Seq(1..(n + 1)) /\ Len(places) \in Nat /\ DOMAIN places = 1..Len(places)
      /\ \A i \in DOMAIN places : places[i] \in 1..(n + 1)
      /\ \A i \in DOMAIN places : t[places[i]] \in T
      /\ \A i, j \in DOMAIN places : i < j => places[i] < places[j]
      /\ \A k \in 1..(n + 1) : t[k] \in T => \E i \in DOMAIN places : places[i] = k
  BY <1>1 DEF Enumerates, t
<1>3. Enumerates(places, s, T)
  <2>1. \A i \in DOMAIN places : places[i] \in 1..n
    BY <1>1, <1>2
  <2>2. places \in Seq(1..n)
    <3> DEFINE R == 1..n
    <3>1. \A i \in 1..Len(places) : places[i] \in R
      BY <1>2, <2>1
    <3>2. places = [i \in 1..Len(places) |-> places[i]]
      BY <1>2
    <3> HIDE DEF R
    <3>3. [i \in 1..Len(places) |-> places[i]] \in Seq(R)
      BY <1>2, <3>1
    <3> QED BY <3>2, <3>3 DEF R
  <2>3. \A k \in 1..n : k \in 1..(n + 1)
    BY <1>1
  <2> QED BY <1>1, <1>2, <2>1, <2>2, <2>3 DEF Enumerates, n
<1> QED BY <1>3

\* Or with it: the last place is that of the last element.
IsFrontOf(front, places, s, T) ==
  Enumerates(front, s, T) /\ places = Append(front, Len(s) + 1)

LEMMA EnumeratesFront ==
  ASSUME NEW S, NEW T, NEW s \in Seq(S), NEW e \in S, NEW places,
         Enumerates(places, Append(s, e), T), e \in T
  PROVE  \E front : IsFrontOf(front, places, s, T)
<1> DEFINE t == Append(s, e)
           n == Len(s)
<1>1. /\ n \in Nat /\ Len(t) = n + 1 /\ t[n + 1] = e /\ \A k \in 1..n : t[k] = s[k]
  OBVIOUS
<1> HIDE DEF t, n
<1>2. /\ places \in Seq(1..(n + 1)) /\ Len(places) \in Nat /\ DOMAIN places = 1..Len(places)
      /\ \A i \in DOMAIN places : places[i] \in 1..(n + 1)
      /\ \A i \in DOMAIN places : t[places[i]] \in T
      /\ \A i, j \in DOMAIN places : i < j => places[i] < places[j]
      /\ \A k \in 1..(n + 1) : t[k] \in T => \E i \in DOMAIN places : places[i] = k
  BY <1>1 DEF Enumerates, t
<1>3. PICK last \in DOMAIN places : places[last] = n + 1
  BY <1>1, <1>2
<1>4. last = Len(places)
  <2>1. CASE last < Len(places)
    <3>1. Len(places) \in DOMAIN places /\ last < Len(places)
      BY <1>2, <2>1
    <3>2. n + 1 < places[Len(places)] /\ places[Len(places)] \in 1..(n + 1)
      BY <1>2, <1>3, <3>1
    <3> QED BY <1>1, <3>2
  <2> QED BY <1>2, <2>1
<1> DEFINE m == Len(places) - 1
           front == [i \in 1..m |-> places[i]]
<1>5. m \in Nat /\ Len(places) = m + 1 /\ \A i \in 1..m : i \in DOMAIN places /\ i < last
  BY <1>2, <1>4
<1>6. \A i \in 1..m : places[i] \in 1..n
  <2> SUFFICES ASSUME NEW i \in 1..m PROVE places[i] \in 1..n
    OBVIOUS
  <2>1. places[i] < n + 1 /\ places[i] \in 1..(n + 1)
    BY <1>2, <1>3, <1>5
  <2> QED BY <1>1, <2>1
<1>7. front \in Seq(1..n) /\ DOMAIN front = 1..m /\ Len(front) = m
      /\ \A i \in 1..m : front[i] = places[i]
  BY <1>5, <1>6
<1>8. places = Append(front, n + 1)
  <2>1. Append(front, n + 1) \in Seq(1..(n + 1)) /\ Len(Append(front, n + 1)) = m + 1
    <3>1. front \in Seq(1..(n + 1))
      BY <1>1, <1>7
    <3> QED BY <1>1, <1>7, <3>1
  <2>2. \A i \in 1..(m + 1) : Append(front, n + 1)[i] = places[i]
    BY <1>3, <1>4, <1>5, <1>7
  <2> HIDE DEF front, m
  <2> QED BY <1>2, <1>5, <2>1, <2>2
<1>9. \A k \in 1..n : s[k] \in T => \E i \in DOMAIN front : front[i] = k
  <2> SUFFICES ASSUME NEW k \in 1..n, s[k] \in T PROVE \E i \in DOMAIN front : front[i] = k
    OBVIOUS
  <2>1. PICK i \in DOMAIN places : places[i] = k
    BY <1>1, <1>2
  <2>2. i # last
    BY <1>1, <1>3, <2>1
  <2>3. i \in 1..m
    BY <1>2, <1>4, <2>2
  <2> QED BY <1>7, <2>1, <2>3
<1>10. \A i \in DOMAIN front : s[front[i]] \in T
  <2> SUFFICES ASSUME NEW i \in 1..m PROVE s[front[i]] \in T
    BY <1>7
  <2>1. places[i] \in 1..n /\ t[places[i]] \in T /\ front[i] = places[i]
    BY <1>2, <1>5, <1>6, <1>7
  <2> QED BY <1>1, <2>1
<1>11. \A i, j \in DOMAIN front : i < j => front[i] < front[j]
  BY <1>2, <1>5, <1>7
<1>12. Enumerates(front, s, T)
  BY <1>7, <1>9, <1>10, <1>11 DEF Enumerates, n
<1>13. IsFrontOf(front, places, s, T)
  BY <1>8, <1>12 DEF IsFrontOf, n
<1> HIDE DEF front
<1> QED BY <1>13

\* What is kept of a sequence are the elements at these places.
LEMMA KeepIsEnumerated ==
  ASSUME NEW S, NEW T, NEW s \in Seq(S), NEW places, Enumerates(places, s, T)
  PROVE  Keep(s, T) = [i \in DOMAIN places |-> s[places[i]]]
<1> DEFINE Here(u, at) == [i \in DOMAIN at |-> u[at[i]]]
           P == {u \in Seq(S) : \A at : Enumerates(at, u, T) => Keep(u, T) = Here(u, at)}
<1>1. <<>> \in P
  <2> SUFFICES ASSUME NEW at, Enumerates(at, <<>>, T) PROVE Keep(<<>>, T) = Here(<<>>, at)
    OBVIOUS
  <2>1. at \in Seq(1..0)
    BY DEF Enumerates
  <2>2. at = <<>>
    BY <2>1
  <2>3. Here(<<>>, at) = <<>>
    BY <2>2
  <2> QED BY <2>3, KeepEmpty
<1>2. ASSUME NEW u \in Seq(S), u \in P, NEW e \in S PROVE Append(u, e) \in P
  <2>0. Append(u, e) \in Seq(S)
    OBVIOUS
  <2> SUFFICES ASSUME NEW at, Enumerates(at, Append(u, e), T)
               PROVE  Keep(Append(u, e), T) = Here(Append(u, e), at)
    BY <2>0, Zenon
  <2>1. Keep(Append(u, e), T) = IF e \in T THEN Append(Keep(u, T), e) ELSE Keep(u, T)
    BY KeepAppend
  <2>2. Len(u) \in Nat /\ Append(u, e)[Len(u) + 1] = e /\ \A k \in 1..Len(u) : Append(u, e)[k] = u[k]
    OBVIOUS
  <2>3. CASE e \notin T
    <3>1. Enumerates(at, u, T)
      BY <2>3, EnumeratesFewer
    <3>2. Keep(u, T) = Here(u, at)
      BY <1>2, <3>1
    <3>3. \A i \in DOMAIN at : at[i] \in 1..Len(u)
      BY <3>1 DEF Enumerates
    <3>4. Here(Append(u, e), at) = Here(u, at)
      BY <2>2, <3>3
    <3> QED BY <2>1, <2>3, <3>2, <3>4
  <2>4. CASE e \in T
    <3>0. \E front : IsFrontOf(front, at, u, T)
      BY <2>4, EnumeratesFront
    <3>1. PICK front : Enumerates(front, u, T) /\ at = Append(front, Len(u) + 1)
      BY <3>0 DEF IsFrontOf
    <3>2. Keep(u, T) = Here(u, front)
      BY <1>2, <3>1
    <3>3. /\ front \in Seq(1..Len(u)) /\ Len(front) \in Nat /\ DOMAIN front = 1..Len(front)
          /\ \A i \in DOMAIN front : front[i] \in 1..Len(u)
      BY <3>1 DEF Enumerates
    <3>4. /\ DOMAIN at = 1..(Len(front) + 1) /\ at[Len(front) + 1] = Len(u) + 1
          /\ \A i \in DOMAIN front : at[i] = front[i]
      BY <3>1, <3>3
    <3>5. Here(u, front) \in Seq(S) /\ Len(Here(u, front)) = Len(front)
      BY <3>3
    <3>6. Append(Here(u, front), e) = [i \in 1..(Len(front) + 1) |->
            IF i = Len(front) + 1 THEN e ELSE Here(u, front)[i]]
      BY <3>3, <3>5
    <3>7. \A i \in 1..(Len(front) + 1) :
            (IF i = Len(front) + 1 THEN e ELSE Here(u, front)[i]) = Append(u, e)[at[i]]
      BY <2>2, <3>3, <3>4
    <3>8. Here(Append(u, e), at) = Append(Here(u, front), e)
      BY <3>4, <3>6, <3>7
    <3> QED BY <2>1, <2>4, <3>2, <3>8
  <2> QED BY <2>3, <2>4
<1>3. Seq(S) \subseteq P
  <2> HIDE DEF P
  <2> QED BY <1>1, <1>2, SeqInduction
<1> QED BY <1>3

\* There are such places.
LEMMA EnumerationExists ==
  ASSUME NEW S, NEW T, NEW s \in Seq(S)
  PROVE  \E places : Enumerates(places, s, T)
<1> DEFINE P == {u \in Seq(S) : \E at : Enumerates(at, u, T)}
<1>1. <<>> \in P
  <2>1. Enumerates(<<>>, <<>>, T)
    BY DEF Enumerates
  <2> QED BY <2>1
<1>2. ASSUME NEW u \in Seq(S), u \in P, NEW e \in S PROVE Append(u, e) \in P
  <2>1. PICK at : Enumerates(at, u, T)
    BY <1>2
  <2>2. \E more : Enumerates(more, Append(u, e), T)
    BY <2>1, EnumeratesMore
  <2> QED BY <2>2
<1>3. Seq(S) \subseteq P
  <2> HIDE DEF P
  <2> QED BY <1>1, <1>2, SeqInduction
<1> QED BY <1>3

\* What is kept of two sequences that differ only in elements out of the set.
LEMMA KeepAlike ==
  ASSUME NEW S, NEW T, NEW s \in Seq(S), NEW t \in Seq(S), Len(s) = Len(t),
         \A k \in 1..Len(s) : s[k] = t[k] \/ (s[k] \notin T /\ t[k] \notin T)
  PROVE  Keep(s, T) = Keep(t, T)
<1>1. PICK places : Enumerates(places, s, T)
  BY EnumerationExists
<1>2. Enumerates(places, t, T) /\ \A i \in DOMAIN places : s[places[i]] = t[places[i]]
  <2>1. \A i \in DOMAIN places : places[i] \in 1..Len(s)
    BY <1>1 DEF Enumerates
  <2> QED BY <1>1, <2>1 DEF Enumerates
<1>3. /\ Keep(s, T) = [i \in DOMAIN places |-> s[places[i]]]
      /\ Keep(t, T) = [i \in DOMAIN places |-> t[places[i]]]
  BY <1>1, <1>2, KeepIsEnumerated
<1> QED BY <1>2, <1>3

\* The places up to one of them are those of the elements up to there.
LEMMA EnumeratesUpTo ==
  ASSUME NEW S, NEW T, NEW s \in Seq(S), NEW places, Enumerates(places, s, T),
         NEW r \in DOMAIN places
  PROVE  Len(Keep(SubSeq(s, 1, places[r]), T)) = r
<1> DEFINE k == places[r]
           u == SubSeq(s, 1, k)
           some == SubSeq(places, 1, r)
<1>1. /\ places \in Seq(1..Len(s)) /\ Len(places) \in Nat /\ DOMAIN places = 1..Len(places)
      /\ Len(s) \in Nat /\ DOMAIN s = 1..Len(s)
      /\ \A i \in DOMAIN places : places[i] \in 1..Len(s) /\ s[places[i]] \in T
      /\ \A i, j \in DOMAIN places : i < j => places[i] < places[j]
      /\ \A j \in 1..Len(s) : s[j] \in T => \E i \in DOMAIN places : places[i] = j
  BY DEF Enumerates
<1>2. k \in 1..Len(s) /\ r \in 1..Len(places)
  BY <1>1
<1> HIDE DEF k
<1>3. u \in Seq(S) /\ Len(u) = k /\ \A i \in 1..k : u[i] = s[i]
  BY <1>1, <1>2
<1>4. \A i \in 1..r : i \in DOMAIN places /\ places[i] \in 1..k
  <2> SUFFICES ASSUME NEW i \in 1..r PROVE i \in DOMAIN places /\ places[i] \in 1..k
    OBVIOUS
  <2>1. i \in DOMAIN places /\ (i = r \/ i < r)
    BY <1>1, <1>2
  <2>2. places[i] = k \/ places[i] < k
    BY <1>1, <2>1 DEF k
  <2> QED BY <1>1, <1>2, <2>1, <2>2
<1>5. /\ some \in Seq(1..k) /\ Len(some) = r /\ DOMAIN some = 1..r
      /\ \A i \in 1..r : some[i] = places[i]
  <2>1. some = [i \in 1..r |-> places[i]]
    BY <1>1, <1>2
  <2>2. r \in Nat
    BY <1>2
  <2> DEFINE R == 1..k
  <2>3. \A i \in 1..r : places[i] \in R
    BY <1>4
  <2> HIDE DEF some, R
  <2>4. some \in Seq(R) /\ Len(some) = r /\ DOMAIN some = 1..r /\ \A i \in 1..r : some[i] = places[i]
    BY <2>1, <2>2, <2>3
  <2> QED BY <2>4 DEF R
<1> HIDE DEF u, some
<1>6. \A i \in DOMAIN some : u[some[i]] \in T
  BY <1>1, <1>3, <1>4, <1>5
<1>7. \A i, j \in DOMAIN some : i < j => some[i] < some[j]
  BY <1>1, <1>4, <1>5
<1>8. \A j \in 1..k : u[j] \in T => \E i \in DOMAIN some : some[i] = j
  <2> SUFFICES ASSUME NEW j \in 1..k, s[j] \in T PROVE \E i \in 1..r : some[i] = j
    BY <1>3, <1>5
  <2>1. j \in 1..Len(s)
    BY <1>1, <1>2
  <2>2. PICK i \in DOMAIN places : places[i] = j
    BY <1>1, <2>1
  <2>3. ~(r < i)
    <3>1. r < i => k < places[i]
      BY <1>1 DEF k
    <3> QED BY <1>2, <2>2, <3>1
  <2>4. i \in 1..r
    BY <1>1, <1>2, <2>3
  <2> QED BY <1>5, <2>2, <2>4
<1>9. Enumerates(some, u, T)
  BY <1>3, <1>5, <1>6, <1>7, <1>8 DEF Enumerates
<1>10. Keep(u, T) = [i \in DOMAIN some |-> u[some[i]]]
  BY <1>3, <1>9, KeepIsEnumerated
<1>11. Len(Keep(u, T)) = r
  BY <1>2, <1>5, <1>10
<1> QED BY <1>11 DEF u, k

-----------------------------------------------------------------------------
\* f is the function of Joined, for the first n sequences of s.
IsJoined(f, s, n) == f = [i \in 0..n |-> IF i = 0 THEN <<>> ELSE f[i - 1] \o s[i]]

LEMMA JoinedExists ==
  ASSUME NEW s, NEW n \in Nat
  PROVE  \E f : IsJoined(f, s, n)
<1> DEFINE N == {m \in Nat : \E f : IsJoined(f, s, m)}
<1>1. 0 \in N
  <2>1. IsJoined([i \in 0..0 |-> <<>>], s, 0)
    BY DEF IsJoined
  <2> QED BY <2>1
<1>2. ASSUME NEW m \in Nat, m \in N PROVE m + 1 \in N
  <2>1. PICK f : IsJoined(f, s, m)
    BY <1>2
  <2> DEFINE g == [i \in 0..(m + 1) |-> IF i = m + 1 THEN f[m] \o s[m + 1] ELSE f[i]]
  <2>2. IsJoined(g, s, m + 1)
    <3>1. \A i \in 0..m : f[i] = IF i = 0 THEN <<>> ELSE f[i - 1] \o s[i]
      BY <2>1 DEF IsJoined
    <3>2. \A i \in 0..(m + 1) : g[i] = IF i = 0 THEN <<>> ELSE g[i - 1] \o s[i]
      BY <3>1
    <3> HIDE DEF g
    <3>3. g = [i \in 0..(m + 1) |-> g[i]]
      BY DEF g
    <3> QED BY <3>2, <3>3 DEF IsJoined
  <2> HIDE DEF g
  <2> QED BY <2>2
<1>3. Nat \subseteq N
  <2> HIDE DEF N
  <2> QED BY <1>1, <1>2, SetInduction
<1> QED BY <1>3

SameUpTo(s, t, n) == \A i \in 1..n : s[i] = t[i]

LEMMA JoinedAgree ==
  ASSUME NEW s, NEW t, NEW n \in Nat, NEW m \in Nat, n <= m, SameUpTo(s, t, n),
         NEW f, IsJoined(f, s, n), NEW g, IsJoined(g, t, m)
  PROVE  \A k \in 0..n : f[k] = g[k]
<1> DEFINE N == {k \in Nat : k <= n => f[k] = g[k]}
<1>1. /\ \A i \in 0..n : f[i] = IF i = 0 THEN <<>> ELSE f[i - 1] \o s[i]
      /\ \A i \in 0..m : g[i] = IF i = 0 THEN <<>> ELSE g[i - 1] \o t[i]
  BY DEF IsJoined
<1>2. 0 \in N
  BY <1>1
<1>3. ASSUME NEW k \in Nat, k \in N PROVE k + 1 \in N
  <2> SUFFICES ASSUME k + 1 <= n PROVE f[k + 1] = g[k + 1]
    OBVIOUS
  <2>1. f[k] = g[k] /\ k + 1 \in 0..n /\ k + 1 \in 0..m /\ (k + 1) - 1 = k
        /\ k + 1 # 0 /\ s[k + 1] = t[k + 1]
    BY <1>3 DEF SameUpTo
  <2> QED BY <1>1, <2>1
<1>4. Nat \subseteq N
  <2> HIDE DEF N
  <2> QED BY <1>2, <1>3, SetInduction
<1> QED BY <1>4

\* One more sequence comes at the end.
LEMMA JoinedAppend ==
  ASSUME NEW S, NEW s \in Seq(S), NEW e \in S
  PROVE  Joined(Append(s, e)) = Joined(s) \o e
<1> DEFINE t == Append(s, e)
           n == Len(s)
           f == CHOOSE h : IsJoined(h, s, n)
           g == CHOOSE h : IsJoined(h, t, n + 1)
<1>1. n \in Nat /\ Len(t) = n + 1 /\ t[n + 1] = e /\ \A i \in 1..n : s[i] = t[i]
  OBVIOUS
<1>2. Joined(s) = f[n] /\ Joined(t) = g[n + 1]
  BY <1>1 DEF Joined, IsJoined
<1> HIDE DEF t, n
<1>3. IsJoined(f, s, n)
  BY <1>1, JoinedExists
<1>4. n + 1 \in Nat /\ n <= n + 1 /\ n \in 0..n /\ n + 1 \in 0..(n + 1) /\ (n + 1) - 1 = n /\ n + 1 # 0
  BY <1>1
<1>5. IsJoined(g, t, n + 1)
  BY <1>4, JoinedExists
<1> HIDE DEF f, g
<1>6. f[n] = g[n]
  <2>1. \A k \in 0..n : f[k] = g[k]
    <3> DEFINE m == n + 1
    <3>1. m \in Nat /\ n <= m /\ IsJoined(g, t, m) /\ SameUpTo(s, t, n)
      BY <1>1, <1>4, <1>5 DEF SameUpTo
    <3> HIDE DEF m
    <3> QED BY <1>1, <1>3, <3>1, JoinedAgree
  <2> QED BY <1>4, <2>1
<1>7. g[n + 1] = g[n] \o t[n + 1]
  <2>1. \A i \in 0..(n + 1) : g[i] = IF i = 0 THEN <<>> ELSE g[i - 1] \o t[i]
    BY <1>5 DEF IsJoined
  <2> QED BY <1>4, <2>1
<1> QED BY <1>1, <1>2, <1>6, <1>7 DEF t

LEMMA JoinedEmpty == Joined(<<>>) = <<>>
<1> DEFINE n == 0
           s == <<>>
           f == CHOOSE h : IsJoined(h, s, n)
<1>1. n \in Nat /\ n = Len(s) /\ n \in 0..n
  OBVIOUS
<1>2. Joined(s) = f[n]
  BY <1>1 DEF Joined, IsJoined
<1>3. n = 0 /\ s = <<>>
  OBVIOUS
<1> HIDE DEF n, s
<1>4. IsJoined(f, s, n)
  BY <1>1, JoinedExists
<1> HIDE DEF f
<1>5. f[n] = <<>>
  BY <1>1, <1>3, <1>4 DEF IsJoined
<1> QED BY <1>2, <1>3, <1>5

\* One sequence alone is itself.
LEMMA JoinedOne ==
  ASSUME NEW B, NEW e \in Seq(B)
  PROVE  Joined(<<e>>) = e
<1>1. <<>> \in Seq(Seq(B)) /\ <<e>> = Append(<<>>, e)
  OBVIOUS
<1>2. Joined(Append(<<>>, e)) = Joined(<<>>) \o e
  BY <1>1, JoinedAppend
<1> QED BY <1>1, <1>2, JoinedEmpty
=============================================================================
