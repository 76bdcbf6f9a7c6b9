-------------------------- MODULE EntryTreeProofs --------------------------
(***************************************************************************)
(* The invariant of EntryTree, for every number of entries, managers and   *)
(* lost lines: what a manager reads off the path to its leaf is what was   *)
(* told on the way there.                                                  *)
(***************************************************************************)
EXTENDS EntryTree, KeptProofs, SequenceTheorems, TLAPS

-----------------------------------------------------------------------------
(* Sequences. *)

\* A sequence is what comes before one of its elements, the element, and the rest.
LEMMA SplitAt ==
  ASSUME NEW S, NEW s \in Seq(S), NEW i \in 1..Len(s)
  PROVE  /\ SubSeq(s, 1, i - 1) \in Seq(S) /\ SubSeq(s, i + 1, Len(s)) \in Seq(S)
         /\ s[i] \in S /\ <<s[i]>> \in Seq(S) /\ SubSeq(s, i, Len(s)) \in Seq(S)
         /\ SubSeq(s, i, Len(s)) = <<s[i]>> \o SubSeq(s, i + 1, Len(s))
         /\ s = SubSeq(s, 1, i - 1) \o SubSeq(s, i, Len(s))
<1>1. Len(s) \in Nat /\ i \in Nat /\ s[i] \in S /\ \A k \in 1..Len(s) : s[k] \in S
  BY LenProperties, ElementOfSeq
<1>2. SubSeq(s, 1, i - 1) \in Seq(S)
  BY <1>1, SubSeqProperties
<1>3. SubSeq(s, i + 1, Len(s)) \in Seq(S)
  BY <1>1, SubSeqProperties
<1>4. SubSeq(s, i, Len(s)) \in Seq(S)
  BY <1>1, SubSeqProperties
<1>5. SubSeq(s, i, Len(s)) = <<s[i]>> \o SubSeq(s, i + 1, Len(s))
  BY <1>1, SubSeqRecursiveFirst
<1>6. SubSeq(s, 1, i - 1) \o SubSeq(s, i, Len(s)) = SubSeq(s, 1, Len(s))
  <2> DEFINE m == i - 1
  <2>3. 1 \in 1..(Len(s) + 1) /\ m \in (1 - 1)..Len(s) /\ Len(s) \in m..Len(s)
    BY <1>1
  <2> HIDE DEF m
  <2>4. SubSeq(s, 1, m) \o SubSeq(s, m + 1, Len(s)) = SubSeq(s, 1, Len(s))
    BY <2>3, ConcatAdjacentSubSeq
  <2>1. SubSeq(s, 1, i - 1) \o SubSeq(s, i - 1 + 1, Len(s)) = SubSeq(s, 1, Len(s))
    BY <2>4 DEF m
  <2>2. i - 1 + 1 = i
    BY <1>1
  <2> QED BY <2>1, <2>2
<1>7. <<s[i]>> \in Seq(S)
  BY <1>1
<1> QED BY <1>1, <1>2, <1>3, <1>4, <1>5, <1>6, <1>7, SubSeqFull

LEMMA ElementsOfConcat ==
  ASSUME NEW S, NEW s \in Seq(S), NEW t \in Seq(S)
  PROVE  ElementsOf(s \o t) = ElementsOf(s) \cup ElementsOf(t)
<1>1. /\ Len(s) \in Nat /\ Len(t) \in Nat /\ Len(s \o t) = Len(s) + Len(t)
      /\ DOMAIN s = 1..Len(s) /\ DOMAIN t = 1..Len(t) /\ DOMAIN (s \o t) = 1..(Len(s) + Len(t))
      /\ \A k \in 1..(Len(s) + Len(t)) : (s \o t)[k] = IF k <= Len(s) THEN s[k] ELSE t[k - Len(s)]
  BY ConcatProperties, LenProperties
<1>2. ASSUME NEW k \in 1..(Len(s) + Len(t)) PROVE (s \o t)[k] \in ElementsOf(s) \cup ElementsOf(t)
  BY <1>1 DEF ElementsOf
<1>3. ASSUME NEW k \in 1..Len(s) PROVE s[k] \in ElementsOf(s \o t)
  BY <1>1 DEF ElementsOf
<1>4. ASSUME NEW k \in 1..Len(t) PROVE t[k] \in ElementsOf(s \o t)
  <2>1. k + Len(s) \in 1..(Len(s) + Len(t)) /\ (s \o t)[k + Len(s)] = t[k]
    BY <1>1
  <2> QED BY <1>1, <2>1 DEF ElementsOf
<1> QED BY <1>1, <1>2, <1>3, <1>4 DEF ElementsOf

LEMMA ElementsOfOne ==
  ASSUME NEW e PROVE ElementsOf(<<e>>) = {e}
<1>1. DOMAIN <<e>> = {1} /\ <<e>>[1] = e
  OBVIOUS
<1> QED BY <1>1 DEF ElementsOf

\* Of a sequence without repetitions the parts are apart.
LEMMA DistinctParts ==
  ASSUME NEW S, NEW s \in Seq(S), NEW t \in Seq(S)
  PROVE  Distinct(s \o t) <=>
           Distinct(s) /\ Distinct(t) /\ ElementsOf(s) \cap ElementsOf(t) = {}
<1>1. /\ Len(s) \in Nat /\ Len(t) \in Nat /\ Len(s \o t) = Len(s) + Len(t)
      /\ DOMAIN s = 1..Len(s) /\ DOMAIN t = 1..Len(t) /\ DOMAIN (s \o t) = 1..(Len(s) + Len(t))
      /\ \A k \in 1..(Len(s) + Len(t)) : (s \o t)[k] = IF k <= Len(s) THEN s[k] ELSE t[k - Len(s)]
  BY ConcatProperties, LenProperties
<1>2. \A k \in 1..Len(t) : (s \o t)[Len(s) + k] = t[k] /\ Len(s) + k \in DOMAIN (s \o t)
  BY <1>1
<1>3. ASSUME Distinct(s \o t) PROVE Distinct(s)
  BY <1>1, <1>3 DEF Distinct
<1>4. ASSUME Distinct(s \o t) PROVE Distinct(t)
  <2> SUFFICES ASSUME NEW j \in 1..Len(t), NEW k \in 1..Len(t), t[j] = t[k] PROVE j = k
    BY <1>1 DEF Distinct
  <2>1. Len(s) + j = Len(s) + k
    BY <1>2, <1>4 DEF Distinct
  <2> QED BY <1>1, <2>1
<1>5. ASSUME Distinct(s \o t), NEW j \in 1..Len(s), NEW k \in 1..Len(t), s[j] = t[k] PROVE FALSE
  <2>1. j # Len(s) + k
    BY <1>1
  <2>2. (s \o t)[j] = (s \o t)[Len(s) + k]
    BY <1>1, <1>2, <1>5
  <2>3. j \in DOMAIN (s \o t) /\ Len(s) + k \in DOMAIN (s \o t)
    BY <1>1, <1>2
  <2> QED BY <1>5, <2>1, <2>2, <2>3 DEF Distinct
<1>6. ASSUME Distinct(s), Distinct(t), ElementsOf(s) \cap ElementsOf(t) = {},
             NEW j \in 1..(Len(s) + Len(t)), NEW k \in 1..(Len(s) + Len(t)),
             (s \o t)[j] = (s \o t)[k]
      PROVE  j = k
  <2>1. CASE j <= Len(s) /\ k <= Len(s)
    BY <1>1, <1>6, <2>1 DEF Distinct
  <2>2. CASE j > Len(s) /\ k > Len(s)
    <3>1. j - Len(s) \in DOMAIN t /\ k - Len(s) \in DOMAIN t /\ t[j - Len(s)] = t[k - Len(s)]
      BY <1>1, <1>6, <2>2
    <3>2. j - Len(s) = k - Len(s)
      BY <1>6, <3>1 DEF Distinct
    <3> QED BY <1>1, <3>2
  <2>3. CASE j <= Len(s) /\ k > Len(s)
    <3>1. j \in DOMAIN s /\ k - Len(s) \in DOMAIN t /\ s[j] = t[k - Len(s)]
      BY <1>1, <1>6, <2>3
    <3> QED BY <1>6, <3>1 DEF ElementsOf
  <2>4. CASE j > Len(s) /\ k <= Len(s)
    <3>1. k \in DOMAIN s /\ j - Len(s) \in DOMAIN t /\ s[k] = t[j - Len(s)]
      BY <1>1, <1>6, <2>4
    <3> QED BY <1>6, <3>1 DEF ElementsOf
  <2> QED BY <1>1, <2>1, <2>2, <2>3, <2>4
<1>7. ASSUME Distinct(s), Distinct(t), ElementsOf(s) \cap ElementsOf(t) = {} PROVE Distinct(s \o t)
  BY <1>1, <1>6, <1>7 DEF Distinct
<1>8. ASSUME Distinct(s \o t) PROVE ElementsOf(s) \cap ElementsOf(t) = {}
  BY <1>1, <1>5, <1>8 DEF ElementsOf
<1> QED BY <1>3, <1>4, <1>7, <1>8

\* The parts of p, x and q, one after the other.
LEMMA ThreeParts ==
  ASSUME NEW S, NEW x \in S, NEW p \in Seq(S), NEW q \in Seq(S), NEW r, r = p \o (<<x>> \o q)
  PROVE  /\ <<x>> \in Seq(S) /\ <<x>> \o q \in Seq(S) /\ p \o <<x>> \in Seq(S) /\ r \in Seq(S)
         /\ r = (p \o <<x>>) \o q /\ p \o <<x>> = Append(p, x)
         /\ Len(r) = Len(p) + Len(q) + 1 /\ r[Len(p) + 1] = x
         /\ \A k \in 1..Len(p) : r[k] = p[k]
         /\ \A k \in 1..Len(q) : r[Len(p) + 1 + k] = q[k]
<1> DEFINE y == <<x>> \o q
<1>1. <<x>> \in Seq(S) /\ Len(<<x>>) = 1 /\ <<x>>[1] = x /\ Len(p) \in Nat /\ Len(q) \in Nat
  BY LenProperties
<1>2. /\ y \in Seq(S) /\ Len(y) = Len(q) + 1 /\ y[1] = x
      /\ \A k \in 1..Len(q) : y[1 + k] = q[k]
  <2>1. /\ y \in Seq(S) /\ Len(y) = 1 + Len(q)
        /\ \A k \in 1..(1 + Len(q)) : y[k] = IF k <= 1 THEN <<x>>[k] ELSE q[k - 1]
    BY <1>1, ConcatProperties
  <2> HIDE DEF y
  <2> QED BY <1>1, <2>1
<1>3. r = p \o y /\ p \o <<x>> \in Seq(S) /\ p \o <<x>> = Append(p, x) /\ r = (p \o <<x>>) \o q
  BY <1>1, ConcatAssociative, ConcatProperties
<1> HIDE DEF y
<1>4. /\ r \in Seq(S) /\ Len(r) = Len(p) + Len(y)
      /\ \A k \in 1..(Len(p) + Len(y)) : r[k] = IF k <= Len(p) THEN p[k] ELSE y[k - Len(p)]
  <2>1. /\ p \o y \in Seq(S) /\ Len(p \o y) = Len(p) + Len(y)
        /\ \A k \in 1..(Len(p) + Len(y)) : (p \o y)[k] = IF k <= Len(p) THEN p[k] ELSE y[k - Len(p)]
    BY <1>2, ConcatProperties
  <2> QED BY <1>3, <2>1
<1>5. \A k \in 1..Len(q) : r[Len(p) + 1 + k] = q[k]
  <2> TAKE k \in 1..Len(q)
  <2> DEFINE j == Len(p) + 1 + k
  <2>1. j \in 1..(Len(p) + Len(y)) /\ ~(j <= Len(p)) /\ j - Len(p) = 1 + k
    BY <1>1, <1>2
  <2> HIDE DEF j
  <2>2. r[j] = y[1 + k]
    BY <1>4, <2>1
  <2> QED BY <1>2, <2>2 DEF j
<1>6. r[Len(p) + 1] = x /\ \A k \in 1..Len(p) : r[k] = p[k]
  BY <1>1, <1>2, <1>4
<1>7. Len(r) = Len(p) + Len(q) + 1
  BY <1>1, <1>2, <1>4
<1> QED BY <1>1, <1>2, <1>3, <1>4, <1>5, <1>6, <1>7 DEF y

\* There is one place for each element.
LEMMA OneSplit ==
  ASSUME NEW S, NEW x \in S, NEW a \in Seq(S), NEW b \in Seq(S), NEW c \in Seq(S), NEW d \in Seq(S),
         Distinct(a \o (<<x>> \o b)), a \o (<<x>> \o b) = c \o (<<x>> \o d)
  PROVE  a = c /\ b = d
<1> DEFINE s == a \o (<<x>> \o b)
<1>1. Distinct(s) /\ s = c \o (<<x>> \o d)
  OBVIOUS
<1>2. /\ Len(a) \in Nat /\ Len(b) \in Nat /\ Len(c) \in Nat /\ Len(d) \in Nat
      /\ s \in Seq(S) /\ DOMAIN s = 1..Len(s)
  BY LenProperties, ThreeParts
<1>3. /\ Len(s) = Len(a) + Len(b) + 1 /\ s[Len(a) + 1] = x
      /\ \A k \in 1..Len(a) : s[k] = a[k]
      /\ \A k \in 1..Len(b) : s[Len(a) + 1 + k] = b[k]
  BY ThreeParts
<1> HIDE DEF s
<1>4. /\ Len(s) = Len(c) + Len(d) + 1 /\ s[Len(c) + 1] = x
      /\ \A k \in 1..Len(c) : s[k] = c[k]
      /\ \A k \in 1..Len(d) : s[Len(c) + 1 + k] = d[k]
  <2> DEFINE z == c \o (<<x>> \o d)
  <2>1. /\ Len(z) = Len(c) + Len(d) + 1 /\ z[Len(c) + 1] = x
        /\ \A k \in 1..Len(c) : z[k] = c[k]
        /\ \A k \in 1..Len(d) : z[Len(c) + 1 + k] = d[k]
    BY ThreeParts
  <2> QED BY <1>1, <2>1
<1>5. Len(a) + 1 = Len(c) + 1
  <2>1. Len(a) + 1 \in DOMAIN s /\ Len(c) + 1 \in DOMAIN s
    BY <1>2, <1>3, <1>4
  <2> QED BY <1>1, <1>3, <1>4, <2>1 DEF Distinct
<1>6. Len(a) = Len(c) /\ Len(b) = Len(d)
  BY <1>2, <1>3, <1>4, <1>5
<1>7. a = c
  <2>1. \A k \in 1..Len(a) : a[k] = c[k]
    BY <1>3, <1>4, <1>6
  <2> QED BY <1>6, <2>1, SeqEqual
<1>8. b = d
  <2>1. \A k \in 1..Len(b) : b[k] = d[k]
    BY <1>3, <1>4, <1>6
  <2> QED BY <1>6, <2>1, SeqEqual
<1> QED BY <1>7, <1>8

LEMMA KeepWhole ==
  ASSUME NEW S, NEW s \in Seq(S), NEW T, ElementsOf(s) \subseteq T
  PROVE  Keep(s, T) = s
<1> DEFINE P == {t \in Seq(S) : Keep(t, ElementsOf(t)) = t}
<1>1. <<>> \in P
  BY KeepEmpty, EmptySeq
<1>2. ASSUME NEW t \in Seq(S), t \in P, NEW e \in S PROVE Append(t, e) \in P
  <2>1. ElementsOf(Append(t, e)) = ElementsOf(t) \cup {e}
    BY ElementsOfAppend
  <2> DEFINE U == ElementsOf(t) \cup {e}
  <2>2. e \in U /\ Keep(t, U) = Keep(t, ElementsOf(t))
    BY KeepSame
  <2>3. ElementsOf(Append(t, e)) = U
    BY <2>1
  <2> HIDE DEF U
  <2>4. Keep(Append(t, e), U) = Append(Keep(t, U), e)
    BY <2>2, KeepAppend
  <2>5. Keep(Append(t, e), ElementsOf(Append(t, e))) = Append(t, e)
    BY <1>2, <2>2, <2>3, <2>4
  <2> QED BY <2>5
<1>3. Seq(S) \subseteq P
  <2> HIDE DEF P
  <2> QED BY <1>1, <1>2, SeqInduction
<1>4. Keep(s, ElementsOf(s)) = s
  BY <1>3
<1> QED BY <1>4, KeepSame

\* What is left of a sequence without repetitions is a subsequence of it.
LEMMA EndsAreKept ==
  ASSUME NEW S, NEW u \in Seq(S), NEW v \in Seq(S), NEW w \in Seq(S), Distinct(u \o (v \o w))
  PROVE  IsSubsequence(u \o w, u \o (v \o w))
<1> DEFINE T == ElementsOf(u \o w)
<1>1. v \o w \in Seq(S) /\ u \o w \in Seq(S)
  BY ConcatProperties
<1>2. /\ T = ElementsOf(u) \cup ElementsOf(w)
      /\ ElementsOf(v \o w) = ElementsOf(v) \cup ElementsOf(w)
  BY ElementsOfConcat
<1>3. /\ Distinct(v \o w) /\ ElementsOf(u) \cap ElementsOf(v \o w) = {}
      /\ ElementsOf(v) \cap ElementsOf(w) = {}
  BY <1>1, DistinctParts
<1> HIDE DEF T
<1>4. Keep(u, T) = u /\ Keep(w, T) = w
  BY <1>2, KeepWhole
<1>5. Keep(v, T) = <<>>
  BY <1>2, <1>3, KeepNone
<1>6. Keep(v \o w, T) = w
  <2>1. Keep(v \o w, T) = Keep(v, T) \o Keep(w, T)
    BY KeepConcat
  <2> QED BY <1>4, <1>5, <2>1, ConcatEmptySeq
<1>7. Keep(u \o (v \o w), T) = u \o w
  <2>1. Keep(u \o (v \o w), T) = Keep(u, T) \o Keep(v \o w, T)
    BY <1>1, KeepConcat
  <2> QED BY <1>4, <1>6, <2>1
<1>8. ToSet(u \o w) = T
  BY DEF ToSet, ElementsOf, T
<1> QED BY <1>7, <1>8 DEF IsSubsequence

LEMMA EndIsKept ==
  ASSUME NEW S, NEW v \in Seq(S), NEW w \in Seq(S), Distinct(v \o w)
  PROVE  IsSubsequence(w, v \o w)
<1>1. <<>> \in Seq(S) /\ v \o w \in Seq(S) /\ <<>> \o w = w /\ <<>> \o (v \o w) = v \o w
  BY EmptySeq, ConcatEmptySeq, ConcatProperties
<1> QED BY <1>1, EndsAreKept

LEMMA AllIsKept ==
  ASSUME NEW S, NEW w \in Seq(S)
  PROVE  IsSubsequence(w, w)
<1>1. ToSet(w) = ElementsOf(w)
  BY DEF ToSet, ElementsOf
<1> QED BY <1>1, KeepWhole DEF IsSubsequence

-----------------------------------------------------------------------------
(* The messages of a path. *)

Spoken == {e \in Entry : Speaks(e)}
TreeIds(s) == [k \in DOMAIN s |-> s[k].id]

LEMMA MessagesAre ==
  ASSUME NEW p \in Seq(Entry)
  PROVE  Messages(p) = TreeIds(Keep(p, Spoken))
<1> DEFINE T == {e \in ToSet(p) : Speaks(e)}
<1>1. ToSet(p) = ElementsOf(p) /\ ElementsOf(p) \subseteq Entry
  BY LenProperties, ElementOfSeq DEF ToSet, ElementsOf
<1>2. T \cap ElementsOf(p) = Spoken \cap ElementsOf(p)
  BY <1>1 DEF Spoken
<1>3. Keep(p, T) = Keep(p, Spoken)
  <2> HIDE DEF T
  <2> QED BY <1>2, KeepSame
<1>4. Keep(p, T) = Keep(p, Spoken)
  BY <1>3
<1> QED BY <1>4 DEF Messages, TreeIds

LEMMA IdType ==
  ASSUME NEW e \in Entry, MaxIds \in Nat
  PROVE  e.id \in Nat /\ e.parent \in Nat /\ e.kept \in Nat /\ e.id \in 1..MaxIds
BY DEF Entry

LEMMA TreeIdsAppend ==
  ASSUME NEW s \in Seq(Entry), NEW e \in Entry
  PROVE  TreeIds(Append(s, e)) = Append(TreeIds(s), e.id)
<1>1. /\ Len(s) \in Nat /\ DOMAIN s = 1..Len(s) /\ DOMAIN Append(s, e) = 1..(Len(s) + 1)
      /\ Append(s, e)[Len(s) + 1] = e /\ \A k \in 1..Len(s) : Append(s, e)[k] = s[k]
  BY LenProperties
<1>2. TreeIds(s) = [k \in 1..Len(s) |-> s[k].id]
  BY <1>1 DEF TreeIds
<1>3. TreeIds(Append(s, e)) = [k \in 1..(Len(s) + 1) |-> Append(s, e)[k].id]
  BY <1>1 DEF TreeIds
<1>4. /\ Len(TreeIds(s)) = Len(s)
      /\ Append(TreeIds(s), e.id)
          = [k \in 1..(Len(s) + 1) |-> IF k = Len(s) + 1 THEN e.id ELSE s[k].id]
  BY <1>1, <1>2
<1> QED BY <1>1, <1>3, <1>4

LEMMA MessagesAppend ==
  ASSUME NEW p \in Seq(Entry), NEW e \in Entry
  PROVE  Messages(Append(p, e)) =
           IF Speaks(e) THEN Append(Messages(p), e.id)
           ELSE Messages(p)
<1>1. Append(p, e) \in Seq(Entry)
  OBVIOUS
<1>2. Keep(p, Spoken) \in Seq(Entry)
  BY KeepType
<1>3. e \in Spoken <=> Speaks(e)
  BY DEF Spoken
<1>4. Keep(Append(p, e), Spoken)
      = IF e \in Spoken THEN Append(Keep(p, Spoken), e) ELSE Keep(p, Spoken)
  BY KeepAppend
<1>5. TreeIds(Append(Keep(p, Spoken), e)) = Append(TreeIds(Keep(p, Spoken)), e.id)
  BY <1>2, TreeIdsAppend
<1>6. Messages(Append(p, e)) = TreeIds(Keep(Append(p, e), Spoken))
  BY <1>1, MessagesAre
<1>7. Messages(p) = TreeIds(Keep(p, Spoken))
  BY MessagesAre
<1> QED BY <1>3, <1>4, <1>5, <1>6, <1>7

LEMMA MessagesEmpty == Messages(<<>>) = <<>>
<1>1. <<>> \in Seq(Entry)
  BY EmptySeq
<1>2. TreeIds(<<>>) = <<>>
  BY DEF TreeIds
<1> QED BY <1>1, <1>2, MessagesAre, KeepEmpty

LEMMA MessagesType ==
  ASSUME MaxIds \in Nat, NEW p \in Seq(Entry)
  PROVE  Messages(p) \in Seq(Nat)
<1> DEFINE P == {q \in Seq(Entry) : Messages(q) \in Seq(Nat)}
<1>1. <<>> \in P
  BY MessagesEmpty, EmptySeq
<1>2. ASSUME NEW q \in Seq(Entry), q \in P, NEW e \in Entry
      PROVE  Append(q, e) \in P
  <2>1. e.id \in Nat
    BY IdType
  <2> DEFINE m == Messages(q)
  <2>2. m \in Seq(Nat)
    BY <1>2
  <2>3. Messages(Append(q, e)) \in {m, Append(m, e.id)}
    BY MessagesAppend
  <2> HIDE DEF m
  <2>4. Append(m, e.id) \in Seq(Nat)
    BY <2>1, <2>2
  <2>5. Messages(Append(q, e)) \in Seq(Nat)
    BY <2>2, <2>3, <2>4
  <2>6. Append(q, e) \in Seq(Entry)
    OBVIOUS
  <2> QED BY <2>5, <2>6
<1>3. Seq(Entry) \subseteq P
  <2> HIDE DEF P
  <2> QED BY <1>1, <1>2, SeqInduction
<1> QED BY <1>3

LEMMA MessagesConcat ==
  ASSUME MaxIds \in Nat, NEW p \in Seq(Entry), NEW q \in Seq(Entry)
  PROVE  Messages(p \o q) = Messages(p) \o Messages(q)
<1> DEFINE P == {r \in Seq(Entry) :
                   Messages(p \o r)
                   = Messages(p) \o Messages(r)}
<1>1. <<>> \in P
  <2>1. p \o <<>> = p /\ Messages(p) \o <<>> = Messages(p)
    BY ConcatEmptySeq, MessagesType
  <2> QED BY <2>1, MessagesEmpty, EmptySeq
<1>2. ASSUME NEW r \in Seq(Entry), r \in P, NEW e \in Entry
      PROVE  Append(r, e) \in P
  <2>1. p \o Append(r, e) = Append(p \o r, e) /\ p \o r \in Seq(Entry)
    BY AppendLater
  <2>2. Messages(p) \in Seq(Nat) /\ Messages(r) \in Seq(Nat) /\ e.id \in Nat
    BY MessagesType, IdType
  <2>3. Messages(p) \o Append(Messages(r), e.id)
        = Append(Messages(p) \o Messages(r), e.id)
    <3>1. \A a, b \in Seq(Nat), n \in Nat : a \o Append(b, n) = Append(a \o b, n)
      BY AppendLater
    <3> QED BY <2>2, <3>1, Zenon
  <2>4. Messages(p \o Append(r, e))
        = Messages(p) \o Messages(Append(r, e))
    BY <1>2, <2>1, <2>3, MessagesAppend
  <2> QED BY <2>4
<1>3. Seq(Entry) \subseteq P
  <2> HIDE DEF P
  <2> QED BY <1>1, <1>2, SeqInduction
<1> QED BY <1>3

-----------------------------------------------------------------------------
(* What is told. *)

\* Sequences of ids, put together.
IdSeqs == Seq(Nat)
Cat(u, v) == u \o v
One(x) == <<x>>

LEMMA CatTypes ==
  /\ <<>> \in IdSeqs
  /\ \A x \in Nat : One(x) \in IdSeqs
  /\ \A u, v \in IdSeqs : Cat(u, v) \in IdSeqs
<1>1. <<>> \in IdSeqs
  BY EmptySeq DEF IdSeqs
<1>2. \A x \in Nat : One(x) \in IdSeqs
  BY DEF IdSeqs, One
<1>3. \A u, v \in IdSeqs : Cat(u, v) \in IdSeqs
  BY ConcatProperties DEF IdSeqs, Cat
<1> QED BY <1>1, <1>2, <1>3

LEMMA CatEmpty == \A u \in IdSeqs : Cat(<<>>, u) = u /\ Cat(u, <<>>) = u
BY ConcatEmptySeq DEF IdSeqs, Cat

LEMMA CatGroup == \A u, v, w \in IdSeqs : Cat(u, Cat(v, w)) = Cat(Cat(u, v), w)
<1> DEFINE S == Nat
<1>1. IdSeqs = Seq(S)
  BY DEF IdSeqs
<1> HIDE DEF S
<1> QED BY <1>1, ConcatAssociative DEF Cat

LEMMA CatAppend == \A u \in IdSeqs : \A x \in Nat : Append(u, x) = Cat(u, One(x))
BY DEF IdSeqs, Cat, One

LEMMA CatElements ==
  /\ ElementsOf(<<>>) = {} /\ Distinct(<<>>)
  /\ \A x \in Nat : ElementsOf(One(x)) = {x} /\ Distinct(One(x))
  /\ \A u, v \in IdSeqs : ElementsOf(Cat(u, v)) = ElementsOf(u) \cup ElementsOf(v)
  /\ \A u, v \in IdSeqs :
       Distinct(Cat(u, v)) <=> Distinct(u) /\ Distinct(v) /\ ElementsOf(u) \cap ElementsOf(v) = {}
<1>1. \A x \in Nat : ElementsOf(One(x)) = {x} /\ Distinct(One(x))
  <2> TAKE x \in Nat
  <2>1. DOMAIN <<x>> = {1}
    OBVIOUS
  <2>2. Distinct(One(x))
    BY <2>1 DEF Distinct, One
  <2> QED BY <2>2, ElementsOfOne DEF One
<1>2. \A u, v \in IdSeqs : ElementsOf(Cat(u, v)) = ElementsOf(u) \cup ElementsOf(v)
  BY ElementsOfConcat DEF IdSeqs, Cat
<1>3. \A u, v \in IdSeqs :
        Distinct(Cat(u, v)) <=> Distinct(u) /\ Distinct(v) /\ ElementsOf(u) \cap ElementsOf(v) = {}
  BY DistinctParts DEF IdSeqs, Cat
<1> QED BY <1>1, <1>2, <1>3, EmptyIsDistinct

\* What comes behind an element is the same, however it was found.
LEMMA SameRest ==
  \A x \in Nat : \A a, b, c, d \in IdSeqs :
    Distinct(Cat(a, Cat(One(x), b))) /\ Cat(a, Cat(One(x), b)) = Cat(c, Cat(One(x), d)) => b = d
<1> DEFINE S == Nat
<1>1. IdSeqs = Seq(S)
  BY DEF IdSeqs
<1>2. ASSUME NEW x \in S, NEW a \in Seq(S), NEW b \in Seq(S), NEW c \in Seq(S), NEW d \in Seq(S),
             Distinct(a \o (<<x>> \o b)), a \o (<<x>> \o b) = c \o (<<x>> \o d)
      PROVE  b = d
  <2> HIDE DEF S
  <2> QED BY <1>2, OneSplit
<1>3. ASSUME NEW x \in S, NEW a \in IdSeqs, NEW b \in IdSeqs, NEW c \in IdSeqs, NEW d \in IdSeqs,
             Distinct(Cat(a, Cat(One(x), b))), Cat(a, Cat(One(x), b)) = Cat(c, Cat(One(x), d))
      PROVE  b = d
  <2> HIDE DEF S
  <2>1. /\ a \in Seq(S) /\ b \in Seq(S) /\ c \in Seq(S) /\ d \in Seq(S)
        /\ Distinct(a \o (<<x>> \o b)) /\ a \o (<<x>> \o b) = c \o (<<x>> \o d)
    BY <1>1, <1>3 DEF Cat, One
  <2> QED BY <1>2, <2>1
<1> QED BY <1>3

LEMMA CatIsKept ==
  \A u, v, w \in IdSeqs :
    Distinct(Cat(u, Cat(v, w))) => IsSubsequence(Cat(u, w), Cat(u, Cat(v, w)))
BY EndsAreKept DEF IdSeqs, Cat

PlaceOf(s, x) == SelectInSeq(s, LAMBDA i : i = x)

LEMMA PlaceOfOne ==
  ASSUME NEW s \in IdSeqs, Distinct(s), NEW x
  PROVE  /\ x \notin ElementsOf(s) => PlaceOf(s, x) = 0
         /\ x \in ElementsOf(s) => PlaceOf(s, x) \in 1..Len(s) /\ s[PlaceOf(s, x)] = x
<1> DEFINE I == {i \in 1..Len(s) : s[i] = x}
<1>1. Len(s) \in Nat /\ DOMAIN s = 1..Len(s)
  BY LenProperties DEF IdSeqs
<1>2. PlaceOf(s, x) = IF I # {} THEN Min(I) ELSE 0
  BY DEF PlaceOf, SelectInSeq
<1>3. CASE x \notin ElementsOf(s)
  <2>1. I = {}
    BY <1>1, <1>3 DEF ElementsOf
  <2> QED BY <1>2, <1>3, <2>1
<1>4. CASE x \in ElementsOf(s)
  <2>1. PICK k \in 1..Len(s) : s[k] = x
    BY <1>1, <1>4 DEF ElementsOf
  <2>2. I = {k}
    BY <1>1, <2>1 DEF Distinct
  <2>3. Min({k}) = k
    BY <1>1, <2>1 DEF Min
  <2> QED BY <1>2, <1>4, <2>1, <2>2, <2>3
<1> QED BY <1>3, <1>4

\* A sequence from an element on.
From(s, x) == SubSeq(s, PlaceOf(s, x), Len(s))

LEMMA FromPlace ==
  \A s \in IdSeqs : Distinct(s) => \A x \in ElementsOf(s) :
    /\ PlaceOf(s, x) # 0 /\ x \in Nat
    /\ \E p, d \in IdSeqs : s = Cat(p, Cat(One(x), d)) /\ From(s, x) = Cat(One(x), d)
<1> SUFFICES ASSUME NEW s \in IdSeqs, Distinct(s), NEW x \in ElementsOf(s)
             PROVE  /\ PlaceOf(s, x) # 0 /\ x \in Nat
                    /\ \E p, d \in IdSeqs : s = Cat(p, Cat(One(x), d)) /\ From(s, x) = Cat(One(x), d)
  OBVIOUS
<1> DEFINE k == PlaceOf(s, x)
           p == SubSeq(s, 1, k - 1)
           d == SubSeq(s, k + 1, Len(s))
<1>1. k \in 1..Len(s) /\ s[k] = x
  BY PlaceOfOne
<1> HIDE DEF k
<1>2. s \in Seq(Nat) /\ Len(s) \in Nat
  BY LenProperties DEF IdSeqs
<1>3. /\ p \in Seq(Nat) /\ d \in Seq(Nat) /\ SubSeq(s, k, Len(s)) = <<s[k]>> \o d
      /\ s = p \o SubSeq(s, k, Len(s)) /\ s[k] \in Nat
  BY <1>1, <1>2, SplitAt
<1> HIDE DEF p, d
<1>4. p \in IdSeqs /\ d \in IdSeqs /\ s = Cat(p, Cat(One(x), d)) /\ SubSeq(s, k, Len(s)) = Cat(One(x), d)
  BY <1>1, <1>3 DEF IdSeqs, Cat, One
<1>5. k # 0 /\ x \in Nat
  BY <1>1, <1>2, <1>3
<1> QED BY <1>4, <1>5 DEF k, From

\* What a context has is the end of what was said, behind at most one summary.
Heads(r, i) == {<<>>} \cup {One(c) : c \in (1..i) \ ElementsOf(r.all)}
Fits(g, r, i) ==
  /\ r.all \in IdSeqs /\ Distinct(r.all) /\ ElementsOf(r.all) \subseteq 1..i
  /\ \A x \in ElementsOf(r.all) : Speaks(g[x])
  /\ r.model \in 0..i
  /\ \E h \in Heads(r, i) : \E u, v \in IdSeqs : r.all = Cat(u, v) /\ r.context = Cat(h, v)

LEMMA HeadsAre ==
  ASSUME NEW r, NEW i \in Nat, NEW h \in Heads(r, i)
  PROVE  /\ h \in IdSeqs /\ Distinct(h) /\ ElementsOf(h) \subseteq 1..i
         /\ ElementsOf(h) \cap ElementsOf(r.all) = {}
<1>1. CASE h = <<>>
  BY <1>1, CatElements, CatTypes
<1>2. ASSUME NEW c \in (1..i) \ ElementsOf(r.all), h = One(c) PROVE
        /\ h \in IdSeqs /\ Distinct(h) /\ ElementsOf(h) \subseteq 1..i
        /\ ElementsOf(h) \cap ElementsOf(r.all) = {}
  <2>1. c \in Nat /\ c \in 1..i /\ c \notin ElementsOf(r.all)
    OBVIOUS
  <2>2. h \in IdSeqs /\ ElementsOf(h) = {c} /\ Distinct(h)
    BY <1>2, <2>1, CatElements, CatTypes
  <2> QED BY <2>1, <2>2
<1> QED BY <1>1, <1>2 DEF Heads

LEMMA FitsMeans ==
  ASSUME NEW g, NEW r, NEW i \in Nat, Fits(g, r, i)
  PROVE  r.context \in IdSeqs /\ Distinct(r.context) /\ ElementsOf(r.context) \subseteq 1..i
<1>1. PICK h \in Heads(r, i), u \in IdSeqs, v \in IdSeqs :
             r.all = Cat(u, v) /\ r.context = Cat(h, v)
  BY DEF Fits
<1>2. /\ h \in IdSeqs /\ Distinct(h) /\ ElementsOf(h) \subseteq 1..i
      /\ ElementsOf(h) \cap ElementsOf(r.all) = {}
  BY HeadsAre
<1>3. Distinct(r.all) /\ ElementsOf(r.all) \subseteq 1..i
  BY DEF Fits
<1>4. Distinct(v) /\ ElementsOf(v) \subseteq ElementsOf(r.all)
  BY <1>1, <1>3, CatElements
<1>5. Cat(h, v) \in IdSeqs /\ ElementsOf(Cat(h, v)) = ElementsOf(h) \cup ElementsOf(v)
  BY <1>2, CatTypes, CatElements
<1>6. ElementsOf(h) \cap ElementsOf(v) = {}
  BY <1>2, <1>4
<1>7. Distinct(Cat(h, v))
  BY <1>2, <1>4, <1>6, CatElements
<1> QED BY <1>1, <1>2, <1>3, <1>4, <1>5, <1>7

\* What a compaction keeps is the same in what was said and in the context.
LEMMA KeptEnd ==
  ASSUME NEW g, NEW r, NEW i \in Nat, Fits(g, r, i), NEW x \in Nat, x \in ElementsOf(r.context),
         NEW a \in IdSeqs, NEW b \in IdSeqs, r.all = Cat(a, Cat(One(x), b))
  PROVE  PlaceOf(r.context, x) # 0 /\ From(r.context, x) = Cat(One(x), b)
<1>1. PICK h \in Heads(r, i), u \in IdSeqs, v \in IdSeqs :
             r.all = Cat(u, v) /\ r.context = Cat(h, v)
  BY DEF Fits
<1>2. h \in IdSeqs /\ ElementsOf(h) \cap ElementsOf(r.all) = {}
  BY HeadsAre
<1>3. Distinct(r.context) /\ Distinct(r.all) /\ r.context \in IdSeqs
  BY FitsMeans DEF Fits
<1>4. x \in ElementsOf(r.all)
  <2>1. One(x) \in IdSeqs /\ Cat(One(x), b) \in IdSeqs /\ ElementsOf(One(x)) = {x}
    BY CatTypes, CatElements
  <2>2. /\ ElementsOf(Cat(One(x), b)) = {x} \cup ElementsOf(b)
        /\ ElementsOf(Cat(a, Cat(One(x), b))) = ElementsOf(a) \cup ElementsOf(Cat(One(x), b))
    BY <2>1, CatElements
  <2> QED BY <2>2
<1>5. Distinct(v) /\ x \in ElementsOf(v)
  BY <1>1, <1>2, <1>3, <1>4, CatElements
<1>6. PICK p \in IdSeqs, d \in IdSeqs : v = Cat(p, Cat(One(x), d))
  BY <1>5, FromPlace
<1>7. Cat(One(x), d) \in IdSeqs /\ Cat(u, p) \in IdSeqs /\ Cat(h, p) \in IdSeqs
  BY <1>2, CatTypes
<1>8. r.all = Cat(Cat(u, p), Cat(One(x), d)) /\ r.context = Cat(Cat(h, p), Cat(One(x), d))
  BY <1>1, <1>2, <1>6, <1>7, CatGroup
<1>9. d = b
  BY <1>3, <1>7, <1>8, SameRest
<1>10. PICK q \in IdSeqs, e \in IdSeqs :
         r.context = Cat(q, Cat(One(x), e)) /\ From(r.context, x) = Cat(One(x), e)
  BY <1>3, FromPlace
<1>11. e = d
  <2>1. /\ Distinct(Cat(q, Cat(One(x), e)))
        /\ Cat(q, Cat(One(x), e)) = Cat(Cat(h, p), Cat(One(x), d))
    BY <1>3, <1>8, <1>10
  <2> QED BY <1>7, <2>1, SameRest
<1>12. PlaceOf(r.context, x) # 0
  BY <1>3, FromPlace
<1> QED BY <1>9, <1>10, <1>11, <1>12

LEMMA TellIs ==
  ASSUME NEW g, NEW r, NEW i \in Nat, Fits(g, r, i), NEW e \in Entry, MaxIds \in Nat
  PROVE  LET s == Tell(r, e) IN
         /\ s.all = IF Speaks(e) THEN Cat(r.all, One(e.id)) ELSE r.all
         /\ s.model = IF e.kind = "modelChange" THEN e.id ELSE r.model
         /\ Speaks(e) => s.context = Cat(r.context, One(e.id))
         /\ e.kind = "compaction" =>
              s.context = Cat(One(e.id), IF PlaceOf(r.context, e.kept) = 0 THEN <<>>
                                         ELSE From(r.context, e.kept))
         /\ e.kind = "emptyCompaction" => s.context = r.all
         /\ e.kind \in {"modelChange", "other"} => s.context = r.context
<1> DEFINE s == Tell(r, e)
           from == SelectInSeq(r.context, LAMBDA k : k = e.kept)
<1>1. e.id \in Nat /\ r.all \in IdSeqs /\ r.context \in IdSeqs
  BY FitsMeans, IdType DEF Fits
<1>2. /\ Append(r.all, e.id) = Cat(r.all, One(e.id))
      /\ Append(r.context, e.id) = Cat(r.context, One(e.id))
  BY <1>1, CatAppend
<1>3. e.kind \in {"message", "compaction", "emptyCompaction", "modelChange", "other"}
  BY DEF Entry, EntryKinds
<1>4. /\ s.all = IF Speaks(e) THEN Append(r.all, e.id) ELSE r.all
      /\ s.model = IF e.kind = "modelChange" THEN e.id ELSE r.model
  BY DEF Tell
<1>5. Speaks(e) => s.context = Append(r.context, e.id)
  BY DEF Tell, Speaks
<1>6. e.kind = "compaction" =>
        s.context = <<e.id>> \o (IF from = 0 THEN <<>> ELSE SubSeq(r.context, from, Len(r.context)))
  BY DEF Tell, Speaks
<1>7. e.kind = "emptyCompaction" => s.context = r.all
  BY DEF Tell, Speaks
<1>8. e.kind \in {"modelChange", "other"} => s.context = r.context
  BY DEF Tell, Speaks
<1>9. from = PlaceOf(r.context, e.kept)
  BY DEF PlaceOf
<1> HIDE DEF s, from
<1>10. e.kind = "compaction" =>
         s.context = Cat(One(e.id), IF PlaceOf(r.context, e.kept) = 0 THEN <<>>
                                    ELSE From(r.context, e.kept))
  BY <1>6, <1>9 DEF Cat, One, From
<1> QED BY <1>2, <1>4, <1>5, <1>7, <1>8, <1>10 DEF s

\* An entry with a new id is told of as those before it.
LEMMA TellFits ==
  ASSUME MaxIds \in Nat, NEW g, NEW r, NEW i \in Nat, Fits(g, r, i), NEW e \in Entry,
         i < e.id, g[e.id] = e,
         e.kind = "compaction" /\ e.kept # 0 =>
           e.kept \in ElementsOf(r.context) /\ e.kept \in ElementsOf(r.all)
  PROVE  Fits(g, Tell(r, e), e.id)
<1> DEFINE s == Tell(r, e)
           id == e.id
<1>1. PICK h \in Heads(r, i), u \in IdSeqs, v \in IdSeqs :
             r.all = Cat(u, v) /\ r.context = Cat(h, v)
  BY DEF Fits
<1>2. /\ r.all \in IdSeqs /\ Distinct(r.all) /\ ElementsOf(r.all) \subseteq 1..i
      /\ (\A x \in ElementsOf(r.all) : Speaks(g[x])) /\ r.model \in 0..i
  BY DEF Fits
<1>3. id \in Nat /\ i < id /\ e.kept \in Nat
  BY IdType
<1>4. h \in IdSeqs
  BY HeadsAre
<1>5. e.kind \in {"message", "compaction", "emptyCompaction", "modelChange", "other"}
  BY DEF Entry, EntryKinds
<1>6. /\ s.all = IF Speaks(e) THEN Cat(r.all, One(id)) ELSE r.all
      /\ s.model = IF e.kind = "modelChange" THEN id ELSE r.model
      /\ Speaks(e) => s.context = Cat(r.context, One(id))
      /\ e.kind = "compaction" =>
           s.context = Cat(One(id), IF PlaceOf(r.context, e.kept) = 0 THEN <<>>
                                    ELSE From(r.context, e.kept))
      /\ e.kind = "emptyCompaction" => s.context = r.all
      /\ e.kind \in {"modelChange", "other"} => s.context = r.context
  BY TellIs
<1>7. Speaks(e) <=> e.kind = "message"
  BY DEF Speaks
<1> HIDE DEF s, id
<1>8. s.model \in 0..id
  BY <1>2, <1>3, <1>6
<1>9. id \notin ElementsOf(r.all)
  BY <1>2, <1>3
<1>10. CASE e.kind = "message"
  <2>1. /\ One(id) \in IdSeqs /\ ElementsOf(One(id)) = {id} /\ Distinct(One(id))
        /\ Cat(v, One(id)) \in IdSeqs
    BY <1>3, CatTypes, CatElements
  <2>2. s.all = Cat(r.all, One(id)) /\ s.context = Cat(r.context, One(id))
    BY <1>6, <1>7, <1>10
  <2>3. s.all = Cat(u, Cat(v, One(id))) /\ s.context = Cat(h, Cat(v, One(id)))
    BY <1>1, <1>4, <2>1, <2>2, CatGroup
  <2>4. s.all \in IdSeqs /\ ElementsOf(s.all) = ElementsOf(r.all) \cup {id}
    <3>1. Cat(r.all, One(id)) \in IdSeqs
      BY <1>2, <2>1, CatTypes
    <3>2. ElementsOf(Cat(r.all, One(id))) = ElementsOf(r.all) \cup ElementsOf(One(id))
      BY <1>2, <2>1, CatElements
    <3> QED BY <2>1, <2>2, <3>1, <3>2
  <2>5. Distinct(s.all)
    <3>1. ElementsOf(r.all) \cap ElementsOf(One(id)) = {}
      BY <1>9, <2>1
    <3> QED BY <1>2, <2>1, <2>2, <3>1, CatElements
  <2>6. ElementsOf(s.all) \subseteq 1..id /\ \A x \in ElementsOf(s.all) : Speaks(g[x])
    BY <1>2, <1>3, <1>7, <1>10, <2>4 DEF id
  <2>7. h \in Heads(s, id)
    <3>1. \A c \in (1..i) \ ElementsOf(r.all) : c \in (1..id) \ ElementsOf(s.all)
      BY <1>3, <2>4
    <3> QED BY <3>1 DEF Heads
  <2> QED BY <1>8, <2>1, <2>3, <2>4, <2>5, <2>6, <2>7 DEF Fits, s, id
<1>11. ASSUME e.kind # "message", NEW hs \in Heads(s, id), NEW us \in IdSeqs, NEW vs \in IdSeqs,
              r.all = Cat(us, vs), s.context = Cat(hs, vs)
       PROVE  Fits(g, s, id)
  <2>1. s.all = r.all
    BY <1>6, <1>7, <1>11
  <2>2. ElementsOf(s.all) \subseteq 1..id
    BY <1>2, <1>3, <2>1
  <2> QED BY <1>2, <1>8, <1>11, <2>1, <2>2 DEF Fits
<1>12. e.kind # "message" => s.all = r.all
  BY <1>6, <1>7
<1>13. CASE e.kind = "compaction" /\ e.kept = 0
  <2>1. 0 \notin ElementsOf(r.context) /\ r.context \in IdSeqs /\ Distinct(r.context)
    <3>1. ElementsOf(r.context) \subseteq 1..i
      BY FitsMeans
    <3> QED BY <3>1, FitsMeans
  <2>2. s.context = Cat(One(id), <<>>)
    BY <1>6, <1>13, <2>1, PlaceOfOne
  <2>3. One(id) \in Heads(s, id)
    BY <1>3, <1>9, <1>12, <1>13 DEF Heads
  <2>4. <<>> \in IdSeqs /\ r.all = Cat(r.all, <<>>)
    BY <1>2, CatTypes, CatEmpty
  <2> QED BY <1>2, <1>11, <1>13, <2>2, <2>3, <2>4 DEF s, id
<1>14. CASE e.kind = "compaction" /\ e.kept # 0
  <2>1. e.kept \in ElementsOf(r.context) /\ e.kept \in ElementsOf(r.all)
    BY <1>14
  <2>2. PICK a \in IdSeqs, b \in IdSeqs : r.all = Cat(a, Cat(One(e.kept), b))
    BY <1>2, <2>1, FromPlace
  <2>3. PlaceOf(r.context, e.kept) # 0 /\ From(r.context, e.kept) = Cat(One(e.kept), b)
    BY <1>3, <2>1, <2>2, KeptEnd
  <2>4. s.context = Cat(One(id), Cat(One(e.kept), b))
    BY <1>6, <1>14, <2>3
  <2>5. One(id) \in Heads(s, id)
    BY <1>3, <1>9, <1>12, <1>14 DEF Heads
  <2>6. Cat(One(e.kept), b) \in IdSeqs
    BY <1>3, CatTypes
  <2> QED BY <1>11, <1>14, <2>2, <2>4, <2>5, <2>6 DEF s, id
<1>15. CASE e.kind = "emptyCompaction"
  <2>1. <<>> \in Heads(s, id) /\ <<>> \in IdSeqs /\ r.all = Cat(<<>>, r.all)
    BY <1>2, CatTypes, CatEmpty DEF Heads
  <2>2. s.context = Cat(<<>>, r.all)
    BY <1>6, <1>15, <2>1
  <2> QED BY <1>2, <1>11, <1>15, <2>1, <2>2 DEF s, id
<1>16. CASE e.kind \in {"modelChange", "other"}
  <2>1. h \in Heads(s, id)
    <3>1. \A c \in (1..i) \ ElementsOf(r.all) : c \in (1..id) \ ElementsOf(s.all)
      BY <1>3, <1>12, <1>16
    <3> QED BY <3>1 DEF Heads
  <2>2. s.context = Cat(h, v)
    BY <1>1, <1>6, <1>16
  <2> QED BY <1>1, <1>11, <1>16, <2>1, <2>2 DEF s, id
<1> QED BY <1>5, <1>10, <1>13, <1>14, <1>15, <1>16

-----------------------------------------------------------------------------
(* What BuildSessionContext reads off a path, entry by entry. *)

\* The last entry of one of the kinds, and the first with an id.
LastOf(p, kinds) == SelectLastInSeq(p, LAMBDA e : e.kind \in kinds)
FirstOf(p, x) == SelectInSeq(p, LAMBDA e : e.id = x)

LEMMA SameChosen ==
  ASSUME NEW S, NEW p \in Seq(S), NEW e \in S
  PROVE  /\ Len(p) \in Nat /\ Len(Append(p, e)) = Len(p) + 1 /\ Append(p, e) \in Seq(S)
         /\ Append(p, e)[Len(p) + 1] = e /\ \A k \in 1..Len(p) : Append(p, e)[k] = p[k] /\ p[k] \in S
OBVIOUS

LEMMA LastOfAppend ==
  ASSUME NEW S, NEW p \in Seq(S), NEW e \in S, NEW kinds
  PROVE  LastOf(Append(p, e), kinds) = IF e.kind \in kinds THEN Len(p) + 1 ELSE LastOf(p, kinds)
<1> DEFINE q == Append(p, e)
           n == Len(p)
           I == {i \in 1..n : p[i].kind \in kinds}
           J == {i \in 1..(n + 1) : q[i].kind \in kinds}
<1>1. /\ n \in Nat /\ Len(q) = n + 1 /\ q[n + 1] = e /\ \A k \in 1..n : q[k] = p[k]
  BY SameChosen
<1>2. LastOf(p, kinds) = IF I # {} THEN Max(I) ELSE 0
  BY DEF LastOf, SelectLastInSeq
<1>3. LastOf(q, kinds) = IF J # {} THEN Max(J) ELSE 0
  <2>1. LastOf(q, kinds) = IF {i \in 1..Len(q) : q[i].kind \in kinds} # {}
                           THEN Max({i \in 1..Len(q) : q[i].kind \in kinds}) ELSE 0
    BY DEF LastOf, SelectLastInSeq
  <2> QED BY <1>1, <2>1
<1> HIDE DEF q, n
<1>4. CASE e.kind \in kinds
  <2>1. n + 1 \in J /\ \A j \in J : n + 1 >= j
    BY <1>1, <1>4
  <2>2. \A j \in J : j >= n + 1 => j = n + 1
    BY <1>1
  <2> HIDE DEF J
  <2>3. Max(J) = n + 1
    BY <2>1, <2>2 DEF Max
  <2> QED BY <1>3, <1>4, <2>1, <2>3 DEF q, n
<1>5. CASE e.kind \notin kinds
  <2>1. I = J
    BY <1>1, <1>5
  <2> QED BY <1>2, <1>3, <1>5, <2>1 DEF q, n
<1> QED BY <1>4, <1>5

LEMMA LastOfEmpty == \A kinds : LastOf(<<>>, kinds) = 0
BY DEF LastOf, SelectLastInSeq

LEMMA LastOfType ==
  ASSUME NEW S, NEW p \in Seq(S), NEW kinds
  PROVE  /\ LastOf(p, kinds) \in 0..Len(p)
         /\ LastOf(p, kinds) # 0 => p[LastOf(p, kinds)].kind \in kinds
<1> DEFINE Good(s) == /\ LastOf(s, kinds) \in 0..Len(s)
                      /\ LastOf(s, kinds) # 0 => s[LastOf(s, kinds)].kind \in kinds
           P == {s \in Seq(S) : Good(s)}
<1>1. <<>> \in P
  BY LastOfEmpty, EmptySeq
<1>2. ASSUME NEW s \in Seq(S), s \in P, NEW e \in S PROVE Append(s, e) \in P
  <2> DEFINE t == Append(s, e)
             n == Len(s)
             at == LastOf(s, kinds)
  <2>1. /\ n \in Nat /\ Len(t) = n + 1 /\ t[n + 1] = e /\ t \in Seq(S)
        /\ \A k \in 1..n : t[k] = s[k]
    BY SameChosen
  <2>2. LastOf(t, kinds) = IF e.kind \in kinds THEN n + 1 ELSE at
    BY LastOfAppend
  <2>3. at \in 0..n /\ (at # 0 => s[at].kind \in kinds)
    BY <1>2
  <2> HIDE DEF t, n, at
  <2>4. LastOf(t, kinds) \in 0..(n + 1)
    BY <2>1, <2>2, <2>3
  <2>5. LastOf(t, kinds) # 0 => t[LastOf(t, kinds)].kind \in kinds
    BY <2>1, <2>2, <2>3
  <2>6. LastOf(t, kinds) \in 0..Len(t)
    BY <2>1, <2>4
  <2>7. t \in P
    BY <2>1, <2>5, <2>6
  <2> QED BY <2>7 DEF t
<1>3. Seq(S) \subseteq P
  <2> HIDE DEF P
  <2> QED BY <1>1, <1>2, SeqInduction
<1> QED BY <1>3

LEMMA FirstOfEmpty == \A x : FirstOf(<<>>, x) = 0
BY DEF FirstOf, SelectInSeq

\* An entry that comes later is not the first.
LEMMA FirstOfAppend ==
  ASSUME NEW S, NEW p \in Seq(S), NEW e \in S, NEW x, e.id # x
  PROVE  FirstOf(Append(p, e), x) = FirstOf(p, x)
<1> DEFINE q == Append(p, e)
           n == Len(p)
           I == {i \in 1..n : p[i].id = x}
           J == {i \in 1..(n + 1) : q[i].id = x}
<1>1. /\ n \in Nat /\ Len(q) = n + 1 /\ q[n + 1] = e /\ \A k \in 1..n : q[k] = p[k]
  BY SameChosen
<1>2. FirstOf(p, x) = IF I # {} THEN Min(I) ELSE 0
  BY DEF FirstOf, SelectInSeq
<1>3. FirstOf(q, x) = IF J # {} THEN Min(J) ELSE 0
  <2>1. FirstOf(q, x) = IF {i \in 1..Len(q) : q[i].id = x} # {}
                        THEN Min({i \in 1..Len(q) : q[i].id = x}) ELSE 0
    BY DEF FirstOf, SelectInSeq
  <2> QED BY <1>1, <2>1
<1> HIDE DEF q, n
<1>5. I = J
  BY <1>1
<1> HIDE DEF I, J
<1>6. FirstOf(q, x) = FirstOf(p, x)
  BY <1>2, <1>3, <1>5
<1> QED BY <1>6 DEF q

\* The ids of a path are different.
Apart(p) == \A j, k \in 1..Len(p) : p[j].id = p[k].id => j = k

LEMMA FirstOfOne ==
  ASSUME NEW S, NEW p \in Seq(S), Apart(p), NEW x
  PROVE  /\ FirstOf(p, x) = 0 => \A k \in 1..Len(p) : p[k].id # x
         /\ FirstOf(p, x) # 0 => FirstOf(p, x) \in 1..Len(p) /\ p[FirstOf(p, x)].id = x
<1> DEFINE I == {i \in 1..Len(p) : p[i].id = x}
<1>1. FirstOf(p, x) = IF I # {} THEN Min(I) ELSE 0
  BY DEF FirstOf, SelectInSeq
<1>2. Len(p) \in Nat
  OBVIOUS
<1>3. ASSUME NEW k \in 1..Len(p), p[k].id = x PROVE FirstOf(p, x) = k
  <2>1. I = {k}
    BY <1>3 DEF Apart
  <2>2. Min({k}) = k
    BY <1>2 DEF Min
  <2> QED BY <1>1, <2>1, <2>2
<1>4. CASE I = {}
  BY <1>1, <1>4
<1>5. CASE I # {}
  <2>1. PICK k \in 1..Len(p) : p[k].id = x
    BY <1>5
  <2> QED BY <1>2, <1>3, <2>1
<1> QED BY <1>4, <1>5

LEMMA SubSeqBefore ==
  ASSUME NEW S, NEW p \in Seq(S), NEW e \in S, NEW m \in 1..(Len(p) + 1), NEW n \in 0..Len(p)
  PROVE  SubSeq(Append(p, e), m, n) = SubSeq(p, m, n) /\ SubSeq(p, m, n) \in Seq(S)
<1> DEFINE q == Append(p, e)
           u == SubSeq(q, m, n)
           v == SubSeq(p, m, n)
<1>1. /\ Len(p) \in Nat /\ m \in Int /\ n \in Int /\ \A k \in m..n : q[k] = p[k] /\ p[k] \in S
  BY SameChosen
<1> HIDE DEF q
<1>2. /\ v \in Seq(S) /\ Len(v) = IF m <= n THEN n - m + 1 ELSE 0
      /\ \A i \in 1..(n - m + 1) : v[i] = p[m + i - 1]
  BY <1>1, SubSeqProperties
<1>3. /\ u \in Seq(S) /\ Len(u) = IF m <= n THEN n - m + 1 ELSE 0
      /\ \A i \in 1..(n - m + 1) : u[i] = q[m + i - 1]
  BY <1>1, SubSeqProperties
<1> HIDE DEF u, v
<1>4. Len(u) = Len(v)
  BY <1>2, <1>3
<1>5. \A i \in 1..Len(u) : u[i] = v[i]
  <2> TAKE i \in 1..Len(u)
  <2>1. i \in 1..(n - m + 1) /\ m + i - 1 \in m..n
    BY <1>1, <1>3
  <2> QED BY <1>1, <1>2, <1>3, <2>1
<1>6. u = v
  BY <1>2, <1>3, <1>4, <1>5, SeqEqual
<1> QED BY <1>2, <1>6 DEF u, v, q

LEMMA SubSeqToTheEnd ==
  ASSUME NEW S, NEW p \in Seq(S), NEW e \in S, NEW m \in 1..(Len(p) + 1)
  PROVE  /\ SubSeq(Append(p, e), m, Len(p) + 1) = Append(SubSeq(p, m, Len(p)), e)
         /\ SubSeq(p, m, Len(p)) \in Seq(S)
<1> DEFINE q == Append(p, e)
           n == Len(p)
           v == SubSeq(p, m, n)
<1>1. /\ n \in Nat /\ m \in 1..Len(q) /\ Len(q) = n + 1 /\ n + 1 \in m..Len(q) /\ q \in Seq(S)
      /\ q[n + 1] = e
  BY SameChosen
<1>2. SubSeq(q, m, n + 1) = SubSeq(q, m, n + 1 - 1) \o <<q[n + 1]>>
  BY <1>1, SubSeqRecursiveSecond
<1>3. n \in 0..Len(p) /\ n + 1 - 1 = n
  BY <1>1
<1>4. SubSeq(q, m, n) = v /\ v \in Seq(S)
  BY <1>3, SubSeqBefore
<1> HIDE DEF q, n, v
<1>5. SubSeq(q, m, n + 1) = v \o <<e>>
  BY <1>1, <1>2, <1>3, <1>4
<1>6. v \o <<e>> = Append(v, e)
  BY <1>4
<1> QED BY <1>4, <1>5, <1>6 DEF q, n, v

Compactions == {"compaction", "emptyCompaction"}
Summary(p) == LastOf(p, Compactions)
KeptIn(p) ==
  LET from == FirstOf(p, p[Summary(p)].kept)
  IN  IF from = 0 THEN <<>> ELSE SubSeq(p, from, Summary(p) - 1)
Behind(p) == SubSeq(p, Summary(p) + 1, Len(p))
CtxOf(p) ==
  IF Summary(p) = 0 \/ p[Summary(p)].kind = "emptyCompaction" THEN Messages(p)
  ELSE Cat(Cat(One(p[Summary(p)].id), Messages(KeptIn(p))), Messages(Behind(p)))
ModelAt(p) == IF LastOf(p, {"modelChange"}) = 0 THEN 0 ELSE p[LastOf(p, {"modelChange"})].id

LEMMA ContextIs ==
  ASSUME NEW list, NEW id
  PROVE  /\ Context(list, id) = CtxOf(Path(list, id))
         /\ ModelOf(list, id) = ModelAt(Path(list, id))
<1> DEFINE p == Path(list, id)
<1>1. LastCompaction(p) = Summary(p)
  BY DEF LastCompaction, Summary, LastOf, Compactions
<1>2. Context(list, id) = CtxOf(p)
  BY <1>1 DEF Context, CtxOf, KeptIn, Behind, FirstOf, Cat, One
<1>3. SelectLastInSeq(p, LAMBDA e : e.kind = "modelChange") = LastOf(p, {"modelChange"})
  BY DEF LastOf, SelectLastInSeq
<1>4. ModelOf(list, id) = ModelAt(p)
  BY <1>3 DEF ModelOf, ModelAt, NoEntry
<1> QED BY <1>2, <1>4


LEMMA MessagesOfPath ==
  ASSUME MaxIds \in Nat
  PROVE  /\ Messages(<<>>) = <<>>
         /\ \A p \in Seq(Entry) :
              /\ Messages(p) \in IdSeqs
              /\ \A e \in Entry :
                   Messages(Append(p, e)) = IF Speaks(e) THEN Cat(Messages(p), One(e.id))
                                            ELSE Messages(p)
<1> SUFFICES ASSUME NEW p \in Seq(Entry)
             PROVE  /\ Messages(p) \in IdSeqs
                    /\ \A e \in Entry :
                         Messages(Append(p, e)) = IF Speaks(e) THEN Cat(Messages(p), One(e.id))
                                                  ELSE Messages(p)
  BY MessagesEmpty
<1>1. Messages(p) \in IdSeqs
  BY MessagesType DEF IdSeqs
<1>2. ASSUME NEW e \in Entry
      PROVE  Messages(Append(p, e)) = IF Speaks(e) THEN Cat(Messages(p), One(e.id))
                                      ELSE Messages(p)
  <2>1. Messages(Append(p, e)) = IF Speaks(e) THEN Append(Messages(p), e.id)
                                 ELSE Messages(p)
    BY MessagesAppend
  <2>2. e.id \in Nat
    BY IdType
  <2>3. Append(Messages(p), e.id) = Cat(Messages(p), One(e.id))
    BY <1>1, <2>2, CatAppend
  <2> QED BY <2>1, <2>3
<1> QED BY <1>1, <1>2

\* The places of a path, and what one more entry leaves as it was.
LEMMA PlacesOfPath ==
  ASSUME NEW p \in Seq(Entry), Apart(p), Summary(p) # 0
  PROVE  /\ Summary(p) \in 1..Len(p) /\ p[Summary(p)] \in Entry
         /\ p[Summary(p)].kind \in Compactions
         /\ KeptIn(p) \in Seq(Entry) /\ Behind(p) \in Seq(Entry)
<1> DEFINE at == Summary(p)
           from == FirstOf(p, p[at].kept)
<1>1. at \in 0..Len(p) /\ at # 0 /\ p[at].kind \in Compactions
  BY LastOfType DEF Summary
<1>2. Len(p) \in Nat /\ \A k \in 1..Len(p) : p[k] \in Entry
  OBVIOUS
<1>3. at \in 1..Len(p)
  BY <1>1, <1>2
<1>4. SubSeq(p, at + 1, Len(p)) \in Seq(Entry)
  BY <1>2, <1>3, SubSeqProperties
<1>5. ASSUME from # 0 PROVE SubSeq(p, from, at - 1) \in Seq(Entry)
  <2>1. from \in 1..Len(p)
    BY <1>5, FirstOfOne
  <2> HIDE DEF from, at
  <2>2. \A k \in from..(at - 1) : p[k] \in Entry
    BY <1>2, <1>3, <2>1
  <2>3. from \in Int /\ at - 1 \in Int
    BY <1>2, <1>3, <2>1
  <2> QED BY <2>2, <2>3, SubSeqProperties
<1>6. <<>> \in Seq(Entry)
  BY EmptySeq
<1>7. KeptIn(p) \in Seq(Entry)
  BY <1>5, <1>6 DEF KeptIn
<1> QED BY <1>1, <1>2, <1>3, <1>4, <1>7 DEF Behind

\* What one more entry adds to the context of a path.
LEMMA CtxAppendOther ==
  ASSUME MaxIds \in Nat, NEW p \in Seq(Entry), Apart(p), NEW e \in Entry,
         e.kind \notin Compactions, \A k \in 1..Len(p) : p[k].kept # e.id
  PROVE  CtxOf(Append(p, e)) = IF Speaks(e) THEN Cat(CtxOf(p), One(e.id)) ELSE CtxOf(p)
<1> DEFINE q == Append(p, e)
           n == Len(p)
           at == Summary(p)
           x == p[at].kept
<1>1. /\ n \in Nat /\ Len(q) = n + 1 /\ q[n + 1] = e /\ q \in Seq(Entry)
      /\ \A k \in 1..n : q[k] = p[k] /\ p[k] \in Entry
  BY SameChosen
<1>2. Summary(q) = at
  BY LastOfAppend DEF Summary
<1>3. Messages(q) = IF Speaks(e) THEN Cat(Messages(p), One(e.id)) ELSE Messages(p)
  BY MessagesOfPath
<1>4. CASE at = 0 \/ p[at].kind = "emptyCompaction"
  <2>1. at = 0 \/ q[at].kind = "emptyCompaction"
    <3>1. at # 0 => at \in 1..n
      BY PlacesOfPath
    <3> QED BY <1>1, <1>4, <3>1
  <2>2. CtxOf(q) = Messages(q)
    BY <1>2, <2>1 DEF CtxOf
  <2>3. CtxOf(p) = Messages(p)
    BY <1>4 DEF CtxOf
  <2> QED BY <1>3, <2>2, <2>3
<1>5. CASE ~(at = 0 \/ p[at].kind = "emptyCompaction")
  <2>1. at \in 1..n /\ KeptIn(p) \in Seq(Entry) /\ Behind(p) \in Seq(Entry)
    BY <1>5, PlacesOfPath
  <2>2. q[at] = p[at] /\ p[at].kept # e.id /\ p[at].id \in Nat
    BY <1>1, <2>1, IdType
  <2>3. FirstOf(q, x) = FirstOf(p, x)
    BY <2>2, FirstOfAppend
  <2>4. KeptIn(q) = KeptIn(p)
    <3> DEFINE from == FirstOf(p, x)
    <3>1. ASSUME from # 0 PROVE SubSeq(q, from, at - 1) = SubSeq(p, from, at - 1)
      <4>1. from \in 1..n
        BY <3>1, FirstOfOne
      <4> DEFINE j == at - 1
      <4>2. j \in 0..Len(p) /\ from \in 1..(Len(p) + 1)
        BY <1>1, <2>1, <4>1
      <4> HIDE DEF j, from
      <4>3. SubSeq(q, from, j) = SubSeq(p, from, j)
        BY <4>2, SubSeqBefore
      <4> QED BY <4>3 DEF j
    <3>2. KeptIn(q) = IF from = 0 THEN <<>> ELSE SubSeq(q, from, at - 1)
      BY <1>2, <2>2, <2>3 DEF KeptIn
    <3>3. KeptIn(p) = IF from = 0 THEN <<>> ELSE SubSeq(p, from, at - 1)
      BY DEF KeptIn
    <3>4. CASE from = 0
      BY <3>2, <3>3, <3>4
    <3>5. CASE from # 0
      <4>1. SubSeq(q, from, at - 1) = SubSeq(p, from, at - 1)
        BY <3>1, <3>5
      <4> HIDE DEF q, at, from, x
      <4> QED BY <3>2, <3>3, <3>5, <4>1
    <3> QED BY <3>4, <3>5
  <2>5. Behind(q) = Append(Behind(p), e)
    <3> DEFINE m == at + 1
    <3>1. m \in 1..(Len(p) + 1)
      BY <1>1, <2>1
    <3> HIDE DEF m
    <3>2. SubSeq(q, m, Len(p) + 1) = Append(SubSeq(p, m, Len(p)), e)
      BY <3>1, SubSeqToTheEnd
    <3> QED BY <1>1, <1>2, <3>2 DEF Behind, m
  <2> DEFINE first == Cat(One(p[at].id), Messages(KeptIn(p)))
  <2>6. CtxOf(p) = Cat(first, Messages(Behind(p)))
    BY <1>5 DEF CtxOf
  <2>7. CtxOf(q) = Cat(first, Messages(Behind(q)))
    BY <1>2, <1>5, <2>2, <2>4 DEF CtxOf
  <2>8. first \in IdSeqs /\ Messages(Behind(p)) \in IdSeqs /\ One(e.id) \in IdSeqs
    <3>1. Messages(KeptIn(p)) \in IdSeqs /\ Messages(Behind(p)) \in IdSeqs
      BY <2>1, MessagesOfPath
    <3>2. One(p[at].id) \in IdSeqs /\ One(e.id) \in IdSeqs
      BY <2>2, CatTypes, IdType
    <3> QED BY <3>1, <3>2, CatTypes
  <2>9. Messages(Behind(q)) = IF Speaks(e) THEN Cat(Messages(Behind(p)), One(e.id))
                              ELSE Messages(Behind(p))
    BY <2>1, <2>5, MessagesOfPath
  <2> HIDE DEF first
  <2>10. Cat(first, Cat(Messages(Behind(p)), One(e.id)))
         = Cat(Cat(first, Messages(Behind(p))), One(e.id))
    BY <2>8, CatGroup
  <2> QED BY <2>6, <2>7, <2>9, <2>10
<1> QED BY <1>4, <1>5

LEMMA CtxAppendCompaction ==
  ASSUME MaxIds \in Nat, NEW p \in Seq(Entry), Apart(p), NEW e \in Entry, e.kept # e.id
  PROVE  /\ e.kind = "emptyCompaction" => CtxOf(Append(p, e)) = Messages(p)
         /\ e.kind = "compaction" =>
              CtxOf(Append(p, e)) =
                Cat(One(e.id), IF FirstOf(p, e.kept) = 0 THEN <<>>
                               ELSE Messages(SubSeq(p, FirstOf(p, e.kept), Len(p))))
<1> DEFINE q == Append(p, e)
           n == Len(p)
           from == FirstOf(p, e.kept)
<1>1. n \in Nat /\ Len(q) = n + 1 /\ q[n + 1] = e /\ q \in Seq(Entry)
  BY SameChosen
<1>2. ASSUME e.kind \in Compactions PROVE Summary(q) = n + 1
  BY <1>2, LastOfAppend DEF Summary
<1>3. CASE e.kind = "emptyCompaction"
  <2>1. Summary(q) = n + 1 /\ q[n + 1].kind = "emptyCompaction"
    BY <1>1, <1>2, <1>3 DEF Compactions
  <2>2. CtxOf(q) = Messages(q)
    BY <2>1 DEF CtxOf
  <2>3. Messages(q) = Messages(p)
    BY <1>3, MessagesOfPath DEF Speaks
  <2> QED BY <1>3, <2>2, <2>3
<1>4. CASE e.kind = "compaction"
  <2>1. Summary(q) = n + 1 /\ n + 1 # 0
    BY <1>1, <1>2, <1>4 DEF Compactions
  <2>2. FirstOf(q, e.kept) = from
    BY FirstOfAppend
  <2>3. KeptIn(q) = IF from = 0 THEN <<>> ELSE SubSeq(p, from, n)
    <3>1. KeptIn(q) = IF from = 0 THEN <<>> ELSE SubSeq(q, from, n + 1 - 1)
      BY <1>1, <2>1, <2>2 DEF KeptIn
    <3>2. n + 1 - 1 = n
      BY <1>1
    <3>3. ASSUME from # 0 PROVE SubSeq(q, from, n) = SubSeq(p, from, n)
      <4>1. from \in 1..n
        BY <3>3, FirstOfOne
      <4>2. n \in 0..Len(p) /\ from \in 1..(Len(p) + 1)
        BY <1>1, <4>1
      <4> HIDE DEF from, n
      <4> QED BY <4>2, SubSeqBefore
    <3> QED BY <3>1, <3>2, <3>3
  <2>4. Behind(q) = <<>>
    <3>1. Behind(q) = SubSeq(q, n + 1 + 1, n + 1)
      BY <1>1, <2>1 DEF Behind
    <3> DEFINE i == n + 1 + 1
               j == n + 1
    <3>2. j < i /\ i \in Int /\ j \in Int
      BY <1>1
    <3> HIDE DEF i, j
    <3>3. SubSeq(q, i, j) = <<>>
      BY <3>2, SubSeqEmpty
    <3> QED BY <3>1, <3>3 DEF i, j
  <2>5. CtxOf(q) = Cat(Cat(One(e.id), Messages(KeptIn(q))), Messages(Behind(q)))
    BY <1>1, <1>4, <2>1 DEF CtxOf
  <2>6. Messages(Behind(q)) = <<>> /\ Messages(<<>>) = <<>>
    BY <2>4, MessagesOfPath
  <2>7. KeptIn(q) \in Seq(Entry)
    <3>1. <<>> \in Seq(Entry)
      BY EmptySeq
    <3>2. ASSUME from # 0 PROVE SubSeq(p, from, n) \in Seq(Entry)
      <4>1. from \in 1..n
        BY <3>2, FirstOfOne
      <4>2. n \in 0..Len(p) /\ from \in 1..(Len(p) + 1)
        BY <1>1, <4>1
      <4> HIDE DEF from, n
      <4> QED BY <4>2, SubSeqBefore
    <3> QED BY <2>3, <3>1, <3>2
  <2>8. Messages(KeptIn(q)) \in IdSeqs /\ One(e.id) \in IdSeqs
    BY <2>7, MessagesOfPath, CatTypes, IdType
  <2>9. CtxOf(q) = Cat(One(e.id), Messages(KeptIn(q)))
    BY <2>5, <2>6, <2>8, CatEmpty, CatTypes
  <2> QED BY <1>4, <2>3, <2>6, <2>9
<1> QED BY <1>3, <1>4

LEMMA ModelAppend ==
  ASSUME NEW p \in Seq(Entry), NEW e \in Entry
  PROVE  ModelAt(Append(p, e)) = IF e.kind = "modelChange" THEN e.id ELSE ModelAt(p)
<1> DEFINE q == Append(p, e)
           n == Len(p)
           K == {"modelChange"}
<1>1. /\ n \in Nat /\ Len(q) = n + 1 /\ q[n + 1] = e /\ \A k \in 1..n : q[k] = p[k]
  BY SameChosen
<1>2. LastOf(p, K) \in 0..n
  BY LastOfType
<1>3. LastOf(q, K) = IF e.kind \in K THEN n + 1 ELSE LastOf(p, K)
  BY LastOfAppend
<1> HIDE DEF q, n
<1>4. ModelAt(q) = IF e.kind = "modelChange" THEN e.id ELSE ModelAt(p)
  BY <1>1, <1>2, <1>3 DEF ModelAt
<1> QED BY <1>4 DEF q

LEMMA MessagesIds ==
  ASSUME MaxIds \in Nat, NEW p \in Seq(Entry), NEW x \in ElementsOf(Messages(p))
  PROVE  \E k \in 1..Len(p) : p[k].id = x
<1> DEFINE IdsIn(s) == {s[k].id : k \in 1..Len(s)}
           P == {s \in Seq(Entry) : ElementsOf(Messages(s)) \subseteq IdsIn(s)}
<1>1. <<>> \in P
  <2>1. ElementsOf(Messages(<<>>)) = {}
    BY MessagesOfPath, EmptyIsDistinct
  <2> QED BY <2>1, EmptySeq
<1>2. ASSUME NEW s \in Seq(Entry), s \in P, NEW e \in Entry PROVE Append(s, e) \in P
  <2> DEFINE t == Append(s, e)
             n == Len(s)
  <2>1. /\ n \in Nat /\ Len(t) = n + 1 /\ t[n + 1] = e /\ t \in Seq(Entry)
        /\ \A k \in 1..n : t[k] = s[k]
    BY SameChosen
  <2>2. Messages(t) \in {Messages(s), Cat(Messages(s), One(e.id))} /\ Messages(s) \in IdSeqs
    BY MessagesOfPath
  <2>3. e.id \in Nat /\ One(e.id) \in IdSeqs /\ ElementsOf(One(e.id)) = {e.id}
    BY IdType, CatTypes, CatElements
  <2>4. ElementsOf(Cat(Messages(s), One(e.id))) = ElementsOf(Messages(s)) \cup {e.id}
    BY <2>2, <2>3, CatElements
  <2>5. ElementsOf(Messages(s)) \subseteq IdsIn(s)
    BY <1>2
  <2> HIDE DEF t, n
  <2>6. IdsIn(s) \subseteq IdsIn(t) /\ e.id \in IdsIn(t)
    BY <2>1 DEF n
  <2> HIDE DEF IdsIn
  <2>7. ElementsOf(Messages(t)) \subseteq IdsIn(t)
    BY <2>2, <2>4, <2>5, <2>6
  <2> QED BY <2>1, <2>7 DEF t
<1>3. Seq(Entry) \subseteq P
  <2> HIDE DEF P
  <2> QED BY <1>1, <1>2, SeqInduction
<1>4. ElementsOf(Messages(p)) \subseteq IdsIn(p)
  BY <1>3
<1> QED BY <1>4

LEMMA MessagesFrom ==
  ASSUME MaxIds \in Nat, NEW p \in Seq(Entry), NEW from \in 1..Len(p), Speaks(p[from])
  PROVE  \E a, d \in IdSeqs :
           /\ Messages(p) = Cat(a, Cat(One(p[from].id), d))
           /\ Messages(SubSeq(p, from, Len(p))) = Cat(One(p[from].id), d)
<1> DEFINE e == p[from]
           before == SubSeq(p, 1, from - 1)
           after == SubSeq(p, from + 1, Len(p))
           rest == SubSeq(p, from, Len(p))
<1>1. /\ before \in Seq(Entry) /\ after \in Seq(Entry) /\ e \in Entry /\ <<e>> \in Seq(Entry)
      /\ rest \in Seq(Entry) /\ rest = <<e>> \o after /\ p = before \o rest
  BY SplitAt
<1> HIDE DEF e, before, after, rest
<1>2. Messages(rest) = Cat(Messages(<<e>>), Messages(after))
  BY <1>1, MessagesConcat DEF Cat
<1>3. Messages(p) = Cat(Messages(before), Messages(rest))
  BY <1>1, MessagesConcat DEF Cat
<1>4. Messages(<<e>>) = One(e.id)
  <2>1. <<e>> = Append(<<>>, e) /\ <<>> \in Seq(Entry)
    BY <1>1
  <2>2. Messages(Append(<<>>, e)) = Cat(Messages(<<>>), One(e.id))
    BY <1>1, <2>1, MessagesOfPath DEF e
  <2>3. Messages(<<>>) = <<>> /\ One(e.id) \in IdSeqs
    BY <1>1, MessagesOfPath, CatTypes, IdType
  <2> QED BY <2>1, <2>2, <2>3, CatEmpty
<1>5. Messages(before) \in IdSeqs /\ Messages(after) \in IdSeqs
  BY <1>1, MessagesOfPath
<1> QED BY <1>2, <1>3, <1>4, <1>5 DEF e, rest

-----------------------------------------------------------------------------
(* What a path says is what was told. *)

\* The entries g that were added, and the tellings t.
Grown(g, t, n) ==
  /\ n \in 0..MaxIds
  /\ t[0].context = <<>> /\ t[0].all = <<>> /\ t[0].model = 0
  /\ \A i \in 1..n :
       /\ g[i] \in Entry /\ g[i].id = i /\ g[i].parent \in 0..(i - 1)
       /\ t[i] = Tell(t[g[i].parent], g[i])
       /\ g[i].kept # 0 =>
            g[i].kept \in ElementsOf(t[g[i].parent].context) \cap ElementsOf(t[g[i].parent].all)
  /\ \A i \in 0..n : Fits(g, t[i], i)

\* p is a path from behind b to at; where b is 0 it is all of the way.
Reads(g, t, p, b, at) ==
  /\ p \in Seq(Entry) /\ b \in 0..at /\ Apart(p)
  /\ \A k \in 1..Len(p) : p[k].id \in (b + 1)..at /\ p[k] = g[p[k].id]
  /\ t[at].all = Cat(t[b].all, Messages(p))
  /\ \E x, y, z \in IdSeqs :
       CtxOf(p) = Cat(x, z) /\ t[at].context = Cat(x, Cat(y, z)) /\ (b = 0 => y = <<>>)
  /\ ModelAt(p) \in {0, t[at].model} /\ (b = 0 => ModelAt(p) = t[at].model)

LEMMA ReadsNone ==
  ASSUME MaxIds \in Nat, NEW g, NEW t, NEW n, Grown(g, t, n), NEW at \in 0..n
  PROVE  Reads(g, t, <<>>, at, at)
<1> DEFINE e == <<>>
<1>1. n \in Nat /\ at \in Nat /\ Fits(g, t[at], at)
  BY DEF Grown
<1>2. t[at].all \in IdSeqs /\ t[at].context \in IdSeqs
  BY <1>1, FitsMeans DEF Fits
<1>3. Summary(e) = 0 /\ ModelAt(e) = 0
  BY LastOfEmpty DEF Summary, ModelAt
<1>4. CtxOf(e) = e /\ Messages(e) = e
  BY <1>3, MessagesOfPath DEF CtxOf
<1>5. Cat(t[at].all, e) = t[at].all /\ Cat(e, e) = e /\ Cat(e, Cat(t[at].context, e)) = t[at].context
      /\ e \in IdSeqs
  BY <1>2, CatEmpty, CatTypes
<1>6. at = 0 => t[at].context = e /\ t[at].model = 0
  BY DEF Grown
<1>7. e \in Seq(Entry) /\ Len(e) = 0 /\ at \in 0..at
  BY <1>1, EmptySeq
<1>8. \E x, y, z \in IdSeqs :
        CtxOf(e) = Cat(x, z) /\ t[at].context = Cat(x, Cat(y, z)) /\ (at = 0 => y = e)
  BY <1>2, <1>4, <1>5, <1>6
<1> HIDE DEF e
<1>9. Apart(e) /\ \A k \in 1..Len(e) : e[k].id \in (at + 1)..at /\ e[k] = g[e[k].id]
  BY <1>7 DEF Apart
<1>10. Reads(g, t, e, at, at)
  BY <1>3, <1>4, <1>5, <1>6, <1>7, <1>8, <1>9 DEF Reads, e
<1> QED BY <1>10 DEF e

LEMMA ReadsMore ==
  ASSUME MaxIds \in Nat, NEW g, NEW t, NEW n, Grown(g, t, n), NEW i \in 1..n, NEW b, NEW p,
         Reads(g, t, p, b, g[i].parent)
  PROVE  Reads(g, t, Append(p, g[i]), b, i)
<1> DEFINE e == g[i]
           q == Append(p, e)
           r == t[e.parent]
           s == t[i]
<1>1. /\ n \in Nat /\ i \in Nat /\ e \in Entry /\ e.id = i /\ e.parent \in 0..(i - 1)
      /\ e.kept \in Nat /\ s = Tell(r, e)
  <2>1. n \in Nat /\ e \in Entry /\ e.id = i /\ e.parent \in 0..(i - 1) /\ s = Tell(r, e)
    BY DEF Grown
  <2> HIDE DEF e, s, r
  <2>2. e.kept \in Nat
    BY <2>1, IdType
  <2> QED BY <2>1, <2>2
<1>2. e.kept # 0 => e.kept \in ElementsOf(r.context) /\ e.kept \in ElementsOf(r.all)
  BY DEF Grown
<1>3. Fits(g, r, e.parent)
  <2>1. e.parent \in 0..n
    BY <1>1
  <2> HIDE DEF e
  <2> QED BY <2>1 DEF Grown
<1>4. /\ p \in Seq(Entry) /\ b \in 0..e.parent /\ Apart(p)
      /\ \A k \in 1..Len(p) : p[k].id \in (b + 1)..e.parent /\ p[k] = g[p[k].id]
      /\ r.all = Cat(t[b].all, Messages(p))
  BY DEF Reads
<1>5. PICK x \in IdSeqs, y \in IdSeqs, z \in IdSeqs :
        CtxOf(p) = Cat(x, z) /\ r.context = Cat(x, Cat(y, z)) /\ (b = 0 => y = <<>>)
  BY DEF Reads
<1>6. ModelAt(p) \in {0, r.model} /\ (b = 0 => ModelAt(p) = r.model)
  BY DEF Reads
<1>7. Fits(g, t[b], b) /\ t[b].all \in IdSeqs /\ (b = 0 => t[b].all = <<>>)
  <2>1. b \in 0..n
    BY <1>1, <1>4
  <2>2. Fits(g, t[b], b) /\ (b = 0 => t[b].all = <<>>)
    BY <2>1 DEF Grown
  <2> QED BY <2>2 DEF Fits
<1>8. \A k \in 1..Len(p) : p[k].kept # i /\ p[k].id # i /\ p[k].id # 0
  <2> TAKE k \in 1..Len(p)
  <2>1. p[k].id \in (b + 1)..e.parent /\ p[k] = g[p[k].id]
    BY <1>4
  <2> DEFINE j == p[k].id
  <2>2. j \in 1..n /\ j < i /\ j \in Nat
    BY <1>1, <1>4, <2>1
  <2> HIDE DEF j
  <2>3. /\ g[j].parent \in 0..(j - 1)
        /\ g[j].kept # 0 => g[j].kept \in ElementsOf(t[g[j].parent].all)
    BY <2>2 DEF Grown
  <2> DEFINE o == g[j].parent
  <2>4. o \in 0..n /\ o < i
    BY <1>1, <2>2, <2>3
  <2>5. Fits(g, t[o], o)
    BY <2>4 DEF Grown
  <2>6. ElementsOf(t[o].all) \subseteq 1..o
    BY <2>5 DEF Fits
  <2>7. g[j].kept # i
    <3>1. CASE g[j].kept = 0
      BY <2>2, <3>1
    <3>2. CASE g[j].kept # 0
      <4>1. g[j].kept \in 1..o
        BY <2>3, <2>6, <3>2
      <4> QED BY <1>1, <2>4, <4>1
    <3> QED BY <3>1, <3>2
  <2>8. p[k].kept = g[j].kept /\ p[k].id = j
    BY <2>1 DEF j
  <2> QED BY <2>2, <2>7, <2>8
<1>9. /\ s.all = IF Speaks(e) THEN Cat(r.all, One(i)) ELSE r.all
      /\ s.model = IF e.kind = "modelChange" THEN i ELSE r.model
      /\ Speaks(e) => s.context = Cat(r.context, One(i))
      /\ e.kind = "compaction" =>
           s.context = Cat(One(i), IF PlaceOf(r.context, e.kept) = 0 THEN <<>>
                                   ELSE From(r.context, e.kept))
      /\ e.kind = "emptyCompaction" => s.context = r.all
      /\ e.kind \in {"modelChange", "other"} => s.context = r.context
  <2>1. e.parent \in Nat /\ e \in Entry
    BY <1>1
  <2> HIDE DEF e, s, r
  <2>2. LET w == Tell(r, e) IN
         /\ w.all = IF Speaks(e) THEN Cat(r.all, One(e.id)) ELSE r.all
         /\ w.model = IF e.kind = "modelChange" THEN e.id ELSE r.model
         /\ Speaks(e) => w.context = Cat(r.context, One(e.id))
         /\ e.kind = "compaction" =>
              w.context = Cat(One(e.id), IF PlaceOf(r.context, e.kept) = 0 THEN <<>>
                                         ELSE From(r.context, e.kept))
         /\ e.kind = "emptyCompaction" => w.context = r.all
         /\ e.kind \in {"modelChange", "other"} => w.context = r.context
    BY <1>3, <2>1, TellIs
  <2> QED BY <1>1, <2>2
<1>10. e.kind \in {"message", "compaction", "emptyCompaction", "modelChange", "other"}
  BY <1>1 DEF Entry, EntryKinds
<1>11. Speaks(e) <=> e.kind = "message"
  BY DEF Speaks
<1>12. Messages(p) \in IdSeqs /\ One(i) \in IdSeqs /\ r.all \in IdSeqs /\ <<>> \in IdSeqs
  BY <1>1, <1>3, <1>4, MessagesOfPath, CatTypes DEF Fits
<1> HIDE DEF e, s, r, q
<1>13. q \in Seq(Entry) /\ b \in 0..i
  BY <1>1, <1>4, SameChosen DEF q
<1>14. Apart(q) /\ \A k \in 1..Len(q) : q[k].id \in (b + 1)..i /\ q[k] = g[q[k].id]
  <2>1. /\ Len(p) \in Nat /\ Len(q) = Len(p) + 1 /\ q[Len(p) + 1] = e
        /\ \A k \in 1..Len(p) : q[k] = p[k]
    BY <1>1, <1>4, SameChosen DEF q
  <2>2. e.id = i /\ e = g[e.id]
    BY <1>1 DEF e
  <2>3. \A k \in 1..Len(q) : k \in 1..Len(p) \/ k = Len(p) + 1
    BY <2>1
  <2>4. Apart(q)
    BY <1>4, <1>8, <2>1, <2>2, <2>3 DEF Apart
  <2>5. \A k \in 1..Len(q) : q[k].id \in (b + 1)..i /\ q[k] = g[q[k].id]
    <3> TAKE k \in 1..Len(q)
    <3>1. CASE k \in 1..Len(p)
      BY <1>1, <1>4, <2>1, <3>1
    <3>2. CASE k = Len(p) + 1
      BY <1>1, <1>4, <2>1, <2>2, <3>2
    <3> QED BY <2>3, <3>1, <3>2
  <2> QED BY <2>4, <2>5
<1>15. s.all = Cat(t[b].all, Messages(q))
  <2>1. Messages(q) = IF Speaks(e) THEN Cat(Messages(p), One(i)) ELSE Messages(p)
    BY <1>1, <1>4, MessagesOfPath DEF q
  <2>2. Cat(Cat(t[b].all, Messages(p)), One(i)) = Cat(t[b].all, Cat(Messages(p), One(i)))
    BY <1>7, <1>12, CatGroup
  <2> QED BY <1>4, <1>9, <2>1, <2>2
<1>16. ModelAt(q) \in {0, s.model} /\ (b = 0 => ModelAt(q) = s.model)
  <2>1. ModelAt(q) = IF e.kind = "modelChange" THEN i ELSE ModelAt(p)
    BY <1>1, <1>4, ModelAppend DEF q
  <2> QED BY <1>6, <1>9, <2>1
<1>17. ASSUME NEW u \in IdSeqs, NEW v \in IdSeqs, NEW w \in IdSeqs,
              CtxOf(q) = Cat(u, w), s.context = Cat(u, Cat(v, w)), b = 0 => v = <<>>
       PROVE  Reads(g, t, Append(p, g[i]), b, i)
  <2>1. \E h, d, l \in IdSeqs :
          CtxOf(q) = Cat(h, l) /\ t[i].context = Cat(h, Cat(d, l)) /\ (b = 0 => d = <<>>)
    BY <1>17 DEF s
  <2>2. t[i].all = Cat(t[b].all, Messages(q)) /\ ModelAt(q) \in {0, t[i].model}
        /\ (b = 0 => ModelAt(q) = t[i].model)
    BY <1>15, <1>16 DEF s
  <2>3. Reads(g, t, q, b, i)
    BY <1>13, <1>14, <2>1, <2>2 DEF Reads
  <2> QED BY <2>3 DEF q, e
<1>18. CASE e.kind \in {"message", "modelChange", "other"}
  <2>1. e.kind \notin Compactions /\ \A k \in 1..Len(p) : p[k].kept # e.id
    BY <1>1, <1>8, <1>18 DEF Compactions
  <2>2. CtxOf(q) = IF Speaks(e) THEN Cat(CtxOf(p), One(i)) ELSE CtxOf(p)
    BY <1>1, <1>4, <2>1, CtxAppendOther DEF q
  <2>3. CASE e.kind = "message"
    <3>1. Cat(z, One(i)) \in IdSeqs /\ Cat(y, z) \in IdSeqs
      BY <1>12, CatTypes
    <3>2. Cat(Cat(x, z), One(i)) = Cat(x, Cat(z, One(i)))
      BY <1>12, CatGroup
    <3>3. Cat(Cat(x, Cat(y, z)), One(i)) = Cat(x, Cat(Cat(y, z), One(i)))
      BY <1>12, <3>1, CatGroup
    <3>4. Cat(Cat(y, z), One(i)) = Cat(y, Cat(z, One(i)))
      BY <1>12, CatGroup
    <3>5. CtxOf(q) = Cat(x, Cat(z, One(i)))
      BY <1>5, <1>11, <2>2, <2>3, <3>2
    <3>6. s.context = Cat(x, Cat(y, Cat(z, One(i))))
      BY <1>5, <1>9, <1>11, <2>3, <3>3, <3>4
    <3> QED BY <1>5, <1>17, <3>1, <3>5, <3>6
  <2>4. CASE e.kind # "message"
    <3>1. CtxOf(q) = Cat(x, z)
      BY <1>5, <1>11, <2>2, <2>4
    <3>2. s.context = Cat(x, Cat(y, z))
      BY <1>5, <1>9, <1>18, <2>4
    <3> QED BY <1>5, <1>17, <3>1, <3>2
  <2> QED BY <2>3, <2>4
<1>19. e.kept # e.id
  <2>1. ElementsOf(r.all) \subseteq 1..e.parent
    BY <1>3 DEF Fits
  <2>2. CASE e.kept = 0
    BY <1>1, <2>2
  <2>3. CASE e.kept # 0
    <3>1. e.kept \in 1..e.parent
      BY <1>2, <2>1, <2>3
    <3> QED BY <1>1, <3>1
  <2> QED BY <2>2, <2>3
<1>20. CASE e.kind = "emptyCompaction"
  <2>1. CtxOf(q) = Messages(p)
    BY <1>1, <1>4, <1>19, <1>20, CtxAppendCompaction DEF q
  <2>2. CtxOf(q) = Cat(<<>>, Messages(p))
    BY <1>12, <2>1, CatEmpty
  <2>3. s.context = Cat(<<>>, Cat(t[b].all, Messages(p)))
    BY <1>4, <1>9, <1>12, <1>20, CatEmpty
  <2> QED BY <1>7, <1>12, <1>17, <2>2, <2>3
<1>21. ASSUME e.kind = "compaction"
       PROVE  CtxOf(q) = Cat(One(i), IF FirstOf(p, e.kept) = 0 THEN <<>>
                                     ELSE Messages(SubSeq(p, FirstOf(p, e.kept), Len(p))))
  BY <1>1, <1>4, <1>19, <1>21, CtxAppendCompaction DEF q
<1>22. CASE e.kind = "compaction" /\ e.kept = 0
  <2>1. FirstOf(p, e.kept) = 0
    BY <1>4, <1>8, <1>22, FirstOfOne
  <2>2. PlaceOf(r.context, e.kept) = 0
    <3>1. e.parent \in Nat
      BY <1>1
    <3>2. r.context \in IdSeqs /\ Distinct(r.context) /\ ElementsOf(r.context) \subseteq 1..e.parent
      BY <1>3, <3>1, FitsMeans
    <3>3. e.kept \notin ElementsOf(r.context)
      BY <1>22, <3>1, <3>2
    <3> QED BY <3>2, <3>3, PlaceOfOne
  <2>3. CtxOf(q) = Cat(One(i), <<>>)
    BY <1>21, <1>22, <2>1
  <2>4. s.context = Cat(One(i), <<>>)
    BY <1>9, <1>22, <2>2
  <2>5. Cat(<<>>, <<>>) = <<>>
    BY <1>12, CatEmpty
  <2> QED BY <1>12, <1>17, <2>3, <2>4, <2>5
<1>23. CASE e.kind = "compaction" /\ e.kept # 0 /\ FirstOf(p, e.kept) # 0
  <2> DEFINE k == e.kept
             from == FirstOf(p, k)
  <2>1. from \in 1..Len(p) /\ p[from].id = k
    BY <1>4, <1>23, FirstOfOne
  <2>2. k \in Nat /\ k \in ElementsOf(r.context) /\ k \in ElementsOf(r.all)
    BY <1>1, <1>2, <1>23
  <2>3. Speaks(p[from])
    <3>1. Speaks(g[k])
      BY <1>3, <2>2 DEF Fits
    <3>2. p[from] = g[k]
      BY <1>4, <2>1
    <3> QED BY <3>1, <3>2
  <2>4. CtxOf(q) = Cat(One(i), Messages(SubSeq(p, from, Len(p))))
    BY <1>21, <1>23
  <2> HIDE DEF k, from
  <2>5. PICK a \in IdSeqs, d \in IdSeqs :
          /\ Messages(p) = Cat(a, Cat(One(k), d))
          /\ Messages(SubSeq(p, from, Len(p))) = Cat(One(k), d)
    <3>1. \E a, d \in IdSeqs :
            /\ Messages(p) = Cat(a, Cat(One(p[from].id), d))
            /\ Messages(SubSeq(p, from, Len(p))) = Cat(One(p[from].id), d)
      BY <1>4, <2>1, <2>3, MessagesFrom
    <3> QED BY <2>1, <3>1
  <2>6. Cat(One(k), d) \in IdSeqs /\ Cat(t[b].all, a) \in IdSeqs
    BY <1>7, <2>2, CatTypes
  <2>7. r.all = Cat(Cat(t[b].all, a), Cat(One(k), d))
    BY <1>4, <1>7, <2>5, <2>6, CatGroup
  <2>8. PlaceOf(r.context, k) # 0 /\ From(r.context, k) = Cat(One(k), d)
    <3>1. e.parent \in Nat
      BY <1>1
    <3> QED BY <1>3, <2>2, <2>6, <2>7, <3>1, KeptEnd
  <2>9. s.context = Cat(One(i), Cat(One(k), d))
    BY <1>9, <1>23, <2>8 DEF k
  <2>10. CtxOf(q) = Cat(One(i), Cat(One(k), d))
    BY <2>4, <2>5
  <2>11. Cat(<<>>, Cat(One(k), d)) = Cat(One(k), d)
    BY <2>6, CatEmpty
  <2> QED BY <1>12, <1>17, <2>6, <2>9, <2>10, <2>11
<1>24. CASE e.kind = "compaction" /\ e.kept # 0 /\ FirstOf(p, e.kept) = 0
  <2>1. PICK v \in IdSeqs : s.context = Cat(One(i), v)
    <3>1. PlaceOf(r.context, e.kept) # 0 => From(r.context, e.kept) \in IdSeqs
      <4>1. e.parent \in Nat
        BY <1>1
      <4>2. r.context \in IdSeqs /\ Distinct(r.context) /\ e.kept \in ElementsOf(r.context)
        BY <1>2, <1>3, <1>24, <4>1, FitsMeans
      <4>3. PICK a \in IdSeqs, d \in IdSeqs : From(r.context, e.kept) = Cat(One(e.kept), d)
        BY <4>2, FromPlace
      <4> QED BY <1>1, <4>3, CatTypes
    <3>2. CASE PlaceOf(r.context, e.kept) = 0
      BY <1>9, <1>12, <1>24, <3>2
    <3>3. CASE PlaceOf(r.context, e.kept) # 0
      BY <1>9, <1>24, <3>1, <3>3
    <3> QED BY <3>2, <3>3
  <2>2. b # 0
    <3> SUFFICES ASSUME b = 0 PROVE FALSE
      OBVIOUS
    <3>1. r.all = Messages(p)
      BY <1>4, <1>7, <1>12, CatEmpty
    <3>2. e.kept \in ElementsOf(Messages(p))
      BY <1>2, <1>24, <3>1
    <3>3. PICK k \in 1..Len(p) : p[k].id = e.kept
      BY <1>4, <3>2, MessagesIds
    <3>4. \A m \in 1..Len(p) : p[m].id # e.kept
      BY <1>4, <1>24, FirstOfOne
    <3> QED BY <3>3, <3>4
  <2>3. CtxOf(q) = Cat(One(i), <<>>)
    BY <1>21, <1>24
  <2>4. Cat(v, <<>>) = v
    BY CatEmpty
  <2> QED BY <1>12, <1>17, <2>1, <2>2, <2>3, <2>4
<1> QED BY <1>10, <1>18, <1>20, <1>22, <1>23, <1>24

-----------------------------------------------------------------------------
(* The path from the root. *)

LEMMA KeepElements ==
  ASSUME NEW S, NEW T, NEW s \in Seq(S)
  PROVE  ElementsOf(Keep(s, T)) = ElementsOf(s) \cap T
<1> DEFINE P == {t \in Seq(S) : ElementsOf(Keep(t, T)) = ElementsOf(t) \cap T}
<1>1. <<>> \in P
  BY KeepEmpty, EmptyIsDistinct, EmptySeq
<1>2. ASSUME NEW t \in Seq(S), t \in P, NEW e \in S PROVE Append(t, e) \in P
  <2>1. Keep(Append(t, e), T) = IF e \in T THEN Append(Keep(t, T), e) ELSE Keep(t, T)
    BY KeepAppend
  <2>2. Keep(t, T) \in Seq(S)
    BY KeepType
  <2>3. ElementsOf(Append(t, e)) = ElementsOf(t) \cup {e}
    BY ElementsOfAppend
  <2>4. ElementsOf(Append(Keep(t, T), e)) = ElementsOf(Keep(t, T)) \cup {e}
    BY <2>2, ElementsOfAppend
  <2>5. ElementsOf(Keep(t, T)) = ElementsOf(t) \cap T
    BY <1>2
  <2>6. ElementsOf(Keep(Append(t, e), T)) = ElementsOf(Append(t, e)) \cap T
    <3>1. CASE e \in T
      BY <2>1, <2>3, <2>4, <2>5, <3>1
    <3>2. CASE e \notin T
      BY <2>1, <2>3, <2>5, <3>2
    <3> QED BY <3>1, <3>2
  <2> QED BY <2>6
<1>3. Seq(S) \subseteq P
  <2> HIDE DEF P
  <2> QED BY <1>1, <1>2, SeqInduction
<1> QED BY <1>3

\* f is the function of Path, up to n.
Found(m, at) == Find(m, at)
FoundLast(m, at) == Last(Found(m, at))
Above(m, k, at, f) ==
  IF k = 0 \/ Found(m, at) = <<>> THEN <<>>
  ELSE Append(f[k - 1][FoundLast(m, at).parent], FoundLast(m, at))
IsUp(f, m, n) == f = [k \in 0..n |-> [at \in 0..MaxIds |-> Above(m, k, at, f)]]

LEMMA UpExists ==
  ASSUME NEW m, NEW n \in Nat PROVE \E f : IsUp(f, m, n)
<1> DEFINE N == {i \in Nat : \E f : IsUp(f, m, i)}
<1>1. 0 \in N
  <2> DEFINE f == [k \in 0..0 |-> [at \in 0..MaxIds |-> <<>>]]
  <2>1. \A k \in 0..0 : [at \in 0..MaxIds |-> Above(m, k, at, f)] = [at \in 0..MaxIds |-> <<>>]
    BY DEF Above
  <2>2. IsUp(f, m, 0)
    BY <2>1 DEF IsUp
  <2> HIDE DEF f
  <2> QED BY <2>2
<1>2. ASSUME NEW i \in Nat, i \in N PROVE i + 1 \in N
  <2>1. PICK f : IsUp(f, m, i)
    BY <1>2
  <2> DEFINE h == [at \in 0..MaxIds |-> Above(m, i + 1, at, f)]
             g == [k \in 0..(i + 1) |-> IF k = i + 1 THEN h ELSE f[k]]
  <2>2. \A k \in 0..i : f[k] = [at \in 0..MaxIds |-> Above(m, k, at, f)]
    BY <2>1 DEF IsUp
  <2>3. \A k \in 0..(i + 1) : g[k] = [at \in 0..MaxIds |-> Above(m, k, at, g)]
    <3> TAKE k \in 0..(i + 1)
    <3>1. \A j \in 0..i : g[j] = f[j]
      BY <1>2
    <3>2. g[i + 1] = h
      BY <1>2
    <3> HIDE DEF g
    <3>3. \A at \in 0..MaxIds : Above(m, k, at, g) = Above(m, k, at, f)
      <4>1. k = 0 \/ k - 1 \in 0..i
        BY <1>2
      <4> QED BY <3>1, <4>1 DEF Above
    <3>4. [at \in 0..MaxIds |-> Above(m, k, at, g)] = [at \in 0..MaxIds |-> Above(m, k, at, f)]
      BY <3>3
    <3>5. CASE k = i + 1
      BY <3>2, <3>4, <3>5
    <3>6. CASE k \in 0..i
      BY <2>2, <3>1, <3>4, <3>6
    <3> QED BY <1>2, <3>5, <3>6
  <2>4. g = [k \in 0..(i + 1) |-> g[k]]
    OBVIOUS
  <2> HIDE DEF g
  <2>5. IsUp(g, m, i + 1)
    BY <2>3, <2>4 DEF IsUp
  <2> QED BY <2>5
<1>3. Nat \subseteq N
  <2> HIDE DEF N
  <2> QED BY <1>1, <1>2, SetInduction
<1> QED BY <1>3

LEMMA PathIs ==
  ASSUME MaxIds \in Nat, NEW m, NEW id \in 0..MaxIds
  PROVE  \E f : IsUp(f, m, MaxIds) /\ Path(m, id) = f[MaxIds][id]
<1> DEFINE f == CHOOSE h : IsUp(h, m, MaxIds)
<1>1. IsUp(f, m, MaxIds)
  BY UpExists
<1>2. Path(m, id) = f[MaxIds][id]
  BY DEF Path, IsUp, Above, Found, FoundLast
<1> QED BY <1>1, <1>2

LEMMA FoundIs ==
  ASSUME NEW m \in Seq(Entry), NEW at
  PROVE  /\ Found(m, at) = <<>> => \A e \in ElementsOf(m) : e.id # at
         /\ Found(m, at) # <<>> => FoundLast(m, at) \in ElementsOf(m) /\ FoundLast(m, at).id = at
<1> DEFINE T == {e \in ToSet(m) : e.id = at}
           hits == Keep(m, T)
<1>1. Found(m, at) = hits
  BY DEF Found, Find
<1>2. ToSet(m) = ElementsOf(m)
  BY DEF ToSet, ElementsOf
<1>3. T = {e \in ElementsOf(m) : e.id = at}
  BY <1>2
<1> HIDE DEF T
<1>4. hits \in Seq(Entry) /\ ElementsOf(hits) = ElementsOf(m) \cap T
  BY KeepType, KeepElements
<1> HIDE DEF hits
<1>5. CASE hits = <<>>
  <2>1. ElementsOf(m) \cap T = {}
    BY <1>4, <1>5, EmptyIsDistinct
  <2> QED BY <1>1, <1>3, <1>5, <2>1
<1>6. CASE hits # <<>>
  <2>1. Len(hits) \in DOMAIN hits
    BY <1>4, <1>6
  <2>2. hits[Len(hits)] \in ElementsOf(hits)
    BY <2>1 DEF ElementsOf
  <2>3. FoundLast(m, at) = hits[Len(hits)]
    BY <1>1 DEF FoundLast, Last
  <2>4. FoundLast(m, at) \in ElementsOf(m) /\ FoundLast(m, at).id = at
    BY <1>3, <1>4, <2>2, <2>3
  <2> QED BY <1>1, <1>6, <2>4
<1> QED BY <1>5, <1>6

\* Is there an entry at, or none needed?  And the parents of all of m?
Held(m, at) == at = 0 \/ \E d \in ElementsOf(m) : d.id = at
Whole(m) == \A e \in ElementsOf(m) : Held(m, e.parent)

LEMMA PathReads ==
  ASSUME MaxIds \in Nat, NEW g, NEW t, NEW n, Grown(g, t, n), NEW m \in Seq(Entry),
         \A e \in ElementsOf(m) : e.id \in 1..n /\ e = g[e.id], NEW id \in 0..n
  PROVE  \E b : /\ Reads(g, t, Path(m, id), b, id)
                /\ Whole(m) /\ Held(m, id) => b = 0
<1>1. n \in 0..MaxIds
  BY DEF Grown
<1>2. PICK f : IsUp(f, m, MaxIds) /\ Path(m, id) = f[MaxIds][id]
  <2>1. id \in 0..MaxIds
    BY <1>1
  <2> QED BY <2>1, PathIs
<1>3. \A k \in 0..MaxIds : \A at \in 0..MaxIds : f[k][at] = Above(m, k, at, f)
  <2>1. \A k \in 0..MaxIds : f[k] = [at \in 0..MaxIds |-> Above(m, k, at, f)]
    BY <1>2 DEF IsUp
  <2> TAKE k \in 0..MaxIds
  <2> TAKE at \in 0..MaxIds
  <2>2. f[k] = [a \in 0..MaxIds |-> Above(m, k, a, f)]
    BY <2>1
  <2> QED BY <2>2
<1> DEFINE Right(k, at) == \E b : /\ Reads(g, t, f[k][at], b, at)
                                  /\ Whole(m) /\ Held(m, at) => b = 0
           N == {k \in Nat : k <= MaxIds => \A at \in 0..n : at <= k => Right(k, at)}
<1>4. ASSUME NEW at \in 0..n, NEW k, f[k][at] = <<>>, at # 0 => ~Held(m, at) PROVE Right(k, at)
  <2>1. Reads(g, t, <<>>, at, at)
    BY ReadsNone
  <2> QED BY <1>4, <2>1
<1>5. 0 \in N
  <2> SUFFICES ASSUME NEW at \in 0..n, at <= 0 PROVE Right(0, at)
    OBVIOUS
  <2>1. at = 0 /\ at \in 0..MaxIds /\ 0 \in 0..MaxIds
    BY <1>1
  <2>2. f[0][at] = <<>>
    BY <1>3, <2>1 DEF Above
  <2> QED BY <1>4, <2>1, <2>2
<1>6. ASSUME NEW k \in Nat, k \in N PROVE k + 1 \in N
  <2> SUFFICES ASSUME k + 1 <= MaxIds, NEW at \in 0..n, at <= k + 1 PROVE Right(k + 1, at)
    OBVIOUS
  <2>1. k + 1 \in 0..MaxIds /\ at \in 0..MaxIds /\ k + 1 # 0 /\ (k + 1) - 1 = k /\ k <= MaxIds
    BY <1>1
  <2>2. f[k + 1][at] = IF Found(m, at) = <<>> THEN <<>>
                       ELSE Append(f[k][FoundLast(m, at).parent], FoundLast(m, at))
    BY <1>3, <2>1 DEF Above
  <2>3. CASE Found(m, at) = <<>>
    <3>1. at # 0 => ~Held(m, at)
      BY <2>3, FoundIs DEF Held
    <3> QED BY <1>4, <2>2, <2>3, <3>1
  <2>4. CASE Found(m, at) # <<>>
    <3> DEFINE e == FoundLast(m, at)
    <3>1. e \in ElementsOf(m) /\ e.id = at
      BY <2>4, FoundIs
    <3> HIDE DEF e
    <3>2. at \in 1..n /\ e = g[at]
      BY <3>1
    <3>3. g[at].parent \in 0..(at - 1)
      BY <3>2 DEF Grown
    <3> DEFINE o == g[at].parent
    <3>4. o \in 0..n /\ o <= k
      BY <1>1, <2>1, <3>2, <3>3
    <3>5. Right(k, o)
      BY <1>6, <2>1, <3>4
    <3>6. PICK b : Reads(g, t, f[k][o], b, o) /\ (Whole(m) /\ Held(m, o) => b = 0)
      BY <3>5
    <3>7. Reads(g, t, Append(f[k][o], g[at]), b, at)
      <4>1. Reads(g, t, f[k][o], b, g[at].parent)
        BY <3>6
      <4> HIDE DEF o
      <4> QED BY <3>2, <4>1, ReadsMore
    <3>8. f[k + 1][at] = Append(f[k][o], g[at])
      BY <2>2, <2>4, <3>2 DEF e
    <3>9. Whole(m) => b = 0
      BY <3>1, <3>2, <3>6 DEF Whole
    <3> QED BY <3>7, <3>8, <3>9
  <2> QED BY <2>3, <2>4
<1>7. Nat \subseteq N
  <2> HIDE DEF N
  <2> QED BY <1>5, <1>6, SetInduction
<1>8. Right(MaxIds, id)
  <2>1. MaxIds \in N /\ id <= MaxIds /\ MaxIds <= MaxIds
    BY <1>1, <1>7
  <2> QED BY <2>1
<1> QED BY <1>2, <1>8

LEMMA PathTells ==
  ASSUME MaxIds \in Nat, NEW g, NEW t, NEW n, Grown(g, t, n), NEW m \in Seq(Entry),
         \A e \in ElementsOf(m) : e.id \in 1..n /\ e = g[e.id], NEW id \in 0..n
  PROVE  /\ IsSubsequence(Context(m, id), t[id].context)
         /\ ModelOf(m, id) \in {0, t[id].model}
         /\ Whole(m) /\ Held(m, id) =>
              /\ Context(m, id) = t[id].context
              /\ ModelOf(m, id) = t[id].model
<1> DEFINE p == Path(m, id)
<1>1. PICK b : Reads(g, t, p, b, id) /\ (Whole(m) /\ Held(m, id) => b = 0)
  BY PathReads
<1>2. Context(m, id) = CtxOf(p) /\ ModelOf(m, id) = ModelAt(p)
  BY ContextIs
<1> HIDE DEF p
<1>3. ModelAt(p) \in {0, t[id].model} /\ (b = 0 => ModelAt(p) = t[id].model)
  BY <1>1 DEF Reads
<1>4. PICK x \in IdSeqs, y \in IdSeqs, z \in IdSeqs :
        CtxOf(p) = Cat(x, z) /\ t[id].context = Cat(x, Cat(y, z)) /\ (b = 0 => y = <<>>)
  BY <1>1 DEF Reads
<1>5. Distinct(t[id].context)
  <2>1. Fits(g, t[id], id) /\ id \in Nat
    BY DEF Grown
  <2> QED BY <2>1, FitsMeans
<1>6. IsSubsequence(CtxOf(p), t[id].context)
  BY <1>4, <1>5, CatIsKept
<1>7. b = 0 => CtxOf(p) = t[id].context
  BY <1>4, CatEmpty
<1> QED BY <1>1, <1>2, <1>3, <1>6, <1>7

-----------------------------------------------------------------------------
(* The invariant of EntryTree: there are the entries g, from which everyone reads. *)

Lines == Entry \cup {Garbled}

FileOf(g) ==
  /\ \A e \in ElementsOf(file) : e = Garbled \/ (e.id \in 1..ids /\ e = g[e.id])
  /\ lost = {} => \A i \in 1..ids : g[i] \in ElementsOf(file)
MemoryOf(g, m) ==
  /\ memory[m] \in Seq(Entry)
  /\ \A e \in ElementsOf(memory[m]) : e.id \in 1..ids /\ e = g[e.id]
  /\ Held(memory[m], leaf[m])
  /\ lost = {} => Whole(memory[m])
TreeInv ==
  /\ torn \in BOOLEAN /\ file \in Seq(Lines) /\ (torn => file # <<>>)
  /\ memory \in [Managers -> Seq(Lines)] /\ leaf \in [Managers -> 0..ids]
  /\ told = [i \in 0..MaxIds |-> told[i]]
  /\ \E g : Grown(g, told, ids) /\ FileOf(g)
            /\ \A m \in Managers : Open(m) => MemoryOf(g, m)

LEMMA TreeMeans ==
  ASSUME MaxIds \in Nat, TreeInv
  PROVE  ContextIsWhatWasTold
<1>1. PICK g : Grown(g, told, ids) /\ FileOf(g)
               /\ \A m \in Managers : Open(m) => MemoryOf(g, m)
  BY DEF TreeInv
<1> SUFFICES ASSUME NEW m \in Managers, Open(m)
             PROVE  LET context == Context(memory[m], leaf[m])
                        should == told[leaf[m]]
                    IN /\ IsSubsequence(context, should.context)
                       /\ ModelOf(memory[m], leaf[m]) \in {0, should.model}
                       /\ \/ /\ context = should.context
                             /\ ModelOf(memory[m], leaf[m]) = should.model
                          \/ lost # {}
  BY DEF ContextIsWhatWasTold, NoEntry
<1>2. /\ memory[m] \in Seq(Entry)
      /\ \A e \in ElementsOf(memory[m]) : e.id \in 1..ids /\ e = g[e.id]
      /\ Held(memory[m], leaf[m]) /\ (lost = {} => Whole(memory[m]))
  BY <1>1 DEF MemoryOf
<1>3. leaf[m] \in 0..ids
  BY DEF TreeInv
<1> DEFINE s == memory[m]
           id == leaf[m]
<1> HIDE DEF s, id
<1>4. /\ IsSubsequence(Context(s, id), told[id].context)
      /\ ModelOf(s, id) \in {0, told[id].model}
      /\ Whole(s) /\ Held(s, id) =>
           /\ Context(s, id) = told[id].context
           /\ ModelOf(s, id) = told[id].model
  BY <1>1, <1>2, <1>3, PathTells DEF s, id
<1> QED BY <1>2, <1>4 DEF s, id

LEMMA TreeFirst ==
  ASSUME MaxIds \in Nat, Init
  PROVE  TreeInv
<1> DEFINE e == <<>>
           g == e
<1>1. /\ file = e /\ torn = FALSE /\ leaf = [m \in Managers |-> 0] /\ ids = 0 /\ lost = {}
      /\ told = [i \in 0..MaxIds |-> [context |-> <<>>, all |-> <<>>, model |-> 0]]
  BY DEF Init, NoEntry
<1>2. PICK m \in Managers :
        memory = [n \in Managers |-> IF n = m THEN <<>> ELSE Closed]
  BY DEF Init
<1>3. e \in Seq(Lines) /\ e \in Seq(Entry) /\ <<Garbled>> \in Seq(Lines) /\ ElementsOf(e) = {}
  BY EmptySeq, EmptyIsDistinct DEF Lines
<1>4. memory \in [Managers -> Seq(Lines)] /\ leaf \in [Managers -> 0..ids]
      /\ told = [i \in 0..MaxIds |-> told[i]]
  BY <1>1, <1>2, <1>3 DEF Closed, Garbled
<1>5. ASSUME NEW n \in Managers, Open(n) PROVE MemoryOf(g, n)
  <2>1. memory[n] = e /\ leaf[n] = 0
    BY <1>1, <1>2, <1>5 DEF Open
  <2> QED BY <1>3, <2>1 DEF MemoryOf, Held, Whole
<1>6. FileOf(g)
  BY <1>1, <1>3 DEF FileOf
<1>7. Fits(g, told[0], 0)
  <2> DEFINE r == told[0]
  <2>1. r.context = e /\ r.all = e /\ r.model = 0
    BY <1>1
  <2> HIDE DEF r
  <2>2. e \in IdSeqs /\ Distinct(e) /\ e = Cat(e, e) /\ e \in Heads(r, 0)
    BY CatTypes, CatEmpty, EmptyIsDistinct DEF Heads
  <2> QED BY <1>3, <2>1, <2>2 DEF Fits, r
<1>8. Grown(g, told, ids)
  <2>1. told[0].context = <<>> /\ told[0].all = <<>> /\ told[0].model = 0
    BY <1>1
  <2> HIDE DEF g
  <2> QED BY <1>1, <1>7, <2>1 DEF Grown
<1> HIDE DEF g
<1> QED BY <1>1, <1>3, <1>4, <1>5, <1>6, <1>8 DEF TreeInv

\* One more entry is told of.
More(g, n, e) == [i \in 1..(n + 1) |-> IF i = n + 1 THEN e ELSE g[i]]

LEMMA GrownMore ==
  ASSUME MaxIds \in Nat, NEW g, NEW t, NEW n, Grown(g, t, n), n < MaxIds,
         NEW e \in Entry, e.id = n + 1, e.parent \in 0..n, NEW w,
         e.kept # 0 => e.kept \in ElementsOf(t[e.parent].context) \cap ElementsOf(t[e.parent].all),
         w[n + 1] = Tell(t[e.parent], e), \A i \in 0..n : w[i] = t[i]
  PROVE  Grown(More(g, n, e), w, n + 1)
<1> DEFINE h == More(g, n, e)
<1>1. n \in Nat /\ n + 1 \in 0..MaxIds /\ e.parent \in Nat
  BY DEF Grown
<1>2. h[n + 1] = e /\ \A i \in 1..n : h[i] = g[i]
  BY <1>1 DEF More
<1> HIDE DEF h
<1>3. /\ t[0].context = <<>> /\ t[0].all = <<>> /\ t[0].model = 0
      /\ \A i \in 1..n :
           /\ g[i] \in Entry /\ g[i].id = i /\ g[i].parent \in 0..(i - 1)
           /\ t[i] = Tell(t[g[i].parent], g[i])
           /\ g[i].kept # 0 =>
                g[i].kept \in ElementsOf(t[g[i].parent].context) \cap ElementsOf(t[g[i].parent].all)
      /\ \A i \in 0..n : Fits(g, t[i], i)
  BY DEF Grown
<1>4. w[0].context = <<>> /\ w[0].all = <<>> /\ w[0].model = 0
  BY <1>1, <1>3
<1>5. \A i \in 0..n : Fits(h, w[i], i)
  <2> TAKE i \in 0..n
  <2>1. Fits(g, t[i], i) /\ w[i] = t[i]
    BY <1>3
  <2>2. \A x \in ElementsOf(t[i].all) : h[x] = g[x]
    <3>1. ElementsOf(t[i].all) \subseteq 1..i
      BY <2>1 DEF Fits
    <3> QED BY <1>1, <1>2, <3>1
  <2> QED BY <2>1, <2>2 DEF Fits
<1>6. Fits(h, w[n + 1], n + 1)
  <2>1. Fits(h, t[e.parent], e.parent)
    BY <1>5
  <2>2. e \in Entry /\ e.parent < e.id /\ h[e.id] = e
    BY <1>1, <1>2
  <2>3. e.kind = "compaction" /\ e.kept # 0 =>
          e.kept \in ElementsOf(t[e.parent].context) /\ e.kept \in ElementsOf(t[e.parent].all)
    OBVIOUS
  <2> DEFINE r == t[e.parent]
             i == e.parent
  <2>4. /\ Fits(h, r, i) /\ i < e.id /\ i \in Nat
        /\ e.kind = "compaction" /\ e.kept # 0 => e.kept \in ElementsOf(r.context) /\ e.kept \in ElementsOf(r.all)
    BY <1>1, <2>1, <2>2, <2>3
  <2> HIDE DEF r, i
  <2>5. Fits(h, Tell(r, e), e.id)
    BY <2>2, <2>4, TellFits
  <2> QED BY <2>5 DEF r
<1>7. \A i \in 0..(n + 1) : Fits(h, w[i], i)
  <2>1. \A i \in 0..(n + 1) : i \in 0..n \/ i = n + 1
    BY <1>1
  <2> QED BY <1>5, <1>6, <2>1
<1>8. \A i \in 1..(n + 1) :
        /\ h[i] \in Entry /\ h[i].id = i /\ h[i].parent \in 0..(i - 1)
        /\ w[i] = Tell(w[h[i].parent], h[i])
        /\ h[i].kept # 0 =>
             h[i].kept \in ElementsOf(w[h[i].parent].context) \cap ElementsOf(w[h[i].parent].all)
  <2> TAKE i \in 1..(n + 1)
  <2>1. CASE i = n + 1
    <3>1. h[i] = e /\ w[e.parent] = t[e.parent] /\ e.parent \in 0..(i - 1)
      BY <1>1, <1>2, <2>1
    <3> QED BY <2>1, <3>1
  <2>2. CASE i \in 1..n
    <3>1. h[i] = g[i] /\ w[i] = t[i]
      BY <1>2, <2>2
    <3>2. g[i].parent \in 0..(i - 1)
      BY <1>3, <2>2
    <3>3. w[g[i].parent] = t[g[i].parent]
      BY <1>1, <2>2, <3>2
    <3> QED BY <1>3, <2>2, <3>1, <3>3
  <2> QED BY <1>1, <2>1, <2>2
<1>9. Grown(h, w, n + 1)
  BY <1>1, <1>4, <1>7, <1>8 DEF Grown
<1> QED BY <1>9 DEF h

LEMMA TreeLoads ==
  ASSUME MaxIds \in Nat, TreeInv, NEW m \in Managers, Load(m)
  PROVE  TreeInv'
<1> DEFINE r == Keep(file, ToSet(file) \ {Garbled})
<1>1. /\ memory' = [memory EXCEPT ![m] = r]
      /\ leaf' = [leaf EXCEPT ![m] = IF r = <<>> THEN 0 ELSE Last(r).id]
      /\ file' = file /\ torn' = torn /\ ids' = ids /\ told' = told /\ lost' = lost
  BY DEF Load, Garbled, NoEntry
<1>2. PICK g : Grown(g, told, ids) /\ FileOf(g)
               /\ \A o \in Managers : Open(o) => MemoryOf(g, o)
  BY DEF TreeInv
<1>3. /\ torn \in BOOLEAN /\ file \in Seq(Lines) /\ (torn => file # <<>>)
      /\ memory \in [Managers -> Seq(Lines)] /\ leaf \in [Managers -> 0..ids]
      /\ told = [i \in 0..MaxIds |-> told[i]]
  BY DEF TreeInv
<1>4. ids \in Nat /\ \A i \in 1..ids : g[i] \in Entry /\ g[i].id = i /\ g[i].parent \in 0..(i - 1)
  BY <1>2 DEF Grown
<1>5. /\ \A e \in ElementsOf(file) : e = Garbled \/ (e.id \in 1..ids /\ e = g[e.id])
      /\ lost = {} => \A i \in 1..ids : g[i] \in ElementsOf(file)
  BY <1>2 DEF FileOf
<1>6. r \in Seq(Lines) /\ ElementsOf(r) = ElementsOf(file) \ {Garbled}
  <2>1. ToSet(file) = ElementsOf(file)
    BY DEF ToSet, ElementsOf
  <2> DEFINE T == ToSet(file) \ {Garbled}
  <2>2. ElementsOf(file) \cap T = ElementsOf(file) \ {Garbled}
    BY <2>1
  <2> HIDE DEF T
  <2>3. Keep(file, T) \in Seq(Lines) /\ ElementsOf(Keep(file, T)) = ElementsOf(file) \cap T
    BY <1>3, KeepType, KeepElements
  <2> QED BY <2>2, <2>3 DEF T
<1> HIDE DEF r
<1>7. \A e \in ElementsOf(r) : e.id \in 1..ids /\ e = g[e.id] /\ e \in Entry
  BY <1>4, <1>5, <1>6
<1>8. r \in Seq(Entry)
  <2>1. Len(r) \in Nat /\ r = [k \in 1..Len(r) |-> r[k]] /\ DOMAIN r = 1..Len(r)
    BY <1>6
  <2>2. \A k \in 1..Len(r) : r[k] \in Entry
    BY <1>7, <2>1 DEF ElementsOf
  <2> QED BY <2>1, <2>2
<1> DEFINE at == IF r = <<>> THEN 0 ELSE Last(r).id
<1>9. at \in 0..ids /\ Held(r, at)
  <2>1. CASE r = <<>>
    BY <1>4, <2>1 DEF Held
  <2>2. CASE r # <<>>
    <3>1. Len(r) \in DOMAIN r
      BY <1>8, <2>2
    <3>2. r[Len(r)] \in ElementsOf(r)
      BY <3>1 DEF ElementsOf
    <3>3. at = r[Len(r)].id
      BY <2>2 DEF Last
    <3> HIDE DEF at
    <3> QED BY <1>7, <3>2, <3>3 DEF Held
  <2> QED BY <2>1, <2>2
<1>10. leaf' = [leaf EXCEPT ![m] = at]
  BY <1>1
<1> HIDE DEF at
<1>11. lost = {} => Whole(r)
  <2> SUFFICES ASSUME lost = {}, NEW e \in ElementsOf(r) PROVE Held(r, e.parent)
    BY DEF Whole
  <2>1. e.id \in 1..ids /\ e = g[e.id]
    BY <1>7
  <2> DEFINE i == e.parent
  <2>2. i \in 0..ids
    <3>1. g[e.id].parent \in 0..(e.id - 1)
      BY <1>4, <2>1
    <3> QED BY <1>4, <2>1, <3>1
  <2> HIDE DEF i
  <2>3. CASE i = 0
    BY <2>3 DEF Held, i
  <2>4. CASE i # 0
    <3>1. i \in 1..ids
      BY <1>4, <2>2, <2>4
    <3>2. g[i] \in ElementsOf(file) /\ g[i].id = i
      BY <1>4, <1>5, <3>1
    <3>3. Garbled.id = 0
      BY DEF Garbled, NoEntry
    <3>4. g[i] # Garbled
      BY <2>4, <3>2, <3>3
    <3>5. g[i] \in ElementsOf(r)
      BY <1>6, <3>2, <3>4
    <3> QED BY <3>2, <3>5 DEF Held, i
  <2> QED BY <2>3, <2>4
<1>12. \A o \in Managers : Open(o)' => MemoryOf(g, o)'
  <2> SUFFICES ASSUME NEW o \in Managers, Open(o)' PROVE MemoryOf(g, o)'
    OBVIOUS
  <2>1. CASE o = m
    <3>1. memory'[o] = r /\ leaf'[o] = at
      BY <1>1, <1>3, <1>10, <2>1
    <3> QED BY <1>1, <1>7, <1>8, <1>9, <1>11, <3>1 DEF MemoryOf
  <2>2. CASE o # m
    <3>1. memory'[o] = memory[o] /\ leaf'[o] = leaf[o]
      BY <1>1, <1>3, <1>10, <2>2
    <3>2. Open(o)
      BY <3>1 DEF Open
    <3>3. MemoryOf(g, o)
      BY <1>2, <3>2
    <3> QED BY <1>1, <3>1, <3>3 DEF MemoryOf
  <2> QED BY <2>1, <2>2
<1>13. FileOf(g)'
  BY <1>1, <1>2 DEF FileOf
<1>14. memory' \in [Managers -> Seq(Lines)] /\ leaf' \in [Managers -> 0..ids]
  BY <1>1, <1>3, <1>6, <1>9, <1>10
<1>15. Grown(g, told', ids')
  BY <1>1, <1>2
<1> QED BY <1>1, <1>3, <1>12, <1>13, <1>14, <1>15 DEF TreeInv

\* The manager appends e, and what becomes of the file.
Writes(e) ==
  LET behind == IF torn THEN [file EXCEPT ![Len(file)] = Garbled] ELSE Append(file, e)
      gone == IF torn THEN {Last(file).id} ELSE {}
  IN
  \/ /\ file' = behind /\ torn' = FALSE /\ faults' = faults
     /\ lost' = lost \cup gone \cup (IF torn THEN {e.id} ELSE {})
  \/ /\ faults < MaxFaults /\ faults' = faults + 1
     /\ \/ file' = behind /\ torn' = TRUE
           /\ lost' = lost \cup gone \cup (IF torn THEN {e.id} ELSE {})
        \/ file' = file /\ torn' = torn /\ lost' = lost \cup {e.id}
        \/ /\ file' = (IF torn THEN behind ELSE Append(file, Garbled)) /\ torn' = TRUE
           /\ lost' = lost \cup gone \cup {e.id}
Appends(m, parent, e) ==
  /\ memory' = [memory EXCEPT ![m] = Append(@, e)]
  /\ leaf' = [leaf EXCEPT ![m] = e.id]
  /\ told' = [told EXCEPT ![e.id] = Tell(told[parent], e)]
  /\ Writes(e)
Torned == [file EXCEPT ![Len(file)] = Garbled]

LEMMA WritesWhat ==
  ASSUME torn \in BOOLEAN, NEW e, Writes(e)
  PROVE  /\ file' \in {file, Append(file, e), Append(file, Garbled)} \/ (torn /\ file' = Torned)
         /\ torn' \in BOOLEAN /\ (torn' => torn \/ file' \in {Append(file, e), Append(file, Garbled)})
         /\ lost' = {} => lost = {} /\ file' = Append(file, e)
<1>1. CASE torn
  BY <1>1 DEF Writes, Torned, Garbled
<1>2. CASE ~torn
  <2>1. \/ file' = Append(file, e) /\ torn' \in BOOLEAN /\ lost' = lost \cup {} \cup {}
        \/ file' = file /\ torn' = torn /\ lost' = lost \cup {e.id}
        \/ file' = Append(file, Garbled) /\ torn' = TRUE /\ lost' = lost \cup {} \cup {e.id}
    BY <1>2 DEF Writes, Garbled
  <2>2. \/ file' = Append(file, e) /\ torn' \in BOOLEAN /\ lost' = lost
        \/ file' = file /\ torn' = FALSE /\ lost' # {}
        \/ file' = Append(file, Garbled) /\ torn' = TRUE /\ lost' # {}
    BY <1>2, <2>1
  <2> QED BY <1>2, <2>2
<1> QED BY <1>1, <1>2

LEMMA TreeAppends ==
  ASSUME MaxIds \in Nat, TreeInv, NEW m \in Managers, AppendRaw(m)
  PROVE  TreeInv'
<1> DEFINE n == ids + 1
<1>1. PICK g : Grown(g, told, ids) /\ FileOf(g)
               /\ \A o \in Managers : Open(o) => MemoryOf(g, o)
  BY DEF TreeInv
<1>2. /\ torn \in BOOLEAN /\ file \in Seq(Lines) /\ (torn => file # <<>>)
      /\ memory \in [Managers -> Seq(Lines)] /\ leaf \in [Managers -> 0..ids]
      /\ told = [i \in 0..MaxIds |-> told[i]]
  BY DEF TreeInv
<1>3. Open(m) /\ ids < MaxIds /\ ids' = n
  BY DEF AppendRaw
<1>4. PICK kind \in EntryKinds :
        \E p \in Parents(m, kind) :
          \E k \in KeptBy(kind, p) :
            Appends(m, p, [id |-> ids', parent |-> p, kind |-> kind, kept |-> k])
  BY Zenon DEF AppendRaw, Appends, Writes
<1>4a. PICK parent \in Parents(m, kind) :
        \E k \in KeptBy(kind, parent) :
          Appends(m, parent, [id |-> ids', parent |-> parent, kind |-> kind, kept |-> k])
  BY <1>4
<1>4b. PICK kept \in KeptBy(kind, parent) :
        Appends(m, parent, [id |-> ids', parent |-> parent, kind |-> kind, kept |-> kept])
  BY <1>4a
<1>4c. PICK e : e = [id |-> n, parent |-> parent, kind |-> kind, kept |-> kept]
  OBVIOUS
<1>4d. Appends(m, parent, e)
  BY <1>3, <1>4c, <1>4b
<1>7. e.id = n /\ e.parent = parent /\ e.kind = kind /\ e.kept = kept
  BY <1>4c
<1>5. /\ memory' = [memory EXCEPT ![m] = Append(@, e)] /\ leaf' = [leaf EXCEPT ![m] = n]
      /\ told' = [told EXCEPT ![n] = Tell(told[parent], e)]
  BY <1>7, <1>4d DEF Appends
<1>6. /\ file' \in {file, Append(file, e), Append(file, Garbled)} \/ (torn /\ file' = Torned)
      /\ torn' \in BOOLEAN /\ (torn' => torn \/ file' \in {Append(file, e), Append(file, Garbled)})
      /\ lost' = {} => lost = {} /\ file' = Append(file, e)
  BY <1>2, <1>4d, WritesWhat DEF Appends
<1>8. /\ memory[m] \in Seq(Entry) /\ Held(memory[m], leaf[m])
      /\ \A d \in ElementsOf(memory[m]) : d.id \in 1..ids /\ d = g[d.id]
      /\ lost = {} => Whole(memory[m])
  BY <1>1, <1>3 DEF MemoryOf
<1>9. ids \in Nat /\ n \in 1..MaxIds /\ (\A i \in 0..ids : Fits(g, told[i], i))
      /\ \A i \in 1..ids : g[i] \in Entry /\ g[i].id = i
  BY <1>1, <1>3 DEF Grown
<1>10. parent \in 0..ids /\ Held(memory[m], parent)
  <2>1. ToSet(memory[m]) = ElementsOf(memory[m])
    BY DEF ToSet, ElementsOf
  <2>2. parent = leaf[m] \/ \E d \in ElementsOf(memory[m]) : parent = d.id
    BY <2>1 DEF Parents
  <2>3. CASE parent = leaf[m]
    BY <1>2, <1>8, <2>3
  <2>4. ASSUME NEW d \in ElementsOf(memory[m]), parent = d.id
        PROVE  parent \in 0..ids /\ Held(memory[m], parent)
    BY <1>8, <1>9, <2>4 DEF Held
  <2> QED BY <2>2, <2>3, <2>4
<1>11. /\ kept # 0 =>
            kept \in ElementsOf(told[parent].context) \cap ElementsOf(told[parent].all)
       /\ kept \in 0..MaxIds
  <2>1. /\ ToSet(told[parent].context) = ElementsOf(told[parent].context)
        /\ ToSet(told[parent].all) = ElementsOf(told[parent].all)
    BY DEF ToSet, ElementsOf
  <2>2. kept # 0 => kept \in ElementsOf(told[parent].context) \cap ElementsOf(told[parent].all)
    BY <2>1 DEF KeptBy, NoEntry
  <2>3. ElementsOf(told[parent].all) \subseteq 1..parent
    BY <1>9, <1>10 DEF Fits
  <2>4. kept # 0 => kept \in 1..MaxIds
    BY <1>9, <1>10, <2>2, <2>3
  <2> QED BY <2>2, <2>4
<1> HIDE DEF n
<1>12. e \in Entry
  <2>1. parent \in 0..MaxIds
    BY <1>3, <1>9, <1>10
  <2> QED BY <1>9, <1>11, <1>4c, <2>1 DEF Entry
<1>12a. PICK h : h = More(g, ids, e)
  OBVIOUS
<1>13. h[n] = e /\ \A i \in 1..ids : h[i] = g[i]
  BY <1>9, <1>12a DEF More, n
<1>14. told'[n] = Tell(told[parent], e) /\ (\A i \in 0..ids : told'[i] = told[i])
       /\ told' = [i \in 0..MaxIds |-> told'[i]]
  <2>1. n \in 0..MaxIds /\ \A i \in 0..ids : i # n /\ i \in 0..MaxIds
    BY <1>3, <1>9 DEF n
  <2> QED BY <1>2, <1>5, <2>1
<1>15. Grown(h, told', n)
  <2> DEFINE w == told'
             t == told
             o == ids
  <2>1. /\ Grown(g, t, o) /\ o < MaxIds /\ e.id = o + 1 /\ e.parent \in 0..o
        /\ e.kept # 0 => e.kept \in ElementsOf(t[e.parent].context) \cap ElementsOf(t[e.parent].all)
        /\ w[o + 1] = Tell(t[e.parent], e) /\ \A i \in 0..o : w[i] = t[i]
    BY <1>1, <1>3, <1>7, <1>10, <1>11, <1>14 DEF n
  <2> HIDE DEF w, t, o
  <2>2. Grown(More(g, o, e), w, o + 1)
    BY <1>12, <2>1, GrownMore
  <2> QED BY <1>12a, <2>2 DEF w, o, n
<1>16. /\ \A d : d.id \in 1..ids /\ d = g[d.id] => d.id \in 1..n /\ d = h[d.id]
       /\ e.id \in 1..n /\ e = h[e.id]
       /\ \A i \in 1..n : i \in 1..ids \/ i = n
  BY <1>7, <1>9, <1>13 DEF n
<1>17. \A s \in Seq(Lines) : \A d \in Lines :
         ElementsOf(Append(s, d)) = ElementsOf(s) \cup {d} /\ Append(s, d) \in Seq(Lines) /\ Append(s, d) # <<>>
  <2> TAKE s \in Seq(Lines)
  <2> TAKE d \in Lines
  <2>1. ElementsOf(Append(s, d)) = ElementsOf(s) \cup {d}
    BY ElementsOfAppend
  <2>2. Append(s, d) \in Seq(Lines) /\ Append(s, d) # <<>>
    <3>1. Len(Append(s, d)) = Len(s) + 1 /\ Len(s) \in Nat /\ Append(s, d) \in Seq(Lines)
      BY SameChosen
    <3>2. Len(<<>>) = 0
      OBVIOUS
    <3> QED BY <3>1, <3>2
  <2> QED BY <2>1, <2>2
<1>18. e \in Lines /\ Garbled \in Lines
  BY <1>12 DEF Lines
<1>19. torn => Torned \in Seq(Lines) /\ ElementsOf(Torned) \subseteq ElementsOf(file) \cup {Garbled}
               /\ Torned # <<>>
  <2> SUFFICES ASSUME torn
               PROVE  Torned \in Seq(Lines) /\ ElementsOf(Torned) \subseteq ElementsOf(file) \cup {Garbled}
                      /\ Torned # <<>>
    OBVIOUS
  <2>1. Len(file) \in 1..Len(file) /\ DOMAIN file = 1..Len(file) /\ file \in Seq(Lines)
    BY <1>2
  <2>2. /\ Torned = [k \in 1..Len(file) |-> IF k = Len(file) THEN Garbled ELSE file[k]]
    BY <2>1 DEF Torned
  <2>6. \A k \in 1..Len(file) : file[k] \in Lines
    BY <2>1, ElementOfSeq
  <2>3. Torned \in Seq(Lines) /\ DOMAIN Torned = 1..Len(file) /\ Torned # <<>>
    <3> DEFINE k == Len(file)
    <3>1. k \in Nat /\ k \in 1..k
      BY <2>1
    <3> HIDE DEF k
    <3>2. Torned = [j \in 1..k |-> IF j = k THEN Garbled ELSE file[j]]
      BY <2>2 DEF k
    <3>3. \A j \in 1..k : file[j] \in Lines
      BY <2>6 DEF k
    <3>4. Torned \in [1..k -> Lines] /\ DOMAIN Torned = 1..k
      BY <1>18, <3>2, <3>3
    <3>5. Torned \in Seq(Lines)
      BY <3>1, <3>4, SeqDef
    <3>6. DOMAIN <<>> = {}
      OBVIOUS
    <3>7. Torned # <<>>
      BY <3>1, <3>4, <3>6
    <3> QED BY <3>4, <3>5, <3>7 DEF k
  <2>4. \A k \in 1..Len(file) : Torned[k] \in ElementsOf(file) \cup {Garbled}
    BY <2>1, <2>2 DEF ElementsOf
  <2>5. ElementsOf(Torned) \subseteq ElementsOf(file) \cup {Garbled}
    BY <2>3, <2>4 DEF ElementsOf
  <2> QED BY <2>3, <2>5
<1>20. /\ file' \in Seq(Lines) /\ ElementsOf(file') \subseteq ElementsOf(file) \cup {e, Garbled}
       /\ torn' => file' # <<>>
  <2>1. CASE file' = file
    BY <1>2, <1>6, <1>17, <1>18, <2>1
  <2>2. CASE file' = Append(file, e)
    BY <1>2, <1>17, <1>18, <2>2
  <2>4. CASE file' = Append(file, Garbled)
    BY <1>2, <1>17, <1>18, <2>4
  <2>3. CASE torn /\ file' = Torned
    BY <1>19, <2>3
  <2> QED BY <1>6, <2>1, <2>2, <2>3, <2>4
<1>21. FileOf(h)'
  <2>1. ASSUME NEW d \in ElementsOf(file') PROVE d = Garbled \/ (d.id \in 1..n /\ d = h[d.id])
    <3>1. d \in ElementsOf(file) => d = Garbled \/ (d.id \in 1..ids /\ d = g[d.id])
      BY <1>1 DEF FileOf
    <3> QED BY <1>16, <1>20, <2>1, <3>1
  <2>2. ASSUME lost' = {}, NEW i \in 1..n PROVE h[i] \in ElementsOf(file')
    <3>1. lost = {} /\ ElementsOf(file') = ElementsOf(file) \cup {e}
      BY <1>2, <1>6, <1>17, <1>18, <2>2
    <3>2. \A j \in 1..ids : g[j] \in ElementsOf(file)
      BY <1>1, <3>1 DEF FileOf
    <3> QED BY <1>13, <1>16, <3>1, <3>2
  <2> QED BY <1>3, <2>1, <2>2 DEF FileOf
<1>22. \A o \in Managers : Open(o)' => MemoryOf(h, o)'
  <2> SUFFICES ASSUME NEW o \in Managers, Open(o)' PROVE MemoryOf(h, o)'
    OBVIOUS
  <2>1. CASE o = m
    <3> DEFINE s == memory[m]
               q == Append(s, e)
    <3>1. memory'[o] = q /\ leaf'[o] = n
      BY <1>2, <1>5, <2>1
    <3>2. s \in Seq(Entry)
      BY <1>8
    <3> HIDE DEF s
    <3>3. q \in Seq(Entry) /\ ElementsOf(q) = ElementsOf(s) \cup {e}
      BY <1>12, <3>2, ElementsOfAppend
    <3> HIDE DEF q
    <3>4. \A d \in ElementsOf(q) : d.id \in 1..n /\ d = h[d.id]
      BY <1>8, <1>16, <3>3 DEF s
    <3>5. Held(q, n) /\ \A x : Held(s, x) => Held(q, x)
      BY <1>7, <3>3 DEF Held
    <3>6. lost' = {} => Whole(q)
      BY <1>6, <1>7, <1>8, <1>10, <3>3, <3>5 DEF Whole, s
    <3> QED BY <1>3, <3>1, <3>3, <3>4, <3>5, <3>6 DEF MemoryOf
  <2>2. CASE o # m
    <3>1. memory'[o] = memory[o] /\ leaf'[o] = leaf[o]
      BY <1>2, <1>5, <2>2
    <3>2. Open(o)
      BY <3>1 DEF Open
    <3>3. MemoryOf(g, o)
      BY <1>1, <3>2
    <3>4. \A d \in ElementsOf(memory[o]) : d.id \in 1..n /\ d = h[d.id]
      BY <1>16, <3>3 DEF MemoryOf
    <3> QED BY <1>3, <1>6, <3>1, <3>3, <3>4 DEF MemoryOf
  <2> QED BY <2>1, <2>2
<1>23. memory' \in [Managers -> Seq(Lines)] /\ leaf' \in [Managers -> 0..n]
  <2>1. Append(memory[m], e) \in Seq(Lines)
    BY <1>2, <1>17, <1>18
  <2>2. memory' \in [Managers -> Seq(Lines)]
    BY <1>2, <1>5, <2>1
  <2>3. n \in 0..n /\ 0..ids \subseteq 0..n
    BY <1>9 DEF n
  <2>4. leaf' \in [Managers -> 0..n]
    BY <1>2, <1>5, <2>3
  <2> QED BY <2>2, <2>4
<1>24. torn' \in BOOLEAN
  BY <1>6
<1>25. \E f : Grown(f, told', ids') /\ FileOf(f)'
              /\ \A o \in Managers : Open(o)' => MemoryOf(f, o)'
  BY <1>3, <1>15, <1>21, <1>22
<1> QED BY <1>3, <1>14, <1>20, <1>23, <1>24, <1>25 DEF TreeInv

LEMMA TreeStep ==
  ASSUME MaxIds \in Nat, TreeInv, [Next]_(vars)
  PROVE  TreeInv'
<1>1. CASE Next
  BY <1>1, TreeLoads, TreeAppends DEF Next
<1>2. CASE UNCHANGED vars
  BY <1>2 DEF vars, TreeInv, FileOf, MemoryOf, Open
<1> QED BY <1>1, <1>2
=============================================================================
