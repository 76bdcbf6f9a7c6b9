---------------------------- MODULE MCPartsProofs ----------------------------
(* Theorems about the components that have no state in common, for every value of
   their constants: an invariant of one component holds while it is at work, as
   nothing else then moves.  The invariants are those of PartsProofs and of
   EntryTreeProofs; those of UIStream and of Sessions come first here. *)
EXTENDS MCParts, PartsProofs

-----------------------------------------------------------------------------
(* UIStream: a client of the message stream that puts the parts together has what the
   entries say, whatever they say and however many there are. *)

\* f is the function of Shown, for the first n parts.
IsShown(f, v, parts, n) ==
  f = [i \in 0..n |-> IF i = 0 THEN v ELSE UIStreamPart!Show(parts[i], f[i - 1])]

LEMMA ShownExists ==
  ASSUME NEW v, NEW parts, NEW n \in Nat
  PROVE  \E f : IsShown(f, v, parts, n)
<1> DEFINE N == {m \in Nat : \E f : IsShown(f, v, parts, m)}
<1>1. 0 \in N
  <2>1. IsShown([i \in 0..0 |-> v], v, parts, 0)
    BY DEF IsShown
  <2> QED BY <2>1
<1>2. ASSUME NEW m \in Nat, m \in N PROVE m + 1 \in N
  <2>1. PICK f : IsShown(f, v, parts, m)
    BY <1>2
  <2> DEFINE g == 
           [i \in 0..(m + 1) |-> IF i = m + 1 THEN UIStreamPart!Show(parts[m + 1], f[m]) ELSE f[i]]
  <2>2. IsShown(g, v, parts, m + 1)
    <3>1. \A i \in 0..m : f[i] = IF i = 0 THEN v ELSE UIStreamPart!Show(parts[i], f[i - 1])
      BY <2>1 DEF IsShown
    <3>2. \A i \in 0..(m + 1) : g[i] = IF i = 0 THEN v ELSE UIStreamPart!Show(parts[i], g[i - 1])
      BY <3>1
    <3> HIDE DEF g
    <3>3. g = [i \in 0..(m + 1) |-> g[i]]
      BY DEF g
    <3> QED BY <3>2, <3>3 DEF IsShown
  <2> HIDE DEF g
  <2> QED BY <2>2
<1>3. Nat \subseteq N
  <2> HIDE DEF N
  <2> QED BY <1>1, <1>2, SetInduction
<1> QED BY <1>3

LEMMA ShownAgree ==
  ASSUME NEW v, NEW s, NEW t, NEW n \in Nat, NEW m \in Nat, n <= m, SameUpTo(s, t, n),
         NEW f, IsShown(f, v, s, n), NEW g, IsShown(g, v, t, m)
  PROVE  \A k \in 0..n : f[k] = g[k]
<1> DEFINE N == {k \in Nat : k <= n => f[k] = g[k]}
<1>1. /\ \A i \in 0..n : f[i] = IF i = 0 THEN v ELSE UIStreamPart!Show(s[i], f[i - 1])
      /\ \A i \in 0..m : g[i] = IF i = 0 THEN v ELSE UIStreamPart!Show(t[i], g[i - 1])
  BY DEF IsShown
<1>2. 0 \in N
  BY <1>1
<1>3. ASSUME NEW k \in Nat, k \in N PROVE k + 1 \in N
  <2> SUFFICES ASSUME k + 1 <= n PROVE f[k + 1] = g[k + 1]
    OBVIOUS
  <2>1. f[k] = g[k] /\ k + 1 \in 0..n /\ k + 1 \in 0..m /\ (k + 1) - 1 = k
        /\ k + 1 # 0 /\ s[k + 1] = t[k + 1]
    BY <1>3 DEF SameUpTo
  <2> QED BY <1>1, <2>1
<1>4. Nat \subseteq N
  <2> HIDE DEF N
  <2> QED BY <1>2, <1>3, SetInduction
<1> QED BY <1>4

\* One more part comes last.
LEMMA ShownAppend ==
  ASSUME NEW S, NEW v, NEW s \in Seq(S), NEW p \in S
  PROVE  UIStreamPart!Shown(v, Append(s, p)) = UIStreamPart!Show(p, UIStreamPart!Shown(v, s))
<1> DEFINE t == Append(s, p)
           n == Len(s)
           f == CHOOSE h : IsShown(h, v, s, n)
           g == CHOOSE h : IsShown(h, v, t, n + 1)
<1>1. n \in Nat /\ Len(t) = n + 1 /\ t[n + 1] = p /\ \A i \in 1..n : s[i] = t[i]
  OBVIOUS
<1>2. UIStreamPart!Shown(v, s) = f[n] /\ UIStreamPart!Shown(v, t) = g[n + 1]
  BY <1>1 DEF UIStreamPart!Shown, IsShown
<1> HIDE DEF t, n
<1>3. IsShown(f, v, s, n)
  BY <1>1, ShownExists
<1>4. n + 1 \in Nat /\ n <= n + 1 /\ n \in 0..n /\ n + 1 \in 0..(n + 1) /\ (n + 1) - 1 = n
          /\ n + 1 # 0
  BY <1>1
<1>5. IsShown(g, v, t, n + 1)
  BY <1>4, ShownExists
<1> HIDE DEF f, g
<1>6. f[n] = g[n]
  <2>1. \A k \in 0..n : f[k] = g[k]
    <3> DEFINE m == n + 1
    <3>1. m \in Nat /\ n <= m /\ IsShown(g, v, t, m) /\ SameUpTo(s, t, n)
      BY <1>1, <1>4, <1>5 DEF SameUpTo
    <3> HIDE DEF m
    <3> QED BY <1>1, <1>3, <3>1, ShownAgree
  <2> QED BY <1>4, <2>1
<1>7. g[n + 1] = UIStreamPart!Show(t[n + 1], g[n])
  <2>1. \A i \in 0..(n + 1) : g[i] = IF i = 0 THEN v ELSE UIStreamPart!Show(t[i], g[i - 1])
    BY <1>5 DEF IsShown
  <2> QED BY <1>4, <2>1
<1> QED BY <1>1, <1>2, <1>6, <1>7 DEF t

LEMMA ShownEmpty == \A v : UIStreamPart!Shown(v, <<>>) = v
<1> SUFFICES ASSUME NEW v PROVE UIStreamPart!Shown(v, <<>>) = v
  OBVIOUS
<1> DEFINE n == 0
           s == <<>>
           f == CHOOSE h : IsShown(h, v, s, n)
<1>1. n \in Nat /\ n = Len(s) /\ n \in 0..n
  OBVIOUS
<1>2. UIStreamPart!Shown(v, s) = f[n]
  BY <1>1 DEF UIStreamPart!Shown, IsShown
<1>3. n = 0 /\ s = <<>>
  OBVIOUS
<1> HIDE DEF n, s
<1>4. IsShown(f, v, s, n)
  BY <1>1, ShownExists
<1> HIDE DEF f
<1>5. f[n] = v
  BY <1>1, <1>3, <1>4 DEF IsShown
<1> QED BY <1>2, <1>3, <1>5

LEMMA ShownOne ==
  ASSUME NEW v, NEW p
  PROVE  UIStreamPart!Shown(v, <<p>>) = UIStreamPart!Show(p, v)
<1> DEFINE S == {p}
<1>1. <<>> \in Seq(S) /\ <<p>> = Append(<<>>, p) /\ p \in S
  OBVIOUS
<1> HIDE DEF S
<1>2. UIStreamPart!Shown(v, Append(<<>>, p)) = UIStreamPart!Show(p, UIStreamPart!Shown(v, <<>>))
  BY <1>1, ShownAppend
<1> QED BY <1>1, <1>2, ShownEmpty

LEMMA ShownTwo ==
  ASSUME NEW v, NEW p, NEW q
  PROVE  UIStreamPart!Shown(v, <<p, q>>) = UIStreamPart!Show(q, UIStreamPart!Show(p, v))
<1> DEFINE S == {p, q}
           s == <<p>>
<1>1. s \in Seq(S) /\ <<p, q>> = Append(s, q) /\ q \in S
  OBVIOUS
<1>2. UIStreamPart!Shown(v, s) = UIStreamPart!Show(p, v)
  BY ShownOne
<1> HIDE DEF S, s
<1>3. UIStreamPart!Shown(v, Append(s, q)) = UIStreamPart!Show(q, UIStreamPart!Shown(v, s))
  BY <1>1, ShownAppend
<1> QED BY <1>1, <1>2, <1>3

\* Parts after parts.
LEMMA ShownConcat ==
  ASSUME NEW S, NEW v, NEW s \in Seq(S), NEW t \in Seq(S)
  PROVE  UIStreamPart!Shown(v, s \o t) = UIStreamPart!Shown(UIStreamPart!Shown(v, s), t)
<1> DEFINE P == {u \in Seq(S) :
        UIStreamPart!Shown(v, s \o u) = UIStreamPart!Shown(UIStreamPart!Shown(v, s), u)}
<1>1. <<>> \in P
  <2>1. s \o <<>> = s
    OBVIOUS
  <2> QED BY <2>1, ShownEmpty
<1>2. ASSUME NEW u \in Seq(S), u \in P, NEW e \in S PROVE Append(u, e) \in P
  <2>1. s \o Append(u, e) = Append(s \o u, e) /\ s \o u \in Seq(S) /\ Append(u, e) \in Seq(S)
    OBVIOUS
  <2>2. UIStreamPart!Shown(v, Append(s \o u, e)) =
            UIStreamPart!Show(e, UIStreamPart!Shown(v, s \o u))
    BY <2>1, ShownAppend
  <2>3. UIStreamPart!Shown(UIStreamPart!Shown(v, s), Append(u, e)) =
            UIStreamPart!Show(e, UIStreamPart!Shown(UIStreamPart!Shown(v, s), u))
    BY ShownAppend
  <2> QED BY <1>2, <2>1, <2>2, <2>3
<1>3. Seq(S) \subseteq P
  <2> HIDE DEF P
  <2> QED BY <1>1, <1>2, SeqInduction
<1> QED BY <1>3

-----------------------------------------------------------------------------
LEMMA SameSeq ==
  ASSUME NEW S, NEW s \in Seq(S), NEW t \in Seq(S), DOMAIN s = DOMAIN t,
         \A i \in DOMAIN s : s[i] = t[i]
  PROVE  s = t
OBVIOUS

LEMMA OneAndOne ==
  ASSUME NEW x, NEW y
  PROVE  <<x>> \o <<y>> = <<x, y>>
<1> DEFINE S == {x, y}
           s == <<x>>
           none == <<>>
<1>1. s \in Seq(S) /\ none \in Seq(S) /\ y \in S
  OBVIOUS
<1>2. <<y>> = Append(none, y) /\ <<x, y>> = Append(s, y) /\ s \o none = s
  OBVIOUS
<1> HIDE DEF S, s, none
<1>3. s \o Append(none, y) = Append(s \o none, y)
  BY <1>1
<1>4. s \o <<y>> = <<x, y>>
  BY <1>2, <1>3
<1> QED BY <1>4 DEF s

\* Another element in the last place.
LEMMA ReplaceLast ==
  ASSUME NEW S, NEW v \in Seq(S), NEW b \in S, NEW c \in S
  PROVE  [Append(v, b) EXCEPT ![Len(v) + 1] = c] = Append(v, c)
<1> DEFINE w == Append(v, b)
           n == Len(v) + 1
           u == [w EXCEPT ![n] = c]
           x == Append(v, c)
<1>1. /\ w \in Seq(S) /\ DOMAIN w = 1..n /\ n \in 1..n /\ \A i \in 1..n : i # n => w[i] = v[i]
      /\ x \in Seq(S) /\ DOMAIN x = 1..n /\ x[n] = c /\ \A i \in 1..n : i # n => x[i] = v[i]
  OBVIOUS
<1> HIDE DEF w, n, x
<1>2. u \in Seq(S) /\ DOMAIN u = 1..n /\ \A i \in 1..n : u[i] = IF i = n THEN c ELSE w[i]
  BY <1>1
<1> HIDE DEF u
<1>3. \A i \in 1..n : u[i] = x[i]
  BY <1>1, <1>2
<1>4. u = x
  BY <1>1, <1>2, <1>3, SameSeq
<1> QED BY <1>4 DEF u, x, w, n

\* What a client shows: no two blocks or calls of one kind have one id.
BlockIds == {"text", "reasoning"} \X Nat
Blocks == [kind: {"text", "reasoning"}, id: BlockIds, open: BOOLEAN, content: Seq(Nat)]
Results == {"tool-output-error", "tool-output-available"} \X ({"result"} \X CallIds)
Tools ==
  [kind: {"tool"}, id: CallIds, name: {"n"}, input: {<<>>} \cup ({"args"} \X CallIds),
   output: {<<>>} \cup Results]
Items == Blocks \cup Tools

NameOf(b) == <<b.kind, b.id>>
SaysOf(b) == [kind |-> b.kind, content |-> IF b.kind = "tool" THEN b.input ELSE b.content]
IsOpen(b) == b.kind # "tool" /\ b.open

View(v) ==
  /\ v \in Seq(Items)
  /\ \A i, j \in DOMAIN v : NameOf(v[i]) = NameOf(v[j]) => i = j

\* What of it matters.
NamesIn(v) == {NameOf(v[i]) : i \in DOMAIN v}
SaysAll(v) == [i \in DOMAIN v |-> SaysOf(v[i])]
OpenIn(v) == {NameOf(v[i]) : i \in {j \in DOMAIN v : IsOpen(v[j])}}
ResultsIn(v) == {<<v[i].id, v[i].output>> : i \in {j \in DOMAIN v : v[j].kind = "tool"}}

\* The one place of a name.
LEMMA IndexOfOne ==
  ASSUME NEW v, View(v), NEW k \in DOMAIN v
  PROVE  /\ UIStreamPart!IndexOf(v, v[k].kind, v[k].id) = {k}
         /\ (CHOOSE j \in UIStreamPart!IndexOf(v, v[k].kind, v[k].id) : TRUE) = k
<1>1. UIStreamPart!IndexOf(v, v[k].kind, v[k].id) = {k}
  <2>1. \A i \in DOMAIN v : v[i].kind = v[k].kind /\ v[i].id = v[k].id <=> i = k
    BY DEF View, NameOf
  <2> QED BY <2>1 DEF UIStreamPart!IndexOf
<1> QED BY <1>1

LEMMA IndexOfNone ==
  ASSUME NEW v, View(v), NEW kind, NEW id, <<kind, id>> \notin NamesIn(v)
  PROVE  UIStreamPart!IndexOf(v, kind, id) = {}
BY DEF UIStreamPart!IndexOf, NamesIn, NameOf

\* One more item.
LEMMA ViewAppend ==
  ASSUME NEW v, View(v), NEW b \in Items, NameOf(b) \notin NamesIn(v)
  PROVE  /\ View(Append(v, b))
         /\ NamesIn(Append(v, b)) = NamesIn(v) \cup {NameOf(b)}
         /\ SaysAll(Append(v, b)) = Append(SaysAll(v), SaysOf(b))
         /\ OpenIn(Append(v, b)) = OpenIn(v) \cup (IF IsOpen(b) THEN {NameOf(b)} ELSE {})
         /\ ResultsIn(Append(v, b)) =
              ResultsIn(v) \cup (IF b.kind = "tool" THEN {<<b.id, b.output>>} ELSE {})
<1> DEFINE w == Append(v, b)
           n == Len(v)
<1>1. /\ v \in Seq(Items) /\ n \in Nat /\ DOMAIN v = 1..n
      /\ w \in Seq(Items) /\ DOMAIN w = 1..(n + 1) /\ w[n + 1] = b
      /\ \A i \in 1..n : w[i] = v[i]
  BY DEF View
<1>2. \A i \in 1..(n + 1) : i \in 1..n \/ i = n + 1
  BY <1>1
<1>3. n + 1 \in 1..(n + 1) /\ 1..n \subseteq 1..(n + 1) /\ n + 1 \notin 1..n
  BY <1>1
<1> HIDE DEF w, n
<1>4. \A i \in 1..n : NameOf(w[i]) = NameOf(v[i]) /\ NameOf(v[i]) # NameOf(b)
  BY <1>1 DEF NamesIn
<1>5. View(w)
  <2>1. \A i, j \in 1..(n + 1) : NameOf(w[i]) = NameOf(w[j]) => i = j
    <3> SUFFICES ASSUME NEW i \in 1..(n + 1), NEW j \in 1..(n + 1), NameOf(w[i]) = NameOf(w[j])
                 PROVE  i = j
      OBVIOUS
    <3>1. CASE i \in 1..n /\ j \in 1..n
      BY <1>1, <1>4, <3>1 DEF View
    <3>2. CASE i = n + 1 \/ j = n + 1
      BY <1>1, <1>2, <1>4, <3>2
    <3> QED BY <1>2, <3>1, <3>2
  <2> QED BY <1>1, <2>1 DEF View
<1>6. NamesIn(w) = NamesIn(v) \cup {NameOf(b)}
  BY <1>1, <1>2, <1>3 DEF NamesIn
<1>7. SaysAll(w) = Append(SaysAll(v), SaysOf(b))
  <2> DEFINE X == {SaysOf(w[i]) : i \in 1..(n + 1)}
             s == SaysAll(v)
  <2>1. s \in Seq(X) /\ SaysOf(b) \in X /\ Len(s) = n /\ \A i \in 1..n : s[i] = SaysOf(v[i])
    BY <1>1, <1>3 DEF SaysAll
  <2>2. DOMAIN SaysAll(w) = 1..(n + 1) /\ \A i \in 1..(n + 1) : SaysAll(w)[i] = SaysOf(w[i])
    BY <1>1 DEF SaysAll
  <2>3. SaysAll(w) \in Seq(X)
    BY <1>1 DEF SaysAll
  <2> DEFINE e == SaysOf(b)
             t == SaysAll(w)
  <2>4. e = SaysOf(w[n + 1])
    BY <1>1
  <2> HIDE DEF X, s, e, t
  <2>5. Append(s, e) \in Seq(X) /\ DOMAIN Append(s, e) = 1..(n + 1) /\ Append(s, e)[n + 1] = e
        /\ \A i \in 1..n : Append(s, e)[i] = s[i]
    BY <1>1, <2>1 DEF e
  <2>6. \A i \in 1..(n + 1) : t[i] = Append(s, e)[i]
    BY <1>1, <1>2, <2>1, <2>2, <2>4, <2>5 DEF t
  <2>7. t \in Seq(X) /\ DOMAIN t = 1..(n + 1)
    BY <2>2, <2>3 DEF t
  <2>8. t = Append(s, e)
    BY <2>5, <2>6, <2>7, SameSeq
  <2> QED BY <2>8 DEF s, e, t
<1>8. OpenIn(w) = OpenIn(v) \cup (IF IsOpen(b) THEN {NameOf(b)} ELSE {})
  BY <1>1, <1>2, <1>3 DEF OpenIn
<1>9. ResultsIn(w) = ResultsIn(v) \cup (IF b.kind = "tool" THEN {<<b.id, b.output>>} ELSE {})
  BY <1>1, <1>2, <1>3 DEF ResultsIn
<1> QED BY <1>5, <1>6, <1>7, <1>8, <1>9 DEF w

\* One item changes, and keeps its name.
LEMMA ViewExcept ==
  ASSUME NEW v, View(v), NEW k \in DOMAIN v, NEW b \in Items,
         NameOf(b) = NameOf(v[k]), SaysOf(b) = SaysOf(v[k])
  PROVE  /\ View([v EXCEPT ![k] = b])
         /\ NamesIn([v EXCEPT ![k] = b]) = NamesIn(v)
         /\ SaysAll([v EXCEPT ![k] = b]) = SaysAll(v)
<1> DEFINE w == [v EXCEPT ![k] = b]
<1>1. /\ v \in Seq(Items) /\ w \in Seq(Items) /\ DOMAIN w = DOMAIN v
      /\ \A i \in DOMAIN v : w[i] = IF i = k THEN b ELSE v[i]
  BY DEF View
<1> HIDE DEF w
<1>2. \A i \in DOMAIN v : NameOf(w[i]) = NameOf(v[i]) /\ SaysOf(w[i]) = SaysOf(v[i])
  BY <1>1
<1>3. View(w)
  BY <1>1, <1>2 DEF View
<1>4. NamesIn(w) = NamesIn(v) /\ SaysAll(w) = SaysAll(v)
  BY <1>1, <1>2 DEF NamesIn, SaysAll
<1> QED BY <1>3, <1>4 DEF w

-----------------------------------------------------------------------------
\* A block with its first text.
NewBlock(kind, id, content) == [kind |-> kind, id |-> id, open |-> TRUE, content |-> content]
StartOf(kind) == IF kind = "text" THEN "text-start" ELSE "reasoning-start"
DeltaOf(kind) == IF kind = "text" THEN "text-delta" ELSE "reasoning-delta"
EndOf(kind) == IF kind = "text" THEN "text-end" ELSE "reasoning-end"

LEMMA NewBlockType ==
  ASSUME NEW kind \in {"text", "reasoning"}, NEW id \in BlockIds, NEW content \in Seq(Nat)
  PROVE  /\ NewBlock(kind, id, content) \in Items
         /\ NameOf(NewBlock(kind, id, content)) = <<kind, id>>
         /\ SaysOf(NewBlock(kind, id, content)) = [kind |-> kind, content |-> content]
         /\ IsOpen(NewBlock(kind, id, content)) /\ NewBlock(kind, id, content).kind = kind
BY DEF NewBlock, Items, Blocks, NameOf, SaysOf, IsOpen

LEMMA BlockComes ==
  ASSUME NEW v, View(v), NEW kind \in {"text", "reasoning"}, NEW id \in BlockIds,
         NEW content \in Seq(Nat), <<kind, id>> \notin NamesIn(v)
  PROVE  UIStreamPart!Shown(v,
           <<UIStreamPart!BlockPart(StartOf(kind), id, <<>>),
               UIStreamPart!BlockPart(DeltaOf(kind), id, content)>>)
           = Append(v, NewBlock(kind, id, content))
<1> DEFINE p == UIStreamPart!BlockPart(StartOf(kind), id, <<>>)
           q == UIStreamPart!BlockPart(DeltaOf(kind), id, content)
           b == NewBlock(kind, id, <<>>)
           n == Len(v) + 1
           w == Append(v, b)
<1>1. /\ p.type = StartOf(kind) /\ p.id = id /\ UIStreamPart!Kind(p.type) = kind
      /\ q.type = DeltaOf(kind) /\ q.id = id /\ q.delta = content
             /\ UIStreamPart!Kind(q.type) = kind
  BY DEF UIStreamPart!BlockPart, StartOf, DeltaOf, UIStreamPart!Kind
<1>2. /\ b \in Items /\ NameOf(b) = <<kind, id>> /\ b.kind = kind /\ b.id = id
      /\ b = UIStreamPart!Block(kind, id) /\ b.open /\ b.content = <<>>
  <2>0. <<>> \in Seq(Nat)
    OBVIOUS
  <2>1. b \in Items /\ NameOf(b) = <<kind, id>> /\ b.kind = kind
    <3> HIDE DEF b
    <3>1. b = NewBlock(kind, id, <<>>)
      BY DEF b
    <3> QED BY <2>0, <3>1, NewBlockType
  <2> QED BY <2>1 DEF NewBlock, UIStreamPart!Block
<1>3. UIStreamPart!Show(p, v) = w
  <2>1. UIStreamPart!IndexOf(v, kind, id) = {}
    BY IndexOfNone
  <2>2. UIStreamPart!Show(p, v) = UIStreamPart!ShowBlock(v, p)
    <3> HIDE DEF p
    <3>1. p.type \in {"text-start", "reasoning-start"}
      BY <1>1 DEF StartOf
    <3> QED BY <3>1 DEF UIStreamPart!Show
  <2>3. p.type \in {"text-start", "reasoning-start"}
    BY <1>1 DEF StartOf
  <2> HIDE DEF p
  <2>4. UIStreamPart!ShowBlock(v, p) = Append(v, UIStreamPart!Block(kind, id))
    BY <1>1, <2>1, <2>3 DEF UIStreamPart!ShowBlock
  <2> QED BY <1>2, <2>2, <2>4
<1> HIDE DEF p, b
<1>4. View(w)
  BY <1>2, ViewAppend
<1>5. /\ v \in Seq(Items) /\ n \in Nat /\ w \in Seq(Items) /\ DOMAIN w = 1..n /\ n \in DOMAIN w
      /\ w[n] = b /\ \A i \in 1..n : i # n => w[i] = v[i]
  BY <1>2 DEF View
<1>6. UIStreamPart!Show(q, w) = [w EXCEPT ![n].content = @ \o content]
  <2>1. UIStreamPart!IndexOf(w, kind, id) = {n}
            /\ (CHOOSE j \in UIStreamPart!IndexOf(w, kind, id) : TRUE) = n
    <3> HIDE DEF w, n
    <3>1. w[n].kind = kind /\ w[n].id = id
      BY <1>2, <1>5
    <3>2. UIStreamPart!IndexOf(w, w[n].kind, w[n].id) = {n}
      BY <1>4, <1>5, IndexOfOne
    <3>3. UIStreamPart!IndexOf(w, kind, id) = {n}
      BY <3>1, <3>2
    <3> QED BY <3>3
  <2>2. UIStreamPart!Show(q, w) = UIStreamPart!ShowBlock(w, q)
    <3> HIDE DEF q, w
    <3>1. q.type \in {"text-delta", "reasoning-delta"}
      BY <1>1 DEF DeltaOf
    <3> QED BY <3>1 DEF UIStreamPart!Show
  <2>3. q.type \in {"text-delta", "reasoning-delta"}
    BY <1>1 DEF DeltaOf
  <2>4. w[n].open
    BY <1>2, <1>5
  <2> HIDE DEF q, w, n
  <2>5. q.type \notin {"text-start", "reasoning-start"}
    BY <2>3
  <2> QED BY <1>1, <2>1, <2>2, <2>3, <2>4, <2>5 DEF UIStreamPart!ShowBlock
<1>7. [w EXCEPT ![n].content = @ \o content] = Append(v, NewBlock(kind, id, content))
  <2> DEFINE c == NewBlock(kind, id, content)
             u == [w EXCEPT ![n].content = @ \o content]
  <2>1. [w[n] EXCEPT !.content = @ \o content] = c
    <3>1. <<>> \o content = content
      OBVIOUS
    <3>2. [b EXCEPT !.content = @ \o content] = c
      <4>1. b.content \o content = content
        BY <3>1 DEF b, NewBlock
      <4> DEFINE x == b.content \o content
                 y == [b EXCEPT !.content = x]
      <4>2. /\ b \in Blocks /\ b.kind = kind /\ b.id = id /\ b.open = TRUE
            /\ c \in Blocks /\ c.kind = kind /\ c.id = id /\ c.open = TRUE /\ c.content = content
        BY DEF b, NewBlock, Blocks
      <4> HIDE DEF c, x
      <4>3. y \in Blocks /\ y.kind = kind /\ y.id = id /\ y.open = TRUE /\ y.content = x
        BY <4>1, <4>2 DEF Blocks, x
      <4>4. x = content
        BY <4>1 DEF x
      <4> HIDE DEF y
      <4>5. /\ y = [kind |-> y.kind, id |-> y.id, open |-> y.open, content |-> y.content]
            /\ c = [kind |-> c.kind, id |-> c.id, open |-> c.open, content |-> c.content]
        BY <4>2, <4>3 DEF Blocks
      <4>6. y = c
        BY <4>2, <4>3, <4>4, <4>5
      <4> QED BY <4>6 DEF x, y
    <3> QED BY <1>5, <3>2
  <2>2. u = [w EXCEPT ![n] = c]
    BY <2>1, <1>5
  <2>3. c \in Items /\ b \in Items
    BY <1>2, NewBlockType
  <2> HIDE DEF c, u
  <2>4. u = Append(v, c)
    BY <1>5, <2>2, <2>3, ReplaceLast
  <2> QED BY <2>4 DEF c, u
<1>8. UIStreamPart!Shown(v, <<p, q>>) = UIStreamPart!Show(q, UIStreamPart!Show(p, v))
  BY ShownTwo
<1> QED BY <1>3, <1>6, <1>7, <1>8 DEF p

\* A call with its input.
NewTool(id) ==
  [kind |-> "tool", id |-> id, name |-> "n", input |-> <<"args", id>>, output |-> <<>>]

LEMMA NewToolType ==
  ASSUME NEW id \in CallIds
  PROVE  /\ NewTool(id) \in Items /\ NameOf(NewTool(id)) = <<"tool", id>>
         /\ SaysOf(NewTool(id)) = [kind |-> "tool", content |-> <<"args", id>>]
         /\ ~IsOpen(NewTool(id)) /\ NewTool(id).kind = "tool" /\ NewTool(id).id = id
         /\ NewTool(id).output = <<>>
BY DEF NewTool, Items, Tools, NameOf, SaysOf, IsOpen

LEMMA ToolComes ==
  ASSUME NEW v, View(v), NEW id \in CallIds, <<"tool", id>> \notin NamesIn(v)
  PROVE  UIStreamPart!Shown(v, <<UIStreamPart!ToolPart("tool-input-start", id, "n"),
                    UIStreamPart!ToolPart("tool-input-available", id, <<"args", id>>)>>)
           = Append(v, NewTool(id))
<1> DEFINE p == UIStreamPart!ToolPart("tool-input-start", id, "n")
           q == UIStreamPart!ToolPart("tool-input-available", id, <<"args", id>>)
           b == UIStreamPart!ToolView(id, "n")
           n == Len(v) + 1
           w == Append(v, b)
<1>1. /\ p.type = "tool-input-start" /\ p.call = id /\ p.what = "n"
      /\ q.type = "tool-input-available" /\ q.call = id /\ q.what = <<"args", id>>
  BY DEF UIStreamPart!ToolPart
<1>2. /\ b \in Items /\ NameOf(b) = <<"tool", id>> /\ b.kind = "tool" /\ b.id = id
  BY DEF UIStreamPart!ToolView, Items, Tools, NameOf
<1>3. UIStreamPart!Show(p, v) = w
  <2>1. UIStreamPart!IndexOf(v, "tool", id) = {}
    BY IndexOfNone
  <2> HIDE DEF p
  <2>2. UIStreamPart!Show(p, v) = UIStreamPart!ShowTool(v, p)
    BY <1>1 DEF UIStreamPart!Show
  <2> QED BY <1>1, <2>1, <2>2 DEF UIStreamPart!ShowTool
<1> HIDE DEF p, b
<1>4. View(w)
  BY <1>2, ViewAppend
<1>5. /\ v \in Seq(Items) /\ n \in Nat /\ w \in Seq(Items) /\ DOMAIN w = 1..n /\ n \in DOMAIN w
      /\ w[n] = b /\ \A i \in 1..n : i # n => w[i] = v[i]
  BY <1>2 DEF View
<1>6. UIStreamPart!Show(q, w) = [w EXCEPT ![n].input = <<"args", id>>]
  <2>1. UIStreamPart!IndexOf(w, "tool", id) = {n}
            /\ (CHOOSE j \in UIStreamPart!IndexOf(w, "tool", id) : TRUE) = n
    <3> HIDE DEF w, n
    <3>1. w[n].kind = "tool" /\ w[n].id = id
      BY <1>2, <1>5
    <3>2. UIStreamPart!IndexOf(w, w[n].kind, w[n].id) = {n}
      BY <1>4, <1>5, IndexOfOne
    <3>3. UIStreamPart!IndexOf(w, "tool", id) = {n}
      BY <3>1, <3>2
    <3> QED BY <3>3
  <2> HIDE DEF q, w, n
  <2>2. UIStreamPart!Show(q, w) = UIStreamPart!ShowTool(w, q)
    BY <1>1 DEF UIStreamPart!Show
  <2> QED BY <1>1, <2>1, <2>2 DEF UIStreamPart!ShowTool
<1>7. [w EXCEPT ![n].input = <<"args", id>>] = Append(v, NewTool(id))
  <2> DEFINE c == NewTool(id)
             u == [w EXCEPT ![n].input = <<"args", id>>]
  <2>1. [w[n] EXCEPT !.input = <<"args", id>>] = c
    <3>1. [b EXCEPT !.input = <<"args", id>>] = c
      BY DEF b, NewTool, UIStreamPart!ToolView
    <3> QED BY <1>5, <3>1
  <2>2. u = [w EXCEPT ![n] = c]
    BY <2>1, <1>5
  <2>3. c \in Items /\ b \in Items
    BY <1>2, NewToolType
  <2> HIDE DEF c, u
  <2>4. u = Append(v, c)
    BY <1>5, <2>2, <2>3, ReplaceLast
  <2> QED BY <2>4 DEF c, u
<1>8. UIStreamPart!Shown(v, <<p, q>>) = UIStreamPart!Show(q, UIStreamPart!Show(p, v))
  BY ShownTwo
<1> QED BY <1>3, <1>6, <1>7, <1>8 DEF p

\* A block that is open is closed.
LEMMA BlockEnds ==
  ASSUME NEW v, View(v), NEW kind \in {"text", "reasoning"}, NEW id, <<kind, id>> \in OpenIn(v),
         NEW w, w = UIStreamPart!Show(UIStreamPart!BlockPart(EndOf(kind), id, <<>>), v)
  PROVE  /\ View(w) /\ NamesIn(w) = NamesIn(v) /\ SaysAll(w) = SaysAll(v)
         /\ OpenIn(w) = OpenIn(v) \ {<<kind, id>>} /\ ResultsIn(w) = ResultsIn(v)
<1> DEFINE p == UIStreamPart!BlockPart(EndOf(kind), id, <<>>)
<1>1. PICK k \in DOMAIN v : IsOpen(v[k]) /\ NameOf(v[k]) = <<kind, id>>
  BY DEF OpenIn
<1> DEFINE b == [v[k] EXCEPT !.open = FALSE]
<1>2. v \in Seq(Items) /\ v[k] \in Items /\ v[k].kind = kind /\ v[k].id = id
  BY <1>1 DEF View, NameOf
<1>3. v[k] \in Blocks /\ v[k].open
  BY <1>1, <1>2 DEF Items, Tools, IsOpen
<1>4. /\ b \in Items /\ NameOf(b) = NameOf(v[k]) /\ SaysOf(b) = SaysOf(v[k])
      /\ ~IsOpen(b) /\ b.kind # "tool" /\ v[k].kind # "tool"
  <2>1. b \in Blocks /\ b.kind = v[k].kind /\ b.id = v[k].id /\ b.content = v[k].content
        /\ b.open = FALSE
    BY <1>3 DEF Blocks
  <2> HIDE DEF b
  <2> QED BY <1>2, <2>1 DEF Items, NameOf, SaysOf, IsOpen
<1>5. w = [v EXCEPT ![k] = b]
  <2>1. UIStreamPart!IndexOf(v, kind, id) = {k}
    BY <1>2, IndexOfOne
  <2>2. (CHOOSE j \in UIStreamPart!IndexOf(v, kind, id) : TRUE) = k
    BY <2>1
  <2>3. p.type = EndOf(kind) /\ p.id = id /\ UIStreamPart!Kind(p.type) = kind
    BY DEF UIStreamPart!BlockPart, EndOf, UIStreamPart!Kind
  <2> HIDE DEF p
  <2>4. p.type \in {"text-end", "reasoning-end"}
    BY <2>3 DEF EndOf
  <2>5. UIStreamPart!Show(p, v) = UIStreamPart!ShowBlock(v, p)
    BY <2>4 DEF UIStreamPart!Show
  <2>6. p.type \notin {"text-start", "reasoning-start", "text-delta", "reasoning-delta"}
    BY <2>4
  <2>7. ~(\A j \in UIStreamPart!IndexOf(v, kind, id) : ~v[j].open)
    BY <1>3, <2>1
  <2>8. UIStreamPart!ShowBlock(v, p) = [v EXCEPT ![k].open = FALSE]
    BY <2>2, <2>3, <2>6, <2>7 DEF UIStreamPart!ShowBlock
  <2> QED BY <2>5, <2>8 DEF p
<1> HIDE DEF b
<1>6. View(w) /\ NamesIn(w) = NamesIn(v) /\ SaysAll(w) = SaysAll(v)
  BY <1>4, <1>5, ViewExcept
<1>7. DOMAIN w = DOMAIN v /\ \A i \in DOMAIN v : w[i] = IF i = k THEN b ELSE v[i]
  BY <1>2, <1>5
<1>8. \A i \in DOMAIN v : NameOf(v[i]) = <<kind, id>> <=> i = k
  BY <1>1 DEF View
<1>9. OpenIn(w) = OpenIn(v) \ {<<kind, id>>}
  BY <1>1, <1>4, <1>7, <1>8 DEF OpenIn
<1>10. ResultsIn(w) = ResultsIn(v)
  BY <1>4, <1>7 DEF ResultsIn
<1> QED BY <1>6, <1>9, <1>10

\* A call that had no result has one.
LEMMA ResultComes ==
  ASSUME NEW v, View(v), NEW id \in CallIds, <<id, <<>>>> \in ResultsIn(v),
         NEW type \in {"tool-output-error", "tool-output-available"},
         NEW w, w = UIStreamPart!Show(UIStreamPart!ToolPart(type, id, <<"result", id>>), v)
  PROVE  /\ View(w) /\ NamesIn(w) = NamesIn(v) /\ SaysAll(w) = SaysAll(v)
         /\ OpenIn(w) = OpenIn(v)
         /\ ResultsIn(w) =
              (ResultsIn(v) \ {<<id, <<>>>>}) \cup {<<id, <<type, <<"result", id>>>>>>}
<1> DEFINE out == <<type, <<"result", id>>>>
           p == UIStreamPart!ToolPart(type, id, <<"result", id>>)
<1>1. PICK k \in DOMAIN v : v[k].kind = "tool" /\ v[k].id = id /\ v[k].output = <<>>
  BY DEF ResultsIn
<1> DEFINE b == [v[k] EXCEPT !.output = out]
<1>2. v \in Seq(Items) /\ v[k] \in Tools
  <2>1. v \in Seq(Items) /\ v[k] \in Items
    BY DEF View
  <2> QED BY <1>1, <2>1 DEF Items, Blocks
<1>3. out \in Results
  BY DEF Results
<1> HIDE DEF out
<1>4. /\ b \in Items /\ NameOf(b) = NameOf(v[k]) /\ SaysOf(b) = SaysOf(v[k])
      /\ b.kind = "tool" /\ b.id = id /\ b.output = out
  <2>1. b \in Tools /\ b.kind = v[k].kind /\ b.id = v[k].id /\ b.input = v[k].input
        /\ b.output = out
    BY <1>2, <1>3 DEF Tools
  <2> HIDE DEF b
  <2> QED BY <1>1, <2>1 DEF Items, NameOf, SaysOf
<1>5. w = [v EXCEPT ![k] = b]
  <2>1. UIStreamPart!IndexOf(v, "tool", id) = {k}
    <3>1. UIStreamPart!IndexOf(v, v[k].kind, v[k].id) = {k}
      BY IndexOfOne
    <3> QED BY <1>1, <3>1
  <2>2. (CHOOSE j \in UIStreamPart!IndexOf(v, "tool", id) : TRUE) = k
    BY <2>1
  <2>3. p.type = type /\ p.call = id /\ <<p.type, p.what>> = out
    BY DEF UIStreamPart!ToolPart, out
  <2> HIDE DEF p
  <2>4. UIStreamPart!Show(p, v) = UIStreamPart!ShowTool(v, p)
    BY <2>3 DEF UIStreamPart!Show
  <2>5. UIStreamPart!ShowTool(v, p) = [v EXCEPT ![k].output = out]
    BY <2>1, <2>2, <2>3 DEF UIStreamPart!ShowTool
  <2> QED BY <2>4, <2>5 DEF p
<1> HIDE DEF b
<1>6. View(w) /\ NamesIn(w) = NamesIn(v) /\ SaysAll(w) = SaysAll(v)
  BY <1>4, <1>5, ViewExcept
<1>7. DOMAIN w = DOMAIN v /\ \A i \in DOMAIN v : w[i] = IF i = k THEN b ELSE v[i]
  BY <1>2, <1>5
<1>8. \A i \in DOMAIN v : v[i].kind = "tool" /\ v[i].id = id <=> i = k
  BY <1>1 DEF View, NameOf
<1>9. OpenIn(w) = OpenIn(v)
  BY <1>1, <1>4, <1>7 DEF OpenIn, IsOpen
<1>10. ResultsIn(w) = (ResultsIn(v) \ {<<id, <<>>>>}) \cup {<<id, out>>}
  <2>1. \A x : x \in ResultsIn(w) =>
               x \in (ResultsIn(v) \ {<<id, <<>>>>}) \cup {<<id, out>>}
    <3> SUFFICES ASSUME NEW i \in DOMAIN v, w[i].kind = "tool"
                 PROVE  <<w[i].id, w[i].output>> \in
                          (ResultsIn(v) \ {<<id, <<>>>>}) \cup {<<id, out>>}
      BY <1>7 DEF ResultsIn
    <3>1. CASE i = k
      BY <1>4, <1>7, <3>1
    <3>2. CASE i # k
      BY <1>7, <1>8, <3>2 DEF ResultsIn
    <3> QED BY <3>1, <3>2
  <2>2. \A x : x \in (ResultsIn(v) \ {<<id, <<>>>>}) => x \in ResultsIn(w)
    <3> SUFFICES ASSUME NEW i \in DOMAIN v, v[i].kind = "tool",
                        <<v[i].id, v[i].output>> # <<id, <<>>>>
                 PROVE  <<v[i].id, v[i].output>> \in ResultsIn(w)
      BY DEF ResultsIn
    <3>1. i # k
      BY <1>1
    <3> QED BY <1>7, <3>1 DEF ResultsIn
  <2>3. <<id, out>> \in ResultsIn(w)
    BY <1>4, <1>7 DEF ResultsIn
  <2> QED BY <2>1, <2>2, <2>3
<1> QED BY <1>6, <1>9, <1>10 DEF out

-----------------------------------------------------------------------------
\* The state between entries and in them, and the parts of an entry.
Ids == {None} \cup BlockIds
States ==
  [messageStarted: BOOLEAN, stepStarted: BOOLEAN,
   textID: Ids, textStarted: BOOLEAN, prevText: Seq(Nat),
   reasoningID: Ids, reasoningStarted: BOOLEAN, prevThinking: Seq(Nat),
   nextID: Nat, startedToolCalls: SUBSET CallIds, emittedToolCalls: SUBSET CallIds]

BlockTypes ==
  {"text-start", "text-delta", "text-end", "reasoning-start", "reasoning-delta", "reasoning-end"}
Parts ==
  [type: {"start", "start-step", "finish-step"}]
  \cup [type: {"finish"}, reason: {UIStreamPart!MapStopReason(r) : r \in {"stop", "toolUse"}}]
  \cup [type: BlockTypes, id: Ids, delta: Seq(Nat)]
  \cup [type: {"tool-input-start", "tool-input-available"}, call: CallIds,
        what: {"n"} \cup ({"args"} \X CallIds)]

\* A step begins: nothing of the step before is left.
LEMMA StartStepState ==
  ASSUME NEW s \in States, ~s.stepStarted
  PROVE  /\ UIStreamPart!StartStep(s) \in States
         /\ ~UIStreamPart!StartStep(s).textStarted /\ ~UIStreamPart!StartStep(s).reasoningStarted
         /\ UIStreamPart!StartStep(s).prevText = <<>>
                /\ UIStreamPart!StartStep(s).prevThinking = <<>>
         /\ UIStreamPart!StartStep(s).nextID = s.nextID
         /\ UIStreamPart!StartStep(s).startedToolCalls = s.startedToolCalls
         /\ UIStreamPart!StartStep(s).emittedToolCalls = s.emittedToolCalls
<1>1. UIStreamPart!StartStep(s) =
        [s EXCEPT !.messageStarted = TRUE, !.stepStarted = TRUE, !.prevText = <<>>,
                  !.prevThinking = <<>>, !.textStarted = FALSE, !.reasoningStarted = FALSE]
  BY DEF UIStreamPart!StartStep
<1>2. <<>> \in Seq(Nat)
  OBVIOUS
<1> QED BY <1>1, <1>2 DEF States

LEMMA ReasoningState ==
  ASSUME NEW s \in States, ~s.reasoningStarted, s.prevThinking = <<>>,
         NEW e, e.thinking \in Seq(Nat)
  PROVE  LET r == UIStreamPart!Reasoning(s, e)
         IN  /\ r \in States /\ r.textStarted = s.textStarted /\ r.prevText = s.prevText
             /\ r.startedToolCalls = s.startedToolCalls
             /\ r.emittedToolCalls = s.emittedToolCalls
             /\ r.reasoningStarted = (e.thinking # <<>>)
             /\ r.nextID = IF e.thinking = <<>> THEN s.nextID ELSE s.nextID + 1
             /\ e.thinking # <<>> => r.reasoningID = <<"reasoning", s.nextID>>
             /\ UIStreamPart!ReasoningParts(s, e) =
                  IF e.thinking = <<>> THEN <<>>
                  ELSE <<UIStreamPart!BlockPart("reasoning-start", <<"reasoning", s.nextID>>, <<>>),
                         UIStreamPart!BlockPart("reasoning-delta", <<"reasoning", s.nextID>>,
                             e.thinking)>>
<1> DEFINE r == UIStreamPart!Reasoning(s, e)
           id == <<"reasoning", s.nextID>>
<1>1. UIStreamPart!NewIn(e.thinking, s.prevThinking) <=> e.thinking # <<>>
  <2>1. Len(s.prevThinking) = 0 /\ Len(e.thinking) \in Nat
    OBVIOUS
  <2>2. Len(e.thinking) = 0 <=> e.thinking = <<>>
    OBVIOUS
  <2> QED BY <2>1, <2>2 DEF UIStreamPart!NewIn
<1>2. CASE e.thinking = <<>>
  <2>1. r = s /\ UIStreamPart!ReasoningParts(s, e) = <<>>
    BY <1>1, <1>2 DEF UIStreamPart!Reasoning, UIStreamPart!ReasoningParts
  <2> HIDE DEF r
  <2>2. r.reasoningStarted = FALSE
    BY <2>1 DEF States
  <2> QED BY <1>2, <2>1, <2>2 DEF r
<1>3. CASE e.thinking # <<>>
  <2>1. r = [s EXCEPT !.reasoningStarted = TRUE, !.prevThinking = e.thinking,
                      !.reasoningID = id, !.nextID = @ + 1]
    BY <1>1, <1>3 DEF UIStreamPart!Reasoning
  <2>2. id \in Ids /\ s.nextID + 1 \in Nat
    BY DEF States, Ids, BlockIds
  <2> HIDE DEF r, id
  <2>3. /\ r \in States /\ r.textStarted = s.textStarted /\ r.prevText = s.prevText
        /\ r.startedToolCalls = s.startedToolCalls
        /\ r.emittedToolCalls = s.emittedToolCalls
        /\ r.reasoningStarted = TRUE /\ r.nextID = s.nextID + 1 /\ r.reasoningID = id
    BY <2>1, <2>2 DEF States
  <2>4. UIStreamPart!Suffix(e.thinking, s.prevThinking) = e.thinking
    <3>1. Len(s.prevThinking) + 1 = 1
      OBVIOUS
    <3>2. SubSeq(e.thinking, 1, Len(e.thinking)) = e.thinking
      OBVIOUS
    <3> QED BY <3>1, <3>2 DEF UIStreamPart!Suffix
  <2>5. UIStreamPart!ReasoningParts(s, e) =
          <<UIStreamPart!BlockPart("reasoning-start", id, <<>>)>>
          \o <<UIStreamPart!BlockPart("reasoning-delta", id, e.thinking)>>
    BY <1>1, <1>3, <2>3, <2>4 DEF UIStreamPart!ReasoningParts, r
  <2>7. UIStreamPart!ReasoningParts(s, e) = <<UIStreamPart!BlockPart("reasoning-start", id, <<>>),
                                 UIStreamPart!BlockPart("reasoning-delta", id, e.thinking)>>
    BY <2>5, OneAndOne
  <2> QED BY <1>3, <2>3, <2>7 DEF r, id
<1> QED BY <1>2, <1>3

LEMMA TextState ==
  ASSUME NEW s \in States, ~s.textStarted, s.prevText = <<>>, NEW e, e.text \in Seq(Nat)
  PROVE  LET r == UIStreamPart!Text(s, e)
         IN  /\ r \in States /\ r.reasoningStarted = s.reasoningStarted
             /\ r.reasoningID = s.reasoningID
             /\ r.startedToolCalls = s.startedToolCalls
             /\ r.emittedToolCalls = s.emittedToolCalls
             /\ r.textStarted = (e.text # <<>>)
             /\ r.nextID = IF e.text = <<>> THEN s.nextID ELSE s.nextID + 1
             /\ e.text # <<>> => r.textID = <<"text", s.nextID>>
             /\ UIStreamPart!TextParts(s, e) =
                  IF e.text = <<>> THEN <<>>
                  ELSE <<UIStreamPart!BlockPart("text-start", <<"text", s.nextID>>, <<>>),
                         UIStreamPart!BlockPart("text-delta", <<"text", s.nextID>>, e.text)>>
<1> DEFINE r == UIStreamPart!Text(s, e)
           id == <<"text", s.nextID>>
<1>1. UIStreamPart!NewIn(e.text, s.prevText) <=> e.text # <<>>
  <2>1. Len(s.prevText) = 0 /\ Len(e.text) \in Nat
    OBVIOUS
  <2>2. Len(e.text) = 0 <=> e.text = <<>>
    OBVIOUS
  <2> QED BY <2>1, <2>2 DEF UIStreamPart!NewIn
<1>2. CASE e.text = <<>>
  <2>1. r = s /\ UIStreamPart!TextParts(s, e) = <<>>
    BY <1>1, <1>2 DEF UIStreamPart!Text, UIStreamPart!TextParts
  <2> HIDE DEF r
  <2>2. r.textStarted = FALSE
    BY <2>1 DEF States
  <2> QED BY <1>2, <2>1, <2>2 DEF r
<1>3. CASE e.text # <<>>
  <2>1. r = [s EXCEPT !.textStarted = TRUE, !.prevText = e.text,
                      !.textID = id, !.nextID = @ + 1]
    BY <1>1, <1>3 DEF UIStreamPart!Text
  <2>2. id \in Ids /\ s.nextID + 1 \in Nat
    BY DEF States, Ids, BlockIds
  <2> HIDE DEF r, id
  <2>3. /\ r \in States /\ r.reasoningStarted = s.reasoningStarted
        /\ r.reasoningID = s.reasoningID
        /\ r.startedToolCalls = s.startedToolCalls
        /\ r.emittedToolCalls = s.emittedToolCalls
        /\ r.textStarted = TRUE /\ r.nextID = s.nextID + 1 /\ r.textID = id
    BY <2>1, <2>2 DEF States
  <2>4. UIStreamPart!Suffix(e.text, s.prevText) = e.text
    <3>1. Len(s.prevText) + 1 = 1
      OBVIOUS
    <3>2. SubSeq(e.text, 1, Len(e.text)) = e.text
      OBVIOUS
    <3> QED BY <3>1, <3>2 DEF UIStreamPart!Suffix
  <2>5. UIStreamPart!TextParts(s, e) =
          <<UIStreamPart!BlockPart("text-start", id, <<>>)>>
              \o <<UIStreamPart!BlockPart("text-delta", id, e.text)>>
    BY <1>1, <1>3, <2>3, <2>4 DEF UIStreamPart!TextParts, r
  <2>7. UIStreamPart!TextParts(s, e) = <<UIStreamPart!BlockPart("text-start", id, <<>>),
                            UIStreamPart!BlockPart("text-delta", id, e.text)>>
    BY <2>5, OneAndOne
  <2> QED BY <1>3, <2>3, <2>7 DEF r, id
<1> QED BY <1>2, <1>3

-----------------------------------------------------------------------------
\* What the client has after each group of parts.
SayItems == {SaysOf(b) : b \in Items}

LEMMA SaysType ==
  ASSUME NEW v, View(v)
  PROVE  SaysAll(v) \in Seq(SayItems)
<1>1. v \in Seq(Items)
  BY DEF View
<1>2. \A i \in DOMAIN v : SaysOf(v[i]) \in SayItems
  BY <1>1 DEF SayItems
<1> QED BY <1>1, <1>2 DEF SaysAll

WordParts(kind, id, content) ==
  IF content = <<>> THEN <<>>
  ELSE <<UIStreamPart!BlockPart(StartOf(kind), id, <<>>),
      UIStreamPart!BlockPart(DeltaOf(kind), id, content)>>
WordSays(kind, content) ==
  IF content = <<>> THEN <<>> ELSE <<[kind |-> kind, content |-> content]>>
WordName(kind, id, content) == IF content = <<>> THEN {} ELSE {<<kind, id>>}

\* A block that comes, and what becomes of the view.
WordCame(v, x, kind, id, content) ==
  /\ View(x) /\ ResultsIn(x) = ResultsIn(v)
  /\ NamesIn(x) = NamesIn(v) \cup WordName(kind, id, content)
  /\ OpenIn(x) = OpenIn(v) \cup WordName(kind, id, content)
  /\ SaysAll(x) = SaysAll(v) \o WordSays(kind, content)
  /\ WordSays(kind, content) \in Seq(SayItems)
  /\ WordParts(kind, id, content) \in Seq(Parts)

LEMMA ShownWord ==
  ASSUME NEW v, View(v), NEW kind \in {"text", "reasoning"}, NEW id \in BlockIds,
         NEW content \in Seq(Nat), <<kind, id>> \notin NamesIn(v),
         NEW w, w = UIStreamPart!Shown(v, WordParts(kind, id, content))
  PROVE  WordCame(v, w, kind, id, content)
<1>1. CASE content = <<>>
  <2>1. w = v
    BY <1>1, ShownEmpty DEF WordParts
  <2>2. SaysAll(v) \o <<>> = SaysAll(v)
    BY SaysType
  <2>3. <<>> \in Seq(SayItems) /\ <<>> \in Seq(Parts)
    OBVIOUS
  <2> QED BY <1>1, <2>1, <2>2, <2>3 DEF WordCame, WordName, WordSays, WordParts
<1>2. CASE content # <<>>
  <2> DEFINE b == NewBlock(kind, id, content)
             say == [kind |-> kind, content |-> content]
  <2>1. w = Append(v, b)
    BY <1>2, BlockComes DEF WordParts
  <2>2. b \in Items /\ NameOf(b) = <<kind, id>> /\ SaysOf(b) = say /\ IsOpen(b) /\ b.kind = kind
    BY NewBlockType
  <2>3. say \in SayItems
    BY <2>2 DEF SayItems
  <2> HIDE DEF b, say
  <2>4. /\ View(w) /\ NamesIn(w) = NamesIn(v) \cup {NameOf(b)}
        /\ SaysAll(w) = Append(SaysAll(v), SaysOf(b))
        /\ OpenIn(w) = OpenIn(v) \cup (IF IsOpen(b) THEN {NameOf(b)} ELSE {})
        /\ ResultsIn(w) = ResultsIn(v) \cup (IF b.kind = "tool" THEN {<<b.id, b.output>>} ELSE {})
    <3>1. NameOf(b) \notin NamesIn(v)
      BY <2>2
    <3>2. b \in Items
      BY <2>2
    <3> QED BY <2>1, <3>1, <3>2, ViewAppend
  <2>5. /\ View(w) /\ NamesIn(w) = NamesIn(v) \cup {<<kind, id>>}
        /\ SaysAll(w) = Append(SaysAll(v), say)
        /\ OpenIn(w) = OpenIn(v) \cup {<<kind, id>>} /\ ResultsIn(w) = ResultsIn(v)
    BY <2>2, <2>4
  <2>6. SaysAll(w) = SaysAll(v) \o <<say>> /\ <<say>> \in Seq(SayItems)
    BY <2>3, <2>5, SaysType, AppendIsConcat
  <2> DEFINE p == UIStreamPart!BlockPart(StartOf(kind), id, <<>>)
             q == UIStreamPart!BlockPart(DeltaOf(kind), id, content)
  <2>7. p \in Parts /\ q \in Parts
    <3>1. <<>> \in Seq(Nat) /\ StartOf(kind) \in BlockTypes /\ DeltaOf(kind) \in BlockTypes
      BY DEF StartOf, DeltaOf, BlockTypes
    <3> QED BY <3>1 DEF Parts, UIStreamPart!BlockPart, Ids
  <2> HIDE DEF p, q
  <2>8. <<p, q>> \in Seq(Parts)
    BY <2>7
  <2> QED BY <1>2, <2>5, <2>6, <2>8 DEF WordCame, WordName, WordSays, WordParts, p, q, say
<1> QED BY <1>1, <1>2

\* One call.
CallParts(id) ==
  <<UIStreamPart!ToolPart("tool-input-start", id, "n"),
      UIStreamPart!ToolPart("tool-input-available", id, <<"args", id>>)>>
CallSays(id) == [kind |-> "tool", content |-> <<"args", id>>]

LEMMA ShownCall ==
  ASSUME NEW v, View(v), NEW id \in CallIds, <<"tool", id>> \notin NamesIn(v),
         NEW w, w = UIStreamPart!Shown(v, CallParts(id))
  PROVE  /\ View(w) /\ OpenIn(w) = OpenIn(v)
         /\ NamesIn(w) = NamesIn(v) \cup {<<"tool", id>>}
         /\ SaysAll(w) = SaysAll(v) \o <<CallSays(id)>>
         /\ ResultsIn(w) = ResultsIn(v) \cup {<<id, <<>>>>}
         /\ CallSays(id) \in SayItems /\ CallParts(id) \in Seq(Parts)
<1> DEFINE b == NewTool(id)
           say == CallSays(id)
<1>1. w = Append(v, b)
  BY ToolComes DEF CallParts
<1>2. /\ b \in Items /\ NameOf(b) = <<"tool", id>> /\ SaysOf(b) = say /\ ~IsOpen(b)
      /\ b.kind = "tool" /\ b.id = id /\ b.output = <<>>
  BY NewToolType DEF CallSays
<1>3. say \in SayItems
  BY <1>2 DEF SayItems
<1> HIDE DEF b, say
<1>4. /\ View(w) /\ NamesIn(w) = NamesIn(v) \cup {<<"tool", id>>}
      /\ SaysAll(w) = Append(SaysAll(v), say)
      /\ OpenIn(w) = OpenIn(v) \cup (IF IsOpen(b) THEN {NameOf(b)} ELSE {})
      /\ ResultsIn(w) = ResultsIn(v) \cup (IF b.kind = "tool" THEN {<<b.id, b.output>>} ELSE {})
  BY <1>1, <1>2, ViewAppend
<1>5. OpenIn(w) = OpenIn(v) /\ ResultsIn(w) = ResultsIn(v) \cup {<<id, <<>>>>}
  BY <1>2, <1>4
<1>6. SaysAll(w) = SaysAll(v) \o <<say>>
  BY <1>3, <1>4, SaysType, AppendIsConcat
<1> DEFINE p == UIStreamPart!ToolPart("tool-input-start", id, "n")
           q == UIStreamPart!ToolPart("tool-input-available", id, <<"args", id>>)
<1>7. p \in Parts /\ q \in Parts
  BY DEF Parts, UIStreamPart!ToolPart
<1> HIDE DEF p, q
<1>8. <<p, q>> \in Seq(Parts)
  BY <1>7
<1> QED BY <1>3, <1>4, <1>5, <1>6, <1>8 DEF CallParts, p, q, say

\* A block that is open, or none, is closed.
EndWord(kind, id, content) ==
  IF content = <<>> THEN <<>> ELSE <<UIStreamPart!BlockPart(EndOf(kind), id, <<>>)>>

LEMMA ShownEnd ==
  ASSUME NEW v, View(v), NEW kind \in {"text", "reasoning"}, NEW id \in Ids, NEW content,
         content # <<>> => <<kind, id>> \in OpenIn(v),
         NEW w, w = UIStreamPart!Shown(v, EndWord(kind, id, content))
  PROVE  /\ View(w) /\ NamesIn(w) = NamesIn(v) /\ SaysAll(w) = SaysAll(v)
         /\ ResultsIn(w) = ResultsIn(v)
         /\ OpenIn(w) = OpenIn(v) \ WordName(kind, id, content)
         /\ EndWord(kind, id, content) \in Seq(Parts)
<1>1. CASE content = <<>>
  <2>1. w = v
    BY <1>1, ShownEmpty DEF EndWord
  <2>2. <<>> \in Seq(Parts)
    OBVIOUS
  <2> QED BY <1>1, <2>1, <2>2 DEF WordName, EndWord
<1>2. CASE content # <<>>
  <2> DEFINE p == UIStreamPart!BlockPart(EndOf(kind), id, <<>>)
  <2>1. w = UIStreamPart!Show(p, v)
    BY <1>2, ShownOne DEF EndWord
  <2>2. p \in Parts
    <3>1. <<>> \in Seq(Nat) /\ EndOf(kind) \in BlockTypes
      BY DEF EndOf, BlockTypes
    <3> QED BY <3>1 DEF Parts, UIStreamPart!BlockPart
  <2>3. /\ View(w) /\ NamesIn(w) = NamesIn(v) /\ SaysAll(w) = SaysAll(v)
        /\ OpenIn(w) = OpenIn(v) \ {<<kind, id>>} /\ ResultsIn(w) = ResultsIn(v)
    BY <1>2, <2>1, BlockEnds
  <2> HIDE DEF p
  <2>4. <<p>> \in Seq(Parts)
    BY <2>2
  <2> QED BY <1>2, <2>3, <2>4 DEF WordName, EndWord, p
<1> QED BY <1>1, <1>2

-----------------------------------------------------------------------------
\* The calls of a message: none, one or two, each with an id of its own.
CallOf(id) == [id |-> id, name |-> "n", args |-> <<"args", id>>]
CallsWith(fresh, c) ==
  \/ c = <<>>
  \/ \E i \in fresh : c = <<CallOf(i)>>
  \/ \E i, j \in fresh : i # j /\ c = <<CallOf(i), CallOf(j)>>
IdsOf(c) == {c[i].id : i \in DOMAIN c}
CallsSay(c) == [i \in DOMAIN c |-> [kind |-> "tool", content |-> c[i].args]]

\* The parts of one call that was not told.
TellCall(s, c, i) ==
  LET untold == \A j \in 1..(i - 1) : UIStreamPart!Key(c[j], j) # UIStreamPart!Key(c[i], i)
  IN  (IF untold /\ UIStreamPart!Key(c[i], i) \notin s.startedToolCalls
       THEN <<UIStreamPart!ToolPart("tool-input-start", c[i].id, c[i].name)>> ELSE <<>>)
      \o (IF untold /\ UIStreamPart!Key(c[i], i) \notin s.emittedToolCalls
          THEN <<UIStreamPart!ToolPart("tool-input-available", c[i].id, c[i].args)>> ELSE <<>>)

LEMMA TellNewCall ==
  ASSUME NEW s, NEW c, NEW i \in Nat, NEW id, c[i] = CallOf(id), id # None,
         id \notin s.startedToolCalls, id \notin s.emittedToolCalls,
         \A j \in 1..(i - 1) : UIStreamPart!Key(c[j], j) # id
  PROVE  TellCall(s, c, i) = CallParts(id)
<1>1. c[i].id = id /\ c[i].name = "n" /\ c[i].args = <<"args", id>>
  BY DEF CallOf
<1>2. UIStreamPart!Key(c[i], i) = id
  BY <1>1 DEF UIStreamPart!Key
<1>3. TellCall(s, c, i) = <<UIStreamPart!ToolPart("tool-input-start", id, "n")>>
                          \o <<UIStreamPart!ToolPart("tool-input-available", id, <<"args", id>>)>>
  BY <1>1, <1>2 DEF TellCall
<1> QED BY <1>3, OneAndOne DEF CallParts

LEMMA SameJoined == \A s : UIStreamPart!Joined(s) = Joined(s)
BY DEF UIStreamPart!Joined, Joined

LEMMA TellsAreJoined ==
  ASSUME NEW s, NEW e
  PROVE  UIStreamPart!AssistantToolCallParts(s, e) =
           Joined([i \in DOMAIN e.toolCalls |-> TellCall(s, e.toolCalls, i)])
BY SameJoined DEF UIStreamPart!AssistantToolCallParts, TellCall

LEMMA NoCall ==
  ASSUME NEW s, NEW e, e.toolCalls = <<>>
  PROVE  UIStreamPart!AssistantToolCallParts(s, e) = <<>> /\ CallsSay(<<>>) = <<>>
           /\ IdsOf(<<>>) = {}
<1> DEFINE f == [i \in DOMAIN e.toolCalls |-> TellCall(s, e.toolCalls, i)]
<1>1. f = <<>>
  OBVIOUS
<1> HIDE DEF f
<1>2. Joined(f) = <<>>
  BY <1>1, JoinedEmpty
<1>3. UIStreamPart!AssistantToolCallParts(s, e) = <<>>
  BY <1>2, TellsAreJoined DEF f
<1> QED BY <1>3 DEF CallsSay, IdsOf

LEMMA OneCall ==
  ASSUME NEW s, NEW id \in CallIds, id # None, id \notin s.startedToolCalls,
         id \notin s.emittedToolCalls,
         NEW e, e.toolCalls = <<CallOf(id)>>, CallParts(id) \in Seq(Parts)
  PROVE  /\ UIStreamPart!AssistantToolCallParts(s, e) = CallParts(id)
         /\ CallsSay(<<CallOf(id)>>) = <<CallSays(id)>> /\ IdsOf(<<CallOf(id)>>) = {id}
<1> DEFINE c == e.toolCalls
           f == [i \in DOMAIN c |-> TellCall(s, c, i)]
           b == CallOf(id)
<1>1. DOMAIN c = 1..1 /\ c[1] = CallOf(id) /\ 1 \in Nat /\ 1..(1 - 1) = {}
  OBVIOUS
<1>2. TellCall(s, c, 1) = CallParts(id)
  BY <1>1, TellNewCall
<1>3. f = <<CallParts(id)>>
  BY <1>1, <1>2
<1> HIDE DEF f
<1>4. Joined(f) = CallParts(id)
  BY <1>3, JoinedOne
<1>5. UIStreamPart!AssistantToolCallParts(s, e) = CallParts(id)
  BY <1>4, TellsAreJoined DEF f
<1>6. CallsSay(<<CallOf(id)>>) = <<CallSays(id)>> /\ IdsOf(<<CallOf(id)>>) = {id}
  <2>1. b.id = id /\ b.args = <<"args", id>>
    BY DEF CallOf
  <2> HIDE DEF b
  <2>2. CallsSay(<<b>>) = <<CallSays(id)>> /\ IdsOf(<<b>>) = {id}
    BY <2>1 DEF CallsSay, IdsOf, CallSays
  <2> QED BY <2>2 DEF b
<1> QED BY <1>5, <1>6

LEMMA TwoCalls ==
  ASSUME NEW s, NEW id \in CallIds, NEW id2 \in CallIds, id # id2, id # None, id2 # None,
         id \notin s.startedToolCalls, id \notin s.emittedToolCalls,
         id2 \notin s.startedToolCalls, id2 \notin s.emittedToolCalls,
         NEW e, e.toolCalls = <<CallOf(id), CallOf(id2)>>,
         CallParts(id) \in Seq(Parts), CallParts(id2) \in Seq(Parts)
  PROVE  /\ UIStreamPart!AssistantToolCallParts(s, e) = CallParts(id) \o CallParts(id2)
         /\ CallsSay(e.toolCalls) = <<CallSays(id)>> \o <<CallSays(id2)>>
         /\ IdsOf(e.toolCalls) = {id, id2}
<1> DEFINE c == e.toolCalls
           f == [i \in DOMAIN c |-> TellCall(s, c, i)]
           p == CallParts(id)
           q == CallParts(id2)
           b == CallOf(id)
           d == CallOf(id2)
<1>1. /\ DOMAIN c = 1..2 /\ c[1] = CallOf(id) /\ c[2] = CallOf(id2)
      /\ 1 \in Nat /\ 2 \in Nat /\ 1..(1 - 1) = {} /\ 1..(2 - 1) = {1}
  OBVIOUS
<1>2. b.id = id /\ d.id = id2 /\ b.args = <<"args", id>> /\ d.args = <<"args", id2>>
  BY DEF CallOf
<1>3. TellCall(s, c, 1) = p
  BY <1>1, TellNewCall
<1>4. TellCall(s, c, 2) = q
  <2>1. UIStreamPart!Key(c[1], 1) = id
    BY <1>1, <1>2 DEF UIStreamPart!Key
  <2>2. \A j \in 1..(2 - 1) : UIStreamPart!Key(c[j], j) # id2
    BY <1>1, <2>1
  <2> QED BY <1>1, <2>2, TellNewCall
<1> HIDE DEF c, p, q
<1>5. \A i \in 1..2 : i = 1 \/ i = 2
  OBVIOUS
<1>6. f = <<p, q>>
  <2>1. f = [i \in 1..2 |-> IF i = 1 THEN p ELSE q]
    BY <1>1, <1>3, <1>4, <1>5
  <2> QED BY <2>1
<1> HIDE DEF f
<1>7. Joined(f) = p \o q
  <2> DEFINE one == <<p>>
  <2>1. <<p, q>> = Append(one, q) /\ one \in Seq(Seq(Parts)) /\ q \in Seq(Parts)
        /\ p \in Seq(Parts)
    BY DEF p, q
  <2>2. Joined(one) = p
    BY <2>1, JoinedOne
  <2> HIDE DEF one
  <2>3. Joined(Append(one, q)) = Joined(one) \o q
    BY <2>1, JoinedAppend
  <2> QED BY <1>6, <2>1, <2>2, <2>3
<1>8. UIStreamPart!AssistantToolCallParts(s, e) = p \o q
  BY <1>7, TellsAreJoined DEF f, c
<1> HIDE DEF b, d
<1>9. CallsSay(<<b, d>>) = <<CallSays(id), CallSays(id2)>> /\ IdsOf(<<b, d>>) = {id, id2}
  <2> DEFINE t == <<b, d>>
             say1 == [kind |-> "tool", content |-> b.args]
             say2 == [kind |-> "tool", content |-> d.args]
  <2>1. DOMAIN t = 1..2 /\ t[1] = b /\ t[2] = d
    OBVIOUS
  <2>2. say1 = CallSays(id) /\ say2 = CallSays(id2)
    BY <1>2 DEF CallSays
  <2> HIDE DEF t
  <2>3. CallsSay(t) = [i \in 1..2 |-> IF i = 1 THEN say1 ELSE say2]
    BY <1>5, <2>1 DEF CallsSay
  <2> HIDE DEF say1, say2
  <2>4. CallsSay(t) = <<say1, say2>>
    BY <2>3
  <2>5. IdsOf(t) = {id, id2}
    BY <1>2, <1>5, <2>1 DEF IdsOf
  <2> QED BY <2>2, <2>4, <2>5 DEF t
<1> QED BY <1>8, <1>9, OneAndOne DEF b, d, p, q

LEMMA ShownCalls ==
  ASSUME NEW v, View(v), NEW s \in States, NEW e, NEW fresh \in SUBSET CallIds,
         CallsWith(fresh, e.toolCalls), None \notin fresh,
         \A id \in fresh : /\ id \notin s.startedToolCalls /\ id \notin s.emittedToolCalls
                         /\ <<"tool", id>> \notin NamesIn(v),
         NEW w, w = UIStreamPart!Shown(v, UIStreamPart!AssistantToolCallParts(s, e))
  PROVE  /\ View(w) /\ OpenIn(w) = OpenIn(v)
         /\ NamesIn(w) = NamesIn(v) \cup {<<"tool", id>> : id \in IdsOf(e.toolCalls)}
         /\ SaysAll(w) = SaysAll(v) \o CallsSay(e.toolCalls)
         /\ ResultsIn(w) = ResultsIn(v) \cup {<<id, <<>>>> : id \in IdsOf(e.toolCalls)}
         /\ CallsSay(e.toolCalls) \in Seq(SayItems)
         /\ UIStreamPart!AssistantToolCallParts(s, e) \in Seq(Parts)
         /\ IdsOf(e.toolCalls) \subseteq fresh
<1>1. CASE e.toolCalls = <<>>
  <2>1. UIStreamPart!AssistantToolCallParts(s, e) = <<>> /\ CallsSay(e.toolCalls) = <<>>
        /\ IdsOf(e.toolCalls) = {}
    BY <1>1, NoCall
  <2>2. w = v /\ SaysAll(v) \o <<>> = SaysAll(v) /\ <<>> \in Seq(SayItems) /\ <<>> \in Seq(Parts)
    BY <2>1, ShownEmpty, SaysType
  <2> QED BY <2>1, <2>2
<1>2. ASSUME NEW i \in fresh, e.toolCalls = <<CallOf(i)>>
      PROVE  /\ View(w) /\ OpenIn(w) = OpenIn(v)
             /\ NamesIn(w) = NamesIn(v) \cup {<<"tool", id>> : id \in IdsOf(e.toolCalls)}
             /\ SaysAll(w) = SaysAll(v) \o CallsSay(e.toolCalls)
             /\ ResultsIn(w) = ResultsIn(v) \cup {<<id, <<>>>> : id \in IdsOf(e.toolCalls)}
             /\ CallsSay(e.toolCalls) \in Seq(SayItems)
             /\ UIStreamPart!AssistantToolCallParts(s, e) \in Seq(Parts)
             /\ IdsOf(e.toolCalls) \subseteq fresh
  <2> DEFINE x == UIStreamPart!Shown(v, CallParts(i))
  <2>1. /\ View(x) /\ OpenIn(x) = OpenIn(v)
        /\ NamesIn(x) = NamesIn(v) \cup {<<"tool", i>>}
        /\ SaysAll(x) = SaysAll(v) \o <<CallSays(i)>>
        /\ ResultsIn(x) = ResultsIn(v) \cup {<<i, <<>>>>}
        /\ CallSays(i) \in SayItems /\ CallParts(i) \in Seq(Parts)
    BY ShownCall
  <2>2. /\ UIStreamPart!AssistantToolCallParts(s, e) = CallParts(i)
        /\ CallsSay(e.toolCalls) = <<CallSays(i)>> /\ IdsOf(e.toolCalls) = {i}
    BY <1>2, <2>1, OneCall
  <2>3. <<CallSays(i)>> \in Seq(SayItems)
    BY <2>1
  <2> HIDE DEF x
  <2> QED BY <2>1, <2>2, <2>3 DEF x
<1>3. ASSUME NEW i \in fresh, NEW j \in fresh, i # j, e.toolCalls = <<CallOf(i), CallOf(j)>>
      PROVE  /\ View(w) /\ OpenIn(w) = OpenIn(v)
             /\ NamesIn(w) = NamesIn(v) \cup {<<"tool", id>> : id \in IdsOf(e.toolCalls)}
             /\ SaysAll(w) = SaysAll(v) \o CallsSay(e.toolCalls)
             /\ ResultsIn(w) = ResultsIn(v) \cup {<<id, <<>>>> : id \in IdsOf(e.toolCalls)}
             /\ CallsSay(e.toolCalls) \in Seq(SayItems)
             /\ UIStreamPart!AssistantToolCallParts(s, e) \in Seq(Parts)
             /\ IdsOf(e.toolCalls) \subseteq fresh
  <2> DEFINE x == UIStreamPart!Shown(v, CallParts(i))
             y == UIStreamPart!Shown(x, CallParts(j))
  <2>1. /\ View(x) /\ OpenIn(x) = OpenIn(v)
        /\ NamesIn(x) = NamesIn(v) \cup {<<"tool", i>>}
        /\ SaysAll(x) = SaysAll(v) \o <<CallSays(i)>>
        /\ ResultsIn(x) = ResultsIn(v) \cup {<<i, <<>>>>}
        /\ CallSays(i) \in SayItems /\ CallParts(i) \in Seq(Parts)
    BY ShownCall
  <2>2. <<"tool", j>> \notin NamesIn(x)
    BY <1>3, <2>1
  <2> HIDE DEF x
  <2>3. /\ View(y) /\ OpenIn(y) = OpenIn(x)
        /\ NamesIn(y) = NamesIn(x) \cup {<<"tool", j>>}
        /\ SaysAll(y) = SaysAll(x) \o <<CallSays(j)>>
        /\ ResultsIn(y) = ResultsIn(x) \cup {<<j, <<>>>>}
        /\ CallSays(j) \in SayItems /\ CallParts(j) \in Seq(Parts)
    BY <2>1, <2>2, ShownCall
  <2>4. /\ UIStreamPart!AssistantToolCallParts(s, e) = CallParts(i) \o CallParts(j)
        /\ CallsSay(e.toolCalls) = <<CallSays(i)>> \o <<CallSays(j)>>
        /\ IdsOf(e.toolCalls) = {i, j}
    <3>1. /\ i \in CallIds /\ j \in CallIds /\ i # None /\ j # None
          /\ i \notin s.startedToolCalls /\ i \notin s.emittedToolCalls
          /\ j \notin s.startedToolCalls /\ j \notin s.emittedToolCalls
      OBVIOUS
    <3>2. CallParts(i) \in Seq(Parts) /\ CallParts(j) \in Seq(Parts)
      BY <2>1, <2>3
    <3> QED BY <1>3, <3>1, <3>2, TwoCalls
  <2>5. w = y
    BY <2>1, <2>3, <2>4, ShownConcat DEF x
  <2>6. CallParts(i) \o CallParts(j) \in Seq(Parts)
    BY <2>1, <2>3
  <2> DEFINE a == SaysAll(v)
             b == <<CallSays(i)>>
             c == <<CallSays(j)>>
  <2>7. a \in Seq(SayItems) /\ b \in Seq(SayItems) /\ c \in Seq(SayItems)
    BY <2>1, <2>3, SaysType
  <2> HIDE DEF y, a, b, c
  <2>8. (a \o b) \o c = a \o (b \o c) /\ b \o c \in Seq(SayItems)
    BY <2>7
  <2>9. SaysAll(w) = SaysAll(v) \o CallsSay(e.toolCalls)
        /\ CallsSay(e.toolCalls) \in Seq(SayItems)
    BY <2>1, <2>3, <2>4, <2>5, <2>8 DEF a, b, c
  <2>10. NamesIn(w) = NamesIn(v) \cup {<<"tool", id>> : id \in IdsOf(e.toolCalls)}
    BY <2>1, <2>3, <2>4, <2>5
  <2>11. ResultsIn(w) = ResultsIn(v) \cup {<<id, <<>>>> : id \in IdsOf(e.toolCalls)}
    BY <2>1, <2>3, <2>4, <2>5
  <2> QED BY <2>1, <2>3, <2>4, <2>5, <2>6, <2>9, <2>10, <2>11
<1> QED BY <1>1, <1>2, <1>3 DEF CallsWith

-----------------------------------------------------------------------------
\* An entry of the assistant.
LEMMA NoKeysAreNone ==
  ASSUME NEW e, NEW fresh \in SUBSET CallIds, CallsWith(fresh, e.toolCalls), None \notin fresh
  PROVE  UIStreamPart!Keys(e) = IdsOf(e.toolCalls)
<1>1. \A i \in DOMAIN e.toolCalls : e.toolCalls[i].id \in fresh
  <2>1. \A id : CallOf(id).id = id
    BY DEF CallOf
  <2>2. CASE e.toolCalls = <<>>
    BY <2>2
  <2>3. ASSUME NEW i \in fresh, e.toolCalls = <<CallOf(i)>>
        PROVE  \A k \in DOMAIN e.toolCalls : e.toolCalls[k].id \in fresh
    BY <2>1, <2>3
  <2>4. ASSUME NEW i \in fresh, NEW j \in fresh, e.toolCalls = <<CallOf(i), CallOf(j)>>
        PROVE  \A k \in DOMAIN e.toolCalls : e.toolCalls[k].id \in fresh
    <3>1. DOMAIN e.toolCalls = 1..2 /\ \A k \in 1..2 : k = 1 \/ k = 2
      BY <2>4
    <3> QED BY <2>1, <2>4, <3>1
  <2> QED BY <2>2, <2>3, <2>4 DEF CallsWith
<1>2. \A i \in DOMAIN e.toolCalls : UIStreamPart!Key(e.toolCalls[i], i) = e.toolCalls[i].id
  BY <1>1 DEF UIStreamPart!Key
<1> QED BY <1>2 DEF UIStreamPart!Keys, IdsOf

\* What is before the content, and what is after it, shows nothing.
LEMMA QuietPart ==
  ASSUME NEW p \in Parts, p.type \in {"start", "start-step", "finish-step", "finish"}
  PROVE  <<p>> \in Seq(Parts) /\ \A v : UIStreamPart!Shown(v, <<p>>) = v
BY ShownOne DEF UIStreamPart!Show

LEMMA QuietStart == \A s, v : UIStreamPart!StartParts(s) \in Seq(Parts)
    /\ UIStreamPart!Shown(v, UIStreamPart!StartParts(s)) = v
<1> TAKE s
<1> DEFINE x == IF s.messageStarted THEN <<>> ELSE <<UIStreamPart!Part("start")>>
           y == IF s.stepStarted THEN <<>> ELSE <<UIStreamPart!Part("start-step")>>
<1>1. \A t \in {"start", "start-step"} : UIStreamPart!Part(t) \in Parts
          /\ UIStreamPart!Part(t).type = t
  BY DEF UIStreamPart!Part, Parts
<1>2. <<>> \in Seq(Parts) /\ \A v : UIStreamPart!Shown(v, <<>>) = v
  BY ShownEmpty
<1>3. /\ x \in Seq(Parts) /\ y \in Seq(Parts)
      /\ \A v : UIStreamPart!Shown(v, x) = v /\ UIStreamPart!Shown(v, y) = v
  BY <1>1, <1>2, QuietPart
<1> HIDE DEF x, y
<1>4. x \o y \in Seq(Parts) /\ \A v : UIStreamPart!Shown(v, x \o y) = v
  <2>1. \A v : UIStreamPart!Shown(v, x \o y) = UIStreamPart!Shown(UIStreamPart!Shown(v, x), y)
    BY <1>3, ShownConcat
  <2> QED BY <1>3, <2>1
<1> QED BY <1>4 DEF UIStreamPart!StartParts, x, y

LEMMA QuietEnd ==
  ASSUME NEW e, e.stopReason \in {"stop", "toolUse"}
  PROVE  LET c == <<UIStreamPart!Part("finish-step")>>
             d == IF e.toolCalls # <<>> THEN <<>>
                  ELSE <<[type |-> "finish", reason |-> UIStreamPart!MapStopReason(e.stopReason)]>>
         IN  /\ c \in Seq(Parts) /\ d \in Seq(Parts)
             /\ \A v : UIStreamPart!Shown(v, c) = v /\ UIStreamPart!Shown(v, d) = v
<1> DEFINE f == [type |-> "finish", reason |-> UIStreamPart!MapStopReason(e.stopReason)]
<1>1. UIStreamPart!Part("finish-step") \in Parts
          /\ UIStreamPart!Part("finish-step").type = "finish-step"
  BY DEF UIStreamPart!Part, Parts
<1>2. f \in Parts /\ f.type = "finish"
  BY DEF Parts
<1>3. <<>> \in Seq(Parts) /\ \A v : UIStreamPart!Shown(v, <<>>) = v
  BY ShownEmpty
<1> HIDE DEF f
<1>4. /\ <<f>> \in Seq(Parts) /\ <<UIStreamPart!Part("finish-step")>> \in Seq(Parts)
      /\ \A v : UIStreamPart!Shown(v, <<f>>) = v
             /\ UIStreamPart!Shown(v, <<UIStreamPart!Part("finish-step")>>) = v
  BY <1>1, <1>2, QuietPart
<1> QED BY <1>3, <1>4 DEF f

\* The end of an entry, and what becomes of the view.
EndCame(v, s, e, w, rid, tid) ==
  /\ View(w) /\ NamesIn(w) = NamesIn(v) /\ SaysAll(w) = SaysAll(v)
  /\ ResultsIn(w) = ResultsIn(v)
  /\ OpenIn(w) = (OpenIn(v) \ WordName("reasoning", rid, e.thinking))
                    \ WordName("text", tid, e.text)
  /\ UIStreamPart!EndParts(s, e) \in Seq(Parts)

LEMMA ShownEndParts ==
  ASSUME NEW v, View(v), NEW s \in States, NEW rid \in BlockIds, NEW tid \in BlockIds,
         NEW e, e.stopReason \in {"stop", "toolUse"},
         s.reasoningStarted = (e.thinking # <<>>), s.textStarted = (e.text # <<>>),
         e.thinking # <<>> => s.reasoningID = rid /\ <<"reasoning", rid>> \in OpenIn(v),
         e.text # <<>> => s.textID = tid /\ <<"text", tid>> \in OpenIn(v),
         NEW w, w = UIStreamPart!Shown(v, UIStreamPart!EndParts(s, e))
  PROVE  EndCame(v, s, e, w, rid, tid)
<1> DEFINE a == EndWord("reasoning", rid, e.thinking)
           b == EndWord("text", tid, e.text)
           c == <<UIStreamPart!Part("finish-step")>>
           d == IF e.toolCalls # <<>> THEN <<>>
                ELSE <<[type |-> "finish", reason |-> UIStreamPart!MapStopReason(e.stopReason)]>>
           x == UIStreamPart!Shown(v, a)
           y == UIStreamPart!Shown(x, b)
<1>1. UIStreamPart!EndParts(s, e) = ((a \o b) \o c) \o d
  BY DEF UIStreamPart!EndParts, EndWord, EndOf
<1>2. /\ View(x) /\ NamesIn(x) = NamesIn(v) /\ SaysAll(x) = SaysAll(v)
      /\ ResultsIn(x) = ResultsIn(v)
      /\ OpenIn(x) = OpenIn(v) \ WordName("reasoning", rid, e.thinking) /\ a \in Seq(Parts)
  BY ShownEnd DEF Ids
<1> HIDE DEF x
<1>3. e.text # <<>> => <<"text", tid>> \in OpenIn(x)
  BY <1>2 DEF WordName
<1>4. /\ View(y) /\ NamesIn(y) = NamesIn(x) /\ SaysAll(y) = SaysAll(x)
      /\ ResultsIn(y) = ResultsIn(x)
      /\ OpenIn(y) = OpenIn(x) \ WordName("text", tid, e.text) /\ b \in Seq(Parts)
  BY <1>2, <1>3, ShownEnd DEF Ids
<1>5. /\ c \in Seq(Parts) /\ d \in Seq(Parts)
      /\ \A u : UIStreamPart!Shown(u, c) = u /\ UIStreamPart!Shown(u, d) = u
  BY QuietEnd
<1> HIDE DEF a, b, c, d, y
<1> DEFINE ab == a \o b
           abc == ab \o c
<1>6. ab \in Seq(Parts) /\ UIStreamPart!Shown(v, ab) = y
  BY <1>2, <1>4, ShownConcat DEF x, y
<1> HIDE DEF ab
<1>7. abc \in Seq(Parts) /\ UIStreamPart!Shown(v, abc) = y
  <2>1. UIStreamPart!Shown(v, ab \o c) = UIStreamPart!Shown(UIStreamPart!Shown(v, ab), c)
    BY <1>5, <1>6, ShownConcat
  <2> QED BY <1>5, <1>6, <2>1
<1> HIDE DEF abc
<1>8. abc \o d \in Seq(Parts) /\ UIStreamPart!Shown(v, abc \o d) = y
  <2>1. UIStreamPart!Shown(v, abc \o d) = UIStreamPart!Shown(UIStreamPart!Shown(v, abc), d)
    BY <1>5, <1>7, ShownConcat
  <2> QED BY <1>5, <1>7, <2>1
<1>9. UIStreamPart!EndParts(s, e) = abc \o d
  BY <1>1 DEF ab, abc
<1> QED BY <1>2, <1>4, <1>8, <1>9 DEF EndCame

\* The blocks that the client has have numbers that were given.
Numbered(v, n) == \A kind \in {"text", "reasoning"}, k \in Nat :
                    <<kind, <<kind, k>>>> \in NamesIn(v) => k < n

LEMMA SaysIsWords ==
  ASSUME NEW e, e.role = "assistant"
  PROVE  UIStreamPart!Says(e) = (WordSays("reasoning", e.thinking) \o WordSays("text", e.text))
                     \o CallsSay(e.toolCalls)
BY DEF UIStreamPart!Says, WordSays, CallsSay

\* Of an entry.
LEMMA WordComes ==
  ASSUME NEW kind \in {"text", "reasoning"}, NEW v, View(v), NEW n \in Nat,
         NEW content \in Seq(Nat), <<kind, <<kind, n>>>> \notin NamesIn(v)
  PROVE  WordCame(v, UIStreamPart!Shown(v, WordParts(kind, <<kind, n>>, content)), kind,
           <<kind, n>>, content)
<1> DEFINE id == <<kind, n>>
<1>1. id \in BlockIds /\ <<kind, id>> \notin NamesIn(v)
  BY DEF BlockIds
<1> HIDE DEF id
<1>2. \A x : x = UIStreamPart!Shown(v, WordParts(kind, id, content))
          => WordCame(v, x, kind, id, content)
  BY <1>1, ShownWord
<1> QED BY <1>2 DEF id

\* An entry that came, and what becomes of the view and of the state.
EntryCame(v, s, e, w, t) ==
  /\ View(w) /\ OpenIn(w) = {}
  /\ SaysAll(w) = SaysAll(v) \o UIStreamPart!Says(e) /\ UIStreamPart!Says(e) \in Seq(SayItems)
  /\ ResultsIn(w) = ResultsIn(v) \cup {<<id, <<>>>> : id \in IdsOf(e.toolCalls)}
  /\ Numbered(w, t.nextID)
  /\ \A id : <<"tool", id>> \in NamesIn(w) =>
       <<"tool", id>> \in NamesIn(v) \/ id \in IdsOf(e.toolCalls)
  /\ t \in States /\ ~t.stepStarted /\ ~t.textStarted /\ ~t.reasoningStarted
  /\ t.startedToolCalls = s.startedToolCalls \cup IdsOf(e.toolCalls)
  /\ t.emittedToolCalls = s.emittedToolCalls \cup IdsOf(e.toolCalls)

LEMMA ShownEntry ==
  ASSUME NEW v, View(v), OpenIn(v) = {}, NEW s \in States, ~s.stepStarted,
         Numbered(v, s.nextID),
         NEW e, e.role = "assistant", e.text \in Seq(Nat), e.thinking \in Seq(Nat),
         e.stopReason \in {"stop", "toolUse"},
         NEW fresh \in SUBSET CallIds, CallsWith(fresh, e.toolCalls), None \notin fresh,
         \A id \in fresh : /\ id \notin s.startedToolCalls /\ id \notin s.emittedToolCalls
                         /\ <<"tool", id>> \notin NamesIn(v),
         NEW t, t = UIStreamPart!AssistantEntryToParts(e, s).state,
         NEW w, w = UIStreamPart!Shown(v, UIStreamPart!AssistantEntryToParts(e, s).parts)
  PROVE  EntryCame(v, s, e, w, t)
<1> DEFINE started == UIStreamPart!StartStep(s)
           thought == UIStreamPart!Reasoning(started, e)
           voiced == UIStreamPart!Text(thought, e)
           called == [voiced EXCEPT !.startedToolCalls = @ \cup UIStreamPart!Keys(e),
                                    !.emittedToolCalls = @ \cup UIStreamPart!Keys(e)]
           n == s.nextID
           m == thought.nextID
           rid == <<"reasoning", n>>
           tid == <<"text", m>>
           RN == WordName("reasoning", rid, e.thinking)
           TN == WordName("text", tid, e.text)
           a == UIStreamPart!StartParts(s)
           b == UIStreamPart!ReasoningParts(started, e)
           c == UIStreamPart!TextParts(thought, e)
           d == UIStreamPart!AssistantToolCallParts(voiced, e)
           f == UIStreamPart!EndParts(called, e)
<1>1. /\ started \in States /\ ~started.textStarted /\ ~started.reasoningStarted
      /\ started.prevText = <<>> /\ started.prevThinking = <<>> /\ started.nextID = n
      /\ started.startedToolCalls = s.startedToolCalls
      /\ started.emittedToolCalls = s.emittedToolCalls
  BY StartStepState
<1> HIDE DEF started
<1>2. /\ thought \in States /\ ~thought.textStarted /\ thought.prevText = <<>>
      /\ thought.startedToolCalls = s.startedToolCalls
      /\ thought.emittedToolCalls = s.emittedToolCalls
      /\ thought.reasoningStarted = (e.thinking # <<>>)
      /\ m = IF e.thinking = <<>> THEN n ELSE n + 1
      /\ e.thinking # <<>> => thought.reasoningID = rid
      /\ b = WordParts("reasoning", rid, e.thinking)
  BY <1>1, ReasoningState DEF WordParts, StartOf, DeltaOf
<1> HIDE DEF thought
<1>3. /\ voiced \in States /\ voiced.reasoningStarted = (e.thinking # <<>>)
      /\ e.thinking # <<>> => voiced.reasoningID = rid
      /\ voiced.startedToolCalls = s.startedToolCalls
      /\ voiced.emittedToolCalls = s.emittedToolCalls
      /\ voiced.textStarted = (e.text # <<>>)
      /\ voiced.nextID = IF e.text = <<>> THEN m ELSE m + 1
      /\ e.text # <<>> => voiced.textID = tid
      /\ c = WordParts("text", tid, e.text)
  BY <1>2, TextState DEF WordParts, StartOf, DeltaOf
<1> HIDE DEF voiced
<1>4. n \in Nat /\ m \in Nat /\ n <= m /\ rid \in BlockIds /\ tid \in BlockIds
  <2>1. n \in Nat
    BY DEF States
  <2> HIDE DEF n, m
  <2>2. m \in Nat /\ n <= m
    BY <1>2, <2>1
  <2> QED BY <2>1, <2>2 DEF BlockIds
<1>5. a \in Seq(Parts) /\ UIStreamPart!Shown(v, a) = v
  BY QuietStart
<1> DEFINE x == UIStreamPart!Shown(v, b)
           y == UIStreamPart!Shown(x, c)
           z == UIStreamPart!Shown(y, d)
<1>6. /\ View(x) /\ ResultsIn(x) = ResultsIn(v) /\ NamesIn(x) = NamesIn(v) \cup RN
      /\ OpenIn(x) = OpenIn(v) \cup RN
      /\ SaysAll(x) = SaysAll(v) \o WordSays("reasoning", e.thinking)
      /\ WordSays("reasoning", e.thinking) \in Seq(SayItems) /\ b \in Seq(Parts)
  <2>1. <<"reasoning", rid>> \notin NamesIn(v)
    <3> HIDE DEF n
    <3> QED BY <1>4 DEF Numbered, n
  <2>2. View(v) /\ e.thinking \in Seq(Nat) /\ "reasoning" \in {"text", "reasoning"}
    OBVIOUS
  <2>3. WordCame(v, UIStreamPart!Shown(v, WordParts("reasoning", rid, e.thinking)), "reasoning",
            rid, e.thinking)
    BY <1>4, <2>1, <2>2, WordComes
  <2>4. WordCame(v, x, "reasoning", rid, e.thinking)
    BY <1>2, <2>3
  <2> QED BY <1>2, <2>4 DEF WordCame
<1> HIDE DEF x, b
<1>7. /\ View(y) /\ ResultsIn(y) = ResultsIn(x) /\ NamesIn(y) = NamesIn(x) \cup TN
      /\ OpenIn(y) = OpenIn(x) \cup TN
      /\ SaysAll(y) = SaysAll(x) \o WordSays("text", e.text)
      /\ WordSays("text", e.text) \in Seq(SayItems) /\ c \in Seq(Parts)
  <2>1. <<"text", tid>> \notin NamesIn(x)
    <3>1. <<"text", tid>> \notin NamesIn(v)
      BY <1>4 DEF Numbered
    <3>2. <<"text", tid>> \notin RN
      BY DEF WordName
    <3> QED BY <1>6, <3>1, <3>2
  <2>2. View(x) /\ e.text \in Seq(Nat) /\ "text" \in {"text", "reasoning"}
    BY <1>6
  <2>3. WordCame(x, UIStreamPart!Shown(x, WordParts("text", tid, e.text)), "text", tid, e.text)
    BY <1>4, <2>1, <2>2, WordComes
  <2>4. WordCame(x, y, "text", tid, e.text)
    BY <1>3, <2>3
  <2> QED BY <1>3, <2>4 DEF WordCame
<1> HIDE DEF y, c
<1>8. \A id : <<"tool", id>> \notin RN /\ <<"tool", id>> \notin TN
  BY DEF WordName
<1>9. /\ View(z) /\ OpenIn(z) = OpenIn(y)
      /\ NamesIn(z) = NamesIn(y) \cup {<<"tool", id>> : id \in IdsOf(e.toolCalls)}
      /\ SaysAll(z) = SaysAll(y) \o CallsSay(e.toolCalls)
      /\ ResultsIn(z) = ResultsIn(y) \cup {<<id, <<>>>> : id \in IdsOf(e.toolCalls)}
      /\ CallsSay(e.toolCalls) \in Seq(SayItems) /\ d \in Seq(Parts)
      /\ IdsOf(e.toolCalls) \subseteq fresh
  <2>1. \A id \in fresh : /\ id \notin voiced.startedToolCalls /\ id \notin voiced.emittedToolCalls
                        /\ <<"tool", id>> \notin NamesIn(y)
    BY <1>3, <1>6, <1>7, <1>8
  <2>2. z = UIStreamPart!Shown(y, UIStreamPart!AssistantToolCallParts(voiced, e))
    OBVIOUS
  <2> HIDE DEF z, d
  <2>3. voiced \in States /\ View(y)
    BY <1>3, <1>7
  <2>4. /\ View(z) /\ OpenIn(z) = OpenIn(y)
        /\ NamesIn(z) = NamesIn(y) \cup {<<"tool", id>> : id \in IdsOf(e.toolCalls)}
        /\ SaysAll(z) = SaysAll(y) \o CallsSay(e.toolCalls)
        /\ ResultsIn(z) = ResultsIn(y) \cup {<<id, <<>>>> : id \in IdsOf(e.toolCalls)}
        /\ CallsSay(e.toolCalls) \in Seq(SayItems)
        /\ UIStreamPart!AssistantToolCallParts(voiced, e) \in Seq(Parts)
        /\ IdsOf(e.toolCalls) \subseteq fresh
    BY <2>1, <2>2, <2>3, ShownCalls
  <2> QED BY <2>4 DEF d
<1> HIDE DEF z, d
<1>10. UIStreamPart!Keys(e) = IdsOf(e.toolCalls)
  BY NoKeysAreNone
<1>11. /\ called \in States /\ called.nextID = voiced.nextID
       /\ called.reasoningStarted = voiced.reasoningStarted
       /\ called.reasoningID = voiced.reasoningID
       /\ called.textStarted = voiced.textStarted /\ called.textID = voiced.textID
       /\ called.startedToolCalls = s.startedToolCalls \cup IdsOf(e.toolCalls)
       /\ called.emittedToolCalls = s.emittedToolCalls \cup IdsOf(e.toolCalls)
  <2>1. IdsOf(e.toolCalls) \in SUBSET CallIds
    BY <1>9
  <2> HIDE DEF IdsOf
  <2> QED BY <1>3, <1>10, <2>1 DEF States
<1> HIDE DEF called
<1> DEFINE u == UIStreamPart!Shown(z, f)
<1>12. /\ View(u) /\ NamesIn(u) = NamesIn(z) /\ SaysAll(u) = SaysAll(z)
       /\ ResultsIn(u) = ResultsIn(z) /\ OpenIn(u) = (OpenIn(z) \ RN) \ TN
       /\ f \in Seq(Parts)
  <2>1. /\ e.thinking # <<>> => called.reasoningID = rid /\ <<"reasoning", rid>> \in OpenIn(z)
        /\ e.text # <<>> => called.textID = tid /\ <<"text", tid>> \in OpenIn(z)
    BY <1>3, <1>6, <1>7, <1>9, <1>11 DEF WordName
  <2>2. called.reasoningStarted = (e.thinking # <<>>) /\ called.textStarted = (e.text # <<>>)
    BY <1>3, <1>11
  <2> HIDE DEF rid, tid
  <2>3. View(z) /\ called \in States
    BY <1>9, <1>11
  <2>4. EndCame(z, called, e, u, rid, tid)
    BY <1>4, <2>1, <2>2, <2>3, ShownEndParts
  <2> QED BY <2>4 DEF EndCame, f, RN, TN
<1> HIDE DEF u, f, rid, tid, RN, TN, a
<1>13. w = u
  <2> DEFINE ab == a \o b
             abc == ab \o c
             abcd == abc \o d
  <2>1. ab \in Seq(Parts) /\ UIStreamPart!Shown(v, ab) = x
    BY <1>5, <1>6, ShownConcat DEF x
  <2> HIDE DEF ab
  <2>2. abc \in Seq(Parts) /\ UIStreamPart!Shown(v, abc) = y
    BY <1>7, <2>1, ShownConcat DEF y
  <2> HIDE DEF abc
  <2>3. abcd \in Seq(Parts) /\ UIStreamPart!Shown(v, abcd) = z
    BY <1>9, <2>2, ShownConcat DEF z
  <2> HIDE DEF abcd
  <2>4. UIStreamPart!Shown(v, abcd \o f) = u
    BY <1>12, <2>3, ShownConcat DEF u
  <2>5. UIStreamPart!AssistantEntryToParts(e, s).parts = abcd \o f
    BY DEF UIStreamPart!AssistantEntryToParts, started, thought, voiced, called, a, b, c, d, f, ab,
       abc, abcd
  <2> QED BY <2>4, <2>5
<1>14. SaysAll(w) = SaysAll(v) \o UIStreamPart!Says(e) /\ UIStreamPart!Says(e) \in Seq(SayItems)
  <2> DEFINE p == WordSays("reasoning", e.thinking)
             q == WordSays("text", e.text)
             r == CallsSay(e.toolCalls)
             o == SaysAll(v)
  <2>1. /\ o \in Seq(SayItems) /\ p \in Seq(SayItems) /\ q \in Seq(SayItems)
        /\ r \in Seq(SayItems)
    BY <1>6, <1>7, <1>9, SaysType
  <2>2. SaysAll(w) = ((o \o p) \o q) \o r
    BY <1>6, <1>7, <1>9, <1>12, <1>13
  <2>3. UIStreamPart!Says(e) = (p \o q) \o r
    BY SaysIsWords
  <2> HIDE DEF o, p, q, r
  <2>4. ((o \o p) \o q) \o r = o \o ((p \o q) \o r) /\ (p \o q) \o r \in Seq(SayItems)
    BY <2>1
  <2> QED BY <2>2, <2>3, <2>4 DEF o
<1>15. t = UIStreamPart!EndStep(called)
  BY DEF UIStreamPart!AssistantEntryToParts, started, thought, voiced, called
<1>16. /\ t \in States /\ ~t.stepStarted /\ ~t.textStarted /\ ~t.reasoningStarted
       /\ t.nextID = voiced.nextID
       /\ t.startedToolCalls = called.startedToolCalls
       /\ t.emittedToolCalls = called.emittedToolCalls
  BY <1>11, <1>15 DEF UIStreamPart!EndStep, States
<1>17. Numbered(w, t.nextID)
  <2> SUFFICES ASSUME NEW kind \in {"text", "reasoning"}, NEW k \in Nat,
                      <<kind, <<kind, k>>>> \in NamesIn(w)
               PROVE  k < t.nextID
    BY DEF Numbered
  <2>1. <<kind, <<kind, k>>>> \in NamesIn(v) \/ <<kind, <<kind, k>>>> \in RN
        \/ <<kind, <<kind, k>>>> \in TN
    BY <1>6, <1>7, <1>9, <1>12, <1>13
  <2>2. t.nextID \in Nat /\ m <= t.nextID /\ (e.thinking # <<>> => n < m)
        /\ (e.text # <<>> => m < t.nextID)
    BY <1>2, <1>3, <1>4, <1>16
  <2>3. CASE <<kind, <<kind, k>>>> \in NamesIn(v)
    BY <1>4, <2>2, <2>3 DEF Numbered
  <2>4. CASE <<kind, <<kind, k>>>> \in RN
    <3>1. e.thinking # <<>> /\ k = n
      BY <2>4 DEF RN, WordName, rid
    <3> QED BY <1>4, <2>2, <3>1
  <2>5. CASE <<kind, <<kind, k>>>> \in TN
    <3>1. e.text # <<>> /\ k = m
      BY <2>5 DEF TN, WordName, tid
    <3> QED BY <2>2, <3>1
  <2> QED BY <2>1, <2>3, <2>4, <2>5
<1>18. \A id : <<"tool", id>> \in NamesIn(w) =>
         <<"tool", id>> \in NamesIn(v) \/ id \in IdsOf(e.toolCalls)
  BY <1>6, <1>7, <1>8, <1>9, <1>12, <1>13
<1>19. OpenIn(w) = {}
  BY <1>6, <1>7, <1>9, <1>12, <1>13
<1>20. ResultsIn(w) = ResultsIn(v) \cup {<<id, <<>>>> : id \in IdsOf(e.toolCalls)}
  BY <1>6, <1>7, <1>9, <1>12, <1>13
<1> QED BY <1>9, <1>11, <1>12, <1>13, <1>14, <1>16, <1>17, <1>18, <1>19, <1>20 DEF EntryCame

-----------------------------------------------------------------------------
\* The entries that are converted.
CallLists(fresh) ==
  {<<>>} \cup {<<CallOf(i)>> : i \in fresh}
      \cup {<<CallOf(i), CallOf(j)>> : i \in fresh, j \in fresh}
SomeIds == CallIds \cup {None}
Heard ==
  [role: {"assistant"}, text: Seq(Nat), thinking: Seq(Nat), toolCalls: CallLists(SomeIds),
   stopReason: {"stop", "toolUse"}]
CallResult(id, failed) == [call |-> id, content |-> <<"result", id>>, isError |-> failed]
Answers ==
  [role: {"tool_result"}, toolResults: {<<CallResult(id, x)>> : id \in SomeIds, x \in BOOLEAN}]
AllEntries == Heard \cup Answers \cup {UIStreamPart!Failed}

\* What an entry calls, answers and outputs.
AnsweredBy(e) ==
  IF e.role = "tool_result" THEN {e.toolResults[j].call : j \in DOMAIN e.toolResults} ELSE {}
OutputsOf(e) ==
  IF e.role = "tool_result" THEN {<<e.toolResults[1].call, e.toolResults[1].content>>} ELSE {}

LEMMA EntryAppended ==
  ASSUME NEW S, converted \in Seq(S), NEW e \in S, converted' = Append(converted, e)
  PROVE  /\ UIStreamPart!Called' = UIStreamPart!Called \cup UIStreamPart!CallsOf(e)
         /\ UIStreamPart!Answered' = UIStreamPart!Answered \cup AnsweredBy(e)
         /\ UIStreamPart!Outputs' = UIStreamPart!Outputs \cup OutputsOf(e)
         /\ Len(converted') = Len(converted) + 1 /\ converted' \in Seq(S)
<1> DEFINE n == Len(converted) + 1
           D == DOMAIN converted
<1>1. /\ n \in Nat /\ n \notin D /\ DOMAIN converted' = D \cup {n}
      /\ converted'[n] = e /\ \A i \in D : converted'[i] = converted[i]
      /\ Len(converted') = n /\ converted' \in Seq(S)
  OBVIOUS
<1> HIDE DEF n, D
<1>2. UIStreamPart!Called' = UIStreamPart!Called \cup UIStreamPart!CallsOf(e)
  <2>1. UIStreamPart!Called' = UNION {UIStreamPart!CallsOf(converted'[i]) : i \in D \cup {n}}
    BY <1>1 DEF UIStreamPart!Called, UIStreamPart!CallsOf
  <2>2. UIStreamPart!Called = UNION {UIStreamPart!CallsOf(converted[i]) : i \in D}
    BY DEF UIStreamPart!Called, D
  <2> HIDE DEF UIStreamPart!Called
  <2> QED BY <1>1, <2>1, <2>2
<1>3. UIStreamPart!Answered' = UIStreamPart!Answered \cup AnsweredBy(e)
  <2>1. UIStreamPart!Answered' = UNION {AnsweredBy(converted'[i]) : i \in D \cup {n}}
    BY <1>1 DEF UIStreamPart!Answered, AnsweredBy
  <2>2. UIStreamPart!Answered = UNION {AnsweredBy(converted[i]) : i \in D}
    BY DEF UIStreamPart!Answered, AnsweredBy, D
  <2> HIDE DEF UIStreamPart!Answered
  <2> QED BY <1>1, <2>1, <2>2
<1>4. UIStreamPart!Outputs' = UIStreamPart!Outputs \cup OutputsOf(e)
  <2> DEFINE O(f) == <<f.toolResults[1].call, f.toolResults[1].content>>
  <2>1. UIStreamPart!Outputs' =
            {O(converted'[i]) : i \in {j \in D \cup {n} : converted'[j].role = "tool_result"}}
    BY <1>1 DEF UIStreamPart!Outputs
  <2>2. UIStreamPart!Outputs =
            {O(converted[i]) : i \in {j \in D : converted[j].role = "tool_result"}}
    BY DEF UIStreamPart!Outputs, D
  <2>3. OutputsOf(e) = IF e.role = "tool_result" THEN {O(e)} ELSE {}
    BY DEF OutputsOf
  <2> HIDE DEF UIStreamPart!Outputs, O
  <2>4. \A q : q \in UIStreamPart!Outputs' <=> q \in UIStreamPart!Outputs \/ q \in OutputsOf(e)
    BY <1>1, <2>1, <2>2, <2>3
  <2> QED BY <2>4
<1> QED BY <1>1, <1>2, <1>3, <1>4 DEF n

LEMMA SaysAppended ==
  ASSUME NEW S, converted \in Seq(S), NEW e \in S, converted' = Append(converted, e),
         \A f \in S : UIStreamPart!Says(f) \in Seq(SayItems)
  PROVE  Joined([i \in DOMAIN converted' |-> UIStreamPart!Says(converted'[i])]) =
           Joined([i \in DOMAIN converted |-> UIStreamPart!Says(converted[i])])
               \o UIStreamPart!Says(e)
<1> DEFINE s == [i \in DOMAIN converted |-> UIStreamPart!Says(converted[i])]
           t == [i \in DOMAIN converted' |-> UIStreamPart!Says(converted'[i])]
<1>1. s \in Seq(Seq(SayItems)) /\ UIStreamPart!Says(e) \in Seq(SayItems)
  <2>1. Len(converted) \in Nat /\ DOMAIN converted = 1..Len(converted)
        /\ \A i \in DOMAIN converted : UIStreamPart!Says(converted[i]) \in Seq(SayItems)
    OBVIOUS
  <2> QED BY <2>1
<1>2. t = Append(s, UIStreamPart!Says(e))
  <2> DEFINE T == Seq(SayItems)
  <2>1. converted' \in Seq(S) /\ Len(converted') = Len(converted) + 1
        /\ converted'[Len(converted) + 1] = e
               /\ \A i \in DOMAIN converted : converted'[i] = converted[i]
    OBVIOUS
  <2>2. t \in Seq(T) /\ Append(s, UIStreamPart!Says(e)) \in Seq(T) /\ Len(s) = Len(converted)
        /\ Len(t) = Len(converted')
    BY <1>1, <2>1
  <2>3. \A i \in 1..Len(t) : t[i] = Append(s, UIStreamPart!Says(e))[i]
    BY <1>1, <2>1, <2>2
  <2>4. Len(Append(s, UIStreamPart!Says(e))) = Len(t)
    BY <1>1, <2>1, <2>2
  <2> HIDE DEF s, t, T
  <2> QED BY <2>2, <2>3, <2>4, SameSeq
<1> HIDE DEF s, t
<1>3. Joined(Append(s, UIStreamPart!Says(e))) = Joined(s) \o UIStreamPart!Says(e)
  BY <1>1, JoinedAppend
<1> QED BY <1>2, <1>3 DEF s, t

\* What the runner yields.
LEMMA NewCallsMean ==
  ASSUME NEW c \in UIStreamPart!NewCalls
  PROVE  /\ c \in CallLists(SomeIds)
         /\ None \notin IdsOf(c) => CallsWith((CallIds \ UIStreamPart!Called) \ {None}, c)
<1> DEFINE fresh == CallIds \ UIStreamPart!Called
<1>1. /\ UIStreamPart!NewCalls = {<<>>} \cup {<<CallOf(i)>> : i \in fresh \cup {None}}
           \cup ({<<CallOf(i), CallOf(j)>> : i \in fresh, j \in fresh \cup {None}}
                   \ {<<CallOf(i), CallOf(i)>> : i \in fresh})
      /\ fresh \subseteq CallIds
  BY DEF UIStreamPart!NewCalls, CallOf
<1> HIDE DEF fresh
<1>2. CASE c = <<>>
  BY <1>2 DEF CallLists, CallsWith
<1>3. CASE \E i \in fresh \cup {None} : c = <<CallOf(i)>>
  <2> PICK i \in fresh \cup {None} : c = <<CallOf(i)>>
    BY <1>3
  <2>1. c \in CallLists(SomeIds)
    BY <1>1 DEF CallLists, SomeIds
  <2>2. c[1].id = i /\ 1 \in DOMAIN c
    BY DEF CallOf
  <2>3. None \notin IdsOf(c) => i \in fresh \ {None}
    BY <2>2 DEF IdsOf
  <2> QED BY <2>1, <2>3 DEF CallsWith, fresh
<1>4. CASE \E i \in fresh, j \in fresh \cup {None} :
             i # j /\ c = <<CallOf(i), CallOf(j)>>
  <2> PICK i \in fresh, j \in fresh \cup {None} : i # j /\ c = <<CallOf(i), CallOf(j)>>
    BY <1>4
  <2>1. c \in CallLists(SomeIds)
    BY <1>1 DEF CallLists, SomeIds
  <2>2. c[1].id = i /\ c[2].id = j /\ 1 \in DOMAIN c /\ 2 \in DOMAIN c
    BY DEF CallOf
  <2>3. None \notin IdsOf(c) => i \in fresh \ {None} /\ j \in fresh \ {None}
    BY <2>2 DEF IdsOf
  <2> QED BY <2>1, <2>3 DEF CallsWith, fresh
<1>5. c = <<>> \/ (\E i \in fresh \cup {None} : c = <<CallOf(i)>>)
      \/ \E i \in fresh, j \in fresh \cup {None} : i # j /\ c = <<CallOf(i), CallOf(j)>>
  <2> SUFFICES ASSUME NEW i \in fresh, NEW j \in fresh \cup {None}, c = <<CallOf(i), CallOf(j)>>,
                      c \notin {<<CallOf(k), CallOf(k)>> : k \in fresh}
               PROVE  i # j
    BY <1>1
  <2> QED OBVIOUS
<1> QED BY <1>2, <1>3, <1>4, <1>5

LEMMA EntriesMean ==
  ASSUME UIStreamPart!Called \subseteq SomeIds, UIStreamPart!UIStreamAssumption,
         NEW e \in UIStreamPart!Entries
  PROVE  /\ e \in AllEntries
         /\ \/ e \in Heard /\ e.role = "assistant" /\ e.toolCalls \in UIStreamPart!NewCalls
            \/ \E id \in UIStreamPart!Called \ UIStreamPart!Answered, x \in BOOLEAN :
                 e = UIStreamPart!Returned(<<CallResult(id, x)>>)
            \/ e = UIStreamPart!Failed
<1>1. CASE \E s \in Sayings, c \in UIStreamPart!NewCalls :
             e = UIStreamPart!Said(s[1], s[2], c, IF c = <<>> THEN "stop" ELSE "toolUse")
  <2> PICK s \in Sayings, c \in UIStreamPart!NewCalls :
             e = UIStreamPart!Said(s[1], s[2], c, IF c = <<>> THEN "stop" ELSE "toolUse")
    BY <1>1
  <2>1. s[1] \in Seq(Nat) /\ s[2] \in Seq(Nat)
    BY DEF UIStreamPart!UIStreamAssumption
  <2>2. c \in CallLists(SomeIds)
    BY NewCallsMean
  <2>3. e = [role |-> "assistant", text |-> s[1], thinking |-> s[2], toolCalls |-> c,
             stopReason |-> IF c = <<>> THEN "stop" ELSE "toolUse"]
    BY DEF UIStreamPart!Said
  <2>4. e \in Heard /\ e.role = "assistant" /\ e.toolCalls = c
    BY <2>1, <2>2, <2>3 DEF Heard
  <2> QED BY <2>4 DEF AllEntries
<1>2. CASE \E id \in UIStreamPart!Called \ UIStreamPart!Answered,
          x \in BOOLEAN : e = UIStreamPart!Returned(<<CallResult(id, x)>>)
  BY <1>2 DEF AllEntries, Answers, UIStreamPart!Returned
<1>3. CASE e = UIStreamPart!Failed
  BY <1>3 DEF AllEntries
<1>4. \/ \E s \in Sayings, c \in UIStreamPart!NewCalls :
           e = UIStreamPart!Said(s[1], s[2], c, IF c = <<>> THEN "stop" ELSE "toolUse")
      \/ \E id \in UIStreamPart!Called \ UIStreamPart!Answered,
             x \in BOOLEAN : e = UIStreamPart!Returned(<<CallResult(id, x)>>)
      \/ e = UIStreamPart!Failed
  BY DEF UIStreamPart!Entries, CallResult
<1> QED BY <1>1, <1>2, <1>3, <1>4

LEMMA CallsOfType == \A e \in AllEntries : UIStreamPart!CallsOf(e) \subseteq SomeIds
<1> TAKE e \in AllEntries
<1>1. CASE e.role = "assistant"
  <2>1. e.toolCalls \in CallLists(SomeIds)
    BY <1>1 DEF AllEntries, Heard, Answers, UIStreamPart!Failed
  <2> DEFINE c == e.toolCalls
  <2>2. \A i \in DOMAIN c : c[i].id \in SomeIds
    <3> HIDE DEF c
    <3>1. c \in CallLists(SomeIds)
      BY <2>1 DEF c
    <3> QED BY <3>1 DEF CallLists, CallOf
  <2> QED BY <1>1, <2>2 DEF UIStreamPart!CallsOf
<1>2. CASE e.role # "assistant"
  BY <1>2 DEF UIStreamPart!CallsOf
<1> QED BY <1>1, <1>2

-----------------------------------------------------------------------------
\* What keeps the client's message what the entries say.
EntriesType == converted \in Seq(AllEntries) /\ UIStreamPart!Called \subseteq SomeIds

GivenIn(v) == {<<r[1], r[2][2]>> : r \in {q \in ResultsIn(v) : q[2] # <<>>}}

ClientInv(s, v) ==
  /\ \A i \in DOMAIN converted : UIStreamPart!Says(converted[i]) \in Seq(SayItems)
  /\ s \in States /\ ~s.stepStarted /\ ~s.textStarted /\ ~s.reasoningStarted
  /\ s.startedToolCalls = UIStreamPart!Called /\ s.emittedToolCalls = UIStreamPart!Called
  /\ View(v) /\ OpenIn(v) = {} /\ Numbered(v, s.nextID)
  /\ \A id : <<"tool", id>> \in NamesIn(v) => id \in UIStreamPart!Called
  /\ SaysAll(v) = Joined([i \in DOMAIN converted |-> UIStreamPart!Says(converted[i])])
  /\ \A id \in UIStreamPart!Called \ UIStreamPart!Answered : <<id, <<>>>> \in ResultsIn(v)
  /\ GivenIn(v) = UIStreamPart!Outputs

ShownInv == None \notin UIStreamPart!Called => ClientInv(streamState, clientView)

LEMMA ShownInit ==
  ASSUME UIStreamPart!Init
  PROVE  EntriesType /\ ShownInv
<1>1. converted = <<>> /\ clientView = <<>> /\ streamState = UIStreamPart!NewStreamState
  BY DEF UIStreamPart!Init
<1>2. UIStreamPart!Called = {} /\ UIStreamPart!Answered = {} /\ UIStreamPart!Outputs = {}
  BY <1>1 DEF UIStreamPart!Called, UIStreamPart!Answered, UIStreamPart!Outputs
<1>3. EntriesType
  BY <1>1, <1>2 DEF EntriesType
<1>4. /\ streamState \in States /\ ~streamState.stepStarted /\ ~streamState.textStarted
      /\ ~streamState.reasoningStarted /\ streamState.startedToolCalls = {}
             /\ streamState.emittedToolCalls = {}
  BY <1>1 DEF UIStreamPart!NewStreamState, States, Ids
<1>5. View(clientView) /\ OpenIn(clientView) = {} /\ NamesIn(clientView) = {}
          /\ ResultsIn(clientView) = {}
      /\ SaysAll(clientView) = <<>>
  BY <1>1 DEF View, OpenIn, NamesIn, ResultsIn, SaysAll
<1>6. [i \in DOMAIN converted |-> UIStreamPart!Says(converted[i])] = <<>> /\ DOMAIN converted = {}
  BY <1>1
<1>7. SaysAll(clientView) = Joined([i \in DOMAIN converted |-> UIStreamPart!Says(converted[i])])
  BY <1>5, <1>6, JoinedEmpty
<1>8. GivenIn(clientView) = {} /\ Numbered(clientView, streamState.nextID)
  BY <1>5 DEF GivenIn, Numbered
<1>9. ClientInv(streamState, clientView)
  BY <1>2, <1>4, <1>5, <1>6, <1>7, <1>8 DEF ClientInv
<1> QED BY <1>3, <1>9 DEF ShownInv

\* An entry of the assistant.
LEMMA SaidShown ==
  ASSUME EntriesType, ClientInv(streamState, clientView), NEW e \in Heard, e.role = "assistant",
         e.toolCalls \in UIStreamPart!NewCalls, None \notin UIStreamPart!CallsOf(e),
         UIStreamPart!Convert(e),
         UIStreamPart!Called' = UIStreamPart!Called \cup UIStreamPart!CallsOf(e),
         UIStreamPart!Answered' = UIStreamPart!Answered \cup AnsweredBy(e),
         UIStreamPart!Outputs' = UIStreamPart!Outputs \cup OutputsOf(e)
  PROVE  ClientInv(streamState, clientView)'
<1> DEFINE c == e.toolCalls
           fresh == (CallIds \ UIStreamPart!Called) \ {None}
           t == UIStreamPart!AssistantEntryToParts(e, streamState).state
           w == UIStreamPart!Shown(clientView,
               UIStreamPart!AssistantEntryToParts(e, streamState).parts)
<1>1. /\ e.text \in Seq(Nat) /\ e.thinking \in Seq(Nat) /\ e.stopReason \in {"stop", "toolUse"}
      /\ UIStreamPart!CallsOf(e) = IdsOf(c)
  BY DEF Heard, UIStreamPart!CallsOf, IdsOf
<1>2. CallsWith(fresh, c)
  BY <1>1, NewCallsMean
<1>3. /\ UIStreamPart!Called' = UIStreamPart!Called \cup IdsOf(c)
          /\ UIStreamPart!Answered' = UIStreamPart!Answered
                 /\ UIStreamPart!Outputs' = UIStreamPart!Outputs
  BY <1>1 DEF AnsweredBy, OutputsOf
<1>4. converted' = Append(converted, e) /\ streamState' = t /\ clientView' = w
  BY DEF UIStreamPart!Convert, UIStreamPart!EntryToParts
<1> DEFINE s == streamState
           v == clientView
<1>5. /\ View(v) /\ OpenIn(v) = {} /\ s \in States /\ ~s.stepStarted /\ Numbered(v, s.nextID)
      /\ s.startedToolCalls = UIStreamPart!Called /\ s.emittedToolCalls = UIStreamPart!Called
      /\ fresh \in SUBSET CallIds /\ None \notin fresh
      /\ \A id \in fresh : /\ id \notin s.startedToolCalls /\ id \notin s.emittedToolCalls
                         /\ <<"tool", id>> \notin NamesIn(v)
  BY DEF ClientInv
<1> HIDE DEF t, w
<1>6. /\ View(w) /\ OpenIn(w) = {}
      /\ SaysAll(w) = SaysAll(v) \o UIStreamPart!Says(e) /\ UIStreamPart!Says(e) \in Seq(SayItems)
      /\ ResultsIn(w) = ResultsIn(v) \cup {<<id, <<>>>> : id \in IdsOf(c)}
      /\ Numbered(w, t.nextID)
      /\ \A id : <<"tool", id>> \in NamesIn(w) => <<"tool", id>> \in NamesIn(v) \/ id \in IdsOf(c)
      /\ t \in States /\ ~t.stepStarted /\ ~t.textStarted /\ ~t.reasoningStarted
      /\ t.startedToolCalls = s.startedToolCalls \cup IdsOf(c)
      /\ t.emittedToolCalls = s.emittedToolCalls \cup IdsOf(c)
  <2>1. EntryCame(v, s, e, w, t)
    <3> HIDE DEF fresh
    <3> QED BY <1>1, <1>2, <1>5, ShownEntry DEF t, w
  <2> QED BY <2>1 DEF EntryCame
<1>7. \A i \in DOMAIN converted' : UIStreamPart!Says(converted'[i]) \in Seq(SayItems)
  <2>1. \A i \in DOMAIN converted' :
            (i \in DOMAIN converted /\ converted'[i] = converted[i]) \/ converted'[i] = e
    BY <1>4 DEF EntriesType
  <2> QED BY <1>6, <2>1 DEF ClientInv
<1>8. SaysAll(w) = Joined([i \in DOMAIN converted' |-> UIStreamPart!Says(converted'[i])])
  <2> DEFINE S == {f \in AllEntries : UIStreamPart!Says(f) \in Seq(SayItems)}
  <2>1. converted \in Seq(S)
    BY DEF EntriesType, ClientInv
  <2>2. e \in S
    BY <1>6 DEF AllEntries
  <2>3. \A f \in S : UIStreamPart!Says(f) \in Seq(SayItems)
    OBVIOUS
  <2> HIDE DEF S
  <2>4. Joined([i \in DOMAIN converted' |-> UIStreamPart!Says(converted'[i])]) =
          Joined([i \in DOMAIN converted |-> UIStreamPart!Says(converted[i])])
              \o UIStreamPart!Says(e)
    BY <1>4, <2>1, <2>2, <2>3, SaysAppended
  <2>5. SaysAll(v) = Joined([i \in DOMAIN converted |-> UIStreamPart!Says(converted[i])])
    BY DEF ClientInv
  <2> QED BY <1>6, <2>4, <2>5
<1>9. GivenIn(w) = UIStreamPart!Outputs'
  <2>1. GivenIn(w) = GivenIn(v)
    BY <1>6 DEF GivenIn
  <2> QED BY <1>3, <2>1 DEF ClientInv
<1>10. \A id \in UIStreamPart!Called' \ UIStreamPart!Answered' : <<id, <<>>>> \in ResultsIn(w)
  BY <1>3, <1>6 DEF ClientInv
<1>11. /\ t.startedToolCalls = UIStreamPart!Called' /\ t.emittedToolCalls = UIStreamPart!Called'
       /\ \A id : <<"tool", id>> \in NamesIn(w) => id \in UIStreamPart!Called'
  BY <1>3, <1>5, <1>6 DEF ClientInv
<1> QED BY <1>4, <1>6, <1>7, <1>8, <1>9, <1>10, <1>11 DEF ClientInv

\* The result of a call.
LEMMA AnswerShown ==
  ASSUME EntriesType, ClientInv(streamState, clientView),
         NEW id \in UIStreamPart!Called \ UIStreamPart!Answered, id # None,
         NEW x \in BOOLEAN, NEW e, e = UIStreamPart!Returned(<<CallResult(id, x)>>),
         e \in AllEntries,
         UIStreamPart!Convert(e),
         UIStreamPart!Called' = UIStreamPart!Called \cup UIStreamPart!CallsOf(e),
         UIStreamPart!Answered' = UIStreamPart!Answered \cup AnsweredBy(e),
         UIStreamPart!Outputs' = UIStreamPart!Outputs \cup OutputsOf(e)
  PROVE  ClientInv(streamState, clientView)'
<1> DEFINE v == clientView
           s == streamState
           type == IF x THEN "tool-output-error" ELSE "tool-output-available"
           out == <<"result", id>>
           w == UIStreamPart!Show(UIStreamPart!ToolPart(type, id, out), v)
<1>1. /\ e.role = "tool_result" /\ e.toolResults = <<CallResult(id, x)>>
      /\ CallResult(id, x).call = id /\ CallResult(id, x).content = out
      /\ CallResult(id, x).isError = x
  BY DEF UIStreamPart!Returned, CallResult
<1>2. /\ UIStreamPart!Called' = UIStreamPart!Called
          /\ UIStreamPart!Answered' = UIStreamPart!Answered \cup {id}
      /\ UIStreamPart!Outputs' = UIStreamPart!Outputs \cup {<<id, out>>}
             /\ UIStreamPart!Says(e) = <<>>
  BY <1>1 DEF UIStreamPart!CallsOf, AnsweredBy, OutputsOf, UIStreamPart!Says
<1>3. converted' = Append(converted, e) /\ streamState' = s /\ clientView' = w
  <2>1. UIStreamPart!EntryToParts(e, s) = [parts |-> UIStreamPart!ToolParts(e), state |-> s]
    BY <1>1 DEF UIStreamPart!EntryToParts
  <2>2. UIStreamPart!ToolParts(e) = <<UIStreamPart!ToolPart(type, id, out)>>
    BY <1>1 DEF UIStreamPart!ToolParts
  <2> HIDE DEF type, out
  <2> QED BY <2>1, <2>2, ShownOne DEF UIStreamPart!Convert
<1>4. View(v) /\ <<id, <<>>>> \in ResultsIn(v) /\ id \in CallIds
  BY DEF ClientInv, EntriesType, SomeIds
<1>5. type \in {"tool-output-error", "tool-output-available"}
  OBVIOUS
<1> HIDE DEF type, w
<1>6. /\ View(w) /\ NamesIn(w) = NamesIn(v) /\ SaysAll(w) = SaysAll(v)
      /\ OpenIn(w) = OpenIn(v)
      /\ ResultsIn(w) = (ResultsIn(v) \ {<<id, <<>>>>}) \cup {<<id, <<type, out>>>>}
  BY <1>4, <1>5, ResultComes DEF w
<1>7. \A i \in DOMAIN converted' : UIStreamPart!Says(converted'[i]) \in Seq(SayItems)
  <2>1. \A i \in DOMAIN converted' :
            (i \in DOMAIN converted /\ converted'[i] = converted[i]) \/ converted'[i] = e
    BY <1>3 DEF EntriesType
  <2>2. UIStreamPart!Says(e) \in Seq(SayItems)
    BY <1>2
  <2> QED BY <2>1, <2>2 DEF ClientInv
<1>8. SaysAll(w) = Joined([i \in DOMAIN converted' |-> UIStreamPart!Says(converted'[i])])
  <2> DEFINE S == {f \in AllEntries : UIStreamPart!Says(f) \in Seq(SayItems)}
  <2>1. converted \in Seq(S)
    BY DEF EntriesType, ClientInv
  <2>2. e \in S
    BY <1>2
  <2>3. \A f \in S : UIStreamPart!Says(f) \in Seq(SayItems)
    OBVIOUS
  <2> HIDE DEF S
  <2>4. Joined([i \in DOMAIN converted' |-> UIStreamPart!Says(converted'[i])]) =
          Joined([i \in DOMAIN converted |-> UIStreamPart!Says(converted[i])]) \o <<>>
    BY <1>2, <1>3, <2>1, <2>2, <2>3, SaysAppended
  <2>5. SaysAll(v) = Joined([i \in DOMAIN converted |-> UIStreamPart!Says(converted[i])])
        /\ SaysAll(v) \in Seq(SayItems)
    BY SaysType DEF ClientInv
  <2> QED BY <1>6, <2>4, <2>5
<1>9. GivenIn(w) = UIStreamPart!Outputs'
  <2>1. GivenIn(w) = GivenIn(v) \cup {<<id, out>>}
    <3>1. \A r \in ResultsIn(w) : r[2] # <<>> =>
             (r \in ResultsIn(v) /\ r[2] # <<>>) \/ r = <<id, <<type, out>>>>
      BY <1>6
    <3>2. \A r \in ResultsIn(v) : r[2] # <<>> => r \in ResultsIn(w)
      BY <1>6
    <3>3. <<id, <<type, out>>>> \in ResultsIn(w) /\ <<type, out>> # <<>>
      BY <1>6
    <3> QED BY <3>1, <3>2, <3>3 DEF GivenIn
  <2> QED BY <1>2, <2>1 DEF ClientInv
<1>10. \A i \in UIStreamPart!Called' \ UIStreamPart!Answered' : <<i, <<>>>> \in ResultsIn(w)
  BY <1>2, <1>6 DEF ClientInv
<1> QED BY <1>2, <1>3, <1>6, <1>7, <1>8, <1>9, <1>10 DEF ClientInv, Numbered

\* An error without a message.
LEMMA FailedShown ==
  ASSUME EntriesType, ClientInv(streamState, clientView), UIStreamPart!Convert(UIStreamPart!Failed),
         UIStreamPart!Called' = UIStreamPart!Called \cup UIStreamPart!CallsOf(UIStreamPart!Failed),
         UIStreamPart!Answered' = UIStreamPart!Answered \cup AnsweredBy(UIStreamPart!Failed),
         UIStreamPart!Outputs' = UIStreamPart!Outputs \cup OutputsOf(UIStreamPart!Failed)
  PROVE  ClientInv(streamState, clientView)'
<1> DEFINE e == UIStreamPart!Failed
<1>1. e.role = "none" /\ UIStreamPart!Says(e) = <<>> /\ UIStreamPart!Called' = UIStreamPart!Called
          /\ UIStreamPart!Answered' = UIStreamPart!Answered
      /\ UIStreamPart!Outputs' = UIStreamPart!Outputs
  BY DEF UIStreamPart!Failed, UIStreamPart!Says, UIStreamPart!CallsOf, AnsweredBy, OutputsOf
<1>2. converted' = Append(converted, e) /\ streamState' = streamState /\ clientView' = clientView
  <2>1. UIStreamPart!EntryToParts(e, streamState) =
            [parts |-> <<UIStreamPart!Part("error")>>, state |-> streamState]
    BY <1>1 DEF UIStreamPart!EntryToParts
  <2>2. UIStreamPart!Show(UIStreamPart!Part("error"), clientView) = clientView
    BY DEF UIStreamPart!Show, UIStreamPart!Part
  <2> QED BY <2>1, <2>2, ShownOne DEF UIStreamPart!Convert
<1>3. \A i \in DOMAIN converted' : UIStreamPart!Says(converted'[i]) \in Seq(SayItems)
  <2>1. \A i \in DOMAIN converted' :
            (i \in DOMAIN converted /\ converted'[i] = converted[i]) \/ converted'[i] = e
    BY <1>2 DEF EntriesType
  <2>2. UIStreamPart!Says(e) \in Seq(SayItems)
    BY <1>1
  <2> QED BY <2>1, <2>2 DEF ClientInv
<1>4. SaysAll(clientView) = Joined([i \in DOMAIN converted' |-> UIStreamPart!Says(converted'[i])])
  <2> DEFINE S == {f \in AllEntries : UIStreamPart!Says(f) \in Seq(SayItems)}
  <2>1. converted \in Seq(S)
    BY DEF EntriesType, ClientInv
  <2>2. e \in S
    BY <1>1 DEF AllEntries
  <2>3. \A f \in S : UIStreamPart!Says(f) \in Seq(SayItems)
    OBVIOUS
  <2> HIDE DEF S, e
  <2>4. Joined([i \in DOMAIN converted' |-> UIStreamPart!Says(converted'[i])]) =
          Joined([i \in DOMAIN converted |-> UIStreamPart!Says(converted[i])]) \o <<>>
    BY <1>1, <1>2, <2>1, <2>2, <2>3, SaysAppended
  <2>5. SaysAll(clientView) = Joined([i \in DOMAIN converted |-> UIStreamPart!Says(converted[i])])
        /\ SaysAll(clientView) \in Seq(SayItems)
    BY SaysType DEF ClientInv
  <2> QED BY <2>4, <2>5
<1> QED BY <1>1, <1>2, <1>3, <1>4 DEF ClientInv

UIStreamInv == EntriesType /\ ShownInv

LEMMA UIStreamFirst ==
  ASSUME UIStreamPart!Init
  PROVE  UIStreamInv
BY ShownInit DEF UIStreamInv

LEMMA UIStreamStep ==
  ASSUME UIStreamPart!UIStreamAssumption, UIStreamInv, [UIStreamPart!Next]_(UIStreamPart!vars)
  PROVE  UIStreamInv'
<1>1. CASE UNCHANGED UIStreamPart!vars
  <2>1. converted' = converted /\ streamState' = streamState /\ clientView' = clientView
    BY <1>1 DEF UIStreamPart!vars
  <2>2. UIStreamPart!Called' = UIStreamPart!Called
            /\ UIStreamPart!Answered' = UIStreamPart!Answered
                   /\ UIStreamPart!Outputs' = UIStreamPart!Outputs
    BY <2>1 DEF UIStreamPart!Called, UIStreamPart!Answered, UIStreamPart!Outputs
  <2> QED BY <2>1, <2>2 DEF UIStreamInv, EntriesType, ShownInv, ClientInv
<1>2. CASE UIStreamPart!Next
  <2> PICK e \in UIStreamPart!Entries : UIStreamPart!Convert(e)
    BY <1>2 DEF UIStreamPart!Next
  <2>1. EntriesType /\ ShownInv
    BY DEF UIStreamInv
  <2>2. /\ e \in AllEntries
        /\ \/ e \in Heard /\ e.role = "assistant" /\ e.toolCalls \in UIStreamPart!NewCalls
           \/ \E id \in UIStreamPart!Called \ UIStreamPart!Answered,
                  x \in BOOLEAN : e = UIStreamPart!Returned(<<CallResult(id, x)>>)
           \/ e = UIStreamPart!Failed
    BY <2>1, EntriesMean DEF EntriesType
  <2>3. converted' = Append(converted, e) /\ converted \in Seq(AllEntries)
    BY <2>1 DEF UIStreamPart!Convert, EntriesType
  <2>4. /\ UIStreamPart!Called' = UIStreamPart!Called \cup UIStreamPart!CallsOf(e)
            /\ UIStreamPart!Answered' = UIStreamPart!Answered \cup AnsweredBy(e)
        /\ UIStreamPart!Outputs' = UIStreamPart!Outputs \cup OutputsOf(e)
               /\ converted' \in Seq(AllEntries)
    BY <2>2, <2>3, EntryAppended
  <2>5. EntriesType'
    BY <2>1, <2>2, <2>4, CallsOfType DEF EntriesType
  <2>6. ASSUME None \notin UIStreamPart!Called' PROVE ClientInv(streamState, clientView)'
    <3>1. None \notin UIStreamPart!Called /\ None \notin UIStreamPart!CallsOf(e)
              /\ ClientInv(streamState, clientView)
      BY <2>1, <2>4, <2>6 DEF ShownInv
    <3>2. CASE e \in Heard /\ e.role = "assistant" /\ e.toolCalls \in UIStreamPart!NewCalls
      BY <2>1, <2>4, <3>1, <3>2, SaidShown
    <3>3. CASE \E id \in UIStreamPart!Called \ UIStreamPart!Answered,
              x \in BOOLEAN : e = UIStreamPart!Returned(<<CallResult(id, x)>>)
      <4> PICK id \in UIStreamPart!Called \ UIStreamPart!Answered,
              x \in BOOLEAN : e = UIStreamPart!Returned(<<CallResult(id, x)>>)
        BY <3>3
      <4> QED BY <2>1, <2>2, <2>4, <3>1, AnswerShown
    <3>4. CASE e = UIStreamPart!Failed
      BY <2>1, <2>4, <3>1, <3>4, FailedShown
    <3> QED BY <2>2, <3>2, <3>3, <3>4
  <2> QED BY <2>5, <2>6 DEF UIStreamInv, ShownInv
<1> QED BY <1>1, <1>2

LEMMA UIStreamMeans ==
  ASSUME UIStreamInv
  PROVE  UIStreamPart!PartsSayTheEntries
<1> SUFFICES ASSUME None \notin UIStreamPart!Called
             PROVE  /\ \A i \in DOMAIN clientView : clientView[i].kind # "misfit"
                    /\ SaysAll(clientView) =
                          Joined([i \in DOMAIN converted |-> UIStreamPart!Says(converted[i])])
                    /\ \A i \in DOMAIN clientView : clientView[i].kind # "tool"
                           => ~clientView[i].open
                    /\ GivenIn(clientView) = UIStreamPart!Outputs
  <2>1. GivenIn(clientView) = {<<clientView[i].id, clientView[i].output[2]>> :
          i \in {j \in DOMAIN clientView : clientView[j].kind = "tool"
              /\ clientView[j].output # <<>>}}
    <3> DEFINE R == {<<clientView[i].id, clientView[i].output>> :
            i \in {j \in DOMAIN clientView : clientView[j].kind = "tool"}}
               G == {<<clientView[i].id, clientView[i].output[2]>> :
                       i \in {j \in DOMAIN clientView : clientView[j].kind = "tool"
                           /\ clientView[j].output # <<>>}}
    <3>1. GivenIn(clientView) = {<<r[1], r[2][2]>> : r \in {q \in R : q[2] # <<>>}}
      BY DEF GivenIn, ResultsIn
    <3>2. ASSUME NEW r \in R, r[2] # <<>> PROVE <<r[1], r[2][2]>> \in G
      BY <3>2
    <3>3. ASSUME NEW i \in DOMAIN clientView, clientView[i].kind = "tool",
              clientView[i].output # <<>>
          PROVE  <<clientView[i].id, clientView[i].output[2]>> \in GivenIn(clientView)
      <4> DEFINE r == <<clientView[i].id, clientView[i].output>>
      <4>1. r \in R /\ r[1] = clientView[i].id /\ r[2] = clientView[i].output
        BY <3>3
      <4> HIDE DEF r, R
      <4> QED BY <3>1, <3>3, <4>1
    <3> QED BY <3>1, <3>2, <3>3
  <2> QED BY <2>1, SameJoined DEF UIStreamPart!PartsSayTheEntries, SaysAll, SaysOf
<1>1. ClientInv(streamState, clientView)
  BY DEF UIStreamInv, ShownInv
<1>2. \A i \in DOMAIN clientView : clientView[i].kind # "misfit"
  BY <1>1 DEF ClientInv, View, Items, Blocks, Tools
<1>3. \A i \in DOMAIN clientView : clientView[i].kind # "tool" => ~clientView[i].open
  BY <1>1 DEF ClientInv, OpenIn, IsOpen
<1> QED BY <1>1, <1>2, <1>3 DEF ClientInv

-----------------------------------------------------------------------------
(* Sessions: deleted sessions. *)

\* Every action that stores something looks for a session of the name first; only
\* the agent states of the in-memory store are saved blindly.
GoneInv ==
  /\ ~exists => log = <<>> /\ checkpoint = SessionsPart!NoCheckpoint
  /\ store = "database" => state \in {0, IF exists THEN born ELSE 0}

LEMMA NothingFirst == SessionsPart!Init => GoneInv
BY DEF SessionsPart!Init, GoneInv

LEMMA NothingStep == GoneInv /\ [SessionsPart!Next]_(SessionsPart!vars)
  => GoneInv'
<1> SUFFICES ASSUME GoneInv, [SessionsPart!Next]_(SessionsPart!vars)
             PROVE  GoneInv'
  OBVIOUS
<1> USE DEF GoneInv, SessionsPart!stored
<1>1. ASSUME NEW s \in SessionsPart!Streams, SessionsPart!Begin(s) PROVE GoneInv'
  BY <1>1 DEF SessionsPart!Begin
<1>2. ASSUME NEW s \in SessionsPart!Streams, SessionsPart!BeginSubAgent(s)
      PROVE  GoneInv'
  BY <1>2 DEF SessionsPart!BeginSubAgent
<1>3. ASSUME NEW s \in SessionsPart!Streams, SessionsPart!BeginResume(s)
      PROVE  GoneInv'
  BY <1>3 DEF SessionsPart!BeginResume
<1>4. ASSUME NEW s \in SessionsPart!Streams, SessionsPart!ModelAnswers(s)
      PROVE  GoneInv'
  BY <1>4 DEF SessionsPart!ModelAnswers
<1>5. ASSUME NEW s \in SessionsPart!Streams, SessionsPart!ToolReturns(s)
      PROVE  GoneInv'
  BY <1>5 DEF SessionsPart!ToolReturns
<1>6. ASSUME NEW s \in SessionsPart!Streams, SessionsPart!AppendEntry(s)
        \/ SessionsPart!ApplyEntry(s)
      PROVE  GoneInv'
  BY <1>6 DEF SessionsPart!AppendEntry, SessionsPart!ApplyEntry, SessionsPart!Appended
<1>7. ASSUME NEW s \in SessionsPart!Streams, SessionsPart!AppendFails(s)
      PROVE  GoneInv'
  BY <1>7 DEF SessionsPart!AppendFails
<1>8. ASSUME NEW s \in SessionsPart!Streams, SessionsPart!Stops(s) PROVE GoneInv'
  BY <1>8 DEF SessionsPart!Stops
<1>9. ASSUME NEW s \in SessionsPart!Streams, SessionsPart!SaveCheckpoint(s)
      PROVE  GoneInv'
  BY <1>9 DEF SessionsPart!SaveCheckpoint
<1>10. ASSUME NEW s \in SessionsPart!Streams, SessionsPart!SaveAgentState(s)
         \/ SessionsPart!SaveAgentStateRow(s)
       PROVE  GoneInv'
  BY <1>10 DEF SessionsPart!SaveAgentState, SessionsPart!SaveAgentStateRow, SessionsPart!Saved
<1>11. CASE SessionsPart!ClearCheckpoint
  BY <1>11 DEF SessionsPart!ClearCheckpoint
<1>12. CASE SessionsPart!ClearAgentState
  BY <1>12 DEF SessionsPart!ClearAgentState
<1>13. CASE SessionsPart!Delete \/ SessionsPart!DeleteRow
  BY <1>13 DEF SessionsPart!Delete, SessionsPart!DeleteRow, SessionsPart!Deleted
<1>14. CASE SessionsPart!Create
  BY <1>14 DEF SessionsPart!Create
<1>15. CASE UNCHANGED SessionsPart!vars
  BY <1>15 DEF SessionsPart!vars
<1> QED
  BY <1>1, <1>2, <1>3, <1>4, <1>5, <1>6, <1>7, <1>8, <1>9, <1>10, <1>11, <1>12, <1>13, <1>14,
    <1>15 DEF SessionsPart!Next, SessionsPart!Step

-----------------------------------------------------------------------------
(* Sessions: the database. *)

IsSeq(s) == s \in Seq({s[k] : k \in DOMAIN s})

\* The calls of a checkpoint, and those that a stream has to answer, are of the log of
\* the session, as long as none works on one that was deleted, or alongside another run.
LoggedInv ==
  /\ IsSeq(log) /\ DOMAIN pc = SessionsPart!Streams /\ DOMAIN todo = SessionsPart!Streams
  /\ \A s \in SessionsPart!Streams : pc[s] = "idle" => todo[s] = {}
  /\ ~mixed => /\ checkpoint.calls \subseteq SessionsPart!Called
               /\ \A s \in SessionsPart!Active : exists /\ todo[s] \subseteq SessionsPart!Called

LEMMA LoggedFirst == SessionsPart!Init => LoggedInv
BY DEF SessionsPart!Init, LoggedInv, SessionsPart!NoCheckpoint, SessionsPart!Active, IsSeq

\* What one stream does, if its calls are in the log.
LEMMA LoggedMoves ==
  ASSUME LoggedInv, NEW s \in SessionsPart!Streams,
         UNCHANGED <<log, exists, checkpoint>>, mixed => mixed',
         NEW to \in {"append", "model", "tools", "ended"}, pc' = [pc EXCEPT ![s] = to],
         DOMAIN todo' = SessionsPart!Streams,
         \A q \in SessionsPart!Streams \ {s} : todo'[q] = todo[q],
         ~mixed' /\ to # "ended" => exists /\ todo'[s] \subseteq SessionsPart!Called
  PROVE  LoggedInv'
<1>1. SessionsPart!Called' = SessionsPart!Called
  BY DEF SessionsPart!Called
<1>2. DOMAIN pc' = SessionsPart!Streams /\ pc'[s] = to
      /\ \A q \in SessionsPart!Streams \ {s} : pc'[q] = pc[q]
  BY DEF LoggedInv
<1>3. \A q \in SessionsPart!Active' : q # s => q \in SessionsPart!Active
  BY <1>2 DEF SessionsPart!Active
<1>4. s \in SessionsPart!Active' => to # "ended"
  BY <1>2 DEF SessionsPart!Active
<1>5. SessionsPart!Active' \subseteq SessionsPart!Streams
  BY DEF SessionsPart!Active
<1> QED BY <1>1, <1>2, <1>3, <1>4, <1>5 DEF LoggedInv

\* An entry brings its calls into the log.
LEMMA CalledGrows ==
  ASSUME IsSeq(log), NEW e, log' = Append(log, e)
  PROVE  /\ IsSeq(log')
         /\ SessionsPart!Called \subseteq SessionsPart!Called'
         /\ SessionsPart!Ids(e.calls) \subseteq SessionsPart!Called'
<1> DEFINE T == {log[k] : k \in DOMAIN log} \cup {e}
<1>1. log \in Seq(T) /\ e \in T
  BY DEF IsSeq
<1> HIDE DEF T
<1>2. /\ log' \in Seq(T) /\ DOMAIN log = 1..Len(log) /\ Len(log) \in Nat
      /\ DOMAIN log' = 1..(Len(log) + 1) /\ log'[Len(log) + 1] = e
      /\ \A k \in 1..Len(log) : log'[k] = log[k]
  BY <1>1
<1>3. IsSeq(log')
  BY <1>2 DEF IsSeq
<1>4. DOMAIN log \subseteq DOMAIN log' /\ Len(log) + 1 \in DOMAIN log'
  BY <1>2
<1> QED BY <1>2, <1>3, <1>4 DEF SessionsPart!Called

LEMMA LoggedStep ==
  ASSUME LoggedInv, [SessionsPart!Next]_(SessionsPart!vars)
  PROVE  LoggedInv'
<1> USE DEF SessionsPart!stored
<1>1. DOMAIN todo = SessionsPart!Streams /\ DOMAIN pc = SessionsPart!Streams
  BY DEF LoggedInv
\* What is active.
<1>2. \A s \in SessionsPart!Streams : pc[s] \in {"append", "model", "tools"} /\ ~mixed
        => exists /\ todo[s] \subseteq SessionsPart!Called
  BY DEF LoggedInv, SessionsPart!Active
<1>3. \A s \in SessionsPart!Streams : pc[s] = "idle" => todo[s] = {}
  BY DEF LoggedInv
<1>4. ASSUME NEW s \in SessionsPart!Streams, SessionsPart!Begin(s) PROVE LoggedInv'
  <2>1. pc[s] = "idle" /\ exists /\ (mixed => mixed')
    BY <1>4 DEF SessionsPart!Begin, SessionsPart!Open, SessionsPart!Assign
  <2>2. pc' = [pc EXCEPT ![s] = "append"] /\ UNCHANGED <<log, exists, checkpoint, todo>>
    BY <1>4 DEF SessionsPart!Begin, SessionsPart!Make
  <2> QED BY <1>1, <1>3, <2>1, <2>2, LoggedMoves
<1>5. ASSUME NEW s \in SessionsPart!Streams, SessionsPart!BeginSubAgent(s) PROVE LoggedInv'
  <2>1. pc[s] = "idle" /\ (~mixed => exists)
    BY <1>5 DEF SessionsPart!BeginSubAgent, SessionsPart!Assign, LoggedInv
  <2>2. pc' = [pc EXCEPT ![s] = "model"] /\ UNCHANGED <<log, exists, checkpoint, todo, mixed>>
    BY <1>5 DEF SessionsPart!BeginSubAgent
  <2> QED BY <1>1, <1>3, <2>1, <2>2, LoggedMoves
<1>6. ASSUME NEW s \in SessionsPart!Streams, SessionsPart!BeginResume(s) PROVE LoggedInv'
  <2>1. /\ exists /\ (mixed => mixed') /\ UNCHANGED <<log, exists, checkpoint>>
        /\ pc' = [pc EXCEPT ![s] = "tools"] /\ todo' = [todo EXCEPT ![s] = checkpoint.calls]
    BY <1>6 DEF SessionsPart!BeginResume, SessionsPart!Open
  <2>2. ~mixed => checkpoint.calls \subseteq SessionsPart!Called
    BY DEF LoggedInv
  <2> QED BY <1>1, <2>1, <2>2, LoggedMoves
<1>7. ASSUME NEW s \in SessionsPart!Streams,
             SessionsPart!ModelAnswers(s) \/ SessionsPart!ToolReturns(s)
      PROVE  LoggedInv'
  <2>1. /\ pc[s] \in {"model", "tools"} /\ pc' = [pc EXCEPT ![s] = "append"]
        /\ UNCHANGED <<log, exists, checkpoint, todo, mixed>>
    BY <1>7 DEF SessionsPart!ModelAnswers, SessionsPart!ToolReturns, SessionsPart!Make
  <2> QED BY <1>1, <1>2, <2>1, LoggedMoves
<1>8. ASSUME NEW s \in SessionsPart!Streams,
             SessionsPart!AppendEntry(s) \/ SessionsPart!ApplyEntry(s)
      PROVE  LoggedInv'
  <2>1. /\ pc[s] = "append" /\ log' = Append(log, draft[s])
        /\ UNCHANGED <<exists, checkpoint, mixed>> /\ SessionsPart!Continue(s, draft[s])
    BY <1>8 DEF SessionsPart!AppendEntry, SessionsPart!ApplyEntry, SessionsPart!Appended
  <2>2. /\ IsSeq(log') /\ SessionsPart!Called \subseteq SessionsPart!Called'
        /\ SessionsPart!Ids(draft[s].calls) \subseteq SessionsPart!Called'
    BY <2>1, CalledGrows DEF LoggedInv
  <2>3. /\ DOMAIN pc' = SessionsPart!Streams /\ DOMAIN todo' = SessionsPart!Streams
        /\ \A q \in SessionsPart!Streams \ {s} : pc'[q] = pc[q] /\ todo'[q] = todo[q]
        /\ pc'[s] # "idle"
        /\ todo'[s] \subseteq todo[s] \cup SessionsPart!Ids(draft[s].calls)
    BY <1>1, <2>1 DEF SessionsPart!Continue
  <2>4. \A q \in SessionsPart!Active' : q = s \/ q \in SessionsPart!Active
    BY <2>3 DEF SessionsPart!Active
  <2>5. SessionsPart!Active' \subseteq SessionsPart!Streams
    BY DEF SessionsPart!Active
  <2> QED BY <1>2, <2>1, <2>2, <2>3, <2>4, <2>5 DEF LoggedInv
<1>9. ASSUME NEW s \in SessionsPart!Streams,
             SessionsPart!AppendFails(s) \/ SessionsPart!Stops(s)
      PROVE  LoggedInv'
  <2>1. pc' = [pc EXCEPT ![s] = "ended"] /\ UNCHANGED <<log, exists, checkpoint, todo>>
    BY <1>9 DEF SessionsPart!AppendFails, SessionsPart!Stops
  <2>2. mixed' = mixed \/ mixed' = (mixed \/ (pc[s] = "tools"
                                             /\ checkpoint # SessionsPart!NoCheckpoint))
    BY <1>9 DEF SessionsPart!AppendFails, SessionsPart!Stops
  <2>3. mixed => mixed'
    BY <2>2
  <2> QED BY <1>1, <2>1, <2>3, LoggedMoves
<1>10. ASSUME NEW s \in SessionsPart!Streams, SessionsPart!SaveCheckpoint(s) PROVE LoggedInv'
  <2>1. /\ pc[s] = "tools" /\ pc' = [pc EXCEPT ![s] = "ended"]
        /\ UNCHANGED <<log, exists, todo, mixed>>
        /\ checkpoint'.calls \in {checkpoint.calls, todo[s]}
    BY <1>10 DEF SessionsPart!SaveCheckpoint
  <2>2. SessionsPart!Called' = SessionsPart!Called
    BY <2>1 DEF SessionsPart!Called
  <2>3. /\ SessionsPart!Active' \subseteq SessionsPart!Active
        /\ SessionsPart!Active \subseteq SessionsPart!Streams
    BY <1>1, <2>1 DEF SessionsPart!Active
  <2> QED BY <1>1, <1>2, <2>1, <2>2, <2>3 DEF LoggedInv
<1>11. CASE UNCHANGED <<log, exists, pc, todo, mixed>>
            /\ (checkpoint' = checkpoint \/ checkpoint' = SessionsPart!NoCheckpoint)
  <2>1. SessionsPart!Called' = SessionsPart!Called /\ SessionsPart!Active' = SessionsPart!Active
    BY <1>11 DEF SessionsPart!Called, SessionsPart!Active
  <2> QED BY <1>11, <2>1 DEF LoggedInv, SessionsPart!NoCheckpoint
<1>12. ASSUME NEW s \in SessionsPart!Streams,
              SessionsPart!SaveAgentState(s) \/ SessionsPart!SaveAgentStateRow(s)
       PROVE  LoggedInv'
  BY <1>11, <1>12 DEF SessionsPart!SaveAgentState, SessionsPart!SaveAgentStateRow,
    SessionsPart!Saved, SessionsPart!stream
<1>13. CASE SessionsPart!ClearCheckpoint \/ SessionsPart!ClearAgentState
  BY <1>11, <1>13 DEF SessionsPart!ClearCheckpoint, SessionsPart!ClearAgentState,
    SessionsPart!stream
<1>14. CASE SessionsPart!Delete \/ SessionsPart!DeleteRow
  <2>1. /\ UNCHANGED <<pc, todo>> /\ log' = <<>> /\ checkpoint'.calls = {}
        /\ mixed' = (mixed \/ SessionsPart!Active # {})
    BY <1>14 DEF SessionsPart!Delete, SessionsPart!DeleteRow, SessionsPart!Deleted,
      SessionsPart!NoCheckpoint
  <2>2. SessionsPart!Active' = SessionsPart!Active
    BY <2>1 DEF SessionsPart!Active
  <2>3. ~mixed' => SessionsPart!Active = {}
    BY <2>1
  <2>4. DOMAIN pc' = SessionsPart!Streams /\ DOMAIN todo' = SessionsPart!Streams
        /\ \A s \in SessionsPart!Streams : pc'[s] = "idle" => todo'[s] = {}
    BY <2>1 DEF LoggedInv
  <2>5. IsSeq(log')
    BY <2>1 DEF IsSeq
  <2> QED BY <2>1, <2>2, <2>3, <2>4, <2>5 DEF LoggedInv
<1>15. CASE SessionsPart!Create
  <2>1. UNCHANGED <<log, checkpoint, pc, todo, mixed>> /\ exists' = TRUE
    BY <1>15 DEF SessionsPart!Create, SessionsPart!stream
  <2>2. SessionsPart!Called' = SessionsPart!Called /\ SessionsPart!Active' = SessionsPart!Active
    BY <2>1 DEF SessionsPart!Called, SessionsPart!Active
  <2> QED BY <2>1, <2>2 DEF LoggedInv
<1>16. CASE UNCHANGED SessionsPart!vars
  BY <1>11, <1>16 DEF SessionsPart!vars, SessionsPart!stream
<1> QED
  BY <1>4, <1>5, <1>6, <1>7, <1>8, <1>9, <1>10, <1>12, <1>13, <1>14, <1>15, <1>16
    DEF SessionsPart!Next, SessionsPart!Step

Beginning(s, t) == IsSeq(s) /\ Len(s) <= Len(t) /\ \A k \in 1..Len(s) : s[k] = t[k]

Ascending(items) == \A i, k \in DOMAIN items : i < k => items[i].ts < items[k].ts

\* The entries were stored in the order of their times, none later than the session's.
LogInv ==
  /\ now \in Nat /\ updateTime \in 0..now
  /\ IsSeq(log) /\ Ascending(log) /\ \A k \in DOMAIN log : log[k].ts \in 1..updateTime

\* An entry that waits to be stored has a time of its own.
DraftInv ==
  /\ DOMAIN draft = SessionsPart!Streams /\ DOMAIN pc = SessionsPart!Streams
  /\ \A s \in SessionsPart!Streams : pc[s] = "append" =>
       /\ draft[s].ts \in 1..now
       /\ \A k \in DOMAIN log : log[k].ts # draft[s].ts
       /\ \A q \in SessionsPart!Streams : pc[q] = "append" /\ draft[q].ts = draft[s].ts => q = s

\* What a stream has read is a beginning of the log of the session it has opened.
SnapshotInv ==
  /\ born \in Nat /\ DOMAIN of = SessionsPart!Streams /\ DOMAIN snapshot = SessionsPart!Streams
  /\ \A s \in SessionsPart!Streams :
       /\ of[s] \in 0..born
       /\ exists /\ of[s] = born => Beginning(snapshot[s], log)

DatabaseInv == GoneInv /\ LoggedInv /\ (store = "database" => LogInv /\ DraftInv
  /\ SnapshotInv)

LEMMA SameCardinality == \A S : SessionsPart!Cardinality(S) = Cardinality(S)
BY DEF SessionsPart!Cardinality, Cardinality

\* Entries in the order of their times are what a Get returns.
LEMMA ByTimeIsLog ==
  ASSUME NEW items, IsSeq(items), Ascending(items),
         \A k \in DOMAIN items : items[k].ts \in Nat
  PROVE  SessionsPart!ByTime(items) = items
<1> DEFINE before(k) == {i \in DOMAIN items :
               items[i].ts < items[k].ts \/ (items[i].ts = items[k].ts /\ i < k)}
           place(n) == CHOOSE k \in DOMAIN items : SessionsPart!Cardinality(before(k)) = n - 1
<1>1. DOMAIN items = 1..Len(items) /\ Len(items) \in Nat
  BY DEF IsSeq
<1>2. \A k \in DOMAIN items : SessionsPart!Cardinality(before(k)) = k - 1
  <2> SUFFICES ASSUME NEW k \in DOMAIN items PROVE SessionsPart!Cardinality(before(k)) = k - 1
    OBVIOUS
  <2>1. before(k) = 1..(k - 1)
    <3>1. \A i \in DOMAIN items : i \in before(k) <=> i < k
      BY <1>1 DEF Ascending
    <3> QED BY <1>1, <3>1
  <2>2. Cardinality(1..(k - 1)) = k - 1
    BY <1>1, FS_Interval
  <2> QED BY <2>1, <2>2, SameCardinality
<1>3. \A n \in DOMAIN items : place(n) = n
  BY <1>1, <1>2
<1>4. SessionsPart!ByTime(items) = [n \in DOMAIN items |-> items[place(n)]]
  BY DEF SessionsPart!ByTime
<1>5. SessionsPart!ByTime(items) = [n \in DOMAIN items |-> items[n]]
  BY <1>3, <1>4
<1>6. items = [n \in DOMAIN items |-> items[n]]
  BY DEF IsSeq
<1> QED BY <1>5, <1>6

\* One more entry, later than all of them.
LEMMA AppendsLater ==
  ASSUME NEW items, IsSeq(items), Ascending(items), NEW e,
         \A k \in DOMAIN items : items[k].ts < e.ts
  PROVE  /\ IsSeq(Append(items, e)) /\ Ascending(Append(items, e))
         /\ \A k \in DOMAIN Append(items, e) :
              Append(items, e)[k] = e \/ \E i \in DOMAIN items : Append(items,
                e)[k] = items[i]
         /\ \A s : Beginning(s, items) => Beginning(s, Append(items, e))
<1> DEFINE T == {items[k] : k \in DOMAIN items} \cup {e}
           longer == Append(items, e)
<1>1. items \in Seq(T) /\ e \in T
  BY DEF IsSeq
<1> HIDE DEF T
<1>2. /\ longer \in Seq(T) /\ Len(longer) = Len(items) + 1 /\ Len(items) \in Nat
      /\ DOMAIN items = 1..Len(items)
      /\ \A k \in 1..Len(items) : longer[k] = items[k]
      /\ longer[Len(items) + 1] = e
  BY <1>1
<1> HIDE DEF longer
<1>3. DOMAIN longer = 1..Len(items) + 1
  BY <1>2
<1>4. IsSeq(longer)
  BY <1>2 DEF IsSeq
<1>5. Ascending(longer)
  BY <1>2, <1>3 DEF Ascending
<1>6. \A k \in DOMAIN longer : longer[k] = e \/ \E i \in DOMAIN items : longer[k] = items[i]
  BY <1>2, <1>3
<1>7. \A s : Beginning(s, items) => Beginning(s, longer)
  BY <1>2 DEF Beginning, IsSeq
<1> QED BY <1>4, <1>5, <1>6, <1>7 DEF longer

\* A new entry has the time of now.
LEMMA MakesDraft ==
  ASSUME NEW s \in SessionsPart!Streams, store = "database", LogInv, DraftInv, NEW v,
    NEW author, NEW role,
         NEW text, NEW cs, NEW rs, NEW error,
         SessionsPart!Make(s, v, author, role, text, cs, rs, error),
           UNCHANGED SessionsPart!stored
  PROVE  LogInv' /\ DraftInv'
<1>1. LogInv'
  BY DEF LogInv, SessionsPart!Make, SessionsPart!stored
<1>2. /\ pc' = [pc EXCEPT ![s] = "append"] /\ now' = now + 1 /\ log' = log
      /\ DOMAIN draft' = SessionsPart!Streams /\ draft'[s].ts = now'
      /\ \A q \in SessionsPart!Streams \ {s} : draft'[q] = draft[q]
  BY DEF SessionsPart!Make, SessionsPart!stored, DraftInv
<1>3. DraftInv'
  BY <1>2 DEF DraftInv, LogInv
<1> QED BY <1>1, <1>3

\* A stream opens the session as the log is.
LEMMA OpensSnapshot ==
  ASSUME NEW s \in SessionsPart!Streams, store = "database", LogInv, SnapshotInv, NEW a,
    SessionsPart!Open(s, a),
         UNCHANGED SessionsPart!stored
  PROVE  SnapshotInv'
<1>1. SessionsPart!ByTime(log) = log
  BY ByTimeIsLog DEF LogInv
<1>2. Beginning(log, log)
  BY DEF Beginning, LogInv, IsSeq
<1>3. /\ DOMAIN of' = SessionsPart!Streams /\ DOMAIN snapshot' = SessionsPart!Streams
      /\ of'[s] = born /\ snapshot'[s] = log
      /\ \A q \in SessionsPart!Streams \ {s} : of'[q] = of[q] /\ snapshot'[q] = snapshot[q]
  BY <1>1 DEF SessionsPart!Open, SnapshotInv
<1> QED BY <1>2, <1>3 DEF SnapshotInv, SessionsPart!stored

\* Streams that hold no new entry.
LEMMA SameDrafts ==
  ASSUME DraftInv, LogInv, NEW s \in SessionsPart!Streams, NEW to, to # "append",
    pc' = [pc EXCEPT ![s] = to],
         DOMAIN draft' = SessionsPart!Streams,
           \A q \in SessionsPart!Streams \ {s} : draft'[q] = draft[q],
         log' = log, now' = now
  PROVE  DraftInv'
<1>1. \A q \in SessionsPart!Streams : pc'[q] = "append" => q # s /\ pc[q] = "append"
  BY DEF DraftInv
<1>2. DOMAIN pc' = SessionsPart!Streams
  BY DEF DraftInv
<1> QED BY <1>1, <1>2 DEF DraftInv

LEMMA DatabaseStep ==
  ASSUME DatabaseInv, store = "database", [SessionsPart!Next]_(SessionsPart!vars)
  PROVE  LogInv' /\ DraftInv' /\ SnapshotInv'
<1>0. LogInv /\ DraftInv /\ SnapshotInv /\ GoneInv
  BY DEF DatabaseInv
<1>1. ASSUME NEW s \in SessionsPart!Streams, SessionsPart!Begin(s)
      PROVE  LogInv' /\ DraftInv' /\ SnapshotInv'
  BY <1>0, <1>1, MakesDraft, OpensSnapshot DEF SessionsPart!Begin
<1>2. ASSUME NEW s \in SessionsPart!Streams, SessionsPart!BeginSubAgent(s)
      PROVE  LogInv' /\ DraftInv' /\ SnapshotInv'
  <2>1. LogInv'
    BY <1>0, <1>2 DEF SessionsPart!BeginSubAgent, LogInv, SessionsPart!stored
  <2>2. DraftInv'
    BY <1>0, <1>2, SameDrafts DEF SessionsPart!BeginSubAgent, DraftInv, SessionsPart!stored
  <2>3. SnapshotInv'
    BY <1>0, <1>2 DEF SessionsPart!BeginSubAgent, SnapshotInv, SessionsPart!stored,
      SessionsPart!Active
  <2> QED BY <2>1, <2>2, <2>3
<1>3. ASSUME NEW s \in SessionsPart!Streams, SessionsPart!BeginResume(s)
      PROVE  LogInv' /\ DraftInv' /\ SnapshotInv'
  <2>1. LogInv'
    BY <1>0, <1>3 DEF SessionsPart!BeginResume, LogInv, SessionsPart!stored
  <2>2. DraftInv'
    BY <1>0, <1>3, SameDrafts DEF SessionsPart!BeginResume, DraftInv, SessionsPart!stored
  <2> QED BY <1>0, <1>3, <2>1, <2>2, OpensSnapshot DEF SessionsPart!BeginResume
<1>4. ASSUME NEW s \in SessionsPart!Streams, SessionsPart!ModelAnswers(s)
        \/ SessionsPart!ToolReturns(s)
      PROVE  LogInv' /\ DraftInv' /\ SnapshotInv'
  <2>1. LogInv' /\ DraftInv'
    BY <1>0, <1>4, MakesDraft DEF SessionsPart!ModelAnswers, SessionsPart!ToolReturns
  <2>2. UNCHANGED <<born, exists, log, of, snapshot>>
    BY <1>4 DEF SessionsPart!ModelAnswers, SessionsPart!ToolReturns, SessionsPart!stored
  <2>3. SnapshotInv'
    BY <1>0, <2>2 DEF SnapshotInv
  <2> QED BY <2>1, <2>3
<1>5. ASSUME NEW s \in SessionsPart!Streams, SessionsPart!AppendEntry(s)
        \/ SessionsPart!ApplyEntry(s)
      PROVE  LogInv' /\ DraftInv' /\ SnapshotInv'
  <2>1. /\ pc[s] = "append" /\ updateTime <= draft[s].ts /\ exists /\ SessionsPart!Appended(s)
    BY <1>5 DEF SessionsPart!AppendEntry, SessionsPart!ApplyEntry
  <2>2. \A k \in DOMAIN log : log[k].ts < draft[s].ts
    BY <1>0, <2>1 DEF LogInv, DraftInv
  <2>3. log' = Append(log, draft[s]) /\ updateTime' = draft[s].ts /\ now' = now
    BY <2>1 DEF SessionsPart!Appended
  <2>4. /\ IsSeq(log') /\ Ascending(log')
        /\ \A k \in DOMAIN log' :
             log'[k] = draft[s] \/ \E i \in DOMAIN log : log'[k] = log[i]
        /\ \A t : Beginning(t, log) => Beginning(t, log')
    BY <1>0, <2>2, <2>3, AppendsLater DEF LogInv
  <2>5. LogInv'
    BY <1>0, <2>1, <2>2, <2>3, <2>4 DEF LogInv, DraftInv
  <2>6. /\ DOMAIN pc' = SessionsPart!Streams /\ DOMAIN draft' = SessionsPart!Streams
    /\ pc'[s] # "append"
        /\ \A q \in SessionsPart!Streams \ {s} : pc'[q] = pc[q] /\ draft'[q] = draft[q]
    BY <1>0, <2>1 DEF SessionsPart!Appended, SessionsPart!Continue, DraftInv
  <2>7. DraftInv'
    BY <1>0, <2>1, <2>3, <2>4, <2>6 DEF DraftInv
  <2>8. SnapshotInv'
    BY <1>0, <2>1, <2>4 DEF SnapshotInv, SessionsPart!Appended
  <2> QED BY <2>5, <2>7, <2>8
<1>6. ASSUME NEW s \in SessionsPart!Streams, SessionsPart!AppendFails(s)
        \/ SessionsPart!Stops(s) \/ SessionsPart!SaveCheckpoint(s)
      PROVE  LogInv' /\ DraftInv' /\ SnapshotInv'
  <2> USE <1>0, <1>6 DEF SessionsPart!AppendFails, SessionsPart!Stops,
    SessionsPart!SaveCheckpoint, SessionsPart!stored
  <2>1. LogInv'
    BY DEF LogInv
  <2>2. DraftInv'
    <3>1. /\ pc' = [pc EXCEPT ![s] = "ended"] /\ DOMAIN draft' = SessionsPart!Streams
          /\ \A q \in SessionsPart!Streams \ {s} : draft'[q] = draft[q]
      BY DEF DraftInv
    <3> QED BY <3>1, SameDrafts
  <2>3. SnapshotInv'
    BY DEF SnapshotInv
  <2> QED BY <2>1, <2>2, <2>3
<1>7. ASSUME NEW s \in SessionsPart!Streams, SessionsPart!SaveAgentState(s)
        \/ SessionsPart!SaveAgentStateRow(s)
      PROVE  LogInv' /\ DraftInv' /\ SnapshotInv'
  BY <1>0, <1>7 DEF SessionsPart!SaveAgentState, SessionsPart!SaveAgentStateRow,
    SessionsPart!Saved, SessionsPart!stream, LogInv, DraftInv, SnapshotInv
<1>8. CASE SessionsPart!ClearCheckpoint \/ SessionsPart!ClearAgentState
  BY <1>0, <1>8 DEF SessionsPart!ClearCheckpoint, SessionsPart!ClearAgentState,
    SessionsPart!stream, LogInv, DraftInv, SnapshotInv
<1>9. CASE SessionsPart!Delete \/ SessionsPart!DeleteRow
  <2> USE <1>0, <1>9 DEF SessionsPart!Delete, SessionsPart!DeleteRow, SessionsPart!Deleted
  <2>1. LogInv'
    BY DEF LogInv, IsSeq, Ascending
  <2>2. DraftInv'
    BY DEF DraftInv
  <2>3. SnapshotInv'
    BY DEF SnapshotInv
  <2> QED BY <2>1, <2>2, <2>3
<1>10. CASE SessionsPart!Create
  <2> USE <1>0, <1>10 DEF SessionsPart!Create, SessionsPart!stream
  <2>1. log = <<>>
    BY DEF GoneInv
  <2>2. LogInv'
    BY <2>1 DEF LogInv, IsSeq, Ascending
  <2>3. DraftInv'
    BY DEF DraftInv
  <2>4. SnapshotInv'
    BY DEF SnapshotInv
  <2> QED BY <2>2, <2>3, <2>4
<1>11. CASE UNCHANGED SessionsPart!vars
  BY <1>0, <1>11 DEF SessionsPart!vars, SessionsPart!stored, SessionsPart!stream, LogInv,
    DraftInv, SnapshotInv
<1> QED
  BY <1>1, <1>2, <1>3, <1>4, <1>5, <1>6, <1>7, <1>8, <1>9, <1>10, <1>11 DEF SessionsPart!Next,
    SessionsPart!Step

\* The log of a new session is empty, and no stream has opened it.
LEMMA DatabaseFirst == SessionsPart!Init => DatabaseInv
BY NothingFirst, LoggedFirst DEF SessionsPart!Init, DatabaseInv, LogInv, DraftInv, SnapshotInv,
  IsSeq, Ascending

LEMMA DatabaseInvStep == DatabaseInv /\ [SessionsPart!Next]_(SessionsPart!vars) => DatabaseInv'
<1> SUFFICES ASSUME DatabaseInv, [SessionsPart!Next]_(SessionsPart!vars) PROVE DatabaseInv'
  OBVIOUS
<1>1. store' = store
  BY DEF SessionsPart!Next, SessionsPart!Step, SessionsPart!Begin, SessionsPart!BeginSubAgent,
    SessionsPart!BeginResume, SessionsPart!ModelAnswers, SessionsPart!ToolReturns,
      SessionsPart!AppendEntry,
    SessionsPart!ApplyEntry, SessionsPart!Appended, SessionsPart!AppendFails,
      SessionsPart!Stops, SessionsPart!SaveCheckpoint, SessionsPart!SaveAgentState,
        SessionsPart!SaveAgentStateRow,
    SessionsPart!Saved, SessionsPart!ClearCheckpoint, SessionsPart!ClearAgentState,
      SessionsPart!Delete, SessionsPart!DeleteRow, SessionsPart!Deleted, SessionsPart!Create,
        SessionsPart!vars
<1>2. GoneInv' /\ LoggedInv'
  BY NothingStep, LoggedStep DEF DatabaseInv
<1> QED BY <1>1, <1>2, DatabaseStep DEF DatabaseInv

\* What DatabaseInv is for.
LEMMA DatabaseMeans == DatabaseInv => SessionsPart!NothingIsLeft /\ SessionsPart!SnapshotIsPrefix
<1> SUFFICES ASSUME DatabaseInv PROVE SessionsPart!SnapshotIsPrefix
  BY DEF DatabaseInv, GoneInv, LoggedInv, SessionsPart!NothingIsLeft
<1> SUFFICES ASSUME NEW s \in SessionsPart!Streams, store = "database", exists, of[s] = born
             PROVE  SessionsPart!IsPrefix(snapshot[s], SessionsPart!ByTime(log))
  BY DEF SessionsPart!SnapshotIsPrefix
<1>1. LogInv /\ Beginning(snapshot[s], log)
  BY DEF DatabaseInv, SnapshotInv
<1>2. SessionsPart!ByTime(log) = log
  BY <1>1, ByTimeIsLog DEF LogInv
<1>3. SubSeq(snapshot[s], 1, Len(snapshot[s])) = SubSeq(log, 1, Len(snapshot[s]))
  BY <1>1 DEF Beginning, IsSeq, LogInv
<1> QED BY <1>1, <1>2, <1>3 DEF SessionsPart!IsPrefix, Beginning

-----------------------------------------------------------------------------
(* The component at work. *)

\* A behaviour begins as one of a component does.
LEMMA Begins ==
  ASSUME Init
  PROVE  /\ part = "Sessions" => SessionsPart!Init
         /\ part = "DurableTool" => DurableToolPart!Init
         /\ part = "Turns" => TurnsPart!Init
         /\ part = "Tui" => TuiPart!Init
         /\ part = "McpClient" => McpClientPart!Init
         /\ part = "Codec" => CodecPart!Init
         /\ part = "Hooks" => HooksPart!Init
         /\ part = "Interrupts" => InterruptsPart!Init
         /\ part = "Stream" => StreamPart!Init
         /\ part = "UIStream" => UIStreamPart!Init
         /\ part = "EntryTree" => EntryTreePart!Init
BY DEF Init

\* A step is one of it, and it stays at work.
LEMMA StepsOf ==
  ASSUME [Next]_vars
  PROVE  /\ part' = part
         /\ part = "Sessions" => [SessionsPart!Next]_(SessionsPart!vars)
         /\ part = "DurableTool" => [DurableToolPart!Next]_(DurableToolPart!vars)
         /\ part = "Turns" => [TurnsPart!Next]_(TurnsPart!vars)
         /\ part = "Tui" => [TuiPart!Next]_(TuiPart!vars)
         /\ part = "McpClient" => [McpClientPart!Next]_(McpClientPart!vars)
         /\ part = "Codec" => [CodecPart!Next]_(CodecPart!vars)
         /\ part = "Hooks" => [HooksPart!Next]_(HooksPart!vars)
         /\ part = "Interrupts" => [InterruptsPart!Next]_(InterruptsPart!vars)
         /\ part = "Stream" => [StreamPart!Next]_(StreamPart!vars)
         /\ part = "UIStream" => [UIStreamPart!Next]_(UIStreamPart!vars)
         /\ part = "EntryTree" => [EntryTreePart!Next]_(EntryTreePart!vars)
<1>1. CASE Next
  <2> USE DEF OthersStream, OthersSessions, OthersEntryTree, OthersDurableTool, OthersTurns,
        OthersTui, OthersFirst, OthersInterrupts, OthersMcpClient, OthersUIStream, OthersCodec,
        OthersHooks
  <2> QED BY <1>1 DEF Next
<1>2. CASE UNCHANGED vars
  <2>1. UNCHANGED SessionsPart!vars
    BY <1>2 DEF vars, sessionsVars, SessionsPart!vars, SessionsPart!stored, SessionsPart!stream
  <2>2. UNCHANGED DurableToolPart!vars
    BY <1>2 DEF vars, durableToolVars, DurableToolPart!vars, DurableToolPart!workflow,
      DurableToolPart!session, DurableToolPart!history
  <2>3. UNCHANGED TurnsPart!vars
    BY <1>2 DEF vars, turnsVars, TurnsPart!vars, TurnsPart!extension, TurnsPart!locals,
      TurnsPart!history
  <2>4. UNCHANGED TuiPart!vars
    BY <1>2 DEF vars, tuiVars, TuiPart!vars, TuiPart!store, TuiPart!ui, TuiPart!run,
      TuiPart!history
  <2>5. UNCHANGED McpClientPart!vars /\ UNCHANGED CodecPart!vars /\ UNCHANGED HooksPart!vars
        /\ UNCHANGED InterruptsPart!vars
    BY <1>2 DEF vars, restVars, mcpClientVars, codecVars, hooksVars, interruptsVars,
      McpClientPart!vars, CodecPart!vars, HooksPart!vars, InterruptsPart!vars
  <2>6. UNCHANGED StreamPart!vars
    BY <1>2 DEF vars, streamVars, StreamPart!vars, StreamPart!builder
  <2>7. UNCHANGED UIStreamPart!vars
    BY <1>2 DEF vars, restVars, uiStreamVars, UIStreamPart!vars
  <2>8. UNCHANGED EntryTreePart!vars
    BY <1>2 DEF vars, entryTreeVars, EntryTreePart!vars
  <2> QED BY <1>2, <2>1, <2>2, <2>3, <2>4, <2>5, <2>6, <2>7, <2>8 DEF vars
<1> QED BY <1>1, <1>2

-----------------------------------------------------------------------------
(* Sessions, with either store, and again after the session was deleted. *)

LEMMA DatabaseInvHolds == Spec => [](part = "Sessions" => DatabaseInv)
<1> DEFINE Inv == part = "Sessions" => DatabaseInv
<1>1. Init => Inv
  BY Begins, DatabaseFirst
<1>2. Inv /\ [Next]_vars => Inv'
  BY StepsOf, DatabaseInvStep
<1> QED BY <1>1, <1>2, PTL DEF Spec

(* No entry is stored in the midst of those that a Get of the database returned: the
   update of the session's time lets only the later ones in (applyEntry). *)
THEOREM SnapshotIsPrefixHolds == Spec => []SnapshotIsPrefix
<1>1. (part = "Sessions" => DatabaseInv) => SnapshotIsPrefix
  BY DatabaseMeans DEF SnapshotIsPrefix
<1> QED BY <1>1, DatabaseInvHolds, PTL

(* While a session is deleted nothing is stored in its name, by whatever streams
   still work on it, but for the agent states of the in-memory store; when it is made
   again, its checkpoint has only calls of its own log, unless streams overlapped or
   worked on the one that was deleted, and an agent state of the database was saved
   since (Delete, AppendEntry, SaveCheckpoint, SaveAgentState). *)
THEOREM NothingIsLeftHolds == Spec => []NothingIsLeft
<1>1. (part = "Sessions" => DatabaseInv) => NothingIsLeft
  BY DatabaseMeans DEF NothingIsLeft
<1> QED BY <1>1, DatabaseInvHolds, PTL

-----------------------------------------------------------------------------
(* Turns and DurableTool: what is proved of them holds here. *)

(* Callers of the steering extension, other hooks that inject messages, turns and runs
   in any order: the messages of each kind are yielded once each, in order, but for
   those that a failing run had taken (tool/steering, llmAgent.run). *)
THEOREM QueuedAreShownHolds == Spec => []QueuedAreShown
<1> DEFINE Inv == part = "Turns" => Placed
<1>1. Init => Inv
  BY Begins, PlacedFirst
<1>2. Inv /\ [Next]_vars => Inv'
  BY StepsOf, PartsAssumption, PlacedStep
<1>3. Inv => QueuedAreShown
  BY PlacedMeans DEF QueuedAreShown
<1> QED BY <1>1, <1>2, <1>3, PTL DEF Spec

(* A run that ends by itself has sent its model every message that it yielded, but
   for those in the role of the user, which are not persisted, and but for a resume
   that ends with its tools (llmAgent.run, appendEvent). *)
THEOREM ShownAreAnsweredHolds == Spec => []ShownAreAnswered
<1> DEFINE Inv == part = "Turns" => Noted
<1>1. Init => Inv
  BY Begins, NotedFirst
<1>2. Inv /\ [Next]_vars => Inv'
  BY StepsOf, NotedStep
<1>3. Inv => ShownAreAnswered
  BY NotedMeans DEF ShownAreAnswered
<1> QED BY <1>1, <1>2, <1>3, PTL DEF Spec

\* The invariant of DurableTool.
LEMMA DurableInvHolds == Spec => [](part = "DurableTool" => DurableInv)
<1> DEFINE Inv == part = "DurableTool" => DurableInv
<1>1. Init => Inv
  BY Begins, DurableFirst
<1>2. Inv /\ [Next]_vars => Inv'
  BY StepsOf, DurableStep
<1> QED BY <1>1, <1>2, PTL DEF Spec

(* Beyond its first segment the body of a durable tool runs only on a signal of its
   own, later than those of the segments before, which has a key for an interrupt of
   the very pause, or for the call (RunSegment, resumePayloadForPendingInterrupts). *)
THEOREM RunsOnAnswersOnlyHolds == Spec => []RunsOnAnswersOnly
<1>1. (part = "DurableTool" => DurableInv) => RunsOnAnswersOnly
  BY DurableMeans DEF RunsOnAnswersOnly
<1> QED BY <1>1, DurableInvHolds, PTL

(* The session waits for what the workflow waits for (buildInterrupt,
   RunWorkflow). *)
THEOREM CheckpointIsThePauseHolds == Spec => []CheckpointIsThePause
<1>1. (part = "DurableTool" => DurableInv) => CheckpointIsThePause
  BY DurableMeans DEF CheckpointIsThePause
<1> QED BY <1>1, DurableInvHolds, PTL

(* What the other callers of a connection do costs a caller nothing: no list of
   tools is of two sessions unless another session came between its pages, and a
   connection is lost for good only after two sessions have ended by themselves
   (getSession, refreshConnection, ListTools). *)
THEOREM CallersDoNotDisturbHolds == Spec => []CallersDoNotDisturb
<1> DEFINE Inv == part = "McpClient" => McpInv
<1>1. Init => Inv
  BY Begins, McpFirst
<1>2. Inv /\ [Next]_vars => Inv'
  BY StepsOf, McpTypesStep, ListStep, LostStep DEF McpInv
<1>3. Inv => CallersDoNotDisturb
  BY McpMeans DEF CallersDoNotDisturb
<1> QED BY <1>1, <1>2, <1>3, PTL DEF Spec

(* What an extension refused, other than with an interrupt, is not executed; what one
   paused is not executed before the resume; and only an extension's own doing loses or
   orphans a call of a run that ends well (agent/extension.go, runStep, resumePending). *)
THEOREM HooksDecideHolds == Spec => []HooksDecide
<1> DEFINE Inv == part = "Hooks" => HooksInv /\ HaltedInv
<1>1. Init => Inv
  BY Begins, HooksFirst, HaltedFirst
<1>2. Inv /\ [Next]_vars => Inv'
  BY StepsOf, HooksStep, HaltedStep
<1>3. Inv => HooksDecide
  BY HooksMeans DEF HooksDecide
<1> QED BY <1>1, <1>2, <1>3, PTL DEF Spec

(* The decisions that a resume sends are the user's on the very interrupts that the
   session is pending on (handleEvent, loadPendingApprovals, resolveApproval). *)
THEOREM DecisionsFitTheCheckpointHolds == Spec => []DecisionsFitTheCheckpoint
<1> DEFINE Inv == part = "Tui" => TuiInv
<1>1. Init => Inv
  BY Begins, TuiFirst
<1>2. Inv /\ [Next]_vars => Inv'
  BY StepsOf, TuiStep
<1>3. Inv => DecisionsFitTheCheckpoint
  BY DEF DecisionsFitTheCheckpoint, TuiInv, TuiTypes, TuiPart!DecisionsFitTheCheckpoint
<1> QED BY <1>1, <1>2, <1>3, PTL DEF Spec

(* What the user said and the last answer of every run that ended stay in the
   transcript, in their order (upsertAssistantText, handleEvent). *)
THEOREM LastWordsStayHolds == Spec => []LastWordsStay
<1> DEFINE Inv == part = "Tui" => TuiInv /\ SightInv
<1>1. Init => Inv
  BY Begins, TuiFirst, SightFirst
<1>2. Inv /\ [Next]_vars => Inv'
  BY StepsOf, TuiStep, SightStep
<1>3. Inv => LastWordsStay
  BY SightMeans DEF LastWordsStay
<1> QED BY <1>1, <1>2, <1>3, PTL DEF Spec

(* An entry is read back as it was said, in whatever form it was written: a message
   of any length, with the contents, calls and results of every kind
   (UnmarshalJSON, createEntryFromStorageEntry). *)
THEOREM ReadsWhatWasSaidHolds == Spec => []ReadsWhatWasSaid
<1> DEFINE Inv == part = "Codec" => CodecInv
<1>1. Init => Inv
  BY Begins, CodecFirst
<1>2. Inv /\ [Next]_vars => Inv'
  BY StepsOf, CodecStep, PartsAssumption
<1>3. Inv => ReadsWhatWasSaid
  BY CodecMeans DEF ReadsWhatWasSaid
<1> QED BY <1>1, <1>2, <1>3, PTL DEF Spec

(* What is persisted of a pause of a call, or of an agent tool whose own tools pause:
   the tree of its signals comes back (ToInterruptData, ToSignals), and the calls that
   the checkpoint says to be pending are those that approvals have paused
   (ToPersistenceMaps, save).  Agent tools inside agent tools are not in the model,
   and of raw pauses the checkpoint keeps one. *)
THEOREM PauseIsPersistedHolds == Spec => []PauseIsPersisted
<1> DEFINE Inv == part = "Interrupts" => PersistInv
<1>1. Init => Inv
  BY Begins, PersistFirst
<1>2. Inv /\ [Next]_vars => Inv'
  BY StepsOf, PersistNext, PartsAssumption DEF PartsAssumption
<1>3. Inv => PauseIsPersisted
  BY DEF PersistInv, PauseIsPersisted
<1> QED BY <1>1, <1>2, <1>3, PTL DEF Spec

(* A consumer who puts the deltas together has what the vendor has said so far, and
   the message at the end is what the vendor said, however many chunks there are and
   however text, thinking and pieces of calls come mixed (AssistantEventBuilder,
   lookupToolCallState, convertAccumulated); of calls whose arguments gemini streams,
   the message has what the deltas had. *)
THEOREM StreamSaysWhatIsSaidHolds == Spec => []StreamSaysWhatIsSaid
<1> DEFINE Inv == part = "Stream" => StreamInv
<1>1. Init => Inv
  BY Begins, StreamFirst, PartsAssumption DEF PartsAssumption
<1>2. Inv /\ [Next]_vars => Inv'
  BY StepsOf, StreamStep, PartsAssumption DEF PartsAssumption
<1>3. Inv => StreamSaysWhatIsSaid
  BY StreamMeans, PartsAssumption DEF PartsAssumption, StreamSaysWhatIsSaid
<1> QED BY <1>1, <1>2, <1>3, PTL DEF Spec

(* A client that puts the parts of a session's entries together shows what the entries
   say, whatever they say and however many there are: every block of reasoning and text
   whole and closed, every call with its own result, once (EntryToParts). *)
THEOREM PartsSayTheEntriesHolds == Spec => []PartsSayTheEntries
<1> DEFINE Inv == part = "UIStream" => UIStreamInv
<1>1. Init => Inv
  BY Begins, UIStreamFirst
<1>2. Inv /\ [Next]_vars => Inv'
  BY StepsOf, UIStreamStep, PartsAssumption DEF PartsAssumption
<1>3. Inv => PartsSayTheEntries
  BY UIStreamMeans DEF PartsSayTheEntries
<1> QED BY <1>1, <1>2, <1>3, PTL DEF Spec

(* The context a manager gives a model is what was told on the way to its leaf: the
   last summary, what that kept and what came after it, and the last model chosen,
   whichever managers wrote the entries and in whatever order; where lines were lost,
   it is still in order and has nothing else (BuildSessionContext, appendRaw,
   LoadManager). *)
THEOREM ContextIsWhatWasToldHolds == Spec => []ContextIsWhatWasTold
<1> DEFINE Inv == part = "EntryTree" => EntryTreePart!TreeInv
<1>a. MaxIds \in Nat
  BY Assumptions DEF EntryTreePart!EntryTreeAssumption
<1>1. Init => Inv
  BY <1>a, Begins, EntryTreePart!TreeFirst
<1>2. Inv /\ [Next]_vars => Inv'
  BY <1>a, StepsOf, EntryTreePart!TreeStep
<1>3. Inv => ContextIsWhatWasTold
  BY <1>a, EntryTreePart!TreeMeans DEF ContextIsWhatWasTold
<1> QED BY <1>1, <1>2, <1>3, PTL DEF Spec
=============================================================================
