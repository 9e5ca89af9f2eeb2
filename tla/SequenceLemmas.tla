--------------------------- MODULE SequenceLemmas ---------------------------
(***************************************************************************)
(* Sequences of every length: recursion along them, FlattenSeq, orders,    *)
(* and the database that a sequence of writes leaves behind.               *)
(***************************************************************************)
EXTENDS WriteOrder, SequencesExt, SequenceTheorems, FiniteSetTheorems, WellFoundedInduction,
        TLAPS

\* Induction over the naturals, for a set instead of a predicate.
LEMMA SetInduction ==
    ASSUME NEW S, 0 \in S, \A n \in Nat : n \in S => n + 1 \in S
    PROVE  Nat \subseteq S
<1> SUFFICES ASSUME Nat \ S # {} PROVE FALSE
    OBVIOUS
<1> DEFINE T == Nat \ S
<1>1. T \subseteq Nat /\ T # {}
    OBVIOUS
<1>2. \E x \in T : \A y \in T : ~(<<y, x>> \in OpToRel(<, Nat))
    <2> HIDE DEF T
    <2> QED BY <1>1, NatLessThanWellFounded, WFMin
<1>3. PICK x \in T : \A y \in T : ~(y < x)
    BY <1>1, <1>2 DEF OpToRel
<1>4. x # 0 /\ x \in Nat /\ x \notin S
    OBVIOUS
<1>5. x - 1 \in Nat /\ x - 1 \notin T
    BY <1>3, <1>4
<1>6. x - 1 \in S
    BY <1>5
<1>7. (x - 1) + 1 \in S
    BY <1>5, <1>6
<1>8. (x - 1) + 1 = x
    BY <1>4
<1> QED BY <1>4, <1>7, <1>8

\* A non-empty set of positions has a last one.
LEMMA LastExists ==
    ASSUME NEW n \in Nat, NEW T \in SUBSET (1..n), T # {}
    PROVE  \E i \in T : \A j \in T : j <= i
<1> DEFINE D == {n - i : i \in T}
<1>1. D \subseteq Nat /\ D # {}
    <2>1. \A i \in T : n - i \in Nat
        OBVIOUS
    <2>2. PICK i \in T : TRUE
        OBVIOUS
    <2>3. n - i \in D
        OBVIOUS
    <2> QED BY <2>1, <2>3
<1>2. \E x \in D : \A y \in D : ~(<<y, x>> \in OpToRel(<, Nat))
    <2> HIDE DEF D
    <2> QED BY <1>1, NatLessThanWellFounded, WFMin
<1>3. PICK x \in D : \A y \in D : ~(y < x)
    BY <1>1, <1>2 DEF OpToRel
<1>4. PICK i \in T : n - i = x
    OBVIOUS
<1>5. \A j \in T : ~(n - j < n - i) /\ j \in Int /\ i \in Int
    BY <1>3, <1>4
<1> QED BY <1>5

\* A recursive definition along 1..m has a solution.
Solution(f, a, G, m) == f[1] = a /\ \A i \in 1..m : f[i + 1] = G[i][f[i]]

LEMMA RecursionExists ==
    ASSUME NEW V, NEW a \in V, NEW m \in Nat, NEW G \in [1..m -> [V -> V]]
    PROVE  \E f \in [1..(m + 1) -> V] : Solution(f, a, G, m)
<1> DEFINE Solves(f, n) == f[1] = a /\ \A i \in 1..n : f[i + 1] = G[i][f[i]]
           Good == {n \in Nat : n <= m => \E f \in [1..(n + 1) -> V] : Solves(f, n)}
<1>1. 0 \in Good
    <2>1. [i \in 1..1 |-> a] \in [1..(0 + 1) -> V] /\ Solves([i \in 1..1 |-> a], 0)
        OBVIOUS
    <2> QED BY <2>1
<1>2. ASSUME NEW n \in Nat, n \in Good PROVE n + 1 \in Good
    <2>a. SUFFICES ASSUME n + 1 <= m
                   PROVE  \E g \in [1..(n + 2) -> V] : Solves(g, n + 1)
        <3> HIDE DEF Solves
        <3>1. n + 1 + 1 = n + 2 /\ n + 1 \in Nat
            OBVIOUS
        <3> QED BY <3>1
    <2>1. PICK f \in [1..(n + 1) -> V] : Solves(f, n)
        BY <1>2, <2>a
    <2> DEFINE g == [i \in 1..(n + 2) |-> IF i = n + 2 THEN G[n + 1][f[n + 1]] ELSE f[i]]
    <2>2. n + 1 \in 1..m /\ n + 1 \in 1..(n + 1)
        BY <2>a
    <2>3. G[n + 1][f[n + 1]] \in V
        BY <2>2
    <2>4. g \in [1..(n + 2) -> V]
        BY <2>3
    <2>5. g[1] = a
        BY <2>1
    <2>6. ASSUME NEW i \in 1..(n + 1) PROVE g[i + 1] = G[i][g[i]]
        <3>1. i + 1 \in 1..(n + 2) /\ i \in 1..(n + 2) /\ i # n + 2
            OBVIOUS
        <3>2. CASE i = n + 1
            BY <3>1, <3>2
        <3>3. CASE i # n + 1
            <4>1. i \in 1..n /\ i + 1 # n + 2
                BY <3>3
            <4> QED BY <2>1, <3>1, <4>1
        <3> QED BY <3>2, <3>3
    <2> QED BY <2>4, <2>5, <2>6
<1>3. m \in Good
    <2> HIDE DEF Good
    <2> QED BY <1>1, <1>2, SetInduction
<1> QED BY <1>3 DEF Solution

\* A function on the first n positions is a sequence.
LEMMA FunctionIsSeq ==
    ASSUME NEW S, NEW n \in Nat, NEW f \in [1..n -> S]
    PROVE  f \in Seq(S) /\ Len(f) = n /\ DOMAIN f = 1..n
OBVIOUS

\* When a sequence is a concatenation, or the tail of another one.
LEMMA IsConcat ==
    ASSUME NEW S, NEW a \in Seq(S), NEW b \in Seq(S), NEW c \in Seq(S),
           Len(c) = Len(a) + Len(b),
           \A i \in 1..Len(c) : c[i] = IF i <= Len(a) THEN a[i] ELSE b[i - Len(a)]
    PROVE  c = a \o b
<1>1. /\ a \o b \in Seq(S) /\ Len(a \o b) = Len(c)
      /\ \A i \in 1..Len(c) : (a \o b)[i] = IF i <= Len(a) THEN a[i] ELSE b[i - Len(a)]
    BY ConcatProperties
<1> QED BY <1>1, SeqEqual

LEMMA IsCons ==
    ASSUME NEW S, NEW a \in Seq(S), NEW r \in Seq(S), NEW x \in S,
           Len(a) = Len(r) + 1, a[1] = x, \A i \in 1..Len(r) : a[i + 1] = r[i]
    PROVE  a = <<x>> \o r
<1>1. <<x>> \in Seq(S) /\ Len(<<x>>) = 1
    OBVIOUS
<1>2. /\ <<x>> \o r \in Seq(S) /\ Len(<<x>> \o r) = 1 + Len(r)
      /\ \A i \in 1..(1 + Len(r)) : (<<x>> \o r)[i] = IF i <= 1 THEN <<x>>[i] ELSE r[i - 1]
    BY <1>1, ConcatProperties
<1>3. ASSUME NEW i \in 1..Len(a) PROVE a[i] = (<<x>> \o r)[i]
    <2>1. CASE i = 1
        BY <1>2, <2>1
    <2>2. CASE i # 1
        <3>1. i - 1 \in 1..Len(r) /\ i = (i - 1) + 1 /\ ~(i <= 1) /\ i \in 1..(1 + Len(r))
            BY <2>2
        <3>2. a[(i - 1) + 1] = r[i - 1]
            BY <3>1
        <3> QED BY <1>2, <3>1, <3>2
    <2> QED BY <2>1, <2>2
<1> QED BY <1>2, <1>3, SeqEqual

LEMMA IsAppend ==
    ASSUME NEW S, NEW a \in Seq(S), NEW c \in Seq(S), NEW x \in S,
           Len(c) = Len(a) + 1, c[Len(a) + 1] = x, \A i \in 1..Len(a) : c[i] = a[i]
    PROVE  c = Append(a, x)
<1>1. /\ Append(a, x) \in Seq(S) /\ Len(Append(a, x)) = Len(a) + 1
      /\ \A i \in 1..Len(a) : Append(a, x)[i] = a[i]
      /\ Append(a, x)[Len(a) + 1] = x
    BY AppendProperties
<1>2. \A i \in 1..Len(c) : i \in 1..Len(a) \/ i = Len(a) + 1
    OBVIOUS
<1>3. \A i \in 1..Len(c) : c[i] = Append(a, x)[i]
    BY <1>1, <1>2
<1> QED BY <1>1, <1>3, SeqEqual

LEMMA IsTail ==
    ASSUME NEW S, NEW s \in Seq(S), NEW t \in Seq(S),
           Len(s) = Len(t) + 1, \A i \in 1..Len(t) : s[i + 1] = t[i]
    PROVE  t = Tail(s)
<1>1. s # <<>>
    OBVIOUS
<1>2. /\ Tail(s) \in Seq(S) /\ Len(Tail(s)) = Len(t)
      /\ \A i \in 1..Len(t) : Tail(s)[i] = s[i + 1]
    BY <1>1, HeadTailProperties
<1> QED BY <1>2, SeqEqual

\* f[i] is the concatenation of the first i sequences of seqs.
Flattens(f, seqs) ==
    \A i \in 1..Len(seqs) : f[i] = IF i = 1 THEN seqs[i] ELSE f[i - 1] \o seqs[i]

LEMMA FlattensExists ==
    ASSUME NEW S, NEW seqs \in Seq(Seq(S))
    PROVE  \E f \in [1..Len(seqs) -> Seq(S)] : Flattens(f, seqs)
<1> DEFINE Upto(f, n) == \A i \in 1..n : f[i] = IF i = 1 THEN seqs[i] ELSE f[i - 1] \o seqs[i]
           Good == {n \in Nat : n <= Len(seqs) => \E f \in [1..n -> Seq(S)] : Upto(f, n)}
<1>1. 0 \in Good
    <2>1. [i \in 1..0 |-> seqs[i]] \in [1..0 -> Seq(S)] /\ Upto([i \in 1..0 |-> seqs[i]], 0)
        OBVIOUS
    <2> QED BY <2>1
<1>2. ASSUME NEW n \in Nat, n \in Good PROVE n + 1 \in Good
    <2>a. SUFFICES ASSUME n + 1 <= Len(seqs)
                   PROVE  \E g \in [1..(n + 1) -> Seq(S)] : Upto(g, n + 1)
        <3> HIDE DEF Upto
        <3> QED OBVIOUS
    <2>1. \E f \in [1..n -> Seq(S)] : Upto(f, n)
        BY <1>2, <2>a
    <2>2. PICK f \in [1..n -> Seq(S)] : Upto(f, n)
        BY <2>1
    <2>3. \A i \in 1..(n + 1) : seqs[i] \in Seq(S)
        BY <2>a
    <2> DEFINE last == IF n = 0 THEN seqs[1] ELSE f[n] \o seqs[n + 1]
               g == [i \in 1..(n + 1) |-> IF i <= n THEN f[i] ELSE last]
    <2>4. last \in Seq(S)
        BY <2>3, ConcatProperties
    <2> HIDE DEF last
    <2>5. g \in [1..(n + 1) -> Seq(S)]
        BY <2>4
    <2>6. /\ \A i \in 1..n : g[i] = f[i]
          /\ g[n + 1] = last
        OBVIOUS
    <2> HIDE DEF g
    <2>7. Upto(g, n + 1)
        <3> SUFFICES ASSUME NEW i \in 1..(n + 1)
                     PROVE  g[i] = IF i = 1 THEN seqs[i] ELSE g[i - 1] \o seqs[i]
            OBVIOUS
        <3>1. CASE i \in 1..n
            <4>1. i # 1 => i - 1 \in 1..n
                BY <3>1
            <4> QED BY <2>2, <2>6, <3>1, <4>1
        <3>2. CASE i = n + 1
            <4>1. n # 0 => i - 1 \in 1..n /\ i - 1 = n
                BY <3>2
            <4> QED BY <2>6, <3>2, <4>1 DEF last
        <3> QED BY <3>1, <3>2
    <2> QED BY <2>5, <2>7
<1>3. Nat \subseteq Good
    <2> HIDE DEF Good
    <2> QED BY <1>1, <1>2, SetInduction
<1>4. Len(seqs) \in Nat
    OBVIOUS
<1>5. \E f \in [1..Len(seqs) -> Seq(S)] : Upto(f, Len(seqs))
    <2> HIDE DEF Upto
    <2> QED BY <1>3, <1>4
<1> QED BY <1>5 DEF Flattens

Begins(s, t) ==
    Len(s) \in Nat /\ Len(t) \in Nat /\ Len(s) <= Len(t) /\ \A i \in 1..Len(s) : s[i] = t[i]
Agree(f, g, s) == \A i \in 1..Len(s) : f[i] = g[i]

\* There is only one such f, also for a longer sequence.
LEMMA FlattensUnique ==
    \A s, t, f, g : Begins(s, t) /\ Flattens(f, s) /\ Flattens(g, t) => Agree(f, g, s)
<1> SUFFICES ASSUME NEW s, NEW t, NEW f, NEW g, Begins(s, t), Flattens(f, s), Flattens(g, t)
             PROVE  \A i \in 1..Len(s) : f[i] = g[i]
    BY DEF Agree
<1> DEFINE Good == {n \in Nat : n \in 1..Len(s) => f[n] = g[n]}
<1>1. 0 \in Good /\ Len(s) \in Nat
    BY DEF Begins
<1>2. ASSUME NEW n \in Nat, n \in Good PROVE n + 1 \in Good
    <2>1. SUFFICES ASSUME n + 1 \in 1..Len(s) PROVE f[n + 1] = g[n + 1]
        OBVIOUS
    <2>2. n + 1 \in 1..Len(t) /\ s[n + 1] = t[n + 1] /\ (n + 1) - 1 = n
        BY <2>1 DEF Begins
    <2>3. n # 0 => f[n] = g[n]
        BY <1>2, <2>1
    <2>4. n = 0 <=> n + 1 = 1
        OBVIOUS
    <2>5. f[n + 1] = IF n + 1 = 1 THEN s[n + 1] ELSE f[(n + 1) - 1] \o s[n + 1]
        BY <2>1 DEF Flattens
    <2>6. g[n + 1] = IF n + 1 = 1 THEN t[n + 1] ELSE g[(n + 1) - 1] \o t[n + 1]
        BY <2>2 DEF Flattens
    <2> QED BY <2>2, <2>3, <2>4, <2>5, <2>6
<1>3. Nat \subseteq Good
    <2> HIDE DEF Good
    <2> QED BY <1>1, <1>2, SetInduction
<1> QED BY <1>3

\* FlattenSeq is the last of the concatenations.
LEMMA FlattenSeqIsLast ==
    ASSUME NEW S, NEW seqs \in Seq(Seq(S)), seqs # <<>>
    PROVE  \E f \in [1..Len(seqs) -> Seq(S)] : Flattens(f, seqs) /\ FlattenSeq(seqs) = f[Len(seqs)]
<1> DEFINE Body(f) == [i \in 1..Len(seqs) |-> IF i = 1 THEN seqs[i] ELSE f[i - 1] \o seqs[i]]
           F == CHOOSE f : f = Body(f)
<1>1. Len(seqs) \in Nat /\ Len(seqs) # 0
    OBVIOUS
<1>2. PICK f \in [1..Len(seqs) -> Seq(S)] : Flattens(f, seqs)
    BY FlattensExists
<1>3. f = Body(f)
    <2>1. \A i \in 1..Len(seqs) : Body(f)[i] = f[i]
        BY <1>2 DEF Flattens
    <2>2. f = [i \in 1..Len(seqs) |-> f[i]]
        OBVIOUS
    <2>3. Body(f) = [i \in 1..Len(seqs) |-> Body(f)[i]]
        OBVIOUS
    <2> HIDE DEF Body
    <2> QED BY <2>1, <2>2, <2>3
<1>4. F = Body(F)
    <2> HIDE DEF Body
    <2> QED BY <1>3
<1>5. Flattens(F, seqs)
    <2>1. \A i \in 1..Len(seqs) : Body(F)[i] = IF i = 1 THEN seqs[i] ELSE F[i - 1] \o seqs[i]
        OBVIOUS
    <2> HIDE DEF F, Body
    <2> QED BY <1>4, <2>1 DEF Flattens
<1>6. FlattenSeq(seqs) = F[Len(seqs)]
    BY <1>1 DEF FlattenSeq
<1>7. F[Len(seqs)] = f[Len(seqs)]
    <2> HIDE DEF F
    <2>1. Begins(seqs, seqs)
        BY <1>1 DEF Begins
    <2>2. Agree(F, f, seqs)
        BY <1>2, <1>5, <2>1, FlattensUnique
    <2> QED BY <1>1, <2>2 DEF Agree
<1> QED BY <1>2, <1>6, <1>7

\* FlattenSeq of sequences is a sequence; of none, the empty one; and of one
\* more, what there was followed by that one.
LEMMA FlattenSeqType ==
    ASSUME NEW S, NEW seqs \in Seq(Seq(S))
    PROVE  FlattenSeq(seqs) \in Seq(S)
<1>1. CASE seqs = <<>>
    BY <1>1 DEF FlattenSeq
<1>2. CASE seqs # <<>>
    <2>1. PICK f \in [1..Len(seqs) -> Seq(S)] : FlattenSeq(seqs) = f[Len(seqs)]
        BY <1>2, FlattenSeqIsLast
    <2>2. Len(seqs) \in 1..Len(seqs)
        BY <1>2
    <2> QED BY <2>1, <2>2
<1> QED BY <1>1, <1>2

LEMMA FlattenSeqEmpty == FlattenSeq(<<>>) = <<>>
BY DEF FlattenSeq

LEMMA FlattenSeqAppend ==
    ASSUME NEW S, NEW seqs \in Seq(Seq(S)), NEW x \in Seq(S)
    PROVE  FlattenSeq(Append(seqs, x)) = FlattenSeq(seqs) \o x
<1> DEFINE all == Append(seqs, x)
           n == Len(seqs)
<1>1. /\ all \in Seq(Seq(S)) /\ all # <<>> /\ Len(all) = n + 1 /\ n \in Nat
      /\ all[n + 1] = x /\ \A i \in 1..n : all[i] = seqs[i]
    BY AppendProperties
<1> HIDE DEF all
<1>2. PICK g \in [1..(n + 1) -> Seq(S)] : Flattens(g, all) /\ FlattenSeq(all) = g[n + 1]
    BY <1>1, FlattenSeqIsLast
<1>3. n + 1 \in 1..(n + 1) /\ (n + 1) - 1 = n /\ (n + 1 = 1 <=> n = 0)
    BY <1>1
<1>4. g[n + 1] = IF n = 0 THEN x ELSE g[n] \o x
    BY <1>1, <1>2, <1>3 DEF Flattens
<1>5. CASE n = 0
    <2>1. seqs = <<>> /\ <<>> \o x = x
        BY <1>5, ConcatEmptySeq
    <2> QED BY <1>2, <1>4, <1>5, <2>1, FlattenSeqEmpty DEF all
<1>6. CASE n # 0
    <2>1. PICK f \in [1..n -> Seq(S)] : Flattens(f, seqs) /\ FlattenSeq(seqs) = f[n]
        BY <1>6, FlattenSeqIsLast
    <2>2. Agree(f, g, seqs)
        <3>1. Begins(seqs, all)
            BY <1>1 DEF Begins
        <3> QED BY <1>2, <2>1, <3>1, FlattensUnique
    <2>3. f[n] = g[n]
        BY <1>1, <1>6, <2>2 DEF Agree
    <2> QED BY <1>2, <1>4, <1>6, <2>1, <2>3 DEF all
<1> QED BY <1>5, <1>6

\* FlattenSeq distributes over concatenation.
LEMMA FlattenSeqConcat ==
    ASSUME NEW S, NEW s \in Seq(Seq(S)), NEW t \in Seq(Seq(S))
    PROVE  FlattenSeq(s \o t) = FlattenSeq(s) \o FlattenSeq(t)
<1> DEFINE Holds(u) == FlattenSeq(s \o u) = FlattenSeq(s) \o FlattenSeq(u)
           Good == {n \in Nat : \A u \in Seq(Seq(S)) : Len(u) = n => Holds(u)}
<1>1. 0 \in Good
    <2> SUFFICES ASSUME NEW u \in Seq(Seq(S)), Len(u) = 0 PROVE Holds(u)
        OBVIOUS
    <2>1. u = <<>>
        OBVIOUS
    <2>2. s \o u = s
        BY <2>1, ConcatEmptySeq
    <2>3. FlattenSeq(s) \in Seq(S)
        BY FlattenSeqType
    <2>4. FlattenSeq(s) \o <<>> = FlattenSeq(s)
        BY <2>3, ConcatEmptySeq
    <2>5. FlattenSeq(u) = <<>>
        BY <2>1, FlattenSeqEmpty
    <2> QED BY <2>2, <2>4, <2>5
<1>2. ASSUME NEW n \in Nat, n \in Good PROVE n + 1 \in Good
    <2>a. SUFFICES ASSUME NEW u \in Seq(Seq(S)), Len(u) = n + 1 PROVE Holds(u)
        <3> HIDE DEF Holds
        <3> QED OBVIOUS
    <2>1. u # <<>>
        BY <2>a
    <2>2. PICK v \in Seq(Seq(S)), x \in Seq(S) : u = Append(v, x)
        BY <2>1, SequenceEmptyOrAppend
    <2>3. Len(v) = n
        BY <2>a, <2>2, AppendProperties
    <2>4. Holds(v)
        <3> HIDE DEF Holds
        <3> QED BY <1>2, <2>3
    <2>5. s \o u = Append(s \o v, x) /\ s \o v \in Seq(Seq(S))
        BY <2>2
    <2>6. FlattenSeq(s \o u) = FlattenSeq(s \o v) \o x
        BY <2>5, FlattenSeqAppend
    <2>7. FlattenSeq(u) = FlattenSeq(v) \o x
        BY <2>2, FlattenSeqAppend
    <2>8. FlattenSeq(s) \in Seq(S) /\ FlattenSeq(v) \in Seq(S)
        BY FlattenSeqType
    <2>9. (FlattenSeq(s) \o FlattenSeq(v)) \o x = FlattenSeq(s) \o (FlattenSeq(v) \o x)
        BY <2>8, ConcatAssociative
    <2> QED BY <2>4, <2>6, <2>7, <2>9
<1>3. Nat \subseteq Good
    <2> HIDE DEF Good
    <2> QED BY <1>1, <1>2, SetInduction
<1>4. Len(t) \in Nat /\ Len(t) \in Good
    BY <1>3
<1> QED
    <2> HIDE DEF Holds
    <2>1. Holds(t)
        BY <1>4
    <2> QED BY <2>1 DEF Holds

\* The first of several sequences comes first.
LEMMA FlattenSeqHead ==
    ASSUME NEW S, NEW seqs \in Seq(Seq(S)), seqs # <<>>
    PROVE  FlattenSeq(seqs) = Head(seqs) \o FlattenSeq(Tail(seqs))
<1> DEFINE one == <<Head(seqs)>>
           rest == Tail(seqs)
<1>1. one \in Seq(Seq(S)) /\ rest \in Seq(Seq(S)) /\ Head(seqs) \in Seq(S)
    OBVIOUS
<1>2. seqs = one \o rest
    OBVIOUS
<1>3. FlattenSeq(one) = Head(seqs)
    <2>1. one = Append(<<>>, Head(seqs)) /\ <<>> \in Seq(Seq(S))
        OBVIOUS
    <2>2. FlattenSeq(Append(<<>>, Head(seqs))) = FlattenSeq(<<>>) \o Head(seqs)
        BY <1>1, <2>1, FlattenSeqAppend
    <2>3. <<>> \o Head(seqs) = Head(seqs)
        BY <1>1, ConcatEmptySeq
    <2> QED BY <2>1, <2>2, <2>3, FlattenSeqEmpty
<1> HIDE DEF one, rest
<1>4. FlattenSeq(one \o rest) = FlattenSeq(one) \o FlattenSeq(rest)
    BY <1>1, FlattenSeqConcat
<1> QED BY <1>2, <1>3, <1>4 DEF rest
\* Where the part of seqs[i + 1] begins in the flattened sequence.
Offset(seqs, i) == Len(FlattenSeq(SubSeq(seqs, 1, i)))

LEMMA SubSeqIs ==
    ASSUME NEW S, NEW s \in Seq(S), NEW m \in 1..(Len(s) + 1), NEW n \in 0..Len(s), m <= n + 1
    PROVE  /\ SubSeq(s, m, n) \in Seq(S) /\ Len(SubSeq(s, m, n)) = n - m + 1
           /\ \A i \in 1..(n - m + 1) : SubSeq(s, m, n)[i] = s[m + i - 1]
<1>1. PICK l \in Nat : l = Len(s) /\ \A i \in 1..l : s[i] \in S
    OBVIOUS
<1>2. m \in Int /\ n \in Int /\ \A i \in m..n : s[i] \in S
    BY <1>1
<1>3. /\ SubSeq(s, m, n) \in Seq(S)
      /\ Len(SubSeq(s, m, n)) = IF m <= n THEN n - m + 1 ELSE 0
      /\ \A i \in 1..(n - m + 1) : SubSeq(s, m, n)[i] = s[m + i - 1]
    BY <1>2, SubSeqProperties
<1>4. (IF m <= n THEN n - m + 1 ELSE 0) = n - m + 1
    BY <1>1
<1> QED BY <1>3, <1>4, Zenon

LEMMA SubSeqSplit ==
    ASSUME NEW S, NEW s \in Seq(S), NEW i \in 1..Len(s)
    PROVE  /\ SubSeq(s, 1, i - 1) \in Seq(S) /\ SubSeq(s, 1, i) \in Seq(S)
           /\ SubSeq(s, i + 1, Len(s)) \in Seq(S)
           /\ SubSeq(s, 1, i) = Append(SubSeq(s, 1, i - 1), s[i])
           /\ s = SubSeq(s, 1, i) \o SubSeq(s, i + 1, Len(s))
<1>1. Len(s) \in Nat /\ i \in Nat /\ \A k \in 1..Len(s) : s[k] \in S
    OBVIOUS
<1>2. PICK n \in Nat : n = Len(s)
    BY <1>1
<1>3. PICK pre \in Seq(S) :
        pre = SubSeq(s, 1, i - 1) /\ Len(pre) = i - 1 /\ \A k \in 1..(i - 1) : pre[k] = s[k]
    <2>1. /\ SubSeq(s, 1, i - 1) \in Seq(S)
          /\ Len(SubSeq(s, 1, i - 1)) = IF 1 <= i - 1 THEN (i - 1) - 1 + 1 ELSE 0
          /\ \A k \in 1..((i - 1) - 1 + 1) : SubSeq(s, 1, i - 1)[k] = s[1 + k - 1]
        <3>1. 1 \in Int /\ i - 1 \in Int /\ \A k \in 1..(i - 1) : s[k] \in S
            BY <1>1
        <3> QED BY <3>1, SubSeqProperties
    <2>2. \A k \in 1..(i - 1) : k \in 1..((i - 1) - 1 + 1) /\ 1 + k - 1 = k
        BY <1>1
    <2>3. \A k \in 1..(i - 1) : SubSeq(s, 1, i - 1)[k] = s[k]
        BY <2>1, <2>2
    <2>4. Len(SubSeq(s, 1, i - 1)) = i - 1 /\ SubSeq(s, 1, i - 1) \in Seq(S)
        BY <1>1, <2>1
    <2> QED BY <2>3, <2>4, Zenon
<1>4. PICK upto \in Seq(S) :
        upto = SubSeq(s, 1, i) /\ Len(upto) = i /\ \A k \in 1..i : upto[k] = s[k]
    <2>1. /\ SubSeq(s, 1, i) \in Seq(S)
          /\ Len(SubSeq(s, 1, i)) = IF 1 <= i THEN i - 1 + 1 ELSE 0
          /\ \A k \in 1..(i - 1 + 1) : SubSeq(s, 1, i)[k] = s[1 + k - 1]
        <3>1. 1 \in Int /\ i \in Int /\ \A k \in 1..i : s[k] \in S
            BY <1>1
        <3> QED BY <3>1, SubSeqProperties
    <2>2. \A k \in 1..i : k \in 1..(i - 1 + 1) /\ 1 + k - 1 = k
        BY <1>1
    <2>3. \A k \in 1..i : SubSeq(s, 1, i)[k] = s[k]
        BY <2>1, <2>2
    <2>4. Len(SubSeq(s, 1, i)) = i /\ SubSeq(s, 1, i) \in Seq(S)
        BY <1>1, <2>1
    <2> QED BY <2>3, <2>4, Zenon
<1>5. PICK post \in Seq(S) :
        post = SubSeq(s, i + 1, n) /\ Len(post) = n - i /\ \A k \in 1..(n - i) : post[k] = s[i + k]
    <2>1. /\ SubSeq(s, i + 1, n) \in Seq(S)
          /\ Len(SubSeq(s, i + 1, n)) = IF i + 1 <= n THEN n - (i + 1) + 1 ELSE 0
          /\ \A k \in 1..(n - (i + 1) + 1) : SubSeq(s, i + 1, n)[k] = s[(i + 1) + k - 1]
        <3>1. i + 1 \in Int /\ n \in Int /\ \A k \in (i + 1)..n : s[k] \in S
            BY <1>1, <1>2
        <3> QED BY <3>1, SubSeqProperties
    <2>2. \A k \in 1..(n - i) : k \in 1..(n - (i + 1) + 1) /\ (i + 1) + k - 1 = i + k
        BY <1>1
    <2>3. \A k \in 1..(n - i) : SubSeq(s, i + 1, n)[k] = s[i + k]
        BY <2>1, <2>2
    <2>4. Len(SubSeq(s, i + 1, n)) = n - i /\ SubSeq(s, i + 1, n) \in Seq(S)
        BY <1>1, <1>2, <2>1
    <2> QED BY <2>3, <2>4, Zenon
<1>6. upto = Append(pre, s[i])
    <2>1. PICK x \in S : x = s[i]
        BY <1>1
    <2>2. Len(upto) = Len(pre) + 1 /\ upto[Len(pre) + 1] = x /\ \A k \in 1..Len(pre) : upto[k] = pre[k]
        BY <1>1, <1>3, <1>4, <2>1
    <2> QED BY <2>1, <2>2, IsAppend
<1>7. s = upto \o post
    <2>1. Len(s) = Len(upto) + Len(post)
        BY <1>1, <1>2, <1>4, <1>5
    <2>2. ASSUME NEW k \in 1..Len(s)
          PROVE  s[k] = IF k <= Len(upto) THEN upto[k] ELSE post[k - Len(upto)]
        <3>1. CASE k <= i
            BY <1>1, <1>4, <3>1
        <3>2. CASE ~(k <= i)
            <4>1. k - i \in 1..(n - i) /\ i + (k - i) = k
                BY <1>1, <1>2, <3>2
            <4>2. post[k - i] = s[k]
                BY <1>5, <4>1
            <4> QED BY <1>4, <3>2, <4>2
        <3> QED BY <3>1, <3>2
    <2> QED BY <2>1, <2>2, IsConcat
<1> QED BY <1>2, <1>3, <1>4, <1>5, <1>6, <1>7

LEMMA FlattenSeqOffsets ==
    ASSUME NEW S, NEW seqs \in Seq(Seq(S))
    PROVE  /\ Offset(seqs, 0) = 0 /\ Offset(seqs, Len(seqs)) = Len(FlattenSeq(seqs))
           /\ \A i \in 1..Len(seqs) :
                /\ Offset(seqs, i - 1) \in Nat /\ Offset(seqs, i) \in Nat /\ Len(seqs[i]) \in Nat
                /\ Offset(seqs, i) = Offset(seqs, i - 1) + Len(seqs[i])
                /\ Offset(seqs, i) <= Len(FlattenSeq(seqs))
                /\ \A j \in 1..Len(seqs[i]) : FlattenSeq(seqs)[Offset(seqs, i - 1) + j] = seqs[i][j]
<1>1. Offset(seqs, 0) = 0
    <2>1. SubSeq(seqs, 1, 0) = <<>>
        BY SubSeqEmpty
    <2>2. Offset(seqs, 0) = Len(<<>>)
        BY <2>1, FlattenSeqEmpty, Zenon DEF Offset
    <2> QED BY <2>2
<1>2. SubSeq(seqs, 1, Len(seqs)) = seqs
    <2> DEFINE T == Seq(S)
    <2> HIDE DEF T
    <2>1. seqs \in Seq(T)
        BY DEF T
    <2> QED BY <2>1
<1>3. ASSUME NEW i \in 1..Len(seqs)
      PROVE  /\ Offset(seqs, i - 1) \in Nat /\ Offset(seqs, i) \in Nat /\ Len(seqs[i]) \in Nat
             /\ Offset(seqs, i) = Offset(seqs, i - 1) + Len(seqs[i])
             /\ Offset(seqs, i) <= Len(FlattenSeq(seqs))
             /\ \A j \in 1..Len(seqs[i]) : FlattenSeq(seqs)[Offset(seqs, i - 1) + j] = seqs[i][j]
    <2>1. PICK pre \in Seq(Seq(S)), upto \in Seq(Seq(S)), post \in Seq(Seq(S)) :
            /\ pre = SubSeq(seqs, 1, i - 1) /\ upto = SubSeq(seqs, 1, i)
            /\ upto = Append(pre, seqs[i]) /\ seqs = upto \o post
        <3> DEFINE T == Seq(S)
        <3> HIDE DEF T
        <3>1. seqs \in Seq(T)
            BY DEF T
        <3>2. /\ SubSeq(seqs, 1, i - 1) \in Seq(T) /\ SubSeq(seqs, 1, i) \in Seq(T)
              /\ SubSeq(seqs, i + 1, Len(seqs)) \in Seq(T)
              /\ SubSeq(seqs, 1, i) = Append(SubSeq(seqs, 1, i - 1), seqs[i])
              /\ seqs = SubSeq(seqs, 1, i) \o SubSeq(seqs, i + 1, Len(seqs))
            BY <3>1, SubSeqSplit
        <3> QED BY <3>2, Zenon DEF T
    <2>2. PICK x \in Seq(S) : x = seqs[i]
        OBVIOUS
    <2>3. PICK a \in Seq(S), b \in Seq(S), u \in Seq(S), w \in Seq(S) :
            a = FlattenSeq(pre) /\ b = FlattenSeq(post) /\ u = FlattenSeq(upto) /\ w = FlattenSeq(seqs)
        BY FlattenSeqType
    <2>4. u = a \o x
        BY <2>1, <2>2, <2>3, FlattenSeqAppend
    <2>5. w = u \o b
        BY <2>1, <2>3, FlattenSeqConcat
    <2>6. Offset(seqs, i - 1) = Len(a) /\ Offset(seqs, i) = Len(u)
        BY <2>1, <2>3 DEF Offset
    <2>7. /\ Len(u) = Len(a) + Len(x) /\ Len(a) \in Nat /\ Len(x) \in Nat /\ Len(u) \in Nat /\ Len(u) <= Len(w)
          /\ \A j \in 1..Len(x) : w[Len(a) + j] = x[j]
        BY <2>4, <2>5
    <2> QED BY <2>2, <2>3, <2>6, <2>7
<1> QED BY <1>1, <1>2, <1>3 DEF Offset


\* The offsets of a flattened sequence ascend.
LEMMA OffsetsAscend ==
    ASSUME NEW S, NEW seqs \in Seq(Seq(S)), NEW i \in 0..Len(seqs), NEW k \in 0..Len(seqs), i <= k
    PROVE  Offset(seqs, i) \in Nat /\ Offset(seqs, k) \in Nat /\ Offset(seqs, i) <= Offset(seqs, k)
<1>0. PICK n \in Nat : n = Len(seqs)
    OBVIOUS
<1>1. /\ Offset(seqs, 0) = 0
      /\ \A c \in 1..n : /\ Offset(seqs, c - 1) \in Nat /\ Offset(seqs, c) \in Nat /\ Len(seqs[c]) \in Nat
                         /\ Offset(seqs, c) = Offset(seqs, c - 1) + Len(seqs[c])
    BY <1>0, FlattenSeqOffsets
<1>2. \A c \in 0..n : Offset(seqs, c) \in Nat
    <2> TAKE c \in 0..n
    <2>1. c = 0 \/ c \in 1..n
        OBVIOUS
    <2> QED BY <1>1, <2>1
<1> DEFINE Good == {d \in Nat : i + d <= n => Offset(seqs, i) <= Offset(seqs, i + d)}
<1>3. 0 \in Good
    BY <1>0, <1>2
<1>4. ASSUME NEW d \in Nat, d \in Good PROVE d + 1 \in Good
    <2> SUFFICES ASSUME i + (d + 1) <= n PROVE Offset(seqs, i) <= Offset(seqs, i + (d + 1))
        OBVIOUS
    <2>1. PICK c \in 1..n : c = i + (d + 1) /\ c - 1 = i + d
        <3>1. i \in 0..n
            BY <1>0
        <3>2. i + (d + 1) \in 1..n /\ (i + (d + 1)) - 1 = i + d
            BY <3>1
        <3> QED BY <3>2
    <2>2. Offset(seqs, i) <= Offset(seqs, c - 1)
        BY <1>4, <2>1
    <2>3. PICK a \in Nat, b \in Nat, m \in Nat, z \in Nat :
            /\ a = Offset(seqs, c - 1) /\ b = Offset(seqs, c) /\ m = Len(seqs[c]) /\ z = Offset(seqs, i)
            /\ b = a + m
        <3>1. i \in 0..n
            BY <1>0
        <3>2. Offset(seqs, i) \in Nat
            BY <1>2, <3>1, Zenon
        <3>3. /\ Offset(seqs, c - 1) \in Nat /\ Offset(seqs, c) \in Nat /\ Len(seqs[c]) \in Nat
              /\ Offset(seqs, c) = Offset(seqs, c - 1) + Len(seqs[c])
            BY <1>1, Zenon
        <3> QED BY <3>2, <3>3, Zenon
    <2>4. z <= b
        BY <2>2, <2>3
    <2> QED BY <2>1, <2>3, <2>4
<1>5. Nat \subseteq Good
    <2> HIDE DEF Good
    <2> QED BY <1>3, <1>4, SetInduction
<1>6. k - i \in Nat /\ i + (k - i) = k /\ k <= n
    BY <1>0
<1>7. k - i \in Good
    <2> HIDE DEF Good
    <2> QED BY <1>5, <1>6
<1>8. Offset(seqs, i) <= Offset(seqs, k)
    BY <1>6, <1>7
<1> QED BY <1>0, <1>2, <1>8

\* Every position of a flattened sequence is a position of one of its parts.
LEMMA FlattenSeqCovers ==
    ASSUME NEW S, NEW seqs \in Seq(Seq(S)), NEW e \in 1..Len(FlattenSeq(seqs))
    PROVE  \E i \in 1..Len(seqs) : \E j \in 1..Len(seqs[i]) : e = Offset(seqs, i - 1) + j
<1>0. PICK n \in Nat, l \in Nat : n = Len(seqs) /\ l = Len(FlattenSeq(seqs))
    BY FlattenSeqType
<1>1. /\ Offset(seqs, 0) = 0 /\ Offset(seqs, n) = l
      /\ \A c \in 1..n : /\ Offset(seqs, c - 1) \in Nat /\ Offset(seqs, c) \in Nat /\ Len(seqs[c]) \in Nat
                         /\ Offset(seqs, c) = Offset(seqs, c - 1) + Len(seqs[c])
    BY <1>0, FlattenSeqOffsets
<1> DEFINE T == {c \in 1..n : Offset(seqs, c - 1) < e}
<1>2. \E i \in T : \A c \in T : c <= i
    <2>1. e \in 1..l
        BY <1>0
    <2>2. n # 0
        BY <1>1, <2>1
    <2>3. 1 \in T
        <3>1. 1 \in 1..n /\ 1 - 1 = 0
            BY <2>2
        <3> QED BY <1>1, <2>1, <3>1
    <2>4. T \in SUBSET (1..n) /\ T # {}
        BY <2>3
    <2> HIDE DEF T
    <2> QED BY <2>4, LastExists
<1>3. PICK i \in 1..n : Offset(seqs, i - 1) < e /\ \A c \in T : c <= i
    BY <1>2
<1>4. PICK a \in Nat, b \in Nat, m \in Nat :
        a = Offset(seqs, i - 1) /\ b = Offset(seqs, i) /\ m = Len(seqs[i]) /\ b = a + m
    <2>1. /\ Offset(seqs, i - 1) \in Nat /\ Offset(seqs, i) \in Nat /\ Len(seqs[i]) \in Nat
          /\ Offset(seqs, i) = Offset(seqs, i - 1) + Len(seqs[i])
        BY <1>1, Zenon
    <2> QED BY <2>1, Zenon
<1>5. e <= b
    <2>1. CASE i = n
        BY <1>0, <1>1, <1>4, <2>1
    <2>2. CASE i # n
        <3>1. i + 1 \in 1..n /\ (i + 1) - 1 = i
            BY <2>2
        <3>2. i + 1 \notin T
            BY <1>3
        <3>3. ~(b < e)
            BY <1>4, <3>1, <3>2
        <3> QED BY <3>3, <1>4
    <2> QED BY <2>1, <2>2
<1>6. e - a \in 1..m /\ e = a + (e - a)
    BY <1>3, <1>4, <1>5
<1> QED BY <1>0, <1>4, <1>6
-----------------------------------------------------------------------------
(* Orders *)

\* f lists the set S in ascending order.
InOrderOf(f, S) ==
    /\ f \in [1..Cardinality(S) -> S] /\ Cardinality(S) \in Nat
    /\ \A x \in S : \E i \in 1..Cardinality(S) : f[i] = x
    /\ \A i, j \in 1..Cardinality(S) : i < j => f[i] < f[j]

LEMMA SubsetFinite ==
    ASSUME NEW n \in Nat, NEW T \in SUBSET (1..n)
    PROVE  IsFiniteSet(T) /\ Cardinality(T) \in Nat
<1>1. n \in Int /\ 1 \in Int
    OBVIOUS
<1>2. IsFiniteSet(1..n)
    BY <1>1, FS_Interval
<1> QED BY <1>2, FS_Subset, FS_CardinalityType

LEMMA OrderExists ==
    ASSUME NEW n \in Nat, NEW S \in SUBSET (1..n)
    PROVE  \E f : InOrderOf(f, S)
<1> DEFINE Good == {k \in Nat : \A T \in SUBSET (1..n) : Cardinality(T) = k => \E f : InOrderOf(f, T)}
<1>1. 0 \in Good
    <2> SUFFICES ASSUME NEW T \in SUBSET (1..n), Cardinality(T) = 0 PROVE \E f : InOrderOf(f, T)
        OBVIOUS
    <2>1. T = {}
        BY SubsetFinite, FS_EmptySet
    <2>2. [i \in 1..0 |-> 0] \in [1..0 -> T] /\ 1..0 = {}
        OBVIOUS
    <2>3. InOrderOf([i \in 1..0 |-> 0], T)
        BY <2>1, <2>2 DEF InOrderOf
    <2> QED BY <2>3
<1>2. ASSUME NEW k \in Nat, k \in Good PROVE k + 1 \in Good
    <2> SUFFICES ASSUME NEW T \in SUBSET (1..n), Cardinality(T) = k + 1 PROVE \E f : InOrderOf(f, T)
        OBVIOUS
    <2>1. IsFiniteSet(T) /\ T # {}
        <3>1. k + 1 # 0
            OBVIOUS
        <3> QED BY <3>1, SubsetFinite, FS_EmptySet
    <2>2. PICK m \in T : \A j \in T : j <= m
        BY <2>1, LastExists
    <2> DEFINE U == T \ {m}
    <2>3. U \in SUBSET (1..n) /\ Cardinality(U) = k
        <3>1. Cardinality(U) = Cardinality(T) - 1
            BY <2>1, FS_RemoveElement
        <3> QED BY <3>1
    <2>4. PICK f : InOrderOf(f, U)
        <3> HIDE DEF U
        <3> QED BY <1>2, <2>3
    <2>5. /\ f \in [1..k -> U] /\ \A x \in U : \E i \in 1..k : f[i] = x
          /\ \A i, j \in 1..k : i < j => f[i] < f[j]
        <3> HIDE DEF U
        <3> QED BY <2>3, <2>4 DEF InOrderOf
    <2> DEFINE g == [i \in 1..(k + 1) |-> IF i <= k THEN f[i] ELSE m]
    <2>6. g \in [1..(k + 1) -> T]
        BY <2>5
    <2>7. \A x \in T : \E i \in 1..(k + 1) : g[i] = x
        <3> TAKE x \in T
        <3>1. CASE x = m
            <4>1. k + 1 \in 1..(k + 1) /\ g[k + 1] = m
                OBVIOUS
            <4> QED BY <3>1, <4>1
        <3>2. CASE x # m
            <4>1. PICK i \in 1..k : f[i] = x
                BY <2>5, <3>2
            <4>2. i \in 1..(k + 1) /\ g[i] = f[i]
                OBVIOUS
            <4> QED BY <4>1, <4>2
        <3> QED BY <3>1, <3>2
    <2>8. \A i, j \in 1..(k + 1) : i < j => g[i] < g[j]
        <3> SUFFICES ASSUME NEW i \in 1..(k + 1), NEW j \in 1..(k + 1), i < j PROVE g[i] < g[j]
            OBVIOUS
        <3>1. i \in 1..k /\ g[i] = f[i] /\ f[i] \in U
            BY <2>5
        <3>2. CASE j <= k
            <4>1. j \in 1..k /\ g[j] = f[j]
                BY <3>2
            <4> QED BY <2>5, <3>1, <4>1
        <3>3. CASE ~(j <= k)
            <4>1. g[j] = m
                BY <3>3
            <4>2. f[i] \in T /\ f[i] # m /\ m \in T
                BY <3>1
            <4>3. f[i] <= m /\ f[i] \in Int /\ m \in Int
                <5>1. \A x \in T : x \in Int
                    OBVIOUS
                <5> QED BY <2>2, <4>2, <5>1, Zenon
            <4> QED BY <3>1, <4>1, <4>2, <4>3
        <3> QED BY <3>2, <3>3
    <2>9. InOrderOf(g, T)
        <3> HIDE DEF g, U
        <3> QED BY <2>6, <2>7, <2>8 DEF InOrderOf
    <2> QED BY <2>9
<1>3. Nat \subseteq Good
    <2> HIDE DEF Good
    <2> QED BY <1>1, <1>2, SetInduction
<1>4. Cardinality(S) \in Good
    <2>1. Cardinality(S) \in Nat
        BY SubsetFinite
    <2> HIDE DEF Good
    <2> QED BY <1>3, <2>1
<1> QED BY <1>4

LEMMA InOrderIs ==
    ASSUME NEW n \in Nat, NEW S \in SUBSET (1..n)
    PROVE  InOrderOf(InOrder(S), S)
<1> DEFINE P(f) == S \subseteq {f[i] : i \in DOMAIN f} /\ \A i, j \in DOMAIN f : i < j => f[i] < f[j]
<1>1. PICK g : InOrderOf(g, S)
    BY OrderExists
<1>2. g \in [1..Cardinality(S) -> S] /\ P(g)
    BY <1>1 DEF InOrderOf
<1>3. InOrder(S) \in [1..Cardinality(S) -> S] /\ P(InOrder(S))
    BY <1>2 DEF InOrder
<1>4. Cardinality(S) \in Nat
    BY SubsetFinite
<1> QED BY <1>3, <1>4 DEF InOrderOf

\* f is a stable sort by the keys.
Sorts(f, keys) ==
    /\ f \in [1..Len(keys) -> 1..Len(keys)]
    /\ \A i \in 1..Len(keys) : \E p \in 1..Len(keys) : f[p] = i
    /\ \A p, q \in 1..Len(keys) :
         p < q => keys[f[p]] < keys[f[q]] \/ (keys[f[p]] = keys[f[q]] /\ f[p] < f[q])

LEMMA StableOrderIs ==
    ASSUME NEW keys \in Seq(Int)
    PROVE  Sorts(StableOrder(keys), keys)
<1> DEFINE n == Len(keys)
           Less(j, i) == keys[j] < keys[i] \/ (keys[j] = keys[i] /\ j < i)
           Below(i) == {j \in 1..n : Less(j, i)}
           rank == [i \in 1..n |-> Cardinality(Below(i))]
<1>0. n \in Nat /\ DOMAIN keys = 1..n /\ \A i \in 1..n : keys[i] \in Int
    OBVIOUS
<1> HIDE DEF n
<1>1. /\ \A i \in 1..n : ~Less(i, i)
      /\ \A i, j \in 1..n : i # j => Less(i, j) \/ Less(j, i)
      /\ \A i, j, k \in 1..n : Less(i, j) /\ Less(j, k) => Less(i, k)
    BY <1>0
<1> HIDE DEF Less
<1>2. \A i \in 1..n : IsFiniteSet(Below(i)) /\ Cardinality(Below(i)) \in Nat
    <2> TAKE i \in 1..n
    <2>1. Below(i) \in SUBSET (1..n)
        OBVIOUS
    <2> HIDE DEF Below
    <2> QED BY <1>0, <2>1, SubsetFinite
<1>3. ASSUME NEW i \in 1..n, NEW j \in 1..n, Less(i, j) PROVE rank[i] < rank[j]
    <2>1. Below(i) \subseteq Below(j)
        BY <1>1, <1>3
    <2>2. i \in Below(j) /\ i \notin Below(i)
        BY <1>1, <1>3
    <2>3. rank[i] = Cardinality(Below(i)) /\ rank[j] = Cardinality(Below(j))
        OBVIOUS
    <2>4. IsFiniteSet(Below(j)) /\ Below(i) \in SUBSET Below(j)
        BY <1>2, <2>1
    <2> HIDE DEF Below, rank
    <2>5. Cardinality(Below(i)) <= Cardinality(Below(j)) /\ Cardinality(Below(i)) # Cardinality(Below(j))
        BY <2>2, <2>4, FS_Subset
    <2>6. Cardinality(Below(i)) \in Nat /\ Cardinality(Below(j)) \in Nat
        BY <1>2
    <2> QED BY <2>3, <2>5, <2>6
<1>4. rank \in [1..n -> 0..(n - 1)]
    <2> SUFFICES ASSUME NEW i \in 1..n PROVE Cardinality(Below(i)) \in 0..(n - 1)
        OBVIOUS
    <2>1. Below(i) \in SUBSET (1..n) /\ i \notin Below(i)
        BY <1>1
    <2>2. IsFiniteSet(1..n) /\ Cardinality(1..n) = n
        <3>1. 1 \in Int /\ n \in Int /\ (IF 1 > n THEN 0 ELSE n - 1 + 1) = n
            BY <1>0
        <3> QED BY <3>1, FS_Interval
    <2>3. Cardinality(Below(i)) \in Nat
        BY <1>2
    <2> HIDE DEF Below
    <2>4. Cardinality(Below(i)) <= n /\ Cardinality(Below(i)) # n
        BY <2>1, <2>2, FS_Subset
    <2> QED BY <1>0, <2>3, <2>4
<1> HIDE DEF Below
<1>5. \A i, j \in 1..n : rank[i] = rank[j] => i = j
    <2> SUFFICES ASSUME NEW i \in 1..n, NEW j \in 1..n, rank[i] = rank[j], i # j PROVE FALSE
        OBVIOUS
    <2>1. rank[i] < rank[j] \/ rank[j] < rank[i]
        BY <1>1, <1>3
    <2>2. rank[i] \in Int /\ rank[j] \in Int
        BY <1>4
    <2> HIDE DEF rank
    <2> QED BY <2>1, <2>2
<1>6. \A r \in 0..(n - 1) : \E i \in 1..n : rank[i] = r
    <2>1. rank \in Injection(1..n, 0..(n - 1))
        <3> HIDE DEF rank
        <3> QED BY <1>4, <1>5 DEF Injection, IsInjective
    <2>2. IsFiniteSet(0..(n - 1)) /\ Cardinality(0..(n - 1)) = n /\ Cardinality(1..n) = n
        <3>1. /\ 1 \in Int /\ n \in Int /\ (IF 1 > n THEN 0 ELSE n - 1 + 1) = n
              /\ 0 \in Int /\ n - 1 \in Int /\ (IF 0 > n - 1 THEN 0 ELSE (n - 1) - 0 + 1) = n
            BY <1>0
        <3> QED BY <3>1, FS_Interval
    <2>3. rank \in Surjection(1..n, 0..(n - 1))
        <3> HIDE DEF rank
        <3> QED BY <2>1, <2>2, FS_Injection
    <2> HIDE DEF rank
    <2> QED BY <2>3 DEF Surjection
<1> DEFINE f == StableOrder(keys)
<1>7. f = [p \in 1..n |-> CHOOSE i \in 1..n : rank[i] = p - 1]
    <2>1. f = [p \in 1..n |-> CHOOSE i \in 1..n : Cardinality(Below(i)) = p - 1]
        BY <1>0 DEF StableOrder, Below, Less
    <2>2. \A i \in 1..n : rank[i] = Cardinality(Below(i))
        OBVIOUS
    <2> HIDE DEF f, rank
    <2> QED BY <2>1, <2>2
<1> HIDE DEF rank
<1>8. \A p \in 1..n : f[p] \in 1..n /\ rank[f[p]] = p - 1
    <2> TAKE p \in 1..n
    <2>1. p - 1 \in 0..(n - 1)
        BY <1>0
    <2> HIDE DEF f
    <2> QED BY <1>6, <1>7, <2>1
<1> HIDE DEF f
<1>9. f \in [1..n -> 1..n]
    BY <1>7, <1>8
<1>10. \A i \in 1..n : \E p \in 1..n : f[p] = i
    <2> TAKE i \in 1..n
    <2>1. PICK p \in 1..n : rank[i] = p - 1
        <3>1. rank[i] \in 0..(n - 1)
            BY <1>4
        <3>2. rank[i] + 1 \in 1..n /\ (rank[i] + 1) - 1 = rank[i]
            BY <1>0, <3>1
        <3> QED BY <3>2
    <2>2. f[p] = i
        BY <1>5, <1>8, <2>1
    <2> QED BY <2>2
<1>11. \A p, q \in 1..n : p < q => Less(f[p], f[q])
    <2> SUFFICES ASSUME NEW p \in 1..n, NEW q \in 1..n, p < q, ~Less(f[p], f[q]) PROVE FALSE
        OBVIOUS
    <2>1. f[p] \in 1..n /\ f[q] \in 1..n /\ rank[f[p]] = p - 1 /\ rank[f[q]] = q - 1
        BY <1>8
    <2>2. f[p] # f[q]
        BY <2>1
    <2>3. rank[f[q]] < rank[f[p]]
        BY <1>1, <1>3, <2>1, <2>2
    <2> QED BY <2>1, <2>3
<1> QED BY <1>9, <1>10, <1>11 DEF Sorts, Less, f, n

-----------------------------------------------------------------------------
(* The database writes leave behind *)

Keys(w) == {w[i].key : i \in 1..Len(w)}

\* i is the last write of its key.
LastAt(w, i) == \A j \in 1..Len(w) : w[j].key = w[i].key => j <= i

LEMMA LastWriteIs ==
    ASSUME NEW S, NEW w \in Seq(S)
    PROVE  /\ DOMAIN LastWrite(w) = Keys(w)
           /\ LastWrite(w) = [k \in Keys(w) |-> LastWrite(w)[k]]
           /\ \A i \in 1..Len(w) : LastAt(w, i) => LastWrite(w)[w[i].key] = w[i].val
<1> DEFINE Same(k) == {i \in 1..Len(w) : w[i].key = k}
           V(k) == w[CHOOSE i \in Same(k) : \A j \in Same(k) : j <= i].val
<1>1. DOMAIN w = 1..Len(w) /\ Len(w) \in Nat
    OBVIOUS
<1>2. LastWrite(w) = [k \in Keys(w) |-> V(k)]
    BY <1>1 DEF LastWrite, Keys
<1>3. ASSUME NEW i \in 1..Len(w), LastAt(w, i) PROVE V(w[i].key) = w[i].val
    <2>1. i \in Same(w[i].key) /\ \A j \in Same(w[i].key) : j <= i
        BY <1>3 DEF LastAt
    <2>2. ASSUME NEW x \in Same(w[i].key), \A j \in Same(w[i].key) : j <= x PROVE x = i
        <3>1. i <= x /\ x <= i /\ x \in Int /\ i \in Int
            BY <2>1, <2>2
        <3> QED BY <3>1
    <2> QED BY <2>1, <2>2
<1>4. \A i \in 1..Len(w) : w[i].key \in Keys(w)
    BY DEF Keys
<1> HIDE DEF V
<1> QED BY <1>2, <1>3, <1>4

\* Two sequences of writes with the same keys and, per key, the same last value.
LEMMA SameDatabase ==
    ASSUME NEW S, NEW v \in Seq(S), NEW w \in Seq(S), Keys(v) = Keys(w),
           \A k \in Keys(w) : LastWrite(v)[k] = LastWrite(w)[k]
    PROVE  LastWrite(v) = LastWrite(w)
<1>1. LastWrite(v) = [k \in Keys(w) |-> LastWrite(v)[k]]
    BY LastWriteIs
<1>2. LastWrite(w) = [k \in Keys(w) |-> LastWrite(w)[k]]
    BY LastWriteIs
<1> QED BY <1>1, <1>2

\* A write of a row of G; the last one of its key.
Spot(G, i, j) == i \in 1..Len(G) /\ j \in 1..Len(G[i])
Final(G, i, j) ==
    /\ Spot(G, i, j)
    /\ \A a, b : Spot(G, a, b) /\ G[a][b].key = G[i][j].key => a < i \/ (a = i /\ b <= j)

\* Where it is among all writes.
LEMMA CellPlace ==
    ASSUME NEW S, NEW G \in Seq(Seq(S)), NEW i, NEW j, Spot(G, i, j)
    PROVE  /\ Offset(G, i - 1) \in Nat /\ j \in Nat
           /\ Offset(G, i - 1) + j \in 1..Len(FlattenSeq(G))
           /\ FlattenSeq(G)[Offset(G, i - 1) + j] = G[i][j]
<1>1. PICK l \in Nat : l = Len(FlattenSeq(G))
    BY FlattenSeqType
<1>2. i \in 1..Len(G) /\ j \in 1..Len(G[i])
    BY DEF Spot
<1>3. /\ Offset(G, i - 1) \in Nat /\ Offset(G, i) \in Nat /\ Len(G[i]) \in Nat
      /\ Offset(G, i) = Offset(G, i - 1) + Len(G[i]) /\ Offset(G, i) <= l
      /\ \A c \in 1..Len(G[i]) : FlattenSeq(G)[Offset(G, i - 1) + c] = G[i][c]
    BY <1>1, <1>2, FlattenSeqOffsets
<1>4. PICK o \in Nat, u \in Nat, m \in Nat : o = Offset(G, i - 1) /\ u = Offset(G, i) /\ m = Len(G[i])
    BY <1>3, Zenon
<1>5. u = o + m /\ u <= l /\ j \in 1..m
    BY <1>2, <1>3, <1>4, Zenon
<1>6. o + j \in 1..l /\ j \in Nat
    BY <1>5
<1> QED BY <1>1, <1>2, <1>3, <1>4, <1>6, Zenon

LEMMA CellOrder ==
    ASSUME NEW S, NEW G \in Seq(Seq(S)), NEW i, NEW j, Spot(G, i, j), NEW a, NEW b, Spot(G, a, b), a < i
    PROVE  Offset(G, a - 1) + b < Offset(G, i - 1) + j
<1>1. i \in 1..Len(G) /\ j \in 1..Len(G[i]) /\ a \in 1..Len(G) /\ b \in 1..Len(G[a]) /\ Len(G) \in Nat
    BY DEF Spot
<1>2. a \in 0..Len(G) /\ i - 1 \in 0..Len(G) /\ a <= i - 1
    BY <1>1
<1>3. Offset(G, a) \in Nat /\ Offset(G, i - 1) \in Nat /\ Offset(G, a) <= Offset(G, i - 1)
    BY <1>2, OffsetsAscend
<1>4. /\ Offset(G, a - 1) \in Nat /\ Len(G[a]) \in Nat /\ Offset(G, a) = Offset(G, a - 1) + Len(G[a])
    BY <1>1, FlattenSeqOffsets
<1>5. PICK o \in Nat, u \in Nat, m \in Nat, v \in Nat :
        o = Offset(G, a - 1) /\ u = Offset(G, a) /\ m = Len(G[a]) /\ v = Offset(G, i - 1)
    BY <1>3, <1>4, Zenon
<1>6. u = o + m /\ u <= v /\ b \in 1..m
    BY <1>1, <1>3, <1>4, <1>5, Zenon
<1>7. j \in Nat /\ j >= 1
    <2>1. PICK c \in Nat : c = Len(G[i])
        BY <1>1, FlattenSeqOffsets
    <2>2. j \in 1..c
        BY <1>1, <2>1, Zenon
    <2> QED BY <2>2
<1>8. o + b < v + j
    BY <1>6, <1>7
<1> QED BY <1>5, <1>8, Zenon

LEMMA CellAt ==
    ASSUME NEW S, NEW G \in Seq(Seq(S)), NEW e \in 1..Len(FlattenSeq(G))
    PROVE  \E i, j : Spot(G, i, j) /\ e = Offset(G, i - 1) + j /\ FlattenSeq(G)[e] = G[i][j]
<1>1. PICK i \in 1..Len(G) : \E j \in 1..Len(G[i]) : e = Offset(G, i - 1) + j
    BY FlattenSeqCovers
<1>2. PICK j \in 1..Len(G[i]) : e = Offset(G, i - 1) + j
    BY <1>1
<1>3. Spot(G, i, j)
    BY DEF Spot
<1>4. FlattenSeq(G)[e] = G[i][j]
    BY <1>2, <1>3, CellPlace
<1> QED BY <1>2, <1>3, <1>4

LEMMA FlatKeys ==
    ASSUME NEW S, NEW G \in Seq(Seq(S))
    PROVE  \A k : k \in Keys(FlattenSeq(G)) <=> \E i, j : Spot(G, i, j) /\ G[i][j].key = k
<1>1. ASSUME NEW k, k \in Keys(FlattenSeq(G)) PROVE \E i, j : Spot(G, i, j) /\ G[i][j].key = k
    <2>1. PICK e \in 1..Len(FlattenSeq(G)) : FlattenSeq(G)[e].key = k
        BY <1>1 DEF Keys
    <2>2. PICK i, j : Spot(G, i, j) /\ FlattenSeq(G)[e] = G[i][j]
        BY CellAt
    <2> QED BY <2>1, <2>2
<1>2. ASSUME NEW i, NEW j, Spot(G, i, j) PROVE G[i][j].key \in Keys(FlattenSeq(G))
    <2>1. PICK e \in 1..Len(FlattenSeq(G)) : FlattenSeq(G)[e] = G[i][j]
        BY <1>2, CellPlace
    <2>2. FlattenSeq(G)[e].key \in Keys(FlattenSeq(G))
        BY DEF Keys
    <2> QED BY <2>1, <2>2
<1> QED BY <1>1, <1>2

LEMMA FinalIs ==
    ASSUME NEW S, NEW G \in Seq(Seq(S)), NEW i, NEW j, Final(G, i, j)
    PROVE  LastWrite(FlattenSeq(G))[G[i][j].key] = G[i][j].val
<1>1. PICK flat \in Seq(S) : flat = FlattenSeq(G)
    BY FlattenSeqType
<1>2. Spot(G, i, j)
    BY DEF Final
<1>3. PICK e \in 1..Len(flat) : e = Offset(G, i - 1) + j /\ flat[e] = G[i][j]
    BY <1>1, <1>2, CellPlace
<1>4. LastAt(flat, e)
    <2> SUFFICES ASSUME NEW x \in 1..Len(flat), flat[x].key = flat[e].key PROVE x <= e
        BY DEF LastAt
    <2>1. PICK a, b : Spot(G, a, b) /\ x = Offset(G, a - 1) + b /\ flat[x] = G[a][b]
        BY <1>1, CellAt
    <2>2. a < i \/ (a = i /\ b <= j)
        BY <1>3, <2>1 DEF Final
    <2>3. CASE a < i
        <3>1. x < e
            BY <1>2, <1>3, <2>1, <2>3, CellOrder
        <3> QED BY <3>1
    <2>4. CASE a = i /\ b <= j
        <3>1. PICK o \in Nat, c \in Nat, d \in Nat : o = Offset(G, i - 1) /\ c = b /\ d = j
            BY <1>2, <2>1, <2>4, CellPlace
        <3>2. x = o + c /\ e = o + d /\ c <= d
            BY <1>3, <2>1, <2>4, <3>1, Zenon
        <3> QED BY <3>2
    <2> QED BY <2>2, <2>3, <2>4
<1>5. LastWrite(flat)[flat[e].key] = flat[e].val
    BY <1>4, LastWriteIs
<1> QED BY <1>1, <1>3, <1>5

HasFinal(G, k) == \E i, j : Final(G, i, j) /\ G[i][j].key = k

LEMMA FinalExists ==
    ASSUME NEW S, NEW G \in Seq(Seq(S)), NEW c, NEW d, Spot(G, c, d)
    PROVE  HasFinal(G, G[c][d].key)
<1>1. PICK flat \in Seq(S) : flat = FlattenSeq(G)
    BY FlattenSeqType
<1> DEFINE k == G[c][d].key
           T == {e \in 1..Len(flat) : flat[e].key = k}
<1>2. PICK e \in T : \A x \in T : x <= e
    <2>1. PICK x \in 1..Len(flat) : flat[x] = G[c][d]
        BY <1>1, CellPlace
    <2>2. x \in T /\ T \in SUBSET (1..Len(flat)) /\ Len(flat) \in Nat
        BY <2>1
    <2> HIDE DEF T
    <2> QED BY <2>2, LastExists
<1>3. PICK i, j : Spot(G, i, j) /\ e = Offset(G, i - 1) + j /\ flat[e] = G[i][j]
    BY <1>1, <1>2, CellAt
<1>4. G[i][j].key = k
    BY <1>2, <1>3
<1>5. ASSUME NEW a, NEW b, Spot(G, a, b), G[a][b].key = k PROVE a < i \/ (a = i /\ b <= j)
    <2>1. PICK x \in 1..Len(flat) : x = Offset(G, a - 1) + b /\ flat[x] = G[a][b]
        <3>1. /\ Offset(G, a - 1) + b \in 1..Len(FlattenSeq(G))
              /\ FlattenSeq(G)[Offset(G, a - 1) + b] = G[a][b]
            BY <1>5, CellPlace
        <3> QED BY <1>1, <3>1, Zenon
    <2>2. x \in T
        BY <1>5, <2>1
    <2>3. x <= e /\ x \in Int /\ e \in Int
        BY <1>2, <2>2
    <2>4. a \in Int /\ i \in Int
        BY <1>3, <1>5 DEF Spot
    <2>5. ~(i < a)
        <3> SUFFICES ASSUME i < a PROVE FALSE
            OBVIOUS
        <3>1. e < x
            BY <1>3, <1>5, <2>1, CellOrder
        <3> QED BY <2>3, <3>1
    <2>6. ASSUME a = i PROVE b <= j
        <3>1. PICK o \in Nat, m \in Nat, n \in Nat : o = Offset(G, i - 1) /\ m = b /\ n = j
            BY <1>3, <1>5, <2>6, CellPlace
        <3>2. x = o + m /\ e = o + n
            BY <1>3, <2>1, <2>6, <3>1, Zenon
        <3>3. m <= n
            BY <2>3, <3>2
        <3> QED BY <3>1, <3>3
    <2>7. a < i \/ a = i
        BY <2>4, <2>5
    <2> QED BY <2>6, <2>7
<1>6. Final(G, i, j)
    BY <1>3, <1>4, <1>5 DEF Final
<1> QED BY <1>4, <1>6 DEF HasFinal

\* R has the rows of G that write anything, rows with a common key in the order
\* they have in G.
Rearranges(f, R, G) ==
    /\ f \in [1..Len(R) -> 1..Len(G)] /\ \A p \in 1..Len(R) : R[p] = G[f[p]]
    /\ \A i \in 1..Len(G) : G[i] # <<>> => \E p \in 1..Len(R) : f[p] = i
    /\ \A p, a, q, b : /\ Spot(R, p, a) /\ Spot(R, q, b) /\ R[p][a].key = R[q][b].key /\ p < q
                       => f[p] < f[q]

LEMMA RearrangedSame ==
    ASSUME NEW S, NEW R \in Seq(Seq(S)), NEW G \in Seq(Seq(S)), NEW f, Rearranges(f, R, G)
    PROVE  LastWrite(FlattenSeq(R)) = LastWrite(FlattenSeq(G))
<1>1. ASSUME NEW p, NEW a, Spot(R, p, a)
      PROVE  Spot(G, f[p], a) /\ G[f[p]][a] = R[p][a] /\ p \in 1..Len(R) /\ f[p] \in 1..Len(G)
    <2>1. p \in 1..Len(R) /\ a \in 1..Len(R[p])
        BY <1>1 DEF Spot
    <2>2. f[p] \in 1..Len(G) /\ R[p] = G[f[p]]
        BY <2>1 DEF Rearranges
    <2> QED BY <2>1, <2>2 DEF Spot
<1>2. ASSUME NEW i, NEW j, Spot(G, i, j)
      PROVE  \E p : Spot(R, p, j) /\ f[p] = i /\ R[p][j] = G[i][j]
    <2>1. i \in 1..Len(G) /\ j \in 1..Len(G[i])
        BY <1>2 DEF Spot
    <2>2. G[i] # <<>>
        BY <2>1
    <2>3. PICK p \in 1..Len(R) : f[p] = i
        BY <2>1, <2>2 DEF Rearranges
    <2>4. R[p] = G[i]
        BY <2>3 DEF Rearranges
    <2> QED BY <2>1, <2>3, <2>4 DEF Spot
<1>3. \A k : k \in Keys(FlattenSeq(R)) <=> k \in Keys(FlattenSeq(G))
    <2>1. \A k : k \in Keys(FlattenSeq(R)) <=> \E i, j : Spot(R, i, j) /\ R[i][j].key = k
        BY FlatKeys
    <2>2. \A k : k \in Keys(FlattenSeq(G)) <=> \E i, j : Spot(G, i, j) /\ G[i][j].key = k
        BY FlatKeys
    <2>3. ASSUME NEW k, k \in Keys(FlattenSeq(R)) PROVE k \in Keys(FlattenSeq(G))
        <3>1. PICK p, a : Spot(R, p, a) /\ R[p][a].key = k
            BY <2>1, <2>3
        <3>2. Spot(G, f[p], a) /\ G[f[p]][a].key = k
            BY <1>1, <3>1
        <3> QED BY <2>2, <3>2
    <2>4. ASSUME NEW k, k \in Keys(FlattenSeq(G)) PROVE k \in Keys(FlattenSeq(R))
        <3>1. PICK i, j : Spot(G, i, j) /\ G[i][j].key = k
            BY <2>2, <2>4
        <3>2. PICK p : Spot(R, p, j) /\ R[p][j].key = k
            <4>1. PICK p : Spot(R, p, j) /\ R[p][j] = G[i][j]
                <5>1. Spot(G, i, j)
                    BY <3>1
                <5> QED BY <1>2, <5>1
            <4> QED BY <3>1, <4>1
        <3> QED BY <2>1, <3>2
    <2> QED BY <2>3, <2>4
<1>4. ASSUME NEW k, k \in Keys(FlattenSeq(G))
      PROVE  LastWrite(FlattenSeq(R))[k] = LastWrite(FlattenSeq(G))[k]
    <2>1. PICK c, d : Spot(G, c, d) /\ G[c][d].key = k
        BY <1>4, FlatKeys
    <2>2. PICK i, j : Final(G, i, j) /\ G[i][j].key = k
        <3>1. HasFinal(G, G[c][d].key)
            BY <2>1, FinalExists
        <3> QED BY <2>1, <3>1 DEF HasFinal
    <2>3. PICK p : Spot(R, p, j) /\ f[p] = i /\ R[p][j] = G[i][j]
        BY <1>2, <2>2 DEF Final
    <2>4. ASSUME NEW q, NEW b, Spot(R, q, b), R[q][b].key = R[p][j].key
          PROVE  q < p \/ (q = p /\ b <= j)
        <3>1. Spot(G, f[q], b) /\ G[f[q]][b].key = G[i][j].key /\ q \in 1..Len(R) /\ f[q] \in 1..Len(G)
            BY <1>1, <2>3, <2>4
        <3>2. f[q] < i \/ (f[q] = i /\ b <= j)
            BY <2>2, <3>1 DEF Final
        <3>3. p \in 1..Len(R) /\ i \in 1..Len(G)
            BY <1>1, <2>3
        <3>4. ~(p < q)
            <4> SUFFICES ASSUME p < q PROVE FALSE
                OBVIOUS
            <4>1. f[p] < f[q]
                BY <2>3, <2>4 DEF Rearranges
            <4>2. PICK x \in Int, y \in Int : x = f[q] /\ y = i
                BY <3>1, <3>3
            <4>3. y < x /\ (x < y \/ x = y)
                BY <2>3, <3>2, <4>1, <4>2, Zenon
            <4> QED BY <4>3
        <3>5. CASE q = p
            <4>1. f[q] = i /\ i \in Int
                BY <2>3, <3>3, <3>5
            <4>2. b <= j
                BY <3>2, <4>1
            <4> QED BY <3>5, <4>2
        <3>6. CASE q # p
            <4>1. q < p
                BY <3>1, <3>3, <3>4, <3>6
            <4> QED BY <4>1
        <3> QED BY <3>5, <3>6
    <2>5. Final(R, p, j)
        BY <2>3, <2>4 DEF Final
    <2>6. LastWrite(FlattenSeq(R))[R[p][j].key] = R[p][j].val
        BY <2>5, FinalIs
    <2>7. LastWrite(FlattenSeq(G))[G[i][j].key] = G[i][j].val
        BY <2>2, FinalIs
    <2> QED BY <2>2, <2>3, <2>6, <2>7
<1>5. FlattenSeq(R) \in Seq(S) /\ FlattenSeq(G) \in Seq(S)
    BY FlattenSeqType
<1>6. Keys(FlattenSeq(R)) = Keys(FlattenSeq(G))
    BY <1>3
<1> QED BY <1>4, <1>5, <1>6, SameDatabase

\* Writing one sequence after another.
LEMMA ConcatWrites ==
    ASSUME NEW S, NEW v \in Seq(S), NEW w \in Seq(S)
    PROVE  /\ Keys(v \o w) = Keys(v) \cup Keys(w)
           /\ \A k \in Keys(w) : LastWrite(v \o w)[k] = LastWrite(w)[k]
           /\ \A k \in Keys(v) \ Keys(w) : LastWrite(v \o w)[k] = LastWrite(v)[k]
<1>0. v \o w \in Seq(S) /\ Len(v) \in Nat /\ Len(w) \in Nat
    OBVIOUS
<1>1. PICK m \in Nat, n \in Nat, u \in Seq(S) : m = Len(v) /\ n = Len(w) /\ u = v \o w
    BY <1>0, Zenon
<1>2. /\ Len(u) = m + n /\ \A i \in 1..m : u[i] = v[i]
      /\ \A i \in 1..n : u[m + i] = w[i]
    BY <1>1
<1>3. \A e \in 1..(m + n) : e \in 1..m \/ \E i \in 1..n : e = m + i
    <2> SUFFICES ASSUME NEW e \in 1..(m + n), e \notin 1..m PROVE \E i \in 1..n : e = m + i
        OBVIOUS
    <2>1. e - m \in 1..n /\ e = m + (e - m)
        OBVIOUS
    <2> QED BY <2>1
<1>4. Keys(u) = Keys(v) \cup Keys(w)
    <2>1. ASSUME NEW k \in Keys(u) PROVE k \in Keys(v) \cup Keys(w)
        <3>1. PICK e \in 1..(m + n) : u[e].key = k
            BY <1>2 DEF Keys
        <3>2. CASE e \in 1..m
            BY <1>1, <1>2, <3>1, <3>2 DEF Keys
        <3>3. CASE \E i \in 1..n : e = m + i
            BY <1>1, <1>2, <3>1, <3>3 DEF Keys
        <3> QED BY <1>3, <3>2, <3>3
    <2>2. ASSUME NEW k \in Keys(w) PROVE k \in Keys(u)
        <3>1. PICK i \in 1..n : w[i].key = k
            BY <1>1 DEF Keys
        <3>2. m + i \in 1..(m + n) /\ u[m + i].key = k
            BY <1>2, <3>1
        <3> QED BY <1>2, <3>2 DEF Keys
    <2>3. ASSUME NEW k \in Keys(v) PROVE k \in Keys(u)
        <3>1. PICK i \in 1..m : v[i].key = k
            BY <1>1 DEF Keys
        <3>2. i \in 1..(m + n) /\ u[i].key = k
            BY <1>2, <3>1
        <3> QED BY <1>2, <3>2 DEF Keys
    <2> QED BY <2>1, <2>2, <2>3
<1>5. ASSUME NEW k \in Keys(w) PROVE LastWrite(u)[k] = LastWrite(w)[k]
    <2> DEFINE T == {i \in 1..n : w[i].key = k}
    <2>1. PICK i \in T : \A x \in T : x <= i
        <3>1. T \in SUBSET (1..n) /\ T # {}
            BY <1>1 DEF Keys
        <3> HIDE DEF T
        <3> QED BY <3>1, LastExists
    <2>2. i \in 1..n /\ w[i].key = k /\ \A x \in 1..n : w[x].key = k => x <= i
        BY <2>1
    <2> HIDE DEF T
    <2>3. LastAt(w, i)
        BY <1>1, <2>2 DEF LastAt
    <2>4. PICK z \in 1..(m + n) : z = m + i /\ u[z] = w[i]
        BY <1>2, <2>2
    <2>5. LastAt(u, z)
        <3> SUFFICES ASSUME NEW x \in 1..(m + n), u[x].key = k PROVE x <= z
            BY <1>2, <2>2, <2>4 DEF LastAt
        <3>1. CASE x \in 1..m
            BY <2>2, <2>4, <3>1
        <3>2. CASE \E y \in 1..n : x = m + y
            <4>1. PICK y \in 1..n : x = m + y
                BY <3>2
            <4>2. w[y].key = k
                BY <1>2, <4>1
            <4>3. y <= i
                BY <2>2, <4>2
            <4> QED BY <2>2, <2>4, <4>1, <4>3
        <3> QED BY <1>3, <3>1, <3>2
    <2>6. LastWrite(w)[w[i].key] = w[i].val
        BY <1>1, <2>2, <2>3, LastWriteIs
    <2>7. LastWrite(u)[u[z].key] = u[z].val
        BY <1>2, <2>5, LastWriteIs
    <2> QED BY <2>2, <2>4, <2>6, <2>7
<1>6. ASSUME NEW k \in Keys(v), k \notin Keys(w) PROVE LastWrite(u)[k] = LastWrite(v)[k]
    <2> DEFINE T == {i \in 1..m : v[i].key = k}
    <2>1. PICK i \in T : \A x \in T : x <= i
        <3>1. T \in SUBSET (1..m) /\ T # {}
            BY <1>1 DEF Keys
        <3> HIDE DEF T
        <3> QED BY <3>1, LastExists
    <2>2. i \in 1..m /\ v[i].key = k /\ \A x \in 1..m : v[x].key = k => x <= i
        BY <2>1
    <2> HIDE DEF T
    <2>3. LastAt(v, i)
        BY <1>1, <2>2 DEF LastAt
    <2>4. i \in 1..(m + n) /\ u[i] = v[i]
        BY <1>2, <2>2
    <2>5. LastAt(u, i)
        <3> SUFFICES ASSUME NEW x \in 1..(m + n), u[x].key = k PROVE x <= i
            BY <1>2, <2>2, <2>4 DEF LastAt
        <3>1. CASE x \in 1..m
            BY <1>2, <2>2, <3>1
        <3>2. CASE \E y \in 1..n : x = m + y
            <4>1. PICK y \in 1..n : x = m + y
                BY <3>2
            <4>2. w[y].key = k
                BY <1>2, <4>1
            <4> QED BY <1>1, <1>6, <4>2 DEF Keys
        <3> QED BY <1>3, <3>1, <3>2
    <2>6. LastWrite(v)[v[i].key] = v[i].val
        BY <1>1, <2>2, <2>3, LastWriteIs
    <2>7. LastWrite(u)[u[i].key] = u[i].val
        BY <1>2, <2>4, <2>5, LastWriteIs
    <2> QED BY <2>2, <2>4, <2>6, <2>7
<1> QED BY <1>1, <1>4, <1>5, <1>6

\* Writing first what is written again changes nothing.
LEMMA WrittenAgain ==
    ASSUME NEW S, NEW v \in Seq(S), NEW w \in Seq(S), Keys(v) \subseteq Keys(w)
    PROVE  LastWrite(v \o w) = LastWrite(w)
<1>1. v \o w \in Seq(S)
    OBVIOUS
<1>2. Keys(v \o w) = Keys(w) /\ \A k \in Keys(w) : LastWrite(v \o w)[k] = LastWrite(w)[k]
    <2>1. Keys(v \o w) = Keys(v) \cup Keys(w) /\ \A k \in Keys(w) : LastWrite(v \o w)[k] = LastWrite(w)[k]
        BY ConcatWrites
    <2>2. Keys(v) \cup Keys(w) = Keys(w)
        OBVIOUS
    <2> QED BY <2>1, <2>2
<1> QED BY <1>1, <1>2, SameDatabase

\* Sequences that leave the same do so one after another.
LEMMA SameConcat ==
    ASSUME NEW S, NEW v \in Seq(S), NEW w \in Seq(S), NEW a \in Seq(S), NEW b \in Seq(S),
           LastWrite(v) = LastWrite(a), LastWrite(w) = LastWrite(b)
    PROVE  LastWrite(v \o w) = LastWrite(a \o b)
<1>1. v \o w \in Seq(S) /\ a \o b \in Seq(S)
    OBVIOUS
<1>2. Keys(v) = Keys(a) /\ Keys(w) = Keys(b)
    <2>1. /\ DOMAIN LastWrite(v) = Keys(v) /\ DOMAIN LastWrite(a) = Keys(a)
          /\ DOMAIN LastWrite(w) = Keys(w) /\ DOMAIN LastWrite(b) = Keys(b)
        BY LastWriteIs
    <2> QED BY <2>1
<1>3. /\ Keys(v \o w) = Keys(v) \cup Keys(w)
      /\ \A k \in Keys(w) : LastWrite(v \o w)[k] = LastWrite(w)[k]
      /\ \A k \in Keys(v) \ Keys(w) : LastWrite(v \o w)[k] = LastWrite(v)[k]
    BY ConcatWrites
<1>4. /\ Keys(a \o b) = Keys(a) \cup Keys(b)
      /\ \A k \in Keys(b) : LastWrite(a \o b)[k] = LastWrite(b)[k]
      /\ \A k \in Keys(a) \ Keys(b) : LastWrite(a \o b)[k] = LastWrite(a)[k]
    BY ConcatWrites
<1>5. Keys(v \o w) = Keys(a \o b)
    BY <1>2, <1>3, <1>4
<1>6. \A k \in Keys(a \o b) : LastWrite(v \o w)[k] = LastWrite(a \o b)[k]
    <2> TAKE k \in Keys(a \o b)
    <2>1. CASE k \in Keys(b)
        BY <1>2, <1>3, <1>4, <2>1
    <2>2. CASE k \notin Keys(b)
        <3>1. k \in Keys(a) \ Keys(b) /\ k \in Keys(v) \ Keys(w)
            BY <1>2, <1>4, <2>2
        <3> QED BY <1>3, <1>4, <3>1
    <2> QED BY <2>1, <2>2
<1> QED BY <1>1, <1>5, <1>6, SameDatabase

LEMMA SameFlatten ==
    ASSUME NEW S, NEW A \in Seq(Seq(S)), NEW B \in Seq(Seq(S)), Len(A) = Len(B),
           \A i \in 1..Len(A) : LastWrite(A[i]) = LastWrite(B[i])
    PROVE  LastWrite(FlattenSeq(A)) = LastWrite(FlattenSeq(B))
<1> DEFINE Upto(s, k) == FlattenSeq(SubSeq(s, 1, k))
           Good == {k \in Nat : k <= Len(A) => LastWrite(Upto(A, k)) = LastWrite(Upto(B, k))}
<1>0. Len(A) \in Nat
    OBVIOUS
<1>1. 0 \in Good
    <2>1. SubSeq(A, 1, 0) = <<>> /\ SubSeq(B, 1, 0) = <<>>
        OBVIOUS
    <2>2. Upto(A, 0) = Upto(B, 0)
        BY <2>1
    <2> HIDE DEF Upto
    <2> QED BY <2>2
<1>2. ASSUME NEW k \in Nat, k \in Good PROVE k + 1 \in Good
    <2> SUFFICES ASSUME k + 1 <= Len(A) PROVE LastWrite(Upto(A, k + 1)) = LastWrite(Upto(B, k + 1))
        OBVIOUS
    <2>1. k + 1 \in 1..Len(A) /\ k + 1 \in 1..Len(B) /\ (k + 1) - 1 = k /\ k <= Len(A)
        BY <1>0
    <2>2. /\ SubSeq(A, 1, k) \in Seq(Seq(S)) /\ SubSeq(A, 1, k + 1) = Append(SubSeq(A, 1, k), A[k + 1])
          /\ SubSeq(B, 1, k) \in Seq(Seq(S)) /\ SubSeq(B, 1, k + 1) = Append(SubSeq(B, 1, k), B[k + 1])
        <3> DEFINE Q == Seq(S)
        <3> HIDE DEF Q
        <3>1. A \in Seq(Q) /\ B \in Seq(Q)
            BY DEF Q
        <3>2. /\ SubSeq(A, 1, (k + 1) - 1) \in Seq(Q)
              /\ SubSeq(A, 1, k + 1) = Append(SubSeq(A, 1, (k + 1) - 1), A[k + 1])
            BY <2>1, <3>1, SubSeqSplit
        <3>3. /\ SubSeq(B, 1, (k + 1) - 1) \in Seq(Q)
              /\ SubSeq(B, 1, k + 1) = Append(SubSeq(B, 1, (k + 1) - 1), B[k + 1])
            BY <2>1, <3>1, SubSeqSplit
        <3> QED BY <2>1, <3>2, <3>3 DEF Q
    <2>3. A[k + 1] \in Seq(S) /\ B[k + 1] \in Seq(S)
        BY <2>1
    <2>4. /\ Upto(A, k + 1) = Upto(A, k) \o A[k + 1] /\ Upto(A, k) \in Seq(S)
          /\ Upto(B, k + 1) = Upto(B, k) \o B[k + 1] /\ Upto(B, k) \in Seq(S)
        BY <2>2, <2>3, FlattenSeqAppend, FlattenSeqType
    <2>5. LastWrite(Upto(A, k)) = LastWrite(Upto(B, k))
        BY <1>2, <2>1
    <2>6. LastWrite(A[k + 1]) = LastWrite(B[k + 1])
        BY <2>1
    <2>7. LastWrite(Upto(A, k) \o A[k + 1]) = LastWrite(Upto(B, k) \o B[k + 1])
        <3> HIDE DEF Upto
        <3> QED BY <2>3, <2>4, <2>5, <2>6, SameConcat
    <2> QED BY <2>4, <2>7
<1>3. Nat \subseteq Good
    <2> HIDE DEF Good
    <2> QED BY <1>1, <1>2, SetInduction
<1>4. LastWrite(Upto(A, Len(A))) = LastWrite(Upto(B, Len(A)))
    <2> HIDE DEF Upto
    <2> QED BY <1>0, <1>3
<1>5. SubSeq(A, 1, Len(A)) = A /\ SubSeq(B, 1, Len(A)) = B
    OBVIOUS
<1> QED BY <1>4, <1>5
=============================================================================
