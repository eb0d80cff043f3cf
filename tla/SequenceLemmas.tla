----------------------------- MODULE SequenceLemmas -----------------------------
(* What the sequence helpers used by the models return, position by position, *)
(* and the induction that the filter needs.                                  *)
EXTENDS SequenceOps, WellFoundedInduction, TLAPS

\* The elements of a concatenation, by position.
LEMMA ConcatFacts ==
    ASSUME NEW S, NEW a \in Seq(S), NEW b \in Seq(S)
    PROVE  /\ a \o b \in Seq(S) /\ Len(a \o b) = Len(a) + Len(b)
           /\ \A j \in 1..(Len(a) + Len(b)) : (a \o b)[j] = IF j <= Len(a) THEN a[j] ELSE b[j - Len(a)]
<1>1. a \o b \in Seq(S) /\ Len(a \o b) = Len(a) + Len(b)
  OBVIOUS
<1>2. ASSUME NEW j \in 1..Len(a) PROVE (a \o b)[j] = a[j]
  OBVIOUS
<1>3. ASSUME NEW j \in Nat, j > Len(a), j <= Len(a) + Len(b) PROVE (a \o b)[j] = b[j - Len(a)]
  BY <1>3
<1> QED  BY <1>1, <1>2, <1>3

\* What is at position j once x is inserted at i.
Inserted(s, i, x, j) == IF j < i THEN s[j] ELSE IF j = i THEN x ELSE s[j - 1]

\* InsertAt opens a gap at one position and fills it.
LEMMA InsertAtFacts ==
    ASSUME NEW S, NEW s \in Seq(S), NEW i \in 1..Len(s), NEW x \in S
    PROVE  /\ InsertAt(s, i, x) \in Seq(S)
           /\ Len(InsertAt(s, i, x)) = Len(s) + 1
           /\ \A j \in 1..(Len(s) + 1) : InsertAt(s, i, x)[j] = Inserted(s, i, x, j)
<1> DEFINE l == SubSeq(s, 1, i - 1)
           r == SubSeq(s, i, Len(s))
           lx == l \o <<x>>
<1>0. \A j \in 1..Len(s) : s[j] \in S
  OBVIOUS
<1>1. /\ l \in Seq(S) /\ Len(l) = i - 1
      /\ \A j \in 1..(i - 1) : l[j] = s[j]
  BY <1>0
<1>2. /\ r \in Seq(S) /\ Len(r) = Len(s) - i + 1
      /\ \A j \in 1..(Len(s) - i + 1) : r[j] = s[i + j - 1]
  BY <1>0
<1>x. <<x>> \in Seq(S) /\ Len(<<x>>) = 1 /\ <<x>>[1] = x
  OBVIOUS
<1> HIDE DEF l, r
<1>3. /\ lx \in Seq(S) /\ Len(lx) = i
      /\ \A j \in 1..i : lx[j] = IF j < i THEN l[j] ELSE x
  BY <1>1, <1>x
<1> HIDE DEF lx
<1>4. /\ lx \o r \in Seq(S) /\ Len(lx \o r) = Len(lx) + Len(r)
      /\ \A j \in 1..(Len(lx) + Len(r)) :
            (lx \o r)[j] = IF j <= Len(lx) THEN lx[j] ELSE r[j - Len(lx)]
  BY <1>2, <1>3, ConcatFacts, Zenon
<1>5. ASSUME NEW j \in 1..(Len(s) + 1)
      PROVE  (lx \o r)[j] = IF j < i THEN s[j] ELSE IF j = i THEN x ELSE s[j - 1]
  <2>0. Len(s) \in Nat /\ j \in 1..(Len(lx) + Len(r))
    BY <1>2, <1>3
  <2>1. CASE j <= i
    BY <1>1, <1>3, <1>4, <2>0, <2>1
  <2>2. CASE ~(j <= i)
    <3>1. (lx \o r)[j] = r[j - i]
      BY <1>3, <1>4, <2>0, <2>2
    <3>2. j - i \in 1..(Len(s) - i + 1) /\ i + (j - i) - 1 = j - 1
      BY <2>0, <2>2
    <3> QED
      BY <1>2, <2>2, <3>1, <3>2
  <2> QED
    BY <2>1, <2>2, Zenon
<1>6. Len(lx \o r) = Len(s) + 1
  <2>1. Len(lx \o r) = Len(lx) + Len(r) /\ Len(lx) = i /\ Len(r) = Len(s) - i + 1
    BY <1>2, <1>3, <1>4
  <2>2. Len(s) \in Nat /\ i \in Nat
    OBVIOUS
  <2> QED
    BY <2>1, <2>2
<1> QED
  BY <1>4, <1>5, <1>6 DEF InsertAt, Inserted, lx, l, r

\* The elements of a sequence.
Elements(s) == {s[i] : i \in 1..Len(s)}

\* The order of the natural numbers as a relation.
LessThan == {x \in Nat \X Nat : x[1] < x[2]}

\* A set of natural numbers has a least element.
LEMMA LeastNat ==
  ASSUME NEW T \in SUBSET Nat, T # {}
  PROVE  \E x \in T : \A y \in T : x <= y
<1>1. IsWellFoundedOn(LessThan, Nat)
  BY NatLessThanWellFounded DEF OpToRel, LessThan
<1>2. PICK x \in T : \A y \in T : ~(<<y, x>> \in LessThan)
  BY <1>1, WFMin, Zenon
<1>3. \A y \in T : ~(y < x)
  BY <1>2, Zenon DEF LessThan
<1> QED  BY <1>3

\* Induction over the natural numbers, for a set instead of a predicate.
LEMMA NatIsInductive ==
  ASSUME NEW S, 0 \in S, \A n \in Nat : n \in S => n + 1 \in S
  PROVE Nat \subseteq S
<1> DEFINE T == {n \in Nat : n \notin S}
<1> SUFFICES ASSUME T # {} PROVE FALSE
  OBVIOUS
<1>1. PICK x \in T : \A y \in T : x <= y
  BY LeastNat, Zenon
<1>2. x # 0 /\ x - 1 \in Nat
  OBVIOUS
<1>3. x - 1 \in S
  BY <1>1, <1>2
<1> QED  BY <1>2, <1>3

\* Keep is the filter it is meant to be.
LEMMA KeepFacts ==
    ASSUME NEW X, NEW s \in Seq(X), NEW S
    PROVE  /\ Keep(s, S) \in Seq(X)
           /\ Elements(Keep(s, S)) = Elements(s) \cap S
<1> DEFINE N == Len(s)
           Filtered(g, i) == IF i = 0 THEN <<>> ELSE IF s[i] \in S THEN Append(g[i - 1], s[i]) ELSE g[i - 1]
           Part(n) == {s[i] : i \in 1..n} \cap S
           Rng(q) == {q[i] : i \in 1..Len(q)}
           kept == CHOOSE g : g = [i \in 0..N |-> Filtered(g, i)]
<1>0. N \in Nat /\ \A i \in 1..N : s[i] \in X
  OBVIOUS
<1>1. \E g : g = [i \in 0..N |-> Filtered(g, i)]
  <2> DEFINE Good == {n \in Nat : \E g : g = [i \in 0..n |-> Filtered(g, i)]}
  <2>1. 0 \in Good
    <3> DEFINE g == [i \in 0..0 |-> <<>>]
    <3>1. g = [i \in 0..0 |-> Filtered(g, i)]  OBVIOUS
    <3> QED  BY <3>1, Zenon
  <2>2. ASSUME NEW n \in Nat, n \in Good PROVE n + 1 \in Good
    <3>1. PICK g : g = [i \in 0..n |-> Filtered(g, i)]  BY <2>2
    <3> DEFINE h == [i \in 0..(n + 1) |-> IF i = n + 1 THEN Filtered(g, n + 1) ELSE g[i]]
    <3>0. \A i \in 0..n : g[i] = Filtered(g, i)
      <4> HIDE DEF Filtered
      <4> QED  BY <3>1
    <3>2. ASSUME NEW i \in 0..(n + 1) PROVE h[i] = Filtered(h, i)
      <4>1. CASE i = 0
        BY <3>0, <4>1
      <4>2. CASE i \in 1..n
        <5>1. h[i] = g[i] /\ h[i - 1] = g[i - 1] BY <4>2
        <5> QED  BY <3>0, <4>2, <5>1
      <4>3. CASE i = n + 1
        <5>1. h[i] = Filtered(g, n + 1) /\ h[n] = g[n]  BY <4>3
        <5> QED  BY <4>3, <5>1
      <4> QED  BY <4>1, <4>2, <4>3
    <3>3. h = [i \in 0..(n + 1) |-> Filtered(h, i)]
      <4> HIDE DEF Filtered
      <4>1. h = [i \in 0..(n + 1) |-> h[i]]  OBVIOUS
      <4> HIDE DEF h
      <4> QED  BY <3>2, <4>1
    <3> HIDE DEF h
    <3>4. n + 1 \in Nat  OBVIOUS
    <3>5. \E f : f = [i \in 0..(n + 1) |-> Filtered(f, i)]
      <4> HIDE DEF Filtered
      <4> QED  BY <3>3, Zenon
    <3> QED  BY <3>4, <3>5, Zenon
  <2>3. Nat \subseteq Good
    <3> HIDE DEF Good
    <3> QED  BY <2>1, <2>2, NatIsInductive
  <2> QED  BY <1>0, <2>3
<1>2. kept = [i \in 0..N |-> Filtered(kept, i)]
  BY <1>1, Zenon
<1>3. Keep(s, S) = kept[N]
  BY DEF Keep
<1> HIDE DEF kept
<1>4. ASSUME NEW i \in 0..N PROVE kept[i] = Filtered(kept, i)
  BY <1>2, Zenon
<1> HIDE DEF Filtered
<1>k. kept[0] = <<>> /\ \A i \in 1..N : kept[i] = IF s[i] \in S THEN Append(kept[i - 1], s[i]) ELSE kept[i - 1]
  BY <1>0, <1>4 DEF Filtered
<1> DEFINE Holds(n) == kept[n] \in Seq(X) /\ Rng(kept[n]) = Part(n)
           Good == {n \in Nat : n <= N => Holds(n)}
<1>5. Holds(0)
  <2>1. Rng(<<>>) = {} /\ Part(0) = {}  OBVIOUS
  <2>2. <<>> \in Seq(X)  OBVIOUS
  <2>3. kept[0] = <<>>  BY <1>k
  <2>4. Rng(kept[0]) = Part(0)  BY <2>1, <2>3
  <2> HIDE DEF Rng, Part
  <2> QED  BY <2>2, <2>3, <2>4
<1>6. ASSUME NEW n \in Nat, n + 1 <= N, Holds(n) PROVE Holds(n + 1)
  <2> DEFINE x == s[n + 1]
             q == kept[n]
  <2>0. n + 1 \in 1..N /\ x \in X
    BY <1>0, <1>6
  <2>1. n + 1 \in 1..N /\ x \in X /\ q \in Seq(X) /\ Rng(q) = Part(n)
    <3> HIDE DEF Rng, Part
    <3> QED  BY <2>0, <1>6
  <2>2. kept[n + 1] = IF x \in S THEN Append(q, x) ELSE q
    BY <1>k, <2>1
  <2>3. Part(n + 1) = Part(n) \cup ({x} \cap S)
    BY <2>1
  <2>4. Append(q, x) \in Seq(X) /\ Rng(Append(q, x)) = Rng(q) \cup {x}
    <3> HIDE DEF x, q
    <3>1. /\ Append(q, x) \in Seq(X) /\ Len(Append(q, x)) = Len(q) + 1 /\ Len(q) \in Nat
          /\ Append(q, x)[Len(q) + 1] = x
          /\ \A i \in 1..Len(q) : Append(q, x)[i] = q[i]
      BY <2>1
    <3> DEFINE r == Append(q, x)
    <3> HIDE DEF r
    <3>2. r \in Seq(X) /\ Len(r) = Len(q) + 1 /\ r[Len(q) + 1] = x /\ \A i \in 1..Len(q) : r[i] = q[i]
      BY <3>1 DEF r
    <3>3. Rng(r) = Rng(q) \cup {x}
      BY <3>1, <3>2
    <3> QED  BY <3>1, <3>3 DEF r
  <2> HIDE DEF Rng, Part, x, q
  <2>5. kept[n + 1] \in Seq(X) /\ Rng(kept[n + 1]) = Part(n + 1)
    BY <2>1, <2>2, <2>3, <2>4, Zenon
  <2> QED  BY <2>5
<1>7. Holds(N)
  <2> HIDE DEF Holds
  <2>1. 0 \in Good  BY <1>5
  <2>2. \A n \in Nat : n \in Good => n + 1 \in Good  BY <1>0, <1>6
  <2>3. Nat \subseteq Good
    <3> HIDE DEF Good
    <3> QED  BY <2>1, <2>2, NatIsInductive
  <2> QED  BY <1>0, <2>3
<1>8. kept[N] \in Seq(X) /\ Elements(kept[N]) = Elements(s) \cap S
  BY <1>7 DEF Elements
<1> QED  BY <1>3, <1>8

\* InsertAt adds one element, and so does Append.
LEMMA InsertAtElements ==
    ASSUME NEW S, NEW s \in Seq(S), NEW i \in 1..Len(s), NEW x \in S
    PROVE  InsertAt(s, i, x) \in Seq(S) /\ Elements(InsertAt(s, i, x)) = Elements(s) \cup {x}
<1> DEFINE r == InsertAt(s, i, x)
<1>1. /\ r \in Seq(S) /\ Len(r) = Len(s) + 1
      /\ \A j \in 1..(Len(s) + 1) : r[j] = IF j < i THEN s[j] ELSE IF j = i THEN x ELSE s[j - 1]
  BY InsertAtFacts DEF Inserted
<1>2. Len(s) \in Nat
  OBVIOUS
<1> HIDE DEF r
<1>3. ASSUME NEW j \in 1..Len(r) PROVE r[j] \in Elements(s) \cup {x}
  <2>1. CASE j < i
    BY <1>1, <1>2, <2>1 DEF Elements
  <2>2. CASE j = i
    BY <1>1, <1>2, <2>2
  <2>3. CASE j > i
    <3>1. j - 1 \in 1..Len(s) /\ r[j] = s[j - 1]
      BY <1>1, <1>2, <2>3
    <3> QED  BY <3>1 DEF Elements
  <2> QED  BY <1>1, <1>2, <2>1, <2>2, <2>3
<1>4. ASSUME NEW j \in 1..Len(s) PROVE s[j] \in Elements(r)
  <2>1. CASE j < i
    BY <1>1, <1>2, <2>1 DEF Elements
  <2>2. CASE ~(j < i)
    <3>1. j + 1 \in 1..Len(r) /\ r[j + 1] = s[j]
      BY <1>1, <1>2, <2>2
    <3> QED  BY <3>1 DEF Elements
  <2> QED  BY <2>1, <2>2
<1>5. x \in Elements(r)
  <2>1. i \in 1..Len(r) /\ r[i] = x
    BY <1>1, <1>2
  <2> QED  BY <2>1 DEF Elements
<1>6. Elements(r) \subseteq Elements(s) \cup {x}
  BY <1>3 DEF Elements
<1>7. Elements(s) \subseteq Elements(r)
  BY <1>4 DEF Elements
<1> QED  BY <1>1, <1>5, <1>6, <1>7 DEF r

\* Append adds its element at the end.
LEMMA AppendElements ==
    ASSUME NEW S, NEW s \in Seq(S), NEW x \in S
    PROVE  Append(s, x) \in Seq(S) /\ Elements(Append(s, x)) = Elements(s) \cup {x}
<1> DEFINE r == Append(s, x)
<1>1. /\ r \in Seq(S) /\ Len(r) = Len(s) + 1 /\ Len(s) \in Nat /\ r[Len(s) + 1] = x
      /\ \A i \in 1..Len(s) : r[i] = s[i]
  OBVIOUS
<1> HIDE DEF r
<1>2. Elements(r) = Elements(s) \cup {x}
  BY <1>1 DEF Elements
<1> QED  BY <1>1, <1>2 DEF r

\* The head and the tail have the elements of the sequence between them.
LEMMA TailElements ==
    ASSUME NEW S, NEW s \in Seq(S), s # <<>>
    PROVE  /\ Tail(s) \in Seq(S) /\ Head(s) \in S
           /\ Elements(s) = Elements(Tail(s)) \cup {Head(s)}
<1> DEFINE r == Tail(s)
<1>1. /\ r \in Seq(S) /\ Len(r) = Len(s) - 1 /\ Len(s) \in Nat /\ Len(s) > 0 /\ Head(s) = s[1]
      /\ \A i \in 1..(Len(s) - 1) : r[i] = s[i + 1]
  OBVIOUS
<1>2. Head(s) \in S
  BY <1>1
<1> HIDE DEF r
<1>3. ASSUME NEW j \in 1..Len(r) PROVE r[j] \in Elements(s)
  BY <1>1 DEF Elements
<1>4. ASSUME NEW j \in 1..Len(s) PROVE s[j] = s[1] \/ s[j] \in Elements(r)
  <2>1. CASE j = 1
    BY <2>1
  <2>2. CASE j # 1
    <3>1. j - 1 \in 1..Len(r) /\ r[j - 1] = s[j]
      BY <1>1, <2>2
    <3> QED  BY <3>1 DEF Elements
  <2> QED  BY <2>1, <2>2
<1>5. Elements(r) \subseteq Elements(s)
  BY <1>3 DEF Elements
<1>6. Elements(s) \subseteq Elements(r) \cup {s[1]}
  <2>1. SUFFICES ASSUME NEW x \in Elements(s) PROVE x = s[1] \/ x \in Elements(r)
    OBVIOUS
  <2>2. PICK j \in 1..Len(s) : x = s[j]
    BY <2>1 DEF Elements
  <2> QED  BY <1>4, <2>2
<1>7. s[1] \in Elements(s)
  BY <1>1 DEF Elements
<1> QED  BY <1>1, <1>2, <1>5, <1>6, <1>7 DEF r
================================================================================
