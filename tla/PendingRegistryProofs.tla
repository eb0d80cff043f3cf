------------------------- MODULE PendingRegistryProofs -------------------------
(***************************************************************************)
(* Edge recycling is sound for any number of objects, kinds and            *)
(* invocations: EdgeOwnership is inductive together with the types.  With  *)
(* it, each record stands for one object as long as it exists, so that     *)
(* every action of the registry is a step of two plain queues.             *)
(***************************************************************************)
EXTENDS PendingRegistry, SequenceLemmas, SequenceTheorems

\* The steps are first-order over sets and functions and left to Zenon; the
\* ones with arithmetic, sequences or larger records name an SMT solver.
USE ZenonT(30)

\* RemoveAt drops one element and closes the gap.
LEMMA RemoveAtFacts ==
    ASSUME NEW S, NEW s \in Seq(S), NEW i \in 1..Len(s)
    PROVE  /\ RemoveAt(s, i) \in Seq(S)
           /\ Len(RemoveAt(s, i)) = Len(s) - 1
           /\ \A j \in 1..(Len(s) - 1) : RemoveAt(s, i)[j] = IF j < i THEN s[j] ELSE s[j + 1]
<1> DEFINE l == SubSeq(s, 1, i - 1)
           r == SubSeq(s, i + 1, Len(s))
<1>0. \A j \in 1..Len(s) : s[j] \in S
  BY ElementOfSeq
<1>1. /\ l \in Seq(S) /\ Len(l) = i - 1
      /\ \A j \in 1..(i - 1) : l[j] = s[j]
  BY <1>0, SubSeqProperties, SMTT(20)
<1>2. /\ r \in Seq(S) /\ Len(r) = Len(s) - i
      /\ \A j \in 1..(Len(s) - i) : r[j] = s[i + j]
  BY <1>0, SubSeqProperties, SMTT(20)
<1> HIDE DEF l, r
<1>3. /\ l \o r \in Seq(S) /\ Len(l \o r) = Len(l) + Len(r)
      /\ \A j \in 1..(Len(l) + Len(r)) :
            (l \o r)[j] = IF j <= Len(l) THEN l[j] ELSE r[j - Len(l)]
  BY <1>1, <1>2, ConcatProperties
<1>4. ASSUME NEW j \in 1..(Len(s) - 1)
      PROVE  (l \o r)[j] = IF j < i THEN s[j] ELSE s[j + 1]
  <2>0. Len(s) \in Nat /\ j \in 1..(Len(l) + Len(r))
    BY <1>1, <1>2, LenProperties, SMTT(20)
  <2>1. CASE j < i
    BY <1>1, <1>3, <2>0, <2>1, SMTT(20)
  <2>2. CASE ~(j < i)
    <3>1. (l \o r)[j] = r[j - (i - 1)]
      BY <1>1, <1>3, <2>0, <2>2, SMTT(20)
    <3>2. j - (i - 1) \in 1..(Len(s) - i) /\ i + (j - (i - 1)) = j + 1
      BY <2>0, <2>2, SMTT(20)
    <3> QED
      BY <1>2, <2>2, <3>1, <3>2
  <2> QED
    BY <2>1, <2>2
<1>5. Len(l \o r) = Len(s) - 1
  BY <1>1, <1>2, <1>3, LenProperties, SMTT(20)
<1> QED
  BY <1>3, <1>4, <1>5 DEF RemoveAt, l, r

\* Front and Last split a non-empty sequence.
LEMMA FrontFacts ==
    ASSUME NEW S, NEW s \in Seq(S), s # <<>>
    PROVE  /\ Front(s) \in Seq(S) /\ Len(Front(s)) = Len(s) - 1
           /\ \A j \in 1..(Len(s) - 1) : Front(s)[j] = s[j]
           /\ Len(s) \in 1..Len(s) /\ Last(s) = s[Len(s)] /\ Last(s) \in S
<1>0. \A j \in 1..Len(s) : s[j] \in S
  BY ElementOfSeq
<1>1. Len(s) \in Nat /\ Len(s) # 0
  BY EmptySeq, LenProperties
<1>2. /\ Front(s) \in Seq(S) /\ Len(Front(s)) = Len(s) - 1
      /\ \A j \in 1..(Len(s) - 1) : Front(s)[j] = s[j]
  <2> DEFINE n == Len(s) - 1
  <2>1. n \in Int /\ 1 \in Int /\ \A j \in 1..n : s[j] \in S
    BY <1>0, <1>1, SMTT(20)
  <2>2. /\ SubSeq(s, 1, n) \in Seq(S)
        /\ Len(SubSeq(s, 1, n)) = IF 1 <= n THEN n - 1 + 1 ELSE 0
        /\ \A j \in 1..(n - 1 + 1) : SubSeq(s, 1, n)[j] = s[1 + j - 1]
    <3> HIDE DEF n
    <3> QED BY <2>1, SubSeqProperties, SMTT(20)
  <2>3. ASSUME NEW j \in 1..n PROVE Front(s)[j] = s[j]
    <3>1. j \in 1..(n - 1 + 1) /\ 1 + j - 1 = j
      BY <1>1, SMTT(20)
    <3>2. SubSeq(s, 1, n)[j] = s[1 + j - 1]
      BY <2>2, <3>1
    <3> QED
      BY <3>1, <3>2 DEF Front
  <2>4. Len(Front(s)) = n
    <3>1. Len(Front(s)) = IF 1 <= n THEN n - 1 + 1 ELSE 0
      BY <2>2 DEF Front
    <3>2. n \in Nat
      BY <1>1, SMTT(20)
    <3> HIDE DEF n
    <3> QED
      BY <3>1, <3>2, SMTT(20)
  <2> QED
    BY <2>2, <2>3, <2>4 DEF Front
<1> QED
  BY <1>0, <1>1, <1>2, SMTT(20) DEF Last

\* Taking the last element off an injective sequence takes it off its range.
LEMMA FrontInjective ==
    ASSUME NEW S, NEW s \in Seq(S), s # <<>>, IsInjective(s)
    PROVE  /\ IsInjective(Front(s)) /\ Last(s) \in Range(s)
           /\ Range(Front(s)) = Range(s) \ {Last(s)}
<1> DEFINE n == Len(s)
           f == Front(s)
<1>1. /\ f \in Seq(S) /\ Len(f) = n - 1
      /\ \A j \in 1..(n - 1) : f[j] = s[j]
      /\ n \in 1..n /\ Last(s) = s[n]
  BY FrontFacts
<1>2. n \in Nat /\ DOMAIN s = 1..n /\ DOMAIN f = 1..(n - 1)
  BY <1>1, LenProperties
<1> SUFFICES IsInjective(f) /\ s[n] \in Range(s) /\ Range(f) = Range(s) \ {s[n]}
  BY <1>1
<1> HIDE DEF n, f
<1>3. \A j \in DOMAIN f : j \in DOMAIN s /\ f[j] = s[j] /\ j # n
  BY <1>1, <1>2, SMTT(20)
<1>4. \A j \in DOMAIN s : j # n => j \in DOMAIN f
  BY <1>2, SMTT(20)
<1>5. n \in DOMAIN s
  BY <1>1, <1>2
<1>6. IsInjective(f)
  BY <1>3 DEF IsInjective
<1>7. ASSUME NEW j \in DOMAIN f PROVE f[j] \in Range(s) \ {s[n]}
  BY <1>3, <1>5 DEF IsInjective, Range
<1>8. ASSUME NEW j \in DOMAIN s, s[j] # s[n] PROVE s[j] \in Range(f)
  BY <1>3, <1>4, <1>8 DEF Range
<1> QED
  BY <1>5, <1>6, <1>7, <1>8 DEF Range

\* Appending a new element keeps a sequence injective and grows its range.
LEMMA AppendKeepsInjective ==
    ASSUME NEW S, NEW s \in Seq(S), NEW x \in S, IsInjective(s), x \notin Range(s)
    PROVE  /\ Append(s, x) \in Seq(S) /\ IsInjective(Append(s, x))
           /\ Range(Append(s, x)) = Range(s) \cup {x}
<1> DEFINE n == Len(s)
           f == Append(s, x)
<1>1. /\ f \in Seq(S) /\ DOMAIN f = 1..(n + 1) /\ DOMAIN s = 1..n /\ n \in Nat
      /\ \A j \in 1..n : f[j] = s[j]
      /\ f[n + 1] = x
  BY AppendProperties, LenProperties, SMTT(20)
<1> SUFFICES IsInjective(f) /\ Range(f) = Range(s) \cup {x}
  BY <1>1
<1> HIDE DEF n, f
<1>2. \A j \in DOMAIN f : j # n + 1 => j \in DOMAIN s /\ f[j] = s[j]
  BY <1>1, SMTT(20)
<1>3. \A j \in DOMAIN s : j \in DOMAIN f /\ j # n + 1 /\ f[j] = s[j] /\ s[j] # x
  BY <1>1, SMTT(20) DEF Range
<1>4. n + 1 \in DOMAIN f /\ f[n + 1] = x
  BY <1>1, SMTT(20)
<1>5. IsInjective(f)
  BY <1>2, <1>3, <1>4 DEF IsInjective
<1>6. Range(f) = Range(s) \cup {x}
  BY <1>2, <1>3, <1>4 DEF Range
<1> QED
  BY <1>5, <1>6

\* Replacing one element of a sequence keeps the rest.
LEMMA ExceptFacts ==
    ASSUME NEW S, NEW s \in Seq(S), NEW i \in DOMAIN s, NEW x \in S
    PROVE  /\ [s EXCEPT ![i] = x] \in Seq(S)
           /\ DOMAIN [s EXCEPT ![i] = x] = DOMAIN s
           /\ [s EXCEPT ![i] = x][i] = x
           /\ \A j \in DOMAIN s \ {i} : [s EXCEPT ![i] = x][j] = s[j]
<1>1. i \in 1..Len(s)
  BY LenProperties
<1> QED
  BY <1>1, ExceptSeq

RecordSet == [kind : Kinds, edge : Nat \ {0}, inv : Scopes]

IInv == CoreTyped /\ EdgeOwnership

--------------------------------------------------------------------------------
(* How the helpers change the set of edges that records own.                *)

\* Records moved one to one, all but one of them, keep distinct edges.
LEMMA Shrunk ==
    ASSUME NEW rs, NEW q, DistinctEdges(rs), NEW i \in DOMAIN rs,
           NEW src \in [DOMAIN q -> DOMAIN rs],
           \A j \in DOMAIN q : q[j] = rs[src[j]] /\ src[j] # i,
           \A j, k \in DOMAIN q : src[j] = src[k] => j = k,
           \A m \in DOMAIN rs : m # i => \E j \in DOMAIN q : src[j] = m
    PROVE  DistinctEdges(q) /\ EdgeOf(q) = EdgeOf(rs) \ {rs[i].edge}
<1>1. DistinctEdges(q)
  BY SMTT(20) DEF DistinctEdges
<1>2. ASSUME NEW j \in DOMAIN q PROVE q[j].edge \in EdgeOf(rs) \ {rs[i].edge}
  BY SMTT(20) DEF DistinctEdges, EdgeOf
<1>3. ASSUME NEW m \in DOMAIN rs, rs[m].edge # rs[i].edge
      PROVE  \E j \in DOMAIN q : q[j].edge = rs[m].edge
  BY <1>3, SMTT(20)
<1> QED
  BY <1>1, <1>2, <1>3, SMTT(20) DEF EdgeOf

\* Records moved one to one around a new one with a new edge keep distinct edges.
LEMMA Grown ==
    ASSUME NEW rs, NEW q, DistinctEdges(rs), NEW i \in DOMAIN q,
           q[i].edge \notin EdgeOf(rs), NEW src,
           \A j \in DOMAIN q : j # i => src[j] \in DOMAIN rs /\ q[j] = rs[src[j]],
           \A j, k \in DOMAIN q : j # i /\ k # i /\ src[j] = src[k] => j = k,
           \A m \in DOMAIN rs : \E j \in DOMAIN q : j # i /\ src[j] = m
    PROVE  DistinctEdges(q) /\ EdgeOf(q) = EdgeOf(rs) \cup {q[i].edge}
<1>0. \A m \in DOMAIN rs : rs[m].edge # q[i].edge
  BY DEF EdgeOf
<1>1. DistinctEdges(q)
  BY <1>0, SMTT(20) DEF DistinctEdges
<1>2. ASSUME NEW j \in DOMAIN q PROVE q[j].edge \in EdgeOf(rs) \cup {q[i].edge}
  BY SMTT(20) DEF EdgeOf
<1>3. ASSUME NEW m \in DOMAIN rs PROVE \E j \in DOMAIN q : q[j].edge = rs[m].edge
  BY SMTT(20)
<1> QED
  BY <1>2, <1>1, <1>3, SMTT(20) DEF EdgeOf

\* Removing a record gives up exactly its edge.
LEMMA RemoveRecord ==
    ASSUME NEW rs \in Seq(RecordSet), DistinctEdges(rs), NEW i \in DOMAIN rs
    PROVE  /\ RemoveAt(rs, i) \in Seq(RecordSet)
           /\ DistinctEdges(RemoveAt(rs, i))
           /\ EdgeOf(RemoveAt(rs, i)) = EdgeOf(rs) \ {rs[i].edge}
           /\ rs[i].edge \in EdgeOf(rs)
<1> DEFINE n == Len(rs)
           q == RemoveAt(rs, i)
           src == [j \in 1..(n - 1) |-> IF j < i THEN j ELSE j + 1]
<1>1. n \in Nat /\ DOMAIN rs = 1..n /\ i \in 1..n
  BY LenProperties
<1>2. /\ q \in Seq(RecordSet) /\ Len(q) = n - 1
      /\ \A j \in 1..(n - 1) : q[j] = IF j < i THEN rs[j] ELSE rs[j + 1]
  BY <1>1, RemoveAtFacts
<1>3. DOMAIN q = 1..(n - 1)
  BY <1>2, LenProperties
<1> SUFFICES /\ DistinctEdges(q)
             /\ EdgeOf(q) = EdgeOf(rs) \ {rs[i].edge}
  BY <1>2 DEF EdgeOf
<1> HIDE DEF n, q
<1>4. src \in [DOMAIN q -> DOMAIN rs]
  BY <1>1, <1>3, SMTT(20)
<1>5. \A j \in DOMAIN q : q[j] = rs[src[j]] /\ src[j] # i
  BY <1>1, <1>2, <1>3, SMTT(20)
<1>6. \A j, k \in DOMAIN q : src[j] = src[k] => j = k
  BY <1>1, <1>3, SMTT(20)
<1>7. ASSUME NEW m \in DOMAIN rs, m # i PROVE \E j \in DOMAIN q : src[j] = m
  <2>1. CASE m < i
    BY <1>1, <1>3, <2>1, SMTT(20)
  <2>2. CASE m > i
    <3>1. m - 1 \in DOMAIN q /\ src[m - 1] = m
      BY <1>1, <1>3, <2>2, SMTT(20)
    <3> QED BY <3>1
  <2> QED BY <1>1, <1>7, <2>1, <2>2, SMTT(20)
<1> HIDE DEF src
<1> QED
  BY <1>4, <1>5, <1>6, <1>7, Shrunk, SMTT(20)

\* Inserting a record claims exactly its edge.
LEMMA InsertRecord ==
    ASSUME NEW rs \in Seq(RecordSet), DistinctEdges(rs), NEW i \in DOMAIN rs,
           NEW r \in RecordSet, r.edge \notin EdgeOf(rs)
    PROVE  /\ InsertAt(rs, i, r) \in Seq(RecordSet)
           /\ DistinctEdges(InsertAt(rs, i, r))
           /\ EdgeOf(InsertAt(rs, i, r)) = EdgeOf(rs) \cup {r.edge}
<1> DEFINE n == Len(rs)
           q == InsertAt(rs, i, r)
           src == [j \in 1..(n + 1) |-> IF j < i THEN j ELSE j - 1]
<1>1. n \in Nat /\ DOMAIN rs = 1..n /\ i \in 1..n
  BY LenProperties
<1>2. /\ q \in Seq(RecordSet) /\ Len(q) = n + 1
      /\ \A j \in 1..(n + 1) : q[j] = IF j < i THEN rs[j] ELSE IF j = i THEN r ELSE rs[j - 1]
  <2>1. i \in 1..Len(rs)
    BY <1>1
  <2> HIDE DEF n, q
  <2>2. /\ InsertAt(rs, i, r) \in Seq(RecordSet) /\ Len(InsertAt(rs, i, r)) = Len(rs) + 1
        /\ \A j \in 1..(Len(rs) + 1) : InsertAt(rs, i, r)[j] = Inserted(rs, i, r, j)
    BY <2>1, InsertAtFacts
  <2> QED
    BY <2>2 DEF Inserted, n, q
<1>3. DOMAIN q = 1..(n + 1)
  BY <1>2, LenProperties
<1> SUFFICES /\ DistinctEdges(q)
             /\ EdgeOf(q) = EdgeOf(rs) \cup {r.edge}
  BY <1>2
<1> HIDE DEF n, q
<1>4. i \in DOMAIN q /\ q[i] = r
  BY <1>1, <1>2, <1>3, SMTT(20)
<1>5. \A j \in DOMAIN q : j # i => src[j] \in DOMAIN rs /\ q[j] = rs[src[j]]
  BY <1>1, <1>2, <1>3, SMTT(20)
<1>6. \A j, k \in DOMAIN q : j # i /\ k # i /\ src[j] = src[k] => j = k
  BY <1>1, <1>3, SMTT(20)
<1>7. ASSUME NEW m \in DOMAIN rs PROVE \E j \in DOMAIN q : j # i /\ src[j] = m
  <2>1. CASE m < i
    BY <1>1, <1>3, <2>1, SMTT(20)
  <2>2. CASE ~(m < i)
    <3>1. m + 1 \in DOMAIN q /\ src[m + 1] = m /\ m + 1 # i
      BY <1>1, <1>3, <2>2, SMTT(20)
    <3> QED BY <3>1
  <2> QED BY <2>1, <2>2
<1> HIDE DEF src
<1> QED
  BY <1>4, <1>5, <1>6, <1>7, Grown, SMTT(20)

\* Appending a record claims exactly its edge.
LEMMA AppendRecord ==
    ASSUME NEW rs \in Seq(RecordSet), DistinctEdges(rs),
           NEW r \in RecordSet, r.edge \notin EdgeOf(rs)
    PROVE  /\ Append(rs, r) \in Seq(RecordSet)
           /\ DistinctEdges(Append(rs, r))
           /\ EdgeOf(Append(rs, r)) = EdgeOf(rs) \cup {r.edge}
<1> DEFINE q == Append(rs, r)
<1>1. /\ q \in Seq(RecordSet) /\ DOMAIN q = 1..(Len(rs) + 1) /\ DOMAIN rs = 1..Len(rs)
      /\ Len(rs) \in Nat
      /\ \A j \in 1..Len(rs) : q[j] = rs[j]
      /\ q[Len(rs) + 1] = r
  BY AppendProperties, LenProperties, SMTT(20)
<1> HIDE DEF q
<1>2. DistinctEdges(q)
  BY <1>1, SMTT(20) DEF DistinctEdges, EdgeOf
<1>3. EdgeOf(q) = EdgeOf(rs) \cup {r.edge}
  BY <1>1, SMTT(20) DEF EdgeOf
<1> QED
  BY <1>1, <1>2, <1>3 DEF q

\* Taking the head record gives up exactly its edge.
LEMMA TailRecord ==
    ASSUME NEW rs \in Seq(RecordSet), DistinctEdges(rs), rs # <<>>
    PROVE  /\ Tail(rs) \in Seq(RecordSet)
           /\ DistinctEdges(Tail(rs))
           /\ EdgeOf(Tail(rs)) = EdgeOf(rs) \ {Head(rs).edge}
           /\ Head(rs).edge \in EdgeOf(rs) /\ Head(rs).edge \in Nat \ {0}
<1> DEFINE n == Len(rs)
           q == Tail(rs)
           src == [j \in 1..(n - 1) |-> j + 1]
<1>1. n \in Nat /\ n # 0 /\ DOMAIN rs = 1..n
  BY LenProperties, EmptySeq
<1>2. /\ q \in Seq(RecordSet) /\ Len(q) = n - 1
      /\ \A j \in 1..(n - 1) : q[j] = rs[j + 1]
  BY HeadTailProperties
<1>3. DOMAIN q = 1..(n - 1)
  BY <1>2, LenProperties
<1>h. Head(rs) = rs[1] /\ 1 \in DOMAIN rs /\ rs[1] \in RecordSet
  BY <1>1, ElementOfSeq, SMTT(20)
<1> SUFFICES DistinctEdges(q) /\ EdgeOf(q) = EdgeOf(rs) \ {rs[1].edge}
  BY <1>2, <1>h DEF EdgeOf, RecordSet
<1> HIDE DEF n, q
<1>4. src \in [DOMAIN q -> DOMAIN rs]
  BY <1>1, <1>3, SMTT(20)
<1>5. \A j \in DOMAIN q : q[j] = rs[src[j]] /\ src[j] # 1
  BY <1>1, <1>2, <1>3, SMTT(20)
<1>6. \A j, k \in DOMAIN q : src[j] = src[k] => j = k
  BY <1>1, <1>3, SMTT(20)
<1>7. ASSUME NEW m \in DOMAIN rs, m # 1 PROVE \E j \in DOMAIN q : src[j] = m
  <2>1. m - 1 \in DOMAIN q /\ src[m - 1] = m
    BY <1>1, <1>3, <1>7, SMTT(20)
  <2> QED BY <2>1
<1> HIDE DEF src
<1> QED
  BY <1>4, <1>5, <1>6, <1>7, <1>h, Shrunk, SMTT(20)

--------------------------------------------------------------------------------
(* Taking and releasing an edge.                                            *)

LiveOwnership ==
    /\ DistinctEdges(records) /\ DistinctEdges(capabilities)
    /\ EdgeOf(records) \cap EdgeOf(capabilities) = {}
    /\ IsInjective(freeEdges)
    /\ UsedEdges \cup FreeSet = DOMAIN edges
    /\ \A e \in DOMAIN edges : edges[e] = NoRef <=> e \in FreeSet
    /\ UsedEdges \cap FreeSet = {}

FreeTyped == freeEdges' \in Seq(Nat \ {0}) /\ edges' \in Seq(Objects \cup {NoRef})

\* A registration gets an edge no record owns and takes it off the free list.
LEMMA TakeEdge ==
    ASSUME CoreTyped, LiveOwnership, NEW o \in Objects, PointEdgeAt(o)
    PROVE  /\ TakenEdge \in Nat \ {0} /\ TakenEdge \notin UsedEdges
           /\ FreeTyped /\ IsInjective(freeEdges')
           /\ FreeSet' = FreeSet \ {TakenEdge}
           /\ DOMAIN edges' = DOMAIN edges \cup {TakenEdge}
           /\ edges'[TakenEdge] = o
           /\ \A e \in DOMAIN edges \ {TakenEdge} : edges'[e] = edges[e]
<1>0. edges \in Seq(Objects \cup {NoRef}) /\ freeEdges \in Seq(Nat \ {0})
  BY DEF CoreTyped
<1>1. DOMAIN edges = 1..Len(edges) /\ Len(edges) \in Nat
  BY <1>0, LenProperties
<1>f. UsedEdges \cup FreeSet = DOMAIN edges /\ UsedEdges \cap FreeSet = {} /\ IsInjective(freeEdges)
  BY DEF LiveOwnership
<1>2. CASE freeEdges = <<>>
  <2>1. /\ edges' = Append(edges, o) /\ freeEdges' = freeEdges
        /\ TakenEdge = Len(edges) + 1
    BY <1>2 DEF PointEdgeAt, TakenEdge
  <2>2. /\ edges' \in Seq(Objects \cup {NoRef}) /\ DOMAIN edges' = 1..(Len(edges) + 1)
        /\ \A e \in 1..Len(edges) : edges'[e] = edges[e]
        /\ edges'[Len(edges) + 1] = o
    BY <1>0, <2>1, AppendProperties, LenProperties, SMTT(20)
  <2>3. TakenEdge \notin DOMAIN edges /\ TakenEdge \in Nat \ {0}
    BY <1>1, <2>1, SMTT(20)
  <2>4. FreeSet' = FreeSet \ {TakenEdge} /\ TakenEdge \notin UsedEdges
    BY <1>f, <2>1, <2>3 DEF FreeSet
  <2>5. DOMAIN edges' = DOMAIN edges \cup {TakenEdge}
    BY <1>1, <2>1, <2>2, SMTT(20)
  <2> QED
    BY <1>0, <1>1, <1>f, <2>1, <2>2, <2>3, <2>4, <2>5 DEF FreeTyped
<1>3. CASE freeEdges # <<>>
  <2>1. /\ edges' = [edges EXCEPT ![Last(freeEdges)] = o] /\ freeEdges' = Front(freeEdges)
        /\ TakenEdge = Last(freeEdges)
    BY <1>3 DEF PointEdgeAt, TakenEdge
  <2>2. freeEdges' \in Seq(Nat \ {0}) /\ TakenEdge \in Nat \ {0}
    BY <1>0, <1>3, <2>1, FrontFacts
  <2>3. IsInjective(freeEdges') /\ TakenEdge \in FreeSet /\ FreeSet' = FreeSet \ {TakenEdge}
    BY <1>0, <1>3, <1>f, <2>1, FrontInjective DEF FreeSet
  <2>4. TakenEdge \in DOMAIN edges /\ TakenEdge \notin UsedEdges
    BY <1>f, <2>3
  <2>5. /\ edges' \in Seq(Objects \cup {NoRef}) /\ DOMAIN edges' = DOMAIN edges
        /\ edges'[TakenEdge] = o
        /\ \A e \in DOMAIN edges \ {TakenEdge} : edges'[e] = edges[e]
    BY <1>0, <2>1, <2>4, ExceptFacts
  <2> QED
    BY <2>2, <2>3, <2>4, <2>5 DEF FreeTyped
<1> QED
  BY <1>2, <1>3

\* Releasing an owned edge clears it and puts it on the free list once.
LEMMA GiveEdge ==
    ASSUME CoreTyped, LiveOwnership, NEW e \in UsedEdges, e \in Nat \ {0}, ReleaseEdge(e)
    PROVE  /\ FreeTyped /\ IsInjective(freeEdges')
           /\ FreeSet' = FreeSet \cup {e}
           /\ DOMAIN edges' = DOMAIN edges /\ edges'[e] = NoRef
           /\ \A x \in DOMAIN edges \ {e} : edges'[x] = edges[x]
<1>0. edges \in Seq(Objects \cup {NoRef}) /\ freeEdges \in Seq(Nat \ {0})
  BY DEF CoreTyped
<1>1. edges' = [edges EXCEPT ![e] = NoRef] /\ freeEdges' = Append(freeEdges, e)
  BY DEF ReleaseEdge
<1>2. e \in DOMAIN edges /\ e \notin FreeSet /\ IsInjective(freeEdges)
  BY DEF LiveOwnership
<1>3. /\ edges' \in Seq(Objects \cup {NoRef}) /\ DOMAIN edges' = DOMAIN edges
      /\ edges'[e] = NoRef /\ \A x \in DOMAIN edges \ {e} : edges'[x] = edges[x]
  BY <1>0, <1>1, <1>2, ExceptFacts
<1>4. freeEdges' \in Seq(Nat \ {0}) /\ IsInjective(freeEdges') /\ FreeSet' = FreeSet \cup {e}
  <2> DEFINE N == Nat \ {0}
  <2>1. freeEdges \in Seq(N) /\ e \in N /\ e \notin Range(freeEdges)
    BY <1>0, <1>2 DEF FreeSet
  <2> HIDE DEF N
  <2>2. /\ Append(freeEdges, e) \in Seq(N) /\ IsInjective(Append(freeEdges, e))
        /\ Range(Append(freeEdges, e)) = Range(freeEdges) \cup {e}
    BY <1>2, <2>1, AppendKeepsInjective, SMTT(20)
  <2> QED
    BY <1>1, <2>2 DEF FreeSet, N
<1> QED
  BY <1>3, <1>4 DEF FreeTyped
--------------------------------------------------------------------------------
(* Ownership across a claim and across a release, on sets alone.            *)

\* A registration makes an unowned edge its record's own and nobody else's.
LEMMA Claim ==
    ASSUME LiveOwnership, NEW e, NEW o \in Objects, e \notin UsedEdges,
           DistinctEdges(records'), DistinctEdges(capabilities'),
           EdgeOf(records') \cap EdgeOf(capabilities') = {},
           UsedEdges' = UsedEdges \cup {e},
           IsInjective(freeEdges'), FreeSet' = FreeSet \ {e},
           DOMAIN edges' = DOMAIN edges \cup {e}, edges'[e] = o,
           \A x \in DOMAIN edges \ {e} : edges'[x] = edges[x]
    PROVE  LiveOwnership'
<1>1. o # NoRef
  BY RegistryAssumption
<1>2. UsedEdges' \cup FreeSet' = DOMAIN edges' /\ UsedEdges' \cap FreeSet' = {}
  BY DEF LiveOwnership
<1>3. \A x \in DOMAIN edges' : edges'[x] = NoRef <=> x \in FreeSet'
  BY <1>1 DEF LiveOwnership
<1> QED
  BY <1>2, <1>3 DEF LiveOwnership

\* A drain gives the edge of its record back to the free ones.
LEMMA Release ==
    ASSUME LiveOwnership, NEW e, e \in UsedEdges,
           DistinctEdges(records'), DistinctEdges(capabilities'),
           EdgeOf(records') \cap EdgeOf(capabilities') = {},
           UsedEdges' = UsedEdges \ {e},
           IsInjective(freeEdges'), FreeSet' = FreeSet \cup {e},
           DOMAIN edges' = DOMAIN edges, edges'[e] = NoRef,
           \A x \in DOMAIN edges \ {e} : edges'[x] = edges[x]
    PROVE  LiveOwnership'
<1>1. UsedEdges' \cup FreeSet' = DOMAIN edges' /\ UsedEdges' \cap FreeSet' = {}
  BY DEF LiveOwnership
<1>2. \A x \in DOMAIN edges' : edges'[x] = NoRef <=> x \in FreeSet'
  BY DEF LiveOwnership
<1> QED
  BY <1>1, <1>2 DEF LiveOwnership

\* A record of a queue goes and its edge is released.
LEMMA DropRecord ==
    ASSUME CoreTyped, LiveOwnership, NEW i \in DOMAIN records,
           records' = RemoveAt(records, i), ReleaseEdge(records[i].edge),
           UNCHANGED capabilities
    PROVE  LiveOwnership' /\ FreeTyped /\ records' \in Seq(RecordSet)
<1> DEFINE e == records[i].edge
<1>1. records \in Seq(RecordSet)
  BY DEF CoreTyped, RecordSet
<1>2. DistinctEdges(records) /\ EdgeOf(records) \cap EdgeOf(capabilities) = {}
  BY DEF LiveOwnership
<1>3. /\ records' \in Seq(RecordSet) /\ DistinctEdges(records')
      /\ EdgeOf(records') = EdgeOf(records) \ {e} /\ e \in EdgeOf(records)
  BY <1>1, <1>2, RemoveRecord
<1>4. e \in Nat \ {0}
  <2>1. records[i] \in RecordSet
    BY <1>1, LenProperties, ElementOfSeq
  <2> QED BY <2>1 DEF RecordSet
<1>5. e \in UsedEdges /\ ReleaseEdge(e)
  BY <1>3 DEF UsedEdges
<1> HIDE DEF e
<1>6. /\ FreeTyped /\ IsInjective(freeEdges')
      /\ FreeSet' = FreeSet \cup {e}
      /\ DOMAIN edges' = DOMAIN edges /\ edges'[e] = NoRef
      /\ \A x \in DOMAIN edges \ {e} : edges'[x] = edges[x]
  BY <1>4, <1>5, GiveEdge
<1>7. UsedEdges' = UsedEdges \ {e} /\ EdgeOf(records') \cap EdgeOf(capabilities') = {}
      /\ DistinctEdges(capabilities')
  BY <1>2, <1>3 DEF UsedEdges, LiveOwnership
<1>8. LiveOwnership'
  BY <1>3, <1>5, <1>6, <1>7, Release
<1> QED
  BY <1>3, <1>6, <1>8

\* The first deferred capability goes and its edge is released.
LEMMA DropCapability ==
    ASSUME CoreTyped, LiveOwnership, capabilities # <<>>,
           capabilities' = Tail(capabilities), ReleaseEdge(Head(capabilities).edge),
           UNCHANGED records
    PROVE  LiveOwnership' /\ FreeTyped /\ capabilities' \in Seq(RecordSet)
<1> DEFINE e == Head(capabilities).edge
<1>1. capabilities \in Seq(RecordSet)
  BY DEF CoreTyped, RecordSet
<1>2. DistinctEdges(capabilities) /\ EdgeOf(records) \cap EdgeOf(capabilities) = {}
  BY DEF LiveOwnership
<1>3. /\ capabilities' \in Seq(RecordSet) /\ DistinctEdges(capabilities')
      /\ EdgeOf(capabilities') = EdgeOf(capabilities) \ {e} /\ e \in EdgeOf(capabilities)
      /\ e \in Nat \ {0}
  BY <1>1, <1>2, TailRecord
<1>5. e \in UsedEdges /\ ReleaseEdge(e)
  BY <1>3 DEF UsedEdges
<1> HIDE DEF e
<1>6. /\ FreeTyped /\ IsInjective(freeEdges')
      /\ FreeSet' = FreeSet \cup {e}
      /\ DOMAIN edges' = DOMAIN edges /\ edges'[e] = NoRef
      /\ \A x \in DOMAIN edges \ {e} : edges'[x] = edges[x]
  BY <1>3, <1>5, GiveEdge
<1>7. UsedEdges' = UsedEdges \ {e} /\ EdgeOf(records') \cap EdgeOf(capabilities') = {}
      /\ DistinctEdges(records')
  BY <1>2, <1>3 DEF UsedEdges, LiveOwnership
<1>8. LiveOwnership'
  BY <1>3, <1>5, <1>6, <1>7, Release
<1> QED
  BY <1>3, <1>6, <1>8

\* A new record takes an edge, at the end of a queue or before a record of it.
LEMMA NewRecord ==
    ASSUME CoreTyped, LiveOwnership, NEW o \in Objects, NEW v \in Scopes, PointEdgeAt(o),
           \/ /\ UNCHANGED capabilities
              /\ \/ records' = Append(records, Record(KindOf[o], TakenEdge, v))
                 \/ \E i \in DOMAIN records :
                      records' = InsertAt(records, i, Record(KindOf[o], TakenEdge, v))
           \/ /\ UNCHANGED records
              /\ capabilities' = Append(capabilities, Record(KindOf[o], TakenEdge, v))
    PROVE  /\ LiveOwnership' /\ FreeTyped
           /\ records' \in Seq(RecordSet) /\ capabilities' \in Seq(RecordSet)
<1> DEFINE Taken(e) == /\ e \in Nat \ {0} /\ e \notin UsedEdges
                       /\ FreeTyped /\ IsInjective(freeEdges')
                       /\ FreeSet' = FreeSet \ {e}
                       /\ DOMAIN edges' = DOMAIN edges \cup {e}
                       /\ edges'[e] = o
                       /\ \A x \in DOMAIN edges \ {e} : edges'[x] = edges[x]
<1>0. Taken(TakenEdge)
  BY TakeEdge
<1> DEFINE e == TakenEdge
           r == Record(KindOf[o], e, v)
<1> HIDE DEF Taken
<1>1. Taken(e)
  BY <1>0
<1> USE DEF Taken
<1>2. r \in RecordSet /\ r.edge = e
  BY <1>1, RegistryAssumption DEF RecordSet, Record
<1>3. records \in Seq(RecordSet) /\ capabilities \in Seq(RecordSet)
  BY DEF CoreTyped, RecordSet
<1>4. /\ DistinctEdges(records) /\ DistinctEdges(capabilities)
      /\ EdgeOf(records) \cap EdgeOf(capabilities) = {}
      /\ e \notin EdgeOf(records) /\ e \notin EdgeOf(capabilities)
  BY <1>1 DEF LiveOwnership, UsedEdges
<1> HIDE DEF e, r
<1>5. SUFFICES /\ records' \in Seq(RecordSet) /\ capabilities' \in Seq(RecordSet)
               /\ DistinctEdges(records') /\ DistinctEdges(capabilities')
               /\ EdgeOf(records') \cap EdgeOf(capabilities') = {}
               /\ UsedEdges' = UsedEdges \cup {e}
  <2>1. LiveOwnership'
    BY <1>1, <1>5, Claim
  <2> QED BY <1>1, <1>5, <2>1
<1>6. CASE UNCHANGED capabilities /\ records' = Append(records, r)
  BY <1>2, <1>3, <1>4, <1>6, AppendRecord DEF UsedEdges
<1>7. ASSUME UNCHANGED capabilities, NEW i \in DOMAIN records, records' = InsertAt(records, i, r)
      PROVE  /\ records' \in Seq(RecordSet) /\ capabilities' \in Seq(RecordSet)
             /\ DistinctEdges(records') /\ DistinctEdges(capabilities')
             /\ EdgeOf(records') \cap EdgeOf(capabilities') = {}
             /\ UsedEdges' = UsedEdges \cup {e}
  BY <1>2, <1>3, <1>4, <1>7, InsertRecord, SMTT(20) DEF UsedEdges
<1>8. CASE UNCHANGED records /\ capabilities' = Append(capabilities, r)
  BY <1>2, <1>3, <1>4, <1>8, AppendRecord DEF UsedEdges
<1> QED
  BY <1>6, <1>7, <1>8 DEF e, r

--------------------------------------------------------------------------------
(* The induction.                                                           *)


\* Each action of the registry keeps the invariant.
LEMMA IInvStep ==
    ASSUME IInv, [Next]_vars
    PROVE  IInv'
<1>1. CoreTyped /\ (ownerLive => LiveOwnership)
  BY DEF IInv, EdgeOwnership, LiveOwnership
<1>2. SUFFICES CoreTyped' /\ (ownerLive' => LiveOwnership')
  BY <1>2 DEF IInv, EdgeOwnership, LiveOwnership
<1>3. /\ records \in Seq(RecordSet) /\ capabilities \in Seq(RecordSet)
      /\ freeEdges \in Seq(Nat \ {0}) /\ edges \in Seq(Objects \cup {NoRef})
      /\ status \in [Objects -> {"unborn", "live", "dead"}]
      /\ held \subseteq Objects /\ ownerLive \in BOOLEAN
  BY <1>1 DEF CoreTyped, RecordSet
<1>4. SUFFICES ASSUME Next \/ UNCHANGED vars
               PROVE  /\ records' \in Seq(RecordSet) /\ capabilities' \in Seq(RecordSet) /\ FreeTyped
                      /\ status' \in [Objects -> {"unborn", "live", "dead"}]
                      /\ held' \subseteq Objects /\ ownerLive' \in BOOLEAN
                      /\ ownerLive' => LiveOwnership'
  BY DEF CoreTyped, RecordSet, FreeTyped
<1> DEFINE Goal == /\ records' \in Seq(RecordSet) /\ capabilities' \in Seq(RecordSet) /\ FreeTyped
                   /\ status' \in [Objects -> {"unborn", "live", "dead"}]
                   /\ held' \subseteq Objects /\ ownerLive' \in BOOLEAN
                   /\ ownerLive' => LiveOwnership'
<1>u. ASSUME UNCHANGED <<records, capabilities, freeEdges, edges, ownerLive>>
      PROVE  /\ records' \in Seq(RecordSet) /\ capabilities' \in Seq(RecordSet) /\ FreeTyped
             /\ ownerLive' \in BOOLEAN /\ ownerLive' => LiveOwnership'
  BY <1>1, <1>3, <1>u DEF FreeTyped, LiveOwnership, UsedEdges, FreeSet
<1>s. Scopes = Invocations \cup {NoInv} /\ NoInv \in Scopes
  BY DEF Scopes
<1>5. ASSUME NEW o \in Objects, NEW v \in Scopes, Register(o, v) PROVE Goal
  <2>1. /\ ownerLive /\ PointEdgeAt(o) /\ UNCHANGED <<capabilities, held, ownerLive>>
        /\ records' = Append(records, Record(KindOf[o], TakenEdge, v))
        /\ status' = [status EXCEPT ![o] = "live"]
    BY <1>5 DEF Register, Birth
  <2>2. LiveOwnership' /\ FreeTyped /\ records' \in Seq(RecordSet) /\ capabilities' \in Seq(RecordSet)
    BY <1>1, <2>1, NewRecord
  <2> QED BY <1>3, <2>1, <2>2
<1>6. ASSUME NEW o \in Objects, NEW b \in Objects, RegisterBefore(o, b) PROVE Goal
  <2>1. /\ ownerLive /\ PointEdgeAt(o) /\ UNCHANGED <<capabilities, held, ownerLive>>
        /\ status' = [status EXCEPT ![o] = "live"]
        /\ \E i \in DOMAIN records :
             records' = InsertAt(records, i, Record(KindOf[o], TakenEdge, records[i].inv))
    BY <1>6 DEF RegisterBefore, Birth
  <2>2. PICK i \in DOMAIN records :
             records' = InsertAt(records, i, Record(KindOf[o], TakenEdge, records[i].inv))
    BY <2>1
  <2>3. records[i].inv \in Scopes
    <3>1. records[i] \in RecordSet
      BY <1>3, LenProperties, ElementOfSeq
    <3> QED BY <3>1 DEF RecordSet
  <2>4. LiveOwnership' /\ FreeTyped /\ records' \in Seq(RecordSet) /\ capabilities' \in Seq(RecordSet)
    BY <1>1, <2>1, <2>2, <2>3, NewRecord
  <2> QED BY <1>3, <2>1, <2>4
<1>7. ASSUME NEW o \in Objects, DeferCapability(o) PROVE Goal
  <2>1. /\ ownerLive /\ PointEdgeAt(o) /\ UNCHANGED <<records, status, ownerLive>>
        /\ capabilities' = Append(capabilities, Record(KindOf[o], TakenEdge, NoInv))
        /\ held' \subseteq held
    BY <1>7 DEF DeferCapability
  <2>2. LiveOwnership' /\ FreeTyped /\ records' \in Seq(RecordSet) /\ capabilities' \in Seq(RecordSet)
    BY <1>1, <1>s, <2>1, NewRecord
  <2> QED BY <1>3, <2>1, <2>2
<1>8. ASSUME NEW o \in Objects, Settle(o) \/ Die(o) PROVE Goal
  <2>1. /\ UNCHANGED <<records, capabilities, freeEdges, edges, ownerLive>>
        /\ held' \subseteq held /\ status' \in [Objects -> {"unborn", "live", "dead"}]
    <3>1. status \in [Objects -> {"unborn", "live", "dead"}] /\ (Settle(o) \/ Die(o))
      BY <1>3, <1>8
    <3>2. CASE Settle(o)
      BY <3>1, <3>2 DEF Settle
    <3>3. CASE Die(o)
      BY <3>1, <3>3 DEF Die
    <3> QED BY <3>1, <3>2, <3>3
  <2> QED BY <1>3, <1>u, <2>1
<1>9. ASSUME NEW sel, NextPending(sel) PROVE Goal
  <2>1. /\ ownerLive /\ UNCHANGED <<capabilities, status, ownerLive>>
        /\ \E i \in DOMAIN records : /\ records' = RemoveAt(records, i)
                                     /\ ReleaseEdge(records[i].edge)
        /\ held' \subseteq Objects
    BY <1>3, <1>9 DEF NextPending, Upgraded
  <2>2. LiveOwnership' /\ FreeTyped /\ records' \in Seq(RecordSet)
    BY <1>1, <2>1, DropRecord
  <2> QED BY <1>3, <2>1, <2>2
<1>10. ASSUME NextCapability PROVE Goal
  <2>1. /\ ownerLive /\ UNCHANGED <<records, status, held, ownerLive>> /\ capabilities # <<>>
        /\ capabilities' = Tail(capabilities) /\ ReleaseEdge(Head(capabilities).edge)
    BY <1>10 DEF NextCapability
  <2>2. LiveOwnership' /\ FreeTyped /\ capabilities' \in Seq(RecordSet)
    BY <1>1, <2>1, DropCapability
  <2> QED BY <1>3, <2>1, <2>2
<1>11. ASSUME RemoveStep PROVE Goal
  <2>1. /\ ownerLive /\ UNCHANGED <<capabilities, status, held, ownerLive>>
        /\ \/ \E i \in DOMAIN records : /\ records' = RemoveAt(records, i)
                                        /\ ReleaseEdge(records[i].edge)
           \/ UNCHANGED <<records, freeEdges, edges>>
    BY <1>11 DEF RemoveStep
  <2>2. CASE UNCHANGED <<records, freeEdges, edges>>
    BY <1>3, <1>u, <2>1, <2>2
  <2>3. CASE \E i \in DOMAIN records : /\ records' = RemoveAt(records, i)
                                       /\ ReleaseEdge(records[i].edge)
    <3>1. LiveOwnership' /\ FreeTyped /\ records' \in Seq(RecordSet)
      BY <1>1, <2>1, <2>3, DropRecord
    <3> QED BY <1>3, <2>1, <3>1
  <2> QED BY <2>1, <2>2, <2>3
<1>12. ASSUME \/ AbandonRemove \/ UNCHANGED vars
              \/ \E k, vs, doomed : BeginRemove(k, vs, doomed)
       PROVE  Goal
  <2>1. UNCHANGED <<records, capabilities, freeEdges, edges, status, held, ownerLive>>
    <3>1. CASE AbandonRemove \/ UNCHANGED vars
      BY <3>1 DEF AbandonRemove, vars
    <3>2. ASSUME NEW k, NEW vs, NEW doomed, BeginRemove(k, vs, doomed)
          PROVE  UNCHANGED <<records, capabilities, freeEdges, edges, status, held, ownerLive>>
      BY <3>2 DEF BeginRemove
    <3> QED BY <1>12, <3>1, <3>2
  <2> QED BY <1>3, <1>u, <2>1
<1>13. ASSUME OwnerTerminal PROVE Goal
  <2>1. /\ UNCHANGED <<records, capabilities, freeEdges, status, held>> /\ ownerLive' = FALSE
        /\ edges' = <<>>
    BY <1>13 DEF OwnerTerminal
  <2>2. FreeTyped
    BY <1>3, <2>1, EmptySeq DEF FreeTyped
  <2>3. ownerLive' \in BOOLEAN /\ ~ownerLive'
    BY <2>1
  <2>4. records' \in Seq(RecordSet) /\ capabilities' \in Seq(RecordSet)
    BY <1>3, <2>1
  <2>5. held' \subseteq Objects /\ status' \in [Objects -> {"unborn", "live", "dead"}]
    BY <1>3, <2>1
  <2> QED BY <2>2, <2>3, <2>4, <2>5
<1> HIDE DEF Goal
<1>14. Goal
  BY <1>4, <1>5, <1>6, <1>7, <1>8, <1>9, <1>10, <1>11, <1>12, <1>13 DEF Next
<1> QED
  BY <1>14 DEF Goal

\* The empty registry satisfies the invariant.
LEMMA IInvInit == Init => IInv
<1>1. ASSUME Init PROVE CoreTyped /\ LiveOwnership
  <2>1. /\ records = <<>> /\ capabilities = <<>> /\ freeEdges = <<>> /\ edges = <<>>
        /\ status = [o \in Objects |-> "unborn"] /\ held = {} /\ ownerLive = TRUE
    BY <1>1 DEF Init
  <2>2. CoreTyped
    BY <2>1, EmptySeq DEF CoreTyped
  <2>3. /\ DOMAIN records = {} /\ DOMAIN capabilities = {}
        /\ DOMAIN freeEdges = {} /\ DOMAIN edges = {}
    BY <2>1, SMTT(20)
  <2>4. LiveOwnership
    BY <2>3 DEF LiveOwnership, DistinctEdges, EdgeOf, UsedEdges, FreeSet, IsInjective, Range
  <2> QED BY <2>2, <2>4
<1> QED BY <1>1 DEF IInv, EdgeOwnership, LiveOwnership

\* While the owner lives every edge of the recycled vector is free exactly once and
\* cleared, or owned by exactly one record that it keeps pointing at, whatever
\* registrations, drains, suspended removals and deaths interleave.
THEOREM EdgeOwnershipHolds == Spec => []EdgeOwnership
<1>1. Init => IInv
  BY IInvInit
<1>2. IInv /\ [Next]_vars => IInv'
  BY IInvStep
<1>3. IInv => EdgeOwnership
  BY DEF IInv
<1> QED
  BY <1>1, <1>2, <1>3, PTL DEF Spec

--------------------------------------------------------------------------------
(* A sequence is known by its length and its elements.                      *)

\* A sequence is determined by its length and its elements; here, after a removal.
LEMMA IsRemoveAt ==
    ASSUME NEW T, NEW q \in Seq(T), NEW i \in 1..Len(q), NEW p \in Seq(T), Len(p) = Len(q) - 1,
           \A j \in 1..Len(p) : p[j] = IF j < i THEN q[j] ELSE q[j + 1]
    PROVE  p = RemoveAt(q, i)
<1> DEFINE r == RemoveAt(q, i)
<1>1. r \in Seq(T) /\ Len(r) = Len(q) - 1 /\ \A j \in 1..(Len(q) - 1) : r[j] = IF j < i THEN q[j] ELSE q[j + 1]
  BY RemoveAtFacts
<1> HIDE DEF r
<1>2. \A j \in 1..Len(p) : p[j] = r[j]
  BY <1>1
<1>3. p = r
  BY <1>1, <1>2, SeqEqual
<1> QED  BY <1>3 DEF r

\* After an insertion.
LEMMA IsInsertAt ==
    ASSUME NEW T, NEW q \in Seq(T), NEW i \in 1..Len(q), NEW x \in T, NEW p \in Seq(T), Len(p) = Len(q) + 1,
           \A j \in 1..Len(p) : p[j] = IF j < i THEN q[j] ELSE IF j = i THEN x ELSE q[j - 1]
    PROVE  p = InsertAt(q, i, x)
<1> DEFINE r == InsertAt(q, i, x)
<1>1. /\ r \in Seq(T) /\ Len(r) = Len(q) + 1
      /\ \A j \in 1..(Len(q) + 1) : r[j] = IF j < i THEN q[j] ELSE IF j = i THEN x ELSE q[j - 1]
  <2>1. /\ InsertAt(q, i, x) \in Seq(T) /\ Len(InsertAt(q, i, x)) = Len(q) + 1
        /\ \A j \in 1..(Len(q) + 1) : InsertAt(q, i, x)[j] = Inserted(q, i, x, j)
    BY InsertAtFacts
  <2> QED  BY <2>1 DEF Inserted
<1> HIDE DEF r
<1>2. \A j \in 1..Len(p) : p[j] = r[j]
  BY <1>1
<1>3. p = r
  BY <1>1, <1>2, SeqEqual
<1> QED  BY <1>3 DEF r

\* After an append.
LEMMA IsAppend ==
    ASSUME NEW T, NEW q \in Seq(T), NEW x \in T, NEW p \in Seq(T), Len(p) = Len(q) + 1,
           \A j \in 1..Len(q) : p[j] = q[j], p[Len(q) + 1] = x
    PROVE  p = Append(q, x)
<1> DEFINE r == Append(q, x)
<1>1. r \in Seq(T) /\ Len(r) = Len(q) + 1 /\ Len(q) \in Nat /\ r[Len(q) + 1] = x /\ \A j \in 1..Len(q) : r[j] = q[j]
  BY AppendProperties, LenProperties, SMTT(20)
<1> HIDE DEF r
<1>2. \A j \in 1..Len(p) : p[j] = r[j]
  <2> TAKE j \in 1..Len(p)
  <2>1. j \in 1..Len(q) \/ j = Len(q) + 1
    BY <1>1, SMTT(20)
  <2> QED  BY <1>1, <2>1
<1>3. p = r
  BY <1>1, <1>2, SeqEqual
<1> QED  BY <1>3 DEF r

\* After the head was taken.
LEMMA IsTail ==
    ASSUME NEW T, NEW q \in Seq(T), q # <<>>, NEW p \in Seq(T), Len(p) = Len(q) - 1,
           \A j \in 1..Len(p) : p[j] = q[j + 1]
    PROVE  p = Tail(q)
<1> DEFINE r == Tail(q)
<1>1. r \in Seq(T) /\ Len(r) = Len(q) - 1 /\ \A j \in 1..(Len(q) - 1) : r[j] = q[j + 1]
  BY HeadTailProperties, EmptySeq, LenProperties
<1> HIDE DEF r
<1>2. \A j \in 1..Len(p) : p[j] = r[j]
  BY <1>1
<1>3. p = r
  BY <1>1, <1>2, SeqEqual
<1> QED  BY <1>3 DEF r

--------------------------------------------------------------------------------
(* Records read as entries, for a given edge vector.                        *)

EntryOf(r, w) == [obj |-> w[r.edge], kind |-> r.kind, inv |-> r.inv]
EntriesOf(rs, w) == [i \in DOMAIN rs |-> EntryOf(rs[i], w)]
EntrySet == [obj : Objects \cup {NoRef}, kind : Kinds, inv : Scopes]
EdgeVectors == Seq(Objects \cup {NoRef})

\* A record whose edge is in the vector reads as an entry.
LEMMA EntryTyped ==
    ASSUME NEW r \in RecordSet, NEW w \in EdgeVectors, r.edge \in DOMAIN w
    PROVE  EntryOf(r, w) \in EntrySet
<1>1. w[r.edge] \in Objects \cup {NoRef}
  BY ElementOfSeq, LenProperties DEF EdgeVectors
<1> QED  BY <1>1 DEF EntryOf, EntrySet, RecordSet

\* The entries of a queue of records, position by position.
LEMMA EntriesFacts ==
    ASSUME NEW rs \in Seq(RecordSet), NEW w \in EdgeVectors, EdgeOf(rs) \subseteq DOMAIN w
    PROVE  /\ EntriesOf(rs, w) \in Seq(EntrySet) /\ Len(EntriesOf(rs, w)) = Len(rs)
           /\ \A i \in 1..Len(rs) : EntriesOf(rs, w)[i] = EntryOf(rs[i], w)
<1>1. Len(rs) \in Nat /\ DOMAIN rs = 1..Len(rs)
  BY LenProperties
<1>2. \A i \in 1..Len(rs) : EntryOf(rs[i], w) \in EntrySet
  <2> TAKE i \in 1..Len(rs)
  <2>1. rs[i] \in RecordSet /\ rs[i].edge \in DOMAIN w
    BY <1>1, ElementOfSeq DEF EdgeOf
  <2> QED  BY <2>1, EntryTyped
<1>3. EntriesOf(rs, w) = [i \in 1..Len(rs) |-> EntryOf(rs[i], w)]
  BY <1>1 DEF EntriesOf
<1> QED  BY <1>1, <1>2, <1>3, SMTT(20)

\* Only the edges the records name matter.
LEMMA EntriesSame ==
    ASSUME NEW rs, NEW w, NEW x, \A e \in EdgeOf(rs) : x[e] = w[e]
    PROVE  EntriesOf(rs, x) = EntriesOf(rs, w)
BY DEF EntriesOf, EntryOf, EdgeOf

\* Removing a record removes its entry.
LEMMA EntriesRemove ==
    ASSUME NEW rs \in Seq(RecordSet), NEW w \in EdgeVectors, EdgeOf(rs) \subseteq DOMAIN w, NEW i \in DOMAIN rs,
           EdgeOf(RemoveAt(rs, i)) \subseteq DOMAIN w
    PROVE  EntriesOf(RemoveAt(rs, i), w) = RemoveAt(EntriesOf(rs, w), i)
<1>1. PICK ts : ts = RemoveAt(rs, i)
  OBVIOUS
<1>2. PICK q : q = EntriesOf(rs, w)
  OBVIOUS
<1>3. PICK p : p = EntriesOf(ts, w)
  OBVIOUS
<1>4. Len(rs) \in Nat /\ i \in 1..Len(rs)
  BY LenProperties
<1>5. /\ ts \in Seq(RecordSet) /\ Len(ts) = Len(rs) - 1
      /\ \A j \in 1..(Len(rs) - 1) : ts[j] = IF j < i THEN rs[j] ELSE rs[j + 1]
  BY <1>1, <1>4, RemoveAtFacts
<1>6. /\ q \in Seq(EntrySet) /\ Len(q) = Len(rs) /\ \A j \in 1..Len(rs) : q[j] = EntryOf(rs[j], w)
  BY <1>2, EntriesFacts
<1>7. /\ p \in Seq(EntrySet) /\ Len(p) = Len(ts) /\ \A j \in 1..Len(ts) : p[j] = EntryOf(ts[j], w)
  BY <1>1, <1>3, <1>5, EntriesFacts
<1>8. \A j \in 1..Len(p) : p[j] = IF j < i THEN q[j] ELSE q[j + 1]
  <2> TAKE j \in 1..Len(p)
  <2>1. j \in 1..(Len(rs) - 1) /\ j \in 1..Len(rs) /\ j + 1 \in 1..Len(rs) /\ j \in 1..Len(ts)
    BY <1>4, <1>5, <1>7, SMTT(20)
  <2>2. p[j] = EntryOf(ts[j], w) /\ q[j] = EntryOf(rs[j], w) /\ q[j + 1] = EntryOf(rs[j + 1], w)
    BY <2>1, <1>6, <1>7
  <2> QED  BY <2>1, <2>2, <1>5
<1>9. Len(p) = Len(q) - 1 /\ i \in 1..Len(q)
  BY <1>4, <1>5, <1>6, <1>7
<1>10. p = RemoveAt(q, i)
  BY <1>6, <1>7, <1>8, <1>9, IsRemoveAt
<1> QED  BY <1>1, <1>2, <1>3, <1>10

\* Appending a record appends its entry.
LEMMA EntriesAppend ==
    ASSUME NEW rs \in Seq(RecordSet), NEW w \in EdgeVectors, EdgeOf(rs) \subseteq DOMAIN w,
           NEW r \in RecordSet, r.edge \in DOMAIN w, EdgeOf(Append(rs, r)) \subseteq DOMAIN w
    PROVE  EntriesOf(Append(rs, r), w) = Append(EntriesOf(rs, w), EntryOf(r, w))
<1>1. PICK ts : ts = Append(rs, r)
  OBVIOUS
<1>2. PICK q : q = EntriesOf(rs, w)
  OBVIOUS
<1>3. PICK p : p = EntriesOf(ts, w)
  OBVIOUS
<1>0. PICK x : x = EntryOf(r, w)
  OBVIOUS
<1>5. /\ ts \in Seq(RecordSet) /\ Len(ts) = Len(rs) + 1 /\ Len(rs) \in Nat /\ ts[Len(rs) + 1] = r
      /\ \A j \in 1..Len(rs) : ts[j] = rs[j]
  BY <1>1, AppendProperties, LenProperties, SMTT(20)
<1>6. /\ q \in Seq(EntrySet) /\ Len(q) = Len(rs) /\ \A j \in 1..Len(rs) : q[j] = EntryOf(rs[j], w)
  BY <1>2, EntriesFacts
<1>7. /\ p \in Seq(EntrySet) /\ Len(p) = Len(ts) /\ \A j \in 1..Len(ts) : p[j] = EntryOf(ts[j], w)
  BY <1>1, <1>3, <1>5, EntriesFacts
<1>8. \A j \in 1..Len(q) : p[j] = q[j]
  BY <1>5, <1>6, <1>7, SMTT(20)
<1>9. Len(p) = Len(q) + 1 /\ p[Len(q) + 1] = x /\ x \in EntrySet
  BY <1>0, <1>5, <1>6, <1>7, EntryTyped, SMTT(20)
<1>10. p = Append(q, x)
  BY <1>6, <1>7, <1>8, <1>9, IsAppend
<1> QED  BY <1>0, <1>1, <1>2, <1>3, <1>10

\* Inserting a record inserts its entry.
LEMMA EntriesInsert ==
    ASSUME NEW rs \in Seq(RecordSet), NEW w \in EdgeVectors, EdgeOf(rs) \subseteq DOMAIN w, NEW i \in DOMAIN rs,
           NEW r \in RecordSet, r.edge \in DOMAIN w, EdgeOf(InsertAt(rs, i, r)) \subseteq DOMAIN w
    PROVE  EntriesOf(InsertAt(rs, i, r), w) = InsertAt(EntriesOf(rs, w), i, EntryOf(r, w))
<1>1. PICK ts : ts = InsertAt(rs, i, r)
  OBVIOUS
<1>2. PICK q : q = EntriesOf(rs, w)
  OBVIOUS
<1>3. PICK p : p = EntriesOf(ts, w)
  OBVIOUS
<1>0. PICK x : x = EntryOf(r, w)
  OBVIOUS
<1>4. Len(rs) \in Nat /\ i \in 1..Len(rs)
  BY LenProperties
<1>5. /\ ts \in Seq(RecordSet) /\ Len(ts) = Len(rs) + 1
      /\ \A j \in 1..(Len(rs) + 1) : ts[j] = IF j < i THEN rs[j] ELSE IF j = i THEN r ELSE rs[j - 1]
  <2>1. /\ ts \in Seq(RecordSet) /\ Len(ts) = Len(rs) + 1
        /\ \A j \in 1..(Len(rs) + 1) : ts[j] = Inserted(rs, i, r, j)
    BY <1>1, <1>4, InsertAtFacts
  <2> QED  BY <2>1 DEF Inserted
<1>6. /\ q \in Seq(EntrySet) /\ Len(q) = Len(rs) /\ \A j \in 1..Len(rs) : q[j] = EntryOf(rs[j], w)
  BY <1>2, EntriesFacts
<1>7. /\ p \in Seq(EntrySet) /\ Len(p) = Len(ts) /\ \A j \in 1..Len(ts) : p[j] = EntryOf(ts[j], w)
  BY <1>1, <1>3, <1>5, EntriesFacts
<1>8. \A j \in 1..Len(p) : p[j] = IF j < i THEN q[j] ELSE IF j = i THEN x ELSE q[j - 1]
  <2> TAKE j \in 1..Len(p)
  <2>1. j \in 1..(Len(rs) + 1) /\ j \in 1..Len(ts) /\ p[j] = EntryOf(ts[j], w)
    BY <1>4, <1>5, <1>7
  <2>2. CASE j < i
    <3>1. j \in 1..Len(rs)
      BY <1>4, <2>1, <2>2, SMTT(20)
    <3> QED  BY <1>5, <1>6, <2>1, <2>2, <3>1
  <2>3. CASE j = i
    BY <1>0, <1>4, <1>5, <2>1, <2>3, SMTT(20)
  <2>4. CASE j > i
    <3>1. j - 1 \in 1..Len(rs) /\ ~(j < i) /\ j # i
      BY <1>4, <2>1, <2>4, SMTT(20)
    <3> QED  BY <1>5, <1>6, <2>1, <3>1
  <2> QED  BY <1>4, <2>1, <2>2, <2>3, <2>4, SMTT(20)
<1>9. Len(p) = Len(q) + 1 /\ i \in 1..Len(q) /\ x \in EntrySet
  BY <1>0, <1>4, <1>5, <1>6, <1>7, EntryTyped
<1>10. p = InsertAt(q, i, x)
  BY <1>6, <1>7, <1>8, <1>9, IsInsertAt
<1> QED  BY <1>0, <1>1, <1>2, <1>3, <1>10

\* Taking the head record takes the head entry.
LEMMA EntriesTail ==
    ASSUME NEW rs \in Seq(RecordSet), NEW w \in EdgeVectors, EdgeOf(rs) \subseteq DOMAIN w, rs # <<>>,
           EdgeOf(Tail(rs)) \subseteq DOMAIN w
    PROVE  EntriesOf(Tail(rs), w) = Tail(EntriesOf(rs, w)) /\ EntriesOf(rs, w) # <<>>
<1>1. PICK ts : ts = Tail(rs)
  OBVIOUS
<1>2. PICK q : q = EntriesOf(rs, w)
  OBVIOUS
<1>3. PICK p : p = EntriesOf(ts, w)
  OBVIOUS
<1>5. /\ ts \in Seq(RecordSet) /\ Len(ts) = Len(rs) - 1 /\ Len(rs) \in Nat /\ Len(rs) # 0
      /\ \A j \in 1..(Len(rs) - 1) : ts[j] = rs[j + 1]
  BY <1>1, HeadTailProperties, EmptySeq, LenProperties
<1>6. /\ q \in Seq(EntrySet) /\ Len(q) = Len(rs) /\ \A j \in 1..Len(rs) : q[j] = EntryOf(rs[j], w)
  BY <1>2, EntriesFacts
<1>7. /\ p \in Seq(EntrySet) /\ Len(p) = Len(ts) /\ \A j \in 1..Len(ts) : p[j] = EntryOf(ts[j], w)
  BY <1>1, <1>3, <1>5, EntriesFacts
<1>8. \A j \in 1..Len(p) : p[j] = q[j + 1]
  <2> TAKE j \in 1..Len(p)
  <2>1. j \in 1..(Len(rs) - 1) /\ j + 1 \in 1..Len(rs) /\ j \in 1..Len(ts)
    BY <1>5, <1>7, SMTT(20)
  <2> QED  BY <2>1, <1>5, <1>6, <1>7
<1>9. Len(p) = Len(q) - 1 /\ q # <<>>
  BY <1>5, <1>6, <1>7, EmptySeq
<1>10. p = Tail(q)
  BY <1>6, <1>7, <1>8, <1>9, IsTail
<1> QED  BY <1>1, <1>2, <1>3, <1>9, <1>10

--------------------------------------------------------------------------------
(* The removal in progress.                                                 *)

ScanSet == [kind : SUBSET Kinds, inv : SUBSET Scopes, doomed : SUBSET Objects, todo : Seq(Nat \ {0})]
RequestOf(s) == [kind |-> s.kind, inv |-> s.inv, doomed |-> s.doomed]

\* The snapshot of a removal is a sequence of edges.
LEMMA CandidatesTyped ==
    ASSUME records \in Seq(RecordSet), NEW s
    PROVE  CandidateEdges(s) \in Seq(Nat \ {0})
<1>1. PICK S : S = {r \in Range(records) : InScope(r, s)}
  OBVIOUS
<1>2. PICK t : t = Keep(records, S)
  OBVIOUS
<1>3. t \in Seq(RecordSet)
  BY <1>2, KeepFacts
<1>4. CandidateEdges(s) = [i \in DOMAIN t |-> t[i].edge]
  BY <1>1, <1>2 DEF CandidateEdges
<1>5. Len(t) \in Nat /\ DOMAIN t = 1..Len(t) /\ \A i \in 1..Len(t) : t[i] \in RecordSet
  BY <1>3, LenProperties, ElementOfSeq
<1>6. \A i \in 1..Len(t) : t[i].edge \in Nat \ {0}
  BY <1>5 DEF RecordSet
<1> QED  BY <1>4, <1>5, <1>6, SMTT(20)

\* The next state of a removal keeps its request, or is the empty one.
LEMMA NextScanFacts ==
    ASSUME scan \in ScanSet
    PROVE  NextScan \in ScanSet /\ RequestOf(NextScan) \in {RequestOf(scan), RequestOf(NoScan)}
<1>1. CASE Len(scan.todo) <= 1
  <2>1. NextScan = NoScan
    BY <1>1 DEF NextScan
  <2>2. NoScan \in ScanSet
    BY EmptySeq DEF NoScan, ScanSet
  <2> QED  BY <2>1, <2>2
<1>2. CASE ~(Len(scan.todo) <= 1)
  <2>1. NextScan = [scan EXCEPT !.todo = Tail(@)]
    BY <1>2 DEF NextScan
  <2>2. scan.todo \in Seq(Nat \ {0}) /\ scan.todo # <<>>
    BY <1>2, EmptySeq, SMTT(20) DEF ScanSet
  <2>3. Tail(scan.todo) \in Seq(Nat \ {0})
    BY <2>2, HeadTailProperties
  <2>4. [scan EXCEPT !.todo = Tail(@)] \in ScanSet
    BY <2>3 DEF ScanSet
  <2>5. RequestOf([scan EXCEPT !.todo = Tail(@)]) = RequestOf(scan)
    BY DEF ScanSet, RequestOf
  <2> QED  BY <2>1, <2>4, <2>5
<1> QED  BY <1>1, <1>2

\* What a removal that begins is asked for.
LEMMA BeginFacts ==
    ASSUME records \in Seq(RecordSet), NEW k \in Kinds, NEW vs \in SUBSET Scopes, NEW doomed \in SUBSET Objects,
           BeginRemove(k, vs, doomed)
    PROVE  scan' \in ScanSet
<1>1. PICK s : s = [kind |-> {k}, inv |-> vs, doomed |-> doomed, todo |-> <<>>]
  OBVIOUS
<1>2. scan' = [s EXCEPT !.todo = CandidateEdges(s)]
  BY <1>1 DEF BeginRemove
<1>3. CandidateEdges(s) \in Seq(Nat \ {0})
  BY CandidatesTyped
<1>4. s \in ScanSet
  BY <1>1, EmptySeq DEF ScanSet
<1> QED  BY <1>2, <1>3, <1>4 DEF ScanSet

\* The parameters of the removals that Next begins.
LEMMA RemovalScopes ==
    ASSUME NEW k \in Kinds, NEW vs \in {Scopes} \cup {{v} : v \in Invocations},
           NEW doomed \in (SUBSET {o \in Objects : KindOf[o] = k}) \ {{}}
    PROVE  vs \in SUBSET Scopes /\ doomed \in SUBSET Objects
BY DEF Scopes

\* The removal in progress keeps its type.
LEMMA ScanStep ==
    ASSUME IInv, scan \in ScanSet, [Next]_vars
    PROVE  scan' \in ScanSet
<1>0. records \in Seq(RecordSet)
  BY DEF IInv, CoreTyped, RecordSet
<1>1. ASSUME NEW o \in Objects, NEW v \in Scopes, Register(o, v) PROVE scan' \in ScanSet
  BY <1>1 DEF Register
<1>2. ASSUME NEW o \in Objects, NEW b \in Objects, RegisterBefore(o, b) PROVE scan' \in ScanSet
  BY <1>2 DEF RegisterBefore
<1>3. ASSUME NEW o \in Objects, DeferCapability(o) \/ Settle(o) \/ Die(o) PROVE scan' \in ScanSet
  BY <1>3 DEF DeferCapability, Settle, Die
<1>4. ASSUME NEW sel \in Selections, NextPending(sel) PROVE scan' \in ScanSet
  BY <1>4 DEF NextPending
<1>5. CASE NextCapability \/ OwnerTerminal \/ UNCHANGED vars
  BY <1>5 DEF NextCapability, OwnerTerminal, vars
<1>6. ASSUME NEW k \in Kinds, NEW vs \in {Scopes} \cup {{v} : v \in Invocations},
             NEW doomed \in (SUBSET {o \in Objects : KindOf[o] = k}) \ {{}}, BeginRemove(k, vs, doomed)
      PROVE  scan' \in ScanSet
  BY <1>0, <1>6, RemovalScopes, BeginFacts
<1>7. CASE RemoveStep
  <2>1. scan' = NextScan
    BY <1>7 DEF RemoveStep
  <2> QED  BY <2>1, NextScanFacts
<1>8. CASE AbandonRemove
  BY <1>8, EmptySeq DEF AbandonRemove, NoScan, ScanSet
<1> QED  BY <1>1, <1>2, <1>3, <1>4, <1>5, <1>6, <1>7, <1>8 DEF Next

--------------------------------------------------------------------------------
(* Each action as a step of the two plain queues.                           *)

Live == /\ records \in Seq(RecordSet) /\ capabilities \in Seq(RecordSet) /\ edges \in EdgeVectors
        /\ EdgeOf(records) \subseteq DOMAIN edges /\ EdgeOf(capabilities) \subseteq DOMAIN edges

\* What the invariant says of a registry whose owner lives.
LEMMA LiveFacts ==
    ASSUME IInv, ownerLive
    PROVE  /\ CoreTyped /\ LiveOwnership /\ Live
           /\ AsEntries(records) = EntriesOf(records, edges)
           /\ AsEntries(capabilities) = EntriesOf(capabilities, edges)
<1>1. CoreTyped /\ LiveOwnership
  BY DEF IInv, EdgeOwnership, LiveOwnership
<1>2. Live
  BY <1>1 DEF CoreTyped, RecordSet, LiveOwnership, UsedEdges, EdgeVectors, Live
<1>3. /\ AsEntries(records) = EntriesOf(records, edges)
      /\ AsEntries(capabilities) = EntriesOf(capabilities, edges)
  BY DEF AsEntries, EntriesOf, EntryOf
<1> QED  BY <1>1, <1>2, <1>3

\* The same after a step.
LEMMA LiveFactsNext ==
    ASSUME IInv', ownerLive'
    PROVE  /\ CoreTyped' /\ LiveOwnership' /\ Live'
           /\ AsEntries(records)' = EntriesOf(records', edges')
           /\ AsEntries(capabilities)' = EntriesOf(capabilities', edges')
<1>1. CoreTyped' /\ LiveOwnership'
  BY DEF IInv, EdgeOwnership, LiveOwnership
<1>2. Live'
  BY <1>1 DEF CoreTyped, RecordSet, LiveOwnership, UsedEdges, EdgeVectors, Live
<1>3. /\ AsEntries(records)' = EntriesOf(records', edges')
      /\ AsEntries(capabilities)' = EntriesOf(capabilities', edges')
  BY DEF AsEntries, EntriesOf, EntryOf
<1> QED  BY <1>1, <1>2, <1>3

\* A claimed edge leaves the entries of both queues as they were and adds its own.
LEMMA ClaimEntries ==
    ASSUME IInv, IInv', ownerLive, ownerLive', NEW o \in Objects, NEW v \in Scopes, PointEdgeAt(o)
    PROVE  /\ EntriesOf(records, edges') = EntriesOf(records, edges)
           /\ EntriesOf(capabilities, edges') = EntriesOf(capabilities, edges)
           /\ EdgeOf(records) \subseteq DOMAIN edges' /\ EdgeOf(capabilities) \subseteq DOMAIN edges'
           /\ edges' \in EdgeVectors
           /\ Record(KindOf[o], TakenEdge, v) \in RecordSet
           /\ Record(KindOf[o], TakenEdge, v).edge \in DOMAIN edges'
           /\ EntryOf(Record(KindOf[o], TakenEdge, v), edges') = [obj |-> o, kind |-> KindOf[o], inv |-> v]
<1>1. CoreTyped /\ LiveOwnership /\ Live
  BY LiveFacts
<1>2. PICK e : e = TakenEdge
  OBVIOUS
<1>3. /\ e \in Nat \ {0} /\ e \notin UsedEdges /\ DOMAIN edges' = DOMAIN edges \cup {e}
      /\ edges'[e] = o /\ \A x \in DOMAIN edges \ {e} : edges'[x] = edges[x]
  BY <1>1, <1>2, TakeEdge
<1>4. edges' \in EdgeVectors
  BY LiveFactsNext DEF Live
<1>5. /\ \A x \in EdgeOf(records) : edges'[x] = edges[x]
      /\ \A x \in EdgeOf(capabilities) : edges'[x] = edges[x]
  BY <1>1, <1>3 DEF Live, UsedEdges
<1>6. /\ EntriesOf(records, edges') = EntriesOf(records, edges)
      /\ EntriesOf(capabilities, edges') = EntriesOf(capabilities, edges)
  BY <1>5, EntriesSame
<1>7. EdgeOf(records) \subseteq DOMAIN edges' /\ EdgeOf(capabilities) \subseteq DOMAIN edges'
  BY <1>1, <1>3 DEF Live
<1>8. /\ Record(KindOf[o], e, v) \in RecordSet /\ Record(KindOf[o], e, v).edge = e
      /\ EntryOf(Record(KindOf[o], e, v), edges') = [obj |-> o, kind |-> KindOf[o], inv |-> v]
  BY <1>3, RegistryAssumption DEF Record, RecordSet, EntryOf
<1> QED  BY <1>2, <1>3, <1>4, <1>6, <1>7, <1>8

\* A registration enqueues the object.
LEMMA RegisterRefines ==
    ASSUME IInv, IInv', NEW o \in Objects, NEW v \in Scopes, Register(o, v)
    PROVE  Queue!Enqueue(o, v)
<1>1. /\ ownerLive /\ ownerLive' /\ PointEdgeAt(o)
      /\ UNCHANGED <<capabilities, scan, ownerLive>>
  BY DEF Register
<1>2. PICK r : r = Record(KindOf[o], TakenEdge, v)
  OBVIOUS
<1>3. records' = Append(records, r)
  BY <1>2 DEF Register
<1>4. /\ Live /\ Live' /\ AsEntries(records) = EntriesOf(records, edges)
      /\ AsEntries(capabilities) = EntriesOf(capabilities, edges)
      /\ AsEntries(records)' = EntriesOf(records', edges')
      /\ AsEntries(capabilities)' = EntriesOf(capabilities', edges')
  BY <1>1, LiveFacts, LiveFactsNext
<1>5. /\ EntriesOf(records, edges') = EntriesOf(records, edges)
      /\ EntriesOf(capabilities, edges') = EntriesOf(capabilities, edges)
      /\ EdgeOf(records) \subseteq DOMAIN edges' /\ edges' \in EdgeVectors
      /\ r \in RecordSet /\ r.edge \in DOMAIN edges'
      /\ EntryOf(r, edges') = [obj |-> o, kind |-> KindOf[o], inv |-> v]
  BY <1>1, <1>2, ClaimEntries
<1>6. EntriesOf(records', edges') = Append(EntriesOf(records, edges'), EntryOf(r, edges'))
  <2>1. EdgeOf(Append(records, r)) \subseteq DOMAIN edges' /\ records \in Seq(RecordSet)
    BY <1>3, <1>4 DEF Live
  <2> QED  BY <1>3, <1>5, <2>1, EntriesAppend
<1>7. AsEntries(records)' = Append(AsEntries(records), [obj |-> o, kind |-> KindOf[o], inv |-> v])
  BY <1>4, <1>5, <1>6
<1>8. AsEntries(capabilities)' = AsEntries(capabilities)
  BY <1>1, <1>4, <1>5
<1> QED  BY <1>1, <1>7, <1>8 DEF Queue!Enqueue

\* A replacement is enqueued just before its original, in the original's scope.
LEMMA RegisterBeforeRefines ==
    ASSUME IInv, IInv', NEW o \in Objects, NEW b \in Objects, RegisterBefore(o, b)
    PROVE  \E i \in 1..Len(AsEntries(records)) : Queue!EnqueueBefore(i, o)
<1>1. /\ ownerLive /\ ownerLive' /\ UNCHANGED <<capabilities, scan, ownerLive>>
  BY DEF RegisterBefore
<1>2. PICK i \in DOMAIN records :
         /\ records[i].kind = KindOf[o] /\ PointEdgeAt(o)
         /\ records' = InsertAt(records, i, Record(KindOf[o], TakenEdge, records[i].inv))
  BY DEF RegisterBefore
<1>3. PICK v : v = records[i].inv
  OBVIOUS
<1>4. /\ Live /\ Live' /\ AsEntries(records) = EntriesOf(records, edges)
      /\ AsEntries(capabilities) = EntriesOf(capabilities, edges)
      /\ AsEntries(records)' = EntriesOf(records', edges')
      /\ AsEntries(capabilities)' = EntriesOf(capabilities', edges')
  BY <1>1, LiveFacts, LiveFactsNext
<1>0. i \in 1..Len(records) /\ records[i] \in RecordSet /\ v \in Scopes
  <2>1. i \in 1..Len(records) /\ records[i] \in RecordSet
    BY <1>4, LenProperties, ElementOfSeq DEF Live
  <2> QED  BY <1>3, <2>1 DEF RecordSet
<1>5. PICK r : r = Record(KindOf[o], TakenEdge, v)
  OBVIOUS
<1>6. records' = InsertAt(records, i, r)
  BY <1>2, <1>3, <1>5
<1>7. /\ EntriesOf(records, edges') = EntriesOf(records, edges)
      /\ EntriesOf(capabilities, edges') = EntriesOf(capabilities, edges)
      /\ EdgeOf(records) \subseteq DOMAIN edges' /\ edges' \in EdgeVectors
      /\ r \in RecordSet /\ r.edge \in DOMAIN edges'
      /\ EntryOf(r, edges') = [obj |-> o, kind |-> KindOf[o], inv |-> v]
  BY <1>0, <1>1, <1>2, <1>5, ClaimEntries
<1>8. EntriesOf(records', edges') = InsertAt(EntriesOf(records, edges'), i, EntryOf(r, edges'))
  <2>1. EdgeOf(InsertAt(records, i, r)) \subseteq DOMAIN edges' /\ records \in Seq(RecordSet)
    BY <1>4, <1>6 DEF Live
  <2>2. i \in DOMAIN records
    BY <1>2
  <2> QED  BY <1>6, <1>7, <2>1, <2>2, EntriesInsert
<1>9. PICK q : q = AsEntries(records)
  OBVIOUS
<1>10. Len(q) = Len(records) /\ q[i] = EntryOf(records[i], edges)
  BY <1>0, <1>4, <1>9, EntriesFacts, SMTT(20) DEF Live
<1>11. q[i].kind = KindOf[o] /\ q[i].inv = v /\ i \in 1..Len(q)
  <2>1. EntryOf(records[i], edges).kind = records[i].kind /\ EntryOf(records[i], edges).inv = records[i].inv
    BY DEF EntryOf
  <2> QED  BY <1>0, <1>2, <1>3, <1>10, <2>1
<1>12. AsEntries(records)' = InsertAt(q, i, [obj |-> o, kind |-> KindOf[o], inv |-> q[i].inv])
  BY <1>4, <1>7, <1>8, <1>9, <1>11
<1>13. AsEntries(capabilities)' = AsEntries(capabilities)
  BY <1>1, <1>4, <1>7
<1>14. Queue!EnqueueBefore(i, o)
  <2>1. \A x : Queue!InsertAt(q, i, x) = InsertAt(q, i, x)
    BY DEF Queue!InsertAt, InsertAt
  <2> QED  BY <1>1, <1>9, <1>11, <1>12, <1>13, <2>1 DEF Queue!EnqueueBefore
<1> QED  BY <1>9, <1>11, <1>14

\* A deferral appends to the capability queue.
LEMMA DeferRefines ==
    ASSUME IInv, IInv', NEW o \in Objects, DeferCapability(o)
    PROVE  Queue!Defer(o)
<1>1. /\ ownerLive /\ ownerLive' /\ PointEdgeAt(o) /\ UNCHANGED <<records, scan, ownerLive>>
  BY DEF DeferCapability
<1>2. PICK r : r = Record(KindOf[o], TakenEdge, NoInv)
  OBVIOUS
<1>3. capabilities' = Append(capabilities, r)
  BY <1>2 DEF DeferCapability
<1>4. /\ Live /\ Live' /\ AsEntries(records) = EntriesOf(records, edges)
      /\ AsEntries(capabilities) = EntriesOf(capabilities, edges)
      /\ AsEntries(records)' = EntriesOf(records', edges')
      /\ AsEntries(capabilities)' = EntriesOf(capabilities', edges')
  BY <1>1, LiveFacts, LiveFactsNext
<1>0. NoInv \in Scopes
  BY DEF Scopes
<1>5. /\ EntriesOf(records, edges') = EntriesOf(records, edges)
      /\ EntriesOf(capabilities, edges') = EntriesOf(capabilities, edges)
      /\ EdgeOf(capabilities) \subseteq DOMAIN edges' /\ edges' \in EdgeVectors
      /\ r \in RecordSet /\ r.edge \in DOMAIN edges'
      /\ EntryOf(r, edges') = [obj |-> o, kind |-> KindOf[o], inv |-> NoInv]
  BY <1>0, <1>1, <1>2, ClaimEntries
<1>6. EntriesOf(capabilities', edges') = Append(EntriesOf(capabilities, edges'), EntryOf(r, edges'))
  <2>1. EdgeOf(Append(capabilities, r)) \subseteq DOMAIN edges' /\ capabilities \in Seq(RecordSet)
    BY <1>3, <1>4 DEF Live
  <2> QED  BY <1>3, <1>5, <2>1, EntriesAppend
<1>7. AsEntries(capabilities)' = Append(AsEntries(capabilities), [obj |-> o, kind |-> KindOf[o], inv |-> NoInv])
  BY <1>4, <1>5, <1>6
<1>8. AsEntries(records)' = AsEntries(records)
  BY <1>1, <1>4, <1>5
<1> QED  BY <1>1, <1>7, <1>8 DEF Queue!Defer

\* A released edge leaves the entries of every queue that does not name it.
LEMMA ReleaseEntries ==
    ASSUME IInv, ownerLive, NEW e \in UsedEdges, e \in Nat \ {0}, ReleaseEdge(e), NEW rs,
           EdgeOf(rs) \subseteq UsedEdges, e \notin EdgeOf(rs)
    PROVE  EntriesOf(rs, edges') = EntriesOf(rs, edges)
<1>1. CoreTyped /\ LiveOwnership
  BY LiveFacts
<1>2. \A x \in DOMAIN edges \ {e} : edges'[x] = edges[x]
  BY <1>1, GiveEdge
<1>3. UsedEdges \subseteq DOMAIN edges
  BY <1>1 DEF LiveOwnership
<1>4. \A x \in EdgeOf(rs) : edges'[x] = edges[x]
  BY <1>2, <1>3
<1> QED  BY <1>4, EntriesSame

\* Removing a record and releasing its edge removes one entry of one queue.
LEMMA DropEntries ==
    ASSUME IInv, IInv', ownerLive, ownerLive', NEW i \in DOMAIN records,
           records' = RemoveAt(records, i), ReleaseEdge(records[i].edge), UNCHANGED capabilities
    PROVE  /\ AsEntries(records)' = RemoveAt(AsEntries(records), i)
           /\ AsEntries(capabilities)' = AsEntries(capabilities)
           /\ Len(AsEntries(records)) = Len(records) /\ i \in 1..Len(records)
           /\ \A j \in 1..Len(records) : AsEntries(records)[j] = EntryOf(records[j], edges)
<1>1. /\ Live /\ Live' /\ LiveOwnership /\ AsEntries(records) = EntriesOf(records, edges)
      /\ AsEntries(capabilities) = EntriesOf(capabilities, edges)
      /\ AsEntries(records)' = EntriesOf(records', edges')
      /\ AsEntries(capabilities)' = EntriesOf(capabilities', edges')
  BY LiveFacts, LiveFactsNext
<1>2. PICK e : e = records[i].edge
  OBVIOUS
<1>3. i \in 1..Len(records) /\ records[i] \in RecordSet
  BY <1>1, LenProperties, ElementOfSeq DEF Live
<1>4. e \in Nat \ {0} /\ ReleaseEdge(e)
  BY <1>2, <1>3 DEF RecordSet
<1>5. /\ DistinctEdges(records) /\ EdgeOf(records) \cap EdgeOf(capabilities) = {}
      /\ records \in Seq(RecordSet)
  BY <1>1 DEF LiveOwnership, Live
<1>6. EdgeOf(records') = EdgeOf(records) \ {e} /\ e \in EdgeOf(records)
  BY <1>2, <1>5, RemoveRecord
<1>7. /\ e \in UsedEdges /\ EdgeOf(records') \subseteq UsedEdges /\ e \notin EdgeOf(records')
      /\ EdgeOf(capabilities) \subseteq UsedEdges /\ e \notin EdgeOf(capabilities)
  BY <1>5, <1>6 DEF UsedEdges
<1>8. EntriesOf(records', edges') = EntriesOf(records', edges)
  BY <1>4, <1>7, ReleaseEntries
<1>9. EntriesOf(capabilities, edges') = EntriesOf(capabilities, edges)
  BY <1>4, <1>7, ReleaseEntries
<1>10. EntriesOf(records', edges) = RemoveAt(EntriesOf(records, edges), i)
  <2>1. /\ EdgeOf(RemoveAt(records, i)) \subseteq DOMAIN edges /\ edges \in EdgeVectors
        /\ EdgeOf(records) \subseteq DOMAIN edges
    BY <1>1, <1>6 DEF Live
  <2> QED  BY <1>5, <2>1, EntriesRemove
<1>11. /\ Len(EntriesOf(records, edges)) = Len(records)
       /\ \A j \in 1..Len(records) : EntriesOf(records, edges)[j] = EntryOf(records[j], edges)
  BY <1>1, EntriesFacts DEF Live
<1> QED  BY <1>1, <1>3, <1>8, <1>9, <1>10, <1>11

\* A drain takes the earliest entry of its selection.
LEMMA NextPendingRefines ==
    ASSUME IInv, IInv', NEW sel \in Selections, NextPending(sel)
    PROVE  \E i \in 1..Len(AsEntries(records)) : Queue!Take(sel, i)
<1>1. /\ ownerLive /\ ownerLive' /\ UNCHANGED <<capabilities, scan, ownerLive>>
  BY DEF NextPending
<1>2. PICK i \in DOMAIN records :
         /\ Matches(records[i], sel) /\ \A j \in 1..(i - 1) : ~Matches(records[j], sel)
         /\ records' = RemoveAt(records, i) /\ ReleaseEdge(records[i].edge)
  BY DEF NextPending
<1>3. PICK q : q = AsEntries(records)
  OBVIOUS
<1>4. /\ AsEntries(records)' = RemoveAt(q, i) /\ AsEntries(capabilities)' = AsEntries(capabilities)
      /\ Len(q) = Len(records) /\ i \in 1..Len(records)
      /\ \A j \in 1..Len(records) : q[j] = EntryOf(records[j], edges)
  BY <1>1, <1>2, <1>3, DropEntries
<1>5. \A j \in 1..Len(records) : Queue!Matches(q[j], sel) <=> Matches(records[j], sel)
  <2> TAKE j \in 1..Len(records)
  <2>1. q[j] = EntryOf(records[j], edges)
    BY <1>4
  <2>2. q[j].kind = records[j].kind /\ q[j].inv = records[j].inv
    BY <2>1, SMTT(20) DEF EntryOf
  <2> QED  BY <2>2 DEF Queue!Matches, Matches
<1>6. Queue!Matches(q[i], sel) /\ \A j \in 1..(i - 1) : ~Queue!Matches(q[j], sel)
  <2>1. Len(records) \in Nat
    <3>1. records \in Seq(RecordSet)
      BY DEF IInv, CoreTyped, RecordSet
    <3> QED  BY <3>1, LenProperties
  <2>2. \A j \in 1..(i - 1) : j \in 1..Len(records)
    BY <1>4, <2>1, SMTT(20)
  <2> QED  BY <1>2, <1>4, <1>5, <2>2
<1>7. Queue!RemoveAt(q, i) = RemoveAt(q, i)
  BY DEF Queue!RemoveAt, RemoveAt
<1>8. Queue!Take(sel, i)
  BY <1>1, <1>3, <1>4, <1>6, <1>7 DEF Queue!Take
<1> QED  BY <1>3, <1>4, <1>8

\* A step of a removal takes an entry it was asked for, or none.
LEMMA RemoveStepRefines ==
    ASSUME IInv, IInv', scan \in ScanSet, RemoveStep
    PROVE  \/ \E i \in 1..Len(AsEntries(records)) : Queue!RemoveEntry(i)
           \/ Queue!SetRequest
<1>1. /\ ownerLive /\ ownerLive' /\ UNCHANGED <<capabilities, ownerLive>> /\ scan' = NextScan
  BY DEF RemoveStep
<1>2. NextScan \in ScanSet /\ RequestOf(scan') \in {RequestOf(scan), RequestOf(NoScan)}
  BY <1>1, NextScanFacts
<1>3. ASSUME NEW i \in DOMAIN records, Removable(i), records' = RemoveAt(records, i),
             ReleaseEdge(records[i].edge)
      PROVE  \E k \in 1..Len(AsEntries(records)) : Queue!RemoveEntry(k)
  <2>1. PICK q : q = AsEntries(records)
    OBVIOUS
  <2>2. /\ AsEntries(records)' = RemoveAt(q, i) /\ AsEntries(capabilities)' = AsEntries(capabilities)
        /\ Len(q) = Len(records) /\ i \in 1..Len(records)
        /\ \A j \in 1..Len(records) : q[j] = EntryOf(records[j], edges)
    BY <1>1, <1>3, <2>1, DropEntries
  <2>3. /\ records[i].kind \in scan.kind /\ records[i].inv \in scan.inv
        /\ edges[records[i].edge] \in scan.doomed
    BY <1>3 DEF Removable, InScope, Upgraded
  <2>4. q[i].kind \in scan.kind /\ q[i].inv \in scan.inv /\ q[i].obj \in scan.doomed
    <3>1. q[i] = EntryOf(records[i], edges)
      BY <2>2
    <3>2. q[i].kind = records[i].kind /\ q[i].inv = records[i].inv /\ q[i].obj = edges[records[i].edge]
      BY <3>1, SMTT(20) DEF EntryOf
    <3> QED  BY <2>3, <3>2
  <2>5. Queue!RemoveAt(q, i) = RemoveAt(q, i)
    BY DEF Queue!RemoveAt, RemoveAt
  <2>6. Queue!RemoveEntry(i)
    BY <1>1, <1>2, <2>1, <2>2, <2>4, <2>5 DEF Queue!RemoveEntry, Queue!NoRequest, RequestOf, NoScan
  <2> QED  BY <2>1, <2>2, <2>6
<1>4. CASE UNCHANGED <<records, freeEdges, edges>>
  <2>1. AsEntries(records)' = AsEntries(records) /\ AsEntries(capabilities)' = AsEntries(capabilities)
    BY <1>1, <1>4 DEF AsEntries
  <2>2. RequestOf(scan') \in Queue!Requests
    BY <1>1, <1>2 DEF ScanSet, RequestOf, Queue!Requests, Scopes
  <2>3. Queue!SetRequest
    BY <1>1, <2>1, <2>2 DEF Queue!SetRequest, RequestOf
  <2> QED  BY <2>3
<1> QED  BY <1>3, <1>4 DEF RemoveStep

\* The head of the capability queue is taken.
LEMMA NextCapabilityRefines ==
    ASSUME IInv, IInv', NextCapability
    PROVE  Queue!TakeCapability
<1>1. /\ ownerLive /\ ownerLive' /\ UNCHANGED <<records, scan, ownerLive>> /\ capabilities # <<>>
      /\ capabilities' = Tail(capabilities) /\ ReleaseEdge(Head(capabilities).edge)
  BY DEF NextCapability
<1>2. /\ Live /\ Live' /\ LiveOwnership /\ AsEntries(records) = EntriesOf(records, edges)
      /\ AsEntries(capabilities) = EntriesOf(capabilities, edges)
      /\ AsEntries(records)' = EntriesOf(records', edges')
      /\ AsEntries(capabilities)' = EntriesOf(capabilities', edges')
  BY <1>1, LiveFacts, LiveFactsNext
<1>3. PICK e : e = Head(capabilities).edge
  OBVIOUS
<1>4. /\ DistinctEdges(capabilities) /\ EdgeOf(records) \cap EdgeOf(capabilities) = {}
      /\ capabilities \in Seq(RecordSet)
  BY <1>2 DEF LiveOwnership, Live
<1>5. /\ EdgeOf(capabilities') = EdgeOf(capabilities) \ {e} /\ e \in EdgeOf(capabilities)
      /\ e \in Nat \ {0}
  BY <1>1, <1>3, <1>4, TailRecord
<1>6. /\ e \in UsedEdges /\ EdgeOf(capabilities') \subseteq UsedEdges /\ e \notin EdgeOf(capabilities')
      /\ EdgeOf(records) \subseteq UsedEdges /\ e \notin EdgeOf(records) /\ ReleaseEdge(e)
  BY <1>1, <1>3, <1>4, <1>5 DEF UsedEdges
<1>7. EntriesOf(capabilities', edges') = EntriesOf(capabilities', edges)
  BY <1>1, <1>5, <1>6, ReleaseEntries
<1>8. EntriesOf(records, edges') = EntriesOf(records, edges)
  BY <1>1, <1>5, <1>6, ReleaseEntries
<1>9. /\ EntriesOf(capabilities', edges) = Tail(EntriesOf(capabilities, edges))
      /\ EntriesOf(capabilities, edges) # <<>>
  <2>1. /\ EdgeOf(Tail(capabilities)) \subseteq DOMAIN edges /\ edges \in EdgeVectors
        /\ EdgeOf(capabilities) \subseteq DOMAIN edges
    BY <1>1, <1>2, <1>5 DEF Live
  <2> QED  BY <1>1, <1>4, <2>1, EntriesTail
<1>10. /\ AsEntries(capabilities)' = Tail(AsEntries(capabilities)) /\ AsEntries(capabilities) # <<>>
       /\ AsEntries(records)' = AsEntries(records)
  BY <1>1, <1>2, <1>7, <1>8, <1>9
<1> QED  BY <1>1, <1>10 DEF Queue!TakeCapability

\* A step that touches neither records nor edges nor the owner leaves both queues.
LEMMA QueuesSame ==
    ASSUME UNCHANGED <<records, capabilities, edges, ownerLive>>
    PROVE  /\ AsEntries(records)' = AsEntries(records)
           /\ AsEntries(capabilities)' = AsEntries(capabilities)
           /\ scan' \in ScanSet => Queue!SetRequest
<1>1. AsEntries(records)' = AsEntries(records) /\ AsEntries(capabilities)' = AsEntries(capabilities)
  BY DEF AsEntries
<1>2. ASSUME scan' \in ScanSet PROVE Queue!SetRequest
  <2>1. RequestOf(scan') \in Queue!Requests
    BY <1>2 DEF ScanSet, RequestOf, Queue!Requests, Scopes
  <2> QED  BY <1>1, <2>1 DEF Queue!SetRequest, RequestOf
<1> QED  BY <1>1, <1>2

\* The owner turning terminal closes both queues.
LEMMA TerminalRefines ==
    ASSUME OwnerTerminal
    PROVE  Queue!Close
<1>1. ownerLive /\ ownerLive' = FALSE /\ UNCHANGED scan
  BY DEF OwnerTerminal
<1>2. AsEntries(records)' = <<>> /\ AsEntries(capabilities)' = <<>>
  BY <1>1 DEF AsEntries
<1> QED  BY <1>1, <1>2 DEF Queue!Close

\* Every step of the registry is a step of the two queues or leaves them alone.
LEMMA StepRefines ==
    ASSUME IInv, IInv', scan \in ScanSet, scan' \in ScanSet, [Next]_vars
    PROVE  [Queue!QueueNext]_(Queue!queueVars)
<1>1. ASSUME NEW o \in Objects, NEW v \in Scopes, Register(o, v) PROVE Queue!QueueNext
  BY <1>1, RegisterRefines DEF Queue!QueueNext, Scopes
<1>2. ASSUME NEW o \in Objects, NEW b \in Objects, RegisterBefore(o, b) PROVE Queue!QueueNext
  BY <1>2, RegisterBeforeRefines DEF Queue!QueueNext
<1>3. ASSUME NEW o \in Objects, DeferCapability(o) PROVE Queue!QueueNext
  BY <1>3, DeferRefines DEF Queue!QueueNext
<1>4. ASSUME NEW sel \in Selections, NextPending(sel) PROVE Queue!QueueNext
  <2>1. sel \in Queue!Selections
    BY SMTT(20) DEF Selections, Queue!Selections, Scopes
  <2> QED  BY <1>4, <2>1, NextPendingRefines DEF Queue!QueueNext
<1>5. CASE NextCapability
  BY <1>5, NextCapabilityRefines DEF Queue!QueueNext
<1>6. CASE OwnerTerminal
  BY <1>6, TerminalRefines DEF Queue!QueueNext
<1>7. CASE RemoveStep
  BY <1>7, RemoveStepRefines DEF Queue!QueueNext
<1>8. ASSUME UNCHANGED <<records, capabilities, edges, ownerLive>> PROVE Queue!QueueNext
  BY <1>8, QueuesSame DEF Queue!QueueNext
<1>9. ASSUME NEW o \in Objects, Settle(o) \/ Die(o) PROVE Queue!QueueNext
  BY <1>8, <1>9 DEF Settle, Die
<1>10. ASSUME NEW k, NEW vs, NEW doomed, BeginRemove(k, vs, doomed) PROVE Queue!QueueNext
  BY <1>8, <1>10 DEF BeginRemove
<1>11. CASE AbandonRemove \/ UNCHANGED vars
  BY <1>8, <1>11 DEF AbandonRemove, vars
<1> QED
  BY <1>1, <1>2, <1>3, <1>4, <1>5, <1>6, <1>7, <1>9, <1>10, <1>11 DEF Next

RInv == IInv /\ scan \in ScanSet

\* The ownership of edges and the types of all the state hold throughout.
LEMMA RInvariant == Spec => []RInv
<1>1. Init => RInv
  <2>1. Init => scan \in ScanSet
    BY EmptySeq, SMTT(20) DEF Init, NoScan, ScanSet
  <2> QED  BY <2>1, IInvInit DEF RInv
<1>2. RInv /\ [Next]_vars => RInv'
  BY IInvStep, ScanStep DEF RInv
<1> QED
  BY <1>1, <1>2, PTL DEF Spec

\* Every variable of the registry keeps the type of its Rust counterpart.
THEOREM TypeCorrect == Spec => []TypeOK
<1>1. RInv => TypeOK
  BY DEF RInv, IInv, TypeOK, ScanSet
<1> QED
  BY <1>1, RInvariant, PTL

\* The registry with recycled edges, suspended removals and a dying owner implements
\* two plain queues of objects, for every set of objects, kinds and invocations.
THEOREM ImplementsQueueHolds == Spec => ImplementsQueue
<1>1. Init => Queue!QueueInit
  <2> SUFFICES ASSUME Init PROVE Queue!QueueInit
    OBVIOUS
  <2>1. AsEntries(records) = <<>> /\ AsEntries(capabilities) = <<>>
    BY SMTT(20) DEF Init, AsEntries
  <2>2. ownerLive = TRUE /\ scan = NoScan
    BY DEF Init
  <2>3. [kind |-> scan.kind, inv |-> scan.inv, doomed |-> scan.doomed] = Queue!NoRequest
    BY <2>2 DEF NoScan, Queue!NoRequest
  <2> QED  BY <2>1, <2>2, <2>3 DEF Queue!QueueInit
<1>2. RInv /\ RInv' /\ [Next]_vars => [Queue!QueueNext]_(Queue!queueVars)
  BY StepRefines DEF RInv
<1> QED
  BY <1>1, <1>2, RInvariant, PTL DEF Spec, ImplementsQueue, Queue!QueueSpec
================================================================================
