--------------------------- MODULE ObjectsProofs ---------------------------
(***************************************************************************)
(* What the operations on JSON objects keep, for objects of every length:  *)
(* removing or writing a key leaves the members with other keys as they    *)
(* are and in their order.  Induction is by the least counterexample.      *)
(***************************************************************************)
EXTENDS Objects, SequenceTheorems, WellFoundedInduction, TLAPS

LEMMA LeastOf ==
  ASSUME NEW T \in SUBSET Nat, T # {}
  PROVE  \E x \in T : \A y \in T : x <= y
<1>1. PICK x \in T : \A y \in T : ~(<<y, x>> \in OpToRel(<, Nat))
  BY NatLessThanWellFounded, WFMin
<1>2. \A y \in T : ~(y < x)
  BY <1>1 DEF OpToRel
<1> QED BY <1>2

(* A function given by its first value and its steps exists.               *)
IsRun(f, X, x0, N, step) ==
  f \in [0..N -> X] /\ f[0] = x0 /\ \A n \in 1..N : f[n] = step[<<n, f[n - 1]>>]

LEMMA Iterated ==
  ASSUME NEW X, NEW x0 \in X, NEW N \in Nat, NEW step \in [(1..N) \X X -> X]
  PROVE  \E f : IsRun(f, X, x0, N, step)
<1> DEFINE Made(m) == \E f : IsRun(f, X, x0, m, step)
           Bad == {m \in 0..N : ~Made(m)}
<1>1. SUFFICES ASSUME Bad # {} PROVE FALSE
  BY DEF Bad
<1>2. PICK m \in Bad : \A y \in Bad : m <= y
  <2>1. Bad \in SUBSET Nat
    OBVIOUS
  <2> HIDE DEF Bad
  <2> QED BY <1>1, <2>1, LeastOf
<1> HIDE DEF Made
<1>3. m \in 0..N /\ ~Made(m)
  OBVIOUS
<1>4. CASE m = 0
  <2> DEFINE g == [n \in 0..0 |-> x0]
  <2>1. g \in [0..0 -> X] /\ g[0] = x0 /\ \A n \in 1..0 : g[n] = step[<<n, g[n - 1]>>]
    OBVIOUS
  <2> HIDE DEF g
  <2>2. Made(0)
    BY <2>1 DEF Made, IsRun
  <2> QED BY <1>3, <1>4, <2>2
<1>5. CASE m # 0
  <2>1. m - 1 \in 0..N /\ Made(m - 1)
    <3>1. m - 1 \in 0..N /\ ~(m <= m - 1)
      BY <1>3, <1>5
    <3>2. m - 1 \notin Bad
      BY <1>2, <3>1
    <3> QED BY <3>1, <3>2
  <2>2. PICK f \in [0..(m - 1) -> X] :
          f[0] = x0 /\ \A n \in 1..(m - 1) : f[n] = step[<<n, f[n - 1]>>]
    BY <2>1 DEF Made, IsRun
  <2> DEFINE g == [n \in 0..m |-> IF n = m THEN step[<<m, f[m - 1]>>] ELSE f[n]]
  <2>3. m \in 1..N /\ m - 1 \in 0..(m - 1) /\ f[m - 1] \in X
    BY <1>3, <1>5
  <2>4. step[<<m, f[m - 1]>>] \in X
    BY <2>3
  <2>5. g \in [0..m -> X] /\ g[0] = x0
    BY <1>3, <1>5, <2>2, <2>4
  <2>6. ASSUME NEW n \in 1..m
        PROVE  g[n] = step[<<n, g[n - 1]>>]
    <3>0. m \in Nat /\ n \in 0..m /\ n - 1 \in 0..m /\ n - 1 # m
      BY <1>3
    <3>1. g[n - 1] = f[n - 1]
      BY <3>0
    <3>2. CASE n = m
      BY <3>0, <3>1, <3>2
    <3>3. CASE n # m
      <4>1. n \in 1..(m - 1) /\ g[n] = f[n]
        BY <3>0, <3>3
      <4> QED BY <2>2, <3>1, <4>1
    <3> QED BY <3>2, <3>3
  <2> HIDE DEF g
  <2> QED BY <1>3, <2>5, <2>6 DEF Made, IsRun
<1> QED BY <1>4, <1>5

-----------------------------------------------------------------------------
(* Keep *)

(* t consists of the members of o at the indices I, in their order.         *)
PicksBy(e, t, o, I) ==
  /\ e \in [DOMAIN t -> I]
  /\ \A i, j \in DOMAIN t : i < j => e[i] < e[j]
  /\ \A i \in I : \E j \in DOMAIN t : e[j] = i
  /\ \A j \in DOMAIN t : t[j] = o[e[j]]
Picks(t, o, I) == \E e : PicksBy(e, t, o, I)

Keeps(f, S, o, inds) ==
  /\ f \in [0..Len(o) -> Seq(S)]
  /\ f[0] = <<>> /\ Keep(o, inds) = f[Len(o)]
  /\ \A n \in 1..Len(o) : f[n] = IF n \in inds THEN Append(f[n - 1], o[n]) ELSE f[n - 1]

LEMMA KeepSteps ==
  ASSUME NEW S, NEW o \in Seq(S), NEW inds
  PROVE  \E f : Keeps(f, S, o, inds)
<1> DEFINE N    == Len(o)
           step == [p \in (1..N) \X Seq(S) |-> IF p[1] \in inds THEN Append(p[2], o[p[1]]) ELSE p[2]]
           Is(f) == f = [n \in 0..N |-> IF n = 0 THEN <<>>
                                        ELSE IF n \in inds THEN Append(f[n - 1], o[n]) ELSE f[n - 1]]
           kept == CHOOSE f : Is(f)
<1>1. N \in Nat /\ \A n \in 1..N : o[n] \in S
  BY LenProperties, ElementOfSeq
<1>2. step \in [(1..N) \X Seq(S) -> Seq(S)]
  <2>1. ASSUME NEW p \in (1..N) \X Seq(S)
        PROVE  (IF p[1] \in inds THEN Append(p[2], o[p[1]]) ELSE p[2]) \in Seq(S)
    <3>1. p[1] \in 1..N /\ p[2] \in Seq(S)
      OBVIOUS
    <3> QED BY <1>1, <3>1, AppendProperties
  <2> QED BY <2>1
<1>3. PICK f \in [0..N -> Seq(S)] : f[0] = <<>> /\ \A n \in 1..N : f[n] = step[<<n, f[n - 1]>>]
  <2>1. <<>> \in Seq(S)
    BY EmptySeq
  <2> DEFINE X == Seq(S)
             x0 == <<>>
  <2>2. N \in Nat /\ step \in [(1..N) \X X -> X] /\ x0 \in X
    BY <1>1, <1>2, <2>1
  <2>3. \E f : IsRun(f, X, x0, N, step)
    <3> HIDE DEF step, N, X, x0
    <3> QED BY <2>2, Iterated
  <2> QED BY <2>3 DEF IsRun
<1>4. \A n \in 1..N : f[n] = IF n \in inds THEN Append(f[n - 1], o[n]) ELSE f[n - 1]
  <2>1. ASSUME NEW n \in 1..N
        PROVE  f[n] = IF n \in inds THEN Append(f[n - 1], o[n]) ELSE f[n - 1]
    <3>0. n - 1 \in 0..N
      BY <1>1
    <3>1. f[n - 1] \in Seq(S)
      BY <1>3, <3>0
    <3>2. <<n, f[n - 1]>> \in (1..N) \X Seq(S)
      BY <3>1
    <3> QED BY <1>3, <3>2
  <2> QED BY <2>1
<1>5. Is(f)
  <2>1. \A n \in 0..N : f[n] = IF n = 0 THEN <<>>
                               ELSE IF n \in inds THEN Append(f[n - 1], o[n]) ELSE f[n - 1]
    <3>1. \A n \in 0..N : n = 0 \/ n \in 1..N
      BY <1>1
    <3> HIDE DEF step, N
    <3> QED BY <1>3, <1>4, <3>1
  <2>2. f = [n \in 0..N |-> f[n]]
    OBVIOUS
  <2> QED BY <2>1, <2>2
<1>6. Is(kept)
  <2> HIDE DEF Is
  <2> QED BY <1>5
<1>7. Keep(o, inds) = kept[N]
  BY DEF Keep
<1>8. kept = f
  <2>1. DOMAIN kept = 0..N /\ kept[0] = <<>>
        /\ \A n \in 1..N : kept[n] = IF n \in inds THEN Append(kept[n - 1], o[n]) ELSE kept[n - 1]
    <3> HIDE DEF kept
    <3>1. \A n \in 1..N : n \in 0..N /\ n # 0
      BY <1>1
    <3>2. 0 \in 0..N
      BY <1>1
    <3> HIDE DEF N
    <3> QED BY <1>6, <3>1, <3>2
  <2> DEFINE Bad == {n \in 0..N : kept[n] # f[n]}
  <2> HIDE DEF kept
  <2>2. Bad = {}
    <3> SUFFICES ASSUME Bad # {} PROVE FALSE
      OBVIOUS
    <3>1. PICK n \in Bad : \A y \in Bad : n <= y
      <4>1. Bad \in SUBSET Nat
        OBVIOUS
      <4> HIDE DEF Bad
      <4> QED BY <4>1, LeastOf
    <3>2. n # 0 /\ n \in 1..N
      BY <1>1, <1>3, <2>1
    <3>3. n - 1 \in 0..N /\ n - 1 \notin Bad
      BY <1>1, <3>1, <3>2
    <3> QED BY <1>4, <2>1, <3>2, <3>3
  <2>3. \A n \in 0..N : kept[n] = f[n]
    BY <2>2
  <2>4. kept = [n \in 0..N |-> kept[n]]
    BY <1>6
  <2> QED BY <2>3, <2>4
<1>9. f[0] = <<>> /\ Keep(o, inds) = f[N]
  <2> HIDE DEF kept, step, N
  <2> QED BY <1>3, <1>7, <1>8
<1>10. Keeps(f, S, o, inds)
  <2>1. f \in [0..N -> Seq(S)]
    OBVIOUS
  <2> HIDE DEF kept, step
  <2> QED BY <1>4, <1>9, <2>1 DEF Keeps
<1> QED BY <1>10

LEMMA PicksNone == ASSUME NEW o PROVE Picks(<<>>, o, {})
<1> DEFINE e == [j \in {} |-> 0]
<1>1. DOMAIN <<>> = {}
  OBVIOUS
<1>2. e \in [DOMAIN <<>> -> {}]
  BY <1>1
<1> HIDE DEF e
<1>3. PicksBy(e, <<>>, o, {})
  BY <1>1, <1>2 DEF PicksBy
<1> QED BY <1>3 DEF Picks

LEMMA PicksOneMore ==
  ASSUME NEW S, NEW t \in Seq(S), NEW o, NEW I \in SUBSET Nat, NEW n \in Nat,
         \A i \in I : i < n, o[n] \in S, Picks(t, o, I)
  PROVE  Picks(Append(t, o[n]), o, I \union {n})
<1> DEFINE L == Len(t)
           u == Append(t, o[n])
<1>1. L \in Nat /\ DOMAIN t = 1..L
  BY LenProperties
<1>2. DOMAIN u = 1..(L + 1) /\ u[L + 1] = o[n] /\ \A j \in 1..L : u[j] = t[j]
  BY <1>1, AppendProperties, LenProperties
<1>0. PICK e : PicksBy(e, t, o, I)
  BY DEF Picks
<1>3. /\ e \in [1..L -> I]
      /\ \A i, j \in 1..L : i < j => e[i] < e[j]
      /\ \A i \in I : \E j \in 1..L : e[j] = i
      /\ \A j \in 1..L : t[j] = o[e[j]]
  BY <1>0, <1>1 DEF PicksBy
<1> DEFINE g == [j \in 1..(L + 1) |-> IF j = L + 1 THEN n ELSE e[j]]
<1> HIDE DEF u, L
<1>4. \A j \in 1..(L + 1) : j = L + 1 \/ j \in 1..L
  BY <1>1
<1>5. L + 1 \in 1..(L + 1) /\ \A j \in 1..L : j \in 1..(L + 1) /\ j # L + 1 /\ j < L + 1
  BY <1>1
<1>6. g[L + 1] = n /\ \A j \in 1..L : g[j] = e[j] /\ e[j] \in I
  BY <1>3, <1>5
<1>7. g \in [1..(L + 1) -> I \union {n}]
  BY <1>3, <1>4
<1> HIDE DEF g
<1>8. \A i, j \in 1..(L + 1) : i < j => g[i] < g[j]
  <2> SUFFICES ASSUME NEW i \in 1..(L + 1), NEW j \in 1..(L + 1), i < j
               PROVE  g[i] < g[j]
    OBVIOUS
  <2>1. i \in 1..L
    BY <1>1
  <2> QED BY <1>3, <1>4, <1>6, <2>1
<1>9. \A i \in I \union {n} : \E j \in 1..(L + 1) : g[j] = i
  BY <1>3, <1>5, <1>6
<1>10. \A j \in 1..(L + 1) : u[j] = o[g[j]]
  BY <1>2, <1>3, <1>4, <1>6
<1>11. PicksBy(g, u, o, I \union {n})
  BY <1>2, <1>7, <1>8, <1>9, <1>10 DEF PicksBy
<1> QED BY <1>11 DEF u, Picks

LEMMA KeepPicks ==
  ASSUME NEW S, NEW o \in Seq(S), NEW inds
  PROVE  Keep(o, inds) \in Seq(S) /\ Picks(Keep(o, inds), o, inds \intersect DOMAIN o)
<1> DEFINE N == Len(o)
<1>1. N \in Nat /\ DOMAIN o = 1..N /\ \A n \in 1..N : o[n] \in S
  BY LenProperties, ElementOfSeq
<1>a. PICK f : Keeps(f, S, o, inds)
  BY KeepSteps
<1>2. /\ f \in [0..N -> Seq(S)] /\ f[0] = <<>> /\ Keep(o, inds) = f[N]
      /\ \A n \in 1..N : f[n] = IF n \in inds THEN Append(f[n - 1], o[n]) ELSE f[n - 1]
  BY <1>a DEF Keeps
<1> DEFINE Upto(n) == inds \intersect (1..n)
           Bad     == {n \in 0..N : ~Picks(f[n], o, Upto(n))}
<1> HIDE DEF N
<1>3. Bad = {}
  <2> SUFFICES ASSUME Bad # {} PROVE FALSE
    OBVIOUS
  <2>1. PICK n \in Bad : \A y \in Bad : n <= y
    <3>1. Bad \in SUBSET Nat
      BY <1>1
    <3> HIDE DEF Bad
    <3> QED BY <3>1, LeastOf
  <2>2. n \in 0..N /\ ~Picks(f[n], o, Upto(n))
    OBVIOUS
  <2>3. n # 0
    <3>1. Upto(0) = {}
      OBVIOUS
    <3> QED BY <1>2, <2>2, <3>1, PicksNone
  <2>4. n \in 1..N /\ n - 1 \in 0..N /\ ~(n <= n - 1)
    BY <1>1, <2>2, <2>3
  <2>5. Picks(f[n - 1], o, Upto(n - 1))
    BY <2>1, <2>4
  <2>6. CASE n \in inds
    <3>1. Upto(n) = Upto(n - 1) \union {n} /\ \A i \in Upto(n - 1) : i < n
      BY <1>1, <2>4, <2>6
    <3>2. f[n] = Append(f[n - 1], o[n]) /\ f[n - 1] \in Seq(S) /\ o[n] \in S
      BY <1>1, <1>2, <2>4, <2>6
    <3>3. Upto(n - 1) \in SUBSET Nat /\ n \in Nat
      BY <1>1, <2>4
    <3> HIDE DEF Upto, Bad
    <3>4. Picks(Append(f[n - 1], o[n]), o, Upto(n - 1) \union {n})
      BY <2>5, <3>1, <3>2, <3>3, PicksOneMore
    <3> QED BY <2>2, <3>1, <3>2, <3>4
  <2>7. CASE n \notin inds
    <3>1. Upto(n) = Upto(n - 1)
      BY <1>1, <2>4, <2>7
    <3> HIDE DEF Upto, Bad
    <3> QED BY <1>2, <2>2, <2>4, <2>5, <2>7, <3>1
  <2> QED BY <2>6, <2>7
<1>4. Picks(f[N], o, Upto(N))
  <2>1. N \in 0..N
    BY <1>1
  <2>2. \A n \in 0..N : Picks(f[n], o, Upto(n))
    <3> HIDE DEF Upto
    <3> QED BY <1>3
  <2> QED BY <2>1, <2>2
<1>5. N \in 0..N
  BY <1>1
<1> QED BY <1>1, <1>2, <1>4, <1>5

-----------------------------------------------------------------------------
(* Objects that differ in some keys only *)

Others(o, K) == {i \in DOMAIN o : o[i][1] \notin K}

(* The members with other keys than those in K are the same, in their order. *)
SameButBy(e, t, o, K) ==
  /\ e \in [Others(t, K) -> Others(o, K)]
  /\ \A i, j \in Others(t, K) : i < j => e[i] < e[j]
  /\ \A i \in Others(o, K) : \E j \in Others(t, K) : e[j] = i
  /\ \A j \in Others(t, K) : t[j] = o[e[j]]
SameBut(t, o, K) == \E e : SameButBy(e, t, o, K)

LEMMA DropSame ==
  ASSUME NEW S, NEW o \in Seq(S), NEW k
  PROVE  Drop(o, k) \in Seq(S) /\ ~Has(Drop(o, k), k) /\ SameBut(Drop(o, k), o, {k})
<1> DEFINE I == {i \in DOMAIN o : o[i][1] # k}
           t == Drop(o, k)
<1>1. t = Keep(o, I) /\ I \intersect DOMAIN o = I /\ I = Others(o, {k})
  BY DEF Drop, Others
<1>2. t \in Seq(S) /\ Picks(t, o, I)
  BY <1>1, KeepPicks
<1> HIDE DEF I, t
<1>3. PICK e \in [DOMAIN t -> I] :
        /\ \A i, j \in DOMAIN t : i < j => e[i] < e[j]
        /\ \A i \in I : \E j \in DOMAIN t : e[j] = i
        /\ \A j \in DOMAIN t : t[j] = o[e[j]]
  BY <1>2 DEF Picks, PicksBy
<1>4. \A j \in DOMAIN t : t[j][1] # k
  BY <1>1, <1>3 DEF Others
<1>5. Others(t, {k}) = DOMAIN t
  BY <1>4 DEF Others
<1>6. SameBut(t, o, {k})
  <2>1. SameButBy(e, t, o, {k})
    BY <1>1, <1>3, <1>5 DEF SameButBy
  <2> QED BY <2>1 DEF SameBut
<1>7. ~Has(t, k)
  BY <1>4 DEF Has
<1> QED BY <1>2, <1>6, <1>7 DEF t

LEMMA LeastFound ==
  ASSUME NEW I \in SUBSET Nat, I # {}
  PROVE  Min(I) \in I /\ \A y \in I : Min(I) <= y
<1>1. \E x \in I : \A y \in I : x <= y
  BY LeastOf
<1> QED BY <1>1 DEF Min

LEMMA FindFirst ==
  ASSUME NEW S, NEW o \in Seq(S), NEW k, Has(o, k)
  PROVE  /\ Find(o, k) \in 1..Len(o) /\ o[Find(o, k)][1] = k
         /\ \A i \in 1..Len(o) : i < Find(o, k) => o[i][1] # k
<1> DEFINE I == {i \in 1..Len(o) : o[i][1] = k}
<1>1. Len(o) \in Nat /\ DOMAIN o = 1..Len(o)
  BY LenProperties
<1>2. I \in SUBSET Nat /\ I # {}
  BY <1>1 DEF Has
<1>3. Find(o, k) = Min(I)
  BY <1>2 DEF Find, SelectInSeq
<1>4. Min(I) \in I /\ \A y \in I : Min(I) <= y
  <2> HIDE DEF I
  <2> QED BY <1>2, LeastFound
<1>5. \A i \in 1..Len(o) : i < Find(o, k) => i \notin I
  BY <1>1, <1>3, <1>4
<1> QED BY <1>3, <1>4, <1>5

(* Members rewritten in place.                                              *)
LEMMA MappedSame ==
  ASSUME NEW o, NEW t, NEW K, DOMAIN t = DOMAIN o, DOMAIN o \subseteq Nat,
         \A i \in DOMAIN o : t[i] = o[i] \/ (o[i][1] \in K /\ t[i][1] \in K)
  PROVE  SameBut(t, o, K)
<1> DEFINE e == [i \in Others(t, K) |-> i]
<1>1. Others(t, K) = Others(o, K)
  BY DEF Others
<1>2. \A i \in Others(t, K) : t[i] = o[i] /\ i \in Nat
  BY <1>1 DEF Others
<1>3. SameButBy(e, t, o, K)
  BY <1>1, <1>2 DEF SameButBy
<1> QED BY <1>3 DEF SameBut

(* t is o up to p - 1, then m, then r, which comes of the rest c of o.      *)
Parts(S, o, m, p, c, r, t) ==
  /\ c \in Seq(S) /\ Len(c) = Len(o) - p /\ \A j \in 1..(Len(o) - p) : c[j] = o[p + j]
  /\ r \in Seq(S) /\ t \in Seq(S) /\ Len(t) = p + Len(r) /\ t[p] = m
  /\ \A j \in 1..(p - 1) : t[j] = o[j]
  /\ \A j \in 1..Len(r) : t[p + j] = r[j]

LEMMA PutParts ==
  ASSUME NEW S, NEW o \in Seq(S), NEW k, NEW v, <<k, v>> \in S, Has(o, k)
  PROVE  Parts(S, o, <<k, v>>, Find(o, k), SubSeq(o, Find(o, k) + 1, Len(o)),
               Drop(SubSeq(o, Find(o, k) + 1, Len(o)), k), Put(o, k, v))
<1> DEFINE p == Find(o, k)
           a == SubSeq(o, 1, p - 1)
           c == SubSeq(o, p + 1, Len(o))
           r == Drop(c, k)
           b == a \o <<<<k, v>>>>
           t == Put(o, k, v)
           N == Len(o)
<1>1. N \in Nat /\ \A j \in 1..N : o[j] \in S
  BY LenProperties, ElementOfSeq
<1>2. p \in 1..N
  BY FindFirst
<1>3. t = b \o r
  BY DEF Put
<1> HIDE DEF p, N
<1>4. a \in Seq(S) /\ Len(a) = p - 1 /\ \A j \in 1..(p - 1) : a[j] = o[j]
  <2>1. \A j \in 1..(p - 1) : o[j] \in S
    BY <1>1, <1>2
  <2>2. /\ a \in Seq(S) /\ Len(a) = IF 1 <= p - 1 THEN p - 1 - 1 + 1 ELSE 0
        /\ \A j \in 1..(p - 1 - 1 + 1) : a[j] = o[1 + j - 1]
    BY <1>1, <1>2, <2>1, SubSeqProperties
  <2> HIDE DEF a
  <2>3. Len(a) = p - 1 /\ p - 1 - 1 + 1 = p - 1 /\ \A j \in 1..(p - 1) : 1 + j - 1 = j
    BY <1>1, <1>2, <2>2
  <2> QED BY <2>2, <2>3
<1>5. c \in Seq(S) /\ Len(c) = N - p /\ \A j \in 1..(N - p) : c[j] = o[p + j]
  <2>1. \A j \in (p + 1)..N : o[j] \in S
    BY <1>1, <1>2
  <2>2. /\ c \in Seq(S) /\ Len(c) = IF p + 1 <= N THEN N - (p + 1) + 1 ELSE 0
        /\ \A j \in 1..(N - (p + 1) + 1) : c[j] = o[(p + 1) + j - 1]
    BY <1>1, <1>2, <2>1, SubSeqProperties DEF N
  <2> HIDE DEF c
  <2>3. Len(c) = N - p /\ N - (p + 1) + 1 = N - p /\ \A j \in 1..(N - p) : (p + 1) + j - 1 = p + j
    BY <1>1, <1>2, <2>2
  <2> QED BY <2>2, <2>3
<1>6. r \in Seq(S)
  BY <1>5, DropSame
<1> HIDE DEF c, r, a
<1>7. <<<<k, v>>>> \in Seq(S) /\ Len(<<<<k, v>>>>) = 1 /\ <<<<k, v>>>>[1] = <<k, v>>
  OBVIOUS
<1>8. b \in Seq(S) /\ Len(b) = p /\ b[p] = <<k, v>> /\ \A j \in 1..(p - 1) : b[j] = o[j]
  <2>1. /\ b \in Seq(S) /\ Len(b) = (p - 1) + 1
        /\ \A j \in 1..((p - 1) + 1) : b[j] = IF j <= p - 1 THEN a[j] ELSE <<<<k, v>>>>[j - (p - 1)]
    BY <1>4, <1>7, ConcatProperties
  <2> HIDE DEF b
  <2>2. (p - 1) + 1 = p /\ p \in 1..p /\ ~(p <= p - 1) /\ p - (p - 1) = 1
        /\ \A j \in 1..(p - 1) : j \in 1..p /\ j <= p - 1
    BY <1>1, <1>2
  <2> QED BY <1>4, <1>7, <2>1, <2>2
<1> HIDE DEF b, t
<1>9. /\ t \in Seq(S) /\ Len(t) = p + Len(r)
      /\ \A j \in 1..(p + Len(r)) : t[j] = IF j <= p THEN b[j] ELSE r[j - p]
  BY <1>3, <1>6, <1>8, ConcatProperties
<1>10. Len(r) \in Nat
  BY <1>6, LenProperties
<1>11. t[p] = <<k, v>> /\ \A j \in 1..(p - 1) : t[j] = o[j]
  <2>1. p \in 1..(p + Len(r)) /\ p <= p /\ \A j \in 1..(p - 1) : j \in 1..(p + Len(r)) /\ j <= p
    BY <1>1, <1>2, <1>10
  <2> QED BY <1>8, <1>9, <2>1
<1>12. \A j \in 1..Len(r) : t[p + j] = r[j]
  <2>1. \A j \in 1..Len(r) : p + j \in 1..(p + Len(r)) /\ ~(p + j <= p) /\ (p + j) - p = j
    BY <1>1, <1>2, <1>10
  <2> QED BY <1>9, <2>1
<1>13. Parts(S, o, <<k, v>>, p, c, r, t)
  BY <1>5, <1>6, <1>9, <1>11, <1>12 DEF N, Parts
<1> QED BY <1>13 DEF p, c, r, t, N

LEMMA PutSame ==
  ASSUME NEW S, NEW o \in Seq(S), NEW k, NEW v, <<k, v>> \in S
  PROVE  /\ Put(o, k, v) \in Seq(S) /\ Has(Put(o, k, v), k) /\ SameBut(Put(o, k, v), o, {k})
         /\ \A i \in DOMAIN Put(o, k, v) : Put(o, k, v)[i][1] = k => Put(o, k, v)[i] = <<k, v>>
         /\ Once(Put(o, k, v), k)
<1>1. CASE ~Has(o, k)
  <2> DEFINE t == Put(o, k, v)
             N == Len(o)
             e == [i \in Others(t, {k}) |-> i]
  <2>1. t = Append(o, <<k, v>>)
    BY <1>1 DEF Put
  <2>2. N \in Nat /\ DOMAIN o = 1..N
    BY LenProperties
  <2>3. t \in Seq(S) /\ DOMAIN t = 1..(N + 1) /\ t[N + 1] = <<k, v>> /\ \A i \in 1..N : t[i] = o[i]
    BY <2>1, AppendProperties, LenProperties
  <2> HIDE DEF t, N
  <2>4. N + 1 \in 1..(N + 1) /\ \A i \in 1..(N + 1) : i \in 1..N \/ i = N + 1
    BY <2>2
  <2>5. \A i \in 1..N : i \in 1..(N + 1) /\ o[i][1] # k
    BY <1>1, <2>2 DEF Has
  <2>6. Others(o, {k}) = 1..N /\ Others(t, {k}) = 1..N
    BY <2>2, <2>3, <2>4, <2>5 DEF Others
  <2>7. SameButBy(e, t, o, {k})
    BY <2>2, <2>3, <2>6 DEF SameButBy
  <2>8. SameBut(t, o, {k})
    BY <2>7 DEF SameBut
  <2>9. Has(t, k) /\ \A i \in DOMAIN t : t[i][1] = k => t[i] = <<k, v>> /\ i = N + 1
    BY <2>3, <2>4, <2>5 DEF Has
  <2>10. Once(t, k)
    BY <2>9 DEF Once
  <2> QED BY <2>3, <2>8, <2>9, <2>10 DEF t
<1>2. CASE Has(o, k)
  <2> DEFINE p == Find(o, k)
             c == SubSeq(o, p + 1, Len(o))
             r == Drop(c, k)
             t == Put(o, k, v)
             N == Len(o)
             L == Len(r)
  <2>0. Parts(S, o, <<k, v>>, p, c, r, t)
    BY <1>2, PutParts
  <2> HIDE DEF p, c, r, t
  <2>1. /\ c \in Seq(S) /\ Len(c) = N - p /\ \A j \in 1..(N - p) : c[j] = o[p + j]
        /\ r \in Seq(S) /\ t \in Seq(S) /\ Len(t) = p + L /\ t[p] = <<k, v>>
        /\ \A j \in 1..(p - 1) : t[j] = o[j]
        /\ \A j \in 1..L : t[p + j] = r[j]
    BY <2>0 DEF Parts
  <2>2. N \in Nat /\ DOMAIN o = 1..N /\ L \in Nat /\ DOMAIN r = 1..L
        /\ DOMAIN c = 1..(N - p) /\ DOMAIN t = 1..(p + L)
    BY <2>1, LenProperties
  <2>3. p \in 1..N /\ o[p][1] = k /\ \A i \in 1..(p - 1) : o[i][1] # k
    <3>1. p \in 1..N /\ o[p][1] = k /\ \A i \in 1..N : i < p => o[i][1] # k
      BY <1>2, FindFirst DEF p
    <3> HIDE DEF N
    <3> QED BY <2>2, <3>1
  <2>4. ~Has(r, k) /\ SameBut(r, c, {k})
    BY <2>1, DropSame DEF r
  <2> HIDE DEF N, L
  <2>5. PICK d : SameButBy(d, r, c, {k})
    BY <2>4 DEF SameBut
  <2>6. Others(r, {k}) = 1..L /\ \A j \in 1..L : r[j][1] # k
    BY <2>2, <2>4 DEF Has, Others
  <2> DEFINE After == Others(c, {k})
  <2>7. /\ d \in [1..L -> After] /\ After \subseteq 1..(N - p)
        /\ \A i, j \in 1..L : i < j => d[i] < d[j]
        /\ \A i \in After : \E j \in 1..L : d[j] = i
        /\ \A j \in 1..L : r[j] = c[d[j]]
    BY <2>2, <2>5, <2>6 DEF SameButBy, Others
  <2>8. \A j \in 1..(N - p) : j \in After <=> o[p + j][1] # k
    BY <2>1, <2>2 DEF Others
  <2> HIDE DEF After
  <2> DEFINE Mine == (1..(p - 1)) \union {p + j : j \in 1..L}
             e == [i \in Mine |-> IF i < p THEN i ELSE p + d[i - p]]
  <2>9. \A i \in 1..(p + L) : i \in 1..(p - 1) \/ i = p \/ (i - p \in 1..L /\ i = p + (i - p))
    BY <2>2, <2>3
  <2>10. /\ p \in 1..(p + L) /\ \A i \in 1..(p - 1) : i \in 1..(p + L) /\ i < p /\ i # p
         /\ \A j \in 1..L : p + j \in 1..(p + L) /\ ~(p + j < p) /\ (p + j) - p = j /\ p + j # p
    BY <2>2, <2>3
  <2>11. Others(t, {k}) = Mine
    <3>1. \A i \in 1..(p - 1) : i \in Others(t, {k})
      BY <2>1, <2>2, <2>3, <2>10 DEF Others
    <3>2. \A j \in 1..L : p + j \in Others(t, {k})
      BY <2>1, <2>2, <2>6, <2>10 DEF Others
    <3>3. \A i \in Others(t, {k}) : i \in 1..(p + L) /\ i # p
      BY <2>1, <2>2 DEF Others
    <3>4. \A i \in Others(t, {k}) : i \in Mine
      <4> SUFFICES ASSUME NEW i \in Others(t, {k})
                   PROVE  i \in Mine
        OBVIOUS
      <4>1. i \in 1..(p - 1) \/ \E j \in 1..L : i = p + j
        <5>1. i \in 1..(p - 1) \/ (i - p \in 1..L /\ i = p + (i - p))
          BY <2>9, <3>3
        <5> QED BY <5>1
      <4> QED BY <4>1
    <3>5. \A i \in Mine : i \in Others(t, {k})
      <4> QED BY <3>1, <3>2
    <3> QED BY <3>4, <3>5
  <2>12. \A i \in 1..(p - 1) : e[i] = i
    BY <2>10
  <2>13. \A j \in 1..L : e[p + j] = p + d[j]
    BY <2>10
  <2>14. \A i \in Mine : i \in 1..(p - 1) \/ \E j \in 1..L : i = p + j
    OBVIOUS
  <2>15. \A i \in 1..(p - 1) : i \in Others(o, {k})
    BY <2>2, <2>3 DEF Others
  <2>16. \A j \in 1..L : d[j] \in 1..(N - p) /\ p + d[j] \in Others(o, {k})
    <3> SUFFICES ASSUME NEW j \in 1..L
                 PROVE  d[j] \in 1..(N - p) /\ p + d[j] \in Others(o, {k})
      OBVIOUS
    <3>1. d[j] \in After /\ d[j] \in 1..(N - p)
      BY <2>7
    <3>2. p + d[j] \in 1..N
      BY <2>2, <2>3, <3>1
    <3> QED BY <2>2, <2>8, <3>1, <3>2 DEF Others
  <2>17. e \in [Mine -> Others(o, {k})]
    <3>1. \A i \in Mine : e[i] \in Others(o, {k})
      <4> HIDE DEF e
      <4> SUFFICES ASSUME NEW i \in Mine
                   PROVE  e[i] \in Others(o, {k})
        OBVIOUS
      <4> HIDE DEF Mine
      <4>1. CASE i \in 1..(p - 1)
        BY <2>12, <2>15, <4>1
      <4>2. CASE \E j \in 1..L : i = p + j
        BY <2>13, <2>16, <4>2
      <4> QED BY <2>14, <4>1, <4>2
    <3> QED BY <3>1
  <2>18. \A i \in Others(o, {k}) : \E j \in Mine : e[j] = i
    <3> SUFFICES ASSUME NEW i \in 1..N, o[i][1] # k
                 PROVE  \E j \in Mine : e[j] = i
      BY <2>2 DEF Others
    <3>1. i \in 1..(p - 1) \/ (i - p \in 1..(N - p) /\ p + (i - p) = i)
      BY <2>2, <2>3
    <3>2. CASE i \in 1..(p - 1)
      BY <2>12, <3>2
    <3>3. CASE i - p \in 1..(N - p) /\ p + (i - p) = i
      <4>1. i - p \in After
        BY <2>8, <3>3
      <4>2. PICK j \in 1..L : d[j] = i - p
        BY <2>7, <4>1
      <4>3. e[p + j] = i /\ p + j \in Mine
        BY <2>13, <3>3, <4>2
      <4> QED BY <4>3
    <3> QED BY <3>1, <3>2, <3>3
  <2>19. \A j \in Mine : t[j] = o[e[j]]
    <3>1. \A j \in 1..L : t[p + j] = o[p + d[j]]
      BY <2>1, <2>7, <2>16
    <3> HIDE DEF e
    <3> QED BY <2>1, <2>12, <2>13, <2>14, <3>1, SMTT(30)
  <2>20. \A i, j \in Mine : i < j => e[i] < e[j]
    <3> SUFFICES ASSUME NEW i \in Mine, NEW j \in Mine, i < j
                 PROVE  e[i] < e[j]
      OBVIOUS
    <3> HIDE DEF e
    <3>1. CASE i \in 1..(p - 1) /\ j \in 1..(p - 1)
      BY <2>12, <3>1
    <3>2. CASE i \in 1..(p - 1) /\ \E m \in 1..L : j = p + m
      <4>1. PICK m \in 1..L : j = p + m
        BY <3>2
      <4>2. e[j] = p + d[m] /\ d[m] \in 1..(N - p) /\ e[i] = i
        BY <2>12, <2>13, <2>16, <3>2, <4>1
      <4> QED BY <2>2, <2>3, <3>2, <4>2
    <3>3. CASE j \in 1..(p - 1) /\ \E m \in 1..L : i = p + m
      BY <2>2, <2>3, <3>3
    <3>4. CASE (\E m \in 1..L : i = p + m) /\ \E m \in 1..L : j = p + m
      <4>1. PICK m \in 1..L : i = p + m
        BY <3>4
      <4>2. PICK n \in 1..L : j = p + n
        BY <3>4
      <4>3. m < n
        BY <2>2, <2>3, <4>1, <4>2
      <4>4. d[m] < d[n] /\ d[m] \in 1..(N - p) /\ d[n] \in 1..(N - p)
        BY <2>7, <2>16, <4>3
      <4> QED BY <2>2, <2>3, <2>13, <4>1, <4>2, <4>4
    <3> QED BY <2>14, <3>1, <3>2, <3>3, <3>4
  <2> HIDE DEF e, Mine
  <2>21. SameButBy(e, t, o, {k})
    BY <2>11, <2>17, <2>18, <2>19, <2>20 DEF SameButBy
  <2>22. SameBut(t, o, {k})
    BY <2>21 DEF SameBut
  <2>23. Has(t, k)
    BY <2>1, <2>2, <2>10 DEF Has
  <2>24. \A i \in DOMAIN t : t[i][1] = k => t[i] = <<k, v>> /\ i = p
    <3>1. \A i \in 1..(p - 1) : t[i][1] # k
      BY <2>1, <2>3
    <3>2. \A j \in 1..L : t[p + j][1] # k
      BY <2>1, <2>6
    <3> SUFFICES ASSUME NEW i \in 1..(p + L), t[i][1] = k
                 PROVE  t[i] = <<k, v>> /\ i = p
      BY <2>2
    <3>3. i = p
      <4>1. i \in 1..(p - 1) \/ i = p \/ (i - p \in 1..L /\ i = p + (i - p))
        BY <2>9
      <4>2. i \notin 1..(p - 1)
        BY <3>1
      <4>3. ~(i - p \in 1..L /\ i = p + (i - p))
        BY <3>2
      <4> QED BY <4>1, <4>2, <4>3
    <3> QED BY <2>1, <3>3
  <2>25. Once(t, k)
    BY <2>24 DEF Once
  <2> QED BY <2>1, <2>22, <2>23, <2>24, <2>25 DEF t
<1> QED BY <1>1, <1>2

-----------------------------------------------------------------------------
(* What two objects that differ in some keys only agree on *)

LEMMA SameHas ==
  ASSUME NEW o, NEW t, NEW K, SameBut(t, o, K), NEW k, k \notin K
  PROVE  Has(t, k) <=> Has(o, k)
<1>1. PICK e : SameButBy(e, t, o, K)
  BY DEF SameBut
<1> QED BY <1>1 DEF SameButBy, Others, Has

LEMMA SameFirst ==
  ASSUME NEW S, NEW o \in Seq(S), NEW t \in Seq(S), NEW K, SameBut(t, o, K),
         NEW k, k \notin K, Has(o, k)
  PROVE  t[Find(t, k)] = o[Find(o, k)]
<1>1. PICK e : SameButBy(e, t, o, K)
  BY DEF SameBut
<1>2. Has(t, k)
  BY SameHas
<1> DEFINE p == Find(o, k)
           q == Find(t, k)
<1>3. p \in 1..Len(o) /\ o[p][1] = k /\ \A i \in 1..Len(o) : i < p => o[i][1] # k
  BY FindFirst
<1>4. q \in 1..Len(t) /\ t[q][1] = k /\ \A i \in 1..Len(t) : i < q => t[i][1] # k
  BY <1>2, FindFirst
<1>5. DOMAIN o = 1..Len(o) /\ DOMAIN t = 1..Len(t)
  BY LenProperties
<1> HIDE DEF p, q
<1>6. p \in Others(o, K) /\ q \in Others(t, K)
  BY <1>3, <1>4, <1>5 DEF Others
<1>7. PICK j \in Others(t, K) : e[j] = p
  BY <1>1, <1>6 DEF SameButBy
<1>8. t[j][1] = k /\ j \in 1..Len(t)
  BY <1>1, <1>3, <1>5, <1>7 DEF SameButBy, Others
<1>9. e[q] \in 1..Len(o) /\ o[e[q]][1] = k /\ t[q] = o[e[q]]
  BY <1>1, <1>4, <1>5, <1>6 DEF SameButBy, Others
<1>10. ~(j < q) /\ ~(e[q] < p)
  BY <1>3, <1>4, <1>8, <1>9
<1>11. ~(q < j)
  BY <1>1, <1>6, <1>7, <1>10 DEF SameButBy
<1>12. j = q
  BY <1>4, <1>8, <1>10, <1>11
<1> QED BY <1>7, <1>9, <1>12 DEF p, q

(* The last of the members with key k whose values are in V.                *)
Having(o, k, V) == {i \in DOMAIN o : o[i][1] = k /\ o[i][2] \in V}

LEMMA GreatestFound ==
  ASSUME NEW n \in Nat, NEW I \in SUBSET (1..n), I # {}
  PROVE  Max(I) \in I /\ \A y \in I : Max(I) >= y
<1> DEFINE J == {n - i : i \in I}
<1>1. J \in SUBSET Nat /\ J # {}
  <2>1. \A i \in I : i \in 1..n /\ n - i \in Nat
    OBVIOUS
  <2> QED BY <2>1
<1>2. PICK x \in J : \A y \in J : x <= y
  <2> HIDE DEF J
  <2> QED BY <1>1, LeastOf
<1>3. PICK i \in I : x = n - i
  OBVIOUS
<1>4. \A y \in I : n - y \in J /\ i >= y
  <2> SUFFICES ASSUME NEW y \in I
               PROVE  n - y \in J /\ i >= y
    OBVIOUS
  <2>1. n - y \in J /\ i \in 1..n /\ y \in 1..n
    OBVIOUS
  <2>2. n - i <= n - y
    BY <1>2, <1>3, <2>1
  <2> QED BY <2>1, <2>2
<1> HIDE DEF J
<1>5. \E x0 \in I : \A y \in I : x0 >= y
  BY <1>4
<1> QED BY <1>5 DEF Max

LEMMA SameLast ==
  ASSUME NEW S, NEW o \in Seq(S), NEW t \in Seq(S), NEW K, SameBut(t, o, K),
         NEW k, k \notin K, NEW V
  PROVE  /\ Having(t, k, V) = {} <=> Having(o, k, V) = {}
         /\ Having(o, k, V) # {} => t[Max(Having(t, k, V))] = o[Max(Having(o, k, V))]
<1>1. PICK e : SameButBy(e, t, o, K)
  BY DEF SameBut
<1>2. Len(o) \in Nat /\ DOMAIN o = 1..Len(o) /\ Len(t) \in Nat /\ DOMAIN t = 1..Len(t)
  BY LenProperties
<1>3. Having(o, k, V) \subseteq Others(o, K) /\ Having(t, k, V) \subseteq Others(t, K)
  BY DEF Having, Others
<1>4. \A j \in Having(t, k, V) : e[j] \in Having(o, k, V) /\ t[j] = o[e[j]]
  BY <1>1, <1>3 DEF SameButBy, Having, Others
<1>5. \A i \in Having(o, k, V) : \E j \in Having(t, k, V) : e[j] = i
  BY <1>1, <1>3 DEF SameButBy, Having, Others
<1>6. ASSUME Having(o, k, V) # {}
      PROVE  t[Max(Having(t, k, V))] = o[Max(Having(o, k, V))]
  <2> DEFINE p == Max(Having(o, k, V))
             q == Max(Having(t, k, V))
  <2>1. p \in Having(o, k, V) /\ \A y \in Having(o, k, V) : p >= y
    <3>1. Having(o, k, V) \in SUBSET (1..Len(o))
      BY <1>2 DEF Having
    <3> QED BY <1>2, <1>6, <3>1, GreatestFound
  <2>2. q \in Having(t, k, V) /\ \A y \in Having(t, k, V) : q >= y
    <3>1. Having(t, k, V) \in SUBSET (1..Len(t)) /\ Having(t, k, V) # {}
      BY <1>2, <1>5, <1>6 DEF Having
    <3> QED BY <1>2, <3>1, GreatestFound
  <2> HIDE DEF p, q
  <2>3. PICK j \in Having(t, k, V) : e[j] = p
    BY <1>5, <2>1
  <2>4. e[q] \in Having(o, k, V) /\ t[q] = o[e[q]] /\ p >= e[q] /\ q >= j
    BY <1>4, <2>1, <2>2
  <2>5. p \in Nat /\ q \in Nat /\ j \in Nat /\ e[q] \in Nat
    BY <1>2, <2>1, <2>2, <2>4 DEF Having
  <2>6. j < q => e[j] < e[q]
    BY <1>1, <1>3, <2>2 DEF SameButBy
  <2>7. j = q
    BY <2>3, <2>4, <2>5, <2>6
  <2> QED BY <2>3, <2>4, <2>7 DEF p, q
<1> QED BY <1>4, <1>5, <1>6
LEMMA SameOnce ==
  ASSUME NEW S, NEW o \in Seq(S), NEW t \in Seq(S), NEW K, SameBut(t, o, K), NEW k, k \notin K,
         Once(o, k)
  PROVE  Once(t, k)
<1>1. PICK e : SameButBy(e, t, o, K)
  BY DEF SameBut
<1>2. \A i \in DOMAIN t : i \in Nat
  BY LenProperties
<1> SUFFICES ASSUME NEW i \in DOMAIN t, NEW j \in DOMAIN t, t[i][1] = k, t[j][1] = k
             PROVE  i = j
  BY DEF Once
<1>3. i \in Others(t, K) /\ j \in Others(t, K)
  BY DEF Others
<1>4. /\ e[i] \in DOMAIN o /\ e[j] \in DOMAIN o /\ t[i] = o[e[i]] /\ t[j] = o[e[j]]
      /\ (i < j => e[i] < e[j]) /\ (j < i => e[j] < e[i])
  BY <1>1, <1>3 DEF SameButBy, Others
<1>5. e[i] = e[j] /\ e[i] \in Nat
  BY <1>4, LenProperties DEF Once
<1> QED BY <1>2, <1>4, <1>5

(* A member in front.                                                       *)
LEMMA FrontSame ==
  ASSUME NEW S, NEW o \in Seq(S), NEW m \in S
  PROVE  /\ <<m>> \o o \in Seq(S) /\ (<<m>> \o o)[1] = m /\ 1 \in DOMAIN (<<m>> \o o)
         /\ SameBut(<<m>> \o o, o, {m[1]})
         /\ ~Has(o, m[1]) => Once(<<m>> \o o, m[1])
<1> DEFINE t == <<m>> \o o
           N == Len(o)
           K == {m[1]}
           e == [i \in Others(t, K) |-> i - 1]
<1>1. N \in Nat /\ DOMAIN o = 1..N
  BY LenProperties
<1>2. <<m>> \in Seq(S) /\ Len(<<m>>) = 1 /\ <<m>>[1] = m
  OBVIOUS
<1>3. /\ t \in Seq(S) /\ Len(t) = 1 + N
      /\ \A i \in 1..(1 + N) : t[i] = IF i <= 1 THEN <<m>>[i] ELSE o[i - 1]
  BY <1>2, ConcatProperties
<1>4. DOMAIN t = 1..(1 + N)
  BY <1>3, LenProperties
<1> HIDE DEF t, N
<1>5. t[1] = m /\ 1 \in DOMAIN t
  BY <1>1, <1>2, <1>3, <1>4
<1>6. \A i \in 1..N : i + 1 \in DOMAIN t /\ t[i + 1] = o[i]
  <2> SUFFICES ASSUME NEW i \in 1..N PROVE i + 1 \in DOMAIN t /\ t[i + 1] = o[i]
    OBVIOUS
  <2>1. i + 1 \in 1..(1 + N) /\ ~(i + 1 <= 1) /\ (i + 1) - 1 = i
    BY <1>1
  <2> QED BY <1>3, <1>4, <2>1
<1>7. \A i \in Others(t, K) : i - 1 \in Others(o, K) /\ t[i] = o[i - 1] /\ i \in Nat
  <2> SUFFICES ASSUME NEW i \in 1..(1 + N), t[i][1] \notin K
               PROVE  i - 1 \in Others(o, K) /\ t[i] = o[i - 1] /\ i \in Nat
    BY <1>4 DEF Others
  <2>1. i # 1
    BY <1>5
  <2>2. i - 1 \in 1..N /\ ~(i <= 1)
    BY <1>1, <2>1
  <2>3. t[i] = o[i - 1]
    BY <1>3, <2>2
  <2> QED BY <1>1, <2>2, <2>3 DEF Others
<1>8. \A i \in Others(o, K) : i + 1 \in Others(t, K) /\ (i + 1) - 1 = i
  BY <1>1, <1>6 DEF Others
<1>9. SameButBy(e, t, o, K)
  <2>1. e \in [Others(t, K) -> Others(o, K)]
    BY <1>7
  <2>2. \A i \in Others(o, K) : \E j \in Others(t, K) : e[j] = i
    BY <1>8
  <2>3. \A i, j \in Others(t, K) : i < j => e[i] < e[j]
    BY <1>7
  <2>4. \A j \in Others(t, K) : t[j] = o[e[j]]
    BY <1>7
  <2> HIDE DEF e, K
  <2> QED BY <2>1, <2>2, <2>3, <2>4 DEF SameButBy
<1>10. SameBut(t, o, K)
  BY <1>9 DEF SameBut
<1>11. ASSUME ~Has(o, m[1]) PROVE Once(t, m[1])
  <2>1. \A i \in 1..(1 + N) : t[i][1] = m[1] => i = 1
    <3> SUFFICES ASSUME NEW i \in 1..(1 + N), i # 1 PROVE t[i][1] # m[1]
      OBVIOUS
    <3>1. i - 1 \in 1..N /\ ~(i <= 1)
      BY <1>1
    <3>2. t[i] = o[i - 1]
      BY <1>3, <3>1
    <3> QED BY <1>1, <1>11, <3>1, <3>2 DEF Has
  <2> QED BY <1>4, <2>1 DEF Once
<1> QED BY <1>3, <1>5, <1>10, <1>11 DEF t

-----------------------------------------------------------------------------
(* The sequences of s one after the other *)

(* F holds the elements of the first n sequences of s, those of one before  *)
(* those of the next and none twice; the i-th is from the sequence src[i].  *)
FlatBy(src, F, L, s, n) ==
  /\ src \in [1..L -> 1..n]
  /\ \A i, j \in 1..L : i < j => src[i] <= src[j]
  /\ \A i \in 1..L : \E x \in DOMAIN s[src[i]] : F[i] = s[src[i]][x]
  /\ \A m \in 1..n : \A x \in DOMAIN s[m] : \E i \in 1..L : src[i] = m /\ F[i] = s[m][x]
  /\ \A i, j \in 1..L : i # j /\ src[i] = src[j] =>
       \E x, y \in DOMAIN s[src[i]] : x # y /\ F[i] = s[src[i]][x] /\ F[j] = s[src[i]][y]
Flat(F, s, n) == \E src : FlatBy(src, F, Len(F), s, n)

LEMMA FlatNone == ASSUME NEW s PROVE Flat(<<>>, s, 0)
<1> DEFINE src == [j \in {} |-> 0]
<1>1. Len(<<>>) = 0 /\ 1..0 = {}
  OBVIOUS
<1>2. src \in [1..0 -> 1..0]
  BY <1>1
<1> HIDE DEF src
<1>3. FlatBy(src, <<>>, 0, s, 0)
  BY <1>1, <1>2 DEF FlatBy
<1> QED BY <1>1, <1>3 DEF Flat

LEMMA FlatOneMore ==
  ASSUME NEW E, NEW F \in Seq(E), NEW s, NEW n \in Nat, n # 0, s[n] \in Seq(E), Flat(F, s, n - 1)
  PROVE  F \o s[n] \in Seq(E) /\ Flat(F \o s[n], s, n)
<1> DEFINE u == s[n]
           G == F \o u
           L == Len(F)
           M == Len(u)
           src2(src) == [i \in 1..(L + M) |-> IF i <= L THEN src[i] ELSE n]
<1>1. L \in Nat /\ M \in Nat /\ DOMAIN F = 1..L /\ DOMAIN u = 1..M
  BY LenProperties
<1>2. /\ G \in Seq(E) /\ Len(G) = L + M
      /\ \A i \in 1..(L + M) : G[i] = IF i <= L THEN F[i] ELSE u[i - L]
  BY ConcatProperties
<1>3. DOMAIN G = 1..(L + M)
  BY <1>2, LenProperties
<1> HIDE DEF G, L, M
<1>4. PICK src : FlatBy(src, F, L, s, n - 1)
  BY DEF Flat, L
<1> DEFINE g == src2(src)
<1>5. /\ src \in [1..L -> 1..(n - 1)]
      /\ \A i, j \in 1..L : i < j => src[i] <= src[j]
      /\ \A i \in 1..L : \E x \in DOMAIN s[src[i]] : F[i] = s[src[i]][x]
      /\ \A m \in 1..(n - 1) : \A x \in DOMAIN s[m] : \E i \in 1..L : src[i] = m /\ F[i] = s[m][x]
      /\ \A i, j \in 1..L : i # j /\ src[i] = src[j] =>
           \E x, y \in DOMAIN s[src[i]] : x # y /\ F[i] = s[src[i]][x] /\ F[j] = s[src[i]][y]
  BY <1>4 DEF FlatBy
<1>6. \A i \in 1..L : i \in 1..(L + M) /\ i <= L /\ g[i] = src[i] /\ G[i] = F[i]
                      /\ src[i] \in 1..n /\ src[i] <= n /\ src[i] # n
  <2> SUFFICES ASSUME NEW i \in 1..L
               PROVE  /\ i \in 1..(L + M) /\ i <= L /\ g[i] = src[i] /\ G[i] = F[i]
                      /\ src[i] \in 1..n /\ src[i] <= n /\ src[i] # n
    OBVIOUS
  <2>1. i \in 1..(L + M) /\ i <= L
    BY <1>1
  <2>2. src[i] \in 1..(n - 1)
    BY <1>5
  <2>3. src[i] \in 1..n /\ src[i] <= n /\ src[i] # n
    BY <2>2
  <2> QED BY <1>2, <2>1, <2>3
<1>7. \A x \in 1..M : L + x \in 1..(L + M) /\ g[L + x] = n /\ G[L + x] = u[x]
  <2> SUFFICES ASSUME NEW x \in 1..M
               PROVE  L + x \in 1..(L + M) /\ g[L + x] = n /\ G[L + x] = u[x]
    OBVIOUS
  <2>1. L + x \in 1..(L + M) /\ ~(L + x <= L) /\ (L + x) - L = x
    BY <1>1
  <2> QED BY <1>2, <2>1
<1>8. \A i \in 1..(L + M) : i \in 1..L \/ (i > L /\ i - L \in 1..M /\ i = L + (i - L))
  BY <1>1
<1>9. g \in [1..(L + M) -> 1..n]
  <2>1. n \in 1..n
    OBVIOUS
  <2>2. \A i \in 1..(L + M) : g[i] \in 1..n
    <3> HIDE DEF g
    <3> QED BY <1>6, <1>7, <1>8, <2>1
  <2> QED BY <2>2
<1> HIDE DEF g, u
<1>10. \A i, j \in 1..(L + M) : i < j => g[i] <= g[j]
  <2> SUFFICES ASSUME NEW i \in 1..(L + M), NEW j \in 1..(L + M), i < j
               PROVE  g[i] <= g[j]
    OBVIOUS
  <2>1. CASE j \in 1..L
    <3>1. i \in 1..L
      BY <1>1, <2>1
    <3> QED BY <1>5, <1>6, <2>1, <3>1
  <2>2. CASE j - L \in 1..M /\ j = L + (j - L)
    <3>1. g[j] = n
      BY <1>7, <2>2
    <3>2. g[i] \in 1..n
      BY <1>9
    <3> QED BY <3>1, <3>2
  <2> QED BY <1>8, <2>1, <2>2
<1>11. \A i \in 1..(L + M) : \E x \in DOMAIN s[g[i]] : G[i] = s[g[i]][x]
  <2> SUFFICES ASSUME NEW i \in 1..(L + M)
               PROVE  \E x \in DOMAIN s[g[i]] : G[i] = s[g[i]][x]
    OBVIOUS
  <2>1. CASE i \in 1..L
    <3>1. PICK x \in DOMAIN s[src[i]] : F[i] = s[src[i]][x]
      BY <1>5, <2>1
    <3>2. g[i] = src[i] /\ G[i] = F[i]
      BY <1>6, <2>1
    <3> QED BY <3>1, <3>2
  <2>2. CASE i - L \in 1..M /\ i = L + (i - L)
    <3>1. g[i] = n /\ G[i] = u[i - L]
      BY <1>7, <2>2
    <3> QED BY <1>1, <2>2, <3>1 DEF u
  <2> QED BY <1>8, <2>1, <2>2
<1>12. \A m \in 1..n : \A x \in DOMAIN s[m] : \E i \in 1..(L + M) : g[i] = m /\ G[i] = s[m][x]
  <2> SUFFICES ASSUME NEW m \in 1..n, NEW x \in DOMAIN s[m]
               PROVE  \E i \in 1..(L + M) : g[i] = m /\ G[i] = s[m][x]
    OBVIOUS
  <2>1. CASE m = n
    BY <1>1, <1>7, <2>1 DEF u
  <2>2. CASE m # n
    <3>1. m \in 1..(n - 1)
      BY <2>2
    <3>2. PICK i \in 1..L : src[i] = m /\ F[i] = s[m][x]
      BY <1>5, <3>1
    <3> QED BY <1>6, <3>2
  <2> QED BY <2>1, <2>2
<1>15. ASSUME NEW i \in 1..(L + M), NEW j \in 1..(L + M), i # j, g[i] = g[j]
       PROVE  \E x, y \in DOMAIN s[g[i]] : x # y /\ G[i] = s[g[i]][x] /\ G[j] = s[g[i]][y]
  <2>1. CASE i \in 1..L /\ j \in 1..L
    <3>1. g[i] = src[i] /\ g[j] = src[j] /\ G[i] = F[i] /\ G[j] = F[j]
      BY <1>6, <2>1
    <3>2. PICK x, y \in DOMAIN s[src[i]] : x # y /\ F[i] = s[src[i]][x] /\ F[j] = s[src[i]][y]
      <4>1. src[i] = src[j] /\ i # j
        BY <1>15, <3>1
      <4>2. \E x, y \in DOMAIN s[src[i]] : x # y /\ F[i] = s[src[i]][x] /\ F[j] = s[src[i]][y]
        BY <1>5, <2>1, <4>1, Zenon
      <4> QED BY <4>2
    <3> QED BY <3>1, <3>2
  <2>2. CASE i - L \in 1..M /\ i = L + (i - L) /\ j - L \in 1..M /\ j = L + (j - L)
    <3>1. g[i] = n /\ G[i] = u[i - L] /\ G[j] = u[j - L]
      BY <1>7, <2>2
    <3>2. i - L # j - L
      BY <1>15, <2>2
    <3> QED BY <1>1, <2>2, <3>1, <3>2 DEF u
  <2>3. ASSUME NEW a \in 1..L, NEW b \in 1..(L + M), b - L \in 1..M, b = L + (b - L)
        PROVE  g[a] # g[b]
    <3>1. g[b] = n
      BY <1>7, <2>3
    <3> QED BY <1>6, <3>1
  <2> QED BY <1>8, <1>15, <2>1, <2>2, <2>3
<1>16. \A i, j \in 1..(L + M) : i # j /\ g[i] = g[j] =>
         \E x, y \in DOMAIN s[g[i]] : x # y /\ G[i] = s[g[i]][x] /\ G[j] = s[g[i]][y]
  BY <1>15
<1>13. FlatBy(g, G, L + M, s, n)
  BY <1>9, <1>10, <1>11, <1>12, <1>16, Zenon DEF FlatBy
<1>14. Flat(G, s, n)
  BY <1>2, <1>13 DEF Flat
<1> QED BY <1>2, <1>14 DEF G, u

LEMMA FlattenIsFlat ==
  ASSUME NEW E, NEW s \in Seq(Seq(E))
  PROVE  FlattenSeq(s) \in Seq(E) /\ Flat(FlattenSeq(s), s, Len(s))
<1> DEFINE N == Len(s)
           X == Seq(E)
           x0 == <<>>
           step == [p \in (1..N) \X X |-> p[2] \o s[p[1]]]
           Is(f) == f = [i \in 1..N |-> IF i = 1 THEN s[i] ELSE f[i - 1] \o s[i]]
           flatten == CHOOSE f : Is(f)
<1>1. N \in Nat /\ \A n \in 1..N : s[n] \in X
  BY LenProperties, ElementOfSeq
<1>2. CASE N = 0
  <2>1. s = <<>> /\ FlattenSeq(s) = <<>>
    BY <1>2, EmptySeq DEF FlattenSeq
  <2> QED BY <1>2, <2>1, EmptySeq, FlatNone
<1>3. CASE N # 0
  <2>1. step \in [(1..N) \X X -> X] /\ x0 \in X
    <3>1. ASSUME NEW p \in (1..N) \X X
          PROVE  p[2] \o s[p[1]] \in X
      <4>1. p[1] \in 1..N /\ p[2] \in X
        OBVIOUS
      <4> QED BY <1>1, <4>1, ConcatProperties
    <3>2. x0 \in X
      BY EmptySeq
    <3> QED BY <3>1, <3>2
  <2>2. \E f : IsRun(f, X, x0, N, step)
    <3> HIDE DEF step, N, X, x0
    <3> QED BY <1>1, <2>1, Iterated
  <2>3. PICK f : f \in [0..N -> X] /\ f[0] = x0 /\ \A n \in 1..N : f[n] = step[<<n, f[n - 1]>>]
    <3> HIDE DEF step, N, X, x0
    <3> QED BY <2>2 DEF IsRun
  <2>4. \A n \in 1..N : f[n] = IF n = 1 THEN s[n] ELSE f[n - 1] \o s[n]
    <3> SUFFICES ASSUME NEW n \in 1..N
                 PROVE  f[n] = IF n = 1 THEN s[n] ELSE f[n - 1] \o s[n]
      OBVIOUS
    <3>1. n - 1 \in 0..N
      BY <1>1
    <3>2. f[n - 1] \in X
      BY <2>3, <3>1
    <3>3. <<n, f[n - 1]>> \in (1..N) \X X
      BY <3>2
    <3>4. f[n] = f[n - 1] \o s[n]
      BY <2>3, <3>3
    <3>5. n = 1 => f[n - 1] = <<>>
      BY <2>3
    <3>6. <<>> \o s[n] = s[n]
      BY <1>1, ConcatEmptySeq
    <3> QED BY <3>4, <3>5, <3>6
  <2> DEFINE g == [i \in 1..N |-> f[i]]
  <2>5. Is(g)
    <3>1. \A i \in 1..N : i # 1 => i - 1 \in 1..N
      BY <1>1
    <3>2. \A i \in 1..N : g[i] = IF i = 1 THEN s[i] ELSE g[i - 1] \o s[i]
      BY <2>4, <3>1
    <3> QED BY <3>2
  <2>6. Is(flatten)
    <3> HIDE DEF Is
    <3> QED BY <2>5
  <2>7. FlattenSeq(s) = flatten[N]
    BY <1>3 DEF FlattenSeq
  <2>8. \A n \in 1..N : flatten[n] = IF n = 1 THEN s[n] ELSE flatten[n - 1] \o s[n]
    <3> HIDE DEF flatten, N
    <3> QED BY <2>6
  <2> HIDE DEF flatten, N, X
  <2> DEFINE Good(n) == flatten[n] \in Seq(E) /\ Flat(flatten[n], s, n)
             Bad == {n \in 1..N : ~Good(n)}
  <2>9. Bad = {}
    <3> SUFFICES ASSUME Bad # {} PROVE FALSE
      OBVIOUS
    <3>1. PICK n \in Bad : \A y \in Bad : n <= y
      <4>1. Bad \in SUBSET Nat
        BY <1>1
      <4> HIDE DEF Bad
      <4> QED BY <4>1, LeastOf
    <3>2. n \in 1..N /\ ~Good(n)
      OBVIOUS
    <3>3. s[n] \in Seq(E) /\ n \in Nat /\ n # 0
      BY <1>1, <3>2 DEF X
    <3>4. CASE n = 1
      <4>1. <<>> \o s[n] \in Seq(E) /\ Flat(<<>> \o s[n], s, n)
        <5>1. Flat(<<>>, s, n - 1)
          BY <3>4, FlatNone
        <5>2. <<>> \in Seq(E)
          BY EmptySeq
        <5> QED BY <3>3, <5>1, <5>2, FlatOneMore
      <4>2. flatten[n] = <<>> \o s[n]
        BY <2>8, <3>2, <3>3, <3>4, ConcatEmptySeq
      <4> QED BY <3>2, <4>1, <4>2
    <3>5. CASE n # 1
      <4>1. n - 1 \in 1..N /\ n - 1 \notin Bad
        BY <1>1, <3>1, <3>2, <3>5
      <4>2. Good(n - 1)
        <5> HIDE DEF Good
        <5> QED BY <4>1
      <4>3. flatten[n] = flatten[n - 1] \o s[n]
        BY <2>8, <3>2, <3>5
      <4> QED BY <3>2, <3>3, <4>2, <4>3, FlatOneMore
    <3> QED BY <3>4, <3>5
  <2>10. N \in 1..N
    BY <1>1, <1>3
  <2>11. Good(N)
    <3> HIDE DEF Good
    <3> QED BY <2>9, <2>10
  <2> QED BY <2>7, <2>11 DEF N
<1> QED BY <1>2, <1>3
-----------------------------------------------------------------------------
(* Pairs, triples and sequences of one                                      *)

LEMMA AppendBefore ==
  ASSUME NEW S, NEW p \in Seq(S), NEW c \in S
  PROVE  \A i \in 1..Len(p) : Append(p, c)[i] = p[i]
BY AppendProperties

LEMMA AppendSet ==
  ASSUME NEW a, a \in Seq(ToSet(a)), NEW c
  PROVE  /\ ToSet(Append(a, c)) = ToSet(a) \union {c}
         /\ Append(a, c) \in Seq(ToSet(Append(a, c)))
         /\ DOMAIN Append(a, c) = DOMAIN a \union {Len(a) + 1}
         /\ \A i \in DOMAIN a : Append(a, c)[i] = a[i]
         /\ Append(a, c)[Len(a) + 1] = c
<1> DEFINE S == ToSet(a) \union {c}
           b == Append(a, c)
<1> HIDE DEF S
<1>1. a \in Seq(S) /\ c \in S
  BY DEF S
<1>2. Len(a) \in Nat /\ b \in Seq(S) /\ Len(b) = Len(a) + 1 /\ b[Len(a) + 1] = c
  BY <1>1, AppendProperties, LenProperties
<1>3. \A i \in 1..Len(a) : b[i] = a[i]
  BY <1>1, AppendBefore
<1>4. DOMAIN a = 1..Len(a) /\ DOMAIN b = 1..Len(b)
  BY <1>1, <1>2, LenProperties
<1> HIDE DEF b
<1>5. DOMAIN b = DOMAIN a \union {Len(a) + 1}
  BY <1>2, <1>4
<1>6. ToSet(b) = ToSet(a) \union {c}
  BY <1>2, <1>3, <1>4, <1>5 DEF ToSet
<1>7. b \in Seq(ToSet(b))
  BY <1>2, <1>6 DEF S
<1> QED BY <1>2, <1>3, <1>4, <1>5, <1>6, <1>7 DEF b

LEMMA Third ==
  ASSUME NEW a, NEW b, NEW c
  PROVE  Append(<<a, b>>, c) = <<a, b, c>>
<1> DEFINE S == {a, b, c}
           p == <<a, b>>
           t == Append(p, c)
           u == <<a, b, c>>
<1>1. a \in S /\ b \in S /\ c \in S
  OBVIOUS
<1> HIDE DEF S
<1>2. p \in Seq(S) /\ Len(p) = 2 /\ p[1] = a /\ p[2] = b
  BY <1>1
<1>3. u \in Seq(S) /\ Len(u) = 3 /\ u[1] = a /\ u[2] = b /\ u[3] = c
  BY <1>1
<1> HIDE DEF p, u
<1>4. t \in Seq(S)
  BY <1>1, <1>2, AppendProperties
<1>5. Len(t) = Len(p) + 1
  BY <1>1, <1>2, AppendProperties
<1>6. \A i \in 1..Len(p) : t[i] = p[i]
  BY <1>1, <1>2, AppendBefore
<1>7. t[Len(p) + 1] = c
  BY <1>1, <1>2, AppendProperties
<1> HIDE DEF t
<1>8. Len(t) = 3 /\ t[1] = a /\ t[2] = b /\ t[3] = c
  BY <1>2, <1>5, <1>6, <1>7
<1>9. t \in [1..3 -> S] /\ u \in [1..3 -> S]
  BY <1>3, <1>4, <1>8, LenProperties
<1>10. \A i \in 1..3 : t[i] = u[i]
  BY <1>3, <1>8
<1>11. t = u
  BY <1>9, <1>10
<1> QED BY <1>11 DEF p, t, u

LEMMA PairOfTwo ==
  ASSUME NEW A, NEW B, NEW m \in A \X B
  PROVE  m = <<m[1], m[2]>>
OBVIOUS

LEMMA OneElement ==
  ASSUME NEW S, NEW c \in S
  PROVE  <<c>> \in Seq(S) /\ DOMAIN <<c>> = {1} /\ <<c>>[1] = c
<1>1. <<c>> \in Seq(S) /\ Len(<<c>>) = 1 /\ <<c>>[1] = c
  OBVIOUS
<1>2. DOMAIN <<c>> = 1..1
  BY <1>1, LenProperties
<1>3. 1..1 = {1}
  OBVIOUS
<1> QED BY <1>1, <1>2, <1>3

=============================================================================
