-------------------------- MODULE Compression_proofs --------------------------
(***************************************************************************)
(* Compression, for any lengths of packet, levels, rates and packets:      *)
(*                                                                         *)
(*   the receiver's reading of deltas, and of an anchor, gives back the    *)
(*   set of positions they were made of;                                   *)
(*   a receiver that missed fewer packets in a row than the level is in    *)
(*   step with the encoder after every packet it receives.                 *)
(*                                                                         *)
(* The invariant says what the buffers hold: the deltas of a packet, as    *)
(* the receiver would add them up, are a window of the buffer, and window  *)
(* i is the changes of mask of the i-th packet back.  What the receiver    *)
(* may be behind in is in the windows of the packets it missed.            *)
(*                                                                         *)
(* The last part of the module is the reference firmware (Reference):      *)
(*                                                                         *)
(*   a download takes every byte of the image it set out to send;          *)
(*   the OBC's clock is one its power mode and its flash memory allow;     *)
(*   the receiver's deinterleave undoes interleave.                        *)
(***************************************************************************)
EXTENDS Compression, Reference, FiniteSetTheorems, SequenceTheorems, WellFoundedInduction, TLAPS

-----------------------------------------------------------------------------
(* Least and greatest elements *)

\* A set of numbers has a least element.
LEMMA Smallest ==
    ASSUME NEW S, S \subseteq Nat, S # {}
    PROVE  \E m \in S : \A k \in S : m <= k
<1>1. PICK m \in S : \A k \in S : <<k, m>> \notin OpToRel(<, Nat)
  BY WFMin, NatLessThanWellFounded, Zenon
<1>2. \A k \in S : ~(k < m)
  BY <1>1, Zenon DEF OpToRel
<1> QED
  BY <1>2

\* Min is the least element of a set of numbers.
LEMMA MinOf ==
    ASSUME NEW S, S \subseteq Nat, S # {}
    PROVE  Min(S) \in S /\ \A k \in S : Min(S) <= k
<1>1. PICK m \in S : \A k \in S : m <= k
  BY Smallest
<1> QED
  BY <1>1 DEF Min

\* Max is the greatest, if there is one.
LEMMA MaxOf ==
    ASSUME NEW n \in Nat, NEW S, S \subseteq 0..n, S # {}
    PROVE  Max(S) \in S /\ \A k \in S : k <= Max(S)
<1> DEFINE T == {n - k : k \in S}
<1>1. PICK m \in T : \A k \in T : m <= k
  <2>1. \A k \in S : n - k \in Nat
    OBVIOUS
  <2>2. T \subseteq Nat
    BY <2>1, Zenon
  <2>3. T # {}
    BY Zenon
  <2> HIDE DEF T
  <2> QED
    BY <2>2, <2>3, Smallest, Zenon
<1>2. PICK g \in S : m = n - g
  OBVIOUS
<1>3. ASSUME NEW k \in S PROVE k <= g
  <2>1. m <= n - k
    BY <1>1
  <2> HIDE DEF T
  <2> QED
    BY <1>2, <2>1
<1> QED
  BY <1>2, <1>3 DEF Max

-----------------------------------------------------------------------------
(* Sums *)

\* The length of a function on 1..N.
LEMMA LengthOf ==
    ASSUME NEW N \in Nat, NEW S, NEW s \in [1..N -> S]
    PROVE  s \in Seq(S) /\ Len(s) = N
<1>1. s \in Seq(S)
  BY SeqDef, Zenon
<1>2. DOMAIN s = 1..N /\ DOMAIN s = 1..Len(s) /\ Len(s) \in Nat
  BY <1>1, LenProperties
<1> QED
  BY <1>1, <1>2

\* Sequences of a length.
Ints(N) == [1..N -> Int]

IsSums(f, s, n) == f = [i \in 0..n |-> IF i = 0 THEN 0 ELSE f[i - 1] + s[i]]

\* The recursion has a solution: the shortest prefix without one would have one.
LEMMA SumsExist ==
    ASSUME NEW N \in Nat, NEW s \in Ints(N)
    PROVE  \E f \in [0..N -> Int] : IsSums(f, s, N)
<1>0. s \in [1..N -> Int]
  BY DEF Ints
<1> DEFINE Bad == {n \in 0..N : ~\E f \in [0..n -> Int] : IsSums(f, s, n)}
<1>1. SUFFICES ASSUME Bad # {} PROVE FALSE
  <2>1. N \in 0..N
    OBVIOUS
  <2> QED
    BY <2>1, Zenon
<1>2. PICK m \in Bad : \A k \in Bad : m <= k
  <2>1. Bad \subseteq Nat
    OBVIOUS
  <2> HIDE DEF Bad
  <2> QED
    BY <1>1, <2>1, Smallest
<1>3. m # 0
  <2>1. SUFFICES ASSUME m = 0 PROVE FALSE
    OBVIOUS
  <2> DEFINE z == [i \in 0..0 |-> 0]
  <2>2. IsSums(z, s, 0)
    BY DEF IsSums
  <2>3. z \in [0..0 -> Int]
    OBVIOUS
  <2> HIDE DEF z
  <2> QED
    BY <2>1, <2>2, <2>3, <1>2
<1>4. PICK f \in [0..m - 1 -> Int] : IsSums(f, s, m - 1)
  <2>1. m - 1 \in 0..N
    BY <1>2, <1>3
  <2>2. m - 1 \notin Bad
    <3>1. ~(m <= m - 1)
      BY <1>2
    <3> HIDE DEF Bad
    <3> QED
      BY <1>2, <3>1, Zenon
  <2> QED
    BY <2>1, <2>2
<1> DEFINE g == [i \in 0..m |-> IF i = m THEN f[m - 1] + s[m] ELSE f[i]]
<1>5. m \in 1..N
  BY <1>3
<1>6. f[m - 1] + s[m] \in Int
  BY <1>0, <1>5
<1>7. g \in [0..m -> Int]
  BY <1>5, <1>6
<1>8. \A i \in 0..m : g[i] = IF i = 0 THEN 0 ELSE g[i - 1] + s[i]
  <2> SUFFICES ASSUME NEW i \in 0..m PROVE g[i] = IF i = 0 THEN 0 ELSE g[i - 1] + s[i]
    OBVIOUS
  <2>1. CASE i = m
    BY <2>1, <1>5
  <2>2. CASE i # m
    <3>1. i \in 0..m - 1 /\ g[i] = f[i]
      BY <2>2, <1>5
    <3>2. f[i] = IF i = 0 THEN 0 ELSE f[i - 1] + s[i]
      BY <3>1, <1>4 DEF IsSums
    <3>3. i # 0 => g[i - 1] = f[i - 1]
      BY <3>1
    <3> QED
      BY <3>1, <3>2, <3>3
  <2> QED
    BY <2>1, <2>2
<1>9. IsSums(g, s, m)
  BY <1>7, <1>8 DEF IsSums
<1> QED
  BY <1>2, <1>7, <1>9

\* Sums is the function its recursion describes.
LEMMA SumsAre ==
    ASSUME NEW N \in Nat, NEW s \in Ints(N)
    PROVE  /\ Sums(s) \in [0..N -> Int]
           /\ Sums(s)[0] = 0
           /\ \A i \in 1..N : Sums(s)[i] = Sums(s)[i - 1] + s[i]
<1>0. s \in [1..N -> Int]
  BY DEF Ints
<1>1. Len(s) = N
  BY <1>0, LengthOf
<1>2. PICK f \in [0..N -> Int] : IsSums(f, s, N)
  BY SumsExist
<1>3. IsSums(Sums(s), s, N)
  BY <1>1, <1>2 DEF Sums, IsSums
<1>4. Sums(s) = [i \in 0..N |-> IF i = 0 THEN 0 ELSE Sums(s)[i - 1] + s[i]]
  BY <1>3 DEF IsSums
<1> DEFINE F == Sums(s)
<1> HIDE DEF F
<1>5. F = [i \in 0..N |-> IF i = 0 THEN 0 ELSE F[i - 1] + s[i]]
  BY <1>4 DEF F
<1>6. F[0] = 0 /\ \A i \in 1..N : F[i] = F[i - 1] + s[i]
  BY <1>5
<1> DEFINE Bad == {i \in 0..N : F[i] \notin Int}
<1>7. Bad = {}
  <2>1. SUFFICES ASSUME Bad # {} PROVE FALSE
    OBVIOUS
  <2>2. PICK m \in Bad : \A k \in Bad : m <= k
    <3>1. Bad \subseteq Nat
      OBVIOUS
    <3> HIDE DEF Bad
    <3> QED
      BY <2>1, <3>1, Smallest
  <2>3. m # 0
    BY <1>6
  <2>4. m - 1 \in 0..N /\ m \in 1..N
    BY <2>2, <2>3
  <2>5. m - 1 \notin Bad
    <3> HIDE DEF Bad
    <3> QED
      BY <2>2, <2>4
  <2>6. F[m - 1] \in Int /\ s[m] \in Int /\ F[m] = F[m - 1] + s[m]
    BY <1>0, <1>6, <2>4, <2>5
  <2> QED
    BY <2>2, <2>6
<1>8. F \in [0..N -> Int]
  BY <1>5, <1>7
<1> QED
  BY <1>6, <1>8 DEF F

\* k entries that are the same in two sequences, after d of one and e of the other.
Alike(s, M, d, t, N, e, k) ==
    /\ M \in Nat /\ s \in Ints(M) /\ N \in Nat /\ t \in Ints(N)
    /\ d \in Nat /\ e \in Nat /\ k \in Nat /\ d + k <= M /\ e + k <= N
    /\ \A i \in 1..k : s[d + i] = t[e + i]

\* They have the same sums from there.
LEMMA SumsMove ==
    ASSUME NEW s, NEW M, NEW d, NEW t, NEW N, NEW e, NEW k, Alike(s, M, d, t, N, e, k)
    PROVE  \A i \in 0..k : Sums(s)[d + i] - Sums(s)[d] = Sums(t)[e + i] - Sums(t)[e]
<1>a. /\ M \in Nat /\ s \in Ints(M) /\ N \in Nat /\ t \in Ints(N)
      /\ d \in Nat /\ e \in Nat /\ k \in Nat /\ d + k <= M /\ e + k <= N
  BY DEF Alike
<1> DEFINE F == Sums(s)
           G == Sums(t)
<1>1. F \in [0..M -> Int] /\ \A i \in 1..M : F[i] = F[i - 1] + s[i]
  BY <1>a, SumsAre
<1>2. G \in [0..N -> Int] /\ \A i \in 1..N : G[i] = G[i - 1] + t[i]
  BY <1>a, SumsAre
<1>0. s \in [1..M -> Int] /\ t \in [1..N -> Int]
  BY <1>a DEF Ints
<1> HIDE DEF F, G
<1> DEFINE Same(i) == F[d + i] - F[d] = G[e + i] - G[e]
           Bad == {i \in 0..k : ~Same(i)}
<1>3. SUFFICES ASSUME Bad # {} PROVE FALSE
  BY DEF F, G
<1>4. PICK m \in Bad : \A j \in Bad : m <= j
  <2>1. Bad \subseteq Nat
    BY <1>a
  <2> HIDE DEF Bad
  <2> QED
    BY <1>3, <2>1, Smallest
<1>5. m # 0
  <2>0. d \in 0..M /\ e \in 0..N
    BY <1>a
  <2>1. F[d] \in Int /\ G[e] \in Int /\ d + 0 = d /\ e + 0 = e
    BY <1>a, <1>1, <1>2, <2>0
  <2>2. Same(0)
    BY <2>1
  <2> HIDE DEF Same
  <2> QED
    BY <1>4, <2>2
<1>6. m - 1 \in 0..k /\ m \in 1..k /\ Same(m - 1)
  <2>1. m - 1 \in 0..k /\ m \in 1..k
    BY <1>a, <1>4, <1>5
  <2>2. m - 1 \notin Bad
    <3> HIDE DEF Bad
    <3> QED
      BY <1>4, <2>1
  <2> HIDE DEF Same
  <2> QED
    BY <2>1, <2>2
<1> DEFINE x == d + m
           y == e + m
<1>7. x \in 1..M /\ y \in 1..N /\ x - 1 = d + (m - 1) /\ y - 1 = e + (m - 1) /\ d \in 0..M /\ e \in 0..N
  BY <1>a, <1>6
<1>8. s[x] = t[y]
  BY <1>6 DEF Alike
<1>9. F[x - 1] - F[d] = G[y - 1] - G[e]
  BY <1>a, <1>6, <1>7
<1> HIDE DEF x, y
<1>10. F[x] = F[x - 1] + s[x] /\ G[y] = G[y - 1] + t[y]
  BY <1>1, <1>2, <1>7
<1>11. F[d] \in Int /\ F[x - 1] \in Int /\ G[e] \in Int /\ G[y - 1] \in Int
      /\ s[x] \in Int /\ t[y] \in Int
  <2>1. x - 1 \in 0..M /\ y - 1 \in 0..N
    BY <1>a, <1>7
  <2> QED
    BY <1>0, <1>1, <1>2, <1>7, <2>1
<1>12. F[x] - F[d] = G[y] - G[e]
  BY <1>8, <1>9, <1>10, <1>11
<1> QED
  BY <1>4, <1>12 DEF x, y

\* Equal entries have equal sums.
LEMMA SumsSame ==
    ASSUME NEW M \in Nat, NEW s \in Ints(M), NEW N \in Nat, NEW t \in Ints(N),
           NEW k \in Nat, k <= M, k <= N, \A i \in 1..k : s[i] = t[i]
    PROVE  \A i \in 0..k : Sums(s)[i] = Sums(t)[i]
<1>1. \A i \in 0..k : Sums(s)[0 + i] - Sums(s)[0] = Sums(t)[0 + i] - Sums(t)[0]
  <2>1. Alike(s, M, 0, t, N, 0, k)
    BY DEF Alike
  <2> QED
    BY <2>1, SumsMove
<1>2. Sums(s)[0] = 0 /\ Sums(t)[0] = 0 /\ Sums(s) \in [0..M -> Int] /\ Sums(t) \in [0..N -> Int]
  BY SumsAre
<1>3. ASSUME NEW i \in 0..k PROVE Sums(s)[i] = Sums(t)[i]
  <2>1. 0 + i = i /\ i \in 0..M /\ i \in 0..N
    OBVIOUS
  <2>2. Sums(s)[i] - Sums(s)[0] = Sums(t)[i] - Sums(t)[0]
    BY <1>1, <2>1
  <2>3. Sums(s)[i] \in Int /\ Sums(t)[i] \in Int
    BY <1>2, <2>1
  <2> QED
    BY <1>2, <2>2, <2>3
<1> QED
  BY <1>3

\* Sums of natural numbers grow.
LEMMA SumsGrow ==
    ASSUME NEW N \in Nat, NEW s \in [1..N -> Nat]
    PROVE  /\ s \in Ints(N)
           /\ Sums(s) \in [0..N -> Nat]
           /\ \A i, j \in 0..N : i <= j => Sums(s)[i] <= Sums(s)[j]
<1> DEFINE F == Sums(s)
<1>0. s \in Ints(N)
  BY DEF Ints
<1>1. F \in [0..N -> Int] /\ F[0] = 0 /\ \A i \in 1..N : F[i] = F[i - 1] + s[i]
  BY <1>0, SumsAre
<1> HIDE DEF F
<1>2. ASSUME NEW i \in 0..N, NEW j \in 0..N, i <= j PROVE F[i] <= F[j]
  <2> DEFINE Bad == {k \in i..N : ~(F[i] <= F[k])}
  <2>1. SUFFICES ASSUME Bad # {} PROVE FALSE
    BY <1>2
  <2>2. PICK m \in Bad : \A k \in Bad : m <= k
    <3>1. Bad \subseteq Nat
      OBVIOUS
    <3> HIDE DEF Bad
    <3> QED
      BY <2>1, <3>1, Smallest
  <2>3. m # i
    BY <1>1
  <2>4. m - 1 \in i..N /\ m \in 1..N /\ m - 1 \in 0..N
    BY <2>2, <2>3
  <2>5. m - 1 \notin Bad
    <3> HIDE DEF Bad
    <3> QED
      BY <2>2, <2>4
  <2>6. F[m] = F[m - 1] + s[m] /\ s[m] \in Nat /\ F[m - 1] \in Int /\ F[i] \in Int
    BY <2>4, <1>1
  <2>7. F[i] <= F[m - 1]
    BY <2>4, <2>5
  <2> QED
    BY <2>2, <2>6, <2>7
<1>3. \A i \in 0..N : F[i] \in Nat
  <2> SUFFICES ASSUME NEW i \in 0..N PROVE F[i] \in Nat
    OBVIOUS
  <2>1. F[0] <= F[i] /\ F[i] \in Int
    BY <1>1, <1>2
  <2> QED
    BY <1>1, <2>1
<1>4. F \in [0..N -> Nat]
  BY <1>1, <1>3
<1> QED
  BY <1>0, <1>2, <1>4 DEF F

\* Of positive numbers they grow by one at least.
LEMMA SumsCount ==
    ASSUME NEW N \in Nat, NEW s \in [1..N -> Nat \ {0}]
    PROVE  \A i \in 0..N : i <= Sums(s)[i]
<1> DEFINE F == Sums(s)
<1>0. s \in Ints(N)
  BY DEF Ints
<1>1. F \in [0..N -> Int] /\ F[0] = 0 /\ \A i \in 1..N : F[i] = F[i - 1] + s[i]
  BY <1>0, SumsAre
<1> HIDE DEF F
<1> DEFINE Bad == {i \in 0..N : ~(i <= F[i])}
<1>2. SUFFICES ASSUME Bad # {} PROVE FALSE
  BY DEF F
<1>3. PICK m \in Bad : \A k \in Bad : m <= k
  <2>1. Bad \subseteq Nat
    OBVIOUS
  <2> HIDE DEF Bad
  <2> QED
    BY <1>2, <2>1, Smallest
<1>4. m # 0
  BY <1>1
<1>5. m - 1 \in 0..N /\ m \in 1..N
  BY <1>3, <1>4
<1>6. m - 1 \notin Bad
  <2> HIDE DEF Bad
  <2> QED
    BY <1>3, <1>5
<1>7. m - 1 <= F[m - 1] /\ F[m] = F[m - 1] + s[m] /\ s[m] \in Nat \ {0} /\ F[m - 1] \in Int
  BY <1>1, <1>5, <1>6
<1> QED
  BY <1>3, <1>5, <1>7

-----------------------------------------------------------------------------
(* Ascending and Deltas *)

Rank(S) == [q \in S |-> Cardinality({r \in S : r <= q})]

\* The ranks of the elements of a set are 1, 2, ...
LEMMA Ranks ==
    ASSUME NEW n \in Nat, NEW S \in SUBSET (1..n)
    PROVE  /\ IsFiniteSet(S) /\ Cardinality(S) \in 0..n
           /\ Rank(S) \in [S -> 1..Cardinality(S)]
           /\ \A q, r \in S : q < r => Rank(S)[q] < Rank(S)[r]
           /\ \A i \in 1..Cardinality(S) : \E q \in S : Rank(S)[q] = i
<1> DEFINE R == Rank(S)
<1>0. R = [q \in S |-> Cardinality({r \in S : r <= q})]
  BY DEF Rank
<1> HIDE DEF R
<1>1. IsFiniteSet(1..n) /\ Cardinality(1..n) = n
  BY FS_Interval
<1>2. IsFiniteSet(S) /\ Cardinality(S) \in Nat /\ Cardinality(S) <= n
  BY <1>1, FS_Subset, FS_CardinalityType
<1> DEFINE Upto(q) == {r \in S : r <= q}
<1>3. ASSUME NEW q \in S
      PROVE  IsFiniteSet(Upto(q)) /\ Cardinality(Upto(q)) \in 1..Cardinality(S)
  <2>1. Upto(q) \in SUBSET S /\ q \in Upto(q)
    OBVIOUS
  <2>2. IsFiniteSet(Upto(q)) /\ Cardinality(Upto(q)) <= Cardinality(S)
    BY <1>2, <2>1, FS_Subset
  <2>3. Cardinality(Upto(q)) \in Nat /\ Cardinality(Upto(q)) # 0
    BY <2>1, <2>2, FS_CardinalityType, FS_EmptySet
  <2> QED
    BY <1>2, <2>2, <2>3
<1>4. R \in [S -> 1..Cardinality(S)]
  BY <1>0, <1>3
<1>5. ASSUME NEW q \in S, NEW r \in S, q < r PROVE R[q] < R[r]
  <2>0. q \in Int /\ r \in Int
    OBVIOUS
  <2>1. Upto(q) \in SUBSET Upto(r) /\ r \in Upto(r) /\ r \notin Upto(q)
    <3>1. \A t \in S : t <= q => t <= r
      BY <1>5, <2>0
    <3>2. r <= r /\ ~(r <= q)
      BY <1>5, <2>0
    <3> QED
      BY <3>1, <3>2, Zenon
  <2>2. Cardinality(Upto(q)) <= Cardinality(Upto(r)) /\ Cardinality(Upto(q)) # Cardinality(Upto(r))
    BY <1>3, <2>1, FS_Subset
  <2>3. R[q] = Cardinality(Upto(q)) /\ R[r] = Cardinality(Upto(r))
    BY <1>0
  <2>4. R[q] \in Int /\ R[r] \in Int
    BY <1>4
  <2> QED
    BY <2>2, <2>3, <2>4
<1>6. R \in Injection(S, 1..Cardinality(S))
  <2>1. ASSUME NEW q \in S, NEW r \in S, R[q] = R[r] PROVE q = r
    <3>1. q \in Int /\ r \in Int /\ R[q] \in Int /\ R[r] \in Int
      BY <1>4
    <3> QED
      BY <1>5, <2>1, <3>1
  <2> QED
    BY <1>4, <2>1 DEF Injection, IsInjective
<1>7. IsFiniteSet(1..Cardinality(S)) /\ Cardinality(1..Cardinality(S)) = Cardinality(S)
  BY <1>2, FS_Interval
<1>8. R \in Surjection(S, 1..Cardinality(S))
  BY <1>6, <1>7, FS_Injection
<1>9. \A i \in 1..Cardinality(S) : \E q \in S : R[q] = i
  BY <1>8 DEF Surjection
<1> QED
  BY <1>2, <1>4, <1>5, <1>9 DEF R

\* Ascending lists a set, each element once, in order.
LEMMA AscendingOf ==
    ASSUME NEW n \in Nat, NEW S \in SUBSET (1..n)
    PROVE  /\ IsFiniteSet(S) /\ Cardinality(S) \in 0..n
           /\ Ascending(S) \in [1..Cardinality(S) -> S]
           /\ \A i, j \in 1..Cardinality(S) : i < j => Ascending(S)[i] < Ascending(S)[j]
           /\ \A p \in S : \E i \in 1..Cardinality(S) : Ascending(S)[i] = p
<1> DEFINE R == Rank(S)
           A == Ascending(S)
<1>1. /\ IsFiniteSet(S) /\ Cardinality(S) \in 0..n
      /\ R \in [S -> 1..Cardinality(S)]
      /\ \A q, r \in S : q < r => R[q] < R[r]
      /\ \A i \in 1..Cardinality(S) : \E q \in S : R[q] = i
  BY Ranks
<1>2. A = [i \in 1..Cardinality(S) |-> CHOOSE p \in S : R[p] = i]
  <2>1. \A i \in 1..Cardinality(S) :
            (CHOOSE p \in S : R[p] = i) = CHOOSE p \in S : Cardinality({q \in S : q <= p}) = i
    BY Zenon DEF Rank
  <2> QED
    BY <2>1, Zenon DEF Ascending
<1> HIDE DEF R, A
<1>0. \A q \in S : q \in Int
  OBVIOUS
<1>3. ASSUME NEW i \in 1..Cardinality(S) PROVE A[i] \in S /\ R[A[i]] = i
  BY <1>1, <1>2
<1>4. A \in [1..Cardinality(S) -> S]
  BY <1>2, <1>3
<1>5. ASSUME NEW q \in S, NEW r \in S, R[q] <= R[r] PROVE q <= r
  <2>1. q \in Int /\ r \in Int /\ R[q] \in Int /\ R[r] \in Int
    BY <1>1
  <2> QED
    BY <1>1, <1>5, <2>1
<1>6. ASSUME NEW i \in 1..Cardinality(S), NEW j \in 1..Cardinality(S), i < j PROVE A[i] < A[j]
  <2>1. A[i] \in S /\ A[j] \in S /\ R[A[i]] = i /\ R[A[j]] = j
    BY <1>3
  <2>2. A[i] \in Int /\ A[j] \in Int
    BY <1>0, <2>1, Zenon
  <2>3. R[A[i]] <= R[A[j]] /\ i # j
    BY <1>6, <2>1
  <2>4. A[i] <= A[j] /\ A[i] # A[j]
    BY <1>5, <2>1, <2>3, Zenon
  <2> QED
    BY <2>2, <2>4
<1>7. ASSUME NEW p \in S PROVE A[R[p]] = p /\ R[p] \in 1..Cardinality(S)
  <2>1. R[p] \in 1..Cardinality(S)
    BY <1>1
  <2>2. A[R[p]] \in S /\ R[A[R[p]]] = R[p]
    BY <1>3, <2>1
  <2>3. A[R[p]] <= p /\ p <= A[R[p]]
    <3>1. R[A[R[p]]] <= R[p] /\ R[p] <= R[A[R[p]]]
      BY <2>1, <2>2
    <3> QED
      BY <1>5, <2>2, <3>1
  <2>4. A[R[p]] \in Int /\ p \in Int
    BY <1>0, <2>2, Zenon
  <2> QED
    BY <2>1, <2>3, <2>4
<1> QED
  BY <1>1, <1>4, <1>6, <1>7 DEF A

\* The deltas of a set are positive, and their sums are its elements.
LEMMA DeltasOf ==
    ASSUME NEW n \in Nat, NEW S \in SUBSET (1..n)
    PROVE  /\ Deltas(S) \in [1..Cardinality(S) -> 1..n]
           /\ Len(Deltas(S)) = Cardinality(S)
           /\ \A i \in 1..Cardinality(S) : Sums(Deltas(S))[i] = Ascending(S)[i]
<1> DEFINE c == Cardinality(S)
           A == Ascending(S)
           D == Deltas(S)
<1>1. c \in 0..n /\ A \in [1..c -> S] /\ \A i, j \in 1..c : i < j => A[i] < A[j]
  BY AscendingOf
<1>2. D = [i \in 1..c |-> IF i = 1 THEN A[1] ELSE A[i] - A[i - 1]]
  <2>1. DOMAIN A = 1..c
    BY <1>1
  <2> QED
    BY <2>1 DEF Deltas
<1> HIDE DEF c, A, D
<1>3. ASSUME NEW i \in 1..c PROVE D[i] \in 1..n
  <2>1. CASE i = 1
    <3>1. A[i] \in 1..n /\ D[i] = A[i]
      BY <1>1, <1>2, <2>1
    <3> QED
      BY <3>1
  <2>2. CASE i # 1
    <3>1. i - 1 \in 1..c /\ i - 1 < i
      BY <1>1, <2>2
    <3>2. A[i] \in 1..n /\ A[i - 1] \in 1..n /\ A[i - 1] < A[i] /\ D[i] = A[i] - A[i - 1]
      BY <1>1, <1>2, <2>2, <3>1
    <3> QED
      BY <3>2
  <2> QED
    BY <2>1, <2>2
<1>4. D \in [1..c -> 1..n]
  BY <1>2, <1>3
<1>5. c \in Nat /\ Len(D) = c
  BY <1>1, <1>4, LengthOf
<1>6. D \in Ints(c)
  BY <1>4 DEF Ints
<1> DEFINE F == Sums(D)
<1>7. F \in [0..c -> Int] /\ F[0] = 0 /\ \A i \in 1..c : F[i] = F[i - 1] + D[i]
  BY <1>5, <1>6, SumsAre
<1> HIDE DEF F
<1>8. \A i \in 1..c : F[i] = A[i]
  <2> DEFINE Bad == {i \in 1..c : F[i] # A[i]}
  <2>1. SUFFICES ASSUME Bad # {} PROVE FALSE
    OBVIOUS
  <2>2. PICK m \in Bad : \A k \in Bad : m <= k
    <3>1. Bad \subseteq Nat
      OBVIOUS
    <3> HIDE DEF Bad
    <3> QED
      BY <2>1, <3>1, Smallest
  <2>3. m # 1
    <3>1. ASSUME 1 \in 1..c PROVE F[1] = A[1]
      <4>1. F[1] = F[0] + D[1] /\ D[1] = A[1] /\ A[1] \in S
        BY <1>1, <1>2, <1>7, <3>1
      <4>2. A[1] \in 1..n
        BY <4>1
      <4> QED
        BY <1>7, <4>1, <4>2
    <3> QED
      BY <3>1
  <2>4. m - 1 \in 1..c /\ m - 1 \notin Bad
    BY <1>5, <2>2, <2>3
  <2>5. F[m - 1] = A[m - 1] /\ D[m] = A[m] - A[m - 1] /\ F[m] = F[m - 1] + D[m]
    BY <2>3, <2>4, <1>2, <1>7
  <2>6. A[m] \in 1..n /\ A[m - 1] \in 1..n
    BY <1>1, <2>4
  <2> QED
    BY <2>2, <2>5, <2>6
<1> QED
  BY <1>4, <1>5, <1>8 DEF c, A, D, F

\* What the encoder writes of a set of positions, a receiver reads back.
THEOREM SetOfDeltas ==
    ASSUME NEW S \in SUBSET Positions
    PROVE  SetOf(Deltas(S)) = S
<1> DEFINE c == Cardinality(S)
           A == Ascending(S)
           D == Deltas(S)
           F == Sums(D)
<1>1. Bits \in Nat \ {0} /\ S \in SUBSET (1..Bits)
  BY PacketAssumption DEF Positions
<1>2. /\ c \in 0..Bits /\ A \in [1..c -> S]
      /\ \A p \in S : \E i \in 1..c : A[i] = p
  BY <1>1, AscendingOf
<1>3. /\ D \in [1..c -> 1..Bits] /\ \A i \in 1..c : F[i] = A[i]
  BY <1>1, DeltasOf
<1>4. SetOf(D) = {((F[i] - 1) % Bits) + 1 : i \in {j \in DOMAIN D : D[j] # 0}}
  BY DEF SetOf
<1> HIDE DEF c, A, D, F
<1>5. {j \in DOMAIN D : D[j] # 0} = 1..c
  BY <1>3
<1>6. ASSUME NEW p \in 1..Bits PROVE ((p - 1) % Bits) + 1 = p
  BY <1>1
<1>7. \A i \in 1..c : ((F[i] - 1) % Bits) + 1 = A[i]
  <2> SUFFICES ASSUME NEW i \in 1..c PROVE ((F[i] - 1) % Bits) + 1 = A[i]
    OBVIOUS
  <2>1. A[i] \in 1..Bits /\ F[i] = A[i]
    BY <1>1, <1>2, <1>3
  <2> QED
    BY <1>6, <2>1
<1>8. SetOf(D) = {A[i] : i \in 1..c}
  BY <1>4, <1>5, <1>7
<1> QED
  BY <1>2, <1>8 DEF D

-----------------------------------------------------------------------------
(* Words: the anchor *)

\* Quotient and remainder determine a number.
LEMMA QuotientRemainder ==
    ASSUME NEW d \in Nat \ {0}, NEW k \in Nat
    PROVE  /\ k \div d \in Nat /\ k % d \in 0 .. d - 1
           /\ k = (k \div d) * d + (k % d)
  BY SMT

\* A greater number has no smaller quotient.
LEMMA QuotientGrows ==
    ASSUME NEW d \in Nat \ {0}, NEW j \in Nat, NEW k \in Nat, j <= k
    PROVE  j \div d <= k \div d
<1>1. j = (j \div d) * d + (j % d) /\ j \div d \in Nat /\ j % d \in 0 .. d - 1
  BY QuotientRemainder
<1>2. k = (k \div d) * d + (k % d) /\ k \div d \in Nat /\ k % d \in 0 .. d - 1
  BY QuotientRemainder
<1> DEFINE a == j \div d
           b == k \div d
<1>3. a \in Nat /\ b \in Nat /\ a * d <= k /\ k < b * d + d
  BY <1>1, <1>2
<1> HIDE DEF a, b
<1>4. SUFFICES ASSUME a >= b + 1 PROVE FALSE
  BY <1>3 DEF a, b
<1>5. a * d >= (b + 1) * d
  BY <1>3, <1>4, Z3
<1>6. (b + 1) * d = b * d + d /\ b * d \in Int /\ a * d \in Int
  BY <1>3, Z3
<1> QED
  BY <1>3, <1>5, <1>6

\* The next number is in the same word, unless it begins one.
LEMMA NextQuotient ==
    ASSUME NEW d \in Nat \ {0}, NEW p \in Nat \ {0}
    PROVE  p \div d = IF p % d = 0 THEN (p - 1) \div d + 1 ELSE (p - 1) \div d
<1> DEFINE a == (p - 1) \div d
           r == (p - 1) % d
           b == p \div d
           t == p % d
<1>1. p - 1 = a * d + r /\ a \in Nat /\ r \in 0 .. d - 1
  <2>1. p - 1 \in Nat
    OBVIOUS
  <2> QED
    BY <2>1, QuotientRemainder
<1>2. p = b * d + t /\ b \in Nat /\ t \in 0 .. d - 1
  BY QuotientRemainder
<1>3. a <= b
  <2>1. p - 1 \in Nat /\ p - 1 <= p
    OBVIOUS
  <2> QED
    BY <2>1, QuotientGrows
<1> HIDE DEF a, b, r, t
<1>4. a * d \in Int /\ b * d \in Int /\ (a + 1) * d = a * d + d /\ (a + 2) * d = a * d + d + d
  BY <1>1, <1>2, Z3
<1>5. b <= a + 1
  <2>1. SUFFICES ASSUME b >= a + 2 PROVE FALSE
    BY <1>1, <1>2
  <2>2. b * d >= (a + 2) * d
    BY <1>1, <1>2, <2>1, Z3
  <2> QED
    BY <1>1, <1>2, <1>4, <2>2
<1>6. CASE b = a
  <2>1. t = r + 1
    BY <1>1, <1>2, <1>4, <1>6
  <2> QED
    BY <1>1, <1>6, <2>1 DEF a, b, t
<1>7. CASE b = a + 1
  <2>1. t = r + 1 - d
    BY <1>1, <1>2, <1>4, <1>7
  <2>2. t = 0
    BY <1>1, <1>2, <2>1
  <2> QED
    BY <1>7, <2>2 DEF a, b, t
<1> QED
  BY <1>1, <1>2, <1>3, <1>5, <1>6, <1>7

\* The positions of a word from p on.
Rest(H, p) == {q \in H : q >= p /\ (q - 1) \div WordBits = (p - 1) \div WordBits}

\* What the receiver counts for a position: itself, and what it counts for the next of the word.
LEMMA RestOf ==
    ASSUME NEW H \in SUBSET Positions, NEW p \in Positions
    PROVE  /\ IsFiniteSet(Rest(H, p)) /\ Cardinality(Rest(H, p)) \in Nat
           /\ (p % WordBits = 0 \/ p = Bits) => Rest(H, p) = H \intersect {p}
           /\ p % WordBits # 0 /\ p # Bits =>
                /\ p + 1 \in Positions
                /\ Rest(H, p) = Rest(H, p + 1) \union (H \intersect {p})
                /\ p \notin Rest(H, p + 1)
<1>1. Bits \in Nat \ {0} /\ WordBits \in Nat \ {0} /\ Positions = 1..Bits
  BY PacketAssumption DEF Positions
<1>2. IsFiniteSet(Positions) /\ Rest(H, p) \in SUBSET Positions
  <2>1. IsFiniteSet(Positions)
    BY <1>1, FS_Interval
  <2> QED
    BY <2>1 DEF Rest
<1>3. IsFiniteSet(Rest(H, p)) /\ Cardinality(Rest(H, p)) \in Nat
  BY <1>2, FS_Subset, FS_CardinalityType
<1>4. p \in Nat \ {0} /\ p <= Bits
  BY <1>1
<1>5. ASSUME p % WordBits = 0, NEW q \in H, q > p
      PROVE  (q - 1) \div WordBits # (p - 1) \div WordBits
  <2>1. q - 1 \in Nat /\ p <= q - 1
    BY <1>1, <1>4, <1>5
  <2>2. p \div WordBits <= (q - 1) \div WordBits
    BY <1>1, <1>4, <2>1, QuotientGrows
  <2>3. p \div WordBits = (p - 1) \div WordBits + 1
    BY <1>1, <1>4, <1>5, NextQuotient
  <2>4. (p - 1) \div WordBits \in Nat /\ (q - 1) \div WordBits \in Nat
    <3>1. p - 1 \in Nat
      BY <1>4
    <3> QED
      BY <1>1, <2>1, <3>1, QuotientRemainder
  <2> QED
    BY <2>2, <2>3, <2>4
<1>6. \A q \in H : q \in 1..Bits
  BY <1>1
<1>7. ASSUME p % WordBits = 0 \/ p = Bits PROVE Rest(H, p) = H \intersect {p}
  <2>1. ASSUME NEW q \in H, q >= p, (q - 1) \div WordBits = (p - 1) \div WordBits PROVE q = p
    <3>1. q \in 1..Bits
      BY <1>6
    <3>2. ~(q > p)
      BY <1>5, <1>7, <2>1, <3>1, <1>4
    <3> QED
      BY <2>1, <3>1, <3>2, <1>4
  <2>2. p >= p
    BY <1>4
  <2> QED
    BY <2>1, <2>2 DEF Rest
<1>8. ASSUME p % WordBits # 0, p # Bits
      PROVE  /\ p + 1 \in Positions
             /\ Rest(H, p) = Rest(H, p + 1) \union (H \intersect {p})
             /\ p \notin Rest(H, p + 1)
  <2>1. p + 1 \in Positions
    BY <1>1, <1>4, <1>8
  <2>2. ((p + 1) - 1) \div WordBits = (p - 1) \div WordBits
    <3>1. p \div WordBits = (p - 1) \div WordBits
      BY <1>1, <1>4, <1>8, NextQuotient
    <3>2. (p + 1) - 1 = p
      BY <1>4
    <3> QED
      BY <3>1, <3>2
  <2>3. \A q \in H : q >= p <=> q >= p + 1 \/ q = p
    BY <1>4, <1>6
  <2>4. ~(p >= p + 1)
    BY <1>4
  <2> QED
    BY <2>1, <2>2, <2>3, <2>4 DEF Rest
<1> QED
  BY <1>3, <1>7, <1>8

\* The receiver undoes what the encoder does to a mask before it writes it.
THEOREM UnhxorInverts ==
    ASSUME NEW S \in SUBSET Positions
    PROVE  Unhxor(Hxor(S)) = S
<1> DEFINE H == Hxor(S)
           Odd(p) == Cardinality(Rest(H, p)) % 2 = 1
           Bad == {p \in Positions : Odd(p) # (p \in S)}
<1>1. Bits \in Nat \ {0} /\ Positions = 1..Bits
  BY PacketAssumption DEF Positions
<1>2. H \in SUBSET Positions
      /\ \A p \in Positions : p \in H <=> ((p \in S) # (p + 1 \in S /\ p % WordBits # 0))
  BY DEF Hxor
<1>3. Unhxor(H) = {p \in Positions : Odd(p)}
  BY DEF Unhxor, Rest
<1> HIDE DEF H
<1>4. ASSUME NEW p \in Positions
      PROVE  (p % WordBits = 0 \/ p = Bits) => (Odd(p) <=> p \in S)
  <2>1. SUFFICES ASSUME p % WordBits = 0 \/ p = Bits PROVE Odd(p) <=> p \in S
    OBVIOUS
  <2>2. Rest(H, p) = H \intersect {p}
    BY <1>2, <2>1, RestOf
  <2>3. p \in H <=> p \in S
    <3>1. p = Bits => p + 1 \notin S
      BY <1>1
    <3> QED
      BY <1>2, <2>1, <3>1
  <2>4. CASE p \in H
    <3>1. Rest(H, p) = {p}
      BY <2>2, <2>4
    <3>2. Cardinality({p}) = 1
      BY FS_Singleton
    <3>3. Odd(p)
      BY <3>1, <3>2
    <3> QED
      BY <2>3, <2>4, <3>3
  <2>5. CASE p \notin H
    <3>1. Rest(H, p) = {}
      BY <2>2, <2>5
    <3>2. Cardinality({}) = 0
      BY FS_EmptySet
    <3>3. ~Odd(p)
      BY <3>1, <3>2
    <3> QED
      BY <2>3, <2>5, <3>3
  <2> QED
    BY <2>4, <2>5
<1>5. ASSUME NEW p \in Positions, p % WordBits # 0, p # Bits
      PROVE  /\ p + 1 \in Positions
             /\ (Odd(p + 1) <=> p + 1 \in S) => (Odd(p) <=> p \in S)
  <2>1. /\ p + 1 \in Positions
        /\ Rest(H, p) = Rest(H, p + 1) \union (H \intersect {p})
        /\ p \notin Rest(H, p + 1)
    BY <1>2, <1>5, RestOf
  <2>2. IsFiniteSet(Rest(H, p + 1)) /\ Cardinality(Rest(H, p + 1)) \in Nat
    BY <1>2, <2>1, RestOf
  <2>3. p \in H <=> ((p \in S) # (p + 1 \in S))
    BY <1>2, <1>5
  <2>4. CASE p \in H
    <3>1. Rest(H, p) = Rest(H, p + 1) \union {p}
      BY <2>1, <2>4
    <3>2. Cardinality(Rest(H, p)) = Cardinality(Rest(H, p + 1)) + 1
      BY <2>1, <2>2, <3>1, FS_AddElement
    <3>3. Odd(p) <=> ~Odd(p + 1)
      BY <2>2, <3>2
    <3> QED
      BY <2>1, <2>3, <2>4, <3>3
  <2>5. CASE p \notin H
    <3>1. Rest(H, p) = Rest(H, p + 1)
      BY <2>1, <2>5
    <3>2. Odd(p) <=> Odd(p + 1)
      BY <3>1
    <3> QED
      BY <2>1, <2>3, <2>5, <3>2
  <2> QED
    BY <2>4, <2>5
<1> HIDE DEF Odd
<1>6. Bad = {}
  <2>1. SUFFICES ASSUME Bad # {} PROVE FALSE
    OBVIOUS
  <2>2. Bad \subseteq 0..Bits
    BY <1>1
  <2>3. PICK m \in Bad : \A k \in Bad : k <= m
    <3> HIDE DEF Bad
    <3> QED
      BY <1>1, <2>1, <2>2, MaxOf
  <2>4. m \in Positions /\ (Odd(m) # (m \in S))
    BY <2>3
  <2>5. m % WordBits # 0 /\ m # Bits
    BY <1>4, <2>4 DEF Odd
  <2>6. m + 1 \in Positions /\ m + 1 \in Bad
    BY <1>5, <2>4, <2>5 DEF Odd
  <2>7. m + 1 <= m
    BY <2>3, <2>6
  <2> QED
    BY <1>1, <2>4, <2>7
<1>7. \A p \in Positions : Odd(p) <=> p \in S
  BY <1>6 DEF Odd
<1> QED
  BY <1>3, <1>7 DEF H

-----------------------------------------------------------------------------
(* The buffers of deltas *)

Buffers == [1..Room -> 0..Bits]
Numbers(L) == [1..L -> 1..Bits]

\* The entries of the i-th packet back, and the positions they stand for.
Seg(n, i) == Sums(n)[i - 1] + 1 .. Sums(n)[i]
PosAt(b, x) == ((Sums(b)[x] - 1) % Bits) + 1
Window(b, n, i) == {PosAt(b, x) : x \in {y \in Seg(n, i) : b[y] # 0}}

\* A packet without changes has one entry, zero.
Dense(b, n, i) == (\A x \in Seg(n, i) : b[x] # 0) \/ (n[i] = 1 /\ b[Sums(n)[i]] = 0)
Good(b, n, K) == Sums(n)[K] <= Bits /\ \A i \in 1..K : Dense(b, n, i)

\* What compressPacket does to a buffer.
Fresh(b, n, K, moves) == Insert(Shift(b), ShiftNumbers(n, K), K, moves)
CountOf(moves) == IF moves = {} THEN 1 ELSE Cardinality(moves)

\* A buffer has more room than a packet has bits, as Levels has a greatest element.
LEMMA RoomOf ==
    ASSUME NEW L \in Levels
    PROVE  Bits \in Nat \ {0} /\ Room \in Nat /\ Room > Bits /\ L \in 1..255
<1>1. Bits \in Nat \ {0} /\ L \in 1..255
  BY PacketAssumption, StartAssumption
<1> DEFINE m == Max(Levels)
<1>2. m \in Levels
  <2>1. Levels \subseteq 0..255 /\ Levels # {} /\ 255 \in Nat
    BY StartAssumption
  <2> QED
    BY <2>1, MaxOf, Zenon
<1>3. m \in Nat \ {0}
  <2>1. m \in 1..255
    BY <1>2, StartAssumption, Zenon
  <2> QED
    BY <2>1
<1>4. Room = (Bits + 1) * m
  BY DEF Room
<1> HIDE DEF m
<1>5. (Bits + 1) * m \in Nat /\ (Bits + 1) * m >= Bits + 1
  <2>1. m = 1 \/ m - 1 \in Nat
    BY <1>3
  <2> QED
    BY <1>1, <1>3, Z3
<1> QED
  BY <1>1, <1>4, <1>5

\* The sums of the counts of a history.
LEMMA NumbersOf ==
    ASSUME NEW L \in Nat, NEW n \in Numbers(L)
    PROVE  /\ Sums(n) \in [0..L -> Nat] /\ Sums(n)[0] = 0
           /\ \A i \in 1..L : Sums(n)[i] = Sums(n)[i - 1] + n[i]
           /\ \A i, j \in 0..L : i <= j => Sums(n)[i] <= Sums(n)[j]
           /\ \A i \in 0..L : i <= Sums(n)[i]
<1>0. Bits \in Nat \ {0}
  BY PacketAssumption
<1>1. n \in Ints(L) /\ n \in [1..L -> Nat] /\ n \in [1..L -> Nat \ {0}]
  BY <1>0 DEF Numbers, Ints
<1>2. Sums(n)[0] = 0 /\ \A i \in 1..L : Sums(n)[i] = Sums(n)[i - 1] + n[i]
  BY <1>1, SumsAre
<1>3. /\ Sums(n) \in [0..L -> Nat]
      /\ \A i, j \in 0..L : i <= j => Sums(n)[i] <= Sums(n)[j]
  BY <1>1, SumsGrow
<1>4. \A i \in 0..L : i <= Sums(n)[i]
  BY <1>1, SumsCount
<1> QED
  BY <1>2, <1>3, <1>4

\* The sums of the entries of a buffer.
LEMMA BufferSums ==
    ASSUME NEW L \in Levels, NEW b \in Buffers
    PROVE  /\ Sums(b) \in [0..Room -> Nat] /\ Sums(b)[0] = 0
           /\ \A i \in 1..Room : Sums(b)[i] = Sums(b)[i - 1] + b[i]
<1>0. Bits \in Nat \ {0} /\ Room \in Nat
  BY RoomOf
<1>1. b \in Ints(Room) /\ b \in [1..Room -> Nat]
  BY <1>0 DEF Buffers, Ints
<1>2. Sums(b)[0] = 0 /\ \A i \in 1..Room : Sums(b)[i] = Sums(b)[i - 1] + b[i]
  BY <1>0, <1>1, SumsAre
<1>3. Sums(b) \in [0..Room -> Nat]
  BY <1>0, <1>1, SumsGrow
<1> QED
  BY <1>2, <1>3

\* Each entry up to a level belongs to a packet of it.
LEMMA InSegment ==
    ASSUME NEW L \in Nat, NEW n \in Numbers(L), NEW K \in 0..L, NEW x \in 1..Sums(n)[K]
    PROVE  \E i \in 1..K : x \in Seg(n, i)
<1> DEFINE F == Sums(n)
<1>1. /\ F \in [0..L -> Nat] /\ F[0] = 0
      /\ \A i, j \in 0..L : i <= j => F[i] <= F[j]
  BY NumbersOf
<1> HIDE DEF F
<1>2. x \in 1..F[K]
  BY DEF F
<1> DEFINE T == {i \in 0..K : x <= F[i]}
<1>3. T \subseteq Nat /\ K \in T
  BY <1>1, <1>2
<1>4. PICK i \in T : \A k \in T : i <= k
  <2> HIDE DEF T
  <2> QED
    BY <1>3, Smallest
<1>5. i # 0
  BY <1>1, <1>2
<1>6. i \in 1..K /\ i - 1 \notin T
  BY <1>4, <1>5
<1>7. F[i - 1] \in Nat /\ F[i] \in Nat
  BY <1>1, <1>6
<1>8. x \in F[i - 1] + 1 .. F[i]
  BY <1>2, <1>4, <1>6, <1>7
<1> QED
  BY <1>6, <1>8 DEF Seg, F

\* The first entry that is not zero is among as many as there are packets.
LEMMA FirstNonzero ==
    ASSUME NEW L \in Nat, NEW n \in Numbers(L), NEW b, NEW K \in 0..L,
           \A i \in 1..K : Dense(b, n, i),
           NEW x \in 1..Sums(n)[K], b[x] # 0
    PROVE  \E f \in 1..K : b[f] # 0
<1> DEFINE F == Sums(n)
<1>1. /\ F \in [0..L -> Nat] /\ F[0] = 0
      /\ \A i \in 1..L : F[i] = F[i - 1] + n[i]
  BY NumbersOf
<1>2. \A i \in 1..K : Seg(n, i) = F[i - 1] + 1 .. F[i]
  BY DEF Seg
<1>3. \A i \in 1..K : (\A y \in F[i - 1] + 1 .. F[i] : b[y] # 0) \/ (n[i] = 1 /\ b[F[i]] = 0)
  BY <1>2 DEF Dense
<1>0. PICK e \in 1..K : x \in Seg(n, e)
  BY InSegment
<1>4. x \in F[e - 1] + 1 .. F[e]
  BY <1>0, <1>2
<1> HIDE DEF F
<1>5. n \in [1..L -> Nat \ {0}]
  BY PacketAssumption DEF Numbers
<1> DEFINE T == {i \in 1..K : ~(n[i] = 1 /\ b[F[i]] = 0)}
<1>6. e \in T
  <2>1. SUFFICES ASSUME n[e] = 1, b[F[e]] = 0 PROVE FALSE
    OBVIOUS
  <2>2. F[e] = F[e - 1] + 1 /\ F[e - 1] \in Nat
    BY <1>1, <2>1
  <2>3. x = F[e]
    BY <1>4, <2>2
  <2> QED
    BY <2>1, <2>3
<1>7. PICK i \in T : \A k \in T : i <= k
  <2>1. T \subseteq Nat
    OBVIOUS
  <2> HIDE DEF T
  <2> QED
    BY <1>6, <2>1, Smallest
<1>8. F[i - 1] = i - 1
  <2> DEFINE Bad == {j \in 0..i - 1 : F[j] # j}
  <2>1. SUFFICES ASSUME Bad # {} PROVE FALSE
    OBVIOUS
  <2>2. PICK m \in Bad : \A k \in Bad : m <= k
    <3>1. Bad \subseteq Nat
      OBVIOUS
    <3> HIDE DEF Bad
    <3> QED
      BY <2>1, <3>1, Smallest
  <2>3. m # 0
    BY <1>1, <2>2
  <2>4. m - 1 \in 0..i - 1 /\ m - 1 \notin Bad /\ m \in 1..K /\ m \notin T
    <3>1. m <= i - 1 /\ m \in Nat /\ i \in 1..K
      BY <2>2
    <3>2. m \notin T
      BY <1>7, <3>1
    <3>3. m - 1 \notin Bad
      BY <2>2, <3>1
    <3> QED
      BY <2>3, <3>1, <3>2, <3>3
  <2>5. F[m - 1] = m - 1 /\ n[m] = 1
    BY <2>4
  <2>6. F[m] = F[m - 1] + n[m]
    BY <1>1, <2>4
  <2> QED
    BY <2>2, <2>4, <2>5, <2>6
<1>9. F[i] = i - 1 + n[i] /\ n[i] \in Nat \ {0}
  BY <1>1, <1>5, <1>7, <1>8
<1>10. i \in F[i - 1] + 1 .. F[i]
  BY <1>7, <1>8, <1>9
<1>11. \A y \in F[i - 1] + 1 .. F[i] : b[y] # 0
  BY <1>3, <1>7
<1>12. b[i] # 0
  BY <1>10, <1>11
<1> QED
  BY <1>7, <1>12

\* The shifted numbers of the packets before, and the count of the new one in front.
Renumbered(n, K, moves) ==
    [i \in DOMAIN n |-> IF i = 1 THEN CountOf(moves) ELSE IF i <= K THEN n[i - 1] ELSE n[i]]

\* The counts after a packet: its own in front, the others behind it by one place.
LEMMA RenumberedOf ==
    ASSUME NEW L \in Nat, NEW K \in 1..L, NEW n \in Numbers(L), NEW moves \in SUBSET Positions
    PROVE  /\ CountOf(moves) \in 1..Bits
           /\ Renumbered(n, K, moves) \in Numbers(L)
           /\ \A i \in 1..K : Sums(Renumbered(n, K, moves))[i] = CountOf(moves) + Sums(n)[i - 1]
<1>0. Bits \in Nat \ {0}
  BY PacketAssumption
<1>1. CountOf(moves) \in 1..Bits
  <2>1. CASE moves = {}
    BY <1>0, <2>1 DEF CountOf
  <2>2. CASE moves # {}
    <3>1. moves \in SUBSET (1..Bits)
      BY DEF Positions
    <3>2. IsFiniteSet(moves) /\ Cardinality(moves) \in 0..Bits
      BY <1>0, <3>1, AscendingOf
    <3>3. Cardinality(moves) # 0
      BY <2>2, <3>2, FS_EmptySet
    <3> QED
      BY <2>2, <3>2, <3>3 DEF CountOf
  <2> QED
    BY <2>1, <2>2
<1> DEFINE c == CountOf(moves)
           n1 == Renumbered(n, K, moves)
<1>2. n \in [1..L -> 1..Bits] /\ DOMAIN n = 1..L
  BY DEF Numbers
<1>3. n1 = [i \in 1..L |-> IF i = 1 THEN c ELSE IF i <= K THEN n[i - 1] ELSE n[i]]
  BY <1>2 DEF Renumbered
<1> HIDE DEF c, n1
<1>4. n1 \in [1..L -> 1..Bits]
  <2>1. \A i \in 1..L : i # 1 => i - 1 \in 1..L
    OBVIOUS
  <2>2. c \in 1..Bits
    BY <1>1 DEF c
  <2> QED
    BY <1>2, <1>3, <2>1, <2>2
<1>5. n1 \in Ints(L) /\ n \in Ints(L)
  BY <1>0, <1>2, <1>4 DEF Ints
<1>6. \A j \in 1..K - 1 : n1[1 + j] = n[0 + j]
  <2> SUFFICES ASSUME NEW j \in 1..K - 1 PROVE n1[1 + j] = n[0 + j]
    OBVIOUS
  <2>1. 1 + j \in 1..L /\ 1 + j # 1 /\ 1 + j <= K /\ (1 + j) - 1 = j /\ 0 + j = j
    OBVIOUS
  <2> QED
    BY <1>3, <2>1
<1>7. 0 \in Nat /\ 1 \in Nat /\ K - 1 \in Nat /\ 1 + (K - 1) <= L /\ 0 + (K - 1) <= L
  OBVIOUS
<1>8. \A j \in 0..K - 1 : Sums(n1)[1 + j] - Sums(n1)[1] = Sums(n)[0 + j] - Sums(n)[0]
  <2>1. Alike(n1, L, 1, n, L, 0, K - 1)
    BY <1>5, <1>6, <1>7 DEF Alike
  <2> QED
    BY <2>1, SumsMove
<1>9. Sums(n1)[1] = c
  <2>1. 1 \in 1..L
    OBVIOUS
  <2>2. Sums(n1)[1] = Sums(n1)[0] + n1[1] /\ Sums(n1)[0] = 0
    <3>1. 1 - 1 = 0
      OBVIOUS
    <3> QED
      BY <1>5, <2>1, <3>1, SumsAre
  <2>3. n1[1] = c /\ c \in Int
    BY <1>1, <1>3, <2>1 DEF c
  <2> QED
    BY <2>2, <2>3
<1>10. ASSUME NEW i \in 1..K PROVE Sums(n1)[i] = c + Sums(n)[i - 1]
  <2>1. i - 1 \in 0..K - 1 /\ 1 + (i - 1) = i /\ 0 + (i - 1) = i - 1 /\ i \in 0..L /\ i - 1 \in 0..L
    OBVIOUS
  <2>2. Sums(n1)[i] - Sums(n1)[1] = Sums(n)[i - 1] - Sums(n)[0]
    BY <1>8, <2>1
  <2>3. Sums(n1) \in [0..L -> Int] /\ Sums(n) \in [0..L -> Int] /\ Sums(n)[0] = 0
    BY <1>5, SumsAre
  <2>4. Sums(n1)[i] \in Int /\ Sums(n)[i - 1] \in Int /\ c \in Int
    BY <1>1, <2>1, <2>3 DEF c
  <2> QED
    BY <1>9, <2>2, <2>3, <2>4
<1> QED
  BY <1>1, <1>4, <1>10 DEF c, n1, Numbers

\* A buffer after a packet: a zero in front, the others behind it by one place.
LEMMA ShiftOf ==
    ASSUME NEW L \in Levels, NEW b \in Buffers
    PROVE  /\ Shift(b) \in Buffers /\ Shift(b)[1] = 0
           /\ \A x \in 1..Bits - 1 : Shift(b)[x + 1] = b[x]
<1>1. Bits \in Nat \ {0} /\ Room \in Nat /\ Room > Bits
  BY RoomOf
<1>2. Shift(b) = [i \in 1..Room |-> IF i = 1 THEN 0 ELSE IF i <= Bits THEN b[i - 1] ELSE b[i]]
  BY DEF Shift, Buffers
<1>3. \A i \in 1..Room : i # 1 => i - 1 \in 1..Room
  BY <1>1
<1>4. \A i \in 1..Room : b[i] \in 0..Bits
  BY DEF Buffers
<1>5. Shift(b) \in Buffers
  BY <1>1, <1>2, <1>3, <1>4 DEF Buffers
<1>6. Shift(b)[1] = 0
  BY <1>1, <1>2
<1>7. ASSUME NEW x \in 1..Bits - 1 PROVE Shift(b)[x + 1] = b[x]
  <2>1. x + 1 \in 1..Room /\ x + 1 # 1 /\ x + 1 <= Bits /\ (x + 1) - 1 = x
    BY <1>1
  <2> QED
    BY <1>2, <2>1
<1> QED
  BY <1>5, <1>6, <1>7

\* The pieces of Insert, named.
OverOf(n, K, moves) == {i \in 1..K : Sums(Renumbered(n, K, moves))[i] > Bits}
TotalOf(n, K, moves) ==
    LET n1 == Renumbered(n, K, moves)
        over == OverOf(n, K, moves)
    IN  IF over = {} THEN Sums(n1)[K] ELSE Sums(n1)[Min(over) - 1]
Moved(b, n, K, moves) ==
    [i \in DOMAIN Shift(b) |->
        IF i <= CountOf(moves) THEN Deltas(moves)[i]
        ELSE IF i <= TotalOf(n, K, moves) THEN Shift(b)[i - CountOf(moves) + 1]
        ELSE IF OverOf(n, K, moves) # {} /\ i = TotalOf(n, K, moves) + 1 THEN 0
        ELSE Shift(b)[i]]

Emptied(L, n, K, moves) ==
    [i \in 1..L |-> IF OverOf(n, K, moves) # {} /\ i = Min(OverOf(n, K, moves))
                    THEN 1 ELSE Renumbered(n, K, moves)[i]]

Inserting(L, K, n, b, moves) ==
    L \in Levels /\ K \in 1..L /\ n \in Numbers(L) /\ b \in Buffers /\ moves \in SUBSET Positions

\* Insert, after the shifts, in terms of these pieces.
LEMMA FreshIs ==
    ASSUME NEW L, NEW K, NEW n, NEW b, NEW moves, Inserting(L, K, n, b, moves)
    PROVE  /\ Fresh(b, n, K, moves).full = (OverOf(n, K, moves) # {})
           /\ moves = {} =>
                /\ Fresh(b, n, K, moves).buffer = Shift(b)
                /\ Fresh(b, n, K, moves).numbers = Renumbered(n, K, moves)
           /\ moves # {} =>
                /\ Fresh(b, n, K, moves).buffer =
                        Wrapped(Moved(b, n, K, moves), CountOf(moves), K, Max(moves))
                /\ Fresh(b, n, K, moves).numbers = Emptied(L, n, K, moves)
<1>a. L \in Levels /\ K \in 1..L /\ n \in Numbers(L) /\ moves \in SUBSET Positions
  BY DEF Inserting
<1> DEFINE n2 == ShiftNumbers(n, K)
           new == Deltas(moves)
           count == IF moves = {} THEN 1 ELSE Len(new)
           n1 == [i \in DOMAIN n2 |-> IF i = 1 THEN count ELSE n2[i]]
           over == {i \in 1..K : Sums(n1)[i] > Bits}
           total == IF over = {} THEN Sums(n1)[K] ELSE Sums(n1)[Min(over) - 1]
<1>1. count = CountOf(moves)
  <2>1. moves \in SUBSET (1..Bits) /\ Bits \in Nat
    BY <1>a, PacketAssumption DEF Positions
  <2>2. Len(new) = Cardinality(moves)
    BY <2>1, DeltasOf
  <2> QED
    BY <2>2 DEF CountOf
<1>2. DOMAIN n2 = 1..L /\ DOMAIN n = 1..L
  BY <1>a DEF ShiftNumbers, Numbers
<1>3. n1 = Renumbered(n, K, moves)
  BY <1>1, <1>2 DEF ShiftNumbers, Renumbered
<1>4. over = OverOf(n, K, moves)
  BY <1>3 DEF OverOf
<1>5. total = TotalOf(n, K, moves)
  BY <1>3, <1>4, Zenon DEF TotalOf
<1> DEFINE moved == [i \in DOMAIN Shift(b) |->
                        IF i <= count THEN new[i]
                        ELSE IF i <= total THEN Shift(b)[i - count + 1]
                        ELSE IF over # {} /\ i = total + 1 THEN 0
                        ELSE Shift(b)[i]]
<1>6. moved = Moved(b, n, K, moves)
  <2> HIDE DEF count, total, over
  <2> QED
    BY <1>1, <1>4, <1>5, Zenon DEF Moved
<1>7. DOMAIN n1 = 1..L
  BY <1>2, Zenon
<1>8. Fresh(b, n, K, moves) =
        IF moves = {} THEN [buffer |-> Shift(b), numbers |-> n1, full |-> over # {}]
        ELSE [buffer |-> Wrapped(moved, count, K, Max(moves)), full |-> over # {},
              numbers |-> [i \in 1..L |-> IF over # {} /\ i = Min(over) THEN 1 ELSE n1[i]]]
  BY <1>2, Zenon DEF Fresh, Insert
<1> HIDE DEF n1, over, total, moved, count
<1> QED
  BY <1>1, <1>3, <1>4, <1>6, <1>8 DEF Emptied

\* A position is the same a packet further.
LEMMA Periodic ==
    ASSUME NEW d \in Nat \ {0}, NEW k \in Nat
    PROVE  (k + d) % d = k % d
<1> DEFINE a == k \div d
           b == (k + d) \div d
           r == k % d
           t == (k + d) % d
<1>1. k = a * d + r /\ a \in Nat /\ r \in 0 .. d - 1
  BY QuotientRemainder
<1>2. k + d = b * d + t /\ b \in Nat /\ t \in 0 .. d - 1
  <2>1. k + d \in Nat
    OBVIOUS
  <2> QED
    BY <2>1, QuotientRemainder
<1> HIDE DEF a, b, r, t
<1>3. b <= a + 1
  <2>1. SUFFICES ASSUME b >= a + 2 PROVE FALSE
    BY <1>1, <1>2
  <2>2. b * d >= (a + 2) * d
    BY <1>1, <1>2, <2>1, Z3
  <2>3. (a + 2) * d = a * d + d + d /\ a * d \in Int /\ b * d \in Int
    BY <1>1, <1>2, Z3
  <2> QED
    BY <1>1, <1>2, <2>2, <2>3
<1>4. b >= a + 1
  <2>1. SUFFICES ASSUME a >= b PROVE FALSE
    BY <1>1, <1>2
  <2>2. a * d >= b * d /\ a * d \in Int /\ b * d \in Int
    BY <1>1, <1>2, <2>1, Z3
  <2> QED
    BY <1>1, <1>2, <2>2
<1>5. b = a + 1
  BY <1>1, <1>2, <1>3, <1>4
<1>6. b * d = a * d + d /\ a * d \in Int
  BY <1>1, <1>5, Z3
<1>7. t = r
  BY <1>1, <1>2, <1>6
<1> QED
  BY <1>7 DEF r, t

\* Zeros add nothing to the sums.
LEMMA SumsZero ==
    ASSUME NEW L \in Levels, NEW b \in Buffers, NEW e \in 0..Room, \A x \in 1..e : b[x] = 0
    PROVE  Sums(b)[e] = 0
<1>0. Room \in Nat
  BY RoomOf
<1> DEFINE F == Sums(b)
<1>1. F \in [0..Room -> Nat] /\ F[0] = 0 /\ \A i \in 1..Room : F[i] = F[i - 1] + b[i]
  BY BufferSums
<1> HIDE DEF F
<1> DEFINE Bad == {i \in 0..e : F[i] # 0}
<1>2. Bad = {}
  <2>1. SUFFICES ASSUME Bad # {} PROVE FALSE
    OBVIOUS
  <2>2. PICK m \in Bad : \A k \in Bad : m <= k
    <3>1. Bad \subseteq Nat
      BY <1>0
    <3> HIDE DEF Bad
    <3> QED
      BY <2>1, <3>1, Smallest
  <2>3. m # 0
    BY <1>1
  <2>4. m - 1 \in 0..e /\ m \in 1..e /\ m \in 1..Room
    BY <1>0, <2>2, <2>3
  <2>5. m - 1 \notin Bad
    <3>1. ~(m <= m - 1)
      BY <2>4
    <3> HIDE DEF Bad
    <3> QED
      BY <2>2, <3>1, Zenon
  <2>6. F[m - 1] = 0 /\ F[m] = F[m - 1] + b[m] /\ b[m] = 0
    BY <1>1, <2>4, <2>5
  <2> QED
    BY <2>2, <2>6
<1> QED
  BY <1>0, <1>2 DEF F

\* c new deltas, the last of them at last, before those of the K - 1 packets before.
Wrapping(L, n, K, b, m, c, last) ==
    /\ L \in Levels /\ n \in Numbers(L) /\ K \in 1..L
    /\ b \in Buffers /\ m \in Buffers /\ c \in 1..Bits /\ last \in 1..Bits
    /\ c + Sums(n)[K - 1] <= Bits
    /\ Sums(m)[c] = last
    /\ \A x \in 1..Sums(n)[K - 1] : m[c + x] = b[x]
    /\ \A i \in 1..K - 1 : Dense(b, n, i)
    /\ \A x \in 1..Sums(n)[K - 1] : b[x] # 0 => PosAt(b, x) # last

\* The first delta of the packets before stays what it was, seen from the last new one.
LEMMA WrappedOf ==
    ASSUME NEW L, NEW n, NEW K, NEW b, NEW m, NEW c, NEW last, Wrapping(L, n, K, b, m, c, last)
    PROVE  /\ \A x \in 1..c : Wrapped(m, c, K, last)[x] = m[x]
           /\ \A x \in 1..Sums(n)[K - 1] :
                 /\ Wrapped(m, c, K, last)[c + x] # 0 <=> b[x] # 0
                 /\ b[x] # 0 => PosAt(Wrapped(m, c, K, last), c + x) = PosAt(b, x)
<1> SUFFICES ASSUME L \in Levels, n \in Numbers(L), K \in 1..L,
                    b \in Buffers, m \in Buffers, c \in 1..Bits, last \in 1..Bits,
                    c + Sums(n)[K - 1] <= Bits,
                    Sums(m)[c] = last,
                    \A x \in 1..Sums(n)[K - 1] : m[c + x] = b[x],
                    \A i \in 1..K - 1 : Dense(b, n, i),
                    \A x \in 1..Sums(n)[K - 1] : b[x] # 0 => PosAt(b, x) # last
             PROVE  /\ \A x \in 1..c : Wrapped(m, c, K, last)[x] = m[x]
                    /\ \A x \in 1..Sums(n)[K - 1] :
                          /\ Wrapped(m, c, K, last)[c + x] # 0 <=> b[x] # 0
                          /\ b[x] # 0 => PosAt(Wrapped(m, c, K, last), c + x) = PosAt(b, x)
  BY DEF Wrapping
<1>0. Bits \in Nat \ {0} /\ Room \in Nat /\ Room > Bits /\ L \in Nat
  BY RoomOf
<1> DEFINE M == Sums(n)[K - 1]
           w == Wrapped(m, c, K, last)
           older == {i \in c + 1 .. c + K - 1 : m[i] # 0}
<1>1. M \in Nat /\ K - 1 <= M /\ c + M <= Bits /\ K - 1 \in 0..L
  <2>1. K - 1 \in 0..L
    BY <1>0
  <2> QED
    BY <1>0, <2>1, NumbersOf
<1>2. \A x \in 1..M : m[c + x] = b[x]
  OBVIOUS
<1>3. \A x \in 1..M : b[x] # 0 => \E f \in 1..K - 1 : b[f] # 0
  BY <1>0, <1>1, FirstNonzero
<1>b. /\ b \in [1..Room -> 0..Bits] /\ m \in [1..Room -> 0..Bits]
      /\ \A x \in 1..M : b[x] # 0 => PosAt(b, x) # last
  BY DEF Buffers
<1> HIDE DEF M
<1>4. CASE older = {}
  <2>1. w = m
    BY <1>4 DEF Wrapped
  <2>2. \A x \in 1..M : b[x] = 0
    <3>1. SUFFICES ASSUME NEW x \in 1..M, b[x] # 0 PROVE FALSE
      OBVIOUS
    <3>2. PICK f \in 1..K - 1 : b[f] # 0
      BY <1>3, <3>1
    <3>3. f \in 1..M /\ c + f \in c + 1 .. c + K - 1
      BY <1>0, <1>1
    <3>4. m[c + f] # 0
      BY <1>2, <3>2, <3>3
    <3> QED
      BY <1>4, <3>3, <3>4
  <2> QED
    BY <1>2, <2>1, <2>2 DEF M
<1>5. CASE older # {}
  <2> DEFINE f == Min(older)
             e == f - c
             v == b[e]
             W == IF v < last THEN v + Bits - last ELSE v - last
  <2>1. f \in older /\ \A i \in older : f <= i
    <3>1. older \subseteq Nat
      BY <1>0
    <3> HIDE DEF older
    <3> QED
      BY <1>5, <3>1, MinOf
  <2>2. w = [i \in 1..Room |-> IF i # f THEN m[i]
                               ELSE IF m[i] < last THEN m[i] + Bits - last ELSE m[i] - last]
    BY <1>5, <1>b DEF Wrapped
  <2>3. f \in c + 1 .. c + K - 1 /\ m[f] # 0
    BY <2>1
  <2>4. \A i \in c + 1 .. c + K - 1 : i < f => m[i] = 0
    <3> SUFFICES ASSUME NEW i \in c + 1 .. c + K - 1, i < f, m[i] # 0 PROVE FALSE
      OBVIOUS
    <3>1. i \in older
      OBVIOUS
    <3>2. f <= i
      BY <2>1, <3>1
    <3> HIDE DEF f
    <3> QED
      BY <2>3, <3>2
  <2> HIDE DEF f, older, w
  <2>5. e \in 1..K - 1 /\ e \in 1..M /\ c + e = f /\ f \in 1..Bits /\ f \in 1..Room /\ e \in 1..Room
    BY <1>0, <1>1, <2>3
  <2>6. v = m[f] /\ v \in 1..Bits
    <3>1. v = m[f]
      BY <1>2, <2>5
    <3>2. v \in 0..Bits
      BY <1>b, <2>5
    <3> HIDE DEF v
    <3> QED
      BY <2>3, <3>1, <3>2
  <2>7. \A x \in 1..e - 1 : b[x] = 0
    <3> SUFFICES ASSUME NEW x \in 1..e - 1 PROVE b[x] = 0
      OBVIOUS
    <3>1. x \in 1..M /\ c + x \in c + 1 .. c + K - 1 /\ c + x < f
      BY <1>0, <1>1, <2>5
    <3> QED
      BY <1>2, <2>4, <3>1
  <2>8. Sums(b)[e - 1] = 0 /\ Sums(b)[e] = v
    <3>1. e - 1 \in 0..Room
      BY <1>0, <2>5
    <3>2. Sums(b)[e - 1] = 0
      BY <2>7, <3>1, SumsZero
    <3>3. Sums(b)[e] = Sums(b)[e - 1] + b[e]
      BY <2>5, BufferSums
    <3> QED
      BY <2>6, <3>2, <3>3
  <2>9. PosAt(b, e) = v
    <3> HIDE DEF v, e
    <3>1. (v - 1) % Bits = v - 1
      BY <1>0, <2>6
    <3> QED
      BY <2>6, <2>8, <3>1 DEF PosAt
  <2>10. v # last
    BY <1>b, <2>5, <2>6, <2>9
  <2> HIDE DEF e, v
  <2>11. W \in 1..Bits /\ (last + W = v \/ last + W = v + Bits)
    BY <1>0, <2>6, <2>10
  <2>12. w[f] = W
    BY <2>2, <2>5, <2>6
  <2> HIDE DEF W
  <2>13. \A i \in 1..Room : i # f => w[i] = m[i]
    BY <2>2
  <2>14. w \in Buffers
    <3>1. \A i \in 1..Room : w[i] \in 0..Bits
      BY <1>b, <2>11, <2>12, <2>13
    <3>2. w = [i \in 1..Room |-> w[i]]
      BY <2>2
    <3> QED
      BY <3>1, <3>2 DEF Buffers
  <2>15. b \in Ints(Room) /\ m \in Ints(Room) /\ w \in Ints(Room)
    BY <1>0, <2>14 DEF Buffers, Ints
  <2>16. \A x \in 1..c : w[x] = m[x]
    <3> SUFFICES ASSUME NEW x \in 1..c PROVE w[x] = m[x]
      OBVIOUS
    <3>1. x \in 1..Room /\ x # f
      BY <1>0, <2>3
    <3> QED
      BY <2>13, <3>1
  <2>17. \A x \in 1..M : x # e => w[c + x] = b[x]
    <3> SUFFICES ASSUME NEW x \in 1..M, x # e PROVE w[c + x] = b[x]
      OBVIOUS
    <3>1. c + x \in 1..Room /\ c + x # f
      BY <1>0, <1>1, <2>5
    <3> QED
      BY <1>2, <2>13, <3>1
  <2>18. Sums(w)[c] = last
    <3>1. c \in Nat /\ c <= Room /\ c \in 0..c
      BY <1>0
    <3>2. \A i \in 0..c : Sums(w)[i] = Sums(m)[i]
      BY <1>0, <2>15, <2>16, <3>1, SumsSame
    <3> QED
      BY <3>1, <3>2
  <2>19. Sums(w)[f] = last + W
    <3>1. Alike(w, Room, c, b, Room, 0, e - 1)
      <4>1. \A x \in 1..e - 1 : w[c + x] = b[0 + x]
        <5> SUFFICES ASSUME NEW x \in 1..e - 1 PROVE w[c + x] = b[0 + x]
          OBVIOUS
        <5>1. x \in 1..M /\ x # e /\ 0 + x = x
          BY <2>5, <1>1
        <5> QED
          BY <2>17, <5>1
      <4>2. c + (e - 1) <= Room /\ 0 + (e - 1) <= Room /\ e - 1 \in Nat /\ c \in Nat
        BY <1>0, <1>1, <2>5
      <4> QED
        BY <1>0, <2>15, <4>1, <4>2 DEF Alike
    <3>2. e - 1 \in 0..e - 1 /\ c + (e - 1) = f - 1 /\ 0 + (e - 1) = e - 1
      BY <2>5, <2>3
    <3>3. Sums(w)[f - 1] - Sums(w)[c] = Sums(b)[e - 1] - Sums(b)[0]
      <4>1. Sums(w)[c + (e - 1)] - Sums(w)[c] = Sums(b)[0 + (e - 1)] - Sums(b)[0]
        BY <3>1, <3>2, SumsMove
      <4> QED
        BY <3>2, <4>1
    <3>4. Sums(b)[0] = 0 /\ Sums(w) \in [0..Room -> Nat]
      BY <2>14, BufferSums
    <3>5. Sums(w)[f - 1] \in Nat
      <4>1. f - 1 \in 0..Room
        BY <1>0, <2>5
      <4> QED
        BY <3>4, <4>1
    <3>6. Sums(w)[f - 1] = last
      BY <2>8, <2>18, <3>3, <3>4, <3>5
    <3>7. Sums(w)[f] = Sums(w)[f - 1] + w[f]
      BY <2>5, <2>14, BufferSums
    <3> QED
      BY <2>12, <3>6, <3>7
  <2>20. ASSUME NEW x \in 1..M, x >= e PROVE Sums(w)[c + x] = Sums(b)[x] + (last + W - v)
    <3>1. Alike(w, Room, f, b, Room, e, M - e)
      <4>1. \A y \in 1..M - e : w[f + y] = b[e + y]
        <5> SUFFICES ASSUME NEW y \in 1..M - e PROVE w[f + y] = b[e + y]
          OBVIOUS
        <5>1. e + y \in 1..M /\ e + y # e /\ f + y = c + (e + y)
          BY <2>5, <1>1
        <5> QED
          BY <2>17, <5>1
      <4>2. f + (M - e) <= Room /\ e + (M - e) <= Room /\ M - e \in Nat /\ f \in Nat /\ e \in Nat
        BY <1>0, <1>1, <2>5
      <4> QED
        BY <1>0, <2>15, <4>1, <4>2 DEF Alike
    <3>2. x - e \in 0..M - e /\ f + (x - e) = c + x /\ e + (x - e) = x
      BY <2>5, <1>1, <2>20
    <3>3. Sums(w)[c + x] - Sums(w)[f] = Sums(b)[x] - Sums(b)[e]
      <4>1. Sums(w)[f + (x - e)] - Sums(w)[f] = Sums(b)[e + (x - e)] - Sums(b)[e]
        BY <3>1, <3>2, SumsMove
      <4> QED
        BY <3>2, <4>1
    <3>4. c + x \in 0..Room /\ x \in 0..Room
      BY <1>0, <1>1
    <3>5. Sums(w)[c + x] \in Nat /\ Sums(b)[x] \in Nat
      BY <2>14, <3>4, BufferSums
    <3> QED
      BY <2>6, <2>8, <2>11, <2>19, <3>3, <3>5
  <2>21. ASSUME NEW x \in 1..M
         PROVE  /\ w[c + x] # 0 <=> b[x] # 0
                /\ b[x] # 0 => PosAt(w, c + x) = PosAt(b, x)
    <3>1. w[c + x] # 0 <=> b[x] # 0
      <4>1. CASE x = e
        BY <2>5, <2>6, <2>11, <2>12, <4>1 DEF v
      <4>2. CASE x # e
        BY <2>17, <4>2
      <4> QED
        BY <4>1, <4>2
    <3>2. ASSUME b[x] # 0 PROVE PosAt(w, c + x) = PosAt(b, x)
      <4>1. x >= e
        <5>1. ~(x \in 1..e - 1)
          BY <2>7, <3>2
        <5> QED
          BY <2>5, <5>1
      <4>2. Sums(w)[c + x] = Sums(b)[x] + (last + W - v)
        BY <2>20, <4>1
      <4>3. x \in 1..Room /\ x - 1 \in 0..Room /\ x \in 0..Room
        BY <1>0, <1>1
      <4>4. Sums(b)[x] \in Nat \ {0}
        <5>1. Sums(b)[x] = Sums(b)[x - 1] + b[x] /\ Sums(b)[x - 1] \in Nat
          BY <4>3, BufferSums
        <5>2. b[x] \in 0..Bits
          BY <1>b, <4>3
        <5> QED
          BY <1>0, <3>2, <5>1, <5>2
      <4>5. CASE last + W = v
        <5>1. Sums(w)[c + x] = Sums(b)[x]
          BY <1>0, <4>2, <4>4, <4>5, <2>6, <2>11
        <5> QED
          BY <5>1 DEF PosAt
      <4>6. CASE last + W = v + Bits
        <5> DEFINE k == Sums(b)[x] - 1
        <5>1. k \in Nat /\ Sums(w)[c + x] - 1 = k + Bits
          BY <1>0, <4>2, <4>4, <4>6, <2>6, <2>11
        <5>2. (k + Bits) % Bits = k % Bits
          BY <1>0, <5>1, Periodic
        <5> QED
          BY <5>1, <5>2 DEF PosAt
      <4> QED
        BY <2>11, <4>5, <4>6
    <3> QED
      BY <3>1, <3>2
  <2> QED
    BY <2>16, <2>21 DEF w, M
<1> QED
  BY <1>4, <1>5

\* The deltas of a packet end at its greatest position.
LEMMA LastOf ==
    ASSUME NEW S \in SUBSET Positions, S # {}
    PROVE  /\ Max(S) \in S /\ Max(S) \in 1..Bits
           /\ Cardinality(S) \in 1..Bits
           /\ Ascending(S)[Cardinality(S)] = Max(S)
<1>0. Bits \in Nat \ {0} /\ S \in SUBSET (1..Bits)
  BY PacketAssumption DEF Positions
<1> DEFINE c == Cardinality(S)
           A == Ascending(S)
           g == Max(S)
<1>1. /\ IsFiniteSet(S) /\ c \in 0..Bits /\ A \in [1..c -> S]
      /\ \A i, j \in 1..c : i < j => A[i] < A[j]
      /\ \A p \in S : \E i \in 1..c : A[i] = p
  BY <1>0, AscendingOf
<1>2. g \in S /\ \A k \in S : k <= g
  <2>1. S \subseteq 0..Bits /\ Bits \in Nat
    BY <1>0
  <2> QED
    BY <2>1, MaxOf
<1>3. c # 0
  BY <1>1, FS_EmptySet
<1>4. g \in 1..Bits
  BY <1>0, <1>2
<1> HIDE DEF c, A, g
<1>5. PICK i \in 1..c : A[i] = g
  BY <1>1, <1>2
<1>6. i = c
  <2>1. SUFFICES ASSUME i < c PROVE FALSE
    BY <1>1, <1>3
  <2>2. c \in 1..c
    BY <1>1, <1>3
  <2>3. A[i] < A[c] /\ A[c] \in S
    BY <1>1, <2>1, <2>2
  <2>4. A[c] \in 1..Bits /\ A[c] <= g
    BY <1>0, <1>2, <2>3
  <2> QED
    BY <1>4, <1>5, <2>3, <2>4
<1>7. c \in 1..Bits
  BY <1>1, <1>3
<1> QED
  BY <1>2, <1>4, <1>5, <1>6, <1>7 DEF c, A, g

\* The entries after the new ones have been put in front.
LEMMA MovedOf ==
    ASSUME NEW L \in Levels, NEW K \in 1..L, NEW n \in Numbers(L), NEW b \in Buffers,
           NEW moves \in SUBSET Positions, moves # {}
    PROVE  /\ Moved(b, n, K, moves) \in Buffers
           /\ \A x \in 1..CountOf(moves) : Moved(b, n, K, moves)[x] = Deltas(moves)[x]
           /\ OverOf(n, K, moves) = {} =>
                \A x \in 1..Sums(n)[K - 1] : Moved(b, n, K, moves)[CountOf(moves) + x] = b[x]
<1> DEFINE c == CountOf(moves)
           D == Deltas(moves)
           m == Moved(b, n, K, moves)
           total == TotalOf(n, K, moves)
           over == OverOf(n, K, moves)
           s == Shift(b)
<1>0. Bits \in Nat \ {0} /\ Room \in Nat /\ Room > Bits /\ L \in 1..255 /\ L \in Nat
  <2>1. Bits \in Nat \ {0} /\ Room \in Nat /\ Room > Bits /\ L \in 1..255
    BY RoomOf
  <2> QED
    BY <2>1
<1>1. c \in 1..Bits /\ c = Cardinality(moves)
  <2>1. c \in 1..Bits
    BY <1>0, RenumberedOf
  <2> QED
    BY <2>1 DEF CountOf
<1>2. D \in [1..c -> 1..Bits]
  <2>1. moves \in SUBSET (1..Bits)
    BY DEF Positions
  <2> QED
    BY <1>0, <1>1, <2>1, DeltasOf
<1>3. s \in [1..Room -> 0..Bits] /\ \A x \in 1..Bits - 1 : s[x + 1] = b[x]
  BY ShiftOf DEF Buffers
<1>4. m = [i \in 1..Room |->
            IF i <= c THEN D[i]
            ELSE IF i <= total THEN s[i - c + 1]
            ELSE IF over # {} /\ i = total + 1 THEN 0
            ELSE s[i]]
  <2>1. DOMAIN s = 1..Room
    BY <1>3
  <2> QED
    BY <2>1 DEF Moved
<1>5. over = {} => total = c + Sums(n)[K - 1] /\ total <= Bits
  <2>1. SUFFICES ASSUME over = {} PROVE total = c + Sums(n)[K - 1] /\ total <= Bits
    OBVIOUS
  <2>2. K \in 1..K
    BY <1>0
  <2>3. Sums(Renumbered(n, K, moves))[K] = c + Sums(n)[K - 1]
    BY <1>0, <2>2, RenumberedOf
  <2>4. ~(Sums(Renumbered(n, K, moves))[K] > Bits)
    BY <2>1, <2>2 DEF OverOf
  <2>5. total = Sums(Renumbered(n, K, moves))[K]
    BY <2>1 DEF TotalOf
  <2>6. Sums(n)[K - 1] \in Nat
    <3>1. K - 1 \in 0..L
      BY <1>0
    <3> QED
      BY <1>0, <3>1, NumbersOf
  <2> HIDE DEF c, total
  <2> QED
    BY <1>0, <1>1, <2>3, <2>4, <2>5, <2>6
<1>6. Sums(n)[K - 1] \in Nat
  <2>1. K - 1 \in 0..L
    BY <1>0
  <2> QED
    BY <1>0, <2>1, NumbersOf
<1> HIDE DEF c, D, m, total, over, s
<1>7. ASSUME NEW i \in 1..Room PROVE m[i] \in 0..Bits
  <2>1. CASE i <= c
    <3>1. i \in 1..c /\ m[i] = D[i]
      BY <1>1, <1>4, <2>1
    <3>2. D[i] \in 1..Bits
      BY <1>2, <3>1
    <3> QED
      BY <1>0, <3>1, <3>2
  <2>2. CASE i > c
    <3>1. i - c + 1 \in 1..Room /\ ~(i <= c)
      BY <1>0, <1>1, <2>2
    <3>2. s[i - c + 1] \in 0..Bits /\ s[i] \in 0..Bits /\ 0 \in 0..Bits
      BY <1>0, <1>3, <3>1
    <3> QED
      BY <1>4, <3>1, <3>2
  <2> QED
    BY <1>1, <2>1, <2>2
<1>8. m \in Buffers
  BY <1>4, <1>7 DEF Buffers
<1>9. ASSUME NEW x \in 1..c PROVE m[x] = D[x]
  <2>1. x \in 1..Room /\ x <= c
    BY <1>0, <1>1
  <2> QED
    BY <1>4, <2>1
<1>10. ASSUME over = {}, NEW x \in 1..Sums(n)[K - 1] PROVE m[c + x] = b[x]
  <2>1. c + x \in 1..Room /\ ~(c + x <= c) /\ c + x <= total /\ (c + x) - c + 1 = x + 1 /\ x \in 1..Bits - 1
    BY <1>0, <1>1, <1>5, <1>6, <1>10
  <2>2. m[c + x] = s[x + 1]
    BY <1>4, <2>1
  <2> QED
    BY <1>3, <2>1, <2>2
<1> QED
  BY <1>8, <1>9, <1>10 DEF c, D, m, over

\* A first delta that wraps around is still one of a buffer.
LEMMA WrappedType ==
    ASSUME NEW b \in Buffers, NEW c \in Nat, NEW K \in Nat, NEW last \in 1..Bits
    PROVE  Wrapped(b, c, K, last) \in Buffers
<1>0. Bits \in Nat \ {0}
  BY PacketAssumption
<1> DEFINE older == {i \in c + 1 .. c + K - 1 : b[i] # 0}
           f == Min(older)
<1>1. CASE older = {}
  BY <1>1 DEF Wrapped
<1>2. CASE older # {}
  <2>1. f \in older
    <3>1. older \subseteq Nat
      OBVIOUS
    <3> HIDE DEF older
    <3> QED
      BY <1>2, <3>1, MinOf
  <2>2. b[f] # 0
    BY <2>1
  <2>3. Wrapped(b, c, K, last) =
            [i \in 1..Room |-> IF i # f THEN b[i]
                               ELSE IF b[i] < last THEN b[i] + Bits - last ELSE b[i] - last]
    BY <1>2 DEF Wrapped, Buffers
  <2> HIDE DEF f
  <2>4. \A i \in 1..Room : b[i] \in 0..Bits
    BY DEF Buffers
  <2>5. \A i \in 1..Room : (IF i # f THEN b[i]
                            ELSE IF b[i] < last THEN b[i] + Bits - last ELSE b[i] - last) \in 0..Bits
    BY <1>0, <2>2, <2>4
  <2> QED
    BY <2>3, <2>5 DEF Buffers
<1> QED
  BY <1>1, <1>2

\* Buffers and counts stay in their ranges, dropped packets or not.
LEMMA FreshTypes ==
    ASSUME NEW L \in Levels, NEW K \in 1..L, NEW n \in Numbers(L), NEW b \in Buffers,
           NEW moves \in SUBSET Positions
    PROVE  /\ Fresh(b, n, K, moves).buffer \in Buffers
           /\ Fresh(b, n, K, moves).numbers \in Numbers(L)
           /\ Fresh(b, n, K, moves).full \in BOOLEAN
<1>0. Bits \in Nat \ {0} /\ L \in 1..255 /\ L \in Nat /\ K \in Nat
  <2>1. Bits \in Nat \ {0} /\ L \in 1..255
    BY RoomOf
  <2> QED
    BY <2>1
<1>1. Renumbered(n, K, moves) \in Numbers(L) /\ CountOf(moves) \in 1..Bits /\ CountOf(moves) \in Nat
  <2>1. Renumbered(n, K, moves) \in Numbers(L) /\ CountOf(moves) \in 1..Bits
    BY <1>0, RenumberedOf
  <2> QED
    BY <1>0, <2>1
<1>a. Inserting(L, K, n, b, moves)
  BY DEF Inserting
<1>2. Fresh(b, n, K, moves).full \in BOOLEAN
  <2>1. Fresh(b, n, K, moves).full = (OverOf(n, K, moves) # {})
    BY <1>a, FreshIs
  <2> QED
    BY <2>1
<1>3. CASE moves = {}
  <2>1. /\ Fresh(b, n, K, moves).buffer = Shift(b)
        /\ Fresh(b, n, K, moves).numbers = Renumbered(n, K, moves)
    BY <1>a, <1>3, FreshIs
  <2> QED
    BY <1>1, <1>2, <2>1, ShiftOf
<1>4. CASE moves # {}
  <2> DEFINE over == OverOf(n, K, moves)
  <2>1. /\ Fresh(b, n, K, moves).buffer =
                Wrapped(Moved(b, n, K, moves), CountOf(moves), K, Max(moves))
        /\ Fresh(b, n, K, moves).numbers = Emptied(L, n, K, moves)
    BY <1>a, <1>4, FreshIs
  <2>2. Max(moves) \in 1..Bits
    BY <1>4, LastOf
  <2>3. Moved(b, n, K, moves) \in Buffers
    BY <1>4, MovedOf
  <2>4. Fresh(b, n, K, moves).buffer \in Buffers
    BY <1>0, <1>1, <2>1, <2>2, <2>3, WrappedType
  <2> HIDE DEF over
  <2>5. Fresh(b, n, K, moves).numbers \in Numbers(L)
    BY <1>0, <1>1, <2>1 DEF Numbers, Emptied
  <2> QED
    BY <1>2, <2>4, <2>5
<1> QED
  BY <1>3, <1>4

\* A packet more, that leaves the buffer with room and whose changes are new.
Adding(L, K, n, b, moves) ==
    /\ Inserting(L, K, n, b, moves)
    /\ Good(b, n, K - 1) /\ \A i \in 1..K - 1 : moves \intersect Window(b, n, i) = {}
    /\ ~Fresh(b, n, K, moves).full

\* What it does to the buffer.
LEMMA FreshEntries ==
    ASSUME NEW L, NEW K, NEW n, NEW b, NEW moves, Adding(L, K, n, b, moves)
    PROVE  /\ Fresh(b, n, K, moves).numbers = Renumbered(n, K, moves)
           /\ Sums(Renumbered(n, K, moves))[K] <= Bits
           /\ CountOf(moves) + Sums(n)[K - 1] <= Bits
           /\ moves = {} => Fresh(b, n, K, moves).buffer[1] = 0
           /\ moves # {} => \A x \in 1..CountOf(moves) :
                                Fresh(b, n, K, moves).buffer[x] = Deltas(moves)[x]
           /\ \A x \in 1..Sums(n)[K - 1] :
                 /\ Fresh(b, n, K, moves).buffer[CountOf(moves) + x] # 0 <=> b[x] # 0
                 /\ b[x] # 0 => PosAt(Fresh(b, n, K, moves).buffer, CountOf(moves) + x) = PosAt(b, x)
<1> SUFFICES ASSUME L \in Levels, K \in 1..L, n \in Numbers(L), b \in Buffers,
                    moves \in SUBSET Positions,
                    Good(b, n, K - 1), \A i \in 1..K - 1 : moves \intersect Window(b, n, i) = {},
                    ~Fresh(b, n, K, moves).full
             PROVE  /\ Fresh(b, n, K, moves).numbers = Renumbered(n, K, moves)
                    /\ Sums(Renumbered(n, K, moves))[K] <= Bits
                    /\ CountOf(moves) + Sums(n)[K - 1] <= Bits
                    /\ moves = {} => Fresh(b, n, K, moves).buffer[1] = 0
                    /\ moves # {} => \A x \in 1..CountOf(moves) :
                                         Fresh(b, n, K, moves).buffer[x] = Deltas(moves)[x]
                    /\ \A x \in 1..Sums(n)[K - 1] :
                          /\ Fresh(b, n, K, moves).buffer[CountOf(moves) + x] # 0 <=> b[x] # 0
                          /\ b[x] # 0 => PosAt(Fresh(b, n, K, moves).buffer, CountOf(moves) + x) = PosAt(b, x)
  BY DEF Adding, Inserting
<1>a. Inserting(L, K, n, b, moves)
  BY DEF Inserting
<1>0. /\ Bits \in Nat \ {0} /\ Room \in Nat /\ Room > Bits /\ L \in Nat /\ K \in 1..K /\ K - 1 \in 0..L
      /\ CountOf(moves) \in 1..Bits
  <2>1. Bits \in Nat \ {0} /\ Room \in Nat /\ Room > Bits /\ L \in 1..255
    BY RoomOf
  <2>2. L \in Nat
    BY <2>1
  <2>3. CountOf(moves) \in 1..Bits
    BY <2>2, RenumberedOf
  <2> QED
    BY <2>1, <2>2, <2>3
<1> DEFINE M == Sums(n)[K - 1]
           c == CountOf(moves)
           h == Fresh(b, n, K, moves)
<1>1. OverOf(n, K, moves) = {}
  <2>1. h.full = (OverOf(n, K, moves) # {})
    BY <1>a, FreshIs
  <2> QED
    BY <2>1
<1>2. Sums(Renumbered(n, K, moves))[K] = c + M
  BY <1>0, RenumberedOf
<1>3. M \in Nat
  BY <1>0, NumbersOf
<1>4. Sums(Renumbered(n, K, moves))[K] <= Bits /\ c + M <= Bits
  <2>1. ~(Sums(Renumbered(n, K, moves))[K] > Bits)
    BY <1>0, <1>1 DEF OverOf
  <2> HIDE DEF M, c
  <2>2. c + M \in Int
    BY <1>0, <1>3 DEF c
  <2> QED
    BY <1>0, <1>2, <2>1, <2>2
<1>5. CASE moves = {}
  <2>1. h.buffer = Shift(b) /\ h.numbers = Renumbered(n, K, moves)
    BY <1>a, <1>5, FreshIs
  <2>2. c = 1
    BY <1>5 DEF CountOf
  <2>3. Shift(b) \in Buffers /\ Shift(b)[1] = 0 /\ \A x \in 1..Bits - 1 : Shift(b)[x + 1] = b[x]
    BY ShiftOf
  <2> HIDE DEF M, c
  <2>4. ASSUME NEW x \in 1..M PROVE Shift(b)[c + x] = b[x]
    <3>1. c + x = x + 1 /\ x \in 1..Bits - 1
      BY <1>0, <1>3, <1>4, <2>2
    <3> QED
      BY <2>3, <3>1
  <2>5. Sums(Shift(b))[c] = 0
    <3>1. c \in 0..Room /\ \A x \in 1..c : Shift(b)[x] = 0
      BY <1>0, <2>2, <2>3
    <3> QED
      BY <2>3, <3>1, SumsZero
  <2>6. ASSUME NEW x \in 1..M PROVE PosAt(Shift(b), c + x) = PosAt(b, x)
    <3>1. Alike(Shift(b), Room, c, b, Room, 0, M)
      <4>1. Shift(b) \in Ints(Room) /\ b \in Ints(Room)
        BY <1>0, <2>3 DEF Buffers, Ints
      <4>2. \A y \in 1..M : Shift(b)[c + y] = b[0 + y]
        <5> SUFFICES ASSUME NEW y \in 1..M PROVE Shift(b)[c + y] = b[0 + y]
          OBVIOUS
        <5>1. 0 + y = y
          BY <1>3
        <5> QED
          BY <2>4, <5>1
      <4>3. c + M <= Room /\ 0 + M <= Room /\ c \in Nat /\ M \in Nat
        BY <1>0, <1>3, <1>4, <2>2
      <4> QED
        BY <1>0, <4>1, <4>2, <4>3 DEF Alike
    <3>2. Sums(Shift(b))[c + x] - Sums(Shift(b))[c] = Sums(b)[0 + x] - Sums(b)[0]
      <4>1. x \in 0..M
        BY <1>3
      <4> QED
        BY <3>1, <4>1, SumsMove
    <3>3. Sums(b)[0] = 0 /\ Sums(b) \in [0..Room -> Nat] /\ Sums(Shift(b)) \in [0..Room -> Nat]
      BY <2>3, BufferSums
    <3>4. 0 + x = x /\ x \in 0..Room /\ c + x \in 0..Room
      BY <1>0, <1>3, <1>4, <2>2
    <3>5. Sums(b)[x] \in Nat /\ Sums(Shift(b))[c + x] \in Nat
      BY <3>3, <3>4
    <3>6. Sums(Shift(b))[c + x] = Sums(b)[x]
      BY <2>5, <3>2, <3>3, <3>4, <3>5
    <3> QED
      BY <3>6 DEF PosAt
  <2> QED
    BY <1>4, <1>5, <2>1, <2>3, <2>4, <2>6 DEF M, c
<1>6. CASE moves # {}
  <2> DEFINE m == Moved(b, n, K, moves)
             last == Max(moves)
  <2>1. h.buffer = Wrapped(m, c, K, last) /\ h.numbers = Emptied(L, n, K, moves)
    BY <1>a, <1>6, FreshIs
  <2>2. h.numbers = Renumbered(n, K, moves)
    <3>1. Renumbered(n, K, moves) \in Numbers(L)
      BY <1>0, RenumberedOf
    <3>2. Renumbered(n, K, moves) = [i \in 1..L |-> Renumbered(n, K, moves)[i]]
      BY <3>1 DEF Numbers
    <3> QED
      BY <1>1, <2>1, <3>2 DEF Emptied
  <2>3. last \in moves /\ last \in 1..Bits /\ Ascending(moves)[Cardinality(moves)] = last
        /\ Cardinality(moves) \in 1..Bits
    BY <1>6, LastOf
  <2>4. /\ m \in Buffers
        /\ \A x \in 1..c : m[x] = Deltas(moves)[x]
        /\ \A x \in 1..M : m[c + x] = b[x]
    BY <1>1, <1>6, MovedOf
  <2>5. Sums(m)[c] = last
    <3>1. c = Cardinality(moves) /\ c \in 1..c
      BY <1>0, <1>6 DEF CountOf
    <3>2. moves \in SUBSET (1..Bits)
      BY DEF Positions
    <3>3. Deltas(moves) \in [1..c -> 1..Bits] /\ Sums(Deltas(moves))[c] = last
      BY <1>0, <2>3, <3>1, <3>2, DeltasOf
    <3>4. m \in Ints(Room) /\ Deltas(moves) \in Ints(c)
      BY <1>0, <2>4, <3>3 DEF Ints, Buffers
    <3>5. c \in Nat /\ c <= Room /\ c <= c /\ c \in 0..c
      BY <1>0
    <3> HIDE DEF c, m
    <3>6. \A i \in 0..c : Sums(m)[i] = Sums(Deltas(moves))[i]
      BY <1>0, <2>4, <3>4, <3>5, SumsSame
    <3> QED
      BY <3>3, <3>5, <3>6
  <2>6. \A i \in 1..K - 1 : Dense(b, n, i)
    BY DEF Good
  <2>7. ASSUME NEW x \in 1..M, b[x] # 0 PROVE PosAt(b, x) # last
    <3>1. PICK i \in 1..K - 1 : x \in Seg(n, i)
      BY <1>0, InSegment
    <3>2. PosAt(b, x) \in Window(b, n, i)
      BY <2>7, <3>1 DEF Window
    <3>3. moves \intersect Window(b, n, i) = {}
      BY <3>1
    <3> QED
      BY <2>3, <3>2, <3>3
  <2> HIDE DEF m, last
  <2>a. Wrapping(L, n, K, b, m, c, last)
    BY <1>0, <1>4, <2>3, <2>4, <2>5, <2>6, <2>7 DEF Wrapping
  <2>8. /\ \A x \in 1..c : Wrapped(m, c, K, last)[x] = m[x]
        /\ \A x \in 1..M :
              /\ Wrapped(m, c, K, last)[c + x] # 0 <=> b[x] # 0
              /\ b[x] # 0 => PosAt(Wrapped(m, c, K, last), c + x) = PosAt(b, x)
    BY <2>a, WrappedOf
  <2> QED
    BY <1>4, <1>6, <2>1, <2>2, <2>4, <2>8
<1> QED
  BY <1>5, <1>6

\* The positions of the packets before are what they were, one packet further back.
LEMMA FreshKeeps ==
    ASSUME NEW L, NEW K, NEW n, NEW b, NEW moves, Adding(L, K, n, b, moves)
    PROVE  /\ Good(Fresh(b, n, K, moves).buffer, Fresh(b, n, K, moves).numbers, K)
           /\ Window(Fresh(b, n, K, moves).buffer, Fresh(b, n, K, moves).numbers, 1) = moves
           /\ \A i \in 2..K : Window(Fresh(b, n, K, moves).buffer, Fresh(b, n, K, moves).numbers, i)
                                = Window(b, n, i - 1)
<1>a. /\ L \in Levels /\ K \in 1..L /\ n \in Numbers(L) /\ b \in Buffers
      /\ moves \in SUBSET Positions /\ Good(b, n, K - 1)
  BY DEF Adding, Inserting
<1>0. /\ Bits \in Nat \ {0} /\ Room \in Nat /\ Room > Bits /\ L \in Nat /\ K - 1 \in 0..L
      /\ CountOf(moves) \in 1..Bits
  <2>1. Bits \in Nat \ {0} /\ Room \in Nat /\ Room > Bits /\ L \in 1..255
    BY <1>a, RoomOf
  <2>2. L \in Nat
    BY <2>1
  <2>3. CountOf(moves) \in 1..Bits
    BY <1>a, <2>2, RenumberedOf
  <2> QED
    BY <1>a, <2>1, <2>2, <2>3
<1> DEFINE c == CountOf(moves)
           w == Fresh(b, n, K, moves).buffer
           o == Renumbered(n, K, moves)
           F == Sums(n)
           G == Sums(o)
<1>1. /\ Fresh(b, n, K, moves).numbers = o /\ G[K] <= Bits /\ c + F[K - 1] <= Bits
      /\ moves = {} => w[1] = 0
      /\ moves # {} => \A x \in 1..c : w[x] = Deltas(moves)[x]
      /\ \A x \in 1..F[K - 1] :
            /\ w[c + x] # 0 <=> b[x] # 0
            /\ b[x] # 0 => PosAt(w, c + x) = PosAt(b, x)
  BY FreshEntries
<1>2. o \in Numbers(L) /\ \A i \in 1..K : G[i] = c + F[i - 1]
  BY <1>0, <1>a, RenumberedOf
<1>3. /\ F \in [0..L -> Nat] /\ F[0] = 0
      /\ \A i \in 1..L : F[i] = F[i - 1] + n[i]
      /\ \A i, j \in 0..L : i <= j => F[i] <= F[j]
  BY <1>0, <1>a, NumbersOf
<1>4. G[0] = 0 /\ \A i \in 1..L : G[i] = G[i - 1] + o[i]
  BY <1>0, <1>2, NumbersOf
<1>5. w \in Buffers
  BY <1>a, FreshTypes
<1>6. o = [i \in 1..L |-> IF i = 1 THEN c ELSE IF i <= K THEN n[i - 1] ELSE n[i]]
  <2>1. DOMAIN n = 1..L
    BY <1>a DEF Numbers
  <2> QED
    BY <2>1 DEF Renumbered
<1>7. /\ \A i \in 1..L : Seg(n, i) = F[i - 1] + 1 .. F[i]
      /\ \A i \in 1..L : Seg(o, i) = G[i - 1] + 1 .. G[i]
  BY DEF Seg
<1>8. 1 \in 1..K /\ 1 \in 1..L /\ 1 - 1 = 0 /\ K \in Nat /\ K <= L /\ c \in Nat
  BY <1>0, <1>a
<1>9. Seg(o, 1) = 1..c /\ G[1] = c /\ o[1] = c
  <2>1. G[1] = c + F[0] /\ Seg(o, 1) = G[0] + 1 .. G[1]
    BY <1>2, <1>7, <1>8
  <2>2. o[1] = c
    BY <1>6, <1>8
  <2> HIDE DEF c, F, G, o
  <2> QED
    BY <1>3, <1>4, <1>8, <2>1, <2>2
<1>10. \A x \in 1..c : moves # {} => w[x] # 0 /\ PosAt(w, x) = Ascending(moves)[x]
  <2> SUFFICES ASSUME NEW x \in 1..c, moves # {}
               PROVE  w[x] # 0 /\ PosAt(w, x) = Ascending(moves)[x]
    OBVIOUS
  <2> DEFINE D == Deltas(moves)
  <2>1. moves \in SUBSET (1..Bits) /\ c = Cardinality(moves)
    BY <1>a DEF Positions, CountOf
  <2>2. /\ D \in [1..c -> 1..Bits]
        /\ \A i \in 1..c : Sums(D)[i] = Ascending(moves)[i]
    BY <1>0, <2>1, DeltasOf
  <2>3. Ascending(moves)[x] \in 1..Bits
    <3>1. Ascending(moves) \in [1..c -> moves]
      BY <1>0, <2>1, AscendingOf
    <3> QED
      BY <2>1, <3>1
  <2>4. w[x] = D[x] /\ \A i \in 1..c : w[i] = D[i]
    BY <1>1
  <2>5. w \in Ints(Room) /\ D \in Ints(c)
    BY <1>0, <1>5, <2>2 DEF Ints, Buffers
  <2> HIDE DEF D, c, w
  <2>6. c <= Room /\ c <= c /\ x \in 0..c /\ c \in 1..Bits
    BY <1>0, <1>8 DEF c
  <2>7. \A i \in 0..c : Sums(w)[i] = Sums(D)[i]
    BY <1>0, <1>8, <2>4, <2>5, <2>6, SumsSame
  <2>8. Sums(w)[x] = Ascending(moves)[x]
    BY <2>2, <2>6, <2>7
  <2>9. ((Ascending(moves)[x] - 1) % Bits) + 1 = Ascending(moves)[x]
    BY <1>0, <2>3
  <2>10. D[x] # 0
    BY <1>0, <2>2
  <2> QED
    BY <2>4, <2>8, <2>9, <2>10 DEF PosAt
<1>11. Window(w, o, 1) = moves
  <2>1. CASE moves = {}
    <3>1. c = 1
      BY <2>1 DEF CountOf
    <3>2. {y \in Seg(o, 1) : w[y] # 0} = {}
      BY <1>1, <1>9, <2>1, <3>1
    <3> QED
      BY <2>1, <3>2 DEF Window
  <2>2. CASE moves # {}
    <3>1. {y \in Seg(o, 1) : w[y] # 0} = 1..c
      BY <1>9, <1>10, <2>2
    <3>2. Window(w, o, 1) = {PosAt(w, x) : x \in 1..c}
      BY <3>1 DEF Window
    <3>3. Window(w, o, 1) = {Ascending(moves)[x] : x \in 1..c}
      BY <1>10, <2>2, <3>2
    <3>4. moves \in SUBSET (1..Bits) /\ c = Cardinality(moves)
      BY <1>a, <2>2 DEF Positions, CountOf
    <3>5. /\ Ascending(moves) \in [1..c -> moves]
          /\ \A p \in moves : \E i \in 1..c : Ascending(moves)[i] = p
      BY <1>0, <3>4, AscendingOf
    <3> QED
      BY <3>3, <3>5
  <2> QED
    BY <2>1, <2>2
<1>12. Dense(w, o, 1)
  <2>1. CASE moves = {}
    <3>1. c = 1
      BY <2>1 DEF CountOf
    <3> QED
      BY <1>1, <1>9, <2>1, <3>1 DEF Dense
  <2>2. CASE moves # {}
    BY <1>9, <1>10, <2>2 DEF Dense
  <2> QED
    BY <2>1, <2>2
<1> HIDE DEF c, w, o, F, G
<1>13. ASSUME NEW i \in 2..K
       PROVE  Window(w, o, i) = Window(b, n, i - 1) /\ Dense(w, o, i)
  <2>1. i \in 1..L /\ i \in 1..K /\ i - 1 \in 1..L /\ i - 1 \in 1..K /\ i - 1 \in 1..K - 1 /\ i - 2 \in 0..L
        /\ (i - 1) - 1 = i - 2
    <3>1. i \in Int /\ 2 <= i /\ i <= K
      BY <1>8
    <3> QED
      BY <1>0, <1>8, <3>1
  <2>2. G[i] = c + F[i - 1] /\ G[i - 1] = c + F[i - 2] /\ F[i - 1] \in Nat /\ F[i - 2] \in Nat
        /\ F[i - 1] <= F[K - 1] /\ F[K - 1] \in Nat
    <3>1. i - 1 \in 0..L /\ K - 1 \in 0..L /\ i - 1 <= K - 1
      BY <1>0, <1>8
    <3>2. F[i - 1] <= F[K - 1] /\ F[i - 1] \in Nat /\ F[K - 1] \in Nat /\ F[i - 2] \in Nat
      BY <1>3, <2>1, <3>1
    <3>3. G[i] = c + F[i - 1] /\ G[i - 1] = c + F[i - 2]
      BY <1>2, <2>1
    <3> QED
      BY <3>2, <3>3
  <2>3. Seg(o, i) = c + F[i - 2] + 1 .. c + F[i - 1] /\ Seg(n, i - 1) = F[i - 2] + 1 .. F[i - 1]
    BY <1>7, <2>1, <2>2
  <2>4. ASSUME NEW x \in Seg(n, i - 1) PROVE c + x \in Seg(o, i) /\ x \in 1..F[K - 1]
    <3>1. x \in F[i - 2] + 1 .. F[i - 1]
      BY <2>3
    <3>2. c + x \in c + F[i - 2] + 1 .. c + F[i - 1] /\ x \in 1..F[K - 1]
      BY <1>8, <2>2, <3>1
    <3> QED
      BY <2>3, <3>2
  <2>5. ASSUME NEW y \in Seg(o, i) PROVE \E x \in Seg(n, i - 1) : y = c + x
    <3>1. y \in c + F[i - 2] + 1 .. c + F[i - 1]
      BY <2>3
    <3>2. y - c \in F[i - 2] + 1 .. F[i - 1] /\ y = c + (y - c)
      BY <1>8, <2>2, <3>1
    <3> QED
      BY <2>3, <3>2
  <2>6. ASSUME NEW x \in Seg(n, i - 1)
        PROVE  /\ w[c + x] # 0 <=> b[x] # 0
               /\ b[x] # 0 => PosAt(w, c + x) = PosAt(b, x)
    BY <1>1, <2>4
  <2>7. Window(w, o, i) = Window(b, n, i - 1)
    <3>1. ASSUME NEW p \in Window(w, o, i) PROVE p \in Window(b, n, i - 1)
      <4>1. PICK y \in Seg(o, i) : w[y] # 0 /\ p = PosAt(w, y)
        BY DEF Window
      <4>2. PICK x \in Seg(n, i - 1) : y = c + x
        BY <2>5
      <4>3. b[x] # 0 /\ p = PosAt(b, x)
        BY <2>6, <4>1, <4>2
      <4> QED
        BY <4>3 DEF Window
    <3>2. ASSUME NEW p \in Window(b, n, i - 1) PROVE p \in Window(w, o, i)
      <4>1. PICK x \in Seg(n, i - 1) : b[x] # 0 /\ p = PosAt(b, x)
        BY DEF Window
      <4>2. c + x \in Seg(o, i) /\ w[c + x] # 0 /\ p = PosAt(w, c + x)
        BY <2>4, <2>6, <4>1
      <4> QED
        BY <4>2 DEF Window
    <3> QED
      BY <3>1, <3>2
  <2>8. Dense(w, o, i)
    <3>1. Dense(b, n, i - 1)
      BY <1>a, <2>1 DEF Good
    <3>2. CASE \A x \in Seg(n, i - 1) : b[x] # 0
      <4>1. ASSUME NEW y \in Seg(o, i) PROVE w[y] # 0
        <5>1. PICK x \in Seg(n, i - 1) : y = c + x
          BY <2>5
        <5> QED
          BY <2>6, <3>2, <5>1
      <4> QED
        BY <4>1 DEF Dense
    <3>3. CASE n[i - 1] = 1 /\ b[F[i - 1]] = 0
      <4>1. o[i] = n[i - 1]
        BY <1>6, <2>1
      <4>2. F[i - 1] = F[i - 2] + n[i - 1]
        BY <1>3, <2>1
      <4>3. F[i - 1] \in Seg(n, i - 1)
        BY <2>2, <2>3, <3>3, <4>2
      <4>4. w[c + F[i - 1]] = 0
        BY <2>6, <3>3, <4>3
      <4> QED
        BY <2>2, <3>3, <4>1, <4>4 DEF Dense, G
    <3> QED
      BY <3>1, <3>2, <3>3 DEF Dense, F
  <2> QED
    BY <2>7, <2>8
<1>14. Good(w, o, K)
  <2>1. ASSUME NEW i \in 1..K PROVE Dense(w, o, i)
    <3>1. i = 1 \/ i \in 2..K
      BY <1>8
    <3> QED
      BY <1>12, <1>13, <3>1
  <2>2. Sums(o)[K] <= Bits
    BY <1>1 DEF G
  <2> QED
    BY <2>1, <2>2 DEF Good
<1> QED
  BY <1>1, <1>11, <1>13, <1>14 DEF w

\* What is written of a buffer: the positions of the packets of the level.
LEMMA HistoryIs ==
    ASSUME NEW L \in Levels, NEW K \in 1..L, NEW n \in Numbers(L), NEW b \in Buffers,
           Good(b, n, K), NEW h, h = [buffer |-> b, numbers |-> n, full |-> FALSE]
    PROVE  SetOf(History(h, K)) = UNION {Window(b, n, i) : i \in 1..K}
<1>0. Bits \in Nat \ {0} /\ Room \in Nat /\ Room > Bits /\ L \in Nat /\ K \in 0..L
  <2>1. Bits \in Nat \ {0} /\ Room \in Nat /\ Room > Bits /\ L \in 1..255
    BY RoomOf
  <2> QED
    BY <2>1
<1> DEFINE F == Sums(n)
           m == F[K]
           d == History(h, K)
<1>1. /\ F \in [0..L -> Nat] /\ F[0] = 0
      /\ \A i, j \in 0..L : i <= j => F[i] <= F[j]
  BY <1>0, NumbersOf
<1>2. m \in Nat /\ m <= Bits
  <2>1. m <= Bits
    BY DEF Good
  <2> QED
    BY <1>0, <1>1, <2>1
<1>3. d = [i \in 1..m |-> b[i]]
  <2>1. d = SubSeq(b, 1, m)
    BY DEF History
  <2> HIDE DEF m, d
  <2>2. SubSeq(b, 1, m) = [i \in 1..m |-> b[i]]
    BY <1>0, <1>2 DEF Buffers
  <2> QED
    BY <2>1, <2>2
<1> HIDE DEF m, d
<1>4. /\ d \in Ints(m) /\ b \in Ints(Room) /\ \A i \in 1..m : d[i] = b[i]
      /\ DOMAIN d = 1..m
  BY <1>0, <1>2, <1>3 DEF Ints, Buffers
<1>5. \A i \in 0..m : Sums(d)[i] = Sums(b)[i]
  <2>1. m <= m /\ m <= Room
    BY <1>0, <1>2
  <2> QED
    BY <1>0, <1>2, <1>4, <2>1, SumsSame
<1>6. SetOf(d) = {((Sums(d)[x] - 1) % Bits) + 1 : x \in {y \in 1..m : d[y] # 0}}
  BY <1>4 DEF SetOf
<1>7. \A x \in 1..m : d[x] = b[x] /\ ((Sums(d)[x] - 1) % Bits) + 1 = PosAt(b, x)
  <2> SUFFICES ASSUME NEW x \in 1..m PROVE d[x] = b[x] /\ ((Sums(d)[x] - 1) % Bits) + 1 = PosAt(b, x)
    OBVIOUS
  <2>1. x \in 0..m
    BY <1>2
  <2> QED
    BY <1>4, <1>5, <2>1 DEF PosAt
<1>8. ASSUME NEW p \in SetOf(d) PROVE p \in UNION {Window(b, n, i) : i \in 1..K}
  <2>1. PICK x \in 1..m : b[x] # 0 /\ p = PosAt(b, x)
    BY <1>6, <1>7
  <2>2. PICK i \in 1..K : x \in Seg(n, i)
    <3>1. x \in 1..Sums(n)[K]
      BY DEF m
    <3> QED
      BY <1>0, <3>1, InSegment
  <2>3. p \in Window(b, n, i)
    BY <2>1, <2>2 DEF Window
  <2> QED
    BY <2>3
<1>9. ASSUME NEW i \in 1..K, NEW p \in Window(b, n, i) PROVE p \in SetOf(d)
  <2>1. PICK x \in Seg(n, i) : b[x] # 0 /\ p = PosAt(b, x)
    BY DEF Window
  <2>2. x \in 1..m
    <3>1. x \in F[i - 1] + 1 .. F[i]
      BY DEF Seg
    <3>2. i - 1 \in 0..L /\ i \in 0..L /\ i <= K
      BY <1>0
    <3>3. F[i - 1] \in Nat /\ F[i] <= F[K] /\ F[i] \in Nat /\ F[K] \in Nat
      BY <1>0, <1>1, <3>2
    <3> HIDE DEF F
    <3> QED
      BY <3>1, <3>3 DEF m
  <2> QED
    BY <1>6, <1>7, <2>1, <2>2
<1> QED
  BY <1>8, <1>9 DEF d

-----------------------------------------------------------------------------
(* The inductive invariant *)

P(i) == Window(buffer["positive"], numbers["positive"], i)
N(i) == Window(buffer["negative"], numbers["negative"], i)

\* Packets compressed since the positions that did not vary last left the mask.
Age == start.rate - positiveCounter

TypeOK ==
    /\ start \in [level : Levels, rate : Rates, anchor : Anchors] /\ start.level <= start.rate
    /\ mask \in SUBSET Positions /\ positive \in SUBSET Positions /\ oldPacket \in SUBSET Positions
    /\ \A k \in Kinds : buffer[k] \in Buffers /\ numbers[k] \in Numbers(start.level)
    /\ protectionLevel \in 0..start.level /\ positiveCounter \in 0..start.rate
    /\ missed \in Nat /\ lost \in BOOLEAN /\ crowded \in BOOLEAN

\* What the last K packets changed of the mask, for windows Pw and Nw.
Recent(K, Pw, Nw, m, pos, age) ==
    \A i \in 1..K :
        /\ Nw[i] \subseteq m
        /\ \A p \in Pw[i] \intersect m : \E j \in 1..i : p \in Nw[j]
        /\ i <= age => Nw[i] \subseteq pos
        /\ i < age => Pw[i] = {}

PWs(K) == [i \in 1..K |-> P(i)]
NWs(K) == [i \in 1..K |-> N(i)]

EncoderOK ==
    /\ positive \subseteq mask
    /\ protectionLevel = 0 => sizeOld = 0
    /\ ~crowded =>
        /\ \A k \in Kinds : Good(buffer[k], numbers[k], protectionLevel)
        /\ Recent(protectionLevel, PWs(protectionLevel), NWs(protectionLevel), mask, positive, Age)

ReceiverOK ==
    /\ crowded /\ ~lost => missed >= 1
    /\ missed = 0 /\ ~lost => rmask = mask /\ rpacket = oldPacket
    /\ anchored => rmask = mask
    /\ ~lost /\ ~crowded /\ missed <= protectionLevel =>
        /\ \A p \in Xor(rmask, mask) : \E i \in 1..missed : p \in P(i) \union N(i)
        /\ Xor(rpacket, oldPacket) \subseteq mask
        /\ missed <= Age => Xor(rpacket, oldPacket) \subseteq positive

IInv == TypeOK /\ EncoderOK /\ ReceiverOK

\* One packet more: the windows move one place for those of the packet.
Shifted(K, Pw, Nw, Pn, Nn, pc, nc) ==
    /\ Pn[1] = pc /\ Nn[1] = nc
    /\ \A i \in 2..K : Pn[i] = Pw[i - 1] /\ Nn[i] = Nw[i - 1]

\* No position leaves the mask in this packet.
LEMMA RecentKept ==
    ASSUME NEW K \in Nat \ {0}, NEW Pw, NEW Nw, NEW Pn, NEW Nn, NEW m, NEW pos, NEW v,
           NEW age \in Int, NEW aged \in Int, aged <= age + 1,
           Recent(K - 1, Pw, Nw, m, pos, age), Shifted(K, Pw, Nw, Pn, Nn, {}, v \ m)
    PROVE  Recent(K, Pn, Nn, m \union v, pos \union v, aged)
<1> SUFFICES ASSUME NEW i \in 1..K
             PROVE  /\ Nn[i] \subseteq m \union v
                    /\ \A p \in Pn[i] \intersect (m \union v) : \E j \in 1..i : p \in Nn[j]
                    /\ i <= aged => Nn[i] \subseteq pos \union v
                    /\ i < aged => Pn[i] = {}
  BY Zenon DEF Recent
<1>1. Pn[1] = {} /\ Nn[1] = v \ m /\ \A j \in 2..K : Pn[j] = Pw[j - 1] /\ Nn[j] = Nw[j - 1]
  BY DEF Shifted
<1>2. CASE i = 1
  BY <1>1, <1>2
<1>3. CASE i # 1
  <2>1. i \in 2..K /\ i - 1 \in 1..K - 1
    BY <1>3
  <2>2. Pn[i] = Pw[i - 1] /\ Nn[i] = Nw[i - 1]
    BY <1>1, <2>1
  <2>3. /\ Nw[i - 1] \subseteq m
        /\ \A p \in Pw[i - 1] \intersect m : \E j \in 1..i - 1 : p \in Nw[j]
        /\ i - 1 <= age => Nw[i - 1] \subseteq pos
        /\ i - 1 < age => Pw[i - 1] = {}
    BY <2>1 DEF Recent
  <2>4. ASSUME NEW p \in Pn[i] \intersect (m \union v) PROVE \E j \in 1..i : p \in Nn[j]
    <3>1. CASE p \in m
      <4>1. PICK j \in 1..i - 1 : p \in Nw[j]
        BY <2>2, <2>3, <2>4, <3>1
      <4>2. j + 1 \in 2..K /\ j + 1 \in 1..i /\ (j + 1) - 1 = j
        BY <2>1
      <4>3. Nn[j + 1] = Nw[j]
        BY <1>1, <4>2
      <4> QED
        BY <4>1, <4>2, <4>3
    <3>2. CASE p \notin m
      <4>1. p \in Nn[1] /\ 1 \in 1..i
        BY <1>1, <2>1, <2>4, <3>2
      <4> QED
        BY <4>1
    <3> QED
      BY <3>1, <3>2
  <2>5. (i <= aged => i - 1 <= age) /\ (i < aged => i - 1 < age)
    BY <2>1
  <2> QED
    BY <2>2, <2>3, <2>4, <2>5
<1> QED
  BY <1>2, <1>3

\* The positions that did not vary leave it.
LEMMA RecentCut ==
    ASSUME NEW K \in Nat \ {0}, NEW Pw, NEW Nw, NEW Pn, NEW Nn, NEW m, NEW pos, NEW v, pos \subseteq m,
           NEW age \in Int, K <= age, NEW aged \in Int, aged <= 1,
           Recent(K - 1, Pw, Nw, m, pos, age), Shifted(K, Pw, Nw, Pn, Nn, m \ pos, v \ pos)
    PROVE  Recent(K, Pn, Nn, pos \union v, v, aged)
<1> SUFFICES ASSUME NEW i \in 1..K
             PROVE  /\ Nn[i] \subseteq pos \union v
                    /\ \A p \in Pn[i] \intersect (pos \union v) : \E j \in 1..i : p \in Nn[j]
                    /\ i <= aged => Nn[i] \subseteq v
                    /\ i < aged => Pn[i] = {}
  BY Zenon DEF Recent
<1>1. Pn[1] = m \ pos /\ Nn[1] = v \ pos /\ \A j \in 2..K : Pn[j] = Pw[j - 1] /\ Nn[j] = Nw[j - 1]
  BY DEF Shifted
<1>2. CASE i = 1
  <2>1. ~(i < aged) /\ 1 \in 1..i
    BY <1>2
  <2>2. Nn[i] = v \ pos /\ Pn[i] = m \ pos
    BY <1>1, <1>2
  <2>3. ASSUME NEW p \in Pn[i] \intersect (pos \union v) PROVE \E j \in 1..i : p \in Nn[j]
    BY <1>2, <2>1, <2>2
  <2> QED
    BY <2>1, <2>2, <2>3
<1>3. CASE i # 1
  <2>1. i \in 2..K /\ i - 1 \in 1..K - 1 /\ i - 1 < age /\ i - 1 <= age /\ ~(i <= aged) /\ ~(i < aged)
    BY <1>3
  <2>2. Pn[i] = Pw[i - 1] /\ Nn[i] = Nw[i - 1]
    BY <1>1, <2>1
  <2>3. Nw[i - 1] \subseteq pos /\ Pw[i - 1] = {}
    BY <2>1 DEF Recent
  <2> QED
    BY <2>1, <2>2, <2>3
<1> QED
  BY <1>2, <1>3

-----------------------------------------------------------------------------
(* The branches of compressPacket *)

Up == IF positiveCounter = 0 THEN PositiveLogic ELSE [mask |-> mask, positive |-> positive, changes |-> {}]
Left == IF positiveCounter = 0 THEN start.rate ELSE positiveCounter
Ups == Fresh(buffer["positive"], numbers["positive"], NewLevel, Up.changes)
Downs(v) == Fresh(buffer["negative"], numbers["negative"], NewLevel, v \ Up.mask)

\* A packet in which the positions of v varied went into the mask and the buffers.
Stepped(v) ==
    /\ mask' = Up.mask \union v /\ positive' = Up.positive \union v
    /\ Histories(Ups, Downs(v), NewLevel)
    /\ protectionLevel' = NewLevel /\ start' = start

AnchorDue == start.anchor > 0 /\ anchorCounter = 0
Anchor == IF AnchorDue THEN Deltas(Hxor(mask)) ELSE <<>>
Written2(v) == [positive |-> History(Ups, NewLevel), negative |-> History(Downs(v), NewLevel)]
BitsOf(packet, m) == [i \in DOMAIN Ascending(m) |-> Ascending(m)[i] \in packet]

\* The outcomes of compressPacket: the anchor does not fit; the positive changes do not; the rest
\* does not; it is compressed, and lost on the way or received.
LEMMA Branches ==
    ASSUME NEW packet, NEW received \in BOOLEAN, CompressPacket(packet, received)
    PROVE  \/ /\ Miss
              /\ UNCHANGED <<start, mask, positive, oldPacket, buffer, numbers, protectionLevel,
                             positiveCounter, sizeOld, crowded>>
           \/ /\ positiveCounter = 0 /\ Miss /\ Stepped({})
              /\ positiveCounter' = start.rate /\ UNCHANGED <<oldPacket, sizeOld>>
           \/ /\ Miss /\ Stepped(Xor(packet, oldPacket)) /\ oldPacket' = packet
              /\ positiveCounter' = Left /\ UNCHANGED sizeOld
           \/ /\ Miss /\ Stepped(Xor(packet, oldPacket)) /\ oldPacket' = packet
              /\ positiveCounter' = Left - 1
           \/ /\ Stepped(Xor(packet, oldPacket)) /\ oldPacket' = packet
              /\ positiveCounter' = Left - 1
              /\ Receive(Anchor, Written2(Xor(packet, oldPacket)),
                         BitsOf(packet, Up.mask \union Xor(packet, oldPacket)), NewLevel)
<1> DEFINE anchorDue == start.anchor > 0 /\ anchorCounter = 0
           anchor == IF anchorDue THEN Deltas(Hxor(mask)) ELSE <<>>
           updateDue == positiveCounter = 0
           level == NewLevel
           After(k, moves) == Insert(Shift(buffer[k]), ShiftNumbers(numbers[k], level), level, moves)
           kept == [mask |-> mask, positive |-> positive, changes |-> {}]
           up == IF updateDue THEN PositiveLogic ELSE kept
           down == NegativeLogic(packet, up.mask, up.positive)
           positives == After("positive", up.changes)
           negatives == After("negative", down.changes)
           moves == [positive |-> History(positives, level), negative |-> History(negatives, level)]
           places == Ascending(down.mask)
           withAnchor == FieldWidths(anchor)
           withPositives == withAnchor \o FieldWidths(moves.positive)
           all == withPositives \o FieldWidths(moves.negative) \o NpWidths(Len(places))
           anchorLeft == IF anchorDue THEN start.anchor ELSE anchorCounter
           positiveLeft == IF updateDue THEN start.rate ELSE positiveCounter
           values == [i \in DOMAIN places |-> places[i] \in packet]
<1>1. /\ UNCHANGED start
      /\ \/ /\ ~Fits(withAnchor) /\ Miss /\ anchorCounter' = anchorLeft
            /\ UNCHANGED <<mask, positive, oldPacket, buffer, numbers, protectionLevel,
                           positiveCounter, sizeOld, crowded>>
         \/ /\ updateDue /\ Fits(withAnchor) /\ ~Fits(withPositives) /\ Miss
            /\ mask' = up.mask /\ positive' = up.positive
            /\ Histories(positives, After("negative", {}), level) /\ protectionLevel' = level
            /\ positiveCounter' = positiveLeft /\ anchorCounter' = anchorLeft
            /\ UNCHANGED <<oldPacket, sizeOld>>
         \/ /\ Fits(withAnchor) /\ (updateDue => Fits(withPositives))
            /\ mask' = down.mask /\ positive' = down.positive /\ oldPacket' = packet
            /\ Histories(positives, negatives, level) /\ protectionLevel' = level
            /\ \/ /\ ~Fits(all) /\ Miss
                  /\ positiveCounter' = positiveLeft /\ anchorCounter' = anchorLeft
                  /\ UNCHANGED sizeOld
               \/ /\ Fits(all)
                  /\ positiveCounter' = positiveLeft - 1
                  /\ anchorCounter' = IF start.anchor > 0 THEN anchorLeft - 1 ELSE anchorLeft
                  /\ sizeOld' = ByteOf(Written(all))
                  /\ IF received THEN Receive(anchor, moves, values, level) ELSE Miss
  BY Zenon DEF CompressPacket
<1>2. up = Up /\ positiveLeft = Left /\ anchor = Anchor
  BY DEF Up, Left, Anchor, AnchorDue
<1>3. down.mask = Up.mask \union Xor(packet, oldPacket) /\ down.positive = Up.positive \union Xor(packet, oldPacket)
      /\ down.changes = Xor(packet, oldPacket) \ Up.mask
  <2> HIDE DEF up
  <2> QED
    BY <1>2 DEF NegativeLogic
<1>4. positives = Ups /\ negatives = Downs(Xor(packet, oldPacket))
  <2> HIDE DEF up, down
  <2> QED
    BY <1>2, <1>3, Zenon DEF Ups, Downs, Fresh
<1>5. After("negative", {}) = Downs({})
  <2>1. {} \ Up.mask = {}
    OBVIOUS
  <2> QED
    BY <2>1, Zenon DEF Downs, Fresh
<1> DEFINE emptied == After("negative", {})
<1> HIDE DEF up, down, positives, negatives, anchor, After, level
<1>6. moves = Written2(Xor(packet, oldPacket))
  BY <1>4, Zenon DEF Written2, level
<1>7. values = BitsOf(packet, Up.mask \union Xor(packet, oldPacket))
  BY <1>3, Zenon DEF BitsOf
<1> HIDE DEF withAnchor, withPositives, all, values, moves, emptied, positiveLeft, anchorLeft, anchorDue
<1>8. Up.mask \union {} = Up.mask /\ Up.positive \union {} = Up.positive
  OBVIOUS
<1> DEFINE v == Xor(packet, oldPacket)
           Done == /\ mask' = down.mask /\ positive' = down.positive /\ oldPacket' = packet
                   /\ Histories(positives, negatives, level) /\ protectionLevel' = level
<1>9. ASSUME Done PROVE Stepped(v)
  BY <1>1, <1>3, <1>4, <1>9, Zenon DEF Stepped, level
<1>10. CASE /\ Miss
            /\ UNCHANGED <<mask, positive, oldPacket, buffer, numbers, protectionLevel,
                           positiveCounter, sizeOld, crowded>>
  BY <1>1, <1>10
<1>11. CASE /\ updateDue /\ Miss
            /\ mask' = up.mask /\ positive' = up.positive
            /\ Histories(positives, After("negative", {}), level) /\ protectionLevel' = level
            /\ positiveCounter' = positiveLeft
            /\ UNCHANGED <<oldPacket, sizeOld>>
  <2>1. Histories(Ups, Downs({}), NewLevel)
    BY <1>4, <1>5, <1>11, Zenon DEF level
  <2>2. Stepped({})
    BY <1>1, <1>2, <1>8, <1>11, <2>1 DEF Stepped, level
  <2>3. positiveCounter' = start.rate
    BY <1>2, <1>11 DEF Left
  <2> QED
    BY <1>11, <2>2, <2>3
<1>12. CASE Done /\ Miss /\ positiveCounter' = positiveLeft /\ UNCHANGED sizeOld
  BY <1>2, <1>9, <1>12
<1>13. CASE Done /\ positiveCounter' = positiveLeft - 1
            /\ IF received THEN Receive(anchor, moves, values, level) ELSE Miss
  <2>1. Stepped(v) /\ oldPacket' = packet /\ positiveCounter' = Left - 1
    BY <1>2, <1>9, <1>13
  <2>2. CASE received
    <3>1. Receive(Anchor, Written2(v), BitsOf(packet, Up.mask \union v), NewLevel)
      BY <1>2, <1>6, <1>7, <1>13, <2>2, Zenon DEF level
    <3> QED
      BY <2>1, <3>1
  <2>3. CASE ~received
    BY <1>13, <2>1, <2>3
  <2> QED
    BY <2>2, <2>3
<1> HIDE DEF Done
<1>14. \/ /\ Miss
          /\ UNCHANGED <<mask, positive, oldPacket, buffer, numbers, protectionLevel,
                           positiveCounter, sizeOld, crowded>>
       \/ /\ updateDue /\ Miss
          /\ mask' = up.mask /\ positive' = up.positive
          /\ Histories(positives, After("negative", {}), level) /\ protectionLevel' = level
          /\ positiveCounter' = positiveLeft
          /\ UNCHANGED <<oldPacket, sizeOld>>
       \/ Done /\ Miss /\ positiveCounter' = positiveLeft /\ UNCHANGED sizeOld
       \/ Done /\ positiveCounter' = positiveLeft - 1
          /\ IF received THEN Receive(anchor, moves, values, level) ELSE Miss
  BY <1>1, Zenon DEF Done
<1> QED
  BY <1>10, <1>11, <1>12, <1>13, <1>14, Zenon

\* A history in order is in order for a lower level.
LEMMA GoodLess ==
    ASSUME NEW L \in Nat, NEW n \in Numbers(L), NEW b, NEW K \in 0..L, NEW J \in 0..K, Good(b, n, K)
    PROVE  Good(b, n, J)
<1>0. Bits \in Nat
  BY PacketAssumption
<1>1. J \in 0..L
  OBVIOUS
<1>2. Sums(n)[J] <= Sums(n)[K] /\ Sums(n)[J] \in Nat /\ Sums(n)[K] \in Nat
  BY <1>1, NumbersOf
<1>3. Sums(n)[K] <= Bits /\ \A i \in 1..K : Dense(b, n, i)
  BY DEF Good
<1>4. \A i \in 1..J : Dense(b, n, i)
  BY <1>3
<1>5. Sums(n)[J] <= Bits
  BY <1>0, <1>2, <1>3
<1> QED
  BY <1>4, <1>5 DEF Good

\* A level of no packets is always in order.
LEMMA GoodNone ==
    ASSUME NEW L \in Nat, NEW n \in Numbers(L), NEW b
    PROVE  Good(b, n, 0)
<1>0. Bits \in Nat
  BY PacketAssumption
<1>1. Sums(n)[0] = 0
  BY NumbersOf
<1>2. Sums(n)[0] <= Bits
  BY <1>0, <1>1
<1>3. \A i \in 1..0 : Dense(b, n, i)
  OBVIOUS
<1> QED
  BY <1>2, <1>3 DEF Good

\* What startPocket was given.
LEMMA StartOf ==
    ASSUME TypeOK
    PROVE  /\ start.level \in Levels /\ start.level \in 1..255 /\ start.level \in Nat
           /\ start.rate \in Nat /\ start.level <= start.rate
           /\ Bits \in Nat \ {0}
<1>1. start.level \in Levels /\ start.rate \in Rates /\ start.level <= start.rate
  BY DEF TypeOK
<1>2. Bits \in Nat \ {0} /\ start.level \in 1..255
  BY <1>1, RoomOf
<1>3. start.rate \in Nat
  BY <1>1, StartAssumption
<1> QED
  BY <1>1, <1>2, <1>3

\* The level is at least one, and grows by one at most.
LEMMA NewLevelOf ==
    ASSUME TypeOK, protectionLevel = 0 => sizeOld = 0
    PROVE  NewLevel \in 1..start.level /\ NewLevel <= protectionLevel + 1
<1>1. PacketSize \in Nat \ {0}
  BY SizeAssumption
<1>2. start.level \in 1..255 /\ protectionLevel \in 0..start.level
  BY StartOf DEF TypeOK
<1>3. protectionLevel = 0 => sizeOld < PacketSize
  BY <1>1
<1>4. CASE sizeOld < PacketSize
  <2>1. NewLevel = Min2(protectionLevel + 1, start.level)
    BY <1>4 DEF NewLevel
  <2> QED
    BY <1>2, <2>1 DEF Min2
<1>5. CASE ~(sizeOld < PacketSize)
  <2>1. protectionLevel # 0
    BY <1>3, <1>5
  <2>2. (NewLevel = protectionLevel - 1 /\ protectionLevel > 1) \/ NewLevel = protectionLevel \/ NewLevel = 1
    BY <1>5 DEF NewLevel
  <2> QED
    BY <1>2, <2>1, <2>2
<1> QED
  BY <1>4, <1>5

\* The masks after the positive update, if one is due.
LEMMA UpOf ==
    ASSUME TypeOK, positive \subseteq mask
    PROVE  /\ Up.mask \in SUBSET Positions /\ Up.positive \in SUBSET Positions
           /\ Up.changes \in SUBSET Positions /\ Up.positive \subseteq Up.mask
           /\ positiveCounter = 0 =>
                Up.mask = positive /\ Up.positive = {} /\ Up.changes = mask \ positive
           /\ positiveCounter # 0 =>
                Up.mask = mask /\ Up.positive = positive /\ Up.changes = {}
<1>1. mask \in SUBSET Positions /\ positive \in SUBSET Positions
  BY DEF TypeOK
<1>2. CASE positiveCounter = 0
  <2>1. Up.mask = positive /\ Up.positive = {} /\ Up.changes = Xor(positive, mask)
    BY <1>2 DEF Up, PositiveLogic
  <2>2. Xor(positive, mask) = mask \ positive
    BY DEF Xor
  <2> QED
    BY <1>1, <1>2, <2>1, <2>2
<1>3. CASE positiveCounter # 0
  <2>1. Up.mask = mask /\ Up.positive = positive /\ Up.changes = {}
    BY <1>3 DEF Up
  <2> QED
    BY <1>1, <1>3, <2>1
<1> QED
  BY <1>2, <1>3

\* The packets of the level but this one, before it.
LEMMA Before ==
    ASSUME TypeOK, EncoderOK, ~crowded \/ NewLevel = 1
    PROVE  /\ \A k \in Kinds : Good(buffer[k], numbers[k], NewLevel - 1)
           /\ Recent(NewLevel - 1, PWs(NewLevel - 1), NWs(NewLevel - 1), mask, positive, Age)
<1> DEFINE L == start.level
           J == NewLevel - 1
<1>0. L \in Nat /\ NewLevel \in 1..L /\ NewLevel <= protectionLevel + 1 /\ protectionLevel \in 0..L
  BY StartOf, NewLevelOf DEF TypeOK, EncoderOK
<1>1. \A k \in Kinds : numbers[k] \in Numbers(L)
  BY DEF TypeOK
<1> HIDE DEF L
<1>2. CASE NewLevel = 1
  <2>1. J = 0
    BY <1>2
  <2>2. \A k \in Kinds : Good(buffer[k], numbers[k], J)
    BY <1>0, <1>1, <2>1, GoodNone
  <2>3. Recent(J, PWs(J), NWs(J), mask, positive, Age)
    BY <2>1 DEF Recent
  <2> QED
    BY <2>2, <2>3
<1>3. CASE ~crowded
  <2>1. J \in 0..protectionLevel
    BY <1>0
  <2>2. \A k \in Kinds : Good(buffer[k], numbers[k], protectionLevel)
    BY <1>3 DEF EncoderOK
  <2>3. \A k \in Kinds : Good(buffer[k], numbers[k], J)
    BY <1>0, <1>1, <2>1, <2>2, GoodLess
  <2> DEFINE K == protectionLevel
  <2>4. Recent(K, PWs(K), NWs(K), mask, positive, Age)
    BY <1>3 DEF EncoderOK
  <2> HIDE DEF J
  <2>5. \A i \in 1..J : i \in 1..K /\ PWs(J)[i] = PWs(K)[i] /\ NWs(J)[i] = NWs(K)[i]
    BY <1>0, <2>1 DEF PWs, NWs
  <2>6. \A i \in 1..J : \A j \in 1..i : NWs(J)[j] = NWs(K)[j]
    <3>1. \A i \in 1..J : \A j \in 1..i : j \in 1..J
      BY <1>0, <2>1
    <3> QED
      BY <2>5, <3>1
  <2>7. Recent(J, PWs(J), NWs(J), mask, positive, Age)
    <3>1. SUFFICES ASSUME NEW i \in 1..J
                   PROVE  /\ NWs(J)[i] \subseteq mask
                          /\ \A p \in PWs(J)[i] \intersect mask : \E j \in 1..i : p \in NWs(J)[j]
                          /\ i <= Age => NWs(J)[i] \subseteq positive
                          /\ i < Age => PWs(J)[i] = {}
      BY Zenon DEF Recent
    <3>2. /\ NWs(K)[i] \subseteq mask
          /\ \A p \in PWs(K)[i] \intersect mask : \E j \in 1..i : p \in NWs(K)[j]
          /\ i <= Age => NWs(K)[i] \subseteq positive
          /\ i < Age => PWs(K)[i] = {}
      BY <2>4, <2>5, Zenon DEF Recent
    <3> QED
      BY <2>5, <2>6, <3>2
  <2> QED
    BY <2>3, <2>7 DEF J
<1> QED
  BY <1>2, <1>3

-----------------------------------------------------------------------------
(* A packet that went into the mask *)

\* A step of the encoder from a state where it is in order.
Stepping(v) ==
    /\ TypeOK /\ EncoderOK /\ v \in SUBSET Positions /\ Stepped(v)
    /\ positiveCounter' = Left \/ positiveCounter' = Left - 1

\* The level and the counter after such a step.
LEMMA StepLevel ==
    ASSUME NEW v, Stepping(v)
    PROVE  /\ NewLevel \in 1..start.level /\ NewLevel <= protectionLevel + 1
           /\ protectionLevel' = NewLevel /\ NewLevel \in Nat
           /\ start.level \in Levels /\ start.level \in Nat
           /\ start.rate \in Nat /\ start.level <= start.rate /\ start' = start
           /\ positiveCounter \in 0..start.rate
           /\ positiveCounter' \in 0..start.rate
           /\ Age \in Nat /\ Age' \in Nat
           /\ positiveCounter # 0 => Age' <= Age + 1
           /\ positiveCounter = 0 => Age = start.rate /\ Age' <= 1
<1>1. /\ start.level \in Levels /\ start.level \in 1..255 /\ start.level \in Nat
      /\ start.rate \in Nat /\ start.level <= start.rate
  BY StartOf DEF Stepping
<1>2. NewLevel \in 1..start.level /\ NewLevel <= protectionLevel + 1
  BY NewLevelOf DEF Stepping, EncoderOK
<1>3. positiveCounter \in 0..start.rate /\ start' = start /\ protectionLevel' = NewLevel
  BY DEF Stepping, TypeOK, Stepped
<1>4. start.rate \in Nat \ {0}
  BY <1>1
<1>5. Left = IF positiveCounter = 0 THEN start.rate ELSE positiveCounter
  BY DEF Left
<1>6. positiveCounter' = Left \/ positiveCounter' = Left - 1
  BY DEF Stepping
<1>7. Age = start.rate - positiveCounter /\ Age' = start.rate - positiveCounter'
  BY <1>3 DEF Age
<1> HIDE DEF Age, NewLevel, Left
<1>8. positiveCounter' \in 0..start.rate /\ Age \in Nat /\ Age' \in Nat
  BY <1>3, <1>4, <1>5, <1>6, <1>7
<1>9. positiveCounter # 0 => Age' <= Age + 1
  BY <1>3, <1>4, <1>5, <1>6, <1>7
<1>10. positiveCounter = 0 => Age = start.rate /\ Age' <= 1
  BY <1>3, <1>4, <1>5, <1>6, <1>7
<1> QED
  BY <1>1, <1>2, <1>3, <1>8, <1>9, <1>10

\* The masks after it.
LEMMA StepMasks ==
    ASSUME NEW v, Stepping(v)
    PROVE  /\ Up.mask \in SUBSET Positions /\ Up.changes \in SUBSET Positions
           /\ v \in SUBSET Positions /\ v \ Up.mask \in SUBSET Positions
           /\ mask \in SUBSET Positions /\ positive \in SUBSET Positions /\ positive \subseteq mask
           /\ mask' = Up.mask \union v /\ positive' = Up.positive \union v
           /\ mask' \in SUBSET Positions /\ positive' \in SUBSET Positions /\ positive' \subseteq mask'
           /\ positiveCounter = 0 =>
                Up.mask = positive /\ Up.positive = {} /\ Up.changes = mask \ positive
           /\ positiveCounter # 0 =>
                Up.mask = mask /\ Up.positive = positive /\ Up.changes = {}
<1>1. /\ Up.mask \in SUBSET Positions /\ Up.positive \in SUBSET Positions
      /\ Up.changes \in SUBSET Positions /\ Up.positive \subseteq Up.mask
      /\ positiveCounter = 0 =>
           Up.mask = positive /\ Up.positive = {} /\ Up.changes = mask \ positive
      /\ positiveCounter # 0 =>
           Up.mask = mask /\ Up.positive = positive /\ Up.changes = {}
  BY UpOf, Zenon DEF Stepping, EncoderOK
<1>2. v \in SUBSET Positions /\ mask' = Up.mask \union v /\ positive' = Up.positive \union v
  BY DEF Stepping, Stepped
<1>3. mask \in SUBSET Positions /\ positive \in SUBSET Positions /\ positive \subseteq mask
  BY DEF Stepping, TypeOK, EncoderOK
<1> HIDE DEF Up
<1>4. /\ mask' \in SUBSET Positions /\ positive' \in SUBSET Positions /\ positive' \subseteq mask'
      /\ v \ Up.mask \in SUBSET Positions
  BY <1>1, <1>2
<1> QED
  BY <1>1, <1>2, <1>3, <1>4, Zenon

\* The buffers after it.
LEMMA StepBuffers ==
    ASSUME NEW v, Stepping(v)
    PROVE  /\ buffer'["positive"] = Ups.buffer /\ buffer'["negative"] = Downs(v).buffer
           /\ numbers'["positive"] = Ups.numbers /\ numbers'["negative"] = Downs(v).numbers
           /\ Ups.buffer \in Buffers /\ Downs(v).buffer \in Buffers
           /\ Ups.numbers \in Numbers(start.level) /\ Downs(v).numbers \in Numbers(start.level)
           /\ crowded' \in BOOLEAN
           /\ ~crowded' => ~Ups.full /\ ~Downs(v).full /\ (~crowded \/ NewLevel = 1)
<1>1. /\ crowded' = (Ups.full \/ Downs(v).full \/ (crowded /\ NewLevel > 1))
      /\ buffer' = [positive |-> Ups.buffer, negative |-> Downs(v).buffer]
      /\ numbers' = [positive |-> Ups.numbers, negative |-> Downs(v).numbers]
  BY Zenon DEF Stepping, Stepped, Histories
<1>2. /\ NewLevel \in 1..start.level /\ start.level \in Levels /\ start.level \in Nat
      /\ Up.changes \in SUBSET Positions /\ v \ Up.mask \in SUBSET Positions
  BY StepLevel, StepMasks, Zenon
<1>3. \A k \in Kinds : buffer[k] \in Buffers /\ numbers[k] \in Numbers(start.level)
  BY DEF Stepping, TypeOK
<1>4. \A k \in Kinds, moves \in SUBSET Positions :
        /\ Fresh(buffer[k], numbers[k], NewLevel, moves).buffer \in Buffers
        /\ Fresh(buffer[k], numbers[k], NewLevel, moves).numbers \in Numbers(start.level)
        /\ Fresh(buffer[k], numbers[k], NewLevel, moves).full \in BOOLEAN
  BY <1>2, <1>3, FreshTypes, Zenon
<1>5. /\ Ups.buffer \in Buffers /\ Ups.numbers \in Numbers(start.level) /\ Ups.full \in BOOLEAN
      /\ Downs(v).buffer \in Buffers /\ Downs(v).numbers \in Numbers(start.level)
      /\ Downs(v).full \in BOOLEAN
  BY <1>2, <1>4, Zenon DEF Ups, Downs, Kinds
<1> HIDE DEF NewLevel, Ups, Downs
<1>6. /\ buffer'["positive"] = Ups.buffer /\ buffer'["negative"] = Downs(v).buffer
      /\ numbers'["positive"] = Ups.numbers /\ numbers'["negative"] = Downs(v).numbers
  BY <1>1
<1>7. crowded' \in BOOLEAN
  BY <1>1
<1>8. ~crowded' => ~Ups.full /\ ~Downs(v).full /\ (~crowded \/ NewLevel = 1)
  <2>1. CASE crowded
    <3>1. ~crowded' => ~(NewLevel > 1)
      BY <1>1, <2>1
    <3>2. ~(NewLevel > 1) => NewLevel = 1
      BY <1>2
    <3> QED
      BY <1>1, <3>1, <3>2
  <2> QED
    BY <1>1, <2>1
<1> QED
  BY <1>5, <1>6, <1>7, <1>8, Zenon

\* The changes are of positions that no packet of the level has changed the same way.
LEMMA StepAdds ==
    ASSUME NEW v, Stepping(v), ~crowded'
    PROVE  /\ Adding(start.level, NewLevel, numbers["positive"], buffer["positive"], Up.changes)
           /\ Adding(start.level, NewLevel, numbers["negative"], buffer["negative"], v \ Up.mask)
<1> DEFINE K == NewLevel
           L == start.level
<1>1. /\ K \in 1..L /\ L \in Levels /\ L \in Nat /\ start.rate \in Nat /\ L <= start.rate
      /\ positiveCounter = 0 => Age = start.rate
  BY StepLevel
<1>2. /\ Up.changes \in SUBSET Positions /\ v \ Up.mask \in SUBSET Positions
      /\ positiveCounter = 0 => Up.mask = positive
      /\ positiveCounter # 0 => Up.mask = mask /\ Up.changes = {}
  BY StepMasks, Zenon
<1>3. ~Ups.full /\ ~Downs(v).full /\ (~crowded \/ K = 1)
  BY StepBuffers
<1>4. /\ \A k \in Kinds : Good(buffer[k], numbers[k], K - 1)
      /\ Recent(K - 1, PWs(K - 1), NWs(K - 1), mask, positive, Age)
  BY <1>3, Before, Zenon DEF Stepping
<1>5. \A k \in Kinds : buffer[k] \in Buffers /\ numbers[k] \in Numbers(L)
  BY DEF Stepping, TypeOK
<1>6. \A i \in 1..K - 1 : /\ N(i) \subseteq mask
                          /\ i <= Age => N(i) \subseteq positive
                          /\ i < Age => P(i) = {}
  <2>1. SUFFICES ASSUME NEW i \in 1..K - 1
                 PROVE  N(i) \subseteq mask /\ (i <= Age => N(i) \subseteq positive) /\ (i < Age => P(i) = {})
    OBVIOUS
  <2>2. /\ NWs(K - 1)[i] \subseteq mask /\ (i <= Age => NWs(K - 1)[i] \subseteq positive)
        /\ (i < Age => PWs(K - 1)[i] = {})
    BY <1>4, Zenon DEF Recent
  <2>3. NWs(K - 1)[i] = N(i) /\ PWs(K - 1)[i] = P(i)
    BY DEF NWs, PWs
  <2> QED
    BY <2>2, <2>3
<1>7. positiveCounter = 0 => \A i \in 1..K - 1 : i <= Age /\ i < Age
  <2> HIDE DEF K, L
  <2> QED
    BY <1>1
<1>8. \A i \in 1..K - 1 : Up.changes \intersect P(i) = {} /\ (v \ Up.mask) \intersect N(i) = {}
  <2>1. CASE positiveCounter = 0
    <3>1. \A i \in 1..K - 1 : P(i) = {} /\ N(i) \subseteq positive
      BY <1>6, <1>7, <2>1, Zenon
    <3> QED
      BY <1>2, <2>1, <3>1
  <2>2. CASE positiveCounter # 0
    BY <1>2, <1>6, <2>2
  <2> QED
    BY <2>1, <2>2
<1>9. /\ Inserting(L, K, numbers["positive"], buffer["positive"], Up.changes)
      /\ Inserting(L, K, numbers["negative"], buffer["negative"], v \ Up.mask)
  BY <1>1, <1>2, <1>5, Zenon DEF Inserting, Kinds
<1>10. Good(buffer["positive"], numbers["positive"], K - 1) /\ Good(buffer["negative"], numbers["negative"], K - 1)
  BY <1>4, Zenon DEF Kinds
<1>11. /\ ~Fresh(buffer["positive"], numbers["positive"], K, Up.changes).full
       /\ ~Fresh(buffer["negative"], numbers["negative"], K, v \ Up.mask).full
  BY <1>3, Zenon DEF Ups, Downs
<1>12. /\ \A i \in 1..K - 1 : Up.changes \intersect Window(buffer["positive"], numbers["positive"], i) = {}
       /\ \A i \in 1..K - 1 : (v \ Up.mask) \intersect Window(buffer["negative"], numbers["negative"], i) = {}
  BY <1>8, Zenon DEF P, N
<1> QED
  BY <1>9, <1>10, <1>11, <1>12, Zenon DEF Adding

\* Insert returns a record.
LEMMA FreshRecord ==
    ASSUME NEW b, NEW n, NEW J, NEW moves
    PROVE  Fresh(b, n, J, moves) =
            [buffer |-> Fresh(b, n, J, moves).buffer, numbers |-> Fresh(b, n, J, moves).numbers,
             full |-> Fresh(b, n, J, moves).full]
<1> DEFINE r == Fresh(b, n, J, moves)
<1>1. PICK x, y, z : r = [buffer |-> x, numbers |-> y, full |-> z]
  BY Zenon DEF Fresh, Insert
<1> HIDE DEF r
<1> QED
  BY <1>1 DEF r

\* After the step, the windows have moved one place, and what is written is their union.
LEMMA StepWindows ==
    ASSUME NEW v, Stepping(v), ~crowded'
    PROVE  /\ \A k \in Kinds : Good(buffer'[k], numbers'[k], NewLevel)
           /\ P(1)' = Up.changes /\ N(1)' = v \ Up.mask
           /\ \A i \in 2..NewLevel : P(i)' = P(i - 1) /\ N(i)' = N(i - 1)
           /\ SetOf(Written2(v)["positive"]) = UNION {P(i)' : i \in 1..NewLevel}
           /\ SetOf(Written2(v)["negative"]) = UNION {N(i)' : i \in 1..NewLevel}
<1> DEFINE K == NewLevel
           L == start.level
           bp == Ups.buffer
           np == Ups.numbers
           bn == Downs(v).buffer
           nn == Downs(v).numbers
<1>1. /\ Adding(L, K, numbers["positive"], buffer["positive"], Up.changes)
      /\ Adding(L, K, numbers["negative"], buffer["negative"], v \ Up.mask)
  BY StepAdds
<1>2. /\ Good(bp, np, K) /\ Window(bp, np, 1) = Up.changes
      /\ \A i \in 2..K : Window(bp, np, i) = Window(buffer["positive"], numbers["positive"], i - 1)
  BY <1>1, FreshKeeps DEF Ups
<1>3. /\ Good(bn, nn, K) /\ Window(bn, nn, 1) = v \ Up.mask
      /\ \A i \in 2..K : Window(bn, nn, i) = Window(buffer["negative"], numbers["negative"], i - 1)
  BY <1>1, FreshKeeps DEF Downs
<1>4. /\ K \in 1..L /\ L \in Levels
      /\ bp \in Buffers /\ bn \in Buffers /\ np \in Numbers(L) /\ nn \in Numbers(L)
      /\ buffer'["positive"] = bp /\ buffer'["negative"] = bn
      /\ numbers'["positive"] = np /\ numbers'["negative"] = nn
      /\ ~Ups.full /\ ~Downs(v).full
  BY StepBuffers, StepLevel, Zenon
<1>5. /\ \A i : P(i)' = Window(bp, np, i) /\ N(i)' = Window(bn, nn, i)
      /\ \A i : P(i) = Window(buffer["positive"], numbers["positive"], i)
             /\ N(i) = Window(buffer["negative"], numbers["negative"], i)
  BY <1>4, Zenon DEF P, N
<1>6. \A k \in Kinds : Good(buffer'[k], numbers'[k], K)
  BY <1>2, <1>3, <1>4, Zenon DEF Kinds
<1>7. /\ Ups = [buffer |-> bp, numbers |-> np, full |-> FALSE]
      /\ Downs(v) = [buffer |-> bn, numbers |-> nn, full |-> FALSE]
  <2>1. \A b, n, J, moves : Fresh(b, n, J, moves) =
            [buffer |-> Fresh(b, n, J, moves).buffer, numbers |-> Fresh(b, n, J, moves).numbers,
             full |-> Fresh(b, n, J, moves).full]
    BY FreshRecord
  <2>2. bp = Fresh(buffer["positive"], numbers["positive"], K, Up.changes).buffer
    BY DEF Ups
  <2>3. /\ Ups = [buffer |-> bp, numbers |-> np, full |-> Ups.full]
        /\ Downs(v) = [buffer |-> bn, numbers |-> nn, full |-> Downs(v).full]
    BY <2>1, Zenon DEF Ups, Downs
  <2>4. Ups.full \in BOOLEAN /\ Downs(v).full \in BOOLEAN
    BY <1>1, FreshTypes, Zenon DEF Ups, Downs, Adding, Inserting
  <2>5. Ups.full = FALSE /\ Downs(v).full = FALSE
    BY <1>4, <2>4
  <2> QED
    BY <2>3, <2>5, Zenon
<1>8. /\ SetOf(History(Ups, K)) = UNION {Window(bp, np, i) : i \in 1..K}
      /\ SetOf(History(Downs(v), K)) = UNION {Window(bn, nn, i) : i \in 1..K}
  <2>1. SetOf(History(Ups, K)) = UNION {Window(bp, np, i) : i \in 1..K}
    BY <1>2, <1>4, <1>7, HistoryIs
  <2>2. SetOf(History(Downs(v), K)) = UNION {Window(bn, nn, i) : i \in 1..K}
    BY <1>3, <1>4, <1>7, HistoryIs
  <2> QED
    BY <2>1, <2>2, Zenon
<1>9. /\ Written2(v)["positive"] = History(Ups, K) /\ Written2(v)["negative"] = History(Downs(v), K)
  BY DEF Written2
<1>10. /\ {P(i)' : i \in 1..K} = {Window(bp, np, i) : i \in 1..K}
       /\ {N(i)' : i \in 1..K} = {Window(bn, nn, i) : i \in 1..K}
  BY <1>5
<1>11. /\ SetOf(Written2(v)["positive"]) = UNION {P(i)' : i \in 1..K}
       /\ SetOf(Written2(v)["negative"]) = UNION {N(i)' : i \in 1..K}
  BY <1>8, <1>9, <1>10, Zenon
<1>12. P(1)' = Up.changes /\ N(1)' = v \ Up.mask
  BY <1>2, <1>3, <1>5, Zenon
<1>13. \A i \in 2..K : P(i)' = P(i - 1) /\ N(i)' = N(i - 1)
  BY <1>2, <1>3, <1>5, Zenon
<1> QED
  BY <1>6, <1>11, <1>12, <1>13, Zenon

\* The encoder stays in order.
LEMMA StepEncoder ==
    ASSUME NEW v, Stepping(v)
    PROVE  EncoderOK'
<1> DEFINE K == NewLevel
           Pn == [i \in 1..K |-> P(i)']
           Nn == [i \in 1..K |-> N(i)']
<1>1. /\ K \in 1..start.level /\ K \in Nat /\ K \in Nat \ {0} /\ start.level \in Nat /\ start.rate \in Nat
      /\ start.level <= start.rate /\ protectionLevel' = K /\ Age \in Int /\ Age' \in Int
      /\ positiveCounter # 0 => Age' <= Age + 1
      /\ positiveCounter = 0 => Age = start.rate /\ Age' <= 1
  <2>1. /\ K \in 1..start.level /\ K \in Nat /\ start.level \in Nat /\ start.rate \in Nat
        /\ start.level <= start.rate /\ protectionLevel' = K /\ Age \in Nat /\ Age' \in Nat
        /\ positiveCounter # 0 => Age' <= Age + 1
        /\ positiveCounter = 0 => Age = start.rate /\ Age' <= 1
    BY StepLevel
  <2> HIDE DEF K
  <2> QED
    BY <2>1
<1>2. /\ positive \subseteq mask /\ positive' \subseteq mask'
      /\ mask' = Up.mask \union v /\ positive' = Up.positive \union v
      /\ positiveCounter = 0 =>
           Up.mask = positive /\ Up.positive = {} /\ Up.changes = mask \ positive
      /\ positiveCounter # 0 =>
           Up.mask = mask /\ Up.positive = positive /\ Up.changes = {}
  BY StepMasks, Zenon
<1>3. protectionLevel' # 0
  <2> HIDE DEF K
  <2> QED
    BY <1>1
<1>4. ASSUME ~crowded'
      PROVE  /\ \A k \in Kinds : Good(buffer'[k], numbers'[k], K)
             /\ Recent(K, Pn, Nn, mask', positive', Age')
  <2>1. /\ \A k \in Kinds : Good(buffer'[k], numbers'[k], K)
        /\ P(1)' = Up.changes /\ N(1)' = v \ Up.mask
        /\ \A i \in 2..K : P(i)' = P(i - 1) /\ N(i)' = N(i - 1)
    BY <1>4, StepWindows, Zenon
  <2>2. ~crowded \/ K = 1
    BY <1>4, StepBuffers, Zenon
  <2>3. Recent(K - 1, PWs(K - 1), NWs(K - 1), mask, positive, Age)
    BY <2>2, Before, Zenon DEF Stepping
  <2>4. Shifted(K, PWs(K - 1), NWs(K - 1), Pn, Nn, Up.changes, v \ Up.mask)
    <3>1. Pn[1] = Up.changes /\ Nn[1] = v \ Up.mask
      <4>1. 1 \in 1..K
        BY <1>1
      <4> QED
        BY <2>1, <4>1
    <3>2. ASSUME NEW i \in 2..K PROVE Pn[i] = PWs(K - 1)[i - 1] /\ Nn[i] = NWs(K - 1)[i - 1]
      <4>1. i \in 1..K /\ i - 1 \in 1..K - 1
        BY <1>1
      <4>2. Pn[i] = P(i)' /\ Nn[i] = N(i)'
        BY <4>1
      <4>3. PWs(K - 1)[i - 1] = P(i - 1) /\ NWs(K - 1)[i - 1] = N(i - 1)
        BY <4>1 DEF PWs, NWs
      <4> QED
        BY <2>1, <4>2, <4>3
    <3> HIDE DEF Pn, Nn, K
    <3> QED
      BY <3>1, <3>2 DEF Shifted
  <2> HIDE DEF Pn, Nn, K, Up, Age
  <2>5. CASE positiveCounter = 0
    <3>1. K <= Age /\ Age' <= 1
      BY <1>1, <2>5
    <3>2. Shifted(K, PWs(K - 1), NWs(K - 1), Pn, Nn, mask \ positive, v \ positive)
      BY <1>2, <2>4, <2>5, Zenon
    <3>3. Recent(K, Pn, Nn, positive \union v, v, Age')
      BY <1>1, <1>2, <2>3, <3>1, <3>2, RecentCut
    <3>4. mask' = positive \union v /\ positive' = v
      BY <1>2, <2>5
    <3> QED
      BY <2>1, <3>3, <3>4, Zenon
  <2>6. CASE positiveCounter # 0
    <3>1. Age' <= Age + 1
      BY <1>1, <2>6
    <3>2. Shifted(K, PWs(K - 1), NWs(K - 1), Pn, Nn, {}, v \ mask)
      BY <1>2, <2>4, <2>6, Zenon
    <3>3. Recent(K, Pn, Nn, mask \union v, positive \union v, Age')
      BY <1>1, <2>3, <3>1, <3>2, RecentKept
    <3>4. mask' = mask \union v /\ positive' = positive \union v
      BY <1>2, <2>6
    <3> QED
      BY <2>1, <3>3, <3>4, Zenon
  <2> QED
    BY <2>5, <2>6
<1>5. PWs(protectionLevel)' = Pn /\ NWs(protectionLevel)' = Nn
  BY <1>1, Zenon DEF PWs, NWs
<1> HIDE DEF K, Pn, Nn
<1>6. ~crowded' =>
        /\ \A k \in Kinds : Good(buffer'[k], numbers'[k], protectionLevel')
        /\ Recent(protectionLevel', PWs(protectionLevel)', NWs(protectionLevel)', mask', positive', Age')
  BY <1>1, <1>4, <1>5, Zenon
<1> QED
  BY <1>2, <1>3, <1>6, Zenon DEF EncoderOK, Age

\* The encoder's part of TypeOK.
LEMMA StepTypes ==
    ASSUME NEW v, Stepping(v), oldPacket' \in SUBSET Positions, missed' \in Nat, lost' \in BOOLEAN
    PROVE  TypeOK'
<1>1. /\ start' = start /\ protectionLevel' \in 0..start.level /\ positiveCounter' \in 0..start.rate
  <2>1. /\ start' = start /\ protectionLevel' = NewLevel /\ NewLevel \in 1..start.level
        /\ start.level \in Nat /\ positiveCounter' \in 0..start.rate
    BY StepLevel
  <2> HIDE DEF NewLevel
  <2> QED
    BY <2>1
<1>2. mask' \in SUBSET Positions /\ positive' \in SUBSET Positions
  BY StepMasks, Zenon
<1>3. /\ buffer'["positive"] \in Buffers /\ buffer'["negative"] \in Buffers
      /\ numbers'["positive"] \in Numbers(start.level) /\ numbers'["negative"] \in Numbers(start.level)
      /\ crowded' \in BOOLEAN
  BY StepBuffers, Zenon
<1>4. \A k \in Kinds : buffer'[k] \in Buffers /\ numbers'[k] \in Numbers(start'.level)
  BY <1>1, <1>3 DEF Kinds
<1>5. start \in [level : Levels, rate : Rates, anchor : Anchors] /\ start.level <= start.rate
  BY DEF Stepping, TypeOK
<1> QED
  BY <1>1, <1>2, <1>3, <1>4, <1>5 DEF TypeOK

-----------------------------------------------------------------------------
(* The receiver *)

\* Where the mask changes, the newest windows have it.
LEMMA MaskMoves ==
    ASSUME NEW v, Stepping(v), ~crowded'
    PROVE  \A p \in Xor(mask, mask') : p \in P(1)' \union N(1)'
<1>1. /\ mask' = Up.mask \union v /\ positive \subseteq mask
      /\ positiveCounter = 0 => Up.mask = positive /\ Up.changes = mask \ positive
      /\ positiveCounter # 0 => Up.mask = mask /\ Up.changes = {}
  BY StepMasks, Zenon
<1>2. P(1)' = Up.changes /\ N(1)' = v \ Up.mask
  BY StepWindows, Zenon
<1> HIDE DEF P, N, Up
<1> QED
  BY <1>1, <1>2 DEF Xor

\* A mask that differs from the encoder's in what the last m packets changed becomes the
\* encoder's, when m packets and this one are within the level.
LEMMA Followed ==
    ASSUME NEW v, Stepping(v), ~crowded', NEW known, NEW m \in Nat, m < NewLevel,
           \A p \in Xor(known, mask) : \E i \in 1..m : p \in P(i) \union N(i)
    PROVE  (known \ SetOf(Written2(v)["positive"])) \union SetOf(Written2(v)["negative"]) = mask'
<1> DEFINE K == NewLevel
           UP == UNION {P(i)' : i \in 1..K}
           UN == UNION {N(i)' : i \in 1..K}
<1>1. /\ \A i \in 2..K : P(i)' = P(i - 1) /\ N(i)' = N(i - 1)
      /\ SetOf(Written2(v)["positive"]) = UP /\ SetOf(Written2(v)["negative"]) = UN
  BY StepWindows, Zenon
<1>2. K \in Nat /\ K >= 1 /\ protectionLevel' = K
  <2>1. K \in Nat /\ K \in 1..start.level /\ protectionLevel' = K
    BY StepLevel
  <2> HIDE DEF K
  <2> QED
    BY <2>1
<1>3. \A p \in Xor(mask, mask') : p \in P(1)' \union N(1)'
  BY MaskMoves
<1>4. Recent(protectionLevel', PWs(protectionLevel)', NWs(protectionLevel)', mask', positive', Age')
  BY StepEncoder, Zenon DEF EncoderOK, Age
<1>5. \A i \in 1..K : N(i)' \subseteq mask' /\ \A p \in P(i)' \intersect mask' : \E j \in 1..i : p \in N(j)'
  <2>1. PWs(protectionLevel)' = [i \in 1..K |-> P(i)'] /\ NWs(protectionLevel)' = [i \in 1..K |-> N(i)']
    BY <1>2, Zenon DEF PWs, NWs
  <2>2. SUFFICES ASSUME NEW i \in 1..K
                 PROVE  N(i)' \subseteq mask' /\ \A p \in P(i)' \intersect mask' : \E j \in 1..i : p \in N(j)'
    OBVIOUS
  <2> DEFINE Pn == [k \in 1..K |-> P(k)']
             Nn == [k \in 1..K |-> N(k)']
  <2>3. Nn[i] \subseteq mask' /\ \A p \in Pn[i] \intersect mask' : \E j \in 1..i : p \in Nn[j]
    BY <1>2, <1>4, <2>1, Zenon DEF Recent
  <2>4. \A j \in 1..i : j \in 1..K
    BY <1>2
  <2>5. Pn[i] = P(i)' /\ \A j \in 1..i : Nn[j] = N(j)'
    BY <2>4
  <2>6. i \in 1..i
    OBVIOUS
  <2> HIDE DEF Pn, Nn
  <2> QED
    BY <2>3, <2>5, <2>6
<1> HIDE DEF K
<1>6. \A p : (\E i \in 1..m : p \in P(i) \union N(i)) => p \in UP \union UN
  <2>1. SUFFICES ASSUME NEW p, NEW i \in 1..m, p \in P(i) \union N(i)
                 PROVE  p \in UP \union UN
    OBVIOUS
  <2>2. i + 1 \in 2..K /\ i + 1 \in 1..K /\ (i + 1) - 1 = i
    BY <1>2 DEF K
  <2>3. P(i + 1)' = P(i) /\ N(i + 1)' = N(i)
    BY <1>1, <2>2
  <2>4. p \in P(i + 1)' \union N(i + 1)'
    BY <2>1, <2>3
  <2> QED
    BY <2>2, <2>4
<1>7. \A p \in P(1)' \union N(1)' : p \in UP \union UN
  <2>1. 1 \in 1..K
    BY <1>2
  <2> QED
    BY <2>1
<1>8. \A p \in UN : p \in mask'
  BY <1>5
<1>9. \A p \in UP \intersect mask' : p \in UN
  <2>1. SUFFICES ASSUME NEW i \in 1..K, NEW p \in P(i)' \intersect mask' PROVE p \in UN
    OBVIOUS
  <2>2. PICK j \in 1..i : p \in N(j)'
    BY <1>5
  <2>3. j \in 1..K
    BY <1>2
  <2> QED
    BY <2>2, <2>3
<1>10. \A p : p \notin UP \union UN => (p \in known <=> p \in mask) /\ (p \in mask <=> p \in mask')
  <2>1. \A p \in Xor(known, mask) : p \in UP \union UN
    BY <1>6
  <2>2. \A p \in Xor(mask, mask') : p \in UP \union UN
    BY <1>3, <1>7
  <2> HIDE DEF UP, UN
  <2> QED
    BY <2>1, <2>2 DEF Xor
<1> HIDE DEF UP, UN
<1>11. (known \ UP) \union UN = mask'
  BY <1>8, <1>9, <1>10
<1> QED
  BY <1>1, <1>11, Zenon

\* What the receiver has of a mask: the mask of an anchor.
LEMMA AnchorIs ==
    ASSUME TypeOK, Anchor # <<>>
    PROVE  Unhxor(SetOf(Anchor)) = mask
<1>1. Anchor = Deltas(Hxor(mask))
  BY Zenon DEF Anchor
<1>2. mask \in SUBSET Positions
  BY DEF TypeOK
<1>3. Hxor(mask) \in SUBSET Positions
  BY DEF Hxor
<1>4. SetOf(Deltas(Hxor(mask))) = Hxor(mask)
  BY <1>3, SetOfDeltas
<1>5. Unhxor(Hxor(mask)) = mask
  BY <1>2, UnhxorInverts
<1> QED
  BY <1>1, <1>4, <1>5

\* The bits at the places of the mask are those of the packet.
LEMMA PlacesOf ==
    ASSUME NEW S \in SUBSET Positions, NEW packet, NEW r, Xor(r, packet) \subseteq S
    PROVE  (r \ S) \union {Ascending(S)[i] : i \in {j \in DOMAIN BitsOf(packet, S) : BitsOf(packet, S)[j]}
                                                    \cap DOMAIN Ascending(S)} = packet
<1> DEFINE A == Ascending(S)
           n == Cardinality(S)
           B == BitsOf(packet, S)
           I == {j \in DOMAIN B : B[j]} \cap DOMAIN A
<1>1. Bits \in Nat /\ S \in SUBSET (1..Bits)
  BY PacketAssumption DEF Positions
<1>2. A \in [1..n -> S] /\ \A p \in S : \E i \in 1..n : A[i] = p
  BY <1>1, AscendingOf
<1>3. DOMAIN B = 1..n /\ DOMAIN A = 1..n /\ \A i \in 1..n : B[i] = (A[i] \in packet)
  BY <1>2 DEF BitsOf
<1> HIDE DEF A, B, n
<1>4. {A[i] : i \in I} = S \intersect packet
  <2>1. I = {j \in 1..n : A[j] \in packet}
    BY <1>3
  <2>2. \A j \in 1..n : A[j] \in S
    BY <1>2
  <2> QED
    BY <1>2, <2>1, <2>2
<1>5. (r \ S) \union (S \intersect packet) = packet
  BY DEF Xor
<1> QED
  BY <1>4, <1>5 DEF A, B

\* A receiver that still follows, where the packets of the level count one more.
LEMMA StillFollows ==
    ASSUME NEW v, Stepping(v), ReceiverOK, ~lost, ~crowded', missed < NewLevel
    PROVE  /\ ~crowded
           /\ \A p \in Xor(rmask, mask) : \E i \in 1..missed : p \in P(i) \union N(i)
           /\ v = Xor(oldPacket', oldPacket) => Xor(rpacket, oldPacket') \subseteq mask'
           /\ v = Xor(oldPacket', oldPacket) /\ missed + 1 <= Age' => Xor(rpacket, oldPacket') \subseteq positive'
<1>1. /\ NewLevel \in Nat /\ NewLevel <= protectionLevel + 1 /\ protectionLevel \in Nat /\ missed \in Nat
      /\ start.level \in Nat /\ start.rate \in Nat /\ start.level <= start.rate /\ NewLevel <= start.level
      /\ Age \in Nat /\ Age' \in Nat
      /\ positiveCounter # 0 => Age' <= Age + 1
      /\ positiveCounter = 0 => Age = start.rate /\ Age' <= 1
  <2>1. /\ NewLevel \in 1..start.level /\ NewLevel <= protectionLevel + 1 /\ NewLevel \in Nat
        /\ start.level \in Nat /\ start.rate \in Nat /\ start.level <= start.rate
        /\ Age \in Nat /\ Age' \in Nat
        /\ positiveCounter # 0 => Age' <= Age + 1
        /\ positiveCounter = 0 => Age = start.rate /\ Age' <= 1
    BY StepLevel
  <2>2. protectionLevel \in 0..start.level /\ missed \in Nat
    BY DEF Stepping, TypeOK
  <2> HIDE DEF NewLevel, Age
  <2> QED
    BY <2>1, <2>2
<1>2. ~crowded \/ NewLevel = 1
  BY StepBuffers, Zenon
<1> HIDE DEF NewLevel, Age
<1>3. ~crowded
  <2>1. SUFFICES ASSUME crowded PROVE FALSE
    OBVIOUS
  <2>2. missed = 0
    BY <1>1, <1>2, <2>1
  <2>3. missed >= 1
    BY <2>1 DEF ReceiverOK
  <2> QED
    BY <2>2, <2>3
<1>4. missed <= protectionLevel
  BY <1>1
<1>5. /\ \A p \in Xor(rmask, mask) : \E i \in 1..missed : p \in P(i) \union N(i)
      /\ Xor(rpacket, oldPacket) \subseteq mask
      /\ missed <= Age => Xor(rpacket, oldPacket) \subseteq positive
      /\ missed = 0 => rpacket = oldPacket
  BY <1>3, <1>4, Zenon DEF ReceiverOK
<1>6. /\ mask' = Up.mask \union v /\ positive' = Up.positive \union v
      /\ positiveCounter = 0 => Up.mask = positive
      /\ positiveCounter # 0 => Up.mask = mask /\ Up.positive = positive
  BY StepMasks, Zenon
<1> HIDE DEF Up, P, N
<1>7. v = Xor(oldPacket', oldPacket) => Xor(rpacket, oldPacket') \subseteq Xor(rpacket, oldPacket) \union v
  BY DEF Xor
<1>8. Xor(rpacket, oldPacket) \subseteq Up.mask
  <2>1. CASE positiveCounter = 0
    <3>1. missed <= Age
      BY <1>1, <2>1
    <3> QED
      BY <1>5, <1>6, <2>1, <3>1
  <2>2. CASE positiveCounter # 0
    BY <1>5, <1>6, <2>2
  <2> QED
    BY <2>1, <2>2
<1>9. v = Xor(oldPacket', oldPacket) => Xor(rpacket, oldPacket') \subseteq mask'
  BY <1>6, <1>7, <1>8
<1>10. ASSUME v = Xor(oldPacket', oldPacket), missed + 1 <= Age'
       PROVE  Xor(rpacket, oldPacket') \subseteq positive'
  <2>1. CASE positiveCounter = 0
    <3>1. missed = 0
      BY <1>1, <1>10, <2>1
    <3>2. rpacket = oldPacket
      BY <1>5, <3>1
    <3>3. Xor(rpacket, oldPacket) = {}
      BY <3>2 DEF Xor
    <3> QED
      BY <1>6, <1>7, <1>10, <3>3
  <2>2. CASE positiveCounter # 0
    <3>1. missed <= Age
      BY <1>1, <1>10, <2>2
    <3>2. Xor(rpacket, oldPacket) \subseteq positive
      BY <1>5, <3>1
    <3> QED
      BY <1>6, <1>7, <1>10, <2>2, <3>2
  <2> QED
    BY <2>1, <2>2
<1> QED
  BY <1>3, <1>5, <1>9, <1>10, Zenon

\* The packet does not reach the receiver, or was not compressed to its end.
LEMMA StepMissed ==
    ASSUME NEW v, Stepping(v), ReceiverOK, Miss, v = Xor(oldPacket', oldPacket)
    PROVE  ReceiverOK'
<1>1. missed' = missed + 1 /\ ~anchored' /\ rmask' = rmask /\ rpacket' = rpacket /\ lost' = lost /\ missed \in Nat
  BY DEF Miss, Stepping, TypeOK
<1>2. missed' >= 1 /\ missed' # 0
  BY <1>1
<1>3. ASSUME ~lost', ~crowded', missed' <= protectionLevel'
      PROVE  /\ \A p \in Xor(rmask', mask') : \E i \in 1..missed' : p \in P(i)' \union N(i)'
             /\ Xor(rpacket', oldPacket') \subseteq mask'
             /\ missed' <= Age' => Xor(rpacket', oldPacket') \subseteq positive'
  <2>1. NewLevel \in Nat /\ protectionLevel' = NewLevel
    BY StepLevel
  <2>2. missed < NewLevel /\ ~lost
    <3> HIDE DEF NewLevel
    <3> QED
      BY <1>1, <1>3, <2>1
  <2>3. /\ \A p \in Xor(rmask, mask) : \E i \in 1..missed : p \in P(i) \union N(i)
        /\ Xor(rpacket, oldPacket') \subseteq mask'
        /\ missed + 1 <= Age' => Xor(rpacket, oldPacket') \subseteq positive'
    BY <1>3, <2>2, StillFollows, Zenon
  <2>4. \A i \in 2..NewLevel : P(i)' = P(i - 1) /\ N(i)' = N(i - 1)
    BY <1>3, StepWindows, Zenon
  <2>5. \A p \in Xor(mask, mask') : p \in P(1)' \union N(1)'
    BY <1>3, MaskMoves, Zenon
  <2> HIDE DEF NewLevel
  <2>6. ASSUME NEW p \in Xor(rmask, mask') PROVE \E i \in 1..missed' : p \in P(i)' \union N(i)'
    <3>1. CASE p \in Xor(rmask, mask)
      <4>1. PICK i \in 1..missed : p \in P(i) \union N(i)
        BY <2>3, <3>1
      <4>2. i + 1 \in 2..NewLevel /\ i + 1 \in 1..missed' /\ (i + 1) - 1 = i
        BY <1>1, <2>1, <2>2
      <4>3. P(i + 1)' = P(i) /\ N(i + 1)' = N(i)
        BY <2>4, <4>2
      <4>4. p \in P(i + 1)' \union N(i + 1)'
        BY <4>1, <4>3
      <4> QED
        BY <4>2, <4>4
    <3>2. CASE p \in Xor(mask, mask')
      <4>1. 1 \in 1..missed'
        BY <1>1
      <4> QED
        BY <2>5, <3>2, <4>1
    <3>3. p \in Xor(rmask, mask) \/ p \in Xor(mask, mask')
      BY DEF Xor
    <3> QED
      BY <3>1, <3>2, <3>3
  <2>7. missed' <= Age' => missed + 1 <= Age'
    BY <1>1
  <2> QED
    BY <1>1, <2>3, <2>6, <2>7, Zenon
<1> QED
  BY <1>1, <1>2, <1>3, Zenon DEF ReceiverOK, Age

\* The packet reaches the receiver.
LEMMA StepReceived ==
    ASSUME NEW packet, NEW v, Stepping(v), ReceiverOK, v = Xor(packet, oldPacket), oldPacket' = packet,
           Receive(Anchor, Written2(v), BitsOf(packet, Up.mask \union v), NewLevel)
    PROVE  ReceiverOK'
<1> DEFINE w == Written2(v)
           b == BitsOf(packet, Up.mask \union v)
           known == IF Anchor = <<>> THEN rmask ELSE Unhxor(SetOf(Anchor))
           m == (known \ SetOf(w["positive"])) \union SetOf(w["negative"])
           places == Ascending(m)
           made == (rpacket \ m) \union {places[i] : i \in {j \in DOMAIN b : b[j]} \cap DOMAIN places}
<1>1. Decode(Anchor, w, b) = [mask |-> m, packet |-> made]
  BY Zenon DEF Decode
<1>2. /\ rmask' = Decode(Anchor, w, b).mask /\ rpacket' = Decode(Anchor, w, b).packet
      /\ missed' = 0 /\ lost' = (lost \/ missed >= NewLevel \/ crowded')
      /\ anchored' = (Anchor # <<>> /\ ~crowded')
  BY Zenon DEF Receive
<1> HIDE DEF m, made, b, w
<1>3. rmask' = m /\ rpacket' = made
  BY <1>1, <1>2
<1>4. mask' = Up.mask \union v /\ mask' \in SUBSET Positions
  BY StepMasks, Zenon
<1>5. NewLevel \in Nat /\ NewLevel > 0 /\ missed \in Nat
  <2>1. NewLevel \in 1..start.level /\ NewLevel \in Nat
    BY StepLevel
  <2>2. missed \in Nat
    BY DEF Stepping, TypeOK
  <2> HIDE DEF NewLevel
  <2> QED
    BY <2>1, <2>2
<1>6. ASSUME Anchor # <<>>, ~crowded' PROVE m = mask'
  <2>1. known = mask
    BY <1>6, AnchorIs, Zenon DEF Stepping
  <2> HIDE DEF known, NewLevel
  <2>2. \A p \in Xor(known, mask) : \E i \in 1..0 : p \in P(i) \union N(i)
    BY <2>1 DEF Xor
  <2>3. 0 < NewLevel /\ 0 \in Nat
    BY <1>5
  <2> QED
    BY <1>6, <2>2, <2>3, Followed DEF m, w
<1>7. ASSUME ~lost' PROVE m = mask' /\ made = packet /\ ~crowded'
  <2> HIDE DEF NewLevel
  <2>1. ~lost /\ missed < NewLevel /\ ~crowded'
    <3>1. ~lost /\ ~(missed >= NewLevel) /\ ~crowded'
      BY <1>2, <1>7, Zenon
    <3> QED
      BY <1>5, <3>1
  <2>2. Xor(oldPacket', oldPacket) = v
    OBVIOUS
  <2>3. /\ \A p \in Xor(rmask, mask) : \E i \in 1..missed : p \in P(i) \union N(i)
        /\ Xor(rpacket, packet) \subseteq mask'
    BY <2>1, <2>2, StillFollows
  <2>4. m = mask'
    <3>1. CASE Anchor # <<>>
      BY <1>6, <2>1, <3>1
    <3>2. CASE Anchor = <<>>
      <4>1. known = rmask
        BY <3>2
      <4> HIDE DEF known
      <4> QED
        BY <1>5, <2>1, <2>3, <4>1, Followed DEF m, w
    <3> QED
      BY <3>1, <3>2
  <2>5. b = BitsOf(packet, mask') /\ made = (rpacket \ mask') \union
            {Ascending(mask')[i] : i \in {j \in DOMAIN b : b[j]} \cap DOMAIN Ascending(mask')}
    BY <1>4, <2>4, Zenon DEF made, b
  <2>6. made = packet
    BY <1>4, <2>3, <2>5, PlacesOf
  <2> QED
    BY <2>1, <2>4, <2>6
<1>8. crowded' /\ ~lost' => missed' >= 1
  BY <1>7
<1>9. missed' = 0 /\ ~lost' => rmask' = mask' /\ rpacket' = oldPacket'
  BY <1>3, <1>7
<1>10. anchored' => rmask' = mask'
  BY <1>2, <1>3, <1>6
<1>11. ASSUME ~lost'
       PROVE  /\ \A p \in Xor(rmask', mask') : \E i \in 1..missed' : p \in P(i)' \union N(i)'
              /\ Xor(rpacket', oldPacket') \subseteq mask'
              /\ Xor(rpacket', oldPacket') \subseteq positive'
  <2>1. rmask' = mask' /\ rpacket' = oldPacket'
    BY <1>2, <1>9, <1>11
  <2>2. Xor(rmask', mask') = {} /\ Xor(rpacket', oldPacket') = {}
    BY <2>1 DEF Xor
  <2> QED
    BY <2>2
<1> QED
  BY <1>8, <1>9, <1>10, <1>11, Zenon DEF ReceiverOK

\* The anchor does not fit: nothing is done.
LEMMA NothingDone ==
    ASSUME IInv, Miss,
           UNCHANGED <<start, mask, positive, oldPacket, buffer, numbers, protectionLevel,
                       positiveCounter, sizeOld, crowded>>
    PROVE  IInv'
<1>1. /\ missed' = missed + 1 /\ ~anchored' /\ rmask' = rmask /\ rpacket' = rpacket /\ lost' = lost
      /\ missed \in Nat /\ protectionLevel \in Int /\ Age \in Int
  <2>1. missed' = missed + 1 /\ ~anchored' /\ rmask' = rmask /\ rpacket' = rpacket /\ lost' = lost
    BY DEF Miss
  <2>2. missed \in Nat /\ protectionLevel \in 0..start.level /\ positiveCounter \in 0..start.rate
    BY DEF IInv, TypeOK
  <2>3. start.level \in Nat /\ start.rate \in Nat
    BY StartOf DEF IInv
  <2> QED
    BY <2>1, <2>2, <2>3 DEF Age
<1>2. TypeOK'
  BY <1>1 DEF IInv, TypeOK
<1>3. EncoderOK'
  <2>1. EncoderOK
    BY DEF IInv
  <2> QED
    BY <2>1, Zenon DEF EncoderOK, PWs, NWs, P, N, Age
<1>4. Age' = Age /\ \A i : P(i)' = P(i) /\ N(i)' = N(i)
  BY DEF Age, P, N
<1>5. missed' >= 1 /\ missed' # 0 /\ (missed' <= protectionLevel => missed <= protectionLevel)
      /\ (missed' <= Age => missed <= Age) /\ \A i \in 1..missed : i \in 1..missed'
  <2> HIDE DEF Age
  <2> QED
    BY <1>1
<1> HIDE DEF Age, P, N
<1>6. ReceiverOK
  BY DEF IInv
<1>7. ASSUME ~lost, ~crowded, missed' <= protectionLevel
      PROVE  /\ \A p \in Xor(rmask, mask) : \E i \in 1..missed' : p \in P(i) \union N(i)
             /\ Xor(rpacket, oldPacket) \subseteq mask
             /\ missed' <= Age => Xor(rpacket, oldPacket) \subseteq positive
  BY <1>5, <1>6, <1>7, Zenon DEF ReceiverOK
<1>8. ReceiverOK'
  <2>1. /\ \A i : P(i)' = P(i) /\ N(i)' = N(i)
        /\ Age' = Age /\ mask' = mask /\ rmask' = rmask /\ rpacket' = rpacket /\ oldPacket' = oldPacket
        /\ positive' = positive /\ protectionLevel' = protectionLevel /\ crowded' = crowded
    BY <1>1, <1>4
  <2>2. ~lost' /\ ~crowded' /\ missed' <= protectionLevel' =>
             /\ \A p \in Xor(rmask', mask') : \E i \in 1..missed' : p \in P(i)' \union N(i)'
             /\ Xor(rpacket', oldPacket') \subseteq mask'
             /\ missed' <= Age' => Xor(rpacket', oldPacket') \subseteq positive'
    BY <1>1, <1>7, <2>1
  <2> QED
    BY <1>1, <1>5, <2>1, <2>2, Zenon DEF ReceiverOK
<1> QED
  BY <1>2, <1>3, <1>8 DEF IInv

\* startPocket establishes the invariant.
LEMMA InitHolds == Init => IInv
<1> SUFFICES ASSUME Init PROVE IInv
  OBVIOUS
<1>1. start.level \in Levels /\ start.rate \in Rates /\ start \in [level : Levels, rate : Rates, anchor : Anchors]
      /\ start.level <= start.rate
  BY DEF Init
<1>2. Bits \in Nat \ {0} /\ Room \in Nat /\ start.level \in 1..255
  BY <1>1, RoomOf
<1>3. start.rate \in Nat
  BY <1>1, StartAssumption
<1>4. /\ mask = {} /\ positive = {} /\ oldPacket = {} /\ rmask = {} /\ rpacket = {}
      /\ buffer = [k \in Kinds |-> [i \in 1..Room |-> 0]]
      /\ numbers = [k \in Kinds |-> [i \in 1..start.level |-> 1]]
      /\ protectionLevel = 0 /\ sizeOld = 0 /\ positiveCounter = start.rate
      /\ missed = 0 /\ lost = FALSE /\ anchored = FALSE /\ crowded = FALSE
  BY DEF Init
<1>5. \A k \in Kinds : buffer[k] \in Buffers /\ numbers[k] \in Numbers(start.level)
  BY <1>2, <1>4 DEF Buffers, Numbers
<1>6. TypeOK
  <2>1. 0 \in 0..start.level /\ start.rate \in 0..start.rate /\ 0 \in Nat
    BY <1>2, <1>3
  <2>2. {} \in SUBSET Positions
    OBVIOUS
  <2> QED
    BY <1>1, <1>4, <1>5, <2>1, <2>2, Zenon DEF TypeOK
<1>7. EncoderOK
  <2>1. \A k \in Kinds : Good(buffer[k], numbers[k], 0)
    <3>1. start.level \in Nat
      BY <1>2
    <3> QED
      BY <1>5, <3>1, GoodNone
  <2>2. Recent(0, PWs(0), NWs(0), mask, positive, Age)
    BY DEF Recent
  <2> QED
    BY <1>4, <2>1, <2>2 DEF EncoderOK
<1>8. ReceiverOK
  <2>1. Xor({}, {}) = {}
    BY DEF Xor
  <2> QED
    BY <1>4, <2>1 DEF ReceiverOK
<1> QED
  BY <1>6, <1>7, <1>8 DEF IInv

\* compressPacket keeps it.
LEMMA NextHolds == IInv /\ [Next]_vars => IInv'
<1> SUFFICES ASSUME IInv, [Next]_vars PROVE IInv'
  OBVIOUS
<1>0. TypeOK /\ EncoderOK /\ ReceiverOK
  BY DEF IInv
<1>1. CASE UNCHANGED vars
  <2>1. TypeOK'
    BY <1>0, <1>1 DEF TypeOK, vars, encoder, receiver
  <2>2. EncoderOK'
    BY <1>0, <1>1, Zenon DEF EncoderOK, PWs, NWs, P, N, Age, vars, encoder
  <2>3. ReceiverOK'
    BY <1>0, <1>1, Zenon DEF ReceiverOK, P, N, Age, vars, encoder, receiver
  <2> QED
    BY <2>1, <2>2, <2>3 DEF IInv
<1>2. ASSUME NEW packet \in Packets, NEW received \in BOOLEAN, CompressPacket(packet, received)
      PROVE  IInv'
  <2> DEFINE v == Xor(packet, oldPacket)
  <2>1. packet \in SUBSET Positions /\ oldPacket \in SUBSET Positions
    BY <1>0, PacketAssumption DEF TypeOK, Positions
  <2>2. v \in SUBSET Positions /\ {} \in SUBSET Positions
    BY <2>1 DEF Xor
  <2>3. Miss => missed' \in Nat /\ lost' \in BOOLEAN
    BY <1>0 DEF Miss, TypeOK
  <2>4. ASSUME NEW w, Stepping(w), oldPacket' \in SUBSET Positions, Miss, w = Xor(oldPacket', oldPacket)
        PROVE  IInv'
    BY <1>0, <2>3, <2>4, StepTypes, StepEncoder, StepMissed, Zenon DEF IInv
  <2>5. CASE /\ Miss
             /\ UNCHANGED <<start, mask, positive, oldPacket, buffer, numbers, protectionLevel,
                            positiveCounter, sizeOld, crowded>>
    BY <2>5, NothingDone, Zenon
  <2>6. CASE /\ positiveCounter = 0 /\ Miss /\ Stepped({})
             /\ positiveCounter' = start.rate /\ UNCHANGED <<oldPacket, sizeOld>>
    <3>1. positiveCounter' = Left
      BY <2>6, Zenon DEF Left
    <3>2. Stepping({})
      BY <1>0, <2>2, <2>6, <3>1, Zenon DEF Stepping
    <3>3. Xor(oldPacket', oldPacket) = {}
      BY <2>6 DEF Xor
    <3> QED
      BY <2>1, <2>4, <2>6, <3>2, <3>3
  <2>7. CASE /\ Miss /\ Stepped(v) /\ oldPacket' = packet
             /\ positiveCounter' = Left /\ UNCHANGED sizeOld
    <3>1. Stepping(v)
      BY <1>0, <2>2, <2>7, Zenon DEF Stepping
    <3> QED
      BY <2>1, <2>4, <2>7, <3>1, Zenon
  <2>8. CASE Miss /\ Stepped(v) /\ oldPacket' = packet /\ positiveCounter' = Left - 1
    <3>1. Stepping(v)
      BY <1>0, <2>2, <2>8, Zenon DEF Stepping
    <3> QED
      BY <2>1, <2>4, <2>8, <3>1, Zenon
  <2>9. CASE /\ Stepped(v) /\ oldPacket' = packet /\ positiveCounter' = Left - 1
             /\ Receive(Anchor, Written2(v), BitsOf(packet, Up.mask \union v), NewLevel)
    <3>1. Stepping(v)
      BY <1>0, <2>2, <2>9, Zenon DEF Stepping
    <3>2. missed' \in Nat /\ lost' \in BOOLEAN
      BY <2>9 DEF Receive
    <3>3. ReceiverOK'
      BY <1>0, <2>9, <3>1, StepReceived, Zenon
    <3> QED
      BY <2>1, <2>9, <3>1, <3>2, <3>3, StepTypes, StepEncoder, Zenon DEF IInv
  <2> QED
    BY <1>2, <2>5, <2>6, <2>7, <2>8, <2>9, Branches, Zenon
<1> QED
  BY <1>1, <1>2, Zenon DEF Next

\* A receiver that never missed as many packets in a row as the protection level has, after each
\* packet that it receives, that packet and the mask of the encoder; after an anchor it has the mask
\* whatever it missed (compressPacket, getMaskChanges and writeAnchorDeltas of compression.c).  For
\* every packet length, level, update rate, anchor frequency and sequence of packets.
THEOREM InStepHolds == Spec => []InStep
<1>1. IInv => InStep
  BY Zenon DEF IInv, ReceiverOK, InStep
<1> QED
  BY <1>1, InitHolds, NextHolds, PTL DEF Spec

\* A level of one packet has room for the changes of that packet.
LEMMA AloneFits ==
    ASSUME NEW L, NEW n, NEW b, NEW moves, Inserting(L, 1, n, b, moves)
    PROVE  ~Fresh(b, n, 1, moves).full
<1>1. L \in Levels /\ 1 \in 1..L /\ n \in Numbers(L) /\ moves \in SUBSET Positions
  BY DEF Inserting
<1>2. L \in Nat /\ Bits \in Nat
  <2>1. L \in 1..255 /\ Bits \in Nat \ {0}
    BY <1>1, RoomOf
  <2> QED
    BY <2>1
<1>3. CountOf(moves) \in 1..Bits /\ Sums(Renumbered(n, 1, moves))[1] = CountOf(moves) + Sums(n)[0]
  <2>1. /\ CountOf(moves) \in 1..Bits
        /\ \A i \in 1..1 : Sums(Renumbered(n, 1, moves))[i] = CountOf(moves) + Sums(n)[i - 1]
    BY <1>1, <1>2, RenumberedOf
  <2>2. 1 \in 1..1 /\ 1 - 1 = 0
    OBVIOUS
  <2> QED
    BY <2>1, <2>2
<1>4. Sums(n)[0] = 0
  BY <1>1, <1>2, NumbersOf
<1>5. ~(Sums(Renumbered(n, 1, moves))[1] > Bits)
  BY <1>2, <1>3, <1>4
<1>6. OverOf(n, 1, moves) = {}
  <2>1. \A i \in 1..1 : i = 1
    OBVIOUS
  <2> QED
    BY <1>5, <2>1 DEF OverOf
<1>7. Fresh(b, n, 1, moves).full = (OverOf(n, 1, moves) # {})
  BY FreshIs
<1> QED
  BY <1>6, <1>7

\* With the level of one packet that the flight build has memory for (P_P_PROTECTION_LEVEL of
\* compression.h, safeStartPocket), getMaskChanges never drops a packet of the history: InStep then
\* has no exemption but the packets missed.
THEOREM NeverCrowded ==
    ASSUME Levels = {1}
    PROVE  Spec => []~crowded
<1>1. Init => ~crowded
  BY DEF Init
<1>2. ASSUME IInv, ~crowded, [Next]_vars PROVE ~crowded'
  <2>0. TypeOK /\ EncoderOK
    BY <1>2 DEF IInv
  <2>1. start.level = 1 /\ NewLevel = 1
    <3>1. start.level \in Levels /\ NewLevel \in 1..start.level
      BY <2>0, StartOf, NewLevelOf DEF EncoderOK
    <3>2. start.level = 1
      BY <3>1
    <3> HIDE DEF NewLevel
    <3> QED
      BY <3>1, <3>2
  <2>2. ASSUME NEW w \in SUBSET Positions, Stepped(w) PROVE ~crowded'
    <3>1. crowded' = (Ups.full \/ Downs(w).full \/ (crowded /\ NewLevel > 1))
      BY <2>2, Zenon DEF Stepped, Histories
    <3>2. Up.mask \in SUBSET Positions /\ Up.changes \in SUBSET Positions
      BY <2>0, UpOf, Zenon DEF EncoderOK
    <3>3. w \ Up.mask \in SUBSET Positions
      BY <2>2
    <3>4. \A k \in Kinds : buffer[k] \in Buffers /\ numbers[k] \in Numbers(start.level)
      BY <2>0 DEF TypeOK
    <3>5. start.level \in Levels /\ 1 \in 1..start.level
      BY <2>0, <2>1, StartOf
    <3>6. /\ Inserting(start.level, 1, numbers["positive"], buffer["positive"], Up.changes)
          /\ Inserting(start.level, 1, numbers["negative"], buffer["negative"], w \ Up.mask)
      BY <3>2, <3>3, <3>4, <3>5, Zenon DEF Inserting, Kinds
    <3>7. ~Ups.full /\ ~Downs(w).full
      <4>1. ~Fresh(buffer["positive"], numbers["positive"], 1, Up.changes).full
        BY <3>6, AloneFits, Zenon
      <4>2. ~Fresh(buffer["negative"], numbers["negative"], 1, w \ Up.mask).full
        BY <3>6, AloneFits, Zenon
      <4> QED
        BY <2>1, <4>1, <4>2, Zenon DEF Ups, Downs
    <3> QED
      BY <1>2, <3>1, <3>7, Zenon
  <2>3. CASE UNCHANGED vars
    BY <1>2, <2>3 DEF vars
  <2>4. ASSUME NEW packet \in Packets, NEW received \in BOOLEAN, CompressPacket(packet, received)
        PROVE  ~crowded'
    <3>1. Xor(packet, oldPacket) \in SUBSET Positions /\ {} \in SUBSET Positions
      BY <2>0, PacketAssumption DEF TypeOK, Positions, Xor
    <3>2. UNCHANGED crowded \/ Stepped({}) \/ Stepped(Xor(packet, oldPacket))
      <4>1. \/ /\ Miss
               /\ UNCHANGED <<start, mask, positive, oldPacket, buffer, numbers, protectionLevel,
                              positiveCounter, sizeOld, crowded>>
            \/ Stepped({}) \/ Stepped(Xor(packet, oldPacket))
        BY <2>4, Branches, Zenon
      <4> QED
        BY <4>1
    <3> QED
      BY <1>2, <2>2, <3>1, <3>2, Zenon
  <2> QED
    BY <1>2, <2>3, <2>4, Zenon DEF Next
<1>3. ~crowded /\ IInv /\ [Next]_vars => ~crowded'
  BY <1>2, Zenon
<1> QED
  BY <1>1, <1>3, InitHolds, NextHolds, PTL DEF Spec

-----------------------------------------------------------------------------
(* Interleaving *)

\* A quotient times six and a remainder are recovered.
LEMMA SixSplits ==
    ASSUME NEW q \in Nat, NEW r \in 0 .. 5
    PROVE  (q * 6 + r) \div 6 = q /\ (q * 6 + r) % 6 = r
  BY SMT

\* A place in a packet of six groups of d lies in one of the six.
LEMMA GroupOf ==
    ASSUME NEW d \in Nat \ {0}, NEW k \in 0 .. 6 * d - 1
    PROVE  k \div d \in 0 .. 5
<1>1. k \in Nat /\ k < 6 * d
  OBVIOUS
<1>2. k = (k \div d) * d + (k % d) /\ k \div d \in Nat /\ k % d \in Nat
  BY <1>1, QuotientRemainder
<1>3. SUFFICES ASSUME k \div d >= 6 PROVE FALSE
  BY <1>2
<1>4. (k \div d) * d >= 6 * d
  BY <1>2, <1>3, Z3
<1> QED
  BY <1>1, <1>2, <1>4

\* interleave then deinterleave gives the packet back, whatever its length and its bytes: what
\* the station and the satellite do to every frame loses nothing.
THEOREM DeinterleaveInverts ==
    ASSUME NEW size \in Nat, NEW V, NEW a \in [0 .. size - 1 -> V]
    PROVE  deinterleave(interleave(a, size), size) = a
<1>1. CASE size % Columns # 0
  BY <1>1 DEF interleave, deinterleave
<1>2. CASE size % Columns = 0
  <2> DEFINE d == size \div 6
             mixed == interleave(a, size)
  <2>1. d \in Nat /\ size = 6 * d
    BY <1>2, QuotientRemainder DEF Columns
  <2>2. mixed = [k \in 0 .. size - 1 |-> a[(k % 6) * d + (k \div 6)]]
    BY <1>2 DEF interleave, Columns
  <2>3. deinterleave(mixed, size) = [k \in 0 .. size - 1 |-> mixed[(k % d) * 6 + (k \div d)]]
    BY <1>2 DEF deinterleave, Columns
  <2>4. ASSUME NEW k \in 0 .. size - 1
        PROVE  mixed[(k % d) * 6 + (k \div d)] = a[k]
    <3> DEFINE q == k \div d
               r == k % d
               p == r * 6 + q
    <3>1. d \in Nat \ {0} /\ k \in Nat /\ k \in 0 .. 6 * d - 1
      BY <2>1
    <3>2. q \in 0 .. 5
      BY <3>1, GroupOf
    <3>3. r \in 0 .. d - 1 /\ k = q * d + r
      BY <3>1, QuotientRemainder
    <3> HIDE DEF q, r
    <3>4. p \in 0 .. size - 1
      BY <2>1, <3>1, <3>2, <3>3
    <3>5. p \div 6 = r /\ p % 6 = q
      BY <3>2, <3>3, SixSplits
    <3>6. mixed[p] = a[(p % 6) * d + (p \div 6)]
      BY <2>2, <3>4
    <3> QED
      BY <3>3, <3>5, <3>6 DEF q, r
  <2>5. [k \in 0 .. size - 1 |-> mixed[(k % d) * 6 + (k \div d)]] = [k \in 0 .. size - 1 |-> a[k]]
    BY <2>4
  <2> QED
    BY <2>3, <2>5
<1> QED
  BY <1>1, <1>2

-----------------------------------------------------------------------------
(* COMMS: downloads *)

\* What plsize is when a download may begin.
Sizes == {16, 19, 40, Bytes}

\* A count of packets computed with a size no packet exceeds is enough of them.
LEMMA EnoughPackets ==
    ASSUME NEW n \in Nat, NEW size \in Sizes
    PROVE  (n \div size) + 1 \in Nat /\ ((n \div size) + 1) * Bytes >= n
<1>1. CASE size = 16
  BY <1>1 DEF Bytes
<1>2. CASE size = 19
  BY <1>2 DEF Bytes
<1>3. CASE size = 40
  BY <1>3 DEF Bytes
<1>4. CASE size = 41
  BY <1>4 DEF Bytes
<1>5. QED
  BY <1>1, <1>2, <1>3, <1>4 DEF Sizes, Bytes

\* COMMS_State never leads into the inner loop.
CommsStates == {"SLEEP", "STDBY", "RX", "TX"}

Downloads ==
    /\ state \in CommsStates
    /\ image \in Nat /\ plsize \in Sizes \union {0}
    /\ "Data" \in flags => plsize \in Sizes
    /\ at = "packets" =>
          /\ packets_to_send \in Nat /\ packet_number \in Nat /\ promised \in Nat
          /\ packets_to_send * Bytes >= promised
          /\ packet_number <= packets_to_send + 1 /\ covered = packet_number * Bytes

\* No download has begun.
LEMMA DownloadsInit == CommsInit => Downloads
BY DEF CommsInit, Downloads, CommsStates

\* Outside the inner loop the counts of the download do not matter.
LEMMA DownloadsNext == Downloads /\ CommsNext => Downloads'
<1> SUFFICES ASSUME Downloads, CommsNext
             PROVE  Downloads'
  OBVIOUS
<1> USE DEF download, radioVars
<1>s. state' \in CommsStates
  BY DEF Downloads, CommsStates, CommsNext, Loop, IrqProcess, Dispatch, ReceiveCase, CommandCase,
     process_telecommand, Answer, Quietly, ListenFirst, Reboot, BeaconCase, AckCase, ReportCase, Transmit,
     Skip, BeaconSent, AckSent, ReportSent, AfterSend, DataCase, SendPacket, PacketsSent, StandbyCase,
     SleepCase, Receives, RadioEnds, OnTxTimeout, OnRxTimeout, beacon_time, Photo
<1>1. ASSUME UNCHANGED <<image, download>>, "Data" \in flags' => "Data" \in flags,
             at' = "packets" => at = "packets"
      PROVE  Downloads'
  BY <1>s, <1>1 DEF Downloads
<1>2. ASSUME image' \in {0, image}, plsize' \in Sizes \union {0}, "Data" \in flags' => plsize' \in Sizes,
             at' # "packets"
      PROVE  Downloads'
  BY <1>s, <1>2 DEF Downloads
<1>3. CASE IrqProcess \/ Dispatch \/ ReceiveCase \/ ListenFirst \/ StandbyCase \/ SleepCase \/ PacketsSent
  BY <1>1, <1>3 DEF Downloads, CommsStates, IrqProcess, Dispatch, ReceiveCase, ListenFirst, StandbyCase, SleepCase, PacketsSent
<1>4. CASE BeaconSent \/ AckSent \/ ReportSent
  BY <1>1, <1>4 DEF BeaconSent, AckSent, ReportSent, AfterSend
<1>5. CASE Receives \/ RadioEnds \/ OnTxTimeout \/ OnRxTimeout \/ beacon_time
  BY <1>1, <1>5 DEF Receives, RadioEnds, OnTxTimeout, OnRxTimeout, beacon_time
<1>6. CASE Photo
  <2>1. image' \in Nat /\ UNCHANGED <<flags, at, download>>
    BY <1>6, ImagesAssumption DEF Photo
  <2>2. QED
    BY <1>s, <2>1 DEF Downloads
<1>7. CASE CommandCase
  <2>1. at' # "packets" /\ image' = image
    BY <1>7 DEF CommandCase
  <2>2. \/ plsize' \in {19, 40}
        \/ plsize' = plsize /\ ("Data" \in flags' => "Data" \in flags)
    BY <1>7 DEF CommandCase, process_telecommand, Answer, Quietly
  <2>3. CASE plsize' \in {19, 40}
    BY <1>2, <2>1, <2>3 DEF Sizes
  <2>4. CASE plsize' = plsize /\ ("Data" \in flags' => "Data" \in flags)
    BY <1>2, <2>1, <2>4 DEF Downloads
  <2>5. QED
    BY <2>2, <2>3, <2>4
<1>8. CASE Reboot
  BY <1>2, <1>8 DEF Reboot
<1>9. CASE BeaconCase \/ AckCase \/ ReportCase
  <2>1. at' # "packets" /\ image' = image
    BY <1>9 DEF BeaconCase, AckCase, ReportCase, Transmit, Skip
  <2>2. \/ plsize' \in {16, Bytes}
        \/ plsize' = plsize /\ flags' = flags
    BY <1>9 DEF BeaconCase, AckCase, ReportCase, Transmit, Skip
  <2>3. QED
    BY <1>2, <2>1, <2>2 DEF Downloads, Sizes
<1>10. CASE DataCase
  <2>1. CASE Skip("Data", "report")
    BY <1>1, <2>1 DEF Skip
  <2>2. CASE "Data" \in flags /\ ~Skip("Data", "report")
    <3>1. /\ packets_to_send' = (image \div plsize) + 1 /\ packet_number' = 0
          /\ promised' = image /\ covered' = 0 /\ UNCHANGED <<image, plsize, flags>>
      BY <1>10, <2>2 DEF DataCase
    <3>2. image \in Nat /\ plsize \in Sizes
      BY <2>2 DEF Downloads
    <3>3. packets_to_send' \in Nat /\ packets_to_send' * Bytes >= promised'
      BY <3>1, <3>2, EnoughPackets
    <3>4. packet_number' <= packets_to_send' + 1 /\ covered' = packet_number' * Bytes
      BY <3>1, <3>3 DEF Bytes
    <3>5. QED
      BY <1>s, <3>1, <3>2, <3>3, <3>4 DEF Downloads
  <2>3. QED
    BY <1>10, <2>1, <2>2 DEF DataCase
<1>11. CASE SendPacket
  <2>1. /\ packet_number' = packet_number + 1 /\ plsize' = Bytes
        /\ UNCHANGED <<at, image, packets_to_send, promised>>
        /\ covered' = IF packet_number * Bytes = covered THEN covered + Bytes ELSE covered
        /\ at = "packets" /\ packet_number <= packets_to_send
    BY <1>11 DEF SendPacket
  <2>2. /\ packets_to_send \in Nat /\ packet_number \in Nat /\ covered = packet_number * Bytes
    BY <2>1 DEF Downloads
  <2>3. covered' = packet_number' * Bytes /\ packet_number' <= packets_to_send + 1 /\ packet_number' \in Nat
    BY <2>1, <2>2 DEF Bytes
  <2>4. QED
    BY <1>s, <2>1, <2>3 DEF Downloads, Sizes
<1>12. QED
  BY <1>3, <1>4, <1>5, <1>6, <1>7, <1>8, <1>9, <1>10, <1>11 DEF CommsNext, Loop

\* A download that ended has taken the image.
LEMMA DownloadsCover == Downloads => ImageIsCovered
BY DEF Downloads, ImageIsCovered, Bytes

-----------------------------------------------------------------------------
(* The OBC: the clock *)

\* The clock is that of a state, or of the start, and while a function runs that of its state;
\* low-power run mode is on in SURVIVAL only.
Clocked ==
    /\ current \in States /\ writes \in Seq(States)
    /\ function \in States \union {"OBC_Init"}
    /\ \/ freq = 4 /\ latency = 0
       \/ \E s \in States : freq = Frequency[s] /\ latency = FlashLatency[s]
    /\ function \in States /\ line # "entry" => freq = Frequency[function]
    /\ lowPower => function = "SURVIVAL" /\ line # "entry"

\* The OBC starts with the clock of reset.
LEMMA ClockedInit == ObcInit => Clocked
BY DEF ObcInit, Clocked, States

\* Each function of a state sets the clock of that state before it runs.
LEMMA ClockedNext == Clocked /\ ObcNext => Clocked'
<1> SUFFICES ASSUME Clocked, ObcNext
             PROVE  Clocked'
  OBVIOUS
<1> USE DEF Clocked, world, loopVars, clocks
<1>1. CASE EpsChangesState \/ CommsSignals
  BY <1>1 DEF EpsChangesState, CommsSignals
<1>2. CASE FlashWrites
  <2>1. Head(writes) \in States /\ Tail(writes) \in Seq(States)
    BY <1>2 DEF FlashWrites
  <2>2. QED
    BY <1>2, <2>1 DEF FlashWrites
<1>3. CASE OBC_Init
  BY <1>3 DEF OBC_Init
<1>4. CASE SetUp
  BY <1>4 DEF SetUp, SetClock
<1>5. CASE OBC_Nominal \/ OBC_Contingency \/ OBC_Sunsafe \/ OBC_Survival
  BY <1>5 DEF OBC_Nominal, OBC_Contingency, OBC_Sunsafe, OBC_Survival, Begins, States
<1>6. CASE WaitForPacket
  BY <1>6 DEF WaitForPacket
<1>7. CASE WaitForCommand
  <2>1. RXFlags => writes' \in Seq(States)
    <3> DEFINE a == IF "CONTINGENCY" \in noti THEN <<"NOMINAL">> ELSE <<>>
               b == IF "SUNSAFE" \in noti THEN <<"CONTINGENCY">> ELSE <<>>
               c == IF "SURVIVAL" \in noti THEN <<"SURVIVAL">> ELSE <<>>
    <3>1. \A s \in States : <<s>> \in Seq(States)
      OBVIOUS
    <3>2. <<>> \in Seq(States)
      OBVIOUS
    <3>3. a \in Seq(States) /\ b \in Seq(States) /\ c \in Seq(States)
      BY <3>1, <3>2 DEF States
    <3>4. RXFlags => writes' = writes \o a \o b \o c
      BY DEF RXFlags
    <3> HIDE DEF a, b, c
    <3>5. writes \o a \o b \o c \in Seq(States)
      BY <3>3
    <3>6. QED
      BY <3>4, <3>5
  <2>2. QED
    BY <1>7, <2>1 DEF WaitForCommand
<1>8. CASE CheckState
  BY <1>8 DEF CheckState
<1>9. QED
  BY <1>1, <1>2, <1>3, <1>4, <1>5, <1>6, <1>7, <1>8 DEF ObcNext, Obc

\* The clocks of the states are within what the flash memory allows.
LEMMA ClockedIsSafe == Clocked => ClockIsSafe
<1> SUFFICES ASSUME Clocked
             PROVE  ClockIsSafe
  OBVIOUS
<1>1. /\ Frequency["NOMINAL"] = 80 /\ Frequency["CONTINGENCY"] = 26
      /\ Frequency["SUNSAFE"] = 8 /\ Frequency["SURVIVAL"] = 2
  BY DEF Frequency, States
<1>2. /\ FlashLatency["NOMINAL"] = 4 /\ FlashLatency["CONTINGENCY"] = 1
      /\ FlashLatency["SUNSAFE"] = 0 /\ FlashLatency["SURVIVAL"] = 0
  BY DEF FlashLatency, States
<1>3. /\ WaitStates(4) = 0 /\ WaitStates(80) = 4 /\ WaitStates(26) = 1 /\ WaitStates(8) = 0
      /\ WaitStates(2) = 0
  BY DEF WaitStates
<1>4. WaitStates(freq) <= latency
  BY <1>1, <1>2, <1>3 DEF Clocked, States
<1>5. lowPower => freq <= 2
  BY <1>1 DEF Clocked, States
<1>6. QED
  BY <1>4, <1>5 DEF ClockIsSafe

-----------------------------------------------------------------------------
(* The photo *)

\* getData is past its command.
InTransfer == calling \in {"transfer", "second", "first", "whole"}

\* During a transfer the interrupts store the halves that the DMA has filled, and the poll
\* looks at the same index.
Halved ==
    /\ imagelength \in Nat /\ halves \in Nat /\ indxVGA \in Nat /\ stored \in Nat
    /\ isSizeRxed \in BOOLEAN /\ step \in Nat /\ (step = 0 => calling = "idle")
    /\ InTransfer =>
        /\ indxVGA = halves * Half /\ stored = indxVGA /\ (isSizeRxed <=> halves > 0)
        /\ halves * Half <= Arriving
    /\ ~InTransfer => ~isSizeRxed
    /\ calling = "whole" => imagelength < Half
    /\ calling = "whole" /\ Delivered => halves = 0
    /\ Stored /\ Delivered => stored = imagelength

\* A photo that is delivered fills no half beyond its length.
LEMMA FilledWithin ==
    ASSUME NEW h \in Nat, NEW length \in Nat, h * Half <= length + 2,
           (length + 2) \div Half = length \div Half
    PROVE  h * Half <= length
<1>1. Half \in Nat \ {0}
  BY HalfAssumption
<1> DEFINE q == length \div Half
<1>2. /\ q \in Nat /\ q * Half <= length /\ length + 2 < (q + 1) * Half
  <2>1. \A a \in Nat : a \div Half \in Nat /\ (a \div Half) * Half <= a /\ a < ((a \div Half) + 1) * Half
    BY <1>1, Z3
  <2> QED
    BY <2>1, <1>1
<1>3. h <= q
  <2> SUFFICES ASSUME h >= q + 1 PROVE FALSE
    BY <1>2
  <2>1. h * Half >= (q + 1) * Half
    BY <1>1, <1>2, Z3
  <2> HIDE DEF q
  <2>2. (q + 1) * Half \in Nat /\ h * Half \in Nat
    BY <1>1, <1>2
  <2> QED
    BY <2>1, <2>2, <1>2
<1> HIDE DEF q
<1>4. h * Half <= q * Half
  BY <1>1, <1>2, <1>3, Z3
<1> QED
  BY <1>1, <1>2, <1>4

\* No photo yet.
LEMMA HalvedInit == CameraInit => Halved
<1> SUFFICES ASSUME CameraInit PROVE Halved
  OBVIOUS
<1>1. /\ step = 0 /\ calling = "idle" /\ imagelength = 0 /\ indxVGA = 0 /\ halves = 0 /\ stored = 0
      /\ isSizeRxed = FALSE
  BY DEF CameraInit
<1>2. ~InTransfer /\ calling # "accepted" /\ calling # "whole"
  BY <1>1 DEF InTransfer
<1> QED
  BY <1>1, <1>2 DEF Halved, Stored

\* Steps outside the transfer.
LEMMA HalvedControl ==
    ASSUME Halved, initCam \/ Exchange \/ checkACK \/ errP \/ Accepted \/ Failed
    PROVE  Halved'
<1>1. UNCHANGED dma /\ ~InTransfer /\ ~InTransfer'
  <2>1. /\ initCam => UNCHANGED dma /\ step = 0 /\ calling' = "send"
        /\ Exchange => UNCHANGED dma /\ calling = "send" /\ calling' \in {"accepted", "refused"}
        /\ Accepted => UNCHANGED dma /\ calling = "accepted" /\ calling' \in {"idle", "send"}
        /\ Failed => UNCHANGED dma /\ calling = "failed" /\ calling' = "idle"
    BY Zenon DEF initCam, Exchange, Accepted, Failed
  <2>2. checkACK => UNCHANGED dma /\ calling = "refused" /\ calling' \in {"failed", "send"}
    BY Zenon DEF checkACK
  <2>3. errP => UNCHANGED dma /\ calling = "failed" /\ calling' \in {"failed", "send"}
    BY Zenon DEF errP
  <2>4. step = 0 => calling = "idle"
    BY DEF Halved
  <2> QED
    BY <2>1, <2>2, <2>3, <2>4 DEF InTransfer
<1>2. calling' = "accepted" => Photograph[step'] # "getData"
  <2>1. Exchange => Photograph[step'] # "getData"
    BY Zenon DEF Exchange
  <2>2. ~Exchange => calling' # "accepted"
    BY DEF initCam, checkACK, errP, Accepted, Failed
  <2> QED
    BY <2>1, <2>2
<1>3. calling' # "whole"
  BY <1>1 DEF InTransfer
<1>4. step' \in Nat /\ (step' = 0 => calling' = "idle")
  <2>1. step \in Nat /\ (step = 0 => calling = "idle")
    BY DEF Halved
  <2>2. CASE initCam \/ Failed
    BY <2>2 DEF initCam, Failed
  <2>3. CASE Exchange \/ checkACK
    BY <2>1, <2>3, Zenon DEF Exchange, checkACK
  <2>4. CASE errP
    <3>1. step' = step /\ calling = "failed"
      BY <2>4, Zenon DEF errP
    <3> QED
      BY <2>1, <3>1
  <2>5. CASE Accepted
    <3>1. (step' = 0 /\ calling' = "idle") \/ step' = step + 1
      BY <2>5, Zenon DEF Accepted
    <3> QED
      BY <2>1, <3>1
  <2> QED
    BY <2>2, <2>3, <2>4, <2>5
<1>5. dma' = dma => /\ imagelength' = imagelength /\ indxVGA' = indxVGA /\ halves' = halves
                   /\ stored' = stored /\ isSizeRxed' = isSizeRxed
  BY DEF dma
<1> QED
  BY <1>1, <1>2, <1>3, <1>4, <1>5 DEF Halved, Stored, InTransfer

\* A transfer begins at the first half.
LEMMA HalvedStart ==
    ASSUME Halved, StartTransfer
    PROVE  Halved'
<1>1. /\ calling' = "transfer" /\ imagelength' \in Nat /\ indxVGA' = 0 /\ halves' = 0 /\ stored' = 0
      /\ isSizeRxed' = FALSE /\ step' = step /\ step \in Nat \ {0}
  BY HalfAssumption DEF StartTransfer, Halved, InTransfer
<1>2. halves' * Half = 0
  BY <1>1, HalfAssumption
<1>3. \A n \in Nat : 0 <= n + 2
  OBVIOUS
<1>4. halves' * Half <= imagelength' + 2
  BY <1>1, <1>2, <1>3, Zenon
<1>5. InTransfer' /\ calling' # "accepted" /\ calling' # "whole"
  BY <1>1 DEF InTransfer
<1>6. indxVGA' = halves' * Half /\ stored' = indxVGA' /\ ~(halves' > 0) /\ halves' * Half <= Arriving'
  BY <1>1, <1>2, <1>4 DEF Arriving
<1>7. /\ isSizeRxed' \in BOOLEAN /\ (isSizeRxed' <=> halves' > 0) /\ step' \in Nat /\ step' # 0
      /\ halves' \in Nat /\ indxVGA' \in Nat /\ stored' \in Nat
  <2>1. isSizeRxed' \in BOOLEAN /\ (isSizeRxed' <=> halves' > 0)
    BY <1>1, <1>6, Zenon
  <2>2. halves' \in Nat /\ indxVGA' \in Nat /\ stored' \in Nat
    BY <1>1
  <2> QED
    BY <1>1, <2>1, <2>2
<1> QED
  BY <1>1, <1>5, <1>6, <1>7, Zenon DEF Halved, Stored

\* An interrupt stores the half after those stored.
LEMMA HalvedFilled ==
    ASSUME Halved, HAL_UART_RxHalfCpltCallback \/ HAL_UART_RxCpltCallback
    PROVE  Halved'
<1>1. Half \in Nat \ {0}
  BY HalfAssumption
<1>2. /\ InTransfer /\ UNCHANGED <<calling, imagelength, circular>> /\ halves' = halves + 1
      /\ (halves + 1) * Half <= Arriving /\ step' = step
  BY DEF HAL_UART_RxHalfCpltCallback, HAL_UART_RxCpltCallback, Filled, Receiving, control, InTransfer
<1>3. /\ imagelength \in Nat /\ halves \in Nat /\ indxVGA \in Nat /\ stored \in Nat
      /\ indxVGA = halves * Half /\ stored = indxVGA /\ (isSizeRxed <=> halves > 0)
      /\ isSizeRxed \in BOOLEAN /\ step \in Nat /\ step # 0
  BY <1>2 DEF Halved, InTransfer
<1>4. (halves + 1) * Half = halves * Half + Half
  BY <1>1, <1>3
<1>5. isSizeRxed' = TRUE /\ indxVGA' = indxVGA + Half /\ stored' = stored + Half
  <2>1. CASE HAL_UART_RxCpltCallback
    <3>1. halves % 2 = 1 /\ Store(indxVGA, Half) /\ indxVGA' = indxVGA + Half /\ isSizeRxed' = isSizeRxed
      BY <2>1 DEF HAL_UART_RxCpltCallback, Filled
    <3>2. halves > 0
      BY <3>1, <1>3
    <3> QED
      BY <3>1, <3>2, <1>1, <1>3 DEF Store
  <2>2. CASE HAL_UART_RxHalfCpltCallback /\ isSizeRxed
    BY <2>2, <1>1, <1>3 DEF HAL_UART_RxHalfCpltCallback, Store
  <2>3. CASE HAL_UART_RxHalfCpltCallback /\ ~isSizeRxed
    <3>1. halves = 0
      BY <2>3, <1>3
    <3>2. indxVGA = 0 /\ stored = 0
      <4>1. 0 * Half = 0
        BY <1>1
      <4> QED
        BY <3>1, <4>1, <1>3
    <3> QED
      BY <2>3, <3>2, <1>1 DEF HAL_UART_RxHalfCpltCallback, Store
  <2> QED
    BY <2>1, <2>2, <2>3
<1>6. InTransfer' /\ Arriving' = Arriving /\ Delivered' = Delivered
  BY <1>2 DEF InTransfer, Arriving, Delivered
<1>7. calling = "whole" => ~Delivered
  <2> SUFFICES ASSUME calling = "whole", Delivered PROVE FALSE
    OBVIOUS
  <2>1. imagelength < Half
    BY DEF Halved
  <2>2. (halves + 1) * Half <= imagelength
    BY <1>2, <1>3, FilledWithin DEF Delivered, Arriving
  <2> QED
    BY <2>1, <2>2, <1>1, <1>3, <1>4
<1>8. halves' \in Nat /\ halves' > 0 /\ halves' * Half = halves * Half + Half /\ halves' * Half <= Arriving'
  BY <1>2, <1>3, <1>4, <1>6
<1>9. halves * Half \in Nat
  BY <1>1, <1>3
<1>10. indxVGA' = halves' * Half /\ stored' = indxVGA' /\ indxVGA' \in Nat
  <2>1. indxVGA' = stored' /\ indxVGA' = indxVGA + Half /\ indxVGA' \in Nat
    BY <1>1, <1>3, <1>5
  <2>2. halves' * Half = indxVGA + Half
    BY <1>3, <1>8
  <2> QED
    BY <2>1, <2>2, Zenon
<1>11. calling' # "accepted" /\ calling' = calling /\ imagelength' = imagelength /\ step' = step
  BY <1>2 DEF InTransfer
<1>12. calling = "whole" => imagelength < Half
  BY DEF Halved
<1> QED
  BY <1>3, <1>5, <1>6, <1>7, <1>8, <1>10, <1>11, <1>12 DEF Halved, Stored

\* The poll: what is left is after what is stored.
LEMMA HalvedPoll ==
    ASSUME Halved, Poll
    PROVE  Halved'
<1>1. Half \in Nat \ {0} /\ imagelength \in Nat /\ halves \in Nat /\ indxVGA \in Nat /\ stored \in Nat
  BY HalfAssumption DEF Halved
<1>2. InTransfer
  BY DEF Poll, LastPart, StoreLastPart, NothingLeft, InTransfer
<1>3. /\ indxVGA = halves * Half /\ stored = indxVGA /\ (isSizeRxed <=> halves > 0)
      /\ halves * Half <= Arriving /\ isSizeRxed \in BOOLEAN /\ step \in Nat /\ step # 0
  BY <1>2 DEF Halved, InTransfer
<1>4. CASE LastPart
  <2>1. /\ UNCHANGED <<imagelength, halves, indxVGA, stored, isSizeRxed, circular>>
        /\ InTransfer' /\ calling' # "accepted" /\ step' = step
        /\ calling' = "whole" => imagelength < Half /\ imagelength - indxVGA >= 1
    BY <1>1, <1>4 DEF LastPart, dma, InTransfer, Remaining
  <2>2. imagelength < Half /\ imagelength - indxVGA >= 1 => halves = 0
    <3> SUFFICES ASSUME imagelength < Half, imagelength - indxVGA >= 1, halves >= 1 PROVE FALSE
      BY <1>1
    <3>1. halves * Half >= 1 * Half
      BY <1>1, Z3
    <3> QED
      BY <3>1, <1>1, <1>3
  <2> QED
    <3>1. Arriving' = Arriving /\ halves' * Half = halves * Half
      BY <2>1 DEF Arriving
    <3> QED
      BY <3>1, <2>1, <2>2, <1>1, <1>3 DEF Halved, Stored
<1>5. CASE StoreLastPart
  <2>1. /\ UNCHANGED <<imagelength, halves, circular>> /\ indxVGA' = imagelength /\ isSizeRxed' = FALSE
        /\ calling' = "accepted" /\ ~InTransfer' /\ step' = step
    BY <1>5 DEF StoreLastPart, InTransfer
  <2>2. stored' \in Nat
    BY <1>1, <1>5 DEF StoreLastPart, Store, Remaining
  <2>3. Delivered => stored' = imagelength
    <3> SUFFICES ASSUME Delivered PROVE stored' = imagelength
      OBVIOUS
    <3>1. CASE calling = "whole"
      <4>1. stored = 0
        BY <3>1, <1>1, <1>3 DEF Halved
      <4> QED
        BY <4>1, <3>1, <1>1, <1>5 DEF StoreLastPart, Store
    <3>2. CASE calling # "whole"
      <4>1. halves * Half <= imagelength
        BY <1>1, <1>3, FilledWithin DEF Delivered, Arriving
      <4> QED
        BY <4>1, <3>2, <1>1, <1>3, <1>5 DEF StoreLastPart, Store, Remaining
    <3> QED
      BY <3>1, <3>2
  <2>4. Delivered' = Delivered
    BY <2>1 DEF Delivered, Arriving
  <2> QED
    BY <2>1, <2>2, <2>3, <2>4, <1>1, <1>3 DEF Halved, Stored
<1>6. CASE NothingLeft
  <2>1. /\ UNCHANGED <<imagelength, halves, indxVGA, stored, circular>> /\ indxVGA = imagelength
        /\ calling' = "accepted" /\ isSizeRxed' = FALSE /\ ~InTransfer' /\ step' = step
    BY <1>6 DEF NothingLeft, InTransfer
  <2> QED
    BY <2>1, <1>1, <1>3 DEF Halved, Stored
<1> QED
  BY <1>4, <1>5, <1>6 DEF Poll

\* Where in the buffer a place of the image is.
LEMMA HalfOf ==
    ASSUME NEW h \in Nat, NEW n \in Nat, h * Half <= n, n < h * Half + Half
    PROVE  n \div Half = h /\ (n % Half = 0 <=> n = h * Half)
<1>1. Half \in Nat \ {0}
  BY HalfAssumption
<1> DEFINE q == n \div Half
<1>2. /\ q \in Nat /\ q * Half <= n /\ n < (q + 1) * Half
      /\ n % Half = 0 => n = q * Half
      /\ n = q * Half => n % Half = 0
  <2>1. \A a \in Nat : a \div Half \in Nat /\ (a \div Half) * Half <= a /\ a < ((a \div Half) + 1) * Half
    BY <1>1, Z3
  <2>2. \A a \in Nat : a % Half = 0 => a = (a \div Half) * Half
    BY <1>1, Z3
  <2>3. \A a \in Nat : a = (a \div Half) * Half => a % Half = 0
    BY <1>1, Z3
  <2> QED
    BY <2>1, <2>2, <2>3, <1>1
<1> HIDE DEF q
<1>3. ~(h >= q + 1) /\ ~(q >= h + 1)
  <2>1. ASSUME h >= q + 1 PROVE FALSE
    <3>1. h * Half >= (q + 1) * Half
      BY <1>1, <1>2, <2>1, Z3
    <3>2. (q + 1) * Half = q * Half + Half /\ q * Half \in Nat /\ h * Half \in Nat
      BY <1>1, <1>2
    <3> QED
      BY <3>1, <3>2, <1>1, <1>2
  <2>2. ASSUME q >= h + 1 PROVE FALSE
    <3>1. q * Half >= (h + 1) * Half
      BY <1>1, <1>2, <2>2, Z3
    <3>2. (h + 1) * Half = h * Half + Half /\ q * Half \in Nat /\ h * Half \in Nat
      BY <1>1, <1>2
    <3> QED
      BY <3>1, <3>2, <1>1, <1>2
  <2> QED
    BY <2>1, <2>2
<1>4. q = h
  BY <1>2, <1>3
<1>5. n \div Half = h
  BY <1>4 DEF q
<1> QED
  BY <1>2, <1>4, <1>5, Zenon

\* As long as the DMA delivers each photo: the flag that is set is that of the half filled last,
\* none is left by a photo before, and what is left is in the other half.
Flagged ==
    /\ delivered \in BOOLEAN /\ HTC \in BOOLEAN /\ FTC \in BOOLEAN
    /\ delivered /\ ~InTransfer => ~HTC /\ ~FTC
    /\ delivered /\ calling = "transfer" =>
        /\ HTC <=> halves % 2 = 1
        /\ FTC <=> halves > 0 /\ halves % 2 = 0
        /\ taken = "nothing"
    /\ delivered /\ Delivered /\ calling \in {"second", "first", "whole"} =>
        /\ halves = imagelength \div Half /\ imagelength % Half # 0
        /\ halves * Half <= imagelength /\ imagelength < halves * Half + Half
        /\ calling = "second" => halves % 2 = 1 /\ ~FTC /\ taken = "second"
        /\ calling = "first" => halves % 2 = 0 /\ ~HTC
        /\ calling = "whole" => halves % 2 = 0 /\ ~HTC /\ ~FTC
    /\ Stored /\ delivered => taken = LastHalf

\* The steps outside the transfer leave the flags alone.
LEMMA FlaggedControl ==
    ASSUME Halved, Flagged, initCam \/ Exchange \/ checkACK \/ errP \/ Accepted \/ Failed
    PROVE  Flagged'
<1>1. UNCHANGED dma /\ ~InTransfer /\ ~InTransfer'
  <2>1. /\ initCam => UNCHANGED dma /\ step = 0 /\ calling' = "send"
        /\ Exchange => UNCHANGED dma /\ calling = "send" /\ calling' \in {"accepted", "refused"}
        /\ Accepted => UNCHANGED dma /\ calling = "accepted" /\ calling' \in {"idle", "send"}
        /\ Failed => UNCHANGED dma /\ calling = "failed" /\ calling' = "idle"
    BY Zenon DEF initCam, Exchange, Accepted, Failed
  <2>2. checkACK => UNCHANGED dma /\ calling = "refused" /\ calling' \in {"failed", "send"}
    BY Zenon DEF checkACK
  <2>3. errP => UNCHANGED dma /\ calling = "failed" /\ calling' \in {"failed", "send"}
    BY Zenon DEF errP
  <2>4. step = 0 => calling = "idle"
    BY DEF Halved
  <2> QED
    BY <2>1, <2>2, <2>3, <2>4 DEF InTransfer
<1>2. ~Stored'
  <2>1. Exchange => Photograph[step'] # "getData"
    BY Zenon DEF Exchange
  <2>2. ~Exchange => calling' # "accepted"
    BY DEF initCam, checkACK, errP, Accepted, Failed
  <2> QED
    BY <2>1, <2>2 DEF Stored
<1>3. UNCHANGED <<delivered, HTC, FTC>>
  BY <1>1, Zenon DEF dma, tail
<1> QED
  BY <1>1, <1>2, <1>3, Zenon DEF Flagged, InTransfer

\* A transfer begins with both flags cleared.
LEMMA FlaggedStart ==
    ASSUME Halved, Flagged, StartTransfer
    PROVE  Flagged'
<1>1. /\ calling = "send" /\ calling' = "transfer" /\ halves' = 0 /\ taken' = "nothing"
      /\ UNCHANGED <<HTC, FTC, delivered>>
  BY DEF StartTransfer
<1>2. 0 % 2 = 0
  OBVIOUS
<1>3. ~(halves' % 2 = 1) /\ ~(halves' > 0)
  BY <1>1, <1>2
<1>4. ~InTransfer /\ InTransfer' /\ ~Stored'
  BY <1>1 DEF InTransfer, Stored
<1> QED
  BY <1>1, <1>3, <1>4 DEF Flagged

\* An interrupt sets the flag of its half and clears the other; after the last half of a photo
\* that is delivered there is none.
LEMMA FlaggedFilled ==
    ASSUME Halved, Flagged, HAL_UART_RxHalfCpltCallback \/ HAL_UART_RxCpltCallback
    PROVE  Flagged'
<1>1. /\ InTransfer /\ UNCHANGED <<calling, imagelength, circular, taken, delivered>> /\ halves' = halves + 1
      /\ (halves + 1) * Half <= Arriving /\ halves \in Nat /\ imagelength \in Nat
  BY DEF HAL_UART_RxHalfCpltCallback, HAL_UART_RxCpltCallback, Filled, Receiving, control, tail,
     InTransfer, Halved
<1>2. /\ HTC' \in BOOLEAN /\ FTC' \in BOOLEAN
      /\ HTC' <=> halves % 2 = 0
      /\ FTC' <=> halves % 2 = 1
  <2>1. CASE HAL_UART_RxHalfCpltCallback
    <3>1. halves % 2 = 0 /\ HTC' = TRUE /\ FTC' = FALSE
      BY <2>1 DEF HAL_UART_RxHalfCpltCallback, Filled
    <3>2. halves % 2 # 1
      BY <3>1
    <3> QED
      BY <3>1, <3>2, Zenon
  <2>2. CASE HAL_UART_RxCpltCallback
    <3>1. halves % 2 = 1 /\ HTC' = FALSE /\ FTC' = TRUE
      BY <2>2 DEF HAL_UART_RxCpltCallback, Filled
    <3>2. halves % 2 # 0
      BY <3>1
    <3> QED
      BY <3>1, <3>2, Zenon
  <2> QED
    BY <2>1, <2>2
<1>3. /\ (halves + 1) % 2 = 1 <=> halves % 2 = 0
      /\ (halves + 1) % 2 = 0 <=> halves % 2 = 1
      /\ halves + 1 > 0
  BY <1>1, Z3
<1>4. InTransfer' /\ Delivered' = Delivered /\ ~Stored'
  BY <1>1 DEF InTransfer, Delivered, Arriving, Stored
<1>5. ~(delivered /\ Delivered /\ calling \in {"second", "first", "whole"})
  <2> SUFFICES ASSUME delivered, Delivered, calling \in {"second", "first", "whole"} PROVE FALSE
    OBVIOUS
  <2>1. imagelength < halves * Half + Half
    BY DEF Flagged
  <2>2. (halves + 1) * Half <= imagelength
    BY <1>1, FilledWithin DEF Delivered, Arriving
  <2>3. (halves + 1) * Half = halves * Half + Half
    BY <1>1, HalfAssumption
  <2>4. halves * Half + Half \in Nat
    BY <1>1, HalfAssumption
  <2> QED
    BY <2>1, <2>2, <2>3, <2>4, <1>1
<1> QED
  <2>1. delivered' \in BOOLEAN
    BY <1>1 DEF Flagged
  <2>2. delivered /\ calling = "transfer" => taken' = "nothing"
    BY <1>1 DEF Flagged
  <2>3. HTC' <=> halves' % 2 = 1
    BY <1>1, <1>2, <1>3
  <2>4. FTC' <=> halves' > 0 /\ halves' % 2 = 0
    BY <1>1, <1>2, <1>3
  <2> QED
    BY <2>1, <2>2, <2>3, <2>4, <1>1, <1>2, <1>4, <1>5 DEF Flagged

\* The poll goes to the half where what is left of the photo is.
LEMMA FlaggedPoll ==
    ASSUME Halved, Flagged, Poll
    PROVE  Flagged'
<1>1. /\ Half \in Nat \ {0} /\ imagelength \in Nat /\ halves \in Nat /\ indxVGA \in Nat
      /\ delivered \in BOOLEAN /\ HTC \in BOOLEAN /\ FTC \in BOOLEAN
  BY HalfAssumption DEF Halved, Flagged
<1>2. InTransfer /\ indxVGA = halves * Half
  BY DEF Poll, LastPart, StoreLastPart, NothingLeft, InTransfer, Halved
<1>3. CASE LastPart
  <2>1. /\ UNCHANGED <<imagelength, halves, indxVGA, HTC, FTC, delivered, circular>>
        /\ calling = "transfer" /\ InTransfer' /\ ~Stored' /\ Delivered' = Delivered
        /\ imagelength - indxVGA \in 1 .. (Half - 1)
    BY <1>3 DEF LastPart, InTransfer, Stored, Delivered, Arriving, Remaining
  <2>2. indxVGA <= imagelength /\ imagelength < indxVGA + Half /\ imagelength # indxVGA
    BY <2>1, <1>1
  <2>3. halves = imagelength \div Half /\ imagelength % Half # 0
    BY <2>2, <1>1, <1>2, HalfOf
  <2>4. /\ HTC => calling' = "second" /\ taken' = "second"
        /\ ~HTC /\ FTC => calling' = "first"
        /\ ~HTC /\ ~FTC => calling' \in {"whole", "transfer"}
        /\ ~HTC => taken' = taken
    BY <1>1, <1>3, Zenon DEF LastPart
  <2>5. ASSUME delivered
        PROVE  /\ HTC <=> halves % 2 = 1
               /\ FTC <=> halves > 0 /\ halves % 2 = 0
               /\ taken = "nothing"
    BY <2>1, <2>5 DEF Flagged
  <2>6. halves % 2 = 0 \/ halves % 2 = 1
    BY <1>1
  <2>7. ASSUME delivered
        PROVE  /\ calling' = "transfer" => ~HTC /\ taken' = "nothing"
               /\ calling' = "second" => halves % 2 = 1 /\ ~FTC /\ taken' = "second"
               /\ calling' = "first" => halves % 2 = 0 /\ ~HTC
               /\ calling' = "whole" => halves % 2 = 0 /\ ~HTC /\ ~FTC
    BY <2>4, <2>5, <2>6, <2>7, <1>1
  <2>8. halves * Half <= imagelength /\ imagelength < halves * Half + Half
    BY <2>2, <1>2
  <2> QED
    BY <2>1, <2>3, <2>5, <2>7, <2>8, <1>1 DEF Flagged
<1>4. CASE StoreLastPart
  <2>1. /\ UNCHANGED <<imagelength, circular>> /\ ~InTransfer' /\ Delivered' = Delivered
        /\ calling \in {"second", "first", "whole"} /\ calling' = "accepted"
        /\ delivered' = (delivered /\ Delivered)
        /\ HTC' = (HTC /\ calling # "second") /\ FTC' = (FTC /\ calling # "first")
        /\ calling = "second" => taken' = taken
        /\ calling # "second" => taken' = "first"
    BY <1>4, Zenon DEF StoreLastPart, InTransfer, Delivered, Arriving
  <2>2. ASSUME delivered, Delivered
        PROVE  ~HTC' /\ ~FTC' /\ taken' = LastHalf
    <3>1. /\ halves = imagelength \div Half /\ imagelength % Half # 0
          /\ calling = "second" => halves % 2 = 1 /\ ~FTC /\ taken = "second"
          /\ calling = "first" => halves % 2 = 0 /\ ~HTC
          /\ calling = "whole" => halves % 2 = 0 /\ ~HTC /\ ~FTC
      BY <2>1, <2>2 DEF Flagged
    <3>2. ~HTC' /\ ~FTC'
      BY <2>1, <3>1
    <3>3. taken' = IF halves % 2 = 0 THEN "first" ELSE "second"
      <4>1. calling = "second" => ~(halves % 2 = 0)
        BY <3>1
      <4> QED
        BY <2>1, <3>1, <4>1
    <3>4. LastHalf = IF (imagelength \div Half) % 2 = 0 THEN "first" ELSE "second"
      BY <3>1 DEF LastHalf
    <3> QED
      BY <3>1, <3>2, <3>3, <3>4
  <2>3. LastHalf' = LastHalf
    BY <2>1 DEF LastHalf
  <2>4. HTC' \in BOOLEAN /\ FTC' \in BOOLEAN /\ delivered' \in BOOLEAN
    BY <2>1, <1>1
  <2>5. delivered' => delivered /\ Delivered
    BY <2>1
  <2>6. delivered' => ~HTC' /\ ~FTC' /\ taken' = LastHalf'
    BY <2>2, <2>3, <2>5, Zenon
  <2>7. calling' # "transfer" /\ calling' \notin {"second", "first", "whole"}
    BY <2>1
  <2>8. /\ ~(delivered' /\ calling' = "transfer")
        /\ ~(delivered' /\ Delivered' /\ calling' \in {"second", "first", "whole"})
    BY <2>7
  <2> QED
    BY <2>4, <2>6, <2>8 DEF Flagged
<1>5. CASE NothingLeft
  <2>1. /\ UNCHANGED <<imagelength, taken>> /\ indxVGA = imagelength /\ ~InTransfer'
        /\ calling = "transfer" /\ calling' = "accepted" /\ HTC' = FALSE /\ FTC' = FALSE
        /\ delivered' = (delivered /\ Delivered)
    BY <1>5 DEF NothingLeft, InTransfer
  <2>2. LastHalf' = "nothing"
    <3>1. imagelength % Half = 0
      BY <2>1, <1>1, <1>2, HalfOf
    <3> QED
      BY <2>1, <3>1 DEF LastHalf
  <2>3. delivered => taken' = "nothing"
    BY <2>1 DEF Flagged
  <2> QED
    BY <2>1, <2>2, <2>3, <1>1 DEF Flagged
<1> QED
  BY <1>3, <1>4, <1>5 DEF Poll

\* What the units' steps preserve together.
Photographed == Halved /\ Flagged

LEMMA PhotographedInit == CameraInit => Photographed
<1> SUFFICES ASSUME CameraInit PROVE Flagged
  BY HalvedInit DEF Photographed
<1>1. calling = "idle" /\ delivered = TRUE /\ HTC = FALSE /\ FTC = FALSE
  BY DEF CameraInit
<1> QED
  BY <1>1 DEF Flagged, InTransfer, Stored

\* No step of the camera disturbs it.
LEMMA PhotographedNext ==
    ASSUME Photographed, [CameraNext]_camvars
    PROVE  Photographed'
<1>1. CASE UNCHANGED camvars
  <2>1. UNCHANGED <<step, calling, imagelength, indxVGA, HTC, FTC, isSizeRxed, halves, stored,
                    taken, delivered, circular>>
    BY <1>1, Zenon DEF camvars, control, dma, tail
  <2> QED
    BY <2>1 DEF Photographed, Halved, Flagged, Stored, LastHalf, InTransfer, Arriving, Delivered
<1>2. CASE RestArrives
  <2>1. UNCHANGED <<step, calling, imagelength, indxVGA, HTC, FTC, isSizeRxed, halves, stored,
                    taken, delivered, circular>>
    BY <1>2, Zenon DEF RestArrives, control, tail
  <2> QED
    BY <2>1 DEF Photographed, Halved, Flagged, Stored, LastHalf, InTransfer, Arriving, Delivered
<1>3. CASE CameraNext /\ ~RestArrives
  BY <1>3, HalvedControl, HalvedStart, HalvedPoll, HalvedFilled, FlaggedControl, FlaggedStart,
     FlaggedPoll, FlaggedFilled DEF CameraNext, CameraStep, Dma, Photographed
<1> QED
  BY <1>1, <1>2, <1>3

-----------------------------------------------------------------------------
(* The theorems: each unit is left alone by the steps of the others *)

\* A download takes as many bytes in order as the image had when it began, whichever size its
\* number of packets was computed with (DataCase of COMMS_StateMachine).
THEOREM ImageIsCoveredHolds == RefSpec => []ImageIsCovered
<1>1. RefInit => Downloads
  BY DownloadsInit DEF RefInit
<1>2. Downloads /\ [RefNext]_refvars => Downloads'
  <2>1. Downloads /\ UNCHANGED cvars => Downloads'
    BY DEF Downloads, cvars, download
  <2>2. QED
    BY <2>1, DownloadsNext DEF RefNext, refvars
<1>3. QED
  BY <1>1, <1>2, DownloadsCover, PTL DEF RefSpec

\* Low-power run mode is on only with a clock of 2 MHz, and the flash memory has the wait states
\* the clock needs, whichever states follow one another (OBC_Nominal .. OBC_Survival, clock.c).
THEOREM ClockIsSafeHolds == RefSpec => []ClockIsSafe
<1>1. RefInit => Clocked
  BY ClockedInit DEF RefInit
<1>2. Clocked /\ [RefNext]_refvars => Clocked'
  <2>1. Clocked /\ UNCHANGED ovars => Clocked'
    BY DEF Clocked, ovars, world, clocks
  <2>2. QED
    BY <2>1, ClockedNext DEF RefNext, refvars
<1>3. QED
  BY <1>1, <1>2, ClockedIsSafe, PTL DEF RefSpec

\* However the interrupts of the DMA and the polls of getData fall, for a photo accepted after a
\* transfer that the DMA delivered as many bytes were written as it has, each part after the one
\* before, and the last part was read from the half it is in, if no photo before has left a
\* flag; for every size of the buffer and every length (getData and its callbacks).
THEOREM PhotoIsPlacedHolds == RefSpec => []PhotoIsPlaced
<1>1. RefInit => Photographed
  BY PhotographedInit DEF RefInit
<1>2. Photographed /\ [RefNext]_refvars => Photographed'
  <2>1. Photographed /\ UNCHANGED camvars => Photographed'
    BY PhotographedNext
  <2>2. QED
    BY <2>1, PhotographedNext DEF RefNext, refvars
<1>3. Photographed => PhotoIsPlaced
  BY DEF Photographed, Halved, Flagged, PhotoIsPlaced
<1>4. QED
  BY <1>1, <1>2, <1>3, PTL DEF RefSpec

=============================================================================
