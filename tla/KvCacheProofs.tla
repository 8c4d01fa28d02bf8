--------------------------- MODULE KvCacheProofs ----------------------------
(***************************************************************************)
(* Proofs about the three components of v1/core/kv_cache_utils.py, which   *)
(* share no state: FreeBlockQueue, then BlockHasher, then KvPlan.          *)
(*                                                                         *)
(* FreeBlockQueue, for any number of blocks: the links are a list through  *)
(* the free blocks whatever is popped, removed and given back, the loops   *)
(* over it yield that list, and the list is the queue of the abstract      *)
(* specification.  The loops are a recursive function over the naturals.   *)
(* The library's induction theorems cannot be instantiated here, so the    *)
(* module derives induction for a set of numbers from the well-foundedness *)
(* of <.                                                                   *)
(*                                                                         *)
(* BlockHasher, for any sizes of the hash blocks and of the groups'        *)
(* blocks, any number of tokens and any items: which hashes depend on how  *)
(* the tokens arrived, and which name prefixes.  The two loops are         *)
(* recursive functions.  Their closed forms are proved by induction on the *)
(* items (from the last one) and on the blocks: the hash of block b is the *)
(* sequence of what b blocks add.  That is Entry(r, 1) .. Entry(r, b)      *)
(* whatever items the loop started with, except for the one block in which *)
(* items may be passed over, which then adds ShortEntry.                   *)
(*                                                                         *)
(* KvPlan, for any layers on any number of ranks, any platform, memory and *)
(* setting: the pool that is served holds a request beside the null block. *)
(* From the memory to the pool it is arithmetic, whose one condition is    *)
(* that a rank counts the same blocks for a request as the whole model     *)
(* does, WellGroup: the layers of a uniform group take equally many blocks *)
(* for any length.  That every way to group the layers yields such groups, *)
(* and that the specs a platform gives its layers are ones that can be     *)
(* grouped, is most of the proof.                                          *)
(***************************************************************************)
EXTENDS FreeBlockQueue, BlockHasher, KvPlan, FiniteSetTheorems, FunctionTheorems,
        SequenceTheorems, NaturalsInduction, WellFoundedInduction, TLAPS

-----------------------------------------------------------------------------
(* FreeBlockQueue.                                                         *)

N == Cardinality(Blocks)

\* The links are those of the sequence s of n nodes, the fakes at its ends.
IsList(n, s) ==
    /\ n \in Nat /\ n >= 2
    /\ s \in [1 .. n -> Nodes]
    /\ s[1] = Head_ /\ s[n] = Tail_
    /\ \A i, j \in 1 .. n : s[i] = s[j] => i = j
    /\ next \in [Nodes -> Nodes \cup {None}]
    /\ prev \in [Nodes -> Nodes \cup {None}]
    /\ \A i \in 1 .. n - 1 : next[s[i]] = s[i + 1] /\ prev[s[i + 1]] = s[i]
    /\ next[Tail_] = None /\ prev[Head_] = None
    /\ \A x \in Nodes : (\A i \in 1 .. n : s[i] # x) => next[x] = None /\ prev[x] = None
    /\ num_free_blocks = n - 2

\* The inductive invariant.  LinksConsistent is not inductive: it holds of a
\* list beside a closed ring of blocks, which the first pop would break.
IInv == \E n \in Nat : \E s \in [1 .. n -> Nodes] : IsList(n, s)

-----------------------------------------------------------------------------
(* Numbers.                                                                *)

LEMMA LeastNatural ==
  ASSUME NEW T \in SUBSET Nat, T # {}
  PROVE  \E m \in T : \A k \in T : m <= k
<1> DEFINE R == OpToRel(<, Nat)
<1>1. IsWellFoundedOn(R, Nat)
  BY NatLessThanWellFounded
<1>2. \A x, y \in Nat : x < y => <<x, y>> \in R
  BY DEF OpToRel
<1> HIDE DEF R
<1>3. PICK m \in T : \A y \in T : ~ (<<y, m>> \in R)
  BY <1>1, WFMin
<1>4. ASSUME NEW k \in T PROVE m <= k
  <2>1. m \in Nat /\ k \in Nat
    OBVIOUS
  <2>2. ~ (k < m)
    BY <1>2, <1>3, <2>1
  <2> QED BY <2>1, <2>2
<1> QED BY <1>4

LEMMA SetInduction ==
  ASSUME NEW T \in SUBSET Nat, 0 \in T, \A n \in T : n + 1 \in T
  PROVE  T = Nat
<1> SUFFICES ASSUME Nat \ T # {} PROVE FALSE
  OBVIOUS
<1>1. PICK m \in Nat \ T : \A k \in Nat \ T : m <= k
  BY LeastNatural
<1>2. m - 1 \in Nat /\ m - 1 \notin Nat \ T
  BY <1>1
<1> QED BY <1>1, <1>2

LEMMA Counting ==
  N \in Nat /\ Blocks = 1 .. N /\ IsFiniteSet(Nodes) /\ Cardinality(Nodes) \in Nat
<1>1. N \in Nat /\ Blocks = 1 .. N
  BY BlocksAssumption, FS_CardinalityType DEF N
<1>2. IsFiniteSet({Head_, Tail_})
  <2>1. IsFiniteSet({Head_}) /\ IsFiniteSet({Tail_})
    BY FS_Singleton
  <2>2. IsFiniteSet({Head_} \cup {Tail_})
    BY <2>1, FS_Union
  <2> QED BY <2>2
<1>3. IsFiniteSet(Nodes)
  BY <1>2, BlocksAssumption, FS_Union DEF Nodes
<1> QED BY <1>1, <1>3, FS_CardinalityType

\* Distinct nodes in a row are at most as many as there are nodes.
LEMMA PathFits ==
  ASSUME NEW n \in Nat, NEW s \in [1 .. n -> Nodes],
         \A i, j \in 1 .. n : s[i] = s[j] => i = j
  PROVE  n <= Cardinality(Nodes)
<1>1. s \in Injection(1 .. n, Nodes)
  BY DEF Injection, IsInjective
<1>2. Cardinality(1 .. n) <= Cardinality(Nodes)
  BY <1>1, Counting, FS_Injection
<1>3. Cardinality(1 .. n) = n
  BY FS_Interval
<1> QED BY <1>2, <1>3

-----------------------------------------------------------------------------
(* The loops.                                                              *)

\* The links f run through the sequence s of n nodes and end with it.
Path(f, n, s) ==
    /\ f \in [Nodes -> Nodes \cup {None}]
    /\ n \in Nat /\ n > 0
    /\ s \in [1 .. n -> Nodes]
    /\ \A i, k \in 1 .. n : s[i] = s[k] => i = k
    /\ \A i \in 1 .. n - 1 : f[s[i]] = s[i + 1]
    /\ f[s[n]] = None

\* A walk along a path of links meets the nodes of the path, then nothing.
LEMMA WalkOfPath ==
  ASSUME NEW f, NEW n, NEW s, Path(f, n, s), NEW j \in 1 .. n
  PROVE  \A k \in 0 .. Cardinality(Nodes) :
            Walk(f, s[j])[k] = IF j + k <= n THEN s[j + k] ELSE None
<1> DEFINE C == Cardinality(Nodes)
           x == s[j]
           w == [k \in 0 .. C |-> IF j + k <= n THEN s[j + k] ELSE None]
           Rec(g) == [k \in 0 .. C |-> IF k = 0 THEN x
                        ELSE IF g[k - 1] = None THEN None ELSE f[g[k - 1]]]
           nth == CHOOSE g : g = Rec(g)
<1>0. C \in Nat
  BY Counting
<1>a. /\ f \in [Nodes -> Nodes \cup {None}] /\ n \in Nat /\ n > 0 /\ s \in [1 .. n -> Nodes]
      /\ \A i \in 1 .. n - 1 : f[s[i]] = s[i + 1]
      /\ f[s[n]] = None
  BY DEF Path
<1>1. \A i \in 1 .. n : s[i] # None
  BY <1>a, FakesAssumption DEF Nodes
<1> HIDE DEF C
<1>2. ASSUME NEW k \in 0 .. C
      PROVE w[k] = IF k = 0 THEN x
                   ELSE IF w[k - 1] = None THEN None ELSE f[w[k - 1]]
  <2>1. CASE k = 0
    BY <2>1, <1>0
  <2>2. CASE k # 0
    <3>1. k - 1 \in 0 .. C
      BY <2>2, <1>0
    <3>2. w[k - 1] = IF j + (k - 1) <= n THEN s[j + (k - 1)] ELSE None
      BY <3>1
    <3>3. w[k] = IF j + k <= n THEN s[j + k] ELSE None
      OBVIOUS
    <3> HIDE DEF w
    <3>4. CASE j + k <= n
      <4>1. j + (k - 1) \in 1 .. n - 1 /\ j + (k - 1) \in 1 .. n /\ j + (k - 1) + 1 = j + k
        BY <1>a, <3>4, <2>2, <1>0
      <4> QED BY <4>1, <1>a, <3>2, <3>3, <3>4, <2>2, <1>1
    <3>5. CASE j + (k - 1) = n
      BY <3>5, <1>a, <3>2, <3>3, <2>2, <1>1, <1>0, SMTT(30)
    <3>6. CASE j + (k - 1) > n
      BY <3>6, <1>a, <3>2, <3>3, <2>2, <1>1, <1>0
    <3> QED BY <3>4, <3>5, <3>6, <1>0, <1>a
  <2> QED BY <2>1, <2>2
<1>3. w = Rec(w)
  <2> HIDE DEF x
  <2> SUFFICES \A k \in 0 .. C : w[k] = Rec(w)[k]
    OBVIOUS
  <2> QED BY <1>2
<1>4. nth = Rec(nth)
  <2> HIDE DEF w, Rec
  <2> QED BY <1>3
<1>5. \A k \in 0 .. C : nth[k] = IF k = 0 THEN x
                   ELSE IF nth[k - 1] = None THEN None ELSE f[nth[k - 1]]
  <2> HIDE DEF nth
  <2> QED BY <1>4
<1> HIDE DEF nth, w, x
<1> DEFINE T == {k \in Nat : k \in 0 .. C => nth[k] = w[k]}
<1>6. T = Nat
  <2>1. 0 \in T
    BY <1>2, <1>5
  <2>2. ASSUME NEW k \in T PROVE k + 1 \in T
    <3> SUFFICES ASSUME k + 1 \in 0 .. C PROVE nth[k + 1] = w[k + 1]
      OBVIOUS
    <3>1. k \in 0 .. C /\ (k + 1) - 1 = k /\ k + 1 # 0
      BY <1>0
    <3>2. nth[k] = w[k]
      BY <3>1
    <3> QED BY <3>1, <3>2, <1>2, <1>5
  <2> HIDE DEF T
  <2>3. T \in SUBSET Nat
    BY DEF T
  <2> QED BY <2>1, <2>2, <2>3, SetInduction
<1>7. Walk(f, s[j]) = nth
  BY DEF Walk, nth, x, C
<1>8. \A k \in 0 .. C : nth[k] = w[k]
  BY <1>0, <1>6
<1>9. \A k \in 0 .. C : w[k] = IF j + k <= n THEN s[j + k] ELSE None
  BY DEF w
<1> QED BY <1>7, <1>8, <1>9 DEF C

\* Stop holds of the last node of the path only.
PathTo(f, n, s, Stop) ==
    /\ Path(f, n, s)
    /\ \A i \in 1 .. n - 1 : s[i] \notin Stop
    /\ s[n] \in Stop

\* A loop along a path meets, after the j-th node, those up to the stop.
LEMMA UpToOfPath ==
  ASSUME NEW f, NEW n, NEW s, NEW Stop, PathTo(f, n, s, Stop), NEW j \in 1 .. n - 1
  PROVE  UpTo(f, s[j], Stop) = [k \in 1 .. n - 1 - j |-> s[j + k]]
<1> DEFINE C == Cardinality(Nodes)
           nth == Walk(f, s[j])
           met == {k \in 1 .. C : \A i \in 1 .. k : nth[i] \notin Stop}
<1>0. /\ f \in [Nodes -> Nodes \cup {None}] /\ n \in Nat /\ n > 0 /\ s \in [1 .. n -> Nodes]
      /\ \A i, k \in 1 .. n : s[i] = s[k] => i = k
      /\ \A i \in 1 .. n - 1 : f[s[i]] = s[i + 1]
      /\ f[s[n]] = None
      /\ \A i \in 1 .. n - 1 : s[i] \notin Stop
      /\ s[n] \in Stop
  BY DEF PathTo, Path
<1>1. C \in Nat /\ n <= C
  BY <1>0, Counting, PathFits
<1>2. \A k \in 0 .. C : nth[k] = IF j + k <= n THEN s[j + k] ELSE None
  <2>1. j \in 1 .. n
    BY <1>0
  <2>2. Path(f, n, s)
    BY DEF PathTo
  <2> QED BY <2>1, <2>2, WalkOfPath
<1>3. UpTo(f, s[j], Stop) = [k \in 1 .. Cardinality(met) |-> nth[k]]
  BY DEF UpTo
<1> HIDE DEF nth, C
<1>4. met = 1 .. n - 1 - j
  <2>1. ASSUME NEW k \in 1 .. n - 1 - j PROVE k \in met
    <3>1. k \in 1 .. C
      BY <1>0, <1>1
    <3>2. ASSUME NEW i \in 1 .. k PROVE nth[i] \notin Stop
      <4>1. i \in 0 .. C /\ j + i <= n /\ j + i \in 1 .. n - 1
        BY <1>0, <3>1, <1>1
      <4> QED BY <4>1, <1>0, <1>2
    <3> QED BY <3>1, <3>2
  <2>2. ASSUME NEW k \in met PROVE k \in 1 .. n - 1 - j
    <3> SUFFICES ASSUME k > n - 1 - j PROVE FALSE
      BY <1>0, <1>1
    <3>1. n - j \in 1 .. k /\ n - j \in 0 .. C /\ j + (n - j) = n
      BY <1>0, <1>1
    <3>2. nth[n - j] = s[n]
      BY <3>1, <1>0, <1>2
    <3>3. nth[n - j] \notin Stop
      BY <3>1
    <3> QED BY <3>2, <3>3, <1>0
  <2> QED BY <2>1, <2>2, <1>0
<1> HIDE DEF met
<1>5. Cardinality(met) = n - 1 - j
  <2>1. Cardinality(1 .. n - 1 - j) = n - 1 - j
    BY <1>0, FS_Interval
  <2> QED BY <2>1, <1>4
<1>6. \A k \in 1 .. n - 1 - j : nth[k] = s[j + k]
  BY <1>0, <1>1, <1>2
<1> QED BY <1>3, <1>5, <1>6, <1>0

\* What the loops yield on a list: the blocks between the fakes, and from any
\* of them the rest.
LEMMA AllOfList ==
  ASSUME NEW n \in Nat, NEW s \in [1 .. n -> Nodes], IsList(n, s)
  PROVE  get_all_free_blocks = [k \in 1 .. n - 2 |-> s[k + 1]]
<1> DEFINE Stop == {None} \cup {x \in Nodes : next[x] = None}
<1>1. \A i \in 1 .. n : s[i] # None
  BY FakesAssumption DEF Nodes
<1>2. \A i \in 1 .. n - 1 : s[i] \notin Stop
  BY <1>1 DEF IsList
<1>3. s[n] \in Stop
  BY DEF IsList
<1>4. get_all_free_blocks = UpTo(next, s[1], Stop)
  BY DEF get_all_free_blocks, IsList
<1> HIDE DEF Stop
<1>5. UpTo(next, s[1], Stop) = [k \in 1 .. n - 1 - 1 |-> s[1 + k]]
  <2>1. PathTo(next, n, s, Stop)
    BY <1>2, <1>3 DEF PathTo, Path, IsList
  <2>2. 1 \in 1 .. n - 1
    BY DEF IsList
  <2> QED BY <2>1, <2>2, UpToOfPath
<1> QED BY <1>4, <1>5

LEMMA IterOfList ==
  ASSUME NEW n \in Nat, NEW s \in [1 .. n -> Nodes], IsList(n, s), NEW j \in 1 .. n - 1
  PROVE  iter_blocks_after(IF j = 1 THEN None ELSE s[j]) = [k \in 1 .. n - 1 - j |-> s[j + k]]
<1> DEFINE Stop == {None, Tail_}
<1>1. \A i \in 1 .. n : s[i] # None
  BY FakesAssumption DEF Nodes
<1>2. \A i \in 1 .. n - 1 : s[i] \notin Stop
  BY <1>1 DEF IsList
<1>3. s[n] \in Stop
  BY DEF IsList
<1>4. iter_blocks_after(IF j = 1 THEN None ELSE s[j]) = UpTo(next, s[j], Stop)
  BY <1>1 DEF iter_blocks_after, IsList
<1> HIDE DEF Stop
<1>5. UpTo(next, s[j], Stop) = [k \in 1 .. n - 1 - j |-> s[j + k]]
  <2>1. PathTo(next, n, s, Stop)
    BY <1>2, <1>3 DEF PathTo, Path, IsList
  <2>2. j \in 1 .. n - 1
    BY DEF IsList
  <2> QED BY <2>1, <2>2, UpToOfPath
<1> QED BY <1>4, <1>5

-----------------------------------------------------------------------------
(* The properties hold of a list.                                          *)

LEMMA FreeOnList ==
  ASSUME NEW n \in Nat, NEW s \in [1 .. n -> Nodes], IsList(n, s)
  PROVE  /\ \A i \in 1 .. n - 2 : s[i + 1] \in Blocks /\ Free(s[i + 1])
         /\ \A b \in Blocks : Free(b) => \E i \in 1 .. n - 2 : b = s[i + 1]
         /\ \A b \in Blocks : (prev[b] = None) = (next[b] = None)
<1>1. \A i \in 1 .. n : s[i] # None
  BY FakesAssumption DEF Nodes
<1>2. ASSUME NEW i \in 1 .. n - 2 PROVE s[i + 1] \in Blocks /\ Free(s[i + 1])
  <2>1. i + 1 \in 1 .. n - 1 /\ i \in 1 .. n - 1 /\ i + 1 \in 1 .. n /\ (i + 1) + 1 \in 1 .. n /\ i \in 1 .. n
    OBVIOUS
  <2>2. s[i + 1] # Head_ /\ s[i + 1] # Tail_
    BY <2>1 DEF IsList
  <2>3. next[s[i + 1]] = s[(i + 1) + 1] /\ prev[s[i + 1]] = s[i]
    BY <2>1 DEF IsList
  <2> QED BY <2>1, <2>2, <2>3, <1>1 DEF Free, Nodes
<1>3. ASSUME NEW b \in Blocks, \E i \in 1 .. n : s[i] = b
      PROVE  \E i \in 1 .. n - 2 : b = s[i + 1]
  <2>1. PICK i \in 1 .. n : s[i] = b
    BY <1>3
  <2>2. i # 1 /\ i # n
    BY <2>1, FakesAssumption DEF IsList
  <2>3. i - 1 \in 1 .. n - 2 /\ (i - 1) + 1 = i
    BY <2>2
  <2> QED BY <2>1, <2>3
<1>4. ASSUME NEW b \in Blocks, ~ \E i \in 1 .. n : s[i] = b
      PROVE  next[b] = None /\ prev[b] = None
  BY <1>4 DEF IsList, Nodes
<1>5. ASSUME NEW b \in Blocks, Free(b) PROVE \E i \in 1 .. n - 2 : b = s[i + 1]
  BY <1>3, <1>4, <1>5 DEF Free
<1>6. ASSUME NEW b \in Blocks PROVE (prev[b] = None) = (next[b] = None)
  <2>1. CASE \E i \in 1 .. n : s[i] = b
    BY <2>1, <1>2, <1>3 DEF Free
  <2>2. CASE ~ \E i \in 1 .. n : s[i] = b
    BY <2>2, <1>4
  <2> QED BY <2>1, <2>2
<1> QED BY <1>2, <1>5, <1>6

LEMMA ListIsConsistent ==
  ASSUME NEW n \in Nat, NEW s \in [1 .. n -> Nodes], IsList(n, s)
  PROVE  LinksConsistent
<1> DEFINE B == {b \in Blocks : Free(b)}
           t == [i \in 1 .. n - 2 |-> s[i + 1]]
<1>1. \A i \in 1 .. n : s[i] # None
  BY FakesAssumption DEF Nodes
<1>2. ASSUME NEW x \in Nodes \ {Tail_}, next[x] # None PROVE prev[next[x]] = x
  <2>1. PICK i \in 1 .. n : s[i] = x
    BY <1>2 DEF IsList
  <2>2. i \in 1 .. n - 1
    BY <2>1 DEF IsList
  <2> QED BY <2>1, <2>2 DEF IsList
<1>3. ASSUME NEW x \in Nodes \ {Head_}, prev[x] # None PROVE next[prev[x]] = x
  <2>1. PICK i \in 1 .. n : s[i] = x
    BY <1>3 DEF IsList
  <2>2. i - 1 \in 1 .. n - 1 /\ (i - 1) + 1 = i
    BY <2>1 DEF IsList
  <2>3. next[s[i - 1]] = s[i] /\ prev[s[i]] = s[i - 1]
    BY <2>2 DEF IsList
  <2> QED BY <2>1, <2>3
<1>4. num_free_blocks = Cardinality(B)
  <2>1. n - 2 \in Nat /\ num_free_blocks = n - 2
    BY DEF IsList
  <2>2. \A i \in 1 .. n - 2 : t[i] \in B
    BY FreeOnList
  <2>3. \A b \in B : \E i \in 1 .. n - 2 : t[i] = b
    BY FreeOnList
  <2>4. \A i, k \in 1 .. n - 2 : t[i] = t[k] => i = k
    BY DEF IsList
  <2> HIDE DEF B
  <2>5. t \in [1 .. n - 2 -> B]
    BY <2>2
  <2> HIDE DEF t
  <2>6. t \in Bijection(1 .. n - 2, B)
    BY <2>3, <2>4, <2>5 DEF Bijection, Injection, Surjection, IsInjective
  <2>7. ExistsBijection(1 .. n - 2, B)
    BY <2>6 DEF ExistsBijection
  <2> QED BY <2>1, <2>7, FS_CountingElements
<1> QED BY <1>2, <1>3, <1>4, FreeOnList DEF LinksConsistent

LEMMA ListResumes ==
  ASSUME NEW n \in Nat, NEW s \in [1 .. n -> Nodes], IsList(n, s)
  PROVE  IterationResumes
<1> DEFINE q == [k \in 1 .. n - 2 |-> s[k + 1]]
<1>1. get_all_free_blocks = q
  BY AllOfList
<1>2. n >= 2 /\ n - 2 \in Nat
  BY DEF IsList
<1>3. \A k \in 1 .. n - 2 : q[k] \in Nodes
  BY <1>2
<1>4. q \in Seq(Nodes) /\ Len(q) = n - 2
  BY <1>2, <1>3
<1> HIDE DEF q
<1>5. ASSUME NEW k \in 0 .. n - 2
      PROVE  iter_blocks_after(IF k = 0 THEN None ELSE q[k]) = SubSeq(q, k + 1, n - 2)
  <2> DEFINE rest == [i \in 1 .. n - 1 - (k + 1) |-> s[(k + 1) + i]]
  <2>1. k + 1 \in 1 .. n - 1
    BY <1>2
  <2>2. iter_blocks_after(IF k + 1 = 1 THEN None ELSE s[k + 1]) = rest
    BY <2>1, IterOfList
  <2>3. k # 0 => q[k] = s[k + 1]
    BY <1>2 DEF q
  <2>4. (k + 1 = 1) = (k = 0)
    OBVIOUS
  <2>5. iter_blocks_after(IF k = 0 THEN None ELSE q[k]) = rest
    <3>1. CASE k = 0
      BY <3>1, <2>2
    <3>2. CASE k # 0
      BY <3>2, <2>2, <2>3
    <3> QED BY <3>1, <3>2
  <2>6. rest \in Seq(Nodes) /\ Len(rest) = n - 2 - k
    BY <1>2
  <2>7. \A i \in k + 1 .. n - 2 : q[i] \in Nodes
    BY <1>2, <1>4
  <2>8. /\ SubSeq(q, k + 1, n - 2) \in Seq(Nodes)
        /\ Len(SubSeq(q, k + 1, n - 2)) = IF k + 1 <= n - 2 THEN n - 2 - (k + 1) + 1 ELSE 0
        /\ \A i \in 1 .. n - 2 - (k + 1) + 1 : SubSeq(q, k + 1, n - 2)[i] = q[k + 1 + i - 1]
    <3>1. PICK a, b \in Int : a = k + 1 /\ b = n - 2 /\ \A i \in a .. b : q[i] \in Nodes
      BY <1>2, <2>7
    <3>2. /\ SubSeq(q, a, b) \in Seq(Nodes)
          /\ Len(SubSeq(q, a, b)) = IF a <= b THEN b - a + 1 ELSE 0
          /\ \A i \in 1 .. b - a + 1 : SubSeq(q, a, b)[i] = q[a + i - 1]
      BY <3>1, SubSeqProperties
    <3> QED BY <3>1, <3>2
  <2>9. Len(SubSeq(q, k + 1, n - 2)) = n - 2 - k
    BY <2>8, <1>2
  <2>10. \A i \in 1 .. n - 2 - k : SubSeq(q, k + 1, n - 2)[i] = rest[i]
    BY <2>8, <1>2 DEF q
  <2> HIDE DEF rest
  <2>11. SubSeq(q, k + 1, n - 2) = rest
    BY <2>6, <2>8, <2>9, <2>10, SeqEqual
  <2> QED BY <2>5, <2>11
<1> QED BY <1>1, <1>4, <1>5 DEF IterationResumes

-----------------------------------------------------------------------------
(* What the operations do to a list.                                       *)

LEMMA Between ==
  ASSUME NEW t \in Seq(Nodes), NEW x \in Nodes, NEW y \in Nodes, NEW u, u = <<x>> \o t \o <<y>>
  PROVE  /\ u \in Seq(Nodes) /\ Len(t) \in Nat /\ Len(u) = Len(t) + 2
         /\ u[1] = x /\ u[Len(t) + 2] = y
         /\ \A i \in 1 .. Len(t) : u[i + 1] = t[i]
<1> DEFINE v == <<x>> \o t
<1>1. <<x>> \in Seq(Nodes) /\ <<y>> \in Seq(Nodes) /\ Len(<<x>>) = 1 /\ Len(<<y>>) = 1
      /\ <<x>>[1] = x /\ <<y>>[1] = y /\ Len(t) \in Nat
  OBVIOUS
<1>2. v \in Seq(Nodes) /\ Len(v) = 1 + Len(t)
      /\ \A i \in 1 .. 1 + Len(t) : v[i] = IF i <= 1 THEN <<x>>[i] ELSE t[i - 1]
  BY <1>1, ConcatProperties
<1> HIDE DEF v
<1>3. u \in Seq(Nodes) /\ Len(u) = Len(v) + 1
      /\ \A i \in 1 .. Len(v) + 1 : u[i] = IF i <= Len(v) THEN v[i] ELSE <<y>>[i - Len(v)]
  <2>1. u = v \o <<y>>
    BY DEF v
  <2> QED BY <2>1, <1>1, <1>2, ConcatProperties
<1>4. u[1] = x
  BY <1>1, <1>2, <1>3
<1>5. u[Len(t) + 2] = y
  BY <1>1, <1>2, <1>3
<1>6. ASSUME NEW i \in 1 .. Len(t) PROVE u[i + 1] = t[i]
  <2>1. i + 1 \in 1 .. 1 + Len(t) /\ (i + 1) - 1 = i /\ i + 1 > 1
    BY <1>1
  <2> QED BY <2>1, <1>1, <1>2, <1>3
<1> QED BY <1>1, <1>2, <1>3, <1>4, <1>5, <1>6

\* NextAlong and PrevAlong link the neighbours of u and nothing else.
LEMMA Linked ==
  ASSUME NEW u \in Seq(Nodes), NEW old \in [Nodes -> Nodes \cup {None}], IsInjective(u)
  PROVE  /\ NextAlong(u, old) \in [Nodes -> Nodes \cup {None}]
         /\ PrevAlong(u, old) \in [Nodes -> Nodes \cup {None}]
         /\ \A i \in 1 .. Len(u) - 1 : /\ NextAlong(u, old)[u[i]] = u[i + 1]
                                       /\ PrevAlong(u, old)[u[i + 1]] = u[i]
         /\ \A x \in Nodes : (\A i \in 1 .. Len(u) - 1 : u[i] # x) => NextAlong(u, old)[x] = old[x]
         /\ \A x \in Nodes : (\A i \in 2 .. Len(u) : u[i] # x) => PrevAlong(u, old)[x] = old[x]
<1>1. /\ Len(u) \in Nat /\ \A i \in 1 .. Len(u) : u[i] \in Nodes
      /\ \A i, k \in 1 .. Len(u) : u[i] = u[k] => i = k
  BY DEF IsInjective
<1>2. ASSUME NEW i \in 1 .. Len(u) - 1
      PROVE  NextAlong(u, old)[u[i]] = u[i + 1] /\ PrevAlong(u, old)[u[i + 1]] = u[i]
  <2>1. (CHOOSE k \in 1 .. Len(u) - 1 : u[k] = u[i]) = i
    BY <1>1
  <2>2. i + 1 \in 2 .. Len(u) /\ (i + 1) - 1 = i
    BY <1>1
  <2>3. (CHOOSE k \in 2 .. Len(u) : u[k] = u[i + 1]) = i + 1
    BY <1>1, <2>2
  <2>4. NextAlong(u, old)[u[i]] = u[i + 1]
    BY <1>1, <2>1, SMTT(30) DEF NextAlong
  <2>5. PrevAlong(u, old)[u[i + 1]] = u[i]
    BY <1>1, <2>2, <2>3 DEF PrevAlong
  <2> QED BY <2>4, <2>5
<1>3. ASSUME NEW x \in Nodes
      PROVE  NextAlong(u, old)[x] \in Nodes \cup {None}
  <2>1. CASE \E i \in 1 .. Len(u) - 1 : u[i] = x
    BY <2>1, <1>1, <1>2
  <2>2. CASE ~ \E i \in 1 .. Len(u) - 1 : u[i] = x
    BY <2>2 DEF NextAlong
  <2> QED BY <2>1, <2>2
<1>4. ASSUME NEW x \in Nodes
      PROVE  PrevAlong(u, old)[x] \in Nodes \cup {None}
  <2>1. CASE \E i \in 2 .. Len(u) : u[i] = x
    <3>1. PICK i \in 2 .. Len(u) : u[i] = x
      BY <2>1
    <3>2. i - 1 \in 1 .. Len(u) - 1 /\ (i - 1) + 1 = i
      BY <1>1
    <3>3. PrevAlong(u, old)[u[(i - 1) + 1]] = u[i - 1]
      BY <3>2, <1>2
    <3>4. u[i - 1] \in Nodes
      BY <3>2, <1>1
    <3> QED BY <3>1, <3>2, <3>3, <3>4
  <2>2. CASE ~ \E i \in 2 .. Len(u) : u[i] = x
    BY <2>2 DEF PrevAlong
  <2> QED BY <2>1, <2>2
<1>5. NextAlong(u, old) \in [Nodes -> Nodes \cup {None}]
  BY <1>3 DEF NextAlong
<1>6. PrevAlong(u, old) \in [Nodes -> Nodes \cup {None}]
  BY <1>4 DEF PrevAlong
<1>7. \A x \in Nodes : (\A i \in 1 .. Len(u) - 1 : u[i] # x) => NextAlong(u, old)[x] = old[x]
  BY DEF NextAlong
<1>8. \A x \in Nodes : (\A i \in 2 .. Len(u) : u[i] # x) => PrevAlong(u, old)[x] = old[x]
  BY DEF PrevAlong
<1> QED BY <1>2, <1>5, <1>6, <1>7, <1>8

\* The list is to become s2, by linking its nodes u, from the d-th on, anew.
Splice(n2, s2, u, d) ==
    /\ n2 \in Nat /\ n2 >= 2 /\ d \in Nat
    /\ s2 \in [1 .. n2 -> Nodes]
    /\ s2[1] = Head_ /\ s2[n2] = Tail_
    /\ \A i, k \in 1 .. n2 : s2[i] = s2[k] => i = k
    /\ u \in Seq(Nodes) /\ Len(u) >= 2 /\ d + Len(u) <= n2
    /\ \A i \in 1 .. Len(u) : u[i] = s2[d + i]
    /\ next \in [Nodes -> Nodes \cup {None}] /\ prev \in [Nodes -> Nodes \cup {None}]
    /\ next[Tail_] = None /\ prev[Head_] = None
    /\ \A i \in 1 .. n2 - 1 : i <= d \/ i >= d + Len(u) =>
            next[s2[i]] = s2[i + 1] /\ prev[s2[i + 1]] = s2[i]
    /\ \A x \in Nodes : (\A i \in 1 .. n2 : s2[i] # x) => next[x] = None /\ prev[x] = None

LEMMA Spliced ==
  ASSUME NEW n2, NEW s2, NEW u, NEW d, Splice(n2, s2, u, d),
         next' = NextAlong(u, next), prev' = PrevAlong(u, prev), num_free_blocks' = n2 - 2
  PROVE  IsList(n2, s2)'
<1> DEFINE m == Len(u)
<1>0. /\ n2 \in Nat /\ n2 >= 2 /\ d \in Nat
      /\ s2 \in [1 .. n2 -> Nodes]
      /\ s2[1] = Head_ /\ s2[n2] = Tail_
      /\ \A i, k \in 1 .. n2 : s2[i] = s2[k] => i = k
  BY DEF Splice
<1>a. next[Tail_] = None /\ prev[Head_] = None
  BY DEF Splice
<1>b. u \in Seq(Nodes) /\ next \in [Nodes -> Nodes \cup {None}]
      /\ prev \in [Nodes -> Nodes \cup {None}]
  BY DEF Splice
<1>c. \A i \in 1 .. n2 - 1 : i <= d \/ i >= d + m =>
          next[s2[i]] = s2[i + 1] /\ prev[s2[i + 1]] = s2[i]
  BY DEF Splice
<1>1. m \in Nat /\ m >= 2 /\ d + m <= n2
  BY DEF Splice
<1>2. \A i \in 1 .. m : d + i \in 1 .. n2 /\ u[i] = s2[d + i]
  BY <1>0, <1>1 DEF Splice
<1>3. IsInjective(u)
  <2>1. DOMAIN u = 1 .. m
    BY DEF Splice
  <2> QED BY <2>1, <1>0, <1>1, <1>2 DEF IsInjective
<1>4. /\ next' \in [Nodes -> Nodes \cup {None}]
      /\ prev' \in [Nodes -> Nodes \cup {None}]
      /\ \A i \in 1 .. m - 1 : next'[u[i]] = u[i + 1] /\ prev'[u[i + 1]] = u[i]
      /\ \A x \in Nodes : (\A i \in 1 .. m - 1 : u[i] # x) => next'[x] = next[x]
      /\ \A x \in Nodes : (\A i \in 2 .. m : u[i] # x) => prev'[x] = prev[x]
  <2>1. /\ NextAlong(u, next) \in [Nodes -> Nodes \cup {None}]
        /\ \A i \in 1 .. m - 1 : NextAlong(u, next)[u[i]] = u[i + 1]
        /\ \A x \in Nodes : (\A i \in 1 .. m - 1 : u[i] # x) => NextAlong(u, next)[x] = next[x]
    BY <1>3, <1>b, Linked
  <2>2. /\ PrevAlong(u, prev) \in [Nodes -> Nodes \cup {None}]
        /\ \A i \in 1 .. m - 1 : PrevAlong(u, prev)[u[i + 1]] = u[i]
        /\ \A x \in Nodes : (\A i \in 2 .. m : u[i] # x) => PrevAlong(u, prev)[x] = prev[x]
    BY <1>3, <1>b, Linked
  <2> HIDE DEF m
  <2> QED BY <2>1, <2>2
<1> HIDE DEF m
<1>5. ASSUME NEW i \in 1 .. n2, i <= d \/ i >= d + m PROVE next'[s2[i]] = next[s2[i]]
  <2>1. \A k \in 1 .. m - 1 : u[k] # s2[i]
    BY <1>0, <1>1, <1>2, <1>5
  <2> QED BY <1>0, <2>1, <1>4
<1>6. ASSUME NEW i \in 1 .. n2, i <= d + 1 \/ i > d + m PROVE prev'[s2[i]] = prev[s2[i]]
  <2>1. \A k \in 2 .. m : u[k] # s2[i]
    <3> SUFFICES ASSUME NEW k \in 2 .. m PROVE u[k] # s2[i]
      OBVIOUS
    <3>1. k \in 1 .. m /\ d + k # i
      BY <1>0, <1>1, <1>6
    <3> QED BY <1>0, <3>1, <1>2
  <2> QED BY <1>0, <2>1, <1>4
<1>7. ASSUME NEW i \in 1 .. n2 - 1 PROVE next'[s2[i]] = s2[i + 1] /\ prev'[s2[i + 1]] = s2[i]
  <2>1. CASE i <= d \/ i >= d + m
    <3>1. i \in 1 .. n2 /\ i + 1 \in 1 .. n2 /\ (i + 1 <= d + 1 \/ i + 1 > d + m)
      BY <1>0, <2>1, <1>1
    <3>2. next[s2[i]] = s2[i + 1] /\ prev[s2[i + 1]] = s2[i]
      BY <2>1, <1>c
    <3>3. next'[s2[i]] = next[s2[i]]
      BY <1>0, <2>1, <3>1, <1>5
    <3>4. prev'[s2[i + 1]] = prev[s2[i + 1]]
      BY <3>1, <1>6
    <3> QED BY <3>2, <3>3, <3>4
  <2>2. CASE i > d /\ i < d + m
    <3>1. i - d \in 1 .. m - 1 /\ i - d \in 1 .. m /\ (i - d) + 1 \in 1 .. m
          /\ d + (i - d) = i /\ d + ((i - d) + 1) = i + 1
      BY <1>0, <2>2, <1>1
    <3>2. u[i - d] = s2[i] /\ u[(i - d) + 1] = s2[i + 1]
      BY <3>1, <1>2
    <3> QED BY <3>1, <3>2, <1>4
  <2> QED BY <1>0, <2>1, <2>2, <1>1
<1>8. next'[Tail_] = None
  <2>1. n2 \in 1 .. n2 /\ n2 >= d + m
    BY <1>0, <1>1
  <2> QED BY <1>0, <1>a, <2>1, <1>5
<1>9. prev'[Head_] = None
  BY <1>0, <1>a, <1>1, <1>6
<1>10. ASSUME NEW x \in Nodes, \A i \in 1 .. n2 : s2[i] # x
       PROVE  next'[x] = None /\ prev'[x] = None
  <2>1. \A k \in 1 .. m : u[k] # x
    BY <1>0, <1>2, <1>10
  <2>2. (\A k \in 1 .. m - 1 : u[k] # x) /\ (\A k \in 2 .. m : u[k] # x)
    BY <1>0, <1>1, <2>1
  <2> QED BY <2>2, <1>4, <1>10 DEF Splice
<1> QED BY <1>0, <1>4, <1>7, <1>8, <1>9, <1>10 DEF IsList

LEMMA InitIsList ==
  ASSUME QueueInit
  PROVE  IsList(N + 2, [i \in 1 .. N + 2 |-> IF i = 1 THEN Head_ ELSE IF i = N + 2 THEN Tail_
                                             ELSE i - 1])
<1> DEFINE t == [i \in 1 .. N |-> i]
           u == <<Head_>> \o t \o <<Tail_>>
           s == [i \in 1 .. N + 2 |-> IF i = 1 THEN Head_ ELSE IF i = N + 2 THEN Tail_ ELSE i - 1]
<1>1. N \in Nat /\ Blocks = 1 .. N /\ Head_ \in Nodes /\ Tail_ \in Nodes
  BY Counting DEF Nodes
<1>2. t \in Seq(Nodes) /\ Len(t) = N /\ \A i \in 1 .. N : t[i] = i
  BY <1>1 DEF Nodes
<1>3. next = NextAlong(u, Unlinked) /\ prev = PrevAlong(u, Unlinked) /\ num_free_blocks = N
  BY DEF QueueInit, N
<1> HIDE DEF t
<1>4. /\ u \in Seq(Nodes) /\ Len(u) = N + 2
      /\ u[1] = Head_ /\ u[N + 2] = Tail_ /\ \A i \in 1 .. N : u[i + 1] = i
  BY <1>1, <1>2, Between
<1> HIDE DEF u
<1>5. s \in [1 .. N + 2 -> Nodes]
  BY <1>1 DEF Nodes
<1>7. s[1] = Head_ /\ s[N + 2] = Tail_ /\ \A i \in 2 .. N + 1 : s[i] = i - 1
  BY <1>1
<1>6. \A i, k \in 1 .. N + 2 : s[i] = s[k] => i = k
  <2> HIDE DEF s
  <2>1. \A i \in 2 .. N + 1 : s[i] \in Blocks
    BY <1>1, <1>7
  <2>2. \A i \in 1 .. N + 2 : i = 1 \/ i = N + 2 \/ i \in 2 .. N + 1
    BY <1>1
  <2>3. Head_ # Tail_ /\ Head_ \notin Blocks /\ Tail_ \notin Blocks
    BY FakesAssumption
  <2>4. \A i, k \in 2 .. N + 1 : s[i] = s[k] => i = k
    BY <1>1, <1>7
  <2> QED BY <2>1, <2>2, <2>3, <2>4, <1>7
<1>8. ASSUME NEW x \in Nodes PROVE \E i \in 1 .. N + 2 : s[i] = x
  <2>1. CASE x \in Blocks
    <3>1. x + 1 \in 2 .. N + 1 /\ (x + 1) - 1 = x /\ x + 1 \in 1 .. N + 2
      BY <2>1, <1>1
    <3> QED BY <3>1, <1>7
  <2>2. CASE x \in {Head_, Tail_}
    <3>1. 1 \in 1 .. N + 2 /\ N + 2 \in 1 .. N + 2
      BY <1>1
    <3> QED BY <2>2, <3>1, <1>7
  <2> QED BY <2>1, <2>2 DEF Nodes
<1> HIDE DEF s
<1>9. \A i \in 1 .. N + 2 : u[i] = s[i]
  <2> SUFFICES ASSUME NEW i \in 1 .. N + 2 PROVE u[i] = s[i]
    OBVIOUS
  <2>1. CASE i = 1 \/ i = N + 2
    BY <2>1, <1>4, <1>7
  <2>2. CASE i \in 2 .. N + 1
    <3>1. i - 1 \in 1 .. N /\ (i - 1) + 1 = i
      BY <2>2, <1>1
    <3> QED BY <3>1, <2>2, <1>4, <1>7
  <2> QED BY <2>1, <2>2, <1>1
<1>10. IsInjective(u)
  <2>1. DOMAIN u = 1 .. N + 2
    BY <1>1, <1>4
  <2> QED BY <2>1, <1>6, <1>9 DEF IsInjective
<1>11. Unlinked \in [Nodes -> Nodes \cup {None}] /\ \A x \in Nodes : Unlinked[x] = None
  BY DEF Unlinked
<1>12. /\ next \in [Nodes -> Nodes \cup {None}]
       /\ \A i \in 1 .. Len(u) - 1 : next[u[i]] = u[i + 1]
       /\ \A x \in Nodes : (\A i \in 1 .. Len(u) - 1 : u[i] # x) => next[x] = Unlinked[x]
  BY <1>3, <1>4, <1>10, <1>11, Linked
<1>13. /\ prev \in [Nodes -> Nodes \cup {None}]
       /\ \A i \in 1 .. Len(u) - 1 : prev[u[i + 1]] = u[i]
       /\ \A x \in Nodes : (\A i \in 2 .. Len(u) : u[i] # x) => prev[x] = Unlinked[x]
  BY <1>3, <1>4, <1>10, <1>11, Linked
<1>14. \A i \in 1 .. N + 1 : next[s[i]] = s[i + 1] /\ prev[s[i + 1]] = s[i]
  <2> SUFFICES ASSUME NEW i \in 1 .. N + 1
               PROVE  next[s[i]] = s[i + 1] /\ prev[s[i + 1]] = s[i]
    OBVIOUS
  <2>1. i \in 1 .. Len(u) - 1 /\ i \in 1 .. N + 2 /\ i + 1 \in 1 .. N + 2
    BY <1>1, <1>4
  <2> QED BY <2>1, <1>9, <1>12, <1>13
<1>15. next[Tail_] = None
  <2>1. \A i \in 1 .. Len(u) - 1 : u[i] # Tail_
    BY <1>1, <1>4, <1>6, <1>7, <1>9
  <2> QED BY <2>1, <1>1, <1>11, <1>12
<1>16. prev[Head_] = None
  <2>1. \A i \in 2 .. Len(u) : u[i] # Head_
    BY <1>1, <1>4, <1>6, <1>7, <1>9
  <2> QED BY <2>1, <1>1, <1>11, <1>13
<1>17. IsList(N + 2, s)
  <2>1. N + 2 \in Nat /\ N + 2 >= 2 /\ (N + 2) - 1 = N + 1 /\ (N + 2) - 2 = N
    BY <1>1
  <2> QED BY <2>1, <1>3, <1>5, <1>6, <1>7, <1>8, <1>12, <1>13, <1>14, <1>15, <1>16 DEF IsList
<1> QED BY <1>17 DEF s

\* popleft_n: the first m blocks leave.
LEMMA PopleftList ==
  ASSUME NEW n \in Nat, NEW s \in [1 .. n -> Nodes], IsList(n, s),
         NEW m \in 1 .. num_free_blocks, PopleftN(m)
  PROVE  /\ m <= n - 2
         /\ IsList(n - m, [i \in 1 .. n - m |-> IF i = 1 THEN Head_ ELSE s[i + m]])'
<1> DEFINE s2 == [i \in 1 .. n - m |-> IF i = 1 THEN Head_ ELSE s[i + m]]
           walk == Walk(next, Head_)
           popped == {walk[i] : i \in 1 .. m}
           curr == walk[m + 1]
<1>1. m \in Nat /\ m > 0 /\ m <= n - 2 /\ n - m \in Nat /\ n - m >= 2
  BY DEF IsList
<1>2. /\ next \in [Nodes -> Nodes \cup {None}] /\ prev \in [Nodes -> Nodes \cup {None}]
      /\ s[1] = Head_ /\ s[n] = Tail_
      /\ \A i, k \in 1 .. n : s[i] = s[k] => i = k
      /\ \A i \in 1 .. n : s[i] \in Nodes
  BY DEF IsList
<1>3. /\ next[Tail_] = None /\ prev[Head_] = None
      /\ \A i \in 1 .. n - 1 : next[s[i]] = s[i + 1] /\ prev[s[i + 1]] = s[i]
      /\ \A x \in Nodes : (\A i \in 1 .. n : s[i] # x) => next[x] = None /\ prev[x] = None
  BY DEF IsList
<1>4. \A i \in 1 .. m + 1 : walk[i] = s[i + 1]
  <2>1. n > 0 /\ 1 \in 1 .. n /\ n <= Cardinality(Nodes) /\ Cardinality(Nodes) \in Nat
    BY <1>1, <1>2, PathFits, Counting
  <2>2. Path(next, n, s)
    BY <1>1, <1>2, <1>3 DEF Path
  <2>3. \A k \in 0 .. Cardinality(Nodes) : walk[k] = IF 1 + k <= n THEN s[1 + k] ELSE None
    <3>1. \A j \in 1 .. n : \A k \in 0 .. Cardinality(Nodes) :
            Walk(next, s[j])[k] = IF j + k <= n THEN s[j + k] ELSE None
      BY <2>2, WalkOfPath
    <3> QED BY <3>1, <2>1, <1>2
  <2> HIDE DEF walk
  <2> QED BY <2>1, <2>3, <1>1
<1>5. /\ next' = [x \in Nodes |-> IF x = Head_ THEN curr ELSE IF x \in popped THEN None ELSE next[x]]
      /\ prev' = [x \in Nodes |-> IF x = curr THEN Head_ ELSE IF x \in popped THEN None ELSE prev[x]]
      /\ num_free_blocks' = num_free_blocks - m
  BY DEF PopleftN
<1>6. curr = s[m + 2] /\ m + 2 \in 1 .. n
  BY <1>1, <1>4
<1>7. \A i \in 1 .. n : s[i] \in popped <=> i \in 2 .. m + 1
  <2> HIDE DEF walk
  <2>1. ASSUME NEW i \in 2 .. m + 1 PROVE s[i] \in popped
    <3>1. i - 1 \in 1 .. m /\ i - 1 \in 1 .. m + 1 /\ (i - 1) + 1 = i
      BY <1>1
    <3>2. walk[i - 1] = s[i]
      BY <3>1, <1>4
    <3> QED BY <3>1, <3>2
  <2>2. ASSUME NEW i \in 1 .. n, s[i] \in popped PROVE i \in 2 .. m + 1
    <3>1. PICK k \in 1 .. m : walk[k] = s[i]
      BY <2>2
    <3>2. k \in 1 .. m + 1 /\ k + 1 \in 1 .. n
      BY <1>1
    <3>3. s[k + 1] = s[i]
      BY <3>1, <3>2, <1>4
    <3> QED BY <3>2, <3>3, <1>1, <1>2
  <2> QED BY <2>1, <2>2
<1>8. \A x \in Nodes : x \in popped => \E i \in 2 .. m + 1 : s[i] = x
  <2> HIDE DEF walk
  <2> SUFFICES ASSUME NEW k \in 1 .. m PROVE \E i \in 2 .. m + 1 : s[i] = walk[k]
    OBVIOUS
  <2>1. k + 1 \in 2 .. m + 1 /\ k \in 1 .. m + 1
    BY <1>1
  <2> QED BY <2>1, <1>4
<1> HIDE DEF popped, walk, curr
<1>9. s2 \in [1 .. n - m -> Nodes] /\ s2[1] = Head_ /\ s2[n - m] = Tail_
  <2>1. \A i \in 1 .. n - m : s2[i] \in Nodes
    <3> SUFFICES ASSUME NEW i \in 1 .. n - m PROVE s2[i] \in Nodes
      OBVIOUS
    <3>1. i + m \in 1 .. n
      BY <1>1
    <3> QED BY <3>1, <1>2 DEF Nodes
  <2>2. n - m \in 1 .. n - m /\ n - m # 1 /\ (n - m) + m = n /\ 1 \in 1 .. n - m
    BY <1>1
  <2> QED BY <2>1, <2>2, <1>2
<1>10. \A i \in 2 .. n - m : s2[i] = s[i + m] /\ i + m \in m + 2 .. n
  BY <1>1
<1> HIDE DEF s2
<1>11. \A i, k \in 1 .. n - m : s2[i] = s2[k] => i = k
  BY <1>1, <1>2, <1>9, <1>10
<1>12. next'[Head_] = s[m + 2] /\ \A i \in 2 .. n : i >= m + 2 => next'[s[i]] = next[s[i]]
  BY <1>1, <1>2, <1>5, <1>6, <1>7 DEF Nodes
<1>13. prev'[s[m + 2]] = Head_ /\ \A i \in 1 .. n : i > m + 2 => prev'[s[i]] = prev[s[i]]
  BY <1>1, <1>2, <1>5, <1>6, <1>7
<1>14. ASSUME NEW i \in 1 .. (n - m) - 1
       PROVE  next'[s2[i]] = s2[i + 1] /\ prev'[s2[i + 1]] = s2[i]
  <2>1. CASE i = 1
    <3>1. 2 \in 2 .. n - m /\ 2 + m = m + 2
      BY <1>1
    <3> QED BY <2>1, <3>1, <1>9, <1>10, <1>12, <1>13
  <2>2. CASE i # 1
    <3>1. i \in 2 .. n - m /\ i + 1 \in 2 .. n - m /\ (i + 1) + m = (i + m) + 1
          /\ i + m \in 1 .. n - 1 /\ i + m >= m + 2 /\ (i + m) + 1 > m + 2
          /\ i + m \in 2 .. n /\ (i + m) + 1 \in 1 .. n
      BY <2>2, <1>1
    <3>2. s2[i] = s[i + m] /\ s2[i + 1] = s[(i + m) + 1]
      BY <3>1, <1>10
    <3>3. next[s[i + m]] = s[(i + m) + 1] /\ prev[s[(i + m) + 1]] = s[i + m]
      BY <3>1, <1>3
    <3>4. next'[s[i + m]] = next[s[i + m]] /\ prev'[s[(i + m) + 1]] = prev[s[(i + m) + 1]]
      BY <3>1, <1>12, <1>13
    <3> QED BY <3>2, <3>3, <3>4
  <2> QED BY <2>1, <2>2
<1>15. ASSUME NEW x \in Nodes, \A i \in 1 .. n - m : s2[i] # x
       PROVE  next'[x] = None /\ prev'[x] = None
  <2>1. \A i \in 1 .. n : s[i] = x => i \in 2 .. m + 1
    <3> SUFFICES ASSUME NEW i \in 1 .. n, s[i] = x, i \notin 2 .. m + 1 PROVE FALSE
      OBVIOUS
    <3>1. CASE i = 1
      BY <3>1, <1>1, <1>2, <1>9, <1>15
    <3>2. CASE i # 1
      <4>1. i - m \in 2 .. n - m /\ (i - m) + m = i /\ i - m \in 1 .. n - m
        BY <3>2, <1>1
      <4> QED BY <4>1, <1>10, <1>15
    <3> QED BY <3>1, <3>2
  <2>2. x # Head_ /\ x # curr
    BY <1>1, <1>2, <1>6, <2>1
  <2>3. CASE x \in popped
    BY <2>2, <2>3, <1>5
  <2>4. CASE x \notin popped
    <3>1. \A i \in 1 .. n : s[i] # x
      BY <2>1, <2>4, <1>7
    <3> QED BY <2>2, <2>4, <3>1, <1>3, <1>5
  <2> QED BY <2>3, <2>4
<1>16. next'[Tail_] = None /\ prev'[Head_] = None
  <2>1. n >= m + 2 /\ n \in 2 .. n
    BY <1>1
  <2>2. next'[Tail_] = None
    BY <2>1, <1>2, <1>3, <1>12
  <2>3. Head_ # curr /\ Head_ \notin popped
    <3>1. 1 \in 1 .. n /\ 1 \notin 2 .. m + 1 /\ m + 2 # 1
      BY <1>1
    <3> QED BY <3>1, <1>2, <1>6, <1>7
  <2>4. prev'[Head_] = None
    BY <2>3, <1>3, <1>5 DEF Nodes
  <2> QED BY <2>2, <2>4
<1>17. next' \in [Nodes -> Nodes \cup {None}] /\ prev' \in [Nodes -> Nodes \cup {None}]
  BY <1>2, <1>5, <1>6 DEF Nodes
<1>18. num_free_blocks' = (n - m) - 2
  BY <1>1, <1>5 DEF IsList
<1>19. IsList(n - m, s2)'
  BY <1>1, <1>9, <1>11, <1>14, <1>15, <1>16, <1>17, <1>18 DEF IsList
<1> QED BY <1>1, <1>19 DEF s2

\* remove: a linked block is taken out of the middle.
LEMMA RemoveList ==
  ASSUME NEW n \in Nat, NEW s \in [1 .. n -> Nodes], IsList(n, s),
         NEW b \in Blocks, RemoveBlock(b)
  PROVE  \E k \in 2 .. n - 1 :
            s[k] = b /\ IsList(n - 1, [i \in 1 .. n - 1 |-> IF i < k THEN s[i] ELSE s[i + 1]])'
<1>1. n \in Nat /\ n >= 2
  BY DEF IsList
<1>2. /\ next \in [Nodes -> Nodes \cup {None}] /\ prev \in [Nodes -> Nodes \cup {None}]
      /\ s[1] = Head_ /\ s[n] = Tail_
      /\ \A i, k \in 1 .. n : s[i] = s[k] => i = k
      /\ \A i \in 1 .. n : s[i] \in Nodes
  BY DEF IsList
<1>3. /\ next[Tail_] = None /\ prev[Head_] = None
      /\ \A i \in 1 .. n - 1 : next[s[i]] = s[i + 1] /\ prev[s[i + 1]] = s[i]
      /\ \A x \in Nodes : (\A i \in 1 .. n : s[i] # x) => next[x] = None /\ prev[x] = None
  BY DEF IsList
<1>4. PICK k \in 2 .. n - 1 : s[k] = b
  <2>1. PICK i \in 1 .. n - 2 : b = s[i + 1]
    BY FreeOnList DEF RemoveBlock
  <2>2. i + 1 \in 2 .. n - 1
    BY <1>1
  <2> QED BY <2>1, <2>2
<1> DEFINE s2 == [i \in 1 .. n - 1 |-> IF i < k THEN s[i] ELSE s[i + 1]]
<1>5. /\ k - 1 \in 1 .. n - 1 /\ (k - 1) + 1 = k /\ k \in 1 .. n - 1 /\ k - 1 \in 1 .. n
      /\ k \in 1 .. n /\ k + 1 \in 1 .. n /\ n - 1 \in Nat /\ n - 1 >= 2
  BY <1>1
<1>6. next[b] = s[k + 1] /\ prev[b] = s[k - 1]
  BY <1>3, <1>4, <1>5
<1>7. /\ next' = [next EXCEPT ![s[k - 1]] = s[k + 1], ![s[k]] = None]
      /\ prev' = [prev EXCEPT ![s[k + 1]] = s[k - 1], ![s[k]] = None]
      /\ num_free_blocks' = num_free_blocks - 1
  BY <1>4, <1>6 DEF RemoveBlock
<1>8. /\ next' \in [Nodes -> Nodes \cup {None}] /\ prev' \in [Nodes -> Nodes \cup {None}]
      /\ next'[s[k - 1]] = s[k + 1] /\ next'[s[k]] = None
      /\ \A x \in Nodes : x # s[k - 1] /\ x # s[k] => next'[x] = next[x]
      /\ prev'[s[k + 1]] = s[k - 1] /\ prev'[s[k]] = None
      /\ \A x \in Nodes : x # s[k + 1] /\ x # s[k] => prev'[x] = prev[x]
  <2>1. s[k - 1] \in Nodes /\ s[k] \in Nodes /\ s[k + 1] \in Nodes
    BY <1>2, <1>5
  <2>2. s[k - 1] # s[k] /\ s[k + 1] # s[k]
    BY <1>2, <1>5
  <2> QED BY <2>1, <2>2, <1>2, <1>7
<1>9. /\ \A i \in 1 .. k - 1 : s2[i] = s[i] /\ i \in 1 .. n
      /\ \A i \in k .. n - 1 : s2[i] = s[i + 1] /\ i + 1 \in 1 .. n
  BY <1>1
<1>10. s2 \in [1 .. n - 1 -> Nodes]
  <2>1. \A i \in 1 .. n - 1 : i + 1 \in 1 .. n /\ i \in 1 .. n
    BY <1>1
  <2> QED BY <2>1, <1>2
<1> HIDE DEF s2
<1>11. s2[1] = Head_ /\ s2[n - 1] = Tail_
  <2>1. 1 \in 1 .. k - 1 /\ n - 1 \in k .. n - 1 /\ (n - 1) + 1 = n
    BY <1>5
  <2> QED BY <2>1, <1>2, <1>9
<1>12. \A i, j \in 1 .. n - 1 : s2[i] = s2[j] => i = j
  <2> SUFFICES ASSUME NEW i \in 1 .. n - 1, NEW j \in 1 .. n - 1, s2[i] = s2[j] PROVE i = j
    OBVIOUS
  <2> DEFINE up(l) == IF l < k THEN l ELSE l + 1
  <2>1. \A l \in 1 .. n - 1 : s2[l] = s[up(l)] /\ up(l) \in 1 .. n
    BY <1>1, <1>9
  <2>2. up(i) = up(j)
    BY <2>1, <1>2
  <2> QED BY <2>2
<1>13. ASSUME NEW i \in 1 .. (n - 1) - 1
       PROVE  next'[s2[i]] = s2[i + 1] /\ prev'[s2[i + 1]] = s2[i]
  <2>1. CASE i + 1 < k
    <3>1. i \in 1 .. k - 1 /\ i + 1 \in 1 .. k - 1 /\ i \in 1 .. n - 1 /\ i \in 1 .. n /\ i + 1 \in 1 .. n
          /\ i # k - 1 /\ i # k /\ i + 1 # k + 1 /\ i + 1 # k
      BY <2>1, <1>5
    <3>2. s2[i] = s[i] /\ s2[i + 1] = s[i + 1]
      BY <3>1, <1>9
    <3>3. s[i] # s[k - 1] /\ s[i] # s[k] /\ s[i + 1] # s[k + 1] /\ s[i + 1] # s[k]
      BY <3>1, <1>5, <1>2
    <3> QED BY <3>1, <3>2, <3>3, <1>2, <1>3, <1>8
  <2>2. CASE i + 1 = k
    <3>1. i \in 1 .. k - 1 /\ i + 1 \in k .. n - 1 /\ i = k - 1
      BY <2>2, <1>5
    <3>2. s2[i] = s[k - 1] /\ s2[i + 1] = s[k + 1]
      BY <3>1, <2>2, <1>9
    <3> QED BY <3>2, <1>8
  <2>3. CASE i + 1 > k
    <3>1. i \in k .. n - 1 /\ i + 1 \in k .. n - 1 /\ i + 1 \in 1 .. n - 1
          /\ i + 1 \in 1 .. n /\ (i + 1) + 1 \in 1 .. n
          /\ i + 1 # k - 1 /\ i + 1 # k /\ (i + 1) + 1 # k + 1 /\ (i + 1) + 1 # k
      BY <2>3, <1>5
    <3>2. s2[i] = s[i + 1] /\ s2[i + 1] = s[(i + 1) + 1]
      BY <3>1, <1>9
    <3>3. s[i + 1] # s[k - 1] /\ s[i + 1] # s[k]
          /\ s[(i + 1) + 1] # s[k + 1] /\ s[(i + 1) + 1] # s[k]
      BY <3>1, <1>5, <1>2
    <3> QED BY <3>1, <3>2, <3>3, <1>2, <1>3, <1>8
  <2> QED BY <2>1, <2>2, <2>3, <1>5
<1>14. ASSUME NEW x \in Nodes, \A i \in 1 .. n - 1 : s2[i] # x
       PROVE  next'[x] = None /\ prev'[x] = None
  <2>1. \A i \in 1 .. n : s[i] = x => i = k
    <3> SUFFICES ASSUME NEW i \in 1 .. n, i # k PROVE s[i] # x
      OBVIOUS
    <3>1. CASE i < k
      <4>1. i \in 1 .. k - 1 /\ i \in 1 .. n - 1
        BY <3>1, <1>5
      <4> QED BY <4>1, <1>9, <1>14
    <3>2. CASE i > k
      <4>1. i - 1 \in k .. n - 1 /\ (i - 1) + 1 = i /\ i - 1 \in 1 .. n - 1
        BY <3>2, <1>5
      <4> QED BY <4>1, <1>9, <1>14
    <3> QED BY <3>1, <3>2, <1>5
  <2>2. x # s[k - 1] /\ x # s[k + 1]
    BY <2>1, <1>5
  <2>3. CASE x = s[k]
    BY <2>3, <1>8
  <2>4. CASE x # s[k]
    <3>1. \A i \in 1 .. n : s[i] # x
      BY <2>1, <2>4
    <3> QED BY <2>2, <2>4, <3>1, <1>3, <1>8
  <2> QED BY <2>3, <2>4
<1>15. next'[Tail_] = None /\ prev'[Head_] = None
  <2>1. n \in 1 .. n /\ 1 \in 1 .. n /\ n # k - 1 /\ n # k /\ 1 # k + 1 /\ 1 # k
    BY <1>5
  <2>2. s[n] # s[k - 1] /\ s[n] # s[k] /\ s[1] # s[k + 1] /\ s[1] # s[k]
    BY <2>1, <1>2, <1>5
  <2> QED BY <2>1, <2>2, <1>2, <1>3, <1>8
<1>16. num_free_blocks' = (n - 1) - 2
  BY <1>1, <1>7 DEF IsList
<1>17. IsList(n - 1, s2)'
  BY <1>5, <1>8, <1>10, <1>11, <1>12, <1>13, <1>14, <1>15, <1>16 DEF IsList
<1> QED BY <1>4, <1>17 DEF s2

\* What a caller gives back is none of the list.
LEMMA ReturnsOffList ==
  ASSUME NEW n \in Nat, NEW s \in [1 .. n -> Nodes], IsList(n, s), NEW t \in Returns
  PROVE  /\ t \in Seq(Nodes) /\ t \in Seq(Blocks) /\ Len(t) \in Nat /\ Len(t) > 0
         /\ \A i, k \in 1 .. Len(t) : t[i] = t[k] => i = k
         /\ \A i \in 1 .. Len(t) : t[i] \in Nodes /\ \A k \in 1 .. n : t[i] # s[k]
<1> DEFINE S == {b \in Blocks : ~ Free(b)}
<1>1. S \in SUBSET Blocks /\ IsFiniteSet(S)
  BY BlocksAssumption, FS_Subset
<1>2. Cardinality(S) \in Nat
  BY <1>1, FS_CardinalityType
<1>3. t \in UNION {[1 .. k -> S] : k \in 1 .. Cardinality(S)} /\ IsInjective(t)
  BY <1>1 DEF Returns, Arrangements
<1>4. PICK k \in 1 .. Cardinality(S) : t \in [1 .. k -> S]
  BY <1>3
<1>5. k \in Nat /\ k > 0
  BY <1>2
<1>6. ASSUME NEW b \in S, NEW i \in 1 .. n PROVE b # s[i]
  <2>1. CASE i = 1 \/ i = n
    BY <2>1, FakesAssumption DEF IsList
  <2>2. CASE i # 1 /\ i # n
    <3>1. i - 1 \in 1 .. n - 2 /\ (i - 1) + 1 = i
      BY <2>2 DEF IsList
    <3>2. Free(s[i])
      BY <3>1, FreeOnList
    <3> QED BY <3>2
  <2> QED BY <2>1, <2>2
<1> HIDE DEF S
<1>7. t \in Seq(Nodes) /\ t \in Seq(Blocks) /\ Len(t) = k
  BY <1>1, <1>4, <1>5 DEF Nodes
<1>8. \A i \in 1 .. Len(t) : t[i] \in S
  BY <1>4, <1>7
<1>9. \A i, j \in 1 .. Len(t) : t[i] = t[j] => i = j
  BY <1>3, <1>4, <1>7 DEF IsInjective
<1> QED BY <1>1, <1>5, <1>6, <1>7, <1>8, <1>9 DEF Nodes

\* append_n: the blocks given back follow the last of the list.
LEMMA AppendList ==
  ASSUME NEW n \in Nat, NEW s \in [1 .. n -> Nodes], IsList(n, s),
         NEW t \in Returns, AppendN(t)
  PROVE  IsList(n + Len(t), [i \in 1 .. n + Len(t) |->
            IF i < n THEN s[i] ELSE IF i < n + Len(t) THEN t[i - n + 1] ELSE Tail_])'
<1> DEFINE k == Len(t)
           n2 == n + k
           s2 == [i \in 1 .. n + k |-> IF i < n THEN s[i] ELSE IF i < n + k THEN t[i - n + 1] ELSE Tail_]
           u == <<prev[Tail_]>> \o t \o <<Tail_>>
<1>1. /\ next \in [Nodes -> Nodes \cup {None}] /\ prev \in [Nodes -> Nodes \cup {None}]
      /\ s[1] = Head_ /\ s[n] = Tail_ /\ n >= 2
      /\ \A i, j \in 1 .. n : s[i] = s[j] => i = j
      /\ \A i \in 1 .. n : s[i] \in Nodes
  BY DEF IsList
<1>2. /\ next[Tail_] = None /\ prev[Head_] = None
      /\ \A i \in 1 .. n - 1 : next[s[i]] = s[i + 1] /\ prev[s[i + 1]] = s[i]
      /\ \A x \in Nodes : (\A i \in 1 .. n : s[i] # x) => next[x] = None /\ prev[x] = None
  BY DEF IsList
<1>3. /\ t \in Seq(Nodes) /\ k \in Nat /\ k > 0
      /\ \A i, j \in 1 .. k : t[i] = t[j] => i = j
      /\ \A i \in 1 .. k : t[i] \in Nodes /\ \A j \in 1 .. n : t[i] # s[j]
  BY ReturnsOffList
<1>4. prev[Tail_] = s[n - 1] /\ s[n - 1] \in Nodes /\ Tail_ \in Nodes
  <2>1. n - 1 \in 1 .. n - 1 /\ (n - 1) + 1 = n /\ n - 1 \in 1 .. n /\ n \in 1 .. n
    BY <1>1
  <2> QED BY <2>1, <1>1, <1>2
<1>5. next' = NextAlong(u, next) /\ prev' = PrevAlong(u, prev) /\ num_free_blocks' = n2 - 2
  BY <1>3 DEF AppendN, IsList
<1>6. /\ u \in Seq(Nodes) /\ Len(u) = k + 2 /\ u[1] = s[n - 1] /\ u[k + 2] = Tail_
      /\ \A i \in 1 .. k : u[i + 1] = t[i]
  BY <1>3, <1>4, Between
<1> HIDE DEF k, u
<1>7. /\ \A i \in 1 .. n - 1 : s2[i] = s[i] /\ i \in 1 .. n
      /\ \A i \in n .. n2 - 1 : s2[i] = t[i - n + 1] /\ i - n + 1 \in 1 .. k
      /\ s2[n2] = Tail_
  BY <1>1, <1>3
<1>8. s2 \in [1 .. n2 -> Nodes]
  <2>1. \A i \in 1 .. n2 : s2[i] \in Nodes
    BY <1>1, <1>3, <1>4
  <2> QED BY <2>1
<1> HIDE DEF s2
<1>9. \A i, j \in 1 .. n2 : s2[i] = s2[j] => i = j
  <2>1. \A i \in 1 .. n2 : i \in 1 .. n - 1 \/ i \in n .. n2 - 1 \/ i = n2
    BY <1>1, <1>3
  <2>2. \A i, j \in 1 .. n - 1 : s2[i] = s2[j] => i = j
    BY <1>1, <1>7
  <2>3. \A i, j \in n .. n2 - 1 : s2[i] = s2[j] => i = j
    <3> SUFFICES ASSUME NEW i \in n .. n2 - 1, NEW j \in n .. n2 - 1, s2[i] = s2[j] PROVE i = j
      OBVIOUS
    <3>1. i - n + 1 = j - n + 1
      BY <1>3, <1>7
    <3> QED BY <3>1
  <2>4. \A i \in 1 .. n - 1, j \in n .. n2 - 1 : s2[i] # s2[j]
    BY <1>3, <1>7
  <2>5. \A i \in 1 .. n - 1 : s2[i] # s2[n2]
    <3>1. n \in 1 .. n /\ \A i \in 1 .. n - 1 : i # n
      BY <1>1
    <3> QED BY <3>1, <1>1, <1>7
  <2>6. \A i \in n .. n2 - 1 : s2[i] # s2[n2]
    <3>1. n \in 1 .. n
      BY <1>1
    <3> QED BY <3>1, <1>1, <1>3, <1>7
  <2> QED BY <2>1, <2>2, <2>3, <2>4, <2>5, <2>6
<1>10. \A i \in 1 .. Len(u) : u[i] = s2[(n - 2) + i]
  <2> SUFFICES ASSUME NEW i \in 1 .. k + 2 PROVE u[i] = s2[(n - 2) + i]
    BY <1>6
  <2>1. CASE i = 1
    <3>1. (n - 2) + i = n - 1 /\ n - 1 \in 1 .. n - 1
      BY <2>1, <1>1
    <3> QED BY <2>1, <3>1, <1>6, <1>7
  <2>2. CASE i = k + 2
    <3>1. (n - 2) + i = n2
      BY <2>2, <1>1, <1>3
    <3> QED BY <2>2, <3>1, <1>6, <1>7
  <2>3. CASE i \in 2 .. k + 1
    <3>1. /\ i - 1 \in 1 .. k /\ (i - 1) + 1 = i
          /\ (n - 2) + i \in n .. n2 - 1 /\ ((n - 2) + i) - n + 1 = i - 1
      BY <2>3, <1>1, <1>3
    <3>2. u[i] = t[i - 1]
      BY <3>1, <1>6
    <3>3. s2[(n - 2) + i] = t[i - 1]
      BY <3>1, <1>7
    <3> QED BY <3>2, <3>3
  <2> QED BY <2>1, <2>2, <2>3, <1>3
<1>11. ASSUME NEW i \in 1 .. n2 - 1, i <= n - 2 \/ i >= (n - 2) + Len(u)
       PROVE  next[s2[i]] = s2[i + 1] /\ prev[s2[i + 1]] = s2[i]
  <2>1. i \in 1 .. n - 1 /\ i + 1 \in 1 .. n - 1
    BY <1>1, <1>3, <1>6, <1>11
  <2> QED BY <2>1, <1>2, <1>7
<1>12. ASSUME NEW x \in Nodes, \A i \in 1 .. n2 : s2[i] # x
       PROVE  next[x] = None /\ prev[x] = None
  <2>1. \A i \in 1 .. n : s[i] # x
    <3> SUFFICES ASSUME NEW i \in 1 .. n PROVE s[i] # x
      OBVIOUS
    <3>1. CASE i < n
      <4>1. i \in 1 .. n - 1 /\ i \in 1 .. n2
        BY <3>1, <1>3
      <4> QED BY <4>1, <1>7, <1>12
    <3>2. CASE i = n
      <4>1. n2 \in 1 .. n2
        BY <1>1, <1>3
      <4> QED BY <4>1, <3>2, <1>1, <1>7, <1>12
    <3> QED BY <3>1, <3>2
  <2> QED BY <2>1, <1>2
<1>13. s2[1] = Head_
  <2>1. 1 \in 1 .. n - 1
    BY <1>1
  <2> QED BY <2>1, <1>1, <1>7
<1>14. n2 \in Nat /\ n2 >= 2 /\ n - 2 \in Nat /\ (n - 2) + Len(u) <= n2 /\ Len(u) >= 2
  BY <1>1, <1>3, <1>6
<1>15. Splice(n2, s2, u, n - 2)
  <2> HIDE DEF n2
  <2> QED BY <1>1, <1>2, <1>6, <1>7, <1>8, <1>9, <1>10, <1>11, <1>12, <1>13, <1>14 DEF Splice
<1>16. IsList(n2, s2)'
  BY <1>5, <1>15, Spliced
<1> QED BY <1>16 DEF s2, k

\* prepend_n: the blocks given back come before the first of the list.
LEMMA PrependList ==
  ASSUME NEW n \in Nat, NEW s \in [1 .. n -> Nodes], IsList(n, s),
         NEW t \in Returns, PrependN(t)
  PROVE  IsList(n + Len(t), [i \in 1 .. n + Len(t) |->
            IF i = 1 THEN Head_ ELSE IF i <= Len(t) + 1 THEN t[i - 1] ELSE s[i - Len(t)]])'
<1> DEFINE k == Len(t)
           n2 == n + k
           s2 == [i \in 1 .. n + k |-> IF i = 1 THEN Head_ ELSE IF i <= k + 1 THEN t[i - 1] ELSE s[i - k]]
           u == <<Head_>> \o t \o <<next[Head_]>>
<1>1. /\ next \in [Nodes -> Nodes \cup {None}] /\ prev \in [Nodes -> Nodes \cup {None}]
      /\ s[1] = Head_ /\ s[n] = Tail_ /\ n >= 2
      /\ \A i, j \in 1 .. n : s[i] = s[j] => i = j
      /\ \A i \in 1 .. n : s[i] \in Nodes
  BY DEF IsList
<1>2. /\ next[Tail_] = None /\ prev[Head_] = None
      /\ \A i \in 1 .. n - 1 : next[s[i]] = s[i + 1] /\ prev[s[i + 1]] = s[i]
      /\ \A x \in Nodes : (\A i \in 1 .. n : s[i] # x) => next[x] = None /\ prev[x] = None
  BY DEF IsList
<1>3. /\ t \in Seq(Nodes) /\ k \in Nat /\ k > 0
      /\ \A i, j \in 1 .. k : t[i] = t[j] => i = j
      /\ \A i \in 1 .. k : t[i] \in Nodes /\ \A j \in 1 .. n : t[i] # s[j]
  BY ReturnsOffList
<1>4. next[Head_] = s[2] /\ s[2] \in Nodes /\ Head_ \in Nodes
  <2>1. 1 \in 1 .. n - 1 /\ 1 + 1 = 2 /\ 1 \in 1 .. n /\ 2 \in 1 .. n
    BY <1>1
  <2> QED BY <2>1, <1>1, <1>2
<1>5. next' = NextAlong(u, next) /\ prev' = PrevAlong(u, prev) /\ num_free_blocks' = n2 - 2
  BY <1>3 DEF PrependN, IsList
<1>6. /\ u \in Seq(Nodes) /\ Len(u) = k + 2 /\ u[1] = Head_ /\ u[k + 2] = s[2]
      /\ \A i \in 1 .. k : u[i + 1] = t[i]
  BY <1>3, <1>4, Between
<1> HIDE DEF k, u
<1>7. /\ s2[1] = Head_
      /\ \A i \in 2 .. k + 1 : s2[i] = t[i - 1] /\ i - 1 \in 1 .. k
      /\ \A i \in k + 2 .. n2 : s2[i] = s[i - k] /\ i - k \in 2 .. n
  BY <1>1, <1>3
<1>8. s2 \in [1 .. n2 -> Nodes]
  <2>1. \A i \in 1 .. n2 : s2[i] \in Nodes
    BY <1>1, <1>3, <1>4
  <2> QED BY <2>1
<1> HIDE DEF s2
<1>9. \A i, j \in 1 .. n2 : s2[i] = s2[j] => i = j
  <2>1. \A i \in 1 .. n2 : i = 1 \/ i \in 2 .. k + 1 \/ i \in k + 2 .. n2
    BY <1>1, <1>3
  <2>2. \A i, j \in k + 2 .. n2 : s2[i] = s2[j] => i = j
    <3> SUFFICES ASSUME NEW i \in k + 2 .. n2, NEW j \in k + 2 .. n2, s2[i] = s2[j] PROVE i = j
      OBVIOUS
    <3>1. i - k = j - k
      BY <1>1, <1>7
    <3> QED BY <3>1, <1>3
  <2>3. \A i, j \in 2 .. k + 1 : s2[i] = s2[j] => i = j
    <3> SUFFICES ASSUME NEW i \in 2 .. k + 1, NEW j \in 2 .. k + 1, s2[i] = s2[j] PROVE i = j
      OBVIOUS
    <3>1. i - 1 = j - 1
      BY <1>3, <1>7
    <3> QED BY <3>1, <1>3
  <2>4. \A i \in 2 .. k + 1, j \in k + 2 .. n2 : s2[i] # s2[j]
    BY <1>1, <1>3, <1>7
  <2>5. \A i \in 2 .. k + 1 : s2[i] # s2[1]
    <3>1. 1 \in 1 .. n
      BY <1>1
    <3> QED BY <3>1, <1>1, <1>3, <1>7
  <2>6. \A i \in k + 2 .. n2 : s2[i] # s2[1]
    <3>1. 1 \in 1 .. n /\ \A i \in k + 2 .. n2 : i - k # 1
      BY <1>1, <1>3
    <3> QED BY <3>1, <1>1, <1>7
  <2> QED BY <2>1, <2>2, <2>3, <2>4, <2>5, <2>6
<1>10. \A i \in 1 .. Len(u) : u[i] = s2[0 + i]
  <2> SUFFICES ASSUME NEW i \in 1 .. k + 2 PROVE u[i] = s2[i]
    BY <1>6, <1>3
  <2>1. CASE i = 1
    BY <2>1, <1>6, <1>7
  <2>2. CASE i = k + 2
    <3>1. k + 2 \in k + 2 .. n2 /\ (k + 2) - k = 2
      BY <1>1, <1>3
    <3> QED BY <2>2, <3>1, <1>6, <1>7
  <2>3. CASE i \in 2 .. k + 1
    <3>1. i - 1 \in 1 .. k /\ (i - 1) + 1 = i
      BY <2>3, <1>3
    <3>2. u[i] = t[i - 1]
      BY <3>1, <1>6
    <3> QED BY <2>3, <3>2, <1>7
  <2> QED BY <2>1, <2>2, <2>3, <1>3
<1>11. ASSUME NEW i \in 1 .. n2 - 1, i <= 0 \/ i >= 0 + Len(u)
       PROVE  next[s2[i]] = s2[i + 1] /\ prev[s2[i + 1]] = s2[i]
  <2>1. /\ i \in k + 2 .. n2 /\ i + 1 \in k + 2 .. n2 /\ (i + 1) - k = (i - k) + 1
        /\ i - k \in 1 .. n - 1
    BY <1>1, <1>3, <1>6, <1>11
  <2>2. s2[i] = s[i - k] /\ s2[i + 1] = s[(i - k) + 1]
    BY <2>1, <1>7
  <2> QED BY <2>1, <2>2, <1>2
<1>12. ASSUME NEW x \in Nodes, \A i \in 1 .. n2 : s2[i] # x
       PROVE  next[x] = None /\ prev[x] = None
  <2>1. \A i \in 1 .. n : s[i] # x
    <3> SUFFICES ASSUME NEW i \in 1 .. n PROVE s[i] # x
      OBVIOUS
    <3>1. CASE i > 1
      <4>1. i + k \in k + 2 .. n2 /\ (i + k) - k = i /\ i + k \in 1 .. n2
        BY <3>1, <1>3
      <4> QED BY <4>1, <1>7, <1>12
    <3>2. CASE i = 1
      <4>1. 1 \in 1 .. n2
        BY <1>1, <1>3
      <4> QED BY <4>1, <3>2, <1>1, <1>7, <1>12
    <3> QED BY <3>1, <3>2
  <2> QED BY <2>1, <1>2
<1>13. s2[n2] = Tail_
  <2>1. n2 \in k + 2 .. n2 /\ n2 - k = n
    BY <1>1, <1>3
  <2> QED BY <2>1, <1>1, <1>7
<1>14. n2 \in Nat /\ n2 >= 2 /\ 0 + Len(u) <= n2 /\ Len(u) >= 2
  BY <1>1, <1>3, <1>6
<1>15. Splice(n2, s2, u, 0)
  <2> HIDE DEF n2
  <2> QED BY <1>1, <1>2, <1>6, <1>7, <1>8, <1>9, <1>10, <1>11, <1>12, <1>13, <1>14 DEF Splice
<1>16. IsList(n2, s2)'
  BY <1>5, <1>15, Spliced
<1> QED BY <1>16 DEF s2, k

-----------------------------------------------------------------------------
(* The steps of the abstract queue.                                        *)

LEMMA AllOfAnyList ==
  \A n \in Nat : \A s \in [1 .. n -> Nodes] :
     IsList(n, s) => get_all_free_blocks = [k \in 1 .. n - 2 |-> s[k + 1]]
BY AllOfList

LEMMA AllOfNextList ==
  \A n \in Nat : \A s \in [1 .. n -> Nodes] :
     IsList(n, s)' => get_all_free_blocks' = [k \in 1 .. n - 2 |-> s[k + 1]]
<1>1. (\A n \in Nat : \A s \in [1 .. n -> Nodes] :
          IsList(n, s) => get_all_free_blocks = [k \in 1 .. n - 2 |-> s[k + 1]])'
  BY AllOfAnyList, PTL
<1> QED BY <1>1

\* The blocks of a list in their order are a sequence.
LEMMA BlocksOfList ==
  ASSUME NEW n \in Nat, n >= 2, NEW s \in [1 .. n -> Nodes], NEW q, q = [k \in 1 .. n - 2 |-> s[k + 1]]
  PROVE  q \in Seq(Nodes) /\ Len(q) = n - 2 /\ \A k \in 1 .. n - 2 : q[k] = s[k + 1]
<1>1. n - 2 \in Nat /\ \A k \in 1 .. n - 2 : s[k + 1] \in Nodes
  OBVIOUS
<1> QED BY <1>1

LEMMA TakeStep ==
  ASSUME NEW n \in Nat, NEW s \in [1 .. n -> Nodes], IsList(n, s),
         NEW m \in 1 .. num_free_blocks, PopleftN(m)
  PROVE  Queue!Take(m) /\ Queue!Counted
<1> DEFINE q == [k \in 1 .. n - 2 |-> s[k + 1]]
           s2 == [i \in 1 .. n - m |-> IF i = 1 THEN Head_ ELSE s[i + m]]
           q2 == [k \in 1 .. (n - m) - 2 |-> s2[k + 1]]
           r == SubSeq(q, m + 1, n - 2)
<1>1. m \in Nat /\ m > 0 /\ m <= n - 2 /\ n - m \in Nat /\ n - m >= 2 /\ n >= 2
      /\ num_free_blocks = n - 2 /\ num_free_blocks' = num_free_blocks - m
  BY DEF IsList, PopleftN
<1>2. IsList(n - m, s2)' /\ s2 \in [1 .. n - m -> Nodes]
  <2>1. IsList(n - m, s2)'
    BY PopleftList
  <2> HIDE DEF s2
  <2> QED BY <2>1 DEF IsList
<1>3. get_all_free_blocks = q
  BY AllOfList
<1> HIDE DEF s2
<1>4. get_all_free_blocks' = q2
  BY <1>1, <1>2, AllOfNextList
<1>5. q \in Seq(Nodes) /\ Len(q) = n - 2 /\ \A k \in 1 .. n - 2 : q[k] = s[k + 1]
  BY <1>1, BlocksOfList
<1>6. q2 \in Seq(Nodes) /\ Len(q2) = (n - m) - 2 /\ \A k \in 1 .. (n - m) - 2 : q2[k] = s2[k + 1]
  BY <1>1, <1>2, BlocksOfList
<1> HIDE DEF q, q2
<1>7. /\ r \in Seq(Nodes) /\ Len(r) = (n - m) - 2
      /\ \A k \in 1 .. (n - m) - 2 : r[k] = q[m + k]
  <2>1. \A k \in m + 1 .. n - 2 : q[k] \in Nodes
    BY <1>1, <1>5
  <2>2. /\ r \in Seq(Nodes)
        /\ Len(r) = IF m + 1 <= n - 2 THEN n - 2 - (m + 1) + 1 ELSE 0
        /\ \A k \in 1 .. n - 2 - (m + 1) + 1 : r[k] = q[m + 1 + k - 1]
    BY <1>1, <2>1, SubSeqProperties
  <2> HIDE DEF r
  <2> QED BY <2>2, <1>1
<1> HIDE DEF r
<1>8. \A k \in 1 .. (n - m) - 2 : r[k] = q2[k]
  <2> SUFFICES ASSUME NEW k \in 1 .. (n - m) - 2 PROVE r[k] = q2[k]
    OBVIOUS
  <2>1. m + k \in 1 .. n - 2 /\ (m + k) + 1 = (k + 1) + m /\ k + 1 \in 1 .. n - m /\ k + 1 # 1
    BY <1>1
  <2>2. r[k] = s[(m + k) + 1]
    BY <2>1, <1>5, <1>7
  <2>3. q2[k] = s[(k + 1) + m]
    BY <2>1, <1>6 DEF s2
  <2> QED BY <2>1, <2>2, <2>3
<1>9. q2 = r
  BY <1>6, <1>7, <1>8, SeqEqual
<1>10. Queue!Take(m)
  BY <1>3, <1>4, <1>5, <1>9 DEF Queue!Take, r
<1>11. Queue!Counted
  BY <1>1, <1>4, <1>6 DEF Queue!Counted
<1> QED BY <1>10, <1>11

LEMMA DropStep ==
  ASSUME NEW n \in Nat, NEW s \in [1 .. n -> Nodes], IsList(n, s),
         NEW b \in Blocks, RemoveBlock(b)
  PROVE  Queue!Drop(b) /\ Queue!Counted
<1> DEFINE q == [k \in 1 .. n - 2 |-> s[k + 1]]
<1>1. PICK p \in 2 .. n - 1 : s[p] = b /\ IsList(n - 1, [i \in 1 .. n - 1 |->
                                 IF i < p THEN s[i] ELSE s[i + 1]])'
  BY RemoveList
<1> DEFINE s2 == [i \in 1 .. n - 1 |-> IF i < p THEN s[i] ELSE s[i + 1]]
           q2 == [k \in 1 .. (n - 1) - 2 |-> s2[k + 1]]
           left == SubSeq(q, 1, p - 2)
           right == SubSeq(q, p, n - 2)
<1>2. n >= 2 /\ p \in Nat /\ p >= 2 /\ p <= n - 1 /\ n - 1 \in Nat /\ n - 1 >= 2
      /\ num_free_blocks' = num_free_blocks - 1 /\ num_free_blocks = n - 2
  BY DEF IsList, RemoveBlock
<1>3. IsList(n - 1, s2)' /\ s2 \in [1 .. n - 1 -> Nodes]
  BY <1>1 DEF IsList
<1>4. get_all_free_blocks = q
  BY AllOfList
<1> HIDE DEF s2
<1>5. get_all_free_blocks' = q2
  BY <1>2, <1>3, AllOfNextList
<1>6. q \in Seq(Nodes) /\ Len(q) = n - 2 /\ \A k \in 1 .. n - 2 : q[k] = s[k + 1]
  BY <1>2, BlocksOfList
<1>7. q2 \in Seq(Nodes) /\ Len(q2) = (n - 1) - 2 /\ \A k \in 1 .. (n - 1) - 2 : q2[k] = s2[k + 1]
  BY <1>2, <1>3, BlocksOfList
<1> HIDE DEF q, q2
<1>8. \A k \in 1 .. n - 2 : q[k] \in Nodes
  BY <1>6
<1>9. left \in Seq(Nodes) /\ Len(left) = p - 2 /\ \A k \in 1 .. p - 2 : left[k] = q[k]
  <2>1. \A k \in 1 .. p - 2 : q[k] \in Nodes
    BY <1>2, <1>8
  <2>2. /\ left \in Seq(Nodes)
        /\ Len(left) = IF 1 <= p - 2 THEN p - 2 - 1 + 1 ELSE 0
        /\ \A k \in 1 .. p - 2 - 1 + 1 : left[k] = q[1 + k - 1]
    BY <1>2, <2>1, SubSeqProperties
  <2> HIDE DEF left
  <2> QED BY <2>2, <1>2
<1>10. right \in Seq(Nodes) /\ Len(right) = n - 1 - p /\ \A k \in 1 .. n - 1 - p : right[k] = q[p - 1 + k]
  <2>1. \A k \in p .. n - 2 : q[k] \in Nodes
    BY <1>2, <1>8
  <2>2. /\ right \in Seq(Nodes)
        /\ Len(right) = IF p <= n - 2 THEN n - 2 - p + 1 ELSE 0
        /\ \A k \in 1 .. n - 2 - p + 1 : right[k] = q[p + k - 1]
    BY <1>2, <2>1, SubSeqProperties
  <2> HIDE DEF right
  <2> QED BY <2>2, <1>2
<1> HIDE DEF left, right
<1>11. /\ left \o right \in Seq(Nodes) /\ Len(left \o right) = (n - 1) - 2
       /\ \A k \in 1 .. (n - 1) - 2 :
             (left \o right)[k] = IF k <= p - 2 THEN left[k] ELSE right[k - (p - 2)]
  <2>1. p - 2 \in Nat /\ n - 1 - p \in Nat /\ (p - 2) + (n - 1 - p) = (n - 1) - 2
    BY <1>2
  <2>2. /\ left \o right \in Seq(Nodes) /\ Len(left \o right) = (p - 2) + (n - 1 - p)
        /\ \A k \in 1 .. (p - 2) + (n - 1 - p) :
               (left \o right)[k] = IF k <= p - 2 THEN left[k] ELSE right[k - (p - 2)]
    <3>2. /\ left \o right \in Seq(Nodes) /\ Len(left \o right) = Len(left) + Len(right)
          /\ \A k \in 1 .. Len(left) + Len(right) :
                 (left \o right)[k] = IF k <= Len(left) THEN left[k] ELSE right[k - Len(left)]
      BY <1>9, <1>10, ConcatProperties
    <3>3. Len(left) = p - 2 /\ Len(right) = n - 1 - p
      BY <2>1, <1>9, <1>10
    <3> QED BY <3>2, <3>3
  <2> QED BY <2>1, <2>2
<1>12. \A k \in 1 .. (n - 1) - 2 : (left \o right)[k] = q2[k]
  <2> SUFFICES ASSUME NEW k \in 1 .. (n - 1) - 2 PROVE (left \o right)[k] = q2[k]
    OBVIOUS
  <2>1. k + 1 \in 1 .. n - 1 /\ k \in 1 .. n - 2 /\ k + 1 \in 1 .. n - 2
    BY <1>2
  <2>2. CASE k <= p - 2
    <3>1. k \in 1 .. p - 2 /\ k + 1 < p
      BY <2>2, <1>2
    <3>2. (left \o right)[k] = s[k + 1]
      BY <3>1, <2>1, <2>2, <1>6, <1>9, <1>11
    <3>3. q2[k] = s[k + 1]
      BY <3>1, <2>1, <1>7 DEF s2
    <3> QED BY <3>2, <3>3
  <2>3. CASE k > p - 2
    <3>1. /\ k - (p - 2) \in 1 .. n - 1 - p /\ (p - 1) + (k - (p - 2)) = k + 1
          /\ ~ (k + 1 < p) /\ ~ (k <= p - 2)
      BY <2>3, <1>2
    <3>2. (left \o right)[k] = s[(k + 1) + 1]
      BY <3>1, <2>1, <1>6, <1>10, <1>11
    <3>3. q2[k] = s[(k + 1) + 1]
      BY <3>1, <2>1, <1>7 DEF s2
    <3> QED BY <3>2, <3>3
  <2>4. k <= p - 2 \/ k > p - 2
    BY <1>2
  <2> QED BY <2>2, <2>3, <2>4
<1>13. q2 = left \o right
  BY <1>7, <1>11, <1>12, SeqEqual
<1>14. Queue!Drop(b)
  <2>1. p - 1 \in 1 .. n - 2 /\ (p - 1) + 1 = p /\ (p - 1) - 1 = p - 2
    BY <1>2
  <2>2. q[p - 1] = b
    BY <2>1, <1>1, <1>6
  <2>3. get_all_free_blocks' = SubSeq(q, 1, (p - 1) - 1) \o SubSeq(q, (p - 1) + 1, Len(q))
    BY <2>1, <1>5, <1>6, <1>13 DEF left, right
  <2> QED BY <2>1, <2>2, <2>3, <1>4, <1>6 DEF Queue!Drop
<1>15. Queue!Counted
  BY <1>2, <1>5, <1>7 DEF Queue!Counted
<1> QED BY <1>14, <1>15

LEMMA GiveBackStep ==
  ASSUME NEW n \in Nat, NEW s \in [1 .. n -> Nodes], IsList(n, s),
         NEW t \in Returns, AppendN(t)
  PROVE  Queue!GiveBack(t) /\ Queue!Counted
<1> DEFINE m == Len(t)
           q == [k \in 1 .. n - 2 |-> s[k + 1]]
           s2 == [i \in 1 .. n + m |->
                    IF i < n THEN s[i] ELSE IF i < n + m THEN t[i - n + 1] ELSE Tail_]
           q2 == [k \in 1 .. (n + m) - 2 |-> s2[k + 1]]
<1>1. t \in Seq(Nodes) /\ m \in Nat /\ m > 0
  BY ReturnsOffList
<1>2. n >= 2 /\ n + m \in Nat /\ n + m >= 2
      /\ num_free_blocks' = num_free_blocks + m /\ num_free_blocks = n - 2
  BY <1>1 DEF IsList, AppendN
<1>3. IsList(n + m, s2)' /\ s2 \in [1 .. n + m -> Nodes]
  <2>1. IsList(n + m, s2)'
    BY AppendList
  <2> HIDE DEF s2
  <2> QED BY <2>1 DEF IsList
<1>4. get_all_free_blocks = q
  BY AllOfList
<1> HIDE DEF s2, m
<1>5. get_all_free_blocks' = q2
  BY <1>2, <1>3, AllOfNextList
<1>6. q \in Seq(Nodes) /\ Len(q) = n - 2 /\ \A k \in 1 .. n - 2 : q[k] = s[k + 1]
  BY <1>2, BlocksOfList
<1>7. q2 \in Seq(Nodes) /\ Len(q2) = (n + m) - 2 /\ \A k \in 1 .. (n + m) - 2 : q2[k] = s2[k + 1]
  BY <1>2, <1>3, BlocksOfList
<1> HIDE DEF q, q2
<1>8. /\ q \o t \in Seq(Nodes) /\ Len(q \o t) = (n + m) - 2
      /\ \A k \in 1 .. (n + m) - 2 : (q \o t)[k] = IF k <= n - 2 THEN q[k] ELSE t[k - (n - 2)]
  <2>1. Len(t) = m /\ n - 2 \in Nat /\ (n - 2) + m = (n + m) - 2
    BY <1>1, <1>2 DEF m
  <2>2. /\ q \o t \in Seq(Nodes) /\ Len(q \o t) = (n - 2) + m
        /\ \A k \in 1 .. (n - 2) + m : (q \o t)[k] = IF k <= n - 2 THEN q[k] ELSE t[k - (n - 2)]
    <3>2. /\ q \o t \in Seq(Nodes) /\ Len(q \o t) = Len(q) + Len(t)
          /\ \A k \in 1 .. Len(q) + Len(t) :
                 (q \o t)[k] = IF k <= Len(q) THEN q[k] ELSE t[k - Len(q)]
      BY <1>1, <1>6, ConcatProperties
    <3>3. Len(q) = n - 2 /\ Len(t) = m
      BY <2>1, <1>1, <1>6
    <3> QED BY <3>2, <3>3
  <2> QED BY <2>1, <2>2
<1>9. \A k \in 1 .. (n + m) - 2 : (q \o t)[k] = q2[k]
  <2> SUFFICES ASSUME NEW k \in 1 .. (n + m) - 2 PROVE (q \o t)[k] = q2[k]
    OBVIOUS
  <2>1. k + 1 \in 1 .. n + m /\ k + 1 < n + m /\ (k + 1) - n + 1 = k - (n - 2)
        /\ (k <= n - 2 => k \in 1 .. n - 2) /\ ((k + 1 < n) = (k <= n - 2))
    BY <1>1, <1>2
  <2>2. q2[k] = IF k + 1 < n THEN s[k + 1] ELSE t[(k + 1) - n + 1]
    BY <2>1, <1>7 DEF s2
  <2> QED BY <2>1, <2>2, <1>6, <1>8
<1>10. q2 = q \o t
  BY <1>7, <1>8, <1>9, SeqEqual
<1>11. Queue!GiveBack(t)
  BY <1>4, <1>5, <1>10 DEF Queue!GiveBack
<1>12. Queue!Counted
  BY <1>1, <1>2, <1>5, <1>7 DEF Queue!Counted
<1> QED BY <1>11, <1>12

LEMMA PutFirstStep ==
  ASSUME NEW n \in Nat, NEW s \in [1 .. n -> Nodes], IsList(n, s),
         NEW t \in Returns, PrependN(t)
  PROVE  Queue!PutFirst(t) /\ Queue!Counted
<1> DEFINE m == Len(t)
           q == [k \in 1 .. n - 2 |-> s[k + 1]]
           s2 == [i \in 1 .. n + m |->
                    IF i = 1 THEN Head_ ELSE IF i <= m + 1 THEN t[i - 1] ELSE s[i - m]]
           q2 == [k \in 1 .. (n + m) - 2 |-> s2[k + 1]]
<1>1. t \in Seq(Nodes) /\ m \in Nat /\ m > 0
  BY ReturnsOffList
<1>2. n >= 2 /\ n + m \in Nat /\ n + m >= 2
      /\ num_free_blocks' = num_free_blocks + m /\ num_free_blocks = n - 2
  BY <1>1 DEF IsList, PrependN
<1>3. IsList(n + m, s2)' /\ s2 \in [1 .. n + m -> Nodes]
  <2>1. IsList(n + m, s2)'
    BY PrependList
  <2> HIDE DEF s2
  <2> QED BY <2>1 DEF IsList
<1>4. get_all_free_blocks = q
  BY AllOfList
<1> HIDE DEF s2, m
<1>5. get_all_free_blocks' = q2
  BY <1>2, <1>3, AllOfNextList
<1>6. q \in Seq(Nodes) /\ Len(q) = n - 2 /\ \A k \in 1 .. n - 2 : q[k] = s[k + 1]
  BY <1>2, BlocksOfList
<1>7. q2 \in Seq(Nodes) /\ Len(q2) = (n + m) - 2 /\ \A k \in 1 .. (n + m) - 2 : q2[k] = s2[k + 1]
  BY <1>2, <1>3, BlocksOfList
<1> HIDE DEF q, q2
<1>8. /\ t \o q \in Seq(Nodes) /\ Len(t \o q) = (n + m) - 2
      /\ \A k \in 1 .. (n + m) - 2 : (t \o q)[k] = IF k <= m THEN t[k] ELSE q[k - m]
  <2>1. Len(t) = m /\ n - 2 \in Nat /\ m + (n - 2) = (n + m) - 2
    BY <1>1, <1>2 DEF m
  <2>2. /\ t \o q \in Seq(Nodes) /\ Len(t \o q) = m + (n - 2)
        /\ \A k \in 1 .. m + (n - 2) : (t \o q)[k] = IF k <= m THEN t[k] ELSE q[k - m]
    <3>2. /\ t \o q \in Seq(Nodes) /\ Len(t \o q) = Len(t) + Len(q)
          /\ \A k \in 1 .. Len(t) + Len(q) :
                 (t \o q)[k] = IF k <= Len(t) THEN t[k] ELSE q[k - Len(t)]
      BY <1>1, <1>6, ConcatProperties
    <3>3. Len(t) = m /\ Len(q) = n - 2
      BY <2>1, <1>1, <1>6
    <3> QED BY <3>2, <3>3
  <2> QED BY <2>1, <2>2
<1>9. \A k \in 1 .. (n + m) - 2 : (t \o q)[k] = q2[k]
  <2> SUFFICES ASSUME NEW k \in 1 .. (n + m) - 2 PROVE (t \o q)[k] = q2[k]
    OBVIOUS
  <2>1. k + 1 \in 1 .. n + m /\ k + 1 # 1 /\ (k + 1) - 1 = k
        /\ (k + 1) - m = (k - m) + 1
        /\ (~ (k <= m) => k - m \in 1 .. n - 2) /\ ((k + 1 <= m + 1) = (k <= m))
    BY <1>1, <1>2
  <2>2. q2[k] = IF k + 1 <= m + 1 THEN t[(k + 1) - 1] ELSE s[(k + 1) - m]
    BY <2>1, <1>7 DEF s2
  <2> QED BY <2>1, <2>2, <1>6, <1>8
<1>10. q2 = t \o q
  BY <1>7, <1>8, <1>9, SeqEqual
<1>11. Queue!PutFirst(t)
  BY <1>4, <1>5, <1>10 DEF Queue!PutFirst
<1>12. Queue!Counted
  BY <1>1, <1>2, <1>5, <1>7 DEF Queue!Counted
<1> QED BY <1>11, <1>12

-----------------------------------------------------------------------------
(* The theorems.                                                           *)

LEMMA InitIInv == QueueInit => IInv
<1> SUFFICES ASSUME QueueInit PROVE IInv
  OBVIOUS
<1> DEFINE s == [i \in 1 .. N + 2 |-> IF i = 1 THEN Head_ ELSE IF i = N + 2 THEN Tail_ ELSE i - 1]
<1>1. IsList(N + 2, s)
  BY InitIsList
<1> HIDE DEF s
<1>2. N + 2 \in Nat /\ s \in [1 .. N + 2 -> Nodes]
  BY <1>1 DEF IsList
<1> QED BY <1>1, <1>2 DEF IInv

LEMMA NextIInv == IInv /\ [QueueNext]_queueVars => IInv'
<1> SUFFICES ASSUME IInv, [QueueNext]_queueVars PROVE IInv'
  OBVIOUS
<1>0. PICK n \in Nat : \E s \in [1 .. n -> Nodes] : IsList(n, s)
  BY DEF IInv
<1>1. PICK s \in [1 .. n -> Nodes] : IsList(n, s)
  BY <1>0
<1>2. ASSUME NEW m, NEW t, IsList(m, t)' PROVE IInv'
  <2>1. m \in Nat /\ t \in [1 .. m -> Nodes]
    BY <1>2 DEF IsList
  <2> QED BY <1>2, <2>1 DEF IInv
<1>3. ASSUME NEW m \in 1 .. num_free_blocks, PopleftN(m) PROVE IInv'
  <2> DEFINE s2 == [i \in 1 .. n - m |-> IF i = 1 THEN Head_ ELSE s[i + m]]
  <2>1. IsList(n - m, s2)'
    BY <1>1, <1>3, PopleftList
  <2> HIDE DEF s2
  <2> QED BY <2>1, <1>2
<1>4. ASSUME NEW b \in Blocks, RemoveBlock(b) PROVE IInv'
  <2>1. PICK k \in 2 .. n - 1 :
           IsList(n - 1, [i \in 1 .. n - 1 |-> IF i < k THEN s[i] ELSE s[i + 1]])'
    BY <1>1, <1>4, RemoveList
  <2> DEFINE s2 == [i \in 1 .. n - 1 |-> IF i < k THEN s[i] ELSE s[i + 1]]
  <2>2. IsList(n - 1, s2)'
    BY <2>1
  <2> HIDE DEF s2
  <2> QED BY <2>2, <1>2
<1>5. ASSUME NEW t \in Returns, AppendN(t) PROVE IInv'
  <2> DEFINE m == n + Len(t)
             s2 == [i \in 1 .. n + Len(t) |->
                      IF i < n THEN s[i] ELSE IF i < n + Len(t) THEN t[i - n + 1] ELSE Tail_]
  <2>1. IsList(m, s2)'
    BY <1>1, <1>5, AppendList
  <2> HIDE DEF s2, m
  <2> QED BY <2>1, <1>2
<1>6. ASSUME NEW t \in Returns, PrependN(t) PROVE IInv'
  <2> DEFINE m == n + Len(t)
             s2 == [i \in 1 .. n + Len(t) |->
                      IF i = 1 THEN Head_ ELSE IF i <= Len(t) + 1 THEN t[i - 1] ELSE s[i - Len(t)]]
  <2>1. IsList(m, s2)'
    BY <1>1, <1>6, PrependList
  <2> HIDE DEF s2, m
  <2> QED BY <2>1, <1>2
<1>7. CASE UNCHANGED queueVars
  <2>1. IsList(n, s)'
    BY <1>1, <1>7 DEF IsList, queueVars
  <2> QED BY <2>1, <1>2
<1> QED BY <1>3, <1>4, <1>5, <1>6, <1>7 DEF QueueNext

\* The links are always one list between the fakes.
THEOREM AlwaysAList == QueueSpec => []IInv
<1> QED BY InitIInv, NextIInv, PTL DEF QueueSpec

\* LinksConsistent for any number of blocks: both chains agree, a block out of
\* the list keeps no link, and the count is that of the linked blocks.
THEOREM LinksStayConsistent == QueueSpec => []LinksConsistent
<1>1. IInv => LinksConsistent
  <2> SUFFICES ASSUME IInv PROVE LinksConsistent
    OBVIOUS
  <2>1. PICK n \in Nat : \E s \in [1 .. n -> Nodes] : IsList(n, s)
    BY DEF IInv
  <2> QED BY <2>1, ListIsConsistent
<1> QED BY <1>1, AlwaysAList, PTL

\* IterationResumes for any number of blocks: a paused iteration goes on with
\* the rest of the eviction order.
THEOREM IterationAlwaysResumes == QueueSpec => []IterationResumes
<1>1. IInv => IterationResumes
  <2> SUFFICES ASSUME IInv PROVE IterationResumes
    OBVIOUS
  <2>1. PICK n \in Nat : \E s \in [1 .. n -> Nodes] : IsList(n, s)
    BY DEF IInv
  <2> QED BY <2>1, ListResumes
<1> QED BY <1>1, AlwaysAList, PTL

LEMMA InitQueue == QueueInit => Queue!Init
<1> SUFFICES ASSUME QueueInit PROVE Queue!Init
  OBVIOUS
<1> DEFINE s == [i \in 1 .. N + 2 |-> IF i = 1 THEN Head_ ELSE IF i = N + 2 THEN Tail_ ELSE i - 1]
<1>1. N \in Nat
  BY Counting
<1>2. \A k \in 1 .. N : s[k + 1] = k
  BY <1>1
<1>3. IsList(N + 2, s)
  BY InitIsList
<1> HIDE DEF s
<1>4. N + 2 \in Nat /\ s \in [1 .. N + 2 -> Nodes]
  BY <1>3 DEF IsList
<1>5. get_all_free_blocks = [k \in 1 .. (N + 2) - 2 |-> s[k + 1]]
  BY <1>3, <1>4, AllOfList
<1>6. get_all_free_blocks = [k \in 1 .. N |-> k]
  BY <1>1, <1>2, <1>5
<1>7. num_free_blocks = N
  BY DEF QueueInit, N
<1>8. get_all_free_blocks = [i \in 1 .. Cardinality(Blocks) |-> i]
  BY <1>6 DEF N
<1>9. num_free_blocks = Cardinality(Blocks)
  BY <1>7 DEF N
<1>10. Queue!Cardinality(Blocks) = Cardinality(Blocks)
  BY Zenon DEF Queue!Cardinality, Cardinality
<1> QED BY <1>8, <1>9, <1>10 DEF Queue!Init

\* What a call does to the eviction order, and to the count.
QueueStep ==
    /\ \/ \E n \in 1 .. num_free_blocks : PopleftN(n) /\ Queue!Take(n)
       \/ \E b \in Blocks : RemoveBlock(b) /\ Queue!Drop(b)
       \/ \E s \in Returns : \/ AppendN(s) /\ Queue!GiveBack(s)
                             \/ PrependN(s) /\ Queue!PutFirst(s)
    /\ Queue!Counted

LEMMA NextQueue == IInv /\ QueueNext => QueueStep
<1> SUFFICES ASSUME IInv, QueueNext PROVE QueueStep
  OBVIOUS
<1>0. PICK n \in Nat : \E s \in [1 .. n -> Nodes] : IsList(n, s)
  BY DEF IInv
<1>1. PICK s \in [1 .. n -> Nodes] : IsList(n, s)
  BY <1>0
<1>2. ASSUME NEW m \in 1 .. num_free_blocks, PopleftN(m) PROVE QueueStep
  <2>1. Queue!Take(m) /\ Queue!Counted
    BY <1>1, <1>2, TakeStep
  <2> QED BY <2>1, <1>2 DEF QueueStep
<1>3. ASSUME NEW b \in Blocks, RemoveBlock(b) PROVE QueueStep
  <2>1. Queue!Drop(b) /\ Queue!Counted
    BY <1>1, <1>3, DropStep
  <2> QED BY <2>1, <1>3 DEF QueueStep
<1>4. ASSUME NEW t \in Returns, AppendN(t) PROVE QueueStep
  <2>1. Queue!GiveBack(t) /\ Queue!Counted
    BY <1>1, <1>4, GiveBackStep
  <2> QED BY <2>1, <1>4 DEF QueueStep
<1>5. ASSUME NEW t \in Returns, PrependN(t) PROVE QueueStep
  <2>1. Queue!PutFirst(t) /\ Queue!Counted
    BY <1>1, <1>5, PutFirstStep
  <2> QED BY <2>1, <1>5 DEF QueueStep
<1> QED BY <1>2, <1>3, <1>4, <1>5 DEF QueueNext

\* The refinement, for any number of blocks: the linked list implements the
\* queue of FreeQueue, call by call.
THEOREM QueueIsImplemented == QueueSpec => ImplementsQueue
<1>1. IInv /\ [QueueNext]_queueVars => [QueueStep]_queueVars
  BY NextQueue
<1>2. QueueSpec => Queue!Init /\ [][QueueStep]_queueVars
  BY <1>1, InitQueue, AlwaysAList, PTL DEF QueueSpec
<1> QED BY <1>2 DEF ImplementsQueue, QueueStep

-----------------------------------------------------------------------------
(* BlockHasher.                                                            *)

HB == hash_block_size

-----------------------------------------------------------------------------
(* Numbers and sequences.                                                  *)

LEMMA Induction ==
  ASSUME NEW T \in SUBSET Nat, 0 \in T, \A n \in T : n + 1 \in T
  PROVE  T = Nat
<1> DEFINE Less == OpToRel(<, Nat)
<1> SUFFICES ASSUME Nat \ T # {} PROVE FALSE
  OBVIOUS
<1>1. IsWellFoundedOn(Less, Nat)
  BY NatLessThanWellFounded
<1>2. \A x, y \in Nat : x < y => <<x, y>> \in Less
  BY DEF OpToRel
<1> HIDE DEF Less
<1>3. PICK m \in Nat \ T : \A y \in Nat \ T : ~ (<<y, m>> \in Less)
  BY <1>1, WFMin
<1>4. m - 1 \in Nat /\ m - 1 < m
  BY <1>3
<1>5. m - 1 \in T
  BY <1>2, <1>3, <1>4
<1> QED BY <1>3, <1>4, <1>5

LEMMA Sizes == HB \in Nat /\ HB > 0
BY SizeAssumption DEF HB

LEMMA FullIs ==
  ASSUME NEW n \in Nat
  PROVE  /\ Full(n) \in Nat /\ Full(n) * HB <= n /\ n < Full(n) * HB + HB
BY Sizes DEF Full, HB

LEMMA FullGrows ==
  ASSUME NEW m \in Nat, NEW n \in Nat, m <= n
  PROVE  Full(m) <= Full(n)
<1>1. PICK a, b : a = Full(m) /\ b = Full(n)
  OBVIOUS
<1>2. /\ a \in Nat /\ a * HB <= m /\ m < a * HB + HB
      /\ b \in Nat /\ b * HB <= n /\ n < b * HB + HB
  BY <1>1, FullIs
<1> SUFFICES ASSUME b < a PROVE FALSE
  BY <1>1, <1>2
<1>3. (b + 1) * HB <= a * HB
  BY <1>2, Sizes
<1> QED BY <1>2, <1>3, Sizes

LEMMA LastIs == ASSUME NEW s PROVE Last(s) = s[Len(s)]
BY DEF Last

-----------------------------------------------------------------------------
(* The items of a request.                                                 *)

\* What a prompt's items are.
Items(mm) ==
    /\ Len(mm) \in Nat /\ mm \in [1 .. Len(mm) -> [id : DOMAIN ItemLength, offset : Nat]]
    /\ \A k \in 2 .. Len(mm) : EndOf(mm[k - 1]) <= mm[k].offset

LEMMA ItemIs ==
  ASSUME NEW mm, Items(mm), NEW k \in 1 .. Len(mm)
  PROVE  /\ mm[k].offset \in Nat /\ EndOf(mm[k]) \in Nat /\ mm[k].offset < EndOf(mm[k])
         /\ mm[k].id \in DOMAIN ItemLength
         /\ mm[k] = [id |-> mm[k].id, offset |-> mm[k].offset]
<1>1. mm[k] \in [id : DOMAIN ItemLength, offset : Nat]
  BY DEF Items
<1>2. \A i \in DOMAIN ItemLength : ItemLength[i] \in Nat /\ ItemLength[i] > 0
  BY ItemsAssumption
<1> QED BY <1>1, <1>2 DEF EndOf

\* The items stand in order.
LEMMA InOrder ==
  ASSUME NEW mm, Items(mm), NEW i \in 1 .. Len(mm), NEW j \in 1 .. Len(mm), i < j
  PROVE  EndOf(mm[i]) <= mm[j].offset
<1> DEFINE T == {d \in Nat : i + d + 1 <= Len(mm) => EndOf(mm[i]) <= mm[i + d + 1].offset}
<1>1. Len(mm) \in Nat
  BY DEF Items
<1>2. 0 \in T
  <2> SUFFICES ASSUME i + 1 <= Len(mm) PROVE EndOf(mm[i]) <= mm[i + 0 + 1].offset
    OBVIOUS
  <2>1. i + 1 \in 2 .. Len(mm) /\ (i + 1) - 1 = i /\ i + 0 + 1 = i + 1
    BY <1>1
  <2> QED BY <2>1 DEF Items
<1>3. ASSUME NEW d \in T PROVE d + 1 \in T
  <2> SUFFICES ASSUME i + (d + 1) + 1 <= Len(mm)
               PROVE  EndOf(mm[i]) <= mm[i + (d + 1) + 1].offset
    OBVIOUS
  <2>1. PICK k : k = i + d + 1
    OBVIOUS
  <2>2. k \in 1 .. Len(mm) /\ k + 1 \in 2 .. Len(mm) /\ (k + 1) - 1 = k
        /\ i + (d + 1) + 1 = k + 1
    BY <2>1, <1>1
  <2>3. EndOf(mm[i]) <= mm[k].offset
    BY <2>1, <2>2
  <2>4. EndOf(mm[k]) <= mm[k + 1].offset
    BY <2>2 DEF Items
  <2>5. EndOf(mm[i]) \in Nat
    BY ItemIs
  <2>6. mm[k].offset \in Nat /\ EndOf(mm[k]) \in Nat /\ mm[k].offset < EndOf(mm[k])
    BY <2>2, ItemIs
  <2>7. k + 1 \in 1 .. Len(mm)
    BY <2>2, <1>1
  <2>8. mm[k + 1].offset \in Nat
    BY <2>7, ItemIs
  <2> QED BY <2>2, <2>3, <2>4, <2>5, <2>6, <2>8, SMTT(30)
<1> HIDE DEF T
<1>4. T = Nat
  <2>1. T \in SUBSET Nat
    BY DEF T
  <2> QED BY <2>1, <1>2, <1>3, Induction
<1>5. j - i - 1 \in Nat /\ i + (j - i - 1) + 1 = j /\ j <= Len(mm)
  BY <1>1
<1>6. j - i - 1 \in T
  BY <1>4, <1>5
<1> QED BY <1>5, <1>6 DEF T

-----------------------------------------------------------------------------
(* The loop over the items of a block.                                     *)

\* f is what the loop returns from each item on.
IsFrom(f, mm, start, end) ==
    \A k \in 1 .. Len(mm) + 1 : f[k] = AtItem(mm, start, end, k, f[k + 1])

LEMMA MmFromIs ==
  ASSUME NEW mm, Items(mm), NEW start, NEW end
  PROVE  IsFrom(MmFrom(mm, start, end), mm, start, end)
<1> DEFINE L == Len(mm)
           A(k, rest) == AtItem(mm, start, end, k, rest)
           Rec(g) == [k \in 1 .. L + 1 |-> A(k, g[k + 1])]
           from == CHOOSE g : g = Rec(g)
           T == {d \in Nat : \E g : \A k \in 1 .. L + 1 : k + d > L => g[k] = A(k, g[k + 1])}
<1>1. L \in Nat
  BY DEF Items
<1>2. \A x, y : A(L + 1, x) = A(L + 1, y)
  <2>1. L + 1 > Len(mm)
    BY <1>1
  <2> QED BY <2>1 DEF AtItem
<1> HIDE DEF A, L
<1>3. 0 \in T
  <2> DEFINE g == [k \in 1 .. L + 1 |-> A(k, 0)]
  <2> SUFFICES \A k \in 1 .. L + 1 : k + 0 > L => g[k] = A(k, g[k + 1])
    OBVIOUS
  <2>1. ASSUME NEW k \in 1 .. L + 1, k + 0 > L PROVE g[k] = A(k, g[k + 1])
    <3>1. k = L + 1
      BY <2>1, <1>1
    <3>2. g[k] = A(k, 0)
      OBVIOUS
    <3> HIDE DEF g
    <3> QED BY <3>1, <3>2, <1>2
  <2> QED BY <2>1
<1>4. ASSUME NEW d \in T PROVE d + 1 \in T
  <2>1. PICK g : \A k \in 1 .. L + 1 : k + d > L => g[k] = A(k, g[k + 1])
    OBVIOUS
  <2>2. PICK j : j = L - d
    OBVIOUS
  <2> DEFINE f == [k \in 1 .. L + 2 |-> IF k = j THEN A(j, g[j + 1]) ELSE g[k]]
  <2>3. d \in Nat /\ j \in Int
    BY <2>2, <1>1
  <2>4. ASSUME NEW k \in 1 .. L + 1, k + (d + 1) > L PROVE f[k] = A(k, f[k + 1])
    <3>1. k + 1 \in 1 .. L + 2 /\ k \in 1 .. L + 2 /\ k + 1 # j
      BY <2>2, <2>3, <2>4, <1>1
    <3>2. f[k + 1] = g[k + 1]
      BY <3>1
    <3>3. f[k] = IF k = j THEN A(j, g[j + 1]) ELSE g[k]
      BY <3>1
    <3> HIDE DEF f
    <3>4. CASE k = j
      BY <3>2, <3>3, <3>4
    <3>5. CASE k # j
      <4>1. k + d > L
        BY <2>2, <2>3, <2>4, <3>5, <1>1
      <4> QED BY <3>2, <3>3, <3>5, <4>1, <2>1
    <3> QED BY <3>4, <3>5
  <2>5. \E x : \A k \in 1 .. L + 1 : k + (d + 1) > L => x[k] = A(k, x[k + 1])
    <3> HIDE DEF f
    <3> QED BY <2>4
  <2> QED BY <2>5, <2>3
<1>5. T = Nat
  <2>1. T \in SUBSET Nat
    OBVIOUS
  <2> HIDE DEF T
  <2> QED BY <2>1, <1>3, <1>4, Induction
<1>6. L \in T
  BY <1>1, <1>5
<1>7. PICK g : \A k \in 1 .. L + 1 : k + L > L => g[k] = A(k, g[k + 1])
  BY <1>6
<1>8. \A k \in 1 .. L + 1 : g[k] = A(k, g[k + 1])
  BY <1>1, <1>7
<1> HIDE DEF T
<1> DEFINE f == [k \in 1 .. L + 1 |-> g[k]]
<1>9. \A k \in 1 .. L + 1 : f[k] = A(k, f[k + 1])
  <2> TAKE k \in 1 .. L + 1
  <2>1. f[k] = A(k, g[k + 1])
    BY <1>8
  <2>2. CASE k = L + 1
    <3> HIDE DEF f
    <3> QED BY <2>1, <2>2, <1>2
  <2>3. CASE k # L + 1
    <3>1. k + 1 \in 1 .. L + 1
      BY <2>3, <1>1
    <3>2. f[k + 1] = g[k + 1]
      BY <3>1
    <3> HIDE DEF f
    <3> QED BY <2>1, <3>2
  <2> QED BY <2>2, <2>3
<1>10. f = Rec(f)
  <2> SUFFICES \A k \in 1 .. L + 1 : f[k] = Rec(f)[k]
    OBVIOUS
  <2> HIDE DEF f
  <2> QED BY <1>9
<1>11. from = Rec(from)
  <2> HIDE DEF f, Rec
  <2> QED BY <1>10
<1>12. \A k \in 1 .. L + 1 : from[k] = A(k, from[k + 1])
  <2> HIDE DEF from
  <2> QED BY <1>11
<1>13. MmFrom(mm, start, end) = from
  BY DEF MmFrom, from, A, L
<1> HIDE DEF from
<1> QED BY <1>12, <1>13 DEF IsFrom, A, L

\* Items that are over before the block are passed over.
LEMMA OverIsSkipped ==
  ASSUME NEW mm, Items(mm), NEW start \in Nat, NEW end \in Nat, start < end,
         NEW f, IsFrom(f, mm, start, end), NEW k \in 1 .. Len(mm) + 1,
         \A i \in 1 .. Len(mm) : i < k => EndOf(mm[i]) <= start
  PROVE  f[k] = f[1]
<1> DEFINE T == {d \in Nat : d + 1 <= k => f[d + 1] = f[1]}
<1>1. Len(mm) \in Nat
  BY DEF Items
<1>2. 0 \in T
  OBVIOUS
<1>3. ASSUME NEW d \in T PROVE d + 1 \in T
  <2> SUFFICES ASSUME d + 1 + 1 <= k PROVE f[d + 1 + 1] = f[1]
    OBVIOUS
  <2>1. PICK j : j = d + 1
    OBVIOUS
  <2>2. j \in 1 .. Len(mm) /\ j \in 1 .. Len(mm) + 1 /\ j < k /\ ~ (j > Len(mm))
    BY <2>1, <1>1
  <2>3. f[j] = f[1]
    BY <2>1, <2>2
  <2>4. mm[j].offset \in Nat /\ EndOf(mm[j]) \in Nat /\ mm[j].offset < EndOf(mm[j])
    BY <2>2, ItemIs
  <2>5. EndOf(mm[j]) <= start
    BY <2>2
  <2>6. ~ (end <= mm[j].offset) /\ start >= EndOf(mm[j])
    BY <2>4, <2>5
  <2>7. f[j] = AtItem(mm, start, end, j, f[j + 1])
    BY <2>2 DEF IsFrom
  <2>8. f[j] = f[j + 1]
    BY <2>2, <2>6, <2>7 DEF AtItem
  <2> QED BY <2>1, <2>3, <2>8
<1> HIDE DEF T
<1>4. T = Nat
  <2>1. T \in SUBSET Nat
    BY DEF T
  <2> QED BY <2>1, <1>2, <1>3, Induction
<1>5. k - 1 \in T /\ (k - 1) + 1 = k
  BY <1>1, <1>4
<1> QED BY <1>5 DEF T

Elements(s) == {s[i] : i \in 1 .. Len(s)}

LEMMA ConcatElements ==
  ASSUME NEW S, NEW s \in Seq(S), NEW t \in Seq(S)
  PROVE  s \o t \in Seq(S) /\ Elements(s \o t) = Elements(s) \cup Elements(t)
<1>1. PICK u : u = s \o t
  OBVIOUS
<1>2. PICK m, n : m = Len(s) /\ n = Len(t)
  OBVIOUS
<1>3. /\ u \in Seq(S) /\ Len(u) = m + n /\ m \in Nat /\ n \in Nat
      /\ \A i \in 1 .. m + n : u[i] = IF i <= m THEN s[i] ELSE t[i - m]
  BY <1>1, <1>2, ConcatProperties, LenProperties
<1>4. ASSUME NEW x \in Elements(u) PROVE x \in Elements(s) \cup Elements(t)
  <2>1. PICK i \in 1 .. m + n : x = u[i]
    BY <1>3 DEF Elements
  <2>2. CASE i <= m
    BY <2>1, <2>2, <1>2, <1>3 DEF Elements
  <2>3. CASE i > m
    <3>1. i - m \in 1 .. n
      BY <2>3, <1>3
    <3>2. x = t[i - m]
      BY <2>1, <2>3, <1>3
    <3> QED BY <3>1, <3>2, <1>2 DEF Elements
  <2> QED BY <2>2, <2>3, <1>3
<1>5. ASSUME NEW x \in Elements(s) PROVE x \in Elements(u)
  <2>1. PICK i \in 1 .. m : x = s[i]
    BY <1>2 DEF Elements
  <2>2. i \in 1 .. m + n /\ i <= m
    BY <1>3
  <2>3. x = u[i]
    BY <2>1, <2>2, <1>3
  <2> QED BY <2>2, <2>3, <1>3 DEF Elements
<1>6. ASSUME NEW x \in Elements(t) PROVE x \in Elements(u)
  <2>1. PICK i \in 1 .. n : x = t[i]
    BY <1>2 DEF Elements
  <2>2. m + i \in 1 .. m + n /\ ~ (m + i <= m) /\ (m + i) - m = i
    BY <1>3
  <2>3. x = u[m + i]
    BY <2>1, <2>2, <1>3
  <2> QED BY <2>2, <2>3, <1>3 DEF Elements
<1> QED BY <1>1, <1>3, <1>4, <1>5, <1>6

LEMMA OneElement ==
  ASSUME NEW S, NEW x \in S PROVE <<x>> \in Seq(S) /\ Elements(<<x>>) = {x}
<1>1. <<x>> \in Seq(S) /\ Len(<<x>>) = 1 /\ <<x>>[1] = x
  OBVIOUS
<1> QED BY <1>1 DEF Elements

LEMMA NoElement ==
  ASSUME NEW S PROVE <<>> \in Seq(S) /\ Elements(<<>>) = {}
<1>1. <<>> \in Seq(S) /\ Len(<<>>) = 0
  BY EmptySeq
<1> QED BY <1>1 DEF Elements

Overlaps(item, start, end) == item.offset < end /\ EndOf(item) > start

\* The keys of the items from k on that reach into [start, end).
KeysFrom(mm, k, start, end) ==
    {MmKey(mm[i], start) : i \in {i \in k .. Len(mm) : Overlaps(mm[i], start, end)}}

Keys == (DOMAIN ItemLength) \X Int

\* What the loop returns from item k on.
FromOK(res, mm, k, start, end) ==
    /\ res.keys \in Seq(Keys) /\ Elements(res.keys) = KeysFrom(mm, k, start, end)
    /\ res.idx \in k - 1 .. Len(mm)
    /\ \A i \in k .. Len(mm) : i <= res.idx => EndOf(mm[i]) <= end

LEMMA PairIn == ASSUME NEW A, NEW B, NEW a \in A, NEW b \in B PROVE <<a, b>> \in A \X B
OBVIOUS

LEMMA KeyIs ==
  ASSUME NEW mm, Items(mm), NEW k \in 1 .. Len(mm), NEW start \in Nat
  PROVE  MmKey(mm[k], start) \in Keys
<1>1. mm[k].offset \in Nat /\ mm[k].id \in DOMAIN ItemLength
  BY ItemIs
<1>2. PICK i, d : i = mm[k].id /\ d = mm[k].offset - start
  OBVIOUS
<1>3. i \in DOMAIN ItemLength /\ d \in Int
  BY <1>1, <1>2
<1>4. MmKey(mm[k], start) = <<i, d>>
  BY <1>2 DEF MmKey
<1>5. MmKey(mm[k], start) \in (DOMAIN ItemLength) \X Int
  <2>1. <<i, d>> \in (DOMAIN ItemLength) \X Int
    BY <1>3, PairIn
  <2> QED BY <2>1, <1>4
<1> QED BY <1>5 DEF Keys

LEMMA AtItemIs ==
  ASSUME NEW mm, Items(mm), NEW start \in Nat, NEW end \in Nat, start < end,
         NEW k \in 1 .. Len(mm) + 1, NEW rest,
         k <= Len(mm) => FromOK(rest, mm, k + 1, start, end)
  PROVE  FromOK(AtItem(mm, start, end, k, rest), mm, k, start, end)
<1>1. Len(mm) \in Nat
  BY DEF Items
<1>2. CASE k = Len(mm) + 1
  <2>1. AtItem(mm, start, end, k, rest) = [keys |-> <<>>, idx |-> k - 1]
    BY <1>1, <1>2 DEF AtItem
  <2>2. k .. Len(mm) = {}
    BY <1>1, <1>2
  <2>3. KeysFrom(mm, k, start, end) = {}
    BY <2>2 DEF KeysFrom
  <2> QED BY <2>1, <2>2, <2>3, <1>1, <1>2, NoElement DEF FromOK
<1>3. CASE k <= Len(mm)
  <2>0. k \in 1 .. Len(mm) /\ ~ (k > Len(mm))
    BY <1>1, <1>3
  <2>1. PICK o, e : o = mm[k].offset /\ e = EndOf(mm[k])
    OBVIOUS
  <2>2. o \in Nat /\ e \in Nat /\ o < e
    BY <2>0, <2>1, ItemIs
  <2>3. \A i \in k + 1 .. Len(mm) : e <= mm[i].offset /\ mm[i].offset \in Nat
    <3> TAKE i \in k + 1 .. Len(mm)
    <3>1. i \in 1 .. Len(mm) /\ k < i
      BY <1>1
    <3> QED BY <3>1, <2>0, <2>1, InOrder, ItemIs
  <2>4. \A i \in k .. Len(mm) : i = k \/ i \in k + 1 .. Len(mm)
    BY <1>1
  <2>5. PICK x : x = MmKey(mm[k], start)
    OBVIOUS
  <2>6. x \in Keys /\ <<x>> \in Seq(Keys) /\ Elements(<<x>>) = {x}
    BY <2>0, <2>5, KeyIs, OneElement
  <2>7. FromOK(rest, mm, k + 1, start, end)
    BY <1>3
  <2>8. Overlaps(mm[k], start, end) <=> o < end /\ e > start
    BY <2>1 DEF Overlaps
  <2>9. KeysFrom(mm, k, start, end) = KeysFrom(mm, k + 1, start, end)
                                      \cup IF o < end /\ e > start THEN {x} ELSE {}
    <3>1. \A i : i \in k .. Len(mm) <=> i = k \/ i \in k + 1 .. Len(mm)
      BY <1>1, <1>3
    <3> QED BY <3>1, <2>5, <2>8 DEF KeysFrom
  <2>10. end <= e => KeysFrom(mm, k + 1, start, end) = {}
    <3> SUFFICES ASSUME end <= e, NEW i \in k + 1 .. Len(mm)
                 PROVE  ~ Overlaps(mm[i], start, end)
      BY DEF KeysFrom
    <3>1. e <= mm[i].offset /\ mm[i].offset \in Nat
      BY <2>3
    <3> QED BY <3>1, <2>2 DEF Overlaps
  <2>11. CASE end <= o \/ (start < e /\ end < e)
    <3>1. PICK keys : keys = IF end <= o THEN <<>> ELSE <<x>>
      OBVIOUS
    <3>2. AtItem(mm, start, end, k, rest) = [keys |-> keys, idx |-> k - 1]
      BY <2>0, <2>1, <2>2, <2>5, <2>11, <3>1 DEF AtItem
    <3>3. end <= e
      BY <2>2, <2>11
    <3>4. KeysFrom(mm, k, start, end) = IF end <= o THEN {} ELSE {x}
      BY <2>2, <2>9, <2>10, <2>11, <3>3
    <3>5. keys \in Seq(Keys) /\ Elements(keys) = IF end <= o THEN {} ELSE {x}
      BY <3>1, <2>6, NoElement
    <3>6. k - 1 \in k - 1 .. Len(mm) /\ \A i \in k .. Len(mm) : ~ (i <= k - 1)
      BY <1>1, <2>0
    <3> QED BY <3>2, <3>4, <3>5, <3>6 DEF FromOK
  <2>12. CASE o < end /\ e <= start
    <3>1. AtItem(mm, start, end, k, rest) = rest
      BY <2>0, <2>1, <2>2, <2>12 DEF AtItem
    <3>2. KeysFrom(mm, k, start, end) = KeysFrom(mm, k + 1, start, end)
      BY <2>2, <2>9, <2>12
    <3>3. e <= end
      BY <2>2, <2>12
    <3>4. rest.idx \in k - 1 .. Len(mm)
      BY <2>7, <1>1, <2>0 DEF FromOK
    <3>5. \A i \in k .. Len(mm) : i <= rest.idx => EndOf(mm[i]) <= end
      BY <2>1, <2>4, <2>7, <3>3 DEF FromOK
    <3> QED BY <3>1, <3>2, <3>4, <3>5, <2>7 DEF FromOK
  <2>13. CASE o < end /\ start < e /\ e <= end
    <3>1. AtItem(mm, start, end, k, rest) = [keys |-> <<x>> \o rest.keys, idx |-> rest.idx]
      BY <2>0, <2>1, <2>2, <2>5, <2>13 DEF AtItem
    <3>2. KeysFrom(mm, k, start, end) = {x} \cup KeysFrom(mm, k + 1, start, end)
      BY <2>2, <2>9, <2>13
    <3>3. rest.keys \in Seq(Keys) /\ Elements(rest.keys) = KeysFrom(mm, k + 1, start, end)
      BY <2>7 DEF FromOK
    <3>4. /\ <<x>> \o rest.keys \in Seq(Keys)
          /\ Elements(<<x>> \o rest.keys) = {x} \cup Elements(rest.keys)
      <4>1. PICK y, z : y = <<x>> /\ z = rest.keys
        OBVIOUS
      <4>2. y \in Seq(Keys) /\ z \in Seq(Keys) /\ Elements(y) = {x}
        BY <4>1, <3>3, <2>6
      <4>3. y \o z \in Seq(Keys) /\ Elements(y \o z) = Elements(y) \cup Elements(z)
        BY <4>2, ConcatElements
      <4> QED BY <4>1, <4>2, <4>3
    <3>5. rest.idx \in k - 1 .. Len(mm)
      BY <2>7, <1>1, <2>0 DEF FromOK
    <3>6. \A i \in k .. Len(mm) : i <= rest.idx => EndOf(mm[i]) <= end
      BY <2>1, <2>4, <2>7, <2>13 DEF FromOK
    <3> QED BY <3>1, <3>2, <3>3, <3>4, <3>5, <3>6 DEF FromOK
  <2> QED BY <2>2, <2>11, <2>12, <2>13
<1> QED BY <1>1, <1>2, <1>3

LEMMA FromIs ==
  ASSUME NEW mm, Items(mm), NEW start \in Nat, NEW end \in Nat, start < end,
         NEW f, IsFrom(f, mm, start, end), NEW k \in 1 .. Len(mm) + 1
  PROVE  FromOK(f[k], mm, k, start, end)
<1> DEFINE T == {d \in Nat : \A j \in 1 .. Len(mm) + 1 :
                                j + d > Len(mm) => FromOK(f[j], mm, j, start, end)}
<1>1. Len(mm) \in Nat
  BY DEF Items
<1>2. ASSUME NEW j \in 1 .. Len(mm) + 1,
             j <= Len(mm) => FromOK(f[j + 1], mm, j + 1, start, end)
      PROVE  FromOK(f[j], mm, j, start, end)
  <2>1. f[j] = AtItem(mm, start, end, j, f[j + 1])
    BY DEF IsFrom
  <2> QED BY <2>1, <1>2, AtItemIs
<1>3. 0 \in T
  <2> SUFFICES ASSUME NEW j \in 1 .. Len(mm) + 1, j + 0 > Len(mm)
               PROVE  FromOK(f[j], mm, j, start, end)
    OBVIOUS
  <2>1. ~ (j <= Len(mm))
    BY <1>1
  <2> QED BY <2>1, <1>2
<1>4. ASSUME NEW d \in T PROVE d + 1 \in T
  <2> SUFFICES ASSUME NEW j \in 1 .. Len(mm) + 1, j + (d + 1) > Len(mm)
               PROVE  FromOK(f[j], mm, j, start, end)
    OBVIOUS
  <2>1. ASSUME j <= Len(mm) PROVE FromOK(f[j + 1], mm, j + 1, start, end)
    <3>1. j + 1 \in 1 .. Len(mm) + 1 /\ (j + 1) + d > Len(mm)
      BY <1>1, <2>1
    <3> QED BY <3>1
  <2> HIDE DEF T
  <2> QED BY <2>1, <1>2
<1>5. T = Nat
  <2>1. T \in SUBSET Nat
    OBVIOUS
  <2> HIDE DEF T
  <2> QED BY <2>1, <1>3, <1>4, Induction
<1>6. Len(mm) \in T /\ k + Len(mm) > Len(mm)
  BY <1>1, <1>5
<1> QED BY <1>6

-----------------------------------------------------------------------------
(* The keys of a block do not depend on the item the loop starts with, as  *)
(* long as no item before it reaches into the block.                       *)

\* The items before the one (Python's) that the block at start begins with.
Settled(mm, start, idx) ==
    /\ idx = -1 \/ idx \in 0 .. Len(mm)
    /\ \A i \in 1 .. Len(mm) :
          i <= (IF idx < 0 THEN Len(mm) - 1 ELSE idx) => EndOf(mm[i]) <= start

MmKeys(mm, start, end) == GenMmKeys(mm, start, end, 0).keys

LEMMA EmptyIs ==
  ASSUME NEW mm, Items(mm) PROVE mm = <<>> <=> Len(mm) = 0
<1> DEFINE S == [id : DOMAIN ItemLength, offset : Nat]
<1>1. Len(mm) \in Nat /\ mm \in [1 .. Len(mm) -> S]
  BY DEF Items
<1> HIDE DEF S
<1>2. mm \in Seq(S)
  BY <1>1, SeqDef
<1> QED BY <1>2, EmptySeq

LEMMA AllOver ==
  ASSUME NEW mm, Items(mm), Len(mm) > 0, NEW start \in Nat, EndOf(Last(mm)) <= start,
         NEW i \in 1 .. Len(mm)
  PROVE  EndOf(mm[i]) <= start
<1>1. Len(mm) \in 1 .. Len(mm) /\ Last(mm) = mm[Len(mm)]
  BY LastIs DEF Items
<1>2. CASE i = Len(mm)
  BY <1>1, <1>2
<1>3. CASE i < Len(mm)
  <2>1. EndOf(mm[i]) <= mm[Len(mm)].offset
    BY <1>1, <1>3, InOrder
  <2>2. /\ mm[Len(mm)].offset \in Nat /\ EndOf(mm[Len(mm)]) \in Nat
        /\ mm[Len(mm)].offset < EndOf(mm[Len(mm)])
    BY <1>1, ItemIs
  <2>3. EndOf(mm[i]) \in Nat
    BY ItemIs
  <2> QED BY <1>1, <2>1, <2>2, <2>3
<1> QED BY <1>1, <1>2, <1>3

LEMMA GenIs ==
  ASSUME NEW mm, Items(mm), NEW start \in Nat, NEW end \in Nat, start < end,
         NEW idx, Settled(mm, start, idx)
  PROVE  /\ GenMmKeys(mm, start, end, idx).keys = MmKeys(mm, start, end)
         /\ Settled(mm, end, GenMmKeys(mm, start, end, idx).idx)
         /\ MmKeys(mm, start, end) \in Seq(Keys)
         /\ Elements(MmKeys(mm, start, end)) = KeysFrom(mm, 1, start, end)
<1>0. Len(mm) \in Nat
  BY DEF Items
<1>1. \A i \in 1 .. Len(mm) : EndOf(mm[i]) \in Nat
  BY ItemIs
<1>2. PICK res : res = GenMmKeys(mm, start, end, idx)
  OBVIOUS
<1>3. CASE mm = <<>> \/ EndOf(Last(mm)) <= start
  <2>1. \A i \in 1 .. Len(mm) : EndOf(mm[i]) <= start
    <3>1. CASE Len(mm) > 0
      BY <1>3, <3>1, AllOver, EmptyIs
    <3>2. CASE Len(mm) = 0
      BY <3>2
    <3> QED BY <1>0, <3>1, <3>2
  <2>2. res = [keys |-> <<>>, idx |-> idx]
    BY <1>2, <1>3 DEF GenMmKeys
  <2>3. MmKeys(mm, start, end) = <<>>
    BY <1>3 DEF MmKeys, GenMmKeys
  <2>4. KeysFrom(mm, 1, start, end) = {}
    <3>1. \A i \in 1 .. Len(mm) : ~ Overlaps(mm[i], start, end)
      BY <1>1, <2>1 DEF Overlaps
    <3> QED BY <3>1 DEF KeysFrom
  <2>5. \A i \in 1 .. Len(mm) : EndOf(mm[i]) <= end
    BY <1>1, <2>1
  <2>6. Settled(mm, end, idx)
    BY <2>5 DEF Settled
  <2>7. <<>> \in Seq(Keys) /\ Elements(<<>>) = {}
    BY NoElement
  <2>8. res.keys = <<>> /\ res.idx = idx
    BY <2>2
  <2> QED BY <1>2, <2>3, <2>4, <2>6, <2>7, <2>8
<1>4. CASE ~ (mm = <<>> \/ EndOf(Last(mm)) <= start)
  <2>1. Len(mm) > 0
    BY <1>0, <1>4, EmptyIs
  <2>2. PICK f : f = MmFrom(mm, start, end)
    OBVIOUS
  <2>3. IsFrom(f, mm, start, end)
    BY <2>2, MmFromIs
  <2>4. PICK k : k = IF idx < 0 THEN Len(mm) + idx + 1 ELSE idx + 1
    OBVIOUS
  <2>5. k = (IF idx < 0 THEN Len(mm) - 1 ELSE idx) + 1 /\ k \in 1 .. Len(mm) + 1
    BY <1>0, <2>1, <2>4 DEF Settled
  <2>6. res = f[k]
    BY <1>2, <1>4, <2>2, <2>4 DEF GenMmKeys
  <2>7. MmKeys(mm, start, end) = f[1].keys
    <3>1. ~ (0 < 0) /\ 0 + 1 = 1
      OBVIOUS
    <3>2. GenMmKeys(mm, start, end, 0) = f[1]
      BY <1>4, <2>2, <3>1 DEF GenMmKeys
    <3> QED BY <3>2 DEF MmKeys
  <2>8. f[k] = f[1]
    <3>1. \A i \in 1 .. Len(mm) : i < k => EndOf(mm[i]) <= start
      BY <1>0, <2>1, <2>5 DEF Settled
    <3> QED BY <2>3, <2>5, <3>1, OverIsSkipped
  <2>9. 1 \in 1 .. Len(mm) + 1
    BY <1>0
  <2>10. FromOK(f[1], mm, 1, start, end)
    BY <2>3, <2>9, FromIs
  <2>11. Settled(mm, end, f[1].idx)
    <3>1. PICK i : i = f[1].idx
      OBVIOUS
    <3>2. i \in 0 .. Len(mm) /\ \A j \in 1 .. Len(mm) : j <= i => EndOf(mm[j]) <= end
      BY <2>10, <3>1 DEF FromOK
    <3>3. ~ (i < 0)
      BY <3>2
    <3> QED BY <3>1, <3>2, <3>3 DEF Settled
  <2> QED BY <1>2, <2>6, <2>7, <2>8, <2>10, <2>11 DEF FromOK
<1> QED BY <1>3, <1>4

-----------------------------------------------------------------------------
(* The loop over the blocks.                                               *)

StartOf(b) == (b - 1) * HB

\* What block b adds to the hash before it.
Entry(r, b) ==
    [tokens |-> BlockTokens(r, StartOf(b)),
     extra  |-> ExtraKeys(r, StartOf(b), StartOf(b) + HB, MmKeys(r.mm, StartOf(b), StartOf(b) + HB))]

\* What it adds when the loop starts with the last item: no other item's keys.
ShortEntry(r, b) ==
    [tokens |-> BlockTokens(r, StartOf(b)),
     extra  |-> ExtraKeys(r, StartOf(b), StartOf(b) + HB, <<MmKey(Last(r.mm), StartOf(b))>>)]

\* What the blocks add, e for every block: the hash of the first b blocks, and
\* all hashes up to block n.
Hash(e, b) == [i \in 1 .. b |-> e[i]]
Hashes(e, n) == [b \in 1 .. n |-> Hash(e, b)]

LEMMA StartIs ==
  ASSUME NEW b \in Nat, b > 0
  PROVE  StartOf(b) \in Nat /\ StartOf(b) + HB = b * HB /\ b * HB \in Nat
<1>1. PICK a : a = b - 1
  OBVIOUS
<1>2. a \in Nat /\ b = a + 1
  BY <1>1
<1>3. (a + 1) * HB = a * HB + HB /\ a * HB \in Nat
  BY <1>2, Sizes
<1> QED BY <1>1, <1>2, <1>3, Sizes DEF StartOf

LEMMA HashIsSeq ==
  ASSUME NEW e, NEW b \in Nat
  PROVE  /\ Hash(e, b) \in Seq({e[i] : i \in Nat}) /\ Len(Hash(e, b)) = b
         /\ \A i \in 1 .. b : Hash(e, b)[i] = e[i]
         /\ DOMAIN Hash(e, b) = 1 .. b
<1> DEFINE S == {e[i] : i \in Nat}
<1>1. \A i \in 1 .. b : e[i] \in S
  OBVIOUS
<1> HIDE DEF S
<1>2. Hash(e, b) \in [1 .. b -> S]
  BY <1>1 DEF Hash
<1>3. Hash(e, b) \in Seq(S)
  BY <1>2, SeqDef
<1>4. Len(Hash(e, b)) = b
  BY <1>2, <1>3, LenProperties
<1> QED BY <1>3, <1>4 DEF S, Hash

LEMMA HashGrows ==
  ASSUME NEW e, NEW b \in Nat, b > 0
  PROVE  Append(Hash(e, b - 1), e[b]) = Hash(e, b)
<1> DEFINE S == {e[i] : i \in Nat}
<1>1. PICK a : a = b - 1
  OBVIOUS
<1>2. a \in Nat /\ b = a + 1
  BY <1>1
<1>3. PICK s, t, x : s = Hash(e, a) /\ t = Hash(e, b) /\ x = e[b]
  OBVIOUS
<1>4. /\ s \in Seq(S) /\ Len(s) = a /\ \A i \in 1 .. a : s[i] = e[i]
      /\ t \in Seq(S) /\ Len(t) = b /\ \A i \in 1 .. b : t[i] = e[i]
      /\ x \in S
  BY <1>2, <1>3, HashIsSeq
<1> HIDE DEF S
<1>5. PICK u : u = Append(s, x)
  OBVIOUS
<1>6. /\ u \in Seq(S) /\ Len(u) = a + 1 /\ \A i \in 1 .. a : u[i] = s[i]
      /\ u[a + 1] = x
  BY <1>4, <1>5, AppendProperties
<1>7. \A i \in 1 .. b : u[i] = t[i]
  <2> TAKE i \in 1 .. b
  <2>1. CASE i = b
    BY <2>1, <1>2, <1>3, <1>4, <1>6
  <2>2. CASE i # b
    <3>1. i \in 1 .. a
      BY <2>2, <1>2
    <3> QED BY <3>1, <1>4, <1>6
  <2> QED BY <2>1, <2>2
<1>8. u = t
  BY <1>2, <1>4, <1>6, <1>7, SeqEqual
<1> QED BY <1>1, <1>3, <1>5, <1>8

\* What block b adds when the loop over the items starts with idx.
Adds(r, e, b, idx) ==
    \/ Settled(r.mm, StartOf(b), idx) /\ e[b] = Entry(r, b)
    \/ /\ idx = -1 /\ Len(r.mm) > 0 /\ EndOf(Last(r.mm)) > StartOf(b)
       /\ \A i \in 1 .. Len(r.mm) : EndOf(r.mm[i]) <= b * HB
       /\ e[b] = ShortEntry(r, b)

\* In a block where all items end, the loop that starts with the last one
\* returns its key alone.
LEMMA LastAlone ==
  ASSUME NEW mm, Items(mm), Len(mm) > 0, NEW start \in Nat, NEW end \in Nat, start < end,
         EndOf(Last(mm)) > start, \A i \in 1 .. Len(mm) : EndOf(mm[i]) <= end
  PROVE  /\ GenMmKeys(mm, start, end, -1).keys = <<MmKey(Last(mm), start)>>
         /\ Settled(mm, end, GenMmKeys(mm, start, end, -1).idx)
<1>1. PICK L, f, x : /\ L = Len(mm) /\ f = MmFrom(mm, start, end)
                     /\ x = MmKey(mm[L], start)
  OBVIOUS
<1>2. L \in Nat /\ L > 0 /\ L \in 1 .. L /\ L \in 1 .. L + 1 /\ L + 1 \in 1 .. L + 1
  BY <1>1 DEF Items
<1>3. Last(mm) = mm[L]
  BY <1>1, LastIs
<1>4. IsFrom(f, mm, start, end)
  BY <1>1, MmFromIs
<1>5. /\ mm[L].offset \in Nat /\ EndOf(mm[L]) \in Nat /\ mm[L].offset < EndOf(mm[L])
      /\ start < EndOf(mm[L]) /\ EndOf(mm[L]) <= end
  BY <1>1, <1>2, <1>3, ItemIs
<1>6. f[L + 1] = [keys |-> <<>>, idx |-> L]
  <2>1. f[L + 1] = AtItem(mm, start, end, L + 1, f[L + 1 + 1])
    BY <1>1, <1>2, <1>4 DEF IsFrom
  <2>2. L + 1 > Len(mm) /\ (L + 1) - 1 = L
    BY <1>1, <1>2
  <2> QED BY <2>1, <2>2 DEF AtItem
<1>7. f[L] = [keys |-> <<x>> \o f[L + 1].keys, idx |-> f[L + 1].idx]
  <2>1. f[L] = AtItem(mm, start, end, L, f[L + 1])
    BY <1>1, <1>2, <1>4 DEF IsFrom
  <2>2. /\ ~ (L > Len(mm)) /\ ~ (end <= mm[L].offset) /\ ~ (start >= EndOf(mm[L]))
        /\ ~ (end < EndOf(mm[L]))
    BY <1>1, <1>2, <1>5
  <2> QED BY <2>1, <2>2, <1>1 DEF AtItem
<1>8. <<x>> \o <<>> = <<x>>
  OBVIOUS
<1>9. f[L].keys = <<x>> /\ f[L].idx = L
  BY <1>6, <1>7, <1>8
<1>10. GenMmKeys(mm, start, end, -1) = f[L]
  <2>1. mm # <<>> /\ ~ (EndOf(Last(mm)) <= start)
    BY <1>3, <1>5, <1>1, <1>2, EmptyIs
  <2>2. -1 < 0 /\ Len(mm) + (-1) + 1 = L
    BY <1>1, <1>2
  <2> QED BY <2>1, <2>2, <1>1 DEF GenMmKeys
<1>11. Settled(mm, end, L)
  <2>1. L \in 0 .. Len(mm) /\ ~ (L < 0)
    BY <1>1, <1>2
  <2> QED BY <2>1, <1>1 DEF Settled
<1> QED BY <1>1, <1>3, <1>9, <1>10, <1>11

LEMMA BlockIs ==
  ASSUME NEW r, Items(r.mm), NEW e, NEW b \in Nat, b > 0, NEW before,
         before.hash = Hash(e, b - 1), Adds(r, e, b, before.idx)
  PROVE  /\ Block(r, b, before).hash = Hash(e, b)
         /\ Settled(r.mm, b * HB, Block(r, b, before).idx)
<1>1. PICK s : s = StartOf(b)
  OBVIOUS
<1>2. s \in Nat /\ s + HB = b * HB /\ b * HB \in Nat /\ s < s + HB /\ s + HB \in Nat
  BY <1>1, StartIs, Sizes
<1>3. PICK g : g = GenMmKeys(r.mm, s, s + HB, before.idx)
  OBVIOUS
<1>4. /\ e[b] = [tokens |-> BlockTokens(r, s), extra |-> ExtraKeys(r, s, s + HB, g.keys)]
      /\ Settled(r.mm, s + HB, g.idx)
  <2>1. CASE Settled(r.mm, s, before.idx) /\ e[b] = Entry(r, b)
    <3>1. g.keys = MmKeys(r.mm, s, s + HB) /\ Settled(r.mm, s + HB, g.idx)
      BY <2>1, <1>2, <1>3, GenIs
    <3> QED BY <2>1, <3>1, <1>1 DEF Entry
  <2>2. CASE /\ before.idx = -1 /\ Len(r.mm) > 0 /\ EndOf(Last(r.mm)) > s
             /\ \A i \in 1 .. Len(r.mm) : EndOf(r.mm[i]) <= s + HB
             /\ e[b] = ShortEntry(r, b)
    <3>1. g = GenMmKeys(r.mm, s, s + HB, -1)
      BY <2>2, <1>3
    <3>2. g.keys = <<MmKey(Last(r.mm), s)>> /\ Settled(r.mm, s + HB, g.idx)
      BY <2>2, <3>1, <1>2, LastAlone
    <3> QED BY <2>2, <3>2, <1>1 DEF ShortEntry
  <2> QED BY <2>1, <2>2, <1>1, <1>2 DEF Adds
<1>5. Block(r, b, before) =
        [hash |-> Append(before.hash, [tokens |-> BlockTokens(r, s),
                                       extra |-> ExtraKeys(r, s, s + HB, g.keys)]),
         idx  |-> g.idx]
  BY <1>1, <1>3 DEF Block, StartOf, hash_block_tokens, HB
<1>6. /\ Block(r, b, before).hash = Append(Hash(e, b - 1), e[b])
      /\ Block(r, b, before).idx = g.idx
  BY <1>4, <1>5
<1> QED BY <1>2, <1>4, <1>6, HashGrows

LEMMA RunIs ==
  ASSUME NEW r, NEW done \in Nat, NEW last \in Nat, done <= last, NEW before
  PROVE  LET run == Run(r, done, before, last)
         IN /\ run[done] = before
            /\ \A b \in done + 1 .. last : run[b] = Block(r, b, run[b - 1])
<1> DEFINE B(b, x) == Block(r, b, x)
           Rec(g) == [b \in done .. last |-> IF b = done THEN before ELSE B(b, g[b - 1])]
           run == CHOOSE g : g = Rec(g)
           T == {d \in Nat :
                   \E g : /\ g[done] = before
                          /\ \A b \in done + 1 .. last : b <= done + d => g[b] = B(b, g[b - 1])}
<1> HIDE DEF B
<1>1. 0 \in T
  <2> DEFINE g == [b \in {done} |-> before]
  <2>1. g[done] = before
    OBVIOUS
  <2>2. \A b \in done + 1 .. last : ~ (b <= done + 0)
    OBVIOUS
  <2> HIDE DEF g
  <2> QED BY <2>1, <2>2
<1>2. ASSUME NEW d \in T PROVE d + 1 \in T
  <2>1. PICK g : /\ g[done] = before
                 /\ \A b \in done + 1 .. last : b <= done + d => g[b] = B(b, g[b - 1])
    OBVIOUS
  <2>2. PICK j : j = done + d + 1
    OBVIOUS
  <2> DEFINE f == [b \in done .. last |-> IF b = j THEN B(j, g[j - 1]) ELSE g[b]]
  <2>3. d \in Nat /\ j \in Nat /\ j > done
    BY <2>2
  <2>4. f[done] = before
    BY <2>1, <2>3
  <2>5. ASSUME NEW b \in done + 1 .. last, b <= done + (d + 1) PROVE f[b] = B(b, f[b - 1])
    <3>1. b \in done .. last /\ b - 1 \in done .. last /\ b - 1 # j
      BY <2>2, <2>3, <2>5
    <3>2. f[b - 1] = g[b - 1] /\ f[b] = IF b = j THEN B(j, g[j - 1]) ELSE g[b]
      BY <3>1
    <3> HIDE DEF f
    <3>3. CASE b = j
      BY <3>2, <3>3
    <3>4. CASE b # j
      <4>1. b <= done + d
        BY <2>2, <2>3, <2>5, <3>4
      <4> QED BY <3>2, <3>4, <4>1, <2>1
    <3> QED BY <3>3, <3>4
  <2>6. \E x : /\ x[done] = before
               /\ \A b \in done + 1 .. last : b <= done + (d + 1) => x[b] = B(b, x[b - 1])
    <3> HIDE DEF f
    <3> QED BY <2>4, <2>5
  <2> QED BY <2>3, <2>6
<1>3. T = Nat
  <2>1. T \in SUBSET Nat
    OBVIOUS
  <2> HIDE DEF T
  <2> QED BY <2>1, <1>1, <1>2, Induction
<1>4. last \in T
  BY <1>3
<1>5. PICK g : /\ g[done] = before
               /\ \A b \in done + 1 .. last : b <= done + last => g[b] = B(b, g[b - 1])
  BY <1>4
<1>6. \A b \in done + 1 .. last : g[b] = B(b, g[b - 1])
  BY <1>5
<1> HIDE DEF T
<1> DEFINE f == [b \in done .. last |-> g[b]]
<1>7. \A b \in done .. last : f[b] = IF b = done THEN before ELSE B(b, f[b - 1])
  <2> TAKE b \in done .. last
  <2>1. CASE b = done
    BY <2>1, <1>5
  <2>2. CASE b # done
    <3>1. b \in done + 1 .. last /\ b - 1 \in done .. last
      BY <2>2
    <3>2. f[b] = g[b] /\ f[b - 1] = g[b - 1]
      BY <3>1
    <3> HIDE DEF f
    <3> QED BY <3>1, <3>2, <2>2, <1>6
  <2> QED BY <2>1, <2>2
<1>8. f = Rec(f)
  <2> SUFFICES \A b \in done .. last : f[b] = Rec(f)[b]
    OBVIOUS
  <2> HIDE DEF f
  <2> QED BY <1>7
<1>9. run = Rec(run)
  <2> HIDE DEF f, Rec
  <2> QED BY <1>8
<1>10. \A b \in done .. last : run[b] = IF b = done THEN before ELSE B(b, run[b - 1])
  <2> HIDE DEF run
  <2> QED BY <1>9
<1>11. Run(r, done, before, last) = run
  BY DEF Run, run, B
<1> HIDE DEF run
<1>12. done \in done .. last /\ \A b \in done + 1 .. last : b \in done .. last /\ b # done
  OBVIOUS
<1> QED BY <1>10, <1>11, <1>12 DEF B

\* What the blocks behind the d-th add up to the last one, when the loop over
\* the items of the first of them starts with idx.
AddsFrom(r, e, d, last, idx) ==
    /\ d < last => Adds(r, e, d + 1, idx)
    /\ \A c \in d + 2 .. last : e[c] = Entry(r, c)

\* Behind the hashes of d blocks the loop computes those that follow.
LEMMA RunHashes ==
  ASSUME NEW r, Items(r.mm), NEW e, NEW d \in Nat, NEW last \in Nat, d <= last, NEW before,
         before.hash = Hash(e, d), AddsFrom(r, e, d, last, before.idx), NEW b \in d .. last
  PROVE  Run(r, d, before, last)[b].hash = Hash(e, b)
<1>1. PICK run : run = Run(r, d, before, last)
  OBVIOUS
<1>2. run[d] = before /\ \A c \in d + 1 .. last : run[c] = Block(r, c, run[c - 1])
  BY <1>1, RunIs
<1> DEFINE T == {i \in Nat : d + i <= last =>
                   /\ run[d + i].hash = Hash(e, d + i)
                   /\ i > 0 => Settled(r.mm, (d + i) * HB, run[d + i].idx)}
<1>3. 0 \in T
  <2>1. d + 0 = d /\ ~ (0 > 0)
    OBVIOUS
  <2> QED BY <2>1, <1>2
<1>4. ASSUME NEW i \in T PROVE i + 1 \in T
  <2> SUFFICES ASSUME d + (i + 1) <= last
               PROVE  /\ run[d + (i + 1)].hash = Hash(e, d + (i + 1))
                      /\ Settled(r.mm, (d + (i + 1)) * HB, run[d + (i + 1)].idx)
    OBVIOUS
  <2>1. PICK c, a : c = d + (i + 1) /\ a = d + i
    OBVIOUS
  <2>2. c \in d + 1 .. last /\ c \in Nat /\ c > 0 /\ c - 1 = a /\ a <= last
    BY <2>1
  <2>3. run[a].hash = Hash(e, a) /\ (i > 0 => Settled(r.mm, a * HB, run[a].idx))
    BY <2>1, <2>2
  <2>4. StartOf(c) = a * HB
    BY <2>2 DEF StartOf
  <2>5. run[c] = Block(r, c, run[c - 1])
    BY <1>2, <2>2
  <2>6. i \in Nat
    OBVIOUS
  <2> HIDE DEF T
  <2>7. Adds(r, e, c, run[a].idx)
    <3>1. CASE i = 0
      <4>1. c = d + 1 /\ d < last /\ run[a].idx = before.idx
        BY <3>1, <2>1, <2>2, <1>2
      <4> QED BY <4>1 DEF AddsFrom
    <3>2. CASE i > 0
      <4>1. c \in d + 2 .. last
        BY <3>2, <2>1, <2>2, <2>6
      <4> QED BY <3>2, <4>1, <2>3, <2>4 DEF AddsFrom, Adds
    <3> QED BY <3>1, <3>2, <2>6
  <2>8. Block(r, c, run[a]).hash = Hash(e, c) /\ Settled(r.mm, c * HB, Block(r, c, run[a]).idx)
    BY <2>2, <2>3, <2>7, BlockIs
  <2> QED BY <2>1, <2>2, <2>5, <2>8
<1> HIDE DEF T
<1>5. T = Nat
  <2>1. T \in SUBSET Nat
    BY DEF T
  <2> QED BY <2>1, <1>3, <1>4, Induction
<1>6. b - d \in T /\ d + (b - d) = b /\ b <= last
  BY <1>5
<1> QED BY <1>1, <1>6 DEF T

LEMMA HashesIs ==
  ASSUME NEW e, NEW n \in Nat
  PROVE  /\ Hashes(e, n) \in Seq({Hash(e, b) : b \in Nat}) /\ Len(Hashes(e, n)) = n
         /\ DOMAIN Hashes(e, n) = 1 .. n
         /\ \A b \in 1 .. n : Hashes(e, n)[b] = Hash(e, b)
<1> DEFINE S == {Hash(e, b) : b \in Nat}
<1>1. \A b \in 1 .. n : Hash(e, b) \in S
  OBVIOUS
<1> HIDE DEF S
<1>2. Hashes(e, n) \in [1 .. n -> S]
  BY <1>1 DEF Hashes
<1>3. Hashes(e, n) \in Seq(S)
  BY <1>2, SeqDef
<1>4. Len(Hashes(e, n)) = n
  BY <1>2, <1>3, LenProperties
<1> QED BY <1>2, <1>3, <1>4 DEF S, Hashes

LEMMA SameHash ==
  ASSUME NEW e1, NEW e2, NEW b \in Nat, \A i \in 1 .. b : e1[i] = e2[i]
  PROVE  Hash(e1, b) = Hash(e2, b)
BY DEF Hash

\* A call of the hasher, behind the hashes of d blocks.
LEMMA NewHashesIs ==
  ASSUME NEW r, Items(r.mm), NEW e, NEW d \in Nat, NEW n \in Nat,
         AddsFrom(r, e, d, Full(n), FirstItem(r, d))
  PROVE  NewHashes(r, Hashes(e, d), n) = [k \in 1 .. Full(n) - d |-> Hash(e, d + k)]
<1>1. PICK past, f : past = Hashes(e, d) /\ f = Full(n)
  OBVIOUS
<1>2. /\ past \in Seq({Hash(e, b) : b \in Nat}) /\ Len(past) = d
      /\ \A b \in 1 .. d : past[b] = Hash(e, b)
  BY <1>1, HashesIs
<1>3. f \in Nat
  BY <1>1, FullIs
<1>4. PICK before : before = [hash |-> IF d = 0 THEN <<>> ELSE Last(past), idx |-> FirstItem(r, d)]
  OBVIOUS
<1>5. before.hash = Hash(e, d) /\ AddsFrom(r, e, d, f, before.idx)
  <2>1. CASE d = 0
    <3>1. Hash(e, 0) = <<>>
      BY HashIsSeq, EmptySeq
    <3> QED BY <2>1, <3>1, <1>1, <1>4
  <2>2. CASE d # 0
    <3>1. d \in 1 .. d
      BY <2>2
    <3>2. Last(past) = Hash(e, d)
      BY <3>1, <1>2, LastIs
    <3> QED BY <2>2, <3>2, <1>1, <1>4
  <2> QED BY <2>1, <2>2
<1>6. PICK run : run = Run(r, d, before, f)
  OBVIOUS
<1>7. NewHashes(r, past, n) = [k \in 1 .. f - d |-> run[d + k].hash]
  BY <1>1, <1>2, <1>4, <1>6 DEF NewHashes
<1>8. \A k \in 1 .. f - d : run[d + k].hash = Hash(e, d + k)
  <2> TAKE k \in 1 .. f - d
  <2>1. d <= f /\ d + k \in d .. f
    BY <1>3
  <2> QED BY <2>1, <1>3, <1>5, <1>6, RunHashes
<1> QED BY <1>1, <1>7, <1>8

-----------------------------------------------------------------------------
(* Requests.                                                               *)

LEMMA RequestIs ==
  ASSUME NEW r \in Requests
  PROVE  /\ r.plen \in Nat /\ r.plen > 0 /\ r.plen <= MaxPrompt /\ r.with \in Variants
         /\ Items(r.mm) /\ \A k \in 1 .. Len(r.mm) : EndOf(r.mm[k]) <= r.plen
<1>1. PICK p \in 1 .. MaxPrompt : r \in [plen : {p}, mm : Layouts(p), with : Variants]
  BY DEF Requests
<1>2. r.plen = p /\ r.mm \in Layouts(p) /\ r.with \in Variants
  BY <1>1
<1>3. MaxPrompt \in Nat
  BY BoundsAssumption
<1>4. PICK mm : mm = r.mm
  OBVIOUS
<1> DEFINE S == [id : DOMAIN ItemLength, offset : 0 .. p - 1]
<1>5. /\ mm \in BoundedSeq(S, MaxItems)
      /\ \A k \in DOMAIN mm : EndOf(mm[k]) <= p
      /\ \A k \in 2 .. Len(mm) : EndOf(mm[k - 1]) <= mm[k].offset
  BY <1>2, <1>4 DEF Layouts
<1>6. S \subseteq [id : DOMAIN ItemLength, offset : Nat]
  OBVIOUS
<1> HIDE DEF S
<1>7. PICK m \in Nat : mm \in [1 .. m -> S]
  <2>1. mm \in UNION {[1 .. k -> S] : k \in 0 .. MaxItems}
    BY <1>5 DEF BoundedSeq, SeqOf
  <2>2. PICK k \in 0 .. MaxItems : mm \in [1 .. k -> S]
    BY <2>1
  <2>3. MaxItems \in Nat
    BY BoundsAssumption
  <2>4. k \in Nat
    BY <2>2, <2>3
  <2> QED BY <2>2, <2>4
<1>8. mm \in Seq(S)
  BY <1>7, SeqDef
<1>9. Len(mm) = m
  BY <1>7, <1>8, LenProperties
<1>10. mm \in [1 .. Len(mm) -> [id : DOMAIN ItemLength, offset : Nat]]
  BY <1>6, <1>7, <1>9
<1>11. Items(mm)
  BY <1>5, <1>9, <1>10 DEF Items
<1>12. \A k \in 1 .. Len(mm) : EndOf(mm[k]) <= p
  BY <1>5, <1>7, <1>9
<1> QED BY <1>2, <1>3, <1>4, <1>11, <1>12

\* A request in which a block passes over items.
Short(r) == 0 < Full(r.plen) /\ Cardinality(InTail(r)) > 1

LEMMA PassedOverIs ==
  ASSUME NEW r, NEW b PROVE PassedOver(r, b) <=> Short(r) /\ Full(r.plen) < b
BY DEF PassedOver, Short

\* What the blocks of a request add when they are hashed in one call, and when
\* those of its prompt are hashed first.
Whole(r) == [b \in Nat |-> Entry(r, b)]
Made(r)  == [b \in Nat |-> IF Short(r) /\ b = Full(r.plen) + 1 THEN ShortEntry(r, b) ELSE Entry(r, b)]

LEMMA TailIs ==
  ASSUME NEW r \in Requests, NEW s, s = Full(r.plen) * HB
  PROVE  /\ InTail(r) = {k \in 1 .. Len(r.mm) : EndOf(r.mm[k]) > s}
         /\ IsFiniteSet(InTail(r)) /\ Cardinality(InTail(r)) \in Nat
<1>1. Len(r.mm) \in Nat /\ DOMAIN r.mm = 1 .. Len(r.mm)
  BY RequestIs DEF Items
<1>2. InTail(r) = {k \in 1 .. Len(r.mm) : EndOf(r.mm[k]) > s}
  BY <1>1 DEF InTail, HB
<1>3. InTail(r) \subseteq 1 .. Len(r.mm) /\ IsFiniteSet(1 .. Len(r.mm))
  BY <1>1, <1>2, FS_Interval
<1> QED BY <1>2, <1>3, FS_Subset, FS_CardinalityType

\* Of a set with several elements one is not the largest.
LEMMA AnotherInTail ==
  ASSUME NEW r \in Requests, Cardinality(InTail(r)) > 1
  PROVE  \E i \in InTail(r) : i < Len(r.mm)
<1>1. Len(r.mm) \in Nat
  BY RequestIs DEF Items
<1>2. InTail(r) \subseteq 1 .. Len(r.mm) /\ IsFiniteSet(InTail(r)) /\ Cardinality(InTail(r)) \in Nat
  BY TailIs
<1> SUFFICES ASSUME \A i \in InTail(r) : ~ (i < Len(r.mm)) PROVE FALSE
  OBVIOUS
<1>3. InTail(r) \subseteq {Len(r.mm)}
  BY <1>1, <1>2
<1>4. IsFiniteSet({Len(r.mm)}) /\ Cardinality({Len(r.mm)}) = 1
  BY FS_Singleton
<1>5. Cardinality(InTail(r)) <= Cardinality({Len(r.mm)})
  BY <1>3, <1>4, FS_Subset
<1> QED BY <1>2, <1>4, <1>5

LEMMA PlenFits ==
  ASSUME NEW r \in Requests, NEW d \in Nat, d >= Full(r.plen), NEW k \in 1 .. Len(r.mm)
  PROVE  EndOf(r.mm[k]) \in Nat /\ EndOf(r.mm[k]) <= (d + 1) * HB
<1>1. /\ r.plen \in Nat /\ Items(r.mm) /\ EndOf(r.mm[k]) <= r.plen
  BY RequestIs
<1>2. PICK f : f = Full(r.plen)
  OBVIOUS
<1>3. f \in Nat /\ r.plen < f * HB + HB /\ f <= d
  BY <1>1, <1>2, FullIs
<1>4. (f + 1) * HB <= (d + 1) * HB /\ (f + 1) * HB = f * HB + HB
      /\ f * HB \in Nat /\ (d + 1) * HB \in Nat
  BY <1>3, Sizes
<1>5. EndOf(r.mm[k]) \in Nat
  BY <1>1, ItemIs
<1> QED BY <1>1, <1>3, <1>4, <1>5, Sizes

\* With at most one item in the tail, only the last can reach into it.
LEMMA OnlyLastInTail ==
  ASSUME NEW r \in Requests, ~ (Cardinality(InTail(r)) > 1),
         NEW i \in 1 .. Len(r.mm), i <= Len(r.mm) - 1
  PROVE  EndOf(r.mm[i]) <= Full(r.plen) * HB
<1>1. PICK mm, L, s, over : /\ mm = r.mm /\ L = Len(mm) /\ s = Full(r.plen) * HB
                            /\ over = InTail(r)
  OBVIOUS
<1>2. Items(mm) /\ L \in Nat /\ s \in Nat
  <2>1. Items(r.mm) /\ r.plen \in Nat
    BY RequestIs
  <2>2. Full(r.plen) \in Nat
    BY <2>1, FullIs
  <2>3. Full(r.plen) * HB \in Nat
    BY <2>2, Sizes
  <2> QED BY <2>1, <2>3, <1>1 DEF Items
<1>3. i \in 1 .. L /\ L \in 1 .. L /\ i < L
  BY <1>1, <1>2
<1>4. EndOf(mm[i]) \in Nat
  BY <1>1, <1>2, <1>3, ItemIs
<1> SUFFICES ASSUME EndOf(mm[i]) > s PROVE FALSE
  BY <1>1, <1>2, <1>4
<1>5. EndOf(mm[i]) <= mm[L].offset /\ mm[L].offset < EndOf(mm[L])
      /\ mm[L].offset \in Nat /\ EndOf(mm[L]) \in Nat
  BY <1>1, <1>2, <1>3, InOrder, ItemIs
<1>6. EndOf(mm[L]) > s
  BY <1>2, <1>4, <1>5
<1>7. /\ over = {k \in 1 .. L : EndOf(mm[k]) > s}
      /\ IsFiniteSet(over) /\ Cardinality(over) \in Nat
  BY <1>1, TailIs
<1>8. {i, L} \subseteq over
  BY <1>3, <1>6, <1>7
<1>9. Cardinality({i, L}) = 2
  <2>1. IsFiniteSet({i}) /\ Cardinality({i}) = 1
    BY FS_Singleton
  <2>2. {i, L} = {i} \cup {L} /\ L \notin {i}
    BY <1>3
  <2>3. Cardinality({i} \cup {L}) = Cardinality({i}) + 1
    BY <2>1, <2>2, FS_AddElement
  <2>4. ASSUME NEW n, NEW m, m = 1, n = m + 1 PROVE n = 2
    BY <2>4
  <2>5. Cardinality({i} \cup {L}) = 2
    BY <2>1, <2>3, <2>4
  <2> QED BY <2>2, <2>5
<1>10. Cardinality({i, L}) <= Cardinality(over)
  BY <1>7, <1>8, FS_Subset
<1> QED BY <1>1, <1>7, <1>9, <1>10

\* A call behind the hashes of d blocks, all of the prompt's among them.
LEMMA ResumeAdds ==
  ASSUME NEW r \in Requests, NEW d \in Nat, d >= Full(r.plen)
  PROVE  Adds(r, Made(r), d + 1, FirstItem(r, d))
<1>0. Items(r.mm) /\ r.plen \in Nat /\ Len(r.mm) \in Nat
  BY RequestIs DEF Items
<1>1. PICK f : f = Full(r.plen)
  OBVIOUS
<1>2. f \in Nat /\ f <= d
  BY <1>0, <1>1, FullIs
<1>3. StartOf(d + 1) = d * HB /\ d * HB \in Nat /\ d + 1 \in Nat
  <2>1. (d + 1) - 1 = d
    OBVIOUS
  <2> QED BY <2>1, Sizes DEF StartOf
<1>4. Made(r)[d + 1] = IF Short(r) /\ d + 1 = f + 1 THEN ShortEntry(r, d + 1) ELSE Entry(r, d + 1)
  BY <1>1, <1>3 DEF Made
<1>5. CASE d = 0
  <2>1. FirstItem(r, d) = 0
    BY <1>5 DEF FirstItem
  <2>2. 0 \in 0 .. Len(r.mm) /\ ~ (0 < 0) /\ \A i \in 1 .. Len(r.mm) : ~ (i <= 0)
    BY <1>0
  <2>3. Settled(r.mm, d * HB, FirstItem(r, d))
    BY <2>1, <2>2 DEF Settled
  <2>4. ~ Short(r)
    BY <1>1, <1>2, <1>5 DEF Short
  <2> QED BY <2>3, <2>4, <1>3, <1>4 DEF Adds
<1>6. CASE d > f
  <2>1. FirstItem(r, d) = -1
    BY <1>2, <1>6 DEF FirstItem
  <2>2. d - 1 \in Nat /\ d - 1 >= Full(r.plen) /\ (d - 1) + 1 = d
    BY <1>1, <1>2, <1>6
  <2>3. \A i \in 1 .. Len(r.mm) : EndOf(r.mm[i]) <= d * HB
    BY <2>2, PlenFits
  <2>4. Settled(r.mm, d * HB, FirstItem(r, d))
    BY <2>1, <2>3 DEF Settled
  <2>5. d + 1 # f + 1
    BY <1>2, <1>6
  <2> QED BY <2>4, <2>5, <1>3, <1>4 DEF Adds
<1>7. CASE d = f /\ d > 0
  <2>1. FirstItem(r, d) = -1
    BY <1>7 DEF FirstItem
  <2>2. CASE Cardinality(InTail(r)) > 1
    <3>1. Short(r)
      BY <2>2, <1>1, <1>7 DEF Short
    <3>2. \A i \in 1 .. Len(r.mm) : EndOf(r.mm[i]) <= (d + 1) * HB
      BY PlenFits
    <3>3. PICK i \in InTail(r) : i < Len(r.mm)
      BY <2>2, AnotherInTail
    <3>4. i \in 1 .. Len(r.mm) /\ EndOf(r.mm[i]) > d * HB
      BY <3>3, <1>1, <1>7, TailIs
    <3>5. Len(r.mm) > 0 /\ EndOf(Last(r.mm)) > d * HB
      <4> SUFFICES ASSUME ~ (EndOf(Last(r.mm)) > d * HB) PROVE FALSE
        BY <3>4, <1>0
      <4>1. Len(r.mm) > 0 /\ Len(r.mm) \in 1 .. Len(r.mm)
        BY <3>4, <1>0
      <4>2. EndOf(Last(r.mm)) \in Nat
        BY <4>1, <1>0, LastIs, ItemIs
      <4>3. EndOf(Last(r.mm)) <= d * HB
        BY <4>2, <1>3
      <4>4. EndOf(r.mm[i]) <= d * HB
        BY <4>1, <4>3, <3>4, <1>0, <1>3, AllOver
      <4>5. EndOf(r.mm[i]) \in Nat
        BY <3>4, <1>0, ItemIs
      <4> QED BY <4>4, <4>5, <3>4, <1>3
    <3> QED BY <3>1, <3>2, <3>5, <2>1, <1>3, <1>4, <1>7 DEF Adds
  <2>3. CASE ~ (Cardinality(InTail(r)) > 1)
    <3>1. ~ Short(r)
      BY <2>3 DEF Short
    <3>2. \A i \in 1 .. Len(r.mm) : i <= Len(r.mm) - 1 => EndOf(r.mm[i]) <= d * HB
      BY <2>3, <1>1, <1>7, OnlyLastInTail
    <3>3. Settled(r.mm, d * HB, FirstItem(r, d))
      BY <2>1, <3>2 DEF Settled
    <3> QED BY <3>1, <3>3, <1>3, <1>4 DEF Adds
  <2> QED BY <2>2, <2>3
<1> QED BY <1>2, <1>5, <1>6, <1>7

-----------------------------------------------------------------------------
(* The hashes of a request.                                                *)

\* The hashes of a request are those of its full blocks.
HInv == /\ req \in Requests /\ num_tokens \in Nat /\ num_tokens >= req.plen
        /\ block_hashes = Hashes(Made(req), Full(num_tokens))

LEMMA WholeHashes ==
  ASSUME NEW r \in Requests, NEW n \in Nat
  PROVE  NewHashes(r, <<>>, n) = Hashes(Whole(r), Full(n))
<1>1. Items(r.mm) /\ Len(r.mm) \in Nat
  BY RequestIs DEF Items
<1>2. <<>> = Hashes(Whole(r), 0)
  BY HashesIs, EmptySeq
<1>3. PICK f : f = Full(n)
  OBVIOUS
<1>4. f \in Nat
  BY <1>3, FullIs
<1>5. AddsFrom(r, Whole(r), 0, Full(n), FirstItem(r, 0))
  <2>1. FirstItem(r, 0) = 0
    BY DEF FirstItem
  <2>2. 0 \in 0 .. Len(r.mm) /\ ~ (0 < 0) /\ \A i \in 1 .. Len(r.mm) : ~ (i <= 0)
    BY <1>1
  <2>3. Settled(r.mm, StartOf(0 + 1), FirstItem(r, 0))
    BY <2>1, <2>2 DEF Settled
  <2>4. \A c \in Nat : Whole(r)[c] = Entry(r, c)
    BY DEF Whole
  <2>5. 0 + 1 \in Nat /\ 0 + 2 .. f \subseteq Nat
    BY <1>4
  <2> QED BY <2>3, <2>4, <2>5, <1>3 DEF Adds, AddsFrom
<1>6. NewHashes(r, <<>>, n) = [k \in 1 .. f - 0 |-> Hash(Whole(r), 0 + k)]
  BY <1>1, <1>2, <1>3, <1>5, NewHashesIs
<1>7. f - 0 = f /\ \A k \in 1 .. f : 0 + k = k
  BY <1>4
<1> QED BY <1>3, <1>6, <1>7 DEF Hashes

\* Whether items are passed over or not, the blocks before add the same.
LEMMA MadeIs ==
  ASSUME NEW r \in Requests, NEW b \in Nat, ~ PassedOver(r, b)
  PROVE  \A i \in 1 .. b : Made(r)[i] = Entry(r, i) /\ Whole(r)[i] = Entry(r, i)
<1> TAKE i \in 1 .. b
<1>1. i \in Nat /\ i <= b
  OBVIOUS
<1>2. Full(r.plen) \in Nat
  BY RequestIs, FullIs
<1>3. ~ (Short(r) /\ i = Full(r.plen) + 1)
  BY <1>1, <1>2, PassedOverIs
<1> QED BY <1>1, <1>3 DEF Made, Whole

LEMMA FirstHashes ==
  ASSUME NEW r \in Requests
  PROVE  NewHashes(r, <<>>, r.plen) = Hashes(Made(r), Full(r.plen))
<1>1. r.plen \in Nat /\ Full(r.plen) \in Nat
  BY RequestIs, FullIs
<1>2. ASSUME NEW b \in 1 .. Full(r.plen) PROVE Hash(Whole(r), b) = Hash(Made(r), b)
  <2>1. b \in Nat /\ ~ PassedOver(r, b)
    BY <1>1, PassedOverIs
  <2> QED BY <2>1, MadeIs, SameHash
<1>3. Hashes(Whole(r), Full(r.plen)) = Hashes(Made(r), Full(r.plen))
  BY <1>2 DEF Hashes
<1> QED BY <1>1, <1>3, WholeHashes

LEMMA MoreHashes ==
  ASSUME NEW r \in Requests, NEW m \in Nat, m >= r.plen, NEW n \in Nat, n >= m
  PROVE  Hashes(Made(r), Full(m)) \o NewHashes(r, Hashes(Made(r), Full(m)), n)
           = Hashes(Made(r), Full(n))
<1>1. PICK d, f, e : d = Full(m) /\ f = Full(n) /\ e = Made(r)
  OBVIOUS
<1>2. d \in Nat /\ f \in Nat /\ d <= f /\ d >= Full(r.plen) /\ Items(r.mm)
  BY <1>1, RequestIs, FullIs, FullGrows
<1>3. AddsFrom(r, e, d, f, FirstItem(r, d))
  <2>1. Adds(r, e, d + 1, FirstItem(r, d))
    BY <1>1, <1>2, ResumeAdds
  <2>2. Full(r.plen) \in Nat
    BY RequestIs, FullIs
  <2>3. ASSUME NEW c \in d + 2 .. f PROVE e[c] = Entry(r, c)
    <3>1. c \in Nat /\ c # Full(r.plen) + 1
      BY <1>2, <2>2
    <3> QED BY <3>1, <1>1 DEF Made
  <2> QED BY <2>1, <2>3 DEF AddsFrom
<1>4. PICK s, t, u : s = Hashes(e, d) /\ t = NewHashes(r, Hashes(e, d), n) /\ u = Hashes(e, f)
  OBVIOUS
<1>5. t = [k \in 1 .. f - d |-> Hash(e, d + k)]
  BY <1>1, <1>2, <1>3, <1>4, NewHashesIs
<1> DEFINE S == {Hash(e, b) : b \in Nat}
<1>6. /\ s \in Seq(S) /\ Len(s) = d /\ \A b \in 1 .. d : s[b] = Hash(e, b)
      /\ u \in Seq(S) /\ Len(u) = f /\ \A b \in 1 .. f : u[b] = Hash(e, b)
  BY <1>2, <1>4, HashesIs
<1>7. t \in Seq(S) /\ Len(t) = f - d
  <2>1. f - d \in Nat /\ \A k \in 1 .. f - d : Hash(e, d + k) \in S
    BY <1>2
  <2> HIDE DEF S
  <2>2. t \in [1 .. f - d -> S]
    BY <1>5, <2>1
  <2>3. t \in Seq(S)
    BY <2>1, <2>2, SeqDef
  <2> QED BY <2>1, <2>2, <2>3, LenProperties
<1> HIDE DEF S
<1>8. PICK w : w = s \o t
  OBVIOUS
<1>9. /\ w \in Seq(S) /\ Len(w) = Len(s) + Len(t)
       /\ \A i \in 1 .. Len(s) + Len(t) : w[i] = IF i <= Len(s) THEN s[i] ELSE t[i - Len(s)]
  BY <1>6, <1>7, <1>8, ConcatProperties
<1>10. Len(s) = d /\ Len(s) + Len(t) = f
  BY <1>2, <1>6, <1>7
<1>11. ASSUME NEW i \in 1 .. f PROVE w[i] = u[i]
  <2>1. w[i] = IF i <= d THEN s[i] ELSE t[i - d]
    BY <1>9, <1>10
  <2>2. CASE i <= d
    <3>1. i \in 1 .. d
      BY <2>2, <1>2
    <3> QED BY <2>1, <2>2, <3>1, <1>6
  <2>3. CASE i > d
    <3>1. i - d \in 1 .. f - d /\ d + (i - d) = i /\ ~ (i <= d)
      BY <2>3, <1>2
    <3>2. t[i - d] = Hash(e, d + (i - d))
      BY <3>1, <1>5
    <3> QED BY <2>1, <3>1, <3>2, <1>6
  <2> QED BY <2>2, <2>3, <1>2
<1>12. w = u
  BY <1>6, <1>9, <1>10, <1>11, SeqEqual
<1> QED BY <1>1, <1>4, <1>8, <1>12

LEMMA InitHInv == Init => HInv
<1> SUFFICES ASSUME Init PROVE HInv
  OBVIOUS
<1>1. req \in Requests /\ num_tokens = req.plen /\ block_hashes = NewHashes(req, <<>>, num_tokens)
  BY DEF Init
<1>2. num_tokens \in Nat /\ num_tokens >= req.plen
  BY <1>1, RequestIs
<1> QED BY <1>1, <1>2, FirstHashes DEF HInv

LEMMA NextHInv == HInv /\ [Next]_vars => HInv'
<1> SUFFICES ASSUME HInv, [Next]_vars PROVE HInv'
  OBVIOUS
<1>1. CASE UNCHANGED vars
  BY <1>1 DEF HInv, vars
<1>2. ASSUME NEW m \in 1 .. MaxTokens, AppendTokens(m) PROVE HInv'
  <2>1. /\ num_tokens' = num_tokens + m /\ req' = req
        /\ block_hashes' = block_hashes \o NewHashes(req, block_hashes, num_tokens')
    BY <1>2 DEF AppendTokens
  <2>2. /\ req \in Requests /\ num_tokens \in Nat /\ num_tokens >= req.plen
        /\ block_hashes = Hashes(Made(req), Full(num_tokens)) /\ req.plen \in Nat
    BY RequestIs DEF HInv
  <2>3. MaxTokens \in Nat
    BY BoundsAssumption
  <2>4. num_tokens' \in Nat /\ num_tokens' >= num_tokens /\ num_tokens' >= req.plen
    BY <2>1, <2>2, <2>3
  <2>5. block_hashes' = Hashes(Made(req), Full(num_tokens'))
    BY <2>1, <2>2, <2>4, MoreHashes
  <2>6. /\ req' \in Requests /\ num_tokens' >= req'.plen
        /\ block_hashes' = Hashes(Made(req'), Full(num_tokens'))
    BY <2>1, <2>2, <2>4, <2>5
  <2> QED BY <2>4, <2>6 DEF HInv
<1>3. CASE Finished
  BY <1>1, <1>3 DEF Finished
<1> QED BY <1>1, <1>2, <1>3 DEF Next

LEMMA DivIs ==
  ASSUME NEW n \in Nat, NEW d \in Nat, d > 0
  PROVE  n \div d \in Nat /\ (n \div d) * d <= n /\ n < (n \div d) * d + d
OBVIOUS

LEMMA TimesGrows ==
  ASSUME NEW a \in Nat, NEW b \in Nat, NEW d \in Nat, a <= b
  PROVE  a * d <= b * d /\ a * d \in Nat /\ b * d \in Nat
<1>1. PICK e \in Nat : b = a + e
  <2>1. b - a \in Nat /\ b = a + (b - a)
    OBVIOUS
  <2> QED BY <2>1
<1>2. b * d = a * d + e * d /\ a * d \in Nat /\ e * d \in Nat
  BY <1>1
<1> QED BY <1>2

LEMMA TimesAgain ==
  ASSUME NEW a \in Nat, NEW b \in Nat, NEW d \in Nat PROVE (a * b) * d = a * (b * d)
OBVIOUS

\* A group's block is a whole number of hash blocks.
LEMMA ScaleIs ==
  ASSUME NEW t \in TargetSizes
  PROVE  t \in Nat /\ t > 0 /\ t \div HB \in Nat /\ t \div HB > 0 /\ t = (t \div HB) * HB
<1>1. t \in Nat /\ t > 0 /\ t % HB = 0
  BY SizeAssumption DEF HB
<1>2. t = (t \div HB) * HB + (t % HB) /\ t \div HB \in Nat
  BY <1>1, Sizes
<1>3. t = (t \div HB) * HB
  <2>1. (t \div HB) * HB \in Nat
    BY <1>2, Sizes
  <2> QED BY <1>1, <1>2, <2>1
<1>4. t \div HB # 0
  <2> SUFFICES ASSUME t \div HB = 0 PROVE FALSE
    OBVIOUS
  <2>1. t = 0 * HB
    BY <1>3
  <2> QED BY <2>1, <1>1, Sizes
<1> QED BY <1>1, <1>2, <1>3, <1>4

LEMMA ViewLength ==
  ASSUME NEW t \in TargetSizes, NEW n \in Nat
  PROVE  Full(n) \div (t \div HB) = n \div t
<1>1. PICK s, f, g, q : s = t \div HB /\ f = Full(n) /\ g = f \div s /\ q = n \div t
  OBVIOUS
<1>2. t \in Nat /\ t > 0 /\ s \in Nat /\ s > 0 /\ t = s * HB
  BY <1>1, ScaleIs
<1>3. f \in Nat /\ f * HB <= n /\ n < f * HB + HB /\ f * HB \in Nat
  BY <1>1, FullIs, Sizes
<1>4. g \in Nat /\ g * s <= f /\ f < g * s + s
  BY <1>1, <1>2, <1>3, DivIs
<1>5. q \in Nat /\ q * t <= n /\ n < q * t + t
  BY <1>1, <1>2, DivIs
<1>6. ASSUME q >= g + 1 PROVE FALSE
  <2>1. (g + 1) * s <= q * s /\ (g + 1) * s = g * s + s /\ q * s \in Nat /\ g * s \in Nat
    <3>1. g + 1 \in Nat
      BY <1>4
    <3>2. (g + 1) * s <= q * s /\ q * s \in Nat
      BY <3>1, <1>2, <1>5, <1>6, TimesGrows
    <3>3. (g + 1) * s = g * s + s /\ g * s \in Nat
      BY <1>2, <1>4
    <3> QED BY <3>2, <3>3
  <2>2. f + 1 <= q * s
    BY <2>1, <1>2, <1>3, <1>4
  <2>3. (f + 1) * HB <= (q * s) * HB
    <3>1. f + 1 \in Nat
      BY <1>3
    <3> QED BY <3>1, <2>1, <2>2, Sizes, TimesGrows
  <2>4. (f + 1) * HB = f * HB + HB
    BY <1>3, Sizes
  <2>5. (q * s) * HB = q * t
    BY <1>2, <1>5, Sizes, TimesAgain
  <2>6. q * t \in Nat
    BY <1>2, <1>5
  <2> QED BY <2>3, <2>4, <2>5, <2>6, <1>3, <1>5, Sizes
<1>7. ASSUME g >= q + 1 PROVE FALSE
  <2>0. q + 1 \in Nat
    BY <1>5
  <2>1. (q + 1) * s <= g * s /\ (q + 1) * s \in Nat /\ g * s \in Nat
    BY <2>0, <1>2, <1>4, <1>7, TimesGrows
  <2>2. (q + 1) * s <= f
    BY <2>1, <1>3, <1>4
  <2>3. ((q + 1) * s) * HB <= f * HB
    BY <2>1, <2>2, <1>3, Sizes, TimesGrows
  <2>4. ((q + 1) * s) * HB = (q + 1) * t
    BY <2>0, <1>2, Sizes, TimesAgain
  <2>5. (q + 1) * t = q * t + t /\ q * t \in Nat
    BY <1>2, <1>5
  <2> QED BY <2>3, <2>4, <2>5, <1>2, <1>3, <1>5
<1> QED BY <1>1, <1>4, <1>5, <1>6, <1>7

\* The view of a group's block size on the hashes of n tokens.
LEMMA ListIs ==
  ASSUME NEW t \in TargetSizes, NEW e, NEW n \in Nat
  PROVE  LET view == BlockHashListWithBlockSize(Hashes(e, Full(n)), t)
         IN /\ Len(view) = n \div t /\ n \div t \in Nat /\ DOMAIN view = 1 .. n \div t
            /\ \A i \in 1 .. n \div t : /\ i * (t \div HB) \in 1 .. Full(n)
                                        /\ view[i] = Hash(e, i * (t \div HB))
<1>1. PICK s, f, q, hs : s = t \div HB /\ f = Full(n) /\ q = n \div t /\ hs = Hashes(e, f)
  OBVIOUS
<1>2. t \in Nat /\ t > 0 /\ s \in Nat /\ s > 0
  BY <1>1, ScaleIs
<1>3. f \in Nat /\ f \div s = q
  BY <1>1, FullIs, ViewLength
<1>4. q \in Nat /\ q * s <= f
  BY <1>2, <1>3, DivIs
<1>5. Len(hs) = f /\ \A b \in 1 .. f : hs[b] = Hash(e, b)
  BY <1>1, <1>3, HashesIs
<1>6. PICK view : view = BlockHashListWithBlockSize(hs, t)
  OBVIOUS
<1>7. view = [i \in 1 .. q |-> hs[i * s]]
  BY <1>1, <1>3, <1>5, <1>6 DEF BlockHashListWithBlockSize, _get_value_at, HB
<1>8. ASSUME NEW i \in 1 .. q PROVE i * s \in 1 .. f
  <2>1. i \in Nat /\ i <= q /\ i >= 1
    BY <1>4
  <2>2. i * s <= q * s /\ i * s \in Nat /\ 1 * s <= i * s
    BY <2>1, <1>2, <1>4, TimesGrows
  <2> QED BY <2>2, <1>2, <1>3, <1>4
<1>9. Len(view) = q
  <2> DEFINE S == {hs[b] : b \in 1 .. f}
  <2>1. \A i \in 1 .. q : hs[i * s] \in S
    BY <1>8
  <2> HIDE DEF S
  <2>2. view \in [1 .. q -> S]
    BY <1>7, <2>1
  <2>3. view \in Seq(S)
    BY <1>4, <2>2, SeqDef
  <2> QED BY <1>4, <2>2, <2>3, LenProperties
<1>10. \A i \in 1 .. q : view[i] = Hash(e, i * s)
  BY <1>5, <1>7, <1>8
<1>11. DOMAIN view = 1 .. q
  BY <1>7
<1> QED BY <1>1, <1>4, <1>6, <1>8, <1>9, <1>10, <1>11

\* A view of either kind: its i-th hash is that of the blocks up to a block c.
ViewOK(v, e, n) ==
    /\ Len(v.hashes) = n \div v.grain /\ DOMAIN v.hashes = 1 .. n \div v.grain
    /\ \A i \in DOMAIN v.hashes : /\ i \in Nat
                                  /\ \E c \in 1 .. Full(n) : /\ v.hashes[i] = Hash(e, c)
                                                             /\ i * v.grain = c * HB

LEMMA ViewIs ==
  ASSUME NEW e, NEW n \in Nat, block_hashes = Hashes(e, Full(n)), NEW v \in Views
  PROVE  ViewOK(v, e, n)
<1>1. PICK q \in Lookups :
         v = [hashes |-> resolve_block_hashes(block_hashes, q.target, q.supports, q.alignment),
              grain  |-> Grain(q.target, q.supports, q.alignment)]
  BY DEF Views
<1>2. PICK t \in TargetSizes : q.target = t
  BY DEF Lookups
<1>3. PICK fine : fine = FineGrained(q.target, q.supports, q.alignment)
  OBVIOUS
<1>4. /\ v.hashes = IF t = HB \/ fine THEN block_hashes
                    ELSE BlockHashListWithBlockSize(block_hashes, t)
      /\ v.grain = IF fine THEN HB ELSE t
  BY <1>1, <1>2, <1>3 DEF resolve_block_hashes, Grain, HB
<1>5. Full(n) \in Nat
  BY FullIs
<1>6. CASE t = HB \/ fine
  <2>1. v.hashes = Hashes(e, Full(n)) /\ v.grain = HB
    BY <1>4, <1>6
  <2>2. Full(n) = n \div HB
    BY DEF Full, HB
  <2>3. /\ Len(v.hashes) = Full(n) /\ DOMAIN v.hashes = 1 .. Full(n)
        /\ \A i \in 1 .. Full(n) : v.hashes[i] = Hash(e, i)
    BY <2>1, <1>5, HashesIs
  <2>4. ASSUME NEW i \in DOMAIN v.hashes
        PROVE  i \in Nat /\ \E c \in 1 .. Full(n) : v.hashes[i] = Hash(e, c) /\ i * v.grain = c * HB
    BY <2>1, <2>3, <1>5
  <2> QED BY <2>1, <2>2, <2>3, <2>4 DEF ViewOK
<1>7. CASE ~ (t = HB \/ fine)
  <2>1. v.hashes = BlockHashListWithBlockSize(Hashes(e, Full(n)), t) /\ v.grain = t
    BY <1>4, <1>7
  <2>2. PICK s, m : s = t \div HB /\ m = n \div t
    OBVIOUS
  <2>3. /\ Len(v.hashes) = m /\ m \in Nat /\ DOMAIN v.hashes = 1 .. m
        /\ \A i \in 1 .. m : i * s \in 1 .. Full(n) /\ v.hashes[i] = Hash(e, i * s)
    BY <2>1, <2>2, ListIs
  <2>4. t = s * HB /\ s \in Nat
    BY <2>2, ScaleIs
  <2>5. ASSUME NEW i \in DOMAIN v.hashes
        PROVE  i \in Nat /\ \E c \in 1 .. Full(n) : v.hashes[i] = Hash(e, c) /\ i * v.grain = c * HB
    <3>1. i \in Nat
      BY <2>3
    <3>2. (i * s) * HB = i * (s * HB)
      BY <3>1, <2>4, Sizes, TimesAgain
    <3> QED BY <3>1, <3>2, <2>1, <2>3, <2>4
  <2> QED BY <2>1, <2>2, <2>3, <2>5 DEF ViewOK
<1> QED BY <1>6, <1>7

-----------------------------------------------------------------------------
(* Hashes name prefixes.                                                   *)

Names == (DOMAIN ItemLength) \cup {"lora", "salt", "embeds"}
AnyKey == Names \X Int

LoraKey == <<"lora", 0>>
SaltKey == <<"salt", 0>>
Count(r, start, end) == Cardinality({j \in start .. end - 1 : j < r.plen})

\* What the keys of a block are made of.
LoraPart(r) == IF r.with.lora = <<>> THEN {} ELSE {LoraKey}
SaltPart(r, start) == IF start = 0 /\ r.with.salt # <<>> THEN {SaltKey} ELSE {}
EmbedsPart(r, start, end) == IF r.with.embeds THEN {<<"embeds", Count(r, start, end)>>} ELSE {}

LEMMA WithIs ==
  ASSUME NEW r \in Requests
  PROVE  r.with.lora \in {<<>>, <<LoraKey>>} /\ r.with.salt \in {<<>>, <<SaltKey>>}
<1>1. r.with \in Variants
  BY RequestIs
<1>2. PICK w : w = r.with
  OBVIOUS
<1>3. \/ w = [lora |-> <<>>, salt |-> <<>>, embeds |-> FALSE]
      \/ w = [lora |-> <<LoraKey>>, salt |-> <<>>, embeds |-> FALSE]
      \/ w = [lora |-> <<>>, salt |-> <<SaltKey>>, embeds |-> FALSE]
      \/ w = [lora |-> <<>>, salt |-> <<>>, embeds |-> TRUE]
  BY <1>1, <1>2 DEF Variants, LoraKey, SaltKey
<1>4. w.lora \in {<<>>, <<LoraKey>>} /\ w.salt \in {<<>>, <<SaltKey>>}
  <2>1. PICK a, b : a = <<LoraKey>> /\ b = <<SaltKey>>
    OBVIOUS
  <2> QED BY <1>3, <2>1
<1> QED BY <1>2, <1>4

LEMMA OneKey ==
  ASSUME NEW a \in Names, NEW d \in Int
  PROVE  <<a, d>> \in AnyKey /\ <<<<a, d>>>> \in Seq(AnyKey) /\ Elements(<<<<a, d>>>>) = {<<a, d>>}
<1>1. <<a, d>> \in AnyKey
  BY PairIn DEF AnyKey
<1> QED BY <1>1, OneElement

LEMMA NotEmpty == ASSUME NEW x PROVE <<x>> # <<>>
OBVIOUS

LEMMA CountIs ==
  ASSUME NEW r, r.plen \in Nat, NEW start \in Nat, NEW end \in Nat, start < end
  PROVE  /\ Count(r, start, end) \in Nat
         /\ \A j \in start .. end - 1 : j < r.plen <=> j - start < Count(r, start, end)
<1>1. PICK p, e : p = r.plen /\ e = IF r.plen < end THEN r.plen ELSE end
  OBVIOUS
<1>2. p \in Nat /\ e \in Nat
  BY <1>1
<1>3. {j \in start .. end - 1 : j < p} = start .. e - 1
  BY <1>1, <1>2
<1>4. Cardinality(start .. e - 1) = IF start > e - 1 THEN 0 ELSE (e - 1) - start + 1
  <2>1. PICK d : d = e - 1
    OBVIOUS
  <2>2. d \in Int /\ start \in Int
    BY <1>2, <2>1
  <2>3. Cardinality(start .. d) = IF start > d THEN 0 ELSE d - start + 1
    BY <2>2, FS_Interval
  <2> QED BY <2>1, <2>3
<1>5. PICK c : c = Count(r, start, end)
  OBVIOUS
<1>6. c = IF start > e - 1 THEN 0 ELSE (e - 1) - start + 1
  BY <1>1, <1>3, <1>4, <1>5 DEF Count
<1> QED BY <1>1, <1>2, <1>5, <1>6

LEMMA MmKeysIs ==
  ASSUME NEW r \in Requests, NEW start \in Nat, NEW end \in Nat, start < end
  PROVE  /\ MmKeys(r.mm, start, end) \in Seq(Keys)
         /\ Elements(MmKeys(r.mm, start, end)) = KeysFrom(r.mm, 1, start, end)
<1>1. Items(r.mm) /\ Len(r.mm) \in Nat
  BY RequestIs DEF Items
<1>2. 0 \in 0 .. Len(r.mm) /\ ~ (0 < 0) /\ \A i \in 1 .. Len(r.mm) : ~ (i <= 0)
  BY <1>1
<1>3. Settled(r.mm, start, 0)
  BY <1>2 DEF Settled
<1> QED BY <1>1, <1>3, GenIs

\* The keys of a block: those of its items and of what the request comes with.
LEMMA ExtraIs ==
  ASSUME NEW r \in Requests, NEW start \in Nat, NEW end \in Nat, start < end, NEW m \in Seq(Keys)
  PROVE  Elements(ExtraKeys(r, start, end, m))
           = ((LoraPart(r) \cup Elements(m)) \cup SaltPart(r, start)) \cup EmbedsPart(r, start, end)
<1>1. PICK a, s, e : /\ a = r.with.lora
                     /\ s = SaltKeys(r, start) /\ e = EmbedsKeys(r, start, end)
  OBVIOUS
<1>2. a \in Seq(AnyKey) /\ Elements(a) = LoraPart(r)
  <2>1. "lora" \in Names /\ 0 \in Int
    BY DEF Names
  <2>2. <<LoraKey>> \in Seq(AnyKey) /\ Elements(<<LoraKey>>) = {LoraKey} /\ <<LoraKey>> # <<>>
    BY <2>1, OneKey, NotEmpty DEF LoraKey
  <2> QED BY <2>2, <1>1, WithIs, NoElement DEF LoraPart
<1>3. m \in Seq(AnyKey)
  <2>1. Keys \subseteq AnyKey
    BY DEF Keys, AnyKey, Names
  <2> QED BY <2>1, SeqMonotonic
<1>4. s \in Seq(AnyKey) /\ Elements(s) = SaltPart(r, start)
  <2>1. "salt" \in Names /\ 0 \in Int
    BY DEF Names
  <2>2. <<SaltKey>> \in Seq(AnyKey) /\ Elements(<<SaltKey>>) = {SaltKey} /\ <<SaltKey>> # <<>>
    BY <2>1, OneKey, NotEmpty DEF SaltKey
  <2>3. <<>> \in Seq(AnyKey) /\ Elements(<<>>) = {}
    BY NoElement
  <2>4. CASE start = 0
    BY <2>2, <2>3, <2>4, <1>1, WithIs DEF SaltPart, SaltKeys
  <2>5. CASE start # 0
    BY <2>3, <2>5, <1>1 DEF SaltPart, SaltKeys
  <2> QED BY <2>4, <2>5
<1>5. e \in Seq(AnyKey) /\ Elements(e) = EmbedsPart(r, start, end)
  <2>1. PICK c : c = Count(r, start, end)
    OBVIOUS
  <2>2. c \in Int
    BY <2>1, RequestIs, CountIs
  <2>3. "embeds" \in Names
    BY DEF Names
  <2>4. <<<<"embeds", c>>>> \in Seq(AnyKey) /\ Elements(<<<<"embeds", c>>>>) = {<<"embeds", c>>}
    BY <2>2, <2>3, OneKey
  <2>5. <<>> \in Seq(AnyKey) /\ Elements(<<>>) = {}
    BY NoElement
  <2>6. e = IF ~ r.with.embeds THEN <<>> ELSE <<<<"embeds", c>>>>
    BY <1>1, <2>1 DEF EmbedsKeys, Count
  <2> QED BY <2>1, <2>4, <2>5, <2>6 DEF EmbedsPart
<1>6. PICK u : u = a \o m
  OBVIOUS
<1>7. u \in Seq(AnyKey) /\ Elements(u) = LoraPart(r) \cup Elements(m)
  BY <1>2, <1>3, <1>6, ConcatElements
<1>8. PICK v : v = u \o s
  OBVIOUS
<1>9. v \in Seq(AnyKey) /\ Elements(v) = Elements(u) \cup SaltPart(r, start)
  BY <1>4, <1>7, <1>8, ConcatElements
<1>10. PICK w : w = v \o e
  OBVIOUS
<1>11. Elements(w) = Elements(v) \cup EmbedsPart(r, start, end)
  BY <1>5, <1>9, <1>10, ConcatElements
<1>12. ExtraKeys(r, start, end, m) = w
  BY <1>1, <1>6, <1>8, <1>10 DEF ExtraKeys
<1> QED BY <1>7, <1>9, <1>11, <1>12

LEMMA SamePair == ASSUME NEW a, NEW b, NEW c, NEW d, <<a, b>> = <<c, d>> PROVE a = c /\ b = d
OBVIOUS

\* The sources of keys have different names: equal keys come from equal sources.
LEMMA SameSources ==
  ASSUME NEW r1 \in Requests, NEW r2 \in Requests, NEW start \in Nat, NEW end \in Nat, start < end,
         NEW m1 \in Seq(Keys), NEW m2 \in Seq(Keys),
         Elements(ExtraKeys(r1, start, end, m1)) = Elements(ExtraKeys(r2, start, end, m2))
  PROVE  /\ LoraPart(r1) \subseteq LoraPart(r2)
         /\ Elements(m1) \subseteq Elements(m2)
         /\ SaltPart(r1, start) \subseteq SaltPart(r2, start)
         /\ EmbedsPart(r1, start, end) \subseteq EmbedsPart(r2, start, end)
<1>1. PICK l1, k1, s1, e1 : /\ l1 = LoraPart(r1) /\ k1 = Elements(m1)
                            /\ s1 = SaltPart(r1, start) /\ e1 = EmbedsPart(r1, start, end)
  OBVIOUS
<1>2. PICK l2, k2, s2, e2 : /\ l2 = LoraPart(r2) /\ k2 = Elements(m2)
                            /\ s2 = SaltPart(r2, start) /\ e2 = EmbedsPart(r2, start, end)
  OBVIOUS
<1>3. ((l1 \cup k1) \cup s1) \cup e1 = ((l2 \cup k2) \cup s2) \cup e2
  BY <1>1, <1>2, ExtraIs
<1> DEFINE Named(a) == {<<a, d>> : d \in Int}
           ItemKeys == {<<a, d>> : a \in DOMAIN ItemLength, d \in Int}
<1>4. ASSUME NEW r \in Requests
      PROVE  /\ LoraPart(r) \subseteq Named("lora") /\ SaltPart(r, start) \subseteq Named("salt")
             /\ EmbedsPart(r, start, end) \subseteq Named("embeds")
  <2>1. LoraPart(r) \subseteq Named("lora") /\ SaltPart(r, start) \subseteq Named("salt")
    BY DEF LoraPart, SaltPart, LoraKey, SaltKey
  <2>2. Count(r, start, end) \in Int
    BY RequestIs, CountIs
  <2>3. EmbedsPart(r, start, end) \subseteq Named("embeds")
    BY <2>2 DEF EmbedsPart
  <2> QED BY <2>1, <2>3
<1>10. ASSUME NEW m \in Seq(Keys) PROVE Elements(m) \subseteq ItemKeys
  <2>1. \A i \in 1 .. Len(m) : m[i] \in Keys
    BY ElementOfSeq
  <2> QED BY <2>1 DEF Elements, Keys
<1>5. /\ \A x \in Named("lora") : x \notin Named("salt") /\ x \notin Named("embeds")
      /\ \A x \in Named("lora") : x \notin ItemKeys
      /\ \A x \in Named("salt") : x \notin Named("embeds") /\ x \notin ItemKeys
      /\ \A x \in Named("embeds") : x \notin ItemKeys
  <2>1. ASSUME NEW a, NEW b, a # b, NEW x \in Named(a) PROVE x \notin Named(b)
    BY <2>1, SamePair
  <2>2. ASSUME NEW a, a \notin DOMAIN ItemLength, NEW x \in Named(a) PROVE x \notin ItemKeys
    BY <2>2, SamePair
  <2> HIDE DEF Named, ItemKeys
  <2>3. "lora" # "salt" /\ "lora" # "embeds" /\ "salt" # "embeds"
    OBVIOUS
  <2>4. \A a \in {"lora", "salt", "embeds"} : a \notin DOMAIN ItemLength
    BY ItemsAssumption
  <2> QED BY <2>1, <2>2, <2>3, <2>4
<1> HIDE DEF Named, ItemKeys
<1>6. /\ l1 \subseteq Named("lora") /\ s1 \subseteq Named("salt") /\ e1 \subseteq Named("embeds")
      /\ k1 \subseteq ItemKeys
      /\ l2 \subseteq Named("lora") /\ s2 \subseteq Named("salt") /\ e2 \subseteq Named("embeds")
      /\ k2 \subseteq ItemKeys
  BY <1>1, <1>2, <1>4, <1>10
<1>7. PICK L, S, E, I : /\ L = Named("lora") /\ S = Named("salt")
                        /\ E = Named("embeds") /\ I = ItemKeys
  OBVIOUS
<1>8. /\ \A x \in L : x \notin S /\ x \notin E /\ x \notin I
      /\ \A x \in S : x \notin E /\ x \notin I
      /\ \A x \in E : x \notin I
      /\ l1 \subseteq L /\ s1 \subseteq S /\ e1 \subseteq E /\ k1 \subseteq I
      /\ l2 \subseteq L /\ s2 \subseteq S /\ e2 \subseteq E /\ k2 \subseteq I
  BY <1>5, <1>6, <1>7
<1>9. l1 \subseteq l2 /\ s1 \subseteq s2 /\ e1 \subseteq e2 /\ k1 \subseteq k2
  BY <1>3, <1>8
<1> QED BY <1>1, <1>2, <1>9

\* A block that adds the same to two hashes.
LEMMA EntryTells ==
  ASSUME NEW r1 \in Requests, NEW r2 \in Requests, NEW b \in Nat, b > 0,
         Entry(r1, b) = Entry(r2, b), NEW s, s = StartOf(b)
  PROVE  /\ \A j \in s .. s + HB - 1 : Token(r1, j) = Token(r2, j)
         /\ LoraPart(r1) \subseteq LoraPart(r2)
         /\ KeysFrom(r1.mm, 1, s, s + HB) \subseteq KeysFrom(r2.mm, 1, s, s + HB)
         /\ SaltPart(r1, s) \subseteq SaltPart(r2, s)
         /\ EmbedsPart(r1, s, s + HB) \subseteq EmbedsPart(r2, s, s + HB)
<1>1. s \in Nat /\ s + HB \in Nat /\ s < s + HB
  BY StartIs, Sizes
<1>2. /\ BlockTokens(r1, s) = BlockTokens(r2, s)
      /\ ExtraKeys(r1, s, s + HB, MmKeys(r1.mm, s, s + HB))
           = ExtraKeys(r2, s, s + HB, MmKeys(r2.mm, s, s + HB))
  BY DEF Entry
<1>3. ASSUME NEW j \in s .. s + HB - 1 PROVE Token(r1, j) = Token(r2, j)
  <2>1. PICK i : i = j - s + 1
    OBVIOUS
  <2>2. i \in 1 .. HB /\ s + i - 1 = j
    BY <2>1, <1>1, Sizes
  <2>3. \A r : BlockTokens(r, s)[i] = Token(r, s + i - 1)
    BY <2>2 DEF BlockTokens, HB
  <2> QED BY <2>2, <2>3, <1>2
<1>4. /\ LoraPart(r1) \subseteq LoraPart(r2)
      /\ KeysFrom(r1.mm, 1, s, s + HB) \subseteq KeysFrom(r2.mm, 1, s, s + HB)
      /\ SaltPart(r1, s) \subseteq SaltPart(r2, s)
      /\ EmbedsPart(r1, s, s + HB) \subseteq EmbedsPart(r2, s, s + HB)
  <2>1. PICK m1, m2, end : /\ m1 = MmKeys(r1.mm, s, s + HB) /\ m2 = MmKeys(r2.mm, s, s + HB)
                           /\ end = s + HB
    OBVIOUS
  <2>2. /\ m1 \in Seq(Keys) /\ Elements(m1) = KeysFrom(r1.mm, 1, s, end)
        /\ m2 \in Seq(Keys) /\ Elements(m2) = KeysFrom(r2.mm, 1, s, end)
        /\ end \in Nat /\ s < end
    BY <2>1, <1>1, MmKeysIs
  <2>3. Elements(ExtraKeys(r1, s, end, m1)) = Elements(ExtraKeys(r2, s, end, m2))
    BY <2>1, <1>2
  <2> QED BY <2>1, <2>2, <2>3, <1>1, SameSources
<1> QED BY <1>3, <1>4

\* Every position before the end of block b is in one of the blocks up to b.
LEMMA InBlock ==
  ASSUME NEW b \in Nat, NEW j \in Nat, j < b * HB
  PROVE  \E i \in 1 .. b : StartOf(i) \in Nat /\ j \in StartOf(i) .. StartOf(i) + HB - 1
<1>1. PICK q : q = j \div HB
  OBVIOUS
<1>2. q \in Nat /\ q * HB <= j /\ j < q * HB + HB
  BY <1>1, Sizes, DivIs
<1>3. StartOf(q + 1) = q * HB
  <2>1. (q + 1) - 1 = q
    BY <1>2
  <2> QED BY <2>1 DEF StartOf
<1>4. q < b
  <2> SUFFICES ASSUME b <= q PROVE FALSE
    BY <1>2
  <2>1. b * HB <= q * HB /\ b * HB \in Nat /\ q * HB \in Nat
    BY <1>2, Sizes, TimesGrows
  <2> QED BY <2>1, <1>2
<1>5. q + 1 \in 1 .. b
  BY <1>2, <1>4
<1>6. q * HB \in Nat
  BY <1>2, Sizes
<1>7. j \in q * HB .. q * HB + HB - 1
  BY <1>2, <1>6, Sizes
<1> QED BY <1>3, <1>5, <1>6, <1>7

SameBlocks(r1, r2, b) == \A i \in 1 .. b : Entry(r1, i) = Entry(r2, i)

ItemsBefore(r, n) == {r.mm[k] : k \in {k \in DOMAIN r.mm : r.mm[k].offset < n}}

\* An item's key names it: its identifier, and where it starts.
LEMMA KeyNames ==
  ASSUME NEW m1, Items(m1), NEW m2, Items(m2), NEW i \in 1 .. Len(m1), NEW j \in 1 .. Len(m2),
         NEW s \in Nat, MmKey(m1[i], s) = MmKey(m2[j], s)
  PROVE  m1[i] = m2[j]
<1>1. PICK x, y : x = m1[i] /\ y = m2[j]
  OBVIOUS
<1>2. /\ x.offset \in Nat /\ x = [id |-> x.id, offset |-> x.offset]
      /\ y.offset \in Nat /\ y = [id |-> y.id, offset |-> y.offset]
  BY <1>1, ItemIs
<1>3. x.id = y.id /\ x.offset - s = y.offset - s
  BY <1>1, SamePair DEF MmKey
<1>4. x.offset = y.offset
  BY <1>2, <1>3
<1> QED BY <1>1, <1>2, <1>3, <1>4

LEMMA SameItems ==
  ASSUME NEW r1 \in Requests, NEW r2 \in Requests, NEW b \in Nat, SameBlocks(r1, r2, b)
  PROVE  ItemsBefore(r1, b * HB) \subseteq ItemsBefore(r2, b * HB)
<1>0. Items(r1.mm) /\ Items(r2.mm) /\ b * HB \in Nat
  BY RequestIs, Sizes
<1>1. DOMAIN r1.mm = 1 .. Len(r1.mm) /\ DOMAIN r2.mm = 1 .. Len(r2.mm)
  BY <1>0 DEF Items
<1> SUFFICES ASSUME NEW x \in ItemsBefore(r1, b * HB) PROVE x \in ItemsBefore(r2, b * HB)
  OBVIOUS
<1>2. PICK k \in 1 .. Len(r1.mm) : x = r1.mm[k] /\ r1.mm[k].offset < b * HB
  BY <1>1 DEF ItemsBefore
<1>3. x.offset \in Nat /\ EndOf(x) \in Nat /\ x.offset < EndOf(x)
  BY <1>0, <1>2, ItemIs
<1>4. PICK i \in 1 .. b : StartOf(i) \in Nat /\ x.offset \in StartOf(i) .. StartOf(i) + HB - 1
  BY <1>2, <1>3, InBlock
<1>5. PICK s : s = StartOf(i)
  OBVIOUS
<1>6. s \in Nat /\ s <= x.offset /\ x.offset < s + HB /\ s + HB \in Nat
  BY <1>3, <1>4, <1>5, Sizes
<1>7. Overlaps(r1.mm[k], s, s + HB)
  BY <1>2, <1>3, <1>6 DEF Overlaps
<1>8. MmKey(x, s) \in KeysFrom(r1.mm, 1, s, s + HB)
  BY <1>2, <1>7 DEF KeysFrom
<1>9. i \in Nat /\ i > 0 /\ Entry(r1, i) = Entry(r2, i)
  BY DEF SameBlocks
<1>10. MmKey(x, s) \in KeysFrom(r2.mm, 1, s, s + HB)
  BY <1>5, <1>8, <1>9, EntryTells
<1>11. PICK j \in 1 .. Len(r2.mm) : MmKey(x, s) = MmKey(r2.mm[j], s)
  BY <1>10 DEF KeysFrom
<1>12. x = r2.mm[j]
  BY <1>0, <1>2, <1>6, <1>11, KeyNames
<1> QED BY <1>1, <1>2, <1>12 DEF ItemsBefore

EmbedsBefore(r, n) == IF r.with.embeds THEN {j \in 0 .. n - 1 : j < r.plen} ELSE {-1}

LEMMA SameEmbeds ==
  ASSUME NEW r1 \in Requests, NEW r2 \in Requests, NEW b \in Nat, b > 0,
         SameBlocks(r1, r2, b), SameBlocks(r2, r1, b)
  PROVE  EmbedsBefore(r1, b * HB) = EmbedsBefore(r2, b * HB)
<1>0. r1.plen \in Nat /\ r2.plen \in Nat /\ b * HB \in Nat
  BY RequestIs, Sizes
<1>1. ASSUME NEW i \in 1 .. b, NEW s, s = StartOf(i)
      PROVE  /\ s \in Nat /\ s + HB \in Nat /\ s < s + HB
             /\ EmbedsPart(r1, s, s + HB) = EmbedsPart(r2, s, s + HB)
  <2>1. i \in Nat /\ i > 0 /\ Entry(r1, i) = Entry(r2, i)
    BY DEF SameBlocks
  <2>2. /\ EmbedsPart(r1, s, s + HB) \subseteq EmbedsPart(r2, s, s + HB)
        /\ EmbedsPart(r2, s, s + HB) \subseteq EmbedsPart(r1, s, s + HB)
    BY <2>1, <1>1, EntryTells
  <2> QED BY <2>1, <2>2, <1>1, StartIs, Sizes
<1>2. r1.with.embeds <=> r2.with.embeds
  <2>1. 1 \in 1 .. b
    OBVIOUS
  <2>2. PICK s : s = StartOf(1)
    OBVIOUS
  <2>3. EmbedsPart(r1, s, s + HB) = EmbedsPart(r2, s, s + HB)
    BY <2>1, <2>2, <1>1
  <2>4. \A r : r.with.embeds <=> EmbedsPart(r, s, s + HB) # {}
    BY DEF EmbedsPart
  <2> QED BY <2>3, <2>4
<1>3. ASSUME r1.with.embeds, NEW j \in 0 .. b * HB - 1
      PROVE  j < r1.plen <=> j < r2.plen
  <2>1. j \in Nat /\ j < b * HB
    BY <1>0
  <2>2. PICK i \in 1 .. b : StartOf(i) \in Nat /\ j \in StartOf(i) .. StartOf(i) + HB - 1
    BY <2>1, InBlock
  <2>3. PICK s : s = StartOf(i)
    OBVIOUS
  <2>4. /\ s \in Nat /\ s + HB \in Nat /\ s < s + HB
        /\ EmbedsPart(r1, s, s + HB) = EmbedsPart(r2, s, s + HB)
    BY <2>3, <1>1
  <2>5. PICK c1, c2 : c1 = Count(r1, s, s + HB) /\ c2 = Count(r2, s, s + HB)
    OBVIOUS
  <2>6. {<<"embeds", c1>>} = {<<"embeds", c2>>}
    BY <2>4, <2>5, <1>2, <1>3 DEF EmbedsPart
  <2>7. c1 = c2
    <3>1. <<"embeds", c1>> = <<"embeds", c2>>
      BY <2>6
    <3> QED BY <3>1, SamePair
  <2>8. j \in s .. (s + HB) - 1
    BY <2>2, <2>3, <2>4, Sizes
  <2>9. PICK e : e = s + HB
    OBVIOUS
  <2>10. e \in Nat /\ s < e /\ j \in s .. e - 1
    BY <2>4, <2>8, <2>9
  <2>11. \A x \in s .. e - 1 : x < r1.plen <=> x - s < Count(r1, s, e)
    BY <2>4, <2>10, <1>0, CountIs
  <2>12. \A x \in s .. e - 1 : x < r2.plen <=> x - s < Count(r2, s, e)
    BY <2>4, <2>10, <1>0, CountIs
  <2> QED BY <2>5, <2>7, <2>9, <2>10, <2>11, <2>12
<1> QED BY <1>2, <1>3 DEF EmbedsBefore

\* Equal hashes stand for equal prefixes.
LEMMA HashNamesPrefix ==
  ASSUME NEW r1 \in Requests, NEW r2 \in Requests, NEW b \in Nat, b > 0, SameBlocks(r1, r2, b)
  PROVE  Prefix(r1, b * HB) = Prefix(r2, b * HB)
<1>0. SameBlocks(r2, r1, b) /\ b * HB \in Nat
  BY Sizes DEF SameBlocks
<1>1. PICK n : n = b * HB
  OBVIOUS
<1>2. ASSUME NEW j \in 0 .. n - 1 PROVE Token(r1, j) = Token(r2, j)
  <2>1. j \in Nat /\ j < b * HB
    BY <1>0, <1>1
  <2>2. PICK i \in 1 .. b : j \in StartOf(i) .. StartOf(i) + HB - 1
    BY <2>1, InBlock
  <2>3. i \in Nat /\ i > 0 /\ Entry(r1, i) = Entry(r2, i)
    BY DEF SameBlocks
  <2> QED BY <2>2, <2>3, EntryTells
<1>3. ItemsBefore(r1, n) = ItemsBefore(r2, n)
  <2>1. ItemsBefore(r1, n) \subseteq ItemsBefore(r2, n)
    BY <1>1, SameItems
  <2>2. ItemsBefore(r2, n) \subseteq ItemsBefore(r1, n)
    BY <1>0, <1>1, SameItems
  <2> QED BY <2>1, <2>2
<1>4. EmbedsBefore(r1, n) = EmbedsBefore(r2, n)
  BY <1>0, <1>1, SameEmbeds
<1>5. r1.with.lora = r2.with.lora /\ r1.with.salt = r2.with.salt
  <2>1. 1 \in 1 .. b /\ 1 \in Nat /\ 1 > 0
    OBVIOUS
  <2>2. StartOf(1) = 0
    <3>1. (1 - 1) * HB = 0
      BY Sizes
    <3> QED BY <3>1 DEF StartOf
  <2>3. Entry(r1, 1) = Entry(r2, 1)
    BY <2>1 DEF SameBlocks
  <2>4. /\ LoraPart(r1) \subseteq LoraPart(r2) /\ LoraPart(r2) \subseteq LoraPart(r1)
        /\ SaltPart(r1, 0) \subseteq SaltPart(r2, 0) /\ SaltPart(r2, 0) \subseteq SaltPart(r1, 0)
    BY <2>1, <2>2, <2>3, EntryTells
  <2>5. /\ r1.with.lora = <<>> <=> r2.with.lora = <<>>
        /\ r1.with.salt = <<>> <=> r2.with.salt = <<>>
    BY <2>4 DEF LoraPart, SaltPart
  <2>6. /\ r1.with.lora \in {<<>>, <<LoraKey>>} /\ r1.with.salt \in {<<>>, <<SaltKey>>}
        /\ r2.with.lora \in {<<>>, <<LoraKey>>} /\ r2.with.salt \in {<<>>, <<SaltKey>>}
    BY WithIs
  <2> QED BY <2>5, <2>6
<1>6. \A r : Prefix(r, n) = [tokens |-> [j \in 0 .. n - 1 |-> Token(r, j)],
                             items |-> ItemsBefore(r, n), lora |-> r.with.lora,
                             salt |-> r.with.salt, embeds |-> EmbedsBefore(r, n)]
  BY DEF Prefix, ItemsBefore, EmbedsBefore
<1>7. [j \in 0 .. n - 1 |-> Token(r1, j)] = [j \in 0 .. n - 1 |-> Token(r2, j)]
  BY <1>2
<1> QED BY <1>1, <1>3, <1>4, <1>5, <1>6, <1>7

\* A block in which items are passed over adds what no whole block adds: an item
\* passed over leaves placeholders in it, and no item it has a key of covers them.
LEMMA ShortTells ==
  ASSUME NEW r1 \in Requests, NEW r2 \in Requests, Short(r1), NEW b, b = Full(r1.plen) + 1,
         ShortEntry(r1, b) = Entry(r2, b)
  PROVE  FALSE
<1>1. PICK s, end, m1, m2, L :
         /\ s = StartOf(b) /\ end = s + HB /\ m1 = r1.mm /\ m2 = r2.mm /\ L = Len(m1)
  OBVIOUS
<1>2. Full(r1.plen) \in Nat /\ b \in Nat /\ b > 0 /\ b - 1 = Full(r1.plen)
  <2>1. PICK f : f = Full(r1.plen)
    OBVIOUS
  <2>2. f \in Nat
    BY <2>1, RequestIs, FullIs
  <2> QED BY <2>1, <2>2
<1>3. s \in Nat /\ end \in Nat /\ s < end /\ s = Full(r1.plen) * HB
  BY <1>1, <1>2, StartIs, Sizes DEF StartOf
<1>4. Items(m1) /\ Items(m2) /\ L \in Nat
  BY <1>1, RequestIs DEF Items
<1>5. PICK i \in InTail(r1) : i < L
  BY <1>1, AnotherInTail DEF Short
<1>6. i \in 1 .. L /\ EndOf(m1[i]) > s /\ L \in 1 .. L
  BY <1>1, <1>3, <1>4, <1>5, TailIs
<1>7. /\ m1[i].offset \in Nat /\ EndOf(m1[i]) \in Nat /\ m1[i].offset < EndOf(m1[i])
      /\ EndOf(m1[i]) <= m1[L].offset /\ EndOf(m1[i]) <= end /\ m1[L].offset \in Nat
  <2>1. EndOf(m1[i]) <= b * HB /\ end = b * HB
    <3>1. EndOf(r1.mm[i]) <= (Full(r1.plen) + 1) * HB
      BY <1>1, <1>2, <1>6, PlenFits
    <3> QED BY <3>1, <1>1, <1>2, StartIs
  <2> QED BY <2>1, <1>1, <1>4, <1>5, <1>6, ItemIs, InOrder
<1>8. PICK p : p = EndOf(m1[i]) - 1
  OBVIOUS
<1>9. p \in s .. end - 1 /\ m1[i].offset <= p /\ p < EndOf(m1[i])
  BY <1>3, <1>6, <1>7, <1>8
<1>10. Token(r1, p) = "placeholder"
  <2>1. i \in DOMAIN r1.mm
    BY <1>1, <1>4, <1>6 DEF Items
  <2> QED BY <2>1, <1>1, <1>9 DEF Token
<1>11. PICK mine, theirs : mine = <<MmKey(m1[L], s)>> /\ theirs = MmKeys(m2, s, end)
  OBVIOUS
<1>12. /\ BlockTokens(r1, s) = BlockTokens(r2, s)
       /\ ExtraKeys(r1, s, end, mine) = ExtraKeys(r2, s, end, theirs)
  <2>1. Last(r1.mm) = m1[L]
    BY <1>1, LastIs
  <2> QED BY <2>1, <1>1, <1>11 DEF Entry, ShortEntry
<1>13. mine \in Seq(Keys) /\ Elements(mine) = {MmKey(m1[L], s)}
  <2>1. MmKey(m1[L], s) \in Keys
    BY <1>1, <1>3, <1>4, <1>6, KeyIs
  <2> QED BY <2>1, <1>11, OneElement
<1>14. theirs \in Seq(Keys) /\ Elements(theirs) = KeysFrom(m2, 1, s, end)
  BY <1>1, <1>3, <1>11, MmKeysIs
<1>15. KeysFrom(m2, 1, s, end) \subseteq {MmKey(m1[L], s)}
  <2>1. Elements(ExtraKeys(r2, s, end, theirs)) = Elements(ExtraKeys(r1, s, end, mine))
    BY <1>12
  <2>2. Elements(theirs) \subseteq Elements(mine)
    BY <2>1, <1>3, <1>13, <1>14, SameSources
  <2> QED BY <2>2, <1>13, <1>14
<1>16. Token(r2, p) = "placeholder"
  <2>1. PICK k : k = p - s + 1
    OBVIOUS
  <2>2. k \in 1 .. HB /\ s + k - 1 = p
    BY <2>1, <1>1, <1>3, <1>9, Sizes
  <2>3. \A r : BlockTokens(r, s)[k] = Token(r, s + k - 1)
    BY <2>2 DEF BlockTokens, HB
  <2> QED BY <2>2, <2>3, <1>10, <1>12
<1>17. PICK j \in DOMAIN m2 : m2[j].offset <= p /\ p < EndOf(m2[j])
  BY <1>1, <1>16 DEF Token
<1>18. j \in 1 .. Len(m2) /\ m2[j].offset \in Nat /\ EndOf(m2[j]) \in Nat
  <2>1. j \in 1 .. Len(m2)
    BY <1>4, <1>17 DEF Items
  <2> QED BY <2>1, <1>4, ItemIs
<1>19. MmKey(m2[j], s) \in KeysFrom(m2, 1, s, end)
  <2>1. Overlaps(m2[j], s, end)
    BY <1>3, <1>9, <1>17, <1>18 DEF Overlaps
  <2> QED BY <2>1, <1>18 DEF KeysFrom
<1>20. MmKey(m2[j], s) = MmKey(m1[L], s)
  BY <1>15, <1>19
<1>21. m2[j] = m1[L]
  BY <1>20, <1>1, <1>3, <1>4, <1>6, <1>18, KeyNames
<1> QED BY <1>7, <1>9, <1>17, <1>21, <1>3

\* Requests with the same hash have items passed over in it both or neither.
LEMMA BothOrNeither ==
  ASSUME NEW r1 \in Requests, NEW r2 \in Requests, NEW b \in Nat,
         PassedOver(r1, b), ~ PassedOver(r2, b), \A i \in 1 .. b : Made(r1)[i] = Made(r2)[i]
  PROVE  FALSE
<1>1. PICK x : x = Full(r1.plen) + 1
  OBVIOUS
<1>2. Full(r1.plen) \in Nat
  BY RequestIs, FullIs
<1>3. x \in 1 .. b /\ x \in Nat /\ Short(r1)
  BY <1>1, <1>2, PassedOverIs
<1>4. Made(r1)[x] = ShortEntry(r1, x)
  BY <1>1, <1>3 DEF Made
<1>5. Made(r2)[x] = Entry(r2, x)
  BY <1>3, MadeIs
<1>6. ShortEntry(r1, x) = Entry(r2, x)
  BY <1>3, <1>4, <1>5
<1> QED BY <1>1, <1>3, <1>6, ShortTells

LEMMA HashTells ==
  ASSUME NEW e1, NEW e2, NEW b \in Nat, NEW c \in Nat, Hash(e1, b) = Hash(e2, c)
  PROVE  b = c /\ \A i \in 1 .. b : e1[i] = e2[i]
<1>1. /\ Len(Hash(e1, b)) = b /\ \A i \in 1 .. b : Hash(e1, b)[i] = e1[i]
      /\ Len(Hash(e2, c)) = c /\ \A i \in 1 .. c : Hash(e2, c)[i] = e2[i]
  BY HashIsSeq
<1> QED BY <1>1

LEMMA HInvFromScratch == HInv => AsFromScratch
<1> SUFFICES ASSUME HInv PROVE AsFromScratch
  OBVIOUS
<1>1. req \in Requests /\ num_tokens \in Nat /\ block_hashes = Hashes(Made(req), Full(num_tokens))
  BY DEF HInv
<1>2. PICK f, whole : f = Full(num_tokens) /\ whole = NewHashes(req, <<>>, num_tokens)
  OBVIOUS
<1>3. f \in Nat /\ whole = Hashes(Whole(req), f)
  BY <1>1, <1>2, FullIs, WholeHashes
<1>4. /\ Len(block_hashes) = f /\ \A b \in 1 .. f : block_hashes[b] = Hash(Made(req), b)
      /\ Len(whole) = f /\ DOMAIN whole = 1 .. f /\ \A b \in 1 .. f : whole[b] = Hash(Whole(req), b)
  BY <1>1, <1>2, <1>3, HashesIs
<1>5. ASSUME NEW b \in DOMAIN whole
      PROVE  block_hashes[b] = whole[b] <=> ~ PassedOver(req, b)
  <2>1. b \in 1 .. f /\ b \in Nat
    BY <1>3, <1>4
  <2>2. block_hashes[b] = Hash(Made(req), b) /\ whole[b] = Hash(Whole(req), b)
    BY <2>1, <1>4
  <2>3. ASSUME ~ PassedOver(req, b) PROVE Hash(Made(req), b) = Hash(Whole(req), b)
    <3>1. \A i \in 1 .. b : Made(req)[i] = Whole(req)[i]
      BY <2>1, <2>3, <1>1, MadeIs
    <3> QED BY <3>1, <2>1, SameHash
  <2>4. ASSUME PassedOver(req, b), Hash(Made(req), b) = Hash(Whole(req), b) PROVE FALSE
    <3>1. \A i \in 1 .. b : Made(req)[i] = Whole(req)[i]
      BY <2>1, <2>4, HashTells
    <3>2. \A i \in 1 .. b : Whole(req)[i] = Entry(req, i)
      BY <2>1 DEF Whole
    <3>3. PICK x : x = Full(req.plen) + 1
      OBVIOUS
    <3>4. Full(req.plen) \in Nat
      BY <1>1, RequestIs, FullIs
    <3>5. x \in 1 .. b /\ x \in Nat /\ Short(req)
      BY <2>1, <2>4, <3>3, <3>4, PassedOverIs
    <3>6. Made(req)[x] = ShortEntry(req, x)
      BY <3>3, <3>5 DEF Made
    <3>7. ShortEntry(req, x) = Entry(req, x)
      BY <3>1, <3>2, <3>5, <3>6
    <3> QED BY <1>1, <3>3, <3>5, <3>7, ShortTells
  <2> QED BY <2>2, <2>3, <2>4
<1>6. ASSUME NEW v \in Views PROVE Len(v.hashes) = num_tokens \div v.grain
  BY <1>1, ViewIs DEF ViewOK
<1> QED BY <1>2, <1>4, <1>5, <1>6 DEF AsFromScratch

\* What is known of a request's hashes are the hashes of its blocks.
LEMMA KnownIs ==
  ASSUME NEW k \in Known
  PROVE  \E r \in Requests, b \in 1 .. Full(MaxTokens) :
            /\ k.hash = Hash(Made(r), b) /\ k.prefix = Prefix(r, b * HB)
            /\ k.short = PassedOver(r, b)
<1>1. PICK r \in Requests, b \in 1 .. Full(MaxTokens) :
         k = [hash |-> HashesOf(r)[b], prefix |-> Prefix(r, b * hash_block_size),
              short |-> PassedOver(r, b)]
  BY DEF Known
<1>2. r.plen \in Nat /\ MaxTokens \in Nat /\ MaxTokens >= r.plen
  <2>1. MaxTokens \in Nat /\ MaxPrompt \in Nat /\ MaxPrompt <= MaxTokens
    BY BoundsAssumption
  <2> QED BY <2>1, RequestIs
<1>3. HashesOf(r) = Hashes(Made(r), Full(MaxTokens))
  <2>1. NewHashes(r, <<>>, r.plen) = Hashes(Made(r), Full(r.plen))
    BY FirstHashes
  <2>2. HashesOf(r) = Hashes(Made(r), Full(r.plen))
                        \o NewHashes(r, Hashes(Made(r), Full(r.plen)), MaxTokens)
    BY <2>1 DEF HashesOf
  <2>3. r.plen >= r.plen
    BY <1>2
  <2> QED BY <2>2, <2>3, <1>2, MoreHashes
<1>4. HashesOf(r)[b] = Hash(Made(r), b)
  BY <1>2, <1>3, FullIs, HashesIs
<1>5. /\ k.hash = HashesOf(r)[b] /\ k.prefix = Prefix(r, b * HB)
      /\ k.short = PassedOver(r, b)
  BY <1>1 DEF HB
<1> QED BY <1>4, <1>5

LEMMA FullOf == ASSUME NEW c \in Nat PROVE Full(c * HB) = c
<1>1. PICK n, f : n = c * HB /\ f = Full(n)
  OBVIOUS
<1>2. n \in Nat
  BY <1>1, Sizes
<1>3. f \in Nat /\ f * HB <= n /\ n < f * HB + HB /\ f * HB \in Nat
  BY <1>1, <1>2, FullIs, Sizes
<1>4. ASSUME f < c PROVE FALSE
  <2>1. f + 1 \in Nat /\ f + 1 <= c
    BY <1>3, <1>4
  <2>2. (f + 1) * HB <= c * HB /\ (f + 1) * HB = f * HB + HB
    BY <2>1, <1>3, Sizes, TimesGrows
  <2> QED BY <2>2, <1>1, <1>2, <1>3, Sizes
<1>5. ASSUME f > c PROVE FALSE
  <2>1. c + 1 \in Nat /\ c + 1 <= f
    BY <1>3, <1>5
  <2>2. (c + 1) * HB <= f * HB /\ (c + 1) * HB = c * HB + HB
    BY <2>1, <1>3, Sizes, TimesGrows
  <2> QED BY <2>2, <1>1, <1>2, <1>3, Sizes
<1> QED BY <1>1, <1>3, <1>4, <1>5

LEMMA HInvUnique == HInv => UniqueHashes
<1> SUFFICES ASSUME HInv, NEW v \in Views, NEW i \in DOMAIN v.hashes, NEW known \in Known,
                    v.hashes[i] = known.hash
             PROVE  \/ Prefix(req, i * v.grain) = known.prefix
                    \/ PassedOver(req, Full(i * v.grain)) /\ known.short
  BY DEF UniqueHashes
<1>1. req \in Requests /\ num_tokens \in Nat /\ block_hashes = Hashes(Made(req), Full(num_tokens))
  BY DEF HInv
<1>2. ViewOK(v, Made(req), num_tokens)
  BY <1>1, ViewIs
<1>3. PICK c \in 1 .. Full(num_tokens) : v.hashes[i] = Hash(Made(req), c) /\ i * v.grain = c * HB
  BY <1>2 DEF ViewOK
<1>4. PICK r \in Requests, b \in 1 .. Full(MaxTokens) :
         /\ known.hash = Hash(Made(r), b) /\ known.prefix = Prefix(r, b * HB)
         /\ known.short = PassedOver(r, b)
  BY KnownIs
<1>5. c \in Nat /\ c > 0 /\ b \in Nat /\ Hash(Made(req), c) = Hash(Made(r), b)
  <2>1. \A x : x \in 1 .. Full(num_tokens) => x \in Nat /\ x > 0
    BY <1>1, FullIs
  <2>2. b \in Nat
    OBVIOUS
  <2> QED BY <2>1, <2>2, <1>3, <1>4
<1>6. c = b /\ \A x \in 1 .. b : Made(req)[x] = Made(r)[x]
  BY <1>5, HashTells
<1>7. Full(i * v.grain) = b /\ i * v.grain = b * HB
  BY <1>3, <1>5, <1>6, FullOf
<1>8. PassedOver(req, b) <=> PassedOver(r, b)
  <2>1. ASSUME PassedOver(req, b), ~ PassedOver(r, b) PROVE FALSE
    BY <2>1, <1>1, <1>5, <1>6, BothOrNeither
  <2>2. ASSUME PassedOver(r, b), ~ PassedOver(req, b) PROVE FALSE
    BY <2>2, <1>1, <1>5, <1>6, BothOrNeither
  <2> QED BY <2>1, <2>2
<1>9. CASE PassedOver(req, b)
  BY <1>4, <1>7, <1>8, <1>9
<1>10. CASE ~ PassedOver(req, b)
  <2>1. SameBlocks(req, r, b)
    BY <1>1, <1>5, <1>6, <1>8, <1>10, MadeIs DEF SameBlocks
  <2>2. Prefix(req, b * HB) = Prefix(r, b * HB)
    BY <2>1, <1>1, <1>5, <1>6, HashNamesPrefix
  <2> QED BY <2>2, <1>4, <1>7
<1> QED BY <1>9, <1>10

\* The hashes a request has are those of a new request with all its tokens,
\* hashed in one call, except exactly those that cover a block in which
\* request_block_hasher, resuming at the last item, passed over others; and a
\* view of any size ends with the last of its blocks that is complete.
THEOREM HashesAreAsFromScratch == Spec => []AsFromScratch
<1>1. Init => HInv
  BY InitHInv
<1>2. HInv /\ [Next]_vars => HInv'
  BY NextHInv
<1>3. HInv => AsFromScratch
  BY HInvFromScratch
<1> QED BY <1>1, <1>2, <1>3, PTL DEF Spec

\* "each hash uniquely fingerprints the prefix ending at its boundary"
\* (get_request_block_hasher): a block of any group whose hash another request
\* has too ends the same tokens, items, adapters, salt and embeddings, unless
\* items were passed over in both.
THEOREM HashesNamePrefixes == Spec => []UniqueHashes
<1>1. Init => HInv
  BY InitHInv
<1>2. HInv /\ [Next]_vars => HInv'
  BY NextHInv
<1>3. HInv => UniqueHashes
  BY HInvUnique
<1> QED BY <1>1, <1>2, <1>3, PTL DEF Spec

-----------------------------------------------------------------------------
(* KvPlan: numbers, and loops over a sequence.                              *)

LEMMA UpToInduction ==
  ASSUME NEW n \in Nat, NEW T, 0 \in T, \A i \in 1 .. n : i - 1 \in T => i \in T
  PROVE  \A i \in 0 .. n : i \in T
<1> DEFINE U == {i \in Nat : i <= n => i \in T}
<1>1. 0 \in U
  OBVIOUS
<1>2. ASSUME NEW i \in U PROVE i + 1 \in U
  <2>1. CASE i + 1 <= n
    <3>1. i \in T /\ i + 1 \in 1 .. n /\ (i + 1) - 1 = i
      BY <2>1
    <3> QED BY <3>1
  <2> QED BY <2>1
<1>3. U = Nat
  <2> HIDE DEF U
  <2>1. U \in SUBSET Nat
    BY DEF U
  <2> QED BY <1>1, <1>2, <2>1, SetInduction
<1> QED BY <1>3

LEMMA MinIs ==
  ASSUME NEW T \in SUBSET Nat, T # {}
  PROVE  Min(T) \in T /\ \A x \in T : Min(T) <= x
<1>1. \E m \in T : \A k \in T : m <= k
  BY LeastNatural
<1> QED BY <1>1 DEF Min

LEMMA MaxIs ==
  ASSUME NEW T \in SUBSET Nat, T # {}, NEW top \in Nat, \A x \in T : x <= top
  PROVE  Max(T) \in T /\ \A x \in T : x <= Max(T)
<1> DEFINE U == {top - x : x \in T}
<1>1. U \in SUBSET Nat /\ U # {}
  <2>1. \A x \in T : top - x \in Nat
    OBVIOUS
  <2> QED BY <2>1
<1>2. PICK u \in U : \A k \in U : u <= k
  <2> HIDE DEF U
  <2> QED BY <1>1, LeastNatural
<1>3. PICK m \in T : u = top - m
  OBVIOUS
<1>4. ASSUME NEW x \in T PROVE m >= x
  <2>1. top - x \in U
    OBVIOUS
  <2>2. top - m <= top - x
    BY <1>2, <1>3, <2>1
  <2> QED BY <2>2
<1>5. \E m_1 \in T : \A x \in T : m_1 >= x
  BY <1>4
<1>6. Max(T) \in T /\ \A x \in T : Max(T) >= x
  BY <1>5 DEF Max
<1> QED BY <1>6

\* Finitely many numbers are bounded.
LEMMA Bounded ==
  ASSUME NEW n \in Nat, NEW f \in [1 .. n -> Nat]
  PROVE  \E top \in Nat : \A i \in 1 .. n : f[i] <= top
<1> DEFINE T == {k \in 0 .. n : \E top \in Nat : \A i \in 1 .. k : f[i] <= top}
<1>1. 0 \in T
  OBVIOUS
<1>2. ASSUME NEW k \in 1 .. n, k - 1 \in T PROVE k \in T
  <2>1. PICK top \in Nat : \A i \in 1 .. (k - 1) : f[i] <= top
    BY <1>2
  <2>2. PICK b \in Nat : b >= top /\ b >= f[k]
    <3>1. top + f[k] \in Nat /\ top + f[k] >= top /\ top + f[k] >= f[k]
      OBVIOUS
    <3> QED BY <3>1
  <2>3. \A i \in 1 .. k : f[i] <= b
    <3> SUFFICES ASSUME NEW i \in 1 .. k PROVE f[i] <= b
      OBVIOUS
    <3>1. CASE i = k
      BY <2>2, <3>1
    <3>2. CASE i # k
      <4>1. i \in 1 .. (k - 1) /\ f[i] \in Nat
        BY <3>2
      <4> QED BY <2>1, <2>2, <4>1
    <3> QED BY <3>1, <3>2
  <2> QED BY <2>3
<1>3. n \in T
  <2> HIDE DEF T
  <2>1. \A i \in 0 .. n : i \in T
    BY <1>1, <1>2, UpToInduction
  <2> QED BY <2>1
<1> QED BY <1>3

\* The maximum of a sequence's numbers.
LEMMA MaxOfIs ==
  ASSUME NEW n \in Nat, n > 0, NEW f \in [1 .. n -> Nat]
  PROVE  Max({f[i] : i \in 1 .. n}) \in Nat /\ \A i \in 1 .. n : f[i] <= Max({f[j] : j \in 1 .. n})
<1>1. PICK top \in Nat : \A i \in 1 .. n : f[i] <= top
  BY Bounded
<1>2. {f[i] : i \in 1 .. n} \in SUBSET Nat /\ {f[i] : i \in 1 .. n} # {}
  <2>1. 1 \in 1 .. n
    OBVIOUS
  <2> QED BY <2>1
<1>3. \A x \in {f[i] : i \in 1 .. n} : x <= top
  BY <1>1
<1> QED BY <1>2, <1>3, MaxIs

\* A loop of n rounds has a state after each.
IsLoop(f, n, S, start, F) ==
    f \in [0 .. n -> S] /\ f[0] = start /\ \A i \in 1 .. n : f[i] = F[<<i, f[i - 1]>>]
LEMMA LoopExists ==
  ASSUME NEW n \in Nat, NEW S, NEW start \in S, NEW F \in [(1 .. n) \X S -> S]
  PROVE  \E f : IsLoop(f, n, S, start, F)
<1> DEFINE T == {k \in 0 .. n : \E f : IsLoop(f, k, S, start, F)}
<1>1. 0 \in T
  <2>1. IsLoop([i \in 0 .. 0 |-> start], 0, S, start, F)
    BY DEF IsLoop
  <2> QED BY <2>1
<1>2. ASSUME NEW k \in 1 .. n, k - 1 \in T PROVE k \in T
  <2>1. PICK f : IsLoop(f, k - 1, S, start, F)
    BY <1>2
  <2> DEFINE h == [i \in 0 .. k |-> IF i = k THEN F[<<k, f[k - 1]>>] ELSE f[i]]
  <2>2. f[k - 1] \in S /\ F[<<k, f[k - 1]>>] \in S
    BY <2>1 DEF IsLoop
  <2>3. h \in [0 .. k -> S]
    <3> SUFFICES ASSUME NEW i \in 0 .. k PROVE h[i] \in S
      OBVIOUS
    <3>1. i # k => i \in 0 .. (k - 1)
      OBVIOUS
    <3> QED BY <2>1, <2>2, <3>1 DEF IsLoop
  <2>4. h[0] = start
    BY <2>1 DEF IsLoop
  <2>5. ASSUME NEW i \in 1 .. k PROVE h[i] = F[<<i, h[i - 1]>>]
    <3>1. i - 1 \in 0 .. k /\ i - 1 # k /\ h[i - 1] = f[i - 1]
      OBVIOUS
    <3>2. CASE i = k
      BY <3>1, <3>2
    <3>3. CASE i # k
      <4>1. i \in 1 .. (k - 1) /\ h[i] = f[i]
        BY <3>3
      <4> QED BY <2>1, <3>1, <4>1 DEF IsLoop
    <3> QED BY <3>2, <3>3
  <2>6. IsLoop(h, k, S, start, F)
    BY <2>3, <2>4, <2>5 DEF IsLoop
  <2> HIDE DEF h
  <2> QED BY <2>6
<1>3. n \in T
  <2> HIDE DEF T
  <2>1. \A i \in 0 .. n : i \in T
    BY <1>1, <1>2, UpToInduction
  <2> QED BY <2>1
<1> QED BY <1>3

\* What a sequence keeps in S.
LEMMA WhereIs ==
  ASSUME NEW T, NEW s \in Seq(T), NEW S
  PROVE  /\ Where(s, S) \in Seq(T \cap S) /\ Len(Where(s, S)) <= Len(s)
         /\ \A j \in 1 .. Len(s) : s[j] \in S => \E m \in 1 .. Len(Where(s, S)) : Where(s, S)[m] = s[j]
<1>1. PICK n \in Nat : n = Len(s)
  BY LenProperties
<1>2. \A i \in 1 .. n : s[i] \in T
  BY <1>1
<1> DEFINE F == [p \in (1 .. n) \X Seq(T) |-> IF s[p[1]] \in S THEN Append(p[2], s[p[1]]) ELSE p[2]]
           Rec(h) == [i \in 0 .. n |-> IF i = 0 THEN <<>>
                                       ELSE IF s[i] \in S THEN Append(h[i - 1], s[i]) ELSE h[i - 1]]
           kept == CHOOSE h : h = Rec(h)
<1>3. F \in [(1 .. n) \X Seq(T) -> Seq(T)]
  <2> SUFFICES ASSUME NEW p \in (1 .. n) \X Seq(T)
               PROVE  (IF s[p[1]] \in S THEN Append(p[2], s[p[1]]) ELSE p[2]) \in Seq(T)
    OBVIOUS
  <2>1. s[p[1]] \in T /\ p[2] \in Seq(T)
    BY <1>2
  <2> QED BY <2>1, AppendProperties
<1>4. PICK f : IsLoop(f, n, Seq(T), <<>>, F)
  <2>1. <<>> \in Seq(T)
    OBVIOUS
  <2> HIDE DEF F
  <2> QED BY <1>3, <2>1, LoopExists
<1>5. f = Rec(f)
  <2>1. f \in [0 .. n -> Seq(T)] /\ f[0] = <<>>
    BY <1>4 DEF IsLoop
  <2>2. ASSUME NEW i \in 1 .. n
        PROVE  f[i] = IF s[i] \in S THEN Append(f[i - 1], s[i]) ELSE f[i - 1]
    <3>1. f[i] = F[<<i, f[i - 1]>>]
      <4> HIDE DEF F
      <4> QED BY <1>4 DEF IsLoop
    <3>2. <<i, f[i - 1]>> \in (1 .. n) \X Seq(T)
      BY <2>1
    <3> QED BY <3>1, <3>2
  <2>3. \A i \in 0 .. n : i = 0 \/ i \in 1 .. n
    OBVIOUS
  <2> QED BY <2>1, <2>2, <2>3
<1>6. kept = Rec(kept)
  <2> HIDE DEF Rec
  <2> QED BY <1>5
<1>7. /\ kept[0] = <<>>
      /\ \A i \in 1 .. n : kept[i] = IF s[i] \in S THEN Append(kept[i - 1], s[i]) ELSE kept[i - 1]
  <2>1. PICK h : h = kept /\ h = Rec(h)
    <3> HIDE DEF Rec, kept
    <3> QED BY <1>6
  <2>2. /\ h[0] = <<>>
        /\ \A i \in 1 .. n : h[i] = IF s[i] \in S THEN Append(h[i - 1], s[i]) ELSE h[i - 1]
    <3> HIDE DEF kept
    <3>1. 0 \in 0 .. n /\ \A i \in 1 .. n : i \in 0 .. n /\ i # 0
      OBVIOUS
    <3> QED BY <2>1, <3>1
  <2> HIDE DEF kept
  <2> QED BY <2>1, <2>2
<1>8. Where(s, S) = kept[n]
  BY <1>1 DEF Where
<1> HIDE DEF kept, F, Rec
<1> DEFINE Good(i) ==
        /\ kept[i] \in Seq(T \cap S) /\ Len(kept[i]) <= i
        /\ \A j \in 1 .. i : s[j] \in S => \E m \in 1 .. Len(kept[i]) : kept[i][m] = s[j]
           U == {i \in 0 .. n : Good(i)}
<1>9. 0 \in U
  <2>1. <<>> \in Seq(T \cap S) /\ Len(<<>>) <= 0
    BY EmptySeq
  <2>2. kept[0] \in Seq(T \cap S) /\ Len(kept[0]) <= 0
    BY <1>7, <2>1
  <2>3. \A j \in 1 .. 0 : s[j] \in S => \E m \in 1 .. Len(kept[0]) : kept[0][m] = s[j]
    OBVIOUS
  <2> QED BY <2>2, <2>3
<1>10. ASSUME NEW i \in 1 .. n, i - 1 \in U PROVE i \in U
  <2>1. PICK k : k = kept[i - 1]
    OBVIOUS
  <2>2. /\ k \in Seq(T \cap S) /\ Len(k) <= i - 1 /\ Len(k) \in Nat
        /\ \A j \in 1 .. i - 1 : s[j] \in S => \E m \in 1 .. Len(k) : k[m] = s[j]
    BY <1>10, <2>1
  <2>3. CASE s[i] \notin S
    <3>1. kept[i] = k
      BY <1>7, <2>1, <2>3
    <3>2. \A j \in 1 .. i : s[j] \in S => j \in 1 .. i - 1
      BY <2>3
    <3> QED BY <2>2, <3>1, <3>2
  <2>4. CASE s[i] \in S
    <3>1. kept[i] = Append(k, s[i]) /\ s[i] \in T \cap S
      BY <1>2, <1>7, <2>1, <2>4
    <3>2. /\ kept[i] \in Seq(T \cap S) /\ Len(kept[i]) = Len(k) + 1
          /\ kept[i][Len(k) + 1] = s[i] /\ \A m \in 1 .. Len(k) : kept[i][m] = k[m]
      BY <2>2, <3>1, AppendProperties
    <3>3. ASSUME NEW j \in 1 .. i, s[j] \in S PROVE \E m \in 1 .. Len(kept[i]) : kept[i][m] = s[j]
      <4>1. CASE j = i
        <5>1. Len(k) + 1 \in 1 .. Len(kept[i])
          BY <2>2, <3>2
        <5> QED BY <3>2, <4>1, <5>1
      <4>2. CASE j # i
        <5>1. PICK m \in 1 .. Len(k) : k[m] = s[j]
          BY <2>2, <3>3, <4>2
        <5>2. m \in 1 .. Len(kept[i])
          BY <2>2, <3>2
        <5> QED BY <3>2, <5>1, <5>2
      <4> QED BY <4>1, <4>2
    <3> QED BY <2>2, <3>2, <3>3
  <2> QED BY <2>3, <2>4
<1>11. n \in U
  <2> HIDE DEF U
  <2>1. \A i \in 0 .. n : i \in U
    BY <1>9, <1>10, UpToInduction
  <2> QED BY <2>1
<1> QED BY <1>1, <1>8, <1>11

LEMMA TotalIs ==
  ASSUME NEW n \in Nat, NEW s \in [1 .. n -> Nat]
  PROVE  Total(s) \in Nat
<1>1. n = Len(s)
  BY LenProperties, SeqDef
<1> DEFINE F == [p \in (1 .. n) \X Nat |-> p[2] + s[p[1]]]
           Rec(h) == [i \in 0 .. n |-> IF i = 0 THEN 0 ELSE h[i - 1] + s[i]]
           sum == CHOOSE h : h = Rec(h)
<1>2. F \in [(1 .. n) \X Nat -> Nat]
  OBVIOUS
<1>3. PICK f : IsLoop(f, n, Nat, 0, F)
  <2> HIDE DEF F
  <2> QED BY <1>2, LoopExists
<1>4. f = Rec(f)
  <2>1. f \in [0 .. n -> Nat] /\ f[0] = 0
    BY <1>3 DEF IsLoop
  <2>2. ASSUME NEW i \in 1 .. n PROVE f[i] = f[i - 1] + s[i]
    <3>1. f[i] = F[<<i, f[i - 1]>>]
      <4> HIDE DEF F
      <4> QED BY <1>3 DEF IsLoop
    <3>2. <<i, f[i - 1]>> \in (1 .. n) \X Nat
      BY <2>1
    <3> QED BY <3>1, <3>2
  <2>3. \A i \in 0 .. n : i = 0 \/ i \in 1 .. n
    OBVIOUS
  <2> QED BY <2>1, <2>2, <2>3
<1>5. sum = Rec(sum)
  <2> HIDE DEF Rec
  <2> QED BY <1>4
<1>6. sum[0] = 0 /\ \A i \in 1 .. n : sum[i] = sum[i - 1] + s[i]
  <2>1. PICK h : h = sum /\ h = Rec(h)
    <3> HIDE DEF Rec, sum
    <3> QED BY <1>5
  <2>2. h[0] = 0 /\ \A i \in 1 .. n : h[i] = h[i - 1] + s[i]
    <3> HIDE DEF sum
    <3>1. 0 \in 0 .. n /\ \A i \in 1 .. n : i \in 0 .. n /\ i # 0
      OBVIOUS
    <3> QED BY <2>1, <3>1
  <2> HIDE DEF sum
  <2> QED BY <2>1, <2>2
<1>7. Total(s) = sum[n]
  BY <1>1 DEF Total
<1> HIDE DEF sum, F, Rec
<1> DEFINE U == {i \in 0 .. n : sum[i] \in Nat}
<1>8. 0 \in U
  BY <1>6
<1>9. ASSUME NEW i \in 1 .. n, i - 1 \in U PROVE i \in U
  BY <1>6, <1>9
<1>10. n \in U
  <2> HIDE DEF U
  <2>1. \A i \in 0 .. n : i \in U
    BY <1>8, <1>9, UpToInduction
  <2> QED BY <2>1
<1> QED BY <1>7, <1>10

\* Every value of a sequence once.
LEMMA FirstsIs ==
  ASSUME NEW T, NEW s \in Seq(T)
  PROVE  Firsts(s) \in Seq(T) /\ (Len(s) > 0 => Len(Firsts(s)) > 0)
<1>1. PICK n \in Nat : n = Len(s)
  BY LenProperties
<1>2. \A i \in 1 .. n : s[i] \in T
  BY <1>1
<1> DEFINE F == [p \in (1 .. n) \X Seq(T) |-> IF Contains(p[2], s[p[1]]) THEN p[2]
                                               ELSE Append(p[2], s[p[1]])]
           Rec(h) == [i \in 0 .. n |-> IF i = 0 THEN <<>>
                                       ELSE IF Contains(h[i - 1], s[i]) THEN h[i - 1]
                                            ELSE Append(h[i - 1], s[i])]
           seen == CHOOSE h : h = Rec(h)
<1>3. F \in [(1 .. n) \X Seq(T) -> Seq(T)]
  <2> SUFFICES ASSUME NEW p \in (1 .. n) \X Seq(T)
               PROVE  (IF Contains(p[2], s[p[1]]) THEN p[2] ELSE Append(p[2], s[p[1]])) \in Seq(T)
    OBVIOUS
  <2>1. s[p[1]] \in T /\ p[2] \in Seq(T)
    BY <1>2
  <2> QED BY <2>1, AppendProperties
<1>4. PICK f : IsLoop(f, n, Seq(T), <<>>, F)
  <2>1. <<>> \in Seq(T)
    OBVIOUS
  <2> HIDE DEF F
  <2> QED BY <1>3, <2>1, LoopExists
<1>5. f = Rec(f)
  <2>1. f \in [0 .. n -> Seq(T)] /\ f[0] = <<>>
    BY <1>4 DEF IsLoop
  <2>2. ASSUME NEW i \in 1 .. n
        PROVE  f[i] = IF Contains(f[i - 1], s[i]) THEN f[i - 1] ELSE Append(f[i - 1], s[i])
    <3>1. f[i] = F[<<i, f[i - 1]>>]
      <4> HIDE DEF F
      <4> QED BY <1>4 DEF IsLoop
    <3>2. <<i, f[i - 1]>> \in (1 .. n) \X Seq(T)
      BY <2>1
    <3> QED BY <3>1, <3>2
  <2>3. \A i \in 0 .. n : i = 0 \/ i \in 1 .. n
    OBVIOUS
  <2> QED BY <2>1, <2>2, <2>3
<1>6. seen = Rec(seen)
  <2> HIDE DEF Rec
  <2> QED BY <1>5
<1>7. /\ seen[0] = <<>>
      /\ \A i \in 1 .. n : seen[i] = IF Contains(seen[i - 1], s[i]) THEN seen[i - 1]
                                     ELSE Append(seen[i - 1], s[i])
  <2>1. PICK h : h = seen /\ h = Rec(h)
    <3> HIDE DEF Rec, seen
    <3> QED BY <1>6
  <2>2. /\ h[0] = <<>>
        /\ \A i \in 1 .. n : h[i] = IF Contains(h[i - 1], s[i]) THEN h[i - 1]
                                    ELSE Append(h[i - 1], s[i])
    <3> HIDE DEF seen
    <3>1. 0 \in 0 .. n /\ \A i \in 1 .. n : i \in 0 .. n /\ i # 0
      OBVIOUS
    <3> QED BY <2>1, <3>1
  <2> HIDE DEF seen
  <2> QED BY <2>1, <2>2
<1>8. Firsts(s) = seen[n]
  BY <1>1 DEF Firsts
<1> HIDE DEF seen, F, Rec
<1> DEFINE U == {i \in 0 .. n : seen[i] \in Seq(T) /\ (i > 0 => Len(seen[i]) > 0)}
<1>9. 0 \in U
  <2>1. <<>> \in Seq(T) /\ 0 \in 0 .. n /\ ~ (0 > 0)
    OBVIOUS
  <2>2. seen[0] \in Seq(T)
    BY <1>7, <2>1
  <2> QED BY <2>1, <2>2
<1>10. ASSUME NEW i \in 1 .. n, i - 1 \in U PROVE i \in U
  <2>1. PICK k : k = seen[i - 1] /\ k \in Seq(T)
    BY <1>10
  <2>2. Len(k) \in Nat /\ s[i] \in T
    BY <1>2, <2>1, LenProperties
  <2>3. CASE Contains(k, s[i])
    <3>1. seen[i] = k /\ Len(k) > 0
      BY <1>7, <2>1, <2>2, <2>3 DEF Contains
    <3> QED BY <2>1, <3>1
  <2>4. CASE ~ Contains(k, s[i])
    <3>1. seen[i] = Append(k, s[i])
      BY <1>7, <2>1, <2>4
    <3>2. seen[i] \in Seq(T) /\ Len(seen[i]) = Len(k) + 1
      BY <2>1, <2>2, <3>1, AppendProperties
    <3> QED BY <2>2, <3>2
  <2> QED BY <2>3, <2>4
<1>11. n \in U
  <2> HIDE DEF U
  <2>1. \A i \in 0 .. n : i \in U
    BY <1>9, <1>10, UpToInduction
  <2> QED BY <2>1
<1> QED BY <1>1, <1>8, <1>11

\* Sequences put together.
LEMMA ConcatSet ==
  ASSUME NEW T, NEW a \in Seq(T), NEW b \in Seq(T)
  PROVE  ToSet(a) \subseteq ToSet(a \o b) /\ ToSet(b) \subseteq ToSet(a \o b)
<1>1. PICK m, n \in Nat : m = Len(a) /\ n = Len(b) /\ DOMAIN a = 1 .. m /\ DOMAIN b = 1 .. n
  OBVIOUS
<1>2. PICK c : c = a \o b
  OBVIOUS
<1>3. /\ DOMAIN c = 1 .. (m + n) /\ \A i \in 1 .. m : c[i] = a[i]
      /\ \A i \in 1 .. n : c[m + i] = b[i]
  <2>1. c \in Seq(T) /\ Len(c) = m + n
    BY <1>1, <1>2, ConcatProperties
  <2>2. \A i \in 1 .. (m + n) : c[i] = IF i <= m THEN a[i] ELSE b[i - m]
    BY <1>1, <1>2, ConcatProperties
  <2>3. ASSUME NEW i \in 1 .. n PROVE c[m + i] = b[i]
    <3>1. m + i \in 1 .. (m + n) /\ ~(m + i <= m) /\ (m + i) - m = i
      OBVIOUS
    <3> QED BY <2>2, <3>1
  <2> QED BY <2>1, <2>2, <2>3
<1>4. ToSet(c) = {c[i] : i \in 1 .. (m + n)} /\ ToSet(a) = {a[i] : i \in 1 .. m}
      /\ ToSet(b) = {b[i] : i \in 1 .. n}
  BY <1>1, <1>3 DEF ToSet
<1>5. (\A i \in 1 .. m : i \in 1 .. (m + n)) /\ (\A i \in 1 .. n : m + i \in 1 .. (m + n))
  OBVIOUS
<1> QED BY <1>2, <1>3, <1>4, <1>5

LEMMA FlattenAll ==
  ASSUME NEW T, NEW n \in Nat, NEW ss \in [1 .. n -> Seq(T)]
  PROVE  /\ FlattenSeq(ss) \in Seq(T)
         /\ \A i \in 1 .. n : /\ Len(ss[i]) <= Len(FlattenSeq(ss))
                             /\ ToSet(ss[i]) \subseteq ToSet(FlattenSeq(ss))
<1>1. n = Len(ss) /\ ss \in Seq(Seq(T))
  BY LenProperties, SeqDef
<1>2. CASE n = 0
  <2>1. ss = <<>>
    BY <1>1, <1>2, EmptySeq
  <2>2. FlattenSeq(ss) = <<>>
    BY <1>1, <1>2, <2>1 DEF FlattenSeq
  <2>3. <<>> \in Seq(T)
    OBVIOUS
  <2> QED BY <1>2, <2>2, <2>3
<1>3. CASE n > 0
  <2> DEFINE Rec(h) == [i \in 1 .. n |-> IF i = 1 THEN ss[i] ELSE h[i - 1] \o ss[i]]
             flat == CHOOSE h : h = Rec(h)
             F == [p \in (1 .. n) \X Seq(T) |-> p[2] \o ss[p[1]]]
  <2>1. F \in [(1 .. n) \X Seq(T) -> Seq(T)]
    <3> SUFFICES ASSUME NEW p \in (1 .. n) \X Seq(T) PROVE p[2] \o ss[p[1]] \in Seq(T)
      OBVIOUS
    <3> QED BY ConcatProperties
  <2>2. PICK f : IsLoop(f, n, Seq(T), <<>>, F)
    <3>1. <<>> \in Seq(T)
      OBVIOUS
    <3> HIDE DEF F
    <3> QED BY <2>1, <3>1, LoopExists
  <2>3. PICK e : e = [i \in 1 .. n |-> f[i]]
    OBVIOUS
  <2>4. e = Rec(e)
    <3>1. f \in [0 .. n -> Seq(T)] /\ f[0] = <<>>
      BY <2>2 DEF IsLoop
    <3>2. ASSUME NEW i \in 1 .. n PROVE f[i] = f[i - 1] \o ss[i]
      <4>1. f[i] = F[<<i, f[i - 1]>>]
        <5> HIDE DEF F
        <5> QED BY <2>2 DEF IsLoop
      <4>2. PICK k : k = f[i - 1]
        OBVIOUS
      <4>3. <<i, k>> \in (1 .. n) \X Seq(T)
        <5>1. i - 1 \in 0 .. n
          OBVIOUS
        <5>2. k \in Seq(T)
          BY <3>1, <4>2, <5>1
        <5> QED BY <5>2
      <4>4. F[<<i, k>>] = k \o ss[i]
        BY <4>3
      <4> HIDE DEF F
      <4> QED BY <4>1, <4>2, <4>4
    <3>3. f[1] = ss[1]
      <4>0. 1 \in 1 .. n /\ 1 - 1 = 0
        BY <1>3
      <4>1. f[1] = <<>> \o ss[1]
        BY <3>1, <3>2, <4>0
      <4>2. ss[1] \in Seq(T)
        BY <4>0
      <4> QED BY <4>1, <4>2, ConcatEmptySeq
    <3>4. ASSUME NEW i \in 1 .. n, i # 1 PROVE e[i] = e[i - 1] \o ss[i]
      <4>1. i - 1 \in 1 .. n
        BY <3>4
      <4> QED BY <2>3, <3>2, <4>1
    <3> QED BY <2>3, <3>3, <3>4
  <2>5. flat = Rec(flat)
    <3> HIDE DEF Rec
    <3> QED BY <2>4
  <2>6. flat[1] = ss[1] /\ \A i \in 2 .. n : flat[i] = flat[i - 1] \o ss[i]
    <3>1. PICK h : h = flat /\ h = Rec(h)
      <4> HIDE DEF Rec, flat
      <4> QED BY <2>5
    <3>2. h[1] = ss[1] /\ \A i \in 2 .. n : h[i] = h[i - 1] \o ss[i]
      <4> HIDE DEF flat
      <4>1. 1 \in 1 .. n /\ \A i \in 2 .. n : i \in 1 .. n /\ i # 1
        BY <1>3
      <4> QED BY <3>1, <4>1
    <3> HIDE DEF flat
    <3> QED BY <3>1, <3>2
  <2>7. FlattenSeq(ss) = flat[n]
    BY <1>1, <1>3 DEF FlattenSeq
  <2> HIDE DEF flat, Rec, F
  <2> DEFINE Good(i) == /\ flat[i] \in Seq(T)
                        /\ \A j \in 1 .. i : /\ Len(ss[j]) <= Len(flat[i])
                                            /\ ToSet(ss[j]) \subseteq ToSet(flat[i])
             U == {i \in 0 .. n : i > 0 => Good(i)}
  <2>8. 0 \in U
    OBVIOUS
  <2>9. ASSUME NEW i \in 1 .. n, i - 1 \in U PROVE i \in U
    <3>1. ss[i] \in Seq(T) /\ Len(ss[i]) \in Nat
      BY LenProperties
    <3>2. CASE i = 1
      BY <2>6, <3>1, <3>2
    <3>3. CASE i # 1
      <4>1. i \in 2 .. n
        BY <3>3
      <4>2. Good(i - 1)
        BY <2>9, <4>1
      <4>3. PICK k : k = flat[i - 1] /\ k \in Seq(T) /\ Len(k) \in Nat
        BY <4>2, LenProperties
      <4>4. flat[i] = k \o ss[i]
        BY <2>6, <4>1, <4>3
      <4>5. flat[i] \in Seq(T) /\ Len(flat[i]) = Len(k) + Len(ss[i])
        BY <3>1, <4>3, <4>4, ConcatProperties
      <4>7. ToSet(k) \subseteq ToSet(flat[i]) /\ ToSet(ss[i]) \subseteq ToSet(flat[i])
        BY <3>1, <4>3, <4>4, ConcatSet
      <4>8. ASSUME NEW j \in 1 .. i PROVE ToSet(ss[j]) \subseteq ToSet(flat[i])
        <5>1. CASE j = i
          BY <4>7, <5>1
        <5>2. CASE j # i
          <6>1. j \in 1 .. (i - 1)
            BY <5>2
          <6>2. ToSet(ss[j]) \subseteq ToSet(k)
            BY <4>2, <4>3, <6>1
          <6> QED BY <4>7, <6>2
        <5> QED BY <5>1, <5>2
      <4>6. ASSUME NEW j \in 1 .. i PROVE Len(ss[j]) <= Len(flat[i])
        <5>1. CASE j = i
          BY <3>1, <4>3, <4>5, <5>1
        <5>2. CASE j # i
          <6>1. j \in 1 .. (i - 1) /\ j \in 1 .. n
            BY <5>2
          <6>2. Len(ss[j]) <= Len(k) /\ Len(ss[j]) \in Nat
            BY <4>2, <4>3, <6>1, LenProperties
          <6> QED BY <3>1, <4>3, <4>5, <6>2
        <5> QED BY <5>1, <5>2
      <4> QED BY <4>5, <4>6, <4>8
    <3> QED BY <3>2, <3>3
  <2>10. n \in U
    <3> HIDE DEF U
    <3>1. \A i \in 0 .. n : i \in U
      BY <2>8, <2>9, UpToInduction
    <3> QED BY <3>1
  <2> QED BY <1>3, <2>7, <2>10
<1> QED BY <1>2, <1>3

LEMMA FlattenIn ==
  ASSUME NEW T, NEW n \in Nat, NEW ss \in [1 .. n -> Seq(T)]
  PROVE  FlattenSeq(ss) \in Seq(T) /\ \A i \in 1 .. n : Len(ss[i]) <= Len(FlattenSeq(ss))
BY FlattenAll

-----------------------------------------------------------------------------
(* What a group must be for the planning to make sense of it.               *)
SamePages(s, t) == \A len \in Nat : Pages(s, len) = Pages(t, len)
WellGroup(g) ==
    /\ DOMAIN g = {"names", "of", "uni", "spec", "eagle"}
    /\ g.uni \in BOOLEAN
    /\ g.of \in [DOMAIN g.of -> SpecSet] /\ DOMAIN g.of # {}
    /\ g.names \in Seq(DOMAIN g.of)
    /\ ~ g.uni => g.spec \in SpecSet
    /\ g.uni => \A m, n \in DOMAIN g.of : SamePages(g.of[m], g.of[n])

LEMMA CDivIs ==
  ASSUME NEW a \in Nat, NEW b \in Nat \ {0}
  PROVE  CDiv(a, b) \in Nat /\ (a > 0 => CDiv(a, b) > 0) /\ CDiv(a, b) <= a
<1>1. a + b - 1 \in Nat
  OBVIOUS
<1>2. (a + b - 1) \div b \in Nat /\ b * ((a + b - 1) \div b) <= a + b - 1
      /\ a + b - 1 < b * ((a + b - 1) \div b) + b
  BY <1>1
<1>3. PICK q \in Nat : q = (a + b - 1) \div b
  BY <1>2
<1>4. b * q <= a + b - 1 /\ a + b - 1 < b * q + b
  BY <1>2, <1>3
<1>5. a > 0 => q > 0
  <2>1. CASE q = 0
    <3>1. b * q = 0
      BY <2>1
    <3> QED BY <1>4, <3>1
  <2> QED BY <2>1
<1>6. q <= a
  <2> SUFFICES ASSUME q > a PROVE FALSE
    OBVIOUS
  <2>1. PICK d \in Nat : q = a + 1 + d
    <3>1. q - a - 1 \in Nat /\ q = a + 1 + (q - a - 1)
      OBVIOUS
    <3> QED BY <3>1
  <2>2. b * q = b * a + b + b * d
    BY <2>1
  <2>3. b * a >= a /\ b * d >= 0
    <3>1. PICK c \in Nat : b = c + 1
      <4>1. b - 1 \in Nat /\ b = (b - 1) + 1
        OBVIOUS
      <4> QED BY <4>1
    <3>2. b * a = c * a + a /\ c * a \in Nat /\ b * d \in Nat
      BY <3>1
    <3> QED BY <3>2
  <2>4. b * a \in Nat /\ b * d \in Nat
    OBVIOUS
  <2> QED BY <1>4, <2>2, <2>3, <2>4
<1> QED BY <1>3, <1>5, <1>6 DEF CDiv

LEMMA SpecPages ==
  ASSUME NEW s \in SpecSet
  PROVE  Page(s) \in Nat /\ RealPage(s) \in Nat /\ \A len \in Nat : Pages(s, len) \in Nat
<1>1. s.bs \in Nat \ {0} /\ s.tok \in Nat /\ s.pad \in Nat /\ s.win \in Nat /\ s.tps \in Nat \ {0}
  BY DEF SpecSet
<1>2. RealPage(s) \in Nat
  <2>1. s.bs * s.tok \in Nat
    BY <1>1
  <2>2. (s.bs * s.tok) \div s.tps \in Nat
    BY <1>1, <2>1
  <2> QED BY <1>1, <2>2 DEF RealPage
<1>3. Page(s) \in Nat
  BY <1>1, <1>2 DEF Page
<1>4. ASSUME NEW len \in Nat PROVE Pages(s, len) \in Nat
  <2>1. CDiv(s.win, s.bs) \in Nat /\ CDiv(len, s.bs) \in Nat
    BY <1>1, CDivIs
  <2> QED BY <2>1 DEF Pages
<1> QED BY <1>2, <1>3, <1>4

LEMMA MaxOfOne ==
  ASSUME NEW x \in Nat PROVE Max({x}) = x
BY DEF Max

\* What a rank keeps of a group costs it as many blocks as the whole group.
LEMMA ProjectedIs ==
  ASSUME NEW g, WellGroup(g), NEW r
  PROVE  /\ GroupBytes(Projected(g, r)) \in Nat
         /\ \A len \in Nat : /\ GroupPages(g, len) \in Nat
                             /\ GroupPages(Projected(g, r), len) = GroupPages(g, len)
<1> DEFINE names == Where(g.names, RankNames[r])
           p == Projected(g, r)
<1>1. names \in Seq(DOMAIN g.of)
  <2>1. g.names \in Seq(DOMAIN g.of)
    BY DEF WellGroup
  <2>2. names \in Seq((DOMAIN g.of) \cap RankNames[r])
    BY <2>1, WhereIs
  <2>3. \A i \in 1 .. Len(names) : names[i] \in DOMAIN g.of
    BY <2>2
  <2> QED BY <2>2, <2>3
<1>2. /\ p.names = names /\ p.uni = g.uni
      /\ p.of = IF names = <<>> THEN g.of ELSE [n \in ToSet(names) |-> g.of[n]]
      /\ p.spec = IF names = <<>> \/ ~ g.uni THEN g.spec ELSE g.of[names[1]]
  BY DEF Projected, WellGroup
<1> HIDE DEF p, names
<1>3. PICK n \in Nat : n = Len(names) /\ DOMAIN names = 1 .. n
  BY <1>1
<1>4. \A i \in 1 .. n : names[i] \in DOMAIN g.of /\ g.of[names[i]] \in SpecSet
  BY <1>1, <1>3 DEF WellGroup
<1>5. \A i \in 1 .. n : names # <<>> /\ names[i] \in ToSet(names)
  BY <1>1, <1>3 DEF ToSet
<1>6. \A i \in 1 .. n : p.of[names[i]] = g.of[names[i]]
  BY <1>2, <1>5
<1>7. GroupBytes(p) \in Nat
  <2> DEFINE pages == [i \in DOMAIN names |-> Page(p.of[names[i]])]
  <2>1. pages \in [1 .. n -> Nat]
    BY <1>3, <1>4, <1>6, SpecPages
  <2>2. GroupBytes(p) = Total(pages)
    BY <1>2 DEF GroupBytes
  <2> HIDE DEF pages
  <2> QED BY <2>1, <2>2, TotalIs
<1>8. ASSUME NEW len \in Nat
      PROVE  GroupPages(g, len) \in Nat /\ GroupPages(p, len) = GroupPages(g, len)
  <2>1. CASE ~ g.uni
    <3>1. GroupPages(g, len) = Pages(g.spec, len) /\ GroupPages(p, len) = Pages(g.spec, len)
      BY <1>2, <2>1 DEF GroupPages
    <3>2. g.spec \in SpecSet
      BY <2>1 DEF WellGroup
    <3> QED BY <3>1, <3>2, SpecPages
  <2>2. CASE g.uni
    <3>1. PICK m \in DOMAIN g.of : TRUE
      BY DEF WellGroup
    <3>2. g.of[m] \in SpecSet
      BY <3>1 DEF WellGroup
    <3>3. PICK x \in Nat : x = Pages(g.of[m], len)
      BY <3>2, SpecPages
    <3>4. \A k \in DOMAIN g.of : Pages(g.of[k], len) = x
      BY <2>2, <3>1, <3>3 DEF WellGroup, SamePages
    <3>5. {Pages(g.of[k], len) : k \in DOMAIN g.of} = {x}
      BY <3>1, <3>4
    <3>6. {Pages(p.of[k], len) : k \in DOMAIN p.of} = {x}
      <4>1. CASE names = <<>>
        BY <1>2, <3>5, <4>1
      <4>2. CASE names # <<>>
        <5>1. 1 \in 1 .. n
          BY <1>1, <1>3, <4>2, EmptySeq
        <5>2. DOMAIN p.of = ToSet(names) /\ \A k \in ToSet(names) : p.of[k] = g.of[k]
          BY <1>2, <4>2
        <5>3. \A k \in ToSet(names) : k \in DOMAIN g.of
          BY <1>3, <1>4 DEF ToSet
        <5>4. names[1] \in ToSet(names)
          BY <1>5, <5>1
        <5>5. \A k \in DOMAIN p.of : Pages(p.of[k], len) = x
          BY <3>4, <5>2, <5>3
        <5> QED BY <5>2, <5>4, <5>5
      <4> QED BY <4>1, <4>2
    <3>7. GroupPages(g, len) = Max({x}) /\ GroupPages(p, len) = Max({x})
      BY <1>2, <2>2, <3>5, <3>6 DEF GroupPages
    <3> QED BY <3>7, MaxOfOne
  <2> QED BY <2>1, <2>2 DEF WellGroup
<1> QED BY <1>7, <1>8 DEF p

\* The groups of a model, as one sequence.
IsWell(gs) ==
    /\ gs \in Seq({gs[g] : g \in DOMAIN gs})
    /\ \A g \in DOMAIN gs : WellGroup(gs[g])
WellGroups == IsWell(groups)

LEMMA GroupCount ==
  ASSUME WellGroups
  PROVE  /\ Len(groups) \in Nat /\ DOMAIN groups = 1 .. Len(groups)
         /\ groups # <<>> => Len(groups) > 0
<1>1. groups \in Seq({groups[g] : g \in DOMAIN groups})
  BY DEF WellGroups, IsWell
<1> QED BY <1>1, EmptySeq, LenProperties

LEMMA BytesAre ==
  ASSUME WellGroups, groups # <<>>, NEW r
  PROVE  BytesPerBlock(r) \in Nat
<1>1. PICK n \in Nat : n = Len(groups) /\ DOMAIN groups = 1 .. n /\ n > 0
  BY GroupCount
<1> DEFINE bytes == [g \in 1 .. n |-> GroupBytes(GroupsOf(r)[g])]
<1>2. \A g \in 1 .. n : GroupsOf(r)[g] = Projected(groups[g], r)
  BY <1>1 DEF GroupsOf
<1>3. bytes \in [1 .. n -> Nat]
  BY <1>1, <1>2, ProjectedIs DEF WellGroups, IsWell
<1>4. BytesPerBlock(r) = Max({bytes[g] : g \in 1 .. n})
  <2>1. DOMAIN GroupsOf(r) = 1 .. n
    BY <1>1 DEF GroupsOf
  <2>2. {GroupBytes(GroupsOf(r)[g]) : g \in DOMAIN GroupsOf(r)} = {bytes[g] : g \in 1 .. n}
    BY <2>1
  <2> QED BY <2>2 DEF BytesPerBlock, _get_kv_cache_bytes_per_block
<1> HIDE DEF bytes
<1> QED BY <1>1, <1>3, <1>4, MaxOfIs

LEMMA RequestPagesIs ==
  ASSUME WellGroups, NEW r, NEW len \in Nat
  PROVE  /\ RequestPages(groups, len) \in Nat
         /\ RequestPages(GroupsOf(r), len) = RequestPages(groups, len)
<1>1. PICK n \in Nat : n = Len(groups) /\ DOMAIN groups = 1 .. n
  BY GroupCount
<1> DEFINE pages == [g \in 1 .. n |-> GroupPages(groups[g], len)]
           kept == [g \in 1 .. n |-> GroupPages(GroupsOf(r)[g], len)]
<1>2. \A g \in 1 .. n : GroupsOf(r)[g] = Projected(groups[g], r)
  BY <1>1 DEF GroupsOf
<1>3. ASSUME NEW g \in 1 .. n PROVE pages[g] \in Nat /\ kept[g] = pages[g]
  <2>1. WellGroup(groups[g])
    BY <1>1 DEF WellGroups, IsWell
  <2>2. /\ GroupPages(groups[g], len) \in Nat
        /\ GroupPages(Projected(groups[g], r), len) = GroupPages(groups[g], len)
    BY <2>1, ProjectedIs
  <2> QED BY <1>2, <2>2
<1>4. kept = pages /\ pages \in [1 .. n -> Nat]
  <2>1. kept = pages
    BY <1>3
  <2>2. pages \in [1 .. n -> Nat]
    BY <1>3
  <2> QED BY <2>1, <2>2
<1>5. RequestPages(groups, len) = Total(pages)
  BY <1>1 DEF RequestPages
<1>6. RequestPages(GroupsOf(r), len) = Total(kept)
  <2>1. DOMAIN GroupsOf(r) = 1 .. n
    BY <1>1 DEF GroupsOf
  <2> QED BY <2>1 DEF RequestPages
<1> HIDE DEF pages, kept
<1> QED BY <1>4, <1>5, <1>6, TotalIs

\* Whether a request fits, in numbers.
LEMMA FitsIs ==
  ASSUME WellGroups, groups # <<>>, NEW r, NEW len \in Nat
  PROVE  Fits(r, len) <=> BytesPerBlock(r) * RequestPages(groups, len) <= CheckMemory(r)
BY RequestPagesIs DEF Fits, _max_memory_usage_bytes_from_groups

\* b bytes a block, p pages a request, m bytes of memory.
LEMMA PoolHolds ==
  ASSUME NEW b \in Nat \ {0}, NEW p \in Nat, NEW m \in Nat
  PROVE  /\ b * p <= m - b => p < m \div b
         /\ ~ (b * p <= m - b) => p >= m \div b
         /\ m \div b \in Nat
<1>1. PICK q \in Nat : q = m \div b
  OBVIOUS
<1>2. b * q <= m /\ m < b * q + b
  BY <1>1
<1>3. ASSUME p >= q PROVE b * p >= b * q
  <2>1. PICK d \in Nat : p = q + d
    <3>1. p - q \in Nat /\ p = q + (p - q)
      BY <1>3
    <3> QED BY <3>1
  <2>2. b * p = b * q + b * d /\ b * d \in Nat /\ b * q \in Nat
    BY <2>1
  <2> QED BY <2>2
<1>4. ASSUME p < q PROVE b * p + b <= b * q
  <2>1. PICK d \in Nat : q = p + 1 + d
    <3>1. q - p - 1 \in Nat /\ q = p + 1 + (q - p - 1)
      BY <1>4
    <3> QED BY <3>1
  <2>2. b * q = b * p + b + b * d /\ b * d \in Nat /\ b * p \in Nat
    BY <2>1
  <2> QED BY <2>2
<1>5. b * p \in Nat /\ b * q \in Nat
  OBVIOUS
<1> QED BY <1>1, <1>2, <1>3, <1>4, <1>5

LEMMA DivideBack ==
  ASSUME NEW b \in Nat \ {0}, NEW q \in Nat
  PROVE  (q * b) \div b = q
<1>1. PICK z \in Nat : z = (q * b) \div b
  BY q * b \in Nat
<1>2. b * z <= q * b /\ q * b < b * z + b
  BY <1>1
<1>3. CASE z > q
  <2>1. PICK d \in Nat : z = q + 1 + d
    <3>1. z - q - 1 \in Nat /\ z = q + 1 + (z - q - 1)
      BY <1>3
    <3> QED BY <3>1
  <2>2. b * z = b * q + b + b * d /\ b * d \in Nat /\ b * q \in Nat /\ q * b = b * q
    BY <2>1
  <2> QED BY <1>2, <2>2
<1>4. CASE z < q
  <2>1. PICK d \in Nat : q = z + 1 + d
    <3>1. q - z - 1 \in Nat /\ q = z + 1 + (q - z - 1)
      BY <1>4
    <3> QED BY <3>1
  <2>2. q * b = b * z + b + b * d /\ b * d \in Nat /\ b * z \in Nat
    BY <2>1
  <2> QED BY <1>2, <2>2
<1> QED BY <1>1, <1>3, <1>4

\* The search for the longest length: what has been seen to fit lies on the
\* left of the interval, what has been seen not to fit on its right.
SearchSet == [left : Nat \ {0}, right : Nat, result : Nat]
InReach(r, s) ==
    /\ s.result <= ModelLen /\ s.right <= ModelLen /\ s.left <= s.right + 1
    /\ s.left = s.result + 1 \/ (s.left = 1 /\ s.result = 1)
    /\ s.right = ModelLen \/ ~ Fits(r, s.right + 1)
Closing(s, k) == s.left > s.right \/ s.right - s.left < k

LEMMA HalveIs ==
  ASSUME NEW r, NEW s \in SearchSet, ModelLen \in Nat \ {0}
  PROVE  /\ Halve(r, s) \in SearchSet
         /\ InReach(r, s) => InReach(r, Halve(r, s))
         /\ \A k \in Nat : Closing(s, k) => Closing(Halve(r, s), k - 1)
<1>1. s.left \in Nat \ {0} /\ s.right \in Nat /\ s.result \in Nat
  BY DEF SearchSet
<1>2. CASE s.left > s.right
  <2>1. Halve(r, s) = s
    BY <1>2 DEF Halve
  <2> QED BY <1>2, <2>1 DEF Closing
<1>3. CASE s.left <= s.right
  <2>1. PICK mid \in Nat : mid = (s.left + s.right) \div 2
    BY <1>1
  <2>2. s.left <= mid /\ mid <= s.right /\ mid - 1 \in Nat
    BY <1>1, <1>3, <2>1
  <2>3. CASE Fits(r, mid)
    <3>1. PICK t : t = Halve(r, s)
      OBVIOUS
    <3>2. t = [s EXCEPT !.result = mid, !.left = mid + 1]
      BY <1>1, <1>3, <2>1, <2>3, <3>1 DEF Halve
    <3>3. t \in SearchSet /\ t.left = mid + 1 /\ t.right = s.right /\ t.result = mid
      <4>1. t = [left |-> mid + 1, right |-> s.right, result |-> mid]
        BY <3>2 DEF SearchSet
      <4>2. mid + 1 \in Nat \ {0} /\ s.right \in Nat
        BY <1>1
      <4> QED BY <4>1, <4>2 DEF SearchSet
    <3>4. InReach(r, s) => InReach(r, t)
      BY <1>1, <2>2, <3>3 DEF InReach
    <3>5. ASSUME NEW k \in Nat, Closing(s, k) PROVE Closing(t, k - 1)
      BY <1>1, <1>3, <2>2, <3>3, <3>5 DEF Closing
    <3> QED BY <3>1, <3>3, <3>4, <3>5
  <2>4. CASE ~ Fits(r, mid)
    <3>1. PICK t : t = Halve(r, s)
      OBVIOUS
    <3>2. t = [s EXCEPT !.right = mid - 1]
      BY <1>1, <1>3, <2>1, <2>4, <3>1 DEF Halve
    <3>3. t \in SearchSet /\ t.left = s.left /\ t.right = mid - 1 /\ t.result = s.result
      BY <2>2, <3>2 DEF SearchSet
    <3>4. InReach(r, s) => InReach(r, t)
      <4>1. t.right + 1 = mid
        BY <3>3
      <4>2. ~ Fits(r, t.right + 1)
        BY <2>4, <4>1
      <4>3. t.right <= s.right
        BY <1>1, <2>2, <3>3
      <4> QED BY <1>1, <2>2, <3>3, <4>2, <4>3 DEF InReach
    <3>5. ASSUME NEW k \in Nat, Closing(s, k) PROVE Closing(t, k - 1)
      BY <1>1, <1>3, <2>2, <3>3, <3>5 DEF Closing
    <3> QED BY <3>1, <3>3, <3>4, <3>5
  <2> QED BY <2>3, <2>4
<1> QED BY <1>1, <1>2, <1>3

\* The estimate cannot be raised by a token.
LEMMA EstimateIs ==
  ASSUME NEW r
  PROVE  LET e == _estimate_max_model_len_from_groups(r)
         IN  e \in 0 .. ModelLen /\ (e = 0 \/ e = ModelLen \/ ~ Fits(r, e + 1))
<1>1. PICK n \in Nat \ {0} : n = ModelLen
  BY PlanAssumption
<1> DEFINE S == SearchSet
           start == [left |-> 1, right |-> n, result |-> 1]
           F == [p \in (1 .. n) \X S |-> Halve(r, p[2])]
           Rec(h) == [i \in 0 .. ModelLen |->
                        IF i = 0 THEN [left |-> 1, right |-> ModelLen, result |-> 1]
                        ELSE Halve(r, h[i - 1])]
           search == CHOOSE h : h = Rec(h)
<1>2. F \in [(1 .. n) \X S -> S]
  BY <1>1, HalveIs
<1>3. start \in S
  BY DEF SearchSet
<1>4. PICK f : IsLoop(f, n, S, start, F)
  <2> HIDE DEF F, S, start
  <2> QED BY <1>2, <1>3, LoopExists
<1>5. f = Rec(f)
  <2>1. f \in [0 .. n -> S] /\ f[0] = start
    BY <1>4 DEF IsLoop
  <2>2. ASSUME NEW i \in 1 .. n PROVE f[i] = Halve(r, f[i - 1])
    <3>1. f[i] = F[<<i, f[i - 1]>>]
      <4> HIDE DEF F
      <4> QED BY <1>4 DEF IsLoop
    <3>2. <<i, f[i - 1]>> \in (1 .. n) \X S
      BY <2>1
    <3> QED BY <3>1, <3>2
  <2>3. \A i \in 0 .. n : i = 0 \/ i \in 1 .. n
    OBVIOUS
  <2> QED BY <1>1, <2>1, <2>2, <2>3
<1>6. search = Rec(search)
  <2> HIDE DEF Rec
  <2> QED BY <1>5
<1>7. search[0] = start /\ \A i \in 1 .. n : search[i] = Halve(r, search[i - 1])
  <2>1. PICK h : h = search /\ h = Rec(h)
    <3> HIDE DEF Rec, search
    <3> QED BY <1>6
  <2>2. h[0] = start /\ \A i \in 1 .. n : h[i] = Halve(r, h[i - 1])
    <3> HIDE DEF search
    <3>1. 0 \in 0 .. n /\ \A i \in 1 .. n : i \in 0 .. n /\ i # 0
      OBVIOUS
    <3> QED BY <1>1, <2>1, <3>1
  <2> HIDE DEF search
  <2> QED BY <2>1, <2>2
<1>8. _estimate_max_model_len_from_groups(r) = IF Fits(r, 1) THEN search[n].result ELSE 0
  BY <1>1 DEF _estimate_max_model_len_from_groups
<1> HIDE DEF search, F, Rec, S
<1> DEFINE Good(i) ==
        /\ search[i] \in SearchSet /\ InReach(r, search[i])
        /\ Closing(search[i], n - i)
           U == {i \in 0 .. n : Good(i)}
<1>9. 0 \in U
  <2>1. search[0] = start /\ start \in SearchSet
    BY <1>3, <1>7 DEF S
  <2>2. start.left = 1 /\ start.right = n /\ start.result = 1
    OBVIOUS
  <2>3. InReach(r, start)
    BY <1>1, <2>2 DEF InReach
  <2>4. Closing(start, n - 0)
    BY <2>2 DEF Closing
  <2> HIDE DEF start
  <2> QED BY <2>1, <2>3, <2>4
<1>10. ASSUME NEW i \in 1 .. n, i - 1 \in U PROVE i \in U
  <2>1. PICK s \in SearchSet : s = search[i - 1]
    BY <1>10
  <2>2. InReach(r, s) /\ Closing(s, n - (i - 1))
    BY <1>10, <2>1
  <2>3. PICK k \in Nat : k = n - (i - 1)
    OBVIOUS
  <2>4. PICK t : t = Halve(r, s)
    OBVIOUS
  <2>5. search[i] = t
    BY <1>7, <2>1, <2>4
  <2>6. t \in SearchSet /\ InReach(r, t)
    BY <1>1, <2>2, <2>4, HalveIs
  <2>7. Closing(t, k - 1)
    BY <1>1, <2>2, <2>3, <2>4, HalveIs
  <2>8. k - 1 = n - i
    BY <2>3
  <2> QED BY <2>5, <2>6, <2>7, <2>8
<1>11. Good(n)
  <2> HIDE DEF U
  <2>1. \A i \in 0 .. n : i \in U
    BY <1>9, <1>10, UpToInduction
  <2>2. n \in U
    BY <2>1
  <2> QED BY <2>2 DEF U
<1>12. PICK s \in SearchSet : s = search[n]
  BY <1>11
<1>13. s.left \in Nat \ {0} /\ s.right \in Nat /\ s.result \in Nat
  BY DEF SearchSet
<1>14. InReach(r, s) /\ s.left > s.right
  BY <1>11, <1>12, <1>13 DEF Closing
<1>15. CASE ~ Fits(r, 1)
  BY <1>1, <1>8, <1>15
<1>16. CASE Fits(r, 1)
  <2>1. _estimate_max_model_len_from_groups(r) = s.result
    BY <1>8, <1>12, <1>16
  <2>2. s.left = s.right + 1
    BY <1>13, <1>14 DEF InReach
  <2>3. s.result = s.right \/ s.right = 0
    BY <1>13, <1>14, <2>2 DEF InReach
  <2>4. s.right = ModelLen \/ ~ Fits(r, s.right + 1)
    BY <1>14 DEF InReach
  <2>5. s.right # 0
    <3> SUFFICES ASSUME s.right = 0 PROVE FALSE
      OBVIOUS
    <3>1. s.right + 1 = 1
      OBVIOUS
    <3> QED BY <1>1, <1>16, <2>4, <3>1
  <2> QED BY <1>1, <1>13, <1>14, <2>1, <2>3, <2>4, <2>5 DEF InReach
<1> QED BY <1>15, <1>16

-----------------------------------------------------------------------------
(* From the groups to the pool.                                             *)
Grouped == phase \in {"autofit", "check", "plan", "shrink", "sizes", "ready"} /\ groups # <<>>
Counted == Grouped /\ phase # "autofit"
Checked == Counted /\ phase # "check"
Own(r) == PlanMemory(r) \div BytesPerBlock(r)
Longest == maxLen = ModelLen \/ \E r \in Ranks : ~ Fits(r, maxLen + 1)
Poorest == Min({Own(r) : r \in Ranks})
PoolInv ==
    /\ memory \in [Ranks -> Nat] /\ conf.override \in Nat
    /\ maxLen \in 1 .. ModelLen
    /\ phase \in {"align", "group", "autofit"} => maxLen = ModelLen
    /\ Grouped => WellGroups /\ 1 \in Ranks
    /\ Counted => (\A r \in Ranks : BytesPerBlock(r) # 0) /\ Longest
    /\ Checked => \A r \in Ranks : Fits(r, maxLen)
    /\ Checked /\ phase = "shrink" => \A r \in Ranks : configs[r].blocks = Own(r)
    /\ Checked /\ phase \in {"sizes", "ready"} => \A r \in Ranks : configs[r].blocks = Poorest

\* What a rank's memory holds, in blocks.
LEMMA OwnIs ==
  ASSUME WellGroups, groups # <<>>, conf.override \in Nat, memory \in [Ranks -> Nat],
         NEW r \in Ranks, BytesPerBlock(r) # 0
  PROVE  /\ Own(r) \in Nat
         /\ conf.override # 0 => Own(r) = conf.override
         /\ \A len \in Nat : IF Fits(r, len) THEN RequestPages(groups, len) < Own(r)
                                             ELSE RequestPages(groups, len) >= Own(r)
         /\ \A len \in Nat : RequestPages(groups, len) \in Nat
<1>1. PICK b \in Nat \ {0} : b = BytesPerBlock(r)
  BY BytesAre
<1>2. PICK m \in Nat : m = PlanMemory(r) /\ (conf.override # 0 => m = conf.override * b)
  <2>1. memory[r] \in Nat /\ conf.override * b \in Nat
    BY <1>1
  <2> QED BY <1>1, <2>1 DEF PlanMemory
<1>3. Own(r) = m \div b
  BY <1>1, <1>2 DEF Own
<1>4. conf.override # 0 => m \div b = conf.override
  BY <1>1, <1>2, DivideBack
<1>5. ASSUME NEW len \in Nat
      PROVE  /\ IF Fits(r, len) THEN RequestPages(groups, len) < Own(r)
                                ELSE RequestPages(groups, len) >= Own(r)
             /\ RequestPages(groups, len) \in Nat
  <2>1. PICK p \in Nat : p = RequestPages(groups, len)
    BY RequestPagesIs
  <2>2. CheckMemory(r) = m - b
    BY <1>1, <1>2 DEF CheckMemory
  <2>3. Fits(r, len) <=> b * p <= m - b
    BY <1>1, <2>1, <2>2, FitsIs
  <2>4. (b * p <= m - b => p < m \div b) /\ (~ (b * p <= m - b) => p >= m \div b)
    BY PoolHolds
  <2> QED BY <1>3, <2>1, <2>3, <2>4
<1>6. Own(r) \in Nat
  BY <1>3, PoolHolds
<1> QED BY <1>3, <1>4, <1>5, <1>6

LEMMA PoorestIs ==
  ASSUME PoolInv, Counted
  PROVE  /\ Poorest \in Nat /\ \A r \in Ranks : Own(r) \in Nat /\ Poorest <= Own(r)
         /\ \E r \in Ranks : Poorest = Own(r)
<1>1. \A r \in Ranks : Own(r) \in Nat
  BY OwnIs DEF PoolInv, Counted, Grouped
<1>2. {Own(r) : r \in Ranks} \in SUBSET Nat /\ {Own(r) : r \in Ranks} # {}
  BY <1>1 DEF PoolInv, Counted
<1>3. Min({Own(r) : r \in Ranks}) \in {Own(r) : r \in Ranks}
      /\ \A x \in {Own(r) : r \in Ranks} : Min({Own(r) : r \in Ranks}) <= x
  BY <1>2, MinIs
<1> QED BY <1>1, <1>3 DEF Poorest

\* The number of blocks a rank's configuration has.
LEMMA BlocksAre ==
  ASSUME WellGroups, groups # <<>>, NEW r, NEW bytes
  PROVE  get_kv_cache_config_from_groups(r, bytes).blocks =
             IF conf.override = 0 THEN bytes \div BytesPerBlock(r) ELSE conf.override
<1>1. GroupsOf(r) # <<>>
  <2>1. DOMAIN GroupsOf(r) = 1 .. Len(groups) /\ Len(groups) \in Nat /\ Len(groups) > 0
    BY GroupCount DEF GroupsOf
  <2>2. 1 \in DOMAIN GroupsOf(r)
    BY <2>1
  <2> QED BY <2>2
<1> QED BY <1>1 DEF get_kv_cache_config_from_groups

(* The pool the scheduler is given is the same on every rank and holds,     *)
(* besides the null block, a request of the length served.                  *)
LEMMA PoolFollows == PoolInv => PoolHoldsOneRequest
<1> SUFFICES ASSUME PoolInv, Ready, groups # <<>>
             PROVE  /\ \A r \in Ranks : configs[r].blocks = configs[1].blocks
                    /\ RequestPages(groups, maxLen) < configs[1].blocks
                    /\ conf.auto /\ maxLen < ModelLen =>
                           RequestPages(groups, maxLen + 1) >= configs[1].blocks
  BY DEF PoolHoldsOneRequest
<1>1. Grouped /\ Counted /\ Checked /\ phase = "ready"
  BY DEF Ready, Grouped, Counted, Checked
<1>2. 1 \in Ranks /\ \A r \in Ranks : configs[r].blocks = Poorest
  BY <1>1 DEF PoolInv
<1>3. maxLen \in Nat /\ maxLen + 1 \in Nat /\ ModelLen \in Nat
  BY PlanAssumption DEF PoolInv
<1>4. RequestPages(groups, maxLen) < Poorest
  <2>1. PICK r \in Ranks : Poorest = Own(r)
    BY <1>1, PoorestIs
  <2>2. Fits(r, maxLen)
    BY <1>1 DEF PoolInv
  <2>3. RequestPages(groups, maxLen) < Own(r)
    BY <1>1, <1>3, <2>2, OwnIs DEF PoolInv, Grouped
  <2> QED BY <2>1, <2>3
<1>5. ASSUME maxLen < ModelLen PROVE RequestPages(groups, maxLen + 1) >= Poorest
  <2>1. PICK r \in Ranks : ~ Fits(r, maxLen + 1)
    BY <1>1, <1>3, <1>5 DEF PoolInv, Longest
  <2>2. RequestPages(groups, maxLen + 1) >= Own(r) /\ RequestPages(groups, maxLen + 1) \in Nat
    BY <1>1, <1>3, <2>1, OwnIs DEF PoolInv, Grouped
  <2>3. Poorest \in Nat /\ Own(r) \in Nat /\ Poorest <= Own(r)
    BY <1>1, PoorestIs
  <2> QED BY <2>2, <2>3
<1> QED BY <1>2, <1>4, <1>5

\* The ranks' figures follow from the model, the groups and the memory.
LEMMA PlanFrame ==
  ASSUME UNCHANGED <<model, conf, memory, groups>>, NEW r, NEW len
  PROVE  /\ Ranks' = Ranks /\ BytesPerBlock(r)' = BytesPerBlock(r)
         /\ Fits(r, len)' = Fits(r, len) /\ Own(r)' = Own(r)
         /\ WellGroups' = WellGroups
<1>1. Ranks' = Ranks /\ RankNames' = RankNames
  BY DEF Ranks, RankNames
<1>2. GroupsOf(r)' = GroupsOf(r)
  BY <1>1 DEF GroupsOf, Projected
<1>3. BytesPerBlock(r)' = BytesPerBlock(r)
  BY <1>2 DEF BytesPerBlock
<1>4. PlanMemory(r)' = PlanMemory(r) /\ CheckMemory(r)' = CheckMemory(r)
  BY <1>3 DEF PlanMemory, CheckMemory
<1>5. Fits(r, len)' = Fits(r, len)
  BY <1>2, <1>3, <1>4 DEF Fits, _max_memory_usage_bytes_from_groups
<1>6. Own(r)' = Own(r)
  BY <1>3, <1>4 DEF Own
<1>7. WellGroups' = WellGroups
  BY DEF WellGroups
<1> QED BY <1>1, <1>3, <1>5, <1>6, <1>7

Kept == UNCHANGED <<platform, conf, memory>>

\* A step that serves nothing more, or nothing yet.
LEMMA PoolRaise ==
  ASSUME PoolInv, Raise, Kept PROVE PoolInv'
<1>1. phase' = "raised" /\ Ranks' = Ranks
  BY DEF Raise, Goto, Ranks
<1> QED BY <1>1 DEF PoolInv, Raise, Kept, Grouped, Counted, Checked

LEMMA PoolAutoFit ==
  ASSUME PoolInv, AutoFit, Kept PROVE PoolInv'
<1>1. phase = "autofit" /\ maxLen = ModelLen
  BY DEF AutoFit, PoolInv
<1>2. CASE Raise
  BY <1>2, PoolRaise
<1>3. CASE /\ ~ NoBytes /\ Goto("check") /\ UNCHANGED <<model, groups, configs, sizes>>
           /\ groups = <<>> \/ Longest'
           /\ maxLen' \in 1 .. ModelLen
  <2>1. UNCHANGED <<model, conf, memory, groups>>
    BY <1>3 DEF Kept
  <2>2. /\ memory' \in [Ranks' -> Nat] /\ conf'.override \in Nat
        /\ maxLen' \in 1 .. ModelLen /\ phase' = "check"
    BY <1>3, <2>1 DEF PoolInv, Goto, Ranks
  <2>3. ASSUME groups # <<>>
        PROVE  /\ WellGroups' /\ 1 \in Ranks'
               /\ \A r \in Ranks' : BytesPerBlock(r)' # 0
               /\ Longest'
    <3>1. Grouped
      BY <1>1, <2>3 DEF Grouped
    <3>2. WellGroups /\ 1 \in Ranks
      BY <3>1 DEF PoolInv
    <3>3. \A r \in Ranks : BytesPerBlock(r) # 0
      BY <1>3, <2>3 DEF NoBytes
    <3> QED BY <1>3, <2>1, <2>3, <3>2, <3>3, PlanFrame
  <2>4. groups' = groups
    BY <2>1
  <2> QED BY <2>2, <2>3, <2>4 DEF PoolInv, Grouped, Counted, Checked
<1>4. CASE ~ NoBytes /\ (~ conf.auto \/ groups = <<>>) /\ Goto("check")
           /\ UNCHANGED <<model, groups, maxLen, configs, sizes>>
  <2>1. maxLen' = ModelLen /\ ModelLen \in 1 .. ModelLen
    BY <1>1, <1>4, PlanAssumption
  <2>2. Longest'
    BY <2>1 DEF Longest
  <2> QED BY <1>3, <1>4, <2>1, <2>2
<1>5. CASE /\ ~ NoBytes /\ conf.auto /\ groups # <<>>
           /\ LET lens == {ModelLen} \cup {_estimate_max_model_len_from_groups(r) : r \in Ranks}
              IN  Min(lens) > 0 /\ maxLen' = Min(lens)
           /\ Goto("check") /\ UNCHANGED <<model, groups, configs, sizes>>
  <2> DEFINE lens == {ModelLen} \cup {_estimate_max_model_len_from_groups(r) : r \in Ranks}
  <2>1. ModelLen \in Nat \ {0}
    BY PlanAssumption
  <2>2. \A x \in lens : x \in 0 .. ModelLen
    BY <2>1, EstimateIs
  <2>3. lens \in SUBSET Nat /\ lens # {}
    BY <2>2
  <2>4. Min(lens) > 0 /\ maxLen' = Min(lens)
    BY <1>5
  <2> HIDE DEF lens
  <2>5. maxLen' \in lens /\ maxLen' \in 1 .. ModelLen
    <3>1. Min(lens) \in lens
      BY <2>3, MinIs
    <3>2. PICK m : m = Min(lens) /\ m \in lens
      BY <3>1
    <3>3. m \in 0 .. ModelLen /\ m > 0
      BY <2>2, <2>4, <3>2
    <3> QED BY <2>1, <2>4, <3>2, <3>3
  <2>6. Longest'
    <3>1. CASE maxLen' = ModelLen
      BY <3>1 DEF Longest
    <3>2. CASE maxLen' # ModelLen
      <4>1. PICK r \in Ranks : maxLen' = _estimate_max_model_len_from_groups(r)
        BY <2>5, <3>2 DEF lens
      <4>2. PICK e : e = maxLen'
        OBVIOUS
      <4>3. ~ Fits(r, e + 1)
        BY <2>5, <3>2, <4>1, <4>2, EstimateIs
      <4>4. UNCHANGED <<model, conf, memory, groups>>
        BY <1>5 DEF Kept
      <4>5. r \in Ranks' /\ ~ Fits(r, e + 1)'
        BY <4>3, <4>4, PlanFrame
      <4>6. \E q \in Ranks' : ~ Fits(q, e + 1)'
        BY <4>5
      <4> QED BY <4>2, <4>6 DEF Longest
    <3> QED BY <3>1, <3>2
  <2> QED BY <1>3, <1>5, <2>5, <2>6
<1> QED BY <1>2, <1>4, <1>5 DEF AutoFit

LEMMA PoolCheck ==
  ASSUME PoolInv, Check, Kept PROVE PoolInv'
<1>1. CASE Raise
  BY <1>1, PoolRaise
<1>2. CASE (\A r \in Ranks : Enough(r)) /\ Goto("plan") /\ UNCHANGED <<model, groups, maxLen, configs, sizes>>
  <2>1. UNCHANGED <<model, conf, memory, groups>> /\ maxLen' = maxLen /\ phase' = "plan"
    BY <1>2 DEF Kept, Goto
  <2>2. phase = "check"
    BY DEF Check
  <2>3. memory' \in [Ranks' -> Nat] /\ conf'.override \in Nat /\ maxLen' \in 1 .. ModelLen
    BY <2>1 DEF PoolInv, Ranks
  <2>4. ASSUME groups # <<>>
        PROVE  /\ WellGroups' /\ 1 \in Ranks' /\ Longest'
               /\ \A r \in Ranks' : BytesPerBlock(r)' # 0
               /\ \A r \in Ranks' : Fits(r, maxLen)'
    <3>1. Grouped /\ Counted
      BY <2>2, <2>4 DEF Grouped, Counted
    <3>2. WellGroups /\ 1 \in Ranks /\ Longest /\ (\A r \in Ranks : BytesPerBlock(r) # 0)
          /\ \A r \in Ranks : Fits(r, maxLen)
      BY <1>2, <2>4, <3>1 DEF PoolInv, Enough
    <3>3. PICK m : m = maxLen
      OBVIOUS
    <3>4. \A r : /\ Ranks' = Ranks /\ BytesPerBlock(r)' = BytesPerBlock(r)
                 /\ Fits(r, m)' = Fits(r, m) /\ Fits(r, m + 1)' = Fits(r, m + 1)
                 /\ WellGroups' = WellGroups
      BY <2>1, PlanFrame
    <3>5. Longest'
      BY <2>1, <3>2, <3>3, <3>4 DEF Longest
    <3> QED BY <2>1, <3>2, <3>3, <3>4, <3>5
  <2>5. groups' = groups
    BY <2>1
  <2> QED BY <2>1, <2>3, <2>4, <2>5 DEF PoolInv, Grouped, Counted, Checked
<1> QED BY <1>1, <1>2 DEF Check

\* The part of the invariant the last steps keep.
LEMMA PoolKept ==
  ASSUME PoolInv, Checked, UNCHANGED <<model, conf, memory, groups>>, maxLen' = maxLen,
         phase' \in {"shrink", "sizes", "ready"}
  PROVE  /\ memory' \in [Ranks' -> Nat] /\ conf'.override \in Nat /\ maxLen' \in 1 .. ModelLen
         /\ WellGroups' /\ 1 \in Ranks' /\ Longest'
         /\ \A r \in Ranks' : BytesPerBlock(r)' # 0
         /\ \A r \in Ranks' : Fits(r, maxLen)'
<1>1. Grouped /\ Counted
  BY DEF Checked, Counted
<1>2. WellGroups /\ 1 \in Ranks /\ Longest /\ (\A r \in Ranks : BytesPerBlock(r) # 0)
      /\ \A r \in Ranks : Fits(r, maxLen)
  BY <1>1 DEF PoolInv
<1>3. PICK m : m = maxLen
  OBVIOUS
<1>4. \A r : /\ Ranks' = Ranks /\ BytesPerBlock(r)' = BytesPerBlock(r)
             /\ Fits(r, m)' = Fits(r, m) /\ Fits(r, m + 1)' = Fits(r, m + 1)
             /\ WellGroups' = WellGroups
  BY PlanFrame
<1>5. Longest'
  BY <1>2, <1>3, <1>4 DEF Longest
<1>6. memory' \in [Ranks' -> Nat] /\ conf'.override \in Nat /\ maxLen' \in 1 .. ModelLen
  BY <1>4 DEF PoolInv
<1> QED BY <1>2, <1>3, <1>4, <1>5, <1>6

LEMMA PoolPlan ==
  ASSUME PoolInv, Plan, Kept PROVE PoolInv'
<1>1. CASE Raise
  BY <1>1, PoolRaise
<1>2. CASE /\ configs' = [r \in Ranks |-> get_kv_cache_config_from_groups(r, PlanMemory(r))]
           /\ Goto("shrink") /\ UNCHANGED <<model, groups, maxLen, sizes>>
  <2>1. UNCHANGED <<model, conf, memory, groups>> /\ maxLen' = maxLen /\ phase' = "shrink"
    BY <1>2 DEF Kept, Goto
  <2>2. phase = "plan"
    BY DEF Plan
  <2>3. memory' \in [Ranks' -> Nat] /\ conf'.override \in Nat /\ maxLen' \in 1 .. ModelLen
    BY <2>1 DEF PoolInv, Ranks
  <2>4. ASSUME groups # <<>>
        PROVE  /\ WellGroups' /\ 1 \in Ranks' /\ Longest'
               /\ \A r \in Ranks' : BytesPerBlock(r)' # 0
               /\ \A r \in Ranks' : Fits(r, maxLen)'
               /\ \A r \in Ranks' : configs'[r].blocks = Own(r)'
    <3>1. Grouped /\ Counted /\ Checked
      BY <2>2, <2>4 DEF Grouped, Counted, Checked
    <3>2. ASSUME NEW r \in Ranks PROVE configs'[r].blocks = Own(r)'
      <4>1. BytesPerBlock(r) # 0 /\ conf.override \in Nat /\ WellGroups
        BY <3>1 DEF PoolInv
      <4>2. conf.override # 0 => Own(r) = conf.override
        BY <2>4, <4>1, OwnIs DEF PoolInv
      <4>3. configs'[r].blocks = get_kv_cache_config_from_groups(r, PlanMemory(r)).blocks
        BY <1>2
      <4>4. configs'[r].blocks = Own(r)
        BY <2>4, <4>1, <4>2, <4>3, BlocksAre DEF Own
      <4>5. Own(r)' = Own(r)
        BY <2>1, PlanFrame
      <4> QED BY <4>4, <4>5
    <3>3. Ranks' = Ranks
      BY <2>1 DEF Ranks
    <3> QED BY <2>1, <3>1, <3>2, <3>3, PoolKept
  <2>5. groups' = groups
    BY <2>1
  <2> QED BY <2>1, <2>3, <2>4, <2>5 DEF PoolInv, Grouped, Counted, Checked
<1> QED BY <1>1, <1>2 DEF Plan

LEMMA PoolShrink ==
  ASSUME PoolInv, Shrink, Kept PROVE PoolInv'
<1>1. UNCHANGED <<model, conf, memory, groups>> /\ maxLen' = maxLen /\ phase' = "sizes"
  BY DEF Kept, Goto, Shrink
<1>2. phase = "shrink"
  BY DEF Shrink
<1>3. memory' \in [Ranks' -> Nat] /\ conf'.override \in Nat /\ maxLen' \in 1 .. ModelLen
  BY <1>1 DEF PoolInv, Ranks
<1>4. Ranks' = Ranks
  BY <1>1 DEF Ranks
<1>5. ASSUME groups # <<>>
      PROVE  /\ WellGroups' /\ 1 \in Ranks' /\ Longest'
             /\ \A r \in Ranks' : BytesPerBlock(r)' # 0
             /\ \A r \in Ranks' : Fits(r, maxLen)'
             /\ \A r \in Ranks' : configs'[r].blocks = Poorest'
  <2>1. Grouped /\ Counted /\ Checked
    BY <1>2, <1>5 DEF Grouped, Counted, Checked
  <2>2. \A r \in Ranks : configs[r].blocks = Own(r)
    BY <1>2, <2>1 DEF PoolInv
  <2>3. MinBlocks = Poorest
    BY <2>2 DEF MinBlocks, Poorest
  <2>4. Poorest \in Nat /\ \E r \in Ranks : Poorest = Own(r)
    BY <2>1, PoorestIs
  <2>5. ASSUME NEW r \in Ranks PROVE configs'[r].blocks = Poorest
    <3>1. BytesPerBlock(r) # 0 /\ conf.override \in Nat /\ WellGroups /\ BytesPerBlock(r) \in Nat
      BY <1>5, <2>1, BytesAre DEF PoolInv
    <3>2. conf.override # 0 => Poorest = conf.override
      BY <1>5, <2>1, <2>4, OwnIs DEF PoolInv
    <3>3. (Poorest * BytesPerBlock(r)) \div BytesPerBlock(r) = Poorest
      BY <2>4, <3>1, DivideBack
    <3>4. get_kv_cache_config_from_groups(r, Poorest * BytesPerBlock(r)).blocks = Poorest
      BY <1>5, <3>1, <3>2, <3>3, BlocksAre
    <3>5. configs'[r] = IF configs[r].blocks = MinBlocks THEN configs[r]
                        ELSE get_kv_cache_config_from_groups(r, MinBlocks * BytesPerBlock(r))
      BY DEF Shrink
    <3> QED BY <2>3, <3>4, <3>5
  <2>6. \A r : Own(r)' = Own(r)
    BY <1>1, PlanFrame
  <2>7. Poorest' = Poorest
    BY <1>4, <2>6 DEF Poorest
  <2> QED BY <1>1, <1>4, <2>1, <2>5, <2>7, PoolKept
<1>6. groups' = groups
  BY <1>1
<1> QED BY <1>1, <1>3, <1>5, <1>6 DEF PoolInv, Grouped, Counted, Checked

LEMMA PoolResolve ==
  ASSUME PoolInv, ResolveSizes, Kept PROVE PoolInv'
<1>1. UNCHANGED <<model, conf, memory, groups>> /\ maxLen' = maxLen /\ configs' = configs
  BY DEF Kept, ResolveSizes
<1>2. phase = "sizes" /\ phase' \in {"ready", "raised"}
  BY DEF ResolveSizes, Goto
<1>3. memory' \in [Ranks' -> Nat] /\ conf'.override \in Nat /\ maxLen' \in 1 .. ModelLen
  BY <1>1 DEF PoolInv, Ranks
<1>4. Ranks' = Ranks
  BY <1>1 DEF Ranks
<1>5. ASSUME groups # <<>>, phase' = "ready"
      PROVE  /\ WellGroups' /\ 1 \in Ranks' /\ Longest'
             /\ \A r \in Ranks' : BytesPerBlock(r)' # 0
             /\ \A r \in Ranks' : Fits(r, maxLen)'
             /\ \A r \in Ranks' : configs'[r].blocks = Poorest'
  <2>1. Checked
    BY <1>2, <1>5 DEF Grouped, Counted, Checked
  <2>2. \A r \in Ranks : configs[r].blocks = Poorest
    BY <1>2, <2>1 DEF PoolInv
  <2>3. \A r : Own(r)' = Own(r)
    BY <1>1, PlanFrame
  <2>4. Poorest' = Poorest
    BY <1>4, <2>3 DEF Poorest
  <2> QED BY <1>1, <1>4, <1>5, <2>1, <2>2, <2>4, PoolKept
<1>6. groups' = groups
  BY <1>1
<1> QED BY <1>1, <1>2, <1>3, <1>5, <1>6 DEF PoolInv, Grouped, Counted, Checked

-----------------------------------------------------------------------------
(* From the layers to the groups.                                           *)
NamesOf(L) == {l.name : l \in ToSet(L)}
AllSame(S) == \A s, t \in S : SamePages(s, t)

LEMMA LayersAre ==
  ASSUME NEW L, IsLayers(L)
  PROVE  /\ Len(L) \in Nat /\ DOMAIN L = 1 .. Len(L) /\ ToSet(L) = {L[i] : i \in 1 .. Len(L)}
         /\ (L = <<>> <=> Len(L) = 0) /\ (L = <<>> <=> ToSet(L) = {})
<1>1. L \in Seq(ToSet(L))
  BY DEF IsLayers
<1>2. Len(L) \in Nat /\ DOMAIN L = 1 .. Len(L)
  BY <1>1
<1>3. ToSet(L) = {L[i] : i \in 1 .. Len(L)}
  BY <1>2 DEF ToSet
<1>4. L = <<>> <=> Len(L) = 0
  BY <1>1, EmptySeq
<1>5. Len(L) = 0 <=> ToSet(L) = {}
  <2>1. Len(L) # 0 => 1 \in 1 .. Len(L)
    BY <1>2
  <2> QED BY <1>2, <1>3, <2>1
<1> QED BY <1>2, <1>3, <1>4, <1>5

\* Layers are made of their elements.
LEMMA LayersFrom ==
  ASSUME NEW T, NEW L \in Seq(T), \A l \in T : IsLayer(l)
  PROVE  IsLayers(L) /\ ToSet(L) \subseteq T
<1>1. \A i \in 1 .. Len(L) : L[i] \in T
  OBVIOUS
<1>2. DOMAIN L = 1 .. Len(L) /\ Len(L) \in Nat
  OBVIOUS
<1>3. ToSet(L) \subseteq T
  BY <1>1, <1>2 DEF ToSet
<1>4. L \in Seq(ToSet(L))
  <2>1. \A i \in 1 .. Len(L) : L[i] \in ToSet(L)
    BY <1>2 DEF ToSet
  <2>2. L = [i \in 1 .. Len(L) |-> L[i]]
    BY <1>2
  <2>3. L \in [1 .. Len(L) -> ToSet(L)]
    BY <2>1, <2>2
  <2> QED BY <1>2, <2>3, SeqDef
<1> QED BY <1>3, <1>4 DEF IsLayers

LEMMA LayersWhere ==
  ASSUME NEW L, IsLayers(L), NEW S
  PROVE  /\ IsLayers(Where(L, S)) /\ ToSet(Where(L, S)) = ToSet(L) \cap S
         /\ Len(Where(L, S)) <= Len(L)
<1>1. L \in Seq(ToSet(L)) /\ \A l \in ToSet(L) : IsLayer(l)
  BY DEF IsLayers
<1>2. /\ Where(L, S) \in Seq(ToSet(L) \cap S) /\ Len(Where(L, S)) <= Len(L)
      /\ \A j \in 1 .. Len(L) : L[j] \in S =>
             \E m \in 1 .. Len(Where(L, S)) : Where(L, S)[m] = L[j]
  <2>1. PICK T : T = ToSet(L) /\ L \in Seq(T)
    BY <1>1
  <2>2. /\ Where(L, S) \in Seq(T \cap S) /\ Len(Where(L, S)) <= Len(L)
        /\ \A j \in 1 .. Len(L) : L[j] \in S =>
               \E m \in 1 .. Len(Where(L, S)) : Where(L, S)[m] = L[j]
    BY ONLY <2>1, WhereIs
  <2> QED BY <2>1, <2>2
<1>3. IsLayers(Where(L, S)) /\ ToSet(Where(L, S)) \subseteq ToSet(L) \cap S
  <2>1. \A l \in ToSet(L) \cap S : IsLayer(l)
    BY <1>1
  <2> QED BY <1>2, <2>1, LayersFrom
<1>4. ASSUME NEW l \in ToSet(L) \cap S PROVE l \in ToSet(Where(L, S))
  <2>1. PICK j \in 1 .. Len(L) : L[j] = l
    BY LayersAre
  <2>2. PICK m \in 1 .. Len(Where(L, S)) : Where(L, S)[m] = l
    BY <1>2, <2>1
  <2> QED BY <1>3, <2>2, LayersAre
<1> QED BY <1>2, <1>3, <1>4

LEMMA LayersOnly ==
  ASSUME NEW L, IsLayers(L), NEW S
  PROVE  /\ IsLayers(Only(L, S)) /\ Len(Only(L, S)) <= Len(L)
         /\ ToSet(Only(L, S)) = {l \in ToSet(L) : l.spec \in S}
         /\ Specs(Only(L, S)) = Specs(L) \cap S
<1>1. /\ IsLayers(Only(L, S)) /\ Len(Only(L, S)) <= Len(L)
      /\ ToSet(Only(L, S)) = ToSet(L) \cap {l \in ToSet(L) : l.spec \in S}
  BY LayersWhere DEF Only
<1>2. ToSet(Only(L, S)) = {l \in ToSet(L) : l.spec \in S}
  BY <1>1
<1>3. Specs(Only(L, S)) = Specs(L) \cap S
  BY <1>2 DEF Specs
<1> QED BY <1>1, <1>2, <1>3

\* New specs for the layers.
LEMMA LayersWith ==
  ASSUME NEW L, IsLayers(L), NEW M, DOMAIN M = DOMAIN L,
         \A i \in DOMAIN L : /\ DOMAIN M[i] = {"name", "idx", "spec"} /\ M[i].idx = L[i].idx
                             /\ M[i].name = L[i].name /\ M[i].spec \in SpecSet
         , M = [i \in DOMAIN L |-> M[i]]
  PROVE  IsLayers(M) /\ NamesOf(M) = NamesOf(L) /\ Len(M) = Len(L)
<1>1. Len(L) \in Nat /\ DOMAIN L = 1 .. Len(L) /\ ToSet(L) = {L[i] : i \in 1 .. Len(L)}
  BY LayersAre
<1>2. PICK n \in Nat : n = Len(L)
  BY <1>1
<1>3. ToSet(M) = {M[i] : i \in 1 .. n}
  BY <1>1, <1>2 DEF ToSet
<1>4. M \in [1 .. n -> ToSet(M)]
  BY <1>1, <1>2, <1>3
<1>5. M \in Seq(ToSet(M)) /\ Len(M) = n
  BY <1>4, LenProperties, SeqDef
<1>6. \A l \in ToSet(M) : IsLayer(l)
  <2>1. \A i \in 1 .. n : L[i].idx \in Nat
    BY <1>1, <1>2 DEF IsLayers, IsLayer
  <2> QED BY <1>1, <1>2, <1>3, <2>1 DEF IsLayer
<1>7. NamesOf(M) = {M[i].name : i \in 1 .. n}
  BY <1>3 DEF NamesOf
<1>8. NamesOf(L) = {L[i].name : i \in 1 .. n}
  BY <1>1, <1>2 DEF NamesOf
<1>9. \A i \in 1 .. n : M[i].name = L[i].name
  BY <1>1, <1>2
<1>10. NamesOf(M) = NamesOf(L)
  BY <1>7, <1>8, <1>9
<1>11. IsLayers(M)
  BY <1>5, <1>6 DEF IsLayers
<1> QED BY <1>2, <1>5, <1>10, <1>11

LEMMA ImageFinite ==
  ASSUME NEW S, IsFiniteSet(S), NEW f PROVE IsFiniteSet({f[x] : x \in S})
<1> DEFINE g == [x \in S |-> f[x]]
           T == {f[x] : x \in S}
<1>1. g \in Surjection(S, T)
  BY DEF Surjection
<1> HIDE DEF g
<1> QED BY <1>1, FS_Surjection

LEMMA NamesAre ==
  ASSUME NEW L, IsLayers(L)
  PROVE  /\ LayerNames(L) \in Seq(NamesOf(L)) /\ Len(LayerNames(L)) = Len(L)
         /\ DOMAIN LayerNames(L) = DOMAIN L
         /\ DOMAIN SpecOf(L) = NamesOf(L)
         /\ \A n \in NamesOf(L) : SpecOf(L)[n] \in Specs(L)
         /\ Specs(L) \subseteq SpecSet /\ IsFiniteSet(Specs(L))
         /\ L # <<>> => NamesOf(L) # {} /\ L[1].spec \in Specs(L)
<1>1. Len(L) \in Nat /\ DOMAIN L = 1 .. Len(L) /\ ToSet(L) = {L[i] : i \in 1 .. Len(L)}
  BY LayersAre
<1>2. PICK n \in Nat : n = Len(L)
  BY <1>1
<1>3. LayerNames(L) \in [1 .. n -> NamesOf(L)]
  BY <1>1, <1>2 DEF LayerNames, NamesOf
<1>4. LayerNames(L) \in Seq(NamesOf(L)) /\ Len(LayerNames(L)) = n /\ DOMAIN LayerNames(L) = 1 .. n
  BY <1>3, LenProperties, SeqDef
<1>5. DOMAIN SpecOf(L) = NamesOf(L)
  BY DEF SpecOf, NamesOf
<1>6. ASSUME NEW k \in NamesOf(L) PROVE SpecOf(L)[k] \in Specs(L)
  <2>1. \E l \in ToSet(L) : l.name = k
    BY DEF NamesOf
  <2>2. (CHOOSE l \in ToSet(L) : l.name = k) \in ToSet(L)
    BY <2>1
  <2> QED BY <2>2 DEF SpecOf, Specs, NamesOf
<1>7. Specs(L) \subseteq SpecSet
  BY DEF Specs, IsLayers, IsLayer
<1>8. IsFiniteSet(Specs(L))
  <2>1. Specs(L) = {L[i].spec : i \in 1 .. n}
    BY <1>1, <1>2 DEF Specs
  <2>2. IsFiniteSet(1 .. n)
    BY FS_Interval
  <2>3. PICK f : f = [i \in 1 .. n |-> L[i].spec]
    OBVIOUS
  <2>4. Specs(L) = {f[i] : i \in 1 .. n}
    BY <2>1, <2>3
  <2> QED BY <2>2, <2>4, ImageFinite
<1>9. L # <<>> => NamesOf(L) # {} /\ L[1].spec \in Specs(L)
  <2>1. L # <<>> => 1 \in 1 .. n
    BY <1>2, LayersAre
  <2> QED BY <1>1, <1>2, <2>1 DEF NamesOf, Specs
<1> QED BY <1>1, <1>2, <1>4, <1>5, <1>6, <1>7, <1>8, <1>9

\* A uniform group costs the same whichever of its layers is asked.
LEMMA OneCard ==
  ASSUME NEW T, IsFiniteSet(T), Cardinality(T) = 1 PROVE \A x, y \in T : x = y
<1>1. PICK z : T = {z}
  BY FS_Singleton
<1> QED BY <1>1

LEMMA UniformTypeIs ==
  ASSUME NEW S, IsFiniteSet(S), UniformType(S)
  PROVE  AllSame(S)
<1> SUFFICES ASSUME NEW s \in S, NEW t \in S, NEW len \in Nat
             PROVE  Pages(s, len) = Pages(t, len)
  BY DEF AllSame, SamePages
<1>1. s.bs = t.bs
  <2>1. IsFiniteSet({x.bs : x \in S})
    <3>1. PICK f : f = [x \in S |-> x.bs]
      OBVIOUS
    <3>2. {x.bs : x \in S} = {f[x] : x \in S}
      BY <3>1
    <3> QED BY <3>2, ImageFinite
  <2>2. Cardinality({x.bs : x \in S}) = 1
    BY DEF UniformType
  <2>3. \A x, y \in {z.bs : z \in S} : x = y
    BY <2>1, <2>2, OneCard
  <2> QED BY <2>3
<1>2. CASE \A x \in S : IsFull(x)
  <2>1. /\ ~ IsSwa(s) /\ s.cls \notin StateClasses
        /\ ~ IsSwa(t) /\ t.cls \notin StateClasses
    BY <1>2 DEF IsFull, IsSwa, FullClasses, SwaClasses, StateClasses
  <2> QED BY <1>1, <2>1 DEF Pages
<1>3. CASE (\A x \in S : IsSwa(x)) /\ Cardinality({x.win : x \in S}) = 1
  <2>1. IsFiniteSet({x.win : x \in S})
    <3>1. PICK f : f = [x \in S |-> x.win]
      OBVIOUS
    <3>2. {x.win : x \in S} = {f[x] : x \in S}
      BY <3>1
    <3> QED BY <3>2, ImageFinite
  <2>2. \A x, y \in {z.win : z \in S} : x = y
    BY <1>3, <2>1, OneCard
  <2>3. s.win = t.win
    BY <2>2
  <2>4. IsSwa(s) /\ IsSwa(t) /\ s.cls \notin StateClasses /\ t.cls \notin StateClasses
    BY <1>3 DEF IsSwa, SwaClasses, StateClasses
  <2> QED BY <1>1, <2>3, <2>4 DEF Pages
<1>4. CASE (\A x \in S : x.cls = "circ") \/ \A x \in S : IsMamba(x)
  BY <1>4 DEF Pages, IsMamba, IsSwa, SwaClasses, StateClasses
<1> QED BY <1>2, <1>3, <1>4 DEF UniformType

LEMMA UniformGroupIs ==
  ASSUME NEW L, IsLayers(L), L # <<>>, AllSame(Specs(L))
  PROVE  WellGroup(UniformGroup(L))
<1>1. PICK g : g = UniformGroup(L)
  OBVIOUS
<1>2. /\ DOMAIN g = {"names", "of", "uni", "spec", "eagle"}
      /\ g.names = LayerNames(L) /\ g.of = SpecOf(L) /\ g.uni = TRUE
  BY <1>1 DEF UniformGroup
<1>3. /\ LayerNames(L) \in Seq(NamesOf(L)) /\ NamesOf(L) # {} /\ DOMAIN SpecOf(L) = NamesOf(L)
      /\ Specs(L) \subseteq SpecSet /\ \A n \in NamesOf(L) : SpecOf(L)[n] \in Specs(L)
  BY NamesAre
<1>4. SpecOf(L) = [n \in NamesOf(L) |-> SpecOf(L)[n]]
  BY DEF SpecOf, NamesOf
<1>5. g.of \in [DOMAIN g.of -> SpecSet]
  BY <1>2, <1>3, <1>4
<1>6. \A m, n \in DOMAIN g.of : SamePages(g.of[m], g.of[n])
  BY <1>2, <1>3 DEF AllSame
<1> QED BY <1>1, <1>2, <1>3, <1>5, <1>6 DEF WellGroup

-----------------------------------------------------------------------------
\* Sequences of groups; plain: none of them is uniform.
GroupIs(g, plain) == WellGroup(g) /\ (plain = TRUE => ~ g.uni)
AreWell(gs, plain) ==
    /\ gs \in Seq({gs[g] : g \in DOMAIN gs})
    /\ \A g \in DOMAIN gs : GroupIs(gs[g], plain)

LEMMA WellFrom ==
  ASSUME NEW T, NEW gs \in Seq(T), NEW plain, \A g \in T : GroupIs(g, plain)
  PROVE  AreWell(gs, plain)
<1>1. DOMAIN gs = 1 .. Len(gs) /\ Len(gs) \in Nat /\ \A i \in 1 .. Len(gs) : gs[i] \in T
  OBVIOUS
<1>2. gs = [i \in 1 .. Len(gs) |-> gs[i]]
  BY <1>1
<1>3. gs \in [1 .. Len(gs) -> {gs[g] : g \in DOMAIN gs}]
  BY <1>1, <1>2
<1>4. gs \in Seq({gs[g] : g \in DOMAIN gs})
  BY <1>1, <1>3, SeqDef
<1> QED BY <1>1, <1>4 DEF AreWell

LEMMA WellOf ==
  ASSUME NEW gs, NEW plain, AreWell(gs, plain)
  PROVE  \E T : gs \in Seq(T) /\ \A g \in T : GroupIs(g, plain)
BY DEF AreWell

LEMMA WellIs ==
  ASSUME NEW gs, NEW plain, AreWell(gs, plain) PROVE IsWell(gs)
BY DEF AreWell, IsWell, GroupIs

LEMMA WellOne ==
  ASSUME NEW g, WellGroup(g) PROVE AreWell(<<g>>, FALSE)
<1>1. <<g>> \in Seq({g})
  OBVIOUS
<1>2. PICK T : T = {g} /\ <<g>> \in Seq(T)
  BY <1>1
<1>3. \A h \in T : GroupIs(h, FALSE)
  BY <1>2 DEF GroupIs
<1> QED BY <1>2, <1>3, WellFrom

LEMMA WellNone == ASSUME NEW plain PROVE AreWell(<<>>, plain)
<1>1. <<>> \in Seq({})
  OBVIOUS
<1>2. PICK T : T = {} /\ <<>> \in Seq(T)
  BY <1>1
<1>3. \A h \in T : GroupIs(h, plain)
  BY <1>2
<1> QED BY <1>2, <1>3, WellFrom

LEMMA WellConcat ==
  ASSUME NEW a, NEW b, NEW plain, AreWell(a, plain), AreWell(b, plain)
  PROVE  AreWell(a \o b, plain)
<1>1. PICK S : a \in Seq(S) /\ \A g \in S : GroupIs(g, plain)
  BY WellOf
<1>2. PICK T : b \in Seq(T) /\ \A g \in T : GroupIs(g, plain)
  BY WellOf
<1>3. a \in Seq(S \cup T) /\ b \in Seq(S \cup T)
  BY <1>1, <1>2
<1>4. a \o b \in Seq(S \cup T)
  BY <1>3, ConcatProperties
<1>5. \A g \in S \cup T : GroupIs(g, plain)
  BY <1>1, <1>2
<1> QED BY <1>4, <1>5, WellFrom

LEMMA WellFlatten ==
  ASSUME NEW n \in Nat, NEW ss, DOMAIN ss = 1 .. n, ss = [i \in 1 .. n |-> ss[i]],
         NEW plain, \A i \in 1 .. n : AreWell(ss[i], plain)
  PROVE  AreWell(FlattenSeq(ss), plain)
<1> DEFINE T == UNION {{ss[i][g] : g \in DOMAIN ss[i]} : i \in 1 .. n}
<1>1. \A g \in T : GroupIs(g, plain)
  BY DEF AreWell
<1>2. ASSUME NEW i \in 1 .. n PROVE ss[i] \in Seq(T)
  <2>1. PICK s : s = ss[i] /\ s \in Seq({s[g] : g \in DOMAIN s})
    BY DEF AreWell
  <2>2. {s[g] : g \in DOMAIN s} \subseteq T
    BY <2>1
  <2> HIDE DEF T
  <2> QED BY <2>1, <2>2
<1> HIDE DEF T
<1>3. ss \in [1 .. n -> Seq(T)]
  BY <1>2
<1>4. FlattenSeq(ss) \in Seq(T)
  BY <1>3, FlattenIn
<1> QED BY <1>1, <1>4, WellFrom

\* The eagle mark changes nothing else.
LEMMA WellMarked ==
  ASSUME NEW gs, AreWell(gs, FALSE), NEW hs, DOMAIN hs = DOMAIN gs,
         hs = [g \in DOMAIN gs |-> hs[g]],
         \A g \in DOMAIN gs : /\ DOMAIN hs[g] = DOMAIN gs[g]
                              /\ hs[g].names = gs[g].names /\ hs[g].of = gs[g].of
                              /\ hs[g].uni = gs[g].uni /\ hs[g].spec = gs[g].spec
  PROVE  AreWell(hs, FALSE)
<1>1. PICK n \in Nat : n = Len(gs) /\ DOMAIN gs = 1 .. n
  BY DEF AreWell
<1> DEFINE T == {hs[g] : g \in 1 .. n}
<1>2. hs \in [1 .. n -> T]
  BY <1>1
<1>3. hs \in Seq(T)
  BY <1>2, SeqDef
<1>4. ASSUME NEW g \in 1 .. n PROVE WellGroup(hs[g])
  <2>1. WellGroup(gs[g])
    BY <1>1 DEF AreWell, GroupIs
  <2>2. PICK x, y : x = gs[g] /\ y = hs[g]
    OBVIOUS
  <2>3. /\ WellGroup(x) /\ DOMAIN y = DOMAIN x /\ y.names = x.names /\ y.of = x.of
        /\ y.uni = x.uni /\ y.spec = x.spec
    BY <1>1, <2>1, <2>2
  <2>4. WellGroup(y)
    BY ONLY <2>3 DEF WellGroup
  <2> QED BY <2>2, <2>4
<1>5. \A g \in T : WellGroup(g)
  BY <1>4
<1> HIDE DEF T
<1>6. \A g \in T : GroupIs(g, FALSE)
  BY <1>5 DEF GroupIs
<1> QED BY <1>3, <1>6, WellFrom

LEMMA AnnotateIs ==
  ASSUME NEW gs, AreWell(gs, FALSE), NEW eagle
  PROVE  /\ AreWell(_annotate_eagle_groups(gs, eagle), FALSE)
         /\ \A L : AreWell(AnnotateLast(gs, L, eagle), FALSE)
<1>1. \A g \in DOMAIN gs : DOMAIN gs[g] = {"names", "of", "uni", "spec", "eagle"}
  BY DEF AreWell, GroupIs, WellGroup
<1>2. AreWell(_annotate_eagle_groups(gs, eagle), FALSE)
  <2> DEFINE hs == _annotate_eagle_groups(gs, eagle)
  <2>1. DOMAIN hs = DOMAIN gs /\ hs = [g \in DOMAIN gs |-> hs[g]]
    BY DEF _annotate_eagle_groups
  <2>2. \A g \in DOMAIN gs : /\ DOMAIN hs[g] = DOMAIN gs[g]
                             /\ hs[g].names = gs[g].names /\ hs[g].of = gs[g].of
                             /\ hs[g].uni = gs[g].uni /\ hs[g].spec = gs[g].spec
    BY <1>1 DEF _annotate_eagle_groups
  <2> HIDE DEF hs
  <2>3. AreWell(hs, FALSE)
    BY <2>1, <2>2, WellMarked
  <2> QED BY <2>3 DEF hs
<1>3. ASSUME NEW L PROVE AreWell(AnnotateLast(gs, L, eagle), FALSE)
  <2> DEFINE hs == AnnotateLast(gs, L, eagle)
  <2>1. DOMAIN hs = DOMAIN gs /\ hs = [g \in DOMAIN gs |-> hs[g]]
    BY DEF AnnotateLast
  <2>2. \A g \in DOMAIN gs : /\ DOMAIN hs[g] = DOMAIN gs[g]
                             /\ hs[g].names = gs[g].names /\ hs[g].of = gs[g].of
                             /\ hs[g].uni = gs[g].uni /\ hs[g].spec = gs[g].spec
    BY <1>1 DEF AnnotateLast
  <2> HIDE DEF hs
  <2>3. AreWell(hs, FALSE)
    BY <2>1, <2>2, WellMarked
  <2> QED BY <2>3 DEF hs
<1> QED BY <1>2, <1>3

LEMMA SeqOfOwn ==
  ASSUME NEW T, NEW s \in Seq(T)
  PROVE  /\ s \in Seq(ToSet(s)) /\ ToSet(s) \subseteq T /\ ToSet(s) = {s[i] : i \in 1 .. Len(s)}
         /\ s # <<>> => ToSet(s) # {} /\ s[1] \in ToSet(s) /\ Len(s) > 0
<1>1. PICK n \in Nat : n = Len(s) /\ DOMAIN s = 1 .. n /\ s = [i \in 1 .. n |-> s[i]]
  OBVIOUS
<1>2. ToSet(s) = {s[i] : i \in 1 .. n}
  BY <1>1 DEF ToSet
<1>3. \A i \in 1 .. n : s[i] \in T
  BY <1>1
<1>4. s \in [1 .. n -> ToSet(s)]
  BY <1>1, <1>2
<1>5. s \in Seq(ToSet(s))
  BY <1>4, SeqDef
<1>6. s # <<>> => 1 \in 1 .. n
  BY <1>1, EmptySeq
<1>7. ToSet(s) \subseteq T
  BY <1>2, <1>3
<1>8. ASSUME s # <<>> PROVE ToSet(s) # {} /\ s[1] \in ToSet(s) /\ Len(s) > 0
  <2>1. 1 \in 1 .. n
    BY <1>6, <1>8
  <2>2. s[1] \in {s[i] : i \in 1 .. n}
    BY <2>1
  <2>3. s[1] \in ToSet(s)
    BY <1>2, <2>2
  <2>4. Len(s) > 0
    BY <1>1, <2>1
  <2> QED BY <2>3, <2>4
<1> QED BY <1>1, <1>2, <1>5, <1>7, <1>8

\* A group of one spec.
LEMMA MergedIs ==
  ASSUME NEW n \in Nat, n > 0, NEW specs \in [1 .. n -> SpecSet]
  PROVE  Merged(specs) \in SpecSet
<1> DEFINE w == {specs[i].win : i \in DOMAIN specs} \ {0}
           top == IF w = {} THEN 0 ELSE Max(w)
<1>1. PICK wins \in [1 .. n -> Nat] : \A i \in 1 .. n : wins[i] = specs[i].win
  <2>1. [i \in 1 .. n |-> specs[i].win] \in [1 .. n -> Nat]
    BY DEF SpecSet
  <2> QED BY <2>1
<1>2. PICK b \in Nat : \A i \in 1 .. n : wins[i] <= b
  BY Bounded
<1>3. w \in SUBSET Nat /\ \A x \in w : x <= b
  BY <1>1, <1>2
<1>4. top \in Nat
  <2> HIDE DEF w
  <2>1. w # {} => Max(w) \in w
    BY <1>3, MaxIs
  <2> QED BY <1>3, <2>1
<1>5. Merged(specs) = [specs[1] EXCEPT !.win = top]
  BY DEF Merged
<1>6. specs[1] \in SpecSet
  <2>1. 1 \in 1 .. n
    OBVIOUS
  <2> QED BY <2>1
<1> HIDE DEF top, w
<1> QED BY <1>4, <1>5, <1>6 DEF SpecSet

LEMMA CreateIs ==
  ASSUME NEW L, IsLayers(L), NEW n \in Nat, NEW grouped, DOMAIN grouped = 1 .. n,
         \A g \in 1 .. n : grouped[g] \in Seq(NamesOf(L)) /\ grouped[g] # <<>>
  PROVE  AreWell(create_kv_cache_group_specs(L, grouped), TRUE)
<1> DEFINE gs == create_kv_cache_group_specs(L, grouped)
           T == {gs[g] : g \in 1 .. n}
<1>1. DOMAIN gs = 1 .. n /\ gs \in [1 .. n -> T]
  BY DEF create_kv_cache_group_specs
<1>2. gs \in Seq(T)
  BY <1>1, SeqDef
<1>3. ASSUME NEW g \in 1 .. n PROVE WellGroup(gs[g]) /\ ~ gs[g].uni
  <2> DEFINE names == grouped[g]
  <2>1. names \in Seq(NamesOf(L)) /\ names # <<>>
    OBVIOUS
  <2>2. PICK k \in Nat : k = Len(names) /\ DOMAIN names = 1 .. k /\ k > 0
    BY <2>1, EmptySeq
  <2> DEFINE specs == [i \in DOMAIN names |-> SpecOf(L)[names[i]]]
             spec == Merged(specs)
  <2>3. specs \in [1 .. k -> SpecSet]
    <3> HIDE DEF names
    <3> QED BY <2>1, <2>2, NamesAre
  <2>4. spec \in SpecSet
    <3> HIDE DEF specs
    <3> QED BY <2>2, <2>3, MergedIs
  <2>5. gs[g] = [names |-> names, of |-> [m \in ToSet(names) |-> spec],
                 uni |-> FALSE, spec |-> spec, eagle |-> FALSE]
    <3>1. gs[g] = LET x == Merged([i \in DOMAIN grouped[g] |-> SpecOf(L)[grouped[g][i]]])
                  IN  [names |-> grouped[g], of |-> [m \in ToSet(grouped[g]) |-> x],
                       uni |-> FALSE, spec |-> x, eagle |-> FALSE]
      BY DEF create_kv_cache_group_specs
    <3> HIDE DEF gs
    <3> QED BY <3>1
  <2>6. names \in Seq(ToSet(names)) /\ ToSet(names) # {}
    BY <2>1, SeqOfOwn
  <2> HIDE DEF spec, gs
  <2>8. [m \in ToSet(names) |-> spec] \in [ToSet(names) -> SpecSet]
    BY <2>4
  <2> QED BY <2>4, <2>5, <2>6, <2>8 DEF WellGroup
<1>4. \A g \in T : GroupIs(g, TRUE)
  BY <1>3 DEF GroupIs
<1>5. AreWell(gs, TRUE)
  <2> HIDE DEF gs, T
  <2> QED BY <1>2, <1>4, WellFrom
<1> QED BY <1>5

-----------------------------------------------------------------------------
\* The larger and the smaller of two numbers.
LEMMA OfTwo ==
  ASSUME NEW a \in Nat, NEW b \in Nat
  PROVE  Max({a, b}) \in {a, b} /\ Min({a, b}) \in {a, b} /\ Max({a, b}) >= b
<1>1. PICK T : T = {a, b} /\ T \in SUBSET Nat /\ T # {}
  OBVIOUS
<1>2. \A x \in T : x <= a + b
  BY <1>1
<1>3. a + b \in Nat
  OBVIOUS
<1>4. Max(T) \in T /\ \A x \in T : x <= Max(T)
  BY <1>1, <1>2, <1>3, MaxIs
<1>5. Min(T) \in T
  BY <1>1, MinIs
<1>6. b \in T
  BY <1>1
<1> QED BY <1>1, <1>4, <1>5, <1>6

\* names[i::n] takes some of the names.
LEMMA StridedIs ==
  ASSUME NEW T, NEW names \in Seq(T), NEW n \in 1 .. Len(names), NEW i \in 1 .. n
  PROVE  Strided(names, i, n) \in Seq(T) \ {<<>>}
<1>1. PICK len \in Nat : len = Len(names) /\ len >= n /\ n \in Nat \ {0}
  OBVIOUS
<1>2. PICK m \in Nat \ {0} : m = len - i + 1
  BY <1>1
<1>3. PICK q \in Nat : q = CDiv(m, n) /\ q > 0
  <2>1. m \in Nat /\ n \in Nat \ {0} /\ m > 0
    BY <1>1
  <2>2. CDiv(m, n) \in Nat /\ (m > 0 => CDiv(m, n) > 0)
    BY ONLY <2>1, CDivIs
  <2> QED BY <2>1, <2>2
<1>4. n * q <= m + n - 1
  <2>1. m + n - 1 \in Nat
    BY <1>1, <1>2
  <2>2. n * ((m + n - 1) \div n) <= m + n - 1
    BY <1>1, <2>1
  <2> QED BY <1>3, <2>2 DEF CDiv
<1>5. ASSUME NEW k \in 1 .. q PROVE names[i + (k - 1) * n] \in T
  <2>1. PICK d \in Nat : q = k + d
    <3>1. q - k \in Nat /\ q = k + (q - k)
      BY <1>3
    <3> QED BY <3>1
  <2>2. n * q = (k - 1) * n + n + n * d /\ (k - 1) * n \in Nat /\ n * d \in Nat
    <3>1. PICK c \in Nat : k = c + 1
      <4>1. k - 1 \in Nat /\ k = (k - 1) + 1
        OBVIOUS
      <4> QED BY <4>1
    <3>2. n * q = c * n + n + n * d /\ c * n \in Nat /\ n * d \in Nat /\ k - 1 = c
      BY <2>1, <3>1
    <3> QED BY <3>2
  <2>3. (k - 1) * n <= m - 1
    BY <1>1, <1>2, <1>4, <2>2
  <2>4. i + (k - 1) * n \in 1 .. len
    BY <1>2, <2>2, <2>3
  <2> QED BY <1>1, <2>4
<1>6. Strided(names, i, n) = [k \in 1 .. q |-> names[i + (k - 1) * n]]
  BY <1>1, <1>2, <1>3 DEF Strided
<1>7. PICK s : s = [k \in 1 .. q |-> names[i + (k - 1) * n]]
  OBVIOUS
<1>8. s \in [1 .. q -> T]
  BY <1>5, <1>7
<1>9. s \in Seq(T) /\ Len(s) = q
  BY <1>8, LenProperties, SeqDef
<1>10. s # <<>>
  BY <1>3, <1>9, EmptySeq
<1> QED BY <1>6, <1>7, <1>9, <1>10

LEMMA StripedIs ==
  ASSUME NEW T, NEW names \in Seq(T), NEW n \in 1 .. Len(names)
  PROVE  Striped(names, n) \in Seq(Seq(T) \ {<<>>}) /\ Len(Striped(names, n)) = n
<1>1. n \in Nat
  OBVIOUS
<1>2. Striped(names, n) \in [1 .. n -> Seq(T) \ {<<>>}]
  BY StridedIs DEF Striped
<1> QED BY <1>1, <1>2, LenProperties, SeqDef

\* The buckets hold names of the layers, none is empty.
BucketSet(L) == [specs : SUBSET Specs(L), names : Seq(NamesOf(L)) \ {<<>>}]
LEMMA BucketedIs ==
  ASSUME NEW L, IsLayers(L), NEW spec \in Specs(L), NEW buckets \in Seq(BucketSet(L))
  PROVE  Bucketed(L, buckets, spec) \in Seq(BucketSet(L)) /\ Len(Bucketed(L, buckets, spec)) > 0
<1> DEFINE names == LayerNames(Only(L, {spec}))
           fits == {b \in DOMAIN buckets : MergeOk(buckets[b].specs \cup {spec})}
<1>1. names \in Seq(NamesOf(L)) \ {<<>>}
  <2>1. PICK O : O = Only(L, {spec})
    OBVIOUS
  <2>2. IsLayers(O) /\ ToSet(O) = {l \in ToSet(L) : l.spec \in {spec}}
    BY <2>1, LayersOnly
  <2>3. PICK l \in ToSet(L) : l.spec = spec
    BY DEF Specs
  <2>4. l \in ToSet(O)
    BY <2>2, <2>3
  <2>5. O # <<>> /\ Len(O) > 0
    BY <2>2, <2>4, LayersAre
  <2>6. LayerNames(O) \in Seq(NamesOf(O)) /\ Len(LayerNames(O)) = Len(O)
    BY <2>2, NamesAre
  <2>7. NamesOf(O) \subseteq NamesOf(L)
    BY <2>2 DEF NamesOf
  <2>8. LayerNames(O) # <<>>
    BY <2>5, <2>6, EmptySeq
  <2>9. LayerNames(O) \in Seq(NamesOf(L))
    BY <2>6, <2>7
  <2> QED BY <2>1, <2>8, <2>9
<1> HIDE DEF names
<1>2. CASE fits = {}
  <2>1. Bucketed(L, buckets, spec) = Append(buckets, [specs |-> {spec}, names |-> names])
    BY <1>2 DEF Bucketed, names
  <2>2. [specs |-> {spec}, names |-> names] \in BucketSet(L)
    BY <1>1 DEF BucketSet
  <2> QED BY <2>1, <2>2, AppendProperties, LenProperties
<1>3. CASE fits # {}
  <2>1. PICK m : m = Min(fits)
    OBVIOUS
  <2>2. fits \in SUBSET Nat
    OBVIOUS
  <2>3. m \in DOMAIN buckets
    <3> HIDE DEF fits
    <3>1. m \in fits
      BY <1>3, <2>1, <2>2, MinIs
    <3> QED BY <3>1 DEF fits
  <2>4. Bucketed(L, buckets, spec) =
            [buckets EXCEPT ![m].specs = @ \cup {spec}, ![m].names = @ \o names]
    BY <1>3, <2>1 DEF Bucketed, names
  <2>5. PICK b \in BucketSet(L) : b = buckets[m]
    BY <2>3
  <2>6. PICK c : c = [specs |-> b.specs \cup {spec}, names |-> b.names \o names]
    OBVIOUS
  <2>7. c \in BucketSet(L)
    <3>1. b.names \in Seq(NamesOf(L)) /\ b.names # <<>> /\ b.specs \in SUBSET Specs(L)
      BY DEF BucketSet
    <3>2. b.names \o names \in Seq(NamesOf(L)) /\ Len(b.names \o names) = Len(b.names) + Len(names)
      BY <1>1, <3>1, ConcatProperties
    <3>3. Len(b.names) > 0 /\ Len(names) > 0 /\ Len(b.names) \in Nat /\ Len(names) \in Nat
      BY <1>1, <3>1, EmptySeq, LenProperties
    <3>4. b.names \o names # <<>>
      BY <3>2, <3>3, EmptySeq
    <3> QED BY <2>6, <3>1, <3>2, <3>4 DEF BucketSet
  <2>8. Bucketed(L, buckets, spec) = [buckets EXCEPT ![m] = c]
    BY <2>3, <2>4, <2>5, <2>6 DEF BucketSet
  <2>9. [buckets EXCEPT ![m] = c] \in Seq(BucketSet(L))
        /\ Len([buckets EXCEPT ![m] = c]) = Len(buckets)
    BY <2>3, <2>7
  <2>10. Len(buckets) > 0
    BY <2>3
  <2> QED BY <2>8, <2>9, <2>10
<1> QED BY <1>2, <1>3

LEMMA LayerBucketsIs ==
  ASSUME NEW L, IsLayers(L)
  PROVE  /\ LayerBuckets(L) \in Seq(Seq(NamesOf(L)) \ {<<>>})
         /\ L # <<>> => Len(LayerBuckets(L)) > 0
<1>1. SpecOrder(L) \in Seq(Specs(L)) /\ (L # <<>> => Len(SpecOrder(L)) > 0)
  <2>1. PICK m \in Nat : m = Len(L) /\ DOMAIN L = 1 .. m /\ (L # <<>> => m > 0)
    BY LayersAre
  <2>2. PICK s : s = [i \in DOMAIN L |-> L[i].spec]
    OBVIOUS
  <2>3. s \in [1 .. m -> Specs(L)]
    <3>1. \A i \in 1 .. m : L[i] \in ToSet(L)
      BY <2>1, LayersAre
    <3> QED BY <2>1, <2>2, <3>1 DEF Specs
  <2>4. s \in Seq(Specs(L)) /\ Len(s) = m
    BY <2>3, LenProperties, SeqDef
  <2>5. Firsts(s) \in Seq(Specs(L)) /\ (Len(s) > 0 => Len(Firsts(s)) > 0)
    BY <2>4, FirstsIs
  <2> QED BY <2>1, <2>2, <2>4, <2>5 DEF SpecOrder
<1>2. PICK specs : specs = SpecOrder(L)
  OBVIOUS
<1>3. PICK n \in Nat : n = Len(specs) /\ specs \in Seq(Specs(L)) /\ (L # <<>> => n > 0)
  BY <1>1, <1>2
<1>4. \A i \in 1 .. n : specs[i] \in Specs(L)
  BY <1>3
<1> DEFINE S == Seq(BucketSet(L))
           F == [p \in (1 .. n) \X S |-> Bucketed(L, p[2], specs[p[1]])]
           Rec(h) == [i \in 0 .. Len(SpecOrder(L)) |->
                        IF i = 0 THEN <<>> ELSE Bucketed(L, h[i - 1], SpecOrder(L)[i])]
           buckets == CHOOSE h : h = Rec(h)
<1>5. F \in [(1 .. n) \X S -> S]
  BY <1>4, BucketedIs
<1>6. PICK f : IsLoop(f, n, S, <<>>, F)
  <2>1. <<>> \in S
    OBVIOUS
  <2> HIDE DEF F, S
  <2> QED BY <1>5, <2>1, LoopExists
<1>7. f = Rec(f)
  <2>1. f \in [0 .. n -> S] /\ f[0] = <<>>
    BY <1>6 DEF IsLoop
  <2>2. ASSUME NEW i \in 1 .. n PROVE f[i] = Bucketed(L, f[i - 1], specs[i])
    <3>1. f[i] = F[<<i, f[i - 1]>>]
      <4> HIDE DEF F
      <4> QED BY <1>6 DEF IsLoop
    <3>2. <<i, f[i - 1]>> \in (1 .. n) \X S
      <4> HIDE DEF S
      <4> QED BY <2>1
    <3> QED BY <3>1, <3>2
  <2>3. \A i \in 0 .. n : i = 0 \/ i \in 1 .. n
    OBVIOUS
  <2> HIDE DEF S, F
  <2> QED BY <1>2, <1>3, <2>1, <2>2, <2>3
<1>8. buckets = Rec(buckets)
  <2> HIDE DEF Rec
  <2> QED BY <1>7
<1>9. buckets[0] = <<>> /\ \A i \in 1 .. n : buckets[i] = Bucketed(L, buckets[i - 1], specs[i])
  <2>1. PICK h : h = buckets /\ h = Rec(h)
    <3> HIDE DEF Rec, buckets
    <3> QED BY <1>8
  <2>2. h[0] = <<>> /\ \A i \in 1 .. n : h[i] = Bucketed(L, h[i - 1], specs[i])
    <3> HIDE DEF buckets
    <3>1. 0 \in 0 .. n /\ \A i \in 1 .. n : i \in 0 .. n /\ i # 0
      OBVIOUS
    <3> QED BY <1>2, <1>3, <2>1, <3>1
  <2> HIDE DEF buckets
  <2> QED BY <2>1, <2>2
<1>10. LayerBuckets(L) = [b \in DOMAIN buckets[n] |-> buckets[n][b].names]
  BY <1>2, <1>3 DEF LayerBuckets
<1> HIDE DEF buckets, F, Rec, S
<1> DEFINE Good(i) == buckets[i] \in Seq(BucketSet(L)) /\ (i > 0 => Len(buckets[i]) > 0)
           U == {i \in 0 .. n : Good(i)}
<1>11. 0 \in U
  <2>1. <<>> \in Seq(BucketSet(L)) /\ 0 \in 0 .. n /\ ~ (0 > 0)
    OBVIOUS
  <2>2. buckets[0] \in Seq(BucketSet(L))
    BY <1>9, <2>1
  <2> QED BY <2>1, <2>2
<1>12. ASSUME NEW i \in 1 .. n, i - 1 \in U PROVE i \in U
  <2>1. PICK b \in Seq(BucketSet(L)) : b = buckets[i - 1]
    BY <1>12
  <2>2. buckets[i] = Bucketed(L, b, specs[i])
    BY <1>9, <2>1
  <2>3. Bucketed(L, b, specs[i]) \in Seq(BucketSet(L)) /\ Len(Bucketed(L, b, specs[i])) > 0
    BY <1>4, BucketedIs
  <2> QED BY <2>2, <2>3
<1>13. Good(n)
  <2> HIDE DEF U
  <2>1. \A i \in 0 .. n : i \in U
    BY <1>11, <1>12, UpToInduction
  <2>2. n \in U
    BY <2>1
  <2> QED BY <2>2 DEF U
<1>14. PICK last \in Seq(BucketSet(L)) : last = buckets[n] /\ (n > 0 => Len(last) > 0)
  BY <1>13
<1>15. PICK m \in Nat : m = Len(last) /\ DOMAIN last = 1 .. m
  OBVIOUS
<1>16. PICK r : r = LayerBuckets(L)
  OBVIOUS
<1>17. r = [b \in 1 .. m |-> last[b].names]
  BY <1>10, <1>14, <1>15, <1>16
<1>18. \A b \in 1 .. m : last[b].names \in Seq(NamesOf(L)) \ {<<>>}
  <2>1. \A b \in 1 .. m : last[b] \in BucketSet(L)
    BY <1>15
  <2> QED BY <2>1 DEF BucketSet
<1>19. r \in [1 .. m -> Seq(NamesOf(L)) \ {<<>>}]
  BY <1>17, <1>18
<1>20. r \in Seq(Seq(NamesOf(L)) \ {<<>>}) /\ Len(r) = m
  BY <1>19, LenProperties, SeqDef
<1> QED BY <1>3, <1>14, <1>15, <1>16, <1>20

\* The size of the groups is the length of a bucket.
LEMMA GroupSizeIs ==
  ASSUME NEW n \in Nat, n > 0, NEW T, NEW buckets \in [1 .. n -> Seq(T) \ {<<>>}]
  PROVE  GroupSize(buckets) \in Nat \ {0}
<1>1. PICK f : f = [b \in 1 .. n |-> Len(buckets[b])]
  OBVIOUS
<1>2. f \in [1 .. n -> Nat] /\ \A b \in 1 .. n : f[b] > 0
  <2>1. ASSUME NEW b \in 1 .. n PROVE Len(buckets[b]) \in Nat /\ Len(buckets[b]) > 0
    <3>1. buckets[b] \in Seq(T) /\ buckets[b] # <<>>
      OBVIOUS
    <3> QED BY <3>1, EmptySeq, LenProperties
  <2> QED BY <1>1, <2>1
<1>3. PICK lengths : lengths = {f[b] : b \in 1 .. n}
  OBVIOUS
<1>4. {Len(buckets[b]) : b \in DOMAIN buckets} = lengths
  BY <1>1, <1>3
<1>5. lengths \in SUBSET Nat /\ lengths # {} /\ \A x \in lengths : x > 0
  <2>1. 1 \in 1 .. n
    OBVIOUS
  <2> QED BY <1>2, <1>3, <2>1
<1>6. PICK top \in Nat : \A b \in 1 .. n : f[b] <= top
  BY <1>2, Bounded
<1>7. \A x \in lengths : x <= top
  BY <1>3, <1>6
<1>8. Max(lengths) \in lengths /\ Min(lengths) \in lengths
  <2>1. Max(lengths) \in lengths
    BY <1>5, <1>7, MaxIs
  <2>2. Min(lengths) \in lengths
    BY <1>5, MinIs
  <2> QED BY <2>1, <2>2
<1>9. GroupSize(buckets) = IF 2 * Max(lengths) < 3 * Min(lengths) THEN Max(lengths) ELSE Min(lengths)
  <2>1. PICK S : S = {Len(buckets[b]) : b \in DOMAIN buckets}
    OBVIOUS
  <2>2. GroupSize(buckets) = IF 2 * Max(S) < 3 * Min(S) THEN Max(S) ELSE Min(S)
    BY ONLY <2>1 DEF GroupSize
  <2>3. S = lengths
    BY <1>4, <2>1
  <2> QED BY <2>2, <2>3
<1>10. PICK a, b \in Nat \ {0} : a = Max(lengths) /\ b = Min(lengths)
  <2>1. \A x \in lengths : x \in Nat \ {0}
    BY <1>5
  <2> QED BY <1>8, <2>1
<1>11. GroupSize(buckets) = a \/ GroupSize(buckets) = b
  BY <1>9, <1>10
<1> QED BY <1>10, <1>11

LEMMA UniformPageSizeIs ==
  ASSUME NEW L, IsLayers(L)
  PROVE  /\ AreWell(UniformPageSizeGroups(L), TRUE)
         /\ L # <<>> => UniformPageSizeGroups(L) # <<>>
<1>1. PICK buckets : buckets = LayerBuckets(L)
  OBVIOUS
<1>2. PICK T : T = Seq(NamesOf(L)) \ {<<>>}
  OBVIOUS
<1>3. PICK n \in Nat : /\ n = Len(buckets) /\ DOMAIN buckets = 1 .. n
                       /\ buckets \in Seq(T) /\ (L # <<>> => n > 0)
  BY <1>1, <1>2, LayerBucketsIs
<1>4. PICK size : size = GroupSize(buckets)
  OBVIOUS
<1> DEFINE stripes(b) == Striped(buckets[b], CDiv(Len(buckets[b]), size))
           ss == [b \in DOMAIN buckets |-> stripes(b)]
           grouped == FlattenSeq(ss)
<1>5. ASSUME NEW b \in 1 .. n
      PROVE  stripes(b) \in Seq(T) /\ Len(stripes(b)) > 0
  <2>1. buckets \in [1 .. n -> Seq(NamesOf(L)) \ {<<>>}] /\ n > 0
    BY <1>2, <1>3
  <2>2. size \in Nat \ {0}
    BY <1>4, <2>1, GroupSizeIs
  <2>3. PICK names : names = buckets[b] /\ names \in Seq(NamesOf(L)) /\ names # <<>>
    BY <2>1
  <2>4. PICK len \in Nat : len = Len(names) /\ len > 0
    BY <2>3, EmptySeq, LenProperties
  <2>5. PICK k \in Nat : k = CDiv(len, size) /\ k > 0 /\ k <= len
    BY <2>2, <2>4, CDivIs
  <2>6. k \in 1 .. Len(names)
    BY <2>4, <2>5
  <2>7. Striped(names, k) \in Seq(Seq(NamesOf(L)) \ {<<>>}) /\ Len(Striped(names, k)) = k
    BY <2>3, <2>6, StripedIs
  <2> QED BY <1>2, <2>3, <2>4, <2>5, <2>7
<1>6. ss \in [1 .. n -> Seq(T)] /\ \A b \in 1 .. n : ss[b] = stripes(b)
  BY <1>3, <1>5
<1> HIDE DEF ss
<1>7. grouped \in Seq(T) /\ \A b \in 1 .. n : Len(ss[b]) <= Len(grouped)
  BY <1>6, FlattenIn
<1> HIDE DEF stripes, grouped
<1>8. PICK k \in Nat : k = Len(grouped) /\ DOMAIN grouped = 1 .. k
  BY <1>7
<1>9. ASSUME L # <<>> PROVE k > 0
  <2>1. 1 \in 1 .. n
    BY <1>3, <1>9
  <2>2. Len(ss[1]) > 0 /\ Len(ss[1]) \in Nat
    <3>1. ss[1] \in Seq(T) /\ ss[1] = stripes(1) /\ Len(stripes(1)) > 0
      BY <1>5, <1>6, <2>1
    <3> QED BY <3>1, LenProperties
  <2>3. Len(ss[1]) <= k
    BY <1>7, <1>8, <2>1
  <2> QED BY <2>2, <2>3
<1>10. \A g \in 1 .. k : grouped[g] \in Seq(NamesOf(L)) /\ grouped[g] # <<>>
  BY <1>2, <1>7, <1>8
<1>11. UniformPageSizeGroups(L) = create_kv_cache_group_specs(L, grouped)
  BY <1>1, <1>4 DEF UniformPageSizeGroups, grouped, ss, stripes
<1>12. AreWell(create_kv_cache_group_specs(L, grouped), TRUE)
  BY <1>8, <1>10, CreateIs
<1>13. L # <<>> => create_kv_cache_group_specs(L, grouped) # <<>>
  <2>1. DOMAIN create_kv_cache_group_specs(L, grouped) = 1 .. k
    BY <1>8 DEF create_kv_cache_group_specs
  <2>2. k > 0 => 1 \in DOMAIN create_kv_cache_group_specs(L, grouped)
    BY <2>1
  <2> QED BY <1>9, <2>2
<1> QED BY <1>11, <1>12, <1>13

LEMMA DivideUp ==
  ASSUME NEW p \in Nat \ {0}, NEW page \in Nat \ {0}, Divides(p, page)
  PROVE  page \div p \in Nat \ {0}
<1>1. PICK q, m \in Nat : q = page \div p /\ m = page % p
  OBVIOUS
<1>2. page = p * q + m /\ m = 0
  BY <1>1 DEF Divides
<1>3. q # 0
  <2> SUFFICES ASSUME q = 0 PROVE FALSE
    OBVIOUS
  <2>1. p * q = 0
    OBVIOUS
  <2> QED BY <1>2, <2>1
<1> QED BY <1>1, <1>3

LEMMA UnifiedIs ==
  ASSUME NEW s \in SpecSet, Positive(s), NEW page \in Nat \ {0}
  PROVE  Unified(s, page) \in SpecSet
<1>1. Page(s) \in Nat \ {0} /\ s.bs \in Nat \ {0}
  BY SpecPages DEF Positive, SpecSet
<1>2. CASE Page(s) = page \/ IsMamba(s)
  <2>1. PICK pad : pad = IF Page(s) = page THEN s.pad ELSE page
    OBVIOUS
  <2>2. Unified(s, page) = [s EXCEPT !.pad = pad]
    BY <1>2, <2>1 DEF Unified
  <2>3. pad \in Nat
    BY <2>1 DEF SpecSet
  <2> QED BY <2>2, <2>3 DEF SpecSet
<1>3. CASE ~ (Page(s) = page \/ IsMamba(s)) /\ Divides(Page(s), page)
  <2>1. PICK bs : bs = s.bs * (page \div Page(s))
    OBVIOUS
  <2>2. Unified(s, page) = [s EXCEPT !.bs = bs]
    BY <1>3, <2>1 DEF Unified
  <2>3. PICK k \in Nat \ {0} : k = page \div Page(s)
    BY <1>1, <1>3, DivideUp
  <2>4. bs \in Nat \ {0}
    <3>1. s.bs * k \in Nat /\ s.bs * k # 0
      <4>1. PICK b \in Nat \ {0} : b = s.bs
        BY <1>1
      <4>2. b * k >= b
        <5>1. PICK c \in Nat : k = c + 1
          <6>1. k - 1 \in Nat /\ k = (k - 1) + 1
            OBVIOUS
          <6> QED BY <6>1
        <5>2. b * k = b * c + b /\ b * c \in Nat
          BY <5>1
        <5> QED BY <5>2
      <4> QED BY <4>1, <4>2
    <3> QED BY <2>1, <2>3, <3>1
  <2> QED BY <2>2, <2>4 DEF SpecSet
<1>4. CASE ~ (Page(s) = page \/ IsMamba(s)) /\ ~ Divides(Page(s), page)
  <2>1. Unified(s, page) = [s EXCEPT !.pad = page]
    BY <1>4 DEF Unified
  <2> QED BY <2>1 DEF SpecSet
<1> QED BY <1>2, <1>3, <1>4

LEMMA UnifyIs ==
  ASSUME NEW L, IsLayers(L), \A s \in Specs(L) : Positive(s)
  PROVE  /\ IsLayers(unify_kv_cache_spec_page_size(L))
         /\ L # <<>> => unify_kv_cache_spec_page_size(L) # <<>>
<1>1. CASE Cardinality(PageSizes(L)) <= 1
  BY <1>1 DEF unify_kv_cache_spec_page_size
<1>2. CASE L = <<>>
  <2>1. DOMAIN L = {}
    BY <1>2
  <2>2. WithSpec(L, LAMBDA s : Unified(s, MaxPage(L))) = <<>>
    BY <2>1 DEF WithSpec
  <2>3. IsLayers(unify_kv_cache_spec_page_size(L))
    <3>1. WithSpec(L, LAMBDA s : Unified(s, MaxPage(L))) = L
      BY <1>2, <2>2
    <3> QED BY <3>1 DEF unify_kv_cache_spec_page_size
  <2> QED BY <1>2, <2>3
<1>3. CASE ~ (Cardinality(PageSizes(L)) <= 1) /\ L # <<>>
  <2> DEFINE page == MaxPage(L)
             M == [i \in DOMAIN L |-> [L[i] EXCEPT !.spec = Unified(L[i].spec, page)]]
  <2>1. unify_kv_cache_spec_page_size(L) = M
    BY <1>3 DEF unify_kv_cache_spec_page_size, WithSpec
  <2>2. PICK n \in Nat : n = Len(L) /\ DOMAIN L = 1 .. n /\ n > 0
    BY <1>3, LayersAre
  <2>3. \A i \in 1 .. n : L[i] \in ToSet(L) /\ L[i].spec \in Specs(L)
    BY <2>2, LayersAre DEF Specs
  <2>4. ASSUME NEW i \in 1 .. n
        PROVE  L[i].spec \in SpecSet /\ Positive(L[i].spec) /\ DOMAIN L[i] = {"name", "idx", "spec"}
    BY <2>3 DEF IsLayers, IsLayer
  <2>5. page \in Nat \ {0}
    <3>1. PICK f : f = [i \in 1 .. n |-> Page(L[i].spec)]
      OBVIOUS
    <3>2. f \in [1 .. n -> Nat] /\ \A i \in 1 .. n : f[i] > 0
      BY <2>4, <3>1, SpecPages DEF Positive
    <3>3. PageSizes(L) = {f[i] : i \in 1 .. n}
      <4>1. Specs(L) = {L[i].spec : i \in 1 .. n}
        BY <2>2, LayersAre DEF Specs
      <4> QED BY <3>1, <4>1 DEF PageSizes
    <3>4. Max({f[i] : i \in 1 .. n}) \in Nat
          /\ \A i \in 1 .. n : f[i] <= Max({f[j] : j \in 1 .. n})
      BY <2>2, <3>2, MaxOfIs
    <3>5. f[1] > 0 /\ f[1] \in Nat /\ f[1] <= Max({f[j] : j \in 1 .. n})
      BY <2>2, <3>2, <3>4
    <3> QED BY <3>3, <3>4, <3>5 DEF MaxPage
  <2>6. \A i \in 1 .. n : Unified(L[i].spec, page) \in SpecSet
    <3> HIDE DEF page
    <3> QED BY <2>4, <2>5, UnifiedIs
  <2> HIDE DEF page
  <2>7. /\ DOMAIN M = DOMAIN L /\ M = [i \in DOMAIN L |-> M[i]]
        /\ \A i \in DOMAIN L : /\ DOMAIN M[i] = {"name", "idx", "spec"} /\ M[i].idx = L[i].idx
                               /\ M[i].name = L[i].name /\ M[i].spec \in SpecSet
    BY <2>2, <2>4, <2>6
  <2> HIDE DEF M
  <2>8. IsLayers(M) /\ Len(M) = Len(L)
    BY <2>7, LayersWith
  <2>9. M # <<>>
    BY <2>2, <2>8, LayersAre
  <2> QED BY <2>1, <2>8, <2>9
<1> QED BY <1>1, <1>2, <1>3

\* The hidden states join the pool with a block that fits a page.
LEMMA HiddenIs ==
  ASSUME NEW gs, AreWell(gs, TRUE), gs # <<>>, NEW l, IsLayer(l), l.spec.tok > 0
  PROVE  AreWell(HiddenGroup(gs, l), TRUE)
<1> DEFINE page == Page(gs[1].spec)
           fits == Max({page \div l.spec.tok, 1})
           blocks == {gs[g].spec.bs : g \in DOMAIN gs}
           bs == _largest_divisor_at_most(Gcd(blocks), fits)
           k == [l EXCEPT !.spec.bs = bs, !.spec.pad = page]
<1>1. PICK n \in Nat : n = Len(gs) /\ DOMAIN gs = 1 .. n /\ n > 0
  BY EmptySeq, LenProperties DEF AreWell
<1>2. \A g \in 1 .. n : gs[g].spec \in SpecSet
  BY <1>1 DEF AreWell, GroupIs, WellGroup
<1>3. page \in Nat
  <2>1. gs[1].spec \in SpecSet
    BY <1>1, <1>2
  <2> QED BY <2>1, SpecPages
<1>4. l.spec \in SpecSet /\ l.spec.tok \in Nat /\ l.spec.tok > 0
  BY DEF IsLayer, SpecSet
<1>5. fits \in Nat /\ fits >= 1
  <2>1. PICK q \in Nat : q = page \div l.spec.tok
    BY <1>3, <1>4
  <2> HIDE DEF page
  <2>2. Max({q, 1}) \in {q, 1} /\ Max({q, 1}) >= 1
    BY OfTwo
  <2> QED BY <2>1, <2>2
<1> HIDE DEF fits, page
<1>6. PICK low \in Nat : low = Gcd(blocks)
  <2>1. blocks \in SUBSET Nat /\ blocks # {} /\ \A x \in blocks : x >= 1
    <3>1. \A g \in 1 .. n : gs[g].spec.bs \in Nat /\ gs[g].spec.bs >= 1
      BY <1>2 DEF SpecSet
    <3>2. 1 \in 1 .. n
      BY <1>1
    <3> QED BY <1>1, <3>1, <3>2
  <2> HIDE DEF blocks
  <2>2. PICK m \in Nat : m = Min(blocks) /\ m >= 1
    <3>1. Min(blocks) \in blocks
      BY <2>1, MinIs
    <3> QED BY <2>1, <3>1
  <2>3. PICK D : D = {d \in 1 .. m : \A x \in blocks : Divides(d, x)}
    OBVIOUS
  <2>4. D \in SUBSET Nat /\ \A d \in D : d <= m
    BY <2>3
  <2>5. 1 \in D
    <3>1. \A x \in blocks : Divides(1, x)
      <4>1. ASSUME NEW x \in Nat PROVE x % 1 = 0
        OBVIOUS
      <4> QED BY <2>1, <4>1 DEF Divides
    <3> QED BY <2>2, <2>3, <3>1
  <2>6. Max(D) \in D
    BY <2>4, <2>5, MaxIs
  <2>7. Gcd(blocks) = Max(D)
    BY <2>2, <2>3 DEF Gcd
  <2> QED BY <2>4, <2>6, <2>7
<1>7. bs \in Nat \ {0}
  <2>1. PICK m \in Nat : m = Min({low, fits})
    <3>1. Min({low, fits}) \in {low, fits}
      BY <1>5, OfTwo
    <3> QED BY <1>5, <3>1
  <2>2. PICK D : D = {1} \cup {d \in 1 .. m : Divides(d, low)}
    OBVIOUS
  <2>3. D \in SUBSET (Nat \ {0}) /\ 1 \in D /\ \A d \in D : d <= m + 1
    BY <2>2
  <2>4. D \in SUBSET Nat /\ m + 1 \in Nat
    BY <2>3
  <2>5. Max(D) \in D
    BY <2>3, <2>4, MaxIs
  <2>6. _largest_divisor_at_most(low, fits) = Max(D)
    BY <2>1, <2>2 DEF _largest_divisor_at_most
  <2> QED BY <1>6, <2>3, <2>5, <2>6
<1> HIDE DEF blocks, bs
<1>8. /\ DOMAIN k = {"name", "idx", "spec"} /\ k.name = l.name /\ k.idx \in Nat
      /\ k.spec \in SpecSet
  <2>1. DOMAIN l = {"name", "idx", "spec"} /\ l.idx \in Nat
    BY DEF IsLayer
  <2>2. k.spec = [l.spec EXCEPT !.bs = bs, !.pad = page]
    <3>1. PICK m : m = [l EXCEPT !.spec.bs = bs]
      OBVIOUS
    <3>2. m.spec = [l.spec EXCEPT !.bs = bs] /\ DOMAIN m = DOMAIN l
      BY <2>1, <3>1
    <3>3. k = [m EXCEPT !.spec.pad = page]
      BY <2>1, <3>1
    <3>4. k.spec = [m.spec EXCEPT !.pad = page]
      <4> HIDE DEF k
      <4> QED BY <2>1, <3>2, <3>3
    <3> HIDE DEF k
    <3> QED BY <3>2, <3>4
  <2>3. k.spec \in SpecSet
    <3>1. [l.spec EXCEPT !.bs = bs, !.pad = page] \in SpecSet
      BY <1>3, <1>4, <1>7 DEF SpecSet
    <3> HIDE DEF k
    <3> QED BY <2>2, <3>1
  <2> QED BY <2>1, <2>3
<1> HIDE DEF k
<1>9. PICK L : L = <<k>>
  OBVIOUS
<1>10. IsLayers(L) /\ NamesOf(L) = {l.name}
  <2>1. PICK T : T = {k}
    OBVIOUS
  <2>2. L \in Seq(T)
    BY <1>9, <2>1
  <2>3. \A x \in T : IsLayer(x)
    BY <1>8, <2>1 DEF IsLayer
  <2>4. IsLayers(L)
    BY <2>2, <2>3, LayersFrom
  <2>5. ToSet(L) = {k}
    BY <1>9 DEF ToSet
  <2> QED BY <1>8, <2>4, <2>5 DEF NamesOf
<1>11. PICK grouped : grouped = <<<<l.name>>>>
  OBVIOUS
<1>12. DOMAIN grouped = 1 .. 1
       /\ \A g \in 1 .. 1 : grouped[g] \in Seq(NamesOf(L)) /\ grouped[g] # <<>>
  <2>1. <<l.name>> \in Seq(NamesOf(L)) /\ <<l.name>> # <<>>
    BY <1>10
  <2>2. DOMAIN grouped = 1 .. 1 /\ \A g \in 1 .. 1 : grouped[g] = <<l.name>>
    BY <1>11
  <2> QED BY <2>1, <2>2
<1>13. AreWell(create_kv_cache_group_specs(L, grouped), TRUE)
  <2>1. 1 \in Nat
    OBVIOUS
  <2> QED BY <1>10, <1>12, <2>1, CreateIs
<1> QED BY <1>9, <1>11, <1>13 DEF HiddenGroup, k, bs, blocks, fits, page

\* Local attention as full attention.
LEMMA PromotedSpec ==
  ASSUME NEW L, IsLayers(L), NEW s \in SpecSet
  PROVE  Promoted(L, s) \in SpecSet
<1> DEFINE bs == IF Cardinality(FullBlockSizes(L)) = 1 THEN Max(FullBlockSizes(L)) ELSE s.bs
           pad == IF s.pad = 0 THEN 0 ELSE Max({s.pad, (RealPage(s) * bs) \div s.bs})
           cls == IF s.cls = "swamla" THEN "mla" ELSE "full"
<1>1. s.bs \in Nat \ {0} /\ s.pad \in Nat /\ RealPage(s) \in Nat
  BY SpecPages DEF SpecSet
<1>2. bs \in Nat \ {0}
  <2>1. CASE Cardinality(FullBlockSizes(L)) = 1
    <3>1. PICK S : S = {t \in Specs(L) : IsFull(t)}
      OBVIOUS
    <3>2. IsFiniteSet(S) /\ S \subseteq SpecSet
      BY <3>1, NamesAre, FS_Subset
    <3>3. PICK f : f = [t \in S |-> t.bs]
      OBVIOUS
    <3>4. FullBlockSizes(L) = {f[t] : t \in S}
      BY <3>1, <3>3 DEF FullBlockSizes
    <3>5. IsFiniteSet(FullBlockSizes(L))
      BY <3>2, <3>4, ImageFinite
    <3>6. PICK x : FullBlockSizes(L) = {x}
      BY <2>1, <3>5, FS_Singleton
    <3>7. FullBlockSizes(L) \subseteq Nat \ {0}
      BY <3>2, <3>3, <3>4 DEF SpecSet
    <3>8. x \in Nat \ {0}
      BY <3>6, <3>7
    <3>9. Max({x}) = x
      BY <3>8, MaxOfOne
    <3> QED BY <2>1, <3>6, <3>8, <3>9
  <2>2. CASE Cardinality(FullBlockSizes(L)) # 1
    BY <1>1, <2>2
  <2> QED BY <2>1, <2>2
<1> HIDE DEF bs
<1>3. pad \in Nat
  <2>1. RealPage(s) * bs \in Nat
    BY <1>1, <1>2
  <2>2. PICK q \in Nat : q = (RealPage(s) * bs) \div s.bs
    BY <1>1, <2>1
  <2>3. Max({s.pad, q}) \in {s.pad, q}
    BY <1>1, OfTwo
  <2> QED BY <1>1, <2>2, <2>3
<1> HIDE DEF pad
<1>4. cls \in Classes
  BY DEF Classes, FullClasses
<1>5. Promoted(L, s) = IF ~ (IsSwa(s) \/ s.cls = "chunk") THEN s
                       ELSE [s EXCEPT !.cls = cls, !.bs = bs, !.pad = pad]
  BY DEF Promoted, bs, pad
<1> HIDE DEF cls
<1> QED BY <1>2, <1>3, <1>4, <1>5 DEF SpecSet

LEMMA PromotedIs ==
  ASSUME NEW L, IsLayers(L)
  PROVE  IsLayers(PromotedLayers(L)) /\ (L = <<>> <=> PromotedLayers(L) = <<>>)
<1> DEFINE M == [i \in DOMAIN L |-> [L[i] EXCEPT !.spec = Promoted(L, L[i].spec)]]
<1>1. PromotedLayers(L) = L \/ PromotedLayers(L) = M
  BY DEF PromotedLayers, WithSpec
<1>2. PICK n \in Nat : n = Len(L) /\ DOMAIN L = 1 .. n
  BY LayersAre
<1>3. ASSUME NEW i \in 1 .. n
      PROVE  L[i].spec \in SpecSet /\ DOMAIN L[i] = {"name", "idx", "spec"}
  <2>1. L[i] \in ToSet(L)
    BY <1>2, LayersAre
  <2> QED BY <2>1 DEF IsLayers, IsLayer
<1>4. /\ DOMAIN M = DOMAIN L /\ M = [i \in DOMAIN L |-> M[i]]
      /\ \A i \in DOMAIN L : /\ DOMAIN M[i] = {"name", "idx", "spec"} /\ M[i].idx = L[i].idx
                             /\ M[i].name = L[i].name /\ M[i].spec \in SpecSet
  BY <1>2, <1>3, PromotedSpec
<1> HIDE DEF M
<1>5. IsLayers(M) /\ Len(M) = Len(L)
  BY <1>4, LayersWith
<1>6. L = <<>> <=> M = <<>>
  BY <1>5, LayersAre
<1> QED BY <1>1, <1>5, <1>6

\* A uniform model.
LEMMA UniformIs ==
  ASSUME NEW L, IsLayers(L), L # <<>> PROVE AreWell(UniformSpecGroups(L), FALSE)
<1>1. LayerNames(L) \in Seq(NamesOf(L)) /\ LayerNames(L) # <<>>
  <2>1. LayerNames(L) \in Seq(NamesOf(L)) /\ Len(LayerNames(L)) = Len(L)
    BY NamesAre
  <2> QED BY <2>1, LayersAre, EmptySeq
<1>2. PICK grouped : grouped = <<LayerNames(L)>>
  OBVIOUS
<1>3. DOMAIN grouped = 1 .. 1
      /\ \A g \in 1 .. 1 : grouped[g] \in Seq(NamesOf(L)) /\ grouped[g] # <<>>
  BY <1>1, <1>2
<1>4. AreWell(create_kv_cache_group_specs(L, grouped), TRUE)
  <2>1. 1 \in Nat
    OBVIOUS
  <2> QED BY <1>3, <2>1, CreateIs
<1> QED BY <1>2, <1>4 DEF UniformSpecGroups, AreWell, GroupIs

LEMMA OneUniform ==
  ASSUME NEW L, IsLayers(L), L # <<>>, UniformType(Specs(L))
  PROVE  AreWell(<<UniformGroup(L)>>, FALSE)
<1>1. AllSame(Specs(L))
  BY NamesAre, UniformTypeIs
<1> QED BY <1>1, UniformGroupIs, WellOne

\* Hybrid models.
GroupsWell(out) == out.ok => AreWell(out.groups, FALSE)

LEMMA OutcomeWell ==
  ASSUME NEW gs, AreWell(gs, FALSE) PROVE GroupsWell(Outcome(gs))
<1>1. PICK out : out = Outcome(gs)
  OBVIOUS
<1>2. out.groups = gs
  BY <1>1 DEF Outcome
<1>3. AreWell(out.groups, FALSE)
  BY <1>2
<1> QED BY <1>1, <1>3 DEF GroupsWell

LEMMA FallbackIs ==
  ASSUME NEW L, IsLayers(L), L # <<>> PROVE GroupsWell(FallbackGroups(L))
<1>1. PICK P : P = PromotedLayers(L)
  OBVIOUS
<1>2. IsLayers(P) /\ P # <<>>
  BY <1>1, PromotedIs
<1>3. CASE FallbackGroups(L) = Raised
  BY <1>3 DEF GroupsWell, Raised
<1>4. CASE FallbackGroups(L) # Raised
  <2>1. FallbackGroups(L) = Outcome(<<UniformGroup(P)>>) /\ UniformType(Specs(P))
    BY <1>1, <1>4 DEF FallbackGroups
  <2>2. AreWell(<<UniformGroup(P)>>, FALSE)
    BY <1>2, <2>1, OneUniform
  <2> QED BY <2>1, <2>2, OutcomeWell
<1> QED BY <1>3, <1>4

LEMMA HybridIs ==
  ASSUME NEW L, IsLayers(L), \A s \in Specs(L) : Positive(s),
         \E s \in Specs(L) : ~ IsHidden(s), NEW eagle
  PROVE  GroupsWell(HybridGroups(L, eagle))
<1>1. PICK hidden : hidden = OfClass(L, "hidden")
  OBVIOUS
<1>2. PICK rest : rest = Only(L, {s \in Specs(L) : ~ IsHidden(s)})
  OBVIOUS
<1>3. IsLayers(hidden) /\ Specs(hidden) \subseteq Specs(L)
  BY <1>1, LayersOnly DEF OfClass
<1>4. IsLayers(rest) /\ rest # <<>> /\ \A s \in Specs(rest) : Positive(s)
  <2>1. IsLayers(rest) /\ Specs(rest) = Specs(L) \cap {s \in Specs(L) : ~ IsHidden(s)}
    BY <1>2, LayersOnly
  <2>2. Specs(rest) # {}
    BY <2>1
  <2>3. ToSet(rest) # {}
    BY <2>2 DEF Specs
  <2> QED BY <2>1, <2>3, LayersAre
<1>5. L # <<>>
  <2>1. ToSet(L) # {}
    BY DEF Specs
  <2> QED BY <2>1, LayersAre
<1>6. CASE ~ CanUnify(rest)
  <2>1. HybridGroups(L, eagle) = FallbackGroups(L)
    BY <1>2, <1>6 DEF HybridGroups
  <2> QED BY <1>5, <2>1, FallbackIs
<1>7. CASE CanUnify(rest) /\ UnifyAsserts(rest)
  <2>1. HybridGroups(L, eagle) = Raised
    BY <1>2, <1>7 DEF HybridGroups
  <2> QED BY <2>1 DEF GroupsWell, Raised
<1>8. CASE CanUnify(rest) /\ ~ UnifyAsserts(rest)
  <2>1. PICK U : U = unify_kv_cache_spec_page_size(rest)
    OBVIOUS
  <2>2. IsLayers(U) /\ U # <<>>
    BY <1>4, <2>1, UnifyIs
  <2>3. PICK gs : gs = UniformPageSizeGroups(U)
    OBVIOUS
  <2>4. AreWell(gs, TRUE) /\ gs # <<>>
    BY <2>2, <2>3, UniformPageSizeIs
  <2>5. PICK ss : ss = [i \in DOMAIN hidden |-> HiddenGroup(gs, hidden[i])]
    OBVIOUS
  <2>6. PICK n \in Nat : DOMAIN hidden = 1 .. n /\ \A i \in 1 .. n : hidden[i] \in ToSet(hidden)
    BY <1>3, LayersAre
  <2>7. ASSUME NEW i \in 1 .. n PROVE AreWell(ss[i], TRUE)
    <3>1. PICK l : l = hidden[i] /\ l \in ToSet(hidden)
      BY <2>6
    <3>2. IsLayer(l) /\ l.spec \in Specs(hidden)
      BY <1>3, <3>1 DEF IsLayers, Specs
    <3>3. l.spec.tok > 0
      BY <1>3, <3>2 DEF Positive
    <3>4. AreWell(HiddenGroup(gs, l), TRUE)
      BY <2>4, <3>2, <3>3, HiddenIs
    <3> QED BY <2>5, <2>6, <3>1, <3>4
  <2>8. AreWell(FlattenSeq(ss), TRUE)
    <3>1. DOMAIN ss = 1 .. n /\ ss = [i \in 1 .. n |-> ss[i]]
      BY <2>5, <2>6
    <3> QED BY <2>7, <3>1, WellFlatten
  <2>9. PICK all : all = gs \o FlattenSeq(ss)
    OBVIOUS
  <2>10. AreWell(all, TRUE)
    BY <2>4, <2>8, <2>9, WellConcat
  <2>11. AreWell(all, FALSE)
    BY <2>10 DEF AreWell, GroupIs
  <2>12. all = WithHidden(gs, hidden)
    BY <2>5, <2>9 DEF WithHidden
  <2>13. HybridGroups(L, eagle) = Outcome(_annotate_eagle_groups(all, eagle))
    BY <1>1, <1>2, <1>8, <2>1, <2>3, <2>12 DEF HybridGroups
  <2>14. AreWell(_annotate_eagle_groups(all, eagle), FALSE)
    BY <2>11, AnnotateIs
  <2> QED BY <2>13, <2>14, OutcomeWell
<1> QED BY <1>6, <1>7, <1>8

-----------------------------------------------------------------------------
(* MLA and windowed MLA: rows of layers, one of each page size.             *)
LEMMA TuplesAre ==
  ASSUME NEW M, IsLayers(M), M # <<>>
  PROVE  /\ LayerTuples(M) \in Nat \ {0}
         /\ \A p \in PageSizes(M) : Len(LayersOfSize(M, p)) <= LayerTuples(M)
         /\ \A p \in PageSizes(M) : IsLayers(LayersOfSize(M, p)) /\ Len(LayersOfSize(M, p)) > 0
                                    /\ ToSet(LayersOfSize(M, p)) \subseteq ToSet(M)
         /\ (\A p, q \in PageSizes(M) : Len(LayersOfSize(M, p)) = Len(LayersOfSize(M, q)))
                => \A p \in PageSizes(M) : Len(LayersOfSize(M, p)) = LayerTuples(M)
<1>1. PICK n \in Nat : n = Len(M) /\ DOMAIN M = 1 .. n /\ n > 0 /\ ToSet(M) = {M[i] : i \in 1 .. n}
  BY LayersAre
<1>2. Specs(M) = {M[i].spec : i \in 1 .. n}
  BY <1>1 DEF Specs
<1>3. ASSUME NEW p \in PageSizes(M)
      PROVE  /\ IsLayers(LayersOfSize(M, p)) /\ Len(LayersOfSize(M, p)) > 0
             /\ ToSet(LayersOfSize(M, p)) \subseteq ToSet(M) /\ Len(LayersOfSize(M, p)) \in Nat
  <2>1. PICK s \in Specs(M) : Page(s) = p
    BY DEF PageSizes
  <2>2. PICK O : O = LayersOfSize(M, p)
    OBVIOUS
  <2>3. PICK S : S = {t \in Specs(M) : Page(t) = p}
    OBVIOUS
  <2>4. /\ IsLayers(O) /\ Specs(O) = Specs(M) \cap S
        /\ ToSet(O) = {l \in ToSet(M) : l.spec \in S}
    BY <2>2, <2>3, LayersOnly DEF LayersOfSize
  <2>5. s \in Specs(O)
    BY <2>1, <2>3, <2>4
  <2>6. ToSet(O) # {}
    BY <2>5 DEF Specs
  <2>7. Len(O) \in Nat /\ Len(O) > 0
    BY <2>4, <2>6, LayersAre
  <2>8. ToSet(O) \subseteq ToSet(M)
    BY <2>4
  <2> QED BY <2>2, <2>4, <2>7, <2>8
<1>4. PICK f : f = [i \in 1 .. n |-> Len(LayersOfSize(M, Page(M[i].spec)))]
  OBVIOUS
<1>5. \A i \in 1 .. n : Page(M[i].spec) \in PageSizes(M)
  BY <1>2 DEF PageSizes
<1>6. f \in [1 .. n -> Nat] /\ \A i \in 1 .. n : f[i] > 0
  BY <1>3, <1>4, <1>5
<1>7. {Len(LayersOfSize(M, p)) : p \in PageSizes(M)} = {f[i] : i \in 1 .. n}
  <2>1. PageSizes(M) = {Page(M[i].spec) : i \in 1 .. n}
    BY <1>2 DEF PageSizes
  <2> QED BY <1>4, <2>1
<1>8. LayerTuples(M) = Max({f[i] : i \in 1 .. n})
  BY <1>7 DEF LayerTuples
<1>9. LayerTuples(M) \in Nat /\ \A i \in 1 .. n : f[i] <= LayerTuples(M)
  BY <1>1, <1>6, <1>8, MaxOfIs
<1>10. ASSUME NEW p \in PageSizes(M) PROVE \E i \in 1 .. n : Len(LayersOfSize(M, p)) = f[i]
  BY <1>7
<1>11. LayerTuples(M) # 0
  <2>1. 1 \in 1 .. n
    BY <1>1
  <2>2. f[1] > 0 /\ f[1] \in Nat /\ f[1] <= LayerTuples(M)
    BY <1>6, <1>9, <2>1
  <2> QED BY <1>9, <2>2
<1>12. \A p \in PageSizes(M) : Len(LayersOfSize(M, p)) <= LayerTuples(M)
  BY <1>9, <1>10
<1>13. ASSUME \A p, q \in PageSizes(M) : Len(LayersOfSize(M, p)) = Len(LayersOfSize(M, q)),
              NEW p \in PageSizes(M)
       PROVE  Len(LayersOfSize(M, p)) = LayerTuples(M)
  <2>1. PICK c \in Nat : c = Len(LayersOfSize(M, p))
    BY <1>3
  <2>2. \A q \in PageSizes(M) : Len(LayersOfSize(M, q)) = c
    BY <1>13, <2>1
  <2>3. {Len(LayersOfSize(M, q)) : q \in PageSizes(M)} = {c}
    BY <1>13, <2>2
  <2>4. LayerTuples(M) = Max({c})
    BY <2>3 DEF LayerTuples
  <2> QED BY <2>1, <2>4, MaxOfOne
<1>14. \A p \in PageSizes(M) : IsLayers(LayersOfSize(M, p)) /\ Len(LayersOfSize(M, p)) > 0
                                /\ ToSet(LayersOfSize(M, p)) \subseteq ToSet(M)
  BY <1>3
<1> QED BY <1>9, <1>11, <1>12, <1>13, <1>14

\* One list of windowed layers, all of one block size and window.
LEMMA SwaListIs ==
  ASSUME NEW L, IsLayers(L)
  PROVE  /\ DOMAIN SwaLists(L) = 1 .. Len(SwaKeys(L)) /\ Len(SwaKeys(L)) \in Nat
         /\ \A k \in 1 .. Len(SwaKeys(L)) :
                LET M == SwaLists(L)[k] IN IsLayers(M) /\ M # <<>> /\ AllSame(Specs(M))
<1>1. PICK swa : swa = OfClass(L, "swamla")
  OBVIOUS
<1>2. IsLayers(swa) /\ Specs(swa) = Specs(L) \cap {s \in Specs(L) : s.cls = "swamla"}
  BY <1>1, LayersOnly DEF OfClass
<1>3. PICK n \in Nat : n = Len(swa) /\ DOMAIN swa = 1 .. n /\ ToSet(swa) = {swa[i] : i \in 1 .. n}
  BY <1>2, LayersAre
<1>4. PICK s : s = [i \in DOMAIN swa |-> <<swa[i].spec.bs, swa[i].spec.win>>]
  OBVIOUS
<1>5. PICK K : K = {<<t.bs, t.win>> : t \in Specs(swa)}
  OBVIOUS
<1>6. s \in [1 .. n -> K]
  <2>1. \A i \in 1 .. n : swa[i].spec \in Specs(swa)
    BY <1>3 DEF Specs
  <2> QED BY <1>3, <1>4, <1>5, <2>1
<1>7. Firsts(s) \in Seq(K)
  <2>1. s \in Seq(K)
    BY <1>6, SeqDef
  <2> QED BY <2>1, FirstsIs
<1>8. PICK keys : keys = SwaKeys(L) /\ keys \in Seq(K)
  BY <1>1, <1>4, <1>7 DEF SwaKeys
<1>9. PICK m \in Nat : m = Len(keys) /\ DOMAIN keys = 1 .. m /\ \A k \in 1 .. m : keys[k] \in K
  BY <1>8
<1>10. ASSUME NEW k \in 1 .. m
       PROVE  LET M == SwaLists(L)[k] IN IsLayers(M) /\ M # <<>> /\ AllSame(Specs(M))
  <2>1. PICK S : S = {t \in Specs(L) : t.cls = "swamla" /\ <<t.bs, t.win>> = keys[k]}
    OBVIOUS
  <2>2. PICK M : M = SwaLists(L)[k]
    OBVIOUS
  <2>3. M = Only(L, S)
    BY <1>8, <1>9, <2>1, <2>2 DEF SwaLists
  <2>4. IsLayers(M) /\ Specs(M) = Specs(L) \cap S
    BY <2>3, LayersOnly
  <2>5. PICK t \in Specs(swa) : keys[k] = <<t.bs, t.win>>
    BY <1>5, <1>9
  <2>6. t \in Specs(M)
    BY <1>2, <2>1, <2>4, <2>5
  <2>7. M # <<>>
    <3>1. ToSet(M) # {}
      BY <2>6 DEF Specs
    <3> QED BY <2>4, <3>1, LayersAre
  <2>8. ASSUME NEW x \in Specs(M), NEW y \in Specs(M), NEW len \in Nat
        PROVE  Pages(x, len) = Pages(y, len)
    <3>1. /\ x.cls = "swamla" /\ <<x.bs, x.win>> = keys[k]
          /\ y.cls = "swamla" /\ <<y.bs, y.win>> = keys[k]
      BY <2>1, <2>4
    <3>2. x.bs = y.bs /\ x.win = y.win
      BY <2>5, <3>1
    <3>3. IsSwa(x) /\ IsSwa(y) /\ x.cls \notin StateClasses /\ y.cls \notin StateClasses
      BY <3>1 DEF IsSwa, SwaClasses, StateClasses
    <3> QED BY <3>2, <3>3 DEF Pages
  <2>9. AllSame(Specs(M))
    BY <2>8 DEF AllSame, SamePages
  <2> QED BY <2>2, <2>4, <2>7, <2>9
<1> QED BY <1>8, <1>9, <1>10 DEF SwaLists

\* A packed group holds the layers it names.
LEMMA PackedGroupIs ==
  ASSUME NEW M, IsLayers(M), AllSame(Specs(M)), NEW names \in Seq(NamesOf(M)), names # <<>>
  PROVE  WellGroup(PackedGroup(M, names))
<1>1. PICK S : S = {l \in ToSet(M) : Contains(names, l.name)}
  OBVIOUS
<1>2. PICK W : W = Where(M, S)
  OBVIOUS
<1>3. IsLayers(W) /\ ToSet(W) = ToSet(M) \cap S
  BY <1>2, LayersWhere
<1>4. PICK n \in Nat : n = Len(names) /\ n > 0 /\ names \in [1 .. n -> NamesOf(M)]
  <2>1. Len(names) \in Nat /\ Len(names) > 0
    BY SeqOfOwn
  <2> QED BY <2>1
<1>5. ASSUME NEW i \in 1 .. n PROVE names[i] \in NamesOf(W)
  <2>1. PICK l \in ToSet(M) : l.name = names[i]
    BY <1>4 DEF NamesOf
  <2>2. Contains(names, l.name)
    BY <1>4, <2>1 DEF Contains
  <2>3. l \in ToSet(W)
    BY <1>1, <1>3, <2>2
  <2> QED BY <2>1, <2>3 DEF NamesOf
<1>6. names \in Seq(NamesOf(W))
  <2>1. names \in [1 .. n -> NamesOf(W)]
    BY <1>4, <1>5
  <2> QED BY <2>1, SeqDef
<1>7. W # <<>>
  <2>1. 1 \in 1 .. n
    BY <1>4
  <2>2. ToSet(W) # {}
    BY <1>5, <2>1 DEF NamesOf
  <2> QED BY <1>3, <2>2, LayersAre
<1>8. AllSame(Specs(W))
  <2>1. Specs(W) \subseteq Specs(M)
    BY <1>3 DEF Specs
  <2> QED BY <2>1 DEF AllSame
<1>9. WellGroup(UniformGroup(W))
  BY <1>3, <1>7, <1>8, UniformGroupIs
<1>10. PICK u, g : u = UniformGroup(W) /\ g = PackedGroup(M, names)
  OBVIOUS
<1>11. DOMAIN SpecOf(W) = NamesOf(W)
  BY <1>3, NamesAre
<1>12. u.of = SpecOf(W) /\ u.uni = TRUE /\ DOMAIN u = {"names", "of", "uni", "spec", "eagle"}
  BY <1>10 DEF UniformGroup
<1>13. g = [u EXCEPT !.names = names]
  BY <1>1, <1>2, <1>10 DEF PackedGroup
<1>14. /\ DOMAIN g = DOMAIN u /\ g.of = u.of /\ g.uni = u.uni /\ g.spec = u.spec
       /\ g.names = names
  BY <1>12, <1>13
<1>15. WellGroup(u)
  BY <1>9, <1>10
<1> QED BY <1>6, <1>10, <1>11, <1>12, <1>14, <1>15 DEF WellGroup

\* The chunk of rows that pads least.
LEMMA ChunkIs ==
  ASSUME NEW n \in Nat, n > 0, NEW counts \in [1 .. n -> Nat], NEW low \in Nat \ {0}
  PROVE  _approximate_gcd(counts, low) \in Nat \ {0}
<1>1. PICK top : top = Max(ToSet(counts))
  OBVIOUS
<1>2. top \in Nat
  <2>1. ToSet(counts) = {counts[i] : i \in 1 .. n}
    BY DEF ToSet
  <2> QED BY <1>1, <2>1, MaxOfIs
<1>3. CASE low > top
  <2>1. _approximate_gcd(counts, low) = low
    BY <1>1, <1>3 DEF _approximate_gcd
  <2> QED BY <2>1
<1>4. CASE ~ (low > top)
  <2>1. PICK range : range = low .. top
    OBVIOUS
  <2>2. ASSUME NEW d \in range PROVE Padding(counts, d) \in Nat
    <3>1. d \in Nat \ {0}
      BY <1>2, <2>1
    <3>2. ASSUME NEW i \in 1 .. n PROVE (d - (counts[i] % d)) % d \in Nat
      <4>1. PICK c \in Nat : c = counts[i]
        OBVIOUS
      <4>2. PICK m : m = c % d
        OBVIOUS
      <4>3. m \in 0 .. (d - 1)
        BY <3>1, <4>2
      <4>4. d - m \in Nat
        BY <3>1, <4>3
      <4>5. (d - m) % d \in Nat
        BY <3>1, <4>4
      <4> QED BY <4>1, <4>2, <4>5
    <3>3. PICK s : s = [i \in DOMAIN counts |-> (d - (counts[i] % d)) % d]
      OBVIOUS
    <3>4. s \in [1 .. n -> Nat]
      BY <3>2, <3>3
    <3>5. Padding(counts, d) = Total(s)
      BY <3>3 DEF Padding
    <3> QED BY <3>4, <3>5, TotalIs
  <2>3. PICK P : P = {Padding(counts, d) : d \in range}
    OBVIOUS
  <2>4. P \in SUBSET Nat /\ P # {}
    <3>1. low \in range
      BY <1>2, <1>4, <2>1
    <3> QED BY <2>2, <2>3, <3>1
  <2>5. PICK least : least = Min(P) /\ least \in P
    BY <2>4, MinIs
  <2>6. PICK D : D = {d \in range : Padding(counts, d) = least}
    OBVIOUS
  <2>7. D \in SUBSET Nat /\ D # {} /\ (\A d \in D : d <= top) /\ \A d \in D : d >= low
    <3>1. \A d \in D : d \in Nat /\ d <= top /\ d >= low
      BY <1>2, <2>1, <2>6
    <3>2. D # {}
      BY <2>3, <2>5, <2>6
    <3> QED BY <3>1, <3>2
  <2>8. Max(D) \in D
    BY <1>2, <2>7, MaxIs
  <2>9. _approximate_gcd(counts, low) = Max(D)
    BY <1>1, <1>4, <2>1, <2>3, <2>5, <2>6 DEF _approximate_gcd
  <2>10. Max(D) \in Nat /\ Max(D) >= low
    BY <2>7, <2>8
  <2> QED BY <2>9, <2>10
<1> QED BY <1>3, <1>4

EqualRows(M) == \A p, q \in PageSizes(M) : Len(LayersOfSize(M, p)) = Len(LayersOfSize(M, q))

LEMMA RowIs ==
  ASSUME NEW M, IsLayers(M), M # <<>>, EqualRows(M), NEW k \in 1 .. LayerTuples(M)
  PROVE  TupleRow(M, SizeOrder(M), k) \in Seq(NamesOf(M)) \ {<<>>}
<1>1. PICK n \in Nat : n = Len(M) /\ DOMAIN M = 1 .. n /\ n > 0 /\ ToSet(M) = {M[i] : i \in 1 .. n}
  BY LayersAre
<1>2. PICK s : s = [i \in DOMAIN M |-> Page(M[i].spec)]
  OBVIOUS
<1>3. s \in [1 .. n -> PageSizes(M)]
  <2>1. \A i \in 1 .. n : M[i].spec \in Specs(M)
    BY <1>1 DEF Specs
  <2> QED BY <1>1, <1>2, <2>1 DEF PageSizes
<1>4. s \in Seq(PageSizes(M)) /\ Len(s) = n
  BY <1>3, LenProperties, SeqDef
<1>5. PICK order : order = SizeOrder(M) /\ order \in Seq(PageSizes(M)) /\ Len(order) > 0
  BY <1>1, <1>2, <1>4, FirstsIs DEF SizeOrder
<1>6. PICK m \in Nat : m = Len(order) /\ m > 0 /\ DOMAIN order = 1 .. m
                       /\ \A p \in 1 .. m : order[p] \in PageSizes(M)
  BY <1>5
<1>7. ASSUME NEW p \in 1 .. m PROVE LayerNames(LayersOfSize(M, order[p]))[k] \in NamesOf(M)
  <2>1. PICK O : O = LayersOfSize(M, order[p])
    OBVIOUS
  <2>2. IsLayers(O) /\ ToSet(O) \subseteq ToSet(M) /\ Len(O) = LayerTuples(M)
    BY <1>6, <2>1, TuplesAre DEF EqualRows
  <2>3. /\ LayerNames(O) \in Seq(NamesOf(O)) /\ Len(LayerNames(O)) = LayerTuples(M)
    BY <2>2, NamesAre
  <2>4. LayerNames(O)[k] \in NamesOf(O)
    BY <2>3
  <2> QED BY <2>1, <2>2, <2>4 DEF NamesOf
<1>8. PICK row : row = TupleRow(M, SizeOrder(M), k)
  OBVIOUS
<1>9. row \in [1 .. m -> NamesOf(M)]
  BY <1>5, <1>6, <1>7, <1>8 DEF TupleRow
<1>10. row \in Seq(NamesOf(M)) /\ Len(row) = m
  BY <1>9, LenProperties, SeqDef
<1>11. row # <<>>
  BY <1>6, <1>10, EmptySeq
<1> QED BY <1>8, <1>10, <1>11

LEMMA SplitIs ==
  ASSUME NEW M, IsLayers(M), M # <<>>, AllSame(Specs(M)), EqualRows(M), NEW tuples \in Nat \ {0}
  PROVE  AreWell(SplitTuples(M, tuples), FALSE)
<1>1. PICK t \in Nat \ {0} : t = LayerTuples(M)
  BY TuplesAre
<1>2. PICK R : R = Seq(NamesOf(M)) \ {<<>>}
  OBVIOUS
<1>3. PICK rows : rows = [k \in 1 .. LayerTuples(M) |-> TupleRow(M, SizeOrder(M), k)]
  OBVIOUS
<1>4. rows \in [1 .. t -> R]
  BY <1>1, <1>2, <1>3, RowIs
<1>5. rows \in Seq(R) /\ Len(rows) = t
  BY <1>4, LenProperties, SeqDef
<1>6. PICK n \in Nat : n = CDiv(t, tuples) /\ n \in 1 .. Len(rows)
  <2>1. CDiv(t, tuples) \in Nat /\ (t > 0 => CDiv(t, tuples) > 0) /\ CDiv(t, tuples) <= t
    BY CDivIs
  <2> QED BY <1>5, <2>1
<1> DEFINE names(i) == FlattenSeq(Strided(rows, i, n))
           gs == [i \in 1 .. n |-> PackedGroup(M, names(i))]
<1>7. SplitTuples(M, tuples) = gs
  BY <1>3, <1>5, <1>6 DEF SplitTuples
<1>8. ASSUME NEW i \in 1 .. n PROVE WellGroup(PackedGroup(M, names(i)))
  <2>1. PICK s : s = Strided(rows, i, n)
    OBVIOUS
  <2>2. s \in Seq(R) /\ s # <<>>
    BY <1>5, <1>6, <2>1, StridedIs
  <2>3. PICK m \in Nat : m = Len(s) /\ m > 0 /\ s \in [1 .. m -> R]
    <3>1. Len(s) \in Nat /\ Len(s) > 0
      BY <2>2, SeqOfOwn
    <3> QED BY <2>2, <3>1
  <2>4. s \in [1 .. m -> Seq(NamesOf(M))]
    BY <1>2, <2>3
  <2>5. FlattenSeq(s) \in Seq(NamesOf(M)) /\ \A j \in 1 .. m : Len(s[j]) <= Len(FlattenSeq(s))
    BY <2>4, FlattenIn
  <2>6. s[1] \in Seq(NamesOf(M)) /\ s[1] # <<>> /\ 1 \in 1 .. m
    BY <1>2, <2>3
  <2>7. Len(s[1]) > 0 /\ Len(s[1]) \in Nat
    BY <2>6, SeqOfOwn, LenProperties
  <2>8. Len(FlattenSeq(s)) > 0 /\ Len(FlattenSeq(s)) \in Nat
    BY <2>5, <2>6, <2>7, LenProperties
  <2>9. FlattenSeq(s) # <<>>
    BY <2>8, EmptySeq
  <2>10. WellGroup(PackedGroup(M, FlattenSeq(s)))
    BY <2>5, <2>9, PackedGroupIs
  <2> QED BY <2>1, <2>10
<1>9. PICK T : T = {gs[i] : i \in 1 .. n}
  OBVIOUS
<1>10. gs \in [1 .. n -> T]
  BY <1>9
<1>11. gs \in Seq(T)
  BY <1>10, SeqDef
<1>12. \A g \in T : GroupIs(g, FALSE)
  BY <1>8, <1>9 DEF GroupIs
<1> HIDE DEF gs
<1> QED BY <1>7, <1>11, <1>12, WellFrom

LEMMA PackedIs ==
  ASSUME NEW L, IsLayers(L), PackedOk(L) PROVE AreWell(UniformGroups(L), FALSE)
<1>1. PICK mla : mla = MlaLayers(L)
  OBVIOUS
<1>2. IsLayers(mla) /\ mla # <<>> /\ UniformType(Specs(mla))
  BY <1>1, LayersOnly DEF PackedOk, MlaLayers, OfClass
<1>3. PICK swa : swa = SwaLists(L)
  OBVIOUS
<1>4. PICK n \in Nat : DOMAIN swa = 1 .. n /\ n = Len(SwaKeys(L))
  BY <1>3, SwaListIs
<1>5. ASSUME NEW k \in 1 .. n
      PROVE  IsLayers(swa[k]) /\ swa[k] # <<>> /\ AllSame(Specs(swa[k])) /\ EqualRows(swa[k])
  <2>1. IsLayers(swa[k]) /\ swa[k] # <<>> /\ AllSame(Specs(swa[k]))
    BY <1>3, <1>4, SwaListIs
  <2>2. EqualRows(swa[k])
    BY <1>3, <1>4 DEF PackedOk, EqualRows
  <2> QED BY <2>1, <2>2
<1>6. PICK a : a = <<LayerTuples(mla)>>
  OBVIOUS
<1>7. PICK b : b = [k \in DOMAIN swa |-> LayerTuples(swa[k])]
  OBVIOUS
<1>8. a \in Seq(Nat \ {0}) /\ Len(a) = 1 /\ b \in Seq(Nat \ {0})
  <2>1. LayerTuples(mla) \in Nat \ {0}
    BY <1>2, TuplesAre
  <2>2. \A k \in 1 .. n : LayerTuples(swa[k]) \in Nat \ {0}
    BY <1>5, TuplesAre
  <2>3. b \in [1 .. n -> Nat \ {0}]
    BY <1>4, <1>7, <2>2
  <2> QED BY <1>6, <2>1, <2>3, SeqDef
<1>9. PICK counts : counts = a \o b
  OBVIOUS
<1>10. counts \in Seq(Nat \ {0}) /\ Len(counts) = 1 + Len(b) /\ Len(b) \in Nat
  BY <1>8, <1>9, ConcatProperties, LenProperties
<1>11. PICK m \in Nat : m = Len(counts) /\ m > 0 /\ counts \in [1 .. m -> Nat \ {0}]
  BY <1>10
<1>12. PICK tuples \in Nat \ {0} : tuples = _approximate_gcd(counts, counts[1])
  <2>1. counts[1] \in Nat \ {0}
    BY <1>11
  <2>2. counts \in [1 .. m -> Nat]
    BY <1>11
  <2> QED BY <1>11, <2>1, <2>2, ChunkIs
<1>13. PICK ss : ss = [k \in DOMAIN swa |-> SplitTuples(swa[k], tuples)]
  OBVIOUS
<1>14. AreWell(FlattenSeq(ss), FALSE)
  <2>1. \A k \in 1 .. n : AreWell(SplitTuples(swa[k], tuples), FALSE)
    BY <1>5, SplitIs
  <2>2. DOMAIN ss = 1 .. n /\ ss = [k \in 1 .. n |-> ss[k]]
    BY <1>4, <1>13
  <2>3. \A k \in 1 .. n : AreWell(ss[k], FALSE)
    BY <1>4, <1>13, <2>1
  <2> QED BY <2>2, <2>3, WellFlatten
<1>15. AreWell(<<UniformGroup(mla)>>, FALSE)
  BY <1>2, OneUniform
<1>16. UniformGroups(L) = <<UniformGroup(mla)>> \o FlattenSeq(ss)
  BY <1>1, <1>3, <1>6, <1>7, <1>9, <1>12, <1>13 DEF UniformGroups
<1> QED BY <1>14, <1>15, <1>16, WellConcat

-----------------------------------------------------------------------------
(* CSA and linear attention.                                                *)
\* Every rank of a finite set of numbers is taken.
Below(S, x) == Cardinality({y \in S : y < x})
LEMMA RankTaken ==
  ASSUME NEW S \in SUBSET Nat, IsFiniteSet(S), NEW k \in 0 .. (Cardinality(S) - 1)
  PROVE  \E x \in S : Below(S, x) = k
<1> DEFINE Taken(n) == \A Q \in SUBSET Nat : IsFiniteSet(Q) /\ Cardinality(Q) = n =>
                          \A j \in 0 .. (n - 1) : \E x \in Q : Below(Q, x) = j
           T == {n \in Nat : Taken(n)}
<1>1. 0 \in T
  OBVIOUS
<1>2. ASSUME NEW n \in T PROVE n + 1 \in T
  <2> SUFFICES ASSUME NEW Q \in SUBSET Nat, IsFiniteSet(Q), Cardinality(Q) = n + 1,
                      NEW j \in 0 .. n
               PROVE  \E x \in Q : Below(Q, x) = j
    OBVIOUS
  <2>1. n \in Nat /\ Taken(n)
    OBVIOUS
  <2>2. PICK m \in Q : \A y \in Q : y <= m
    <3>1. PICK c : c = Cardinality(Q)
      OBVIOUS
    <3>2. PICK f \in Bijection(1 .. c, Q) : TRUE
      BY <3>1, FS_CardinalityType DEF ExistsBijection
    <3>3. c = n + 1 /\ c \in Nat /\ c > 0
      BY <2>1, <3>1
    <3>9. f \in [1 .. c -> Q] /\ Q = {f[i] : i \in 1 .. c}
      BY <3>2 DEF Bijection, Injection, Surjection
    <3>10. f \in [1 .. c -> Nat]
      BY <3>9
    <3>4. PICK b \in Nat : \A i \in 1 .. c : f[i] <= b
      BY <3>3, <3>10, Bounded
    <3>5. Q # {} /\ \A y \in Q : y <= b
      <4>1. 1 \in 1 .. c
        BY <3>3
      <4> QED BY <3>3, <3>4, <3>9, <4>1
    <3> QED BY <3>5, MaxIs
  <2>3. PICK R : R = Q \ {m}
    OBVIOUS
  <2>4. R \in SUBSET Nat /\ IsFiniteSet(R) /\ Cardinality(R) = n
    <3>1. IsFiniteSet(R) /\ Cardinality(R) = Cardinality(Q) - 1
      BY <2>3, FS_RemoveElement
    <3> QED BY <2>1, <2>3, <3>1
  <2>5. CASE j = n
    <3>1. {y \in Q : y < m} = R
      <4>1. ASSUME NEW y \in Q PROVE y < m <=> y # m
        <5>1. y \in Nat /\ m \in Nat /\ y <= m
          BY <2>2
        <5> QED BY <5>1
      <4> QED BY <2>3, <4>1
    <3> QED BY <2>4, <2>5, <3>1 DEF Below
  <2>6. CASE j # n
    <3>1. j \in 0 .. (n - 1)
      BY <2>1, <2>6
    <3>2. PICK x \in R : Below(R, x) = j
      BY <2>1, <2>4, <3>1
    <3>3. {y \in Q : y < x} = {y \in R : y < x}
      BY <2>2, <2>3
    <3> QED BY <2>3, <3>2, <3>3 DEF Below
  <2> QED BY <2>5, <2>6
<1>3. T = Nat
  <2> HIDE DEF T
  <2>1. T \in SUBSET Nat
    BY DEF T
  <2> QED BY <1>1, <1>2, <2>1, SetInduction
<1>4. Cardinality(S) \in Nat
  BY FS_CardinalityType
<1> QED BY <1>3, <1>4

LEMMA ByIndexIs ==
  ASSUME NEW M, IsLayers(M), Cardinality(Indices(M)) = Len(M)
  PROVE  /\ ByIndex(M) \in Seq(ToSet(M)) /\ Len(ByIndex(M)) = Len(M) /\ IsLayers(ByIndex(M))
<1>1. PICK n \in Nat : n = Len(M) /\ DOMAIN M = 1 .. n /\ ToSet(M) = {M[i] : i \in 1 .. n}
  BY LayersAre
<1>2. PICK S : S = Indices(M)
  OBVIOUS
<1>3. S \in SUBSET Nat /\ IsFiniteSet(S) /\ Cardinality(S) = n
  <2>1. PICK f : f = [i \in 1 .. n |-> M[i].idx]
    OBVIOUS
  <2>2. S = {f[i] : i \in 1 .. n}
    <3>1. S = {l.idx : l \in {M[i] : i \in 1 .. n}}
      BY <1>1, <1>2 DEF Indices
    <3>2. {l.idx : l \in {M[i] : i \in 1 .. n}} = {M[i].idx : i \in 1 .. n}
      OBVIOUS
    <3>3. \A i \in 1 .. n : f[i] = M[i].idx
      BY <2>1
    <3>4. {M[i].idx : i \in 1 .. n} = {f[i] : i \in 1 .. n}
      BY <3>3
    <3> QED BY <3>1, <3>2, <3>4
  <2>3. IsFiniteSet(S)
    <3>1. PICK D : D = 1 .. n /\ IsFiniteSet(D)
      BY FS_Interval
    <3>2. IsFiniteSet({f[x] : x \in D})
      BY <3>1, ImageFinite
    <3> QED BY <2>2, <3>1, <3>2
  <2>4. S \in SUBSET Nat
    BY <1>2 DEF Indices, IsLayers, IsLayer
  <2> QED BY <1>1, <1>2, <2>3, <2>4
<1>4. ASSUME NEW k \in 1 .. n
      PROVE  (CHOOSE l \in ToSet(M) : Cardinality({i \in Indices(M) : i < l.idx}) = k - 1) \in ToSet(M)
  <2>1. PICK x \in S : Below(S, x) = k - 1
    <3>1. k - 1 \in 0 .. (Cardinality(S) - 1)
      BY <1>3
    <3> QED BY <1>3, <3>1, RankTaken
  <2>2. PICK l \in ToSet(M) : l.idx = x
    BY <1>2 DEF Indices
  <2>3. Cardinality({i \in Indices(M) : i < l.idx}) = k - 1
    BY <1>2, <2>1, <2>2 DEF Below
  <2> QED BY <2>3
<1>5. PICK s : s = ByIndex(M)
  OBVIOUS
<1>6. s \in [1 .. n -> ToSet(M)]
  BY <1>1, <1>4, <1>5 DEF ByIndex
<1>7. s \in Seq(ToSet(M)) /\ Len(s) = n
  BY <1>6, LenProperties, SeqDef
<1>8. IsLayers(s)
  <2>1. \A l \in ToSet(M) : IsLayer(l)
    BY DEF IsLayers
  <2>2. PICK T : T = ToSet(M)
    OBVIOUS
  <2> QED BY <1>7, <2>1, <2>2, LayersFrom
<1> QED BY <1>1, <1>5, <1>7, <1>8

\* A new padding is all that changes.
LEMMA PaddedIs ==
  ASSUME NEW L, IsLayers(L), NEW pad \in Nat
  PROVE  LET M == WithSpec(L, LAMBDA s : [s EXCEPT !.pad = pad])
         IN  IsLayers(M) /\ NamesOf(M) = NamesOf(L) /\ Len(M) = Len(L)
<1> DEFINE M == [i \in DOMAIN L |-> [L[i] EXCEPT !.spec = [L[i].spec EXCEPT !.pad = pad]]]
<1>1. WithSpec(L, LAMBDA s : [s EXCEPT !.pad = pad]) = M
  BY DEF WithSpec
<1>2. ASSUME NEW i \in DOMAIN L
      PROVE  /\ DOMAIN L[i] = {"name", "idx", "spec"}
             /\ [L[i].spec EXCEPT !.pad = pad] \in SpecSet
  <2>1. L[i].spec \in SpecSet /\ DOMAIN L[i] = {"name", "idx", "spec"}
    BY DEF IsLayers, IsLayer, ToSet
  <2> QED BY <2>1 DEF SpecSet
<1>3. /\ DOMAIN M = DOMAIN L /\ M = [i \in DOMAIN L |-> M[i]]
      /\ \A i \in DOMAIN L : /\ DOMAIN M[i] = {"name", "idx", "spec"} /\ M[i].idx = L[i].idx
                             /\ M[i].name = L[i].name /\ M[i].spec \in SpecSet
  BY <1>2
<1> HIDE DEF M
<1>4. IsLayers(M) /\ NamesOf(M) = NamesOf(L) /\ Len(M) = Len(L)
  BY <1>3, LayersWith
<1> QED BY <1>1, <1>4

\* The mamba layers are spread over as many groups as the ranks need.
LEMMA MambaCountIs ==
  ASSUME NEW mamba, NEW main, IsLayers(mamba), IsLayers(main), mamba # <<>>, main # <<>>, NEW ranks,
         MambaGroupCount(mamba, main, ranks) > 0
  PROVE  MambaGroupCount(mamba, main, ranks) \in 1 .. Len(mamba)
<1>1. PICK a, b \in Nat \ {0} : a = Len(mamba) /\ b = Len(main)
  BY LayersAre
<1>2. CDiv(a, b) \in 1 .. a
  <2>1. CDiv(a, b) \in Nat /\ (a > 0 => CDiv(a, b) > 0) /\ CDiv(a, b) <= a
    BY CDivIs
  <2> QED BY <2>1
<1> DEFINE of(r) == RankCount(mamba, ranks, r)
           kv(r) == RankCount(main, ranks, r)
           needy == {r \in DOMAIN ranks : of(r) > 0}
           counts == {CDiv(a, b)} \cup {CDiv(of(r), kv(r)) : r \in needy}
<1>3. ASSUME NEW r PROVE of(r) \in 0 .. a /\ kv(r) \in Nat
  <2>1. PICK S : S = {l \in ToSet(mamba) : l.name \in ranks[r]}
    OBVIOUS
  <2>2. PICK R : R = {l \in ToSet(main) : l.name \in ranks[r]}
    OBVIOUS
  <2>3. IsLayers(Where(mamba, S)) /\ Len(Where(mamba, S)) <= Len(mamba) /\ IsLayers(Where(main, R))
    BY LayersWhere
  <2>4. Len(Where(mamba, S)) \in Nat /\ Len(Where(main, R)) \in Nat
    BY <2>3, LayersAre
  <2> QED BY <1>1, <2>1, <2>2, <2>3, <2>4 DEF RankCount
<1>4. MambaGroupCount(mamba, main, ranks) =
        IF Len(ranks) = 1 THEN CDiv(a, b)
        ELSE IF \E r \in needy : kv(r) = 0 THEN 0 ELSE Max(counts)
  BY <1>1 DEF MambaGroupCount
<1> HIDE DEF of, kv
<1>5. ASSUME \A r \in needy : kv(r) # 0 PROVE Max(counts) \in 1 .. a
  <2>1. ASSUME NEW r \in needy PROVE CDiv(of(r), kv(r)) \in 1 .. a
    <3>1. PICK x, y \in Nat \ {0} : x = of(r) /\ y = kv(r) /\ x <= a
      BY <1>3, <1>5
    <3>2. CDiv(x, y) \in Nat /\ (x > 0 => CDiv(x, y) > 0) /\ CDiv(x, y) <= x
      BY CDivIs
    <3> QED BY <3>1, <3>2
  <2>2. counts \subseteq 1 .. a /\ counts # {}
    BY <1>2, <2>1
  <2> HIDE DEF counts
  <2>3. counts \in SUBSET Nat /\ \A x \in counts : x <= a
    BY <2>2
  <2>4. Max(counts) \in counts
    BY <2>2, <2>3, MaxIs
  <2> QED BY <2>2, <2>4
<1> QED BY <1>1, <1>2, <1>4, <1>5

\* The groups of the mamba layers.
LEMMA MambaGroupsAre ==
  ASSUME NEW L, IsLayers(L), IsLayers(MainKv(L)), MainKv(L) # <<>>, NEW rep, NEW ranks,
         MambaFits(L, rep, ranks)
  PROVE  AreWell(MambaGroups(L, rep, ranks), FALSE)
<1>1. PICK mamba : mamba = MambaLayers(L, rep)
  OBVIOUS
<1>2. IsLayers(mamba)
  BY <1>1, LayersOnly DEF MambaLayers
<1>3. PICK main : main = MainKv(L)
  OBVIOUS
<1>4. PICK pad : pad = Page(main[1].spec)
  OBVIOUS
<1>5. CASE mamba = <<>>
  <2>1. MambaGroups(L, rep, ranks) = <<>>
    BY <1>1, <1>5 DEF MambaGroups
  <2> QED BY <2>1, WellNone
<1>6. CASE mamba # <<>>
  <2>1. PICK c : c = MambaGroupCount(mamba, main, ranks)
    OBVIOUS
  <2>2. c > 0
    <3>1. Len(mamba) > 0
      BY <1>2, <1>6, LayersAre
    <3> QED BY <1>1, <1>3, <2>1, <3>1 DEF MambaFits
  <2>3. c \in 1 .. Len(mamba)
    BY <1>2, <1>3, <1>6, <2>1, <2>2, MambaCountIs
  <2>4. pad \in Nat
    <3>1. main[1].spec \in SpecSet
      BY <1>3, NamesAre
    <3> QED BY <1>4, <3>1, SpecPages
  <2>5. PICK padded : padded = WithSpec(mamba, LAMBDA s : [s EXCEPT !.pad = pad])
    OBVIOUS
  <2>6. IsLayers(padded) /\ NamesOf(padded) = NamesOf(mamba)
    BY <1>2, <2>4, <2>5, PaddedIs
  <2>7. PICK names : names = LayerNames(mamba)
    OBVIOUS
  <2>8. names \in Seq(NamesOf(padded)) /\ Len(names) = Len(mamba)
    BY <1>2, <2>6, <2>7, NamesAre
  <2>9. PICK grouped : grouped = Striped(names, c)
    OBVIOUS
  <2>10. PICK T : T = NamesOf(padded)
    OBVIOUS
  <2>11. grouped \in Seq(Seq(T) \ {<<>>}) /\ Len(grouped) = c
    BY <2>3, <2>8, <2>9, <2>10, StripedIs
  <2>12. c \in Nat /\ DOMAIN grouped = 1 .. c
         /\ \A g \in 1 .. c : grouped[g] \in Seq(NamesOf(padded)) /\ grouped[g] # <<>>
    <3>1. c \in Nat /\ DOMAIN grouped = 1 .. c
      BY <2>11
    <3>2. PICK R : R = Seq(T) \ {<<>>} /\ grouped \in Seq(R)
      BY <2>11
    <3>3. \A g \in 1 .. c : grouped[g] \in R
      BY <2>11, <3>2
    <3> QED BY <2>10, <3>1, <3>2, <3>3
  <2>13. AreWell(create_kv_cache_group_specs(padded, grouped), TRUE)
    BY <2>6, <2>12, CreateIs
  <2>14. AreWell(create_kv_cache_group_specs(padded, grouped), FALSE)
    BY <2>13, WellFrom DEF AreWell, GroupIs
  <2>15. MambaGroups(L, rep, ranks) = create_kv_cache_group_specs(padded, grouped)
    BY <1>1, <1>3, <1>4, <1>6, <2>1, <2>5, <2>7, <2>9 DEF MambaGroups
  <2> QED BY <2>14, <2>15
<1> QED BY <1>5, <1>6

\* The pairs of main and compressed pages are layers, as the two lists are.
LEMMA PairsAre ==
  ASSUME NEW a, NEW b, NEW n \in Nat, n > 0, NEW S, NEW T, NEW C, DOMAIN C = 1 .. n,
         a \in Seq(S), Len(a) = n, b \in Seq(T), Len(b) = n,
         \A l \in S \cup T : IsLayer(l)
  PROVE  LET pairs == FlattenSeq([i \in DOMAIN C |-> <<a[i], b[i]>>])
         IN  IsLayers(pairs) /\ pairs # <<>>
<1>1. PICK U : U = S \cup T
  OBVIOUS
<1>2. PICK ss : ss = [i \in DOMAIN C |-> <<a[i], b[i]>>]
  OBVIOUS
<1>3. \A i \in 1 .. n : a[i] \in U /\ b[i] \in U
  BY <1>1
<1>4. ss \in [1 .. n -> Seq(U)] /\ \A i \in 1 .. n : Len(ss[i]) = 2
  <2>1. ASSUME NEW i \in 1 .. n PROVE ss[i] \in Seq(U) /\ Len(ss[i]) = 2
    <3>1. PICK x, y \in U : x = a[i] /\ y = b[i]
      BY <1>3
    <3>2. <<x, y>> \in Seq(U) /\ Len(<<x, y>>) = 2
      OBVIOUS
    <3> QED BY <1>2, <3>1, <3>2
  <2> QED BY <1>2, <2>1
<1>5. FlattenSeq(ss) \in Seq(U) /\ FlattenSeq(ss) # <<>>
  <2>1. FlattenSeq(ss) \in Seq(U) /\ \A i \in 1 .. n : Len(ss[i]) <= Len(FlattenSeq(ss))
    BY <1>4, FlattenIn
  <2>2. 1 \in 1 .. n
    OBVIOUS
  <2>3. Len(FlattenSeq(ss)) >= 2
    BY <1>4, <2>1, <2>2
  <2>4. Len(<<>>) = 0
    OBVIOUS
  <2> QED BY <2>1, <2>3, <2>4
<1>6. \A l \in U : IsLayer(l)
  BY <1>1
<1> QED BY <1>2, <1>5, <1>6, LayersFrom

LEMMA CsaIs ==
  ASSUME NEW L, IsLayers(L), NEW unit, NEW ranks
  PROVE  GroupsWell(CsaGroups(L, unit, ranks))
<1>1. CASE CsaGroups(L, unit, ranks) = Raised
  BY <1>1 DEF GroupsWell, Raised
<1>2. CASE CsaGroups(L, unit, ranks) # Raised
  <2>1. PICK main : main = MainKv(L)
    OBVIOUS
  <2>2. PICK comp : comp = Compressed(L)
    OBVIOUS
  <2>3. PICK circ : circ = CompressorState(L)
    OBVIOUS
  <2>4. PICK page : page = Page(ByIndex(comp)[1].spec)
    OBVIOUS
  <2>5. PICK pairs : pairs = FlattenSeq([i \in DOMAIN main |-> <<ByIndex(main)[i], ByIndex(comp)[i]>>])
    OBVIOUS
  <2>6. PICK states : states = WithSpec(ByIndex(circ), LAMBDA s : [s EXCEPT !.pad = page])
    OBVIOUS
  <2>7. PICK gs : gs = <<UniformGroup(pairs), UniformGroup(states)>>
                       \o MambaGroups(L, FALSE, ranks) \o MambaGroups(L, TRUE, ranks)
    OBVIOUS
  <2>8. /\ CsaRoles(L) /\ \A rep \in BOOLEAN : MambaFits(L, rep, ranks)
        /\ UniformType(Specs(pairs)) /\ UniformType(Specs(states))
        /\ CsaGroups(L, unit, ranks) = Outcome(gs)
    BY <1>2, <2>1, <2>2, <2>3, <2>4, <2>5, <2>6, <2>7 DEF CsaGroups, WithSpec
  <2>9. IsLayers(main) /\ IsLayers(comp) /\ IsLayers(circ)
    BY <2>1, <2>2, <2>3, LayersOnly DEF MainKv, Compressed, CompressorState, OfClass
  <2>10. /\ Len(main) > 0
         /\ \A R \in {main, comp, circ} : Cardinality(Indices(R)) = Len(R) /\ Indices(R) = Indices(main)
    BY <2>1, <2>2, <2>3, <2>8 DEF CsaRoles
  <2>11. PICK n \in Nat : n = Len(main) /\ n > 0 /\ DOMAIN main = 1 .. n
    BY <2>9, <2>10, LayersAre
  <2>12. Len(comp) = n /\ Len(circ) = n
    BY <2>10, <2>11
  <2>13. main # <<>> /\ circ # <<>>
    BY <2>9, <2>11, <2>12, LayersAre
  <2>14. /\ ByIndex(main) \in Seq(ToSet(main)) /\ Len(ByIndex(main)) = n
         /\ ByIndex(comp) \in Seq(ToSet(comp)) /\ Len(ByIndex(comp)) = n
         /\ Len(ByIndex(circ)) = n /\ IsLayers(ByIndex(circ)) /\ IsLayers(ByIndex(comp))
    <3>1. ByIndex(main) \in Seq(ToSet(main)) /\ Len(ByIndex(main)) = n
      BY <2>9, <2>10, <2>11, ByIndexIs
    <3>2. ByIndex(comp) \in Seq(ToSet(comp)) /\ Len(ByIndex(comp)) = n /\ IsLayers(ByIndex(comp))
      BY <2>9, <2>10, <2>12, ByIndexIs
    <3>3. Len(ByIndex(circ)) = n /\ IsLayers(ByIndex(circ))
      BY <2>9, <2>10, <2>12, ByIndexIs
    <3> QED BY <3>1, <3>2, <3>3
  <2>15. IsLayers(pairs) /\ pairs # <<>>
    <3>1. \A l \in ToSet(main) \cup ToSet(comp) : IsLayer(l)
      BY <2>9 DEF IsLayers
    <3>2. PICK a, b, S, T : a = ByIndex(main) /\ b = ByIndex(comp) /\ S = ToSet(main) /\ T = ToSet(comp)
      OBVIOUS
    <3>3. a \in Seq(S) /\ Len(a) = n /\ b \in Seq(T) /\ Len(b) = n
          /\ \A l \in S \cup T : IsLayer(l)
      BY <2>14, <3>1, <3>2
    <3>4. pairs = FlattenSeq([i \in DOMAIN main |-> <<a[i], b[i]>>])
      BY <2>5, <3>2
    <3> QED BY <2>11, <3>3, <3>4, PairsAre
  <2>16. page \in Nat
    <3>1. PICK c : c = ByIndex(comp) /\ IsLayers(c) /\ Len(c) = n
      BY <2>14
    <3>2. c[1].spec \in SpecSet
      <4>1. c # <<>>
        BY <2>11, <3>1, LayersAre
      <4> QED BY <3>1, <4>1, NamesAre
    <3> QED BY <2>4, <3>1, <3>2, SpecPages
  <2>17. IsLayers(states) /\ states # <<>>
    <3>1. PICK c : c = ByIndex(circ) /\ IsLayers(c) /\ Len(c) = n
      BY <2>14
    <3>2. IsLayers(states) /\ Len(states) = Len(c)
      BY <2>6, <2>16, <3>1, PaddedIs
    <3> QED BY <2>11, <3>1, <3>2, LayersAre
  <2>18. WellGroup(UniformGroup(pairs)) /\ WellGroup(UniformGroup(states))
    <3>1. AllSame(Specs(pairs)) /\ AllSame(Specs(states))
      BY <2>8, <2>15, <2>17, NamesAre, UniformTypeIs
    <3> QED BY <2>15, <2>17, <3>1, UniformGroupIs
  <2>19. AreWell(<<UniformGroup(pairs), UniformGroup(states)>>, FALSE)
    <3>1. PICK g, h : g = UniformGroup(pairs) /\ h = UniformGroup(states)
      OBVIOUS
    <3>5. PICK T : T = {g, h}
      OBVIOUS
    <3>6. g \in T /\ h \in T
      BY <3>5
    <3>2. T = {g, h} /\ <<g, h>> \in Seq(T)
      BY ONLY <3>5, <3>6
    <3>3. \A x \in T : GroupIs(x, FALSE)
      BY <2>18, <3>1, <3>2 DEF GroupIs
    <3>4. AreWell(<<g, h>>, FALSE)
      BY <3>2, <3>3, WellFrom
    <3> QED BY <3>1, <3>4
  <2>20. AreWell(MambaGroups(L, FALSE, ranks), FALSE) /\ AreWell(MambaGroups(L, TRUE, ranks), FALSE)
    <3>1. IsLayers(MainKv(L)) /\ MainKv(L) # <<>>
      BY <2>1, <2>9, <2>13
    <3>2. MambaFits(L, FALSE, ranks) /\ MambaFits(L, TRUE, ranks)
      BY <2>8
    <3> QED BY <3>1, <3>2, MambaGroupsAre
  <2>21. AreWell(gs, FALSE)
    <3>1. PICK a, b, c : /\ a = <<UniformGroup(pairs), UniformGroup(states)>>
                         /\ b = MambaGroups(L, FALSE, ranks) /\ c = MambaGroups(L, TRUE, ranks)
      OBVIOUS
    <3>2. AreWell(a, FALSE) /\ AreWell(b, FALSE) /\ AreWell(c, FALSE)
      BY <2>19, <2>20, <3>1
    <3>3. AreWell(a \o b, FALSE)
      BY <3>2, WellConcat
    <3>4. AreWell((a \o b) \o c, FALSE)
      BY <3>2, <3>3, WellConcat
    <3> QED BY <2>7, <3>1, <3>4
  <2> QED BY <2>8, <2>21, OutcomeWell
<1> QED BY <1>1, <1>2

\* Whatever get_kv_cache_groups returns can be planned with.
LEMMA GroupsAreWell ==
  ASSUME NEW layers, IsLayers(layers), \A s \in Specs(layers) : Positive(s),
         layers = <<>> \/ \E s \in Specs(layers) : ~ IsHidden(s), NEW cf, NEW ranks
  PROVE  /\ GroupsWell(get_kv_cache_groups(layers, cf, ranks))
         /\ layers = <<>> => ~ get_kv_cache_groups(layers, cf, ranks).ok
                             \/ get_kv_cache_groups(layers, cf, ranks).groups = <<>>
<1>1. PICK out : out = get_kv_cache_groups(layers, cf, ranks)
  OBVIOUS
<1>2. PICK L : L = IF cf.hma THEN layers ELSE PromotedLayers(layers)
  OBVIOUS
<1>3. IsLayers(L) /\ (layers = <<>> <=> L = <<>>)
  BY <1>2, PromotedIs
<1>4. /\ cf.hma => L = layers
      /\ ~ cf.hma /\ CanPromote(layers) => OneType(L)
  BY <1>2 DEF CanPromote
<1>5. CASE out = Raised
  <2>1. ~ out.ok
    BY <1>5 DEF Raised
  <2> QED BY <1>1, <2>1 DEF GroupsWell
<1>6. CASE out # Raised /\ L = <<>>
  <2>1. out = Outcome(<<>>)
    BY <1>1, <1>2, <1>6 DEF get_kv_cache_groups
  <2>2. GroupsWell(out) /\ out.groups = <<>>
    BY <2>1, WellNone, OutcomeWell DEF Outcome
  <2> QED BY <1>1, <2>2
<1>7. CASE out # Raised /\ L # <<>>
  <2>1. ~ cf.hma => OneType(L)
    BY <1>1, <1>4, <1>7 DEF get_kv_cache_groups
  <2>2. CASE is_kv_cache_spec_uniform(L)
    <3>1. out = Outcome(UniformSpecGroups(L))
      BY <1>1, <1>2, <1>7, <2>2 DEF get_kv_cache_groups
    <3>2. AreWell(UniformSpecGroups(L), FALSE)
      BY <1>3, <1>7, UniformIs
    <3>3. GroupsWell(out)
      BY <3>1, <3>2, OutcomeWell
    <3> QED BY <1>1, <1>3, <1>7, <3>3
  <2>3. CASE ~ is_kv_cache_spec_uniform(L) /\ UniformType(Specs(L))
    <3>1. out = Outcome(<<UniformGroup(L)>>)
      BY <1>1, <1>2, <1>7, <2>3 DEF get_kv_cache_groups
    <3>2. AreWell(<<UniformGroup(L)>>, FALSE)
      BY <1>3, <1>7, <2>3, OneUniform
    <3>3. GroupsWell(out)
      BY <3>1, <3>2, OutcomeWell
    <3> QED BY <1>1, <1>3, <1>7, <3>3
  <2>4. CASE ~ is_kv_cache_spec_uniform(L) /\ ~ UniformType(Specs(L))
    <3>1. cf.hma /\ L = layers
      BY <1>4, <2>1, <2>4 DEF OneType
    <3>2. CASE IsPackedMla(L)
      <4> DEFINE marked == _annotate_eagle_groups(UniformGroups(L), cf.eagle)
                 gs == AnnotateLast(marked, L, cf.eagle /\ cf.v4)
      <4>1. PackedOk(L) /\ out = Outcome(gs)
        BY <1>1, <1>7, <2>4, <3>1, <3>2 DEF get_kv_cache_groups
      <4>2. AreWell(marked, FALSE)
        BY <1>3, <4>1, PackedIs, AnnotateIs
      <4> HIDE DEF marked
      <4>3. AreWell(gs, FALSE)
        BY <4>2, AnnotateIs
      <4>4. GroupsWell(out)
        BY <4>1, <4>3, OutcomeWell
      <4> QED BY <1>1, <1>3, <1>7, <4>4
    <3>3. CASE ~ IsPackedMla(L) /\ IsCsa(L)
      <4>1. out = CsaGroups(L, IF cf.caching THEN cf.unit ELSE 0, ranks)
        BY <1>1, <1>7, <2>4, <3>1, <3>3 DEF get_kv_cache_groups
      <4> QED BY <1>1, <1>3, <1>7, <4>1, CsaIs
    <3>4. CASE ~ IsPackedMla(L) /\ ~ IsCsa(L)
      <4>1. out = HybridGroups(L, cf.eagle)
        BY <1>1, <1>7, <2>4, <3>1, <3>4 DEF get_kv_cache_groups
      <4>2. GroupsWell(out)
        BY <1>3, <1>7, <3>1, <4>1, HybridIs
      <4> QED BY <1>1, <1>3, <1>7, <4>2
    <3> QED BY <3>2, <3>3, <3>4
  <2> QED BY <2>2, <2>3, <2>4
<1> QED BY <1>5, <1>6, <1>7

\* The whole model: the layers of all ranks.
LEMMA ModelLayers ==
  ASSUME NEW ranks, IsModel(ranks)
  PROVE  /\ IsLayers(FlattenSeq(ranks)) /\ \A s \in Specs(FlattenSeq(ranks)) : Positive(s)
         /\ FlattenSeq(ranks) = <<>> \/ \E s \in Specs(FlattenSeq(ranks)) : ~ IsHidden(s)
         /\ FlattenSeq(ranks) # <<>> => ranks # <<>>
<1>1. PICK n \in Nat : n = Len(ranks) /\ DOMAIN ranks = 1 .. n /\ ToSet(ranks) = {ranks[i] : i \in 1 .. n}
  <2>1. PICK R : R = ToSet(ranks) /\ ranks \in Seq(R)
    BY DEF IsModel
  <2> QED BY <2>1 DEF ToSet
<1>2. PICK T : T = UNION {ToSet(L) : L \in ToSet(ranks)}
  OBVIOUS
<1>3. \A l \in T : IsLayer(l) /\ Positive(l.spec)
  BY <1>2 DEF IsModel, IsLayers, Specs
<1>4. ranks \in [1 .. n -> Seq(T)]
  <2>1. ASSUME NEW i \in 1 .. n PROVE ranks[i] \in Seq(T)
    <3>1. PICK L : L = ranks[i] /\ L \in ToSet(ranks)
      BY <1>1
    <3>2. L \in Seq(ToSet(L)) /\ ToSet(L) \subseteq T
      BY <1>2, <3>1 DEF IsModel, IsLayers
    <3>3. PICK S : S = ToSet(L) /\ L \in Seq(S) /\ S \subseteq T
      BY <3>2
    <3> QED BY <3>1, <3>3
  <2>2. PICK R : R = ToSet(ranks) /\ ranks \in Seq(R)
    BY DEF IsModel
  <2> QED BY <1>1, <2>1, <2>2
<1>5. PICK F : F = FlattenSeq(ranks)
  OBVIOUS
<1>6. F \in Seq(T) /\ \A i \in 1 .. n : ToSet(ranks[i]) \subseteq ToSet(F)
  BY <1>4, <1>5, FlattenAll
<1>7. IsLayers(F) /\ ToSet(F) \subseteq T
  BY <1>3, <1>6, LayersFrom
<1>8. \A s \in Specs(F) : Positive(s)
  BY <1>3, <1>7 DEF Specs
<1>9. F = <<>> \/ \E s \in Specs(F) : ~ IsHidden(s)
  <2>1. CASE \A L \in ToSet(ranks) : L = <<>>
    <3>1. T = {}
      BY <1>2, <2>1 DEF ToSet
    <3>2. ToSet(F) = {}
      BY <1>7, <3>1
    <3> QED BY <1>7, <3>2, LayersAre
  <2>2. CASE \E L \in ToSet(ranks) : \E s \in Specs(L) : ~ IsHidden(s)
    <3>1. PICK i \in 1 .. n : \E s \in Specs(ranks[i]) : ~ IsHidden(s)
      BY <1>1, <2>2
    <3>2. ToSet(ranks[i]) \subseteq ToSet(F)
      BY <1>6
    <3> QED BY <3>1, <3>2 DEF Specs
  <2> QED BY <2>1, <2>2 DEF IsModel
<1>10. F # <<>> => ranks # <<>>
  <2> SUFFICES ASSUME ranks = <<>> PROVE F = <<>>
    OBVIOUS
  <2>1. n = 0
    BY <1>1
  <2>2. ToSet(ranks) = {}
    BY <1>1, <2>1
  <2>3. T = {}
    BY <1>2, <2>2
  <2>4. ToSet(F) = {}
    BY <1>7, <2>3
  <2> QED BY <1>7, <2>4, LayersAre
<1> QED BY <1>5, <1>7, <1>8, <1>9, <1>10

-----------------------------------------------------------------------------
(* The specs a platform gives its layers.                                   *)
LEMMA LcmIs ==
  ASSUME NEW a \in Nat \ {0}, NEW b \in Nat \ {0}
  PROVE  LcmOf(a, b) \in Nat \ {0}
<1>1. PICK T : T = {m \in 1 .. (a * b) : Divides(a, m) /\ Divides(b, m)}
  OBVIOUS
<1>2. a * b \in Nat /\ a * b > 0 /\ a * b = b * a
  OBVIOUS
<1>3. ASSUME NEW x \in Nat \ {0}, NEW y \in Nat PROVE (y * x) % x = 0
  <2>1. PICK z \in Nat : z = y * x
    OBVIOUS
  <2>2. PICK q, r \in Nat : q = z \div x /\ r = z % x
    OBVIOUS
  <2>3. z = x * q + r
    BY <2>2
  <2>4. q = y
    BY <2>1, <2>2, DivideBack
  <2>5. z = x * y
    BY <2>1
  <2>6. r = 0
    BY <2>3, <2>4, <2>5
  <2> QED BY <2>1, <2>2, <2>6
<1>4. Divides(a, a * b) /\ Divides(b, a * b)
  <2>1. (b * a) % a = 0 /\ (a * b) % b = 0
    BY <1>3
  <2> QED BY <1>2, <2>1 DEF Divides
<1>5. T \in SUBSET Nat /\ a * b \in T
  BY <1>1, <1>2, <1>4
<1>6. Min(T) \in T
  BY <1>5, MinIs
<1> QED BY <1>1, <1>6 DEF LcmOf

CacheSet == [bs : Nat \ {0}, stateBlock : Nat, statePad : Nat, skipPad : Nat]

\* The larger of a size and a wish is a size.
LEMMA LargerIs ==
  ASSUME NEW a \in Nat \ {0}, NEW b \in Nat
  PROVE  Max({a, b}) \in Nat \ {0}
<1>1. Max({b, a}) \in {b, a} /\ Max({b, a}) >= a
  BY OfTwo
<1>2. {a, b} = {b, a}
  OBVIOUS
<1> QED BY <1>1, <1>2

LEMMA PlatformFacts ==
  ASSUME NEW p, IsPlatform(p)
  PROVE  /\ p.preferred \in Nat \ {0} /\ p.kernel \in Nat \ {0} /\ p.tok \in Nat \ {0}
         /\ p.chunk \in Nat \ {0} /\ p.pp \in Nat \ {0}
         /\ p.user \in Nat /\ p.skip \in Nat /\ p.stateBlock \in Nat /\ p.slot \in Nat /\ p.full \in Nat
         /\ TokenPage(p) \in Nat \ {0}
         /\ p.states # <<>> => StatePage(p) \in Nat
<1>1. /\ p.preferred \in Nat \ {0} /\ p.kernel \in Nat \ {0} /\ p.tok \in Nat \ {0}
      /\ p.chunk \in Nat \ {0} /\ p.pp \in Nat \ {0}
      /\ p.user \in Nat /\ p.skip \in Nat /\ p.stateBlock \in Nat /\ p.slot \in Nat /\ p.full \in Nat
  BY DEF IsPlatform
<1>2. TokenPage(p) \in Nat \ {0}
  <2>1. p.skip # 0 => LcmOf(p.tok, p.skip) \in Nat \ {0}
    BY <1>1, LcmIs
  <2> QED BY <1>1, <2>1 DEF TokenPage
<1>3. ASSUME p.states # <<>> PROVE StatePage(p) \in Nat
  <2>1. PICK s : s = p.states /\ s \in Seq(Nat \ {0})
    BY DEF IsPlatform
  <2>2. PICK n \in Nat : n = Len(s) /\ s \in [1 .. n -> Nat] /\ n > 0
    BY <1>3, <2>1, EmptySeq
  <2>3. ToSet(s) = {s[i] : i \in 1 .. n}
    BY <2>2 DEF ToSet
  <2>4. Max({s[i] : i \in 1 .. n}) \in Nat
    BY <2>2, MaxOfIs
  <2> QED BY <2>1, <2>3, <2>4 DEF StatePage
<1> QED BY <1>1, <1>2, <1>3

LEMMA AlignmentIs ==
  ASSUME NEW p, IsPlatform(p), NEW c \in CacheSet
  PROVE  KernelAlignment(p, c) \in Nat \ {0}
<1>1. MlaGranule \in Nat \ {0}
  BY GranuleAssumption
<1>2. PICK T : T = {p.kernel, c.bs} \cup IF p.mla THEN {MlaGranule} ELSE {}
  OBVIOUS
<1>3. p.kernel \in Nat \ {0} /\ c.bs \in Nat \ {0}
  BY PlatformFacts DEF CacheSet
<1>4. T \in SUBSET (Nat \ {0}) /\ T # {}
  BY <1>1, <1>2, <1>3
<1>5. PICK top \in Nat : top = p.kernel + c.bs + MlaGranule
  BY <1>1, <1>3
<1>6. \A x \in T : x <= top
  BY <1>1, <1>2, <1>3, <1>5
<1>7. Max(T) \in T
  BY <1>4, <1>5, <1>6, MaxIs
<1> QED BY <1>2, <1>4, <1>7 DEF KernelAlignment

LEMMA AttentionBlockIs ==
  ASSUME NEW p, IsPlatform(p), NEW c \in CacheSet, p.states # <<>>
  PROVE  AttentionBlock(p, c) \in Nat
<1>1. PICK align \in Nat \ {0} : align = KernelAlignment(p, c)
  BY AlignmentIs
<1>2. PICK token \in Nat \ {0} : token = TokenPage(p)
  BY PlatformFacts
<1>3. PICK state \in Nat : state = StatePage(p)
  BY PlatformFacts
<1>4. PICK chunk \in Nat \ {0} :
          chunk = LcmOf(IF p.stateBlock = 0 THEN p.chunk ELSE p.stateBlock, align)
  <2>1. PICK w \in Nat \ {0} : w = IF p.stateBlock = 0 THEN p.chunk ELSE p.stateBlock
    BY PlatformFacts
  <2> QED BY <1>1, <2>1, LcmIs
<1>5. chunk * CDiv(CDiv(state, token), chunk) \in Nat
  <2>1. PICK q \in Nat : q = CDiv(state, token)
    BY CDivIs
  <2>2. PICK k \in Nat : k = CDiv(q, chunk)
    BY CDivIs
  <2> QED BY <2>1, <2>2
<1>6. align * CDiv(state, align * token) \in Nat
  <2>1. align * token \in Nat \ {0}
    OBVIOUS
  <2>2. PICK k \in Nat : k = CDiv(state, align * token)
    BY <2>1, CDivIs
  <2> QED BY <2>2
<1> QED BY <1>1, <1>2, <1>3, <1>4, <1>5, <1>6 DEF AttentionBlock

LEMMA OffloadBlockIs ==
  ASSUME NEW p, IsPlatform(p), p.states # <<>>
  PROVE  _qsa_offload_block_size(p) \in Nat
<1>1. CASE p.slot = 0 \/ p.full = 0
  BY <1>1 DEF _qsa_offload_block_size
<1>2. CASE ~ (p.slot = 0 \/ p.full = 0)
  <2>1. PICK q \in Nat : q = p.full \div p.pp
    <3>1. PICK f \in Nat, s \in Nat \ {0} : f = p.full /\ s = p.pp
      BY PlatformFacts
    <3> QED BY <3>1
  <2>2. PICK m \in Nat \ {0} : m = Max({1, p.full \div p.pp})
    BY <2>1, LargerIs
  <2>3. PICK bytes \in Nat \ {0} : bytes = Max({1, p.full \div p.pp}) * p.slot
    <3>1. PICK s \in Nat \ {0} : s = p.slot
      BY <1>2, PlatformFacts
    <3>2. m * s \in Nat \ {0}
      OBVIOUS
    <3> QED BY <2>2, <3>1, <3>2
  <2>4. PICK state \in Nat : state = StatePage(p)
    BY PlatformFacts
  <2>5. PICK g \in Nat \ {0} : g = OffloadGranule
    BY GranuleAssumption
  <2>6. PICK t \in Nat : t = state \div bytes
    OBVIOUS
  <2>7. PICK u \in Nat : u = t \div g
    OBVIOUS
  <2>8. u * g \in Nat
    OBVIOUS
  <2> QED BY <1>2, <2>3, <2>4, <2>5, <2>6, <2>7, <2>8 DEF _qsa_offload_block_size
<1> QED BY <1>1, <1>2

LEMMA HybridAligned ==
  ASSUME NEW p, IsPlatform(p), NEW c \in CacheSet
  PROVE  _align_hybrid_block_size(p, c) \in CacheSet
<1>1. CASE p.states = <<>>
  BY <1>1 DEF _align_hybrid_block_size
<1>2. CASE p.states # <<>>
  <2>1. PICK block \in Nat : block = AttentionBlock(p, c)
    BY <1>2, AttentionBlockIs
  <2>2. PICK state \in Nat : state = StatePage(p)
    BY <1>2, PlatformFacts
  <2>3. PICK off \in Nat : off = _qsa_offload_block_size(p)
    BY <1>2, OffloadBlockIs
  <2>4. PICK bs \in Nat \ {0} : bs = Max({c.bs, block})
    BY <2>1, LargerIs DEF CacheSet
  <2>5. PICK page \in Nat : page = bs * TokenPage(p)
    <3>1. PICK t \in Nat : t = TokenPage(p)
      BY PlatformFacts
    <3>2. bs * t \in Nat
      OBVIOUS
    <3> QED BY <3>1, <3>2
  <2>6. CASE off # 0
    <3>1. PICK d : d = [c EXCEPT !.stateBlock = IF p.mode = "all" THEN block ELSE @]
      OBVIOUS
    <3>2. d \in CacheSet
      BY <2>1, <3>1 DEF CacheSet
    <3>3. _align_hybrid_block_size(p, c) = Offloaded(p, d)
      BY <1>2, <2>1, <2>3, <2>6, <3>1 DEF _align_hybrid_block_size
    <3>4. Offloaded(p, d) = [d EXCEPT !.bs = off, !.statePad = state,
                                      !.stateBlock = IF p.mode = "align" THEN off ELSE @]
      BY <2>2, <2>3 DEF Offloaded
    <3>5. [d EXCEPT !.bs = off, !.statePad = state,
                    !.stateBlock = IF p.mode = "align" THEN off ELSE @] \in CacheSet
      BY <2>6, <3>2 DEF CacheSet
    <3> QED BY <3>3, <3>4, <3>5
  <2>7. CASE off = 0
    <3>1. PICK sb : sb = CASE p.mode = "all" -> block [] p.mode = "align" -> bs [] OTHER -> c.stateBlock
      OBVIOUS
    <3>2. sb \in Nat
      BY <3>1 DEF CacheSet
    <3>3. PICK pad \in Nat : pad = IF page = state THEN c.statePad ELSE page
      BY DEF CacheSet
    <3>4. _align_hybrid_block_size(p, c) = [c EXCEPT !.bs = bs, !.stateBlock = sb, !.statePad = pad]
      BY <1>2, <2>1, <2>2, <2>3, <2>4, <2>5, <2>7, <3>1, <3>3 DEF _align_hybrid_block_size
    <3>5. [c EXCEPT !.bs = bs, !.stateBlock = sb, !.statePad = pad] \in CacheSet
      BY <3>2 DEF CacheSet
    <3> QED BY <3>4, <3>5
  <2> QED BY <2>6, <2>7
<1> QED BY <1>1, <1>2

LEMMA HeterogeneousAligned ==
  ASSUME NEW p, IsPlatform(p), NEW c \in CacheSet
  PROVE  _align_heterogeneous_kv_block_size(p, c) \in CacheSet
<1>1. CASE p.skip = p.tok
  BY <1>1 DEF _align_heterogeneous_kv_block_size
<1>2. CASE p.skip # p.tok
  <2>1. PICK tok, kernel \in Nat \ {0} : tok = p.tok /\ kernel = p.kernel
    BY PlatformFacts
  <2>2. PICK size \in Nat \ {0} : size = c.bs
    BY DEF CacheSet
  <2>3. PICK align \in Nat \ {0} : align = Max({p.kernel, c.bs})
    BY <2>1, <2>2, LargerIs
  <2>4. PICK needed \in Nat : needed = Max({p.skip * p.kernel, c.statePad})
    <3>1. PICK a, b \in Nat : a = p.skip * p.kernel /\ b = c.statePad
      BY PlatformFacts DEF CacheSet
    <3>2. Max({a, b}) \in {a, b}
      BY OfTwo
    <3> QED BY <3>1, <3>2
  <2>5. PICK block \in Nat : block = align * CDiv(needed, align * tok)
    <3>1. align * tok \in Nat \ {0}
      OBVIOUS
    <3>2. PICK k \in Nat : k = CDiv(needed, align * tok)
      BY <3>1, CDivIs
    <3> QED BY <3>2
  <2>6. PICK bs \in Nat \ {0} : bs = Max({c.bs, block})
    BY <2>2, LargerIs
  <2>7. PICK page \in Nat : page = bs * tok
    OBVIOUS
  <2>8. PICK pad \in Nat : pad = IF c.statePad = 0 THEN 0 ELSE page
    OBVIOUS
  <2>9. _align_heterogeneous_kv_block_size(p, c) = [c EXCEPT !.bs = bs, !.skipPad = page, !.statePad = pad]
    BY <1>2, <2>1, <2>3, <2>4, <2>5, <2>6, <2>7, <2>8 DEF _align_heterogeneous_kv_block_size
  <2>10. [c EXCEPT !.bs = bs, !.skipPad = page, !.statePad = pad] \in CacheSet
    BY DEF CacheSet
  <2> QED BY <2>9, <2>10
<1> QED BY <1>1, <1>2

LEMMA BackendSizes ==
  ASSUME NEW p, IsPlatform(p)
  PROVE  update_block_size_for_backend(p) \in CacheSet
<1>1. PICK c : c = [bs |-> IF p.user = 0 THEN p.preferred ELSE p.user,
                    stateBlock |-> p.stateBlock, statePad |-> 0, skipPad |-> 0]
  OBVIOUS
<1>2. c \in CacheSet
  BY <1>1, PlatformFacts DEF CacheSet
<1>3. PICK h : h = IF p.hybrid THEN _align_hybrid_block_size(p, c) ELSE c
  OBVIOUS
<1>4. h \in CacheSet
  BY <1>2, <1>3, HybridAligned
<1>5. update_block_size_for_backend(p) =
          IF p.skip # 0 THEN _align_heterogeneous_kv_block_size(p, h) ELSE h
  BY <1>1, <1>3 DEF update_block_size_for_backend
<1> QED BY <1>4, <1>5, HeterogeneousAligned

\* Every layer of a platform states a spec whose page is not empty.
LEMMA LayerSpecIs ==
  ASSUME NEW p, IsPlatform(p), NEW c \in CacheSet, NEW len \in Nat \ {0}, NEW kind, IsServed(kind, p)
  PROVE  /\ LayerSpec(kind, p, c, len) \in SpecSet /\ Positive(LayerSpec(kind, p, c, len))
         /\ ~ IsHidden(LayerSpec(kind, p, c, len))
<1> DEFINE Good(s) == s \in SpecSet /\ Positive(s) /\ ~ IsHidden(s)
<1>1. PICK bs, tok, kernel \in Nat \ {0} : bs = c.bs /\ tok = p.tok /\ kernel = p.kernel
  BY PlatformFacts DEF CacheSet
<1>2. /\ c.skipPad \in Nat /\ c.statePad \in Nat /\ c.stateBlock \in Nat
      /\ p.skip \in Nat
  BY PlatformFacts DEF CacheSet
<1>3. PICK cls \in {"mla", "full"} : cls = IF p.mla THEN "mla" ELSE "full"
  OBVIOUS
<1>4. PICK plain : plain = [cls |-> cls, bs |-> bs, tok |-> tok, pad |-> 0, win |-> 0, tps |-> 1,
                            rep |-> FALSE, draft |-> FALSE]
  OBVIOUS
<1>5. plain \in SpecSet
  BY <1>4 DEF SpecSet, Classes, FullClasses
\* A record of these fields, its page at least one byte.
<1>6. ASSUME NEW s \in SpecSet, s.tok > 0, ~ IsHidden(s),
             s.pad > 0 \/ s.cls \in StateClasses \/ s.tps = 1 \/ (s.tps = 2 /\ s.tok > 1)
      PROVE  Good(s)
  <2>1. PICK b, t, n \in Nat \ {0} : b = s.bs /\ t = s.tok /\ n = s.tps
    BY <1>6 DEF SpecSet
  <2>2. PICK pad \in Nat : pad = s.pad
    BY DEF SpecSet
  <2>3. s.cls \in StateClasses \/ n = 1 \/ (n = 2 /\ t > 1) => RealPage(s) > 0
    <3>1. b * t \in Nat /\ b * t >= t
      OBVIOUS
    <3>2. PICK z \in Nat : z = b * t /\ z >= t
      BY <3>1
    <3>3. CASE s.cls \in StateClasses
      BY <2>1, <3>3 DEF RealPage
    <3>4. CASE s.cls \notin StateClasses /\ n = 1
      <4>1. RealPage(s) = z \div 1
        BY <2>1, <3>2, <3>4 DEF RealPage
      <4> QED BY <3>2, <4>1
    <3>5. CASE s.cls \notin StateClasses /\ n = 2 /\ t > 1
      <4>1. RealPage(s) = z \div 2
        BY <2>1, <3>2, <3>5 DEF RealPage
      <4>2. z \div 2 > 0
        BY <3>2, <3>5
      <4> QED BY <4>1, <4>2
    <3> QED BY <3>3, <3>4, <3>5
  <2>4. Page(s) = IF pad = 0 THEN RealPage(s) ELSE pad
    BY <2>2 DEF Page
  <2>5. Page(s) > 0
    BY <1>6, <2>1, <2>2, <2>3, <2>4
  <2> QED BY <1>6, <2>5 DEF Positive
<1> HIDE DEF Good
<1>7. PICK spec : spec = LayerSpec(kind, p, c, len)
  OBVIOUS
<1>8. ASSUME kind = "full" PROVE Good(spec)
  <2>1. spec = plain
    BY <1>1, <1>3, <1>4, <1>7, <1>8 DEF LayerSpec
  <2>2. plain.tok > 0 /\ ~ IsHidden(plain) /\ plain.tps = 1
    BY <1>4 DEF IsHidden
  <2> QED BY <1>5, <1>6, <2>1, <2>2
<1>9. ASSUME kind = "skip" PROVE Good(spec)
  <2>1. PICK b \in Nat \ {0} : b = IF c.skipPad = 0 THEN bs ELSE kernel
    OBVIOUS
  <2>2. PICK s : s = [plain EXCEPT !.tok = p.skip, !.pad = c.skipPad, !.bs = b]
    OBVIOUS
  <2>3. spec = s
    BY <1>1, <1>3, <1>4, <1>7, <1>9, <2>1, <2>2 DEF LayerSpec
  <2>4. p.skip > 0
    BY <1>9 DEF IsServed
  <2>5. s \in SpecSet
    BY <1>2, <1>5, <2>2 DEF SpecSet
  <2>6. s.tok > 0 /\ ~ IsHidden(s) /\ s.tps = 1
    BY <1>4, <2>2, <2>4 DEF IsHidden
  <2> QED BY <1>6, <2>3, <2>5, <2>6
<1>10. ASSUME kind = "kv" PROVE Good(spec)
  <2>1. PICK t \in Nat \ {0} : t = IF p.slot = 0 THEN tok ELSE 2
    OBVIOUS
  <2>2. PICK s : s = [plain EXCEPT !.tok = t]
    OBVIOUS
  <2>3. spec = s
    BY <1>1, <1>3, <1>4, <1>7, <1>10, <2>1, <2>2 DEF LayerSpec
  <2>5. s \in SpecSet
    BY <1>5, <2>2 DEF SpecSet
  <2>6. s.tok > 0 /\ ~ IsHidden(s) /\ s.tps = 1
    BY <1>4, <2>2 DEF IsHidden
  <2> QED BY <1>6, <2>3, <2>5, <2>6
<1>11. ASSUME kind = "mla" PROVE Good(spec)
  <2>2. PICK s : s = [plain EXCEPT !.cls = "mla", !.tps = 2]
    OBVIOUS
  <2>3. spec = s
    BY <1>1, <1>3, <1>4, <1>7, <1>11, <2>2 DEF LayerSpec
  <2>4. tok > 1
    BY <1>1, <1>11 DEF IsServed
  <2>8. "mla" \in Classes /\ 2 \in Nat \ {0}
    BY DEF Classes, FullClasses
  <2>5. s \in SpecSet
    BY <1>5, <2>2, <2>8 DEF SpecSet
  <2>6. s.tok > 1 /\ ~ IsHidden(s) /\ s.tps = 2
    BY <1>4, <2>2, <2>4 DEF IsHidden
  <2>7. s.tok > 0
    BY <1>4, <2>2
  <2> QED BY <1>6, <2>3, <2>5, <2>6, <2>7
<1>12. ASSUME kind = "ring" PROVE Good(spec)
  <2>2. PICK s : s = [plain EXCEPT !.cls = "circ", !.tok = 1]
    OBVIOUS
  <2>3. spec = s
    BY <1>1, <1>3, <1>4, <1>7, <1>12, <2>2 DEF LayerSpec
  <2>5. s \in SpecSet
    BY <1>5, <2>2 DEF SpecSet, Classes, StateClasses
  <2>6. s.tok > 0 /\ ~ IsHidden(s) /\ s.tps = 1
    BY <1>4, <2>2 DEF IsHidden
  <2> QED BY <1>6, <2>3, <2>5, <2>6
<1>13. ASSUME kind # "full" /\ kind # "skip" /\ kind # "kv" /\ kind # "mla" /\ kind # "ring" PROVE Good(spec)
  <2>1. PICK b \in Nat \ {0} : b = IF c.stateBlock = 0 THEN len ELSE c.stateBlock
    BY <1>2
  <2>8. PICK k \in Nat : k = kind[2] /\ p.states[k] \in Nat \ {0}
    <3>1. kind[2] \in DOMAIN p.states
      BY <1>13 DEF IsServed
    <3>2. PICK s : s = p.states /\ s \in Seq(Nat \ {0})
      BY DEF IsPlatform
    <3> QED BY <3>1, <3>2
  <2>2. PICK t \in Nat \ {0} : t = p.states[kind[2]]
    BY <2>8
  <2>3. PICK rep \in BOOLEAN : rep = (kind[2] > 1)
    <3>1. (kind[2] > 1) = TRUE \/ (kind[2] > 1) = FALSE
      BY <2>8
    <3> QED BY <3>1
  <2>4. PICK s : s = [plain EXCEPT !.cls = "mamba", !.tok = t, !.pad = c.statePad, !.rep = rep, !.bs = b]
    OBVIOUS
  <2>5. spec = s
    BY <1>1, <1>3, <1>4, <1>7, <1>13, <2>1, <2>2, <2>3, <2>4 DEF LayerSpec
  <2>6. s \in SpecSet
    BY <1>2, <1>5, <2>4 DEF SpecSet, Classes, StateClasses
  <2>7. s.tok > 0 /\ ~ IsHidden(s) /\ s.tps = 1
    BY <1>4, <2>4 DEF IsHidden
  <2> QED BY <1>6, <2>5, <2>6, <2>7
<1>14. Good(spec)
  BY <1>8, <1>9, <1>10, <1>11, <1>12, <1>13
<1> QED BY <1>7, <1>14 DEF Good

\* A sequence of layers of which each states a spec.
LEMMA AlignedIsModel ==
  ASSUME NEW ranks, NEW p, IsUnaligned(ranks, p), NEW c \in CacheSet, NEW R, R = DOMAIN ranks
  PROVE  IsModel([r \in R |-> [i \in DOMAIN ranks[r] |->
             [name |-> ranks[r][i].name, idx |-> ranks[r][i].idx,
              spec |-> LayerSpec(ranks[r][i].kind, p, c, ModelLen)]]])
<1> DEFINE at(l) == [name |-> l.name, idx |-> l.idx, spec |-> LayerSpec(l.kind, p, c, ModelLen)]
           aligned(L) == [i \in DOMAIN L |-> at(L[i])]
<1>1. PICK m : m = [r \in R |-> aligned(ranks[r])]
  OBVIOUS
<1>2. PICK n \in Nat : DOMAIN ranks = 1 .. n /\ ToSet(ranks) = {ranks[r] : r \in 1 .. n}
  <2>1. PICK T : T = ToSet(ranks) /\ ranks \in Seq(T)
    BY DEF IsUnaligned
  <2>2. PICK n \in Nat : n = Len(ranks)
    BY <2>1
  <2> QED BY <2>1, <2>2 DEF ToSet
<1>3. ASSUME NEW l, l.idx \in Nat, IsServed(l.kind, p)
      PROVE  IsLayer(at(l)) /\ Positive(at(l).spec) /\ ~ IsHidden(at(l).spec)
  <2>1. ModelLen \in Nat \ {0} /\ IsPlatform(p)
    BY PlanAssumption DEF IsUnaligned
  <2>2. PICK s : s = LayerSpec(l.kind, p, c, ModelLen)
    OBVIOUS
  <2>3. s \in SpecSet /\ Positive(s) /\ ~ IsHidden(s)
    BY <1>3, <2>1, <2>2, LayerSpecIs
  <2> QED BY <1>3, <2>2, <2>3 DEF IsLayer
<1> HIDE DEF at
<1>4. ASSUME NEW r \in 1 .. n
      PROVE  /\ IsLayers(m[r]) /\ \A s \in Specs(m[r]) : Positive(s) /\ ~ IsHidden(s)
  <2>1. PICK L : L = ranks[r]
    OBVIOUS
  <2>2. L \in Seq(ToSet(L)) /\ \A l \in ToSet(L) : l.idx \in Nat /\ IsServed(l.kind, p)
    BY <1>2, <2>1 DEF IsUnaligned
  <2>3. PICK S : S = ToSet(L) /\ L \in Seq(S)
    BY <2>2
  <2>4. PICK k \in Nat : DOMAIN L = 1 .. k /\ \A i \in 1 .. k : L[i] \in S
    BY <2>3
  <2>5. PICK M : M = [i \in 1 .. k |-> at(L[i])]
    OBVIOUS
  <2>6. m[r] = M
    BY <1>1, <1>2, <2>1, <2>4, <2>5
  <2>7. ASSUME NEW i \in 1 .. k
        PROVE  IsLayer(M[i]) /\ Positive(M[i].spec) /\ ~ IsHidden(M[i].spec)
    <3>1. L[i].idx \in Nat /\ IsServed(L[i].kind, p)
      BY <2>2, <2>3, <2>4
    <3> QED BY <1>3, <2>5, <3>1
  <2>8. PICK T : T = {M[i] : i \in 1 .. k}
    OBVIOUS
  <2>9. M \in Seq(T)
    BY <2>5, <2>8, SeqDef
  <2>10. \A l \in T : IsLayer(l) /\ Positive(l.spec) /\ ~ IsHidden(l.spec)
    BY <2>7, <2>8
  <2>11. IsLayers(M) /\ ToSet(M) \subseteq T
    BY <2>9, <2>10, LayersFrom
  <2>12. \A s \in Specs(M) : Positive(s) /\ ~ IsHidden(s)
    BY <2>10, <2>11 DEF Specs
  <2> QED BY <2>6, <2>11, <2>12
<1>5. DOMAIN m = 1 .. n /\ m = [r \in 1 .. n |-> m[r]]
  BY <1>1, <1>2
<1>6. ToSet(m) = {m[r] : r \in 1 .. n}
  BY <1>5 DEF ToSet
<1>7. m \in Seq(ToSet(m))
  <2>1. PICK T : T = {m[r] : r \in 1 .. n}
    OBVIOUS
  <2>2. m \in [1 .. n -> T]
    BY <1>5, <2>1
  <2>3. m \in Seq(T)
    BY <2>2, SeqDef
  <2> QED BY <1>6, <2>1, <2>3
<1>8. \A L \in ToSet(m) : IsLayers(L) /\ \A s \in Specs(L) : Positive(s) /\ ~ IsHidden(s)
  BY <1>4, <1>6
<1>9. ASSUME \E L \in ToSet(m) : L # <<>>
      PROVE  \E L \in ToSet(m) : \E s \in Specs(L) : ~ IsHidden(s)
  <2>1. PICK L \in ToSet(m) : L # <<>>
    BY <1>9
  <2>2. IsLayers(L)
    BY <1>8
  <2>3. L[1].spec \in Specs(L)
    BY <2>1, <2>2, NamesAre
  <2> QED BY <1>8, <2>3
<1>10. IsModel(m)
  BY <1>7, <1>8, <1>9 DEF IsModel
<1> QED BY <1>1, <1>10 DEF at

-----------------------------------------------------------------------------
(* Theorem.                                                                 *)
PlanInv ==
    /\ PoolInv
    /\ phase = "align" => IsUnaligned(model, platform)
    /\ phase = "group" => IsModel(model)

LEMMA PlanInitial == PlanInit => PlanInv
<1> SUFFICES ASSUME PlanInit PROVE PlanInv
  OBVIOUS
<1>1. /\ memory \in [Ranks -> Nat] /\ conf.override \in Nat /\ maxLen = ModelLen
      /\ phase \in {"align", "group"} /\ groups = <<>>
  BY PlanAssumption DEF PlanInit, Ranks
<1>2. ModelLen \in 1 .. ModelLen
  BY PlanAssumption
<1>3. PoolInv
  BY <1>1, <1>2 DEF PoolInv, Grouped, Counted, Checked
<1>4. CASE platform = <<>> /\ model \in Models /\ phase = "group"
  BY <1>3, <1>4, ModelsAssumption DEF PlanInv
<1>5. CASE \E case \in Platforms :
             platform = case.platform /\ model = case.ranks /\ phase = "align"
  BY <1>3, <1>5, PlatformsAssumption DEF PlanInv
<1> QED BY <1>4, <1>5 DEF PlanInit

\* A step after which neither the layers nor the groups are awaited.
LEMMA PlanRaise ==
  ASSUME PlanInv, Raise, Kept PROVE PlanInv'
<1>1. PoolInv'
  BY PoolRaise DEF PlanInv
<1> QED BY <1>1 DEF PlanInv, Raise, Goto

LEMMA PlanAlign ==
  ASSUME PlanInv, Align, Kept PROVE PlanInv'
<1>1. phase = "align" /\ IsUnaligned(model, platform)
  BY DEF Align, PlanInv
<1>2. CASE Raise
  BY <1>2, PlanRaise
<1>3. CASE /\ model' = [r \in Ranks |-> [i \in DOMAIN model[r] |->
                 [name |-> model[r][i].name, idx |-> model[r][i].idx,
                  spec |-> LayerSpec(model[r][i].kind, platform, CacheConfig, ModelLen)]]]
           /\ Goto("group") /\ UNCHANGED <<groups, maxLen, configs, sizes>>
  <2>1. PICK c \in CacheSet : c = CacheConfig
    BY <1>1, BackendSizes DEF CacheConfig, IsUnaligned
  <2>2. IsModel(model')
    BY <1>1, <1>3, <2>1, AlignedIsModel DEF Ranks
  <2>3. Ranks' = Ranks
    BY <1>3 DEF Ranks
  <2>4. PoolInv'
    BY <1>1, <1>3, <2>3 DEF PlanInv, PoolInv, Grouped, Counted, Checked, Kept, Goto
  <2> QED BY <1>3, <2>2, <2>4 DEF PlanInv, Goto
<1> QED BY <1>2, <1>3 DEF Align

LEMMA PlanGroup ==
  ASSUME PlanInv, Group, Kept PROVE PlanInv'
<1>1. phase = "group" /\ IsModel(model) /\ PoolInv
  BY DEF Group, PlanInv
<1>2. CASE Raise
  BY <1>2, PlanRaise
<1>3. CASE /\ get_kv_cache_groups(Layers, conf, RankNames).ok
           /\ groups' = get_kv_cache_groups(Layers, conf, RankNames).groups
           /\ Goto("autofit") /\ UNCHANGED <<model, maxLen, configs, sizes>>
  <2>1. /\ IsLayers(Layers) /\ \A s \in Specs(Layers) : Positive(s)
        /\ Layers = <<>> \/ \E s \in Specs(Layers) : ~ IsHidden(s)
        /\ Layers # <<>> => model # <<>>
    BY <1>1, ModelLayers DEF Layers
  <2>2. PICK out : out = get_kv_cache_groups(Layers, conf, RankNames)
    OBVIOUS
  <2>3. GroupsWell(out) /\ (Layers = <<>> => ~ out.ok \/ out.groups = <<>>)
    BY <2>1, <2>2, GroupsAreWell
  <2>4. AreWell(groups', FALSE)
    BY <1>3, <2>2, <2>3 DEF GroupsWell
  <2>5. WellGroups'
    <3>1. IsWell(groups')
      BY <2>4, WellIs
    <3> QED BY <3>1 DEF WellGroups, IsWell, WellGroup
  <2>6. groups' # <<>> => 1 \in Ranks'
    <3> SUFFICES ASSUME groups' # <<>> PROVE 1 \in Ranks'
      OBVIOUS
    <3>1. model # <<>>
      BY <1>3, <2>1, <2>2, <2>3
    <3>2. PICK T : T = ToSet(model) /\ model \in Seq(T)
      BY <1>1 DEF IsModel
    <3>3. 1 \in DOMAIN model
      BY <3>1, <3>2, EmptySeq
    <3> QED BY <1>3, <3>3 DEF Ranks
  <2>7. /\ memory' \in [Ranks' -> Nat] /\ conf'.override \in Nat
        /\ maxLen' = ModelLen /\ maxLen' \in 1 .. ModelLen /\ phase' = "autofit"
    BY <1>1, <1>3 DEF PoolInv, Kept, Goto, Ranks
  <2>8. PoolInv'
    BY <2>5, <2>6, <2>7 DEF PoolInv, Grouped, Counted, Checked
  <2> QED BY <2>7, <2>8 DEF PlanInv
<1> QED BY <1>2, <1>3 DEF Group

LEMMA PlanStutter ==
  ASSUME PlanInv, UNCHANGED planVars PROVE PlanInv'
<1>1. UNCHANGED <<model, conf, memory, groups>> /\ UNCHANGED <<platform, phase, maxLen, configs>>
  BY DEF planVars
<1>2. PICK m : m = maxLen
  OBVIOUS
<1>3. \A r : /\ Ranks' = Ranks /\ BytesPerBlock(r)' = BytesPerBlock(r)
             /\ Fits(r, m)' = Fits(r, m) /\ Fits(r, m + 1)' = Fits(r, m + 1)
             /\ Own(r)' = Own(r) /\ WellGroups' = WellGroups
  BY <1>1, PlanFrame
<1>4. Longest' = Longest
  BY <1>1, <1>2, <1>3 DEF Longest
<1>5. Poorest' = Poorest
  BY <1>3 DEF Poorest
<1>6. Grouped' = Grouped /\ Counted' = Counted /\ Checked' = Checked
  BY <1>1 DEF Grouped, Counted, Checked
<1>7. PoolInv'
  BY <1>1, <1>2, <1>3, <1>4, <1>5, <1>6 DEF PlanInv, PoolInv
<1> QED BY <1>1, <1>7 DEF PlanInv

\* A phase behind the groups asks for nothing but PoolInv.
LEMMA PlanLater ==
  ASSUME PoolInv', phase' \notin {"align", "group"} PROVE PlanInv'
BY DEF PlanInv

(* Whatever layers, ranks and memories the planner is given, and whichever  *)
(* sizes a platform settles on, the pool it serves is the same on every     *)
(* rank and holds a request of max_model_len tokens beside the null block.  *)
THEOREM PoolAlwaysHolds == PlanSpec => []PoolHoldsOneRequest
<1>1. PlanInit => PlanInv
  BY PlanInitial
<1>2. PlanInv /\ [PlanNext]_planVars => PlanInv'
  <2> SUFFICES ASSUME PlanInv, [PlanNext]_planVars PROVE PlanInv'
    OBVIOUS
  <2>1. CASE UNCHANGED planVars
    BY <2>1, PlanStutter
  <2>2. CASE PlanNext
    <3>1. Kept /\ PoolInv
      BY <2>2 DEF PlanNext, Kept, PlanInv
    <3>2. CASE Align
      BY <3>1, <3>2, PlanAlign
    <3>3. CASE Group
      BY <3>1, <3>3, PlanGroup
    <3>4. CASE AutoFit
      <4>1. phase' \in {"raised", "check"}
        BY <3>4 DEF AutoFit, Raise, Goto
      <4> QED BY <3>1, <3>4, <4>1, PoolAutoFit, PlanLater
    <3>5. CASE Check
      <4>1. phase' \in {"raised", "plan"}
        BY <3>5 DEF Check, Raise, Goto
      <4> QED BY <3>1, <3>5, <4>1, PoolCheck, PlanLater
    <3>6. CASE Plan
      <4>1. phase' \in {"raised", "shrink"}
        BY <3>6 DEF Plan, Raise, Goto
      <4> QED BY <3>1, <3>6, <4>1, PoolPlan, PlanLater
    <3>7. CASE Shrink
      <4>1. phase' = "sizes"
        BY <3>7 DEF Shrink, Goto
      <4> QED BY <3>1, <3>7, <4>1, PoolShrink, PlanLater
    <3>8. CASE ResolveSizes
      <4>1. phase' \in {"ready", "raised"}
        BY <3>8 DEF ResolveSizes, Goto
      <4> QED BY <3>1, <3>8, <4>1, PoolResolve, PlanLater
    <3> QED BY <2>2, <3>2, <3>3, <3>4, <3>5, <3>6, <3>7, <3>8 DEF PlanNext
  <2> QED BY <2>1, <2>2
<1>3. PlanInv => PoolHoldsOneRequest
  BY PoolFollows DEF PlanInv
<1> QED BY <1>1, <1>2, <1>3, PTL DEF PlanSpec
=============================================================================
