--------------------------- MODULE WorkerBootProofs ---------------------------
(***************************************************************************)
(* Proofs about WorkerBoot for any configurations, any sizes of memory and *)
(* any moves of the other processes.                                       *)
(***************************************************************************)
EXTENDS WorkerBoot, FiniteSetTheorems, SequenceTheorems, NaturalsInduction, TLAPS

-----------------------------------------------------------------------------
(* Numbers.                                                                *)

LEMMA LeastNatural ==
  ASSUME NEW T \in SUBSET Nat, T # {}
  PROVE  \E m \in T : \A k \in T : m <= k
<1> DEFINE R == OpToRel(<, Nat)
<1>1. IsWellFoundedOn(R, Nat)
  BY NatLessThanWellFounded
<1>2. \A x, y \in Nat : x < y => <<x, y>> \in R
  BY DEF OpToRel
<1> HIDE DEF R
<1>3. PICK m \in T : \A y \in T : ~ (<<y, m>> \in R)
  BY <1>1, WFMin
<1>4. ASSUME NEW k \in T PROVE m <= k
  <2>1. m \in Nat /\ k \in Nat
    OBVIOUS
  <2>2. ~ (k < m)
    BY <1>2, <1>3, <2>1
  <2> QED BY <2>1, <2>2
<1> QED BY <1>4

LEMMA SetInduction ==
  ASSUME NEW T \in SUBSET Nat, 0 \in T, \A n \in T : n + 1 \in T
  PROVE  T = Nat
<1> SUFFICES ASSUME Nat \ T # {} PROVE FALSE
  OBVIOUS
<1>1. PICK m \in Nat \ T : \A k \in Nat \ T : m <= k
  BY LeastNatural
<1>2. m # 0 /\ m - 1 \in Nat /\ (m - 1) + 1 = m
  OBVIOUS
<1>3. m - 1 \in T
  BY <1>1, <1>2
<1> QED BY <1>2, <1>3

LEMMA GreatestNatural ==
  ASSUME NEW T \in SUBSET Nat, T # {}, NEW n \in Nat, \A k \in T : k <= n
  PROVE  \E m \in T : \A k \in T : k <= m
<1> DEFINE U == {j \in Nat : \E k \in T : j = n - k}
<1>1. U \in SUBSET Nat
  OBVIOUS
<1>2. \A k \in T : n - k \in U
  OBVIOUS
<1>3. U # {}
  BY <1>2
<1>4. PICK j \in U : \A i \in U : j <= i
  <2> HIDE DEF U
  <2> QED BY <1>1, <1>3, LeastNatural
<1>5. PICK m \in T : j = n - m
  OBVIOUS
<1>6. ASSUME NEW k \in T PROVE k <= m
  <2>1. j <= n - k
    BY <1>2, <1>4
  <2>2. k \in Nat /\ m \in Nat
    OBVIOUS
  <2> QED BY <2>1, <2>2, <1>5
<1> QED BY <1>6

LEMMA MaxOfTwo ==
  ASSUME NEW a \in Int, NEW b \in Int
  PROVE  Max({a, b}) = IF a >= b THEN a ELSE b
<1>1. \E x \in {a, b} : \A y \in {a, b} : x >= y
  OBVIOUS
<1>2. Max({a, b}) \in {a, b} /\ \A y \in {a, b} : Max({a, b}) >= y
  BY <1>1 DEF Max
<1> QED BY <1>2

LEMMA LeastIs ==
  ASSUME NEW a \in Int, NEW b \in Int
  PROVE  /\ Least(a, b) \in {a, b} /\ Least(a, b) <= a /\ Least(a, b) <= b
         /\ a <= b => Least(a, b) = a
         /\ b <= a => Least(a, b) = b
BY DEF Least

LEMMA TimesGrows ==
  ASSUME NEW a \in Nat, NEW b \in Nat, NEW d \in Nat, a <= b
  PROVE  d * a <= d * b /\ d * a \in Nat /\ d * b \in Nat
<1>1. PICK e \in Nat : b = a + e
  <2>1. b - a \in Nat /\ b = a + (b - a)
    OBVIOUS
  <2> QED BY <2>1
<1>2. d * b = d * a + d * e /\ d * a \in Nat /\ d * e \in Nat
  BY <1>1
<1> QED BY <1>2

LEMMA DivIs ==
  ASSUME NEW n \in Nat, NEW k \in Nat, k > 0
  PROVE  n \div k \in Nat /\ (n \div k) * k <= n /\ n < (n \div k) * k + k
OBVIOUS

LEMMA RoundUpIs ==
  ASSUME NEW n \in Nat, NEW k \in Nat, k > 0, n > 0
  PROVE  /\ RoundUp(n, k) \div k \in Nat /\ RoundUp(n, k) \div k > 0
         /\ RoundUp(n, k) = (RoundUp(n, k) \div k) * k /\ RoundUp(n, k) >= n
         /\ RoundUp(n, k) \in Nat
<1>1. PICK j : j = (n + k - 1) \div k
  OBVIOUS
<1>2. PICK e : e = n + k - 1
  OBVIOUS
<1>3. e \in Nat /\ j = e \div k
  BY <1>1, <1>2
<1>4. j \in Nat /\ j * k <= e /\ e < j * k + k
  BY <1>3, DivIs
<1>5. PICK m : m = j * k
  OBVIOUS
<1>6. m \in Nat /\ m >= n /\ m < n + k /\ m = RoundUp(n, k)
  BY <1>1, <1>2, <1>4, <1>5 DEF RoundUp
<1>7. j > 0
  <2> SUFFICES ASSUME j = 0 PROVE FALSE
    BY <1>4
  <2>1. m = 0
    BY <1>5
  <2> QED BY <2>1, <1>6
<1>8. m \div k = j
  BY <1>4, <1>5
<1> QED BY <1>4, <1>5, <1>6, <1>7, <1>8

-----------------------------------------------------------------------------
(* The graphs of a manager.                                                *)

\* A graph for up to maxReqs requests of any length, or of any up to queryLen.
AnyShape(d, m) ==
    /\ d.uniform = 0 /\ d.query = (IF m.mode = "FULL" THEN 0 ELSE m.queryLen)
    /\ d.reqs = Smaller(d.tokens, m.maxReqs)
\* A graph for d.reqs requests of d.uniform tokens each.
EvenShape(d, m) ==
    /\ d.uniform \in m.queryLens /\ d.query = 0 /\ d.reqs \in 1 .. m.maxReqs
    /\ d.tokens = d.reqs * d.uniform

FullShape(d, m) ==
    \/ (m.mode = "FULL" \/ m.varlen) /\ AnyShape(d, m)
    \/ m.mode # "FULL" /\ ~m.varlen /\ EvenShape(d, m)

DescOK(d, m) ==
    /\ d.tokens \in 1 .. m.maxSize /\ d.loras \in m.loras
    /\ \/ d.mode = "PIECEWISE" /\ d.uniform = 0 /\ d.query = 0 /\ d.reqs = 0
       \/ d.mode = "FULL" /\ FullShape(d, m)

LEMMA DescIs ==
  ASSUME NEW m, IsManager(m), NEW d \in capture_descs(m)
  PROVE  DescOK(d, m)
<1>1. /\ m.mode \in {"NONE", "PIECEWISE", "FULL", "FULL_DECODE_ONLY", "FULL_AND_PIECEWISE"}
      /\ m.maxSize \in Nat /\ m.sizes \subseteq 1 .. m.maxSize /\ m.queryLens \subseteq Nat
      /\ m.maxReqs \in Nat /\ m.maxReqs > 0 /\ \A q \in m.queryLens : q > 0
  BY DEF IsManager
<1>2. CASE d \in MixedDescs(m) /\ mixed_mode(m) # "NONE"
  <2>1. PICK n \in m.sizes, l \in m.loras :
          d = [mode |-> mixed_mode(m), tokens |-> n,
               reqs |-> IF mixed_mode(m) = "FULL" THEN Smaller(n, m.maxReqs) ELSE 0,
               uniform |-> 0, query |-> 0, loras |-> l]
    BY <1>2 DEF MixedDescs
  <2>2. mixed_mode(m) = "PIECEWISE" \/ (mixed_mode(m) = "FULL" /\ m.mode = "FULL")
    BY <1>1, <1>2 DEF mixed_mode
  <2> QED BY <2>1, <2>2, <1>1 DEF DescOK, FullShape, AnyShape
<1>3. CASE separate_routine(m) /\ m.varlen /\ d \in VarlenDescs(m)
  <2>1. PICK n \in m.sizes, l \in m.loras :
          d = [mode |-> "FULL", tokens |-> n, reqs |-> Smaller(n, m.maxReqs), uniform |-> 0,
               query |-> m.queryLen, loras |-> l]
    BY <1>3 DEF VarlenDescs
  <2>2. m.mode # "FULL"
    BY <1>3 DEF separate_routine
  <2> QED BY <2>1, <2>2, <1>1, <1>3 DEF DescOK, FullShape, AnyShape
<1>4. CASE separate_routine(m) /\ ~m.varlen /\ d \in UniformDescs(m)
  <2>1. PICK n \in m.sizes, q \in m.queryLens, l \in m.loras :
          d = [mode |-> "FULL", tokens |-> RoundUp(n, q), reqs |-> RoundUp(n, q) \div q,
               uniform |-> q, query |-> 0, loras |-> l]
    BY <1>4 DEF UniformDescs
  <2>2. d.tokens <= m.maxSize /\ d.reqs <= m.maxReqs
    BY <1>4 DEF UniformDescs
  <2>3. n \in Nat /\ n > 0 /\ q \in Nat /\ q > 0
    BY <1>1
  <2>4. PICK t, r : t = RoundUp(n, q) /\ r = t \div q
    OBVIOUS
  <2>5. r \in Nat /\ r > 0 /\ t = r * q /\ t >= n /\ t \in Nat
    BY <2>3, <2>4, RoundUpIs
  <2>6. /\ d.mode = "FULL" /\ d.tokens = t /\ d.reqs = r /\ d.uniform = q /\ d.query = 0
        /\ d.loras = l
    BY <2>1, <2>4
  <2>7. m.mode # "FULL"
    BY <1>4 DEF separate_routine
  <2>8. EvenShape(d, m)
    BY <2>2, <2>5, <2>6, <1>1 DEF EvenShape
  <2>9. d.tokens \in 1 .. m.maxSize
    BY <2>2, <2>3, <2>5, <2>6, <1>1
  <2> QED BY <2>6, <2>7, <2>8, <2>9, <1>4 DEF DescOK, FullShape
<1> QED BY <1>2, <1>3, <1>4 DEF capture_descs

LEMMA GreatestOfFinite ==
  ASSUME NEW S \in SUBSET Nat, S # {}, IsFiniteSet(S)
  PROVE  \E m \in S : \A k \in S : k <= m
<1>1. PICK n \in Nat : ExistsSurjection(1 .. n, S)
  BY FS_NatSurjection
<1>2. PICK f \in [1 .. n -> S] : \A s \in S : \E i \in 1 .. n : f[i] = s
  BY <1>1 DEF ExistsSurjection, Surjection
<1>3. n > 0
  <2>1. PICK s \in S : TRUE
    OBVIOUS
  <2>2. PICK i \in 1 .. n : f[i] = s
    BY <1>2
  <2> QED BY <2>2
<1>a. \A j \in 1 .. n : f[j] \in Nat
  OBVIOUS
<1> DEFINE T == {k \in Nat : k + 1 <= n =>
                              \E i \in 1 .. n : \A j \in 1 .. k + 1 : f[j] <= f[i]}
<1>4. 0 \in T
  <2>1. 1 \in 1 .. n /\ \A j \in 1 .. 0 + 1 : j = 1
    BY <1>3
  <2>2. f[1] \in Nat
    BY <2>1, <1>a
  <2> QED BY <2>1, <2>2
<1>5. ASSUME NEW k \in T PROVE k + 1 \in T
  <2> SUFFICES ASSUME (k + 1) + 1 <= n
               PROVE  \E i \in 1 .. n : \A j \in 1 .. (k + 1) + 1 : f[j] <= f[i]
    OBVIOUS
  <2>1. PICK i \in 1 .. n : \A j \in 1 .. k + 1 : f[j] <= f[i]
    OBVIOUS
  <2>2. PICK e : e = k + 2
    OBVIOUS
  <2>3. e \in 1 .. n /\ f[e] \in Nat /\ f[i] \in Nat
    BY <2>2, <1>a
  <2>4. \A j \in 1 .. (k + 1) + 1 : j \in 1 .. n /\ (j \in 1 .. k + 1 \/ j = e)
    BY <2>2
  <2>5. CASE f[e] <= f[i]
    BY <2>1, <2>4, <2>5
  <2>6. CASE ~ (f[e] <= f[i])
    <3>1. ASSUME NEW j \in 1 .. (k + 1) + 1 PROVE f[j] <= f[e]
      <4>1. j \in 1 .. n /\ f[j] \in Nat
        BY <2>4, <1>a
      <4>2. CASE j = e
        BY <4>1, <4>2
      <4>3. CASE j \in 1 .. k + 1
        <5>1. f[j] <= f[i]
          BY <2>1, <4>3
        <5> QED BY <5>1, <4>1, <2>3, <2>6
      <4> QED BY <2>4, <4>2, <4>3
    <3> QED BY <3>1, <2>3
  <2> QED BY <2>5, <2>6
<1>6. T = Nat
  <2>1. T \in SUBSET Nat
    OBVIOUS
  <2> HIDE DEF T
  <2> QED BY <2>1, <1>4, <1>5, SetInduction
<1>7. PICK k \in Nat : k + 1 = n
  <2>1. n - 1 \in Nat /\ (n - 1) + 1 = n
    BY <1>3
  <2> QED BY <2>1
<1>8. k \in T
  BY <1>6
<1>9. PICK i \in 1 .. n : \A j \in 1 .. k + 1 : f[j] <= f[i]
  BY <1>7, <1>8
<1> QED BY <1>2, <1>7, <1>9

\* A case that holds n adapters is taken, if there is one.
LEMMA LorasHold ==
  ASSUME NEW m, IsManager(m), NEW n \in Nat,
         n = 0 \/ m.loras \subseteq {0} \/ \E c \in m.loras : n <= c
  PROVE  _resolve_effective_loras(m, n) \in Nat /\ _resolve_effective_loras(m, n) >= n
<1> DEFINE cases == {c \in m.loras : c > 0}
<1>1. m.loras \subseteq Nat /\ IsFiniteSet(m.loras)
  BY DEF IsManager
<1>2. CASE n <= 0 \/ cases = {}
  BY <1>2 DEF _resolve_effective_loras
<1>3. CASE ~ (n <= 0 \/ cases = {})
  <2>1. PICK c \in m.loras : n <= c
    BY <1>3
  <2>2. c \in cases /\ cases \subseteq Nat /\ IsFiniteSet(cases)
    <3>1. cases \in SUBSET m.loras
      OBVIOUS
    <3>2. IsFiniteSet(cases)
      BY <3>1, <1>1, FS_Subset
    <3> QED BY <3>2, <2>1, <1>1, <1>3
  <2> DEFINE over == {x \in cases : x >= n}
  <2>3. _resolve_effective_loras(m, n) = IF n > Max(cases) THEN Max(cases) ELSE Min(over)
    BY <1>3 DEF _resolve_effective_loras
  <2>4. c \in over /\ over \subseteq Nat
    BY <2>1, <2>2, <1>1
  <2> HIDE DEF cases
  <2>5. \E x \in cases : \A y \in cases : y <= x
    BY <2>2, GreatestOfFinite
  <2>6. Max(cases) \in cases /\ Max(cases) >= c
    <3>1. \E x \in cases : \A y \in cases : x >= y
      BY <2>2, <2>5
    <3> QED BY <3>1, <2>2 DEF Max
  <2>7. ~ (n > Max(cases))
    <3>1. PICK x : x = Max(cases)
      OBVIOUS
    <3>2. x \in Nat /\ c \in Nat /\ x >= c /\ n <= c
      BY <3>1, <2>1, <2>2, <2>6, <1>1
    <3> QED BY <3>1, <3>2
  <2>8. Min(over) \in over
    <3>1. \E x \in over : \A y \in over : x <= y
      BY <2>4, LeastNatural
    <3> QED BY <3>1 DEF Min
  <2> QED BY <2>2, <2>3, <2>7, <2>8
<1> QED BY <1>2, <1>3

-----------------------------------------------------------------------------
(* Dispatch.                                                               *)

\* A batch of at most maxReqs requests, all of b.uniform tokens if that is not 0.
IsBatch(b, m) ==
    /\ b.reqs \in 1 .. m.maxReqs /\ b.tokens \in Nat /\ b.reqs <= b.tokens
    /\ b.query \in Nat /\ b.loras \in Nat
    /\ b.uniform # 0 => b.query = b.uniform /\ b.tokens = b.reqs * b.uniform

LEMMA CandidateBelow ==
  ASSUME NEW m, IsManager(m), NEW e \in capture_descs(m), NEW n \in Nat, n <= e.tokens
  PROVE  \E f \in Candidates(m, e.mode, n, e.loras) : f.tokens <= e.tokens
<1> DEFINE fits == {d \in capture_descs(m) : d.mode = e.mode /\ d.loras = e.loras /\ n <= d.tokens}
           sizes == {d.tokens : d \in fits}
<1>1. \A d \in capture_descs(m) : d.tokens \in Nat
  <2>1. m.maxSize \in Nat
    BY DEF IsManager
  <2> QED BY <2>1, DescIs DEF DescOK
<1>2. sizes \in SUBSET Nat /\ e.tokens \in sizes
  BY <1>1
<1>3. PICK t \in sizes : \A u \in sizes : t <= u
  <2> HIDE DEF sizes
  <2> QED BY <1>2, LeastNatural
<1>4. PICK f \in fits : f.tokens = t
  OBVIOUS
<1>5. \A d \in fits : f.tokens <= d.tokens
  BY <1>3, <1>4
<1>6. f \in Candidates(m, e.mode, n, e.loras)
  BY <1>4, <1>5 DEF Candidates
<1> QED BY <1>5, <1>6

LEMMA TimesCancels ==
  ASSUME NEW a \in Nat, NEW b \in Nat, NEW d \in Nat, d > 0, a * d <= b * d
  PROVE  a <= b
<1> SUFFICES ASSUME b + 1 <= a PROVE FALSE
  OBVIOUS
<1>1. d * (b + 1) <= d * a
  BY TimesGrows
<1>2. d * (b + 1) = b * d + d /\ d * a = a * d
  OBVIOUS
<1>3. PICK x, y : x = b * d /\ y = a * d
  OBVIOUS
<1>4. x \in Nat /\ y \in Nat
  BY <1>3
<1> QED BY <1>1, <1>2, <1>3, <1>4

\* Among the graphs of a mode the smallest that is large enough fits if one does.
LEMMA SmallestFits ==
  ASSUME NEW m, IsManager(m), m.queryLens = {m.queryLen}, NEW b, IsBatch(b, m), NEW l,
         NEW e \in capture_descs(m), _is_compatible(e, b, l),
         NEW f \in capture_descs(m), f.mode = e.mode, f.loras = l, b.tokens <= f.tokens
  PROVE  _is_compatible(f, b, l)
<1>1. DescOK(e, m) /\ DescOK(f, m)
  BY DescIs
<1>2. /\ m.maxReqs \in Nat /\ m.queryLen \in Nat /\ m.queryLen > 0 /\ m.maxSize \in Nat
  BY DEF IsManager
<1>3. /\ b.reqs \in 1 .. m.maxReqs /\ b.tokens \in Nat /\ b.reqs <= b.tokens /\ b.query \in Nat
      /\ b.uniform # 0 => b.query = b.uniform /\ b.tokens = b.reqs * b.uniform
  BY DEF IsBatch
<1>4. f.tokens \in Nat /\ f.tokens >= b.tokens
  BY <1>1, <1>2, <1>3 DEF DescOK
<1>5. /\ e.uniform \in {0, b.uniform}
      /\ e.query = 0 \/ (b.query # 0 /\ e.query >= b.query)
  BY DEF _is_compatible
<1>6. CASE f.mode = "PIECEWISE"
  BY <1>1, <1>4, <1>6 DEF DescOK, _is_compatible
<1>7. CASE f.mode # "PIECEWISE"
  <2>1. FullShape(e, m) /\ FullShape(f, m)
    BY <1>1, <1>7 DEF DescOK
  <2>2. CASE AnyShape(e, m) /\ AnyShape(f, m)
    <3>1. f.query = e.query /\ f.uniform = 0 /\ f.reqs = Smaller(f.tokens, m.maxReqs)
      BY <2>2 DEF AnyShape
    <3>2. f.reqs >= b.reqs
      BY <3>1, <1>2, <1>3, <1>4 DEF Smaller
    <3> QED BY <3>1, <3>2, <1>4, <1>5 DEF _is_compatible
  <2>3. CASE EvenShape(e, m) /\ EvenShape(f, m)
    <3>1. PICK q : q = m.queryLen
      OBVIOUS
    <3>2. /\ q \in Nat /\ q > 0 /\ e.uniform = q /\ f.uniform = q /\ f.query = 0
          /\ f.reqs \in Nat /\ f.tokens = f.reqs * q
      BY <3>1, <2>3, <1>2 DEF EvenShape
    <3>3. b.uniform = q /\ b.tokens = b.reqs * q /\ b.reqs \in Nat
      BY <3>2, <1>3, <1>5
    <3>4. b.reqs <= f.reqs
      BY <3>2, <3>3, <1>4, TimesCancels
    <3> QED BY <3>2, <3>3, <3>4, <1>3, <1>4 DEF _is_compatible
  <2> QED BY <2>1, <2>2, <2>3 DEF FullShape
<1> QED BY <1>6, <1>7

\* What a candidate that fits is.
Fit(m, mode, b, l) == {d \in Candidates(m, mode, b.tokens, l) : _is_compatible(d, b, l)}

LEMMA FitServes ==
  ASSUME NEW m, IsManager(m), NEW b, IsBatch(b, m), NEW l \in Nat, l >= b.loras,
         NEW mode, NEW d \in Fit(m, mode, b, l)
  PROVE  /\ d \in capture_descs(m) /\ d.mode = mode /\ d.loras = l /\ Serves(d, b)
         /\ d.mode \in {"FULL", "PIECEWISE"}
         /\ \A e \in capture_descs(m) :
              e.mode = mode /\ e.loras = l /\ b.tokens <= e.tokens => d.tokens <= e.tokens
<1>1. /\ d \in capture_descs(m) /\ d.mode = mode /\ d.loras = l /\ b.tokens <= d.tokens
      /\ _is_compatible(d, b, l)
      /\ \A e \in capture_descs(m) :
            e.mode = mode /\ e.loras = l /\ b.tokens <= e.tokens => d.tokens <= e.tokens
  BY DEF Fit, Candidates
<1>2. DescOK(d, m)
  BY <1>1, DescIs
<1>3. /\ m.maxReqs \in Nat /\ m.queryLen \in Nat /\ m.queryLen > 0 /\ m.maxSize \in Nat
      /\ m.queryLens \subseteq Nat \ {0}
  BY DEF IsManager
<1>4. /\ b.reqs \in 1 .. m.maxReqs /\ b.tokens \in Nat /\ b.reqs <= b.tokens /\ b.query \in Nat
      /\ b.uniform # 0 => b.query = b.uniform /\ b.tokens = b.reqs * b.uniform
  BY DEF IsBatch
<1>5. d.tokens \in Nat /\ d.tokens > 0
  BY <1>2, <1>3 DEF DescOK
<1>6. /\ d.uniform \in {0, b.uniform}
      /\ d.reqs = 0 \/ d.reqs >= b.reqs
      /\ d.query = 0 \/ (b.query # 0 /\ d.query >= b.query)
  BY <1>1 DEF _is_compatible
<1>7. CASE d.mode = "PIECEWISE"
  <2>1. d.tokens >= b.tokens /\ d.loras >= b.loras
    BY <1>1, <1>4, <1>5
  <2> QED BY <2>1, <1>1, <1>7 DEF Serves
<1>8. CASE d.mode # "PIECEWISE"
  <2>1. d.mode = "FULL" /\ FullShape(d, m)
    BY <1>2, <1>8 DEF DescOK
  <2>2. d.reqs \in Nat /\ d.reqs > 0 /\ d.query \in Nat
    <3>1. CASE AnyShape(d, m)
      BY <3>1, <1>3, <1>4, <1>5 DEF AnyShape, Smaller
    <3>2. CASE EvenShape(d, m)
      BY <3>2, <1>3 DEF EvenShape
    <3> QED BY <3>1, <3>2, <2>1 DEF FullShape
  <2>3. d.reqs >= b.reqs /\ (d.query # 0 => b.query <= d.query)
    BY <2>2, <1>4, <1>6
  <2>4. d.uniform # 0 => b.query = d.uniform /\ b.tokens = b.reqs * d.uniform
    BY <1>4, <1>6
  <2>5. d.tokens >= b.tokens /\ d.loras >= b.loras
    BY <1>1, <1>4, <1>5
  <2> QED BY <2>1, <2>3, <2>4, <2>5, <1>1 DEF Serves
<1> QED BY <1>1, <1>7, <1>8

LEMMA FitFound ==
  ASSUME NEW m, IsManager(m), m.queryLens = {m.queryLen}, NEW b, IsBatch(b, m), NEW l,
         NEW e \in capture_descs(m), _is_compatible(e, b, l)
  PROVE  Fit(m, e.mode, b, l) # {}
<1>1. b.tokens \in Nat /\ e.tokens >= b.tokens /\ e.loras = l
  BY DEF IsBatch, _is_compatible
<1>2. e.tokens \in Nat
  <2>1. m.maxSize \in Nat
    BY DEF IsManager
  <2> QED BY <2>1, DescIs DEF DescOK
<1>3. PICK f \in Candidates(m, e.mode, b.tokens, e.loras) : f.tokens <= e.tokens
  BY <1>1, <1>2, CandidateBelow
<1>4. f \in capture_descs(m) /\ f.mode = e.mode /\ f.loras = l /\ b.tokens <= f.tokens
  BY <1>1, <1>3 DEF Candidates
<1>5. _is_compatible(f, b, l)
  BY <1>4, SmallestFits
<1> QED BY <1>1, <1>3, <1>5 DEF Fit

\* The conditions of BatchGetsItsGraph on a batch b and what it is dispatched to.
Suits(m, recorded, b, d) ==
    /\ Serves(d, b)
    /\ d.mode # "NONE" => d \in recorded
    /\ m.queryLens = {m.queryLen} =>
         \A e \in recorded :
            /\ _is_compatible(e, b, _resolve_effective_loras(m, b.loras))
            /\ Serves(e, b)
            => ~Better(e, d)

\* What dispatch comes to.
Chosen(m, c, b, l, d) ==
    \/ c /\ b.tokens > 0 /\ d \in Fit(m, "FULL", b, l)
    \/ c /\ b.tokens > 0 /\ Fit(m, "FULL", b, l) = {} /\ d \in Fit(m, "PIECEWISE", b, l)
    \/ /\ ~c \/ ~(b.tokens > 0) \/ (Fit(m, "FULL", b, l) = {} /\ Fit(m, "PIECEWISE", b, l) = {})
       /\ d = [mode |-> "NONE", tokens |-> b.tokens, reqs |-> b.reqs, uniform |-> 0,
               query |-> 0, loras |-> l]

LEMMA DispatchIs ==
  ASSUME NEW m, NEW c \in BOOLEAN, NEW b, NEW l, l = _resolve_effective_loras(m, b.loras),
         NEW d, d = dispatch(m, c, b)
  PROVE  Chosen(m, c, b, l, d)
<1>1. PICK F, Q : F = Fit(m, "FULL", b, l) /\ Q = Fit(m, "PIECEWISE", b, l)
  OBVIOUS
<1>2. d = IF c /\ b.tokens > 0 /\ F # {} THEN CHOOSE x \in F : TRUE
          ELSE IF c /\ b.tokens > 0 /\ Q # {} THEN CHOOSE x \in Q : TRUE
          ELSE [mode |-> "NONE", tokens |-> b.tokens, reqs |-> b.reqs, uniform |-> 0,
                query |-> 0, loras |-> l]
  BY <1>1 DEF dispatch, Fit
<1> QED BY <1>1, <1>2 DEF Chosen

LEMMA DispatchSuits ==
  ASSUME NEW m, IsManager(m), NEW b, IsBatch(b, m),
         b.loras = 0 \/ m.loras \subseteq {0} \/ \E n \in m.loras : b.loras <= n,
         NEW G, G = {} \/ G = capture_descs(m), NEW c \in BOOLEAN, c <=> G # {}
  PROVE  Suits(m, G, b, dispatch(m, c, b))
<1>1. PICK l, d : l = _resolve_effective_loras(m, b.loras) /\ d = dispatch(m, c, b)
  OBVIOUS
<1>2. b.loras \in Nat /\ b.tokens \in Nat /\ b.reqs \in Nat /\ b.reqs > 0 /\ b.reqs <= b.tokens
  BY DEF IsBatch, IsManager
<1>3. l \in Nat /\ l >= b.loras
  BY <1>1, <1>2, LorasHold
<1>4. b.tokens > 0
  BY <1>2
<1>5. CASE c /\ \E mode \in {"FULL", "PIECEWISE"} : 
              d \in Fit(m, mode, b, l) /\ (mode # "FULL" => Fit(m, "FULL", b, l) = {})
  <2>1. PICK mode \in {"FULL", "PIECEWISE"} :
              d \in Fit(m, mode, b, l) /\ (mode # "FULL" => Fit(m, "FULL", b, l) = {})
    BY <1>5
  <2>2. /\ d \in capture_descs(m) /\ d.mode = mode /\ d.loras = l /\ Serves(d, b)
        /\ d.mode \in {"FULL", "PIECEWISE"}
        /\ \A e \in capture_descs(m) :
              e.mode = mode /\ e.loras = l /\ b.tokens <= e.tokens => d.tokens <= e.tokens
    BY <2>1, <1>3, FitServes
  <2>3. G = capture_descs(m)
    BY <1>5
  <2>4. ASSUME m.queryLens = {m.queryLen}, NEW e \in G, _is_compatible(e, b, l)
        PROVE  ~Better(e, d)
    <3>1. Fit(m, e.mode, b, l) # {} /\ b.tokens <= e.tokens /\ e.loras = l
      BY <2>3, <2>4, <1>2, FitFound DEF _is_compatible
    <3>2. ~ (e.mode = "FULL" /\ d.mode # "FULL")
      BY <3>1, <2>1, <2>2
    <3>3. ~ (e.mode = "PIECEWISE" /\ d.mode = "NONE")
      BY <2>2
    <3>4. e.mode = d.mode => d.tokens <= e.tokens
      BY <3>1, <2>2, <2>3
    <3>5. e.tokens \in Nat /\ d.tokens \in Nat
      <4>1. m.maxSize \in Nat
        BY DEF IsManager
      <4> QED BY <4>1, <2>2, <2>3, DescIs DEF DescOK
    <3> QED BY <3>2, <3>3, <3>4, <3>5 DEF Better
  <2> QED BY <2>2, <2>3, <2>4, <1>1 DEF Suits
<1>6. CASE /\ ~c \/ (Fit(m, "FULL", b, l) = {} /\ Fit(m, "PIECEWISE", b, l) = {})
           /\ d = [mode |-> "NONE", tokens |-> b.tokens, reqs |-> b.reqs, uniform |-> 0,
                   query |-> 0, loras |-> l]
  <2>1. d.mode = "NONE" /\ d.tokens = b.tokens /\ d.loras = l
    BY <1>6
  <2>2. Serves(d, b)
    BY <2>1, <1>2, <1>3 DEF Serves
  <2>3. ASSUME m.queryLens = {m.queryLen}, NEW e \in G, _is_compatible(e, b, l)
        PROVE  ~Better(e, d)
    <3>1. e \in capture_descs(m) /\ c
      BY <2>3
    <3>2. Fit(m, e.mode, b, l) # {}
      BY <2>3, <3>1, FitFound
    <3>3. e.mode \in {"FULL", "PIECEWISE"}
      BY <3>1, DescIs DEF DescOK
    <3> QED BY <3>1, <3>2, <3>3, <1>6
  <2> QED BY <2>1, <2>2, <2>3, <1>1 DEF Suits
<1>7. Chosen(m, c, b, l, d)
  BY <1>1, DispatchIs
<1> QED BY <1>1, <1>4, <1>5, <1>6, <1>7 DEF Chosen

-----------------------------------------------------------------------------
(* How many graphs there are, and the largest of them.                     *)

LEMMA ImageIsFinite ==
  ASSUME NEW S, IsFiniteSet(S), NEW f, NEW T \in SUBSET {f[x] : x \in S}
  PROVE  IsFiniteSet(T)
<1> DEFINE R == {f[x] : x \in S}
           g == [x \in S |-> f[x]]
<1>1. g \in Surjection(S, R)
  BY DEF Surjection
<1>2. IsFiniteSet(R)
  <2> HIDE DEF g, R
  <2> QED BY <1>1, FS_Surjection
<1> HIDE DEF R
<1>3. T \in SUBSET R
  BY DEF R
<1> QED BY <1>2, <1>3, FS_Subset

LEMMA ParametersFinite ==
  ASSUME NEW m, IsManager(m)
  PROVE  IsFiniteSet((m.sizes \X m.loras) \X m.queryLens)
<1>1. /\ m.maxSize \in Nat /\ m.sizes \in SUBSET (1 .. m.maxSize) /\ IsFiniteSet(m.loras)
      /\ m.queryLen \in Nat /\ m.queryLens \in SUBSET (1 .. m.queryLen)
  BY DEF IsManager
<1>2. IsFiniteSet(1 .. m.maxSize) /\ IsFiniteSet(1 .. m.queryLen)
  <2>1. 1 \in Int /\ m.maxSize \in Int /\ m.queryLen \in Int
    BY <1>1
  <2> QED BY <2>1, FS_Interval
<1>3. IsFiniteSet(m.sizes) /\ IsFiniteSet(m.queryLens)
  BY <1>1, <1>2, FS_Subset
<1>4. IsFiniteSet(m.sizes \X m.loras)
  BY <1>1, <1>3, FS_Product
<1> QED BY <1>3, <1>4, FS_Product

LEMMA DescsFinite ==
  ASSUME NEW m, IsManager(m)
  PROVE  IsFiniteSet(capture_descs(m))
<1>1. m.queryLen \in m.queryLens
  BY DEF IsManager
<1> DEFINE K == (m.sizes \X m.loras) \X m.queryLens
           mixed == [x \in K |->
              [mode |-> mixed_mode(m), tokens |-> x[1][1],
               reqs |-> IF mixed_mode(m) = "FULL" THEN Smaller(x[1][1], m.maxReqs) ELSE 0,
               uniform |-> 0, query |-> 0, loras |-> x[1][2]]]
           varlen == [x \in K |->
              [mode |-> "FULL", tokens |-> x[1][1], reqs |-> Smaller(x[1][1], m.maxReqs),
               uniform |-> 0, query |-> m.queryLen, loras |-> x[1][2]]]
           even == [x \in K |->
              [mode |-> "FULL", tokens |-> RoundUp(x[1][1], x[2]),
               reqs |-> RoundUp(x[1][1], x[2]) \div x[2],
               uniform |-> x[2], query |-> 0, loras |-> x[1][2]]]
<1>2. IsFiniteSet(K)
  BY ParametersFinite
<1>3. MixedDescs(m) \in SUBSET {mixed[x] : x \in K}
  <2> SUFFICES ASSUME NEW d \in MixedDescs(m) PROVE \E x \in K : d = mixed[x]
    OBVIOUS
  <2>1. PICK n \in m.sizes, l \in m.loras :
          d = [mode |-> mixed_mode(m), tokens |-> n,
               reqs |-> IF mixed_mode(m) = "FULL" THEN Smaller(n, m.maxReqs) ELSE 0,
               uniform |-> 0, query |-> 0, loras |-> l]
    BY DEF MixedDescs
  <2>2. <<<<n, l>>, m.queryLen>> \in K
    BY <1>1
  <2>3. d = mixed[<<<<n, l>>, m.queryLen>>]
    BY <2>1, <2>2
  <2> QED BY <2>2, <2>3
<1>4. VarlenDescs(m) \in SUBSET {varlen[x] : x \in K}
  <2> SUFFICES ASSUME NEW d \in VarlenDescs(m) PROVE \E x \in K : d = varlen[x]
    OBVIOUS
  <2>1. PICK n \in m.sizes, l \in m.loras :
          d = [mode |-> "FULL", tokens |-> n, reqs |-> Smaller(n, m.maxReqs), uniform |-> 0,
               query |-> m.queryLen, loras |-> l]
    BY DEF VarlenDescs
  <2>2. <<<<n, l>>, m.queryLen>> \in K
    BY <1>1
  <2>3. d = varlen[<<<<n, l>>, m.queryLen>>]
    BY <2>1, <2>2
  <2> QED BY <2>2, <2>3
<1>5. UniformDescs(m) \in SUBSET {even[x] : x \in K}
  <2> SUFFICES ASSUME NEW d \in UniformDescs(m) PROVE \E x \in K : d = even[x]
    OBVIOUS
  <2>1. PICK n \in m.sizes, q \in m.queryLens, l \in m.loras :
          d = [mode |-> "FULL", tokens |-> RoundUp(n, q), reqs |-> RoundUp(n, q) \div q,
               uniform |-> q, query |-> 0, loras |-> l]
    BY DEF UniformDescs
  <2>2. <<<<n, l>>, q>> \in K
    OBVIOUS
  <2>3. d = even[<<<<n, l>>, q>>]
    BY <2>1, <2>2
  <2> QED BY <2>2, <2>3
<1> HIDE DEF K, mixed, varlen, even
<1>6. IsFiniteSet(MixedDescs(m)) /\ IsFiniteSet(VarlenDescs(m)) /\ IsFiniteSet(UniformDescs(m))
  BY <1>2, <1>3, <1>4, <1>5, ImageIsFinite
<1> DEFINE A == MixedDescs(m) \cup VarlenDescs(m)
           B == A \cup UniformDescs(m)
<1>7. IsFiniteSet(B)
  <2>1. IsFiniteSet(A)
    BY <1>6, FS_Union
  <2> HIDE DEF A
  <2> QED BY <2>1, <1>6, FS_Union
<1>8. capture_descs(m) \in SUBSET B
  BY DEF capture_descs
<1> HIDE DEF B
<1> QED BY <1>7, <1>8, FS_Subset

\* Of any number of descriptors there are the first so many, the largest first.
LEMMA SampledIs ==
  ASSUME NEW S, IsFiniteSet(S), \A d \in S : d.tokens \in Nat,
         NEW n \in Nat, n <= Cardinality(S)
  PROVE  /\ Sampled(n, S) \in SUBSET S /\ Cardinality(Sampled(n, S)) = n
         /\ \A d \in Sampled(n, S), e \in S \ Sampled(n, S) : d.tokens >= e.tokens
<1> DEFINE First(few) == \A d \in few, e \in S \ few : d.tokens >= e.tokens
           T == {k \in Nat : k <= Cardinality(S) =>
                   \E few \in SUBSET S : Cardinality(few) = k /\ First(few)}
<1>1. Cardinality(S) \in Nat
  BY FS_CardinalityType
<1>2. 0 \in T
  <2>1. {} \in SUBSET S /\ Cardinality({}) = 0 /\ First({})
    BY FS_EmptySet
  <2> HIDE DEF First
  <2> QED BY <2>1
<1>3. ASSUME NEW k \in T PROVE k + 1 \in T
  <2> SUFFICES ASSUME k + 1 <= Cardinality(S)
               PROVE  \E few \in SUBSET S : Cardinality(few) = k + 1 /\ First(few)
    OBVIOUS
  <2>1. PICK few \in SUBSET S : Cardinality(few) = k /\ First(few)
    BY <1>1
  <2>2. IsFiniteSet(few)
    BY FS_Subset
  <2>3. S \ few # {}
    <3> SUFFICES ASSUME S \ few = {} PROVE FALSE
      OBVIOUS
    <3>1. S = few
      OBVIOUS
    <3> QED BY <3>1, <2>1, <1>1
  <2> DEFINE U == {e.tokens : e \in S \ few}
  <2>4. IsFiniteSet(U)
    <3>1. IsFiniteSet(S \ few)
      BY FS_Difference
    <3> DEFINE t == [e \in S \ few |-> e.tokens]
    <3>2. U \in SUBSET {t[e] : e \in S \ few}
      OBVIOUS
    <3> HIDE DEF t, U
    <3> QED BY <3>1, <3>2, ImageIsFinite
  <2>5. PICK u \in U : \A v \in U : v <= u
    <3>1. U \in SUBSET Nat /\ U # {}
      BY <2>3
    <3> HIDE DEF U
    <3> QED BY <2>4, <3>1, GreatestOfFinite
  <2>6. PICK x \in S \ few : x.tokens = u
    OBVIOUS
  <2>7. ASSUME NEW d \in few \cup {x}, NEW e \in S \ (few \cup {x}) PROVE d.tokens >= e.tokens
    <3>1. e \in S \ few /\ e.tokens <= x.tokens /\ e.tokens \in Nat /\ x.tokens \in Nat
      BY <2>5, <2>6
    <3>2. CASE d = x
      BY <3>1, <3>2
    <3>3. CASE d \in few
      BY <3>1, <3>3, <2>1
    <3> QED BY <3>2, <3>3
  <2>8. Cardinality(few \cup {x}) = k + 1
    BY <2>1, <2>2, <2>6, FS_AddElement
  <2>9. few \cup {x} \in SUBSET S /\ First(few \cup {x})
    BY <2>6, <2>7
  <2> HIDE DEF First
  <2> QED BY <2>8, <2>9
<1>4. n \in T
  <2>1. T \in SUBSET Nat
    OBVIOUS
  <2> HIDE DEF T
  <2>2. T = Nat
    BY <2>1, <1>2, <1>3, SetInduction
  <2> QED BY <2>2
<1>5. \E few \in kSubset(n, S) : First(few)
  BY <1>4 DEF kSubset
<1>6. Sampled(n, S) \in kSubset(n, S) /\ First(Sampled(n, S))
  BY <1>5 DEF Sampled
<1> QED BY <1>6 DEF kSubset

LEMMA SampledAll ==
  ASSUME NEW S, IsFiniteSet(S), \A d \in S : d.tokens \in Nat
  PROVE  Sampled(Cardinality(S), S) = S
<1>1. Cardinality(S) \in Nat
  BY FS_CardinalityType
<1>2. Sampled(Cardinality(S), S) \in SUBSET S
      /\ Cardinality(Sampled(Cardinality(S), S)) = Cardinality(S)
  BY <1>1, SampledIs
<1> QED BY <1>2, FS_Subset

LEMMA OfModeIs ==
  ASSUME IsManager(mgr), NEW mode
  PROVE  /\ IsFiniteSet(OfMode(mode)) /\ Cardinality(OfMode(mode)) \in Nat
         /\ \A d \in OfMode(mode) : d.tokens \in Nat /\ d \in capture_descs(mgr) /\ d.mode = mode
         /\ Cardinality(OfMode(mode)) = 0 <=> OfMode(mode) = {}
<1>1. OfMode(mode) \in SUBSET capture_descs(mgr)
  BY DEF OfMode
<1>2. IsFiniteSet(OfMode(mode))
  BY <1>1, DescsFinite, FS_Subset
<1>3. \A d \in capture_descs(mgr) : d.tokens \in Nat
  <2>1. mgr.maxSize \in Nat
    BY DEF IsManager
  <2> QED BY <2>1, DescIs DEF DescOK
<1> QED BY <1>1, <1>2, <1>3, FS_CardinalityType, FS_EmptySet DEF OfMode

\* What is captured of a mode: graphs of the mode, all if there may be as many.
LEMMA MostIs ==
  ASSUME IsManager(mgr), NEW mode, NEW n \in Nat
  PROVE  /\ Most(n, mode) \in SUBSET OfMode(mode)
         /\ n >= Cardinality(OfMode(mode)) => Most(n, mode) = OfMode(mode)
<1>1. PICK S, k : S = OfMode(mode) /\ k = Cardinality(S)
  OBVIOUS
<1>2. IsFiniteSet(S) /\ k \in Nat /\ \A d \in S : d.tokens \in Nat
  BY <1>1, OfModeIs
<1>3. PICK j : j = Least(n, k)
  OBVIOUS
<1>4. j \in Nat /\ j <= k /\ (n >= k => j = k)
  BY <1>2, <1>3, LeastIs
<1>5. Most(n, mode) = Sampled(j, S)
  BY <1>1, <1>3 DEF Most
<1>6. Sampled(j, S) \in SUBSET S
  BY <1>1, <1>2, <1>4, SampledIs
<1>7. n >= k => Sampled(j, S) = S
  BY <1>1, <1>2, <1>4, SampledAll
<1> QED BY <1>1, <1>5, <1>6, <1>7

\* The first graph is the largest.
LEMMA FirstIs ==
  ASSUME IsManager(mgr), NEW mode, OfMode(mode) # {}
  PROVE  LET size == (CHOOSE d \in Most(1, mode) : TRUE).tokens
         IN  size \in Nat /\ \A d \in OfMode(mode) : d.tokens <= size
<1>1. PICK S, k : S = OfMode(mode) /\ k = Cardinality(S)
  OBVIOUS
<1>2. IsFiniteSet(S) /\ k \in Nat /\ k # 0 /\ \A d \in S : d.tokens \in Nat
  BY <1>1, OfModeIs
<1>3. Least(1, k) = 1 /\ 1 <= k
  BY <1>2, LeastIs
<1>4. PICK F : F = Sampled(1, S)
  OBVIOUS
<1>5. F \in SUBSET S /\ Cardinality(F) = 1 /\ \A d \in F, e \in S \ F : d.tokens >= e.tokens
  BY <1>1, <1>2, <1>3, <1>4, SampledIs
<1>6. Most(1, mode) = F
  BY <1>1, <1>3, <1>4 DEF Most
<1>7. IsFiniteSet(F)
  BY <1>2, <1>5, FS_Subset
<1>8. PICK x : F = {x}
  BY <1>5, <1>7, FS_Singleton
<1>9. (CHOOSE d \in F : TRUE) = x
  BY <1>8
<1>10. ASSUME NEW d \in S PROVE d.tokens <= x.tokens
  <2>1. d.tokens \in Nat /\ x.tokens \in Nat
    BY <1>2, <1>5, <1>8
  <2> QED BY <2>1, <1>5, <1>8
<1>11. x.tokens \in Nat
  BY <1>2, <1>5, <1>8
<1> QED BY <1>1, <1>6, <1>9, <1>10, <1>11

-----------------------------------------------------------------------------
(* Sums.                                                                   *)

LEMMA LenOfFunction ==
  ASSUME NEW n \in Nat, NEW s, s = [i \in 1 .. n |-> s[i]]
  PROVE  Len(s) = n /\ (s = <<>> <=> n = 0)
<1> DEFINE S == {s[i] : i \in 1 .. n}
<1>1. s \in [1 .. n -> S]
  OBVIOUS
<1>2. s \in Seq(S)
  <2> HIDE DEF S
  <2> QED BY <1>1
<1>3. Len(s) = n
  <2> HIDE DEF S
  <2> QED BY <1>1, <1>2
<1> HIDE DEF S
<1>4. s = <<>> <=> Len(s) = 0
  BY <1>2, EmptySeq
<1> QED BY <1>3, <1>4

\* g is what the sums of the first elements are.
IsTotal(g, s) == g[0] = 0 /\ \A n \in 1 .. Len(s) : g[n] = g[n - 1] + s[n]

LEMMA TotalExists ==
  ASSUME NEW s, Len(s) \in Nat
  PROVE  \E g : IsTotal(g, s)
<1> DEFINE Upto(g, d) == g[0] = 0 /\ \A n \in 1 .. Len(s) : n <= d => g[n] = g[n - 1] + s[n]
           T == {d \in Nat : \E g : Upto(g, d)}
<1>1. 0 \in T
  <2> DEFINE g == [n \in {0} |-> 0]
  <2>1. g[0] = 0 /\ \A n \in 1 .. Len(s) : ~ (n <= 0)
    OBVIOUS
  <2> HIDE DEF g
  <2> QED BY <2>1
<1>2. ASSUME NEW d \in T PROVE d + 1 \in T
  <2>1. PICK g : Upto(g, d)
    OBVIOUS
  <2>2. PICK j : j = d + 1
    OBVIOUS
  <2> DEFINE f == [n \in 0 .. Len(s) |-> IF n = j THEN g[j - 1] + s[j] ELSE g[n]]
  <2>3. d \in Nat /\ j \in Nat /\ j > 0
    BY <2>2
  <2>4. f[0] = 0
    BY <2>1, <2>3
  <2>5. ASSUME NEW n \in 1 .. Len(s), n <= d + 1 PROVE f[n] = f[n - 1] + s[n]
    <3>1. n \in 0 .. Len(s) /\ n - 1 \in 0 .. Len(s) /\ n - 1 # j
      BY <2>2, <2>3, <2>5
    <3>2. f[n - 1] = g[n - 1] /\ f[n] = IF n = j THEN g[j - 1] + s[j] ELSE g[n]
      BY <3>1
    <3> HIDE DEF f
    <3>3. CASE n = j
      BY <3>2, <3>3
    <3>4. CASE n # j
      <4>1. n <= d
        BY <2>2, <2>3, <2>5, <3>4
      <4> QED BY <3>2, <3>4, <4>1, <2>1
    <3> QED BY <3>3, <3>4
  <2>6. Upto(f, d + 1)
    <3> HIDE DEF f
    <3> QED BY <2>4, <2>5
  <2> HIDE DEF Upto, f
  <2> QED BY <2>3, <2>6
<1>3. T = Nat
  <2>1. T \in SUBSET Nat
    OBVIOUS
  <2> HIDE DEF T
  <2> QED BY <2>1, <1>1, <1>2, SetInduction
<1>4. PICK g : Upto(g, Len(s))
  BY <1>3
<1>5. IsTotal(g, s)
  BY <1>4 DEF IsTotal
<1> QED BY <1>5

LEMMA SumIs ==
  ASSUME NEW s, Len(s) \in Nat, NEW g, IsTotal(g, s)
  PROVE  Sum(s) = g[Len(s)]
<1> DEFINE Rec(t) == [n \in 0 .. Len(s) |-> IF n = 0 THEN 0 ELSE t[n - 1] + s[n]]
           total == CHOOSE t : t = Rec(t)
           f == [n \in 0 .. Len(s) |-> g[n]]
<1>1. \A n \in 0 .. Len(s) : f[n] = IF n = 0 THEN 0 ELSE f[n - 1] + s[n]
  <2> TAKE n \in 0 .. Len(s)
  <2>1. CASE n = 0
    BY <2>1 DEF IsTotal
  <2>2. CASE n # 0
    <3>1. n \in 1 .. Len(s) /\ n - 1 \in 0 .. Len(s)
      BY <2>2
    <3>2. f[n] = g[n] /\ f[n - 1] = g[n - 1]
      BY <3>1
    <3> HIDE DEF f
    <3> QED BY <3>1, <3>2, <2>2 DEF IsTotal
  <2> QED BY <2>1, <2>2
<1>2. f = Rec(f)
  <2> SUFFICES \A n \in 0 .. Len(s) : f[n] = Rec(f)[n]
    OBVIOUS
  <2> HIDE DEF f
  <2> QED BY <1>1
<1>3. total = Rec(total)
  <2> HIDE DEF f, Rec
  <2> QED BY <1>2
<1>4. \A n \in 0 .. Len(s) : total[n] = IF n = 0 THEN 0 ELSE total[n - 1] + s[n]
  <2> HIDE DEF total
  <2> QED BY <1>3
<1>5. Sum(s) = total[Len(s)]
  BY DEF Sum, total
<1> HIDE DEF total, f
<1> DEFINE T == {n \in Nat : n <= Len(s) => total[n] = g[n]}
<1>6. 0 \in T
  BY <1>4 DEF IsTotal
<1>7. ASSUME NEW n \in T PROVE n + 1 \in T
  <2> SUFFICES ASSUME n + 1 <= Len(s) PROVE total[n + 1] = g[n + 1]
    OBVIOUS
  <2>1. PICK k : k = n + 1
    OBVIOUS
  <2>2. k \in 0 .. Len(s) /\ k \in 1 .. Len(s) /\ k # 0 /\ k - 1 = n /\ n <= Len(s)
    BY <2>1
  <2>3. total[k] = total[n] + s[k] /\ g[k] = g[n] + s[k]
    BY <2>2, <1>4 DEF IsTotal
  <2>4. total[n] = g[n]
    BY <2>2
  <2> QED BY <2>1, <2>3, <2>4
<1>8. T = Nat
  <2>1. T \in SUBSET Nat
    OBVIOUS
  <2> HIDE DEF T
  <2> QED BY <2>1, <1>6, <1>7, SetInduction
<1> QED BY <1>5, <1>8

LEMMA SumIsNat ==
  ASSUME NEW s, Len(s) \in Nat, \A n \in 1 .. Len(s) : s[n] \in Nat
  PROVE  Sum(s) \in Nat
<1>1. PICK g : IsTotal(g, s)
  BY TotalExists
<1> DEFINE T == {n \in Nat : n <= Len(s) => g[n] \in Nat}
<1>2. 0 \in T
  BY <1>1 DEF IsTotal
<1>3. ASSUME NEW n \in T PROVE n + 1 \in T
  <2> SUFFICES ASSUME n + 1 <= Len(s) PROVE g[n + 1] \in Nat
    OBVIOUS
  <2>1. PICK k : k = n + 1
    OBVIOUS
  <2>2. k \in 1 .. Len(s) /\ k - 1 = n /\ n <= Len(s)
    BY <2>1
  <2>3. g[k] = g[n] + s[k] /\ g[n] \in Nat /\ s[k] \in Nat
    BY <2>2, <1>1 DEF IsTotal
  <2> QED BY <2>1, <2>3
<1>4. T = Nat
  <2>1. T \in SUBSET Nat
    OBVIOUS
  <2> HIDE DEF T
  <2> QED BY <2>1, <1>2, <1>3, SetInduction
<1>5. g[Len(s)] \in Nat
  BY <1>4
<1> QED BY <1>1, <1>5, SumIs

\* k elements q, the last of which has x more.
IsSplit(s, k, q, x) == Len(s) = k /\ \A n \in 1 .. k : s[n] = IF n = k THEN q + x ELSE q

LEMMA SumOfSame ==
  ASSUME NEW k \in Nat, k > 0, NEW q \in Nat, NEW x \in Nat, NEW s, IsSplit(s, k, q, x)
  PROVE  Sum(s) = (k * q) + x
<1>a. Len(s) = k /\ \A n \in 1 .. k : s[n] = IF n = k THEN q + x ELSE q
  BY DEF IsSplit
<1> DEFINE g == [n \in 0 .. k |-> IF n = k THEN k * q + x ELSE n * q]
<1>1. g[0] = 0
  <2>1. g[0] = 0 * q
    OBVIOUS
  <2> HIDE DEF g
  <2> QED BY <2>1
<1>2. ASSUME NEW n \in 1 .. k PROVE g[n] = g[n - 1] + s[n]
  <2>1. n - 1 \in 0 .. k /\ n - 1 # k /\ n \in 0 .. k
    OBVIOUS
  <2>2. g[n - 1] = (n - 1) * q /\ g[n] = IF n = k THEN k * q + x ELSE n * q
    BY <2>1
  <2> HIDE DEF g
  <2>3. (n - 1) * q + q = n * q /\ (n - 1) * q \in Nat
    OBVIOUS
  <2>4. PICK p : p = (n - 1) * q
    OBVIOUS
  <2>5. p \in Nat /\ g[n - 1] = p /\ g[n] = IF n = k THEN (p + q) + x ELSE p + q
    BY <2>2, <2>3, <2>4
  <2> QED BY <2>5, <1>a
<1> HIDE DEF g
<1>3. IsTotal(g, s)
  BY <1>1, <1>2, <1>a DEF IsTotal
<1>4. Sum(s) = g[k]
  BY <1>3, <1>a, SumIs
<1>5. g[k] = k * q + x
  BY DEF g
<1> QED BY <1>4, <1>5

-----------------------------------------------------------------------------
(* The inductive invariant.                                                *)

Phases == {"start", "refused", "device", "loaded", "profiled", "minimal", "teardown", "sized",
           "kv", "warm", "captured", "serving", "assert"}

Types ==
    /\ setup \in Setups /\ phase \in Phases
    /\ others \in Nat /\ seen \in Nat /\ own.torch \in Nat /\ own.rest \in Nat
    /\ kept \in Int /\ nonKv \in Nat /\ estimate \in Nat /\ blocks \in Nat /\ plan \in Nat
    /\ pool \in [Owners -> {"none", "persistent", "throwaway"}]

\* What all graphs take.
AllGraphs ==
    IF capture_descs(mgr) = {} THEN 0 ELSE Costs(Cardinality(OfMode("FULL")))

\* What is applied of the estimate.
Reserved == IF setup.applied THEN estimate ELSE 0

Early == {"start", "device", "loaded"}

\* The model is loaded as it is to be; only a start without a plan measures.
Measured ==
    /\ phase \notin {"start", "device", "refused", "assert"} =>
        own.torch = setup.torch /\ own.rest = setup.rest
    /\ phase \in Early => nonKv = 0 /\ estimate = 0
    /\ phase \in {"profiled", "minimal", "teardown"} => nonKv # 0
    /\ phase \in {"profiled", "minimal"} => estimate = 0
    /\ phase = "sized" \/ Running => (nonKv = 0 => ByHand > 0)
    /\ nonKv # 0 =>
        /\ setup.manual = 0 /\ (phase # "serving" => plan = 0)
        /\ kept + setup.torch + setup.rest + setup.peak <= nonKv
        /\ phase = "teardown" \/ phase = "sized" \/ Running => AllGraphs <= estimate + Overlaid

\* The cache has what its start was granted.
Granted ==
    Running => blocks * setup.page <= IF nonKv = 0 THEN ByHand
                                      ELSE setup.requested - nonKv - Reserved

\* A plan leaves room for all graphs.
PlanFits ==
    setup.manual = 0 /\ plan > 0 =>
        plan + setup.torch + setup.rest + setup.peak + AllGraphs <= setup.requested - kept

MemoryInv == Measured /\ Granted /\ PlanFits

\* What is recorded of the model.
RecordedDescs == {g.desc : g \in {h \in graphs : h.owner # "speculator"}}

Recording ==
    /\ phase \notin {"teardown", "captured", "serving"} => graphs = {}
    /\ phase \in {"captured", "serving"} =>
        RecordedDescs = capture_descs(mgr) /\ (graphs = {} <=> capture_descs(mgr) = {})
    /\ \A g \in graphs : g.owner = "manager" /\ g.desc.mode = "FULL" => g.desc.tokens <= out

Keys ==
    /\ capturing => V1 /\ phase \in {"minimal", "teardown"}
    /\ V1 /\ (phase = "minimal" \/ Running) => keys = capture_descs(mgr)

Clean(o) == pool[o] # "throwaway"

\* The throwaway pool is the only one that may be lost.
Pools ==
    /\ phase \in Early \cup {"profiled", "minimal"} => used = {}
    /\ phase = "minimal" =>
        /\ pool["wrappers"] = "throwaway"
        /\ ~V1 => pool["manager"] = "throwaway"
        /\ ~V1 /\ setup.drafter > 0 => pool["speculator"] = "throwaway"
    /\ phase \notin {"captured", "serving"} => used \subseteq {"throwaway"}
    /\ phase \in Early \cup {"profiled"} \/ Running => \A o \in Owners : Clean(o)
    /\ phase = "sized" \/ (V1 /\ phase \in {"minimal", "teardown"}) =>
        Clean("global") /\ Clean("manager")
    /\ phase = "sized" => Clean("wrappers")
    /\ setup.drafter = 0 => Clean("speculator")

Ran ==
    ran # Nothing => phase = "serving" /\ Suits(mgr, RecordedDescs, ran.batch, ran.desc)

GraphInv == Recording /\ Keys /\ Pools /\ Ran /\ phase # "assert"

\* What a start keeps for one request of maximal length.
ForOne == TotalFor(setup.warmup, setup.warmup.maxLen)

\* The cache holds it, and what is to be run for warm-up has been.
Roomy == Running => blocks > ForOne
Warmed ==
    phase \in {"warm", "captured", "serving"} /\ setup.compile.on =>
        warmup_sizes(setup.compile) \subseteq warm

IInv == Types /\ MemoryInv /\ GraphInv /\ Roomy /\ Warmed

-----------------------------------------------------------------------------
(* Setups, and the arithmetic of the estimates.                            *)

LEMMA SetupIs ==
  ASSUME setup \in Setups
  PROVE  /\ IsManager(mgr) /\ IsWarmup(setup.warmup)
         /\ V1 => IsV1(setup)
         /\ setup.others \in Nat /\ setup.drift \subseteq Nat
         /\ setup.torch \in Nat /\ setup.rest \in Nat /\ setup.peak \in Nat /\ setup.peak > 0
         /\ setup.page \in Nat /\ setup.page > 0
         /\ setup.requested \in Nat /\ setup.manual \in Nat /\ setup.buffer \in Nat
         /\ setup.piece \in Nat /\ setup.first \in Nat /\ setup.more \in Nat
         /\ setup.drafter \in Nat
BY SetupsAssumption DEF mgr, V1

LEMMA SameSetup ==
  ASSUME setup' = setup
  PROVE  /\ mgr' = mgr /\ (V1' <=> V1) /\ capture_descs(mgr)' = capture_descs(mgr)
         /\ AllGraphs' = AllGraphs
         /\ OfMode("FULL")' = OfMode("FULL") /\ OfMode("PIECEWISE")' = OfMode("PIECEWISE")
BY DEF mgr, V1, AllGraphs, Costs, OfMode

\* The numbers of graphs of each mode.
Pieces == Cardinality(OfMode("PIECEWISE"))
Fulls == Cardinality(OfMode("FULL"))

LEMMA CostsAre ==
  ASSUME setup \in Setups, NEW n \in Nat
  PROVE  /\ Pieces \in Nat /\ Fulls \in Nat
         /\ Pieces * setup.piece \in Nat
         /\ n > 0 => (n - 1) * setup.more \in Nat
         /\ Costs(n) \in Nat
<1>1. Pieces \in Nat /\ Fulls \in Nat /\ setup.piece \in Nat /\ setup.first \in Nat
      /\ setup.more \in Nat /\ setup.drafter \in Nat
  BY SetupIs, OfModeIs DEF Pieces, Fulls
<1>2. Pieces * setup.piece \in Nat
  BY <1>1
<1>3. n > 0 => (n - 1) * setup.more \in Nat
  <2> SUFFICES ASSUME n > 0 PROVE (n - 1) * setup.more \in Nat
    OBVIOUS
  <2>1. PICK k : k = n - 1
    OBVIOUS
  <2>2. k \in Nat
    BY <2>1
  <2>3. k * setup.more \in Nat
    BY <2>2, <1>1
  <2> QED BY <2>1, <2>3
<1>4. PICK p, q : p = Pieces * setup.piece /\ q = (n - 1) * setup.more
  OBVIOUS
<1>5. Costs(n) = p + setup.drafter + (IF n = 0 THEN 0 ELSE setup.first + q)
  BY <1>4 DEF Costs, Pieces
<1>6. p \in Nat /\ (n > 0 => q \in Nat)
  BY <1>2, <1>3, <1>4
<1>7. Costs(n) \in Nat
  BY <1>1, <1>5, <1>6
<1> QED BY <1>1, <1>2, <1>3, <1>7

\* k graphs at most cost what k more samples would.
LEMMA TimesLarger ==
  ASSUME NEW k \in Nat, NEW a \in Nat
  PROVE  /\ Max({a, 1}) \in Nat /\ k * Max({a, 1}) \in Nat /\ k * a <= k * Max({a, 1})
         /\ k * a \in Nat
<1>1. PICK x : x = Max({a, 1})
  OBVIOUS
<1>2. x \in Nat /\ a <= x
  BY <1>1, MaxOfTwo
<1>3. k * a <= k * x /\ k * a \in Nat /\ k * x \in Nat
  BY <1>2, TimesGrows
<1> QED BY <1>1, <1>2, <1>3

\* The two graphs V2 records for the profile, as the lists they are measured in.
Samples(total) ==
    [i \in 1 .. Least(2, total) |-> IF i = 1 THEN setup.first ELSE setup.more]

LEMMA SamplesAre ==
  ASSUME setup \in Setups, NEW t \in Nat, NEW s, s = Samples(t)
  PROVE  /\ t = 0 => s = <<>> /\ Sum(s) = 0
         /\ t = 1 => s # <<>> /\ Len(s) = 1 /\ s[1] = setup.first /\ Sum(s) = setup.first
         /\ t > 1 => s # <<>> /\ Len(s) = 2 /\ s[1] = setup.first /\ s[2] = setup.more
                     /\ Sum(s) = setup.first + setup.more
<1>1. setup.first \in Nat /\ setup.more \in Nat
  BY SetupIs
<1>2. PICK n : n = Least(2, t)
  OBVIOUS
<1>3. n \in Nat /\ (t = 0 => n = 0) /\ (t = 1 => n = 1) /\ (t > 1 => n = 2)
  BY <1>2, LeastIs
<1>4. s = [i \in 1 .. n |-> IF i = 1 THEN setup.first ELSE setup.more]
  BY <1>2 DEF Samples
<1>5. s = [i \in 1 .. n |-> s[i]] /\ \A i \in 1 .. n : s[i] = IF i = 1 THEN setup.first
                                                               ELSE setup.more
  BY <1>4
<1>6. Len(s) = n /\ (s = <<>> <=> n = 0)
  BY <1>3, <1>5, LenOfFunction
<1> DEFINE g == [i \in 0 .. 2 |-> IF i = 0 THEN 0 ELSE IF i = 1 THEN setup.first
                                  ELSE setup.first + setup.more]
<1>7. g[0] = 0 /\ g[1] = setup.first /\ g[2] = setup.first + setup.more
  OBVIOUS
<1> HIDE DEF g
<1>8. ASSUME NEW i \in 1 .. n PROVE g[i] = g[i - 1] + s[i]
  <2>1. CASE i = 1
    BY <2>1, <1>1, <1>5, <1>7
  <2>2. CASE i # 1
    <3>1. i = 2 /\ i - 1 = 1 /\ s[i] = setup.more
      BY <2>2, <1>2, <1>3, <1>5
    <3> QED BY <3>1, <1>7
  <2> QED BY <2>1, <2>2
<1>9. IsTotal(g, s)
  BY <1>6, <1>7, <1>8 DEF IsTotal
<1>10. Sum(s) = g[n]
  BY <1>3, <1>6, <1>9, SumIs
<1>11. t = 0 => s = <<>> /\ Sum(s) = 0
  BY <1>3, <1>6, <1>7, <1>10
<1>12. t = 1 => s # <<>> /\ Len(s) = 1 /\ s[1] = setup.first /\ Sum(s) = setup.first
  BY <1>3, <1>5, <1>6, <1>7, <1>10
<1>13. t > 1 => s # <<>> /\ Len(s) = 2 /\ s[1] = setup.first /\ s[2] = setup.more
                /\ Sum(s) = setup.first + setup.more
  <2> SUFFICES ASSUME t > 1
               PROVE  s # <<>> /\ Len(s) = 2 /\ s[1] = setup.first /\ s[2] = setup.more
                      /\ Sum(s) = setup.first + setup.more
    OBVIOUS
  <2>1. n = 2
    BY <1>3
  <2>2. s[1] = setup.first /\ s[2] = setup.more
    BY <2>1, <1>5
  <2> QED BY <2>1, <2>2, <1>6, <1>7, <1>10
<1> QED BY <1>11, <1>12, <1>13

\* The estimate of V2 covers all graphs: of two FULL graphs the second stands for
\* the rest, that are no larger.
LEMMA EstimateCovers ==
  ASSUME setup \in Setups, NEW t, t = Fulls, NEW s, s = Samples(t),
         NEW e, e = Max({0, Costs(Least(2, t)) - Sum(s) + _extrapolate_full_graph_memory(s, t)})
  PROVE  e \in Nat /\ Costs(t) <= e
<1>1. t \in Nat
  BY CostsAre
<1>2. PICK p : p = Pieces * setup.piece + setup.drafter
  OBVIOUS
<1>3. setup.first \in Nat /\ setup.more \in Nat /\ setup.drafter \in Nat /\ p \in Nat
  <2>1. setup.first \in Nat /\ setup.more \in Nat /\ setup.drafter \in Nat
    BY SetupIs
  <2>2. Pieces * setup.piece \in Nat
    BY <1>1, CostsAre
  <2> QED BY <1>2, <2>1, <2>2
<1>4. PICK f, n, r : /\ f = _extrapolate_full_graph_memory(s, t) /\ n = Costs(Least(2, t))
                     /\ r = n - Sum(s) + f
  OBVIOUS
<1>5. e = Max({0, r})
  BY <1>4
<1>6. r \in Int => e \in Nat /\ r <= e
  BY <1>5, MaxOfTwo
<1>7. CASE t = 0
  <2>1. Least(2, t) = 0
    BY <1>7, LeastIs
  <2>2. n = p /\ Costs(t) = p
    BY <1>2, <1>3, <1>4, <1>7, <2>1 DEF Costs, Pieces
  <2>3. s = <<>> /\ Sum(s) = 0
    BY <1>1, <1>7, SamplesAre
  <2>4. f = 0
    BY <2>3, <1>4 DEF _extrapolate_full_graph_memory
  <2>5. r = p
    BY <1>4, <2>2, <2>3, <2>4, <1>3
  <2> QED BY <2>2, <2>5, <1>3, <1>6
<1>8. CASE t = 1
  <2>1. Least(2, t) = 1
    BY <1>8, LeastIs
  <2>2. n = p + setup.first /\ Costs(t) = p + setup.first
    <3>1. (1 - 1) * setup.more = 0
      BY <1>3
    <3> QED BY <3>1, <1>2, <1>3, <1>4, <1>8, <2>1 DEF Costs, Pieces
  <2>3. s # <<>> /\ Len(s) = 1 /\ s[1] = setup.first /\ Sum(s) = setup.first
    BY <1>1, <1>8, SamplesAre
  <2>4. f = setup.first
    <3>1. f = s[1] + (t - 1) * 0
      BY <1>4, <2>3 DEF _extrapolate_full_graph_memory
    <3> QED BY <3>1, <2>3, <1>3, <1>8
  <2>5. r = p + setup.first
    BY <1>4, <2>2, <2>3, <2>4, <1>3
  <2> QED BY <2>2, <2>5, <1>3, <1>6
<1>9. CASE t > 1
  <2>1. Least(2, t) = 2
    BY <1>1, <1>9, LeastIs
  <2>2. PICK x, y : x = (t - 1) * setup.more /\ y = (t - 1) * Max({setup.more, 1})
    OBVIOUS
  <2>3. x \in Nat /\ y \in Nat /\ x <= y
    <3>1. PICK k : k = t - 1
      OBVIOUS
    <3>2. k \in Nat
      BY <3>1, <1>1, <1>9
    <3>3. x = k * setup.more /\ y = k * Max({setup.more, 1})
      BY <2>2, <3>1
    <3> QED BY <3>2, <3>3, <1>3, TimesLarger
  <2>4. n = p + (setup.first + setup.more)
    <3>1. (2 - 1) * setup.more = setup.more
      BY <1>3
    <3> QED BY <3>1, <1>2, <1>3, <1>4, <2>1 DEF Costs, Pieces
  <2>5. Costs(t) = p + (setup.first + x)
    BY <1>1, <1>2, <1>3, <1>9, <2>2 DEF Costs, Pieces
  <2>6. s # <<>> /\ Len(s) = 2 /\ s[1] = setup.first /\ s[2] = setup.more
        /\ Sum(s) = setup.first + setup.more
    BY <1>1, <1>9, SamplesAre
  <2>7. f = setup.first + y
    BY <1>4, <2>2, <2>6 DEF _extrapolate_full_graph_memory
  <2>8. r = p + (setup.first + y)
    BY <1>4, <2>3, <2>4, <2>6, <2>7, <1>3, SMTT(30)
  <2> QED BY <2>3, <2>5, <2>8, <1>3, <1>6
<1> QED BY <1>1, <1>7, <1>8, <1>9

LEMMA OneMore ==
  ASSUME NEW j \in Nat, NEW a \in Nat
  PROVE  (j + 1) * a = j * a + a
OBVIOUS

\* The estimate of V1 covers them too, but for the overlay of the two modes.
LEMMA EstimateV1Covers ==
  ASSUME setup \in Setups, V1, nonKv # 0
  PROVE  EstimateV1 \in Nat /\ Overlaid \in Nat /\ Costs(Fulls) <= EstimateV1 + Overlaid
<1>1. /\ setup.piece \in Nat /\ setup.first \in Nat /\ setup.more \in Nat /\ setup.drafter = 0
      /\ Fulls \in Nat /\ Pieces \in Nat
      /\ OfMode("FULL") = {} <=> Fulls = 0
      /\ OfMode("PIECEWISE") = {} <=> Pieces = 0
  <2>1. setup.drafter = 0
    BY SetupIs DEF IsV1
  <2> QED BY <2>1, SetupIs, OfModeIs DEF Fulls, Pieces
<1>2. PICK x, y, u, v :
        /\ x = IF Pieces = 0 THEN 0 ELSE setup.piece
        /\ y = IF Fulls = 0 THEN 0 ELSE setup.first
        /\ u = IF Pieces <= 1 THEN 0 ELSE (Pieces - 1) * Max({setup.piece, 1})
        /\ v = IF Fulls <= 1 THEN 0 ELSE (Fulls - 1) * Max({setup.more, 1})
  OBVIOUS
<1>3. EstimateV1 = Max({x, y}) + u + v
  BY <1>1, <1>2 DEF EstimateV1, Fulls, Pieces
<1>4. ASSUME NEW k \in Nat, NEW a \in Nat, NEW w,
             w = IF k <= 1 THEN 0 ELSE (k - 1) * Max({a, 1})
      PROVE  w \in Nat /\ (k > 0 => (k - 1) * a \in Nat /\ (k - 1) * a <= w)
  <2>1. CASE k > 0
    <3>1. PICK j : j = k - 1
      OBVIOUS
    <3>2. j \in Nat
      BY <3>1, <2>1
    <3>3. j * Max({a, 1}) \in Nat /\ j * a <= j * Max({a, 1}) /\ j * a \in Nat
      BY <3>2, TimesLarger
    <3>4. CASE k = 1
      <4>1. j = 0 /\ w = 0
        BY <3>1, <3>4, <1>4
      <4>2. j * a = 0
        BY <4>1
      <4> QED BY <3>1, <4>1, <4>2
    <3>5. CASE k # 1
      <4>1. w = j * Max({a, 1})
        BY <3>1, <3>5, <2>1, <1>4
      <4> QED BY <3>1, <3>3, <4>1
    <3> QED BY <3>4, <3>5
  <2>2. CASE ~(k > 0)
    BY <2>2, <1>4
  <2> QED BY <2>1, <2>2
<1>5. u \in Nat /\ (Pieces > 0 => (Pieces - 1) * setup.piece \in Nat
                                  /\ (Pieces - 1) * setup.piece <= u)
  BY <1>1, <1>2, <1>4
<1>6. v \in Nat /\ (Fulls > 0 => (Fulls - 1) * setup.more \in Nat
                                 /\ (Fulls - 1) * setup.more <= v)
  BY <1>1, <1>2, <1>4
<1>7. PICK z : z = Max({x, y})
  OBVIOUS
<1>8. x \in Nat /\ y \in Nat /\ z \in Nat /\ x <= z /\ y <= z /\ (z = x \/ z = y)
  <2>1. x \in Nat /\ y \in Nat
    BY <1>1, <1>2
  <2> QED BY <1>7, <2>1, MaxOfTwo
<1>9. PICK o : o = Overlaid
  OBVIOUS
<1>10. o \in Nat /\ x + y <= z + o
  <2>1. o = IF Pieces # 0 /\ Fulls # 0 THEN Least(setup.piece, setup.first) ELSE 0
    BY <1>1, <1>9 DEF Overlaid
  <2>2. CASE Pieces # 0 /\ Fulls # 0
    <3>1. o = Least(x, y)
      BY <2>1, <2>2, <1>2
    <3>2. o \in {x, y} /\ (x <= y => o = x) /\ (y <= x => o = y)
      BY <3>1, <1>8, LeastIs
    <3> QED BY <3>2, <1>8
  <2>3. CASE ~(Pieces # 0 /\ Fulls # 0)
    <3>1. o = 0 /\ (x = 0 \/ y = 0)
      BY <2>1, <2>3, <1>2
    <3> QED BY <3>1, <1>8
  <2> QED BY <2>2, <2>3
<1>11. PICK p, q : p = Pieces * setup.piece /\ q = (Fulls - 1) * setup.more
  OBVIOUS
<1>12. p \in Nat /\ p <= x + u
  <2>1. CASE Pieces = 0
    <3>1. p = 0
      BY <1>1, <1>11, <2>1
    <3> QED BY <3>1, <1>5, <1>8
  <2>2. CASE Pieces # 0
    <3>1. PICK j : j = Pieces - 1
      OBVIOUS
    <3>2. j \in Nat /\ Pieces = j + 1 /\ x = setup.piece
      BY <3>1, <2>2, <1>1, <1>2
    <3>3. (j + 1) * setup.piece = j * setup.piece + setup.piece
      BY <3>2, <1>1, OneMore
    <3>4. j * setup.piece \in Nat /\ j * setup.piece <= u
      BY <3>1, <2>2, <1>1, <1>5
    <3>5. PICK r : r = j * setup.piece
      OBVIOUS
    <3>6. p = r + setup.piece
      BY <1>11, <3>2, <3>3, <3>5
    <3> QED BY <3>2, <3>4, <3>5, <3>6, <1>1, <1>5
  <2> QED BY <2>1, <2>2
<1>13. Costs(Fulls) = p + (IF Fulls = 0 THEN 0 ELSE setup.first + q)
  BY <1>1, <1>11, <1>12 DEF Costs, Pieces
<1>14. Costs(Fulls) <= p + y + v
  <2>1. CASE Fulls = 0
    BY <2>1, <1>2, <1>6, <1>12, <1>13
  <2>2. CASE Fulls # 0
    <3>1. y = setup.first /\ q \in Nat /\ q <= v
      BY <2>2, <1>1, <1>2, <1>6, <1>11
    <3> QED BY <3>1, <2>2, <1>1, <1>6, <1>12, <1>13
  <2> QED BY <2>1, <2>2
<1>15. Costs(Fulls) \in Nat
  BY <1>1, CostsAre
<1> QED BY <1>3, <1>5, <1>6, <1>7, <1>8, <1>9, <1>10, <1>12, <1>14, <1>15

-----------------------------------------------------------------------------
(* V1: the runs that record, and those that warm up.                       *)

\* A descriptor is its fields; graphs that fit any batch have one of the sizes.
LEMMA DescFields ==
  ASSUME NEW m, IsManager(m), NEW d \in capture_descs(m)
  PROVE  /\ d = [mode |-> d.mode, tokens |-> d.tokens, reqs |-> d.reqs,
                 uniform |-> d.uniform, query |-> d.query, loras |-> d.loras]
         /\ d.uniform = 0 => d.tokens \in m.sizes
         /\ d.mode = "PIECEWISE" => m.mode # "FULL"
<1>1. /\ m.mode \in {"NONE", "PIECEWISE", "FULL", "FULL_DECODE_ONLY", "FULL_AND_PIECEWISE"}
      /\ m.queryLens \subseteq Nat \ {0}
  BY DEF IsManager
<1>2. CASE d \in MixedDescs(m)
  <2>1. PICK n \in m.sizes, l \in m.loras :
          d = [mode |-> mixed_mode(m), tokens |-> n,
               reqs |-> IF mixed_mode(m) = "FULL" THEN Smaller(n, m.maxReqs) ELSE 0,
               uniform |-> 0, query |-> 0, loras |-> l]
    BY <1>2 DEF MixedDescs
  <2>2. mixed_mode(m) = "PIECEWISE" => m.mode # "FULL"
    BY <1>1 DEF mixed_mode
  <2> QED BY <2>1, <2>2
<1>3. CASE d \in VarlenDescs(m)
  <2>1. PICK n \in m.sizes, l \in m.loras :
          d = [mode |-> "FULL", tokens |-> n, reqs |-> Smaller(n, m.maxReqs), uniform |-> 0,
               query |-> m.queryLen, loras |-> l]
    BY <1>3 DEF VarlenDescs
  <2> QED BY <2>1
<1>4. CASE d \in UniformDescs(m)
  <2>1. PICK n \in m.sizes, q \in m.queryLens, l \in m.loras :
          d = [mode |-> "FULL", tokens |-> RoundUp(n, q), reqs |-> RoundUp(n, q) \div q,
               uniform |-> q, query |-> 0, loras |-> l]
    BY <1>4 DEF UniformDescs
  <2>2. q # 0
    BY <1>1
  <2> QED BY <2>1, <2>2
<1> QED BY <1>2, <1>3, <1>4 DEF capture_descs

LEMMA DivUnique ==
  ASSUME NEW n \in Nat, NEW k \in Nat, NEW q \in Nat, q > 0, k * q <= n, n < k * q + q
  PROVE  n \div q = k
<1>1. PICK d : d = n \div q
  OBVIOUS
<1>2. d \in Nat /\ d * q <= n /\ n < d * q + q
  BY <1>1, DivIs
<1>3. (d + 1) * q = d * q + q /\ (k + 1) * q = k * q + q
  BY <1>2, OneMore
<1>4. PICK x, y : x = d * q /\ y = k * q
  OBVIOUS
<1>5. x \in Nat /\ y \in Nat /\ x <= n /\ n < x + q /\ y <= n /\ n < y + q
  BY <1>2, <1>4
<1>6. ~(d < k)
  <2> SUFFICES ASSUME d < k PROVE FALSE
    OBVIOUS
  <2>1. d + 1 \in Nat /\ d + 1 <= k
    BY <1>2
  <2>2. q * (d + 1) <= q * k
    BY <2>1, TimesGrows
  <2>3. (d + 1) * q <= k * q
    BY <2>1, <2>2
  <2>4. x + q <= y
    BY <1>3, <1>4, <2>3
  <2> QED BY <2>4, <1>5
<1>7. ~(k < d)
  <2> SUFFICES ASSUME k < d PROVE FALSE
    OBVIOUS
  <2>1. k + 1 \in Nat /\ k + 1 <= d
    BY <1>2
  <2>2. q * (k + 1) <= q * d
    BY <2>1, <1>2, TimesGrows
  <2>3. (k + 1) * q <= d * q
    BY <2>1, <2>2, <1>2
  <2>4. y + q <= x
    BY <1>3, <1>4, <2>3
  <2> QED BY <2>4, <1>5
<1> QED BY <1>1, <1>2, <1>6, <1>7

EvenTokens(k) == k * mgr.queryLen
EvenList(n) == num_scheduled_tokens_list(n, TRUE)
MixedList(n) == num_scheduled_tokens_list(n, FALSE)

\* Decodes of the uniform length: k requests take k times the length.
LEMMA SplitUniform ==
  ASSUME IsManager(mgr), NEW k \in 1 .. mgr.maxReqs, NEW n, n = EvenTokens(k),
         NEW s, s = EvenList(n)
  PROVE  Len(s) = k /\ Sum(s) = n
<1>1. PICK q : q = mgr.queryLen
  OBVIOUS
<1>2. q \in Nat /\ q > 0 /\ k \in Nat /\ k > 0 /\ mgr.maxReqs \in Nat /\ k <= mgr.maxReqs
  BY <1>1 DEF IsManager
<1>3. n = k * q /\ n \in Nat
  BY <1>1, <1>2 DEF EvenTokens
<1>4. (n + q - 1) \div q = k /\ n \div q = k
  <2>1. n + q - 1 \in Nat /\ k * q <= n + q - 1 /\ n + q - 1 < k * q + q
        /\ k * q <= n /\ n < k * q + q
    BY <1>2, <1>3
  <2> QED BY <2>1, <1>2, <1>3, DivUnique
<1>5. n % q = 0
  <2>1. n = (q * (n \div q)) + (n % q)
    BY <1>2, <1>3
  <2>2. q * k = n
    BY <1>2, <1>3
  <2>3. n = n + (n % q)
    BY <2>1, <2>2, <1>4
  <2>4. n % q \in Nat
    BY <1>2, <1>3
  <2> QED BY <2>3, <2>4, <1>3
<1>6. Least(mgr.maxReqs, CeilDiv(n, q)) = k
  BY <1>2, <1>4, LeastIs DEF CeilDiv
<1>7. s = [i \in 1 .. k |-> q]
  BY <1>1, <1>5, <1>6 DEF EvenList, num_scheduled_tokens_list
<1>8. s = [i \in 1 .. k |-> s[i]]
  BY <1>7
<1>9. Len(s) = k
  BY <1>2, <1>8, LenOfFunction
<1>10. PICK z \in Nat : z = 0
  OBVIOUS
<1>11. \A i \in 1 .. k : s[i] = IF i = k THEN q + z ELSE q
  BY <1>2, <1>7, <1>10
<1>12. IsSplit(s, k, q, z)
  BY <1>9, <1>11 DEF IsSplit
<1>13. Sum(s) = (k * q) + z
  BY <1>2, <1>12, SumOfSame
<1> QED BY <1>3, <1>9, <1>10, <1>13

\* Any batch: as many requests as there may be, the last takes what is left.
LEMMA SplitMixed ==
  ASSUME IsManager(mgr), NEW n \in Nat, n > 0,
         NEW s, s = MixedList(n)
  PROVE  Len(s) \in 1 .. mgr.maxReqs /\ Len(s) <= n /\ Sum(s) = n
<1>1. PICK k : k = Least(mgr.maxReqs, n)
  OBVIOUS
<1>2. mgr.maxReqs \in Nat /\ mgr.maxReqs > 0
  BY DEF IsManager
<1>3. k \in Nat /\ k > 0 /\ k <= n /\ k <= mgr.maxReqs
  BY <1>1, <1>2, LeastIs
<1>4. PICK q, x : q = n \div k /\ x = n % k
  OBVIOUS
<1>5. q \in Nat /\ x \in Nat /\ n = (k * q) + x
  BY <1>3, <1>4
<1>6. s = [i \in 1 .. k |-> q + (IF i = k THEN x ELSE 0)]
  BY <1>1, <1>4 DEF MixedList, num_scheduled_tokens_list
<1>7. s = [i \in 1 .. k |-> s[i]]
  BY <1>6
<1>8. Len(s) = k
  BY <1>3, <1>7, LenOfFunction
<1>9. ASSUME NEW i \in 1 .. k PROVE s[i] = IF i = k THEN q + x ELSE q
  <2>1. s[i] = q + (IF i = k THEN x ELSE 0)
    BY <1>6
  <2> QED BY <2>1, <1>5
<1>10. Sum(s) = (k * q) + x
  <2>1. IsSplit(s, k, q, x)
    BY <1>8, <1>9 DEF IsSplit
  <2> QED BY <2>1, <1>3, <1>5, SumOfSame
<1>11. Len(s) \in 1 .. mgr.maxReqs /\ Len(s) <= n
  BY <1>2, <1>3, <1>8
<1> QED BY <1>5, <1>10, <1>11

\* The batch of a run, and the graph it gets: the run is dispatched as it is.
EvenBatch(k, n) ==
    [reqs |-> k, tokens |-> n, query |-> mgr.queryLen, loras |-> 0, uniform |-> mgr.queryLen]
MixedBatch(k, n) == [reqs |-> k, tokens |-> n, query |-> n, loras |-> 0, uniform |-> 0]

EvenRun(n) == DummyRunV1(n, TRUE, 0)
MixedRun(n) == DummyRunV1(n, FALSE, 0)

NoLoras(l) == l = _resolve_effective_loras(mgr, 0)

LEMMA EvenRunIs ==
  ASSUME NEW n, NEW k, k = Len(EvenList(n)), NEW e, e = EvenRun(n), NEW l, NoLoras(l)
  PROVE  Chosen(mgr, keys # {}, EvenBatch(k, n), l, e)
<1>1. e = dispatch(mgr, keys # {}, EvenBatch(k, n))
  <2>1. [Batch(k, n, mgr.queryLen, TRUE, 0) EXCEPT !.uniform = mgr.queryLen] = EvenBatch(k, n)
    BY DEF Batch, EvenBatch
  <2>2. e = _determine_batch_execution_and_padding(Batch(k, n, mgr.queryLen, TRUE, 0), TRUE)
    BY DEF EvenRun, DummyRunV1, EvenList
  <2> QED BY <2>1, <2>2 DEF _determine_batch_execution_and_padding
<1>2. l = _resolve_effective_loras(mgr, EvenBatch(k, n).loras)
  BY DEF EvenBatch, NoLoras
<1> QED BY <1>1, <1>2, DispatchIs

LEMMA MixedRunIs ==
  ASSUME NEW n, NEW k, k = Len(MixedList(n)), NEW e, e = MixedRun(n), NEW l, NoLoras(l)
  PROVE  Chosen(mgr, keys # {}, MixedBatch(k, n), l, e)
<1>1. e = dispatch(mgr, keys # {}, MixedBatch(k, n))
  <2>1. [Batch(k, n, n, TRUE, 0) EXCEPT !.uniform = 0] = MixedBatch(k, n)
    BY DEF Batch, MixedBatch
  <2>2. e = _determine_batch_execution_and_padding(Batch(k, n, n, TRUE, 0), FALSE)
    BY DEF MixedRun, DummyRunV1, MixedList
  <2> QED BY <2>1, <2>2 DEF _determine_batch_execution_and_padding
<1>2. l = _resolve_effective_loras(mgr, MixedBatch(k, n).loras)
  BY DEF MixedBatch, NoLoras
<1> QED BY <1>1, <1>2, DispatchIs

\* Without varlen and dynamic speculation the tokens tell the graphs of a mode apart.
LEMMA SameDesc ==
  ASSUME NEW m, IsManager(m), ~m.varlen, m.queryLens = {m.queryLen},
         NEW d \in capture_descs(m), NEW e \in capture_descs(m),
         e.mode = d.mode, e.tokens = d.tokens, e.loras = d.loras
  PROVE  e = d
<1>1. DescOK(d, m) /\ DescOK(e, m)
  BY DescIs
<1>2. m.queryLen \in Nat /\ m.queryLen > 0 /\ m.maxReqs \in Nat
  BY DEF IsManager
<1>3. e.reqs = d.reqs /\ e.uniform = d.uniform /\ e.query = d.query
  <2>1. CASE d.mode = "PIECEWISE"
    BY <1>1, <2>1 DEF DescOK
  <2>2. CASE d.mode = "FULL" /\ m.mode = "FULL"
    BY <1>1, <2>2 DEF DescOK, FullShape, AnyShape
  <2>3. CASE d.mode = "FULL" /\ m.mode # "FULL"
    <3>1. EvenShape(d, m) /\ EvenShape(e, m)
      BY <1>1, <2>3 DEF DescOK, FullShape
    <3>2. PICK q : q = m.queryLen
      OBVIOUS
    <3>3. /\ d.uniform = q /\ e.uniform = q /\ d.query = 0 /\ e.query = 0
          /\ d.reqs \in Nat /\ e.reqs \in Nat /\ d.reqs * q = e.reqs * q
      BY <1>2, <3>1, <3>2 DEF EvenShape
    <3>4. d.reqs * q \in Nat /\ d.reqs * q <= e.reqs * q /\ e.reqs * q <= d.reqs * q
      BY <1>2, <3>2, <3>3
    <3>5. d.reqs <= e.reqs /\ e.reqs <= d.reqs
      BY <1>2, <3>2, <3>3, <3>4, TimesCancels
    <3> QED BY <3>3, <3>5
  <2> QED BY <1>1, <2>1, <2>2, <2>3 DEF DescOK
<1>4. /\ d = [mode |-> d.mode, tokens |-> d.tokens, reqs |-> d.reqs,
              uniform |-> d.uniform, query |-> d.query, loras |-> d.loras]
      /\ e = [mode |-> e.mode, tokens |-> e.tokens, reqs |-> e.reqs,
              uniform |-> e.uniform, query |-> e.query, loras |-> e.loras]
  BY DescFields
<1> QED BY <1>3, <1>4

\* A batch that a graph has exactly the tokens of is run with that graph.
LEMMA RunIs ==
  ASSUME NEW m, IsManager(m), ~m.varlen, m.queryLens = {m.queryLen},
         NEW b, IsBatch(b, m), b.tokens > 0, b.loras = 0,
         NEW d \in capture_descs(m), d.tokens = b.tokens, _is_compatible(d, b, 0),
         NEW c, c = capture_descs(m), NEW e, Chosen(m, c # {}, b, 0, e),
         d.mode = "FULL" \/ (d.mode = "PIECEWISE" /\ b.uniform = 0)
  PROVE  e = d
<1>1. b.tokens \in Nat /\ b.loras = 0
  BY DEF IsBatch
<1>2. c # {}
  OBVIOUS
<1>3. Fit(m, d.mode, b, 0) # {}
  BY FitFound
<1>4. d.loras = 0
  BY DEF _is_compatible
<1>5. ASSUME e \in Fit(m, d.mode, b, 0) PROVE e = d
  <2>1. /\ e \in capture_descs(m) /\ e.mode = d.mode /\ e.loras = 0
        /\ \A f \in capture_descs(m) :
              f.mode = d.mode /\ f.loras = 0 /\ b.tokens <= f.tokens => e.tokens <= f.tokens
    BY <1>1, <1>5, FitServes
  <2>2. b.tokens <= e.tokens
    BY <1>5, <1>1 DEF Fit, Candidates
  <2>3. e.tokens \in Nat
    <3>1. m.maxSize \in Nat
      BY DEF IsManager
    <3> QED BY <2>1, <3>1, DescIs DEF DescOK
  <2>4. e.tokens <= d.tokens
    BY <2>1, <1>1, <1>4
  <2>5. e.tokens = d.tokens
    BY <2>2, <2>3, <2>4, <1>1
  <2> QED BY <2>1, <2>5, <1>4, SameDesc
<1>6. CASE d.mode = "FULL"
  <2>1. e \in Fit(m, "FULL", b, 0)
    BY <1>2, <1>3, <1>6 DEF Chosen
  <2> QED BY <2>1, <1>5, <1>6
<1>7. CASE d.mode = "PIECEWISE" /\ b.uniform = 0
  <2>1. Fit(m, "FULL", b, 0) = {}
    <3> SUFFICES ASSUME NEW f \in Fit(m, "FULL", b, 0) PROVE FALSE
      OBVIOUS
    <3>1. f \in capture_descs(m) /\ f.mode = "FULL" /\ f.uniform = 0
      BY <1>7 DEF Fit, Candidates, _is_compatible
    <3>2. m.mode # "FULL"
      BY <1>7, DescFields
    <3>3. f.uniform \in m.queryLens
      BY <3>1, <3>2, DescIs DEF DescOK, FullShape, EvenShape
    <3> QED BY <3>1, <3>3 DEF IsManager
  <2>2. e \in Fit(m, "PIECEWISE", b, 0)
    BY <2>1, <1>2, <1>3, <1>7 DEF Chosen
  <2> QED BY <2>2, <1>5, <1>7
<1> QED BY <1>6, <1>7

\* Each run of a capture records the graph it is made for, and its assertions hold.
LEMMA RunRecords ==
  ASSUME setup \in Setups, V1, keys = capture_descs(mgr), NEW d \in capture_descs(mgr)
  PROVE  RunOf(d) = d /\ AssertsHold(d)
<1>1. PICK m : m = mgr
  OBVIOUS
<1>2. IsManager(m) /\ ~m.varlen /\ m.queryLens = {m.queryLen} /\ m.loras = {0}
  BY <1>1, SetupIs DEF IsV1, mgr
<1>3. /\ m.queryLen \in Nat /\ m.queryLen > 0 /\ m.maxReqs \in Nat /\ m.maxReqs > 0
      /\ m.maxSize \in Nat
  BY <1>2 DEF IsManager
<1>4. DescOK(d, m)
  BY <1>1, <1>2, DescIs
<1>5. d.tokens \in Nat /\ d.tokens > 0 /\ d.loras = 0
  BY <1>2, <1>3, <1>4 DEF DescOK
<1>6. NoLoras(0)
  BY DEF NoLoras, _resolve_effective_loras
<1>7. PICK n : n = d.tokens
  OBVIOUS
<1>8. CASE d.uniform # 0
  <2>1. d.mode = "FULL" /\ EvenShape(d, m)
    BY <1>8, <1>4 DEF DescOK, FullShape, AnyShape
  <2>2. d.reqs \in 1 .. m.maxReqs /\ d.query = 0 /\ d.uniform = m.queryLen
        /\ d.tokens = d.reqs * m.queryLen
    BY <2>1, <1>2 DEF EvenShape
  <2>3. PICK k : k = d.reqs
    OBVIOUS
  <2>4. Len(EvenList(n)) = k /\ Sum(EvenList(n)) = n
    <3>1. n = EvenTokens(k) /\ k \in 1 .. mgr.maxReqs /\ IsManager(mgr)
      BY <1>1, <1>2, <1>7, <2>2, <2>3 DEF EvenTokens
    <3> QED BY <3>1, SplitUniform
  <2>5. PICK b : b = EvenBatch(k, n)
    OBVIOUS
  <2>6. b = [reqs |-> k, tokens |-> n, query |-> m.queryLen, loras |-> 0,
             uniform |-> m.queryLen]
    BY <1>1, <2>5 DEF EvenBatch
  <2>7. IsBatch(b, m)
    <3>1. k \in Nat /\ k * m.queryLen = n /\ k <= n
      <4>1. k * 1 <= k * m.queryLen
        BY <1>3, <2>2, <2>3, TimesGrows
      <4> QED BY <4>1, <1>3, <1>7, <2>2, <2>3
    <3> QED BY <3>1, <1>3, <1>5, <1>7, <2>2, <2>3, <2>6 DEF IsBatch
  <2>8. _is_compatible(d, b, 0)
    BY <1>3, <1>5, <1>7, <2>2, <2>3, <2>6 DEF _is_compatible
  <2>9. PICK e : e = EvenRun(n)
    OBVIOUS
  <2>10. Chosen(mgr, keys # {}, b, 0, e)
    BY <1>6, <2>4, <2>5, <2>9, EvenRunIs
  <2>11. e = d
    <3>1. b.tokens = n /\ b.loras = 0
      BY <2>6
    <3>2. PICK c : c = keys
      OBVIOUS
    <3>3. Chosen(m, c # {}, b, 0, e) /\ c = capture_descs(m) /\ d \in capture_descs(m)
      BY <1>1, <2>10, <3>2
    <3> QED BY <3>1, <3>3, <1>2, <1>5, <1>7, <2>1, <2>7, <2>8, RunIs
  <2>12. (d.uniform # 0) = TRUE
    BY <1>8
  <2>13. RunOf(d) = d
    BY <1>5, <1>7, <2>9, <2>11, <2>12, Zenon DEF RunOf, EvenRun
  <2>14. Sum(num_scheduled_tokens_list(d.tokens, d.uniform # 0)) = d.tokens
    BY <1>7, <2>4, <2>12, Zenon DEF EvenList
  <2> QED BY <2>13, <2>14 DEF AssertsHold
<1>9. CASE d.uniform = 0
  <2>1. d.mode = "PIECEWISE" \/ d.mode = "FULL"
    BY <1>4 DEF DescOK
  <2>2. d.query = 0 /\ (d.reqs = 0 \/ d.reqs = Smaller(d.tokens, m.maxReqs))
    <3>1. CASE d.mode = "PIECEWISE"
      BY <1>4, <3>1 DEF DescOK
    <3>2. CASE d.mode = "FULL"
      <4>1. ~EvenShape(d, m)
        BY <1>2, <1>3, <1>9 DEF EvenShape
      <4> QED BY <1>2, <1>4, <3>2, <4>1 DEF DescOK, FullShape, AnyShape
    <3> QED BY <2>1, <3>1, <3>2
  <2>3. PICK k : k = Len(MixedList(n))
    OBVIOUS
  <2>4. k \in 1 .. m.maxReqs /\ k <= n /\ Sum(MixedList(n)) = n
    BY <1>1, <1>2, <1>5, <1>7, <2>3, SplitMixed
  <2>5. PICK b : b = MixedBatch(k, n)
    OBVIOUS
  <2>6. b = [reqs |-> k, tokens |-> n, query |-> n, loras |-> 0, uniform |-> 0]
    BY <2>5 DEF MixedBatch
  <2>7. IsBatch(b, m)
    BY <1>5, <1>7, <2>4, <2>6 DEF IsBatch
  <2>8. _is_compatible(d, b, 0)
    BY <1>3, <1>5, <1>7, <1>9, <2>2, <2>4, <2>6 DEF _is_compatible, Smaller
  <2>9. PICK e : e = MixedRun(n)
    OBVIOUS
  <2>10. Chosen(mgr, keys # {}, b, 0, e)
    BY <1>6, <2>3, <2>5, <2>9, MixedRunIs
  <2>11. e = d
    <3>1. b.tokens = n /\ b.loras = 0 /\ b.uniform = 0
      BY <2>6
    <3>2. PICK c : c = keys
      OBVIOUS
    <3>3. Chosen(m, c # {}, b, 0, e) /\ c = capture_descs(m) /\ d \in capture_descs(m)
      BY <1>1, <2>10, <3>2
    <3> QED BY <3>1, <3>3, <1>2, <1>5, <1>7, <2>1, <2>7, <2>8, RunIs
  <2>12. (d.uniform # 0) = FALSE
    BY <1>9
  <2>13. RunOf(d) = d
    BY <1>5, <1>7, <2>9, <2>11, <2>12, Zenon DEF RunOf, MixedRun
  <2>14. Sum(num_scheduled_tokens_list(d.tokens, d.uniform # 0)) = d.tokens
    BY <1>7, <2>4, <2>12, Zenon DEF MixedList
  <2> QED BY <2>13, <2>14 DEF AssertsHold
<1> QED BY <1>8, <1>9

\* A warm-up run with a size that no graph has is run without one.
LEMMA WarmRunIs ==
  ASSUME setup \in Setups, V1, keys = capture_descs(mgr), setup.compile.on,
         NEW n \in warmup_sizes(setup.compile), NEW e, e = MixedRun(n)
  PROVE  e.mode = "NONE" /\ e.tokens = n
<1>1. PICK m, c : m = mgr /\ c = setup.compile
  OBVIOUS
<1>2. IsManager(m) /\ (m.mode # "NONE" =>
        /\ c.sizes \subseteq m.sizes
        /\ \A r \in c.ranges : \/ \A s \in m.sizes : s < r[2]
                               \/ \E s \in m.sizes : s \in r[1] .. r[2])
  BY <1>1, SetupIs DEF IsV1, NoGap, mgr
<1>3. NoLoras(0)
  BY DEF NoLoras, _resolve_effective_loras
<1>4. PICK k : k = Len(MixedList(n))
  OBVIOUS
<1>5. PICK b : b = MixedBatch(k, n)
  OBVIOUS
<1>6. b.tokens = n /\ b.uniform = 0
  BY <1>5 DEF MixedBatch
<1>7. Chosen(m, keys # {}, b, 0, e)
  BY <1>1, <1>3, <1>4, <1>5, MixedRunIs
<1>8. ASSUME keys # {}, NEW mode, NEW f \in Fit(m, mode, b, 0) PROVE FALSE
  <2>1. m.mode # "NONE"
    <3> SUFFICES ASSUME m.mode = "NONE" PROVE FALSE
      OBVIOUS
    <3>1. capture_descs(m) = {}
      BY DEF capture_descs, separate_routine, mixed_mode
    <3> QED BY <3>1, <1>1, <1>8
  <2>2. PICK r \in c.ranges : n = r[2] /\ \A s \in m.sizes : s \notin r[1] .. r[2]
    <3>1. c.sizes \ m.sizes = {}
      BY <1>2, <2>1
    <3> QED BY <1>1, <2>1, <3>1 DEF warmup_sizes
  <2>3. \A s \in m.sizes : s < n
    BY <1>2, <2>1, <2>2
  <2>4. f \in capture_descs(m) /\ f.uniform = 0 /\ n <= f.tokens
    BY <1>6, <1>8 DEF Fit, Candidates, _is_compatible
  <2>5. f.tokens \in m.sizes
    BY <1>2, <2>4, DescFields
  <2>6. n \in Nat /\ f.tokens \in Nat
    <3>1. n \in Nat
      BY <1>1, <2>2, SetupsAssumption
    <3> QED BY <3>1, <2>5, <1>2 DEF IsManager
  <2> QED BY <2>3, <2>4, <2>5, <2>6
<1>9. e = [mode |-> "NONE", tokens |-> b.tokens, reqs |-> b.reqs, uniform |-> 0,
           query |-> 0, loras |-> 0]
  BY <1>7, <1>8 DEF Chosen
<1> QED BY <1>6, <1>9

-----------------------------------------------------------------------------
(* The reserve for one request.                                            *)

LEMMA CeilIsNat ==
  ASSUME NEW n \in Nat, NEW k \in Nat, k > 0
  PROVE  CeilDiv(n, k) \in Nat
<1>1. n + k - 1 \in Nat
  OBVIOUS
<1> QED BY <1>1, DivIs DEF CeilDiv

LEMMA TotalIs ==
  ASSUME NEW w, IsWarmup(w), NEW n, n = w.maxLen
  PROVE  TotalFor(w, n) \in Nat
<1>1. w.ahead \in Nat /\ w.maxLen \in Nat /\ w.encLen \in Nat /\ Len(w.groups) \in Nat
      /\ w.groups = [g \in 1 .. Len(w.groups) |-> w.groups[g]]
      /\ \A g \in 1 .. Len(w.groups) : /\ w.groups[g].bs \in Nat \ {0}
                                       /\ w.groups[g].spec \in Nat
  BY DEF IsWarmup
<1>2. DOMAIN w.groups = 1 .. Len(w.groups)
  BY <1>1
<1>3. PICK k, s : k = Len(w.groups) /\ s = CountsFor(w, n)
  OBVIOUS
<1>4. s = [g \in 1 .. k |-> _reserved_block_count(w, n, w.groups[g])]
  BY <1>2, <1>3 DEF CountsFor
<1>5. s = [g \in 1 .. k |-> s[g]]
  BY <1>4
<1>6. Len(s) = k
  BY <1>1, <1>3, <1>5, LenOfFunction
<1>7. ASSUME NEW g \in 1 .. k PROVE s[g] \in Nat
  <2>1. PICK v, b : v = w.groups[g] /\ b = v.bs
    OBVIOUS
  <2>2. b \in Nat /\ b > 0 /\ v.spec \in Nat
    BY <1>1, <1>3, <2>1
  <2>3. PICK l : l = Least(n + w.ahead, w.maxLen)
    OBVIOUS
  <2>4. l \in Nat
    BY <1>1, <2>3, LeastIs
  <2>5. CeilDiv(w.encLen, b) \in Nat /\ CeilDiv(n, b) \in Nat /\ CeilDiv(l, b) \in Nat
    BY <1>1, <2>2, <2>4, CeilIsNat
  <2>6. s[g] = _reserved_block_count(w, n, v)
    BY <1>4, <2>1
  <2> QED BY <2>1, <2>2, <2>3, <2>5, <2>6 DEF _reserved_block_count
<1>8. Sum(s) \in Nat
  BY <1>1, <1>3, <1>6, <1>7, SumIsNat
<1> QED BY <1>3, <1>8 DEF TotalFor

-----------------------------------------------------------------------------
(* What the recursive functions of Warmup come to, step by step.           *)

Delta(w, s, i, after, g) == CountsFor(w, after)[g] - Cardinality(s.held[i][g])

\* What a step that ends with the blocks of x makes of s.
StepIs(s, batch, x, t) ==
    t = [next |-> x.next, held |-> x.held, batch |-> batch,
         computed |-> [i \in DOMAIN s.computed |->
                          s.computed[i] + (IF i <= Len(batch) THEN batch[i] ELSE 0)]]

\* The states of a warm-up with these steps.
StatesAre(w, n, f) ==
    warmup_kernels(w) = IF w.pooling THEN <<Prefilled(w)>> ELSE [k \in 1 .. n + 1 |-> f[k - 1]]

GrownBy(f, w, s, i, after) ==
    /\ f[0] = s
    /\ \A k \in 1 .. Len(w.groups) :
          f[k] = _alloc_blocks(f[k - 1], i, k, Delta(w, s, i, after, k))
    /\ Grown(w, s, i, after) = f[Len(w.groups)]

LEMMA GrownSteps ==
  ASSUME NEW w, Len(w.groups) \in Nat, NEW s, NEW i, NEW after
  PROVE  \E f : GrownBy(f, w, s, i, after)
<1> DEFINE Upto(g, d) == g[0] = s /\ \A k \in 1 .. Len(w.groups) : k <= d
                 => g[k] = _alloc_blocks(g[k - 1], i, k, Delta(w, s, i, after, k))
           T == {d \in Nat : \E g : Upto(g, d)}
<1>1. 0 \in T
  <2> DEFINE g == [k \in {0} |-> s]
  <2>1. g[0] = s /\ \A k \in 1 .. Len(w.groups) : ~ (k <= 0)
    OBVIOUS
  <2> HIDE DEF g
  <2> QED BY <2>1
<1>2. ASSUME NEW d \in T PROVE d + 1 \in T
  <2>1. PICK g : Upto(g, d)
    OBVIOUS
  <2>2. PICK j : j = d + 1
    OBVIOUS
  <2>3. PICK x : x = _alloc_blocks(g[j - 1], i, j, Delta(w, s, i, after, j))
    OBVIOUS
  <2> DEFINE f == [k \in 0 .. Len(w.groups) |-> IF k = j THEN x ELSE g[k]]
  <2>4. d \in Nat /\ j \in Nat /\ j > 0
    BY <2>2
  <2>5. f[0] = s
    BY <2>1, <2>4
  <2>6. ASSUME NEW k \in 1 .. Len(w.groups), k <= d + 1
        PROVE  f[k] = _alloc_blocks(f[k - 1], i, k, Delta(w, s, i, after, k))
    <3>1. k \in 0 .. Len(w.groups) /\ k - 1 \in 0 .. Len(w.groups) /\ k - 1 # j
      BY <2>2, <2>4, <2>6
    <3>2. f[k - 1] = g[k - 1] /\ f[k] = IF k = j THEN x ELSE g[k]
      BY <3>1
    <3> HIDE DEF f
    <3>3. CASE k = j
      BY <2>3, <3>2, <3>3
    <3>4. CASE k # j
      <4>1. k <= d
        BY <2>2, <2>4, <2>6, <3>4
      <4> QED BY <3>2, <3>4, <4>1, <2>1
    <3> QED BY <3>3, <3>4
  <2>7. Upto(f, d + 1)
    <3> HIDE DEF f
    <3> QED BY <2>5, <2>6
  <2> HIDE DEF Upto, f
  <2> QED BY <2>4, <2>7
<1>3. T = Nat
  <2>1. T \in SUBSET Nat
    OBVIOUS
  <2> HIDE DEF T
  <2> QED BY <2>1, <1>1, <1>2, SetInduction
<1>4. PICK g : Upto(g, Len(w.groups))
  BY <1>3
<1> DEFINE Rec(t) == [k \in 0 .. Len(w.groups) |-> IF k = 0 THEN s
                 ELSE _alloc_blocks(t[k - 1], i, k, Delta(w, s, i, after, k))]
           upto == CHOOSE t : t = Rec(t)
           f == [k \in 0 .. Len(w.groups) |-> g[k]]
<1>5. \A k \in 0 .. Len(w.groups) : f[k] = IF k = 0 THEN s
            ELSE _alloc_blocks(f[k - 1], i, k, Delta(w, s, i, after, k))
  <2> TAKE k \in 0 .. Len(w.groups)
  <2>1. CASE k = 0
    BY <2>1, <1>4
  <2>2. CASE k # 0
    <3>1. k \in 1 .. Len(w.groups) /\ k - 1 \in 0 .. Len(w.groups) /\ k <= Len(w.groups)
      BY <2>2
    <3>2. f[k] = g[k] /\ f[k - 1] = g[k - 1]
      BY <3>1
    <3> HIDE DEF f
    <3> QED BY <3>1, <3>2, <2>2, <1>4
  <2> QED BY <2>1, <2>2
<1>6. f = Rec(f)
  <2> SUFFICES \A k \in 0 .. Len(w.groups) : f[k] = Rec(f)[k]
    OBVIOUS
  <2> HIDE DEF f
  <2> QED BY <1>5
<1>7. upto = Rec(upto)
  <2> HIDE DEF f, Rec
  <2> QED BY <1>6
<1>8. \A k \in 0 .. Len(w.groups) : upto[k] = IF k = 0 THEN s
            ELSE _alloc_blocks(upto[k - 1], i, k, Delta(w, s, i, after, k))
  <2> HIDE DEF upto
  <2> QED BY <1>7
<1>9. Grown(w, s, i, after) = upto[Len(w.groups)]
  BY DEF Grown, Delta, upto
<1> HIDE DEF upto
<1>10. upto[0] = s
  BY <1>8
<1>11. ASSUME NEW k \in 1 .. Len(w.groups)
       PROVE  upto[k] = _alloc_blocks(upto[k - 1], i, k, Delta(w, s, i, after, k))
  <2>1. k \in 0 .. Len(w.groups) /\ k # 0
    OBVIOUS
  <2> QED BY <2>1, <1>8
<1>12. GrownBy(upto, w, s, i, after)
  BY <1>9, <1>10, <1>11 DEF GrownBy
<1> QED BY <1>12

SteppedBy(f, w, s, batch) ==
    /\ f[0] = s
    /\ \A k \in 1 .. Len(batch) : f[k] = Grown(w, f[k - 1], k, s.computed[k] + batch[k])
    /\ StepIs(s, batch, f[Len(batch)], Step(w, s, batch))

LEMMA StepSteps ==
  ASSUME NEW w, NEW s, NEW batch, Len(batch) \in Nat
  PROVE  \E f : SteppedBy(f, w, s, batch)
<1> DEFINE Upto(g, d) == g[0] = s /\ \A k \in 1 .. Len(batch) : k <= d
                 => g[k] = Grown(w, g[k - 1], k, s.computed[k] + batch[k])
           T == {d \in Nat : \E g : Upto(g, d)}
<1>1. 0 \in T
  <2> DEFINE g == [k \in {0} |-> s]
  <2>1. g[0] = s /\ \A k \in 1 .. Len(batch) : ~ (k <= 0)
    OBVIOUS
  <2> HIDE DEF g
  <2> QED BY <2>1
<1>2. ASSUME NEW d \in T PROVE d + 1 \in T
  <2>1. PICK g : Upto(g, d)
    OBVIOUS
  <2>2. PICK j : j = d + 1
    OBVIOUS
  <2>3. PICK x : x = Grown(w, g[j - 1], j, s.computed[j] + batch[j])
    OBVIOUS
  <2> DEFINE f == [k \in 0 .. Len(batch) |-> IF k = j THEN x ELSE g[k]]
  <2>4. d \in Nat /\ j \in Nat /\ j > 0
    BY <2>2
  <2>5. f[0] = s
    BY <2>1, <2>4
  <2>6. ASSUME NEW k \in 1 .. Len(batch), k <= d + 1
        PROVE  f[k] = Grown(w, f[k - 1], k, s.computed[k] + batch[k])
    <3>1. k \in 0 .. Len(batch) /\ k - 1 \in 0 .. Len(batch) /\ k - 1 # j
      BY <2>2, <2>4, <2>6
    <3>2. f[k - 1] = g[k - 1] /\ f[k] = IF k = j THEN x ELSE g[k]
      BY <3>1
    <3> HIDE DEF f
    <3>3. CASE k = j
      BY <2>3, <3>2, <3>3
    <3>4. CASE k # j
      <4>1. k <= d
        BY <2>2, <2>4, <2>6, <3>4
      <4> QED BY <3>2, <3>4, <4>1, <2>1
    <3> QED BY <3>3, <3>4
  <2>7. Upto(f, d + 1)
    <3> HIDE DEF f
    <3> QED BY <2>5, <2>6
  <2> HIDE DEF Upto, f
  <2> QED BY <2>4, <2>7
<1>3. T = Nat
  <2>1. T \in SUBSET Nat
    OBVIOUS
  <2> HIDE DEF T
  <2> QED BY <2>1, <1>1, <1>2, SetInduction
<1>4. PICK g : Upto(g, Len(batch))
  BY <1>3
<1> DEFINE Rec(t) == [k \in 0 .. Len(batch) |-> IF k = 0 THEN s
                 ELSE Grown(w, t[k - 1], k, s.computed[k] + batch[k])]
           upto == CHOOSE t : t = Rec(t)
           f == [k \in 0 .. Len(batch) |-> g[k]]
<1>5. \A k \in 0 .. Len(batch) : f[k] = IF k = 0 THEN s
            ELSE Grown(w, f[k - 1], k, s.computed[k] + batch[k])
  <2> TAKE k \in 0 .. Len(batch)
  <2>1. CASE k = 0
    BY <2>1, <1>4
  <2>2. CASE k # 0
    <3>1. k \in 1 .. Len(batch) /\ k - 1 \in 0 .. Len(batch) /\ k <= Len(batch)
      BY <2>2
    <3>2. f[k] = g[k] /\ f[k - 1] = g[k - 1]
      BY <3>1
    <3> HIDE DEF f
    <3> QED BY <3>1, <3>2, <2>2, <1>4
  <2> QED BY <2>1, <2>2
<1>6. f = Rec(f)
  <2> SUFFICES \A k \in 0 .. Len(batch) : f[k] = Rec(f)[k]
    OBVIOUS
  <2> HIDE DEF f
  <2> QED BY <1>5
<1>7. upto = Rec(upto)
  <2> HIDE DEF f, Rec
  <2> QED BY <1>6
<1>8. \A k \in 0 .. Len(batch) : upto[k] = IF k = 0 THEN s
            ELSE Grown(w, upto[k - 1], k, s.computed[k] + batch[k])
  <2> HIDE DEF upto
  <2> QED BY <1>7
<1>9. StepIs(s, batch, upto[Len(batch)], Step(w, s, batch))
  BY DEF Step, StepIs, upto
<1> HIDE DEF upto
<1>10. upto[0] = s
  BY <1>8
<1>11. ASSUME NEW k \in 1 .. Len(batch)
       PROVE  upto[k] = Grown(w, upto[k - 1], k, s.computed[k] + batch[k])
  <2>1. k \in 0 .. Len(batch) /\ k # 0
    OBVIOUS
  <2> QED BY <2>1, <1>8
<1>12. SteppedBy(upto, w, s, batch)
  BY <1>9, <1>10, <1>11 DEF SteppedBy
<1> QED BY <1>12

WarmedBy(f, w) ==
    /\ f[0] = Prefilled(w)
    /\ \A k \in 1 .. Len(decode_steps(w)) :
          f[k] = _run_decode_step(w, f[k - 1], decode_steps(w)[k])
    /\ StatesAre(w, Len(decode_steps(w)), f)

LEMMA WarmupSteps ==
  ASSUME NEW w, Len(decode_steps(w)) \in Nat
  PROVE  \E f : WarmedBy(f, w)
<1> DEFINE Upto(g, d) == g[0] = Prefilled(w) /\ \A k \in 1 .. Len(decode_steps(w)) : k <= d
                 => g[k] = _run_decode_step(w, g[k - 1], decode_steps(w)[k])
           T == {d \in Nat : \E g : Upto(g, d)}
<1>1. 0 \in T
  <2> DEFINE g == [k \in {0} |-> Prefilled(w)]
  <2>1. g[0] = Prefilled(w) /\ \A k \in 1 .. Len(decode_steps(w)) : ~ (k <= 0)
    OBVIOUS
  <2> HIDE DEF g
  <2> QED BY <2>1
<1>2. ASSUME NEW d \in T PROVE d + 1 \in T
  <2>1. PICK g : Upto(g, d)
    OBVIOUS
  <2>2. PICK j : j = d + 1
    OBVIOUS
  <2>3. PICK x : x = _run_decode_step(w, g[j - 1], decode_steps(w)[j])
    OBVIOUS
  <2> DEFINE f == [k \in 0 .. Len(decode_steps(w)) |-> IF k = j THEN x ELSE g[k]]
  <2>4. d \in Nat /\ j \in Nat /\ j > 0
    BY <2>2
  <2>5. f[0] = Prefilled(w)
    BY <2>1, <2>4
  <2>6. ASSUME NEW k \in 1 .. Len(decode_steps(w)), k <= d + 1
        PROVE  f[k] = _run_decode_step(w, f[k - 1], decode_steps(w)[k])
    <3>1. k \in 0 .. Len(decode_steps(w)) /\ k - 1 \in 0 .. Len(decode_steps(w)) /\ k - 1 # j
      BY <2>2, <2>4, <2>6
    <3>2. f[k - 1] = g[k - 1] /\ f[k] = IF k = j THEN x ELSE g[k]
      BY <3>1
    <3> HIDE DEF f
    <3>3. CASE k = j
      BY <2>3, <3>2, <3>3
    <3>4. CASE k # j
      <4>1. k <= d
        BY <2>2, <2>4, <2>6, <3>4
      <4> QED BY <3>2, <3>4, <4>1, <2>1
    <3> QED BY <3>3, <3>4
  <2>7. Upto(f, d + 1)
    <3> HIDE DEF f
    <3> QED BY <2>5, <2>6
  <2> HIDE DEF Upto, f
  <2> QED BY <2>4, <2>7
<1>3. T = Nat
  <2>1. T \in SUBSET Nat
    OBVIOUS
  <2> HIDE DEF T
  <2> QED BY <2>1, <1>1, <1>2, SetInduction
<1>4. PICK g : Upto(g, Len(decode_steps(w)))
  BY <1>3
<1> DEFINE Rec(t) == [k \in 0 .. Len(decode_steps(w)) |-> IF k = 0 THEN Prefilled(w)
                 ELSE _run_decode_step(w, t[k - 1], decode_steps(w)[k])]
           upto == CHOOSE t : t = Rec(t)
           f == [k \in 0 .. Len(decode_steps(w)) |-> g[k]]
<1>5. \A k \in 0 .. Len(decode_steps(w)) : f[k] = IF k = 0 THEN Prefilled(w)
            ELSE _run_decode_step(w, f[k - 1], decode_steps(w)[k])
  <2> TAKE k \in 0 .. Len(decode_steps(w))
  <2>1. CASE k = 0
    BY <2>1, <1>4
  <2>2. CASE k # 0
    <3>1. k \in 1 .. Len(decode_steps(w)) /\ k - 1 \in 0 .. Len(decode_steps(w))
                /\ k <= Len(decode_steps(w))
      BY <2>2
    <3>2. f[k] = g[k] /\ f[k - 1] = g[k - 1]
      BY <3>1
    <3> HIDE DEF f
    <3> QED BY <3>1, <3>2, <2>2, <1>4
  <2> QED BY <2>1, <2>2
<1>6. f = Rec(f)
  <2> SUFFICES \A k \in 0 .. Len(decode_steps(w)) : f[k] = Rec(f)[k]
    OBVIOUS
  <2> HIDE DEF f
  <2> QED BY <1>5
<1>7. upto = Rec(upto)
  <2> HIDE DEF f, Rec
  <2> QED BY <1>6
<1>8. \A k \in 0 .. Len(decode_steps(w)) : upto[k] = IF k = 0 THEN Prefilled(w)
            ELSE _run_decode_step(w, upto[k - 1], decode_steps(w)[k])
  <2> HIDE DEF upto
  <2> QED BY <1>7
<1>9. StatesAre(w, Len(decode_steps(w)), upto)
  BY DEF warmup_kernels, StatesAre, upto
<1> HIDE DEF upto
<1>10. upto[0] = Prefilled(w)
  BY <1>8
<1>11. ASSUME NEW k \in 1 .. Len(decode_steps(w))
       PROVE  upto[k] = _run_decode_step(w, upto[k - 1], decode_steps(w)[k])
  <2>1. k \in 0 .. Len(decode_steps(w)) /\ k # 0
    OBVIOUS
  <2> QED BY <2>1, <1>8
<1>12. WarmedBy(upto, w)
  BY <1>9, <1>10, <1>11 DEF WarmedBy
<1> QED BY <1>12

-----------------------------------------------------------------------------
(* The blocks that tokens reserve.                                         *)

LEMMA CeilCovers ==
  ASSUME NEW n \in Nat, NEW k \in Nat, k > 0
  PROVE  CeilDiv(n, k) \in Nat /\ n <= CeilDiv(n, k) * k
<1>1. PICK e, j, m : e = n + k - 1 /\ j = e \div k /\ m = j * k
  OBVIOUS
<1>2. e \in Nat
  BY <1>1
<1>3. j \in Nat /\ j * k <= e /\ e < j * k + k
  BY <1>1, <1>2, DivIs
<1>4. m \in Nat /\ n <= m
  BY <1>1, <1>3
<1>5. CeilDiv(n, k) = j
  BY <1>1 DEF CeilDiv
<1> QED BY <1>1, <1>3, <1>4, <1>5

LEMMA CeilGrows ==
  ASSUME NEW n \in Nat, NEW m \in Nat, n <= m, NEW k \in Nat, k > 0
  PROVE  CeilDiv(n, k) <= CeilDiv(m, k)
<1>1. PICK a, b, x, y : a = n + k - 1 /\ b = m + k - 1 /\ x = a \div k /\ y = b \div k
  OBVIOUS
<1>2. a \in Nat /\ b \in Nat /\ a <= b
  BY <1>1
<1>3. x \in Nat /\ x * k <= a /\ y \in Nat /\ b < y * k + k
  BY <1>1, <1>2, DivIs
<1>4. CeilDiv(n, k) = x /\ CeilDiv(m, k) = y
  BY <1>1 DEF CeilDiv
<1>5. ASSUME y < x PROVE FALSE
  <2>1. PICK z : z = y + 1
    OBVIOUS
  <2>2. z \in Nat /\ z <= x
    BY <1>3, <1>5, <2>1
  <2>3. k * z <= k * x
    BY <1>3, <2>2, TimesGrows
  <2>4. k * z = y * k + k /\ k * x = x * k
    BY <1>3, <2>1
  <2>5. PICK p, r : p = y * k /\ r = x * k
    OBVIOUS
  <2>6. p \in Nat /\ r \in Nat
    BY <1>3, <2>5
  <2> QED BY <1>2, <1>3, <2>3, <2>4, <2>5, <2>6
<1> QED BY <1>3, <1>4, <1>5

\* What a group reserves for n tokens, which grows with n.
LEMMA CountIs ==
  ASSUME NEW w, IsWarmup(w), NEW n \in Nat, NEW m \in Nat, n <= m, NEW g \in 1 .. Len(w.groups)
  PROVE  /\ CountsFor(w, n)[g] \in Nat /\ CountsFor(w, n)[g] <= CountsFor(w, m)[g]
         /\ w.groups[g].kind = "attention" =>
                Least(n + w.ahead, w.maxLen) <= CountsFor(w, n)[g] * w.groups[g].bs
<1>1. w.ahead \in Nat /\ w.maxLen \in Nat /\ w.encLen \in Nat
      /\ DOMAIN w.groups = 1 .. Len(w.groups)
      /\ w.groups[g].bs \in Nat \ {0} /\ w.groups[g].spec \in Nat
  BY DEF IsWarmup
<1>2. PICK v, b, e : v = w.groups[g] /\ b = v.bs /\ e = v.spec
  OBVIOUS
<1>3. b \in Nat /\ b > 0 /\ e \in Nat
  BY <1>1, <1>2
<1>4. PICK x, y : x = Least(n + w.ahead, w.maxLen) /\ y = Least(m + w.ahead, w.maxLen)
  OBVIOUS
<1>5. x \in Nat /\ y \in Nat /\ x <= y
  <2>0. PICK c, l : c = w.ahead /\ l = w.maxLen
    OBVIOUS
  <2>1. PICK i, j : i = n + c /\ j = m + c
    OBVIOUS
  <2>a. c \in Nat /\ l \in Nat
    BY <1>1, <2>0
  <2>2. i \in Nat /\ j \in Nat /\ i <= j
    BY <2>1, <2>a
  <2>3. x = Least(i, l) /\ y = Least(j, l)
    BY <1>4, <2>0, <2>1
  <2> QED BY <2>a, <2>2, <2>3 DEF Least
<1>6. CountsFor(w, n)[g] = _reserved_block_count(w, n, v)
      /\ CountsFor(w, m)[g] = _reserved_block_count(w, m, v)
  BY <1>1, <1>2 DEF CountsFor
<1>7. CeilDiv(w.encLen, b) \in Nat /\ CeilDiv(n, b) \in Nat /\ CeilDiv(m, b) \in Nat
      /\ CeilDiv(n, b) <= CeilDiv(m, b) /\ CeilDiv(x, b) \in Nat /\ CeilDiv(y, b) \in Nat
      /\ CeilDiv(x, b) <= CeilDiv(y, b) /\ x <= CeilDiv(x, b) * b
  BY <1>1, <1>3, <1>5, CeilCovers, CeilGrows
<1>8. _reserved_block_count(w, n, v) \in Nat
      /\ _reserved_block_count(w, n, v) <= _reserved_block_count(w, m, v)
  <2>1. PICK p, r : p = _reserved_block_count(w, n, v) /\ r = _reserved_block_count(w, m, v)
    OBVIOUS
  <2>2. PICK ce, cn, cm, cx, cy : /\ ce = CeilDiv(w.encLen, b) /\ cn = CeilDiv(n, b)
                                  /\ cm = CeilDiv(m, b) /\ cx = CeilDiv(x, b) /\ cy = CeilDiv(y, b)
    OBVIOUS
  <2>3. \/ p = 1 /\ r = 1
        \/ p = ce /\ r = ce
        \/ p = cn + e /\ r = cm + e
        \/ p = cx + e /\ r = cy + e
    BY <1>2, <1>4, <2>1, <2>2 DEF _reserved_block_count
  <2>4. ce \in Nat /\ cn \in Nat /\ cm \in Nat /\ cx \in Nat /\ cy \in Nat
        /\ cn <= cm /\ cx <= cy
    BY <1>7, <2>2
  <2>5. p \in Nat /\ p <= r
    BY <1>3, <2>3, <2>4
  <2> QED BY <2>1, <2>5
<1>9. ASSUME v.kind = "attention" PROVE x <= _reserved_block_count(w, n, v) * b
  <2>1. PICK c : c = CeilDiv(x, b)
    OBVIOUS
  <2>2. _reserved_block_count(w, n, v) = c + e
    BY <1>2, <1>4, <1>9, <2>1 DEF _reserved_block_count
  <2>3. PICK f : f = c + e
    OBVIOUS
  <2>4. c \in Nat /\ f \in Nat /\ c <= f /\ x <= c * b
    BY <1>3, <1>7, <2>1, <2>3
  <2>5. b * c <= b * f
    BY <1>3, <2>4, TimesGrows
  <2>6. b * c = c * b /\ b * f = f * b
    BY <1>3, <2>4
  <2>7. PICK p, r : p = c * b /\ r = f * b
    OBVIOUS
  <2>8. p \in Nat /\ r \in Nat /\ p <= r /\ x <= p
    BY <1>3, <2>4, <2>5, <2>6, <2>7
  <2>9. x <= r
    BY <1>5, <2>8
  <2> QED BY <2>2, <2>3, <2>7, <2>9
<1> QED BY <1>2, <1>4, <1>6, <1>8, <1>9

LEMMA CountsAre ==
  ASSUME NEW w, IsWarmup(w), NEW n
  PROVE  Len(w.groups) \in Nat /\ DOMAIN w.groups = 1 .. Len(w.groups)
         /\ Len(CountsFor(w, n)) = Len(w.groups)
<1>1. Len(w.groups) \in Nat /\ DOMAIN w.groups = 1 .. Len(w.groups)
  BY DEF IsWarmup
<1>2. PICK k, s : k = Len(w.groups) /\ s = CountsFor(w, n)
  OBVIOUS
<1>3. s = [g \in 1 .. k |-> _reserved_block_count(w, n, w.groups[g])]
  BY <1>1, <1>2 DEF CountsFor
<1>4. s = [g \in 1 .. k |-> s[g]]
  BY <1>3
<1> QED BY <1>1, <1>2, <1>4, LenOfFunction

-----------------------------------------------------------------------------
(* More about sums.                                                        *)

\* Two sequences of k numbers, of which the second has d more at j.
Shifted(k, s, t, j, d) ==
    /\ Len(s) = k /\ Len(t) = k
    /\ \A n \in 1 .. k : s[n] \in Nat /\ t[n] = IF n = j THEN s[n] + d ELSE s[n]

LEMMA SumShift ==
  ASSUME NEW k \in Nat, NEW s, NEW t, NEW j \in 1 .. k, NEW d \in Nat, Shifted(k, s, t, j, d)
  PROVE  Sum(t) = Sum(s) + d /\ Sum(s) \in Nat
<1>0. /\ Len(s) = k /\ Len(t) = k
      /\ \A n \in 1 .. k : s[n] \in Nat /\ t[n] = IF n = j THEN s[n] + d ELSE s[n]
  BY DEF Shifted
<1>1. PICK g : IsTotal(g, s)
  BY <1>0, TotalExists
<1>2. PICK h : IsTotal(h, t)
  BY <1>0, TotalExists
<1> DEFINE T == {n \in Nat : n <= k => g[n] \in Nat /\ h[n] = IF n < j THEN g[n] ELSE g[n] + d}
<1>3. 0 \in T
  BY <1>0, <1>1, <1>2 DEF IsTotal
<1>4. ASSUME NEW n \in T PROVE n + 1 \in T
  <2> SUFFICES ASSUME n + 1 <= k
               PROVE  g[n + 1] \in Nat /\ h[n + 1] = IF n + 1 < j THEN g[n + 1] ELSE g[n + 1] + d
    OBVIOUS
  <2>1. PICK e : e = n + 1
    OBVIOUS
  <2>2. e \in 1 .. k /\ e - 1 = n /\ n <= k /\ n \in Nat
    BY <2>1
  <2>3. g[e] = g[n] + s[e] /\ h[e] = h[n] + t[e] /\ s[e] \in Nat
        /\ t[e] = IF e = j THEN s[e] + d ELSE s[e]
    BY <2>2, <1>0, <1>1, <1>2 DEF IsTotal
  <2>4. g[n] \in Nat /\ h[n] = IF n < j THEN g[n] ELSE g[n] + d
    BY <2>2
  <2>5. g[e] \in Nat /\ h[e] = IF e < j THEN g[e] ELSE g[e] + d
    BY <2>2, <2>3, <2>4
  <2> QED BY <2>1, <2>5
<1>5. T = Nat
  <2>1. T \in SUBSET Nat
    OBVIOUS
  <2> HIDE DEF T
  <2> QED BY <2>1, <1>3, <1>4, SetInduction
<1>6. g[k] \in Nat /\ h[k] = g[k] + d
  <2>1. g[k] \in Nat /\ h[k] = IF k < j THEN g[k] ELSE g[k] + d
    BY <1>5
  <2> QED BY <2>1
<1>7. Sum(s) = g[k] /\ Sum(t) = h[k]
  BY <1>0, <1>1, <1>2, SumIs
<1> QED BY <1>6, <1>7

\* Two sequences of k numbers, of which the second has none that is smaller.
NoLarger(k, s, t) ==
    /\ Len(s) = k /\ Len(t) = k
    /\ \A n \in 1 .. k : s[n] \in Nat /\ t[n] \in Nat /\ s[n] <= t[n]

LEMMA SumGrows ==
  ASSUME NEW k \in Nat, NEW s, NEW t, NoLarger(k, s, t)
  PROVE  Sum(s) <= Sum(t) /\ Sum(s) \in Nat /\ Sum(t) \in Nat
<1>0. /\ Len(s) = k /\ Len(t) = k
      /\ \A n \in 1 .. k : s[n] \in Nat /\ t[n] \in Nat /\ s[n] <= t[n]
  BY DEF NoLarger
<1>1. PICK g : IsTotal(g, s)
  BY <1>0, TotalExists
<1>2. PICK h : IsTotal(h, t)
  BY <1>0, TotalExists
<1> DEFINE T == {n \in Nat : n <= k => g[n] \in Nat /\ h[n] \in Nat /\ g[n] <= h[n]}
<1>3. 0 \in T
  BY <1>0, <1>1, <1>2 DEF IsTotal
<1>4. ASSUME NEW n \in T PROVE n + 1 \in T
  <2> SUFFICES ASSUME n + 1 <= k
               PROVE  g[n + 1] \in Nat /\ h[n + 1] \in Nat /\ g[n + 1] <= h[n + 1]
    OBVIOUS
  <2>1. PICK e : e = n + 1
    OBVIOUS
  <2>2. e \in 1 .. k /\ e - 1 = n /\ n <= k /\ n \in Nat
    BY <2>1
  <2>3. g[e] = g[n] + s[e] /\ h[e] = h[n] + t[e] /\ s[e] \in Nat /\ t[e] \in Nat /\ s[e] <= t[e]
    BY <2>2, <1>0, <1>1, <1>2 DEF IsTotal
  <2>4. g[n] \in Nat /\ h[n] \in Nat /\ g[n] <= h[n]
    BY <2>2
  <2>5. g[e] \in Nat /\ h[e] \in Nat /\ g[e] <= h[e]
    BY <2>3, <2>4
  <2> QED BY <2>1, <2>5
<1>5. T = Nat
  <2>1. T \in SUBSET Nat
    OBVIOUS
  <2> HIDE DEF T
  <2> QED BY <2>1, <1>3, <1>4, SetInduction
<1>6. g[k] \in Nat /\ h[k] \in Nat /\ g[k] <= h[k]
  BY <1>5
<1>7. Sum(s) = g[k] /\ Sum(t) = h[k]
  BY <1>0, <1>1, <1>2, SumIs
<1> QED BY <1>6, <1>7

LEMMA SumAtMost ==
  ASSUME NEW k \in Nat, NEW s, Len(s) = k, NEW c \in Nat,
         \A n \in 1 .. k : s[n] \in Nat /\ s[n] <= c
  PROVE  Sum(s) \in Nat /\ Sum(s) <= k * c /\ k * c \in Nat
<1>1. PICK g : IsTotal(g, s)
  BY TotalExists
<1> DEFINE T == {n \in Nat : n <= k => g[n] \in Nat /\ g[n] <= n * c}
<1>2. 0 \in T
  BY <1>1 DEF IsTotal
<1>3. ASSUME NEW n \in T PROVE n + 1 \in T
  <2> SUFFICES ASSUME n + 1 <= k
               PROVE  g[n + 1] \in Nat /\ g[n + 1] <= (n + 1) * c
    OBVIOUS
  <2>1. PICK e : e = n + 1
    OBVIOUS
  <2>2. e \in 1 .. k /\ e - 1 = n /\ n <= k /\ n \in Nat
    BY <2>1
  <2>3. g[e] = g[n] + s[e] /\ s[e] \in Nat /\ s[e] <= c
    BY <2>2, <1>1 DEF IsTotal
  <2>4. g[n] \in Nat /\ g[n] <= n * c
    BY <2>2
  <2>5. PICK p : p = n * c
    OBVIOUS
  <2>6. p \in Nat /\ e * c = p + c
    BY <2>1, <2>2, <2>5
  <2>7. g[e] \in Nat /\ g[e] <= e * c
    BY <2>3, <2>4, <2>5, <2>6
  <2> QED BY <2>1, <2>7
<1>4. T = Nat
  <2>1. T \in SUBSET Nat
    OBVIOUS
  <2> HIDE DEF T
  <2> QED BY <2>1, <1>2, <1>3, SetInduction
<1>5. g[k] \in Nat /\ g[k] <= k * c
  BY <1>4
<1>6. Sum(s) = g[k]
  BY <1>1, SumIs
<1> QED BY <1>5, <1>6

LEMMA SumOfZeros ==
  ASSUME NEW k \in Nat, NEW s, Len(s) = k, \A n \in 1 .. k : s[n] = 0
  PROVE  Sum(s) = 0
<1>1. \A n \in 1 .. k : s[n] \in Nat /\ s[n] <= 0
  OBVIOUS
<1>2. Sum(s) \in Nat /\ Sum(s) <= k * 0
  BY <1>1, SumAtMost
<1> QED BY <1>2

LEMMA SumOfTwo ==
  ASSUME NEW s, Len(s) = 2, s[1] \in Nat, s[2] \in Nat
  PROVE  Sum(s) = s[1] + s[2]
<1>1. Len(s) \in Nat
  OBVIOUS
<1>2. PICK g : IsTotal(g, s)
  BY <1>1, TotalExists
<1>3. PICK a, b : a = s[1] /\ b = s[2]
  OBVIOUS
<1>4. g[0] = 0 /\ \A n \in 1 .. 2 : g[n] = g[n - 1] + s[n]
  BY <1>2 DEF IsTotal
<1>5. g[1] = g[0] + a /\ g[2] = g[1] + b
  <2>1. 1 \in 1 .. 2 /\ 2 \in 1 .. 2 /\ 1 - 1 = 0 /\ 2 - 1 = 1
    OBVIOUS
  <2> QED BY <1>3, <1>4, <2>1
<1>6. g[2] = a + b
  BY <1>3, <1>4, <1>5
<1>7. Sum(s) = g[2]
  BY <1>1, <1>2, SumIs
<1> QED BY <1>3, <1>6, <1>7

-----------------------------------------------------------------------------
(* The blocks that have been handed out.                                   *)

\* The blocks of a request, and of all n of them.
HeldBy(w, s, i) == Sum([g \in 1 .. Len(w.groups) |-> Cardinality(s.held[i][g])])
HeldByAll(w, s, n) == Sum([i \in 1 .. n |-> HeldBy(w, s, i)])

\* The state of a warm-up of n requests.
IsState(w, s, n) ==
    /\ s = [next |-> s.next, computed |-> s.computed, batch |-> s.batch, held |-> s.held]
    /\ s.held = [i \in 1 .. n |-> s.held[i]] /\ s.next \in Nat
    /\ \A i \in 1 .. n : s.held[i] = [g \in 1 .. Len(w.groups) |-> s.held[i][g]]

\* The blocks up to the next one are held, each once.
Below(w, s, n) ==
    \A i \in 1 .. n : \A g \in 1 .. Len(w.groups) : s.held[i][g] \subseteq 1 .. s.next - 1
Distinct(w, s, n) ==
    \A i, j \in 1 .. n : \A g, h \in 1 .. Len(w.groups) :
        <<i, g>> # <<j, h>> => s.held[i][g] \cap s.held[j][h] = {}
Counted(w, s, n) == s.next = HeldByAll(w, s, n) + 1

Table(w, s, n) == IsState(w, s, n) /\ Below(w, s, n) /\ Distinct(w, s, n) /\ Counted(w, s, n)

LEMMA HeldIsFinite ==
  ASSUME NEW w, NEW s, NEW n \in Nat, Table(w, s, n), Len(w.groups) \in Nat,
         NEW i \in 1 .. n, NEW g \in 1 .. Len(w.groups)
  PROVE  IsFiniteSet(s.held[i][g]) /\ Cardinality(s.held[i][g]) \in Nat
<1>1. s.next \in Nat /\ s.held[i][g] \subseteq 1 .. s.next - 1
  BY DEF Table, IsState, Below
<1>2. PICK k : k = s.next - 1
  OBVIOUS
<1>3. k \in Int /\ s.held[i][g] \in SUBSET (1 .. k)
  BY <1>1, <1>2
<1>4. IsFiniteSet(1 .. k)
  BY <1>3, FS_Interval
<1>5. IsFiniteSet(s.held[i][g])
  BY <1>3, <1>4, FS_Subset
<1> QED BY <1>5, FS_CardinalityType

LEMMA HeldByIs ==
  ASSUME NEW w, NEW s, NEW n \in Nat, Table(w, s, n), Len(w.groups) \in Nat
  PROVE  /\ \A i \in 1 .. n : HeldBy(w, s, i) \in Nat
         /\ HeldByAll(w, s, n) \in Nat
<1>1. ASSUME NEW i \in 1 .. n PROVE HeldBy(w, s, i) \in Nat
  <2>1. PICK c : c = [g \in 1 .. Len(w.groups) |-> Cardinality(s.held[i][g])]
    OBVIOUS
  <2>2. \A g \in 1 .. Len(w.groups) : c[g] \in Nat
    BY <2>1, HeldIsFinite
  <2>3. c = [g \in 1 .. Len(w.groups) |-> c[g]]
    BY <2>1
  <2>4. Len(c) = Len(w.groups)
    BY <2>3, LenOfFunction
  <2>5. Sum(c) \in Nat
    BY <2>2, <2>4, SumIsNat
  <2> QED BY <2>1, <2>5 DEF HeldBy
<1>2. PICK c : c = [i \in 1 .. n |-> HeldBy(w, s, i)]
  OBVIOUS
<1>3. \A i \in 1 .. n : c[i] \in Nat
  BY <1>1, <1>2
<1>4. c = [i \in 1 .. n |-> c[i]]
  BY <1>2
<1>5. Len(c) = n
  BY <1>4, LenOfFunction
<1>6. Sum(c) \in Nat
  BY <1>3, <1>5, SumIsNat
<1> QED BY <1>1, <1>2, <1>6 DEF HeldByAll

\* What t has that differs from s: m more blocks for request i in group g.
More(w, s, n, i, g, m, t) ==
    /\ t.computed = s.computed /\ t.next = s.next + m
    /\ t.held[i][g] = s.held[i][g] \cup (s.next .. s.next + m - 1)
    /\ \A h \in 1 .. Len(w.groups) \ {g} : t.held[i][h] = s.held[i][h]
    /\ \A j \in 1 .. n \ {i} : t.held[j] = s.held[j]

LEMMA AllocIs ==
  ASSUME NEW w, NEW s, NEW n \in Nat, IsState(w, s, n), Len(w.groups) \in Nat,
         NEW i \in 1 .. n, NEW g \in 1 .. Len(w.groups), NEW m \in Nat,
         NEW t, t = _alloc_blocks(s, i, g, m)
  PROVE  IsState(w, t, n) /\ More(w, s, n, i, g, m, t)
<1>1. PICK a, b, c, d : a = s.next /\ b = s.computed /\ c = s.batch /\ d = s.held
  OBVIOUS
<1>2. s = [next |-> a, computed |-> b, batch |-> c, held |-> d]
  BY <1>1 DEF IsState
<1>3. a \in Nat /\ d = [j \in 1 .. n |-> d[j]]
      /\ \A j \in 1 .. n : d[j] = [h \in 1 .. Len(w.groups) |-> d[j][h]]
  BY <1>1 DEF IsState
<1>4. PICK I : I = a .. a + m - 1
  OBVIOUS
<1>5. t = [next |-> a + m, computed |-> b, batch |-> c,
           held |-> [d EXCEPT ![i][g] = @ \cup I]]
  BY <1>2, <1>4 DEF _alloc_blocks
<1>6. PICK e : e = [d EXCEPT ![i][g] = @ \cup I]
  OBVIOUS
<1>7. e = [j \in 1 .. n |-> IF j = i THEN [d[i] EXCEPT ![g] = @ \cup I] ELSE d[j]]
  BY <1>3, <1>6
<1>8. PICK x : x = [h \in 1 .. Len(w.groups) |-> IF h = g THEN d[i][g] \cup I ELSE d[i][h]]
  OBVIOUS
<1>9. [d[i] EXCEPT ![g] = @ \cup I] = x
  BY <1>3, <1>8
<1>10. e = [j \in 1 .. n |-> IF j = i THEN x ELSE d[j]]
  BY <1>7, <1>9
<1>11. e[i] = x /\ \A j \in 1 .. n \ {i} : e[j] = d[j]
  BY <1>10
<1>12. x[g] = d[i][g] \cup I /\ \A h \in 1 .. Len(w.groups) \ {g} : x[h] = d[i][h]
  BY <1>8
<1>13. t.next = a + m /\ t.computed = b /\ t.batch = c /\ t.held = e
  BY <1>5, <1>6
<1>14. e = [j \in 1 .. n |-> e[j]]
  BY <1>10
<1>15. \A j \in 1 .. n : e[j] = [h \in 1 .. Len(w.groups) |-> e[j][h]]
  <2> TAKE j \in 1 .. n
  <2>1. x = [h \in 1 .. Len(w.groups) |-> x[h]]
    BY <1>8
  <2> QED BY <2>1, <1>3, <1>11
<1>16. IsState(w, t, n)
  <2>1. t = [next |-> t.next, computed |-> t.computed, batch |-> t.batch, held |-> t.held]
    BY <1>5, <1>13, <1>6
  <2>2. t.next \in Nat
    BY <1>3, <1>13
  <2> QED BY <2>1, <2>2, <1>13, <1>14, <1>15 DEF IsState
<1>17. More(w, s, n, i, g, m, t)
  BY <1>1, <1>4, <1>11, <1>12, <1>13 DEF More
<1> QED BY <1>16, <1>17

Allocated(w, s, n, i, g, m, t) ==
    /\ Table(w, t, n) /\ More(w, s, n, i, g, m, t)
    /\ Cardinality(t.held[i][g]) = Cardinality(s.held[i][g]) + m

LEMMA AllocKeeps ==
  ASSUME NEW w, NEW s, NEW n \in Nat, Table(w, s, n), Len(w.groups) \in Nat,
         NEW i \in 1 .. n, NEW g \in 1 .. Len(w.groups), NEW m \in Nat,
         NEW t, t = _alloc_blocks(s, i, g, m)
  PROVE  Allocated(w, s, n, i, g, m, t)
<1>1. IsState(w, t, n) /\ More(w, s, n, i, g, m, t)
  BY AllocIs DEF Table
<1>2. PICK a, I : a = s.next /\ I = a .. a + m - 1
  OBVIOUS
<1>3. a \in Nat /\ t.next = a + m /\ t.held[i][g] = s.held[i][g] \cup I
  BY <1>1, <1>2 DEF More, Table, IsState
<1>4. \A j \in 1 .. n : \A h \in 1 .. Len(w.groups) : s.held[j][h] \subseteq 1 .. a - 1
  BY <1>2 DEF Table, Below
<1>5. \A j \in 1 .. n : \A h \in 1 .. Len(w.groups) :
        <<j, h>> # <<i, g>> => t.held[j][h] = s.held[j][h]
  BY <1>1 DEF More
<1>6. \A j \in 1 .. n : \A h \in 1 .. Len(w.groups) : I \cap s.held[j][h] = {}
  BY <1>2, <1>3, <1>4
<1>7. IsFiniteSet(I) /\ Cardinality(I) = m
  <2>1. PICK z : z = a + m - 1
    OBVIOUS
  <2>2. z \in Int /\ (IF a > z THEN 0 ELSE z - a + 1) = m
    BY <1>3, <2>1
  <2>a. a \in Int /\ z \in Int
    BY <1>3, <2>2
  <2>3. IsFiniteSet(a .. z) /\ Cardinality(a .. z) = IF a > z THEN 0 ELSE z - a + 1
    BY <2>a, FS_Interval
  <2> QED BY <1>2, <2>1, <2>2, <2>3
<1>8. IsFiniteSet(s.held[i][g]) /\ Cardinality(s.held[i][g]) \in Nat
  BY HeldIsFinite
<1>9. Cardinality(t.held[i][g]) = Cardinality(s.held[i][g]) + m
  <2>1. PICK z : z = s.held[i][g] \cap I
    OBVIOUS
  <2>2. z = {}
    BY <1>6, <2>1
  <2>3. Cardinality(z) = 0
    BY <2>2, FS_EmptySet
  <2>4. Cardinality(s.held[i][g] \cup I) = Cardinality(s.held[i][g]) + Cardinality(I) - Cardinality(z)
    BY <1>7, <1>8, <2>1, FS_Union
  <2> QED BY <1>3, <1>7, <1>8, <2>3, <2>4
<1>10. Below(w, t, n)
  <2> SUFFICES ASSUME NEW j \in 1 .. n, NEW h \in 1 .. Len(w.groups)
               PROVE  t.held[j][h] \subseteq 1 .. t.next - 1
    BY DEF Below
  <2>1. 1 .. a - 1 \subseteq 1 .. t.next - 1
    BY <1>3
  <2>2. I \subseteq 1 .. t.next - 1
    <3>1. a > 0
      <4>1. PICK z : z = HeldByAll(w, s, n)
        OBVIOUS
      <4>2. z \in Nat /\ a = z + 1
        BY <1>2, <4>1, HeldByIs DEF Table, Counted
      <4> QED BY <4>2
    <3> QED BY <1>2, <1>3, <3>1
  <2>3. s.held[j][h] \subseteq 1 .. a - 1
    BY <1>4
  <2>4. CASE <<j, h>> = <<i, g>>
    <3>1. j = i /\ h = g
      BY <2>4
    <3> QED BY <1>3, <2>1, <2>2, <2>3, <3>1
  <2>5. CASE <<j, h>> # <<i, g>>
    <3>1. t.held[j][h] = s.held[j][h]
      BY <1>5, <2>5
    <3> QED BY <2>1, <2>3, <3>1
  <2> QED BY <2>4, <2>5
<1>11. Distinct(w, t, n)
  <2> SUFFICES ASSUME NEW j \in 1 .. n, NEW k \in 1 .. n, NEW h \in 1 .. Len(w.groups),
                      NEW l \in 1 .. Len(w.groups), <<j, h>> # <<k, l>>
               PROVE  t.held[j][h] \cap t.held[k][l] = {}
    BY DEF Distinct
  <2>1. s.held[j][h] \cap s.held[k][l] = {}
    BY DEF Table, Distinct
  <2>2. I \cap s.held[j][h] = {} /\ I \cap s.held[k][l] = {}
    BY <1>6
  <2>3. <<j, h>> # <<i, g>> => t.held[j][h] = s.held[j][h]
    BY <1>5
  <2>4. <<k, l>> # <<i, g>> => t.held[k][l] = s.held[k][l]
    BY <1>5
  <2>5. <<j, h>> = <<i, g>> => t.held[j][h] = s.held[j][h] \cup I
    BY <1>3
  <2>6. <<k, l>> = <<i, g>> => t.held[k][l] = s.held[k][l] \cup I
    BY <1>3
  <2> QED BY <2>1, <2>2, <2>3, <2>4, <2>5, <2>6
<1>12. Counted(w, t, n)
  <2>1. HeldBy(w, t, i) = HeldBy(w, s, i) + m
    <3>1. PICK c, d : /\ c = [h \in 1 .. Len(w.groups) |-> Cardinality(s.held[i][h])]
                      /\ d = [h \in 1 .. Len(w.groups) |-> Cardinality(t.held[i][h])]
      OBVIOUS
    <3>2. c = [h \in 1 .. Len(w.groups) |-> c[h]] /\ d = [h \in 1 .. Len(w.groups) |-> d[h]]
      BY <3>1
    <3>3. Len(c) = Len(w.groups) /\ Len(d) = Len(w.groups)
      BY <3>2, LenOfFunction
    <3>4. \A h \in 1 .. Len(w.groups) : c[h] \in Nat
      BY <3>1, HeldIsFinite
    <3>5. \A h \in 1 .. Len(w.groups) : d[h] = IF h = g THEN c[h] + m ELSE c[h]
      <4> TAKE h \in 1 .. Len(w.groups)
      <4>1. CASE h = g
        BY <1>9, <3>1, <4>1
      <4>2. CASE h # g
        <5>1. <<i, h>> # <<i, g>>
          BY <4>2
        <5>2. t.held[i][h] = s.held[i][h]
          BY <1>5, <5>1
        <5> QED BY <3>1, <4>2, <5>2
      <4> QED BY <4>1, <4>2
    <3>6. Shifted(Len(w.groups), c, d, g, m)
      BY <3>3, <3>4, <3>5 DEF Shifted
    <3>7. Sum(d) = Sum(c) + m
      BY <3>6, SumShift
    <3> QED BY <3>1, <3>7 DEF HeldBy
  <2>2. ASSUME NEW j \in 1 .. n, j # i PROVE HeldBy(w, t, j) = HeldBy(w, s, j)
    <3>1. t.held[j] = s.held[j]
      BY <1>1, <2>2 DEF More
    <3> QED BY <3>1 DEF HeldBy
  <2>3. HeldByAll(w, t, n) = HeldByAll(w, s, n) + m
    <3>1. PICK c, d : c = [j \in 1 .. n |-> HeldBy(w, s, j)] /\ d = [j \in 1 .. n |-> HeldBy(w, t, j)]
      OBVIOUS
    <3>2. c = [j \in 1 .. n |-> c[j]] /\ d = [j \in 1 .. n |-> d[j]]
      BY <3>1
    <3>3. Len(c) = n /\ Len(d) = n
      BY <3>2, LenOfFunction
    <3>4. \A j \in 1 .. n : c[j] \in Nat
      BY <3>1, HeldByIs
    <3>5. \A j \in 1 .. n : d[j] = IF j = i THEN c[j] + m ELSE c[j]
      BY <2>1, <2>2, <3>1
    <3>6. Shifted(n, c, d, i, m)
      BY <3>3, <3>4, <3>5 DEF Shifted
    <3>7. Sum(d) = Sum(c) + m
      BY <3>6, SumShift
    <3> QED BY <3>1, <3>7 DEF HeldByAll
  <2>4. PICK x : x = HeldByAll(w, s, n)
    OBVIOUS
  <2>5. x \in Nat /\ a = x + 1
    BY <1>2, <2>4, HeldByIs DEF Table, Counted
  <2>6. t.next = (x + m) + 1
    BY <1>3, <2>5
  <2> QED BY <2>3, <2>4, <2>6 DEF Counted
<1> QED BY <1>1, <1>9, <1>10, <1>11, <1>12 DEF Table, Allocated

\* Request i has, in each group, what n tokens reserve, or no more than that.
Filled(w, s, i, n) ==
    \A g \in 1 .. Len(w.groups) : Cardinality(s.held[i][g]) = CountsFor(w, n)[g]
Room(w, s, i, n) ==
    \A g \in 1 .. Len(w.groups) : Cardinality(s.held[i][g]) <= CountsFor(w, n)[g]

\* After the first k groups of request i.
Growing(w, s, n, i, after, t, k) ==
    /\ Table(w, t, n) /\ t.computed = s.computed
    /\ \A j \in 1 .. n \ {i} : t.held[j] = s.held[j]
    /\ \A g \in 1 .. Len(w.groups) :
        IF g <= k THEN Cardinality(t.held[i][g]) = CountsFor(w, after)[g]
        ELSE t.held[i][g] = s.held[i][g]

LEMMA GrownIs ==
  ASSUME NEW w, IsWarmup(w), NEW s, NEW n \in Nat, Table(w, s, n), NEW i \in 1 .. n,
         NEW after \in Nat, Room(w, s, i, after), NEW t, t = Grown(w, s, i, after)
  PROVE  /\ Table(w, t, n) /\ Filled(w, t, i, after) /\ t.computed = s.computed
         /\ \A j \in 1 .. n \ {i} : t.held[j] = s.held[j]
<1>1. PICK G : G = Len(w.groups)
  OBVIOUS
<1>2. G \in Nat
  BY <1>1, CountsAre
<1>a. PICK f : GrownBy(f, w, s, i, after)
  <2>1. Len(w.groups) \in Nat
    BY <1>1, <1>2
  <2> QED BY <2>1, GrownSteps
<1>3. /\ f[0] = s
      /\ \A k \in 1 .. G : f[k] = _alloc_blocks(f[k - 1], i, k, Delta(w, s, i, after, k))
      /\ Grown(w, s, i, after) = f[G]
  BY <1>1, <1>a DEF GrownBy
<1> DEFINE T == {k \in Nat : k <= G => Growing(w, s, n, i, after, f[k], k)}
<1>4. 0 \in T
  <2>1. \A g \in 1 .. G : ~ (g <= 0)
    BY <1>2
  <2> QED BY <1>1, <1>3, <2>1 DEF Growing
<1>5. ASSUME NEW k \in T PROVE k + 1 \in T
  <2> SUFFICES ASSUME k + 1 <= G PROVE Growing(w, s, n, i, after, f[k + 1], k + 1)
    OBVIOUS
  <2>1. PICK e : e = k + 1
    OBVIOUS
  <2>2. e \in 1 .. G /\ e - 1 = k /\ k <= G /\ k \in Nat /\ ~ (e <= k)
        /\ \A g \in 1 .. G : g <= e <=> g <= k \/ g = e
    BY <1>2, <2>1
  <2>3. PICK x, y, d : x = f[k] /\ y = f[e] /\ d = Delta(w, s, i, after, e)
    OBVIOUS
  <2>4. Growing(w, s, n, i, after, x, k)
    BY <2>2, <2>3
  <2>5. y = _alloc_blocks(x, i, e, d)
    BY <1>3, <2>2, <2>3
  <2>6. x.held[i][e] = s.held[i][e]
    BY <1>1, <2>2, <2>4 DEF Growing
  <2>7. PICK c, b : c = CountsFor(w, after)[e] /\ b = Cardinality(s.held[i][e])
    OBVIOUS
  <2>8. c \in Nat /\ b \in Nat /\ b <= c
    <3>1. c \in Nat
      BY <1>1, <2>2, <2>7, CountIs
    <3>2. b \in Nat
      BY <1>1, <1>2, <2>2, <2>7, HeldIsFinite
    <3>3. b <= c
      BY <1>1, <2>2, <2>7 DEF Room
    <3> QED BY <3>1, <3>2, <3>3
  <2>9. d \in Nat /\ b + d = c
    BY <2>3, <2>7, <2>8 DEF Delta
  <2>10. /\ Table(w, y, n) /\ More(w, x, n, i, e, d, y)
         /\ Cardinality(y.held[i][e]) = Cardinality(x.held[i][e]) + d
    <3>1. Table(w, x, n)
      BY <2>4 DEF Growing
    <3>2. Len(w.groups) \in Nat /\ e \in 1 .. Len(w.groups) /\ d \in Nat
      BY <1>1, <1>2, <2>2, <2>9
    <3>3. Allocated(w, x, n, i, e, d, y)
      BY <2>5, <3>1, <3>2, AllocKeeps
    <3> QED BY <3>3 DEF Allocated
  <2>11. y.computed = s.computed
    BY <2>4, <2>10 DEF More, Growing
  <2>12. \A j \in 1 .. n \ {i} : y.held[j] = s.held[j]
    BY <2>4, <2>10 DEF More, Growing
  <2>13. ASSUME NEW g \in 1 .. G
         PROVE  IF g <= e THEN Cardinality(y.held[i][g]) = CountsFor(w, after)[g]
                ELSE y.held[i][g] = s.held[i][g]
    <3>1. CASE g = e
      <4>1. Cardinality(y.held[i][e]) = c
        BY <2>6, <2>7, <2>9, <2>10
      <4> QED BY <2>2, <2>7, <3>1, <4>1
    <3>2. CASE g # e
      <4>1. y.held[i][g] = x.held[i][g]
        BY <1>1, <2>10, <3>2 DEF More
      <4>2. IF g <= k THEN Cardinality(x.held[i][g]) = CountsFor(w, after)[g]
            ELSE x.held[i][g] = s.held[i][g]
        BY <1>1, <2>4 DEF Growing
      <4> QED BY <2>2, <3>2, <4>1, <4>2
    <3> QED BY <3>1, <3>2
  <2>14. Growing(w, s, n, i, after, y, e)
    BY <1>1, <2>10, <2>11, <2>12, <2>13 DEF Growing
  <2> QED BY <2>1, <2>3, <2>14
<1>6. T = Nat
  <2>1. T \in SUBSET Nat
    OBVIOUS
  <2> HIDE DEF T
  <2> QED BY <2>1, <1>4, <1>5, SetInduction
<1>7. Growing(w, s, n, i, after, t, G)
  BY <1>2, <1>3, <1>6
<1>8. Filled(w, t, i, after)
  <2>1. \A g \in 1 .. G : g <= G
    BY <1>2
  <2> QED BY <1>1, <1>7, <2>1 DEF Growing, Filled
<1> QED BY <1>7, <1>8 DEF Growing

\* A batch of the first requests, each of which may grow by its tokens.
IsBatchOf(w, s, n, batch) ==
    /\ Len(batch) \in 0 .. n /\ s.computed = [i \in 1 .. n |-> s.computed[i]]
    /\ \A i \in 1 .. n : s.computed[i] \in Nat
    /\ \A i \in 1 .. Len(batch) : batch[i] \in Nat /\ Room(w, s, i, s.computed[i] + batch[i])

\* After the first k requests of a batch.
Stepping(w, s, n, batch, t, k) ==
    /\ Table(w, t, n)
    /\ \A i \in 1 .. n : IF i <= k THEN Filled(w, t, i, s.computed[i] + batch[i])
                         ELSE t.held[i] = s.held[i]

\* What a step makes of s.
Stepped(w, s, n, batch, t) ==
    /\ Stepping(w, s, n, batch, t, Len(batch)) /\ t.batch = batch
    /\ t.computed = [i \in 1 .. n |->
                        s.computed[i] + (IF i <= Len(batch) THEN batch[i] ELSE 0)]

LEMMA StepHolds ==
  ASSUME NEW w, IsWarmup(w), NEW s, NEW n \in Nat, Table(w, s, n),
         NEW batch, IsBatchOf(w, s, n, batch), NEW t, t = Step(w, s, batch)
  PROVE  Stepped(w, s, n, batch, t)
<1>1. PICK L : L = Len(batch)
  OBVIOUS
<1>2. L \in Nat /\ L <= n
  BY <1>1 DEF IsBatchOf
<1>a. PICK f : SteppedBy(f, w, s, batch)
  <2>1. Len(batch) \in Nat
    BY <1>1, <1>2
  <2> QED BY <2>1, StepSteps
<1>3. /\ f[0] = s
      /\ \A k \in 1 .. L : f[k] = Grown(w, f[k - 1], k, s.computed[k] + batch[k])
      /\ StepIs(s, batch, f[L], t)
  BY <1>1, <1>a DEF SteppedBy
<1> DEFINE T == {k \in Nat : k <= L => Stepping(w, s, n, batch, f[k], k)}
<1>4. 0 \in T
  <2>1. \A i \in 1 .. n : ~ (i <= 0)
    OBVIOUS
  <2> QED BY <1>3, <2>1 DEF Stepping
<1>5. ASSUME NEW k \in T PROVE k + 1 \in T
  <2> SUFFICES ASSUME k + 1 <= L PROVE Stepping(w, s, n, batch, f[k + 1], k + 1)
    OBVIOUS
  <2>1. PICK e : e = k + 1
    OBVIOUS
  <2>2. e \in 1 .. L /\ e \in 1 .. n /\ e - 1 = k /\ k <= L /\ k \in Nat /\ ~ (e <= k)
        /\ \A i \in 1 .. n : i <= e <=> i <= k \/ i = e
    BY <1>2, <2>1
  <2>3. PICK x, y, a : x = f[k] /\ y = f[e] /\ a = s.computed[e] + batch[e]
    OBVIOUS
  <2>4. Stepping(w, s, n, batch, x, k)
    BY <2>2, <2>3
  <2>5. y = Grown(w, x, e, a)
    BY <1>3, <2>2, <2>3
  <2>6. a \in Nat /\ Room(w, s, e, a)
    <3>1. PICK p, q : p = s.computed[e] /\ q = batch[e]
      OBVIOUS
    <3>2. p \in Nat /\ q \in Nat /\ Room(w, s, e, p + q)
      BY <1>1, <2>2, <3>1 DEF IsBatchOf
    <3> QED BY <2>3, <3>1, <3>2
  <2>7. x.held[e] = s.held[e]
    BY <2>2, <2>4 DEF Stepping
  <2>8. Room(w, x, e, a)
    BY <2>6, <2>7 DEF Room
  <2>9. Table(w, x, n)
    BY <2>4 DEF Stepping
  <2>10. /\ Table(w, y, n) /\ Filled(w, y, e, a)
         /\ \A j \in 1 .. n \ {e} : y.held[j] = x.held[j]
    BY <2>2, <2>5, <2>6, <2>8, <2>9, GrownIs
  <2>11. ASSUME NEW i \in 1 .. n
         PROVE  IF i <= e THEN Filled(w, y, i, s.computed[i] + batch[i])
                ELSE y.held[i] = s.held[i]
    <3>1. CASE i = e
      BY <2>2, <2>3, <2>10, <3>1
    <3>2. CASE i # e
      <4>1. y.held[i] = x.held[i]
        BY <2>10, <3>2
      <4>2. IF i <= k THEN Filled(w, x, i, s.computed[i] + batch[i])
            ELSE x.held[i] = s.held[i]
        BY <2>4 DEF Stepping
      <4>3. Filled(w, x, i, s.computed[i] + batch[i]) => Filled(w, y, i, s.computed[i] + batch[i])
        BY <4>1 DEF Filled
      <4> QED BY <2>2, <3>2, <4>1, <4>2, <4>3
    <3> QED BY <3>1, <3>2
  <2>12. Stepping(w, s, n, batch, y, e)
    BY <2>10, <2>11 DEF Stepping
  <2> QED BY <2>1, <2>3, <2>12
<1>6. T = Nat
  <2>1. T \in SUBSET Nat
    OBVIOUS
  <2> HIDE DEF T
  <2> QED BY <2>1, <1>4, <1>5, SetInduction
<1>7. PICK x : x = f[L]
  OBVIOUS
<1>8. Stepping(w, s, n, batch, x, L)
  BY <1>2, <1>6, <1>7
<1>9. DOMAIN s.computed = 1 .. n
  BY DEF IsBatchOf
<1>10. t = [next |-> x.next, held |-> x.held, batch |-> batch,
            computed |-> [i \in 1 .. n |->
                             s.computed[i] + (IF i <= Len(batch) THEN batch[i] ELSE 0)]]
  BY <1>3, <1>7, <1>9 DEF StepIs
<1>11. PICK c : c = [i \in 1 .. n |-> s.computed[i] + (IF i <= Len(batch) THEN batch[i] ELSE 0)]
  OBVIOUS
<1>12. t = [next |-> x.next, held |-> x.held, batch |-> batch, computed |-> c]
  BY <1>10, <1>11
<1>13. t.next = x.next /\ t.held = x.held /\ t.batch = batch /\ t.computed = c
  BY <1>12
<1>14. Table(w, t, n)
  <2>1. Table(w, x, n)
    BY <1>8 DEF Stepping
  <2>2. t = [next |-> t.next, computed |-> t.computed, batch |-> t.batch, held |-> t.held]
    BY <1>12, <1>13
  <2>3. IsState(w, t, n)
    BY <1>13, <2>1, <2>2 DEF Table, IsState
  <2>4. Below(w, t, n)
    BY <1>13, <2>1 DEF Table, Below
  <2>5. Distinct(w, t, n)
    BY <1>13, <2>1 DEF Table, Distinct
  <2>6. Counted(w, t, n)
    BY <1>13, <2>1 DEF Table, Counted, HeldByAll, HeldBy
  <2> QED BY <2>3, <2>4, <2>5, <2>6 DEF Table
<1>15. Stepping(w, s, n, batch, t, L)
  <2>1. \A i \in 1 .. n : Filled(w, x, i, s.computed[i] + batch[i])
                          => Filled(w, t, i, s.computed[i] + batch[i])
    BY <1>13 DEF Filled
  <2> QED BY <1>8, <1>13, <1>14, <2>1 DEF Stepping
<1> QED BY <1>1, <1>11, <1>13, <1>15 DEF Stepped

-----------------------------------------------------------------------------
(* The steps of a warm-up.                                                 *)

\* Each request holds what its tokens reserve, and one without tokens nothing.
Holds(w, s, i) ==
    /\ s.computed[i] \in Nat
    /\ s.computed[i] = 0 => \A g \in 1 .. Len(w.groups) : s.held[i][g] = {}
    /\ s.computed[i] > 0 => Filled(w, s, i, s.computed[i])
Good(w, s, n) ==
    /\ Table(w, s, n) /\ s.computed = [i \in 1 .. n |-> s.computed[i]]
    /\ \A i \in 1 .. n : Holds(w, s, i)

LEMMA RoomIs ==
  ASSUME NEW w, IsWarmup(w), NEW s, NEW i, Holds(w, s, i), NEW m \in Nat, s.computed[i] <= m
  PROVE  Room(w, s, i, m)
<1> SUFFICES ASSUME NEW g \in 1 .. Len(w.groups)
             PROVE  Cardinality(s.held[i][g]) <= CountsFor(w, m)[g]
  BY DEF Room
<1>1. PICK c : c = s.computed[i]
  OBVIOUS
<1>2. c \in Nat /\ c <= m
  BY <1>1 DEF Holds
<1>3. CountsFor(w, m)[g] \in Nat /\ CountsFor(w, c)[g] <= CountsFor(w, m)[g]
  <2>1. m <= m
    OBVIOUS
  <2> QED BY <1>2, <2>1, CountIs
<1>4. CASE c = 0
  <2>1. s.held[i][g] = {}
    BY <1>1, <1>4 DEF Holds
  <2>2. Cardinality(s.held[i][g]) = 0
    BY <2>1, FS_EmptySet
  <2>3. PICK z : z = CountsFor(w, m)[g]
    OBVIOUS
  <2> QED BY <1>3, <2>2, <2>3
<1>5. CASE c > 0
  <2>1. Cardinality(s.held[i][g]) = CountsFor(w, c)[g]
    BY <1>1, <1>5 DEF Holds, Filled
  <2> QED BY <1>3, <2>1
<1> QED BY <1>2, <1>4, <1>5

\* Tokens for the first requests.
Tokens(batch, n) == Len(batch) \in 0 .. n /\ \A i \in 1 .. Len(batch) : batch[i] \in Nat \ {0}
Given(batch, i) == IF i <= Len(batch) THEN batch[i] ELSE 0

LEMMA GoodStep ==
  ASSUME NEW w, IsWarmup(w), NEW s, NEW n \in Nat, Good(w, s, n), NEW batch, Tokens(batch, n),
         NEW t, t = Step(w, s, batch)
  PROVE  /\ Good(w, t, n) /\ t.batch = batch
         /\ \A i \in 1 .. n : t.computed[i] = s.computed[i] + Given(batch, i)
<1>1. PICK L : L = Len(batch)
  OBVIOUS
<1>2. L \in Nat /\ L <= n /\ \A i \in 1 .. L : batch[i] \in Nat \ {0}
  BY <1>1 DEF Tokens
<1>3. \A i \in 1 .. n : Holds(w, s, i) /\ s.computed[i] \in Nat
  BY DEF Good, Holds
<1>4. ASSUME NEW i \in 1 .. L
      PROVE  s.computed[i] + batch[i] \in Nat /\ Room(w, s, i, s.computed[i] + batch[i])
  <2>1. PICK a, b : a = s.computed[i] /\ b = batch[i]
    OBVIOUS
  <2>2. i \in 1 .. n
    BY <1>2
  <2>3. a \in Nat /\ b \in Nat /\ Holds(w, s, i)
    BY <1>2, <1>3, <2>1, <2>2
  <2>4. PICK c : c = a + b
    OBVIOUS
  <2>5. c \in Nat /\ s.computed[i] <= c
    BY <2>1, <2>3, <2>4
  <2>6. Room(w, s, i, c)
    BY <2>3, <2>5, RoomIs
  <2> QED BY <2>1, <2>4, <2>5, <2>6
<1>5. IsBatchOf(w, s, n, batch)
  <2>1. Len(batch) \in 0 .. n
    BY <1>1, <1>2
  <2>2. s.computed = [i \in 1 .. n |-> s.computed[i]]
    BY DEF Good
  <2>3. \A i \in 1 .. Len(batch) : batch[i] \in Nat /\ Room(w, s, i, s.computed[i] + batch[i])
    BY <1>1, <1>2, <1>4
  <2> QED BY <2>1, <2>2, <2>3, <1>3 DEF IsBatchOf
<1>6. Table(w, s, n)
  BY DEF Good
<1>7. Stepped(w, s, n, batch, t)
  BY <1>5, <1>6, StepHolds
<1>8. /\ Stepping(w, s, n, batch, t, L) /\ t.batch = batch
      /\ t.computed = [i \in 1 .. n |-> s.computed[i] + Given(batch, i)]
  BY <1>1, <1>7 DEF Stepped, Given
<1>9. ASSUME NEW i \in 1 .. n PROVE Holds(w, t, i)
  <2>1. t.computed[i] = s.computed[i] + Given(batch, i)
    BY <1>8
  <2>2. PICK a, b : a = s.computed[i] /\ b = Given(batch, i)
    OBVIOUS
  <2>3. a \in Nat
    BY <1>3, <2>2
  <2>4. CASE i <= L
    <3>1. i \in 1 .. L
      BY <1>2, <2>4
    <3>2. b = batch[i] /\ b \in Nat /\ b > 0
      BY <1>1, <1>2, <2>2, <2>4, <3>1 DEF Given
    <3>3. Filled(w, t, i, a + b)
      BY <1>8, <2>2, <2>4, <3>2 DEF Stepping
    <3>4. PICK c : c = a + b
      OBVIOUS
    <3>5. c \in Nat /\ c > 0 /\ t.computed[i] = c
      BY <2>1, <2>2, <2>3, <3>2, <3>4
    <3> QED BY <3>3, <3>4, <3>5 DEF Holds
  <2>5. CASE ~ (i <= L)
    <3>1. b = 0 /\ t.held[i] = s.held[i]
      BY <1>1, <1>8, <2>2, <2>5 DEF Given, Stepping
    <3>2. t.computed[i] = a
      BY <2>1, <2>2, <2>3, <3>1
    <3>3. Holds(w, s, i)
      BY <1>3
    <3> QED BY <2>2, <3>1, <3>2, <3>3 DEF Holds, Filled
  <2> QED BY <2>4, <2>5
<1>10. t.computed = [i \in 1 .. n |-> t.computed[i]]
  BY <1>8
<1>11. Good(w, t, n)
  BY <1>8, <1>9, <1>10 DEF Good, Stepping
<1> QED BY <1>8, <1>11

LEMMA StartIsGood ==
  ASSUME NEW w, IsWarmup(w), NEW n \in Nat
  PROVE  Good(w, Start(w, n), n) /\ \A i \in 1 .. n : Start(w, n).computed[i] = 0
<1>1. PICK s : s = Start(w, n)
  OBVIOUS
<1>2. Len(w.groups) \in Nat /\ DOMAIN w.groups = 1 .. Len(w.groups)
  BY CountsAre
<1>3. PICK x : x = [g \in 1 .. Len(w.groups) |-> {}]
  OBVIOUS
<1>4. PICK c, h : c = [i \in 1 .. n |-> 0] /\ h = [i \in 1 .. n |-> x]
  OBVIOUS
<1>5. s = [next |-> 1, computed |-> c, batch |-> <<>>, held |-> h]
  BY <1>1, <1>2, <1>3, <1>4 DEF Start
<1>6. s.next = 1 /\ s.computed = c /\ s.batch = <<>> /\ s.held = h
  BY <1>5
<1>7. \A i \in 1 .. n : s.held[i] = x /\ s.computed[i] = 0
  BY <1>4, <1>6
<1>8. \A g \in 1 .. Len(w.groups) : x[g] = {}
  BY <1>3
<1>9. IsState(w, s, n)
  <2>1. s = [next |-> s.next, computed |-> s.computed, batch |-> s.batch, held |-> s.held]
    BY <1>5, <1>6
  <2>2. s.held = [i \in 1 .. n |-> s.held[i]]
    BY <1>4, <1>6
  <2>3. x = [g \in 1 .. Len(w.groups) |-> x[g]]
    BY <1>3
  <2> QED BY <2>1, <2>2, <2>3, <1>6, <1>7 DEF IsState
<1>10. Below(w, s, n) /\ Distinct(w, s, n)
  BY <1>7, <1>8 DEF Below, Distinct
<1>11. Counted(w, s, n)
  <2>1. ASSUME NEW i \in 1 .. n PROVE HeldBy(w, s, i) = 0
    <3>1. PICK z : z = [g \in 1 .. Len(w.groups) |-> Cardinality(s.held[i][g])]
      OBVIOUS
    <3>2. \A g \in 1 .. Len(w.groups) : s.held[i][g] = {}
      BY <1>7, <1>8
    <3>3. \A g \in 1 .. Len(w.groups) : z[g] = 0
      BY <3>1, <3>2, FS_EmptySet
    <3>4. z = [g \in 1 .. Len(w.groups) |-> z[g]]
      BY <3>1
    <3>5. Len(z) = Len(w.groups)
      BY <1>2, <3>4, LenOfFunction
    <3>6. Sum(z) = 0
      BY <1>2, <3>3, <3>5, SumOfZeros
    <3> QED BY <3>1, <3>6 DEF HeldBy
  <2>2. PICK z : z = [i \in 1 .. n |-> HeldBy(w, s, i)]
    OBVIOUS
  <2>3. \A i \in 1 .. n : z[i] = 0
    BY <2>1, <2>2
  <2>4. z = [i \in 1 .. n |-> z[i]]
    BY <2>2
  <2>5. Len(z) = n
    BY <2>4, LenOfFunction
  <2>6. Sum(z) = 0
    BY <2>3, <2>5, SumOfZeros
  <2>7. HeldByAll(w, s, n) = 0
    BY <2>2, <2>6 DEF HeldByAll
  <2> QED BY <1>6, <2>7 DEF Counted
<1>12. \A i \in 1 .. n : Holds(w, s, i)
  BY <1>7, <1>8 DEF Holds
<1>13. s.computed = [i \in 1 .. n |-> s.computed[i]]
  BY <1>4, <1>6
<1>14. Good(w, s, n)
  BY <1>9, <1>10, <1>11, <1>12, <1>13 DEF Good, Table
<1> QED BY <1>1, <1>7, <1>14

LEMMA TotalForIs ==
  ASSUME NEW w, IsWarmup(w), NEW m \in Nat
  PROVE  TotalFor(w, m) \in Nat
<1>1. PICK c : c = CountsFor(w, m)
  OBVIOUS
<1>2. Len(c) = Len(w.groups) /\ Len(w.groups) \in Nat
  BY <1>1, CountsAre
<1>3. \A g \in 1 .. Len(w.groups) : c[g] \in Nat
  <2>1. m <= m
    OBVIOUS
  <2> QED BY <1>1, <2>1, CountIs
<1>4. Sum(c) \in Nat
  BY <1>2, <1>3, SumIsNat
<1> QED BY <1>1, <1>4 DEF TotalFor

LEMMA HeldAtMost ==
  ASSUME NEW w, IsWarmup(w), NEW s, NEW n \in Nat, Good(w, s, n), NEW i \in 1 .. n,
         NEW m \in Nat, s.computed[i] <= m
  PROVE  HeldBy(w, s, i) \in Nat /\ HeldBy(w, s, i) <= TotalFor(w, m)
<1>1. PICK c, d : /\ c = [g \in 1 .. Len(w.groups) |-> Cardinality(s.held[i][g])]
                  /\ d = CountsFor(w, m)
  OBVIOUS
<1>2. Len(d) = Len(w.groups) /\ Len(w.groups) \in Nat
  BY <1>1, CountsAre
<1>3. c = [g \in 1 .. Len(w.groups) |-> c[g]]
  BY <1>1
<1>4. Len(c) = Len(w.groups)
  BY <1>2, <1>3, LenOfFunction
<1>5. Room(w, s, i, m)
  <2>1. Holds(w, s, i)
    BY DEF Good
  <2> QED BY <2>1, RoomIs
<1>6. \A g \in 1 .. Len(w.groups) : c[g] \in Nat
  <2>1. Table(w, s, n)
    BY DEF Good
  <2> QED BY <1>1, <1>2, <2>1, HeldIsFinite
<1>7. \A g \in 1 .. Len(w.groups) : d[g] \in Nat
  <2>1. m <= m
    OBVIOUS
  <2> QED BY <1>1, <2>1, CountIs
<1>8. \A g \in 1 .. Len(w.groups) : c[g] <= d[g]
  BY <1>1, <1>5 DEF Room
<1>9. NoLarger(Len(w.groups), c, d)
  BY <1>2, <1>4, <1>6, <1>7, <1>8 DEF NoLarger
<1>10. Sum(c) \in Nat /\ Sum(c) <= Sum(d)
  BY <1>2, <1>9, SumGrows
<1> QED BY <1>1, <1>10 DEF HeldBy, TotalFor

\* A state whose requests fit the pool is one that a step may be in.
LEMMA GoodIsSound ==
  ASSUME NEW w, IsWarmup(w), w.blocks \in Nat, NEW s, NEW n \in Nat, Good(w, s, n),
         HeldByAll(w, s, n) < w.blocks
  PROVE  Apart(w, s) /\ InPool(w, s) /\ Covered(w, s)
<1>1. Len(w.groups) \in Nat /\ DOMAIN w.groups = 1 .. Len(w.groups)
  BY CountsAre
<1>2. DOMAIN s.held = 1 .. n /\ DOMAIN s.computed = 1 .. n
  BY DEF Good, Table, IsState
<1>3. Apart(w, s)
  BY <1>1, <1>2 DEF Apart, Good, Table, Distinct
<1>4. InPool(w, s)
  <2> SUFFICES ASSUME NEW i \in 1 .. n, NEW g \in 1 .. Len(w.groups)
               PROVE  s.held[i][g] \subseteq 1 .. w.blocks - 1
    BY <1>1, <1>2 DEF InPool
  <2>1. PICK a, b, c : a = s.next /\ b = w.blocks /\ c = HeldByAll(w, s, n)
    OBVIOUS
  <2>2. c \in Nat /\ b \in Nat /\ c < b /\ a = c + 1
    <3>1. Table(w, s, n)
      BY DEF Good
    <3> QED BY <1>1, <2>1, <3>1, HeldByIs DEF Table, Counted
  <2>3. s.held[i][g] \subseteq 1 .. a - 1
    BY <2>1 DEF Good, Table, Below
  <2>4. 1 .. a - 1 \subseteq 1 .. b - 1
    BY <2>2
  <2> QED BY <2>1, <2>3, <2>4
<1>5. Covered(w, s)
  <2> SUFFICES ASSUME NEW i \in 1 .. n, NEW g \in 1 .. Len(w.groups),
                      w.groups[g].kind = "attention", s.computed[i] > 0
               PROVE  Least(s.computed[i] + w.ahead, w.maxLen)
                        <= Cardinality(s.held[i][g]) * w.groups[g].bs
    BY <1>1, <1>2 DEF Covered
  <2>1. s.computed[i] \in Nat /\ Filled(w, s, i, s.computed[i])
    BY DEF Good, Holds
  <2>2. Cardinality(s.held[i][g]) = CountsFor(w, s.computed[i])[g]
    BY <2>1 DEF Filled
  <2>3. PICK c : c = s.computed[i]
    OBVIOUS
  <2>4. c \in Nat /\ c <= c
    BY <2>1, <2>3
  <2>5. Least(c + w.ahead, w.maxLen) <= CountsFor(w, c)[g] * w.groups[g].bs
    BY <2>4, CountIs
  <2> QED BY <2>2, <2>3, <2>5
<1> QED BY <1>3, <1>4, <1>5

-----------------------------------------------------------------------------
(* warmup_kernels.                                                         *)

\* A warm-up that is given enough, in a cache that holds a request of maximal length.
CanWarm(w) ==
    /\ IsWarmup(w) /\ w.blocks \in Nat /\ TotalFor(w, w.maxLen) < w.blocks
    /\ w.q \in Nat \ {0} /\ w.spec \in Nat /\ w.seqs \in Nat /\ w.batched \in Nat
    /\ w.spec > 0 => w.seqs > 0 /\ w.batched >= PromptLen(w)
    /\ PromptLen(w) + w.q + 1 <= w.maxLen

LEMMA PromptIs ==
  ASSUME NEW w, CanWarm(w)
  PROVE  PromptLen(w) \in Nat /\ PromptLen(w) > 0 /\ w.q \in Nat /\ w.q > 0
         /\ w.q < PromptLen(w) /\ PromptLen(w) = w.q + 1
<1>1. PICK q : q = w.q
  OBVIOUS
<1>2. q \in Nat /\ q > 0 /\ PromptLen(w) = q + 1
  BY <1>1 DEF CanWarm, PromptLen
<1> QED BY <1>1, <1>2

\* The requests fit a batch, and two or more of them the cache.
LEMMA NumReqsIs ==
  ASSUME NEW w, CanWarm(w)
  PROVE  /\ NumReqs(w) \in Nat /\ NumReqs(w) * PromptLen(w) <= w.batched
         /\ NumReqs(w) >= 2 => NumReqs(w) * MaxBlocksPerReq(w) < w.blocks
         /\ w.spec > 0 => NumReqs(w) > 0
         /\ DecodeLen(w) \in Nat
<1>1. PICK P, m, c, b, v, y : P = PromptLen(w) /\ m = MaxBlocksPerReq(w) /\ c = w.seqs
                            /\ b = w.batched /\ v = w.blocks /\ y = NumReqs(w)
  OBVIOUS
<1>2. P \in Nat /\ P > 0 /\ w.q \in Nat
  BY <1>1, PromptIs
<1>3. c \in Nat /\ b \in Nat /\ v \in Nat /\ w.spec \in Nat /\ (w.spec > 0 => c > 0 /\ b >= P)
  BY <1>1 DEF CanWarm
<1>4. DecodeLen(w) \in Nat
  <2>1. NumDecodeSteps(w) \in Nat
    BY DEF NumDecodeSteps
  <2>2. PICK d, q : d = NumDecodeSteps(w) /\ q = w.q
    OBVIOUS
  <2>3. d * q \in Nat
    BY <1>2, <2>1, <2>2
  <2>4. DecodeLen(w) = P + d * q
    BY <1>1, <2>2 DEF DecodeLen
  <2> QED BY <1>2, <2>3, <2>4
<1>5. m \in Nat
  <2>1. IsWarmup(w)
    BY DEF CanWarm
  <2> QED BY <1>1, <1>4, <2>1, TotalForIs DEF MaxBlocksPerReq
<1>6. v > 0
  <2>1. PICK t : t = TotalFor(w, w.maxLen)
    OBVIOUS
  <2>2. t < v /\ w.maxLen \in Nat /\ IsWarmup(w)
    BY <1>1, <2>1 DEF CanWarm, IsWarmup
  <2>3. t \in Nat
    BY <2>1, <2>2, TotalForIs
  <2> QED BY <1>3, <2>2, <2>3
<1>7. PICK e, r : e = b \div P /\ r = Least(c, e)
  OBVIOUS
<1>8. e \in Nat /\ e * P <= b /\ b < e * P + P
  BY <1>2, <1>3, <1>7, DivIs
<1>9. r \in Nat /\ r <= e /\ r \in {c, e}
  BY <1>3, <1>7, <1>8, LeastIs
<1>10. w.spec > 0 => r > 0
  <2> SUFFICES ASSUME w.spec > 0, r = 0 PROVE FALSE
    BY <1>9
  <2>1. c > 0 /\ b >= P
    BY <1>3
  <2>2. e = 0
    BY <1>9, <2>1
  <2>3. e * P = 0
    BY <1>2, <2>2
  <2>4. PICK z : z = e * P
    OBVIOUS
  <2>5. z = 0 /\ b < z + P
    BY <1>8, <2>3, <2>4
  <2> QED BY <1>2, <1>3, <2>1, <2>5
<1>11. PICK x, k : x = v - 1 /\ k = x \div m
  OBVIOUS
<1>12. x \in Nat /\ x < v
  BY <1>3, <1>6, <1>11
<1>13. y \in Nat /\ y <= r /\ (r > 0 => y > 0) /\ (y >= 2 => y * m <= x)
  <2>1. CASE m = 0
    <3>1. y = r
      BY <1>1, <1>7, <2>1 DEF NumReqs
    <3>2. y * m = 0
      BY <1>9, <2>1, <3>1
    <3> QED BY <1>9, <1>12, <3>1, <3>2
  <2>2. CASE m # 0
    <3>1. k \in Nat /\ k * m <= x
      BY <1>5, <1>11, <1>12, <2>2, DivIs
    <3>2. PICK g : g = Max({1, k})
      OBVIOUS
    <3>3. g = IF 1 >= k THEN 1 ELSE k
      BY <3>1, <3>2, MaxOfTwo
    <3>4. y = Least(r, g)
      BY <1>1, <1>7, <1>11, <2>2, <3>2 DEF NumReqs
    <3>5. y \in Nat /\ y <= r /\ y <= g /\ y \in {r, g} /\ g \in Nat
      BY <1>9, <3>1, <3>3, <3>4, LeastIs
    <3>6. ASSUME y >= 2 PROVE y * m <= x
      <4>1. y <= k
        BY <3>1, <3>3, <3>5, <3>6
      <4>2. m * y <= m * k
        BY <1>5, <3>1, <3>5, <4>1, TimesGrows
      <4>3. m * y = y * m /\ m * k = k * m
        BY <1>5, <3>1, <3>5
      <4>4. PICK i, j : i = y * m /\ j = k * m
        OBVIOUS
      <4>5. i \in Nat /\ j \in Nat /\ i <= j /\ j <= x
        BY <1>5, <3>1, <3>5, <4>2, <4>3, <4>4
      <4> QED BY <1>12, <4>4, <4>5
    <3> QED BY <1>9, <3>1, <3>3, <3>5, <3>6
  <2> QED BY <2>1, <2>2
<1>14. y * P <= b
  <2>1. y <= e
    BY <1>8, <1>9, <1>13
  <2>2. P * y <= P * e
    BY <1>2, <1>8, <1>13, <2>1, TimesGrows
  <2>3. P * y = y * P /\ P * e = e * P
    BY <1>2, <1>8, <1>13
  <2>4. PICK i, j : i = y * P /\ j = e * P
    OBVIOUS
  <2>5. i \in Nat /\ j \in Nat /\ i <= j /\ j <= b
    BY <1>2, <1>8, <1>13, <2>2, <2>3, <2>4
  <2> QED BY <1>3, <2>4, <2>5
<1>15. y >= 2 => y * m < v
  <2> SUFFICES ASSUME y >= 2 PROVE y * m < v
    OBVIOUS
  <2>1. PICK i : i = y * m
    OBVIOUS
  <2>2. i \in Nat /\ i <= x
    BY <1>5, <1>13, <2>1
  <2> QED BY <1>3, <1>12, <2>1, <2>2
<1> QED BY <1>1, <1>4, <1>10, <1>13, <1>14, <1>15

\* What a decode step may be: for the first requests, with draft tokens or without.
FlagSeqs(n) == {f \in Seq(BOOLEAN) : Len(f) <= n}

LEMMA DecodeStepsAre ==
  ASSUME NEW w, CanWarm(w), NEW n, n = NumReqs(w), NEW d, d = decode_steps(w)
  PROVE  /\ Len(d) \in Nat /\ \A k \in 1 .. Len(d) : d[k] \in FlagSeqs(n)
         /\ n >= 2 /\ ~ w.pooling => Len(d) <= NumDecodeSteps(w)
         /\ n < 2 => Len(d) <= 2
         /\ n < 2 /\ Len(d) = 2 => d[2] = <<FALSE>>
<1>1. n \in Nat /\ (w.spec > 0 => n > 0)
  BY NumReqsIs
<1>2. PICK use \in BOOLEAN : use <=> w.spec > 0
  OBVIOUS
<1>3. PICK S : S = FlagSeqs(n)
  OBVIOUS
<1>4. PICK a : a = <<[i \in 1 .. n |-> use]>>
  OBVIOUS
<1>5. PICK b, c, e, f : /\ b = IF n >= 2 THEN <<<<use, FALSE>>>> ELSE <<>>
                        /\ c = IF n >= 2 /\ use THEN <<<<FALSE, FALSE>>>> ELSE <<>>
                        /\ e = IF n > 1 THEN <<<<use>>>> ELSE <<>>
                        /\ f = IF use THEN <<<<FALSE>>>> ELSE <<>>
  OBVIOUS
<1>6. d = a \o b \o c \o e \o f
  <2>1. (w.spec > 0) = use
    BY <1>2
  <2> QED BY <1>4, <1>5, <2>1 DEF decode_steps
<1>7. a \in Seq(S) /\ Len(a) = 1
  <2>1. PICK g : g = [i \in 1 .. n |-> use]
    OBVIOUS
  <2>2. g \in Seq(BOOLEAN) /\ Len(g) = n
    BY <1>1, <2>1
  <2>3. g \in S
    BY <1>1, <1>3, <2>2 DEF FlagSeqs
  <2> QED BY <1>4, <2>1, <2>3
<1>8. b \in Seq(S) /\ Len(b) = IF n >= 2 THEN 1 ELSE 0
  <2>1. CASE n >= 2
    <3>1. <<use, FALSE>> \in S
      BY <1>1, <1>3, <2>1 DEF FlagSeqs
    <3> QED BY <1>5, <2>1, <3>1
  <2>2. CASE ~ (n >= 2)
    BY <1>5, <2>2
  <2> QED BY <2>1, <2>2
<1>9. c \in Seq(S) /\ Len(c) = IF n >= 2 /\ use THEN 1 ELSE 0
  <2>1. CASE n >= 2 /\ use
    <3>1. <<FALSE, FALSE>> \in S
      BY <1>1, <1>3, <2>1 DEF FlagSeqs
    <3> QED BY <1>5, <2>1, <3>1
  <2>2. CASE ~ (n >= 2 /\ use)
    BY <1>5, <2>2
  <2> QED BY <2>1, <2>2
<1>10. e \in Seq(S) /\ Len(e) = IF n >= 2 THEN 1 ELSE 0
  <2>1. CASE n > 1
    <3>1. <<use>> \in S
      BY <1>1, <1>3, <2>1 DEF FlagSeqs
    <3> QED BY <1>1, <1>5, <2>1, <3>1
  <2>2. CASE ~ (n > 1)
    BY <1>1, <1>5, <2>2
  <2> QED BY <2>1, <2>2
<1>11. f \in Seq(S) /\ Len(f) = IF use THEN 1 ELSE 0
  <2>1. CASE use
    <3>1. <<FALSE>> \in S
      BY <1>1, <1>2, <1>3, <2>1 DEF FlagSeqs
    <3> QED BY <1>5, <2>1, <3>1
  <2>2. CASE ~ use
    BY <1>5, <2>2
  <2> QED BY <2>1, <2>2
<1>12. PICK g : g = a \o b
  OBVIOUS
<1>13. g \in Seq(S) /\ Len(g) = Len(a) + Len(b)
  BY <1>7, <1>8, <1>12, ConcatProperties
<1>14. PICK h : h = g \o c
  OBVIOUS
<1>15. h \in Seq(S) /\ Len(h) = Len(g) + Len(c)
  BY <1>9, <1>13, <1>14, ConcatProperties
<1>16. PICK i : i = h \o e
  OBVIOUS
<1>17. i \in Seq(S) /\ Len(i) = Len(h) + Len(e)
  BY <1>10, <1>15, <1>16, ConcatProperties
<1>18. d = i \o f
  BY <1>6, <1>12, <1>14, <1>16
<1>a. i \in Seq(S) /\ f \in Seq(S)
  BY <1>11, <1>17
<1>b. i \o f \in Seq(S) /\ Len(i \o f) = Len(i) + Len(f)
  BY <1>a, ConcatProperties
<1>c. \A k \in 1 .. Len(i) + Len(f) : (i \o f)[k] = IF k <= Len(i) THEN i[k] ELSE f[k - Len(i)]
  BY <1>a, ConcatProperties, Zenon
<1>19. d \in Seq(S) /\ Len(d) = Len(i) + Len(f)
  BY <1>18, <1>b
<1>20. \A k \in 1 .. Len(d) : d[k] \in S
  BY <1>19, ElementOfSeq
<1>21. Len(d) \in Nat
  BY <1>19, LenProperties
<1>22. n >= 2 /\ ~ w.pooling => Len(d) <= NumDecodeSteps(w)
  <2> SUFFICES ASSUME n >= 2, ~ w.pooling PROVE Len(d) <= NumDecodeSteps(w)
    OBVIOUS
  <2>1. NumDecodeSteps(w) = IF use THEN 5 ELSE 3
    BY <1>2 DEF NumDecodeSteps
  <2>2. Len(d) = IF use THEN 5 ELSE 3
    BY <1>7, <1>8, <1>9, <1>10, <1>11, <1>13, <1>15, <1>17, <1>19
  <2> QED BY <2>1, <2>2
<1>23. n < 2 => Len(i) = 1 /\ (use => Len(d) = 2) /\ (~ use => Len(d) = 1)
  BY <1>1, <1>7, <1>8, <1>9, <1>10, <1>11, <1>13, <1>15, <1>17, <1>19
<1>24. n < 2 /\ Len(d) = 2 => d[2] = <<FALSE>>
  <2> SUFFICES ASSUME n < 2, Len(d) = 2 PROVE d[2] = <<FALSE>>
    OBVIOUS
  <2>1. Len(i) = 1 /\ use
    BY <1>23
  <2>2. Len(f) = 1 /\ f = <<<<FALSE>>>>
    BY <1>5, <1>11, <2>1
  <2>a. PICK k : k = 2
    OBVIOUS
  <2>b. k \in 1 .. Len(i) + Len(f) /\ ~ (k <= Len(i)) /\ k - Len(i) = 1
    BY <2>1, <2>2, <2>a
  <2>c. d[k] = f[k - Len(i)]
    BY <1>18, <1>c, <2>b
  <2>3. d[2] = f[1]
    BY <2>a, <2>b, <2>c
  <2> QED BY <2>2, <2>3
<1>25. n < 2 => Len(d) <= 2
  <2> SUFFICES ASSUME n < 2 PROVE Len(d) <= 2
    OBVIOUS
  <2>1. Len(d) = 2 \/ Len(d) = 1
    BY <1>23
  <2>2. 2 <= 2 /\ 1 <= 2
    OBVIOUS
  <2> QED BY <2>1, <2>2
<1>26. \A k \in 1 .. Len(d) : d[k] \in FlagSeqs(n)
  BY <1>3, <1>20
<1> QED BY <1>21, <1>22, <1>24, <1>25, <1>26

\* The tokens of a request after k decode steps, at most: a lone one has one step with
\* draft tokens and one without.
Reached(w, n, k) ==
    IF n >= 2 THEN PromptLen(w) + k * w.q
    ELSE IF k = 0 THEN PromptLen(w) ELSE PromptLen(w) + w.q + (k - 1)

\* The state after k decode steps of n requests.
After(w, s, n, k) ==
    /\ Good(w, s, n) /\ InBatch(w, s)
    /\ \A i \in 1 .. n : s.computed[i] <= Reached(w, n, k)

\* What a step may be in.
Fine(w, s) == InBatch(w, s) /\ Apart(w, s) /\ InPool(w, s) /\ Covered(w, s)

\* A step of at most as many tokens as a prompt for each of the n requests.
LEMMA FitsBatch ==
  ASSUME NEW w, CanWarm(w), NEW n, n = NumReqs(w), NEW s, Len(s.batch) \in 0 .. n,
         \A i \in 1 .. Len(s.batch) : s.batch[i] \in Nat /\ s.batch[i] <= PromptLen(w)
  PROVE  InBatch(w, s)
<1>1. PICK b, L, P, z : b = s.batch /\ L = Len(b) /\ P = PromptLen(w) /\ z = w.batched
  OBVIOUS
<1>2. n \in Nat /\ n * P <= z /\ P \in Nat /\ z \in Nat
  BY <1>1, NumReqsIs, PromptIs DEF CanWarm
<1>3. L \in Nat /\ L <= n
  BY <1>1, <1>2
<1>4. \A i \in 1 .. L : b[i] \in Nat /\ b[i] <= P
  BY <1>1
<1>5. Sum(b) \in Nat /\ Sum(b) <= L * P
  BY <1>1, <1>2, <1>3, <1>4, SumAtMost
<1>6. P * L <= P * n
  BY <1>2, <1>3, TimesGrows
<1>7. P * L = L * P /\ P * n = n * P
  BY <1>2, <1>3
<1>8. PICK i, j : i = L * P /\ j = n * P
  OBVIOUS
<1>9. i \in Nat /\ j \in Nat /\ i <= j /\ j <= z /\ Sum(b) <= i
  BY <1>2, <1>3, <1>5, <1>6, <1>7, <1>8
<1>10. Sum(b) <= z
  BY <1>2, <1>5, <1>9
<1> QED BY <1>1, <1>10 DEF InBatch

LEMMA PrefilledIs ==
  ASSUME NEW w, CanWarm(w), NEW n, n = NumReqs(w)
  PROVE  After(w, Prefilled(w), n, 0)
<1>1. n \in Nat /\ PromptLen(w) \in Nat /\ PromptLen(w) > 0 /\ w.q \in Nat /\ IsWarmup(w)
  BY NumReqsIs, PromptIs DEF CanWarm
<1>2. PICK P, s, b, t : P = PromptLen(w) /\ s = Start(w, n) /\ b = [i \in 1 .. n |-> P]
                        /\ t = Prefilled(w)
  OBVIOUS
<1>3. Good(w, s, n) /\ \A i \in 1 .. n : s.computed[i] = 0
  BY <1>1, <1>2, StartIsGood
<1>4. Len(b) = n /\ \A i \in 1 .. n : b[i] = P
  <2>1. b = [i \in 1 .. n |-> b[i]]
    BY <1>2
  <2> QED BY <1>1, <1>2, <2>1, LenOfFunction
<1>5. t = Step(w, s, b)
  BY <1>2 DEF Prefilled
<1>6. Tokens(b, n)
  BY <1>1, <1>2, <1>4 DEF Tokens
<1>7. /\ Good(w, t, n) /\ t.batch = b
      /\ \A i \in 1 .. n : t.computed[i] = s.computed[i] + Given(b, i)
  BY <1>1, <1>3, <1>5, <1>6, GoodStep
<1>8. ASSUME NEW i \in 1 .. n PROVE t.computed[i] = P
  <2>1. Given(b, i) = P
    BY <1>1, <1>4 DEF Given
  <2>2. s.computed[i] = 0 /\ t.computed[i] = s.computed[i] + Given(b, i)
    BY <1>3, <1>7
  <2> QED BY <1>1, <1>2, <2>1, <2>2
<1>9. Reached(w, n, 0) = P
  <2>1. PICK q : q = w.q
    OBVIOUS
  <2>2. P + 0 * q = P
    BY <1>1, <1>2, <2>1
  <2> QED BY <1>2, <2>1, <2>2 DEF Reached
<1>10. InBatch(w, t)
  <2>1. Len(t.batch) \in 0 .. n
    BY <1>1, <1>4, <1>7
  <2>2. \A i \in 1 .. Len(t.batch) : t.batch[i] \in Nat /\ t.batch[i] <= PromptLen(w)
    BY <1>1, <1>2, <1>4, <1>7
  <2> QED BY <2>1, <2>2, FitsBatch
<1>11. \A i \in 1 .. n : t.computed[i] <= Reached(w, n, 0)
  BY <1>1, <1>2, <1>8, <1>9
<1> QED BY <1>2, <1>7, <1>10, <1>11 DEF After

LEMMA DecodeIs ==
  ASSUME NEW w, CanWarm(w), NEW n, n = NumReqs(w), NEW k \in 1 .. Len(decode_steps(w)),
         NEW s, After(w, s, n, k - 1), NEW t, t = _run_decode_step(w, s, decode_steps(w)[k])
  PROVE  After(w, t, n, k)
<1>1. n \in Nat /\ PromptLen(w) \in Nat /\ PromptLen(w) > 0 /\ w.q \in Nat /\ w.q > 0
      /\ w.q < PromptLen(w) /\ IsWarmup(w)
  BY NumReqsIs, PromptIs DEF CanWarm
<1>2. PICK P, q, d : P = PromptLen(w) /\ q = w.q /\ d = decode_steps(w)
  OBVIOUS
<1>t. P \in Nat /\ P > 0 /\ q \in Nat /\ q > 0 /\ q < P /\ k \in 1 .. Len(d)
  BY <1>1, <1>2
<1>3. /\ Len(d) \in Nat /\ d[k] \in FlagSeqs(n) /\ (n < 2 => Len(d) <= 2)
      /\ n < 2 /\ Len(d) = 2 => d[2] = <<FALSE>>
  BY <1>2, DecodeStepsAre
<1>4. PICK f : f = d[k]
  OBVIOUS
<1>5. f \in Seq(BOOLEAN) /\ Len(f) \in Nat /\ Len(f) <= n
  <2>1. f \in Seq(BOOLEAN) /\ Len(f) <= n
    BY <1>3, <1>4 DEF FlagSeqs
  <2> QED BY <2>1, LenProperties
<1>6. PICK b : b = [i \in 1 .. Len(f) |-> IF f[i] THEN q ELSE 1]
  OBVIOUS
<1>7. Len(b) = Len(f) /\ \A i \in 1 .. Len(f) : b[i] = IF f[i] THEN q ELSE 1
  <2>1. b = [i \in 1 .. Len(f) |-> b[i]]
    BY <1>6
  <2> QED BY <1>5, <1>6, <2>1, LenOfFunction
<1>8. \A i \in 1 .. Len(f) : b[i] \in Nat /\ b[i] > 0 /\ b[i] <= q
  <2> TAKE i \in 1 .. Len(f)
  <2>1. b[i] = IF f[i] THEN q ELSE 1
    BY <1>7
  <2>2. b[i] = q \/ b[i] = 1
    BY <2>1
  <2> QED BY <1>t, <2>2
<1>9. t = Step(w, s, b)
  BY <1>2, <1>4, <1>6 DEF _run_decode_step
<1>10. Tokens(b, n)
  <2>1. Len(b) \in 0 .. n
    BY <1>1, <1>5, <1>7
  <2>2. \A i \in 1 .. Len(b) : b[i] \in Nat \ {0}
    BY <1>7, <1>8
  <2> QED BY <2>1, <2>2 DEF Tokens
<1>11. Good(w, s, n) /\ \A i \in 1 .. n : s.computed[i] <= Reached(w, n, k - 1)
  BY DEF After
<1>12. /\ Good(w, t, n) /\ t.batch = b
       /\ \A i \in 1 .. n : t.computed[i] = s.computed[i] + Given(b, i)
  BY <1>1, <1>9, <1>10, <1>11, GoodStep
<1>13. InBatch(w, t)
  <2>1. Len(t.batch) \in 0 .. n
    BY <1>1, <1>5, <1>7, <1>12
  <2>2. \A i \in 1 .. Len(t.batch) : t.batch[i] \in Nat /\ t.batch[i] <= PromptLen(w)
    BY <1>1, <1>2, <1>7, <1>8, <1>12
  <2> QED BY <2>1, <2>2, FitsBatch
<1>14. ASSUME NEW i \in 1 .. n PROVE t.computed[i] <= Reached(w, n, k)
  <2>1. PICK a, g : a = s.computed[i] /\ g = Given(b, i)
    OBVIOUS
  <2>2. a \in Nat /\ a <= Reached(w, n, k - 1) /\ t.computed[i] = a + g
    BY <1>11, <1>12, <2>1 DEF Good, Holds
  <2>3. g \in Nat /\ g <= q
    BY <1>1, <1>2, <1>5, <1>7, <1>8, <2>1 DEF Given
  <2>4. k \in Nat /\ k >= 1
    BY <1>2, <1>3
  <2>5. CASE n >= 2
    <3>0. PICK e : e = k - 1
      OBVIOUS
    <3>2. e \in Nat /\ k = e + 1
      BY <2>4, <3>0
    <3>a. e * q \in Nat /\ k * q = e * q + q
      BY <1>t, <3>2
    <3>1. PICK x, y : x = e * q /\ y = k * q
      OBVIOUS
    <3>3. x \in Nat /\ y = x + q
      BY <3>a, <3>1
    <3>4. Reached(w, n, k - 1) = P + x /\ Reached(w, n, k) = P + y
      BY <1>2, <2>5, <3>0, <3>1 DEF Reached
    <3>5. a + g <= P + y
      BY <1>t, <2>2, <2>3, <3>3, <3>4
    <3> QED BY <2>2, <3>4, <3>5
  <2>6. CASE n < 2 /\ k = 1
    <3>1. Reached(w, n, k - 1) = P /\ Reached(w, n, k) = P + q + 0
      BY <1>1, <1>2, <2>6 DEF Reached
    <3>2. a + g <= P + q + 0
      BY <1>t, <2>2, <2>3, <3>1
    <3> QED BY <2>2, <3>1, <3>2
  <2>7. CASE n < 2 /\ k # 1
    <3>1. k = 2 /\ Len(d) = 2
      <4>1. PICK l : l = Len(d)
        OBVIOUS
      <4>2. l \in Nat /\ l <= 2 /\ k <= l
        BY <1>t, <1>3, <2>4, <2>7, <4>1
      <4> QED BY <2>4, <2>7, <4>1, <4>2
    <3>2. f = <<FALSE>>
      BY <1>3, <1>4, <2>7, <3>1
    <3>3. Len(f) = 1 /\ f[1] = FALSE
      BY <3>2
    <3>4. b[1] = 1
      BY <1>7, <3>3
    <3>5. i = 1
      BY <1>1, <2>7
    <3>6. g = 1
      BY <1>7, <2>1, <3>3, <3>4, <3>5 DEF Given
    <3>7. Reached(w, n, k - 1) = P + q + 0 /\ Reached(w, n, k) = P + q + 1
      BY <1>1, <1>2, <2>7, <3>1 DEF Reached
    <3>8. a + g <= P + q + 1
      BY <1>t, <2>2, <3>6, <3>7
    <3> QED BY <2>2, <3>7, <3>8
  <2> QED BY <1>1, <2>5, <2>6, <2>7
<1> QED BY <1>12, <1>13, <1>14 DEF After

\* The states after the prefill and the decode steps are what a step may be in.
LEMMA AfterIsFine ==
  ASSUME NEW w, CanWarm(w), NEW n, n = NumReqs(w), NEW k \in 0 .. Len(decode_steps(w)),
         w.pooling => k = 0, NEW s, After(w, s, n, k)
  PROVE  Fine(w, s)
<1>1. n \in Nat /\ PromptLen(w) \in Nat /\ w.q \in Nat /\ IsWarmup(w) /\ w.blocks \in Nat
      /\ TotalFor(w, w.maxLen) < w.blocks /\ w.maxLen \in Nat
      /\ PromptLen(w) + w.q + 1 <= w.maxLen /\ DecodeLen(w) \in Nat
      /\ (n >= 2 => n * MaxBlocksPerReq(w) < w.blocks)
  BY NumReqsIs, PromptIs DEF CanWarm, IsWarmup
<1>2. PICK P, q, d, v : P = PromptLen(w) /\ q = w.q /\ d = decode_steps(w) /\ v = w.blocks
  OBVIOUS
<1>3. /\ Len(d) \in Nat /\ (n < 2 => Len(d) <= 2)
      /\ n >= 2 /\ ~ w.pooling => Len(d) <= NumDecodeSteps(w)
  BY <1>2, DecodeStepsAre
<1>4. k \in Nat /\ k <= Len(d)
  BY <1>2, <1>3
<1>5. Good(w, s, n) /\ \A i \in 1 .. n : s.computed[i] <= Reached(w, n, k)
  BY DEF After
<1>6. PICK m \in Nat : /\ Reached(w, n, k) <= m
                       /\ n * TotalFor(w, m) < v /\ TotalFor(w, m) \in Nat
  <2>1. CASE n >= 2
    <3>1. k <= NumDecodeSteps(w) /\ NumDecodeSteps(w) \in Nat
      BY <1>3, <1>4, <2>1 DEF NumDecodeSteps
    <3>0. PICK e : e = NumDecodeSteps(w)
      OBVIOUS
    <3>a. e \in Nat /\ k <= e /\ q \in Nat
      BY <1>1, <1>2, <3>0, <3>1
    <3>3. q * k <= q * e
      BY <1>4, <3>a, TimesGrows
    <3>4. q * k = k * q /\ q * e = e * q /\ k * q \in Nat /\ e * q \in Nat
      BY <1>4, <3>a
    <3>2. PICK x, y : x = k * q /\ y = e * q
      OBVIOUS
    <3>5. x \in Nat /\ y \in Nat /\ x <= y
      BY <3>2, <3>3, <3>4
    <3>6. Reached(w, n, k) = P + x /\ DecodeLen(w) = P + y
      BY <1>2, <2>1, <3>0, <3>2 DEF Reached, DecodeLen
    <3>7. Reached(w, n, k) <= DecodeLen(w)
      BY <1>1, <1>2, <3>5, <3>6
    <3>8. TotalFor(w, DecodeLen(w)) = MaxBlocksPerReq(w) /\ TotalFor(w, DecodeLen(w)) \in Nat
      BY <1>1, TotalForIs DEF MaxBlocksPerReq
    <3> QED BY <1>1, <1>2, <2>1, <3>7, <3>8
  <2>2. CASE n < 2
    <3>1. k <= 2
      BY <1>3, <1>4, <2>2
    <3>2. Reached(w, n, k) = IF k = 0 THEN P ELSE P + q + (k - 1)
      BY <1>1, <1>2, <2>2 DEF Reached
    <3>3. PICK m : m = w.maxLen
      OBVIOUS
    <3>4. Reached(w, n, k) <= m /\ m \in Nat
      BY <1>1, <1>2, <1>4, <3>1, <3>2, <3>3
    <3>5. PICK t : t = TotalFor(w, m)
      OBVIOUS
    <3>6. t \in Nat /\ t < v
      BY <1>1, <1>2, <3>3, <3>5, TotalForIs
    <3>7. n * t < v
      <4>1. n = 0 \/ n = 1
        BY <1>1, <2>2
      <4>2. n * t = 0 \/ n * t = t
        BY <3>6, <4>1
      <4>3. PICK x : x = n * t
        OBVIOUS
      <4>4. x = 0 \/ x = t
        BY <4>2, <4>3
      <4>5. v \in Nat
        BY <1>1, <1>2
      <4>6. x < v
        BY <3>6, <4>4, <4>5
      <4> QED BY <4>3, <4>6
    <3> QED BY <3>4, <3>5, <3>6, <3>7
  <2> QED BY <1>1, <2>1, <2>2
<1>7. HeldByAll(w, s, n) < v
  <2>1. PICK t : t = TotalFor(w, m)
    OBVIOUS
  <2>2. t \in Nat /\ n * t < v
    BY <1>6, <2>1
  <2>3. ASSUME NEW i \in 1 .. n PROVE HeldBy(w, s, i) \in Nat /\ HeldBy(w, s, i) <= t
    <3>1. PICK a, r : a = s.computed[i] /\ r = Reached(w, n, k)
      OBVIOUS
    <3>2. a \in Nat /\ a <= r /\ r <= m
      BY <1>5, <1>6, <3>1 DEF Good, Holds
    <3>3. r \in Int
      <4>1. k * q \in Nat
        BY <1>1, <1>2, <1>4
      <4>2. PICK x : x = k * q
        OBVIOUS
      <4> QED BY <1>1, <1>2, <1>4, <3>1, <4>1, <4>2 DEF Reached
    <3>4. a <= m
      BY <3>2, <3>3
    <3> QED BY <1>1, <1>5, <2>1, <3>1, <3>4, HeldAtMost
  <2>4. PICK c : c = [i \in 1 .. n |-> HeldBy(w, s, i)]
    OBVIOUS
  <2>5. c = [i \in 1 .. n |-> c[i]]
    BY <2>4
  <2>6. Len(c) = n
    BY <1>1, <2>5, LenOfFunction
  <2>7. \A i \in 1 .. n : c[i] \in Nat /\ c[i] <= t
    BY <2>3, <2>4
  <2>8. Sum(c) \in Nat /\ Sum(c) <= n * t
    BY <1>1, <2>2, <2>6, <2>7, SumAtMost
  <2>9. PICK x : x = n * t
    OBVIOUS
  <2>10. x \in Nat
    BY <1>1, <2>2, <2>9
  <2>11. Sum(c) < v
    BY <1>1, <1>2, <2>2, <2>8, <2>9, <2>10
  <2> QED BY <2>4, <2>11 DEF HeldByAll
<1>8. Apart(w, s) /\ InPool(w, s) /\ Covered(w, s)
  BY <1>1, <1>2, <1>5, <1>7, GoodIsSound
<1> QED BY <1>8 DEF Fine, After

LEMMA KernelsAreFine ==
  ASSUME NEW w, CanWarm(w)
  PROVE  \E S : warmup_kernels(w) \in Seq(S) /\ \A s \in S : Fine(w, s)
<1>1. PICK n, N : n = NumReqs(w) /\ N = Len(decode_steps(w))
  OBVIOUS
<1>2. N \in Nat
  BY <1>1, DecodeStepsAre
<1>3. PICK f : WarmedBy(f, w)
  BY <1>1, <1>2, WarmupSteps
<1>4. /\ f[0] = Prefilled(w)
      /\ \A k \in 1 .. N : f[k] = _run_decode_step(w, f[k - 1], decode_steps(w)[k])
      /\ warmup_kernels(w) = IF w.pooling THEN <<Prefilled(w)>> ELSE [k \in 1 .. N + 1 |-> f[k - 1]]
  BY <1>1, <1>3 DEF WarmedBy, StatesAre
<1> DEFINE T == {k \in Nat : k <= N => After(w, f[k], n, k)}
<1>5. 0 \in T
  BY <1>1, <1>4, PrefilledIs
<1>6. ASSUME NEW k \in T PROVE k + 1 \in T
  <2> SUFFICES ASSUME k + 1 <= N PROVE After(w, f[k + 1], n, k + 1)
    OBVIOUS
  <2>1. PICK e : e = k + 1
    OBVIOUS
  <2>2. e \in 1 .. N /\ e - 1 = k /\ k \in Nat /\ k <= N
    BY <1>2, <2>1
  <2>3. After(w, f[k], n, e - 1)
    BY <2>2
  <2>4. f[e] = _run_decode_step(w, f[k], decode_steps(w)[e])
    BY <1>4, <2>2
  <2>5. e \in 1 .. Len(decode_steps(w))
    BY <1>1, <2>2
  <2>6. After(w, f[e], n, e)
    BY <1>1, <2>3, <2>4, <2>5, DecodeIs
  <2> QED BY <2>1, <2>6
<1>7. T = Nat
  <2>1. T \in SUBSET Nat
    OBVIOUS
  <2> HIDE DEF T
  <2> QED BY <2>1, <1>5, <1>6, SetInduction
<1>8. \A k \in 0 .. N : After(w, f[k], n, k)
  BY <1>2, <1>7
<1> HIDE DEF T
<1>9. CASE w.pooling
  <2>1. 0 \in 0 .. Len(decode_steps(w)) /\ After(w, f[0], n, 0)
    BY <1>1, <1>2, <1>8
  <2>2. Fine(w, f[0])
    BY <1>1, <2>1, AfterIsFine
  <2>3. warmup_kernels(w) \in Seq({f[0]})
    BY <1>4, <1>9
  <2> QED BY <2>2, <2>3
<1>10. CASE ~ w.pooling
  <2>1. ASSUME NEW k \in 0 .. N PROVE Fine(w, f[k])
    <3>1. k \in 0 .. Len(decode_steps(w)) /\ After(w, f[k], n, k)
      BY <1>1, <1>8
    <3> QED BY <1>1, <1>10, <3>1, AfterIsFine
  <2>2. PICK S : S = {f[k] : k \in 0 .. N}
    OBVIOUS
  <2>3. \A s \in S : Fine(w, s)
    BY <2>1, <2>2
  <2>4. PICK M : M = N + 1
    OBVIOUS
  <2>5. M \in Nat /\ \A k \in 1 .. M : k - 1 \in 0 .. N
    BY <1>2, <2>4
  <2>6. \A k \in 1 .. M : f[k - 1] \in S
    BY <2>2, <2>5
  <2>7. [k \in 1 .. M |-> f[k - 1]] \in Seq(S)
    BY <2>5, <2>6
  <2>8. warmup_kernels(w) \in Seq(S)
    BY <1>4, <1>10, <2>4, <2>7
  <2> QED BY <2>3, <2>8
<1> QED BY <1>9, <1>10

-----------------------------------------------------------------------------
(* run_mixed_prefill_decode_warmup.                                        *)

LEMMA LenOfPairs == Len(<<2>>) = 1 /\ <<2>>[1] = 2
                    /\ \A x : Len(<<1, x>>) = 2 /\ <<1, x>>[1] = 1 /\ <<1, x>>[2] = x
OBVIOUS

\* Two requests fit that hold no more than a and b tokens reserve together.
LEMMA TwoFit ==
  ASSUME NEW w, CanWarm(w), NEW s, Good(w, s, 2), NEW a \in Nat, NEW b \in Nat,
         s.computed[1] <= a, s.computed[2] <= b, TotalFor(w, a) + TotalFor(w, b) < w.blocks
  PROVE  Apart(w, s) /\ InPool(w, s) /\ Covered(w, s)
<1>1. IsWarmup(w) /\ w.blocks \in Nat
  BY DEF CanWarm
<1>2. 1 \in 1 .. 2 /\ 2 \in 1 .. 2 /\ 2 \in Nat
  OBVIOUS
<1>3. HeldBy(w, s, 1) \in Nat /\ HeldBy(w, s, 1) <= TotalFor(w, a)
  BY <1>1, <1>2, HeldAtMost
<1>4. HeldBy(w, s, 2) \in Nat /\ HeldBy(w, s, 2) <= TotalFor(w, b)
  BY <1>1, <1>2, HeldAtMost
<1>5. TotalFor(w, a) \in Nat /\ TotalFor(w, b) \in Nat
  BY <1>1, TotalForIs
<1>6. PICK c : c = [i \in 1 .. 2 |-> HeldBy(w, s, i)]
  OBVIOUS
<1>7. c[1] = HeldBy(w, s, 1) /\ c[2] = HeldBy(w, s, 2)
  BY <1>6
<1>8. c = [i \in 1 .. 2 |-> c[i]]
  BY <1>6
<1>9. Len(c) = 2
  BY <1>2, <1>8, LenOfFunction
<1>10. Sum(c) = HeldBy(w, s, 1) + HeldBy(w, s, 2)
  BY <1>3, <1>4, <1>7, <1>9, SumOfTwo
<1>11. PICK g, h, x, y, v : /\ g = HeldBy(w, s, 1) /\ h = HeldBy(w, s, 2)
                            /\ x = TotalFor(w, a) /\ y = TotalFor(w, b) /\ v = w.blocks
  OBVIOUS
<1>12. g + h < v
  <2>1. g \in Nat /\ h \in Nat /\ x \in Nat /\ y \in Nat /\ v \in Nat /\ g <= x /\ h <= y /\ x + y < v
    BY <1>1, <1>3, <1>4, <1>5, <1>11
  <2> QED BY <2>1
<1>13. HeldByAll(w, s, 2) < w.blocks
  BY <1>6, <1>10, <1>11, <1>12 DEF HeldByAll
<1> QED BY <1>1, <1>2, <1>13, GoodIsSound

LEMMA MixedIsFine ==
  ASSUME NEW w, CanWarm(w)
  PROVE  \E S : /\ run_mixed_prefill_decode_warmup(w, w.batched) \in Seq(S)
                /\ \A s \in S : Fine(w, s)
<1>1. PICK n, r : n = w.batched /\ r = run_mixed_prefill_decode_warmup(w, n)
  OBVIOUS
<1>2. IsWarmup(w) /\ n \in Nat /\ w.blocks \in Nat
  BY <1>1 DEF CanWarm
<1>3. CASE ~ MixedRuns(w, n)
  <2>1. r = <<>>
    BY <1>1, <1>3 DEF run_mixed_prefill_decode_warmup
  <2>2. r \in Seq({})
    BY <2>1
  <2> QED BY <1>1, <2>2
<1>4. CASE MixedRuns(w, n)
  <2>1. PICK z, m, s, t : /\ z = Start(w, 2) /\ m = n - 1 /\ s = Step(w, z, <<2>>)
                          /\ t = Step(w, s, <<1, m>>)
    OBVIOUS
  <2>2. r = <<s, t>>
    BY <1>1, <1>4, <2>1 DEF run_mixed_prefill_decode_warmup
  <2>3. n >= 3 /\ TotalFor(w, 3) + TotalFor(w, m) < w.blocks
    <3>1. n >= 3 /\ w.blocks > TotalFor(w, 3) + TotalFor(w, n - 1)
      BY <1>4 DEF MixedRuns
    <3>2. PICK x, y, v : x = TotalFor(w, 3) /\ y = TotalFor(w, m) /\ v = w.blocks
      OBVIOUS
    <3>3. m \in Nat
      BY <1>2, <2>1, <3>1
    <3>4. x \in Nat /\ y \in Nat /\ v \in Nat
      <4>1. 3 \in Nat
        OBVIOUS
      <4> QED BY <1>2, <3>2, <3>3, <4>1, TotalForIs
    <3>5. v > x + y
      BY <2>1, <3>1, <3>2
    <3> QED BY <3>1, <3>2, <3>4, <3>5
  <2>4. m \in Nat /\ m > 0 /\ n = m + 1 /\ n \in Nat
    BY <1>2, <2>1, <2>3
  <2>5. Good(w, z, 2) /\ \A i \in 1 .. 2 : z.computed[i] = 0
    <3>1. 2 \in Nat
      OBVIOUS
    <3> QED BY <1>2, <2>1, <3>1, StartIsGood
  <2>6. PICK b, c : b = <<2>> /\ c = <<1, m>>
    OBVIOUS
  <2>7. Len(b) = 1 /\ b[1] = 2 /\ Len(c) = 2 /\ c[1] = 1 /\ c[2] = m
    BY <2>6, LenOfPairs
  <2>8. Tokens(b, 2) /\ Tokens(c, 2)
    BY <2>4, <2>7 DEF Tokens
  <2>9. /\ Good(w, s, 2) /\ s.batch = b
        /\ \A i \in 1 .. 2 : s.computed[i] = z.computed[i] + Given(b, i)
    <3>1. 2 \in Nat /\ s = Step(w, z, b)
      BY <2>1, <2>6
    <3> QED BY <1>2, <2>5, <2>8, <3>1, GoodStep
  <2>10. s.computed[1] = 2 /\ s.computed[2] = 0
    <3>1. Given(b, 1) = 2 /\ Given(b, 2) = 0
      BY <2>7 DEF Given
    <3>2. 1 \in 1 .. 2 /\ 2 \in 1 .. 2
      OBVIOUS
    <3> QED BY <2>5, <2>9, <3>1, <3>2
  <2>11. /\ Good(w, t, 2) /\ t.batch = c
         /\ \A i \in 1 .. 2 : t.computed[i] = s.computed[i] + Given(c, i)
    <3>1. 2 \in Nat /\ t = Step(w, s, c)
      BY <2>1, <2>6
    <3> QED BY <1>2, <2>8, <2>9, <3>1, GoodStep
  <2>12. t.computed[1] = 3 /\ t.computed[2] = m
    <3>1. Given(c, 1) = 1 /\ Given(c, 2) = m
      BY <2>7 DEF Given
    <3>2. 1 \in 1 .. 2 /\ 2 \in 1 .. 2
      OBVIOUS
    <3> QED BY <2>4, <2>10, <2>11, <3>1, <3>2
  <2>13. InBatch(w, s)
    <3>1. \A i \in 1 .. 1 : b[i] \in Nat /\ b[i] <= 2
      BY <2>7
    <3>2. Sum(b) \in Nat /\ Sum(b) <= 1 * 2
      BY <2>7, <3>1, SumAtMost
    <3>3. Sum(b) <= n
      BY <2>3, <2>4, <3>2
    <3> QED BY <1>1, <2>9, <3>3 DEF InBatch
  <2>14. InBatch(w, t)
    <3>1. Sum(c) = c[1] + c[2]
      BY <2>4, <2>7, SumOfTwo
    <3>2. Sum(c) = 1 + m
      BY <2>7, <3>1
    <3>3. Sum(c) <= n
      BY <2>4, <3>2
    <3> QED BY <1>1, <2>11, <3>3 DEF InBatch
  <2>15. Fine(w, s)
    <3>1. 3 \in Nat /\ 2 <= 3 /\ 0 <= m /\ s.computed[1] <= 3 /\ s.computed[2] <= m
      BY <2>4, <2>10
    <3> QED BY <2>3, <2>4, <2>9, <2>13, <3>1, TwoFit DEF Fine
  <2>16. Fine(w, t)
    <3>1. 3 \in Nat /\ t.computed[1] <= 3 /\ t.computed[2] <= m
      BY <2>4, <2>12
    <3> QED BY <2>3, <2>4, <2>11, <2>14, <3>1, TwoFit DEF Fine
  <2>17. r \in Seq({s, t})
    BY <2>2
  <2> QED BY <1>1, <2>15, <2>16, <2>17
<1> QED BY <1>3, <1>4

LEMMA WarmupIsFine ==
  ASSUME NEW w, CanWarm(w), NEW x,
         x = warmup_kernels(w) \o run_mixed_prefill_decode_warmup(w, w.batched)
  PROVE  \A i \in DOMAIN x : Fine(w, x[i])
<1>1. PICK a, b : a = warmup_kernels(w) /\ b = run_mixed_prefill_decode_warmup(w, w.batched)
  OBVIOUS
<1>2. PICK A : a \in Seq(A) /\ \A s \in A : Fine(w, s)
  BY <1>1, KernelsAreFine
<1>3. PICK B : b \in Seq(B) /\ \A s \in B : Fine(w, s)
  BY <1>1, MixedIsFine
<1>4. PICK S : S = A \cup B
  OBVIOUS
<1>5. a \in Seq(S) /\ b \in Seq(S)
  BY <1>2, <1>3, <1>4
<1>6. x \in Seq(S)
  BY <1>1, <1>5, ConcatProperties
<1>7. ASSUME NEW i \in DOMAIN x PROVE Fine(w, x[i])
  <2>1. i \in 1 .. Len(x)
    BY <1>6, LenProperties
  <2>2. x[i] \in S
    BY <1>6, <2>1, ElementOfSeq
  <2> QED BY <1>2, <1>3, <1>4, <2>2
<1> QED BY <1>7

-----------------------------------------------------------------------------
(* Types.                                                                  *)

LEMMA Numbers ==
  ASSUME setup \in Setups
  PROVE  AllGraphs \in Nat /\ Overlaid \in Nat
<1>1. Fulls \in Nat /\ 0 \in Nat
  BY CostsAre
<1>2. Costs(Fulls) \in Nat
  BY <1>1, CostsAre
<1>3. AllGraphs \in Nat
  BY <1>2 DEF AllGraphs, Fulls
<1>4. Overlaid \in Nat
  <2>1. setup.piece \in Nat /\ setup.first \in Nat
    BY SetupIs
  <2> QED BY <2>1 DEF Overlaid, Least
<1> QED BY <1>3, <1>4

\* What the estimate of V2 comes to.
LEMMA EstimateStep ==
  ASSUME setup \in Setups, CaptureForProfile, capture_descs(mgr) # {}
  PROVE  estimate' \in Nat /\ AllGraphs <= estimate'
<1>1. PICK t, s : t = Fulls /\ s = Samples(t)
  OBVIOUS
<1>2. estimate' = Max({0, Costs(Least(2, t)) - Sum(s) + _extrapolate_full_graph_memory(s, t)})
  BY <1>1 DEF CaptureForProfile, Fulls, Samples
<1>3. estimate' \in Nat /\ Costs(t) <= estimate'
  <2>1. PICK e : e = estimate'
    OBVIOUS
  <2>2. e \in Nat /\ Costs(t) <= e
    BY <1>1, <1>2, <2>1, EstimateCovers
  <2> QED BY <2>1, <2>2
<1> QED BY <1>1, <1>3 DEF AllGraphs, Fulls

LEMMA GrantIs ==
  ASSUME setup \in Setups, InitializeKv, phase' = "kv", ByHand \in Nat, nonKv \in Nat,
         estimate \in Nat
  PROVE  blocks' \in Nat /\ Available > 0 /\ blocks' * setup.page <= Available
<1>1. PICK n, p, a : /\ n = (IF Available <= 0 THEN 0 ELSE Available \div setup.page)
                     /\ p = setup.page /\ a = Available
  OBVIOUS
<1>2. blocks' = n /\ n > TotalFor(setup.warmup, setup.warmup.maxLen)
  BY <1>1 DEF InitializeKv
<1>3. p \in Nat /\ p > 0 /\ a \in Int
  <2>1. setup.requested \in Nat
    BY SetupIs
  <2> QED BY <1>1, <2>1, SetupIs DEF Available
<1>4. TotalFor(setup.warmup, setup.warmup.maxLen) \in Nat
  BY SetupIs, TotalIs
<1>5. ~(a <= 0)
  BY <1>1, <1>2, <1>3, <1>4
<1>6. n = a \div p /\ a \in Nat
  BY <1>1, <1>3, <1>5
<1>7. n \in Nat /\ n * p <= a
  BY <1>3, <1>5, <1>6, DivIs
<1> QED BY <1>1, <1>2, <1>3, <1>5, <1>7

LEMMA TypesInit == Init => Types
<1> SUFFICES ASSUME Init PROVE Types
  OBVIOUS
<1>1. setup.others \in Nat
  BY SetupIs DEF Init
<1> QED BY <1>1 DEF Init, Types, Phases, Owners

LEMMA TypesStep ==
  ASSUME Types, MemoryInv, [Next]_vars
  PROVE  Types'
<1>1. /\ setup' = setup => setup' \in Setups
      /\ setup.peak \in Nat /\ setup.torch \in Nat /\ setup.rest \in Nat
      /\ setup.drift \subseteq Nat /\ setup.requested \in Nat /\ setup.buffer \in Nat
  BY SetupIs DEF Types
<1>2. phase \in Phases /\ setup \in Setups /\ pool \in [Owners -> {"none", "persistent", "throwaway"}]
  BY DEF Types
<1>3. Bound(pool) \in [Owners -> {"none", "persistent", "throwaway"}]
  BY <1>2 DEF Bound, Owners
<1>4. CASE InitDevice
  BY <1>4 DEF Types, InitDevice, Phases, Graphs, Serving
<1>5. CASE LoadModel
  <2>1. pool' \in [Owners -> {"none", "persistent", "throwaway"}]
    BY <1>5, <1>2 DEF LoadModel, Owners
  <2>2. own'.torch \in Nat /\ own'.rest \in Nat
    BY <1>5, <1>1 DEF Types, LoadModel
  <2> QED BY <1>5, <2>1, <2>2 DEF Types, LoadModel, Phases, Serving
<1>6. CASE OthersMove
  BY <1>6, <1>1 DEF Types, OthersMove, Phases, Graphs, Serving
<1>7. CASE ProfileMemory
  <2>1. nonKv' \in Nat /\ kept' \in Int
    BY <1>7, <1>1 DEF Types, ProfileMemory, NonKv
  <2> QED BY <1>7, <2>1 DEF Types, ProfileMemory, Phases, Graphs, Serving
<1>8. CASE SkipProfiling
  BY <1>8 DEF Types, SkipProfiling, Phases, Graphs, Serving
<1>9. CASE StartGraphProfile
  <2>1. blocks' \in Nat
    BY <1>9, SetupIs, <1>2 DEF StartGraphProfile, MinBlocks, IsManager, Least
  <2>2. pool' \in [Owners -> {"none", "persistent", "throwaway"}]
    BY <1>9, <1>2 DEF StartGraphProfile, SwapPools, Bound, Owners
  <2> QED BY <1>9, <2>1, <2>2 DEF Types, StartGraphProfile, Phases, Serving
<1>10. CASE CaptureForProfile
  <2>1. estimate' \in Nat
    BY <1>10, <1>2, EstimateStep DEF CaptureForProfile, Types
  <2>2. pool' = pool
    BY <1>10 DEF CaptureForProfile, Capture, Graphs
  <2> QED BY <1>10, <2>1, <2>2 DEF Types, CaptureForProfile, Phases, Serving
<1>11. CASE EndGraphProfile
  <2>1. pool' \in [Owners -> {"none", "persistent", "throwaway"}]
    BY <1>11, <1>2 DEF EndGraphProfile, Restored
  <2> QED BY <1>11, <2>1 DEF Types, EndGraphProfile, Phases, Serving
<1>12. CASE StartGraphProfileV1
  <2>1. MinBlocks \in Nat
    BY SetupIs, <1>2 DEF MinBlocks, IsManager, Least
  <2>2. pool' \in [Owners -> {"none", "persistent", "throwaway"}]
    BY <1>12, <1>2 DEF StartGraphProfileV1, Owners
  <2> QED BY <1>12, <2>1, <2>2 DEF Types, StartGraphProfileV1, Phases, Serving
<1>13. CASE CaptureForProfileV1
  <2>1. nonKv # 0 /\ V1
    BY <1>13 DEF CaptureForProfileV1, MemoryInv, Measured
  <2>2. estimate' \in Nat
    BY <1>13, <1>2, <2>1, EstimateV1Covers DEF CaptureForProfileV1
  <2> QED BY <1>13, <2>2 DEF Types, CaptureForProfileV1, CaptureV1, Phases, Serving
<1>14. CASE EndGraphProfileV1
  <2>1. pool' \in [Owners -> {"none", "persistent", "throwaway"}]
    BY <1>14, <1>2 DEF EndGraphProfileV1, Owners
  <2> QED BY <1>14, <2>1 DEF Types, EndGraphProfileV1, Phases, Serving
<1>15. CASE InitializeKv
  <2>1. ByHand \in Nat
    BY <1>2, SetupIs DEF Types, ByHand
  <2>2. blocks' \in Nat
    <3>1. CASE phase' = "kv"
      BY <1>15, <1>2, <2>1, <3>1, GrantIs DEF Types
    <3>2. CASE phase' # "kv"
      BY <1>15, <3>2 DEF Types, InitializeKv
    <3> QED BY <3>1, <3>2
  <2>3. pool' \in [Owners -> {"none", "persistent", "throwaway"}] /\ phase' \in Phases
    BY <1>15, <1>2, <1>3 DEF InitializeKv, Phases
  <2> QED BY <1>15, <2>2, <2>3 DEF Types, InitializeKv, Serving
<1>16. CASE WarmUpSizes
  BY <1>16 DEF Types, WarmUpSizes, Phases, Graphs, Serving
<1>17. CASE CaptureModel
  <2>1. pool' = pool
    BY <1>17 DEF CaptureModel, Capture, Graphs
  <2> QED BY <1>17, <2>1 DEF Types, CaptureModel, Phases, Serving
<1>18. CASE CaptureModelV1
  <2>1. pool' = pool
    BY <1>18 DEF CaptureModelV1, CaptureV1, Graphs
  <2> QED BY <1>18, <2>1 DEF Types, CaptureModelV1, Phases, Serving
<1>19. CASE WarmUpKernels
  <2>1. plan' \in Nat
    <3>1. Costs(Cardinality(OfMode("FULL"))) \in Nat
      BY <1>2, CostsAre DEF Fulls
    <3>2. GraphMemory \in Int
      BY <3>1 DEF GraphMemory
    <3>3. Suggested \in Int
      BY <1>1, <3>2 DEF Suggested, Types
    <3>4. Suggested > 0 => Suggested \in Nat
      BY <3>3
    <3> QED BY <1>19, <3>4 DEF WarmUpKernels, Types
  <2> QED BY <1>19, <2>1 DEF Types, WarmUpKernels, Phases, Graphs, Serving
<1>20. CASE ExecuteModel
  BY <1>20 DEF Types, ExecuteModel, Phases, Graphs, Serving
<1>21. CASE Restart
  <2>1. pool' \in [Owners -> {"none", "persistent", "throwaway"}]
    BY <1>21 DEF Restart
  <2>2. own'.torch \in Nat /\ own'.rest \in Nat
    BY <1>21 DEF Restart
  <2> QED BY <1>21, <2>1, <2>2 DEF Types, Restart, Phases
<1>22. CASE Stopped
  BY <1>22 DEF Types, Stopped, vars, Phases, Graphs, Serving
<1>23. CASE UNCHANGED vars
  BY <1>23 DEF Types, vars, Phases, Graphs, Serving
<1> QED BY <1>4, <1>5, <1>6, <1>7, <1>8, <1>9, <1>10, <1>11, <1>12, <1>13, <1>14, <1>15, <1>16, <1>17, <1>18, <1>19, <1>20, <1>21, <1>22, <1>23 DEF Next

-----------------------------------------------------------------------------
(* Memory.                                                                 *)

LEMMA MeasuredStep ==
  ASSUME Types, MemoryInv, [Next]_vars
  PROVE  Measured'
<1>1. /\ setup \in Setups /\ phase \in Phases
      /\ nonKv \in Nat /\ kept \in Int /\ estimate \in Nat /\ plan \in Nat
      /\ own.torch \in Nat /\ own.rest \in Nat /\ others \in Nat /\ seen \in Nat
  BY DEF Types
<1>2. /\ setup.peak \in Nat /\ setup.peak > 0 /\ setup.torch \in Nat /\ setup.rest \in Nat
      /\ setup.manual \in Nat /\ AllGraphs \in Nat /\ Overlaid \in Nat
  BY <1>1, SetupIs, Numbers
<1>3. setup' = setup => AllGraphs' = AllGraphs
  BY SameSetup
<1>4. setup' = setup /\ nonKv' = nonKv => Overlaid' = Overlaid
  BY SameSetup DEF Overlaid
<1>5. setup' = setup /\ plan' = plan => ByHand' = ByHand
  BY DEF ByHand
<1>6. CASE InitDevice
  BY <1>6, <1>1, <1>3, <1>4, <1>5 DEF InitDevice, MemoryInv, Measured, Phases, Early, Running, Graphs, Serving
<1>7. CASE LoadModel
  BY <1>7, <1>1, <1>3, <1>4, <1>5 DEF LoadModel, MemoryInv, Measured, Phases, Early, Running, Graphs, Serving
<1>8. CASE OthersMove
  BY <1>8, <1>1, <1>3, <1>4, <1>5 DEF OthersMove, MemoryInv, Measured, Phases, Early, Running, Graphs, Serving
<1>9. CASE ProfileMemory
  <2>1. PICK c : c = others + own.torch + own.rest - seen
    OBVIOUS
  <2>2. own.torch = setup.torch /\ own.rest = setup.rest /\ estimate = 0
    BY <1>9 DEF ProfileMemory, MemoryInv, Measured, Early
  <2>3. /\ nonKv' = (IF c >= 0 THEN c ELSE own.torch) + setup.peak /\ kept' = others - seen
        /\ setup' = setup /\ own' = own /\ estimate' = estimate /\ plan' = plan
        /\ phase' = IF mgr.mode = "NONE" THEN "sized" ELSE "profiled"
    BY <1>9, <2>1 DEF ProfileMemory, NonKv, Serving
  <2>4. c \in Int /\ c = kept' + setup.torch + setup.rest
    BY <1>1, <1>2, <2>1, <2>2, <2>3
  <2>5. nonKv' # 0 /\ kept' + setup.torch + setup.rest + setup.peak <= nonKv'
    BY <1>1, <1>2, <2>2, <2>3, <2>4
  <2>6. setup.manual = 0 /\ plan = 0
    BY <1>9, <1>1, <1>2 DEF ProfileMemory, ByHand
  <2>7. phase' = "sized" => AllGraphs = 0
    <3> SUFFICES ASSUME mgr.mode = "NONE" PROVE AllGraphs = 0
      BY <2>3
    <3> QED BY DEF AllGraphs, capture_descs, separate_routine, mixed_mode
  <2>8. Overlaid' \in Nat
    BY SetupIs, <1>1, <2>3 DEF Overlaid, Least
  <2>9. phase' = "sized" => AllGraphs' <= estimate' + Overlaid'
    <3>1. estimate' = 0 /\ AllGraphs' = AllGraphs
      BY <1>3, <2>2, <2>3
    <3> SUFFICES ASSUME phase' = "sized" PROVE AllGraphs' <= estimate' + Overlaid'
      OBVIOUS
    <3>2. AllGraphs' = 0
      BY <2>7, <3>1
    <3>3. PICK g, e, o : g = AllGraphs' /\ e = estimate' /\ o = Overlaid'
      OBVIOUS
    <3>4. g = 0 /\ e = 0 /\ o \in Nat
      BY <2>8, <3>1, <3>2, <3>3
    <3>5. g <= e + o
      BY <3>4
    <3> QED BY <3>3, <3>5
  <2>10. nonKv' # 0 =>
          /\ setup'.manual = 0 /\ (phase' # "serving" => plan' = 0)
          /\ kept' + setup'.torch + setup'.rest + setup'.peak <= nonKv'
          /\ phase' = "teardown" \/ phase' = "sized" \/ Running' =>
              AllGraphs' <= estimate' + Overlaid'
    BY <2>3, <2>5, <2>6, <2>9 DEF Running
  <2> QED BY <2>2, <2>3, <2>5, <2>10 DEF Measured, Early, Running
<1>10. CASE SkipProfiling
  BY <1>10, <1>1, <1>3, <1>4, <1>5 DEF SkipProfiling, MemoryInv, Measured, Phases, Early, Running, Graphs, Serving
<1>11. CASE StartGraphProfile
  BY <1>11, <1>1, <1>3, <1>4, <1>5 DEF StartGraphProfile, MemoryInv, Measured, Phases, Early, Running, Graphs, Serving
<1>12. CASE CaptureForProfile
  <2>1. capture_descs(mgr) # {} => estimate' \in Nat /\ AllGraphs <= estimate'
    BY <1>12, <1>1, EstimateStep
  <2>2. capture_descs(mgr) = {} => estimate' = estimate /\ AllGraphs = 0
    BY <1>12 DEF CaptureForProfile, AllGraphs
  <2>3. AllGraphs <= estimate' + Overlaid
    BY <1>1, <1>2, <2>1, <2>2
  <2> QED BY <1>12, <1>1, <1>3, <1>4, <1>5, <2>3
        DEF CaptureForProfile, MemoryInv, Measured, Phases, Early, Running, Serving
<1>13. CASE EndGraphProfile
  BY <1>13, <1>1, <1>3, <1>4, <1>5 DEF EndGraphProfile, MemoryInv, Measured, Phases, Early, Running, Graphs, Serving
<1>14. CASE StartGraphProfileV1
  <2>1. DispatcherKeys = {} => AllGraphs = 0
    BY DEF DispatcherKeys, AllGraphs
  <2>2. DispatcherKeys = {} => AllGraphs <= estimate + Overlaid
    BY <1>1, <1>2, <2>1
  <2> QED BY <1>14, <1>1, <1>3, <1>4, <1>5, <2>2
        DEF StartGraphProfileV1, MemoryInv, Measured, Phases, Early, Running, Serving
<1>15. CASE CaptureForProfileV1
  <2>1. nonKv # 0 /\ V1
    BY <1>15 DEF CaptureForProfileV1, MemoryInv, Measured
  <2>2. Costs(Fulls) <= EstimateV1 + Overlaid /\ EstimateV1 \in Nat
    BY <1>1, <2>1, EstimateV1Covers
  <2>3. AllGraphs <= estimate' + Overlaid
    BY <1>15, <1>2, <2>2 DEF CaptureForProfileV1, AllGraphs, Fulls
  <2> QED BY <1>15, <1>1, <1>3, <1>4, <1>5, <2>3
        DEF CaptureForProfileV1, MemoryInv, Measured, Phases, Early, Running, Serving
<1>16. CASE EndGraphProfileV1
  BY <1>16, <1>1, <1>3, <1>4, <1>5 DEF EndGraphProfileV1, MemoryInv, Measured, Phases, Early, Running, Graphs, Serving
<1>17. CASE InitializeKv
  BY <1>17, <1>1, <1>3, <1>4, <1>5 DEF InitializeKv, MemoryInv, Measured, Phases, Early, Running, Graphs, Serving
<1>18. CASE WarmUpSizes
  BY <1>18, <1>1, <1>3, <1>4, <1>5 DEF WarmUpSizes, MemoryInv, Measured, Phases, Early, Running, Graphs, Serving
<1>19. CASE CaptureModel
  BY <1>19, <1>1, <1>3, <1>4, <1>5 DEF CaptureModel, MemoryInv, Measured, Phases, Early, Running, Graphs, Serving
<1>20. CASE CaptureModelV1
  BY <1>20, <1>1, <1>3, <1>4, <1>5 DEF CaptureModelV1, MemoryInv, Measured, Phases, Early, Running, Graphs, Serving
<1>21. CASE WarmUpKernels
  <2>1. nonKv = 0 => ByHand > 0 /\ plan' = plan
    BY <1>21, <1>1, <1>2 DEF WarmUpKernels, MemoryInv, Measured, Running, ByHand
  <2> QED BY <1>21, <1>1, <1>3, <1>4, <1>5, <2>1
        DEF WarmUpKernels, MemoryInv, Measured, Phases, Early, Running, Graphs, Serving
<1>22. CASE ExecuteModel
  BY <1>22, <1>1, <1>3, <1>4, <1>5 DEF ExecuteModel, MemoryInv, Measured, Phases, Early, Running, Graphs, Serving
<1>23. CASE Restart
  BY <1>23, <1>1, <1>3, <1>4, <1>5 DEF Restart, MemoryInv, Measured, Phases, Early, Running, Graphs, Serving
<1>24. CASE Stopped
  BY <1>24, <1>1, <1>3, <1>4, <1>5 DEF Stopped, vars, MemoryInv, Measured, Phases, Early, Running, Graphs, Serving
<1>25. CASE UNCHANGED vars
  BY <1>25, <1>1, <1>3, <1>4, <1>5 DEF vars, MemoryInv, Measured, Phases, Early, Running, Graphs, Serving
<1> QED BY <1>6, <1>7, <1>8, <1>9, <1>10, <1>11, <1>12, <1>13, <1>14, <1>15, <1>16, <1>17, <1>18, <1>19, <1>20, <1>21, <1>22, <1>23, <1>24, <1>25 DEF Next

LEMMA GrantedStep ==
  ASSUME Types, MemoryInv, [Next]_vars
  PROVE  Granted'
<1>1. setup \in Setups /\ nonKv \in Nat /\ estimate \in Nat /\ plan \in Nat /\ blocks \in Nat
  BY DEF Types
<1>2. setup.manual \in Nat /\ setup.requested \in Nat
  BY <1>1, SetupIs
<1>3. setup' = setup /\ plan' = plan => ByHand' = ByHand
  BY DEF ByHand
<1>4. setup' = setup /\ estimate' = estimate => Reserved' = Reserved
  BY DEF Reserved
<1>5. Granted
  BY DEF MemoryInv
<1>6. CASE InitDevice
  BY <1>6, <1>3, <1>4, <1>5 DEF InitDevice, Granted, Running, Graphs, Serving
<1>7. CASE LoadModel
  BY <1>7, <1>3, <1>4, <1>5 DEF LoadModel, Granted, Running, Graphs, Serving
<1>8. CASE OthersMove
  BY <1>8, <1>3, <1>4, <1>5 DEF OthersMove, Granted, Running, Graphs, Serving
<1>9. CASE ProfileMemory
  BY <1>9, <1>3, <1>4, <1>5 DEF ProfileMemory, Granted, Running, Graphs, Serving
<1>10. CASE SkipProfiling
  BY <1>10, <1>3, <1>4, <1>5 DEF SkipProfiling, Granted, Running, Graphs, Serving
<1>11. CASE StartGraphProfile
  BY <1>11, <1>3, <1>4, <1>5 DEF StartGraphProfile, Granted, Running, Graphs, Serving
<1>12. CASE CaptureForProfile
  BY <1>12, <1>3, <1>4, <1>5 DEF CaptureForProfile, Granted, Running, Graphs, Serving
<1>13. CASE EndGraphProfile
  BY <1>13, <1>3, <1>4, <1>5 DEF EndGraphProfile, Granted, Running, Graphs, Serving
<1>14. CASE StartGraphProfileV1
  BY <1>14, <1>3, <1>4, <1>5 DEF StartGraphProfileV1, Granted, Running, Graphs, Serving
<1>15. CASE CaptureForProfileV1
  BY <1>15, <1>3, <1>4, <1>5 DEF CaptureForProfileV1, Granted, Running, Graphs, Serving
<1>16. CASE EndGraphProfileV1
  BY <1>16, <1>3, <1>4, <1>5 DEF EndGraphProfileV1, Granted, Running, Graphs, Serving
<1>17. CASE InitializeKv
  <2>1. CASE phase' # "kv"
    BY <1>17, <2>1 DEF InitializeKv, Granted, Running
  <2>2. CASE phase' = "kv"
    <3>1. ByHand \in Nat
      BY <1>1, <1>2 DEF ByHand
    <3>2. blocks' * setup.page <= Available
      BY <1>17, <1>1, <2>2, <3>1, GrantIs
    <3>3. nonKv = 0 => ByHand > 0
      BY <1>17 DEF InitializeKv, MemoryInv, Measured
    <3>4. nonKv # 0 => ByHand = 0
      BY <1>17 DEF InitializeKv, MemoryInv, Measured, ByHand
    <3>5. Available = IF nonKv = 0 THEN ByHand ELSE setup.requested - nonKv - Reserved
      BY <3>1, <3>3, <3>4 DEF Available, Reserved
    <3>6. setup' = setup /\ plan' = plan /\ estimate' = estimate /\ nonKv' = nonKv
      BY <1>17 DEF InitializeKv, Serving
    <3>7. blocks' * setup'.page <= IF nonKv' = 0 THEN ByHand'
                                   ELSE setup'.requested - nonKv' - Reserved'
      BY <1>3, <1>4, <3>2, <3>5, <3>6
    <3> QED BY <3>7 DEF Granted
  <2> QED BY <2>1, <2>2
<1>18. CASE WarmUpSizes
  BY <1>18, <1>3, <1>4, <1>5 DEF WarmUpSizes, Granted, Running, Graphs, Serving
<1>19. CASE CaptureModel
  BY <1>19, <1>3, <1>4, <1>5 DEF CaptureModel, Granted, Running, Graphs, Serving
<1>20. CASE CaptureModelV1
  BY <1>20, <1>3, <1>4, <1>5 DEF CaptureModelV1, Granted, Running, Graphs, Serving
<1>21. CASE WarmUpKernels
  <2>1. nonKv = 0 => ByHand > 0
    BY <1>21 DEF WarmUpKernels, MemoryInv, Measured, Running
  <2>2. nonKv = 0 => ByHand' = ByHand
    BY <1>21, <1>3, <2>1 DEF WarmUpKernels
  <2> QED BY <1>21, <1>4, <1>5, <2>2 DEF WarmUpKernels, Granted, Running
<1>22. CASE ExecuteModel
  BY <1>22, <1>3, <1>4, <1>5 DEF ExecuteModel, Granted, Running, Graphs, Serving
<1>23. CASE Restart
  BY <1>23, <1>3, <1>4, <1>5 DEF Restart, Granted, Running, Graphs, Serving
<1>24. CASE Stopped
  BY <1>24, <1>3, <1>4, <1>5 DEF Stopped, vars, Granted, Running, Graphs, Serving
<1>25. CASE UNCHANGED vars
  BY <1>25, <1>3, <1>4, <1>5 DEF vars, Granted, Running, Graphs, Serving
<1> QED BY <1>6, <1>7, <1>8, <1>9, <1>10, <1>11, <1>12, <1>13, <1>14, <1>15, <1>16, <1>17, <1>18, <1>19, <1>20, <1>21, <1>22, <1>23, <1>24, <1>25 DEF Next

LEMMA PlanFitsStep ==
  ASSUME Types, MemoryInv, GraphInv, [Next]_vars
  PROVE  PlanFits'
<1>1. /\ setup \in Setups /\ nonKv \in Nat /\ estimate \in Nat /\ plan \in Nat /\ kept \in Int
      /\ own.torch \in Nat /\ own.rest \in Nat
  BY DEF Types
<1>2. /\ setup.peak \in Nat /\ setup.peak > 0 /\ setup.torch \in Nat /\ setup.rest \in Nat
      /\ setup.manual \in Nat /\ setup.requested \in Nat /\ setup.buffer \in Nat
      /\ AllGraphs \in Nat
  BY <1>1, SetupIs, Numbers
<1>3. setup' = setup => AllGraphs' = AllGraphs
  BY SameSetup
<1>4. PlanFits
  BY DEF MemoryInv
<1>5. CASE InitDevice
  BY <1>5, <1>3, <1>4 DEF InitDevice, PlanFits, Graphs, Serving
<1>6. CASE LoadModel
  BY <1>6, <1>3, <1>4 DEF LoadModel, PlanFits, Graphs, Serving
<1>7. CASE OthersMove
  BY <1>7, <1>3, <1>4 DEF OthersMove, PlanFits, Graphs, Serving
<1>8. CASE ProfileMemory
  <2>1. setup.manual = 0 => plan' = 0
    BY <1>8, <1>1, <1>2 DEF ProfileMemory, ByHand
  <2> QED BY <1>8, <2>1 DEF ProfileMemory, PlanFits
<1>9. CASE SkipProfiling
  BY <1>9, <1>3, <1>4 DEF SkipProfiling, PlanFits, Graphs, Serving
<1>10. CASE StartGraphProfile
  BY <1>10, <1>3, <1>4 DEF StartGraphProfile, PlanFits, Graphs, Serving
<1>11. CASE CaptureForProfile
  BY <1>11, <1>3, <1>4 DEF CaptureForProfile, PlanFits, Graphs, Serving
<1>12. CASE EndGraphProfile
  BY <1>12, <1>3, <1>4 DEF EndGraphProfile, PlanFits, Graphs, Serving
<1>13. CASE StartGraphProfileV1
  BY <1>13, <1>3, <1>4 DEF StartGraphProfileV1, PlanFits, Graphs, Serving
<1>14. CASE CaptureForProfileV1
  BY <1>14, <1>3, <1>4 DEF CaptureForProfileV1, PlanFits, Graphs, Serving
<1>15. CASE EndGraphProfileV1
  BY <1>15, <1>3, <1>4 DEF EndGraphProfileV1, PlanFits, Graphs, Serving
<1>16. CASE InitializeKv
  BY <1>16, <1>3, <1>4 DEF InitializeKv, PlanFits, Graphs, Serving
<1>17. CASE WarmUpSizes
  BY <1>17, <1>3, <1>4 DEF WarmUpSizes, PlanFits, Graphs, Serving
<1>18. CASE CaptureModel
  BY <1>18, <1>3, <1>4 DEF CaptureModel, PlanFits, Graphs, Serving
<1>19. CASE CaptureModelV1
  BY <1>19, <1>3, <1>4 DEF CaptureModelV1, PlanFits, Graphs, Serving
<1>20. CASE WarmUpKernels
  <2>1. setup' = setup /\ kept' = kept
    BY <1>20 DEF WarmUpKernels
  <2>2. CASE ByHand = 0 /\ Suggested > 0
    <3>1. nonKv # 0 /\ kept + setup.torch + setup.rest + setup.peak <= nonKv
      BY <1>20, <2>2 DEF WarmUpKernels, MemoryInv, Measured, Running
    <3>2. GraphMemory = AllGraphs
      BY <1>20 DEF WarmUpKernels, GraphInv, Recording, GraphMemory, AllGraphs
    <3>3. plan' = setup.requested - nonKv - Reserved - AllGraphs - setup.buffer
      BY <1>20, <2>2, <3>2 DEF WarmUpKernels, Suggested, Reserved
    <3>4. PICK r, g : r = Reserved /\ g = AllGraphs
      OBVIOUS
    <3>5. r \in Nat /\ g \in Nat
      BY <1>1, <1>2, <3>4 DEF Reserved
    <3>6. plan' + setup.torch + setup.rest + setup.peak + g <= setup.requested - kept
      BY <1>1, <1>2, <3>1, <3>3, <3>4, <3>5
    <3> QED BY <1>3, <2>1, <3>4, <3>6 DEF PlanFits
  <2>3. CASE ~(ByHand = 0 /\ Suggested > 0)
    <3>1. plan' = plan
      BY <1>20, <2>3 DEF WarmUpKernels
    <3> QED BY <1>3, <1>4, <2>1, <3>1 DEF PlanFits
  <2> QED BY <2>2, <2>3
<1>21. CASE ExecuteModel
  BY <1>21, <1>3, <1>4 DEF ExecuteModel, PlanFits, Graphs, Serving
<1>22. CASE Restart
  BY <1>22, <1>3, <1>4 DEF Restart, PlanFits, Graphs, Serving
<1>23. CASE Stopped
  BY <1>23, <1>3, <1>4 DEF Stopped, vars, PlanFits, Graphs, Serving
<1>24. CASE UNCHANGED vars
  BY <1>24, <1>3, <1>4 DEF vars, PlanFits, Graphs, Serving
<1> QED BY <1>5, <1>6, <1>7, <1>8, <1>9, <1>10, <1>11, <1>12, <1>13, <1>14, <1>15, <1>16, <1>17, <1>18, <1>19, <1>20, <1>21, <1>22, <1>23, <1>24 DEF Next

LEMMA MemoryInit == Init => MemoryInv
<1> SUFFICES ASSUME Init PROVE MemoryInv
  OBVIOUS
<1>1. plan = 0 /\ nonKv = 0 /\ estimate = 0 /\ phase = "start"
  BY DEF Init
<1>2. Measured
  BY <1>1 DEF Measured, Early, Running
<1>3. Granted
  BY <1>1 DEF Granted, Running
<1>4. PlanFits
  BY <1>1 DEF PlanFits
<1> QED BY <1>2, <1>3, <1>4 DEF MemoryInv

\* What the worker holds stays within its grant.
LEMMA MemoryHolds ==
  ASSUME Types, MemoryInv, GraphInv
  PROVE  MemoryWithinRequest
<1> SUFFICES ASSUME Running, setup.manual = 0
             PROVE  Held <= setup.requested - kept + Overlaid
  BY DEF MemoryWithinRequest
<1>1. /\ setup \in Setups /\ nonKv \in Nat /\ estimate \in Nat /\ plan \in Nat /\ kept \in Int
      /\ blocks \in Nat
  BY DEF Types
<1>2. /\ setup.peak \in Nat /\ setup.torch \in Nat /\ setup.rest \in Nat /\ setup.page \in Nat
      /\ setup.requested \in Nat /\ AllGraphs \in Nat /\ Overlaid \in Nat
  BY <1>1, SetupIs, Numbers
<1>3. own.torch = setup.torch /\ own.rest = setup.rest
  BY DEF MemoryInv, Measured, Running
<1>4. PICK g, a, o, h, b :
        g = GraphMemory /\ a = AllGraphs /\ o = Overlaid /\ h = Held /\ b = blocks * setup.page
  OBVIOUS
<1>5. g \in Nat /\ a \in Nat /\ o \in Nat /\ b \in Nat /\ g <= a
  <2>1. GraphMemory = 0 \/ GraphMemory = AllGraphs
    BY DEF GraphInv, Recording, Running, GraphMemory, AllGraphs
  <2> QED BY <1>1, <1>2, <1>4, <2>1
<1>6. h = setup.torch + setup.rest + setup.peak + b
          + (IF setup.applied \/ (plan > 0 /\ nonKv = 0) THEN g ELSE 0)
  BY <1>3, <1>4 DEF Held
<1>7. CASE nonKv = 0
  <2>1. b <= ByHand /\ ByHand > 0
    BY <1>4, <1>7 DEF MemoryInv, Granted, Measured
  <2>2. ByHand = plan /\ plan > 0
    BY <2>1 DEF ByHand
  <2>3. plan + setup.torch + setup.rest + setup.peak + a <= setup.requested - kept
    BY <1>4, <2>2 DEF MemoryInv, PlanFits
  <2>4. h = setup.torch + setup.rest + setup.peak + b + g
    BY <1>6, <1>7, <2>2
  <2>5. h <= setup.requested - kept + o
    BY <1>1, <1>2, <1>5, <2>1, <2>2, <2>3, <2>4
  <2> QED BY <1>4, <2>5
<1>8. CASE nonKv # 0
  <2>1. PICK r : r = Reserved
    OBVIOUS
  <2>2. b <= setup.requested - nonKv - r
    BY <1>4, <1>8, <2>1 DEF MemoryInv, Granted
  <2>3. kept + setup.torch + setup.rest + setup.peak <= nonKv /\ a <= estimate + o
    BY <1>4, <1>8 DEF MemoryInv, Measured
  <2>4. CASE setup.applied
    <3>1. r = estimate /\ h = setup.torch + setup.rest + setup.peak + b + g
      BY <1>6, <2>1, <2>4 DEF Reserved
    <3>2. h <= setup.requested - kept + o
      BY <1>1, <1>2, <1>5, <2>2, <2>3, <3>1
    <3> QED BY <1>4, <3>2
  <2>5. CASE ~setup.applied
    <3>1. r = 0 /\ h = setup.torch + setup.rest + setup.peak + b + 0
      BY <1>6, <1>8, <2>1, <2>5 DEF Reserved
    <3>2. h <= setup.requested - kept + o
      BY <1>1, <1>2, <1>5, <2>2, <2>3, <3>1
    <3> QED BY <1>4, <3>2
  <2> QED BY <2>4, <2>5
<1> QED BY <1>7, <1>8

-----------------------------------------------------------------------------
(* Graphs.                                                                 *)

\* What a capture records, field by field.
LEMMA RecordedFields ==
  ASSUME NEW n, NEW g \in Recorded(n)
  PROVE  \/ /\ g.owner = "wrappers" /\ g.pool = pool["wrappers"]
            /\ g.desc \in OfMode("PIECEWISE")
         \/ /\ g.owner = "manager" /\ g.pool = pool["manager"]
            /\ g.desc \in Most(n, "FULL")
         \/ /\ g.owner = "speculator" /\ g.pool = pool["speculator"]
            /\ setup.drafter > 0
BY DEF Recorded

LEMMA AllModes ==
  ASSUME IsManager(mgr)
  PROVE  capture_descs(mgr) = OfMode("PIECEWISE") \cup OfMode("FULL")
<1>1. ASSUME NEW d \in capture_descs(mgr) PROVE d.mode \in {"PIECEWISE", "FULL"}
  BY DescIs DEF DescOK
<1> QED BY <1>1 DEF OfMode

\* A whole capture of V2 records all there is.
LEMMA RecordedIs ==
  ASSUME IsManager(mgr), capture_descs(mgr) # {}, graphs' = Recorded(Fulls)
  PROVE  RecordedDescs' = capture_descs(mgr) /\ graphs' # {}
<1>1. Fulls \in Nat
  BY OfModeIs DEF Fulls
<1>2. Most(Fulls, "FULL") = OfMode("FULL")
  <2>1. Fulls >= Cardinality(OfMode("FULL"))
    BY <1>1 DEF Fulls
  <2> QED BY <1>1, <2>1, MostIs
<1>3. ASSUME NEW g \in Recorded(Fulls), g.owner # "speculator" PROVE g.desc \in capture_descs(mgr)
  <2>1. g.desc \in OfMode("PIECEWISE") \/ g.desc \in OfMode("FULL")
    BY <1>2, <1>3, RecordedFields
  <2> QED BY <2>1 DEF OfMode
<1>4. ASSUME NEW d \in capture_descs(mgr)
      PROVE  \E g \in Recorded(Fulls) : g.owner # "speculator" /\ g.desc = d
  <2>1. CASE d \in OfMode("PIECEWISE")
    <3>1. [owner |-> "wrappers", pool |-> pool["wrappers"], desc |-> d] \in Recorded(Fulls)
      BY <2>1 DEF Recorded
    <3> QED BY <3>1
  <2>2. CASE d \in OfMode("FULL")
    <3>1. [owner |-> "manager", pool |-> pool["manager"], desc |-> d] \in Recorded(Fulls)
      BY <2>2, <1>2 DEF Recorded
    <3> QED BY <3>1
  <2> QED BY <2>1, <2>2, AllModes
<1>5. RecordedDescs' = {g.desc : g \in {h \in Recorded(Fulls) : h.owner # "speculator"}}
  BY DEF RecordedDescs
<1>6. RecordedDescs' = capture_descs(mgr)
  BY <1>3, <1>4, <1>5
<1>7. graphs' # {}
  BY <1>4
<1> QED BY <1>6, <1>7

\* A capture of V1 records graphs of the dispatcher's keys, in the pool of the wrappers.
LEMMA RecordedV1Fields ==
  ASSUME setup \in Setups, V1, keys = capture_descs(mgr), NEW n, NEW g \in RecordedV1(n)
  PROVE  g.owner = "wrappers" /\ g.pool = pool["wrappers"] /\ g.desc \in get_capture_descs(n)
<1>1. PICK d \in get_capture_descs(n) :
        g = [owner |-> "wrappers", pool |-> pool["wrappers"], desc |-> RunOf(d)]
  BY DEF RecordedV1
<1>2. d \in capture_descs(mgr)
  BY DEF get_capture_descs
<1>3. RunOf(d) = d
  BY <1>2, RunRecords
<1> QED BY <1>1, <1>3

LEMMA RecordedV1Is ==
  ASSUME setup \in Setups, V1, keys = capture_descs(mgr), graphs' = RecordedV1(Cardinality(keys))
  PROVE  RecordedDescs' = capture_descs(mgr) /\ (graphs' = {} <=> capture_descs(mgr) = {})
<1>1. IsManager(mgr)
  BY SetupIs
<1>2. PICK n : n = Cardinality(keys)
  OBVIOUS
<1>3. n \in Nat /\ \A mode : Cardinality(OfMode(mode)) <= n
  <2>1. IsFiniteSet(keys)
    BY <1>1, DescsFinite
  <2>2. \A mode : OfMode(mode) \in SUBSET keys
    BY DEF OfMode
  <2> QED BY <1>2, <2>1, <2>2, FS_CardinalityType, FS_Subset
<1>4. ASSUME NEW mode PROVE Most(n, mode) = OfMode(mode)
  <2>1. Cardinality(OfMode(mode)) \in Nat
    BY <1>1, OfModeIs
  <2>2. n >= Cardinality(OfMode(mode))
    BY <1>3, <2>1
  <2> QED BY <1>1, <1>3, <2>2, MostIs
<1>5. get_capture_descs(n) = capture_descs(mgr)
  BY <1>1, <1>4, AllModes DEF get_capture_descs
<1>6. ASSUME NEW g \in RecordedV1(n)
      PROVE  g.owner # "speculator" /\ g.desc \in capture_descs(mgr)
  BY <1>5, RecordedV1Fields
<1>7. ASSUME NEW d \in capture_descs(mgr)
      PROVE  \E g \in RecordedV1(n) : g.desc = d
  <2>1. RunOf(d) = d
    BY RunRecords
  <2>2. [owner |-> "wrappers", pool |-> pool["wrappers"], desc |-> RunOf(d)] \in RecordedV1(n)
    BY <1>5 DEF RecordedV1
  <2> QED BY <2>1, <2>2
<1>8. RecordedDescs' = {g.desc : g \in {h \in RecordedV1(n) : h.owner # "speculator"}}
  BY <1>2 DEF RecordedDescs
<1>9. RecordedDescs' = capture_descs(mgr)
  BY <1>6, <1>7, <1>8
<1>10. graphs' = {} <=> capture_descs(mgr) = {}
  BY <1>2, <1>6, <1>7
<1> QED BY <1>9, <1>10

\* The pools that graphs live in are not lost while only the throwaway pool may be.
LEMMA PoolKept ==
  ASSUME used \subseteq {"throwaway"}, NEW gs, \A g \in gs : g.pool # "throwaway"
  PROVE  ~PoolLost(gs)
BY DEF PoolLost

LEMMA NoPoolLost ==
  ASSUME used = {}, NEW gs
  PROVE  ~PoolLost(gs)
BY DEF PoolLost

\* A PIECEWISE graph there is of the greatest size, so that the first one is of that size.
LEMMA FirstHoldsAll ==
  ASSUME IsManager(mgr), NEW d \in capture_descs(mgr), OfMode("PIECEWISE") # {}
  PROVE  d.tokens <= (CHOOSE e \in Most(1, "PIECEWISE") : TRUE).tokens
<1>1. PICK e : e \in OfMode("PIECEWISE")
  OBVIOUS
<1>2. e \in MixedDescs(mgr) /\ mixed_mode(mgr) = "PIECEWISE"
  BY <1>1 DEF OfMode, capture_descs, VarlenDescs, UniformDescs, MixedDescs
<1>3. mgr.maxSize \in mgr.sizes /\ mgr.maxSize \in Nat
  BY <1>2 DEF MixedDescs, IsManager
<1>4. PICK l : l \in mgr.loras
  BY DEF IsManager
<1>5. PICK f : f = [mode |-> mixed_mode(mgr), tokens |-> mgr.maxSize,
                   reqs |-> IF mixed_mode(mgr) = "FULL" THEN Smaller(mgr.maxSize, mgr.maxReqs)
                            ELSE 0,
                   uniform |-> 0, query |-> 0, loras |-> l]
  OBVIOUS
<1>6. f \in MixedDescs(mgr)
  BY <1>3, <1>4, <1>5 DEF MixedDescs
<1>7. f \in OfMode("PIECEWISE") /\ f.tokens = mgr.maxSize
  BY <1>2, <1>5, <1>6 DEF OfMode, capture_descs
<1>8. d.tokens \in 1 .. mgr.maxSize
  BY DescIs DEF DescOK
<1>9. PICK size : size = (CHOOSE x \in Most(1, "PIECEWISE") : TRUE).tokens
  OBVIOUS
<1>10. size \in Nat /\ f.tokens <= size
  BY <1>7, <1>9, FirstIs
<1>11. d.tokens <= size
  BY <1>3, <1>7, <1>8, <1>10
<1> QED BY <1>9, <1>11

LEMMA OutHolds ==
  ASSUME IsManager(mgr), NEW n \in Nat, NEW g \in Recorded(n), g.owner = "manager",
         NEW size, size = FirstSize
  PROVE  g.desc.tokens <= size
<1>1. g.desc \in OfMode("FULL")
  <2>1. g.desc \in Most(n, "FULL")
    BY RecordedFields
  <2>2. Most(n, "FULL") \in SUBSET OfMode("FULL")
    BY MostIs
  <2> QED BY <2>1, <2>2
<1>2. CASE OfMode("PIECEWISE") = {}
  <2>1. FirstMode = "FULL" /\ OfMode("FULL") # {}
    BY <1>1, <1>2 DEF FirstMode
  <2>2. size = (CHOOSE d \in Most(1, "FULL") : TRUE).tokens
    BY <2>1 DEF FirstSize
  <2> QED BY <1>1, <2>1, <2>2, FirstIs
<1>3. CASE OfMode("PIECEWISE") # {}
  <2>1. FirstMode = "PIECEWISE"
    BY <1>3 DEF FirstMode
  <2>2. size = (CHOOSE d \in Most(1, "PIECEWISE") : TRUE).tokens
    BY <1>3, <2>1 DEF FirstSize
  <2>3. g.desc \in capture_descs(mgr)
    BY <1>1 DEF OfMode
  <2> QED BY <1>3, <2>2, <2>3, FirstHoldsAll
<1> QED BY <1>2, <1>3

\* Nothing the worker asserts fails.
LEMMA NoAssertStep ==
  ASSUME Types, GraphInv, [Next]_vars
  PROVE  phase' # "assert"
<1>1. setup \in Setups /\ IsManager(mgr)
  BY SetupIs DEF Types
<1>2. phase # "assert" /\ Keys /\ Pools
  BY DEF GraphInv
<1>3. ASSUME V1, keys = capture_descs(mgr), NEW n, ~PoolLost(RecordedV1(n))
      PROVE  ~CaptureFails(n)
  <2>1. \A d \in get_capture_descs(n) : d \in capture_descs(mgr)
    BY <1>3 DEF get_capture_descs
  <2>2. \A d \in get_capture_descs(n) : AssertsHold(d)
    BY <1>1, <1>3, <2>1, RunRecords
  <2> QED BY <1>3, <2>2 DEF CaptureFails
<1>4. ASSUME Running, NEW o \in Owners PROVE pool[o] # "throwaway"
  BY <1>2, <1>4 DEF Pools, Clean
<1>5. CASE InitDevice
  BY <1>5, <1>2 DEF InitDevice
<1>6. CASE LoadModel
  BY <1>6, <1>2 DEF LoadModel
<1>7. CASE OthersMove
  BY <1>7, <1>2 DEF OthersMove
<1>8. CASE ProfileMemory
  BY <1>8, <1>2 DEF ProfileMemory
<1>9. CASE SkipProfiling
  BY <1>9, <1>2 DEF SkipProfiling
<1>10. CASE StartGraphProfile
  BY <1>10, <1>2 DEF StartGraphProfile
<1>11. CASE CaptureForProfile
  <2>1. used = {}
    BY <1>11, <1>2 DEF CaptureForProfile, Pools
  <2>2. ~PoolLost(Recorded(2))
    BY <2>1, NoPoolLost
  <2> QED BY <1>11, <2>2 DEF CaptureForProfile
<1>12. CASE EndGraphProfile
  BY <1>12, <1>2 DEF EndGraphProfile
<1>13. CASE StartGraphProfileV1
  BY <1>13, <1>2 DEF StartGraphProfileV1
<1>14. CASE CaptureForProfileV1
  <2>1. used = {} /\ V1 /\ keys = capture_descs(mgr)
    BY <1>14, <1>2 DEF CaptureForProfileV1, Pools, Keys
  <2>2. ~PoolLost(RecordedV1(2))
    BY <2>1, NoPoolLost
  <2>3. ~CaptureFails(2)
    BY <1>3, <2>1, <2>2
  <2> QED BY <1>14, <2>3 DEF CaptureForProfileV1
<1>15. CASE EndGraphProfileV1
  BY <1>15, <1>2 DEF EndGraphProfileV1
<1>16. CASE InitializeKv
  BY <1>16, <1>2 DEF InitializeKv
<1>17. CASE WarmUpSizes
  <2> SUFFICES ASSUME V1, setup.compile.on, NEW n \in warmup_sizes(setup.compile),
                      Refused(DummyRunV1(n, FALSE, 0))
               PROVE  FALSE
    BY <1>17 DEF WarmUpSizes
  <2>1. keys = capture_descs(mgr)
    BY <1>17, <1>2 DEF WarmUpSizes, Keys, Running
  <2>2. PICK e : e = MixedRun(n)
    OBVIOUS
  <2>3. e.mode = "NONE"
    BY <1>1, <2>1, <2>2, WarmRunIs
  <2> QED BY <2>2, <2>3 DEF MixedRun, Refused
<1>18. CASE CaptureModel
  <2>1. Running /\ used \subseteq {"throwaway"}
    BY <1>18, <1>2 DEF CaptureModel, Running, Pools
  <2>2. \A g \in Recorded(1) : g.pool # "throwaway"
    <3>1. \A o \in {"wrappers", "manager", "speculator"} : pool[o] # "throwaway"
      BY <1>4, <2>1 DEF Owners
    <3> QED BY <3>1, RecordedFields
  <2>3. ~PoolLost(Recorded(1))
    BY <2>1, <2>2, PoolKept
  <2> QED BY <1>18, <2>3 DEF CaptureModel
<1>19. CASE CaptureModelV1
  <2>1. Running /\ used \subseteq {"throwaway"} /\ V1 /\ keys = capture_descs(mgr)
    BY <1>19, <1>2 DEF CaptureModelV1, Running, Pools, Keys
  <2>2. ASSUME NEW n PROVE ~PoolLost(RecordedV1(n))
    <3>1. pool["wrappers"] # "throwaway"
      BY <1>4, <2>1 DEF Owners
    <3>2. \A g \in RecordedV1(n) : g.pool # "throwaway"
      BY <1>1, <2>1, <3>1, RecordedV1Fields
    <3> QED BY <2>1, <3>2, PoolKept
  <2>3. ~CaptureFails(Cardinality(keys))
    BY <1>3, <2>1, <2>2
  <2> QED BY <1>19, <2>2, <2>3 DEF CaptureModelV1
<1>20. CASE WarmUpKernels
  BY <1>20, <1>2 DEF WarmUpKernels
<1>21. CASE ExecuteModel
  BY <1>21, <1>2 DEF ExecuteModel
<1>22. CASE Restart
  BY <1>22, <1>2 DEF Restart
<1>23. CASE Stopped
  BY <1>23, <1>2 DEF Stopped, vars
<1>24. CASE UNCHANGED vars
  BY <1>24, <1>2 DEF vars
<1> QED BY <1>5, <1>6, <1>7, <1>8, <1>9, <1>10, <1>11, <1>12, <1>13, <1>14, <1>15, <1>16, <1>17, <1>18, <1>19, <1>20, <1>21, <1>22, <1>23, <1>24 DEF Next

LEMMA RecordingStep ==
  ASSUME Types, GraphInv, [Next]_vars
  PROVE  Recording'
<1>1. setup \in Setups /\ IsManager(mgr)
  BY SetupIs DEF Types
<1>2. setup' = setup => capture_descs(mgr)' = capture_descs(mgr)
  BY SameSetup
<1>3. Recording
  BY DEF GraphInv
<1>4. graphs' = graphs => RecordedDescs' = RecordedDescs
  BY DEF RecordedDescs
<1>5. CASE InitDevice
  BY <1>5, <1>2, <1>3, <1>4 DEF InitDevice, Recording, Graphs, Serving
<1>6. CASE LoadModel
  BY <1>6, <1>2, <1>3, <1>4 DEF LoadModel, Recording, Graphs, Serving
<1>7. CASE OthersMove
  BY <1>7, <1>2, <1>3, <1>4 DEF OthersMove, Recording, Graphs, Serving
<1>8. CASE ProfileMemory
  BY <1>8, <1>2, <1>3, <1>4 DEF ProfileMemory, Recording, Graphs, Serving
<1>9. CASE SkipProfiling
  BY <1>9, <1>2, <1>3, <1>4 DEF SkipProfiling, Recording, Graphs, Serving
<1>10. CASE StartGraphProfile
  BY <1>10, <1>2, <1>3, <1>4 DEF StartGraphProfile, Recording, Graphs, Serving
<1>11. CASE CaptureForProfile
  <2>1. graphs = {}
    BY <1>11, <1>3 DEF CaptureForProfile, Recording
  <2>2. CASE capture_descs(mgr) = {}
    BY <1>11, <1>3, <2>1, <2>2 DEF CaptureForProfile, Recording, Graphs, Serving
  <2>3. CASE capture_descs(mgr) # {}
    <3>1. /\ graphs' = Recorded(2)
          /\ out' = FirstSize
      BY <1>11, <2>1, <2>3 DEF CaptureForProfile, Capture
    <3>2. ASSUME NEW g \in graphs', g.owner = "manager" PROVE g.desc.tokens <= out'
      BY <1>1, <3>1, <3>2, OutHolds
    <3>3. phase' = "teardown" \/ phase' = "assert"
      BY <1>11 DEF CaptureForProfile
    <3>4. phase' # "assert"
      BY <1>11, NoAssertStep DEF GraphInv
    <3> QED BY <3>2, <3>3, <3>4 DEF Recording
  <2> QED BY <2>2, <2>3
<1>12. CASE EndGraphProfile
  BY <1>12 DEF EndGraphProfile, Recording
<1>13. CASE StartGraphProfileV1
  BY <1>13, <1>2, <1>3, <1>4 DEF StartGraphProfileV1, Recording, Graphs, Serving
<1>14. CASE CaptureForProfileV1
  <2>1. graphs = {} /\ V1 /\ keys = capture_descs(mgr)
    BY <1>14, <1>3 DEF CaptureForProfileV1, Recording, GraphInv, Keys
  <2>2. graphs' = RecordedV1(2)
    BY <1>14, <2>1 DEF CaptureForProfileV1, CaptureV1
  <2>3. \A g \in graphs' : g.owner # "manager"
    BY <1>1, <2>1, <2>2, RecordedV1Fields
  <2>4. phase' # "assert"
    BY <1>14, NoAssertStep
  <2>5. phase' = "teardown"
    BY <1>14, <2>4 DEF CaptureForProfileV1
  <2> QED BY <2>3, <2>5 DEF Recording
<1>15. CASE EndGraphProfileV1
  BY <1>15 DEF EndGraphProfileV1, Recording
<1>16. CASE InitializeKv
  BY <1>16, <1>2, <1>3, <1>4 DEF InitializeKv, Recording, Graphs, Serving
<1>17. CASE WarmUpSizes
  BY <1>17, <1>2, <1>3, <1>4 DEF WarmUpSizes, Recording, Graphs, Serving
<1>18. CASE CaptureModel
  <2>1. graphs = {}
    BY <1>18, <1>3 DEF CaptureModel, Recording
  <2>2. setup' = setup
    BY <1>18 DEF CaptureModel
  <2>3. CASE capture_descs(mgr) = {}
    <3>1. graphs' = {} /\ phase' = "captured"
      BY <1>18, <2>1, <2>3 DEF CaptureModel, Graphs
    <3>2. RecordedDescs' = {}
      BY <3>1 DEF RecordedDescs
    <3> QED BY <1>2, <2>2, <2>3, <3>1, <3>2 DEF Recording
  <2>4. CASE capture_descs(mgr) # {}
    <3>1. mgr.mode # "NONE"
      BY <2>4 DEF capture_descs, separate_routine, mixed_mode
    <3>2. /\ graphs' = Recorded(Fulls)
          /\ out' = FirstSize
      BY <1>18, <2>1, <2>4, <3>1 DEF CaptureModel, Capture, Fulls
    <3>3. ASSUME NEW g \in graphs', g.owner = "manager" PROVE g.desc.tokens <= out'
      <4>1. Fulls \in Nat
        BY <1>1, OfModeIs DEF Fulls
      <4> QED BY <1>1, <3>2, <3>3, <4>1, OutHolds
    <3>4. RecordedDescs' = capture_descs(mgr) /\ graphs' # {}
      BY <1>1, <2>4, <3>2, RecordedIs
    <3>5. phase' # "assert"
      BY <1>18, NoAssertStep
    <3>6. phase' = "captured"
      BY <1>18, <3>5 DEF CaptureModel
    <3> QED BY <1>2, <2>2, <2>4, <3>3, <3>4, <3>6 DEF Recording
  <2> QED BY <2>3, <2>4
<1>19. CASE CaptureModelV1
  <2>1. graphs = {} /\ V1 /\ keys = capture_descs(mgr) /\ setup' = setup
    BY <1>19, <1>3 DEF CaptureModelV1, Recording, GraphInv, Keys, Running
  <2>2. CASE mgr.mode = "NONE"
    <3>1. capture_descs(mgr) = {}
      BY <2>2 DEF capture_descs, separate_routine, mixed_mode
    <3>2. graphs' = {} /\ phase' = "captured"
      BY <1>19, <2>1, <2>2 DEF CaptureModelV1, Graphs
    <3>3. RecordedDescs' = {}
      BY <3>2 DEF RecordedDescs
    <3> QED BY <1>2, <2>1, <3>1, <3>2, <3>3 DEF Recording
  <2>3. CASE mgr.mode # "NONE"
    <3>1. graphs' = RecordedV1(Cardinality(keys))
      BY <1>19, <2>1, <2>3 DEF CaptureModelV1, CaptureV1
    <3>2. \A g \in graphs' : g.owner # "manager"
      BY <1>1, <2>1, <3>1, RecordedV1Fields
    <3>3. RecordedDescs' = capture_descs(mgr) /\ (graphs' = {} <=> capture_descs(mgr) = {})
      BY <1>1, <2>1, <3>1, RecordedV1Is
    <3>4. phase' # "assert"
      BY <1>19, NoAssertStep
    <3>5. phase' = "captured"
      BY <1>19, <2>3, <3>4 DEF CaptureModelV1
    <3> QED BY <1>2, <2>1, <3>2, <3>3, <3>5 DEF Recording
  <2> QED BY <2>2, <2>3
<1>20. CASE WarmUpKernels
  BY <1>20, <1>2, <1>3, <1>4 DEF WarmUpKernels, Recording, Graphs, Serving
<1>21. CASE ExecuteModel
  BY <1>21, <1>2, <1>3, <1>4 DEF ExecuteModel, Recording, Graphs, Serving
<1>22. CASE Restart
  BY <1>22 DEF Restart, Recording
<1>23. CASE Stopped
  BY <1>23, <1>2, <1>3, <1>4 DEF Stopped, vars, Recording, Graphs, Serving
<1>24. CASE UNCHANGED vars
  BY <1>24, <1>2, <1>3, <1>4 DEF vars, Recording, Graphs, Serving
<1> QED BY <1>5, <1>6, <1>7, <1>8, <1>9, <1>10, <1>11, <1>12, <1>13, <1>14, <1>15, <1>16, <1>17, <1>18, <1>19, <1>20, <1>21, <1>22, <1>23, <1>24 DEF Next

LEMMA KeysStep ==
  ASSUME Types, GraphInv, [Next]_vars
  PROVE  Keys'
<1>1. Keys
  BY DEF GraphInv
<1>2. setup' = setup => capture_descs(mgr)' = capture_descs(mgr) /\ (V1' <=> V1)
  BY SameSetup
<1>3. CASE InitDevice
  BY <1>3, <1>1, <1>2 DEF InitDevice, Keys, Running, Graphs, Serving
<1>4. CASE LoadModel
  BY <1>4, <1>1, <1>2 DEF LoadModel, Keys, Running, Graphs, Serving
<1>5. CASE OthersMove
  BY <1>5, <1>1, <1>2 DEF OthersMove, Keys, Running, Graphs, Serving
<1>6. CASE ProfileMemory
  BY <1>6, <1>1, <1>2 DEF ProfileMemory, Keys, Running, Graphs, Serving
<1>7. CASE SkipProfiling
  BY <1>7, <1>1, <1>2 DEF SkipProfiling, Keys, Running, Graphs, Serving
<1>8. CASE StartGraphProfile
  BY <1>8, <1>1, <1>2 DEF StartGraphProfile, Keys, Running, Graphs, Serving
<1>9. CASE CaptureForProfile
  <2>1. capturing' = capturing /\ keys' = keys /\ ~V1 /\ setup' = setup
    BY <1>9 DEF CaptureForProfile, Capture, Graphs
  <2>2. phase = "minimal" /\ (phase' = "teardown" \/ phase' = "assert")
    BY <1>9 DEF CaptureForProfile
  <2>3. phase' # "assert"
    BY <1>9, NoAssertStep
  <2> QED BY <1>1, <1>2, <2>1, <2>2, <2>3 DEF Keys, Running
<1>10. CASE EndGraphProfile
  BY <1>10, <1>1, <1>2 DEF EndGraphProfile, Keys, Running, Graphs, Serving
<1>11. CASE StartGraphProfileV1
  BY <1>11, <1>1, <1>2 DEF StartGraphProfileV1, Keys, Running, DispatcherKeys, Graphs
<1>12. CASE CaptureForProfileV1
  <2>1. phase = "minimal" /\ (phase' = "teardown" \/ phase' = "assert")
    BY <1>12 DEF CaptureForProfileV1
  <2>2. phase' # "assert"
    BY <1>12, NoAssertStep
  <2> QED BY <1>12, <1>1, <1>2, <2>1, <2>2 DEF CaptureForProfileV1, Keys, Running
<1>13. CASE EndGraphProfileV1
  BY <1>13, <1>1, <1>2 DEF EndGraphProfileV1, Keys, Running, Graphs, Serving
<1>14. CASE InitializeKv
  BY <1>14, <1>1, <1>2 DEF InitializeKv, Keys, Running, DispatcherKeys, Serving
<1>15. CASE WarmUpSizes
  BY <1>15, <1>1, <1>2 DEF WarmUpSizes, Keys, Running, Graphs, Serving
<1>16. CASE CaptureModel
  <2>1. capturing' = capturing /\ ~V1 /\ setup' = setup /\ phase = "warm"
    BY <1>16 DEF CaptureModel, Capture, Graphs
  <2> QED BY <1>1, <1>2, <2>1 DEF Keys, Running
<1>17. CASE CaptureModelV1
  <2>1. (capturing' = capturing \/ capturing' = FALSE) /\ keys' = keys /\ setup' = setup
        /\ phase = "warm" /\ V1
    BY <1>17 DEF CaptureModelV1, CaptureV1, Graphs
  <2> QED BY <1>1, <1>2, <2>1 DEF Keys, Running
<1>18. CASE WarmUpKernels
  BY <1>18, <1>1, <1>2 DEF WarmUpKernels, Keys, Running, Graphs, Serving
<1>19. CASE ExecuteModel
  BY <1>19, <1>1, <1>2 DEF ExecuteModel, Keys, Running, Graphs, Serving
<1>20. CASE Restart
  BY <1>20, <1>1, <1>2 DEF Restart, Keys, Running, Graphs, Serving
<1>21. CASE Stopped
  BY <1>21, <1>1, <1>2 DEF Stopped, vars, Keys, Running, Graphs, Serving
<1>22. CASE UNCHANGED vars
  BY <1>22, <1>1, <1>2 DEF vars, Keys, Running, Graphs, Serving
<1> QED BY <1>3, <1>4, <1>5, <1>6, <1>7, <1>8, <1>9, <1>10, <1>11, <1>12, <1>13, <1>14, <1>15, <1>16, <1>17, <1>18, <1>19, <1>20, <1>21, <1>22 DEF Next

LEMMA PoolsStep ==
  ASSUME Types, GraphInv, [Next]_vars
  PROVE  Pools'
<1>1. Pools /\ phase \in Phases /\ pool \in [Owners -> {"none", "persistent", "throwaway"}]
  BY DEF GraphInv, Types
<1>2. setup' = setup => (V1' <=> V1)
  BY SameSetup
<1>3. setup \in Setups /\ (V1 => setup.drafter = 0) /\ setup.drafter \in Nat
  BY SetupIs DEF Types, IsV1
<1>4. CASE InitDevice
  BY <1>4, <1>1, <1>2, <1>3 DEF InitDevice, Pools, Early, Running, Owners, Clean, Graphs, Serving
<1>5. CASE LoadModel
  BY <1>5, <1>1, <1>2, <1>3 DEF LoadModel, Pools, Early, Running, Owners, Clean, Graphs, Serving
<1>6. CASE OthersMove
  BY <1>6, <1>1, <1>2, <1>3 DEF OthersMove, Pools, Early, Running, Owners, Clean, Graphs, Serving
<1>7. CASE ProfileMemory
  BY <1>7, <1>1, <1>2, <1>3 DEF ProfileMemory, Pools, Early, Running, Owners, Clean, Graphs, Serving
<1>8. CASE SkipProfiling
  BY <1>8, <1>1, <1>2, <1>3 DEF SkipProfiling, Pools, Early, Running, Owners, Clean, Graphs, Serving
<1>9. CASE StartGraphProfile
  <2>1. used = {} /\ pool["speculator"] # "throwaway" /\ used' = used
    BY <1>9, <1>1 DEF StartGraphProfile, Pools, Early, Clean, Owners
  <2>2. /\ pool'["wrappers"] = "throwaway" /\ pool'["manager"] = "throwaway"
        /\ pool'["speculator"] = IF setup.drafter > 0 THEN "throwaway" ELSE pool["speculator"]
    BY <1>9, <1>1 DEF StartGraphProfile, SwapPools, Bound, Owners
  <2>3. phase' = "minimal" /\ setup' = setup /\ ~V1
    BY <1>9 DEF StartGraphProfile
  <2> QED BY <1>2, <1>3, <2>1, <2>2, <2>3 DEF Pools, Early, Running, Clean
<1>10. CASE CaptureForProfile
  <2>1. used = {} /\ pool' = pool /\ setup' = setup /\ phase = "minimal" /\ ~V1
    BY <1>10, <1>1 DEF CaptureForProfile, Pools, Capture, Graphs
  <2>2. phase' = "teardown"
    <3>1. phase' = "teardown" \/ phase' = "assert"
      BY <1>10 DEF CaptureForProfile
    <3> QED BY <1>10, <3>1, NoAssertStep
  <2>3. used' \subseteq {"throwaway"}
    <3>1. \A g \in Recorded(2) : g.pool = "throwaway"
      BY <1>1, <2>1, RecordedFields DEF Pools
    <3>2. used' = used \/ used' = used \cup {g.pool : g \in Recorded(2)}
      BY <1>10 DEF CaptureForProfile, Capture, Graphs
    <3> QED BY <2>1, <3>1, <3>2
  <2> QED BY <1>1, <1>2, <2>1, <2>2, <2>3 DEF Pools, Early, Running, Clean
<1>11. CASE EndGraphProfile
  <2>1. used' = used /\ setup' = setup /\ phase = "teardown" /\ phase' = "sized"
    BY <1>11 DEF EndGraphProfile
  <2>2. /\ pool'["global"] = "persistent" /\ pool'["wrappers"] = "persistent"
        /\ pool'["manager"] = "none"
        /\ pool'["speculator"] \in {pool["speculator"], "none"}
    BY <1>11 DEF EndGraphProfile, Restored, Owners
  <2> QED BY <1>1, <2>1, <2>2 DEF Pools, Early, Running, Clean
<1>12. CASE StartGraphProfileV1
  BY <1>12, <1>1, <1>2, <1>3 DEF StartGraphProfileV1, Pools, Early, Running, Owners, Clean, Graphs, Serving
<1>13. CASE CaptureForProfileV1
  <2>1. used = {} /\ pool' = pool /\ setup' = setup /\ phase = "minimal" /\ V1
    BY <1>13, <1>1 DEF CaptureForProfileV1, Pools, CaptureV1
  <2>2. phase' = "teardown"
    <3>1. phase' = "teardown" \/ phase' = "assert"
      BY <1>13 DEF CaptureForProfileV1
    <3> QED BY <1>13, <3>1, NoAssertStep
  <2>3. used' \subseteq {"throwaway"}
    <3>1. keys = capture_descs(mgr)
      BY <2>1 DEF GraphInv, Keys
    <3>2. \A g \in RecordedV1(2) : g.pool = "throwaway"
      BY <1>1, <1>3, <2>1, <3>1, RecordedV1Fields DEF Pools
    <3>3. used' = used \cup {g.pool : g \in RecordedV1(2)}
      BY <1>13 DEF CaptureForProfileV1, CaptureV1
    <3> QED BY <2>1, <3>2, <3>3
  <2> QED BY <1>1, <1>2, <2>1, <2>2, <2>3 DEF Pools, Early, Running, Clean
<1>14. CASE EndGraphProfileV1
  <2>1. used' = used /\ setup' = setup /\ phase = "teardown" /\ phase' = "sized" /\ V1
    BY <1>14 DEF EndGraphProfileV1
  <2>2. /\ pool'["global"] = pool["global"] /\ pool'["wrappers"] = "persistent"
        /\ pool'["manager"] = pool["manager"] /\ pool'["speculator"] = pool["speculator"]
    BY <1>14, <1>1 DEF EndGraphProfileV1, Owners
  <2> QED BY <1>1, <2>1, <2>2 DEF Pools, Early, Running, Clean
<1>15. CASE InitializeKv
  <2>1. used' = used /\ setup' = setup /\ phase = "sized"
    BY <1>15 DEF InitializeKv
  <2>2. Clean("global") /\ Clean("manager") /\ Clean("wrappers")
    BY <1>1, <2>1 DEF Pools
  <2>3. CASE phase' = "refused"
    BY <1>15, <1>1, <1>2, <2>1, <2>3 DEF InitializeKv, Pools, Early, Running, Clean
  <2>4. CASE phase' = "kv" /\ V1
    <3>1. pool' = pool
      BY <1>15, <2>4 DEF InitializeKv
    <3> QED BY <1>1, <1>2, <1>3, <2>1, <2>2, <2>4, <3>1 DEF Pools, Early, Running, Clean, Owners
  <2>5. CASE phase' = "kv" /\ ~V1
    <3>1. pool' = Bound(pool)
      BY <1>15, <2>5 DEF InitializeKv
    <3>2. /\ pool'["global"] = pool["global"] /\ pool'["wrappers"] = pool["wrappers"]
          /\ pool'["manager"] = pool["global"]
          /\ pool'["speculator"] = IF setup.drafter > 0 THEN pool["global"] ELSE pool["speculator"]
      BY <1>1, <3>1 DEF Bound, Owners
    <3>3. \A o \in Owners : pool'[o] # "throwaway"
      BY <1>1, <1>3, <2>2, <3>2 DEF Pools, Clean, Owners
    <3> QED BY <1>1, <2>1, <2>5, <3>3 DEF Pools, Early, Running, Clean, Owners
  <2> QED BY <1>15, <2>3, <2>4, <2>5 DEF InitializeKv
<1>16. CASE WarmUpSizes
  BY <1>16, <1>1, <1>2, <1>3 DEF WarmUpSizes, Pools, Early, Running, Owners, Clean, Graphs, Serving
<1>17. CASE CaptureModel
  <2>1. pool' = pool /\ setup' = setup /\ phase = "warm" /\ phase' \in {"captured", "assert"}
    BY <1>17 DEF CaptureModel, Capture, Graphs
  <2>2. phase' = "captured"
    BY <1>17, <2>1, NoAssertStep
  <2> QED BY <1>1, <1>2, <2>1, <2>2 DEF Pools, Early, Running, Clean
<1>18. CASE CaptureModelV1
  <2>1. pool' = pool /\ setup' = setup /\ phase = "warm" /\ phase' \in {"captured", "assert"}
    BY <1>18 DEF CaptureModelV1, CaptureV1, Graphs
  <2>2. phase' = "captured"
    BY <1>18, <2>1, NoAssertStep
  <2> QED BY <1>1, <1>2, <2>1, <2>2 DEF Pools, Early, Running, Clean
<1>19. CASE WarmUpKernels
  BY <1>19, <1>1, <1>2, <1>3 DEF WarmUpKernels, Pools, Early, Running, Owners, Clean, Graphs, Serving
<1>20. CASE ExecuteModel
  BY <1>20, <1>1, <1>2, <1>3 DEF ExecuteModel, Pools, Early, Running, Owners, Clean, Graphs, Serving
<1>21. CASE Restart
  <2>1. /\ used' = {} /\ phase' = "start" /\ setup' = setup
        /\ \A o \in Owners : pool'[o] = "none"
    BY <1>21 DEF Restart
  <2> QED BY <2>1 DEF Pools, Early, Running, Clean, Owners
<1>22. CASE Stopped
  BY <1>22, <1>1, <1>2, <1>3 DEF Stopped, vars, Pools, Early, Running, Owners, Clean, Graphs, Serving
<1>23. CASE UNCHANGED vars
  BY <1>23, <1>1, <1>2, <1>3 DEF vars, Pools, Early, Running, Owners, Clean, Graphs, Serving
<1> QED BY <1>4, <1>5, <1>6, <1>7, <1>8, <1>9, <1>10, <1>11, <1>12, <1>13, <1>14, <1>15, <1>16, <1>17, <1>18, <1>19, <1>20, <1>21, <1>22, <1>23 DEF Next

\* A batch of ExecuteModel, and what comes of it.
Sent(reqs, query, tokens, prefill, loras) ==
    LET b == [Batch(reqs, tokens, query, prefill, loras) EXCEPT
                !.uniform = IF ~V1 THEN @
                            ELSE IF _is_uniform_decode(reqs, tokens, query) THEN query ELSE 0]
    IN
    /\ tokens \in reqs - 1 + query .. reqs * query
    /\ prefill \/ query <= mgr.queryLen
    /\ ran' = [owner |-> "batch", batch |-> b,
               desc |-> dispatch(mgr, IF V1 THEN keys # {} /\ ~capturing
                                      ELSE \E g \in graphs : g.owner # "speculator", b)]

\* A batch that the scheduler sends is one, and the graph it gets suits it.
LEMMA BatchSuits ==
  ASSUME Types, GraphInv, ExecuteModel
  PROVE  \E b, d : /\ ran' = [owner |-> "batch", batch |-> b, desc |-> d]
                   /\ Suits(mgr, RecordedDescs, b, d)
<1>1. /\ setup \in Setups /\ IsManager(mgr)
      /\ V1 => mgr.queryLens = {mgr.queryLen}
  BY SetupIs DEF Types, IsV1, mgr
<1>2. mgr.maxReqs \in Nat /\ mgr.queryLen \in Nat /\ mgr.queryLen > 0 /\ mgr.maxSize \in Nat
  BY <1>1 DEF IsManager
<1>3. PICK reqs \in 1 .. mgr.maxReqs, query \in 1 .. mgr.queryLen + 1,
           tokens \in 1 .. mgr.maxSize + 1, prefill \in BOOLEAN, loras \in setup.active :
        Sent(reqs, query, tokens, prefill, loras)
  BY DEF ExecuteModel, Sent
<1>a. PICK b, c :
        /\ b = [Batch(reqs, tokens, query, prefill, loras) EXCEPT
                  !.uniform = IF ~V1 THEN @
                              ELSE IF _is_uniform_decode(reqs, tokens, query) THEN query ELSE 0]
        /\ c = (IF V1 THEN keys # {} /\ ~capturing
                ELSE \E g \in graphs : g.owner # "speculator")
  OBVIOUS
<1>b. /\ tokens \in reqs - 1 + query .. reqs * query
      /\ ran' = [owner |-> "batch", batch |-> b, desc |-> dispatch(mgr, c, b)]
  BY <1>3, <1>a DEF Sent
<1>4. PICK u : u = IF V1 THEN (IF _is_uniform_decode(reqs, tokens, query) THEN query ELSE 0)
                  ELSE UniformLength(reqs, tokens, query, prefill)
  OBVIOUS
<1>5. b = [reqs |-> reqs, tokens |-> tokens, query |-> query, loras |-> loras, uniform |-> u]
  BY <1>a, <1>4 DEF Batch
<1>6. /\ reqs \in Nat /\ query \in Nat /\ query > 0 /\ tokens \in Nat /\ reqs <= tokens
      /\ reqs * query = query * reqs
  <2>1. reqs \in Nat /\ query \in Nat /\ query > 0 /\ tokens \in Nat
    BY <1>2
  <2>2. reqs - 1 + query <= tokens
    <3>1. PICK x : x = reqs * query
      OBVIOUS
    <3>2. x \in Nat
      BY <2>1, <3>1
    <3> QED BY <1>b, <2>1, <3>1, <3>2
  <2> QED BY <2>1, <2>2
<1>7. u = 0 \/ (u = query /\ tokens = reqs * query)
  BY <1>4, <1>6 DEF _is_uniform_decode, UniformLength
<1>8. loras \in Nat /\ (loras = 0 \/ mgr.loras \subseteq {0} \/ \E n \in mgr.loras : loras <= n)
  BY <1>1, SetupsAssumption DEF mgr
<1>9. IsBatch(b, mgr)
  BY <1>5, <1>6, <1>7, <1>8 DEF IsBatch
<1>10. RecordedDescs = capture_descs(mgr)
  BY DEF ExecuteModel, GraphInv, Recording
<1>11. c <=> capture_descs(mgr) # {}
  <2>1. CASE V1
    <3>1. keys = capture_descs(mgr) /\ ~capturing
      BY <2>1 DEF ExecuteModel, GraphInv, Keys, Running
    <3> QED BY <1>a, <2>1, <3>1
  <2>2. CASE ~V1
    <3>1. c <=> RecordedDescs # {}
      BY <1>a, <2>2 DEF RecordedDescs
    <3> QED BY <1>10, <3>1
  <2> QED BY <2>1, <2>2
<1>12. c \in BOOLEAN
  BY <1>a
<1>13. b.loras = loras
  BY <1>5
<1>14. Suits(mgr, capture_descs(mgr), b, dispatch(mgr, c, b))
  BY <1>1, <1>8, <1>9, <1>11, <1>12, <1>13, DispatchSuits
<1> QED BY <1>b, <1>10, <1>14

LEMMA RanStep ==
  ASSUME Types, GraphInv, [Next]_vars
  PROVE  Ran'
<1>1. Ran
  BY DEF GraphInv
<1>2. setup' = setup => mgr' = mgr
  BY SameSetup
<1>3. graphs' = graphs => RecordedDescs' = RecordedDescs
  BY DEF RecordedDescs
<1>4. CASE InitDevice
  <2>1. ran' = ran /\ phase # "serving"
    BY <1>4 DEF InitDevice, Serving, Graphs
  <2> QED BY <1>1, <2>1 DEF Ran
<1>5. CASE LoadModel
  <2>1. ran' = ran /\ phase # "serving"
    BY <1>5 DEF LoadModel, Serving, Graphs
  <2> QED BY <1>1, <2>1 DEF Ran
<1>6. CASE OthersMove
  <2>1. ran' = ran /\ phase # "serving"
    BY <1>6 DEF OthersMove, Serving, Graphs
  <2> QED BY <1>1, <2>1 DEF Ran
<1>7. CASE ProfileMemory
  <2>1. ran' = ran /\ phase # "serving"
    BY <1>7 DEF ProfileMemory, Serving, Graphs
  <2> QED BY <1>1, <2>1 DEF Ran
<1>8. CASE SkipProfiling
  <2>1. ran' = ran /\ phase # "serving"
    BY <1>8 DEF SkipProfiling, Serving, Graphs
  <2> QED BY <1>1, <2>1 DEF Ran
<1>9. CASE StartGraphProfile
  <2>1. ran' = ran /\ phase # "serving"
    BY <1>9 DEF StartGraphProfile, Serving, Graphs
  <2> QED BY <1>1, <2>1 DEF Ran
<1>10. CASE CaptureForProfile
  <2>1. ran' = ran /\ phase # "serving"
    BY <1>10 DEF CaptureForProfile, Serving, Graphs
  <2> QED BY <1>1, <2>1 DEF Ran
<1>11. CASE EndGraphProfile
  <2>1. ran' = ran /\ phase # "serving"
    BY <1>11 DEF EndGraphProfile, Serving, Graphs
  <2> QED BY <1>1, <2>1 DEF Ran
<1>12. CASE StartGraphProfileV1
  <2>1. ran' = ran /\ phase # "serving"
    BY <1>12 DEF StartGraphProfileV1, Serving, Graphs
  <2> QED BY <1>1, <2>1 DEF Ran
<1>13. CASE CaptureForProfileV1
  <2>1. ran' = ran /\ phase # "serving"
    BY <1>13 DEF CaptureForProfileV1, Serving, Graphs
  <2> QED BY <1>1, <2>1 DEF Ran
<1>14. CASE EndGraphProfileV1
  <2>1. ran' = ran /\ phase # "serving"
    BY <1>14 DEF EndGraphProfileV1, Serving, Graphs
  <2> QED BY <1>1, <2>1 DEF Ran
<1>15. CASE InitializeKv
  <2>1. ran' = ran /\ phase # "serving"
    BY <1>15 DEF InitializeKv, Serving, Graphs
  <2> QED BY <1>1, <2>1 DEF Ran
<1>16. CASE WarmUpSizes
  <2>1. ran' = ran /\ phase # "serving"
    BY <1>16 DEF WarmUpSizes, Serving, Graphs
  <2> QED BY <1>1, <2>1 DEF Ran
<1>17. CASE CaptureModel
  <2>1. ran' = ran /\ phase # "serving"
    BY <1>17 DEF CaptureModel, Serving, Graphs
  <2> QED BY <1>1, <2>1 DEF Ran
<1>18. CASE CaptureModelV1
  <2>1. ran' = ran /\ phase # "serving"
    BY <1>18 DEF CaptureModelV1, Serving, Graphs
  <2> QED BY <1>1, <2>1 DEF Ran
<1>19. CASE WarmUpKernels
  <2>1. ran' = ran /\ phase # "serving"
    BY <1>19 DEF WarmUpKernels, Serving, Graphs
  <2> QED BY <1>1, <2>1 DEF Ran
<1>20. CASE ExecuteModel
  <2>1. PICK b, d : ran' = [owner |-> "batch", batch |-> b, desc |-> d]
                     /\ Suits(mgr, RecordedDescs, b, d)
    BY <1>20, BatchSuits
  <2>2. setup' = setup /\ graphs' = graphs /\ phase = "serving" /\ phase' = phase
    BY <1>20 DEF ExecuteModel, Graphs
  <2>3. ran'.batch = b /\ ran'.desc = d
    BY <2>1
  <2> QED BY <1>2, <1>3, <2>1, <2>2, <2>3 DEF Ran
<1>21. CASE Restart
  BY <1>21 DEF Restart, Ran
<1>22. CASE Stopped
  BY <1>22, <1>1, <1>2, <1>3 DEF Stopped, vars, Ran, Graphs, Serving
<1>23. CASE UNCHANGED vars
  BY <1>23, <1>1, <1>2, <1>3 DEF vars, Ran, Graphs, Serving
<1> QED BY <1>4, <1>5, <1>6, <1>7, <1>8, <1>9, <1>10, <1>11, <1>12, <1>13, <1>14, <1>15, <1>16, <1>17, <1>18, <1>19, <1>20, <1>21, <1>22, <1>23 DEF Next

LEMMA GraphInit == Init => GraphInv
<1> SUFFICES ASSUME Init PROVE GraphInv
  OBVIOUS
<1>1. Recording /\ Keys
  BY DEF Init, Recording, Keys, Running
<1>2. Pools
  <2>1. /\ used = {} /\ phase = "start" /\ \A o \in Owners : pool[o] = "none"
    BY DEF Init
  <2> QED BY <2>1 DEF Pools, Early, Running, Clean, Owners
<1>3. Ran /\ phase # "assert"
  BY DEF Init, Ran
<1> QED BY <1>1, <1>2, <1>3 DEF GraphInv

-----------------------------------------------------------------------------
(* Both warm-ups, as the boot meets them.                                  *)

\* V2 runs as many tokens as it is told to.
LEMMA SplitEvenly ==
  ASSUME IsManager(mgr), NEW n \in Nat, n > 0, NEW s, s = num_tokens_per_request(n)
  PROVE  Sum(s) = n
<1>1. PICK k : k = Least(n, mgr.maxReqs)
  OBVIOUS
<1>2. k \in Nat /\ k > 0
  BY <1>1, LeastIs DEF IsManager
<1>3. PICK q, x : q = n \div k /\ x = n % k
  OBVIOUS
<1>4. q \in Nat /\ x \in Nat /\ x < k /\ n = (k * q) + x
  BY <1>2, <1>3
<1>5. PICK y : y = k - x
  OBVIOUS
<1>6. y \in Nat /\ y <= k /\ k = y + x
  BY <1>2, <1>4, <1>5
<1>7. s = [i \in 1 .. k |-> q + IF i > y THEN 1 ELSE 0]
  BY <1>1, <1>3, <1>5 DEF num_tokens_per_request
<1>8. s = [i \in 1 .. k |-> s[i]]
  BY <1>7
<1>9. Len(s) = k
  BY <1>2, <1>8, LenOfFunction
<1> DEFINE g == [i \in 0 .. k |-> i * q + IF i > y THEN i - y ELSE 0]
<1>10. g[0] = 0
  <2>1. g[0] = 0 * q + IF 0 > y THEN 0 - y ELSE 0
    BY <1>2
  <2> HIDE DEF g
  <2> QED BY <2>1, <1>4, <1>6
<1>11. ASSUME NEW i \in 1 .. k PROVE g[i] = g[i - 1] + s[i]
  <2>1. i - 1 \in 0 .. k /\ i \in 0 .. k
    BY <1>2
  <2>2. /\ g[i - 1] = (i - 1) * q + IF i - 1 > y THEN (i - 1) - y ELSE 0
        /\ g[i] = i * q + IF i > y THEN i - y ELSE 0
    BY <2>1
  <2> HIDE DEF g
  <2>3. (i - 1) * q + q = i * q /\ (i - 1) * q \in Nat
    BY <1>2, <1>4
  <2>4. PICK p : p = (i - 1) * q
    OBVIOUS
  <2>5. /\ p \in Nat /\ g[i - 1] = p + IF i - 1 > y THEN (i - 1) - y ELSE 0
        /\ g[i] = (p + q) + IF i > y THEN i - y ELSE 0
    BY <2>2, <2>3, <2>4
  <2>6. s[i] = q + IF i > y THEN 1 ELSE 0
    BY <1>7
  <2> QED BY <2>5, <2>6, <1>4, <1>6
<1> HIDE DEF g
<1>12. IsTotal(g, s)
  BY <1>9, <1>10, <1>11 DEF IsTotal
<1>13. Sum(s) = g[k]
  BY <1>2, <1>9, <1>12, SumIs
<1>14. g[k] = k * q + IF k > y THEN k - y ELSE 0
  BY <1>2 DEF g
<1>15. PICK p : p = k * q
  OBVIOUS
<1>16. p \in Nat /\ g[k] = p + x /\ n = p + x
  BY <1>2, <1>4, <1>6, <1>14, <1>15
<1> QED BY <1>13, <1>16

LEMMA DummyRunIs ==
  ASSUME IsManager(mgr), NEW n \in Nat, n > 0, graphs = {}
  PROVE  DummyRun(n).tokens = n
<1>1. PICK s : s = num_tokens_per_request(n)
  OBVIOUS
<1>2. Sum(s) = n
  BY <1>1, SplitEvenly
<1>3. ~ \E g \in graphs : g.owner # "speculator"
  OBVIOUS
<1>4. PICK b : b = Batch(Len(s), Sum(s), Max(Range(s)), FALSE, Max(mgr.loras))
  OBVIOUS
<1>5. b.tokens = n
  BY <1>2, <1>4 DEF Batch
<1>6. DummyRun(n) = dispatch(mgr, \E g \in graphs : g.owner # "speculator", b)
  BY <1>1, <1>4 DEF DummyRun
<1>7. dispatch(mgr, FALSE, b).tokens = b.tokens
  BY DEF dispatch
<1>8. (\E g \in graphs : g.owner # "speculator") = FALSE
  BY <1>3
<1> QED BY <1>5, <1>6, <1>7, <1>8

LEMMA RoomyStep ==
  ASSUME Roomy, [Next]_vars
  PROVE  Roomy'
<1>1. setup' = setup => ForOne' = ForOne
  BY DEF ForOne
<1>2. CASE Running' /\ ~ Running
  <2>1. InitializeKv /\ phase' = "kv" /\ setup' = setup
    BY <1>2 DEF Next, vars, Running, InitDevice, LoadModel, OthersMove, ProfileMemory,
                SkipProfiling, StartGraphProfile, CaptureForProfile, EndGraphProfile,
                StartGraphProfileV1, CaptureForProfileV1, EndGraphProfileV1, InitializeKv,
                WarmUpSizes, CaptureModel, CaptureModelV1, WarmUpKernels, ExecuteModel,
                Restart, Stopped
  <2>2. blocks' > ForOne
    BY <2>1 DEF InitializeKv, ForOne
  <2> QED BY <1>1, <2>1, <2>2 DEF Roomy
<1>3. CASE Running' /\ Running
  <2>1. setup' = setup /\ blocks' = blocks
    BY <1>3 DEF Next, vars, Running, InitDevice, LoadModel, OthersMove, ProfileMemory,
                SkipProfiling, StartGraphProfile, CaptureForProfile, EndGraphProfile,
                StartGraphProfileV1, CaptureForProfileV1, EndGraphProfileV1, InitializeKv,
                WarmUpSizes, CaptureModel, CaptureModelV1, WarmUpKernels, ExecuteModel,
                Restart, Stopped
  <2> QED BY <1>1, <1>3, <2>1 DEF Roomy
<1> QED BY <1>2, <1>3 DEF Roomy

\* What is run is what was to be: V2 has no graphs by then, and V1 none of that size.
LEMMA WarmUpRuns ==
  ASSUME Types, GraphInv, WarmUpSizes, setup.compile.on
  PROVE  warmup_sizes(setup.compile) \subseteq warm'
<1>1. setup \in Setups /\ IsManager(mgr)
  BY SetupIs DEF Types
<1>2. PICK sizes : sizes = warmup_sizes(setup.compile)
  OBVIOUS
<1>3. ASSUME NEW n \in sizes PROVE n \in Nat /\ n > 0
  <2>1. n \in setup.compile.sizes \/ \E r \in setup.compile.ranges : n = r[2]
    BY <1>2 DEF warmup_sizes
  <2> QED BY <1>1, <2>1, SetupsAssumption
<1>4. CASE V1
  <2>1. keys = capture_descs(mgr)
    BY <1>4 DEF WarmUpSizes, GraphInv, Keys, Running
  <2>2. warm' = {MixedRun(n).tokens : n \in sizes}
    BY <1>2, <1>4 DEF WarmUpSizes, MixedRun
  <2>3. ASSUME NEW n \in sizes PROVE n \in warm'
    <3>1. MixedRun(n).tokens = n
      BY <1>1, <1>2, <1>4, <2>1, WarmRunIs
    <3> QED BY <2>2, <3>1
  <2> QED BY <1>2, <2>3
<1>5. CASE ~V1
  <2>1. graphs = {}
    BY DEF WarmUpSizes, GraphInv, Recording
  <2>2. warm' = {DummyRun(n).tokens : n \in sizes}
    BY <1>2, <1>5 DEF WarmUpSizes
  <2>3. ASSUME NEW n \in sizes PROVE n \in warm'
    <3>1. DummyRun(n).tokens = n
      BY <1>1, <1>3, <2>1, DummyRunIs
    <3> QED BY <2>2, <3>1
  <2> QED BY <1>2, <2>3
<1> QED BY <1>4, <1>5

LEMMA WarmedStep ==
  ASSUME Types, GraphInv, Warmed, [Next]_vars
  PROVE  Warmed'
<1>1. setup' = setup =>
        (warmup_sizes(setup.compile))' = warmup_sizes(setup.compile)
  BY DEF warmup_sizes, mgr
<1>2. CASE phase \in {"warm", "captured", "serving"}
           /\ phase' \in {"warm", "captured", "serving"}
  <2>1. setup' = setup /\ warm' = warm
    BY <1>2 DEF Next, vars, Serving, InitDevice, LoadModel, OthersMove, ProfileMemory,
                SkipProfiling, StartGraphProfile, CaptureForProfile, EndGraphProfile,
                StartGraphProfileV1, CaptureForProfileV1, EndGraphProfileV1, InitializeKv,
                WarmUpSizes, CaptureModel, CaptureModelV1, WarmUpKernels, ExecuteModel,
                Restart, Stopped
  <2> QED BY <1>1, <1>2, <2>1 DEF Warmed
<1>3. CASE phase \notin {"warm", "captured", "serving"}
           /\ phase' \in {"warm", "captured", "serving"}
  <2>1. WarmUpSizes /\ setup' = setup
    BY <1>3 DEF Next, vars, InitDevice, LoadModel, OthersMove, ProfileMemory,
                SkipProfiling, StartGraphProfile, CaptureForProfile, EndGraphProfile,
                StartGraphProfileV1, CaptureForProfileV1, EndGraphProfileV1, InitializeKv,
                WarmUpSizes, CaptureModel, CaptureModelV1, WarmUpKernels, ExecuteModel,
                Restart, Stopped
  <2>2. setup.compile.on => warmup_sizes(setup.compile) \subseteq warm'
    BY <2>1, WarmUpRuns
  <2> QED BY <1>1, <2>1, <2>2 DEF Warmed
<1> QED BY <1>2, <1>3 DEF Warmed

\* The warm-up with the cache that has come of it.
LEMMA ShapeCanWarm ==
  ASSUME setup \in Setups, blocks \in Nat, blocks > ForOne, NEW w, w = Shape(blocks)
  PROVE  CanWarm(w)
<1>1. PICK v : v = setup.warmup
  OBVIOUS
<1>2. IsWarmup(v)
  BY <1>1, SetupIs
<1>3. /\ v.q \in Nat \ {0} /\ {v.spec, v.seqs, v.batched} \subseteq Nat
      /\ v.spec > 0 => v.seqs > 0 /\ v.batched >= PromptLen(v)
      /\ PromptLen(v) + v.q + 1 <= v.maxLen
  BY <1>1, WarmupAssumption
<1>4. w = [v EXCEPT !.blocks = blocks]
  BY <1>1 DEF Shape
<1>5. /\ w.blocks = blocks /\ DOMAIN w = DOMAIN v
      /\ w.q = v.q /\ w.spec = v.spec /\ w.seqs = v.seqs /\ w.batched = v.batched
      /\ w.groups = v.groups /\ w.ahead = v.ahead /\ w.maxLen = v.maxLen
      /\ w.encLen = v.encLen
  BY <1>2, <1>4 DEF IsWarmup
<1>6. IsWarmup(w)
  BY <1>2, <1>5 DEF IsWarmup
<1>7. TotalFor(w, w.maxLen) = TotalFor(v, v.maxLen)
  BY <1>5 DEF TotalFor, CountsFor, _reserved_block_count
<1>8. TotalFor(w, w.maxLen) < w.blocks
  <2>1. TotalFor(v, v.maxLen) \in Nat
    BY <1>2, TotalIs
  <2> QED BY <1>1, <1>5, <1>7, <2>1 DEF ForOne
<1>9. PromptLen(w) = PromptLen(v)
  BY <1>5 DEF PromptLen
<1> QED BY <1>3, <1>5, <1>6, <1>8, <1>9 DEF CanWarm

LEMMA BlocksApart ==
  ASSUME Types, Roomy
  PROVE  WarmupBlocksApart
<1> SUFFICES ASSUME phase = "captured"
             PROVE  LET w == Shape(blocks)
                        steps == warmup_kernels(w)
                                 \o run_mixed_prefill_decode_warmup(w, w.batched)
                    IN  \A i \in DOMAIN steps :
                            /\ InBatch(w, steps[i])
                            /\ Apart(w, steps[i]) /\ InPool(w, steps[i])
                            /\ Covered(w, steps[i])
  BY DEF WarmupBlocksApart
<1>1. PICK w : w = Shape(blocks)
  OBVIOUS
<1>2. CanWarm(w)
  BY <1>1, ShapeCanWarm DEF Types, Roomy, Running
<1>3. PICK x : x = warmup_kernels(w) \o run_mixed_prefill_decode_warmup(w, w.batched)
  OBVIOUS
<1>4. \A i \in DOMAIN x : Fine(w, x[i])
  BY <1>2, <1>3, WarmupIsFine
<1> QED BY <1>1, <1>3, <1>4 DEF Fine

LEMMA RangesWarm ==
  ASSUME Types, GraphInv, Warmed
  PROVE  EveryRangeWarm
<1> SUFFICES ASSUME phase = "serving", setup.compile.on, mgr.mode # "FULL_DECODE_ONLY",
                    NEW r \in setup.compile.ranges
             PROVE  \/ \E n \in warm : n \in r[1]..r[2]
                    \/ \E g \in graphs : g.owner # "speculator" /\ g.desc.tokens \in r[1]..r[2]
  BY DEF EveryRangeWarm
<1>1. setup \in Setups /\ IsManager(mgr)
  BY SetupIs DEF Types
<1>2. warmup_sizes(setup.compile) \subseteq warm
  BY DEF Warmed
<1>3. PICK recorded, extra : /\ recorded = IF mgr.mode = "NONE" THEN {} ELSE mgr.sizes
                             /\ extra = setup.compile.sizes \ recorded
  OBVIOUS
<1>4. warmup_sizes(setup.compile) =
        extra \cup {s[2] : s \in {t \in setup.compile.ranges :
                                    \A n \in recorded \cup extra : n \notin t[1] .. t[2]}}
  BY <1>3 DEF warmup_sizes
<1>5. CASE \E n \in recorded : n \in r[1] .. r[2]
  <2>1. PICK n \in recorded : n \in r[1] .. r[2]
    BY <1>5
  <2>2. mgr.mode # "NONE" /\ n \in mgr.sizes
    BY <1>3, <2>1
  <2>3. mixed_mode(mgr) # "NONE"
    BY <1>1, <2>2 DEF mixed_mode, IsManager
  <2>4. PICK l : l \in mgr.loras
    BY <1>1 DEF IsManager
  <2>5. PICK d \in MixedDescs(mgr) : d.tokens = n
    <3>1. PICK m, d : m = mgr
            /\ d = [mode |-> mixed_mode(m), tokens |-> n,
                    reqs |-> IF mixed_mode(m) = "FULL" THEN Smaller(n, m.maxReqs) ELSE 0,
                    uniform |-> 0, query |-> 0, loras |-> l]
      OBVIOUS
    <3>2. d \in MixedDescs(m) /\ d.tokens = n
      BY <2>2, <2>4, <3>1 DEF MixedDescs
    <3> QED BY <3>1, <3>2
  <2>6. d \in RecordedDescs
    BY <2>3, <2>5 DEF capture_descs, GraphInv, Recording
  <2>7. PICK g \in graphs : g.owner # "speculator" /\ g.desc = d
    BY <2>6 DEF RecordedDescs
  <2> QED BY <2>1, <2>5, <2>7
<1>6. CASE \E n \in extra : n \in r[1] .. r[2]
  BY <1>2, <1>4, <1>6
<1>7. CASE \A n \in recorded \cup extra : n \notin r[1] .. r[2]
  <2>1. r[2] \in warm
    BY <1>2, <1>4, <1>7
  <2>2. r[2] \in r[1] .. r[2]
    BY <1>1, SetupsAssumption
  <2> QED BY <2>1, <2>2
<1> QED BY <1>5, <1>6, <1>7

-----------------------------------------------------------------------------
(* The invariant.                                                          *)

LEMMA IInvHolds == Spec => []IInv
<1>1. Init => IInv
  <2>1. Init => Roomy /\ Warmed
    BY DEF Init, Roomy, Warmed, Running
  <2> QED BY <2>1, TypesInit, MemoryInit, GraphInit DEF IInv
<1>2. IInv /\ [Next]_vars => IInv'
  <2> SUFFICES ASSUME IInv, [Next]_vars PROVE IInv'
    OBVIOUS
  <2>1. Types /\ MemoryInv /\ GraphInv /\ Roomy /\ Warmed
    BY DEF IInv
  <2>2. Types'
    BY <2>1, TypesStep
  <2>3. MemoryInv'
    BY <2>1, MeasuredStep, GrantedStep, PlanFitsStep DEF MemoryInv
  <2>4. GraphInv'
    BY <2>1, RecordingStep, KeysStep, PoolsStep, RanStep, NoAssertStep DEF GraphInv
  <2>5. Roomy' /\ Warmed'
    BY <2>1, RoomyStep, WarmedStep
  <2> QED BY <2>2, <2>3, <2>4, <2>5 DEF IInv
<1> QED BY <1>1, <1>2, PTL DEF Spec

-----------------------------------------------------------------------------
(* The theorems.                                                           *)

\* The worker never needs more memory than it was granted, beyond what others gave
\* back while it measured and what V1 takes for an overlay of its modes: for any
\* sizes, any moves of the other processes and any number of restarts that take the
\* size an earlier start has saved.
THEOREM MemoryIsWithinRequest == Spec => []MemoryWithinRequest
<1>1. IInv => MemoryWithinRequest
  BY MemoryHolds DEF IInv
<1> QED BY <1>1, IInvHolds, PTL

\* No assertion of the capture fails, no graph is left in or bound to the throwaway
\* pool, and the static buffer holds the outputs of the largest graph.
THEOREM CapturesAreSound == Spec => []CapturesSound
<1>1. IInv => CapturesSound
  BY DEF IInv, GraphInv, Pools, Recording, CapturesSound, Clean
<1> QED BY <1>1, IInvHolds, PTL

\* A batch that is run with a graph has one that was recorded and computes it, and with
\* one length of decodes no better one was recorded: for any sizes to capture, graph
\* mode and adapters.
THEOREM BatchesGetTheirGraphs == Spec => []BatchGetsItsGraph
<1>1. IInv => BatchGetsItsGraph
  <2> SUFFICES ASSUME IInv, ran # Nothing PROVE BatchGetsItsGraph
    BY DEF BatchGetsItsGraph
  <2>1. Suits(mgr, RecordedDescs, ran.batch, ran.desc)
    BY DEF IInv, GraphInv, Ran
  <2> QED BY <2>1 DEF Suits, RecordedDescs, BatchGetsItsGraph
<1> QED BY <1>1, IInvHolds, PTL

\* The warm-up requests of V2 share no block, hold what their tokens reserve inside the
\* pool, in batches of the size the engine allows; and a worker that serves has run every
\* range it is compiled for: for any cache groups, number of blocks and of requests,
\* lengths of decodes, sizes to capture and ranges.
THEOREM WarmUpIsSound == Spec => []WarmUpSound
<1>1. IInv => WarmUpSound
  BY BlocksApart, RangesWarm DEF IInv, WarmUpSound
<1> QED BY <1>1, IInvHolds, PTL
=============================================================================
