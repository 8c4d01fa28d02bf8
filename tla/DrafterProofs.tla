---------------------------- MODULE DrafterProofs ----------------------------
(* Theorems about Drafter for any number of requests and drafts, any lengths *)
(* of the model, the prompts and the chunks, and any number of steps: the    *)
(* draft cache stays in sync with the target, and every draft follows from   *)
(* the tokens its request really has.                                        *)
EXTENDS Drafter, FiniteSetTheorems, SequenceTheorems, NaturalsInduction, TLAPS

-----------------------------------------------------------------------------
(* The inductive invariant.                                                  *)

Phases == {"idle", "target", "prepare", "drafting", "drafted"}
Entries == [r : Reqs, start : Nat, len : Nat \ {0}, rej : Nat, sampled : BOOLEAN]

Typed ==
    /\ impl \in Impls /\ phase \in Phases
    /\ known \in [Reqs -> Nat] /\ computed \in [Reqs -> Nat] /\ offered \in [Reqs -> 0 .. K]
    /\ \A r \in Reqs : computed[r] < known[r] /\ known[r] <= MaxModelLen /\ PromptLens # {}
    /\ DOMAIN kv = Reqs
    /\ \A i \in 1 .. NumReqs : DOMAIN drafts[i] = 1 .. K
    /\ \A r \in Reqs : DOMAIN logits[r] = 1 .. K
    /\ goal \in 0 .. K /\ made \in 0 .. K

\* The rows of a step: they fit in the buffers and in the model's length, and are
\* of different requests.
BatchOK ==
    /\ batch \in Seq(Entries) /\ n <= NumReqs
    /\ \A i \in 1 .. n : /\ batch[i].len <= MaxQuery /\ batch[i].rej < batch[i].len
                         /\ batch[i].start + batch[i].len < MaxModelLen
    /\ \A i, j \in 1 .. n : Request(i) = Request(j) => i = j

\* What is computed of a request ends with its last row that is not rejected.
Counted == phase # "idle" => \A i \in 1 .. n : computed[Request(i)] = Base(i) + 1

\* The rows of the step at hand are the only ones whose entries may be missing.
InTarget(r, p) == phase = "target" /\ \E i \in 1 .. n : Request(i) = r /\ batch[i].start <= p
Sync == \A r \in Reqs \ missed : \A p \in 0 .. computed[r] - 1 : kv[r][p] = "T" \/ InTarget(r, p)

\* The j-th draft of entry i, within the length of the model.
Follows(i, j) ==
    Base(i) + j <= MaxModelLen => drafts[i][j] = Draft(Request(i), Base(i) + 1 + j)
KeepsLogits(i, j) == impl = "v2" => logits[Request(i)][j] = drafts[i][j]
Drawn ==
    phase \in {"prepare", "drafting", "drafted"} =>
        \A i \in 1 .. n : \A j \in 1 .. made : j <= goal =>
            /\ Request(i) \notin missed => Follows(i, j)
            /\ KeepsLogits(i, j)

\* How many passes were made.
Passes ==
    /\ phase = "prepare" => impl = "v2" /\ K > 1 /\ made = 1
    /\ phase = "drafting" => made \in 1 .. goal - 1
    /\ phase # "idle" /\ impl = "v2" => goal = K
    /\ phase = "drafted" => goal <= made \/ \A i \in 1 .. n : Request(i) \in missed

\* The front rows after V2's first pass.
Primed(i) ==
    /\ seq[i] = batch[i].start + batch[i].len /\ pos[i] = Base(i) /\ skey[i] = Base(i) + 1
    /\ hid[i] = Hidden(Request(i), Base(i)) /\ topk[i] = Hidden(Request(i), Base(i))
Prepared == phase = "prepare" => \A i \in 1 .. n : Request(i) \notin missed => Primed(i)

\* The front rows before a further pass, which reads position Base + made: V2 has
\* the inputs of that position, V1 those of the one before.
InputsV2(i, at) ==
    /\ pos[i] = Smaller(at, MaxModelLen - 1)
    /\ at < MaxModelLen => /\ seq[i] = at + 1 /\ skey[i] = at + 1
                           /\ ids[i] = Draft(Request(i), at + 1)
InputsV1(i, at) ==
    /\ pos[i] = at - 1 /\ seq[i] = at
    /\ batch[i].start + batch[i].len + K <= MaxModelLen
Behind(i, at) ==
    /\ hid[i] = Hidden(Request(i), at - 1) /\ topk[i] = Hidden(Request(i), Base(i))
    /\ \A q \in Base(i) + 1 .. at - 1 : kv[Request(i)][q] = "D"
Lined(i, at) ==
    /\ impl = "v2" => InputsV2(i, at)
    /\ impl # "v2" => InputsV1(i, at)
    /\ at < MaxModelLen => Behind(i, at)
Drafting ==
    phase = "drafting" => \A i \in 1 .. n : Request(i) \notin missed => Lined(i, Base(i) + made)

IInv == Typed /\ BatchOK /\ Counted /\ Sync /\ Drawn /\ Passes /\ Prepared /\ Drafting

-----------------------------------------------------------------------------
(* Numbers and sets.                                                         *)

LEMMA LeastNatural ==
  ASSUME NEW T \in SUBSET Nat, T # {}
  PROVE  \E m \in T : \A k \in T : m <= k
<1> DEFINE R == OpToRel(<, Nat)
<1>1. IsWellFoundedOn(R, Nat)
  BY NatLessThanWellFounded
<1>2. \A x, y \in Nat : x < y => <<x, y>> \in R
  BY DEF OpToRel
<1> HIDE DEF R
<1>3. PICK m \in T : \A y \in T : ~ (<<y, m>> \in R)
  BY <1>1, WFMin
<1>4. ASSUME NEW k \in T PROVE m <= k
  <2>1. m \in Nat /\ k \in Nat
    OBVIOUS
  <2>2. ~ (k < m)
    BY <1>2, <1>3, <2>1
  <2> QED BY <2>1, <2>2
<1> QED BY <1>4

LEMMA SetInduction ==
  ASSUME NEW T \in SUBSET Nat, 0 \in T, \A k \in T : k + 1 \in T
  PROVE  T = Nat
<1> SUFFICES ASSUME Nat \ T # {} PROVE FALSE
  OBVIOUS
<1>1. PICK m \in Nat \ T : \A k \in Nat \ T : m <= k
  BY LeastNatural
<1>2. m # 0 /\ m - 1 \in Nat /\ (m - 1) + 1 = m
  OBVIOUS
<1>3. m - 1 \in T
  BY <1>1, <1>2
<1> QED BY <1>2, <1>3

LEMMA Constants ==
  /\ NumReqs \in Nat /\ MaxQuery \in Nat /\ MaxQuery > 0 /\ K \in Nat /\ K > 0
  /\ MaxModelLen \in Nat /\ MaxModelLen > 0
  /\ PromptLens \subseteq 1 .. MaxModelLen - 1 /\ MaxQuery >= MaxChunk /\ MaxQuery >= K + 1
<1>1. /\ K \in Nat /\ K > 0 /\ MaxChunk \in Nat /\ MaxChunk > 0 /\ MaxModelLen \in Nat
      /\ MaxModelLen > 0 /\ PromptLens \subseteq 1 .. MaxModelLen - 1
  BY DrafterAssumption
<1>2. NumReqs \in Nat
  BY DrafterAssumption, FS_CardinalityType DEF NumReqs
<1>3. MaxQuery = IF MaxChunk > K + 1 THEN MaxChunk ELSE K + 1
  BY DEF MaxQuery
<1> QED BY <1>1, <1>2, <1>3

-----------------------------------------------------------------------------
(* Where the rows of a batch are.                                            *)

LEMMA EntryIs ==
  ASSUME BatchOK
  PROVE  /\ n \in Nat /\ n <= NumReqs
         /\ \A i \in 1 .. n :
              /\ batch[i] \in Entries /\ Request(i) \in Reqs /\ Request(i) = batch[i].r
              /\ batch[i].start \in Nat /\ batch[i].len \in Nat /\ batch[i].rej \in Nat
              /\ batch[i].len > 0 /\ batch[i].len <= MaxQuery /\ batch[i].rej < batch[i].len
              /\ batch[i].sampled \in BOOLEAN
              /\ batch[i].start + batch[i].len < MaxModelLen
              /\ Base(i) = (batch[i].start + batch[i].len) - (batch[i].rej + 1)
              /\ Base(i) \in Nat /\ batch[i].start <= Base(i)
              /\ Base(i) + 1 <= batch[i].start + batch[i].len
<1>1. n \in Nat /\ n <= NumReqs
  BY LenProperties DEF BatchOK, n
<1>2. ASSUME NEW i \in 1 .. n
      PROVE  /\ batch[i] \in Entries /\ Request(i) \in Reqs /\ Request(i) = batch[i].r
             /\ batch[i].start \in Nat /\ batch[i].len \in Nat /\ batch[i].rej \in Nat
             /\ batch[i].len > 0 /\ batch[i].len <= MaxQuery /\ batch[i].rej < batch[i].len
             /\ batch[i].sampled \in BOOLEAN
             /\ batch[i].start + batch[i].len < MaxModelLen
  <2>1. batch[i] \in Entries
    BY ElementOfSeq DEF BatchOK, n
  <2> QED BY <2>1 DEF Entries, BatchOK, Request
<1>3. ASSUME NEW i \in 1 .. n
      PROVE  /\ Base(i) = (batch[i].start + batch[i].len) - (batch[i].rej + 1)
             /\ Base(i) \in Nat /\ batch[i].start <= Base(i)
             /\ Base(i) + 1 <= batch[i].start + batch[i].len
  <2>1. Base(i) = batch[i].start + batch[i].len - batch[i].rej - 1
    BY DEF Base
  <2> QED BY <1>2, <2>1
<1> QED BY <1>1, <1>2, <1>3

\* g is where the rows of the entries start.
IsStart(g) == g[0] = 1 /\ \A k \in 1 .. n : g[k] = g[k - 1] + batch[k].len

LEMMA StartExists ==
  ASSUME n \in Nat
  PROVE  \E g : IsStart(g)
<1> DEFINE Upto(g, d) == g[0] = 1 /\ \A k \in 1 .. n : k <= d => g[k] = g[k - 1] + batch[k].len
           T == {d \in Nat : \E g : Upto(g, d)}
<1>1. 0 \in T
  <2> DEFINE g == [k \in {0} |-> 1]
  <2>1. g[0] = 1 /\ \A k \in 1 .. n : ~ (k <= 0)
    OBVIOUS
  <2> HIDE DEF g
  <2> QED BY <2>1
<1>2. ASSUME NEW d \in T PROVE d + 1 \in T
  <2>1. PICK g : Upto(g, d)
    OBVIOUS
  <2>2. PICK j : j = d + 1
    OBVIOUS
  <2> DEFINE f == [k \in 0 .. n |-> IF k = j THEN g[j - 1] + batch[j].len ELSE g[k]]
  <2>3. d \in Nat /\ j \in Nat /\ j > 0
    BY <2>2
  <2>4. f[0] = 1
    BY <2>1, <2>3
  <2>5. ASSUME NEW k \in 1 .. n, k <= d + 1 PROVE f[k] = f[k - 1] + batch[k].len
    <3>1. k \in 0 .. n /\ k - 1 \in 0 .. n /\ k - 1 # j
      BY <2>2, <2>3, <2>5
    <3>2. f[k - 1] = g[k - 1] /\ f[k] = IF k = j THEN g[j - 1] + batch[j].len ELSE g[k]
      BY <3>1
    <3> HIDE DEF f
    <3>3. CASE k = j
      BY <3>2, <3>3
    <3>4. CASE k # j
      <4>1. k <= d
        BY <2>2, <2>3, <2>5, <3>4
      <4> QED BY <3>2, <3>4, <4>1, <2>1
    <3> QED BY <3>3, <3>4
  <2>6. Upto(f, d + 1)
    <3> HIDE DEF f
    <3> QED BY <2>4, <2>5
  <2> HIDE DEF Upto, f
  <2> QED BY <2>3, <2>6
<1>3. T = Nat
  <2>1. T \in SUBSET Nat
    OBVIOUS
  <2> HIDE DEF T
  <2> QED BY <2>1, <1>1, <1>2, SetInduction
<1>4. PICK g : Upto(g, n)
  BY <1>3
<1>5. IsStart(g)
  BY <1>4 DEF IsStart
<1> QED BY <1>5

LEMMA StartIs ==
  ASSUME n \in Nat
  PROVE  Start(1) = 1 /\ \A i \in 1 .. n : Start(i + 1) = Start(i) + batch[i].len
<1> DEFINE Rec(t) == [k \in 0 .. n |-> IF k = 0 THEN 1 ELSE t[k - 1] + batch[k].len]
           next == CHOOSE t : t = Rec(t)
<1>1. PICK g : IsStart(g)
  BY StartExists
<1> DEFINE f == [k \in 0 .. n |-> g[k]]
<1>2. \A k \in 0 .. n : f[k] = IF k = 0 THEN 1 ELSE f[k - 1] + batch[k].len
  <2> TAKE k \in 0 .. n
  <2>1. CASE k = 0
    BY <1>1, <2>1 DEF IsStart
  <2>2. CASE k # 0
    <3>1. k \in 1 .. n /\ k - 1 \in 0 .. n
      BY <2>2
    <3>2. f[k] = g[k] /\ f[k - 1] = g[k - 1]
      BY <3>1
    <3> HIDE DEF f
    <3> QED BY <1>1, <3>1, <3>2, <2>2 DEF IsStart
  <2> QED BY <2>1, <2>2
<1>3. f = Rec(f)
  <2> SUFFICES \A k \in 0 .. n : f[k] = Rec(f)[k]
    OBVIOUS
  <2> HIDE DEF f
  <2> QED BY <1>2
<1>4. next = Rec(next)
  <2> HIDE DEF f, Rec
  <2> QED BY <1>3
<1>5. \A k \in 0 .. n : next[k] = IF k = 0 THEN 1 ELSE next[k - 1] + batch[k].len
  <2> HIDE DEF next
  <2> QED BY <1>4
<1>6. \A i : Start(i) = next[i - 1]
  BY DEF Start, next
<1> HIDE DEF next
<1>7. Start(1) = 1
  <2>1. 1 - 1 = 0 /\ 0 \in 0 .. n
    OBVIOUS
  <2> QED BY <2>1, <1>5, <1>6
<1>8. ASSUME NEW i \in 1 .. n PROVE Start(i + 1) = Start(i) + batch[i].len
  <2>1. (i + 1) - 1 = i /\ i \in 0 .. n /\ i # 0
    OBVIOUS
  <2>2. Start(i + 1) = next[i] /\ Start(i) = next[i - 1]
    BY <1>6, <2>1
  <2> QED BY <2>1, <2>2, <1>5
<1> QED BY <1>7, <1>8

LEMMA StartsGrow ==
  ASSUME BatchOK
  PROVE  /\ Start(1) = 1
         /\ \A i \in 1 .. n : Start(i + 1) = Start(i) + batch[i].len
         /\ \A i \in 1 .. n + 1 : Start(i) \in Nat /\ Start(i) >= 1
         /\ \A i, j \in 1 .. n + 1 : i <= j => Start(i) <= Start(j)
         /\ Start(n + 1) <= 1 + (n * MaxQuery)
<1>1. /\ n \in Nat
      /\ \A i \in 1 .. n : batch[i].len \in Nat /\ batch[i].len <= MaxQuery
  BY EntryIs
<1>2. Start(1) = 1 /\ \A i \in 1 .. n : Start(i + 1) = Start(i) + batch[i].len
  BY <1>1, StartIs
<1> DEFINE T == {d \in Nat : d <= n => /\ Start(d + 1) \in Nat /\ Start(d + 1) >= 1
                                      /\ Start(d + 1) <= 1 + (d * MaxQuery)}
<1>3. 0 \in T
  <2>1. 0 + 1 = 1 /\ 0 * MaxQuery = 0
    BY Constants
  <2> QED BY <2>1, <1>2
<1>4. ASSUME NEW d \in T PROVE d + 1 \in T
  <2> SUFFICES ASSUME d + 1 <= n
               PROVE  /\ Start((d + 1) + 1) \in Nat /\ Start((d + 1) + 1) >= 1
                      /\ Start((d + 1) + 1) <= 1 + ((d + 1) * MaxQuery)
    OBVIOUS
  <2>1. PICK e : e = d + 1
    OBVIOUS
  <2>2. d \in Nat /\ d <= n /\ e \in 1 .. n
    BY <2>1, <1>1
  <2>3. Start(e) \in Nat /\ Start(e) >= 1 /\ Start(e) <= 1 + (d * MaxQuery)
    BY <2>1, <2>2
  <2>4. Start(e + 1) = Start(e) + batch[e].len
    BY <1>2, <2>2
  <2>5. PICK x, y, l : x = d * MaxQuery /\ y = e * MaxQuery /\ l = batch[e].len
    OBVIOUS
  <2>6. y = x + MaxQuery /\ x \in Nat /\ MaxQuery \in Nat
    BY <2>1, <2>2, <2>5, Constants
  <2>7. l \in Nat /\ l <= MaxQuery
    BY <1>1, <2>2, <2>5
  <2>8. Start(e + 1) \in Nat /\ Start(e + 1) >= 1 /\ Start(e + 1) <= 1 + y
    BY <2>3, <2>4, <2>5, <2>6, <2>7
  <2> QED BY <2>1, <2>5, <2>8
<1>5. T = Nat
  <2>1. T \in SUBSET Nat
    OBVIOUS
  <2> HIDE DEF T
  <2> QED BY <2>1, <1>3, <1>4, SetInduction
<1>6. \A i \in 1 .. n + 1 : Start(i) \in Nat /\ Start(i) >= 1
  <2> TAKE i \in 1 .. n + 1
  <2>1. i - 1 \in Nat /\ i - 1 <= n /\ (i - 1) + 1 = i
    BY <1>1
  <2>2. i - 1 \in T
    BY <1>5, <2>1
  <2> QED BY <2>1, <2>2
<1>7. Start(n + 1) <= 1 + (n * MaxQuery)
  BY <1>1, <1>5
<1> HIDE DEF T
<1> DEFINE U == {d \in Nat : \A i \in 1 .. n + 1 : i + d <= n + 1 => Start(i) <= Start(i + d)}
<1>8. 0 \in U
  <2>1. \A i \in 1 .. n + 1 : i + 0 = i /\ Start(i) <= Start(i)
    BY <1>1, <1>6
  <2> QED BY <2>1
<1>9. ASSUME NEW d \in U PROVE d + 1 \in U
  <2> SUFFICES ASSUME NEW i \in 1 .. n + 1, i + (d + 1) <= n + 1
               PROVE  Start(i) <= Start(i + (d + 1))
    OBVIOUS
  <2>1. PICK j : j = i + d
    OBVIOUS
  <2>2. d \in Nat /\ j \in 1 .. n /\ j + 1 = i + (d + 1) /\ j \in 1 .. n + 1 /\ j + 1 \in 1 .. n + 1
    BY <2>1, <1>1
  <2>3. Start(i) <= Start(j)
    BY <2>1, <2>2, <1>1
  <2>4. Start(j + 1) = Start(j) + batch[j].len /\ batch[j].len \in Nat
    BY <1>1, <1>2, <2>2
  <2>5. Start(i) \in Nat /\ Start(j) \in Nat
    BY <1>6, <2>2
  <2>6. Start(i) <= Start(j + 1)
    BY <2>3, <2>4, <2>5
  <2> QED BY <2>2, <2>6
<1>10. U = Nat
  <2>1. U \in SUBSET Nat
    OBVIOUS
  <2> HIDE DEF U
  <2> QED BY <2>1, <1>8, <1>9, SetInduction
<1>11. ASSUME NEW i \in 1 .. n + 1, NEW j \in 1 .. n + 1, i <= j PROVE Start(i) <= Start(j)
  <2>1. PICK d : d = j - i
    OBVIOUS
  <2>2. d \in Nat /\ i + d = j /\ j <= n + 1
    BY <1>1, <1>11, <2>1
  <2>3. d \in U
    BY <1>10, <2>2
  <2> QED BY <2>2, <2>3
<1> QED BY <1>2, <1>6, <1>7, <1>11

\* Rows of entries.
LEMMA RowsFit ==
  ASSUME BatchOK
  PROVE  /\ NumTokens \in Nat /\ Start(n + 1) = NumTokens + 1 /\ 1 .. NumTokens \subseteq Rows
         /\ 1 .. n \subseteq Rows /\ 1 .. n \subseteq 1 .. NumReqs
         /\ \A i \in 1 .. NumReqs : i \in Rows
<1>1. n \in Nat /\ n <= NumReqs
  BY EntryIs
<1>2. Start(n + 1) \in Nat /\ Start(n + 1) >= 1 /\ Start(n + 1) <= 1 + (n * MaxQuery)
  BY <1>1, StartsGrow
<1>3. PICK x, y, q : x = n * MaxQuery /\ y = NumReqs * MaxQuery /\ q = MaxQuery
  OBVIOUS
<1>4. NumReqs \in Nat /\ q \in Nat /\ q > 0
  BY <1>3, Constants
<1>5. x = n * q /\ y = NumReqs * q
  BY <1>3
<1>6. x <= y /\ NumReqs <= y /\ x \in Nat /\ y \in Nat
  <2>1. PICK d \in Nat : NumReqs = n + d
    BY <1>1, <1>4
  <2>2. y = x + (d * q)
    BY <1>1, <1>4, <1>5, <2>1
  <2>3. d * q \in Nat /\ x \in Nat
    BY <1>1, <1>4, <1>5, <2>1
  <2>4. PICK c \in Nat : q = c + 1
    BY <1>4
  <2>5. y = (NumReqs * c) + NumReqs /\ NumReqs * c \in Nat
    BY <1>4, <1>5, <2>4
  <2> QED BY <2>2, <2>3, <2>5, <1>4
<1>7. NumTokens = Start(n + 1) - 1
  BY DEF NumTokens
<1>8. Rows = 1 .. y
  BY <1>3 DEF Rows
<1> QED BY <1>1, <1>2, <1>3, <1>4, <1>6, <1>7, <1>8

\* Row `row` is of entry i, at position p.
RowIs(row, i, p) ==
    /\ row \in 1 .. NumTokens /\ row \in Nat /\ row \in Rows
    /\ i \in 1 .. n /\ Entry(row) = i /\ At(row) = p
    /\ p = batch[i].start + (row - Start(i)) /\ p \in Nat
    /\ batch[i].start <= p /\ p < batch[i].start + batch[i].len /\ p < MaxModelLen - 1

LEMMA EntryOfRow ==
  ASSUME BatchOK, NEW i \in 1 .. n, NEW row \in Nat, Start(i) <= row, row < Start(i + 1)
  PROVE  RowIs(row, i, batch[i].start + (row - Start(i)))
<1>1. n \in Nat /\ i \in 1 .. n + 1 /\ i + 1 \in 1 .. n + 1 /\ n + 1 \in 1 .. n + 1
  BY EntryIs
<1>2. /\ batch[i].start \in Nat /\ batch[i].len \in Nat
      /\ batch[i].start + batch[i].len < MaxModelLen /\ MaxModelLen \in Nat
  BY EntryIs, Constants
<1>3. /\ Start(i) \in Nat /\ Start(i) >= 1 /\ Start(i + 1) = Start(i) + batch[i].len
      /\ Start(i + 1) <= Start(n + 1) /\ Start(n + 1) \in Nat /\ Start(i + 1) \in Nat
  BY <1>1, StartsGrow
<1>4. row \in 1 .. NumTokens /\ row \in Rows
  BY <1>3, RowsFit
<1>5. Entry(row) = i
  <2>1. row \in Start(i) .. Start(i + 1) - 1
    BY <1>3
  <2>2. ASSUME NEW j \in 1 .. n, row \in Start(j) .. Start(j + 1) - 1 PROVE j = i
    <3>1. j \in 1 .. n + 1 /\ j + 1 \in 1 .. n + 1
      BY <1>1
    <3>2. Start(j) \in Nat /\ Start(j + 1) \in Nat
      BY <3>1, StartsGrow
    <3>3. Start(j) <= row /\ row < Start(j + 1)
      BY <2>2, <3>2
    <3>4. ~ (j + 1 <= i)
      <4>1. j + 1 <= i => Start(j + 1) <= Start(i)
        BY <1>1, <3>1, StartsGrow
      <4> QED BY <4>1, <3>2, <3>3, <1>3
    <3>5. ~ (i + 1 <= j)
      <4>1. i + 1 <= j => Start(i + 1) <= Start(j)
        BY <1>1, <3>1, StartsGrow
      <4> QED BY <4>1, <3>2, <3>3, <1>3
    <3> QED BY <3>4, <3>5, <1>1
  <2>3. Entry(row) = CHOOSE j \in 1 .. n : row \in Start(j) .. Start(j + 1) - 1
    BY DEF Entry
  <2> QED BY <2>1, <2>2, <2>3
<1>6. At(row) = batch[i].start + row - Start(i)
  BY <1>5 DEF At
<1>7. At(row) = batch[i].start + (row - Start(i))
  BY <1>2, <1>3, <1>6
<1>8. /\ batch[i].start + (row - Start(i)) \in Nat
      /\ batch[i].start <= batch[i].start + (row - Start(i))
      /\ batch[i].start + (row - Start(i)) < batch[i].start + batch[i].len
      /\ batch[i].start + (row - Start(i)) < MaxModelLen - 1
  BY <1>2, <1>3
<1> QED BY <1>4, <1>5, <1>7, <1>8 DEF RowIs

LEMMA RowHasEntry ==
  ASSUME BatchOK, NEW row \in 1 .. NumTokens
  PROVE  RowIs(row, Entry(row), At(row))
<1>1. n \in Nat /\ NumTokens \in Nat /\ Start(n + 1) = NumTokens + 1
  BY EntryIs, RowsFit
<1>2. /\ Start(1) = 1
      /\ \A i \in 1 .. n + 1 : Start(i) \in Nat
      /\ \A i \in 1 .. n : Start(i + 1) = Start(i) + batch[i].len
  BY StartsGrow
<1> DEFINE T == {k \in Nat : k \in 1 .. n + 1 /\ row < Start(k)}
<1>3. n + 1 \in T
  BY <1>1
<1>4. PICK m \in T : \A k \in T : m <= k
  <2>1. T \in SUBSET Nat /\ T # {}
    BY <1>3
  <2> HIDE DEF T
  <2> QED BY <2>1, LeastNatural
<1>5. m # 1
  BY <1>2
<1>6. PICK i : i = m - 1
  OBVIOUS
<1>7. i \in 1 .. n /\ i + 1 = m /\ i \in Nat /\ i < m /\ i \in 1 .. n + 1
  BY <1>1, <1>5, <1>6
<1>8. Start(i) <= row /\ row < Start(i + 1)
  <2>1. i \notin T
    <3>1. m \in Nat
      OBVIOUS
    <3> HIDE DEF T
    <3> QED BY <1>4, <1>7, <3>1
  <2> QED BY <2>1, <1>2, <1>7
<1>9. RowIs(row, i, batch[i].start + (row - Start(i)))
  BY <1>7, <1>8, EntryOfRow
<1> QED BY <1>9 DEF RowIs

LEMMA RowOfPosition ==
  ASSUME BatchOK, NEW i \in 1 .. n, NEW p \in Nat, batch[i].start <= p,
         p < batch[i].start + batch[i].len
  PROVE  RowIs(Start(i) + (p - batch[i].start), i, p)
<1>1. n \in Nat /\ i \in 1 .. n + 1 /\ batch[i].start \in Nat /\ batch[i].len \in Nat
  BY EntryIs
<1>2. Start(i) \in Nat /\ Start(i + 1) = Start(i) + batch[i].len
  BY <1>1, StartsGrow
<1>3. PICK row : row = Start(i) + (p - batch[i].start)
  OBVIOUS
<1>4. row \in Nat /\ Start(i) <= row /\ row < Start(i + 1) /\ batch[i].start + (row - Start(i)) = p
  BY <1>1, <1>2, <1>3
<1>5. RowIs(row, i, p)
  BY <1>4, EntryOfRow
<1> QED BY <1>3, <1>5

\* The last row of entry i that is not rejected.
LastRow(i) == Start(i) + (Base(i) - batch[i].start)

LEMMA LastKept ==
  ASSUME BatchOK, NEW i \in 1 .. n
  PROVE  /\ RowIs(LastRow(i), i, Base(i))
         /\ Start(i) + batch[i].len - batch[i].rej - 1 = LastRow(i)
         /\ \A j \in 1 .. n : LastRow(i) = LastRow(j) => i = j
<1>1. /\ n \in Nat /\ i \in 1 .. n + 1 /\ batch[i].start \in Nat /\ batch[i].len \in Nat
      /\ batch[i].rej \in Nat
      /\ Base(i) = (batch[i].start + batch[i].len) - (batch[i].rej + 1)
      /\ Base(i) \in Nat /\ batch[i].start <= Base(i)
      /\ Base(i) + 1 <= batch[i].start + batch[i].len
  BY EntryIs
<1>2. Start(i) \in Nat
  BY <1>1, StartsGrow
<1>3. RowIs(LastRow(i), i, Base(i))
  BY <1>1, RowOfPosition DEF LastRow
<1>4. Start(i) + batch[i].len - batch[i].rej - 1 = LastRow(i)
  BY <1>1, <1>2 DEF LastRow
<1>5. ASSUME NEW j \in 1 .. n, LastRow(i) = LastRow(j) PROVE i = j
  <2>1. /\ batch[j].start \in Nat /\ Base(j) \in Nat /\ batch[j].start <= Base(j)
        /\ batch[j].len \in Nat /\ Base(j) + 1 <= batch[j].start + batch[j].len
    BY EntryIs
  <2>2. RowIs(LastRow(j), j, Base(j))
    BY <2>1, RowOfPosition DEF LastRow
  <2> QED BY <1>3, <1>5, <2>2 DEF RowIs
<1> QED BY <1>3, <1>4, <1>5

-----------------------------------------------------------------------------
(* Compacting: the place of a row among those that are kept.                 *)

Rank(S, x) == Cardinality({k \in S : k <= x})

LEMMA RankIs ==
  ASSUME NEW S \in SUBSET Nat, IsFiniteSet(S), NEW x \in S
  PROVE  /\ Rank(S, x) \in 1 .. Cardinality(S) /\ Cardinality(S) \in Nat
         /\ \A y \in S : x < y => Rank(S, x) < Rank(S, y)
         /\ x + 1 \in S => Rank(S, x + 1) = Rank(S, x) + 1
<1> DEFINE Upto(y) == {k \in S : k <= y}
<1>1. /\ Cardinality(S) \in Nat
      /\ \A y : IsFiniteSet(Upto(y)) /\ Cardinality(Upto(y)) \in Nat
                /\ Cardinality(Upto(y)) <= Cardinality(S)
  <2>1. \A y : Upto(y) \in SUBSET S
    OBVIOUS
  <2> HIDE DEF Upto
  <2> QED BY <2>1, FS_Subset, FS_CardinalityType
<1>2. Rank(S, x) >= 1
  <2>1. x \in Upto(x)
    OBVIOUS
  <2>2. Upto(x) # {}
    BY <2>1
  <2>3. Cardinality(Upto(x)) # 0
    <3> HIDE DEF Upto
    <3> QED BY <2>2, <1>1, FS_EmptySet
  <2>4. Rank(S, x) = Cardinality(Upto(x))
    BY DEF Rank
  <2> HIDE DEF Upto
  <2> QED BY <2>3, <2>4, <1>1
<1>3. ASSUME NEW y \in S, x < y PROVE Rank(S, x) < Rank(S, y)
  <2>0. \A k \in S : k \in Nat
    OBVIOUS
  <2>a. x \in Nat /\ y \in Nat
    BY <2>0
  <2>b. \A k \in S : k <= x => k <= y
    BY <2>0, <2>a, <1>3
  <2>c. y <= y /\ ~ (y <= x)
    BY <2>a, <1>3
  <2>1. Upto(x) \in SUBSET Upto(y) /\ y \in Upto(y) /\ y \notin Upto(x)
    BY <2>b, <2>c, Zenon
  <2>2. Cardinality(Upto(x)) <= Cardinality(Upto(y)) /\ Cardinality(Upto(x)) # Cardinality(Upto(y))
    <3> HIDE DEF Upto
    <3> QED BY <2>1, <1>1, FS_Subset
  <2>3. Rank(S, x) = Cardinality(Upto(x)) /\ Rank(S, y) = Cardinality(Upto(y))
    BY DEF Rank
  <2> HIDE DEF Upto
  <2> QED BY <2>2, <2>3, <1>1
<1>4. ASSUME x + 1 \in S PROVE Rank(S, x + 1) = Rank(S, x) + 1
  <2>0. \A k \in S : k \in Nat
    OBVIOUS
  <2>a. x \in Nat
    BY <2>0
  <2>b. \A k \in S : k <= x + 1 <=> (k <= x \/ k = x + 1)
    BY <2>0, <2>a
  <2>c. ~ (x + 1 <= x)
    BY <2>a
  <2>1. Upto(x + 1) = Upto(x) \cup {x + 1} /\ x + 1 \notin Upto(x)
    BY <2>b, <2>c, <1>4
  <2>2. Cardinality(Upto(x + 1)) = Cardinality(Upto(x)) + 1
    <3> HIDE DEF Upto
    <3> QED BY <2>1, <1>1, FS_AddElement
  <2>3. Rank(S, x) = Cardinality(Upto(x)) /\ Rank(S, x + 1) = Cardinality(Upto(x + 1))
    BY DEF Rank
  <2> HIDE DEF Upto
  <2> QED BY <2>2, <2>3
<1>5. Rank(S, x) \in Nat /\ Rank(S, x) <= Cardinality(S)
  <2>1. Rank(S, x) = Cardinality(Upto(x))
    BY DEF Rank
  <2> HIDE DEF Upto
  <2> QED BY <2>1, <1>1
<1> QED BY <1>1, <1>2, <1>3, <1>4, <1>5

LEMMA KeptIs ==
  ASSUME BatchOK
  PROVE  /\ Kept \subseteq 1 .. NumTokens /\ Kept \in SUBSET Nat /\ IsFiniteSet(Kept)
         /\ Cardinality(Kept) \in Nat /\ Cardinality(Kept) <= NumTokens
         /\ 1 .. Cardinality(Kept) \subseteq Rows
         /\ \A row, i, p : RowIs(row, i, p) /\ p <= Base(i) => row \in Kept
<1>1. Kept \subseteq 1 .. NumTokens
  BY DEF Kept
<1>2. NumTokens \in Nat /\ 1 .. NumTokens \subseteq Rows
  BY RowsFit
<1>3. IsFiniteSet(1 .. NumTokens) /\ Cardinality(1 .. NumTokens) = NumTokens
  BY <1>2, FS_Interval
<1>4. IsFiniteSet(Kept) /\ Cardinality(Kept) \in Nat /\ Cardinality(Kept) <= NumTokens
  BY <1>1, <1>3, FS_Subset, FS_CardinalityType
<1>5. ASSUME NEW row, NEW i, NEW p, RowIs(row, i, p), p <= Base(i) PROVE row \in Kept
  <2>1. row \in 1 .. NumTokens /\ At(row) <= Base(Entry(row))
    BY <1>5 DEF RowIs
  <2> QED BY <2>1 DEF Kept
<1>6. Kept \in SUBSET Nat /\ 1 .. Cardinality(Kept) \subseteq Rows
  BY <1>1, <1>2, <1>4
<1> QED BY <1>1, <1>4, <1>5, <1>6

LEMMA PlaceIs ==
  ASSUME BatchOK, NEW k \in Kept
  PROVE  /\ Place(k) \in 1 .. Cardinality(Kept) /\ Place(k) \in Rows
         /\ KeptRow(Place(k)) = k
         /\ \A j \in Kept : Place(j) = Place(k) => j = k
         /\ k + 1 \in Kept => /\ Place(k + 1) = Place(k) + 1
                              /\ Place(k) < Cardinality(Kept)
<1>1. /\ Kept \in SUBSET Nat /\ IsFiniteSet(Kept) /\ Cardinality(Kept) \in Nat
      /\ 1 .. Cardinality(Kept) \subseteq Rows
  BY KeptIs
<1>2. \A j : Place(j) = Rank(Kept, j)
  BY DEF Place, Rank
<1>3. \A j \in Kept : /\ Rank(Kept, j) \in 1 .. Cardinality(Kept)
                      /\ \A l \in Kept : j < l => Rank(Kept, j) < Rank(Kept, l)
                      /\ j + 1 \in Kept => Rank(Kept, j + 1) = Rank(Kept, j) + 1
  BY <1>1, RankIs
<1>4. ASSUME NEW j \in Kept, Place(j) = Place(k) PROVE j = k
  <2>1. Rank(Kept, j) = Rank(Kept, k) /\ Rank(Kept, j) \in Nat /\ j \in Nat /\ k \in Nat
    BY <1>1, <1>2, <1>3, <1>4
  <2>2. ~ (j < k) /\ ~ (k < j)
    BY <2>1, <1>3
  <2> QED BY <2>1, <2>2
<1>5. KeptRow(Place(k)) = CHOOSE row \in Kept : Place(row) = Place(k)
  BY DEF KeptRow, Place
<1>6. KeptRow(Place(k)) = k
  <2> HIDE DEF Kept, Place
  <2> QED BY <1>4, <1>5
<1>7. ASSUME k + 1 \in Kept PROVE Place(k + 1) = Place(k) + 1 /\ Place(k) < Cardinality(Kept)
  <2>1. Place(k + 1) = Place(k) + 1
    BY <1>2, <1>3, <1>7
  <2>2. Place(k + 1) \in 1 .. Cardinality(Kept) /\ Place(k) \in 1 .. Cardinality(Kept)
    BY <1>2, <1>3, <1>7
  <2> QED BY <2>1, <2>2, <1>1
<1>8. Place(k) \in 1 .. Cardinality(Kept)
  BY <1>2, <1>3
<1> QED BY <1>1, <1>4, <1>6, <1>7, <1>8

-----------------------------------------------------------------------------
(* The draft cache after the first pass.                                     *)

LEMMA WrittenIs ==
  ASSUME NEW W, NEW r \in Reqs, NEW p \in Positions
  PROVE  /\ DOMAIN Written(W) = Reqs
         /\ \A e : (\E w \in W : w[1] = r /\ w[2] = p)
                   /\ (\A w \in W : w[1] = r /\ w[2] = p => w[3] = e)
                   => Written(W)[r][p] = e
         /\ (\A w \in W : ~ (w[1] = r /\ w[2] = p)) => Written(W)[r][p] = kv[r][p]
<1>1. Written(W)[r][p] = IF \E w \in W : w[1] = r /\ w[2] = p
                         THEN (CHOOSE w \in W : w[1] = r /\ w[2] = p)[3] ELSE kv[r][p]
  BY DEF Written
<1>2. DOMAIN Written(W) = Reqs
  BY DEF Written
<1>3. ASSUME NEW e, \E w \in W : w[1] = r /\ w[2] = p,
             \A w \in W : w[1] = r /\ w[2] = p => w[3] = e
      PROVE  Written(W)[r][p] = e
  <2>1. PICK v : v = CHOOSE w \in W : w[1] = r /\ w[2] = p
    OBVIOUS
  <2>2. v \in W /\ v[1] = r /\ v[2] = p
    BY <1>3, <2>1
  <2>3. v[3] = e
    BY <1>3, <2>2
  <2> QED BY <1>1, <1>3, <2>1, <2>3
<1> QED BY <1>1, <1>2, <1>3

LEMMA RowIsOnly ==
  ASSUME BatchOK, NEW i, NEW p, NEW row, RowIs(row, i, p),
         NEW other \in 1 .. NumTokens, Request(Entry(other)) = Request(i), At(other) = p
  PROVE  other = row
<1>1. RowIs(other, Entry(other), p)
  BY RowHasEntry
<1>2. Entry(other) = i
  BY <1>1 DEF RowIs, BatchOK
<1>3. i \in 1 .. n /\ i \in 1 .. n + 1 /\ batch[i].start \in Nat
  BY EntryIs DEF RowIs
<1>4. Start(i) \in Nat
  BY <1>3, StartsGrow
<1>5. p = batch[i].start + (other - Start(i)) /\ p = batch[i].start + (row - Start(i))
      /\ other \in Nat /\ row \in Nat
  BY <1>1, <1>2 DEF RowIs
<1> QED BY <1>3, <1>4, <1>5

LEMMA FirstKvIs ==
  ASSUME BatchOK, NEW in, NEW S \in SUBSET (1 .. NumTokens)
  PROVE  /\ \A row \in S : \A i, p :
              RowIs(row, i, p) => FirstKv(in, S)[Request(i)][p] = FirstEntry(in, row)
         /\ \A r \in Reqs, p \in Positions :
              (\A i \in 1 .. n : Request(i) = r => p < batch[i].start)
              => FirstKv(in, S)[r][p] = kv[r][p]
<1>1. PICK W : W = {<<Request(Entry(i)), At(i), FirstEntry(in, i)>> : i \in S}
  OBVIOUS
<1>2. FirstKv(in, S) = Written(W)
  BY <1>1 DEF FirstKv
<1>3. ASSUME NEW row \in S, NEW i, NEW p, RowIs(row, i, p)
      PROVE  FirstKv(in, S)[Request(i)][p] = FirstEntry(in, row)
  <2>1. Entry(row) = i /\ At(row) = p /\ i \in 1 .. n /\ p \in Nat /\ p < MaxModelLen - 1
    BY <1>3 DEF RowIs
  <2>2. Request(i) \in Reqs /\ p \in Positions
    BY <2>1, EntryIs, Constants DEF Positions
  <2>3. <<Request(i), p, FirstEntry(in, row)>> \in W
    BY <1>1, <2>1
  <2>4. ASSUME NEW w \in W, w[1] = Request(i), w[2] = p PROVE w[3] = FirstEntry(in, row)
    <3>1. PICK other \in S : w = <<Request(Entry(other)), At(other), FirstEntry(in, other)>>
      BY <1>1
    <3>2. Request(Entry(other)) = Request(i) /\ At(other) = p /\ other \in 1 .. NumTokens
      BY <2>4, <3>1
    <3>3. other = row
      BY <1>3, <3>2, RowIsOnly
    <3> QED BY <3>1, <3>3
  <2>5. \E w \in W : w[1] = Request(i) /\ w[2] = p
    BY <2>3
  <2> QED BY <1>2, <2>2, <2>4, <2>5, WrittenIs
<1>4. ASSUME NEW r \in Reqs, NEW p \in Positions,
             \A i \in 1 .. n : Request(i) = r => p < batch[i].start
      PROVE  FirstKv(in, S)[r][p] = kv[r][p]
  <2>1. ASSUME NEW w \in W, w[1] = r, w[2] = p PROVE FALSE
    <3>1. PICK row \in S : w = <<Request(Entry(row)), At(row), FirstEntry(in, row)>>
      BY <1>1
    <3>2. RowIs(row, Entry(row), At(row))
      BY RowHasEntry
    <3>3. Request(Entry(row)) = r /\ At(row) = p
      BY <2>1, <3>1
    <3>4. Entry(row) \in 1 .. n /\ batch[Entry(row)].start <= p /\ p \in Nat
      BY <3>2, <3>3 DEF RowIs
    <3>5. batch[Entry(row)].start \in Nat
      BY <3>4, EntryIs
    <3> QED BY <1>4, <3>3, <3>4, <3>5
  <2> QED BY <1>2, <2>1, WrittenIs
<1> QED BY <1>3, <1>4

\* Rows S with inputs `in` give entry i what its tokens give.
Fed(in, S, i) ==
    \A row, p : RowIs(row, i, p) /\ p <= Base(i) =>
        /\ row \in S
        /\ in.ids[row] = Token(Request(i), p + 1) /\ in.hid[row] = Token(Request(i), p)
        /\ in.pos[row] = p

LEMMA FedEntry ==
  ASSUME NEW in, NEW S, NEW i, NEW row, NEW p, Fed(in, S, i), RowIs(row, i, p), p <= Base(i)
  PROVE  row \in S /\ FirstEntry(in, row) = "T"
<1>1. /\ row \in S
      /\ in.ids[row] = Token(Request(i), p + 1) /\ in.hid[row] = Token(Request(i), p)
      /\ in.pos[row] = p
  BY DEF Fed
<1>2. Entry(row) = i /\ At(row) = p
  BY DEF RowIs
<1> QED BY <1>1, <1>2 DEF FirstEntry

AllFed(in, S, M) == \A i \in 1 .. n : Request(i) \notin M => Fed(in, S, i)
\* But for the requests M, the cache agrees with the target.
InSync(cache, M) == \A r \in Reqs \ M : \A p \in 0 .. computed[r] - 1 : cache[r][p] = "T"

LEMMA FirstPassSync ==
  ASSUME Typed, BatchOK, Counted, Sync, phase = "target", NEW in, NEW S \in SUBSET (1 .. NumTokens),
         NEW M, missed \subseteq M, AllFed(in, S, M)
  PROVE  InSync(FirstKv(in, S), M)
<1>0. PICK cache : cache = FirstKv(in, S)
  OBVIOUS
<1> SUFFICES ASSUME NEW r \in Reqs \ M, NEW p \in 0 .. computed[r] - 1 PROVE cache[r][p] = "T"
  BY <1>0 DEF InSync
<1>1. /\ r \in Reqs /\ r \notin missed /\ p \in Nat /\ p < computed[r] /\ p \in Positions
  <2>1. /\ computed[r] \in Nat /\ known[r] \in Nat /\ computed[r] < known[r]
        /\ known[r] <= MaxModelLen /\ MaxModelLen \in Nat
    BY Constants DEF Typed
  <2> QED BY <2>1 DEF Positions
<1>2. CASE \E i \in 1 .. n : Request(i) = r /\ batch[i].start <= p
  <2>1. PICK i \in 1 .. n : Request(i) = r /\ batch[i].start <= p
    BY <1>2
  <2>2. /\ computed[r] = Base(i) + 1 /\ Base(i) \in Nat /\ batch[i].start \in Nat
        /\ batch[i].len \in Nat /\ Base(i) + 1 <= batch[i].start + batch[i].len
    BY <2>1, EntryIs DEF Counted
  <2>3. p <= Base(i) /\ p < batch[i].start + batch[i].len
    BY <1>1, <2>2
  <2>4. PICK row : RowIs(row, i, p)
    BY <1>1, <2>1, <2>3, RowOfPosition
  <2>5. row \in S /\ FirstEntry(in, row) = "T"
    BY <2>1, <2>3, <2>4, FedEntry DEF AllFed
  <2> QED BY <1>0, <2>1, <2>4, <2>5, FirstKvIs
<1>3. CASE ~ \E i \in 1 .. n : Request(i) = r /\ batch[i].start <= p
  <2>1. \A i \in 1 .. n : Request(i) = r => p < batch[i].start
    <3>1. \A i \in 1 .. n : batch[i].start \in Nat
      BY EntryIs
    <3> QED BY <3>1, <1>1, <1>3
  <2>2. kv[r][p] = "T"
    BY <1>1, <1>3 DEF Sync, InTarget
  <2> QED BY <1>0, <1>1, <2>1, <2>2, FirstKvIs
<1> QED BY <1>2, <1>3

\* The output of the last kept row of an entry that is in sync.
LEMMA FirstOutIs ==
  ASSUME BatchOK, Counted, phase = "target", NEW i \in 1 .. n, NEW cache, NEW M,
         InSync(cache, M), Request(i) \notin M, NEW row, RowIs(row, i, Base(i))
  PROVE  FirstOut(cache, row) = Hidden(Request(i), Base(i))
<1>1. computed[Request(i)] = Base(i) + 1 /\ Base(i) \in Nat
  BY EntryIs DEF Counted
<1>2. \A p \in 0 .. Base(i) : cache[Request(i)][p] = "T"
  BY <1>1, EntryIs DEF InSync
<1>3. Entry(row) = i /\ At(row) = Base(i)
  BY DEF RowIs
<1> QED BY <1>2, <1>3 DEF FirstOut

\* A token drawn from such an output.
LEMMA DrawnIs ==
  ASSUME NEW r, NEW p \in Nat
  PROVE  /\ SampledV1(Hidden(r, p)) = Draft(r, p + 2)
         /\ Sampled(Hidden(r, p), p + 1) = Draft(r, p + 2)
<1>1. Hidden(r, p) # Wrong /\ Hidden(r, p)[1] = r /\ Hidden(r, p)[2] = p
  BY DEF Hidden, Wrong
<1> QED BY <1>1 DEF SampledV1, Sampled

-----------------------------------------------------------------------------
(* Inputs of the first pass.                                                 *)

LEMMA RowBelow ==
  ASSUME BatchOK, NEW i, NEW p, NEW row, RowIs(row, i, p)
  PROVE  /\ i \in 1 .. n /\ p \in Nat /\ row \in Nat /\ Base(i) \in Nat /\ LastRow(i) \in Nat
         /\ p <= Base(i) <=> row <= LastRow(i)
         /\ p = Base(i) <=> row = LastRow(i)
         /\ p + 1 <= Base(i) => RowIs(row + 1, i, p + 1)
<1>1. /\ i \in 1 .. n /\ i \in 1 .. n + 1 /\ p \in Nat /\ row \in Nat
      /\ p = batch[i].start + (row - Start(i)) /\ batch[i].start <= p
  BY EntryIs DEF RowIs
<1>2. /\ batch[i].start \in Nat /\ batch[i].len \in Nat /\ Base(i) \in Nat
      /\ batch[i].start <= Base(i) /\ Base(i) + 1 <= batch[i].start + batch[i].len
  BY <1>1, EntryIs
<1>3. Start(i) \in Nat
  BY <1>1, StartsGrow
<1>4. LastRow(i) = Start(i) + (Base(i) - batch[i].start)
  BY DEF LastRow
<1>5. ASSUME p + 1 <= Base(i) PROVE RowIs(row + 1, i, p + 1)
  <2>1. p + 1 \in Nat /\ batch[i].start <= p + 1 /\ p + 1 < batch[i].start + batch[i].len
    BY <1>1, <1>2, <1>5
  <2>2. RowIs(Start(i) + ((p + 1) - batch[i].start), i, p + 1)
    BY <1>1, <2>1, RowOfPosition
  <2>3. Start(i) + ((p + 1) - batch[i].start) = row + 1
    BY <1>1, <1>2, <1>3
  <2> QED BY <2>2, <2>3
<1> QED BY <1>1, <1>2, <1>3, <1>4, <1>5

LEMMA TargetIdIs ==
  ASSUME NEW i, NEW p, NEW row, RowIs(row, i, p), p <= Base(i)
  PROVE  TargetId(row) = Token(Request(i), p) /\ TargetHidden(row) = Token(Request(i), p)
<1>1. Entry(row) = i /\ At(row) = p
  BY DEF RowIs
<1> QED BY <1>1 DEF TargetId, TargetHidden

PrefillInputs(inputs) == [ids |-> inputs.ids, pos |-> inputs.pos, hid |-> HiddenCopied]

LEMMA PrefillFed ==
  ASSUME BatchOK, NEW i \in 1 .. n, NEW inputs, inputs = prepare_prefill_inputs
  PROVE  Fed(PrefillInputs(inputs), 1 .. NumTokens, i) /\ inputs.last[i] = LastRow(i)
<1>0. PICK last : last = [k \in 1 .. n |-> Start(k) + batch[k].len - batch[k].rej - 1]
  OBVIOUS
<1>1. \A k \in 1 .. n : last[k] = LastRow(k)
  BY <1>0, LastKept
<1>2. inputs.last = last
  BY <1>0 DEF prepare_prefill_inputs
<1>3. ASSUME NEW row, NEW p, RowIs(row, i, p), p <= Base(i)
      PROVE  /\ inputs.ids[row] = Token(Request(i), p + 1) /\ inputs.pos[row] = p
             /\ HiddenCopied[row] = Token(Request(i), p)
  <2>1. /\ row \in 1 .. NumTokens /\ row \in Rows /\ Entry(row) = i /\ At(row) = p /\ row <= NumTokens
        /\ p \in Nat /\ Base(i) \in Nat
    BY <1>3, RowBelow, RowsFit DEF RowIs
  <2>2. row <= last[Entry(row)]
    <3>1. row <= LastRow(i)
      BY <1>3, RowBelow
    <3> QED BY <1>1, <2>1, <3>1
  <2>3. inputs.pos[row] = p
    BY <1>0, <2>1, <2>2 DEF prepare_prefill_inputs
  <2>4. HiddenCopied[row] = Token(Request(i), p)
    BY <1>3, <2>1, TargetIdIs DEF HiddenCopied
  <2>5. inputs.ids[row] = IF row = last[i] THEN Token(Request(i), Base(i) + 1) ELSE TargetId(row + 1)
    BY <1>0, <2>1, <2>2 DEF prepare_prefill_inputs
  <2>6. CASE row = last[i]
    <3>1. p = Base(i)
      BY <1>1, <1>3, <2>6, RowBelow
    <3> QED BY <2>3, <2>4, <2>5, <2>6, <3>1
  <2>7. CASE row # last[i]
    <3>1. p # Base(i)
      BY <1>1, <1>3, <2>7, RowBelow
    <3>2. p + 1 <= Base(i)
      BY <3>1, <2>1, <1>3
    <3>3. RowIs(row + 1, i, p + 1)
      BY <1>3, <3>2, RowBelow
    <3>4. TargetId(row + 1) = Token(Request(i), p + 1)
      BY <3>2, <3>3, TargetIdIs
    <3> QED BY <2>3, <2>4, <2>5, <2>7, <3>4
  <2> QED BY <2>6, <2>7
<1>4. ASSUME NEW row, NEW p, RowIs(row, i, p), p <= Base(i) PROVE row \in 1 .. NumTokens
  BY <1>4 DEF RowIs
<1>5. Fed(PrefillInputs(inputs), 1 .. NumTokens, i)
  BY <1>3, <1>4 DEF Fed, PrefillInputs
<1> QED BY <1>1, <1>2, <1>5

LEMMA LogitsIs ==
  ASSUME Typed, BatchOK, NEW j \in 1 .. K, NEW token
  PROVE  /\ \A r \in Reqs : DOMAIN LogitsOf(j, token)[r] = 1 .. K
         /\ \A i \in 1 .. n : /\ LogitsOf(j, token)[Request(i)][j] = token[i]
                              /\ \A l \in 1 .. K : l # j =>
                                   LogitsOf(j, token)[Request(i)][l] = logits[Request(i)][l]
<1>1. \A r \in Reqs : DOMAIN logits[r] = 1 .. K
  BY DEF Typed
<1>2. \A r \in Reqs :
        LogitsOf(j, token)[r] =
            IF \E i \in 1 .. n : Request(i) = r
            THEN [logits[r] EXCEPT ![j] = token[CHOOSE i \in 1 .. n : Request(i) = r]]
            ELSE logits[r]
  BY DEF LogitsOf
<1>3. ASSUME NEW i \in 1 .. n
      PROVE  Request(i) \in Reqs /\ (CHOOSE k \in 1 .. n : Request(k) = Request(i)) = i
  <2>1. \A k \in 1 .. n : Request(k) = Request(i) => k = i
    BY DEF BatchOK
  <2> QED BY <2>1, EntryIs
<1>4. \A i \in 1 .. n : LogitsOf(j, token)[Request(i)] = [logits[Request(i)] EXCEPT ![j] = token[i]]
  BY <1>2, <1>3
<1>5. \A r \in Reqs : DOMAIN LogitsOf(j, token)[r] = 1 .. K
  BY <1>1, <1>2
<1>6. ASSUME NEW i \in 1 .. n
      PROVE  /\ LogitsOf(j, token)[Request(i)][j] = token[i]
             /\ \A l \in 1 .. K : l # j =>
                  LogitsOf(j, token)[Request(i)][l] = logits[Request(i)][l]
  <2>1. PICK x : x = logits[Request(i)]
    OBVIOUS
  <2>2. DOMAIN x = 1 .. K
    BY <1>1, <1>3, <2>1
  <2>3. PICK y : y = [x EXCEPT ![j] = token[i]]
    OBVIOUS
  <2>4. y[j] = token[i] /\ \A l \in 1 .. K : l # j => y[l] = x[l]
    BY <2>2, <2>3
  <2>5. LogitsOf(j, token)[Request(i)] = y
    BY <1>4, <2>1, <2>3
  <2> QED BY <2>1, <2>4, <2>5
<1> QED BY <1>5, <1>6

-----------------------------------------------------------------------------
(* Steps.                                                                    *)

LEMMA SameBatch ==
  ASSUME UNCHANGED batch
  PROVE  n' = n /\ \A i : Request(i)' = Request(i) /\ Base(i)' = Base(i)
BY DEF n, Request, Base

LEMMA BatchKept ==
  ASSUME BatchOK, Counted, UNCHANGED <<batch, computed>>, phase # "idle" \/ phase' = "idle"
  PROVE  BatchOK' /\ Counted'
<1>1. n' = n /\ \A i : Request(i)' = Request(i) /\ Base(i)' = Base(i)
  BY SameBatch
<1>2. BatchOK'
  BY <1>1 DEF BatchOK
<1>3. Counted'
  BY <1>1 DEF Counted
<1> QED BY <1>2, <1>3

\* The types that a pass may disturb.
Shapes ==
    /\ DOMAIN kv = Reqs /\ phase \in Phases
    /\ \A i \in 1 .. NumReqs : DOMAIN drafts[i] = 1 .. K
    /\ \A r \in Reqs : DOMAIN logits[r] = 1 .. K
    /\ goal \in 0 .. K /\ made \in 0 .. K

LEMMA TypedKept ==
  ASSUME Typed, UNCHANGED engine, Shapes'
  PROVE  Typed'
BY DEF Typed, Shapes, engine

LEMMA PrefillInv ==
  ASSUME IInv, Prefill
  PROVE  IInv'
<1>0. /\ Typed /\ BatchOK /\ Counted /\ Sync /\ Drawn /\ Passes
      /\ impl = "v2" /\ phase = "target" /\ made' = 1 /\ goal = K
      /\ phase' = IF K = 1 THEN "drafted" ELSE "prepare"
      /\ seq' = [i \in 1 .. NumReqs |-> IF i <= n THEN batch[i].start + batch[i].len ELSE 0]
      /\ UNCHANGED <<engine, batch, goal, missed>>
  BY DEF IInv, Prefill, Passes
<1> DEFINE inputs == prepare_prefill_inputs
           in == [ids |-> inputs.ids, pos |-> inputs.pos, hid |-> HiddenCopied]
           cache == FirstKv(in, 1 .. NumTokens)
           out == [i \in 1 .. n |-> FirstOut(cache, inputs.last[i])]
           key == [i \in 1 .. n |-> in.pos[inputs.last[i]] + 1]
           token == [i \in 1 .. n |-> Sampled(out[i], key[i])]
           place == [i \in 1 .. NumTokens |-> Hidden(Request(Entry(i)), At(i))]
           from(i) == IF i <= n THEN inputs.last[i] ELSE 1
<1>7. PICK padded \in n .. NumReqs :
        /\ kv' = cache
        /\ drafts' = [i \in 1 .. NumReqs |->
                        IF i <= n THEN [drafts[i] EXCEPT ![1] = token[i]]
                        ELSE IF i <= padded THEN [drafts[i] EXCEPT ![1] = Wrong]
                        ELSE drafts[i]]
        /\ logits' = LogitsOf(1, token)
        /\ hid' = [row \in Rows |-> IF row <= n THEN out[row]
                                    ELSE IF row <= padded THEN Wrong ELSE in.hid[row]]
        /\ pos' = [row \in Rows |-> IF row <= padded THEN in.pos[from(row)] ELSE in.pos[row]]
        /\ skey' = [i \in 1 .. NumReqs |-> IF i <= padded THEN in.pos[from(i)] + 1 ELSE skey[i]]
        /\ topk' = IF K > 1 THEN Compacted(place, inputs.last) ELSE topk
  BY Zenon DEF Prefill
<1>1. inputs = prepare_prefill_inputs
  OBVIOUS
<1>2. in = PrefillInputs(inputs)
  BY DEF PrefillInputs
<1>3. cache = FirstKv(in, 1 .. NumTokens)
  OBVIOUS
<1>4. out = [i \in 1 .. n |-> FirstOut(cache, inputs.last[i])]
  OBVIOUS
<1>5. \A i \in 1 .. n : token[i] = Sampled(out[i], in.pos[inputs.last[i]] + 1)
  OBVIOUS
<1>6. place = [i \in 1 .. NumTokens |-> Hidden(Request(Entry(i)), At(i))]
  OBVIOUS
<1>b. \A i \in 1 .. n : i <= n => from(i) = inputs.last[i]
  OBVIOUS
<1> HIDE DEF inputs, in, cache, out, key, token, place, from
<1>8. n \in Nat /\ n <= NumReqs /\ K \in Nat /\ K > 0 /\ NumReqs \in Nat /\ padded \in Nat /\ n <= padded
  BY <1>0, EntryIs, Constants
<1>9. \A i \in 1 .. n : i \in Rows /\ i \in 1 .. NumReqs /\ i <= n /\ i <= padded
  BY <1>0, <1>8, RowsFit
<1>10. \A i \in 1 .. n : Fed(in, 1 .. NumTokens, i) /\ inputs.last[i] = LastRow(i)
  BY <1>0, <1>1, <1>2, PrefillFed
<1>11. \A i \in 1 .. n : RowIs(LastRow(i), i, Base(i)) /\ Base(i) \in Nat /\ Request(i) \in Reqs
  BY <1>0, LastKept, EntryIs
<1>12. InSync(cache, missed)
  <2>1. PICK S : S = 1 .. NumTokens
    OBVIOUS
  <2>2. AllFed(in, S, missed)
    BY <1>10, <2>1 DEF AllFed
  <2>3. InSync(FirstKv(in, S), missed)
    BY <1>0, <2>1, <2>2, FirstPassSync
  <2> QED BY <1>3, <2>1, <2>3
<1>13. \A i \in 1 .. n : in.pos[inputs.last[i]] = Base(i)
  BY <1>10, <1>11 DEF Fed
<1>14. ASSUME NEW i \in 1 .. n, Request(i) \notin missed
       PROVE  out[i] = Hidden(Request(i), Base(i)) /\ token[i] = Draft(Request(i), Base(i) + 2)
  <2>1. FirstOut(cache, LastRow(i)) = Hidden(Request(i), Base(i))
    BY <1>0, <1>11, <1>12, <1>14, FirstOutIs
  <2>2. out[i] = Hidden(Request(i), Base(i))
    BY <2>1, <1>4, <1>10
  <2>3. token[i] = Sampled(out[i], Base(i) + 1)
    BY <1>5, <1>13
  <2> QED BY <2>2, <2>3, <1>11, DrawnIs
<1>15. n' = n /\ \A i : Request(i)' = Request(i) /\ Base(i)' = Base(i)
  BY <1>0, SameBatch
<1>16. BatchOK' /\ Counted'
  BY <1>0, BatchKept DEF engine
<1>17. Typed'
  <2>1. DOMAIN kv' = Reqs
    BY <1>3, <1>7 DEF FirstKv, Written
  <2>2. \A i \in 1 .. NumReqs : DOMAIN drafts'[i] = 1 .. K
    BY <1>0, <1>7, <1>8 DEF Typed
  <2>3. \A r \in Reqs : DOMAIN logits'[r] = 1 .. K
    BY <1>0, <1>7, <1>8, LogitsIs
  <2>4. NumReqs' = NumReqs /\ goal' \in 0 .. K /\ made' \in 0 .. K /\ phase' \in Phases
    BY <1>0, <1>8 DEF Typed, Phases
  <2>5. Shapes'
    BY <2>1, <2>2, <2>3, <2>4 DEF Shapes
  <2> QED BY <1>0, <2>5, TypedKept
<1>18. Sync'
  BY <1>0, <1>7, <1>12 DEF Sync, InSync, engine
<1>19. Drawn'
  <2>1. ASSUME NEW i \in 1 .. n
        PROVE  drafts'[i][1] = token[i] /\ logits'[Request(i)][1] = drafts'[i][1]
    <3>1. i <= n /\ i \in 1 .. NumReqs /\ DOMAIN drafts[i] = 1 .. K /\ 1 \in 1 .. K
      BY <1>0, <1>8, <1>9 DEF Typed
    <3>2. drafts'[i] = [drafts[i] EXCEPT ![1] = token[i]]
      BY <1>7, <3>1
    <3>3. drafts'[i][1] = token[i]
      BY <3>1, <3>2
    <3>4. logits'[Request(i)][1] = token[i]
      BY <1>0, <1>7, <3>1, LogitsIs
    <3> QED BY <3>3, <3>4
  <2>2. ASSUME NEW i \in 1 .. n, Request(i) \notin missed PROVE Follows(i, 1)'
    <3>1. drafts'[i][1] = Draft(Request(i), Base(i) + 2) /\ Base(i) + 2 = (Base(i) + 1) + 1
      BY <1>11, <1>14, <2>1, <2>2
    <3> QED BY <3>1, <1>15 DEF Follows
  <2>3. \A j \in 1 .. made' : j = 1
    BY <1>0
  <2> QED BY <1>0, <1>15, <2>1, <2>2, <2>3 DEF Drawn, KeepsLogits
<1>20. Passes'
  BY <1>0, <1>8 DEF Passes, engine
<1>21. Prepared'
  <2> SUFFICES ASSUME phase' = "prepare", NEW i \in 1 .. n, Request(i) \notin missed
               PROVE  Primed(i)'
    BY <1>0, <1>15 DEF Prepared
  <2>1. K > 1
    BY <1>0, <1>8
  <2>2. i \in Rows /\ i \in 1 .. NumReqs /\ i <= n /\ i <= padded
    BY <1>9
  <2>3. seq'[i] = batch[i].start + batch[i].len /\ hid'[i] = out[i]
    BY <1>0, <1>7, <2>2
  <2>4. pos'[i] = in.pos[inputs.last[i]] /\ skey'[i] = in.pos[inputs.last[i]] + 1
    BY <1>7, <1>b, <2>2
  <2>5. topk'[i] = Hidden(Request(i), Base(i))
    <3>1. topk'[i] = place[LastRow(i)]
      BY <1>7, <1>10, <2>1, <2>2 DEF Compacted
    <3>2. LastRow(i) \in 1 .. NumTokens /\ Entry(LastRow(i)) = i /\ At(LastRow(i)) = Base(i)
      BY <1>11 DEF RowIs
    <3> QED BY <3>1, <3>2, <1>6
  <2> QED BY <1>0, <1>13, <1>14, <1>15, <2>3, <2>4, <2>5 DEF Primed
<1>22. Drafting'
  BY <1>0 DEF Drafting
<1> QED BY <1>16, <1>17, <1>18, <1>19, <1>20, <1>21, <1>22 DEF IInv

LEMMA SmallerIs ==
  ASSUME NEW a \in Int, NEW b \in Int
  PROVE  (a <= b => Smaller(a, b) = a) /\ (b <= a => Smaller(a, b) = b)
BY DEF Smaller

\* A request's further positions are those after its last verified one.
LEMMA Lengths ==
  ASSUME IInv, NEW i \in 1 .. n
  PROVE  /\ Base(i) \in Nat /\ MaxModelLen \in Nat /\ K \in Nat /\ K > 0 /\ made \in Nat
         /\ goal \in Nat /\ goal <= K
         /\ Base(i) + 1 < MaxModelLen /\ Request(i) \in Reqs /\ i \in Rows /\ i \in 1 .. NumReqs
         /\ n \in Nat /\ i \in Nat /\ i <= n
         /\ batch[i].start \in Nat /\ batch[i].len \in Nat /\ batch[i].rej \in Nat
         /\ Base(i) = (batch[i].start + batch[i].len) - (batch[i].rej + 1)
         /\ phase # "idle" => computed[Request(i)] = Base(i) + 1
<1>1. BatchOK /\ Typed /\ Counted
  BY DEF IInv
<1>2. goal \in 0 .. K /\ made \in 0 .. K
  BY <1>1 DEF Typed
<1>3. n \in Nat /\ i \in Rows /\ i \in 1 .. NumReqs
  BY <1>1, EntryIs, RowsFit
<1>4. /\ Base(i) \in Nat /\ Base(i) + 1 <= batch[i].start + batch[i].len
      /\ batch[i].start + batch[i].len < MaxModelLen /\ Request(i) \in Reqs
      /\ batch[i].start \in Nat /\ batch[i].len \in Nat /\ batch[i].rej \in Nat
      /\ Base(i) = (batch[i].start + batch[i].len) - (batch[i].rej + 1)
  BY <1>1, EntryIs
<1>5. Base(i) + 1 < MaxModelLen /\ goal <= K
  BY <1>2, <1>4, Constants
<1>6. phase # "idle" => computed[Request(i)] = Base(i) + 1
  BY <1>1 DEF Counted
<1> QED BY <1>2, <1>3, <1>4, <1>5, <1>6, Constants

LEMMA PrepareDecodeInv ==
  ASSUME IInv, PrepareDecode
  PROVE  IInv'
<1>0. /\ Typed /\ BatchOK /\ Counted /\ Sync /\ Drawn /\ Passes /\ Prepared
      /\ impl = "v2" /\ phase = "prepare" /\ phase' = "drafting" /\ made = 1 /\ goal = K /\ K > 1
      /\ UNCHANGED <<engine, batch, goal, made, kv, hid, step, topk, drafts, logits, missed>>
  BY DEF IInv, PrepareDecode, Passes
<1>1. n' = n /\ \A i : Request(i)' = Request(i) /\ Base(i)' = Base(i)
  BY <1>0, SameBatch
<1>2. BatchOK' /\ Counted'
  BY <1>0, BatchKept DEF engine
<1>3. Typed'
  <2>1. Shapes'
    BY <1>0 DEF Shapes, Typed, Phases, NumReqs
  <2> QED BY <1>0, <2>1, TypedKept
<1>4. Sync'
  BY <1>0 DEF Sync, InTarget, engine
<1>5. Drawn'
  BY <1>0, <1>1 DEF Drawn, Follows, KeepsLogits, engine
<1>6. Passes'
  BY <1>0, Constants DEF Passes, engine
<1>7. Prepared'
  BY <1>0 DEF Prepared
<1>8. ASSUME NEW i \in 1 .. n, Request(i) \notin missed
      PROVE  Lined(i, Base(i) + made)'
  <2>1. /\ Base(i) \in Nat /\ MaxModelLen \in Nat /\ Base(i) + 1 < MaxModelLen
        /\ i \in Rows /\ i \in 1 .. NumReqs /\ i <= n
        /\ batch[i].start \in Nat /\ batch[i].len \in Nat /\ batch[i].rej \in Nat
        /\ Base(i) = (batch[i].start + batch[i].len) - (batch[i].rej + 1)
    BY Lengths
  <2>2. /\ seq[i] = batch[i].start + batch[i].len /\ pos[i] = Base(i) /\ skey[i] = Base(i) + 1
        /\ hid[i] = Hidden(Request(i), Base(i)) /\ topk[i] = Hidden(Request(i), Base(i))
    BY <1>0, <1>8 DEF Prepared, Primed
  <2>3. pos'[i] = Advanced(pos[i]) /\ skey'[i] = skey[i] + 1 /\ ids'[i] = drafts[i][1]
        /\ seq'[i] = prepare_decode_inputs(i)
    BY <2>1 DEF PrepareDecode
  <2>4. pos'[i] = Smaller(Base(i) + 1, MaxModelLen - 1)
    BY <2>2, <2>3 DEF Advanced
  <2>5. seq'[i] = Base(i) + 2
    <3>1. seq[i] - batch[i].rej + 1 = Base(i) + 2 /\ Base(i) + 2 <= MaxModelLen
      BY <2>1, <2>2
    <3> QED BY <2>1, <2>3, <3>1, SmallerIs DEF prepare_decode_inputs
  <2>6. ids'[i] = Draft(Request(i), Base(i) + 2)
    <3>1. Follows(i, 1)
      <4>1. 1 \in 1 .. made /\ 1 <= goal
        BY <1>0, Lengths
      <4> QED BY <1>0, <1>8, <4>1 DEF Drawn
    <3>2. Base(i) + 1 <= MaxModelLen /\ (Base(i) + 1) + 1 = Base(i) + 2
      BY <2>1
    <3> QED BY <2>3, <3>1, <3>2 DEF Follows
  <2>7. PICK at : at = Base(i) + 1
    OBVIOUS
  <2>8. at \in Nat /\ at + 1 = Base(i) + 2 /\ at - 1 = Base(i) /\ ~ (Base(i) + 1 <= at - 1)
    BY <2>1, <2>7
  <2>9. InputsV2(i, at)'
    BY <2>1, <2>2, <2>3, <2>4, <2>5, <2>6, <2>7, <2>8, <1>1 DEF InputsV2
  <2>10. Behind(i, at)'
    <3>1. \A q \in Base(i) + 1 .. at - 1 : FALSE
      BY <2>1, <2>7
    <3>2. hid'[i] = Hidden(Request(i), at - 1) /\ topk'[i] = Hidden(Request(i), Base(i))
      BY <1>0, <2>2, <2>8
    <3> QED BY <1>0, <1>1, <3>1, <3>2 DEF Behind
  <2>11. Lined(i, at)'
    BY <1>0, <2>9, <2>10 DEF Lined, engine
  <2>12. (Base(i) + made)' = at
    BY <1>0, <1>1, <2>7
  <2> QED BY <2>11, <2>12 DEF Lined, InputsV1, InputsV2, Behind
<1>9. Drafting'
  BY <1>0, <1>1, <1>8 DEF Drafting
<1> QED BY <1>2, <1>3, <1>4, <1>5, <1>6, <1>7, <1>9 DEF IInv

-----------------------------------------------------------------------------
(* Further passes: what they write, put out and draw.                        *)

NextKv(at, entry, I) == Written({<<Request(i), at[i], entry[i]>> : i \in I})

LEMMA NextKvIs ==
  ASSUME BatchOK, NEW at, NEW entry, NEW I \in SUBSET (1 .. n), NEW p \in Positions
  PROVE  /\ DOMAIN NextKv(at, entry, I) = Reqs
         /\ \A i \in I : at[i] = p => NextKv(at, entry, I)[Request(i)][p] = entry[i]
         /\ \A r \in Reqs : (\A i \in I : Request(i) = r => at[i] # p)
                            => NextKv(at, entry, I)[r][p] = kv[r][p]
<1>1. PICK W : W = {<<Request(i), at[i], entry[i]>> : i \in I}
  OBVIOUS
<1>2. NextKv(at, entry, I) = Written(W)
  BY <1>1 DEF NextKv
<1>3. ASSUME NEW i \in I, at[i] = p PROVE Written(W)[Request(i)][p] = entry[i]
  <2>1. <<Request(i), p, entry[i]>> \in W
    BY <1>1, <1>3
  <2>2. Request(i) \in Reqs /\ i \in 1 .. n
    BY EntryIs
  <2>3. ASSUME NEW w \in W, w[1] = Request(i), w[2] = p PROVE w[3] = entry[i]
    <3>1. PICK j \in I : w = <<Request(j), at[j], entry[j]>>
      BY <1>1
    <3>2. Request(j) = Request(i) /\ j \in 1 .. n /\ w[3] = entry[j]
      BY <2>3, <3>1
    <3>3. j = i
      BY <2>2, <3>2 DEF BatchOK
    <3> QED BY <3>2, <3>3
  <2>4. \E w \in W : w[1] = Request(i) /\ w[2] = p
    BY <2>1
  <2> QED BY <2>2, <2>3, <2>4, WrittenIs
<1>4. ASSUME NEW r \in Reqs, \A i \in I : Request(i) = r => at[i] # p
      PROVE  Written(W)[r][p] = kv[r][p]
  <2>1. ASSUME NEW w \in W, w[1] = r, w[2] = p PROVE FALSE
    <3>1. PICK j \in I : w = <<Request(j), at[j], entry[j]>>
      BY <1>1
    <3>2. Request(j) = r /\ at[j] = p
      BY <2>1, <3>1
    <3> QED BY <1>4, <3>2
  <2> QED BY <2>1, WrittenIs
<1>5. DOMAIN Written(W) = Reqs
  BY DEF Written
<1> QED BY <1>2, <1>3, <1>4, <1>5

\* The entries that are written are beyond what is verified.
Beyond(at, I) == \A i \in I : Request(i) \notin missed => at[i] > Base(i)

LEMMA NextSync ==
  ASSUME IInv, phase = "drafting", NEW at, NEW entry, NEW I \in SUBSET (1 .. n), Beyond(at, I)
  PROVE  InSync(NextKv(at, entry, I), missed)
<1> SUFFICES ASSUME NEW r \in Reqs \ missed, NEW p \in 0 .. computed[r] - 1
             PROVE  NextKv(at, entry, I)[r][p] = "T"
  BY DEF InSync
<1>1. BatchOK /\ Typed /\ Sync
  BY DEF IInv
<1>2. p \in Nat /\ p \in Positions /\ p < computed[r] /\ r \in Reqs
  <2>1. /\ computed[r] \in Nat /\ known[r] \in Nat /\ computed[r] < known[r]
        /\ known[r] <= MaxModelLen /\ MaxModelLen \in Nat
    BY <1>1, Constants DEF Typed
  <2> QED BY <2>1 DEF Positions
<1>3. kv[r][p] = "T"
  BY <1>1 DEF Sync, InTarget
<1>4. ASSUME NEW i \in I, Request(i) = r PROVE at[i] # p
  <2>1. i \in 1 .. n /\ at[i] > Base(i)
    BY <1>4 DEF Beyond
  <2>2. Base(i) \in Nat /\ computed[r] = Base(i) + 1
    BY <1>4, <2>1, Lengths
  <2>3. p <= Base(i)
    BY <1>2, <2>2
  <2> QED BY <2>1, <2>2, <2>3, <1>2
<1> QED BY <1>1, <1>2, <1>3, <1>4, NextKvIs

LEMMA NextOutIs ==
  ASSUME IInv, phase = "drafting", NEW i \in 1 .. n, Request(i) \notin missed,
         NEW cache, InSync(cache, missed), NEW at \in Nat, at = Base(i) + made,
         topk[i] = Hidden(Request(i), Base(i)),
         \A q \in Base(i) + 1 .. at : cache[Request(i)][q] = "D"
  PROVE  NextOut(cache, i, at, "D", at + 1) = Hidden(Request(i), at)
<1>1. computed[Request(i)] = Base(i) + 1 /\ Base(i) \in Nat /\ Request(i) \in Reqs
  BY Lengths
<1>2. \A q \in 0 .. Base(i) : cache[Request(i)][q] = "T"
  BY <1>1 DEF InSync
<1> QED BY <1>2 DEF NextOut

DraftsOf(j, token) ==
    [i \in 1 .. NumReqs |-> IF i <= n THEN [drafts[i] EXCEPT ![j] = token[i]] ELSE drafts[i]]

LEMMA DraftsOfIs ==
  ASSUME Typed, BatchOK, NEW j \in 1 .. K, NEW token
  PROVE  /\ \A i \in 1 .. NumReqs : DOMAIN DraftsOf(j, token)[i] = 1 .. K
         /\ \A i \in 1 .. n : /\ DraftsOf(j, token)[i][j] = token[i]
                              /\ \A l \in 1 .. K : l # j => DraftsOf(j, token)[i][l] = drafts[i][l]
<1>1. \A i \in 1 .. NumReqs : DOMAIN drafts[i] = 1 .. K
  BY DEF Typed
<1>2. \A i \in 1 .. NumReqs :
        DraftsOf(j, token)[i] = IF i <= n THEN [drafts[i] EXCEPT ![j] = token[i]] ELSE drafts[i]
  BY DEF DraftsOf
<1>3. ASSUME NEW i \in 1 .. n
      PROVE  /\ DraftsOf(j, token)[i][j] = token[i]
             /\ \A l \in 1 .. K : l # j => DraftsOf(j, token)[i][l] = drafts[i][l]
  <2>1. i \in 1 .. NumReqs /\ i <= n
    BY EntryIs, RowsFit
  <2>2. PICK x : x = drafts[i]
    OBVIOUS
  <2>3. DOMAIN x = 1 .. K
    BY <1>1, <2>1, <2>2
  <2>4. PICK y : y = [x EXCEPT ![j] = token[i]]
    OBVIOUS
  <2>5. y[j] = token[i] /\ \A l \in 1 .. K : l # j => y[l] = x[l]
    BY <2>3, <2>4
  <2>6. DraftsOf(j, token)[i] = y
    BY <1>2, <2>1, <2>2, <2>4
  <2> QED BY <2>2, <2>5, <2>6
<1> QED BY <1>1, <1>2, <1>3

\* A further pass draws the next token of every entry within the model's length.
Draws(token) ==
    \A i \in 1 .. n : Request(i) \notin missed /\ Base(i) + made < MaxModelLen =>
        token[i] = Draft(Request(i), (Base(i) + made) + 2)

LEMMA PassDrawn ==
  ASSUME IInv, phase = "drafting", UNCHANGED <<impl, batch, goal, missed>>, made' = made + 1,
         NEW token, Draws(token), drafts' = DraftsOf(made + 1, token),
         impl = "v2" => logits' = LogitsOf(made + 1, token)
  PROVE  Drawn'
<1>1. Typed /\ BatchOK /\ Drawn /\ Passes
  BY DEF IInv
<1>2. /\ made \in Nat /\ K \in Nat /\ goal <= K /\ goal \in Nat /\ made >= 1 /\ made + 1 <= goal
      /\ made + 1 \in 1 .. K
  <2>1. goal \in 0 .. K /\ made \in 1 .. goal - 1
    BY <1>1 DEF Typed, Passes
  <2> QED BY <2>1, Constants
<1>3. n' = n /\ \A i : Request(i)' = Request(i) /\ Base(i)' = Base(i)
  BY SameBatch
<1>4. ASSUME NEW i \in 1 .. n, NEW j \in 1 .. made + 1, j <= goal
      PROVE  /\ (Request(i) \notin missed => Follows(i, j))'
             /\ KeepsLogits(i, j)'
  <2>1. Base(i) \in Nat /\ MaxModelLen \in Nat /\ Request(i) \in Reqs
    BY Lengths
  <2>2. j \in 1 .. K /\ j \in Nat
    BY <1>2
  <2>3. CASE j = made + 1
    <3>1. drafts'[i][j] = token[i]
      BY <1>1, <1>2, <2>3, DraftsOfIs
    <3>2. impl = "v2" => logits'[Request(i)][j] = token[i]
      BY <1>1, <1>2, <2>3, LogitsIs
    <3>3. KeepsLogits(i, j)'
      BY <1>3, <3>1, <3>2 DEF KeepsLogits
    <3>4. ASSUME Request(i) \notin missed, Base(i) + j <= MaxModelLen
          PROVE  drafts'[i][j] = Draft(Request(i), Base(i) + 1 + j)
      <4>1. Base(i) + made < MaxModelLen /\ (Base(i) + made) + 2 = Base(i) + 1 + j
        BY <1>2, <2>1, <2>3, <3>4
      <4> QED BY <3>1, <3>4, <4>1 DEF Draws
    <3> QED BY <1>3, <3>3, <3>4 DEF Follows
  <2>4. CASE j # made + 1
    <3>1. j \in 1 .. made
      BY <1>2, <2>2, <2>4
    <3>2. (Request(i) \notin missed => Follows(i, j)) /\ KeepsLogits(i, j)
      BY <1>1, <1>4, <3>1 DEF Drawn
    <3>3. drafts'[i][j] = drafts[i][j]
      BY <1>1, <1>2, <2>2, <2>4, DraftsOfIs
    <3>4. impl = "v2" => logits'[Request(i)][j] = logits[Request(i)][j]
      BY <1>1, <1>2, <2>2, <2>4, LogitsIs
    <3> QED BY <1>3, <3>2, <3>3, <3>4 DEF Follows, KeepsLogits
  <2> QED BY <2>3, <2>4
<1> QED BY <1>3, <1>4 DEF Drawn

\* Entry i before a pass at position `at`, within the model's length.
LEMMA LinedNow ==
  ASSUME IInv, phase = "drafting", NEW i \in 1 .. n, Request(i) \notin missed,
         NEW at, at = Base(i) + made
  PROVE  /\ at \in Nat /\ at > Base(i) /\ at - 1 \in Nat /\ made \in 1 .. goal - 1
         /\ impl = "v2" => InputsV2(i, at)
         /\ impl # "v2" => InputsV1(i, at)
         /\ at < MaxModelLen => Behind(i, at)
         /\ Follows(i, made)
<1>1. Lined(i, at)
  BY DEF IInv, Drafting
<1>2. made \in 1 .. goal - 1 /\ Base(i) \in Nat /\ goal \in Nat
  BY Lengths DEF IInv, Passes
<1>3. Follows(i, made)
  <2>1. made \in 1 .. made /\ made <= goal
    BY <1>2
  <2> QED BY <2>1 DEF IInv, Drawn
<1>4. at \in Nat /\ at > Base(i) /\ at - 1 \in Nat
  BY <1>2
<1> QED BY <1>1, <1>2, <1>3, <1>4 DEF Lined

\* What a further pass has in front of it for entry i, at its position.
Reads(i, at, cache, entry) ==
    /\ entry = "D" /\ topk[i] = Hidden(Request(i), Base(i))
    /\ \A q \in Base(i) + 1 .. at : cache[Request(i)][q] = "D"

LEMMA ReadsIs ==
  ASSUME IInv, phase = "drafting", NEW i \in 1 .. n, Request(i) \notin missed,
         Base(i) + made < MaxModelLen,
         NEW at, NEW entry, NEW I \in SUBSET (1 .. n), i \in I,
         at[i] = Base(i) + made, entry[i] = "D"
  PROVE  Reads(i, at[i], NextKv(at, entry, I), entry[i])
<1>1. PICK p : p = Base(i) + made
  OBVIOUS
<1>2. p \in Nat /\ p > Base(i) /\ Behind(i, p) /\ p < MaxModelLen
  BY <1>1, LinedNow
<1>3. Base(i) \in Nat /\ Request(i) \in Reqs /\ BatchOK
  BY Lengths DEF IInv
<1>4. ASSUME NEW q \in Base(i) + 1 .. p PROVE NextKv(at, entry, I)[Request(i)][q] = "D"
  <2>1. q \in Positions /\ q \in Nat
    BY <1>2, <1>3, Constants DEF Positions
  <2>2. CASE q = p
    BY <1>1, <1>3, <2>1, <2>2, NextKvIs
  <2>3. CASE q # p
    <3>1. q \in Base(i) + 1 .. p - 1
      BY <1>2, <1>3, <2>1, <2>3
    <3>2. kv[Request(i)][q] = "D"
      BY <1>2, <3>1 DEF Behind
    <3>3. ASSUME NEW j \in I, Request(j) = Request(i) PROVE at[j] # q
      <4>1. j = i
        BY <1>3, <3>3 DEF BatchOK
      <4> QED BY <1>1, <2>3, <4>1
    <3> QED BY <1>3, <2>1, <3>2, <3>3, NextKvIs
  <2> QED BY <2>2, <2>3
<1> QED BY <1>1, <1>2, <1>4 DEF Reads, Behind

LEMMA NextOfReads ==
  ASSUME IInv, phase = "drafting", NEW i \in 1 .. n, Request(i) \notin missed,
         NEW cache, InSync(cache, missed), NEW at \in Nat, at = Base(i) + made,
         NEW entry, Reads(i, at, cache, entry)
  PROVE  /\ NextOut(cache, i, at, entry, at + 1) = Hidden(Request(i), at)
         /\ Sampled(Hidden(Request(i), at), at + 1) = Draft(Request(i), at + 2)
         /\ SampledV1(Hidden(Request(i), at)) = Draft(Request(i), at + 2)
BY NextOutIs, DrawnIs DEF Reads

LEMMA GenerateDraftInv ==
  ASSUME IInv, GenerateDraft
  PROVE  IInv'
<1>0. /\ Typed /\ BatchOK /\ Counted /\ Sync /\ Drawn /\ Passes /\ Drafting
      /\ impl = "v2" /\ phase = "drafting" /\ made' = made + 1 /\ goal = K
      /\ phase' = (IF made' = K THEN "drafted" ELSE "drafting")
      /\ step' = made /\ UNCHANGED <<engine, batch, goal, topk, missed>>
  BY DEF IInv, GenerateDraft, Passes, current_draft_step
<1> DEFINE cache == Written({<<Request(i), pos[i], NextEntry(i)>> : i \in 1..n})
           out == [i \in 1..n |-> NextOut(cache, i, pos[i], NextEntry(i), seq[i])]
           token == [i \in 1..n |-> Sampled(out[i], skey[i])]
           at == [i \in 1 .. n |-> pos[i]]
           entry == [i \in 1 .. n |-> NextEntry(i)]
           I == 1 .. n
<1>1. kv' = cache /\ update_draft_inputs(out, token) /\ logits' = LogitsOf(step' + 1, token)
  BY Zenon DEF GenerateDraft
<1>2. cache = NextKv(at, entry, I)
  <2>1. \A i \in I : at[i] = pos[i] /\ entry[i] = NextEntry(i)
    OBVIOUS
  <2>2. {<<Request(i), pos[i], NextEntry(i)>> : i \in I} = {<<Request(i), at[i], entry[i]>> : i \in I}
    <3> HIDE DEF at, entry, I
    <3> QED BY <2>1
  <2> HIDE DEF at, entry
  <2> QED BY <2>2 DEF NextKv
<1>3. /\ \A i \in 1 .. n : /\ out[i] = NextOut(cache, i, pos[i], NextEntry(i), seq[i])
                           /\ token[i] = Sampled(out[i], skey[i])
                           /\ at[i] = pos[i] /\ entry[i] = NextEntry(i)
      /\ I = 1 .. n
  OBVIOUS
<1> HIDE DEF cache, out, token, at, entry, I
<1>4. n' = n /\ \A i : Request(i)' = Request(i) /\ Base(i)' = Base(i)
  BY <1>0, SameBatch
<1>5. BatchOK' /\ Counted'
  BY <1>0, BatchKept DEF engine
<1>6. made \in 1 .. K - 1 /\ made \in Nat /\ K \in Nat /\ made + 1 \in 1 .. K
  BY <1>0, Constants DEF Passes
<1>7. drafts' = DraftsOf(made + 1, token)
  BY <1>0, <1>1 DEF update_draft_inputs, DraftsOf
<1>8. logits' = LogitsOf(made + 1, token)
  BY <1>0, <1>1
\* What the pass finds of an entry.
<1>9. ASSUME NEW i \in 1 .. n, Request(i) \notin missed
      PROVE  /\ InputsV2(i, Base(i) + made) /\ pos[i] > Base(i)
             /\ Base(i) + made < MaxModelLen =>
                  /\ pos[i] = Base(i) + made /\ seq[i] = (Base(i) + made) + 1
                  /\ skey[i] = (Base(i) + made) + 1 /\ NextEntry(i) = "D"
  <2>1. PICK p : p = Base(i) + made
    OBVIOUS
  <2>2. /\ p \in Nat /\ p > Base(i) /\ InputsV2(i, p) /\ (p < MaxModelLen => Behind(i, p))
    BY <1>0, <1>9, <2>1, LinedNow
  <2>3. /\ Base(i) \in Nat /\ MaxModelLen \in Nat /\ Base(i) + 1 < MaxModelLen
    BY Lengths
  <2>4. pos[i] = Smaller(p, MaxModelLen - 1)
    BY <2>2 DEF InputsV2
  <2>5. p < MaxModelLen => pos[i] = p
    BY <2>2, <2>3, <2>4, SmallerIs
  <2>6. pos[i] > Base(i)
    <3>1. CASE p < MaxModelLen
      BY <3>1, <2>2, <2>5
    <3>2. CASE ~ (p < MaxModelLen)
      <4>1. pos[i] = MaxModelLen - 1
        BY <3>2, <2>2, <2>3, <2>4, SmallerIs
      <4> QED BY <4>1, <2>3
    <3> QED BY <3>1, <3>2
  <2>7. ASSUME p < MaxModelLen
        PROVE  seq[i] = p + 1 /\ skey[i] = p + 1 /\ NextEntry(i) = "D"
    <3>1. ids[i] = Draft(Request(i), pos[i] + 1) /\ hid[i] = Hidden(Request(i), pos[i] - 1)
      BY <2>2, <2>5, <2>7 DEF InputsV2, Behind
    <3> QED BY <2>2, <2>7, <3>1 DEF InputsV2, NextEntry
  <2> QED BY <2>1, <2>2, <2>5, <2>6, <2>7
<1>10. InSync(cache, missed)
  <2>1. Beyond(at, I)
    BY <1>3, <1>9 DEF Beyond
  <2>2. I \in SUBSET (1 .. n)
    BY <1>3
  <2>3. InSync(NextKv(at, entry, I), missed)
    BY <1>0, <2>1, <2>2, NextSync
  <2> QED BY <1>2, <2>3
\* What the pass makes of it.
<1>11. ASSUME NEW i \in 1 .. n, Request(i) \notin missed, NEW p, p = Base(i) + made, p < MaxModelLen
       PROVE  /\ out[i] = Hidden(Request(i), p) /\ token[i] = Draft(Request(i), p + 2)
              /\ \A q \in Base(i) + 1 .. p : cache[Request(i)][q] = "D"
  <2>1. /\ pos[i] = p /\ seq[i] = p + 1 /\ skey[i] = p + 1 /\ NextEntry(i) = "D"
        /\ at[i] = p /\ entry[i] = "D" /\ i \in I /\ I \in SUBSET (1 .. n)
    BY <1>3, <1>9, <1>11
  <2>2. Reads(i, at[i], NextKv(at, entry, I), entry[i])
    BY <1>0, <1>11, <2>1, ReadsIs
  <2>3. Reads(i, p, cache, "D")
    BY <1>2, <2>1, <2>2
  <2>4. p \in Nat
    BY <1>0, <1>11, LinedNow
  <2>5. /\ NextOut(cache, i, p, "D", p + 1) = Hidden(Request(i), p)
        /\ Sampled(Hidden(Request(i), p), p + 1) = Draft(Request(i), p + 2)
    BY <1>0, <1>10, <1>11, <2>3, <2>4, NextOfReads
  <2>6. out[i] = Hidden(Request(i), p) /\ token[i] = Draft(Request(i), p + 2)
    BY <1>3, <2>1, <2>5
  <2> QED BY <2>3, <2>6 DEF Reads
<1>12. Typed'
  <2>1. DOMAIN kv' = Reqs
    BY <1>1 DEF cache, Written
  <2>2. \A i \in 1 .. NumReqs : DOMAIN drafts'[i] = 1 .. K
    BY <1>0, <1>6, <1>7, DraftsOfIs
  <2>3. \A r \in Reqs : DOMAIN logits'[r] = 1 .. K
    BY <1>0, <1>6, <1>8, LogitsIs
  <2>4. NumReqs' = NumReqs /\ goal' \in 0 .. K /\ made' \in 0 .. K /\ phase' \in Phases
    BY <1>0, <1>6 DEF Typed, Phases
  <2>5. Shapes'
    BY <2>1, <2>2, <2>3, <2>4 DEF Shapes
  <2> QED BY <1>0, <2>5, TypedKept
<1>13. Sync'
  BY <1>0, <1>1, <1>10 DEF Sync, InSync, engine
<1>14. Drawn'
  <2>1. Draws(token)
    BY <1>11 DEF Draws
  <2> QED BY <1>0, <1>7, <1>8, <2>1, PassDrawn DEF engine
<1>15. Passes'
  BY <1>0, <1>6 DEF Passes, engine
<1>16. Prepared'
  BY <1>0 DEF Prepared
<1>17. Drafting'
  <2> SUFFICES ASSUME phase' = "drafting", NEW i \in 1 .. n, Request(i) \notin missed
               PROVE  Lined(i, Base(i) + made)'
    BY <1>0, <1>4 DEF Drafting
  <2>1. PICK p, s : p = Base(i) + made /\ s = p + 1
    OBVIOUS
  <2>2. /\ Base(i) \in Nat /\ MaxModelLen \in Nat /\ Base(i) + 1 < MaxModelLen
        /\ i \in Rows /\ i \in 1 .. NumReqs /\ i <= n
    BY Lengths
  <2>3. p \in Nat /\ s \in Nat /\ s - 1 = p /\ s = Base(i) + (made + 1)
    BY <1>6, <2>1, <2>2
  <2>4. ~ (step' >= K - 1)
    BY <1>0, <1>6
  <2>5. /\ ids'[i] = token[i] /\ hid'[i] = out[i] /\ pos'[i] = Advanced(pos[i])
        /\ skey'[i] = skey[i] + 1 /\ seq'[i] = Smaller(seq[i] + 1, MaxModelLen)
    <3>1. /\ ids' = InFront(ids, token) /\ hid' = InFront(hid, out)
          /\ pos' = InFront(pos, [k \in 1..n |-> Advanced(pos[k])])
          /\ skey' = [k \in 1..NumReqs |-> IF k <= n THEN skey[k] + 1 ELSE skey[k]]
          /\ seq' = [k \in 1..NumReqs |->
                       IF k <= n THEN Smaller(seq[k] + 1, MaxModelLen) ELSE seq[k]]
      BY <1>1, <2>4 DEF update_draft_inputs
    <3> QED BY <2>2, <3>1 DEF InFront
  <2>6. pos'[i] = Smaller(s, MaxModelLen - 1)
    <3>1. pos[i] = Smaller(p, MaxModelLen - 1)
      BY <1>9, <2>1 DEF InputsV2
    <3>2. pos'[i] = Smaller(pos[i] + 1, MaxModelLen - 1)
      BY <2>5 DEF Advanced
    <3>3. CASE p <= MaxModelLen - 1
      BY <2>1, <2>2, <2>3, <3>1, <3>2, <3>3, SmallerIs
    <3>4. CASE ~ (p <= MaxModelLen - 1)
      BY <2>1, <2>2, <2>3, <3>1, <3>2, <3>4, SmallerIs
    <3> QED BY <3>3, <3>4
  <2>7. ASSUME s < MaxModelLen
        PROVE  /\ seq'[i] = s + 1 /\ skey'[i] = s + 1 /\ ids'[i] = Draft(Request(i), s + 1)
               /\ hid'[i] = Hidden(Request(i), s - 1)
               /\ \A q \in Base(i) + 1 .. s - 1 : kv'[Request(i)][q] = "D"
    <3>1. p < MaxModelLen /\ p + 2 = s + 1
      BY <2>1, <2>2, <2>3, <2>7
    <3>2. seq[i] = s /\ skey[i] = s
      BY <1>9, <2>1, <3>1
    <3>3. seq'[i] = s + 1
      BY <2>2, <2>3, <2>5, <2>7, <3>2, SmallerIs
    <3>4. out[i] = Hidden(Request(i), p) /\ token[i] = Draft(Request(i), p + 2)
          /\ \A q \in Base(i) + 1 .. p : cache[Request(i)][q] = "D"
      BY <1>11, <2>1, <3>1
    <3> QED BY <1>1, <2>3, <2>5, <3>1, <3>2, <3>3, <3>4
  <2>8. InputsV2(i, s)'
    BY <1>4, <2>6, <2>7 DEF InputsV2
  <2>9. ASSUME s < MaxModelLen PROVE Behind(i, s)'
    <3>1. topk'[i] = Hidden(Request(i), Base(i))
      <4>1. p < MaxModelLen
        BY <2>1, <2>2, <2>3, <2>9
      <4>2. Behind(i, p)
        BY <1>0, <2>1, <4>1, LinedNow
      <4> QED BY <1>0, <4>2 DEF Behind
    <3> QED BY <1>4, <2>7, <2>9, <3>1 DEF Behind
  <2>10. Lined(i, s)'
    BY <1>0, <2>8, <2>9 DEF Lined, engine
  <2>11. (Base(i) + made)' = s
    BY <1>0, <1>4, <2>3
  <2> QED BY <2>10, <2>11 DEF Lined, InputsV1, InputsV2, Behind
<1> QED BY <1>5, <1>12, <1>13, <1>14, <1>15, <1>16, <1>17 DEF IInv

LEMMA SkipDrafterInv ==
  ASSUME IInv, SkipDrafter
  PROVE  IInv'
<1>0. /\ Typed /\ BatchOK /\ Counted /\ Sync /\ impl # "v2" /\ phase = "target" /\ phase' = "drafted"
      /\ made' = 0 /\ goal' = K /\ drafts' = [i \in 1..NumReqs |-> [j \in 1..K |-> Wrong]]
      /\ missed' = missed \cup {Request(i) : i \in 1..n}
      /\ UNCHANGED <<engine, batch, kv, logits>>
  BY DEF IInv, SkipDrafter
<1>1. n' = n /\ \A i : Request(i)' = Request(i) /\ Base(i)' = Base(i)
  BY <1>0, SameBatch
<1>2. BatchOK' /\ Counted'
  BY <1>0, BatchKept DEF engine
<1>3. Typed'
  <2>1. \A i \in 1 .. NumReqs : DOMAIN drafts'[i] = 1 .. K
    BY <1>0
  <2>2. Shapes'
    BY <1>0, <2>1, Constants DEF Shapes, Typed, Phases, NumReqs
  <2> QED BY <1>0, <2>2, TypedKept
<1>4. Sync'
  BY <1>0, <1>1 DEF Sync, InTarget, engine
<1>5. Drawn'
  <2>1. \A j \in 1 .. made' : FALSE
    BY <1>0
  <2> QED BY <2>1 DEF Drawn
<1>6. Passes'
  BY <1>0, <1>1 DEF Passes, engine
<1>7. Prepared' /\ Drafting'
  BY <1>0 DEF Prepared, Drafting
<1> QED BY <1>2, <1>3, <1>4, <1>5, <1>6, <1>7 DEF IInv

LEMMA NextPassInv ==
  ASSUME IInv, NextPass
  PROVE  IInv'
<1>0. /\ Typed /\ BatchOK /\ Counted /\ Sync /\ Drawn /\ Passes /\ Drafting
      /\ impl # "v2" /\ phase = "drafting" /\ made' = made + 1
      /\ phase' = (IF made' = goal THEN "drafted" ELSE "drafting")
      /\ UNCHANGED <<engine, batch, goal, skey, step, topk, logits, missed>>
  BY DEF IInv, NextPass
<1> DEFINE within(i) == pos[i] + 1 < MaxModelLen
           at == [i \in 1..n |-> IF within(i) THEN pos[i] + 1 ELSE 0]
           entry(i) == IF drafts[i][made] = Draft(Request(i), at[i] + 1)
                          /\ hid[i] = Hidden(Request(i), at[i] - 1) THEN "D" ELSE "X"
           cache == Written({<<Request(i), at[i], entry(i)>> : i \in {k \in 1..n : within(k)}})
           length == [i \in 1..n |-> IF within(i) THEN seq[i] + 1 ELSE 1]
           out == [i \in 1..n |-> NextOut(cache, i, at[i], entry(i), length[i])]
           token == [i \in 1 .. n |-> SampledV1(out[i])]
           entries == [i \in 1 .. n |-> entry(i)]
           I == {k \in 1 .. n : within(k)}
<1>1. /\ kv' = cache /\ pos' = InFront(pos, at)
      /\ hid' = InFront(hid, out)
      /\ seq' = [i \in 1..NumReqs |-> IF i <= n THEN length[i] ELSE seq[i]]
      /\ drafts' = [i \in 1..NumReqs |->
                IF i <= n THEN [drafts[i] EXCEPT ![made + 1] = SampledV1(out[i])]
                ELSE drafts[i]]
  BY Zenon DEF NextPass
<1>2. cache = NextKv(at, entries, I)
  <2>1. \A i \in I : entries[i] = entry(i)
    OBVIOUS
  <2>2. {<<Request(i), at[i], entry(i)>> : i \in I} = {<<Request(i), at[i], entries[i]>> : i \in I}
    <3> HIDE DEF at, entries, entry, I
    <3> QED BY <2>1
  <2> HIDE DEF at, entries, entry
  <2> QED BY <2>2 DEF NextKv
<1>3. /\ \A i \in 1 .. n : /\ at[i] = (IF within(i) THEN pos[i] + 1 ELSE 0)
                           /\ length[i] = (IF within(i) THEN seq[i] + 1 ELSE 1)
                           /\ i \in I <=> within(i)
      /\ I \in SUBSET (1 .. n)
  <2> HIDE DEF within
  <2> QED OBVIOUS
<1>4. \A i \in 1 .. n : /\ out[i] = NextOut(cache, i, at[i], entry(i), length[i])
                        /\ token[i] = SampledV1(out[i]) /\ entries[i] = entry(i)
  <2> HIDE DEF within, at, entry, cache, length
  <2> QED OBVIOUS
<1>5. drafts' = DraftsOf(made + 1, token)
  <2>1. \A i \in 1 .. NumReqs : i <= n => i \in 1 .. n
    BY <1>0, EntryIs
  <2> HIDE DEF within, at, entry, cache, length, out
  <2> QED BY <1>1, <2>1 DEF DraftsOf
<1>6. DOMAIN kv' = Reqs
  BY <1>1 DEF Written
<1>7. \A i \in 1 .. n : (/\ drafts[i][made] = Draft(Request(i), at[i] + 1)
                         /\ hid[i] = Hidden(Request(i), at[i] - 1)) => entry(i) = "D"
  <2> HIDE DEF at
  <2> QED OBVIOUS
<1>8. \A i : within(i) <=> pos[i] + 1 < MaxModelLen
  OBVIOUS
<1> HIDE DEF within, at, entry, cache, length, out, token, entries, I
<1>9. n' = n /\ \A i : Request(i)' = Request(i) /\ Base(i)' = Base(i)
  BY <1>0, SameBatch
<1>10. BatchOK' /\ Counted'
  BY <1>0, BatchKept DEF engine
<1>11. /\ made \in 1 .. goal - 1 /\ made \in Nat /\ K \in Nat /\ goal \in Nat /\ goal <= K
       /\ made + 1 \in 1 .. K /\ MaxModelLen \in Nat
  <2>1. made \in 1 .. goal - 1 /\ goal \in 0 .. K
    BY <1>0 DEF Passes, Typed
  <2> QED BY <2>1, Constants
\* What the pass finds of an entry.
<1>12. ASSUME NEW i \in 1 .. n, Request(i) \notin missed, NEW p, p = Base(i) + made
       PROVE  /\ p \in Nat /\ p > Base(i) /\ p < MaxModelLen /\ within(i) /\ at[i] = p
              /\ length[i] = p + 1 /\ entry(i) = "D" /\ topk[i] = Hidden(Request(i), Base(i))
              /\ batch[i].start + batch[i].len + K <= MaxModelLen
  <2>1. p \in Nat /\ p > Base(i) /\ InputsV1(i, p) /\ (p < MaxModelLen => Behind(i, p)) /\ Follows(i, made)
    BY <1>0, <1>12, LinedNow
  <2>2. /\ Base(i) \in Nat /\ batch[i].start \in Nat /\ batch[i].len \in Nat /\ batch[i].rej \in Nat
        /\ Base(i) = (batch[i].start + batch[i].len) - (batch[i].rej + 1)
    BY Lengths
  <2>3. pos[i] = p - 1 /\ seq[i] = p /\ batch[i].start + batch[i].len + K <= MaxModelLen
    BY <2>1 DEF InputsV1
  <2>4. p < MaxModelLen
    BY <1>11, <1>12, <2>2, <2>3
  <2>5. pos[i] + 1 = p /\ pos[i] + 1 < MaxModelLen
    BY <2>1, <2>3, <2>4
  <2>6. within(i) /\ at[i] = p /\ length[i] = p + 1
    BY <1>3, <1>8, <2>3, <2>5
  <2>7. drafts[i][made] = Draft(Request(i), p + 1)
    <3>1. Base(i) + made <= MaxModelLen /\ Base(i) + 1 + made = p + 1
      BY <1>11, <1>12, <2>2, <2>4
    <3> QED BY <2>1, <3>1 DEF Follows
  <2>8. hid[i] = Hidden(Request(i), p - 1) /\ topk[i] = Hidden(Request(i), Base(i))
    BY <2>1, <2>4 DEF Behind
  <2>9. entry(i) = "D"
    BY <1>7, <2>6, <2>7, <2>8
  <2> QED BY <2>1, <2>3, <2>4, <2>6, <2>8, <2>9
<1>13. InSync(cache, missed)
  <2>1. ASSUME NEW i \in I, Request(i) \notin missed PROVE at[i] > Base(i)
    <3>1. i \in 1 .. n
      BY <1>3
    <3>2. PICK p : p = Base(i) + made
      OBVIOUS
    <3> QED BY <1>12, <2>1, <3>1, <3>2
  <2>2. Beyond(at, I)
    BY <2>1 DEF Beyond
  <2>3. InSync(NextKv(at, entries, I), missed)
    BY <1>0, <1>3, <2>2, NextSync
  <2> QED BY <1>2, <2>3
\* What the pass makes of it.
<1>14. ASSUME NEW i \in 1 .. n, Request(i) \notin missed, NEW p, p = Base(i) + made
       PROVE  /\ out[i] = Hidden(Request(i), p) /\ token[i] = Draft(Request(i), p + 2)
              /\ \A q \in Base(i) + 1 .. p : cache[Request(i)][q] = "D"
  <2>1. /\ p \in Nat /\ p < MaxModelLen /\ at[i] = p /\ length[i] = p + 1 /\ entry(i) = "D" /\ i \in I
        /\ entries[i] = "D" /\ I \in SUBSET (1 .. n)
    BY <1>3, <1>4, <1>12, <1>14
  <2>2. Reads(i, at[i], NextKv(at, entries, I), entries[i])
    BY <1>0, <1>14, <2>1, ReadsIs
  <2>3. Reads(i, p, cache, "D")
    BY <1>2, <2>1, <2>2
  <2>4. /\ NextOut(cache, i, p, "D", p + 1) = Hidden(Request(i), p)
        /\ SampledV1(Hidden(Request(i), p)) = Draft(Request(i), p + 2)
    BY <1>0, <1>13, <1>14, <2>1, <2>3, NextOfReads
  <2>5. out[i] = Hidden(Request(i), p) /\ token[i] = Draft(Request(i), p + 2)
    BY <1>4, <2>1, <2>4
  <2> QED BY <2>3, <2>5 DEF Reads
<1>15. Typed'
  <2>1. \A i \in 1 .. NumReqs : DOMAIN drafts'[i] = 1 .. K
    BY <1>0, <1>5, <1>11, DraftsOfIs
  <2>2. \A r \in Reqs : DOMAIN logits'[r] = 1 .. K
    BY <1>0 DEF Typed
  <2>3. NumReqs' = NumReqs /\ goal' \in 0 .. K /\ made' \in 0 .. K /\ phase' \in Phases
    BY <1>0, <1>11 DEF Typed, Phases
  <2>4. Shapes'
    BY <1>6, <2>1, <2>2, <2>3 DEF Shapes
  <2> QED BY <1>0, <2>4, TypedKept
<1>16. Sync'
  BY <1>0, <1>1, <1>13 DEF Sync, InSync, engine
<1>17. Drawn'
  <2>1. Draws(token)
    BY <1>14 DEF Draws
  <2> QED BY <1>0, <1>5, <2>1, PassDrawn DEF engine
<1>18. Passes'
  BY <1>0, <1>11 DEF Passes, engine
<1>19. Prepared'
  BY <1>0 DEF Prepared
<1>20. Drafting'
  <2> SUFFICES ASSUME NEW i \in 1 .. n, Request(i) \notin missed
               PROVE  Lined(i, Base(i) + made)'
    BY <1>0, <1>9 DEF Drafting
  <2>1. PICK p, s : p = Base(i) + made /\ s = p + 1
    OBVIOUS
  <2>2. /\ p \in Nat /\ at[i] = p /\ length[i] = p + 1 /\ topk[i] = Hidden(Request(i), Base(i))
        /\ batch[i].start + batch[i].len + K <= MaxModelLen
    BY <1>12, <2>1
  <2>3. /\ out[i] = Hidden(Request(i), p)
        /\ \A q \in Base(i) + 1 .. p : cache[Request(i)][q] = "D"
    BY <1>14, <2>1
  <2>4. i \in Rows /\ i \in 1 .. NumReqs /\ i <= n /\ Base(i) \in Nat
    BY Lengths
  <2>5. s - 1 = p /\ s = Base(i) + (made + 1)
    BY <1>11, <2>1, <2>2, <2>4
  <2>6. pos'[i] = s - 1 /\ seq'[i] = s /\ hid'[i] = Hidden(Request(i), s - 1)
    BY <1>1, <2>1, <2>2, <2>3, <2>4, <2>5 DEF InFront
  <2>7. InputsV1(i, s)'
    BY <1>0, <1>9, <2>2, <2>6 DEF InputsV1
  <2>8. Behind(i, s)'
    BY <1>0, <1>1, <1>9, <2>2, <2>3, <2>5, <2>6 DEF Behind
  <2>9. Lined(i, s)'
    BY <1>0, <2>7, <2>8 DEF Lined, engine
  <2>10. (Base(i) + made)' = s
    BY <1>0, <1>9, <2>5
  <2> QED BY <2>9, <2>10 DEF Lined, InputsV1, InputsV2, Behind
<1> QED BY <1>10, <1>15, <1>16, <1>17, <1>18, <1>19, <1>20 DEF IInv

\* The compacted inputs, read by the rows of the target they came from.
ByRow(in) == [ids |-> [k \in Kept |-> in.ids[Place(k)]],
              pos |-> [k \in Kept |-> in.pos[Place(k)]],
              hid |-> [k \in Kept |-> in.hid[Place(k)]]]

LEMMA FirstPassFed ==
  ASSUME BatchOK, NEW i \in 1 .. n, NEW in, in = set_inputs_first_pass
  PROVE  /\ in.last[i] = Place(LastRow(i)) /\ LastRow(i) \in Kept
         /\ in.last[i] \in 1 .. Cardinality(Kept)
         /\ KeptRow(in.last[i]) = LastRow(i) /\ in.pos[in.last[i]] = Base(i)
         /\ NextToken(i) = Token(Request(i), Base(i) + 1) => Fed(ByRow(in), Kept, i)
<1>0. PICK last : last = [k \in 1 .. n |-> Place(Start(k) + batch[k].len - batch[k].rej - 1)]
  OBVIOUS
<1>1. PICK m : m = Cardinality(Kept)
  OBVIOUS
<1>2. /\ in.last = last
      /\ in.ids = [row \in Rows |->
            IF \E k \in 1..n : last[k] = row
            THEN NextToken(CHOOSE k \in 1..n : last[k] = row)
            ELSE IF row < m THEN TargetId(KeptRow(row + 1)) ELSE ids[row]]
      /\ in.pos = [row \in Rows |-> IF row <= m THEN At(KeptRow(row)) ELSE pos[row]]
      /\ in.hid = [row \in Rows |-> IF row <= m THEN TargetHidden(KeptRow(row)) ELSE hid[row]]
  BY <1>0, <1>1 DEF set_inputs_first_pass
<1>3. \A k \in 1 .. n : /\ last[k] = Place(LastRow(k)) /\ LastRow(k) \in Kept
                        /\ RowIs(LastRow(k), k, Base(k)) /\ Base(k) \in Nat
  <2> TAKE k \in 1 .. n
  <2>1. RowIs(LastRow(k), k, Base(k)) /\ Start(k) + batch[k].len - batch[k].rej - 1 = LastRow(k)
    BY LastKept
  <2>2. Base(k) \in Nat /\ Base(k) <= Base(k)
    BY EntryIs
  <2>3. LastRow(k) \in Kept
    BY <2>1, <2>2, KeptIs
  <2> QED BY <1>0, <2>1, <2>2, <2>3
<1>4. m \in Nat /\ \A k \in Kept : Place(k) \in 1 .. m /\ Place(k) \in Rows /\ KeptRow(Place(k)) = k
  BY <1>1, KeptIs, PlaceIs
<1>5. \A k \in Kept : in.pos[Place(k)] = At(k) /\ in.hid[Place(k)] = TargetHidden(k)
  BY <1>2, <1>4
<1>6. KeptRow(in.last[i]) = LastRow(i) /\ in.pos[in.last[i]] = Base(i) /\ in.last[i] \in 1 .. m
  BY <1>2, <1>3, <1>4, <1>5 DEF RowIs
<1>7. ASSUME NextToken(i) = Token(Request(i), Base(i) + 1), NEW row, NEW p, RowIs(row, i, p), p <= Base(i)
      PROVE  /\ row \in Kept
             /\ in.ids[Place(row)] = Token(Request(i), p + 1)
             /\ in.hid[Place(row)] = Token(Request(i), p) /\ in.pos[Place(row)] = p
  <2>1. row \in Kept
    BY <1>7, KeptIs
  <2>2. in.hid[Place(row)] = Token(Request(i), p) /\ in.pos[Place(row)] = p
    BY <1>5, <1>7, <2>1, TargetIdIs DEF RowIs
  <2>3. PICK x : x = Place(row)
    OBVIOUS
  <2>4. x \in Rows /\ x \in 1 .. m
    BY <1>4, <2>1, <2>3
  <2>5. \A k \in 1 .. n : last[k] = x => row = LastRow(k)
    BY <1>3, <2>1, <2>3, PlaceIs
  <2>6. CASE p = Base(i)
    <3>1. row = LastRow(i)
      BY <1>7, <2>6, RowBelow
    <3>2. last[i] = x
      BY <1>3, <2>3, <3>1
    <3>3. \A k \in 1 .. n : last[k] = x => k = i
      BY <2>5, <3>1, LastKept
    <3>4. (CHOOSE k \in 1..n : last[k] = x) = i
      BY <3>2, <3>3
    <3>5. in.ids[x] = NextToken(i)
      BY <1>2, <2>4, <3>2, <3>4
    <3> QED BY <1>7, <2>1, <2>2, <2>3, <2>6, <3>5
  <2>7. CASE p # Base(i)
    <3>0. p \in Nat /\ Base(i) \in Nat
      BY <1>7, RowBelow
    <3>1. p \in Nat /\ Base(i) \in Nat /\ p + 1 <= Base(i)
      BY <1>7, <2>7, <3>0
    <3>2. RowIs(row + 1, i, p + 1)
      BY <1>7, <3>1, RowBelow
    <3>3. row + 1 \in Kept
      BY <3>1, <3>2, KeptIs
    <3>4. Place(row + 1) = x + 1 /\ x < m
      BY <1>1, <2>1, <2>3, <3>3, PlaceIs
    <3>5. KeptRow(x + 1) = row + 1
      BY <3>3, <3>4, PlaceIs
    <3>6. ~ \E k \in 1 .. n : last[k] = x
      <4>1. ASSUME NEW k \in 1 .. n, last[k] = x PROVE FALSE
        <5>1. RowIs(row, k, Base(k))
          BY <1>3, <2>5, <4>1
        <5> QED BY <1>7, <2>7, <5>1 DEF RowIs
      <4> QED BY <4>1
    <3>7. in.ids[x] = TargetId(row + 1)
      BY <1>2, <2>4, <3>4, <3>5, <3>6
    <3>8. TargetId(row + 1) = Token(Request(i), p + 1)
      BY <3>1, <3>2, TargetIdIs
    <3> QED BY <2>1, <2>2, <2>3, <3>7, <3>8
  <2> QED BY <2>6, <2>7
<1>8. \A row \in Kept : /\ ByRow(in).ids[row] = in.ids[Place(row)]
                        /\ ByRow(in).hid[row] = in.hid[Place(row)]
                        /\ ByRow(in).pos[row] = in.pos[Place(row)]
  BY DEF ByRow
<1>9. ASSUME NextToken(i) = Token(Request(i), Base(i) + 1) PROVE Fed(ByRow(in), Kept, i)
  BY <1>7, <1>8, <1>9 DEF Fed
<1> QED BY <1>1, <1>2, <1>3, <1>6, <1>9

LEMMA FirstPassInv ==
  ASSUME IInv, FirstPass
  PROVE  IInv'
<1>0. /\ Typed /\ BatchOK /\ Counted /\ Sync /\ Drawn /\ Passes
      /\ impl # "v2" /\ phase = "target" /\ _input_fits_in_drafter /\ made' = 1
      /\ UNCHANGED <<engine, batch, goal, skey, step, logits>>
  BY DEF IInv, FirstPass
<1> DEFINE in == set_inputs_first_pass
           row(i) == KeptRow(in.last[i])
           byRow == [ids |-> [k \in Kept |-> in.ids[Place(k)]],
                     pos |-> [k \in Kept |-> in.pos[Place(k)]],
                     hid |-> [k \in Kept |-> in.hid[Place(k)]]]
           cache == FirstKv(byRow, Kept)
           out == [i \in 1..n |-> FirstOut(cache, row(i))]
           more == goal > 1
           place == [i \in 1..Cardinality(Kept) |->
                        Hidden(Request(Entry(KeptRow(i))), At(KeptRow(i)))]
           front == [i \in 1..n |-> in.pos[in.last[i]]]
           ended == {k \in 1..n : NextToken(k) # Token(Request(k), Base(k) + 1)}
<1>1. /\ kv' = cache
      /\ hid' = (IF more THEN InFront(in.hid, out) ELSE in.hid)
      /\ pos' = (IF more THEN InFront(in.pos, front) ELSE in.pos)
      /\ topk' = Compacted(place, in.last)
      /\ drafts' = [i \in 1..NumReqs |->
                IF i <= n /\ goal > 0 THEN [drafts[i] EXCEPT ![1] = SampledV1(out[i])]
                ELSE drafts[i]]
      /\ seq' = [i \in 1..NumReqs |->
                        IF i <= n THEN batch[i].start + batch[i].len - batch[i].rej ELSE 0]
      /\ phase' = (IF more THEN "drafting" ELSE "drafted")
      /\ missed' = missed \cup {Request(i) : i \in ended}
  BY Zenon DEF FirstPass
<1>2. in = set_inputs_first_pass /\ byRow = ByRow(in) /\ cache = FirstKv(byRow, Kept)
      /\ (more <=> goal > 1)
  BY DEF ByRow
<1>3. \A i \in 1 .. n : out[i] = FirstOut(cache, KeptRow(in.last[i])) /\ front[i] = in.pos[in.last[i]]
  <2> HIDE DEF in, cache
  <2> QED OBVIOUS
<1>4. \A i \in 1 .. Cardinality(Kept) :
        place[i] = Hidden(Request(Entry(KeptRow(i))), At(KeptRow(i)))
  OBVIOUS
<1>5. \A i \in 1 .. n : Request(i) \notin missed' => /\ Request(i) \notin missed
                                                     /\ NextToken(i) = Token(Request(i), Base(i) + 1)
  <2> HIDE DEF in, cache
  <2> QED BY <1>1
<1> HIDE DEF in, row, byRow, cache, out, more, place, front, ended
<1>6. n' = n /\ \A i : Request(i)' = Request(i) /\ Base(i)' = Base(i)
  BY <1>0, SameBatch
<1>7. BatchOK' /\ Counted'
  BY <1>0, BatchKept DEF engine
<1>8. \A i \in 1 .. n : /\ LastRow(i) \in Kept /\ in.last[i] \in 1 .. Cardinality(Kept)
                        /\ KeptRow(in.last[i]) = LastRow(i) /\ in.pos[in.last[i]] = Base(i)
                        /\ RowIs(LastRow(i), i, Base(i))
  BY <1>0, <1>2, FirstPassFed, LastKept
<1>9. InSync(cache, missed')
  <2>1. AllFed(byRow, Kept, missed')
    <3>1. ASSUME NEW i \in 1 .. n, Request(i) \notin missed' PROVE Fed(byRow, Kept, i)
      BY <1>0, <1>2, <1>5, <3>1, FirstPassFed
    <3> QED BY <3>1 DEF AllFed
  <2>2. Kept \in SUBSET (1 .. NumTokens) /\ missed \subseteq missed'
    BY <1>0, <1>1, KeptIs
  <2>3. PICK M : M = missed'
    OBVIOUS
  <2>4. InSync(FirstKv(byRow, Kept), M)
    BY <1>0, <2>1, <2>2, <2>3, FirstPassSync
  <2> QED BY <1>2, <2>3, <2>4
<1>10. ASSUME NEW i \in 1 .. n, Request(i) \notin missed'
       PROVE  out[i] = Hidden(Request(i), Base(i)) /\ SampledV1(out[i]) = Draft(Request(i), Base(i) + 2)
  <2>1. PICK M : M = missed'
    OBVIOUS
  <2>2. FirstOut(cache, LastRow(i)) = Hidden(Request(i), Base(i))
    BY <1>0, <1>8, <1>9, <1>10, <2>1, FirstOutIs
  <2>3. out[i] = Hidden(Request(i), Base(i)) /\ Base(i) \in Nat
    BY <1>0, <1>3, <1>8, <2>2, EntryIs
  <2> QED BY <2>3, DrawnIs
<1>11. /\ K \in Nat /\ K > 0 /\ goal \in Nat /\ goal <= K /\ NumReqs \in Nat
       /\ \A i \in 1 .. NumReqs : DOMAIN drafts[i] = 1 .. K
  <2>1. goal \in 0 .. K
    BY <1>0 DEF Typed
  <2> QED BY <1>0, <2>1, Constants DEF Typed
<1>12. Typed'
  <2>1. DOMAIN kv' = Reqs
    BY <1>1, <1>2 DEF FirstKv, Written
  <2>2. \A i \in 1 .. NumReqs : DOMAIN drafts'[i] = 1 .. K
    BY <1>1, <1>11
  <2>3. \A r \in Reqs : DOMAIN logits'[r] = 1 .. K
    BY <1>0 DEF Typed
  <2>4. NumReqs' = NumReqs /\ goal' \in 0 .. K /\ made' \in 0 .. K /\ phase' \in Phases
    BY <1>0, <1>1, <1>11 DEF Typed, Phases
  <2>5. Shapes'
    BY <2>1, <2>2, <2>3, <2>4 DEF Shapes
  <2> QED BY <1>0, <2>5, TypedKept
<1>13. Sync'
  BY <1>0, <1>1, <1>9 DEF Sync, InSync, engine
<1>14. Drawn'
  <2>1. ASSUME NEW i \in 1 .. n, goal > 0, Request(i) \notin missed' PROVE Follows(i, 1)'
    <3>1. i \in 1 .. NumReqs /\ i <= n /\ Base(i) \in Nat
      BY <1>0, EntryIs, RowsFit
    <3>2. PICK x : x = drafts[i]
      OBVIOUS
    <3>3. DOMAIN x = 1 .. K /\ 1 \in 1 .. K
      BY <1>11, <3>1, <3>2
    <3>4. drafts'[i] = [x EXCEPT ![1] = SampledV1(out[i])]
      BY <1>1, <2>1, <3>1, <3>2
    <3>5. drafts'[i][1] = Draft(Request(i), Base(i) + 2)
      BY <1>10, <2>1, <3>3, <3>4
    <3>6. Base(i) + 1 + 1 = Base(i) + 2
      BY <3>1
    <3> QED BY <1>6, <3>5, <3>6 DEF Follows
  <2>2. \A j \in 1 .. made' : j = 1
    BY <1>0
  <2>3. ASSUME NEW i \in 1 .. n, NEW j \in 1 .. made', j <= goal
        PROVE  /\ (Request(i) \notin missed => Follows(i, j))' /\ KeepsLogits(i, j)'
    <3>1. j = 1 /\ goal > 0
      BY <1>11, <2>2, <2>3
    <3>2. KeepsLogits(i, j)'
      BY <1>0 DEF KeepsLogits, engine
    <3>3. Request(i) \notin missed' => Follows(i, 1)'
      BY <2>1, <3>1
    <3> QED BY <1>6, <3>1, <3>2, <3>3 DEF Follows
  <2> QED BY <1>0, <1>6, <2>3 DEF Drawn
<1>15. Passes'
  BY <1>0, <1>1, <1>2, <1>11 DEF Passes, engine
<1>16. Prepared'
  BY <1>1 DEF Prepared
<1>17. Drafting'
  <2> SUFFICES ASSUME phase' = "drafting", NEW i \in 1 .. n, Request(i) \notin missed'
               PROVE  Lined(i, Base(i) + made)'
    BY <1>0, <1>6 DEF Drafting
  <2>1. PICK s : s = Base(i) + 1
    OBVIOUS
  <2>2. /\ i \in Rows /\ i \in 1 .. NumReqs /\ i <= n /\ Base(i) \in Nat
        /\ batch[i].start \in Nat /\ batch[i].len \in Nat /\ batch[i].rej \in Nat
        /\ Base(i) = (batch[i].start + batch[i].len) - (batch[i].rej + 1)
    BY Lengths
  <2>3. s - 1 = Base(i) /\ batch[i].start + batch[i].len - batch[i].rej = s /\ s \in Nat
    BY <2>1, <2>2
  <2>4. more
    BY <1>1
  <2>5. hid'[i] = out[i] /\ pos'[i] = front[i] /\ seq'[i] = s
    BY <1>1, <2>2, <2>3, <2>4 DEF InFront
  <2>6. hid'[i] = Hidden(Request(i), s - 1) /\ pos'[i] = s - 1
    BY <1>3, <1>8, <1>10, <2>3, <2>5
  <2>7. topk'[i] = Hidden(Request(i), Base(i))
    <3>1. topk'[i] = place[in.last[i]]
      BY <1>1, <2>2 DEF Compacted
    <3>2. place[in.last[i]] = Hidden(Request(Entry(LastRow(i))), At(LastRow(i)))
      BY <1>4, <1>8
    <3>3. Entry(LastRow(i)) = i /\ At(LastRow(i)) = Base(i)
      BY <1>8 DEF RowIs
    <3> QED BY <3>1, <3>2, <3>3
  <2>8. batch[i].start + batch[i].len + K <= MaxModelLen
    BY <1>0 DEF _input_fits_in_drafter
  <2>9. InputsV1(i, s)'
    BY <1>0, <1>6, <2>5, <2>6, <2>8 DEF InputsV1
  <2>10. Behind(i, s)'
    <3>1. \A q \in Base(i) + 1 .. s - 1 : FALSE
      BY <2>2, <2>3
    <3> QED BY <1>6, <2>6, <2>7, <3>1 DEF Behind
  <2>11. Lined(i, s)'
    BY <1>0, <2>9, <2>10 DEF Lined, engine
  <2>12. (Base(i) + made)' = s
    BY <1>0, <1>6, <2>1
  <2> QED BY <2>11, <2>12 DEF Lined, InputsV1, InputsV2, Behind
<1> QED BY <1>7, <1>12, <1>13, <1>14, <1>15, <1>16, <1>17 DEF IInv

-----------------------------------------------------------------------------
(* The engine.                                                               *)

\* What the scheduler runs of request r.
RunOf(e, r) ==
    /\ e \in Entries /\ e.r = r /\ e.start = computed[r] /\ e.len <= MaxQuery /\ e.rej < e.len
    /\ e.start + e.len < MaxModelLen
    /\ ~ e.sampled => e.start + e.len < known[r]

LEMMA RunIs ==
  ASSUME Typed, NEW r \in Reqs, NEW e \in Runs(r)
  PROVE  RunOf(e, r)
<1>1. PICK rest : rest = known[r] - computed[r]
  OBVIOUS
<1>2. /\ known[r] \in Nat /\ computed[r] \in Nat /\ computed[r] < known[r] /\ offered[r] \in 0 .. K
      /\ rest \in Nat /\ rest > 0 /\ known[r] = computed[r] + rest
      /\ K \in Nat /\ MaxModelLen \in Nat /\ MaxQuery \in Nat /\ MaxChunk \in Nat
      /\ MaxQuery >= MaxChunk /\ MaxQuery >= K + 1
  <2>1. /\ known[r] \in Nat /\ computed[r] \in Nat /\ computed[r] < known[r] /\ offered[r] \in 0 .. K
    BY DEF Typed
  <2>2. MaxChunk \in Nat
    BY DrafterAssumption
  <2> QED BY <1>1, <2>1, <2>2, Constants
<1>3. \/ \E l \in 1 .. Smaller(rest, MaxChunk) : computed[r] + l < MaxModelLen /\ e = InBatch(r, l, 0, 0)
      \/ /\ rest = 1
         /\ \E f \in (0 .. offered[r]) \X (0 .. K) :
              f[2] <= f[1] /\ computed[r] + (1 + f[1]) < MaxModelLen /\ e = InBatch(r, 1, f[1], f[2])
  BY <1>1 DEF Runs
<1>4. ASSUME NEW l, NEW d, NEW j, e = InBatch(r, l, d, j)
      PROVE  /\ e.r = r /\ e.start = computed[r] /\ e.len = l + d /\ e.rej = j
             /\ (e.sampled <=> computed[r] + l = known[r])
             /\ (l + d \in Nat /\ l + d > 0 /\ j \in Nat => e \in Entries)
  <2>1. PICK b : b = (computed[r] + l = known[r])
    OBVIOUS
  <2>2. b \in BOOLEAN /\ (b <=> computed[r] + l = known[r])
    BY <2>1
  <2>3. e = [r |-> r, start |-> computed[r], len |-> l + d, rej |-> j, sampled |-> b]
    BY <1>4, <2>1, Zenon DEF InBatch
  <2>4. e.r = r /\ e.start = computed[r] /\ e.len = l + d /\ e.rej = j /\ e.sampled = b
    BY <2>3
  <2>5. ASSUME l + d \in Nat, l + d > 0, j \in Nat PROVE e \in Entries
    <3>1. PICK m : m = l + d
      OBVIOUS
    <3>2. m \in Nat \ {0} /\ computed[r] \in Nat
      BY <1>2, <2>5, <3>1
    <3> QED BY <2>2, <2>3, <2>5, <3>1, <3>2 DEF Entries
  <2> QED BY <2>2, <2>4, <2>5, Zenon
<1>5. CASE \E l \in 1 .. Smaller(rest, MaxChunk) : computed[r] + l < MaxModelLen /\ e = InBatch(r, l, 0, 0)
  <2>1. PICK l \in 1 .. Smaller(rest, MaxChunk) : computed[r] + l < MaxModelLen /\ e = InBatch(r, l, 0, 0)
    BY <1>5
  <2>2. l \in Nat /\ l > 0 /\ l <= rest /\ l <= MaxChunk
    BY <1>2 DEF Smaller
  <2>3. /\ e.r = r /\ e.start = computed[r] /\ e.len = l /\ e.rej = 0
        /\ (e.sampled <=> computed[r] + l = known[r]) /\ e \in Entries
    <3>1. l + 0 = l /\ 0 \in Nat
      BY <2>2
    <3> QED BY <1>4, <2>1, <2>2, <3>1
  <2>4. ASSUME ~ e.sampled PROVE computed[r] + l < known[r]
    <3>1. computed[r] + l # known[r]
      BY <2>3, <2>4
    <3> QED BY <1>2, <2>2, <3>1
  <2> QED BY <1>2, <2>1, <2>2, <2>3, <2>4 DEF RunOf
<1>6. CASE /\ rest = 1
           /\ \E f \in (0 .. offered[r]) \X (0 .. K) :
                f[2] <= f[1] /\ computed[r] + (1 + f[1]) < MaxModelLen /\ e = InBatch(r, 1, f[1], f[2])
  <2>1. PICK f \in (0 .. offered[r]) \X (0 .. K) :
              f[2] <= f[1] /\ computed[r] + (1 + f[1]) < MaxModelLen /\ e = InBatch(r, 1, f[1], f[2])
    BY <1>6
  <2>2. PICK d, j : d = f[1] /\ j = f[2]
    OBVIOUS
  <2>3. d \in Nat /\ d <= K /\ j \in Nat /\ j <= d
    BY <1>2, <2>1, <2>2
  <2>4. /\ e.r = r /\ e.start = computed[r] /\ e.len = 1 + d /\ e.rej = j
        /\ (e.sampled <=> computed[r] + 1 = known[r]) /\ e \in Entries
    <3>1. 1 + d \in Nat /\ 1 + d > 0
      BY <2>3
    <3> QED BY <1>4, <2>1, <2>2, <2>3, <3>1
  <2>5. e.sampled
    BY <1>2, <1>6, <2>4
  <2> QED BY <1>2, <2>1, <2>2, <2>3, <2>4, <2>5 DEF RunOf
<1> QED BY <1>3, <1>5, <1>6

LEMMA OrderIs ==
  ASSUME NEW chosen \in SUBSET Reqs, NEW order \in SetToSeqs(chosen)
  PROVE  /\ Cardinality(chosen) \in Nat /\ Cardinality(chosen) <= NumReqs
         /\ DOMAIN order = 1 .. Cardinality(chosen)
         /\ \A i \in DOMAIN order : order[i] \in chosen
         /\ \A i, j \in DOMAIN order : order[i] = order[j] => i = j
         /\ \A r \in chosen : \E i \in DOMAIN order : order[i] = r
<1>1. PICK c : c = Cardinality(chosen)
  OBVIOUS
<1>2. IsFiniteSet(chosen) /\ c \in Nat /\ c <= NumReqs
  BY <1>1, DrafterAssumption, FS_Subset, FS_CardinalityType DEF NumReqs
<1>3. order \in [1 .. c -> chosen] /\ \A i, j \in 1 .. c : i # j => order[i] # order[j]
  BY <1>1 DEF SetToSeqs
<1>4. order \in Injection(1 .. c, chosen)
  BY <1>3 DEF Injection, IsInjective
<1>5. Cardinality(1 .. c) = c
  BY <1>2, FS_Interval
<1>6. order \in Surjection(1 .. c, chosen)
  BY <1>1, <1>2, <1>4, <1>5, FS_Injection
<1>7. \A r \in chosen : \E i \in 1 .. c : order[i] = r
  BY <1>6 DEF Surjection
<1> QED BY <1>1, <1>2, <1>3, <1>7

LEMMA TargetInv ==
  ASSUME IInv, Target
  PROVE  IInv'
<1>0. /\ Typed /\ BatchOK /\ Sync
      /\ phase = "idle" /\ phase' = "target" /\ made' = 0
      /\ goal' \in (IF impl = "v2" THEN {K} ELSE 0 .. K)
      /\ UNCHANGED <<impl, kv, buffers, missed>>
  BY DEF IInv, Target
<1>a. PICK chosen \in SUBSET Reqs \ {{}} :
        \E order \in SetToSeqs(chosen) : \E run \in [chosen -> UNION {Runs(r) : r \in Reqs}] :
            /\ \A r \in chosen : run[r] \in Runs(r)
            /\ batch' = [i \in DOMAIN order |-> run[order[i]]]
            /\ computed' = [r \in Reqs |-> IF r \in chosen
                    THEN computed[r] + run[r].len - run[r].rej ELSE computed[r]]
            /\ known' = [r \in Reqs |-> IF r \in chosen /\ run[r].sampled
                    THEN computed[r] + run[r].len - run[r].rej + 1 ELSE known[r]]
            /\ offered' = [r \in Reqs |-> IF r \in chosen THEN 0 ELSE offered[r]]
  BY Zenon DEF Target
<1>b. PICK order \in SetToSeqs(chosen) : \E run \in [chosen -> UNION {Runs(r) : r \in Reqs}] :
            /\ \A r \in chosen : run[r] \in Runs(r)
            /\ batch' = [i \in DOMAIN order |-> run[order[i]]]
            /\ computed' = [r \in Reqs |-> IF r \in chosen
                    THEN computed[r] + run[r].len - run[r].rej ELSE computed[r]]
            /\ known' = [r \in Reqs |-> IF r \in chosen /\ run[r].sampled
                    THEN computed[r] + run[r].len - run[r].rej + 1 ELSE known[r]]
            /\ offered' = [r \in Reqs |-> IF r \in chosen THEN 0 ELSE offered[r]]
  BY <1>a
<1>1. PICK run \in [chosen -> UNION {Runs(r) : r \in Reqs}] :
        /\ \A r \in chosen : run[r] \in Runs(r)
        /\ batch' = [i \in DOMAIN order |-> run[order[i]]]
        /\ computed' = [r \in Reqs |-> IF r \in chosen
                THEN computed[r] + run[r].len - run[r].rej ELSE computed[r]]
        /\ known' = [r \in Reqs |-> IF r \in chosen /\ run[r].sampled
                THEN computed[r] + run[r].len - run[r].rej + 1 ELSE known[r]]
        /\ offered' = [r \in Reqs |-> IF r \in chosen THEN 0 ELSE offered[r]]
  BY <1>b
<1>2. PICK c : c = Cardinality(chosen)
  OBVIOUS
<1>3. /\ c \in Nat /\ c <= NumReqs /\ DOMAIN order = 1 .. c
      /\ \A i \in 1 .. c : order[i] \in chosen /\ order[i] \in Reqs
      /\ \A i, j \in 1 .. c : order[i] = order[j] => i = j
      /\ \A r \in chosen : \E i \in 1 .. c : order[i] = r
  <2>1. chosen \in SUBSET Reqs
    OBVIOUS
  <2> QED BY <1>2, <2>1, OrderIs
<1>4. \A r \in chosen : RunOf(run[r], r)
  BY <1>0, <1>1, RunIs
<1>5. batch' = [i \in 1 .. c |-> run[order[i]]]
  BY <1>1, <1>3
<1>6. \A i \in 1 .. c : batch'[i] = run[order[i]] /\ RunOf(batch'[i], order[i])
  BY <1>3, <1>4, <1>5
<1>7. batch' \in Seq(Entries) /\ Len(batch') = c /\ n' = c
  <2>1. \A i \in 1 .. c : run[order[i]] \in Entries
    BY <1>6 DEF RunOf
  <2>2. batch' \in [1 .. c -> Entries]
    BY <1>5, <2>1
  <2>3. batch' \in Seq(Entries) /\ Len(batch') = c
    BY <1>3, <2>2, SeqDef, LenProperties
  <2> QED BY <2>3 DEF n
<1>8. \A i \in 1 .. c : Request(i)' = order[i]
  BY <1>6 DEF Request, RunOf
<1>9. NumReqs' = NumReqs
  BY DEF NumReqs
<1>10. BatchOK'
  <2>1. \A i \in 1 .. c : /\ batch'[i].len <= MaxQuery /\ batch'[i].rej < batch'[i].len
                          /\ batch'[i].start + batch'[i].len < MaxModelLen
    BY <1>6 DEF RunOf
  <2>2. \A i, j \in 1 .. c : Request(i)' = Request(j)' => i = j
    BY <1>3, <1>8
  <2> QED BY <1>3, <1>7, <1>9, <2>1, <2>2 DEF BatchOK
<1>11. ASSUME NEW r \in chosen
       PROVE  /\ r \in Reqs /\ run[r].len \in Nat /\ run[r].rej \in Nat /\ run[r].rej < run[r].len
              /\ run[r].start = computed[r] /\ computed[r] \in Nat
              /\ computed'[r] = computed[r] + run[r].len - run[r].rej /\ computed'[r] \in Nat
              /\ known'[r] = IF run[r].sampled THEN computed'[r] + 1 ELSE known[r]
              /\ known'[r] \in Nat /\ computed'[r] < known'[r] /\ known'[r] <= MaxModelLen
  <2>1. r \in Reqs /\ RunOf(run[r], r)
    BY <1>4
  <2>2. /\ run[r].len \in Nat /\ run[r].rej \in Nat /\ run[r].rej < run[r].len
        /\ run[r].start = computed[r] /\ run[r].start + run[r].len < MaxModelLen
        /\ run[r].sampled \in BOOLEAN
        /\ ~ run[r].sampled => run[r].start + run[r].len < known[r]
    BY <2>1 DEF RunOf, Entries
  <2>3. computed[r] \in Nat /\ known[r] \in Nat /\ known[r] <= MaxModelLen /\ MaxModelLen \in Nat
    BY <1>0, <2>1, Constants DEF Typed
  <2>4. /\ computed'[r] = computed[r] + run[r].len - run[r].rej
        /\ known'[r] = IF run[r].sampled THEN computed[r] + run[r].len - run[r].rej + 1 ELSE known[r]
    BY <1>1, <2>1
  <2>5. PICK x, y, z : x = computed[r] /\ y = run[r].len /\ z = run[r].rej
    OBVIOUS
  <2>6. /\ x \in Nat /\ y \in Nat /\ z \in Nat /\ z < y /\ x + y < MaxModelLen
        /\ computed'[r] = x + y - z /\ (~ run[r].sampled => x + y < known[r])
    BY <2>2, <2>3, <2>4, <2>5
  <2>7. computed'[r] \in Nat /\ computed'[r] + 1 <= MaxModelLen
        /\ (~ run[r].sampled => computed'[r] < known[r])
    BY <2>3, <2>6
  <2> QED BY <2>1, <2>2, <2>3, <2>4, <2>7
<1>12. ASSUME NEW r \in Reqs \ chosen PROVE computed'[r] = computed[r] /\ known'[r] = known[r]
  BY <1>1
<1>13. Counted'
  <2>1. ASSUME NEW i \in 1 .. c PROVE computed'[Request(i)'] = Base(i)' + 1
    <3>1. order[i] \in chosen /\ batch'[i] = run[order[i]] /\ Request(i)' = order[i]
      BY <1>3, <1>6, <1>8
    <3>2. Base(i)' = batch'[i].start + batch'[i].len - batch'[i].rej - 1
      BY DEF Base
    <3>3. PICK x, y, z : x = batch'[i].start /\ y = batch'[i].len /\ z = batch'[i].rej
      OBVIOUS
    <3>4. x \in Nat /\ y \in Nat /\ z \in Nat /\ computed'[order[i]] = x + y - z
      BY <1>11, <3>1, <3>3
    <3> QED BY <3>1, <3>2, <3>3, <3>4
  <2> QED BY <1>7, <2>1 DEF Counted
<1>14. Typed'
  <2>1. computed' \in [Reqs -> Nat] /\ known' \in [Reqs -> Nat]
    <3>1. \A r \in Reqs : computed'[r] \in Nat /\ known'[r] \in Nat
      BY <1>0, <1>11, <1>12 DEF Typed
    <3>2. computed' = [r \in Reqs |-> computed'[r]] /\ known' = [r \in Reqs |-> known'[r]]
      BY <1>1
    <3> QED BY <3>1, <3>2
  <2>2. offered' \in [Reqs -> 0 .. K]
    BY <1>0, <1>1, Constants DEF Typed
  <2>3. \A r \in Reqs : computed'[r] < known'[r] /\ known'[r] <= MaxModelLen /\ PromptLens # {}
    BY <1>0, <1>11, <1>12 DEF Typed
  <2>4. goal' \in 0 .. K /\ made' \in 0 .. K
    BY <1>0, Constants
  <2> QED BY <1>0, <1>9, <2>1, <2>2, <2>3, <2>4 DEF Typed, Phases, buffers
<1>15. Sync'
  <2> SUFFICES ASSUME NEW r \in Reqs \ missed, NEW p \in 0 .. computed'[r] - 1,
                      ~ InTarget(r, p)'
               PROVE  kv'[r][p] = "T"
    BY <1>0 DEF Sync
  <2>1. computed[r] \in Nat /\ r \in Reqs
    BY <1>0 DEF Typed
  <2>2. p \in 0 .. computed[r] - 1
    <3>1. CASE r \in chosen
      <4>1. PICK i \in 1 .. c : order[i] = r
        BY <1>3, <3>1
      <4>2. Request(i)' = r /\ batch'[i].start = computed[r]
        BY <1>6, <1>8, <1>11, <3>1, <4>1
      <4>3. ~ (computed[r] <= p)
        BY <1>0, <1>7, <4>2 DEF InTarget
      <4>4. p \in Nat
        BY <1>11, <3>1
      <4> QED BY <2>1, <4>3, <4>4
    <3>2. CASE r \notin chosen
      BY <1>12, <3>2
    <3> QED BY <3>1, <3>2
  <2>3. kv[r][p] = "T"
    BY <1>0, <2>2 DEF Sync, InTarget
  <2> QED BY <1>0, <2>3
<1>16. Drawn' /\ Prepared' /\ Drafting'
  BY <1>0 DEF Drawn, Prepared, Drafting
<1>17. Passes'
  BY <1>0 DEF Passes
<1> QED BY <1>10, <1>13, <1>14, <1>15, <1>16, <1>17 DEF IInv

LEMMA OfferInv ==
  ASSUME IInv, Offer
  PROVE  IInv'
<1>0. /\ Typed /\ BatchOK /\ Sync
      /\ phase = "drafted" /\ phase' = "idle"
      /\ offered' = [r \in Reqs |->
            IF \E i \in 1..n : Request(i) = r /\ batch[i].sampled THEN goal ELSE offered[r]]
      /\ UNCHANGED <<impl, known, computed, steps, batch, goal, made, kv, buffers, missed>>
  BY DEF IInv, Offer
<1>1. n' = n /\ \A i : Request(i)' = Request(i) /\ Base(i)' = Base(i)
  BY <1>0, SameBatch
<1>2. BatchOK' /\ Counted'
  BY <1>0, <1>1 DEF BatchOK, Counted
<1>3. Typed'
  <2>1. offered' \in [Reqs -> 0 .. K]
    BY <1>0 DEF Typed
  <2> QED BY <1>0, <2>1 DEF Typed, Phases, NumReqs, buffers
<1>4. Sync'
  BY <1>0 DEF Sync, InTarget
<1>5. Drawn' /\ Prepared' /\ Drafting' /\ Passes'
  BY <1>0 DEF Drawn, Prepared, Drafting, Passes
<1> QED BY <1>2, <1>3, <1>4, <1>5 DEF IInv

LEMMA EvictInv ==
  ASSUME IInv, NEW r \in Reqs, Evict(r)
  PROVE  IInv'
<1>0. /\ Typed /\ BatchOK /\ Sync
      /\ phase = "idle" /\ phase' = "idle"
      /\ \/ known' = [known EXCEPT ![r] = CHOOSE k \in PromptLens : TRUE]
         \/ known' = known
      /\ computed' = [computed EXCEPT ![r] = 0] /\ offered' = [offered EXCEPT ![r] = 0]
      /\ kv' = [kv EXCEPT ![r] = Empty] /\ missed' = missed \ {r}
      /\ UNCHANGED <<impl, batch, goal, made, buffers>>
  BY DEF IInv, Evict
<1>1. n' = n /\ \A i : Request(i)' = Request(i) /\ Base(i)' = Base(i)
  BY <1>0, SameBatch
<1>2. BatchOK' /\ Counted'
  BY <1>0, <1>1 DEF BatchOK, Counted
<1>3. PICK k \in PromptLens : k = CHOOSE l \in PromptLens : TRUE
  BY <1>0 DEF Typed
<1>4. k \in Nat /\ k > 0 /\ k <= MaxModelLen
  <2>1. PromptLens \subseteq 1 .. MaxModelLen - 1 /\ MaxModelLen \in Nat
    BY Constants
  <2> QED BY <2>1
<1>5. Typed'
  <2>1. /\ known \in [Reqs -> Nat] /\ computed \in [Reqs -> Nat] /\ offered \in [Reqs -> 0 .. K]
        /\ \A q \in Reqs : computed[q] < known[q] /\ known[q] <= MaxModelLen
    BY <1>0 DEF Typed
  <2>2. computed' \in [Reqs -> Nat] /\ offered' \in [Reqs -> 0 .. K]
    BY <1>0, <2>1, Constants
  <2>3. known' \in [Reqs -> Nat] /\ \A q \in Reqs : known'[q] = known[q] \/ (q = r /\ known'[q] = k)
    BY <1>0, <1>3, <1>4, <2>1
  <2>4. \A q \in Reqs : computed'[q] = IF q = r THEN 0 ELSE computed[q]
    BY <1>0, <2>1
  <2>5. \A q \in Reqs : computed'[q] < known'[q] /\ known'[q] <= MaxModelLen
    BY <1>4, <2>1, <2>3, <2>4
  <2>6. DOMAIN kv' = Reqs
    BY <1>0 DEF Typed
  <2> QED BY <1>0, <2>2, <2>3, <2>5, <2>6 DEF Typed, NumReqs, buffers
<1>6. Sync'
  <2> SUFFICES ASSUME NEW q \in Reqs \ missed', NEW p \in 0 .. computed'[q] - 1
               PROVE  kv'[q][p] = "T"
    BY DEF Sync
  <2>1. q # r
    <3>1. computed'[r] = 0
      BY <1>0 DEF Typed
    <3> QED BY <3>1
  <2>2. q \in Reqs \ missed /\ p \in 0 .. computed[q] - 1 /\ kv'[q][p] = kv[q][p]
    BY <1>0, <2>1 DEF Typed
  <2> QED BY <1>0, <2>2 DEF Sync, InTarget
<1>7. Drawn' /\ Prepared' /\ Drafting' /\ Passes'
  BY <1>0 DEF Drawn, Prepared, Drafting, Passes
<1> QED BY <1>2, <1>5, <1>6, <1>7 DEF IInv

-----------------------------------------------------------------------------
(* The invariant holds.                                                      *)

LEMMA InitInv ==
  ASSUME Init
  PROVE  IInv
<1>1. n = 0 /\ batch = <<>>
  BY DEF Init, n
<1>2. BatchOK /\ Counted
  BY <1>1, Constants DEF BatchOK, Counted, Init
<1>3. PromptLens # {} \/ Reqs = {}
  BY DEF Init
<1>4. Typed
  <2>1. PromptLens \subseteq Nat /\ \A k \in PromptLens : 0 < k /\ k <= MaxModelLen
    BY Constants
  <2>2. /\ known \in [Reqs -> PromptLens] /\ computed = [r \in Reqs |-> 0]
        /\ offered = [r \in Reqs |-> 0] /\ kv = [r \in Reqs |-> Empty]
        /\ drafts = [i \in 1..NumReqs |-> [j \in 1..K |-> Wrong]]
        /\ logits = [r \in Reqs |-> [j \in 1..K |-> Wrong]]
        /\ impl \in Impls /\ phase = "idle" /\ goal = 0 /\ made = 0
    BY DEF Init
  <2>3. \A r \in Reqs : computed[r] < known[r] /\ known[r] <= MaxModelLen /\ PromptLens # {}
    BY <2>1, <2>2
  <2>4. /\ known \in [Reqs -> Nat] /\ computed \in [Reqs -> Nat] /\ DOMAIN kv = Reqs
        /\ \A r \in Reqs : DOMAIN logits[r] = 1 .. K
    BY <2>1, <2>2
  <2>5. offered \in [Reqs -> 0 .. K] /\ goal \in 0 .. K /\ made \in 0 .. K
    BY <2>2, Constants
  <2>6. \A i \in 1 .. NumReqs : DOMAIN drafts[i] = 1 .. K
    BY <2>2
  <2> QED BY <2>2, <2>3, <2>4, <2>5, <2>6 DEF Typed, Phases
<1>5. Sync
  BY DEF Sync, Init
<1>6. Drawn /\ Passes /\ Prepared /\ Drafting
  BY DEF Init, Drawn, Passes, Prepared, Drafting
<1> QED BY <1>2, <1>4, <1>5, <1>6 DEF IInv

LEMMA StepInv ==
  ASSUME IInv, [Next]_vars
  PROVE  IInv'
<1>1. CASE Target
  BY <1>1, TargetInv
<1>2. CASE Offer
  BY <1>2, OfferInv
<1>3. CASE \E r \in Reqs : Evict(r)
  BY <1>3, EvictInv
<1>4. CASE Prefill
  BY <1>4, PrefillInv
<1>5. CASE PrepareDecode
  BY <1>5, PrepareDecodeInv
<1>6. CASE GenerateDraft
  BY <1>6, GenerateDraftInv
<1>7. CASE SkipDrafter
  BY <1>7, SkipDrafterInv
<1>8. CASE FirstPass
  BY <1>8, FirstPassInv
<1>9. CASE NextPass
  BY <1>9, NextPassInv
<1>10. CASE UNCHANGED vars
  <2>1. /\ UNCHANGED <<impl, known, computed, offered, steps, phase, batch, goal, made, kv,
                       ids, pos, hid, seq, skey, step, topk, drafts, logits, missed>>
        /\ n' = n /\ NumReqs' = NumReqs
        /\ \A i : Request(i)' = Request(i) /\ Base(i)' = Base(i)
    BY <1>10, SameBatch DEF vars, engine, buffers, NumReqs
  <2>2. Typed' /\ BatchOK' /\ Counted'
    BY <2>1 DEF IInv, Typed, BatchOK, Counted
  <2>3. Sync' /\ Drawn' /\ Passes'
    BY <2>1 DEF IInv, Sync, InTarget, Drawn, Follows, KeepsLogits, Passes
  <2>4. Prepared' /\ Drafting'
    BY <2>1 DEF IInv, Prepared, Primed, Drafting, Lined, InputsV1, InputsV2, Behind
  <2> QED BY <2>2, <2>3, <2>4 DEF IInv
<1> QED BY <1>1, <1>2, <1>3, <1>4, <1>5, <1>6, <1>7, <1>8, <1>9, <1>10 DEF Next

LEMMA IInvHolds == Spec => []IInv
<1>1. Init => IInv
  BY InitInv
<1>2. IInv /\ [Next]_vars => IInv'
  BY StepInv
<1> QED BY <1>1, <1>2, PTL DEF Spec

-----------------------------------------------------------------------------
(* The theorems.                                                             *)

\* At every position the target has computed, the draft cache holds what the
\* draft model makes of the tokens the request really has, however many drafts
\* were rejected, requests evicted and rows of the buffers left as they were.
THEOREM CacheStaysInSync == Spec => []CacheInSync
<1>1. IInv => CacheInSync
  BY DEF IInv, Sync, InTarget, CacheInSync
<1> QED BY <1>1, IInvHolds, PTL

\* Every draft that is offered is the one the draft model makes of its request's
\* tokens and of the drafts before it, drawn with the key of its position, up to
\* the model's length; and V2 keeps for it the logits it was drawn from.
THEOREM DraftsAlwaysFollow == Spec => []DraftsFollow
<1>1. ASSUME IInv PROVE DraftsFollow
  <2> SUFFICES ASSUME phase = "drafted", NEW i \in 1 .. n, NEW j \in 1 .. goal,
                      Request(i) \notin missed, Base(i) + j <= MaxModelLen
               PROVE  /\ drafts[i][j] = Draft(Request(i), Base(i) + 1 + j)
                      /\ impl = "v2" => logits[Request(i)][j] = drafts[i][j]
    BY DEF DraftsFollow
  <2>1. goal <= made
    BY <1>1 DEF IInv, Passes
  <2>2. made \in Nat /\ goal \in Nat
    BY <1>1, Lengths
  <2>3. j \in 1 .. made /\ j <= goal
    BY <2>1, <2>2
  <2>4. Follows(i, j) /\ KeepsLogits(i, j)
    BY <1>1, <2>3 DEF IInv, Drawn
  <2> QED BY <2>4 DEF Follows, KeepsLogits
<1> QED BY <1>1, IInvHolds, PTL
=============================================================================
