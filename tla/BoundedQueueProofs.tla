------------------------ MODULE BoundedQueueProofs ------------------------
(***************************************************************************)
(* Proofs about the bounded queue for every set of requests, every size,   *)
(* every limit and every policy.                                           *)
(*                                                                         *)
(* The invariant Inv joins the three properties of the queue, which need   *)
(* each other: the byte counter is right only while the fates name exactly *)
(* the queued items, and expiry, which drops a prefix, keeps both only     *)
(* because it changes the fates of exactly that prefix.  BytesOf sums over *)
(* a sequence by a recursive function; what it computes is derived from    *)
(* running sums, with induction in the form of a least counterexample.     *)
(***************************************************************************)
EXTENDS BoundedQueue, WellFoundedInduction, TLAPS

---------------------------------------------------------------------------
(* Induction.                                                              *)

(* A set of naturals that is not empty has a least member.                 *)
LEMMA LeastNatural ==
  ASSUME NEW T \in SUBSET Nat, T # {}
  PROVE  \E n \in T : \A m \in T : n <= m
<1> DEFINE R == OpToRel(<, Nat)
<1>1. IsWellFoundedOn(R, Nat)
  BY NatLessThanWellFounded
<1>2. \A m, n \in Nat : m < n => <<m, n>> \in R
  BY DEF OpToRel
<1> HIDE DEF R
<1>3. PICK n \in T : \A m \in T : ~ (<<m, n>> \in R)
  BY <1>1, WFMin
<1>4. n \in Nat /\ \A m \in T : m \in Nat /\ ~ (m < n)
  BY <1>2, <1>3
<1>5. QED
  BY <1>4

(* A set with 0 that is closed under the successor is Nat.                 *)
LEMMA SetInduction ==
  ASSUME NEW S \in SUBSET Nat, 0 \in S, \A n \in S : n + 1 \in S
  PROVE  S = Nat
<1>1. SUFFICES ASSUME Nat \ S # {} PROVE FALSE
  OBVIOUS
<1>2. PICK n \in Nat \ S : \A m \in Nat \ S : n <= m
  BY <1>1, LeastNatural
<1>3. n # 0 /\ n - 1 \in S
  BY <1>2
<1>4. (n - 1) + 1 \in S
  BY <1>3
<1>5. QED
  BY <1>2, <1>4

---------------------------------------------------------------------------
(* Sums of sizes.                                                          *)

(* f holds the running sums of the first n weights.                        *)
RunningSum(f, w, n) ==
  /\ f[0] = 0
  /\ \A i \in 1 .. n : f[i] = f[i - 1] + w[i]

(* Weights have running sums.                                              *)
LEMMA RunningSumExists ==
  ASSUME NEW w, NEW n \in Nat, \A i \in 1 .. n : w[i] \in Nat
  PROVE  \E f \in [0 .. n -> Nat] : RunningSum(f, w, n)
<1> DEFINE Upto(k) == \E f \in [0 .. k -> Nat] : RunningSum(f, w, k)
           S == {k \in Nat : k <= n => Upto(k)}
<1>1. Upto(0)
  <2>1. [i \in 0 .. 0 |-> 0] \in [0 .. 0 -> Nat] /\ RunningSum([i \in 0 .. 0 |-> 0], w, 0)
    BY DEF RunningSum
  <2>2. QED
    BY <2>1
<1>2. ASSUME NEW k \in Nat, k < n, Upto(k) PROVE Upto(k + 1)
  <2>1. PICK f \in [0 .. k -> Nat] : RunningSum(f, w, k)
    BY <1>2
  <2> DEFINE g == [i \in 0 .. (k + 1) |-> IF i = k + 1 THEN f[k] + w[k + 1] ELSE f[i]]
  <2>2. g \in [0 .. (k + 1) -> Nat]
    BY <1>2
  <2>3. RunningSum(g, w, k + 1)
    BY <2>1 DEF RunningSum
  <2>4. QED
    BY <2>2, <2>3
<1> HIDE DEF Upto
<1>3. S = Nat
  <2>1. S \in SUBSET Nat /\ 0 \in S
    BY <1>1
  <2>2. \A k \in S : k + 1 \in S
    BY <1>2
  <2> HIDE DEF S
  <2>3. QED
    BY <2>1, <2>2, SetInduction
<1>4. QED
  BY <1>3 DEF Upto

(* They have one only.                                                     *)
LEMMA RunningSumUnique ==
  ASSUME NEW w, NEW n \in Nat, NEW f, NEW g,
         RunningSum(f, w, n), RunningSum(g, w, n)
  PROVE  \A i \in 0 .. n : f[i] = g[i]
<1> DEFINE S == {k \in Nat : k <= n => f[k] = g[k]}
<1>1. S \in SUBSET Nat /\ 0 \in S
  BY DEF RunningSum
<1>2. ASSUME NEW k \in S PROVE k + 1 \in S
  <2>1. SUFFICES ASSUME k + 1 <= n PROVE f[k + 1] = g[k + 1]
    OBVIOUS
  <2>2. k + 1 \in 1 .. n /\ (k + 1) - 1 = k /\ f[k] = g[k]
    BY <2>1
  <2>3. f[k + 1] = f[k] + w[k + 1] /\ g[k + 1] = g[k] + w[k + 1]
    BY <2>2 DEF RunningSum
  <2>4. QED
    BY <2>2, <2>3
<1>3. S = Nat
  <2> HIDE DEF S
  <2>1. QED
    BY <1>1, <1>2, SetInduction
<1>4. QED
  BY <1>3

SizeAt(s) == [i \in 1 .. Len(s) |-> Size[s[i].id]]

(* Whoever has running sums of the sizes knows the bytes of the sequence.  *)
LEMMA BytesByRunningSum ==
  ASSUME NEW s \in Seq(Item), NEW f, RunningSum(f, SizeAt(s), Len(s))
  PROVE  BytesOf(s) = f[Len(s)]
<1> DEFINE n == Len(s)
           sum == CHOOSE g : g = [i \in 0 .. n |->
                                    IF i = 0 THEN 0 ELSE g[i - 1] + Size[s[i].id]]
<1>1. n \in Nat /\ \A i \in 1 .. n : SizeAt(s)[i] = Size[s[i].id] /\ SizeAt(s)[i] \in Nat
  <2>1. n \in Nat /\ \A i \in 1 .. n : s[i] \in Item
    OBVIOUS
  <2>2. \A i \in 1 .. n : Size[s[i].id] \in Nat
    BY <2>1, LimitAssumption DEF Item
  <2>3. QED
    BY <2>1, <2>2 DEF SizeAt
<1>2. PICK g \in [0 .. n -> Nat] : RunningSum(g, SizeAt(s), n)
  <2> HIDE DEF n
  <2>1. QED
    BY <1>1, RunningSumExists
<1>3. g = [i \in 0 .. n |-> IF i = 0 THEN 0 ELSE g[i - 1] + Size[s[i].id]]
  BY <1>1, <1>2 DEF RunningSum
<1>4. sum = [i \in 0 .. n |-> IF i = 0 THEN 0 ELSE sum[i - 1] + Size[s[i].id]]
  BY <1>3
<1>5. RunningSum(sum, SizeAt(s), n)
  <2> HIDE DEF sum
  <2>1. QED
    BY <1>1, <1>4 DEF RunningSum
<1>6. BytesOf(s) = sum[n]
  BY DEF BytesOf
<1>7. QED
  <2> HIDE DEF sum, n
  <2>1. n \in Nat /\ sum[n] = f[n]
    BY <1>1, <1>5, RunningSumUnique DEF n
  <2>2. QED
    BY <1>6, <2>1 DEF n

(* Sizes along a sequence of items are naturals.                           *)
LEMMA SizesTyped ==
  ASSUME NEW s \in Seq(Item)
  PROVE  /\ Len(s) \in Nat
         /\ \A i \in 1 .. Len(s) : /\ s[i] \in Item
                                  /\ Size[s[i].id] \in Nat
                                  /\ SizeAt(s)[i] = Size[s[i].id]
<1>1. Len(s) \in Nat /\ \A i \in 1 .. Len(s) : s[i] \in Item
  OBVIOUS
<1>2. \A i \in 1 .. Len(s) : Size[s[i].id] \in Nat
  BY <1>1, LimitAssumption DEF Item
<1>3. QED
  BY <1>1, <1>2 DEF SizeAt

(* Every sequence of items has running sums that end in its bytes.         *)
LEMMA RunningSumOf ==
  ASSUME NEW s \in Seq(Item)
  PROVE  \E f \in [0 .. Len(s) -> Nat] :
            RunningSum(f, SizeAt(s), Len(s)) /\ BytesOf(s) = f[Len(s)]
<1>1. PICK f \in [0 .. Len(s) -> Nat] : RunningSum(f, SizeAt(s), Len(s))
  BY SizesTyped, RunningSumExists
<1>2. QED
  BY <1>1, BytesByRunningSum

(* Bytes are a natural number.                                             *)
LEMMA BytesNat ==
  ASSUME NEW s \in Seq(Item)
  PROVE  BytesOf(s) \in Nat
BY RunningSumOf, SizesTyped

(* An empty queue has no bytes.                                            *)
LEMMA BytesEmpty == BytesOf(<<>>) = 0
<1>1. <<>> \in Seq(Item) /\ Len(<<>>) = 0
  OBVIOUS
<1>2. PICK f \in [0 .. Len(<<>>) -> Nat] :
        RunningSum(f, SizeAt(<<>>), Len(<<>>)) /\ BytesOf(<<>>) = f[Len(<<>>)]
  BY <1>1, RunningSumOf
<1>3. QED
  BY <1>1, <1>2 DEF RunningSum

(* An item at the end adds its size.                                       *)
LEMMA BytesAppend ==
  ASSUME NEW s \in Seq(Item), NEW e \in Item
  PROVE  BytesOf(Append(s, e)) = BytesOf(s) + Size[e.id]
<1> DEFINE t == Append(s, e)
<1>1. PICK f \in [0 .. Len(s) -> Nat] :
        RunningSum(f, SizeAt(s), Len(s)) /\ BytesOf(s) = f[Len(s)]
  BY RunningSumOf
<1>2. /\ t \in Seq(Item) /\ Len(t) = Len(s) + 1 /\ t[Len(s) + 1] = e
      /\ \A i \in 1 .. Len(s) : t[i] = s[i]
  OBVIOUS
<1> DEFINE g == [i \in 0 .. Len(t) |-> IF i = Len(t) THEN f[Len(s)] + Size[e.id] ELSE f[i]]
<1>3. RunningSum(g, SizeAt(t), Len(t))
  <2>1. Len(s) \in Nat /\ g[0] = 0
    BY <1>1, <1>2, SizesTyped DEF RunningSum
  <2>2. ASSUME NEW i \in 1 .. Len(t) PROVE g[i] = g[i - 1] + SizeAt(t)[i]
    <3>1. CASE i = Len(t)
      BY <1>2, <2>1, <3>1, SizesTyped
    <3>2. CASE i # Len(t)
      <4>1. i \in 1 .. Len(s)
        BY <1>2, <2>1, <3>2
      <4>2. SizeAt(t)[i] = SizeAt(s)[i]
        BY <1>2, <4>1, SizesTyped
      <4>3. f[i] = f[i - 1] + SizeAt(s)[i]
        BY <1>1, <4>1 DEF RunningSum
      <4>4. QED
        BY <1>2, <2>1, <3>2, <4>1, <4>2, <4>3
    <3>3. QED
      BY <3>1, <3>2
  <2>3. QED
    BY <2>1, <2>2 DEF RunningSum
<1>4. BytesOf(t) = g[Len(t)]
  <2> HIDE DEF g, t
  <2>1. QED
    BY <1>2, <1>3, BytesByRunningSum
<1>5. QED
  BY <1>1, <1>2, <1>4, SizesTyped

(* Cut in two, the parts have the bytes of the whole.                      *)
LEMMA BytesCut ==
  ASSUME NEW s \in Seq(Item), NEW n \in 0 .. Len(s)
  PROVE  BytesOf(s) = BytesOf(SubSeq(s, 1, n)) + BytesOf(SubSeq(s, n + 1, Len(s)))
<1> DEFINE a == SubSeq(s, 1, n)
           b == SubSeq(s, n + 1, Len(s))
<1>1. PICK f \in [0 .. Len(s) -> Nat] :
        RunningSum(f, SizeAt(s), Len(s)) /\ BytesOf(s) = f[Len(s)]
  BY RunningSumOf
<1>2. /\ a \in Seq(Item) /\ Len(a) = n /\ \A i \in 1 .. n : a[i] = s[i]
      /\ b \in Seq(Item) /\ Len(b) = Len(s) - n
      /\ \A i \in 1 .. Len(s) - n : b[i] = s[n + i]
  OBVIOUS
<1> DEFINE g == [i \in 0 .. (Len(s) - n) |-> f[n + i] - f[n]]
<1> HIDE DEF a, b
<1>3. BytesOf(a) = f[n]
  <2>1. ASSUME NEW i \in 1 .. n PROVE SizeAt(a)[i] = SizeAt(s)[i]
    <3>1. i \in 1 .. Len(s) /\ i \in 1 .. Len(a) /\ a[i] = s[i]
      BY <1>2, SizesTyped
    <3>2. SizeAt(s)[i] = Size[s[i].id] /\ SizeAt(a)[i] = Size[a[i].id]
      BY <1>2, <3>1, SizesTyped
    <3>3. QED
      BY <3>1, <3>2
  <2>2. RunningSum(f, SizeAt(a), Len(a))
    BY <1>1, <1>2, <2>1, SizesTyped DEF RunningSum
  <2>3. QED
    BY <1>2, <2>2, BytesByRunningSum
<1>4. BytesOf(b) = f[Len(s)] - f[n]
  <2>1. \A i \in 1 .. Len(s) - n : SizeAt(b)[i] = SizeAt(s)[n + i]
    BY <1>2, SizesTyped
  <2>2. g[0] = 0
    BY SizesTyped
  <2>3. ASSUME NEW i \in 1 .. Len(s) - n PROVE g[i] = g[i - 1] + SizeAt(b)[i]
    <3>1. /\ Len(s) \in Nat /\ i \in 0 .. Len(s) - n /\ i - 1 \in 0 .. Len(s) - n
          /\ n + i \in 1 .. Len(s) /\ (n + i) - 1 = n + (i - 1)
      BY SizesTyped
    <3>2. f[n + i] = f[n + (i - 1)] + SizeAt(s)[n + i]
      BY <1>1, <3>1 DEF RunningSum
    <3>3. SizeAt(s)[n + i] \in Nat /\ f[n + (i - 1)] \in Nat /\ f[n] \in Nat
      BY <3>1, SizesTyped
    <3>4. QED
      BY <2>1, <3>1, <3>2, <3>3
  <2>4. RunningSum(g, SizeAt(b), Len(b))
    BY <1>2, <2>2, <2>3 DEF RunningSum
  <2>5. BytesOf(b) = g[Len(b)]
    <3> HIDE DEF g
    <3>1. QED
      BY <1>2, <2>4, BytesByRunningSum
  <2>6. QED
    BY <1>2, <2>5, SizesTyped
<1>5. f[n] \in Nat /\ f[Len(s)] \in Nat
  BY SizesTyped
<1>6. QED
  BY <1>1, <1>3, <1>4, <1>5 DEF a, b

(* Without one item, its size is missing.                                  *)
LEMMA BytesWithout ==
  ASSUME NEW s \in Seq(Item), NEW k \in 1 .. Len(s)
  PROVE  BytesOf(RemoveAt(s, k)) = BytesOf(s) - Size[s[k].id]
<1> DEFINE t == RemoveAt(s, k)
<1>1. PICK f \in [0 .. Len(s) -> Nat] :
        RunningSum(f, SizeAt(s), Len(s)) /\ BytesOf(s) = f[Len(s)]
  BY RunningSumOf
<1>2. /\ t \in Seq(Item) /\ Len(t) = Len(s) - 1
      /\ \A i \in 1 .. Len(s) - 1 : t[i] = IF i < k THEN s[i] ELSE s[i + 1]
  BY DEF RemoveAt
<1> DEFINE g == [i \in 0 .. (Len(s) - 1) |-> IF i < k THEN f[i] ELSE f[i + 1] - Size[s[k].id]]
<1> HIDE DEF t
<1>3. g[0] = 0
  BY <1>1, SizesTyped DEF RunningSum
<1>4. ASSUME NEW i \in 1 .. Len(s) - 1 PROVE g[i] = g[i - 1] + SizeAt(t)[i]
  <2>1. /\ Len(s) \in Nat /\ i \in 1 .. Len(s) /\ i + 1 \in 1 .. Len(s) /\ (i + 1) - 1 = i
        /\ i - 1 \in 0 .. Len(s)
    BY SizesTyped
  <2>2. /\ f[i] = f[i - 1] + Size[s[i].id] /\ f[i + 1] = f[i] + Size[s[i + 1].id]
        /\ Size[s[i].id] \in Nat /\ Size[s[i + 1].id] \in Nat /\ Size[s[k].id] \in Nat
    BY <1>1, <2>1, SizesTyped DEF RunningSum
  <2>3. f[i] \in Nat /\ f[i - 1] \in Nat /\ f[i + 1] \in Nat
    BY <2>1
  <2>4. SizeAt(t)[i] = Size[t[i].id]
    BY <1>2, <2>1, SizesTyped
  <2>5. CASE i < k
    BY <1>2, <2>1, <2>2, <2>3, <2>4, <2>5
  <2>6. CASE i = k
    <3>1. t[i] = s[i + 1] /\ g[i] = f[i + 1] - Size[s[i].id] /\ g[i - 1] = f[i - 1]
      BY <1>2, <2>1, <2>6
    <3>2. SizeAt(t)[i] = Size[s[i + 1].id]
      BY <2>4, <3>1
    <3>3. f[i + 1] - Size[s[i].id] = f[i - 1] + Size[s[i + 1].id]
      <4>1. \A x, y, z \in Nat : ((x + y) + z) - y = x + z
        OBVIOUS
      <4>2. ((f[i - 1] + Size[s[i].id]) + Size[s[i + 1].id]) - Size[s[i].id]
              = f[i - 1] + Size[s[i + 1].id]
        BY <2>2, <2>3, <4>1, Zenon
      <4>3. QED
        BY <2>2, <4>2, Zenon
    <3> HIDE DEF g
    <3>4. QED
      BY <3>1, <3>2, <3>3, Zenon
  <2>7. CASE i > k
    <3>1. /\ t[i] = s[i + 1] /\ g[i] = f[i + 1] - Size[s[k].id]
          /\ g[i - 1] = f[i] - Size[s[k].id]
      BY <1>2, <2>1, <2>7
    <3>2. SizeAt(t)[i] = Size[s[i + 1].id]
      BY <2>4, <3>1
    <3>3. f[i + 1] - Size[s[k].id] = (f[i] - Size[s[k].id]) + Size[s[i + 1].id]
      <4>1. \A x, y, z \in Nat : (x + z) - y = (x - y) + z
        OBVIOUS
      <4>2. (f[i] + Size[s[i + 1].id]) - Size[s[k].id]
              = (f[i] - Size[s[k].id]) + Size[s[i + 1].id]
        BY <2>2, <2>3, <4>1, Zenon
      <4>3. QED
        BY <2>2, <4>2, Zenon
    <3> HIDE DEF g
    <3>4. QED
      BY <3>1, <3>2, <3>3
  <2>8. QED
    BY <2>1, <2>5, <2>6, <2>7
<1>5. RunningSum(g, SizeAt(t), Len(t))
  BY <1>2, <1>3, <1>4 DEF RunningSum
<1>6. BytesOf(t) = g[Len(t)]
  <2> HIDE DEF g
  <2>1. QED
    BY <1>2, <1>5, BytesByRunningSum
<1>7. g[Len(s) - 1] = f[Len(s)] - Size[s[k].id]
  <2>1. Len(s) \in Nat /\ Size[s[k].id] \in Nat
    BY SizesTyped
  <2>2. CASE k < Len(s)
    BY <2>1, <2>2
  <2>3. CASE k = Len(s)
    <3>1. f[Len(s)] = f[Len(s) - 1] + Size[s[k].id] /\ f[Len(s) - 1] \in Nat
      <4>1. SizeAt(s)[k] = Size[s[k].id] /\ k \in 1 .. Len(s)
        BY SizesTyped
      <4>2. f[k] = f[k - 1] + SizeAt(s)[k] /\ k - 1 \in 0 .. Len(s)
        BY <1>1, <2>1, <4>1 DEF RunningSum
      <4>3. QED
        BY <2>3, <4>1, <4>2
    <3>2. g[Len(s) - 1] = f[Len(s) - 1]
      BY <2>1, <2>3
    <3>3. QED
      BY <2>1, <3>1, <3>2
  <2>4. QED
    BY <2>1, <2>2, <2>3
<1>8. QED
  BY <1>1, <1>2, <1>6, <1>7 DEF t

(* Only the identifiers count.                                             *)
LEMMA BytesById ==
  ASSUME NEW s \in Seq(Item), NEW t \in Seq(Item), Len(s) = Len(t),
         \A i \in 1 .. Len(s) : s[i].id = t[i].id
  PROVE  BytesOf(s) = BytesOf(t)
<1>1. PICK f \in [0 .. Len(s) -> Nat] :
        RunningSum(f, SizeAt(s), Len(s)) /\ BytesOf(s) = f[Len(s)]
  BY RunningSumOf
<1>2. \A i \in 1 .. Len(s) : SizeAt(s)[i] = SizeAt(t)[i]
  BY SizesTyped
<1>3. RunningSum(f, SizeAt(t), Len(t))
  BY <1>1, <1>2 DEF RunningSum
<1>4. QED
  BY <1>1, <1>3, BytesByRunningSum

---------------------------------------------------------------------------
(* The invariant.                                                          *)

Fates == {"none", "queued", "expired", "taken", "replaced"}
In == {"accepted", "waited", "coalesced"}

(* The list of waiters holds each parked producer once, and nobody else.   *)
Parked ==
  /\ \A r \in Requests : phase[r] = "waiting" <=> \E i \in DOMAIN waiters : waiters[i] = r
  /\ \A i, k \in DOMAIN waiters : waiters[i] = waiters[k] => i = k

Inv == TypeOK /\ Parked /\ Bounded /\ NothingLost /\ OldestFirst

(* What a queue q and the fates f of the requests owe each other.          *)
WellKept(q, f) ==
  /\ q \in Seq(Item) /\ f \in [Requests -> Fates]
  /\ \A i, k \in DOMAIN q : q[i].id = q[k].id => i = k
  /\ \A i, k \in DOMAIN q : i < k => q[i].age >= q[k].age
  /\ \A r \in Requests : f[r] = "queued" <=> \E i \in DOMAIN q : q[i].id = r
  /\ \A r \in Requests : f[r] = "replaced" => r \in Coalescable

(* The invariant keeps the queue and the fates in step.                    *)
LEMMA QueueWellKept ==
  ASSUME Inv
  PROVE  WellKept(items, fate)
<1>1. items \in Seq(Item) /\ fate \in [Requests -> Fates]
  BY DEF Inv, TypeOK, Fates
<1>2. \A r \in Requests : fate[r] = "queued" <=> \E i \in DOMAIN items : items[i].id = r
  BY DEF Inv, NothingLost, IdsOf
<1>3. \A r \in Requests : fate[r] = "replaced" => r \in Coalescable
  BY DEF Inv, NothingLost
<1>4. QED
  <2>1. CASE Requests = {}
    <3>1. \A i \in DOMAIN items : FALSE
      BY <1>1, <2>1 DEF Item
    <3>2. QED
      BY <1>1, <1>2, <1>3, <3>1 DEF WellKept
  <2>2. CASE Requests # {}
    BY <1>1, <1>2, <1>3, <2>2 DEF Inv, NothingLost, OldestFirst, WellKept
  <2>3. QED
    BY <2>1, <2>2

(* A new item at the end.                                                  *)
LEMMA AppendKeeps ==
  ASSUME NEW q, NEW f, WellKept(q, f), NEW r \in Requests, f[r] # "queued"
  PROVE  WellKept(Append(q, [id |-> r, age |-> 0]), [f EXCEPT ![r] = "queued"])
<1> DEFINE e == [id |-> r, age |-> 0]
           t == Append(q, e)
           g == [f EXCEPT ![r] = "queued"]
<1>1. e \in Item /\ e.id = r /\ e.age = 0
  BY LimitAssumption DEF Item
<1>2. q \in Seq(Item) /\ Len(q) \in Nat /\ DOMAIN q = 1 .. Len(q)
  BY DEF WellKept
<1> HIDE DEF e
<1>3. /\ t \in Seq(Item) /\ DOMAIN t = 1 .. Len(q) + 1 /\ t[Len(q) + 1] = e
      /\ \A i \in DOMAIN q : t[i] = q[i]
  BY <1>1, <1>2
<1> HIDE DEF t
<1>4. \A i \in DOMAIN t : i \in DOMAIN q \/ i = Len(q) + 1
  BY <1>2, <1>3
<1>5. \A i \in DOMAIN q : q[i].id # r /\ q[i] \in Item
  BY <1>2 DEF WellKept
<1>6. \A i, k \in DOMAIN t : t[i].id = t[k].id => i = k
  BY <1>1, <1>3, <1>4, <1>5 DEF WellKept
<1>7. \A i, k \in DOMAIN t : i < k => t[i].age >= t[k].age
  <2>1. SUFFICES ASSUME NEW i \in DOMAIN t, NEW k \in DOMAIN t, i < k
                 PROVE  t[i].age >= t[k].age
    OBVIOUS
  <2>2. i \in DOMAIN q
    BY <1>2, <1>3, <2>1
  <2>3. CASE k \in DOMAIN q
    BY <1>3, <2>1, <2>2, <2>3 DEF WellKept
  <2>4. CASE k = Len(q) + 1
    <3>1. q[i].age \in Nat
      BY <1>5, <2>2, LimitAssumption DEF Item
    <3>2. QED
      BY <1>1, <1>3, <2>2, <2>4, <3>1
  <2>5. QED
    BY <1>4, <2>3, <2>4
<1>8. g \in [Requests -> Fates]
  BY DEF WellKept, Fates
<1>9. \A x \in Requests : g[x] = "queued" <=> \E i \in DOMAIN t : t[i].id = x
  <2>1. SUFFICES ASSUME NEW x \in Requests
                 PROVE  g[x] = "queued" <=> \E i \in DOMAIN t : t[i].id = x
    OBVIOUS
  <2>2. CASE x = r
    <3>1. Len(q) + 1 \in DOMAIN t /\ g[x] = "queued"
      BY <1>2, <1>3, <2>2 DEF WellKept
    <3>2. QED
      BY <1>1, <1>3, <2>2, <3>1
  <2>3. CASE x # r
    <3>1. g[x] = f[x]
      BY <2>3 DEF WellKept
    <3>2. (\E i \in DOMAIN t : t[i].id = x) <=> \E i \in DOMAIN q : q[i].id = x
      BY <1>1, <1>2, <1>3, <1>4, <2>3
    <3>3. QED
      BY <3>1, <3>2 DEF WellKept
  <2>4. QED
    BY <2>2, <2>3
<1>10. \A x \in Requests : g[x] = "replaced" => x \in Coalescable
  BY DEF WellKept
<1>11. QED
  BY <1>3, <1>6, <1>7, <1>8, <1>9, <1>10 DEF WellKept, t, e

(* What RemoveAt returns, position by position.                            *)
LEMMA Removed ==
  ASSUME NEW S, NEW q \in Seq(S), NEW k \in 1 .. Len(q)
  PROVE  /\ RemoveAt(q, k) \in Seq(S) /\ Len(RemoveAt(q, k)) = Len(q) - 1
         /\ \A i \in 1 .. Len(q) - 1 :
               RemoveAt(q, k)[i] = IF i < k THEN q[i] ELSE q[i + 1]
<1> DEFINE a == SubSeq(q, 1, k - 1)
           b == SubSeq(q, k + 1, Len(q))
<1>1. /\ Len(q) \in Nat /\ k \in Nat
      /\ a \in Seq(S) /\ Len(a) = k - 1 /\ \A i \in 1 .. k - 1 : a[i] = q[i]
      /\ b \in Seq(S) /\ Len(b) = Len(q) - k /\ \A i \in 1 .. Len(q) - k : b[i] = q[k + i]
  OBVIOUS
<1>2. RemoveAt(q, k) = a \o b
  BY DEF RemoveAt
<1> HIDE DEF a, b
<1>3. a \o b \in Seq(S) /\ Len(a \o b) = Len(q) - 1
  BY <1>1
<1>4. ASSUME NEW i \in 1 .. Len(q) - 1
      PROVE  (a \o b)[i] = IF i < k THEN q[i] ELSE q[i + 1]
  <2>1. CASE i < k
    BY <1>1, <2>1
  <2>2. CASE ~ (i < k)
    <3>1. i - (k - 1) \in 1 .. Len(q) - k /\ k + (i - (k - 1)) = i + 1
      BY <1>1, <2>2
    <3>2. (a \o b)[i] = b[i - (k - 1)]
      BY <1>1, <2>2
    <3>3. QED
      BY <1>1, <2>2, <3>1, <3>2
  <2>3. QED
    BY <2>1, <2>2
<1>5. QED
  BY <1>2, <1>3, <1>4

(* The first removed: what Tail does.                                      *)
LEMMA FirstRemoved ==
  ASSUME NEW S, NEW q \in Seq(S), Len(q) > 0
  PROVE  Tail(q) = RemoveAt(q, 1)
<1>1. Len(q) \in Nat /\ 1 \in 1 .. Len(q)
  OBVIOUS
<1>2. /\ Tail(q) \in Seq(S) /\ Len(Tail(q)) = Len(q) - 1
      /\ \A i \in 1 .. Len(q) - 1 : Tail(q)[i] = q[i + 1]
  BY <1>1
<1>3. /\ RemoveAt(q, 1) \in Seq(S) /\ Len(RemoveAt(q, 1)) = Len(q) - 1
      /\ \A i \in 1 .. Len(q) - 1 : RemoveAt(q, 1)[i] = q[i + 1]
  BY <1>1, Removed
<1> DEFINE a == Tail(q)
           b == RemoveAt(q, 1)
<1> HIDE DEF a, b
<1>4. /\ a \in Seq(S) /\ b \in Seq(S) /\ Len(a) = Len(b)
      /\ \A i \in 1 .. Len(a) : a[i] = b[i]
  BY <1>2, <1>3 DEF a, b
<1>5. a = b
  BY <1>4
<1>6. QED
  BY <1>5 DEF a, b

(* An item leaves for another fate.                                        *)
LEMMA RemoveKeeps ==
  ASSUME NEW q, NEW f, WellKept(q, f), NEW k \in DOMAIN q,
         NEW how \in {"taken", "replaced"},
         how = "replaced" => q[k].id \in Coalescable
  PROVE  /\ WellKept(RemoveAt(q, k), [f EXCEPT ![q[k].id] = how])
         /\ Len(RemoveAt(q, k)) = Len(q) - 1
<1> DEFINE t == RemoveAt(q, k)
           g == [f EXCEPT ![q[k].id] = how]
           old == [i \in 1 .. Len(q) - 1 |-> IF i < k THEN i ELSE i + 1]
<1>1. q \in Seq(Item) /\ Len(q) \in Nat /\ DOMAIN q = 1 .. Len(q)
  BY DEF WellKept
<1>2. /\ t \in Seq(Item) /\ Len(t) = Len(q) - 1 /\ DOMAIN t = 1 .. Len(q) - 1
      /\ \A i \in 1 .. Len(q) - 1 : t[i] = IF i < k THEN q[i] ELSE q[i + 1]
  <2>1. k \in 1 .. Len(q)
    BY <1>1
  <2>2. /\ t \in Seq(Item) /\ Len(t) = Len(q) - 1
        /\ \A i \in 1 .. Len(q) - 1 : t[i] = IF i < k THEN q[i] ELSE q[i + 1]
    BY <1>1, <2>1, Removed
  <2> HIDE DEF t
  <2>3. QED
    BY <2>2
<1> HIDE DEF t
<1>3. \A i \in DOMAIN t : old[i] \in DOMAIN q /\ old[i] # k /\ t[i] = q[old[i]]
  BY <1>1, <1>2
<1>4. \A i \in DOMAIN q : i # k => \E j \in DOMAIN t : old[j] = i
  <2>1. SUFFICES ASSUME NEW i \in DOMAIN q, i # k PROVE \E j \in DOMAIN t : old[j] = i
    OBVIOUS
  <2>2. CASE i < k
    BY <1>1, <1>2, <2>2
  <2>3. CASE i > k
    <3>1. i - 1 \in DOMAIN t /\ old[i - 1] = i
      BY <1>1, <1>2, <2>3
    <3>2. QED
      BY <3>1
  <2>4. QED
    BY <1>1, <2>1, <2>2, <2>3
<1> HIDE DEF old
<1>5. q[k] \in Item /\ q[k].id \in Requests
  <2>1. q[k] \in Item
    BY <1>1
  <2>2. QED
    BY <2>1 DEF Item
<1>6. ASSUME NEW i \in DOMAIN t, NEW j \in DOMAIN t
      PROVE  (t[i].id = t[j].id => i = j) /\ (i < j => t[i].age >= t[j].age)
  <2>1. /\ old[i] \in DOMAIN q /\ old[j] \in DOMAIN q
        /\ t[i] = q[old[i]] /\ t[j] = q[old[j]]
    BY <1>3
  <2>2. /\ q[old[i]].id = q[old[j]].id => old[i] = old[j]
        /\ old[i] < old[j] => q[old[i]].age >= q[old[j]].age
    BY <2>1 DEF WellKept
  <2>3. (old[i] = old[j] => i = j) /\ (i < j => old[i] < old[j])
    BY <1>1, <1>2 DEF old
  <2>4. t[i].id = t[j].id => i = j
    BY <2>1, <2>2, <2>3
  <2>5. i < j => t[i].age >= t[j].age
    BY <2>1, <2>2, <2>3
  <2>6. QED
    BY <2>4, <2>5
<1>7. g \in [Requests -> Fates]
  BY DEF WellKept, Fates
<1>8. \A x \in Requests : g[x] = "queued" <=> \E i \in DOMAIN t : t[i].id = x
  <2>1. SUFFICES ASSUME NEW x \in Requests
                 PROVE  g[x] = "queued" <=> \E i \in DOMAIN t : t[i].id = x
    OBVIOUS
  <2>2. CASE x = q[k].id
    <3>1. g[x] = how
      BY <2>2 DEF WellKept
    <3>2. \A i \in DOMAIN t : t[i].id # x
      BY <1>3, <2>2 DEF WellKept
    <3>3. QED
      BY <3>1, <3>2
  <2>3. CASE x # q[k].id
    <3>1. g[x] = f[x]
      BY <2>3 DEF WellKept
    <3>2. (\E i \in DOMAIN t : t[i].id = x) <=> \E i \in DOMAIN q : q[i].id = x
      BY <1>3, <1>4, <2>3
    <3>3. QED
      BY <3>1, <3>2 DEF WellKept
  <2>4. QED
    BY <2>2, <2>3
<1>9. \A x \in Requests : g[x] = "replaced" => x \in Coalescable
  BY <1>5 DEF WellKept
<1>10. QED
  BY <1>2, <1>6, <1>7, <1>8, <1>9 DEF WellKept, t

---------------------------------------------------------------------------
(* Expiry.                                                                 *)

(* expire() stops at the first item that is young enough, and one exists or *)
(* the whole queue is overdue: the loop's CHOOSE has a witness.            *)
LEMMA FrontIsOverdue ==
  ASSUME items \in Seq(Item)
  PROVE  /\ FrontOverdue \in 0 .. Len(items)
         /\ \A i \in 1 .. FrontOverdue : Overdue(items[i])
<1> DEFINE Stop(n) == n < Len(items) => ~ Overdue(items[n + 1])
           T == {n \in 0 .. Len(items) : Stop(n)}
<1>1. Len(items) \in Nat
  OBVIOUS
<1>2. T \in SUBSET Nat /\ Len(items) \in T
  BY <1>1
<1>3. PICK n \in T : \A m \in T : n <= m
  <2> HIDE DEF T
  <2>1. QED
    BY <1>2, LeastNatural
<1>4. \A i \in 1 .. n : Overdue(items[i])
  <2>1. SUFFICES ASSUME NEW i \in 1 .. n PROVE Overdue(items[i])
    OBVIOUS
  <2>2. i - 1 \in 0 .. Len(items) /\ i - 1 < n /\ (i - 1) + 1 = i
    BY <1>1, <1>3
  <2>3. i - 1 \notin T
    <3> HIDE DEF T
    <3>1. i \in Nat /\ n \in Nat
      BY <1>2
    <3>2. QED
      BY <1>3, <2>2, <3>1
  <2>4. QED
    BY <2>2, <2>3
<1> DEFINE Ends(x) == (\A i \in 1 .. x : Overdue(items[i])) /\ Stop(x)
<1>5. n \in 0 .. Len(items) /\ Ends(n)
  BY <1>3, <1>4
<1>6. FrontOverdue = CHOOSE x \in 0 .. Len(items) : Ends(x)
  BY DEF FrontOverdue
<1>7. FrontOverdue \in 0 .. Len(items) /\ Ends(FrontOverdue)
  <2> HIDE DEF Ends
  <2>1. QED
    BY <1>5, <1>6
<1>8. QED
  BY <1>7

(* Expiry leaves a queue that is well kept, with the bytes it counts.      *)
LEMMA ExpiryKeeps ==
  ASSUME Inv
  PROVE  /\ WellKept(Kept, expired)
         /\ Len(Kept) \in Nat /\ Len(Kept) <= Len(items)
         /\ KeptBytes = BytesOf(Kept) /\ KeptBytes \in Nat /\ KeptBytes <= bytes
         /\ \A r \in Requests : expired[r] = "none" <=> fate[r] = "none"
<1> DEFINE n == FrontOverdue
<1>1. WellKept(items, fate) /\ items \in Seq(Item) /\ Len(items) \in Nat
  BY QueueWellKept DEF WellKept
<1>2. n \in 0 .. Len(items)
  BY <1>1, FrontIsOverdue
<1> HIDE DEF n
<1>3. /\ Dropped = SubSeq(items, 1, n)
      /\ Kept = SubSeq(items, n + 1, Len(items))
  BY DEF Dropped, Kept, n
<1>4. /\ Dropped \in Seq(Item) /\ Len(Dropped) = n /\ DOMAIN Dropped = 1 .. n
      /\ \A i \in 1 .. n : Dropped[i] = items[i]
  BY <1>1, <1>2, <1>3
<1>5. /\ Kept \in Seq(Item) /\ Len(Kept) = Len(items) - n /\ DOMAIN Kept = 1 .. Len(items) - n
      /\ \A i \in 1 .. Len(items) - n : Kept[i] = items[n + i]
  BY <1>1, <1>2, <1>3
<1>6. /\ KeptBytes = BytesOf(Kept) /\ KeptBytes \in Nat /\ KeptBytes <= bytes
  <2>1. /\ bytes = BytesOf(Dropped) + BytesOf(Kept)
    BY <1>1, <1>2, <1>3, BytesCut DEF Inv, Bounded
  <2>2. BytesOf(Dropped) \in Nat /\ BytesOf(Kept) \in Nat
    BY <1>4, <1>5, BytesNat
  <2>3. QED
    BY <2>1, <2>2 DEF KeptBytes
<1>7. \A r \in Requests :
        expired[r] = IF \E i \in 1 .. n : items[i].id = r THEN "expired" ELSE fate[r]
  BY <1>4 DEF expired, IdsOf
<1>8. \A r \in Requests : (\E i \in 1 .. n : items[i].id = r) => fate[r] = "queued"
  BY <1>1, <1>2 DEF WellKept
<1>9. \A r \in Requests : expired[r] = "none" <=> fate[r] = "none"
  BY <1>7, <1>8
<1>10. \A i \in DOMAIN Kept : n + i \in DOMAIN items /\ n + i > n /\ Kept[i] = items[n + i]
  BY <1>1, <1>2, <1>5
<1>11. \A i, k \in DOMAIN Kept : Kept[i].id = Kept[k].id => i = k
  <2>1. SUFFICES ASSUME NEW i \in DOMAIN Kept, NEW k \in DOMAIN Kept,
                        Kept[i].id = Kept[k].id
                 PROVE  i = k
    OBVIOUS
  <2>2. n + i = n + k
    BY <1>1, <1>10, <2>1 DEF WellKept
  <2>3. QED
    BY <1>1, <1>2, <1>5, <2>2
<1>12. \A i, k \in DOMAIN Kept : i < k => Kept[i].age >= Kept[k].age
  <2>1. SUFFICES ASSUME NEW i \in DOMAIN Kept, NEW k \in DOMAIN Kept, i < k
                 PROVE  Kept[i].age >= Kept[k].age
    OBVIOUS
  <2>2. n + i < n + k
    BY <1>1, <1>2, <1>5, <2>1
  <2>3. QED
    BY <1>1, <1>10, <2>2 DEF WellKept
<1>13. \A r \in Requests : expired[r] = "queued" <=> \E i \in DOMAIN Kept : Kept[i].id = r
  <2>1. SUFFICES ASSUME NEW r \in Requests
                 PROVE  expired[r] = "queued" <=> \E i \in DOMAIN Kept : Kept[i].id = r
    OBVIOUS
  <2>2. CASE \E i \in 1 .. n : items[i].id = r
    <3>1. PICK i \in 1 .. n : items[i].id = r
      BY <2>2
    <3>2. expired[r] = "expired"
      BY <1>7, <2>2
    <3>3. ASSUME NEW k \in DOMAIN Kept, Kept[k].id = r PROVE FALSE
      <4>1. i \in DOMAIN items /\ n + k \in DOMAIN items /\ items[n + k].id = r
        BY <1>1, <1>2, <1>10, <3>3
      <4>2. i = n + k
        BY <1>1, <3>1, <4>1 DEF WellKept
      <4>3. QED
        BY <1>2, <1>10, <3>3, <4>2
    <3>4. QED
      BY <3>2, <3>3
  <2>3. CASE ~ \E i \in 1 .. n : items[i].id = r
    <3>1. expired[r] = fate[r]
      BY <1>7, <2>3
    <3>2. (\E i \in DOMAIN Kept : Kept[i].id = r) => \E i \in DOMAIN items : items[i].id = r
      BY <1>10
    <3>3. ASSUME NEW i \in DOMAIN items, items[i].id = r
          PROVE  \E k \in DOMAIN Kept : Kept[k].id = r
      <4>1. i \in 1 .. Len(items) /\ i > n
        BY <1>1, <1>2, <2>3, <3>3
      <4>2. i - n \in 1 .. Len(items) - n /\ n + (i - n) = i
        BY <1>1, <1>2, <4>1
      <4>3. Kept[i - n].id = r
        BY <1>5, <3>3, <4>2
      <4>4. QED
        BY <1>5, <4>2, <4>3
    <3>4. QED
      BY <1>1, <3>1, <3>2, <3>3 DEF WellKept
  <2>4. QED
    BY <2>2, <2>3
<1>14. expired \in [Requests -> Fates]
  BY <1>1 DEF expired, WellKept, Fates
<1>15. \A r \in Requests : expired[r] = "replaced" => r \in Coalescable
  BY <1>1, <1>7 DEF WellKept
<1>16. WellKept(Kept, expired)
  BY <1>5, <1>11, <1>12, <1>13, <1>14, <1>15 DEF WellKept
<1>17. QED
  BY <1>1, <1>2, <1>5, <1>6, <1>9, <1>16

---------------------------------------------------------------------------
(* The steps.                                                              *)

Phases == {"new", "waiting", "released", "spilling"} \cup Outcomes

(* What is left to show of a step once its queue is known to be well kept. *)
LEMMA InvReached ==
  ASSUME WellKept(items', fate'), bytes' = BytesOf(items'), Len(items') <= maxItems,
         overflow' # "coalesce" => bytes' <= maxBytes,
         overflow' \in Policies, waiters' \in Seq(Requests), phase' \in [Requests -> Phases],
         Parked',
         \A r \in Requests : phase'[r] \in In <=> fate'[r] # "none"
  PROVE  Inv'
<1>1. items' \in Seq(Item) /\ bytes' \in Nat
  BY BytesNat DEF WellKept
<1>2. TypeOK'
  BY <1>1 DEF TypeOK, WellKept, Fates, Phases
<1>3. Bounded'
  <2>1. BytesOf(items)' = BytesOf(items')
    BY DEF BytesOf
  <2>2. QED
    BY <2>1 DEF Bounded
<1>4. NothingLost'
  <2>1. \A r \in Requests : r \in IdsOf(items)' <=> \E i \in DOMAIN items' : items'[i].id = r
    BY DEF IdsOf
  <2>2. QED
    BY <2>1 DEF NothingLost, WellKept, In
<1>5. OldestFirst'
  BY DEF OldestFirst, WellKept
<1>6. QED
  BY <1>2, <1>3, <1>4, <1>5 DEF Inv

(* The facts about types and limits that the steps share.                  *)
LEMMA Typed ==
  ASSUME Inv
  PROVE  /\ overflow \in Policies /\ waiters \in Seq(Requests) /\ phase \in [Requests -> Phases]
         /\ items \in Seq(Item) /\ Len(items) \in Nat /\ bytes \in Nat
         /\ Len(items) <= maxItems /\ maxItems \in Nat /\ maxBytes \in Nat
         /\ \A r \in Requests : phase[r] \in In <=> fate[r] # "none"
         /\ Parked
BY LimitAssumption DEF Inv, TypeOK, Bounded, NothingLost, In, Phases

(* A producer that is not parked changes its phase.                        *)
LEMMA ParkedStays ==
  ASSUME Inv, NEW r \in Requests, phase[r] # "waiting", NEW p \in Phases, p # "waiting",
         becomes(r, p), UNCHANGED waiters
  PROVE  Parked' /\ waiters' \in Seq(Requests) /\ phase' \in [Requests -> Phases]
BY Typed DEF Parked, becomes

(* expire() and nothing else.                                              *)
LEMMA ExpiryStep ==
  ASSUME Inv, onlyExpire, UNCHANGED overflow
  PROVE  /\ WellKept(items', fate') /\ bytes' = BytesOf(items') /\ Len(items') <= maxItems
         /\ overflow' # "coalesce" => bytes' <= maxBytes
         /\ overflow' \in Policies
         /\ \A x \in Requests : fate'[x] = "none" <=> fate[x] = "none"
<1>1. items' = Kept /\ fate' = expired /\ bytes' = KeptBytes /\ overflow' = overflow
  BY DEF onlyExpire
<1>2. overflow # "coalesce" => bytes <= maxBytes
  BY DEF Inv, Bounded
<1>3. QED
  BY <1>1, <1>2, ExpiryKeeps, Typed

(* enqueue() answers without taking the item: rejected, cancelled before it *)
(* waits, or handed to the spill port.                                     *)
LEMMA TurnedAway ==
  ASSUME Inv, NEW r \in Requests, phase[r] \in {"new", "released"},
         NEW p \in {"rejected", "spilling", "cancelled"},
         onlyExpire, becomes(r, p), UNCHANGED <<overflow, waiters>>
  PROVE  Inv'
<1>1. Parked' /\ waiters' \in Seq(Requests) /\ phase' \in [Requests -> Phases]
  BY ParkedStays DEF Phases, Outcomes
<1>2. \A x \in Requests : phase'[x] \in In <=> fate'[x] # "none"
  <2>1. \A x \in Requests : fate'[x] = "none" <=> fate[x] = "none"
    BY ExpiryStep
  <2>2. \A x \in Requests : phase'[x] \in In <=> phase[x] \in In
    BY Typed DEF becomes, In
  <2>3. QED
    BY <2>1, <2>2, Typed
<1>3. QED
  BY <1>1, <1>2, ExpiryStep, InvReached

(* enqueue() admits an item that has room, at once or after its wait.      *)
LEMMA Admitted ==
  ASSUME Inv, NEW r \in Requests, phase[r] \in {"new", "released"},
         NEW p \in {"accepted", "waited"},
         hasRoomFor(r), admit(r), becomes(r, p), UNCHANGED <<overflow, waiters>>
  PROVE  Inv'
<1> DEFINE e == [id |-> r, age |-> 0]
<1>1. Parked' /\ waiters' \in Seq(Requests) /\ phase' \in [Requests -> Phases]
  BY ParkedStays DEF Phases, Outcomes
<1>2. e \in Item /\ e.id = r
  BY LimitAssumption DEF Item
<1>3. /\ WellKept(Kept, expired) /\ Kept \in Seq(Item) /\ Len(Kept) \in Nat
      /\ KeptBytes = BytesOf(Kept) /\ KeptBytes \in Nat
      /\ expired[r] = "none"
  BY ExpiryKeeps, Typed DEF WellKept, In
<1>4. items' = Append(Kept, e) /\ fate' = [expired EXCEPT ![r] = "queued"]
      /\ bytes' = KeptBytes + Size[r]
  BY DEF admit
<1>5. WellKept(items', fate')
  BY <1>3, <1>4, AppendKeeps
<1>6. bytes' = BytesOf(items')
  <2> HIDE DEF e
  <2>1. QED
    BY <1>2, <1>3, <1>4, BytesAppend
<1>7. Len(items') <= maxItems /\ bytes' <= maxBytes
  BY <1>3, <1>4 DEF hasRoomFor
<1>8. \A x \in Requests : phase'[x] \in In <=> fate'[x] # "none"
  <2>1. \A x \in Requests : x # r => phase'[x] = phase[x] /\ fate'[x] = expired[x]
    BY <1>3, <1>4, Typed DEF becomes, WellKept
  <2>2. phase'[r] \in In /\ fate'[r] # "none"
    BY <1>3, <1>4, Typed DEF becomes, In, WellKept
  <2>3. ASSUME NEW x \in Requests, x # r PROVE phase'[x] \in In <=> fate'[x] # "none"
    <3>1. /\ phase'[x] = phase[x] /\ fate'[x] = expired[x]
          /\ (expired[x] = "none" <=> fate[x] = "none")
      BY <2>1, <2>3, ExpiryKeeps
    <3>2. phase[x] \in In <=> fate[x] # "none"
      BY Typed
    <3>3. QED
      BY <3>1, <3>2, Zenon
  <2>4. QED
    BY <2>2, <2>3
<1>9. QED
  BY <1>1, <1>5, <1>6, <1>7, <1>8, Typed, InvReached

(* coalesce: one display-only item gives way to another.                   *)
LEMMA Merged ==
  ASSUME Inv, NEW r \in Requests, coalesce(r)
  PROVE  Inv'
<1> DEFINE i == First(Mergeable(r))
           e == [id |-> r, age |-> 0]
           q == RemoveAt(Kept, i)
           f == [expired EXCEPT ![Kept[i].id] = "replaced"]
<1>1. phase[r] = "new" /\ overflow = "coalesce" /\ overflow' = overflow
  BY DEF coalesce, full
<1>2. Parked' /\ waiters' \in Seq(Requests) /\ phase' \in [Requests -> Phases]
  BY <1>1, ParkedStays DEF Phases, Outcomes, coalesce
<1>3. /\ WellKept(Kept, expired) /\ Kept \in Seq(Item) /\ Len(Kept) \in Nat
      /\ Len(Kept) <= maxItems /\ KeptBytes = BytesOf(Kept) /\ KeptBytes \in Nat
      /\ expired[r] = "none" /\ DOMAIN Kept = 1 .. Len(Kept)
      /\ expired \in [Requests -> Fates]
  BY <1>1, ExpiryKeeps, Typed DEF WellKept, In
<1>4. i \in DOMAIN Kept /\ Kept[i].id \in Coalescable
  <2>1. Mergeable(r) \subseteq DOMAIN Kept /\ Mergeable(r) # {}
    BY DEF Mergeable, coalesce
  <2>2. \A k \in Mergeable(r) : Kept[k].id \in Coalescable
    BY DEF Mergeable
  <2>3. \E k \in Mergeable(r) : \A j \in Mergeable(r) : k <= j
    <3>1. Mergeable(r) \in SUBSET Nat
      BY <1>3, <2>1
    <3>2. QED
      BY <2>1, <3>1, LeastNatural
  <2>4. i \in Mergeable(r)
    BY <2>3 DEF First
  <2>5. QED
    BY <2>1, <2>2, <2>4
<1> HIDE DEF i
<1>5. Kept[i] \in Item /\ Kept[i].id \in Requests /\ Kept[i].id # r /\ i \in 1 .. Len(Kept)
  <2>1. Kept[i] \in Item /\ i \in 1 .. Len(Kept)
    BY <1>3, <1>4
  <2>2. Kept[i].id \in Requests
    BY <2>1 DEF Item
  <2>3. expired[Kept[i].id] = "queued"
    BY <1>3, <1>4, <2>2 DEF WellKept
  <2>4. QED
    BY <1>3, <2>1, <2>2, <2>3
<1>6. WellKept(q, f) /\ Len(q) = Len(Kept) - 1
  BY <1>3, <1>4, RemoveKeeps
<1>7. f[r] = "none" /\ q \in Seq(Item)
  BY <1>3, <1>5, <1>6 DEF WellKept
<1>8. BytesOf(q) = BytesOf(Kept) - Size[Kept[i].id]
  BY <1>3, <1>5, BytesWithout
<1>9. /\ items' = Append(q, e)
      /\ bytes' = KeptBytes - Size[Kept[i].id] + Size[r]
      /\ fate' = [f EXCEPT ![r] = "queued"]
  BY DEF coalesce, replace, i
<1>10. WellKept(items', fate')
  <2> HIDE DEF q, f
  <2>1. QED
    BY <1>6, <1>7, <1>9, AppendKeeps
<1>11. e \in Item /\ e.id = r
  BY LimitAssumption DEF Item
<1>12. bytes' = BytesOf(items')
  <2> HIDE DEF q, f, e
  <2>1. BytesOf(items') = BytesOf(q) + Size[r]
    BY <1>7, <1>9, <1>11, BytesAppend
  <2>2. QED
    BY <1>3, <1>8, <1>9, <2>1
<1>13. Len(items') <= maxItems
  <2> HIDE DEF q, f, e
  <2>1. Len(items') = Len(q) + 1
    BY <1>7, <1>9
  <2>2. QED
    BY <1>3, <1>6, <2>1
<1>14. \A x \in Requests : phase'[x] \in In <=> fate'[x] # "none"
  <2>1. \A x \in Requests : x # r => phase'[x] = phase[x]
    BY Typed DEF becomes, coalesce
  <2>2. phase'[r] = "coalesced"
    BY Typed DEF becomes, coalesce
  <2>3. \A x \in Requests : x # r /\ x # Kept[i].id => fate'[x] = expired[x]
    BY <1>3, <1>5, <1>9
  <2>4. fate'[r] = "queued" /\ fate'[Kept[i].id] = "replaced"
    BY <1>3, <1>5, <1>9
  <2>5. expired[Kept[i].id] = "queued"
    BY <1>3, <1>4, <1>5 DEF WellKept
  <2>6. QED
    BY <2>1, <2>2, <2>3, <2>4, <2>5, Typed, ExpiryKeeps DEF In
<1>15. QED
  BY <1>1, <1>2, <1>10, <1>12, <1>13, <1>14, Typed, InvReached

(* The wait policy parks a producer at the end of the list.                *)
LEMMA Parks ==
  ASSUME Inv, NEW r \in Requests, wait(r)
  PROVE  Inv'
<1>1. /\ phase[r] = "new" /\ overflow' = overflow /\ onlyExpire
      /\ phase' = [phase EXCEPT ![r] = "waiting"] /\ waiters' = Append(waiters, r)
  BY DEF wait, full, becomes
<1>2. waiters \in Seq(Requests) /\ Len(waiters) \in Nat /\ DOMAIN waiters = 1 .. Len(waiters)
  BY Typed
<1>3. /\ waiters' \in Seq(Requests) /\ DOMAIN waiters' = 1 .. Len(waiters) + 1
      /\ waiters'[Len(waiters) + 1] = r /\ \A i \in DOMAIN waiters : waiters'[i] = waiters[i]
  BY <1>1, <1>2
<1>4. \A i \in DOMAIN waiters : waiters[i] # r
  BY <1>1, Typed DEF Parked
<1>5. \A i \in DOMAIN waiters' : i \in DOMAIN waiters \/ i = Len(waiters) + 1
  BY <1>2, <1>3
<1>6. \A i, k \in DOMAIN waiters' : waiters'[i] = waiters'[k] => i = k
  BY <1>3, <1>4, <1>5, Typed DEF Parked
<1>7. ASSUME NEW x \in Requests
      PROVE  phase'[x] = "waiting" <=> \E i \in DOMAIN waiters' : waiters'[i] = x
  <2>1. CASE x = r
    <3>1. phase'[x] = "waiting" /\ Len(waiters) + 1 \in DOMAIN waiters'
      BY <1>1, <1>2, <1>3, <2>1, Typed
    <3>2. QED
      BY <1>3, <2>1, <3>1
  <2>2. CASE x # r
    <3>1. phase'[x] = phase[x]
      BY <1>1, <2>2, Typed
    <3>2. (\E i \in DOMAIN waiters' : waiters'[i] = x) <=> \E i \in DOMAIN waiters : waiters[i] = x
      BY <1>2, <1>3, <1>5, <2>2
    <3>3. QED
      BY <3>1, <3>2, Typed DEF Parked
  <2>3. QED
    BY <2>1, <2>2
<1>8. phase' \in [Requests -> Phases]
  BY <1>1, Typed DEF Phases
<1>9. \A x \in Requests : phase'[x] \in In <=> fate'[x] # "none"
  <2>1. \A x \in Requests : fate'[x] = "none" <=> fate[x] = "none"
    BY <1>1, ExpiryStep
  <2>2. \A x \in Requests : phase'[x] \in In <=> phase[x] \in In
    BY <1>1, Typed DEF In
  <2>3. QED
    BY <2>1, <2>2, Typed
<1>10. Parked'
  BY <1>6, <1>7 DEF Parked
<1>11. QED
  BY <1>1, <1>3, <1>8, <1>9, <1>10, ExpiryStep, InvReached

(* The queue itself is left alone.                                         *)
LEMMA QueueUntouched ==
  ASSUME Inv, UNCHANGED <<overflow, items, bytes, fate>>,
         waiters' \in Seq(Requests), phase' \in [Requests -> Phases], Parked',
         \A x \in Requests : phase'[x] \in In <=> phase[x] \in In
  PROVE  Inv'
<1>1. WellKept(items', fate')
  BY QueueWellKept
<1>2. bytes' = BytesOf(items') /\ (overflow' # "coalesce" => bytes' <= maxBytes)
  BY DEF Inv, Bounded
<1>3. QED
  BY <1>1, <1>2, Typed, InvReached

(* The spill port answers.                                                 *)
LEMMA Spills ==
  ASSUME Inv, NEW r \in Requests, spilled(r)
  PROVE  Inv'
<1>1. PICK p \in {"spilled", "failed"} : becomes(r, p)
  BY DEF spilled
<1>2. Parked' /\ waiters' \in Seq(Requests) /\ phase' \in [Requests -> Phases]
  BY <1>1, ParkedStays DEF spilled, Phases, Outcomes
<1>3. \A x \in Requests : phase'[x] \in In <=> phase[x] \in In
  BY <1>1, Typed DEF becomes, spilled, In
<1>4. QED
  BY <1>2, <1>3, QueueUntouched DEF spilled

(* A waiter is taken out of the list and no longer waits.                  *)
LEMMA Unparked ==
  ASSUME Inv, NEW k \in DOMAIN waiters, NEW p \in Phases, p # "waiting",
         waiters' = RemoveAt(waiters, k), becomes(waiters[k], p)
  PROVE  Parked' /\ waiters' \in Seq(Requests) /\ phase' \in [Requests -> Phases]
<1> DEFINE old == [i \in 1 .. Len(waiters) - 1 |-> IF i < k THEN i ELSE i + 1]
<1>1. waiters \in Seq(Requests) /\ Len(waiters) \in Nat /\ DOMAIN waiters = 1 .. Len(waiters)
  BY Typed
<1>2. /\ waiters' \in Seq(Requests) /\ Len(waiters') = Len(waiters) - 1
      /\ \A i \in 1 .. Len(waiters) - 1 :
            waiters'[i] = IF i < k THEN waiters[i] ELSE waiters[i + 1]
  <2>1. k \in 1 .. Len(waiters)
    BY <1>1
  <2>2. QED
    BY <1>1, <2>1, Removed
<1>3. DOMAIN waiters' = 1 .. Len(waiters) - 1
  BY <1>2
<1>4. \A i \in DOMAIN waiters' : /\ old[i] \in DOMAIN waiters /\ old[i] # k
                               /\ waiters'[i] = waiters[old[i]]
  BY <1>1, <1>2, <1>3
<1>5. \A i \in DOMAIN waiters : i # k => \E j \in DOMAIN waiters' : old[j] = i
  <2>1. SUFFICES ASSUME NEW i \in DOMAIN waiters, i # k
                 PROVE  \E j \in DOMAIN waiters' : old[j] = i
    OBVIOUS
  <2>2. CASE i < k
    BY <1>1, <1>3, <2>2
  <2>3. CASE i > k
    <3>1. i - 1 \in DOMAIN waiters' /\ old[i - 1] = i
      BY <1>1, <1>3, <2>3
    <3>2. QED
      BY <3>1
  <2>4. QED
    BY <1>1, <2>1, <2>2, <2>3
<1>6. ASSUME NEW i \in DOMAIN waiters', NEW j \in DOMAIN waiters', waiters'[i] = waiters'[j]
      PROVE  i = j
  <2>1. old[i] = old[j]
    <3> HIDE DEF old
    <3>1. /\ old[i] \in DOMAIN waiters /\ old[j] \in DOMAIN waiters
          /\ waiters[old[i]] = waiters[old[j]]
      BY <1>4, <1>6
    <3>2. QED
      BY <3>1, Typed DEF Parked
  <2>2. QED
    BY <1>1, <1>3, <2>1
<1> HIDE DEF old
<1>7. waiters[k] \in Requests /\ phase' = [phase EXCEPT ![waiters[k]] = p]
  BY <1>1 DEF becomes
<1>8. ASSUME NEW x \in Requests
      PROVE  phase'[x] = "waiting" <=> \E i \in DOMAIN waiters' : waiters'[i] = x
  <2>1. CASE x = waiters[k]
    <3>1. phase'[x] = p
      BY <1>7, <2>1, Typed
    <3>2. \A i \in DOMAIN waiters' : waiters'[i] # x
      BY <1>4, <2>1, Typed DEF Parked
    <3>3. QED
      BY <3>1, <3>2
  <2>2. CASE x # waiters[k]
    <3>1. phase'[x] = phase[x]
      BY <1>7, <2>2, Typed
    <3>2. (\E i \in DOMAIN waiters' : waiters'[i] = x) <=> \E i \in DOMAIN waiters : waiters[i] = x
      BY <1>4, <1>5, <2>2
    <3>3. QED
      BY <3>1, <3>2, Typed DEF Parked
  <2>3. QED
    BY <2>1, <2>2
<1>9. QED
  BY <1>2, <1>6, <1>7, <1>8, Typed DEF Parked

(* A signal cancels a parked producer.                                     *)
LEMMA Aborts ==
  ASSUME Inv, NEW r \in Requests, abort(r)
  PROVE  Inv'
<1>1. PICK k \in DOMAIN waiters : waiters[k] = r /\ waiters' = RemoveAt(waiters, k)
  BY DEF abort
<1>2. becomes(waiters[k], "cancelled") /\ phase[r] = "waiting"
  BY <1>1 DEF abort
<1>3. Parked' /\ waiters' \in Seq(Requests) /\ phase' \in [Requests -> Phases]
  BY <1>1, <1>2, Unparked DEF Phases, Outcomes
<1>4. \A x \in Requests : phase'[x] \in In <=> phase[x] \in In
  BY <1>1, <1>2, Typed DEF becomes, In
<1>5. QED
  BY <1>3, <1>4, QueueUntouched DEF abort

(* The item at the front leaves, whatever becomes of the waiters.          *)
LEMMA TakenOut ==
  ASSUME Inv, Kept # <<>>, take, UNCHANGED overflow
  PROVE  /\ WellKept(items', fate') /\ bytes' = BytesOf(items') /\ Len(items') <= maxItems
         /\ overflow' # "coalesce" => bytes' <= maxBytes
         /\ overflow' \in Policies
         /\ \A x \in Requests : fate'[x] = "none" <=> fate[x] = "none"
<1> DEFINE x == Kept[1].id
<1>1. /\ WellKept(Kept, expired) /\ Kept \in Seq(Item) /\ Len(Kept) \in Nat
      /\ Len(Kept) <= maxItems /\ KeptBytes = BytesOf(Kept) /\ KeptBytes \in Nat
      /\ DOMAIN Kept = 1 .. Len(Kept) /\ expired \in [Requests -> Fates]
  BY ExpiryKeeps, Typed DEF WellKept
<1>2. Len(Kept) > 0 /\ 1 \in 1 .. Len(Kept)
  BY <1>1
<1>3. Kept[1] \in Item /\ x \in Requests
  <2>1. Kept[1] \in Item
    BY <1>1, <1>2
  <2>2. QED
    BY <2>1 DEF Item
<1>4. Head(Kept) = Kept[1] /\ Tail(Kept) = RemoveAt(Kept, 1)
  <2>1. Head(Kept) = Kept[1]
    BY <1>1, <1>2
  <2>2. QED
    BY <1>1, <1>2, <2>1, FirstRemoved
<1>5. /\ items' = RemoveAt(Kept, 1) /\ bytes' = KeptBytes - Size[x]
      /\ fate' = [expired EXCEPT ![x] = "taken"]
  BY <1>4 DEF take
<1>6. WellKept(items', fate') /\ Len(items') = Len(Kept) - 1
  BY <1>1, <1>2, <1>5, RemoveKeeps
<1>7. bytes' = BytesOf(items')
  BY <1>1, <1>2, <1>5, BytesWithout
<1>8. bytes' \in Nat /\ bytes' <= KeptBytes
  <2>1. Size[x] \in Nat
    BY <1>3, LimitAssumption
  <2>2. bytes' \in Nat
    BY <1>6, <1>7, BytesNat DEF WellKept
  <2>3. QED
    BY <1>1, <1>5, <2>1, <2>2
<1>9. overflow' # "coalesce" => bytes' <= maxBytes
  <2>1. overflow # "coalesce" => KeptBytes <= maxBytes
    BY <1>1, ExpiryKeeps, Typed DEF Inv, Bounded
  <2>2. QED
    BY <1>1, <1>8, <2>1, Typed
<1>10. \A y \in Requests : fate'[y] = "none" <=> fate[y] = "none"
  <2>1. expired[x] = "queued" /\ fate'[x] = "taken"
    BY <1>1, <1>2, <1>3, <1>5 DEF WellKept
  <2>2. \A y \in Requests : y # x => fate'[y] = expired[y]
    BY <1>1, <1>5
  <2>3. QED
    BY <2>1, <2>2, ExpiryKeeps
<1>11. QED
  BY <1>1, <1>6, <1>7, <1>9, <1>10, Typed

(* dequeue().                                                              *)
LEMMA Dequeues ==
  ASSUME Inv, dequeue
  PROVE  Inv'
<1>1. /\ WellKept(items', fate') /\ bytes' = BytesOf(items') /\ Len(items') <= maxItems
      /\ overflow' # "coalesce" => bytes' <= maxBytes
      /\ overflow' \in Policies
      /\ \A x \in Requests : fate'[x] = "none" <=> fate[x] = "none"
  BY TakenOut DEF dequeue
<1>2. /\ Parked' /\ waiters' \in Seq(Requests) /\ phase' \in [Requests -> Phases]
      /\ \A x \in Requests : phase'[x] \in In <=> phase[x] \in In
  <2>1. CASE waiters = <<>>
    BY <2>1, Typed DEF dequeue, Parked
  <2>2. CASE waiters # <<>>
    <3>1. waiters \in Seq(Requests) /\ Len(waiters) \in Nat /\ 1 \in 1 .. Len(waiters)
      BY <2>2, Typed
    <3>2. 1 \in DOMAIN waiters /\ waiters[1] \in Requests /\ Head(waiters) = waiters[1]
      BY <3>1
    <3>3. waiters' = RemoveAt(waiters, 1) /\ becomes(waiters[1], "released")
      BY <2>2, <3>1, <3>2, FirstRemoved DEF dequeue
    <3>4. phase[waiters[1]] = "waiting"
      BY <3>2, Typed DEF Parked
    <3>5. Parked' /\ waiters' \in Seq(Requests) /\ phase' \in [Requests -> Phases]
      BY <3>2, <3>3, Unparked DEF Phases
    <3>6. \A x \in Requests : phase'[x] \in In <=> phase[x] \in In
      BY <3>2, <3>3, <3>4, Typed DEF becomes, In
    <3>7. QED
      BY <3>5, <3>6
  <2>3. QED
    BY <2>1, <2>2
<1>3. \A x \in Requests : phase'[x] \in In <=> fate'[x] # "none"
  BY <1>1, <1>2, Typed
<1>4. QED
  BY <1>1, <1>2, <1>3, InvReached

(* peek(), and dequeue() when nothing is left after expiry.                *)
LEMMA Peeks ==
  ASSUME Inv, peek
  PROVE  Inv'
<1>1. Parked' /\ waiters' \in Seq(Requests) /\ phase' \in [Requests -> Phases]
  BY Typed DEF peek, Parked
<1>2. \A x \in Requests : phase'[x] \in In <=> fate'[x] # "none"
  <2>1. \A x \in Requests : fate'[x] = "none" <=> fate[x] = "none"
    BY ExpiryStep DEF peek
  <2>2. QED
    BY <2>1, Typed DEF peek
<1>3. QED
  BY <1>1, <1>2, ExpiryStep, InvReached DEF peek

(* drain(): every waiter is released at once.                              *)
LEMMA Drains ==
  ASSUME Inv, drain
  PROVE  Inv'
<1>1. waiters' = <<>> /\ waiters' \in Seq(Requests) /\ DOMAIN waiters' = {}
  BY DEF drain
<1>2. \A x \in Requests : phase'[x] = IF phase[x] = "waiting" THEN "released" ELSE phase[x]
  BY Typed DEF drain, Parked, Range
<1>3. phase' \in [Requests -> Phases]
  <2>1. phase' = [x \in Requests |-> IF x \in Range(waiters) THEN "released" ELSE phase[x]]
    BY DEF drain
  <2>2. QED
    BY <2>1, Typed DEF Phases
<1>4. Parked'
  BY <1>1, <1>2 DEF Parked
<1>5. \A x \in Requests : phase'[x] \in In <=> phase[x] \in In
  BY <1>2 DEF In
<1>6. QED
  BY <1>1, <1>3, <1>4, <1>5, QueueUntouched DEF drain

(* The clock: every age grows alike, up to the age at which an item is     *)
(* overdue.                                                                *)
LEMMA Ages ==
  ASSUME Inv, tick
  PROVE  Inv'
<1>1. WellKept(items, fate) /\ items \in Seq(Item) /\ Len(items) \in Nat
      /\ DOMAIN items = 1 .. Len(items)
  BY QueueWellKept DEF WellKept
<1>2. \A i \in DOMAIN items : items[i] \in Item /\ items[i].id \in Requests
                             /\ items[i].age \in 0 .. maxItemAge + 1
  <2>1. \A i \in DOMAIN items : items[i] \in Item
    BY <1>1
  <2>2. QED
    BY <2>1 DEF Item
<1>3. /\ DOMAIN items' = DOMAIN items
      /\ \A i \in DOMAIN items :
            items'[i] = [items[i] EXCEPT !.age = IF Overdue(items[i]) THEN items[i].age
                                                ELSE items[i].age + 1]
  BY DEF tick
<1>4. \A i \in DOMAIN items :
         /\ items'[i] \in Item /\ items'[i].id = items[i].id
         /\ items'[i].age = IF items[i].age > maxItemAge THEN items[i].age
                             ELSE items[i].age + 1
  BY <1>2, <1>3, LimitAssumption DEF Item, Overdue
<1>5. items' \in Seq(Item) /\ Len(items') = Len(items)
  <2>1. items' = [i \in 1 .. Len(items) |-> items'[i]]
    BY <1>1 DEF tick
  <2>2. QED
    BY <1>1, <1>4, <2>1
<1>6. \A i, k \in DOMAIN items' : items'[i].id = items'[k].id => i = k
  BY <1>1, <1>3, <1>4 DEF WellKept
<1>7. \A i, k \in DOMAIN items' : i < k => items'[i].age >= items'[k].age
  <2>1. SUFFICES ASSUME NEW i \in DOMAIN items, NEW k \in DOMAIN items, i < k
                 PROVE  items'[i].age >= items'[k].age
    BY <1>3
  <2>2. items[i].age >= items[k].age
    BY <1>1, <2>1 DEF WellKept
  <2>3. items[i].age \in Nat /\ items[k].age \in Nat /\ items[k].age <= maxItemAge + 1
    BY <1>2, LimitAssumption
  <2>4. QED
    BY <1>4, <2>2, <2>3, LimitAssumption
<1>8. \A r \in Requests : fate'[r] = "queued" <=> \E i \in DOMAIN items' : items'[i].id = r
  <2>1. SUFFICES ASSUME NEW r \in Requests
                 PROVE  fate'[r] = "queued" <=> \E i \in DOMAIN items' : items'[i].id = r
    OBVIOUS
  <2>2. fate[r] = "queued" <=> \E i \in DOMAIN items : items[i].id = r
    BY <1>1 DEF WellKept
  <2>3. (\E i \in DOMAIN items' : items'[i].id = r) <=> \E i \in DOMAIN items : items[i].id = r
    BY <1>3, <1>4
  <2>4. fate'[r] = fate[r]
    BY DEF tick
  <2>5. QED
    BY <2>2, <2>3, <2>4
<1>9. WellKept(items', fate')
  BY <1>1, <1>5, <1>6, <1>7, <1>8 DEF WellKept, tick
<1>10. bytes' = BytesOf(items')
  <2>1. BytesOf(items') = BytesOf(items)
    BY <1>1, <1>3, <1>4, <1>5, BytesById
  <2>2. QED
    BY <2>1 DEF tick, Inv, Bounded
<1>11. Len(items') <= maxItems /\ (overflow' # "coalesce" => bytes' <= maxBytes)
  BY <1>5, Typed DEF tick, Inv, Bounded
<1>12. /\ overflow' \in Policies /\ waiters' \in Seq(Requests)
       /\ phase' \in [Requests -> Phases] /\ Parked'
       /\ \A r \in Requests : phase'[r] \in In <=> fate'[r] # "none"
  BY Typed DEF tick, Parked
<1>13. QED
  BY <1>9, <1>10, <1>11, <1>12, InvReached

(* Every outcome of enqueue() up to its first await.                       *)
LEMMA EnqueueKeeps ==
  ASSUME Inv, NEW r \in Requests, Enqueue(r)
  PROVE  Inv'
<1>1. CASE accept(r)
  BY <1>1, Admitted DEF accept
<1>2. CASE reject(r)
  BY <1>2, TurnedAway DEF reject, full
<1>3. CASE coalesce(r)
  BY <1>3, Merged
<1>4. CASE spill(r)
  BY <1>4, TurnedAway DEF spill, full
<1>5. CASE wait(r)
  BY <1>5, Parks
<1>6. CASE abortedEarly(r)
  BY <1>6, TurnedAway DEF abortedEarly, full
<1>7. QED
  BY <1>1, <1>2, <1>3, <1>4, <1>5, <1>6 DEF Enqueue

(* A released producer tests for room again.                               *)
LEMMA Resumes ==
  ASSUME Inv, NEW r \in Requests, resume(r)
  PROVE  Inv'
<1>1. CASE hasRoomFor(r)
  BY <1>1, Admitted DEF resume
<1>2. CASE ~ hasRoomFor(r)
  BY <1>2, TurnedAway DEF resume
<1>3. QED
  BY <1>1, <1>2

(* A new queue is empty.                                                   *)
LEMMA InvInit ==
  ASSUME Init
  PROVE  Inv
<1>1. TypeOK
  BY DEF Init, TypeOK
<1>2. Parked
  BY DEF Init, Parked
<1>3. Bounded
  BY BytesEmpty, LimitAssumption DEF Init, Bounded
<1>4. NothingLost
  BY DEF Init, NothingLost, IdsOf
<1>5. OldestFirst
  BY DEF Init, OldestFirst
<1>6. QED
  BY <1>1, <1>2, <1>3, <1>4, <1>5 DEF Inv

(* Every step, and stuttering, keeps the invariant.                        *)
LEMMA InvStep ==
  ASSUME Inv, [Next]_vars
  PROVE  Inv'
<1>1. ASSUME NEW r \in Requests, Enqueue(r) \/ spilled(r) \/ abort(r) \/ resume(r)
      PROVE  Inv'
  BY <1>1, EnqueueKeeps, Spills, Aborts, Resumes
<1>2. CASE dequeue
  BY <1>2, Dequeues
<1>3. CASE peek
  BY <1>3, Peeks
<1>4. CASE drain
  BY <1>4, Drains
<1>5. CASE tick
  BY <1>5, Ages
<1>6. CASE UNCHANGED vars
  <2>1. \A x \in Requests : phase'[x] \in In <=> phase[x] \in In
    BY <1>6 DEF vars
  <2>2. QED
    BY <1>6, <2>1, QueueUntouched, Typed DEF vars, Parked
<1>7. QED
  BY <1>1, <1>2, <1>3, <1>4, <1>5, <1>6 DEF Next

---------------------------------------------------------------------------
(* The theorems.                                                           *)

(* The strengthened invariant holds in every reachable state.              *)
THEOREM Invariance == Spec => []Inv
<1>1. Init => Inv
  BY InvInit
<1>2. Inv /\ [Next]_vars => Inv'
  BY InvStep
<1>3. QED
  BY <1>1, <1>2, PTL DEF Spec

(* Type correctness: in particular no age grows past the age at which the  *)
(* item is overdue, and the byte counter never goes below zero.            *)
THEOREM Typing == Spec => []TypeOK
<1>1. Inv => TypeOK
  BY DEF Inv
<1>2. QED
  BY <1>1, Invariance, PTL

(* The list of waiters that dequeue() and drain() release from holds every *)
(* parked producer once and nobody else: no release is spent on a producer *)
(* that aborted or was released before.                                    *)
THEOREM WaitersExact == Spec => []Parked
<1>1. Inv => Parked
  BY DEF Inv
<1>2. QED
  BY <1>1, Invariance, PTL

(* A queue of items of at most m bytes holds at most m bytes per item.     *)
LEMMA BytesByItems ==
  ASSUME NEW s \in Seq(Item), NEW m \in Nat, \A r \in Requests : Size[r] <= m
  PROVE  BytesOf(s) <= Len(s) * m
<1>1. PICK f \in [0 .. Len(s) -> Nat] :
        RunningSum(f, SizeAt(s), Len(s)) /\ BytesOf(s) = f[Len(s)]
  BY RunningSumOf
<1> DEFINE n == Len(s)
           S == {k \in Nat : k <= n => f[k] <= k * m}
<1>2. n \in Nat /\ \A i \in 1 .. n : SizeAt(s)[i] \in Nat /\ SizeAt(s)[i] <= m
  BY SizesTyped DEF Item
<1> HIDE DEF n
<1>3. S \in SUBSET Nat /\ 0 \in S
  BY <1>1, <1>2 DEF RunningSum, n
<1>4. ASSUME NEW k \in S PROVE k + 1 \in S
  <2>1. SUFFICES ASSUME k + 1 <= n PROVE f[k + 1] <= (k + 1) * m
    OBVIOUS
  <2>2. k \in Nat /\ k + 1 \in 1 .. n /\ (k + 1) - 1 = k /\ f[k] <= k * m /\ f[k] \in Nat
    BY <1>1, <1>2, <2>1 DEF n
  <2>3. f[k + 1] = f[k] + SizeAt(s)[k + 1] /\ SizeAt(s)[k + 1] \in Nat /\ SizeAt(s)[k + 1] <= m
    BY <1>1, <1>2, <2>2 DEF RunningSum, n
  <2>4. (k + 1) * m = k * m + m /\ k * m \in Nat
    BY <2>2
  <2>5. QED
    BY <2>2, <2>3, <2>4
<1>5. S = Nat
  <2> HIDE DEF S
  <2>1. QED
    BY <1>3, <1>4, SetInduction
<1>6. QED
  BY <1>1, <1>2, <1>5 DEF n

(* The byte counter is exact and the item limit holds under every policy,  *)
(* and the byte limit under every policy that does not merge, whatever     *)
(* admit(), expire() and dequeue() did before.  Under the policy that      *)
(* does, coalesce, a merge (bounded-queue.ts replace) may pass maxBytes;   *)
(* there the queue is bounded by its items, each of at most m bytes.       *)
THEOREM LimitsHold ==
  ASSUME NEW m \in Nat, \A r \in Requests : Size[r] <= m
  PROVE  Spec => [](Bounded /\ bytes <= maxItems * m)
<1>1. ASSUME Inv PROVE Bounded /\ bytes <= maxItems * m
  <2>1. Bounded /\ bytes = BytesOf(items) /\ bytes \in Nat
    BY <1>1, Typed DEF Inv, Bounded
  <2>2. Len(items) \in Nat /\ maxItems \in Nat /\ Len(items) <= maxItems
    BY <1>1, Typed
  <2>3. BytesOf(items) <= Len(items) * m
    BY <1>1, Typed, BytesByItems
  <2>4. \A a, b, c \in Nat : a <= b => a * c <= b * c
    OBVIOUS
  <2>5. Len(items) * m <= maxItems * m /\ Len(items) * m \in Nat /\ maxItems * m \in Nat
    BY <2>2, <2>4
  <2>6. QED
    BY <2>1, <2>3, <2>5
<1>2. QED
  BY <1>1, Invariance, PTL

(* A merge that puts a larger item in the place of a smaller one.          *)
GrowingMerge(r) == coalesce(r) /\ Size[r] > Size[Kept[First(Mergeable(r))].id]

(* Nothing but such a merge ever makes the queue grow past its byte limit: *)
(* accept() and resume() test for room, and every other step of a          *)
(* producer, the consumer, the owner or the clock adds no bytes.           *)
THEOREM OnlyMergesExceed ==
  Spec => [][bytes' > bytes /\ bytes' > maxBytes => \E r \in Requests : GrowingMerge(r)]_vars
<1>1. ASSUME Inv, Next, bytes' > bytes, bytes' > maxBytes
      PROVE  \E r \in Requests : GrowingMerge(r)
  <2>1. bytes \in Nat /\ maxBytes \in Nat /\ KeptBytes \in Nat /\ KeptBytes <= bytes
    BY <1>1, Typed, ExpiryKeeps
  <2>2. ~ onlyExpire /\ bytes' # bytes
    BY <1>1, <2>1 DEF onlyExpire
  <2>3. ASSUME NEW r \in Requests, hasRoomFor(r), admit(r) PROVE FALSE
    <3>1. KeptBytes + Size[r] <= maxBytes /\ bytes' = KeptBytes + Size[r] /\ Size[r] \in Nat
      BY <2>3, LimitAssumption DEF hasRoomFor, admit
    <3>2. QED
      BY <1>1, <2>1, <3>1
  <2>4. ~ dequeue
    <3>1. SUFFICES ASSUME dequeue PROVE FALSE
      OBVIOUS
    <3>2. Kept \in Seq(Item) /\ Kept # <<>>
      BY <1>1, <3>1, ExpiryKeeps DEF dequeue, WellKept
    <3>3. Head(Kept) \in Item
      BY <3>2
    <3>4. Size[Head(Kept).id] \in Nat /\ bytes' = KeptBytes - Size[Head(Kept).id]
      BY <3>1, <3>3, LimitAssumption DEF dequeue, take, Item
    <3>5. QED
      BY <1>1, <2>1, <3>4
  <2>5. PICK r \in Requests : coalesce(r)
    BY <1>1, <2>2, <2>3, <2>4 DEF Next, Enqueue, accept, reject, spill, wait, abortedEarly,
       spilled, abort, resume, peek, drain, tick
  <2> DEFINE i == First(Mergeable(r))
  <2>6. i \in DOMAIN Kept
    <3>1. /\ Mergeable(r) # {} /\ Mergeable(r) \in SUBSET DOMAIN Kept
          /\ DOMAIN Kept \in SUBSET Nat
      BY <1>1, <2>5, ExpiryKeeps DEF coalesce, Mergeable, WellKept
    <3>2. PICK k \in Mergeable(r) : \A m \in Mergeable(r) : k <= m
      BY <3>1, LeastNatural
    <3>3. QED
      BY <3>1, <3>2 DEF First
  <2>7. bytes' = KeptBytes - Size[Kept[i].id] + Size[r]
    BY <2>5 DEF coalesce, replace
  <2> HIDE DEF i
  <2>8. Size[Kept[i].id] \in Nat /\ Size[r] \in Nat
    <3>1. Kept[i] \in Item
      BY <1>1, <2>6, ExpiryKeeps DEF WellKept
    <3>2. QED
      BY <3>1, LimitAssumption DEF Item
  <2>9. Size[r] > Size[Kept[i].id]
    BY <1>1, <2>1, <2>7, <2>8
  <2>10. QED
    BY <2>5, <2>9 DEF GrowingMerge, i
<1>2. Inv /\ [Next]_vars
        => [bytes' > bytes /\ bytes' > maxBytes => \E r \in Requests : GrowingMerge(r)]_vars
  BY <1>1
<1>3. QED
  BY <1>2, Invariance, PTL DEF Spec

(* No item whose producer was told it is in is dropped silently, and no    *)
(* item is queued twice.                                                   *)
THEOREM NoneIsLost == Spec => []NothingLost
<1>1. Inv => NothingLost
  BY DEF Inv
<1>2. QED
  BY <1>1, Invariance, PTL

(* The order of age that expire() relies on when it stops at the first     *)
(* item that is young enough, under a clock that is never set back.        *)
THEOREM AgeOrder == Spec => []OldestFirst
<1>1. Inv => OldestFirst
  BY DEF Inv
<1>2. QED
  BY <1>1, Invariance, PTL

---------------------------------------------------------------------------
(* Answers are final.                                                      *)

(* An item that was taken, expired or replaced never comes back, so no     *)
(* item is delivered twice; and an answer enqueue() gave is never revised. *)
FinalStep ==
  \A r \in Requests :
    /\ fate[r] \in {"expired", "taken", "replaced"} => fate'[r] = fate[r]
    /\ phase[r] \in Outcomes => phase'[r] = phase[r]

(* expire() changes the fate of queued items only.                         *)
LEMMA ExpiryIsFinal ==
  ASSUME Inv
  PROVE  /\ \A r \in Requests : expired[r] # fate[r] => fate[r] = "queued"
         /\ expired \in [Requests -> Fates]
         /\ \A i \in DOMAIN Kept : Kept[i].id \in Requests /\ expired[Kept[i].id] = "queued"
<1>1. /\ WellKept(items, fate) /\ items \in Seq(Item) /\ Len(items) \in Nat
      /\ FrontOverdue \in 0 .. Len(items)
  BY QueueWellKept, FrontIsOverdue DEF WellKept
<1>2. \A i \in DOMAIN Dropped : i \in DOMAIN items /\ Dropped[i] = items[i]
  BY <1>1 DEF Dropped
<1>3. \A r \in Requests : expired[r] # fate[r] => fate[r] = "queued"
  <2>1. ASSUME NEW r \in Requests, r \in IdsOf(Dropped) PROVE fate[r] = "queued"
    <3>1. PICK i \in DOMAIN Dropped : Dropped[i].id = r
      BY <2>1 DEF IdsOf
    <3>2. QED
      BY <1>1, <1>2, <3>1 DEF WellKept
  <2>2. \A r \in Requests : expired[r] = IF r \in IdsOf(Dropped) THEN "expired" ELSE fate[r]
    BY DEF expired
  <2>3. QED
    BY <2>1, <2>2
<1>4. WellKept(Kept, expired)
  BY ExpiryKeeps
<1>5. \A i \in DOMAIN Kept : Kept[i].id \in Requests
  <2>1. \A i \in DOMAIN Kept : Kept[i] \in Item
    BY <1>4 DEF WellKept
  <2>2. QED
    BY <2>1 DEF Item
<1>6. QED
  BY <1>3, <1>4, <1>5 DEF WellKept

(* Taken, expired and replaced items stay so, and answers stand, in every  *)
(* step of a producer, the consumer, the owner or the clock.               *)
THEOREM AnswersAreFinal == Spec => [][FinalStep]_vars
<1>1. ASSUME Inv, Next PROVE FinalStep
  <2> DEFINE FateKept == \A r \in Requests :
                fate[r] \in {"expired", "taken", "replaced"} => fate'[r] = fate[r]
             Stands == \A r \in Requests : phase[r] \in Outcomes => phase'[r] = phase[r]
  <2>1. ASSUME onlyExpire PROVE FateKept
    BY <1>1, <2>1, ExpiryIsFinal DEF onlyExpire
  <2>2. ASSUME NEW r \in Requests, phase[r] \in {"new", "released"}, admit(r) PROVE FateKept
    <3>1. fate[r] = "none"
      BY <1>1, <2>2, Typed DEF In
    <3>2. QED
      BY <1>1, <2>2, <3>1, ExpiryIsFinal DEF admit
  <2>3. ASSUME NEW r \in Requests, phase[r] \in {"new", "waiting", "released", "spilling"},
               NEW p, becomes(r, p)
        PROVE  Stands
    BY <1>1, <2>3, Typed DEF becomes, Outcomes
  <2>4. ASSUME NEW r \in Requests, Enqueue(r) PROVE FinalStep
    <3>1. phase[r] = "new"
      BY <2>4 DEF Enqueue, accept, reject, coalesce, spill, wait, abortedEarly, full
    <3>2. Stands
      BY <2>3, <2>4, <3>1 DEF Enqueue, accept, reject, coalesce, spill, wait, abortedEarly
    <3>3. CASE coalesce(r)
      <4> DEFINE i == First(Mergeable(r))
      <4>1. fate[r] = "none"
        BY <1>1, <3>1, Typed DEF In
      <4>2. i \in DOMAIN Kept
        <5>1. /\ Mergeable(r) # {} /\ Mergeable(r) \in SUBSET DOMAIN Kept
              /\ DOMAIN Kept \in SUBSET Nat
          BY <1>1, <3>3, ExpiryKeeps DEF coalesce, Mergeable, WellKept
        <5>2. PICK k \in Mergeable(r) : \A m \in Mergeable(r) : k <= m
          BY <5>1, LeastNatural
        <5>3. QED
          BY <5>1, <5>2 DEF First
      <4>3. fate' = [expired EXCEPT ![Kept[i].id] = "replaced", ![r] = "queued"]
        BY <3>3 DEF coalesce, replace
      <4> HIDE DEF i
      <4>4. FateKept
        BY <1>1, <4>1, <4>2, <4>3, ExpiryIsFinal
      <4>5. QED
        BY <3>2, <4>4 DEF FinalStep
    <3>4. CASE ~ coalesce(r)
      <4>1. onlyExpire \/ admit(r)
        BY <2>4, <3>4 DEF Enqueue, accept, reject, spill, wait, abortedEarly
      <4>2. QED
        BY <2>1, <2>2, <3>1, <3>2, <4>1 DEF FinalStep
    <3>5. QED
      BY <3>3, <3>4
  <2>5. ASSUME NEW r \in Requests, spilled(r) \/ abort(r) PROVE FinalStep
    BY <2>3, <2>5 DEF spilled, abort, FinalStep
  <2>6. ASSUME NEW r \in Requests, resume(r) PROVE FinalStep
    BY <2>1, <2>2, <2>3, <2>6 DEF resume, FinalStep
  <2>7. CASE dequeue
    <3>1. FateKept
      <4>1. Head(Kept) = Kept[1] /\ 1 \in DOMAIN Kept
        BY <1>1, <2>7, ExpiryKeeps DEF dequeue, WellKept
      <4>2. QED
        BY <1>1, <2>7, <4>1, ExpiryIsFinal DEF dequeue, take
    <3>2. Stands
      <4>1. CASE waiters = <<>>
        BY <2>7, <4>1 DEF dequeue
      <4>2. CASE waiters # <<>>
        <5>1. Head(waiters) \in Requests /\ phase[Head(waiters)] = "waiting"
          <6>1. Head(waiters) = waiters[1] /\ 1 \in DOMAIN waiters /\ waiters[1] \in Requests
            BY <1>1, <4>2, Typed
          <6>2. QED
            BY <1>1, <6>1, Typed DEF Parked
        <5>2. QED
          BY <2>3, <2>7, <4>2, <5>1 DEF dequeue
      <4>3. QED
        BY <4>1, <4>2
    <3>3. QED
      BY <3>1, <3>2 DEF FinalStep
  <2>8. CASE peek
    BY <2>1, <2>8 DEF peek, FinalStep
  <2>9. CASE drain
    <3>1. \A r \in Requests : r \in Range(waiters) => phase[r] = "waiting"
      BY <1>1, Typed DEF Parked, Range
    <3>2. QED
      BY <2>9, <3>1 DEF drain, FinalStep, Outcomes
  <2>10. CASE tick
    BY <2>10 DEF tick, FinalStep
  <2>11. QED
    BY <1>1, <2>4, <2>5, <2>6, <2>7, <2>8, <2>9, <2>10 DEF Next
<1>2. Inv /\ [Next]_vars => [FinalStep]_vars
  BY <1>1
<1>3. QED
  BY <1>2, Invariance, PTL DEF Spec
===========================================================================
