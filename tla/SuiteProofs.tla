---------------------------- MODULE SuiteProofs -----------------------------
(***************************************************************************)
(* Proofs about Suite for every number of ranks, kernels, variants and       *)
(* tunings and whatever the command line asks for.                           *)
(*                                                                           *)
(* If the checksum file opens, the ranks make the same collective calls in   *)
(* the same order, and are timed together (IInv): the calls of a rank are    *)
(* those of one list, which depends on the input only (CallAt); where a rank *)
(* is and what it has left to do say how many of them it has begun (Begun);  *)
(* and no rank is more than one call ahead.                                  *)
(*                                                                           *)
(* Whether or not it opens, what a rank has recorded follows from where it   *)
(* is in its list of executions (RecordInv), and in the whole list an entry  *)
(* is there once for every pass (CountOfAll).                                *)
(***************************************************************************)
EXTENDS Suite, SequenceTheorems, FiniteSetTheorems, TLAPS

USE SuiteAssumption

-----------------------------------------------------------------------------
(* The order of the loops *)

LEMMA EarlierIsLexicographic ==
  ASSUME NEW a, NEW b
  PROVE  Earlier(a, b) <=>
           \/ a[1] < b[1]
           \/ a[1] = b[1] /\ a[2] < b[2]
           \/ a[1] = b[1] /\ a[2] = b[2] /\ a[3] < b[3]
           \/ a[1] = b[1] /\ a[2] = b[2] /\ a[3] = b[3] /\ a[4] < b[4]
<1>1. 1 .. 4 = {1, 2, 3, 4} /\ 1 .. 0 = {} /\ 1 .. 1 = {1} /\ 1 .. 2 = {1, 2} /\ 1 .. 3 = {1, 2, 3}
  OBVIOUS
<1>2. 1 - 1 = 0 /\ 2 - 1 = 1 /\ 3 - 1 = 2 /\ 4 - 1 = 3
  OBVIOUS
<1>3. Earlier(a, b) <=> \E i \in {1, 2, 3, 4} : a[i] < b[i] /\ \A j \in 1 .. i - 1 : a[j] = b[j]
  BY <1>1, Zenon DEF Earlier
<1>. QED BY <1>1, <1>2, <1>3

(* The loop counters are in a strict total order.                            *)
LEMMA EarlierIsOrder ==
  /\ \A a \in Counters : ~Earlier(a, a)
  /\ \A a, b \in Counters : a # b => Earlier(a, b) \/ Earlier(b, a)
  /\ \A a, b, c \in Counters : Earlier(a, b) /\ Earlier(b, c) => Earlier(a, c)
<1>. DEFINE L(a, b) == \/ a[1] < b[1]
                       \/ a[1] = b[1] /\ a[2] < b[2]
                       \/ a[1] = b[1] /\ a[2] = b[2] /\ a[3] < b[3]
                       \/ a[1] = b[1] /\ a[2] = b[2] /\ a[3] = b[3] /\ a[4] < b[4]
<1>1. \A a, b : Earlier(a, b) <=> L(a, b)
  BY EarlierIsLexicographic
<1>2. \A a \in Counters : a[1] \in Nat /\ a[2] \in Nat /\ a[3] \in Nat /\ a[4] \in Nat
  BY DEF Counters
<1>3. \A a, b \in Counters : a[1] = b[1] /\ a[2] = b[2] /\ a[3] = b[3] /\ a[4] = b[4] => a = b
  BY DEF Counters
<1>4. \A a \in Counters : ~L(a, a)
  BY <1>2
<1>5. \A a, b \in Counters : a # b => L(a, b) \/ L(b, a)
  BY <1>2, <1>3
<1>6. ASSUME NEW a \in Counters, NEW b \in Counters, NEW c \in Counters, L(a, b), L(b, c)
      PROVE  L(a, c)
  <2>. /\ a[1] \in Nat /\ a[2] \in Nat /\ a[3] \in Nat /\ a[4] \in Nat
       /\ b[1] \in Nat /\ b[2] \in Nat /\ b[3] \in Nat /\ b[4] \in Nat
       /\ c[1] \in Nat /\ c[2] \in Nat /\ c[3] \in Nat /\ c[4] \in Nat
    BY <1>2
  <2>1. CASE a[1] < b[1]
    BY <1>6, <2>1
  <2>2. CASE a[1] = b[1] /\ a[2] < b[2]
    BY <1>6, <2>2
  <2>3. CASE a[1] = b[1] /\ a[2] = b[2] /\ a[3] < b[3]
    BY <1>6, <2>3
  <2>4. CASE a[1] = b[1] /\ a[2] = b[2] /\ a[3] = b[3] /\ a[4] < b[4]
    BY <1>6, <2>4
  <2>. QED BY <1>6, <2>1, <2>2, <2>3, <2>4
<1>. HIDE DEF L
<1>. QED BY <1>1, <1>4, <1>5, <1>6

(* The list of a finite set of loop counters has each of them exactly once.  *)
LEMMA LoopOrder ==
  ASSUME NEW S \in SUBSET Counters, IsFiniteSet(S)
  PROVE  /\ InLoopOrder(S) \in Seq(S)
         /\ Len(InLoopOrder(S)) = Cardinality(S) /\ Cardinality(S) \in Nat
         /\ \A a \in S : \E i \in 1 .. Cardinality(S) : InLoopOrder(S)[i] = a
         /\ \A i, j \in 1 .. Cardinality(S) :
              InLoopOrder(S)[i] = InLoopOrder(S)[j] => i = j
<1>. DEFINE Below(a) == {b \in S : Earlier(b, a)}
            n == Cardinality(S)
            rank == [a \in S |-> Cardinality(Below(a))]
<1>1. \A a \in S : IsFiniteSet(Below(a)) /\ Cardinality(Below(a)) \in Nat
  <2>1. \A a \in S : Below(a) \in SUBSET S
    OBVIOUS
  <2>. HIDE DEF Below
  <2>. QED BY <2>1, FS_Subset, FS_CardinalityType
<1>2. ASSUME NEW a \in S, NEW b \in S, Earlier(a, b)
      PROVE  Cardinality(Below(a)) < Cardinality(Below(b))
  <2>1. Below(a) \in SUBSET Below(b)
    BY <1>2, EarlierIsOrder
  <2>2. a \in Below(b) /\ a \notin Below(a)
    BY <1>2, EarlierIsOrder
  <2>3. Below(a) # Below(b)
    BY <2>2
  <2>. HIDE DEF Below
  <2>4. Cardinality(Below(a)) <= Cardinality(Below(b)) /\ Cardinality(Below(a)) # Cardinality(Below(b))
    BY <1>1, <2>1, <2>3, FS_Subset
  <2>. QED BY <1>1, <2>4
<1>3. n \in Nat
  BY FS_CardinalityType
<1>4. ASSUME NEW a \in S PROVE Cardinality(Below(a)) \in 0 .. n - 1
  <2>1. Below(a) \in SUBSET S /\ Below(a) # S
    BY EarlierIsOrder
  <2>. HIDE DEF Below
  <2>2. Cardinality(Below(a)) <= n /\ Cardinality(Below(a)) # n
    BY <2>1, FS_Subset
  <2>. HIDE DEF n
  <2>. QED BY <1>1, <1>3, <2>2
<1>. HIDE DEF Below
<1>5. rank \in Injection(S, 0 .. n - 1)
  <2>1. rank \in [S -> 0 .. n - 1]
    BY <1>4
  <2>2. ASSUME NEW a \in S, NEW b \in S, rank[a] = rank[b] PROVE a = b
    <3>1. Cardinality(Below(a)) = Cardinality(Below(b))
      BY <2>2
    <3>2. Cardinality(Below(a)) \in Nat /\ Cardinality(Below(b)) \in Nat
      BY <1>1
    <3>3. ~Earlier(a, b) /\ ~Earlier(b, a)
      BY <1>2, <3>1, <3>2
    <3>. QED BY <3>3, EarlierIsOrder
  <2>3. \A a, b \in DOMAIN rank : rank[a] = rank[b] => a = b
    BY <2>2
  <2>. HIDE DEF rank
  <2>. QED BY <2>1, <2>3 DEF Injection, IsInjective
<1>6. rank \in Surjection(S, 0 .. n - 1)
  <2>1. IsFiniteSet(0 .. n - 1) /\ Cardinality(0 .. n - 1) = n
    BY <1>3, FS_Interval
  <2>. HIDE DEF rank
  <2>. QED BY <1>5, <2>1, FS_Injection
<1>7. ASSUME NEW i \in 1 .. n
      PROVE  \E a \in S : /\ Cardinality(Below(a)) = i - 1
                          /\ \A b \in S : Cardinality(Below(b)) = i - 1 => b = a
  <2>1. PICK a \in S : rank[a] = i - 1
    <3>1. i - 1 \in 0 .. n - 1
      BY <1>3
    <3>2. \A k \in 0 .. n - 1 : \E a \in S : rank[a] = k
      BY <1>6 DEF Surjection
    <3>. QED BY <3>1, <3>2
  <2>2. \A b \in S : rank[b] = rank[a] => b = a
    BY <1>5 DEF Injection, IsInjective
  <2>. QED BY <2>1, <2>2
<1>8. ASSUME NEW i \in 1 .. n
      PROVE  InLoopOrder(S)[i] \in S /\ Cardinality(Below(InLoopOrder(S)[i])) = i - 1
  <2>1. InLoopOrder(S)[i] = CHOOSE a \in S : Cardinality(Below(a)) = i - 1
    BY DEF InLoopOrder, Below
  <2>. QED BY <2>1, <1>7
<1>9. InLoopOrder(S) \in Seq(S) /\ Len(InLoopOrder(S)) = n
  <2>. DEFINE At(i) == CHOOSE a \in S : Cardinality({b \in S : Earlier(b, a)}) = i - 1
  <2>1. InLoopOrder(S) = [i \in 1 .. n |-> At(i)]
    BY DEF InLoopOrder
  <2>. HIDE DEF At
  <2>2. InLoopOrder(S) \in [1 .. n -> S]
    BY <2>1, <1>8
  <2>3. \A m \in Nat : \A T, f : f \in [1 .. m -> T] => f \in Seq(T) /\ Len(f) = m
    OBVIOUS
  <2>. QED BY <1>3, <2>2, <2>3, Zenon
<1>10. ASSUME NEW a \in S PROVE \E i \in 1 .. n : InLoopOrder(S)[i] = a
  <2>1. PICK i \in 1 .. n : i - 1 = Cardinality(Below(a))
    <3>1. Cardinality(Below(a)) \in 0 .. n - 1
      BY <1>4
    <3>2. Cardinality(Below(a)) + 1 \in 1 .. n
      BY <1>3, <3>1
    <3>. QED BY <1>3, <3>1, <3>2
  <2>2. PICK b \in S : \A c \in S : Cardinality(Below(c)) = i - 1 => c = b
    BY <1>7
  <2>. QED BY <1>8, <2>1, <2>2
<1>11. ASSUME NEW i \in 1 .. n, NEW j \in 1 .. n, InLoopOrder(S)[i] = InLoopOrder(S)[j]
       PROVE  i = j
  <2>1. i - 1 = j - 1
    BY <1>8, <1>11
  <2>. QED BY <1>3, <2>1
<1>. QED BY <1>3, <1>9, <1>10, <1>11

-----------------------------------------------------------------------------
(* What there is to do is finite *)

LEMMA ImageIsFinite ==
  ASSUME NEW S, IsFiniteSet(S), NEW f
  PROVE  IsFiniteSet({f[a] : a \in S})
<1>. DEFINE T == {f[a] : a \in S}
            g == [a \in S |-> f[a]]
<1>1. g \in Surjection(S, T)
  BY DEF Surjection
<1>. QED BY <1>1, FS_Surjection

LEMMA EntryIsFinite ==
  /\ IsFiniteSet(Entry)
  /\ \A e \in Entry : e = <<e[1], e[2], e[3]>> /\ e[1] \in KernelID /\ e[2] \in VariantID /\ e[3] \in Nat
<1>. DEFINE Of(k, v) == {<<k, v, t>> : t \in DOMAIN Tunings[k][v]}
            f == [kv \in KernelID \X VariantID |-> Of(kv[1], kv[2])]
            F == {f[kv] : kv \in KernelID \X VariantID}
<1>1. \A k \in KernelID, v \in VariantID :
        DOMAIN Tunings[k][v] = 1 .. Len(Tunings[k][v]) /\ Len(Tunings[k][v]) \in Nat
  OBVIOUS
<1>2. ASSUME NEW k \in KernelID, NEW v \in VariantID PROVE IsFiniteSet(Of(k, v))
  <2>. DEFINE g == [t \in DOMAIN Tunings[k][v] |-> <<k, v, t>>]
  <2>1. IsFiniteSet(DOMAIN Tunings[k][v])
    BY <1>1, FS_Interval
  <2>2. IsFiniteSet({g[t] : t \in DOMAIN Tunings[k][v]})
    <3>. HIDE DEF g
    <3>. QED BY <2>1, ImageIsFinite
  <2>3. {g[t] : t \in DOMAIN Tunings[k][v]} = Of(k, v)
    OBVIOUS
  <2>. QED BY <2>2, <2>3
<1>3. IsFiniteSet(KernelID \X VariantID)
  <2>1. IsFiniteSet(KernelID) /\ IsFiniteSet(VariantID)
    BY FS_Interval DEF KernelID, VariantID
  <2>. QED BY <2>1, FS_Product
<1>4. IsFiniteSet(F)
  <2>. HIDE DEF f
  <2>. QED BY <1>3, ImageIsFinite
<1>5. \A S \in F : IsFiniteSet(S)
  BY <1>2
<1>6. IsFiniteSet(UNION F)
  BY <1>4, <1>5, FS_UNION
<1>7. Entry = UNION F
  <2>1. ASSUME NEW e \in Entry PROVE e \in UNION F
    <3>1. PICK k \in KernelID, v \in VariantID : e \in Of(k, v)
      BY DEF Entry
    <3>2. <<k, v>> \in KernelID \X VariantID /\ f[<<k, v>>] = Of(k, v)
      OBVIOUS
    <3>. QED BY <3>1, <3>2
  <2>2. ASSUME NEW e \in UNION F PROVE e \in Entry
    <3>0. PICK S \in F : e \in S
      OBVIOUS
    <3>1. PICK kv \in KernelID \X VariantID : e \in Of(kv[1], kv[2])
      BY <3>0
    <3>2. PICK k \in KernelID, v \in VariantID : e \in Of(k, v)
      BY <3>1
    <3>. DEFINE T == {Of(c, d) : c \in KernelID, d \in VariantID}
    <3>3. Entry = UNION T
      BY DEF Entry
    <3>4. Of(k, v) \in T
      <4>. HIDE DEF Of
      <4>. QED OBVIOUS
    <3>. HIDE DEF T, Of
    <3>. QED BY <3>2, <3>3, <3>4
  <2>. HIDE DEF F
  <2>. QED BY <2>1, <2>2
<1>8. ASSUME NEW e \in Entry
      PROVE  e = <<e[1], e[2], e[3]>> /\ e[1] \in KernelID /\ e[2] \in VariantID /\ e[3] \in Nat
  <2>1. PICK k \in KernelID, v \in VariantID : \E t \in DOMAIN Tunings[k][v] : e = <<k, v, t>>
    BY DEF Entry
  <2>. QED BY <1>1, <2>1
<1>. QED BY <1>6, <1>7, <1>8

LEMMA PassIsFinite ==
  ASSUME NEW p \in Nat, NEW E \in SUBSET Entry
  PROVE  InPass(p, E) \in SUBSET Counters /\ IsFiniteSet(InPass(p, E))
<1>. DEFINE g == [e \in E |-> <<p, e[1], e[2], e[3]>>]
<1>1. InPass(p, E) = {g[e] : e \in E}
  BY DEF InPass
<1>2. IsFiniteSet({g[e] : e \in E})
  <2>1. IsFiniteSet(E)
    BY EntryIsFinite, FS_Subset
  <2>. HIDE DEF g
  <2>. QED BY <2>1, ImageIsFinite
<1>3. \A e \in E : <<p, e[1], e[2], e[3]>> \in Counters
  BY EntryIsFinite DEF Counters, KernelID, VariantID
<1>. QED BY <1>1, <1>2, <1>3 DEF InPass

LEMMA ExecutionsAreFinite ==
  ASSUME NEW x \in Inputs
  PROVE  /\ WarmupRun(x) \cup Passes(x) \in SUBSET Counters
         /\ IsFiniteSet(WarmupRun(x) \cup Passes(x))
<1>1. \A S : ToRun(x, S) \in SUBSET Entry
  BY DEF ToRun
<1>2. WarmupRun(x) \in SUBSET Counters /\ IsFiniteSet(WarmupRun(x))
  <2>1. InPass(0, ToRun(x, Warmups(x))) \in SUBSET Counters /\ IsFiniteSet(InPass(0, ToRun(x, Warmups(x))))
    BY <1>1, PassIsFinite
  <2>. QED BY <2>1, FS_EmptySet DEF WarmupRun
<1>. DEFINE h == [p \in 1 .. x.npasses |-> InPass(p, ToRun(x, x.kernels))]
            H == {h[p] : p \in 1 .. x.npasses}
<1>3. \A p \in 1 .. x.npasses :
        InPass(p, ToRun(x, x.kernels)) \in SUBSET Counters /\ IsFiniteSet(InPass(p, ToRun(x, x.kernels)))
  <2>1. \A p \in 1 .. x.npasses : p \in Nat
    OBVIOUS
  <2>. QED BY <1>1, <2>1, PassIsFinite
<1>4. IsFiniteSet(H)
  <2>1. IsFiniteSet(1 .. x.npasses)
    BY FS_Interval
  <2>. HIDE DEF h
  <2>. QED BY <2>1, ImageIsFinite
<1>5. Passes(x) = UNION H
  BY DEF Passes
<1>6. Passes(x) \in SUBSET Counters /\ IsFiniteSet(Passes(x))
  <2>1. \A S \in H : S \in SUBSET Counters /\ IsFiniteSet(S)
    BY <1>3
  <2>. HIDE DEF H
  <2>2. IsFiniteSet(UNION H)
    BY <1>4, <2>1, FS_UNION
  <2>3. UNION H \in SUBSET Counters
    BY <2>1
  <2>. QED BY <1>5, <2>2, <2>3
<1>. QED BY <1>2, <1>6, FS_Union

LEMMA WorkOfExecutions ==
  ASSUME NEW x \in Inputs
  PROVE  /\ Executions(x) \in Seq(Counters) /\ Len(Executions(x)) \in Nat
         /\ \A i \in 1 .. Len(Executions(x)) : Executions(x)[i] \in WarmupRun(x) \cup Passes(x)
         /\ \A w \in WarmupRun(x) \cup Passes(x) : \E i \in 1 .. Len(Executions(x)) : Executions(x)[i] = w
         /\ \A i, j \in 1 .. Len(Executions(x)) : Executions(x)[i] = Executions(x)[j] => i = j
<1>1. PICK S \in SUBSET Counters : S = WarmupRun(x) \cup Passes(x) /\ IsFiniteSet(S)
  BY ExecutionsAreFinite
<1>2. PICK n \in Nat, s \in Seq(S) :
        /\ s = InLoopOrder(S) /\ n = Len(s)
        /\ \A a \in S : \E i \in 1 .. n : s[i] = a
        /\ \A i, j \in 1 .. n : s[i] = s[j] => i = j
  <2>1. PICK n \in Nat : n = Cardinality(S) /\ n = Len(InLoopOrder(S))
    BY <1>1, LoopOrder, Zenon
  <2>2. /\ InLoopOrder(S) \in Seq(S)
        /\ \A a \in S : \E i \in 1 .. n : InLoopOrder(S)[i] = a
        /\ \A i, j \in 1 .. n : InLoopOrder(S)[i] = InLoopOrder(S)[j] => i = j
    BY <1>1, <2>1, LoopOrder, Zenon
  <2>. QED BY <2>1, <2>2, Zenon
<1>3. Executions(x) = s
  BY <1>1, <1>2 DEF Executions
<1>4. s \in Seq(Counters) /\ \A i \in 1 .. n : s[i] \in S
  BY <1>2
<1>. QED BY <1>1, <1>2, <1>3, <1>4, Zenon

LEMMA WorkOfReductions ==
  ASSUME NEW x \in Inputs
  PROVE  Reductions(x) \in Seq(Counters)
<1>. DEFINE Q == x.kernels \X (1 .. 3) \X (1 .. Cardinality(x.variants)) \X (1 .. 3)
            P == (x.kernels \X (1 .. 3)) \X ((1 .. Cardinality(x.variants)) \X (1 .. 3))
            f == [q \in P |-> <<q[1][1], q[1][2], q[2][1], q[2][2]>>]
            R == {w \in Q : w[4] <= CallsOfLoop[w[2]]}
<1>1. IsFiniteSet(x.kernels) /\ x.kernels \in SUBSET Nat
  <2>1. IsFiniteSet(KernelID) /\ KernelID \in SUBSET Nat /\ x.kernels \in SUBSET KernelID
    BY FS_Interval DEF KernelID
  <2>. QED BY <2>1, FS_Subset
<1>2. Cardinality(x.variants) \in Nat
  <2>1. IsFiniteSet(VariantID) /\ x.variants \in SUBSET VariantID
    BY FS_Interval DEF VariantID
  <2>. QED BY <2>1, FS_Subset, FS_CardinalityType
<1>3. IsFiniteSet(P)
  <2>1. IsFiniteSet(1 .. 3) /\ IsFiniteSet(1 .. Cardinality(x.variants))
    <3>1. \A m \in Nat : IsFiniteSet(1 .. m)
      BY FS_Interval
    <3>. QED BY <1>2, <3>1
  <2>2. IsFiniteSet(x.kernels \X (1 .. 3)) /\ IsFiniteSet((1 .. Cardinality(x.variants)) \X (1 .. 3))
    BY <1>1, <2>1, FS_Product
  <2>. QED BY <2>2, FS_Product
<1>4. Q = {f[q] : q \in P}
  <2>1. \A q \in P : f[q] \in Q
    OBVIOUS
  <2>2. ASSUME NEW w \in Q PROVE \E q \in P : f[q] = w
    <3>1. << <<w[1], w[2]>>, <<w[3], w[4]>> >> \in P
      OBVIOUS
    <3>2. f[<< <<w[1], w[2]>>, <<w[3], w[4]>> >>] = <<w[1], w[2], w[3], w[4]>>
      BY <3>1
    <3>3. w = <<w[1], w[2], w[3], w[4]>>
      OBVIOUS
    <3>. HIDE DEF f, P, Q
    <3>. QED BY <3>1, <3>2, <3>3
  <2>. HIDE DEF f, P, Q
  <2>. QED BY <2>1, <2>2
<1>5. IsFiniteSet(Q)
  <2>. HIDE DEF f, P, Q
  <2>. QED BY <1>3, <1>4, ImageIsFinite
<1>6. Q \in SUBSET Counters
  BY <1>1 DEF Counters
<1>7. R \in SUBSET Counters /\ IsFiniteSet(R)
  <2>1. R \in SUBSET Q
    OBVIOUS
  <2>. HIDE DEF R, Q
  <2>. QED BY <1>5, <1>6, <2>1, FS_Subset
<1>8. InLoopOrder(R) \in Seq(Counters)
  <2>. HIDE DEF R
  <2>1. InLoopOrder(R) \in Seq(R)
    BY <1>7, LoopOrder
  <2>. QED BY <1>7, <2>1
<1>. QED BY <1>8 DEF Reductions

-----------------------------------------------------------------------------
(* What is to do for the input x *)

Running(x) == x.state \in {"PerfRun", "CheckRun"}
Steps(x) == IF Running(x) THEN Executions(x) ELSE <<>>
Directories(x) == IF Running(x) /\ x.outdir THEN 1 ELSE 0
Sums(x) == IF Running(x) THEN Reductions(x) ELSE <<>>
NumCalls(x) == 2 * Len(Steps(x)) + Directories(x) + Len(Sums(x)) + 1

CallAt(x, m) ==
  LET n == Len(Steps(x))
  IN  IF m <= 2 * n
      THEN IF m % 2 = 1 THEN <<"start", EntryOf(Steps(x)[(m + 1) \div 2])>>
           ELSE <<"stop", EntryOf(Steps(x)[m \div 2])>>
      ELSE IF m <= 2 * n + Directories(x) THEN <<"mkdir">>
      ELSE IF m < NumCalls(x) THEN <<"reduce", Sums(x)[m - 2 * n - Directories(x)]>>
      ELSE <<"finalize">>

(* The list s is what is left of t.                                          *)
IsRest(s, t, S) ==
  /\ s \in Seq(S) /\ t \in Seq(S) /\ Len(s) <= Len(t)
  /\ \A i \in 1 .. Len(s) : s[i] = t[Len(t) - Len(s) + i]

LEMMA RestOfItself ==
  ASSUME NEW S, NEW t \in Seq(S)
  PROVE  IsRest(t, t, S)
BY DEF IsRest

LEMMA RestOfRest ==
  ASSUME NEW S, NEW s, NEW t, IsRest(s, t, S), s # <<>>
  PROVE  /\ IsRest(Tail(s), t, S) /\ Len(Tail(s)) = Len(s) - 1 /\ Len(s) > 0
         /\ Head(s) = t[Len(t) - Len(s) + 1]
<1>1. s \in Seq(S) /\ t \in Seq(S) /\ Len(s) \in Nat /\ Len(t) \in Nat /\ Len(s) > 0
  BY DEF IsRest
<1>2. Tail(s) \in Seq(S) /\ Len(Tail(s)) = Len(s) - 1 /\ Head(s) = s[1]
      /\ \A i \in 1 .. Len(Tail(s)) : Tail(s)[i] = s[i + 1]
  BY <1>1
<1>3. \A i \in 1 .. Len(Tail(s)) : Tail(s)[i] = t[Len(t) - Len(Tail(s)) + i]
  BY <1>1, <1>2 DEF IsRest
<1>. QED BY <1>1, <1>2, <1>3 DEF IsRest

LEMMA WorkTypes ==
  ASSUME NEW x \in Inputs
  PROVE  /\ Steps(x) \in Seq(Counters) /\ Len(Steps(x)) \in Nat
         /\ Sums(x) \in Seq(Counters) /\ Len(Sums(x)) \in Nat
         /\ Directories(x) \in {0, 1}
         /\ NumCalls(x) \in Nat
<1>1. Executions(x) \in Seq(Counters) /\ Reductions(x) \in Seq(Counters)
  BY WorkOfExecutions, WorkOfReductions
<1>2. Steps(x) \in Seq(Counters) /\ Sums(x) \in Seq(Counters)
  <2>1. <<>> \in Seq(Counters)
    OBVIOUS
  <2>. QED BY <1>1, <2>1, Zenon DEF Steps, Sums
<1>3. Directories(x) \in {0, 1}
  BY DEF Directories
<1>4. Len(Steps(x)) \in Nat /\ Len(Sums(x)) \in Nat
  BY <1>2
<1>. QED BY <1>2, <1>3, <1>4 DEF NumCalls

(* No call is the mark of a rank that is in no call.                         *)
LEMMA CallsAreNotIdle ==
  ASSUME NEW x \in Inputs, NEW m \in 1 .. NumCalls(x)
  PROVE  CallAt(x, m) # Idle
<1>1. /\ Steps(x) \in Seq(Counters) /\ Sums(x) \in Seq(Counters) /\ Directories(x) \in {0, 1}
      /\ Len(Steps(x)) \in Nat /\ Len(Sums(x)) \in Nat /\ m \in Nat
  BY WorkTypes
<1>3. CASE m <= 2 * Len(Steps(x))
  BY <1>3 DEF CallAt, Idle
<1>4. CASE m > 2 * Len(Steps(x)) /\ m <= 2 * Len(Steps(x)) + Directories(x)
  BY <1>1, <1>4 DEF CallAt, Idle
<1>5. CASE m > 2 * Len(Steps(x)) + Directories(x) /\ m < NumCalls(x)
  <2>1. CallAt(x, m) = <<"reduce", Sums(x)[m - 2 * Len(Steps(x)) - Directories(x)]>>
    BY <1>1, <1>5 DEF CallAt
  <2>. QED BY <2>1 DEF Idle
<1>6. CASE m = NumCalls(x)
  BY <1>1, <1>6 DEF CallAt, Idle, NumCalls
<1>7. \/ m <= 2 * Len(Steps(x)) \/ m = NumCalls(x)
      \/ m > 2 * Len(Steps(x)) /\ m <= 2 * Len(Steps(x)) + Directories(x)
      \/ m > 2 * Len(Steps(x)) + Directories(x) /\ m < NumCalls(x)
  <2>1. PICK n \in Nat, d \in Nat, t \in Nat :
          n = Len(Steps(x)) /\ d = Directories(x) /\ t = NumCalls(x) /\ m <= t
    BY <1>1, WorkTypes
  <2>. QED BY <1>1, <2>1
<1>. QED BY <1>3, <1>4, <1>5, <1>6, <1>7, Zenon

-----------------------------------------------------------------------------
(* The invariant *)

Locations == {"setup", "execute", "started", "stopped", "report", "reduce", "finalize", "done"}
Executing == {"execute", "started", "stopped"}

(* How many calls rank r has begun.                                          *)
Executed(r) == Len(Steps(input)) - Len(todo[r])
Begun(r) ==
  CASE pc[r] = "setup" -> 0
    [] pc[r] = "execute" -> 2 * Executed(r)
    [] pc[r] = "started" -> 2 * Executed(r) + 1
    [] pc[r] = "stopped" -> 2 * Executed(r) + 2
    [] pc[r] = "report" -> 2 * Len(Steps(input)) + Directories(input)
    [] pc[r] = "reduce" -> NumCalls(input) - 1 - Len(todo[r])
    [] pc[r] = "finalize" -> NumCalls(input) - 1
    [] pc[r] = "done" -> NumCalls(input)

PlaceInv(r) ==
  /\ pc[r] \in Locations
  /\ pc[r] \in Executing => IsRest(todo[r], Steps(input), Counters)
  /\ pc[r] \in {"started", "stopped"} => todo[r] # <<>>
  /\ pc[r] = "reduce" => IsRest(todo[r], Sums(input), Counters)
  /\ pc[r] \notin {"setup", "finalize", "done"} => Running(input)
  /\ pc[r] \in {"setup", "execute", "finalize"} => inside[r] = Idle
  /\ pc[r] = "report" /\ inside[r] # Idle => Directories(input) = 1
  /\ pc[r] = "reduce" /\ inside[r] # Idle => Len(todo[r]) < Len(Sums(input))
  /\ entered[r] = Begun(r)

CallInv ==
  /\ calls \in Seq({CallAt(input, m) : m \in 1 .. NumCalls(input)})
  /\ \A m \in 1 .. Len(calls) : calls[m] = CallAt(input, m)
  /\ \A r \in Rank : /\ entered[r] \in Nat /\ entered[r] <= Len(calls)
                     /\ inside[r] # Idle => entered[r] > 0 /\ inside[r] = CallAt(input, entered[r])

(* A rank is at most one call ahead, and then it has not returned from it.   *)
AheadInv ==
  \A r, q \in Rank : /\ entered[r] <= entered[q] + 1
                     /\ inside[r] = Idle => entered[r] <= entered[q]

Functional ==
  /\ pc = [r \in Rank |-> pc[r]] /\ todo = [r \in Rank |-> todo[r]]
  /\ entered = [r \in Rank |-> entered[r]] /\ inside = [r \in Rank |-> inside[r]]

IInv == /\ input \in Inputs /\ Functional
        /\ \A r \in Rank : PlaceInv(r)
        /\ CallInv /\ AheadInv

LEMMA InitIsFine == Init => IInv
<1>. SUFFICES ASSUME Init PROVE IInv
  OBVIOUS
<1>1. input \in Inputs /\ Functional
  BY DEF Init, Functional
<1>2. ASSUME NEW r \in Rank PROVE PlaceInv(r)
  <2>1. pc[r] = "setup" /\ inside[r] = Idle /\ entered[r] = 0
    BY DEF Init
  <2>2. Begun(r) = 0
    BY <2>1 DEF Begun
  <2>. QED BY <2>1, <2>2 DEF PlaceInv, Locations, Executing
<1>3. CallInv
  BY DEF Init, CallInv
<1>4. AheadInv
  BY DEF Init, AheadInv
<1>. QED BY <1>1, <1>2, <1>3, <1>4 DEF IInv

-----------------------------------------------------------------------------
(* Beginning a call and returning from it *)

LEMMA EnterKeeps ==
  ASSUME IInv, NEW r \in Rank, input' = input,
         entered[r] + 1 <= NumCalls(input), Enter(r, CallAt(input, entered[r] + 1))
  PROVE  /\ CallInv' /\ AheadInv'
         /\ entered' = [q \in Rank |-> entered'[q]] /\ inside' = [q \in Rank |-> inside'[q]]
         /\ entered'[r] = entered[r] + 1 /\ inside'[r] = CallAt(input, entered[r] + 1)
         /\ \A q \in Rank \ {r} : entered'[q] = entered[q] /\ inside'[q] = inside[q]
<1>1. PICK x, c, e : x = input /\ e = entered[r] + 1 /\ c = CallAt(x, e)
  OBVIOUS
<1>2. /\ inside[r] = Idle
      /\ entered' = [entered EXCEPT ![r] = @ + 1] /\ inside' = [inside EXCEPT ![r] = c]
      /\ calls' = IF entered[r] = Len(calls) THEN Append(calls, c) ELSE calls
  BY <1>1 DEF Enter
<1>3. entered = [q \in Rank |-> entered[q]] /\ inside = [q \in Rank |-> inside[q]]
  BY DEF IInv, Functional
<1>4. /\ entered' = [q \in Rank |-> entered'[q]] /\ inside' = [q \in Rank |-> inside'[q]]
      /\ entered'[r] = e /\ inside'[r] = c
      /\ \A q \in Rank \ {r} : entered'[q] = entered[q] /\ inside'[q] = inside[q]
  BY <1>1, <1>2, <1>3
<1>5. /\ calls \in Seq({CallAt(x, m) : m \in 1 .. NumCalls(x)})
      /\ \A m \in 1 .. Len(calls) : calls[m] = CallAt(x, m)
      /\ \A q \in Rank : /\ entered[q] \in Nat /\ entered[q] <= Len(calls)
                         /\ inside[q] # Idle => entered[q] > 0 /\ inside[q] = CallAt(x, entered[q])
  BY <1>1 DEF IInv, CallInv
<1>6. e \in 1 .. NumCalls(x) /\ Len(calls) \in Nat /\ c \in {CallAt(x, m) : m \in 1 .. NumCalls(x)}
  <2>1. NumCalls(x) \in Nat
    BY <1>1, WorkTypes DEF IInv
  <2>. QED BY <1>1, <1>5, <2>1
<1>7. /\ calls' \in Seq({CallAt(x, m) : m \in 1 .. NumCalls(x)})
      /\ \A m \in 1 .. Len(calls') : calls'[m] = CallAt(x, m)
      /\ Len(calls') \in Nat /\ Len(calls') >= Len(calls) /\ e <= Len(calls')
  <2>1. CASE entered[r] = Len(calls)
    <3>1. calls' = Append(calls, c)
      BY <1>2, <2>1
    <3>2. /\ calls' \in Seq({CallAt(x, m) : m \in 1 .. NumCalls(x)})
          /\ Len(calls') = Len(calls) + 1 /\ calls'[Len(calls) + 1] = c
          /\ \A m \in 1 .. Len(calls) : calls'[m] = calls[m]
      BY <1>5, <1>6, <3>1
    <3>3. ASSUME NEW m \in 1 .. Len(calls') PROVE calls'[m] = CallAt(x, m)
      <4>1. CASE m = e
        BY <1>1, <2>1, <3>2, <4>1
      <4>2. CASE m # e
        <5>1. m \in 1 .. Len(calls)
          BY <1>1, <1>6, <2>1, <3>2, <4>2
        <5>. QED BY <1>5, <3>2, <5>1
      <4>. QED BY <4>1, <4>2
    <3>. QED BY <1>1, <1>6, <2>1, <3>2, <3>3
  <2>2. CASE entered[r] # Len(calls)
    <3>1. calls' = calls /\ entered[r] \in Nat /\ entered[r] <= Len(calls)
      BY <1>2, <1>5, <2>2
    <3>. QED BY <1>1, <1>5, <1>6, <2>2, <3>1
  <2>. QED BY <2>1, <2>2
<1>8. ASSUME NEW q \in Rank
      PROVE  /\ entered'[q] \in Nat /\ entered'[q] <= Len(calls')
             /\ inside'[q] # Idle => entered'[q] > 0 /\ inside'[q] = CallAt(x, entered'[q])
  <2>1. CASE q = r
    BY <1>1, <1>4, <1>6, <1>7, <2>1
  <2>2. CASE q # r
    <3>1. entered'[q] = entered[q] /\ inside'[q] = inside[q]
      BY <1>4, <2>2
    <3>. QED BY <1>5, <1>6, <1>7, <3>1
  <2>. QED BY <2>1, <2>2
<1>9. CallInv'
  <2>1. x = input'
    BY <1>1
  <2>. QED BY <1>7, <1>8, <2>1, Zenon DEF CallInv
<1>10. AheadInv'
  <2>1. \A p, q \in Rank : entered[p] <= entered[q] + 1 /\ (inside[p] = Idle => entered[p] <= entered[q])
    BY DEF IInv, AheadInv
  <2>2. \A p \in Rank : entered[p] \in Nat
    BY <1>5
  <2>3. c # Idle
    BY <1>1, <1>6, CallsAreNotIdle, Zenon DEF IInv
  <2>. QED BY <1>1, <1>2, <1>4, <2>1, <2>2, <2>3 DEF AheadInv
<1>. QED BY <1>1, <1>4, <1>9, <1>10

(* A step that neither begins nor ends a call.                               *)
LEMMA NoCallKeeps ==
  ASSUME IInv, input' = input, UNCHANGED collectives
  PROVE  /\ CallInv' /\ AheadInv'
         /\ entered' = [q \in Rank |-> entered'[q]] /\ inside' = [q \in Rank |-> inside'[q]]
         /\ \A q \in Rank : entered'[q] = entered[q] /\ inside'[q] = inside[q]
<1>1. entered' = entered /\ inside' = inside /\ calls' = calls
  BY DEF collectives
<1>2. CallInv'
  <2>1. PICK x : x = input /\ x = input'
    OBVIOUS
  <2>. QED BY <1>1, <2>1, Zenon DEF IInv, CallInv
<1>. QED BY <1>1, <1>2, Zenon DEF IInv, AheadInv, Functional

(* The ranks that do not step keep their place.                              *)
LEMMA OthersStay ==
  ASSUME IInv, input' = input, NEW q \in Rank,
         pc'[q] = pc[q], todo'[q] = todo[q], entered'[q] = entered[q], inside'[q] = inside[q]
  PROVE  PlaceInv(q)'
<1>1. PICK x : x = input /\ x = input'
  OBVIOUS
<1>2. Begun(q)' = Begun(q)
  BY <1>1, Zenon DEF Begun, Executed
<1>. QED BY <1>1, <1>2, Zenon DEF IInv, PlaceInv

(* One rank has stepped, and its new place is right.                         *)
LEMMA StepKeeps ==
  ASSUME IInv, input' = input, NEW r \in Rank, CallInv', AheadInv', PlaceInv(r)',
         pc' = [pc EXCEPT ![r] = pc'[r]], todo' = [todo EXCEPT ![r] = todo'[r]],
         entered' = [q \in Rank |-> entered'[q]], inside' = [q \in Rank |-> inside'[q]],
         \A q \in Rank \ {r} : entered'[q] = entered[q] /\ inside'[q] = inside[q]
  PROVE  IInv'
<1>1. pc = [q \in Rank |-> pc[q]] /\ todo = [q \in Rank |-> todo[q]] /\ input' \in Inputs
  BY DEF IInv, Functional
<1>2. pc' = [q \in Rank |-> pc'[q]] /\ todo' = [q \in Rank |-> todo'[q]]
  BY <1>1
<1>3. ASSUME NEW q \in Rank PROVE PlaceInv(q)'
  <2>1. CASE q = r
    BY <2>1
  <2>2. CASE q # r
    <3>1. pc'[q] = pc[q] /\ todo'[q] = todo[q]
      BY <1>1, <2>2
    <3>. QED BY <2>2, <3>1, OthersStay
  <2>. QED BY <2>1, <2>2
<1>. QED BY <1>1, <1>2, <1>3, Zenon DEF IInv, Functional

(* The calls, in the order in which a rank makes them.                       *)
LEMMA ListOfCalls ==
  ASSUME NEW x \in Inputs
  PROVE  LET n == Len(Steps(x))
             d == Directories(x)
         IN  /\ \A k \in 1 .. n : /\ CallAt(x, 2 * (k - 1) + 1) = <<"start", EntryOf(Steps(x)[k])>>
                                  /\ CallAt(x, 2 * (k - 1) + 2) = <<"stop", EntryOf(Steps(x)[k])>>
             /\ d = 1 => CallAt(x, 2 * n + 1) = <<"mkdir">>
             /\ \A j \in 1 .. Len(Sums(x)) : CallAt(x, 2 * n + d + j) = <<"reduce", Sums(x)[j]>>
             /\ CallAt(x, NumCalls(x)) = <<"finalize">>
<1>1. PICK n \in Nat, d \in {0, 1}, t \in Nat :
        n = Len(Steps(x)) /\ d = Directories(x) /\ t = Len(Sums(x)) /\ NumCalls(x) = 2 * n + d + t + 1
  BY WorkTypes DEF NumCalls
<1>0. n \in Nat /\ d \in Nat /\ d <= 1 /\ t \in Nat
  BY <1>1
<1>2. \A m \in Nat : CallAt(x, m) =
        IF m <= 2 * n
        THEN IF m % 2 = 1 THEN <<"start", EntryOf(Steps(x)[(m + 1) \div 2])>>
             ELSE <<"stop", EntryOf(Steps(x)[m \div 2])>>
        ELSE IF m <= 2 * n + d THEN <<"mkdir">>
        ELSE IF m < 2 * n + d + t + 1 THEN <<"reduce", Sums(x)[m - 2 * n - d]>>
        ELSE <<"finalize">>
  BY <1>1, Zenon DEF CallAt
<1>3. ASSUME NEW k \in 1 .. n
      PROVE  /\ CallAt(x, 2 * (k - 1) + 1) = <<"start", EntryOf(Steps(x)[k])>>
             /\ CallAt(x, 2 * (k - 1) + 2) = <<"stop", EntryOf(Steps(x)[k])>>
  <2>1. PICK a \in Nat : a = 2 * (k - 1) + 1
    BY <1>1
  <2>2. a <= 2 * n /\ a % 2 = 1 /\ (a + 1) \div 2 = k
    BY <1>1, <2>1
  <2>3. PICK b \in Nat : b = 2 * (k - 1) + 2
    BY <1>1
  <2>4. b <= 2 * n /\ b % 2 # 1 /\ b \div 2 = k
    BY <1>1, <2>3
  <2>. QED BY <1>2, <2>1, <2>2, <2>3, <2>4
<1>4. d = 1 => CallAt(x, 2 * n + 1) = <<"mkdir">>
  BY <1>1, <1>2
<1>5. ASSUME NEW j \in 1 .. t PROVE CallAt(x, 2 * n + d + j) = <<"reduce", Sums(x)[j]>>
  <2>1. PICK m \in Nat : m = 2 * n + d + j /\ m - 2 * n - d = j /\ ~(m <= 2 * n) /\ ~(m <= 2 * n + d)
                         /\ m < 2 * n + d + t + 1
    BY <1>0
  <2>. QED BY <1>2, <2>1, Zenon
<1>6. CallAt(x, 2 * n + d + t + 1) = <<"finalize">>
  <2>1. PICK m \in Nat : m = 2 * n + d + t + 1 /\ ~(m <= 2 * n) /\ ~(m <= 2 * n + d)
                         /\ ~(m < 2 * n + d + t + 1)
    BY <1>0
  <2>. QED BY <1>2, <2>1, Zenon
<1>. QED BY <1>1, <1>3, <1>4, <1>5, <1>6, Zenon

-----------------------------------------------------------------------------
(* The steps of a rank *)

LEMMA SetupKeeps ==
  ASSUME IInv, NEW r \in Rank, Setup(r)
  PROVE  IInv'
<1>1. /\ pc[r] = "setup" /\ input' = input /\ UNCHANGED collectives
      /\ pc' = [pc EXCEPT ![r] = IF Running(input) THEN "execute" ELSE "finalize"]
      /\ todo' = [todo EXCEPT ![r] = Steps(input)]
  BY DEF Setup, Goto, WillRun, Running, Steps
<1>2. /\ CallInv' /\ AheadInv'
      /\ entered' = [q \in Rank |-> entered'[q]] /\ inside' = [q \in Rank |-> inside'[q]]
      /\ \A q \in Rank : entered'[q] = entered[q] /\ inside'[q] = inside[q]
  BY <1>1, NoCallKeeps
<1>3. pc = [q \in Rank |-> pc[q]] /\ todo = [q \in Rank |-> todo[q]]
  BY DEF IInv, Functional
<1>4. pc'[r] = (IF Running(input) THEN "execute" ELSE "finalize") /\ todo'[r] = Steps(input)
  BY <1>1, <1>3
<1>5. entered[r] = 0 /\ inside[r] = Idle
  BY <1>1 DEF IInv, PlaceInv, Begun
<1>6. PlaceInv(r)'
  <2>1. PICK x \in Inputs : x = input /\ x = input'
    BY <1>1 DEF IInv
  <2>2. CASE Running(x)
    <3>1. pc'[r] = "execute"
      BY <1>4, <2>1, <2>2
    <3>2. IsRest(Steps(x), Steps(x), Counters) /\ Len(Steps(x)) \in Nat
      BY WorkTypes, RestOfItself
    <3>3. Begun(r)' = 0
      BY <1>4, <2>1, <3>1, <3>2 DEF Begun, Executed
    <3>. QED BY <1>2, <1>4, <1>5, <2>1, <2>2, <3>1, <3>2, <3>3 DEF PlaceInv, Locations, Executing
  <2>3. CASE ~Running(x)
    <3>1. pc'[r] = "finalize"
      BY <1>4, <2>1, <2>3
    <3>2. NumCalls(x) = 1
      BY <2>3 DEF NumCalls, Steps, Directories, Sums
    <3>3. Begun(r)' = 0
      BY <2>1, <3>1, <3>2 DEF Begun
    <3>. QED BY <1>2, <1>5, <3>1, <3>3 DEF PlaceInv, Locations, Executing
  <2>. QED BY <2>2, <2>3
<1>7. pc' = [pc EXCEPT ![r] = pc'[r]] /\ todo' = [todo EXCEPT ![r] = todo'[r]]
  BY <1>1, <1>4
<1>. QED BY <1>1, <1>2, <1>6, <1>7, StepKeeps

LEMMA StartTimerKeeps ==
  ASSUME IInv, NEW r \in Rank, StartTimer(r)
  PROVE  IInv'
<1>1. /\ pc[r] = "execute" /\ todo[r] # <<>> /\ input' = input /\ todo' = todo
      /\ Enter(r, <<"start", EntryOf(Head(todo[r]))>>)
      /\ pc' = [pc EXCEPT ![r] = "started"]
  BY DEF StartTimer, Goto
<1>2. PICK x \in Inputs : x = input /\ x = input'
  BY <1>1 DEF IInv
<1>3. /\ IsRest(todo[r], Steps(x), Counters) /\ Running(x)
      /\ entered[r] = 2 * (Len(Steps(x)) - Len(todo[r]))
  BY <1>1, <1>2 DEF IInv, PlaceInv, Executing, Begun, Executed
<1>4. PICK n \in Nat, l \in Nat : n = Len(Steps(x)) /\ l = Len(todo[r]) /\ 0 < l /\ l <= n
  BY <1>1, <1>3, WorkTypes, RestOfRest DEF IsRest
<1>5. Head(todo[r]) = Steps(x)[n - l + 1]
  BY <1>1, <1>3, <1>4, RestOfRest
<1>6. /\ Enter(r, CallAt(input, entered[r] + 1)) /\ entered[r] + 1 <= NumCalls(input)
  <2>0. n \in Nat /\ l \in Nat /\ 0 < l /\ l <= n /\ entered[r] = 2 * (n - l)
    BY <1>3, <1>4
  <2>1. PICK k \in 1 .. n : k = n - l + 1
    BY <2>0
  <2>2. entered[r] + 1 = 2 * (k - 1) + 1
    BY <2>0, <2>1
  <2>3. CallAt(x, 2 * (k - 1) + 1) = <<"start", EntryOf(Steps(x)[k])>>
    BY <1>4, ListOfCalls
  <2>4. 2 * (k - 1) + 1 <= NumCalls(x)
    <3>1. \E d, t \in Nat : NumCalls(x) = 2 * n + d + t + 1
      BY <1>4, WorkTypes DEF NumCalls
    <3>. QED BY <2>0, <2>1, <3>1
  <2>. QED BY <1>1, <1>2, <1>5, <2>1, <2>2, <2>3, <2>4
<1>7. /\ CallInv' /\ AheadInv'
      /\ entered' = [q \in Rank |-> entered'[q]] /\ inside' = [q \in Rank |-> inside'[q]]
      /\ entered'[r] = entered[r] + 1
      /\ \A q \in Rank \ {r} : entered'[q] = entered[q] /\ inside'[q] = inside[q]
  BY <1>1, <1>6, EnterKeeps
<1>8. pc = [q \in Rank |-> pc[q]] /\ todo = [q \in Rank |-> todo[q]]
  BY DEF IInv, Functional
<1>9. pc'[r] = "started" /\ todo'[r] = todo[r] /\ todo' = [todo EXCEPT ![r] = todo'[r]]
  BY <1>1, <1>8
<1>10. PlaceInv(r)'
  <2>1. Begun(r)' = 2 * (Len(Steps(x)) - Len(todo[r])) + 1
    BY <1>2, <1>9 DEF Begun, Executed
  <2>. QED BY <1>1, <1>2, <1>3, <1>7, <1>9, <2>1 DEF PlaceInv, Locations, Executing
<1>. QED BY <1>1, <1>7, <1>9, <1>10, StepKeeps

LEMMA StopTimerKeeps ==
  ASSUME IInv, NEW r \in Rank, StopTimer(r)
  PROVE  IInv'
<1>1. /\ pc[r] = "started" /\ input' = input /\ todo' = todo
      /\ Enter(r, <<"stop", EntryOf(Head(todo[r]))>>)
      /\ pc' = [pc EXCEPT ![r] = "stopped"]
  BY DEF StopTimer, Goto
<1>2. PICK x \in Inputs : x = input /\ x = input'
  BY <1>1 DEF IInv
<1>3. /\ IsRest(todo[r], Steps(x), Counters) /\ Running(x) /\ todo[r] # <<>>
      /\ entered[r] = 2 * (Len(Steps(x)) - Len(todo[r])) + 1
  BY <1>1, <1>2 DEF IInv, PlaceInv, Executing, Begun, Executed
<1>4. PICK n \in Nat, l \in Nat : n = Len(Steps(x)) /\ l = Len(todo[r]) /\ 0 < l /\ l <= n
  BY <1>1, <1>3, WorkTypes, RestOfRest DEF IsRest
<1>5. Head(todo[r]) = Steps(x)[n - l + 1]
  BY <1>1, <1>3, <1>4, RestOfRest
<1>6. /\ Enter(r, CallAt(input, entered[r] + 1)) /\ entered[r] + 1 <= NumCalls(input)
  <2>0. n \in Nat /\ l \in Nat /\ 0 < l /\ l <= n /\ entered[r] = 2 * (n - l) + 1
    BY <1>3, <1>4
  <2>1. PICK k \in 1 .. n : k = n - l + 1
    BY <2>0
  <2>2. entered[r] + 1 = 2 * (k - 1) + 2
    BY <2>0, <2>1
  <2>3. CallAt(x, 2 * (k - 1) + 2) = <<"stop", EntryOf(Steps(x)[k])>>
    BY <1>4, ListOfCalls
  <2>4. 2 * (k - 1) + 2 <= NumCalls(x)
    <3>1. \E d, t \in Nat : NumCalls(x) = 2 * n + d + t + 1
      BY <1>4, WorkTypes DEF NumCalls
    <3>. QED BY <2>0, <2>1, <3>1
  <2>. QED BY <1>1, <1>2, <1>5, <2>1, <2>2, <2>3, <2>4
<1>7. /\ CallInv' /\ AheadInv'
      /\ entered' = [q \in Rank |-> entered'[q]] /\ inside' = [q \in Rank |-> inside'[q]]
      /\ entered'[r] = entered[r] + 1
      /\ \A q \in Rank \ {r} : entered'[q] = entered[q] /\ inside'[q] = inside[q]
  BY <1>1, <1>6, EnterKeeps
<1>8. pc = [q \in Rank |-> pc[q]] /\ todo = [q \in Rank |-> todo[q]]
  BY DEF IInv, Functional
<1>9. pc'[r] = "stopped" /\ todo'[r] = todo[r] /\ todo' = [todo EXCEPT ![r] = todo'[r]]
  BY <1>1, <1>8
<1>10. PlaceInv(r)'
  <2>1. Begun(r)' = 2 * (n - l) + 2
    BY <1>2, <1>4, <1>9 DEF Begun, Executed
  <2>2. entered'[r] = 2 * (n - l) + 2
    <3>1. n \in Nat /\ l \in Nat /\ entered[r] = 2 * (n - l) + 1
      BY <1>3, <1>4
    <3>. QED BY <1>7, <3>1
  <2>. QED BY <1>2, <1>3, <1>9, <2>1, <2>2 DEF PlaceInv, Locations, Executing
<1>. QED BY <1>1, <1>7, <1>9, <1>10, StepKeeps

LEMMA RecordExecutionKeeps ==
  ASSUME IInv, NEW r \in Rank, RecordExecution(r)
  PROVE  IInv'
<1>1. /\ pc[r] = "stopped" /\ inside[r] = Idle /\ input' = input /\ UNCHANGED collectives
      /\ todo' = [todo EXCEPT ![r] = Tail(todo[r])]
      /\ pc' = [pc EXCEPT ![r] = "execute"]
  BY DEF RecordExecution, Goto
<1>2. PICK x \in Inputs : x = input /\ x = input'
  BY <1>1 DEF IInv
<1>3. /\ IsRest(todo[r], Steps(x), Counters) /\ Running(x) /\ todo[r] # <<>>
      /\ entered[r] = 2 * (Len(Steps(x)) - Len(todo[r])) + 2
  BY <1>1, <1>2 DEF IInv, PlaceInv, Executing, Begun, Executed
<1>4. PICK n \in Nat, l \in Nat : n = Len(Steps(x)) /\ l = Len(todo[r]) /\ 0 < l /\ l <= n
  BY <1>1, <1>3, WorkTypes, RestOfRest DEF IsRest
<1>5. IsRest(Tail(todo[r]), Steps(x), Counters) /\ Len(Tail(todo[r])) = l - 1
  BY <1>3, <1>4, RestOfRest
<1>6. /\ CallInv' /\ AheadInv'
      /\ entered' = [q \in Rank |-> entered'[q]] /\ inside' = [q \in Rank |-> inside'[q]]
      /\ \A q \in Rank : entered'[q] = entered[q] /\ inside'[q] = inside[q]
  BY <1>1, NoCallKeeps
<1>7. pc = [q \in Rank |-> pc[q]] /\ todo = [q \in Rank |-> todo[q]]
  BY DEF IInv, Functional
<1>8. pc'[r] = "execute" /\ todo'[r] = Tail(todo[r]) /\ todo' = [todo EXCEPT ![r] = todo'[r]]
  BY <1>1, <1>7
<1>9. PlaceInv(r)'
  <2>1. Begun(r)' = 2 * (n - (l - 1))
    BY <1>2, <1>4, <1>5, <1>8 DEF Begun, Executed
  <2>2. entered[r] = 2 * (n - (l - 1))
    <3>1. n \in Nat /\ l \in Nat /\ entered[r] = 2 * (n - l) + 2
      BY <1>3, <1>4
    <3>. QED BY <3>1
  <2>. QED BY <1>1, <1>2, <1>3, <1>5, <1>6, <1>8, <2>1, <2>2 DEF PlaceInv, Locations, Executing
<1>. QED BY <1>1, <1>6, <1>8, <1>9, StepKeeps

LEMMA MakeDirectoryKeeps ==
  ASSUME IInv, NEW r \in Rank, MakeDirectory(r)
  PROVE  IInv'
<1>1. /\ pc[r] = "execute" /\ todo[r] = <<>> /\ input' = input /\ todo' = todo
      /\ pc' = [pc EXCEPT ![r] = "report"]
      /\ IF input.outdir THEN Enter(r, <<"mkdir">>) ELSE UNCHANGED collectives
  BY DEF MakeDirectory, Goto
<1>2. PICK x \in Inputs : x = input /\ x = input'
  BY <1>1 DEF IInv
<1>3. /\ Running(x) /\ inside[r] = Idle
      /\ entered[r] = 2 * (Len(Steps(x)) - 0)
  <2>1. Len(todo[r]) = 0
    BY <1>1
  <2>. QED BY <1>1, <1>2, <2>1 DEF IInv, PlaceInv, Executing, Begun, Executed
<1>4. pc = [q \in Rank |-> pc[q]] /\ todo = [q \in Rank |-> todo[q]]
  BY DEF IInv, Functional
<1>5. pc'[r] = "report" /\ todo'[r] = todo[r] /\ todo' = [todo EXCEPT ![r] = todo'[r]]
  BY <1>1, <1>4
<1>6. PICK n \in Nat : n = Len(Steps(x)) /\ entered[r] = 2 * n
  BY <1>3, WorkTypes
<1>7. CASE x.outdir
  <2>1. Directories(x) = 1
    BY <1>3, <1>7 DEF Directories
  <2>2. /\ Enter(r, CallAt(input, entered[r] + 1)) /\ entered[r] + 1 <= NumCalls(input)
    <3>1. CallAt(x, 2 * n + 1) = <<"mkdir">>
      BY <1>6, <2>1, ListOfCalls
    <3>2. 2 * n + 1 <= NumCalls(x)
      <4>1. \E t \in Nat : NumCalls(x) = 2 * n + 1 + t + 1
        BY <1>6, <2>1, WorkTypes DEF NumCalls
      <4>. QED BY <4>1
    <3>. QED BY <1>1, <1>2, <1>6, <1>7, <3>1, <3>2
  <2>3. /\ CallInv' /\ AheadInv'
        /\ entered' = [q \in Rank |-> entered'[q]] /\ inside' = [q \in Rank |-> inside'[q]]
        /\ entered'[r] = entered[r] + 1
        /\ \A q \in Rank \ {r} : entered'[q] = entered[q] /\ inside'[q] = inside[q]
    BY <1>1, <2>2, EnterKeeps
  <2>4. PlaceInv(r)'
    <3>1. Begun(r)' = 2 * n + 1
      BY <1>2, <1>5, <1>6, <2>1 DEF Begun
    <3>. QED BY <1>2, <1>3, <1>5, <1>6, <2>1, <2>3, <3>1 DEF PlaceInv, Locations, Executing
  <2>. QED BY <1>1, <1>5, <2>3, <2>4, StepKeeps
<1>8. CASE ~x.outdir
  <2>1. Directories(x) = 0
    BY <1>3, <1>8 DEF Directories
  <2>2. UNCHANGED collectives
    BY <1>1, <1>2, <1>8
  <2>3. /\ CallInv' /\ AheadInv'
        /\ entered' = [q \in Rank |-> entered'[q]] /\ inside' = [q \in Rank |-> inside'[q]]
        /\ \A q \in Rank : entered'[q] = entered[q] /\ inside'[q] = inside[q]
    BY <1>1, <2>2, NoCallKeeps
  <2>4. PlaceInv(r)'
    <3>1. Begun(r)' = 2 * n
      BY <1>2, <1>5, <1>6, <2>1 DEF Begun
    <3>. QED BY <1>2, <1>3, <1>5, <1>6, <2>1, <2>3, <3>1 DEF PlaceInv, Locations, Executing
  <2>. QED BY <1>1, <1>5, <2>3, <2>4, StepKeeps
<1>. QED BY <1>7, <1>8

LEMMA WriteChecksumReportKeeps ==
  ASSUME ~FilesMayFail, IInv, NEW r \in Rank, WriteChecksumReport(r)
  PROVE  IInv'
<1>1. /\ pc[r] = "report" /\ inside[r] = Idle /\ input' = input /\ UNCHANGED collectives
      /\ pc' = [pc EXCEPT ![r] = "reduce"]
      /\ todo' = [todo EXCEPT ![r] = Reductions(input)]
  BY DEF WriteChecksumReport, Goto
<1>2. PICK x \in Inputs : x = input /\ x = input'
  BY <1>1 DEF IInv
<1>3. /\ Running(x) /\ entered[r] = 2 * Len(Steps(x)) + Directories(x)
  BY <1>1, <1>2 DEF IInv, PlaceInv, Begun
<1>4. pc = [q \in Rank |-> pc[q]] /\ todo = [q \in Rank |-> todo[q]]
  BY DEF IInv, Functional
<1>5. pc'[r] = "reduce" /\ todo'[r] = Sums(x) /\ todo' = [todo EXCEPT ![r] = todo'[r]]
  BY <1>1, <1>2, <1>3, <1>4 DEF Sums
<1>6. /\ CallInv' /\ AheadInv'
      /\ entered' = [q \in Rank |-> entered'[q]] /\ inside' = [q \in Rank |-> inside'[q]]
      /\ \A q \in Rank : entered'[q] = entered[q] /\ inside'[q] = inside[q]
  BY <1>1, NoCallKeeps
<1>7. PlaceInv(r)'
  <2>1. IsRest(Sums(x), Sums(x), Counters)
    BY WorkTypes, RestOfItself
  <2>2. Begun(r)' = NumCalls(x) - 1 - Len(Sums(x))
    BY <1>2, <1>5 DEF Begun
  <2>3. NumCalls(x) - 1 - Len(Sums(x)) = 2 * Len(Steps(x)) + Directories(x)
    <3>1. PICK n \in Nat, d \in {0, 1}, t \in Nat :
            /\ n = Len(Steps(x)) /\ d = Directories(x) /\ t = Len(Sums(x))
            /\ NumCalls(x) = 2 * n + d + t + 1
      BY WorkTypes DEF NumCalls
    <3>2. 2 * n + d + t + 1 - 1 - t = 2 * n + d
      <4>1. n \in Nat /\ d \in Nat /\ t \in Nat
        BY <3>1
      <4>. QED BY <4>1
    <3>. QED BY <3>1, <3>2
  <2>. QED BY <1>1, <1>2, <1>3, <1>5, <1>6, <2>1, <2>2, <2>3 DEF PlaceInv, Locations, Executing
<1>. QED BY <1>1, <1>5, <1>6, <1>7, StepKeeps

LEMMA ReduceKeeps ==
  ASSUME IInv, NEW r \in Rank, Reduce(r)
  PROVE  IInv'
<1>1. /\ pc[r] = "reduce" /\ todo[r] # <<>> /\ input' = input /\ pc' = pc
      /\ Enter(r, <<"reduce", Head(todo[r])>>)
      /\ todo' = [todo EXCEPT ![r] = Tail(todo[r])]
  BY DEF Reduce
<1>2. PICK x \in Inputs : x = input /\ x = input'
  BY <1>1 DEF IInv
<1>3. /\ IsRest(todo[r], Sums(x), Counters) /\ Running(x)
      /\ entered[r] = NumCalls(x) - 1 - Len(todo[r])
  BY <1>1, <1>2 DEF IInv, PlaceInv, Begun
<1>4. PICK n \in Nat, d \in Nat, t \in Nat, l \in Nat :
        /\ n = Len(Steps(x)) /\ d = Directories(x) /\ t = Len(Sums(x)) /\ l = Len(todo[r])
        /\ 0 < l /\ l <= t /\ NumCalls(x) = 2 * n + d + t + 1
  <2>1. Len(todo[r]) \in Nat /\ Len(todo[r]) <= Len(Sums(x)) /\ 0 < Len(todo[r])
    BY <1>1, <1>3, RestOfRest DEF IsRest
  <2>. QED BY <2>1, WorkTypes DEF NumCalls
<1>5. /\ IsRest(Tail(todo[r]), Sums(x), Counters) /\ Len(Tail(todo[r])) = l - 1
      /\ Head(todo[r]) = Sums(x)[t - l + 1]
  BY <1>1, <1>3, <1>4, RestOfRest
<1>0. n \in Nat /\ d \in Nat /\ t \in Nat /\ l \in Nat /\ 0 < l /\ l <= t
  BY <1>4
<1>6. /\ Enter(r, CallAt(input, entered[r] + 1)) /\ entered[r] + 1 <= NumCalls(input)
  <2>1. PICK j \in 1 .. t : j = t - l + 1
    BY <1>0
  <2>2. entered[r] = 2 * n + d + t - l
    <3>1. entered[r] = 2 * n + d + t + 1 - 1 - l
      BY <1>3, <1>4
    <3>. QED BY <1>0, <3>1
  <2>3. entered[r] + 1 = 2 * n + d + j /\ 2 * n + d + j <= 2 * n + d + t + 1
    BY <1>0, <2>1, <2>2
  <2>4. CallAt(x, 2 * n + d + j) = <<"reduce", Sums(x)[j]>>
    BY <1>4, <2>1, ListOfCalls
  <2>. QED BY <1>1, <1>2, <1>4, <1>5, <2>1, <2>3, <2>4
<1>7. /\ CallInv' /\ AheadInv'
      /\ entered' = [q \in Rank |-> entered'[q]] /\ inside' = [q \in Rank |-> inside'[q]]
      /\ entered'[r] = entered[r] + 1
      /\ \A q \in Rank \ {r} : entered'[q] = entered[q] /\ inside'[q] = inside[q]
  BY <1>1, <1>6, EnterKeeps
<1>8. pc = [q \in Rank |-> pc[q]] /\ todo = [q \in Rank |-> todo[q]]
  BY DEF IInv, Functional
<1>9. /\ pc'[r] = "reduce" /\ todo'[r] = Tail(todo[r])
      /\ todo' = [todo EXCEPT ![r] = todo'[r]] /\ pc' = [pc EXCEPT ![r] = pc'[r]]
  BY <1>1, <1>8
<1>10. PlaceInv(r)'
  <2>1. Begun(r)' = NumCalls(x) - 1 - (l - 1)
    BY <1>2, <1>5, <1>9 DEF Begun
  <2>2. entered'[r] = NumCalls(x) - 1 - (l - 1) /\ l - 1 < t
    <3>1. NumCalls(x) \in Int /\ entered[r] = NumCalls(x) - 1 - l
      BY <1>3, <1>4, WorkTypes
    <3>. QED BY <1>0, <1>7, <3>1
  <2>. QED BY <1>2, <1>3, <1>4, <1>5, <1>9, <2>1, <2>2 DEF PlaceInv, Locations, Executing
<1>. QED BY <1>1, <1>7, <1>9, <1>10, StepKeeps

LEMMA EndReportKeeps ==
  ASSUME IInv, NEW r \in Rank, EndReport(r)
  PROVE  IInv'
<1>1. /\ pc[r] = "reduce" /\ todo[r] = <<>> /\ inside[r] = Idle /\ input' = input /\ todo' = todo
      /\ pc' = [pc EXCEPT ![r] = "finalize"] /\ UNCHANGED collectives
  BY DEF EndReport, Goto
<1>2. PICK x \in Inputs : x = input /\ x = input'
  BY <1>1 DEF IInv
<1>3. entered[r] = NumCalls(x) - 1
  <2>1. Len(todo[r]) = 0 /\ NumCalls(x) \in Nat
    BY <1>1, WorkTypes
  <2>2. entered[r] = NumCalls(x) - 1 - Len(todo[r])
    BY <1>1, <1>2 DEF IInv, PlaceInv, Begun
  <2>. QED BY <2>1, <2>2
<1>4. pc = [q \in Rank |-> pc[q]] /\ todo = [q \in Rank |-> todo[q]]
  BY DEF IInv, Functional
<1>5. pc'[r] = "finalize" /\ todo' = [todo EXCEPT ![r] = todo'[r]]
  BY <1>1, <1>4
<1>6. /\ CallInv' /\ AheadInv'
      /\ entered' = [q \in Rank |-> entered'[q]] /\ inside' = [q \in Rank |-> inside'[q]]
      /\ \A q \in Rank : entered'[q] = entered[q] /\ inside'[q] = inside[q]
  BY <1>1, NoCallKeeps
<1>7. PlaceInv(r)'
  <2>1. Begun(r)' = NumCalls(x) - 1
    BY <1>2, <1>5 DEF Begun
  <2>. QED BY <1>1, <1>3, <1>5, <1>6, <2>1 DEF PlaceInv, Locations, Executing
<1>. QED BY <1>1, <1>5, <1>6, <1>7, StepKeeps

LEMMA FinalizeKeeps ==
  ASSUME IInv, NEW r \in Rank, Finalize(r)
  PROVE  IInv'
<1>1. /\ pc[r] = "finalize" /\ input' = input /\ todo' = todo
      /\ pc' = [pc EXCEPT ![r] = "done"] /\ Enter(r, <<"finalize">>)
  BY DEF Finalize, Goto
<1>2. PICK x \in Inputs : x = input /\ x = input'
  BY <1>1 DEF IInv
<1>3. NumCalls(x) \in Nat /\ entered[r] = NumCalls(x) - 1
  BY <1>1, <1>2, WorkTypes DEF IInv, PlaceInv, Begun
<1>4. pc = [q \in Rank |-> pc[q]] /\ todo = [q \in Rank |-> todo[q]]
  BY DEF IInv, Functional
<1>5. pc'[r] = "done" /\ todo' = [todo EXCEPT ![r] = todo'[r]]
  BY <1>1, <1>4
<1>6. Enter(r, CallAt(input, entered[r] + 1)) /\ entered[r] + 1 <= NumCalls(input)
  <2>1. CallAt(x, NumCalls(x)) = <<"finalize">>
    BY ListOfCalls
  <2>. QED BY <1>1, <1>2, <1>3, <2>1
<1>7. /\ CallInv' /\ AheadInv'
      /\ entered' = [q \in Rank |-> entered'[q]] /\ inside' = [q \in Rank |-> inside'[q]]
      /\ entered'[r] = entered[r] + 1
      /\ \A q \in Rank \ {r} : entered'[q] = entered[q] /\ inside'[q] = inside[q]
  BY <1>1, <1>6, EnterKeeps
<1>8. PlaceInv(r)'
  <2>1. Begun(r)' = NumCalls(x)
    BY <1>2, <1>5 DEF Begun
  <2>. QED BY <1>3, <1>5, <1>7, <2>1 DEF PlaceInv, Locations, Executing
<1>. QED BY <1>1, <1>5, <1>7, <1>8, StepKeeps

LEMMA ReturnKeeps ==
  ASSUME IInv, NEW r \in Rank, ReturnFromCall(r)
  PROVE  IInv'
<1>1. /\ input' = input /\ pc' = pc /\ todo' = todo /\ entered' = entered /\ calls' = calls
      /\ inside' = [inside EXCEPT ![r] = Idle] /\ \A q \in Rank : entered[q] >= entered[r]
  BY DEF ReturnFromCall, Return, MayReturn
<1>2. /\ pc = [q \in Rank |-> pc[q]] /\ todo = [q \in Rank |-> todo[q]]
      /\ entered = [q \in Rank |-> entered[q]] /\ inside = [q \in Rank |-> inside[q]]
  BY DEF IInv, Functional
<1>3. /\ inside' = [q \in Rank |-> inside'[q]] /\ inside'[r] = Idle
      /\ \A q \in Rank \ {r} : inside'[q] = inside[q]
      /\ pc' = [pc EXCEPT ![r] = pc'[r]] /\ todo' = [todo EXCEPT ![r] = todo'[r]]
  BY <1>1, <1>2
<1>4. PICK x : x = input /\ x = input'
  BY <1>1
<1>5. CallInv'
  <2>1. ASSUME NEW q \in Rank
        PROVE  /\ entered'[q] \in Nat /\ entered'[q] <= Len(calls')
               /\ inside'[q] # Idle => entered'[q] > 0 /\ inside'[q] = CallAt(x, entered'[q])
    <3>1. /\ entered[q] \in Nat /\ entered[q] <= Len(calls)
          /\ inside[q] # Idle => entered[q] > 0 /\ inside[q] = CallAt(x, entered[q])
      BY <1>4 DEF IInv, CallInv
    <3>2. inside'[q] = Idle \/ inside'[q] = inside[q]
      BY <1>3
    <3>. QED BY <1>1, <3>1, <3>2, Zenon
  <2>. QED BY <1>1, <1>4, <2>1, Zenon DEF IInv, CallInv
<1>6. AheadInv'
  <2>1. \A p, q \in Rank : entered[p] <= entered[q] + 1 /\ (inside[p] = Idle => entered[p] <= entered[q])
    BY DEF IInv, AheadInv
  <2>2. \A q \in Rank : entered[q] \in Nat
    BY DEF IInv, CallInv
  <2>. QED BY <1>1, <1>3, <2>1, <2>2 DEF AheadInv
<1>7. PlaceInv(r)'
  <2>1. Begun(r)' = Begun(r)
    BY <1>1, <1>4, Zenon DEF Begun, Executed
  <2>. QED BY <1>1, <1>3, <1>4, <2>1, Zenon DEF IInv, PlaceInv
<1>8. entered' = [q \in Rank |-> entered'[q]] /\ \A q \in Rank \ {r} : entered'[q] = entered[q]
  BY <1>1, <1>2
<1>. QED BY <1>1, <1>3, <1>5, <1>6, <1>7, <1>8, StepKeeps

-----------------------------------------------------------------------------
(* The theorems *)

LEMMA InductiveInvariant ==
  ASSUME ~FilesMayFail
  PROVE  Spec => []IInv
<1>1. ASSUME IInv, [Next]_vars PROVE IInv'
  <2>1. ASSUME NEW r \in Rank, RankStep(r) PROVE IInv'
    BY <1>1, <2>1, SetupKeeps, StartTimerKeeps, StopTimerKeeps, RecordExecutionKeeps,
       MakeDirectoryKeeps, WriteChecksumReportKeeps, ReduceKeeps, EndReportKeeps,
       FinalizeKeeps, ReturnKeeps, Zenon DEF RankStep
  <2>2. CASE UNCHANGED vars
    <3>1. /\ input' = input /\ pc' = pc /\ todo' = todo /\ entered' = entered /\ calls' = calls
          /\ inside' = inside
      BY <2>2 DEF vars
    <3>2. PICK x : x = input /\ x = input'
      BY <3>1
    <3>. QED BY <1>1, <3>1, <3>2, Zenon
         DEF IInv, Functional, PlaceInv, CallInv, AheadInv, Begun, Executed
  <2>. QED BY <1>1, <2>1, <2>2 DEF Next, Finished
<1>. QED BY InitIsFine, <1>1, PTL DEF Spec

(* Whatever is asked for and however many ranks there are, the n-th call a   *)
(* rank begins is the n-th call every other rank begins: no barrier of one   *)
(* timing meets one of another, no reduction another one, as long as the     *)
(* checksum file opens (Executor.cpp:1331-1395, KernelBase.hpp:377-387).     *)
THEOREM CollectivesAlwaysMatch ==
  ASSUME ~FilesMayFail
  PROVE  Spec => []CollectivesMatch
<1>1. IInv => CollectivesMatch
  <2>. SUFFICES ASSUME IInv, NEW r \in Rank, inside[r] # Idle
                PROVE  inside[r] = calls[entered[r]]
    BY DEF CollectivesMatch
  <2>1. /\ entered[r] \in Nat /\ entered[r] <= Len(calls) /\ entered[r] > 0
        /\ inside[r] = CallAt(input, entered[r])
        /\ \A m \in 1 .. Len(calls) : calls[m] = CallAt(input, m)
    BY DEF IInv, CallInv
  <2>2. Len(calls) \in Nat
    BY DEF IInv, CallInv
  <2>3. entered[r] \in 1 .. Len(calls)
    BY <2>1, <2>2
  <2>. QED BY <2>1, <2>3, Zenon
<1>. QED BY <1>1, InductiveInvariant, PTL

LEMMA RepetitionsTogether ==
  ASSUME IInv, NEW r \in Rank, NEW q \in Rank, Repeats(r)
  PROVE  /\ pc[q] = "started" \/ (pc[q] = "stopped" /\ inside[q] # Idle)
         /\ Head(todo[q]) = Head(todo[r])
<1>1. PICK x \in Inputs : x = input
  BY DEF IInv
<1>2. PICK n \in Nat, d \in {0, 1}, t \in Nat :
        /\ n = Len(Steps(x)) /\ d = Directories(x) /\ t = Len(Sums(x))
        /\ NumCalls(x) = 2 * n + d + t + 1
  BY WorkTypes DEF NumCalls
<1>3. /\ pc[r] = "started" /\ inside[r] = Idle
      /\ IsRest(todo[r], Steps(x), Counters) /\ todo[r] # <<>>
      /\ entered[r] = 2 * (n - Len(todo[r])) + 1
  BY <1>1, <1>2 DEF IInv, PlaceInv, Repeats, Executing, Begun, Executed
<1>4. PICK l \in Nat : l = Len(todo[r]) /\ 0 < l /\ l <= n /\ entered[r] = 2 * (n - l) + 1
  BY <1>2, <1>3, RestOfRest DEF IsRest
<1>5. PICK e \in Nat : /\ e = entered[q] /\ entered[r] <= e /\ e <= entered[r] + 1
                       /\ inside[q] = Idle => e <= entered[r]
  BY <1>3 DEF IInv, AheadInv, CallInv
<1>6. n \in Nat /\ d \in Nat /\ t \in Nat /\ l \in Nat /\ 0 < l /\ l <= n /\ e \in Nat
  BY <1>2, <1>4, <1>5
<1>7. e \in {2 * (n - l) + 1, 2 * (n - l) + 2} /\ (inside[q] = Idle => e = 2 * (n - l) + 1)
  <2>1. 2 * (n - l) + 1 <= e /\ e <= (2 * (n - l) + 1) + 1
    BY <1>4, <1>5, Zenon
  <2>2. inside[q] = Idle => e <= 2 * (n - l) + 1
    BY <1>4, <1>5, Zenon
  <2>3. e = 2 * (n - l) + 1 \/ (e = 2 * (n - l) + 2 /\ ~(e <= 2 * (n - l) + 1))
    BY <1>6, <2>1
  <2>. QED BY <2>2, <2>3, Zenon
<1>8. PlaceInv(q) /\ e = Begun(q)
  BY <1>5 DEF IInv, PlaceInv
<1>9. ASSUME pc[q] \in {"setup", "finalize", "done", "report", "reduce"} PROVE FALSE
  <2>1. CASE pc[q] = "setup"
    <3>1. e = 0
      BY <1>8, <2>1 DEF Begun
    <3>. QED BY <1>6, <1>7, <3>1
  <2>2. CASE pc[q] = "report"
    <3>1. e = 2 * n + d /\ (inside[q] = Idle \/ d = 1)
      BY <1>1, <1>2, <1>8, <2>2 DEF Begun, PlaceInv
    <3>. QED BY <1>6, <1>7, <3>1
  <2>3. CASE pc[q] = "reduce"
    <3>1. PICK k \in Nat : /\ k = Len(todo[q]) /\ k <= t /\ e = 2 * n + d + t + 1 - 1 - k
                           /\ inside[q] = Idle \/ k < t
      <4>1. IsRest(todo[q], Sums(x), Counters) /\ (inside[q] = Idle \/ Len(todo[q]) < t)
        BY <1>1, <1>2, <1>8, <2>3 DEF PlaceInv
      <4>2. Len(todo[q]) \in Nat /\ Len(todo[q]) <= t
        BY <1>2, <4>1 DEF IsRest
      <4>3. e = 2 * n + d + t + 1 - 1 - Len(todo[q])
        BY <1>1, <1>2, <1>8, <2>3 DEF Begun
      <4>. QED BY <4>1, <4>2, <4>3
    <3>2. k \in Nat /\ k <= t /\ e = 2 * n + d + t + 1 - 1 - k /\ (inside[q] = Idle \/ k < t)
      BY <3>1
    <3>. QED BY <1>6, <1>7, <3>2
  <2>4. CASE pc[q] \in {"finalize", "done"}
    <3>1. \/ e = 2 * n + d + t + 1 - 1 /\ inside[q] = Idle
          \/ e = 2 * n + d + t + 1
      BY <1>1, <1>2, <1>8, <2>4 DEF Begun, PlaceInv
    <3>. QED BY <1>6, <1>7, <3>1
  <2>. QED BY <1>9, <2>1, <2>2, <2>3, <2>4
<1>10. pc[q] \in Executing /\ IsRest(todo[q], Steps(x), Counters)
  BY <1>1, <1>8, <1>9 DEF PlaceInv, Locations, Executing
<1>11. PICK k \in Nat : k = Len(todo[q]) /\ k <= n
  <2>1. Len(todo[q]) \in Nat /\ Len(todo[q]) <= Len(Steps(x))
    BY <1>10 DEF IsRest
  <2>. QED BY <1>2, <2>1, Zenon
<1>12. (pc[q] = "started" \/ (pc[q] = "stopped" /\ inside[q] # Idle)) /\ k = l
  <2>1. CASE pc[q] = "execute"
    <3>1. e = 2 * (n - k) /\ inside[q] = Idle
      BY <1>1, <1>2, <1>8, <1>11, <2>1 DEF Begun, Executed, PlaceInv
    <3>2. k \in Nat
      BY <1>11
    <3>. QED BY <1>6, <1>7, <3>1, <3>2
  <2>2. CASE pc[q] = "started"
    <3>1. e = 2 * (n - k) + 1
      BY <1>1, <1>2, <1>8, <1>11, <2>2 DEF Begun, Executed
    <3>2. k \in Nat
      BY <1>11
    <3>3. k = l
      BY <1>6, <1>7, <3>1, <3>2
    <3>. QED BY <2>2, <3>3
  <2>3. CASE pc[q] = "stopped"
    <3>1. e = 2 * (n - k) + 2
      BY <1>1, <1>2, <1>8, <1>11, <2>3 DEF Begun, Executed
    <3>2. k \in Nat
      BY <1>11
    <3>3. k = l
      BY <1>6, <1>7, <3>1, <3>2
    <3>4. e # 2 * (n - l) + 1
      BY <1>6, <3>1, <3>3
    <3>. QED BY <1>7, <2>3, <3>3, <3>4, Zenon
  <2>. QED BY <1>10, <2>1, <2>2, <2>3 DEF Executing
<1>13. todo[q] # <<>>
  BY <1>8, <1>12 DEF PlaceInv
<1>14. Head(todo[q]) = Steps(x)[n - l + 1]
  <2>1. Head(todo[q]) = Steps(x)[Len(Steps(x)) - Len(todo[q]) + 1]
    BY <1>10, <1>13, RestOfRest, Zenon
  <2>. QED BY <1>2, <1>11, <1>12, <2>1, Zenon
<1>15. Head(todo[r]) = Steps(x)[n - l + 1]
  <2>1. Head(todo[r]) = Steps(x)[Len(Steps(x)) - Len(todo[r]) + 1]
    BY <1>3, RestOfRest, Zenon
  <2>. QED BY <1>2, <1>4, <2>1, Zenon
<1>. QED BY <1>12, <1>14, <1>15

LEMMA StoppedTogether ==
  ASSUME IInv, NEW r \in Rank, NEW q \in Rank, pc[r] = "stopped", pc[q] = "stopped"
  PROVE  Head(todo[q]) = Head(todo[r])
<1>1. \A p \in {r, q} : /\ IsRest(todo[p], Steps(input), Counters) /\ todo[p] # <<>>
                        /\ entered[p] = 2 * (Len(Steps(input)) - Len(todo[p])) + 2
  BY Zenon DEF IInv, PlaceInv, Executing, Begun, Executed
<1>2. entered[r] <= entered[q] + 1 /\ entered[q] <= entered[r] + 1
  BY DEF IInv, AheadInv
<1>3. PICK n \in Nat : n = Len(Steps(input))
  BY WorkTypes DEF IInv
<1>4. PICK l \in Nat, k \in Nat : l = Len(todo[r]) /\ k = Len(todo[q])
  <2>1. IsRest(todo[r], Steps(input), Counters) /\ IsRest(todo[q], Steps(input), Counters)
    BY <1>1, Zenon
  <2>2. Len(todo[r]) \in Nat /\ Len(todo[q]) \in Nat
    BY <2>1 DEF IsRest
  <2>. QED BY <2>2
<1>5. 2 * (n - l) + 2 <= 2 * (n - k) + 2 + 1 /\ 2 * (n - k) + 2 <= 2 * (n - l) + 2 + 1
  <2>1. entered[r] = 2 * (n - l) + 2 /\ entered[q] = 2 * (n - k) + 2
    BY <1>1, <1>3, <1>4, Zenon
  <2>. QED BY <1>2, <2>1, Zenon
<1>6. l = k
  BY <1>3, <1>4, <1>5
<1>7. \A p \in {r, q} : Head(todo[p]) = Steps(input)[Len(Steps(input)) - Len(todo[p]) + 1]
  BY <1>1, RestOfRest, Zenon
<1>. QED BY <1>4, <1>6, <1>7, Zenon

(* Whatever is asked for and however many ranks there are: while one goes    *)
(* through its repetitions, every other has entered the first barrier of the *)
(* same execution and not left the second, and no two ranks are ever timed   *)
(* in different executions (KernelBase.hpp:373-390).                         *)
THEOREM TimedTogetherAlways ==
  ASSUME ~FilesMayFail
  PROVE  Spec => []RanksAreTimedTogether
<1>1. IInv => RanksAreTimedTogether
  <2>. SUFFICES ASSUME IInv, NEW r \in Rank, NEW q \in Rank
       PROVE  /\ Repeats(r) => /\ pc[q] = "started" \/ (pc[q] = "stopped" /\ inside[q] # Idle)
                               /\ Head(todo[q]) = Head(todo[r])
              /\ IsTimed(r) /\ IsTimed(q) => Head(todo[q]) = Head(todo[r])
    BY Zenon DEF RanksAreTimedTogether
  <2>1. CASE Repeats(r)
    BY <2>1, RepetitionsTogether, Zenon
  <2>2. CASE Repeats(q) /\ ~Repeats(r)
    <3>1. Head(todo[r]) = Head(todo[q])
      BY <2>2, RepetitionsTogether, Zenon
    <3>. QED BY <2>2, <3>1, Zenon
  <2>3. CASE ~Repeats(q) /\ ~Repeats(r)
    <3>1. IsTimed(r) /\ IsTimed(q) => pc[r] = "stopped" /\ pc[q] = "stopped"
      BY <2>3, Zenon DEF IsTimed
    <3>. QED BY <2>3, <3>1, StoppedTogether, Zenon
  <2>. QED BY <2>1, <2>2, <2>3, Zenon
<1>. QED BY <1>1, InductiveInvariant, PTL

-----------------------------------------------------------------------------
(* The records *)

(* Which of the first n executions count for the entry e.                    *)
CountedAt(x, n, e) == {i \in 1 .. n : OnSuiteObject(Steps(x)[i]) /\ EntryOf(Steps(x)[i]) = e}
PassesOf(x) == IF x.npasses > 0 THEN x.npasses ELSE 0

LEMMA CountNext ==
  ASSUME NEW x \in Inputs, NEW n \in Nat, NEW e
  PROVE  /\ Cardinality(CountedAt(x, n, e)) \in Nat
         /\ Cardinality(CountedAt(x, n + 1, e)) = Cardinality(CountedAt(x, n, e)) +
              (IF OnSuiteObject(Steps(x)[n + 1]) /\ EntryOf(Steps(x)[n + 1]) = e THEN 1 ELSE 0)
<1>. DEFINE Counts(i) == OnSuiteObject(Steps(x)[i]) /\ EntryOf(Steps(x)[i]) = e
            C == CountedAt(x, n, e)
<1>1. C = {i \in 1 .. n : Counts(i)} /\ CountedAt(x, n + 1, e) = {i \in 1 .. n + 1 : Counts(i)}
  BY DEF CountedAt
<1>. HIDE DEF Counts, C
<1>2. IsFiniteSet(C) /\ Cardinality(C) \in Nat
  <2>1. IsFiniteSet(1 .. n) /\ C \in SUBSET (1 .. n)
    BY <1>1, FS_Interval
  <2>. QED BY <2>1, FS_Subset, FS_CardinalityType
<1>3. CASE Counts(n + 1)
  <2>1. CountedAt(x, n + 1, e) = C \cup {n + 1} /\ n + 1 \notin C
    BY <1>1, <1>3
  <2>2. Cardinality(CountedAt(x, n + 1, e)) = Cardinality(C) + 1
    BY <1>2, <2>1, FS_AddElement
  <2>. QED BY <1>2, <1>3, <2>2 DEF Counts, C
<1>4. CASE ~Counts(n + 1)
  <2>1. CountedAt(x, n + 1, e) = C
    <3>1. \A i \in 1 .. n + 1 : i \in 1 .. n \/ i = n + 1
      OBVIOUS
    <3>. QED BY <1>1, <1>4, <3>1
  <2>. QED BY <1>2, <1>4, <2>1 DEF Counts, C
<1>. QED BY <1>3, <1>4

(* An entry that is to be run is at one place of the list for every pass, an *)
(* entry that is not at none: the warmup kernels are objects of their own.   *)
LEMMA CountOfAll ==
  ASSUME NEW x \in Inputs, Running(x), NEW e \in Entry
  PROVE  Cardinality(CountedAt(x, Len(Steps(x)), e)) =
           IF e \in ToRun(x, x.kernels) THEN PassesOf(x) ELSE 0
<1>1. PICK s \in Seq(Counters) : s = Executions(x)
  BY WorkOfExecutions
<1>2. PICK n \in Nat : n = Len(s)
  BY <1>1
<1>3. /\ \A i \in 1 .. n : s[i] \in WarmupRun(x) \cup Passes(x)
      /\ \A w \in WarmupRun(x) \cup Passes(x) : \E i \in 1 .. n : s[i] = w
      /\ \A i, j \in 1 .. n : s[i] = s[j] => i = j
  BY <1>1, <1>2, WorkOfExecutions, Zenon
<1>4. Steps(x) = s /\ n = Len(Steps(x))
  BY <1>1, <1>2 DEF Steps
<1>. DEFINE C == {i \in 1 .. n : s[i][1] > 0 /\ EntryOf(s[i]) = e}
<1>5. CountedAt(x, Len(Steps(x)), e) = C
  BY <1>4 DEF CountedAt, OnSuiteObject
<1>6. \A E \in SUBSET Entry : \A p \in Nat : \A w \in InPass(p, E) :
        /\ w[1] = p /\ EntryOf(w) \in E
        /\ w = <<w[1], EntryOf(w)[1], EntryOf(w)[2], EntryOf(w)[3]>>
  <2>. TAKE E \in SUBSET Entry
  <2>. TAKE p \in Nat
  <2>. TAKE w \in InPass(p, E)
  <2>1. PICK d \in E : w = <<p, d[1], d[2], d[3]>>
    BY DEF InPass
  <2>2. d = <<d[1], d[2], d[3]>>
    BY EntryIsFinite
  <2>3. w[1] = p /\ EntryOf(w) = <<d[1], d[2], d[3]>>
    BY <2>1 DEF EntryOf
  <2>. QED BY <2>1, <2>2, <2>3
<1>7. \A S : ToRun(x, S) \in SUBSET Entry
  BY DEF ToRun
<1>8. \A w \in WarmupRun(x) : w[1] = 0
  BY <1>6, <1>7 DEF WarmupRun
<1>9. ASSUME NEW w \in Passes(x)
      PROVE  /\ w[1] \in 1 .. x.npasses /\ EntryOf(w) \in ToRun(x, x.kernels)
             /\ w = <<w[1], EntryOf(w)[1], EntryOf(w)[2], EntryOf(w)[3]>>
  <2>1. PICK p \in 1 .. x.npasses : w \in InPass(p, ToRun(x, x.kernels))
    BY DEF Passes
  <2>2. p \in Nat
    BY <2>1
  <2>. QED BY <1>6, <1>7, <2>1, <2>2
<1>10. \A i \in C : /\ s[i] \in Passes(x) /\ s[i][1] \in 1 .. x.npasses
                    /\ s[i] = <<s[i][1], e[1], e[2], e[3]>> /\ e \in ToRun(x, x.kernels)
  <2>. TAKE i \in C
  <2>1. s[i] \in Passes(x) /\ EntryOf(s[i]) = e
    <3>1. s[i] \in WarmupRun(x) \cup Passes(x) /\ s[i][1] > 0
      BY <1>3
    <3>2. s[i][1] # 0
      BY <3>1
    <3>. QED BY <1>8, <3>1, <3>2
  <2>. HIDE DEF C
  <2>. QED BY <1>9, <2>1
<1>11. CASE e \notin ToRun(x, x.kernels)
  <2>1. C = {}
    BY <1>10, <1>11
  <2>. QED BY <1>5, <1>11, <2>1, FS_EmptySet
<1>12. CASE e \in ToRun(x, x.kernels)
  <2>. DEFINE f == [i \in C |-> s[i][1]]
              P == 1 .. x.npasses
  <2>1. f \in [C -> P]
    BY <1>10
  <2>2. ASSUME NEW i \in C, NEW j \in C, f[i] = f[j] PROVE i = j
    <3>1. s[i] = s[j]
      BY <1>10, <2>2
    <3>. QED BY <1>3, <3>1
  <2>3. ASSUME NEW p \in P PROVE \E i \in C : f[i] = p
    <3>1. PICK w \in Passes(x) : w = <<p, e[1], e[2], e[3]>>
      <4>1. <<p, e[1], e[2], e[3]>> \in InPass(p, ToRun(x, x.kernels))
        BY <1>12 DEF InPass
      <4>2. InPass(p, ToRun(x, x.kernels)) \in {InPass(q, ToRun(x, x.kernels)) : q \in 1 .. x.npasses}
        <5>. HIDE DEF f, C
        <5>. QED BY Zenon DEF P
      <4>. HIDE DEF f, C, P
      <4>. QED BY <4>1, <4>2 DEF Passes
    <3>2. PICK i \in 1 .. n : s[i] = w
      BY <1>3
    <3>3. w[1] = p /\ p > 0 /\ EntryOf(w) = e
      BY <3>1, EntryIsFinite DEF EntryOf
    <3>4. i \in C
      BY <3>2, <3>3
    <3>. QED BY <3>2, <3>3, <3>4
  <2>. HIDE DEF f, C, P
  <2>4. f \in Injection(C, P)
    BY <2>1, <2>2 DEF Injection, IsInjective
  <2>5. f \in Surjection(C, P)
    BY <2>1, <2>3 DEF Surjection
  <2>6. IsFiniteSet(P) /\ Cardinality(P) = PassesOf(x)
    BY FS_Interval DEF P, PassesOf
  <2>7. Cardinality(C) = Cardinality(P)
    BY <2>4, <2>5, <2>6, FS_Injection
  <2>. QED BY <1>5, <1>12, <2>6, <2>7
<1>. QED BY <1>11, <1>12

(* At no time has an entry been executed more often than there are passes.   *)
LEMMA CountIsBounded ==
  ASSUME NEW x \in Inputs, Running(x), NEW e \in Entry, NEW n \in 0 .. Len(Steps(x))
  PROVE  Cardinality(CountedAt(x, n, e)) \in 0 .. PassesOf(x)
<1>1. PICK m \in Nat : m = Len(Steps(x))
  BY WorkTypes
<1>2. CountedAt(x, n, e) \in SUBSET CountedAt(x, m, e)
  BY <1>1 DEF CountedAt
<1>3. IsFiniteSet(CountedAt(x, m, e))
  <2>1. IsFiniteSet(1 .. m) /\ CountedAt(x, m, e) \in SUBSET (1 .. m)
    BY FS_Interval DEF CountedAt
  <2>. QED BY <2>1, FS_Subset
<1>4. Cardinality(CountedAt(x, n, e)) <= Cardinality(CountedAt(x, m, e))
  BY <1>2, <1>3, FS_Subset
<1>5. Cardinality(CountedAt(x, n, e)) \in Nat
  BY <1>2, <1>3, FS_Subset, FS_CardinalityType
<1>6. Cardinality(CountedAt(x, m, e)) \in 0 .. PassesOf(x)
  <2>1. PassesOf(x) \in Nat
    BY DEF PassesOf
  <2>2. Cardinality(CountedAt(x, m, e)) \in {0, PassesOf(x)}
    BY <1>1, CountOfAll
  <2>. QED BY <2>1, <2>2
<1>7. PassesOf(x) \in Nat
  BY DEF PassesOf
<1>. QED BY <1>4, <1>5, <1>6, <1>7

(* How many executions rank r has finished. The lists of the reductions come *)
(* after them.                                                               *)
Performed(r) ==
  CASE pc[r] = "setup" -> 0
    [] pc[r] \in Executing -> Executed(r)
    [] OTHER -> Len(Steps(input))
RecordOf(x, n) == [e \in Entry |-> Cardinality(CountedAt(x, n, e))]

ProgressInv(r) ==
  /\ pc[r] \in Locations
  /\ pc[r] \in Executing => IsRest(todo[r], Steps(input), Counters)
  /\ pc[r] \in {"started", "stopped"} => todo[r] # <<>>
  /\ pc[r] \notin {"setup", "finalize", "done"} => Running(input)

CountInv ==
  /\ \E S : calls \in Seq(S)
  /\ entered \in [Rank -> Nat] /\ \A r \in Rank : entered[r] <= Len(calls)

(* The records of a rank follow from its place, whatever the other ranks do  *)
(* and whether or not the file opens.                                        *)
RecordInv ==
  /\ input \in Inputs
  /\ pc = [r \in Rank |-> pc[r]] /\ todo = [r \in Rank |-> todo[r]]
  /\ \A r \in Rank : ProgressInv(r)
  /\ num_exec = [r \in Rank |-> RecordOf(input, Performed(r))]
  /\ checksum = num_exec
  /\ CountInv

LEMMA InitRecords == Init => RecordInv
<1>. SUFFICES ASSUME Init PROVE RecordInv
  OBVIOUS
<1>1. /\ input \in Inputs
      /\ pc = [r \in Rank |-> pc[r]] /\ todo = [r \in Rank |-> todo[r]]
      /\ \A r \in Rank : pc[r] = "setup"
  BY DEF Init
<1>2. \A r \in Rank : ProgressInv(r)
  BY <1>1 DEF ProgressInv, Locations, Executing
<1>3. num_exec = [r \in Rank |-> RecordOf(input, Performed(r))]
  <2>1. \A r \in Rank : Performed(r) = 0
    BY <1>1 DEF Performed, Executing
  <2>2. \A e \in Entry : Cardinality(CountedAt(input, 0, e)) = 0
    <3>1. \A e \in Entry : CountedAt(input, 0, e) = {}
      BY DEF CountedAt
    <3>. QED BY <3>1, FS_EmptySet
  <2>3. num_exec = [r \in Rank |-> [e \in Entry |-> 0]]
    BY DEF Init
  <2>4. RecordOf(input, 0) = [e \in Entry |-> 0]
    BY <2>2 DEF RecordOf
  <2>. QED BY <2>1, <2>3, <2>4
<1>4. checksum = num_exec
  BY DEF Init
<1>5. CountInv
  <2>1. calls \in Seq({}) /\ Len(calls) = 0 /\ entered = [r \in Rank |-> 0]
    BY DEF Init
  <2>. QED BY <2>1 DEF CountInv
<1>. QED BY <1>1, <1>2, <1>3, <1>4, <1>5 DEF RecordInv

(* What a rank does about a collective call.                                 *)
LEMMA CallsGrow ==
  ASSUME CountInv, NEW r \in Rank, UNCHANGED collectives \/ Return(r) \/ \E c : Enter(r, c)
  PROVE  CountInv'
<1>1. PICK S : calls \in Seq(S)
  BY DEF CountInv
<1>2. Len(calls) \in Nat /\ entered \in [Rank -> Nat] /\ \A q \in Rank : entered[q] <= Len(calls)
  BY <1>1 DEF CountInv
<1>3. CASE UNCHANGED collectives \/ Return(r)
  <2>1. entered' = entered /\ calls' = calls
    BY <1>3 DEF collectives, Return
  <2>. QED BY <1>1, <1>2, <2>1 DEF CountInv
<1>4. ASSUME NEW c, Enter(r, c) PROVE CountInv'
  <2>1. /\ entered' = [entered EXCEPT ![r] = @ + 1]
        /\ calls' = IF entered[r] = Len(calls) THEN Append(calls, c) ELSE calls
    BY <1>4 DEF Enter
  <2>2. /\ calls' \in Seq(S \cup {c}) /\ Len(calls') >= Len(calls) /\ Len(calls') \in Nat
        /\ entered[r] + 1 <= Len(calls')
    <3>1. calls \in Seq(S \cup {c})
      BY <1>1
    <3>2. CASE entered[r] = Len(calls)
      BY <1>2, <2>1, <3>1, <3>2
    <3>3. CASE entered[r] # Len(calls)
      BY <1>2, <2>1, <3>1, <3>3
    <3>. QED BY <3>2, <3>3
  <2>3. entered' \in [Rank -> Nat] /\ \A q \in Rank : entered'[q] <= Len(calls')
    BY <1>2, <2>1, <2>2
  <2>. QED BY <2>2, <2>3 DEF CountInv
<1>. QED BY <1>3, <1>4

(* One rank has stepped, and its record is right.                            *)
LEMMA RecordStepKeeps ==
  ASSUME RecordInv, input' = input, NEW r \in Rank, CountInv', ProgressInv(r)',
         pc' = [pc EXCEPT ![r] = pc'[r]], todo' = [todo EXCEPT ![r] = todo'[r]],
         num_exec' = [num_exec EXCEPT ![r] = RecordOf(input, Performed(r)')],
         checksum' = num_exec'
  PROVE  RecordInv'
<1>1. /\ pc = [q \in Rank |-> pc[q]] /\ todo = [q \in Rank |-> todo[q]] /\ input' \in Inputs
      /\ num_exec = [q \in Rank |-> RecordOf(input, Performed(q))]
  BY DEF RecordInv
<1>2. pc' = [q \in Rank |-> pc'[q]] /\ todo' = [q \in Rank |-> todo'[q]]
  BY <1>1
<1>3. PICK x : x = input /\ x = input'
  OBVIOUS
<1>4. ASSUME NEW q \in Rank, q # r
      PROVE  ProgressInv(q)' /\ Performed(q)' = Performed(q)
  <2>1. pc'[q] = pc[q] /\ todo'[q] = todo[q]
    BY <1>1, <1>4
  <2>. QED BY <1>3, <2>1, Zenon DEF RecordInv, ProgressInv, Performed, Executed
<1>5. \A q \in Rank : ProgressInv(q)'
  BY <1>4
<1>6. num_exec' = [q \in Rank |-> RecordOf(x, Performed(q)')]
  <2>. DEFINE N == [q \in Rank |-> RecordOf(x, Performed(q)')]
              M == [q \in Rank |-> RecordOf(x, Performed(q))]
  <2>1. num_exec' = [M EXCEPT ![r] = RecordOf(x, Performed(r)')]
    BY <1>1, <1>3
  <2>2. \A q \in Rank : N[q] = IF q = r THEN RecordOf(x, Performed(r)') ELSE M[q]
    BY <1>4
  <2>. QED BY <2>1, <2>2
<1>. QED BY <1>1, <1>2, <1>3, <1>5, <1>6 DEF RecordInv

(* A step of a rank that records nothing.                                    *)
LEMMA UnrecordedStepKeeps ==
  ASSUME RecordInv, input' = input, NEW r \in Rank, ProgressInv(r)', UNCHANGED records,
         UNCHANGED collectives \/ Return(r) \/ \E c : Enter(r, c),
         pc' = [pc EXCEPT ![r] = pc'[r]], todo' = [todo EXCEPT ![r] = todo'[r]],
         Performed(r)' = Performed(r)
  PROVE  RecordInv'
<1>1. num_exec' = num_exec /\ checksum' = num_exec'
  BY DEF records, RecordInv
<1>2. num_exec' = [num_exec EXCEPT ![r] = RecordOf(input, Performed(r)')]
  <2>1. num_exec = [q \in Rank |-> RecordOf(input, Performed(q))]
    BY DEF RecordInv
  <2>2. num_exec[r] = RecordOf(input, Performed(r))
    BY <2>1
  <2>3. num_exec = [num_exec EXCEPT ![r] = num_exec[r]]
    BY <2>1
  <2>. QED BY <1>1, <2>2, <2>3
<1>3. CountInv'
  BY CallsGrow DEF RecordInv
<1>. QED BY <1>1, <1>2, <1>3, RecordStepKeeps

LEMMA RecordExecutionCounts ==
  ASSUME RecordInv, NEW r \in Rank, RecordExecution(r)
  PROVE  RecordInv'
<1>. DEFINE w == Head(todo[r])
            e0 == EntryOf(w)
            d == IF OnSuiteObject(w) THEN 1 ELSE 0
<1>1. /\ pc[r] = "stopped" /\ input' = input /\ UNCHANGED collectives
      /\ todo' = [todo EXCEPT ![r] = Tail(todo[r])]
      /\ pc' = [pc EXCEPT ![r] = "execute"]
      /\ num_exec' = [num_exec EXCEPT ![r][e0] = @ + d]
      /\ checksum' = [checksum EXCEPT ![r][e0] = @ + d]
  BY DEF RecordExecution, Goto
<1>2. PICK x \in Inputs : x = input /\ x = input'
  BY <1>1 DEF RecordInv
<1>3. /\ IsRest(todo[r], Steps(x), Counters) /\ Running(x) /\ todo[r] # <<>>
      /\ Performed(r) = Len(Steps(x)) - Len(todo[r])
  BY <1>1, <1>2 DEF RecordInv, ProgressInv, Executing, Performed, Executed
<1>4. PICK n \in Nat, l \in Nat : n = Len(Steps(x)) /\ l = Len(todo[r]) /\ 0 < l /\ l <= n
  <2>. HIDE DEF w, e0, d
  <2>1. Len(todo[r]) \in Nat /\ Len(todo[r]) <= Len(Steps(x)) /\ Len(todo[r]) > 0
    BY <1>3, RestOfRest DEF IsRest
  <2>. QED BY <2>1, WorkTypes
<1>5. /\ IsRest(Tail(todo[r]), Steps(x), Counters) /\ Len(Tail(todo[r])) = l - 1
      /\ w = Steps(x)[n - l + 1]
  BY <1>3, <1>4, RestOfRest
<1>6. pc = [q \in Rank |-> pc[q]] /\ todo = [q \in Rank |-> todo[q]]
  BY DEF RecordInv
<1>7. /\ pc'[r] = "execute" /\ todo'[r] = Tail(todo[r]) /\ todo' = [todo EXCEPT ![r] = todo'[r]]
      /\ pc' = [pc EXCEPT ![r] = pc'[r]]
  BY <1>1, <1>6
<1>8. ProgressInv(r)'
  BY <1>2, <1>3, <1>5, <1>7 DEF ProgressInv, Locations, Executing
<1>9. PICK k \in Nat : k = n - l /\ k + 1 = n - l + 1
  <2>1. n \in Nat /\ l \in Nat /\ l <= n
    BY <1>4
  <2>. QED BY <2>1
<1>10. Performed(r) = k /\ Performed(r)' = k + 1
  <2>1. Performed(r) = k
    BY <1>3, <1>4, <1>9
  <2>2. Performed(r)' = n - (l - 1)
    BY <1>2, <1>4, <1>5, <1>7 DEF Performed, Executed, Executing
  <2>3. n - (l - 1) = k + 1
    <3>1. n \in Nat /\ l \in Nat
      BY <1>4
    <3>. QED BY <1>9, <3>1
  <2>. QED BY <2>1, <2>2, <2>3
<1>11. RecordOf(x, k + 1) = [RecordOf(x, k) EXCEPT ![e0] = @ + d]
  <2>1. \A e \in Entry :
          /\ Cardinality(CountedAt(x, k, e)) \in Nat
          /\ Cardinality(CountedAt(x, k + 1, e)) = Cardinality(CountedAt(x, k, e)) +
               (IF OnSuiteObject(w) /\ e0 = e THEN 1 ELSE 0)
    BY <1>5, <1>9, CountNext
  <2>. HIDE DEF e0
  <2>2. \A e \in Entry : Cardinality(CountedAt(x, k + 1, e)) =
          IF e = e0 THEN Cardinality(CountedAt(x, k, e)) + d ELSE Cardinality(CountedAt(x, k, e))
    BY <2>1
  <2>. HIDE DEF d
  <2>. QED BY <2>2 DEF RecordOf
<1>12. num_exec' = [num_exec EXCEPT ![r] = RecordOf(input, Performed(r)')]
  <2>1. num_exec = [q \in Rank |-> RecordOf(x, Performed(q))]
    BY <1>2 DEF RecordInv
  <2>2. num_exec[r] = RecordOf(x, k)
    BY <1>10, <2>1
  <2>. HIDE DEF e0, d
  <2>3. num_exec' = [num_exec EXCEPT ![r] = [num_exec[r] EXCEPT ![e0] = @ + d]]
    BY <1>1
  <2>. QED BY <1>2, <1>10, <1>11, <2>2, <2>3
<1>13. checksum' = num_exec'
  BY <1>1 DEF RecordInv
<1>14. CountInv'
  BY <1>1, CallsGrow DEF RecordInv
<1>. QED BY <1>1, <1>7, <1>8, <1>12, <1>13, <1>14, RecordStepKeeps

LEMMA SetupRecordsNothing ==
  ASSUME RecordInv, NEW r \in Rank, Setup(r)
  PROVE  RecordInv'
<1>1. /\ pc[r] = "setup" /\ input' = input /\ UNCHANGED collectives /\ UNCHANGED records
      /\ pc' = [pc EXCEPT ![r] = IF Running(input) THEN "execute" ELSE "finalize"]
      /\ todo' = [todo EXCEPT ![r] = Steps(input)]
  BY DEF Setup, Goto, WillRun, Running, Steps
<1>2. PICK x \in Inputs : x = input /\ x = input'
  BY <1>1 DEF RecordInv
<1>3. pc = [q \in Rank |-> pc[q]] /\ todo = [q \in Rank |-> todo[q]]
  BY DEF RecordInv
<1>4. /\ pc'[r] = (IF Running(x) THEN "execute" ELSE "finalize") /\ todo'[r] = Steps(x)
      /\ pc' = [pc EXCEPT ![r] = pc'[r]] /\ todo' = [todo EXCEPT ![r] = todo'[r]]
  BY <1>1, <1>2, <1>3
<1>5. IsRest(Steps(x), Steps(x), Counters) /\ Len(Steps(x)) \in Nat
  BY WorkTypes, RestOfItself
<1>6. ProgressInv(r)'
  BY <1>2, <1>4, <1>5 DEF ProgressInv, Locations, Executing
<1>7. Performed(r) = 0 /\ Performed(r)' = 0
  <2>1. Performed(r) = 0
    BY <1>1 DEF Performed, Executing
  <2>2. CASE Running(x)
    <3>1. pc'[r] = "execute"
      BY <1>4, <2>2
    <3>2. Performed(r)' = Len(Steps(x)) - Len(Steps(x))
      BY <1>2, <1>4, <3>1 DEF Performed, Executing, Executed
    <3>. QED BY <1>5, <2>1, <3>2
  <2>3. CASE ~Running(x)
    <3>1. Len(Steps(x)) = 0
      BY <2>3 DEF Steps
    <3>2. pc'[r] = "finalize"
      BY <1>4, <2>3
    <3>3. Performed(r)' = Len(Steps(x))
      BY <1>2, <3>2 DEF Performed, Executing
    <3>. QED BY <2>1, <3>1, <3>3
  <2>. QED BY <2>1, <2>2, <2>3
<1>. QED BY <1>1, <1>4, <1>6, <1>7, UnrecordedStepKeeps

(* A rank goes on to another place without taking anything from its list.    *)
LEMMA MoveRecordsNothing ==
  ASSUME RecordInv, NEW r \in Rank, input' = input, UNCHANGED records, todo' = todo,
         UNCHANGED collectives \/ Return(r) \/ \E c : Enter(r, c),
         NEW l \in Locations, pc' = [pc EXCEPT ![r] = l],
         \/ pc[r] \in Executing /\ l \in Executing /\ todo[r] # <<>>
         \/ pc[r] = "execute" /\ l = "report" /\ todo[r] = <<>>
         \/ pc[r] = "reduce" /\ l = "finalize"
         \/ pc[r] = "finalize" /\ l = "done"
         \/ pc[r] = l
  PROVE  RecordInv'
<1>1. PICK x \in Inputs : x = input /\ x = input'
  BY DEF RecordInv
<1>2. pc = [q \in Rank |-> pc[q]] /\ todo = [q \in Rank |-> todo[q]]
  BY DEF RecordInv
<1>3. /\ pc'[r] = l /\ todo'[r] = todo[r]
      /\ pc' = [pc EXCEPT ![r] = pc'[r]] /\ todo' = [todo EXCEPT ![r] = todo'[r]]
  BY <1>2
<1>4. ProgressInv(r) /\ pc[r] \in Locations
  BY DEF RecordInv, ProgressInv
<1>5. ProgressInv(r)'
  BY <1>1, <1>3, <1>4 DEF ProgressInv, Locations, Executing
<1>6. Performed(r)' = Performed(r)
  <2>1. CASE pc[r] \in Executing /\ l \in Executing
    BY <1>1, <1>3, <2>1 DEF Performed, Executing, Executed
  <2>2. CASE pc[r] = "execute" /\ l = "report" /\ todo[r] = <<>>
    <3>1. Len(todo[r]) = 0 /\ Len(Steps(x)) \in Nat
      BY <2>2, WorkTypes
    <3>2. Performed(r) = Len(Steps(x)) - Len(todo[r])
      BY <1>1, <2>2 DEF Performed, Executing, Executed
    <3>3. Performed(r)' = Len(Steps(x))
      BY <1>1, <1>3, <2>2 DEF Performed, Executing
    <3>. QED BY <3>1, <3>2, <3>3
  <2>3. CASE pc[r] \in {"reduce", "finalize"} /\ l \in {"finalize", "done"}
    BY <1>1, <1>3, <2>3 DEF Performed, Executing
  <2>4. CASE pc[r] = l
    BY <1>1, <1>3, <2>4, Zenon DEF Performed, Executed
  <2>. QED BY <2>1, <2>2, <2>3, <2>4
<1>. QED BY <1>3, <1>5, <1>6, UnrecordedStepKeeps

LEMMA ListRecordsNothing ==
  ASSUME RecordInv, NEW r \in Rank, WriteChecksumReport(r) \/ Reduce(r)
  PROVE  RecordInv'
<1>1. /\ pc[r] \in {"report", "reduce"} /\ input' = input /\ UNCHANGED records
      /\ pc' = [pc EXCEPT ![r] = "reduce"] /\ todo' = [todo EXCEPT ![r] = todo'[r]]
      /\ UNCHANGED collectives \/ \E c : Enter(r, c)
  <2>1. pc = [q \in Rank |-> pc[q]] /\ todo = [q \in Rank |-> todo[q]]
    BY DEF RecordInv
  <2>2. CASE WriteChecksumReport(r)
    <3>1. PICK s : todo' = [todo EXCEPT ![r] = s]
      BY <2>2 DEF WriteChecksumReport
    <3>. QED BY <2>1, <2>2, <3>1 DEF WriteChecksumReport, Goto
  <2>3. CASE Reduce(r)
    <3>1. Enter(r, <<"reduce", Head(todo[r])>>) /\ todo' = [todo EXCEPT ![r] = Tail(@)]
      BY <2>3 DEF Reduce
    <3>. QED BY <2>1, <2>3, <3>1 DEF Reduce
  <2>. QED BY <2>2, <2>3
<1>2. PICK x \in Inputs : x = input /\ x = input'
  BY <1>1 DEF RecordInv
<1>3. pc'[r] = "reduce" /\ pc' = [pc EXCEPT ![r] = pc'[r]]
  <2>1. pc = [q \in Rank |-> pc[q]]
    BY DEF RecordInv
  <2>. QED BY <1>1, <2>1
<1>4. ProgressInv(r)'
  <2>1. Running(x)
    BY <1>1, <1>2 DEF RecordInv, ProgressInv
  <2>. QED BY <1>2, <1>3, <2>1 DEF ProgressInv, Locations, Executing
<1>5. Performed(r)' = Performed(r)
  BY <1>1, <1>2, <1>3 DEF Performed, Executing
<1>. QED BY <1>1, <1>3, <1>4, <1>5, UnrecordedStepKeeps

LEMMA StepKeepsRecords ==
  ASSUME RecordInv, NEW r \in Rank, RankStep(r)
  PROVE  RecordInv'
<1>1. CASE Setup(r)
  BY <1>1, SetupRecordsNothing
<1>2. CASE StartTimer(r)
  <2>1. /\ pc[r] = "execute" /\ todo[r] # <<>> /\ input' = input /\ UNCHANGED records /\ todo' = todo
        /\ pc' = [pc EXCEPT ![r] = "started"] /\ Enter(r, <<"start", EntryOf(Head(todo[r]))>>)
    BY <1>2 DEF StartTimer, Goto
  <2>2. "started" \in Locations /\ pc[r] \in Executing /\ "started" \in Executing
    BY <2>1 DEF Locations, Executing
  <2>3. \E c : Enter(r, c)
    BY <2>1
  <2>. QED BY <2>1, <2>2, <2>3, MoveRecordsNothing
<1>3. CASE StopTimer(r)
  <2>1. /\ pc[r] = "started" /\ input' = input /\ UNCHANGED records /\ todo' = todo
        /\ pc' = [pc EXCEPT ![r] = "stopped"] /\ Enter(r, <<"stop", EntryOf(Head(todo[r]))>>)
    BY <1>3 DEF StopTimer, Goto
  <2>2. "stopped" \in Locations /\ pc[r] \in Executing /\ "stopped" \in Executing
    BY <2>1 DEF Locations, Executing
  <2>3. \E c : Enter(r, c)
    BY <2>1
  <2>4. todo[r] # <<>>
    BY <2>1 DEF RecordInv, ProgressInv
  <2>. QED BY <2>1, <2>2, <2>3, <2>4, MoveRecordsNothing
<1>4. CASE RecordExecution(r)
  BY <1>4, RecordExecutionCounts
<1>5. CASE MakeDirectory(r)
  <2>1. /\ pc[r] = "execute" /\ todo[r] = <<>> /\ input' = input /\ UNCHANGED records /\ todo' = todo
        /\ pc' = [pc EXCEPT ![r] = "report"]
    BY <1>5 DEF MakeDirectory, Goto
  <2>2. UNCHANGED collectives \/ \E c : Enter(r, c)
    BY <1>5 DEF MakeDirectory
  <2>3. "report" \in Locations
    BY DEF Locations
  <2>. QED BY <2>1, <2>2, <2>3, MoveRecordsNothing
<1>6. CASE WriteChecksumReport(r) \/ Reduce(r)
  BY <1>6, ListRecordsNothing
<1>7. CASE EndReport(r)
  <2>1. /\ pc[r] = "reduce" /\ input' = input /\ UNCHANGED records /\ todo' = todo
        /\ pc' = [pc EXCEPT ![r] = "finalize"] /\ UNCHANGED collectives
    BY <1>7 DEF EndReport, Goto
  <2>2. "finalize" \in Locations
    BY DEF Locations
  <2>. QED BY <2>1, <2>2, MoveRecordsNothing
<1>8. CASE Finalize(r)
  <2>1. /\ pc[r] = "finalize" /\ input' = input /\ UNCHANGED records /\ todo' = todo
        /\ pc' = [pc EXCEPT ![r] = "done"] /\ Enter(r, <<"finalize">>)
    BY <1>8 DEF Finalize, Goto
  <2>2. "done" \in Locations /\ \E c : Enter(r, c)
    BY <2>1 DEF Locations
  <2>. QED BY <2>1, <2>2, MoveRecordsNothing
<1>9. CASE ReturnFromCall(r)
  <2>1. /\ input' = input /\ UNCHANGED records /\ todo' = todo /\ pc' = pc /\ Return(r)
    BY <1>9 DEF ReturnFromCall, records
  <2>2. pc' = [pc EXCEPT ![r] = pc[r]] /\ pc[r] \in Locations
    <3>1. pc = [q \in Rank |-> pc[q]] /\ pc[r] \in Locations
      BY DEF RecordInv, ProgressInv
    <3>. QED BY <2>1, <3>1
  <2>. QED BY <2>1, <2>2, MoveRecordsNothing
<1>. QED BY <1>1, <1>2, <1>3, <1>4, <1>5, <1>6, <1>7, <1>8, <1>9 DEF RankStep

LEMMA RecordsAreCounts == Spec => []RecordInv
<1>1. ASSUME RecordInv, [Next]_vars PROVE RecordInv'
  <2>1. ASSUME NEW r \in Rank, RankStep(r) PROVE RecordInv'
    BY <1>1, <2>1, StepKeepsRecords
  <2>2. CASE UNCHANGED vars
    <3>1. /\ input' = input /\ pc' = pc /\ todo' = todo /\ entered' = entered /\ calls' = calls
          /\ num_exec' = num_exec /\ checksum' = checksum
      BY <2>2 DEF vars, records
    <3>2. PICK x : x = input /\ x = input'
      BY <3>1
    <3>3. CountInv'
      BY <1>1, <3>1, Zenon DEF RecordInv, CountInv
    <3>4. \A r \in Rank : Performed(r)' = Performed(r)
      BY <3>1, <3>2, Zenon DEF Performed, Executed
    <3>5. num_exec' = [r \in Rank |-> RecordOf(x, Performed(r)')]
      BY <1>1, <3>1, <3>2, <3>4 DEF RecordInv
    <3>6. \A r \in Rank : ProgressInv(r)'
      BY <1>1, <3>1, <3>2, Zenon DEF RecordInv, ProgressInv
    <3>. QED BY <1>1, <3>1, <3>2, <3>3, <3>5, <3>6, Zenon DEF RecordInv
  <2>. QED BY <1>1, <2>1, <2>2 DEF Next, Finished
<1>. QED BY InitRecords, <1>1, PTL DEF Spec

(* The number of executions a rank has recorded is one of its list's.        *)
LEMMA PerformedIsInRange ==
  ASSUME RecordInv, NEW r \in Rank
  PROVE  /\ Performed(r) \in 0 .. Len(Steps(input))
         /\ IsReporting(r) => Running(input) /\ Performed(r) = Len(Steps(input))
<1>1. PICK x \in Inputs : x = input
  BY DEF RecordInv
<1>2. Len(Steps(x)) \in Nat
  BY WorkTypes
<1>3. ProgressInv(r) /\ pc[r] \in Locations
  BY DEF RecordInv, ProgressInv
<1>4. CASE pc[r] = "setup"
  BY <1>1, <1>2, <1>4 DEF Performed, Executing, IsReporting
<1>5. CASE pc[r] \in Executing
  <2>1. Performed(r) = Len(Steps(x)) - Len(todo[r])
    <3>1. pc[r] # "setup"
      BY <1>5 DEF Executing
    <3>2. Performed(r) = Executed(r)
      BY <1>5, <3>1 DEF Performed
    <3>. QED BY <1>1, <3>2 DEF Executed
  <2>2. Len(todo[r]) \in Nat /\ Len(todo[r]) <= Len(Steps(x))
    <3>1. IsRest(todo[r], Steps(x), Counters)
      BY <1>1, <1>3, <1>5 DEF ProgressInv
    <3>. QED BY <3>1 DEF IsRest
  <2>3. ~IsReporting(r)
    BY <1>5 DEF IsReporting, Executing
  <2>. QED BY <1>1, <1>2, <2>1, <2>2, <2>3
<1>6. CASE pc[r] \notin Executing /\ pc[r] # "setup"
  <2>1. Performed(r) = Len(Steps(x))
    BY <1>1, <1>6 DEF Performed, Executing
  <2>2. IsReporting(r) => Running(x)
    BY <1>1 DEF IsReporting, WillRun, Running
  <2>. QED BY <1>1, <1>2, <2>1, <2>2
<1>. QED BY <1>4, <1>5, <1>6

(* Type correctness, with the bound that matters: no rank ever executes an   *)
(* entry more often than there are passes, however the ranks interleave and  *)
(* whether or not the checksum file opens (KernelBase.cpp:310-340).          *)
THEOREM SuiteTypeCorrect == Spec => []TypeOK
<1>1. RecordInv => TypeOK
  <2>. SUFFICES ASSUME RecordInv PROVE TypeOK
    OBVIOUS
  <2>1. PICK x \in Inputs : x = input
    BY DEF RecordInv
  <2>2. ASSUME NEW r \in Rank
        PROVE  RecordOf(x, Performed(r)) \in [Entry -> 0 .. NumPasses]
    <3>1. PICK n \in 0 .. Len(Steps(x)) : n = Performed(r)
      BY <2>1, PerformedIsInRange
    <3>2. NumPasses = PassesOf(x)
      BY <2>1 DEF NumPasses, PassesOf
    <3>3. ASSUME NEW e \in Entry
          PROVE  Cardinality(CountedAt(x, n, e)) \in 0 .. NumPasses
      <4>1. CASE Running(x)
        BY <3>2, <4>1, CountIsBounded
      <4>2. CASE ~Running(x)
        <5>1. Len(Steps(x)) = 0
          BY <4>2 DEF Steps
        <5>2. n = 0
          BY <5>1
        <5>3. CountedAt(x, n, e) = {}
          BY <5>2 DEF CountedAt
        <5>4. NumPasses \in Nat
          BY <2>1 DEF NumPasses
        <5>. QED BY <5>3, <5>4, FS_EmptySet
      <4>. QED BY <4>1, <4>2
    <3>. QED BY <3>1, <3>3 DEF RecordOf
  <2>3. num_exec = [r \in Rank |-> RecordOf(x, Performed(r))] /\ checksum = num_exec
    BY <2>1 DEF RecordInv
  <2>4. num_exec \in [Rank -> [Entry -> 0 .. NumPasses]]
    BY <2>2, <2>3
  <2>5. pc \in [Rank -> Locations]
    BY DEF RecordInv, ProgressInv
  <2>6. entered \in [Rank -> 0 .. Len(calls)]
    <3>1. Len(calls) \in Nat
      BY DEF RecordInv, CountInv
    <3>. QED BY <3>1 DEF RecordInv, CountInv
  <2>. QED BY <2>1, <2>3, <2>4, <2>5, <2>6 DEF TypeOK, Locations
<1>. QED BY <1>1, RecordsAreCounts, PTL

(* When a rank writes its reports, every entry of the timing table has been  *)
(* executed once per pass and no other entry at all, whatever features,      *)
(* kernels, variants and tunings were asked for and whatever the warmup      *)
(* kernels were (Executor.cpp:594-759, KernelBase.cpp:310-340).              *)
THEOREM RecordsAlwaysOfThePasses == Spec => []RecordsAreOfThePasses
<1>1. RecordInv => RecordsAreOfThePasses
  <2>. SUFFICES ASSUME RecordInv, NEW r \in Rank, IsReporting(r), NEW e \in Entry
                PROVE  /\ num_exec[r][e] = (IF TimingReported(e) THEN NumPasses ELSE 0)
                       /\ checksum[r][e] = num_exec[r][e]
    BY DEF RecordsAreOfThePasses
  <2>1. PICK x \in Inputs : x = input
    BY DEF RecordInv
  <2>2. Running(x) /\ Performed(r) = Len(Steps(x))
    BY <2>1, PerformedIsInRange
  <2>3. num_exec[r][e] = Cardinality(CountedAt(x, Len(Steps(x)), e)) /\ checksum = num_exec
    BY <2>1, <2>2 DEF RecordInv, RecordOf
  <2>4. TimingReported(e) <=> e \in ToRun(x, x.kernels)
    BY <2>1 DEF TimingReported, ToRun
  <2>5. NumPasses = PassesOf(x)
    BY <2>1 DEF NumPasses, PassesOf
  <2>. QED BY <2>2, <2>3, <2>4, <2>5, CountOfAll
<1>. QED BY <1>1, RecordsAreCounts, PTL

=============================================================================
