-------------------------- MODULE KernelRunProofs ---------------------------
(***************************************************************************)
(* The order in which the workers of a loop run does not matter.           *)
(*                                                                         *)
(* JobsCommute is what it rests on: two jobs that do not conflict leave the *)
(* same memory in either order.  A job that a worker runs now, while others *)
(* that come before it in the loop still have jobs to run, can therefore be *)
(* moved behind all of these (RunFromCommutes, RunLoopStep), so that what   *)
(* the unfinished workers will leave, Outcome, does not change when one of  *)
(* them runs a job.  RunFrom and RunLoop are recursive functions; what they *)
(* do is proved by induction over the jobs of a worker and the workers of a *)
(* loop, with SetInduction on the set of numbers for which it holds.        *)
(*                                                                         *)
(* The last part asks when the loops of a kernel have no race and stay in   *)
(* its memory: WellWritten is a condition on its text alone, which kernels  *)
(* of one loop over arrays meet (SequentialRunProofs).                      *)
(***************************************************************************)
EXTENDS KernelRun, WellFoundedInduction, TLAPS

-----------------------------------------------------------------------------
(* Jobs on a memory *)

Bags(m) == \A x \in DOMAIN m : \A i \in DOMAIN m[x] : IsABag(m[x][i].plus)
Inside(m, j) == \A c \in j.r \cup j.w \cup j.a : Holds(m, c)

LEMMA SumsSwap ==
  ASSUME NEW A, NEW B, NEW C, IsABag(A), IsABag(B), IsABag(C)
  PROVE  /\ (A (+) B) (+) C = (A (+) C) (+) B
         /\ IsABag(A (+) B)
<1>1. /\ A \in [DOMAIN A -> {n \in Nat : n > 0}]
      /\ B \in [DOMAIN B -> {n \in Nat : n > 0}]
      /\ C \in [DOMAIN C -> {n \in Nat : n > 0}]
  BY DEF IsABag
<1>2. IsABag(A (+) B)
  BY <1>1 DEF IsABag, (+)
<1>3. (A (+) B) (+) C = (A (+) C) (+) B
  BY <1>1 DEF (+)
<1>. QED BY <1>2, <1>3

LEMMA SetsAreBags == \A S : IsABag(SetToBag(S)) /\ IsABag(EmptyBag)
BY DEF IsABag, SetToBag, EmptyBag

(* What a job adds to a cell. *)
Sum(m, r, j, c) == IF c \in DOMAIN j.from THEN In(m, j.from[c]).plus ELSE SetToBag({<<r, j.id>>})

LEMMA ApplyIs ==
  ASSUME NEW m, NEW r, NEW j
  PROVE  /\ DOMAIN Apply(m, r, j) = DOMAIN m
         /\ \A x \in DOMAIN m : DOMAIN Apply(m, r, j)[x] = DOMAIN m[x]
         /\ \A c : Holds(Apply(m, r, j), c) <=> Holds(m, c)
         /\ \A c : Holds(m, c) =>
              /\ c \notin j.w /\ c \notin j.a => In(Apply(m, r, j), c) = In(m, c)
              /\ c \in j.w => In(Apply(m, r, j), c) =
                   [by |-> <<r, j.id>>,
                    plus |-> IF c \in DOMAIN j.from THEN In(m, j.from[c]).plus ELSE EmptyBag]
              /\ c \in j.a /\ c \notin j.w => In(Apply(m, r, j), c) =
                   [by |-> In(m, c).by, plus |-> In(m, c).plus (+) Sum(m, r, j, c)]
<1> DEFINE Cell(c) == IF c \in j.w THEN [by |-> <<r, j.id>>, plus |-> IF c \in DOMAIN j.from THEN In(m, j.from[c]).plus ELSE EmptyBag]
                   ELSE IF c \in j.a THEN [by |-> In(m, c).by, plus |-> In(m, c).plus (+) Sum(m, r, j, c)]
                   ELSE In(m, c)
<1>1. Apply(m, r, j) = [x \in DOMAIN m |-> [i \in DOMAIN m[x] |-> Cell(<<x, i>>)]]
  BY DEF Apply, Sum
<1>2. /\ DOMAIN Apply(m, r, j) = DOMAIN m
      /\ \A x \in DOMAIN m : DOMAIN Apply(m, r, j)[x] = DOMAIN m[x]
  <2>. HIDE DEF Cell
  <2>. QED BY <1>1
<1>3. \A c : Holds(Apply(m, r, j), c) <=> Holds(m, c)
  BY <1>2 DEF Holds
<1>4. \A c : Holds(m, c) => In(Apply(m, r, j), c) = Cell(c)
  <2>. HIDE DEF Cell
  <2>. TAKE c
  <2>. SUFFICES ASSUME Holds(m, c) PROVE In(Apply(m, r, j), c) = Cell(c)
    OBVIOUS
  <2>1. PICK x, i : c = <<x, i>> /\ x \in DOMAIN m /\ i \in DOMAIN m[x]
    BY DEF Holds
  <2>2. In(Apply(m, r, j), c) = Apply(m, r, j)[x][i]
    BY <2>1 DEF In
  <2>3. Apply(m, r, j)[x][i] = Cell(<<x, i>>)
    BY <1>1, <2>1
  <2>. QED BY <2>1, <2>2, <2>3
<1>. QED BY <1>2, <1>3, <1>4

LEMMA ApplyKeepsBags ==
  ASSUME NEW m, NEW r, NEW j, Bags(m), IsJob(j), Inside(m, j)
  PROVE  Bags(Apply(m, r, j))
<1>1. \A c : Holds(m, c) => IsABag(In(m, c).plus)
  BY DEF Bags, Holds, In
<1>2. \A c : Holds(m, c) => IsABag(In(Apply(m, r, j), c).plus)
  <2>. TAKE c
  <2>. SUFFICES ASSUME Holds(m, c) PROVE IsABag(In(Apply(m, r, j), c).plus)
    OBVIOUS
  <2>1. c \in DOMAIN j.from => IsABag(In(m, j.from[c]).plus)
    BY <1>1 DEF IsJob, Inside
  <2>2. CASE c \in j.w
    BY <2>1, <2>2, ApplyIs, SetsAreBags
  <2>3. CASE c \in j.a /\ c \notin j.w
    <3>1. IsABag(Sum(m, r, j, c))
      BY <2>1, SetsAreBags DEF Sum
    <3>2. IsABag(In(m, c).plus (+) Sum(m, r, j, c))
      BY <3>1, <1>1, SumsSwap
    <3>. QED BY <3>2, <2>3, ApplyIs
  <2>4. CASE c \notin j.w /\ c \notin j.a
    BY <2>4, <1>1, ApplyIs
  <2>. QED BY <2>2, <2>3, <2>4
<1>3. \A x \in DOMAIN m : \A i \in DOMAIN m[x] : Holds(m, <<x, i>>) /\ In(Apply(m, r, j), <<x, i>>) = Apply(m, r, j)[x][i]
  BY DEF Holds, In
<1>4. \A x \in DOMAIN m : \A i \in DOMAIN m[x] : IsABag(Apply(m, r, j)[x][i].plus)
  BY <1>2, <1>3, Zenon
<1>5. DOMAIN Apply(m, r, j) = DOMAIN m /\ \A x \in DOMAIN m : DOMAIN Apply(m, r, j)[x] = DOMAIN m[x]
  BY ApplyIs
<1>. QED BY <1>4, <1>5, Zenon DEF Bags

(***************************************************************************)
(* Two jobs that do not conflict leave the same memory in either order.     *)
(***************************************************************************)
LEMMA JobsCommute ==
  ASSUME NEW m, NEW r, NEW j, NEW k, Bags(m),
         IsJob(j), Inside(m, j), IsJob(k), Inside(m, k), ~ Conflict(j, k)
  PROVE  Apply(Apply(m, r, j), r, k) = Apply(Apply(m, r, k), r, j)
<1> DEFINE mj == Apply(m, r, j)
           mk == Apply(m, r, k)
           L == Apply(mj, r, k)
           R == Apply(mk, r, j)
<1>1. \A c \in DOMAIN j.from : In(mk, j.from[c]) = In(m, j.from[c])
  <2>. TAKE c \in DOMAIN j.from
  <2>1. j.from[c] \in j.r /\ Holds(m, j.from[c])
    BY DEF IsJob, Inside
  <2>2. j.from[c] \notin k.w /\ j.from[c] \notin k.a
    BY <2>1 DEF Conflict
  <2>. QED BY <2>1, <2>2, ApplyIs
<1>2. \A c \in DOMAIN k.from : In(mj, k.from[c]) = In(m, k.from[c])
  <2>. TAKE c \in DOMAIN k.from
  <2>1. k.from[c] \in k.r /\ Holds(m, k.from[c])
    BY DEF IsJob, Inside
  <2>2. k.from[c] \notin j.w /\ k.from[c] \notin j.a
    BY <2>1 DEF Conflict
  <2>. QED BY <2>1, <2>2, ApplyIs
<1>3. \A c : Sum(mk, r, j, c) = Sum(m, r, j, c) /\ Sum(mj, r, k, c) = Sum(m, r, k, c)
  BY <1>1, <1>2 DEF Sum
<1>4. ASSUME NEW c, Holds(m, c) PROVE In(L, c) = In(R, c)
  <2>0. Holds(mj, c) /\ Holds(mk, c)
    BY <1>4, ApplyIs
  <2>1. CASE c \in j.w
    <3>1. c \notin k.w /\ c \notin k.a
      BY <2>1 DEF Conflict
    <3>2. In(L, c) = In(mj, c)
      BY <2>0, <3>1, ApplyIs
    <3>3. In(R, c) = [by |-> <<r, j.id>>,
             plus |-> IF c \in DOMAIN j.from THEN In(mk, j.from[c]).plus ELSE EmptyBag]
      BY <2>0, <2>1, ApplyIs
    <3>4. In(mj, c) = [by |-> <<r, j.id>>,
             plus |-> IF c \in DOMAIN j.from THEN In(m, j.from[c]).plus ELSE EmptyBag]
      BY <1>4, <2>1, ApplyIs
    <3>. QED BY <3>2, <3>3, <3>4, <1>1
  <2>2. CASE c \in k.w
    <3>1. c \notin j.w /\ c \notin j.a
      BY <2>2 DEF Conflict
    <3>2. In(R, c) = In(mk, c)
      BY <2>0, <3>1, ApplyIs
    <3>3. In(L, c) = [by |-> <<r, k.id>>,
             plus |-> IF c \in DOMAIN k.from THEN In(mj, k.from[c]).plus ELSE EmptyBag]
      BY <2>0, <2>2, ApplyIs
    <3>4. In(mk, c) = [by |-> <<r, k.id>>,
             plus |-> IF c \in DOMAIN k.from THEN In(m, k.from[c]).plus ELSE EmptyBag]
      BY <1>4, <2>2, ApplyIs
    <3>. QED BY <3>2, <3>3, <3>4, <1>2
  <2>3. CASE c \notin j.w /\ c \notin k.w /\ c \in j.a /\ c \in k.a
    <3>. DEFINE v == In(m, c)
                A == v.plus
                B == Sum(m, r, j, c)
                C == Sum(m, r, k, c)
    <3>1. In(mj, c) = [by |-> v.by, plus |-> A (+) B] /\ In(mk, c) = [by |-> v.by, plus |-> A (+) C]
      BY <1>4, <2>3, ApplyIs
    <3>2. In(L, c) = [by |-> In(mj, c).by, plus |-> In(mj, c).plus (+) Sum(mj, r, k, c)]
      BY <2>0, <2>3, ApplyIs
    <3>3. In(R, c) = [by |-> In(mk, c).by, plus |-> In(mk, c).plus (+) Sum(mk, r, j, c)]
      BY <2>0, <2>3, ApplyIs
    <3>4. IsABag(A) /\ IsABag(B) /\ IsABag(C)
      <4>1. \A d : Holds(m, d) => IsABag(In(m, d).plus)
        BY DEF Bags, Holds, In
      <4>2. c \in DOMAIN j.from => Holds(m, j.from[c])
        BY DEF IsJob, Inside
      <4>3. c \in DOMAIN k.from => Holds(m, k.from[c])
        BY DEF IsJob, Inside
      <4>. QED BY <1>4, <4>1, <4>2, <4>3, SetsAreBags DEF Sum
    <3>5. (A (+) B) (+) C = (A (+) C) (+) B
      <4>. HIDE DEF A, B, C
      <4>. QED BY <3>4, SumsSwap
    <3>6. In(L, c) = [by |-> v.by, plus |-> (A (+) B) (+) C]
      <4>. HIDE DEF A, B, v, L
      <4>. QED BY <3>1, <3>2, <1>3 DEF C
    <3>7. In(R, c) = [by |-> v.by, plus |-> (A (+) C) (+) B]
      <4>. HIDE DEF A, C, v, R
      <4>. QED BY <3>1, <3>3, <1>3 DEF B
    <3>. QED BY <3>5, <3>6, <3>7
  <2>4. CASE c \notin j.w /\ c \notin k.w /\ c \in j.a /\ c \notin k.a
    <3>1. In(mj, c) = [by |-> In(m, c).by, plus |-> In(m, c).plus (+) Sum(m, r, j, c)]
      BY <1>4, <2>4, ApplyIs
    <3>2. In(mk, c) = In(m, c) /\ In(L, c) = In(mj, c)
      BY <1>4, <2>0, <2>4, ApplyIs
    <3>3. In(R, c) = [by |-> In(mk, c).by, plus |-> In(mk, c).plus (+) Sum(mk, r, j, c)]
      BY <2>0, <2>4, ApplyIs
    <3>. QED BY <3>1, <3>2, <3>3, <1>3
  <2>5. CASE c \notin j.w /\ c \notin k.w /\ c \notin j.a /\ c \in k.a
    <3>1. In(mk, c) = [by |-> In(m, c).by, plus |-> In(m, c).plus (+) Sum(m, r, k, c)]
      BY <1>4, <2>5, ApplyIs
    <3>2. In(mj, c) = In(m, c) /\ In(R, c) = In(mk, c)
      BY <1>4, <2>0, <2>5, ApplyIs
    <3>3. In(L, c) = [by |-> In(mj, c).by, plus |-> In(mj, c).plus (+) Sum(mj, r, k, c)]
      BY <2>0, <2>5, ApplyIs
    <3>. QED BY <3>1, <3>2, <3>3, <1>3
  <2>6. CASE c \notin j.w /\ c \notin k.w /\ c \notin j.a /\ c \notin k.a
    BY <1>4, <2>0, <2>6, ApplyIs
  <2>. QED BY <2>1, <2>2, <2>3, <2>4, <2>5, <2>6
<1>5. DOMAIN L = DOMAIN m /\ DOMAIN R = DOMAIN m
  BY ApplyIs
<1>6. \A x \in DOMAIN m : DOMAIN L[x] = DOMAIN m[x] /\ DOMAIN R[x] = DOMAIN m[x]
  BY ApplyIs
<1>7. \A x \in DOMAIN m : \A i \in DOMAIN m[x] : L[x][i] = R[x][i]
  <2>. TAKE x \in DOMAIN m
  <2>. TAKE i \in DOMAIN m[x]
  <2>1. Holds(m, <<x, i>>)
    BY DEF Holds
  <2>2. In(L, <<x, i>>) = In(R, <<x, i>>)
    BY <1>4, <2>1
  <2>. QED BY <2>2 DEF In
<1>8. \A n, q, p : Apply(n, q, p) = [x \in DOMAIN Apply(n, q, p) |-> Apply(n, q, p)[x]]
                  /\ \A x \in DOMAIN Apply(n, q, p) : Apply(n, q, p)[x] = [i \in DOMAIN Apply(n, q, p)[x] |-> Apply(n, q, p)[x][i]]
  BY DEF Apply
<1>9. \A x \in DOMAIN m : L[x] = R[x]
  <2>. TAKE x \in DOMAIN m
  <2>1. L[x] = [i \in DOMAIN L[x] |-> L[x][i]] /\ R[x] = [i \in DOMAIN R[x] |-> R[x][i]]
    BY <1>8, <1>5
  <2>. HIDE DEF L, R
  <2>. QED BY <2>1, <1>6, <1>7
<1>10. L = [x \in DOMAIN L |-> L[x]] /\ R = [x \in DOMAIN R |-> R[x]]
  BY <1>8
<1>11. L = R
  <2>. HIDE DEF L, R
  <2>. QED BY <1>10, <1>9, <1>5
<1>. QED BY <1>11

-----------------------------------------------------------------------------
(* The rest of a worker *)

(***************************************************************************)
(* Induction over the natural numbers, for a set.                            *)
(***************************************************************************)
LEMMA SetInduction ==
  ASSUME NEW S, 0 \in S, \A k \in Nat : k \in S => k + 1 \in S
  PROVE  \A k \in Nat : k \in S
<1> DEFINE T == Nat \ S
           R == {ss \in Nat \X Nat : ss[1] < ss[2]}
<1>1. IsWellFoundedOn(R, Nat)
  <2>1. OpToRel(<, Nat) = R
    BY DEF OpToRel
  <2>. QED BY <2>1, NatLessThanWellFounded
<1>. SUFFICES ASSUME T # {} PROVE FALSE
  OBVIOUS
<1>2. PICK n \in T : \A y \in T : ~ (<<y, n>> \in R)
  <2>1. T \subseteq Nat /\ T # {}
    OBVIOUS
  <2>. HIDE DEF T, R
  <2>. QED BY <1>1, <2>1, WFMin
<1>3. n \in Nat /\ n # 0
  OBVIOUS
<1>4. n - 1 \in Nat /\ n - 1 + 1 = n
  BY <1>3
<1>5. n - 1 \notin S
  BY <1>4
<1>6. <<n - 1, n>> \in R /\ n - 1 \in T
  BY <1>3, <1>4, <1>5
<1>. QED BY <1>2, <1>6

IsRest(f, m, r, w, n) ==
  f = [k \in Nat |-> IF k = 0 THEN m ELSE Apply(f[k - 1], r, w[n + k - 1])]

LEMMA RestExists == \A m, r, w, n : \E f : IsRest(f, m, r, w, n)
<1>. TAKE m, r, w, n
<1> DEFINE Goes(s, K) == s[0] = m /\ \A k \in 1 .. K : s[k] = Apply(s[k - 1], r, w[n + k - 1])
           S == {K \in Nat : \E s : Goes(s, K)}
           T == {K \in Nat : \A s, t : Goes(s, K) /\ Goes(t, K) => s[K] = t[K]}
<1>1. \A K \in Nat : K \in S
  <2>1. 0 \in S
    <3>1. Goes([k \in Nat |-> m], 0)
      OBVIOUS
    <3>. QED BY <3>1
  <2>2. ASSUME NEW K \in Nat, K \in S PROVE K + 1 \in S
    <3>1. PICK s : Goes(s, K)
      BY <2>2
    <3> DEFINE t == [k \in Nat |-> IF k = K + 1 THEN Apply(s[K], r, w[n + (K + 1) - 1]) ELSE s[k]]
    <3>2. t[0] = m
      BY <3>1
    <3>3. ASSUME NEW k \in 1 .. K + 1 PROVE t[k] = Apply(t[k - 1], r, w[n + k - 1])
      <4>1. CASE k = K + 1
        <5>1. t[k] = Apply(s[K], r, w[n + k - 1]) /\ t[k - 1] = s[K]
          BY <4>1
        <5>. QED BY <5>1
      <4>2. CASE k # K + 1
        <5>1. k \in 1 .. K /\ t[k] = s[k] /\ t[k - 1] = s[k - 1]
          BY <4>2
        <5>. HIDE DEF t
        <5>. QED BY <5>1, <3>1
      <4>. QED BY <4>1, <4>2
    <3>4. Goes(t, K + 1)
      <4>. HIDE DEF t
      <4>. QED BY <3>2, <3>3
    <3>. HIDE DEF Goes
    <3>. QED BY <3>4
  <2>. HIDE DEF S
  <2>. QED BY <2>1, <2>2, SetInduction
<1>2. \A K \in Nat : K \in T
  <2>1. 0 \in T
    OBVIOUS
  <2>2. ASSUME NEW K \in Nat, K \in T PROVE K + 1 \in T
    <3>. SUFFICES ASSUME NEW s, NEW t, Goes(s, K + 1), Goes(t, K + 1) PROVE s[K + 1] = t[K + 1]
      OBVIOUS
    <3>1. Goes(s, K) /\ Goes(t, K)
      OBVIOUS
    <3>2. s[K] = t[K]
      <4>. HIDE DEF Goes
      <4>. QED BY <2>2, <3>1
    <3>3. s[K + 1] = Apply(s[K], r, w[n + (K + 1) - 1]) /\ t[K + 1] = Apply(t[K], r, w[n + (K + 1) - 1])
      <4>1. K + 1 \in 1 .. K + 1 /\ K + 1 - 1 = K
        OBVIOUS
      <4>. QED BY <4>1
    <3>. QED BY <3>2, <3>3
  <2>. HIDE DEF T
  <2>. QED BY <2>1, <2>2, SetInduction
<1> DEFINE chain == [K \in Nat |-> CHOOSE s : Goes(s, K)]
           f == [K \in Nat |-> chain[K][K]]
<1>3. \A K \in Nat : Goes(chain[K], K)
  <2>1. \A K \in Nat : \E s : Goes(s, K)
    BY <1>1
  <2>. HIDE DEF Goes
  <2>. QED BY <2>1
<1>4. f[0] = m
  <2>1. Goes(chain[0], 0)
    BY <1>3
  <2>. QED BY <2>1
<1>5. ASSUME NEW K \in Nat PROVE f[K + 1] = Apply(f[K], r, w[n + (K + 1) - 1])
  <2>1. Goes(chain[K + 1], K + 1) /\ Goes(chain[K], K)
    <3>1. K + 1 \in Nat
      OBVIOUS
    <3>. HIDE DEF Goes, chain
    <3>. QED BY <1>3, <3>1
  <2>2. Goes(chain[K + 1], K)
    <3>. HIDE DEF chain
    <3>. QED BY <2>1
  <2>3. chain[K + 1][K] = chain[K][K]
    <3>. HIDE DEF Goes, chain
    <3>. QED BY <1>2, <2>1, <2>2
  <2>4. chain[K + 1][K + 1] = Apply(chain[K + 1][K], r, w[n + (K + 1) - 1])
    <3>1. K + 1 \in 1 .. K + 1 /\ K + 1 - 1 = K
      OBVIOUS
    <3>. HIDE DEF chain
    <3>. QED BY <2>1, <3>1
  <2>. HIDE DEF chain
  <2>. QED BY <2>3, <2>4
<1>6. \A K \in Nat : f[K] = IF K = 0 THEN m ELSE Apply(f[K - 1], r, w[n + K - 1])
  <2>. TAKE K \in Nat
  <2>. HIDE DEF f
  <2>1. CASE K = 0
    BY <2>1, <1>4
  <2>2. CASE K # 0
    <3>1. K - 1 \in Nat /\ (K - 1) + 1 = K
      BY <2>2
    <3>2. f[(K - 1) + 1] = Apply(f[K - 1], r, w[n + ((K - 1) + 1) - 1])
      BY <3>1, <1>5
    <3>. QED BY <3>1, <3>2, <2>2
  <2>. QED BY <2>1, <2>2
<1>7. f = [K \in Nat |-> f[K]]
  <2>. HIDE DEF chain
  <2>. QED OBVIOUS
<1>8. IsRest(f, m, r, w, n)
  <2>. HIDE DEF f
  <2>. QED BY <1>6, <1>7 DEF IsRest
<1>. QED BY <1>8

Rest(f, m, r, w, n) ==
  /\ f[0] = m
  /\ \A k \in Nat : f[k + 1] = Apply(f[k], r, w[n + k])
  /\ RunFrom(m, r, w, n) = f[Len(w) + 1 - n]

LEMMA RunFromIs ==
  \A m, r, w : \A n \in Nat :
     \E f : Rest(f, m, r, w, n)
<1>. TAKE m, r, w
<1>. TAKE n \in Nat
<1> DEFINE f == CHOOSE f : f = [k \in Nat |-> IF k = 0 THEN m ELSE Apply(f[k - 1], r, w[n + k - 1])]
<1>1. \E g : g = [k \in Nat |-> IF k = 0 THEN m ELSE Apply(g[k - 1], r, w[n + k - 1])]
  <2>1. \E g : IsRest(g, m, r, w, n)
    BY RestExists, Zenon
  <2>. HIDE DEF f
  <2>. QED BY <2>1, Zenon DEF IsRest
<1>2. f = [k \in Nat |-> IF k = 0 THEN m ELSE Apply(f[k - 1], r, w[n + k - 1])]
  BY <1>1, Zenon
<1>3. RunFrom(m, r, w, n) = f[Len(w) + 1 - n]
  BY Zenon DEF RunFrom
<1>4. IsRest(f, m, r, w, n)
  <2>. HIDE DEF f
  <2>. QED BY <1>2 DEF IsRest
<1>. HIDE DEF f
<1>5. f[0] = m
  BY <1>4 DEF IsRest
<1>6. ASSUME NEW k \in Nat PROVE f[k + 1] = Apply(f[k], r, w[n + k])
  <2>1. k + 1 \in Nat /\ k + 1 # 0 /\ k + 1 - 1 = k /\ n + (k + 1) - 1 = n + k
    OBVIOUS
  <2>2. f[k + 1] = Apply(f[k + 1 - 1], r, w[n + (k + 1) - 1])
    BY <2>1, <1>4 DEF IsRest
  <2>. QED BY <2>1, <2>2
<1>7. Rest(f, m, r, w, n)
  BY <1>3, <1>5, <1>6, Zenon DEF Rest
<1>. QED BY <1>7, Zenon

-----------------------------------------------------------------------------
(* The rest of a loop *)

IsRound(f, m, r, ws, at) ==
  f = [k \in Nat |-> IF k = 0 THEN m ELSE RunFrom(f[k - 1], r, ws[k], at[k])]

LEMMA RoundExists == \A m, r, ws, at : \E f : IsRound(f, m, r, ws, at)
<1>. TAKE m, r, ws, at
<1> DEFINE Goes(s, K) == s[0] = m /\ \A k \in 1 .. K : s[k] = RunFrom(s[k - 1], r, ws[k], at[k])
           S == {K \in Nat : \E s : Goes(s, K)}
           T == {K \in Nat : \A s, t : Goes(s, K) /\ Goes(t, K) => s[K] = t[K]}
<1>1. \A K \in Nat : K \in S
  <2>1. 0 \in S
    <3>1. Goes([k \in Nat |-> m], 0)
      OBVIOUS
    <3>. QED BY <3>1
  <2>2. ASSUME NEW K \in Nat, K \in S PROVE K + 1 \in S
    <3>1. PICK s : Goes(s, K)
      BY <2>2
    <3> DEFINE t == [k \in Nat |-> IF k = K + 1 THEN RunFrom(s[K], r, ws[K + 1], at[K + 1]) ELSE s[k]]
    <3>2. t[0] = m
      BY <3>1
    <3>3. ASSUME NEW k \in 1 .. K + 1 PROVE t[k] = RunFrom(t[k - 1], r, ws[k], at[k])
      <4>1. CASE k = K + 1
        <5>1. t[k] = RunFrom(s[K], r, ws[k], at[k]) /\ t[k - 1] = s[K]
          BY <4>1
        <5>. QED BY <5>1
      <4>2. CASE k # K + 1
        <5>1. k \in 1 .. K /\ t[k] = s[k] /\ t[k - 1] = s[k - 1]
          BY <4>2
        <5>. HIDE DEF t
        <5>. QED BY <5>1, <3>1
      <4>. QED BY <4>1, <4>2
    <3>4. Goes(t, K + 1)
      <4>. HIDE DEF t
      <4>. QED BY <3>2, <3>3
    <3>. HIDE DEF Goes
    <3>. QED BY <3>4
  <2>. HIDE DEF S
  <2>. QED BY <2>1, <2>2, SetInduction
<1>2. \A K \in Nat : K \in T
  <2>1. 0 \in T
    OBVIOUS
  <2>2. ASSUME NEW K \in Nat, K \in T PROVE K + 1 \in T
    <3>. SUFFICES ASSUME NEW s, NEW t, Goes(s, K + 1), Goes(t, K + 1) PROVE s[K + 1] = t[K + 1]
      OBVIOUS
    <3>1. Goes(s, K) /\ Goes(t, K)
      OBVIOUS
    <3>2. s[K] = t[K]
      <4>. HIDE DEF Goes
      <4>. QED BY <2>2, <3>1
    <3>3. s[K + 1] = RunFrom(s[K], r, ws[K + 1], at[K + 1]) /\ t[K + 1] = RunFrom(t[K], r, ws[K + 1], at[K + 1])
      <4>1. K + 1 \in 1 .. K + 1 /\ K + 1 - 1 = K
        OBVIOUS
      <4>. QED BY <4>1
    <3>. QED BY <3>2, <3>3
  <2>. HIDE DEF T
  <2>. QED BY <2>1, <2>2, SetInduction
<1> DEFINE chain == [K \in Nat |-> CHOOSE s : Goes(s, K)]
           f == [K \in Nat |-> chain[K][K]]
<1>3. \A K \in Nat : Goes(chain[K], K)
  <2>1. \A K \in Nat : \E s : Goes(s, K)
    BY <1>1
  <2>. HIDE DEF Goes
  <2>. QED BY <2>1
<1>4. f[0] = m
  <2>1. Goes(chain[0], 0)
    BY <1>3
  <2>. QED BY <2>1
<1>5. ASSUME NEW K \in Nat PROVE f[K + 1] = RunFrom(f[K], r, ws[K + 1], at[K + 1])
  <2>1. Goes(chain[K + 1], K + 1) /\ Goes(chain[K], K)
    <3>1. K + 1 \in Nat
      OBVIOUS
    <3>. HIDE DEF Goes, chain
    <3>. QED BY <1>3, <3>1
  <2>2. Goes(chain[K + 1], K)
    <3>. HIDE DEF chain
    <3>. QED BY <2>1
  <2>3. chain[K + 1][K] = chain[K][K]
    <3>. HIDE DEF Goes, chain
    <3>. QED BY <1>2, <2>1, <2>2
  <2>4. chain[K + 1][K + 1] = RunFrom(chain[K + 1][K], r, ws[K + 1], at[K + 1])
    <3>1. K + 1 \in 1 .. K + 1 /\ K + 1 - 1 = K
      OBVIOUS
    <3>. HIDE DEF chain
    <3>. QED BY <2>1, <3>1
  <2>. HIDE DEF chain
  <2>. QED BY <2>3, <2>4
<1>6. \A K \in Nat : f[K] = IF K = 0 THEN m ELSE RunFrom(f[K - 1], r, ws[K], at[K])
  <2>. TAKE K \in Nat
  <2>. HIDE DEF f
  <2>1. CASE K = 0
    BY <2>1, <1>4
  <2>2. CASE K # 0
    <3>1. K - 1 \in Nat /\ (K - 1) + 1 = K
      BY <2>2
    <3>2. f[(K - 1) + 1] = RunFrom(f[K - 1], r, ws[(K - 1) + 1], at[(K - 1) + 1])
      BY <3>1, <1>5
    <3>. QED BY <3>1, <3>2, <2>2
  <2>. QED BY <2>1, <2>2
<1>7. f = [K \in Nat |-> f[K]]
  <2>. HIDE DEF chain
  <2>. QED OBVIOUS
<1>8. IsRound(f, m, r, ws, at)
  <2>. HIDE DEF f
  <2>. QED BY <1>6, <1>7 DEF IsRound
<1>. QED BY <1>8

Round(f, m, r, ws, at) ==
  /\ f[0] = m
  /\ \A k \in Nat : f[k + 1] = RunFrom(f[k], r, ws[k + 1], at[k + 1])
  /\ RunLoop(m, r, ws, at) = f[Len(ws)]

LEMMA RunLoopIs ==
  \A m, r, ws, at :
     \E f : Round(f, m, r, ws, at)
<1>. TAKE m, r, ws, at
<1> DEFINE f == CHOOSE f : f = [k \in Nat |-> IF k = 0 THEN m ELSE RunFrom(f[k - 1], r, ws[k], at[k])]
<1>1. \E g : g = [k \in Nat |-> IF k = 0 THEN m ELSE RunFrom(g[k - 1], r, ws[k], at[k])]
  <2>1. \E g : IsRound(g, m, r, ws, at)
    BY RoundExists, Zenon
  <2>. HIDE DEF f
  <2>. QED BY <2>1, Zenon DEF IsRound
<1>2. f = [k \in Nat |-> IF k = 0 THEN m ELSE RunFrom(f[k - 1], r, ws[k], at[k])]
  BY <1>1, Zenon
<1>3. RunLoop(m, r, ws, at) = f[Len(ws)]
  BY Zenon DEF RunLoop
<1>4. IsRound(f, m, r, ws, at)
  <2>. HIDE DEF f
  <2>. QED BY <1>2 DEF IsRound
<1>. HIDE DEF f
<1>5. f[0] = m
  BY <1>4 DEF IsRound
<1>6. ASSUME NEW k \in Nat PROVE f[k + 1] = RunFrom(f[k], r, ws[k + 1], at[k + 1])
  <2>1. k + 1 \in Nat /\ k + 1 # 0 /\ k + 1 - 1 = k
    OBVIOUS
  <2>2. f[k + 1] = RunFrom(f[k + 1 - 1], r, ws[k + 1], at[k + 1])
    BY <2>1, <1>4 DEF IsRound
  <2>. QED BY <2>1, <2>2
<1>7. Round(f, m, r, ws, at)
  BY <1>3, <1>5, <1>6, Zenon DEF Round
<1>. QED BY <1>7, Zenon

-----------------------------------------------------------------------------
(* What the rest of a worker does to a memory *)

Same(m, n) == \A c : Holds(m, c) <=> Holds(n, c)
Fits(m, w) == IsList(w) /\ \A n \in DOMAIN w : IsJob(w[n]) /\ Inside(m, w[n])

LEMMA RestKeeps ==
  ASSUME NEW m, NEW r, NEW w, NEW n \in Nat \ {0}, NEW f, Rest(f, m, r, w, n),
         Bags(m), Fits(m, w)
  PROVE  \A k \in Nat : k <= Len(w) + 1 - n => Bags(f[k]) /\ Same(m, f[k])
<1> DEFINE S == {k \in Nat : k <= Len(w) + 1 - n => Bags(f[k]) /\ Same(m, f[k])}
<1>0. Len(w) \in Nat /\ DOMAIN w = 1 .. Len(w)
  BY DEF Fits, IsList
<1>00. f[0] = m /\ \A k \in Nat : f[k + 1] = Apply(f[k], r, w[n + k])
  BY Zenon DEF Rest
<1>1. 0 \in S
  BY <1>00 DEF Same
<1>2. ASSUME NEW k \in Nat, k \in S PROVE k + 1 \in S
  <2>. SUFFICES ASSUME k + 1 <= Len(w) + 1 - n PROVE Bags(f[k + 1]) /\ Same(m, f[k + 1])
    OBVIOUS
  <2>1. Bags(f[k]) /\ Same(m, f[k])
    <3>1. k <= Len(w) + 1 - n
      BY <1>0
    <3>. QED BY <3>1, <1>2
  <2>2. n + k \in DOMAIN w
    BY <1>0
  <2>3. IsJob(w[n + k]) /\ Inside(f[k], w[n + k])
    BY <2>1, <2>2, Zenon DEF Fits, Inside, Same
  <2>4. f[k + 1] = Apply(f[k], r, w[n + k])
    BY <1>00
  <2>5. Bags(f[k + 1])
    BY <2>1, <2>3, <2>4, ApplyKeepsBags
  <2>6. Same(m, f[k + 1])
    BY <2>1, <2>4, ApplyIs, Zenon DEF Same
  <2>. QED BY <2>5, <2>6
<1>3. \A k \in Nat : k \in S
  <2>. HIDE DEF S
  <2>. QED BY <1>1, <1>2, SetInduction
<1>. QED BY <1>3

LEMMA RunFromKeeps ==
  ASSUME NEW m, NEW r, NEW w, NEW n \in Nat \ {0}, n <= Len(w) + 1, Bags(m), Fits(m, w)
  PROVE  Bags(RunFrom(m, r, w, n)) /\ Same(m, RunFrom(m, r, w, n))
<1>1. PICK f : Rest(f, m, r, w, n)
  BY RunFromIs
<1>2. Len(w) + 1 - n \in Nat /\ Len(w) + 1 - n <= Len(w) + 1 - n
  BY DEF Fits, IsList
<1>3. Bags(f[Len(w) + 1 - n]) /\ Same(m, f[Len(w) + 1 - n])
  BY <1>1, <1>2, RestKeeps
<1>4. RunFrom(m, r, w, n) = f[Len(w) + 1 - n]
  BY <1>1 DEF Rest
<1>. QED BY <1>3, <1>4

(* A worker at its end leaves the memory alone. *)
LEMMA RunFromOver ==
  ASSUME NEW m, NEW r, NEW w, IsList(w)
  PROVE  RunFrom(m, r, w, Len(w) + 1) = m
<1>1. PICK f : Rest(f, m, r, w, Len(w) + 1)
  BY RunFromIs
<1>2. Len(w) + 1 - (Len(w) + 1) = 0 /\ Len(w) + 1 \in Nat
  BY DEF IsList
<1>3. f[0] = m /\ RunFrom(m, r, w, Len(w) + 1) = f[Len(w) + 1 - (Len(w) + 1)]
  BY <1>1 DEF Rest
<1>. QED BY <1>2, <1>3

LEMMA RunFromStep ==
  ASSUME NEW m, NEW r, NEW w, IsList(w), NEW n \in DOMAIN w
  PROVE  RunFrom(m, r, w, n) = RunFrom(Apply(m, r, w[n]), r, w, n + 1)
<1> DEFINE m1 == Apply(m, r, w[n])
<1>0. n \in Nat /\ n + 1 \in Nat /\ n >= 1 /\ n <= Len(w) /\ Len(w) \in Nat
  BY DEF IsList
<1>1. PICK f : Rest(f, m, r, w, n)
  BY <1>0, RunFromIs
<1>2. PICK g : Rest(g, m1, r, w, n + 1)
  BY <1>0, RunFromIs
<1> DEFINE S == {k \in Nat : g[k] = f[k + 1]}
<1>. HIDE DEF m1
<1>3. f[0] = m /\ \A k \in Nat : f[k + 1] = Apply(f[k], r, w[n + k])
  BY <1>1, Zenon DEF Rest
<1>4. g[0] = m1 /\ \A k \in Nat : g[k + 1] = Apply(g[k], r, w[n + 1 + k])
  BY <1>2, Zenon DEF Rest
<1>5. 0 \in S
  <2>1. f[0 + 1] = Apply(f[0], r, w[n + 0])
    <3>1. 0 \in Nat
      OBVIOUS
    <3>. QED BY <1>3, <3>1, Zenon
  <2>2. n + 0 = n
    BY <1>0
  <2>. QED BY <2>1, <2>2, <1>3, <1>4 DEF m1
<1>6. ASSUME NEW k \in Nat, k \in S PROVE k + 1 \in S
  <2>1. k + 1 \in Nat /\ n + (k + 1) = n + 1 + k
    BY <1>0
  <2>2. g[k + 1] = Apply(g[k], r, w[n + 1 + k]) /\ f[k + 1 + 1] = Apply(f[k + 1], r, w[n + (k + 1)])
    BY <2>1, <1>3, <1>4
  <2>3. g[k] = f[k + 1]
    BY <1>6
  <2>. QED BY <2>1, <2>2, <2>3
<1>7. \A k \in Nat : k \in S
  <2>. HIDE DEF S
  <2>. QED BY <1>5, <1>6, SetInduction
<1>8. Len(w) - n \in Nat /\ Len(w) + 1 - (n + 1) = Len(w) - n /\ (Len(w) - n) + 1 = Len(w) + 1 - n
  BY <1>0
<1>9. g[Len(w) - n] = f[(Len(w) - n) + 1]
  BY <1>7, <1>8
<1>10. RunFrom(m, r, w, n) = f[Len(w) + 1 - n] /\ RunFrom(m1, r, w, n + 1) = g[Len(w) + 1 - (n + 1)]
  BY <1>1, <1>2 DEF Rest
<1>. QED BY <1>8, <1>9, <1>10 DEF m1

(* A job that conflicts with none of the worker may run before or after it. *)
LEMMA RunFromCommutes ==
  ASSUME NEW m, NEW r, NEW w, NEW n \in Nat \ {0}, n <= Len(w) + 1, Bags(m), Fits(m, w),
         NEW j, IsJob(j), Inside(m, j), \A i \in DOMAIN w : ~ Conflict(j, w[i])
  PROVE  RunFrom(Apply(m, r, j), r, w, n) = Apply(RunFrom(m, r, w, n), r, j)
<1> DEFINE m1 == Apply(m, r, j)
<1>. HIDE DEF m1
<1>0. Len(w) \in Nat /\ DOMAIN w = 1 .. Len(w)
  BY DEF Fits, IsList
<1>1. PICK f : Rest(f, m, r, w, n)
  BY <1>0, RunFromIs
<1>2. PICK g : Rest(g, m1, r, w, n)
  BY <1>0, RunFromIs
<1> DEFINE S == {k \in Nat : k <= Len(w) + 1 - n => g[k] = Apply(f[k], r, j)}
<1>3. f[0] = m /\ \A k \in Nat : f[k + 1] = Apply(f[k], r, w[n + k])
  BY <1>1, Zenon DEF Rest
<1>4. g[0] = m1 /\ \A k \in Nat : g[k + 1] = Apply(g[k], r, w[n + k])
  BY <1>2, Zenon DEF Rest
<1>5. 0 \in S
  BY <1>3, <1>4 DEF m1
<1>6. ASSUME NEW k \in Nat, k \in S PROVE k + 1 \in S
  <2>. SUFFICES ASSUME k + 1 <= Len(w) + 1 - n PROVE g[k + 1] = Apply(f[k + 1], r, j)
    OBVIOUS
  <2>1. k <= Len(w) + 1 - n /\ n + k \in DOMAIN w
    BY <1>0
  <2>2. g[k] = Apply(f[k], r, j)
    BY <2>1, <1>6
  <2>3. Bags(f[k]) /\ Same(m, f[k])
    BY <2>1, <1>1, RestKeeps
  <2>4. IsJob(w[n + k]) /\ Inside(f[k], w[n + k]) /\ Inside(f[k], j) /\ ~ Conflict(j, w[n + k])
    BY <2>1, <2>3, Zenon DEF Fits, Inside, Same
  <2>5. Apply(Apply(f[k], r, j), r, w[n + k]) = Apply(Apply(f[k], r, w[n + k]), r, j)
    BY <2>3, <2>4, JobsCommute
  <2>6. g[k + 1] = Apply(g[k], r, w[n + k]) /\ f[k + 1] = Apply(f[k], r, w[n + k])
    BY <1>3, <1>4
  <2>. QED BY <2>2, <2>5, <2>6
<1>7. \A k \in Nat : k \in S
  <2>. HIDE DEF S
  <2>. QED BY <1>5, <1>6, SetInduction
<1>8. Len(w) + 1 - n \in Nat /\ Len(w) + 1 - n <= Len(w) + 1 - n
  BY <1>0
<1>9. g[Len(w) + 1 - n] = Apply(f[Len(w) + 1 - n], r, j)
  BY <1>7, <1>8
<1>10. RunFrom(m, r, w, n) = f[Len(w) + 1 - n] /\ RunFrom(m1, r, w, n) = g[Len(w) + 1 - n]
  BY <1>1, <1>2 DEF Rest
<1>. QED BY <1>9, <1>10 DEF m1

-----------------------------------------------------------------------------
(* What the rest of a loop does to a memory *)

AllFit(m, ws) == IsList(ws) /\ \A u \in DOMAIN ws : Fits(m, ws[u])
Places(at, ws) == \A u \in DOMAIN ws : at[u] \in Nat \ {0} /\ at[u] <= Len(ws[u]) + 1

LEMMA FitsSame ==
  ASSUME NEW m, NEW n, NEW w, Fits(m, w), Same(m, n)
  PROVE  Fits(n, w)
BY Zenon DEF Fits, Same, Inside

LEMMA RoundKeeps ==
  ASSUME NEW m, NEW r, NEW ws, NEW at, NEW f, Round(f, m, r, ws, at),
         Bags(m), AllFit(m, ws), Places(at, ws)
  PROVE  \A k \in Nat : k <= Len(ws) => Bags(f[k]) /\ Same(m, f[k])
<1> DEFINE S == {k \in Nat : k <= Len(ws) => Bags(f[k]) /\ Same(m, f[k])}
<1>0. Len(ws) \in Nat /\ DOMAIN ws = 1 .. Len(ws)
  BY DEF AllFit, IsList
<1>00. f[0] = m /\ \A k \in Nat : f[k + 1] = RunFrom(f[k], r, ws[k + 1], at[k + 1])
  BY Zenon DEF Round
<1>1. 0 \in S
  BY <1>00 DEF Same
<1>2. ASSUME NEW k \in Nat, k \in S PROVE k + 1 \in S
  <2>. SUFFICES ASSUME k + 1 <= Len(ws) PROVE Bags(f[k + 1]) /\ Same(m, f[k + 1])
    OBVIOUS
  <2>1. k <= Len(ws) /\ k + 1 \in DOMAIN ws
    BY <1>0
  <2>2. Bags(f[k]) /\ Same(m, f[k])
    BY <2>1, <1>2
  <2>3. Fits(m, ws[k + 1]) /\ at[k + 1] \in Nat \ {0} /\ at[k + 1] <= Len(ws[k + 1]) + 1
    BY <2>1, Zenon DEF AllFit, Places
  <2>4. Fits(f[k], ws[k + 1])
    BY <2>2, <2>3, FitsSame
  <2>5. f[k + 1] = RunFrom(f[k], r, ws[k + 1], at[k + 1])
    BY <1>00
  <2>6. Bags(f[k + 1]) /\ Same(f[k], f[k + 1])
    BY <2>2, <2>3, <2>4, <2>5, RunFromKeeps
  <2>. QED BY <2>2, <2>6, Zenon DEF Same
<1>3. \A k \in Nat : k \in S
  <2>. HIDE DEF S
  <2>. QED BY <1>1, <1>2, SetInduction
<1>. QED BY <1>3

LEMMA RunLoopSame ==
  ASSUME NEW m, NEW r, NEW ws, IsList(ws), NEW at, NEW bt, \A u \in DOMAIN ws : at[u] = bt[u]
  PROVE  RunLoop(m, r, ws, at) = RunLoop(m, r, ws, bt)
<1>0. Len(ws) \in Nat /\ DOMAIN ws = 1 .. Len(ws)
  BY DEF IsList
<1>1. PICK f : Round(f, m, r, ws, at)
  BY RunLoopIs
<1>2. PICK g : Round(g, m, r, ws, bt)
  BY RunLoopIs
<1>3. /\ f[0] = m /\ \A k \in Nat : f[k + 1] = RunFrom(f[k], r, ws[k + 1], at[k + 1])
      /\ RunLoop(m, r, ws, at) = f[Len(ws)]
  BY <1>1, Zenon DEF Round
<1>4. /\ g[0] = m /\ \A k \in Nat : g[k + 1] = RunFrom(g[k], r, ws[k + 1], bt[k + 1])
      /\ RunLoop(m, r, ws, bt) = g[Len(ws)]
  BY <1>2, Zenon DEF Round
<1> DEFINE S == {k \in Nat : k <= Len(ws) => f[k] = g[k]}
<1>5. 0 \in S
  BY <1>3, <1>4
<1>6. ASSUME NEW k \in Nat, k \in S PROVE k + 1 \in S
  <2>. SUFFICES ASSUME k + 1 <= Len(ws) PROVE f[k + 1] = g[k + 1]
    OBVIOUS
  <2>1. k <= Len(ws) /\ k + 1 \in DOMAIN ws
    BY <1>0
  <2>2. f[k] = g[k] /\ at[k + 1] = bt[k + 1]
    BY <2>1, <1>6
  <2>3. f[k + 1] = RunFrom(f[k], r, ws[k + 1], at[k + 1]) /\ g[k + 1] = RunFrom(g[k], r, ws[k + 1], bt[k + 1])
    BY <1>3, <1>4
  <2>. QED BY <2>2, <2>3
<1>7. \A k \in Nat : k \in S
  <2>. HIDE DEF S
  <2>. QED BY <1>5, <1>6, SetInduction
<1>8. f[Len(ws)] = g[Len(ws)]
  BY <1>0, <1>7
<1>. QED BY <1>3, <1>4, <1>8

(* Workers that are all at their end leave the memory alone. *)
LEMMA RunLoopOver ==
  ASSUME NEW m, NEW r, NEW ws, IsLoop(ws), NEW at, \A u \in DOMAIN ws : at[u] = Len(ws[u]) + 1
  PROVE  RunLoop(m, r, ws, at) = m
<1>0. Len(ws) \in Nat /\ DOMAIN ws = 1 .. Len(ws) /\ \A u \in DOMAIN ws : IsList(ws[u])
  BY DEF IsLoop, IsList
<1>1. PICK f : Round(f, m, r, ws, at)
  BY RunLoopIs
<1>3. /\ f[0] = m /\ \A k \in Nat : f[k + 1] = RunFrom(f[k], r, ws[k + 1], at[k + 1])
      /\ RunLoop(m, r, ws, at) = f[Len(ws)]
  BY <1>1, Zenon DEF Round
<1> DEFINE S == {k \in Nat : k <= Len(ws) => f[k] = m}
<1>5. 0 \in S
  BY <1>3
<1>6. ASSUME NEW k \in Nat, k \in S PROVE k + 1 \in S
  <2>. SUFFICES ASSUME k + 1 <= Len(ws) PROVE f[k + 1] = m
    OBVIOUS
  <2>1. k <= Len(ws) /\ k + 1 \in DOMAIN ws
    BY <1>0
  <2>2. f[k] = m
    BY <2>1, <1>6
  <2>3. f[k + 1] = RunFrom(f[k], r, ws[k + 1], at[k + 1])
    BY <1>3
  <2>4. at[k + 1] = Len(ws[k + 1]) + 1 /\ IsList(ws[k + 1])
    BY <2>1, <1>0
  <2>. QED BY <2>2, <2>3, <2>4, RunFromOver
<1>7. \A k \in Nat : k \in S
  <2>. HIDE DEF S
  <2>. QED BY <1>5, <1>6, SetInduction
<1>8. f[Len(ws)] = m
  BY <1>0, <1>7
<1>. QED BY <1>3, <1>8

(***************************************************************************)
(* A job that a worker runs before its turn, before the rest of the workers *)
(* ahead of it in the order of the loop, changes nothing in the end, if it  *)
(* conflicts with no job of another worker.                                  *)
(***************************************************************************)
LEMMA RunLoopStep ==
  ASSUME NEW m, NEW r, NEW ws, Bags(m), AllFit(m, ws), NEW at, Places(at, ws),
         NEW u \in DOMAIN ws, at[u] \in DOMAIN ws[u],
         \A v \in DOMAIN ws : v # u => \A i \in DOMAIN ws[v] : ~ Conflict(ws[u][at[u]], ws[v][i]),
         NEW bt, bt[u] = at[u] + 1, \A v \in DOMAIN ws : v # u => bt[v] = at[v]
  PROVE  RunLoop(Apply(m, r, ws[u][at[u]]), r, ws, bt) = RunLoop(m, r, ws, at)
<1> DEFINE j == ws[u][at[u]]
           m1 == Apply(m, r, j)
<1>0. Len(ws) \in Nat /\ DOMAIN ws = 1 .. Len(ws) /\ u \in Nat /\ u <= Len(ws)
  BY DEF AllFit, IsList
<1>j. IsJob(j) /\ Inside(m, j)
  BY Zenon DEF AllFit, Fits
<1>1. PICK f : Round(f, m, r, ws, at)
  BY RunLoopIs
<1>2. PICK g : Round(g, m1, r, ws, bt)
  <2>. HIDE DEF m1
  <2>. QED BY RunLoopIs
<1>3. /\ f[0] = m /\ \A k \in Nat : f[k + 1] = RunFrom(f[k], r, ws[k + 1], at[k + 1])
      /\ RunLoop(m, r, ws, at) = f[Len(ws)]
  BY <1>1, Zenon DEF Round
<1>4. /\ g[0] = m1 /\ \A k \in Nat : g[k + 1] = RunFrom(g[k], r, ws[k + 1], bt[k + 1])
      /\ RunLoop(m1, r, ws, bt) = g[Len(ws)]
  <2>. HIDE DEF m1
  <2>. QED BY <1>2, Zenon DEF Round
<1>c. \A v \in DOMAIN ws : v # u => \A i \in DOMAIN ws[v] : ~ Conflict(j, ws[v][i])
  OBVIOUS
<1> DEFINE S == {k \in Nat : k <= Len(ws) => g[k] = IF k < u THEN Apply(f[k], r, j) ELSE f[k]}
<1>5. 0 \in S
  <2>1. 0 < u
    BY <1>0
  <2>. QED BY <2>1, <1>3, <1>4
<1>6. ASSUME NEW k \in Nat, k \in S PROVE k + 1 \in S
  <2>. HIDE DEF j
  <2>. SUFFICES ASSUME k + 1 <= Len(ws)
                PROVE g[k + 1] = IF k + 1 < u THEN Apply(f[k + 1], r, j) ELSE f[k + 1]
    OBVIOUS
  <2>1. k <= Len(ws) /\ k + 1 \in DOMAIN ws
    BY <1>0
  <2>2. g[k] = IF k < u THEN Apply(f[k], r, j) ELSE f[k]
    BY <2>1, <1>6
  <2>3. Bags(f[k]) /\ Same(m, f[k])
    BY <1>1, <2>1, RoundKeeps
  <2>4. /\ f[k + 1] = RunFrom(f[k], r, ws[k + 1], at[k + 1])
        /\ g[k + 1] = RunFrom(g[k], r, ws[k + 1], bt[k + 1])
    <3>. HIDE DEF m1
    <3>. QED BY <1>3, <1>4
  <2>5. Fits(f[k], ws[k + 1]) /\ at[k + 1] \in Nat \ {0} /\ at[k + 1] <= Len(ws[k + 1]) + 1
    <3>1. Fits(m, ws[k + 1]) /\ at[k + 1] \in Nat \ {0} /\ at[k + 1] <= Len(ws[k + 1]) + 1
      BY <2>1, Zenon DEF AllFit, Places
    <3>. QED BY <3>1, <2>3, FitsSame
  <2>6. CASE k + 1 < u
    <3>1. k + 1 # u /\ k < u
      BY <1>0, <2>6
    <3>2. bt[k + 1] = at[k + 1] /\ \A i \in DOMAIN ws[k + 1] : ~ Conflict(j, ws[k + 1][i])
      BY <3>1, <2>1, <1>c
    <3>3. Inside(f[k], j) /\ IsJob(j)
      BY <1>j, <2>3, Zenon DEF Inside, Same
    <3>4. RunFrom(Apply(f[k], r, j), r, ws[k + 1], at[k + 1]) = Apply(RunFrom(f[k], r, ws[k + 1], at[k + 1]), r, j)
      BY <2>3, <2>5, <3>2, <3>3, RunFromCommutes
    <3>. QED BY <2>2, <2>4, <2>6, <3>1, <3>2, <3>4
  <2>7. CASE k + 1 = u
    <3>1. k < u /\ ~ (k + 1 < u)
      BY <1>0, <2>7
    <3>2. j = ws[k + 1][at[k + 1]] /\ bt[k + 1] = at[k + 1] + 1 /\ at[k + 1] \in DOMAIN ws[k + 1]
      BY <2>7 DEF j
    <3>3. RunFrom(f[k], r, ws[k + 1], at[k + 1]) = RunFrom(Apply(f[k], r, j), r, ws[k + 1], at[k + 1] + 1)
      <4>1. IsList(ws[k + 1])
        BY <2>5 DEF Fits
      <4>. QED BY <4>1, <3>2, RunFromStep
    <3>. QED BY <2>2, <2>4, <3>1, <3>2, <3>3
  <2>8. CASE u < k + 1
    <3>1. k + 1 # u /\ ~ (k < u) /\ ~ (k + 1 < u)
      BY <1>0, <2>8
    <3>2. bt[k + 1] = at[k + 1]
      BY <3>1, <2>1
    <3>. QED BY <2>2, <2>4, <3>1, <3>2
  <2>. QED BY <1>0, <2>6, <2>7, <2>8
<1>7. \A k \in Nat : k \in S
  <2>. HIDE DEF S
  <2>. QED BY <1>5, <1>6, SetInduction
<1>8. g[Len(ws)] = f[Len(ws)]
  <2>1. ~ (Len(ws) < u)
    BY <1>0
  <2>. QED BY <1>0, <1>7, <2>1
<1>. QED BY <1>3, <1>4, <1>8

-----------------------------------------------------------------------------
(* The invariant *)

PlaceInv ==
  /\ \E p \in Chosen : kernel = p[1] /\ variant = p[2]
  /\ stage \in DOMAIN program
  /\ phase # "run" => next = 1 /\ team = {}
  /\ next \in Nat \ {0} /\ next <= Len(workers) + 1

TeamInv ==
  /\ \A t \in team : /\ t = <<t[1], t[2]>>
                     /\ t[1] \in DOMAIN workers /\ t[1] < next
                     /\ t[2] \in DOMAIN workers[t[1]]
  /\ \A s, t \in team : s[1] = t[1] => s = t

MemoryInv ==
  /\ phase # "new" => Bags(mem)
  /\ phase = "run" => RaceFree(workers) /\ StaysInside(mem, workers)

KInv == PlaceInv /\ TeamInv /\ MemoryInv

LEMMA ProgramIs ==
  ASSUME PlaceInv
  PROVE  /\ IsList(program) /\ Len(program) > 0
         /\ \A s \in DOMAIN program : IsLoop(program[s].workers)
         /\ IsLoop(workers)
<1>1. PICK p \in Chosen : kernel = p[1] /\ variant = p[2]
  BY DEF PlaceInv
<1>2. IsProgram(Catalog[p[1]][p[2]])
  BY CatalogAssumption
<1>3. IsProgram(program)
  BY <1>1, <1>2 DEF program
<1>. QED BY <1>3 DEF IsProgram, PlaceInv, workers

LEMMA KInvInit == Init => KInv
<1>. SUFFICES ASSUME Init PROVE KInv
  OBVIOUS
<1>1. PICK p \in Chosen : kernel = p[1] /\ variant = p[2]
  BY DEF Init
<1>2. IsProgram(Catalog[p[1]][p[2]])
  BY CatalogAssumption
<1>3. IsProgram(program)
  BY <1>1, <1>2 DEF program
<1>4. stage \in DOMAIN program
  BY <1>3 DEF IsProgram, IsList, Init
<1>5. IsLoop(workers)
  BY <1>3, <1>4 DEF IsProgram, workers
<1>6. Len(workers) \in Nat
  BY <1>5 DEF IsLoop, IsList
<1>7. PlaceInv
  BY <1>1, <1>4, <1>6 DEF PlaceInv, Init
<1>8. TeamInv
  BY DEF TeamInv, Init
<1>9. MemoryInv
  BY DEF MemoryInv, Init
<1>. QED BY <1>7, <1>8, <1>9 DEF KInv

LEMMA SetUpBags == \A d : Bags(SetUpMemory(d))
<1>. TAKE d
<1>1. IsABag(Raw.plus) /\ IsABag(Start.plus)
  BY SetsAreBags DEF Raw, Start
<1>2. \A x \in DOMAIN SetUpMemory(d) : \A i \in DOMAIN SetUpMemory(d)[x] :
         SetUpMemory(d)[x][i] = Raw \/ SetUpMemory(d)[x][i] = Start
  BY DEF SetUpMemory
<1>. QED BY <1>1, <1>2 DEF Bags

(* The loop that runs, the loop's workers, are those of the kernel and stage. *)
LEMMA SameLoop ==
  ASSUME UNCHANGED <<kernel, variant, stage>>
  PROVE  program' = program /\ workers' = workers
BY DEF program, workers

LEMMA StaysInsideIs ==
  ASSUME NEW m, NEW ws, IsLoop(ws)
  PROVE  StaysInside(m, ws) <=> AllFit(m, ws)
BY Zenon DEF StaysInside, AllFit, Fits, Inside, IsLoop

LEMMA PlaceInvNext ==
  ASSUME PlaceInv, TeamInv, [Next]_vars
  PROVE  PlaceInv' /\ TeamInv'
<1>p. /\ IsList(program) /\ Len(program) \in Nat /\ DOMAIN program = 1 .. Len(program)
      /\ \A s \in DOMAIN program : IsLoop(program[s].workers)
      /\ IsLoop(workers) /\ Len(workers) \in Nat /\ DOMAIN workers = 1 .. Len(workers)
      /\ \A u \in DOMAIN workers : IsList(workers[u]) /\ DOMAIN workers[u] = 1 .. Len(workers[u]) /\ Len(workers[u]) \in Nat
  BY ProgramIs DEF IsList, IsLoop
<1>1. CASE SetUp
  <2>1. program' = program /\ workers' = workers
    BY <1>1, SameLoop DEF SetUp
  <2>2. PlaceInv'
    BY <1>1, <2>1 DEF SetUp, PlaceInv
  <2>3. team = {} /\ next = 1
    BY <1>1 DEF SetUp, PlaceInv
  <2>4. TeamInv'
    BY <1>1, <2>3 DEF SetUp, TeamInv
  <2>. QED BY <2>2, <2>4
<1>2. CASE Begin
  <2>1. program' = program /\ workers' = workers
    BY <1>2, SameLoop DEF Begin
  <2>2. next \in DOMAIN workers /\ next' = next + 1 /\ next \in Nat
    BY <1>2, <1>p DEF Begin, PlaceInv
  <2>3. PlaceInv'
    BY <1>2, <1>p, <2>1, <2>2 DEF Begin, PlaceInv
  <2>4. TeamInv'
    <3>1. CASE workers[next] = <<>>
      <4>1. team' = team
        BY <1>2, <3>1 DEF Begin
      <4>. QED BY <4>1, <2>1, <2>2, <1>p DEF TeamInv
    <3>2. CASE workers[next] # <<>>
      <4>1. team' = team \cup {<<next, 1>>}
        BY <1>2, <3>2 DEF Begin
      <4>2. 1 \in DOMAIN workers[next]
        <5>. QED BY <3>2, <2>2, <1>p
      <4>3. \A t \in team : t[1] < next /\ t[1] # next
        BY <1>p, <2>2 DEF TeamInv
      <4>. QED BY <4>1, <4>2, <4>3, <2>1, <2>2, <1>p DEF TeamInv
    <3>. QED BY <3>1, <3>2
  <2>. QED BY <2>3, <2>4
<1>3. CASE Execute
  <2>1. program' = program /\ workers' = workers
    BY <1>3, SameLoop DEF Execute
  <2>2. PlaceInv'
    BY <1>3, <2>1 DEF Execute, PlaceInv
  <2>3. PICK u \in team : /\ mem' = Apply(mem, rep, At_(u))
                          /\ team' = (team \ {u}) \cup
                                (IF u[2] < Len(workers[u[1]]) THEN {<<u[1], u[2] + 1>>} ELSE {})
    BY <1>3 DEF Execute
  <2>4. /\ u = <<u[1], u[2]>> /\ u[1] \in DOMAIN workers /\ u[1] < next /\ u[2] \in DOMAIN workers[u[1]]
        /\ DOMAIN workers[u[1]] = 1 .. Len(workers[u[1]]) /\ Len(workers[u[1]]) \in Nat
    BY <1>p DEF TeamInv
  <2>5. TeamInv'
    <3>1. next' = next
      BY <1>3 DEF Execute
    <3>2. \A t \in team \ {u} : t[1] # u[1]
      BY DEF TeamInv
    <3>3. CASE u[2] < Len(workers[u[1]])
      <4>1. team' = (team \ {u}) \cup {<<u[1], u[2] + 1>>}
        BY <3>3, <2>3
      <4>2. u[2] + 1 \in DOMAIN workers[u[1]]
        BY <3>3, <2>4
      <4>. QED BY <4>1, <4>2, <3>1, <3>2, <2>1, <2>4 DEF TeamInv
    <3>4. CASE ~ (u[2] < Len(workers[u[1]]))
      <4>1. team' = team \ {u}
        BY <3>4, <2>3
      <4>. QED BY <4>1, <3>1, <2>1 DEF TeamInv
    <3>. QED BY <3>3, <3>4
  <2>. QED BY <2>2, <2>5
<1>4. CASE EndLoop
  <2>0. /\ phase = "run" /\ team = {} /\ team' = {} /\ next' = 1
        /\ kernel' = kernel /\ variant' = variant /\ program' = program
    BY <1>4 DEF EndLoop, program
  <2>1. stage' \in DOMAIN program'
    <3>1. CASE stage < Len(program)
      <4>1. stage' = stage + 1
        BY <1>4, <3>1 DEF EndLoop
      <4>. QED BY <4>1, <3>1, <2>0, <1>p DEF PlaceInv
    <3>2. CASE ~ (stage < Len(program)) /\ rep < Reps
      <4>1. stage' = 1
        BY <1>4, <3>2 DEF EndLoop
      <4>. QED BY <4>1, <2>0, <1>p, ProgramIs
    <3>3. CASE ~ (stage < Len(program)) /\ ~ (rep < Reps)
      <4>1. stage' = stage
        BY <1>4, <3>3 DEF EndLoop
      <4>. QED BY <4>1, <2>0 DEF PlaceInv
    <3>. QED BY <3>1, <3>2, <3>3
  <2>2. workers' = program[stage'].workers /\ IsLoop(workers') /\ Len(workers') \in Nat
    <3>1. workers' = program[stage'].workers
      BY <2>0 DEF workers
    <3>2. IsLoop(workers')
      BY <3>1, <2>0, <2>1, <1>p
    <3>. QED BY <3>1, <3>2 DEF IsLoop, IsList
  <2>3. PlaceInv'
    BY <2>0, <2>1, <2>2 DEF PlaceInv
  <2>4. TeamInv'
    BY <2>0 DEF TeamInv
  <2>. QED BY <2>3, <2>4
<1>5. CASE UpdateChecksum \/ TearDown
  <2>1. program' = program /\ workers' = workers
    BY <1>5, SameLoop DEF UpdateChecksum, TearDown
  <2>2. PlaceInv' /\ TeamInv'
    BY <1>5, <2>1 DEF UpdateChecksum, TearDown, PlaceInv, TeamInv
  <2>. QED BY <2>2
<1>6. CASE UNCHANGED vars
  <2>1. program' = program /\ workers' = workers
    BY <1>6, SameLoop DEF vars
  <2>2. PlaceInv' /\ TeamInv'
    BY <1>6, <2>1 DEF vars, PlaceInv, TeamInv
  <2>. QED BY <2>2
<1>. QED BY <1>1, <1>2, <1>3, <1>4, <1>5, <1>6 DEF Next

LEMMA KInvNext ==
  ASSUME KInv, [Next]_vars, NoRace', AccessesAreValid'
  PROVE  KInv'
<1>. USE DEF KInv
<1>1. PlaceInv' /\ TeamInv'
  BY PlaceInvNext
<1>2. /\ IsLoop(workers)
      /\ \A u \in DOMAIN workers : DOMAIN workers[u] = 1 .. Len(workers[u])
  BY ProgramIs DEF IsList, IsLoop
<1>3. CASE SetUp \/ EndLoop
  <2>1. Starting' \/ phase' # "run"
    BY <1>3 DEF SetUp, EndLoop, Starting, PlaceInv
  <2>2. phase' = "run" => RaceFree(workers') /\ StaysInside(mem', workers')
    BY <2>1 DEF NoRace, AccessesAreValid
  <2>3. Bags(mem')
    BY <1>3, SetUpBags DEF SetUp, EndLoop, MemoryInv
  <2>. QED BY <1>1, <2>2, <2>3 DEF MemoryInv
<1>4. CASE Execute
  <2>1. workers' = workers /\ phase = "run" /\ phase' = "run"
    BY <1>4, SameLoop DEF Execute
  <2>2. PICK u \in team : mem' = Apply(mem, rep, At_(u))
    BY <1>4 DEF Execute
  <2>3. Bags(mem) /\ AllFit(mem, workers) /\ RaceFree(workers)
    BY <2>1, <1>2, StaysInsideIs DEF MemoryInv
  <2>4. IsJob(At_(u)) /\ Inside(mem, At_(u))
    BY <2>3, <1>2 DEF AllFit, Fits, At_, TeamInv
  <2>5. Bags(mem')
    BY <2>2, <2>3, <2>4, ApplyKeepsBags
  <2>6. Same(mem, mem')
    BY <2>2, ApplyIs DEF Same
  <2>7. AllFit(mem', workers)
    BY <2>3, <2>6, FitsSame DEF AllFit
  <2>8. StaysInside(mem', workers')
    BY <2>7, <2>1, <1>2, StaysInsideIs
  <2>. QED BY <1>1, <2>1, <2>3, <2>5, <2>8 DEF MemoryInv
<1>5. CASE Begin \/ UpdateChecksum \/ TearDown \/ UNCHANGED vars
  <2>1. workers' = workers /\ mem' = mem /\ (phase' = "new" <=> phase = "new") /\ (phase' = "run" => phase = "run")
    BY <1>5, SameLoop DEF Begin, UpdateChecksum, TearDown, vars
  <2>2. MemoryInv'
    BY <2>1 DEF MemoryInv
  <2>. QED BY <1>1, <2>2
<1>. QED BY <1>3, <1>4, <1>5 DEF Next

-----------------------------------------------------------------------------
(* The order of the workers does not matter *)

Ats == [u \in DOMAIN workers |-> JobAt(u)]

JobsAre ==
  /\ \A u \in DOMAIN workers : \A n : <<u, n>> \in team => JobAt(u) = n
  /\ \A u \in DOMAIN workers :
        (\A t \in team : t[1] # u) => JobAt(u) = IF u < next THEN Len(workers[u]) + 1 ELSE 1

LEMMA JobAtIs == TeamInv => JobsAre
<1>. SUFFICES ASSUME TeamInv PROVE JobsAre
  OBVIOUS
<1>1. ASSUME NEW u \in DOMAIN workers, NEW n, <<u, n>> \in team PROVE JobAt(u) = n
  <2>1. n \in DOMAIN workers[u]
    <3>1. <<u, n>>[1] = u /\ <<u, n>>[2] = n
      OBVIOUS
    <3>. QED BY <1>1, <3>1 DEF TeamInv
  <2>2. \A k \in DOMAIN workers[u] : <<u, k>> \in team => k = n
    <3>. TAKE k \in DOMAIN workers[u]
    <3>. HAVE <<u, k>> \in team
    <3>1. <<u, k>>[1] = <<u, n>>[1]
      OBVIOUS
    <3>2. <<u, k>> = <<u, n>>
      BY <3>1, <1>1, Zenon DEF TeamInv
    <3>. QED BY <3>2
  <2>3. (CHOOSE k \in DOMAIN workers[u] : <<u, k>> \in team) = n
    BY <1>1, <2>1, <2>2
  <2>. QED BY <1>1, <2>1, <2>3, Zenon DEF JobAt
<1>2. ASSUME NEW u \in DOMAIN workers, \A t \in team : t[1] # u
      PROVE  JobAt(u) = IF u < next THEN Len(workers[u]) + 1 ELSE 1
  <2>1. \A n : <<u, n>> \notin team
    <3>. TAKE n
    <3>1. <<u, n>>[1] = u
      OBVIOUS
    <3>. QED BY <3>1, <1>2
  <2>. QED BY <2>1, Zenon DEF JobAt
<1>. QED BY <1>1, <1>2 DEF JobsAre

LEMMA AtsArePlaces ==
  ASSUME KInv
  PROVE  Places(Ats, workers)
<1>1. \A u \in DOMAIN workers : /\ Len(workers[u]) \in Nat
                                /\ DOMAIN workers[u] = 1 .. Len(workers[u])
  BY ProgramIs DEF KInv, IsLoop, IsList
<1>2. ASSUME NEW u \in DOMAIN workers
      PROVE  JobAt(u) \in Nat \ {0} /\ JobAt(u) <= Len(workers[u]) + 1
  <2>1. CASE \E t \in team : t[1] = u
    <3>1. PICK t \in team : t[1] = u
      BY <2>1
    <3>2. t = <<u, t[2]>> /\ t[2] \in DOMAIN workers[u]
      BY <3>1 DEF KInv, TeamInv
    <3>3. JobAt(u) = t[2]
      BY <3>2, JobAtIs, Zenon DEF KInv, JobsAre
    <3>. QED BY <3>2, <3>3, <1>1
  <2>2. CASE \A t \in team : t[1] # u
    <3>1. JobAt(u) = Len(workers[u]) + 1 \/ JobAt(u) = 1
      BY <2>2, JobAtIs DEF JobsAre, KInv
    <3>. QED BY <3>1, <1>1
  <2>. QED BY <2>1, <2>2
<1>. QED BY <1>2 DEF Places, Ats

(* At the start of a loop, its outcome is that of the whole loop. *)
LEMMA OutcomeAtStart ==
  ASSUME KInv, phase = "run", team = {}, next = 1
  PROVE  Outcome = Whole(mem, rep, workers)
<1>1. \A u \in DOMAIN workers : u \in Nat \ {0}
  BY ProgramIs DEF KInv, IsLoop, IsList
<1>2. \A u \in DOMAIN workers : ~ (u < next)
  BY <1>1
<1>3. \A u \in DOMAIN workers : JobAt(u) = 1
  BY <1>2, JobAtIs DEF JobsAre, KInv
<1>4. [u \in DOMAIN workers |-> JobAt(u)] = [u \in DOMAIN workers |-> 1]
  BY <1>3
<1>. QED BY <1>4, Zenon DEF Outcome, Whole

LEMMA OutcomeAtEnd ==
  ASSUME KInv, phase = "run", team = {}, next > Len(workers)
  PROVE  Outcome = mem
<1>1. IsLoop(workers) /\ \A u \in DOMAIN workers : u \in Nat /\ u <= Len(workers) /\ Len(workers) \in Nat
  BY ProgramIs DEF KInv, IsLoop, IsList
<1>2. \A u \in DOMAIN workers : u < next
  BY <1>1 DEF KInv, PlaceInv
<1>3. \A u \in DOMAIN workers : Ats[u] = Len(workers[u]) + 1
  BY <1>2, JobAtIs DEF JobsAre, KInv, Ats
<1>4. RunLoop(mem, rep, workers, Ats) = mem
  BY <1>1, <1>3, RunLoopOver
<1>. QED BY <1>4, Zenon DEF Outcome, Ats

LEMMA BeginKeepsOutcome ==
  ASSUME KInv, KInv', Begin
  PROVE  Outcome' = Outcome
<1>1. /\ workers' = workers /\ mem' = mem /\ rep' = rep /\ phase = "run" /\ phase' = "run"
      /\ next' = next + 1 /\ next \in Nat
  BY SameLoop DEF Begin, KInv, PlaceInv
<1>2. /\ IsList(workers) /\ \A u \in DOMAIN workers : u \in Nat
      /\ \A u \in DOMAIN workers : IsList(workers[u])
      /\ next \in DOMAIN workers
  BY ProgramIs DEF KInv, PlaceInv, IsLoop, IsList, Begin
<1>3. \A t \in team : t[1] # next
  BY <1>1 DEF KInv, TeamInv
<1>4. ASSUME NEW u \in DOMAIN workers PROVE Ats'[u] = Ats[u]
  <2>0. Ats'[u] = JobAt(u)' /\ Ats[u] = JobAt(u)
    BY <1>1 DEF Ats
  <2>j. JobsAre /\ JobsAre'
    <3>1. TeamInv /\ TeamInv'
      BY DEF KInv
    <3>. QED BY <3>1, JobAtIs, PTL
  <2>1. CASE u = next
    <3>1. JobAt(u) = 1
      BY <1>1, <1>3, <2>1, <2>j DEF JobsAre
    <3>2. CASE workers[next] = <<>>
      <4>1. team' = team /\ Len(workers[u]) = 0
        BY <3>2, <2>1 DEF Begin
      <4>2. \A t \in team' : t[1] # u
        BY <4>1, <1>3, <2>1
      <4>3. u < next'
        BY <1>1, <2>1
      <4>4. JobAt(u)' = Len(workers[u]) + 1
        <5>1. (\A t \in team' : t[1] # u) => JobAt(u)' = IF u < next' THEN Len(workers'[u]) + 1 ELSE 1
          BY <1>1, <2>j DEF JobsAre
        <5>. QED BY <5>1, <4>2, <4>3, <1>1
      <4>. QED BY <4>1, <4>4, <3>1, <2>0
    <3>3. CASE workers[next] # <<>>
      <4>1. <<u, 1>> \in team'
        BY <3>3, <2>1 DEF Begin
      <4>2. JobAt(u)' = 1
        <5>1. \A n : <<u, n>> \in team' => JobAt(u)' = n
          BY <1>1, <2>j DEF JobsAre
        <5>. QED BY <5>1, <4>1
      <4>. QED BY <4>2, <3>1, <2>0
    <3>. QED BY <3>2, <3>3
  <2>2. CASE u # next
    <3>1. \A n : <<u, n>> \in team <=> <<u, n>> \in team'
      BY <2>2 DEF Begin
    <3>2. u < next <=> u < next'
      BY <1>1, <1>2, <2>2
    <3>3. JobAt(u)' = JobAt(u)
      BY <1>1, <3>1, <3>2 DEF JobAt
    <3>. QED BY <3>3, <2>0
  <2>. QED BY <2>1, <2>2
<1>5. RunLoop(mem, rep, workers, Ats') = RunLoop(mem, rep, workers, Ats)
  BY <1>2, <1>4, RunLoopSame
<1>6. Outcome = RunLoop(mem, rep, workers, Ats) /\ Outcome' = RunLoop(mem', rep', workers', Ats')
  BY <1>1, Zenon DEF Outcome, Ats
<1>. QED BY <1>1, <1>5, <1>6

LEMMA ConflictIsSymmetric == \A j, k : Conflict(j, k) <=> Conflict(k, j)
BY Zenon DEF Conflict

(* In a loop that is free of races, jobs of different workers do not conflict. *)
LEMMA NoConflict ==
  ASSUME NEW ws, IsLoop(ws), RaceFree(ws), NEW u \in DOMAIN ws, NEW v \in DOMAIN ws, u # v,
         NEW n \in DOMAIN ws[u], NEW i \in DOMAIN ws[v]
  PROVE  ~ Conflict(ws[u][n], ws[v][i])
<1>1. DOMAIN ws = 1 .. Len(ws) /\ Len(ws) \in Nat
  BY DEF IsLoop, IsList
<1>2. CASE u < v
  <2>1. v \in u + 1 .. Len(ws)
    BY <1>1, <1>2
  <2>. QED BY <2>1 DEF RaceFree
<1>3. CASE v < u
  <2>1. u \in v + 1 .. Len(ws)
    BY <1>1, <1>3
  <2>2. ~ Conflict(ws[v][i], ws[u][n])
    BY <2>1 DEF RaceFree
  <2>. QED BY <2>2, ConflictIsSymmetric
<1>. QED BY <1>1, <1>2, <1>3

LEMMA ExecuteKeepsOutcome ==
  ASSUME KInv, KInv', Execute
  PROVE  Outcome' = Outcome
<1>1. /\ workers' = workers /\ rep' = rep /\ phase = "run" /\ phase' = "run" /\ next' = next
  BY SameLoop DEF Execute
<1>2. PICK t \in team : /\ mem' = Apply(mem, rep, At_(t))
                        /\ team' = (team \ {t}) \cup
                              (IF t[2] < Len(workers[t[1]]) THEN {<<t[1], t[2] + 1>>} ELSE {})
  BY DEF Execute
<1> DEFINE u == t[1]
           n == t[2]
<1>3. /\ t = <<u, n>> /\ u \in DOMAIN workers /\ u < next /\ n \in DOMAIN workers[u]
      /\ DOMAIN workers[u] = 1 .. Len(workers[u]) /\ Len(workers[u]) \in Nat
  BY ProgramIs DEF KInv, TeamInv, IsLoop, IsList
<1>j. /\ TeamInv /\ TeamInv'
      /\ JobsAre /\ JobsAre'
  <2>1. TeamInv /\ TeamInv'
    BY DEF KInv
  <2>2. JobsAre /\ JobsAre'
    BY <2>1, JobAtIs, PTL
  <2>. QED BY <2>1, <2>2
<1>4. Ats[u] = n
  BY <1>3, <1>j DEF Ats, JobsAre
<1>5. Ats'[u] = n + 1
  <2>0. Ats'[u] = JobAt(u)'
    BY <1>1, <1>3 DEF Ats
  <2>1. CASE n < Len(workers[u])
    <3>1. <<u, n + 1>> \in team'
      BY <1>2, <2>1
    <3>2. \A k : <<u, k>> \in team' => JobAt(u)' = k
      <4>. HIDE DEF u
      <4>. QED BY <1>1, <1>3, <1>j DEF JobsAre
    <3>. QED BY <3>1, <3>2, <2>0
  <2>2. CASE ~ (n < Len(workers[u]))
    <3>1. n = Len(workers[u])
      BY <2>2, <1>3
    <3>2. \A s \in team' : s[1] # u
      BY <1>2, <2>2, <1>j DEF TeamInv
    <3>3. (\A s \in team' : s[1] # u) => JobAt(u)' = IF u < next' THEN Len(workers'[u]) + 1 ELSE 1
      <4>. HIDE DEF u
      <4>. QED BY <1>1, <1>3, <1>j DEF JobsAre
    <3>. QED BY <3>1, <3>2, <3>3, <2>0, <1>1, <1>3
  <2>. QED BY <2>1, <2>2
<1>6. ASSUME NEW v \in DOMAIN workers, v # u PROVE Ats'[v] = Ats[v]
  <2>1. \A k : <<v, k>> \in team <=> <<v, k>> \in team'
    BY <1>2, <1>3, <1>6
  <2>2. JobAt(v)' = JobAt(v)
    BY <1>1, <2>1 DEF JobAt
  <2>. QED BY <1>1, <2>2 DEF Ats
<1>7. Bags(mem) /\ AllFit(mem, workers) /\ RaceFree(workers) /\ IsLoop(workers)
  BY <1>1, ProgramIs, StaysInsideIs DEF KInv, MemoryInv
<1>8. \A v \in DOMAIN workers : v # u => \A i \in DOMAIN workers[v] : ~ Conflict(workers[u][Ats[u]], workers[v][i])
  <2>. HIDE DEF u
  <2>. QED BY <1>3, <1>4, <1>7, NoConflict
<1>9. RunLoop(Apply(mem, rep, workers[u][Ats[u]]), rep, workers, Ats') = RunLoop(mem, rep, workers, Ats)
  <2>1. Places(Ats, workers) /\ Ats[u] \in DOMAIN workers[u] /\ Ats'[u] = Ats[u] + 1
    BY AtsArePlaces, <1>3, <1>4, <1>5
  <2>2. u \in DOMAIN workers
    BY <1>3
  <2>3. \A v \in DOMAIN workers : v # u => Ats'[v] = Ats[v]
    BY <1>6
  <2> DEFINE at == Ats
             bt == Ats'
  <2>4. /\ Places(at, workers) /\ at[u] \in DOMAIN workers[u] /\ bt[u] = at[u] + 1
        /\ \A v \in DOMAIN workers : v # u => bt[v] = at[v]
        /\ \A v \in DOMAIN workers : v # u => \A i \in DOMAIN workers[v] : ~ Conflict(workers[u][at[u]], workers[v][i])
    BY <2>1, <2>3, <1>8
  <2>5. RunLoop(Apply(mem, rep, workers[u][at[u]]), rep, workers, bt) = RunLoop(mem, rep, workers, at)
    <3>. HIDE DEF u, at, bt
    <3>. QED BY <1>7, <2>2, <2>4, RunLoopStep
  <2>. QED BY <2>5
<1>10. mem' = Apply(mem, rep, workers[u][Ats[u]])
  BY <1>2, <1>4 DEF At_
<1>11. Outcome = RunLoop(mem, rep, workers, Ats) /\ Outcome' = RunLoop(mem', rep', workers', Ats')
  BY <1>1, Zenon DEF Outcome, Ats
<1>. QED BY <1>1, <1>9, <1>10, <1>11

LEMMA RefinementStep ==
  ASSUME KInv, KInv', [Next]_vars
  PROVE  [Abstract!Next]_(Abstract!vars)
<1>. USE DEF Abstract!program, program, Abstract!data, data
<1>1. CASE SetUp
  <2>1. phase = "new" /\ phase' = "run" /\ team' = {} /\ next' = 1
    BY <1>1 DEF SetUp, KInv, PlaceInv
  <2>2. Outcome' = Whole(mem', rep', workers')
    <3>1. KInv /\ phase = "run" /\ team = {} /\ next = 1 => Outcome = Whole(mem, rep, workers)
      BY OutcomeAtStart
    <3>2. (KInv /\ phase = "run" /\ team = {} /\ next = 1 => Outcome = Whole(mem, rep, workers))'
      BY OutcomeAtStart, PTL
    <3>. QED BY <3>2, <2>1
  <2>3. mem' = SetUpMemory(data) /\ rep' = rep /\ workers' = program[stage].workers
    BY <1>1 DEF SetUp, workers
  <2>4. Outcome' = Whole(SetUpMemory(data), rep, program[stage].workers)
    BY <2>2, <2>3
  <2>5. Abstract!SetUp
    BY <1>1, <2>4 DEF SetUp, Abstract!SetUp
  <2>. QED BY <2>5 DEF Abstract!Next
<1>2. CASE Begin \/ Execute
  <2>1. Outcome' = Outcome
    BY <1>2, BeginKeepsOutcome, ExecuteKeepsOutcome
  <2>. QED BY <1>2, <2>1 DEF Begin, Execute, Abstract!vars
<1>3. CASE EndLoop
  <2>0. /\ phase = "run" /\ team = {} /\ next > Len(workers) /\ team' = {} /\ next' = 1 /\ mem' = mem
        /\ kernel' = kernel /\ variant' = variant /\ live' = live
        /\ phase' = "run" \/ phase' = "ran"
    BY <1>3 DEF EndLoop
  <2>1. Outcome = mem
    BY <2>0, OutcomeAtEnd
  <2>2. phase' = "run" => Outcome' = Whole(mem, rep', program[stage'].workers)
    <3>1. (KInv /\ phase = "run" /\ team = {} /\ next = 1 => Outcome = Whole(mem, rep, workers))'
      BY OutcomeAtStart, PTL
    <3>2. workers' = program[stage'].workers
      BY <2>0 DEF workers
    <3>. QED BY <3>1, <3>2, <2>0
  <2>3. phase' # "run" => Outcome' = mem
    BY <2>0 DEF Outcome
  <2>4. Outcome' = IF phase' = "run" THEN Whole(Outcome, rep', program[stage'].workers) ELSE Outcome
    BY <2>1, <2>2, <2>3
  <2>5. IF stage < Len(program)
        THEN stage' = stage + 1 /\ UNCHANGED <<rep, phase>>
        ELSE IF rep < Reps
             THEN rep' = rep + 1 /\ stage' = 1 /\ UNCHANGED phase
             ELSE phase' = "ran" /\ UNCHANGED <<rep, stage>>
    BY <1>3 DEF EndLoop
  <2>6. Abstract!NextLoop
    BY <2>0, <2>4, <2>5 DEF Abstract!NextLoop
  <2>. QED BY <2>6 DEF Abstract!Next
<1>4. CASE UpdateChecksum
  <2>1. Outcome' = Outcome
    BY <1>4 DEF UpdateChecksum, Outcome
  <2>. QED BY <1>4, <2>1 DEF UpdateChecksum, Abstract!UpdateChecksum, Abstract!Next
<1>5. CASE TearDown
  <2>1. Outcome' = Outcome
    BY <1>5 DEF TearDown, Outcome
  <2>. QED BY <1>5, <2>1 DEF TearDown, Abstract!TearDown, Abstract!Next
<1>6. CASE UNCHANGED vars
  <2>1. workers' = workers
    BY <1>6 DEF vars, workers
  <2>2. \A u : JobAt(u)' = JobAt(u)
    BY <1>6, <2>1 DEF JobAt, vars
  <2>3. Outcome' = Outcome
    <3>1. [u \in DOMAIN workers' |-> JobAt(u)'] = [u \in DOMAIN workers |-> JobAt(u)]
      BY <2>1, <2>2
    <3>2. phase' = phase /\ mem' = mem /\ rep' = rep
      BY <1>6 DEF vars
    <3>. QED BY <2>1, <3>1, <3>2, Zenon DEF Outcome
  <2>. QED BY <1>6, <2>3 DEF vars, Abstract!vars
<1>. QED BY <1>1, <1>2, <1>3, <1>4, <1>5, <1>6 DEF Next

LEMMA RefinementInit == Init => Abstract!Init
BY DEF Init, Abstract!Init, Outcome

LEMMA ReadsStep ==
  ASSUME KInv, [Next]_vars
  PROVE  \/ \A t \in team \cap team' : \A c \in At_(t).r : In(mem', c) = In(mem, c)
         \/ UNCHANGED vars
<1>1. CASE SetUp
  BY <1>1 DEF SetUp, KInv, PlaceInv
<1>2. CASE Execute
  <2>1. PICK u \in team : /\ mem' = Apply(mem, rep, At_(u))
                          /\ team' = (team \ {u}) \cup
                                (IF u[2] < Len(workers[u[1]]) THEN {<<u[1], u[2] + 1>>} ELSE {})
    BY <1>2 DEF Execute
  <2>2. /\ u[1] \in DOMAIN workers /\ u[2] \in DOMAIN workers[u[1]] /\ u[2] \in Nat
        /\ u = <<u[1], u[2]>>
    BY ProgramIs DEF KInv, TeamInv, IsLoop, IsList
  <2>3. ASSUME NEW t \in team \cap team', NEW c \in At_(t).r PROVE In(mem', c) = In(mem, c)
    <3>1. t # u
      <4>1. u # <<u[1], u[2] + 1>>
        <5>1. u[2] # u[2] + 1
          BY <2>2
        <5>. QED BY <5>1
      <4>. QED BY <4>1, <2>1
    <3>2. t[1] \in DOMAIN workers /\ t[2] \in DOMAIN workers[t[1]] /\ t[1] # u[1]
      BY <3>1 DEF KInv, TeamInv
    <3>3. IsLoop(workers) /\ RaceFree(workers) /\ AllFit(mem, workers)
      BY <1>2, ProgramIs, StaysInsideIs DEF Execute, KInv, MemoryInv
    <3>4. ~ Conflict(At_(t), At_(u))
      BY <2>2, <3>2, <3>3, NoConflict DEF At_
    <3>5. c \notin At_(u).w /\ c \notin At_(u).a
      BY <3>4, <2>3 DEF Conflict
    <3>6. Holds(mem, c)
      BY <2>3, <3>2, <3>3, Zenon DEF AllFit, Fits, Inside, At_
    <3>. QED BY <2>1, <3>5, <3>6, ApplyIs
  <2>. QED BY <2>3
<1>3. CASE Begin \/ EndLoop \/ UpdateChecksum \/ TearDown
  BY <1>3 DEF Begin, EndLoop, UpdateChecksum, TearDown
<1>. QED BY <1>1, <1>2, <1>3 DEF Next

-----------------------------------------------------------------------------
(* Theorems *)

(***************************************************************************)
(* Where no loop has a race and none leaves the memory, the invariant holds *)
(* for every catalogue, number of repetitions and bound on the schedules.    *)
(***************************************************************************)
THEOREM KernelInvariant == Spec /\ []NoRace /\ []AccessesAreValid => []KInv
<1>1. KInv /\ [Next]_vars /\ NoRace' /\ AccessesAreValid' => KInv'
  BY KInvNext
<1>. QED BY <1>1, KInvInit, PTL DEF Spec

(***************************************************************************)
(* Where no loop has a race and none leaves the memory, a parallel loop is   *)
(* one step that leaves what its workers leave one after the other: the      *)
(* order in which OpenMP threads, GPU blocks and threads run does not        *)
(* matter, nor do the bounds Together and Lead on it.                        *)
(***************************************************************************)
THEOREM OrderDoesNotMatter == Spec /\ []NoRace /\ []AccessesAreValid => ImplementsWholeLoops
<1>1. KInv /\ KInv' /\ [Next]_vars => [Abstract!Next]_(Abstract!vars)
  BY RefinementStep
<1>. QED BY <1>1, RefinementInit, KernelInvariant, PTL DEF Spec, ImplementsWholeLoops, Abstract!Spec

(***************************************************************************)
(* Under the same conditions no worker changes what another one, which is    *)
(* unfinished, is about to read.                                             *)
(***************************************************************************)
THEOREM ReadsAreSettled == Spec /\ []NoRace /\ []AccessesAreValid => ReadsKeepTheirValue
<1>1. KInv /\ [Next]_vars =>
         [\A t \in team \cap team' : \A c \in At_(t).r : In(mem', c) = In(mem, c)]_vars
  BY ReadsStep
<1>. QED BY <1>1, KernelInvariant, PTL DEF Spec, ReadsKeepTheirValue

-----------------------------------------------------------------------------
(* What can be told from the text of a kernel *)

\* No loop of the program conflicts with itself or leaves the arrays of setUp,
\* which initializes all of them; the checksum reads what was allocated, and
\* tearDown frees it.
WellWritten(d, prog) ==
  /\ \A s \in DOMAIN prog : /\ RaceFree(prog[s].workers)
                            /\ StaysInside(SetUpMemory(d), prog[s].workers)
  /\ d.raw = {} /\ d.locals = {}
  /\ \A x \in DOMAIN d.check : x \in DOMAIN d.heap /\ d.check[x] \in Nat /\ d.heap[x] \in Nat
                              /\ d.check[x] <= d.heap[x]
  /\ d.freed = DOMAIN d.heap

Written(m) == \A c : Holds(m, c) => In(m, c).by # <<"raw">>

TextInv ==
  /\ phase \in {"new", "run", "ran", "checked", "down"}
  /\ phase # "new" => Same(SetUpMemory(data), mem) /\ Written(mem)
  /\ phase \in {"run", "ran", "checked"} => live = DOMAIN data.heap
  /\ phase = "down" => live = DOMAIN data.heap \ data.freed

(* setUp writes every array it allocates. *)
LEMMA SetUpWrites ==
  ASSUME NEW d, d.raw = {}, d.locals = {}
  PROVE  /\ Written(SetUpMemory(d))
         /\ \A x, i : Holds(SetUpMemory(d), <<x, i>>) <=>
                \/ x \in DOMAIN d.heap /\ i \in 0 .. d.heap[x] - 1
                \/ x \notin DOMAIN d.heap /\ x \in d.members /\ i = 0
<1> DEFINE m == SetUpMemory(d)
           Indices(x) == IF x \in DOMAIN d.heap THEN 0 .. d.heap[x] - 1
                         ELSE IF x \in d.members THEN {0} ELSE {}
<1>1. m = [x \in DOMAIN d.heap \cup d.members |-> [i \in Indices(x) |-> Start]]
  <2>1. {c[1] : c \in d.locals} = {}
    OBVIOUS
  <2>2. \A x : {c[2] : c \in {k \in d.locals : k[1] = x}} = {}
    OBVIOUS
  <2>3. \A x, i : ~ (x \in d.raw \/ <<x, i>> \in d.locals)
    OBVIOUS
  <2>. QED BY <2>1, <2>2, <2>3 DEF SetUpMemory
<1>2. \A x, i : Holds(m, <<x, i>>) <=> x \in DOMAIN d.heap \cup d.members /\ i \in Indices(x)
  <2>. HIDE DEF Indices
  <2>. QED BY <1>1 DEF Holds
<1>3. \A c : Holds(m, c) => In(m, c) = Start
  <2>. HIDE DEF Indices
  <2>. QED BY <1>1 DEF Holds, In
<1>4. Start.by # <<"raw">>
  <2>1. "setUp" # "raw"
    OBVIOUS
  <2>. QED BY <2>1 DEF Start
<1>. QED BY <1>2, <1>3, <1>4 DEF Written

(* The text of the kernel tells what its runs do. *)
LEMMA TextInvInit == Init => TextInv
BY DEF Init, TextInv

LEMMA TextInvNext ==
  ASSUME \A p \in Chosen : WellWritten(Catalog[p[1]].data, Catalog[p[1]][p[2]]),
         PlaceInv, TextInv, [Next]_vars
  PROVE  TextInv'
<1>1. CASE SetUp
  <2>1. phase = "new" /\ phase' = "run" /\ live' = DOMAIN data.heap /\ data' = data /\ mem' = SetUpMemory(data)
    BY <1>1 DEF SetUp, data
  <2>2. PICK p \in Chosen : kernel = p[1] /\ variant = p[2]
    BY DEF PlaceInv
  <2>3. data.raw = {} /\ data.locals = {}
    BY <2>2 DEF WellWritten, data
  <2>4. Written(mem') /\ Same(SetUpMemory(data'), mem')
    BY <2>1, <2>3, SetUpWrites DEF Same
  <2>. QED BY <2>1, <2>4 DEF TextInv
<1>2. CASE Execute
  <2>1. phase = "run" /\ phase' = "run" /\ live' = live /\ data' = data
    BY <1>2 DEF Execute, data
  <2>2. PICK u \in team : mem' = Apply(mem, rep, At_(u))
    BY <1>2 DEF Execute
  <2>3. Same(SetUpMemory(data), mem) /\ Written(mem)
    BY <2>1 DEF TextInv
  <2>4. \A c : Holds(mem', c) <=> Holds(mem, c)
    BY <2>2, ApplyIs
  <2>5. ASSUME NEW c, Holds(mem, c) PROVE In(mem', c).by # <<"raw">>
    <3>1. CASE c \in At_(u).w
      <4>1. In(mem', c).by = <<rep, At_(u).id>>
        BY <3>1, <2>2, <2>5, ApplyIs
      <4>. QED BY <4>1
    <3>2. CASE c \in At_(u).a /\ c \notin At_(u).w
      <4>1. In(mem', c).by = In(mem, c).by
        BY <3>2, <2>2, <2>5, ApplyIs
      <4>. QED BY <4>1, <2>3, <2>5 DEF Written
    <3>3. CASE c \notin At_(u).a /\ c \notin At_(u).w
      <4>1. In(mem', c) = In(mem, c)
        BY <3>3, <2>2, <2>5, ApplyIs
      <4>. QED BY <4>1, <2>3, <2>5 DEF Written
    <3>. QED BY <3>1, <3>2, <3>3
  <2>6. Same(SetUpMemory(data), mem') /\ Written(mem')
    BY <2>3, <2>4, <2>5 DEF Same, Written
  <2>. QED BY <2>1, <2>6 DEF TextInv
<1>3. CASE Begin \/ EndLoop \/ UpdateChecksum \/ UNCHANGED vars
  <2>1. mem' = mem /\ live' = live /\ data' = data
    BY <1>3 DEF Begin, EndLoop, UpdateChecksum, vars, data
  <2>2. \/ phase' = phase
        \/ phase \in {"run", "ran"} /\ phase' \in {"ran", "checked"}
    BY <1>3 DEF Begin, EndLoop, UpdateChecksum, vars
  <2>. QED BY <2>1, <2>2 DEF TextInv
<1>4. CASE TearDown
  <2>1. mem' = mem /\ live' = live \ data.freed /\ data' = data /\ phase = "checked" /\ phase' = "down"
    BY <1>4 DEF TearDown, data
  <2>. QED BY <2>1 DEF TextInv
<1>. QED BY <1>1, <1>2, <1>3, <1>4 DEF Next

LEMMA TextShows ==
  ASSUME \A p \in Chosen : WellWritten(Catalog[p[1]].data, Catalog[p[1]][p[2]]),
         PlaceInv, TeamInv, TextInv
  PROVE  NoRace /\ AccessesAreValid /\ MemoryIsReturned
<1>1. WellWritten(data, program)
  BY DEF PlaceInv, data, program
<1>2. RaceFree(workers) /\ StaysInside(SetUpMemory(data), workers)
  BY <1>1 DEF PlaceInv, WellWritten, workers
<1>3. IsLoop(workers)
  BY ProgramIs
<1>4. phase # "new" => StaysInside(mem, workers)
  <2>1. AllFit(SetUpMemory(data), workers)
    BY <1>2, <1>3, StaysInsideIs
  <2>2. phase # "new" => AllFit(mem, workers)
    BY <2>1, FitsSame DEF TextInv, AllFit
  <2>. QED BY <2>2, <1>3, StaysInsideIs
<1>5. NoRace
  BY <1>2 DEF NoRace
<1>6. ASSUME NEW u \in team, NEW c \in At_(u).r \cup At_(u).a PROVE In(mem, c) # Raw
  <2>1. phase # "new" /\ u[1] \in DOMAIN workers /\ u[2] \in DOMAIN workers[u[1]]
    BY DEF PlaceInv, TeamInv
  <2>2. Holds(mem, c)
    BY <1>4, <1>6, <2>1 DEF StaysInside, At_
  <2>3. In(mem, c).by # <<"raw">>
    BY <2>1, <2>2 DEF TextInv, Written
  <2>. QED BY <2>3 DEF Raw
<1>7. ASSUME phase = "ran", NEW x \in DOMAIN data.check
      PROVE  /\ Allocated(x, data.check[x])
             /\ \A i \in 0 .. data.check[x] - 1 : mem[x][i] # Raw
  <2>1. /\ x \in DOMAIN data.heap /\ data.check[x] \in Nat /\ data.heap[x] \in Nat
        /\ data.check[x] <= data.heap[x]
        /\ data.raw = {} /\ data.locals = {}
    BY <1>1, <1>7 DEF WellWritten
  <2>2. Allocated(x, data.check[x])
    BY <2>1, <1>7 DEF Allocated, TextInv
  <2>3. ASSUME NEW i \in 0 .. data.check[x] - 1 PROVE mem[x][i] # Raw
    <3>1. i \in 0 .. data.heap[x] - 1
      BY <2>1
    <3>2. Holds(mem, <<x, i>>)
      BY <2>1, <3>1, <1>7, SetUpWrites DEF TextInv, Same
    <3>3. In(mem, <<x, i>>).by # <<"raw">> /\ In(mem, <<x, i>>) = mem[x][i]
      BY <3>2, <1>7 DEF TextInv, Written, In
    <3>. QED BY <3>3 DEF Raw
  <2>. QED BY <2>2, <2>3
<1>8. AccessesAreValid
  BY <1>4, <1>6, <1>7 DEF AccessesAreValid, Starting
<1>9. MemoryIsReturned
  BY <1>1 DEF MemoryIsReturned, TextInv, WellWritten
<1>. QED BY <1>5, <1>8, <1>9

(***************************************************************************)
(* A kernel whose loops do not conflict and stay inside the arrays that     *)
(* setUp allocates and initializes has, in every schedule, no race, no      *)
(* access to memory that is not its own or was never written, and returns   *)
(* its memory: what is to be checked of such a kernel is its text.          *)
(***************************************************************************)
THEOREM TextIsEnough ==
  ASSUME \A p \in Chosen : WellWritten(Catalog[p[1]].data, Catalog[p[1]][p[2]])
  PROVE  /\ Spec => [](NoRace /\ AccessesAreValid /\ MemoryIsReturned)
         /\ Spec => ImplementsWholeLoops
<1>1. Init => PlaceInv /\ TeamInv /\ TextInv
  BY KInvInit, TextInvInit DEF KInv
<1>2. PlaceInv /\ TeamInv /\ TextInv /\ [Next]_vars => (PlaceInv /\ TeamInv /\ TextInv)'
  BY PlaceInvNext, TextInvNext
<1>3. PlaceInv /\ TeamInv /\ TextInv => NoRace /\ AccessesAreValid /\ MemoryIsReturned
  BY TextShows
<1>4. Spec => [](NoRace /\ AccessesAreValid /\ MemoryIsReturned)
  BY <1>1, <1>2, <1>3, PTL DEF Spec
<1>. QED BY <1>4, OrderDoesNotMatter, PTL
=============================================================================
