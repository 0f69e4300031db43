------------------------- MODULE HaloTopologyProofs -------------------------
(***************************************************************************)
(* Proofs about MpiDivision for every number of ranks: factorize finds       *)
(* primes in non-decreasing order, and the grid that set_division makes of   *)
(* them is relatively square; and about HaloTopology in the states MCSpec    *)
(* reaches. Its bounds MaxSize, MaxGiven, MaxVaried, MaxCells and MaxWidth   *)
(* are any numbers here, so that these states have every division of the     *)
(* ranks with every grid and every halo width that fits the grid.            *)
(***************************************************************************)
EXTENDS MCHaloTopology, SequenceTheorems, FiniteSetTheorems, TLAPS

USE MpiDivisionAssumption

Positive == Nat \ {0}

-----------------------------------------------------------------------------
(* Arithmetic *)

LEMMA QuotientOfDivisor ==
  ASSUME NEW a \in Positive, NEW b \in Positive, Divides(a, b)
  PROVE  b \div a \in Positive /\ b = a * (b \div a)
BY DEF Divides, Positive

LEMMA MultipleIsDivided ==
  ASSUME NEW a \in Positive, NEW k \in Positive
  PROVE  Divides(a, a * k)
BY DEF Divides, Positive

(* What divides a divisor of a number divides the number.                    *)
LEMMA DividesIsTransitive ==
  ASSUME NEW a \in Positive, NEW b \in Positive, NEW c \in Positive,
         Divides(a, b), Divides(b, c)
  PROVE  Divides(a, c)
<1>1. PICK m \in Positive : b = a * m
  BY QuotientOfDivisor
<1>2. PICK k \in Positive : c = b * k
  BY QuotientOfDivisor
<1>3. m * k \in Positive /\ c = a * (m * k)
  BY <1>1, <1>2 DEF Positive
<1>. QED BY <1>3, MultipleIsDivided

LEMMA ProductsGrow ==
  ASSUME NEW a \in Positive, NEW b \in Positive, NEW c \in Positive, a <= b
  PROVE  a * c <= b * c /\ c * a <= c * b /\ a * c \in Positive /\ a <= a * c
BY DEF Positive

LEMMA SquareStep ==
  ASSUME NEW m \in Positive, NEW d \in Positive, NEW e \in Positive, NEW f \in Positive,
         m <= e, d <= m * f
  PROVE  d <= e * f /\ d <= (m * f) * f /\ m * f <= e * f /\ m * f <= (m * f) * f
<1>1. m * f <= e * f /\ m * f \in Positive /\ e * f \in Positive
  BY DEF Positive
<1>2. m * f <= (m * f) * f /\ (m * f) * f \in Positive
  BY <1>1 DEF Positive
<1>. QED BY <1>1, <1>2 DEF Positive

-----------------------------------------------------------------------------
(* The invariant *)

TypeInv ==
  /\ mpi_size \in Positive /\ pc \in {"factorize", "divide"}
  /\ number \in Positive /\ factor \in Positive /\ factor > 1
  /\ prime_factors \in Seq(Positive)
  /\ used \in 0 .. Len(prime_factors)
  /\ pc = "factorize" => used = 0
  /\ pc = "divide" => division \in [Axis -> Positive]

(* While factors are looked for: what was found is not above what is left to *)
(* try or to divide, and nothing below the factor divides what is left.      *)
TrialInv ==
  pc = "factorize" =>
    /\ \A j \in DOMAIN prime_factors : prime_factors[j] <= factor /\ prime_factors[j] <= number
    /\ \A d \in 2 .. factor - 1 : ~Divides(d, number)
    /\ IF mpi_size = 1 THEN number = 1 /\ prime_factors = <<>> ELSE number > 1

(* The grid starts as a cube.                                                *)
CubeInv == pc = "divide" /\ used = 0 /\ prime_factors # <<>> => division = [d \in Axis |-> 1]

IInv == TypeInv /\ TrialInv /\ CubeInv /\ FactorsAreOrderedPrimes /\ GridIsRelativelySquare

LEMMA InitIsFine == Init => IInv
<1>. SUFFICES ASSUME Init PROVE IInv
  OBVIOUS
<1>1. TypeInv
  BY DEF Init, TypeInv, Unset, Axis, Positive
<1>2. TrialInv
  BY DEF Init, TrialInv
<1>3. FactorsAreOrderedPrimes
  BY DEF Init, FactorsAreOrderedPrimes
<1>4. CubeInv /\ GridIsRelativelySquare
  BY DEF Init, CubeInv, GridIsRelativelySquare
<1>. QED BY <1>1, <1>2, <1>3, <1>4 DEF IInv

(* What trial division appends is the next factor in order.                  *)
LEMMA OrderIsKept ==
  ASSUME FactorsAreOrderedPrimes, NEW f \in Positive, prime_factors \in Seq(Positive),
         IF mpi_size = 1 THEN f = 1 /\ prime_factors = <<>> ELSE IsPrime(f),
         \A j \in DOMAIN prime_factors : prime_factors[j] <= f,
         prime_factors' = Append(prime_factors, f), mpi_size' = mpi_size
  PROVE  FactorsAreOrderedPrimes'
<1>. DEFINE n == Len(prime_factors)
<1>1. /\ n \in Nat /\ Len(prime_factors') = n + 1
      /\ DOMAIN prime_factors = 1 .. n /\ DOMAIN prime_factors' = 1 .. n + 1
      /\ \A j \in 1 .. n : prime_factors'[j] = prime_factors[j]
      /\ prime_factors'[n + 1] = f
  OBVIOUS
<1>2. \A j \in 1 .. n + 1 :
        IsPrime(prime_factors'[j]) \/ (mpi_size = 1 /\ prime_factors' = <<1>>)
  <2>1. CASE mpi_size = 1
    BY <2>1
  <2>2. CASE mpi_size # 1
    BY <1>1, <2>2 DEF FactorsAreOrderedPrimes
  <2>. QED BY <2>1, <2>2
<1>3. \A j \in 1 .. n : prime_factors'[j] <= prime_factors'[j + 1]
  <2>. SUFFICES ASSUME NEW j \in 1 .. n PROVE prime_factors'[j] <= prime_factors'[j + 1]
    OBVIOUS
  <2>1. CASE j = n
    BY <1>1, <2>1
  <2>2. CASE j # n
    <3>1. n \in Nat
      OBVIOUS
    <3>2. j \in 1 .. n - 1 /\ j + 1 \in 1 .. n
      BY <2>2, <3>1
    <3>. QED BY <1>1, <3>2 DEF FactorsAreOrderedPrimes
  <2>. QED BY <2>1, <2>2
<1>. QED BY <1>1, <1>2, <1>3 DEF FactorsAreOrderedPrimes

-----------------------------------------------------------------------------
(* The steps *)

LEMMA DivideKeeps == ASSUME IInv, Divide PROVE IInv'
<1>. DEFINE pf == prime_factors
<1>1. /\ number \in Positive /\ factor \in Positive /\ factor > 1 /\ pf \in Seq(Positive)
      /\ pc = "factorize" /\ factor * factor <= number /\ Divides(factor, number)
  BY DEF IInv, TypeInv, Divide, MayDivide
<1>2. /\ number' = number \div factor /\ number' \in Positive
      /\ number = factor * number'
  BY <1>1, QuotientOfDivisor DEF Divide
<1>3. factor <= number'
  BY <1>1, <1>2 DEF Positive
<1>4. mpi_size # 1 /\ number > 1
  BY <1>1 DEF IInv, TrialInv, Positive
<1>5. \A d \in 2 .. factor - 1 : ~Divides(d, number)
  BY <1>1 DEF IInv, TrialInv
<1>6. IsPrime(factor)
  <2>. SUFFICES ASSUME NEW d \in 2 .. factor - 1, Divides(d, factor) PROVE FALSE
    BY <1>1 DEF IsPrime
  <2>1. d \in Positive
    BY DEF Positive
  <2>. QED BY <1>1, <1>5, <2>1, DividesIsTransitive
<1>7. TypeInv'
  <2>1. Append(pf, factor) \in Seq(Positive) /\ Len(Append(pf, factor)) = Len(pf) + 1 /\ Len(pf) \in Nat
    BY <1>1
  <2>. QED BY <1>1, <1>2, <2>1 DEF IInv, TypeInv, Divide
<1>8. FactorsAreOrderedPrimes'
  BY <1>1, <1>4, <1>6, OrderIsKept DEF IInv, TrialInv, Divide
<1>9. TrialInv'
  <2>1. \A d \in 2 .. factor - 1 : ~Divides(d, number')
    <3>. SUFFICES ASSUME NEW d \in 2 .. factor - 1, Divides(d, number') PROVE FALSE
      OBVIOUS
    <3>1. d \in Positive
      BY DEF Positive
    <3>2. number = number' * factor
      BY <1>1, <1>2 DEF Positive
    <3>3. Divides(number', number)
      BY <1>1, <1>2, <3>2, MultipleIsDivided
    <3>. QED BY <1>1, <1>2, <1>5, <3>1, <3>3, DividesIsTransitive
  <2>2. \A j \in DOMAIN pf : pf[j] <= factor
    BY <1>1 DEF IInv, TrialInv
  <2>3. \A j \in DOMAIN pf' : pf'[j] <= factor
    BY <1>1, <2>2 DEF Divide, Positive
  <2>4. \A j \in DOMAIN pf' : pf'[j] \in Positive
    BY <1>7 DEF TypeInv
  <2>5. \A j \in DOMAIN pf' : pf'[j] <= number'
    BY <1>1, <1>2, <1>3, <2>3, <2>4 DEF Positive
  <2>6. number' > 1
    BY <1>1, <1>2, <1>3 DEF Positive
  <2>. QED BY <1>4, <2>1, <2>3, <2>5, <2>6 DEF TrialInv, Divide
<1>10. CubeInv' /\ GridIsRelativelySquare'
  BY <1>1 DEF IInv, TypeInv, Divide, CubeInv, GridIsRelativelySquare
<1>. QED BY <1>7, <1>8, <1>9, <1>10 DEF IInv

LEMMA NextFactorKeeps == ASSUME IInv, NextFactor PROVE IInv'
<1>1. /\ number \in Positive /\ factor \in Positive /\ factor > 1
      /\ prime_factors \in Seq(Positive) /\ pc = "factorize" /\ ~Divides(factor, number)
  BY DEF IInv, TypeInv, NextFactor
<1>2. TypeInv'
  BY <1>1 DEF IInv, TypeInv, NextFactor, Positive
<1>3. TrialInv'
  <2>1. \A d \in 2 .. factor' - 1 : ~Divides(d, number)
    <3>1. \A d \in 2 .. factor' - 1 : d \in 2 .. factor - 1 \/ d = factor
      BY <1>1 DEF NextFactor, Positive
    <3>. QED BY <1>1, <3>1 DEF IInv, TrialInv
  <2>2. \A j \in DOMAIN prime_factors : prime_factors[j] \in Positive /\ prime_factors[j] <= factor'
    BY <1>1 DEF IInv, TrialInv, NextFactor, Positive
  <2>. QED BY <1>1, <2>1, <2>2 DEF IInv, TrialInv, NextFactor, Divides
<1>4. (CubeInv /\ FactorsAreOrderedPrimes /\ GridIsRelativelySquare)'
  BY DEF IInv, NextFactor, CubeInv, FactorsAreOrderedPrimes, GridIsRelativelySquare
<1>. QED BY <1>2, <1>3, <1>4 DEF IInv

(* What remains when the factor is above the square root is a prime: one of  *)
(* two divisors of it would be below the factor.                             *)
LEMMA RemainderIsPrime ==
  ASSUME IInv, pc = "factorize", ~MayDivide, number > 1
  PROVE  IsPrime(number)
<1>1. /\ number \in Positive /\ factor \in Positive
      /\ factor * factor > number
  BY DEF IInv, TypeInv, MayDivide, Positive
<1>2. \A d \in 2 .. factor - 1 : ~Divides(d, number)
  BY DEF IInv, TrialInv
<1>3. SUFFICES ASSUME NEW d \in 2 .. number - 1, Divides(d, number) PROVE FALSE
  BY DEF IsPrime
<1>4. d \in Positive
  BY DEF Positive
<1>5. PICK k \in Positive : number = d * k
  BY <1>1, <1>3, <1>4, QuotientOfDivisor
<1>6. d >= factor
  BY <1>1, <1>2, <1>3, <1>4 DEF Positive
<1>7. k < factor
  <2>. SUFFICES ASSUME k >= factor PROVE FALSE
    BY <1>1, <1>5 DEF Positive
  <2>1. factor * factor <= d * factor /\ d * factor <= d * k
    BY <1>1, <1>4, <1>5, <1>6, ProductsGrow
  <2>. QED BY <1>1, <1>4, <1>5, <2>1 DEF Positive
<1>8. k > 1
  BY <1>3, <1>4, <1>5 DEF Positive
<1>9. Divides(k, number)
  <2>1. number = k * d
    BY <1>4, <1>5 DEF Positive
  <2>. QED BY <1>4, <1>5, <2>1, MultipleIsDivided
<1>. QED BY <1>1, <1>2, <1>5, <1>7, <1>8, <1>9 DEF Positive

LEMMA EndFactorizeKeeps == ASSUME IInv, EndFactorize PROVE IInv'
<1>1. /\ number \in Positive /\ prime_factors \in Seq(Positive)
      /\ pc = "factorize" /\ ~MayDivide /\ used = 0
      /\ prime_factors' = Append(prime_factors, number)
  BY DEF IInv, TypeInv, EndFactorize, WithRemainder
<1>2. TypeInv'
  <2>1. Append(prime_factors, number) \in Seq(Positive) /\ Len(prime_factors') \in Nat
    BY <1>1
  <2>2. [d \in Axis |-> 1] \in [Axis -> Positive]
    BY DEF Positive
  <2>. QED BY <1>1, <2>1, <2>2 DEF IInv, TypeInv, EndFactorize
<1>3. TrialInv'
  BY DEF TrialInv, EndFactorize
<1>4. FactorsAreOrderedPrimes'
  <2>1. IF mpi_size = 1 THEN number = 1 /\ prime_factors = <<>> ELSE IsPrime(number)
    BY <1>1, RemainderIsPrime DEF IInv, TrialInv
  <2>2. \A j \in DOMAIN prime_factors : prime_factors[j] <= number
    BY <1>1 DEF IInv, TrialInv
  <2>. QED BY <1>1, <2>1, <2>2, OrderIsKept DEF IInv, EndFactorize
<1>5. CubeInv' /\ GridIsRelativelySquare'
  BY <1>1 DEF EndFactorize, CubeInv, GridIsRelativelySquare
<1>. QED BY <1>2, <1>3, <1>4, <1>5 DEF IInv

(* A shortest dimension grows by the factor.                                 *)
LEMMA ShortestExists ==
  ASSUME division \in [Axis -> Positive]
  PROVE  min_d \in Axis /\ \A e \in Axis : division[min_d] <= division[e]
<1>1. \E d \in Axis : IsShortest(d) /\ \A e \in Axis : IsShortest(e) => d <= e
  BY DEF Axis, IsShortest, Positive
<1>. QED BY <1>1 DEF min_d, FirstShortest, IsShortest

LEMMA UseFactorKeeps == ASSUME IInv, UseFactor PROVE IInv'
<1>. DEFINE f == prime_factors[used + 1]
<1>1. /\ pc = "divide" /\ used < Len(prime_factors) /\ used \in Nat
      /\ prime_factors \in Seq(Positive) /\ division \in [Axis -> Positive]
      /\ used' = used + 1 /\ prime_factors' = prime_factors
  BY DEF IInv, TypeInv, UseFactor
<1>2. f \in Positive
  BY <1>1
<1>3. min_d \in Axis /\ \A e \in Axis : division[min_d] <= division[e]
  BY <1>1, ShortestExists
<1>4. /\ division' = [division EXCEPT ![min_d] = @ * f]
      /\ division[min_d] * f \in Positive
  BY <1>1, <1>2, <1>3, ProductsGrow DEF UseFactor
<1>5. TypeInv'
  <2>1. division' \in [Axis -> Positive]
    BY <1>1, <1>4
  <2>2. used' \in 0 .. Len(prime_factors')
    BY <1>1
  <2>. QED BY <1>1, <2>1, <2>2 DEF IInv, TypeInv, UseFactor
<1>6. (TrialInv /\ CubeInv /\ FactorsAreOrderedPrimes)'
  BY <1>1 DEF IInv, TrialInv, CubeInv, FactorsAreOrderedPrimes, UseFactor
<1>7. GridIsRelativelySquare'
  <2>. SUFFICES ASSUME NEW d \in Axis, NEW e \in Axis
                PROVE  division'[d] <= division'[e] * f
    BY <1>1 DEF GridIsRelativelySquare
  <2>1. \A a \in Axis : /\ division[a] \in Positive
                       /\ division'[a] = IF a = min_d THEN division[a] * f ELSE division[a]
    BY <1>1, <1>4
  <2>2. \A a \in Axis : division[a] <= division[min_d] * f
    <3>. SUFFICES ASSUME NEW a \in Axis PROVE division[a] <= division[min_d] * f
      OBVIOUS
    <3>1. CASE used = 0
      <4>1. division[a] = 1 /\ division[min_d] = 1
        BY <1>1, <1>3, <3>1 DEF IInv, CubeInv
      <4>. QED BY <1>2, <4>1 DEF Positive
    <3>2. CASE used > 0
      <4>. DEFINE g == prime_factors[used]
      <4>1. used \in 1 .. Len(prime_factors) - 1
        BY <1>1, <3>2
      <4>2. g \in Positive /\ g <= f
        BY <1>1, <4>1 DEF IInv, FactorsAreOrderedPrimes
      <4>3. division[a] <= division[min_d] * g
        BY <1>3, <3>2 DEF IInv, GridIsRelativelySquare
      <4>4. division[a] \in Positive /\ division[min_d] \in Positive
        BY <1>3, <2>1
      <4>5. division[min_d] * g <= division[min_d] * f
        BY <1>2, <4>2, <4>4, ProductsGrow
      <4>. QED BY <1>2, <4>2, <4>3, <4>4, <4>5 DEF Positive
    <3>. QED BY <1>1, <3>1, <3>2
  <2>3. division[min_d] \in Positive /\ division[e] \in Positive /\ division[d] \in Positive
    BY <1>3, <2>1
  <2>4. division[min_d] <= division[e] /\ division[d] <= division[min_d] * f
    BY <1>3, <2>2
  <2>5. PICK m \in Positive, x \in Positive, y \in Positive, z \in Positive :
          m = division[min_d] /\ x = division[d] /\ y = division[e] /\ z = f
    BY <1>2, <2>3
  <2>6. x <= y * z /\ x <= (m * z) * z /\ m * z <= y * z /\ m * z <= (m * z) * z
    BY <2>4, <2>5, SquareStep
  <2>7. /\ division'[d] = IF d = min_d THEN m * z ELSE x
        /\ division'[e] = IF e = min_d THEN m * z ELSE y
    BY <2>1, <2>5
  <2>. QED BY <2>5, <2>6, <2>7
<1>. QED BY <1>5, <1>6, <1>7 DEF IInv

-----------------------------------------------------------------------------
(* The products of the first factors lead from 1 to the number of ranks, and *)
(* the volume of the grid is the one of the factors used.                    *)
AreProducts(P, pf) ==
  /\ P \in [0 .. Len(pf) -> Positive]
  /\ P[0] = 1
  /\ \A i \in 0 .. Len(pf) - 1 : P[i + 1] = P[i] * pf[i + 1]

GridVolume == division[1] * division[2] * division[3]
ProductInv ==
  \E P :
    /\ AreProducts(P, prime_factors)
    /\ pc = "factorize" => P[Len(prime_factors)] * number = mpi_size
    /\ pc = "divide" /\ prime_factors # <<>> =>
         P[Len(prime_factors)] = mpi_size /\ GridVolume = P[used]

LEMMA ProductsOfNone == Init => ProductInv
<1>. SUFFICES ASSUME Init PROVE ProductInv
  OBVIOUS
<1>. DEFINE P == [i \in 0 .. 0 |-> 1]
<1>1. AreProducts(P, prime_factors) /\ P[Len(prime_factors)] = 1 /\ prime_factors = <<>>
  BY DEF Init, AreProducts, Positive
<1>2. number = mpi_size /\ number \in Nat
  BY DEF Init
<1>. QED BY <1>1, <1>2 DEF ProductInv

LEMMA OneMoreProduct ==
  ASSUME NEW pf \in Seq(Positive), NEW f \in Positive, NEW P, AreProducts(P, pf)
  PROVE  \E Q : /\ AreProducts(Q, Append(pf, f))
                /\ Q[Len(pf) + 1] = P[Len(pf)] * f
                /\ Q[0] = 1
<1>. DEFINE n == Len(pf)
            Q == [i \in 0 .. n + 1 |-> IF i = n + 1 THEN P[n] * f ELSE P[i]]
<1>1. /\ n \in Nat /\ Len(Append(pf, f)) = n + 1 /\ Append(pf, f)[n + 1] = f
      /\ \A i \in 1 .. n : Append(pf, f)[i] = pf[i]
  OBVIOUS
<1>2. P \in [0 .. n -> Positive] /\ P[n] \in Positive
  BY <1>1 DEF AreProducts
<1>3. P[n] * f \in Positive
  BY <1>2 DEF Positive
<1>4. Q \in [0 .. n + 1 -> Positive]
  BY <1>1, <1>2, <1>3
<1>5. Q[0] = 1 /\ Q[n + 1] = P[n] * f
  BY <1>1 DEF AreProducts
<1>6. ASSUME NEW i \in 0 .. n PROVE Q[i + 1] = Q[i] * Append(pf, f)[i + 1]
  <2>1. CASE i = n
    BY <1>1, <2>1
  <2>2. CASE i # n
    <3>1. i \in 0 .. n - 1 /\ i + 1 \in 1 .. n /\ i + 1 \in 0 .. n + 1 /\ i + 1 # n + 1
      BY <1>1, <2>2
    <3>2. P[i + 1] = P[i] * pf[i + 1]
      BY <3>1 DEF AreProducts
    <3>. QED BY <1>1, <2>2, <3>1, <3>2
  <2>. QED BY <2>1, <2>2
<1>7. AreProducts(Q, Append(pf, f))
  BY <1>1, <1>4, <1>5, <1>6 DEF AreProducts
<1>. QED BY <1>5, <1>7

LEMMA ProductsKept == ASSUME IInv, ProductInv, [Next]_vars PROVE ProductInv'
<1>0. PICK P : /\ AreProducts(P, prime_factors)
               /\ pc = "factorize" => P[Len(prime_factors)] * number = mpi_size
               /\ pc = "divide" /\ prime_factors # <<>> =>
                    P[Len(prime_factors)] = mpi_size /\ GridVolume = P[used]
  BY DEF ProductInv
<1>1. /\ number \in Positive /\ factor \in Positive /\ prime_factors \in Seq(Positive)
      /\ Len(prime_factors) \in Nat /\ used \in 0 .. Len(prime_factors)
      /\ P[Len(prime_factors)] \in Positive
  BY <1>0 DEF IInv, TypeInv, AreProducts
<1>2. CASE Divide
  <2>1. PICK Q : /\ AreProducts(Q, prime_factors')
                 /\ Q[Len(prime_factors) + 1] = P[Len(prime_factors)] * factor
    BY <1>0, <1>1, <1>2, OneMoreProduct DEF Divide
  <2>2. number' \in Positive /\ number = factor * number'
    BY <1>1, <1>2, QuotientOfDivisor DEF Divide
  <2>3. Len(prime_factors') = Len(prime_factors) + 1
    BY <1>1, <1>2 DEF Divide
  <2>4. P[Len(prime_factors)] * number = mpi_size
    BY <1>0, <1>2 DEF Divide
  <2>5. Q[Len(prime_factors')] * number' = mpi_size
    <3>1. \A a, b, c \in Positive : (a * b) * c = a * (b * c)
      BY DEF Positive
    <3>2. (P[Len(prime_factors)] * factor) * number' = P[Len(prime_factors)] * (factor * number')
      BY <1>1, <2>2, <3>1
    <3>. QED BY <2>1, <2>2, <2>3, <2>4, <3>2
  <2>6. pc' = "factorize" /\ mpi_size' = mpi_size
    BY <1>2 DEF Divide
  <2>. QED BY <2>1, <2>5, <2>6 DEF ProductInv
<1>3. CASE NextFactor
  BY <1>0, <1>3 DEF NextFactor, ProductInv
<1>4. CASE EndFactorize
  <2>1. PICK Q : /\ AreProducts(Q, prime_factors')
                 /\ Q[Len(prime_factors) + 1] = P[Len(prime_factors)] * number
                 /\ Q[0] = 1
    BY <1>0, <1>1, <1>4, OneMoreProduct DEF EndFactorize, WithRemainder
  <2>2. Len(prime_factors') = Len(prime_factors) + 1
    BY <1>1, <1>4 DEF EndFactorize, WithRemainder
  <2>3. P[Len(prime_factors)] * number = mpi_size
    BY <1>0, <1>4 DEF EndFactorize
  <2>4. used' = 0 /\ pc' = "divide" /\ mpi_size' = mpi_size /\ GridVolume' = 1
    BY <1>4 DEF IInv, TypeInv, EndFactorize, GridVolume, Axis
  <2>. QED BY <2>1, <2>2, <2>3, <2>4 DEF ProductInv
<1>5. CASE UseFactor
  <2>. DEFINE f == prime_factors[used + 1]
  <2>1. /\ used < Len(prime_factors) /\ pc = "divide" /\ used \in 0 .. Len(prime_factors) - 1
        /\ prime_factors # <<>> /\ division \in [Axis -> Positive]
    BY <1>1, <1>5 DEF UseFactor, IInv, TypeInv
  <2>2. f \in Positive /\ P[used + 1] = P[used] * f
    BY <1>0, <1>1, <2>1 DEF AreProducts
  <2>3. min_d \in {1, 2, 3}
    BY <2>1, ShortestExists DEF Axis
  <2>4. division[1] \in Positive /\ division[2] \in Positive /\ division[3] \in Positive
    BY <2>1 DEF Axis
  <2>5. \A a, b, c, g \in Positive : /\ (a * g) * b * c = (a * b * c) * g
                                    /\ a * (b * g) * c = (a * b * c) * g
                                    /\ a * b * (c * g) = (a * b * c) * g
    BY DEF Positive
  <2>6. GridVolume' = GridVolume * f
    BY <1>5, <2>1, <2>2, <2>3, <2>4, <2>5 DEF UseFactor, GridVolume, Axis
  <2>7. /\ used' = used + 1 /\ prime_factors' = prime_factors
        /\ pc' = "divide" /\ mpi_size' = mpi_size
    BY <1>5, <2>1 DEF UseFactor
  <2>. QED BY <1>0, <2>1, <2>2, <2>6, <2>7 DEF ProductInv
<1>6. CASE Finished \/ UNCHANGED vars
  <2>1. UNCHANGED vars
    BY <1>6 DEF Finished
  <2>. QED BY <1>0, <2>1 DEF vars, ProductInv, GridVolume
<1>. QED BY <1>2, <1>3, <1>4, <1>5, <1>6 DEF Next

-----------------------------------------------------------------------------
(* The theorems *)

LEMMA InductiveInvariant == Spec => [](IInv /\ ProductInv)
<1>1. ASSUME IInv, [Next]_vars PROVE IInv'
  <2>1. CASE Next
    BY <1>1, <2>1, DivideKeeps, NextFactorKeeps, EndFactorizeKeeps, UseFactorKeeps
    DEF Next, Finished, vars, IInv, TypeInv, TrialInv, CubeInv, FactorsAreOrderedPrimes,
        GridIsRelativelySquare
  <2>2. CASE UNCHANGED vars
    BY <1>1, <2>2 DEF vars, IInv, TypeInv, TrialInv, CubeInv, FactorsAreOrderedPrimes,
        GridIsRelativelySquare
  <2>. QED BY <1>1, <2>1, <2>2
<1>. QED BY InitIsFine, ProductsOfNone, ProductsKept, <1>1, PTL DEF Spec

(* factorize finds primes in non-decreasing order, as its comment says, for  *)
(* every number of ranks (RunParams.cpp:859-877).                            *)
THEOREM FactorsFound == Spec => []FactorsAreOrderedPrimes
<1>1. IInv => FactorsAreOrderedPrimes
  BY DEF IInv
<1>. QED BY <1>1, InductiveInvariant, PTL

(* While set_division puts the factors in, no dimension is longer than       *)
(* another one times the largest factor so far: "a relatively square grid",  *)
(* for every number of ranks (RunParams.cpp:879-898).                        *)
THEOREM DivisionIsRelativelySquare == Spec => []GridIsRelativelySquare
<1>1. IInv => GridIsRelativelySquare
  BY DEF IInv
<1>. QED BY <1>1, InductiveInvariant, PTL

(* The grid nobody asked for has as many places as there are ranks, so that  *)
(* the kernels that exchange halos are never skipped for it.                 *)
THEOREM DefaultGridIsValid == Spec => []GridHasAllRanks
<1>1. IInv /\ ProductInv => GridHasAllRanks
  BY DEF IInv, TypeInv, ProductInv, GridVolume, GridHasAllRanks, IsDone, IsDefault, validMPI3DDivision
<1>. QED BY <1>1, InductiveInvariant, PTL

-----------------------------------------------------------------------------
(* The neighbours of a rank *)

USE BoundsAssumption

Division == [Dim -> Positive]
Indices(dims) == {i \in [Dim -> Nat] : \A d \in Dim : i[d] < dims[d]}
Triples == Seq(Int)
Offsets == [Dim -> -1 .. 1]

-----------------------------------------------------------------------------
(* The table of the directions *)

LEMMA FacesTable ==
  /\ Faces \in Seq(Triples) /\ Len(Faces) = 6
  /\ Faces[1] = <<-1, 0, 0>> /\ Faces[2] = <<1, 0, 0>>
  /\ Faces[3] = <<0, -1, 0>> /\ Faces[4] = <<0, 1, 0>>
  /\ Faces[5] = <<0, 0, -1>> /\ Faces[6] = <<0, 0, 1>>
BY DEF Faces, Triples

LEMMA EdgesTable ==
  /\ Edges \in Seq(Triples) /\ Len(Edges) = 12
  /\ Edges[1] = <<-1, -1, 0>> /\ Edges[4] = <<1, 1, 0>>
  /\ Edges[2] = <<-1, 1, 0>> /\ Edges[3] = <<1, -1, 0>>
  /\ Edges[5] = <<-1, 0, -1>> /\ Edges[8] = <<1, 0, 1>>
  /\ Edges[6] = <<-1, 0, 1>> /\ Edges[7] = <<1, 0, -1>>
  /\ Edges[9] = <<0, -1, -1>> /\ Edges[12] = <<0, 1, 1>>
  /\ Edges[10] = <<0, -1, 1>> /\ Edges[11] = <<0, 1, -1>>
BY DEF Edges, Triples

LEMMA CornersTable ==
  /\ Corners \in Seq(Triples) /\ Len(Corners) = 8
  /\ Corners[1] = <<-1, -1, -1>> /\ Corners[8] = <<1, 1, 1>>
  /\ Corners[2] = <<-1, -1, 1>> /\ Corners[7] = <<1, 1, -1>>
  /\ Corners[3] = <<-1, 1, -1>> /\ Corners[6] = <<1, -1, 1>>
  /\ Corners[4] = <<-1, 1, 1>> /\ Corners[5] = <<1, -1, -1>>
BY DEF Corners, Triples

LEMMA Concat ==
  ASSUME NEW S, NEW s \in Seq(S), NEW t \in Seq(S)
  PROVE  /\ s \o t \in Seq(S) /\ Len(s \o t) = Len(s) + Len(t)
         /\ \A n \in 1 .. Len(s) : (s \o t)[n] = s[n]
         /\ \A n \in Len(s) + 1 .. Len(s) + Len(t) : (s \o t)[n] = t[n - Len(s)]
OBVIOUS

LEMMA FacesAndEdges ==
  /\ Faces \o Edges \in Seq(Triples) /\ Len(Faces \o Edges) = 18
  /\ \A n \in 1 .. 6 : (Faces \o Edges)[n] = Faces[n]
  /\ \A n \in 7 .. 18 : (Faces \o Edges)[n] = Edges[n - 6]
<1>1. /\ Faces \in Seq(Triples) /\ Len(Faces) = 6
      /\ Edges \in Seq(Triples) /\ Len(Edges) = 12
  BY FacesTable, EdgesTable
<1>2. 6 + 12 = 18 /\ 6 + 1 = 7
  OBVIOUS
<1>3. (Faces \o Edges) \in Seq(Triples) /\ Len(Faces \o Edges) = Len(Faces) + Len(Edges)
  BY <1>1, Concat
<1>4. \A i \in 1 .. Len(Faces) : (Faces \o Edges)[i] = Faces[i]
  BY <1>1, Concat
<1>5. \A i \in Len(Faces) + 1 .. Len(Faces) + Len(Edges) : (Faces \o Edges)[i] = Edges[i - Len(Faces)]
  BY <1>1, Concat
<1>6. \A i \in 1 .. 6 : (Faces \o Edges)[i] = Faces[i]
  BY <1>1, <1>4, Zenon
<1>7. \A i \in 7 .. 18 : (Faces \o Edges)[i] = Edges[i - 6]
  BY <1>1, <1>2, <1>5, Zenon
<1>8. Len(Faces \o Edges) = 18
  BY <1>1, <1>2, <1>3, Zenon
<1>. QED BY <1>3, <1>6, <1>7, <1>8

LEMMA AllOffsets ==
  /\ Len(s_boundary_offsets) = 26
  /\ \A n \in 1 .. 18 : s_boundary_offsets[n] = (Faces \o Edges)[n]
  /\ \A n \in 19 .. 26 : s_boundary_offsets[n] = Corners[n - 18]
<1>1. /\ Faces \o Edges \in Seq(Triples) /\ Len(Faces \o Edges) = 18
      /\ Corners \in Seq(Triples) /\ Len(Corners) = 8
  BY FacesAndEdges, CornersTable
<1>2. 18 + 8 = 26 /\ 18 + 1 = 19
  OBVIOUS
<1>. DEFINE FE == Faces \o Edges
<1>9. FE \in Seq(Triples) /\ Len(FE) = 18
  BY <1>1
<1>. HIDE DEF FE
<1>3. (FE \o Corners) \in Seq(Triples) /\ Len(FE \o Corners) = Len(FE) + Len(Corners)
  BY <1>1, <1>9, Concat
<1>4. \A i \in 1 .. Len(FE) : (FE \o Corners)[i] = FE[i]
  BY <1>1, <1>9, Concat
<1>5. \A i \in Len(FE) + 1 .. Len(FE) + Len(Corners) : (FE \o Corners)[i] = Corners[i - Len(FE)]
  BY <1>1, <1>9, Concat
<1>6. \A i \in 1 .. 18 : (FE \o Corners)[i] = FE[i]
  BY <1>1, <1>9, <1>4, Zenon
<1>7. \A i \in 19 .. 26 : (FE \o Corners)[i] = Corners[i - 18]
  BY <1>1, <1>9, <1>2, <1>5, Zenon
<1>8. Len(FE \o Corners) = 26
  BY <1>1, <1>9, <1>2, <1>3, Zenon
<1>. QED BY <1>6, <1>7, <1>8, Zenon DEF s_boundary_offsets, FE

LEMMA Directions ==
  /\ Dir = 0 .. 25
  /\ \A l \in 0 .. 5 : Offset(l) = Faces[l + 1]
  /\ \A l \in 6 .. 17 : Offset(l) = Edges[l - 5]
  /\ \A l \in 18 .. 25 : Offset(l) = Corners[l - 17]
<1>1. Dir = 0 .. 25
  BY AllOffsets DEF Dir, s_num_neighbors
<1>2. ASSUME NEW l \in 0 .. 5 PROVE Offset(l) = Faces[l + 1]
  <2>1. l + 1 \in 1 .. 6 /\ l + 1 \in 1 .. 18
    OBVIOUS
  <2>. QED BY <2>1, FacesAndEdges, AllOffsets, Zenon DEF Offset
<1>3. ASSUME NEW l \in 6 .. 17 PROVE Offset(l) = Edges[l - 5]
  <2>1. l + 1 \in 7 .. 18 /\ l + 1 \in 1 .. 18 /\ (l + 1) - 6 = l - 5
    OBVIOUS
  <2>. QED BY <2>1, FacesAndEdges, AllOffsets, Zenon DEF Offset
<1>4. ASSUME NEW l \in 18 .. 25 PROVE Offset(l) = Corners[l - 17]
  <2>1. l + 1 \in 19 .. 26 /\ (l + 1) - 18 = l - 17
    OBVIOUS
  <2>. QED BY <2>1, AllOffsets, Zenon DEF Offset
<1>. QED BY <1>1, <1>2, <1>3, <1>4

LEMMA OffsetTable ==
  /\ Offset(0) = <<-1, 0, 0>> /\ Offset(1) = <<1, 0, 0>>
  /\ Offset(2) = <<0, -1, 0>> /\ Offset(3) = <<0, 1, 0>>
  /\ Offset(4) = <<0, 0, -1>> /\ Offset(5) = <<0, 0, 1>>
  /\ Offset(6) = <<-1, -1, 0>> /\ Offset(7) = <<-1, 1, 0>>
  /\ Offset(8) = <<1, -1, 0>> /\ Offset(9) = <<1, 1, 0>>
  /\ Offset(10) = <<-1, 0, -1>> /\ Offset(11) = <<-1, 0, 1>>
  /\ Offset(12) = <<1, 0, -1>> /\ Offset(13) = <<1, 0, 1>>
  /\ Offset(14) = <<0, -1, -1>> /\ Offset(15) = <<0, -1, 1>>
  /\ Offset(16) = <<0, 1, -1>> /\ Offset(17) = <<0, 1, 1>>
  /\ Offset(18) = <<-1, -1, -1>> /\ Offset(19) = <<-1, -1, 1>>
  /\ Offset(20) = <<-1, 1, -1>> /\ Offset(21) = <<-1, 1, 1>>
  /\ Offset(22) = <<1, -1, -1>> /\ Offset(23) = <<1, -1, 1>>
  /\ Offset(24) = <<1, 1, -1>> /\ Offset(25) = <<1, 1, 1>>
<1>1. Offset(0) = Faces[1] /\ Offset(1) = Faces[2] /\ Offset(2) = Faces[3]
      /\ Offset(3) = Faces[4] /\ Offset(4) = Faces[5] /\ Offset(5) = Faces[6]
  BY Directions
<1>2. /\ Offset(6) = Edges[1] /\ Offset(7) = Edges[2] /\ Offset(8) = Edges[3]
      /\ Offset(9) = Edges[4] /\ Offset(10) = Edges[5] /\ Offset(11) = Edges[6]
      /\ Offset(12) = Edges[7] /\ Offset(13) = Edges[8] /\ Offset(14) = Edges[9]
      /\ Offset(15) = Edges[10] /\ Offset(16) = Edges[11] /\ Offset(17) = Edges[12]
  BY Directions
<1>3. /\ Offset(18) = Corners[1] /\ Offset(19) = Corners[2] /\ Offset(20) = Corners[3]
      /\ Offset(21) = Corners[4] /\ Offset(22) = Corners[5] /\ Offset(23) = Corners[6]
      /\ Offset(24) = Corners[7] /\ Offset(25) = Corners[8]
  BY Directions
<1>. QED BY <1>1, <1>2, <1>3, FacesTable, EdgesTable, CornersTable, Zenon

(* The directions in which each component of the offset is -1, 0 and 1.      *)
LEMMA Components ==
  \A l \in 0 .. 25 :
    /\ Offset(l)[1] = IF l \in {0, 6, 7, 10, 11, 18, 19, 20, 21} THEN -1
                     ELSE IF l \in {1, 8, 9, 12, 13, 22, 23, 24, 25} THEN 1 ELSE 0
    /\ Offset(l)[2] = IF l \in {2, 6, 8, 14, 15, 18, 19, 22, 23} THEN -1
                     ELSE IF l \in {3, 7, 9, 16, 17, 20, 21, 24, 25} THEN 1 ELSE 0
    /\ Offset(l)[3] = IF l \in {4, 10, 12, 14, 16, 18, 20, 22, 24} THEN -1
                     ELSE IF l \in {5, 11, 13, 15, 17, 19, 21, 23, 25} THEN 1 ELSE 0
<1>1. \A x, y, z \in Int : <<x, y, z>>[1] = x /\ <<x, y, z>>[2] = y /\ <<x, y, z>>[3] = z
  OBVIOUS
<1>2. \A l \in 0 .. 25 : l \in {0, 1, 2, 3, 4, 5, 6, 7, 8, 9, 10, 11, 12, 13, 14, 15, 16, 17, 18, 19, 20, 21, 22, 23, 24, 25}
  OBVIOUS
<1>. QED BY <1>1, <1>2, OffsetTable

(* Each direction has one with the negated offset.                           *)
OppositeOf(l) ==
  IF l <= 5 THEN IF l % 2 = 0 THEN l + 1 ELSE l - 1
  ELSE IF l <= 9 THEN 15 - l ELSE IF l <= 13 THEN 23 - l ELSE IF l <= 17 THEN 31 - l ELSE 43 - l

LEMMA OppositesNegate ==
  ASSUME NEW l \in 0 .. 25
  PROVE  /\ OppositeOf(l) \in 0 .. 25
         /\ Offset(OppositeOf(l))[1] = -Offset(l)[1]
         /\ Offset(OppositeOf(l))[2] = -Offset(l)[2]
         /\ Offset(OppositeOf(l))[3] = -Offset(l)[3]
<1>1. OppositeOf(l) \in 0 .. 25
  BY DEF OppositeOf
<1>2. l \in {0, 1, 2, 3, 4, 5, 6, 7, 8, 9, 10, 11, 12, 13, 14, 15, 16, 17, 18, 19, 20, 21, 22, 23, 24, 25}
  OBVIOUS
<1>3. /\ OppositeOf(0) = 1 /\ OppositeOf(1) = 0 /\ OppositeOf(2) = 3
      /\ OppositeOf(3) = 2 /\ OppositeOf(4) = 5 /\ OppositeOf(5) = 4
      /\ OppositeOf(6) = 9 /\ OppositeOf(7) = 8 /\ OppositeOf(8) = 7
      /\ OppositeOf(9) = 6 /\ OppositeOf(10) = 13 /\ OppositeOf(11) = 12
      /\ OppositeOf(12) = 11 /\ OppositeOf(13) = 10 /\ OppositeOf(14) = 17
      /\ OppositeOf(15) = 16 /\ OppositeOf(16) = 15 /\ OppositeOf(17) = 14
      /\ OppositeOf(18) = 25 /\ OppositeOf(19) = 24 /\ OppositeOf(20) = 23
      /\ OppositeOf(21) = 22 /\ OppositeOf(22) = 21 /\ OppositeOf(23) = 20
      /\ OppositeOf(24) = 19 /\ OppositeOf(25) = 18
  BY DEF OppositeOf
<1>. QED BY <1>1, <1>2, <1>3, Components

LEMMA OffsetsAreSmall ==
  ASSUME NEW l \in 0 .. 25, NEW d \in Dim
  PROVE  Offset(l)[d] \in -1 .. 1 /\ (-Offset(l)[d]) \in -1 .. 1
BY Components DEF Dim

(* The positions of two offsets are equal only if the offsets are.           *)
LEMMA PositionsAreDistinct ==
  ASSUME NEW a \in -1 .. 1, NEW b \in -1 .. 1, NEW c \in -1 .. 1,
         NEW x \in -1 .. 1, NEW y \in -1 .. 1, NEW z \in -1 .. 1,
         (a + 1) + 3 * (b + 1) + 9 * (c + 1) = (x + 1) + 3 * (y + 1) + 9 * (z + 1)
  PROVE  a = x /\ b = y /\ c = z
OBVIOUS

LEMMA OffsetsAreDistinct ==
  ASSUME NEW l \in 0 .. 25, NEW m \in 0 .. 25,
         Offset(l)[1] = Offset(m)[1], Offset(l)[2] = Offset(m)[2], Offset(l)[3] = Offset(m)[3]
  PROVE  l = m
BY Components

LEMMA TagIsItsDirection ==
  ASSUME NEW l \in 0 .. 25, NEW o,
         o[1] = Offset(l)[1], o[2] = Offset(l)[2], o[3] = Offset(l)[3]
  PROVE  TagOf(o) = l
<1>1. Dir = 0 .. 25
  BY Directions
<1>2. BoundaryIdx(Offset(l)) = BoundaryIdx(o)
  BY DEF BoundaryIdx
<1>3. ASSUME NEW m \in Dir, BoundaryIdx(Offset(m)) = BoundaryIdx(o) PROVE m = l
  <2>1. /\ Offset(l)[1] \in -1 .. 1 /\ Offset(l)[2] \in -1 .. 1 /\ Offset(l)[3] \in -1 .. 1
        /\ Offset(m)[1] \in -1 .. 1 /\ Offset(m)[2] \in -1 .. 1 /\ Offset(m)[3] \in -1 .. 1
    BY <1>1, OffsetsAreSmall DEF Dim
  <2>2. Offset(l)[1] = Offset(m)[1] /\ Offset(l)[2] = Offset(m)[2] /\ Offset(l)[3] = Offset(m)[3]
    BY <1>2, <1>3, <2>1, PositionsAreDistinct DEF BoundaryIdx
  <2>. QED BY <1>1, <2>2, OffsetsAreDistinct
<1>. QED BY <1>1, <1>2, <1>3 DEF TagOf

LEMMA Tags ==
  ASSUME NEW l \in 0 .. 25
  PROVE  send_tags(l) = l /\ recv_tags(l) = OppositeOf(l)
<1>1. send_tags(l) = l
  BY TagIsItsDirection DEF send_tags
<1>2. /\ Negated(Offset(l))[1] = -Offset(l)[1] /\ Negated(Offset(l))[2] = -Offset(l)[2]
      /\ Negated(Offset(l))[3] = -Offset(l)[3]
  BY DEF Negated, Dim
<1>3. PICK m, o : m = OppositeOf(l) /\ o = Negated(Offset(l)) /\ m \in 0 .. 25
  BY OppositesNegate
<1>4. o[1] = Offset(m)[1] /\ o[2] = Offset(m)[2] /\ o[3] = Offset(m)[3]
  BY <1>2, <1>3, OppositesNegate
<1>5. TagOf(o) = m
  BY <1>3, <1>4, TagIsItsDirection
<1>. QED BY <1>1, <1>3, <1>5 DEF recv_tags

-----------------------------------------------------------------------------
(* Ranks and their indices *)

(* A step in one dimension and the step back.                                *)
LEMMA WrapGoesBack ==
  ASSUME NEW n \in Positive, NEW i \in 0 .. n - 1, NEW o \in -1 .. 1
  PROVE  /\ Wrap(i + o, n) \in 0 .. n - 1
         /\ Wrap(Wrap(i + o, n) + (-o), n) = i
BY DEF Wrap, Positive

(* Division with remainder by a * b, then by a.                              *)
LEMMA MixedRadix ==
  ASSUME NEW a \in Positive, NEW b \in Positive, NEW c \in Positive, NEW r \in 0 .. a * b * c - 1
  PROVE  LET z == r \div (a * b)
             y == (r - z * (a * b)) \div a
             x == r - z * (a * b) - y * a
         IN  /\ x \in 0 .. a - 1 /\ y \in 0 .. b - 1 /\ z \in 0 .. c - 1
             /\ x + a * (y + b * z) = r
<1>. DEFINE ab == a * b
            z == r \div ab
            s == r - z * ab
            y == s \div a
            x == s - y * a
<1>1. ab \in Positive /\ ab * c = a * b * c
  BY DEF Positive
<1>2. z \in Nat /\ s \in 0 .. ab - 1 /\ r = z * ab + s
  <2>. HIDE DEF ab
  <2>. QED BY <1>1 DEF Positive
<1>3. z < c
  <2>1. r < ab * c /\ r \in Nat
    BY <1>1 DEF Positive
  <2>. HIDE DEF ab, z, s
  <2>2. ASSUME z >= c PROVE FALSE
    <3>1. c * ab <= z * ab
      BY <1>1, <1>2, <2>2 DEF Positive
    <3>. QED BY <1>1, <1>2, <2>1, <3>1 DEF Positive
  <2>. QED BY <1>2, <2>2 DEF Positive
<1>4. y \in Nat /\ x \in 0 .. a - 1 /\ s = y * a + x
  <2>. HIDE DEF ab, s
  <2>. QED BY <1>2 DEF Positive
<1>5. y < b
  <2>. HIDE DEF s, y, x, z
  <2>1. ASSUME y >= b PROVE FALSE
    <3>1. b * a <= y * a
      BY <1>4, <2>1 DEF Positive
    <3>. QED BY <1>2, <1>4, <3>1 DEF Positive
  <2>. QED BY <1>4, <2>1 DEF Positive
<1>6. x + a * (y + b * z) = r
  <2>. HIDE DEF s, y, x, z
  <2>1. a * (y + b * z) = a * y + (a * b) * z
    BY <1>2, <1>4 DEF Positive
  <2>. QED BY <1>2, <1>4, <2>1 DEF Positive
<1>7. y \in 0 .. b - 1 /\ z \in 0 .. c - 1
  <2>. HIDE DEF y, z
  <2>. QED BY <1>2, <1>3, <1>4, <1>5 DEF Positive
<1>. QED BY <1>4, <1>6, <1>7

LEMMA QuotientIsUnique ==
  ASSUME NEW n \in Positive, NEW q \in Nat, NEW s \in 0 .. n - 1
  PROVE  (q * n + s) \div n = q
BY DEF Positive

LEMMA RadixIsUnique ==
  ASSUME NEW a \in Positive, NEW b \in Positive, NEW c \in Positive,
         NEW x \in 0 .. a - 1, NEW y \in 0 .. b - 1, NEW z \in 0 .. c - 1
  PROVE  LET r == x + a * (y + b * z)
         IN  /\ r \in 0 .. a * b * c - 1
             /\ r \div (a * b) = z
             /\ (r - z * (a * b)) \div a = y
             /\ r - z * (a * b) - y * a = x
<1>. DEFINE ab == a * b
            s == x + a * y
            r == x + a * (y + b * z)
<1>1. ab \in Positive /\ ab * c = a * b * c
  BY DEF Positive
<1>2. s \in 0 .. ab - 1
  <2>1. a * y <= a * (b - 1) /\ a * (b - 1) = a * b - a
    BY DEF Positive
  <2>. QED BY <2>1 DEF Positive
<1>3. r = z * ab + s
  BY DEF Positive
<1>4. r \div ab = z
  <2>. HIDE DEF ab, s, r
  <2>. QED BY <1>1, <1>2, <1>3, QuotientIsUnique
<1>5. r - z * ab = y * a + x
  BY DEF Positive
<1>6. (r - z * ab) \div a = y
  <2>. HIDE DEF r, ab
  <2>. QED BY <1>5, QuotientIsUnique
<1>7. r - z * ab - y * a = x
  BY DEF Positive
<1>8. r \in 0 .. ab * c - 1
  <2>. HIDE DEF r, ab, s
  <2>1. z * ab <= (c - 1) * ab /\ (c - 1) * ab = c * ab - ab
    BY <1>1 DEF Positive
  <2>. QED BY <1>1, <1>2, <1>3, <2>1 DEF Positive
<1>. QED BY <1>1, <1>4, <1>6, <1>7, <1>8

(* The index of a rank is in the division, and leads back to the rank.       *)
LEMMA IndexOfRank ==
  ASSUME NEW dims \in Division, NEW r \in Ranks(dims)
  PROVE  /\ \A d \in Dim : IndexOf(r, dims)[d] \in 0 .. dims[d] - 1
         /\ RankOf(IndexOf(r, dims), dims) = r
<1>1. PICK a \in Positive, b \in Positive, c \in Positive : dims[1] = a /\ dims[2] = b /\ dims[3] = c
  BY DEF Division, Dim
<1>2. r \in 0 .. a * b * c - 1
  BY <1>1 DEF Ranks, Volume
<1>3. PICK x, y, z : /\ z = r \div (a * b)
                     /\ y = (r - z * (a * b)) \div a
                     /\ x = r - z * (a * b) - y * a
  OBVIOUS
<1>4. x \in 0 .. a - 1 /\ y \in 0 .. b - 1 /\ z \in 0 .. c - 1 /\ x + a * (y + b * z) = r
  BY <1>2, <1>3, MixedRadix
<1>5. IndexOf(r, dims) = <<x, y, z>>
  BY <1>1, <1>3, Zenon DEF IndexOf
<1>. QED BY <1>1, <1>4, <1>5 DEF Dim, RankOf

(* A place in the division has a rank, whose index it is.                    *)
LEMMA RankOfIndex ==
  ASSUME NEW dims \in Division, NEW i,
         \A d \in Dim : i[d] \in 0 .. dims[d] - 1
  PROVE  /\ RankOf(i, dims) \in Ranks(dims)
         /\ \A d \in Dim : IndexOf(RankOf(i, dims), dims)[d] = i[d]
<1>1. PICK a \in Positive, b \in Positive, c \in Positive : dims[1] = a /\ dims[2] = b /\ dims[3] = c
  BY DEF Division, Dim
<1>2. PICK x \in 0 .. a - 1, y \in 0 .. b - 1, z \in 0 .. c - 1 : i[1] = x /\ i[2] = y /\ i[3] = z
  BY <1>1 DEF Dim
<1>3. PICK r : r = x + a * (y + b * z)
  OBVIOUS
<1>4. RankOf(i, dims) = r
  BY <1>1, <1>2, <1>3, Zenon DEF RankOf
<1>5. /\ r \in 0 .. a * b * c - 1 /\ r \div (a * b) = z
      /\ (r - z * (a * b)) \div a = y /\ r - z * (a * b) - y * a = x
  BY <1>3, RadixIsUnique
<1>6. IndexOf(r, dims) = <<x, y, z>>
  BY <1>1, <1>5, Zenon DEF IndexOf
<1>7. r \in Ranks(dims)
  BY <1>1, <1>5 DEF Ranks, Volume
<1>. QED BY <1>2, <1>4, <1>6, <1>7 DEF Dim

LEMMA NeighborPlace ==
  ASSUME NEW dims \in Division, NEW r \in Ranks(dims), NEW l \in 0 .. 25
  PROVE  /\ mpi_ranks(r, l, dims) \in Ranks(dims)
         /\ \A d \in Dim : IndexOf(mpi_ranks(r, l, dims), dims)[d]
                              = Wrap(IndexOf(r, dims)[d] + Offset(l)[d], dims[d])
<1>. DEFINE i == IndexOf(r, dims)
            n == NeighborIndex(i, l, dims)
<1>1. \A d \in Dim : n[d] = Wrap(i[d] + Offset(l)[d], dims[d])
  BY DEF NeighborIndex
<1>2. ASSUME NEW d \in Dim PROVE n[d] \in 0 .. dims[d] - 1
  <2>1. dims[d] \in Positive /\ i[d] \in 0 .. dims[d] - 1 /\ Offset(l)[d] \in -1 .. 1
    BY IndexOfRank, OffsetsAreSmall DEF Division
  <2>. HIDE DEF i, n
  <2>. QED BY <1>1, <2>1, WrapGoesBack
<1>. HIDE DEF n
<1>3. mpi_ranks(r, l, dims) = RankOf(n, dims)
  BY DEF mpi_ranks, n
<1>. QED BY <1>1, <1>2, <1>3, RankOfIndex

(* The neighbor of the neighbor in the opposite direction is the rank.       *)
LEMMA MutualNeighbors ==
  ASSUME NEW dims \in Division, NEW r \in Ranks(dims), NEW l \in 0 .. 25
  PROVE  mpi_ranks(mpi_ranks(r, l, dims), OppositeOf(l), dims) = r
<1>. DEFINE p == mpi_ranks(r, l, dims)
            m == OppositeOf(l)
            i == IndexOf(r, dims)
<1>1. m \in 0 .. 25 /\ p \in Ranks(dims)
  BY OppositesNegate, NeighborPlace
<1>2. ASSUME NEW d \in Dim PROVE NeighborIndex(IndexOf(p, dims), m, dims)[d] = i[d]
  <2>1. dims[d] \in Positive /\ i[d] \in 0 .. dims[d] - 1 /\ Offset(l)[d] \in -1 .. 1
    BY IndexOfRank, OffsetsAreSmall DEF Division
  <2>2. IndexOf(p, dims)[d] = Wrap(i[d] + Offset(l)[d], dims[d])
    BY NeighborPlace
  <2>3. Offset(m)[d] = -Offset(l)[d]
    BY OppositesNegate DEF Dim
  <2>4. Wrap(Wrap(i[d] + Offset(l)[d], dims[d]) + (-Offset(l)[d]), dims[d]) = i[d]
    <3>. HIDE DEF i
    <3>. QED BY <2>1, WrapGoesBack
  <2>. HIDE DEF i, p, m
  <2>. QED BY <2>2, <2>3, <2>4 DEF NeighborIndex
<1>3. RankOf(NeighborIndex(IndexOf(p, dims), m, dims), dims) = RankOf(i, dims)
  <2>. HIDE DEF i, p, m
  <2>. QED BY <1>2 DEF RankOf, Dim
<1>4. RankOf(i, dims) = r
  BY IndexOfRank
<1>. QED BY <1>3, <1>4 DEF mpi_ranks

(* Of the messages the neighbor sends to the rank only the one in the        *)
(* opposite direction has the tag of the receive.                            *)
LEMMA NegatedOffset ==
  ASSUME NEW l \in 0 .. 25
  PROVE  Offset(OppositeOf(l)) = Negated(Offset(l))
<1>1. PICK m \in 0 .. 25 : m = OppositeOf(l)
  BY OppositesNegate
<1>2. PICK x \in Int, y \in Int, z \in Int : Offset(m) = <<x, y, z>>
  <2>1. m \in {0, 1, 2, 3, 4, 5, 6, 7, 8, 9, 10, 11, 12, 13, 14, 15, 16, 17, 18, 19, 20, 21, 22, 23, 24, 25}
    OBVIOUS
  <2>2. -1 \in Int /\ 0 \in Int /\ 1 \in Int
    OBVIOUS
  <2>. QED BY <2>1, <2>2, OffsetTable
<1>3. x = -Offset(l)[1] /\ y = -Offset(l)[2] /\ z = -Offset(l)[3]
  BY <1>1, <1>2, OppositesNegate
<1>4. Negated(Offset(l)) = <<x, y, z>>
  BY <1>3 DEF Negated, Dim
<1>. QED BY <1>1, <1>2, <1>4

LEMMA OneMessage ==
  ASSUME NEW dims \in Division, NEW r \in Ranks(dims), NEW l \in 0 .. 25
  PROVE  {k \in Dir : /\ mpi_ranks(mpi_ranks(r, l, dims), k, dims) = r
                     /\ send_tags(k) = recv_tags(l)}
           = {CHOOSE k \in Dir : Offset(k) = Negated(Offset(l))}
<1>1. PICK m \in 0 .. 25 : m = OppositeOf(l)
  BY OppositesNegate
<1>2. Dir = 0 .. 25 /\ Offset(m) = Negated(Offset(l))
  BY <1>1, Directions, NegatedOffset
<1>3. ASSUME NEW k \in Dir, Offset(k) = Offset(m) PROVE k = m
  BY <1>2, <1>3, OffsetsAreDistinct
<1>4. (CHOOSE k \in Dir : Offset(k) = Negated(Offset(l))) = m
  BY <1>2, <1>3
<1>5. mpi_ranks(mpi_ranks(r, l, dims), m, dims) = r /\ recv_tags(l) = m
  BY <1>1, MutualNeighbors, Tags
<1>6. \A k \in Dir : send_tags(k) = k
  BY <1>2, Tags
<1>. QED BY <1>2, <1>4, <1>5, <1>6

-----------------------------------------------------------------------------
(* Cells *)

LEMMA RemainderIsUnique ==
  ASSUME NEW n \in Positive, NEW q \in Int, NEW s \in 0 .. n - 1
  PROVE  (q * n + s) % n = s
BY DEF Positive

LEMMA RemainderOfSum ==
  ASSUME NEW x \in Int, NEW n \in Positive
  PROVE  (x + n) % n = x % n
<1>1. PICK q \in Int, s \in 0 .. n - 1 : x = q * n + s
  <2>1. x \div n \in Int /\ x % n \in 0 .. n - 1 /\ x = (x \div n) * n + (x % n)
    BY DEF Positive
  <2>. QED BY <2>1
<1>2. x + n = (q + 1) * n + s /\ q + 1 \in Int
  BY <1>1 DEF Positive
<1>. QED BY <1>1, <1>2, RemainderIsUnique

LEMMA BoundsTable ==
  ASSUME NEW w \in Positive, NEW n \in Positive
  PROVE  /\ SendBounds(-1, w, n) = <<w, w + w>> /\ RecvBounds(-1, w, n) = <<0, w>>
         /\ SendBounds(0, w, n) = <<w, w + n>> /\ RecvBounds(0, w, n) = <<w, w + n>>
         /\ SendBounds(1, w, n) = <<w + n - w, w + n>> /\ RecvBounds(1, w, n) = <<w + n, w + n + w>>
BY DEF SendBounds, RecvBounds

(* In one dimension: a message has one length on both sides, and the places  *)
(* it is packed from are those it is unpacked to.                            *)
LEMMA SidesMatch ==
  ASSUME NEW o \in -1 .. 1, NEW w \in Positive, NEW n \in Positive
  PROVE  /\ SendBounds(-o, w, n)[2] - SendBounds(-o, w, n)[1]
              = RecvBounds(o, w, n)[2] - RecvBounds(o, w, n)[1]
         /\ RecvBounds(o, w, n)[2] - RecvBounds(o, w, n)[1] \in Positive
         /\ RecvBounds(o, w, n)[1] \in Nat
         /\ SendBounds(-o, w, n)[1] = IF o = -1 THEN n ELSE w
         /\ RecvBounds(o, w, n)[1] = IF o = -1 THEN 0 ELSE IF o = 0 THEN w ELSE w + n
<1>0. o < 0 => -o = 1
  OBVIOUS
<1>1. CASE o = -1
  <2>1. w + n - w = n
    BY DEF Positive
  <2>0. o < 0
    BY <1>1
  <2>3. -o = 1
    BY <1>0, <2>0
  <2>2. SendBounds(-o, w, n) = <<n, w + n>> /\ RecvBounds(o, w, n) = <<0, w>>
    BY <1>1, <2>1, <2>3, BoundsTable
  <2>. QED BY <1>1, <2>1, <2>2 DEF Positive
<1>2. CASE o = 0
  <2>1. SendBounds(-o, w, n) = <<w, w + n>> /\ RecvBounds(o, w, n) = <<w, w + n>>
    BY <1>2, BoundsTable
  <2>. QED BY <1>2, <2>1 DEF Positive
<1>3. CASE o = 1
  <2>1. SendBounds(-o, w, n) = <<w, w + w>> /\ RecvBounds(o, w, n) = <<w + n, w + n + w>>
    BY <1>3, BoundsTable
  <2>. QED BY <1>3, <2>1 DEF Positive
<1>. QED BY <1>1, <1>2, <1>3

SameGlobal(D, i, o, w, n, k) ==
  (Wrap(i + o, D) * n + (SendBounds(-o, w, n)[1] + k) - w) % (D * n)
    = (i * n + (RecvBounds(o, w, n)[1] + k) - w) % (D * n)

LEMMA CellsMatch ==
  ASSUME NEW D \in Positive, NEW i \in 0 .. D - 1, NEW o \in -1 .. 1,
         NEW w \in Positive, NEW n \in Positive, NEW k \in Int
  PROVE  SameGlobal(D, i, o, w, n, k)
<1>0. SUFFICES (Wrap(i + o, D) * n + (SendBounds(-o, w, n)[1] + k) - w) % (D * n)
                 = (i * n + (RecvBounds(o, w, n)[1] + k) - w) % (D * n)
  BY DEF SameGlobal
<1>. DEFINE q == D * n
<1>1. q \in Positive /\ i * n \in Int /\ i * n + k - w \in Int
  BY DEF Positive
<1>2. CASE o = -1
  <2>1. SendBounds(-o, w, n)[1] = n /\ RecvBounds(o, w, n)[1] = 0
    BY <1>2, SidesMatch
  <2>2. CASE i > 0
    <3>1. Wrap(i + o, D) = i - 1
      BY <1>2, <2>2 DEF Wrap, Positive
    <3>2. (i - 1) * n + (n + k) - w = i * n + (0 + k) - w
      BY DEF Positive
    <3>. QED BY <2>1, <3>1, <3>2
  <2>3. CASE i = 0
    <3>1. Wrap(i + o, D) = D - 1
      BY <1>2, <2>3 DEF Wrap, Positive
    <3>2. (D - 1) * n + (n + k) - w = (i * n + (0 + k) - w) + q
      BY <2>3 DEF Positive
    <3>3. i * n + (0 + k) - w \in Int
      BY <1>1 DEF Positive
    <3>4. ((i * n + (0 + k) - w) + q) % q = (i * n + (0 + k) - w) % q
      <4>. HIDE DEF q
      <4>. QED BY <1>1, <3>3, RemainderOfSum
    <3>. QED BY <2>1, <3>1, <3>2, <3>4
  <2>. QED BY <2>2, <2>3
<1>3. CASE o = 0
  <2>1. SendBounds(-o, w, n)[1] = w /\ RecvBounds(o, w, n)[1] = w /\ Wrap(i + o, D) = i
    BY <1>3, SidesMatch DEF Wrap, Positive
  <2>. QED BY <2>1
<1>4. CASE o = 1
  <2>1. SendBounds(-o, w, n)[1] = w /\ RecvBounds(o, w, n)[1] = w + n
    BY <1>4, SidesMatch
  <2>2. CASE i < D - 1
    <3>1. Wrap(i + o, D) = i + 1
      BY <1>4, <2>2 DEF Wrap, Positive
    <3>2. (i + 1) * n + (w + k) - w = i * n + ((w + n) + k) - w
      BY DEF Positive
    <3>. QED BY <2>1, <3>1, <3>2
  <2>3. CASE i = D - 1
    <3>1. Wrap(i + o, D) = 0
      BY <1>4, <2>3 DEF Wrap, Positive
    <3>2. i * n + ((w + n) + k) - w = (0 * n + (w + k) - w) + q
      BY <2>3 DEF Positive
    <3>3. 0 * n + (w + k) - w \in Int
      BY DEF Positive
    <3>4. ((0 * n + (w + k) - w) + q) % q = (0 * n + (w + k) - w) % q
      <4>. HIDE DEF q
      <4>. QED BY <1>1, <3>3, RemainderOfSum
    <3>. QED BY <2>1, <3>1, <3>2, <3>4
  <2>. QED BY <2>2, <2>3 DEF Positive
<1>. QED BY <1>2, <1>3, <1>4

(* The cells of an extent are numbered from 0.                               *)
LEMMA CellsOfExtent ==
  ASSUME NEW ext, NEW a \in Positive, NEW b \in Positive, NEW c \in Positive,
         Side(ext, 1) = a, Side(ext, 2) = b, Side(ext, 3) = c,
         NEW p \in 0 .. ListLength(ext) - 1
  PROVE  \E k \in [Dim -> Int] :
           /\ k[1] \in 0 .. a - 1 /\ k[2] \in 0 .. b - 1 /\ k[3] \in 0 .. c - 1
           /\ k[1] = p % a /\ k[2] = (p \div a) % b /\ k[3] = p \div (a * b)
           /\ \A d \in Dim : CellAt(ext, p)[d] = ext[d][1] + k[d]
<1>1. p \in 0 .. a * b * c - 1
  BY DEF ListLength
<1>2. p \in Nat /\ p \div a \in Nat
  BY <1>1 DEF Positive
<1>3. p % a \in 0 .. a - 1 /\ (p \div a) % b \in 0 .. b - 1
  BY <1>2 DEF Positive
<1>4. p \div (a * b) \in 0 .. c - 1
  BY <1>1, MixedRadix
<1>5. PICK x \in Int, y \in Int, z \in Int : x = p % a /\ y = (p \div a) % b /\ z = p \div (a * b)
  BY <1>3, <1>4
<1>. DEFINE k == [d \in Dim |-> IF d = 1 THEN x ELSE IF d = 2 THEN y ELSE z]
<1>6. k \in [Dim -> Int] /\ k[1] = x /\ k[2] = y /\ k[3] = z
  BY DEF Dim
<1>7. CellAt(ext, p) = <<ext[1][1] + x, ext[2][1] + y, ext[3][1] + z>>
  BY <1>5, Zenon DEF CellAt
<1>8. \A d \in Dim : CellAt(ext, p)[d] = ext[d][1] + k[d]
  BY <1>7 DEF Dim
<1>. HIDE DEF k
<1>. QED BY <1>3, <1>4, <1>5, <1>6, <1>8

(* The sent and the received extents have the same sides.                    *)
LEMMA ExtentsMatch ==
  ASSUME NEW l \in 0 .. 25, NEW w \in Positive, NEW g \in [Dim -> Positive], NEW d \in Dim
  PROVE  /\ SendExtent(OppositeOf(l), w, g)[d] = SendBounds(-Offset(l)[d], w, g[d])
         /\ RecvExtent(l, w, g)[d] = RecvBounds(Offset(l)[d], w, g[d])
         /\ Side(SendExtent(OppositeOf(l), w, g), d) = Side(RecvExtent(l, w, g), d)
         /\ Side(RecvExtent(l, w, g), d) \in Positive
<1>1. PICK o \in -1 .. 1, n \in Positive : o = Offset(l)[d] /\ n = g[d]
  BY OffsetsAreSmall
<1>2. Offset(OppositeOf(l))[d] = -Offset(l)[d]
  BY OppositesNegate DEF Dim
<1>3. /\ SendExtent(OppositeOf(l), w, g)[d] = SendBounds(-Offset(l)[d], w, g[d])
      /\ RecvExtent(l, w, g)[d] = RecvBounds(Offset(l)[d], w, g[d])
  BY <1>2, Zenon DEF SendExtent, RecvExtent
<1>4. /\ SendExtent(OppositeOf(l), w, g)[d] = SendBounds(-o, w, n)
      /\ RecvExtent(l, w, g)[d] = RecvBounds(o, w, n)
  BY <1>1, <1>3, Zenon
<1>5. /\ SendBounds(-o, w, n)[2] - SendBounds(-o, w, n)[1]
           = RecvBounds(o, w, n)[2] - RecvBounds(o, w, n)[1]
      /\ RecvBounds(o, w, n)[2] - RecvBounds(o, w, n)[1] \in Positive
  BY SidesMatch, Zenon
<1>6. /\ Side(SendExtent(OppositeOf(l), w, g), d) = Side(RecvExtent(l, w, g), d)
      /\ Side(RecvExtent(l, w, g), d) \in Positive
  BY <1>4, <1>5, Zenon DEF Side
<1>. QED BY <1>3, <1>6, Zenon

LEMMA SameCells ==
  ASSUME division \in Division, rank \in Ranks(division), dir \in 0 .. 25,
         grid \in [Dim -> Positive], width \in Positive
  PROVE  LET sent == SendExtent(recv_tags(dir), width, grid)
             received == RecvExtent(dir, width, grid)
         IN  /\ ListLength(sent) = ListLength(received)
             /\ \A p \in 0 .. ListLength(sent) - 1 :
                  Global(Peer, CellAt(sent, p)) = Global(rank, CellAt(received, p))
<1>. DEFINE sent == SendExtent(recv_tags(dir), width, grid)
            received == RecvExtent(dir, width, grid)
<1>0. sent = SendExtent(OppositeOf(dir), width, grid) /\ received = RecvExtent(dir, width, grid)
  BY Tags, Zenon
<1>1. PICK a \in Positive, b \in Positive, c \in Positive :
        /\ Side(sent, 1) = a /\ Side(sent, 2) = b /\ Side(sent, 3) = c
        /\ Side(received, 1) = a /\ Side(received, 2) = b /\ Side(received, 3) = c
  <2>1. ASSUME NEW d \in Dim
        PROVE  Side(sent, d) = Side(received, d) /\ Side(received, d) \in Positive
    <3>. HIDE DEF sent, received
    <3>. QED BY <1>0, ExtentsMatch, Zenon
  <2>2. 1 \in Dim /\ 2 \in Dim /\ 3 \in Dim
    BY DEF Dim
  <2>. HIDE DEF sent, received
  <2>. QED BY <2>1, <2>2, Zenon
<1>2. ListLength(sent) = ListLength(received)
  BY <1>1 DEF ListLength
<1>3. ASSUME NEW p \in 0 .. ListLength(sent) - 1
      PROVE  Global(Peer, CellAt(sent, p)) = Global(rank, CellAt(received, p))
  <2>1. PICK k \in [Dim -> Int] :
          /\ k[1] = p % a /\ k[2] = (p \div a) % b /\ k[3] = p \div (a * b)
          /\ \A d \in Dim : CellAt(sent, p)[d] = sent[d][1] + k[d]
    BY <1>1, CellsOfExtent
  <2>2. PICK j \in [Dim -> Int] :
          /\ j[1] = p % a /\ j[2] = (p \div a) % b /\ j[3] = p \div (a * b)
          /\ \A d \in Dim : CellAt(received, p)[d] = received[d][1] + j[d]
    BY <1>1, <1>2, CellsOfExtent
  <2>3. \A d \in Dim : j[d] = k[d]
    BY <2>1, <2>2 DEF Dim
  <2>4. ASSUME NEW d \in Dim
        PROVE  (IndexOf(Peer, division)[d] * grid[d] + CellAt(sent, p)[d] - width) % (division[d] * grid[d])
                 = (IndexOf(rank, division)[d] * grid[d] + CellAt(received, p)[d] - width)
                     % (division[d] * grid[d])
    <3>1. PICK D \in Positive, i \in Nat, o \in -1 .. 1, n \in Positive, w \in Positive, x \in Int :
            /\ i < D /\ D = division[d] /\ i = IndexOf(rank, division)[d] /\ o = Offset(dir)[d]
            /\ n = grid[d] /\ w = width /\ x = k[d]
      <4>1. division[d] \in Positive /\ IndexOf(rank, division)[d] \in 0 .. division[d] - 1
        BY IndexOfRank DEF Division
      <4>2. Offset(dir)[d] \in -1 .. 1 /\ grid[d] \in Positive /\ k[d] \in Int
        BY OffsetsAreSmall
      <4>3. IndexOf(rank, division)[d] \in Nat /\ IndexOf(rank, division)[d] < division[d]
        BY <4>1 DEF Positive
      <4>. QED BY <4>1, <4>2, <4>3, Zenon
    <3>2. IndexOf(Peer, division)[d] = Wrap(i + o, D)
      BY <3>1, NeighborPlace DEF Peer
    <3>3. /\ CellAt(sent, p)[d] = SendBounds(-o, w, n)[1] + x
          /\ CellAt(received, p)[d] = RecvBounds(o, w, n)[1] + x
      <4>1. sent[d] = SendBounds(-o, w, n) /\ received[d] = RecvBounds(o, w, n)
        <5>1. /\ sent[d] = SendBounds(-Offset(dir)[d], width, grid[d])
              /\ received[d] = RecvBounds(Offset(dir)[d], width, grid[d])
          <6>. HIDE DEF sent, received
          <6>. QED BY <1>0, ExtentsMatch, Zenon
        <5>. HIDE DEF sent, received
        <5>. QED BY <3>1, <5>1, Zenon
      <4>. HIDE DEF sent, received
      <4>. QED BY <2>1, <2>2, <2>3, <3>1, <4>1, Zenon
    <3>4. (Wrap(i + o, D) * n + (SendBounds(-o, w, n)[1] + x) - w) % (D * n)
            = (i * n + (RecvBounds(o, w, n)[1] + x) - w) % (D * n)
      <4>1. i \in 0 .. D - 1
        BY <3>1 DEF Positive
      <4>2. D \in Positive /\ o \in -1 .. 1 /\ width \in Positive /\ w \in Positive /\ n \in Positive /\ x \in Int
        BY <3>1, Zenon
      <4>3. SameGlobal(D, i, o, w, n, x)
        BY <4>1, <4>2, CellsMatch, Zenon
      <4>. QED BY <4>3, Zenon DEF SameGlobal
    <3>. QED BY <3>1, <3>2, <3>3, <3>4, Zenon
  <2>. HIDE DEF sent, received
  <2>. QED BY <2>4 DEF Global
<1>. QED BY <1>2, <1>3

-----------------------------------------------------------------------------
(* The halo is partitioned: where a coordinate is below, inside or above the *)
(* grid decides the component of the one direction it is unpacked from.      *)

Class(x, w, n) == IF x < w THEN -1 ELSE IF x < w + n THEN 0 ELSE 1

LEMMA ClassOfReceived ==
  ASSUME NEW o \in -1 .. 1, NEW w \in Positive, NEW n \in Positive, NEW x \in Int
  PROVE  /\ x \in RecvBounds(o, w, n)[1] .. RecvBounds(o, w, n)[2] - 1 => Class(x, w, n) = o
         /\ x \in 0 .. n + 2 * w - 1 /\ Class(x, w, n) = o
              => x \in RecvBounds(o, w, n)[1] .. RecvBounds(o, w, n)[2] - 1
<1>1. CASE o = -1
  <2>1. RecvBounds(o, w, n) = <<0, w>>
    BY <1>1, BoundsTable
  <2>. QED BY <1>1, <2>1 DEF Class, Positive
<1>2. CASE o = 0
  <2>1. RecvBounds(o, w, n) = <<w, w + n>>
    BY <1>2, BoundsTable
  <2>. QED BY <1>2, <2>1 DEF Class, Positive
<1>3. CASE o = 1
  <2>1. RecvBounds(o, w, n) = <<w + n, w + n + w>>
    BY <1>3, BoundsTable
  <2>. QED BY <1>3, <2>1 DEF Class, Positive
<1>. QED BY <1>1, <1>2, <1>3

(* What is packed is inside the grid if the grid is as wide as the halo.     *)
LEMMA SentIsOwn ==
  ASSUME NEW o \in -1 .. 1, NEW w \in Positive, NEW n \in Positive, w <= n, NEW x \in Int,
         x \in SendBounds(o, w, n)[1] .. SendBounds(o, w, n)[2] - 1
  PROVE  x \in w .. w + n - 1
<1>1. CASE o = -1
  <2>1. SendBounds(o, w, n) = <<w, w + w>>
    BY <1>1, BoundsTable
  <2>. QED BY <2>1 DEF Positive
<1>2. CASE o = 0
  <2>1. SendBounds(o, w, n) = <<w, w + n>>
    BY <1>2, BoundsTable
  <2>. QED BY <2>1 DEF Positive
<1>3. CASE o = 1
  <2>1. SendBounds(o, w, n) = <<w + n - w, w + n>>
    BY <1>3, BoundsTable
  <2>. QED BY <2>1 DEF Positive
<1>. QED BY <1>1, <1>2, <1>3

IsOffset(x, y, z) == \E l \in 0 .. 25 : Offset(l)[1] = x /\ Offset(l)[2] = y /\ Offset(l)[3] = z
IsZero(x, y, z) == x = 0 /\ y = 0 /\ z = 0

(* Every triple of components but the zero one is that of a direction.       *)
LEMMA EveryOffset ==
  ASSUME NEW x \in -1 .. 1, NEW y \in -1 .. 1, NEW z \in -1 .. 1
  PROVE  IsZero(x, y, z) \/ IsOffset(x, y, z)
<1>1. ~IsZero(x, y, z) => \E o \in {Offset(l) : l \in 0 .. 25} : o = <<x, y, z>>
  <2>1. x \in {-1, 0, 1} /\ y \in {-1, 0, 1} /\ z \in {-1, 0, 1}
    OBVIOUS
  <2>. QED BY <2>1, OffsetTable DEF IsZero
<1>. QED BY <1>1 DEF IsOffset

LEMMA NoOffsetIsZero ==
  ASSUME NEW l \in 0 .. 25
  PROVE  ~(Offset(l)[1] = 0 /\ Offset(l)[2] = 0 /\ Offset(l)[3] = 0)
<1>1. l \in {0, 1, 2, 3, 4, 5, 6, 7, 8, 9, 10, 11, 12, 13, 14, 15, 16, 17, 18, 19, 20, 21, 22, 23, 24, 25}
  OBVIOUS
<1>. QED BY <1>1, Components

(* The cells of a list are in its extent.                                    *)
LEMMA CellIsInExtent ==
  ASSUME NEW ext, \A d \in Dim : ext[d][1] \in Int /\ ext[d][2] \in Int /\ Side(ext, d) \in Positive,
         NEW p \in 0 .. ListLength(ext) - 1, NEW d \in Dim
  PROVE  CellAt(ext, p)[d] \in Int /\ CellAt(ext, p)[d] \in Cells(ext, d)
<1>1. PICK a \in Positive, b \in Positive, c \in Positive :
        Side(ext, 1) = a /\ Side(ext, 2) = b /\ Side(ext, 3) = c
  BY DEF Dim
<1>2. PICK k \in [Dim -> Int] :
        /\ k[1] \in 0 .. a - 1 /\ k[2] \in 0 .. b - 1 /\ k[3] \in 0 .. c - 1
        /\ \A e \in Dim : CellAt(ext, p)[e] = ext[e][1] + k[e]
  BY <1>1, CellsOfExtent
<1>3. k[d] \in 0 .. Side(ext, d) - 1
  BY <1>1, <1>2 DEF Dim
<1>4. PICK x \in Int, y \in Int, i \in Int : x = ext[d][1] /\ y = ext[d][2] /\ i = k[d]
  BY <1>2
<1>5. Side(ext, d) = y - x
  BY <1>4 DEF Side
<1>6. i \in 0 .. y - x - 1 /\ CellAt(ext, p)[d] = x + i
  BY <1>2, <1>3, <1>4, <1>5
<1>. QED BY <1>4, <1>6 DEF Cells

LEMMA ExtentsAreFine ==
  ASSUME NEW l \in 0 .. 25, NEW w \in Positive, NEW g \in [Dim -> Positive], NEW d \in Dim
  PROVE  /\ SendExtent(l, w, g)[d] = SendBounds(Offset(l)[d], w, g[d])
         /\ RecvExtent(l, w, g)[d] = RecvBounds(Offset(l)[d], w, g[d])
         /\ SendExtent(l, w, g)[d][1] \in Int /\ SendExtent(l, w, g)[d][2] \in Int
         /\ RecvExtent(l, w, g)[d][1] \in Int /\ RecvExtent(l, w, g)[d][2] \in Int
         /\ Side(SendExtent(l, w, g), d) \in Positive /\ Side(RecvExtent(l, w, g), d) \in Positive
<1>1. PICK o \in -1 .. 1, n \in Positive : o = Offset(l)[d] /\ n = g[d]
  BY OffsetsAreSmall
<1>2. /\ SendExtent(l, w, g)[d] = SendBounds(Offset(l)[d], w, g[d])
      /\ RecvExtent(l, w, g)[d] = RecvBounds(Offset(l)[d], w, g[d])
  BY Zenon DEF SendExtent, RecvExtent
<1>3. SendExtent(l, w, g)[d] = SendBounds(o, w, n) /\ RecvExtent(l, w, g)[d] = RecvBounds(o, w, n)
  BY <1>1, <1>2, Zenon
<1>4. /\ SendBounds(o, w, n)[1] \in Int /\ SendBounds(o, w, n)[2] \in Int
      /\ RecvBounds(o, w, n)[1] \in Int /\ RecvBounds(o, w, n)[2] \in Int
      /\ SendBounds(o, w, n)[2] - SendBounds(o, w, n)[1] \in Positive
      /\ RecvBounds(o, w, n)[2] - RecvBounds(o, w, n)[1] \in Positive
  <2>1. CASE o = -1
    <3>1. SendBounds(o, w, n) = <<w, w + w>> /\ RecvBounds(o, w, n) = <<0, w>>
      BY <2>1, BoundsTable
    <3>. QED BY <3>1 DEF Positive
  <2>2. CASE o = 0
    <3>1. SendBounds(o, w, n) = <<w, w + n>> /\ RecvBounds(o, w, n) = <<w, w + n>>
      BY <2>2, BoundsTable
    <3>. QED BY <3>1 DEF Positive
  <2>3. CASE o = 1
    <3>1. SendBounds(o, w, n) = <<w + n - w, w + n>> /\ RecvBounds(o, w, n) = <<w + n, w + n + w>>
      BY <2>3, BoundsTable
    <3>. QED BY <3>1 DEF Positive
  <2>. QED BY <2>1, <2>2, <2>3
<1>. QED BY <1>2, <1>3, <1>4, Zenon DEF Side

(* The direction a cell is unpacked from has the classes of its coordinates. *)
LEMMA ClassOfCell ==
  ASSUME grid \in [Dim -> Positive], width \in Positive, NEW l \in 0 .. 25, NEW c,
         NEW d \in Dim, c[d] \in Int, c[d] \in Cells(RecvExtent(l, width, grid), d)
  PROVE  Class(c[d], width, grid[d]) = Offset(l)[d]
<1>1. PICK o \in -1 .. 1, n \in Positive, x \in Int : o = Offset(l)[d] /\ n = grid[d] /\ x = c[d]
  BY OffsetsAreSmall
<1>2. x \in RecvBounds(o, width, n)[1] .. RecvBounds(o, width, n)[2] - 1
  <2>1. RecvExtent(l, width, grid)[d] = RecvBounds(Offset(l)[d], width, grid[d])
    BY ExtentsAreFine, Zenon
  <2>. QED BY <1>1, <2>1, Zenon DEF Cells
<1>. QED BY <1>1, <1>2, ClassOfReceived

LEMMA OwnHasClassZero ==
  ASSUME grid \in [Dim -> Positive], width \in Positive, NEW c, IsOwn(c), NEW d \in Dim
  PROVE  Class(c[d], width, grid[d]) = 0
BY DEF IsOwn, Class, Positive

LEMMA UnpackedOnce ==
  ASSUME grid \in [Dim -> Positive], width \in Positive, NEW m \in 0 .. 25,
         NEW p \in 0 .. ListLength(RecvExtent(m, width, grid)) - 1
  PROVE  LET c == CellAt(RecvExtent(m, width, grid), p)
         IN  ~IsOwn(c) /\ \A l \in Dir \ {m} : ~InExtent(c, RecvExtent(l, width, grid))
<1>. DEFINE c == CellAt(RecvExtent(m, width, grid), p)
<1>1. ASSUME NEW d \in Dim
      PROVE  c[d] \in Int /\ c[d] \in Cells(RecvExtent(m, width, grid), d)
  <2>1. \A e \in Dim : LET r == RecvExtent(m, width, grid)
                       IN  r[e][1] \in Int /\ r[e][2] \in Int /\ Side(r, e) \in Positive
    BY ExtentsAreFine, Zenon
  <2>. QED BY <2>1, CellIsInExtent, Zenon
<1>. HIDE DEF c
<1>2. \A d \in Dim : Class(c[d], width, grid[d]) = Offset(m)[d]
  BY <1>1, ClassOfCell, Zenon
<1>3. ~IsOwn(c)
  <2>1. ASSUME IsOwn(c) PROVE FALSE
    <3>1. Offset(m)[1] = 0 /\ Offset(m)[2] = 0 /\ Offset(m)[3] = 0
      <4>1. \A d \in Dim : Offset(m)[d] = 0
        BY <1>2, <2>1, OwnHasClassZero, Zenon
      <4>. QED BY <4>1 DEF Dim
    <3>. QED BY <3>1, NoOffsetIsZero
  <2>. QED BY <2>1
<1>4. ASSUME NEW l \in Dir \ {m}, InExtent(c, RecvExtent(l, width, grid)) PROVE FALSE
  <2>1. l \in 0 .. 25 /\ l # m
    BY Directions
  <2>2. \A d \in Dim : c[d] \in Cells(RecvExtent(l, width, grid), d)
    BY <1>4, Zenon DEF InExtent
  <2>3. \A d \in Dim : Class(c[d], width, grid[d]) = Offset(l)[d]
    BY <1>1, <2>1, <2>2, ClassOfCell, Zenon
  <2>4. \A d \in Dim : Offset(l)[d] = Offset(m)[d]
    BY <1>2, <2>3, Zenon
  <2>5. 1 \in Dim /\ 2 \in Dim /\ 3 \in Dim
    BY DEF Dim
  <2>. QED BY <2>1, <2>4, <2>5, OffsetsAreDistinct, Zenon
<1>. QED BY <1>3, <1>4, Zenon DEF c

LEMMA PackedIsOwn ==
  ASSUME grid \in [Dim -> Positive], width \in Positive, NEW m \in 0 .. 25,
         \A d \in Dim : width <= grid[d],
         NEW p \in 0 .. ListLength(SendExtent(m, width, grid)) - 1
  PROVE  IsOwn(CellAt(SendExtent(m, width, grid), p))
<1>. DEFINE c == CellAt(SendExtent(m, width, grid), p)
<1>1. ASSUME NEW d \in Dim
      PROVE  c[d] \in Int /\ c[d] \in Cells(SendExtent(m, width, grid), d)
  <2>1. \A e \in Dim : LET r == SendExtent(m, width, grid)
                       IN  r[e][1] \in Int /\ r[e][2] \in Int /\ Side(r, e) \in Positive
    BY ExtentsAreFine, Zenon
  <2>. QED BY <2>1, CellIsInExtent, Zenon
<1>. HIDE DEF c
<1>2. ASSUME NEW d \in Dim PROVE c[d] \in width .. width + grid[d] - 1
  <2>1. PICK o \in -1 .. 1, n \in Positive, x \in Int :
          o = Offset(m)[d] /\ n = grid[d] /\ x = c[d] /\ width <= n
    BY <1>1, OffsetsAreSmall
  <2>2. x \in SendBounds(o, width, n)[1] .. SendBounds(o, width, n)[2] - 1
    <3>1. SendExtent(m, width, grid)[d] = SendBounds(Offset(m)[d], width, grid[d])
      BY ExtentsAreFine, Zenon
    <3>. QED BY <1>1, <2>1, <3>1, Zenon DEF Cells
  <2>. QED BY <2>1, <2>2, SentIsOwn
<1>3. IsOwn(c)
  BY <1>2, Zenon DEF IsOwn
<1>. QED BY <1>3 DEF c

LEMMA HaloIsCovered ==
  ASSUME grid \in [Dim -> Positive], width \in Positive, NEW c \in [Dim -> Int],
         \A d \in Dim : c[d] \in 0 .. grid[d] + 2 * width - 1
  PROVE  IsOwn(c) \/ \E l \in Dir : InExtent(c, RecvExtent(l, width, grid))
<1>1. ASSUME NEW d \in Dim
      PROVE  /\ Class(c[d], width, grid[d]) \in -1 .. 1
             /\ Class(c[d], width, grid[d]) = 0 => c[d] \in width .. width + grid[d] - 1
  BY DEF Class, Positive
<1>2. CASE \A d \in Dim : Class(c[d], width, grid[d]) = 0
  BY <1>1, <1>2 DEF IsOwn
<1>3. CASE ~\A d \in Dim : Class(c[d], width, grid[d]) = 0
  <2>1. PICK x \in -1 .. 1, y \in -1 .. 1, z \in -1 .. 1 :
          /\ x = Class(c[1], width, grid[1]) /\ y = Class(c[2], width, grid[2])
          /\ z = Class(c[3], width, grid[3])
    BY <1>1 DEF Dim
  <2>2. ~(x = 0 /\ y = 0 /\ z = 0)
    BY <1>3, <2>1 DEF Dim
  <2>3. PICK l \in 0 .. 25 : Offset(l)[1] = x /\ Offset(l)[2] = y /\ Offset(l)[3] = z
    <3>1. IsOffset(x, y, z)
      BY <2>1, <2>2, EveryOffset, Zenon DEF IsZero
    <3>. QED BY <3>1, Zenon DEF IsOffset
  <2>4. ASSUME NEW d \in Dim PROVE c[d] \in Cells(RecvExtent(l, width, grid), d)
    <3>1. Class(c[d], width, grid[d]) = Offset(l)[d]
      BY <2>1, <2>3 DEF Dim
    <3>2. PICK o \in -1 .. 1, n \in Positive, i \in Int : o = Offset(l)[d] /\ n = grid[d] /\ i = c[d]
      BY OffsetsAreSmall
    <3>3. i \in RecvBounds(o, width, n)[1] .. RecvBounds(o, width, n)[2] - 1
      BY <3>1, <3>2, ClassOfReceived
    <3>4. RecvExtent(l, width, grid)[d] = RecvBounds(Offset(l)[d], width, grid[d])
      BY ExtentsAreFine, Zenon
    <3>. QED BY <3>2, <3>3, <3>4, Zenon DEF Cells
  <2>5. l \in Dir
    BY Directions
  <2>. QED BY <2>4, <2>5, Zenon DEF InExtent
<1>. QED BY <1>2, <1>3, Zenon

-----------------------------------------------------------------------------
(* The elements of the array the lists address                               *)

LEMMA DivisionOf ==
  ASSUME NEW n \in Positive, NEW p \in Nat
  PROVE  p \div n \in Nat /\ p % n \in 0 .. n - 1 /\ p = (p \div n) * n + (p % n)
<1>1. p \div n \in Nat /\ p - (p \div n) * n \in 0 .. n - 1
  BY DEF Positive
<1>2. p % n \in 0 .. n - 1
  BY DEF Positive
<1>3. p % n = p - (p \div n) * n
  BY SMTT(30) DEF Positive
<1>4. (p \div n) * n \in Int
  BY <1>1 DEF Positive
<1>. QED BY <1>1, <1>2, <1>3, <1>4

(* A position in a list is the mixed-radix number of its cell.               *)
LEMMA PositionOfDigits ==
  ASSUME NEW a \in Positive, NEW b \in Positive, NEW p \in Nat
  PROVE  p = (p % a) + a * (((p \div a) % b) + b * (p \div (a * b)))
<1>1. PICK q \in Nat, x \in Nat : q = p \div a /\ x = p % a /\ p = q * a + x /\ x \in 0 .. a - 1
  <2>1. p \div a \in Nat /\ p % a \in Nat /\ p % a \in 0 .. a - 1 /\ p = (p \div a) * a + (p % a)
    <3>1. \A i \in 0 .. a - 1 : i \in Nat
      BY DEF Positive
    <3>. QED BY <3>1, DivisionOf, Zenon
  <2>. QED BY <2>1, Zenon
<1>2. PICK r \in Nat, y \in Nat : r = q \div b /\ y = q % b /\ q = r * b + y /\ y \in 0 .. b - 1
  <2>1. q \div b \in Nat /\ q % b \in Nat /\ q % b \in 0 .. b - 1 /\ q = (q \div b) * b + (q % b)
    <3>1. \A i \in 0 .. b - 1 : i \in Nat
      BY DEF Positive
    <3>. QED BY <1>1, <3>1, DivisionOf, Zenon
  <2>. QED BY <2>1, Zenon
<1>0. r \in Nat /\ y \in Nat
  BY <1>2
<1>3. a * b \in Positive /\ a * y + x \in Int /\ a * y + x \in 0 .. a * b - 1
  <2>1. a * y <= a * (b - 1) /\ a * (b - 1) = a * b - a /\ a * y \in Nat /\ a * b \in Positive
    BY <1>2 DEF Positive
  <2>. QED BY <1>1, <2>1 DEF Positive
<1>4. p = r * (a * b) + (a * y + x)
  <2>1. (r * b + y) * a = r * (a * b) + a * y
    BY <1>0 DEF Positive
  <2>2. p = (r * b + y) * a + x
    BY <1>1, <1>2, Zenon
  <2>3. r * (a * b) \in Int /\ a * y \in Int
    BY <1>0 DEF Positive
  <2>. QED BY <1>1, <2>1, <2>2, <2>3
<1>5. p \div (a * b) = r
  <2>1. (r * (a * b) + (a * y + x)) \div (a * b) = r
    BY <1>2, <1>3, QuotientIsUnique, Zenon
  <2>. QED BY <1>4, <2>1, Zenon
<1>6. p = x + a * (y + b * r)
  <2>1. a * (y + b * r) = r * (a * b) + a * y /\ r * (a * b) \in Int /\ a * y \in Int
    BY <1>0 DEF Positive
  <2>. QED BY <1>1, <1>4, <2>1
<1>. QED BY <1>1, <1>2, <1>5, <1>6, Zenon

FineExtent(ext) == \A d \in Dim : ext[d][1] \in Int /\ ext[d][2] \in Int /\ Side(ext, d) \in Positive

LEMMA CellsAreDistinct ==
  ASSUME NEW ext, FineExtent(ext),
         NEW p \in 0 .. ListLength(ext) - 1, NEW q \in 0 .. ListLength(ext) - 1,
         \A d \in Dim : CellAt(ext, p)[d] = CellAt(ext, q)[d]
  PROVE  p = q
<1>1. PICK a \in Positive, b \in Positive, c \in Positive :
        Side(ext, 1) = a /\ Side(ext, 2) = b /\ Side(ext, 3) = c
  BY DEF Dim, FineExtent
<1>2. PICK k \in [Dim -> Int] :
        /\ k[1] = p % a /\ k[2] = (p \div a) % b /\ k[3] = p \div (a * b)
        /\ \A d \in Dim : CellAt(ext, p)[d] = ext[d][1] + k[d]
  BY <1>1, CellsOfExtent
<1>3. PICK j \in [Dim -> Int] :
        /\ j[1] = q % a /\ j[2] = (q \div a) % b /\ j[3] = q \div (a * b)
        /\ \A d \in Dim : CellAt(ext, q)[d] = ext[d][1] + j[d]
  BY <1>1, CellsOfExtent
<1>4. \A d \in Dim : k[d] = j[d]
  <2>1. ASSUME NEW d \in Dim PROVE k[d] = j[d]
    <3>1. PICK x \in Int, y \in Int, z \in Int : x = ext[d][1] /\ y = k[d] /\ z = j[d]
      BY <1>2, <1>3 DEF FineExtent
    <3>2. x + y = x + z
      BY <1>2, <1>3, <3>1, Zenon
    <3>. QED BY <3>1, <3>2
  <2>. QED BY <2>1
<1>5. k[1] = j[1] /\ k[2] = j[2] /\ k[3] = j[3]
  BY <1>4 DEF Dim
<1>6. p \in Nat /\ q \in Nat
  BY <1>1 DEF ListLength, Positive
<1>7. /\ p = (p % a) + a * (((p \div a) % b) + b * (p \div (a * b)))
      /\ q = (q % a) + a * (((q \div a) % b) + b * (q \div (a * b)))
  BY <1>6, PositionOfDigits, Zenon
<1>. QED BY <1>2, <1>3, <1>5, <1>7, Zenon

Padded == [d \in Dim |-> grid[d] + 2 * width]
InBox(c) == \A d \in Dim : c[d] \in 0 .. Padded[d] - 1

LEMMA ArrayIndexIsRank ==
  ASSUME NEW c
  PROVE  ArrayIndex(c, width, grid) = RankOf(c, Padded)
<1>1. Padded[1] = grid[1] + 2 * width /\ Padded[2] = grid[2] + 2 * width
  BY DEF Padded, Dim
<1>. QED BY <1>1, Zenon DEF ArrayIndex, RankOf

LEMMA PaddedIsDivision ==
  ASSUME grid \in [Dim -> Positive], width \in Positive
  PROVE  Padded \in Division
BY DEF Padded, Division, Positive

LEMMA IndexInArray ==
  ASSUME grid \in [Dim -> Positive], width \in Positive, NEW c, InBox(c)
  PROVE  /\ ArrayIndex(c, width, grid) \in 0 .. Volume(Padded) - 1
         /\ \A d \in Dim : IndexOf(ArrayIndex(c, width, grid), Padded)[d] = c[d]
<1>1. /\ RankOf(c, Padded) \in Ranks(Padded)
      /\ \A d \in Dim : IndexOf(RankOf(c, Padded), Padded)[d] = c[d]
  <2>1. Padded \in Division
    BY PaddedIsDivision
  <2>2. \A d \in Dim : c[d] \in 0 .. Padded[d] - 1
    BY Zenon DEF InBox
  <2>. QED BY <2>1, <2>2, RankOfIndex, Zenon
<1>2. ArrayIndex(c, width, grid) = RankOf(c, Padded)
  BY ArrayIndexIsRank
<1>. QED BY <1>1, <1>2, Zenon DEF Ranks

LEMMA ExtentsInBox ==
  ASSUME grid \in [Dim -> Positive], width \in Positive, \A d \in Dim : width <= grid[d],
         NEW l \in 0 .. 25, NEW ext \in {SendExtent(l, width, grid), RecvExtent(l, width, grid)},
         NEW p \in 0 .. ListLength(ext) - 1
  PROVE  InBox(CellAt(ext, p))
<1>1. FineExtent(ext)
  BY ExtentsAreFine, Zenon DEF FineExtent
<1>2. ASSUME NEW d \in Dim PROVE CellAt(ext, p)[d] \in 0 .. Padded[d] - 1
  <2>1. CellAt(ext, p)[d] \in Int /\ CellAt(ext, p)[d] \in Cells(ext, d)
    BY <1>1, CellIsInExtent, Zenon DEF FineExtent
  <2>2. PICK o \in -1 .. 1, n \in Positive, x \in Int :
          o = Offset(l)[d] /\ n = grid[d] /\ x = CellAt(ext, p)[d] /\ width <= n
    BY <2>1, OffsetsAreSmall
  <2>3. PICK m \in Int : m = n + 2 * width /\ m = Padded[d]
    BY <2>2 DEF Padded, Positive
  <2>4. /\ SendExtent(l, width, grid)[d] = SendBounds(o, width, n)
        /\ RecvExtent(l, width, grid)[d] = RecvBounds(o, width, n)
    <3>1. /\ SendExtent(l, width, grid)[d] = SendBounds(Offset(l)[d], width, grid[d])
          /\ RecvExtent(l, width, grid)[d] = RecvBounds(Offset(l)[d], width, grid[d])
      BY ExtentsAreFine, Zenon
    <3>. QED BY <2>2, <3>1, Zenon
  <2>5. CASE ext = SendExtent(l, width, grid)
    <3>1. x \in SendBounds(o, width, n)[1] .. SendBounds(o, width, n)[2] - 1
      BY <2>1, <2>2, <2>4, <2>5, Zenon DEF Cells
    <3>2. x \in width .. width + n - 1
      BY <2>2, <3>1, SentIsOwn
    <3>3. x \in 0 .. m - 1
      BY <2>3, <3>2 DEF Positive
    <3>. QED BY <2>2, <2>3, <3>3, Zenon
  <2>6. CASE ext = RecvExtent(l, width, grid)
    <3>1. x \in RecvBounds(o, width, n)[1] .. RecvBounds(o, width, n)[2] - 1
      BY <2>1, <2>2, <2>4, <2>6, Zenon DEF Cells
    <3>2. x \in 0 .. m - 1
      <4>1. CASE o = -1
        <5>1. RecvBounds(o, width, n) = <<0, width>>
          BY <4>1, BoundsTable
        <5>. QED BY <2>3, <3>1, <5>1 DEF Positive
      <4>2. CASE o = 0
        <5>1. RecvBounds(o, width, n) = <<width, width + n>>
          BY <4>2, BoundsTable
        <5>. QED BY <2>3, <3>1, <5>1 DEF Positive
      <4>3. CASE o = 1
        <5>1. RecvBounds(o, width, n) = <<width + n, width + n + width>>
          BY <4>3, BoundsTable
        <5>. QED BY <2>3, <3>1, <5>1 DEF Positive
      <4>. QED BY <4>1, <4>2, <4>3
    <3>. QED BY <2>1, <2>2, <2>3, <3>2, Zenon
  <2>. QED BY <2>1, <2>5, <2>6, Zenon
<1>. QED BY <1>2, Zenon DEF InBox

(* An element of a list is the index of a cell of its extent in the array.   *)
LEMMA ElementHasCell ==
  ASSUME NEW ext, NEW e \in Elements(ext)
  PROVE  \E p \in 0 .. ListLength(ext) - 1 : e = ArrayIndex(CellAt(ext, p), width, grid)
BY Zenon DEF Elements, IndexList

LEMMA ElementsAreCounted ==
  ASSUME grid \in [Dim -> Positive], width \in Positive, \A d \in Dim : width <= grid[d],
         NEW l \in 0 .. 25, NEW ext \in {SendExtent(l, width, grid), RecvExtent(l, width, grid)}
  PROVE  Elements(ext) \subseteq 0 .. Volume(Padded) - 1 /\ Cardinality(Elements(ext)) = ListLength(ext)
<1>0. FineExtent(ext)
  BY ExtentsAreFine, Zenon DEF FineExtent
<1>. DEFINE S == 0 .. ListLength(ext) - 1
            f == IndexList(ext, width, grid)
<1>1. \A p \in S : f[p] = ArrayIndex(CellAt(ext, p), width, grid) /\ InBox(CellAt(ext, p))
  BY ExtentsInBox, Zenon DEF IndexList
<1>2. DOMAIN f = S /\ Elements(ext) = {f[p] : p \in S}
  BY Zenon DEF IndexList, Elements
<1>3. Elements(ext) \subseteq 0 .. Volume(Padded) - 1
  <2>1. ASSUME NEW p \in S PROVE f[p] \in 0 .. Volume(Padded) - 1
    <3>. HIDE DEF f
    <3>. QED BY <1>1, IndexInArray, Zenon
  <2>. HIDE DEF f, S
  <2>. QED BY <1>2, <2>1, Zenon
<1>4. ASSUME NEW p \in S, NEW q \in S, f[p] = f[q] PROVE p = q
  <2>1. \A d \in Dim : CellAt(ext, p)[d] = CellAt(ext, q)[d]
    <3>. HIDE DEF f, S
    <3>1. PICK e : e = f[p] /\ e = f[q]
      BY <1>4, Zenon
    <3>2. \A d \in Dim : IndexOf(e, Padded)[d] = CellAt(ext, p)[d]
      BY <1>1, <3>1, IndexInArray, Zenon
    <3>3. \A d \in Dim : IndexOf(e, Padded)[d] = CellAt(ext, q)[d]
      BY <1>1, <3>1, IndexInArray, Zenon
    <3>. QED BY <3>2, <3>3, Zenon
  <2>. QED BY <1>0, <2>1, CellsAreDistinct, Zenon
<1>5. f \in Bijection(S, Elements(ext))
  <2>1. f = [p \in S |-> ArrayIndex(CellAt(ext, p), width, grid)]
    BY Zenon DEF IndexList
  <2>. HIDE DEF f, S
  <2>2. f \in [S -> Elements(ext)]
    BY <1>2, <2>1
  <2>. QED BY <1>2, <1>4, <2>2, Zenon DEF Bijection, Injection, Surjection, IsInjective
<1>6. ListLength(ext) \in Nat
  BY <1>0 DEF FineExtent, ListLength, Dim, Positive
<1>7. IsFiniteSet(S) /\ Cardinality(S) = ListLength(ext)
  <2>1. 0 \in Int /\ ListLength(ext) - 1 \in Int
    BY <1>6
  <2>2. IsFiniteSet(S) /\ Cardinality(S) = IF 0 > ListLength(ext) - 1 THEN 0 ELSE (ListLength(ext) - 1) - 0 + 1
    BY <2>1, FS_Interval, Zenon
  <2>3. \A n \in Nat : (IF 0 > n - 1 THEN 0 ELSE (n - 1) - 0 + 1) = n
    OBVIOUS
  <2>. HIDE DEF S
  <2>. QED BY <1>6, <2>2, <2>3, Zenon
<1>8. Cardinality(Elements(ext)) = Cardinality(S)
  <2>. HIDE DEF S
  <2>. QED BY <1>5, <1>7, FS_Bijection, Zenon DEF ExistsBijection
<1>. QED BY <1>3, <1>7, <1>8

LEMMA ElementsAreSeparate ==
  ASSUME grid \in [Dim -> Positive], width \in Positive, \A d \in Dim : width <= grid[d],
         NEW m \in 0 .. 25, NEW l \in 0 .. 25, NEW e \in Elements(RecvExtent(m, width, grid))
  PROVE  /\ e \notin Elements(SendExtent(l, width, grid))
         /\ l # m => e \notin Elements(RecvExtent(l, width, grid))
<1>1. PICK p \in 0 .. ListLength(RecvExtent(m, width, grid)) - 1 :
        e = ArrayIndex(CellAt(RecvExtent(m, width, grid), p), width, grid)
  BY ElementHasCell, Zenon
<1>2. PICK c : c = CellAt(RecvExtent(m, width, grid), p)
  OBVIOUS
<1>3. InBox(c) /\ \A d \in Dim : IndexOf(e, Padded)[d] = c[d]
  BY <1>1, <1>2, ExtentsInBox, IndexInArray, Zenon
<1>4. ~IsOwn(c) /\ \A k \in Dir \ {m} : ~InExtent(c, RecvExtent(k, width, grid))
  BY <1>2, UnpackedOnce, Zenon
<1>5. ASSUME e \in Elements(SendExtent(l, width, grid)) PROVE FALSE
  <2>1. PICK q \in 0 .. ListLength(SendExtent(l, width, grid)) - 1 :
          e = ArrayIndex(CellAt(SendExtent(l, width, grid), q), width, grid)
    BY <1>5, ElementHasCell, Zenon
  <2>2. PICK b : b = CellAt(SendExtent(l, width, grid), q)
    OBVIOUS
  <2>3. IsOwn(b) /\ \A d \in Dim : IndexOf(e, Padded)[d] = b[d]
    BY <2>1, <2>2, ExtentsInBox, IndexInArray, PackedIsOwn, Zenon
  <2>. QED BY <1>3, <1>4, <2>3, Zenon DEF IsOwn
<1>6. ASSUME l # m, e \in Elements(RecvExtent(l, width, grid)) PROVE FALSE
  <2>1. PICK q \in 0 .. ListLength(RecvExtent(l, width, grid)) - 1 :
          e = ArrayIndex(CellAt(RecvExtent(l, width, grid), q), width, grid)
    BY <1>6, ElementHasCell, Zenon
  <2>2. PICK b : b = CellAt(RecvExtent(l, width, grid), q)
    OBVIOUS
  <2>3. \A d \in Dim : IndexOf(e, Padded)[d] = b[d]
    BY <2>1, <2>2, ExtentsInBox, IndexInArray, Zenon
  <2>4. FineExtent(RecvExtent(l, width, grid))
    BY ExtentsAreFine, Zenon DEF FineExtent
  <2>5. \A d \in Dim : b[d] \in Cells(RecvExtent(l, width, grid), d)
    BY <2>2, <2>4, CellIsInExtent, Zenon DEF FineExtent
  <2>6. \A d \in Dim : c[d] \in Cells(RecvExtent(l, width, grid), d)
    BY <1>3, <2>3, <2>5, Zenon
  <2>7. l \in Dir \ {m}
    BY <1>6, Directions
  <2>. QED BY <1>4, <2>6, <2>7, Zenon DEF InExtent
<1>. QED BY <1>5, <1>6, Zenon

-----------------------------------------------------------------------------
(* The theorems about every run of the division and of create_lists          *)

ListInv ==
  /\ grid \in [Dim -> Positive] /\ width \in Positive
  /\ \A d \in Dim : width <= grid[d]
  /\ HasLists => validMPI3DDivision /\ rank \in Ranks(division) /\ dir \in 0 .. 25

(* What the lists are made of no longer changes: factorize and set_division  *)
(* are over.                                                                 *)
LEMMA DivisionIsOver ==
  ASSUME validMPI3DDivision, [Next]_vars
  PROVE  validMPI3DDivision' /\ division' = division
<1>1. CASE Next
  <2>1. Finished
    BY <1>1 DEF Next, validMPI3DDivision, IsDone, Divide, NextFactor, EndFactorize, UseFactor
  <2>. QED BY <2>1 DEF Finished, vars, validMPI3DDivision, IsDone
<1>2. CASE UNCHANGED vars
  BY <1>2 DEF vars, validMPI3DDivision, IsDone
<1>. QED BY <1>1, <1>2

LEMMA ListInvariant == MCSpec => []ListInv
<1>1. MCInit => ListInv
  BY DEF MCInit, ListInv, HasLists, Idle, Dim, Positive
<1>2. ASSUME ListInv, [MCNext]_<<vars, listVars>> PROVE ListInv'
  <2>1. CASE Dividing
    <3>1. rank' = rank /\ grid' = grid /\ width' = width /\ dir' = dir
      BY <2>1 DEF Dividing, listVars
    <3>2. HasLists => validMPI3DDivision' /\ division' = division
      BY <1>2, <2>1, DivisionIsOver DEF Dividing, ListInv
    <3>. QED BY <1>2, <3>1, <3>2 DEF ListInv, HasLists
  <2>2. CASE CreateLists
    <3>1. /\ division' = division /\ validMPI3DDivision /\ validMPI3DDivision'
      BY <2>2 DEF CreateLists, vars, validMPI3DDivision, IsDone
    <3>2. rank' \in Ranks(division') /\ dir' = 0
      BY <2>2, <3>1 DEF CreateLists
    <3>3. /\ grid' \in [Dim -> Positive] /\ width' \in Positive
          /\ \A d \in Dim : width' <= grid'[d]
      <4>1. CASE Volume(division) <= MaxVaried
        <5>1. PICK g \in Grids : grid' = g[1] /\ width' = g[2]
          BY <2>2, <4>1 DEF CreateLists
        <5>2. g[1] \in [Dim -> Positive] /\ g[2] \in Positive
          BY <5>1 DEF Grids, Positive
        <5>3. \A d \in Dim : g[2] <= g[1][d]
          BY <5>1, <5>2 DEF Grids, Positive
        <5>. QED BY <5>1, <5>2, <5>3
      <4>2. CASE ~(Volume(division) <= MaxVaried)
        BY <1>2, <2>2, <4>2 DEF CreateLists, ListInv
      <4>. QED BY <4>1, <4>2
    <3>. QED BY <3>1, <3>2, <3>3 DEF ListInv
  <2>3. CASE NextDirection
    <3>1. /\ rank' = rank /\ grid' = grid /\ width' = width /\ division' = division
          /\ validMPI3DDivision' = validMPI3DDivision
      BY <2>3 DEF NextDirection, vars, validMPI3DDivision, IsDone
    <3>2. s_num_neighbors = 26
      BY AllOffsets DEF s_num_neighbors
    <3>3. dir \in 0 .. 24 /\ dir' \in 0 .. 25 /\ HasLists
      BY <2>3, <3>2 DEF NextDirection, HasLists, Idle
    <3>. QED BY <1>2, <3>1, <3>3 DEF ListInv
  <2>4. CASE UNCHANGED <<vars, listVars>>
    BY <1>2, <2>4 DEF vars, listVars, ListInv, HasLists, validMPI3DDivision, IsDone
  <2>. QED BY <1>2, <2>1, <2>2, <2>3, <2>4 DEF MCNext
<1>. QED BY <1>1, <1>2, PTL DEF MCSpec

LEMMA DivisionInvariant == MCSpec => []IInv
<1>1. MCInit => Init
  BY DEF MCInit
<1>2. [MCNext]_<<vars, listVars>> => [Next]_vars
  BY DEF MCNext, Dividing, CreateLists, NextDirection, vars
<1>3. MCSpec => Spec
  BY <1>1, <1>2, PTL DEF MCSpec, Spec
<1>. QED BY <1>3, InductiveInvariant, PTL

LEMMA DivisionOfLists ==
  ASSUME IInv, ListInv, HasLists
  PROVE  division \in Division /\ rank \in Ranks(division) /\ dir \in 0 .. 25
BY DEF IInv, TypeInv, ListInv, validMPI3DDivision, IsDone, Division, Axis, Dim

(* In every direction a rank has a neighbor whose neighbor in the opposite   *)
(* direction it is: for every number of ranks and every division, those with *)
(* one or two ranks in a dimension too (HALO_base.cpp:212-225).              *)
THEOREM MutualNeighborsAlways == MCSpec => []NeighborsAreMutual
<1>1. IInv /\ ListInv => NeighborsAreMutual
  <2>. SUFFICES ASSUME IInv, ListInv, HasLists
                PROVE  /\ Peer \in Ranks(division)
                       /\ mpi_ranks(Peer, recv_tags(dir), division) = rank
    BY DEF NeighborsAreMutual
  <2>1. division \in Division /\ rank \in Ranks(division) /\ dir \in 0 .. 25
    BY DivisionOfLists
  <2>. QED BY <2>1, NeighborPlace, MutualNeighbors, Tags, Zenon DEF Peer
<1>. QED BY <1>1, ListInvariant, DivisionInvariant, PTL

(* The source, the destination and the tag of a receive are those of one     *)
(* send, that of the neighbor in the opposite direction, also where several  *)
(* directions lead to the same rank (HALO_base.cpp:229, 262).                *)
THEOREM OneMessageAlways == MCSpec => []OneMessagePerReceive
<1>1. IInv /\ ListInv => OneMessagePerReceive
  <2>. SUFFICES ASSUME IInv, ListInv, HasLists
                PROVE  {l \in Dir : mpi_ranks(Peer, l, division) = rank /\ send_tags(l) = recv_tags(dir)}
                         = {CHOOSE l \in Dir : Offset(l) = Negated(Offset(dir))}
    BY DEF OneMessagePerReceive
  <2>1. division \in Division /\ rank \in Ranks(division) /\ dir \in 0 .. 25
    BY DivisionOfLists
  <2>. QED BY <2>1, OneMessage, Zenon DEF Peer
<1>. QED BY <1>1, ListInvariant, DivisionInvariant, PTL

(* What the neighbor packs first is unpacked first: in every position of the *)
(* two lists the same cell of the periodic domain. MCSpec takes every grid   *)
(* of up to MaxCells cells per dimension and every halo of up to MaxWidth    *)
(* that fits it, in every division of up to MaxVaried ranks, and the theorem *)
(* is for all values of these bounds (HALO_base.cpp:227-291).                *)
THEOREM NeighborsCellsAlways == MCSpec => []HaloGetsNeighborsCells
<1>1. IInv /\ ListInv => HaloGetsNeighborsCells
  <2>. SUFFICES ASSUME IInv, ListInv, HasLists PROVE HaloGetsNeighborsCells
    BY DEF HaloGetsNeighborsCells
  <2>1. division \in Division /\ rank \in Ranks(division) /\ dir \in 0 .. 25
    BY DivisionOfLists
  <2>2. grid \in [Dim -> Positive] /\ width \in Positive
    BY DEF ListInv
  <2>. QED BY <2>1, <2>2, SameCells, Zenon DEF HaloGetsNeighborsCells
<1>. QED BY <1>1, ListInvariant, DivisionInvariant, PTL

(* Every cell of the halo is unpacked from exactly one direction, and what   *)
(* is packed is the rank's own, for every grid not narrower than its halo    *)
(* (HALO_base.cpp:227-291).                                                  *)
THEOREM HaloPartitionedAlways == MCSpec => []HaloIsPartitioned
<1>1. IInv /\ ListInv => HaloIsPartitioned
  <2>. SUFFICES ASSUME IInv, ListInv, HasLists PROVE HaloIsPartitioned
    BY DEF HaloIsPartitioned
  <2>1. dir \in 0 .. 25
    BY DivisionOfLists
  <2>2. grid \in [Dim -> Positive] /\ width \in Positive /\ \A d \in Dim : width <= grid[d]
    BY DEF ListInv
  <2>3. ASSUME NEW c \in (0 .. grid[1] + 2 * width - 1) \X (0 .. grid[2] + 2 * width - 1)
                           \X (0 .. grid[3] + 2 * width - 1)
        PROVE  IsOwn(c) \/ \E l \in Dir : InExtent(c, RecvExtent(l, width, grid))
    <3>1. c \in [Dim -> Int] /\ \A d \in Dim : c[d] \in 0 .. grid[d] + 2 * width - 1
      BY <2>2 DEF Dim, Positive
    <3>. QED BY <2>2, <3>1, HaloIsCovered, Zenon
  <2>. QED BY <2>1, <2>2, <2>3, UnpackedOnce, PackedIsOwn, Zenon DEF HaloIsPartitioned
<1>. QED BY <1>1, ListInvariant, DivisionInvariant, PTL

(* The lists address distinct elements of the array, and what is unpacked    *)
(* from one direction is neither packed nor unpacked in another one, so that *)
(* the loops over a list and the directions may run in any order.            *)
THEOREM ListsDisjointAlways == MCSpec => []ListsAreDisjointAndInBounds
<1>1. IInv /\ ListInv => ListsAreDisjointAndInBounds
  <2>. SUFFICES ASSUME IInv, ListInv, HasLists PROVE ListsAreDisjointAndInBounds
    BY DEF ListsAreDisjointAndInBounds
  <2>1. dir \in 0 .. 25 /\ Dir = 0 .. 25
    BY DivisionOfLists, Directions
  <2>2. grid \in [Dim -> Positive] /\ width \in Positive /\ \A d \in Dim : width <= grid[d]
    BY DEF ListInv
  <2>3. \A ext \in {SendExtent(dir, width, grid), RecvExtent(dir, width, grid)} :
          Elements(ext) \subseteq 0 .. Volume(Padded) - 1 /\ Cardinality(Elements(ext)) = ListLength(ext)
    BY <2>1, <2>2, ElementsAreCounted, Zenon
  <2>4. ASSUME NEW l \in Dir
        PROVE  /\ Elements(RecvExtent(dir, width, grid)) \cap Elements(SendExtent(l, width, grid)) = {}
               /\ l # dir =>
                    Elements(RecvExtent(dir, width, grid)) \cap Elements(RecvExtent(l, width, grid)) = {}
    BY <2>1, <2>2, ElementsAreSeparate, Zenon
  <2>. QED BY <2>3, <2>4, Zenon DEF ListsAreDisjointAndInBounds, Padded
<1>. QED BY <1>1, ListInvariant, DivisionInvariant, PTL
=============================================================================
