---------------------------- MODULE MpiDivision -----------------------------
(***************************************************************************)
(* How RunParams divides the MPI ranks into a grid of three dimensions: as   *)
(* the command line says (--mpi_3d_division), or else the number of ranks is *)
(* taken apart into prime factors by trial division, and each factor,        *)
(* smallest first, multiplies the first of the shortest dimensions.          *)
(***************************************************************************)
EXTENDS Integers, Sequences

CONSTANTS MaxSize, \* the largest number of ranks
          MaxGiven \* the largest side of a division on the command line
ASSUME MpiDivisionAssumption == {MaxSize, MaxGiven} \subseteq Nat \ {0}

Axis == 1 .. 3
VARIABLES mpi_size, pc,
          number, factor, prime_factors,  \* of factorize
          used, division                  \* of set_division
vars == <<mpi_size, pc, number, factor, prime_factors, used, division>>

Unset == [d \in Axis |-> -1]
Init ==
  /\ mpi_size \in 1 .. MaxSize
  /\ division \in {Unset} \cup [Axis -> 1 .. MaxGiven]
  /\ pc = IF division[1] = -1 THEN "factorize" ELSE "divide"
  /\ number = mpi_size /\ factor = 2 /\ prime_factors = <<>>
  /\ used = 0

(* factor <= sqrt(number); in a wrong variant the square root is left out.   *)
UpToRoot == factor * factor < number
MayDivide == factor * factor <= number
Divides(a, b) == b % a = 0
Divide ==
  /\ pc = "factorize" /\ MayDivide /\ Divides(factor, number)
  /\ prime_factors' = Append(prime_factors, factor)
  /\ number' = number \div factor
  /\ UNCHANGED <<mpi_size, pc, factor, used, division>>
NextFactor ==
  /\ pc = "factorize" /\ MayDivide /\ ~Divides(factor, number)
  /\ factor' = factor + 1
  /\ UNCHANGED <<mpi_size, pc, number, prime_factors, used, division>>

(* The last factor is what remains, which a wrong variant forgets.           *)
NoRemainder == prime_factors
WithRemainder == Append(prime_factors, number)
EndFactorize ==
  /\ pc = "factorize" /\ ~MayDivide
  /\ prime_factors' = WithRemainder
  /\ division' = [d \in Axis |-> 1]
  /\ pc' = "divide"
  /\ UNCHANGED <<mpi_size, number, factor, used>>

(* A wrong variant always takes the first dimension.                        *)
IsShortest(d) == \A e \in Axis : division[d] <= division[e]
FirstShortest == CHOOSE d \in Axis : IsShortest(d) /\ \A e \in Axis : IsShortest(e) => d <= e
FirstOfAll == 1
min_d == FirstShortest
UseFactor ==
  /\ pc = "divide" /\ used < Len(prime_factors)
  /\ division' = [division EXCEPT ![min_d] = @ * prime_factors[used + 1]]
  /\ used' = used + 1
  /\ UNCHANGED <<mpi_size, pc, number, factor, prime_factors>>
IsDone == pc = "divide" /\ used = Len(prime_factors)
(* The kernels that exchange halos run on this grid, or are skipped.         *)
IsDefault == prime_factors # <<>>
validMPI3DDivision == IsDone /\ division[1] * division[2] * division[3] = mpi_size
Finished == IsDone /\ UNCHANGED vars

Next == Divide \/ NextFactor \/ EndFactorize \/ UseFactor \/ Finished
Spec == Init /\ [][Next]_vars

-----------------------------------------------------------------------------
(* The factors are in the order the comment on factorize promises            *)
(* ("{prime factors in non-decreasing order} otherwise", RunParams.cpp:859-  *)
(* 862), and {1} for one rank.                                               *)
IsPrime(n) == n > 1 /\ \A d \in 2 .. n - 1 : ~Divides(d, n)
FactorsAreOrderedPrimes ==
  /\ \A j \in DOMAIN prime_factors : IsPrime(prime_factors[j]) \/ (mpi_size = 1 /\ prime_factors = <<1>>)
  /\ \A j \in 1 .. Len(prime_factors) - 1 : prime_factors[j] <= prime_factors[j + 1]

(* The grid that nobody asked for has as many cells as there are ranks, or    *)
(* the kernels that exchange halos would be skipped.                         *)
GridHasAllRanks == IsDone /\ IsDefault => validMPI3DDivision

(* "A relatively square grid" (RunParams.cpp:879-880): no dimension is longer *)
(* than another one times the largest factor put in so far.                  *)
GridIsRelativelySquare ==
  used > 0 => \A d, e \in Axis : division[d] <= division[e] * prime_factors[used]

=============================================================================
