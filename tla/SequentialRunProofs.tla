------------------------ MODULE SequentialRunProofs ------------------------
(***************************************************************************)
(* The variants of a kernel do what Base_Seq does, for any catalogue, any    *)
(* number of repetitions and any schedule, as long as their text keeps the   *)
(* order of Base_Seq: they run its jobs, each once, and two that conflict in *)
(* the same order (KeepsOrder).                                              *)
(*                                                                         *)
(* The invariant behind it, ValueInv, compares the memory with a run of      *)
(* Base_Seq from which the jobs are left out that have not run yet           *)
(* (ValueAfter of the places E = PlacesRun).  The jobs that have run are no  *)
(* prefix of the order of Base_Seq; but of the jobs that conflict with the   *)
(* next one of a worker, those before it have run and no others (NextPlace), *)
(* so that it reads what it reads in Base_Seq (ReadInPlace), and what it     *)
(* writes or adds is what Base_Seq writes or adds there (ApplyIsNext).       *)
(*                                                                         *)
(* OrderedTextIsEnough collects what is to be checked of the text of a       *)
(* variant for all that it owes to hold in every schedule.  The last part    *)
(* shows that the kernels of one loop over the elements of arrays keep the   *)
(* order for every problem and block size.                                   *)
(***************************************************************************)
EXTENDS KernelRunProofs, SequentialRun, StreamKernels, BasicKernels, LcalsKernels, AlgorithmKernels

-----------------------------------------------------------------------------
(* Lists *)

(* What TLC is given as <<>> \o f is f. *)
LEMMA ListIs ==
  ASSUME NEW k \in Nat, NEW f, DOMAIN f = 1 .. k, f = [n \in 1 .. k |-> f[n]]
  PROVE  /\ IsList(f) /\ Len(f) = k
         /\ <<>> \o f = f
<1>1. f \in Seq({f[n] : n \in 1 .. k})
  OBVIOUS
<1>2. Len(f) = k
  BY <1>1
<1>3. <<>> \o f = f
  BY <1>1, <1>2
<1>. QED BY <1>2, <1>3 DEF IsList

(* The length of a list. *)
LEMMA LengthIs == \A k \in Nat : \A f : f = [n \in 1 .. k |-> f[n]] => Len(f) = k
<1>. SUFFICES ASSUME NEW k \in Nat, NEW f, f = [n \in 1 .. k |-> f[n]] PROVE Len(f) = k
  OBVIOUS
<1>. QED BY ListIs

-----------------------------------------------------------------------------
(* Largest numbers *)

(* A set of numbers up to T has a largest one, or is empty. *)
LEMMA Largest ==
  ASSUME NEW T \in Nat, NEW W, W \subseteq 1 .. T
  PROVE  /\ Max(W \cup {0}) \in W \cup {0}
         /\ \A w \in W : w <= Max(W \cup {0})
         /\ Max(W \cup {0}) \in 0 .. T
<1> DEFINE Has(X) == \E x \in X \cup {0} : \A y \in X \cup {0} : x >= y
           S == {k \in Nat : \A X : X \subseteq 1 .. k => Has(X)}
<1>1. 0 \in S
  <2>1. \A X : X \subseteq 1 .. 0 => X = {}
    OBVIOUS
  <2>2. Has({})
    OBVIOUS
  <2>. QED BY <2>1, <2>2
<1>2. ASSUME NEW k \in Nat, k \in S PROVE k + 1 \in S
  <2>. SUFFICES ASSUME NEW X, X \subseteq 1 .. k + 1 PROVE Has(X)
    OBVIOUS
  <2>1. CASE k + 1 \in X
    <3>1. \A y \in X \cup {0} : k + 1 >= y
      OBVIOUS
    <3>. QED BY <3>1, <2>1
  <2>2. CASE k + 1 \notin X
    <3>1. X \subseteq 1 .. k
      BY <2>2
    <3>. QED BY <3>1, <1>2
  <2>. QED BY <2>1, <2>2
<1>3. Has(W)
  <2>. HIDE DEF Has
  <2>1. T \in S
    BY <1>1, <1>2, SetInduction
  <2>. QED BY <2>1
<1>4. Max(W \cup {0}) \in W \cup {0} /\ \A y \in W \cup {0} : Max(W \cup {0}) >= y
  BY <1>3 DEF Max
<1>5. W \cup {0} \subseteq 0 .. T
  OBVIOUS
<1>. QED BY <1>4, <1>5

(* A number that is in the set, or 0, and below none of it is the largest. *)
LEMMA LargestIs ==
  ASSUME NEW T \in Nat, NEW W, W \subseteq 1 .. T, NEW x \in W \cup {0}, \A w \in W : w <= x
  PROVE  Max(W \cup {0}) = x
<1>1. Max(W \cup {0}) \in W \cup {0} /\ (\A w \in W : w <= Max(W \cup {0})) /\ Max(W \cup {0}) \in 0 .. T
  BY Largest
<1>2. x \in 0 .. T
  OBVIOUS
<1>. QED BY <1>1, <1>2

-----------------------------------------------------------------------------
(* Bags of contributions *)

(* The empty bag adds nothing. *)
LEMMA NothingAdded == \A B : IsABag(B) => EmptyBag (+) B = B /\ SetToBag({}) = EmptyBag
<1>. SUFFICES ASSUME NEW B, IsABag(B) PROVE EmptyBag (+) B = B /\ SetToBag({}) = EmptyBag
  OBVIOUS
<1>1. B \in [DOMAIN B -> {n \in Nat : n > 0}]
  BY DEF IsABag
<1>2. EmptyBag = SetToBag({})
  BY DEF EmptyBag
<1>3. EmptyBag (+) B = B
  BY <1>1 DEF EmptyBag, SetToBag, (+)
<1>. QED BY <1>2, <1>3

(* A contribution that is not yet in a bag is one more. *)
LEMMA OneMore ==
  ASSUME NEW S, NEW t, t \notin S
  PROVE  SetToBag(S \cup {t}) = SetToBag(S) (+) SetToBag({t})
<1>1. DOMAIN SetToBag(S) = S /\ DOMAIN SetToBag({t}) = {t} /\ DOMAIN SetToBag(S \cup {t}) = S \cup {t}
  BY DEF SetToBag
<1>2. \A e \in S \cup {t} :
         (IF e \in S THEN SetToBag(S)[e] ELSE 0) + (IF e \in {t} THEN SetToBag({t})[e] ELSE 0) = 1
  BY DEF SetToBag
<1>3. SetToBag(S) (+) SetToBag({t}) = [e \in S \cup {t} |-> 1]
  BY <1>1, <1>2 DEF (+)
<1>. QED BY <1>3 DEF SetToBag

-----------------------------------------------------------------------------
(* Places in the order of Base_Seq *)

(* The repetition and the number of a job can be read off its place. *)
LEMMA PlaceIs ==
  ASSUME NEW L \in Nat \ {0}, NEW r \in Nat \ {0}, NEW n \in 1 .. L
  PROVE  /\ InOrder(r, n, L) \in Nat \ {0}
         /\ ((InOrder(r, n, L) - 1) \div L) + 1 = r
         /\ ((InOrder(r, n, L) - 1) % L) + 1 = n
<1> DEFINE p == (r - 1) * L
           x == p + (n - 1)
<1>1. p \in Nat
  OBVIOUS
<1>2. x \in Nat /\ x \div L \in Int /\ x % L \in 0 .. L - 1 /\ x = L * (x \div L) + (x % L)
  <2>1. x \in Nat
    <3>. HIDE DEF p
    <3>. QED BY <1>1
  <2>. HIDE DEF x
  <2>. QED BY <2>1
<1> DEFINE q == x \div L
           m == x % L
<1>3. q = r - 1
  <2>1. x = L * q + m /\ m \in 0 .. L - 1 /\ x = L * (r - 1) + (n - 1) /\ q \in Int
    <3>1. x = L * (r - 1) + (n - 1)
      OBVIOUS
    <3>. HIDE DEF p, x
    <3>. QED BY <1>2, <3>1
  <2>2. L * (q - (r - 1)) = (n - 1) - m
    <3>. HIDE DEF q, m, x, p
    <3>. QED BY <2>1
  <2>3. (n - 1) - m \in Int /\ (n - 1) - m < L /\ (n - 1) - m > -L
    <3>. HIDE DEF q, m, x, p
    <3>. QED BY <2>1
  <2> DEFINE d == q - (r - 1)
  <2>4. d \in Int /\ L * d < L /\ L * d > -L
    <3>. HIDE DEF q, m, x, p
    <3>. QED BY <2>1, <2>2, <2>3
  <2>5. d = 0
    <3>. HIDE DEF d
    <3>1. ~ (d >= 1)
      BY <2>4
    <3>2. ~ (d <= -1)
      BY <2>4
    <3>. QED BY <3>1, <3>2, <2>4
  <2>. HIDE DEF q, m, x, p
  <2>. QED BY <2>5, <2>1
<1>4. m = n - 1
  <2>1. x = L * (r - 1) + (n - 1)
    OBVIOUS
  <2>2. L * (r - 1) \in Int
    OBVIOUS
  <2>. HIDE DEF x, p
  <2>. QED BY <1>2, <1>3, <2>1, <2>2
<1>5. InOrder(r, n, L) - 1 = x /\ InOrder(r, n, L) = x + 1
  <2>. HIDE DEF p
  <2>. QED BY <1>1 DEF InOrder, p
<1>. HIDE DEF x, p
<1>. QED BY <1>2, <1>3, <1>4, <1>5

(* Places are ordered by the repetition, then by the number of the job. *)
LEMMA PlacesAreOrdered ==
  ASSUME NEW L \in Nat \ {0}, NEW r \in Nat \ {0}, NEW n \in 1 .. L, NEW q \in Nat \ {0}, NEW m \in 1 .. L
  PROVE  InOrder(r, n, L) < InOrder(q, m, L) <=> r < q \/ (r = q /\ n < m)
<1> DEFINE a == (r - 1) * L
           b == (q - 1) * L
<1>0. a \in Nat /\ b \in Nat
  OBVIOUS
<1>1. InOrder(r, n, L) = a + n /\ InOrder(q, m, L) = b + m
  BY DEF InOrder
<1>2. r < q => a + L <= b
  <2>. HAVE r < q
  <2>1. r <= q - 1
    OBVIOUS
  <2>2. r * L <= (q - 1) * L
    BY <2>1
  <2>3. r * L = a + L
    OBVIOUS
  <2>. QED BY <2>2, <2>3
<1>3. q < r => b + L <= a
  <2>. HAVE q < r
  <2>1. q <= r - 1
    OBVIOUS
  <2>2. q * L <= (r - 1) * L
    BY <2>1
  <2>3. q * L = b + L
    OBVIOUS
  <2>. QED BY <2>2, <2>3
<1>4. r = q => a = b
  OBVIOUS
<1>. HIDE DEF a, b
<1>. QED BY <1>0, <1>1, <1>2, <1>3, <1>4

-----------------------------------------------------------------------------
(* The order of Base_Seq *)

(* The jobs of Base_Seq are told apart by their ids, stay inside the memory, and *)
(* take contributions along only to cells they write.                            *)
SeqIsPlain(k) ==
  LET jobs == SequentialJobs[k]
  IN  /\ k \in {p[1] : p \in Chosen}
      /\ IsList(jobs)
      /\ \A m, n \in DOMAIN jobs : jobs[m].id = jobs[n].id => m = n
      /\ \A n \in DOMAIN jobs : /\ DOMAIN jobs[n].from \subseteq jobs[n].w
                                /\ \A c \in DOMAIN jobs[n].from : jobs[n].from[c] \in jobs[n].r
                                /\ Inside(SetUpMemory(Catalog[k].data), jobs[n])

(* What Sequential says of a kernel, with its LETs expanded. *)
LEMMA SeqIs ==
  ASSUME NEW k, SeqIsPlain(k)
  PROVE  LET s == Sequential[k]
             jobs == SequentialJobs[k]
             start == SetUpMemory(Catalog[k].data)
         IN  /\ s.start = start
             /\ s.ids = [n \in DOMAIN jobs |-> jobs[n].id]
             /\ s.from = [n \in DOMAIN jobs |-> jobs[n].from]
             /\ s.place = [i \in {jobs[n].id : n \in DOMAIN jobs} |->
                             CHOOSE n \in DOMAIN jobs : jobs[n].id = i]
             /\ \A c : c \in DOMAIN s.writers <=> Holds(start, c)
             /\ DOMAIN s.adders = DOMAIN s.writers
             /\ \A c \in DOMAIN s.writers :
                  /\ s.writers[c] = InAllReps({n \in DOMAIN jobs : c \in jobs[n].w}, Len(jobs))
                  /\ s.adders[c] = InAllReps({n \in DOMAIN jobs : c \in jobs[n].a}, Len(jobs))
<1> DEFINE jobs == SequentialJobs[k]
           start == SetUpMemory(Catalog[k].data)
           cells == UNION {{<<x, i>> : i \in DOMAIN start[x]} : x \in DOMAIN start}
           wr == [c \in cells |-> InAllReps({n \in DOMAIN jobs : c \in jobs[n].w}, Len(jobs))]
           ad == [c \in cells |-> InAllReps({n \in DOMAIN jobs : c \in jobs[n].a}, Len(jobs))]
           ids == [n \in DOMAIN jobs |-> jobs[n].id]
           from == [n \in DOMAIN jobs |-> jobs[n].from]
           place == [i \in {jobs[n].id : n \in DOMAIN jobs} |->
                             CHOOSE n \in DOMAIN jobs : jobs[n].id = i]
<1>1. Sequential[k] = [start |-> start, ids |-> ids, from |-> from, place |-> place, writers |-> wr, adders |-> ad]
  <2>1. k \in {p[1] : p \in Chosen}
    BY Zenon DEF SeqIsPlain
  <2>. QED BY <2>1, Zenon DEF Sequential
<1>2. \A c : c \in cells <=> Holds(start, c)
  <2>. HIDE DEF start
  <2>1. ASSUME NEW c, c \in cells PROVE Holds(start, c)
    <3>1. PICK x \in DOMAIN start : c \in {<<x, i>> : i \in DOMAIN start[x]}
      BY <2>1
    <3>2. PICK i \in DOMAIN start[x] : c = <<x, i>>
      BY <3>1
    <3>. QED BY <3>1, <3>2 DEF Holds
  <2>2. ASSUME NEW c, Holds(start, c) PROVE c \in cells
    <3>1. c[1] \in DOMAIN start /\ c \in {<<c[1], i>> : i \in DOMAIN start[c[1]]}
      BY <2>2 DEF Holds
    <3>. QED BY <3>1
  <2>. QED BY <2>1, <2>2
<1>3. /\ DOMAIN wr = cells /\ DOMAIN ad = cells
      /\ \A c \in cells : /\ wr[c] = InAllReps({n \in DOMAIN jobs : c \in jobs[n].w}, Len(jobs))
                         /\ ad[c] = InAllReps({n \in DOMAIN jobs : c \in jobs[n].a}, Len(jobs))
  <2>. HIDE DEF cells, jobs
  <2>. QED BY Zenon
<1>4. /\ Sequential[k].start = start /\ Sequential[k].ids = ids /\ Sequential[k].from = from
      /\ Sequential[k].place = place /\ Sequential[k].writers = wr /\ Sequential[k].adders = ad
  <2>. HIDE DEF start, ids, from, place, wr, ad
  <2>. QED BY <1>1
<1>5. /\ \A c : c \in DOMAIN Sequential[k].writers <=> Holds(start, c)
      /\ DOMAIN Sequential[k].adders = DOMAIN Sequential[k].writers
  <2>. HIDE DEF start, wr, ad, cells
  <2>. QED BY <1>2, <1>3, <1>4, Zenon
<1>6. \A c \in DOMAIN Sequential[k].writers :
         /\ Sequential[k].writers[c] = InAllReps({n \in DOMAIN jobs : c \in jobs[n].w}, Len(jobs))
         /\ Sequential[k].adders[c] = InAllReps({n \in DOMAIN jobs : c \in jobs[n].a}, Len(jobs))
  <2>. HIDE DEF wr, ad, cells, jobs
  <2>. QED BY <1>3, <1>4, Zenon
<1>. QED BY <1>4, <1>5, <1>6, Zenon

SeqLen(k) == Len(SequentialJobs[k])
SeqPlaces(k) == InAllReps(1 .. SeqLen(k), SeqLen(k))        \* all places in the order
SeqJob(k, p) == SequentialJobs[k][((p - 1) % SeqLen(k)) + 1]     \* the job at place p

(* The place of job n in repetition r. *)
LEMMA SeqPlaceIs ==
  ASSUME NEW k, SeqIsPlain(k), NEW r \in 1 .. Reps, NEW n \in 1 .. SeqLen(k)
  PROVE  LET p == InOrder(r, n, SeqLen(k))
         IN  /\ p \in SeqPlaces(k)
             /\ SeqJob(k, p) = SequentialJobs[k][n]
             /\ ((p - 1) \div SeqLen(k)) + 1 = r /\ ((p - 1) % SeqLen(k)) + 1 = n
<1>1. SeqLen(k) \in Nat \ {0} /\ r \in Nat \ {0}
  BY CatalogAssumption DEF SeqIsPlain, IsList, SeqLen
<1>2. InOrder(r, n, SeqLen(k)) \in SeqPlaces(k)
  BY DEF SeqPlaces, InAllReps
<1> DEFINE L == SeqLen(k)
           p == InOrder(r, n, L)
<1>3. ((p - 1) \div L) + 1 = r /\ ((p - 1) % L) + 1 = n
  <2>. HIDE DEF L
  <2>. QED BY <1>1, PlaceIs DEF L
<1>4. SeqJob(k, p) = SequentialJobs[k][n]
  BY <1>3 DEF SeqJob
<1>. HIDE DEF p
<1>. QED BY <1>2, <1>3, <1>4 DEF p

(* Every place is that of a job. *)
LEMMA SeqPlacesAre ==
  ASSUME NEW k, SeqIsPlain(k), NEW p \in SeqPlaces(k)
  PROVE  \E r \in 1 .. Reps, n \in 1 .. SeqLen(k) :
            /\ p = InOrder(r, n, SeqLen(k)) /\ SeqJob(k, p) = SequentialJobs[k][n]
            /\ ((p - 1) \div SeqLen(k)) + 1 = r /\ ((p - 1) % SeqLen(k)) + 1 = n
<1>1. PICK r \in 1 .. Reps, n \in 1 .. SeqLen(k) : p = InOrder(r, n, SeqLen(k))
  BY DEF SeqPlaces, InAllReps
<1>. QED BY <1>1, SeqPlaceIs

(* There are as many places as jobs in all repetitions. *)
LEMMA SeqPlacesBounded ==
  ASSUME NEW k, SeqIsPlain(k)
  PROVE  /\ Reps * SeqLen(k) \in Nat
         /\ SeqPlaces(k) \subseteq 1 .. Reps * SeqLen(k)
<1>0. SeqLen(k) \in Nat /\ Reps \in Nat
  BY CatalogAssumption DEF SeqIsPlain, IsList, SeqLen
<1>1. Reps * SeqLen(k) \in Nat
  BY <1>0
<1>2. ASSUME NEW p \in SeqPlaces(k) PROVE p \in 1 .. Reps * SeqLen(k)
  <2>1. PICK r \in 1 .. Reps, n \in 1 .. SeqLen(k) : p = InOrder(r, n, SeqLen(k))
    BY SeqPlacesAre
  <2> DEFINE L == SeqLen(k)
  <2>2. (r - 1) * L \in Nat /\ (r - 1) * L <= (Reps - 1) * L /\ (Reps - 1) * L + L = Reps * L
    <3>1. r - 1 \in Nat /\ Reps - 1 \in Nat /\ r - 1 <= Reps - 1
      BY <1>0
    <3>. HIDE DEF L
    <3>2. L \in Nat
      BY <1>0 DEF L
    <3>. QED BY <1>0, <3>1, <3>2
  <2> DEFINE a == (r - 1) * L
             b == (Reps - 1) * L
             T == Reps * L
  <2>3. p = a + n /\ n \in 1 .. L /\ a \in Nat /\ a <= b /\ b + L = T /\ L \in Nat /\ b \in Int
    BY <2>1, <2>2, <1>0 DEF InOrder
  <2>4. p \in 1 .. T
    <3>. HIDE DEF a, b, T, L
    <3>. QED BY <2>3
  <2>. QED BY <2>4
<1>. QED BY <1>1, <1>2

(* The writers and adders of a cell are the places of the jobs that write it *)
(* and add to it, and places have different tags.                            *)
LEMMA SeqOrderIs ==
  ASSUME NEW k, SeqIsPlain(k)
  PROVE  LET s == Sequential[k]
         IN  /\ \A p \in SeqPlaces(k) : /\ Tag(s, p)[2] = SeqJob(k, p).id
                                         /\ From(s, p) = SeqJob(k, p).from
             /\ \A c \in DOMAIN s.writers :
                  /\ s.writers[c] = {p \in SeqPlaces(k) : c \in SeqJob(k, p).w}
                  /\ s.adders[c] = {p \in SeqPlaces(k) : c \in SeqJob(k, p).a}
             /\ \A p, q \in SeqPlaces(k) : Tag(s, p) = Tag(s, q) => p = q
             /\ \A r \in 1 .. Reps, n \in 1 .. SeqLen(k) :
                  Tag(s, InOrder(r, n, SeqLen(k))) = <<r, SequentialJobs[k][n].id>>
<1> DEFINE s == Sequential[k]
           L == SeqLen(k)
           jobs == SequentialJobs[k]
<1>1. /\ DOMAIN jobs = 1 .. L /\ L \in Nat
      /\ \A m, n \in DOMAIN jobs : jobs[m].id = jobs[n].id => m = n
  BY DEF SeqIsPlain, IsList, SeqLen
<1>2. s.ids = [n \in 1 .. L |-> jobs[n].id] /\ s.from = [n \in 1 .. L |-> jobs[n].from]
  <2>1. s.ids = [n \in DOMAIN jobs |-> jobs[n].id] /\ s.from = [n \in DOMAIN jobs |-> jobs[n].from]
    BY SeqIs
  <2>. HIDE DEF s, jobs, L
  <2>. QED BY <1>1, <2>1
<1>3. Len(s.ids) = L
  <2>. HIDE DEF L, jobs, s
  <2>. QED BY <1>1, <1>2, LengthIs
<1>4. ASSUME NEW p \in SeqPlaces(k), NEW r \in 1 .. Reps, NEW n \in 1 .. L,
             ((p - 1) \div L) + 1 = r, ((p - 1) % L) + 1 = n
      PROVE  Tag(s, p) = <<r, jobs[n].id>> /\ From(s, p) = jobs[n].from
  <2>. HIDE DEF L, jobs, s
  <2>. QED BY <1>2, <1>3, <1>4 DEF Tag, From
<1>5. \A p \in SeqPlaces(k) : Tag(s, p)[2] = SeqJob(k, p).id /\ From(s, p) = SeqJob(k, p).from
  <2>. TAKE p \in SeqPlaces(k)
  <2>1. PICK r \in 1 .. Reps, n \in 1 .. L :
            /\ p = InOrder(r, n, L) /\ SeqJob(k, p) = jobs[n]
            /\ ((p - 1) \div L) + 1 = r /\ ((p - 1) % L) + 1 = n
    BY SeqPlacesAre
  <2>. HIDE DEF L, jobs, s
  <2>. QED BY <1>4, <2>1
<1>6. ASSUME NEW c \in DOMAIN s.writers
      PROVE  /\ s.writers[c] = {p \in SeqPlaces(k) : c \in SeqJob(k, p).w}
             /\ s.adders[c] = {p \in SeqPlaces(k) : c \in SeqJob(k, p).a}
  <2>0. /\ s.writers[c] = InAllReps({n \in DOMAIN jobs : c \in jobs[n].w}, Len(jobs))
        /\ s.adders[c] = InAllReps({n \in DOMAIN jobs : c \in jobs[n].a}, Len(jobs))
    BY SeqIs
  <2>1. /\ s.writers[c] = InAllReps({n \in 1 .. L : c \in jobs[n].w}, L)
        /\ s.adders[c] = InAllReps({n \in 1 .. L : c \in jobs[n].a}, L)
    <3>1. Len(jobs) = L
      BY DEF SeqLen
    <3>. HIDE DEF s, jobs, L
    <3>. QED BY <1>1, <2>0, <3>1
  <2>2. \A p : p \in SeqPlaces(k) <=>
             \E r \in 1 .. Reps, n \in 1 .. L : p = InOrder(r, n, L) /\ SeqJob(k, p) = jobs[n]
    BY SeqPlacesAre, SeqPlaceIs
  <2>. HIDE DEF L, jobs, s
  <2>3. \A r \in 1 .. Reps, n \in 1 .. L : SeqJob(k, InOrder(r, n, L)) = jobs[n]
    BY SeqPlaceIs DEF L, jobs
  <2>4. s.writers[c] = {p \in SeqPlaces(k) : c \in SeqJob(k, p).w}
    <3>1. ASSUME NEW p PROVE p \in InAllReps({n \in 1 .. L : c \in jobs[n].w}, L)
                              <=> p \in SeqPlaces(k) /\ c \in SeqJob(k, p).w
      <4>1. p \in InAllReps({n \in 1 .. L : c \in jobs[n].w}, L)
              <=> \E r \in 1 .. Reps, n \in 1 .. L : p = InOrder(r, n, L) /\ c \in jobs[n].w
        BY DEF InAllReps
      <4>. QED BY <4>1, <2>2, <2>3
    <3>. QED BY <2>1, <3>1
  <2>5. s.adders[c] = {p \in SeqPlaces(k) : c \in SeqJob(k, p).a}
    <3>1. ASSUME NEW p PROVE p \in InAllReps({n \in 1 .. L : c \in jobs[n].a}, L)
                              <=> p \in SeqPlaces(k) /\ c \in SeqJob(k, p).a
      <4>1. p \in InAllReps({n \in 1 .. L : c \in jobs[n].a}, L)
              <=> \E r \in 1 .. Reps, n \in 1 .. L : p = InOrder(r, n, L) /\ c \in jobs[n].a
        BY DEF InAllReps
      <4>. QED BY <4>1, <2>2, <2>3
    <3>. QED BY <2>1, <3>1
  <2>. QED BY <2>4, <2>5
<1>7. ASSUME NEW p \in SeqPlaces(k), NEW q \in SeqPlaces(k), Tag(s, p) = Tag(s, q) PROVE p = q
  <2>1. PICK r \in 1 .. Reps, n \in 1 .. L :
            /\ p = InOrder(r, n, L) /\ ((p - 1) \div L) + 1 = r /\ ((p - 1) % L) + 1 = n
    BY SeqPlacesAre
  <2>2. PICK x \in 1 .. Reps, m \in 1 .. L :
            /\ q = InOrder(x, m, L) /\ ((q - 1) \div L) + 1 = x /\ ((q - 1) % L) + 1 = m
    BY SeqPlacesAre
  <2>. HIDE DEF L, jobs, s
  <2>3. Tag(s, p) = <<r, jobs[n].id>> /\ Tag(s, q) = <<x, jobs[m].id>>
    BY <1>4, <2>1, <2>2
  <2>4. r = x /\ n = m
    BY <2>3, <1>7, <1>1
  <2>. QED BY <2>1, <2>2, <2>4
<1>8. \A r \in 1 .. Reps, n \in 1 .. L : Tag(s, InOrder(r, n, L)) = <<r, jobs[n].id>>
  <2>. TAKE r \in 1 .. Reps, n \in 1 .. L
  <2>1. LET p == InOrder(r, n, L)
        IN  p \in SeqPlaces(k) /\ ((p - 1) \div L) + 1 = r /\ ((p - 1) % L) + 1 = n
    BY SeqPlaceIs
  <2>. HIDE DEF L, jobs, s
  <2>. QED BY <1>4, <2>1
<1>. QED BY <1>5, <1>6, <1>7, <1>8

(* What Base_Seq leaves before each place is defined by recursion over the places. *)
SeqStep(k, b, m) == [d \in DOMAIN Sequential[k].writers |-> ValueAfter(Sequential[k], b, d, 1 .. m - 1)]
IsBefore(k, b) == b = [m \in Nat |-> SeqStep(k, b, m)]
SeqBefore(k) == CHOOSE b : IsBefore(k, b)

(* The last writer is a place, or 0 before the first. *)
LEMMA LastWriterIs ==
  ASSUME NEW k, SeqIsPlain(k), NEW d \in DOMAIN Sequential[k].writers, NEW E
  PROVE  LET W == Sequential[k].writers[d] \cap E
             last == LastWriter(Sequential[k], d, E)
         IN  /\ last \in W \cup {0} /\ last \in Nat
             /\ \A w \in W : w <= last
             /\ \A x \in W \cup {0} : (\A w \in W : w <= x) => last = x
<1> DEFINE W == Sequential[k].writers[d] \cap E
           T == Reps * SeqLen(k)
<1>1. T \in Nat /\ W \subseteq 1 .. T
  BY SeqOrderIs, SeqPlacesBounded
<1>2. LastWriter(Sequential[k], d, E) = Max(W \cup {0})
  BY DEF LastWriter
<1>3. /\ Max(W \cup {0}) \in W \cup {0}
      /\ \A w \in W : w <= Max(W \cup {0})
      /\ Max(W \cup {0}) \in 0 .. T
  <2>. HIDE DEF W, T
  <2>. QED BY <1>1, Largest
<1>4. ASSUME NEW x \in W \cup {0}, \A w \in W : w <= x PROVE Max(W \cup {0}) = x
  <2>. HIDE DEF W, T
  <2>. QED BY <1>1, <1>4, LargestIs
<1>. QED BY <1>2, <1>3, <1>4

(* What is before a place depends on earlier places only. *)
LEMMA StepIsLocal ==
  ASSUME NEW k, SeqIsPlain(k), NEW m \in Nat, NEW b, NEW c,
         \A l \in 1 .. m - 1 : b[l] = c[l]
  PROVE  SeqStep(k, b, m) = SeqStep(k, c, m)
<1> DEFINE s == Sequential[k]
           E == 1 .. m - 1
<1>1. ASSUME NEW d \in DOMAIN s.writers PROVE ValueAfter(s, b, d, E) = ValueAfter(s, c, d, E)
  <2> DEFINE last == LastWriter(s, d, E)
  <2>1. last \in E \cup {0}
    BY LastWriterIs
  <2>2. CASE last = 0
    <3>. HIDE DEF s, E
    <3>. QED BY <2>2, Zenon DEF ValueAfter
  <2>3. CASE last # 0
    <3>1. b[last] = c[last]
      BY <2>1, <2>3
    <3>. HIDE DEF s, E
    <3>. QED BY <3>1, <2>3, Zenon DEF ValueAfter
  <2>. QED BY <2>2, <2>3
<1>. HIDE DEF s, E
<1>. QED BY <1>1, Zenon DEF SeqStep, s, E

(* So the recursion over the places has a solution. *)
LEMMA BeforeExists ==
  ASSUME NEW k, SeqIsPlain(k)
  PROVE  \E b : IsBefore(k, b)
<1> DEFINE Goes(b, K) == \A m \in 0 .. K : b[m] = SeqStep(k, b, m)
           S == {K \in Nat : \E b : Goes(b, K)}
           T == {K \in Nat : \A b, c : Goes(b, K) /\ Goes(c, K) => \A m \in 0 .. K : b[m] = c[m]}
<1>1. \A K \in Nat : K \in S
  <2>1. 0 \in S
    <3> DEFINE b == [m \in Nat |-> SeqStep(k, <<>>, 0)]
    <3>1. b[0] = SeqStep(k, <<>>, 0)
      OBVIOUS
    <3>2. SeqStep(k, <<>>, 0) = SeqStep(k, b, 0)
      <4>. HIDE DEF b
      <4>1. \A l \in 1 .. 0 - 1 : <<>>[l] = b[l]
        OBVIOUS
      <4>. QED BY <4>1, StepIsLocal
    <3>3. Goes(b, 0)
      <4>. HIDE DEF b
      <4>. QED BY <3>1, <3>2
    <3>. HIDE DEF b, Goes
    <3>. QED BY <3>3
  <2>2. ASSUME NEW K \in Nat, K \in S PROVE K + 1 \in S
    <3>1. PICK b : Goes(b, K)
      BY <2>2
    <3> DEFINE t == [m \in Nat |-> IF m = K + 1 THEN SeqStep(k, b, K + 1) ELSE b[m]]
    <3>2. \A l \in 0 .. K : t[l] = b[l]
      OBVIOUS
    <3>3. t[K + 1] = SeqStep(k, b, K + 1)
      OBVIOUS
    <3>4. ASSUME NEW m \in 0 .. K + 1 PROVE t[m] = SeqStep(k, t, m)
      <4>. HIDE DEF t
      <4>1. \A l \in 1 .. m - 1 : b[l] = t[l]
        BY <3>2
      <4>2. SeqStep(k, b, m) = SeqStep(k, t, m)
        BY <4>1, StepIsLocal
      <4>3. CASE m = K + 1
        BY <4>2, <4>3, <3>3
      <4>4. CASE m # K + 1
        <5>1. m \in 0 .. K
          BY <4>4
        <5>. QED BY <5>1, <4>2, <3>1, <3>2
      <4>. QED BY <4>3, <4>4
    <3>5. Goes(t, K + 1)
      <4>. HIDE DEF t
      <4>. QED BY <3>4
    <3>. HIDE DEF Goes
    <3>. QED BY <3>5
  <2>. HIDE DEF S
  <2>. QED BY <2>1, <2>2, SetInduction
<1>2. \A K \in Nat : K \in T
  <2>1. 0 \in T
    <3>. SUFFICES ASSUME NEW b, NEW c, Goes(b, 0), Goes(c, 0) PROVE b[0] = c[0]
      OBVIOUS
    <3>1. b[0] = SeqStep(k, b, 0) /\ c[0] = SeqStep(k, c, 0)
      OBVIOUS
    <3>2. \A l \in 1 .. 0 - 1 : b[l] = c[l]
      OBVIOUS
    <3>3. SeqStep(k, b, 0) = SeqStep(k, c, 0)
      BY <3>2, StepIsLocal
    <3>. QED BY <3>1, <3>3
  <2>2. ASSUME NEW K \in Nat, K \in T PROVE K + 1 \in T
    <3>. SUFFICES ASSUME NEW b, NEW c, Goes(b, K + 1), Goes(c, K + 1), NEW m \in 0 .. K + 1 PROVE b[m] = c[m]
      OBVIOUS
    <3>1. Goes(b, K) /\ Goes(c, K)
      OBVIOUS
    <3>2. \A l \in 0 .. K : b[l] = c[l]
      <4>. HIDE DEF Goes
      <4>. QED BY <2>2, <3>1
    <3>3. \A l \in 1 .. m - 1 : b[l] = c[l]
      <4>. HIDE DEF Goes
      <4>. QED BY <3>2
    <3>4. SeqStep(k, b, m) = SeqStep(k, c, m)
      <4>. HIDE DEF Goes
      <4>. QED BY <3>3, StepIsLocal
    <3>5. b[m] = SeqStep(k, b, m) /\ c[m] = SeqStep(k, c, m)
      OBVIOUS
    <3>. QED BY <3>4, <3>5
  <2>. HIDE DEF T
  <2>. QED BY <2>1, <2>2, SetInduction
<1> DEFINE chain == [K \in Nat |-> CHOOSE b : Goes(b, K)]
           f == [K \in Nat |-> chain[K][K]]
<1>3. \A K \in Nat : Goes(chain[K], K)
  <2>1. \A K \in Nat : \E b : Goes(b, K)
    BY <1>1
  <2>. HIDE DEF Goes
  <2>. QED BY <2>1
<1>4. ASSUME NEW m \in Nat, NEW l \in 0 .. m PROVE f[l] = chain[m][l]
  <2>1. Goes(chain[m], m) /\ Goes(chain[l], l)
    <3>. HIDE DEF Goes, chain
    <3>. QED BY <1>3
  <2>2. Goes(chain[m], l)
    <3>. HIDE DEF chain
    <3>. QED BY <2>1
  <2>3. chain[l][l] = chain[m][l]
    <3>. HIDE DEF Goes, chain
    <3>. QED BY <2>1, <2>2, <1>2
  <2>. HIDE DEF chain
  <2>. QED BY <2>3
<1>5. ASSUME NEW m \in Nat PROVE f[m] = SeqStep(k, f, m)
  <2>1. \A l \in 1 .. m - 1 : f[l] = chain[m][l]
    <3>. HIDE DEF f, chain
    <3>. QED BY <1>4
  <2>2. SeqStep(k, f, m) = SeqStep(k, chain[m], m)
    <3>. HIDE DEF f, chain
    <3>. QED BY <2>1, StepIsLocal
  <2>3. chain[m][m] = SeqStep(k, chain[m], m)
    <3>1. Goes(chain[m], m)
      BY <1>3
    <3>. HIDE DEF chain
    <3>. QED BY <3>1
  <2>4. f[m] = chain[m][m]
    <3>. HIDE DEF chain
    <3>. QED OBVIOUS
  <2>. HIDE DEF f, chain
  <2>. QED BY <2>2, <2>3, <2>4
<1>6. f = [m \in Nat |-> f[m]]
  <2>. HIDE DEF chain
  <2>. QED OBVIOUS
<1>7. IsBefore(k, f)
  <2>. HIDE DEF f
  <2>. QED BY <1>5, <1>6 DEF IsBefore
<1>. QED BY <1>7

(* The value that Base_Seq leaves in a cell before a place. *)
LEMMA SequentialValueIs ==
  ASSUME kernel \in {p[1] : p \in Chosen}, SeqIsPlain(kernel)
  PROVE  LET s == Sequential[kernel]
             b == SeqBefore(kernel)
         IN  /\ \A c : \A n : SequentialValue(c, n) = b[n][c]
             /\ \A n \in Nat : \A c \in DOMAIN s.writers : b[n][c] = ValueAfter(s, b, c, 1 .. n - 1)
<1> DEFINE s == Sequential[kernel]
           b == SeqBefore(kernel)
<1>1. IsBefore(kernel, b)
  BY BeforeExists, Zenon DEF SeqBefore
<1>2. \A c : \A n : SequentialValue(c, n) = b[n][c]
  BY Zenon DEF SequentialValue, SeqBefore, IsBefore, SeqStep
<1>3. ASSUME NEW n \in Nat, NEW c \in DOMAIN s.writers PROVE b[n][c] = ValueAfter(s, b, c, 1 .. n - 1)
  <2>. HIDE DEF b
  <2>1. b[n] = SeqStep(kernel, b, n)
    BY <1>1 DEF IsBefore
  <2>. QED BY <2>1 DEF SeqStep
<1>. QED BY <1>2, <1>3

-----------------------------------------------------------------------------
(* What a job of Base_Seq does to the values *)

(* setUp leaves cells that it wrote or that are raw, without contributions. *)
LEMMA SetUpValues == \A d : \A c : Holds(SetUpMemory(d), c) => In(SetUpMemory(d), c) \in {Raw, Start}
<1>. TAKE d
<1>. TAKE c
<1>1. \A x \in DOMAIN SetUpMemory(d) : \A i \in DOMAIN SetUpMemory(d)[x] :
         SetUpMemory(d)[x][i] = Raw \/ SetUpMemory(d)[x][i] = Start
  BY DEF SetUpMemory
<1>. QED BY <1>1 DEF Holds, In

(* b has what is in every cell before each place. *)
BeforeAre(k, b) ==
  \A n \in Nat : \A c \in DOMAIN Sequential[k].writers :
     b[n][c] = ValueAfter(Sequential[k], b, c, 1 .. n - 1)

(* What is in c after the places E, without recursion. *)
ValueRule(k, b, c, E) ==
  LET s == Sequential[k]
      last == LastWriter(s, c, E)
      added == AddedSince(s, c, E, last)
      v == ValueAfter(s, b, c, E)
  IN  /\ last = 0 => v.by = In(s.start, c).by /\ v.plus = added
      /\ last # 0 => /\ last \in SeqPlaces(k) /\ last \in E /\ c \in SeqJob(k, last).w
                     /\ v.by = Tag(s, last)
                     /\ v.plus = IF c \in DOMAIN SeqJob(k, last).from
                                 THEN added (+) b[last][SeqJob(k, last).from[c]].plus ELSE added
      /\ v = [by |-> v.by, plus |-> v.plus]

(* The value after a place, by the last that wrote the cell. *)
LEMMA ValueIs ==
  ASSUME NEW k, SeqIsPlain(k), NEW b, NEW E,
         NEW c \in DOMAIN Sequential[k].writers
  PROVE  ValueRule(k, b, c, E)
<1> DEFINE s == Sequential[k]
           last == LastWriter(s, c, E)
           added == AddedSince(s, c, E, last)
           v == ValueAfter(s, b, c, E)
<1>. SUFFICES /\ last = 0 => v.by = In(s.start, c).by /\ v.plus = added
              /\ last # 0 => /\ last \in SeqPlaces(k) /\ last \in E /\ c \in SeqJob(k, last).w
                             /\ v.by = Tag(s, last)
                             /\ v.plus = IF c \in DOMAIN SeqJob(k, last).from
                                         THEN added (+) b[last][SeqJob(k, last).from[c]].plus ELSE added
              /\ v = [by |-> v.by, plus |-> v.plus]
  BY Zenon DEF ValueRule
<1>1. CASE last = 0
  <2>1. In(s.start, c) \in {Raw, Start}
    BY SeqIs, SetUpValues
  <2>. HIDE DEF s
  <2>2. v = [In(s.start, c) EXCEPT !.plus = added]
    BY <1>1, Zenon DEF ValueAfter
  <2>3. v = [by |-> In(s.start, c).by, plus |-> added]
    <3>. HIDE DEF v, added
    <3>. QED BY <2>1, <2>2 DEF Raw, Start
  <2>. HIDE DEF v, added, last
  <2>. QED BY <2>3, <1>1
<1>2. CASE last # 0
  <2>1. last \in s.writers[c] /\ last \in E
    BY <1>2, LastWriterIs
  <2>2. last \in SeqPlaces(k) /\ c \in SeqJob(k, last).w
    BY <2>1, SeqOrderIs
  <2>3. From(s, last) = SeqJob(k, last).from
    BY <2>2, SeqOrderIs
  <2>. HIDE DEF s
  <2>4. v = [by   |-> Tag(s, last),
             plus |-> IF c \in DOMAIN From(s, last) THEN added (+) b[last][From(s, last)[c]].plus ELSE added]
    BY <1>2, Zenon DEF ValueAfter
  <2>5. v = [by   |-> Tag(s, last),
             plus |-> IF c \in DOMAIN SeqJob(k, last).from THEN added (+) b[last][SeqJob(k, last).from[c]].plus ELSE added]
    <3>. HIDE DEF v, added, last
    <3>. QED BY <2>3, <2>4, Zenon
  <2>. HIDE DEF v, added, last
  <2>. QED BY <2>1, <2>2, <2>5, <1>2
<1>. QED BY <1>1, <1>2

(* The cells of a job of Base_Seq are in the memory. *)
LEMMA SeqCellsHold ==
  ASSUME NEW k, SeqIsPlain(k), NEW p \in SeqPlaces(k)
  PROVE  LET j == SeqJob(k, p)
         IN  /\ \A c \in j.r \cup j.w \cup j.a : c \in DOMAIN Sequential[k].writers
             /\ DOMAIN j.from \subseteq j.w
             /\ \A c \in DOMAIN j.from : j.from[c] \in j.r /\ j.from[c] \in DOMAIN Sequential[k].writers
<1>1. PICK n \in 1 .. SeqLen(k) : SeqJob(k, p) = SequentialJobs[k][n]
  BY SeqPlacesAre
<1>2. n \in DOMAIN SequentialJobs[k]
  BY DEF SeqIsPlain, IsList, SeqLen
<1>3. /\ DOMAIN SeqJob(k, p).from \subseteq SeqJob(k, p).w
      /\ \A c \in DOMAIN SeqJob(k, p).from : SeqJob(k, p).from[c] \in SeqJob(k, p).r
      /\ Inside(SetUpMemory(Catalog[k].data), SeqJob(k, p))
  BY <1>1, <1>2, Zenon DEF SeqIsPlain
<1>4. \A c \in SeqJob(k, p).r \cup SeqJob(k, p).w \cup SeqJob(k, p).a : c \in DOMAIN Sequential[k].writers
  BY <1>3, SeqIs DEF Inside
<1>. QED BY <1>3, <1>4

(* Contributions are a bag at every place. *)
LEMMA BeforeBags ==
  ASSUME NEW k, SeqIsPlain(k), NEW b, BeforeAre(k, b)
  PROVE  \A n \in Nat : \A c \in DOMAIN Sequential[k].writers : IsABag(b[n][c].plus)
<1> DEFINE s == Sequential[k]
           S == {n \in Nat : \A m \in 0 .. n : \A c \in DOMAIN s.writers : IsABag(b[m][c].plus)}
<1>1. ASSUME NEW n \in Nat, NEW c \in DOMAIN s.writers,
             \A m \in 1 .. n - 1 : \A d \in DOMAIN s.writers : IsABag(b[m][d].plus)
      PROVE  IsABag(b[n][c].plus)
  <2> DEFINE E == 1 .. n - 1
             last == LastWriter(s, c, E)
             added == AddedSince(s, c, E, last)
  <2>1. IsABag(added)
    BY SetsAreBags DEF AddedSince
  <2> DEFINE v == ValueAfter(s, b, c, E)
  <2>2. b[n][c] = v
    BY DEF BeforeAre
  <2>w. ValueRule(k, b, c, E)
    BY ValueIs
  <2>v. /\ last = 0 => v.plus = added
        /\ last # 0 => /\ last \in SeqPlaces(k) /\ last \in E
                       /\ v.plus = IF c \in DOMAIN SeqJob(k, last).from
                                   THEN added (+) b[last][SeqJob(k, last).from[c]].plus ELSE added
    BY <2>w, Zenon DEF ValueRule
  <2>. HIDE DEF v
  <2>3. CASE last = 0
    <3>1. b[n][c].plus = added
      <4>. HIDE DEF last, added
      <4>. QED BY <2>2, <2>3, <2>v
    <3>. QED BY <3>1, <2>1
  <2>4. CASE last # 0
    <3> DEFINE G == b[last][SeqJob(k, last).from[c]].plus
    <3>1. /\ last \in SeqPlaces(k) /\ last \in E
          /\ b[n][c].plus = IF c \in DOMAIN SeqJob(k, last).from THEN added (+) G ELSE added
      <4>. HIDE DEF last, added
      <4>. QED BY <2>2, <2>4, <2>v
    <3>2. c \in DOMAIN SeqJob(k, last).from => SeqJob(k, last).from[c] \in DOMAIN s.writers
      BY <3>1, SeqCellsHold
    <3>3. c \in DOMAIN SeqJob(k, last).from => IsABag(G)
      BY <3>1, <3>2, <1>1
    <3>. HIDE DEF added, G, last
    <3>4. c \in DOMAIN SeqJob(k, last).from => IsABag(added (+) G)
      BY <2>1, <3>3, SumsSwap
    <3>. QED BY <3>1, <3>4, <2>1
  <2>. QED BY <2>3, <2>4
<1>. HIDE DEF s
<1>2. 0 \in S
  <2>1. \A m \in 1 .. 0 - 1 : FALSE
    OBVIOUS
  <2>2. \A m \in 0 .. 0 : m = 0
    OBVIOUS
  <2>. QED BY <2>1, <2>2, <1>1
<1>3. ASSUME NEW n \in Nat, n \in S PROVE n + 1 \in S
  <2>1. \A m \in 1 .. (n + 1) - 1 : \A d \in DOMAIN s.writers : IsABag(b[m][d].plus)
    BY <1>3
  <2>2. \A c \in DOMAIN s.writers : IsABag(b[n + 1][c].plus)
    BY <2>1, <1>1
  <2>3. \A m \in 0 .. n + 1 : m \in 0 .. n \/ m = n + 1
    OBVIOUS
  <2>. QED BY <2>2, <2>3, <1>3
<1>4. \A n \in Nat : n \in S
  <2>. HIDE DEF S
  <2>. QED BY <1>2, <1>3, SetInduction
<1>5. \A n \in Nat : n \in 0 .. n
  OBVIOUS
<1>. QED BY <1>4, <1>5 DEF s

(* E has, of the jobs that conflict with the one at p, those before it. *)
InPlace(k, p, E) ==
  \A q \in SeqPlaces(k) : q # p /\ Conflict(SeqJob(k, p), SeqJob(k, q)) => (q \in E <=> q < p)

(* A cell that the job at p reads has the value that it has in Base_Seq. *)
LEMMA ReadInPlace ==
  ASSUME NEW k, SeqIsPlain(k), NEW b, NEW p \in SeqPlaces(k),
         NEW E, p \notin E, InPlace(k, p, E), NEW c \in SeqJob(k, p).r
  PROVE  ValueAfter(Sequential[k], b, c, E) = ValueAfter(Sequential[k], b, c, 1 .. p - 1)
<1> DEFINE s == Sequential[k]
           F == 1 .. p - 1
<1>1. c \in DOMAIN s.writers
  BY SeqCellsHold
<1>2. p \in Nat /\ \A q \in SeqPlaces(k) : q \in Nat \ {0}
  BY SeqPlacesBounded
<1>3. ASSUME NEW q \in SeqPlaces(k), c \in SeqJob(k, q).w \/ c \in SeqJob(k, q).a
      PROVE  q \in E <=> q \in F
  <2>1. Conflict(SeqJob(k, p), SeqJob(k, q))
    BY <1>3 DEF Conflict
  <2>2. q # p => (q \in E <=> q < p)
    BY <2>1 DEF InPlace
  <2>. QED BY <2>2, <1>2
<1>4. s.writers[c] \cap E = s.writers[c] \cap F /\ s.adders[c] \cap E = s.adders[c] \cap F
  <2>1. /\ s.writers[c] = {q \in SeqPlaces(k) : c \in SeqJob(k, q).w}
        /\ s.adders[c] = {q \in SeqPlaces(k) : c \in SeqJob(k, q).a}
    BY <1>1, SeqOrderIs
  <2>. HIDE DEF s, F
  <2>. QED BY <2>1, <1>3
<1>. HIDE DEF s, F
<1>. QED BY <1>4, Zenon DEF ValueAfter, LastWriter, AddedSince, s, F

(* A job that is the same does the same to the memory. *)
LEMMA SameUse ==
  ASSUME NEW s, NEW b, NEW c, NEW E, NEW F,
         s.writers[c] \cap E = s.writers[c] \cap F, s.adders[c] \cap E = s.adders[c] \cap F
  PROVE  /\ LastWriter(s, c, E) = LastWriter(s, c, F)
         /\ ValueAfter(s, b, c, E) = ValueAfter(s, b, c, F)
BY Zenon DEF ValueAfter, LastWriter, AddedSince

(* A job leaves the cells alone that it does not write or add to. *)
LEMMA LeftAlone ==
  ASSUME NEW k, SeqIsPlain(k), NEW b, NEW p \in SeqPlaces(k), NEW E,
         NEW c \in DOMAIN Sequential[k].writers, c \notin SeqJob(k, p).w, c \notin SeqJob(k, p).a
  PROVE  ValueAfter(Sequential[k], b, c, E \cup {p}) = ValueAfter(Sequential[k], b, c, E)
<1> DEFINE s == Sequential[k]
<1>1. p \notin s.writers[c] /\ p \notin s.adders[c]
  BY SeqOrderIs
<1>. HIDE DEF s
<1>. QED BY <1>1, SameUse DEF s

(* A cell that a job writes has its value from there. *)
LEMMA WrittenAt ==
  ASSUME NEW k, SeqIsPlain(k), NEW b, BeforeAre(k, b),
         NEW p \in SeqPlaces(k), NEW E, p \notin E, InPlace(k, p, E),
         NEW c \in DOMAIN Sequential[k].writers, c \in SeqJob(k, p).w
  PROVE  LET j == SeqJob(k, p)
         IN  ValueAfter(Sequential[k], b, c, E \cup {p}) =
               [by   |-> Tag(Sequential[k], p),
                plus |-> IF c \in DOMAIN j.from THEN b[p][j.from[c]].plus ELSE EmptyBag]
<1> DEFINE s == Sequential[k]
           j == SeqJob(k, p)
           F == E \cup {p}
           last == LastWriter(s, c, F)
           added == AddedSince(s, c, F, last)
           v == ValueAfter(s, b, c, F)
           G == b[p][j.from[c]].plus
<1>. SUFFICES v = [by |-> Tag(s, p), plus |-> IF c \in DOMAIN j.from THEN G ELSE EmptyBag]
  OBVIOUS
<1>1. /\ p \in Nat \ {0} /\ \A q \in SeqPlaces(k) : q \in Nat
      /\ s.writers[c] = {q \in SeqPlaces(k) : c \in SeqJob(k, q).w}
      /\ s.adders[c] = {q \in SeqPlaces(k) : c \in SeqJob(k, q).a}
  BY SeqOrderIs, SeqPlacesBounded
<1>2. \A q \in SeqPlaces(k) : (c \in SeqJob(k, q).w \/ c \in SeqJob(k, q).a) /\ q \in F => q <= p
  <2>. TAKE q \in SeqPlaces(k)
  <2>. HAVE (c \in SeqJob(k, q).w \/ c \in SeqJob(k, q).a) /\ q \in F
  <2>1. Conflict(j, SeqJob(k, q))
    BY DEF Conflict
  <2>2. q # p => q < p
    BY <2>1 DEF InPlace
  <2>. QED BY <2>2, <1>1
<1>3. last = p
  <2>1. p \in s.writers[c] \cap F /\ \A w \in s.writers[c] \cap F : w <= p
    <3>. HIDE DEF s, F
    <3>. QED BY <1>1, <1>2 DEF F
  <2>2. LET W == s.writers[c] \cap F
        IN  \A x \in W \cup {0} : (\A w \in W : w <= x) => last = x
    BY LastWriterIs
  <2>. HIDE DEF s, F, last
  <2>. QED BY <2>1, <2>2
<1>4. added = EmptyBag
  <2>1. {m \in s.adders[c] \cap F : p < m} = {}
    <3>1. \A m \in s.adders[c] \cap F : m \in SeqPlaces(k) /\ c \in SeqJob(k, m).a /\ m \in F
      <4>. HIDE DEF F
      <4>. QED BY <1>1
    <3>. HIDE DEF s, F, j
    <3>2. \A m \in s.adders[c] \cap F : m <= p /\ m \in Nat /\ p \in Nat
      BY <1>1, <1>2, <3>1
    <3>3. \A m \in s.adders[c] \cap F : ~ (p < m)
      BY <3>2
    <3>. QED BY <3>3
  <2>2. AddedSince(s, c, F, p) = SetToBag({})
    <3>. HIDE DEF s, F, j
    <3>1. {Tag(s, m) : m \in {m \in s.adders[c] \cap F : p < m}} = {}
      BY <2>1
    <3>. QED BY <3>1, Zenon DEF AddedSince
  <2>3. SetToBag({}) = EmptyBag
    BY DEF EmptyBag
  <2>. HIDE DEF s, F, last
  <2>. QED BY <2>2, <2>3, <1>3
<1>5. ValueRule(k, b, c, F)
  BY ValueIs
<1>6. /\ last # 0 => /\ v.by = Tag(s, last)
                     /\ v.plus = IF c \in DOMAIN SeqJob(k, last).from
                                 THEN added (+) b[last][SeqJob(k, last).from[c]].plus ELSE added
      /\ v = [by |-> v.by, plus |-> v.plus]
  BY <1>5, Zenon DEF ValueRule
<1>7. c \in DOMAIN j.from => IsABag(G)
  <2>1. c \in DOMAIN j.from => j.from[c] \in DOMAIN s.writers
    BY SeqCellsHold
  <2>2. p \in Nat
    BY <1>1
  <2>. QED BY <2>1, <2>2, BeforeBags
<1>8. c \in DOMAIN j.from => EmptyBag (+) G = G
  <2>. HIDE DEF G
  <2>. QED BY <1>7, NothingAdded
<1>9. /\ v.by = Tag(s, p)
      /\ v.plus = IF c \in DOMAIN j.from THEN EmptyBag (+) G ELSE EmptyBag
  <2>1. last # 0
    BY <1>1, <1>3
  <2>. HIDE DEF v, last, added, s, F
  <2>. QED BY <1>3, <1>4, <1>6, <2>1
<1>. HIDE DEF v, last, added, s, F, j, G
<1>. QED BY <1>6, <1>8, <1>9

(* The cell c has what it had, with what the job at p adds to it. *)
OneMoreIn(k, b, p, E, c) ==
  LET v == ValueAfter(Sequential[k], b, c, E)
  IN  ValueAfter(Sequential[k], b, c, E \cup {p}) =
         [by |-> v.by, plus |-> v.plus (+) SetToBag({Tag(Sequential[k], p)})]

(* A cell that a job adds to has one contribution more. *)
LEMMA AddedAt ==
  ASSUME NEW k, SeqIsPlain(k), NEW b, BeforeAre(k, b),
         NEW p \in SeqPlaces(k), NEW E, p \notin E, InPlace(k, p, E),
         NEW c \in DOMAIN Sequential[k].writers, c \in SeqJob(k, p).a, c \notin SeqJob(k, p).w
  PROVE  OneMoreIn(k, b, p, E, c)
<1> DEFINE s == Sequential[k]
           F == E \cup {p}
           last == LastWriter(s, c, E)
           most == LastWriter(s, c, F)
           added == AddedSince(s, c, E, last)
           more == AddedSince(s, c, F, most)
           v == ValueAfter(s, b, c, E)
           x == ValueAfter(s, b, c, F)
           one == SetToBag({Tag(s, p)})
           G == b[last][SeqJob(k, last).from[c]].plus
<1>. SUFFICES x = [by |-> v.by, plus |-> v.plus (+) one]
  BY Zenon DEF OneMoreIn
<1>1. /\ p \in Nat \ {0} /\ \A q \in SeqPlaces(k) : q \in Nat
      /\ s.writers[c] = {q \in SeqPlaces(k) : c \in SeqJob(k, q).w}
      /\ s.adders[c] = {q \in SeqPlaces(k) : c \in SeqJob(k, q).a}
  BY SeqOrderIs, SeqPlacesBounded
<1>2. last \in (s.writers[c] \cap E) \cup {0} /\ last \in Nat
  BY LastWriterIs
<1>3. most = last
  <2>1. s.writers[c] \cap F = s.writers[c] \cap E
    <3>. HIDE DEF s
    <3>. QED BY <1>1
  <2>. HIDE DEF s, F
  <2>. QED BY <2>1, Zenon DEF LastWriter
<1>4. last < p
  <2>1. CASE last = 0
    BY <2>1, <1>1
  <2>2. CASE last # 0
    <3>1. last \in SeqPlaces(k) /\ c \in SeqJob(k, last).w /\ last \in E
      BY <1>1, <1>2, <2>2
    <3>2. Conflict(SeqJob(k, p), SeqJob(k, last)) /\ last # p
      <4>. HIDE DEF last
      <4>. QED BY <3>1 DEF Conflict
    <3>. HIDE DEF last
    <3>. QED BY <3>1, <3>2 DEF InPlace
  <2>. QED BY <2>1, <2>2
<1> DEFINE A == {Tag(s, m) : m \in {m \in s.adders[c] \cap E : last < m}}
<1>5. {Tag(s, m) : m \in {m \in s.adders[c] \cap F : last < m}} = A \cup {Tag(s, p)}
  <2>. HIDE DEF s, last
  <2>. QED BY <1>1, <1>4
<1>6. Tag(s, p) \notin A
  <2>1. \A m \in s.adders[c] \cap E : Tag(s, m) # Tag(s, p)
    <3>. TAKE m \in s.adders[c] \cap E
    <3>1. m \in SeqPlaces(k) /\ m # p
      BY <1>1
    <3>. QED BY <3>1, SeqOrderIs
  <2>. HIDE DEF s, last
  <2>. QED BY <2>1
<1>7. more = added (+) one
  <2>1. added = SetToBag(A) /\ more = SetToBag(A \cup {Tag(s, p)})
    <3>. HIDE DEF s, F, last, most
    <3>. QED BY <1>3, <1>5, Zenon DEF AddedSince, A
  <2>. HIDE DEF added, more, A, s
  <2>. QED BY <2>1, <1>6, OneMore
<1>8. ValueRule(k, b, c, E) /\ ValueRule(k, b, c, F)
  BY ValueIs
<1>9. /\ last = 0 => v.by = In(s.start, c).by /\ v.plus = added
      /\ last # 0 => /\ last \in SeqPlaces(k) /\ last \in E
                     /\ v.by = Tag(s, last)
                     /\ v.plus = IF c \in DOMAIN SeqJob(k, last).from THEN added (+) G ELSE added
  BY <1>8, Zenon DEF ValueRule
<1>10. /\ most = 0 => x.by = In(s.start, c).by /\ x.plus = more
       /\ most # 0 => /\ x.by = Tag(s, most)
                      /\ x.plus = IF c \in DOMAIN SeqJob(k, most).from
                                  THEN more (+) b[most][SeqJob(k, most).from[c]].plus ELSE more
       /\ x = [by |-> x.by, plus |-> x.plus]
  BY <1>8, Zenon DEF ValueRule
<1>11. /\ last = 0 => x.by = In(s.start, c).by /\ x.plus = more
       /\ last # 0 => /\ x.by = Tag(s, last)
                      /\ x.plus = IF c \in DOMAIN SeqJob(k, last).from THEN more (+) G ELSE more
  <2>. HIDE DEF x, more, most, last, s
  <2>. QED BY <1>3, <1>10
<1>12. last # 0 /\ c \in DOMAIN SeqJob(k, last).from => (added (+) one) (+) G = (added (+) G) (+) one
  <2>. HAVE last # 0 /\ c \in DOMAIN SeqJob(k, last).from
  <2>1. last \in SeqPlaces(k) /\ last \in Nat
    BY <1>2, <1>9
  <2>2. SeqJob(k, last).from[c] \in DOMAIN s.writers
    <3>. HIDE DEF last
    <3>. QED BY <2>1, SeqCellsHold
  <2>3. IsABag(G)
    <3>. HIDE DEF last
    <3>. QED BY <2>1, <2>2, BeforeBags
  <2>4. IsABag(added) /\ IsABag(one)
    BY SetsAreBags DEF AddedSince
  <2>. HIDE DEF G, added, one
  <2>. QED BY <2>3, <2>4, SumsSwap
<1>13. x.by = v.by /\ x.plus = v.plus (+) one
  <2>. HIDE DEF x, v, more, added, one, G, last, s
  <2>. QED BY <1>7, <1>9, <1>11, <1>12
<1>14. x = [by |-> x.by, plus |-> x.plus]
  BY <1>10
<1>. HIDE DEF x, v, one, s, F
<1>. QED BY <1>13, <1>14

(* The place of a job in a program: its loop, its worker and its number there. *)
Positions(prog) ==
  UNION {UNION {{<<s, u, n>> : n \in DOMAIN prog[s].workers[u]} : u \in DOMAIN prog[s].workers} : s \in DOMAIN prog}
JobIn(prog, q) == prog[q[1]].workers[q[2]][q[3]]
Precedes(q, o) == q[1] < o[1] \/ (q[1] = o[1] /\ q[2] = o[2] /\ q[3] < o[3])
SameJob(j, i) == j.id = i.id /\ j.r = i.r /\ j.w = i.w /\ j.a = i.a /\ j.from = i.from

(* The program runs the jobs of Base_Seq, each once, and two of them that      *)
(* conflict one after the other, in the order of Base_Seq: in loops that come   *)
(* in this order, or in one worker.                                             *)
KeepsOrder(k, prog) ==
  LET jobs == SequentialJobs[k]
      place == Sequential[k].place
  IN  /\ {JobIn(prog, q).id : q \in Positions(prog)} = {jobs[n].id : n \in DOMAIN jobs}
      /\ \A q \in Positions(prog) : SameJob(JobIn(prog, q), jobs[place[JobIn(prog, q).id]])
      /\ \A q, o \in Positions(prog) :
            /\ JobIn(prog, q).id = JobIn(prog, o).id => q = o
            /\ place[JobIn(prog, q).id] < place[JobIn(prog, o).id] /\ Conflict(JobIn(prog, q), JobIn(prog, o))
                  => Precedes(q, o)

(* A worker that begins is at its first job. *)
LEMMA BeginMoves ==
  ASSUME PlaceInv, TeamInv, TeamInv', Begin
  PROVE  \A u \in DOMAIN workers : JobAt(u)' = JobAt(u)
<1>1. /\ workers' = workers /\ next' = next + 1 /\ next \in Nat
  BY SameLoop DEF Begin, PlaceInv
<1>2. /\ \A u \in DOMAIN workers : u \in Nat
      /\ next \in DOMAIN workers
  BY ProgramIs DEF PlaceInv, IsLoop, IsList, Begin
<1>3. \A t \in team : t[1] # next
  BY <1>1 DEF TeamInv
<1>. TAKE u \in DOMAIN workers
<1>j. JobsAre /\ JobsAre'
  BY JobAtIs, PTL
<1>4. CASE u = next
  <2>1. JobAt(u) = 1
    BY <1>1, <1>3, <1>4, <1>j DEF JobsAre
  <2>2. CASE workers[next] = <<>>
    <3>1. team' = team /\ Len(workers[u]) = 0
      BY <2>2, <1>4 DEF Begin
    <3>2. \A t \in team' : t[1] # u
      BY <3>1, <1>3, <1>4
    <3>3. u < next'
      BY <1>1, <1>4
    <3>4. JobAt(u)' = Len(workers[u]) + 1
      <4>1. (\A t \in team' : t[1] # u) => JobAt(u)' = IF u < next' THEN Len(workers'[u]) + 1 ELSE 1
        BY <1>1, <1>j DEF JobsAre
      <4>. QED BY <4>1, <3>2, <3>3, <1>1
    <3>. QED BY <3>1, <3>4, <2>1
  <2>3. CASE workers[next] # <<>>
    <3>1. <<u, 1>> \in team'
      BY <2>3, <1>4 DEF Begin
    <3>2. JobAt(u)' = 1
      <4>1. \A n : <<u, n>> \in team' => JobAt(u)' = n
        BY <1>1, <1>j DEF JobsAre
      <4>. QED BY <4>1, <3>1
    <3>. QED BY <3>2, <2>1
  <2>. QED BY <2>2, <2>3
<1>5. CASE u # next
  <2>1. \A n : <<u, n>> \in team <=> <<u, n>> \in team'
    BY <1>5 DEF Begin
  <2>2. u < next <=> u < next'
    BY <1>1, <1>2, <1>5
  <2>. QED BY <1>1, <2>1, <2>2 DEF JobAt
<1>. QED BY <1>4, <1>5

(* A worker that executes a job is at the next one, the others stay. *)
LEMMA ExecuteMoves ==
  ASSUME PlaceInv, TeamInv, TeamInv', NEW t \in team, workers' = workers, next' = next,
         team' = (team \ {t}) \cup
                    (IF t[2] < Len(workers[t[1]]) THEN {<<t[1], t[2] + 1>>} ELSE {})
  PROVE  /\ JobAt(t[1]) = t[2] /\ JobAt(t[1])' = t[2] + 1
         /\ \A v \in DOMAIN workers : v # t[1] => JobAt(v)' = JobAt(v)
<1> DEFINE u == t[1]
           n == t[2]
<1>3. /\ t = <<u, n>> /\ u \in DOMAIN workers /\ u < next /\ n \in DOMAIN workers[u]
      /\ DOMAIN workers[u] = 1 .. Len(workers[u]) /\ Len(workers[u]) \in Nat
  BY ProgramIs DEF TeamInv, IsLoop, IsList
<1>j. JobsAre /\ JobsAre'
  BY JobAtIs, PTL
<1>4. JobAt(u) = n
  BY <1>3, <1>j DEF JobsAre
<1>5. JobAt(u)' = n + 1
  <2>1. CASE n < Len(workers[u])
    <3>1. <<u, n + 1>> \in team'
      BY <2>1
    <3>2. \A k : <<u, k>> \in team' => JobAt(u)' = k
      <4>. HIDE DEF u
      <4>. QED BY <1>3, <1>j DEF JobsAre
    <3>. QED BY <3>1, <3>2
  <2>2. CASE ~ (n < Len(workers[u]))
    <3>1. n = Len(workers[u])
      BY <2>2, <1>3
    <3>2. \A s \in team' : s[1] # u
      BY <2>2 DEF TeamInv
    <3>3. (\A s \in team' : s[1] # u) => JobAt(u)' = IF u < next' THEN Len(workers'[u]) + 1 ELSE 1
      <4>. HIDE DEF u
      <4>. QED BY <1>3, <1>j DEF JobsAre
    <3>. QED BY <3>1, <3>2, <3>3, <1>3
  <2>. QED BY <2>1, <2>2
<1>6. ASSUME NEW v \in DOMAIN workers, v # u PROVE JobAt(v)' = JobAt(v)
  <2>1. \A k : <<v, k>> \in team <=> <<v, k>> \in team'
    BY <1>3, <1>6
  <2>. QED BY <2>1 DEF JobAt
<1>. QED BY <1>4, <1>5, <1>6

(* A position is a loop, a worker of it and the number of a job of this *)
(* worker.                                                              *)
LEMMA PositionsAre ==
  \A prog : \A q : q \in Positions(prog) <=>
     /\ q = <<q[1], q[2], q[3]>> /\ q[1] \in DOMAIN prog
     /\ q[2] \in DOMAIN prog[q[1]].workers /\ q[3] \in DOMAIN prog[q[1]].workers[q[2]]
<1>. TAKE prog
<1>. TAKE q
<1>1. q \in Positions(prog) <=> \E s \in DOMAIN prog : \E u \in DOMAIN prog[s].workers :
                                   \E n \in DOMAIN prog[s].workers[u] : q = <<s, u, n>>
  <2> DEFINE T(s, u) == {<<s, u, n>> : n \in DOMAIN prog[s].workers[u]}
             U(s) == UNION {T(s, u) : u \in DOMAIN prog[s].workers}
  <2>1. q \in Positions(prog) <=> \E s \in DOMAIN prog : q \in U(s)
    <3>1. Positions(prog) = UNION {U(s) : s \in DOMAIN prog}
      BY Zenon DEF Positions
    <3>. HIDE DEF U
    <3>. QED BY <3>1
  <2>2. \A s : q \in U(s) <=> \E u \in DOMAIN prog[s].workers : q \in T(s, u)
    <3>. HIDE DEF T
    <3>. QED OBVIOUS
  <2>3. \A s, u : q \in T(s, u) <=> \E n \in DOMAIN prog[s].workers[u] : q = <<s, u, n>>
    OBVIOUS
  <2>. HIDE DEF T, U
  <2>. QED BY <2>1, <2>2, <2>3
<1>2. ASSUME q \in Positions(prog)
      PROVE  /\ q = <<q[1], q[2], q[3]>> /\ q[1] \in DOMAIN prog
             /\ q[2] \in DOMAIN prog[q[1]].workers /\ q[3] \in DOMAIN prog[q[1]].workers[q[2]]
  <2>1. PICK s \in DOMAIN prog : \E u \in DOMAIN prog[s].workers :
                                   \E n \in DOMAIN prog[s].workers[u] : q = <<s, u, n>>
    BY <1>1, <1>2
  <2>2. PICK u \in DOMAIN prog[s].workers : \E n \in DOMAIN prog[s].workers[u] : q = <<s, u, n>>
    BY <2>1
  <2>3. PICK n \in DOMAIN prog[s].workers[u] : q = <<s, u, n>>
    BY <2>2
  <2>4. q[1] = s /\ q[2] = u /\ q[3] = n
    BY <2>3
  <2>. QED BY <2>3, <2>4
<1>. QED BY <1>1, <1>2, Zenon

(* What it means for the jobs of a program to keep the order of Base_Seq. *)
LEMMA KeptIs ==
  ASSUME NEW k, NEW prog, SeqIsPlain(k), KeepsOrder(k, prog)
  PROVE  /\ \A q \in Positions(prog) : \E n \in 1 .. SeqLen(k) :
               /\ SameJob(JobIn(prog, q), SequentialJobs[k][n])
               /\ Sequential[k].place[JobIn(prog, q).id] = n
               /\ JobIn(prog, q).id \in DOMAIN Sequential[k].place
         /\ \A n \in 1 .. SeqLen(k) : \E q \in Positions(prog) : JobIn(prog, q).id = SequentialJobs[k][n].id
         /\ \A q, o \in Positions(prog) : JobIn(prog, q).id = JobIn(prog, o).id => q = o
         /\ \A q, o \in Positions(prog) : \A m, n \in 1 .. SeqLen(k) :
               /\ JobIn(prog, q).id = SequentialJobs[k][m].id
               /\ JobIn(prog, o).id = SequentialJobs[k][n].id
               /\ m < n /\ Conflict(SequentialJobs[k][m], SequentialJobs[k][n])
               => Precedes(q, o)
<1> DEFINE jobs == SequentialJobs[k]
           place == Sequential[k].place
           J(q) == JobIn(prog, q)
           P == Positions(prog)
<1>1. /\ {J(q).id : q \in P} = {jobs[n].id : n \in DOMAIN jobs}
      /\ \A q \in P : SameJob(J(q), jobs[place[J(q).id]])
      /\ \A q, o \in P :
            /\ J(q).id = J(o).id => q = o
            /\ place[J(q).id] < place[J(o).id] /\ Conflict(J(q), J(o)) => Precedes(q, o)
  BY Zenon DEF KeepsOrder
<1>2. /\ DOMAIN jobs = 1 .. SeqLen(k) /\ SeqLen(k) \in Nat
      /\ \A m, n \in DOMAIN jobs : jobs[m].id = jobs[n].id => m = n
  BY DEF SeqIsPlain, IsList, SeqLen
<1>3. place = [i \in {jobs[n].id : n \in DOMAIN jobs} |-> CHOOSE n \in DOMAIN jobs : jobs[n].id = i]
  BY SeqIs
<1>. HIDE DEF jobs, place, J, P
<1>4. ASSUME NEW n \in 1 .. SeqLen(k) PROVE place[jobs[n].id] = n /\ jobs[n].id \in DOMAIN place
  <2>1. jobs[n].id \in {jobs[m].id : m \in DOMAIN jobs} /\ n \in DOMAIN jobs
    BY <1>2
  <2>2. \A m \in DOMAIN jobs : jobs[m].id = jobs[n].id => m = n
    BY <1>2, <2>1
  <2>3. (CHOOSE m \in DOMAIN jobs : jobs[m].id = jobs[n].id) = n
    BY <2>1, <2>2
  <2>. QED BY <1>3, <2>1, <2>3
<1>5. ASSUME NEW q \in P
      PROVE  \E n \in 1 .. SeqLen(k) : SameJob(J(q), jobs[n]) /\ place[J(q).id] = n /\ J(q).id \in DOMAIN place
  <2>1. PICK n \in DOMAIN jobs : J(q).id = jobs[n].id
    BY <1>1
  <2>. QED BY <1>1, <1>2, <1>4, <2>1
<1>6. ASSUME NEW n \in 1 .. SeqLen(k) PROVE \E q \in P : J(q).id = jobs[n].id
  <2>1. jobs[n].id \in {jobs[m].id : m \in DOMAIN jobs}
    BY <1>2
  <2>. QED BY <2>1, <1>1
<1>7. ASSUME NEW q \in P, NEW o \in P, NEW m \in 1 .. SeqLen(k), NEW n \in 1 .. SeqLen(k),
             J(q).id = jobs[m].id, J(o).id = jobs[n].id, m < n, Conflict(jobs[m], jobs[n])
      PROVE  Precedes(q, o)
  <2>1. place[J(q).id] = m /\ place[J(o).id] = n
    BY <1>4, <1>7
  <2>2. SameJob(J(q), jobs[m]) /\ SameJob(J(o), jobs[n])
    BY <1>1, <2>1
  <2>3. Conflict(J(q), J(o))
    BY <1>7, <2>2 DEF SameJob, Conflict
  <2>. QED BY <1>1, <1>7, <2>1, <2>3
<1>. QED BY <1>1, <1>5, <1>6, <1>7 DEF jobs, place, J, P

-----------------------------------------------------------------------------
(* The jobs that have run *)

(* A job has run; and a job with this id has; the repetition of a place, and the *)
(* places of the order of Base_Seq whose jobs have run.                           *)
Ran(q) == q[1] < stage \/ (q[1] = stage /\ q[3] < JobAt(q[2]))
HasRun(i) == \E q \in Positions(program) : Ran(q) /\ JobIn(program, q).id = i
RepOf(k, p) == ((p - 1) \div SeqLen(k)) + 1
PlacesRun == {p \in SeqPlaces(kernel) : \/ RepOf(kernel, p) < rep
                                        \/ RepOf(kernel, p) = rep /\ HasRun(SeqJob(kernel, p).id)}

(* The kernel is one whose order is kept, and what holds of it at every step. *)
Kept == SeqIsPlain(kernel) /\ KeepsOrder(kernel, program)
RepInv == rep \in 1 .. Reps /\ (phase = "new" => rep = 1 /\ stage = 1)
(* The memory m is what Base_Seq leaves when it runs the places E. *)
Values(k, m, b, E) ==
  /\ Same(SetUpMemory(Catalog[k].data), m)
  /\ \A c : Holds(m, c) => In(m, c) = ValueAfter(Sequential[k], b, c, E)
ValueInv == phase = "run" => Values(kernel, mem, SeqBefore(kernel), PlacesRun)

(* Two places of one repetition are told apart by the ids of their jobs. *)
LEMMA SamePlace ==
  ASSUME NEW k, SeqIsPlain(k), NEW p \in SeqPlaces(k), NEW q \in SeqPlaces(k),
         RepOf(k, p) = RepOf(k, q), SeqJob(k, p).id = SeqJob(k, q).id
  PROVE  p = q
<1>1. PICK r \in 1 .. Reps, n \in 1 .. SeqLen(k) :
            p = InOrder(r, n, SeqLen(k)) /\ SeqJob(k, p) = SequentialJobs[k][n] /\ RepOf(k, p) = r
  BY SeqPlacesAre DEF RepOf
<1>2. PICK x \in 1 .. Reps, m \in 1 .. SeqLen(k) :
            q = InOrder(x, m, SeqLen(k)) /\ SeqJob(k, q) = SequentialJobs[k][m] /\ RepOf(k, q) = x
  BY SeqPlacesAre DEF RepOf
<1>3. n = m
  BY <1>1, <1>2 DEF SeqIsPlain, IsList, SeqLen
<1>. QED BY <1>1, <1>2, <1>3

(* The place of the job an unfinished worker is at: it has not been run, and of *)
(* the jobs that conflict with it those before it have, and no others.          *)
NextPlaceIs(t, p) ==
  /\ p \in SeqPlaces(kernel) /\ p \notin PlacesRun /\ InPlace(kernel, p, PlacesRun)
  /\ SameJob(At_(t), SeqJob(kernel, p))
  /\ RepOf(kernel, p) = rep
  /\ Tag(Sequential[kernel], p) = <<rep, At_(t).id>>
  /\ At_(t).id \in DOMAIN Sequential[kernel].place
  /\ p = InOrder(rep, Sequential[kernel].place[At_(t).id], SeqLen(kernel))

(* So it is for every worker of the team. *)
LEMMA NextPlace ==
  ASSUME PlaceInv, TeamInv, RepInv, Kept, NEW t \in team
  PROVE  \E p : NextPlaceIs(t, p)
<1> DEFINE k == kernel
           L == SeqLen(k)
           jobs == SequentialJobs[k]
           o == <<stage, t[1], t[2]>>
           J(q) == JobIn(program, q)
           P == Positions(program)
<1>0. k \in {p[1] : p \in Chosen} /\ SeqIsPlain(k) /\ KeepsOrder(k, program)
  BY DEF PlaceInv, Kept
<1>1. o \in P /\ J(o) = At_(t) /\ t[1] \in DOMAIN workers
  BY PositionsAre DEF PlaceInv, TeamInv, workers, At_, JobIn
<1>2. PICK n \in 1 .. L : /\ SameJob(J(o), jobs[n]) /\ Sequential[k].place[J(o).id] = n
                          /\ J(o).id \in DOMAIN Sequential[k].place
  BY <1>0, <1>1, KeptIs
<1>3. /\ \A m \in 1 .. L : \E q \in P : J(q).id = jobs[m].id
      /\ \A q, x \in P : J(q).id = J(x).id => q = x
      /\ \A q, x \in P : \A i, m \in 1 .. L :
            J(q).id = jobs[i].id /\ J(x).id = jobs[m].id /\ i < m /\ Conflict(jobs[i], jobs[m]) => Precedes(q, x)
  BY <1>0, KeptIs
<1> DEFINE p == InOrder(rep, n, L)
<1>4. p \in SeqPlaces(k) /\ SeqJob(k, p) = jobs[n] /\ RepOf(k, p) = rep
  BY <1>0, SeqPlaceIs DEF RepOf, RepInv
<1>5. Tag(Sequential[k], p) = <<rep, At_(t).id>>
  <2>1. Tag(Sequential[k], p) = <<rep, jobs[n].id>>
    BY <1>0, SeqOrderIs DEF RepInv
  <2>. QED BY <1>1, <1>2, <2>1 DEF SameJob
<1>6. JobAt(t[1]) = t[2] /\ rep \in Nat /\ stage \in Nat /\ t[2] \in Nat
  <2>1. JobsAre /\ t = <<t[1], t[2]>>
    BY JobAtIs DEF TeamInv
  <2>2. JobAt(t[1]) = t[2]
    BY <1>1, <2>1 DEF JobsAre
  <2>3. stage \in Nat /\ t[2] \in Nat
    BY ProgramIs DEF PlaceInv, TeamInv, IsLoop, IsList
  <2>. QED BY <2>2, <2>3 DEF RepInv
<1>7. ~ Ran(o)
  BY <1>6 DEF Ran
<1>8. J(o).id = jobs[n].id
  BY <1>2 DEF SameJob
<1>9. p \notin PlacesRun
  <2>1. ~ HasRun(jobs[n].id)
    <3>. HIDE DEF o
    <3>. QED BY <1>1, <1>3, <1>7, <1>8 DEF HasRun
  <2>. HIDE DEF p
  <2>. QED BY <1>4, <1>6, <2>1 DEF PlacesRun
<1>10. ASSUME NEW q \in SeqPlaces(k), q # p, Conflict(SeqJob(k, p), SeqJob(k, q))
       PROVE  q \in PlacesRun <=> q < p
  <2>1. PICK r \in 1 .. Reps, m \in 1 .. L :
            q = InOrder(r, m, L) /\ SeqJob(k, q) = jobs[m] /\ RepOf(k, q) = r
    BY <1>0, SeqPlacesAre DEF RepOf
  <2>2. L \in Nat \ {0} /\ r \in Nat \ {0} /\ rep \in Nat \ {0}
    BY <1>0, CatalogAssumption DEF SeqIsPlain, IsList, SeqLen, RepInv
  <2>3. q < p <=> r < rep \/ (r = rep /\ m < n)
    BY <2>1, <2>2, PlacesAreOrdered
  <2>4. q \in PlacesRun <=> r < rep \/ (r = rep /\ HasRun(jobs[m].id))
    BY <2>1 DEF PlacesRun
  <2>5. ASSUME r = rep PROVE HasRun(jobs[m].id) <=> m < n
    <3>0. m # n
      BY <2>1, <2>5, <1>10
    <3>1. PICK x \in P : J(x).id = jobs[m].id
      BY <1>3
    <3>2. \A y \in P : J(y).id = jobs[m].id => y = x
      BY <1>3, <3>1
    <3>3. HasRun(jobs[m].id) <=> Ran(x)
      BY <3>1, <3>2 DEF HasRun
    <3>4. Conflict(jobs[m], jobs[n]) /\ Conflict(jobs[n], jobs[m])
      BY <1>4, <1>10, <2>1, ConflictIsSymmetric
    <3>5. m < n => Ran(x)
      <4>. HAVE m < n
      <4>1. Precedes(x, o)
        <5>. HIDE DEF o
        <5>. QED BY <1>1, <1>3, <1>8, <3>1, <3>4
      <4>. QED BY <4>1, <1>6 DEF Precedes, Ran
    <3>6. n < m => ~ Ran(x)
      <4>. HAVE n < m
      <4>1. Precedes(o, x)
        <5>. HIDE DEF o
        <5>. QED BY <1>1, <1>3, <1>8, <3>1, <3>4
      <4>2. x[1] \in Nat /\ x[3] \in Nat
        <5>1. x[1] \in DOMAIN program /\ x[2] \in DOMAIN program[x[1]].workers
              /\ x[3] \in DOMAIN program[x[1]].workers[x[2]]
          BY PositionsAre
        <5>2. /\ DOMAIN program = 1 .. Len(program) /\ Len(program) \in Nat
              /\ IsLoop(program[x[1]].workers)
          BY <5>1, ProgramIs DEF IsList
        <5>3. IsList(program[x[1]].workers[x[2]])
          BY <5>1, <5>2 DEF IsLoop
        <5>4. DOMAIN program[x[1]].workers[x[2]] = 1 .. Len(program[x[1]].workers[x[2]])
              /\ Len(program[x[1]].workers[x[2]]) \in Nat
          BY <5>3 DEF IsList
        <5>. QED BY <5>1, <5>2, <5>4
      <4>. QED BY <4>1, <4>2, <1>6 DEF Precedes, Ran
    <3>. QED BY <3>0, <3>3, <3>5, <3>6
  <2>. QED BY <2>3, <2>4, <2>5
<1>11. InPlace(k, p, PlacesRun)
  <2>. HIDE DEF p
  <2>. QED BY <1>10 DEF InPlace
<1>12. SameJob(At_(t), SeqJob(k, p))
  BY <1>1, <1>2, <1>4
<1>13. At_(t).id \in DOMAIN Sequential[k].place /\ p = InOrder(rep, Sequential[k].place[At_(t).id], L)
  BY <1>1, <1>2
<1>. HIDE DEF p
<1>. QED BY <1>4, <1>5, <1>9, <1>11, <1>12, <1>13 DEF NextPlaceIs

(* The first repetition is 1. *)
LEMMA RepInvInit == Init => RepInv
BY CatalogAssumption DEF Init, RepInv

(* rep counts the repetitions up to run_reps. *)
LEMMA RepInvNext ==
  ASSUME RepInv, [Next]_vars
  PROVE  RepInv'
<1>1. CASE EndLoop
  BY <1>1, CatalogAssumption DEF EndLoop, RepInv
<1>2. CASE SetUp \/ Begin \/ Execute \/ UpdateChecksum \/ TearDown \/ UNCHANGED vars
  <2>1. rep' = rep /\ stage' = stage /\ (phase' = "new" => phase = "new")
    BY <1>2 DEF SetUp, Begin, Execute, UpdateChecksum, TearDown, vars
  <2>. QED BY <2>1 DEF RepInv
<1>. QED BY <1>1, <1>2 DEF Next

(* The kernel and its program do not change. *)
LEMMA KeptSame ==
  ASSUME [Next]_vars
  PROVE  kernel' = kernel /\ variant' = variant /\ program' = program /\ data' = data /\ (Kept' <=> Kept)
<1>1. kernel' = kernel /\ variant' = variant
  BY DEF Next, SetUp, Begin, Execute, EndLoop, UpdateChecksum, TearDown, vars
<1>2. program' = program /\ data' = data
  BY <1>1 DEF program, data
<1>. QED BY <1>1, <1>2 DEF Kept

(* Jobs that stay where they are. *)
LEMMA PlacesRunSame ==
  ASSUME PlaceInv, kernel' = kernel, program' = program, rep' = rep, stage' = stage,
         \A u \in DOMAIN workers : JobAt(u)' = JobAt(u)
  PROVE  PlacesRun' = PlacesRun
<1>1. ASSUME NEW q \in Positions(program) PROVE Ran(q)' <=> Ran(q)
  <2>1. q[1] = stage => q[2] \in DOMAIN workers
    BY PositionsAre DEF workers
  <2>. QED BY <2>1 DEF Ran
<1>2. \A i : HasRun(i)' <=> HasRun(i)
  BY <1>1 DEF HasRun
<1>. QED BY <1>2 DEF PlacesRun

(* The end of a loop: all its jobs have run, and none of the next one's. *)
LEMMA EndLoopPlaces ==
  ASSUME PlaceInv, TeamInv, RepInv, PlaceInv', TeamInv', RepInv', Kept, EndLoop, phase' = "run"
  PROVE  PlacesRun' = PlacesRun
<1>0. /\ kernel' = kernel /\ program' = program /\ team = {} /\ team' = {} /\ next > Len(workers) /\ next' = 1
      /\ kernel \in {p[1] : p \in Chosen} /\ SeqIsPlain(kernel) /\ KeepsOrder(kernel, program)
  BY DEF EndLoop, program, PlaceInv, Kept
<1>1. /\ Len(program) \in Nat /\ DOMAIN program = 1 .. Len(program) /\ stage \in 1 .. Len(program)
      /\ \A s \in DOMAIN program : IsLoop(program[s].workers)
      /\ rep \in Nat
  BY ProgramIs DEF IsList, PlaceInv, RepInv
<1>2. ASSUME NEW q \in Positions(program)
      PROVE  /\ q[1] \in 1 .. Len(program)
             /\ q[2] \in DOMAIN program[q[1]].workers
             /\ Len(program[q[1]].workers) \in Nat /\ q[2] \in 1 .. Len(program[q[1]].workers)
             /\ Len(program[q[1]].workers[q[2]]) \in Nat
             /\ q[3] \in 1 .. Len(program[q[1]].workers[q[2]])
  <2>1. /\ q[1] \in DOMAIN program /\ q[2] \in DOMAIN program[q[1]].workers
        /\ q[3] \in DOMAIN program[q[1]].workers[q[2]]
    BY PositionsAre
  <2>2. IsList(program[q[1]].workers) /\ IsList(program[q[1]].workers[q[2]])
    BY <1>1, <2>1 DEF IsLoop
  <2>. QED BY <1>1, <2>1, <2>2 DEF IsList
<1>3. ASSUME NEW q \in Positions(program) PROVE Ran(q) <=> q[1] <= stage
  <2>1. CASE q[1] = stage
    <3>1. q[2] \in DOMAIN workers /\ q[2] \in 1 .. Len(workers) /\ Len(workers[q[2]]) \in Nat
          /\ q[3] \in 1 .. Len(workers[q[2]]) /\ Len(workers) \in Nat /\ next \in Nat
      BY <1>2, <2>1 DEF workers, PlaceInv
    <3>2. JobAt(q[2]) = Len(workers[q[2]]) + 1
      BY <1>0, <3>1, JobAtIs DEF JobsAre
    <3>. QED BY <2>1, <3>1, <3>2, <1>1 DEF Ran
  <2>2. CASE q[1] # stage
    BY <1>1, <1>2, <2>2 DEF Ran
  <2>. QED BY <2>1, <2>2
<1>4. ASSUME NEW q \in Positions(program) PROVE Ran(q)' <=> q[1] < stage'
  <2>1. CASE q[1] = stage'
    <3>1. q[2] \in DOMAIN workers' /\ q[2] \in 1 .. Len(workers') /\ q[3] \in Nat \ {0} /\ stage' \in Nat
      BY <1>0, <1>2, <2>1 DEF workers, PlaceInv
    <3>2. JobsAre'
      BY JobAtIs, PTL
    <3>3. JobAt(q[2])' = 1
      BY <1>0, <3>1, <3>2 DEF JobsAre
    <3>. QED BY <2>1, <3>1, <3>3 DEF Ran
  <2>2. CASE q[1] # stage'
    BY <2>2 DEF Ran
  <2>. QED BY <2>1, <2>2
<1>5. CASE stage < Len(program)
  <2>1. stage' = stage + 1 /\ rep' = rep
    BY <1>5 DEF EndLoop
  <2>2. \A q \in Positions(program) : Ran(q)' <=> Ran(q)
    BY <1>1, <1>2, <1>3, <1>4, <2>1
  <2>3. \A i : HasRun(i)' <=> HasRun(i)
    BY <1>0, <2>2 DEF HasRun
  <2>. QED BY <1>0, <2>1, <2>3 DEF PlacesRun
<1>6. CASE ~ (stage < Len(program))
  <2>1. stage' = 1 /\ rep' = rep + 1 /\ stage = Len(program)
    <3>1. IF rep < Reps THEN rep' = rep + 1 /\ stage' = 1 ELSE phase' = "ran"
      BY <1>6 DEF EndLoop
    <3>2. phase' # "ran"
      OBVIOUS
    <3>3. rep' = rep + 1 /\ stage' = 1
      BY <3>1, <3>2, Zenon
    <3>4. stage = Len(program)
      <4> DEFINE L == Len(program)
      <4>1. L \in Nat /\ stage \in 1 .. L /\ ~ (stage < L)
        BY <1>1, <1>6
      <4>. HIDE DEF L
      <4>2. stage = L
        BY <4>1
      <4>. QED BY <4>2 DEF L
    <3>. QED BY <3>3, <3>4
  <2>2. \A q \in Positions(program) : Ran(q) /\ ~ Ran(q)'
    BY <1>1, <1>2, <1>3, <1>4, <2>1
  <2>3. \A n \in 1 .. SeqLen(kernel) : \E q \in Positions(program) :
           JobIn(program, q).id = SequentialJobs[kernel][n].id
    BY <1>0, KeptIs
  <2>4. ASSUME NEW p \in SeqPlaces(kernel)
        PROVE  RepOf(kernel, p) \in Nat /\ HasRun(SeqJob(kernel, p).id) /\ ~ HasRun(SeqJob(kernel, p).id)'
    <3>1. PICK r \in 1 .. Reps, n \in 1 .. SeqLen(kernel) :
             SeqJob(kernel, p) = SequentialJobs[kernel][n] /\ RepOf(kernel, p) = r
      BY <1>0, SeqPlacesAre DEF RepOf
    <3>. QED BY <1>0, <2>2, <2>3, <3>1 DEF HasRun
  <2>5. ASSUME NEW p \in SeqPlaces(kernel) PROVE p \in PlacesRun' <=> p \in PlacesRun
    <3>1. p \in PlacesRun <=> RepOf(kernel, p) <= rep
      BY <1>1, <2>4, <2>5 DEF PlacesRun
    <3>2. p \in PlacesRun' <=> RepOf(kernel, p) < rep + 1
      BY <1>0, <1>1, <2>1, <2>4, <2>5 DEF PlacesRun
    <3>. QED BY <1>1, <2>4, <2>5, <3>1, <3>2
  <2>6. PlacesRun \subseteq SeqPlaces(kernel) /\ PlacesRun' \subseteq SeqPlaces(kernel)
    BY <1>0 DEF PlacesRun
  <2>. QED BY <2>5, <2>6
<1>. QED BY <1>5, <1>6

(* A job that is run is at its place from now on. *)
LEMMA ExecutePlaces ==
  ASSUME PlaceInv, TeamInv, RepInv, TeamInv', Kept, NEW t \in team,
         kernel' = kernel, program' = program, workers' = workers, rep' = rep, stage' = stage, next' = next,
         team' = (team \ {t}) \cup
                    (IF t[2] < Len(workers[t[1]]) THEN {<<t[1], t[2] + 1>>} ELSE {}),
         NEW p, NextPlaceIs(t, p)
  PROVE  PlacesRun' = PlacesRun \cup {p}
<1> DEFINE o == <<stage, t[1], t[2]>>
           J(q) == JobIn(program, q)
           P == Positions(program)
<1>1. o \in P /\ J(o) = At_(t)
  BY PositionsAre DEF PlaceInv, TeamInv, workers, At_, JobIn
<1>2. /\ JobAt(t[1]) = t[2] /\ JobAt(t[1])' = t[2] + 1
      /\ \A v \in DOMAIN workers : v # t[1] => JobAt(v)' = JobAt(v)
  BY ExecuteMoves
<1>3. ASSUME NEW q \in P PROVE Ran(q)' <=> Ran(q) \/ q = o
  <2>1. /\ q = <<q[1], q[2], q[3]>> /\ q[1] \in DOMAIN program
        /\ q[2] \in DOMAIN program[q[1]].workers /\ q[3] \in DOMAIN program[q[1]].workers[q[2]]
    BY PositionsAre
  <2>2. CASE q[1] = stage /\ q[2] = t[1]
    <3>1. q[3] \in DOMAIN workers[t[1]] /\ t[1] \in DOMAIN workers /\ t[2] \in DOMAIN workers[t[1]]
      BY <2>1, <2>2 DEF workers, TeamInv
    <3>2. IsList(workers[t[1]])
      BY <3>1, ProgramIs DEF IsLoop
    <3>3. q[3] \in Nat /\ t[2] \in Nat
      BY <3>1, <3>2 DEF IsList
    <3>4. q[3] < t[2] + 1 <=> q[3] < t[2] \/ q[3] = t[2]
      BY <3>3
    <3>5. q = o <=> q[3] = t[2]
      BY <2>1, <2>2
    <3>6. stage \in Nat
      BY ProgramIs DEF PlaceInv, IsList
    <3>. QED BY <1>2, <2>2, <3>4, <3>5, <3>6 DEF Ran
  <2>3. CASE q[1] = stage /\ q[2] # t[1]
    <3>1. q[2] \in DOMAIN workers
      BY <2>1, <2>3 DEF workers
    <3>2. JobAt(q[2])' = JobAt(q[2])
      BY <1>2, <2>3, <3>1
    <3>3. q # o
      BY <2>3
    <3>. QED BY <3>2, <3>3 DEF Ran
  <2>4. CASE q[1] # stage
    <3>1. q # o
      BY <2>4
    <3>. QED BY <3>1, <2>4 DEF Ran
  <2>. QED BY <2>2, <2>3, <2>4
<1>4. \A i : HasRun(i)' <=> HasRun(i) \/ i = At_(t).id
  <2>. HIDE DEF o
  <2>. QED BY <1>1, <1>3 DEF HasRun
<1>5. kernel \in {c[1] : c \in Chosen} /\ SeqIsPlain(kernel)
  BY DEF PlaceInv, Kept
<1>6. /\ p \in SeqPlaces(kernel) /\ RepOf(kernel, p) = rep /\ SeqJob(kernel, p).id = At_(t).id
      /\ rep \in Nat
  BY DEF NextPlaceIs, SameJob, RepInv
<1>7. ASSUME NEW q \in SeqPlaces(kernel) PROVE q \in PlacesRun' <=> q \in PlacesRun \/ q = p
  <2>1. q \in PlacesRun <=> \/ RepOf(kernel, q) < rep
                            \/ RepOf(kernel, q) = rep /\ HasRun(SeqJob(kernel, q).id)
    BY DEF PlacesRun
  <2>2. q \in PlacesRun' <=> \/ RepOf(kernel, q) < rep
                             \/ RepOf(kernel, q) = rep /\ HasRun(SeqJob(kernel, q).id)'
    BY DEF PlacesRun
  <2>3. RepOf(kernel, q) = rep /\ SeqJob(kernel, q).id = At_(t).id <=> q = p
    BY <1>5, <1>6, SamePlace
  <2>. QED BY <1>4, <2>1, <2>2, <2>3
<1>8. PlacesRun \subseteq SeqPlaces(kernel) /\ PlacesRun' \subseteq SeqPlaces(kernel)
  BY DEF PlacesRun
<1>. QED BY <1>6, <1>7, <1>8

(* What Base_Seq leaves before each place, as a function that is chosen once. *)
LEMMA SeqBeforeAre ==
  ASSUME NEW k, SeqIsPlain(k), k \in {p[1] : p \in Chosen}
  PROVE  BeforeAre(k, SeqBefore(k))
<1> DEFINE b == SeqBefore(k)
<1>1. IsBefore(k, b)
  BY BeforeExists, Zenon DEF SeqBefore
<1>2. ASSUME NEW n \in Nat, NEW c \in DOMAIN Sequential[k].writers
      PROVE  b[n][c] = ValueAfter(Sequential[k], b, c, 1 .. n - 1)
  <2>. HIDE DEF b
  <2>1. b[n] = SeqStep(k, b, n)
    BY <1>1 DEF IsBefore
  <2>. QED BY <2>1 DEF SeqStep
<1>. QED BY <1>2 DEF BeforeAre

(* The values before and after a place, of the cells that its job reads, writes, *)
(* adds to and leaves alone.                                                       *)
ValueStep(k, b, p, E) ==
  LET j == SeqJob(k, p)
      s == Sequential[k]
      V(c, F) == ValueAfter(s, b, c, F)
  IN  /\ \A c \in j.r : V(c, E) = b[p][c]
      /\ \A c \in DOMAIN s.writers :
            /\ c \in j.w => V(c, E \cup {p}) =
                 [by |-> Tag(s, p), plus |-> IF c \in DOMAIN j.from THEN b[p][j.from[c]].plus ELSE EmptyBag]
            /\ c \in j.a /\ c \notin j.w => V(c, E \cup {p}) =
                 [by |-> V(c, E).by, plus |-> V(c, E).plus (+) SetToBag({Tag(s, p)})]
            /\ c \notin j.a /\ c \notin j.w => V(c, E \cup {p}) = V(c, E)

(* The values are so, when E has of the jobs that conflict with the one at p *)
(* those before it.                                                          *)
LEMMA ValueSteps ==
  ASSUME NEW k, SeqIsPlain(k), NEW b, BeforeAre(k, b),
         NEW p \in SeqPlaces(k), NEW E, p \notin E, InPlace(k, p, E)
  PROVE  ValueStep(k, b, p, E)
<1> DEFINE j == SeqJob(k, p)
           s == Sequential[k]
           V(c, F) == ValueAfter(s, b, c, F)
<1>0. \A c \in SeqJob(k, p).r :
         ValueAfter(Sequential[k], b, c, E) = ValueAfter(Sequential[k], b, c, 1 .. p - 1)
  BY ReadInPlace, SMTT(30)
<1>1. ASSUME NEW c \in j.r PROVE V(c, E) = b[p][c]
  <2>1. V(c, E) = V(c, 1 .. p - 1)
    BY <1>0
  <2>2. c \in DOMAIN s.writers /\ p \in Nat
    BY SeqCellsHold, SeqPlacesBounded
  <2>. QED BY <2>1, <2>2 DEF BeforeAre
<1>2. ASSUME NEW c \in DOMAIN s.writers, c \in j.w
      PROVE  V(c, E \cup {p}) =
               [by |-> Tag(s, p), plus |-> IF c \in DOMAIN j.from THEN b[p][j.from[c]].plus ELSE EmptyBag]
  BY <1>2, WrittenAt
<1>3. ASSUME NEW c \in DOMAIN s.writers, c \in j.a, c \notin j.w
      PROVE  V(c, E \cup {p}) = [by |-> V(c, E).by, plus |-> V(c, E).plus (+) SetToBag({Tag(s, p)})]
  <2>1. OneMoreIn(k, b, p, E, c)
    BY <1>3, AddedAt
  <2>. QED BY <2>1, Zenon DEF OneMoreIn
<1>4. ASSUME NEW c \in DOMAIN s.writers, c \notin j.a, c \notin j.w PROVE V(c, E \cup {p}) = V(c, E)
  BY <1>4, LeftAlone
<1>. QED BY <1>1, <1>2, <1>3, <1>4, Zenon DEF ValueStep

(* What a job leaves is what Base_Seq leaves after it. *)
LEMMA ApplyIsNext ==
  ASSUME NEW k, SeqIsPlain(k), NEW b, BeforeAre(k, b),
         NEW p \in SeqPlaces(k), NEW E, p \notin E, InPlace(k, p, E),
         NEW m, Values(k, m, b, E), NEW j, NEW r, SameJob(j, SeqJob(k, p)), Tag(Sequential[k], p) = <<r, j.id>>
  PROVE  Values(k, Apply(m, r, j), b, E \cup {p})
<1> DEFINE s == Sequential[k]
           i == SeqJob(k, p)
           V(c, F) == ValueAfter(s, b, c, F)
           n == Apply(m, r, j)
<1>1. /\ \A c : Holds(n, c) <=> Holds(m, c)
      /\ \A c : c \in DOMAIN s.writers <=> Holds(m, c)
  BY ApplyIs, SeqIs DEF Same, Values
<1>2. ValueStep(k, b, p, E)
  BY ValueSteps
<1>3. /\ \A c \in i.r : V(c, E) = b[p][c]
      /\ \A c \in DOMAIN s.writers :
            /\ c \in i.w => V(c, E \cup {p}) =
                 [by |-> Tag(s, p), plus |-> IF c \in DOMAIN i.from THEN b[p][i.from[c]].plus ELSE EmptyBag]
            /\ c \in i.a /\ c \notin i.w => V(c, E \cup {p}) =
                 [by |-> V(c, E).by, plus |-> V(c, E).plus (+) SetToBag({Tag(s, p)})]
            /\ c \notin i.a /\ c \notin i.w => V(c, E \cup {p}) = V(c, E)
  BY <1>2, Zenon DEF ValueStep
<1>4. /\ j.r = i.r /\ j.w = i.w /\ j.a = i.a /\ j.from = i.from
      /\ DOMAIN i.from \subseteq i.w
      /\ \A c \in DOMAIN i.from : i.from[c] \in i.r /\ i.from[c] \in DOMAIN s.writers
  BY SeqCellsHold DEF SameJob
<1>5. \A c : Holds(m, c) => In(m, c) = V(c, E)
  BY DEF Values
<1>6. Tag(s, p) = <<r, j.id>>
  OBVIOUS
<1>7. ASSUME NEW c, Holds(m, c) PROVE In(n, c) = V(c, E \cup {p})
  <2>0. c \in DOMAIN s.writers /\ In(m, c) = V(c, E)
    BY <1>1, <1>5, <1>7
  <2>1. CASE c \in i.w
    <3>1. In(n, c) = [by |-> <<r, j.id>>, plus |-> IF c \in DOMAIN j.from THEN In(m, j.from[c]).plus ELSE EmptyBag]
      BY <1>4, <1>7, <2>1, ApplyIs
    <3>2. c \in DOMAIN i.from => In(m, i.from[c]) = b[p][i.from[c]]
      <4>. HIDE DEF s, i, V
      <4>. QED BY <1>1, <1>3, <1>4, <1>5
    <3>3. V(c, E \cup {p}) =
             [by |-> Tag(s, p), plus |-> IF c \in DOMAIN i.from THEN b[p][i.from[c]].plus ELSE EmptyBag]
      BY <1>3, <2>0, <2>1, Zenon
    <3>. HIDE DEF s, i, V, n
    <3>. QED BY <1>4, <1>6, <3>1, <3>2, <3>3
  <2>2. CASE c \in i.a /\ c \notin i.w
    <3>1. In(n, c) = [by |-> In(m, c).by, plus |-> In(m, c).plus (+) Sum(m, r, j, c)]
      BY <1>4, <1>7, <2>2, ApplyIs
    <3>2. Sum(m, r, j, c) = SetToBag({<<r, j.id>>})
      BY <1>4, <2>2 DEF Sum
    <3>3. V(c, E \cup {p}) = [by |-> V(c, E).by, plus |-> V(c, E).plus (+) SetToBag({Tag(s, p)})]
      BY <1>3, <2>0, <2>2, Zenon
    <3>. HIDE DEF s, i, V, n
    <3>. QED BY <1>6, <2>0, <3>1, <3>2, <3>3
  <2>3. CASE c \notin i.w /\ c \notin i.a
    <3>1. In(n, c) = In(m, c)
      BY <1>4, <1>7, <2>3, ApplyIs
    <3>2. V(c, E \cup {p}) = V(c, E)
      BY <1>3, <2>0, <2>3, Zenon
    <3>. HIDE DEF s, i, V, n
    <3>. QED BY <2>0, <3>1, <3>2
  <2>. QED BY <2>1, <2>2, <2>3
<1>8. Same(SetUpMemory(Catalog[k].data), n)
  BY <1>1 DEF Same, Values
<1>9. \A c : Holds(n, c) => In(n, c) = V(c, E \cup {p})
  <2>. HIDE DEF n, V, s
  <2>. QED BY <1>1, <1>7
<1>. QED BY <1>8, <1>9, Zenon DEF Values

(* Before any job, every cell has the value that setUp gave it. *)
LEMMA NothingRun ==
  ASSUME NEW k, SeqIsPlain(k), NEW b, NEW c, Holds(SetUpMemory(Catalog[k].data), c)
  PROVE  In(SetUpMemory(Catalog[k].data), c) = ValueAfter(Sequential[k], b, c, {})
<1> DEFINE s == Sequential[k]
           m == SetUpMemory(Catalog[k].data)
<1>1. c \in DOMAIN s.writers /\ s.start = m /\ In(m, c) \in {Raw, Start}
  BY SeqIs, SetUpValues
<1>2. LastWriter(s, c, {}) = 0
  BY <1>1, LastWriterIs
<1>3. AddedSince(s, c, {}, 0) = EmptyBag
  <2>. HIDE DEF s
  <2>1. {Tag(s, q) : q \in {q \in s.adders[c] \cap {} : 0 < q}} = {}
    OBVIOUS
  <2>. QED BY <2>1, Zenon DEF AddedSince, EmptyBag
<1>4. ValueAfter(s, b, c, {}) = [In(s.start, c) EXCEPT !.plus = EmptyBag]
  <2>. HIDE DEF s
  <2>. QED BY <1>2, <1>3, Zenon DEF ValueAfter
<1>. HIDE DEF s, m
<1>. QED BY <1>1, <1>4 DEF Raw, Start, s, m

(* The memory is, at every step, what Base_Seq leaves there when it runs only *)
(* the jobs that have been run.                                               *)
LEMMA ValueInvNext ==
  ASSUME PlaceInv, TeamInv, RepInv, ValueInv, Kept, [Next]_vars
  PROVE  ValueInv'
<1>0. /\ kernel' = kernel /\ program' = program /\ data' = data
      /\ kernel \in {p[1] : p \in Chosen} /\ SeqIsPlain(kernel) /\ data = Catalog[kernel].data
      /\ PlaceInv' /\ TeamInv' /\ RepInv'
  BY KeptSame, PlaceInvNext, RepInvNext DEF PlaceInv, Kept, data
<1>b. PICK b : b = SeqBefore(kernel)
  OBVIOUS
<1>c. BeforeAre(kernel, b)
  BY <1>0, <1>b, SeqBeforeAre
<1>v. /\ ValueInv <=> (phase = "run" => Values(kernel, mem, b, PlacesRun))
      /\ ValueInv' <=> (phase' = "run" => Values(kernel, mem', b, PlacesRun'))
  BY <1>0, <1>b, Zenon DEF ValueInv, data
<1>1. CASE SetUp
  <2>1. mem' = SetUpMemory(data) /\ phase = "new" /\ team' = team /\ next' = next /\ rep' = rep /\ stage' = stage
    BY <1>1 DEF SetUp
  <2>2. team = {} /\ next = 1 /\ rep = 1 /\ stage = 1
    BY <2>1 DEF PlaceInv, RepInv
  <2>3. PlacesRun' = {}
    <3>1. ASSUME NEW p \in SeqPlaces(kernel) PROVE RepOf(kernel, p) \in Nat \ {0}
      <4>1. PICK r \in 1 .. Reps, n \in 1 .. SeqLen(kernel) : RepOf(kernel, p) = r
        BY <1>0, SeqPlacesAre DEF RepOf
      <4>. QED BY <4>1
    <3>2. ASSUME NEW q \in Positions(program) PROVE ~ Ran(q)'
      <4>1. /\ q[1] \in DOMAIN program /\ q[2] \in DOMAIN program[q[1]].workers
            /\ q[3] \in DOMAIN program[q[1]].workers[q[2]]
        BY PositionsAre
      <4>2. IsList(program) /\ IsLoop(program[q[1]].workers)
        BY <4>1, ProgramIs
      <4>3. IsList(program[q[1]].workers) /\ IsList(program[q[1]].workers[q[2]])
        BY <4>1, <4>2 DEF IsLoop
      <4>4. q[1] \in Nat \ {0} /\ q[2] \in Nat \ {0} /\ q[3] \in Nat \ {0}
        BY <4>1, <4>2, <4>3 DEF IsList
      <4>5. q[1] = 1 => JobAt(q[2])' = 1
        <5>1. JobsAre'
          BY <1>0, JobAtIs, PTL
        <5>2. workers' = program[1].workers /\ next' = 1 /\ team' = {}
          BY <1>0, <2>1, <2>2 DEF workers
        <5>. QED BY <4>1, <4>4, <5>1, <5>2 DEF JobsAre
      <4>. QED BY <2>1, <2>2, <4>4, <4>5 DEF Ran
    <3>3. \A i : ~ HasRun(i)'
      BY <1>0, <3>2 DEF HasRun
    <3>4. \A p \in SeqPlaces(kernel) : p \notin PlacesRun'
      BY <1>0, <2>1, <2>2, <3>1, <3>3 DEF PlacesRun
    <3>5. PlacesRun' \subseteq SeqPlaces(kernel)
      BY <1>0 DEF PlacesRun
    <3>. QED BY <3>4, <3>5
  <2>4. Values(kernel, mem', b, {})
    BY <1>0, <2>1, NothingRun DEF Values, Same
  <2>. QED BY <1>v, <2>3, <2>4
<1>2. CASE Begin
  <2>1. /\ workers' = workers /\ mem' = mem /\ rep' = rep /\ stage' = stage /\ phase = "run"
        /\ \A u \in DOMAIN workers : JobAt(u)' = JobAt(u)
    BY <1>0, <1>2, SameLoop, BeginMoves DEF Begin
  <2>2. PlacesRun' = PlacesRun
    BY <1>0, <2>1, PlacesRunSame
  <2>. QED BY <1>v, <2>1, <2>2
<1>3. CASE Execute
  <2>1. /\ workers' = workers /\ rep' = rep /\ stage' = stage /\ next' = next /\ phase = "run"
    BY <1>3, SameLoop DEF Execute
  <2>2. PICK t \in team : /\ mem' = Apply(mem, rep, At_(t))
                          /\ team' = (team \ {t}) \cup
                                (IF t[2] < Len(workers[t[1]]) THEN {<<t[1], t[2] + 1>>} ELSE {})
    BY <1>3 DEF Execute
  <2>3. PICK p : NextPlaceIs(t, p)
    BY NextPlace
  <2>4. PlacesRun' = PlacesRun \cup {p}
    BY <1>0, <2>1, <2>2, <2>3, ExecutePlaces
  <2>5. Values(kernel, mem, b, PlacesRun)
    BY <1>v, <2>1
  <2>6. Values(kernel, mem', b, PlacesRun \cup {p})
    <3> DEFINE E == PlacesRun
               j == At_(t)
    <3>1. /\ p \in SeqPlaces(kernel) /\ p \notin E /\ InPlace(kernel, p, E)
          /\ SameJob(j, SeqJob(kernel, p)) /\ Tag(Sequential[kernel], p) = <<rep, j.id>>
      BY <2>3 DEF NextPlaceIs
    <3>. HIDE DEF E, j
    <3>2. Values(kernel, Apply(mem, rep, j), b, E \cup {p})
      BY <1>0, <1>c, <2>5, <3>1, ApplyIsNext DEF E
    <3>. QED BY <2>2, <3>2 DEF E, j
  <2>. QED BY <1>v, <2>4, <2>6
<1>4. CASE EndLoop
  <2>1. phase = "run" /\ mem' = mem
    BY <1>4 DEF EndLoop
  <2>2. phase' = "run" => PlacesRun' = PlacesRun
    BY <1>0, <1>4, EndLoopPlaces
  <2>. QED BY <1>v, <2>1, <2>2
<1>5. CASE UpdateChecksum \/ TearDown
  <2>1. phase' # "run"
    BY <1>5 DEF UpdateChecksum, TearDown
  <2>. QED BY <1>v, <2>1
<1>6. CASE UNCHANGED vars
  <2>1. /\ workers' = workers /\ mem' = mem /\ rep' = rep /\ stage' = stage /\ phase' = phase
        /\ team' = team /\ next' = next
    BY <1>6, SameLoop DEF vars
  <2>2. \A u \in DOMAIN workers : JobAt(u)' = JobAt(u)
    BY <2>1 DEF JobAt
  <2>3. PlacesRun' = PlacesRun
    BY <1>0, <2>1, <2>2, PlacesRunSame
  <2>. QED BY <1>v, <2>1, <2>3
<1>. QED BY <1>1, <1>2, <1>3, <1>4, <1>5, <1>6 DEF Next

(* The jobs that ReadsAsSequential asks for are those of Base_Seq. *)
LEMMA SeqIdsAre ==
  ASSUME NEW k, SeqIsPlain(k)
  PROVE  Len(Sequential[k].ids) = SeqLen(k)
<1> DEFINE jobs == SequentialJobs[k]
           ids == Sequential[k].ids
           L == SeqLen(k)
<1>1. DOMAIN jobs = 1 .. L /\ L \in Nat
  BY DEF SeqIsPlain, IsList, SeqLen
<1>2. ids = [n \in DOMAIN jobs |-> jobs[n].id]
  BY SeqIs
<1>. HIDE DEF jobs, ids, L
<1>3. Len(ids) = L
  BY <1>1, <1>2, LengthIs
<1>. QED BY <1>3 DEF ids, L

(* What is in memory then shows what is read, *)
LEMMA ReadsShown ==
  ASSUME PlaceInv, TeamInv, RepInv, ValueInv, Kept
  PROVE  ReadsAsSequential
<1>. SUFFICES ASSUME NEW t \in team, NEW c \in At_(t).r, Holds(mem, c)
              PROVE  In(mem, c) = SequentialValue(c, Place(rep, At_(t).id))
  BY DEF ReadsAsSequential
<1>0. kernel \in {p[1] : p \in Chosen} /\ SeqIsPlain(kernel) /\ phase = "run"
  BY DEF Kept, PlaceInv
<1>1. PICK p : NextPlaceIs(t, p)
  BY NextPlace
<1>2. PICK b : b = SeqBefore(kernel)
  OBVIOUS
<1>3. BeforeAre(kernel, b)
  BY <1>0, <1>2, SeqBeforeAre
<1>4. /\ p \in SeqPlaces(kernel) /\ p \notin PlacesRun /\ InPlace(kernel, p, PlacesRun)
      /\ SameJob(At_(t), SeqJob(kernel, p))
      /\ p = InOrder(rep, Sequential[kernel].place[At_(t).id], SeqLen(kernel))
  BY <1>1 DEF NextPlaceIs
<1>5. c \in SeqJob(kernel, p).r
  BY <1>4 DEF SameJob
<1>6. ValueAfter(Sequential[kernel], b, c, PlacesRun) = b[p][c]
  <2>1. ValueStep(kernel, b, p, PlacesRun)
    BY <1>0, <1>3, <1>4, ValueSteps
  <2>. QED BY <1>5, <2>1, Zenon DEF ValueStep
<1>7. In(mem, c) = ValueAfter(Sequential[kernel], b, c, PlacesRun)
  BY <1>0, <1>2, Zenon DEF ValueInv, Values
<1>8. p = Place(rep, At_(t).id)
  BY <1>0, <1>4, SeqIdsAre DEF Place
<1>9. SequentialValue(c, p) = b[p][c]
  BY <1>0, <1>2, SequentialValueIs
<1>. QED BY <1>6, <1>7, <1>8, <1>9

(* and what is left at the end of a repetition. *)
LEMMA EndsShown ==
  ASSUME PlaceInv, TeamInv, RepInv, ValueInv, Kept
  PROVE  EndsAsSequential
<1>. SUFFICES ASSUME phase = "run", stage = Len(program), next > Len(workers), team = {},
                     NEW x \in DOMAIN mem, NEW i \in DOMAIN mem[x]
              PROVE  In(mem, <<x, i>>) = SequentialValue(<<x, i>>, PlaceAfter(rep))
  BY DEF EndsAsSequential
<1> DEFINE c == <<x, i>>
           q == PlaceAfter(rep)
           L == SeqLen(kernel)
           s == Sequential[kernel]
<1>0. kernel \in {p[1] : p \in Chosen} /\ SeqIsPlain(kernel) /\ KeepsOrder(kernel, program)
  BY DEF Kept, PlaceInv
<1>1. PICK b : b = SeqBefore(kernel)
  OBVIOUS
<1>2. L \in Nat /\ rep \in Nat \ {0} /\ q = rep * L + 1 /\ q \in Nat
  <2>1. L \in Nat /\ rep \in Nat \ {0}
    BY <1>0 DEF SeqIsPlain, IsList, SeqLen, RepInv
  <2>2. q = rep * L + 1
    BY <1>0, SeqIdsAre DEF PlaceAfter
  <2>3. rep * L \in Nat
    <3>. HIDE DEF L
    <3>. QED BY <2>1
  <2>. QED BY <2>1, <2>2, <2>3
<1>3. Holds(mem, c) /\ c \in DOMAIN s.writers
  <2>1. Holds(mem, c)
    BY DEF Holds
  <2>. QED BY <1>0, <2>1, SeqIs DEF ValueInv, Values, Same
<1>4. \A n \in Positions(program) : Ran(n)
  <2>. TAKE n \in Positions(program)
  <2>1. n[1] \in DOMAIN program /\ n[2] \in DOMAIN program[n[1]].workers
          /\ n[3] \in DOMAIN program[n[1]].workers[n[2]]
    BY PositionsAre
  <2>2. IsList(program) /\ IsLoop(program[n[1]].workers)
    BY <2>1, ProgramIs
  <2>3. IsList(program[n[1]].workers) /\ IsList(program[n[1]].workers[n[2]])
    BY <2>1, <2>2 DEF IsLoop
  <2>4. n[1] \in 1 .. stage /\ stage \in Nat
    BY <2>1, <2>2 DEF IsList
  <2>5. CASE n[1] = stage
    <3>1. n[2] \in DOMAIN workers /\ n[2] \in 1 .. Len(workers) /\ Len(workers) \in Nat
          /\ n[3] \in 1 .. Len(workers[n[2]]) /\ Len(workers[n[2]]) \in Nat /\ next \in Nat
      BY <2>1, <2>3, <2>5 DEF workers, IsList, PlaceInv
    <3>2. JobAt(n[2]) = Len(workers[n[2]]) + 1
      BY <3>1, JobAtIs DEF JobsAre
    <3>. QED BY <2>5, <3>1, <3>2 DEF Ran
  <2>. QED BY <2>4, <2>5 DEF Ran
<1>5. \A p \in SeqPlaces(kernel) : p \in PlacesRun <=> p \in 1 .. q - 1
  <2>. TAKE p \in SeqPlaces(kernel)
  <2>1. PICK r \in 1 .. Reps, n \in 1 .. L :
           p = InOrder(r, n, L) /\ SeqJob(kernel, p) = SequentialJobs[kernel][n] /\ RepOf(kernel, p) = r
    BY <1>0, SeqPlacesAre DEF RepOf
  <2>2. HasRun(SeqJob(kernel, p).id)
    BY <1>0, <1>4, <2>1, KeptIs DEF HasRun
  <2>3. p \in PlacesRun <=> r <= rep
    BY <1>2, <2>1, <2>2 DEF PlacesRun
  <2>4. p \in 1 .. q - 1 <=> r <= rep
    <3>1. L \in Nat \ {0} /\ r \in Nat \ {0} /\ L \in 1 .. L
      BY <1>2, <2>1
    <3>2. InOrder(rep, L, L) = rep * L
      <4>. HIDE DEF L
      <4>. QED BY <1>2, <3>1 DEF InOrder
    <3>3. InOrder(rep, L, L) < InOrder(r, n, L) <=> rep < r \/ (rep = r /\ L < n)
      <4>. HIDE DEF L
      <4>. QED BY <1>2, <2>1, <3>1, PlacesAreOrdered
    <3>4. p \in Nat \ {0} /\ rep * L \in Nat
      <4>1. p \in Nat \ {0}
        BY <1>0, SeqPlacesBounded
      <4>. QED BY <1>2, <4>1
    <3> DEFINE T == rep * L
    <3>5. T < p <=> rep < r
      <4>. HIDE DEF L
      <4>. QED BY <1>2, <2>1, <3>1, <3>2, <3>3
    <3>6. q = T + 1 /\ T \in Nat
      BY <1>2, <3>4
    <3>. HIDE DEF T, q
    <3>. QED BY <1>2, <3>4, <3>5, <3>6
  <2>. QED BY <2>3, <2>4
<1>6. ValueAfter(s, b, c, PlacesRun) = ValueAfter(s, b, c, 1 .. q - 1)
  <2>1. /\ s.writers[c] = {p \in SeqPlaces(kernel) : c \in SeqJob(kernel, p).w}
        /\ s.adders[c] = {p \in SeqPlaces(kernel) : c \in SeqJob(kernel, p).a}
    BY <1>0, <1>3, SeqOrderIs
  <2> DEFINE F == 1 .. q - 1
  <2>2. s.writers[c] \cap PlacesRun = s.writers[c] \cap F /\ s.adders[c] \cap PlacesRun = s.adders[c] \cap F
    <3>. HIDE DEF s, F, c
    <3>. QED BY <1>5, <2>1 DEF F
  <2>3. ValueAfter(s, b, c, PlacesRun) = ValueAfter(s, b, c, F)
    <3> DEFINE E == PlacesRun
    <3>1. s.writers[c] \cap E = s.writers[c] \cap F /\ s.adders[c] \cap E = s.adders[c] \cap F
      BY <2>2
    <3>. HIDE DEF s, F, c, E
    <3>2. ValueAfter(s, b, c, E) = ValueAfter(s, b, c, F)
      BY <3>1, SameUse
    <3>. QED BY <3>2 DEF E
  <2>. QED BY <2>3
<1>7. In(mem, c) = ValueAfter(s, b, c, PlacesRun)
  BY <1>1, <1>3, Zenon DEF ValueInv, Values
<1>8. SequentialValue(c, q) = b[q][c] /\ b[q][c] = ValueAfter(s, b, c, 1 .. q - 1)
  <2>1. \A d : \A n : SequentialValue(d, n) = b[n][d]
    BY <1>0, <1>1, SequentialValueIs
  <2>2. BeforeAre(kernel, b)
    BY <1>0, <1>1, SeqBeforeAre
  <2>3. b[q][c] = ValueAfter(s, b, c, 1 .. q - 1)
    <3>. HIDE DEF q, c
    <3>. QED BY <1>2, <1>3, <2>2 DEF BeforeAre
  <2>. HIDE DEF q, c, s
  <2>. QED BY <2>1, <2>3
<1>. QED BY <1>6, <1>7, <1>8

(***************************************************************************)
(* Every variant that runs the jobs of Base_Seq, each once, and those of    *)
(* them that conflict in the same order, reads in every iteration what      *)
(* Base_Seq reads there and leaves what Base_Seq leaves, in every schedule. *)
(***************************************************************************)
THEOREM KeptOrderIsEnough == Spec => [](Kept => ReadsAsSequential /\ EndsAsSequential)
<1> DEFINE Inv == PlaceInv /\ TeamInv /\ RepInv /\ (Kept => ValueInv)
<1>1. Init => Inv
  <2>1. Init => phase # "run"
    BY DEF Init
  <2>. QED BY <2>1, KInvInit, RepInvInit DEF KInv, ValueInv
<1>2. Inv /\ [Next]_vars => Inv'
  <2>. SUFFICES ASSUME Inv, [Next]_vars PROVE Inv'
    OBVIOUS
  <2>1. PlaceInv' /\ TeamInv' /\ RepInv' /\ (Kept' <=> Kept)
    BY PlaceInvNext, RepInvNext, KeptSame
  <2>2. Kept => ValueInv'
    BY ValueInvNext
  <2>. QED BY <2>1, <2>2
<1>3. Inv => (Kept => ReadsAsSequential /\ EndsAsSequential)
  BY ReadsShown, EndsShown
<1>. QED BY <1>1, <1>2, <1>3, PTL DEF Spec

-----------------------------------------------------------------------------
(* Kernels that are well written and keep the order *)

(* The cell is raw when setUp returns. *)
IsRaw(k, c) == In(SetUpMemory(Catalog[k].data), c) = Raw

(* Base_Seq writes what setUp has not written before it reads it, or adds to *)
(* it, and before the checksum does.                                         *)
WritesFirst(k) ==
  LET jobs == SequentialJobs[k]
      d == Catalog[k].data
  IN  /\ \A n \in DOMAIN jobs : \A c \in jobs[n].r \cup jobs[n].a :
            IsRaw(k, c) => \E m \in DOMAIN jobs : m < n /\ c \in jobs[m].w
      /\ \A x \in DOMAIN d.check :
            /\ x \in DOMAIN d.heap /\ d.check[x] \in Nat /\ d.heap[x] \in Nat /\ d.check[x] <= d.heap[x]
            /\ \A i \in 0 .. d.check[x] - 1 :
                  /\ <<x, i>> \notin d.locals
                  /\ IsRaw(k, <<x, i>>) => \E m \in DOMAIN jobs : <<x, i>> \in jobs[m].w

(* Two threads of a block do not conflict between two barriers. *)
BarriersHold(prog) ==
  \A s \in DOMAIN prog : \A u \in DOMAIN prog[s].workers : \A m, n \in DOMAIN prog[s].workers[u] :
     LET j == prog[s].workers[u][m]
         i == prog[s].workers[u][n]
     IN  m < n /\ j.ph = i.ph /\ j.th # i.th => ~ Conflict(j, i)

(* What is to be checked of a variant of a kernel: its text. *)
WellOrdered(k, prog) ==
  /\ SeqIsPlain(k) /\ KeepsOrder(k, prog)
  /\ WritesFirst(k) /\ BarriersHold(prog)
  /\ Catalog[k].data.freed = DOMAIN Catalog[k].data.heap

(* A cell has a value when setUp or a job that has run has written it. *)
LEMMA WrittenIsNotRaw ==
  ASSUME NEW k, SeqIsPlain(k), NEW b, NEW E, NEW c \in DOMAIN Sequential[k].writers,
         IsRaw(k, c) => Sequential[k].writers[c] \cap E # {}
  PROVE  ValueAfter(Sequential[k], b, c, E) # Raw
<1> DEFINE s == Sequential[k]
           last == LastWriter(s, c, E)
           v == ValueAfter(s, b, c, E)
<1>1. /\ last = 0 => v.by = In(s.start, c).by
      /\ last # 0 => v.by = Tag(s, last)
  <2>1. ValueRule(k, b, c, E)
    BY ValueIs
  <2>. QED BY <2>1, Zenon DEF ValueRule
<1>2. CASE last = 0
  <2>1. s.writers[c] \cap E = {}
    <3>1. \A w \in s.writers[c] \cap E : w <= 0
      BY <1>2, LastWriterIs
    <3>2. \A w \in s.writers[c] : w \in Nat \ {0}
      BY SeqOrderIs, SeqPlacesBounded
    <3>. HIDE DEF s
    <3>. QED BY <3>1, <3>2
  <2>2. In(s.start, c) = Start
    <3>1. /\ Holds(SetUpMemory(Catalog[k].data), c) /\ s.start = SetUpMemory(Catalog[k].data)
      BY SeqIs
    <3>2. In(SetUpMemory(Catalog[k].data), c) # Raw
      BY <2>1 DEF IsRaw
    <3>. HIDE DEF s
    <3>. QED BY <3>1, <3>2, SetUpValues
  <2>3. v.by = <<"setUp">>
    <3>. HIDE DEF v, s
    <3>. QED BY <1>1, <1>2, <2>2 DEF Start
  <2>4. <<"setUp">> # <<"raw">>
    OBVIOUS
  <2>5. v # Raw
    <3>. HIDE DEF v
    <3>. QED BY <2>3, <2>4 DEF Raw
  <2>. QED BY <2>5
<1>3. CASE last # 0
  <2>1. v.by = Tag(s, last)
    BY <1>1, <1>3
  <2>2. Tag(s, last) # <<"raw">>
    BY DEF Tag
  <2>3. v # Raw
    <3>. HIDE DEF v, s, last
    <3>. QED BY <2>1, <2>2 DEF Raw
  <2>. QED BY <2>3
<1>. QED BY <1>2, <1>3

(* What the jobs read or add to has been written. *)
LEMMA UsedIsWritten ==
  ASSUME PlaceInv, TeamInv, RepInv, ValueInv, Kept, WritesFirst(kernel),
         NEW t \in team, NEW c \in At_(t).r \cup At_(t).a
  PROVE  In(mem, c) # Raw
<1> DEFINE k == kernel
           L == SeqLen(k)
<1>0. k \in {p[1] : p \in Chosen} /\ SeqIsPlain(k) /\ phase = "run"
  BY DEF Kept, PlaceInv
<1>1. PICK p : NextPlaceIs(t, p)
  BY NextPlace
<1>2. /\ p \in SeqPlaces(k) /\ InPlace(k, p, PlacesRun) /\ c \in SeqJob(k, p).r \cup SeqJob(k, p).a
  BY <1>1 DEF NextPlaceIs, SameJob
<1>3. c \in DOMAIN Sequential[k].writers
  BY <1>0, <1>2, SeqCellsHold
<1>4. ASSUME IsRaw(k, c) PROVE Sequential[k].writers[c] \cap PlacesRun # {}
  <2>1. PICK r \in 1 .. Reps, n \in 1 .. L : p = InOrder(r, n, L) /\ SeqJob(k, p) = SequentialJobs[k][n]
    BY <1>0, <1>2, SeqPlacesAre
  <2>2. DOMAIN SequentialJobs[k] = 1 .. L /\ L \in Nat
    BY <1>0 DEF SeqIsPlain, IsList, SeqLen
  <2>3. PICK m \in 1 .. L : m < n /\ c \in SequentialJobs[k][m].w
    BY <1>2, <1>4, <2>1, <2>2 DEF WritesFirst
  <2> DEFINE q == InOrder(r, m, L)
  <2>4. q \in SeqPlaces(k) /\ SeqJob(k, q) = SequentialJobs[k][m]
    BY <1>0, SeqPlaceIs
  <2>5. q < p
    <3>1. L \in Nat \ {0} /\ r \in Nat \ {0}
      BY <2>2
    <3>. HIDE DEF L
    <3>. QED BY <2>1, <2>3, <3>1, PlacesAreOrdered
  <2>6. Conflict(SeqJob(k, p), SeqJob(k, q))
    <3>. HIDE DEF q
    <3>. QED BY <1>2, <2>3, <2>4 DEF Conflict
  <2>7. q # p
    <3>1. p \in Nat /\ q \in Nat
      BY <1>0, <1>2, <2>4, SeqPlacesBounded
    <3>. HIDE DEF q
    <3>. QED BY <2>5, <3>1
  <2>8. q \in PlacesRun
    <3>. HIDE DEF q
    <3>. QED BY <1>2, <2>4, <2>5, <2>6, <2>7 DEF InPlace
  <2>9. q \in Sequential[k].writers[c]
    <3>. HIDE DEF q
    <3>. QED BY <1>0, <1>3, <2>3, <2>4, SeqOrderIs
  <2>. QED BY <2>8, <2>9
<1>5. PICK b : b = SeqBefore(k)
  OBVIOUS
<1>6. ValueAfter(Sequential[k], b, c, PlacesRun) # Raw
  BY <1>0, <1>3, <1>4, WrittenIsNotRaw
<1>7. Holds(mem, c)
  BY <1>0, <1>3, SeqIs DEF ValueInv, Values, Same
<1>8. In(mem, c) = ValueAfter(Sequential[k], b, c, PlacesRun)
  BY <1>0, <1>5, <1>7, Zenon DEF ValueInv, Values
<1>. QED BY <1>6, <1>8

(* The arrays that are allocated, and what the checksum reads. *)
LiveInv ==
  /\ phase \in {"new", "run", "ran", "checked", "down"}
  /\ phase \in {"run", "ran", "checked"} => live = DOMAIN data.heap
  /\ phase = "down" => live = DOMAIN data.heap \ data.freed
CheckInv ==
  phase = "ran" => \A x \in DOMAIN data.check : \A i \in 0 .. data.check[x] - 1 : mem[x][i] # Raw

(* setUp allocates all arrays of the kernel, and tearDown frees them. *)
LEMMA LiveInvNext == ASSUME LiveInv, [Next]_vars PROVE LiveInv'
BY DEF LiveInv, Next, SetUp, Begin, Execute, EndLoop, UpdateChecksum, TearDown, vars, data

(* After the last repetition every cell that the checksum reads is written. *)
LEMMA CheckedIsWritten ==
  ASSUME PlaceInv, TeamInv, RepInv, ValueInv, Kept, WritesFirst(kernel),
         phase = "run", stage = Len(program), next > Len(workers), team = {},
         NEW x \in DOMAIN data.check, NEW i \in 0 .. data.check[x] - 1
  PROVE  mem[x][i] # Raw
<1> DEFINE k == kernel
           L == SeqLen(k)
           c == <<x, i>>
           q == PlaceAfter(rep)
           s == Sequential[k]
<1>0. k \in {p[1] : p \in Chosen} /\ SeqIsPlain(k) /\ data = Catalog[k].data
  BY DEF Kept, PlaceInv, data
<1>1. /\ x \in DOMAIN data.heap /\ i \in 0 .. data.heap[x] - 1 /\ c \notin data.locals
      /\ IsRaw(k, c) => \E m \in DOMAIN SequentialJobs[k] : c \in SequentialJobs[k][m].w
  BY <1>0 DEF WritesFirst
<1>2. x \in DOMAIN SetUpMemory(data) /\ i \in DOMAIN SetUpMemory(data)[x]
  BY <1>1 DEF SetUpMemory
<1>3. Holds(SetUpMemory(data), c)
  BY <1>2 DEF Holds
<1>4. Holds(mem, c) /\ c \in DOMAIN s.writers
  <2>. HIDE DEF c, s
  <2>. QED BY <1>0, <1>3, SeqIs DEF ValueInv, Values, Same, s
<1>5. In(mem, c) = SequentialValue(c, q)
  <2>1. x \in DOMAIN mem /\ i \in DOMAIN mem[x]
    BY <1>4 DEF Holds
  <2>2. EndsAsSequential
    BY EndsShown
  <2>. QED BY <1>1, <2>1, <2>2 DEF EndsAsSequential
<1>6. DOMAIN SequentialJobs[k] = 1 .. L /\ L \in Nat /\ rep \in 1 .. Reps /\ rep \in Nat \ {0} /\ q = rep * L + 1
  <2>1. DOMAIN SequentialJobs[k] = 1 .. L /\ L \in Nat
    BY <1>0 DEF SeqIsPlain, IsList, SeqLen
  <2>2. rep \in 1 .. Reps /\ rep \in Nat \ {0}
    BY DEF RepInv
  <2>3. q = rep * L + 1
    BY <1>0, SeqIdsAre DEF PlaceAfter
  <2>. QED BY <2>1, <2>2, <2>3
<1>7. ASSUME IsRaw(k, c) PROVE s.writers[c] \cap (1 .. q - 1) # {}
  <2>1. PICK m \in 1 .. L : c \in SequentialJobs[k][m].w
    BY <1>1, <1>6, <1>7
  <2> DEFINE p == InOrder(rep, m, L)
  <2>2. p \in SeqPlaces(k) /\ SeqJob(k, p) = SequentialJobs[k][m] /\ p \in Nat \ {0}
    BY <1>0, <1>6, SeqPlaceIs, SeqPlacesBounded
  <2>3. p <= rep * L
    <3>1. p = (rep - 1) * L + m
      BY DEF InOrder
    <3>2. (rep - 1) * L + L = rep * L /\ rep * L \in Nat /\ (rep - 1) * L \in Int
      <4>. HIDE DEF L
      <4>. QED BY <1>6
    <3> DEFINE T == rep * L
               U == (rep - 1) * L
    <3>3. p = U + m /\ U + L = T /\ T \in Nat /\ U \in Int
      BY <3>1, <3>2
    <3>. HIDE DEF T, U, p, L
    <3>4. p <= T
      BY <1>6, <3>3
    <3>. QED BY <3>4 DEF T
  <2>4. p \in 1 .. q - 1
    <3> DEFINE T == rep * L
    <3>1. T \in Nat /\ q = T + 1 /\ p <= T
      <4>1. rep * L \in Nat
        <5>. HIDE DEF L
        <5>. QED BY <1>6
      <4>. QED BY <1>6, <2>3, <4>1
    <3>. HIDE DEF T, q, p
    <3>. QED BY <2>2, <3>1
  <2>5. p \in s.writers[c]
    <3>. HIDE DEF p, c
    <3>. QED BY <1>0, <1>4, <2>1, <2>2, SeqOrderIs
  <2>. HIDE DEF p, q, c, s
  <2>. QED BY <2>4, <2>5
<1>8. SequentialValue(c, q) = ValueAfter(s, SeqBefore(k), c, 1 .. q - 1)
  <2>1. q \in Nat
    <3>1. rep * L \in Nat
      <4>. HIDE DEF L
      <4>. QED BY <1>6
    <3>. QED BY <1>6, <3>1
  <2>. HIDE DEF q, c
  <2>. QED BY <1>0, <1>4, <2>1, SequentialValueIs
<1>9. ValueAfter(s, SeqBefore(k), c, 1 .. q - 1) # Raw
  <2> DEFINE F == 1 .. q - 1
  <2>1. IsRaw(k, c) => s.writers[c] \cap F # {}
    BY <1>7
  <2>2. ValueAfter(s, SeqBefore(k), c, F) # Raw
    <3>. HIDE DEF c, F
    <3>. QED BY <1>0, <1>4, <2>1, WrittenIsNotRaw
  <2>. QED BY <2>2
<1>10. In(mem, c) = mem[x][i]
  BY DEF In
<1>. HIDE DEF c, q
<1>. QED BY <1>5, <1>8, <1>9, <1>10

(* So the checksum reads what was written. *)
LEMMA CheckInvNext ==
  ASSUME PlaceInv, TeamInv, RepInv, ValueInv, Kept, WritesFirst(kernel), CheckInv, [Next]_vars
  PROVE  CheckInv'
<1>0. data' = data
  BY KeptSame
<1>1. CASE EndLoop
  <2>. SUFFICES ASSUME phase' = "ran", NEW x \in DOMAIN data.check, NEW i \in 0 .. data.check[x] - 1
                PROVE  mem'[x][i] # Raw
    BY <1>0 DEF CheckInv
  <2>1. IsList(program) /\ stage \in DOMAIN program
    BY ProgramIs DEF PlaceInv
  <2>2. phase = "run" /\ stage = Len(program) /\ next > Len(workers) /\ team = {} /\ mem' = mem
    <3>1. phase = "run" /\ ~ (stage < Len(program)) /\ next > Len(workers) /\ team = {} /\ mem' = mem
      BY <1>1 DEF EndLoop
    <3>. QED BY <2>1, <3>1 DEF IsList
  <2>. QED BY <2>2, CheckedIsWritten
<1>2. CASE SetUp \/ Begin \/ Execute \/ UpdateChecksum \/ TearDown
  <2>1. phase' # "ran"
    BY <1>2 DEF SetUp, Begin, Execute, UpdateChecksum, TearDown
  <2>. QED BY <2>1 DEF CheckInv
<1>3. CASE UNCHANGED vars
  BY <1>0, <1>3 DEF CheckInv, vars
<1>. QED BY <1>1, <1>2, <1>3 DEF Next

(* The loops of a program that keeps the order have no race and stay inside  *)
(* the memory.                                                               *)
LEMMA OrderedLoops ==
  ASSUME NEW k, NEW prog, SeqIsPlain(k), KeepsOrder(k, prog), BarriersHold(prog),
         IsProgram(prog), NEW s \in DOMAIN prog
  PROVE  /\ RaceFree(prog[s].workers)
         /\ StaysInside(SetUpMemory(Catalog[k].data), prog[s].workers)
<1> DEFINE ws == prog[s].workers
           J(q) == JobIn(prog, q)
           jobs == SequentialJobs[k]
<1>1. IsLoop(ws)
  BY DEF IsProgram
<1>2. ASSUME NEW u \in DOMAIN ws, NEW m \in DOMAIN ws[u]
      PROVE  <<s, u, m>> \in Positions(prog) /\ J(<<s, u, m>>) = ws[u][m]
  BY PositionsAre DEF JobIn
<1>3. ASSUME NEW u \in DOMAIN ws, NEW v \in DOMAIN ws, u # v, NEW m \in DOMAIN ws[u], NEW n \in DOMAIN ws[v],
             Conflict(ws[u][m], ws[v][n])
      PROVE  FALSE
  <2> DEFINE q == <<s, u, m>>
             o == <<s, v, n>>
  <2>1. q \in Positions(prog) /\ o \in Positions(prog) /\ J(q) = ws[u][m] /\ J(o) = ws[v][n]
    BY <1>2
  <2>2. q # o /\ q[1] = s /\ o[1] = s /\ q[2] = u /\ o[2] = v
    BY <1>3
  <2>. HIDE DEF q, o
  <2>3. PICK a \in 1 .. SeqLen(k) : SameJob(J(q), jobs[a])
    BY <2>1, KeptIs
  <2>4. PICK b \in 1 .. SeqLen(k) : SameJob(J(o), jobs[b])
    BY <2>1, KeptIs
  <2>5. J(q).id # J(o).id
    BY <2>1, <2>2, KeptIs
  <2>6. a # b /\ a \in Nat /\ b \in Nat
    BY <2>3, <2>4, <2>5 DEF SameJob
  <2>7. Conflict(jobs[a], jobs[b]) /\ Conflict(jobs[b], jobs[a])
    <3>1. Conflict(J(q), J(o))
      BY <1>3, <2>1
    <3>. HIDE DEF jobs, J
    <3>. QED BY <2>3, <2>4, <3>1 DEF SameJob, Conflict
  <2>8. J(q).id = jobs[a].id /\ J(o).id = jobs[b].id
    BY <2>3, <2>4 DEF SameJob
  <2>9. a < b => Precedes(q, o)
    BY <2>1, <2>7, <2>8, KeptIs
  <2>10. b < a => Precedes(o, q)
    BY <2>1, <2>7, <2>8, KeptIs
  <2>11. ~ (s < s)
    <3>1. s \in Nat
      BY DEF IsProgram, IsList
    <3>. QED BY <3>1
  <2>12. ~ Precedes(q, o) /\ ~ Precedes(o, q)
    BY <1>3, <2>2, <2>11 DEF Precedes
  <2>. QED BY <2>6, <2>9, <2>10, <2>12
<1>4. RaceFree(ws)
  <2>1. /\ DOMAIN ws = 1 .. Len(ws) /\ Len(ws) \in Nat
        /\ \A u \in DOMAIN ws : DOMAIN ws[u] = 1 .. Len(ws[u]) /\ Len(ws[u]) \in Nat
    BY <1>1 DEF IsLoop, IsList
  <2>2. ASSUME NEW u \in DOMAIN ws, NEW m \in DOMAIN ws[u],
               NEW v \in u + 1 .. Len(ws), NEW n \in DOMAIN ws[v]
        PROVE  ~ Conflict(ws[u][m], ws[v][n])
    <3>1. v \in DOMAIN ws /\ u # v
      <4>. HIDE DEF ws
      <4>. QED BY <2>1
    <3>. QED BY <1>3, <3>1
  <2>3. ASSUME NEW u \in DOMAIN ws, NEW m \in DOMAIN ws[u], NEW n \in m + 1 .. Len(ws[u]),
               ws[u][m].ph = ws[u][n].ph, ws[u][m].th # ws[u][n].th
        PROVE  ~ Conflict(ws[u][m], ws[u][n])
    <3>1. n \in DOMAIN ws[u] /\ m < n
      <4>. HIDE DEF ws
      <4>. QED BY <2>1
    <3>. QED BY <2>3, <3>1 DEF BarriersHold
  <2>. HIDE DEF ws
  <2>. QED BY <2>2, <2>3 DEF RaceFree
<1>5. StaysInside(SetUpMemory(Catalog[k].data), ws)
  <2>. SUFFICES ASSUME NEW u \in DOMAIN ws, NEW n \in DOMAIN ws[u], NEW c \in ws[u][n].r
         \cup ws[u][n].w \cup ws[u][n].a
                PROVE  Holds(SetUpMemory(Catalog[k].data), c)
    BY DEF StaysInside
  <2>1. PICK a \in 1 .. SeqLen(k) : SameJob(ws[u][n], jobs[a])
    <3>1. <<s, u, n>> \in Positions(prog) /\ J(<<s, u, n>>) = ws[u][n]
      BY <1>2
    <3>2. \E a \in 1 .. SeqLen(k) : SameJob(J(<<s, u, n>>), jobs[a])
      BY <3>1, KeptIs
    <3>. HIDE DEF J, ws, jobs
    <3>. QED BY <3>1, <3>2
  <2>2. a \in DOMAIN jobs
    BY DEF SeqIsPlain, IsList, SeqLen
  <2>3. Inside(SetUpMemory(Catalog[k].data), jobs[a])
    BY <2>2 DEF SeqIsPlain
  <2>. HIDE DEF ws, jobs
  <2>. QED BY <2>1, <2>3 DEF SameJob, Inside
<1>. QED BY <1>4, <1>5

(***************************************************************************)
(* A variant that keeps the order of Base_Seq, and whose barriers hold, has  *)
(* no race in any of its loops, whatever setUp writes and tearDown frees:    *)
(* iterations that conflict are in one worker or in loops one after the      *)
(* other.                                                                    *)
(***************************************************************************)
THEOREM KeptOrderHasNoRace ==
  ASSUME \A p \in Chosen : LET prog == Catalog[p[1]][p[2]]
                           IN  SeqIsPlain(p[1]) /\ KeepsOrder(p[1], prog) /\ BarriersHold(prog)
  PROVE  Spec => []NoRace
<1>1. Init => PlaceInv /\ TeamInv
  BY KInvInit DEF KInv
<1>2. PlaceInv /\ TeamInv /\ [Next]_vars => (PlaceInv /\ TeamInv)'
  BY PlaceInvNext
<1>3. PlaceInv => NoRace
  <2>. SUFFICES ASSUME PlaceInv PROVE RaceFree(workers)
    BY DEF NoRace
  <2>1. SeqIsPlain(kernel) /\ KeepsOrder(kernel, program) /\ BarriersHold(program)
    BY DEF PlaceInv, program
  <2>2. IsProgram(program) /\ stage \in DOMAIN program
    BY ProgramIs DEF PlaceInv, IsProgram
  <2>. QED BY <2>1, <2>2, OrderedLoops DEF workers
<1>. QED BY <1>1, <1>2, <1>3, PTL DEF Spec

(* All that is owed, from the invariants. *)
LEMMA OrderedShows ==
  ASSUME PlaceInv, TeamInv, RepInv, ValueInv, LiveInv, CheckInv, WellOrdered(kernel, program)
  PROVE  NoRace /\ AccessesAreValid /\ MemoryIsReturned
<1>0. /\ Kept /\ WritesFirst(kernel) /\ BarriersHold(program) /\ data.freed = DOMAIN data.heap
      /\ data = Catalog[kernel].data /\ stage \in DOMAIN program
  BY DEF WellOrdered, Kept, data, PlaceInv
<1>1. IsLoop(workers) /\ IsProgram(program)
  BY ProgramIs DEF IsProgram
<1>2. RaceFree(workers) /\ StaysInside(SetUpMemory(data), workers)
  BY <1>0, <1>1, OrderedLoops DEF Kept, workers
<1>3. phase = "run" => StaysInside(mem, workers)
  <2>1. AllFit(SetUpMemory(data), workers)
    BY <1>1, <1>2, StaysInsideIs
  <2>2. phase = "run" => AllFit(mem, workers)
    BY <1>0, <2>1, FitsSame DEF ValueInv, Values, AllFit
  <2>. QED BY <1>1, <2>2, StaysInsideIs
<1>4. NoRace
  BY <1>2 DEF NoRace
<1>5. \A u \in team : \A c \in At_(u).r \cup At_(u).a : In(mem, c) # Raw
  BY <1>0, UsedIsWritten
<1>6. ASSUME phase = "ran", NEW x \in DOMAIN data.check
      PROVE  /\ Allocated(x, data.check[x])
             /\ \A i \in 0 .. data.check[x] - 1 : mem[x][i] # Raw
  <2>1. x \in DOMAIN data.heap /\ data.check[x] <= data.heap[x]
    BY <1>0, <1>6 DEF WritesFirst
  <2>. QED BY <1>6, <2>1 DEF Allocated, LiveInv, CheckInv
<1>7. AccessesAreValid
  BY <1>3, <1>5, <1>6 DEF AccessesAreValid, Starting
<1>8. MemoryIsReturned
  BY <1>0 DEF MemoryIsReturned, LiveInv
<1>. QED BY <1>4, <1>7, <1>8

(***************************************************************************)
(* A variant whose text keeps the order of Base_Seq, whose barriers hold and *)
(* whose Base_Seq writes before it reads, does all that it owes in every     *)
(* schedule and for any number of repetitions: no race, no access outside    *)
(* its memory or to a cell that was never written, what Base_Seq reads and   *)
(* what Base_Seq leaves, and its memory returned.                            *)
(***************************************************************************)
THEOREM OrderedTextIsEnough ==
  ASSUME \A p \in Chosen : WellOrdered(p[1], Catalog[p[1]][p[2]])
  PROVE  /\ Spec => [](NoRace /\ AccessesAreValid /\ MemoryIsReturned)
         /\ Spec => [](ReadsAsSequential /\ EndsAsSequential)
         /\ Spec => ImplementsWholeLoops
<1> DEFINE Inv == PlaceInv /\ TeamInv /\ RepInv /\ ValueInv /\ LiveInv /\ CheckInv
<1>1. PlaceInv => WellOrdered(kernel, program) /\ Kept /\ WritesFirst(kernel)
  BY DEF PlaceInv, program, WellOrdered, Kept
<1>2. Init => Inv
  <2>1. Init => LiveInv /\ phase = "new"
    BY DEF Init, LiveInv
  <2>2. Init => ValueInv /\ CheckInv
    BY <2>1 DEF ValueInv, CheckInv
  <2>. QED BY <2>1, <2>2, KInvInit, RepInvInit DEF KInv
<1>3. Inv /\ [Next]_vars => Inv'
  BY <1>1, PlaceInvNext, RepInvNext, ValueInvNext, LiveInvNext, CheckInvNext
<1>4. Inv => /\ NoRace /\ AccessesAreValid /\ MemoryIsReturned
             /\ ReadsAsSequential /\ EndsAsSequential
  BY <1>1, OrderedShows, ReadsShown, EndsShown
<1>5. /\ Spec => [](NoRace /\ AccessesAreValid /\ MemoryIsReturned)
      /\ Spec => [](ReadsAsSequential /\ EndsAsSequential)
  BY <1>2, <1>3, <1>4, PTL DEF Spec
<1>6. Spec => []NoRace /\ []AccessesAreValid
  BY <1>5, PTL
<1>. QED BY <1>5, <1>6, OrderDoesNotMatter, PTL

-----------------------------------------------------------------------------
(* Loops over one element after the other *)

(* The threads of the blocks of a launch are numbered from 0 on. *)
LEMMA ThreadsAre ==
  ASSUME NEW n \in Nat, BlockSize \in Nat \ {0}
  PROVE  LET S == Nest2(Upto(0, DivideCeiling(n, BlockSize)), Upto(0, BlockSize))
         IN  \E k \in Nat : /\ n <= k /\ DOMAIN S = 1 .. k
                            /\ \A u \in 1 .. k : 0 + S[u][1] * BlockSize + S[u][2] = u - 1
<1> DEFINE B == BlockSize
           q == DivideCeiling(n, B)
           S == Nest2(Upto(0, q), Upto(0, B))
<1>1. B \in Nat /\ B > 0
  OBVIOUS
<1>2. q \in Nat /\ n <= q * B /\ q * B \in Nat
  <2>1. n + B - 1 \in Nat
    BY <1>1
  <2>2. /\ (n + B - 1) \div B \in Int /\ (n + B - 1) % B \in 0 .. B - 1
        /\ n + B - 1 = B * ((n + B - 1) \div B) + ((n + B - 1) % B)
    <3>. HIDE DEF B
    <3>. QED BY <1>1, <2>1
  <2>3. q = (n + B - 1) \div B
    BY DEF DivideCeiling
  <2>4. q >= 0
    <3>. HIDE DEF B, q
    <3>. QED BY <1>1, <2>1, <2>2, <2>3
  <2>5. n <= B * q
    <3>. HIDE DEF B, q
    <3>. QED BY <1>1, <2>1, <2>2, <2>3
  <2>. HIDE DEF B, q
  <2>. QED BY <1>1, <2>2, <2>3, <2>4, <2>5
<1>3. /\ Upto(0, q) = [i \in 1 .. q |-> i - 1] /\ Len(Upto(0, q)) = q
      /\ Upto(0, B) = [i \in 1 .. B |-> i - 1] /\ Len(Upto(0, B)) = B
  <2>1. \A h \in Nat : Upto(0, h) = [i \in 1 .. h |-> i - 1]
    BY DEF Upto
  <2>2. \A h \in Nat : Len([i \in 1 .. h |-> i - 1]) = h
    <3>. TAKE h \in Nat
    <3>. QED BY ListIs
  <2>. HIDE DEF B, q
  <2>. QED BY <1>1, <1>2, <2>1, <2>2
<1>4. DOMAIN S = 1 .. q * B
  BY <1>3 DEF Nest2
<1>5. ASSUME NEW u \in 1 .. q * B
      PROVE  S[u][1] \in Nat /\ S[u][2] \in Nat /\ S[u][1] * B + S[u][2] = u - 1
  <2>1. /\ (u - 1) \div B \in 0 .. q - 1 /\ (u - 1) % B \in 0 .. B - 1
        /\ u - 1 = B * ((u - 1) \div B) + ((u - 1) % B)
    <3>0. u - 1 \in Nat /\ u - 1 < q * B
      <4>. HIDE DEF B, q
      <4>. QED BY <1>2
    <3>1. /\ (u - 1) \div B \in Int /\ (u - 1) % B \in 0 .. B - 1
          /\ u - 1 = B * ((u - 1) \div B) + ((u - 1) % B)
      <4>. HIDE DEF B, q
      <4>. QED BY <1>1, <3>0
    <3> DEFINE d == (u - 1) \div B
    <3>2. d >= 0
      <4>. HIDE DEF B, q
      <4>. QED BY <1>1, <3>0, <3>1
    <3>3. d < q
      <4>1. d \in Int /\ B * d <= u - 1 /\ B * d < B * q
        <5>. HIDE DEF B, q
        <5>. QED BY <1>1, <1>2, <3>0, <3>1
      <4>. HIDE DEF B, q, d
      <4>. QED BY <4>1, <1>1, <1>2
    <3>. HIDE DEF B, q
    <3>. QED BY <3>1, <3>2, <3>3, <1>2
  <2>2. S[u] = <<(u - 1) \div B, (u - 1) % B>>
    <3>1. S[u] = <<Upto(0, q)[((u - 1) \div B) + 1], Upto(0, B)[((u - 1) % B) + 1]>>
      BY <1>3 DEF Nest2
    <3>. HIDE DEF B, q, S
    <3>. QED BY <3>1, <1>1, <1>2, <1>3, <2>1
  <2>. HIDE DEF B, q, S
  <2>. QED BY <1>1, <1>2, <2>1, <2>2
<1>6. \A u \in 1 .. q * B : 0 + S[u][1] * B + S[u][2] = u - 1
  <2>. TAKE u \in 1 .. q * B
  <2>1. S[u][1] \in Nat /\ S[u][2] \in Nat /\ S[u][1] * B + S[u][2] = u - 1
    BY <1>5
  <2>. HIDE DEF B, q, S
  <2>. QED BY <2>1, <1>1
<1>. QED BY <1>2, <1>4, <1>6

(* A program of one loop over the jobs jb[0], ..., jb[n - 1]: by one worker, or *)
(* by a worker for each of them and perhaps others that have nothing to do.     *)
ByOneWorker(ws, jb, n) == ws = <<[i \in 1 .. n |-> jb[i - 1]]>>
ByManyWorkers(ws, jb, n) ==
  \E k \in Nat : n <= k /\ ws = [u \in 1 .. k |-> IF u <= n THEN <<jb[u - 1]>> ELSE <<>>]
OneLoop(prog, jb, n) ==
  /\ DOMAIN prog = {1}
  /\ ByOneWorker(prog[1].workers, jb, n) \/ ByManyWorkers(prog[1].workers, jb, n)

(* A program of one loop whose iterations do not conflict and stay in the    *)
(* memory has no race and no invalid access, whoever runs its iterations.    *)
LEMMA OneLoopIsFine ==
  ASSUME NEW prog, NEW jb, NEW n \in Nat, NEW m, OneLoop(prog, jb, n),
         \A i, k \in 0 .. n - 1 : i # k => ~ Conflict(jb[i], jb[k]),
         \A i \in 0 .. n - 1 : jb[i].th = 0,
         \A i \in 0 .. n - 1 : \A c \in jb[i].r \cup jb[i].w \cup jb[i].a : Holds(m, c)
  PROVE  \A s \in DOMAIN prog : RaceFree(prog[s].workers) /\ StaysInside(m, prog[s].workers)
<1> DEFINE ws == prog[1].workers
<1>1. /\ DOMAIN prog = {1} /\ prog[1].workers = ws
      /\ ByOneWorker(ws, jb, n) \/ ByManyWorkers(ws, jb, n)
  BY DEF OneLoop
<1>. HIDE DEF ws
<1>2. CASE ByOneWorker(ws, jb, n)
  <2>1. /\ DOMAIN ws = {1} /\ Len(ws) = 1 /\ DOMAIN ws[1] = 1 .. n
        /\ \A i \in 1 .. n : ws[1][i] = jb[i - 1] /\ i - 1 \in 0 .. n - 1
    BY <1>2 DEF ByOneWorker
  <2>2. \A i \in DOMAIN ws[1] : ws[1][i].th = 0
    BY <2>1
  <2>3. RaceFree(ws)
    BY <2>1, <2>2 DEF RaceFree
  <2>4. StaysInside(m, ws)
    BY <2>1 DEF StaysInside
  <2>. QED BY <1>1, <2>3, <2>4
<1>3. CASE ByManyWorkers(ws, jb, n)
  <2>1. PICK k \in Nat : n <= k /\ ws = [u \in 1 .. k |-> IF u <= n THEN <<jb[u - 1]>> ELSE <<>>]
    BY <1>3 DEF ByManyWorkers
  <2>2. DOMAIN ws = 1 .. k /\ Len(ws) = k
    <3>. QED BY <2>1, ListIs
  <2>3. \A u \in DOMAIN ws : \A i \in DOMAIN ws[u] : /\ i = 1 /\ u - 1 \in 0 .. n - 1
                                                     /\ ws[u][i] = jb[u - 1] /\ Len(ws[u]) = 1
    BY <2>1, <2>2
  <2>4. ASSUME NEW u \in DOMAIN ws, NEW i \in DOMAIN ws[u],
               NEW v \in u + 1 .. Len(ws), NEW h \in DOMAIN ws[v]
        PROVE  ~ Conflict(ws[u][i], ws[v][h])
    <3>1. v \in DOMAIN ws /\ u \in 1 .. k /\ v > u
      BY <2>2
    <3>2. ws[u][i] = jb[u - 1] /\ ws[v][h] = jb[v - 1]
      BY <2>3, <3>1
    <3>3. u - 1 \in 0 .. n - 1 /\ v - 1 \in 0 .. n - 1 /\ u - 1 # v - 1
      BY <2>3, <3>1
    <3>. QED BY <3>2, <3>3
  <2>5. ASSUME NEW u \in DOMAIN ws, NEW i \in DOMAIN ws[u], NEW h \in i + 1 .. Len(ws[u])
        PROVE  FALSE
    <3>1. i = 1 /\ Len(ws[u]) = 1
      BY <2>3
    <3>. QED BY <3>1
  <2>6. RaceFree(ws)
    BY <2>4, <2>5 DEF RaceFree
  <2>7. StaysInside(m, ws)
    BY <2>3 DEF StaysInside
  <2>. QED BY <1>1, <2>6, <2>7
<1>. QED BY <1>1, <1>2, <1>3

(* Workers of which the first n have a job each, the one with their index. *)
LEMMA OneEach ==
  ASSUME NEW jb, NEW n \in Nat, NEW k \in Nat, n <= k, NEW W,
         W = [u \in 1 .. k |-> W[u]],
         \A u \in 1 .. k : W[u] = IF u <= n THEN <<jb[u - 1]>> ELSE <<>>
  PROVE  ByManyWorkers(W, jb, n)
<1>1. W = [u \in 1 .. k |-> IF u <= n THEN <<jb[u - 1]>> ELSE <<>>]
  OBVIOUS
<1>. QED BY <1>1 DEF ByManyWorkers

(* A program of one launch. *)
LEMMA OneLoopIs ==
  ASSUME NEW jb, NEW n, NEW ws, ByOneWorker(ws, jb, n) \/ ByManyWorkers(ws, jb, n)
  PROVE  OneLoop(<<Launch(ws)>>, jb, n)
BY DEF OneLoop, Launch

(* One sequence of jobs, flattened, is this sequence. *)
LEMMA FlatOne ==
  ASSUME NEW seqs, Len(seqs) = 1
  PROVE  FlattenSeq(seqs) = seqs[1]
<1> DEFINE Flat(f) == f = [i \in 1 .. Len(seqs) |-> IF i = 1 THEN seqs[i] ELSE f[i - 1] \o seqs[i]]
           g == [i \in {1} |-> seqs[i]]
<1>1. 1 .. Len(seqs) = {1}
  OBVIOUS
<1>2. Flat(g)
  BY <1>1
<1>3. Flat(CHOOSE f : Flat(f))
  <2>. HIDE DEF Flat
  <2>. QED BY <1>2
<1>4. (CHOOSE f : Flat(f))[1] = seqs[1]
  <2> DEFINE h == CHOOSE f : Flat(f)
  <2>1. h = [i \in {1} |-> IF i = 1 THEN seqs[i] ELSE h[i - 1] \o seqs[i]]
    BY <1>1, <1>3
  <2>. HIDE DEF h
  <2>2. h[1] = seqs[1]
    BY <2>1
  <2>. QED BY <2>2 DEF h
<1>5. FlattenSeq(seqs) = (CHOOSE f : Flat(f))[1]
  BY DEF FlattenSeq
<1>. QED BY <1>4, <1>5

(* A kernel of one loop whose iterations do not conflict keeps the order of Base_Seq. *)
LEMMA OneLoopKeepsOrder ==
  ASSUME NEW k \in {p[1] : p \in Chosen}, NEW jb, NEW n \in Nat, NEW prog,
         DOMAIN Catalog[k].Seq = {1}, Len(Catalog[k].Seq) = 1,
         ByOneWorker(Catalog[k].Seq[1].workers, jb, n),
         OneLoop(prog, jb, n),
         \A i \in 0 .. n - 1 : jb[i].from = <<>> /\ Inside(SetUpMemory(Catalog[k].data), jb[i]),
         \A i, h \in 0 .. n - 1 : i # h => jb[i].id # jb[h].id /\ ~ Conflict(jb[i], jb[h])
  PROVE  SeqIsPlain(k) /\ KeepsOrder(k, prog)
<1> DEFINE jobs == SequentialJobs[k]
           place == Sequential[k].place
           J(q) == JobIn(prog, q)
           P == Positions(prog)
<1>1. jobs = [i \in 1 .. n |-> jb[i - 1]]
  <2> DEFINE ss == [s \in DOMAIN Catalog[k].Seq |-> Catalog[k].Seq[s].workers[1]]
  <2>1. jobs = FlattenSeq(ss)
    BY Zenon DEF SequentialJobs
  <2>2. ss = [s \in 1 .. 1 |-> ss[s]] /\ ss[1] = Catalog[k].Seq[1].workers[1]
    OBVIOUS
  <2>3. Len(ss) = 1
    <3>. HIDE DEF ss
    <3>. QED BY <2>2, LengthIs
  <2>4. FlattenSeq(ss) = ss[1]
    <3>. HIDE DEF ss
    <3>. QED BY <2>3, FlatOne
  <2>5. ss[1] = [i \in 1 .. n |-> jb[i - 1]]
    BY <2>2 DEF ByOneWorker
  <2>. HIDE DEF ss, jobs
  <2>. QED BY <2>1, <2>4, <2>5
<1>2. IsList(jobs) /\ DOMAIN jobs = 1 .. n /\ \A i \in 1 .. n : jobs[i] = jb[i - 1] /\ i - 1 \in 0 .. n - 1
  <2>1. jobs = [i \in 1 .. n |-> jobs[i]]
    BY <1>1
  <2>2. Len(jobs) = n
    <3>. HIDE DEF jobs
    <3>. QED BY <2>1, LengthIs
  <2>. HIDE DEF jobs
  <2>. QED BY <1>1, <2>1, <2>2 DEF IsList
<1>3. \A i, h \in 1 .. n : i # h => jobs[i].id # jobs[h].id /\ ~ Conflict(jobs[i], jobs[h])
  <2>. HIDE DEF jobs
  <2>. SUFFICES ASSUME NEW i \in 1 .. n, NEW h \in 1 .. n, i # h
                PROVE  jobs[i].id # jobs[h].id /\ ~ Conflict(jobs[i], jobs[h])
    OBVIOUS
  <2>1. i - 1 # h - 1
    OBVIOUS
  <2>2. /\ jobs[i] = jb[i - 1] /\ i - 1 \in 0 .. n - 1
        /\ jobs[h] = jb[h - 1] /\ h - 1 \in 0 .. n - 1
    BY <1>2
  <2>3. jb[i - 1].id # jb[h - 1].id /\ ~ Conflict(jb[i - 1], jb[h - 1])
    BY <2>1, <2>2
  <2>. QED BY <2>2, <2>3, Zenon
<1>4. SeqIsPlain(k)
  <2>1. \A i \in DOMAIN jobs : jobs[i].from = <<>> /\ Inside(SetUpMemory(Catalog[k].data), jobs[i])
    <3>. HIDE DEF jobs
    <3>. QED BY <1>2
  <2>2. DOMAIN <<>> = {}
    OBVIOUS
  <2>3. \A i \in DOMAIN jobs : /\ DOMAIN jobs[i].from \subseteq jobs[i].w
                               /\ \A c \in DOMAIN jobs[i].from : jobs[i].from[c] \in jobs[i].r
    <3>. HIDE DEF jobs
    <3>. TAKE i \in DOMAIN jobs
    <3>1. DOMAIN jobs[i].from = {}
      BY <2>1, <2>2
    <3>. QED BY <3>1
  <2>4. \A m, i \in DOMAIN jobs : jobs[m].id = jobs[i].id => m = i
    <3>. HIDE DEF jobs
    <3>. QED BY <1>2, <1>3
  <2>. QED BY <1>2, <2>1, <2>3, <2>4, Zenon DEF SeqIsPlain
<1>5. \A i \in 1 .. n : place[jobs[i].id] = i
  <2>1. place = [d \in {jobs[i].id : i \in DOMAIN jobs} |-> CHOOSE i \in DOMAIN jobs : jobs[i].id = d]
    BY <1>4, SeqIs
  <2>. HIDE DEF jobs, place
  <2>. TAKE i \in 1 .. n
  <2>2. jobs[i].id \in {jobs[h].id : h \in DOMAIN jobs}
    BY <1>2
  <2>3. (CHOOSE h \in DOMAIN jobs : jobs[h].id = jobs[i].id) = i
    BY <1>2, <1>3
  <2>. QED BY <2>1, <2>2, <2>3
(* Every position has the job of an index, and every index a position. *)
<1> DEFINE ws == prog[1].workers
<1>6. DOMAIN prog = {1} /\ (ByOneWorker(ws, jb, n) \/ ByManyWorkers(ws, jb, n))
  BY DEF OneLoop
<1>7. \A q : q \in P <=> q = <<1, q[2], q[3]>> /\ q[2] \in DOMAIN ws /\ q[3] \in DOMAIN ws[q[2]]
  <2>1. \A q : q \in P <=> /\ q = <<q[1], q[2], q[3]>> /\ q[1] \in DOMAIN prog
                           /\ q[2] \in DOMAIN prog[q[1]].workers /\ q[3] \in DOMAIN prog[q[1]].workers[q[2]]
    BY PositionsAre, Zenon
  <2>. HIDE DEF P
  <2>. QED BY <1>6, <2>1
<1>8. \E at : /\ \A i \in 1 .. n : at[i] \in P /\ J(at[i]) = jobs[i]
              /\ \A q \in P : \E i \in 1 .. n : q = at[i]
  <2>1. CASE ByOneWorker(ws, jb, n)
    <3> DEFINE at == [i \in 1 .. n |-> <<1, 1, i>>]
    <3>1. DOMAIN ws = {1} /\ DOMAIN ws[1] = 1 .. n /\ \A i \in 1 .. n : ws[1][i] = jb[i - 1]
      BY <2>1 DEF ByOneWorker
    <3>2. ASSUME NEW i \in 1 .. n PROVE at[i] \in P /\ J(at[i]) = jobs[i]
      <4>. HIDE DEF P, jobs, ws
      <4>1. at[i] = <<1, 1, i>> /\ at[i] \in P
        BY <1>7, <3>1
      <4>2. J(<<1, 1, i>>) = ws[1][i]
        BY DEF JobIn, ws
      <4>. QED BY <4>1, <4>2, <3>1, <1>2
    <3>3. ASSUME NEW q \in P PROVE \E i \in 1 .. n : q = at[i]
      <4>. HIDE DEF P, jobs, ws
      <4>. QED BY <1>7, <3>1
    <3>. HIDE DEF at, P, J, jobs
    <3>. QED BY <3>2, <3>3
  <2>2. CASE ByManyWorkers(ws, jb, n)
    <3>0. PICK h \in Nat : n <= h /\ ws = [u \in 1 .. h |-> IF u <= n THEN <<jb[u - 1]>> ELSE <<>>]
      BY <2>2 DEF ByManyWorkers
    <3> DEFINE at == [i \in 1 .. n |-> <<1, i, 1>>]
    <3>1. /\ DOMAIN ws = 1 .. h
          /\ \A i \in 1 .. n : i \in 1 .. h /\ ws[i] = <<jb[i - 1]>>
          /\ \A u \in 1 .. h : u \notin 1 .. n => ws[u] = <<>>
      <4>. HIDE DEF ws
      <4>. QED BY <3>0
    <3>2. ASSUME NEW i \in 1 .. n PROVE at[i] \in P /\ J(at[i]) = jobs[i]
      <4>. HIDE DEF P, jobs, ws
      <4>1. at[i] = <<1, i, 1>> /\ at[i] \in P
        BY <1>7, <3>1
      <4>2. J(<<1, i, 1>>) = ws[i][1]
        BY DEF JobIn, ws
      <4>. QED BY <4>1, <4>2, <3>1, <1>2
    <3>3. ASSUME NEW q \in P PROVE \E i \in 1 .. n : q = at[i]
      <4>. HIDE DEF P, jobs, ws
      <4>1. q[2] \in 1 .. n
        BY <1>7, <3>1
      <4>2. q[3] = 1
        BY <1>7, <3>1, <4>1
      <4>. QED BY <1>7, <4>1, <4>2
    <3>. HIDE DEF at, P, J, jobs
    <3>. QED BY <3>2, <3>3
  <2>. QED BY <1>6, <2>1, <2>2
<1>9. PICK at : /\ \A i \in 1 .. n : at[i] \in P /\ J(at[i]) = jobs[i]
                /\ \A q \in P : \E i \in 1 .. n : q = at[i]
  BY <1>8
<1>10. KeepsOrder(k, prog)
  <2>. HIDE DEF jobs, place, J, P
  <2>1. {J(q).id : q \in P} = {jobs[i].id : i \in DOMAIN jobs}
    <3>1. ASSUME NEW q \in P PROVE J(q).id \in {jobs[i].id : i \in DOMAIN jobs}
      <4>1. PICK i \in 1 .. n : q = at[i] /\ J(at[i]) = jobs[i]
        BY <1>9
      <4>2. i \in DOMAIN jobs /\ J(q).id = jobs[i].id
        BY <4>1, <1>2
      <4>. QED BY <4>2
    <3>2. ASSUME NEW i \in DOMAIN jobs PROVE jobs[i].id \in {J(q).id : q \in P}
      <4>1. at[i] \in P /\ J(at[i]).id = jobs[i].id
        BY <1>2, <1>9
      <4>. QED BY <4>1
    <3>. QED BY <3>1, <3>2
  <2>2. \A q \in P : SameJob(J(q), jobs[place[J(q).id]])
    BY <1>5, <1>9 DEF SameJob
  <2>3. \A q, o \in P : J(q).id = J(o).id => q = o
    BY <1>3, <1>9
  <2>4. \A q, o \in P : ~ (place[J(q).id] < place[J(o).id] /\ Conflict(J(q), J(o)))
    <3>. SUFFICES ASSUME NEW q \in P, NEW o \in P, place[J(q).id] < place[J(o).id] PROVE ~ Conflict(J(q), J(o))
      OBVIOUS
    <3>1. PICK i \in 1 .. n : J(q) = jobs[i] /\ place[J(q).id] = i
      BY <1>5, <1>9
    <3>2. PICK h \in 1 .. n : J(o) = jobs[h] /\ place[J(o).id] = h
      BY <1>5, <1>9
    <3>3. i # h
      BY <3>1, <3>2
    <3>. QED BY <1>3, <3>1, <3>2, <3>3
  <2>. QED BY <2>1, <2>2, <2>3, <2>4, Zenon DEF KeepsOrder, jobs, place, J, P
<1>. QED BY <1>4, <1>10

-----------------------------------------------------------------------------
(* Kernels of one loop over the elements of arrays *)

(* The kernels of one loop whose iteration i does the same to element i: the     *)
(* name of its loop, and what one iteration touches.                             *)
LoopName ==
  [ADD |-> "add", COPY |-> "copy", MUL |-> "mul", TRIAD |-> "triad", MEMCPY |-> "copy",
   MEMSET |-> "set", ARRAY_OF_PTRS |-> "ptrs", COPY8 |-> "copy", DAXPY |-> "daxpy",
   DAXPY_ATOMIC |-> "daxpy", IF_QUAD |-> "quad", INIT3 |-> "init", INIT_VIEW1D |-> "init",
   MULADDSUB |-> "mas", DIFF_PREDICT |-> "diff", EOS |-> "eos", FIRST_DIFF |-> "diff",
   HYDRO_1D |-> "hydro", INT_PREDICT |-> "predict", PLANCKIAN |-> "planck"]
Elementwise == DOMAIN LoopName
ElementBody(k, i) ==
  CASE k = "ADD" -> ADD_Body(i)
    [] k = "COPY" -> COPY_Body(i)
    [] k = "MUL" -> MUL_Body(i)
    [] k = "TRIAD" -> TRIAD_Body(i)
    [] k = "MEMCPY" -> MEMCPY_Body(i)
    [] k = "MEMSET" -> MEMSET_Body(i)
    [] k = "ARRAY_OF_PTRS" -> ARRAY_OF_PTRS_Body(i)
    [] k = "COPY8" -> COPY8_Body(i)
    [] k = "DAXPY" -> DAXPY_Body(i)
    [] k = "DAXPY_ATOMIC" -> DAXPY_ATOMIC_Body(i)
    [] k = "IF_QUAD" -> IF_QUAD_Body(i)
    [] k = "INIT3" -> INIT3_Body(i)
    [] k = "INIT_VIEW1D" -> INIT_VIEW1D_Body(i)
    [] k = "MULADDSUB" -> MULADDSUB_Body(i)
    [] k = "DIFF_PREDICT" -> DIFF_PREDICT_Body(i)
    [] k = "EOS" -> EOS_Body(i)
    [] k = "FIRST_DIFF" -> FIRST_DIFF_Body(i)
    [] k = "HYDRO_1D" -> HYDRO_1D_Body(i)
    [] k = "INT_PREDICT" -> INT_PREDICT_Body(i)
    [] k = "PLANCKIAN" -> PLANCKIAN_Body(i)

(* Their rows in the catalogues. *)
ElementRow(k) ==
  CASE k \in {"ADD", "COPY", "MUL", "TRIAD"} -> StreamCatalog[k]
    [] k \in {"MEMCPY", "MEMSET"} -> AlgorithmCatalog[k]
    [] k \in {"ARRAY_OF_PTRS", "COPY8", "DAXPY", "DAXPY_ATOMIC", "IF_QUAD", "INIT3", "INIT_VIEW1D",
         "MULADDSUB"} -> BasicCatalog[k]
    [] k \in {"DIFF_PREDICT", "EOS", "FIRST_DIFF", "HYDRO_1D", "INT_PREDICT", "PLANCKIAN"} -> LcalsCatalog[k]

(* Their jobs, and what one worker, a worker for every index and the threads of *)
(* the blocks of a launch make of them.                                           *)
ElementJob(k, i) == Job(LoopName[k], i, ElementBody(k, i), 0, 0)
ElementJobs(k, x) == <<>> \o [n \in DOMAIN x |-> ElementJob(k, x[n])]
ElementSeq(k) == <<Launch(<<ElementJobs(k, Upto(0, Target1))>>)>>
ElementOMP(k) == <<Launch([n \in DOMAIN Upto(0, Target1) |-> ElementJobs(k, <<Upto(0, Target1)[n]>>)])>>
GridThreads == Nest2(Upto(0, DivideCeiling(Target1 - 0, BlockSize)), Upto(0, BlockSize))
ThreadIndex(t) == 0 + t[1] * BlockSize + t[2]
ElementGPU(k) ==
  <<Launch([n \in DOMAIN GridThreads |->
              ElementJobs(k, IF Before(ThreadIndex(GridThreads[n]), Target1)
                             THEN <<ThreadIndex(GridThreads[n])>> ELSE <<>>)])>>

(* The loop is one over the jobs of its indices, in every variant. *)
LEMMA ElementLoops ==
  ASSUME Target1 \in Nat, BlockSize \in Nat \ {0}, NEW k, NEW jb, jb = [i \in Nat |-> ElementJob(k, i)]
  PROVE  /\ ByOneWorker(ElementSeq(k)[1].workers, jb, Target1)
         /\ \A prog \in {ElementSeq(k), ElementOMP(k), ElementGPU(k)} : OneLoop(prog, jb, Target1)
<1> DEFINE J(s) == ElementJobs(k, s)
<1>1. Upto(0, Target1) = [n \in 1 .. Target1 |-> n - 1]
  BY DEF Upto
<1>2. J(<<>>) = <<>> /\ \A i \in Nat : J(<<i>>) = <<jb[i]>>
  <2>1. J(<<>>) = <<>>
    BY DEF ElementJobs
  <2>2. ASSUME NEW i \in Nat PROVE J(<<i>>) = <<jb[i]>>
    <3> DEFINE f == [n \in DOMAIN <<i>> |-> ElementJob(k, <<i>>[n])]
    <3>1. f = [n \in 1 .. 1 |-> ElementJob(k, i)]
      OBVIOUS
    <3>2. J(<<i>>) = <<>> \o f
      BY DEF ElementJobs
    <3>3. f = <<jb[i]>>
      BY <3>1
    <3>. HIDE DEF f, J
    <3>. QED BY <3>1, <3>2, <3>3, ListIs
  <2>. QED BY <2>1, <2>2
<1>3. ByOneWorker(<<J(Upto(0, Target1))>>, jb, Target1)
  <2> DEFINE f == [i \in 1 .. Target1 |-> jb[i - 1]]
  <2>1. f = [n \in DOMAIN Upto(0, Target1) |-> ElementJob(k, Upto(0, Target1)[n])]
    BY <1>1
  <2>2. J(Upto(0, Target1)) = <<>> \o f /\ <<>> \o f = f
    BY <2>1, ListIs, Zenon DEF ElementJobs
  <2>. QED BY <2>2, Zenon DEF ByOneWorker
<1>4. ElementSeq(k) = <<Launch(<<J(Upto(0, Target1))>>)>>
  BY DEF ElementSeq
<1>5. OneLoop(ElementSeq(k), jb, Target1)
  <2>. HIDE DEF J
  <2>. QED BY <1>3, <1>4, OneLoopIs
<1>6. OneLoop(ElementOMP(k), jb, Target1)
  <2> DEFINE W == [n \in 1 .. Target1 |-> J(<<n - 1>>)]
  <2>1. ElementOMP(k) = <<Launch(W)>>
    BY <1>1 DEF ElementOMP
  <2>2. Target1 <= Target1 /\ \A u \in 1 .. Target1 : u - 1 \in Nat /\ u <= Target1
    OBVIOUS
  <2>. HIDE DEF J
  <2>3. /\ W = [u \in 1 .. Target1 |-> W[u]]
        /\ \A u \in 1 .. Target1 : W[u] = IF u <= Target1 THEN <<jb[u - 1]>> ELSE <<>>
    BY <1>2, <2>2
  <2>. HIDE DEF W
  <2>4. ByManyWorkers(W, jb, Target1)
    BY <2>2, <2>3, OneEach
  <2>. QED BY <2>1, <2>4, OneLoopIs
<1>7. OneLoop(ElementGPU(k), jb, Target1)
  <2> DEFINE S == GridThreads
             I(u) == ThreadIndex(S[u])
             W == [u \in DOMAIN S |-> J(IF Before(I(u), Target1) THEN <<I(u)>> ELSE <<>>)]
  <2>1. PICK h \in Nat : Target1 <= h /\ DOMAIN S = 1 .. h /\ \A u \in 1 .. h : I(u) = u - 1
    <3>1. Target1 - 0 = Target1
      OBVIOUS
    <3>. QED BY <3>1, ThreadsAre DEF GridThreads, ThreadIndex
  <2>2. ElementGPU(k) = <<Launch(W)>>
    BY DEF ElementGPU
  <2>3. \A u \in 1 .. h : u - 1 \in Nat /\ (Before(u - 1, Target1) <=> u <= Target1)
    BY DEF Before
  <2>. HIDE DEF J, S, I
  <2>4. /\ W = [u \in 1 .. h |-> W[u]]
        /\ \A u \in 1 .. h : W[u] = IF u <= Target1 THEN <<jb[u - 1]>> ELSE <<>>
    BY <1>2, <2>1, <2>3
  <2>. HIDE DEF W
  <2>5. ByManyWorkers(W, jb, Target1)
    BY <2>1, <2>4, OneEach
  <2>. QED BY <2>2, <2>5, OneLoopIs
<1>8. ElementSeq(k)[1].workers = <<J(Upto(0, Target1))>>
  BY <1>4 DEF Launch
<1>. QED BY <1>3, <1>5, <1>6, <1>7, <1>8

(* An iteration touches memory of the kernel, and nothing that another iteration   *)
(* changes; and setUp, updateChecksum and tearDown are as WellWritten wants them.  *)
OwnElements(k, d) ==
  /\ \A i \in 0 .. Target1 - 1 : /\ ElementBody(k, i).from = <<>>
                                 /\ Inside(SetUpMemory(d), ElementBody(k, i))
  /\ \A i, h \in 0 .. Target1 - 1 : i # h => ~ Conflict(ElementBody(k, i), ElementBody(k, h))
  /\ d.raw = {} /\ d.locals = {}
  /\ \A x \in DOMAIN d.check : x \in DOMAIN d.heap /\ d.check[x] \in Nat /\ d.heap[x] \in Nat
                              /\ d.check[x] <= d.heap[x]
  /\ d.freed = DOMAIN d.heap

(* Such a kernel has no race, stays in its memory and keeps the order of Base_Seq. *)
LEMMA ElementsAreFine ==
  ASSUME Target1 \in Nat, BlockSize \in Nat \ {0}, NEW k, NEW d, OwnElements(k, d),
         NEW prog \in {ElementSeq(k), ElementOMP(k), ElementGPU(k)}
  PROVE  /\ WellWritten(d, prog)
         /\ k \in {p[1] : p \in Chosen} /\ Catalog[k].data = d /\ Catalog[k].Seq = ElementSeq(k)
               => SeqIsPlain(k) /\ KeepsOrder(k, prog)
<1> DEFINE jb == [i \in Nat |-> ElementJob(k, i)]
<1>1. \A i \in 0 .. Target1 - 1 : jb[i] = ElementJob(k, i)
  OBVIOUS
<1>2. ByOneWorker(ElementSeq(k)[1].workers, jb, Target1) /\ OneLoop(prog, jb, Target1)
  BY ElementLoops
<1>. HIDE DEF jb
<1>3. \A i \in 0 .. Target1 - 1 : /\ jb[i].r = ElementBody(k, i).r /\ jb[i].w = ElementBody(k, i).w
                                  /\ jb[i].a = ElementBody(k, i).a /\ jb[i].from = ElementBody(k, i).from
                                  /\ jb[i].th = 0 /\ jb[i].id = <<LoopName[k], i>>
  <2>. TAKE i \in 0 .. Target1 - 1
  <2>1. jb[i] = [id |-> <<LoopName[k], i>>, r |-> ElementBody(k, i).r, w |-> ElementBody(k, i).w,
                 a |-> ElementBody(k, i).a, from |-> ElementBody(k, i).from, ph |-> 0, th |-> 0]
    BY <1>1, Zenon DEF ElementJob, Job
  <2>. QED BY <2>1
<1>4. \A i \in 0 .. Target1 - 1 : jb[i].from = <<>> /\ Inside(SetUpMemory(d), jb[i])
  BY <1>3 DEF OwnElements, Inside
<1>5. \A i, h \in 0 .. Target1 - 1 : i # h => jb[i].id # jb[h].id /\ ~ Conflict(jb[i], jb[h])
  BY <1>3 DEF OwnElements, Conflict
<1>6. \A s \in DOMAIN prog : RaceFree(prog[s].workers) /\ StaysInside(SetUpMemory(d), prog[s].workers)
  <2>1. \A i \in 0 .. Target1 - 1 : \A c \in jb[i].r \cup jb[i].w \cup jb[i].a : Holds(SetUpMemory(d), c)
    BY <1>4 DEF Inside
  <2>. QED BY <1>2, <1>3, <1>5, <2>1, OneLoopIsFine
<1>7. WellWritten(d, prog)
  BY <1>6 DEF WellWritten, OwnElements
<1>8. ASSUME k \in {p[1] : p \in Chosen}, Catalog[k].data = d, Catalog[k].Seq = ElementSeq(k)
      PROVE  SeqIsPlain(k) /\ KeepsOrder(k, prog)
  <2>1. DOMAIN ElementSeq(k) = {1} /\ Len(ElementSeq(k)) = 1
    BY DEF ElementSeq
  <2>. QED BY <1>2, <1>4, <1>5, <1>8, <2>1, OneLoopKeepsOrder
<1>. QED BY <1>7, <1>8

(* Iteration i of ADD touches elements that no other iteration changes. *)
LEMMA ADDText == ASSUME Target1 \in Nat PROVE OwnElements("ADD", ADD_Data)
<1> DEFINE b(i) == ADD_Body(i)
<1>1. \A i : ElementBody("ADD", i) = b(i)
  BY DEF ElementBody
<1>2. \A i : /\ b(i).r = {<<"a", i>>, <<"b", i>>}
             /\ b(i).w = {<<"c", i>>} /\ b(i).a = {} /\ b(i).from = <<>>
  BY DEF ADD_Body, Body, Adds, Var, At
<1>3. /\ DOMAIN ADD_Data.heap = {"a", "b", "c"} /\ \A x \in {"a", "b", "c"} : ADD_Data.heap[x] = Target1
      /\ ADD_Data.raw = {} /\ ADD_Data.locals = {} /\ ADD_Data.members = {}
      /\ \A x \in DOMAIN ADD_Data.check : x \in {"c"} /\ ADD_Data.check[x] = Target1
      /\ ADD_Data.freed = {"a", "b", "c"}
  BY DEF ADD_Data, Data
<1>4. ASSUME NEW i \in 0 .. Target1 - 1 PROVE Inside(SetUpMemory(ADD_Data), b(i))
  <2>1. \A x, j : Holds(SetUpMemory(ADD_Data), <<x, j>>) <=>
           \/ x \in DOMAIN ADD_Data.heap /\ j \in 0 .. ADD_Data.heap[x] - 1
           \/ x \notin DOMAIN ADD_Data.heap /\ x \in ADD_Data.members /\ j = 0
    BY <1>3, SetUpWrites
  <2>. HIDE DEF b
  <2>. QED BY <1>2, <1>3, <2>1 DEF Inside
<1>. HIDE DEF b
<1>5. \A i, h \in 0 .. Target1 - 1 : i # h => ~ Conflict(b(i), b(h))
  BY <1>2 DEF Conflict
<1>. QED BY <1>1, <1>2, <1>3, <1>4, <1>5 DEF OwnElements

(* The five variants of ADD are this loop. *)
LEMMA ADDPrograms ==
  /\ ADD_Seq = ElementSeq("ADD") /\ ADD_OMP = ElementOMP("ADD") /\ ADD_Target = ElementOMP("ADD")
  /\ ADD_CUDA = ElementGPU("ADD") /\ ADD_HIP = ElementGPU("ADD")
<1> DEFINE B(x) == Jobs("add", x, ADD_Body)
           I(u) == ThreadIndex(GridThreads[u])
<1>1. \A x : B(x) = ElementJobs("ADD", x)
  BY DEF Jobs, ElementJobs, ElementJob, ElementBody, LoopName
<1>2. /\ ADD_Seq = <<Launch(<<B(Upto(0, Target1))>>)>>
      /\ ADD_OMP = <<Launch([n \in DOMAIN Upto(0, Target1) |-> B(<<Upto(0, Target1)[n]>>)])>>
      /\ ADD_Target = ADD_OMP /\ ADD_HIP = ADD_CUDA
  BY DEF ADD_Seq, ADD_OMP, ADD_Target, ADD_CUDA, ADD_HIP, SeqLoop, OmpFor, ParLoop
<1>3. ADD_CUDA = <<Launch([u \in DOMAIN GridThreads |-> B(IF Before(I(u), Target1) THEN <<I(u)>> ELSE <<>>)])>>
  BY DEF ADD_CUDA, Forall, ForallOver, ParLoop, GridThreads, ThreadIndex
<1>. HIDE DEF B, I
<1>. QED BY <1>1, <1>2, <1>3 DEF ElementSeq, ElementOMP, ElementGPU, I

(* Iteration i of COPY touches elements that no other iteration changes. *)
LEMMA COPYText == ASSUME Target1 \in Nat PROVE OwnElements("COPY", COPY_Data)
<1> DEFINE b(i) == COPY_Body(i)
<1>1. \A i : ElementBody("COPY", i) = b(i)
  BY DEF ElementBody
<1>2. \A i : /\ b(i).r = {<<"a", i>>}
             /\ b(i).w = {<<"c", i>>} /\ b(i).a = {} /\ b(i).from = <<>>
  BY DEF COPY_Body, Body, Adds, Var, At
<1>3. /\ DOMAIN COPY_Data.heap = {"a", "c"} /\ \A x \in {"a", "c"} : COPY_Data.heap[x] = Target1
      /\ COPY_Data.raw = {} /\ COPY_Data.locals = {} /\ COPY_Data.members = {}
      /\ \A x \in DOMAIN COPY_Data.check : x \in {"c"} /\ COPY_Data.check[x] = Target1
      /\ COPY_Data.freed = {"a", "c"}
  BY DEF COPY_Data, Data
<1>4. ASSUME NEW i \in 0 .. Target1 - 1 PROVE Inside(SetUpMemory(COPY_Data), b(i))
  <2>1. \A x, j : Holds(SetUpMemory(COPY_Data), <<x, j>>) <=>
           \/ x \in DOMAIN COPY_Data.heap /\ j \in 0 .. COPY_Data.heap[x] - 1
           \/ x \notin DOMAIN COPY_Data.heap /\ x \in COPY_Data.members /\ j = 0
    BY <1>3, SetUpWrites
  <2>. HIDE DEF b
  <2>. QED BY <1>2, <1>3, <2>1 DEF Inside
<1>. HIDE DEF b
<1>5. \A i, h \in 0 .. Target1 - 1 : i # h => ~ Conflict(b(i), b(h))
  BY <1>2 DEF Conflict
<1>. QED BY <1>1, <1>2, <1>3, <1>4, <1>5 DEF OwnElements

(* The five variants of COPY are this loop. *)
LEMMA COPYPrograms ==
  /\ COPY_Seq = ElementSeq("COPY") /\ COPY_OMP = ElementOMP("COPY") /\ COPY_Target = ElementOMP("COPY")
  /\ COPY_CUDA = ElementGPU("COPY") /\ COPY_HIP = ElementGPU("COPY")
<1> DEFINE B(x) == Jobs("copy", x, COPY_Body)
           I(u) == ThreadIndex(GridThreads[u])
<1>1. \A x : B(x) = ElementJobs("COPY", x)
  BY DEF Jobs, ElementJobs, ElementJob, ElementBody, LoopName
<1>2. /\ COPY_Seq = <<Launch(<<B(Upto(0, Target1))>>)>>
      /\ COPY_OMP = <<Launch([n \in DOMAIN Upto(0, Target1) |-> B(<<Upto(0, Target1)[n]>>)])>>
      /\ COPY_Target = COPY_OMP /\ COPY_HIP = COPY_CUDA
  BY DEF COPY_Seq, COPY_OMP, COPY_Target, COPY_CUDA, COPY_HIP, SeqLoop, OmpFor, ParLoop
<1>3. COPY_CUDA = <<Launch([u \in DOMAIN GridThreads |-> B(IF Before(I(u), Target1) THEN <<I(u)>> ELSE <<>>)])>>
  BY DEF COPY_CUDA, Forall, ForallOver, ParLoop, GridThreads, ThreadIndex
<1>. HIDE DEF B, I
<1>. QED BY <1>1, <1>2, <1>3 DEF ElementSeq, ElementOMP, ElementGPU, I

(* Iteration i of MUL touches elements that no other iteration changes. *)
LEMMA MULText == ASSUME Target1 \in Nat PROVE OwnElements("MUL", MUL_Data)
<1> DEFINE b(i) == MUL_Body(i)
<1>1. \A i : ElementBody("MUL", i) = b(i)
  BY DEF ElementBody
<1>2. \A i : /\ b(i).r = {<<"alpha", 0>>, <<"c", i>>}
             /\ b(i).w = {<<"b", i>>} /\ b(i).a = {} /\ b(i).from = <<>>
  BY DEF MUL_Body, Body, Adds, Var, At
<1>3. /\ DOMAIN MUL_Data.heap = {"b", "c"} /\ \A x \in {"b", "c"} : MUL_Data.heap[x] = Target1
      /\ MUL_Data.raw = {} /\ MUL_Data.locals = {} /\ MUL_Data.members = {"alpha"}
      /\ \A x \in DOMAIN MUL_Data.check : x \in {"b"} /\ MUL_Data.check[x] = Target1
      /\ MUL_Data.freed = {"b", "c"}
  BY DEF MUL_Data, Data
<1>4. ASSUME NEW i \in 0 .. Target1 - 1 PROVE Inside(SetUpMemory(MUL_Data), b(i))
  <2>1. \A x, j : Holds(SetUpMemory(MUL_Data), <<x, j>>) <=>
           \/ x \in DOMAIN MUL_Data.heap /\ j \in 0 .. MUL_Data.heap[x] - 1
           \/ x \notin DOMAIN MUL_Data.heap /\ x \in MUL_Data.members /\ j = 0
    BY <1>3, SetUpWrites
  <2>. HIDE DEF b
  <2>. QED BY <1>2, <1>3, <2>1 DEF Inside
<1>. HIDE DEF b
<1>5. \A i, h \in 0 .. Target1 - 1 : i # h => ~ Conflict(b(i), b(h))
  BY <1>2 DEF Conflict
<1>. QED BY <1>1, <1>2, <1>3, <1>4, <1>5 DEF OwnElements

(* The five variants of MUL are this loop. *)
LEMMA MULPrograms ==
  /\ MUL_Seq = ElementSeq("MUL") /\ MUL_OMP = ElementOMP("MUL") /\ MUL_Target = ElementOMP("MUL")
  /\ MUL_CUDA = ElementGPU("MUL") /\ MUL_HIP = ElementGPU("MUL")
<1> DEFINE B(x) == Jobs("mul", x, MUL_Body)
           I(u) == ThreadIndex(GridThreads[u])
<1>1. \A x : B(x) = ElementJobs("MUL", x)
  BY DEF Jobs, ElementJobs, ElementJob, ElementBody, LoopName
<1>2. /\ MUL_Seq = <<Launch(<<B(Upto(0, Target1))>>)>>
      /\ MUL_OMP = <<Launch([n \in DOMAIN Upto(0, Target1) |-> B(<<Upto(0, Target1)[n]>>)])>>
      /\ MUL_Target = MUL_OMP /\ MUL_HIP = MUL_CUDA
  BY DEF MUL_Seq, MUL_OMP, MUL_Target, MUL_CUDA, MUL_HIP, SeqLoop, OmpFor, ParLoop
<1>3. MUL_CUDA = <<Launch([u \in DOMAIN GridThreads |-> B(IF Before(I(u), Target1) THEN <<I(u)>> ELSE <<>>)])>>
  BY DEF MUL_CUDA, Forall, ForallOver, ParLoop, GridThreads, ThreadIndex
<1>. HIDE DEF B, I
<1>. QED BY <1>1, <1>2, <1>3 DEF ElementSeq, ElementOMP, ElementGPU, I

(* Iteration i of TRIAD touches elements that no other iteration changes. *)
LEMMA TRIADText == ASSUME Target1 \in Nat PROVE OwnElements("TRIAD", TRIAD_Data)
<1> DEFINE b(i) == TRIAD_Body(i)
<1>1. \A i : ElementBody("TRIAD", i) = b(i)
  BY DEF ElementBody
<1>2. \A i : /\ b(i).r = {<<"alpha", 0>>, <<"b", i>>, <<"c", i>>}
             /\ b(i).w = {<<"a", i>>} /\ b(i).a = {} /\ b(i).from = <<>>
  BY DEF TRIAD_Body, Body, Adds, Var, At
<1>3. /\ DOMAIN TRIAD_Data.heap = {"a", "b", "c"} /\ \A x \in {"a", "b", "c"} : TRIAD_Data.heap[x] = Target1
      /\ TRIAD_Data.raw = {} /\ TRIAD_Data.locals = {} /\ TRIAD_Data.members = {"alpha"}
      /\ \A x \in DOMAIN TRIAD_Data.check : x \in {"a"} /\ TRIAD_Data.check[x] = Target1
      /\ TRIAD_Data.freed = {"a", "b", "c"}
  BY DEF TRIAD_Data, Data
<1>4. ASSUME NEW i \in 0 .. Target1 - 1 PROVE Inside(SetUpMemory(TRIAD_Data), b(i))
  <2>1. \A x, j : Holds(SetUpMemory(TRIAD_Data), <<x, j>>) <=>
           \/ x \in DOMAIN TRIAD_Data.heap /\ j \in 0 .. TRIAD_Data.heap[x] - 1
           \/ x \notin DOMAIN TRIAD_Data.heap /\ x \in TRIAD_Data.members /\ j = 0
    BY <1>3, SetUpWrites
  <2>. HIDE DEF b
  <2>. QED BY <1>2, <1>3, <2>1 DEF Inside
<1>. HIDE DEF b
<1>5. \A i, h \in 0 .. Target1 - 1 : i # h => ~ Conflict(b(i), b(h))
  BY <1>2 DEF Conflict
<1>. QED BY <1>1, <1>2, <1>3, <1>4, <1>5 DEF OwnElements

(* The five variants of TRIAD are this loop. *)
LEMMA TRIADPrograms ==
  /\ TRIAD_Seq = ElementSeq("TRIAD") /\ TRIAD_OMP = ElementOMP("TRIAD") /\ TRIAD_Target = ElementOMP("TRIAD")
  /\ TRIAD_CUDA = ElementGPU("TRIAD") /\ TRIAD_HIP = ElementGPU("TRIAD")
<1> DEFINE B(x) == Jobs("triad", x, TRIAD_Body)
           I(u) == ThreadIndex(GridThreads[u])
<1>1. \A x : B(x) = ElementJobs("TRIAD", x)
  BY DEF Jobs, ElementJobs, ElementJob, ElementBody, LoopName
<1>2. /\ TRIAD_Seq = <<Launch(<<B(Upto(0, Target1))>>)>>
      /\ TRIAD_OMP = <<Launch([n \in DOMAIN Upto(0, Target1) |-> B(<<Upto(0, Target1)[n]>>)])>>
      /\ TRIAD_Target = TRIAD_OMP /\ TRIAD_HIP = TRIAD_CUDA
  BY DEF TRIAD_Seq, TRIAD_OMP, TRIAD_Target, TRIAD_CUDA, TRIAD_HIP, SeqLoop, OmpFor, ParLoop
<1>3. TRIAD_CUDA = <<Launch([u \in DOMAIN GridThreads |-> B(IF Before(I(u), Target1) THEN <<I(u)>> ELSE <<>>)])>>
  BY DEF TRIAD_CUDA, Forall, ForallOver, ParLoop, GridThreads, ThreadIndex
<1>. HIDE DEF B, I
<1>. QED BY <1>1, <1>2, <1>3 DEF ElementSeq, ElementOMP, ElementGPU, I

(* Iteration i of MEMCPY touches elements that no other iteration changes. *)
LEMMA MEMCPYText == ASSUME Target1 \in Nat PROVE OwnElements("MEMCPY", MEMCPY_Data)
<1> DEFINE b(i) == MEMCPY_Body(i)
<1>1. \A i : ElementBody("MEMCPY", i) = b(i)
  BY DEF ElementBody
<1>2. \A i : /\ b(i).r = {<<"x", i>>}
             /\ b(i).w = {<<"y", i>>} /\ b(i).a = {} /\ b(i).from = <<>>
  BY DEF MEMCPY_Body, Body, Adds, Var, At
<1>3. /\ DOMAIN MEMCPY_Data.heap = {"x", "y"} /\ \A x \in {"x", "y"} : MEMCPY_Data.heap[x] = Target1
      /\ MEMCPY_Data.raw = {} /\ MEMCPY_Data.locals = {} /\ MEMCPY_Data.members = {}
      /\ \A x \in DOMAIN MEMCPY_Data.check : x \in {"y"} /\ MEMCPY_Data.check[x] = Target1
      /\ MEMCPY_Data.freed = {"x", "y"}
  BY DEF MEMCPY_Data, Data
<1>4. ASSUME NEW i \in 0 .. Target1 - 1 PROVE Inside(SetUpMemory(MEMCPY_Data), b(i))
  <2>1. \A x, j : Holds(SetUpMemory(MEMCPY_Data), <<x, j>>) <=>
           \/ x \in DOMAIN MEMCPY_Data.heap /\ j \in 0 .. MEMCPY_Data.heap[x] - 1
           \/ x \notin DOMAIN MEMCPY_Data.heap /\ x \in MEMCPY_Data.members /\ j = 0
    BY <1>3, SetUpWrites
  <2>. HIDE DEF b
  <2>. QED BY <1>2, <1>3, <2>1 DEF Inside
<1>. HIDE DEF b
<1>5. \A i, h \in 0 .. Target1 - 1 : i # h => ~ Conflict(b(i), b(h))
  BY <1>2 DEF Conflict
<1>. QED BY <1>1, <1>2, <1>3, <1>4, <1>5 DEF OwnElements

(* The five variants of MEMCPY are this loop. *)
LEMMA MEMCPYPrograms ==
  /\ MEMCPY_Seq = ElementSeq("MEMCPY") /\ MEMCPY_OMP = ElementOMP("MEMCPY") /\ MEMCPY_Target = ElementOMP("MEMCPY")
  /\ MEMCPY_CUDA = ElementGPU("MEMCPY") /\ MEMCPY_HIP = ElementGPU("MEMCPY")
<1> DEFINE B(x) == Jobs("copy", x, MEMCPY_Body)
           I(u) == ThreadIndex(GridThreads[u])
<1>1. \A x : B(x) = ElementJobs("MEMCPY", x)
  BY DEF Jobs, ElementJobs, ElementJob, ElementBody, LoopName
<1>2. /\ MEMCPY_Seq = <<Launch(<<B(Upto(0, Target1))>>)>>
      /\ MEMCPY_OMP = <<Launch([n \in DOMAIN Upto(0, Target1) |-> B(<<Upto(0, Target1)[n]>>)])>>
      /\ MEMCPY_Target = MEMCPY_OMP /\ MEMCPY_HIP = MEMCPY_CUDA
  BY DEF MEMCPY_Seq, MEMCPY_OMP, MEMCPY_Target, MEMCPY_CUDA, MEMCPY_HIP, SeqLoop, OmpFor, ParLoop
<1>3. MEMCPY_CUDA = <<Launch([u \in DOMAIN GridThreads |-> B(IF Before(I(u), Target1) THEN <<I(u)>> ELSE <<>>)])>>
  BY DEF MEMCPY_CUDA, Forall, ForallOver, ParLoop, GridThreads, ThreadIndex
<1>. HIDE DEF B, I
<1>. QED BY <1>1, <1>2, <1>3 DEF ElementSeq, ElementOMP, ElementGPU, I

(* Iteration i of MEMSET touches elements that no other iteration changes. *)
LEMMA MEMSETText == ASSUME Target1 \in Nat PROVE OwnElements("MEMSET", MEMSET_Data)
<1> DEFINE b(i) == MEMSET_Body(i)
<1>1. \A i : ElementBody("MEMSET", i) = b(i)
  BY DEF ElementBody
<1>2. \A i : /\ b(i).r = {<<"val", 0>>}
             /\ b(i).w = {<<"x", i>>} /\ b(i).a = {} /\ b(i).from = <<>>
  BY DEF MEMSET_Body, Body, Adds, Var, At
<1>3. /\ DOMAIN MEMSET_Data.heap = {"x"} /\ \A x \in {"x"} : MEMSET_Data.heap[x] = Target1
      /\ MEMSET_Data.raw = {} /\ MEMSET_Data.locals = {} /\ MEMSET_Data.members = {"val"}
      /\ \A x \in DOMAIN MEMSET_Data.check : x \in {"x"} /\ MEMSET_Data.check[x] = Target1
      /\ MEMSET_Data.freed = {"x"}
  BY DEF MEMSET_Data, Data
<1>4. ASSUME NEW i \in 0 .. Target1 - 1 PROVE Inside(SetUpMemory(MEMSET_Data), b(i))
  <2>1. \A x, j : Holds(SetUpMemory(MEMSET_Data), <<x, j>>) <=>
           \/ x \in DOMAIN MEMSET_Data.heap /\ j \in 0 .. MEMSET_Data.heap[x] - 1
           \/ x \notin DOMAIN MEMSET_Data.heap /\ x \in MEMSET_Data.members /\ j = 0
    BY <1>3, SetUpWrites
  <2>. HIDE DEF b
  <2>. QED BY <1>2, <1>3, <2>1 DEF Inside
<1>. HIDE DEF b
<1>5. \A i, h \in 0 .. Target1 - 1 : i # h => ~ Conflict(b(i), b(h))
  BY <1>2 DEF Conflict
<1>. QED BY <1>1, <1>2, <1>3, <1>4, <1>5 DEF OwnElements

(* The five variants of MEMSET are this loop. *)
LEMMA MEMSETPrograms ==
  /\ MEMSET_Seq = ElementSeq("MEMSET") /\ MEMSET_OMP = ElementOMP("MEMSET") /\ MEMSET_Target = ElementOMP("MEMSET")
  /\ MEMSET_CUDA = ElementGPU("MEMSET") /\ MEMSET_HIP = ElementGPU("MEMSET")
<1> DEFINE B(x) == Jobs("set", x, MEMSET_Body)
           I(u) == ThreadIndex(GridThreads[u])
<1>1. \A x : B(x) = ElementJobs("MEMSET", x)
  BY DEF Jobs, ElementJobs, ElementJob, ElementBody, LoopName
<1>2. /\ MEMSET_Seq = <<Launch(<<B(Upto(0, Target1))>>)>>
      /\ MEMSET_OMP = <<Launch([n \in DOMAIN Upto(0, Target1) |-> B(<<Upto(0, Target1)[n]>>)])>>
      /\ MEMSET_Target = MEMSET_OMP /\ MEMSET_HIP = MEMSET_CUDA
  BY DEF MEMSET_Seq, MEMSET_OMP, MEMSET_Target, MEMSET_CUDA, MEMSET_HIP, SeqLoop, OmpFor, ParLoop
<1>3. MEMSET_CUDA = <<Launch([u \in DOMAIN GridThreads |-> B(IF Before(I(u), Target1) THEN <<I(u)>> ELSE <<>>)])>>
  BY DEF MEMSET_CUDA, Forall, ForallOver, ParLoop, GridThreads, ThreadIndex
<1>. HIDE DEF B, I
<1>. QED BY <1>1, <1>2, <1>3 DEF ElementSeq, ElementOMP, ElementGPU, I

(* Iteration i of ARRAY_OF_PTRS touches elements that no other iteration changes. *)
LEMMA ARRAY_OF_PTRSText == ASSUME Target1 \in Nat PROVE OwnElements("ARRAY_OF_PTRS", ARRAY_OF_PTRS_Data)
<1> DEFINE b(i) == ARRAY_OF_PTRS_Body(i)
<1>1. \A i : ElementBody("ARRAY_OF_PTRS", i) = b(i)
  BY DEF ElementBody
<1>2. \A i : /\ b(i).r = {<<"x", j>> : j \in {a * Target1 + i : a \in 0 .. 2}}
             /\ b(i).w = {<<"y", i>>} /\ b(i).a = {} /\ b(i).from = <<>>
  BY DEF ARRAY_OF_PTRS_Body, Body, Adds, Var, At, ArraySize
<1>3. /\ DOMAIN ARRAY_OF_PTRS_Data.heap = {"y", "x"} /\ ARRAY_OF_PTRS_Data.heap["y"] = Target1
      /\ ARRAY_OF_PTRS_Data.heap["x"] = 3 * Target1
      /\ ARRAY_OF_PTRS_Data.raw = {} /\ ARRAY_OF_PTRS_Data.locals = {} /\ ARRAY_OF_PTRS_Data.members = {}
      /\ \A x \in DOMAIN ARRAY_OF_PTRS_Data.check : x \in {"y"} /\ ARRAY_OF_PTRS_Data.check[x] = Target1
      /\ ARRAY_OF_PTRS_Data.freed = {"y", "x"}
  BY DEF ARRAY_OF_PTRS_Data, Data, ArraySize
<1>4. ASSUME NEW i \in 0 .. Target1 - 1 PROVE Inside(SetUpMemory(ARRAY_OF_PTRS_Data), b(i))
  <2>1. \A x, j : Holds(SetUpMemory(ARRAY_OF_PTRS_Data), <<x, j>>) <=>
           \/ x \in DOMAIN ARRAY_OF_PTRS_Data.heap /\ j \in 0 .. ARRAY_OF_PTRS_Data.heap[x] - 1
           \/ x \notin DOMAIN ARRAY_OF_PTRS_Data.heap /\ x \in ARRAY_OF_PTRS_Data.members /\ j = 0
    BY <1>3, SetUpWrites
  <2>. HIDE DEF b
  <2>. QED BY <1>2, <1>3, <2>1 DEF Inside
<1>. HIDE DEF b
<1>5. \A i, h \in 0 .. Target1 - 1 : i # h => ~ Conflict(b(i), b(h))
  BY <1>2 DEF Conflict
<1>. QED BY <1>1, <1>2, <1>3, <1>4, <1>5 DEF OwnElements

(* The five variants of ARRAY_OF_PTRS are this loop. *)
LEMMA ARRAY_OF_PTRSPrograms ==
  /\ ARRAY_OF_PTRS_Seq = ElementSeq("ARRAY_OF_PTRS")
  /\ ARRAY_OF_PTRS_OMP = ElementOMP("ARRAY_OF_PTRS")
  /\ ARRAY_OF_PTRS_Target = ElementOMP("ARRAY_OF_PTRS")
  /\ ARRAY_OF_PTRS_CUDA = ElementGPU("ARRAY_OF_PTRS") /\ ARRAY_OF_PTRS_HIP = ElementGPU("ARRAY_OF_PTRS")
<1> DEFINE B(x) == Jobs("ptrs", x, ARRAY_OF_PTRS_Body)
           I(u) == ThreadIndex(GridThreads[u])
<1>1. \A x : B(x) = ElementJobs("ARRAY_OF_PTRS", x)
  BY DEF Jobs, ElementJobs, ElementJob, ElementBody, LoopName
<1>2. /\ ARRAY_OF_PTRS_Seq = <<Launch(<<B(Upto(0, Target1))>>)>>
      /\ ARRAY_OF_PTRS_OMP = <<Launch([n \in DOMAIN Upto(0, Target1) |-> B(<<Upto(0, Target1)[n]>>)])>>
      /\ ARRAY_OF_PTRS_Target = ARRAY_OF_PTRS_OMP /\ ARRAY_OF_PTRS_HIP = ARRAY_OF_PTRS_CUDA
  BY DEF ARRAY_OF_PTRS_Seq, ARRAY_OF_PTRS_OMP, ARRAY_OF_PTRS_Target, ARRAY_OF_PTRS_CUDA,
     ARRAY_OF_PTRS_HIP, SeqLoop, OmpFor, ParLoop
<1>3. ARRAY_OF_PTRS_CUDA = <<Launch([u \in DOMAIN GridThreads |-> B(IF Before(I(u), Target1) THEN <<I(u)>> ELSE <<>>)])>>
  BY DEF ARRAY_OF_PTRS_CUDA, Forall, ForallOver, ParLoop, GridThreads, ThreadIndex
<1>. HIDE DEF B, I
<1>. QED BY <1>1, <1>2, <1>3 DEF ElementSeq, ElementOMP, ElementGPU, I

(* Iteration i of COPY8 touches elements that no other iteration changes. *)
LEMMA COPY8Text == ASSUME Target1 \in Nat PROVE OwnElements("COPY8", COPY8_Data)
<1> DEFINE b(i) == COPY8_Body(i)
<1>1. \A i : ElementBody("COPY8", i) = b(i)
  BY DEF ElementBody
<1>2. \A i : /\ b(i).r = {<<x, i>> : x \in {"x0", "x1", "x2", "x3", "x4", "x5", "x6", "x7"}}
             /\ b(i).w = {<<y, i>> : y \in {"y0", "y1", "y2", "y3", "y4", "y5", "y6", "y7"}}
                  /\ b(i).a = {} /\ b(i).from = <<>>
  BY DEF COPY8_Body, Body, Adds, Var, At, Xs, Ys
<1>3. /\ DOMAIN COPY8_Data.heap = {"x0", "x1", "x2", "x3", "x4", "x5", "x6", "x7", "y0", "y1", "y2",
           "y3", "y4", "y5", "y6", "y7"}
             /\ \A x \in {"x0", "x1", "x2", "x3", "x4", "x5", "x6", "x7", "y0", "y1", "y2", "y3",
                  "y4", "y5", "y6", "y7"} : COPY8_Data.heap[x] = Target1
      /\ COPY8_Data.raw = {} /\ COPY8_Data.locals = {} /\ COPY8_Data.members = {}
      /\ \A x \in DOMAIN COPY8_Data.check : x \in {"y0", "y1", "y2", "y3", "y4", "y5", "y6", "y7"}
           /\ COPY8_Data.check[x] = Target1
      /\ COPY8_Data.freed = {"x0", "x1", "x2", "x3", "x4", "x5", "x6", "x7", "y0", "y1", "y2", "y3",
           "y4", "y5", "y6", "y7"}
  BY DEF COPY8_Data, Data, Xs, Ys
<1>4. ASSUME NEW i \in 0 .. Target1 - 1 PROVE Inside(SetUpMemory(COPY8_Data), b(i))
  <2>1. \A x, j : Holds(SetUpMemory(COPY8_Data), <<x, j>>) <=>
           \/ x \in DOMAIN COPY8_Data.heap /\ j \in 0 .. COPY8_Data.heap[x] - 1
           \/ x \notin DOMAIN COPY8_Data.heap /\ x \in COPY8_Data.members /\ j = 0
    BY <1>3, SetUpWrites
  <2>. HIDE DEF b
  <2>. QED BY <1>2, <1>3, <2>1 DEF Inside
<1>. HIDE DEF b
<1>5. \A i, h \in 0 .. Target1 - 1 : i # h => ~ Conflict(b(i), b(h))
  BY <1>2 DEF Conflict
<1>. QED BY <1>1, <1>2, <1>3, <1>4, <1>5 DEF OwnElements

(* The five variants of COPY8 are this loop. *)
LEMMA COPY8Programs ==
  /\ COPY8_Seq = ElementSeq("COPY8") /\ COPY8_OMP = ElementOMP("COPY8") /\ COPY8_Target = ElementOMP("COPY8")
  /\ COPY8_CUDA = ElementGPU("COPY8") /\ COPY8_HIP = ElementGPU("COPY8")
<1> DEFINE B(x) == Jobs("copy", x, COPY8_Body)
           I(u) == ThreadIndex(GridThreads[u])
<1>1. \A x : B(x) = ElementJobs("COPY8", x)
  BY DEF Jobs, ElementJobs, ElementJob, ElementBody, LoopName
<1>2. /\ COPY8_Seq = <<Launch(<<B(Upto(0, Target1))>>)>>
      /\ COPY8_OMP = <<Launch([n \in DOMAIN Upto(0, Target1) |-> B(<<Upto(0, Target1)[n]>>)])>>
      /\ COPY8_Target = COPY8_OMP /\ COPY8_HIP = COPY8_CUDA
  BY DEF COPY8_Seq, COPY8_OMP, COPY8_Target, COPY8_CUDA, COPY8_HIP, SeqLoop, OmpFor, ParLoop
<1>3. COPY8_CUDA = <<Launch([u \in DOMAIN GridThreads |-> B(IF Before(I(u), Target1) THEN <<I(u)>> ELSE <<>>)])>>
  BY DEF COPY8_CUDA, Forall, ForallOver, ParLoop, GridThreads, ThreadIndex
<1>. HIDE DEF B, I
<1>. QED BY <1>1, <1>2, <1>3 DEF ElementSeq, ElementOMP, ElementGPU, I

(* Iteration i of DAXPY touches elements that no other iteration changes. *)
LEMMA DAXPYText == ASSUME Target1 \in Nat PROVE OwnElements("DAXPY", DAXPY_Data)
<1> DEFINE b(i) == DAXPY_Body(i)
<1>1. \A i : ElementBody("DAXPY", i) = b(i)
  BY DEF ElementBody
<1>2. \A i : /\ b(i).r = {<<"x", i>>, <<"y", i>>}
             /\ b(i).w = {<<"y", i>>} /\ b(i).a = {} /\ b(i).from = <<>>
  BY DEF DAXPY_Body, Body, Adds, Var, At
<1>3. /\ DOMAIN DAXPY_Data.heap = {"x", "y"} /\ \A x \in {"x", "y"} : DAXPY_Data.heap[x] = Target1
      /\ DAXPY_Data.raw = {} /\ DAXPY_Data.locals = {} /\ DAXPY_Data.members = {}
      /\ \A x \in DOMAIN DAXPY_Data.check : x \in {"y"} /\ DAXPY_Data.check[x] = Target1
      /\ DAXPY_Data.freed = {"x", "y"}
  BY DEF DAXPY_Data, Data
<1>4. ASSUME NEW i \in 0 .. Target1 - 1 PROVE Inside(SetUpMemory(DAXPY_Data), b(i))
  <2>1. \A x, j : Holds(SetUpMemory(DAXPY_Data), <<x, j>>) <=>
           \/ x \in DOMAIN DAXPY_Data.heap /\ j \in 0 .. DAXPY_Data.heap[x] - 1
           \/ x \notin DOMAIN DAXPY_Data.heap /\ x \in DAXPY_Data.members /\ j = 0
    BY <1>3, SetUpWrites
  <2>. HIDE DEF b
  <2>. QED BY <1>2, <1>3, <2>1 DEF Inside
<1>. HIDE DEF b
<1>5. \A i, h \in 0 .. Target1 - 1 : i # h => ~ Conflict(b(i), b(h))
  BY <1>2 DEF Conflict
<1>. QED BY <1>1, <1>2, <1>3, <1>4, <1>5 DEF OwnElements

(* The five variants of DAXPY are this loop. *)
LEMMA DAXPYPrograms ==
  /\ DAXPY_Seq = ElementSeq("DAXPY") /\ DAXPY_OMP = ElementOMP("DAXPY") /\ DAXPY_Target = ElementOMP("DAXPY")
  /\ DAXPY_CUDA = ElementGPU("DAXPY") /\ DAXPY_HIP = ElementGPU("DAXPY")
<1> DEFINE B(x) == Jobs("daxpy", x, DAXPY_Body)
           I(u) == ThreadIndex(GridThreads[u])
<1>1. \A x : B(x) = ElementJobs("DAXPY", x)
  BY DEF Jobs, ElementJobs, ElementJob, ElementBody, LoopName
<1>2. /\ DAXPY_Seq = <<Launch(<<B(Upto(0, Target1))>>)>>
      /\ DAXPY_OMP = <<Launch([n \in DOMAIN Upto(0, Target1) |-> B(<<Upto(0, Target1)[n]>>)])>>
      /\ DAXPY_Target = DAXPY_OMP /\ DAXPY_HIP = DAXPY_CUDA
  BY DEF DAXPY_Seq, DAXPY_OMP, DAXPY_Target, DAXPY_CUDA, DAXPY_HIP, SeqLoop, OmpFor, ParLoop
<1>3. DAXPY_CUDA = <<Launch([u \in DOMAIN GridThreads |-> B(IF Before(I(u), Target1) THEN <<I(u)>> ELSE <<>>)])>>
  BY DEF DAXPY_CUDA, Forall, ForallOver, ParLoop, GridThreads, ThreadIndex
<1>. HIDE DEF B, I
<1>. QED BY <1>1, <1>2, <1>3 DEF ElementSeq, ElementOMP, ElementGPU, I

(* Iteration i of DAXPY_ATOMIC touches elements that no other iteration changes. *)
LEMMA DAXPY_ATOMICText == ASSUME Target1 \in Nat PROVE OwnElements("DAXPY_ATOMIC", DAXPY_ATOMIC_Data)
<1> DEFINE b(i) == DAXPY_ATOMIC_Body(i)
<1>1. \A i : ElementBody("DAXPY_ATOMIC", i) = b(i)
  BY DEF ElementBody
<1>2. \A i : /\ b(i).r = {<<"x", i>>}
             /\ b(i).w = {} /\ b(i).a = {<<"y", i>>} /\ b(i).from = <<>>
  BY DEF DAXPY_ATOMIC_Body, Body, Adds, Var, At
<1>3. /\ DOMAIN DAXPY_ATOMIC_Data.heap = {"x", "y"} /\ \A x \in {"x", "y"} : DAXPY_ATOMIC_Data.heap[x] = Target1
      /\ DAXPY_ATOMIC_Data.raw = {} /\ DAXPY_ATOMIC_Data.locals = {} /\ DAXPY_ATOMIC_Data.members = {}
      /\ \A x \in DOMAIN DAXPY_ATOMIC_Data.check : x \in {"y"} /\ DAXPY_ATOMIC_Data.check[x] = Target1
      /\ DAXPY_ATOMIC_Data.freed = {"x", "y"}
  BY DEF DAXPY_ATOMIC_Data, Data
<1>4. ASSUME NEW i \in 0 .. Target1 - 1 PROVE Inside(SetUpMemory(DAXPY_ATOMIC_Data), b(i))
  <2>1. \A x, j : Holds(SetUpMemory(DAXPY_ATOMIC_Data), <<x, j>>) <=>
           \/ x \in DOMAIN DAXPY_ATOMIC_Data.heap /\ j \in 0 .. DAXPY_ATOMIC_Data.heap[x] - 1
           \/ x \notin DOMAIN DAXPY_ATOMIC_Data.heap /\ x \in DAXPY_ATOMIC_Data.members /\ j = 0
    BY <1>3, SetUpWrites
  <2>. HIDE DEF b
  <2>. QED BY <1>2, <1>3, <2>1 DEF Inside
<1>. HIDE DEF b
<1>5. \A i, h \in 0 .. Target1 - 1 : i # h => ~ Conflict(b(i), b(h))
  BY <1>2 DEF Conflict
<1>. QED BY <1>1, <1>2, <1>3, <1>4, <1>5 DEF OwnElements

(* The five variants of DAXPY_ATOMIC are this loop. *)
LEMMA DAXPY_ATOMICPrograms ==
  /\ DAXPY_ATOMIC_Seq = ElementSeq("DAXPY_ATOMIC") /\ DAXPY_ATOMIC_OMP = ElementOMP("DAXPY_ATOMIC")
  /\ DAXPY_ATOMIC_Target = ElementOMP("DAXPY_ATOMIC")
  /\ DAXPY_ATOMIC_CUDA = ElementGPU("DAXPY_ATOMIC") /\ DAXPY_ATOMIC_HIP = ElementGPU("DAXPY_ATOMIC")
<1> DEFINE B(x) == Jobs("daxpy", x, DAXPY_ATOMIC_Body)
           I(u) == ThreadIndex(GridThreads[u])
<1>1. \A x : B(x) = ElementJobs("DAXPY_ATOMIC", x)
  BY DEF Jobs, ElementJobs, ElementJob, ElementBody, LoopName
<1>2. /\ DAXPY_ATOMIC_Seq = <<Launch(<<B(Upto(0, Target1))>>)>>
      /\ DAXPY_ATOMIC_OMP = <<Launch([n \in DOMAIN Upto(0, Target1) |-> B(<<Upto(0, Target1)[n]>>)])>>
      /\ DAXPY_ATOMIC_Target = DAXPY_ATOMIC_OMP /\ DAXPY_ATOMIC_HIP = DAXPY_ATOMIC_CUDA
  BY DEF DAXPY_ATOMIC_Seq, DAXPY_ATOMIC_OMP, DAXPY_ATOMIC_Target, DAXPY_ATOMIC_CUDA,
     DAXPY_ATOMIC_HIP, SeqLoop, OmpFor, ParLoop
<1>3. DAXPY_ATOMIC_CUDA = <<Launch([u \in DOMAIN GridThreads |-> B(IF Before(I(u), Target1) THEN <<I(u)>> ELSE <<>>)])>>
  BY DEF DAXPY_ATOMIC_CUDA, Forall, ForallOver, ParLoop, GridThreads, ThreadIndex
<1>. HIDE DEF B, I
<1>. QED BY <1>1, <1>2, <1>3 DEF ElementSeq, ElementOMP, ElementGPU, I

(* Iteration i of IF_QUAD touches elements that no other iteration changes. *)
LEMMA IF_QUADText == ASSUME Target1 \in Nat PROVE OwnElements("IF_QUAD", IF_QUAD_Data)
<1> DEFINE b(i) == IF_QUAD_Body(i)
<1>1. \A i : ElementBody("IF_QUAD", i) = b(i)
  BY DEF ElementBody
<1>2. \A i : /\ b(i).r = {<<"a", i>>, <<"b", i>>, <<"c", i>>}
             /\ b(i).w = {<<"x1", i>>, <<"x2", i>>} /\ b(i).a = {} /\ b(i).from = <<>>
  BY DEF IF_QUAD_Body, Body, Adds, Var, At
<1>3. /\ DOMAIN IF_QUAD_Data.heap = {"a", "b", "c", "x1", "x2"}
      /\ \A x \in {"a", "b", "c", "x1", "x2"} : IF_QUAD_Data.heap[x] = Target1
      /\ IF_QUAD_Data.raw = {} /\ IF_QUAD_Data.locals = {} /\ IF_QUAD_Data.members = {}
      /\ \A x \in DOMAIN IF_QUAD_Data.check : x \in {"x1", "x2"} /\ IF_QUAD_Data.check[x] = Target1
      /\ IF_QUAD_Data.freed = {"a", "b", "c", "x1", "x2"}
  BY DEF IF_QUAD_Data, Data
<1>4. ASSUME NEW i \in 0 .. Target1 - 1 PROVE Inside(SetUpMemory(IF_QUAD_Data), b(i))
  <2>1. \A x, j : Holds(SetUpMemory(IF_QUAD_Data), <<x, j>>) <=>
           \/ x \in DOMAIN IF_QUAD_Data.heap /\ j \in 0 .. IF_QUAD_Data.heap[x] - 1
           \/ x \notin DOMAIN IF_QUAD_Data.heap /\ x \in IF_QUAD_Data.members /\ j = 0
    BY <1>3, SetUpWrites
  <2>. HIDE DEF b
  <2>. QED BY <1>2, <1>3, <2>1 DEF Inside
<1>. HIDE DEF b
<1>5. \A i, h \in 0 .. Target1 - 1 : i # h => ~ Conflict(b(i), b(h))
  BY <1>2 DEF Conflict
<1>. QED BY <1>1, <1>2, <1>3, <1>4, <1>5 DEF OwnElements

(* The five variants of IF_QUAD are this loop. *)
LEMMA IF_QUADPrograms ==
  /\ IF_QUAD_Seq = ElementSeq("IF_QUAD") /\ IF_QUAD_OMP = ElementOMP("IF_QUAD")
  /\ IF_QUAD_Target = ElementOMP("IF_QUAD")
  /\ IF_QUAD_CUDA = ElementGPU("IF_QUAD") /\ IF_QUAD_HIP = ElementGPU("IF_QUAD")
<1> DEFINE B(x) == Jobs("quad", x, IF_QUAD_Body)
           I(u) == ThreadIndex(GridThreads[u])
<1>1. \A x : B(x) = ElementJobs("IF_QUAD", x)
  BY DEF Jobs, ElementJobs, ElementJob, ElementBody, LoopName
<1>2. /\ IF_QUAD_Seq = <<Launch(<<B(Upto(0, Target1))>>)>>
      /\ IF_QUAD_OMP = <<Launch([n \in DOMAIN Upto(0, Target1) |-> B(<<Upto(0, Target1)[n]>>)])>>
      /\ IF_QUAD_Target = IF_QUAD_OMP /\ IF_QUAD_HIP = IF_QUAD_CUDA
  BY DEF IF_QUAD_Seq, IF_QUAD_OMP, IF_QUAD_Target, IF_QUAD_CUDA, IF_QUAD_HIP, SeqLoop, OmpFor, ParLoop
<1>3. IF_QUAD_CUDA = <<Launch([u \in DOMAIN GridThreads |-> B(IF Before(I(u), Target1) THEN <<I(u)>> ELSE <<>>)])>>
  BY DEF IF_QUAD_CUDA, Forall, ForallOver, ParLoop, GridThreads, ThreadIndex
<1>. HIDE DEF B, I
<1>. QED BY <1>1, <1>2, <1>3 DEF ElementSeq, ElementOMP, ElementGPU, I

(* Iteration i of INIT3 touches elements that no other iteration changes. *)
LEMMA INIT3Text == ASSUME Target1 \in Nat PROVE OwnElements("INIT3", INIT3_Data)
<1> DEFINE b(i) == INIT3_Body(i)
<1>1. \A i : ElementBody("INIT3", i) = b(i)
  BY DEF ElementBody
<1>2. \A i : /\ b(i).r = {<<"in1", i>>, <<"in2", i>>}
             /\ b(i).w = {<<"out1", i>>, <<"out2", i>>, <<"out3", i>>} /\ b(i).a = {} /\ b(i).from = <<>>
  BY DEF INIT3_Body, Body, Adds, Var, At
<1>3. /\ DOMAIN INIT3_Data.heap = {"out1", "out2", "out3", "in1", "in2"}
      /\ \A x \in {"out1", "out2", "out3", "in1", "in2"} : INIT3_Data.heap[x] = Target1
      /\ INIT3_Data.raw = {} /\ INIT3_Data.locals = {} /\ INIT3_Data.members = {}
      /\ \A x \in DOMAIN INIT3_Data.check : x \in {"out1", "out2", "out3"} /\ INIT3_Data.check[x] = Target1
      /\ INIT3_Data.freed = {"out1", "out2", "out3", "in1", "in2"}
  BY DEF INIT3_Data, Data
<1>4. ASSUME NEW i \in 0 .. Target1 - 1 PROVE Inside(SetUpMemory(INIT3_Data), b(i))
  <2>1. \A x, j : Holds(SetUpMemory(INIT3_Data), <<x, j>>) <=>
           \/ x \in DOMAIN INIT3_Data.heap /\ j \in 0 .. INIT3_Data.heap[x] - 1
           \/ x \notin DOMAIN INIT3_Data.heap /\ x \in INIT3_Data.members /\ j = 0
    BY <1>3, SetUpWrites
  <2>. HIDE DEF b
  <2>. QED BY <1>2, <1>3, <2>1 DEF Inside
<1>. HIDE DEF b
<1>5. \A i, h \in 0 .. Target1 - 1 : i # h => ~ Conflict(b(i), b(h))
  BY <1>2 DEF Conflict
<1>. QED BY <1>1, <1>2, <1>3, <1>4, <1>5 DEF OwnElements

(* The five variants of INIT3 are this loop. *)
LEMMA INIT3Programs ==
  /\ INIT3_Seq = ElementSeq("INIT3") /\ INIT3_OMP = ElementOMP("INIT3") /\ INIT3_Target = ElementOMP("INIT3")
  /\ INIT3_CUDA = ElementGPU("INIT3") /\ INIT3_HIP = ElementGPU("INIT3")
<1> DEFINE B(x) == Jobs("init", x, INIT3_Body)
           I(u) == ThreadIndex(GridThreads[u])
<1>1. \A x : B(x) = ElementJobs("INIT3", x)
  BY DEF Jobs, ElementJobs, ElementJob, ElementBody, LoopName
<1>2. /\ INIT3_Seq = <<Launch(<<B(Upto(0, Target1))>>)>>
      /\ INIT3_OMP = <<Launch([n \in DOMAIN Upto(0, Target1) |-> B(<<Upto(0, Target1)[n]>>)])>>
      /\ INIT3_Target = INIT3_OMP /\ INIT3_HIP = INIT3_CUDA
  BY DEF INIT3_Seq, INIT3_OMP, INIT3_Target, INIT3_CUDA, INIT3_HIP, SeqLoop, OmpFor, ParLoop
<1>3. INIT3_CUDA = <<Launch([u \in DOMAIN GridThreads |-> B(IF Before(I(u), Target1) THEN <<I(u)>> ELSE <<>>)])>>
  BY DEF INIT3_CUDA, Forall, ForallOver, ParLoop, GridThreads, ThreadIndex
<1>. HIDE DEF B, I
<1>. QED BY <1>1, <1>2, <1>3 DEF ElementSeq, ElementOMP, ElementGPU, I

(* Iteration i of INIT_VIEW1D touches elements that no other iteration changes. *)
LEMMA INIT_VIEW1DText == ASSUME Target1 \in Nat PROVE OwnElements("INIT_VIEW1D", INIT_VIEW1D_Data)
<1> DEFINE b(i) == INIT_VIEW1D_Body(i)
<1>1. \A i : ElementBody("INIT_VIEW1D", i) = b(i)
  BY DEF ElementBody
<1>2. \A i : /\ b(i).r = {<<"v", 0>>}
             /\ b(i).w = {<<"a", i>>} /\ b(i).a = {} /\ b(i).from = <<>>
  BY DEF INIT_VIEW1D_Body, Body, Adds, Var, At
<1>3. /\ DOMAIN INIT_VIEW1D_Data.heap = {"a"} /\ \A x \in {"a"} : INIT_VIEW1D_Data.heap[x] = Target1
      /\ INIT_VIEW1D_Data.raw = {} /\ INIT_VIEW1D_Data.locals = {} /\ INIT_VIEW1D_Data.members = {"v"}
      /\ \A x \in DOMAIN INIT_VIEW1D_Data.check : x \in {"a"} /\ INIT_VIEW1D_Data.check[x] = Target1
      /\ INIT_VIEW1D_Data.freed = {"a"}
  BY DEF INIT_VIEW1D_Data, Data
<1>4. ASSUME NEW i \in 0 .. Target1 - 1 PROVE Inside(SetUpMemory(INIT_VIEW1D_Data), b(i))
  <2>1. \A x, j : Holds(SetUpMemory(INIT_VIEW1D_Data), <<x, j>>) <=>
           \/ x \in DOMAIN INIT_VIEW1D_Data.heap /\ j \in 0 .. INIT_VIEW1D_Data.heap[x] - 1
           \/ x \notin DOMAIN INIT_VIEW1D_Data.heap /\ x \in INIT_VIEW1D_Data.members /\ j = 0
    BY <1>3, SetUpWrites
  <2>. HIDE DEF b
  <2>. QED BY <1>2, <1>3, <2>1 DEF Inside
<1>. HIDE DEF b
<1>5. \A i, h \in 0 .. Target1 - 1 : i # h => ~ Conflict(b(i), b(h))
  BY <1>2 DEF Conflict
<1>. QED BY <1>1, <1>2, <1>3, <1>4, <1>5 DEF OwnElements

(* The five variants of INIT_VIEW1D are this loop. *)
LEMMA INIT_VIEW1DPrograms ==
  /\ INIT_VIEW1D_Seq = ElementSeq("INIT_VIEW1D") /\ INIT_VIEW1D_OMP = ElementOMP("INIT_VIEW1D")
  /\ INIT_VIEW1D_Target = ElementOMP("INIT_VIEW1D")
  /\ INIT_VIEW1D_CUDA = ElementGPU("INIT_VIEW1D") /\ INIT_VIEW1D_HIP = ElementGPU("INIT_VIEW1D")
<1> DEFINE B(x) == Jobs("init", x, INIT_VIEW1D_Body)
           I(u) == ThreadIndex(GridThreads[u])
<1>1. \A x : B(x) = ElementJobs("INIT_VIEW1D", x)
  BY DEF Jobs, ElementJobs, ElementJob, ElementBody, LoopName
<1>2. /\ INIT_VIEW1D_Seq = <<Launch(<<B(Upto(0, Target1))>>)>>
      /\ INIT_VIEW1D_OMP = <<Launch([n \in DOMAIN Upto(0, Target1) |-> B(<<Upto(0, Target1)[n]>>)])>>
      /\ INIT_VIEW1D_Target = INIT_VIEW1D_OMP /\ INIT_VIEW1D_HIP = INIT_VIEW1D_CUDA
  BY DEF INIT_VIEW1D_Seq, INIT_VIEW1D_OMP, INIT_VIEW1D_Target, INIT_VIEW1D_CUDA, INIT_VIEW1D_HIP,
     SeqLoop, OmpFor, ParLoop
<1>3. INIT_VIEW1D_CUDA = <<Launch([u \in DOMAIN GridThreads |-> B(IF Before(I(u), Target1) THEN <<I(u)>> ELSE <<>>)])>>
  BY DEF INIT_VIEW1D_CUDA, Forall, ForallOver, ParLoop, GridThreads, ThreadIndex
<1>. HIDE DEF B, I
<1>. QED BY <1>1, <1>2, <1>3 DEF ElementSeq, ElementOMP, ElementGPU, I

(* Iteration i of MULADDSUB touches elements that no other iteration changes. *)
LEMMA MULADDSUBText == ASSUME Target1 \in Nat PROVE OwnElements("MULADDSUB", MULADDSUB_Data)
<1> DEFINE b(i) == MULADDSUB_Body(i)
<1>1. \A i : ElementBody("MULADDSUB", i) = b(i)
  BY DEF ElementBody
<1>2. \A i : /\ b(i).r = {<<"in1", i>>, <<"in2", i>>}
             /\ b(i).w = {<<"out1", i>>, <<"out2", i>>, <<"out3", i>>} /\ b(i).a = {} /\ b(i).from = <<>>
  BY DEF MULADDSUB_Body, Body, Adds, Var, At
<1>3. /\ DOMAIN MULADDSUB_Data.heap = {"out1", "out2", "out3", "in1", "in2"}
      /\ \A x \in {"out1", "out2", "out3", "in1", "in2"} : MULADDSUB_Data.heap[x] = Target1
      /\ MULADDSUB_Data.raw = {} /\ MULADDSUB_Data.locals = {} /\ MULADDSUB_Data.members = {}
      /\ \A x \in DOMAIN MULADDSUB_Data.check : x \in {"out1", "out2", "out3"} /\ MULADDSUB_Data.check[x] = Target1
      /\ MULADDSUB_Data.freed = {"out1", "out2", "out3", "in1", "in2"}
  BY DEF MULADDSUB_Data, Data
<1>4. ASSUME NEW i \in 0 .. Target1 - 1 PROVE Inside(SetUpMemory(MULADDSUB_Data), b(i))
  <2>1. \A x, j : Holds(SetUpMemory(MULADDSUB_Data), <<x, j>>) <=>
           \/ x \in DOMAIN MULADDSUB_Data.heap /\ j \in 0 .. MULADDSUB_Data.heap[x] - 1
           \/ x \notin DOMAIN MULADDSUB_Data.heap /\ x \in MULADDSUB_Data.members /\ j = 0
    BY <1>3, SetUpWrites
  <2>. HIDE DEF b
  <2>. QED BY <1>2, <1>3, <2>1 DEF Inside
<1>. HIDE DEF b
<1>5. \A i, h \in 0 .. Target1 - 1 : i # h => ~ Conflict(b(i), b(h))
  BY <1>2 DEF Conflict
<1>. QED BY <1>1, <1>2, <1>3, <1>4, <1>5 DEF OwnElements

(* The five variants of MULADDSUB are this loop. *)
LEMMA MULADDSUBPrograms ==
  /\ MULADDSUB_Seq = ElementSeq("MULADDSUB") /\ MULADDSUB_OMP = ElementOMP("MULADDSUB")
  /\ MULADDSUB_Target = ElementOMP("MULADDSUB")
  /\ MULADDSUB_CUDA = ElementGPU("MULADDSUB") /\ MULADDSUB_HIP = ElementGPU("MULADDSUB")
<1> DEFINE B(x) == Jobs("mas", x, MULADDSUB_Body)
           I(u) == ThreadIndex(GridThreads[u])
<1>1. \A x : B(x) = ElementJobs("MULADDSUB", x)
  BY DEF Jobs, ElementJobs, ElementJob, ElementBody, LoopName
<1>2. /\ MULADDSUB_Seq = <<Launch(<<B(Upto(0, Target1))>>)>>
      /\ MULADDSUB_OMP = <<Launch([n \in DOMAIN Upto(0, Target1) |-> B(<<Upto(0, Target1)[n]>>)])>>
      /\ MULADDSUB_Target = MULADDSUB_OMP /\ MULADDSUB_HIP = MULADDSUB_CUDA
  BY DEF MULADDSUB_Seq, MULADDSUB_OMP, MULADDSUB_Target, MULADDSUB_CUDA, MULADDSUB_HIP, SeqLoop, OmpFor, ParLoop
<1>3. MULADDSUB_CUDA = <<Launch([u \in DOMAIN GridThreads |-> B(IF Before(I(u), Target1) THEN <<I(u)>> ELSE <<>>)])>>
  BY DEF MULADDSUB_CUDA, Forall, ForallOver, ParLoop, GridThreads, ThreadIndex
<1>. HIDE DEF B, I
<1>. QED BY <1>1, <1>2, <1>3 DEF ElementSeq, ElementOMP, ElementGPU, I

(* Iteration i of DIFF_PREDICT touches elements that no other iteration changes. *)
LEMMA DIFF_PREDICTText == ASSUME Target1 \in Nat PROVE OwnElements("DIFF_PREDICT", DIFF_PREDICT_Data)
<1> DEFINE b(i) == DIFF_PREDICT_Body(i)
<1>1. \A i : ElementBody("DIFF_PREDICT", i) = b(i)
  BY DEF ElementBody
<1>2. \A i : /\ b(i).r = {<<"cx", i + Target1 * 4>>} \cup {<<"px", i + Target1 * p>> : p \in 4 .. 12}
             /\ b(i).w = {<<"px", i + Target1 * p>> : p \in 4 .. 13} /\ b(i).a = {} /\ b(i).from = <<>>
  BY DEF DIFF_PREDICT_Body, Body, Adds, Var, At
<1>3. /\ DOMAIN DIFF_PREDICT_Data.heap = {"px", "cx"}
      /\ \A x \in {"px", "cx"} : DIFF_PREDICT_Data.heap[x] = 14 * Target1
      /\ DIFF_PREDICT_Data.raw = {} /\ DIFF_PREDICT_Data.locals = {} /\ DIFF_PREDICT_Data.members = {}
      /\ \A x \in DOMAIN DIFF_PREDICT_Data.check : x \in {"px"} /\ DIFF_PREDICT_Data.check[x] = 14 * Target1
      /\ DIFF_PREDICT_Data.freed = {"px", "cx"}
  BY DEF DIFF_PREDICT_Data, Data
<1>0. \A p, o \in 4 .. 13 : \A i, h \in 0 .. Target1 - 1 :
         /\ i + Target1 * p \in 0 .. 14 * Target1 - 1
         /\ i # h => i + Target1 * p # h + Target1 * o
  <2>. SUFFICES ASSUME NEW p \in 4 .. 13, NEW o \in 4 .. 13, NEW i \in 0 .. Target1 - 1, NEW h \in 0 .. Target1 - 1
                PROVE  /\ i + Target1 * p \in 0 .. 14 * Target1 - 1
                       /\ i # h => i + Target1 * p # h + Target1 * o
    OBVIOUS
  <2>1. Target1 * p \in Nat /\ Target1 * o \in Nat /\ Target1 * p <= 13 * Target1
    OBVIOUS
  <2>2. p < o => Target1 * p + Target1 <= Target1 * o
    OBVIOUS
  <2>3. o < p => Target1 * o + Target1 <= Target1 * p
    OBVIOUS
  <2>4. p < o \/ o < p \/ Target1 * p = Target1 * o
    OBVIOUS
  <2>. QED BY <2>1, <2>2, <2>3, <2>4
<1>6. \A i : /\ \A c \in b(i).w : \E p \in 4 .. 13 : c = <<"px", i + Target1 * p>>
             /\ \A c \in b(i).r : \E p \in 4 .. 13 : c = <<"px", i + Target1 * p>> \/ c = <<"cx", i + Target1 * p>>
             /\ b(i).a = {}
  <2>. HIDE DEF b
  <2>. QED BY <1>2
<1>4. ASSUME NEW i \in 0 .. Target1 - 1 PROVE Inside(SetUpMemory(DIFF_PREDICT_Data), b(i))
  <2>1. \A x, j : Holds(SetUpMemory(DIFF_PREDICT_Data), <<x, j>>) <=>
           \/ x \in DOMAIN DIFF_PREDICT_Data.heap /\ j \in 0 .. DIFF_PREDICT_Data.heap[x] - 1
           \/ x \notin DOMAIN DIFF_PREDICT_Data.heap /\ x \in DIFF_PREDICT_Data.members /\ j = 0
    BY <1>3, SetUpWrites
  <2>2. \A p \in 4 .. 13 : /\ Holds(SetUpMemory(DIFF_PREDICT_Data), <<"px", i + Target1 * p>>)
                         /\ Holds(SetUpMemory(DIFF_PREDICT_Data), <<"cx", i + Target1 * p>>)
    BY <1>0, <1>3, <2>1
  <2>. HIDE DEF b
  <2>. QED BY <2>2, <1>6 DEF Inside
<1>. HIDE DEF b
<1>5. \A i, h \in 0 .. Target1 - 1 : i # h => ~ Conflict(b(i), b(h))
  <2>. SUFFICES ASSUME NEW i \in 0 .. Target1 - 1, NEW h \in 0 .. Target1 - 1, i # h
                PROVE  ~ Conflict(b(i), b(h))
    OBVIOUS
  <2>1. \A p, o \in 4 .. 13 : <<"px", i + Target1 * p>> # <<"px", h + Target1 * o>>
    <3>1. \A p, o \in 4 .. 13 : i + Target1 * p # h + Target1 * o
      BY <1>0
    <3>. QED BY <3>1
  <2>2. \A p, j : <<"px", p>> # <<"cx", j>>
    OBVIOUS
  <2>3. ASSUME NEW c, c \in b(i).w PROVE c \notin b(h).r /\ c \notin b(h).w
    <3>1. PICK p \in 4 .. 13 : c = <<"px", i + Target1 * p>>
      BY <1>6, <2>3, Zenon
    <3>2. ASSUME c \in b(h).r PROVE FALSE
      <4>1. PICK o \in 4 .. 13 : c = <<"px", h + Target1 * o>> \/ c = <<"cx", h + Target1 * o>>
        BY <1>6, <3>2, Zenon
      <4>2. c # <<"px", h + Target1 * o>>
        BY <2>1, <3>1, Zenon
      <4>3. c # <<"cx", h + Target1 * o>>
        BY <2>2, <3>1, Zenon
      <4>. QED BY <4>1, <4>2, <4>3, Zenon
    <3>3. ASSUME c \in b(h).w PROVE FALSE
      <4>1. PICK o \in 4 .. 13 : c = <<"px", h + Target1 * o>>
        BY <1>6, <3>3, Zenon
      <4>. QED BY <2>1, <3>1, <4>1, Zenon
    <3>. QED BY <3>2, <3>3, Zenon
  <2>4. ASSUME NEW c, c \in b(h).w PROVE c \notin b(i).r
    <3>1. PICK p \in 4 .. 13 : c = <<"px", h + Target1 * p>>
      BY <1>6, <2>4, Zenon
    <3>2. ASSUME c \in b(i).r PROVE FALSE
      <4>1. PICK o \in 4 .. 13 : c = <<"px", i + Target1 * o>> \/ c = <<"cx", i + Target1 * o>>
        BY <1>6, <3>2, Zenon
      <4>2. c # <<"px", i + Target1 * o>>
        BY <2>1, <3>1, Zenon
      <4>3. c # <<"cx", i + Target1 * o>>
        BY <2>2, <3>1, Zenon
      <4>. QED BY <4>1, <4>2, <4>3, Zenon
    <3>. QED BY <3>2, Zenon
  <2>. QED BY <1>6, <2>3, <2>4 DEF Conflict
<1>. QED BY <1>1, <1>2, <1>3, <1>4, <1>5 DEF OwnElements

(* The five variants of DIFF_PREDICT are this loop. *)
LEMMA DIFF_PREDICTPrograms ==
  /\ DIFF_PREDICT_Seq = ElementSeq("DIFF_PREDICT") /\ DIFF_PREDICT_OMP = ElementOMP("DIFF_PREDICT")
  /\ DIFF_PREDICT_Target = ElementOMP("DIFF_PREDICT")
  /\ DIFF_PREDICT_CUDA = ElementGPU("DIFF_PREDICT") /\ DIFF_PREDICT_HIP = ElementGPU("DIFF_PREDICT")
<1> DEFINE B(x) == Jobs("diff", x, DIFF_PREDICT_Body)
           I(u) == ThreadIndex(GridThreads[u])
<1>1. \A x : B(x) = ElementJobs("DIFF_PREDICT", x)
  BY DEF Jobs, ElementJobs, ElementJob, ElementBody, LoopName
<1>2. /\ DIFF_PREDICT_Seq = <<Launch(<<B(Upto(0, Target1))>>)>>
      /\ DIFF_PREDICT_OMP = <<Launch([n \in DOMAIN Upto(0, Target1) |-> B(<<Upto(0, Target1)[n]>>)])>>
      /\ DIFF_PREDICT_Target = DIFF_PREDICT_OMP /\ DIFF_PREDICT_HIP = DIFF_PREDICT_CUDA
  BY DEF DIFF_PREDICT_Seq, DIFF_PREDICT_OMP, DIFF_PREDICT_Target, DIFF_PREDICT_CUDA,
     DIFF_PREDICT_HIP, SeqLoop, OmpFor, ParLoop
<1>3. DIFF_PREDICT_CUDA = <<Launch([u \in DOMAIN GridThreads |-> B(IF Before(I(u), Target1) THEN <<I(u)>> ELSE <<>>)])>>
  BY DEF DIFF_PREDICT_CUDA, Forall, ForallOver, ParLoop, GridThreads, ThreadIndex
<1>. HIDE DEF B, I
<1>. QED BY <1>1, <1>2, <1>3 DEF ElementSeq, ElementOMP, ElementGPU, I

(* Iteration i of EOS touches elements that no other iteration changes. *)
LEMMA EOSText == ASSUME Target1 \in Nat PROVE OwnElements("EOS", EOS_Data)
<1> DEFINE b(i) == EOS_Body(i)
<1>1. \A i : ElementBody("EOS", i) = b(i)
  BY DEF ElementBody
<1>2. \A i : /\ b(i).r = {<<"q", 0>>, <<"r", 0>>, <<"t", 0>>, <<"z", i>>, <<"y", i>>}
                           \cup {<<"u", j>> : j \in i .. i + 6}
             /\ b(i).w = {<<"x", i>>} /\ b(i).a = {} /\ b(i).from = <<>>
  BY DEF EOS_Body, Body, Adds, Var, At
<1>3. /\ DOMAIN EOS_Data.heap = {"x", "y", "z", "u"}
      /\ \A x \in {"x", "y", "z", "u"} : EOS_Data.heap[x] = Target1 + 7
      /\ EOS_Data.raw = {} /\ EOS_Data.locals = {} /\ EOS_Data.members = {"q", "r", "t"}
      /\ \A x \in DOMAIN EOS_Data.check : x \in {"x"} /\ EOS_Data.check[x] = Target1
      /\ EOS_Data.freed = {"x", "y", "z", "u"}
  BY DEF EOS_Data, Data
<1>4. ASSUME NEW i \in 0 .. Target1 - 1 PROVE Inside(SetUpMemory(EOS_Data), b(i))
  <2>1. \A x, j : Holds(SetUpMemory(EOS_Data), <<x, j>>) <=>
           \/ x \in DOMAIN EOS_Data.heap /\ j \in 0 .. EOS_Data.heap[x] - 1
           \/ x \notin DOMAIN EOS_Data.heap /\ x \in EOS_Data.members /\ j = 0
    BY <1>3, SetUpWrites
  <2>. HIDE DEF b
  <2>. QED BY <1>2, <1>3, <2>1 DEF Inside
<1>. HIDE DEF b
<1>5. \A i, h \in 0 .. Target1 - 1 : i # h => ~ Conflict(b(i), b(h))
  BY <1>2 DEF Conflict
<1>. QED BY <1>1, <1>2, <1>3, <1>4, <1>5 DEF OwnElements

(* The five variants of EOS are this loop. *)
LEMMA EOSPrograms ==
  /\ EOS_Seq = ElementSeq("EOS") /\ EOS_OMP = ElementOMP("EOS") /\ EOS_Target = ElementOMP("EOS")
  /\ EOS_CUDA = ElementGPU("EOS") /\ EOS_HIP = ElementGPU("EOS")
<1> DEFINE B(x) == Jobs("eos", x, EOS_Body)
           I(u) == ThreadIndex(GridThreads[u])
<1>1. \A x : B(x) = ElementJobs("EOS", x)
  BY DEF Jobs, ElementJobs, ElementJob, ElementBody, LoopName
<1>2. /\ EOS_Seq = <<Launch(<<B(Upto(0, Target1))>>)>>
      /\ EOS_OMP = <<Launch([n \in DOMAIN Upto(0, Target1) |-> B(<<Upto(0, Target1)[n]>>)])>>
      /\ EOS_Target = EOS_OMP /\ EOS_HIP = EOS_CUDA
  BY DEF EOS_Seq, EOS_OMP, EOS_Target, EOS_CUDA, EOS_HIP, SeqLoop, OmpFor, ParLoop
<1>3. EOS_CUDA = <<Launch([u \in DOMAIN GridThreads |-> B(IF Before(I(u), Target1) THEN <<I(u)>> ELSE <<>>)])>>
  BY DEF EOS_CUDA, Forall, ForallOver, ParLoop, GridThreads, ThreadIndex
<1>. HIDE DEF B, I
<1>. QED BY <1>1, <1>2, <1>3 DEF ElementSeq, ElementOMP, ElementGPU, I

(* Iteration i of FIRST_DIFF touches elements that no other iteration changes. *)
LEMMA FIRST_DIFFText == ASSUME Target1 \in Nat PROVE OwnElements("FIRST_DIFF", FIRST_DIFF_Data)
<1> DEFINE b(i) == FIRST_DIFF_Body(i)
<1>1. \A i : ElementBody("FIRST_DIFF", i) = b(i)
  BY DEF ElementBody
<1>2. \A i : /\ b(i).r = {<<"y", i>>, <<"y", i + 1>>}
             /\ b(i).w = {<<"x", i>>} /\ b(i).a = {} /\ b(i).from = <<>>
  BY DEF FIRST_DIFF_Body, Body, Adds, Var, At
<1>3. /\ DOMAIN FIRST_DIFF_Data.heap = {"x", "y"} /\ \A x \in {"x", "y"} : FIRST_DIFF_Data.heap[x] = Target1 + 1
      /\ FIRST_DIFF_Data.raw = {} /\ FIRST_DIFF_Data.locals = {} /\ FIRST_DIFF_Data.members = {}
      /\ \A x \in DOMAIN FIRST_DIFF_Data.check : x \in {"x"} /\ FIRST_DIFF_Data.check[x] = Target1
      /\ FIRST_DIFF_Data.freed = {"x", "y"}
  BY DEF FIRST_DIFF_Data, Data
<1>4. ASSUME NEW i \in 0 .. Target1 - 1 PROVE Inside(SetUpMemory(FIRST_DIFF_Data), b(i))
  <2>1. \A x, j : Holds(SetUpMemory(FIRST_DIFF_Data), <<x, j>>) <=>
           \/ x \in DOMAIN FIRST_DIFF_Data.heap /\ j \in 0 .. FIRST_DIFF_Data.heap[x] - 1
           \/ x \notin DOMAIN FIRST_DIFF_Data.heap /\ x \in FIRST_DIFF_Data.members /\ j = 0
    BY <1>3, SetUpWrites
  <2>. HIDE DEF b
  <2>. QED BY <1>2, <1>3, <2>1 DEF Inside
<1>. HIDE DEF b
<1>5. \A i, h \in 0 .. Target1 - 1 : i # h => ~ Conflict(b(i), b(h))
  BY <1>2 DEF Conflict
<1>. QED BY <1>1, <1>2, <1>3, <1>4, <1>5 DEF OwnElements

(* The five variants of FIRST_DIFF are this loop. *)
LEMMA FIRST_DIFFPrograms ==
  /\ FIRST_DIFF_Seq = ElementSeq("FIRST_DIFF") /\ FIRST_DIFF_OMP = ElementOMP("FIRST_DIFF")
  /\ FIRST_DIFF_Target = ElementOMP("FIRST_DIFF")
  /\ FIRST_DIFF_CUDA = ElementGPU("FIRST_DIFF") /\ FIRST_DIFF_HIP = ElementGPU("FIRST_DIFF")
<1> DEFINE B(x) == Jobs("diff", x, FIRST_DIFF_Body)
           I(u) == ThreadIndex(GridThreads[u])
<1>1. \A x : B(x) = ElementJobs("FIRST_DIFF", x)
  BY DEF Jobs, ElementJobs, ElementJob, ElementBody, LoopName
<1>2. /\ FIRST_DIFF_Seq = <<Launch(<<B(Upto(0, Target1))>>)>>
      /\ FIRST_DIFF_OMP = <<Launch([n \in DOMAIN Upto(0, Target1) |-> B(<<Upto(0, Target1)[n]>>)])>>
      /\ FIRST_DIFF_Target = FIRST_DIFF_OMP /\ FIRST_DIFF_HIP = FIRST_DIFF_CUDA
  BY DEF FIRST_DIFF_Seq, FIRST_DIFF_OMP, FIRST_DIFF_Target, FIRST_DIFF_CUDA, FIRST_DIFF_HIP, SeqLoop,
     OmpFor, ParLoop
<1>3. FIRST_DIFF_CUDA = <<Launch([u \in DOMAIN GridThreads |-> B(IF Before(I(u), Target1) THEN <<I(u)>> ELSE <<>>)])>>
  BY DEF FIRST_DIFF_CUDA, Forall, ForallOver, ParLoop, GridThreads, ThreadIndex
<1>. HIDE DEF B, I
<1>. QED BY <1>1, <1>2, <1>3 DEF ElementSeq, ElementOMP, ElementGPU, I

(* Iteration i of HYDRO_1D touches elements that no other iteration changes. *)
LEMMA HYDRO_1DText == ASSUME Target1 \in Nat PROVE OwnElements("HYDRO_1D", HYDRO_1D_Data)
<1> DEFINE b(i) == HYDRO_1D_Body(i)
<1>1. \A i : ElementBody("HYDRO_1D", i) = b(i)
  BY DEF ElementBody
<1>2. \A i : /\ b(i).r = {<<"q", 0>>, <<"r", 0>>, <<"t", 0>>, <<"y", i>>, <<"z", i + 10>>, <<"z", i + 11>>}
             /\ b(i).w = {<<"x", i>>} /\ b(i).a = {} /\ b(i).from = <<>>
  BY DEF HYDRO_1D_Body, Body, Adds, Var, At
<1>3. /\ DOMAIN HYDRO_1D_Data.heap = {"x", "y", "z"}
      /\ \A x \in {"x", "y", "z"} : HYDRO_1D_Data.heap[x] = Target1 + 12
      /\ HYDRO_1D_Data.raw = {} /\ HYDRO_1D_Data.locals = {} /\ HYDRO_1D_Data.members = {"q", "r", "t"}
      /\ \A x \in DOMAIN HYDRO_1D_Data.check : x \in {"x"} /\ HYDRO_1D_Data.check[x] = Target1
      /\ HYDRO_1D_Data.freed = {"x", "y", "z"}
  BY DEF HYDRO_1D_Data, Data
<1>4. ASSUME NEW i \in 0 .. Target1 - 1 PROVE Inside(SetUpMemory(HYDRO_1D_Data), b(i))
  <2>1. \A x, j : Holds(SetUpMemory(HYDRO_1D_Data), <<x, j>>) <=>
           \/ x \in DOMAIN HYDRO_1D_Data.heap /\ j \in 0 .. HYDRO_1D_Data.heap[x] - 1
           \/ x \notin DOMAIN HYDRO_1D_Data.heap /\ x \in HYDRO_1D_Data.members /\ j = 0
    BY <1>3, SetUpWrites
  <2>. HIDE DEF b
  <2>. QED BY <1>2, <1>3, <2>1 DEF Inside
<1>. HIDE DEF b
<1>5. \A i, h \in 0 .. Target1 - 1 : i # h => ~ Conflict(b(i), b(h))
  BY <1>2 DEF Conflict
<1>. QED BY <1>1, <1>2, <1>3, <1>4, <1>5 DEF OwnElements

(* The five variants of HYDRO_1D are this loop. *)
LEMMA HYDRO_1DPrograms ==
  /\ HYDRO_1D_Seq = ElementSeq("HYDRO_1D") /\ HYDRO_1D_OMP = ElementOMP("HYDRO_1D")
  /\ HYDRO_1D_Target = ElementOMP("HYDRO_1D")
  /\ HYDRO_1D_CUDA = ElementGPU("HYDRO_1D") /\ HYDRO_1D_HIP = ElementGPU("HYDRO_1D")
<1> DEFINE B(x) == Jobs("hydro", x, HYDRO_1D_Body)
           I(u) == ThreadIndex(GridThreads[u])
<1>1. \A x : B(x) = ElementJobs("HYDRO_1D", x)
  BY DEF Jobs, ElementJobs, ElementJob, ElementBody, LoopName
<1>2. /\ HYDRO_1D_Seq = <<Launch(<<B(Upto(0, Target1))>>)>>
      /\ HYDRO_1D_OMP = <<Launch([n \in DOMAIN Upto(0, Target1) |-> B(<<Upto(0, Target1)[n]>>)])>>
      /\ HYDRO_1D_Target = HYDRO_1D_OMP /\ HYDRO_1D_HIP = HYDRO_1D_CUDA
  BY DEF HYDRO_1D_Seq, HYDRO_1D_OMP, HYDRO_1D_Target, HYDRO_1D_CUDA, HYDRO_1D_HIP, SeqLoop, OmpFor, ParLoop
<1>3. HYDRO_1D_CUDA = <<Launch([u \in DOMAIN GridThreads |-> B(IF Before(I(u), Target1) THEN <<I(u)>> ELSE <<>>)])>>
  BY DEF HYDRO_1D_CUDA, Forall, ForallOver, ParLoop, GridThreads, ThreadIndex
<1>. HIDE DEF B, I
<1>. QED BY <1>1, <1>2, <1>3 DEF ElementSeq, ElementOMP, ElementGPU, I

(* Iteration i of INT_PREDICT touches elements that no other iteration changes. *)
LEMMA INT_PREDICTText == ASSUME Target1 \in Nat PROVE OwnElements("INT_PREDICT", INT_PREDICT_Data)
<1> DEFINE b(i) == INT_PREDICT_Body(i)
           Planes == {2, 4, 5, 6, 7, 8, 9, 10, 11, 12}
<1>1. \A i : ElementBody("INT_PREDICT", i) = b(i)
  BY DEF ElementBody
<1>2. \A i : /\ b(i).r = {<<v, 0>> : v \in {"dm22", "dm23", "dm24", "dm25", "dm26", "dm27", "dm28", "c0"}}
                         \cup {<<"px", i + Target1 * p>> : p \in Planes}
             /\ b(i).w = {<<"px", i>>} /\ b(i).a = {} /\ b(i).from = <<>>
  BY DEF INT_PREDICT_Body, Body, Adds, Var, At
<1>3. /\ DOMAIN INT_PREDICT_Data.heap = {"px"} /\ \A x \in {"px"} : INT_PREDICT_Data.heap[x] = 13 * Target1
      /\ INT_PREDICT_Data.raw = {} /\ INT_PREDICT_Data.locals = {}
      /\ INT_PREDICT_Data.members = {"dm22", "dm23", "dm24", "dm25", "dm26", "dm27", "dm28", "c0"}
      /\ \A x \in DOMAIN INT_PREDICT_Data.check : x \in {"px"} /\ INT_PREDICT_Data.check[x] = Target1
      /\ INT_PREDICT_Data.freed = {"px"}
  BY DEF INT_PREDICT_Data, Data
<1>0. \A i \in 0 .. Target1 - 1 : \A p \in Planes :
         i + Target1 * p \in 0 .. 13 * Target1 - 1 /\ i + Target1 * p \notin 0 .. Target1 - 1
  <2>. SUFFICES ASSUME NEW i \in 0 .. Target1 - 1, NEW p \in 2 .. 12
                PROVE  i + Target1 * p \in 0 .. 13 * Target1 - 1 /\ i + Target1 * p \notin 0 .. Target1 - 1
    OBVIOUS
  <2>1. Target1 * p \in Nat /\ 2 * Target1 <= Target1 * p /\ Target1 * p <= 12 * Target1
    OBVIOUS
  <2>. QED BY <2>1
<1>4. ASSUME NEW i \in 0 .. Target1 - 1 PROVE Inside(SetUpMemory(INT_PREDICT_Data), b(i))
  <2>1. \A x, j : Holds(SetUpMemory(INT_PREDICT_Data), <<x, j>>) <=>
           \/ x \in DOMAIN INT_PREDICT_Data.heap /\ j \in 0 .. INT_PREDICT_Data.heap[x] - 1
           \/ x \notin DOMAIN INT_PREDICT_Data.heap /\ x \in INT_PREDICT_Data.members /\ j = 0
    BY <1>3, SetUpWrites
  <2>. HIDE DEF b, Planes
  <2>. QED BY <1>0, <1>2, <1>3, <2>1 DEF Inside
<1>. HIDE DEF b, Planes
<1>5. \A i, h \in 0 .. Target1 - 1 : i # h => ~ Conflict(b(i), b(h))
  BY <1>0, <1>2 DEF Conflict
<1>. QED BY <1>1, <1>2, <1>3, <1>4, <1>5 DEF OwnElements

(* The five variants of INT_PREDICT are this loop. *)
LEMMA INT_PREDICTPrograms ==
  /\ INT_PREDICT_Seq = ElementSeq("INT_PREDICT") /\ INT_PREDICT_OMP = ElementOMP("INT_PREDICT")
  /\ INT_PREDICT_Target = ElementOMP("INT_PREDICT")
  /\ INT_PREDICT_CUDA = ElementGPU("INT_PREDICT") /\ INT_PREDICT_HIP = ElementGPU("INT_PREDICT")
<1> DEFINE B(x) == Jobs("predict", x, INT_PREDICT_Body)
           I(u) == ThreadIndex(GridThreads[u])
<1>1. \A x : B(x) = ElementJobs("INT_PREDICT", x)
  BY DEF Jobs, ElementJobs, ElementJob, ElementBody, LoopName
<1>2. /\ INT_PREDICT_Seq = <<Launch(<<B(Upto(0, Target1))>>)>>
      /\ INT_PREDICT_OMP = <<Launch([n \in DOMAIN Upto(0, Target1) |-> B(<<Upto(0, Target1)[n]>>)])>>
      /\ INT_PREDICT_Target = INT_PREDICT_OMP /\ INT_PREDICT_HIP = INT_PREDICT_CUDA
  BY DEF INT_PREDICT_Seq, INT_PREDICT_OMP, INT_PREDICT_Target, INT_PREDICT_CUDA, INT_PREDICT_HIP,
     SeqLoop, OmpFor, ParLoop
<1>3. INT_PREDICT_CUDA = <<Launch([u \in DOMAIN GridThreads |-> B(IF Before(I(u), Target1) THEN <<I(u)>> ELSE <<>>)])>>
  BY DEF INT_PREDICT_CUDA, Forall, ForallOver, ParLoop, GridThreads, ThreadIndex
<1>. HIDE DEF B, I
<1>. QED BY <1>1, <1>2, <1>3 DEF ElementSeq, ElementOMP, ElementGPU, I

(* Iteration i of PLANCKIAN touches elements that no other iteration changes. *)
LEMMA PLANCKIANText == ASSUME Target1 \in Nat PROVE OwnElements("PLANCKIAN", PLANCKIAN_Data)
<1> DEFINE b(i) == PLANCKIAN_Body(i)
<1>1. \A i : ElementBody("PLANCKIAN", i) = b(i)
  BY DEF ElementBody
<1>2. \A i : /\ b(i).r = {<<"u", i>>, <<"v", i>>, <<"x", i>>}
             /\ b(i).w = {<<"y", i>>, <<"w", i>>} /\ b(i).a = {} /\ b(i).from = <<>>
  BY DEF PLANCKIAN_Body, Body, Adds, Var, At
<1>3. /\ DOMAIN PLANCKIAN_Data.heap = {"x", "y", "u", "v", "w"}
      /\ \A x \in {"x", "y", "u", "v", "w"} : PLANCKIAN_Data.heap[x] = Target1
      /\ PLANCKIAN_Data.raw = {} /\ PLANCKIAN_Data.locals = {} /\ PLANCKIAN_Data.members = {}
      /\ \A x \in DOMAIN PLANCKIAN_Data.check : x \in {"w"} /\ PLANCKIAN_Data.check[x] = Target1
      /\ PLANCKIAN_Data.freed = {"x", "y", "u", "v", "w"}
  BY DEF PLANCKIAN_Data, Data
<1>4. ASSUME NEW i \in 0 .. Target1 - 1 PROVE Inside(SetUpMemory(PLANCKIAN_Data), b(i))
  <2>1. \A x, j : Holds(SetUpMemory(PLANCKIAN_Data), <<x, j>>) <=>
           \/ x \in DOMAIN PLANCKIAN_Data.heap /\ j \in 0 .. PLANCKIAN_Data.heap[x] - 1
           \/ x \notin DOMAIN PLANCKIAN_Data.heap /\ x \in PLANCKIAN_Data.members /\ j = 0
    BY <1>3, SetUpWrites
  <2>. HIDE DEF b
  <2>. QED BY <1>2, <1>3, <2>1 DEF Inside
<1>. HIDE DEF b
<1>5. \A i, h \in 0 .. Target1 - 1 : i # h => ~ Conflict(b(i), b(h))
  BY <1>2 DEF Conflict
<1>. QED BY <1>1, <1>2, <1>3, <1>4, <1>5 DEF OwnElements

(* The five variants of PLANCKIAN are this loop. *)
LEMMA PLANCKIANPrograms ==
  /\ PLANCKIAN_Seq = ElementSeq("PLANCKIAN") /\ PLANCKIAN_OMP = ElementOMP("PLANCKIAN")
  /\ PLANCKIAN_Target = ElementOMP("PLANCKIAN")
  /\ PLANCKIAN_CUDA = ElementGPU("PLANCKIAN") /\ PLANCKIAN_HIP = ElementGPU("PLANCKIAN")
<1> DEFINE B(x) == Jobs("planck", x, PLANCKIAN_Body)
           I(u) == ThreadIndex(GridThreads[u])
<1>1. \A x : B(x) = ElementJobs("PLANCKIAN", x)
  BY DEF Jobs, ElementJobs, ElementJob, ElementBody, LoopName
<1>2. /\ PLANCKIAN_Seq = <<Launch(<<B(Upto(0, Target1))>>)>>
      /\ PLANCKIAN_OMP = <<Launch([n \in DOMAIN Upto(0, Target1) |-> B(<<Upto(0, Target1)[n]>>)])>>
      /\ PLANCKIAN_Target = PLANCKIAN_OMP /\ PLANCKIAN_HIP = PLANCKIAN_CUDA
  BY DEF PLANCKIAN_Seq, PLANCKIAN_OMP, PLANCKIAN_Target, PLANCKIAN_CUDA, PLANCKIAN_HIP, SeqLoop, OmpFor, ParLoop
<1>3. PLANCKIAN_CUDA = <<Launch([u \in DOMAIN GridThreads |-> B(IF Before(I(u), Target1) THEN <<I(u)>> ELSE <<>>)])>>
  BY DEF PLANCKIAN_CUDA, Forall, ForallOver, ParLoop, GridThreads, ThreadIndex
<1>. HIDE DEF B, I
<1>. QED BY <1>1, <1>2, <1>3 DEF ElementSeq, ElementOMP, ElementGPU, I

(* The rows of the kernels in the catalogues. *)
Backends == {"Seq", "OpenMP", "OpenMPTarget", "CUDA", "HIP"}
ElementRowIs(k) ==
  /\ OwnElements(k, ElementRow(k).data) /\ ElementRow(k).Seq = ElementSeq(k)
  /\ \A v \in Backends : ElementRow(k)[v] \in {ElementSeq(k), ElementOMP(k), ElementGPU(k)}

(* It is enough to look at the entries one by one. *)
LEMMA RowIs ==
  ASSUME NEW k, NEW d, NEW seq, NEW omp, NEW target, NEW cuda, NEW hip, OwnElements(k, d),
         ElementRow(k) = [data |-> d, Seq |-> seq, OpenMP |-> omp, OpenMPTarget |-> target,
           CUDA |-> cuda, HIP |-> hip],
         seq = ElementSeq(k), omp = ElementOMP(k), target = ElementOMP(k),
         cuda = ElementGPU(k), hip = ElementGPU(k)
  PROVE  ElementRowIs(k)
BY DEF ElementRowIs, Backends

(* The rows of StreamCatalog. *)
LEMMA StreamRows ==
  ASSUME Target1 \in Nat
  PROVE  \A k \in {"ADD", "COPY", "MUL", "TRIAD"} : ElementRowIs(k)
<1>1. ElementRowIs("ADD")
  <2>1. ElementRow("ADD") = [data |-> ADD_Data, Seq |-> ADD_Seq, OpenMP |-> ADD_OMP, OpenMPTarget |-> ADD_Target,
                      CUDA |-> ADD_CUDA, HIP |-> ADD_HIP]
    BY DEF ElementRow, StreamCatalog
  <2>. QED BY <2>1, ADDText, ADDPrograms, RowIs
<1>2. ElementRowIs("COPY")
  <2>1. ElementRow("COPY") = [data |-> COPY_Data, Seq |-> COPY_Seq, OpenMP |-> COPY_OMP,
          OpenMPTarget |-> COPY_Target,
                      CUDA |-> COPY_CUDA, HIP |-> COPY_HIP]
    BY DEF ElementRow, StreamCatalog
  <2>. QED BY <2>1, COPYText, COPYPrograms, RowIs
<1>3. ElementRowIs("MUL")
  <2>1. ElementRow("MUL") = [data |-> MUL_Data, Seq |-> MUL_Seq, OpenMP |-> MUL_OMP, OpenMPTarget |-> MUL_Target,
                      CUDA |-> MUL_CUDA, HIP |-> MUL_HIP]
    BY DEF ElementRow, StreamCatalog
  <2>. QED BY <2>1, MULText, MULPrograms, RowIs
<1>4. ElementRowIs("TRIAD")
  <2>1. ElementRow("TRIAD") = [data |-> TRIAD_Data, Seq |-> TRIAD_Seq, OpenMP |-> TRIAD_OMP,
          OpenMPTarget |-> TRIAD_Target,
                      CUDA |-> TRIAD_CUDA, HIP |-> TRIAD_HIP]
    BY DEF ElementRow, StreamCatalog
  <2>. QED BY <2>1, TRIADText, TRIADPrograms, RowIs
<1>. QED BY <1>1, <1>2, <1>3, <1>4

(* The rows of AlgorithmCatalog. *)
LEMMA AlgorithmRows ==
  ASSUME Target1 \in Nat
  PROVE  \A k \in {"MEMCPY", "MEMSET"} : ElementRowIs(k)
<1>1. ElementRowIs("MEMCPY")
  <2>1. ElementRow("MEMCPY") = [data |-> MEMCPY_Data, Seq |-> MEMCPY_Seq, OpenMP |-> MEMCPY_OMP,
          OpenMPTarget |-> MEMCPY_Target,
                      CUDA |-> MEMCPY_CUDA, HIP |-> MEMCPY_HIP]
    BY DEF ElementRow, AlgorithmCatalog
  <2>. QED BY <2>1, MEMCPYText, MEMCPYPrograms, RowIs
<1>2. ElementRowIs("MEMSET")
  <2>1. ElementRow("MEMSET") = [data |-> MEMSET_Data, Seq |-> MEMSET_Seq, OpenMP |-> MEMSET_OMP,
          OpenMPTarget |-> MEMSET_Target,
                      CUDA |-> MEMSET_CUDA, HIP |-> MEMSET_HIP]
    BY DEF ElementRow, AlgorithmCatalog
  <2>. QED BY <2>1, MEMSETText, MEMSETPrograms, RowIs
<1>. QED BY <1>1, <1>2

(* The rows of BasicCatalog. *)
LEMMA BasicRows ==
  ASSUME Target1 \in Nat
  PROVE  \A k \in {"ARRAY_OF_PTRS", "COPY8", "DAXPY", "DAXPY_ATOMIC", "IF_QUAD", "INIT3",
                    "INIT_VIEW1D", "MULADDSUB"} : ElementRowIs(k)
<1>1. ElementRowIs("ARRAY_OF_PTRS")
  <2>1. ElementRow("ARRAY_OF_PTRS") = [data |-> ARRAY_OF_PTRS_Data, Seq |-> ARRAY_OF_PTRS_Seq,
          OpenMP |-> ARRAY_OF_PTRS_OMP, OpenMPTarget |-> ARRAY_OF_PTRS_Target,
                      CUDA |-> ARRAY_OF_PTRS_CUDA, HIP |-> ARRAY_OF_PTRS_HIP]
    BY DEF ElementRow, BasicCatalog
  <2>. QED BY <2>1, ARRAY_OF_PTRSText, ARRAY_OF_PTRSPrograms, RowIs
<1>2. ElementRowIs("COPY8")
  <2>1. ElementRow("COPY8") = [data |-> COPY8_Data, Seq |-> COPY8_Seq, OpenMP |-> COPY8_OMP,
          OpenMPTarget |-> COPY8_Target,
                      CUDA |-> COPY8_CUDA, HIP |-> COPY8_HIP]
    BY DEF ElementRow, BasicCatalog
  <2>. QED BY <2>1, COPY8Text, COPY8Programs, RowIs
<1>3. ElementRowIs("DAXPY")
  <2>1. ElementRow("DAXPY") = [data |-> DAXPY_Data, Seq |-> DAXPY_Seq, OpenMP |-> DAXPY_OMP,
          OpenMPTarget |-> DAXPY_Target,
                      CUDA |-> DAXPY_CUDA, HIP |-> DAXPY_HIP]
    BY DEF ElementRow, BasicCatalog
  <2>. QED BY <2>1, DAXPYText, DAXPYPrograms, RowIs
<1>4. ElementRowIs("DAXPY_ATOMIC")
  <2>1. ElementRow("DAXPY_ATOMIC") = [data |-> DAXPY_ATOMIC_Data, Seq |-> DAXPY_ATOMIC_Seq,
          OpenMP |-> DAXPY_ATOMIC_OMP, OpenMPTarget |-> DAXPY_ATOMIC_Target,
                      CUDA |-> DAXPY_ATOMIC_CUDA, HIP |-> DAXPY_ATOMIC_HIP]
    BY DEF ElementRow, BasicCatalog
  <2>. QED BY <2>1, DAXPY_ATOMICText, DAXPY_ATOMICPrograms, RowIs
<1>5. ElementRowIs("IF_QUAD")
  <2>1. ElementRow("IF_QUAD") = [data |-> IF_QUAD_Data, Seq |-> IF_QUAD_Seq, OpenMP |-> IF_QUAD_OMP,
          OpenMPTarget |-> IF_QUAD_Target,
                      CUDA |-> IF_QUAD_CUDA, HIP |-> IF_QUAD_HIP]
    BY DEF ElementRow, BasicCatalog
  <2>. QED BY <2>1, IF_QUADText, IF_QUADPrograms, RowIs
<1>6. ElementRowIs("INIT3")
  <2>1. ElementRow("INIT3") = [data |-> INIT3_Data, Seq |-> INIT3_Seq, OpenMP |-> INIT3_OMP,
          OpenMPTarget |-> INIT3_Target,
                      CUDA |-> INIT3_CUDA, HIP |-> INIT3_HIP]
    BY DEF ElementRow, BasicCatalog
  <2>. QED BY <2>1, INIT3Text, INIT3Programs, RowIs
<1>7. ElementRowIs("INIT_VIEW1D")
  <2>1. ElementRow("INIT_VIEW1D") = [data |-> INIT_VIEW1D_Data, Seq |-> INIT_VIEW1D_Seq,
          OpenMP |-> INIT_VIEW1D_OMP, OpenMPTarget |-> INIT_VIEW1D_Target,
                      CUDA |-> INIT_VIEW1D_CUDA, HIP |-> INIT_VIEW1D_HIP]
    BY DEF ElementRow, BasicCatalog
  <2>. QED BY <2>1, INIT_VIEW1DText, INIT_VIEW1DPrograms, RowIs
<1>8. ElementRowIs("MULADDSUB")
  <2>1. ElementRow("MULADDSUB") = [data |-> MULADDSUB_Data, Seq |-> MULADDSUB_Seq,
          OpenMP |-> MULADDSUB_OMP, OpenMPTarget |-> MULADDSUB_Target,
                      CUDA |-> MULADDSUB_CUDA, HIP |-> MULADDSUB_HIP]
    BY DEF ElementRow, BasicCatalog
  <2>. QED BY <2>1, MULADDSUBText, MULADDSUBPrograms, RowIs
<1>. QED BY <1>1, <1>2, <1>3, <1>4, <1>5, <1>6, <1>7, <1>8

(* The rows of LcalsCatalog. *)
LEMMA LcalsRows ==
  ASSUME Target1 \in Nat
  PROVE  \A k \in {"DIFF_PREDICT", "EOS", "FIRST_DIFF", "HYDRO_1D", "INT_PREDICT",
                    "PLANCKIAN"} : ElementRowIs(k)
<1>1. ElementRowIs("DIFF_PREDICT")
  <2>1. ElementRow("DIFF_PREDICT") = [data |-> DIFF_PREDICT_Data, Seq |-> DIFF_PREDICT_Seq,
          OpenMP |-> DIFF_PREDICT_OMP, OpenMPTarget |-> DIFF_PREDICT_Target,
                      CUDA |-> DIFF_PREDICT_CUDA, HIP |-> DIFF_PREDICT_HIP]
    BY DEF ElementRow, LcalsCatalog
  <2>. QED BY <2>1, DIFF_PREDICTText, DIFF_PREDICTPrograms, RowIs
<1>2. ElementRowIs("EOS")
  <2>1. ElementRow("EOS") = [data |-> EOS_Data, Seq |-> EOS_Seq, OpenMP |-> EOS_OMP, OpenMPTarget |-> EOS_Target,
                      CUDA |-> EOS_CUDA, HIP |-> EOS_HIP]
    BY DEF ElementRow, LcalsCatalog
  <2>. QED BY <2>1, EOSText, EOSPrograms, RowIs
<1>3. ElementRowIs("FIRST_DIFF")
  <2>1. ElementRow("FIRST_DIFF") = [data |-> FIRST_DIFF_Data, Seq |-> FIRST_DIFF_Seq,
          OpenMP |-> FIRST_DIFF_OMP, OpenMPTarget |-> FIRST_DIFF_Target,
                      CUDA |-> FIRST_DIFF_CUDA, HIP |-> FIRST_DIFF_HIP]
    BY DEF ElementRow, LcalsCatalog
  <2>. QED BY <2>1, FIRST_DIFFText, FIRST_DIFFPrograms, RowIs
<1>4. ElementRowIs("HYDRO_1D")
  <2>1. ElementRow("HYDRO_1D") = [data |-> HYDRO_1D_Data, Seq |-> HYDRO_1D_Seq,
          OpenMP |-> HYDRO_1D_OMP, OpenMPTarget |-> HYDRO_1D_Target,
                      CUDA |-> HYDRO_1D_CUDA, HIP |-> HYDRO_1D_HIP]
    BY DEF ElementRow, LcalsCatalog
  <2>. QED BY <2>1, HYDRO_1DText, HYDRO_1DPrograms, RowIs
<1>5. ElementRowIs("INT_PREDICT")
  <2>1. ElementRow("INT_PREDICT") = [data |-> INT_PREDICT_Data, Seq |-> INT_PREDICT_Seq,
          OpenMP |-> INT_PREDICT_OMP, OpenMPTarget |-> INT_PREDICT_Target,
                      CUDA |-> INT_PREDICT_CUDA, HIP |-> INT_PREDICT_HIP]
    BY DEF ElementRow, LcalsCatalog
  <2>. QED BY <2>1, INT_PREDICTText, INT_PREDICTPrograms, RowIs
<1>6. ElementRowIs("PLANCKIAN")
  <2>1. ElementRow("PLANCKIAN") = [data |-> PLANCKIAN_Data, Seq |-> PLANCKIAN_Seq,
          OpenMP |-> PLANCKIAN_OMP, OpenMPTarget |-> PLANCKIAN_Target,
                      CUDA |-> PLANCKIAN_CUDA, HIP |-> PLANCKIAN_HIP]
    BY DEF ElementRow, LcalsCatalog
  <2>. QED BY <2>1, PLANCKIANText, PLANCKIANPrograms, RowIs
<1>. QED BY <1>1, <1>2, <1>3, <1>4, <1>5, <1>6

(***************************************************************************)
(* The kernels of one loop over the elements of arrays do what they should  *)
(* in every variant, for every problem size and every block size, whether   *)
(* it divides the problem size or not: the threads that stick out of the    *)
(* range are the only ones with nothing to do, no iteration touches what    *)
(* another one writes, none leaves the arrays, and what is read and what is *)
(* left is what Base_Seq reads and leaves.                                  *)
(***************************************************************************)
THEOREM ElementwiseKernelsBehave ==
  ASSUME Target1 \in Nat, BlockSize \in Nat \ {0},
         \A p \in Chosen : /\ p[1] \in Elementwise /\ p[2] \in Backends
                           /\ Catalog[p[1]] = ElementRow(p[1])
  PROVE  /\ Spec => [](NoRace /\ AccessesAreValid /\ MemoryIsReturned)
         /\ Spec => ImplementsWholeLoops
         /\ Spec => [](ReadsAsSequential /\ EndsAsSequential)
<1>1. \A k \in Elementwise : ElementRowIs(k)
  BY StreamRows, AlgorithmRows, BasicRows, LcalsRows DEF Elementwise, LoopName
<1>2. \A p \in Chosen : WellWritten(Catalog[p[1]].data, Catalog[p[1]][p[2]])
                        /\ SeqIsPlain(p[1]) /\ KeepsOrder(p[1], Catalog[p[1]][p[2]])
  <2>. TAKE p \in Chosen
  <2>1. /\ OwnElements(p[1], Catalog[p[1]].data) /\ Catalog[p[1]].Seq = ElementSeq(p[1])
        /\ Catalog[p[1]][p[2]] \in {ElementSeq(p[1]), ElementOMP(p[1]), ElementGPU(p[1])}
    BY <1>1 DEF ElementRowIs
  <2>2. p[1] \in {c[1] : c \in Chosen}
    OBVIOUS
  <2>. QED BY <2>1, <2>2, ElementsAreFine
<1>3. PlaceInv => Kept
  <2>. HAVE PlaceInv
  <2>1. PICK p \in Chosen : kernel = p[1] /\ variant = p[2]
    BY DEF PlaceInv
  <2>. QED BY <1>2, <2>1 DEF Kept, program
<1>4. Spec => []PlaceInv
  <2>1. Init => PlaceInv /\ TeamInv
    BY KInvInit DEF KInv
  <2>2. PlaceInv /\ TeamInv /\ [Next]_vars => (PlaceInv /\ TeamInv)'
    BY PlaceInvNext
  <2>. QED BY <2>1, <2>2, PTL DEF Spec
<1>5. Spec => [](ReadsAsSequential /\ EndsAsSequential)
  BY <1>3, <1>4, KeptOrderIsEnough, PTL
<1>. QED BY <1>2, <1>5, TextIsEnough

-----------------------------------------------------------------------------
(* The shares of the threads of an OpenMP scan *)

IndicesOf(s) == {s[i] : i \in DOMAIN s}
(* The indices that Upto lists are those from lo to hi - 1.                  *)
LEMMA UptoIs ==
  ASSUME NEW lo \in Int, NEW hi \in Int
  PROVE  \A i : i \in IndicesOf(Upto(lo, hi)) <=> i \in Int /\ lo <= i /\ i < hi
<1> DEFINE len == IF hi > lo THEN hi - lo ELSE 0
           s == [n \in 1 .. len |-> lo + n - 1]
<1>1. Upto(lo, hi) = s
  BY DEF Upto
<1>2. ASSUME NEW i, i \in IndicesOf(s) PROVE i \in Int /\ lo <= i /\ i < hi
  <2>1. PICK n \in 1 .. len : i = lo + n - 1
    BY <1>2 DEF IndicesOf
  <2>. QED BY <2>1
<1>3. ASSUME NEW i \in Int, lo <= i, i < hi PROVE i \in IndicesOf(s)
  <2>1. i - lo + 1 \in 1 .. len /\ lo + (i - lo + 1) - 1 = i
    BY <1>3
  <2>2. i - lo + 1 \in DOMAIN s /\ s[i - lo + 1] = i
    BY <2>1
  <2>. QED BY <2>2 DEF IndicesOf
<1>. HIDE DEF s
<1>. QED BY <1>1, <1>2, <1>3

(***************************************************************************)
(* The chunks of the OpenMP scans cover the range: each index is in exactly *)
(* one, for any length and number of threads, also when there are more      *)
(* threads than indices and all chunks but the last are empty.              *)
(***************************************************************************)
THEOREM ChunksPartition ==
  ASSUME NEW n \in Nat, NEW p \in Nat \ {0}
  PROVE  \A i \in 0 .. n - 1 :
            \E pid \in 0 .. p - 1 : /\ i \in IndicesOf(Chunk(n, p, pid))
                                    /\ \A q \in 0 .. p - 1 : i \in IndicesOf(Chunk(n, p, q)) => q = pid
<1> DEFINE step == n \div p
           hi(q) == IF q = p - 1 THEN n ELSE (q + 1) * step
<1>1. step \in Nat /\ p * step <= n
  BY SMT
<1>2. \A q \in 0 .. p - 1 : q * step \in Nat /\ (q + 1) * step \in Nat /\ hi(q) \in Nat
  <2>. HIDE DEF step
  <2>. QED BY <1>1
<1>3. \A q \in 0 .. p - 1 : \A i : i \in IndicesOf(Chunk(n, p, q)) <=> i \in Int /\ q * step <= i /\ i < hi(q)
  <2>. TAKE q \in 0 .. p - 1
  <2>1. Chunk(n, p, q) = Upto(q * step, hi(q))
    BY DEF Chunk
  <2>2. q * step \in Int /\ hi(q) \in Int
    BY <1>2
  <2>. HIDE DEF hi, step
  <2>. QED BY <2>1, <2>2, UptoIs
(* A chunk ends where the next one starts, or before. *)
<1>4. ASSUME NEW q \in 0 .. p - 1, NEW r \in 0 .. p - 1, q < r PROVE hi(q) <= r * step
  <2>1. hi(q) = (q + 1) * step
    BY <1>4
  <2>. HIDE DEF step
  <2>2. (q + 1) * step <= r * step
    <3>1. r * step = (q + 1) * step + (r - (q + 1)) * step
      BY <1>1
    <3>2. (r - (q + 1)) * step \in Nat
      BY <1>1, <1>4
    <3>. HIDE DEF hi
    <3>. QED BY <3>1, <3>2, <1>1, <1>2
  <2>. QED BY <2>1, <2>2
<1>5. ASSUME NEW i \in 0 .. n - 1
      PROVE  \E pid \in 0 .. p - 1 : pid * step <= i /\ i < hi(pid)
  <2>1. CASE (p - 1) * step <= i
    <3>1. p - 1 \in 0 .. p - 1 /\ hi(p - 1) = n
      OBVIOUS
    <3>. QED BY <2>1, <3>1
  <2>2. CASE ~ ((p - 1) * step <= i)
    <3> DEFINE d == i \div step
    <3>1. step > 0
      <4>. HIDE DEF step
      <4>. QED BY <2>2, <1>1
    <3>2. d \in Nat /\ step * d <= i /\ i < step * d + step
      <4>. HIDE DEF step
      <4>. QED BY <1>1, <3>1, SMT
    <3>. HIDE DEF step, d
    <3>3. d < p - 1
      <4>1. step * d < step * (p - 1)
        BY <2>2, <3>2, <1>1
      <4>. QED BY <4>1, <3>1, <3>2, <1>1
    <3>4. d \in 0 .. p - 1 /\ hi(d) = (d + 1) * step
      BY <3>2, <3>3
    <3>5. (d + 1) * step = step * d + step
      BY <3>2, <1>1
    <3>. QED BY <3>2, <3>4, <3>5, <1>1
  <2>. QED BY <2>1, <2>2
<1>6. ASSUME NEW i \in 0 .. n - 1 PROVE
            \E pid \in 0 .. p - 1 : /\ i \in IndicesOf(Chunk(n, p, pid))
                                    /\ \A q \in 0 .. p - 1 : i \in IndicesOf(Chunk(n, p, q)) => q = pid
  <2>1. PICK pid \in 0 .. p - 1 : pid * step <= i /\ i < hi(pid)
    BY <1>5
  <2>. HIDE DEF hi, step
  <2>2. ASSUME NEW q \in 0 .. p - 1, q * step <= i, i < hi(q) PROVE q = pid
    BY <1>2, <1>4, <2>1, <2>2
  <2>. QED BY <1>3, <2>1, <2>2
<1>. QED BY <1>6
=============================================================================
