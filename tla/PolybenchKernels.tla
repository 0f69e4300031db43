---------------------------- MODULE PolybenchKernels ----------------------------
(***************************************************************************)
(* The kernels of the Polybench group (src/polybench), laid out as in      *)
(* BasicKernels.  Their matrices are square but for the inner dimension of *)
(* the products (Depth here, 1000 to 1200 in the code); the stencils take  *)
(* TimeSteps steps in a repetition (4 to 40 in the code).                  *)
(***************************************************************************)
EXTENDS KernelLoops

LOCAL N1 == Target1
LOCAL n == Sqrt(Target2) + 1
LOCAL n3 == Cbrt(Target3) + 1
LOCAL Depth == 2
LOCAL TimeSteps == 2

LOCAL All == Upto(0, n)
LOCAL Inner == Upto(1, n - 1)
LOCAL Square(names) == [x \in names |-> n * n]
LOCAL Cell(x, i, j) == <<x, i * n + j>>
\* The loops over all of an n by n matrix, indexed <<row, column>>.
LOCAL Rows(loop, B(_)) == SeqLoop(loop, Nest2(All, All), B)
LOCAL RowsFor(loop, B(_)) == OmpFor(loop, Nest2(All, All), B)
LOCAL RowsByOuter(loop, B(_)) == ParLoop(loop, All, LAMBDA i : Nest2(<<i>>, All), B)
LOCAL RowsGrid(loop, B(_)) == Grid2(loop, n, n, LAMBDA y, x : <<y, x>>, B)

(* POLYBENCH_2MM: tmp = A B and D = tmp C *)
POLYBENCH_2MM_Data ==
    Data(Square({"tmp", "C", "D"}) @@ [A |-> n * Depth, B |-> Depth * n],
         [D |-> n * n], {"tmp", "A", "B", "C", "D"}, 2)
POLYBENCH_2MM_Body1(t) ==
    Body(RowOf("A", t[1], Depth) \cup ColumnOf("B", t[2], Depth, n), {Cell("tmp", t[1], t[2])})
POLYBENCH_2MM_Body2(t) ==
    Body(RowOf("tmp", t[1], n) \cup ColumnOf("C", t[2], n, n), {Cell("D", t[1], t[2])})
POLYBENCH_2MM_Seq == <<Rows("mm1", POLYBENCH_2MM_Body1), Rows("mm2", POLYBENCH_2MM_Body2)>>
POLYBENCH_2MM_OMP ==
    <<RowsFor("mm1", POLYBENCH_2MM_Body1), RowsFor("mm2", POLYBENCH_2MM_Body2)>>
POLYBENCH_2MM_Target == POLYBENCH_2MM_OMP
POLYBENCH_2MM_CUDA ==
    <<RowsGrid("mm1", POLYBENCH_2MM_Body1), RowsGrid("mm2", POLYBENCH_2MM_Body2)>>
POLYBENCH_2MM_HIP ==
    <<RowsGrid("mm1", POLYBENCH_2MM_Body1), RowsGrid("mm2", POLYBENCH_2MM_Body2)>>

(* POLYBENCH_3MM: E = A B, F = C D and G = E F *)
POLYBENCH_3MM_Data ==
    Data(Square({"E", "F", "G"}) @@ [x \in {"A", "B", "C", "D"} |-> n * Depth],
         [G |-> n * n], {"A", "B", "C", "D", "E", "F", "G"}, 3)
POLYBENCH_3MM_Body1(t) ==
    Body(RowOf("A", t[1], Depth) \cup ColumnOf("B", t[2], Depth, n), {Cell("E", t[1], t[2])})
POLYBENCH_3MM_Body2(t) ==
    Body(RowOf("C", t[1], Depth) \cup ColumnOf("D", t[2], Depth, n), {Cell("F", t[1], t[2])})
POLYBENCH_3MM_Body3(t) ==
    Body(RowOf("E", t[1], n) \cup ColumnOf("F", t[2], n, n), {Cell("G", t[1], t[2])})
POLYBENCH_3MM_Seq ==
    <<Rows("mm1", POLYBENCH_3MM_Body1),
      Rows("mm2", POLYBENCH_3MM_Body2),
      Rows("mm3", POLYBENCH_3MM_Body3)>>
POLYBENCH_3MM_OMP ==
    <<RowsFor("mm1", POLYBENCH_3MM_Body1),
      RowsFor("mm2", POLYBENCH_3MM_Body2),
      RowsFor("mm3", POLYBENCH_3MM_Body3)>>
POLYBENCH_3MM_Target == POLYBENCH_3MM_OMP
POLYBENCH_3MM_CUDA ==
    <<RowsGrid("mm1", POLYBENCH_3MM_Body1),
      RowsGrid("mm2", POLYBENCH_3MM_Body2),
      RowsGrid("mm3", POLYBENCH_3MM_Body3)>>
POLYBENCH_3MM_HIP ==
    <<RowsGrid("mm1", POLYBENCH_3MM_Body1),
      RowsGrid("mm2", POLYBENCH_3MM_Body2),
      RowsGrid("mm3", POLYBENCH_3MM_Body3)>>

(* POLYBENCH_ADI: TimeSteps steps of a sweep along the columns of U into V and one along
   the rows back.  A row's sweep is forward, with P and Q, and then backward; t is
   <<row, macro of the body, position>>. *)
POLYBENCH_ADI_Data ==
    Data(Square({"U", "V", "P", "Q"}), [U |-> n * n], {"U", "V", "P", "Q"}, TimeSteps * 2)
POLYBENCH_ADI_Body(t) ==
    LET i == t[1]  m == t[2]  j == t[3]
        PQ(d) == {Cell("P", i, d), Cell("Q", i, d)}
    IN  CASE m = 2 -> Body({}, PQ(0) \cup {Cell("V", 0, i)})
          [] m = 3 -> Body(PQ(j - 1) \cup {Cell("U", j, i + d) : d \in -1 .. 1}, PQ(j))
          [] m = 4 -> Body({}, {Cell("V", n - 1, i)})
          [] m = 5 -> Body(PQ(j) \cup {Cell("V", j + 1, i)}, {Cell("V", j, i)})
          [] m = 6 -> Body({}, PQ(0) \cup {Cell("U", i, 0)})
          [] m = 7 -> Body(PQ(j - 1) \cup {Cell("V", i + d, j) : d \in -1 .. 1}, PQ(j))
          [] m = 8 -> Body({}, {Cell("U", i, n - 1)})
          [] m = 9 -> Body(PQ(j) \cup {Cell("U", i, j + 1)}, {Cell("U", i, j)})
\* The sweep of row i whose first body is BODY2 or BODY6.
POLYBENCH_ADI_Sweep(i, m) ==
    <<<<i, m, 0>>>> \o Nest3(<<i>>, <<m + 1>>, Inner)
        \o <<<<i, m + 2, n - 1>>>> \o Nest3(<<i>>, <<m + 3>>, Downto(n - 2, 1))
LOCAL BothSweeps(Over(_, _)) ==
    Steps(TimeSteps, LAMBDA t : <<Over(<<"columns", t>>, 2), Over(<<"rows", t>>, 6)>>)
POLYBENCH_ADI_Seq ==
    BothSweeps(LAMBDA loop, m :
        SeqLoop(loop, FlattenSeq([i \in DOMAIN Inner |-> POLYBENCH_ADI_Sweep(Inner[i], m)]),
                POLYBENCH_ADI_Body))
POLYBENCH_ADI_OMP ==
    BothSweeps(LAMBDA loop, m :
        ParLoop(loop, Inner, LAMBDA i : POLYBENCH_ADI_Sweep(i, m), POLYBENCH_ADI_Body))
POLYBENCH_ADI_Target == POLYBENCH_ADI_OMP
POLYBENCH_ADI_CUDA ==
    BothSweeps(LAMBDA loop, m :
        ForallOver(loop, 1, n - 1, LAMBDA i : POLYBENCH_ADI_Sweep(i, m), POLYBENCH_ADI_Body))
POLYBENCH_ADI_HIP ==
    BothSweeps(LAMBDA loop, m :
        ForallOver(loop, 1, n - 1, LAMBDA i : POLYBENCH_ADI_Sweep(i, m), POLYBENCH_ADI_Body))

(* POLYBENCH_ATAX: tmp = A x, and then y = A^T tmp *)
POLYBENCH_ATAX_Data ==
    Data([v \in {"tmp", "x", "y"} |-> n] @@ Square({"A"}), [y |-> n],
         {"tmp", "x", "y", "A"}, 2)
POLYBENCH_ATAX_Body1(i) ==
    Body(RowOf("A", i, n) \cup At("x", 0 .. n - 1), {<<"y", i>>, <<"tmp", i>>})
POLYBENCH_ATAX_Body2(j) ==
    Body({<<"y", j>>} \cup ColumnOf("A", j, n, n) \cup At("tmp", 0 .. n - 1), {<<"y", j>>})
POLYBENCH_ATAX_Seq ==
    <<SeqLoop("atax1", All, POLYBENCH_ATAX_Body1),
      SeqLoop("atax2", All, POLYBENCH_ATAX_Body2)>>
POLYBENCH_ATAX_OMP ==
    <<OmpFor("atax1", All, POLYBENCH_ATAX_Body1),
      OmpFor("atax2", All, POLYBENCH_ATAX_Body2)>>
POLYBENCH_ATAX_Target == POLYBENCH_ATAX_OMP
POLYBENCH_ATAX_CUDA ==
    <<Forall("atax1", 0, n, POLYBENCH_ATAX_Body1),
      Forall("atax2", 0, n, POLYBENCH_ATAX_Body2)>>
POLYBENCH_ATAX_HIP ==
    <<Forall("atax1", 0, n, POLYBENCH_ATAX_Body1),
      Forall("atax2", 0, n, POLYBENCH_ATAX_Body2)>>

(* POLYBENCH_FDTD_2D: steps of four loops: the first row of ey from fict, the rest of ey,
   ex, and hz, each over the part of the grid it has neighbours for *)
POLYBENCH_FDTD_2D_Data ==
    Data(Square({"hz", "ex", "ey"}) @@ [fict |-> TimeSteps], [hz |-> n * n],
         {"fict", "ex", "ey", "hz"}, TimeSteps * 4)
POLYBENCH_FDTD_2D_Body1(t, j) == Body({<<"fict", t - 1>>}, {Cell("ey", 0, j)})
POLYBENCH_FDTD_2D_Body2(t) ==
    Body({Cell("ey", t[1], t[2]), Cell("hz", t[1], t[2]), Cell("hz", t[1] - 1, t[2])},
         {Cell("ey", t[1], t[2])})
POLYBENCH_FDTD_2D_Body3(t) ==
    Body({Cell("ex", t[1], t[2]), Cell("hz", t[1], t[2]), Cell("hz", t[1], t[2] - 1)},
         {Cell("ex", t[1], t[2])})
POLYBENCH_FDTD_2D_Body4(t) ==
    Body({Cell("hz", t[1], t[2]), Cell("ex", t[1], t[2] + 1), Cell("ex", t[1], t[2]),
          Cell("ey", t[1] + 1, t[2]), Cell("ey", t[1], t[2])},
         {Cell("hz", t[1], t[2])})
POLYBENCH_FDTD_2D_Seq ==
    Steps(TimeSteps, LAMBDA t :
        <<SeqLoop(<<1, t>>, All, LAMBDA j : POLYBENCH_FDTD_2D_Body1(t, j)),
          SeqLoop(<<2, t>>, Nest2(Upto(1, n), All), POLYBENCH_FDTD_2D_Body2),
          SeqLoop(<<3, t>>, Nest2(All, Upto(1, n)), POLYBENCH_FDTD_2D_Body3),
          SeqLoop(<<4, t>>, Nest2(Upto(0, n - 1), Upto(0, n - 1)), POLYBENCH_FDTD_2D_Body4)>>)
POLYBENCH_FDTD_2D_OMP ==
    Steps(TimeSteps, LAMBDA t :
        <<OmpFor(<<1, t>>, All, LAMBDA j : POLYBENCH_FDTD_2D_Body1(t, j)),
          ParLoop(<<2, t>>, Upto(1, n), LAMBDA i : Nest2(<<i>>, All), POLYBENCH_FDTD_2D_Body2),
          ParLoop(<<3, t>>, All, LAMBDA i : Nest2(<<i>>, Upto(1, n)), POLYBENCH_FDTD_2D_Body3),
          ParLoop(<<4, t>>, Upto(0, n - 1), LAMBDA i : Nest2(<<i>>, Upto(0, n - 1)), POLYBENCH_FDTD_2D_Body4)>>)
POLYBENCH_FDTD_2D_Target ==
    Steps(TimeSteps, LAMBDA t :
        <<OmpFor(<<1, t>>, All, LAMBDA j : POLYBENCH_FDTD_2D_Body1(t, j)),
          OmpFor(<<2, t>>, Nest2(Upto(1, n), All), POLYBENCH_FDTD_2D_Body2),
          OmpFor(<<3, t>>, Nest2(All, Upto(1, n)), POLYBENCH_FDTD_2D_Body3),
          OmpFor(<<4, t>>, Nest2(Upto(0, n - 1), Upto(0, n - 1)), POLYBENCH_FDTD_2D_Body4)>>)
POLYBENCH_FDTD_2D_CUDA ==
    Steps(TimeSteps, LAMBDA t :
        <<Forall(<<1, t>>, 0, n, LAMBDA j : POLYBENCH_FDTD_2D_Body1(t, j)),
          Grid2Guarded(<<2, t>>, n, n, LAMBDA y, x : y > 0, LAMBDA y, x : <<y, x>>,
                       POLYBENCH_FDTD_2D_Body2),
          Grid2Guarded(<<3, t>>, n, n, LAMBDA y, x : x > 0, LAMBDA y, x : <<y, x>>,
                       POLYBENCH_FDTD_2D_Body3),
          Grid2Guarded(<<4, t>>, n, n, LAMBDA y, x : y < n - 1 /\ x < n - 1, LAMBDA y, x : <<y, x>>,
                       POLYBENCH_FDTD_2D_Body4)>>)
POLYBENCH_FDTD_2D_HIP ==
    Steps(TimeSteps, LAMBDA t :
        <<Forall(<<1, t>>, 0, n, LAMBDA j : POLYBENCH_FDTD_2D_Body1(t, j)),
          Grid2Guarded(<<2, t>>, n, n, LAMBDA y, x : y > 0, LAMBDA y, x : <<y, x>>,
                       POLYBENCH_FDTD_2D_Body2),
          Grid2Guarded(<<3, t>>, n, n, LAMBDA y, x : x > 0, LAMBDA y, x : <<y, x>>,
                       POLYBENCH_FDTD_2D_Body3),
          Grid2Guarded(<<4, t>>, n, n, LAMBDA y, x : y < n - 1 /\ x < n - 1, LAMBDA y, x : <<y, x>>,
                       POLYBENCH_FDTD_2D_Body4)>>)

(* POLYBENCH_FLOYD_WARSHALL: shortest paths; one parallel loop over the matrix for every k, and
   setKernelsPerRep(1) *)
POLYBENCH_FLOYD_WARSHALL_Data ==
    Data(Square({"pin", "pout"}), [pout |-> n * n], {"pin", "pout"}, 1)
POLYBENCH_FLOYD_WARSHALL_Body(k, t) ==
    Body({Cell("pin", t[1], t[2]), Cell("pin", t[1], k), Cell("pin", k, t[2])},
         {Cell("pout", t[1], t[2])})
POLYBENCH_FLOYD_WARSHALL_Seq ==
    Steps(n, LAMBDA k : <<Rows(k, LAMBDA t : POLYBENCH_FLOYD_WARSHALL_Body(k - 1, t))>>)
POLYBENCH_FLOYD_WARSHALL_OMP ==
    Steps(n, LAMBDA k : <<RowsFor(k, LAMBDA t : POLYBENCH_FLOYD_WARSHALL_Body(k - 1, t))>>)
POLYBENCH_FLOYD_WARSHALL_Target == POLYBENCH_FLOYD_WARSHALL_OMP
POLYBENCH_FLOYD_WARSHALL_CUDA ==
    Steps(n, LAMBDA k : <<RowsGrid(k, LAMBDA t : POLYBENCH_FLOYD_WARSHALL_Body(k - 1, t))>>)
POLYBENCH_FLOYD_WARSHALL_HIP ==
    Steps(n, LAMBDA k : <<RowsGrid(k, LAMBDA t : POLYBENCH_FLOYD_WARSHALL_Body(k - 1, t))>>)

(* POLYBENCH_GEMM: C = alpha A B + beta C *)
POLYBENCH_GEMM_Data ==
    Data(Square({"C"}) @@ [A |-> n * Depth, B |-> Depth * n], [C |-> n * n], {"A", "B", "C"}, 1)
POLYBENCH_GEMM_Body(t) ==
    Body({Cell("C", t[1], t[2])} \cup RowOf("A", t[1], Depth) \cup ColumnOf("B", t[2], Depth, n),
         {Cell("C", t[1], t[2])})
POLYBENCH_GEMM_Seq == <<Rows("gemm", POLYBENCH_GEMM_Body)>>
POLYBENCH_GEMM_OMP == <<RowsFor("gemm", POLYBENCH_GEMM_Body)>>
POLYBENCH_GEMM_Target == POLYBENCH_GEMM_OMP
POLYBENCH_GEMM_CUDA == <<RowsGrid("gemm", POLYBENCH_GEMM_Body)>>
POLYBENCH_GEMM_HIP == <<RowsGrid("gemm", POLYBENCH_GEMM_Body)>>

(* POLYBENCH_GEMVER: a rank-2 update of A, x += A^T y, x += z, and w += A x *)
POLYBENCH_GEMVER_Data ==
    Data(Square({"A"}) @@ [v \in {"u1", "v1", "u2", "v2", "w", "x", "y", "z"} |-> n],
         [w |-> n], {"A", "u1", "v1", "u2", "v2", "w", "x", "y", "z"}, 4)
POLYBENCH_GEMVER_Body1(t) ==
    Body({Cell("A", t[1], t[2]), <<"u1", t[1]>>, <<"v1", t[2]>>, <<"u2", t[1]>>, <<"v2", t[2]>>},
         {Cell("A", t[1], t[2])})
POLYBENCH_GEMVER_Body2(i) ==
    Body({<<"x", i>>} \cup ColumnOf("A", i, n, n) \cup At("y", 0 .. n - 1), {<<"x", i>>})
POLYBENCH_GEMVER_Body3(i) == Body({<<"x", i>>, <<"z", i>>}, {<<"x", i>>})
POLYBENCH_GEMVER_Body4(i) ==
    Body({<<"w", i>>} \cup RowOf("A", i, n) \cup At("x", 0 .. n - 1), {<<"w", i>>})
LOCAL VectorLoops(Over(_, _)) == <<Over("gemver2", 2), Over("gemver3", 3), Over("gemver4", 4)>>
LOCAL VectorBody(b, i) ==
    IF b = 2 THEN POLYBENCH_GEMVER_Body2(i)
    ELSE IF b = 3 THEN POLYBENCH_GEMVER_Body3(i) ELSE POLYBENCH_GEMVER_Body4(i)
POLYBENCH_GEMVER_Seq ==
    <<Rows("gemver1", POLYBENCH_GEMVER_Body1)>>
        \o VectorLoops(LAMBDA loop, b : SeqLoop(loop, All, LAMBDA i : VectorBody(b, i)))
POLYBENCH_GEMVER_OMP ==
    <<RowsByOuter("gemver1", POLYBENCH_GEMVER_Body1)>>
        \o VectorLoops(LAMBDA loop, b : OmpFor(loop, All, LAMBDA i : VectorBody(b, i)))
POLYBENCH_GEMVER_Target ==
    <<RowsFor("gemver1", POLYBENCH_GEMVER_Body1)>>
        \o VectorLoops(LAMBDA loop, b : OmpFor(loop, All, LAMBDA i : VectorBody(b, i)))
POLYBENCH_GEMVER_CUDA ==
    <<RowsGrid("gemver1", POLYBENCH_GEMVER_Body1)>>
        \o VectorLoops(LAMBDA loop, b : Forall(loop, 0, n, LAMBDA i : VectorBody(b, i)))
POLYBENCH_GEMVER_HIP ==
    <<RowsGrid("gemver1", POLYBENCH_GEMVER_Body1)>>
        \o VectorLoops(LAMBDA loop, b : Forall(loop, 0, n, LAMBDA i : VectorBody(b, i)))

(* POLYBENCH_GESUMMV: y = alpha A x + beta B x *)
POLYBENCH_GESUMMV_Data ==
    Data([v \in {"x", "y"} |-> n] @@ Square({"A", "B"}), [y |-> n], {"x", "y", "A", "B"}, 1)
POLYBENCH_GESUMMV_Body(i) ==
    Body(RowOf("A", i, n) \cup RowOf("B", i, n) \cup At("x", 0 .. n - 1), {<<"y", i>>})
POLYBENCH_GESUMMV_Seq == <<SeqLoop("gesummv", All, POLYBENCH_GESUMMV_Body)>>
POLYBENCH_GESUMMV_OMP == <<OmpFor("gesummv", All, POLYBENCH_GESUMMV_Body)>>
POLYBENCH_GESUMMV_Target == POLYBENCH_GESUMMV_OMP
POLYBENCH_GESUMMV_CUDA == <<Forall("gesummv", 0, n, POLYBENCH_GESUMMV_Body)>>
POLYBENCH_GESUMMV_HIP == <<Forall("gesummv", 0, n, POLYBENCH_GESUMMV_Body)>>

(* POLYBENCH_HEAT_3D: steps of two stencils, from A into B and from B into A, over the inside
   of a cube.  DATA_SETUP copies Ainit and Binit into A and B before the first
   repetition. *)
POLYBENCH_HEAT_3D_Data ==
    Data([x \in {"Ainit", "Binit", "A", "B"} |-> n3 * n3 * n3],
         [x \in {"A", "B"} |-> n3 * n3 * n3], {"A", "B", "Ainit", "Binit"}, TimeSteps * 2)
POLYBENCH_HEAT_3D_Body(from, to, t) ==
    LET At3(x, i, j, k) == <<x, k + n3 * (j + n3 * i)>>
        i == t[1]  j == t[2]  k == t[3]
    IN  Body({At3(from, i + d, j, k) : d \in -1 .. 1} \cup {At3(from, i, j + d, k) : d \in {-1, 1}}
                 \cup {At3(from, i, j, k + d) : d \in {-1, 1}},
             {At3(to, i, j, k)})
LOCAL Inner3 == Upto(1, n3 - 1)
LOCAL ForthAndBack(Over(_, _, _)) ==
    Steps(TimeSteps, LAMBDA t : <<Over(<<"forth", t>>, "A", "B"), Over(<<"back", t>>, "B", "A")>>)
POLYBENCH_HEAT_3D_Seq ==
    ForthAndBack(LAMBDA loop, from, to :
        SeqLoop(loop, Nest3(Inner3, Inner3, Inner3), LAMBDA t : POLYBENCH_HEAT_3D_Body(from, to, t)))
POLYBENCH_HEAT_3D_OMP ==
    ForthAndBack(LAMBDA loop, from, to :
        ParLoop(loop, Nest2(Inner3, Inner3), LAMBDA t : Nest3(<<t[1]>>, <<t[2]>>, Inner3), LAMBDA t : POLYBENCH_HEAT_3D_Body(from, to, t)))
POLYBENCH_HEAT_3D_Target ==
    ForthAndBack(LAMBDA loop, from, to :
        OmpFor(loop, Nest3(Inner3, Inner3, Inner3), LAMBDA t : POLYBENCH_HEAT_3D_Body(from, to, t)))
POLYBENCH_HEAT_3D_CUDA ==
    ForthAndBack(LAMBDA loop, from, to :
        Grid3(loop, n3 - 2, n3 - 2, n3 - 2, LAMBDA z, y, x : <<1 + z, 1 + y, 1 + x>>, LAMBDA t : POLYBENCH_HEAT_3D_Body(from, to, t)))
POLYBENCH_HEAT_3D_HIP ==
    ForthAndBack(LAMBDA loop, from, to :
        Grid3(loop, n3 - 2, n3 - 2, n3 - 2, LAMBDA z, y, x : <<1 + z, 1 + y, 1 + x>>, LAMBDA t : POLYBENCH_HEAT_3D_Body(from, to, t)))

(* POLYBENCH_JACOBI_1D: steps of two three-point stencils, from A into B and back *)
POLYBENCH_JACOBI_1D_Data ==
    Data([x \in {"Ainit", "Binit", "A", "B"} |-> N1], [x \in {"A", "B"} |-> N1],
         {"A", "B", "Ainit", "Binit"}, TimeSteps * 2)
POLYBENCH_JACOBI_1D_Body(from, to, i) == Body(At(from, i - 1 .. i + 1), {<<to, i>>})
POLYBENCH_JACOBI_1D_Seq ==
    ForthAndBack(LAMBDA loop, from, to :
        SeqLoop(loop, Upto(1, N1 - 1), LAMBDA i : POLYBENCH_JACOBI_1D_Body(from, to, i)))
POLYBENCH_JACOBI_1D_OMP ==
    ForthAndBack(LAMBDA loop, from, to :
        OmpFor(loop, Upto(1, N1 - 1), LAMBDA i : POLYBENCH_JACOBI_1D_Body(from, to, i)))
POLYBENCH_JACOBI_1D_Target == POLYBENCH_JACOBI_1D_OMP
POLYBENCH_JACOBI_1D_CUDA ==
    ForthAndBack(LAMBDA loop, from, to :
        ForallGuarded(loop, N1, 1, N1 - 1, LAMBDA i : POLYBENCH_JACOBI_1D_Body(from, to, i)))
POLYBENCH_JACOBI_1D_HIP ==
    ForthAndBack(LAMBDA loop, from, to :
        ForallGuarded(loop, N1, 1, N1 - 1, LAMBDA i : POLYBENCH_JACOBI_1D_Body(from, to, i)))

(* POLYBENCH_JACOBI_2D: steps of two five-point stencils, from A into B and back;
   setKernelsPerRep(2) *)
POLYBENCH_JACOBI_2D_Data ==
    Data(Square({"Ainit", "Binit", "A", "B"}), [x \in {"A", "B"} |-> n * n],
         {"A", "B", "Ainit", "Binit"}, 2)
POLYBENCH_JACOBI_2D_Body(from, to, t) ==
    Body({Cell(from, t[1], t[2] + d) : d \in -1 .. 1} \cup {Cell(from, t[1] + d, t[2]) : d \in {-1, 1}},
         {Cell(to, t[1], t[2])})
POLYBENCH_JACOBI_2D_Seq ==
    ForthAndBack(LAMBDA loop, from, to :
        SeqLoop(loop, Nest2(Inner, Inner), LAMBDA t : POLYBENCH_JACOBI_2D_Body(from, to, t)))
POLYBENCH_JACOBI_2D_OMP ==
    ForthAndBack(LAMBDA loop, from, to :
        ParLoop(loop, Inner, LAMBDA i : Nest2(<<i>>, Inner), LAMBDA t : POLYBENCH_JACOBI_2D_Body(from, to, t)))
POLYBENCH_JACOBI_2D_Target ==
    ForthAndBack(LAMBDA loop, from, to :
        OmpFor(loop, Nest2(Inner, Inner), LAMBDA t : POLYBENCH_JACOBI_2D_Body(from, to, t)))
POLYBENCH_JACOBI_2D_CUDA ==
    ForthAndBack(LAMBDA loop, from, to :
        Grid2(loop, n - 2, n - 2, LAMBDA y, x : <<1 + y, 1 + x>>, LAMBDA t : POLYBENCH_JACOBI_2D_Body(from, to, t)))
POLYBENCH_JACOBI_2D_HIP ==
    ForthAndBack(LAMBDA loop, from, to :
        Grid2(loop, n - 2, n - 2, LAMBDA y, x : <<1 + y, 1 + x>>, LAMBDA t : POLYBENCH_JACOBI_2D_Body(from, to, t)))

(* POLYBENCH_MVT: x1 += A y1 and x2[i] += A^T[i][j] y2[i] over j, in one parallel region without a barrier
   between the loops under OpenMP *)
POLYBENCH_MVT_Data ==
    Data([v \in {"y1", "y2", "x1", "x2"} |-> n] @@ Square({"A"}), [v \in {"x1", "x2"} |-> n],
         {"x1", "x2", "y1", "y2", "A"}, 2)
POLYBENCH_MVT_Body1(i) ==
    Body({<<"x1", i>>} \cup RowOf("A", i, n) \cup At("y1", 0 .. n - 1), {<<"x1", i>>})
POLYBENCH_MVT_Body2(i) ==
    Body({<<"x2", i>>} \cup ColumnOf("A", i, n, n) \cup {<<"y2", i>>}, {<<"x2", i>>})
POLYBENCH_MVT_Seq ==
    <<SeqLoop("mvt1", All, POLYBENCH_MVT_Body1),
      SeqLoop("mvt2", All, POLYBENCH_MVT_Body2)>>
POLYBENCH_MVT_OMP ==
    <<NowaitLoops(<<Iterations("mvt1", All, LAMBDA i : <<i>>, POLYBENCH_MVT_Body1),
                   Iterations("mvt2", All, LAMBDA i : <<i>>, POLYBENCH_MVT_Body2)>>)>>
POLYBENCH_MVT_Target ==
    <<OmpFor("mvt1", All, POLYBENCH_MVT_Body1),
      OmpFor("mvt2", All, POLYBENCH_MVT_Body2)>>
POLYBENCH_MVT_CUDA ==
    <<Forall("mvt1", 0, n, POLYBENCH_MVT_Body1),
      Forall("mvt2", 0, n, POLYBENCH_MVT_Body2)>>
POLYBENCH_MVT_HIP ==
    <<Forall("mvt1", 0, n, POLYBENCH_MVT_Body1),
      Forall("mvt2", 0, n, POLYBENCH_MVT_Body2)>>

-----------------------------------------------------------------------------
\* The kernels of the group, and the variants each defines.
PolybenchCatalog ==
    [POLYBENCH_2MM |->
         [data |-> POLYBENCH_2MM_Data,
          Seq |-> POLYBENCH_2MM_Seq,
          OpenMP |-> POLYBENCH_2MM_OMP,
          OpenMPTarget |-> POLYBENCH_2MM_Target,
          CUDA |-> POLYBENCH_2MM_CUDA,
          HIP |-> POLYBENCH_2MM_HIP],
     POLYBENCH_3MM |->
         [data |-> POLYBENCH_3MM_Data,
          Seq |-> POLYBENCH_3MM_Seq,
          OpenMP |-> POLYBENCH_3MM_OMP,
          OpenMPTarget |-> POLYBENCH_3MM_Target,
          CUDA |-> POLYBENCH_3MM_CUDA,
          HIP |-> POLYBENCH_3MM_HIP],
     POLYBENCH_ADI |->
         [data |-> POLYBENCH_ADI_Data,
          Seq |-> POLYBENCH_ADI_Seq,
          OpenMP |-> POLYBENCH_ADI_OMP,
          OpenMPTarget |-> POLYBENCH_ADI_Target,
          CUDA |-> POLYBENCH_ADI_CUDA,
          HIP |-> POLYBENCH_ADI_HIP],
     POLYBENCH_ATAX |->
         [data |-> POLYBENCH_ATAX_Data,
          Seq |-> POLYBENCH_ATAX_Seq,
          OpenMP |-> POLYBENCH_ATAX_OMP,
          OpenMPTarget |-> POLYBENCH_ATAX_Target,
          CUDA |-> POLYBENCH_ATAX_CUDA,
          HIP |-> POLYBENCH_ATAX_HIP],
     POLYBENCH_FDTD_2D |->
         [data |-> POLYBENCH_FDTD_2D_Data,
          Seq |-> POLYBENCH_FDTD_2D_Seq,
          OpenMP |-> POLYBENCH_FDTD_2D_OMP,
          OpenMPTarget |-> POLYBENCH_FDTD_2D_Target,
          CUDA |-> POLYBENCH_FDTD_2D_CUDA,
          HIP |-> POLYBENCH_FDTD_2D_HIP],
     POLYBENCH_FLOYD_WARSHALL |->
         [data |-> POLYBENCH_FLOYD_WARSHALL_Data,
          Seq |-> POLYBENCH_FLOYD_WARSHALL_Seq,
          OpenMP |-> POLYBENCH_FLOYD_WARSHALL_OMP,
          OpenMPTarget |-> POLYBENCH_FLOYD_WARSHALL_Target,
          CUDA |-> POLYBENCH_FLOYD_WARSHALL_CUDA,
          HIP |-> POLYBENCH_FLOYD_WARSHALL_HIP],
     POLYBENCH_GEMM |->
         [data |-> POLYBENCH_GEMM_Data,
          Seq |-> POLYBENCH_GEMM_Seq,
          OpenMP |-> POLYBENCH_GEMM_OMP,
          OpenMPTarget |-> POLYBENCH_GEMM_Target,
          CUDA |-> POLYBENCH_GEMM_CUDA,
          HIP |-> POLYBENCH_GEMM_HIP],
     POLYBENCH_GEMVER |->
         [data |-> POLYBENCH_GEMVER_Data,
          Seq |-> POLYBENCH_GEMVER_Seq,
          OpenMP |-> POLYBENCH_GEMVER_OMP,
          OpenMPTarget |-> POLYBENCH_GEMVER_Target,
          CUDA |-> POLYBENCH_GEMVER_CUDA,
          HIP |-> POLYBENCH_GEMVER_HIP],
     POLYBENCH_GESUMMV |->
         [data |-> POLYBENCH_GESUMMV_Data,
          Seq |-> POLYBENCH_GESUMMV_Seq,
          OpenMP |-> POLYBENCH_GESUMMV_OMP,
          OpenMPTarget |-> POLYBENCH_GESUMMV_Target,
          CUDA |-> POLYBENCH_GESUMMV_CUDA,
          HIP |-> POLYBENCH_GESUMMV_HIP],
     POLYBENCH_HEAT_3D |->
         [data |-> POLYBENCH_HEAT_3D_Data,
          Seq |-> POLYBENCH_HEAT_3D_Seq,
          OpenMP |-> POLYBENCH_HEAT_3D_OMP,
          OpenMPTarget |-> POLYBENCH_HEAT_3D_Target,
          CUDA |-> POLYBENCH_HEAT_3D_CUDA,
          HIP |-> POLYBENCH_HEAT_3D_HIP],
     POLYBENCH_JACOBI_1D |->
         [data |-> POLYBENCH_JACOBI_1D_Data,
          Seq |-> POLYBENCH_JACOBI_1D_Seq,
          OpenMP |-> POLYBENCH_JACOBI_1D_OMP,
          OpenMPTarget |-> POLYBENCH_JACOBI_1D_Target,
          CUDA |-> POLYBENCH_JACOBI_1D_CUDA,
          HIP |-> POLYBENCH_JACOBI_1D_HIP],
     POLYBENCH_JACOBI_2D |->
         [data |-> POLYBENCH_JACOBI_2D_Data,
          Seq |-> POLYBENCH_JACOBI_2D_Seq,
          OpenMP |-> POLYBENCH_JACOBI_2D_OMP,
          OpenMPTarget |-> POLYBENCH_JACOBI_2D_Target,
          CUDA |-> POLYBENCH_JACOBI_2D_CUDA,
          HIP |-> POLYBENCH_JACOBI_2D_HIP],
     POLYBENCH_MVT |->
         [data |-> POLYBENCH_MVT_Data,
          Seq |-> POLYBENCH_MVT_Seq,
          OpenMP |-> POLYBENCH_MVT_OMP,
          OpenMPTarget |-> POLYBENCH_MVT_Target,
          CUDA |-> POLYBENCH_MVT_CUDA,
          HIP |-> POLYBENCH_MVT_HIP]]
=============================================================================
