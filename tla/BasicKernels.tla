---------------------------- MODULE BasicKernels ----------------------------
(***************************************************************************)
(* The kernels of the Basic group (src/basic) that are parallel loops.     *)
(* For each kernel: its data (constructor, setUp, updateChecksum and       *)
(* tearDown), the body of its loop, and the loops of its Seq, OpenMP,      *)
(* OpenMP target, CUDA and HIP variants in one repetition.  The Base,      *)
(* Lambda and RAJA variants of one back end run the same body over the     *)
(* same indices and share a definition.                                    *)
(*                                                                         *)
(* y[i] += e is an update Adds({}, {y[i]}) only where some variant makes   *)
(* it atomic; elsewhere it is a read and a write.                          *)
(***************************************************************************)
EXTENDS KernelLoops

LOCAL N == Target1
LOCAL Side == Cbrt(Target3)
LOCAL Cube == Nest3(Upto(0, Side), Upto(0, Side), Upto(0, Side))

(* ARRAY_OF_PTRS: x[a] points at x_data + a * iend; the model has three of
   the ARRAY_OF_PTRS_MAX_ARRAY_SIZE = 26 arrays. *)
ArraySize == 3
ARRAY_OF_PTRS_Data == Data([y |-> N, x |-> ArraySize * N], [y |-> N], {"x", "y"}, 1)
ARRAY_OF_PTRS_Body(i) == Body(At("x", {a * N + i : a \in 0 .. ArraySize - 1}), {<<"y", i>>})
ARRAY_OF_PTRS_Seq == <<SeqLoop("ptrs", Upto(0, N), ARRAY_OF_PTRS_Body)>>
ARRAY_OF_PTRS_OMP == <<OmpFor("ptrs", Upto(0, N), ARRAY_OF_PTRS_Body)>>
ARRAY_OF_PTRS_Target == <<OmpFor("ptrs", Upto(0, N), ARRAY_OF_PTRS_Body)>>
ARRAY_OF_PTRS_CUDA == <<Forall("ptrs", 0, N, ARRAY_OF_PTRS_Body)>>
ARRAY_OF_PTRS_HIP == <<Forall("ptrs", 0, N, ARRAY_OF_PTRS_Body)>>

(* COPY8: eight arrays are copied in one loop *)
Xs == {"x0", "x1", "x2", "x3", "x4", "x5", "x6", "x7"}
Ys == {"y0", "y1", "y2", "y3", "y4", "y5", "y6", "y7"}
COPY8_Data == Data([x \in Xs \cup Ys |-> N], [y \in Ys |-> N], Xs \cup Ys, 1)
COPY8_Body(i) == Body({<<x, i>> : x \in Xs}, {<<y, i>> : y \in Ys})
COPY8_Seq == <<SeqLoop("copy", Upto(0, N), COPY8_Body)>>
COPY8_OMP == <<OmpFor("copy", Upto(0, N), COPY8_Body)>>
COPY8_Target == <<OmpFor("copy", Upto(0, N), COPY8_Body)>>
COPY8_CUDA == <<Forall("copy", 0, N, COPY8_Body)>>
COPY8_HIP == <<Forall("copy", 0, N, COPY8_Body)>>

(* DAXPY: y[i] += a * x[i] *)
DAXPY_Data == Data([x |-> N, y |-> N], [y |-> N], {"x", "y"}, 1)
DAXPY_Body(i) == Body({<<"x", i>>, <<"y", i>>}, {<<"y", i>>})
DAXPY_Seq == <<SeqLoop("daxpy", Upto(0, N), DAXPY_Body)>>
DAXPY_OMP == <<OmpFor("daxpy", Upto(0, N), DAXPY_Body)>>
DAXPY_Target == <<OmpFor("daxpy", Upto(0, N), DAXPY_Body)>>
DAXPY_CUDA == <<Forall("daxpy", 0, N, DAXPY_Body)>>
DAXPY_HIP == <<Forall("daxpy", 0, N, DAXPY_Body)>>

(* DAXPY_ATOMIC: the same sum, atomic in every variant but Seq *)
DAXPY_ATOMIC_Data == Data([x |-> N, y |-> N], [y |-> N], {"x", "y"}, 1)
DAXPY_ATOMIC_Body(i) == Adds({<<"x", i>>}, {<<"y", i>>})
DAXPY_ATOMIC_Seq == <<SeqLoop("daxpy", Upto(0, N), DAXPY_ATOMIC_Body)>>
DAXPY_ATOMIC_OMP == <<OmpFor("daxpy", Upto(0, N), DAXPY_ATOMIC_Body)>>
DAXPY_ATOMIC_Target == <<OmpFor("daxpy", Upto(0, N), DAXPY_ATOMIC_Body)>>
DAXPY_ATOMIC_CUDA == <<Forall("daxpy", 0, N, DAXPY_ATOMIC_Body)>>
DAXPY_ATOMIC_HIP == <<Forall("daxpy", 0, N, DAXPY_ATOMIC_Body)>>

(* IF_QUAD: the roots x1, x2 of a quadratic; both branches write both *)
IF_QUAD_Data ==
    Data([x \in {"a", "b", "c", "x1", "x2"} |-> N], [x1 |-> N, x2 |-> N],
                 {"a", "b", "c", "x1", "x2"}, 1)
IF_QUAD_Body(i) == Body({<<"a", i>>, <<"b", i>>, <<"c", i>>}, {<<"x1", i>>, <<"x2", i>>})
IF_QUAD_Seq == <<SeqLoop("quad", Upto(0, N), IF_QUAD_Body)>>
IF_QUAD_OMP == <<OmpFor("quad", Upto(0, N), IF_QUAD_Body)>>
IF_QUAD_Target == <<OmpFor("quad", Upto(0, N), IF_QUAD_Body)>>
IF_QUAD_CUDA == <<Forall("quad", 0, N, IF_QUAD_Body)>>
IF_QUAD_HIP == <<Forall("quad", 0, N, IF_QUAD_Body)>>

(* INIT3: out1[i] = out2[i] = out3[i] = - in1[i] - in2[i] *)
INIT3_Data ==
    Data([x \in {"out1", "out2", "out3", "in1", "in2"} |-> N],
                 [out1 |-> N, out2 |-> N, out3 |-> N],
                 {"out1", "out2", "out3", "in1", "in2"}, 1)
INIT3_Body(i) ==
    Body({<<"in1", i>>, <<"in2", i>>}, {<<"out1", i>>, <<"out2", i>>, <<"out3", i>>})
INIT3_Seq == <<SeqLoop("init", Upto(0, N), INIT3_Body)>>
INIT3_OMP == <<OmpFor("init", Upto(0, N), INIT3_Body)>>
INIT3_Target == <<OmpFor("init", Upto(0, N), INIT3_Body)>>
INIT3_CUDA == <<Forall("init", 0, N, INIT3_Body)>>
INIT3_HIP == <<Forall("init", 0, N, INIT3_Body)>>

(* INIT_VIEW1D: a[i], through a view in the RAJA variants *)
INIT_VIEW1D_Data == [Data([a |-> N], [a |-> N], {"a"}, 1) EXCEPT !.members = {"v"}]
INIT_VIEW1D_Body(i) == Body({Var("v")}, {<<"a", i>>})
INIT_VIEW1D_Seq == <<SeqLoop("init", Upto(0, N), INIT_VIEW1D_Body)>>
INIT_VIEW1D_OMP == <<OmpFor("init", Upto(0, N), INIT_VIEW1D_Body)>>
INIT_VIEW1D_Target == <<OmpFor("init", Upto(0, N), INIT_VIEW1D_Body)>>
INIT_VIEW1D_CUDA == <<Forall("init", 0, N, INIT_VIEW1D_Body)>>
INIT_VIEW1D_HIP == <<Forall("init", 0, N, INIT_VIEW1D_Body)>>

(* INIT_VIEW1D_OFFSET: the indices 1 .. N, a[i - ibegin] *)
INIT_VIEW1D_OFFSET_Data == [Data([a |-> N], [a |-> N], {"a"}, 1) EXCEPT !.members = {"v"}]
INIT_VIEW1D_OFFSET_Body(i) == Body({Var("v")}, {<<"a", i - 1>>})
INIT_VIEW1D_OFFSET_Seq == <<SeqLoop("init", Upto(1, N + 1), INIT_VIEW1D_OFFSET_Body)>>
INIT_VIEW1D_OFFSET_OMP == <<OmpFor("init", Upto(1, N + 1), INIT_VIEW1D_OFFSET_Body)>>
INIT_VIEW1D_OFFSET_Target == <<OmpFor("init", Upto(1, N + 1), INIT_VIEW1D_OFFSET_Body)>>
INIT_VIEW1D_OFFSET_CUDA == <<Forall("init", 1, N + 1, INIT_VIEW1D_OFFSET_Body)>>
INIT_VIEW1D_OFFSET_HIP == <<Forall("init", 1, N + 1, INIT_VIEW1D_OFFSET_Body)>>

(* MULADDSUB: three results of in1[i] and in2[i] *)
MULADDSUB_Data ==
    Data([x \in {"out1", "out2", "out3", "in1", "in2"} |-> N],
                 [out1 |-> N, out2 |-> N, out3 |-> N],
                 {"out1", "out2", "out3", "in1", "in2"}, 1)
MULADDSUB_Body(i) ==
    Body({<<"in1", i>>, <<"in2", i>>}, {<<"out1", i>>, <<"out2", i>>, <<"out3", i>>})
MULADDSUB_Seq == <<SeqLoop("mas", Upto(0, N), MULADDSUB_Body)>>
MULADDSUB_OMP == <<OmpFor("mas", Upto(0, N), MULADDSUB_Body)>>
MULADDSUB_Target == <<OmpFor("mas", Upto(0, N), MULADDSUB_Body)>>
MULADDSUB_CUDA == <<Forall("mas", 0, N, MULADDSUB_Body)>>
MULADDSUB_HIP == <<Forall("mas", 0, N, MULADDSUB_Body)>>

(* NESTED_INIT: array[i + ni * (j + nj * k)].  OpenMP shares out the k (its
   collapse is switched off), a GPU has one block for every k in z. *)
NESTED_INIT_Data ==
    LET n == Side * Side * Side IN Data([array |-> n], [array |-> n], {"array"}, 1)
NESTED_INIT_Body(t) == Body({}, {<<"array", t[3] + Side * (t[2] + Side * t[1])>>})
NESTED_INIT_Seq == <<SeqLoop("init", Cube, NESTED_INIT_Body)>>
NESTED_INIT_OMP ==
    <<ParLoop("init", Upto(0, Side),
              LAMBDA k : Nest3(<<k>>, Upto(0, Side), Upto(0, Side)), NESTED_INIT_Body)>>
NESTED_INIT_Target == <<OmpFor("init", Cube, NESTED_INIT_Body)>>
NESTED_INIT_CUDA ==
    <<Grid3("init", Side, Side, Side, LAMBDA k, j, i : <<k, j, i>>, NESTED_INIT_Body)>>
NESTED_INIT_HIP ==
    <<Grid3("init", Side, Side, Side, LAMBDA k, j, i : <<k, j, i>>, NESTED_INIT_Body)>>

(* PI_ATOMIC: *pi += e under an atomic; pi is set before and read after the
   loop, on the device through the reducer copies *)
PI_ATOMIC_Data ==
    [Data(<<>>, <<>>, {}, 1) EXCEPT !.members = {"pi_init", "pi_final"}, !.locals = {Var("pi")}]
PI_ATOMIC_Body(i) == Adds({}, {Var("pi")})
PI_ATOMIC_Rep(loop) ==
    <<Host("set", Body({Var("pi_init")}, {Var("pi")})), loop,
      Host("get", Body({Var("pi")}, {Var("pi_final")}))>>
PI_ATOMIC_Seq == PI_ATOMIC_Rep(SeqLoop("pi", Upto(0, N), PI_ATOMIC_Body))
PI_ATOMIC_OMP == PI_ATOMIC_Rep(OmpFor("pi", Upto(0, N), PI_ATOMIC_Body))
PI_ATOMIC_Target == PI_ATOMIC_Rep(OmpFor("pi", Upto(0, N), PI_ATOMIC_Body))
PI_ATOMIC_CUDA == PI_ATOMIC_Rep(Forall("pi", 0, N, PI_ATOMIC_Body))
PI_ATOMIC_HIP == PI_ATOMIC_Rep(Forall("pi", 0, N, PI_ATOMIC_Body))

(* PI_REDUCE: the same sum as a reduction; on a GPU each block adds up its
   share in shared memory.  The identities the places start from are the members
   that setUp sets. *)
PI_REDUCE_Data ==
    [Data(<<>>, <<>>, {}, 1) EXCEPT !.members = {"pi_init", "m_pi"}, !.locals = {Var("pi")} \cup AllShared({"pi"})]
PI_REDUCE_Body(i) == Adds({}, {Var("pi")})
PI_REDUCE_Rep(loop) ==
    <<Host("set", Body({Var("pi_init")}, {Var("pi")})), loop,
      Host("get", Body({Var("pi")}, {Var("m_pi")}))>>
PI_REDUCE_Seq == PI_REDUCE_Rep(SeqLoop("pi", Upto(0, N), PI_REDUCE_Body))
PI_REDUCE_OMP == PI_REDUCE_Rep(OmpFor("pi", Upto(0, N), PI_REDUCE_Body))
PI_REDUCE_Target == PI_REDUCE_Rep(OmpFor("pi", Upto(0, N), PI_REDUCE_Body))
PI_REDUCE_CUDA == PI_REDUCE_Rep(GridReduce("pi", N, {"pi"}, LAMBDA i : {}))
PI_REDUCE_HIP == PI_REDUCE_Rep(GridReduce("pi", N, {"pi"}, LAMBDA i : {}))

(* REDUCE3_INT: sum, minimum and maximum of vec; the members accumulate over the
   repetitions *)
LOCAL Int3 == {Var("vsum"), Var("vmin"), Var("vmax")}
LOCAL MInt3 == {Var("m_vsum"), Var("m_vmin"), Var("m_vmax")}
REDUCE3_INT_Data ==
    [Data([vec |-> N], <<>>, {"vec"}, 1) EXCEPT
        !.members = {"m_vsum", "m_vmin", "m_vmax", "sum_init", "min_init", "max_init"},
        !.locals = Int3 \cup AllShared({"vsum", "vmin", "vmax"})]
REDUCE3_INT_Body(i) == Adds({<<"vec", i>>}, Int3)
REDUCE3_INT_Rep(loop) ==
    <<Host("set", Body({Var(v) : v \in {"sum_init", "min_init", "max_init"}}, Int3)), loop,
      Host("get", Body(Int3 \cup MInt3, MInt3))>>
REDUCE3_INT_Seq == REDUCE3_INT_Rep(SeqLoop("red", Upto(0, N), REDUCE3_INT_Body))
REDUCE3_INT_OMP == REDUCE3_INT_Rep(OmpFor("red", Upto(0, N), REDUCE3_INT_Body))
REDUCE3_INT_Target == REDUCE3_INT_Rep(OmpFor("red", Upto(0, N), REDUCE3_INT_Body))
REDUCE3_INT_CUDA ==
    REDUCE3_INT_Rep(GridReduce("red", N, {"vsum", "vmin", "vmax"}, LAMBDA i : {<<"vec", i>>}))
REDUCE3_INT_HIP ==
    REDUCE3_INT_Rep(GridReduce("red", N, {"vsum", "vmin", "vmax"}, LAMBDA i : {<<"vec", i>>}))

(* REDUCE_STRUCT: centre and bounds of the points (x[i], y[i]).  The CUDA kernel
   adds the partial sums of y to xsum (REDUCE_STRUCT-Cuda.cpp:95); HIP does not. *)
LOCAL XSums == {Var("xsum"), Var("xmin"), Var("xmax")}
LOCAL YSums == {Var("ysum"), Var("ymin"), Var("ymax")}
LOCAL Sums6 == {"xsum", "xmin", "xmax", "ysum", "ymin", "ymax"}
REDUCE_STRUCT_Data ==
    [Data([x |-> N, y |-> N], <<>>, {"x", "y"}, 1) EXCEPT
        !.members = {"m_points", "init_sum", "init_min", "init_max"},
        !.locals = XSums \cup YSums \cup AllShared(Sums6)]
REDUCE_STRUCT_Body(i) == Adds({<<"x", i>>, <<"y", i>>}, XSums \cup YSums)
REDUCE_STRUCT_Rep(loop) ==
    <<Host("set", Body({Var("init_sum"), Var("init_min"), Var("init_max")}, XSums \cup YSums)), loop,
      Host("get", Body(XSums \cup YSums, {Var("m_points")}))>>
REDUCE_STRUCT_Seq == REDUCE_STRUCT_Rep(SeqLoop("red", Upto(0, N), REDUCE_STRUCT_Body))
REDUCE_STRUCT_OMP == REDUCE_STRUCT_Rep(OmpFor("red", Upto(0, N), REDUCE_STRUCT_Body))
REDUCE_STRUCT_Target == REDUCE_STRUCT_Rep(OmpFor("red", Upto(0, N), REDUCE_STRUCT_Body))
REDUCE_STRUCT_CUDA ==
    LET Out(s, b) == AtomicAdd(Var(IF s = "ysum" THEN "xsum" ELSE s), Shared(s, b, 0))
    IN  REDUCE_STRUCT_Rep(GridReduceBy("red", N, Sums6, LAMBDA i : {<<"x", i>>, <<"y", i>>}, Out))
REDUCE_STRUCT_HIP ==
    REDUCE_STRUCT_Rep(GridReduce("red", N, Sums6, LAMBDA i : {<<"x", i>>, <<"y", i>>}))

(* TRAP_INT: a sum of values of a function; m_sumx accumulates over the repetitions *)
TRAP_INT_Data ==
    [Data(<<>>, <<>>, {}, 1) EXCEPT
        !.members = {"x0", "h", "m_sumx", "sumx_init"}, !.locals = {Var("sumx")} \cup AllShared({"sumx"})]
TRAP_INT_Body(i) == Adds({Var("x0"), Var("h")}, {Var("sumx")})
TRAP_INT_Rep(loop) ==
    <<Host("set", Body({Var("sumx_init")}, {Var("sumx")})), loop,
      Host("get", Body({Var("sumx"), Var("m_sumx"), Var("h")}, {Var("m_sumx")}))>>
TRAP_INT_Seq == TRAP_INT_Rep(SeqLoop("trap", Upto(0, N), TRAP_INT_Body))
TRAP_INT_OMP == TRAP_INT_Rep(OmpFor("trap", Upto(0, N), TRAP_INT_Body))
TRAP_INT_Target == TRAP_INT_Rep(OmpFor("trap", Upto(0, N), TRAP_INT_Body))
TRAP_INT_CUDA == TRAP_INT_Rep(GridReduce("trap", N, {"sumx"}, LAMBDA i : {Var("x0"), Var("h")}))
TRAP_INT_HIP == TRAP_INT_Rep(GridReduce("trap", N, {"sumx"}, LAMBDA i : {Var("x0"), Var("h")}))

(* MAT_MAT_SHARED: C = A * B by tiles.  A block (by, bx) keeps one tile of A, B
   and C in shared memory; ph counts the __syncthreads (teamSync) before a job.
   TL_SZ is a tile of TileX by TileX. *)
LOCAL M == Greatest(Sqrt(Target2), 1)               \* m_N
LOCAL T == TileX
LOCAL Tiles == DivideCeiling(M, T)                  \* Nx, Ny, and the tiles of k
LOCAL Tile == Nest2(Upto(0, T), Upto(0, T))         \* <<ty, tx>>
LOCAL Sh(x, b, ty, tx) == <<x, <<b, ty, tx>>>>      \* x[ty][tx] of block b
MAT_MAT_SHARED_Data ==
    [Data([A |-> M * M, B |-> M * M, C |-> M * M], [C |-> M * M], {"A", "B", "C"}, 1) EXCEPT
        !.locals = {Sh(x, <<by, bx>>, ty, tx) : x \in {"As", "Bs", "Cs"}, by \in 0 .. Tiles - 1,
                        bx \in 0 .. Tiles - 1, ty \in 0 .. T - 1, tx \in 0 .. T - 1}]
MAT_MAT_SHARED_Zero(b, t) == Body({}, {Sh("Cs", b, t[1], t[2])})                  \* BODY_1
MAT_MAT_SHARED_Load(b, k, t) ==                                                  \* BODY_2
    LET ty == t[1]  tx == t[2]  Row == b[1] * T + ty  Col == b[2] * T + tx
    IN  Body((IF k * T + tx < M /\ Row < M THEN {<<"A", Row * M + k * T + tx>>} ELSE {}) \cup
             (IF k * T + ty < M /\ Col < M THEN {<<"B", (k * T + ty) * M + Col>>} ELSE {}),
             {Sh("As", b, ty, tx), Sh("Bs", b, ty, tx)})
MAT_MAT_SHARED_Multiply(b, t) ==                                                 \* BODY_3
    LET n == 0 .. T - 1
    IN  Body({Sh("As", b, t[1], i) : i \in n} \cup {Sh("Bs", b, i, t[2]) : i \in n}
                 \cup {Sh("Cs", b, t[1], t[2])},
             {Sh("Cs", b, t[1], t[2])})
MAT_MAT_SHARED_Store(b, t) ==                                                    \* BODY_4
    LET Row == b[1] * T + t[1]  Col == b[2] * T + t[2]
    IN  Body({Sh("Cs", b, t[1], t[2])},
             IF Row < M /\ Col < M THEN {<<"C", Col + M * Row>>} ELSE {})

\* What block b executes, the threads of a phase in the order of their indices.
MAT_MAT_SHARED_Block(b) ==
    LET All(name, k, ph, B(_)) ==
            [n \in DOMAIN Tile |-> Job(name, <<b, k, Tile[n]>>, B(Tile[n]), ph, Tile[n])]
    IN  All("zero", 0, 0, LAMBDA t : MAT_MAT_SHARED_Zero(b, t))
        \o FlattenSeq([k \in 1 .. Tiles |->
               All("load", k - 1, 2 * (k - 1), LAMBDA t : MAT_MAT_SHARED_Load(b, k - 1, t))
               \o All("multiply", k - 1, 2 * k - 1, LAMBDA t : MAT_MAT_SHARED_Multiply(b, t))])
        \o All("store", 0, 2 * Tiles, LAMBDA t : MAT_MAT_SHARED_Store(b, t))
LOCAL Blocks == Nest2(Upto(0, Tiles), Upto(0, Tiles))
MAT_MAT_SHARED_Seq ==
    <<Launch(<<FlattenSeq([n \in DOMAIN Blocks |-> MAT_MAT_SHARED_Block(Blocks[n])])>>)>>
MAT_MAT_SHARED_OMP ==
    <<Launch([y \in 1 .. Tiles |->
        FlattenSeq([x \in 1 .. Tiles |-> MAT_MAT_SHARED_Block(<<y - 1, x - 1>>)])])>>
MAT_MAT_SHARED_CUDA == <<Launch([n \in DOMAIN Blocks |-> MAT_MAT_SHARED_Block(Blocks[n])])>>
MAT_MAT_SHARED_HIP == <<Launch([n \in DOMAIN Blocks |-> MAT_MAT_SHARED_Block(Blocks[n])])>>

-----------------------------------------------------------------------------
\* The kernels of the group, and the variants each defines.
BasicCatalog ==
    [ARRAY_OF_PTRS |->
         [data |-> ARRAY_OF_PTRS_Data,
          Seq |-> ARRAY_OF_PTRS_Seq,
          OpenMP |-> ARRAY_OF_PTRS_OMP,
          OpenMPTarget |-> ARRAY_OF_PTRS_Target,
          CUDA |-> ARRAY_OF_PTRS_CUDA,
          HIP |-> ARRAY_OF_PTRS_HIP],
     COPY8 |->
         [data |-> COPY8_Data,
          Seq |-> COPY8_Seq,
          OpenMP |-> COPY8_OMP,
          OpenMPTarget |-> COPY8_Target,
          CUDA |-> COPY8_CUDA,
          HIP |-> COPY8_HIP],
     DAXPY |->
         [data |-> DAXPY_Data,
          Seq |-> DAXPY_Seq,
          OpenMP |-> DAXPY_OMP,
          OpenMPTarget |-> DAXPY_Target,
          CUDA |-> DAXPY_CUDA,
          HIP |-> DAXPY_HIP],
     DAXPY_ATOMIC |->
         [data |-> DAXPY_ATOMIC_Data,
          Seq |-> DAXPY_ATOMIC_Seq,
          OpenMP |-> DAXPY_ATOMIC_OMP,
          OpenMPTarget |-> DAXPY_ATOMIC_Target,
          CUDA |-> DAXPY_ATOMIC_CUDA,
          HIP |-> DAXPY_ATOMIC_HIP],
     IF_QUAD |->
         [data |-> IF_QUAD_Data,
          Seq |-> IF_QUAD_Seq,
          OpenMP |-> IF_QUAD_OMP,
          OpenMPTarget |-> IF_QUAD_Target,
          CUDA |-> IF_QUAD_CUDA,
          HIP |-> IF_QUAD_HIP],
     INIT3 |->
         [data |-> INIT3_Data,
          Seq |-> INIT3_Seq,
          OpenMP |-> INIT3_OMP,
          OpenMPTarget |-> INIT3_Target,
          CUDA |-> INIT3_CUDA,
          HIP |-> INIT3_HIP],
     INIT_VIEW1D |->
         [data |-> INIT_VIEW1D_Data,
          Seq |-> INIT_VIEW1D_Seq,
          OpenMP |-> INIT_VIEW1D_OMP,
          OpenMPTarget |-> INIT_VIEW1D_Target,
          CUDA |-> INIT_VIEW1D_CUDA,
          HIP |-> INIT_VIEW1D_HIP],
     INIT_VIEW1D_OFFSET |->
         [data |-> INIT_VIEW1D_OFFSET_Data,
          Seq |-> INIT_VIEW1D_OFFSET_Seq,
          OpenMP |-> INIT_VIEW1D_OFFSET_OMP,
          OpenMPTarget |-> INIT_VIEW1D_OFFSET_Target,
          CUDA |-> INIT_VIEW1D_OFFSET_CUDA,
          HIP |-> INIT_VIEW1D_OFFSET_HIP],
     MULADDSUB |->
         [data |-> MULADDSUB_Data,
          Seq |-> MULADDSUB_Seq,
          OpenMP |-> MULADDSUB_OMP,
          OpenMPTarget |-> MULADDSUB_Target,
          CUDA |-> MULADDSUB_CUDA,
          HIP |-> MULADDSUB_HIP],
     NESTED_INIT |->
         [data |-> NESTED_INIT_Data,
          Seq |-> NESTED_INIT_Seq,
          OpenMP |-> NESTED_INIT_OMP,
          OpenMPTarget |-> NESTED_INIT_Target,
          CUDA |-> NESTED_INIT_CUDA,
          HIP |-> NESTED_INIT_HIP],
     PI_ATOMIC |->
         [data |-> PI_ATOMIC_Data,
          Seq |-> PI_ATOMIC_Seq,
          OpenMP |-> PI_ATOMIC_OMP,
          OpenMPTarget |-> PI_ATOMIC_Target,
          CUDA |-> PI_ATOMIC_CUDA,
          HIP |-> PI_ATOMIC_HIP],
     PI_REDUCE |->
         [data |-> PI_REDUCE_Data,
          Seq |-> PI_REDUCE_Seq,
          OpenMP |-> PI_REDUCE_OMP,
          OpenMPTarget |-> PI_REDUCE_Target,
          CUDA |-> PI_REDUCE_CUDA,
          HIP |-> PI_REDUCE_HIP],
     REDUCE3_INT |->
         [data |-> REDUCE3_INT_Data,
          Seq |-> REDUCE3_INT_Seq,
          OpenMP |-> REDUCE3_INT_OMP,
          OpenMPTarget |-> REDUCE3_INT_Target,
          CUDA |-> REDUCE3_INT_CUDA,
          HIP |-> REDUCE3_INT_HIP],
     REDUCE_STRUCT |->
         [data |-> REDUCE_STRUCT_Data,
          Seq |-> REDUCE_STRUCT_Seq,
          OpenMP |-> REDUCE_STRUCT_OMP,
          OpenMPTarget |-> REDUCE_STRUCT_Target,
          CUDA |-> REDUCE_STRUCT_CUDA,
          HIP |-> REDUCE_STRUCT_HIP],
     TRAP_INT |->
         [data |-> TRAP_INT_Data,
          Seq |-> TRAP_INT_Seq,
          OpenMP |-> TRAP_INT_OMP,
          OpenMPTarget |-> TRAP_INT_Target,
          CUDA |-> TRAP_INT_CUDA,
          HIP |-> TRAP_INT_HIP],
     MAT_MAT_SHARED |->
         [data |-> MAT_MAT_SHARED_Data,
          Seq |-> MAT_MAT_SHARED_Seq,
          OpenMP |-> MAT_MAT_SHARED_OMP,
          CUDA |-> MAT_MAT_SHARED_CUDA,
          HIP |-> MAT_MAT_SHARED_HIP]]
=============================================================================
