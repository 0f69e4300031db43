---------------------------- MODULE AlgorithmKernels ----------------------------
(***************************************************************************)
(* The kernels of the Algorithm group (src/algorithm) that are one loop,   *)
(* laid out as in BasicKernels.  Their library tunings (memcpy, memset,    *)
(* cub and rocprim) do what the loop does.  SCAN is in ScanKernels.     *)
(***************************************************************************)
EXTENDS KernelLoops

LOCAL N == Target1

(* MEMCPY: y[i] = x[i] *)
MEMCPY_Data == Data([x |-> N, y |-> N], [y |-> N], {"x", "y"}, 1)
MEMCPY_Body(i) == Body({<<"x", i>>}, {<<"y", i>>})
MEMCPY_Seq == <<SeqLoop("copy", Upto(0, N), MEMCPY_Body)>>
MEMCPY_OMP == <<OmpFor("copy", Upto(0, N), MEMCPY_Body)>>
MEMCPY_Target == <<OmpFor("copy", Upto(0, N), MEMCPY_Body)>>
MEMCPY_CUDA == <<Forall("copy", 0, N, MEMCPY_Body)>>
MEMCPY_HIP == <<Forall("copy", 0, N, MEMCPY_Body)>>

(* MEMSET: x[i] = val *)
MEMSET_Data == [Data([x |-> N], [x |-> N], {"x"}, 1) EXCEPT !.members = {"val"}]
MEMSET_Body(i) == Body({Var("val")}, {<<"x", i>>})
MEMSET_Seq == <<SeqLoop("set", Upto(0, N), MEMSET_Body)>>
MEMSET_OMP == <<OmpFor("set", Upto(0, N), MEMSET_Body)>>
MEMSET_Target == <<OmpFor("set", Upto(0, N), MEMSET_Body)>>
MEMSET_CUDA == <<Forall("set", 0, N, MEMSET_Body)>>
MEMSET_HIP == <<Forall("set", 0, N, MEMSET_Body)>>

(* REDUCE_SUM: the sum of x, the checksum of one value at &m_sum *)
REDUCE_SUM_Data ==
    [Data([x |-> N], <<>>, {"x"}, 1) EXCEPT
        !.members = {"m_sum", "sum_init"}, !.locals = {Var("sum")} \cup AllShared({"sum"})]
REDUCE_SUM_Body(i) == Adds({<<"x", i>>}, {Var("sum")})
REDUCE_SUM_Rep(loop) ==
    <<Host("set", Body({Var("sum_init")}, {Var("sum")})), loop,
      Host("get", Body({Var("sum")}, {Var("m_sum")}))>>
REDUCE_SUM_Seq == REDUCE_SUM_Rep(SeqLoop("sum", Upto(0, N), REDUCE_SUM_Body))
REDUCE_SUM_OMP == REDUCE_SUM_Rep(OmpFor("sum", Upto(0, N), REDUCE_SUM_Body))
REDUCE_SUM_Target == REDUCE_SUM_Rep(OmpFor("sum", Upto(0, N), REDUCE_SUM_Body))
REDUCE_SUM_CUDA == REDUCE_SUM_Rep(GridReduce("sum", N, {"sum"}, LAMBDA i : {<<"x", i>>}))
REDUCE_SUM_HIP == REDUCE_SUM_Rep(GridReduce("sum", N, {"sum"}, LAMBDA i : {<<"x", i>>}))

-----------------------------------------------------------------------------
\* The kernels of the group that are one loop, and the variants each defines.
AlgorithmCatalog ==
    [MEMCPY |->
         [data |-> MEMCPY_Data,
          Seq |-> MEMCPY_Seq,
          OpenMP |-> MEMCPY_OMP,
          OpenMPTarget |-> MEMCPY_Target,
          CUDA |-> MEMCPY_CUDA,
          HIP |-> MEMCPY_HIP],
     MEMSET |->
         [data |-> MEMSET_Data,
          Seq |-> MEMSET_Seq,
          OpenMP |-> MEMSET_OMP,
          OpenMPTarget |-> MEMSET_Target,
          CUDA |-> MEMSET_CUDA,
          HIP |-> MEMSET_HIP],
     REDUCE_SUM |->
         [data |-> REDUCE_SUM_Data,
          Seq |-> REDUCE_SUM_Seq,
          OpenMP |-> REDUCE_SUM_OMP,
          OpenMPTarget |-> REDUCE_SUM_Target,
          CUDA |-> REDUCE_SUM_CUDA,
          HIP |-> REDUCE_SUM_HIP]]
=============================================================================
