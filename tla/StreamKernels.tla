---------------------------- MODULE StreamKernels ----------------------------
(***************************************************************************)
(* The kernels of the Stream group (src/stream), laid out as in            *)
(* BasicKernels.                                                           *)
(***************************************************************************)
EXTENDS KernelLoops

LOCAL N == Target1

(* ADD: c[i] = a[i] + b[i] *)
ADD_Data == Data([a |-> N, b |-> N, c |-> N], [c |-> N], {"a", "b", "c"}, 1)
ADD_Body(i) == Body({<<"a", i>>, <<"b", i>>}, {<<"c", i>>})
ADD_Seq == <<SeqLoop("add", Upto(0, N), ADD_Body)>>
ADD_OMP == <<OmpFor("add", Upto(0, N), ADD_Body)>>
ADD_Target == <<OmpFor("add", Upto(0, N), ADD_Body)>>
ADD_CUDA == <<Forall("add", 0, N, ADD_Body)>>
ADD_HIP == <<Forall("add", 0, N, ADD_Body)>>

(* COPY: c[i] = a[i] *)
COPY_Data == Data([a |-> N, c |-> N], [c |-> N], {"a", "c"}, 1)
COPY_Body(i) == Body({<<"a", i>>}, {<<"c", i>>})
COPY_Seq == <<SeqLoop("copy", Upto(0, N), COPY_Body)>>
COPY_OMP == <<OmpFor("copy", Upto(0, N), COPY_Body)>>
COPY_Target == <<OmpFor("copy", Upto(0, N), COPY_Body)>>
COPY_CUDA == <<Forall("copy", 0, N, COPY_Body)>>
COPY_HIP == <<Forall("copy", 0, N, COPY_Body)>>

(* DOT: the sum of a[i] * b[i]; m_dot accumulates over the repetitions *)
DOT_Data ==
    [Data([a |-> N, b |-> N], <<>>, {"a", "b"}, 1) EXCEPT
        !.members = {"m_dot", "dot_init"}, !.locals = {Var("dot")} \cup AllShared({"dot"})]
DOT_Body(i) == Adds({<<"a", i>>, <<"b", i>>}, {Var("dot")})
DOT_Rep(loop) ==
    <<Host("set", Body({Var("dot_init")}, {Var("dot")})), loop,
      Host("get", Body({Var("dot"), Var("m_dot")}, {Var("m_dot")}))>>
DOT_Seq == DOT_Rep(SeqLoop("dot", Upto(0, N), DOT_Body))
DOT_OMP == DOT_Rep(OmpFor("dot", Upto(0, N), DOT_Body))
DOT_Target == DOT_Rep(OmpFor("dot", Upto(0, N), DOT_Body))
DOT_CUDA == DOT_Rep(GridReduce("dot", N, {"dot"}, LAMBDA i : {<<"a", i>>, <<"b", i>>}))
DOT_HIP == DOT_Rep(GridReduce("dot", N, {"dot"}, LAMBDA i : {<<"a", i>>, <<"b", i>>}))

(* MUL: b[i] = alpha * c[i] *)
MUL_Data == [Data([b |-> N, c |-> N], [b |-> N], {"b", "c"}, 1) EXCEPT !.members = {"alpha"}]
MUL_Body(i) == Body({Var("alpha"), <<"c", i>>}, {<<"b", i>>})
MUL_Seq == <<SeqLoop("mul", Upto(0, N), MUL_Body)>>
MUL_OMP == <<OmpFor("mul", Upto(0, N), MUL_Body)>>
MUL_Target == <<OmpFor("mul", Upto(0, N), MUL_Body)>>
MUL_CUDA == <<Forall("mul", 0, N, MUL_Body)>>
MUL_HIP == <<Forall("mul", 0, N, MUL_Body)>>

(* TRIAD: a[i] = b[i] + alpha * c[i] *)
TRIAD_Data ==
    [Data([a |-> N, b |-> N, c |-> N], [a |-> N], {"a", "b", "c"}, 1) EXCEPT !.members = {"alpha"}]
TRIAD_Body(i) == Body({Var("alpha"), <<"b", i>>, <<"c", i>>}, {<<"a", i>>})
TRIAD_Seq == <<SeqLoop("triad", Upto(0, N), TRIAD_Body)>>
TRIAD_OMP == <<OmpFor("triad", Upto(0, N), TRIAD_Body)>>
TRIAD_Target == <<OmpFor("triad", Upto(0, N), TRIAD_Body)>>
TRIAD_CUDA == <<Forall("triad", 0, N, TRIAD_Body)>>
TRIAD_HIP == <<Forall("triad", 0, N, TRIAD_Body)>>

-----------------------------------------------------------------------------
\* The kernels of the group, and the variants each defines.
StreamCatalog ==
    [ADD |->
         [data |-> ADD_Data,
          Seq |-> ADD_Seq,
          OpenMP |-> ADD_OMP,
          OpenMPTarget |-> ADD_Target,
          CUDA |-> ADD_CUDA,
          HIP |-> ADD_HIP],
     COPY |->
         [data |-> COPY_Data,
          Seq |-> COPY_Seq,
          OpenMP |-> COPY_OMP,
          OpenMPTarget |-> COPY_Target,
          CUDA |-> COPY_CUDA,
          HIP |-> COPY_HIP],
     DOT |->
         [data |-> DOT_Data,
          Seq |-> DOT_Seq,
          OpenMP |-> DOT_OMP,
          OpenMPTarget |-> DOT_Target,
          CUDA |-> DOT_CUDA,
          HIP |-> DOT_HIP],
     MUL |->
         [data |-> MUL_Data,
          Seq |-> MUL_Seq,
          OpenMP |-> MUL_OMP,
          OpenMPTarget |-> MUL_Target,
          CUDA |-> MUL_CUDA,
          HIP |-> MUL_HIP],
     TRIAD |->
         [data |-> TRIAD_Data,
          Seq |-> TRIAD_Seq,
          OpenMP |-> TRIAD_OMP,
          OpenMPTarget |-> TRIAD_Target,
          CUDA |-> TRIAD_CUDA,
          HIP |-> TRIAD_HIP]]
=============================================================================
