---------------------------- MODULE LcalsKernels ----------------------------
(***************************************************************************)
(* The kernels of the Lcals group (src/lcals), laid out as in BasicKernels.*)
(***************************************************************************)
EXTENDS KernelLoops

LOCAL N == Target1

(* DIFF_PREDICT: differences of 14 planes of length offset = N in px and cx *)
DIFF_PREDICT_Data == Data([px |-> 14 * N, cx |-> 14 * N], [px |-> 14 * N], {"px", "cx"}, 1)
DIFF_PREDICT_Body(i) ==
    Body({<<"cx", i + N * 4>>} \cup At("px", {i + N * p : p \in 4 .. 12}),
                 At("px", {i + N * p : p \in 4 .. 13}))
DIFF_PREDICT_Seq == <<SeqLoop("diff", Upto(0, N), DIFF_PREDICT_Body)>>
DIFF_PREDICT_OMP == <<OmpFor("diff", Upto(0, N), DIFF_PREDICT_Body)>>
DIFF_PREDICT_Target == <<OmpFor("diff", Upto(0, N), DIFF_PREDICT_Body)>>
DIFF_PREDICT_CUDA == <<Forall("diff", 0, N, DIFF_PREDICT_Body)>>
DIFF_PREDICT_HIP == <<Forall("diff", 0, N, DIFF_PREDICT_Body)>>

(* EOS: equation of state; u is read up to i + 6, so the arrays have N + 7 cells *)
EOS_Data ==
    [Data([a \in {"x", "y", "z", "u"} |-> N + 7], [x |-> N], {"x", "y", "z", "u"}, 1) EXCEPT
        !.members = {"q", "r", "t"}]
EOS_Body(i) ==
    Body({Var("q"), Var("r"), Var("t"), <<"z", i>>, <<"y", i>>} \cup At("u", i .. i + 6),
                 {<<"x", i>>})
EOS_Seq == <<SeqLoop("eos", Upto(0, N), EOS_Body)>>
EOS_OMP == <<OmpFor("eos", Upto(0, N), EOS_Body)>>
EOS_Target == <<OmpFor("eos", Upto(0, N), EOS_Body)>>
EOS_CUDA == <<Forall("eos", 0, N, EOS_Body)>>
EOS_HIP == <<Forall("eos", 0, N, EOS_Body)>>

(* FIRST_DIFF: x[i] = y[i+1] - y[i] *)
FIRST_DIFF_Data == Data([x |-> N + 1, y |-> N + 1], [x |-> N], {"x", "y"}, 1)
FIRST_DIFF_Body(i) == Body(At("y", {i, i + 1}), {<<"x", i>>})
FIRST_DIFF_Seq == <<SeqLoop("diff", Upto(0, N), FIRST_DIFF_Body)>>
FIRST_DIFF_OMP == <<OmpFor("diff", Upto(0, N), FIRST_DIFF_Body)>>
FIRST_DIFF_Target == <<OmpFor("diff", Upto(0, N), FIRST_DIFF_Body)>>
FIRST_DIFF_CUDA == <<Forall("diff", 0, N, FIRST_DIFF_Body)>>
FIRST_DIFF_HIP == <<Forall("diff", 0, N, FIRST_DIFF_Body)>>

(* FIRST_MIN: value and place of the first minimum.  mymin is private to a
   thread and combined under the reduction; a GPU block leaves its minimum in
   dminloc, and the host takes the least of them. *)
FIRST_MIN_Data ==
    [Data([x |-> N], <<>>, {"x"}, 1) EXCEPT
        !.members = {"xmin_init", "initloc", "minloc"},
        !.locals = {Var("mymin")} \cup At("dminloc", 0 .. MaxBlocks - 1) \cup AllShared({"minloc"})]
FIRST_MIN_Body(i) == Adds({<<"x", i>>}, {Var("mymin")})
FIRST_MIN_Rep(loop) ==
    <<Host("set", Body({Var("xmin_init"), Var("initloc")}, {Var("mymin")})), loop,
      Host("get", Body({Var("mymin")}, {Var("minloc")}))>>
FIRST_MIN_Seq == FIRST_MIN_Rep(SeqLoop("min", Upto(0, N), FIRST_MIN_Body))
FIRST_MIN_OMP == FIRST_MIN_Rep(OmpFor("min", Upto(0, N), FIRST_MIN_Body))
FIRST_MIN_Target == FIRST_MIN_Rep(OmpFor("min", Upto(0, N), FIRST_MIN_Body))
FIRST_MIN_CUDA ==
    <<Host("set", Body({Var("xmin_init"), Var("initloc")},
                           {Var("mymin")} \cup At("dminloc", 0 .. GridSize(N) - 1))),
      GridReduceBy("min", N, {"minloc"}, LAMBDA i : {<<"x", i>>},
                   LAMBDA s, b : Take(<<"dminloc", b>>, Shared(s, b, 0))),
      HostLoop("pick", Upto(0, GridSize(N)), LAMBDA b : AddTo(Var("mymin"), <<"dminloc", b>>)),
      Host("get", Body({Var("mymin")}, {Var("minloc")}))>>
FIRST_MIN_HIP ==
    <<Host("set", Body({Var("xmin_init"), Var("initloc")},
                           {Var("mymin")} \cup At("dminloc", 0 .. GridSize(N) - 1))),
      GridReduceBy("min", N, {"minloc"}, LAMBDA i : {<<"x", i>>},
                   LAMBDA s, b : Take(<<"dminloc", b>>, Shared(s, b, 0))),
      HostLoop("pick", Upto(0, GridSize(N)), LAMBDA b : AddTo(Var("mymin"), <<"dminloc", b>>)),
      Host("get", Body({Var("mymin")}, {Var("minloc")}))>>

(* FIRST_SUM: x[i] = y[i-1] + y[i] from 1 on.  x[0] keeps its initial value. *)
FIRST_SUM_Data == Data([x |-> N, y |-> N], [x |-> N], {"x", "y"}, 1)
FIRST_SUM_Body(i) == Body(At("y", {i - 1, i}), {<<"x", i>>})
FIRST_SUM_Seq == <<SeqLoop("sum", Upto(1, N), FIRST_SUM_Body)>>
FIRST_SUM_OMP == <<OmpFor("sum", Upto(1, N), FIRST_SUM_Body)>>
FIRST_SUM_Target == <<OmpFor("sum", Upto(1, N), FIRST_SUM_Body)>>
FIRST_SUM_CUDA == <<ForallGuarded("sum", N, 1, N, FIRST_SUM_Body)>>
FIRST_SUM_HIP == <<ForallGuarded("sum", N, 1, N, FIRST_SUM_Body)>>

(* GEN_LIN_RECUR: two loops over b5 and stb5, the second one backwards, with
   k = N - i for i in 1 .. N.  kb5i is 0. *)
GEN_LIN_RECUR_Data ==
    [Data([x \in {"b5", "stb5", "sa", "sb"} |-> N], [b5 |-> N], {"b5", "stb5", "sa", "sb"}, 2) EXCEPT
        !.members = {"kb5i"}]
GEN_LIN_RECUR_Body(k) ==
    Body({Var("kb5i"), <<"sa", k>>, <<"stb5", k>>, <<"sb", k>>}, {<<"b5", k>>, <<"stb5", k>>})
LOCAL GEN_LIN_RECUR_Body2(i) == GEN_LIN_RECUR_Body(N - i)
GEN_LIN_RECUR_Seq ==
    <<SeqLoop("recur1", Upto(0, N), GEN_LIN_RECUR_Body),
      SeqLoop("recur2", Upto(1, N + 1), GEN_LIN_RECUR_Body2)>>
GEN_LIN_RECUR_OMP ==
    <<OmpFor("recur1", Upto(0, N), GEN_LIN_RECUR_Body),
      OmpFor("recur2", Upto(1, N + 1), GEN_LIN_RECUR_Body2)>>
GEN_LIN_RECUR_Target == GEN_LIN_RECUR_OMP
GEN_LIN_RECUR_CUDA ==
    <<Forall("recur1", 0, N, GEN_LIN_RECUR_Body),
      ForallGuarded("recur2", N + 1, 1, N + 1, GEN_LIN_RECUR_Body2)>>
GEN_LIN_RECUR_HIP ==
    <<Forall("recur1", 0, N, GEN_LIN_RECUR_Body),
      ForallGuarded("recur2", N + 1, 1, N + 1, GEN_LIN_RECUR_Body2)>>

(* HYDRO_1D: z is read up to i + 11 *)
HYDRO_1D_Data ==
    [Data([a \in {"x", "y", "z"} |-> N + 12], [x |-> N], {"x", "y", "z"}, 1) EXCEPT
        !.members = {"q", "r", "t"}]
HYDRO_1D_Body(i) ==
    Body({Var("q"), Var("r"), Var("t"), <<"y", i>>} \cup At("z", {i + 10, i + 11}), {<<"x", i>>})
HYDRO_1D_Seq == <<SeqLoop("hydro", Upto(0, N), HYDRO_1D_Body)>>
HYDRO_1D_OMP == <<OmpFor("hydro", Upto(0, N), HYDRO_1D_Body)>>
HYDRO_1D_Target == <<OmpFor("hydro", Upto(0, N), HYDRO_1D_Body)>>
HYDRO_1D_CUDA == <<Forall("hydro", 0, N, HYDRO_1D_Body)>>
HYDRO_1D_HIP == <<Forall("hydro", 0, N, HYDRO_1D_Body)>>

(* HYDRO_2D: three loops over the interior of kn by jn grids.  The second reads
   rows k and k + 1 of what the first wrote.  The OpenMP variants run the loops
   in one parallel region, without a barrier between them. *)
LOCAL jn == Sqrt(Target2)
LOCAL kn == jn
LOCAL Interior == Nest2(Upto(1, kn - 1), Upto(1, jn - 1))       \* <<k, j>>
LOCAL G(x, k, j) == <<x, j + k * jn>>
LOCAL HydroArrays == {"zrout", "zzout", "za", "zb", "zm", "zp", "zq", "zr", "zu", "zv", "zz"}
HYDRO_2D_Data ==
    [Data([x \in HydroArrays |-> jn * kn], [zzout |-> jn * kn, zrout |-> jn * kn],
          HydroArrays, 3) EXCEPT !.members = {"s", "t"}]
HYDRO_2D_Body1(t) ==
    LET k == t[1]  j == t[2]
    IN  Body({G(x, r, c) : x \in {"zp", "zq"}, r \in {k, k + 1}, c \in {j - 1}}
                 \cup {G("zp", k, j), G("zq", k, j), G("zr", k, j), G("zr", k, j - 1),
                       G("zr", k - 1, j), G("zm", k, j - 1), G("zm", k + 1, j - 1), G("zm", k, j)},
             {G("za", k, j), G("zb", k, j)})
HYDRO_2D_Body2(t) ==
    LET k == t[1]  j == t[2]
    IN  Body({Var("s"), G("zu", k, j), G("zv", k, j), G("za", k, j), G("za", k, j - 1),
              G("zb", k, j), G("zb", k + 1, j)}
                 \cup {G(x, k + d, j) : x \in {"zz", "zr"}, d \in {-1, 0, 1}}
                 \cup {G(x, k, j + d) : x \in {"zz", "zr"}, d \in {-1, 1}},
             {G("zu", k, j), G("zv", k, j)})
HYDRO_2D_Body3(t) ==
    LET k == t[1]  j == t[2]
    IN  Body({Var("t"), G("zr", k, j), G("zz", k, j), G("zu", k, j), G("zv", k, j)},
             {G("zrout", k, j), G("zzout", k, j)})
HYDRO_2D_Seq ==
    <<SeqLoop("h1", Interior, HYDRO_2D_Body1), SeqLoop("h2", Interior, HYDRO_2D_Body2),
      SeqLoop("h3", Interior, HYDRO_2D_Body3)>>
HYDRO_2D_OMP ==
    LET Rows(loop, B(_)) ==
            Iterations(loop, Upto(1, kn - 1), LAMBDA k : Nest2(<<k>>, Upto(1, jn - 1)), B)
    IN  <<NowaitLoops(<<Rows("h1", HYDRO_2D_Body1), Rows("h2", HYDRO_2D_Body2),
                        Rows("h3", HYDRO_2D_Body3)>>)>>
HYDRO_2D_Target ==
    <<OmpFor("h1", Interior, HYDRO_2D_Body1), OmpFor("h2", Interior, HYDRO_2D_Body2),
      OmpFor("h3", Interior, HYDRO_2D_Body3)>>
HYDRO_2D_CUDA ==
    LET Over(loop, B(_)) == Grid2(loop, kn - 2, jn - 2, LAMBDA y, x : <<1 + y, 1 + x>>, B)
    IN  <<Over("h1", HYDRO_2D_Body1), Over("h2", HYDRO_2D_Body2), Over("h3", HYDRO_2D_Body3)>>
HYDRO_2D_HIP ==
    LET Over(loop, B(_)) == Grid2(loop, kn - 2, jn - 2, LAMBDA y, x : <<1 + y, 1 + x>>, B)
    IN  <<Over("h1", HYDRO_2D_Body1), Over("h2", HYDRO_2D_Body2), Over("h3", HYDRO_2D_Body3)>>

(* INT_PREDICT: the first of 13 planes of px from the others *)
INT_PREDICT_Data ==
    [Data([px |-> 13 * N], [px |-> N], {"px"}, 1) EXCEPT
        !.members = {"dm22", "dm23", "dm24", "dm25", "dm26", "dm27", "dm28", "c0"}]
INT_PREDICT_Body(i) ==
    Body({Var(v) : v \in {"dm22", "dm23", "dm24", "dm25", "dm26", "dm27", "dm28", "c0"}}
                     \cup At("px", {i + N * p : p \in {2, 4, 5, 6, 7, 8, 9, 10, 11, 12}}),
                 {<<"px", i>>})
INT_PREDICT_Seq == <<SeqLoop("predict", Upto(0, N), INT_PREDICT_Body)>>
INT_PREDICT_OMP == <<OmpFor("predict", Upto(0, N), INT_PREDICT_Body)>>
INT_PREDICT_Target == <<OmpFor("predict", Upto(0, N), INT_PREDICT_Body)>>
INT_PREDICT_CUDA == <<Forall("predict", 0, N, INT_PREDICT_Body)>>
INT_PREDICT_HIP == <<Forall("predict", 0, N, INT_PREDICT_Body)>>

(* PLANCKIAN: y[i] = u[i] / v[i]; w[i] = x[i] / (exp(y[i]) - 1) *)
PLANCKIAN_Data ==
    Data([a \in {"x", "y", "u", "v", "w"} |-> N], [w |-> N], {"x", "y", "u", "v", "w"}, 1)
PLANCKIAN_Body(i) == Body({<<"u", i>>, <<"v", i>>, <<"x", i>>}, {<<"y", i>>, <<"w", i>>})
PLANCKIAN_Seq == <<SeqLoop("planck", Upto(0, N), PLANCKIAN_Body)>>
PLANCKIAN_OMP == <<OmpFor("planck", Upto(0, N), PLANCKIAN_Body)>>
PLANCKIAN_Target == <<OmpFor("planck", Upto(0, N), PLANCKIAN_Body)>>
PLANCKIAN_CUDA == <<Forall("planck", 0, N, PLANCKIAN_Body)>>
PLANCKIAN_HIP == <<Forall("planck", 0, N, PLANCKIAN_Body)>>

(* TRIDIAG_ELIM: xout[i] = z[i] * (y[i] - xin[i-1]) from 1 on *)
TRIDIAG_ELIM_Data ==
    Data([a \in {"xout", "xin", "y", "z"} |-> N], [xout |-> N], {"xout", "xin", "y", "z"}, 1)
TRIDIAG_ELIM_Body(i) == Body({<<"z", i>>, <<"y", i>>, <<"xin", i - 1>>}, {<<"xout", i>>})
TRIDIAG_ELIM_Seq == <<SeqLoop("elim", Upto(1, N), TRIDIAG_ELIM_Body)>>
TRIDIAG_ELIM_OMP == <<OmpFor("elim", Upto(1, N), TRIDIAG_ELIM_Body)>>
TRIDIAG_ELIM_Target == <<OmpFor("elim", Upto(1, N), TRIDIAG_ELIM_Body)>>
TRIDIAG_ELIM_CUDA == <<ForallGuarded("elim", N, 1, N, TRIDIAG_ELIM_Body)>>
TRIDIAG_ELIM_HIP == <<ForallGuarded("elim", N, 1, N, TRIDIAG_ELIM_Body)>>

-----------------------------------------------------------------------------
\* The kernels of the group, and the variants each defines.
LcalsCatalog ==
    [DIFF_PREDICT |->
         [data |-> DIFF_PREDICT_Data,
          Seq |-> DIFF_PREDICT_Seq,
          OpenMP |-> DIFF_PREDICT_OMP,
          OpenMPTarget |-> DIFF_PREDICT_Target,
          CUDA |-> DIFF_PREDICT_CUDA,
          HIP |-> DIFF_PREDICT_HIP],
     EOS |->
         [data |-> EOS_Data,
          Seq |-> EOS_Seq,
          OpenMP |-> EOS_OMP,
          OpenMPTarget |-> EOS_Target,
          CUDA |-> EOS_CUDA,
          HIP |-> EOS_HIP],
     FIRST_DIFF |->
         [data |-> FIRST_DIFF_Data,
          Seq |-> FIRST_DIFF_Seq,
          OpenMP |-> FIRST_DIFF_OMP,
          OpenMPTarget |-> FIRST_DIFF_Target,
          CUDA |-> FIRST_DIFF_CUDA,
          HIP |-> FIRST_DIFF_HIP],
     FIRST_MIN |->
         [data |-> FIRST_MIN_Data,
          Seq |-> FIRST_MIN_Seq,
          OpenMP |-> FIRST_MIN_OMP,
          OpenMPTarget |-> FIRST_MIN_Target,
          CUDA |-> FIRST_MIN_CUDA,
          HIP |-> FIRST_MIN_HIP],
     FIRST_SUM |->
         [data |-> FIRST_SUM_Data,
          Seq |-> FIRST_SUM_Seq,
          OpenMP |-> FIRST_SUM_OMP,
          OpenMPTarget |-> FIRST_SUM_Target,
          CUDA |-> FIRST_SUM_CUDA,
          HIP |-> FIRST_SUM_HIP],
     GEN_LIN_RECUR |->
         [data |-> GEN_LIN_RECUR_Data,
          Seq |-> GEN_LIN_RECUR_Seq,
          OpenMP |-> GEN_LIN_RECUR_OMP,
          OpenMPTarget |-> GEN_LIN_RECUR_Target,
          CUDA |-> GEN_LIN_RECUR_CUDA,
          HIP |-> GEN_LIN_RECUR_HIP],
     HYDRO_1D |->
         [data |-> HYDRO_1D_Data,
          Seq |-> HYDRO_1D_Seq,
          OpenMP |-> HYDRO_1D_OMP,
          OpenMPTarget |-> HYDRO_1D_Target,
          CUDA |-> HYDRO_1D_CUDA,
          HIP |-> HYDRO_1D_HIP],
     HYDRO_2D |->
         [data |-> HYDRO_2D_Data,
          Seq |-> HYDRO_2D_Seq,
          OpenMP |-> HYDRO_2D_OMP,
          OpenMPTarget |-> HYDRO_2D_Target,
          CUDA |-> HYDRO_2D_CUDA,
          HIP |-> HYDRO_2D_HIP],
     INT_PREDICT |->
         [data |-> INT_PREDICT_Data,
          Seq |-> INT_PREDICT_Seq,
          OpenMP |-> INT_PREDICT_OMP,
          OpenMPTarget |-> INT_PREDICT_Target,
          CUDA |-> INT_PREDICT_CUDA,
          HIP |-> INT_PREDICT_HIP],
     PLANCKIAN |->
         [data |-> PLANCKIAN_Data,
          Seq |-> PLANCKIAN_Seq,
          OpenMP |-> PLANCKIAN_OMP,
          OpenMPTarget |-> PLANCKIAN_Target,
          CUDA |-> PLANCKIAN_CUDA,
          HIP |-> PLANCKIAN_HIP],
     TRIDIAG_ELIM |->
         [data |-> TRIDIAG_ELIM_Data,
          Seq |-> TRIDIAG_ELIM_Seq,
          OpenMP |-> TRIDIAG_ELIM_OMP,
          OpenMPTarget |-> TRIDIAG_ELIM_Target,
          CUDA |-> TRIDIAG_ELIM_CUDA,
          HIP |-> TRIDIAG_ELIM_HIP]]
=============================================================================
