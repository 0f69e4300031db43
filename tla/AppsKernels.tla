---------------------------- MODULE AppsKernels ----------------------------
(***************************************************************************)
(* The kernels of the Apps group (src/apps), laid out as in BasicKernels.  *)
(***************************************************************************)
EXTENDS KernelLoops

CONSTANTS
    TargetMesh,     \* getTargetProblemSize() for the kernels over a mesh
    TargetFem       \* and for those over finite elements

LOCAL N == Target1

-----------------------------------------------------------------------------
(* The structured mesh of ADomain, with layers of ghost zones around the   *)
(* real ones, in two or three dimensions.                                  *)

ADomain(rzmax, ndims) ==
    LET NPNL == 2
        NPNR == 1
        min == NPNL                         \* imin, jmin, and kmin in three dimensions
        max == rzmax + NPNR                 \* imax, jmax, kmax
        jp == max - min + 1 + NPNL + NPNR
        kp == IF ndims = 3 THEN jp * jp ELSE 0
        nnalls == IF ndims = 3 THEN kp * jp ELSE jp * jp
        frn == NPNL * (kp + jp) + NPNL
        lrn == (nnalls - 1) - NPNR * (kp + jp) - NPNR
        zones == Nest3(IF ndims = 3 THEN Upto(min, max) ELSE <<0>>, Upto(min, max), Upto(min, max))
    IN  [jp |-> jp, kp |-> kp, nnalls |-> nnalls, n_real_zones |-> Len(zones),
         fpz |-> frn - jp - kp - 1, lpz |-> lrn,
         \* what setRealZones_2d and setRealZones_3d put into real_zones
         real_zones |-> [id \in 0 .. Len(zones) - 1 |->
             zones[id + 1][3] + zones[id + 1][2] * jp + zones[id + 1][1] * kp]]

\* The corners of zone v: NDPTRSET and NDSET2D.
Corners(d, v) == {v + i + j + k : i \in {0, 1}, j \in {0, d.jp}, k \in {0, d.kp}}

LOCAL Mesh2 == ADomain(Sqrt(TargetMesh) + 1, 2)
LOCAL Mesh3 == ADomain(Cbrt(TargetMesh) + 1, 3)

-----------------------------------------------------------------------------
(* The finite element kernels work on buffers that the threads of a block  *)
(* share; an element is a block.  The code has D1D = 3 or 4, and as here   *)
(* Q1D = D1D + 1.                                                          *)

LOCAL D1D == 2
LOCAL Q1D == 3
LOCAL Ds == 0 .. D1D - 1
LOCAL Qs == 0 .. Q1D - 1
LOCAL ToD == Upto(0, D1D)
LOCAL ToQ == Upto(0, Q1D)
LOCAL Elements(entries) == Greatest(TargetFem \div entries, 1)                  \* m_NE

\* Buffer s of element e seen as a matrix with rows of nx, and its part m seen
\* as a stack of matrices of ny rows of nx.
LOCAL Mat(s, e, y, x, nx) == <<s, <<e, 0, y * nx + x>>>>
LOCAL Stack(s, m, e, z, y, x, ny, nx) == <<s, <<e, m, (z * ny + y) * nx + x>>>>
LOCAL Buffer(s, parts, n, NE) ==
    {<<s, <<e, m, i>>>> : e \in 0 .. NE - 1, m \in 0 .. parts - 1, i \in 0 .. n - 1}

\* GPU_FOREACH_THREAD loops over the indices S, <<z, y, x>>, in a block of n
\* threads in each dimension, after ph calls of __syncthreads.
ForeachThread(name, e, ph, n, S, B(_, _, _)) ==
    [i \in DOMAIN S |->
        Job(name, <<e, S[i]>>, B(S[i][1], S[i][2], S[i][3]), ph,
            <<S[i][1] % n, S[i][2] % n, S[i][3] % n>>)]
\* The same loops run by one thread of the host, CPU_FOREACH.
LOCAL OneThread(jobs) == [n \in DOMAIN jobs |-> [jobs[n] EXCEPT !.ph = 0, !.th = <<0, 0, 0>>]]

\* X_(dx, dy, dz, e) and D_(qx, qy, qz, e)
LOCAL DofAt(x, e, dz, dy, dx) == <<x, dx + D1D * dy + D1D * D1D * dz + D1D * D1D * D1D * e>>
LOCAL QuadAt(x, e, qz, qy, qx) == <<x, qx + Q1D * qy + Q1D * Q1D * qz + Q1D * Q1D * Q1D * e>>

\* Loops over the elements, in parallel and in sequence.
LOCAL Blocks(NE, Block(_)) == <<Launch([n \in 1 .. NE |-> Block(n - 1)])>>
LOCAL InSequence(NE, Block(_)) ==
    <<Launch(<<FlattenSeq([n \in 1 .. NE |-> OneThread(Block(n - 1))])>>)>>

\* The launch of the same blocks with every thread a worker of its own, from one
\* barrier to the next.  The blocks wait for each other there too.
LOCAL ThreadByThread(NE, barriers, Block(_)) ==
    LET blocks  == <<>> \o [n \in 1 .. NE |-> Block(n - 1)]
        threads == Nest2(Upto(1, NE + 1), Nest3(ToQ, ToQ, ToQ))
        Between(ph) == <<>> \o [n \in DOMAIN threads |->
            SelectSeq(blocks[threads[n][1]], LAMBDA j : j.ph = ph /\ j.th = threads[n][2])]
    IN  <<Launch(Between(0))>> \o [ph \in 1 .. barriers |-> AfterBarrier(Between(ph))]
-----------------------------------------------------------------------------

(* ENERGY: six loops over the same zones; under OpenMP a thread goes from one to the
   next without a barrier *)
ENERGY_Arrays ==
    {"e_new", "e_old", "delvc", "p_new", "p_old", "q_new", "q_old", "work", "compHalfStep",
     "pHalfStep", "bvc", "pbvc", "ql_old", "qq_old", "vnewc"}
ENERGY_Data ==
    [Data([x \in ENERGY_Arrays |-> N], [e_new |-> N, q_new |-> N], ENERGY_Arrays, 6) EXCEPT
        !.members = {"rho0", "e_cut", "emin", "q_cut"}]
LOCAL AtZone(X, i) == {<<x, i>> : x \in X}
ENERGY_Body1(i) == Body(AtZone({"e_old", "delvc", "p_old", "q_old", "work"}, i), {<<"e_new", i>>})
ENERGY_Body2(i) ==
    Body(AtZone({"delvc", "compHalfStep", "pbvc", "e_new", "bvc", "pHalfStep", "ql_old", "qq_old"}, i)
             \cup {Var("rho0")},
         {<<"q_new", i>>})
ENERGY_Body3(i) ==
    Body(AtZone({"e_new", "delvc", "p_old", "q_old", "pHalfStep", "q_new"}, i), {<<"e_new", i>>})
ENERGY_Body4(i) ==
    Body(AtZone({"e_new", "work"}, i) \cup {Var("e_cut"), Var("emin")}, {<<"e_new", i>>})
ENERGY_Body5(i) ==
    Body(AtZone({"delvc", "pbvc", "e_new", "vnewc", "bvc", "p_new", "ql_old", "qq_old", "p_old",
                 "q_old", "pHalfStep", "q_new"}, i)
             \cup {Var("rho0"), Var("e_cut"), Var("emin")},
         {<<"e_new", i>>})
\* q_new is written only where delvc is not positive: what it holds depends on the old value.
ENERGY_Body6(i) ==
    Body(AtZone({"delvc", "pbvc", "e_new", "vnewc", "bvc", "p_new", "ql_old", "qq_old", "q_new"}, i)
             \cup {Var("rho0"), Var("q_cut")},
         {<<"q_new", i>>})
ENERGY_Seq ==
    <<SeqLoop("energy1", Upto(0, N), ENERGY_Body1),
      SeqLoop("energy2", Upto(0, N), ENERGY_Body2),
      SeqLoop("energy3", Upto(0, N), ENERGY_Body3),
      SeqLoop("energy4", Upto(0, N), ENERGY_Body4),
      SeqLoop("energy5", Upto(0, N), ENERGY_Body5),
      SeqLoop("energy6", Upto(0, N), ENERGY_Body6)>>
ENERGY_OMP ==
    <<NowaitLoops(<<
        Iterations("energy1", Upto(0, N), LAMBDA i : <<i>>, ENERGY_Body1),
        Iterations("energy2", Upto(0, N), LAMBDA i : <<i>>, ENERGY_Body2),
        Iterations("energy3", Upto(0, N), LAMBDA i : <<i>>, ENERGY_Body3),
        Iterations("energy4", Upto(0, N), LAMBDA i : <<i>>, ENERGY_Body4),
        Iterations("energy5", Upto(0, N), LAMBDA i : <<i>>, ENERGY_Body5),
        Iterations("energy6", Upto(0, N), LAMBDA i : <<i>>, ENERGY_Body6)>>)>>
ENERGY_Target ==
    <<OmpFor("energy1", Upto(0, N), ENERGY_Body1),
      OmpFor("energy2", Upto(0, N), ENERGY_Body2),
      OmpFor("energy3", Upto(0, N), ENERGY_Body3),
      OmpFor("energy4", Upto(0, N), ENERGY_Body4),
      OmpFor("energy5", Upto(0, N), ENERGY_Body5),
      OmpFor("energy6", Upto(0, N), ENERGY_Body6)>>
ENERGY_CUDA ==
    <<Forall("energy1", 0, N, ENERGY_Body1),
      Forall("energy2", 0, N, ENERGY_Body2),
      Forall("energy3", 0, N, ENERGY_Body3),
      Forall("energy4", 0, N, ENERGY_Body4),
      Forall("energy5", 0, N, ENERGY_Body5),
      Forall("energy6", 0, N, ENERGY_Body6)>>
ENERGY_HIP ==
    <<Forall("energy1", 0, N, ENERGY_Body1),
      Forall("energy2", 0, N, ENERGY_Body2),
      Forall("energy3", 0, N, ENERGY_Body3),
      Forall("energy4", 0, N, ENERGY_Body4),
      Forall("energy5", 0, N, ENERGY_Body5),
      Forall("energy6", 0, N, ENERGY_Body6)>>

(* PRESSURE: two loops over the same zones, without a barrier between them under OpenMP *)
PRESSURE_Data ==
    [Data([compression |-> N, bvc |-> N, p_new |-> N, e_old |-> N, vnewc |-> N], [p_new |-> N],
          {"compression", "bvc", "p_new", "e_old", "vnewc"}, 2) EXCEPT
        !.members = {"cls", "p_cut", "pmin", "eosvmax"}]
PRESSURE_Body1(i) == Body({<<"compression", i>>, Var("cls")}, {<<"bvc", i>>})
PRESSURE_Body2(i) ==
    Body({<<"bvc", i>>, <<"e_old", i>>, <<"vnewc", i>>, Var("p_cut"), Var("pmin"), Var("eosvmax")},
         {<<"p_new", i>>})
PRESSURE_Seq ==
    <<SeqLoop("p1", Upto(0, N), PRESSURE_Body1), SeqLoop("p2", Upto(0, N), PRESSURE_Body2)>>
PRESSURE_OMP ==
    <<NowaitLoops(<<
        Iterations("p1", Upto(0, N), LAMBDA i : <<i>>, PRESSURE_Body1),
        Iterations("p2", Upto(0, N), LAMBDA i : <<i>>, PRESSURE_Body2)>>)>>
PRESSURE_Target ==
    <<OmpFor("p1", Upto(0, N), PRESSURE_Body1), OmpFor("p2", Upto(0, N), PRESSURE_Body2)>>
PRESSURE_CUDA == <<Forall("p1", 0, N, PRESSURE_Body1), Forall("p2", 0, N, PRESSURE_Body2)>>
PRESSURE_HIP == <<Forall("p1", 0, N, PRESSURE_Body1), Forall("p2", 0, N, PRESSURE_Body2)>>

(* DEL_DOT_VEC_2D: the divergence of a vector field in every real zone *)
DEL_DOT_VEC_2D_Data ==
    LET n == Mesh2.nnalls
    IN  [Data([x |-> n, y |-> n, real_zones |-> Mesh2.n_real_zones, xdot |-> n, ydot |-> n, div |-> n],
              [div |-> n], {"x", "y", "real_zones", "xdot", "ydot", "div"}, 1) EXCEPT
            !.members = {"ptiny", "half"}]
DEL_DOT_VEC_2D_Body(ii) ==
    LET i == Mesh2.real_zones[ii]
    IN  Body({<<x, c>> : x \in {"x", "y", "xdot", "ydot"}, c \in Corners(Mesh2, i)}
                 \cup {<<"real_zones", ii>>, Var("ptiny"), Var("half")},
             {<<"div", i>>})
DEL_DOT_VEC_2D_Seq ==
    <<SeqLoop("deldotvec2d", Upto(0, Mesh2.n_real_zones), DEL_DOT_VEC_2D_Body)>>
DEL_DOT_VEC_2D_OMP ==
    <<OmpFor("deldotvec2d", Upto(0, Mesh2.n_real_zones), DEL_DOT_VEC_2D_Body)>>
DEL_DOT_VEC_2D_Target ==
    <<OmpFor("deldotvec2d", Upto(0, Mesh2.n_real_zones), DEL_DOT_VEC_2D_Body)>>
DEL_DOT_VEC_2D_CUDA == <<Forall("deldotvec2d", 0, Mesh2.n_real_zones, DEL_DOT_VEC_2D_Body)>>
DEL_DOT_VEC_2D_HIP == <<Forall("deldotvec2d", 0, Mesh2.n_real_zones, DEL_DOT_VEC_2D_Body)>>

(* VOL3D: the volumes of the zones *)
VOL3D_Data ==
    LET n == Mesh3.nnalls
    IN  [Data([x |-> n, y |-> n, z |-> n, vol |-> n], [vol |-> n], {"x", "y", "z", "vol"}, 1) EXCEPT
            !.members = {"vnormq"}]
VOL3D_Body(i) ==
    Body({<<x, c>> : x \in {"x", "y", "z"}, c \in Corners(Mesh3, i)} \cup {Var("vnormq")},
         {<<"vol", i>>})
VOL3D_Seq == <<SeqLoop("vol3d", Upto(Mesh3.fpz, Mesh3.lpz + 1), VOL3D_Body)>>
VOL3D_OMP == <<OmpFor("vol3d", Upto(Mesh3.fpz, Mesh3.lpz + 1), VOL3D_Body)>>
VOL3D_Target == <<OmpFor("vol3d", Upto(Mesh3.fpz, Mesh3.lpz + 1), VOL3D_Body)>>
VOL3D_CUDA == <<Forall("vol3d", Mesh3.fpz, Mesh3.lpz + 1, VOL3D_Body)>>
VOL3D_HIP == <<Forall("vol3d", Mesh3.fpz, Mesh3.lpz + 1, VOL3D_Body)>>

(* EDGE3D: an edge element matrix for every zone, summed up *)
EDGE3D_Data ==
    LET n == Mesh3.nnalls
    IN  [Data([x |-> n, y |-> n, z |-> n, sum |-> n], [sum |-> n], {"x", "y", "z", "sum"}, 1) EXCEPT
            !.members = {}]
EDGE3D_Body(i) ==
    Body({<<x, c>> : x \in {"x", "y", "z"}, c \in Corners(Mesh3, i)},
         {<<"sum", i>>})
EDGE3D_Seq == <<SeqLoop("edge3d", Upto(Mesh3.fpz, Mesh3.lpz + 1), EDGE3D_Body)>>
EDGE3D_OMP == <<OmpFor("edge3d", Upto(Mesh3.fpz, Mesh3.lpz + 1), EDGE3D_Body)>>
EDGE3D_Target == <<OmpFor("edge3d", Upto(Mesh3.fpz, Mesh3.lpz + 1), EDGE3D_Body)>>
EDGE3D_CUDA == <<Forall("edge3d", Mesh3.fpz, Mesh3.lpz + 1, EDGE3D_Body)>>
EDGE3D_HIP == <<Forall("edge3d", Mesh3.fpz, Mesh3.lpz + 1, EDGE3D_Body)>>

(* NODAL_ACCUMULATION_3D: every zone adds to its corners, atomically where it is parallel *)
NODAL_ACCUMULATION_3D_Data ==
    LET m == Mesh3
    IN  Data([x |-> m.nnalls, vol |-> m.lpz + 1, real_zones |-> m.n_real_zones], [x |-> m.nnalls],
             {"x", "vol", "real_zones"}, 1)
NODAL_ACCUMULATION_3D_Body(ii) ==
    LET i == Mesh3.real_zones[ii]
    IN  Adds({<<"vol", i>>, <<"real_zones", ii>>}, At("x", Corners(Mesh3, i)))
NODAL_ACCUMULATION_3D_Seq ==
    <<SeqLoop("nodal", Upto(0, Mesh3.n_real_zones), NODAL_ACCUMULATION_3D_Body)>>
NODAL_ACCUMULATION_3D_OMP ==
    <<OmpFor("nodal", Upto(0, Mesh3.n_real_zones), NODAL_ACCUMULATION_3D_Body)>>
NODAL_ACCUMULATION_3D_Target ==
    <<OmpFor("nodal", Upto(0, Mesh3.n_real_zones), NODAL_ACCUMULATION_3D_Body)>>
NODAL_ACCUMULATION_3D_CUDA ==
    <<Forall("nodal", 0, Mesh3.n_real_zones, NODAL_ACCUMULATION_3D_Body)>>
NODAL_ACCUMULATION_3D_HIP ==
    <<Forall("nodal", 0, Mesh3.n_real_zones, NODAL_ACCUMULATION_3D_Body)>>

(* ZONAL_ACCUMULATION_3D: every zone takes the sum over its corners *)
ZONAL_ACCUMULATION_3D_Data ==
    LET m == Mesh3
    IN  Data([x |-> m.nnalls, vol |-> m.lpz + 1, real_zones |-> m.n_real_zones], [vol |-> m.lpz + 1],
             {"x", "vol", "real_zones"}, 1)
ZONAL_ACCUMULATION_3D_Body(ii) ==
    LET i == Mesh3.real_zones[ii]
    IN  Body({<<"real_zones", ii>>} \cup At("x", Corners(Mesh3, i)), {<<"vol", i>>})
ZONAL_ACCUMULATION_3D_Seq ==
    <<SeqLoop("zonal", Upto(0, Mesh3.n_real_zones), ZONAL_ACCUMULATION_3D_Body)>>
ZONAL_ACCUMULATION_3D_OMP ==
    <<OmpFor("zonal", Upto(0, Mesh3.n_real_zones), ZONAL_ACCUMULATION_3D_Body)>>
ZONAL_ACCUMULATION_3D_Target ==
    <<OmpFor("zonal", Upto(0, Mesh3.n_real_zones), ZONAL_ACCUMULATION_3D_Body)>>
ZONAL_ACCUMULATION_3D_CUDA ==
    <<Forall("zonal", 0, Mesh3.n_real_zones, ZONAL_ACCUMULATION_3D_Body)>>
ZONAL_ACCUMULATION_3D_HIP ==
    <<Forall("zonal", 0, Mesh3.n_real_zones, ZONAL_ACCUMULATION_3D_Body)>>

(* FIR: a filter of coefflen coefficients (FIR_COEFFLEN is 16), which a variant copies once
   before its repetitions *)
LOCAL coefflen == 2
FIR_Data ==
    [Data([in |-> N, out |-> N], [out |-> N], {"in", "out"}, 1) EXCEPT
        !.members = {"coeff"}]
FIR_Body(i) ==
    Body({<<"in", i + j>> : j \in 0 .. coefflen - 1} \cup {Var("coeff")}, {<<"out", i>>})
FIR_Seq == <<SeqLoop("fir", Upto(0, N - coefflen), FIR_Body)>>
FIR_OMP == <<OmpFor("fir", Upto(0, N - coefflen), FIR_Body)>>
FIR_Target == <<OmpFor("fir", Upto(0, N - coefflen), FIR_Body)>>
FIR_CUDA == <<Forall("fir", 0, N - coefflen, FIR_Body)>>
FIR_HIP == <<Forall("fir", 0, N - coefflen, FIR_Body)>>

(* LTIMES: phi(z, g, m) += ell(m, d) * psi(z, g, d) *)
LOCAL num_d == 2
LOCAL num_g == 2
LOCAL num_m == 2
LOCAL num_z == Greatest(Target2 \div (num_d * num_g), 1)
LOCAL Zgm == Nest3(Upto(0, num_z), Upto(0, num_g), Upto(0, num_m))
LOCAL ForD(t) == [d \in 1 .. num_d |-> <<t[1], t[2], t[3], d - 1>>]
LOCAL Zgmd == FlattenSeq([n \in DOMAIN Zgm |-> ForD(Zgm[n])])
\* Threads of blocks of TileX by TileY by TileX over z, g, m; each loops over d.
LOCAL LtimesThreads ==
    Nest3(Upto(0, DivideCeiling(num_z, TileX) * TileX),
          Upto(0, DivideCeiling(num_g, TileY) * TileY),
          Upto(0, DivideCeiling(num_m, TileX) * TileX))
LOCAL LtimesGuard(t) == IF t[3] < num_m /\ t[2] < num_g /\ t[1] < num_z THEN ForD(t) ELSE <<>>
LTIMES_Data ==
    Data([phidat |-> num_m * num_g * num_z, elldat |-> num_d * num_m, psidat |-> num_d * num_g * num_z],
         [phidat |-> num_m * num_g * num_z], {"phidat", "elldat", "psidat"}, 1)
LTIMES_Body(t) ==
    LET z == t[1]  g == t[2]  m == t[3]  d == t[4]
        phi == <<"phidat", m + g * num_m + z * num_m * num_g>>
    IN  Body({phi, <<"elldat", d + m * num_d>>, <<"psidat", d + g * num_d + z * num_d * num_g>>}, {phi})
LTIMES_Seq == <<SeqLoop("ltimes", Zgmd, LTIMES_Body)>>
LTIMES_OMP ==
    <<ParLoop("ltimes", Upto(0, num_z), LAMBDA z : SelectSeq(Zgmd, LAMBDA t : t[1] = z),
              LTIMES_Body)>>
LTIMES_Target == <<ParLoop("ltimes", Zgm, ForD, LTIMES_Body)>>
LTIMES_CUDA == <<ParLoop("ltimes", LtimesThreads, LtimesGuard, LTIMES_Body)>>
LTIMES_HIP == <<ParLoop("ltimes", LtimesThreads, LtimesGuard, LTIMES_Body)>>

(* LTIMES_NOVIEW: phi(z, g, m) += ell(m, d) * psi(z, g, d) without views *)
LTIMES_NOVIEW_Data ==
    Data([phidat |-> num_m * num_g * num_z, elldat |-> num_d * num_m, psidat |-> num_d * num_g * num_z],
         [phidat |-> num_m * num_g * num_z], {"phidat", "elldat", "psidat"}, 1)
LTIMES_NOVIEW_Body(t) ==
    LET z == t[1]  g == t[2]  m == t[3]  d == t[4]
        phi == <<"phidat", m + g * num_m + z * num_m * num_g>>
    IN  Body({phi, <<"elldat", d + m * num_d>>, <<"psidat", d + g * num_d + z * num_d * num_g>>}, {phi})
LTIMES_NOVIEW_Seq == <<SeqLoop("ltimes", Zgmd, LTIMES_NOVIEW_Body)>>
LTIMES_NOVIEW_OMP ==
    <<ParLoop("ltimes", Upto(0, num_z), LAMBDA z : SelectSeq(Zgmd, LAMBDA t : t[1] = z),
              LTIMES_NOVIEW_Body)>>
LTIMES_NOVIEW_Target == <<ParLoop("ltimes", Zgm, ForD, LTIMES_NOVIEW_Body)>>
LTIMES_NOVIEW_CUDA == <<ParLoop("ltimes", LtimesThreads, LtimesGuard, LTIMES_NOVIEW_Body)>>
LTIMES_NOVIEW_HIP == <<ParLoop("ltimes", LtimesThreads, LtimesGuard, LTIMES_NOVIEW_Body)>>

(* MASS3DPA: partially assembled mass operator; later phases use sm0, sm1 and sDQ anew *)
LOCAL MASS3DPA_NE == Elements(Q1D * Q1D * Q1D)
MASS3DPA_Data ==
    LET ND == D1D * D1D * D1D * MASS3DPA_NE
        n3 == Q1D * Q1D * Q1D
    IN  [Data([B |-> Q1D * D1D, Bt |-> Q1D * D1D, D |-> n3 * MASS3DPA_NE, X |-> ND, Y |-> ND],
              [Y |-> ND], {"B", "Bt", "D", "X", "Y"}, 1) EXCEPT
            !.locals = Buffer("sDQ", 1, Q1D * D1D, MASS3DPA_NE)
                       \cup Buffer("sm0", 1, n3, MASS3DPA_NE) \cup Buffer("sm1", 1, n3, MASS3DPA_NE)]
\* The phases MASS3DPA_1 to MASS3DPA_9 of element e; the block is Q1D by Q1D threads.
MASS3DPA_Block(e) ==
    LET Bsmem(x, y)    == Mat("sDQ", e, x, y, D1D)
        Btsmem(x, y)   == Mat("sDQ", e, x, y, Q1D)
        Xsmem(z, y, x) == Stack("sm0", 0, e, z, y, x, D1D, D1D)
        DDQ(z, y, x)   == Stack("sm1", 0, e, z, y, x, D1D, Q1D)
        DQQ(z, y, x)   == Stack("sm0", 0, e, z, y, x, Q1D, Q1D)
        QQQ(z, y, x)   == Stack("sm1", 0, e, z, y, x, Q1D, Q1D)
        QQD(z, y, x)   == Stack("sm0", 0, e, z, y, x, Q1D, D1D)
        QDD(z, y, x)   == Stack("sm1", 0, e, z, y, x, D1D, D1D)
        Plane(s, t)    == Nest3(<<0>>, s, t)
        Phase(name, ph, S, F(_, _, _)) == ForeachThread(name, e, ph, Q1D, S, F)
    IN  Phase("1", 0, Plane(ToD, ToD), LAMBDA z, dy, dx :
              Body({DofAt("X", e, dz, dy, dx) : dz \in Ds}, {Xsmem(dz, dy, dx) : dz \in Ds}))
        \o Phase("2", 0, Plane(ToD, ToQ), LAMBDA z, dy, dx :
              Body({<<"B", dx + Q1D * dy>>}, {Bsmem(dx, dy)}))
        \o Phase("3", 1, Plane(ToD, ToQ), LAMBDA z, dy, qx :
              Body({Xsmem(dz, dy, dx) : dz \in Ds, dx \in Ds} \cup {Bsmem(qx, dx) : dx \in Ds},
                   {DDQ(dz, dy, qx) : dz \in Ds}))
        \o Phase("4", 2, Plane(ToQ, ToQ), LAMBDA z, qy, qx :
              Body({DDQ(dz, dy, qx) : dz \in Ds, dy \in Ds} \cup {Bsmem(qy, dy) : dy \in Ds},
                   {DQQ(dz, qy, qx) : dz \in Ds}))
        \o Phase("5", 3, Plane(ToQ, ToQ), LAMBDA z, qy, qx :
              Body({DQQ(dz, qy, qx) : dz \in Ds} \cup {Bsmem(qz, dz) : qz \in Qs, dz \in Ds}
                       \cup {QuadAt("D", e, qz, qy, qx) : qz \in Qs},
                   {QQQ(qz, qy, qx) : qz \in Qs}))
        \o Phase("6", 4, Plane(ToD, ToQ), LAMBDA z, d, q :
              Body({<<"Bt", q + D1D * d>>}, {Btsmem(d, q)}))
        \o Phase("7", 5, Plane(ToQ, ToD), LAMBDA z, qy, dx :
              Body({QQQ(qz, qy, qx) : qz \in Qs, qx \in Qs} \cup {Btsmem(dx, qx) : qx \in Qs},
                   {QQD(qz, qy, dx) : qz \in Qs}))
        \o Phase("8", 6, Plane(ToD, ToD), LAMBDA z, dy, dx :
              Body({QQD(qz, qy, dx) : qz \in Qs, qy \in Qs} \cup {Btsmem(dy, qy) : qy \in Qs},
                   {QDD(qz, dy, dx) : qz \in Qs}))
        \o Phase("9", 7, Plane(ToD, ToD), LAMBDA z, dy, dx :
              Body({QDD(qz, dy, dx) : qz \in Qs} \cup {Btsmem(dz, qz) : dz \in Ds, qz \in Qs}
                       \cup {DofAt("Y", e, dz, dy, dx) : dz \in Ds},
                   {DofAt("Y", e, dz, dy, dx) : dz \in Ds}))
MASS3DPA_Seq == InSequence(MASS3DPA_NE, MASS3DPA_Block)
MASS3DPA_OMP == Blocks(MASS3DPA_NE, LAMBDA e : OneThread(MASS3DPA_Block(e)))
MASS3DPA_CUDA == Blocks(MASS3DPA_NE, MASS3DPA_Block)
MASS3DPA_HIP == Blocks(MASS3DPA_NE, MASS3DPA_Block)

(* MASS3DEA: element mass matrices; a block has fewer threads than there are quadrature
   points, so that its threads loop *)
LOCAL MASS3DEA_NE == Elements(D1D * D1D * D1D * D1D * D1D * D1D)
MASS3DEA_Data ==
    LET NM == D1D * D1D * D1D * D1D * D1D * D1D * MASS3DEA_NE
        n3 == Q1D * Q1D * Q1D
    IN  [Data([B |-> Q1D * D1D, D |-> n3 * MASS3DEA_NE, M |-> NM], [M |-> NM], {"B", "D", "M"}, 1) EXCEPT
            !.locals = Buffer("s_B", 1, Q1D * D1D, MASS3DEA_NE) \cup Buffer("s_D", 1, n3, MASS3DEA_NE)]
\* The phases MASS3DEA_1 to MASS3DEA_4 of element e; the block has D1D threads in
\* each dimension.
MASS3DEA_Block(e) ==
    LET s_B(q, d)    == Mat("s_B", e, q, d, D1D)
        s_D(i, j, k) == Stack("s_D", 0, e, i, j, k, Q1D, Q1D)
        M_(i1, i2, i3, j1, j2, j3) ==
            <<"M", i1 + D1D * (i2 + D1D * (i3 + D1D * (j1 + D1D * (j2 + D1D * (j3 + D1D * e)))))>>
        Phase(name, ph, S, F(_, _, _)) == ForeachThread(name, e, ph, D1D, S, F)
    IN  Phase("1", 0, Nest3(<<0>>, ToQ, ToD), LAMBDA z, q, d :
              Body({<<"B", q + Q1D * d>>}, {s_B(q, d)}))
        \o Phase("3", 0, Nest3(ToQ, ToQ, ToQ), LAMBDA k3, k2, k1 :
              Body({QuadAt("D", e, k3, k2, k1)}, {s_D(k1, k2, k3)}))
        \o Phase("4", 1, Nest3(ToD, ToD, ToD), LAMBDA i3, i2, i1 :
              Body({s_B(q, d) : q \in Qs, d \in Ds} \cup {s_D(a, b, c) : a \in Qs, b \in Qs, c \in Qs},
                   {M_(i1, i2, i3, j1, j2, j3) : j1 \in Ds, j2 \in Ds, j3 \in Ds}))
MASS3DEA_Seq == InSequence(MASS3DEA_NE, MASS3DEA_Block)
MASS3DEA_OMP == Blocks(MASS3DEA_NE, LAMBDA e : OneThread(MASS3DEA_Block(e)))
MASS3DEA_CUDA == Blocks(MASS3DEA_NE, MASS3DEA_Block)
MASS3DEA_HIP == Blocks(MASS3DEA_NE, MASS3DEA_Block)

(* DIFFUSION3DPA: partially assembled diffusion operator; half of B and half of G share the
   buffer sBG, as do half of Bt and half of Gt later *)
LOCAL DIFFUSION3DPA_NE == Elements(Q1D * Q1D * Q1D)
LOCAL SYM == 6
qi(q, d) == IF q <= d THEN q ELSE Q1D - 1 - q
dj(q, d) == IF q <= d THEN d ELSE D1D - 1 - d
qk(q, d) == IF q <= d THEN Q1D - 1 - q ELSE q
dl(q, d) == IF q <= d THEN D1D - 1 - d ELSE d
DIFFUSION3DPA_Data ==
    LET ND == D1D * D1D * D1D * DIFFUSION3DPA_NE
        n3 == Q1D * Q1D * Q1D
    IN  [Data([B |-> Q1D * D1D, G |-> Q1D * D1D, D |-> n3 * SYM * DIFFUSION3DPA_NE, X |-> ND, Y |-> ND],
              [Y |-> ND], {"B", "G", "D", "X", "Y"}, 1) EXCEPT
            !.locals = Buffer("sBG", 1, Q1D * D1D, DIFFUSION3DPA_NE)
                       \cup Buffer("sm0", 3, n3, DIFFUSION3DPA_NE)
                       \cup Buffer("sm1", 3, n3, DIFFUSION3DPA_NE)]
\* The phases DIFFUSION3DPA_1 to DIFFUSION3DPA_9 of element e; the block has Q1D
\* threads in each dimension.
DIFFUSION3DPA_Block(e) ==
    LET B(q, d)  == Mat("sBG", e, qi(q, d), dj(q, d), D1D)          \* B[i][j], G[k][l]
        G(q, d)  == Mat("sBG", e, qk(q, d), dl(q, d), D1D)
        Bt(q, d) == Mat("sBG", e, dj(q, d), qi(q, d), Q1D)          \* Bt[j][i], Gt[l][k]
        Gt(q, d) == Mat("sBG", e, dl(q, d), qk(q, d), Q1D)
        BGs(q)   == {B(q, d) : d \in Ds} \cup {G(q, d) : d \in Ds}
        BGts(d)  == {Bt(q, d) : q \in Qs} \cup {Gt(q, d) : q \in Qs}
        Given(q, d)     == {<<"B", q + Q1D * d>>, <<"G", q + Q1D * d>>}
        s_X(z, y, x)    == Stack("sm0", 2, e, z, y, x, D1D, D1D)
        DDQ(n, z, y, x) == Stack("sm0", n, e, z, y, x, D1D, Q1D)
        DQQ(n, z, y, x) == Stack("sm1", n, e, z, y, x, Q1D, Q1D)
        QQQ(n, z, y, x) == Stack("sm0", n, e, z, y, x, Q1D, Q1D)
        QQD(n, z, y, x) == Stack("sm1", n, e, z, y, x, Q1D, D1D)
        QDD(n, z, y, x) == Stack("sm0", n, e, z, y, x, D1D, D1D)
        d_(qx, qy, qz, s) ==
            <<"D", qx + Q1D * qy + Q1D * Q1D * qz + Q1D * Q1D * Q1D * (s + SYM * e)>>
        Phase(name, ph, S, F(_, _, _)) == ForeachThread(name, e, ph, Q1D, S, F)
    IN  Phase("1", 0, Nest3(ToD, ToD, ToD), LAMBDA dz, dy, dx :
              Body({DofAt("X", e, dz, dy, dx)}, {s_X(dz, dy, dx)}))
        \o Phase("2", 0, Nest3(<<0>>, ToD, ToQ), LAMBDA z, dy, qx :
              Body(Given(qx, dy), {B(qx, dy), G(qx, dy)}))
        \o Phase("3", 1, Nest3(ToD, ToD, ToQ), LAMBDA dz, dy, qx :
              Body({s_X(dz, dy, dx) : dx \in Ds} \cup BGs(qx), {DDQ(n, dz, dy, qx) : n \in {0, 1}}))
        \o Phase("4", 2, Nest3(ToD, ToQ, ToQ), LAMBDA dz, qy, qx :
              Body({DDQ(n, dz, dy, qx) : n \in {0, 1}, dy \in Ds} \cup BGs(qy),
                   {DQQ(n, dz, qy, qx) : n \in 0 .. 2}))
        \o Phase("5", 3, Nest3(ToQ, ToQ, ToQ), LAMBDA qz, qy, qx :
              Body({DQQ(n, dz, qy, qx) : n \in 0 .. 2, dz \in Ds} \cup BGs(qz)
                       \cup {d_(qx, qy, qz, s) : s \in 0 .. SYM - 1},
                   {QQQ(n, qz, qy, qx) : n \in 0 .. 2}))
        \o Phase("6", 4, Nest3(<<0>>, ToD, ToQ), LAMBDA z, d, q :
              Body(Given(q, d), {Bt(q, d), Gt(q, d)}))
        \o Phase("7", 5, Nest3(ToQ, ToQ, ToD), LAMBDA qz, qy, dx :
              Body({QQQ(n, qz, qy, qx) : n \in 0 .. 2, qx \in Qs} \cup BGts(dx),
                   {QQD(n, qz, qy, dx) : n \in 0 .. 2}))
        \o Phase("8", 6, Nest3(ToQ, ToD, ToD), LAMBDA qz, dy, dx :
              Body({QQD(n, qz, qy, dx) : n \in 0 .. 2, qy \in Qs} \cup BGts(dy),
                   {QDD(n, qz, dy, dx) : n \in 0 .. 2}))
        \o Phase("9", 7, Nest3(ToD, ToD, ToD), LAMBDA dz, dy, dx :
              Body({QDD(n, qz, dy, dx) : n \in 0 .. 2, qz \in Qs} \cup BGts(dz)
                       \cup {DofAt("Y", e, dz, dy, dx)},
                   {DofAt("Y", e, dz, dy, dx)}))
\* The launch whose threads fill sBG in an order of their own: two of them write each
\* cell, to G[k][l] with opposite signs.
DIFFUSION3DPA_Threads == ThreadByThread(DIFFUSION3DPA_NE, 7, DIFFUSION3DPA_Block)
DIFFUSION3DPA_Seq == InSequence(DIFFUSION3DPA_NE, DIFFUSION3DPA_Block)
DIFFUSION3DPA_OMP == Blocks(DIFFUSION3DPA_NE, LAMBDA e : OneThread(DIFFUSION3DPA_Block(e)))
DIFFUSION3DPA_CUDA == Blocks(DIFFUSION3DPA_NE, DIFFUSION3DPA_Block)
DIFFUSION3DPA_HIP == Blocks(DIFFUSION3DPA_NE, DIFFUSION3DPA_Block)

(* CONVECTION3DPA: partially assembled convection operator; six buffers, each used by two phases *)
LOCAL CONVECTION3DPA_NE == Elements(Q1D * Q1D * Q1D)
LOCAL CPA_VDIM == 3
CONVECTION3DPA_Data ==
    LET ND == D1D * D1D * D1D * CONVECTION3DPA_NE
        n3 == Q1D * Q1D * Q1D
    IN  [Data([B |-> Q1D * D1D, Bt |-> Q1D * D1D, G |-> Q1D * D1D, D |-> n3 * CPA_VDIM * CONVECTION3DPA_NE,
               X |-> ND, Y |-> ND],
              [Y |-> ND], {"B", "Bt", "G", "D", "X", "Y"}, 1) EXCEPT
            !.locals = UNION {Buffer(s, 1, n3, CONVECTION3DPA_NE) :
                                  s \in {"sm0", "sm1", "sm2", "sm3", "sm4", "sm5"}}]
\* The phases CONVECTION3DPA_1 to CONVECTION3DPA_8 of element e; the block has Q1D
\* threads in each dimension.
CONVECTION3DPA_Block(e) ==
    LET BG(q)  == {<<x, q + Q1D * d>> : x \in {"B", "G"}, d \in Ds}     \* cpa_B, cpa_G
        Bt(d)  == {<<"Bt", d + D1D * q>> : q \in Qs}                    \* cpa_Bt
        u(z, y, x)     == Stack("sm0", 0, e, z, y, x, D1D, D1D)
        DQ(s, z, y, x) == Stack(s, 0, e, z, y, x, D1D, Q1D)     \* Bu, Gu and BBDGu
        QQ(s, z, y, x) == Stack(s, 0, e, z, y, x, Q1D, Q1D)     \* the other arrays
        op(qx, qy, qz, d) ==
            <<"D", qx + Q1D * qy + Q1D * Q1D * qz + Q1D * Q1D * Q1D * (d + CPA_VDIM * e)>>
        Phase(name, ph, S, F(_, _, _)) == ForeachThread(name, e, ph, Q1D, S, F)
    IN  Phase("1", 0, Nest3(ToD, ToD, ToD), LAMBDA dz, dy, dx :
              Body({DofAt("X", e, dz, dy, dx)}, {u(dz, dy, dx)}))
        \o Phase("2", 1, Nest3(ToD, ToD, ToQ), LAMBDA dz, dy, qx :
              Body({u(dz, dy, dx) : dx \in Ds} \cup BG(qx), {DQ(s, dz, dy, qx) : s \in {"sm1", "sm2"}}))
        \o Phase("3", 2, Nest3(ToD, ToQ, ToQ), LAMBDA dz, qy, qx :
              Body({DQ(s, dz, dy, qx) : s \in {"sm1", "sm2"}, dy \in Ds} \cup BG(qy),
                   {QQ(s, dz, qy, qx) : s \in {"sm3", "sm4", "sm5"}}))
        \o Phase("4", 3, Nest3(ToQ, ToQ, ToQ), LAMBDA qz, qy, qx :
              Body({QQ(s, dz, qy, qx) : s \in {"sm3", "sm4", "sm5"}, dz \in Ds} \cup BG(qz),
                   {QQ(s, qz, qy, qx) : s \in {"sm0", "sm1", "sm2"}}))
        \o Phase("5", 4, Nest3(ToQ, ToQ, ToQ), LAMBDA qz, qy, qx :
              Body({QQ(s, qz, qy, qx) : s \in {"sm0", "sm1", "sm2"}}
                       \cup {op(qx, qy, qz, d) : d \in 0 .. CPA_VDIM - 1},
                   {QQ("sm3", qz, qy, qx)}))
        \o Phase("6", 5, Nest3(ToD, ToQ, ToQ), LAMBDA dz, qy, qx :
              Body({QQ("sm3", qz, qy, qx) : qz \in Qs} \cup Bt(dz), {QQ("sm4", dz, qy, qx)}))
        \o Phase("7", 6, Nest3(ToD, ToD, ToQ), LAMBDA dz, dy, qx :
              Body({QQ("sm4", dz, qy, qx) : qy \in Qs} \cup Bt(dy), {DQ("sm5", dz, dy, qx)}))
        \o Phase("8", 7, Nest3(ToD, ToD, ToD), LAMBDA dz, dy, dx :
              Body({DQ("sm5", dz, dy, qx) : qx \in Qs} \cup Bt(dx) \cup {DofAt("Y", e, dz, dy, dx)},
                   {DofAt("Y", e, dz, dy, dx)}))
CONVECTION3DPA_Seq == InSequence(CONVECTION3DPA_NE, CONVECTION3DPA_Block)
CONVECTION3DPA_OMP == Blocks(CONVECTION3DPA_NE, LAMBDA e : OneThread(CONVECTION3DPA_Block(e)))
CONVECTION3DPA_CUDA == Blocks(CONVECTION3DPA_NE, CONVECTION3DPA_Block)
CONVECTION3DPA_HIP == Blocks(CONVECTION3DPA_NE, CONVECTION3DPA_Block)

-----------------------------------------------------------------------------
\* The kernels of the group, and the variants each defines.
AppsCatalog ==
    [ENERGY |->
         [data |-> ENERGY_Data,
          Seq |-> ENERGY_Seq,
          OpenMP |-> ENERGY_OMP,
          OpenMPTarget |-> ENERGY_Target,
          CUDA |-> ENERGY_CUDA,
          HIP |-> ENERGY_HIP],
     PRESSURE |->
         [data |-> PRESSURE_Data,
          Seq |-> PRESSURE_Seq,
          OpenMP |-> PRESSURE_OMP,
          OpenMPTarget |-> PRESSURE_Target,
          CUDA |-> PRESSURE_CUDA,
          HIP |-> PRESSURE_HIP],
     DEL_DOT_VEC_2D |->
         [data |-> DEL_DOT_VEC_2D_Data,
          Seq |-> DEL_DOT_VEC_2D_Seq,
          OpenMP |-> DEL_DOT_VEC_2D_OMP,
          OpenMPTarget |-> DEL_DOT_VEC_2D_Target,
          CUDA |-> DEL_DOT_VEC_2D_CUDA,
          HIP |-> DEL_DOT_VEC_2D_HIP],
     VOL3D |->
         [data |-> VOL3D_Data,
          Seq |-> VOL3D_Seq,
          OpenMP |-> VOL3D_OMP,
          OpenMPTarget |-> VOL3D_Target,
          CUDA |-> VOL3D_CUDA,
          HIP |-> VOL3D_HIP],
     EDGE3D |->
         [data |-> EDGE3D_Data,
          Seq |-> EDGE3D_Seq,
          OpenMP |-> EDGE3D_OMP,
          OpenMPTarget |-> EDGE3D_Target,
          CUDA |-> EDGE3D_CUDA,
          HIP |-> EDGE3D_HIP],
     NODAL_ACCUMULATION_3D |->
         [data |-> NODAL_ACCUMULATION_3D_Data,
          Seq |-> NODAL_ACCUMULATION_3D_Seq,
          OpenMP |-> NODAL_ACCUMULATION_3D_OMP,
          OpenMPTarget |-> NODAL_ACCUMULATION_3D_Target,
          CUDA |-> NODAL_ACCUMULATION_3D_CUDA,
          HIP |-> NODAL_ACCUMULATION_3D_HIP],
     ZONAL_ACCUMULATION_3D |->
         [data |-> ZONAL_ACCUMULATION_3D_Data,
          Seq |-> ZONAL_ACCUMULATION_3D_Seq,
          OpenMP |-> ZONAL_ACCUMULATION_3D_OMP,
          OpenMPTarget |-> ZONAL_ACCUMULATION_3D_Target,
          CUDA |-> ZONAL_ACCUMULATION_3D_CUDA,
          HIP |-> ZONAL_ACCUMULATION_3D_HIP],
     FIR |->
         [data |-> FIR_Data,
          Seq |-> FIR_Seq,
          OpenMP |-> FIR_OMP,
          OpenMPTarget |-> FIR_Target,
          CUDA |-> FIR_CUDA,
          HIP |-> FIR_HIP],
     LTIMES |->
         [data |-> LTIMES_Data,
          Seq |-> LTIMES_Seq,
          OpenMP |-> LTIMES_OMP,
          OpenMPTarget |-> LTIMES_Target,
          CUDA |-> LTIMES_CUDA,
          HIP |-> LTIMES_HIP],
     LTIMES_NOVIEW |->
         [data |-> LTIMES_NOVIEW_Data,
          Seq |-> LTIMES_NOVIEW_Seq,
          OpenMP |-> LTIMES_NOVIEW_OMP,
          OpenMPTarget |-> LTIMES_NOVIEW_Target,
          CUDA |-> LTIMES_NOVIEW_CUDA,
          HIP |-> LTIMES_NOVIEW_HIP],
     MASS3DPA |->
         [data |-> MASS3DPA_Data,
          Seq |-> MASS3DPA_Seq,
          OpenMP |-> MASS3DPA_OMP,
          CUDA |-> MASS3DPA_CUDA,
          HIP |-> MASS3DPA_HIP],
     MASS3DEA |->
         [data |-> MASS3DEA_Data,
          Seq |-> MASS3DEA_Seq,
          OpenMP |-> MASS3DEA_OMP,
          CUDA |-> MASS3DEA_CUDA,
          HIP |-> MASS3DEA_HIP],
     DIFFUSION3DPA |->
         [data |-> DIFFUSION3DPA_Data,
          Seq |-> DIFFUSION3DPA_Seq,
          OpenMP |-> DIFFUSION3DPA_OMP,
          CUDA |-> DIFFUSION3DPA_CUDA,
          HIP |-> DIFFUSION3DPA_HIP],
     CONVECTION3DPA |->
         [data |-> CONVECTION3DPA_Data,
          Seq |-> CONVECTION3DPA_Seq,
          OpenMP |-> CONVECTION3DPA_OMP,
          CUDA |-> CONVECTION3DPA_CUDA,
          HIP |-> CONVECTION3DPA_HIP]]
=============================================================================
