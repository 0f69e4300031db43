----------------------------- MODULE MCKernels -----------------------------
(***************************************************************************)
(* The kernels of the catalogues, run by the machine of KernelRun.         *)
(***************************************************************************)
EXTENDS SequentialRun, BasicKernels, LcalsKernels, PolybenchKernels, StreamKernels,
        AppsKernels, AlgorithmKernels, ScanKernels, CommKernels

MCCatalog ==
    LET loops == BasicCatalog @@ LcalsCatalog @@ PolybenchCatalog @@ StreamCatalog
        rest  == AppsCatalog @@ AlgorithmCatalog @@ ScanCatalog @@ CommCatalog
    IN  loops @@ rest

Broken == {<<"REDUCE_STRUCT", "CUDA">>, <<"HYDRO_2D", "OpenMP">>,
           <<"DIFFUSION3DPA", "CUDA">>, <<"DIFFUSION3DPA", "HIP">>}

\* The variants to compare with Base_Seq; a HIP variant that is the CUDA
\* variant with another run time is not run again.
MCChosen ==
    LET catalog == MCCatalog
        Variants(k) == {v \in DOMAIN catalog[k] \ {"data", "Seq"} :
                           v = "HIP" => catalog[k].HIP # catalog[k].CUDA}
    IN  UNION {{k} \X Variants(k) : k \in DOMAIN catalog} \ Broken

Miscounted == {"POLYBENCH_FLOYD_WARSHALL", "POLYBENCH_JACOBI_2D"}
KernelsPerRepWhereCounted == kernel \notin Miscounted => KernelsPerRepAreLaunches

\* Variants that do not agree with Base_Seq, each by itself.
Racing == {<<"HYDRO_2D", "OpenMP">>}
Gradient == {<<"DIFFUSION3DPA", "CUDA">>}
ThreadCatalog ==
    LET catalog == MCCatalog
    IN  [catalog EXCEPT !["DIFFUSION3DPA"].CUDA = DIFFUSION3DPA_Threads]
=============================================================================
