------------------------------ MODULE MCSuite -------------------------------
(***************************************************************************)
(* Suite with two kernels to choose from, the second of them also the warmup *)
(* kernel of the first, and a third that only warms up. The first variant    *)
(* has one tuning, the second block sizes.                                   *)
(***************************************************************************)
EXTENDS Suite

CONSTANT MaxPasses
MCTunings ==
  << << <<"default">>, <<"block_256", "block_128">> >>,
     << <<"default">>, <<"block_256">> >>,
     << <<"default", "block_128">>, <<>> >> >>
MCWarmupOf == <<{2, 3}, {2}, {}>>

Names(ks, vs) == UNION {Range(Tunings[k][v]) : k \in ks, v \in vs}
(* Unknown tuning names are bad input, so the suite does not run with them.  *)
Runs ==
  {i \in [state : {"PerfRun"}, kernels : {{2}, {1, 2}}, variants : SUBSET {1, 2} \ {{}},
          selected : {{}, {"default", "block_256"}},
          excluded : {{}, {"default"}},
          warmup : BOOLEAN, npasses : {0, MaxPasses}, outdir : {TRUE}] :
     i.selected \cup i.excluded \subseteq Names(i.kernels, i.variants)}
Default ==
  [state |-> "PerfRun", kernels |-> {1, 2}, variants |-> {1, 2}, selected |-> {}, excluded |-> {},
   warmup |-> TRUE, npasses |-> MaxPasses, outdir |-> FALSE]
MCInputs ==
  Runs \cup {[Default EXCEPT !.state = x] : x \in {"CheckRun", "PerfRun", "DryRun", "BadInput", "InfoRequest"}}
       \cup {[Default EXCEPT !.npasses = -1]}
(* For the runs about progress. *)
FewInputs == {i \in MCInputs : i.selected \cup i.excluded = {} /\ i.kernels = {1, 2}}

=============================================================================
