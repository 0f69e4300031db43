---------------------------- MODULE ScanKernels ----------------------------
(***************************************************************************)
(* The exclusive scans among the kernels: SCAN (src/algorithm), INDEXLIST  *)
(* and INDEXLIST_3LOOP (src/basic).  In their OpenMP variants every thread *)
(* scans a chunk of its own, and after a barrier brings it up by the sums  *)
(* of the chunks before it.  The runtime may grant fewer threads than the  *)
(* min(n, omp_get_max_threads()) asked for.                                *)
(*                                                                         *)
(* A cell that holds a sum is a bag of the iterations that contributed, as *)
(* everywhere; the loops over i keep the name of the loop of Base_Seq      *)
(* whose iteration i they stand for.  INDEXLIST on a GPU is GridScan.      *)
(***************************************************************************)
EXTENDS KernelLoops

LOCAL N == Target1

\* Variables of thread pid: its sum, the entry of thread_sums it fills in, and
\* the sum of the entries before.
LOCAL Local(pid) == <<"local", pid>>
LOCAL Sums(pid) == <<"thread_sums", pid>>
LOCAL Prev(pid) == <<"prev", pid>>
LOCAL ThreadCells ==
    {<<v, pid>> : v \in {"local", "thread_sums", "prev"}, pid \in 0 .. Threads - 1}
LOCAL Step(name, b) == <<Job(name, 0, b, 0, 0)>>

\* An update of the variable c by its only thread.
LOCAL Counts(b, c) == [b EXCEPT !.r = @ \cup {c}, !.a = @ \cup {c}]
LOCAL Keeps(b, c, d) == [b EXCEPT !.r = @ \cup {d}, !.from = c :> d]

\* for (ip = 0; ip < pid; ++ip) prev += thread_sums[ip]; a mutant adds the sum
\* of the thread itself.
SumsUpTo(pid) ==
    Step("prev", Body({}, {Prev(pid)}))
    \o Jobs("prevs", Upto(0, pid + 1), LAMBDA ip : AddTo(Prev(pid), Sums(ip)))
SumsBefore(pid) ==
    Step("prev", Body({}, {Prev(pid)}))
    \o Jobs("prevs", Upto(0, pid), LAMBDA ip : AddTo(Prev(pid), Sums(ip)))

-----------------------------------------------------------------------------
(* SCAN: y[i] = scan_var; scan_var += x[i].  A mutant does not free y.       *)
SCAN_DataKeepingY ==
    [Data([x |-> N, y |-> N], [y |-> N], {"x"}, 1) EXCEPT
        !.locals = {Var("scan_var")} \cup ThreadCells]
SCAN_Data ==
    [Data([x |-> N, y |-> N], [y |-> N], {"x", "y"}, 1) EXCEPT
        !.locals = {Var("scan_var")} \cup ThreadCells]
SCAN_Body(i, scan_var) ==
    Counts(Keeps(Body({<<"x", i>>}, {<<"y", i>>}), <<"y", i>>, scan_var), scan_var)
LOCAL SCAN_PROLOGUE == Host("zero", Body({}, {Var("scan_var")}))
SCAN_Seq ==
    <<SCAN_PROLOGUE, SeqLoop("scan", Upto(0, N), LAMBDA i : SCAN_Body(i, Var("scan_var")))>>
SCAN_OMP(p) ==
    LET Scan(pid) ==
            Step("local", IF pid = 0 THEN Take(Local(pid), Var("scan_var")) ELSE Body({}, {Local(pid)}))
            \o Jobs("scan", Chunk(N, p, pid), LAMBDA i : SCAN_Body(i, Local(pid)))
            \o Step("sum", Take(Sums(pid), Local(pid)))
        Shift(pid) ==
            SumsBefore(pid)
            \o Jobs("shift", Chunk(N, p, pid), LAMBDA i : AddTo(<<"y", i>>, Prev(pid)))
    IN  <<SCAN_PROLOGUE,
          Launch([t \in 1 .. p |-> Scan(t - 1)]),
          AfterBarrier([t \in 1 .. p |-> IF t = 1 THEN <<>> ELSE Shift(t - 1)])>>

-----------------------------------------------------------------------------
(* INDEXLIST: if (x[i] < 0) list[count++] = i.  Where an entry goes is taken *)
(* from Hits; that count had that value shows in what count had gathered,    *)
(* which the entry of the model keeps.                                       *)
LOCAL Hits == {i \in 0 .. N - 1 : i % 3 # 1}        \* the i with x[i] < 0
LOCAL Entry(i) == <<"list", Cardinality({h \in Hits : h < i})>>

INDEXLIST_Data ==
    [Data([x |-> N, list |-> N], [list |-> N], {"x", "list"}, 1) EXCEPT
        !.members = {"m_len"},
        !.locals = {Var("count")} \cup At("tmp_scan", 0 .. N - 1) \cup ThreadCells]
INDEXLIST_Body(i, x, count) ==
    IF i \in Hits THEN Counts(Keeps(Body({x}, {Entry(i)}), Entry(i), count), count)
                  ELSE Body({x}, {})
LOCAL INDEXLIST_Rep(loop) ==
    <<Host("zero", Body({}, {Var("count")}))>> \o loop \o <<Host("len", Take(Var("m_len"), Var("count")))>>
INDEXLIST_Seq ==
    INDEXLIST_Rep(<<SeqLoop("list", Upto(0, N), LAMBDA i : INDEXLIST_Body(i, <<"x", i>>, Var("count")))>>)
INDEXLIST_OMP(p) ==
    LET Inc(pid, i) == LET b == Body({<<"x", i>>}, {<<"tmp_scan", i>>})
                       IN  IF i \in Hits THEN Counts(b, Local(pid)) ELSE b
        Count(pid) ==
            Step("local", Body({}, {Local(pid)}))
            \o Jobs("list", Chunk(N, p, pid), LAMBDA i : Inc(pid, i))
            \o Step("sum", Take(Sums(pid), Local(pid)))
        Fill(pid) ==
            SumsBefore(pid)
            \o Jobs("list", Chunk(N, p, pid), LAMBDA i : INDEXLIST_Body(i, <<"tmp_scan", i>>, Prev(pid)))
            \* count is still 0
            \o (IF pid = p - 1 THEN Step("count", AddTo(Var("count"), Prev(pid))) ELSE <<>>)
    IN  INDEXLIST_Rep(<<Launch([t \in 1 .. p |-> Count(t - 1)]),
                        AfterBarrier([t \in 1 .. p |-> Fill(t - 1)])>>)

-----------------------------------------------------------------------------
(* INDEXLIST_3LOOP: counts[i] = x[i] < 0; an exclusive scan of the N + 1     *)
(* counts; list[counts[i]] = i where counts[i] # counts[i+1].  counts[N] is  *)
(* never set before the scan: what the scan adds there must not matter, and  *)
(* the model adds it without calling it a read.  A mutant counts the loops   *)
(* as one.                                                                   *)
INDEXLIST_3LOOP_DataOfOneLoop ==
    [Data([x |-> N, list |-> N], [list |-> N], {"x", "list"}, 1) EXCEPT
        !.members = {"m_len"},
        !.locals = {Var("count"), Var("len")} \cup At("counts", 0 .. N) \cup ThreadCells]
INDEXLIST_3LOOP_Data ==
    [Data([x |-> N, list |-> N], [list |-> N], {"x", "list"}, 3) EXCEPT
        !.members = {"m_len"},
        !.locals = {Var("count"), Var("len")} \cup At("counts", 0 .. N) \cup ThreadCells]
LOCAL Conditional(i) == Body({<<"x", i>>}, {<<"counts", i>>})
LOCAL ScanCounts(i, count) ==
    LET b == Keeps(Body(IF i = N THEN {} ELSE {<<"counts", i>>}, {<<"counts", i>>}), <<"counts", i>>, count)
    IN  IF i \in Hits \cup {N} THEN Counts(b, count) ELSE b
LOCAL MakeList(i) ==
    LET b == Body(At("counts", {i, i + 1}), {})
    IN  IF i \in Hits THEN Keeps([b EXCEPT !.w = {Entry(i)}], Entry(i), <<"counts", i>>) ELSE b
LOCAL SetLen == Host("len", Take(Var("m_len"), <<"counts", N>>))
LOCAL SequentialScan ==
    SeqLoop("scan", Upto(0, N + 1), LAMBDA i : ScanCounts(i, Var("count")))
INDEXLIST_3LOOP_Seq ==
    <<SeqLoop("cond", Upto(0, N), Conditional), Host("zero", Body({}, {Var("count")})), SequentialScan,
      SeqLoop("list", Upto(0, N), MakeList), SetLen>>
INDEXLIST_3LOOP_OMP(p) ==
    LET Scan(pid) ==
            Step("local", Body({}, {Local(pid)}))
            \o Jobs("scan", Chunk(N + 1, p, pid), LAMBDA i : ScanCounts(i, Local(pid)))
            \o Step("sum", Take(Sums(pid), Local(pid)))
        Shift(pid) ==
            SumsBefore(pid)
            \o Jobs("shift", Chunk(N + 1, p, pid), LAMBDA i : AddTo(<<"counts", i>>, Prev(pid)))
    IN  <<OmpFor("cond", Upto(0, N), Conditional),
          Launch([t \in 1 .. p |-> Scan(t - 1)]),
          AfterBarrier([t \in 1 .. p |-> IF t = 1 THEN <<>> ELSE Shift(t - 1)]),
          OmpFor("list", Upto(0, N), MakeList), SetLen>>
\* The scan is a library's (cub, rocprim); the thread of the last index also
\* hands counts[N] to the host.
INDEXLIST_3LOOP_CUDA ==
    LET Handed == Var("len") :> <<"counts", N>>
        Make(i) == IF i < N - 1 THEN MakeList(i)
                   ELSE [MakeList(i) EXCEPT !.w = @ \cup DOMAIN Handed, !.from = @ @@ Handed]
    IN  <<Forall("cond", 0, N, Conditional), Host("zero", Body({}, {Var("count")})), SequentialScan,
          Forall("list", 0, N, Make), Host("len", Take(Var("m_len"), Var("len")))>>

-----------------------------------------------------------------------------
\* The scans, with all the threads asked for and with one thread less.
ScanCatalog ==
    LET Fewer == Greatest(Threads - 1, 1)
    IN  [SCAN |->
            [data |-> SCAN_Data, Seq |-> SCAN_Seq,
             OpenMP |-> SCAN_OMP(Threads), OpenMPFewer |-> SCAN_OMP(Fewer)],
         INDEXLIST |->
            [data |-> INDEXLIST_Data, Seq |-> INDEXLIST_Seq,
             OpenMP |-> INDEXLIST_OMP(Threads), OpenMPFewer |-> INDEXLIST_OMP(Fewer)],
         INDEXLIST_3LOOP |->
            [data |-> INDEXLIST_3LOOP_Data, Seq |-> INDEXLIST_3LOOP_Seq,
             OpenMP |-> INDEXLIST_3LOOP_OMP(Threads), OpenMPFewer |-> INDEXLIST_3LOOP_OMP(Fewer),
             CUDA |-> INDEXLIST_3LOOP_CUDA]]
=============================================================================
