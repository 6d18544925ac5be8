------------------------------ MODULE MCMspace ------------------------------
(***************************************************************************)
(* Mspace with small bins, small units of memory and few addresses.  Each  *)
(* initial state has a topic: a scenario of calls within its own limits,   *)
(* or a topic of Arithmetic, in a state that nothing follows.              *)
(***************************************************************************)
EXTENDS Mspace, Arithmetic

CONSTANT Memory  \* number of units the system has

MCBases == {k * Granularity : k \in 1..Memory}
Batch == {<<20, 40>>}

OneThread == {CHOOSE t \in Threads : TRUE}
Basic == {"malloc", "free"}

Limit(threads, calls, requests, units, blocks) ==
  [threads |-> threads, calls |-> calls, requests |-> requests,
   memory |-> {k * Granularity : k \in 1..units}, blocks |-> blocks]

Limits ==
  [segments |-> Limit(OneThread, Basic \cup {"trim", "destroy"}, {88, 150}, 4, 2),
   small    |-> Limit(OneThread, Basic \cup {"realloc"}, {20, 88, 150}, 2, 2),
   batch    |-> Limit(OneThread, Basic \cup {"independent"}, {16, 20, 40}, 2, 3),
   threads  |-> Limit(Threads, Basic \cup {"memalign"}, {20}, 2, 1),
   moves    |-> Limit(Threads, Basic \cup {"realloc"}, {20, 88}, 2, 1),
   trees    |-> Limit(OneThread, Basic, {88, 130, 150}, 0, 3)]

\* In one tree bin, with two chunks of one size, and one in the next.
SevenLarge == <<112, 120, 136, 136, 144, 160, 180>>

\* In an mspace with memory of the caller's: each large chunk, and a small one
\* after it that nobody gives back.
Filled ==
  FoldLeft(LAMBDA acc, bytes :
             LET got == Malloc(acc.m, bytes, Fail)
             IN  [m |-> Malloc(got.m, 1, Fail).m, got |-> Append(acc.got, got.p)],
           [m |-> NewMState(16 * Granularity, 2048, TRUE), got |-> <<>>], SevenLarge)

\* The large chunks were given back in this order.
GivenBack(filled, order) ==
  FoldLeft(LAMBDA s, k : Free(s, filled.got[k], {}), filled.m, order)

\* What the callers asked for, and the calls still under way.
Asked ==
  {live[p] : p \in DOMAIN live}
    \cup UNION {LET c == call[t]
                IN  IF c.op = "free" THEN {c.ret[p] : p \in DOMAIN c.ret}
                    ELSE IF c.op \in {"move", "align"} THEN {c.bytes} ELSE {} : t \in Threads}

MCInit ==
  /\ live = <<>> /\ call = [t \in Threads |-> Idle]
  /\ \/ /\ topic \in DOMAIN Limits \ {"trees"} /\ n = 0
        /\ m \in {s \in NewMStates : s.mapped \subseteq Limits[topic].memory}
     \/ /\ topic = "trees" /\ n = 0
        /\ \E order \in SetToSeqs(DOMAIN SevenLarge) : m = GivenBack(Filled, order)
     \/ /\ topic \in Topics /\ n \in Numbers(topic)
        /\ m = NewMState(Granularity, Granularity, FALSE)

MCNext ==
  /\ topic \in DOMAIN Limits /\ UNCHANGED arithmeticVars
  /\ LET limit == Limits[topic]
     IN  /\ \/ \E t \in limit.threads :
                 \/ mspace_malloc(t)
                 \/ mspace_free(t)
                 \/ "realloc" \in limit.calls /\ mspace_realloc(t)
                 \/ ReallocMoves(t)
                 \/ FreeRest(t)
                 \/ "memalign" \in limit.calls /\ mspace_memalign(t)
                 \/ MemalignAligns(t)
                 \/ "independent" \in limit.calls /\ mspace_independent(t)
                 \/ IndependentSplits(t)
                 \/ "trim" \in limit.calls /\ mspace_trim(t)
            \/ "destroy" \in limit.calls /\ destroy_mspace
         /\ m'.mapped \subseteq limit.memory /\ Cardinality(DOMAIN live') <= limit.blocks
         /\ Asked' \subseteq limit.requests

MCSpec == MCInit /\ [][MCNext]_<<vars, arithmeticVars>>
=============================================================================
