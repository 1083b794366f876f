--------------------------- MODULE MCVecFeatures ----------------------------
(* Processors of every level from SSE2, which x86-64 always has, up to AVX2.*)
EXTENDS VecFeatures

Levels == << {"MMX", "SSE", "SSE2"}, {"SSE3"}, {"SSSE3"}, {"SSE4_1"},
             {"SSE4_2"}, {"AVX"}, {"AVX2"} >>
MCCpus == {UNION {Levels[i] : i \in 1 .. n} : n \in 1 .. 7}
MCMasks == {{}, {"SSE", "SSE2"}, {"SSSE3", "AVX"}, {"SSE4_2"}, {"SSE3", "AVX2"}}
=============================================================================
