---------------------------- MODULE WakeCorpusMC ----------------------------
EXTENDS WakeCorpus, TLC
CONSTANTS positive, negative

EitherVerdict == Permutations({positive, negative})
=============================================================================
