---------------------------- MODULE MCSendService ----------------------------
\* Two letters to send, three jobs, and MAX_JOBS down to one.
EXTENDS SendService, TLC

CONSTANTS k1, k2

MCKeys == {k1, k2}
MCSymmetry == Permutations(MCKeys)
=============================================================================
