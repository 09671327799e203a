--------------------------- MODULE MCMemberSlice ---------------------------
EXTENDS MemberSlice, TLC

\* growslice doubles an array of up to 256 pointers: 0, 1, 2, 4 slots.
MCCap == [k \in 0..MaxArrays |-> IF k = 0 THEN 0 ELSE 2^(k - 1)]

Symmetry == Permutations(Node)
============================================================================
