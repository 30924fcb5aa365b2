---------------------------- MODULE MCLinkedMap ----------------------------
(* Four keys and four positions: lists of up to four entries, positions    *)
(* freed at both ends and in the middle, and used again.                   *)
EXTENDS LinkedMap, TLC

MCSymmetry == Permutations(Key) \cup Permutations(Value)

=============================================================================
