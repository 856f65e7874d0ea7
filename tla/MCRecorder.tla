----------------------------- MODULE MCRecorder -----------------------------
(***************************************************************************)
(* Recorder for TLC: values of the structured constants.                   *)
(***************************************************************************)
EXTENDS Recorder, TLC

MCNoDeadlines == [a \in Agreements |-> 0]
MCDeadlines == [a \in Agreements |-> 2]
MCGivers == [a \in Agreements |-> {1}]
Symmetry == Permutations(Keys) \cup Permutations(RewardKeys) \cup Permutations(Caas)
=============================================================================
