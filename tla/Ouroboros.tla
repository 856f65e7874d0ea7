----------------------------- MODULE Ouroboros ------------------------------
(***************************************************************************)
(* What the ouroboros recording of a conditional assignment promises, seen *)
(* from the chains alone: the chains lock their shares in order, and a     *)
(* chain hands its shares over only once every chain has locked; a chain   *)
(* that is not told in time returns them.  Nothing here makes the chains   *)
(* decide alike: that part of "no partial binding" is a claim about the    *)
(* coordinator, checked and refuted in CaaExchange.                        *)
(***************************************************************************)
EXTENDS Naturals

CONSTANT N              \* chains of the exchange

Chains == 0..N - 1

VARIABLES
    recorded,           \* chains that have locked their givers' shares
    outcome             \* what became of them on each chain

Init ==
    /\ recorded = {}
    /\ outcome = [c \in Chains |-> "open"]

Record(c) ==
    /\ c \notin recorded
    /\ \A p \in Chains : p < c => p \in recorded
    /\ recorded' = recorded \cup {c}
    /\ UNCHANGED outcome

Take(c) ==
    /\ Chains \subseteq recorded
    /\ outcome[c] = "open"
    /\ outcome' = [outcome EXCEPT ![c] = "taken"]
    /\ UNCHANGED recorded

Return(c) ==
    /\ c \in recorded
    /\ outcome[c] = "open"
    /\ outcome' = [outcome EXCEPT ![c] = "returned"]
    /\ UNCHANGED recorded

Next == \E c \in Chains : Record(c) \/ Take(c) \/ Return(c)

Spec == Init /\ [][Next]_<<recorded, outcome>>
=============================================================================
