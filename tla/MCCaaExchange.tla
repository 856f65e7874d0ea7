--------------------------- MODULE MCCaaExchange ----------------------------
(***************************************************************************)
(* CaaExchange for TLC: values of the structured constants.                *)
(***************************************************************************)
EXTENDS CaaExchange

\* The giver on chain 0 has a SEQ_ID that exists on chain 1 too.
MCClash == {<<0, 1>>}
=============================================================================
