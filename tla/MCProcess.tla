------------------------------ MODULE MCProcess -----------------------------
(***************************************************************************)
(* Process for TLC: processes launched one after the other, with a table   *)
(* of two rules (one per protocol) to leave room for the leftovers of      *)
(* killed ones.                                                            *)
(***************************************************************************)
EXTENDS Process

MCRules     == <<"tcp443", "udp53">>
MCRuleSet   == {"tcp443", "udp53"}
MCLeftovers == { <<"ufw">> }
=============================================================================
