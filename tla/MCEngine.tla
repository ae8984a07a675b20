------------------------------ MODULE MCEngine ------------------------------
(***************************************************************************)
(* Engine for TLC: the rule table of iptables.c and the chains a process   *)
(* may find, including the whole set a killed process left behind and a    *)
(* set cut short by a crash in the middle of apply_for.                    *)
(***************************************************************************)
EXTENDS Engine

MCNfqRules == {"tcp80", "tcp443", "udp53", "udp443"}
MCkRules   == <<"tcp80", "tcp443", "udp53", "udp443">>

MCClean     == { <<>> }
MCCrashed   == <<"mark", "udp443", "udp53", "tcp443", "tcp80", "ufw">>
MCLeftovers == { <<>>, <<"tcp443", "tcp80", "ufw">>, MCCrashed }

\* A shorter table for the run in which every deletion may fail, since the
\* rules that stay behind multiply the chains.
MCShortRules     == <<"tcp443", "udp53">>
MCShortLeftovers == { <<"udp53", "ufw">> }
=============================================================================
