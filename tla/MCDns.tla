------------------------------- MODULE MCDns --------------------------------
(***************************************************************************)
(* Dns for TLC: Cloudflare and Google as on_dns_selected writes them, and  *)
(* a user who types one of the two as custom server; started with          *)
(* Cloudflare first or with a --dns-addr that is no address.               *)
(***************************************************************************)
EXTENDS Dns

CONSTANTS cf, google

MCServers    == {cf, google}
MCStarts     == {<<cf, google>>, <<Junk, google>>}
MCSelections == {<<google, cf>>}
MCCustoms    == {google, Junk}
MCValidIps   == {google}
=============================================================================
