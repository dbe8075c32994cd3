---------------------------- MODULE MCOsNetwork ----------------------------
(* Instances of OsNetwork for TLC. *)
EXTENDS OsNetwork, TLC

CONSTANTS
  d4, d6,      (* one resolver of each family *)
  a1, a2,      (* addresses                   *)
  eth, wifi    (* interfaces                  *)

Families == d4 :> "v4" @@ d6 :> "v6"

(* Disconnected, and connected with either resolver *)
SentPolicies == {Disengage} \cup {[engaged |-> TRUE, dns |-> {d}] : d \in Resolver}

(* Two tunnels, and the first one with the DNS of the system *)
TunnelConfigs ==
  {[system |-> FALSE, dns |-> {d4}, addr |-> a1], [system |-> FALSE, dns |-> {d6}, addr |-> a2],
   [system |-> TRUE, dns |-> {d4}, addr |-> a1]}

AdapterList == <<eth, wifi>>
=============================================================================
