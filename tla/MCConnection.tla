---------------------------- MODULE MCConnection ----------------------------
(* Instances of Connection for TLC. *)
EXTENDS Connection, TLC

CONSTANTS
  r1, r2, r3,       (* relays           *)
  e1, e2, e3, e4    (* exits            *)

(* Two ports on the first relay; one relay and one port past the limits *)
RacedRelays ==
  <<[id |-> r1, ports |-> <<1, 2, 3>>], [id |-> r2, ports |-> <<1>>],
    [id |-> r3, ports |-> <<1>>], [id |-> r1, ports |-> <<1>>]>>

(* Two exits in one datacenter, two cities and two countries *)
Exits ==
  e1 :> [datacenter |-> 1, city |-> "zrh", country |-> "ch", tier |-> 1] @@
  e2 :> [datacenter |-> 1, city |-> "zrh", country |-> "ch", tier |-> 2] @@
  e3 :> [datacenter |-> 2, city |-> "gva", country |-> "ch", tier |-> 1] @@
  e4 :> [datacenter |-> 3, city |-> "par", country |-> "fr", tier |-> 1]

RelayPlaces ==
  r1 :> [city |-> "zrh", country |-> "ch", preferred |-> {e3}] @@
  r2 :> [city |-> "par", country |-> "fr", preferred |-> {}]

SelectorChoices ==
  {[kind |-> "any"], [kind |-> "country", of |-> "ch"], [kind |-> "exit", of |-> e1]}

ServedLists == {{}, {e1, e2}, {e1, e2, e3, e4}}
=============================================================================
