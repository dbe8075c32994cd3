---------------------------- MODULE ExitSelection ----------------------------
(***************************************************************************)
(* src/rustlib/src/exit_selection.rs: which exit the next attempt uses,    *)
(* given those the attempts before it have used.                           *)
(***************************************************************************)
EXTENDS Naturals, FiniteSetsExt

CONSTANTS
  Exit,           (* the exits the service knows                           *)
  ExitOf,         (* exit -> [datacenter, city, country, tier]             *)
  RelayAt,        (* relay -> [city, country, preferred]                   *)
  PerDatacenter,  (* exits of a datacenter to use before a reset (2)       *)
  PerCity,        (* ... of a city (4)                                     *)
  PerCountry      (* ... of a country (6)                                  *)

ASSUME SelectionConstants ==
  /\ \A e \in Exit : ExitOf[e].tier \in 0..255
  /\ \A r \in DOMAIN RelayAt : RelayAt[r].preferred \subseteq Exit
  /\ PerDatacenter \in Nat \ {0} /\ PerCity \in Nat \ {0} /\ PerCountry \in Nat \ {0}

Datacenter == {ExitOf[e].datacenter : e \in Exit}
City == {ExitOf[e].city : e \in Exit}
Country == {ExitOf[e].country : e \in Exit}

(* A selector names the field it compares, or "any". *)
Matches(selector, e) ==
  CASE selector.kind = "any" -> TRUE
    [] selector.kind = "exit" -> e = selector.of
    [] selector.kind = "city" -> ExitOf[e].city = selector.of
    [] selector.kind = "country" -> ExitOf[e].country = selector.of

ExitSelectionState ==
  [ids : SUBSET Exit, datacenters : [Datacenter -> 0..PerDatacenter],
   cities : [City -> 0..PerCity], countries : [Country -> 0..PerCountry]]

Fresh ==
  [ids |-> {}, datacenters |-> [d \in Datacenter |-> 0],
   cities |-> [c \in City |-> 0], countries |-> [c \in Country |-> 0]]

Excluded(state, e) ==
  \/ e \in state.ids
  \/ state.datacenters[ExitOf[e].datacenter] >= PerDatacenter
  \/ state.cities[ExitOf[e].city] >= PerCity
  \/ state.countries[ExitOf[e].country] >= PerCountry

Flag(b) == IF b THEN 1 ELSE 0

(* The tuple the code compares, as one number: preferred by the relay, then *)
(* its city, its country, the tier.  Equals are told apart at random.       *)
Rank(e, r) ==
  1024 * Flag(e \in RelayAt[r].preferred) + 512 * Flag(ExitOf[e].city = RelayAt[r].city)
    + 256 * Flag(ExitOf[e].country = RelayAt[r].country) + ExitOf[e].tier

(* The exits select_next_exit may return; none: the state is cleared. *)
Selectable(state, selector, exits, r) ==
  LET open == {e \in exits : Matches(selector, e) /\ ~Excluded(state, e)}
  IN  {e \in open : \A f \in open : Rank(f, r) <= Rank(e, r)}

Used(state, e) ==
  [ids |-> state.ids \cup {e},
   datacenters |-> [state.datacenters EXCEPT ![ExitOf[e].datacenter] = @ + 1],
   cities |-> [state.cities EXCEPT ![ExitOf[e].city] = @ + 1],
   countries |-> [state.countries EXCEPT ![ExitOf[e].country] = @ + 1]]
=============================================================================
