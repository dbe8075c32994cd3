----------------------------- MODULE Connection -----------------------------
(***************************************************************************)
(* How a tunnel comes up and is kept: the race of the relays (RelayRace),  *)
(* the attempts that use its winner (Connecting, with ExitSelection), the  *)
(* TCP channel to the relay (RelayChannel), and the probes of a connected  *)
(* tunnel (Liveness).                                                      *)
(*                                                                         *)
(* These follow one another and share no state: the race hands over one    *)
(* handshake, the attempt one connection, and the probes travel inside     *)
(* encrypted packets.  Connecting is open to every outcome of a race, and  *)
(* TunnelState to every outcome of an attempt and of a tunnel.  So each    *)
(* behaviour follows the steps of one part, chosen at the start.           *)
(***************************************************************************)
EXTENDS RelayRace, Connecting, RelayChannel, Liveness

VARIABLE part   (* the part whose steps are taken *)

allVars == <<raceVars, connectVars, channelVars, livenessVars, part>>

(* The parts that take no steps are fixed at one of their initial states. *)
Init ==
  /\ part \in {"race", "attempts", "channel", "probes"}
  /\ RaceInit /\ ConnectInit /\ ChannelInit /\ LivenessInit
  /\ part # "attempts" => selector.kind = "any" /\ ~haveRelays /\ exits = None
  /\ part # "probes" => network = "good"

RelaySelection ==
  /\ part = "race" /\ RaceNext
  /\ UNCHANGED <<connectVars, channelVars, livenessVars, part>>

Attempts ==
  /\ part = "attempts" /\ ConnectNext
  /\ UNCHANGED <<raceVars, channelVars, livenessVars, part>>

Channel ==
  /\ part = "channel" /\ ChannelNext
  /\ UNCHANGED <<raceVars, connectVars, livenessVars, part>>

Probes ==
  /\ part = "probes" /\ LivenessNext
  /\ UNCHANGED <<raceVars, connectVars, channelVars, part>>

Next == RelaySelection \/ Attempts \/ Channel \/ Probes

Spec == Init /\ [][Next]_allVars

=============================================================================
