---------------------------- MODULE MCTunnelState ----------------------------
(* Instances of TunnelState for TLC. *)
EXTENDS TunnelState, TLC

(* Connections are interchangeable, and so are interfaces. *)
Interchangeable == Permutations(Conn) \cup Permutations(Iface)
=============================================================================
