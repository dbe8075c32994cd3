--------------------------- MODULE MCClientService ---------------------------
(* Instances of ClientService for TLC. *)
EXTENDS ClientService, TLC

CONSTANTS p1, p2   (* connections *)

(* A member of the group, and one the live-groups socket lets in or not *)
PeerAccesses == {p1 :> "group" @@ p2 :> "member", p1 :> "group" @@ p2 :> "none"}
=============================================================================
