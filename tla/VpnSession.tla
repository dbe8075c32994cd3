------------------------------ MODULE VpnSession ------------------------------
(***************************************************************************)
(* What the client promises its user, whatever the order of commands,      *)
(* network changes and failures: a session is shown as connected only      *)
(* while traffic is captured, it never changes its exit or its connection  *)
(* under the user's feet, and captured traffic is let out again only when  *)
(* the session is shown as disconnected.                                   *)
(***************************************************************************)
CONSTANTS Args, Conn, NONE

VARIABLES
  status,   (* what is published: the kind of state, its exit, its connection *)
  net       (* "captured" when rules keep traffic off the open network        *)

session == <<status, net>>

Closed       == [kind |-> "disconnected", args |-> NONE, conn |-> NONE]
Connecting(a) == [kind |-> "connecting", args |-> a, conn |-> NONE]
Connected(a, c) == [kind |-> "connected", args |-> a, conn |-> c]

SessionInit == status = Closed /\ net \in {"open", "captured"}

(* A session starts, is redirected to another exit, or loses its connection. *)
Ask == \E a \in Args : status' = Connecting(a) /\ net' = net

Close == status' = Closed /\ net' = net

(* A connection is shown for the exit that was asked for, behind the rules. *)
Establish ==
  /\ status.kind = "connecting"
  /\ net = "captured"
  /\ \E c \in Conn : status' = Connected(status.args, c)
  /\ net' = net

Capture == net' = "captured" /\ status' = status

Release == status.kind = "disconnected" /\ net' = "open" /\ status' = status

SessionNext == Ask \/ Close \/ Establish \/ Capture \/ Release

SessionSpec == SessionInit /\ [][SessionNext]_session
=============================================================================
