------------------------------ MODULE OsNetwork ------------------------------
(***************************************************************************)
(* The service's side of the network.  On Linux: the configuration calls   *)
(* and the shutdown (NetworkConfig), the route enforcer (RouteEnforcer)    *)
(* and the preferred interface (InterfaceWatch).  On Windows: the calls    *)
(* and the shutdown (WindowsNetwork) and the active adapter                *)
(* (AdapterWatch).                                                         *)
(*                                                                         *)
(* The calls reach the enforcer through one watch channel only, and the    *)
(* enforcer tells them nothing; RouteEnforcer is open to any sequence of   *)
(* policies, those of the calls among them.  The interface shares nothing  *)
(* with the others.  So each behaviour follows the steps of one part,      *)
(* chosen at the start: what holds of a part's variables in its own        *)
(* behaviours holds of them in any interleaving with the others.           *)
(***************************************************************************)
EXTENDS WindowsNetwork, AdapterWatch

VARIABLE part   (* the part whose steps are taken *)

allVars == <<routeVars, netVars, windowsVars, watchVars, adapterVars, part>>

(* The parts that take no steps are fixed at one of their initial states. *)
Init ==
  /\ part \in {"routes", "calls", "interface", "windows", "adapters"}
  /\ part # "interface" => metric = [i \in Interface |-> NoRoute]
  /\ part # "adapters" => adapter = [i \in Interface |-> "other"]
  /\ part # "routes" => kernel = [f \in {"v4", "v6"} |-> {}]
  /\ part # "calls" => running = {} /\ firewall = Disengage
  /\ part # "windows" => rule = {}
  /\ WatchInit /\ AdapterInit /\ RouteInit /\ NetInit /\ WindowsInit

enforcerVars == <<kernel, events, policy, dirty, enforcer, family, request, tampering, errors>>

Enforcer ==
  /\ part = "routes" /\ RouteNext
  /\ UNCHANGED <<netVars, windowsVars, watchVars, adapterVars, part>>

LinuxCalls ==
  /\ part = "calls" /\ NetNext
  /\ UNCHANGED <<enforcerVars, windowsVars, watchVars, adapterVars, part>>

WindowsCalls ==
  /\ part = "windows" /\ WindowsNext
  /\ UNCHANGED <<enforcerVars, watchVars, adapterVars, part>>

PreferredInterface ==
  /\ \/ part = "interface" /\ WatchNext /\ UNCHANGED adapterVars
     \/ part = "adapters" /\ AdapterNext
  /\ UNCHANGED <<routeVars, netVars, windowsVars, part>>

Next == Enforcer \/ LinuxCalls \/ WindowsCalls \/ PreferredInterface

Spec == Init /\ [][Next]_allVars /\ WF_allVars(Enforcer /\ EnforcerStep)

-----------------------------------------------------------------------------
(* Returning Ok means that the whole configuration is in place              *)
(* (os_trait.rs line 23), on either system.                                 *)
OkIsHonest == IF part = "windows" THEN WindowsOkIsHonest ELSE LinuxOkIsHonest

(* Whatever fails, as much as possible is set up (os_trait.rs line 23), on  *)
(* either system.                                                           *)
AttemptsEveryPart == IF part = "windows" THEN WindowsAttemptsEveryPart ELSE LinuxAttemptsEveryPart

(* After the shutdown no call of the tunnel task comes last unless the wait *)
(* for it timed out (service/mod.rs line 86), on either system.             *)
ShutdownIsLast == IF part = "windows" THEN WindowsShutdownIsLast ELSE LinuxShutdownIsLast

(* The client uses the interface that is preferred now when nobody has news *)
(* of another on its way, on either system.                                 *)
ClientUsesPreferred == IF part = "adapters" THEN ClientUsesAdapter ELSE ClientUsesBestRoute

(* Whatever others remove, whichever requests fail and in whatever state    *)
(* an earlier process left the tables, the policy the calls ask for comes   *)
(* into force or is replaced (traffic_capture_routes.rs line 85).           *)
RoutesFollowPolicy == part = "routes" => PolicyComesIntoForce
=============================================================================
