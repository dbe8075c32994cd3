---------------------------- MODULE NetworkConfig ----------------------------
(***************************************************************************)
(* The network configuration of the Linux service:                         *)
(* set_os_network_config and unset_os_network_config of                    *)
(* src/rustlib/src/bin/obscura/service/os/linux/mod.rs with the DNS        *)
(* managers and the tun device they configure, RevocableOs of              *)
(* src/rustlib/src/os/os_trait.rs through which the tunnel task calls      *)
(* them, and the shutdown of src/rustlib/src/bin/obscura/service/mod.rs    *)
(* that takes the access away and calls them itself.                       *)
(*                                                                         *)
(* Every await is a step of its own.  A call goes through all its parts    *)
(* and remembers whether one failed.  The firewall is taken as a whole     *)
(* here; LinuxFirewall and NftTable have its steps.  The desired policy of *)
(* the routes goes to the RouteEnforcer.                                   *)
(***************************************************************************)
EXTENDS RouteEnforcer

CONSTANTS
  Address,     (* addresses a network configuration gives the tun device   *)
  Dummy,       (* the address the device starts with                       *)
  Configs,     (* the network configurations of the tunnels                *)
  DnsArg,      (* the --dns argument: auto, disabled, resolved, nm         *)
  MaxCalls     (* bound: calls of the tunnel task                          *)

(* use_system_dns, dns and the addresses *)
OsNetworkConfig == [system : BOOLEAN, dns : SUBSET Resolver, addr : Address]

ASSUME NetworkConstants ==
  /\ Dummy \notin Address
  /\ Configs \subseteq OsNetworkConfig
  /\ DnsArg \in {"auto", "disabled", "resolved", "nm"}
  /\ MaxCalls \in Nat

VARIABLES
  call,       (* the call each caller is in                                *)
  mutex,      (* who holds the lock of current_network_config              *)
  firewall,   (* the policy the packet filter enforces                     *)
  dnsAt,      (* the resolvers configured for the tun device in each       *)
              (* manager, PARTIAL when its calls stopped half way          *)
  running,    (* the DNS managers that run, resolved in stub mode          *)
  addrs,      (* the addresses of the tun device                           *)
  bare,       (* history: an address could not be added                    *)
  revoked,    (* RevocableOs.inner is None                                 *)
  revoking,   (* a writer waits for the lock of RevocableOs                *)
  timedOut,   (* ... and gave up                                           *)
  service,    (* the shutdown: up, stopping, unsetting, ...                 *)
  last,       (* the call finished last, with its outcome                  *)
  calls       (* counts the calls of the tunnel task                       *)

netVars == <<call, mutex, firewall, dnsAt, running, addrs, bare, revoked, revoking,
             timedOut, service, last, calls>>

Manager == {"resolved", "nm"}
NoOne == "none"
PARTIAL == {"partial"}

(* The resolvers DNS is sent to: none of ours with the system's DNS. *)
TunnelDns(c) == IF c.system THEN {} ELSE c.dns

Unset == [to |-> "unset", kill |-> FALSE]
Set(c) == [to |-> "set", config |-> c]
Unsets == {[Unset EXCEPT !.kill = k] : k \in BOOLEAN}

(* disconnected_policy, and the policy set_os_network_config engages *)
PolicyOf(what) ==
  IF what.to = "set" THEN [engaged |-> TRUE, dns |-> TunnelDns(what.config)]
  ELSE [engaged |-> what.kill, dns |-> {}]

WantedDns(what) == IF what.to = "set" THEN TunnelDns(what.config) ELSE {}

Idle == [step |-> "idle", what |-> Unset, ok |-> TRUE, manager |-> NoOne]

NetInit ==
  /\ call = [c \in {"tunnel", "shutdown"} |-> Idle]
  /\ mutex = NoOne
  /\ firewall \in {Disengage, [Disengage EXCEPT !.engaged = TRUE]}
  /\ dnsAt = [m \in Manager |-> {}] /\ running \in SUBSET Manager
  /\ addrs = {Dummy} /\ bare = FALSE
  /\ revoked = FALSE /\ revoking = FALSE /\ timedOut = FALSE /\ service = "up"
  /\ last = Idle /\ calls = 0

(* Records the next step of a call, and whether a part has failed. *)
Goes(c, s, ok) == call' = [call EXCEPT ![c].step = s, ![c].ok = @ /\ ok]

At(c, s) == call[c].step = s /\ service # "down"

callerVars == <<revoked, revoking, timedOut, service, calls, running>>

-----------------------------------------------------------------------------
(* RevocableOs: the tunnel task, which calls one at a time *)
TunnelCalls ==
  /\ At("tunnel", "idle") /\ calls < MaxCalls
  /\ \E w \in Unsets \cup {Set(c) : c \in Configs} :
       call' = [call EXCEPT !["tunnel"] = [Idle EXCEPT !.step = "enter", !.what = w]]
  /\ calls' = calls + 1
  /\ UNCHANGED <<mutex, firewall, dnsAt, running, addrs, bare, revoked, revoking, timedOut,
                 service, last, desired, changed>>

(* The read lock: not while a writer waits; after it, pending forever. *)
EnterCall ==
  /\ At("tunnel", "enter") /\ ~revoking
  /\ Goes("tunnel", IF revoked THEN "forever" ELSE "lock", TRUE)
  /\ UNCHANGED <<mutex, firewall, dnsAt, addrs, bare, last, desired, changed, callerVars>>

(* The read lock is held from there to the end of the call. *)
Reading == call["tunnel"].step \notin {"idle", "enter", "forever"}

Lock(c) ==
  /\ At(c, "lock") /\ mutex = NoOne
  /\ mutex' = c
  /\ Goes(c, "firewall", TRUE)
  /\ UNCHANGED <<firewall, dnsAt, addrs, bare, last, desired, changed, callerVars>>

(* apply_firewall: a failed change may have taken effect or not. *)
ApplyFirewall(c) ==
  /\ At(c, "firewall")
  /\ \E ok \in BOOLEAN :
       /\ Goes(c, "route", ok)
       /\ firewall' \in {PolicyOf(call[c].what)} \cup (IF ok THEN {} ELSE {firewall})
  /\ UNCHANGED <<mutex, dnsAt, addrs, bare, last, desired, changed, callerVars>>

FaultyRoute(c) ==
  /\ At(c, "route")
  /\ IF call[c].ok THEN SendPolicy(PolicyOf(call[c].what)) ELSE UNCHANGED <<desired, changed>>
  /\ Goes(c, "choose", TRUE)
  /\ UNCHANGED <<mutex, firewall, dnsAt, addrs, bare, last, callerVars>>

Route(c) ==
  /\ At(c, "route")
  /\ SendPolicy(PolicyOf(call[c].what))
  /\ Goes(c, "choose", TRUE)
  /\ UNCHANGED <<mutex, firewall, dnsAt, addrs, bare, last, callerVars>>

(* choose_dns_manager *)
Choice ==
  CASE DnsArg = "disabled"                          -> "disabled"
    [] DnsArg = "auto" /\ "resolved" \in running    -> "resolved"
    [] DnsArg = "auto" /\ running = {"nm"}          -> "nm"
    [] DnsArg \in running                           -> DnsArg
    [] OTHER                                        -> NoOne

AfterDns(c) == IF call[c].what.to = "set" THEN "add" ELSE "finish"

ChooseDnsManager(c) ==
  /\ At(c, "choose")
  /\ call' = [call EXCEPT ![c].manager = Choice, ![c].ok = @ /\ Choice # NoOne,
                          ![c].step = IF Choice \in Manager THEN "dns" ELSE AfterDns(c)]
  /\ UNCHANGED <<mutex, firewall, dnsAt, addrs, bare, last, desired, changed, callerVars>>

(* NetworkManager applies its settings in one request; resolved takes the   *)
(* addresses, the domain, DNS over TLS and a flush one after another, and   *)
(* reverts the link in one.                                                 *)
SetDns(c) ==
  LET m == call[c].manager
      want == WantedDns(call[c].what)
      halfway == IF m = "resolved" /\ want # {} THEN {PARTIAL, want} ELSE {}
  IN /\ At(c, "dns")
     /\ \E ok \in BOOLEAN :
          /\ Goes(c, AfterDns(c), ok)
          /\ dnsAt' \in {[dnsAt EXCEPT ![m] = d] : d \in IF ok THEN {want} ELSE {dnsAt[m]} \cup halfway}
     /\ UNCHANGED <<mutex, firewall, addrs, bare, last, desired, changed, callerVars>>

FaultyAddAddress(c) ==
  /\ At(c, "add")
  /\ \E ok \in BOOLEAN :
       /\ call' = [call EXCEPT ![c].step = "remove", ![c].ok = ok]
       /\ addrs' = addrs \cup (IF ok THEN {call[c].what.config.addr} ELSE {})
       /\ bare' = ~ok
  /\ UNCHANGED <<mutex, firewall, dnsAt, last, desired, changed, callerVars>>

(* Tun::set_config adds the addresses, which may exist already, ... *)
AddAddress(c) ==
  /\ At(c, "add")
  /\ \E added, ok \in BOOLEAN :
       /\ ok => added
       /\ Goes(c, "remove", ok)
       /\ addrs' = addrs \cup (IF added THEN {call[c].what.config.addr} ELSE {})
       /\ bare' = ~added
  /\ UNCHANGED <<mutex, firewall, dnsAt, last, desired, changed, callerVars>>

(* ... and then removes the others it finds, even if adding has failed. *)
RemoveAddresses(c) ==
  /\ At(c, "remove")
  /\ \E kept \in SUBSET (addrs \ {call[c].what.config.addr}) :
       /\ addrs' = (addrs \cap {call[c].what.config.addr}) \cup kept
       /\ Goes(c, "finish", kept = {})
  /\ UNCHANGED <<mutex, firewall, dnsAt, bare, last, desired, changed, callerVars>>

(* The result becomes current_network_config, and the lock is released. *)
FinishCall(c) ==
  /\ At(c, "finish")
  /\ last' = call[c]
  /\ call' = [call EXCEPT ![c] = Idle]
  /\ mutex' = NoOne
  /\ service' = IF c = "shutdown" THEN "unset" ELSE service
  /\ UNCHANGED <<firewall, dnsAt, running, addrs, bare, revoked, revoking, timedOut, calls,
                 desired, changed>>

CallStep(c) ==
  \/ Lock(c) \/ ApplyFirewall(c) \/ Route(c) \/ ChooseDnsManager(c) \/ SetDns(c)
  \/ AddAddress(c) \/ RemoveAddresses(c) \/ FinishCall(c)

-----------------------------------------------------------------------------
(* run() of the service.  The signal is an argument: service/mod.rs says    *)
(* nothing of the system, but only the Windows service is given one so far. *)
RequestShutdown ==
  /\ service = "up"
  /\ service' = "stopping" /\ revoking' = TRUE
  /\ UNCHANGED <<call, mutex, firewall, dnsAt, running, addrs, bare, revoked, timedOut,
                 last, calls, desired, changed>>

(* The shutdown's own call goes past RevocableOs. *)
UnsetAtLast ==
  /\ service' = "unsetting" /\ revoking' = FALSE
  /\ call' = [call EXCEPT !["shutdown"] = [Idle EXCEPT !.step = "lock"]]

FaultyRevoke ==
  /\ service = "stopping"
  /\ revoked' = TRUE /\ UnsetAtLast
  /\ UNCHANGED <<mutex, firewall, dnsAt, running, addrs, bare, timedOut, last, calls,
                 desired, changed>>

Revoke ==
  /\ service = "stopping" /\ ~Reading
  /\ revoked' = TRUE /\ UnsetAtLast
  /\ UNCHANGED <<mutex, firewall, dnsAt, running, addrs, bare, timedOut, last, calls,
                 desired, changed>>

(* After 20 seconds the call that holds the read lock is not waited for.    *)
TimeOutRevoke ==
  /\ service = "stopping" /\ Reading
  /\ timedOut' = TRUE /\ UnsetAtLast
  /\ UNCHANGED <<mutex, firewall, dnsAt, running, addrs, bare, revoked, last, calls,
                 desired, changed>>

(* run() returns, and the process ends with all its tasks. *)
Exit ==
  /\ service = "unset" /\ service' = "down"
  /\ UNCHANGED <<call, mutex, firewall, dnsAt, running, addrs, bare, revoked, revoking,
                 timedOut, last, calls, desired, changed>>

(* systemd-resolved and NetworkManager start, stop and are reconfigured. *)
ManagersChange ==
  /\ service # "down"
  /\ running' \in SUBSET Manager
  /\ UNCHANGED <<call, mutex, firewall, dnsAt, addrs, bare, revoked, revoking, timedOut,
                 service, last, calls, desired, changed>>

NetStep ==
  EnterCall \/ Revoke \/ TimeOutRevoke \/ Exit \/ \E c \in {"tunnel", "shutdown"} : CallStep(c)

NetNext == NetStep \/ TunnelCalls \/ RequestShutdown \/ ManagersChange

-----------------------------------------------------------------------------
NetTypeOK ==
  /\ DOMAIN call = {"tunnel", "shutdown"} /\ DOMAIN dnsAt = Manager
  /\ mutex \in {NoOne, "tunnel", "shutdown"}
  /\ firewall \in Policy /\ running \subseteq Manager
  /\ \A m \in Manager : dnsAt[m] \in (SUBSET Resolver) \cup {PARTIAL}
  /\ addrs \subseteq Address \cup {Dummy}
  /\ service \in {"up", "stopping", "unsetting", "unset", "down"}
  /\ {bare, revoked, revoking, timedOut} \subseteq BOOLEAN

(* Returning Ok means that the whole configuration is in place (os_trait.rs *)
(* line 23): while no call runs after one that returned Ok, the filter has  *)
(* its policy, the route enforcer is told the same, the DNS manager it      *)
(* chose resolves accordingly and the tun device has exactly the addresses  *)
(* of the last configuration set.                                           *)
LinuxOkIsHonest ==
  mutex = NoOne /\ last # Idle /\ last.ok =>
    /\ firewall = PolicyOf(last.what) /\ desired = firewall
    /\ last.manager \in Manager => dnsAt[last.manager] = WantedDns(last.what)
    /\ last.what.to = "set" => addrs = {last.what.config.addr}

(* Attempting all parts regardless of failures (linux/mod.rs line 137):     *)
(* whatever failed, once a call is over the routes follow it, and the       *)
(* device keeps an address unless the new one could not be added (tun.rs    *)
(* line 100).                                                               *)
LinuxAttemptsEveryPart ==
  /\ mutex = NoOne /\ last # Idle => desired = PolicyOf(last.what)
  /\ addrs = {} => bare

(* After the service has shut down, nothing a call of the tunnel task does  *)
(* comes after the final unset, unless the wait for that call timed out     *)
(* (service/mod.rs line 86): the routes are released, no call is half done, *)
(* and the filter is off if the unset succeeded.                            *)
LinuxShutdownIsLast ==
  service = "down" /\ ~timedOut =>
    /\ mutex = NoOne /\ desired = Disengage
    /\ last.what = Unset /\ (last.ok => firewall = Disengage)
=============================================================================
