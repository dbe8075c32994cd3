--------------------------- MODULE WindowsNetwork ---------------------------
(***************************************************************************)
(* The network configuration of the Windows service: set_config and        *)
(* shutdown of src/rustlib/src/bin/obscura/service/os/windows/tun.rs with  *)
(* the adapter settings of iphelper.rs and the name resolution policy      *)
(* (NRPT) rule of nrpt.rs, behind the same RevocableOs and shutdown as on  *)
(* Linux, which the service control manager asks for (scm.rs).             *)
(*                                                                         *)
(* There is no lock around a call: the last call of the service runs       *)
(* beside one of the tunnel task that was not waited for.  Every command,  *)
(* request or registry change is a step of its own and may fail.  The      *)
(* adapter and its routes go with the process that created it; the rule    *)
(* stays in the registry.                                                  *)
(***************************************************************************)
EXTENDS NetworkConfig

CONSTANTS
  Nobody,          (* Option::None of the read task                         *)
  MaxFailedParts   (* bound: parts of calls that fail                       *)

ASSUME WindowsConstants ==
  /\ MaxFailedParts \in Nat /\ Nobody \notin Configs
  /\ "halves" \notin Resolver

VARIABLES
  device,      (* where the MTU and the addresses of the adapter come from  *)
  servers,     (* the name servers of the adapter                           *)
  metrics,     (* the metrics of the adapter: automatic, low, mixed         *)
  routes,      (* the routes over the adapter: the halves of the address    *)
               (* spaces and one for each resolver                          *)
  rule,        (* the name servers of the NRPT rule, none without a rule    *)
  remembered,  (* dns_routes                                                *)
  stale,       (* stale_dns_ips of each call                                *)
  reader,      (* the configuration whose tunnel the read task feeds        *)
  session,     (* the wintun session: open, shut                            *)
  failed       (* counts the parts that failed                              *)

deviceVars == <<device, servers, metrics, routes, rule>>
tunVars == <<remembered, stale, reader, session>>
windowsVars == <<deviceVars, tunVars, failed>>

(* What set_routes adds for its resolvers *)
Routes(dns) == {"halves"} \cup dns

(* Tun::create deletes the rule an earlier process left, if it can. *)
WindowsInit ==
  /\ device = [k \in {"mtu", "ipv4", "ipv6"} |-> Dummy] /\ servers = {}
  /\ metrics = "automatic" /\ routes = {} /\ rule \in {{}} \cup {c.dns : c \in Configs}
  /\ remembered = {} /\ stale = [c \in {"tunnel", "shutdown"} |-> {}]
  /\ reader = Nobody /\ session = "open" /\ failed = 0

Setting(c) == call[c].what.to = "set"
Dns(c) == call[c].what.config.dns

(* The part that follows each one, in set_config and in shutdown *)
NextSetPart ==
  [lock |-> "mtu", mtu |-> "ipv4", ipv4 |-> "ipv6", ipv6 |-> "servers", servers |-> "metric",
   metric |-> "routes", routes |-> "rule", rule |-> "flush", flush |-> "spawn", spawn |-> "finish"]
NextUnsetPart ==
  [lock |-> "rule", rule |-> "flush", flush |-> "metric", metric |-> "routes", routes |-> "finish"]

NextPart(c) == (IF Setting(c) THEN NextSetPart ELSE NextUnsetPart)[call[c].step]

(* Every part is attempted; the call remembers whether one failed. *)
Then(c, ok) ==
  /\ Goes(c, NextPart(c), ok)
  /\ ok \/ failed < MaxFailedParts
  /\ failed' = IF ok THEN failed ELSE failed + 1
  /\ UNCHANGED <<mutex, firewall, dnsAt, addrs, bare, last, desired, changed, callerVars>>

-----------------------------------------------------------------------------
FaultyRemember(c) ==
  /\ At(c, "lock") /\ Then(c, TRUE)
  /\ remembered' = IF Setting(c) THEN Dns(c) ELSE remembered
  /\ stale' = [stale EXCEPT ![c] = IF Setting(c) THEN remembered \ Dns(c) ELSE {}]
  /\ UNCHANGED <<deviceVars, reader, session>>

(* The resolvers of earlier calls whose routes may still be there *)
Remember(c) ==
  /\ At(c, "lock") /\ Then(c, TRUE)
  /\ remembered' = IF Setting(c) THEN remembered \cup Dns(c) ELSE remembered
  /\ stale' = [stale EXCEPT ![c] = IF Setting(c) THEN remembered \ Dns(c) ELSE {}]
  /\ UNCHANGED <<deviceVars, reader, session>>

(* set_mtu, set_ipv4_address, set_ipv6_address: a netsh command each *)
SetDevice(c) ==
  /\ call[c].step \in DOMAIN device /\ service # "down"
  /\ \E ok \in BOOLEAN :
       /\ Then(c, ok)
       /\ device' = IF ok THEN [device EXCEPT ![call[c].step] = call[c].what.config.addr] ELSE device
  /\ UNCHANGED <<servers, metrics, routes, rule, tunVars>>

(* The netsh fallback sets one server after another. *)
SetDnsServers(c) ==
  /\ At(c, "servers")
  /\ \E ok \in BOOLEAN :
       /\ Then(c, ok)
       /\ servers' \in IF ok THEN {Dns(c)} ELSE {servers, PARTIAL}
  /\ UNCHANGED <<device, metrics, routes, rule, tunVars>>

(* One family after the other, and both whatever happens *)
SetMetric(c) ==
  /\ At(c, "metric")
  /\ \E ok \in BOOLEAN :
       /\ Then(c, ok)
       /\ metrics' \in IF ~ok THEN {metrics, "mixed"} ELSE IF Setting(c) THEN {"low"} ELSE {"automatic"}
  /\ UNCHANGED <<device, servers, routes, rule, tunVars>>

(* A route that exists is as good as added, a missing one as removed. *)
SetRoutes(c) ==
  /\ At(c, "routes") /\ Setting(c)
  /\ \E added \in SUBSET Routes(Dns(c)), removed \in SUBSET stale[c] :
       /\ Then(c, added = Routes(Dns(c)) /\ removed = stale[c])
       /\ routes' = (routes \cup added) \ removed
  /\ UNCHANGED <<device, servers, metrics, rule, tunVars>>

(* shutdown forgets the resolvers when all its parts succeeded. *)
RemoveRoutes(c) ==
  /\ At(c, "routes") /\ ~Setting(c)
  /\ \E removed \in SUBSET Routes(remembered) :
       LET ok == removed = Routes(remembered)
       IN /\ Then(c, ok)
          /\ routes' = routes \ removed
          /\ remembered' = IF ok /\ call[c].ok THEN {} ELSE remembered
  /\ UNCHANGED <<device, servers, metrics, rule, stale, reader, session>>

(* A rule that cannot be created is deleted, which then counts as success. *)
CreateRule(c) ==
  /\ At(c, "rule") /\ Setting(c)
  /\ \/ Then(c, TRUE) /\ rule' \in {Dns(c), {}}
     \/ Then(c, FALSE) /\ rule' \in {rule, Dns(c)}
  /\ UNCHANGED <<device, servers, metrics, routes, tunVars>>

FaultyDeleteRule(c) ==
  /\ At(c, "rule") /\ ~Setting(c)
  /\ rule' \in {rule, {}} /\ Then(c, TRUE)
  /\ UNCHANGED <<device, servers, metrics, routes, tunVars>>

DeleteRule(c) ==
  /\ At(c, "rule") /\ ~Setting(c)
  /\ \E ok \in BOOLEAN : rule' = (IF ok THEN {} ELSE rule) /\ Then(c, ok)
  /\ UNCHANGED <<device, servers, metrics, routes, tunVars>>

(* flush_dns_cache.  set_config, which ends with it, forgets the resolvers  *)
(* whose routes it removed if nothing has failed.                           *)
FlushDnsCache(c) ==
  /\ At(c, "flush")
  /\ \E ok \in BOOLEAN :
       /\ Then(c, ok)
       /\ remembered' = IF Setting(c) /\ ok /\ call[c].ok THEN remembered \ stale[c] ELSE remembered
  /\ UNCHANGED <<deviceVars, stale, reader, session>>

FaultySpawnReadTask(c) ==
  /\ At(c, "spawn") /\ Then(c, TRUE)
  /\ reader' = IF call[c].ok THEN call[c].what.config ELSE reader
  /\ UNCHANGED <<deviceVars, remembered, stale, session>>

(* Whatever has failed; the former task is aborted. *)
SpawnReadTask(c) ==
  /\ At(c, "spawn") /\ Then(c, TRUE)
  /\ reader' = call[c].what.config
  /\ UNCHANGED <<deviceVars, remembered, stale, session>>

WindowsCall(c) ==
  \/ Remember(c) \/ SetDevice(c) \/ SetDnsServers(c) \/ SetMetric(c) \/ SetRoutes(c)
  \/ RemoveRoutes(c) \/ CreateRule(c) \/ DeleteRule(c) \/ FlushDnsCache(c) \/ SpawnReadTask(c)
  \/ FinishCall(c) /\ UNCHANGED windowsVars

-----------------------------------------------------------------------------
(* The read task ends, and lets go of its tunnel, with the session. *)
ReaderEnds ==
  /\ session = "shut" /\ reader # Nobody /\ reader' = Nobody
  /\ UNCHANGED <<routeVars, netVars, deviceVars, remembered, stale, session, failed>>

(* The last step of run(); its failure is only logged. *)
ShutDownSession ==
  /\ service = "unset" /\ service' = "closed"
  /\ session' \in {"shut", "open"}
  /\ UNCHANGED <<call, mutex, firewall, dnsAt, running, addrs, bare, revoked, revoking, timedOut,
                 last, calls, desired, changed, deviceVars, remembered, stale, reader, failed>>

(* run_service reports STOPPED, and the process ends. *)
ReportStopped ==
  /\ service = "closed" /\ service' = "down"
  /\ UNCHANGED <<call, mutex, firewall, dnsAt, running, addrs, bare, revoked, revoking, timedOut,
                 last, calls, desired, changed, windowsVars>>

(* The Stop control reports STOP_PENDING and sends the shutdown. *)
StopControl == RequestShutdown /\ UNCHANGED windowsVars

WindowsNext ==
  \/ (TunnelCalls \/ EnterCall \/ Revoke \/ TimeOutRevoke) /\ UNCHANGED windowsVars
  \/ \E c \in {"tunnel", "shutdown"} : WindowsCall(c)
  \/ StopControl \/ ReaderEnds \/ ShutDownSession \/ ReportStopped

-----------------------------------------------------------------------------
(* Between two calls, none of which ran beside another. *)
Quiet ==
  ~timedOut /\ last # Idle /\ \A c \in DOMAIN call : call[c].step \in {"idle", "enter", "forever"}

(* Returning Ok means that everything is in place, whatever calls failed    *)
(* before: exactly the resolvers of this configuration have routes, and the *)
(* NRPT rule names them or does not exist; after an unset nothing is left.  *)
WindowsOkIsHonest ==
  Quiet /\ last.ok =>
    IF last.what.to = "set"
    THEN LET c == last.what.config
         IN /\ device = [k \in DOMAIN device |-> c.addr] /\ servers = c.dns
            /\ metrics = "low" /\ routes = Routes(c.dns) /\ rule \in {c.dns, {}}
    ELSE routes = {} /\ rule = {} /\ metrics = "automatic"

(* Attempting all steps regardless of failures (tun.rs line 183): after a   *)
(* call that failed the packets go to the new tunnel all the same, and no   *)
(* route is left that a later call would not remove.                        *)
WindowsAttemptsEveryPart ==
  /\ Quiet /\ last.what.to = "set" /\ session = "open" => reader = last.what.config
  /\ Quiet => routes \subseteq Routes(remembered)

(* After the service has stopped, nothing of the tunnel's calls is left     *)
(* unless the wait for one timed out or the last call failed.               *)
WindowsShutdownIsLast ==
  service = "down" /\ ~timedOut => last.what = Unset /\ (last.ok => routes = {} /\ rule = {})
=============================================================================
