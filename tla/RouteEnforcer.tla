---------------------------- MODULE RouteEnforcer ----------------------------
(***************************************************************************)
(* The task that keeps the policy routing of the tunnel in the kernel:     *)
(* src/rustlib/src/bin/obscura/service/os/linux/routes/                    *)
(* traffic_capture_routes.rs.  It reads the desired policy from a watch    *)
(* channel, dumps rules and routes family by family, repairs what differs  *)
(* and sleeps until the policy changes or a netlink event arrives.         *)
(*                                                                         *)
(* Between any two requests other programs may take a rule or route away,  *)
(* or put back one this service had installed, and the policy may change.  *)
(* The kernel sends an event for each change of its tables, the enforcer's *)
(* own included.                                                           *)
(***************************************************************************)
EXTENDS Naturals, Sequences, FiniteSetsExt, SequencesExt

CONSTANTS
  Resolver,      (* addresses of the resolvers of the tunnel            *)
  FamilyOf,      (* the address family of each                          *)
  Policies,      (* the policies the service sends                      *)
  MaxTampering,  (* bound: changes of the tables by other programs      *)
  MaxErrors      (* bound: netlink requests that fail                   *)

FAMILIES == <<"v4", "v6">>

Policy == [engaged : BOOLEAN, dns : SUBSET Resolver]

Disengage == [engaged |-> FALSE, dns |-> {}]

ASSUME RouteConstants ==
  /\ Resolver \cap {"suppress", "capture", "route"} = {}
  /\ FamilyOf \in [Resolver -> {"v4", "v6"}]
  /\ Policies \subseteq Policy /\ Disengage \in Policies
  /\ MaxTampering \in Nat /\ MaxErrors \in Nat

VARIABLES
  kernel,     (* the rules and routes of ours in the kernel, by family     *)
  events,     (* an event waits in the socket                              *)
  desired,    (* the policy in the watch channel                           *)
  changed,    (* it was sent after the enforcer last read it               *)
  policy,     (* the policy of this round                                  *)
  dirty,      (* what the dumps of this round have shown                   *)
  enforcer,   (* where the enforcer is                                     *)
  family,     (* index of the family it works on                           *)
  request,    (* number of requests sent for this family                   *)
  tampering,  (* counts the changes by others                              *)
  errors      (* counts the failed requests                                *)

routeVars == <<kernel, events, desired, changed, policy, dirty, enforcer,
               family, request, tampering, errors>>

(* The rules and routes of one family.  A resolver stands for its rule. *)
Item == Resolver \cup {"suppress", "capture", "route"}

(* wanted_resolver_rules *)
ResolverRules(p, f) == {r \in p.dns : FamilyOf[r] = f}

Wanted(p, f) ==
  IF p.engaged THEN ResolverRules(p, f) \cup {"suppress", "capture", "route"} ELSE {}

InForce(p) == \A f \in {"v4", "v6"} : kernel[f] = Wanted(p, f)

ThisFamily == FAMILIES[family]

(* A process that ended earlier may have left its rules; the route went     *)
(* with its device.                                                         *)
RouteInit ==
  /\ \E p \in Policies : kernel = [f \in {"v4", "v6"} |-> Wanted(p, f) \ {"route"}]
  /\ events = FALSE /\ desired = Disengage /\ changed = FALSE
  /\ policy = Disengage /\ dirty = FALSE
  /\ enforcer = "connect" /\ family = 1 /\ request = 0
  /\ tampering = 0 /\ errors = 0

(* Records of one step: the tables change, and so events go out. *)
Install(f, items) ==
  /\ kernel' = [kernel EXCEPT ![f] = items]
  /\ events' = (events \/ items # kernel[f])

Same == UNCHANGED <<desired, policy, tampering, errors>>

-----------------------------------------------------------------------------
(* enforce_routing: a new socket has seen no event yet. *)
Connect ==
  /\ enforcer = "connect"
  /\ enforcer' = "read" /\ events' = FALSE
  /\ UNCHANGED <<kernel, changed, dirty, family, request>> /\ Same

(* Events are dropped first, then the policy is read and marked as seen. *)
ReadPolicy ==
  /\ enforcer = "read"
  /\ events' = FALSE
  /\ policy' = desired /\ changed' = FALSE
  /\ dirty' = FALSE /\ family' = 1
  /\ enforcer' = "rules"
  /\ UNCHANGED <<kernel, desired, request, tampering, errors>>

(* routing_dirty: the rules of a family and then its routes *)
DumpRules ==
  /\ enforcer = "rules"
  /\ dirty' = (dirty \/ kernel[ThisFamily] \ {"route"} # Wanted(policy, ThisFamily) \ {"route"})
  /\ enforcer' = "routes"
  /\ UNCHANGED <<kernel, events, changed, family, request>> /\ Same

AfterDumps(d) ==
  IF family < Len(FAMILIES) THEN "rules" ELSE IF d THEN "delete" ELSE "asleep"

FaultyDumpRoutes ==
  /\ enforcer = "routes"
  /\ LET d == dirty \/ ("route" \in kernel[ThisFamily]) # policy.engaged
     IN dirty' = d /\ enforcer' = AfterDumps(d)
  /\ family' = IF family < Len(FAMILIES) THEN family + 1 ELSE 1
  /\ request' = 0 /\ events' = FALSE
  /\ UNCHANGED <<kernel, changed>> /\ Same

DumpRoutes ==
  /\ enforcer = "routes"
  /\ LET d == dirty \/ ("route" \in kernel[ThisFamily]) # policy.engaged
     IN dirty' = d /\ enforcer' = AfterDumps(d)
  /\ family' = IF family < Len(FAMILIES) THEN family + 1 ELSE 1
  /\ request' = 0
  /\ UNCHANGED <<kernel, events, changed>> /\ Same

(* apply_routing deletes one resolver rule after another until none is left *)
DeleteResolverRules ==
  /\ enforcer = "delete"
  /\ IF kernel[ThisFamily] \cap Resolver = {}
     THEN enforcer' = "apply" /\ UNCHANGED <<kernel, events>>
     ELSE /\ \E r \in kernel[ThisFamily] \cap Resolver : Install(ThisFamily, kernel[ThisFamily] \ {r})
          /\ UNCHANGED enforcer
  /\ UNCHANGED <<changed, dirty, family, request>> /\ Same

(* ... and sends these requests, in this order *)
Requests ==
  LET fixed == <<"suppress", "capture", "route">>
  IN IF policy.engaged THEN SetToSeq(ResolverRules(policy, ThisFamily)) \o fixed ELSE fixed

(* What exists already, or is gone already, is no error. *)
ApplyRequest ==
  /\ enforcer = "apply" /\ request < Len(Requests)
  /\ LET x == Requests[request + 1]
     IN Install(ThisFamily, IF policy.engaged THEN kernel[ThisFamily] \cup {x} ELSE kernel[ThisFamily] \ {x})
  /\ request' = request + 1
  /\ UNCHANGED <<enforcer, changed, dirty, family>> /\ Same

FinishFamily ==
  /\ enforcer = "apply" /\ request = Len(Requests)
  /\ request' = 0
  /\ IF family < Len(FAMILIES)
     THEN family' = family + 1 /\ enforcer' = "delete"
     ELSE family' = 1 /\ enforcer' = "cooldown"
  /\ UNCHANGED <<kernel, events, changed, dirty>> /\ Same

(* ROUTE_ENFORCER_APPLY_COOLDOWN: whatever comes meanwhile waits. *)
Cooldown ==
  /\ enforcer = "cooldown" /\ enforcer' = "read"
  /\ UNCHANGED <<kernel, events, changed, dirty, family, request>> /\ Same

FaultyWake ==
  /\ enforcer = "asleep" /\ changed
  /\ enforcer' = "read"
  /\ UNCHANGED <<kernel, events, changed, dirty, family, request>> /\ Same

Wake ==
  /\ enforcer = "asleep" /\ (changed \/ events)
  /\ enforcer' = "read"
  /\ UNCHANGED <<kernel, events, changed, dirty, family, request>> /\ Same

(* A request fails, or the stream of events ends; the connection is made    *)
(* anew after ROUTE_ENFORCER_ERROR_BACKOFF.                                 *)
Fail ==
  /\ enforcer \in {"connect", "rules", "routes", "delete", "apply", "asleep"}
  /\ errors < MaxErrors /\ errors' = errors + 1
  /\ enforcer' = "backoff"
  /\ UNCHANGED <<kernel, events, desired, changed, policy, dirty, family, request, tampering>>

Retry ==
  /\ enforcer = "backoff" /\ enforcer' = "connect"
  /\ UNCHANGED <<kernel, events, changed, dirty, family, request>> /\ Same

(* The sender is dropped: select! drops enforce_routing wherever it waits. *)
Stop ==
  /\ enforcer \notin {"backoff", "gone"}
  /\ enforcer' = "gone"
  /\ UNCHANGED <<kernel, events, changed, dirty, family, request>> /\ Same

EnforcerStep ==
  \/ Connect \/ ReadPolicy \/ DumpRules \/ DumpRoutes \/ DeleteResolverRules
  \/ ApplyRequest \/ FinishFamily \/ Cooldown \/ Wake \/ Retry

-----------------------------------------------------------------------------
(* watch::Sender::send marks the channel as changed whatever the value. *)
SendPolicy(p) == desired' = p /\ changed' = TRUE

ServiceSends ==
  /\ enforcer # "gone"
  /\ \E p \in Policies : SendPolicy(p)
  /\ UNCHANGED <<kernel, events, policy, dirty, enforcer, family, request, tampering, errors>>

(* Another program removes one of the rules or routes, or restores it. *)
Tamper ==
  /\ tampering < MaxTampering /\ tampering' = tampering + 1
  /\ \E f \in {"v4", "v6"} : \E x \in UNION {Wanted(p, f) : p \in Policies} :
       Install(f, IF x \in kernel[f] THEN kernel[f] \ {x} ELSE kernel[f] \cup {x})
  /\ UNCHANGED <<desired, changed, policy, dirty, enforcer, family, request, errors>>

RouteNext == EnforcerStep \/ Fail \/ Stop \/ ServiceSends \/ Tamper

-----------------------------------------------------------------------------
RouteTypeOK ==
  /\ kernel \in [{"v4", "v6"} -> SUBSET Item]
  /\ events \in BOOLEAN /\ changed \in BOOLEAN /\ dirty \in BOOLEAN
  /\ desired \in Policies /\ policy \in Policies
  /\ enforcer \in {"connect", "read", "rules", "routes", "delete", "apply",
                   "cooldown", "asleep", "backoff", "gone"}
  /\ family \in 1 .. Len(FAMILIES) /\ request \in Nat
  /\ tampering \in 0 .. MaxTampering /\ errors \in 0 .. MaxErrors

(* The enforcer never sleeps over work (line 93): when it waits with no     *)
(* event and no new policy at hand, rules and routes of both families are   *)
(* those of the desired policy, whatever was removed between its dumps or   *)
(* left over by a request that failed half way.                             *)
SleepsOnlyWhenDone ==
  enforcer = "asleep" /\ ~events /\ ~changed => InForce(desired)

(* The desired policy comes into force or is replaced (line 85). *)
PolicyComesIntoForce ==
  \A p \in Policies : desired = p ~> (InForce(p) \/ desired # p \/ enforcer = "gone")
=============================================================================
