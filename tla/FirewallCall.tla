---------------------------- MODULE FirewallCall ----------------------------
(***************************************************************************)
(* What a call that replaces the firewall's rules promises its caller:     *)
(* the kernel switches once from the old rules to the requested ones, or   *)
(* not at all; an error says nothing more.  Ok says it did, unless the     *)
(* call could not discard the answers to earlier calls; then Ok says no    *)
(* more than an error.  LinuxFirewall and TunnelState rely on this         *)
(* contract, and on calls that could.                                      *)
(***************************************************************************)
CONSTANTS Policy, NONE

VARIABLES
  rules,    (* the rules in the kernel, NONE when there is no table *)
  call,     (* the call in progress, NONE between calls             *)
  answer    (* what the last call returned: "none", "ok" or "err"   *)

transaction == <<rules, call, answer>>

Idle == [policy |-> NONE, done |-> FALSE, stale |-> FALSE]

Begin(p, left) == [policy |-> p, done |-> FALSE, stale |-> left]

Done(c) == [policy |-> c.policy, done |-> TRUE, stale |-> c.stale]

CallInit == rules = NONE /\ call = Idle /\ answer = "none"

Request ==
  /\ call = Idle
  /\ \E p \in Policy, left \in BOOLEAN : call' = Begin(p, left)
  /\ answer' = "none"
  /\ rules' = rules

Switch ==
  /\ call # Idle /\ ~call.done
  /\ rules' = call.policy
  /\ call' = Done(call)
  /\ answer' = answer

ReturnOk ==
  /\ call # Idle /\ (call.done \/ call.stale)
  /\ call' = Idle /\ answer' = "ok" /\ rules' = rules

ReturnErr == call # Idle /\ call' = Idle /\ answer' = "err" /\ rules' = rules

(* The caller dies; the rules stay if somebody else holds the socket. *)
Abandon == call' = Idle /\ answer' = "none" /\ rules' \in {rules, NONE}

CallNext == Request \/ Switch \/ ReturnOk \/ ReturnErr \/ Abandon

CallSpec == CallInit /\ [][CallNext]_transaction
=============================================================================
