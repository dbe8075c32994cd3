------------------------------ MODULE RelayRace ------------------------------
(***************************************************************************)
(* The choice of a relay: src/rustlib/src/relay_selection.rs, the loop of  *)
(* select_relay in src/rustlib/src/client_state.rs, and the part of        *)
(* QuicWgConnHandshaking in src/rustlib/src/quicwg.rs a race uses.         *)
(*                                                                         *)
(* One task per relay and port connects, exchanges protocol identifiers    *)
(* and measures the round trip.  The loop keeps the best handshake so far, *)
(* abandons every other (a Stop to the relay), shortens its deadline once  *)
(* it has a candidate, and abandons the race when it has seen enough.      *)
(***************************************************************************)
EXTENDS Naturals, Sequences, FiniteSetsExt

CONSTANTS
  Relays,        (* the relay list: records with an id and a sequence of ports *)
  MaxRelays,     (* MAX_RELAYS: relays tried                                   *)
  MaxPorts,      (* MAX_PORTS_PER_RELAY                                        *)
  Enough,        (* unique relays after which the race stops (5)               *)
  Patience,      (* the first deadline (30 s)                                  *)
  Shortest,      (* the deadline with a candidate is at most this (5 s)        *)
  Grace,         (* ABANDON_GRACE_PERIOD                                       *)
  MaxRtt         (* bound: the round trips to choose from                      *)

ASSUME RaceConstants ==
  /\ \A i \in DOMAIN Relays : Relays[i].ports \in Seq(Nat)
  /\ MaxRelays \in Nat /\ MaxPorts \in Nat /\ Enough \in Nat \ {0}
  /\ Patience \in Nat /\ Shortest \in Nat /\ Grace \in Nat /\ MaxRtt \in Nat

Least(a, b) == IF a <= b THEN a ELSE b

(* A task of the race: a relay of the list, by position, and one of its ports. *)
Attempt ==
  {a \in (DOMAIN Relays) \X (1..MaxPorts) :
     a[1] <= MaxRelays /\ a[2] <= Len(Relays[a[1]].ports)}

RelayOf(a) == Relays[a[1]].id

NoAttempt == <<0, 0>>

VARIABLES
  now,        (* time since the race began                             *)
  deadline,   (* of the loop                                           *)
  handshake,  (* what has become of each attempt                       *)
  rtt,        (* the round trip a finished attempt has measured        *)
  best,       (* best_candidate                                        *)
  connected,  (* relays_connected_successfully                         *)
  race,       (* where the loop is                                     *)
  abandoning, (* what the task that abandons the race does             *)
  graceEnd    (* when it gives up waiting for the relays               *)

raceVars == <<now, deadline, handshake, rtt, best, connected, race, abandoning, graceEnd>>

(* ready: finished, not yet returned by next(); rejected: a task of its own *)
(* stops it; stopping: the task of the abandoned race stops it; stopped:    *)
(* the relay was told; dropped: the connection closed without a word.       *)
Handshake == {"racing", "ready", "held", "rejected", "stopping", "stopped",
              "failed", "aborted", "dropped"}

RaceTypeOK ==
  /\ now \in Nat /\ deadline \in Nat /\ graceEnd \in Nat
  /\ handshake \in [Attempt -> Handshake]
  /\ rtt \in [Attempt -> 0..MaxRtt]
  /\ best \in Attempt \cup {NoAttempt}
  /\ connected \subseteq {RelayOf(a) : a \in Attempt}
  /\ race \in {"idle", "running", "won", "lost", "err", "cancelled"}
  /\ abandoning \in {"no", "joining", "grace", "over"}

At(s) == {a \in Attempt : handshake[a] = s}

RaceInit ==
  /\ race = "idle" /\ now = 0 /\ deadline = Patience /\ graceEnd = 0
  /\ handshake = [a \in Attempt |-> "racing"] /\ rtt = [a \in Attempt |-> 0]
  /\ best = NoAttempt /\ connected = {} /\ abandoning = "no"

(* race_relay_handshakes: the sockets are set up and the tasks spawned. *)
StartRace ==
  /\ race = "idle" /\ race' = "running"
  /\ UNCHANGED <<now, deadline, handshake, rtt, best, connected, abandoning, graceEnd>>

(* The tasks live until the set they belong to is aborted and joined, and *)
(* finish nothing in no time.                                             *)
TasksAlive == race # "idle" /\ abandoning \in {"no", "joining"} /\ now > 0

(* A task has connected and measured the round trip.  An abort does not *)
(* reach a task that runs at that moment.                               *)
FinishHandshake(a) ==
  /\ TasksAlive /\ handshake[a] = "racing"
  /\ handshake' = [handshake EXCEPT ![a] = "ready"]
  /\ \E r \in 1..MaxRtt : rtt' = [rtt EXCEPT ![a] = r]
  /\ UNCHANGED <<now, deadline, best, connected, race, abandoning, graceEnd>>

(* It fails: connecting, a protocol identifier of another, an error response, *)
(* a step that takes QUIC_STEP_TIMEOUT.                                       *)
FailHandshake(a) ==
  /\ TasksAlive /\ handshake[a] = "racing"
  /\ handshake' = [handshake EXCEPT ![a] = "failed"]
  /\ UNCHANGED <<now, deadline, rtt, best, connected, race, abandoning, graceEnd>>

FaultyTakeNext(a) ==
  /\ race = "running" /\ handshake[a] = "ready"
  /\ connected' = connected \cup {RelayOf(a)}
  /\ IF best # NoAttempt /\ rtt[best] < rtt[a]
     THEN /\ handshake' = [handshake EXCEPT ![a] = "rejected"]
          /\ UNCHANGED <<best, deadline>>
     ELSE /\ handshake' = [handshake EXCEPT ![a] = "held"]
          /\ best' = a /\ deadline' = Least(3 * now, Shortest)
  /\ race' = IF Cardinality(connected') >= Enough THEN "won" ELSE "running"
  /\ abandoning' = IF race' = "won" THEN "joining" ELSE "no"
  /\ UNCHANGED <<now, rtt, graceEnd>>

(* next() returns a handshake.  The candidate with the shorter round trip is *)
(* kept and the other one abandoned.                                         *)
TakeNext(a) ==
  /\ race = "running" /\ handshake[a] = "ready"
  /\ connected' = connected \cup {RelayOf(a)}
  /\ IF best # NoAttempt /\ rtt[best] < rtt[a]
     THEN /\ handshake' = [handshake EXCEPT ![a] = "rejected"]
          /\ UNCHANGED <<best, deadline>>
     ELSE /\ handshake' = [b \in Attempt |-> IF b = a THEN "held"
                                             ELSE IF b = best THEN "rejected" ELSE handshake[b]]
          /\ best' = a /\ deadline' = Least(3 * now, Shortest)
  /\ race' = IF Cardinality(connected') >= Enough THEN "won" ELSE "running"
  /\ abandoning' = IF race' = "won" THEN "joining" ELSE "no"
  /\ UNCHANGED <<now, rtt, graceEnd>>

FaultyLeaveLoop ==
  /\ race = "running"
  /\ At("racing") = {} \/ now >= deadline
  /\ race' = IF best = NoAttempt THEN "lost" ELSE "won"
  /\ abandoning' = "joining"
  /\ UNCHANGED <<now, deadline, handshake, rtt, best, connected, graceEnd>>

(* No task is left, or the deadline is over and none has finished: the      *)
(* deadline is looked at only after next() had nothing to return.  Without  *)
(* a candidate the loop waits for the abandoning before it fails.           *)
LeaveLoop ==
  /\ race = "running" /\ At("ready") = {}
  /\ At("racing") = {} \/ now >= deadline
  /\ race' = IF best = NoAttempt THEN "lost" ELSE "won"
  /\ abandoning' = "joining"
  /\ UNCHANGED <<now, deadline, handshake, rtt, best, connected, graceEnd>>

-----------------------------------------------------------------------------
(* abandon() of the race: every task is aborted and joined; one that had *)
(* finished is told to stop.                                             *)
Join(a) ==
  /\ abandoning = "joining"
  /\ \/ /\ handshake[a] = "racing"
        /\ handshake' = [handshake EXCEPT ![a] = "aborted"]
     \/ /\ handshake[a] = "ready"
        /\ handshake' = [handshake EXCEPT ![a] = "stopping"]
  /\ UNCHANGED <<now, deadline, rtt, best, connected, race, abandoning, graceEnd>>

AllJoined ==
  /\ abandoning = "joining" /\ At("racing") \cup At("ready") = {}
  /\ abandoning' = "grace" /\ graceEnd' = now + Grace
  /\ UNCHANGED <<now, deadline, handshake, rtt, best, connected, race>>

(* abandon() of a handshake: the relay confirms the Stop, or the wait ends *)
(* in an error.                                                            *)
Stop(a) ==
  /\ handshake[a] = "rejected" \/ (handshake[a] = "stopping" /\ abandoning # "over")
  /\ handshake' = [handshake EXCEPT ![a] = "stopped"]
  /\ UNCHANGED <<now, deadline, rtt, best, connected, race, abandoning, graceEnd>>

(* The grace period ends, or all have confirmed before. *)
EndGrace ==
  /\ abandoning = "grace" /\ (now >= graceEnd \/ At("stopping") = {})
  /\ abandoning' = "over"
  /\ handshake' = [a \in Attempt |-> IF handshake[a] = "stopping" THEN "dropped" ELSE handshake[a]]
  /\ race' = IF race = "lost" THEN "err" ELSE race
  /\ UNCHANGED <<now, deadline, rtt, best, connected, graceEnd>>

RaceTick ==
  /\ race # "idle" /\ now < Patience + Grace
  /\ ~ (race = "running" /\ now >= deadline)
  /\ ~ (abandoning = "grace" /\ now >= graceEnd)
  /\ now' = now + 1
  /\ UNCHANGED <<deadline, handshake, rtt, best, connected, race, abandoning, graceEnd>>

(* The future of the connection attempt is dropped: with it the candidate,  *)
(* and, while the loop still owns the race, its tasks.                       *)
CancelRace ==
  /\ race \in {"running", "lost", "won"} /\ (At("held") # {} \/ race # "won")
  /\ handshake' = [a \in Attempt |->
       CASE handshake[a] = "held" -> "dropped"
         [] handshake[a] = "racing" /\ race # "won" -> "aborted"
         [] handshake[a] \in {"ready", "stopping"} /\ race # "won" -> "dropped"
         [] OTHER -> handshake[a]]
  /\ IF race = "won" THEN UNCHANGED <<race, abandoning>>
     ELSE race' = "cancelled" /\ abandoning' = "over"
  /\ UNCHANGED <<now, deadline, rtt, best, connected, graceEnd>>

(* The next attempt races anew.  Tasks of the last race share nothing with *)
(* it; here they end first.                                                *)
NewRace ==
  /\ abandoning = "over" /\ At("rejected") = {}
  /\ race' = "idle" /\ now' = 0 /\ deadline' = Patience /\ graceEnd' = 0
  /\ handshake' = [a \in Attempt |-> "racing"] /\ rtt' = [a \in Attempt |-> 0]
  /\ best' = NoAttempt /\ connected' = {} /\ abandoning' = "no"

RaceNext ==
  \/ \E a \in Attempt : \/ FinishHandshake(a) \/ FailHandshake(a) \/ TakeNext(a)
                        \/ Join(a) \/ Stop(a)
  \/ StartRace \/ LeaveLoop \/ AllJoined \/ EndGrace \/ CancelRace \/ NewRace \/ RaceTick

-----------------------------------------------------------------------------
(* The handshake the connection goes on with has the shortest round trip of  *)
(* all the loop has seen, and the loop leaves none unseen that was ready,    *)
(* except past the fifth relay (select_relay).                               *)
BestRelayWins ==
  [][race = "running" /\ race' = "won" =>
       /\ \A a \in Attempt : handshake'[a] \in {"held", "rejected", "stopped"}
                                => rtt'[best'] <= rtt'[a]
       /\ (\E a \in Attempt : handshake'[a] = "ready") => Cardinality(connected') >= Enough]_raceVars

(* Every relay that finished a handshake and did not win is told to stop;    *)
(* its connection is only dropped when the attempt is cancelled or the relay *)
(* let the whole grace period pass (abandon).                                *)
LosersAreStopped ==
  /\ At("held") \subseteq {best}
  /\ abandoning = "over" => At("racing") \cup At("ready") \cup At("stopping") = {}
  /\ \A a \in At("dropped") : \/ race = "cancelled" \/ a = best
                              \/ abandoning = "over" /\ now >= graceEnd
=============================================================================
