------------------------------ MODULE Liveness ------------------------------
(***************************************************************************)
(* The probes that decide whether the tunnel is alive:                     *)
(* src/rustlib/src/liveness.rs, driven by send, wake and receive of        *)
(* src/rustlib/src/quicwg.rs.                                              *)
(*                                                                         *)
(* Time passes in ticks; the entries are kept by age.  A poll that is due  *)
(* happens before time goes on: receive sleeps until then (its select      *)
(* prefers arriving packets; it is never kept from the poll for ticks).    *)
(* The outstanding pings are the last ones sent, in order: id_seq is the   *)
(* position from the end.                                                  *)
(***************************************************************************)
EXTENDS Naturals, SequencesExt

CONSTANTS
  MaxLost,       (* MAX_ALLOWED_LOST_PROBES (4)                     *)
  MaxLostAwake,  (* MAX_ALLOWED_LOST_PROBES_AFTER_SLEEP (1)         *)
  BUSY,          (* BUSY_PING_PERIOD (1 s)                          *)
  IDLE,          (* IDLE_PING_PERIOD (55 s)                         *)
  MinPeriod,     (* MIN_PROBE_LOST_PERIOD (1 s)                     *)
  MaxPeriod,     (* MAX_PROBE_LOST_PERIOD (30 s)                    *)
  Window         (* SLOW_PONG_WINDOW (100)                          *)

ASSUME LivenessConstants ==
  /\ MaxLost \in Nat /\ MaxLostAwake \in 0..MaxLost
  /\ BUSY \in Nat \ {0} /\ IDLE \in Nat /\ BUSY <= IDLE
  /\ MinPeriod \in Nat \ {0} /\ MaxPeriod \in Nat /\ BUSY <= MinPeriod /\ MinPeriod <= MaxPeriod
  /\ Window \in Nat

VARIABLES
  outstanding,  (* outstanding_pongs: age, and whether its answer comes     *)
  lastPing,     (* ticks since last_ping_sent_at; NotYet before the first   *)
  traffic,      (* sent_user_traffic_since_last_ping                        *)
  waking,       (* is_waking                                                *)
  slowest,      (* slowest_pongs: how many pings ago it was sent, and rtt   *)
  pollIn,       (* ticks until next_liveness_poll                           *)
  verdict,      (* alive or dead                                            *)
  network,      (* good: answers every ping in time; any: may lose and      *)
                (* delay answers; silent: answers no ping sent from then on *)
  stale,        (* an answer is under way to a ping no longer outstanding:  *)
                (* its payload is its own, its number may be used again     *)
  quiet,        (* ticks since the network fell silent, the last wake-up    *)
                (* and the last answer to an outstanding ping               *)
  woken         (* the device woke up and no ping was answered since        *)

livenessVars == <<outstanding, lastPing, traffic, waking, slowest, pollIn, verdict,
                  network, stale, quiet, woken>>

NotYet == IDLE + 1

LowerOf(a, b) == IF a <= b THEN a ELSE b

LivenessInit ==
  /\ outstanding = <<>> /\ lastPing = NotYet /\ traffic = FALSE
  /\ waking = FALSE /\ slowest = <<>> /\ pollIn = 0 /\ verdict = "alive"
  /\ network \in {"good", "any"} /\ stale = FALSE /\ quiet = 0 /\ woken = FALSE

(* probe_lost_period *)
LostPeriod ==
  IF slowest = <<>> THEN MinPeriod
  ELSE LowerOf(MaxPeriod, IF 2 * slowest[1].rtt < MinPeriod THEN MinPeriod ELSE 2 * slowest[1].rtt)

(* lost_probe_count_and_time_of_next_loss: the oldest entries expire first. *)
Lost == {i \in DOMAIN outstanding : \A j \in 1..i : outstanding[j].age >= LostPeriod}
LostCount == Max(Lost \cup {0})

NextLoss == IF LostCount = Len(outstanding) THEN BUSY
            ELSE LostPeriod - outstanding[LostCount + 1].age

(* send_ping, given the state of the checker *)
SendPing(entries, slow) ==
  /\ outstanding' = Append(entries, [age |-> 0, coming |-> network # "silent"])
  /\ slowest' = [i \in DOMAIN slow |-> [slow[i] EXCEPT !.ago = @ + 1]]
  /\ lastPing' = 0 /\ traffic' = FALSE

(* sent_traffic *)
UserTraffic ==
  /\ verdict = "alive"
  /\ IF lastPing = NotYet \/ lastPing > BUSY THEN SendPing(outstanding, slowest)
     ELSE traffic' = TRUE /\ UNCHANGED <<outstanding, lastPing, slowest>>
  /\ UNCHANGED <<waking, pollIn, verdict, network, stale, quiet, woken>>

FaultyWake ==
  /\ verdict = "alive" /\ waking' = TRUE
  /\ SendPing(outstanding, <<>>)
  /\ stale' \in {stale, stale \/ \E i \in DOMAIN outstanding : outstanding[i].coming}
  /\ quiet' = 0 /\ woken' = TRUE
  /\ UNCHANGED <<pollIn, verdict, network>>

(* wake: the checker starts anew, and sends a ping *)
Wake ==
  /\ verdict = "alive" /\ waking' = TRUE
  /\ SendPing(<<>>, <<>>)
  /\ stale' \in {stale, stale \/ \E i \in DOMAIN outstanding : outstanding[i].coming}
  /\ quiet' = 0 /\ woken' = TRUE
  /\ UNCHANGED <<pollIn, verdict, network>>

MaxLostNow == IF waking THEN MaxLostAwake ELSE MaxLost

Dead == LostCount > MaxLostNow

PollDead ==
  /\ verdict = "alive" /\ pollIn = 0 /\ Dead
  /\ verdict' = "dead"
  /\ UNCHANGED <<outstanding, lastPing, traffic, waking, slowest, pollIn, network,
                 stale, quiet, woken>>

FaultyPingPeriod == IF traffic THEN BUSY ELSE IDLE

PingPeriod == IF traffic \/ LostCount # 0 THEN BUSY ELSE IDLE

PingDue == lastPing = NotYet \/ lastPing >= PingPeriod

(* poll returns a ping; receive sends it and polls again. *)
PollPing ==
  /\ verdict = "alive" /\ pollIn = 0 /\ ~Dead /\ PingDue
  /\ SendPing(outstanding, slowest)
  /\ UNCHANGED <<waking, pollIn, verdict, network, stale, quiet, woken>>

PollAlive ==
  /\ verdict = "alive" /\ pollIn = 0 /\ ~Dead /\ ~PingDue
  /\ pollIn' = LowerOf(LowerOf(BUSY, NextLoss), PingPeriod - lastPing)
  /\ UNCHANGED <<outstanding, lastPing, traffic, waking, slowest, verdict, network,
                 stale, quiet, woken>>

(* update_slowest_pongs_list: from the front the old ones leave, from the *)
(* back the faster ones, each up to the first that stays.                 *)
Slower(ago, rtt) ==
  LET recent == {i \in DOMAIN slowest : slowest[i].ago <= ago + Window}
      slow == {i \in DOMAIN slowest : slowest[i].rtt > rtt}
  IN  Append(SubSeq(slowest, Min(recent \cup {Len(slowest) + 1}), Max(slow \cup {0})),
             [ago |-> ago, rtt |-> rtt])

(* The entry with the number and the payload of the answer is taken, and *)
(* those before it are forgiven.                                         *)
Answered(i) ==
  /\ slowest' = Slower(Len(outstanding) - i, outstanding[i].age)
  /\ outstanding' = SubSeq(outstanding, i + 1, Len(outstanding))
  /\ waking' = FALSE

(* The answer to an outstanding ping arrives. *)
Pong(i) ==
  /\ verdict = "alive" /\ outstanding[i].coming
  /\ Answered(i)
  /\ stale' \in {stale, stale \/ \E j \in 1..(i - 1) : outstanding[j].coming}
  /\ quiet' = 0 /\ woken' = FALSE
  /\ UNCHANGED <<lastPing, traffic, pollIn, verdict, network>>

FaultyStalePong ==
  /\ verdict = "alive" /\ stale /\ stale' = FALSE
  /\ \/ \E i \in DOMAIN outstanding : Answered(i)
     \/ UNCHANGED <<slowest, outstanding, waking>>
  /\ UNCHANGED <<lastPing, traffic, pollIn, verdict, network, quiet, woken>>

(* The answer to another ping arrives, or is lost.  Its number may be that *)
(* of an entry, its payload is not.                                        *)
StalePong ==
  /\ verdict = "alive" /\ stale /\ stale' = FALSE
  /\ UNCHANGED <<slowest, outstanding, waking>>
  /\ UNCHANGED <<lastPing, traffic, pollIn, verdict, network, quiet, woken>>

-----------------------------------------------------------------------------
LosePong(i) ==
  /\ network = "any" /\ outstanding[i].coming
  /\ outstanding' = [outstanding EXCEPT ![i].coming = FALSE]
  /\ UNCHANGED <<lastPing, traffic, waking, slowest, pollIn, verdict, network, stale, quiet,
                 woken>>

FallSilent ==
  /\ network = "any" /\ verdict = "alive" /\ network' = "silent" /\ quiet' = 0
  /\ UNCHANGED <<outstanding, lastPing, traffic, waking, slowest, pollIn, verdict, stale, woken>>

(* A good network answers each ping before so many of the next are lost *)
InTime == \A i \in DOMAIN outstanding : outstanding[i].age < MaxLostNow * BUSY

AgeCap == Max({MaxPeriod, MaxLost * BUSY}) + 1

(* How long a silent network may go unnoticed: since a wake-up no ping was  *)
(* answered, or an idle tunnel has to find out first.                       *)
NoticeBound ==
  IF woken THEN (MaxLostAwake + 1) * MinPeriod
  ELSE IDLE + 2 * MaxPeriod + (MaxLost - 1) * BUSY

LivenessTick ==
  /\ verdict = "alive" /\ pollIn > 0 /\ (network = "good" => InTime)
  /\ pollIn' = pollIn - 1
  /\ outstanding' = [i \in DOMAIN outstanding |->
                       [outstanding[i] EXCEPT !.age = LowerOf(@ + 1, AgeCap)]]
  /\ lastPing' = IF lastPing = NotYet THEN NotYet ELSE lastPing + 1
  /\ quiet' = IF network = "silent" THEN LowerOf(quiet + 1, NoticeBound + 1) ELSE 0
  /\ UNCHANGED <<traffic, waking, slowest, verdict, network, stale, woken>>

(* The tunnel task gives the tunnel up; the next one has a new checker. *)
NewTunnel ==
  /\ verdict = "dead"
  /\ outstanding' = <<>> /\ lastPing' = NotYet /\ traffic' = FALSE
  /\ waking' = FALSE /\ slowest' = <<>> /\ pollIn' = 0 /\ verdict' = "alive"
  /\ network' \in {"good", "any"} /\ stale' = FALSE /\ quiet' = 0 /\ woken' = FALSE

LivenessNext ==
  \/ UserTraffic \/ Wake \/ PollDead \/ PollPing \/ PollAlive
  \/ \E i \in DOMAIN outstanding : Pong(i) \/ LosePong(i)
  \/ StalePong \/ FallSilent \/ LivenessTick \/ NewTunnel

-----------------------------------------------------------------------------
(* A network that answers each ping in time, however its answers lag and are *)
(* overtaken, is never given up, not even right after a wake-up, when fewer  *)
(* losses are tolerated (LivenessChecker).                                   *)
AnsweringNetworkIsKept == network = "good" => verdict = "alive"

(* A silent network is noticed in time: soon after a wake-up nothing has     *)
(* answered since, whatever still arrives from before it; and otherwise as   *)
(* soon as the idle period and the slowest answer allow (LivenessChecker).   *)
SilenceIsNoticed == network = "silent" /\ verdict = "alive" => quiet <= NoticeBound
=============================================================================
