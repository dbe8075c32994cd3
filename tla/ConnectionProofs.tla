--------------------------- MODULE ConnectionProofs ---------------------------
(***************************************************************************)
(* What is proved of a connection, for any relays, exits, lists, keys,     *)
(* messages, round trips and periods.                                      *)
(*                                                                         *)
(* Each part has an invariant of its own, which its steps keep and those   *)
(* of the others do not touch:                                             *)
(*   race      while the loop runs, the best candidate is the one          *)
(*             handshake it holds, with the shortest round trip of all it  *)
(*             has taken; tasks that were joined finish nothing;           *)
(*   attempts  the keys refused are older than the current one, and after  *)
(*             an answer NoExit nothing is excluded;                       *)
(*   channel   what is written, being written and queued is, in this       *)
(*             order, what has been read of the relay's operations;        *)
(*   probes    pings are sent at least BUSY apart, and an answering        *)
(*             network leaves none waiting longer than the others allow;   *)
(*             in a silence each ping that counts was sent by the time it  *)
(*             was due, and the next poll comes no later than the next is. *)
(***************************************************************************)
EXTENDS Connection, SequenceTheorems, WellFoundedInduction, TLAPS

(* A step of the connection is a step of one of its parts. *)
LEMMA StepOfAPart ==
  [Next]_allVars => /\ [RaceNext]_raceVars /\ [ConnectNext]_connectVars
                    /\ [ChannelNext]_channelVars /\ [LivenessNext]_livenessVars
BY DEF Next, allVars, RelaySelection, Attempts, Channel, Probes

(* A bounded function on a set that is not empty has a greatest value. *)
LEMMA SomeValueIsGreatest ==
  ASSUME NEW S, S # {}, NEW top \in Nat, NEW f \in [S -> 0..top]
  PROVE  \E x \in S : \A y \in S : f[y] <= f[x]
<1> DEFINE less == OpToRel(<, Nat)
           short == {top - f[x] : x \in S}
<1>1. short \subseteq Nat /\ short # {}
  OBVIOUS
<1>2. \A m, n \in Nat : <<m, n>> \in less <=> m < n
  BY DEF OpToRel
<1>3. IsWellFoundedOn(less, Nat)
  BY NatLessThanWellFounded
<1> HIDE DEF less
<1>4. PICK m \in short : \A n \in short : <<n, m>> \notin less
  <2> HIDE DEF short
  <2> QED  BY <1>1, <1>3, WFMin, Zenon
<1>5. PICK x \in S : m = top - f[x]
  OBVIOUS
<1>6. ASSUME NEW y \in S  PROVE f[y] <= f[x]
  <2>1. top - f[y] \in short
    OBVIOUS
  <2>2. ~(top - f[y] < m)
    BY <1>1, <1>2, <1>4, <2>1
  <2> QED  BY <1>5, <2>2
<1> QED  BY <1>6

(* Some numbers below a bound have a greatest and a least one. *)
LEMMA MaxIsGreatest ==
  ASSUME NEW top \in Nat, NEW S, S \subseteq 0..top, S # {}
  PROVE  Max(S) \in S /\ \A n \in S : n <= Max(S)
<1> DEFINE f == [n \in S |-> n]
<1>1. f \in [S -> 0..top]
  OBVIOUS
<1>2. \E x \in S : \A y \in S : f[y] <= f[x]
  <2> HIDE DEF f
  <2> QED  BY <1>1, SomeValueIsGreatest
<1>3. \E x \in S : \A y \in S : x >= y
  BY <1>2
<1> QED  BY <1>3 DEF Max

LEMMA MinIsLeast ==
  ASSUME NEW top \in Nat, NEW S, S \subseteq 0..top, S # {}
  PROVE  Min(S) \in S /\ \A n \in S : Min(S) <= n
<1> DEFINE f == [n \in S |-> top - n]
<1>1. f \in [S -> 0..top]
  OBVIOUS
<1>2. \E x \in S : \A y \in S : f[y] <= f[x]
  <2> HIDE DEF f
  <2> QED  BY <1>1, SomeValueIsGreatest
<1>3. \E x \in S : \A y \in S : x <= y
  BY <1>2
<1> QED  BY <1>3 DEF Min

-----------------------------------------------------------------------------
(* The race of the relays *)

(* Where the loop and the task that abandons the race are, together *)
Phases ==
  /\ race \in {"idle", "running"} => abandoning = "no"
  /\ race \in {"won", "lost"} => abandoning # "no"
  /\ race = "lost" => abandoning # "over"
  /\ race \in {"err", "cancelled"} => abandoning = "over"

(* The one handshake held is the best candidate's. *)
BestIsHeld ==
  /\ \A a \in Attempt : handshake[a] = "held" => a = best
  /\ race \in {"idle", "running"} /\ best # NoAttempt => handshake[best] = "held"

(* What the running loop has taken is no better than its candidate, and     *)
(* nothing is dropped or told to stop by others meanwhile.                  *)
TakenIsNoBetter ==
  race \in {"idle", "running"} => \A a \in Attempt :
    /\ handshake[a] \in {"held", "rejected", "stopped"} =>
         best \in Attempt /\ rtt[best] <= rtt[a]
    /\ handshake[a] \notin {"stopping", "dropped"}

(* Tasks that were joined are gone, and so are those of a race that is over. *)
JoinedAreGone == \A a \in Attempt :
  /\ abandoning = "grace" => handshake[a] \notin {"racing", "ready"}
  /\ abandoning = "over" => handshake[a] \notin {"racing", "ready", "stopping"}

(* Who is dropped without a word *)
DroppedIsExcused == \A a \in Attempt : handshake[a] = "dropped" =>
  race = "cancelled" \/ a = best \/ (abandoning = "over" /\ now >= graceEnd)

RaceInv ==
  RaceTypeOK /\ Phases /\ BestIsHeld /\ TakenIsNoBetter /\ JoinedAreGone /\ DroppedIsExcused

-----------------------------------------------------------------------------
(* No attempt of the race is none. *)
LEMMA NoAttemptIsNone == NoAttempt \notin Attempt
<1> SUFFICES ASSUME NoAttempt \in Attempt  PROVE FALSE
  OBVIOUS
<1>1. NoAttempt \in (DOMAIN Relays) \X (1..MaxPorts)
  BY DEF Attempt
<1> QED  BY <1>1, RaceConstants DEF NoAttempt

(* A handshake is returned by next(). *)
LEMMA TakeNextKeeps ==
  ASSUME RaceInv, NEW a \in Attempt, TakeNext(a)
  PROVE  RaceInv'
<1> USE NoAttemptIsNone
<1>1. rtt \in [Attempt -> 0..MaxRtt] /\ MaxRtt \in Nat
  BY RaceConstants DEF RaceInv, RaceTypeOK
<1>2. CASE best # NoAttempt /\ rtt[best] < rtt[a]
  <2>1. handshake' = [handshake EXCEPT ![a] = "rejected"] /\ best' = best /\ deadline' = deadline
    BY <1>2 DEF TakeNext
  <2>2. RaceTypeOK'
    BY <1>2, <2>1 DEF TakeNext, RaceInv, RaceTypeOK, Handshake
  <2> QED
    BY <1>1, <1>2, <2>1, <2>2
       DEF TakeNext, RaceInv, RaceTypeOK, Phases, BestIsHeld, TakenIsNoBetter, JoinedAreGone,
           DroppedIsExcused
<1>3. CASE ~(best # NoAttempt /\ rtt[best] < rtt[a])
  <2>1. /\ handshake' = [b \in Attempt |-> IF b = a THEN "held"
                                           ELSE IF b = best THEN "rejected" ELSE handshake[b]]
        /\ best' = a /\ deadline' = Least(3 * now, Shortest)
    BY <1>3 DEF TakeNext
  <2>2. RaceTypeOK'
    <3>1. deadline' \in Nat
      BY <2>1, RaceConstants DEF Least, RaceInv, RaceTypeOK
    <3> QED  BY <2>1, <3>1 DEF TakeNext, RaceInv, RaceTypeOK, Handshake
  <2>3. TakenIsNoBetter'
    <3> SUFFICES ASSUME race' = "running", NEW b \in Attempt
                 PROVE  /\ handshake'[b] \in {"held", "rejected", "stopped"} => rtt[a] <= rtt[b]
                        /\ handshake'[b] \notin {"stopping", "dropped"}
      BY <2>1 DEF TakenIsNoBetter, TakeNext
    <3>1. best \in Attempt => rtt[a] <= rtt[best]
      BY <1>1, <1>3
    <3> QED
      BY <1>1, <2>1, <3>1 DEF TakeNext, RaceInv, TakenIsNoBetter
  <2> QED
    BY <2>1, <2>2, <2>3
       DEF TakeNext, RaceInv, RaceTypeOK, Phases, BestIsHeld, TakenIsNoBetter, JoinedAreGone,
           DroppedIsExcused
<1> QED  BY <1>2, <1>3

-----------------------------------------------------------------------------
(* The tasks of the race finish or fail. *)
LEMMA TasksKeep ==
  ASSUME RaceInv, NEW a \in Attempt, FinishHandshake(a) \/ FailHandshake(a)
  PROVE  RaceInv'
<1>1. CASE FinishHandshake(a)
  <2>1. PICK r \in 1..MaxRtt : rtt' = [rtt EXCEPT ![a] = r]
    BY <1>1 DEF FinishHandshake
  <2>2. RaceTypeOK'
    BY <1>1, <2>1, RaceConstants DEF FinishHandshake, RaceInv, RaceTypeOK, Handshake
  <2>3. TakenIsNoBetter'
    BY <1>1, <2>1, NoAttemptIsNone
       DEF FinishHandshake, TasksAlive, RaceInv, RaceTypeOK, Phases, BestIsHeld, TakenIsNoBetter
  <2> QED
    BY <1>1, <2>2, <2>3
       DEF FinishHandshake, TasksAlive, RaceInv, RaceTypeOK, Phases, BestIsHeld, JoinedAreGone,
           DroppedIsExcused
<1>2. CASE FailHandshake(a)
  BY <1>2
     DEF FailHandshake, RaceInv, RaceTypeOK, Handshake, Phases, BestIsHeld, TakenIsNoBetter,
         JoinedAreGone, DroppedIsExcused
<1> QED  BY <1>1, <1>2

(* The steps of the task that abandons the race, and of those that stop a   *)
(* loser                                                                    *)
LEMMA AbandonKeeps ==
  ASSUME RaceInv, (\E a \in Attempt : Join(a) \/ Stop(a)) \/ AllJoined \/ EndGrace
  PROVE  RaceInv'
<1>1. ASSUME NEW a \in Attempt, Join(a)  PROVE RaceInv'
  BY <1>1
     DEF Join, RaceInv, RaceTypeOK, Handshake, Phases, BestIsHeld, TakenIsNoBetter, JoinedAreGone,
         DroppedIsExcused
<1>2. ASSUME NEW a \in Attempt, Stop(a)  PROVE RaceInv'
  BY <1>2
     DEF Stop, RaceInv, RaceTypeOK, Handshake, Phases, BestIsHeld, TakenIsNoBetter, JoinedAreGone,
         DroppedIsExcused
<1>3. CASE AllJoined
  <2>1. graceEnd' \in Nat
    BY <1>3, RaceConstants DEF AllJoined, RaceInv, RaceTypeOK
  <2> QED
    BY <1>3, <2>1
       DEF AllJoined, At, RaceInv, RaceTypeOK, Handshake, Phases, BestIsHeld, TakenIsNoBetter,
           JoinedAreGone, DroppedIsExcused
<1>4. CASE EndGrace
  <2>1. RaceTypeOK' /\ Phases' /\ BestIsHeld' /\ TakenIsNoBetter' /\ JoinedAreGone'
    BY <1>4
       DEF EndGrace, RaceInv, RaceTypeOK, Handshake, Phases, BestIsHeld, TakenIsNoBetter,
           JoinedAreGone
  <2>2. DroppedIsExcused'
    BY <1>4 DEF EndGrace, At, RaceInv, RaceTypeOK, Phases, DroppedIsExcused
  <2> QED  BY <2>1, <2>2 DEF RaceInv
<1> QED  BY <1>1, <1>2, <1>3, <1>4

(* The attempt is dropped. *)
LEMMA CancelKeeps ==
  ASSUME RaceInv, CancelRace
  PROVE  RaceInv'
<1>1. \A a \in Attempt : handshake'[a] =
        IF handshake[a] = "held" THEN "dropped"
        ELSE IF handshake[a] = "racing" /\ race # "won" THEN "aborted"
        ELSE IF handshake[a] \in {"ready", "stopping"} /\ race # "won" THEN "dropped"
        ELSE handshake[a]
  BY DEF CancelRace, RaceInv, RaceTypeOK
<1>2. handshake' \in [Attempt -> Handshake]
  <2>1. handshake' = [a \in Attempt |-> handshake'[a]]
    BY DEF CancelRace
  <2> QED  BY <1>1, <2>1 DEF RaceInv, RaceTypeOK, Handshake
<1>3. /\ IF race = "won" THEN race' = race /\ abandoning' = abandoning
                         ELSE race' = "cancelled" /\ abandoning' = "over"
      /\ UNCHANGED <<now, deadline, rtt, best, connected, graceEnd>>
      /\ race \in {"running", "lost", "won"}
  BY DEF CancelRace
<1> QED
  BY <1>1, <1>2, <1>3
     DEF RaceInv, RaceTypeOK, Phases, BestIsHeld, TakenIsNoBetter, JoinedAreGone, DroppedIsExcused

-----------------------------------------------------------------------------
LEMMA FirstRace ==
  ASSUME race' = "idle", now' = 0, deadline' = Patience, graceEnd' = 0,
         handshake' = [a \in Attempt |-> "racing"], rtt' = [a \in Attempt |-> 0],
         best' = NoAttempt, connected' = {}, abandoning' = "no"
  PROVE  RaceInv'
BY RaceConstants
   DEF RaceInv, RaceTypeOK, Handshake, Phases, BestIsHeld, TakenIsNoBetter, JoinedAreGone,
       DroppedIsExcused

LEMMA RaceInitEstablishes == RaceInit => RaceInv
BY RaceConstants
   DEF RaceInit, RaceInv, RaceTypeOK, Handshake, Phases, BestIsHeld, TakenIsNoBetter,
       JoinedAreGone, DroppedIsExcused

LEMMA RaceStepKeeps == RaceInv /\ [RaceNext]_raceVars => RaceInv'
<1> SUFFICES ASSUME RaceInv, [RaceNext]_raceVars  PROVE RaceInv'
  OBVIOUS
<1>1. ASSUME NEW a \in Attempt, FinishHandshake(a) \/ FailHandshake(a)  PROVE RaceInv'
  BY <1>1, TasksKeep
<1>2. ASSUME NEW a \in Attempt, TakeNext(a)  PROVE RaceInv'
  BY <1>2, TakeNextKeeps
<1>3. CASE (\E a \in Attempt : Join(a) \/ Stop(a)) \/ AllJoined \/ EndGrace
  BY <1>3, AbandonKeeps
<1>4. CASE StartRace \/ LeaveLoop
  BY <1>4
     DEF StartRace, LeaveLoop, RaceInv, RaceTypeOK, Phases, BestIsHeld, TakenIsNoBetter,
         JoinedAreGone, DroppedIsExcused
<1>5. CASE CancelRace
  BY <1>5, CancelKeeps
<1>6. CASE NewRace
  BY <1>6, FirstRace DEF NewRace
<1>7. CASE RaceTick
  BY <1>7
     DEF RaceTick, RaceInv, RaceTypeOK, Phases, BestIsHeld, TakenIsNoBetter, JoinedAreGone,
         DroppedIsExcused
<1>8. CASE UNCHANGED raceVars
  BY <1>8
     DEF raceVars, RaceInv, RaceTypeOK, Phases, BestIsHeld, TakenIsNoBetter, JoinedAreGone,
         DroppedIsExcused
<1> QED  BY <1>1, <1>2, <1>3, <1>4, <1>5, <1>6, <1>7, <1>8 DEF RaceNext

LEMMA RaceInvariant == Spec => []RaceInv
<1>1. Init => RaceInv
  BY RaceInitEstablishes DEF Init
<1>2. RaceInv /\ [Next]_allVars => RaceInv'
  BY RaceStepKeeps, StepOfAPart
<1> QED  BY <1>1, <1>2, PTL DEF Spec

-----------------------------------------------------------------------------
(* Every handshake that finished and did not win is told to stop, but for   *)
(* an attempt that is cancelled or a relay that lets the grace period pass  *)
(* (abandon, quicwg.rs and relay_selection.rs).                             *)
THEOREM LosersStopped == Spec => []LosersAreStopped
<1>1. RaceInv => LosersAreStopped
  BY DEF RaceInv, BestIsHeld, JoinedAreGone, DroppedIsExcused, LosersAreStopped, At
<1> QED  BY <1>1, RaceInvariant, PTL

(* The race is won by the shortest round trip the loop has seen, and no     *)
(* handshake that is ready is left unseen before enough relays answered     *)
(* (select_relay, client_state.rs).                                         *)
THEOREM BestWins == Spec => BestRelayWins
<1>1. ASSUME RaceInv, RaceInv', RaceNext, race = "running", race' = "won"
      PROVE  /\ \A a \in Attempt : handshake'[a] \in {"held", "rejected", "stopped"}
                                      => rtt'[best'] <= rtt'[a]
             /\ (\E a \in Attempt : handshake'[a] = "ready") => Cardinality(connected') >= Enough
  <2>1. (\E a \in Attempt : TakeNext(a)) \/ LeaveLoop
    BY <1>1
       DEF RaceNext, FinishHandshake, FailHandshake, Join, Stop, StartRace, AllJoined, EndGrace,
           CancelRace, NewRace, RaceTick
  <2>2. CASE LeaveLoop
    BY <1>1, <2>2 DEF LeaveLoop, At, RaceInv, TakenIsNoBetter
  <2>3. ASSUME NEW a \in Attempt, TakeNext(a)
        PROVE  \A b \in Attempt : handshake'[b] \in {"held", "rejected", "stopped"}
                                    => rtt'[best'] <= rtt'[b]
    <3>1. rtt \in [Attempt -> 0..MaxRtt] /\ MaxRtt \in Nat /\ rtt' = rtt
      BY <1>1, <2>3, RaceConstants DEF TakeNext, RaceInv, RaceTypeOK
    <3>2. CASE best # NoAttempt /\ rtt[best] < rtt[a]
      BY <1>1, <2>3, <3>1, <3>2 DEF TakeNext, RaceInv, RaceTypeOK, TakenIsNoBetter
    <3>3. CASE ~(best # NoAttempt /\ rtt[best] < rtt[a])
      <4>1. best \in Attempt => rtt[a] <= rtt[best]
        BY <3>1, <3>3, NoAttemptIsNone
      <4>2. /\ best' = a
            /\ \A b \in Attempt : b = a \/ b = best \/ handshake'[b] = handshake[b]
        BY <2>3, <3>3 DEF TakeNext
      <4> QED
        BY <1>1, <3>1, <4>1, <4>2 DEF RaceInv, RaceTypeOK, TakenIsNoBetter
    <3> QED  BY <3>2, <3>3
  <2>4. ASSUME NEW a \in Attempt, TakeNext(a)  PROVE Cardinality(connected') >= Enough
    BY <1>1, <2>4 DEF TakeNext
  <2> QED  BY <2>1, <2>2, <2>3, <2>4
<1>2. RaceInv /\ RaceInv' /\ [RaceNext]_raceVars =>
        [race = "running" /\ race' = "won" =>
           /\ \A a \in Attempt : handshake'[a] \in {"held", "rejected", "stopped"}
                                    => rtt'[best'] <= rtt'[a]
           /\ (\E a \in Attempt : handshake'[a] = "ready") =>
                Cardinality(connected') >= Enough]_raceVars
  BY <1>1
<1>3. [Next]_allVars => [RaceNext]_raceVars
  BY StepOfAPart
<1> QED  BY <1>2, <1>3, RaceInvariant, PTL DEF Spec, BestRelayWins

-----------------------------------------------------------------------------
(* The attempts *)

(* The keys the API refused are older than the current one; the attempt's    *)
(* is none of them until its own answer.                                     *)
KeysInOrder ==
  /\ \A k \in refused : k < key
  /\ wgKey <= key
  /\ phase \in {"create", "token", "handshake", "connected"} => wgKey \notin refused

(* What an attempt holds, by how far it has come *)
AttemptHolds ==
  /\ phase \in {"exits", "key", "create", "token", "handshake", "connected"} <=> relay \in Relay
  /\ tunnel # None => tunnel.relay = relay
  /\ phase \in {"token", "handshake", "connected"} => tunnel \in [relay : Relay, exit : Exit]

(* After an answer NoExit nothing is excluded any more. *)
ClearedAfterNoExit == noExits = 0 \/ (noExits = 1 /\ selection = Fresh)

ConnectInv == ConnectTypeOK /\ KeysInOrder /\ AttemptHolds /\ ClearedAfterNoExit

(* The rank of an exit is a number below 2048. *)
LEMMA RankIsBounded ==
  ASSUME NEW e \in Exit, NEW r \in Relay
  PROVE  Rank(e, r) \in 0..2047
<1>1. PICK a \in 0..1 : a = Flag(e \in RelayAt[r].preferred)
  BY DEF Flag
<1>2. PICK b \in 0..1 : b = Flag(ExitOf[e].city = RelayAt[r].city)
  BY DEF Flag
<1>3. PICK c \in 0..1 : c = Flag(ExitOf[e].country = RelayAt[r].country)
  BY DEF Flag
<1>4. PICK d \in 0..255 : d = ExitOf[e].tier
  BY SelectionConstants
<1>5. 1024 * a + 512 * b + 256 * c + d \in 0..2047
  OBVIOUS
<1>6. Rank(e, r) = 1024 * a + 512 * b + 256 * c + d
  BY <1>1, <1>2, <1>3, <1>4 DEF Rank
<1> QED  BY <1>5, <1>6

(* Of some exits, one is ranked first. *)
LEMMA SomeExitIsFirst ==
  ASSUME NEW S, S \subseteq Exit, S # {}, NEW r \in Relay
  PROVE  \E e \in S : \A f \in S : Rank(f, r) <= Rank(e, r)
<1> DEFINE rank == [e \in S |-> Rank(e, r)]
<1>1. rank \in [S -> 0..2047]
  BY RankIsBounded
<1>2. PICK top \in Nat : top = 2047
  OBVIOUS
<1>3. \E e \in S : \A f \in S : rank[f] <= rank[e]
  <2>1. rank \in [S -> 0..top]
    BY <1>1, <1>2
  <2> HIDE DEF rank
  <2> QED  BY <2>1, SomeValueIsGreatest
<1> QED  BY <1>3

(* Nothing is excluded of a fresh selection: an exit that matches is one to *)
(* choose from.                                                             *)
LEMMA FreshSelects ==
  ASSUME NEW selectorOf, NEW list, list \subseteq Exit, NEW r \in Relay,
         \E e \in list : Matches(selectorOf, e)
  PROVE  Selectable(Fresh, selectorOf, list, r) # {}
<1> DEFINE open == {e \in list : Matches(selectorOf, e) /\ ~Excluded(Fresh, e)}
<1>1. \A e \in Exit : ~Excluded(Fresh, e)
  BY SelectionConstants DEF Excluded, Fresh, Datacenter, City, Country
<1>2. open \subseteq Exit /\ open # {}
  BY <1>1
<1>3. PICK e \in open : \A f \in open : Rank(f, r) <= Rank(e, r)
  BY <1>2, SomeExitIsFirst
<1> QED  BY <1>3 DEF Selectable

(* The exit chosen is one that could still be used: no count passes its bound. *)
LEMMA UsedIsAState ==
  ASSUME selection \in ExitSelectionState, NEW e \in Exit, ~Excluded(selection, e)
  PROVE  Used(selection, e) \in ExitSelectionState
BY SelectionConstants DEF Used, Excluded, ExitSelectionState, Datacenter, City, Country

LEMMA FreshIsAState == Fresh \in ExitSelectionState
BY SelectionConstants DEF Fresh, ExitSelectionState

(* An attempt that ends holds nothing. *)
LEMMA LeaveKeeps ==
  ASSUME ConnectInv, Leave, UNCHANGED <<last, noExits>>, selector' \in Selectors,
         haveRelays' \in BOOLEAN, exits' \in ExitLists \cup {None},
         selection' \in {selection, Fresh}, key' \in {key, key + 1}, key' \in 0..MaxKeys,
         refused' = refused \/ (refused' = refused \cup {wgKey} /\ key' = key + 1)
  PROVE  ConnectInv'
<1>1. ConnectTypeOK'
  BY FreshIsAState, ConnectingConstants DEF Leave, ConnectInv, ConnectTypeOK
<1>2. KeysInOrder'
  BY ConnectingConstants DEF Leave, ConnectInv, ConnectTypeOK, KeysInOrder
<1>3. AttemptHolds' /\ ClearedAfterNoExit'
  BY ConnectingConstants DEF Leave, ConnectInv, AttemptHolds, ClearedAfterNoExit
<1> QED  BY <1>1, <1>2, <1>3 DEF ConnectInv

LEMMA SelectExitKeeps ==
  ASSUME ConnectInv, SelectExit
  PROVE  ConnectInv'
<1> DEFINE choice == Selectable(selection, selector, exits, relay)
<1>1. exits \in ExitLists /\ exits \subseteq Exit /\ relay \in Relay
  BY ConnectingConstants DEF SelectExit, ConnectInv, ConnectTypeOK, AttemptHolds
<1>2. CASE choice # {}
  <2>1. PICK e \in choice : selection' = Used(selection, e)
    BY <1>2 DEF SelectExit
  <2>2. e \in Exit /\ ~Excluded(selection, e)
    BY <1>1 DEF Selectable
  <2>3. selection' \in ExitSelectionState
    BY <2>1, <2>2, UsedIsAState DEF ConnectInv, ConnectTypeOK
  <2>4. /\ phase' = "key" /\ noExits' = 0
        /\ UNCHANGED <<selector, relay, key, wgKey, refused, tunnel, resends, last,
                       haveRelays, exits>>
        /\ phase = "exits"
    BY <1>2 DEF SelectExit
  <2> HIDE DEF choice
  <2> QED
    BY <2>3, <2>4
       DEF ConnectInv, ConnectTypeOK, KeysInOrder, AttemptHolds, ClearedAfterNoExit
<1>3. CASE choice = {}
  <2>1. /\ selection' = Fresh /\ Leave
        /\ UNCHANGED <<selector, key, refused, last, haveRelays, exits>>
    BY <1>3 DEF SelectExit
  <2>2. noExits' \in {0, 1}
    <3> DEFINE match == \E e \in exits : Matches(selector, e)
    <3>0. noExits' = noExits + (IF match THEN 1 ELSE 0)
      BY <1>3 DEF SelectExit, Flag
    <3>1. CASE noExits = 0
      BY <3>0, <3>1
    <3>2. CASE noExits = 1
      <4>1. selection = Fresh
        BY <3>2 DEF ConnectInv, ClearedAfterNoExit
      <4>2. ~match
        BY <1>1, <1>3, <4>1, FreshSelects
      <4> HIDE DEF match
      <4> QED  BY <3>0, <3>2, <4>2
    <3> QED  BY <3>1, <3>2 DEF ConnectInv, ClearedAfterNoExit
  <2> HIDE DEF choice
  <2>3. ConnectTypeOK'
    BY <2>1, <2>2, FreshIsAState, ConnectingConstants DEF Leave, ConnectInv, ConnectTypeOK
  <2> QED
    BY <2>1, <2>2, <2>3, ConnectingConstants
       DEF Leave, ConnectInv, ConnectTypeOK, KeysInOrder, AttemptHolds, ClearedAfterNoExit
<1> QED  BY <1>2, <1>3

LEMMA ConnectStepKeeps == ConnectInv /\ [ConnectNext]_connectVars => ConnectInv'
<1> SUFFICES ASSUME ConnectInv, [ConnectNext]_connectVars  PROVE ConnectInv'
  OBVIOUS
<1>1. key \in Nat /\ wgKey \in Nat /\ refused \subseteq Nat /\ MaxKeys \in Nat
  BY ConnectingConstants DEF ConnectInv, ConnectTypeOK
<1>2. ASSUME Fail, UNCHANGED <<haveRelays, exits>>  PROVE ConnectInv'
  BY <1>2, LeaveKeeps DEF Fail, ConnectInv, ConnectTypeOK
<1>3. CASE SelectExit
  BY <1>3, SelectExitKeeps
<1>4. CASE StartAttempt \/ RelayList
  BY <1>2, <1>4
     DEF StartAttempt, RelayList, ConnectInv, ConnectTypeOK, KeysInOrder, AttemptHolds,
         ClearedAfterNoExit
<1>5. CASE Race
  BY <1>2, <1>5
     DEF Race, ConnectInv, ConnectTypeOK, KeysInOrder, AttemptHolds, ClearedAfterNoExit
<1>6. CASE TakeKey
  BY <1>1, <1>6
     DEF TakeKey, ConnectInv, ConnectTypeOK, KeysInOrder, AttemptHolds, ClearedAfterNoExit
<1>7. CASE CreateTunnel
  <2>1. CASE Fail
    BY <1>2, <1>7, <2>1 DEF CreateTunnel
  <2>2. CASE ~Fail
    <3>1. /\ tunnel' \in [relay : Relay, exit : Exit] /\ tunnel'.relay = relay
          /\ phase = "create" /\ phase' = "token"
          /\ UNCHANGED <<selector, selection, relay, key, wgKey, refused, resends, last,
                         noExits, haveRelays, exits>>
      BY <1>7, <2>2 DEF CreateTunnel
    <3> QED
      BY <3>1
         DEF ConnectInv, ConnectTypeOK, KeysInOrder, AttemptHolds, ClearedAfterNoExit
  <2> QED  BY <2>1, <2>2
<1>8. CASE RotationRequired
  BY <1>1, <1>8, LeaveKeeps DEF RotationRequired, ConnectInv, ConnectTypeOK
<1>9. CASE Authenticate \/ HandshakeTimeout
  BY <1>2, <1>9, ConnectingConstants
     DEF Authenticate, HandshakeTimeout, ConnectInv, ConnectTypeOK, KeysInOrder, AttemptHolds,
         ClearedAfterNoExit
<1>10. CASE ExitUpdateFails \/ HandshakeError \/ TunnelBreaks
  BY <1>2, <1>10 DEF ExitUpdateFails, HandshakeError, TunnelBreaks
<1>11. CASE Handshaken
  BY <1>11, FreshIsAState, ConnectingConstants
     DEF Handshaken, ConnectInv, ConnectTypeOK, KeysInOrder, AttemptHolds, ClearedAfterNoExit
<1>12. CASE ChangeTarget
  BY <1>12, LeaveKeeps DEF ChangeTarget, ConnectInv, ConnectTypeOK
<1>13. CASE StoreList
  BY <1>13
     DEF StoreList, ConnectInv, ConnectTypeOK, KeysInOrder, AttemptHolds, ClearedAfterNoExit
<1>14. CASE RotateKey
  BY <1>1, <1>14
     DEF RotateKey, ConnectInv, ConnectTypeOK, KeysInOrder, AttemptHolds, ClearedAfterNoExit
<1>15. CASE UNCHANGED connectVars
  BY <1>15
     DEF connectVars, ConnectInv, ConnectTypeOK, KeysInOrder, AttemptHolds, ClearedAfterNoExit
<1> QED
  BY <1>3, <1>4, <1>5, <1>6, <1>7, <1>8, <1>9, <1>10, <1>11, <1>12, <1>13, <1>14, <1>15
     DEF ConnectNext

LEMMA ConnectInitEstablishes == ConnectInit => ConnectInv
BY FreshIsAState, ConnectingConstants
   DEF ConnectInit, ConnectInv, ConnectTypeOK, KeysInOrder, AttemptHolds, ClearedAfterNoExit

LEMMA ConnectInvariant == Spec => []ConnectInv
<1>1. Init => ConnectInv
  BY ConnectInitEstablishes DEF Init
<1>2. ConnectInv /\ [Next]_allVars => ConnectInv'
  BY ConnectStepKeeps, StepOfAPart
<1> QED  BY <1>1, <1>2, PTL DEF Spec

(* Two attempts in a row never both end for want of an exit while one       *)
(* matches (select_next_exit).                                              *)
THEOREM NeverStuck == Spec => []NeverStuckWithoutExit
<1>1. ConnectInv => NeverStuckWithoutExit
  BY DEF ConnectInv, ClearedAfterNoExit, NeverStuckWithoutExit
<1> QED  BY <1>1, ConnectInvariant, PTL

(* The tunnel of an attempt is at the relay of its handshake, and is never  *)
(* asked for with a key the API has refused (new_tunnel).                   *)
THEOREM TunnelFits == Spec => []TunnelFitsHandshake
<1>1. ConnectInv => TunnelFitsHandshake
  BY DEF ConnectInv, KeysInOrder, AttemptHolds, TunnelFitsHandshake
<1> QED  BY <1>1, ConnectInvariant, PTL

-----------------------------------------------------------------------------
(* The channel to the relay *)

(* What the client confirms *)
Confirmed == {"wireguard", "operation"}

(* A sequence holds the operations among the first n messages, in order. *)
Confirms(c, n, messages) ==
  /\ {c[i] : i \in DOMAIN c} = {k \in 1..n : messages[k] \in Confirmed}
  /\ \A i, j \in DOMAIN c : i < j => c[i] < c[j]

(* A batch is taken whole, and only when the one before it is written. *)
BatchIsWritten ==
  /\ writer \in {"look", "packet", "asleep"} => batch = <<>>
  /\ writer = "oks" => batch # <<>>

ChannelInv == ChannelTypeOK /\ BatchIsWritten /\ RelayChannelIsOrderly

(* Taking the queue, writing its head and queueing one more neither lose nor *)
(* reorder a confirmation.                                                   *)
LEMMA TakingKeepsOrder ==
  ASSUME NEW S, NEW w \in Seq(S), NEW o \in Seq(S)
  PROVE  w \o o \o <<>> = w \o <<>> \o o
BY ConcatProperties, ConcatEmptySeq

LEMMA WritingKeepsOrder ==
  ASSUME NEW S, NEW w \in Seq(S), NEW b \in Seq(S), b # <<>>, NEW o \in Seq(S)
  PROVE  Append(w, Head(b)) \o Tail(b) \o o = w \o b \o o
<1>1. Head(b) \in S /\ Tail(b) \in Seq(S)
  BY HeadTailProperties
<1>2. Append(w, Head(b)) \o Tail(b) \in Seq(S) /\ w \o b \in Seq(S)
  BY <1>1, AppendProperties, ConcatProperties
<1>3. Len(Append(w, Head(b)) \o Tail(b)) = Len(w \o b)
  BY <1>1, AppendProperties, ConcatProperties, HeadTailProperties, LenProperties
<1>4. ASSUME NEW i \in 1..Len(w \o b)
      PROVE  (Append(w, Head(b)) \o Tail(b))[i] = (w \o b)[i]
  BY <1>1, <1>4, AppendProperties, ConcatProperties, HeadTailProperties, LenProperties
<1> QED  BY <1>2, <1>3, <1>4, SeqEqual

LEMMA QueueingKeepsOrder ==
  ASSUME NEW S, NEW w \in Seq(S), NEW o \in Seq(S), NEW x \in S
  PROVE  w \o Append(o, x) = Append(w \o o, x)
<1>1. Append(o, x) = o \o <<x>> /\ Append(w \o o, x) = w \o o \o <<x>> /\ <<x>> \in Seq(S)
  BY AppendIsConcat, ConcatProperties
<1> QED  BY <1>1, ConcatAssociative

(* The operations among one more message *)
LEMMA OneMore ==
  ASSUME NEW messages, NEW n \in Nat, NEW c \in Seq(Nat), Confirms(c, n, messages)
  PROVE  /\ messages[n + 1] \in Confirmed => Confirms(Append(c, n + 1), n + 1, messages)
         /\ messages[n + 1] \notin Confirmed => Confirms(c, n + 1, messages)
<1>1. ASSUME messages[n + 1] \in Confirmed
      PROVE  Confirms(Append(c, n + 1), n + 1, messages)
  <2> DEFINE d == Append(c, n + 1)
  <2>1. /\ DOMAIN c = 1..Len(c) /\ DOMAIN d = 1..(Len(c) + 1) /\ Len(c) \in Nat
        /\ \A i \in 1..Len(c) : d[i] = c[i]
        /\ d[Len(c) + 1] = n + 1
        /\ d \in Seq(Nat)
    BY AppendProperties, LenProperties
  <2>2. \A i \in 1..Len(c) : c[i] \in 1..n
    BY <2>1 DEF Confirms
  <2> HIDE DEF d
  <2>3. ASSUME NEW i \in DOMAIN d, NEW j \in DOMAIN d, i < j
        PROVE  d[i] < d[j]
    <3>1. i \in 1..Len(c)
      BY <2>1, <2>3
    <3>2. CASE j \in 1..Len(c)
      BY <2>1, <2>3, <3>1, <3>2 DEF Confirms
    <3>3. CASE j = Len(c) + 1
      BY <2>1, <2>2, <3>1, <3>3
    <3> QED  BY <2>1, <3>2, <3>3
  <2>4. ASSUME NEW k
        PROVE  k \in {d[i] : i \in DOMAIN d} <=> k \in {c[i] : i \in DOMAIN c} \cup {n + 1}
    <3>1. \A i \in DOMAIN d : i \in DOMAIN c \/ i = Len(c) + 1
      BY <2>1
    <3>2. Len(c) + 1 \in DOMAIN d /\ DOMAIN c \subseteq DOMAIN d
      BY <2>1
    <3> QED  BY <2>1, <3>1, <3>2
  <2>5. ASSUME NEW k
        PROVE  k \in {d[i] : i \in DOMAIN d}
                 <=> k \in {m \in 1..(n + 1) : messages[m] \in Confirmed}
    <3>1. 1..(n + 1) = (1..n) \cup {n + 1} /\ n + 1 \notin 1..n
      OBVIOUS
    <3> QED  BY <1>1, <2>4, <3>1 DEF Confirms
  <2>6. Confirms(d, n + 1, messages)
    BY <2>3, <2>5 DEF Confirms
  <2> QED  BY <2>6 DEF d
<1>2. ASSUME messages[n + 1] \notin Confirmed  PROVE Confirms(c, n + 1, messages)
  BY <1>2 DEF Confirms
<1> QED  BY <1>1, <1>2

-----------------------------------------------------------------------------
LEMMA ChannelInitEstablishes == ChannelInit => ChannelInv
<1> SUFFICES ASSUME ChannelInit  PROVE ChannelInv
  OBVIOUS
<1>1. written \o batch \o oks = <<>>
  BY ConcatEmptySeq DEF ChannelInit
<1>2. \A S : <<>> \in Seq(S)
  BY EmptySeq
<1>3. ChannelTypeOK
  <2>1. <<>> \in Seq(Kind) /\ <<>> \in Seq(1..MaxMessages) /\ Len(<<>>) = 0
    BY <1>2
  <2>2. sent \in Seq(Kind) /\ (\A q \in {oks, batch, written} : q \in Seq(1..MaxMessages))
    BY <2>1 DEF ChannelInit
  <2>3. Len(sent) <= MaxMessages
    BY <2>1, ChannelConstants DEF ChannelInit
  <2>4. pos \in 0..(2 * Len(sent))
    BY <2>1 DEF ChannelInit
  <2>5. inside \in BOOLEAN /\ receiving \in BOOLEAN /\ changed \in BOOLEAN
    BY DEF ChannelInit
  <2> QED  BY <2>2, <2>3, <2>4, <2>5, ChannelConstants DEF ChannelInit, ChannelTypeOK
<1>4. RelayChannelIsOrderly
  <2>1. Confirmations = <<>> /\ DOMAIN <<>> = {}
    BY <1>1 DEF Confirmations
  <2>2. pos \div 2 = 0 /\ pos % 2 = 0
    BY DEF ChannelInit
  <2>3. {Confirmations[i] : i \in DOMAIN Confirmations} = {}
    BY <2>1
  <2>4. {n \in 1..(pos \div 2) : sent[n] \in {"wireguard", "operation"}} = {}
    BY <2>2
  <2>5. \A i, j \in DOMAIN Confirmations : i < j => Confirmations[i] < Confirmations[j]
    BY <2>1
  <2>6. (pos % 2 = IF inside THEN 1 ELSE 0) /\ writer = "look"
    BY <2>2 DEF ChannelInit
  <2> QED  BY <2>3, <2>4, <2>5, <2>6 DEF RelayChannelIsOrderly
<1> QED  BY <1>3, <1>4 DEF ChannelInit, ChannelInv, BatchIsWritten

(* The invariant, with the order of confirmations as a property of one      *)
(* sequence                                                                 *)
LEMMA OrderlyIsConfirms ==
  RelayChannelIsOrderly <=>
    /\ pos % 2 = IF inside THEN 1 ELSE 0
    /\ Confirms(Confirmations, pos \div 2, sent)
    /\ writer = "asleep" /\ ~changed => oks = <<>> /\ packets = 0
BY DEF RelayChannelIsOrderly, Confirms, Confirmed

LEMMA ReadPayloadKeeps ==
  ASSUME ChannelInv, ReadPayload
  PROVE  ChannelInv'
<1> DEFINE n == pos \div 2
<1>1. /\ sent \in Seq(Kind) /\ Len(sent) \in Nat /\ Len(sent) <= MaxMessages /\ MaxMessages \in Nat
      /\ pos \in 0..(2 * Len(sent)) /\ pos < 2 * Len(sent) /\ pos % 2 = 1
      /\ oks \in Seq(1..MaxMessages) /\ batch \in Seq(1..MaxMessages)
      /\ written \in Seq(1..MaxMessages)
  BY LenProperties, ChannelConstants
     DEF ReadPayload, ChannelInv, ChannelTypeOK, RelayChannelIsOrderly
<1>2. /\ n \in Nat /\ n < Len(sent) /\ (pos + 1) \div 2 = n + 1 /\ (pos + 1) % 2 = 0
      /\ n + 1 \in 1..MaxMessages
  <2>1. PICK l \in Nat : l = Len(sent)
    BY <1>1
  <2>2. pos \in Nat /\ pos < 2 * l /\ l <= MaxMessages
    BY <1>1, <2>1
  <2>3. pos \div 2 < l /\ pos \div 2 \in Nat /\ (pos + 1) \div 2 = (pos \div 2) + 1
    BY <1>1, <2>2
  <2> QED  BY <1>1, <2>1, <2>2, <2>3
<1> HIDE DEF n
<1>3. Confirms(Confirmations, n, sent)
  BY OrderlyIsConfirms DEF ChannelInv, n
<1>4. Confirmations \in Seq(1..MaxMessages) /\ written \o batch \in Seq(1..MaxMessages)
  BY <1>1, ConcatProperties DEF Confirmations
<1>5. Confirmations \in Seq(Nat)
  <2>1. 1..MaxMessages \subseteq Nat
    OBVIOUS
  <2> QED  BY <1>4, <2>1, SeqMonotonic
<1>6. /\ inside' = FALSE /\ pos' = pos + 1
      /\ UNCHANGED <<sent, packets, sending, writer, batch, written>>
      /\ receiving' \in BOOLEAN /\ channel' \in {"open", "failed"}
  BY DEF ReadPayload
<1>7. Confirms(Confirmations', n + 1, sent)
  <2>1. CASE sent[n + 1] \in Confirmed
    <3>1. oks' = Append(oks, n + 1)
      BY <1>2, <1>6, <2>1 DEF ReadPayload, Confirmed
    <3>2. Confirmations' = Append(Confirmations, n + 1)
      <4>1. Confirmations' = written \o batch \o Append(oks, n + 1)
        BY <1>6, <3>1 DEF Confirmations
      <4>2. ASSUME NEW S, S = 1..MaxMessages, NEW w \in Seq(S)
            PROVE  w \o Append(oks, n + 1) = Append(w \o oks, n + 1)
        <5>1. oks \in Seq(S) /\ n + 1 \in S
          BY <1>1, <1>2, <4>2
        <5> QED  BY <5>1, QueueingKeepsOrder
      <4>3. Confirmations = (written \o batch) \o oks
        BY DEF Confirmations
      <4> QED  BY <1>4, <4>1, <4>2, <4>3, Zenon
    <3> QED  BY <1>2, <1>3, <1>5, <2>1, <3>2, OneMore
  <2>2. CASE sent[n + 1] \notin Confirmed
    <3>1. oks' = oks
      BY <1>2, <1>6, <2>2 DEF ReadPayload, Confirmed
    <3>2. Confirmations' = Confirmations
      BY <1>6, <3>1 DEF Confirmations
    <3> QED  BY <1>2, <1>3, <1>5, <2>2, <3>2, OneMore
  <2> QED  BY <2>1, <2>2
<1>8. oks' \in Seq(1..MaxMessages) /\ changed' \in BOOLEAN
      /\ (changed' = FALSE => changed = FALSE /\ oks' = oks)
  <2>1. CASE sent[n + 1] \in Confirmed
    <3>1. oks' = Append(oks, n + 1) /\ changed' = TRUE
      BY <1>2, <1>6, <2>1 DEF ReadPayload, Confirmed, n
    <3> QED  BY <1>1, <1>2, <3>1, AppendProperties
  <2>2. CASE sent[n + 1] \notin Confirmed
    <3>1. oks' = oks /\ changed' = changed
      BY <1>2, <1>6, <2>2 DEF ReadPayload, Confirmed, n
    <3> QED  BY <1>1, <3>1 DEF ChannelInv, ChannelTypeOK
  <2> QED  BY <2>1, <2>2
<1>9. ChannelTypeOK'
  <2>1. pos' \in 0..(2 * Len(sent'))
    <3>1. PICK l \in Nat : l = Len(sent)
      BY <1>1
    <3>2. pos' = pos + 1 /\ sent' = sent
      BY <1>6
    <3>3. pos \in Nat /\ pos + 1 <= 2 * l
      BY <1>1, <3>1
    <3> QED  BY <3>1, <3>2, <3>3
  <2> QED  BY <1>1, <1>6, <1>8, <2>1 DEF ChannelInv, ChannelTypeOK
<1>10. RelayChannelIsOrderly'
  <2>1. Confirms(Confirmations, pos \div 2, sent)'
    BY <1>2, <1>6, <1>7
  <2> QED
    BY <1>2, <1>6, <1>8, <2>1, OrderlyIsConfirms
       DEF ChannelInv, RelayChannelIsOrderly, Confirms, Confirmed
<1> QED  BY <1>6, <1>9, <1>10 DEF ChannelInv, BatchIsWritten

(* A step that moves confirmations but neither loses nor reorders them, and *)
(* takes nothing from the stream                                            *)
LEMMA WriterStepKeeps ==
  ASSUME ChannelInv, Confirmations' = Confirmations,
         UNCHANGED <<sent, pos, inside, receiving, sending, channel>>,
         oks' \in Seq(1..MaxMessages), batch' \in Seq(1..MaxMessages),
         written' \in Seq(1..MaxMessages), packets' \in 0..MaxQueue, changed' \in BOOLEAN,
         writer' \in {"look", "packet", "oks", "asleep", "ended"},
         writer' \in {"look", "packet", "asleep"} => batch' = <<>>,
         writer' = "oks" => batch' # <<>>,
         writer' = "asleep" => oks' = <<>> /\ packets' = 0
  PROVE  ChannelInv'
<1>1. ChannelTypeOK'
  BY DEF ChannelInv, ChannelTypeOK
<1>2. BatchIsWritten'
  BY DEF BatchIsWritten
<1>3. RelayChannelIsOrderly'
  BY DEF ChannelInv, RelayChannelIsOrderly
<1> QED  BY <1>1, <1>2, <1>3 DEF ChannelInv

LEMMA WriterKeeps ==
  ASSUME ChannelInv, Look \/ WritePacket \/ WriteOk \/ WakeWriter \/ WriteError
  PROVE  ChannelInv'
<1> DEFINE S == 1..MaxMessages
<1>1. /\ oks \in Seq(S) /\ batch \in Seq(S) /\ written \in Seq(S)
      /\ packets \in 0..MaxQueue /\ MaxQueue \in Nat /\ changed \in BOOLEAN
  BY ChannelConstants DEF ChannelInv, ChannelTypeOK
<1> HIDE DEF S
<1>2. /\ writer \in {"look", "packet", "asleep"} => batch = <<>>
      /\ writer = "oks" => batch # <<>>
  BY DEF ChannelInv, BatchIsWritten
<1>3. Confirmations = (written \o batch) \o oks
      /\ Confirmations' = (written' \o batch') \o oks'
  BY DEF Confirmations
<1>4. CASE Look
  <2>1. /\ batch = <<>> /\ written' = written
        /\ UNCHANGED <<sent, pos, inside, receiving, sending, channel>>
    BY <1>2, <1>4 DEF Look
  <2>2. CASE oks # <<>>
    <3>1. batch' = oks /\ oks' = <<>> /\ writer' = "oks" /\ changed' = TRUE /\ packets' = packets
      BY <1>4, <2>1, <2>2 DEF Look
    <3>2. Confirmations' = Confirmations
      BY <1>1, <1>3, <2>1, <3>1, TakingKeepsOrder
    <3> QED  BY <1>1, <2>1, <2>2, <3>1, <3>2, WriterStepKeeps, EmptySeq DEF S
  <2>3. CASE oks = <<>>
    <3>1. /\ oks' = oks /\ batch' = batch /\ packets' \in 0..MaxQueue
          /\ changed' \in BOOLEAN
          /\ writer' = "packet" \/ (writer' = "asleep" /\ packets' = 0)
      <4>1. CASE packets > 0
        <5>1. packets' = packets - 1 /\ writer' = "packet" /\ changed' = TRUE
              /\ oks' = oks /\ batch' = batch
          BY <1>1, <1>4, <2>3, <4>1 DEF Look
        <5>2. packets - 1 \in 0..MaxQueue
          BY <1>1, <4>1
        <5> QED  BY <5>1, <5>2
      <4>2. CASE ~(packets > 0)
        BY <1>1, <1>4, <2>1, <2>3, <4>2 DEF Look
      <4> QED  BY <4>1, <4>2
    <3>2. Confirmations' = Confirmations
      BY <1>3, <2>1, <3>1
    <3> QED  BY <1>1, <2>1, <2>3, <3>1, <3>2, WriterStepKeeps DEF S
  <2> QED  BY <2>2, <2>3
<1>5. CASE WriteOk
  <2>1. /\ batch # <<>> /\ written' = Append(written, Head(batch)) /\ batch' = Tail(batch)
        /\ writer' = (IF batch' = <<>> THEN "look" ELSE "oks")
        /\ UNCHANGED <<sent, pos, inside, receiving, oks, packets, sending, changed, channel>>
    BY <1>2, <1>5 DEF WriteOk
  <2>2. Confirmations' = Confirmations
    <3>1. Append(written, Head(batch)) \o Tail(batch) \o oks = written \o batch \o oks
      BY <1>1, <2>1, WritingKeepsOrder
    <3> QED  BY <1>3, <2>1, <3>1
  <2>3. written' \in Seq(S) /\ batch' \in Seq(S)
    BY <1>1, <2>1, AppendProperties, HeadTailProperties
  <2> QED  BY <1>1, <2>1, <2>2, <2>3, WriterStepKeeps DEF S
<1>6. CASE WritePacket \/ WakeWriter \/ WriteError
  <2>1. /\ UNCHANGED <<sent, pos, inside, receiving, oks, packets, sending, batch, written,
                       channel>>
        /\ changed' \in BOOLEAN
        /\ writer' \in {"look", "ended"} /\ (writer' = "look" => writer \in {"packet", "asleep"})
    BY <1>1, <1>6 DEF WritePacket, WakeWriter, WriteError
  <2>2. Confirmations' = Confirmations
    BY <1>3, <2>1
  <2> QED  BY <1>1, <1>2, <2>1, <2>2, WriterStepKeeps DEF S
<1> QED  BY <1>4, <1>5, <1>6

LEMMA RelaySendsKeeps ==
  ASSUME ChannelInv, NEW kind \in Kind, RelaySends(kind)
  PROVE  ChannelInv'
<1>1. PICK l \in Nat : l = Len(sent)
  BY LenProperties DEF ChannelInv, ChannelTypeOK
<1>2. /\ sent \in Seq(Kind) /\ sent' = Append(sent, kind) /\ l < MaxMessages
      /\ MaxMessages \in Nat /\ pos \in 0..(2 * l)
      /\ UNCHANGED <<pos, inside, receiving, oks, packets, sending, changed, writer, batch,
                     written, channel>>
  BY <1>1, ChannelConstants DEF RelaySends, ChannelInv, ChannelTypeOK
<1>3. /\ sent' \in Seq(Kind) /\ Len(sent') = l + 1
      /\ \A i \in 1..l : sent'[i] = sent[i]
  BY <1>1, <1>2, AppendProperties
<1>4. ChannelTypeOK'
  BY <1>2, <1>3 DEF ChannelInv, ChannelTypeOK
<1>5. \A i \in 1..(pos \div 2) : sent'[i] = sent[i]
  <2>1. pos \div 2 <= l /\ pos \div 2 \in Nat
    BY <1>1, <1>2
  <2> QED  BY <1>3, <2>1
<1>6. Confirmations' = Confirmations
  BY <1>2 DEF Confirmations
<1>7. {n \in 1..(pos' \div 2) : sent'[n] \in {"wireguard", "operation"}}
        = {n \in 1..(pos \div 2) : sent[n] \in {"wireguard", "operation"}}
  BY <1>2, <1>5
<1>8. RelayChannelIsOrderly'
  BY <1>2, <1>6, <1>7 DEF ChannelInv, RelayChannelIsOrderly
<1> QED  BY <1>2, <1>4, <1>8 DEF ChannelInv, BatchIsWritten

LEMMA ReadHeaderKeeps ==
  ASSUME ChannelInv, ReadHeader
  PROVE  ChannelInv'
<1>1. PICK l \in Nat : l = Len(sent)
  BY LenProperties DEF ChannelInv, ChannelTypeOK
<1>2. /\ inside = FALSE /\ inside' = TRUE /\ pos' = pos + 1 /\ pos \in Nat /\ pos < 2 * l
      /\ UNCHANGED <<sent, receiving, oks, packets, sending, changed, writer, batch, written,
                     channel>>
  BY <1>1 DEF ReadHeader, ChannelInv, ChannelTypeOK
<1>3. pos % 2 = 0
  BY <1>2 DEF ChannelInv, RelayChannelIsOrderly
<1>4. pos' \div 2 = pos \div 2 /\ pos' % 2 = 1 /\ pos' \in 0..(2 * l)
  BY <1>2, <1>3
<1>5. ChannelTypeOK'
  BY <1>1, <1>2, <1>4 DEF ChannelInv, ChannelTypeOK
<1>6. Confirmations' = Confirmations
  BY <1>2 DEF Confirmations
<1>7. RelayChannelIsOrderly'
  BY <1>2, <1>4, <1>6 DEF ChannelInv, RelayChannelIsOrderly
<1> QED  BY <1>2, <1>5, <1>7 DEF ChannelInv, BatchIsWritten

(* The steps that leave the stream and the confirmations as they are *)
LEMMA OthersKeep ==
  ASSUME ChannelInv, Receive \/ DropReceive \/ ReadError \/ SendPacket
  PROVE  ChannelInv'
<1>1. /\ UNCHANGED <<sent, pos, inside, oks, writer, batch, written>>
      /\ receiving' \in BOOLEAN /\ channel' \in {"open", "failed"}
      /\ packets' \in 0..MaxQueue /\ sending' \in 0..MaxPackets /\ changed' \in BOOLEAN
      /\ changed' = FALSE => changed = FALSE /\ packets' = packets
  <2>1. /\ packets \in 0..MaxQueue /\ sending \in 0..MaxPackets /\ changed \in BOOLEAN
        /\ channel \in {"open", "failed"} /\ MaxQueue \in Nat /\ MaxPackets \in Nat
    BY ChannelConstants DEF ChannelInv, ChannelTypeOK
  <2>2. CASE Receive \/ DropReceive \/ ReadError
    BY <2>1, <2>2 DEF Receive, DropReceive, ReadError
  <2>3. CASE SendPacket
    BY <2>1, <2>3 DEF SendPacket, ChannelInv, ChannelTypeOK
  <2> QED  BY <2>2, <2>3
<1>2. ChannelTypeOK' /\ BatchIsWritten'
  BY <1>1 DEF ChannelInv, ChannelTypeOK, BatchIsWritten
<1>3. Confirmations' = Confirmations
  BY <1>1 DEF Confirmations
<1>4. RelayChannelIsOrderly'
  BY <1>1, <1>3 DEF ChannelInv, RelayChannelIsOrderly
<1> QED  BY <1>2, <1>4 DEF ChannelInv

LEMMA NewChannelKeeps == ASSUME NewChannel  PROVE ChannelInv'
<1>1. ChannelInit'
  BY DEF NewChannel, ChannelInit
<1> QED  BY <1>1, ChannelInitEstablishes, PTL

LEMMA ChannelStepKeeps == ChannelInv /\ [ChannelNext]_channelVars => ChannelInv'
<1> SUFFICES ASSUME ChannelInv, [ChannelNext]_channelVars  PROVE ChannelInv'
  OBVIOUS
<1>1. CASE UNCHANGED channelVars
  <2>1. Confirmations' = Confirmations
    BY <1>1 DEF channelVars, Confirmations
  <2> QED
    BY <1>1, <2>1
       DEF channelVars, ChannelInv, ChannelTypeOK, BatchIsWritten, RelayChannelIsOrderly
<1> QED
  BY <1>1, RelaySendsKeeps, ReadHeaderKeeps, ReadPayloadKeeps, OthersKeep, WriterKeeps,
     NewChannelKeeps
     DEF ChannelNext

LEMMA ChannelInvariant == Spec => []ChannelInv
<1>1. Init => ChannelInv
  BY ChannelInitEstablishes DEF Init
<1>2. ChannelInv /\ [Next]_allVars => ChannelInv'
  BY ChannelStepKeeps, StepOfAPart
<1> QED  BY <1>1, <1>2, PTL DEF Spec

(* A read dropped at any moment loses nothing, every operation of the relay  *)
(* is confirmed once and in order, and the writer sleeps only when nothing   *)
(* is queued or it is about to be woken (quicwg.rs).                         *)
THEOREM ChannelIsOrderly == Spec => []RelayChannelIsOrderly
<1>1. ChannelInv => RelayChannelIsOrderly
  BY DEF ChannelInv
<1> QED  BY <1>1, ChannelInvariant, PTL

-----------------------------------------------------------------------------
(* The probes *)

Ping == [age : Nat, coming : BOOLEAN]
ReceivedPong == [ago : Nat, rtt : Nat]

LivenessTypes ==
  /\ outstanding \in Seq(Ping) /\ slowest \in Seq(ReceivedPong)
  /\ lastPing \in Nat /\ waking \in BOOLEAN

(* Pings are sent at least BUSY apart: an entry is so much older than each   *)
(* that follows.                                                             *)
PingsAreApart ==
  /\ \A i, j \in DOMAIN outstanding :
       i < j => outstanding[j].age + (j - i) * BUSY <= outstanding[i].age
  /\ \A i \in DOMAIN outstanding : lastPing <= outstanding[i].age

(* No answer takes longer than the probes that may be lost meanwhile. *)
AnswersAreInTime == \A i \in DOMAIN outstanding : outstanding[i].age <= MaxLostNow * BUSY

LivenessInv ==
  /\ LivenessTypes
  /\ network = "good" => verdict = "alive" /\ PingsAreApart /\ AnswersAreInTime

LEMMA LimitsOfLoss ==
  /\ MaxLostNow \in 0..MaxLost
  /\ MaxLost * BUSY \in Nat /\ MaxLostAwake * BUSY \in Nat
  /\ MaxLostAwake * BUSY <= MaxLost * BUSY
  /\ AgeCap \in Nat /\ MaxLost * BUSY < AgeCap
<1>1. MaxLost \in Nat /\ BUSY \in Nat /\ MaxLostAwake \in Nat /\ MaxLostAwake <= MaxLost
      /\ MaxPeriod \in Nat
  BY LivenessConstants
<1>2. MaxLost * BUSY \in Nat /\ MaxLostAwake * BUSY \in Nat
  BY <1>1
<1>3. MaxLostAwake * BUSY <= MaxLost * BUSY
  BY <1>1
<1>4. PICK product \in Nat : product = MaxLost * BUSY
  BY <1>2
<1>5. PICK top \in Nat : top = MaxPeriod + product
  BY <1>1
<1>6. {MaxPeriod, product} \subseteq 0..top
  BY <1>1, <1>5
<1>7. Max({MaxPeriod, product}) \in {MaxPeriod, product} /\ product <= Max({MaxPeriod, product})
  BY <1>6, MaxIsGreatest
<1>8. AgeCap \in Nat /\ product < AgeCap
  BY <1>1, <1>4, <1>7 DEF AgeCap
<1> QED  BY <1>1, <1>2, <1>3, <1>4, <1>8 DEF MaxLostNow

(* A probe is not lost in no time. *)
LEMMA PingsHaveAges ==
  ASSUME LivenessTypes
  PROVE  \A i \in 1..Len(outstanding) : outstanding[i] \in Ping /\ outstanding[i].age \in Nat
<1>1. \A i \in 1..Len(outstanding) : outstanding[i] \in Ping
  BY ElementOfSeq DEF LivenessTypes
<1> QED  BY <1>1 DEF Ping

LEMMA LostPeriodIsPositive ==
  ASSUME LivenessTypes
  PROVE  LostPeriod \in Nat \ {0}
<1>1. CASE slowest = <<>>
  BY <1>1, LivenessConstants DEF LostPeriod
<1>2. CASE slowest # <<>>
  <2>1. 1 \in 1..Len(slowest)
    BY <1>2, EmptySeq, LenProperties DEF LivenessTypes
  <2>2. slowest[1] \in ReceivedPong
    BY <2>1, ElementOfSeq DEF LivenessTypes
  <2>3. PICK r \in Nat : r = slowest[1].rtt
    BY <2>2 DEF ReceivedPong
  <2> QED  BY <1>2, <2>3, LivenessConstants DEF LostPeriod, LowerOf
<1> QED  BY <1>1, <1>2

(* Were one probe more lost than is allowed, the oldest would have waited    *)
(* for its answer while each of the others was sent.                         *)
LEMMA AnsweringIsNotDead ==
  ASSUME LivenessTypes, PingsAreApart, AnswersAreInTime
  PROVE  ~Dead
<1> SUFFICES ASSUME Dead  PROVE FALSE
  OBVIOUS
<1>1. PICK l \in Nat : l = Len(outstanding) /\ DOMAIN outstanding = 1..l
  BY LenProperties DEF LivenessTypes
<1>2. \A i \in 1..l : outstanding[i].age \in Nat
  BY <1>1, PingsHaveAges
<1>3. Lost \cup {0} \subseteq 0..l
  BY <1>1 DEF Lost
<1>4. LostCount \in Lost \cup {0}
  <2> DEFINE S == Lost \cup {0}
  <2>1. S \subseteq 0..l /\ S # {}
    BY <1>3
  <2> HIDE DEF S
  <2>2. Max(S) \in S
    BY <2>1, MaxIsGreatest
  <2> QED  BY <2>2 DEF LostCount, S
<1>5. PICK n \in Nat : n = LostCount
  BY <1>3, <1>4
<1>6. PICK m \in Nat : m = MaxLostNow
  BY LimitsOfLoss, LivenessConstants
<1>7. n > m
  BY <1>5, <1>6 DEF Dead
<1>8. n \in 1..l /\ LostPeriod <= outstanding[n].age
  <2>1. n \in Lost
    BY <1>4, <1>5, <1>7
  <2> QED  BY <1>1, <1>2, <2>1, LostPeriodIsPositive DEF Lost
<1>9. outstanding[1].age \in Nat /\ outstanding[n].age \in Nat /\ 1 \in 1..l
  BY <1>2, <1>8
<1>10. outstanding[n].age + (n - 1) * BUSY <= outstanding[1].age
  <2>1. CASE n = 1
    BY <1>9, <2>1, LivenessConstants
  <2>2. CASE n # 1
    BY <1>1, <1>8, <1>9, <2>2 DEF PingsAreApart
  <2> QED  BY <2>1, <2>2
<1>11. outstanding[1].age <= m * BUSY
  BY <1>1, <1>6, <1>9 DEF AnswersAreInTime
<1>12. m * BUSY <= (n - 1) * BUSY /\ m * BUSY \in Nat /\ (n - 1) * BUSY \in Nat
  <2>1. PICK d \in Nat : n - 1 = m + d
    <3>1. n - 1 - m \in Nat
      BY <1>7
    <3> QED  BY <3>1
  <2>2. BUSY \in Nat
    BY LivenessConstants
  <2>3. (m + d) * BUSY = m * BUSY + d * BUSY /\ d * BUSY \in Nat /\ m * BUSY \in Nat
    BY <2>2
  <2> QED  BY <2>1, <2>3
<1> QED  BY <1>8, <1>9, <1>10, <1>11, <1>12, LostPeriodIsPositive

-----------------------------------------------------------------------------
(* A ping is sent: never, while the network answers, sooner than BUSY after *)
(* the one before it.                                                       *)
LEMMA SendPingKeeps ==
  ASSUME LivenessInv, SendPing(outstanding, slowest), UNCHANGED <<waking, verdict, network>>,
         lastPing >= BUSY
  PROVE  LivenessInv'
<1>1. PICK l \in Nat : l = Len(outstanding) /\ DOMAIN outstanding = 1..l
  BY LenProperties DEF LivenessInv, LivenessTypes
<1> DEFINE new == [age |-> 0, coming |-> network # "silent"]
<1>2. new \in Ping /\ new.age = 0
  BY DEF Ping
<1>3. outstanding' = Append(outstanding, new) /\ lastPing' = 0
  BY DEF SendPing
<1> HIDE DEF new
<1>4. /\ outstanding' \in Seq(Ping) /\ DOMAIN outstanding' = 1..(l + 1)
      /\ \A i \in 1..l : outstanding'[i] = outstanding[i]
      /\ outstanding'[l + 1] = new
  BY <1>1, <1>2, <1>3, AppendProperties, LenProperties DEF LivenessInv, LivenessTypes
<1>5. slowest' \in Seq(ReceivedPong)
  <2>1. PICK k \in Nat : slowest \in [1..k -> ReceivedPong] /\ DOMAIN slowest = 1..k
    BY LenProperties DEF LivenessInv, LivenessTypes
  <2>2. slowest' \in [1..k -> ReceivedPong]
    BY <2>1 DEF SendPing, ReceivedPong
  <2> QED  BY <2>1, <2>2, SeqDef
<1>6. LivenessTypes'
  BY <1>3, <1>4, <1>5 DEF LivenessInv, LivenessTypes
<1>7. ASSUME network = "good"  PROVE PingsAreApart' /\ AnswersAreInTime'
  <2>1. /\ \A i \in 1..l : outstanding[i].age \in Nat /\ BUSY <= outstanding[i].age
        /\ BUSY \in Nat
    <3>1. \A i \in 1..l : outstanding[i].age \in Nat
      BY <1>1, PingsHaveAges DEF LivenessInv
    <3>2. BUSY \in Nat /\ lastPing \in Nat
      BY LivenessConstants DEF LivenessInv, LivenessTypes
    <3> QED  BY <1>1, <1>7, <3>1, <3>2 DEF LivenessInv, PingsAreApart
  <2>2. ASSUME NEW i \in 1..l, NEW j \in 1..(l + 1), i < j
        PROVE  outstanding'[j].age + (j - i) * BUSY <= outstanding'[i].age
    <3>1. CASE j \in 1..l
      BY <1>1, <1>4, <1>7, <2>2, <3>1 DEF LivenessInv, PingsAreApart
    <3>2. CASE j = l + 1 /\ i = l
      BY <1>2, <1>4, <2>1, <3>2
    <3>3. CASE j = l + 1 /\ i # l
      <4>1. outstanding[l].age + (l - i) * BUSY <= outstanding[i].age /\ l \in 1..l
        BY <1>1, <1>7, <3>3 DEF LivenessInv, PingsAreApart
      <4>2. (l + 1 - i) * BUSY = (l - i) * BUSY + BUSY
        BY <2>1
      <4>3. (l - i) * BUSY \in Int
        BY <2>1
      <4> QED  BY <1>2, <1>4, <2>1, <3>3, <4>1, <4>2, <4>3
    <3> QED  BY <3>1, <3>2, <3>3
  <2>3. PingsAreApart'
    <3>1. \A i, j \in DOMAIN outstanding' :
             i < j => outstanding'[j].age + (j - i) * BUSY <= outstanding'[i].age
      BY <1>4, <2>2
    <3>2. \A i \in DOMAIN outstanding' : lastPing' <= outstanding'[i].age
      BY <1>2, <1>3, <1>4, <2>1
    <3> QED  BY <3>1, <3>2 DEF PingsAreApart
  <2>4. AnswersAreInTime'
    <3>1. PICK bound \in Nat : bound = MaxLostNow * BUSY
      BY LimitsOfLoss, LivenessConstants DEF MaxLostNow
    <3>2. bound = (MaxLostNow * BUSY)'
      BY <3>1 DEF MaxLostNow
    <3> QED
      BY <1>1, <1>2, <1>4, <1>7, <3>1, <3>2 DEF LivenessInv, AnswersAreInTime
  <2> QED  BY <2>3, <2>4
<1> QED  BY <1>6, <1>7 DEF LivenessInv

(* The device wakes up: nothing is left to be lost but the new ping. *)
LEMMA WakeKeeps ==
  ASSUME LivenessInv, Wake
  PROVE  LivenessInv'
<1> DEFINE new == [age |-> 0, coming |-> network # "silent"]
<1>1. new \in Ping /\ new.age = 0
  BY DEF Ping
<1>2. outstanding' = Append(<<>>, new) /\ lastPing' = 0
  BY DEF Wake, SendPing
<1> HIDE DEF new
<1>3. /\ outstanding' \in Seq(Ping) /\ Len(outstanding') = 1 /\ DOMAIN outstanding' = 1..1
      /\ outstanding'[1] = new
  BY <1>1, <1>2, AppendProperties, EmptySeq, LenProperties
<1>4. slowest' \in Seq(ReceivedPong)
  <2>1. slowest' = [i \in {} |-> [<<>>[i] EXCEPT !.ago = @ + 1]]
    BY DEF Wake, SendPing
  <2>2. slowest' \in [1..0 -> ReceivedPong]
    BY <2>1
  <2> QED  BY <2>2, SeqDef
<1>5. \A i \in DOMAIN outstanding' : i = 1 /\ outstanding'[i].age = 0
  BY <1>1, <1>3
<1>6. LivenessTypes'
  BY <1>2, <1>3, <1>4 DEF Wake, LivenessTypes
<1>7. PingsAreApart'
  BY <1>2, <1>5 DEF PingsAreApart
<1>8. AnswersAreInTime'
  <2>1. (MaxLostNow * BUSY)' = MaxLostAwake * BUSY
    BY DEF Wake, MaxLostNow
  <2> QED  BY <1>5, <2>1, LimitsOfLoss DEF AnswersAreInTime
<1> QED  BY <1>6, <1>7, <1>8 DEF LivenessInv, Wake

(* An answer takes its ping and those before it from the list. *)
LEMMA PongKeeps ==
  ASSUME LivenessInv, NEW i \in DOMAIN outstanding, Pong(i)
  PROVE  LivenessInv'
<1>1. PICK l \in Nat : l = Len(outstanding) /\ DOMAIN outstanding = 1..l
  BY LenProperties DEF LivenessInv, LivenessTypes
<1>2. /\ \A j \in 1..l : outstanding[j] \in Ping /\ outstanding[j].age \in Nat
      /\ i \in 1..l
  BY <1>1, PingsHaveAges DEF LivenessInv
<1>3. /\ outstanding' = SubSeq(outstanding, i + 1, l) /\ waking' = FALSE
      /\ UNCHANGED <<lastPing, verdict, network>>
  BY <1>1 DEF Pong, Answered
<1>4. /\ outstanding' \in Seq(Ping) /\ DOMAIN outstanding' = 1..(l - i)
      /\ \A j \in 1..(l - i) : outstanding'[j] = outstanding[i + j]
  <2>1. /\ outstanding' \in Seq(Ping)
        /\ Len(outstanding') = IF i + 1 <= l THEN l - (i + 1) + 1 ELSE 0
        /\ \A j \in 1..(l - (i + 1) + 1) : outstanding'[j] = outstanding[(i + 1) + j - 1]
    BY <1>2, <1>3, SubSeqProperties
  <2>2. Len(outstanding') = l - i /\ l - (i + 1) + 1 = l - i
    BY <1>2, <2>1
  <2> QED  BY <1>2, <2>1, <2>2, LenProperties
<1>5. slowest' \in Seq(ReceivedPong)
  <2>1. PICK k \in Nat : k = Len(slowest) /\ DOMAIN slowest = 1..k
    BY LenProperties DEF LivenessInv, LivenessTypes
  <2>2. PICK ago \in Nat : ago = l - i
    BY <1>2
  <2>3. PICK age \in Nat : age = outstanding[i].age
    BY <1>2
  <2> DEFINE recent == {n \in DOMAIN slowest : slowest[n].ago <= ago + Window}
             slow == {n \in DOMAIN slowest : slowest[n].rtt > age}
             first == Min(recent \cup {k + 1})
             final == Max(slow \cup {0})
  <2>4. slowest' = Append(SubSeq(slowest, first, final), [ago |-> ago, rtt |-> age])
    BY <1>1, <2>1, <2>2, <2>3 DEF Pong, Answered, Slower
  <2>5. first \in 1..(k + 1) /\ final \in 0..k
    <3>1. recent \cup {k + 1} \subseteq 1..(k + 1) /\ slow \cup {0} \subseteq 0..k
      BY <2>1
    <3>2. first \in recent \cup {k + 1}
      <4> DEFINE S == recent \cup {k + 1}
      <4>1. S \subseteq 0..(k + 1) /\ S # {} /\ k + 1 \in Nat
        BY <3>1
      <4> HIDE DEF S
      <4>2. Min(S) \in S
        BY <4>1, MinIsLeast
      <4> QED  BY <4>2 DEF S
    <3>3. final \in slow \cup {0}
      <4> DEFINE S == slow \cup {0}
      <4>1. S \subseteq 0..k /\ S # {}
        BY <3>1
      <4> HIDE DEF S
      <4>2. Max(S) \in S
        BY <4>1, MaxIsGreatest
      <4> QED  BY <4>2 DEF S
    <3> QED  BY <3>1, <3>2, <3>3
  <2> HIDE DEF first, final
  <2>6. SubSeq(slowest, first, final) \in Seq(ReceivedPong)
    <3>1. \A n \in first..final : slowest[n] \in ReceivedPong
      BY <2>1, <2>5, ElementOfSeq DEF LivenessInv, LivenessTypes
    <3> QED  BY <2>5, <3>1, SubSeqProperties
  <2>7. [ago |-> ago, rtt |-> age] \in ReceivedPong
    BY DEF ReceivedPong
  <2> QED  BY <2>4, <2>6, <2>7, AppendProperties
<1>6. LivenessTypes'
  BY <1>3, <1>4, <1>5 DEF LivenessInv, LivenessTypes
<1>7. ASSUME network = "good"  PROVE PingsAreApart' /\ AnswersAreInTime'
  <2>1. ASSUME NEW j \in 1..(l - i), NEW k \in 1..(l - i), j < k
        PROVE  outstanding'[k].age + (k - j) * BUSY <= outstanding'[j].age
    <3>1. /\ i + j \in 1..l /\ i + k \in 1..l /\ i + j < i + k
          /\ (i + k) - (i + j) = k - j
      BY <1>2, <2>1
    <3>2. outstanding[i + k].age + ((i + k) - (i + j)) * BUSY <= outstanding[i + j].age
      BY <1>1, <1>7, <3>1 DEF LivenessInv, PingsAreApart
    <3> QED  BY <1>4, <3>1, <3>2
  <2>2. \A j \in 1..(l - i) : i + j \in 1..l
    BY <1>2
  <2>3. PingsAreApart'
    BY <1>1, <1>3, <1>4, <1>7, <2>1, <2>2 DEF LivenessInv, PingsAreApart
  <2>4. AnswersAreInTime'
    <3>1. (MaxLostNow * BUSY)' = MaxLost * BUSY
      BY <1>3 DEF MaxLostNow
    <3>2. MaxLostNow * BUSY <= MaxLost * BUSY /\ MaxLostNow * BUSY \in Nat
      BY LimitsOfLoss DEF MaxLostNow
    <3>3. ASSUME NEW j \in 1..(l - i)  PROVE outstanding'[j].age <= MaxLost * BUSY
      <4>1. outstanding'[j].age <= MaxLostNow * BUSY /\ outstanding'[j].age \in Nat
        BY <1>1, <1>2, <1>4, <1>7, <2>2 DEF LivenessInv, AnswersAreInTime
      <4> QED  BY <3>2, <4>1, LimitsOfLoss
    <3> QED  BY <1>4, <3>1, <3>3 DEF AnswersAreInTime
  <2> QED  BY <2>3, <2>4
<1> QED  BY <1>3, <1>6, <1>7 DEF LivenessInv

(* Time goes on, while every ping still waits within its bound. *)
LEMMA LivenessTickKeeps ==
  ASSUME LivenessInv, LivenessTick
  PROVE  LivenessInv'
<1>1. PICK l \in Nat : l = Len(outstanding) /\ DOMAIN outstanding = 1..l
  BY LenProperties DEF LivenessInv, LivenessTypes
<1>2. \A i \in 1..l : outstanding[i] \in Ping /\ outstanding[i].age \in Nat
  BY <1>1, PingsHaveAges DEF LivenessInv
<1>3. PICK cap \in Nat : cap = AgeCap
  BY LimitsOfLoss
<1>4. outstanding' = [i \in 1..l |-> [outstanding[i] EXCEPT !.age = LowerOf(outstanding[i].age + 1, cap)]]
      /\ UNCHANGED <<slowest, waking, verdict, network>>
  BY <1>1, <1>3 DEF LivenessTick
<1>5. /\ DOMAIN outstanding' = 1..l
      /\ \A i \in 1..l : /\ outstanding'[i] \in Ping
                          /\ outstanding'[i].age = LowerOf(outstanding[i].age + 1, cap)
  BY <1>2, <1>3, <1>4 DEF Ping, LowerOf
<1>6. outstanding' \in Seq(Ping)
  <2>1. outstanding' \in [1..l -> Ping]
    BY <1>4, <1>5
  <2> QED  BY <2>1, SeqDef
<1>7. lastPing' \in Nat /\ lastPing' <= lastPing + 1 /\ lastPing \in Nat
  BY LivenessConstants DEF LivenessTick, LivenessInv, LivenessTypes
<1>8. ASSUME network = "good"  PROVE PingsAreApart' /\ AnswersAreInTime'
  <2>1. PICK bound \in Nat : bound = MaxLostNow * BUSY /\ bound < cap
    BY <1>3, LimitsOfLoss DEF MaxLostNow
  <2>2. \A i \in 1..l : outstanding[i].age < bound
    BY <1>1, <1>8, <2>1 DEF LivenessTick, InTime
  <2>3. \A i \in 1..l : outstanding'[i].age = outstanding[i].age + 1
    BY <1>2, <1>5, <2>1, <2>2 DEF LowerOf
  <2>4. ASSUME NEW i \in 1..l, NEW j \in 1..l, i < j
        PROVE  outstanding'[j].age + (j - i) * BUSY <= outstanding'[i].age
    <3>1. PICK gap \in Int : gap = (j - i) * BUSY
      BY LivenessConstants
    <3>2. outstanding[j].age + gap <= outstanding[i].age
      BY <1>1, <1>8, <2>4, <3>1 DEF LivenessInv, PingsAreApart
    <3> QED  BY <1>2, <2>3, <3>1, <3>2
  <2>5. \A i \in 1..l : lastPing' <= outstanding'[i].age
    BY <1>1, <1>2, <1>7, <1>8, <2>3 DEF LivenessInv, PingsAreApart
  <2>6. PingsAreApart'
    BY <1>5, <2>4, <2>5 DEF PingsAreApart
  <2>7. AnswersAreInTime'
    <3>1. (MaxLostNow * BUSY)' = bound
      BY <1>4, <2>1 DEF MaxLostNow
    <3>2. \A i \in 1..l : outstanding'[i].age <= bound
      BY <1>2, <2>1, <2>2, <2>3
    <3> QED  BY <1>5, <3>1, <3>2 DEF AnswersAreInTime
  <2> QED  BY <2>6, <2>7
<1> QED  BY <1>4, <1>6, <1>7, <1>8 DEF LivenessInv, LivenessTypes

LEMMA LosePongKeeps ==
  ASSUME LivenessInv, NEW i \in DOMAIN outstanding, LosePong(i)
  PROVE  LivenessInv'
<1>1. PICK l \in Nat : l = Len(outstanding) /\ outstanding \in [1..l -> Ping]
  BY LenProperties DEF LivenessInv, LivenessTypes
<1>2. outstanding' \in [1..l -> Ping]
  BY <1>1 DEF LosePong, Ping
<1>3. outstanding' \in Seq(Ping)
  BY <1>1, <1>2, SeqDef
<1> QED  BY <1>3 DEF LosePong, LivenessInv, LivenessTypes

LEMMA LivenessInitEstablishes == LivenessInit => LivenessInv
<1> SUFFICES ASSUME LivenessInit  PROVE LivenessInv
  OBVIOUS
<1>1. LivenessTypes
  <2>1. <<>> \in Seq(Ping) /\ <<>> \in Seq(ReceivedPong)
    BY EmptySeq
  <2>2. NotYet \in Nat
    BY LivenessConstants DEF NotYet
  <2> QED  BY <2>1, <2>2 DEF LivenessInit, LivenessTypes
<1>2. DOMAIN outstanding = {}
  BY DEF LivenessInit
<1> QED  BY <1>1, <1>2 DEF LivenessInit, LivenessInv, PingsAreApart, AnswersAreInTime

LEMMA LivenessStepKeeps == LivenessInv /\ [LivenessNext]_livenessVars => LivenessInv'
<1> SUFFICES ASSUME LivenessInv, [LivenessNext]_livenessVars  PROVE LivenessInv'
  OBVIOUS
<1>1. ASSUME UNCHANGED <<outstanding, lastPing, waking, slowest, verdict, network>>
      PROVE  LivenessInv'
  BY <1>1
     DEF LivenessInv, LivenessTypes, PingsAreApart, AnswersAreInTime, MaxLostNow
<1>2. CASE UserTraffic
  <2>1. CASE lastPing = NotYet \/ lastPing > BUSY
    <3>1. lastPing >= BUSY
      BY <2>1, LivenessConstants DEF NotYet, LivenessInv, LivenessTypes
    <3> QED  BY <1>2, <2>1, <3>1, SendPingKeeps DEF UserTraffic
  <2>2. CASE ~(lastPing = NotYet \/ lastPing > BUSY)
    BY <1>1, <1>2, <2>2 DEF UserTraffic
  <2> QED  BY <2>1, <2>2
<1>3. CASE PollPing
  <2>1. lastPing >= BUSY
    BY <1>3, LivenessConstants DEF PollPing, PingDue, PingPeriod, NotYet, LivenessInv, LivenessTypes
  <2> QED  BY <1>3, <2>1, SendPingKeeps DEF PollPing
<1>4. CASE PollDead
  <2>1. network # "good"
    BY <1>4, AnsweringIsNotDead DEF PollDead, LivenessInv
  <2> QED  BY <1>4, <2>1 DEF PollDead, LivenessInv, LivenessTypes
<1>5. CASE PollAlive \/ StalePong
  BY <1>1, <1>5 DEF PollAlive, StalePong
<1>6. CASE FallSilent
  BY <1>6 DEF FallSilent, LivenessInv, LivenessTypes
<1>7. CASE NewTunnel
  <2>1. LivenessTypes'
    <3>1. <<>> \in Seq(Ping) /\ <<>> \in Seq(ReceivedPong)
      BY EmptySeq
    <3>2. NotYet \in Nat
      BY LivenessConstants DEF NotYet
    <3> QED  BY <1>7, <3>1, <3>2 DEF NewTunnel, LivenessTypes
  <2>2. DOMAIN outstanding' = {}
    BY <1>7 DEF NewTunnel
  <2> QED  BY <1>7, <2>1, <2>2 DEF NewTunnel, LivenessInv, PingsAreApart, AnswersAreInTime
<1>8. CASE UNCHANGED livenessVars
  BY <1>1, <1>8 DEF livenessVars
<1> QED
  BY <1>2, <1>3, <1>4, <1>5, <1>6, <1>7, <1>8, WakeKeeps, PongKeeps, LosePongKeeps,
     LivenessTickKeeps
     DEF LivenessNext

LEMMA LivenessInvariant == Spec => []LivenessInv
<1>1. Init => LivenessInv
  BY LivenessInitEstablishes DEF Init
<1>2. LivenessInv /\ [Next]_allVars => LivenessInv'
  BY LivenessStepKeeps, StepOfAPart
<1> QED  BY <1>1, <1>2, PTL DEF Spec

(* A network that answers in time is never given up (LivenessChecker). *)
THEOREM AnsweringIsKept == Spec => []AnsweringNetworkIsKept
<1>1. LivenessInv => AnsweringNetworkIsKept
  BY DEF LivenessInv, AnsweringNetworkIsKept
<1> QED  BY <1>1, LivenessInvariant, PTL

-----------------------------------------------------------------------------
(* How long a silent network may stay unnoticed                             *)

(* Since a wake-up that nothing answered (w), a ping is under way and fewer  *)
(* losses are allowed; otherwise the first has to be sent.                   *)
Base(w)    == IF w THEN 0 ELSE IDLE
Period(w)  == IF w THEN MinPeriod ELSE MaxPeriod
Allowed(w) == IF w THEN MaxLostAwake ELSE MaxLost

(* When the ping that j others of the silence come before is sent, at the    *)
(* latest: once the first is lost, one each BUSY                             *)
Due(w, j) == IF j <= 0 THEN Base(w) ELSE Base(w) + Period(w) + (j - 1) * BUSY

(* From the ping at first on, each that counts was sent in time, and the     *)
(* next poll comes no later than the next is due, or its loss.               *)
ProbesAreOnTime(first) ==
  /\ \A i \in DOMAIN outstanding :
       i <= first + Allowed(woken) =>
         LowerOf(AgeCap, quiet - Due(woken, i - first)) <= outstanding[i].age
  /\ IF Len(outstanding) < first + Allowed(woken)
     THEN /\ quiet + pollIn <= Due(woken, Len(outstanding) + 1 - first)
          /\ quiet - (IF Len(outstanding) < first THEN 0 ELSE Due(woken, Len(outstanding) - first))
               <= lastPing
     ELSE quiet + pollIn <= Due(woken, Allowed(woken)) + Period(woken)

SilenceTypes ==
  /\ quiet \in Nat /\ pollIn \in 0..BUSY /\ woken \in BOOLEAN
  /\ (lastPing = NotYet /\ pollIn = 0) \/ lastPing + pollIn <= IDLE
  /\ woken = TRUE => slowest = <<>> /\ waking = TRUE /\ Len(outstanding) >= 1

SilenceIsMeasured ==
  network = "silent" /\ verdict = "alive" =>
    \E first \in 1..(Len(outstanding) + 1) : (woken = TRUE => first = 1) /\ ProbesAreOnTime(first)

SilenceBegins == quiet = 0

SilenceInv == LivenessTypes /\ SilenceTypes /\ SilenceIsMeasured

(* The times at which pings are due *)
LEMMA TimesAreOrdered ==
  ASSUME NEW w \in BOOLEAN
  PROVE  /\ Base(w) \in Nat /\ Period(w) \in Nat /\ Allowed(w) \in Nat
         /\ BUSY \in Nat \ {0} /\ BUSY <= Period(w)
         /\ \A j \in Int : Due(w, j) \in Nat
         /\ \A j \in Int : j <= 0 => Due(w, j) = Base(w)
         /\ \A i, j \in Int : i <= j => Due(w, i) <= Due(w, j)
         /\ \A j \in Nat : Due(w, j) + BUSY <= Due(w, j + 1)
         /\ Due(w, 1) = Base(w) + Period(w)
<1>1. /\ Base(w) \in Nat /\ Period(w) \in Nat /\ Allowed(w) \in Nat
      /\ BUSY \in Nat \ {0} /\ BUSY <= Period(w)
  BY LivenessConstants DEF Base, Period, Allowed
<1>2. PICK base \in Nat, period \in Nat, busy \in Nat :
        base = Base(w) /\ period = Period(w) /\ busy = BUSY /\ busy <= period
  BY <1>1
<1>3. \A j \in Int : Due(w, j) = IF j <= 0 THEN base ELSE base + period + (j - 1) * busy
  BY <1>2 DEF Due
<1>4. \A m, d \in Nat : (m + d) * busy = m * busy + d * busy /\ m * busy \in Nat /\ d * busy \in Nat
  BY <1>2
<1>5. \A i, j \in Nat : i <= j => i * busy <= j * busy /\ i * busy \in Nat
  <2> SUFFICES ASSUME NEW i \in Nat, NEW j \in Nat, i <= j
               PROVE  i * busy <= j * busy /\ i * busy \in Nat
    OBVIOUS
  <2>1. PICK d \in Nat : j = i + d
    <3>1. j - i \in Nat
      OBVIOUS
    <3> QED  BY <3>1
  <2> QED  BY <1>4, <2>1
<1>6. \A j \in Int : Due(w, j) \in Nat
  <2> SUFFICES ASSUME NEW j \in Int  PROVE Due(w, j) \in Nat
    OBVIOUS
  <2>1. CASE j <= 0
    BY <1>2, <1>3, <2>1
  <2>2. CASE j > 0
    <3>1. j - 1 \in Nat
      BY <2>2
    <3>2. (j - 1) * busy \in Nat
      BY <1>5, <3>1
    <3> QED  BY <1>2, <1>3, <2>2, <3>2
  <2> QED  BY <2>1, <2>2
<1>7. \A i, j \in Int : i <= j => Due(w, i) <= Due(w, j)
  <2> SUFFICES ASSUME NEW i \in Int, NEW j \in Int, i <= j  PROVE Due(w, i) <= Due(w, j)
    OBVIOUS
  <2>1. CASE j <= 0
    BY <1>2, <1>3, <2>1
  <2>2. CASE i <= 0 /\ j > 0
    <3>1. j - 1 \in Nat
      BY <2>2
    <3>2. (j - 1) * busy \in Nat
      BY <1>5, <3>1
    <3>3. PICK p \in Nat : p = (j - 1) * busy
      BY <3>2
    <3>5. Due(w, j) = base + period + p
      BY <1>3, <2>2, <3>3
    <3>4. Due(w, i) = base
      BY <1>2, <2>2 DEF Due
    <3> QED  BY <1>2, <3>4, <3>5
  <2>3. CASE i > 0
    <3>1. i - 1 \in Nat /\ j - 1 \in Nat /\ i - 1 <= j - 1 /\ j > 0
      BY <2>3
    <3>2. (i - 1) * busy <= (j - 1) * busy /\ (i - 1) * busy \in Nat /\ (j - 1) * busy \in Nat
      BY <1>5, <3>1
    <3>3. PICK p \in Nat : p = (i - 1) * busy
      BY <3>2
    <3>4. PICK q \in Nat : q = (j - 1) * busy
      BY <3>2
    <3>5. Due(w, i) = base + period + p /\ Due(w, j) = base + period + q /\ p <= q
      BY <1>3, <2>3, <3>1, <3>2, <3>3, <3>4
    <3> QED  BY <1>2, <3>5
  <2> QED  BY <2>1, <2>2, <2>3
<1>8. \A j \in Nat : Due(w, j) + BUSY <= Due(w, j + 1)
  <2> SUFFICES ASSUME NEW j \in Nat  PROVE Due(w, j) + busy <= Due(w, j + 1)
    BY <1>2
  <2>1. CASE j = 0
    <3>1. 0 * busy = 0
      BY <1>2
    <3> QED  BY <1>2, <1>3, <2>1, <3>1
  <2>2. CASE j > 0
    <3>1. PICK m \in Nat : j = m + 1
      <4>1. j - 1 \in Nat
        BY <2>2
      <4> QED  BY <4>1
    <3>2. (m + 1) * busy = m * busy + 1 * busy /\ m * busy \in Nat /\ 1 * busy = busy
      BY <1>2, <1>4
    <3>3. /\ Due(w, j) = base + period + (j - 1) * busy
          /\ Due(w, j + 1) = base + period + (j + 1 - 1) * busy
          /\ j - 1 = m /\ j + 1 - 1 = m + 1
      BY <1>3, <2>2, <3>1
    <3> QED  BY <1>2, <3>2, <3>3
  <2> QED  BY <2>1, <2>2
<1>9. Due(w, 1) = base + period
  <2>1. 0 * busy = 0
    BY <1>2
  <2> QED  BY <1>2, <1>3, <2>1
<1> QED  BY <1>1, <1>2, <1>3, <1>6, <1>7, <1>8, <1>9

(* Once as many are lost as are not allowed, that is noticed in time. *)
LEMMA NoticeIsInTime ==
  ASSUME woken \in BOOLEAN
  PROVE  /\ NoticeBound \in Int
         /\ Due(woken, Allowed(woken)) + Period(woken) <= NoticeBound
<1>1. /\ MaxLost \in Nat /\ MaxLostAwake \in Nat /\ BUSY \in Nat /\ IDLE \in Nat
      /\ MinPeriod \in Nat /\ MaxPeriod \in Nat /\ BUSY <= MinPeriod /\ BUSY <= MaxPeriod
  BY LivenessConstants
<1>2. CASE woken = TRUE
  <2>1. /\ NoticeBound = (MaxLostAwake + 1) * MinPeriod
        /\ Allowed(woken) = MaxLostAwake /\ Period(woken) = MinPeriod
        /\ Due(woken, MaxLostAwake) =
             IF MaxLostAwake <= 0 THEN 0 ELSE 0 + MinPeriod + (MaxLostAwake - 1) * BUSY
    BY <1>2 DEF NoticeBound, Allowed, Period, Due, Base
  <2>2. CASE MaxLostAwake = 0
    BY <1>1, <2>1, <2>2
  <2>3. CASE MaxLostAwake > 0
    <3>1. PICK m \in Nat : MaxLostAwake = m + 1
      <4>1. MaxLostAwake - 1 \in Nat
        BY <1>1, <2>3
      <4> QED  BY <1>1, <4>1
    <3>2. m * BUSY <= m * MinPeriod /\ m * BUSY \in Nat /\ m * MinPeriod \in Nat
      <4>1. PICK d \in Nat : MinPeriod = BUSY + d
        <5>1. MinPeriod - BUSY \in Nat
          BY <1>1
        <5> QED  BY <1>1, <5>1
      <4>2. m * (BUSY + d) = m * BUSY + m * d /\ m * d \in Nat /\ m * BUSY \in Nat
        BY <1>1
      <4> QED  BY <4>1, <4>2
    <3>3. (MaxLostAwake + 1) * MinPeriod = m * MinPeriod + 2 * MinPeriod
      BY <1>1, <3>1
    <3>4. MaxLostAwake - 1 = m
      BY <3>1
    <3> QED  BY <1>1, <2>1, <2>3, <3>2, <3>3, <3>4
  <2> QED  BY <1>1, <2>2, <2>3
<1>3. CASE woken = FALSE
  <2>1. /\ NoticeBound = IDLE + 2 * MaxPeriod + (MaxLost - 1) * BUSY
        /\ Allowed(woken) = MaxLost /\ Period(woken) = MaxPeriod
        /\ Due(woken, MaxLost) =
             IF MaxLost <= 0 THEN IDLE ELSE IDLE + MaxPeriod + (MaxLost - 1) * BUSY
    BY <1>3 DEF NoticeBound, Allowed, Period, Due, Base
  <2>2. PICK rest \in Int : rest = (MaxLost - 1) * BUSY /\ (MaxLost = 0 => rest = 0 - BUSY)
    <3>1. (MaxLost - 1) * BUSY \in Int
      BY <1>1
    <3>2. MaxLost = 0 => (MaxLost - 1) * BUSY = 0 - BUSY
      BY <1>1
    <3> QED  BY <3>1, <3>2
  <2>3. CASE MaxLost = 0
    BY <1>1, <2>1, <2>2, <2>3
  <2>4. CASE MaxLost > 0
    BY <1>1, <2>1, <2>2, <2>4
  <2> QED  BY <1>1, <2>3, <2>4
<1> QED  BY <1>2, <1>3

(* When there is a probe that is not lost, the oldest such is younger than  *)
(* the period.                                                              *)
LEMMA NextIsNotLost ==
  ASSUME LivenessTypes
  PROVE  /\ LostCount \in 0..Len(outstanding) /\ Len(outstanding) \in Nat
         /\ DOMAIN outstanding = 1..Len(outstanding)
         /\ LostCount < Len(outstanding) => outstanding[LostCount + 1].age < LostPeriod
<1>1. PICK l \in Nat : l = Len(outstanding) /\ DOMAIN outstanding = 1..l
  BY LenProperties DEF LivenessTypes
<1>2. \A i \in 1..l : outstanding[i].age \in Nat
  BY <1>1, PingsHaveAges
<1>3. Lost \cup {0} \subseteq 0..l
  BY <1>1 DEF Lost
<1>4. LostCount \in Lost \cup {0} /\ \A i \in Lost : i <= LostCount
  <2> DEFINE S == Lost \cup {0}
  <2>1. S \subseteq 0..l /\ S # {}
    BY <1>3
  <2> HIDE DEF S
  <2>2. Max(S) \in S /\ \A i \in S : i <= Max(S)
    BY <2>1, MaxIsGreatest
  <2> QED  BY <2>2 DEF LostCount, S
<1>5. PICK n \in 0..l : n = LostCount
  BY <1>3, <1>4
<1>6. PICK lost \in Nat : lost = LostPeriod
  BY LostPeriodIsPositive
<1>7. ASSUME n < l, ~(outstanding[n + 1].age < lost)  PROVE FALSE
  <2>1. n + 1 \in 1..l /\ outstanding[n + 1].age >= lost
    BY <1>2, <1>5, <1>6, <1>7
  <2>2. \A j \in 1..n : outstanding[j].age >= lost
    <3>1. n \in Lost => \A j \in 1..n : outstanding[j].age >= lost
      BY <1>6 DEF Lost
    <3> QED  BY <1>4, <1>5, <3>1
  <2>3. \A j \in 1..(n + 1) : outstanding[j].age >= lost
    BY <2>1, <2>2, <1>5
  <2>4. n + 1 \in Lost
    BY <1>1, <1>6, <2>1, <2>3 DEF Lost
  <2> QED  BY <1>4, <1>5, <2>4
<1> QED  BY <1>1, <1>5, <1>6, <1>7

(* A probe is lost within the period. *)
LEMMA LostInPeriod ==
  ASSUME LivenessTypes, SilenceTypes
  PROVE  LostPeriod \in Nat \ {0} /\ LostPeriod <= Period(woken) /\ Period(woken) < AgeCap
<1>1. LostPeriod \in Nat \ {0} /\ LostPeriod <= MaxPeriod
  <2>1. CASE slowest = <<>>
    BY <2>1, LivenessConstants DEF LostPeriod
  <2>2. CASE slowest # <<>>
    <3>1. PICK slow \in Int : LostPeriod = LowerOf(MaxPeriod, slow)
      <4>1. 1 \in 1..Len(slowest)
        BY <2>2, EmptySeq, LenProperties DEF LivenessTypes
      <4>2. slowest[1] \in ReceivedPong
        BY <4>1, ElementOfSeq DEF LivenessTypes
      <4>3. PICK r \in Nat : r = slowest[1].rtt
        BY <4>2 DEF ReceivedPong
      <4> QED  BY <2>2, <4>3, LivenessConstants DEF LostPeriod
    <3>2. LostPeriod \in Nat \ {0}
      BY LostPeriodIsPositive
    <3> QED  BY <3>1, <3>2, LivenessConstants DEF LowerOf
  <2> QED  BY <2>1, <2>2
<1>2. woken = TRUE => LostPeriod = MinPeriod
  BY DEF SilenceTypes, LostPeriod
<1>3. MaxPeriod < AgeCap
  <2>1. PICK product \in Nat : product = MaxLost * BUSY
    BY LimitsOfLoss
  <2>2. PICK top \in Nat : top = MaxPeriod + product
    BY <2>1, LivenessConstants
  <2> DEFINE S == {MaxPeriod, product}
  <2>3. S \subseteq 0..top /\ S # {}
    BY <2>1, <2>2, LivenessConstants
  <2> HIDE DEF S
  <2>4. \A i \in S : i <= Max(S) /\ Max(S) \in 0..top
    BY <2>3, MaxIsGreatest
  <2>5. MaxPeriod <= Max(S) /\ Max(S) \in Nat
    BY <2>4 DEF S
  <2> QED  BY <2>1, <2>5, LivenessConstants DEF AgeCap, S
<1>4. CASE woken = TRUE
  BY <1>1, <1>2, <1>3, <1>4, LimitsOfLoss, LivenessConstants DEF Period
<1>5. CASE woken = FALSE
  BY <1>1, <1>3, <1>5, LivenessConstants DEF Period
<1> QED  BY <1>4, <1>5 DEF SilenceTypes

(* Silence that has just begun is measured: from the oldest ping if the     *)
(* device has just woken up, and else from the next one.                    *)
LEMMA BeginsMeasured ==
  LivenessTypes /\ SilenceTypes /\ SilenceBegins => SilenceIsMeasured
<1> SUFFICES ASSUME LivenessTypes, SilenceTypes, quiet = 0
             PROVE  \E first \in 1..(Len(outstanding) + 1) :
                      (woken = TRUE => first = 1) /\ ProbesAreOnTime(first)
  BY DEF SilenceIsMeasured, SilenceBegins
<1>1. PICK n \in Nat : n = Len(outstanding) /\ DOMAIN outstanding = 1..n
  BY LenProperties DEF LivenessTypes
<1>2. PICK w \in BOOLEAN : w = woken
  BY DEF SilenceTypes
<1>3. /\ \A j \in Int : Due(w, j) \in Nat
      /\ Base(w) \in Nat /\ Period(w) \in Nat /\ Allowed(w) \in Nat
      /\ BUSY \in Nat \ {0} /\ BUSY <= Period(w)
      /\ Due(w, 0) = Base(w) /\ Due(w, 1) = Base(w) + Period(w)
      /\ \A i, j \in Int : i <= j => Due(w, i) <= Due(w, j)
  <2>1. \A j \in Int : j <= 0 => Due(w, j) = Base(w)
    BY TimesAreOrdered
  <2>2. Due(w, 0) = Base(w)
    BY <2>1
  <2> QED  BY <2>2, TimesAreOrdered
<1>4. \A i \in 1..n : outstanding[i].age \in Nat
  BY <1>1, PingsHaveAges
<1>5. pollIn \in 0..BUSY /\ lastPing \in Nat
  BY DEF SilenceTypes, LivenessTypes
<1> DEFINE first == IF w = TRUE THEN 1 ELSE n + 1
<1>6. first \in 1..(n + 1) /\ (w = FALSE => first = n + 1) /\ (w = TRUE => first = 1 /\ n >= 1)
  BY <1>1, <1>2 DEF SilenceTypes
<1> HIDE DEF first
<1>7. \A i \in 1..n : LowerOf(AgeCap, quiet - Due(w, i - first)) <= outstanding[i].age
  <2> SUFFICES ASSUME NEW i \in 1..n
               PROVE  LowerOf(AgeCap, quiet - Due(w, i - first)) <= outstanding[i].age
    OBVIOUS
  <2>1. PICK due \in Nat : due = Due(w, i - first)
    BY <1>3, <1>6
  <2>2. PICK age \in Nat : age = outstanding[i].age
    BY <1>4
  <2>3. LowerOf(AgeCap, 0 - due) <= age
    BY <2>1, LimitsOfLoss DEF LowerOf
  <2> QED  BY <2>1, <2>2, <2>3
<1>8. CASE n < first + Allowed(w)
  <2>1. n + 1 - first \in Int /\ n - first \in Int
    BY <1>6
  <2>2. PICK d \in Nat, e \in Nat : d = Due(w, n + 1 - first) /\ e = Due(w, n - first)
    BY <1>3, <2>1
  <2>3. pollIn <= d
    <3>1. CASE w = TRUE
      <4>1. 1 <= n + 1 - first
        BY <1>6, <3>1
      <4>2. Due(w, 1) <= d
        BY <1>3, <2>1, <2>2, <4>1
      <4> QED  BY <1>3, <1>5, <2>2, <4>2
    <3>2. CASE w = FALSE
      <4>1. n + 1 - first = 0
        BY <1>6, <3>2
      <4>2. d = IDLE
        BY <1>3, <2>2, <3>2, <4>1 DEF Base
      <4> QED  BY <1>5, <4>2, LivenessConstants
    <3> QED  BY <3>1, <3>2
  <2>4. 0 - (IF n < first THEN 0 ELSE e) <= lastPing
    BY <1>5, <2>2
  <2>5. ProbesAreOnTime(first)
    BY <1>1, <1>2, <1>5, <1>7, <1>8, <2>2, <2>3, <2>4 DEF ProbesAreOnTime
  <2> QED  BY <1>1, <1>2, <1>6, <2>5
<1>9. CASE ~(n < first + Allowed(w))
  <2>1. pollIn <= Due(w, Allowed(w)) + Period(w)
    <3>1. PICK d \in Nat : d = Due(w, Allowed(w))
      BY <1>3
    <3> QED  BY <1>3, <1>5, <3>1
  <2>2. ProbesAreOnTime(first)
    BY <1>1, <1>2, <1>5, <1>7, <1>9, <2>1 DEF ProbesAreOnTime
  <2> QED  BY <1>1, <1>2, <1>6, <2>2
<1> QED  BY <1>8, <1>9

(* A ping is sent before it is due, and the next one is due later. *)
LEMMA PingKeepsTime ==
  ASSUME SilenceInv, SendPing(outstanding, slowest), LivenessTypes',
         UNCHANGED <<waking, pollIn, verdict, network, quiet, woken>>
  PROVE  SilenceInv'
<1>1. PICK n \in Nat : n = Len(outstanding) /\ DOMAIN outstanding = 1..n
  BY LenProperties DEF SilenceInv, LivenessTypes
<1> DEFINE new == [age |-> 0, coming |-> network # "silent"]
<1>2. new \in Ping /\ new.age = 0
  BY DEF Ping
<1>3. outstanding' = Append(outstanding, new) /\ lastPing' = 0
  BY DEF SendPing
<1> HIDE DEF new
<1>4. /\ Len(outstanding') = n + 1 /\ DOMAIN outstanding' = 1..(n + 1)
      /\ \A i \in 1..n : outstanding'[i] = outstanding[i]
      /\ outstanding'[n + 1].age = 0
  BY <1>1, <1>2, <1>3, AppendProperties, LenProperties DEF SilenceInv, LivenessTypes
<1>5. woken = TRUE => slowest' = <<>>
  <2>1. SUFFICES ASSUME slowest = <<>>  PROVE slowest' = <<>>
    BY DEF SilenceInv, SilenceTypes
  <2>2. DOMAIN slowest' = {}
    BY <2>1 DEF SendPing
  <2>3. Len(slowest') = 0
    <3>1. Len(slowest') \in Nat /\ DOMAIN slowest' = 1..Len(slowest')
      BY LenProperties DEF LivenessTypes
    <3>2. Len(slowest') # 0 => 1 \in DOMAIN slowest'
      BY <3>1
    <3> QED  BY <2>2, <3>2
  <2> QED  BY <2>3, EmptySeq DEF LivenessTypes
<1>6. SilenceTypes'
  <2>1. lastPing' + pollIn' <= IDLE
    BY <1>3, LivenessConstants DEF SilenceInv, SilenceTypes
  <2>2. woken' = TRUE => slowest' = <<>> /\ waking' = TRUE /\ Len(outstanding') >= 1
    BY <1>1, <1>4, <1>5 DEF SilenceInv, SilenceTypes
  <2> QED  BY <2>1, <2>2 DEF SilenceInv, SilenceTypes
<1>7. ASSUME network = "silent", verdict = "alive"
      PROVE  \E first \in 1..(n + 2) : (woken = TRUE => first = 1) /\ ProbesAreOnTime(first)'
  <2>1. PICK first \in 1..(n + 1) : (woken = TRUE => first = 1) /\ ProbesAreOnTime(first)
    BY <1>1, <1>7 DEF SilenceInv, SilenceIsMeasured
  <2>2. PICK w \in BOOLEAN : w = woken
    BY DEF SilenceInv, SilenceTypes
  <2>3. PICK a \in Nat : a = Allowed(w)
    BY TimesAreOrdered
  <2>4. /\ \A i \in 1..n : i <= first + a =>
              LowerOf(AgeCap, quiet - Due(w, i - first)) <= outstanding[i].age
        /\ n < first + a => quiet + pollIn <= Due(w, n + 1 - first)
        /\ ~(n < first + a) => quiet + pollIn <= Due(w, a) + Period(w)
    BY <1>1, <2>1, <2>2, <2>3 DEF ProbesAreOnTime
  <2>5. PICK q \in Nat, p \in Nat : q = quiet /\ p = pollIn
    BY LivenessConstants DEF SilenceInv, SilenceTypes
  <2>6. PICK d \in Nat, e \in Nat, f \in Nat :
          d = Due(w, n + 1 - first) /\ e = Due(w, n + 2 - first) /\ f = Due(w, a) /\ d <= e
    <3>1. /\ n + 1 - first \in Int /\ n + 2 - first \in Int /\ n + 1 - first <= n + 2 - first
          /\ a \in Int
      OBVIOUS
    <3>2. \A j \in Int : Due(w, j) \in Nat
      BY TimesAreOrdered
    <3>3. \A i, j \in Int : i <= j => Due(w, i) <= Due(w, j)
      BY TimesAreOrdered
    <3> QED  BY <3>1, <3>2, <3>3
  <2>7. \A i \in 1..(n + 1) : i <= first + a =>
          LowerOf(AgeCap, q - Due(w, i - first)) <= outstanding'[i].age
    <3>1. ASSUME n + 1 <= first + a  PROVE LowerOf(AgeCap, q - Due(w, n + 1 - first)) <= 0
      <4>1. q + p <= d
        BY <2>4, <2>5, <2>6, <3>1
      <4> QED  BY <2>5, <2>6, <4>1, LimitsOfLoss DEF LowerOf
    <3> QED  BY <1>4, <2>4, <2>5, <3>1
  <2>8. n + 1 < first + a =>
          /\ q + p <= e
          /\ q - (IF n + 1 < first THEN 0 ELSE d) <= 0
    BY <2>4, <2>5, <2>6
  <2>9. ~(n + 1 < first + a) => q + p <= f + Period(w)
    <3>1. Period(w) \in Nat
      BY TimesAreOrdered
    <3>2. ASSUME n < first + a, ~(n + 1 < first + a)  PROVE q + p <= f
      <4>1. n + 1 - first = a
        BY <2>3, <3>2
      <4> QED  BY <2>4, <2>5, <2>6, <3>2, <4>1
    <3> QED  BY <2>4, <2>5, <2>6, <3>1, <3>2
  <2>10. ProbesAreOnTime(first)'
    <3>1. n + 1 + 1 - first = n + 2 - first
      BY <2>1
    <3>2. (Len(outstanding))' = n + 1 /\ woken' = w /\ quiet' = q /\ pollIn' = p /\ lastPing' = 0
      BY <1>3, <1>4, <2>2, <2>5
    <3>3. \A i \in DOMAIN outstanding' : i <= first + Allowed(woken') =>
            LowerOf(AgeCap, quiet' - Due(woken', i - first)) <= outstanding'[i].age
      BY <1>4, <2>3, <2>7, <3>2
    <3>4. CASE n + 1 < first + a
      <4>1. Len(outstanding') < first + Allowed(woken')
        BY <2>3, <3>2, <3>4
      <4>2. quiet' + pollIn' <= Due(woken', Len(outstanding') + 1 - first)
        BY <2>6, <2>8, <3>1, <3>2, <3>4
      <4>3. quiet' - (IF Len(outstanding') < first THEN 0
                      ELSE Due(woken', Len(outstanding') - first)) <= lastPing'
        BY <2>6, <2>8, <3>2, <3>4
      <4> QED  BY <3>3, <4>1, <4>2, <4>3 DEF ProbesAreOnTime
    <3>5. CASE ~(n + 1 < first + a)
      <4>1. ~(Len(outstanding') < first + Allowed(woken'))
        BY <2>3, <3>2, <3>5
      <4>2. quiet' + pollIn' <= Due(woken', Allowed(woken')) + Period(woken')
        BY <2>3, <2>6, <2>9, <3>2, <3>5
      <4> QED  BY <3>3, <4>1, <4>2 DEF ProbesAreOnTime
    <3> QED  BY <3>4, <3>5
  <2> QED  BY <2>1, <2>10
<1>8. SilenceIsMeasured'
  <2>1. Len(outstanding') + 1 = n + 2
    BY <1>4
  <2> QED  BY <1>7, <2>1 DEF SilenceIsMeasured
<1> QED  BY <1>6, <1>8 DEF SilenceInv

(* A poll that finds the network alive sets the next one for the next ping   *)
(* or the next loss.                                                         *)
LEMMA PollKeepsTime ==
  ASSUME SilenceInv, PollAlive
  PROVE  SilenceInv'
<1>1. PICK n \in Nat : n = Len(outstanding) /\ DOMAIN outstanding = 1..n
  BY LenProperties DEF SilenceInv, LivenessTypes
<1>2. /\ UNCHANGED <<outstanding, lastPing, waking, slowest, verdict, network, quiet, woken>>
      /\ lastPing # NotYet /\ ~(lastPing >= PingPeriod) /\ ~(LostCount > MaxLostNow)
      /\ pollIn' = LowerOf(LowerOf(BUSY, NextLoss), PingPeriod - lastPing)
  BY DEF PollAlive, PingDue, Dead
<1>3. PICK c \in 0..n : c = LostCount /\ (c < n => outstanding[c + 1].age < LostPeriod)
  BY <1>1, NextIsNotLost DEF SilenceInv
<1>4. PICK busy \in Nat, lost \in Nat, ago \in Nat, q \in Nat :
        busy = BUSY /\ lost = LostPeriod /\ ago = lastPing /\ q = quiet /\ busy > 0
  <2>1. LostPeriod \in Nat /\ BUSY \in Nat /\ BUSY > 0
    BY LostPeriodIsPositive, LivenessConstants DEF SilenceInv
  <2>2. lastPing \in Nat /\ quiet \in Nat
    BY DEF SilenceInv, LivenessTypes, SilenceTypes
  <2> QED  BY <2>1, <2>2
<1>5. PICK ping \in Nat : ping = PingPeriod /\ ping <= IDLE /\ ago < ping /\ (c # 0 => ping = busy)
  BY <1>2, <1>3, <1>4, LivenessConstants DEF PingPeriod
<1>6. \A i \in 1..n : outstanding[i].age \in Nat
  BY <1>1, PingsHaveAges DEF SilenceInv
<1>7. PICK p \in Nat : /\ p = pollIn' /\ p <= busy /\ p <= ping - ago
                       /\ c < n => p <= lost - outstanding[c + 1].age
  <2>1. PICK next \in Nat : next = NextLoss /\ (c < n => next = lost - outstanding[c + 1].age)
    <3>1. CASE c = n
      BY <1>1, <1>3, <1>4, <3>1 DEF NextLoss
    <3>2. CASE c < n
      <4>1. PICK age \in Nat : age = outstanding[c + 1].age /\ age < lost
        BY <1>3, <1>4, <1>6, <3>2
      <4> QED  BY <1>1, <1>3, <1>4, <3>2, <4>1 DEF NextLoss
    <3> QED  BY <3>1, <3>2
  <2> QED  BY <1>2, <1>4, <1>5, <2>1 DEF LowerOf
<1>8. LivenessTypes'
  BY <1>2 DEF SilenceInv, LivenessTypes
<1>9. SilenceTypes'
  <2>1. lastPing' + pollIn' <= IDLE /\ pollIn' \in 0..BUSY
    BY <1>2, <1>4, <1>5, <1>7, LivenessConstants
  <2> QED  BY <1>2, <2>1 DEF SilenceInv, SilenceTypes
<1>10. ASSUME network = "silent", verdict = "alive"
       PROVE  \E first \in 1..(n + 1) : (woken = TRUE => first = 1) /\ ProbesAreOnTime(first)'
  <2>1. PICK first \in 1..(n + 1) : (woken = TRUE => first = 1) /\ ProbesAreOnTime(first)
    BY <1>1, <1>10 DEF SilenceInv, SilenceIsMeasured
  <2>2. PICK w \in BOOLEAN : w = woken
    BY DEF SilenceInv, SilenceTypes
  <2>3. PICK a \in Nat, period \in Nat, base \in Nat :
          a = Allowed(w) /\ period = Period(w) /\ base = Base(w) /\ busy <= period
    BY <1>4, TimesAreOrdered
  <2>4. /\ \A i \in 1..n : i <= first + a =>
              LowerOf(AgeCap, q - Due(w, i - first)) <= outstanding[i].age
        /\ n < first + a => q - (IF n < first THEN 0 ELSE Due(w, n - first)) <= ago
    BY <1>1, <1>4, <2>1, <2>2, <2>3 DEF ProbesAreOnTime
  <2>5. c <= a
    BY <1>2, <1>3, <2>2, <2>3, LivenessConstants DEF MaxLostNow, Allowed, SilenceInv, SilenceTypes,
                                                     LivenessTypes
  <2>6. PICK cap \in Nat : cap = AgeCap /\ lost <= period /\ period < cap
    BY <1>4, <2>2, <2>3, LostInPeriod, LimitsOfLoss DEF SilenceInv
  <2>7. ASSUME c < n, c + 1 <= first + a  PROVE q + p <= Due(w, c + 1 - first) + period
    <3>1. PICK d \in Nat : d = Due(w, c + 1 - first)
      <4>1. c + 1 - first \in Int
        OBVIOUS
      <4> QED  BY <4>1, TimesAreOrdered
    <3>2. PICK age \in Nat : age = outstanding[c + 1].age /\ age < lost
      BY <1>3, <1>4, <1>6, <2>7
    <3>3. LowerOf(cap, q - d) <= age
      BY <2>4, <2>6, <2>7, <3>1, <3>2
    <3>4. q - d <= age
      BY <2>6, <3>2, <3>3 DEF LowerOf
    <3> QED  BY <1>7, <2>6, <2>7, <3>1, <3>2, <3>4
  <2>8. CASE ~(n < first + a)
    <3>1. c < n /\ c + 1 <= first + a /\ c + 1 - first \in Int /\ c + 1 - first <= a /\ a \in Int
      BY <2>5, <2>8
    <3>2. PICK d \in Nat, f \in Nat : d = Due(w, c + 1 - first) /\ f = Due(w, a) /\ d <= f
      <4>1. \A j \in Int : Due(w, j) \in Nat
        BY TimesAreOrdered
      <4>2. \A i, j \in Int : i <= j => Due(w, i) <= Due(w, j)
        BY TimesAreOrdered
      <4> QED  BY <3>1, <4>1, <4>2
    <3>3. q + p <= f + period
      BY <2>3, <2>7, <3>1, <3>2
    <3>4. ProbesAreOnTime(first)'
      BY <1>1, <1>2, <1>4, <1>7, <2>2, <2>3, <2>4, <2>8, <3>2, <3>3 DEF ProbesAreOnTime
    <3> QED  BY <2>1, <3>4
  <2>9. CASE n < first + a
    <3>1. n + 1 - first \in Nat
      BY <2>1
    <3>2. PICK e \in Nat : e = Due(w, n + 1 - first)
      BY <3>1, TimesAreOrdered
    <3>3. ASSUME n < first  PROVE q + p <= e
      <4>1. n + 1 - first = 0 /\ w = FALSE
        <5>1. n + 1 - first = 0
          BY <2>1, <3>3
        <5>2. woken = TRUE => n >= 1 /\ first = 1
          BY <1>1, <2>1 DEF SilenceInv, SilenceTypes
        <5> QED  BY <2>2, <3>3, <5>1, <5>2
      <4>2. e = IDLE
        <5>1. \A j \in Int : j <= 0 => Due(w, j) = Base(w)
          BY TimesAreOrdered
        <5> QED  BY <3>2, <4>1, <5>1 DEF Base
      <4>3. q <= ago
        BY <1>4, <2>4, <2>9, <3>3
      <4>4. p <= ping - ago
        BY <1>7
      <4>5. ping <= e
        BY <1>5, <4>2
      <4> QED  BY <4>3, <4>4, <4>5
    <3>4. ASSUME ~(n < first), c = 0  PROVE q + p <= e
      <4>1. c < n /\ c + 1 <= first + a /\ c + 1 - first <= 0 /\ c + 1 - first \in Int
        BY <2>1, <3>4
      <4>2. Due(w, c + 1 - first) = base
        BY <2>3, <4>1, TimesAreOrdered
      <4>3. base + period <= e
        <5>1. 1 <= n + 1 - first /\ 1 \in Int /\ n + 1 - first \in Int
          BY <2>1, <3>4
        <5>2. Due(w, 1) <= e /\ Due(w, 1) = base + period
          BY <2>3, <3>2, <5>1, TimesAreOrdered
        <5> QED  BY <5>2
      <4> QED  BY <2>7, <4>1, <4>2, <4>3
    <3>5. ASSUME ~(n < first), c # 0  PROVE q + p <= e
      <4>1. PICK m \in Nat : m = n - first /\ n + 1 - first = m + 1
        <5>1. n - first \in Nat /\ n + 1 - first = (n - first) + 1
          BY <2>1, <3>5
        <5> QED  BY <5>1
      <4>2. PICK d \in Nat : d = Due(w, m)
        BY TimesAreOrdered
      <4>3. d + busy <= e
        BY <1>4, <3>2, <4>1, <4>2, TimesAreOrdered
      <4>4. q - d <= ago
        BY <2>4, <2>9, <3>5, <4>1, <4>2
      <4>5. p <= busy - ago
        BY <1>5, <1>7, <3>5
      <4>6. q + p <= e
        BY <1>4, <4>3, <4>4, <4>5
      <4> QED  BY <4>6
    <3>6. q + p <= e
      BY <3>3, <3>4, <3>5
    <3>7. ProbesAreOnTime(first)'
      BY <1>1, <1>2, <1>4, <1>7, <2>2, <2>3, <2>4, <2>9, <3>2, <3>6 DEF ProbesAreOnTime
    <3> QED  BY <2>1, <3>7
  <2> QED  BY <2>8, <2>9
<1>11. SilenceIsMeasured'
  BY <1>1, <1>2, <1>10 DEF SilenceIsMeasured
<1> QED  BY <1>8, <1>9, <1>11 DEF SilenceInv

(* Time passes until the next poll, which is before the next ping is due. *)
LEMMA TickKeepsTime ==
  ASSUME SilenceInv, LivenessTick, LivenessTypes'
  PROVE  SilenceInv'
<1>1. PICK n \in Nat : n = Len(outstanding) /\ DOMAIN outstanding = 1..n
  BY LenProperties DEF SilenceInv, LivenessTypes
<1>2. \A i \in 1..n : outstanding[i] \in Ping /\ outstanding[i].age \in Nat
  BY <1>1, PingsHaveAges DEF SilenceInv
<1>3. PICK cap \in Nat : cap = AgeCap
  BY LimitsOfLoss
<1>4. /\ Len(outstanding') = n /\ DOMAIN outstanding' = 1..n
      /\ \A i \in 1..n : outstanding'[i].age = LowerOf(outstanding[i].age + 1, cap)
  <2>1. outstanding' = [i \in 1..n |-> [outstanding[i] EXCEPT !.age = LowerOf(outstanding[i].age + 1, cap)]]
    BY <1>1, <1>3 DEF LivenessTick
  <2>2. DOMAIN outstanding' = 1..n
    BY <2>1
  <2>3. Len(outstanding') = n
    BY <1>1, <2>2, LenProperties DEF LivenessTypes
  <2> QED  BY <1>2, <2>1, <2>2, <2>3 DEF Ping
<1>5. PICK p \in Nat, q \in Nat, ago \in Nat :
        p = pollIn /\ p > 0 /\ q = quiet /\ ago = lastPing /\ ago + p <= IDLE
  <2>1. pollIn \in 0..BUSY /\ pollIn > 0 /\ lastPing \in Nat /\ quiet \in Nat
    BY DEF LivenessTick, SilenceInv, SilenceTypes, LivenessTypes
  <2>2. lastPing + pollIn <= IDLE
    BY <2>1 DEF SilenceInv, SilenceTypes
  <2> QED  BY <2>1, <2>2, LivenessConstants
<1>6. lastPing' = ago + 1 /\ pollIn' = p - 1
      /\ UNCHANGED <<waking, slowest, verdict, network, woken>>
  BY <1>5, LivenessConstants DEF LivenessTick, NotYet
<1>7. PICK w \in BOOLEAN : w = woken
  BY DEF SilenceInv, SilenceTypes
<1>8. PICK bound \in Int : bound = NoticeBound /\ Due(w, Allowed(w)) + Period(w) <= bound
  BY <1>7, NoticeIsInTime
<1>9. ASSUME network = "silent", verdict = "alive"
      PROVE  /\ quiet' = q + 1
             /\ \E first \in 1..(n + 1) : (woken = TRUE => first = 1) /\ ProbesAreOnTime(first)'
  <2>1. PICK first \in 1..(n + 1) : (woken = TRUE => first = 1) /\ ProbesAreOnTime(first)
    BY <1>1, <1>9 DEF SilenceInv, SilenceIsMeasured
  <2>2. PICK a \in Nat, period \in Nat : a = Allowed(w) /\ period = Period(w)
    BY TimesAreOrdered
  <2>3. PICK e \in Nat, f \in Nat : e = Due(w, n + 1 - first) /\ f = Due(w, a)
                                    /\ (n < first + a => e <= f)
    <3>1. \A j \in Int : Due(w, j) \in Nat
      BY TimesAreOrdered
    <3>2. \A i, j \in Int : i <= j => Due(w, i) <= Due(w, j)
      BY TimesAreOrdered
    <3>3. n + 1 - first \in Int /\ a \in Int /\ (n < first + a => n + 1 - first <= a)
      OBVIOUS
    <3> QED  BY <3>1, <3>2, <3>3
  <2>4. /\ \A i \in 1..n : i <= first + a =>
              LowerOf(cap, q - Due(w, i - first)) <= outstanding[i].age
        /\ n < first + a => q + p <= e
        /\ ~(n < first + a) => q + p <= f + period
    BY <1>1, <1>3, <1>5, <1>7, <2>1, <2>2, <2>3 DEF ProbesAreOnTime
  <2>5. n < first + a => q - (IF n < first THEN 0 ELSE Due(w, n - first)) <= ago
    BY <1>1, <1>5, <1>7, <2>1, <2>2 DEF ProbesAreOnTime
  <2>6. q + p <= bound
    BY <1>8, <2>2, <2>3, <2>4
  <2>7. quiet' = q + 1
    BY <1>5, <1>8, <1>9, <2>6 DEF LivenessTick, LowerOf
  <2>8. \A i \in 1..n : i <= first + a =>
          LowerOf(cap, q + 1 - Due(w, i - first)) <= outstanding'[i].age
    <3> SUFFICES ASSUME NEW i \in 1..n, i <= first + a
                 PROVE  LowerOf(cap, q + 1 - Due(w, i - first)) <= outstanding'[i].age
      OBVIOUS
    <3>1. PICK d \in Nat : d = Due(w, i - first)
      <4>1. \A j \in Int : Due(w, j) \in Nat
        BY TimesAreOrdered
      <4> QED  BY <4>1
    <3>2. PICK age \in Nat : age = outstanding[i].age
      BY <1>2
    <3>3. LowerOf(cap, q - d) <= age
      BY <2>4, <3>1, <3>2
    <3>4. LowerOf(cap, q + 1 - d) <= LowerOf(age + 1, cap)
      BY <3>3 DEF LowerOf
    <3> QED  BY <1>4, <3>1, <3>2, <3>4
  <2>9. n < first + a => q + 1 - (IF n < first THEN 0 ELSE Due(w, n - first)) <= ago + 1
    <3>1. PICK d \in Nat : d = Due(w, n - first)
      <4>1. \A j \in Int : Due(w, j) \in Nat
        BY TimesAreOrdered
      <4> QED  BY <4>1
    <3> QED  BY <2>5, <3>1
  <2>10. /\ Len(outstanding') = n /\ woken' = w /\ quiet' = q + 1
         /\ pollIn' = p - 1 /\ lastPing' = ago + 1
    BY <1>4, <1>6, <1>7, <2>7
  <2>11. \A i \in DOMAIN outstanding' : i <= first + Allowed(woken') =>
           LowerOf(AgeCap, quiet' - Due(woken', i - first)) <= outstanding'[i].age
    <3> SUFFICES ASSUME NEW i \in 1..n, i <= first + a
                 PROVE  LowerOf(AgeCap, quiet' - Due(woken', i - first)) <= outstanding'[i].age
      BY <1>4, <2>2, <2>10
    <3>1. LowerOf(cap, q + 1 - Due(w, i - first)) <= outstanding'[i].age
      BY <2>8
    <3>2. PICK d \in Nat : d = Due(w, i - first)
      <4>1. \A j \in Int : Due(w, j) \in Nat
        BY TimesAreOrdered
      <4> QED  BY <4>1
    <3>3. Due(woken', i - first) = d /\ quiet' = q + 1
      BY <2>10, <3>2
    <3>4. LowerOf(cap, q + 1 - d) <= outstanding'[i].age
      BY <3>1, <3>2
    <3>5. quiet' - Due(woken', i - first) = q + 1 - d
      BY <3>3
    <3> QED  BY <1>3, <3>4, <3>5
  <2>12. CASE n < first + a
    <3>1. q + 1 + (p - 1) <= e
      BY <2>4, <2>12
    <3>2. ProbesAreOnTime(first)'
      <4>1. Len(outstanding') < first + Allowed(woken')
        BY <2>2, <2>10, <2>12
      <4>2. quiet' + pollIn' <= Due(woken', Len(outstanding') + 1 - first)
        BY <2>3, <2>10, <3>1
      <4>3. quiet' - (IF Len(outstanding') < first THEN 0
                      ELSE Due(woken', Len(outstanding') - first)) <= lastPing'
        <5>1. PICK d \in Nat : d = Due(w, n - first)
          <6>1. \A j \in Int : Due(w, j) \in Nat
            BY TimesAreOrdered
          <6> QED  BY <6>1
        <5>2. q + 1 - (IF n < first THEN 0 ELSE d) <= ago + 1
          BY <2>9, <2>12, <5>1
        <5>3. Due(woken', Len(outstanding') - first) = d
          BY <2>10, <5>1
        <5> QED  BY <2>10, <5>2, <5>3
      <4> QED  BY <2>11, <4>1, <4>2, <4>3 DEF ProbesAreOnTime
    <3> QED  BY <2>1, <2>7, <3>2
  <2>13. CASE ~(n < first + a)
    <3>1. q + 1 + (p - 1) <= f + period
      BY <2>4, <2>13
    <3>2. ProbesAreOnTime(first)'
      <4>1. ~(Len(outstanding') < first + Allowed(woken'))
        BY <2>2, <2>10, <2>13
      <4>2. quiet' + pollIn' <= Due(woken', Allowed(woken')) + Period(woken')
        BY <2>2, <2>3, <2>10, <3>1
      <4> QED  BY <2>11, <4>1, <4>2 DEF ProbesAreOnTime
    <3> QED  BY <2>1, <2>7, <3>2
  <2> QED  BY <2>12, <2>13
<1>10. SilenceTypes'
  <2>1. quiet' \in Nat
    <3>1. CASE network = "silent"
      BY <1>5, <1>9, <3>1 DEF LivenessTick
    <3>2. CASE network # "silent"
      BY <3>2 DEF LivenessTick
    <3> QED  BY <3>1, <3>2
  <2>2. pollIn' \in 0..BUSY /\ lastPing' + pollIn' <= IDLE
    BY <1>5, <1>6, LivenessConstants DEF SilenceInv, SilenceTypes
  <2>3. woken' = TRUE => slowest' = <<>> /\ waking' = TRUE /\ Len(outstanding') >= 1
    BY <1>1, <1>4, <1>6 DEF SilenceInv, SilenceTypes
  <2> QED  BY <1>6, <2>1, <2>2, <2>3 DEF SilenceInv, SilenceTypes
<1>11. SilenceIsMeasured'
  BY <1>4, <1>6, <1>9 DEF SilenceIsMeasured
<1> QED  BY <1>10, <1>11 DEF SilenceInv

(* What ends the silence, or begins it, is where it is measured from. *)
LEMMA BeginningKeepsTime ==
  ASSUME SilenceInv, LivenessTypes',
         Wake \/ FallSilent \/ \E i \in DOMAIN outstanding : Pong(i)
  PROVE  SilenceInv'
<1>1. quiet' = 0
  BY DEF Wake, FallSilent, Pong
<1>2. SilenceTypes'
  <2>1. CASE Wake
    <3> DEFINE new == [age |-> 0, coming |-> network # "silent"]
    <3>1. outstanding' = Append(<<>>, new) /\ lastPing' = 0 /\ woken' = TRUE /\ waking' = TRUE
          /\ pollIn' = pollIn
      BY <2>1 DEF Wake, SendPing
    <3>2. new \in Ping
      BY DEF Ping
    <3> HIDE DEF new
    <3>3. Len(outstanding') = 1
      BY <3>1, <3>2, AppendProperties, EmptySeq, LenProperties
    <3>4. slowest' = <<>>
      <4>1. DOMAIN slowest' = {}
        BY <2>1 DEF Wake, SendPing
      <4>2. Len(slowest') = 0
        <5>1. Len(slowest') \in Nat /\ DOMAIN slowest' = 1..Len(slowest')
          BY LenProperties DEF LivenessTypes
        <5>2. Len(slowest') # 0 => 1 \in DOMAIN slowest'
          BY <5>1
        <5> QED  BY <4>1, <5>2
      <4> QED  BY <4>2, EmptySeq DEF LivenessTypes
    <3>5. lastPing' + pollIn' <= IDLE /\ pollIn' \in 0..BUSY
      BY <3>1, LivenessConstants DEF SilenceInv, SilenceTypes
    <3> QED  BY <1>1, <3>1, <3>3, <3>4, <3>5 DEF SilenceTypes
  <2>2. CASE FallSilent
    BY <1>1, <2>2 DEF FallSilent, SilenceInv, SilenceTypes
  <2>3. CASE \E i \in DOMAIN outstanding : Pong(i)
    BY <1>1, <2>3 DEF Pong, SilenceInv, SilenceTypes
  <2> QED  BY <2>1, <2>2, <2>3
<1>3. SilenceIsMeasured'
  <2>1. SilenceBegins'
    BY <1>1 DEF SilenceBegins
  <2>2. LivenessTypes'
    OBVIOUS
  <2> QED  BY <1>2, <2>1, <2>2, BeginsMeasured, PTL
<1> QED  BY <1>2, <1>3 DEF SilenceInv

LEMMA SilenceInitEstablishes == LivenessInit /\ LivenessTypes => SilenceInv
<1> SUFFICES ASSUME LivenessInit, LivenessTypes  PROVE SilenceInv
  OBVIOUS
<1>1. SilenceTypes
  <2>1. 0 \in Nat /\ 0 \in 0..BUSY /\ FALSE \in BOOLEAN
    BY LivenessConstants
  <2>2. quiet = 0 /\ pollIn = 0 /\ lastPing = NotYet /\ woken = FALSE
    BY DEF LivenessInit
  <2> QED  BY <2>1, <2>2 DEF SilenceTypes
<1>2. SilenceIsMeasured
  BY DEF LivenessInit, SilenceIsMeasured
<1> QED  BY <1>1, <1>2 DEF SilenceInv

LEMMA SilenceStepKeeps ==
  SilenceInv /\ LivenessTypes' /\ [LivenessNext]_livenessVars => SilenceInv'
<1> SUFFICES ASSUME SilenceInv, LivenessTypes', [LivenessNext]_livenessVars  PROVE SilenceInv'
  OBVIOUS
<1>1. ASSUME UNCHANGED <<outstanding, lastPing, waking, slowest, pollIn, verdict, network, quiet, woken>>
      PROVE  SilenceInv'
  BY <1>1 DEF SilenceInv, SilenceTypes, SilenceIsMeasured, ProbesAreOnTime
<1>2. CASE UserTraffic
  <2>1. CASE lastPing = NotYet \/ lastPing > BUSY
    BY <1>2, <2>1, PingKeepsTime DEF UserTraffic
  <2>2. CASE ~(lastPing = NotYet \/ lastPing > BUSY)
    BY <1>1, <1>2, <2>2 DEF UserTraffic
  <2> QED  BY <2>1, <2>2
<1>3. CASE PollPing
  BY <1>3, PingKeepsTime DEF PollPing
<1>4. CASE PollDead
  BY <1>4 DEF PollDead, SilenceInv, SilenceTypes, SilenceIsMeasured
<1>5. CASE StalePong \/ UNCHANGED livenessVars
  BY <1>1, <1>5 DEF StalePong, livenessVars
<1>6. ASSUME NEW i \in DOMAIN outstanding, LosePong(i)  PROVE SilenceInv'
  <2>1. DOMAIN outstanding' = DOMAIN outstanding
    BY <1>6 DEF LosePong
  <2>2. Len(outstanding') = Len(outstanding)
    <3>1. /\ Len(outstanding) \in Nat /\ DOMAIN outstanding = 1..Len(outstanding)
          /\ Len(outstanding') \in Nat /\ DOMAIN outstanding' = 1..Len(outstanding')
      BY LenProperties DEF LivenessTypes, SilenceInv
    <3> QED  BY <2>1, <3>1
  <2> QED  BY <1>6, <2>2 DEF LosePong, SilenceInv, SilenceTypes, SilenceIsMeasured
<1>7. CASE NewTunnel
  <2>1. 0 \in Nat /\ 0 \in 0..BUSY /\ FALSE \in BOOLEAN
    BY LivenessConstants
  <2>2. /\ quiet' = 0 /\ pollIn' = 0 /\ lastPing' = NotYet /\ woken' = FALSE
        /\ network' # "silent"
    BY <1>7 DEF NewTunnel
  <2>3. SilenceTypes'
    <3>1. NotYet' = NotYet
      BY DEF NotYet
    <3> QED  BY <2>1, <2>2, <3>1 DEF SilenceTypes
  <2> QED  BY <2>2, <2>3 DEF SilenceInv, SilenceIsMeasured
<1> QED
  BY <1>2, <1>3, <1>4, <1>5, <1>6, <1>7, PollKeepsTime, TickKeepsTime, BeginningKeepsTime
     DEF LivenessNext

LEMMA SilenceInvariant == Spec => []SilenceInv
<1>1. Init /\ LivenessInv => SilenceInv
  BY SilenceInitEstablishes DEF Init, LivenessInv
<1>2. SilenceInv /\ LivenessInv' /\ [Next]_allVars => SilenceInv'
  BY SilenceStepKeeps, StepOfAPart DEF LivenessInv
<1> QED  BY <1>1, <1>2, LivenessInvariant, PTL DEF Spec

(* A silent network is given up within the bound: after a wake-up that       *)
(* nothing answered once the few probes allowed then are lost, and otherwise *)
(* once an idle tunnel has sent a ping and that and as many as may be lost   *)
(* after it are lost (LivenessChecker).                                      *)
THEOREM SilenceNoticed == Spec => []SilenceIsNoticed
<1>1. SilenceInv => SilenceIsNoticed
  <2> SUFFICES ASSUME SilenceInv, network = "silent", verdict = "alive"
               PROVE  quiet <= NoticeBound
    BY DEF SilenceIsNoticed
  <2>1. PICK n \in Nat : n = Len(outstanding)
    BY LenProperties DEF SilenceInv, LivenessTypes
  <2>2. PICK first \in 1..(n + 1) : ProbesAreOnTime(first)
    BY <2>1 DEF SilenceInv, SilenceIsMeasured
  <2>3. PICK w \in BOOLEAN : w = woken
    BY DEF SilenceInv, SilenceTypes
  <2>4. PICK a \in Nat, period \in Nat, q \in Nat, p \in Nat :
          a = Allowed(w) /\ period = Period(w) /\ q = quiet /\ p = pollIn
    <3>1. quiet \in Nat /\ pollIn \in Nat
      BY LivenessConstants DEF SilenceInv, SilenceTypes
    <3> QED  BY <3>1, TimesAreOrdered
  <2>5. PICK e \in Nat, f \in Nat : e = Due(w, n + 1 - first) /\ f = Due(w, a)
                                    /\ (n < first + a => e <= f)
    <3>1. \A j \in Int : Due(w, j) \in Nat
      BY TimesAreOrdered
    <3>2. \A i, j \in Int : i <= j => Due(w, i) <= Due(w, j)
      BY TimesAreOrdered
    <3>3. n + 1 - first \in Int /\ a \in Int /\ (n < first + a => n + 1 - first <= a)
      OBVIOUS
    <3> QED  BY <3>1, <3>2, <3>3
  <2>6. q + p <= f + period
    <3>1. CASE n < first + a
      <4>1. q + p <= e
        BY <2>1, <2>2, <2>3, <2>4, <2>5, <3>1 DEF ProbesAreOnTime
      <4> QED  BY <2>4, <2>5, <3>1, <4>1
    <3>2. CASE ~(n < first + a)
      BY <2>1, <2>2, <2>3, <2>4, <2>5, <3>2 DEF ProbesAreOnTime
    <3> QED  BY <3>1, <3>2
  <2>7. PICK bound \in Int : bound = NoticeBound /\ f + period <= bound
    BY <2>3, <2>4, <2>5, NoticeIsInTime
  <2> QED  BY <2>4, <2>6, <2>7
<1> QED  BY <1>1, SilenceInvariant, PTL
=============================================================================
