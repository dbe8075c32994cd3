----------------------------- MODULE Connecting -----------------------------
(***************************************************************************)
(* One connection attempt after another: connect, new_tunnel and           *)
(* select_relay of src/rustlib/src/client_state.rs, and the handshakes of  *)
(* QuicWgConn::connect in src/rustlib/src/quicwg.rs.                       *)
(*                                                                         *)
(* The tunnel task (TunnelState) starts an attempt, may drop its future    *)
(* when the target changes, and starts the next one after a failure or     *)
(* when the tunnel broke.  The exits already tried are kept from attempt   *)
(* to attempt.  Of the race of the relays (RelayRace) only the winner is   *)
(* kept.  Lists are refreshed and keys rotated by others at any moment.    *)
(***************************************************************************)
EXTENDS ExitSelection

CONSTANTS
  Selectors,     (* targets the user picks                            *)
  ExitLists,     (* exit lists the API serves                         *)
  Resends,       (* WG_FIRST_HANDSHAKE_RESENDS                        *)
  MaxKeys,       (* bound: WireGuard keys                             *)
  None           (* no list, relay, exit, tunnel                      *)

Relay == DOMAIN RelayAt

ASSUME ConnectingConstants ==
  /\ ExitLists \subseteq SUBSET Exit /\ None \notin Exit \cup Relay \cup ExitLists
  /\ Resends \in Nat \ {0} /\ MaxKeys \in Nat

VARIABLES
  phase,       (* where the attempt is                                   *)
  selector,    (* the exit selector of the target                        *)
  haveRelays,  (* a relay list is cached                                 *)
  exits,       (* the cached exit list                                   *)
  selection,   (* the ExitSelectionState                                 *)
  relay,       (* the relay with the open handshake                      *)
  key,         (* the current WireGuard key                              *)
  wgKey,       (* the key of this attempt                                *)
  refused,     (* keys the API has told to rotate                        *)
  tunnel,      (* what the API answered: a relay and an exit             *)
  resends,     (* handshake messages left                                *)
  last,        (* last_chosen_exit of the configuration                  *)
  noExits      (* answers NoExit since an exit was last selected, though *)
               (* one of the list matched                                *)

connectVars == <<phase, selector, haveRelays, exits, selection, relay, key,
                 wgKey, refused, tunnel, resends, last, noExits>>

ConnectTypeOK ==
  /\ phase \in {"idle", "relays", "racing", "exits", "key", "create", "token", "handshake",
                "connected"}
  /\ selector \in Selectors /\ haveRelays \in BOOLEAN
  /\ exits \in ExitLists \cup {None}
  /\ selection \in ExitSelectionState
  /\ relay \in Relay \cup {None}
  /\ key \in 0..MaxKeys /\ wgKey \in 0..MaxKeys /\ refused \subseteq 0..MaxKeys
  /\ tunnel \in [relay : Relay, exit : Exit] \cup {None}
  /\ resends \in 0..Resends /\ last \in Exit \cup {None} /\ noExits \in 0..2

ConnectInit ==
  /\ phase = "idle" /\ selector \in Selectors
  /\ haveRelays \in BOOLEAN /\ exits \in ExitLists \cup {None}
  /\ selection = Fresh /\ relay = None
  /\ key = 0 /\ wgKey = 0 /\ refused = {} /\ tunnel = None
  /\ resends = 0 /\ last = None /\ noExits = 0

(* The attempt ends: everything it held is dropped. *)
Leave ==
  /\ phase' = "idle" /\ relay' = None /\ tunnel' = None
  /\ wgKey' = 0 /\ resends' = 0

(* The error goes to the tunnel task, which tries again. *)
Fail == Leave /\ UNCHANGED <<selector, selection, key, refused, last, noExits>>

(* connect is called with the target's selector.  Both updates are spawned. *)
StartAttempt ==
  /\ phase = "idle" /\ phase' = "relays"
  /\ UNCHANGED <<selector, haveRelays, exits, selection, relay, key, wgKey, refused,
                 tunnel, resends, last, noExits>>

(* A cached list is taken as it is; otherwise the update is awaited. *)
RelayList ==
  /\ phase = "relays"
  /\ \/ /\ haveRelays /\ phase' = "racing"
        /\ UNCHANGED <<selector, selection, relay, key, wgKey, refused, tunnel, resends,
                       last, noExits>>
     \/ ~haveRelays /\ Fail   \* the update has failed
  /\ UNCHANGED <<haveRelays, exits>>

Race ==
  /\ phase = "racing"
  /\ \/ /\ relay' \in Relay /\ phase' = "exits"
        /\ UNCHANGED <<selector, selection, key, wgKey, refused, tunnel, resends, last,
                       noExits>>
     \/ Fail
  /\ UNCHANGED <<haveRelays, exits>>

FaultySelectExit ==
  /\ phase = "exits" /\ exits # None
  /\ LET choice == Selectable(selection, selector, exits, relay)
     IN  IF choice # {}
         THEN /\ \E e \in choice : selection' = Used(selection, e)
              /\ phase' = "key" /\ noExits' = 0
              /\ UNCHANGED <<selector, relay, key, wgKey, refused, tunnel, resends, last>>
         ELSE /\ UNCHANGED selection /\ noExits' = noExits + Flag(\E e \in exits : Matches(selector, e))
              /\ Leave /\ UNCHANGED <<selector, key, refused, last>>
  /\ UNCHANGED <<haveRelays, exits>>

(* select_next_exit: none left clears what was used, and is an error. *)
SelectExit ==
  /\ phase = "exits" /\ exits # None
  /\ LET choice == Selectable(selection, selector, exits, relay)
     IN  IF choice # {}
         THEN /\ \E e \in choice : selection' = Used(selection, e)
              /\ phase' = "key" /\ noExits' = 0
              /\ UNCHANGED <<selector, relay, key, wgKey, refused, tunnel, resends, last>>
         ELSE /\ selection' = Fresh /\ noExits' = noExits + Flag(\E e \in exits : Matches(selector, e))
              /\ Leave /\ UNCHANGED <<selector, key, refused, last>>
  /\ UNCHANGED <<haveRelays, exits>>

ExitUpdateFails == phase = "exits" /\ exits = None /\ Fail /\ UNCHANGED <<haveRelays, exits>>

(* use_key_pair *)
TakeKey ==
  /\ phase = "key" /\ wgKey' = key /\ phase' = "create"
  /\ UNCHANGED <<selector, haveRelays, exits, selection, relay, key, refused, tunnel,
                 resends, last, noExits>>

(* The answer to CreateTunnel is a tunnel for the key.  It fails when the    *)
(* relay is not the one of the handshake, the tunnel is of another kind or   *)
(* has no DNS or addresses.                                                  *)
FaultyCreateTunnel ==
  /\ phase = "create"
  /\ \/ /\ \E r \in Relay, e \in Exit : tunnel' = [relay |-> r, exit |-> e]
        /\ phase' = "token"
        /\ UNCHANGED <<selector, selection, relay, key, wgKey, refused, resends, last,
                       noExits>>
     \/ Fail
  /\ UNCHANGED <<haveRelays, exits>>

CreateTunnel ==
  /\ phase = "create"
  /\ \/ /\ \E r \in Relay, e \in Exit : r = relay /\ tunnel' = [relay |-> r, exit |-> e]
        /\ phase' = "token"
        /\ UNCHANGED <<selector, selection, relay, key, wgKey, refused, resends, last,
                       noExits>>
     \/ Fail
  /\ UNCHANGED <<haveRelays, exits>>

(* The API wants another key: the current one is replaced, whichever the *)
(* attempt used, and the attempt fails.                                  *)
RotationRequired ==
  /\ phase = "create" /\ key < MaxKeys
  /\ key' = key + 1 /\ refused' = refused \cup {wgKey}
  /\ Leave /\ UNCHANGED <<selector, haveRelays, exits, selection, last, noExits>>

(* authenticate: the relay is shown the tunnel's id. *)
Authenticate ==
  /\ phase = "token"
  /\ \/ /\ phase' = "handshake" /\ resends' = Resends
        /\ UNCHANGED <<selector, selection, relay, key, wgKey, refused, tunnel, last,
                       noExits>>
     \/ Fail
  /\ UNCHANGED <<haveRelays, exits>>

(* first_wg_handshake: the same message again at every timeout. *)
HandshakeTimeout ==
  /\ phase = "handshake" /\ resends > 0
  /\ IF resends = 1 THEN Fail
     ELSE /\ resends' = resends - 1
          /\ UNCHANGED <<phase, selector, selection, relay, key, wgKey, refused, tunnel,
                         last, noExits>>
  /\ UNCHANGED <<haveRelays, exits>>

HandshakeError == phase = "handshake" /\ Fail /\ UNCHANGED <<haveRelays, exits>>

(* The exit answers: the configuration remembers the exit the API gave, and *)
(* the tunnel task forgets those tried.                                     *)
Handshaken ==
  /\ phase = "handshake" /\ phase' = "connected"
  /\ last' = IF selector.kind = "any" THEN last ELSE tunnel.exit
  /\ selection' = Fresh /\ noExits' = 0 /\ resends' = 0
  /\ UNCHANGED <<selector, haveRelays, exits, relay, key, wgKey, refused, tunnel>>

TunnelBreaks ==
  /\ phase = "connected" /\ Fail /\ UNCHANGED <<haveRelays, exits>>

(* The target changes: an attempt under way is dropped.  The exits tried are *)
(* forgotten only when it has no tunnel, or no interface, on the way.        *)
ChangeTarget ==
  /\ selector' \in Selectors
  /\ Leave /\ selection' \in {selection, Fresh}
  /\ UNCHANGED <<haveRelays, exits, key, refused, last, noExits>>

(* An update, of this attempt or of anyone, stores a list. *)
StoreList ==
  /\ \/ ~haveRelays /\ haveRelays' = TRUE /\ UNCHANGED exits
     \/ exits' \in ExitLists \ {exits} /\ UNCHANGED haveRelays
  /\ UNCHANGED <<phase, selector, selection, relay, key, wgKey, refused, tunnel, resends,
                 last, noExits>>

(* rotate_wg_key by the user *)
RotateKey ==
  /\ key < MaxKeys /\ key' = key + 1
  /\ UNCHANGED <<phase, selector, haveRelays, exits, selection, relay, wgKey, refused,
                 tunnel, resends, last, noExits>>

ConnectNext ==
  \/ StartAttempt \/ RelayList \/ Race \/ SelectExit \/ ExitUpdateFails \/ TakeKey
  \/ CreateTunnel \/ RotationRequired \/ Authenticate \/ HandshakeTimeout \/ HandshakeError
  \/ Handshaken \/ TunnelBreaks \/ ChangeTarget \/ StoreList \/ RotateKey

-----------------------------------------------------------------------------
(* An attempt that finds every matching exit used or its place worn out      *)
(* fails with NoExit, but the one after it does not: as long as some exit    *)
(* matches, two attempts in a row never end so (select_next_exit).           *)
NeverStuckWithoutExit == noExits <= 1

(* What the relay and the exit are shown is what the API was told: the relay *)
(* of the handshake is the tunnel's, and no tunnel is asked for with a key   *)
(* the API has told to rotate (new_tunnel).                                  *)
TunnelFitsHandshake ==
  /\ tunnel # None => tunnel.relay = relay
  /\ phase \in {"create", "token", "handshake", "connected"} => wgKey \notin refused
=============================================================================
