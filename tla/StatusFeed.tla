----------------------------- MODULE StatusFeed -----------------------------
(***************************************************************************)
(* The status and those who follow it: the status task and the             *)
(* registration task of src/rustlib/src/manager.rs, a long poll of         *)
(* GetStatus, and the poller of the desktop application                    *)
(* (src/rustlib/src/linux/status_watch.rs).                                *)
(*                                                                         *)
(* The status is put together from three watch channels.  A receiver knows *)
(* of a channel whether it changed since it was read.  The status is       *)
(* locked while it is built and the client state while it is read, so the  *)
(* tunnel state is read in a step of its own and the rest in one.          *)
(* Versions are numbered in place of random ones; so are seconds.          *)
(***************************************************************************)
EXTENDS Naturals

CONSTANTS
  Unset,           (* Option::None                                          *)
  MaxAttempts,     (* Backoff::BACKGROUND.take(10)                          *)
  MaxStatusChanges (* bound: changes of what the status is put together from *)

ASSUME StatusConstants ==
  MaxAttempts \in Nat \ {0} /\ MaxStatusChanges \in Nat /\ Unset \notin Nat

VARIABLES
  tunnel,      (* the tunnel state's channel                               *)
  client,      (* the client state's: a setting, and cached_account_status *)
  firewall,    (* the firewall status' ...                                 *)
  senderGone,  (* ... whose sender is gone                                 *)
  watching,    (* firewall is Some in the status task                      *)
  changed,     (* channels with a change the status task has not read      *)
  statusTask,  (* new, wait, read, publish                                 *)
  tunnelRead,  (* the tunnel state it has read                             *)
  status,      (* status_watch: version and contents                       *)
  known,       (* known_version of the application's poller                *)
  shown,       (* the status it holds for the service's, or Unset          *)
  registering, (* attempts left of the registration task, Unset: it waits   *)
  lastVersion, (* last_status_version of that task                         *)
  triedSince,  (* history: the version when it last made an attempt        *)
  second,      (* the system time                                          *)
  changes      (* number of changes so far                                 *)

statusVars == <<tunnel, client, firewall, senderGone, watching, changed, statusTask,
                tunnelRead, status, known, shown, registering, lastVersion, triedSince,
                second, changes>>

channelVars == <<tunnel, client, firewall, senderGone, second, changes>>
feedVars    == <<watching, changed, statusTask, tunnelRead, status>>
pollVars    == <<known, shown>>
regVars     == <<registering, lastVersion, triedSince>>

(* Manager::new *)
Contents(t, c, f) == [tunnel |-> t, setting |-> c.setting, account |-> c.account, firewall |-> f]

StatusInit ==
  /\ tunnel = "disconnected"
  /\ client = [setting |-> 1, account |-> Unset]
  /\ firewall = "blocking" /\ senderGone = FALSE
  /\ watching = TRUE /\ changed = {} /\ statusTask = "new" /\ tunnelRead = tunnel
  /\ status = [version |-> 1, of |-> Contents(tunnel, client, "unknown")]
  /\ known = Unset /\ shown = Unset
  /\ registering = Unset /\ lastVersion = Unset /\ triedSince = 0
  /\ second = 1 /\ changes = 0

-----------------------------------------------------------------------------
(* The channels *)

Send(channel) ==
  /\ changes < MaxStatusChanges
  /\ changes' = changes + 1
  /\ changed' = changed \cup {channel}
  /\ UNCHANGED <<senderGone, watching, statusTask, tunnelRead, status, pollVars, regVars>>

(* The tunnel task's publications; connecting is one of the others. *)
TunnelChanges ==
  /\ tunnel' \in {"disconnected", "connected"} \ {tunnel}
  /\ Send("tunnel")
  /\ UNCHANGED <<client, firewall, second>>

(* A command changes a setting: send_modify notifies even if nothing did.   *)
SettingChanges ==
  /\ client' \in {[client EXCEPT !.setting = v] : v \in 1..2}
  /\ Send("client")
  /\ UNCHANGED <<tunnel, firewall, second>>

(* update_account_info; client' differs but for status only by the second *)
AccountInfoChanges ==
  /\ client' \in {[client EXCEPT !.account = [active |-> b, sec |-> second]] : b \in BOOLEAN}
  /\ Send("client")
  /\ UNCHANGED <<tunnel, firewall, second>>

FirewallChanges ==
  /\ ~senderGone
  /\ firewall' \in {"blocking", "failed"} \ {firewall}
  /\ Send("firewall")
  /\ UNCHANGED <<tunnel, client, second>>

FirewallEnds ==
  /\ ~senderGone /\ senderGone' = TRUE
  /\ UNCHANGED <<tunnel, client, firewall, second, changes, feedVars, pollVars, regVars>>

(* It matters only where the second has been used. *)
SecondPasses ==
  /\ client.account # Unset /\ client.account.sec = second
  /\ second < 2 /\ second' = second + 1
  /\ UNCHANGED <<tunnel, client, firewall, senderGone, changes, feedVars, pollVars, regVars>>

-----------------------------------------------------------------------------
(* propagate_updates_to_status_task *)

FaultySubscribe ==
  /\ statusTask = "new" /\ statusTask' = "wait"
  /\ changed' = changed \ {"client"}
  /\ UNCHANGED <<channelVars, watching, tunnelRead, status, pollVars, regVars>>

(* A new subscription has seen the client state; what changed since the     *)
(* first status was made is found because the tunnel is marked as changed.  *)
Subscribe ==
  /\ statusTask = "new" /\ statusTask' = "wait"
  /\ changed' = (changed \ {"client"}) \cup {"tunnel"}
  /\ UNCHANGED <<channelVars, watching, tunnelRead, status, pollVars, regVars>>

Wake ==
  /\ statusTask = "wait" /\ statusTask' = "read"
  /\ \/ \E channel \in changed :
          /\ channel = "firewall" => watching
          /\ changed' = changed \ {channel}
          /\ UNCHANGED watching
     \/ watching /\ senderGone /\ "firewall" \notin changed
        /\ watching' = FALSE /\ UNCHANGED changed
  /\ UNCHANGED <<channelVars, tunnelRead, status, pollVars, regVars>>

ReadTunnel ==
  /\ statusTask = "read" /\ statusTask' = "publish"
  /\ tunnelRead' = tunnel
  /\ changed' = changed \ {"tunnel"}
  /\ UNCHANGED <<channelVars, watching, status, pollVars, regVars>>

(* Status::eq: two account statuses are equal when their seconds are. *)
SameAccount(a, b) == IF Unset \in {a, b} THEN a = b ELSE a.sec = b.sec
SameContents(a, b) == SameAccount(a.account, b.account) /\ [a EXCEPT !.account = b.account] = b

Built == Contents(tunnelRead, client, IF watching THEN firewall ELSE "unknown")

FaultyPublish ==
  /\ statusTask = "publish" /\ statusTask' = "wait"
  /\ changed' = {}
  /\ status' = IF SameContents(Built, status.of) THEN status
               ELSE [version |-> status.version + 1, of |-> Built]
  /\ UNCHANGED <<channelVars, watching, tunnelRead, pollVars, regVars>>

Publish ==
  /\ statusTask = "publish" /\ statusTask' = "wait"
  /\ changed' = changed \ ({"client"} \cup (IF watching THEN {"firewall"} ELSE {}))
  /\ status' = IF SameContents(Built, status.of) THEN status
               ELSE [version |-> status.version + 1, of |-> Built]
  /\ UNCHANGED <<channelVars, watching, tunnelRead, pollVars, regVars>>

-----------------------------------------------------------------------------
(* wireguard_key_registraction_task *)

RegistrationWakes ==
  /\ registering = Unset
  /\ status.version # lastVersion
  /\ status.of.account # Unset /\ status.of.account.active
  /\ status.of.tunnel = "disconnected"
  /\ lastVersion' = status.version
  /\ registering' = MaxAttempts
  /\ UNCHANGED <<channelVars, feedVars, pollVars, triedSince>>

(* register_cached_wireguard_key_if_new, whatever its result *)
TryRegistration ==
  /\ registering \in 1..MaxAttempts
  /\ registering' = registering - 1
  /\ triedSince' = status.version
  /\ UNCHANGED <<channelVars, feedVars, pollVars, lastVersion>>

FaultyStopTrying ==
  /\ registering = 0 /\ registering' = Unset
  /\ lastVersion' = status.version
  /\ UNCHANGED <<channelVars, feedVars, pollVars, triedSince>>

StopTrying ==
  /\ registering = 0 /\ registering' = Unset
  /\ UNCHANGED <<channelVars, feedVars, pollVars, lastVersion, triedSince>>

-----------------------------------------------------------------------------
(* run_status_poller, over GetStatus *)

StatusArrives ==
  /\ status.version # known
  /\ known' = status.version
  /\ shown' = status.of
  /\ UNCHANGED <<channelVars, feedVars, regVars>>

(* The service cannot be reached or answers with an error: what was shown   *)
(* is kept for display, as the last status of a degraded service.           *)
StatusFails ==
  /\ known' = Unset /\ shown' = Unset
  /\ UNCHANGED <<channelVars, feedVars, regVars>>

(* The process starts again from its configuration. *)
ServiceRestarts ==
  /\ changes < MaxStatusChanges /\ changes' = changes + 1
  /\ tunnel' = "disconnected" /\ firewall' = "blocking" /\ senderGone' = FALSE
  /\ watching' = TRUE /\ changed' = {} /\ statusTask' = "new" /\ tunnelRead' = "disconnected"
  /\ status' = [version |-> status.version + 1, of |-> Contents("disconnected", client, "unknown")]
  /\ registering' = Unset /\ lastVersion' = Unset
  /\ triedSince' = 0
  /\ UNCHANGED <<client, second, pollVars>>

StatusNext ==
  \/ TunnelChanges \/ SettingChanges \/ AccountInfoChanges
  \/ FirewallChanges \/ FirewallEnds \/ SecondPasses
  \/ Subscribe \/ Wake \/ ReadTunnel \/ Publish
  \/ RegistrationWakes \/ TryRegistration \/ StopTrying
  \/ StatusArrives \/ StatusFails \/ ServiceRestarts

-----------------------------------------------------------------------------
(* Everything that is read once the status task waits has been published    *)
(* (account information counts as the same within a second: src/rustlib/    *)
(* src/client_state.rs line 78); a follower that knows the version knows    *)
(* the contents; and a key is tried to be registered after each status that *)
(* calls for it (src/rustlib/src/client_state.rs line 780).                 *)
NothingUnread ==
  statusTask = "wait" /\ changed = {} /\ ~(watching /\ senderGone)

StatusIsCurrent ==
  /\ NothingUnread =>
       SameContents(status.of, Contents(tunnel, client, IF watching THEN firewall ELSE "unknown"))
  /\ known = status.version => shown = status.of
  /\ registering = Unset /\ lastVersion = status.version => triedSince >= status.version
=============================================================================
