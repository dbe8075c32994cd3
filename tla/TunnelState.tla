----------------------------- MODULE TunnelState -----------------------------
(***************************************************************************)
(* The tunnel task of the client: TunnelState::maintain in                 *)
(* src/rustlib/src/tunnel_state.rs, one loop that drives the published     *)
(* tunnel state and the operating system's network configuration towards   *)
(* the target state the client configuration asks for.                     *)
(*                                                                         *)
(* The loop is one task.  Its program counter names the await at which it  *)
(* is suspended; everything it does between two awaits is one action.      *)
(* Commands, the interface watcher and the connection itself run           *)
(* concurrently and act at any of those awaits, on the configuration the   *)
(* task took a snapshot of (target).                                       *)
(***************************************************************************)
EXTENDS Naturals

CONSTANTS
  Args,            (* values of TunnelArgs: exit selectors                   *)
  DefaultArgs,     (* TunnelArgs::default, what a reset configuration holds  *)
  Iface,           (* network interfaces the host may prefer                 *)
  Settings,        (* values of (DNS block, system DNS, local network)       *)
  DefaultSettings, (* their values in a reset configuration                  *)
  Conn,            (* identities of relay connections (Arc<QuicWgConn>)      *)
  NONE,            (* Option::None                                           *)
  MaxBytes         (* bound on the bytes one session carries                 *)

ASSUME TunnelConstants ==
  /\ DefaultArgs \in Args
  /\ DefaultSettings \in Settings
  /\ NONE \notin Args \cup Iface \cup Settings \cup Conn
  /\ MaxBytes \in Nat

VARIABLES
  config,      (* the configuration fields the target state is made of       *)
  interface,   (* ClientState.network_interface                              *)
  pc,          (* the await the tunnel task is suspended at                  *)
  target,      (* target_state: the snapshot of the current iteration        *)
  tunnel,      (* the published TunnelState                                  *)
  reason,      (* the task's local disconnect_reason: the conn that failed   *)
  fresh,       (* the task's local connected.conn before it is published     *)
  selection,   (* the task's local ExitSelectionState                        *)
  os,          (* what the operating system was configured to do             *)
  alive,       (* connections that have not failed                           *)
  bytes,       (* bytes each connection has carried                          *)
  carried,     (* history: bytes carried since the session began             *)
  keyExpired   (* the WireGuard key was first used more than 30 days ago     *)

clientVars == <<config, interface>>
taskVars   == <<pc, target, tunnel, reason, fresh, selection>>
connVars   == <<alive, bytes>>
vars       == <<clientVars, taskVars, os, connVars, carried, keyExpired>>

-----------------------------------------------------------------------------
(* Data.  An operator whose name begins with Faulty is the definition that  *)
(* follows it with a mistake in it; no specification uses one.  The runs    *)
(* use them to show that the properties notice.                             *)

Config == [active : BOOLEAN, args : Args, settings : Settings, killSwitch : BOOLEAN]

DefaultConfig == [active |-> FALSE, args |-> DefaultArgs,
                  settings |-> DefaultSettings, killSwitch |-> FALSE]

Target == [args : Args \cup {NONE}, iface : Iface \cup {NONE},
           settings : Settings, killSwitch : BOOLEAN]

(* ClientState::target_state *)
TargetState == [args       |-> IF config.active THEN config.args ELSE NONE,
                iface      |-> interface,
                settings   |-> config.settings,
                killSwitch |-> config.killSwitch]

FaultyChanged == TargetState.args # target.args

Changed == TargetState # target

(* The configurations the task asks the operating system for. *)
OsMode   == {"off", "blocked", "dummy", "real", "unknown"}
OsConfig == [mode : OsMode, settings : Settings \cup {NONE}, conn : Conn \cup {NONE}]

Plain(m, s) == [mode |-> m, settings |-> s, conn |-> NONE]
Off         == Plain("off", NONE)
Unknown     == Plain("unknown", NONE)
Blocked(s)  == Plain("blocked", s)
Dummy(s)    == Plain("dummy", s)
Real(c, s)  == [mode |-> "real", settings |-> s, conn |-> c]

Disconnected == [kind |-> "disconnected", args |-> NONE, iface |-> NONE,
                 conn |-> NONE, error |-> FALSE, reason |-> NONE, offset |-> 0]

(* TunnelState::traffic_stats *)
Stats(t) == IF t.kind = "connected" THEN t.offset + bytes[t.conn] ELSE t.offset

(* TunnelState::matches_target *)
FaultyMatches(t, tgt) ==
  \/ t.kind = "disconnected" /\ tgt.args = NONE
  \/ t.kind = "connected" /\ t.args = tgt.args

Matches(t, tgt) ==
  \/ t.kind = "disconnected" /\ tgt.args = NONE
  \/ t.kind = "connected" /\ t.args = tgt.args /\ t.iface = tgt.iface

-----------------------------------------------------------------------------
(* The setters of the published state *)

(* TunnelState::set_connecting: a new session unless one is being set up,   *)
(* in which case only the arguments are replaced.                           *)
FaultySetConnectingConn(t, tgt, why) ==
  [kind |-> "connecting", args |-> tgt.args, iface |-> tgt.iface, conn |-> t.conn,
   error |-> FALSE, reason |-> why, offset |-> Stats(t)]

FaultySetConnectingInPlace(t, tgt, why) ==
  IF t.kind # "disconnected"
  THEN [t EXCEPT !.args = tgt.args]
  ELSE [kind |-> "connecting", args |-> tgt.args, iface |-> tgt.iface, conn |-> NONE,
        error |-> FALSE, reason |-> why, offset |-> Stats(t)]

SetConnecting(t, tgt, why) ==
  IF t.kind = "connecting"
  THEN [t EXCEPT !.args = tgt.args]
  ELSE [kind |-> "connecting", args |-> tgt.args, iface |-> tgt.iface, conn |-> NONE,
        error |-> FALSE, reason |-> why, offset |-> Stats(t)]

(* TunnelState::set_connected: the bytes of earlier connections are kept,   *)
(* and counted once when the connection is the one already published.       *)
FaultySetConnected(t, tgt, c) ==
  [kind |-> "connected", args |-> tgt.args, iface |-> tgt.iface, conn |-> c,
   error |-> FALSE, reason |-> NONE, offset |-> Stats(t)]

SetConnected(t, tgt, c) ==
  [kind |-> "connected", args |-> tgt.args, iface |-> tgt.iface, conn |-> c,
   error |-> FALSE, reason |-> NONE,
   offset |-> IF t.kind = "connected" /\ t.conn = c THEN t.offset ELSE Stats(t)]

(* TunnelState::set_connect_error: logs "this should be impossible" and     *)
(* changes nothing unless the tunnel is connecting.                         *)
SetConnectError(t) ==
  IF t.kind = "connecting" THEN [t EXCEPT !.error = TRUE] ELSE t

-----------------------------------------------------------------------------
(* Calls to the operating system.  A successful call put everything in      *)
(* place.  After a failed one the firewall holds the old rules or the new   *)
(* ones, the other steps are not known, and a set call still has replaced   *)
(* the task that reads packets for the tunnel.                              *)

OsOk(cfg) == os' = [firewall |-> cfg, net |-> cfg, reader |-> os.reader]

OsErr(cfg) ==
  \E fw \in {os.firewall, cfg} :
    os' = [firewall |-> fw, net |-> Unknown, reader |-> os.reader]

FaultySetOsOk(cfg) == os' = [firewall |-> cfg, net |-> cfg, reader |-> os.reader]

SetOsOk(cfg) == os' = [firewall |-> cfg, net |-> cfg, reader |-> cfg.conn]

SetOsErr(cfg) ==
  \E fw \in {os.firewall, cfg} :
    os' = [firewall |-> fw, net |-> Unknown, reader |-> cfg.conn]

FaultyUnsetConfig(tgt) == Off

UnsetConfig(tgt) == IF tgt.killSwitch THEN Blocked(tgt.settings) ELSE Off

-----------------------------------------------------------------------------
Init ==
  /\ config \in Config
  /\ interface = NONE
  /\ pc = "debounce"
  /\ target = [args |-> NONE, iface |-> NONE, settings |-> config.settings,
               killSwitch |-> config.killSwitch]
  /\ tunnel = Disconnected
  /\ reason = NONE
  /\ fresh = NONE
  /\ selection = "default"
  /\ \E fw \in {Off} \cup {Blocked(s) : s \in Settings} :
       /\ config.killSwitch => fw # Off
       /\ os = [firewall |-> fw, net |-> Off, reader |-> NONE]
  /\ alive = {}
  /\ bytes = [c \in Conn |-> 0]
  /\ carried = 0
  /\ keyExpired = FALSE

-----------------------------------------------------------------------------
(* The client: commands and the interface watcher *)

ChangeConfig(c, expired) ==
  /\ config' = c
  /\ keyExpired' = expired
  /\ UNCHANGED <<interface, taskVars, os, connVars, carried>>

(* ManagerCmd::SetTunnelArgs: new arguments, a new active flag, or both *)
SetTunnelTargetState(a, b) ==
  ChangeConfig([config EXCEPT !.args = a, !.active = b], keyExpired)

SetFeatureFlag(b) == ChangeConfig([config EXCEPT !.killSwitch = b], keyExpired)

ChangeSettings(s) == ChangeConfig([config EXCEPT !.settings = s], keyExpired)

(* ManagerCmd::Login and Logout for another account reset the configuration, *)
(* the cached key included.                                                  *)
SetAccountId == ChangeConfig(DefaultConfig, FALSE)

(* ManagerCmd::RotateWgKey and SetApiUrl, and a registration in the          *)
(* background that the server refuses, replace the key at any time.          *)
RotateKey == ChangeConfig(config, FALSE)

SetNetworkInterface(i) ==
  /\ interface' = i
  /\ UNCHANGED <<config, taskVars, os, connVars, carried, keyExpired>>

Client ==
  \/ \E a \in Args, b \in BOOLEAN : SetTunnelTargetState(a, b)
  \/ \E b \in BOOLEAN : SetFeatureFlag(b)
  \/ \E s \in Settings : ChangeSettings(s)
  \/ SetAccountId
  \/ RotateKey
  \/ \E i \in Iface \cup {NONE} : SetNetworkInterface(i)

-----------------------------------------------------------------------------
(* The connections and the clock *)

(* The connection dies: timeouts of the QUIC or WireGuard session, or the   *)
(* liveness checker gives up.  The task learns of it from receive().        *)
ConnFails(c) ==
  /\ c \in alive
  /\ alive' = alive \ {c}
  /\ UNCHANGED <<clientVars, taskVars, os, bytes, carried, keyExpired>>

(* A packet crosses a connection that someone still holds. *)
Traffic(c) ==
  /\ c \in alive
  /\ c \in {tunnel.conn, fresh}
  /\ carried + (IF fresh \in Conn /\ fresh # tunnel.conn THEN bytes[fresh] ELSE 0) < MaxBytes
  /\ bytes' = [bytes EXCEPT ![c] = @ + 1]
  /\ carried' = IF tunnel.conn = c THEN carried + 1 ELSE carried
  /\ UNCHANGED <<clientVars, taskVars, os, alive, keyExpired>>

KeyExpires ==
  /\ ~keyExpired
  /\ keyExpired' = TRUE
  /\ UNCHANGED <<clientVars, taskVars, os, connVars, carried>>

-----------------------------------------------------------------------------
(* The tunnel task *)

(* The arm of the match on target_state that the iteration enters, named by *)
(* the first await in it.                                                   *)
FirstAwait(tgt, t) ==
  CASE tgt.args = NONE                                            -> "unset"
    [] tgt.args # NONE /\ tgt.iface = NONE /\ tgt.killSwitch       -> "stuckUnset"
    [] tgt.args # NONE /\ tgt.iface = NONE /\ ~tgt.killSwitch      -> "idle"
    [] tgt.args # NONE /\ tgt.iface # NONE /\ t.kind = "connected" -> "setReal"
    [] OTHER                                                      -> "setDummy"

Goto(from, to) == pc = from /\ pc' = to

(* A connection is closed and its counters are gone when the published      *)
(* state and the task no longer hold it; the packet reader holds it weakly. *)
DropUnheld ==
  LET held == {tunnel'.conn, fresh'}
  IN /\ alive' = alive \cap held
     /\ bytes' = [c \in Conn |-> IF c \in held THEN bytes[c] ELSE 0]

(* What the head of the loop makes of the published state. *)
FaultyHeadTunnel(tgt) ==
  IF Matches(tunnel, tgt) THEN tunnel
  ELSE IF tgt.args = NONE THEN Disconnected
  ELSE SetConnecting(tunnel, tgt, reason)

HeadTunnel(tgt) ==
  IF Matches(tunnel, tgt) /\ reason = NONE THEN tunnel
  ELSE IF tgt.args = NONE THEN Disconnected
  ELSE SetConnecting(tunnel, tgt, reason)

(* A session is about to end because the user asked for it. *)
FaultyLeaving(tgt) == tunnel.kind # "disconnected"

Leaving(tgt) == tunnel.kind # "disconnected" /\ tgt.args = NONE

(* The debounce sleep is over: take a snapshot of the target, rotate an     *)
(* expired key on the way to disconnected, drop a tunnel that no longer     *)
(* matches or that failed, and enter the arm for the target.                *)
LoopHead ==
  /\ pc = "debounce"
  /\ target' = TargetState
  /\ keyExpired' = (keyExpired /\ ~Leaving(target'))
  /\ LET head  == HeadTunnel(target')
         stuck == target'.args # NONE /\ target'.iface = NONE
     IN /\ pc' = FirstAwait(target', head)
        /\ tunnel' = IF stuck THEN SetConnectError(head) ELSE head
        /\ selection' = IF target'.args = NONE \/ stuck THEN "default" ELSE selection
        /\ fresh' = IF pc' = "setReal" THEN head.conn ELSE NONE
        /\ carried' = IF tunnel.kind = "disconnected" THEN 0 ELSE carried
  /\ reason' = IF target'.args = NONE THEN reason ELSE NONE
  /\ DropUnheld
  /\ UNCHANGED <<clientVars, os>>

(* set_os_network_config with the dummy configuration returned *)
DummyOk ==
  /\ Goto("setDummy", "connect")
  /\ SetOsOk(Dummy(target.settings))
  /\ UNCHANGED <<clientVars, target, tunnel, reason, fresh, selection, keyExpired, connVars, carried>>

DummyErr ==
  /\ Goto("setDummy", "debounce")
  /\ SetOsErr(Dummy(target.settings))
  /\ tunnel' = SetConnectError(tunnel)
  /\ UNCHANGED <<clientVars, target, reason, fresh, selection, keyExpired, connVars, carried>>

(* poll_until_change saw another target before connect() finished *)
ConnectChanged ==
  /\ Goto("connect", "debounce")
  /\ Changed
  /\ selection' \in {selection, "used"}
  /\ UNCHANGED <<clientVars, target, tunnel, reason, fresh, keyExpired, os, connVars, carried>>

(* connect() failed, in some cases because the server wants another key *)
ConnectErr ==
  /\ Goto("connect", "debounce")
  /\ selection' \in {selection, "used", "default"}
  /\ tunnel' = SetConnectError(tunnel)
  /\ keyExpired' \in {keyExpired, FALSE}
  /\ UNCHANGED <<clientVars, target, reason, fresh, os, connVars, carried>>

(* connect() returned a connection nobody else holds *)
ConnectOk(c) ==
  /\ Goto("connect", "setReal")
  /\ c \notin {tunnel.conn, os.reader}
  /\ fresh' = c
  /\ alive' = alive \cup {c}
  /\ bytes' = [bytes EXCEPT ![c] = 0]
  /\ selection' = "default"
  /\ UNCHANGED <<clientVars, target, tunnel, reason, keyExpired, os, carried>>

(* set_os_network_config with the configuration of the tunnel returned *)
RealOk ==
  /\ Goto("setReal", "forward")
  /\ SetOsOk(Real(fresh, target.settings))
  /\ tunnel' = SetConnected(tunnel, target, fresh)
  /\ carried' = IF tunnel.conn = fresh THEN carried ELSE carried + bytes[fresh]
  /\ fresh' = NONE
  /\ UNCHANGED <<clientVars, target, reason, selection, keyExpired, connVars>>

RealErr ==
  /\ Goto("setReal", "debounce")
  /\ SetOsErr(Real(fresh, target.settings))
  /\ tunnel' = SetConnectError(tunnel)
  /\ fresh' = NONE
  /\ DropUnheld
  /\ UNCHANGED <<clientVars, target, reason, selection, keyExpired, carried>>

ForwardChanged ==
  /\ Goto("forward", "debounce")
  /\ Changed
  /\ reason' = NONE
  /\ UNCHANGED <<clientVars, target, tunnel, fresh, selection, keyExpired, os, connVars, carried>>

(* receive() returned an error: the published state stays until LoopHead *)
ForwardFails ==
  /\ Goto("forward", "debounce")
  /\ tunnel.conn \notin alive
  /\ reason' = tunnel.conn
  /\ UNCHANGED <<clientVars, target, tunnel, fresh, selection, keyExpired, os, connVars, carried>>

UnsetOk ==
  /\ Goto("unset", "idle") \/ Goto("stuckUnset", "idle")
  /\ OsOk(UnsetConfig(target))
  /\ UNCHANGED <<clientVars, target, tunnel, reason, fresh, selection, keyExpired, connVars, carried>>

UnsetErr ==
  /\ Goto("unset", "debounce") \/ Goto("stuckUnset", "debounce")
  /\ OsErr(UnsetConfig(target))
  /\ UNCHANGED <<clientVars, target, tunnel, reason, fresh, selection, keyExpired, connVars, carried>>

IdleChanged ==
  /\ Goto("idle", "debounce")
  /\ Changed
  /\ UNCHANGED <<clientVars, target, tunnel, reason, fresh, selection, keyExpired, os, connVars, carried>>

Task ==
  \/ LoopHead \/ DummyOk \/ DummyErr
  \/ ConnectChanged \/ ConnectErr \/ (\E c \in Conn : ConnectOk(c))
  \/ RealOk \/ RealErr \/ ForwardChanged \/ ForwardFails
  \/ UnsetOk \/ UnsetErr \/ IdleChanged

Next ==
  \/ Client
  \/ \E c \in Conn : ConnFails(c) \/ Traffic(c)
  \/ KeyExpires
  \/ Task

Spec == Init /\ [][Next]_vars

(* The runtime keeps polling the task: sleeps end, a changed target and a   *)
(* failed connection are noticed (select! polls its branches in random      *)
(* order).  Of the environment, liveness assumes that a call to the         *)
(* operating system or a connection attempt that is made again and again    *)
(* succeeds at some point.                                                  *)
Fairness ==
  /\ WF_vars(LoopHead) /\ WF_vars(ConnectChanged)
  /\ WF_vars(ForwardChanged) /\ WF_vars(IdleChanged)
  /\ SF_vars(ForwardFails)
  /\ SF_vars(DummyOk) /\ SF_vars(RealOk) /\ SF_vars(UnsetOk)
  /\ SF_vars(\E c \in Conn : ConnectOk(c))

FairSpec == Spec /\ Fairness

-----------------------------------------------------------------------------
(* Properties *)

Await == {"debounce", "setDummy", "connect", "setReal", "forward",
          "unset", "stuckUnset", "idle"}

Tunnel == [kind : {"disconnected", "connecting", "connected"},
           args : Args \cup {NONE}, iface : Iface \cup {NONE}, conn : Conn \cup {NONE},
           error : BOOLEAN, reason : Conn \cup {NONE}, offset : Nat]

(* Every variable has its type, and the published state carries arguments   *)
(* unless it is disconnected and a connection exactly when it is connected: *)
(* the fields of the three variants of enum TunnelState.                    *)
TypeOK ==
  /\ config \in Config
  /\ interface \in Iface \cup {NONE}
  /\ pc \in Await
  /\ target \in Target
  /\ tunnel \in Tunnel
  /\ tunnel.kind = "disconnected" => tunnel = Disconnected
  /\ tunnel.kind # "disconnected" => tunnel.args \in Args
  /\ tunnel.kind = "connecting" => tunnel.conn = NONE
  /\ tunnel.kind = "connected" => tunnel.iface \in Iface /\ tunnel.conn \in Conn
  /\ reason \in Conn \cup {NONE}
  /\ fresh \in Conn \cup {NONE}
  /\ selection \in {"default", "used"}
  /\ os \in [firewall : OsConfig, net : OsConfig, reader : Conn \cup {NONE}]
  /\ alive \in SUBSET Conn
  /\ bytes \in [Conn -> Nat]
  /\ carried \in Nat
  /\ keyExpired \in BOOLEAN

Captured == os.firewall.mode # "off"

(* What the task's position says of the snapshot, the published state and   *)
(* the connection in its hands: each arm of the match on target_state is    *)
(* entered with the published state that arm is written for, across failed  *)
(* steps and debounces.                                                     *)
Working == {"setDummy", "connect", "setReal", "forward"}

TaskInvariant ==
  /\ fresh # NONE <=> pc = "setReal"
  /\ pc \in Working =>
       /\ target.args # NONE /\ target.iface # NONE
       /\ tunnel.args = target.args
  /\ pc \in {"setDummy", "connect"} => tunnel.kind = "connecting"
  /\ pc = "setReal" =>
       \/ tunnel.kind = "connecting"
       \/ tunnel.kind = "connected" /\ tunnel.conn = fresh /\ tunnel.iface = target.iface
  /\ pc = "forward" => tunnel.kind = "connected" /\ tunnel.iface = target.iface
  /\ pc = "unset" => tunnel.kind = "disconnected" /\ target.args = NONE
  /\ pc = "stuckUnset" => tunnel.kind = "connecting" /\ target.killSwitch

(* While packets are forwarded, everything the host was configured with     *)
(* belongs to the published connection and to the settings of the snapshot, *)
(* and that connection is the one the user asked for: no failed step or     *)
(* change of settings in between leaves a mixture behind.                   *)
ForwardingIsConfigured ==
  pc = "forward" =>
    /\ tunnel.kind = "connected"
    /\ tunnel.args = target.args /\ tunnel.iface = target.iface
    /\ os.firewall = Real(tunnel.conn, target.settings)
    /\ os.net = os.firewall
    /\ os.reader = tunnel.conn
    /\ selection = "default"

(* The firewall captures traffic from before the first connection attempt   *)
(* until the disconnect the user asked for: while connected, while trying   *)
(* to connect, and while waiting with the kill switch on, with or without a *)
(* network.                                                                 *)
NoTrafficAroundTunnel ==
  /\ tunnel.kind = "connected" => Captured
  /\ pc \in {"connect", "setReal"} => Captured
  /\ pc = "idle" /\ target.killSwitch => os.firewall = Blocked(target.settings)

(* The traffic counters shown for a session are the bytes its connections   *)
(* carried: set_connecting and set_connected neither lose the bytes of an   *)
(* earlier connection nor count the published one twice.                    *)
StatsAreExact == tunnel.kind # "disconnected" => Stats(tunnel) = carried

(* The published behaviour is that of VpnSession. *)
Session == INSTANCE VpnSession WITH
  status <- [kind |-> tunnel.kind, args |-> tunnel.args, conn |-> tunnel.conn],
  net    <- IF Captured THEN "captured" ELSE "open"

ImplementsSession == Session!SessionSpec

(* The tunnel task rotates an expired key only on the way out of a session  *)
(* (or before it connects): never while a connection that uses it stays     *)
(* published.                                                               *)
RotatesOnlyWhenLeaving ==
  [][Task /\ keyExpired /\ ~keyExpired' /\ tunnel.kind = "connected"
       => tunnel' = Disconnected]_vars

(* Once the user's wishes and the network settle, the task reaches the      *)
(* state they ask for, with the host configured for it, again and again     *)
(* whenever a connection breaks.                                            *)
InTargetState ==
  /\ target = TargetState
  /\ IF target.args # NONE /\ target.iface # NONE
     THEN pc = "forward" /\ os.firewall = Real(tunnel.conn, target.settings)
     ELSE /\ pc = "idle"
          /\ target.args = NONE => tunnel = Disconnected /\ os.firewall = UnsetConfig(target)
          /\ target.args # NONE => tunnel.kind = "connecting" /\ tunnel.error

Settles == <>[][FALSE]_clientVars => []<>InTargetState

(* A connection that failed does not stay published, even when settings or  *)
(* the target keep changing.                                                *)
DeadTunnelIsDropped ==
  \A c \in Conn : (tunnel.conn = c /\ c \notin alive) ~> (tunnel.conn # c)

(* set_connect_error calls it impossible to be reached when the tunnel is   *)
(* not connecting.                                                          *)
ConnectErrorOnlyWhileConnecting ==
  [][RealErr \/ DummyErr \/ ConnectErr => tunnel.kind = "connecting"]_vars
=============================================================================
