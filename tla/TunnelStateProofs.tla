-------------------------- MODULE TunnelStateProofs --------------------------
(***************************************************************************)
(* Proofs about TunnelState for every set of exits, interfaces, settings   *)
(* and connections.  The inductive invariant is TypeOK together with       *)
(* TaskInvariant (what the task's position says of its locals) and the     *)
(* three safety invariants.                                                *)
(***************************************************************************)
EXTENDS TunnelState, TLAPS

(* ForwardingIsConfigured speaks of the selection state only while packets *)
(* are forwarded; to be inductive it must follow it from the connection on. *)
SelectionIsReset ==
  pc = "setReal" \/ tunnel.kind = "connected" => selection = "default"

Safety ==
  /\ ForwardingIsConfigured
  /\ NoTrafficAroundTunnel
  /\ StatsAreExact
  /\ SelectionIsReset

Inv == TypeOK /\ TaskInvariant /\ Safety

-----------------------------------------------------------------------------
(* Types of the data the actions are built from. *)

LEMMA ConfigTypes ==
  ASSUME NEW s \in Settings, NEW c \in Conn
  PROVE  /\ Off \in OsConfig /\ Unknown \in OsConfig
         /\ Blocked(s) \in OsConfig /\ Dummy(s) \in OsConfig /\ Real(c, s) \in OsConfig
         /\ Off.mode = "off" /\ Off.conn = NONE
         /\ Blocked(s).mode = "blocked" /\ Dummy(s).mode = "dummy" /\ Real(c, s).mode = "real"
         /\ Dummy(s).conn = NONE /\ Real(c, s).conn = c
BY DEF OsConfig, OsMode, Off, Unknown, Blocked, Dummy, Real, Plain

LEMMA UnsetType ==
  ASSUME NEW tgt \in Target
  PROVE  UnsetConfig(tgt) \in OsConfig
BY ConfigTypes DEF UnsetConfig, Target, OsConfig, OsMode, Off, Blocked, Plain

LEMMA TargetType ==
  ASSUME config \in Config, interface \in Iface \cup {NONE}
  PROVE  TargetState \in Target
BY DEF TargetState, Target, Config

LEMMA DisconnectedType == Disconnected \in Tunnel
BY DEF Disconnected, Tunnel

LEMMA DefaultConfigType == DefaultConfig \in Config
BY TunnelConstants DEF DefaultConfig, Config

LEMMA StatsType ==
  ASSUME TypeOK
  PROVE  Stats(tunnel) \in Nat
BY DEF TypeOK, Tunnel, Stats

(* What the head of the loop turns the published state into. *)
LEMMA SetConnectingType ==
  ASSUME TypeOK, NEW tgt \in Target, tgt.args # NONE
  PROVE  LET h == SetConnecting(tunnel, tgt, reason)
         IN /\ h \in Tunnel
            /\ h.kind = "connecting" /\ h.args = tgt.args /\ h.args \in Args
            /\ h.conn = NONE
            /\ h.offset = Stats(tunnel)
<1> DEFINE h == SetConnecting(tunnel, tgt, reason)
<1>1. tgt.args \in Args /\ tgt.iface \in Iface \cup {NONE}
  BY DEF Target
<1>2. CASE tunnel.kind = "connecting"
  <2>1. h = [tunnel EXCEPT !.args = tgt.args]
    BY <1>2 DEF SetConnecting
  <2>2. tunnel \in Tunnel /\ tunnel.conn = NONE /\ Stats(tunnel) = tunnel.offset
    BY <1>2 DEF TypeOK, Stats
  <2> QED BY <1>1, <1>2, <2>1, <2>2 DEF Tunnel
<1>3. CASE tunnel.kind # "connecting"
  <2>1. h = [kind |-> "connecting", args |-> tgt.args, iface |-> tgt.iface, conn |-> NONE,
             error |-> FALSE, reason |-> reason, offset |-> Stats(tunnel)]
    BY <1>3 DEF SetConnecting
  <2>2. reason \in Conn \cup {NONE}
    BY DEF TypeOK
  <2> QED BY <1>1, <2>1, <2>2, StatsType DEF Tunnel
<1> QED BY <1>2, <1>3

LEMMA HeadTunnelType ==
  ASSUME TypeOK, NEW tgt \in Target
  PROVE  /\ HeadTunnel(tgt) \in Tunnel
         /\ tgt.args = NONE => HeadTunnel(tgt) = Disconnected
         /\ tgt.args # NONE =>
              \/ /\ HeadTunnel(tgt) = tunnel
                 /\ tunnel.kind = "connected"
                 /\ tunnel.args = tgt.args /\ tunnel.iface = tgt.iface
              \/ HeadTunnel(tgt) = SetConnecting(tunnel, tgt, reason)
<1>1. CASE Matches(tunnel, tgt) /\ reason = NONE
  <2>1. HeadTunnel(tgt) = tunnel
    BY <1>1 DEF HeadTunnel
  <2>2. CASE tunnel.kind = "disconnected" /\ tgt.args = NONE
    BY <2>1, <2>2 DEF TypeOK
  <2>3. CASE tunnel.kind = "connected" /\ tunnel.args = tgt.args /\ tunnel.iface = tgt.iface
    <3>1. tunnel.args \in Args
      BY <2>3 DEF TypeOK
    <3> QED BY <2>1, <2>3, <3>1, TunnelConstants DEF TypeOK
  <2> QED BY <1>1, <2>2, <2>3 DEF Matches
<1>2. CASE ~(Matches(tunnel, tgt) /\ reason = NONE) /\ tgt.args = NONE
  BY <1>2, DisconnectedType DEF HeadTunnel
<1>3. CASE ~(Matches(tunnel, tgt) /\ reason = NONE) /\ tgt.args # NONE
  BY <1>3, SetConnectingType DEF HeadTunnel
<1> QED BY <1>1, <1>2, <1>3

-----------------------------------------------------------------------------
(* Type correctness *)

LEMMA SetErrorType ==
  ASSUME TypeOK
  PROVE  /\ SetConnectError(tunnel) \in Tunnel
         /\ SetConnectError(tunnel).kind = tunnel.kind
         /\ SetConnectError(tunnel).args = tunnel.args
         /\ SetConnectError(tunnel).iface = tunnel.iface
         /\ SetConnectError(tunnel).conn = tunnel.conn
         /\ SetConnectError(tunnel).offset = tunnel.offset
         /\ tunnel.kind # "connecting" => SetConnectError(tunnel) = tunnel
BY DEF TypeOK, SetConnectError, Tunnel

LEMMA SetConnectedType ==
  ASSUME TypeOK, NEW c \in Conn, target.args \in Args, target.iface \in Iface
  PROVE  LET h == SetConnected(tunnel, target, c)
         IN /\ h \in Tunnel
            /\ h.kind = "connected" /\ h.args = target.args
            /\ h.iface = target.iface /\ h.conn = c
            /\ h.offset = IF tunnel.kind = "connected" /\ tunnel.conn = c
                          THEN tunnel.offset ELSE Stats(tunnel)
<1> DEFINE o == IF tunnel.kind = "connected" /\ tunnel.conn = c
                THEN tunnel.offset ELSE Stats(tunnel)
<1>1. o \in Nat
  BY StatsType DEF TypeOK, Tunnel
<1>2. SetConnected(tunnel, target, c) =
        [kind |-> "connected", args |-> target.args, iface |-> target.iface, conn |-> c,
         error |-> FALSE, reason |-> NONE, offset |-> o]
  BY DEF SetConnected
<1>3. SetConnected(tunnel, target, c).kind = "connected" /\ SetConnected(tunnel, target, c).offset = o
  BY <1>2
<1> QED BY <1>1, <1>2, <1>3 DEF Tunnel

(* The calls to the operating system keep the type of what it was told. *)
LEMMA OsTypes ==
  ASSUME TypeOK, NEW cfg \in OsConfig
  PROVE  /\ OsOk(cfg) \/ SetOsOk(cfg) =>
              /\ os'.firewall = cfg /\ os'.net = cfg
              /\ os' \in [firewall : OsConfig, net : OsConfig, reader : Conn \cup {NONE}]
         /\ SetOsOk(cfg) => os'.reader = cfg.conn
         /\ OsErr(cfg) \/ SetOsErr(cfg) =>
              /\ os'.firewall \in {os.firewall, cfg}
              /\ os' \in [firewall : OsConfig, net : OsConfig, reader : Conn \cup {NONE}]
<1>1. Unknown \in OsConfig
  BY TunnelConstants DEF OsConfig, OsMode, Unknown, Plain
<1>2. cfg.conn \in Conn \cup {NONE}
  BY DEF OsConfig
<1>3. /\ os.firewall \in OsConfig
      /\ os.reader \in Conn \cup {NONE}
  BY DEF TypeOK
<1>4. OsOk(cfg) \/ SetOsOk(cfg) =>
        /\ os'.firewall = cfg /\ os'.net = cfg
        /\ os' \in [firewall : OsConfig, net : OsConfig, reader : Conn \cup {NONE}]
  BY <1>2, <1>3 DEF OsOk, SetOsOk
<1>5. ASSUME NEW fw \in {os.firewall, cfg}, NEW r \in Conn \cup {NONE},
             os' = [firewall |-> fw, net |-> Unknown, reader |-> r]
      PROVE  /\ os'.firewall \in {os.firewall, cfg}
             /\ os' \in [firewall : OsConfig, net : OsConfig, reader : Conn \cup {NONE}]
  BY <1>1, <1>3, <1>5
<1> QED BY <1>2, <1>3, <1>4, <1>5 DEF SetOsOk, OsErr, SetOsErr

LEMMA DropUnheldType ==
  ASSUME TypeOK, DropUnheld
  PROVE  alive' \in SUBSET Conn /\ bytes' \in [Conn -> Nat]
BY DEF TypeOK, DropUnheld

(* The part of TypeOK that speaks of the published state. *)
TunnelTypeOK ==
  /\ tunnel \in Tunnel
  /\ tunnel.kind = "disconnected" => tunnel = Disconnected
  /\ tunnel.kind # "disconnected" => tunnel.args \in Args
  /\ tunnel.kind = "connecting" => tunnel.conn = NONE
  /\ tunnel.kind = "connected" => tunnel.iface \in Iface /\ tunnel.conn \in Conn

LEMMA ErrorKeepsType ==
  ASSUME TypeOK, tunnel' = SetConnectError(tunnel)
  PROVE  TunnelTypeOK'
BY SetErrorType DEF TypeOK, TunnelTypeOK

LEMMA HeadTypes ==
  ASSUME TypeOK, LoopHead
  PROVE  /\ target' = TargetState /\ target' \in Target
         /\ TunnelTypeOK'
         /\ fresh' \in Conn \cup {NONE}
         /\ pc' = FirstAwait(target', HeadTunnel(target'))
         /\ tunnel'.kind = HeadTunnel(target').kind
         /\ tunnel'.args = HeadTunnel(target').args
         /\ tunnel'.iface = HeadTunnel(target').iface
         /\ tunnel'.conn = HeadTunnel(target').conn
         /\ tunnel'.offset = HeadTunnel(target').offset
<1>1. target' = TargetState /\ target' \in Target
  BY TargetType DEF LoopHead, TypeOK
<1> DEFINE h == HeadTunnel(target')
<1>2. /\ h \in Tunnel
      /\ h.kind = "disconnected" => h = Disconnected
      /\ h.kind # "disconnected" => h.args \in Args
      /\ h.kind = "connecting" => h.conn = NONE
      /\ h.kind = "connected" => h.iface \in Iface /\ h.conn \in Conn
  <2>1. CASE target'.args = NONE
    BY <1>1, <2>1, HeadTunnelType DEF Disconnected
  <2>2. CASE target'.args # NONE /\ h = tunnel
    BY <2>2 DEF TypeOK
  <2>3. CASE target'.args # NONE /\ h = SetConnecting(tunnel, target', reason)
    BY <1>1, <2>3, SetConnectingType
  <2> QED BY <1>1, <2>1, <2>2, <2>3, HeadTunnelType
<1>3. tunnel' = h \/ tunnel' = SetConnectError(h)
  BY DEF LoopHead
<1>4. SetConnectError(h) \in Tunnel /\ (h.kind # "connecting" => SetConnectError(h) = h)
      /\ SetConnectError(h).kind = h.kind /\ SetConnectError(h).args = h.args
      /\ SetConnectError(h).iface = h.iface /\ SetConnectError(h).conn = h.conn
      /\ SetConnectError(h).offset = h.offset
  BY <1>2 DEF SetConnectError, Tunnel
<1>5. fresh' \in {h.conn, NONE} /\ pc' = FirstAwait(target', h)
  BY DEF LoopHead
<1>6. h.conn \in Conn \cup {NONE}
  BY <1>2 DEF Tunnel
<1> QED BY <1>1, <1>2, <1>3, <1>4, <1>5, <1>6 DEF TunnelTypeOK

LEMMA TypeInit == Init => TypeOK
<1> SUFFICES ASSUME Init PROVE TypeOK
  OBVIOUS
<1>1. target \in Target /\ target = [args |-> NONE, iface |-> NONE, settings |-> config.settings,
                                      killSwitch |-> config.killSwitch]
  BY DEF Init, Config, Target
<1>2. os \in [firewall : OsConfig, net : OsConfig, reader : Conn \cup {NONE}]
  <2>1. PICK fw \in {Off} \cup {Blocked(s) : s \in Settings} :
          os = [firewall |-> fw, net |-> Off, reader |-> NONE]
    BY DEF Init
  <2>2. Off \in OsConfig /\ \A s \in Settings : Blocked(s) \in OsConfig
    BY DEF Off, Blocked, Plain, OsConfig, OsMode
  <2>3. fw \in OsConfig
    BY <2>2
  <2> QED BY <2>1, <2>2, <2>3
<1>3. tunnel \in Tunnel /\ tunnel = Disconnected /\ Disconnected.kind = "disconnected"
  BY DisconnectedType DEF Init, Disconnected
<1> QED BY <1>1, <1>2, <1>3 DEF Init, TypeOK, Await

LEMMA TypeNext == TypeOK /\ TaskInvariant /\ [Next]_vars => TypeOK'
<1> SUFFICES ASSUME TypeOK, TaskInvariant, [Next]_vars PROVE TypeOK'
  OBVIOUS
<1> USE DEF clientVars, taskVars, connVars
<1>0. /\ DefaultConfig \in Config
      /\ \A a \in Args, b \in BOOLEAN :
            [config EXCEPT !.args = a, !.active = b] \in Config
      /\ \A b \in BOOLEAN : [config EXCEPT !.killSwitch = b] \in Config
      /\ \A s \in Settings : [config EXCEPT !.settings = s] \in Config
  BY DefaultConfigType DEF TypeOK, Config
<1>1. ASSUME Client PROVE TypeOK'
  <2>1. ASSUME NEW c \in Config, NEW b \in BOOLEAN, ChangeConfig(c, b) PROVE TypeOK'
    BY <2>1 DEF TypeOK, ChangeConfig
  <2>2. ASSUME NEW i \in Iface \cup {NONE}, SetNetworkInterface(i) PROVE TypeOK'
    BY <2>2 DEF TypeOK, SetNetworkInterface
  <2>3. config \in Config /\ keyExpired \in BOOLEAN
    BY DEF TypeOK
  <2> QED BY <1>0, <1>1, <2>1, <2>2, <2>3
        DEF Client, SetTunnelTargetState, SetFeatureFlag, ChangeSettings, SetAccountId, RotateKey
<1>2. ASSUME NEW c \in Conn, ConnFails(c) PROVE TypeOK'
  BY <1>2 DEF TypeOK, ConnFails
<1>3. ASSUME NEW c \in Conn, Traffic(c) PROVE TypeOK'
  BY <1>3 DEF TypeOK, Traffic
<1>4. ASSUME KeyExpires PROVE TypeOK'
  BY <1>4 DEF TypeOK, KeyExpires
<1>5. ASSUME LoopHead PROVE TypeOK'
  <2>1. DropUnheld /\ UNCHANGED <<clientVars, os>>
    BY <1>5 DEF LoopHead
  <2>2. pc' \in Await
    BY <1>5, HeadTypes DEF FirstAwait, Await
  <2>3. reason' \in Conn \cup {NONE} /\ keyExpired' \in BOOLEAN
    BY <1>5 DEF LoopHead, TypeOK
  <2>4. selection' \in {"default", "used"} /\ carried' \in Nat
    BY <1>5 DEF LoopHead, TypeOK
  <2> QED BY <1>5, <2>1, <2>2, <2>3, <2>4, HeadTypes, DropUnheldType DEF TypeOK, TunnelTypeOK
<1>6. /\ target.settings \in Settings
      /\ Dummy(target.settings) \in OsConfig
      /\ UnsetConfig(target) \in OsConfig
      /\ \A c \in Conn : Real(c, target.settings) \in OsConfig
  BY UnsetType DEF TypeOK, Target, Dummy, Real, Plain, OsConfig, OsMode
<1>7. ASSUME DummyOk \/ DummyErr PROVE TypeOK'
  <2>1. os' \in [firewall : OsConfig, net : OsConfig, reader : Conn \cup {NONE}]
    BY <1>6, <1>7, OsTypes DEF DummyOk, DummyErr
  <2>2. TunnelTypeOK'
    BY <1>7, ErrorKeepsType DEF DummyOk, DummyErr, TypeOK, TunnelTypeOK
  <2> QED BY <1>7, <2>1, <2>2 DEF DummyOk, DummyErr, Goto, TypeOK, TunnelTypeOK, Await
<1>8. ASSUME ConnectChanged \/ ForwardChanged \/ ForwardFails \/ IdleChanged PROVE TypeOK'
  BY <1>8 DEF ConnectChanged, ForwardChanged, ForwardFails, IdleChanged, Goto, TypeOK, Await, Tunnel
<1>9. ASSUME ConnectErr PROVE TypeOK'
  <2>1. TunnelTypeOK'
    BY <1>9, ErrorKeepsType DEF ConnectErr
  <2> QED BY <1>9, <2>1 DEF ConnectErr, Goto, TypeOK, TunnelTypeOK, Await
<1>10. ASSUME NEW c \in Conn, ConnectOk(c) PROVE TypeOK'
  BY <1>10 DEF ConnectOk, Goto, TypeOK, Await
<1>11. ASSUME RealOk PROVE TypeOK'
  <2>0. fresh \in Conn /\ target.args \in Args /\ target.iface \in Iface
    BY <1>11 DEF RealOk, Goto, TaskInvariant, Working, TypeOK, Target
  <2>1. os' \in [firewall : OsConfig, net : OsConfig, reader : Conn \cup {NONE}]
    BY <1>6, <1>11, <2>0, OsTypes DEF RealOk
  <2>2. TunnelTypeOK'
    BY <1>11, <2>0, SetConnectedType DEF RealOk, TunnelTypeOK
  <2>3. carried' \in Nat
    BY <1>11, <2>0 DEF RealOk, TypeOK
  <2> QED BY <1>11, <2>1, <2>2, <2>3 DEF RealOk, Goto, TypeOK, TunnelTypeOK, Await
<1>12. ASSUME RealErr PROVE TypeOK'
  <2>0. fresh \in Conn
    BY <1>12 DEF RealErr, Goto, TaskInvariant, TypeOK
  <2>1. os' \in [firewall : OsConfig, net : OsConfig, reader : Conn \cup {NONE}]
    BY <1>6, <1>12, <2>0, OsTypes DEF RealErr
  <2>2. TunnelTypeOK'
    BY <1>12, ErrorKeepsType DEF RealErr
  <2> QED BY <1>12, <2>1, <2>2, DropUnheldType DEF RealErr, Goto, TypeOK, TunnelTypeOK, Await
<1>13. ASSUME UnsetOk \/ UnsetErr PROVE TypeOK'
  <2>1. os' \in [firewall : OsConfig, net : OsConfig, reader : Conn \cup {NONE}]
    BY <1>6, <1>13, OsTypes DEF UnsetOk, UnsetErr
  <2> QED BY <1>13, <2>1 DEF UnsetOk, UnsetErr, Goto, TypeOK, Await
<1>14. ASSUME UNCHANGED vars PROVE TypeOK'
  BY <1>14 DEF vars, TypeOK
<1> QED BY <1>1, <1>2, <1>3, <1>4, <1>5, <1>7, <1>8, <1>9, <1>10, <1>11, <1>12, <1>13, <1>14 DEF Next, Task

-----------------------------------------------------------------------------
(* The position of the task *)

LEMMA TaskInit == Init => TaskInvariant
BY DEF Init, TaskInvariant, Working

(* The arm the loop enters fits the snapshot and the published state. *)
LEMMA HeadPosition ==
  ASSUME TypeOK, LoopHead
  PROVE  TaskInvariant'
<1>1. /\ target' \in Target
      /\ pc' = FirstAwait(target', HeadTunnel(target'))
      /\ tunnel'.kind = HeadTunnel(target').kind
      /\ tunnel'.args = HeadTunnel(target').args
      /\ tunnel'.iface = HeadTunnel(target').iface
      /\ tunnel'.conn = HeadTunnel(target').conn
  BY HeadTypes
<1>2. TunnelTypeOK'
  BY HeadTypes
<1>3. /\ target'.args = NONE => tunnel'.kind = "disconnected"
      /\ target'.args # NONE =>
           /\ tunnel'.args = target'.args
           /\ \/ tunnel'.kind = "connecting"
              \/ tunnel'.kind = "connected" /\ tunnel'.iface = target'.iface
  <2>1. CASE target'.args = NONE
    BY <1>1, <2>1, HeadTunnelType DEF Disconnected
  <2>2. CASE target'.args # NONE /\ HeadTunnel(target') = SetConnecting(tunnel, target', reason)
    BY <1>1, <2>2, SetConnectingType
  <2>3. CASE target'.args # NONE /\ HeadTunnel(target') = tunnel /\ tunnel.kind = "connected"
             /\ tunnel.args = target'.args /\ tunnel.iface = target'.iface
    BY <1>1, <2>3
  <2> QED BY <1>1, <2>1, <2>2, <2>3, HeadTunnelType
<1>4. fresh' = IF pc' = "setReal" THEN tunnel'.conn ELSE NONE
  BY <1>1 DEF LoopHead
<1>5. pc' = "setReal" => tunnel'.kind = "connected"
  BY <1>1 DEF FirstAwait
<1>6. pc' \in {"unset", "stuckUnset", "idle", "setReal", "setDummy"}
  BY <1>1 DEF FirstAwait
<1>7. /\ pc' = "unset" => target'.args = NONE
      /\ pc' = "stuckUnset" => target'.args # NONE /\ target'.iface = NONE /\ target'.killSwitch
      /\ pc' \in {"setReal", "setDummy"} => target'.args # NONE /\ target'.iface # NONE
      /\ pc' = "setDummy" => tunnel'.kind # "connected"
  BY <1>1 DEF FirstAwait
<1>8. tunnel'.kind = "connected" => tunnel'.conn # NONE /\ tunnel'.iface # NONE
  BY <1>2, TunnelConstants DEF TunnelTypeOK
<1> QED BY <1>3, <1>4, <1>5, <1>6, <1>7, <1>8 DEF TaskInvariant, Working

LEMMA TaskNext == TypeOK /\ TaskInvariant /\ [Next]_vars => TaskInvariant'
<1> SUFFICES ASSUME TypeOK, TaskInvariant, [Next]_vars PROVE TaskInvariant'
  OBVIOUS
<1>1. ASSUME UNCHANGED <<pc, target, tunnel, fresh>> PROVE TaskInvariant'
  BY <1>1 DEF TaskInvariant
<1>2. CASE Client
  BY <1>1, <1>2 DEF Client, SetTunnelTargetState, SetFeatureFlag, ChangeSettings, SetAccountId,
     ChangeConfig, RotateKey, SetNetworkInterface, taskVars
<1>3. CASE \E c \in Conn : ConnFails(c) \/ Traffic(c)
  BY <1>1, <1>3 DEF ConnFails, Traffic, taskVars
<1>4. CASE KeyExpires
  BY <1>1, <1>4 DEF KeyExpires, taskVars
<1>5. CASE LoopHead
  BY <1>5, HeadPosition
<1>6. CASE DummyOk \/ DummyErr \/ ConnectErr
  BY <1>6, SetErrorType DEF DummyOk, DummyErr, ConnectErr, Goto, TaskInvariant, Working
<1>7. CASE ConnectChanged \/ ForwardChanged \/ ForwardFails \/ IdleChanged
  BY <1>7 DEF ConnectChanged, ForwardChanged, ForwardFails, IdleChanged, Goto, TaskInvariant, Working
<1>8. ASSUME NEW c \in Conn, ConnectOk(c) PROVE TaskInvariant'
  BY <1>8, TunnelConstants DEF ConnectOk, Goto, TaskInvariant, Working
<1>9. CASE RealOk
  <2>1. fresh \in Conn /\ target.args \in Args /\ target.iface \in Iface
    BY <1>9 DEF RealOk, Goto, TaskInvariant, Working, TypeOK, Target
  <2> QED BY <1>9, <2>1, SetConnectedType DEF RealOk, Goto, TaskInvariant, Working
<1>10. CASE RealErr
  BY <1>10 DEF RealErr, Goto, TaskInvariant, Working
<1>11. CASE UnsetOk \/ UnsetErr
  BY <1>11 DEF UnsetOk, UnsetErr, Goto, TaskInvariant, Working
<1>12. CASE UNCHANGED vars
  BY <1>1, <1>12 DEF vars, taskVars
<1> QED BY <1>2, <1>3, <1>4, <1>5, <1>6, <1>7, <1>8, <1>9, <1>10, <1>11, <1>12 DEF Next, Task

(* The types depend on the task's position and the position on the types. *)
LEMMA TypesAndTask == Spec => [](TypeOK /\ TaskInvariant)
<1>1. Init => TypeOK /\ TaskInvariant
  BY TypeInit, TaskInit
<1>2. TypeOK /\ TaskInvariant /\ [Next]_vars => (TypeOK /\ TaskInvariant)'
  BY TypeNext, TaskNext
<1> QED BY <1>1, <1>2, PTL DEF Spec

(* Every variable of the tunnel task has its type in every reachable state. *)
THEOREM TypeCorrect == Spec => []TypeOK
<1> QED BY TypesAndTask, PTL

(* What the tunnel task remembers of its iteration (its target, connection  *)
(* and error) agrees with where it stands and what it has published.        *)
THEOREM TaskCorrect == Spec => []TaskInvariant
<1> QED BY TypesAndTask, PTL

-----------------------------------------------------------------------------
(* Safety *)

LEMMA SafetyInit == Init => Safety
<1> SUFFICES ASSUME Init PROVE Safety
  OBVIOUS
<1> QED BY DEF Init, Safety, ForwardingIsConfigured, NoTrafficAroundTunnel, StatsAreExact,
              SelectionIsReset, Disconnected

LEMMA StatsAtHead ==
  ASSUME Inv, LoopHead
  PROVE  StatsAreExact'
<1>1. /\ target' \in Target
      /\ tunnel'.kind = HeadTunnel(target').kind
      /\ tunnel'.conn = HeadTunnel(target').conn
      /\ tunnel'.offset = HeadTunnel(target').offset
  BY HeadTypes DEF Inv
<1>2. CASE target'.args = NONE
  BY <1>1, <1>2, HeadTunnelType DEF Inv, Disconnected, StatsAreExact
<1>3. CASE target'.args # NONE /\ HeadTunnel(target') = tunnel /\ tunnel.kind = "connected"
  <2>1. tunnel.conn \in Conn /\ bytes'[tunnel.conn] = bytes[tunnel.conn]
    BY <1>1, <1>3 DEF Inv, TypeOK, LoopHead, DropUnheld
  <2>2. carried' = carried
    BY <1>3 DEF LoopHead
  <2> QED BY <1>1, <1>3, <2>1, <2>2 DEF Inv, Safety, StatsAreExact, Stats
<1>4. CASE target'.args # NONE /\ HeadTunnel(target') = SetConnecting(tunnel, target', reason)
  <2>1. tunnel'.kind = "connecting" /\ tunnel'.offset = Stats(tunnel)
    BY <1>1, <1>4, SetConnectingType DEF Inv
  <2>2. carried' = Stats(tunnel)
    BY <1>4 DEF LoopHead, Inv, Safety, StatsAreExact, Stats, TypeOK, Disconnected
  <2> QED BY <2>1, <2>2 DEF StatsAreExact, Stats
<1> QED BY <1>1, <1>2, <1>3, <1>4, HeadTunnelType DEF Inv

LEMMA SafetyAtHead ==
  ASSUME Inv, LoopHead
  PROVE  Safety'
<1>1. /\ target' \in Target
      /\ pc' = FirstAwait(target', HeadTunnel(target'))
      /\ tunnel'.kind = HeadTunnel(target').kind
  BY HeadTypes DEF Inv
<1>2. tunnel'.kind = "connected" => tunnel.kind = "connected" /\ target'.args # NONE
                                     /\ target'.iface # NONE
  <2>1. CASE target'.args = NONE
    <3>1. HeadTunnel(target') = Disconnected
      BY <1>1, <2>1, HeadTunnelType DEF Inv
    <3>2. tunnel'.kind = "disconnected"
      BY <1>1, <3>1 DEF Disconnected
    <3> QED BY <3>2
  <2>2. CASE HeadTunnel(target') = SetConnecting(tunnel, target', reason) /\ target'.args # NONE
    BY <1>1, <2>2, SetConnectingType DEF Inv
  <2>3. CASE target'.args # NONE /\ tunnel.kind = "connected" /\ tunnel.iface = target'.iface
    BY <2>3, TunnelConstants DEF Inv, TypeOK
  <2> QED BY <1>1, <2>1, <2>2, <2>3, HeadTunnelType DEF Inv
<1>3. os' = os /\ pc' \in {"unset", "stuckUnset", "idle", "setReal", "setDummy"}
  BY <1>1 DEF LoopHead, FirstAwait
<1>4. (pc' = "idle" => ~target'.killSwitch) /\ (pc' = "setReal" => tunnel'.kind = "connected")
  BY <1>1 DEF FirstAwait, Target
<1>5. ForwardingIsConfigured'
  BY <1>3 DEF ForwardingIsConfigured
<1>6. NoTrafficAroundTunnel'
  BY <1>2, <1>3, <1>4 DEF NoTrafficAroundTunnel, Captured, Inv, Safety
<1>7. SelectionIsReset'
  BY <1>2, <1>4 DEF SelectionIsReset, Inv, Safety, LoopHead
<1> QED BY <1>5, <1>6, <1>7, StatsAtHead DEF Safety

LEMMA SafetyNext == Inv /\ [Next]_vars => Safety'
<1> SUFFICES ASSUME Inv, [Next]_vars PROVE Safety'
  OBVIOUS
<1> USE DEF Inv
<1>0. ASSUME UNCHANGED <<taskVars, os, connVars, carried>> PROVE Safety'
  BY <1>0 DEF taskVars, connVars, Safety, ForwardingIsConfigured, NoTrafficAroundTunnel, Captured,
     StatsAreExact, Stats, SelectionIsReset
<1>1. CASE Client
  BY <1>0, <1>1 DEF Client, SetTunnelTargetState, SetFeatureFlag, ChangeSettings, SetAccountId,
     ChangeConfig, RotateKey, SetNetworkInterface
<1>2. ASSUME UNCHANGED <<pc, target, tunnel, selection, os>>, StatsAreExact' PROVE Safety'
  BY <1>2 DEF Safety, ForwardingIsConfigured, NoTrafficAroundTunnel, Captured, SelectionIsReset
<1>3. ASSUME NEW c \in Conn, ConnFails(c) PROVE Safety'
  BY <1>2, <1>3 DEF ConnFails, Safety, StatsAreExact, Stats, taskVars
<1>4. ASSUME NEW c \in Conn, Traffic(c) PROVE Safety'
  <2>1. StatsAreExact'
    <3>1. tunnel' = tunnel /\ (tunnel.kind # "connected" => tunnel.kind = "disconnected" \/ tunnel.conn # c)
      BY <1>4, TunnelConstants DEF Traffic, TypeOK, Tunnel, taskVars
    <3>2. CASE tunnel.kind = "connected" /\ tunnel.conn = c
      BY <1>4, <3>1, <3>2 DEF Traffic, Safety, StatsAreExact, Stats, TypeOK, Tunnel
    <3>3. CASE tunnel.kind = "connected" /\ tunnel.conn # c
      <4>1. bytes'[tunnel.conn] = bytes[tunnel.conn] /\ carried' = carried
        BY <1>4, <3>3 DEF Traffic, TypeOK
      <4> QED BY <3>1, <3>3, <4>1 DEF Safety, StatsAreExact, Stats
    <3>4. CASE tunnel.kind = "connecting"
      BY <1>4, <3>1, <3>4 DEF Traffic, Safety, StatsAreExact, Stats
    <3> QED BY <3>1, <3>2, <3>3, <3>4 DEF TypeOK, Tunnel, StatsAreExact
  <2> QED BY <1>2, <1>4, <2>1 DEF Traffic, taskVars
<1>5. CASE KeyExpires
  BY <1>2, <1>5 DEF KeyExpires, taskVars, connVars, Safety, StatsAreExact, Stats
<1>6. CASE LoopHead
  BY <1>6, SafetyAtHead
<1>7. /\ target.settings \in Settings
      /\ Dummy(target.settings) \in OsConfig /\ Dummy(target.settings).mode # "off"
      /\ UnsetConfig(target) \in OsConfig
      /\ target.killSwitch => UnsetConfig(target) = Blocked(target.settings)
                              /\ UnsetConfig(target).mode # "off"
      /\ \A c \in Conn : /\ Real(c, target.settings) \in OsConfig
                         /\ Real(c, target.settings).mode # "off"
                         /\ Real(c, target.settings).conn = c
  BY UnsetType DEF TypeOK, Target, Dummy, Real, Blocked, UnsetConfig, Plain, OsConfig, OsMode
<1>8. ASSUME tunnel' = SetConnectError(tunnel), UNCHANGED <<bytes, carried>> PROVE StatsAreExact'
  BY <1>8, SetErrorType DEF StatsAreExact, Stats, Safety
<1>9. CASE DummyOk
  <2>1. os'.firewall = Dummy(target.settings)
    BY <1>7, <1>9, OsTypes DEF DummyOk
  <2> QED BY <1>7, <1>9, <2>1 DEF DummyOk, Goto, Safety, ForwardingIsConfigured, connVars,
        NoTrafficAroundTunnel, Captured, StatsAreExact, Stats, SelectionIsReset, TaskInvariant, Working
<1>10. CASE DummyErr
  BY <1>8, <1>10, SetErrorType DEF DummyErr, Goto, Safety, ForwardingIsConfigured, connVars,
     NoTrafficAroundTunnel, SelectionIsReset, TaskInvariant
<1>11. CASE ConnectErr
  BY <1>8, <1>11, SetErrorType DEF ConnectErr, Goto, Safety, ForwardingIsConfigured, connVars,
     NoTrafficAroundTunnel, SelectionIsReset, TaskInvariant
<1>12. CASE ConnectChanged
  BY <1>12 DEF ConnectChanged, Goto, Safety, ForwardingIsConfigured, connVars,
     NoTrafficAroundTunnel, Captured, StatsAreExact, Stats, SelectionIsReset, TaskInvariant
<1>13. CASE ForwardChanged \/ ForwardFails \/ IdleChanged
  BY <1>13 DEF ForwardChanged, ForwardFails, IdleChanged, Goto, Safety, ForwardingIsConfigured, connVars,
     NoTrafficAroundTunnel, Captured, StatsAreExact, Stats, SelectionIsReset
<1>14. ASSUME NEW c \in Conn, ConnectOk(c) PROVE Safety'
  <2>1. StatsAreExact'
    BY <1>14 DEF ConnectOk, Goto, Safety, StatsAreExact, Stats, TypeOK, TaskInvariant
  <2> QED BY <1>14, <2>1 DEF ConnectOk, Goto, Safety, ForwardingIsConfigured,
        NoTrafficAroundTunnel, Captured, SelectionIsReset
<1>15. CASE RealOk
  <2>1. fresh \in Conn /\ target.args \in Args /\ target.iface \in Iface
    BY <1>15 DEF RealOk, Goto, TaskInvariant, Working, TypeOK, Target
  <2>2. /\ os'.firewall = Real(fresh, target.settings) /\ os'.net = os'.firewall
        /\ os'.reader = fresh
    BY <1>7, <1>15, <2>1, OsTypes DEF RealOk
  <2>3. /\ tunnel'.kind = "connected" /\ tunnel'.args = target.args
        /\ tunnel'.iface = target.iface /\ tunnel'.conn = fresh
        /\ tunnel'.offset = IF tunnel.kind = "connected" /\ tunnel.conn = fresh
                            THEN tunnel.offset ELSE Stats(tunnel)
    BY <1>15, <2>1, SetConnectedType DEF RealOk
  <2>4. StatsAreExact'
    <3>1. CASE tunnel.kind = "connected" /\ tunnel.conn = fresh
      BY <1>15, <2>1, <2>3, <3>1 DEF RealOk, connVars, Safety, StatsAreExact, Stats
    <3>2. CASE tunnel.kind = "connecting" /\ tunnel.conn = NONE
      <4>1. tunnel.offset = carried /\ tunnel'.offset = carried
        BY <2>3, <3>2 DEF Safety, StatsAreExact, Stats
      <4>2. carried' = carried + bytes[fresh] /\ bytes' = bytes
        BY <1>15, <2>1, <3>2, TunnelConstants DEF RealOk, connVars
      <4> QED BY <2>3, <4>1, <4>2 DEF StatsAreExact, Stats
    <3> QED BY <1>15, <3>1, <3>2 DEF RealOk, Goto, TaskInvariant, TypeOK
  <2> QED BY <1>7, <1>15, <2>1, <2>2, <2>3, <2>4 DEF RealOk, Goto, Safety, ForwardingIsConfigured,
        NoTrafficAroundTunnel, Captured, SelectionIsReset
<1>16. CASE RealErr
  <2>1. fresh \in Conn
    BY <1>16 DEF RealErr, Goto, TaskInvariant, TypeOK
  <2>2. os'.firewall.mode # "off"
    BY <1>7, <1>16, <2>1, OsTypes DEF RealErr, Goto, Safety, NoTrafficAroundTunnel, Captured
  <2>3. StatsAreExact'
    <3>1. tunnel.kind = "connected" => bytes'[tunnel.conn] = bytes[tunnel.conn]
      BY <1>16, SetErrorType DEF RealErr, DropUnheld, TypeOK
    <3> QED BY <1>16, <3>1, SetErrorType DEF RealErr, Safety, StatsAreExact, Stats
  <2> QED BY <1>16, <2>2, <2>3, SetErrorType DEF RealErr, Goto, Safety, ForwardingIsConfigured,
        NoTrafficAroundTunnel, Captured, SelectionIsReset
<1>17. CASE UnsetOk
  <2>1. os'.firewall = UnsetConfig(target)
    BY <1>7, <1>17, OsTypes DEF UnsetOk
  <2> QED BY <1>7, <1>17, <2>1 DEF UnsetOk, Goto, Safety, ForwardingIsConfigured, connVars,
        NoTrafficAroundTunnel, StatsAreExact, Stats, SelectionIsReset, TaskInvariant
<1>18. CASE UnsetErr
  BY <1>18 DEF UnsetErr, Goto, Safety, ForwardingIsConfigured, connVars,
     NoTrafficAroundTunnel, StatsAreExact, Stats, SelectionIsReset, TaskInvariant
<1>19. CASE UNCHANGED vars
  BY <1>0, <1>19 DEF vars
<1> QED BY <1>1, <1>3, <1>4, <1>5, <1>6, <1>9, <1>10, <1>11, <1>12, <1>13, <1>14, <1>15, <1>16,
      <1>17, <1>18, <1>19 DEF Next, Task

LEMMA InvInit == Init => Inv
BY TypeInit, TaskInit, SafetyInit DEF Inv

LEMMA InvNext == Inv /\ [Next]_vars => Inv'
BY TypeNext, TaskNext, SafetyNext DEF Inv

LEMMA SafetyHolds == Spec => []Safety
<1>1. Inv => Safety
  BY DEF Inv
<1> QED BY <1>1, InvInit, InvNext, PTL DEF Spec

(* Packets are forwarded only with the host configured for the connection   *)
(* they are forwarded to.                                                   *)
THEOREM ForwardingCorrect == Spec => []ForwardingIsConfigured
<1>1. Safety => ForwardingIsConfigured
  BY DEF Safety
<1> QED BY <1>1, SafetyHolds, PTL

(* Traffic is captured whenever the client is not disconnected on purpose,  *)
(* in every reachable state.                                                *)
THEOREM SafetyCorrect == Spec => []NoTrafficAroundTunnel
<1>1. Safety => NoTrafficAroundTunnel
  BY DEF Safety
<1> QED BY <1>1, SafetyHolds, PTL

(* No byte of a connection is lost from the totals or counted twice.        *)
THEOREM StatsCorrect == Spec => []StatsAreExact
<1>1. Safety => StatsAreExact
  BY DEF Safety
<1> QED BY <1>1, SafetyHolds, PTL

-----------------------------------------------------------------------------
(* Refinement *)

Status == [kind |-> tunnel.kind, args |-> tunnel.args, conn |-> tunnel.conn]

LEMMA SessionStart == Init => Session!SessionInit
BY DEF Init, Session!SessionInit, Session!Closed, Disconnected

(* A step that shows the user nothing new captures traffic, keeps what the  *)
(* firewall did, or lets traffic out while disconnected.                    *)
LEMMA QuietStep ==
  ASSUME Status' = Status,
         Captured' = Captured \/ Captured' \/ tunnel.kind = "disconnected"
  PROVE  [Session!SessionNext]_(Session!session)
<1>1. CASE Captured' = Captured
  BY <1>1 DEF Session!session, Status
<1>2. CASE Captured'
  BY <1>2 DEF Session!SessionNext, Session!Capture, Status
<1>3. CASE ~Captured' /\ tunnel.kind = "disconnected"
  BY <1>3 DEF Session!SessionNext, Session!Release, Status
<1> QED BY <1>1, <1>2, <1>3

LEMMA HeadStep ==
  ASSUME Inv, LoopHead
  PROVE  [Session!SessionNext]_(Session!session)
<1>1. /\ target' \in Target /\ Captured' = Captured
      /\ tunnel'.kind = HeadTunnel(target').kind
      /\ tunnel'.args = HeadTunnel(target').args
      /\ tunnel'.conn = HeadTunnel(target').conn
  BY HeadTypes DEF Inv, LoopHead, Captured
<1>2. CASE target'.args = NONE
  <2>1. HeadTunnel(target') = Disconnected
    BY <1>1, <1>2, HeadTunnelType DEF Inv
  <2>2. Status' = Session!Closed
    BY <1>1, <2>1 DEF Status, Session!Closed, Disconnected
  <2> QED BY <1>1, <2>2 DEF Status, Session!SessionNext, Session!Close
<1>3. CASE target'.args # NONE /\ HeadTunnel(target') = tunnel
  BY <1>1, <1>3, QuietStep DEF Status
<1>4. CASE target'.args # NONE /\ HeadTunnel(target') = SetConnecting(tunnel, target', reason)
  <2>1. tunnel'.args \in Args /\ tunnel'.kind = "connecting" /\ tunnel'.conn = NONE
    BY <1>1, <1>4, SetConnectingType DEF Inv
  <2>2. Status' = Session!Connecting(tunnel'.args)
    BY <2>1 DEF Status, Session!Connecting
  <2> QED BY <1>1, <2>1, <2>2 DEF Status, Session!SessionNext, Session!Ask
<1> QED BY <1>1, <1>2, <1>3, <1>4, HeadTunnelType DEF Inv

LEMMA ConnectedStep ==
  ASSUME Inv, RealOk
  PROVE  [Session!SessionNext]_(Session!session)
<1>1. /\ fresh \in Conn /\ target.args \in Args /\ target.iface \in Iface
      /\ target.settings \in Settings /\ tunnel.args = target.args /\ Captured
  BY DEF RealOk, Goto, Inv, TaskInvariant, Working, TypeOK, Target, Safety, NoTrafficAroundTunnel
<1>2. Captured'
  BY <1>1, ConfigTypes, OsTypes DEF RealOk, Captured, Inv
<1>3. tunnel'.kind = "connected" /\ tunnel'.args = tunnel.args /\ tunnel'.conn = fresh
  BY <1>1, SetConnectedType DEF RealOk, Inv
<1>4. CASE tunnel.kind = "connected" /\ tunnel.conn = fresh
  BY <1>2, <1>3, <1>4, QuietStep DEF Status
<1>5. CASE tunnel.kind = "connecting"
  <2>1. Status' = Session!Connected(Status.args, fresh)
    BY <1>3 DEF Status, Session!Connected
  <2> QED BY <1>1, <1>2, <1>5, <2>1 DEF Status, Session!SessionNext, Session!Establish
<1> QED BY <1>4, <1>5 DEF RealOk, Goto, Inv, TaskInvariant

LEMMA SessionStep == Inv /\ [Next]_vars => [Session!SessionNext]_(Session!session)
<1> SUFFICES ASSUME Inv, [Next]_vars PROVE [Session!SessionNext]_(Session!session)
  OBVIOUS
<1>0. ASSUME UNCHANGED <<tunnel, os>> PROVE [Session!SessionNext]_(Session!session)
  BY <1>0 DEF Session!session, Captured
<1>1. CASE Client
  BY <1>0, <1>1 DEF Client, SetTunnelTargetState, SetFeatureFlag, ChangeSettings, SetAccountId,
     ChangeConfig, RotateKey, SetNetworkInterface, taskVars
<1>2. CASE \E c \in Conn : ConnFails(c) \/ Traffic(c)
  BY <1>0, <1>2 DEF ConnFails, Traffic, taskVars
<1>3. CASE KeyExpires
  BY <1>0, <1>3 DEF KeyExpires, taskVars
<1>4. CASE LoopHead
  BY <1>4, HeadStep
<1>5. target.settings \in Settings /\ target \in Target
  BY DEF Inv, TypeOK, Target
<1>6. CASE DummyOk
  <2>1. Captured'
    <3>1. Dummy(target.settings) \in OsConfig /\ Dummy(target.settings).mode # "off"
      BY <1>5 DEF Dummy, Plain, OsConfig, OsMode
    <3> QED BY <1>6, <3>1, OsTypes DEF DummyOk, Captured, Inv
  <2> QED BY <1>6, <2>1, QuietStep DEF DummyOk, Status
<1>7. CASE DummyErr
  <2>1. os'.firewall = os.firewall \/ Captured'
    <3>1. Dummy(target.settings) \in OsConfig /\ Dummy(target.settings).mode # "off"
      BY <1>5 DEF Dummy, Plain, OsConfig, OsMode
    <3> QED BY <1>7, <3>1, OsTypes DEF DummyErr, Captured, Inv
  <2>2. Status' = Status
    BY <1>7, SetErrorType DEF DummyErr, Status, Inv
  <2> QED BY <2>1, <2>2, QuietStep DEF Captured
<1>8. CASE ConnectErr
  BY <1>8, SetErrorType, QuietStep DEF ConnectErr, Status, Inv, Captured
<1>9. CASE ConnectChanged \/ ForwardChanged \/ ForwardFails \/ IdleChanged
  BY <1>0, <1>9 DEF ConnectChanged, ForwardChanged, ForwardFails, IdleChanged
<1>10. ASSUME NEW c \in Conn, ConnectOk(c) PROVE [Session!SessionNext]_(Session!session)
  BY <1>0, <1>10 DEF ConnectOk
<1>11. CASE RealOk
  BY <1>11, ConnectedStep
<1>12. CASE RealErr
  <2>1. fresh \in Conn /\ Captured
    BY <1>12 DEF RealErr, Goto, Inv, TaskInvariant, TypeOK, Safety, NoTrafficAroundTunnel
  <2>2. Real(fresh, target.settings) \in OsConfig /\ Real(fresh, target.settings).mode # "off"
    BY <1>5, <2>1 DEF Real, OsConfig, OsMode
  <2>3. Captured'
    BY <1>12, <2>1, <2>2, OsTypes DEF RealErr, Captured, Inv
  <2>4. Status' = Status
    BY <1>12, SetErrorType DEF RealErr, Status, Inv
  <2> QED BY <2>3, <2>4, QuietStep
<1>13. CASE UnsetOk \/ UnsetErr
  <2>1. Status' = Status
    BY <1>13 DEF UnsetOk, UnsetErr, Status
  <2>2. CASE pc = "unset"
    BY <2>1, <2>2, QuietStep DEF Inv, TaskInvariant
  <2>3. CASE pc = "stuckUnset"
    <3>1. UnsetConfig(target) \in OsConfig /\ UnsetConfig(target).mode # "off"
      BY <1>5, <2>3 DEF UnsetConfig, Blocked, Plain, OsConfig, OsMode, Inv, TaskInvariant
    <3>2. os'.firewall = os.firewall \/ os'.firewall = UnsetConfig(target)
      BY <1>13, <3>1, OsTypes DEF UnsetOk, UnsetErr, Inv
    <3> QED BY <2>1, <3>1, <3>2, QuietStep DEF Captured
  <2> QED BY <1>13, <2>2, <2>3 DEF UnsetOk, UnsetErr, Goto
<1>14. CASE UNCHANGED vars
  BY <1>0, <1>14 DEF vars, taskVars
<1> QED BY <1>1, <1>2, <1>3, <1>4, <1>6, <1>7, <1>8, <1>9, <1>10, <1>11, <1>12, <1>13, <1>14
     DEF Next, Task

(* The tunnel task implements VpnSession: whatever the commands, failures   *)
(* and interleavings, what it publishes and what the firewall lets through  *)
(* change only as VpnSession allows.                                        *)
THEOREM SessionImplemented == Spec => ImplementsSession
<1> QED BY InvInit, InvNext, SessionStart, SessionStep, PTL
        DEF Spec, ImplementsSession, Session!SessionSpec

(* The tunnel task never replaces the key of a connection it leaves         *)
(* published.                                                               *)
THEOREM RotationCorrect == Spec => RotatesOnlyWhenLeaving
<1>1. ASSUME Inv, Task, keyExpired, ~keyExpired', tunnel.kind = "connected"
      PROVE  tunnel' = Disconnected
  <2>1. LoopHead \/ ConnectErr
    BY <1>1 DEF Task, DummyOk, DummyErr, ConnectChanged, ForwardChanged, ForwardFails, IdleChanged,
       ConnectOk, RealOk, RealErr, UnsetOk, UnsetErr
  <2>2. LoopHead
    BY <1>1, <2>1 DEF ConnectErr, Goto, Inv, TaskInvariant
  <2>3. target'.args = NONE /\ target' \in Target
    BY <1>1, <2>2, HeadTypes DEF LoopHead, Leaving, Inv
  <2>4. HeadTunnel(target') = Disconnected
    BY <1>1, <2>3, HeadTunnelType DEF Inv
  <2> QED BY <2>2, <2>3, <2>4 DEF LoopHead, FirstAwait
<1> QED BY <1>1, InvInit, InvNext, PTL DEF Spec, RotatesOnlyWhenLeaving

=============================================================================
