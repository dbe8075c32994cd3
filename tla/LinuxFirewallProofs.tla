------------------------- MODULE LinuxFirewallProofs -------------------------
(***************************************************************************)
(* Proofs about LinuxFirewall for every set of sockets.                    *)
(***************************************************************************)
EXTENDS LinuxFirewall, FiniteSetTheorems, TLAPS

(* Without a loss, the stored socket, the table's owner and the one the     *)
(* process holds are one and the same.                                      *)
OneSocket ==
  /\ table.owner = NONE => table.rules = "open"
  /\ ~lost =>
       /\ table.owner \in store \cup {NONE}
       /\ store = {} \/ \E s \in Socket : store = {s}
       /\ pc = "start" => entries = [s \in Socket |-> IF s \in store THEN "here" ELSE "absent"]
       /\ pc = "store" => store = {} /\ entries = NoEntries
       /\ pc \in {"setup", "protect", "protected", "run", "apply"} => store = {held}

(* The user was promised a block, by a confirmation or by the boot. *)
Promised == duty \/ (vigil /\ gate = "ready")

(* A promise is backed by the file, by the manager's memory of it and by    *)
(* the rules that are being installed.                                      *)
PromiseIsBacked ==
  /\ vigil => file \in {"on", "bad"} /\ gate # "failed"
  /\ network => gate # "closed"
  /\ pc = "protected" => file # "bad" /\ (file = "on" => duty)
  /\ duty => file = "on"
  /\ Promised /\ ~lost => Blocked
  /\ Promised =>
       /\ file \in {"on", "bad"}
       /\ pc \in {"run", "apply"} => memory
       /\ pc = "apply" => request # "open"

(* What the status says, from the step that sets it on. *)
StatusIsBacked ==
  /\ pc \in {"start", "store", "setup"} => status = "unknown"
  /\ pc = "apply" => status = "applying"
  /\ status = "inactive" => pc = "run" /\ ~Blocked
  /\ status = "blocking" =>
       pc \in {"protect", "protected", "run"} /\ Blocked /\ table.owner = held

(* Readiness comes with the strict block installed. *)
ReadyIsProtected ==
  pc = "protected" /\ file = "on" => table.rules = "block" /\ table.owner = held

Inv == TypeOK /\ OneSocket /\ PromiseIsBacked /\ StatusIsBacked /\ ReadyIsProtected

-----------------------------------------------------------------------------
(* Lemmas *)

LEMMA PolicyTypes ==
  ASSUME NEW lan \in BOOLEAN
  PROVE  /\ Engage(lan) \in Rules /\ Engage(lan) # "open"
         /\ BootRules = "block" /\ BootRules \in Rules
         /\ DisconnectedPolicy(memory, lan) \in Rules
         /\ memory = TRUE => DisconnectedPolicy(memory, lan) # "open"
BY DEF Engage, Rules, BootRules, DisconnectedPolicy

LEMMA SurvivorType ==
  ASSUME TypeOK, entries' \in [Socket -> {"absent", "here", "handed"}]
  PROVE  /\ Survivor(table) \in [owner : Socket \cup {NONE}, rules : Rules]
         /\ Survivor(table) \in {table, NoTable}
BY DEF TypeOK, Survivor, NoTable, Rules

LEMMA InstalledType ==
  ASSUME TypeOK, held \in Socket, NEW r \in Rules
  PROVE  /\ NotAcknowledged(r) \/ Installed(r) =>
              table' \in [owner : Socket \cup {NONE}, rules : Rules]
         /\ Installed(r) => table'.owner = held /\ table'.rules = r
BY DEF TypeOK, Installed, NotAcknowledged

-----------------------------------------------------------------------------
(* Type correctness *)

LEMMA TypeInit == Init => TypeOK
<1> SUFFICES ASSUME Init PROVE TypeOK
  OBVIOUS
<1>1. vigil \in BOOLEAN
  BY DEF Init
<1> QED BY <1>1 DEF Init, TypeOK, Preference, NoEntries, NoTable, Rules, Holding, Alive

LEMMA TypeNext == TypeOK /\ [Next]_vars => TypeOK'
<1> SUFFICES ASSUME TypeOK, [Next]_vars PROVE TypeOK'
  OBVIOUS
<1> USE DEF Holding, Alive
<1>1. CASE Start
  BY <1>1 DEF TypeOK, Start, bootVars, historyVars
<1>2. CASE Adopt
  <2>1. held' \in Socket
    BY <1>2 DEF Adopt, Listed
  <2>2. entries' \in [Socket -> {"absent", "here", "handed"}]
    BY <1>2, <2>1 DEF Adopt, TypeOK
  <2> QED BY <1>2, <2>1, <2>2 DEF TypeOK, Adopt, bootVars, historyVars
<1>3. ASSUME NEW s \in Socket, Create(s) PROVE TypeOK'
  <2>1. entries' \in [Socket -> {"absent", "here", "handed"}]
    BY <1>3 DEF Create, NoEntries
  <2>2. table' \in [owner : Socket \cup {NONE}, rules : Rules]
    BY <1>3, <2>1, SurvivorType DEF Create
  <2> QED BY <1>3, <2>1, <2>2 DEF TypeOK, Create, bootVars
<1>4. CASE Store
  BY <1>4 DEF TypeOK, Store, bootVars
<1>5. CASE SetupOk \/ ProtectOff
  BY <1>5 DEF TypeOK, SetupOk, ProtectOff, bootVars, historyVars
<1>6. CASE SetupErr
  <2>1. entries' \in [Socket -> {"absent", "here", "handed"}]
    BY <1>6 DEF SetupErr, Gone, NoEntries, TypeOK
  <2>2. table' \in [owner : Socket \cup {NONE}, rules : Rules]
    BY <1>6, <2>1, SurvivorType DEF SetupErr
  <2> QED BY <1>6, <2>1, <2>2 DEF TypeOK, SetupErr, Gone, Rules
<1>7. CASE ProtectOk \/ ProtectErr
  <2>1. held \in Socket
    BY <1>7 DEF ProtectOk, ProtectErr, TypeOK
  <2>2. table' \in [owner : Socket \cup {NONE}, rules : Rules]
    BY <1>7, <2>1, InstalledType, PolicyTypes DEF ProtectOk, ProtectErr
  <2> QED BY <1>7, <2>1, <2>2 DEF TypeOK, ProtectOk, ProtectErr, processVars, bootVars, historyVars
<1>8. CASE Ready
  BY <1>8 DEF TypeOK, Ready, ReadyAt, historyVars
<1>9. ASSUME NEW b \in BOOLEAN, SetKillSwitch(b) PROVE TypeOK'
  BY <1>9 DEF TypeOK, SetKillSwitch, Preference, processVars, bootVars
<1>10. ASSUME NEW lan \in BOOLEAN, SetOsNetworkConfig(lan) \/ UnsetOsNetworkConfig(lan)
       PROVE TypeOK'
  BY <1>10, PolicyTypes DEF TypeOK, SetOsNetworkConfig, UnsetOsNetworkConfig, ApplyFirewall,
     bootVars, historyVars
<1>11. CASE ApplyOk \/ ApplyErr
  <2>1. held \in Socket /\ request \in Rules
    BY <1>11 DEF ApplyOk, ApplyErr, TypeOK
  <2>2. table' \in [owner : Socket \cup {NONE}, rules : Rules]
    BY <1>11, <2>1, InstalledType DEF ApplyOk, ApplyErr
  <2> QED BY <1>11, <2>1, <2>2 DEF TypeOK, ApplyOk, ApplyErr, StatusAfterError, bootVars, historyVars
<1>12. CASE Crash \/ Stop
  <2>1. entries' \in [Socket -> {"absent", "here", "handed"}]
    BY <1>12 DEF Crash, Stop, Gone, NoEntries
  <2>2. table' \in [owner : Socket \cup {NONE}, rules : Rules]
    BY <1>12, <2>1, SurvivorType DEF Crash, Stop
  <2> QED BY <1>12, <2>1, <2>2 DEF TypeOK, Crash, Stop, Gone, Rules
<1>13. CASE Reboot
  <2>1. vigil' \in BOOLEAN
    BY <1>13 DEF Reboot
  <2> QED BY <1>13, <2>1 DEF TypeOK, Reboot, NoEntries, NoTable, Rules
<1>14. CASE NetworkUp
  BY <1>14 DEF TypeOK, NetworkUp, processVars, historyVars
<1>15. ASSUME NEW p \in Preference, EditFile(p) PROVE TypeOK'
  BY <1>15 DEF TypeOK, EditFile, processVars, bootVars
<1>16. ASSUME NEW s \in Socket, StoreDrops(s) PROVE TypeOK'
  BY <1>16 DEF TypeOK, StoreDrops, processVars, bootVars, NoTable, Rules
<1>17. CASE UNCHANGED vars
  BY <1>17 DEF TypeOK, vars, processVars, bootVars, historyVars
<1> QED BY <1>1, <1>2, <1>3, <1>4, <1>5, <1>6, <1>7, <1>8, <1>9, <1>10, <1>11, <1>12, <1>13,
      <1>14, <1>15, <1>16, <1>17 DEF Next, Service, Disturbance

-----------------------------------------------------------------------------
(* The socket *)

(* Without a loss a socket is created only when none was stored. *)
LEMMA CreatesFirst ==
  ASSUME OneSocket, NEW s \in Socket, Create(s), ~lost
  PROVE  store = {} /\ table.owner = NONE
<1>1. ASSUME NEW o \in Socket, store = {o} PROVE FALSE
  <2>1. entries = [n \in Socket |-> IF n = o THEN "here" ELSE "absent"]
    BY <1>1 DEF Create, OneSocket
  <2>2. Listed = {o}
    BY <2>1 DEF Listed
  <2>3. Cardinality(Listed) = 1
    BY <2>2, FS_Singleton
  <2> QED BY <2>1, <2>2, <2>3 DEF Create, Take
<1> QED BY <1>1 DEF OneSocket

LEMMA SocketNext == TypeOK /\ OneSocket /\ [Next]_vars => OneSocket'
<1> SUFFICES ASSUME TypeOK, OneSocket, [Next]_vars PROVE OneSocket'
  OBVIOUS
<1>1. CASE Start
  BY <1>1 DEF OneSocket, Start, historyVars
<1>2. CASE Adopt
  <2>1. held' \in Socket /\ entries[held'] # "absent"
    BY <1>2 DEF Adopt, Listed
  <2>2. ~lost => store = {held'}
    BY <1>2, <2>1 DEF Adopt, OneSocket, TypeOK
  <2> QED BY <1>2, <2>2 DEF OneSocket, Adopt, historyVars
<1>3. ASSUME NEW s \in Socket, Create(s) PROVE OneSocket'
  <2>1. table' \in {table, NoTable}
    BY <1>3, SurvivorType DEF Create, NoEntries
  <2>2. ~lost' => ~lost /\ store = {} /\ store' = {} /\ table.owner = NONE
    BY <1>3, CreatesFirst DEF Create
  <2> QED BY <1>3, <2>1, <2>2 DEF OneSocket, Create, NoTable
<1>4. CASE Store
  <2>1. held \in Socket /\ pc' = "setup" /\ held' = held /\ table' = table
    BY <1>4 DEF Store, TypeOK, Holding
  <2>2. ~lost' => ~lost /\ store = {} /\ held \in store' /\ store' = {held}
    BY <1>4 DEF Store, OneSocket
  <2> QED BY <2>1, <2>2 DEF OneSocket
<1>5. CASE SetupOk \/ ProtectOff
  BY <1>5 DEF OneSocket, SetupOk, ProtectOff, historyVars
<1>6. CASE SetupErr
  <2>1. table' \in {table, NoTable} /\ lost'
    BY <1>6, SurvivorType DEF SetupErr, Gone, NoEntries, TypeOK
  <2> QED BY <2>1 DEF OneSocket, NoTable
<1>7. CASE ProtectOk \/ ProtectErr
  <2>1. held \in Socket /\ pc = "protect"
    BY <1>7 DEF ProtectOk, ProtectErr, TypeOK, Holding
  <2>2. table' = table \/ table'.owner = held
    BY <1>7, <2>1, InstalledType, PolicyTypes DEF ProtectOk, ProtectErr, NotAcknowledged
  <2>3. pc' \in {"protect", "protected"} /\ UNCHANGED <<store, held, lost>>
    BY <1>7, <2>1 DEF ProtectOk, ProtectErr, processVars, historyVars
  <2>4. held # NONE
    BY <2>1, SocketConstants
  <2> QED BY <2>1, <2>2, <2>3, <2>4 DEF OneSocket
<1>8. CASE Ready
  BY <1>8 DEF OneSocket, Ready, ReadyAt, historyVars
<1>9. ASSUME NEW b \in BOOLEAN, SetKillSwitch(b) PROVE OneSocket'
  BY <1>9 DEF OneSocket, SetKillSwitch, processVars
<1>10. ASSUME NEW lan \in BOOLEAN, SetOsNetworkConfig(lan) \/ UnsetOsNetworkConfig(lan)
       PROVE OneSocket'
  BY <1>10 DEF OneSocket, SetOsNetworkConfig, UnsetOsNetworkConfig, ApplyFirewall, historyVars
<1>11. CASE ApplyOk \/ ApplyErr
  <2>1. held \in Socket /\ request \in Rules /\ pc = "apply"
    BY <1>11 DEF ApplyOk, ApplyErr, TypeOK, Holding
  <2>2. table' = table \/ table'.owner = held
    BY <1>11, <2>1, InstalledType DEF ApplyOk, ApplyErr, NotAcknowledged
  <2>3. pc' = "run" /\ UNCHANGED <<store, held, lost>>
    BY <1>11 DEF ApplyOk, ApplyErr, historyVars
  <2>4. held # NONE
    BY <2>1, SocketConstants
  <2> QED BY <2>1, <2>2, <2>3, <2>4 DEF OneSocket
<1>12. CASE Crash
  <2>1. table' \in {table, NoTable}
    BY <1>12, SurvivorType DEF Crash, Gone, NoEntries
  <2> QED BY <1>12, <2>1 DEF OneSocket, Crash, NoTable
<1>13. CASE Stop
  <2>1. /\ table' = Survivor(table) /\ store' = {} /\ held' = NONE
        /\ entries' = NoEntries /\ pc' = "stopped"
    BY <1>13 DEF Stop, Gone
  <2>2. table'.owner = NONE /\ table'.rules = "open"
    <3>1. table.owner \notin store' /\ ~(table.owner \in Socket /\ entries'[table.owner] = "here")
      BY <2>1 DEF NoEntries
    <3>2. (table' = table /\ table.owner = NONE) \/ table' = NoTable
      BY <2>1, <3>1 DEF Survivor
    <3> QED BY <3>2 DEF NoTable, OneSocket
  <2> QED BY <2>1, <2>2 DEF OneSocket
<1>14. CASE Reboot
  BY <1>14 DEF OneSocket, Reboot, NoTable
<1>15. CASE NetworkUp
  BY <1>15 DEF OneSocket, NetworkUp, processVars, historyVars
<1>16. ASSUME NEW p \in Preference, EditFile(p) PROVE OneSocket'
  BY <1>16 DEF OneSocket, EditFile, processVars
<1>17. ASSUME NEW s \in Socket, StoreDrops(s) PROVE OneSocket'
  BY <1>17 DEF OneSocket, StoreDrops, NoTable
<1>18. CASE UNCHANGED vars
  BY <1>18 DEF OneSocket, vars, processVars, historyVars
<1> QED BY <1>1, <1>2, <1>3, <1>4, <1>5, <1>6, <1>7, <1>8, <1>9, <1>10, <1>11, <1>12, <1>13,
      <1>14, <1>15, <1>16, <1>17, <1>18 DEF Next, Service, Disturbance

-----------------------------------------------------------------------------
(* Readiness and status *)

LEMMA ReadyNext == TypeOK /\ ReadyIsProtected /\ [Next]_vars => ReadyIsProtected'
<1> SUFFICES ASSUME TypeOK, ReadyIsProtected, [Next]_vars, pc' = "protected", file' = "on"
             PROVE  table'.rules = "block" /\ table'.owner = held'
  BY DEF ReadyIsProtected
<1>1. CASE ProtectOk
  <2>1. held \in Socket
    BY <1>1 DEF ProtectOk, TypeOK, Holding
  <2> QED BY <1>1, <2>1, PolicyTypes, InstalledType DEF ProtectOk
<1>2. CASE ProtectOff
  BY <1>2 DEF ProtectOff, Enabled
<1>3. CASE NetworkUp
  BY <1>3 DEF NetworkUp, processVars, ReadyIsProtected
<1>4. ASSUME NEW s \in Socket, StoreDrops(s)
      PROVE  table'.rules = "block" /\ table'.owner = held'
  <2>1. pc = "protected" /\ file = "on" /\ held' = held
    BY <1>4 DEF StoreDrops, processVars
  <2>2. table.owner = held
    BY <2>1 DEF ReadyIsProtected
  <2> QED BY <1>4, <2>1, <2>2 DEF StoreDrops, ReadyIsProtected
<1>5. CASE UNCHANGED vars
  BY <1>5 DEF vars, processVars, ReadyIsProtected
<1>6. ASSUME NEW b \in BOOLEAN, SetKillSwitch(b) PROVE FALSE
  BY <1>6 DEF SetKillSwitch, processVars
<1>7. ASSUME NEW p \in Preference, EditFile(p) PROVE FALSE
  BY <1>7 DEF EditFile, processVars
<1>8. CASE ProtectErr
  BY <1>8 DEF ProtectErr, processVars
<1> QED BY <1>1, <1>2, <1>3, <1>4, <1>5, <1>6, <1>7, <1>8 DEF Next, Service, Disturbance, Start, Adopt,
      Create, Store, SetupOk, SetupErr, Gone, Ready, SetOsNetworkConfig, UnsetOsNetworkConfig,
      ApplyFirewall, ApplyOk, ApplyErr, Crash, Stop, Reboot

LEMMA StatusNext == TypeOK /\ StatusIsBacked /\ [Next]_vars => StatusIsBacked'
<1> SUFFICES ASSUME TypeOK, StatusIsBacked, [Next]_vars PROVE StatusIsBacked'
  OBVIOUS
<1> USE DEF StatusIsBacked
<1>1. CASE Start \/ Crash \/ Stop \/ Reboot
  BY <1>1 DEF Start, Crash, Stop, Reboot, Gone
<1>2. CASE Adopt \/ (\E s \in Socket : Create(s)) \/ Store \/ SetupOk
  BY <1>2 DEF Adopt, Create, Store, SetupOk
<1>3. CASE SetupErr
  BY <1>3 DEF SetupErr, Gone
<1>4. CASE ProtectOff
  BY <1>4 DEF ProtectOff, Blocked
<1>5. CASE ProtectOk \/ ProtectErr
  <2>1. held \in Socket /\ BootRules = "block" /\ BootRules \in Rules
    BY <1>5, PolicyTypes DEF ProtectOk, ProtectErr, TypeOK, Holding
  <2>2. Installed(BootRules) => table'.owner = held /\ table'.rules = "block"
    BY <2>1, InstalledType
  <2> QED BY <1>5, <2>1, <2>2 DEF ProtectOk, ProtectErr, NotAcknowledged, processVars, Blocked
<1>6. CASE Ready
  BY <1>6 DEF Ready, ReadyAt, Blocked
<1>7. ASSUME NEW b \in BOOLEAN, SetKillSwitch(b) PROVE StatusIsBacked'
  BY <1>7 DEF SetKillSwitch, processVars, Blocked
<1>8. ASSUME NEW lan \in BOOLEAN, SetOsNetworkConfig(lan) \/ UnsetOsNetworkConfig(lan)
      PROVE StatusIsBacked'
  BY <1>8 DEF SetOsNetworkConfig, UnsetOsNetworkConfig, ApplyFirewall
<1>9. CASE ApplyOk
  <2>1. held \in Socket /\ request \in Rules
    BY <1>9 DEF ApplyOk, TypeOK, Holding
  <2>2. table'.owner = held /\ table'.rules = request
    BY <1>9, <2>1, InstalledType DEF ApplyOk
  <2> QED BY <1>9, <2>2 DEF ApplyOk, Blocked
<1>10. CASE ApplyErr
  BY <1>10 DEF ApplyErr, StatusAfterError
<1>11. CASE NetworkUp
  BY <1>11 DEF NetworkUp, processVars, Blocked
<1>12. ASSUME NEW p \in Preference, EditFile(p) PROVE StatusIsBacked'
  BY <1>12 DEF EditFile, processVars, Blocked
<1>13. ASSUME NEW s \in Socket, StoreDrops(s) PROVE StatusIsBacked'
  <2>1. table' = table \/ (table' = NoTable /\ table.owner # held)
    BY <1>13 DEF StoreDrops
  <2> QED BY <1>13, <2>1 DEF StoreDrops, processVars, Blocked, NoTable
<1>14. CASE UNCHANGED vars
  BY <1>14 DEF vars, processVars, Blocked
<1> QED BY <1>1, <1>2, <1>3, <1>4, <1>5, <1>6, <1>7, <1>8, <1>9, <1>10, <1>11, <1>12, <1>13, <1>14
    DEF Next, Service, Disturbance

-----------------------------------------------------------------------------
(* The promise *)

(* The table survives the death of the process, since the store has it. *)
LEMMA Survives ==
  ASSUME OneSocket, ~lost, store' = store
  PROVE  Survivor(table) = table \/ ~Blocked
BY DEF OneSocket, Survivor, Blocked

LEMMA PromiseNext == Inv /\ [Next]_vars => PromiseIsBacked'
<1> SUFFICES ASSUME Inv, [Next]_vars PROVE PromiseIsBacked'
  OBVIOUS
<1>0. TypeOK /\ OneSocket /\ PromiseIsBacked
  BY DEF Inv
<1> USE DEF Promised
<1>1. CASE Start \/ Adopt \/ Store \/ SetupOk
  <2>1. /\ UNCHANGED <<file, memory, table, gate, network, duty, vigil>>
        /\ pc' \in {"start", "setup", "protect"} /\ (lost => lost')
    <3>1. CASE Start
      BY <3>1 DEF Start, bootVars, historyVars
    <3>2. CASE Adopt
      BY <3>2 DEF Adopt, bootVars, historyVars
    <3>3. CASE Store
      BY <3>3 DEF Store, bootVars
    <3>4. CASE SetupOk
      BY <3>4 DEF SetupOk, bootVars, historyVars
    <3> QED BY <1>1, <3>1, <3>2, <3>3, <3>4
  <2> QED BY <1>0, <2>1 DEF PromiseIsBacked, Blocked
<1>2. ASSUME NEW s \in Socket, Create(s) PROVE PromiseIsBacked'
  <2>1. ~lost' => ~Blocked
    BY <1>0, <1>2, CreatesFirst DEF Create, OneSocket, Blocked
  <2>2. Promised /\ ~lost => Blocked
    BY <1>0 DEF PromiseIsBacked
  <2> QED BY <1>0, <1>2, <2>1, <2>2 DEF Create, PromiseIsBacked, bootVars
<1>3. CASE SetupErr
  BY <1>0, <1>3 DEF SetupErr, Gone, PromiseIsBacked, Blocked
<1>4. CASE ProtectOff
  BY <1>0, <1>4 DEF ProtectOff, Enabled, PromiseIsBacked, Blocked, bootVars, historyVars
<1>5. CASE ProtectOk
  <2>1. Blocked'
    <3>1. held \in Socket
      BY <1>0, <1>5 DEF ProtectOk, TypeOK, Holding
    <3> QED BY <1>0, <1>5, <3>1, PolicyTypes, InstalledType DEF ProtectOk, Blocked
  <2>2. file \in Preference /\ (Enabled = "yes" <=> file = "on")
    BY <1>0 DEF Enabled, TypeOK, Preference
  <2> QED BY <1>0, <1>5, <2>1, <2>2 DEF ProtectOk, PromiseIsBacked, Enabled, bootVars
<1>6. CASE ProtectErr
  <2>1. Blocked' \/ table' = table
    <3>1. held \in Socket
      BY <1>0, <1>6 DEF ProtectErr, TypeOK, Holding
    <3> QED BY <1>0, <1>6, <3>1, PolicyTypes, InstalledType DEF ProtectErr, NotAcknowledged, Blocked
  <2> QED BY <1>0, <1>6, <2>1 DEF ProtectErr, PromiseIsBacked, Blocked, processVars, bootVars, historyVars
<1>7. CASE Ready
  BY <1>0, <1>7 DEF Ready, ReadyAt, PromiseIsBacked, Blocked, historyVars
<1>8. ASSUME NEW b \in BOOLEAN, SetKillSwitch(b) PROVE PromiseIsBacked'
  BY <1>0, <1>8 DEF SetKillSwitch, PromiseIsBacked, Blocked, processVars, bootVars
<1>9. ASSUME NEW lan \in BOOLEAN, SetOsNetworkConfig(lan) \/ UnsetOsNetworkConfig(lan)
      PROVE PromiseIsBacked'
  <2>1. pc = "run" /\ pc' = "apply"
        /\ UNCHANGED <<file, memory, table, gate, network, duty, vigil, lost>>
    BY <1>9 DEF SetOsNetworkConfig, UnsetOsNetworkConfig, ApplyFirewall, bootVars, historyVars
  <2>2. memory = TRUE => request' # "open"
    BY <1>9, PolicyTypes DEF SetOsNetworkConfig, UnsetOsNetworkConfig, ApplyFirewall
  <2>3. memory \in BOOLEAN
    BY <1>0 DEF TypeOK
  <2> QED BY <1>0, <2>1, <2>2, <2>3 DEF PromiseIsBacked, Blocked
<1>10. CASE ApplyOk
  <2>1. held \in Socket /\ request \in Rules
    BY <1>0, <1>10 DEF ApplyOk, TypeOK, Holding
  <2>2. table'.rules = request
    BY <1>0, <1>10, <2>1, InstalledType DEF ApplyOk
  <2> QED BY <1>0, <1>10, <2>2 DEF ApplyOk, PromiseIsBacked, Blocked, bootVars
<1>11. CASE ApplyErr
  <2>1. held \in Socket /\ request \in Rules
    BY <1>0, <1>11 DEF ApplyErr, TypeOK, Holding
  <2>2. table' = table \/ table'.rules = request
    BY <1>0, <1>11, <2>1, InstalledType DEF ApplyErr, NotAcknowledged
  <2> QED BY <1>0, <1>11, <2>2 DEF ApplyErr, PromiseIsBacked, Blocked, bootVars, historyVars
<1>12. CASE Crash
  <2>1. ~lost => table' = table \/ ~Blocked
    BY <1>0, <1>12, Survives DEF Crash
  <2> QED BY <1>0, <1>12, <2>1 DEF Crash, Gone, PromiseIsBacked, Blocked
<1>13. CASE Stop
  BY <1>0, <1>13 DEF Stop, Gone, PromiseIsBacked
<1>14. CASE Reboot
  BY <1>0, <1>14 DEF Reboot, PromiseIsBacked
<1>15. CASE NetworkUp
  BY <1>0, <1>15 DEF NetworkUp, PromiseIsBacked, Blocked, processVars, historyVars
<1>16. ASSUME NEW p \in Preference, EditFile(p) PROVE PromiseIsBacked'
  BY <1>0, <1>16 DEF EditFile, PromiseIsBacked, Blocked, processVars, bootVars
<1>17. ASSUME NEW s \in Socket, StoreDrops(s) PROVE PromiseIsBacked'
  BY <1>0, <1>17 DEF StoreDrops, PromiseIsBacked, Blocked, processVars, bootVars
<1>18. CASE UNCHANGED vars
  BY <1>0, <1>18 DEF vars, PromiseIsBacked, Blocked, processVars, bootVars, historyVars
<1> QED BY <1>1, <1>2, <1>3, <1>4, <1>5, <1>6, <1>7, <1>8, <1>9, <1>10, <1>11, <1>12, <1>13,
      <1>14, <1>15, <1>16, <1>17, <1>18 DEF Next, Service, Disturbance

-----------------------------------------------------------------------------
LEMMA InvInit == Init => Inv
<1> SUFFICES ASSUME Init PROVE Inv
  OBVIOUS
<1>1. OneSocket
  BY DEF Init, OneSocket, NoTable
<1>2. PromiseIsBacked
  BY DEF Init, PromiseIsBacked, Promised
<1>3. StatusIsBacked /\ ReadyIsProtected
  BY DEF Init, StatusIsBacked, ReadyIsProtected
<1> QED BY <1>1, <1>2, <1>3, TypeInit DEF Inv

LEMMA InvNext == Inv /\ [Next]_vars => Inv'
BY TypeNext, SocketNext, PromiseNext, StatusNext, ReadyNext DEF Inv

(* In every reachable state the variables have their types, and the process *)
(* holds a socket exactly while its step needs one.                         *)
THEOREM FirewallTypeCorrect == Spec => []TypeOK
<1>1. Inv => TypeOK
  BY DEF Inv
<1> QED BY <1>1, InvInit, InvNext, PTL DEF Spec

LEMMA InvHolds == Spec => []Inv
<1> QED BY InvInit, InvNext, PTL DEF Spec

(* A block that was confirmed holds across crashes at any step and failing  *)
(* applications of rules, for any set of sockets.                           *)
THEOREM KillSwitchCorrect == Spec => []KeepsPromise
<1>1. Inv => KeepsPromise
  <2> SUFFICES ASSUME Inv PROVE KeepsPromise
    OBVIOUS
  <2>1. Promised /\ ~lost => Blocked
    BY DEF Inv, PromiseIsBacked
  <2> QED BY <2>1 DEF KeepsPromise, Promised
<1> QED BY <1>1, InvHolds, PTL

(* The network comes up behind the block that the boot owes the user, and   *)
(* readiness is announced only behind the block, after every restart.       *)
THEOREM BootCorrect == Spec => []BootIsProtected
<1>1. Inv => BootIsProtected
  <2> SUFFICES ASSUME Inv PROVE BootIsProtected
    OBVIOUS
  <2>1. Promised /\ ~lost => Blocked
    BY DEF Inv, PromiseIsBacked
  <2>2. network /\ vigil => gate = "ready"
    BY DEF Inv, PromiseIsBacked, TypeOK
  <2>3. ReadyIsProtected
    BY DEF Inv
  <2> QED BY <2>1, <2>2, <2>3 DEF BootIsProtected, Promised, ReadyIsProtected
<1> QED BY <1>1, InvHolds, PTL

(* The published firewall status is true of the kernel.                     *)
THEOREM StatusCorrect == Spec => []StatusIsProof
<1>1. Inv => StatusIsProof
  BY DEF Inv, StatusIsBacked, StatusIsProof
<1> QED BY <1>1, InvInit, InvNext, PTL DEF Spec
=============================================================================
