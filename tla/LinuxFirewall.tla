---------------------------- MODULE LinuxFirewall ----------------------------
(***************************************************************************)
(* The life of the kill switch on Linux: how the service creates or adopts *)
(* the netlink socket that owns the nftables table, protects the host      *)
(* before it announces readiness, applies the manager's policies, and is   *)
(* killed and restarted with the socket kept in systemd's descriptor store *)
(* (src/rustlib/src/bin/obscura/service/os/linux: mod.rs, boot.rs,         *)
(* fd_store.rs, netfilter.rs).                                             *)
(*                                                                         *)
(* The table dies with the last copy of its owner socket.  Copies are held *)
(* by the process, by its FdStore and by systemd.  A call of apply_ruleset *)
(* is one step here, with the outcomes FirewallCall allows a call that was *)
(* not left stale answers: recv on an open netlink socket is assumed to    *)
(* report nothing but an empty queue, an interruption or a loss.           *)
(***************************************************************************)
EXTENDS Naturals, FiniteSets

CONSTANTS
  Socket,    (* netlink sockets                                            *)
  NONE,      (* no socket                                                  *)
  StoreMax   (* FileDescriptorStoreMax, 8 in obscura.service               *)

ASSUME SocketConstants == NONE \notin Socket /\ StoreMax \in Nat \ {0}

VARIABLES
  file,     (* the kill switch preference config.json holds               *)
  memory,   (* the kill switch flag in the manager's configuration        *)
  pc,       (* what the service process is doing                          *)
  held,     (* the socket of NftTable                                     *)
  entries,  (* FdStore.entries of the process                             *)
  store,    (* systemd's descriptor store, under the name "nft"           *)
  table,    (* the nftables table: its owner socket and its rules         *)
  request,  (* the rules apply_firewall is installing                     *)
  status,   (* the published FirewallStatus; in protect, its local status *)
  gate,     (* what the boot's ordering knows of the service              *)
  network,  (* the network was brought up                                 *)
  duty,     (* history: the host was confirmed blocked on the user's wish *)
  vigil,    (* history: the boot found a preference to protect            *)
  lost,     (* history: systemd or the socket's setup failed this boot    *)
  kept      (* history: systemd was not told to drop what it had stored   *)
            (* when this process created its socket                       *)

processVars == <<pc, held, entries, request, status>>
historyVars == <<duty, vigil, lost, kept>>
bootVars    == <<gate, network>>
vars == <<file, memory, processVars, store, table, bootVars, historyVars>>

-----------------------------------------------------------------------------
Preference == {"missing", "off", "on", "bad"}

(* boot::enabled, as the set of its results: Ok(TRUE), Ok(FALSE) or an error *)
FaultyEnabledBad == IF file = "on" THEN "yes" ELSE "no"

FaultyEnabledMissing ==
  CASE file = "on" -> "yes" [] file = "off" -> "no" [] OTHER -> "error"

Enabled == CASE file = "on"               -> "yes"
             [] file \in {"missing", "off"} -> "no"
             [] file = "bad"              -> "error"

(* The rules a TrafficPolicy renders to. *)
Rules == {"open", "block", "blockLan"}

Engage(lan) == IF lan THEN "blockLan" ELSE "block"

(* disconnected_policy *)
DisconnectedPolicy(killSwitch, lan) == IF killSwitch THEN Engage(lan) ELSE "open"

NoTable == [owner |-> NONE, rules |-> "open"]

Blocked == table.rules # "open"

NoEntries == [s \in Socket |-> "absent"]

Listed == {s \in Socket : entries[s] # "absent"}

(* The table is gone when nobody holds a copy of its owner socket any more. *)
Survivor(t) ==
  IF t.owner = held' \/ t.owner \in store' \/ (t.owner \in Socket /\ entries'[t.owner] = "here")
  THEN t ELSE NoTable

-----------------------------------------------------------------------------
Init ==
  /\ file \in Preference
  /\ memory = FALSE
  /\ pc = "down"
  /\ held = NONE
  /\ entries = NoEntries
  /\ store = {}
  /\ table = NoTable
  /\ request = "open"
  /\ status = "unknown"
  /\ gate = "closed" /\ network = FALSE
  /\ duty = FALSE
  /\ vigil = (file \in {"on", "bad"})
  /\ lost = FALSE /\ kept = FALSE

-----------------------------------------------------------------------------
(* LinuxOsImpl::new: the descriptor store and the socket *)

(* The process takes the descriptors systemd kept for it. *)
Start ==
  /\ pc \in {"down", "stopped"}
  /\ pc' = "start"
  /\ entries' = [s \in Socket |-> IF s \in store THEN "here" ELSE "absent"]
  /\ status' = "unknown"
  /\ UNCHANGED <<file, memory, held, store, table, request, bootVars, historyVars>>

(* FdStore::take: nothing for a duplicated name nor for one handed out. *)
FaultyTake == FALSE

FaultyTakeAny == \E s \in Listed : entries[s] = "here"

Take == Cardinality(Listed) = 1 /\ \E s \in Listed : entries[s] = "here"

Adopt ==
  /\ pc = "start"
  /\ Take
  /\ held' \in Listed
  /\ entries' = [entries EXCEPT ![held'] = "handed"]
  /\ pc' = "setup"
  /\ UNCHANGED <<file, memory, store, table, request, status, bootVars, historyVars>>

(* A new socket: remove_old_and_store first drops what is stored, unless   *)
(* systemd cannot be told.                                                 *)
Create(s) ==
  /\ pc = "start"
  /\ ~Take
  /\ s \notin store \cup {table.owner} /\ entries[s] # "here"
  /\ held' = s
  /\ entries' = NoEntries
  /\ store' \in {{}, store}
  /\ kept' = (store' # {})
  /\ lost' = (lost \/ kept')
  /\ table' = Survivor(table)
  /\ pc' = "store"
  /\ UNCHANGED <<file, memory, request, status, bootVars, duty, vigil>>

(* ... and then stores the new one, or fails to and goes on.  systemd may   *)
(* have no room for what it was sent.                                       *)
Store ==
  /\ pc = "store"
  /\ \/ Cardinality(store) < StoreMax /\ store' = store \cup {held}
     \/ store' = store
  /\ \E e \in {"handed", "absent"} :
       (held \in store' => e = "handed") /\ entries' = [entries EXCEPT ![held] = e]
  /\ lost' = (lost \/ held \notin store')
  /\ pc' = "setup"
  /\ UNCHANGED <<file, memory, held, table, request, status, bootVars, duty, vigil, kept>>

SetupOk ==
  /\ pc = "setup"
  /\ pc' = "protect"
  /\ UNCHANGED <<file, memory, held, entries, store, table, request, status, bootVars, historyVars>>

(* The process is gone: systemd starts it again, and what waited for its    *)
(* first start does not wait any longer.                                    *)
Gone ==
  /\ held' = NONE
  /\ entries' = NoEntries
  /\ request' = "open"
  /\ status' = "unknown"
  /\ gate' = IF gate = "closed" THEN "failed" ELSE gate
  /\ kept' = FALSE

(* Creating the socket or making it usable failed: give up if there is      *)
(* nothing to protect, else try again in a second.                          *)
SetupErr ==
  /\ pc \in {"start", "setup"}
  /\ pc = "start" => ~Take
  /\ lost' = TRUE
  /\ IF Enabled = "no"
     THEN Gone /\ pc' = "down" /\ vigil' = FALSE
     ELSE pc' = "start" /\ held' = NONE /\ UNCHANGED <<entries, request, status, gate, vigil, kept>>
  /\ UNCHANGED <<file, memory, store, network, duty>>
  /\ table' = Survivor(table)

-----------------------------------------------------------------------------
(* NftTable::apply_ruleset: NEWTABLE replaces the table of this socket, or  *)
(* is refused while another living socket owns it.                          *)
Installed(r) == table.owner \in {NONE, held} /\ table' = [owner |-> held, rules |-> r]

NotAcknowledged(r) == UNCHANGED table \/ Installed(r)

(* boot::protect *)

(* No LAN exceptions until the full configuration restores DNS restrictions. *)
FaultyBootRules == Engage(TRUE)

BootRules == Engage(FALSE)

ProtectOff ==
  /\ pc = "protect"
  /\ Enabled = "no"
  /\ pc' = "protected"
  /\ UNCHANGED <<file, memory, held, entries, store, table, request, status, bootVars, historyVars>>

ProtectOk ==
  /\ pc = "protect"
  /\ Enabled # "no"
  /\ Installed(BootRules)
  /\ status' = "blocking"
  /\ pc' = IF Enabled = "yes" THEN "protected" ELSE "protect"
  /\ duty' = (duty \/ Enabled = "yes")
  /\ UNCHANGED <<file, memory, held, entries, store, request, bootVars, vigil, lost, kept>>

ProtectErr ==
  /\ pc = "protect"
  /\ Enabled # "no"
  /\ NotAcknowledged(BootRules)
  /\ UNCHANGED <<file, memory, processVars, store, bootVars, historyVars>>

(* The rest of new(), notify_ready and Manager::new, which loads the file. *)
FaultyReadyAt == {"start", "protected"}

ReadyAt == {"protected"}

Ready ==
  /\ pc \in ReadyAt
  /\ pc' = "run"
  /\ gate' = IF gate = "closed" THEN "ready" ELSE gate
  /\ memory' = (file = "on")
  /\ UNCHANGED <<file, held, entries, store, table, request, status, network, historyVars>>

-----------------------------------------------------------------------------
(* The running service *)

(* SetFeatureFlag: the file follows the memory unless saving it fails. *)
SetKillSwitch(b) ==
  /\ pc \in {"run", "apply"}
  /\ memory' = b
  /\ file' \in {file, IF b THEN "on" ELSE "off"}
  /\ duty' = (duty /\ b /\ file' = "on")
  /\ vigil' = (vigil /\ b /\ file' = "on")
  /\ UNCHANGED <<processVars, store, table, bootVars, lost, kept>>

(* apply_firewall, called by set_os_network_config to connect or by         *)
(* unset_os_network_config with the kill switch flag of the task's snapshot *)
ApplyFirewall(policy) ==
  /\ pc = "run"
  /\ pc' = "apply"
  /\ request' = policy
  /\ status' = "applying"
  /\ UNCHANGED <<file, memory, held, entries, store, table, bootVars, historyVars>>

SetOsNetworkConfig(lan) == ApplyFirewall(Engage(lan))

UnsetOsNetworkConfig(lan) == ApplyFirewall(DisconnectedPolicy(memory, lan))

ApplyOk ==
  /\ pc = "apply"
  /\ Installed(request)
  /\ status' = IF request = "open" THEN "inactive" ELSE "blocking"
  /\ duty' = (duty \/ (request # "open" /\ memory /\ file = "on"))
  /\ pc' = "run"
  /\ UNCHANGED <<file, memory, held, entries, request, store, bootVars, vigil, lost, kept>>

FaultyStatusAfterError == IF request = "open" THEN "inactive" ELSE "blocking"

StatusAfterError == "failed"

ApplyErr ==
  /\ pc = "apply"
  /\ NotAcknowledged(request)
  /\ status' = StatusAfterError
  /\ pc' = "run"
  /\ UNCHANGED <<file, memory, held, entries, request, store, bootVars, historyVars>>

-----------------------------------------------------------------------------
(* The machine *)

(* The process is killed or exits at any point. *)
Crash ==
  /\ pc \notin {"down", "stopped"}
  /\ Gone
  /\ pc' = "down"
  /\ vigil' = (vigil /\ gate # "closed")
  /\ UNCHANGED <<file, memory, store, network, duty, lost>>
  /\ table' = Survivor(table)

(* systemctl stop: systemd drops what it stored and starts nothing. *)
Stop ==
  /\ pc # "stopped"
  /\ Gone
  /\ pc' = "stopped"
  /\ store' = {}
  /\ table' = Survivor(table)
  /\ duty' = FALSE /\ vigil' = FALSE
  /\ UNCHANGED <<file, memory, network, lost>>

Reboot ==
  /\ pc' = "down" /\ held' = NONE /\ entries' = NoEntries
  /\ request' = "open" /\ status' = "unknown"
  /\ store' = {} /\ table' = NoTable
  /\ gate' = "closed" /\ network' = FALSE
  /\ duty' = FALSE /\ vigil' = (file \in {"on", "bad"}) /\ lost' = FALSE /\ kept' = FALSE
  /\ UNCHANGED <<file, memory>>

(* network-pre.target is ordered after the service's first start. *)
NetworkUp ==
  /\ gate # "closed"
  /\ network' = TRUE
  /\ UNCHANGED <<file, memory, processVars, store, table, gate, historyVars>>

(* Someone damages or repairs the file before the service has read it. *)
EditFile(p) ==
  /\ pc \in {"down", "stopped", "start", "store", "setup", "protect"}
  /\ file' = p
  /\ duty' = (duty /\ p = "on")
  /\ vigil' = (vigil /\ p \in {"on", "bad"})
  /\ UNCHANGED <<memory, processVars, store, table, bootVars, lost, kept>>

(* systemd drops a stored descriptor on which it polls an error. *)
StoreDrops(s) ==
  /\ s \in store
  /\ store' = store \ {s}
  /\ lost' = TRUE
  /\ table' = IF table.owner = s /\ held # s /\ entries[s] # "here" THEN NoTable ELSE table
  /\ UNCHANGED <<file, memory, processVars, bootVars, duty, vigil, kept>>

Service ==
  \/ Start \/ Adopt \/ (\E s \in Socket : Create(s)) \/ Store \/ SetupOk \/ SetupErr
  \/ ProtectOff \/ ProtectOk \/ ProtectErr \/ Ready
  \/ \E lan \in BOOLEAN : SetOsNetworkConfig(lan) \/ UnsetOsNetworkConfig(lan)
  \/ ApplyOk \/ ApplyErr

Disturbance ==
  \/ Crash \/ Stop \/ Reboot
  \/ \E p \in Preference : EditFile(p)
  \/ \E s \in Socket : StoreDrops(s)

Next ==
  \/ Service
  \/ \E b \in BOOLEAN : SetKillSwitch(b)
  \/ NetworkUp
  \/ Disturbance

Spec == Init /\ [][Next]_vars

(* systemd restarts the service without a limit, the process runs, and what *)
(* is tried again and again succeeds at some point where it can succeed at  *)
(* all: a socket is created and set up, rules are acknowledged.             *)
Fairness ==
  /\ WF_vars(pc = "down" /\ Start) /\ WF_vars(Adopt) /\ WF_vars(Store)
  /\ WF_vars(ProtectOff) /\ WF_vars(Ready)
  /\ SF_vars(\E s \in Socket : Create(s)) /\ SF_vars(SetupOk) /\ SF_vars(ProtectOk)

FairSpec == Spec /\ Fairness

-----------------------------------------------------------------------------
(* Properties *)

Holding == {"store", "setup", "protect", "protected", "run", "apply"}

Alive == {"start"} \cup Holding

(* Every variable has its type; the process holds a socket from the moment  *)
(* it has one to the end of its life.                                       *)
TypeOK ==
  /\ file \in Preference
  /\ memory \in BOOLEAN
  /\ pc \in {"down", "stopped"} \cup Alive
  /\ IF pc \in Holding THEN held \in Socket ELSE held = NONE
  /\ entries \in [Socket -> {"absent", "here", "handed"}]
  /\ store \in SUBSET Socket
  /\ table \in [owner : Socket \cup {NONE}, rules : Rules]
  /\ request \in Rules
  /\ status \in {"unknown", "applying", "blocking", "inactive", "failed"}
  /\ gate \in {"closed", "ready", "failed"}
  /\ network \in BOOLEAN
  /\ duty \in BOOLEAN /\ vigil \in BOOLEAN /\ lost \in BOOLEAN
  /\ kept \in BOOLEAN

(* A host confirmed blocked stays blocked until the user turns the kill     *)
(* switch off, stops the service or reboots: across crashes at any step,    *)
(* the adoption of the stored socket and every failing application of       *)
(* rules.  (As long as systemd and the socket calls do their part.)         *)
KeepsPromise == duty /\ ~lost => Blocked

(* After a boot with the preference on or unreadable the network comes up   *)
(* blocked, unless the service died before it was ready; and whatever was   *)
(* lost, a service that reaches readiness with the preference on has        *)
(* installed the block, without LAN exceptions.                             *)
BootIsProtected ==
  /\ network /\ vigil => Blocked \/ lost
  /\ pc = "protected" /\ file = "on" => table.rules = "block" /\ table.owner = held

(* The status shown is proof of what the kernel does, never of what was     *)
(* asked of it.                                                             *)
StatusIsProof ==
  /\ pc \in {"run", "apply"} /\ status = "blocking" => Blocked
  /\ pc \in {"run", "apply"} /\ status = "inactive" => ~Blocked

(* The kernel refuses the table: an older socket, which this process could  *)
(* not have systemd drop when it created its own, owns one.                 *)
Refused == kept /\ table.owner \in store \ {held}

(* However often the setup of the socket failed or was abandoned, and       *)
(* whatever was lost of the store: when nothing disturbs it any more, the   *)
(* service gets ready, or it waits in protect for one of two things it      *)
(* cannot bring about itself.  The preference cannot be read, and the host  *)
(* is kept blocked; or the kernel refuses the table.                        *)
GetsReadyOrBlocks ==
  <>[][~Disturbance]_vars =>
    <>[](\/ pc \in {"run", "apply", "stopped"}
         \/ pc = "protect" /\ file = "bad" /\ Blocked
         \/ pc = "protect" /\ Enabled # "no" /\ Refused)
=============================================================================
