----------------------------- MODULE ConfigStore -----------------------------
(***************************************************************************)
(* The configuration file: load and save of                                *)
(* src/rustlib/src/config/persistence.rs, ConfigHandle of config/mod.rs,   *)
(* and the start of the process that loads it.  A configuration is reduced *)
(* to the account, whether the tunnel is active, and the exit chosen last, *)
(* which is migrated.                                                      *)
(*                                                                         *)
(* A change holds the lock of the state while it saves: nothing comes      *)
(* between its steps but a crash.  The process is killed (and restarted),  *)
(* stopped, or loses power.  A rename is not synced: until the system      *)
(* writes it out, a loss of power brings an earlier file back.  What is    *)
(* renamed was synced, or its contents may be lost.                        *)
(***************************************************************************)
EXTENDS Naturals, FiniteSets

CONSTANTS
  Account,      (* accounts                                                  *)
  None,         (* Option::None                                              *)
  Absent,       (* no file                                                   *)
  Broken,       (* a file that cannot be parsed                              *)
  Nothing,      (* nothing is known: of a history variable                   *)
  MaxUnflushed  (* bound: renames the system has not written out             *)

Chosen == {"unset", "legacy", "migrated"}
Config == [account : Account \cup {None}, active : BOOLEAN, chosen : Chosen]

ASSUME ConfigConstants ==
  /\ {None, Nothing} \cap Account = {} /\ None # Nothing
  /\ {None, Absent, Broken} \cap Config = {}
  /\ Absent # Broken /\ MaxUnflushed \in Nat

VARIABLES
  file,       (* config.json: Absent, Broken or a configuration               *)
  earlier,    (* what a loss of power may put in its place                    *)
  temp,       (* the temporary file: none, written, synced                    *)
  marker,     (* the restart marker in the runtime directory                  *)
  process,    (* down, load, reset, start, up                                 *)
  fresh,      (* the start is not a restart: force_init_inactive              *)
  config,     (* ConfigHandle.config                                          *)
  dirty,      (* ConfigHandle.dirty                                           *)
  saving,     (* the configuration being saved, or None                       *)
  login,      (* a login or logout: idle, change, check                       *)
  promised,   (* history: the account last reported as saved, or Nothing      *)
  wanted,     (* history: whether the tunnel should be active, or Nothing     *)
  spoilt      (* history: the file was broken before the first start          *)

configVars == <<file, earlier, temp, marker, process, fresh, config, dirty, saving,
                login, promised, wanted, spoilt>>

Default == [account |-> None, active |-> FALSE, chosen |-> "unset"]

(* Config::migrate; an absent file reads as the default. *)
Migrated(c) == IF c.chosen = "legacy" THEN [c EXCEPT !.chosen = "migrated"] ELSE c
Loaded(f) == IF f = Absent THEN Default ELSE Migrated(f)

ConfigInit ==
  /\ file \in {Absent, Broken} \cup {c \in Config : c.chosen # "migrated"}
  /\ spoilt = (file = Broken)
  /\ earlier = {} /\ temp = "none" /\ marker = FALSE
  /\ process = "down" /\ fresh = TRUE
  /\ config = Default /\ dirty = FALSE /\ saving = None
  /\ login = "idle" /\ promised = Nothing /\ wanted = Nothing

-----------------------------------------------------------------------------
(* save *)

saveVars == <<file, earlier, temp, saving>>
historyVars == <<promised, wanted, spoilt>>
runVars == <<marker, process, fresh>>

(* What follows a save that succeeded or failed *)
AfterSave(ok) ==
  /\ saving' = None /\ temp' = "none"
  /\ IF process = "reset"
     THEN /\ process' = IF ok THEN "start" ELSE "down"
          /\ config' = Default /\ dirty' = FALSE
          /\ wanted' = FALSE
          /\ UNCHANGED login
     ELSE /\ config' = saving /\ dirty' = ~ok
          /\ process' = "up"
          /\ login' = IF login = "change" THEN "check" ELSE login
          /\ wanted' = IF process = "start" THEN FALSE ELSE wanted
  /\ UNCHANGED <<marker, fresh, promised, spoilt>>

FaultySaveFails == saving # None /\ AfterSave(TRUE) /\ UNCHANGED <<file, earlier>>

(* The directory, the temporary file, a write or the rename fails; the       *)
(* temporary file is removed.                                                *)
SaveFails == saving # None /\ AfterSave(FALSE) /\ UNCHANGED <<file, earlier>>

WriteTemp ==
  /\ saving # None /\ temp = "none"
  /\ temp' = "written"
  /\ UNCHANGED <<file, earlier, saving, runVars, config, dirty, login, historyVars>>

SyncTemp ==
  /\ temp = "written"
  /\ temp' = "synced"
  /\ UNCHANGED <<file, earlier, saving, runVars, config, dirty, login, historyVars>>

(* Under a rename that is not written out lies what was there before; the   *)
(* contents of a file that was not synced may be lost.                      *)
Replace(f) ==
  /\ Cardinality(earlier) < MaxUnflushed
  /\ file' = f
  /\ earlier' = earlier \cup {file} \cup (IF temp = "written" THEN {Broken} ELSE {})

FaultyPersist ==
  /\ saving # None /\ temp \in {"written", "synced"}
  /\ Replace(saving)
  /\ AfterSave(TRUE)

Persist ==
  /\ saving # None /\ temp = "synced"
  /\ Replace(saving)
  /\ AfterSave(TRUE)

-----------------------------------------------------------------------------
(* load *)

(* detect_restart: the marker is checked and created; creating it may fail. *)
Start ==
  /\ process = "down"
  /\ process' = "load" /\ fresh' = ~marker
  /\ marker' \in {marker, TRUE}
  /\ UNCHANGED <<saveVars, config, dirty, login, historyVars>>

(* The file is read and migrated, and what was migrated is not saved. *)
Load ==
  /\ process = "load" /\ file # Broken
  /\ config' = Loaded(file) /\ dirty' = FALSE
  /\ process' = "start"
  /\ UNCHANGED <<saveVars, marker, fresh, login, historyVars>>

(* It cannot be opened, or not be moved away: the process ends. *)
LoadFails ==
  /\ process = "load"
  /\ process' = "down"
  /\ wanted' = IF fresh THEN Nothing ELSE wanted
  /\ UNCHANGED <<saveVars, marker, fresh, config, dirty, login, promised, spoilt>>

(* A file that cannot be parsed is moved away, and the default saved. *)
MoveAway ==
  /\ process = "load" /\ file = Broken
  /\ Replace(Absent)
  /\ process' = "reset" /\ saving' = Default
  /\ UNCHANGED <<temp, marker, fresh, config, dirty, login, historyVars>>

-----------------------------------------------------------------------------
(* ConfigHandle::change *)

FaultyChange(new) ==
  IF config # new
  THEN saving' = new /\ UNCHANGED <<config, dirty>>
  ELSE UNCHANGED <<saving, config>> /\ dirty' = FALSE

(* What differs, or failed to be saved before, is saved. *)
Change(new) ==
  IF dirty \/ config # new
  THEN saving' = new /\ UNCHANGED <<config, dirty>>
  ELSE UNCHANGED <<saving, config, dirty>>

(* ClientState::new: after anything but a restart the tunnel is not active. *)
Restarted ==
  /\ process = "start" /\ ~fresh
  /\ process' = "up"
  /\ UNCHANGED <<saveVars, marker, fresh, config, dirty, login, historyVars>>

ForceInactive ==
  /\ process = "start" /\ fresh /\ saving = None
  /\ Change([config EXCEPT !.active = FALSE])
  /\ IF saving' = None THEN process' = "up" /\ wanted' = FALSE ELSE UNCHANGED <<process, wanted>>
  /\ UNCHANGED <<file, earlier, temp, marker, fresh, login, promised, spoilt>>

Idle == process = "up" /\ saving = None

(* set_account_id: another account, or none, resets the configuration. *)
SetAccountId(a) ==
  /\ Idle /\ login = "idle"
  /\ Change(IF a = config.account THEN config ELSE [Default EXCEPT !.account = a])
  /\ login' = IF saving' = None THEN "check" ELSE "change"
  /\ promised' = IF a = config.account THEN promised ELSE Nothing
  /\ wanted' = IF a = config.account THEN wanted ELSE FALSE
  /\ UNCHANGED <<file, earlier, temp, runVars, spoilt>>

(* ... and then, in a step of its own, check_persisted is its answer. *)
CheckPersisted ==
  /\ Idle /\ login = "check"
  /\ login' = "idle"
  /\ promised' = IF dirty THEN promised ELSE config.account
  /\ UNCHANGED <<saveVars, runVars, config, dirty, wanted, spoilt>>

(* set_tunnel_target_state, and the exit a connection remembers *)
SetTunnelActive(b) ==
  /\ Idle
  /\ Change([config EXCEPT !.active = b])
  /\ wanted' = b
  /\ UNCHANGED <<file, earlier, temp, runVars, login, promised, spoilt>>

RememberExit ==
  /\ Idle /\ config.active
  /\ Change([config EXCEPT !.chosen = "migrated"])
  /\ UNCHANGED <<file, earlier, temp, runVars, login, promised, wanted, spoilt>>

-----------------------------------------------------------------------------
(* What the process does not control *)

Flush ==
  /\ earlier # {} /\ earlier' = {}
  /\ UNCHANGED <<file, temp, saving, runVars, config, dirty, login, historyVars>>

(* The change under way may or may not have reached the file; what was      *)
(* not saved is lost.                                                       *)
Ends ==
  /\ process # "down" /\ process' = "down"
  /\ saving' = None /\ temp' = "none" /\ login' = "idle"
  /\ config' = Default /\ dirty' = FALSE
  /\ wanted' = IF Idle /\ ~dirty THEN wanted ELSE Nothing
  /\ UNCHANGED <<fresh, spoilt>>

(* Restart=always keeps the runtime directory; a stop removes it. *)
Crash == Ends /\ UNCHANGED <<file, earlier, marker, promised>>
StopService == Ends /\ marker' = FALSE /\ UNCHANGED <<file, earlier, promised>>

LosePower ==
  /\ Ends
  /\ file' \in {file} \cup earlier
  /\ earlier' = {} /\ marker' = FALSE
  /\ promised' = IF earlier = {} THEN promised ELSE Nothing

ConfigNext ==
  \/ SaveFails \/ WriteTemp \/ SyncTemp \/ Persist
  \/ Start \/ Load \/ LoadFails \/ MoveAway
  \/ Restarted \/ ForceInactive
  \/ \E a \in Account \cup {None} : SetAccountId(a)
  \/ CheckPersisted
  \/ \E b \in BOOLEAN : SetTunnelActive(b)
  \/ RememberExit
  \/ Flush \/ Crash \/ StopService \/ LosePower

-----------------------------------------------------------------------------
(* A configuration that is not dirty is the one the next start loads; a     *)
(* login or logout reported as saved (src/rustlib/src/client_state.rs line  *)
(* 234) is in the file whatever happens to the process afterwards, and      *)
(* comes back with it; whether the tunnel is active follows what was asked  *)
(* since the computer started; and no crash or loss of power makes the file *)
(* unreadable.                                                              *)
ConfigIsDurable ==
  /\ Idle /\ ~dirty => Loaded(file) = config
  /\ promised # Nothing /\ saving = None =>
       /\ file # Broken /\ Loaded(file).account = promised
       /\ process = "up" => config.account = promised
  /\ process = "up" /\ wanted # Nothing /\ saving = None => config.active = wanted
  /\ ~spoilt => Broken \notin {file} \cup earlier
=============================================================================
