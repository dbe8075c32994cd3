------------------------- MODULE ClientServiceProofs -------------------------
(***************************************************************************)
(* What the service keeps and tells, for any accounts and callers and any  *)
(* number of saves, changes and attempts.                                  *)
(*                                                                         *)
(* ConfigIsDurable speaks of what the process knows when it is idle.  To   *)
(* be inductive it must say what the file holds meanwhile: while a         *)
(* configuration is loaded, while one is saved, and while the process is   *)
(* down.                                                                   *)
(*                                                                         *)
(* StatusIsCurrent speaks of a task that waits with nothing unread.  It    *)
(* holds because each channel that is not marked as changed was read: the  *)
(* tunnel state before the status was built and the others while it was.   *)
(* A task that has just subscribed knows nothing yet of the client state,  *)
(* and its mark on the tunnel state stands for that until it has built one *)
(* status.                                                                 *)
(*                                                                         *)
(* CachesAreRight speaks of a cached list and of what an answer will make  *)
(* of it.  It holds because the lock keeps every other answer out from the *)
(* question on, so that what was found cached, what is cached and what the *)
(* application shows never give one version to two lists.                  *)
(*                                                                         *)
(* AnswerIsOwn follows a command from its stream to its answer: it has not *)
(* run before the request was handed over, and nothing answers it before   *)
(* it ran.  CleanedUp relates how far the application is with a bundle to  *)
(* how far the service is: until the directory is removed it is lost, or   *)
(* its token is known.                                                     *)
(***************************************************************************)
EXTENDS ClientService, FiniteSetTheorems, TLAPS

-----------------------------------------------------------------------------
(* The configuration file *)

NotLegacy == {c \in Config : c.chosen # "legacy"}

ConfigTypeOK ==
  /\ file \in {Absent, Broken} \cup Config
  /\ earlier \subseteq {Absent, Broken} \cup Config
  /\ temp \in {"none", "written", "synced"} /\ marker \in BOOLEAN
  /\ process \in {"down", "load", "reset", "start", "up"} /\ fresh \in BOOLEAN
  /\ config \in NotLegacy /\ dirty \in BOOLEAN /\ saving \in NotLegacy \cup {None}
  /\ login \in {"idle", "change", "check"} /\ spoilt \in BOOLEAN

(* Where a configuration is saved, and what is saved there *)
SavesWhereExpected ==
  /\ saving = None => temp = "none" /\ process # "reset"
  /\ process \in {"down", "load"} => saving = None
  /\ process = "reset" => saving = Default /\ promised = Nothing /\ file = Absent
  /\ process = "start" /\ saving # None => fresh /\ saving.active = FALSE

(* What the process has in memory is what the next one loads. *)
FileIsMemory ==
  process \in {"start", "up"} =>
    /\ file # Broken
    /\ ~dirty => Loaded(file) = config
    /\ process = "start" /\ saving = None => ~dirty

(* The promised account is in the file, in memory and in what is saved. *)
PromiseIsKept ==
  promised # Nothing =>
    /\ file # Broken /\ Loaded(file).account = promised
    /\ process \in {"start", "up"} => config.account = promised
    /\ saving # None => saving.account = promised

(* Whether the tunnel should be active is in memory or in what is saved,    *)
(* and in the file while a restart is due.                                  *)
WishIsKept ==
  wanted # Nothing =>
    /\ process = "up" => (IF saving = None THEN config ELSE saving).active = wanted
    /\ process = "down" /\ marker /\ file # Broken => Loaded(file).active = wanted
    /\ process = "load" /\ ~fresh /\ file # Broken => Loaded(file).active = wanted
    /\ process = "start" /\ ~fresh => config.active = wanted

FileIsWhole == ~spoilt => Broken \notin {file} \cup earlier

ConfigInv ==
  ConfigTypeOK /\ SavesWhereExpected /\ FileIsMemory /\ PromiseIsKept /\ WishIsKept /\ FileIsWhole

-----------------------------------------------------------------------------
(* The constants told apart *)
LEMMA Distinct ==
  /\ None \notin Config /\ Absent \notin Config /\ Broken \notin Config
  /\ Absent # Broken /\ Nothing # None /\ Nothing \notin Account
BY ConfigConstants

(* A loaded configuration is migrated, and loading it again changes nothing. *)
LEMMA LoadedType ==
  ASSUME NEW f \in {Absent} \cup Config
  PROVE  /\ Loaded(f) \in NotLegacy
         /\ f \in NotLegacy => Loaded(f) = f
BY Distinct DEF Loaded, Migrated, NotLegacy, Config, Chosen, Default

LEMMA DefaultType ==
  /\ Default \in NotLegacy /\ Default.active = FALSE /\ Default.account = None
BY DEF Default, NotLegacy, Config, Chosen

LEMMA LoadedAbsent == Loaded(Absent) = Default
BY DEF Loaded

-----------------------------------------------------------------------------
(* A configuration that is saved is the one in memory afterwards. *)
LEMMA SavedKeeps ==
  ASSUME ConfigInv, saving # None, NEW ok \in BOOLEAN, AfterSave(ok),
         ok => file' = saving /\ earlier' = earlier \cup {file},
         ~ok => file' = file /\ earlier' = earlier
  PROVE  ConfigInv'
<1>1. saving \in NotLegacy /\ Loaded(saving) = saving /\ saving \in Config /\ saving # Broken
  BY LoadedType, Distinct DEF ConfigInv, ConfigTypeOK, NotLegacy
<1>2. process \in {"reset", "start", "up"}
  BY DEF ConfigInv, ConfigTypeOK, SavesWhereExpected
<1>3. ConfigTypeOK'
  BY <1>1, <1>2, DefaultType DEF ConfigInv, ConfigTypeOK, AfterSave
<1>4. CASE process = "reset"
  <2>1. saving = Default /\ promised' = Nothing /\ saving' = None /\ wanted' = FALSE
        /\ config' = Default /\ dirty' = FALSE
    BY <1>4 DEF ConfigInv, SavesWhereExpected, AfterSave
  <2>2. IF ok THEN process' = "start" /\ file' = Default ELSE process' = "down" /\ file' = Absent
    BY <1>4, <2>1 DEF AfterSave, ConfigInv, SavesWhereExpected
  <2>3. SavesWhereExpected' /\ PromiseIsKept' /\ FileIsWhole'
    BY <1>1, <2>1, <2>2 DEF AfterSave, ConfigInv, SavesWhereExpected, PromiseIsKept, FileIsWhole
  <2>4. FileIsMemory' /\ WishIsKept'
    BY <1>1, <2>1, <2>2, LoadedAbsent, DefaultType DEF FileIsMemory, WishIsKept
  <2> QED  BY <1>3, <2>3, <2>4 DEF ConfigInv
<1>5. CASE process \in {"start", "up"}
  <2>1. /\ process' = "up" /\ saving' = None /\ temp' = "none"
        /\ config' = saving /\ dirty' = ~ok /\ promised' = promised /\ spoilt' = spoilt
        /\ wanted' = IF process = "start" THEN FALSE ELSE wanted
    BY <1>5 DEF AfterSave
  <2>2. SavesWhereExpected' /\ FileIsWhole'
    BY <1>1, <2>1 DEF ConfigInv, SavesWhereExpected, FileIsWhole
  <2>3. FileIsMemory'
    BY <1>1, <1>5, <2>1 DEF ConfigInv, FileIsMemory
  <2>4. PromiseIsKept'
    BY <1>1, <1>5, <2>1 DEF ConfigInv, PromiseIsKept
  <2>5. WishIsKept'
    BY <1>1, <1>5, <2>1 DEF ConfigInv, WishIsKept, SavesWhereExpected
  <2> QED  BY <1>3, <2>2, <2>3, <2>4, <2>5 DEF ConfigInv
<1> QED  BY <1>2, <1>4, <1>5

(* The steps of load *)
LEMMA LoadKeeps ==
  ASSUME ConfigInv, Start \/ Load \/ LoadFails \/ MoveAway
  PROVE  ConfigInv'
<1>1. CASE Start
  BY <1>1 DEF Start, saveVars, historyVars, ConfigInv, ConfigTypeOK, SavesWhereExpected, FileIsMemory,
              PromiseIsKept, WishIsKept, FileIsWhole
<1>2. CASE Load
  <2>1. file \in {Absent} \cup Config /\ config' = Loaded(file) /\ Loaded(file) \in NotLegacy
    BY <1>2, LoadedType DEF Load, ConfigInv, ConfigTypeOK
  <2> QED
    BY <1>2, <2>1 DEF Load, saveVars, historyVars, ConfigInv, ConfigTypeOK, SavesWhereExpected,
                      FileIsMemory, PromiseIsKept, WishIsKept, FileIsWhole
<1>3. CASE LoadFails
  BY <1>3 DEF LoadFails, saveVars, ConfigInv, ConfigTypeOK, SavesWhereExpected, FileIsMemory,
              PromiseIsKept, WishIsKept, FileIsWhole
<1>4. CASE MoveAway
  <2>1. /\ file = Broken /\ file' = Absent /\ earlier' \subseteq earlier \cup {file, Broken}
        /\ process' = "reset" /\ saving' = Default
    BY <1>4 DEF MoveAway, Replace
  <2>2. promised = Nothing /\ spoilt
    BY <2>1 DEF ConfigInv, PromiseIsKept, FileIsWhole, ConfigTypeOK
  <2>3. Default # None
    BY DefaultType, Distinct DEF NotLegacy
  <2> QED
    BY <1>4, <2>1, <2>2, <2>3, DefaultType
       DEF MoveAway, historyVars, ConfigInv, ConfigTypeOK, SavesWhereExpected, FileIsMemory,
           PromiseIsKept, WishIsKept, FileIsWhole
<1> QED  BY <1>1, <1>2, <1>3, <1>4

(* What a change leaves to be saved *)
LEMMA ChangeSaves ==
  ASSUME ConfigTypeOK, saving = None, NEW new \in NotLegacy, Change(new)
  PROVE  /\ config' = config /\ dirty' = dirty /\ saving' \in {None, new}
         /\ saving' = None => new = config /\ ~dirty
         /\ new # None
BY Distinct DEF ConfigTypeOK, Change, NotLegacy

(* A change of another field than the account keeps it. *)
LEMMA FieldType ==
  ASSUME NEW c \in NotLegacy, NEW b \in BOOLEAN
  PROVE  /\ [c EXCEPT !.active = b] \in NotLegacy
         /\ [c EXCEPT !.active = b].active = b /\ [c EXCEPT !.active = b].account = c.account
         /\ [c EXCEPT !.chosen = "migrated"] \in NotLegacy
         /\ [c EXCEPT !.chosen = "migrated"].active = c.active
         /\ [c EXCEPT !.chosen = "migrated"].account = c.account
BY DEF NotLegacy, Config, Chosen

(* The start of the process, whose tunnel is not active unless it is a      *)
(* restart                                                                  *)
LEMMA StartKeeps ==
  ASSUME ConfigInv, Restarted \/ ForceInactive
  PROVE  ConfigInv'
<1>1. CASE Restarted
  BY <1>1 DEF Restarted, saveVars, historyVars, ConfigInv, ConfigTypeOK, SavesWhereExpected,
              FileIsMemory, PromiseIsKept, WishIsKept, FileIsWhole
<1>2. CASE ForceInactive
  <2> DEFINE new == [config EXCEPT !.active = FALSE]
  <2>1. new \in NotLegacy /\ new.active = FALSE /\ new.account = config.account
    BY FieldType DEF ConfigInv, ConfigTypeOK
  <2>2. /\ config' = config /\ dirty' = dirty /\ saving' \in {None, new}
        /\ saving' = None => new = config /\ ~dirty
        /\ new # None
    <3>1. Change(new) /\ saving = None
      BY <1>2 DEF ForceInactive
    <3> HIDE DEF new
    <3> QED  BY <2>1, <3>1, ChangeSaves DEF ConfigInv
  <2>3. /\ IF saving' = None THEN process' = "up" /\ wanted' = FALSE
                             ELSE process' = process /\ wanted' = wanted
        /\ UNCHANGED <<file, earlier, temp, marker, fresh, login, promised, spoilt>>
        /\ process = "start" /\ fresh /\ saving = None
    BY <1>2 DEF ForceInactive
  <2> HIDE DEF new
  <2> QED
    BY <2>1, <2>2, <2>3
       DEF ConfigInv, ConfigTypeOK, SavesWhereExpected, FileIsMemory, PromiseIsKept, WishIsKept,
           FileIsWhole
<1> QED  BY <1>1, <1>2

(* A change by a command, which asks for nothing that is not promised *)
LEMMA CommandKeeps ==
  ASSUME ConfigInv, Idle, NEW new \in NotLegacy, Change(new),
         UNCHANGED <<file, earlier, temp, runVars, spoilt>>,
         login' \in {"idle", "change", "check"},
         (promised' = promised /\ new.account = config.account) \/ promised' = Nothing,
         (wanted' = wanted /\ new.active = config.active) \/ wanted' = new.active
  PROVE  ConfigInv'
<1>1. /\ config' = config /\ dirty' = dirty /\ saving' \in {None, new}
      /\ saving' = None => new = config /\ ~dirty
      /\ new # None
  BY ChangeSaves DEF ConfigInv, Idle
<1> QED
  BY <1>1 DEF Idle, runVars, ConfigInv, ConfigTypeOK, SavesWhereExpected, FileIsMemory, PromiseIsKept,
              WishIsKept, FileIsWhole

LEMMA CommandsKeep ==
  ASSUME ConfigInv,
         \/ \E a \in Account \cup {None} : SetAccountId(a)
         \/ CheckPersisted
         \/ \E b \in BOOLEAN : SetTunnelActive(b)
         \/ RememberExit
  PROVE  ConfigInv'
<1>1. ASSUME NEW a \in Account \cup {None}, SetAccountId(a)  PROVE ConfigInv'
  <2> DEFINE new == IF a = config.account THEN config ELSE [Default EXCEPT !.account = a]
  <2>1. new \in NotLegacy
    BY DEF ConfigInv, ConfigTypeOK, NotLegacy, Default, Config, Chosen
  <2>2. new.account = a /\ (a # config.account => new.active = FALSE)
    BY DEF Default
  <2>3. /\ Idle /\ Change(new) /\ UNCHANGED <<file, earlier, temp, runVars, spoilt>>
        /\ login' \in {"idle", "change", "check"}
        /\ (promised' = promised /\ new.account = config.account) \/ promised' = Nothing
        /\ (wanted' = wanted /\ new.active = config.active) \/ wanted' = new.active
    BY <1>1, <2>1, <2>2 DEF SetAccountId, NotLegacy, Config
  <2> HIDE DEF new
  <2> QED  BY <2>1, <2>3, CommandKeeps
<1>2. CASE CheckPersisted
  BY <1>2, Distinct
     DEF CheckPersisted, Idle, saveVars, runVars, ConfigInv, ConfigTypeOK, SavesWhereExpected,
         FileIsMemory, PromiseIsKept, WishIsKept, FileIsWhole
<1>3. ASSUME NEW b \in BOOLEAN, SetTunnelActive(b)  PROVE ConfigInv'
  <2> DEFINE new == [config EXCEPT !.active = b]
  <2>1. new \in NotLegacy /\ new.active = b /\ new.account = config.account
    BY FieldType DEF ConfigInv, ConfigTypeOK
  <2>2. Idle /\ Change(new) /\ UNCHANGED <<file, earlier, temp, runVars, spoilt, login, promised>>
        /\ wanted' = b
    BY <1>3 DEF SetTunnelActive
  <2> HIDE DEF new
  <2> QED  BY <2>1, <2>2, CommandKeeps DEF ConfigInv, ConfigTypeOK
<1>4. CASE RememberExit
  <2> DEFINE new == [config EXCEPT !.chosen = "migrated"]
  <2>1. new \in NotLegacy /\ new.active = config.active /\ new.account = config.account
    BY FieldType DEF ConfigInv, ConfigTypeOK
  <2>2. Idle /\ Change(new)
        /\ UNCHANGED <<file, earlier, temp, runVars, spoilt, login, promised, wanted>>
    BY <1>4 DEF RememberExit
  <2> HIDE DEF new
  <2> QED  BY <2>1, <2>2, CommandKeeps DEF ConfigInv, ConfigTypeOK
<1> QED  BY <1>1, <1>2, <1>3, <1>4

(* The process ends: whatever was being saved is dropped. *)
LEMMA EndKeeps ==
  ASSUME ConfigInv, Ends, file' \in {file} \cup earlier, earlier' \subseteq earlier,
         marker' \in BOOLEAN,
         (file' = file /\ marker' = marker) \/ ~marker',
         (promised' = promised /\ file' = file) \/ promised' = Nothing
  PROVE  ConfigInv'
<1>1. ConfigTypeOK' /\ SavesWhereExpected' /\ FileIsMemory'
  BY DefaultType DEF Ends, ConfigInv, ConfigTypeOK, SavesWhereExpected, FileIsMemory
<1>2. PromiseIsKept' /\ FileIsWhole'
  BY DEF Ends, ConfigInv, ConfigTypeOK, PromiseIsKept, FileIsWhole
<1>3. WishIsKept'
  BY DEF Ends, Idle, ConfigInv, FileIsMemory, WishIsKept
<1> QED  BY <1>1, <1>2, <1>3 DEF ConfigInv

LEMMA OutsideKeeps ==
  ASSUME ConfigInv, Flush \/ Crash \/ StopService \/ LosePower
  PROVE  ConfigInv'
<1>1. CASE Flush
  BY <1>1 DEF Flush, runVars, historyVars, ConfigInv, ConfigTypeOK, SavesWhereExpected, FileIsMemory,
              PromiseIsKept, WishIsKept, FileIsWhole
<1>2. CASE Crash
  BY <1>2, EndKeeps DEF Crash, ConfigInv, ConfigTypeOK
<1>3. CASE StopService
  BY <1>3, EndKeeps DEF StopService
<1>4. CASE LosePower
  BY <1>4, EndKeeps DEF LosePower
<1> QED  BY <1>1, <1>2, <1>3, <1>4

-----------------------------------------------------------------------------
LEMMA ConfigInitEstablishes == ConfigInit => ConfigInv
BY DefaultType, Distinct
   DEF ConfigInit, ConfigInv, ConfigTypeOK, SavesWhereExpected, FileIsMemory, PromiseIsKept,
       WishIsKept, FileIsWhole

LEMMA ConfigStepKeeps == ConfigInv /\ [ConfigNext]_configVars => ConfigInv'
<1> SUFFICES ASSUME ConfigInv, [ConfigNext]_configVars  PROVE ConfigInv'
  OBVIOUS
<1>1. CASE SaveFails
  BY <1>1, SavedKeeps DEF SaveFails
<1>2. CASE WriteTemp \/ SyncTemp
  BY <1>2 DEF WriteTemp, SyncTemp, runVars, historyVars, ConfigInv, ConfigTypeOK, SavesWhereExpected,
              FileIsMemory, PromiseIsKept, WishIsKept, FileIsWhole
<1>3. CASE Persist
  <2>1. file' = saving /\ earlier' = earlier \cup {file} /\ saving # None /\ AfterSave(TRUE)
    BY <1>3 DEF Persist, Replace
  <2> QED  BY <2>1, SavedKeeps
<1>4. CASE Start \/ Load \/ LoadFails \/ MoveAway
  BY <1>4, LoadKeeps
<1>5. CASE Restarted \/ ForceInactive
  BY <1>5, StartKeeps
<1>6. CASE \/ \E a \in Account \cup {None} : SetAccountId(a)
           \/ CheckPersisted
           \/ \E b \in BOOLEAN : SetTunnelActive(b)
           \/ RememberExit
  BY <1>6, CommandsKeep
<1>7. CASE Flush \/ Crash \/ StopService \/ LosePower
  BY <1>7, OutsideKeeps
<1>8. CASE UNCHANGED configVars
  BY <1>8 DEF configVars, ConfigInv, ConfigTypeOK, SavesWhereExpected, FileIsMemory, PromiseIsKept,
              WishIsKept, FileIsWhole
<1> QED  BY <1>1, <1>2, <1>3, <1>4, <1>5, <1>6, <1>7, <1>8 DEF ConfigNext

LEMMA ConfigInvIsEnough == ConfigInv => ConfigIsDurable
BY DEF ConfigInv, FileIsMemory, PromiseIsKept, WishIsKept, FileIsWhole, ConfigIsDurable, Idle

-----------------------------------------------------------------------------
(* The status *)

Accounts == {Unset} \cup [active : BOOLEAN, sec : Nat]
Tunnels == {"disconnected", "connected"}
Firewalls == {"blocking", "failed", "unknown"}

StatusTypeOK ==
  /\ tunnel \in Tunnels /\ tunnelRead \in Tunnels
  /\ client \in [setting : 1..2, account : Accounts]
  /\ firewall \in Firewalls /\ watching \in BOOLEAN
  /\ statusTask \in {"new", "wait", "read", "publish"}
  /\ status \in [version : Nat, of : [tunnel : Tunnels, setting : 1..2, account : Accounts,
                                      firewall : Firewalls]]
  /\ known \in Nat \cup {Unset}
  /\ registering \in Nat \cup {Unset} /\ lastVersion \in Nat \cup {Unset} /\ triedSince \in Nat
  /\ second \in Nat

(* What was read for the status to be built is the tunnel state still, or   *)
(* that has changed again.                                                  *)
TunnelIsRead ==
  statusTask = "publish" /\ "tunnel" \notin changed => tunnelRead = tunnel

(* A waiting task has published each channel it has read. *)
ReadIsPublished ==
  statusTask = "wait" /\ "tunnel" \notin changed =>
    /\ status.of.tunnel = tunnel
    /\ "client" \notin changed =>
         status.of.setting = client.setting /\ SameAccount(status.of.account, client.account)
    /\ IF watching THEN "firewall" \notin changed => status.of.firewall = firewall
                   ELSE status.of.firewall = "unknown"

(* A follower knows no version from the future, and the contents of its own. *)
KnownIsShown ==
  known # Unset => known <= status.version /\ (known = status.version => shown = status.of)

(* The status that called for a registration is not from the future. *)
LastIsPast == lastVersion # Unset => lastVersion <= status.version

(* The attempts for a status are made at that status or a later one. *)
AttemptsAreLater ==
  lastVersion # Unset /\ registering # MaxAttempts => triedSince >= lastVersion

StatusInv ==
  /\ StatusTypeOK /\ TunnelIsRead /\ ReadIsPublished /\ KnownIsShown
  /\ LastIsPast /\ AttemptsAreLater

-----------------------------------------------------------------------------
(* Contents that count as the same agree in every part. *)
LEMMA SameParts ==
  ASSUME NEW a \in [tunnel : Tunnels, setting : 1..2, account : Accounts, firewall : Firewalls],
         NEW b \in [tunnel : Tunnels, setting : 1..2, account : Accounts, firewall : Firewalls]
  PROVE  SameContents(a, b) <=> /\ a.tunnel = b.tunnel /\ a.setting = b.setting
                                /\ a.firewall = b.firewall /\ SameAccount(a.account, b.account)
BY DEF SameContents

(* To count as the same account is symmetric, and every account does. *)
LEMMA SameAccountIsSymmetric ==
  ASSUME NEW a, NEW b
  PROVE  SameAccount(a, a) /\ (SameAccount(a, b) => SameAccount(b, a))
BY DEF SameAccount

(* The contents that are built have the type of contents. *)
LEMMA BuiltType ==
  ASSUME StatusTypeOK
  PROVE  Built \in [tunnel : Tunnels, setting : 1..2, account : Accounts, firewall : Firewalls]
BY DEF StatusTypeOK, Built, Contents, Firewalls

(* What follows a status when the task has built the next *)
LEMMA PublishKeeps ==
  ASSUME StatusInv, Publish
  PROVE  StatusInv'
<1>1. Built \in [tunnel : Tunnels, setting : 1..2, account : Accounts, firewall : Firewalls]
  BY BuiltType DEF StatusInv
<1>2. StatusTypeOK'
  BY <1>1 DEF StatusInv, StatusTypeOK, Publish, channelVars, pollVars, regVars
<1>3. status' = status \/ (status'.version = status.version + 1 /\ status'.of = Built)
  BY DEF Publish
<1>4. /\ status'.of.tunnel = tunnelRead /\ status'.of.setting = client.setting
      /\ SameAccount(status'.of.account, client.account)
      /\ status'.of.firewall = IF watching THEN firewall ELSE "unknown"
  <2>1. CASE SameContents(Built, status.of)
    <3>1. status.of \in [tunnel : Tunnels, setting : 1..2, account : Accounts, firewall : Firewalls]
      BY DEF StatusInv, StatusTypeOK
    <3>2. /\ Built.tunnel = status.of.tunnel /\ Built.setting = status.of.setting
          /\ Built.firewall = status.of.firewall /\ SameAccount(Built.account, status.of.account)
      BY <1>1, <2>1, <3>1, SameParts
    <3>3. status' = status
      BY <2>1 DEF Publish
    <3> QED  BY <3>2, <3>3, SameAccountIsSymmetric DEF Built, Contents
  <2>2. CASE ~SameContents(Built, status.of)
    <3>1. status'.of = Built
      BY <2>2 DEF Publish
    <3> QED  BY <3>1, SameAccountIsSymmetric DEF Built, Contents
  <2> QED  BY <2>1, <2>2
<1>5. TunnelIsRead' /\ ReadIsPublished'
  BY <1>4 DEF StatusInv, TunnelIsRead, ReadIsPublished, Publish, channelVars, StatusTypeOK
<1>6. KnownIsShown' /\ AttemptsAreLater' /\ LastIsPast'
  BY <1>3, StatusConstants
     DEF StatusInv, StatusTypeOK, KnownIsShown, AttemptsAreLater, LastIsPast, Publish, pollVars, regVars
<1> QED  BY <1>2, <1>5, <1>6 DEF StatusInv

(* A channel that changes is marked. *)
LEMMA SendKeeps ==
  ASSUME StatusInv, NEW channel \in {"tunnel", "client", "firewall"}, Send(channel),
         tunnel' \in Tunnels, client' \in [setting : 1..2, account : Accounts], second' \in Nat,
         firewall' \in Firewalls,
         channel # "tunnel" => tunnel' = tunnel,
         channel # "client" => client' = client,
         channel # "firewall" => firewall' = firewall
  PROVE  StatusInv'
<1>1. StatusTypeOK'
  BY DEF StatusInv, StatusTypeOK, Send, pollVars, regVars
<1>2. TunnelIsRead' /\ ReadIsPublished'
  BY DEF StatusInv, TunnelIsRead, ReadIsPublished, Send
<1>3. KnownIsShown' /\ AttemptsAreLater' /\ LastIsPast'
  BY DEF StatusInv, KnownIsShown, AttemptsAreLater, LastIsPast, Send, pollVars, regVars
<1> QED  BY <1>1, <1>2, <1>3 DEF StatusInv

LEMMA StatusInitEstablishes == StatusInit => StatusInv
BY StatusConstants
   DEF StatusInit, StatusInv, StatusTypeOK, TunnelIsRead, ReadIsPublished, KnownIsShown,
       AttemptsAreLater, LastIsPast, Contents, Accounts, Tunnels, Firewalls

LEMMA StatusStepKeeps == StatusInv /\ [StatusNext]_statusVars => StatusInv'
<1> SUFFICES ASSUME StatusInv, [StatusNext]_statusVars  PROVE StatusInv'
  OBVIOUS
<1> USE DEF StatusInv
<1>1. CASE TunnelChanges
  BY <1>1, SendKeeps DEF TunnelChanges, StatusTypeOK, Tunnels
<1>2. CASE SettingChanges
  <2>1. client' \in [setting : 1..2, account : Accounts]
    BY <1>2 DEF SettingChanges, StatusTypeOK
  <2> QED  BY <1>2, <2>1, SendKeeps DEF SettingChanges, StatusTypeOK
<1>3. CASE AccountInfoChanges
  <2>1. client' \in [setting : 1..2, account : Accounts]
    BY <1>3 DEF AccountInfoChanges, StatusTypeOK, Accounts
  <2> QED  BY <1>3, <2>1, SendKeeps DEF AccountInfoChanges, StatusTypeOK
<1>4. CASE FirewallChanges
  BY <1>4, SendKeeps DEF FirewallChanges, StatusTypeOK, Firewalls
<1>5. CASE FirewallEnds \/ SecondPasses
  BY <1>5 DEF FirewallEnds, SecondPasses, StatusTypeOK, TunnelIsRead, ReadIsPublished, KnownIsShown,
              AttemptsAreLater, LastIsPast, feedVars, pollVars, regVars
<1>6. CASE Subscribe \/ Wake \/ ReadTunnel
  <2>1. StatusTypeOK' /\ KnownIsShown' /\ AttemptsAreLater' /\ LastIsPast'
    BY <1>6 DEF Subscribe, Wake, ReadTunnel, StatusTypeOK, KnownIsShown, AttemptsAreLater, LastIsPast,
                channelVars, pollVars, regVars
  <2>2. TunnelIsRead' /\ ReadIsPublished'
    BY <1>6 DEF Subscribe, Wake, ReadTunnel, TunnelIsRead, ReadIsPublished, channelVars
  <2> QED  BY <2>1, <2>2
<1>7. CASE Publish
  BY <1>7, PublishKeeps
<1>8. CASE RegistrationWakes \/ TryRegistration \/ StopTrying
  <2>1. StatusTypeOK' /\ TunnelIsRead' /\ ReadIsPublished' /\ KnownIsShown'
    BY <1>8, StatusConstants
       DEF RegistrationWakes, TryRegistration, StopTrying, StatusTypeOK, TunnelIsRead,
           ReadIsPublished, KnownIsShown, channelVars, feedVars, pollVars
  <2>2. AttemptsAreLater' /\ LastIsPast'
    BY <1>8, StatusConstants
       DEF RegistrationWakes, TryRegistration, StopTrying, StatusTypeOK, AttemptsAreLater,
           LastIsPast, feedVars
  <2> QED  BY <2>1, <2>2
<1>9. CASE StatusArrives \/ StatusFails
  BY <1>9, StatusConstants
     DEF StatusArrives, StatusFails, StatusTypeOK, TunnelIsRead, ReadIsPublished, KnownIsShown,
         AttemptsAreLater, LastIsPast, channelVars, feedVars, regVars
<1>10. CASE ServiceRestarts
  <2>1. StatusTypeOK'
    BY <1>10 DEF ServiceRestarts, StatusTypeOK, Tunnels, Firewalls, Contents, pollVars
  <2> QED
    BY <1>10, <2>1, StatusConstants
       DEF ServiceRestarts, StatusTypeOK, TunnelIsRead, ReadIsPublished, KnownIsShown,
           AttemptsAreLater, LastIsPast, pollVars
<1>11. CASE UNCHANGED statusVars
  BY <1>11 DEF statusVars, StatusTypeOK, TunnelIsRead, ReadIsPublished, KnownIsShown,
               AttemptsAreLater, LastIsPast
<1> QED
  BY <1>1, <1>2, <1>3, <1>4, <1>5, <1>6, <1>7, <1>8, <1>9, <1>10, <1>11 DEF StatusNext

LEMMA StatusInvIsEnough == StatusInv => StatusIsCurrent
<1> SUFFICES ASSUME StatusInv  PROVE StatusIsCurrent
  OBVIOUS
<1>1. NothingUnread =>
        SameContents(status.of, Contents(tunnel, client, IF watching THEN firewall ELSE "unknown"))
  <2> SUFFICES ASSUME NothingUnread
               PROVE  SameContents(status.of, Contents(tunnel, client,
                                                      IF watching THEN firewall ELSE "unknown"))
    OBVIOUS
  <2> DEFINE now == Contents(tunnel, client, IF watching THEN firewall ELSE "unknown")
  <2>1. /\ now \in [tunnel : Tunnels, setting : 1..2, account : Accounts, firewall : Firewalls]
        /\ status.of \in [tunnel : Tunnels, setting : 1..2, account : Accounts, firewall : Firewalls]
    BY DEF StatusInv, StatusTypeOK, Contents, Firewalls
  <2>2. /\ status.of.tunnel = now.tunnel /\ status.of.setting = now.setting
        /\ status.of.firewall = now.firewall /\ SameAccount(status.of.account, now.account)
    BY DEF StatusInv, ReadIsPublished, NothingUnread, Contents, StatusTypeOK
  <2> QED  BY <2>1, <2>2, SameParts
<1>2. known = status.version => shown = status.of
  BY StatusConstants DEF StatusInv, KnownIsShown, StatusTypeOK
<1>3. registering = Unset /\ lastVersion = status.version => triedSince >= status.version
  BY StatusConstants DEF StatusInv, AttemptsAreLater, LastIsPast, StatusTypeOK
<1> QED  BY <1>1, <1>2, <1>3 DEF StatusIsCurrent

-----------------------------------------------------------------------------
(* The caches *)

Cached == [n : Nat, version : Version]
Reply == [body : Nat \cup {Empty}, etag : Nat \cup {Empty}]

ListTypeOK ==
  /\ serverList \in Nat /\ newest \in 0..serverList
  /\ user \in User \cup {Empty} /\ infoRaced \in BOOLEAN
  /\ list \in Cached \cup {Empty} /\ guiKnown \in Version \cup {Empty}
  /\ listLock \in Caller \cup {Empty}
  /\ at \in [Caller -> {"idle", "locked", "asked", "answered", "info"}]
  /\ prev \in [Caller -> Cached \cup {Empty}] /\ since \in [Caller -> Nat]
  /\ reply \in [Caller -> Reply \cup User \cup {Empty}]

(* One caller at a time fetches, and only it has found a list. *)
LockIsHeld ==
  \A c \in Caller :
    /\ at[c] \in {"locked", "asked", "answered"} <=> listLock = c
    /\ prev[c] # Empty => listLock = c

(* An ETag stands for one list of the server's, and a version in place of   *)
(* an ETag for one list the service has cached.                             *)
Honest(l) == l.n <= serverList /\ (l.version.etag => l.version.id = l.n)

VersionsAreHonest ==
  /\ list # Empty => Honest(list) /\ (guiKnown = list.version => guiList = list.n)
  /\ \A c \in Caller : prev[c] # Empty =>
       /\ Honest(prev[c])
       /\ guiKnown = prev[c].version => guiList = prev[c].n
       /\ list # Empty /\ list.version = prev[c].version => list.n = prev[c].n
  /\ guiKnown # Empty /\ guiKnown.etag => guiList = guiKnown.id

(* What an answer brings: the list asked about, or another *)
Brought(c) == IF reply[c].body = Empty THEN prev[c].n ELSE reply[c].body

ListIsNewest ==
  /\ list # Empty => list.n = newest
  /\ \A c \in Caller :
       /\ at[c] \in {"asked", "answered"} => since[c] \in newest..serverList
       /\ at[c] = "answered" =>
            /\ reply[c] \in Reply /\ (reply[c].body = Empty => prev[c] # Empty)
            /\ Brought(c) \in since[c]..serverList /\ reply[c].etag \in {Brought(c), Empty}

InfoIsOwn ==
  infoRaced = FALSE =>
    /\ info # Empty => info = user
    /\ \A c \in Caller : at[c] = "info" => reply[c] = user

ListInv == ListTypeOK /\ LockIsHeld /\ VersionsAreHonest /\ ListIsNewest /\ InfoIsOwn

-----------------------------------------------------------------------------
(* A version in place of an ETag is one that nothing has: nothing is cached *)
(* but the list, what the caller that holds the lock has found, and the     *)
(* application's.                                                           *)
LEMMA UnusedIsNew ==
  ASSUME ListTypeOK, LockIsHeld, NEW c \in Caller, listLock = c
  PROVE  /\ Unused \in Version /\ Unused.etag = FALSE
         /\ Unused \notin InUse
<1> DEFINE Candidates == 1..(Cardinality(Caller) + 3)
<1>1. Cardinality(Caller) \in Nat /\ Cardinality(Caller) > 0
  BY ListConstants, FS_CardinalityType, FS_EmptySet
<1>2. 1 \in Candidates /\ 2 \in Candidates /\ 3 \in Candidates /\ 4 \in Candidates
      /\ Candidates \subseteq Nat
  BY <1>1
<1>3. \A v \in InUse : v \in {list.version, prev[c].version, guiKnown}
  <2> SUFFICES ASSUME NEW v \in InUse  PROVE v \in {list.version, prev[c].version, guiKnown}
    OBVIOUS
  <2>1. CASE v # guiKnown
    <3>1. PICK l \in ({list} \cup {prev[d] : d \in Caller}) \ {Empty} : v = l.version
      BY <2>1 DEF InUse, Versions
    <3>2. CASE l = list
      BY <3>1, <3>2
    <3>3. CASE \E d \in Caller : l = prev[d]
      <4>1. PICK d \in Caller : l = prev[d]
        BY <3>3
      <4>2. listLock = d
        BY <3>1, <4>1 DEF LockIsHeld
      <4> QED  BY <3>1, <4>1, <4>2
    <3> QED  BY <3>1, <3>2, <3>3
  <2> QED  BY <2>1
<1>4. \A m, n \in Nat : Artificial(m) = Artificial(n) => m = n
  BY DEF Artificial
<1>5. \E n \in Candidates : Artificial(n) \notin InUse
  <2> SUFFICES ASSUME \A n \in Candidates : Artificial(n) \in InUse  PROVE FALSE
    OBVIOUS
  <2> DEFINE Three == {list.version, prev[c].version, guiKnown}
  <2>1. Artificial(1) \in Three /\ Artificial(2) \in Three /\ Artificial(3) \in Three
        /\ Artificial(4) \in Three
    BY <1>2, <1>3
  <2>2. /\ Artificial(1) # Artificial(2) /\ Artificial(1) # Artificial(3)
        /\ Artificial(1) # Artificial(4) /\ Artificial(2) # Artificial(3)
        /\ Artificial(2) # Artificial(4) /\ Artificial(3) # Artificial(4)
    BY <1>4
  <2> QED  BY <2>1, <2>2
<1>6. PICK n \in Candidates : Unused = Artificial(n) /\ Artificial(n) \notin InUse
  BY <1>5 DEF Unused
<1> QED  BY <1>2, <1>6 DEF Artificial, Version

(* What is stored is as new as what was brought, has an honest version, and *)
(* shares it with nothing but lists of the same number.                     *)
LEMMA NewListIsRight ==
  ASSUME ListInv, NEW c \in Caller, at[c] = "answered"
  PROVE  /\ NewList(c) \in Cached /\ NewList(c).n = Brought(c) /\ Honest(NewList(c))
         /\ guiKnown = NewList(c).version => guiList = NewList(c).n
<1>1. listLock = c /\ prev[c] \in Cached \cup {Empty}
  BY DEF ListInv, ListTypeOK, LockIsHeld
<1>2. /\ Unused \in Version /\ Unused.etag = FALSE /\ Unused # guiKnown
  BY <1>1, UnusedIsNew DEF ListInv, InUse
<1>3. /\ reply[c] \in Reply /\ (reply[c].body = Empty => prev[c] # Empty)
      /\ Brought(c) \in since[c]..serverList /\ reply[c].etag \in {Brought(c), Empty}
  BY DEF ListInv, ListIsNewest
<1>4. Brought(c) \in Nat /\ Brought(c) # Empty /\ Brought(c) <= serverList
  BY <1>3, ListConstants DEF ListInv, ListTypeOK
<1>5. /\ prev[c] # Empty => /\ Honest(prev[c]) /\ (guiKnown = prev[c].version => guiList = prev[c].n)
      /\ guiKnown # Empty /\ guiKnown.etag => guiList = guiKnown.id
  BY DEF ListInv, VersionsAreHonest
<1>6. NewList(c).n = Brought(c)
  BY DEF NewList, Brought
<1>7. CASE reply[c].etag # Empty
  <2>1. NewList(c).version = ETag(Brought(c))
    BY <1>3, <1>7 DEF NewList, VersionOf
  <2>2. NewList(c) = [n |-> Brought(c), version |-> ETag(Brought(c))]
    BY <1>3, <1>7 DEF NewList, VersionOf, Brought
  <2>3. /\ ETag(Brought(c)) \in Version /\ ETag(Brought(c)).etag = TRUE
        /\ ETag(Brought(c)).id = Brought(c)
    BY <1>4 DEF ETag, Version
  <2>4. guiKnown = ETag(Brought(c)) => guiList = Brought(c)
    BY <1>5, <2>3, ListConstants
  <2> QED  BY <1>4, <2>2, <2>3, <2>4 DEF Cached, Honest
<1>8. CASE reply[c].etag = Empty
  <2>1. CASE reply[c].body = Empty
    <3>1. NewList(c) = [n |-> prev[c].n, version |-> prev[c].version] /\ prev[c] # Empty
      BY <1>3, <1>8, <2>1 DEF NewList, VersionOf
    <3>2. prev[c] \in Cached
      BY <1>1, <3>1
    <3> QED  BY <1>5, <1>6, <3>1, <3>2 DEF Cached, Honest
  <2>2. CASE reply[c].body # Empty
    <3>1. NewList(c) = [n |-> Brought(c), version |-> Unused]
      BY <1>8, <2>2 DEF NewList, VersionOf, Brought
    <3> QED  BY <1>2, <1>4, <3>1 DEF Cached, Honest
  <2> QED  BY <2>1, <2>2
<1> QED  BY <1>7, <1>8

(* Leaving the lock leaves nothing behind. *)
LEMMA LeaveKeeps ==
  ASSUME ListInv, NEW c \in Caller, listLock = c, Leave(c),
         UNCHANGED <<serverList, user, infoRaced, info, guiKnown, guiList>>,
         \/ list' = list /\ newest' = newest
         \/ /\ list' \in Cached /\ list'.n = newest' /\ newest' \in newest..serverList
            /\ Honest(list') /\ (guiKnown = list'.version => guiList = list'.n)
  PROVE  ListInv'
<1>1. /\ at' = [at EXCEPT ![c] = "idle"] /\ listLock' = Empty
      /\ prev' = [prev EXCEPT ![c] = Empty] /\ reply' = [reply EXCEPT ![c] = Empty]
      /\ since' = [since EXCEPT ![c] = 0]
  BY DEF Leave
<1>2. newest' \in 0..serverList /\ list' \in Cached \cup {Empty}
  BY DEF ListInv, ListTypeOK
<1>3. ListTypeOK'
  BY <1>1, <1>2 DEF ListInv, ListTypeOK
<1>4. \A d \in Caller : d # c => at[d] \in {"idle", "info"} /\ prev[d] = Empty
  BY DEF ListInv, ListTypeOK, LockIsHeld
<1>5. \A d \in Caller : prev'[d] = Empty /\ at'[d] \in {"idle", "info"}
  BY <1>1, <1>4 DEF ListInv, ListTypeOK
<1>6. LockIsHeld'
  BY <1>1, <1>5, ListConstants DEF LockIsHeld
<1>7. VersionsAreHonest'
  <2>1. serverList' = serverList
    OBVIOUS
  <2> QED  BY <1>5, <2>1 DEF ListInv, VersionsAreHonest, Honest
<1>8. ListIsNewest'
  BY <1>5 DEF ListInv, ListIsNewest
<1>9. InfoIsOwn'
  BY <1>1 DEF ListInv, InfoIsOwn, ListTypeOK
<1> QED  BY <1>3, <1>6, <1>7, <1>8, <1>9 DEF ListInv

(* The steps of one caller *)
LEMMA CallerKeeps ==
  ASSUME ListInv, NEW c \in Caller,
         \/ Lock(c) \/ ListIsFresh(c) \/ AskForList(c) \/ ServeList(c) \/ ListFails(c) \/ StoreList(c)
         \/ AskForInfo(c) \/ StoreInfo(c)
  PROVE  ListInv'
<1> USE DEF ListInv
<1>1. CASE Lock(c)
  <2>1. /\ at[c] = "idle" /\ listLock = Empty /\ at' = [at EXCEPT ![c] = "locked"] /\ listLock' = c
        /\ UNCHANGED <<outside, list, isFresh, prev, reply, since, info, gui, newest>>
    BY <1>1 DEF Lock
  <2>2. ListTypeOK' /\ LockIsHeld'
    BY <2>1, ListConstants DEF outside, gui, ListTypeOK, LockIsHeld
  <2>3. VersionsAreHonest' /\ ListIsNewest' /\ InfoIsOwn'
    BY <2>1 DEF outside, gui, ListTypeOK, VersionsAreHonest, Honest, ListIsNewest, Brought, InfoIsOwn
  <2> QED  BY <2>2, <2>3
<1>2. CASE ListIsFresh(c) \/ ListFails(c)
  <2>1. at[c] \in {"locked", "asked", "answered"} /\ Leave(c)
        /\ UNCHANGED <<serverList, user, infoRaced, info, guiKnown, guiList, list, newest>>
    BY <1>2 DEF ListIsFresh, ListFails, outside, gui
  <2>2. listLock = c
    BY <2>1 DEF LockIsHeld
  <2> QED  BY <2>1, <2>2, LeaveKeeps
<1>3. CASE AskForList(c)
  <2>1. /\ at[c] = "locked" /\ at' = [at EXCEPT ![c] = "asked"]
        /\ prev' = [prev EXCEPT ![c] = list] /\ since' = [since EXCEPT ![c] = serverList]
        /\ UNCHANGED <<outside, list, isFresh, listLock, reply, info, gui, newest>>
    BY <1>3 DEF AskForList
  <2>2. ListTypeOK' /\ LockIsHeld'
    BY <2>1 DEF outside, gui, ListTypeOK, LockIsHeld
  <2>3. VersionsAreHonest'
    BY <2>1 DEF outside, gui, ListTypeOK, VersionsAreHonest, Honest
  <2>4. ListIsNewest'
    BY <2>1 DEF outside, gui, ListTypeOK, ListIsNewest, Brought
  <2>5. InfoIsOwn'
    BY <2>1 DEF outside, ListTypeOK, InfoIsOwn
  <2> QED  BY <2>2, <2>3, <2>4, <2>5
<1>4. CASE ServeList(c)
  <2>1. PICK etag \in {serverList, Empty} :
          reply' = [reply EXCEPT ![c] =
            [body |-> IF EtagOf(prev[c]) = serverList THEN Empty ELSE serverList, etag |-> etag]]
    BY <1>4 DEF ServeList
  <2>2. /\ at[c] = "asked" /\ at' = [at EXCEPT ![c] = "answered"]
        /\ UNCHANGED <<outside, list, isFresh, listLock, prev, since, info, gui, newest>>
    BY <1>4 DEF ServeList
  <2>3. serverList \in Nat /\ serverList # Empty
    BY ListConstants DEF ListTypeOK
  <2>4. EtagOf(prev[c]) = serverList =>
          prev[c] # Empty /\ prev[c].n = serverList
    BY <2>3 DEF EtagOf, VersionsAreHonest, Honest
  <2>5. PICK answer \in Reply : /\ reply' = [reply EXCEPT ![c] = answer]
                                /\ answer.body = Empty => prev[c] # Empty /\ prev[c].n = serverList
                                /\ answer.body # Empty => answer.body = serverList
                                /\ answer.etag \in {serverList, Empty}
    <3> DEFINE answer == [body |-> IF EtagOf(prev[c]) = serverList THEN Empty ELSE serverList,
                          etag |-> etag]
    <3>1. answer \in Reply
      BY <2>3 DEF Reply
    <3>2. answer.body = (IF EtagOf(prev[c]) = serverList THEN Empty ELSE serverList)
          /\ answer.etag = etag
      OBVIOUS
    <3>3. reply' = [reply EXCEPT ![c] = answer]
      BY <2>1
    <3> HIDE DEF answer
    <3> QED  BY <2>3, <2>4, <3>1, <3>2, <3>3
  <2>6. ListTypeOK' /\ LockIsHeld'
    BY <2>2, <2>5 DEF outside, gui, ListTypeOK, LockIsHeld
  <2>7. VersionsAreHonest'
    BY <2>2 DEF outside, gui, VersionsAreHonest, Honest
  <2>8. ListIsNewest'
    <3>1. reply'[c] = answer /\ \A d \in Caller : d # c => reply'[d] = reply[d]
      BY <2>5 DEF ListTypeOK
    <3>2. Brought(c)' = serverList
      BY <2>2, <2>5, <3>1 DEF Brought
    <3>3. \A d \in Caller : d # c => Brought(d)' = Brought(d)
      BY <2>2, <3>1 DEF Brought
    <3>4. at'[c] = "answered" /\ \A d \in Caller : d # c => at'[d] = at[d]
      BY <2>2 DEF ListTypeOK
    <3>5. since[c] \in newest..serverList
      BY <2>2 DEF ListIsNewest
    <3> QED
      BY <2>2, <2>3, <2>5, <3>1, <3>2, <3>3, <3>4, <3>5 DEF outside, ListTypeOK, ListIsNewest
  <2>9. InfoIsOwn'
    BY <2>2, <2>5 DEF outside, ListTypeOK, InfoIsOwn
  <2> QED  BY <2>6, <2>7, <2>8, <2>9
<1>5. CASE StoreList(c)
  <2>1. /\ at[c] = "answered" /\ list' = NewList(c) /\ newest' = LaterOf(newest, list'.n)
        /\ Leave(c) /\ UNCHANGED <<serverList, user, infoRaced, info, guiKnown, guiList>>
    BY <1>5 DEF StoreList, outside, gui
  <2>2. listLock = c
    BY <2>1 DEF LockIsHeld
  <2>3. /\ list' \in Cached /\ list'.n = Brought(c) /\ Honest(list')
        /\ guiKnown = list'.version => guiList = list'.n
    BY <2>1, NewListIsRight
  <2>4. since[c] \in newest..serverList /\ Brought(c) \in since[c]..serverList
    BY <2>1 DEF ListIsNewest
  <2>5. newest' = list'.n /\ newest' \in newest..serverList
    BY <2>1, <2>3, <2>4 DEF LaterOf, ListTypeOK
  <2> QED  BY <2>1, <2>2, <2>3, <2>5, LeaveKeeps
<1>6. CASE AskForInfo(c)
  <2>1. /\ at[c] = "idle" /\ user # Empty
        /\ at' = [at EXCEPT ![c] = "info"] /\ reply' = [reply EXCEPT ![c] = user]
        /\ UNCHANGED <<outside, list, isFresh, listLock, prev, since, info, gui, newest>>
    BY <1>6 DEF AskForInfo
  <2>2. ListTypeOK' /\ LockIsHeld'
    BY <2>1 DEF outside, gui, ListTypeOK, LockIsHeld
  <2>3. VersionsAreHonest' /\ InfoIsOwn'
    BY <2>1 DEF outside, gui, ListTypeOK, VersionsAreHonest, Honest, InfoIsOwn
  <2>4. ListIsNewest'
    BY <2>1 DEF outside, gui, ListTypeOK, ListIsNewest, Brought
  <2> QED  BY <2>2, <2>3, <2>4
<1>7. CASE StoreInfo(c)
  <2>1. /\ at[c] = "info" /\ info' \in {reply[c], info}
        /\ at' = [at EXCEPT ![c] = "idle"] /\ reply' = [reply EXCEPT ![c] = Empty]
        /\ UNCHANGED <<outside, list, isFresh, listLock, prev, since, gui, newest>>
    BY <1>7 DEF StoreInfo
  <2>2. ListTypeOK' /\ LockIsHeld'
    BY <2>1 DEF outside, gui, ListTypeOK, LockIsHeld
  <2>3. VersionsAreHonest' /\ InfoIsOwn'
    BY <2>1 DEF outside, gui, ListTypeOK, VersionsAreHonest, Honest, InfoIsOwn
  <2>4. ListIsNewest'
    BY <2>1 DEF outside, gui, ListTypeOK, ListIsNewest, Brought
  <2> QED  BY <2>2, <2>3, <2>4
<1> QED  BY <1>1, <1>2, <1>3, <1>4, <1>5, <1>6, <1>7

(* A login forgets what was cached, but not what is under way. *)
LEMMA ChangeUserKeeps ==
  ASSUME ListInv, NEW u \in User \cup {Empty}, ChangeUser(u)
  PROVE  ListInv'
<1> USE DEF ListInv
<1>1. /\ user' = u /\ list' = Empty /\ info' = Empty /\ newest' = 0
      /\ UNCHANGED <<serverList, listLock, at, prev, reply, since, guiKnown, guiList>>
  BY DEF ChangeUser, gui
<1>2. PICK raced \in BOOLEAN : infoRaced' = raced /\ (raced = FALSE => \A c \in Caller : at[c] # "info")
  BY DEF ChangeUser, InfoUnderWay
<1>3. ListTypeOK' /\ LockIsHeld'
  BY <1>1, <1>2 DEF ListTypeOK, LockIsHeld
<1>4. VersionsAreHonest'
  BY <1>1 DEF VersionsAreHonest, Honest
<1>5. ListIsNewest'
  BY <1>1 DEF ListTypeOK, ListIsNewest, Brought
<1>6. InfoIsOwn'
  BY <1>1, <1>2 DEF InfoIsOwn
<1> QED  BY <1>3, <1>4, <1>5, <1>6

LEMMA ListStepKeeps == ListInv /\ [ListNext]_listVars => ListInv'
<1> SUFFICES ASSUME ListInv, [ListNext]_listVars  PROVE ListInv'
  OBVIOUS
<1>1. CASE \E c \in Caller :
             \/ Lock(c) \/ ListIsFresh(c) \/ AskForList(c) \/ ServeList(c) \/ ListFails(c)
             \/ StoreList(c) \/ AskForInfo(c) \/ StoreInfo(c)
  BY <1>1, CallerKeeps
<1>2. CASE \E u \in User \cup {Empty} : ChangeUser(u)
  BY <1>2, ChangeUserKeeps
<1>3. CASE ServerChanges
  <2>1. /\ serverList' = serverList + 1 /\ serverList \in Nat
        /\ UNCHANGED <<user, list, listLock, at, prev, reply, since, info, guiKnown, guiList,
                       infoRaced, newest>>
    BY <1>3 DEF ServerChanges, gui, ListInv, ListTypeOK
  <2>2. ListTypeOK' /\ LockIsHeld' /\ InfoIsOwn'
    BY <2>1 DEF ListInv, ListTypeOK, LockIsHeld, InfoIsOwn
  <2>3. VersionsAreHonest'
    <3>1. \A l \in Cached : Honest(l) => l.n <= serverList'
      BY <2>1 DEF Cached, Honest
    <3>2. list # Empty => list \in Cached
      BY DEF ListInv, ListTypeOK
    <3>3. \A c \in Caller : prev[c] # Empty => prev[c] \in Cached
      BY DEF ListInv, ListTypeOK
    <3> QED  BY <2>1, <3>1, <3>2, <3>3 DEF ListInv, VersionsAreHonest, Honest
  <2>4. ListIsNewest'
    BY <2>1 DEF ListInv, ListTypeOK, ListIsNewest, Brought
  <2> QED  BY <2>2, <2>3, <2>4 DEF ListInv
<1>4. CASE ListAges \/ UNCHANGED listVars
  BY <1>4 DEF ListAges, listVars, outside, gui, ListInv, ListTypeOK, LockIsHeld, VersionsAreHonest,
              Honest, ListIsNewest, Brought, InfoIsOwn
<1>5. CASE ListArrives
  <2>1. /\ list # Empty /\ guiKnown' = list.version /\ guiList' = list.n
        /\ UNCHANGED <<serverList, user, infoRaced, list, listLock, at, prev, reply, since, info, newest>>
    BY <1>5 DEF ListArrives, outside
  <2>2. list \in Cached /\ list.version \in Version
    BY <2>1 DEF ListInv, ListTypeOK, Cached
  <2>3. ListTypeOK'
    BY <2>1, <2>2 DEF ListInv, ListTypeOK
  <2>4. LockIsHeld' /\ InfoIsOwn'
    BY <2>1 DEF ListInv, LockIsHeld, InfoIsOwn
  <2>5. VersionsAreHonest'
    BY <2>1 DEF ListInv, VersionsAreHonest, Honest
  <2>6. ListIsNewest'
    BY <2>1 DEF ListInv, ListIsNewest, Brought
  <2> QED  BY <2>3, <2>4, <2>5, <2>6 DEF ListInv
<1> QED  BY <1>1, <1>2, <1>3, <1>4, <1>5 DEF ListNext

LEMMA ListInitEstablishes == ListInit => ListInv
<1> SUFFICES ASSUME ListInit  PROVE ListInv
  OBVIOUS
<1>1. ListTypeOK
  <2>1. /\ at \in [Caller -> {"idle", "locked", "asked", "answered", "info"}]
        /\ since \in [Caller -> Nat]
    BY DEF ListInit
  <2>2. prev \in [Caller -> Cached \cup {Empty}] /\ reply \in [Caller -> Reply \cup User \cup {Empty}]
    BY DEF ListInit
  <2>3. serverList \in Nat /\ newest \in 0..serverList
    BY DEF ListInit
  <2> QED  BY <2>1, <2>2, <2>3 DEF ListInit, ListTypeOK
<1>2. LockIsHeld /\ VersionsAreHonest
  BY ListConstants DEF ListInit, LockIsHeld, VersionsAreHonest
<1>3. ListIsNewest /\ InfoIsOwn
  BY DEF ListInit, ListIsNewest, InfoIsOwn
<1> QED  BY <1>1, <1>2, <1>3 DEF ListInv

LEMMA ListInvIsEnough == ListInv => CachesAreRight
<1> SUFFICES ASSUME ListInv  PROVE CachesAreRight
  OBVIOUS
<1>1. ASSUME NEW c \in Caller, at[c] = "answered"  PROVE NewList(c).n >= since[c]
  <2>1. NewList(c).n = Brought(c) /\ Brought(c) \in since[c]..serverList
    BY <1>1, NewListIsRight DEF ListInv, ListIsNewest
  <2> QED  BY <2>1
<1>2. infoRaced \in BOOLEAN
  BY DEF ListInv, ListTypeOK
<1> QED  BY <1>1, <1>2 DEF ListInv, VersionsAreHonest, ListIsNewest, InfoIsOwn, CachesAreRight

-----------------------------------------------------------------------------
(* The commands of the user's processes *)

IpcTypes ==
  /\ access \in [Conn -> {"group", "member", "none"}]
  /\ cmd \in [Conn -> {"ping", "poll", "terminate", "garbage"}]
  /\ peer \in [Conn -> {"idle", "main", "live", "header", "waiting", "done", "gone"}]
  /\ result \in [Conn -> {"none", "no listener", "permission", "version", "other",
                          "ping", "poll", "terminate", "garbage"}]
  /\ stream \in [Conn -> {"none", "main", "live", "reading", "handing", "waiting", "closing",
                          "closed"}]
  /\ header \in [Conn -> {"none", "granted", "denied"}]
  /\ task \in [Conn -> {"none", "running", "finished"}]
  /\ response \in [Conn -> {"none", "ping", "poll", "terminate", "garbage"}]
  /\ ran \in [Conn -> Nat]

(* A stream begins when its client connects, and only for one who may try.  *)
BeginsOnce(c) ==
  /\ peer[c] \in {"idle", "main", "live"} => stream[c] = "none"
  /\ peer[c] = "live" \/ header[c] = "denied" \/ result[c] = "permission" => access[c] # "group"
  /\ stream[c] = "main" => access[c] = "group"
  /\ stream[c] \in {"reading", "handing"} => access[c] # "none"

(* A command is started once its request was handed over, and what answers *)
(* it is its own.                                                          *)
RunsOnce(c) ==
  /\ stream[c] \in {"none", "main", "live", "reading", "handing"} => ran[c] = 0
  /\ ran[c] <= 1 /\ (ran[c] = 1 => access[c] # "none")
  /\ response[c] # "none" => response[c] = cmd[c]
  /\ task[c] # "none" \/ response[c] # "none" \/ result[c] = cmd[c] =>
       ran[c] = 1 \/ cmd[c] = "garbage"

IpcInv == IpcTypes /\ \A c \in Conn : BeginsOnce(c) /\ RunsOnce(c)

LEMMA IpcInitEstablishes == IpcInit => IpcInv
<1> SUFFICES ASSUME IpcInit  PROVE IpcInv
  OBVIOUS
<1>1. IpcTypes
  BY IpcConstants DEF IpcInit, IpcTypes
<1>2. ASSUME NEW c \in Conn  PROVE BeginsOnce(c) /\ RunsOnce(c)
  BY <1>1 DEF IpcInit, IpcTypes, BeginsOnce, RunsOnce
<1> QED  BY <1>1, <1>2 DEF IpcInv

(* The steps of a connection concern no other. *)
Others(c) ==
  /\ UNCHANGED <<access, cmd>>
  /\ \A d \in Conn : d # c =>
       /\ peer'[d] = peer[d] /\ result'[d] = result[d] /\ stream'[d] = stream[d]
       /\ header'[d] = header[d] /\ task'[d] = task[d] /\ response'[d] = response[d]
       /\ ran'[d] = ran[d]

LEMMA ClientKeeps ==
  ASSUME IpcInv, NEW c \in Conn, Begin(c) \/ ClientStep(c) \/ ClientDies(c)
  PROVE  IpcInv'
<1>1. IpcTypes
  BY DEF IpcInv
<1>2. BeginsOnce(c) /\ RunsOnce(c)
  BY DEF IpcInv
<1>3. ASSUME Begin(c)  PROVE IpcTypes' /\ Others(c) /\ BeginsOnce(c)' /\ RunsOnce(c)'
  <2>1. IpcTypes'
    BY <1>1, <1>3 DEF Begin, To, serviceVars, IpcTypes
  <2>2. Others(c)
    BY <1>1, <1>3 DEF Begin, To, serviceVars, IpcTypes, Others
  <2>3. BeginsOnce(c)' /\ RunsOnce(c)'
    BY <1>1, <1>2, <1>3 DEF Begin, To, serviceVars, IpcTypes, BeginsOnce, RunsOnce
  <2> QED  BY <2>1, <2>2, <2>3
<1>4. ASSUME ClientDies(c)  PROVE IpcTypes' /\ Others(c) /\ BeginsOnce(c)' /\ RunsOnce(c)'
  <2>1. IpcTypes'
    BY <1>1, <1>4 DEF ClientDies, To, serviceVars, IpcTypes
  <2>2. Others(c)
    BY <1>1, <1>4 DEF ClientDies, To, serviceVars, IpcTypes, Others
  <2>3. BeginsOnce(c)' /\ RunsOnce(c)'
    BY <1>1, <1>2, <1>4 DEF ClientDies, To, serviceVars, IpcTypes, BeginsOnce, RunsOnce
  <2> QED  BY <2>1, <2>2, <2>3
<1>5. ASSUME Connect(c)  PROVE IpcTypes' /\ Others(c) /\ BeginsOnce(c)' /\ RunsOnce(c)'
  <2>1. CASE service = "down" /\ peer[c] = "main"
    <3>1. /\ peer' = [peer EXCEPT ![c] = "done"] /\ result' = [result EXCEPT ![c] = "no listener"]
          /\ UNCHANGED <<access, cmd, stream, header, task, response, ran>>
      BY <1>5, <2>1 DEF Connect, To, Tell, serviceVars
    <3>2. IpcTypes' /\ Others(c)
      BY <1>1, <2>1, <3>1 DEF IpcTypes, Others
    <3>3. BeginsOnce(c)' /\ RunsOnce(c)'
      BY <1>1, <1>2, <1>5, <2>1, <3>1 DEF Connect, IpcTypes, BeginsOnce, RunsOnce
    <3> QED  BY <3>2, <3>3
  <2>2. CASE service = "down" /\ peer[c] # "main"
    <3>1. /\ peer' = [peer EXCEPT ![c] = "done"] /\ result' = [result EXCEPT ![c] = "permission"]
          /\ UNCHANGED <<access, cmd, stream, header, task, response, ran>>
      BY <1>5, <2>2 DEF Connect, To, Tell, serviceVars
    <3>2. IpcTypes' /\ Others(c)
      BY <1>1, <2>2, <3>1 DEF IpcTypes, Others
    <3>3. BeginsOnce(c)' /\ RunsOnce(c)'
      BY <1>1, <1>2, <1>5, <2>2, <3>1 DEF Connect, IpcTypes, BeginsOnce, RunsOnce
    <3> QED  BY <3>2, <3>3
  <2>3. CASE service # "down" /\ peer[c] = "main" /\ access[c] # "group"
    <3>1. /\ peer' = [peer EXCEPT ![c] = "live"]
          /\ UNCHANGED <<access, cmd, result, stream, header, task, response, ran>>
      BY <1>5, <2>3 DEF Connect, To, Tell, serviceVars
    <3>2. IpcTypes' /\ Others(c)
      BY <1>1, <2>3, <3>1 DEF IpcTypes, Others
    <3>3. BeginsOnce(c)' /\ RunsOnce(c)'
      BY <1>1, <1>2, <1>5, <2>3, <3>1 DEF Connect, IpcTypes, BeginsOnce, RunsOnce
    <3> QED  BY <3>2, <3>3
  <2>4. CASE service # "down" /\ ~(peer[c] = "main" /\ access[c] # "group")
    <3>1. /\ stream' = [stream EXCEPT ![c] = peer[c]] /\ peer' = [peer EXCEPT ![c] = "header"]
          /\ peer[c] \in {"main", "live"}
          /\ UNCHANGED <<access, cmd, result, header, task, response, ran>>
      BY <1>5, <2>4 DEF Connect, To, Tell, serviceVars
    <3>2. IpcTypes' /\ Others(c)
      BY <1>1, <2>4, <3>1 DEF IpcTypes, Others
    <3>3. BeginsOnce(c)' /\ RunsOnce(c)'
      BY <1>1, <1>2, <1>5, <2>4, <3>1 DEF Connect, IpcTypes, BeginsOnce, RunsOnce
    <3> QED  BY <3>2, <3>3
  <2> QED  BY <2>1, <2>2, <2>3, <2>4
<1>6. ASSUME ReadIpcHeader(c)  PROVE IpcTypes' /\ Others(c) /\ BeginsOnce(c)' /\ RunsOnce(c)'
  <2>1. CASE header[c] = "denied"
    <3>1. /\ peer' = [peer EXCEPT ![c] = "done"] /\ result' = [result EXCEPT ![c] = "permission"]
          /\ UNCHANGED <<access, cmd, stream, header, task, response, ran>>
      BY <1>6, <2>1 DEF ReadIpcHeader, To, Tell, serviceVars
    <3>2. IpcTypes' /\ Others(c)
      BY <1>1, <2>1, <3>1 DEF IpcTypes, Others
    <3>3. BeginsOnce(c)' /\ RunsOnce(c)'
      BY <1>1, <1>2, <1>6, <2>1, <3>1 DEF ReadIpcHeader, IpcTypes, BeginsOnce, RunsOnce
    <3> QED  BY <3>2, <3>3
  <2>2. CASE header[c] # "denied" /\ upgraded
    <3>1. /\ peer' = [peer EXCEPT ![c] = "done"] /\ result' = [result EXCEPT ![c] = "version"]
          /\ UNCHANGED <<access, cmd, stream, header, task, response, ran>>
      BY <1>6, <2>2 DEF ReadIpcHeader, To, Tell, serviceVars
    <3>2. IpcTypes' /\ Others(c)
      BY <1>1, <2>2, <3>1 DEF IpcTypes, Others
    <3>3. BeginsOnce(c)' /\ RunsOnce(c)'
      BY <1>1, <1>2, <1>6, <2>2, <3>1 DEF ReadIpcHeader, IpcTypes, BeginsOnce, RunsOnce
    <3> QED  BY <3>2, <3>3
  <2>3. CASE header[c] # "denied" /\ ~upgraded
    <3>1. /\ peer' = [peer EXCEPT ![c] = "waiting"]
          /\ UNCHANGED <<access, cmd, result, stream, header, task, response, ran>>
      BY <1>6, <2>3 DEF ReadIpcHeader, To, Tell, serviceVars
    <3>2. IpcTypes' /\ Others(c)
      BY <1>1, <2>3, <3>1 DEF IpcTypes, Others
    <3>3. BeginsOnce(c)' /\ RunsOnce(c)'
      BY <1>1, <1>2, <1>6, <2>3, <3>1 DEF ReadIpcHeader, IpcTypes, BeginsOnce, RunsOnce
    <3> QED  BY <3>2, <3>3
  <2> QED  BY <2>1, <2>2, <2>3
<1>7. ASSUME ReadResponse(c)  PROVE IpcTypes' /\ Others(c) /\ BeginsOnce(c)' /\ RunsOnce(c)'
  <2>1. IpcTypes'
    BY <1>1, <1>7 DEF ReadResponse, To, Tell, serviceVars, IpcTypes
  <2>2. Others(c)
    BY <1>1, <1>7 DEF ReadResponse, To, Tell, serviceVars, IpcTypes, Others
  <2>3. BeginsOnce(c)' /\ RunsOnce(c)'
    BY <1>1, <1>2, <1>7 DEF ReadResponse, To, Tell, serviceVars, IpcTypes, BeginsOnce, RunsOnce
  <2> QED  BY <2>1, <2>2, <2>3
<1>8. ASSUME ReadNothing(c)  PROVE IpcTypes' /\ Others(c) /\ BeginsOnce(c)' /\ RunsOnce(c)'
  <2>1. IpcTypes'
    BY <1>1, <1>8 DEF ReadNothing, To, Tell, serviceVars, IpcTypes
  <2>2. Others(c)
    BY <1>1, <1>8 DEF ReadNothing, To, Tell, serviceVars, IpcTypes, Others
  <2>3. BeginsOnce(c)' /\ RunsOnce(c)'
    BY <1>1, <1>2, <1>8 DEF ReadNothing, To, Tell, serviceVars, IpcTypes, BeginsOnce, RunsOnce
  <2> QED  BY <2>1, <2>2, <2>3
<1>9. IpcTypes' /\ Others(c) /\ BeginsOnce(c)' /\ RunsOnce(c)'
  BY <1>3, <1>4, <1>5, <1>6, <1>7, <1>8 DEF ClientStep
<1>10. ASSUME NEW d \in Conn  PROVE BeginsOnce(d)' /\ RunsOnce(d)'
  BY <1>9 DEF Others, IpcInv, BeginsOnce, RunsOnce
<1> QED  BY <1>9, <1>10 DEF IpcInv

LEMMA StreamKeeps ==
  ASSUME IpcInv, NEW c \in Conn, StreamStep(c) \/ Dispatch(c) \/ RunCommand(c)
  PROVE  IpcInv'
<1>1. IpcTypes
  BY DEF IpcInv
<1>2. BeginsOnce(c) /\ RunsOnce(c)
  BY DEF IpcInv
<1>3. ASSUME WriteHeader(c)  PROVE IpcTypes' /\ Others(c) /\ BeginsOnce(c)' /\ RunsOnce(c)'
  <2>1. CASE stream[c] = "live" /\ access[c] = "none"
    <3>1. /\ header' = [header EXCEPT ![c] = "denied"] /\ stream' = [stream EXCEPT ![c] = "closed"]
          /\ UNCHANGED <<access, cmd, peer, result, task, response, ran>>
      BY <1>3, <2>1 DEF WriteHeader, To, serviceVars
    <3>2. IpcTypes' /\ Others(c)
      BY <1>1, <2>1, <3>1 DEF IpcTypes, Others
    <3>3. BeginsOnce(c)' /\ RunsOnce(c)'
      BY <1>1, <1>2, <1>3, <2>1, <3>1 DEF WriteHeader, IpcTypes, BeginsOnce, RunsOnce
    <3> QED  BY <3>2, <3>3
  <2>2. CASE ~(stream[c] = "live" /\ access[c] = "none")
    <3>1. /\ header' = [header EXCEPT ![c] = "granted"] /\ stream' = [stream EXCEPT ![c] = "reading"]
          /\ UNCHANGED <<access, cmd, peer, result, task, response, ran>>
      BY <1>3, <2>2 DEF WriteHeader, To, serviceVars
    <3>2. IpcTypes' /\ Others(c)
      BY <1>1, <2>2, <3>1 DEF IpcTypes, Others
    <3>3. BeginsOnce(c)' /\ RunsOnce(c)'
      BY <1>1, <1>2, <1>3, <2>2, <3>1 DEF WriteHeader, IpcTypes, BeginsOnce, RunsOnce
    <3> QED  BY <3>2, <3>3
  <2> QED  BY <2>1, <2>2
<1>4. ASSUME ReadRequest(c)  PROVE IpcTypes' /\ Others(c) /\ BeginsOnce(c)' /\ RunsOnce(c)'
  <2>1. IpcTypes'
    BY <1>1, <1>4 DEF ReadRequest, To, serviceVars, IpcTypes
  <2>2. Others(c)
    BY <1>1, <1>4 DEF ReadRequest, To, serviceVars, IpcTypes, Others
  <2>3. BeginsOnce(c)' /\ RunsOnce(c)'
    BY <1>1, <1>2, <1>4 DEF ReadRequest, To, serviceVars, IpcTypes, BeginsOnce, RunsOnce
  <2> QED  BY <2>1, <2>2, <2>3
<1>5. ASSUME WriteResponse(c)  PROVE IpcTypes' /\ Others(c) /\ BeginsOnce(c)' /\ RunsOnce(c)'
  <2>1. CASE Gone(c)
    <3>1. /\ stream' = [stream EXCEPT ![c] = "closed"]
          /\ UNCHANGED <<access, cmd, peer, result, header, task, response, ran>>
      BY <1>5, <2>1 DEF WriteResponse, To, serviceVars
    <3>2. IpcTypes' /\ Others(c)
      BY <1>1, <2>1, <3>1 DEF IpcTypes, Others
    <3>3. BeginsOnce(c)' /\ RunsOnce(c)'
      BY <1>1, <1>2, <1>5, <2>1, <3>1 DEF WriteResponse, IpcTypes, BeginsOnce, RunsOnce
    <3> QED  BY <3>2, <3>3
  <2>2. CASE ~Gone(c)
    <3>1. /\ stream' = [stream EXCEPT ![c] = "closing"] /\ response' = [response EXCEPT ![c] = cmd[c]]
          /\ UNCHANGED <<access, cmd, peer, result, header, task, ran>>
      BY <1>5, <2>2 DEF WriteResponse, To, serviceVars
    <3>2. IpcTypes' /\ Others(c)
      BY <1>1, <2>2, <3>1 DEF IpcTypes, Others
    <3>3. BeginsOnce(c)' /\ RunsOnce(c)'
      BY <1>1, <1>2, <1>5, <2>2, <3>1 DEF WriteResponse, IpcTypes, BeginsOnce, RunsOnce
    <3> QED  BY <3>2, <3>3
  <2> QED  BY <2>1, <2>2
<1>6. ASSUME SeeHangUp(c)  PROVE IpcTypes' /\ Others(c) /\ BeginsOnce(c)' /\ RunsOnce(c)'
  <2>1. IpcTypes'
    BY <1>1, <1>6 DEF SeeHangUp, To, serviceVars, IpcTypes
  <2>2. Others(c)
    BY <1>1, <1>6 DEF SeeHangUp, To, serviceVars, IpcTypes, Others
  <2>3. BeginsOnce(c)' /\ RunsOnce(c)'
    BY <1>1, <1>2, <1>6 DEF SeeHangUp, To, serviceVars, IpcTypes, BeginsOnce, RunsOnce
  <2> QED  BY <2>1, <2>2, <2>3
<1>7. ASSUME SeeEnd(c)  PROVE IpcTypes' /\ Others(c) /\ BeginsOnce(c)' /\ RunsOnce(c)'
  <2>1. IpcTypes'
    BY <1>1, <1>7 DEF SeeEnd, To, serviceVars, IpcTypes
  <2>2. Others(c)
    BY <1>1, <1>7 DEF SeeEnd, To, serviceVars, IpcTypes, Others
  <2>3. BeginsOnce(c)' /\ RunsOnce(c)'
    BY <1>1, <1>2, <1>7 DEF SeeEnd, To, serviceVars, IpcTypes, BeginsOnce, RunsOnce
  <2> QED  BY <2>1, <2>2, <2>3
<1>8. ASSUME Dispatch(c)  PROVE IpcTypes' /\ Others(c) /\ BeginsOnce(c)' /\ RunsOnce(c)'
  <2>1. CASE cmd[c] = "garbage"
    <3>1. /\ stream' = [stream EXCEPT ![c] = "waiting"] /\ task' = [task EXCEPT ![c] = "finished"]
          /\ UNCHANGED <<access, cmd, peer, result, header, response, ran>>
      BY <1>8, <2>1 DEF Dispatch, To, serviceVars
    <3>2. IpcTypes' /\ Others(c)
      BY <1>1, <2>1, <3>1 DEF IpcTypes, Others
    <3>3. BeginsOnce(c)' /\ RunsOnce(c)'
      BY <1>1, <1>2, <1>8, <2>1, <3>1 DEF Dispatch, IpcTypes, BeginsOnce, RunsOnce
    <3> QED  BY <3>2, <3>3
  <2>2. CASE cmd[c] # "garbage"
    <3>1. ran[c] = 0 /\ access[c] # "none"
      BY <1>2, <1>8 DEF Dispatch, BeginsOnce, RunsOnce
    <3>2. /\ stream' = [stream EXCEPT ![c] = "waiting"] /\ task' = [task EXCEPT ![c] = "running"]
          /\ ran' = [ran EXCEPT ![c] = 1]
          /\ UNCHANGED <<access, cmd, peer, result, header, response>>
      BY <1>8, <2>2, <3>1 DEF Dispatch, To, serviceVars
    <3>3. IpcTypes' /\ Others(c)
      BY <1>1, <3>2 DEF IpcTypes, Others
    <3>4. BeginsOnce(c)' /\ RunsOnce(c)'
      <4>1. stream'[c] = "waiting" /\ ran'[c] = 1
        BY <1>1, <3>2 DEF IpcTypes
      <4>2. stream[c] = "handing"
        BY <1>8 DEF Dispatch
      <4> QED  BY <1>2, <3>1, <3>2, <4>1, <4>2 DEF BeginsOnce, RunsOnce
    <3> QED  BY <3>3, <3>4
  <2> QED  BY <2>1, <2>2
<1>9. ASSUME RunCommand(c)  PROVE IpcTypes' /\ Others(c) /\ BeginsOnce(c)' /\ RunsOnce(c)'
  <2>1. IpcTypes'
    BY <1>1, <1>9 DEF RunCommand, To, serviceVars, IpcTypes
  <2>2. Others(c)
    BY <1>1, <1>9 DEF RunCommand, To, serviceVars, IpcTypes, Others
  <2>3. BeginsOnce(c)' /\ RunsOnce(c)'
    BY <1>1, <1>2, <1>9 DEF RunCommand, To, serviceVars, IpcTypes, BeginsOnce, RunsOnce
  <2> QED  BY <2>1, <2>2, <2>3
<1>10. IpcTypes' /\ Others(c) /\ BeginsOnce(c)' /\ RunsOnce(c)'
  BY <1>3, <1>4, <1>5, <1>6, <1>7, <1>8, <1>9 DEF StreamStep
<1>11. ASSUME NEW d \in Conn  PROVE BeginsOnce(d)' /\ RunsOnce(d)'
  BY <1>10 DEF Others, IpcInv, BeginsOnce, RunsOnce
<1> QED  BY <1>10, <1>11 DEF IpcInv

LEMMA IpcStepKeeps == IpcInv /\ [IpcNext]_ipcVars => IpcInv'
<1> SUFFICES ASSUME IpcInv, [IpcNext]_ipcVars  PROVE IpcInv'
  OBVIOUS
<1>1. ASSUME NEW c \in Conn, \/ Begin(c) \/ ClientStep(c) \/ ClientDies(c)
                             \/ StreamStep(c) \/ Dispatch(c) \/ RunCommand(c)
      PROVE  IpcInv'
  BY <1>1, ClientKeeps, StreamKeeps
<1>2. CASE StartService \/ StartLoop \/ Happens \/ UNCHANGED ipcVars
  <2>1. UNCHANGED <<access, cmd, peer, result, stream, header, task, response, ran>>
    BY <1>2 DEF StartService, StartLoop, Happens, ipcVars
  <2> QED  BY <2>1 DEF IpcInv, IpcTypes, BeginsOnce, RunsOnce
<1>3. CASE EndService
  <2>1. IpcTypes'
    BY <1>3 DEF EndService, IpcInv, IpcTypes
  <2>2. ASSUME NEW c \in Conn  PROVE BeginsOnce(c)' /\ RunsOnce(c)'
    BY <1>3 DEF EndService, IpcInv, IpcTypes, BeginsOnce, RunsOnce
  <2> QED  BY <2>1, <2>2 DEF IpcInv
<1> QED  BY <1>1, <1>2, <1>3 DEF IpcNext

LEMMA IpcInvIsEnough == IpcInv => \A c \in Conn : AnswerIsOwn(c)
BY DEF IpcInv, BeginsOnce, RunsOnce, AnswerIsOwn

-----------------------------------------------------------------------------
(* Debug bundles *)

Begun == {"collecting", "died"}

BundleTypes ==
  /\ create \in [Bundle -> {"idle", "claimed", "collecting", "ok", "failed", "rejected", "died"}]
  /\ workDir \in [Bundle -> {"none", "made", "archive"}]
  /\ staging \in [Bundle -> BOOLEAN] /\ lost \in [Bundle -> BOOLEAN]
  /\ asks \in [Bundle -> {"create", "creating", "copy", "delete", "deleting", "over"}]
  /\ job \in [Bundle -> {"idle", "info", "mkdir", "populate", "open", "register", "forget",
                         "remove", "ok", "failed"}]
  /\ dir \in [Bundle -> {"none", "private", "open"}]

(* The service's directory is gone, or given up; or its token is there still. *)
DirIsAway(b) == lost[b] = TRUE \/ dir[b] = "none"
DirIsKnown(b) == DirIsAway(b) \/ b \in tokens

(* The application and the service agree on how far the bundle is. *)
BundleGoesOn(b) ==
  /\ create[b] \notin Begun => asks[b] \in {"create", "over"}
  /\ create[b] \notin Begun => lost[b] = TRUE \/ staging[b] = FALSE
  /\ workDir[b] = "archive" <=> create[b] = "ok"
  /\ asks[b] = "create" => job[b] = "idle" /\ dir[b] = "none"
  /\ asks[b] = "creating" =>
       /\ job[b] \notin {"idle", "forget", "remove"}
       /\ job[b] \in {"info", "mkdir"} => dir[b] = "none"
       /\ job[b] = "ok" => DirIsKnown(b)
       /\ job[b] = "failed" => DirIsAway(b)
  /\ asks[b] \in {"copy", "delete"} => job[b] = "idle" /\ DirIsKnown(b)
  /\ asks[b] = "deleting" =>
       /\ job[b] \in {"forget", "remove", "ok", "failed"}
       /\ job[b] = "forget" => DirIsKnown(b)
       /\ job[b] \in {"ok", "failed"} => DirIsAway(b)
  /\ asks[b] = "over" => job[b] = "idle" /\ DirIsAway(b)

Busy(b) == create[b] \in {"claimed", "collecting"}

(* The status says that a bundle is in progress while just one is. *)
OneBundle ==
  /\ \A b, c \in Bundle : Busy(b) /\ Busy(c) => b = c
  /\ inProgress \in BOOLEAN /\ (inProgress = TRUE <=> \E b \in Bundle : Busy(b))

BundleInv == BundleTypes /\ OneBundle /\ \A b \in Bundle : BundleGoesOn(b)

LEMMA BundleInitEstablishes == BundleInit => BundleInv
<1> SUFFICES ASSUME BundleInit  PROVE BundleInv
  OBVIOUS
<1>1. BundleTypes /\ \A b \in Bundle : BundleGoesOn(b)
  BY DEF BundleInit, BundleTypes, BundleGoesOn, Begun
<1>2. OneBundle
  BY DEF BundleInit, OneBundle, Busy
<1> QED  BY <1>1, <1>2 DEF BundleInv

(* The steps of a bundle concern no other. *)
LEMMA ApplicationKeeps ==
  ASSUME BundleInv, NEW b \in Bundle,
         \/ Claim(b) \/ MakeStaging(b) \/ RunDebugTasks(b) \/ SendCommand(b) \/ ReadAnswer(b)
         \/ CopyServiceBundle(b) \/ ZipAndRemove(b)
  PROVE  BundleInv'
<1> USE DEF BundleInv, Put, serviceSide
<1>1. UNCHANGED <<dir, tokens>>
  BY DEF Claim, MakeStaging, RunDebugTasks, SendCommand, ReadAnswer, CopyServiceBundle,
         ZipAndRemove
<1>2. ASSUME NEW d \in Bundle, d # b
      PROVE  /\ create'[d] = create[d] /\ staging'[d] = staging[d] /\ asks'[d] = asks[d]
             /\ workDir'[d] = workDir[d] /\ job'[d] = job[d] /\ lost'[d] = lost[d]
  BY <1>2 DEF BundleTypes, Claim, MakeStaging, RunDebugTasks, SendCommand, ReadAnswer,
              CopyServiceBundle, ZipAndRemove, EndStatus
<1>3. BundleTypes' /\ BundleGoesOn(b)'
  <2> USE DEF BundleTypes, BundleGoesOn, DirIsAway, DirIsKnown, Begun
  <2>1. CASE Claim(b)
    BY <1>1, <2>1 DEF Claim
  <2>2. CASE MakeStaging(b)
    <3>1. create[b] = "claimed" /\ UNCHANGED <<asks, job, lost>>
      BY <2>2 DEF MakeStaging
    <3>2. CASE /\ create' = [create EXCEPT ![b] = "collecting"]
               /\ workDir' = [workDir EXCEPT ![b] = "made"]
               /\ staging' = [staging EXCEPT ![b] = TRUE]
      BY <1>1, <3>1, <3>2
    <3>3. CASE /\ create' = [create EXCEPT ![b] = "failed"] /\ UNCHANGED staging
               /\ \E made \in {"none", "made"} : workDir' = [workDir EXCEPT ![b] = made]
      BY <1>1, <3>1, <3>3
    <3> HIDE DEF BundleTypes, BundleGoesOn
    <3> QED  BY <2>2, <3>2, <3>3 DEF MakeStaging, EndStatus
  <2>3. CASE RunDebugTasks(b) \/ CopyServiceBundle(b)
    BY <1>1, <2>3 DEF RunDebugTasks, CopyServiceBundle
  <2>4. CASE SendCommand(b)
    <3>1. create[b] = "collecting" /\ UNCHANGED <<create, workDir, staging>>
      BY <2>4 DEF SendCommand
    <3>2. CASE /\ asks[b] = "create" /\ UNCHANGED lost
               /\ job' = [job EXCEPT ![b] = "info"] /\ asks' = [asks EXCEPT ![b] = "creating"]
      BY <1>1, <3>1, <3>2
    <3>3. CASE /\ asks[b] = "delete" /\ UNCHANGED lost
               /\ job' = [job EXCEPT ![b] = "forget"] /\ asks' = [asks EXCEPT ![b] = "deleting"]
      BY <1>1, <3>1, <3>3
    <3>4. CASE /\ asks[b] \in {"create", "delete"} /\ UNCHANGED job
               /\ asks' = [asks EXCEPT ![b] = "over"]
               /\ lost' = [lost EXCEPT ![b] = asks[b] = "delete"]
      BY <1>1, <3>1, <3>4
    <3> HIDE DEF BundleTypes, BundleGoesOn
    <3> QED  BY <2>4, <3>2, <3>3, <3>4 DEF SendCommand
  <2>5. CASE ReadAnswer(b)
    BY <1>1, <2>5 DEF ReadAnswer
  <2>6. CASE ZipAndRemove(b)
    <3>1. PICK zipped \in BOOLEAN, removed \in BOOLEAN :
            /\ create' = [create EXCEPT ![b] = IF zipped THEN "ok" ELSE "failed"]
            /\ workDir' = IF zipped THEN [workDir EXCEPT ![b] = "archive"] ELSE workDir
            /\ staging' = [staging EXCEPT ![b] = ~removed]
            /\ lost' = [lost EXCEPT ![b] = lost[b] \/ ~removed]
      BY <2>6 DEF ZipAndRemove, EndStatus
    <3>2. create[b] = "collecting" /\ asks[b] = "over" /\ UNCHANGED <<asks, job>>
      BY <2>6 DEF ZipAndRemove
    <3>3. staging'[b] = (~removed) /\ lost'[b] = (lost[b] \/ ~removed)
      BY <3>1
    <3>4. BundleTypes'
      BY <1>1, <3>1, <3>2
    <3>5. CASE zipped = TRUE
      BY <1>1, <3>1, <3>2, <3>3, <3>5
    <3>6. CASE zipped = FALSE
      BY <1>1, <3>1, <3>2, <3>3, <3>4, <3>6
    <3> QED  BY <3>4, <3>5, <3>6
  <2> QED  BY <2>1, <2>2, <2>3, <2>4, <2>5, <2>6
<1>4. ASSUME NEW d \in Bundle, d # b  PROVE BundleGoesOn(d)'
  BY <1>1, <1>2, <1>4 DEF BundleGoesOn, DirIsAway, DirIsKnown
<1>5. OneBundle'
  <2>1. CASE Claim(b) /\ inProgress = FALSE
    <3>1. create'[b] = "claimed" /\ inProgress' = TRUE
      BY <2>1 DEF Claim, BundleTypes
    <3>2. \A d \in Bundle : ~Busy(d)
      BY <2>1 DEF OneBundle
    <3>3. \A d \in Bundle : Busy(d)' => d = b
      BY <1>2, <3>2 DEF Busy
    <3> QED  BY <3>1, <3>3 DEF OneBundle, Busy
  <2>2. CASE Claim(b) /\ inProgress = TRUE
    <3>1. create[b] = "idle" /\ create'[b] = "rejected" /\ inProgress' = TRUE
      BY <2>2 DEF Claim, BundleTypes
    <3>2. \A d \in Bundle : Busy(d)' <=> Busy(d)
      BY <1>2, <3>1 DEF Busy
    <3> QED  BY <2>2, <3>1, <3>2 DEF OneBundle
  <2>3. ASSUME create[b] \in {"claimed", "collecting"}, inProgress' = FALSE,
               create'[b] \in {"ok", "failed"}
        PROVE  OneBundle'
    <3>1. \A d \in Bundle : d # b => ~Busy(d)
      BY <2>3 DEF OneBundle, Busy
    <3>2. \A d \in Bundle : ~Busy(d)'
      BY <1>2, <2>3, <3>1 DEF Busy
    <3> QED  BY <2>3, <3>2 DEF OneBundle
  <2>4. ASSUME create[b] \in {"claimed", "collecting"}, inProgress' = inProgress,
               create'[b] = "collecting"
        PROVE  OneBundle'
    <3>1. \A d \in Bundle : Busy(d)' <=> Busy(d)
      BY <1>2, <2>4 DEF Busy
    <3> QED  BY <2>4, <3>1 DEF OneBundle
  <2>5. CASE MakeStaging(b)
    BY <2>3, <2>4, <2>5 DEF MakeStaging, EndStatus, BundleTypes
  <2>6. CASE ZipAndRemove(b)
    <3>1. /\ create[b] = "collecting" /\ inProgress' = FALSE
          /\ \E o \in {"ok", "failed"} : create' = [create EXCEPT ![b] = o]
      BY <2>6 DEF ZipAndRemove, EndStatus
    <3> QED  BY <2>3, <3>1 DEF BundleTypes
  <2>7. CASE RunDebugTasks(b) \/ SendCommand(b) \/ ReadAnswer(b) \/ CopyServiceBundle(b)
    <3>1. UNCHANGED <<create, inProgress>>
      BY <2>7 DEF RunDebugTasks, SendCommand, ReadAnswer, CopyServiceBundle
    <3> QED  BY <3>1 DEF OneBundle, Busy
  <2> QED  BY <2>1, <2>2, <2>5, <2>6, <2>7 DEF OneBundle
<1> QED  BY <1>3, <1>4, <1>5

LEMMA CommandOfBundleKeeps ==
  ASSUME BundleInv, NEW b \in Bundle,
         \/ GetDebugInfo(b) \/ Mkdir(b) \/ Populate(b) \/ MakeUserReadable(b) \/ Register(b)
         \/ ForgetToken(b) \/ RemoveDir(b)
  PROVE  BundleInv'
<1> USE DEF BundleInv, Put, Works, uiVars
<1>1. UNCHANGED <<create, workDir, staging, asks>>
  BY DEF GetDebugInfo, Mkdir, Populate, MakeUserReadable, Register, ForgetToken, RemoveDir
<1>2. ASSUME NEW d \in Bundle, d # b
      PROVE  /\ job'[d] = job[d] /\ dir'[d] = dir[d] /\ lost'[d] = lost[d]
             /\ d \in tokens => d \in tokens'
  BY <1>2 DEF BundleTypes, GetDebugInfo, Mkdir, Populate, MakeUserReadable, Register,
              ForgetToken, RemoveDir
<1>3. BundleTypes' /\ BundleGoesOn(b)'
  <2> USE DEF BundleTypes, BundleGoesOn, DirIsAway, DirIsKnown, Begun
  <2>1. CASE GetDebugInfo(b) \/ Populate(b)
    BY <1>1, <2>1 DEF GetDebugInfo, Populate
  <2>2. CASE Mkdir(b)
    BY <1>1, <2>2 DEF Mkdir
  <2>3. CASE MakeUserReadable(b)
    BY <1>1, <2>3 DEF MakeUserReadable
  <2>4. CASE Register(b)
    BY <1>1, <2>4 DEF Register
  <2>5. CASE ForgetToken(b)
    BY <1>1, <2>5 DEF ForgetToken
  <2>6. CASE RemoveDir(b)
    BY <1>1, <2>6 DEF RemoveDir
  <2> QED  BY <2>1, <2>2, <2>3, <2>4, <2>5, <2>6
<1>4. ASSUME NEW d \in Bundle, d # b  PROVE BundleGoesOn(d)'
  BY <1>1, <1>2, <1>4 DEF BundleGoesOn, DirIsAway, DirIsKnown
<1>5. OneBundle'
  <2>1. UNCHANGED <<create, inProgress>>
    BY DEF GetDebugInfo, Mkdir, Populate, MakeUserReadable, Register, ForgetToken, RemoveDir
  <2> QED  BY <2>1 DEF OneBundle, Busy
<1> QED  BY <1>3, <1>4, <1>5

LEMMA BundleStepKeeps == BundleInv /\ [BundleNext]_bundleVars => BundleInv'
<1> SUFFICES ASSUME BundleInv, [BundleNext]_bundleVars  PROVE BundleInv'
  OBVIOUS
<1>1. ASSUME NEW b \in Bundle, Claim(b) \/ BundleStep(b)  PROVE BundleInv'
  BY <1>1, ApplicationKeeps, CommandOfBundleKeeps DEF BundleStep
<1>2. CASE GuiDies
  <2>1. /\ inProgress' = FALSE /\ UNCHANGED <<workDir, staging, asks, job, dir, tokens>>
        /\ create' = [b \in Bundle |-> IF create[b] \in {"claimed", "collecting"} THEN "died"
                                       ELSE create[b]]
        /\ lost' = [b \in Bundle |-> lost[b] \/ create[b] \in {"claimed", "collecting"}]
    BY <1>2 DEF GuiDies, serviceSide
  <2>2. BundleTypes'
    BY <2>1 DEF BundleInv, BundleTypes
  <2>3. ASSUME NEW b \in Bundle  PROVE BundleGoesOn(b)'
    BY <2>1 DEF BundleInv, BundleTypes, BundleGoesOn, DirIsAway, DirIsKnown, Begun
  <2>4. OneBundle'
    BY <2>1 DEF OneBundle, Busy, BundleInv, BundleTypes
  <2> QED  BY <2>2, <2>3, <2>4 DEF BundleInv
<1>3. CASE ServiceDies
  <2>1. /\ UNCHANGED <<create, inProgress, workDir, staging, asks, dir>>
        /\ job' = [b \in Bundle |-> IF job[b] \in {"idle", "ok"} THEN job[b] ELSE "failed"]
        /\ lost' = [b \in Bundle |-> lost[b] \/ dir[b] # "none"]
    BY <1>3 DEF ServiceDies, uiVars
  <2>2. BundleTypes'
    BY <2>1 DEF BundleInv, BundleTypes
  <2>3. ASSUME NEW b \in Bundle  PROVE BundleGoesOn(b)'
    BY <2>1 DEF BundleInv, BundleTypes, BundleGoesOn, DirIsAway, DirIsKnown, Begun
  <2>4. OneBundle'
    BY <2>1 DEF OneBundle, Busy, BundleInv
  <2> QED  BY <2>2, <2>3, <2>4 DEF BundleInv
<1>4. CASE UNCHANGED bundleVars
  BY <1>4 DEF bundleVars, BundleInv, BundleTypes, BundleGoesOn, DirIsAway, DirIsKnown, OneBundle,
              Busy
<1> QED  BY <1>1, <1>2, <1>3, <1>4 DEF BundleNext

LEMMA BundleInvIsEnough == BundleInv => OneBundle /\ \A b \in Bundle : CleanedUp(b)
BY DEF BundleInv, BundleTypes, BundleGoesOn, DirIsAway, Begun, CleanedUp

-----------------------------------------------------------------------------
(* Every step of the service is one of each part, or leaves it alone. *)
LEMMA StepOfEachPart ==
  [Next]_allVars => /\ [ConfigNext]_configVars /\ [StatusNext]_statusVars /\ [ListNext]_listVars
                    /\ [IpcNext]_ipcVars /\ [BundleNext]_bundleVars
<1> SUFFICES ASSUME [Next]_allVars
             PROVE  /\ [ConfigNext]_configVars /\ [StatusNext]_statusVars /\ [ListNext]_listVars
                    /\ [IpcNext]_ipcVars /\ [BundleNext]_bundleVars
  OBVIOUS
<1>1. CASE StoresConfig
  BY <1>1 DEF StoresConfig
<1>2. CASE FeedsStatus
  BY <1>2 DEF FeedsStatus
<1>3. CASE CachesLists
  BY <1>3 DEF CachesLists
<1>4. CASE Ipc(IpcNext)
  BY <1>4 DEF Ipc
<1>5. CASE Bundles(BundleNext)
  BY <1>5 DEF Bundles
<1>6. CASE UNCHANGED allVars
  BY <1>6 DEF allVars
<1> QED  BY <1>1, <1>2, <1>3, <1>4, <1>5, <1>6 DEF Next

LEMMA EachPartStarts == Init => ConfigInit /\ StatusInit /\ ListInit /\ IpcInit /\ BundleInit
BY DEF Init

(* Whatever is killed, stopped, fails to be saved or loses power, and       *)
(* wherever: a configuration that is not dirty is the one the next start    *)
(* loads, an account reported as saved comes back, the tunnel's target is   *)
(* the one last asked for, and the file stays readable (ConfigHandle::      *)
(* change, config/mod.rs; load and save, config/persistence.rs).            *)
THEOREM ConfigDurable == Spec => []ConfigIsDurable
BY EachPartStarts, StepOfEachPart, ConfigInitEstablishes, ConfigStepKeeps, ConfigInvIsEnough, PTL
   DEF Spec

(* What is published agrees with the channels whenever nothing is left to   *)
(* read, a follower that knows the version knows the contents, and every    *)
(* status that calls for a registration had its attempt                     *)
(* (propagate_updates_to_status_task, wireguard_key_registraction_task).    *)
THEOREM StatusCurrent == Spec => []StatusIsCurrent
BY EachPartStarts, StepOfEachPart, StatusInitEstablishes, StatusStepKeeps, StatusInvIsEnough, PTL
   DEF Spec

(* No cached list is replaced by an older one, an answer brings a list as   *)
(* new as the server's at the question, one version is never two lists for  *)
(* the application, and account information is the user's own unless some   *)
(* was under way at the login (maybe_update_exits, set_account_id and       *)
(* update_account_info, client_state.rs; Version, config/cached.rs).        *)
THEOREM CachesRight == Spec => []CachesAreRight
BY EachPartStarts, StepOfEachPart, ListInitEstablishes, ListStepKeeps, ListInvIsEnough, PTL
   DEF Spec

(* No command runs twice, none for a client without access, an answer is    *)
(* the command's own, and who may use the main socket is never told that    *)
(* access is denied (handle_stream, service/os/linux/ipc.rs; run_command,   *)
(* linux/ipc.rs).                                                           *)
THEOREM AnswersAreOwn == Spec => [](\A c \in Conn : AnswerIsOwn(c))
BY EachPartStarts, StepOfEachPart, IpcInitEstablishes, IpcStepKeeps, IpcInvIsEnough, PTL
   DEF Spec

(* One bundle at most is in progress and the status says whether one is; an *)
(* ended one leaves neither staging nor the service's directory unless a    *)
(* process died or one of them could not be opened or removed, and its work *)
(* directory holds an archive exactly if it succeeded: a failed one may     *)
(* leave that directory behind (GuiDebugBundler::create and                 *)
(* create_combined_debug_bundle, linux/debug_bundle.rs).                    *)
THEOREM BundlesAreTidy == Spec => [](OneBundle /\ \A b \in Bundle : CleanedUp(b))
BY EachPartStarts, StepOfEachPart, BundleInitEstablishes, BundleStepKeeps, BundleInvIsEnough, PTL
   DEF Spec
=============================================================================
