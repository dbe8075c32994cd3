---------------------------- MODULE ClientService ----------------------------
(***************************************************************************)
(* What the service keeps and tells: the configuration file (ConfigStore), *)
(* the caches in it (ListCache), the status and its followers              *)
(* (StatusFeed), the commands and answers of the user's processes          *)
(* (ServiceIpc) and the debug bundles they ask for (DebugBundles).         *)
(*                                                                         *)
(* ListCache and StatusFeed make single changes of the configuration, each *)
(* one a Change of ConfigStore, and depend on no file; StatusFeed is open  *)
(* to any sequence of changes; ServiceIpc carries commands without looking *)
(* at them; DebugBundles shares nothing with the others.  So each          *)
(* behaviour follows the steps of one part, chosen at the start.           *)
(***************************************************************************)
EXTENDS ConfigStore, StatusFeed, ListCache, ServiceIpc, DebugBundles

VARIABLE part   (* the part whose steps are taken *)

allVars == <<configVars, statusVars, listVars, ipcVars, bundleVars, part>>

(* The parts that take no steps are fixed at one of their initial states. *)
Init ==
  /\ part \in {"config", "status", "lists", "ipc", "bundles"}
  /\ ConfigInit /\ StatusInit /\ ListInit /\ IpcInit /\ BundleInit
  /\ part # "config" => file = Absent
  /\ part # "ipc" => ~upgraded /\ cmd = [c \in Conn |-> "ping"] /\ access = CHOOSE a \in Accesses : TRUE
  /\ part # "bundles" => hangs = {}

StoresConfig ==
  /\ part = "config" /\ ConfigNext
  /\ UNCHANGED <<statusVars, listVars, ipcVars, bundleVars, part>>

FeedsStatus ==
  /\ part = "status" /\ StatusNext
  /\ UNCHANGED <<configVars, listVars, ipcVars, bundleVars, part>>

CachesLists ==
  /\ part = "lists" /\ ListNext
  /\ UNCHANGED <<configVars, statusVars, ipcVars, bundleVars, part>>

Ipc(A) ==
  /\ part = "ipc" /\ A
  /\ UNCHANGED <<configVars, statusVars, listVars, bundleVars, part>>

Bundles(A) ==
  /\ part = "bundles" /\ A
  /\ UNCHANGED <<configVars, statusVars, listVars, ipcVars, part>>

Next == StoresConfig \/ FeedsStatus \/ CachesLists \/ Ipc(IpcNext) \/ Bundles(BundleNext)

(* A call whose client, stream or command can go on does go on: the tasks   *)
(* of both runtimes run, and a rendezvous channel serves its senders in     *)
(* order.  A service that listens gets to its loop.  The same tasks carry   *)
(* the bundles on, on both sides; none has more than a few steps to take.   *)
GoesOn(c) == ClientStep(c) \/ StreamStep(c) \/ Dispatch(c) \/ RunCommand(c)

Fairness ==
  /\ WF_allVars(Ipc(StartLoop)) /\ \A c \in Conn : WF_allVars(Ipc(GoesOn(c)))
  /\ WF_allVars(Bundles(\E b \in Bundle : BundleStep(b)))

Spec == Init /\ [][Next]_allVars /\ Fairness
=============================================================================
