---------------------------- MODULE AdapterWatch ----------------------------
(***************************************************************************)
(* The preferred network interface on Windows: the watching thread of      *)
(* src/rustlib/src/bin/obscura/service/os/windows/adapters.rs, which reads *)
(* the list of adapters (gaa.rs) each time a notification of address       *)
(* changes arrives, in front of the same channel and task as on Linux      *)
(* (InterfaceWatch).  A notification is for one change: it must be asked   *)
(* for again before the next reading.  It tells of changes of the table of *)
(* IPv4 addresses only, while an adapter is chosen by its gateway, its     *)
(* operational status and its hardware flag as well: when one of these     *)
(* changes alone, it goes unheard until the next notification.             *)
(***************************************************************************)
EXTENDS InterfaceWatch, Sequences, SequencesExt

CONSTANT Adapters   (* the interfaces in the order of the system's list *)

ASSUME AdapterConstants == Adapters \in Seq(Interface)

VARIABLES
  adapter,    (* each is other (lacks both an IPv4 address and something    *)
              (* else), addressed (has only the address), linked (is a      *)
              (* physical one that is up with a gateway: lacks only the     *)
              (* address), usable, unreadable (usable, but its name or      *)
              (* index cannot be read)                                      *)
  told,       (* history: the adapters as readings and notifications tell   *)
  notify      (* the notification: none, asked, signalled                   *)

adapterVars == <<adapter, told, notify>>
linuxVars == <<metric, heard, routeEvents, visited, best>>

AdapterState == {"other", "addressed", "linked", "usable", "unreadable"}
HasAddress(a) == a \in {"addressed", "usable", "unreadable"}

AdapterInit ==
  adapter \in [Interface -> AdapterState] /\ told = adapter /\ notify = "none"

(* find_active_physical_adapter: the first adapter that is usable *)
FirstUsable(list) ==
  LET usable == {n \in DOMAIN Adapters : list[Adapters[n]] \in {"usable", "unreadable"}}
  IN IF usable = {} THEN None ELSE Adapters[Min(usable)]

-----------------------------------------------------------------------------
(* ResetEvent and NotifyAddrChange *)
AskNotification ==
  /\ watcher = "connect" /\ watcher' = "dump" /\ notify' = "asked"
  /\ UNCHANGED <<linuxVars, published, unseen, taskVars, failures, adapter, told>>

(* The adapters are read after that; an error gives the notification up. *)
ReadAdapters ==
  /\ watcher = "dump" /\ told' = adapter
  /\ LET first == FirstUsable(adapter)
     IN IF first # None /\ adapter[first] = "unreadable"
        THEN watcher' = "backoff" /\ notify' = "none" /\ UNCHANGED <<published, unseen>>
        ELSE /\ published' = first /\ unseen' = (unseen \/ first # published)
             /\ watcher' = "wait" /\ UNCHANGED notify
  /\ UNCHANGED <<linuxVars, taskVars, failures, adapter>>

FaultyTakeSignal ==
  /\ watcher = "wait" /\ notify = "signalled"
  /\ watcher' = "dump" /\ notify' = "none"
  /\ UNCHANGED <<linuxVars, published, unseen, taskVars, failures, adapter, told>>

TakeSignal ==
  /\ watcher = "wait" /\ notify = "signalled"
  /\ watcher' = "connect" /\ notify' = "none"
  /\ UNCHANGED <<linuxVars, published, unseen, taskVars, failures, adapter, told>>

(* A call of the system fails, and another round starts a second later. *)
AdapterWatchFails ==
  /\ watcher \in {"connect", "dump", "wait"}
  /\ failures < MaxFailures /\ failures' = failures + 1
  /\ watcher' = "backoff" /\ notify' = "none"
  /\ UNCHANGED <<linuxVars, published, unseen, taskVars, adapter, told>>

(* An IPv4 address comes or goes, of this adapter or of one that is never   *)
(* usable, and with it may come anything else.                              *)
AddressChanges ==
  /\ \E i \in Interface, a \in AdapterState :
       adapter' = [adapter EXCEPT ![i] = a] /\ told' = [told EXCEPT ![i] = a]
  /\ notify' = IF notify = "asked" THEN "signalled" ELSE notify
  /\ UNCHANGED <<linuxVars, watcher, published, unseen, taskVars, failures>>

(* The gateway, the operational status or another property changes, while   *)
(* no address does: no notification.                                        *)
StatusChanges ==
  /\ \E i \in Interface, a \in AdapterState :
       /\ adapter[i] # a /\ HasAddress(a) = HasAddress(adapter[i])
       /\ adapter' = [adapter EXCEPT ![i] = a]
  /\ UNCHANGED <<linuxVars, watcher, published, unseen, taskVars, failures, told, notify>>

AdapterNext ==
  \/ AskNotification \/ ReadAdapters \/ TakeSignal \/ AdapterWatchFails \/ AddressChanges
  \/ StatusChanges
  \/ (WatchAgain \/ BorrowAndUpdate \/ SetNetworkInterface \/ Changed) /\ UNCHANGED adapterVars

-----------------------------------------------------------------------------
(* No change of the addresses is lost (adapters.rs line 64): when the       *)
(* thread and the manager's task both wait with nothing new, the client     *)
(* uses the adapter that is preferred by what was last read, and that       *)
(* differs from the adapters as they are in no address, only in what there  *)
(* is no notification for.                                                  *)
ClientUsesAdapter ==
  watcher = "wait" /\ notify # "signalled" /\ task = "wait" /\ ~unseen =>
    /\ clientUses = FirstUsable(told)
    /\ \A i \in Interface : HasAddress(told[i]) = HasAddress(adapter[i])
=============================================================================
