--------------------------- MODULE InterfaceWatch ---------------------------
(***************************************************************************)
(* The preferred network interface on its way from the kernel's default    *)
(* routes to the client: the watcher of src/rustlib/src/bin/obscura/       *)
(* service/os/linux/routes/preferred_interface.rs, a watch channel, and    *)
(* preferred_network_interface_task of src/rustlib/src/manager.rs.         *)
(*                                                                         *)
(* The main table is a set of default routes: each interface has a metric  *)
(* at a time or none.  A default route that does not name its metric makes *)
(* the whole dump fail.  The watcher listens to the events of IPv4 routes   *)
(* only, and the kernel sends none for the routes that go with a link:      *)
(* those go unheard until something else has the table dumped again.        *)
(***************************************************************************)
EXTENDS Naturals

CONSTANTS
  Interface,     (* network interfaces                                     *)
  None,          (* Option::None                                           *)
  NoRoute,       (* in place of a metric: no default route there           *)
  Unnamed,       (* ... a default route that does not name its metric      *)
  MaxMetric,     (* bound: metrics of default routes                       *)
  MaxFailures    (* bound: failing netlink sockets                         *)

ASSUME WatchConstants ==
  /\ None \notin Interface
  /\ NoRoute \notin Nat /\ Unnamed \notin Nat /\ NoRoute # Unnamed
  /\ MaxMetric \in Nat /\ MaxFailures \in Nat

VARIABLES
  metric,        (* the metric of the default route over each interface    *)
  heard,         (* history: the metrics as dumps and events tell of them  *)
  routeEvents,   (* a netlink event waits                                  *)
  watcher,       (* where the watcher is                                   *)
  visited,       (* the interfaces whose routes the dump has passed        *)
  best,          (* the best default route of the dump so far              *)
  published,     (* the value of the watch channel                         *)
  unseen,        (* it changed after the manager's task read it            *)
  task,          (* where the manager's task is                            *)
  taken,         (* what it has read                                       *)
  clientUses,    (* ClientState.network_interface                          *)
  failures       (* counts the failures                                    *)

watchVars == <<metric, heard, routeEvents, watcher, visited, best, published, unseen,
               task, taken, clientUses, failures>>

Metric == (0 .. MaxMetric) \cup {NoRoute, Unnamed}

Routed(table) == {i \in Interface : table[i] \notin {NoRoute, Unnamed}}

WatchInit ==
  /\ metric \in [Interface -> Metric] /\ heard = metric /\ routeEvents = FALSE
  /\ watcher = "connect" /\ visited = {} /\ best = [i |-> None, m |-> 0]
  /\ published = None /\ unseen = FALSE
  /\ task = "set" /\ taken = None /\ clientUses = None
  /\ failures = 0

taskVars == <<task, taken, clientUses>>

-----------------------------------------------------------------------------
(* watch_preferred_network_interface_one: bind first, then dump *)
Bind ==
  /\ watcher = "connect"
  /\ routeEvents' = FALSE
  /\ watcher' = "dump" /\ visited' = {} /\ best' = [i |-> None, m |-> 0]
  /\ UNCHANGED <<metric, heard, published, unseen, taskVars, failures>>

(* get_preferred_network_interface takes the routes one after another; the  *)
(* table may change meanwhile.                                              *)
VisitRoute ==
  /\ watcher = "dump"
  /\ \E i \in Interface \ visited :
       /\ visited' = visited \cup {i} /\ heard' = [heard EXCEPT ![i] = metric[i]]
       /\ IF metric[i] = Unnamed
          THEN watcher' = "backoff" /\ UNCHANGED best
          ELSE /\ UNCHANGED watcher
               /\ IF i \in Routed(metric) /\ (best.i = None \/ metric[i] < best.m)
                  THEN best' = [i |-> i, m |-> metric[i]]
                  ELSE UNCHANGED best
  /\ UNCHANGED <<metric, routeEvents, published, unseen, taskVars, failures>>

FaultyPublish ==
  /\ watcher = "dump" /\ visited = Interface
  /\ published' = best.i /\ unseen' = (unseen \/ best.i # published)
  /\ watcher' = "wait" /\ routeEvents' = FALSE
  /\ UNCHANGED <<metric, heard, visited, best, taskVars, failures>>

(* send_if_modified *)
Publish ==
  /\ watcher = "dump" /\ visited = Interface
  /\ published' = best.i /\ unseen' = (unseen \/ best.i # published)
  /\ watcher' = "wait"
  /\ UNCHANGED <<metric, heard, routeEvents, visited, best, taskVars, failures>>

(* One event is taken, and the table is dumped again for each. *)
TakeEvent ==
  /\ watcher = "wait" /\ routeEvents
  /\ routeEvents' \in BOOLEAN
  /\ watcher' = "dump" /\ visited' = {} /\ best' = [i |-> None, m |-> 0]
  /\ UNCHANGED <<metric, heard, published, unseen, taskVars, failures>>

(* The stream of events ends, or a request fails. *)
WatchFails ==
  /\ watcher \in {"connect", "dump", "wait"}
  /\ failures < MaxFailures /\ failures' = failures + 1
  /\ watcher' = "backoff"
  /\ UNCHANGED <<metric, heard, routeEvents, visited, best, published, unseen, taskVars>>

WatchAgain ==
  /\ watcher = "backoff" /\ watcher' = "connect"
  /\ UNCHANGED <<metric, heard, routeEvents, visited, best, published, unseen, taskVars, failures>>

-----------------------------------------------------------------------------
(* preferred_network_interface_task: borrow_and_update, set, changed *)
BorrowAndUpdate ==
  /\ task = "read"
  /\ taken' = published /\ unseen' = FALSE
  /\ task' = "set"
  /\ UNCHANGED <<metric, heard, routeEvents, watcher, visited, best, published, clientUses,
                 failures>>

(* set_network_interface.  AccountSession has what it does to the API       *)
(* client made for another interface (SetHostOrInterface).                  *)
SetNetworkInterface ==
  /\ task = "set"
  /\ clientUses' = taken
  /\ task' = "wait"
  /\ UNCHANGED <<metric, heard, routeEvents, watcher, visited, best, published, unseen, taken, failures>>

Changed ==
  /\ task = "wait" /\ unseen
  /\ task' = "read"
  /\ UNCHANGED <<metric, heard, routeEvents, watcher, visited, best, published, unseen, taken,
                 clientUses, failures>>

-----------------------------------------------------------------------------
(* A default route comes, is deleted or gets another metric, or another     *)
(* route of the table changes.                                              *)
RouteChanges ==
  /\ \E i \in Interface, m \in Metric :
       metric' = [metric EXCEPT ![i] = m] /\ heard' = [heard EXCEPT ![i] = m]
  /\ routeEvents' = TRUE
  /\ UNCHANGED <<watcher, visited, best, published, unseen, taskVars, failures>>

(* A link goes down and its default route with it: no event of a route. *)
LinkDown ==
  /\ \E i \in Interface :
       metric[i] # NoRoute /\ metric' = [metric EXCEPT ![i] = NoRoute]
  /\ UNCHANGED <<heard, routeEvents, watcher, visited, best, published, unseen, taskVars,
                 failures>>

WatchStep ==
  \/ Bind \/ VisitRoute \/ Publish \/ TakeEvent \/ WatchAgain
  \/ BorrowAndUpdate \/ SetNetworkInterface \/ Changed

WatchNext == WatchStep \/ WatchFails \/ RouteChanges \/ LinkDown

-----------------------------------------------------------------------------
WatchTypeOK ==
  /\ {metric, heard} \subseteq [Interface -> Metric] /\ visited \subseteq Interface
  /\ {published, taken, clientUses, best.i} \subseteq Interface \cup {None}
  /\ {routeEvents, unseen} \subseteq BOOLEAN
  /\ watcher \in {"connect", "dump", "wait", "backoff"} /\ task \in {"read", "set", "wait"}
  /\ failures \in 0 .. MaxFailures

(* The default route of lowest metric, any of several equal ones *)
Preferred(table, i) ==
  IF i = None THEN Routed(table) = {}
  ELSE i \in Routed(table) /\ \A j \in Routed(table) : table[i] <= table[j]

(* No change of the default routes that there is an event for is lost on    *)
(* its way (preferred_interface.rs line 44, manager.rs line 341): when the  *)
(* watcher waits with no event at hand and the manager's task with no new   *)
(* value, the client uses the interface of the best default route, where a  *)
(* default route counts until the watcher hears of it, and the only ones    *)
(* that it does not hear of are those that went with a link since they were *)
(* dumped.                                                                  *)
ClientUsesBestRoute ==
  /\ watcher = "wait" /\ ~routeEvents /\ task = "wait" /\ ~unseen => Preferred(heard, clientUses)
  /\ \A i \in Interface : heard[i] # metric[i] => metric[i] = NoRoute
=============================================================================
