--------------------------- MODULE OsNetworkProofs ---------------------------
(***************************************************************************)
(* The service's side of the network, for any resolvers, policies,         *)
(* configurations, interfaces and any number of calls, failures and        *)
(* changes by other programs.                                              *)
(*                                                                         *)
(* A step of the composition is a step of the part that was chosen, and    *)
(* the variables of the others stay at an initial state, where what is     *)
(* said of them holds.  So each part has an invariant of its own:          *)
(*                                                                         *)
(*   routes     what has been dumped is as the policy wants it, unless an  *)
(*              event came or the round is dirty;                          *)
(*   interface  the best route of a dump is the best of those visited,     *)
(*              unless an event came, and what was published travels to    *)
(*              the client as long as nothing new is marked unseen;        *)
(*   adapters   the same with a notification in place of the events;       *)
(*   calls      what a call has done so far stays done while it holds the  *)
(*              lock, and what the last one has done until the next;       *)
(*   windows    the same as long as no call runs beside another, and no    *)
(*              route is there that is not remembered.                     *)
(***************************************************************************)
EXTENDS OsNetwork, TLAPS

(* A step of the composition is a step of the part that was chosen. *)
LEMMA StepOfAPart ==
  [Next]_allVars =>
    /\ part' = part
    /\ part = "routes" => [RouteNext]_routeVars
    /\ part # "routes" => UNCHANGED enforcerVars
    /\ part \notin {"calls", "windows"} => UNCHANGED netVars
    /\ part = "calls" => [NetNext]_<<netVars, desired, changed>>
    /\ part = "windows" => [WindowsNext]_<<netVars, windowsVars, desired, changed>>
    /\ part = "interface" => [WatchNext]_watchVars /\ UNCHANGED adapterVars
    /\ part = "adapters" => [AdapterNext]_<<watchVars, adapterVars>>
    /\ part \notin {"interface", "adapters"} => UNCHANGED <<watchVars, adapterVars>>
<1> SUFFICES ASSUME [Next]_allVars
             PROVE  /\ part' = part
                    /\ part = "routes" => [RouteNext]_routeVars
                    /\ part # "routes" => UNCHANGED enforcerVars
                    /\ part \notin {"calls", "windows"} => UNCHANGED netVars
                    /\ part = "calls" => [NetNext]_<<netVars, desired, changed>>
                    /\ part = "windows" => [WindowsNext]_<<netVars, windowsVars, desired, changed>>
                    /\ part = "interface" => [WatchNext]_watchVars /\ UNCHANGED adapterVars
                    /\ part = "adapters" => [AdapterNext]_<<watchVars, adapterVars>>
                    /\ part \notin {"interface", "adapters"} => UNCHANGED <<watchVars, adapterVars>>
  OBVIOUS
<1>1. CASE Enforcer
  BY <1>1 DEF Enforcer
<1>2. CASE LinuxCalls
  BY <1>2 DEF LinuxCalls
<1>3. CASE WindowsCalls
  BY <1>3 DEF WindowsCalls
<1>4. CASE PreferredInterface
  BY <1>4 DEF PreferredInterface, routeVars, enforcerVars
<1>5. CASE UNCHANGED allVars
  BY <1>5 DEF allVars, routeVars, enforcerVars
<1> QED  BY <1>1, <1>2, <1>3, <1>4, <1>5 DEF Next

Families == {"v4", "v6"}

(* Rules and routes are kept for both families. *)
Tables ==
  /\ kernel = [f \in Families |-> kernel[f]]
  /\ events \in BOOLEAN /\ changed \in BOOLEAN /\ dirty \in BOOLEAN
  /\ family \in {1, 2}

(* The policy of a round is the desired one unless another was sent. *)
PolicyIsRead ==
  enforcer \in {"rules", "routes", "asleep"} /\ ~changed => policy = desired

(* What the dumps of a clean round have passed is as the policy wants it. *)
DumpedIsWanted ==
  ~events /\ ~dirty =>
    /\ enforcer \in {"rules", "routes"} /\ family = 2 => kernel["v4"] = Wanted(policy, "v4")
    /\ enforcer = "routes" =>
         kernel[ThisFamily] \ {"route"} = Wanted(policy, ThisFamily) \ {"route"}
    /\ enforcer = "asleep" => InForce(policy)

(* It falls asleep only after a clean round. *)
SleepIsClean == enforcer = "asleep" => ~dirty

RoutesInv == Tables /\ PolicyIsRead /\ DumpedIsWanted /\ SleepIsClean

-----------------------------------------------------------------------------
(* The two families, in the order in which they are dumped. *)
LEMMA TwoFamilies ==
  /\ Len(FAMILIES) = 2 /\ FAMILIES[1] = "v4" /\ FAMILIES[2] = "v6"
BY DEF FAMILIES

(* The route is wanted with the rest, and no resolver is called so. *)
LEMMA RouteIsWanted ==
  ASSUME NEW p \in Policies, NEW f
  PROVE  "route" \in Wanted(p, f) <=> p.engaged
BY RouteConstants DEF Wanted, ResolverRules, Policy

(* Tables that change send an event. *)
LEMMA InstallSends ==
  ASSUME Tables, NEW f \in Families, NEW items, Install(f, items)
  PROVE  /\ kernel' = [g \in Families |-> kernel'[g]]
         /\ events' \in BOOLEAN
         /\ ~events' => ~events /\ kernel' = kernel
BY DEF Tables, Install

(* A policy that is read is one of those that are sent. *)
PolicyType == policy \in Policies /\ desired \in Policies

LEMMA PolicyTypeHolds ==
  /\ RouteInit => PolicyType
  /\ PolicyType /\ [RouteNext]_routeVars => PolicyType'
<1>1. RouteInit => PolicyType
  BY RouteConstants DEF RouteInit, PolicyType
<1>2. PolicyType /\ [RouteNext]_routeVars => PolicyType'
  BY DEF PolicyType, RouteNext, EnforcerStep, Connect, ReadPolicy, DumpRules, DumpRoutes,
         DeleteResolverRules, ApplyRequest, FinishFamily, Cooldown, Wake, Retry, Fail, Stop,
         ServiceSends, SendPolicy, Tamper, Same, routeVars
<1> QED  BY <1>1, <1>2

-----------------------------------------------------------------------------
LEMMA RoutesStart == RouteInit => RoutesInv
BY DEF RouteInit, RoutesInv, Tables, PolicyIsRead, DumpedIsWanted, SleepIsClean, Families

(* The dump of a family's rules. *)
LEMMA DumpRulesKeeps == RoutesInv /\ PolicyType /\ DumpRules => RoutesInv'
<1> SUFFICES ASSUME RoutesInv, PolicyType, DumpRules PROVE RoutesInv'
  OBVIOUS
<1>1. Tables' /\ PolicyIsRead' /\ SleepIsClean'
  BY DEF RoutesInv, Tables, PolicyIsRead, SleepIsClean, DumpRules, Same
<1>2. ThisFamily' = ThisFamily /\ Wanted(policy, ThisFamily)' = Wanted(policy, ThisFamily)
  BY DEF DumpRules, Same, ThisFamily, Wanted, ResolverRules
<1>3. ASSUME ~dirty'
      PROVE  ~dirty /\ kernel[ThisFamily] \ {"route"} = Wanted(policy, ThisFamily) \ {"route"}
  BY <1>3 DEF DumpRules
<1>4. Wanted(policy, "v4")' = Wanted(policy, "v4")
  BY DEF DumpRules, Same, Wanted, ResolverRules
<1>5. UNCHANGED <<kernel, events, family>> /\ enforcer = "rules" /\ enforcer' = "routes"
  BY DEF DumpRules
<1>6. DumpedIsWanted'
  BY <1>2, <1>3, <1>4, <1>5 DEF RoutesInv, DumpedIsWanted
<1> QED  BY <1>1, <1>6 DEF RoutesInv

(* The dump of its routes, with which the next family or the round ends. *)
LEMMA DumpRoutesKeeps == RoutesInv /\ PolicyType /\ DumpRoutes => RoutesInv'
<1> SUFFICES ASSUME RoutesInv, PolicyType, DumpRoutes PROVE RoutesInv'
  OBVIOUS
<1> DEFINE d == dirty \/ ("route" \in kernel[ThisFamily]) # policy.engaged
<1>1. /\ dirty' = d /\ d \in BOOLEAN
      /\ enforcer' = IF family = 1 THEN "rules" ELSE IF d THEN "delete" ELSE "asleep"
      /\ family' = IF family = 1 THEN 2 ELSE 1
      /\ UNCHANGED <<kernel, events, changed, desired, policy>>
  BY TwoFamilies DEF DumpRoutes, AfterDumps, RoutesInv, Tables, Same
<1>2. Tables' /\ PolicyIsRead' /\ SleepIsClean'
  BY <1>1 DEF RoutesInv, Tables, PolicyIsRead, SleepIsClean, DumpRoutes
<1>3. ASSUME ~events, ~d PROVE kernel[ThisFamily] = Wanted(policy, ThisFamily)
  <2>1. kernel[ThisFamily] \ {"route"} = Wanted(policy, ThisFamily) \ {"route"}
    BY <1>3 DEF RoutesInv, DumpedIsWanted, DumpRoutes
  <2>2. "route" \in kernel[ThisFamily] <=> policy.engaged
    BY <1>3, RouteConstants DEF PolicyType, Policy
  <2>3. "route" \in Wanted(policy, ThisFamily) <=> policy.engaged
    BY RouteIsWanted DEF PolicyType
  <2> QED  BY <2>1, <2>2, <2>3
<1>4. ASSUME ~events', ~dirty', family = 1 PROVE kernel["v4"] = Wanted(policy, "v4")
  BY <1>1, <1>3, <1>4, TwoFamilies DEF ThisFamily
<1>5. ASSUME ~events', ~dirty', family = 2 PROVE InForce(policy)
  <2>1. kernel["v6"] = Wanted(policy, "v6")
    BY <1>1, <1>3, <1>5, TwoFamilies DEF ThisFamily
  <2>2. ~events /\ ~dirty
    BY <1>1, <1>5
  <2>3. kernel["v4"] = Wanted(policy, "v4")
    BY <1>5, <2>2 DEF RoutesInv, DumpedIsWanted, DumpRoutes
  <2> QED  BY <2>1, <2>3 DEF InForce
<1>6. Wanted(policy, "v4")' = Wanted(policy, "v4") /\ InForce(policy)' = InForce(policy)
  BY <1>1 DEF Wanted, ResolverRules, InForce
<1>7. DumpedIsWanted'
  BY <1>1, <1>4, <1>5, <1>6 DEF DumpedIsWanted, RoutesInv, Tables
<1> QED  BY <1>2, <1>7 DEF RoutesInv

(* A change of the tables: an event, or no change at all. *)
LEMMA ChangeOfTablesKeeps ==
  ASSUME RoutesInv, NEW f \in Families, NEW items, Install(f, items),
         UNCHANGED <<desired, changed, policy, dirty>>,
         \/ UNCHANGED <<enforcer, family>>
         \/ enforcer' = "delete" /\ UNCHANGED family
  PROVE  RoutesInv'
<1>1. Tables' /\ PolicyIsRead' /\ SleepIsClean'
  BY InstallSends DEF RoutesInv, Tables, PolicyIsRead, SleepIsClean
<1>2. ASSUME ~events' PROVE kernel' = kernel /\ ~events
  BY <1>2, InstallSends DEF RoutesInv
<1>3. DumpedIsWanted'
  BY <1>2 DEF RoutesInv, DumpedIsWanted, ThisFamily, Wanted, ResolverRules, InForce
<1> QED  BY <1>1, <1>3 DEF RoutesInv

LEMMA RouteStepKeeps == RoutesInv /\ PolicyType /\ [RouteNext]_routeVars => RoutesInv'
<1> SUFFICES ASSUME RoutesInv, PolicyType, [RouteNext]_routeVars PROVE RoutesInv'
  OBVIOUS
<1> USE DEF Same
<1>f. ThisFamily \in Families
  BY TwoFamilies DEF ThisFamily, Families, RoutesInv, Tables
<1>1. CASE Connect \/ Cooldown \/ Wake \/ Retry \/ Fail \/ Stop
  <2>1. /\ UNCHANGED <<kernel, desired, policy, dirty, family>>
        /\ enforcer' \notin {"rules", "routes", "asleep"}
        /\ Tables' /\ PolicyIsRead' /\ SleepIsClean'
    BY <1>1 DEF Connect, Cooldown, Wake, Retry, Fail, Stop, RoutesInv, Tables, PolicyIsRead, SleepIsClean
  <2> QED
    BY <2>1 DEF RoutesInv, DumpedIsWanted
<1>2. CASE ReadPolicy
  <2>1. kernel' = kernel /\ family' = 1 /\ enforcer' = "rules"
    BY <1>2 DEF ReadPolicy
  <2>2. Tables' /\ PolicyIsRead' /\ SleepIsClean'
    BY <1>2 DEF ReadPolicy, RoutesInv, Tables, PolicyIsRead, SleepIsClean
  <2> QED
    BY <2>1, <2>2 DEF RoutesInv, DumpedIsWanted
<1>3. CASE DumpRules
  BY <1>3, DumpRulesKeeps
<1>4. CASE DumpRoutes
  BY <1>4, DumpRoutesKeeps
<1>5. CASE DeleteResolverRules
  <2>1. CASE kernel[ThisFamily] \cap Resolver = {}
    BY <1>5, <2>1 DEF DeleteResolverRules, RoutesInv, Tables, PolicyIsRead, DumpedIsWanted, SleepIsClean
  <2>2. CASE kernel[ThisFamily] \cap Resolver # {}
    <3>1. PICK r \in kernel[ThisFamily] \cap Resolver : Install(ThisFamily, kernel[ThisFamily] \ {r})
      BY <1>5, <2>2 DEF DeleteResolverRules
    <3> QED  BY <1>5, <1>f, <2>2, <3>1, ChangeOfTablesKeeps DEF DeleteResolverRules
  <2> QED  BY <2>1, <2>2
<1>6. CASE ApplyRequest
  <2>1. PICK items : Install(ThisFamily, items)
    BY <1>6 DEF ApplyRequest
  <2> QED  BY <1>6, <1>f, <2>1, ChangeOfTablesKeeps DEF ApplyRequest
<1>7. CASE FinishFamily
  BY <1>7, TwoFamilies DEF FinishFamily, RoutesInv, Tables, PolicyIsRead, DumpedIsWanted, SleepIsClean
<1>8. CASE ServiceSends
  BY <1>8 DEF ServiceSends, SendPolicy, RoutesInv, Tables, PolicyIsRead, DumpedIsWanted, SleepIsClean,
              ThisFamily, Wanted, ResolverRules, InForce
<1>9. CASE Tamper
  <2>0. PICK f \in Families : \E items : Install(f, items)
    BY <1>9 DEF Tamper, Families
  <2>1. PICK items : Install(f, items)
    BY <2>0
  <2> QED  BY <1>9, <2>0, <2>1, ChangeOfTablesKeeps DEF Tamper
<1>10. CASE UNCHANGED routeVars
  BY <1>10 DEF routeVars, RoutesInv, Tables, PolicyIsRead, DumpedIsWanted, SleepIsClean,
               ThisFamily, Wanted, ResolverRules, InForce
<1> QED
  BY <1>1, <1>2, <1>3, <1>4, <1>5, <1>6, <1>7, <1>8, <1>9, <1>10 DEF RouteNext, EnforcerStep

-----------------------------------------------------------------------------
(* The enforcer's invariant, and its place in the other parts *)
EnforcerInv ==
  IF part = "routes" THEN RoutesInv /\ PolicyType ELSE enforcer = "connect"

LEMMA EnforcerInvariant == Spec => []EnforcerInv
<1>1. Init => EnforcerInv
  BY RoutesStart, PolicyTypeHolds DEF Init, EnforcerInv, RouteInit
<1>2. EnforcerInv /\ [Next]_allVars => EnforcerInv'
  <2> SUFFICES ASSUME EnforcerInv, [Next]_allVars PROVE EnforcerInv'
    OBVIOUS
  <2>1. part' = part
    BY StepOfAPart
  <2>2. CASE part = "routes"
    <3>1. [RouteNext]_routeVars
      BY <2>2, StepOfAPart
    <3>2. RoutesInv' /\ PolicyType'
      BY <2>2, <3>1, RouteStepKeeps, PolicyTypeHolds DEF EnforcerInv
    <3> QED  BY <2>1, <2>2, <3>2 DEF EnforcerInv
  <2>3. CASE part # "routes"
    BY <2>1, <2>3, StepOfAPart DEF EnforcerInv, enforcerVars
  <2> QED  BY <2>2, <2>3
<1> QED  BY <1>1, <1>2, PTL DEF Spec

(* Whatever fails, is removed by others or is sent meanwhile, the enforcer  *)
(* waits for events only with the desired policy in force, or with an event *)
(* or a policy at hand that ends its wait (enforce_routing,                 *)
(* traffic_capture_routes.rs line 93).                                      *)
THEOREM EnforcerSleepsOnlyWhenDone == Spec => []SleepsOnlyWhenDone
<1>1. EnforcerInv => SleepsOnlyWhenDone
  BY DEF EnforcerInv, RoutesInv, SleepsOnlyWhenDone, PolicyIsRead, DumpedIsWanted, SleepIsClean
<1> QED  BY <1>1, EnforcerInvariant, PTL

-----------------------------------------------------------------------------
(* The preferred interface *)

(* What the watcher has at hand: metrics, and the best of those visited *)
WatchTypes ==
  /\ metric \in [Interface -> Metric] /\ heard \in [Interface -> Metric]
  /\ visited \subseteq Interface
  /\ best \in [i : Interface \cup {None}, m : Nat]
  /\ routeEvents \in BOOLEAN /\ unseen \in BOOLEAN

(* A dump that no event has interrupted knows the best of the routes it has *)
(* passed.                                                                  *)
BestOfVisited ==
  watcher = "dump" /\ ~routeEvents =>
    IF best.i = None THEN visited \cap Routed(heard) = {}
    ELSE /\ best.i \in visited \cap Routed(heard) /\ best.m = heard[best.i]
         /\ \A j \in visited \cap Routed(heard) : best.m <= heard[j]

(* ... and has published it when it is over. *)
PublishedIsBest == watcher = "wait" /\ ~routeEvents => Preferred(heard, published)

(* Nothing is lost between the channel and the client. *)
NewsTravels ==
  ~unseen => /\ task = "set" => taken = published
             /\ task = "wait" => clientUses = published

(* Only a route that went with its link can be other than was heard of. *)
OnlyLinksAreUnheard == \A i \in Interface : heard[i] # metric[i] => metric[i] = NoRoute

WatchInv == WatchTypes /\ BestOfVisited /\ PublishedIsBest /\ NewsTravels /\ OnlyLinksAreUnheard

LEMMA WatchStarts == WatchInit => WatchInv
<1> SUFFICES ASSUME WatchInit PROVE WatchInv
  OBVIOUS
<1>1. best \in [i : Interface \cup {None}, m : Nat]
  BY DEF WatchInit
<1>2. WatchTypes
  BY <1>1 DEF WatchInit, WatchTypes
<1>3. BestOfVisited /\ PublishedIsBest /\ NewsTravels /\ OnlyLinksAreUnheard
  BY DEF WatchInit, BestOfVisited, PublishedIsBest, NewsTravels, OnlyLinksAreUnheard
<1> QED  BY <1>2, <1>3 DEF WatchInv

(* A metric that names a route is a number. *)
LEMMA RoutedHasMetric ==
  ASSUME NEW table \in [Interface -> Metric], NEW i \in Routed(table)
  PROVE  i \in Interface /\ table[i] \in Nat
BY WatchConstants DEF Routed, Metric

(* The steps of the manager's task carry a value on. *)
LEMMA TaskStepTravels ==
  ASSUME NewsTravels, BorrowAndUpdate \/ SetNetworkInterface \/ Changed
  PROVE  NewsTravels'
BY DEF NewsTravels, BorrowAndUpdate, SetNetworkInterface, Changed

LEMMA WatchStepKeeps == WatchInv /\ [WatchNext]_watchVars => WatchInv'
<1> SUFFICES ASSUME WatchInv, [WatchNext]_watchVars PROVE WatchInv'
  OBVIOUS
<1> USE DEF taskVars
<1>1. CASE Bind \/ TakeEvent
  <2>1. /\ watcher' = "dump" /\ visited' = {} /\ best' = [i |-> None, m |-> 0]
        /\ routeEvents' \in BOOLEAN
        /\ UNCHANGED <<metric, heard, published, unseen, taskVars>>
    BY <1>1 DEF Bind, TakeEvent
  <2> QED
    BY <2>1 DEF WatchInv, WatchTypes, BestOfVisited, PublishedIsBest, NewsTravels,
                OnlyLinksAreUnheard
<1>2. CASE VisitRoute
  <2>1. PICK i \in Interface \ visited :
          /\ visited' = visited \cup {i} /\ heard' = [heard EXCEPT ![i] = metric[i]]
          /\ IF metric[i] = Unnamed
             THEN watcher' = "backoff" /\ UNCHANGED best
             ELSE /\ UNCHANGED watcher
                  /\ IF i \in Routed(metric) /\ (best.i = None \/ metric[i] < best.m)
                     THEN best' = [i |-> i, m |-> metric[i]]
                     ELSE UNCHANGED best
    BY <1>2 DEF VisitRoute
  <2>2. watcher = "dump" /\ UNCHANGED <<metric, routeEvents, published, unseen, taskVars>>
    BY <1>2 DEF VisitRoute
  <2>3. metric[i] \in Metric /\ (i \in Routed(metric) => metric[i] \in Nat)
    BY RoutedHasMetric DEF WatchInv, WatchTypes
  <2>4. /\ heard' \in [Interface -> Metric] /\ heard'[i] = metric[i]
        /\ \A j \in Interface : j # i => heard'[j] = heard[j]
    BY <2>1, <2>3 DEF WatchInv, WatchTypes
  <2>5. WatchTypes'
    BY <2>1, <2>2, <2>3, <2>4 DEF WatchInv, WatchTypes
  <2>6. BestOfVisited'
    <3> SUFFICES ASSUME watcher' = "dump", ~routeEvents' PROVE BestOfVisited'
      BY DEF BestOfVisited
    <3> DEFINE Passed == visited \cap Routed(heard)
               PassedNow == visited' \cap Routed(heard')
    <3>1. IF best.i = None THEN Passed = {}
          ELSE /\ best.i \in Passed /\ best.m = heard[best.i]
               /\ \A j \in Passed : best.m <= heard[j]
      BY <2>2 DEF WatchInv, BestOfVisited
    <3>2. \A j \in Passed : heard[j] \in Nat /\ j # None /\ j # i /\ heard'[j] = heard[j]
      BY <2>1, <2>4, RoutedHasMetric, WatchConstants DEF WatchInv, WatchTypes
    <3>3. PassedNow = IF i \in Routed(metric) THEN Passed \cup {i} ELSE Passed
      BY <2>1, <2>4 DEF Routed, WatchInv, WatchTypes
    <3>4. i # None
      BY <2>1, WatchConstants
    <3> HIDE DEF Passed, PassedNow
    <3>5. ASSUME IF best'.i = None THEN PassedNow = {}
                 ELSE /\ best'.i \in PassedNow /\ best'.m = heard'[best'.i]
                      /\ \A j \in PassedNow : best'.m <= heard'[j]
          PROVE  BestOfVisited'
      BY <3>5 DEF BestOfVisited, PassedNow
    <3>6. CASE i \in Routed(metric) /\ (best.i = None \/ metric[i] < best.m)
      <4>1. best'.i = i /\ best'.m = metric[i]
        BY <2>1, <3>6
      <4>2. PassedNow = Passed \cup {i}
        BY <3>3, <3>6
      <4>3. \A j \in PassedNow : metric[i] <= heard'[j]
        BY <2>3, <2>4, <3>1, <3>2, <3>6, <4>2
      <4> QED  BY <2>4, <3>4, <3>5, <4>1, <4>2, <4>3
    <3>7. CASE i \in Routed(metric) /\ ~(best.i = None \/ metric[i] < best.m)
      <4>1. best' = best /\ PassedNow = Passed \cup {i}
        BY <2>1, <3>3, <3>7
      <4>2. best.i \in Passed /\ best.m = heard'[best.i] /\ best.m <= metric[i]
        BY <2>3, <3>1, <3>2, <3>7
      <4>3. \A j \in PassedNow : best.m <= heard'[j]
        BY <2>4, <3>1, <3>2, <3>7, <4>1, <4>2
      <4> QED  BY <3>5, <3>7, <4>1, <4>2, <4>3
    <3>8. CASE i \notin Routed(metric)
      <4>1. best' = best /\ PassedNow = Passed
        BY <2>1, <3>3, <3>8
      <4> QED  BY <3>1, <3>2, <3>5, <4>1
    <3> QED  BY <3>6, <3>7, <3>8
  <2>7. PublishedIsBest' /\ NewsTravels'
    BY <2>1, <2>2 DEF WatchInv, PublishedIsBest, NewsTravels
  <2>8. OnlyLinksAreUnheard'
    BY <2>2, <2>4 DEF WatchInv, OnlyLinksAreUnheard
  <2> QED  BY <2>5, <2>6, <2>7, <2>8 DEF WatchInv
<1>3. CASE Publish
  <2>1. /\ watcher = "dump" /\ visited = Interface
        /\ published' = best.i /\ unseen' = (unseen \/ best.i # published)
        /\ watcher' = "wait"
        /\ UNCHANGED <<metric, heard, routeEvents, visited, best, taskVars>>
    BY <1>3 DEF Publish
  <2>2. ASSUME ~routeEvents PROVE Preferred(heard, published)'
    <3>1. Routed(heard) \subseteq Interface
      BY DEF Routed
    <3> QED  BY <2>1, <2>2, <3>1 DEF WatchInv, BestOfVisited, Preferred, Routed
  <2>3. NewsTravels'
    BY <2>1 DEF WatchInv, NewsTravels
  <2>4. WatchTypes' /\ BestOfVisited' /\ PublishedIsBest' /\ OnlyLinksAreUnheard'
    BY <2>1, <2>2 DEF WatchInv, WatchTypes, BestOfVisited, PublishedIsBest, OnlyLinksAreUnheard
  <2> QED  BY <2>3, <2>4 DEF WatchInv
<1>4. CASE WatchFails \/ WatchAgain
  <2>1. /\ watcher' \notin {"dump", "wait"}
        /\ UNCHANGED <<metric, heard, routeEvents, visited, best, published, unseen, taskVars>>
    BY <1>4 DEF WatchFails, WatchAgain
  <2> QED
    BY <2>1 DEF WatchInv, WatchTypes, BestOfVisited, PublishedIsBest, NewsTravels,
                OnlyLinksAreUnheard
<1>5. CASE BorrowAndUpdate \/ SetNetworkInterface \/ Changed
  <2>1. /\ UNCHANGED <<metric, heard, routeEvents, watcher, visited, best, published>>
        /\ unseen' \in BOOLEAN
    BY <1>5 DEF BorrowAndUpdate, SetNetworkInterface, Changed, WatchInv, WatchTypes
  <2>2. WatchTypes' /\ BestOfVisited' /\ PublishedIsBest' /\ OnlyLinksAreUnheard'
    BY <2>1 DEF WatchInv, WatchTypes, BestOfVisited, PublishedIsBest, Preferred, Routed,
                OnlyLinksAreUnheard
  <2> QED  BY <1>5, <2>2, TaskStepTravels DEF WatchInv
<1>6. CASE RouteChanges
  <2>1. /\ metric' \in [Interface -> Metric] /\ heard' \in [Interface -> Metric] /\ routeEvents'
        /\ UNCHANGED <<watcher, visited, best, published, unseen, taskVars>>
    BY <1>6 DEF RouteChanges, WatchInv, WatchTypes
  <2>2. OnlyLinksAreUnheard'
    BY <1>6 DEF RouteChanges, WatchInv, WatchTypes, OnlyLinksAreUnheard
  <2> QED
    BY <2>1, <2>2, <1>6 DEF RouteChanges, WatchInv, WatchTypes, BestOfVisited, PublishedIsBest,
                            NewsTravels
<1>7. CASE LinkDown
  <2>1. UNCHANGED <<heard, routeEvents, watcher, visited, best, published, unseen, taskVars>>
    BY <1>7 DEF LinkDown
  <2>2. metric' \in [Interface -> Metric] /\ OnlyLinksAreUnheard'
    BY <1>7, <2>1 DEF LinkDown, WatchInv, WatchTypes, OnlyLinksAreUnheard, Metric
  <2> QED
    BY <2>1, <2>2 DEF WatchInv, WatchTypes, BestOfVisited, PublishedIsBest, NewsTravels,
                      Preferred, Routed
<1>8. CASE UNCHANGED watchVars
  BY <1>8 DEF watchVars, WatchInv, WatchTypes, BestOfVisited, PublishedIsBest, NewsTravels,
              Preferred, Routed, OnlyLinksAreUnheard
<1> QED
  BY <1>1, <1>2, <1>3, <1>4, <1>5, <1>6, <1>7, <1>8 DEF WatchNext, WatchStep

(* On Windows: while the thread reads or waits, a notification is asked     *)
(* for, and one that has not come means that no address has changed since.  *)
AdapterInv ==
  /\ adapter \in [Interface -> AdapterState] /\ told \in [Interface -> AdapterState]
  /\ watcher \in {"dump", "wait"} => notify \in {"asked", "signalled"}
  /\ watcher = "wait" /\ notify = "asked" =>
       /\ published = FirstUsable(told)
       /\ \A i \in Interface : HasAddress(told[i]) <=> HasAddress(adapter[i])
  /\ NewsTravels

LEMMA AdapterStepKeeps == AdapterInv /\ [AdapterNext]_<<watchVars, adapterVars>> => AdapterInv'
<1> SUFFICES ASSUME AdapterInv, [AdapterNext]_<<watchVars, adapterVars>> PROVE AdapterInv'
  OBVIOUS
<1> USE DEF taskVars
<1>1. ASSUME told' = told PROVE FirstUsable(told)' = FirstUsable(told)
  BY <1>1 DEF FirstUsable
<1>2. CASE AskNotification \/ TakeSignal \/ AdapterWatchFails
  BY <1>2 DEF AskNotification, TakeSignal, AdapterWatchFails, AdapterInv, NewsTravels
<1>3. CASE ReadAdapters
  <2> DEFINE first == FirstUsable(adapter)
  <2>1. told' = adapter /\ UNCHANGED adapter
    BY <1>3 DEF ReadAdapters
  <2>2. FirstUsable(told)' = first
    BY <2>1 DEF FirstUsable
  <2>3. CASE first # None /\ adapter[first] = "unreadable"
    BY <1>3, <2>1, <2>3 DEF ReadAdapters, AdapterInv, NewsTravels
  <2>4. CASE ~(first # None /\ adapter[first] = "unreadable")
    <3>1. /\ published' = first /\ unseen' = (unseen \/ first # published)
          /\ watcher' = "wait" /\ watcher = "dump" /\ UNCHANGED <<notify, taskVars>>
      BY <1>3, <2>4 DEF ReadAdapters
    <3>2. NewsTravels'
      BY <3>1 DEF AdapterInv, NewsTravels
    <3> QED  BY <2>1, <2>2, <3>1, <3>2 DEF AdapterInv
  <2> QED  BY <2>3, <2>4
<1>4. CASE AddressChanges
  <2>1. /\ notify' = IF notify = "asked" THEN "signalled" ELSE notify
        /\ adapter' \in [Interface -> AdapterState] /\ told' \in [Interface -> AdapterState]
        /\ UNCHANGED <<watcher, published, unseen, taskVars>>
    BY <1>4 DEF AddressChanges, AdapterInv
  <2> QED  BY <2>1 DEF AdapterInv, NewsTravels
<1>5. CASE StatusChanges
  <2>1. UNCHANGED <<watcher, published, unseen, taskVars, notify, told>>
    BY <1>5 DEF StatusChanges
  <2>2. /\ adapter' \in [Interface -> AdapterState]
        /\ \A i \in Interface : HasAddress(adapter'[i]) <=> HasAddress(adapter[i])
    BY <1>5 DEF StatusChanges, AdapterInv, HasAddress
  <2>3. NewsTravels'
    BY <2>1 DEF AdapterInv, NewsTravels
  <2>4. ASSUME watcher = "wait", notify = "asked", NEW i \in Interface
        PROVE  HasAddress(told[i])' <=> HasAddress(adapter[i])'
    BY <2>1, <2>2, <2>4 DEF AdapterInv, HasAddress
  <2> QED  BY <1>1, <2>1, <2>2, <2>3, <2>4 DEF AdapterInv
<1>6. CASE WatchAgain /\ UNCHANGED adapterVars
  BY <1>6 DEF WatchAgain, AdapterInv, NewsTravels, adapterVars
<1>7. CASE (BorrowAndUpdate \/ SetNetworkInterface \/ Changed) /\ UNCHANGED adapterVars
  <2>1. UNCHANGED <<watcher, published, notify, adapter, told>>
    BY <1>7 DEF BorrowAndUpdate, SetNetworkInterface, Changed, adapterVars
  <2> QED  BY <1>1, <1>7, <2>1, TaskStepTravels DEF AdapterInv, HasAddress
<1>8. CASE UNCHANGED <<watchVars, adapterVars>>
  BY <1>1, <1>8 DEF watchVars, adapterVars, AdapterInv, NewsTravels, HasAddress
<1> QED
  BY <1>2, <1>3, <1>4, <1>5, <1>6, <1>7, <1>8 DEF AdapterNext

(* Which of the two the watcher follows *)
PreferredInv ==
  /\ part = "adapters" => AdapterInv
  /\ part # "adapters" => WatchInv

LEMMA PreferredInvariant == Spec => []PreferredInv
<1>1. Init => PreferredInv
  <2> SUFFICES ASSUME Init PROVE PreferredInv
    OBVIOUS
  <2>1. WatchInv /\ watcher = "connect"
    BY WatchStarts DEF Init, WatchInit
  <2>2. adapter \in [Interface -> AdapterState] /\ told = adapter
    BY DEF Init, AdapterInit
  <2> QED  BY <2>1, <2>2 DEF PreferredInv, AdapterInv, WatchInv
<1>2. PreferredInv /\ [Next]_allVars => PreferredInv'
  <2> SUFFICES ASSUME PreferredInv, [Next]_allVars PROVE PreferredInv'
    OBVIOUS
  <2>1. part' = part
    BY StepOfAPart
  <2>2. CASE part = "adapters"
    BY <2>1, <2>2, StepOfAPart, AdapterStepKeeps DEF PreferredInv
  <2>3. CASE part # "adapters"
    <3>1. [WatchNext]_watchVars
      BY <2>3, StepOfAPart
    <3> QED  BY <2>1, <2>3, <3>1, WatchStepKeeps DEF PreferredInv
  <2> QED  BY <2>2, <2>3
<1> QED  BY <1>1, <1>2, PTL DEF Spec

(* No change that there is an event or a notification for is lost on its    *)
(* way to the client, however many there are and whenever the watcher       *)
(* fails: what the client uses is preferred by all that could be heard of,  *)
(* which differs from what is so only by default routes that went with      *)
(* their link, or by what adapters are apart from their addresses           *)
(* (preferred_interface.rs line 44, adapters.rs lines 57 and 64).           *)
THEOREM PreferredIsUsed == Spec => []ClientUsesPreferred
<1>1. PreferredInv => ClientUsesPreferred
  <2> SUFFICES ASSUME PreferredInv PROVE ClientUsesPreferred
    OBVIOUS
  <2>1. CASE part = "adapters"
    BY <2>1 DEF PreferredInv, AdapterInv, NewsTravels, ClientUsesPreferred, ClientUsesAdapter,
                HasAddress
  <2>2. CASE part # "adapters"
    BY <2>2 DEF PreferredInv, WatchInv, PublishedIsBest, NewsTravels, ClientUsesPreferred,
                ClientUsesBestRoute, OnlyLinksAreUnheard
  <2> QED  BY <2>1, <2>2
<1> QED  BY <1>1, PreferredInvariant, PTL

-----------------------------------------------------------------------------
(* The calls and the shutdown, on either system *)

Callers == {"tunnel", "shutdown"}
Whats == {Unset} \cup Unsets \cup {Set(c) : c \in Configs}
Outside == {"idle", "enter", "forever"}
Inside == {"lock", "firewall", "route", "choose", "dns", "add", "remove", "finish", "mtu", "ipv4",
           "ipv6", "servers", "metric", "routes", "rule", "flush", "spawn"}
CallRecord ==
  [step : Outside \cup Inside, what : Whats, ok : BOOLEAN,
   manager : {"none", "auto", "disabled", "resolved", "nm"}]

CallTypes ==
  /\ call \in [Callers -> CallRecord] /\ last \in CallRecord
  /\ timedOut \in BOOLEAN /\ revoked \in BOOLEAN

(* The shutdown makes its call once the tunnel task has no access any more, *)
(* and unless it did not wait for the tunnel's call, that one is over.      *)
ShutdownComesLast ==
  /\ call["shutdown"].what = Unset /\ call["shutdown"].step \notin {"enter", "forever"}
  /\ call["shutdown"].step # "idle" <=> service = "unsetting"
  /\ service \in {"unsetting", "unset", "closed", "down"} /\ timedOut = FALSE => revoked = TRUE /\ ~Reading
  /\ service \in {"unset", "closed", "down"} /\ timedOut = FALSE => last # Idle /\ last.what = Unset
  /\ last # Idle => last.step = "finish"

Turns == CallTypes /\ ShutdownComesLast

LEMMA IdleIsCall == Unset \in Whats /\ Idle \in CallRecord /\ Idle.step = "idle" /\ Idle.what = Unset
<1>1. Unset \in Whats
  BY DEF Whats
<1> QED  BY <1>1 DEF Idle, CallRecord, NoOne, Outside

(* A call that goes on keeps what it is for, and its failures. *)
Advances(c, s) ==
  /\ call' \in [Callers -> CallRecord]
  /\ call'[c].step = s /\ call'[c].what = call[c].what
  /\ \A d \in Callers \ {c} : call'[d] = call[d]

LEMMA GoesOnly ==
  ASSUME call \in [Callers -> CallRecord], NEW c \in Callers, NEW s \in Outside \cup Inside,
         NEW ok \in BOOLEAN, Goes(c, s, ok)
  PROVE  /\ Advances(c, s)
         /\ call'[c].manager = call[c].manager
         /\ call'[c].ok = TRUE => call[c].ok = TRUE /\ ok = TRUE
<1> DEFINE b == call[c].ok /\ ok
<1>1. call' = [call EXCEPT ![c].step = s, ![c].ok = b]
  BY DEF Goes
<1>2. b \in BOOLEAN /\ (b = TRUE => call[c].ok = TRUE /\ ok = TRUE)
  OBVIOUS
<1> HIDE DEF b
<1>3. call[c] \in CallRecord
  OBVIOUS
<1>4. call'[c] = [call[c] EXCEPT !.step = s, !.ok = b]
  BY <1>1
<1>5. /\ call'[c] \in CallRecord /\ call'[c].step = s /\ call'[c].what = call[c].what
      /\ call'[c].manager = call[c].manager /\ call'[c].ok = b
  BY <1>2, <1>3, <1>4 DEF CallRecord
<1>6. call' \in [Callers -> CallRecord] /\ \A d \in Callers \ {c} : call'[d] = call[d]
  BY <1>1, <1>4, <1>5
<1> QED  BY <1>2, <1>5, <1>6 DEF Advances

(* The steps inside a call leave the order of the calls as it is. *)
LEMMA GoesInTurn ==
  ASSUME Turns, NEW c \in Callers, NEW s \in Inside, Advances(c, s), call[c].step \notin Outside,
         UNCHANGED <<last, timedOut, revoked, service>>
  PROVE  Turns'
<1>0. s \notin Outside
  BY DEF Inside, Outside
<1>1. /\ call' \in [Callers -> CallRecord]
      /\ call'[c].step = s /\ call'[c].what = call[c].what
      /\ \A d \in Callers \ {c} : call'[d] = call[d]
  BY DEF Advances
<1>2. CallTypes'
  BY <1>1 DEF Turns, CallTypes
<1>3. CASE c = "tunnel"
  <2>1. call'["shutdown"] = call["shutdown"] /\ Reading
    BY <1>1, <1>3 DEF Callers, Reading, Outside
  <2> QED  BY <1>2, <2>1 DEF Turns, ShutdownComesLast
<1>4. CASE c = "shutdown"
  <2>1. call'["tunnel"] = call["tunnel"]
    BY <1>1, <1>4 DEF Callers
  <2>2. Reading' = Reading
    BY <2>1 DEF Reading
  <2> QED  BY <1>0, <1>1, <1>2, <1>4, <2>2 DEF Turns, ShutdownComesLast, Outside
<1> QED  BY <1>3, <1>4 DEF Callers

LEMMA FinishInTurn ==
  ASSUME Turns, NEW c \in Callers, FinishCall(c)
  PROVE  /\ Turns' /\ call[c].step = "finish"
         /\ last' = call[c] /\ last' # Idle
         /\ call' \in [Callers -> CallRecord] /\ call'[c] = Idle
         /\ \A d \in Callers \ {c} : call'[d] = call[d]
<1>1. /\ call[c].step = "finish" /\ last' = call[c] /\ call' = [call EXCEPT ![c] = Idle]
      /\ service' = IF c = "shutdown" THEN "unset" ELSE service
      /\ UNCHANGED <<timedOut, revoked>>
  BY DEF FinishCall, At
<1>2. call' \in [Callers -> CallRecord] /\ call'[c] = Idle /\ \A d \in Callers \ {c} : call'[d] = call[d]
  BY <1>1, IdleIsCall DEF Turns, CallTypes
<1>3. last' # Idle /\ last'.step = "finish"
  BY <1>1, IdleIsCall
<1>4. CallTypes'
  BY <1>1, <1>2 DEF Turns, CallTypes
<1>5. CASE c = "tunnel"
  <2>1. call'["shutdown"] = call["shutdown"] /\ Reading /\ ~Reading' /\ service' = service
    BY <1>1, <1>2, <1>5, IdleIsCall DEF Callers, Reading
  <2> QED  BY <1>1, <1>2, <1>3, <1>4, <2>1 DEF Turns, ShutdownComesLast
<1>6. CASE c = "shutdown"
  <2>1. call'["tunnel"] = call["tunnel"]
    BY <1>2, <1>6 DEF Callers
  <2>2. Reading' = Reading /\ service' = "unset" /\ service = "unsetting" /\ last'.what = Unset
    BY <1>1, <1>6, <2>1 DEF Reading, Turns, ShutdownComesLast
  <2>3. call'["shutdown"].step = "idle" /\ call'["shutdown"].what = Unset
    BY <1>2, <1>6, IdleIsCall
  <2> QED  BY <1>1, <1>2, <1>3, <1>4, <2>2, <2>3 DEF Turns, ShutdownComesLast
<1> QED  BY <1>1, <1>2, <1>3, <1>5, <1>6 DEF Callers

(* A call that starts, on its way in, and the shutdown's *)
LEMMA OthersInTurn ==
  ASSUME Turns, TunnelCalls \/ EnterCall \/ RequestShutdown \/ Revoke \/ TimeOutRevoke
  PROVE  /\ Turns' /\ last' = last
         /\ call' \in [Callers -> CallRecord]
         /\ \A c \in Callers : call'[c] # call[c] =>
              call[c].step \in {"idle", "enter"} /\ call'[c].step \in {"enter", "forever", "lock"}
         /\ call'["shutdown"] # call["shutdown"] => timedOut' = TRUE \/ ~Reading'
<1>s. DOMAIN call = Callers /\ \A c \in Callers : DOMAIN call[c] = {"step", "what", "ok", "manager"}
  BY DEF Turns, CallTypes, CallRecord
<1>1. CASE TunnelCalls
  <2>1. PICK w \in Whats :
          call' = [call EXCEPT !["tunnel"] = [Idle EXCEPT !.step = "enter", !.what = w]]
    BY <1>1 DEF TunnelCalls, Whats
  <2>2. call["tunnel"].step = "idle" /\ UNCHANGED <<revoked, timedOut, service, last>>
    BY <1>1 DEF TunnelCalls, At
  <2>3. [Idle EXCEPT !.step = "enter", !.what = w] \in CallRecord
    BY IdleIsCall DEF Idle, CallRecord, NoOne, Outside, Inside
  <2>4. call' \in [Callers -> CallRecord] /\ call'["shutdown"] = call["shutdown"] /\ call'["tunnel"].step = "enter"
    BY <2>1, <2>3 DEF Turns, CallTypes, Callers, Idle
  <2>5. ~Reading'
    BY <2>4 DEF Reading
  <2>8. CallTypes'
    BY <2>2, <2>4, <2>5 DEF Turns, CallTypes
  <2>9. ShutdownComesLast'
    BY <2>2, <2>4, <2>5 DEF Turns, CallTypes, ShutdownComesLast, Callers
  <2> QED  BY <2>2, <2>4, <2>5, <2>8, <2>9 DEF Turns, CallTypes, Callers
<1>2. CASE EnterCall
  <2> DEFINE s == IF revoked THEN "forever" ELSE "lock"
  <2>1. s \in Outside \cup Inside /\ Goes("tunnel", s, TRUE) /\ call["tunnel"].step = "enter"
        /\ UNCHANGED <<revoked, timedOut, service, last>>
    BY <1>2 DEF EnterCall, At, callerVars, Outside, Inside
  <2>2. /\ call' \in [Callers -> CallRecord] /\ call'["shutdown"] = call["shutdown"]
        /\ call'["tunnel"].step = s
    <3> HIDE DEF s
    <3> QED  BY <2>1, GoesOnly DEF Turns, CallTypes, Callers, Advances
  <2>3. revoked = TRUE => ~Reading'
    BY <2>2 DEF Reading
  <2>8. CallTypes'
    BY <2>1, <2>2, <2>3 DEF Turns, CallTypes
  <2>9. ShutdownComesLast'
    BY <2>1, <2>2, <2>3 DEF Turns, CallTypes, ShutdownComesLast, Callers
  <2> QED  BY <2>1, <2>2, <2>3, <2>8, <2>9 DEF Turns, CallTypes, Callers
<1>3. CASE RequestShutdown
  <2>1. UNCHANGED <<call, timedOut, last, revoked>> /\ service = "up" /\ service' = "stopping"
    BY <1>3 DEF RequestShutdown
  <2>2. Reading' = Reading
    BY <2>1 DEF Reading
  <2>8. CallTypes'
    BY <2>1 DEF Turns, CallTypes
  <2>9. ShutdownComesLast'
    BY <2>1, <2>2 DEF Turns, CallTypes, ShutdownComesLast
  <2> QED  BY <2>1, <2>8, <2>9 DEF Turns, CallTypes
<1>4. CASE Revoke \/ TimeOutRevoke
  <2>1. /\ call' = [call EXCEPT !["shutdown"] = [Idle EXCEPT !.step = "lock"]]
        /\ service = "stopping" /\ service' = "unsetting" /\ last' = last
        /\ timedOut' = TRUE \/ (revoked' = TRUE /\ ~Reading)
        /\ timedOut' \in BOOLEAN /\ revoked' \in BOOLEAN
    <3>1. CASE Revoke
      BY <3>1 DEF Revoke, UnsetAtLast, Turns, CallTypes
    <3>2. CASE TimeOutRevoke
      BY <3>2 DEF TimeOutRevoke, UnsetAtLast, Turns, CallTypes
    <3> QED  BY <1>4, <3>1, <3>2
  <2>2. [Idle EXCEPT !.step = "lock"] \in CallRecord
    BY IdleIsCall DEF Idle, CallRecord, NoOne, Outside, Inside
  <2>3. /\ call' \in [Callers -> CallRecord] /\ call'["tunnel"] = call["tunnel"]
        /\ call'["shutdown"].step = "lock" /\ call'["shutdown"].what = Unset
        /\ call["shutdown"].step = "idle"
    BY <2>1, <2>2 DEF Turns, CallTypes, Callers, Idle, ShutdownComesLast
  <2>4. Reading' = Reading
    BY <2>3 DEF Reading
  <2>8. CallTypes'
    BY <2>1, <2>3, <2>4 DEF Turns, CallTypes
  <2>9. ShutdownComesLast'
    BY <2>1, <2>3, <2>4 DEF Turns, CallTypes, ShutdownComesLast, Callers
  <2> QED  BY <2>1, <2>3, <2>4, <2>8, <2>9 DEF Turns, CallTypes, Callers
<1> QED  BY <1>1, <1>2, <1>3, <1>4

LEMMA TurnsStart == NetInit => Turns /\ last = Idle /\ mutex = NoOne
<1> SUFFICES ASSUME NetInit PROVE Turns
  BY DEF NetInit
<1>1. call \in [Callers -> CallRecord] /\ \A c \in Callers : call[c].step = "idle" /\ call[c].what = Unset
  BY IdleIsCall DEF NetInit, Callers
<1> QED  BY <1>1, IdleIsCall DEF NetInit, Turns, CallTypes, ShutdownComesLast, Callers

-----------------------------------------------------------------------------
(* The calls of the Linux service *)

Holds(c) == call[c].step \in {"firewall", "route", "choose", "dns", "add", "remove", "finish"}

(* The lock is held from the filter to the end of a call. *)
LockIsHeld == \A c \in Callers : Holds(c) <=> mutex = c

(* What a call has gone through is in place, unless a part has failed. *)
FilterIsSet(c) ==
  call[c].step \in {"route", "choose", "dns", "add", "remove", "finish"} /\ call[c].ok = TRUE =>
    firewall = PolicyOf(call[c].what)

PolicyIsSent(c) ==
  call[c].step \in {"choose", "dns", "add", "remove", "finish"} => desired = PolicyOf(call[c].what)

DnsIsSet(c) ==
  /\ call[c].step \in {"add", "remove", "finish"} /\ call[c].ok = TRUE /\ call[c].manager \in Manager =>
       dnsAt[call[c].manager] = WantedDns(call[c].what)
  /\ call[c].step = "dns" => call[c].manager \in Manager

AddressIsSet(c) ==
  /\ call[c].step = "remove" =>
       /\ call[c].what.config.addr \in addrs \/ bare = TRUE
       /\ call[c].ok = TRUE => call[c].what.config.addr \in addrs
  /\ call[c].step = "finish" /\ call[c].ok = TRUE /\ call[c].what.to = "set" =>
       addrs = {call[c].what.config.addr}
  /\ call[c].step \in {"add", "remove"} => call[c].what.to = "set"

InPlace(c) == FilterIsSet(c) /\ PolicyIsSent(c) /\ DnsIsSet(c) /\ AddressIsSet(c)

(* ... and remains so from the end of the last call to the next one. *)
LastIsInPlace ==
  mutex = NoOne /\ last # Idle =>
    /\ desired = PolicyOf(last.what)
    /\ last.ok = TRUE =>
         /\ firewall = PolicyOf(last.what)
         /\ last.manager \in Manager => dnsAt[last.manager] = WantedDns(last.what)
         /\ last.what.to = "set" => addrs = {last.what.config.addr}

DeviceKeepsAddress == addrs = {} => bare = TRUE

LinuxTypes ==
  /\ mutex \in {NoOne} \cup Callers /\ bare \in BOOLEAN
  /\ dnsAt = [m \in Manager |-> dnsAt[m]]

CallsInv ==
  /\ Turns /\ LinuxTypes /\ LockIsHeld /\ LastIsInPlace /\ DeviceKeepsAddress
  /\ \A c \in Callers : InPlace(c)
  /\ service \in {"unset", "down"} /\ timedOut = FALSE => mutex = NoOne

(* A step of a call that holds the lock leaves the other and the last one   *)
(* alone.                                                                   *)
LEMMA HolderSteps ==
  ASSUME CallsInv, NEW c \in Callers, NEW s \in Inside, Advances(c, s),
         Holds(c), Holds(c)',
         UNCHANGED <<mutex, last, callerVars>>, LinuxTypes', DeviceKeepsAddress', InPlace(c)'
  PROVE  CallsInv'
<1>1. Turns'
  BY GoesInTurn DEF CallsInv, callerVars, Holds, Outside
<1>2. /\ call'[c].step = s
      /\ \A d \in Callers \ {c} : call'[d] = call[d]
  BY DEF Advances
<1>3. mutex = c /\ mutex' = c /\ c # NoOne
  BY DEF CallsInv, LockIsHeld, callerVars, Callers, NoOne
<1>4. ASSUME NEW d \in Callers \ {c} PROVE ~Holds(d) /\ ~Holds(d)'
  BY <1>2, <1>3 DEF CallsInv, LockIsHeld, Holds
<1>5. LockIsHeld'
  BY <1>3, <1>4 DEF LockIsHeld
<1>6. LastIsInPlace'
  BY <1>3 DEF LastIsInPlace
<1>7. ASSUME NEW d \in Callers \ {c} PROVE InPlace(d)'
  BY <1>4 DEF InPlace, FilterIsSet, PolicyIsSent, DnsIsSet, AddressIsSet, Holds
<1>8. service' \in {"unset", "down"} /\ timedOut' = FALSE => mutex' = NoOne
  BY DEF CallsInv, callerVars
<1> QED  BY <1>1, <1>5, <1>6, <1>7, <1>8 DEF CallsInv

LEMMA CallStepKeeps ==
  ASSUME CallsInv, NEW c \in Callers, CallStep(c)
  PROVE  CallsInv'
<1> USE DEF callerVars
<1> DEFINE w == call[c].what
<1>0. /\ call \in [Callers -> CallRecord] /\ LinuxTypes /\ InPlace(c) /\ DeviceKeepsAddress
      /\ Holds(c) <=> mutex = c
  BY DEF CallsInv, Turns, CallTypes, LockIsHeld
<1>1. CASE Lock(c)
  <2>1. /\ call[c].step = "lock" /\ mutex = NoOne /\ mutex' = c /\ Goes(c, "firewall", TRUE)
        /\ UNCHANGED <<firewall, dnsAt, addrs, bare, last, desired, service, timedOut, revoked>>
    BY <1>1 DEF Lock, At
  <2>2. Turns'
    <3>1. "firewall" \in Inside /\ call[c].step \notin Outside
      BY <2>1 DEF Inside, Outside
    <3>2. Advances(c, "firewall")
      BY <1>0, <2>1, GoesOnly DEF Inside
    <3> QED  BY <2>1, <3>1, <3>2, GoesInTurn DEF CallsInv
  <2>3. call'[c].step = "firewall" /\ \A d \in Callers \ {c} : call'[d] = call[d]
    BY <1>0, <2>1, GoesOnly DEF Inside, Advances
  <2>4. \A d \in Callers : ~Holds(d) /\ d # NoOne
    BY <2>1 DEF CallsInv, LockIsHeld, Callers, NoOne
  <2>5. \A d \in Callers : Holds(d)' <=> d = c
    BY <2>3, <2>4 DEF Holds
  <2>6. \A d \in Callers : InPlace(d)'
    BY <2>3, <2>4 DEF InPlace, FilterIsSet, PolicyIsSent, DnsIsSet, AddressIsSet, Holds
  <2>7. LinuxTypes' /\ LockIsHeld' /\ LastIsInPlace' /\ DeviceKeepsAddress'
    BY <1>0, <2>1, <2>4, <2>5 DEF LinuxTypes, LockIsHeld, LastIsInPlace, DeviceKeepsAddress
  <2>8. service \in {"unset", "down"} /\ timedOut = FALSE => FALSE
    <3>1. CASE c = "tunnel"
      BY <2>1, <3>1 DEF CallsInv, Turns, ShutdownComesLast, Reading
    <3>2. CASE c = "shutdown"
      BY <2>1, <3>2 DEF CallsInv, Turns, ShutdownComesLast
    <3> QED  BY <3>1, <3>2 DEF Callers
  <2> QED  BY <2>1, <2>2, <2>6, <2>7, <2>8 DEF CallsInv
<1>2. CASE ApplyFirewall(c)
  <2>1. PICK ok \in BOOLEAN :
          /\ Goes(c, "route", ok)
          /\ firewall' \in {PolicyOf(w)} \cup (IF ok THEN {} ELSE {firewall})
    BY <1>2 DEF ApplyFirewall
  <2>2. call[c].step = "firewall" /\ UNCHANGED <<mutex, dnsAt, addrs, bare, last, callerVars>>
    BY <1>2 DEF ApplyFirewall, At
  <2>3. ok = TRUE => firewall' = PolicyOf(w)
    BY <2>1
  <2>4. /\ Advances(c, "route") /\ call'[c].step = "route" /\ call'[c].what = w
        /\ call'[c].ok = TRUE => ok = TRUE
    BY <1>0, <2>1, GoesOnly DEF Inside, Advances
  <2>5. PolicyOf(call'[c].what) = PolicyOf(w)
    BY <2>4
  <2>6. InPlace(c)'
    <3>1. FilterIsSet(c)'
      BY <2>3, <2>4 DEF FilterIsSet, PolicyOf, TunnelDns
    <3> QED  BY <2>4, <3>1 DEF InPlace, PolicyIsSent, DnsIsSet, AddressIsSet
  <2>7. Holds(c) /\ Holds(c)' /\ LinuxTypes' /\ DeviceKeepsAddress' /\ "route" \in Inside
    BY <1>0, <2>2, <2>4 DEF Holds, LinuxTypes, DeviceKeepsAddress, Inside
  <2> QED  BY <2>2, <2>4, <2>6, <2>7, HolderSteps
<1>3. CASE Route(c)
  <2>1. /\ call[c].step = "route" /\ desired' = PolicyOf(w) /\ Goes(c, "choose", TRUE)
        /\ UNCHANGED <<mutex, firewall, dnsAt, addrs, bare, last, callerVars>>
    BY <1>3 DEF Route, At, SendPolicy
  <2>2. /\ Advances(c, "choose") /\ call'[c].step = "choose" /\ call'[c].what = w
        /\ call'[c].ok = TRUE => call[c].ok = TRUE
    BY <1>0, <2>1, GoesOnly DEF Inside, Advances
  <2>3. InPlace(c)'
    <3>1. FilterIsSet(c)'
      BY <1>0, <2>1, <2>2 DEF InPlace, FilterIsSet, PolicyOf, TunnelDns
    <3>2. PolicyIsSent(c)'
      BY <2>1, <2>2 DEF PolicyIsSent, PolicyOf, TunnelDns
    <3> QED  BY <2>2, <3>1, <3>2 DEF InPlace, DnsIsSet, AddressIsSet
  <2>4. Holds(c) /\ Holds(c)' /\ LinuxTypes' /\ DeviceKeepsAddress' /\ "choose" \in Inside
    BY <1>0, <2>1, <2>2 DEF Holds, LinuxTypes, DeviceKeepsAddress, Inside
  <2> QED  BY <2>1, <2>2, <2>3, <2>4, HolderSteps
<1>4. CASE ChooseDnsManager(c)
  <2> DEFINE t == IF Choice \in Manager THEN "dns" ELSE AfterDns(c)
             b == call[c].ok /\ Choice # NoOne
  <2>1. /\ call[c].step = "choose"
        /\ call' = [call EXCEPT ![c].manager = Choice, ![c].ok = b, ![c].step = t]
        /\ UNCHANGED <<mutex, firewall, dnsAt, addrs, bare, last, desired, callerVars>>
    BY <1>4 DEF ChooseDnsManager, At
  <2>2. /\ t \in {"dns", "add", "finish"} /\ (t = "dns" <=> Choice \in Manager)
        /\ t = "add" => w.to = "set"
        /\ t = "finish" => w.to # "set"
    BY DEF AfterDns
  <2>3. Choice \in {"none", "auto", "disabled", "resolved", "nm"}
    BY NetworkConstants DEF Choice, NoOne
  <2>4. b \in BOOLEAN /\ (b = TRUE => call[c].ok = TRUE)
    BY <1>0
  <2> HIDE DEF t, b
  <2>5. call[c] \in CallRecord
    BY <1>0
  <2>6. call'[c] = [call[c] EXCEPT !.manager = Choice, !.ok = b, !.step = t]
    BY <1>0, <2>1
  <2>7. /\ call'[c] \in CallRecord /\ call'[c].step = t /\ call'[c].what = w
        /\ call'[c].manager = Choice /\ call'[c].ok = b
    BY <2>2, <2>3, <2>4, <2>5, <2>6 DEF CallRecord, Inside
  <2>8. Advances(c, t)
    BY <1>0, <2>1, <2>6, <2>7 DEF Advances
  <2>9. FilterIsSet(c)'
    BY <1>0, <2>1, <2>4, <2>7 DEF InPlace, FilterIsSet, PolicyOf, TunnelDns
  <2>10. PolicyIsSent(c)'
    BY <1>0, <2>1, <2>7 DEF InPlace, PolicyIsSent, PolicyOf, TunnelDns
  <2>11. DnsIsSet(c)'
    BY <2>2, <2>7 DEF DnsIsSet
  <2>12. AddressIsSet(c)'
    BY <2>2, <2>7 DEF AddressIsSet
  <2>13. Holds(c) /\ Holds(c)' /\ LinuxTypes' /\ DeviceKeepsAddress' /\ t \in Inside
    BY <1>0, <2>1, <2>2, <2>7 DEF Holds, LinuxTypes, DeviceKeepsAddress, Inside
  <2> QED  BY <2>1, <2>8, <2>9, <2>10, <2>11, <2>12, <2>13, HolderSteps DEF InPlace
<1>5. CASE SetDns(c)
  <2> DEFINE m == call[c].manager
             want == WantedDns(w)
             half == IF m = "resolved" /\ want # {} THEN {PARTIAL, want} ELSE {}
             t == AfterDns(c)
  <2>1. PICK ok \in BOOLEAN :
          /\ Goes(c, t, ok)
          /\ dnsAt' \in {[dnsAt EXCEPT ![m] = d] : d \in IF ok THEN {want} ELSE {dnsAt[m]} \cup half}
    BY <1>5 DEF SetDns
  <2>2. call[c].step = "dns" /\ UNCHANGED <<mutex, firewall, desired, addrs, bare, last, callerVars>>
    BY <1>5 DEF SetDns, At
  <2>3. t \in {"add", "finish"} /\ (t = "add" <=> w.to = "set") /\ t \in Inside
    BY DEF AfterDns, Inside
  <2>4. m \in Manager
    BY <1>0, <2>2 DEF InPlace, DnsIsSet
  <2>5. dnsAt' = [k \in Manager |-> dnsAt'[k]] /\ (ok = TRUE => dnsAt'[m] = want)
    <3>1. PICK d : d \in (IF ok THEN {want} ELSE {dnsAt[m]} \cup half) /\ dnsAt' = [dnsAt EXCEPT ![m] = d]
      BY <2>1
    <3>2. ok = TRUE => d = want
      BY <3>1
    <3> HIDE DEF m, want, half, t
    <3> QED  BY <1>0, <2>4, <3>1, <3>2 DEF LinuxTypes
  <2> HIDE DEF t
  <2>6. /\ Advances(c, t) /\ call'[c].step = t /\ call'[c].what = w /\ call'[c].manager = m
        /\ call'[c].ok = TRUE => call[c].ok = TRUE /\ ok = TRUE
    <3>1. t \in Outside \cup Inside /\ Goes(c, t, ok)
      BY <2>1, <2>3
    <3>2. /\ Advances(c, t) /\ call'[c].manager = call[c].manager
          /\ call'[c].ok = TRUE => call[c].ok = TRUE /\ ok = TRUE
      BY <1>0, <3>1, GoesOnly
    <3> QED  BY <3>2 DEF Advances
  <2>7. FilterIsSet(c)' /\ PolicyIsSent(c)'
    BY <1>0, <2>2, <2>6 DEF InPlace, FilterIsSet, PolicyIsSent, PolicyOf, TunnelDns
  <2>8. DnsIsSet(c)'
    BY <2>3, <2>5, <2>6 DEF DnsIsSet, WantedDns, TunnelDns
  <2>9. AddressIsSet(c)'
    BY <2>3, <2>6 DEF AddressIsSet
  <2>10. Holds(c) /\ Holds(c)' /\ LinuxTypes' /\ DeviceKeepsAddress'
    BY <1>0, <2>2, <2>3, <2>5, <2>6 DEF Holds, LinuxTypes, DeviceKeepsAddress
  <2> QED  BY <2>2, <2>3, <2>6, <2>7, <2>8, <2>9, <2>10, HolderSteps DEF InPlace
<1>6. CASE AddAddress(c)
  <2>1. PICK added \in BOOLEAN, ok \in BOOLEAN :
          /\ ok => added
          /\ Goes(c, "remove", ok)
          /\ addrs' = addrs \cup (IF added THEN {w.config.addr} ELSE {})
          /\ bare' = ~added
    BY <1>6 DEF AddAddress
  <2>2. call[c].step = "add" /\ UNCHANGED <<mutex, firewall, desired, dnsAt, last, callerVars>>
    BY <1>6 DEF AddAddress, At
  <2>3. /\ Advances(c, "remove") /\ call'[c].step = "remove" /\ call'[c].what = w
        /\ call'[c].manager = call[c].manager
        /\ call'[c].ok = TRUE => call[c].ok = TRUE /\ ok = TRUE
    BY <1>0, <2>1, GoesOnly DEF Inside, Advances
  <2>4. FilterIsSet(c)' /\ PolicyIsSent(c)' /\ DnsIsSet(c)'
    BY <1>0, <2>2, <2>3 DEF InPlace, FilterIsSet, PolicyIsSent, DnsIsSet, PolicyOf, WantedDns, TunnelDns
  <2>5. /\ w.config.addr \in addrs' \/ bare' = TRUE
        /\ ok = TRUE => w.config.addr \in addrs'
        /\ bare' \in BOOLEAN
    BY <2>1
  <2>6. AddressIsSet(c)'
    BY <1>0, <2>2, <2>3, <2>5 DEF InPlace, AddressIsSet
  <2>7. Holds(c) /\ Holds(c)' /\ LinuxTypes' /\ DeviceKeepsAddress' /\ "remove" \in Inside
    BY <1>0, <2>2, <2>3, <2>5 DEF Holds, LinuxTypes, DeviceKeepsAddress, Inside
  <2> QED  BY <2>2, <2>3, <2>4, <2>6, <2>7, HolderSteps DEF InPlace
<1>7. CASE RemoveAddresses(c)
  <2>1. PICK kept \in SUBSET (addrs \ {w.config.addr}) :
          /\ addrs' = (addrs \cap {w.config.addr}) \cup kept
          /\ Goes(c, "finish", kept = {})
    BY <1>7 DEF RemoveAddresses
  <2>2. call[c].step = "remove" /\ UNCHANGED <<mutex, firewall, desired, dnsAt, bare, last, callerVars>>
    BY <1>7 DEF RemoveAddresses, At
  <2>0. PICK ok \in BOOLEAN : Goes(c, "finish", ok) /\ (ok = TRUE => kept = {})
    BY <2>1
  <2>3. /\ Advances(c, "finish") /\ call'[c].step = "finish" /\ call'[c].what = w
        /\ call'[c].manager = call[c].manager
        /\ call'[c].ok = TRUE => call[c].ok = TRUE /\ ok = TRUE
    <3>1. "finish" \in Outside \cup Inside /\ Goes(c, "finish", ok)
      BY <2>0 DEF Inside
    <3>2. /\ Advances(c, "finish") /\ call'[c].manager = call[c].manager
          /\ call'[c].ok = TRUE => call[c].ok = TRUE /\ ok = TRUE
      BY <1>0, <3>1, GoesOnly
    <3> QED  BY <3>2 DEF Advances
  <2>4. FilterIsSet(c)' /\ PolicyIsSent(c)' /\ DnsIsSet(c)'
    BY <1>0, <2>2, <2>3 DEF InPlace, FilterIsSet, PolicyIsSent, DnsIsSet, PolicyOf, WantedDns, TunnelDns
  <2>5. call'[c].ok = TRUE => call[c].ok = TRUE /\ kept = {}
    BY <2>3, <2>0
  <2>6. /\ w.config.addr \in addrs \/ bare = TRUE
        /\ call[c].ok = TRUE => w.config.addr \in addrs
    BY <1>0, <2>2 DEF InPlace, AddressIsSet
  <2>7. AddressIsSet(c)'
    BY <2>1, <2>3, <2>5, <2>6 DEF AddressIsSet
  <2>8. Holds(c) /\ Holds(c)' /\ LinuxTypes' /\ DeviceKeepsAddress' /\ "finish" \in Inside
    BY <1>0, <2>1, <2>2, <2>3, <2>6 DEF Holds, LinuxTypes, DeviceKeepsAddress, Inside
  <2> QED  BY <2>2, <2>3, <2>4, <2>7, <2>8, HolderSteps DEF InPlace
<1>8. CASE FinishCall(c)
  <2>1. /\ Turns' /\ call[c].step = "finish" /\ last' = call[c] /\ call'[c] = Idle
        /\ \A d \in Callers \ {c} : call'[d] = call[d]
    BY <1>8, FinishInTurn DEF CallsInv
  <2>2. mutex' = NoOne /\ UNCHANGED <<firewall, dnsAt, addrs, bare, desired, timedOut>>
    BY <1>8 DEF FinishCall
  <2>3. Holds(c) /\ mutex = c /\ c # NoOne /\ NoOne \notin Callers
    BY <1>0, <2>1 DEF Holds, Callers, NoOne
  <2>4. \A d \in Callers : ~Holds(d)'
    <3>1. ~Holds(c)'
      BY <2>1, IdleIsCall DEF Holds
    <3>2. \A d \in Callers \ {c} : ~Holds(d)'
      BY <2>1, <2>3 DEF CallsInv, LockIsHeld, Holds
    <3> QED  BY <3>1, <3>2
  <2>5. LockIsHeld'
    BY <2>2, <2>3, <2>4 DEF LockIsHeld
  <2>6. \A d \in Callers : InPlace(d)'
    BY <2>4 DEF InPlace, FilterIsSet, PolicyIsSent, DnsIsSet, AddressIsSet, Holds
  <2>7. LastIsInPlace'
    BY <1>0, <2>1, <2>2 DEF LastIsInPlace, InPlace, FilterIsSet, PolicyIsSent, DnsIsSet, AddressIsSet,
                            PolicyOf, WantedDns, TunnelDns
  <2>8. LinuxTypes' /\ DeviceKeepsAddress'
    BY <1>0, <2>2 DEF LinuxTypes, DeviceKeepsAddress
  <2> QED  BY <2>1, <2>2, <2>5, <2>6, <2>7, <2>8 DEF CallsInv
<1> QED  BY <1>1, <1>2, <1>3, <1>4, <1>5, <1>6, <1>7, <1>8 DEF CallStep

LEMMA CallsStart == NetInit => CallsInv
<1> SUFFICES ASSUME NetInit PROVE CallsInv
  OBVIOUS
<1>1. \A c \in Callers : call[c].step = "idle"
  BY IdleIsCall DEF NetInit, Callers
<1>2. LinuxTypes
  <2>1. mutex = NoOne /\ bare = FALSE /\ dnsAt = [m \in Manager |-> {}]
    BY DEF NetInit
  <2> QED  BY <2>1 DEF LinuxTypes
<1>3. LockIsHeld
  BY <1>1 DEF NetInit, LockIsHeld, Holds, Callers, NoOne
<1>4. \A c \in Callers : InPlace(c)
  BY <1>1 DEF InPlace, FilterIsSet, PolicyIsSent, DnsIsSet, AddressIsSet
<1>5. LastIsInPlace /\ DeviceKeepsAddress
  BY DEF NetInit, LastIsInPlace, DeviceKeepsAddress
<1> QED  BY <1>2, <1>3, <1>4, <1>5, TurnsStart DEF CallsInv, NetInit

LEMMA CallsStepKeeps == CallsInv /\ [NetNext]_<<netVars, desired, changed>> => CallsInv'
<1> SUFFICES ASSUME CallsInv, [NetNext]_<<netVars, desired, changed>> PROVE CallsInv'
  OBVIOUS
<1>1. CASE \E c \in Callers : CallStep(c)
  BY <1>1, CallStepKeeps
<1>2. CASE TunnelCalls \/ EnterCall \/ RequestShutdown \/ Revoke \/ TimeOutRevoke
  <2>1. /\ Turns' /\ last' = last
        /\ \A c \in Callers : call'[c] # call[c] =>
             call[c].step \in {"idle", "enter"} /\ call'[c].step \in {"enter", "forever", "lock"}
    BY <1>2, OthersInTurn DEF CallsInv
  <2>2. UNCHANGED <<mutex, firewall, dnsAt, addrs, bare, desired>>
    BY <1>2 DEF TunnelCalls, EnterCall, RequestShutdown, Revoke, TimeOutRevoke
  <2>3. service' \in {"unset", "down"} => service' = service /\ timedOut' = timedOut
    BY <1>2 DEF TunnelCalls, EnterCall, RequestShutdown, Revoke, TimeOutRevoke, UnsetAtLast, callerVars
  <2>4. \A c \in Callers : Holds(c)' <=> Holds(c)
    BY <2>1 DEF Holds
  <2>5. ASSUME NEW c \in Callers PROVE InPlace(c)'
    <3>1. CASE call'[c] = call[c]
      BY <2>2, <3>1 DEF CallsInv, InPlace, FilterIsSet, PolicyIsSent, DnsIsSet, AddressIsSet,
                        PolicyOf, WantedDns, TunnelDns
    <3>2. CASE call'[c] # call[c]
      BY <2>1, <3>2 DEF InPlace, FilterIsSet, PolicyIsSent, DnsIsSet, AddressIsSet
    <3> QED  BY <3>1, <3>2
  <2>6. LinuxTypes' /\ DeviceKeepsAddress' /\ LockIsHeld'
    BY <2>2, <2>4 DEF CallsInv, LinuxTypes, DeviceKeepsAddress, LockIsHeld
  <2>7. LastIsInPlace'
    BY <2>1, <2>2 DEF CallsInv, LastIsInPlace, PolicyOf, WantedDns, TunnelDns
  <2>8. service' \in {"unset", "down"} /\ timedOut' = FALSE => mutex' = NoOne
    BY <2>2, <2>3 DEF CallsInv
  <2> QED  BY <2>1, <2>5, <2>6, <2>7, <2>8 DEF CallsInv
<1>3. CASE Exit \/ ManagersChange \/ UNCHANGED <<netVars, desired, changed>>
  <2>1. /\ UNCHANGED <<call, mutex, firewall, dnsAt, addrs, bare, desired, revoked, timedOut, last>>
        /\ service' # service => service = "unset" /\ service' = "down"
    <3>1. CASE Exit
      BY <3>1 DEF Exit
    <3>2. CASE ManagersChange
      BY <3>2 DEF ManagersChange
    <3>3. CASE UNCHANGED <<netVars, desired, changed>>
      BY <3>3 DEF netVars
    <3> QED  BY <1>3, <3>1, <3>2, <3>3
  <2>2. Reading' = Reading /\ \A c \in Callers : Holds(c)' <=> Holds(c)
    BY <2>1 DEF Reading, Holds
  <2>3. Turns'
    BY <2>1, <2>2 DEF CallsInv, Turns, CallTypes, ShutdownComesLast
  <2>4. \A c \in Callers : InPlace(c)'
    BY <2>1 DEF CallsInv, InPlace, FilterIsSet, PolicyIsSent, DnsIsSet, AddressIsSet,
                PolicyOf, WantedDns, TunnelDns
  <2>5. LinuxTypes' /\ DeviceKeepsAddress' /\ LockIsHeld'
    BY <2>1, <2>2 DEF CallsInv, LinuxTypes, DeviceKeepsAddress, LockIsHeld
  <2>6. LastIsInPlace'
    BY <2>1 DEF CallsInv, LastIsInPlace, PolicyOf, WantedDns, TunnelDns
  <2>7. service' \in {"unset", "down"} /\ timedOut' = FALSE => mutex' = NoOne
    BY <2>1 DEF CallsInv
  <2> QED  BY <2>3, <2>4, <2>5, <2>6, <2>7 DEF CallsInv
<1> QED
  BY <1>1, <1>2, <1>3 DEF NetNext, NetStep, Callers

LEMMA CallsShow ==
  ASSUME CallsInv
  PROVE  LinuxOkIsHonest /\ LinuxAttemptsEveryPart /\ LinuxShutdownIsLast
<1>1. LinuxOkIsHonest
  BY DEF CallsInv, LastIsInPlace, LinuxOkIsHonest, Turns, CallTypes, CallRecord
<1>2. LinuxAttemptsEveryPart
  BY DEF CallsInv, LastIsInPlace, DeviceKeepsAddress, LinuxAttemptsEveryPart
<1>3. LinuxShutdownIsLast
  <2> SUFFICES ASSUME service = "down", ~timedOut
               PROVE  /\ mutex = NoOne /\ desired = Disengage
                      /\ last.what = Unset /\ (last.ok => firewall = Disengage)
    BY DEF LinuxShutdownIsLast
  <2>1. mutex = NoOne /\ last # Idle /\ last.what = Unset /\ last.ok \in BOOLEAN
    BY DEF CallsInv, Turns, CallTypes, CallRecord, ShutdownComesLast
  <2>2. PolicyOf(last.what) = Disengage
    BY <2>1 DEF PolicyOf, Unset, Disengage
  <2> QED  BY <2>1, <2>2 DEF CallsInv, LastIsInPlace
<1> QED  BY <1>1, <1>2, <1>3

-----------------------------------------------------------------------------
(* The calls of the Windows service.  What is said of them holds as long as *)
(* the shutdown has not stopped waiting for the tunnel's call.              *)

WindowsTypes ==
  /\ device = [k \in {"mtu", "ipv4", "ipv6"} |-> device[k]]
  /\ stale = [c \in Callers |-> stale[c]]
  /\ session \in {"open", "shut"}
  /\ session = "shut" => service \in {"closed", "down"}
  /\ \A c \in Callers : call[c].step \in {"mtu", "ipv4", "ipv6", "servers", "spawn"} => Setting(c)

(* No route is there that is not remembered. *)
RoutesAreKnown ==
  /\ "halves" \notin remembered
  /\ routes \subseteq Routes(remembered)

Addr(c) == call[c].what.config.addr

(* What set_config has gone through is in place, unless a part has failed; *)
(* the resolvers to forget are known until they are.                       *)
SetIsInPlace(c) ==
  LET past(S) == call[c].step \in S /\ call[c].ok = TRUE
  IN /\ past({"ipv4", "ipv6", "servers", "metric", "routes", "rule", "flush", "spawn", "finish"}) =>
          device["mtu"] = Addr(c)
     /\ past({"ipv6", "servers", "metric", "routes", "rule", "flush", "spawn", "finish"}) =>
          device["ipv4"] = Addr(c)
     /\ past({"servers", "metric", "routes", "rule", "flush", "spawn", "finish"}) =>
          device["ipv6"] = Addr(c)
     /\ past({"metric", "routes", "rule", "flush", "spawn", "finish"}) => servers = Dns(c)
     /\ past({"routes", "rule", "flush", "spawn", "finish"}) => metrics = "low"
     /\ past({"rule", "flush", "spawn", "finish"}) => routes = Routes(Dns(c))
     /\ past({"flush", "spawn", "finish"}) => rule \in {Dns(c), {}}
     /\ call[c].step \in {"mtu", "ipv4", "ipv6", "servers", "metric", "routes", "rule", "flush"} =>
          Dns(c) \subseteq remembered /\ stale[c] = remembered \ Dns(c)
     /\ call[c].step = "finish" /\ session = "open" => reader = call[c].what.config

(* The same of shutdown *)
UnsetIsInPlace(c) ==
  LET past(S) == call[c].step \in S /\ call[c].ok = TRUE
  IN /\ past({"flush", "metric", "routes", "finish"}) => rule = {}
     /\ past({"routes", "finish"}) => metrics = "automatic"
     /\ past({"finish"}) => routes = {}

PartsInPlace(c) == IF Setting(c) THEN SetIsInPlace(c) ELSE UnsetIsInPlace(c)

LastPartsInPlace ==
  (\A c \in Callers : call[c].step \in Outside) /\ last # Idle =>
    IF last.what.to = "set"
    THEN /\ session = "open" => reader = last.what.config
         /\ last.ok = TRUE =>
              /\ device["mtu"] = last.what.config.addr /\ device["ipv4"] = last.what.config.addr
              /\ device["ipv6"] = last.what.config.addr /\ servers = last.what.config.dns
              /\ metrics = "low" /\ routes = Routes(last.what.config.dns)
              /\ rule \in {last.what.config.dns, {}}
    ELSE last.ok = TRUE => routes = {} /\ rule = {} /\ metrics = "automatic"

WindowsInv ==
  /\ Turns /\ WindowsTypes
  /\ timedOut = FALSE =>
       /\ RoutesAreKnown /\ LastPartsInPlace
       /\ \A c \in Callers : PartsInPlace(c)

LEMMA OneAtATime ==
  ASSUME Turns, timedOut = FALSE, NEW c \in Callers, NEW d \in Callers \ {c},
         call[c].step \notin Outside
  PROVE  call[d].step \in Outside
<1>1. CASE c = "tunnel"
  BY <1>1 DEF Turns, ShutdownComesLast, Callers, Outside, Reading
<1>2. CASE c = "shutdown"
  BY <1>2 DEF Turns, ShutdownComesLast, Callers, Outside, Reading
<1> QED  BY <1>1, <1>2 DEF Callers

(* The resolvers of a call are addresses. *)
LEMMA DnsAreResolvers ==
  ASSUME Turns, NEW c \in Callers, Setting(c)
  PROVE  Dns(c) \subseteq Resolver /\ "halves" \notin Dns(c)
<1>1. call[c].what \in Whats
  BY DEF Turns, CallTypes, CallRecord
<1>2. call[c].what \in {Set(g) : g \in Configs}
  BY <1>1 DEF Setting, Whats, Unsets, Unset
<1>3. PICK g \in Configs : call[c].what = Set(g)
  BY <1>2
<1>4. call[c].what.config = g
  BY <1>3 DEF Set
<1>5. g.dns \subseteq Resolver
  BY NetworkConstants DEF OsNetworkConfig
<1> QED  BY <1>4, <1>5, WindowsConstants DEF Dns

(* A part of a call: the other call, and what the last one has left, are    *)
(* not looked at before it is over.                                         *)
LEMMA PartKeeps ==
  ASSUME WindowsInv, NEW c \in Callers, NEW s \in Inside, Advances(c, s),
         call[c].step \notin Outside, UNCHANGED <<last, timedOut, revoked, service, session>>,
         s \in {"mtu", "ipv4", "ipv6", "servers", "spawn"} => Setting(c),
         device' = [k \in {"mtu", "ipv4", "ipv6"} |-> device'[k]],
         stale' = [d \in Callers |-> stale'[d]],
         timedOut = FALSE => RoutesAreKnown' /\ PartsInPlace(c)'
  PROVE  WindowsInv'
<1>1. Turns'
  BY GoesInTurn DEF WindowsInv
<1>2. /\ call'[c].step = s /\ call'[c].what = call[c].what
      /\ \A d \in Callers \ {c} : call'[d] = call[d]
  BY DEF Advances
<1>3. WindowsTypes'
  BY <1>2 DEF WindowsInv, WindowsTypes, Setting
<1>4. call'[c].step \notin Outside
  BY <1>2 DEF Inside, Outside
<1>5. ASSUME timedOut = FALSE PROVE LastPartsInPlace' /\ \A d \in Callers : PartsInPlace(d)'
  <2>1. LastPartsInPlace'
    BY <1>4 DEF LastPartsInPlace
  <2>2. ASSUME NEW d \in Callers \ {c} PROVE PartsInPlace(d)'
    <3>1. call'[d].step \in Outside
      BY <1>2, <1>5, OneAtATime DEF WindowsInv
    <3> QED  BY <3>1 DEF PartsInPlace, SetIsInPlace, UnsetIsInPlace, Outside
  <2> QED  BY <1>5, <2>1, <2>2
<1> QED  BY <1>1, <1>3, <1>5 DEF WindowsInv

LEMMA ThenAdvances ==
  ASSUME WindowsInv, NEW c \in Callers, NEW ok \in BOOLEAN, Then(c, ok), NextPart(c) \in Inside
  PROVE  /\ Advances(c, NextPart(c))
         /\ call'[c].ok = TRUE => call[c].ok = TRUE /\ ok = TRUE
         /\ UNCHANGED <<last, timedOut, revoked, service>>
<1>1. NextPart(c) \in Outside \cup Inside /\ Goes(c, NextPart(c), ok)
  BY DEF Then
<1>2. /\ Advances(c, NextPart(c))
      /\ call'[c].ok = TRUE => call[c].ok = TRUE /\ ok = TRUE
  <2> HIDE DEF NextPart
  <2> QED  BY <1>1, GoesOnly DEF WindowsInv, Turns, CallTypes
<1> QED  BY <1>2 DEF Then, callerVars

LEMMA RememberKeeps ==
  ASSUME WindowsInv, NEW c \in Callers, Remember(c)
  PROVE  WindowsInv'
<1>1. /\ call[c].step = "lock" /\ Then(c, TRUE)
      /\ remembered' = IF Setting(c) THEN remembered \cup Dns(c) ELSE remembered
      /\ stale' = [stale EXCEPT ![c] = IF Setting(c) THEN remembered \ Dns(c) ELSE {}]
      /\ UNCHANGED <<device, servers, metrics, routes, rule, reader, session>>
  BY DEF Remember, At, deviceVars
<1>2. NextPart(c) = IF Setting(c) THEN "mtu" ELSE "rule"
  BY <1>1 DEF NextPart, NextSetPart, NextUnsetPart
<1>3. NextPart(c) \in Inside
  BY <1>2 DEF Inside
<1>4. /\ Advances(c, NextPart(c)) /\ call'[c].step = NextPart(c) /\ call'[c].what = call[c].what
      /\ UNCHANGED <<last, timedOut, revoked, service>>
  <2> HIDE DEF NextPart
  <2> QED  BY <1>1, <1>3, ThenAdvances DEF Advances
<1>5. stale' = [d \in Callers |-> stale'[d]] /\ (Setting(c) => stale'[c] = remembered \ Dns(c))
  BY <1>1 DEF WindowsInv, WindowsTypes
<1>6. ASSUME timedOut = FALSE PROVE RoutesAreKnown' /\ PartsInPlace(c)'
  <2>1. RoutesAreKnown'
    BY <1>1, <1>6, DnsAreResolvers DEF WindowsInv, RoutesAreKnown, Routes
  <2>2. CASE Setting(c)
    <3>1. Dns(c)' = Dns(c) /\ Setting(c)'
      BY <1>4, <2>2 DEF Dns, Setting
    <3>2. Dns(c) \subseteq remembered' /\ stale'[c] = remembered' \ Dns(c)
      BY <1>1, <1>5, <2>2
    <3>3. call'[c].step = "mtu"
      BY <1>2, <1>4, <2>2
    <3>4. SetIsInPlace(c)'
      BY <3>1, <3>2, <3>3 DEF SetIsInPlace
    <3> QED  BY <2>1, <3>1, <3>4 DEF PartsInPlace
  <2>3. CASE ~Setting(c)
    <3>1. ~Setting(c)'
      BY <1>4, <2>3 DEF Setting
    <3>2. call'[c].step = "rule"
      BY <1>2, <1>4, <2>3
    <3> QED  BY <2>1, <3>1, <3>2 DEF PartsInPlace, UnsetIsInPlace
  <2> QED  BY <2>1, <2>2, <2>3
<1>7. device' = [k \in {"mtu", "ipv4", "ipv6"} |-> device'[k]]
  BY <1>1 DEF WindowsInv, WindowsTypes
<1>8. call[c].step \notin Outside /\ (NextPart(c) \in {"mtu", "ipv4", "ipv6", "servers", "spawn"} => Setting(c))
  BY <1>1, <1>2 DEF Outside
<1> HIDE DEF NextPart
<1> QED  BY <1>1, <1>3, <1>4, <1>5, <1>6, <1>7, <1>8, PartKeeps

(* A part that only sets what it is for *)
LEMMA SetterKeeps ==
  ASSUME WindowsInv, NEW c \in Callers, NEW ok \in BOOLEAN, Then(c, ok),
         call[c].step \notin Outside, NEW s \in Inside, NextPart(c) = s,
         s \in {"mtu", "ipv4", "ipv6", "servers", "spawn"} => Setting(c),
         UNCHANGED <<routes, remembered, stale, session>>,
         device' = [k \in {"mtu", "ipv4", "ipv6"} |-> device'[k]],
         ASSUME timedOut = FALSE, call'[c].step = s, call'[c].what = call[c].what, PartsInPlace(c),
                call'[c].ok = TRUE => call[c].ok = TRUE /\ ok = TRUE
         PROVE  PartsInPlace(c)'
  PROVE  WindowsInv'
<1>1. /\ Advances(c, s)
      /\ call'[c].ok = TRUE => call[c].ok = TRUE /\ ok = TRUE
      /\ UNCHANGED <<last, timedOut, revoked, service>>
  BY ThenAdvances
<1>2. call'[c].step = s /\ call'[c].what = call[c].what
  BY <1>1 DEF Advances
<1>3. stale' = [d \in Callers |-> stale'[d]]
  BY DEF WindowsInv, WindowsTypes
<1>4. ASSUME timedOut = FALSE PROVE RoutesAreKnown' /\ PartsInPlace(c)'
  <2>1. RoutesAreKnown'
    BY <1>4 DEF WindowsInv, RoutesAreKnown, Routes
  <2>2. PartsInPlace(c)
    BY <1>4 DEF WindowsInv
  <2> QED  BY <1>1, <1>2, <1>4, <2>1, <2>2
<1> QED  BY <1>1, <1>3, <1>4, PartKeeps

LEMMA SetDeviceKeeps ==
  ASSUME WindowsInv, NEW c \in Callers, SetDevice(c)
  PROVE  WindowsInv'
<1>1. PICK ok \in BOOLEAN :
        /\ Then(c, ok)
        /\ device' = IF ok THEN [device EXCEPT ![call[c].step] = call[c].what.config.addr] ELSE device
  BY DEF SetDevice
<1>2. /\ device = [k \in {"mtu", "ipv4", "ipv6"} |-> device[k]]
      /\ call[c].step \in {"mtu", "ipv4", "ipv6"} /\ Setting(c)
      /\ UNCHANGED <<servers, metrics, routes, rule, remembered, stale, reader, session>>
  BY DEF SetDevice, tunVars, WindowsInv, WindowsTypes
<1>3. /\ device' = [k \in {"mtu", "ipv4", "ipv6"} |-> device'[k]]
      /\ \A k \in {"mtu", "ipv4", "ipv6"} \ {call[c].step} : device'[k] = device[k]
      /\ ok = TRUE => device'[call[c].step] = Addr(c)
  BY <1>1, <1>2 DEF Addr
<1>4. NextPart(c) = IF call[c].step = "mtu" THEN "ipv4" ELSE IF call[c].step = "ipv4" THEN "ipv6" ELSE "servers"
  BY <1>2 DEF NextPart, NextSetPart
<1> DEFINE s == NextPart(c)
<1>5. s \in Inside /\ call[c].step \notin Outside
  BY <1>2, <1>4 DEF Inside, Outside
<1>6. ASSUME call'[c].step = s, call'[c].what = call[c].what, PartsInPlace(c),
             call'[c].ok = TRUE => call[c].ok = TRUE /\ ok = TRUE
      PROVE  PartsInPlace(c)'
  <2>1. Addr(c)' = Addr(c) /\ Dns(c)' = Dns(c) /\ Setting(c)'
    BY <1>2, <1>6 DEF Addr, Dns, Setting
  <2>2. SetIsInPlace(c)
    BY <1>2, <1>6 DEF PartsInPlace
  <2>3. SetIsInPlace(c)'
    BY <1>2, <1>3, <1>4, <1>6, <2>1, <2>2 DEF SetIsInPlace
  <2> QED  BY <2>1, <2>3 DEF PartsInPlace
<1> HIDE DEF s
<1> QED  BY <1>1, <1>2, <1>3, <1>5, <1>6, SetterKeeps DEF s

LEMMA SetDnsServersKeeps ==
  ASSUME WindowsInv, NEW c \in Callers, SetDnsServers(c)
  PROVE  WindowsInv'
<1>1. PICK ok \in BOOLEAN :
        Then(c, ok) /\ servers' \in IF ok THEN {Dns(c)} ELSE {servers, PARTIAL}
  BY DEF SetDnsServers
<1>2. /\ device' = [k \in {"mtu", "ipv4", "ipv6"} |-> device'[k]]
      /\ call[c].step = "servers" /\ Setting(c)
      /\ UNCHANGED <<device, metrics, routes, rule, remembered, stale, reader, session>>
  BY DEF SetDnsServers, At, tunVars, WindowsInv, WindowsTypes
<1>3. NextPart(c) = "metric"
  BY <1>2 DEF NextPart, NextSetPart
<1>4. "metric" \in Inside /\ call[c].step \notin Outside
  BY <1>2 DEF Inside, Outside
<1>5. ASSUME call'[c].step = "metric", call'[c].what = call[c].what, PartsInPlace(c),
             call'[c].ok = TRUE => call[c].ok = TRUE /\ ok = TRUE
      PROVE  PartsInPlace(c)'
  <2>1. Addr(c)' = Addr(c) /\ Dns(c)' = Dns(c) /\ Setting(c)'
    BY <1>2, <1>5 DEF Addr, Dns, Setting
  <2>2. SetIsInPlace(c)
    BY <1>2, <1>5 DEF PartsInPlace
  <2>3. ok = TRUE => servers' = Dns(c)
    BY <1>1
  <2>4. SetIsInPlace(c)'
    BY <1>2, <1>5, <2>1, <2>2, <2>3 DEF SetIsInPlace
  <2> QED  BY <2>1, <2>4 DEF PartsInPlace
<1> QED  BY <1>1, <1>2, <1>3, <1>4, <1>5, SetterKeeps

LEMMA SetMetricKeeps ==
  ASSUME WindowsInv, NEW c \in Callers, SetMetric(c)
  PROVE  WindowsInv'
<1>1. PICK ok \in BOOLEAN :
        /\ Then(c, ok)
        /\ metrics' \in IF ~ok THEN {metrics, "mixed"} ELSE IF Setting(c) THEN {"low"} ELSE {"automatic"}
  BY DEF SetMetric
<1>2. /\ device' = [k \in {"mtu", "ipv4", "ipv6"} |-> device'[k]]
      /\ call[c].step = "metric"
      /\ UNCHANGED <<device, servers, routes, rule, remembered, stale, reader, session>>
  BY DEF SetMetric, At, tunVars, WindowsInv, WindowsTypes
<1>3. NextPart(c) = "routes"
  BY <1>2 DEF NextPart, NextSetPart, NextUnsetPart
<1>4. "routes" \in Inside /\ call[c].step \notin Outside
  BY <1>2 DEF Inside, Outside
<1>5. ASSUME call'[c].step = "routes", call'[c].what = call[c].what, PartsInPlace(c),
             call'[c].ok = TRUE => call[c].ok = TRUE /\ ok = TRUE
      PROVE  PartsInPlace(c)'
  <2>1. Addr(c)' = Addr(c) /\ Dns(c)' = Dns(c) /\ (Setting(c)' <=> Setting(c))
    BY <1>2, <1>5 DEF Addr, Dns, Setting
  <2>2. CASE Setting(c)
    <3>1. SetIsInPlace(c)
      BY <1>5, <2>2 DEF PartsInPlace
    <3>2. ok = TRUE => metrics' = "low"
      BY <1>1, <2>2
    <3>3. SetIsInPlace(c)'
      BY <1>2, <1>5, <2>1, <3>1, <3>2 DEF SetIsInPlace
    <3> QED  BY <2>1, <2>2, <3>3 DEF PartsInPlace
  <2>3. CASE ~Setting(c)
    <3>1. UnsetIsInPlace(c)
      BY <1>5, <2>3 DEF PartsInPlace
    <3>2. ok = TRUE => metrics' = "automatic"
      BY <1>1, <2>3
    <3>3. UnsetIsInPlace(c)'
      BY <1>2, <1>5, <3>1, <3>2 DEF UnsetIsInPlace
    <3> QED  BY <2>1, <2>3, <3>3 DEF PartsInPlace
  <2> QED  BY <2>2, <2>3
<1> QED  BY <1>1, <1>2, <1>3, <1>4, <1>5, SetterKeeps

LEMMA SetRoutesKeeps ==
  ASSUME WindowsInv, NEW c \in Callers, SetRoutes(c)
  PROVE  WindowsInv'
<1>1. PICK added \in SUBSET Routes(Dns(c)), removed \in SUBSET stale[c] :
        /\ Then(c, added = Routes(Dns(c)) /\ removed = stale[c])
        /\ routes' = (routes \cup added) \ removed
  BY DEF SetRoutes
<1>2. PICK ok \in BOOLEAN :
        Then(c, ok) /\ (ok = TRUE => added = Routes(Dns(c)) /\ removed = stale[c])
  BY <1>1
<1>3. /\ call[c].step = "routes" /\ Setting(c)
      /\ UNCHANGED <<device, servers, metrics, rule, remembered, stale, reader, session>>
  BY DEF SetRoutes, At, tunVars
<1>4. NextPart(c) = "rule"
  BY <1>3 DEF NextPart, NextSetPart
<1>5. NextPart(c) \in Inside /\ "rule" \in Inside /\ call[c].step \notin Outside
  BY <1>3, <1>4 DEF Inside, Outside
<1>6. /\ Advances(c, "rule") /\ call'[c].step = "rule" /\ call'[c].what = call[c].what
      /\ call'[c].ok = TRUE => call[c].ok = TRUE /\ ok = TRUE
      /\ UNCHANGED <<last, timedOut, revoked, service>>
  <2>1. Advances(c, "rule") /\ (call'[c].ok = TRUE => call[c].ok = TRUE /\ ok = TRUE)
        /\ UNCHANGED <<last, timedOut, revoked, service>>
    BY <1>2, <1>4, <1>5, ThenAdvances
  <2> QED  BY <2>1 DEF Advances
<1>7. ASSUME timedOut = FALSE PROVE RoutesAreKnown' /\ PartsInPlace(c)'
  <2>1. SetIsInPlace(c) /\ RoutesAreKnown
    BY <1>3, <1>7 DEF WindowsInv, PartsInPlace
  <2>2. Dns(c) \subseteq remembered /\ stale[c] = remembered \ Dns(c)
    BY <1>3, <2>1 DEF SetIsInPlace
  <2>3. RoutesAreKnown'
    BY <1>1, <1>3, <2>1, <2>2 DEF RoutesAreKnown, Routes
  <2>4. ok = TRUE => routes' = Routes(Dns(c))
    BY <1>1, <1>2, <2>1, <2>2 DEF RoutesAreKnown, Routes
  <2>5. Addr(c)' = Addr(c) /\ Dns(c)' = Dns(c) /\ Setting(c)'
    BY <1>3, <1>6 DEF Addr, Dns, Setting
  <2>6. Routes(Dns(c)') = Routes(Dns(c))
    BY <2>5
  <2>7. SetIsInPlace(c)'
    BY <1>3, <1>6, <2>1, <2>2, <2>4, <2>5, <2>6 DEF SetIsInPlace, Routes
  <2> QED  BY <2>3, <2>5, <2>7 DEF PartsInPlace
<1>8. device' = [k \in {"mtu", "ipv4", "ipv6"} |-> device'[k]] /\ stale' = [d \in Callers |-> stale'[d]]
  BY <1>3 DEF WindowsInv, WindowsTypes
<1> QED  BY <1>3, <1>5, <1>6, <1>7, <1>8, PartKeeps

LEMMA RemoveRoutesKeeps ==
  ASSUME WindowsInv, NEW c \in Callers, RemoveRoutes(c)
  PROVE  WindowsInv'
<1>1. PICK removed \in SUBSET Routes(remembered) :
        LET ok == removed = Routes(remembered)
        IN /\ Then(c, ok)
           /\ routes' = routes \ removed
           /\ remembered' = IF ok /\ call[c].ok THEN {} ELSE remembered
  BY DEF RemoveRoutes
<1>2. PICK ok \in BOOLEAN :
        /\ Then(c, ok) /\ (ok = TRUE => removed = Routes(remembered))
        /\ remembered' = remembered \/ (ok = TRUE /\ remembered' = {})
  BY <1>1
<1>3. /\ call[c].step = "routes" /\ ~Setting(c)
      /\ UNCHANGED <<device, servers, metrics, rule, stale, reader, session>>
  BY DEF RemoveRoutes, At, tunVars
<1>4. NextPart(c) = "finish"
  BY <1>3 DEF NextPart, NextUnsetPart
<1>5. NextPart(c) \in Inside /\ "finish" \in Inside /\ call[c].step \notin Outside
  BY <1>3, <1>4 DEF Inside, Outside
<1>6. /\ Advances(c, "finish") /\ call'[c].step = "finish" /\ call'[c].what = call[c].what
      /\ call'[c].ok = TRUE => call[c].ok = TRUE /\ ok = TRUE
      /\ UNCHANGED <<last, timedOut, revoked, service>>
  <2>1. Advances(c, "finish") /\ (call'[c].ok = TRUE => call[c].ok = TRUE /\ ok = TRUE)
        /\ UNCHANGED <<last, timedOut, revoked, service>>
    BY <1>2, <1>4, <1>5, ThenAdvances
  <2> QED  BY <2>1 DEF Advances
<1>7. ASSUME timedOut = FALSE PROVE RoutesAreKnown' /\ PartsInPlace(c)'
  <2>1. UnsetIsInPlace(c) /\ RoutesAreKnown
    BY <1>3, <1>7 DEF WindowsInv, PartsInPlace
  <2>2. routes' = routes \ removed /\ (ok = TRUE => routes' = {})
    BY <1>1, <1>2, <2>1 DEF RoutesAreKnown
  <2>3. RoutesAreKnown'
    BY <1>2, <2>1, <2>2 DEF RoutesAreKnown, Routes
  <2>4. ~Setting(c)'
    BY <1>3, <1>6 DEF Setting
  <2>5. UnsetIsInPlace(c)'
    BY <1>3, <1>6, <2>1, <2>2 DEF UnsetIsInPlace
  <2> QED  BY <2>3, <2>4, <2>5 DEF PartsInPlace
<1>8. device' = [k \in {"mtu", "ipv4", "ipv6"} |-> device'[k]] /\ stale' = [d \in Callers |-> stale'[d]]
  BY <1>3 DEF WindowsInv, WindowsTypes
<1> QED  BY <1>3, <1>5, <1>6, <1>7, <1>8, PartKeeps

LEMMA RuleKeeps ==
  ASSUME WindowsInv, NEW c \in Callers, CreateRule(c) \/ DeleteRule(c)
  PROVE  WindowsInv'
<1>1. PICK ok \in BOOLEAN :
        Then(c, ok) /\ (ok = TRUE => rule' \in IF Setting(c) THEN {Dns(c), {}} ELSE {{}})
  BY DEF CreateRule, DeleteRule
<1>2. /\ device' = [k \in {"mtu", "ipv4", "ipv6"} |-> device'[k]]
      /\ call[c].step = "rule"
      /\ UNCHANGED <<device, servers, metrics, routes, remembered, stale, reader, session>>
  BY DEF CreateRule, DeleteRule, At, tunVars, WindowsInv, WindowsTypes
<1>3. NextPart(c) = "flush"
  BY <1>2 DEF NextPart, NextSetPart, NextUnsetPart
<1>4. "flush" \in Inside /\ call[c].step \notin Outside
  BY <1>2 DEF Inside, Outside
<1>5. ASSUME call'[c].step = "flush", call'[c].what = call[c].what, PartsInPlace(c),
             call'[c].ok = TRUE => call[c].ok = TRUE /\ ok = TRUE
      PROVE  PartsInPlace(c)'
  <2>1. Addr(c)' = Addr(c) /\ Dns(c)' = Dns(c) /\ (Setting(c)' <=> Setting(c))
    BY <1>2, <1>5 DEF Addr, Dns, Setting
  <2>2. CASE Setting(c)
    <3>1. SetIsInPlace(c)
      BY <1>5, <2>2 DEF PartsInPlace
    <3>2. SetIsInPlace(c)'
      BY <1>1, <1>2, <1>5, <2>1, <2>2, <3>1 DEF SetIsInPlace, Routes
    <3> QED  BY <2>1, <2>2, <3>2 DEF PartsInPlace
  <2>3. CASE ~Setting(c)
    <3>1. UnsetIsInPlace(c)
      BY <1>5, <2>3 DEF PartsInPlace
    <3>2. UnsetIsInPlace(c)'
      BY <1>1, <1>2, <1>5, <2>3, <3>1 DEF UnsetIsInPlace
    <3> QED  BY <2>1, <2>3, <3>2 DEF PartsInPlace
  <2> QED  BY <2>2, <2>3
<1> QED  BY <1>1, <1>2, <1>3, <1>4, <1>5, SetterKeeps

LEMMA FlushKeeps ==
  ASSUME WindowsInv, NEW c \in Callers, FlushDnsCache(c)
  PROVE  WindowsInv'
<1>1. PICK ok \in BOOLEAN :
        /\ Then(c, ok)
        /\ remembered' = IF Setting(c) /\ ok /\ call[c].ok THEN remembered \ stale[c] ELSE remembered
  BY DEF FlushDnsCache
<1>2. remembered' # remembered =>
        Setting(c) /\ ok = TRUE /\ call[c].ok = TRUE /\ remembered' = remembered \ stale[c]
  BY <1>1 DEF WindowsInv, Turns, CallTypes, CallRecord
<1>3. /\ call[c].step = "flush"
      /\ UNCHANGED <<device, servers, metrics, routes, rule, stale, reader, session>>
  BY DEF FlushDnsCache, At, deviceVars
<1>4. NextPart(c) = IF Setting(c) THEN "spawn" ELSE "metric"
  BY <1>3 DEF NextPart, NextSetPart, NextUnsetPart
<1> DEFINE s == IF Setting(c) THEN "spawn" ELSE "metric"
<1>5. NextPart(c) \in Inside /\ s \in Inside /\ call[c].step \notin Outside
      /\ (s \in {"mtu", "ipv4", "ipv6", "servers", "spawn"} => Setting(c))
      /\ NextPart(c) = s
  BY <1>3, <1>4 DEF Inside, Outside
<1>6. /\ Advances(c, s) /\ call'[c].step = s /\ call'[c].what = call[c].what
      /\ call'[c].ok = TRUE => call[c].ok = TRUE /\ ok = TRUE
      /\ UNCHANGED <<last, timedOut, revoked, service>>
  <2> HIDE DEF s
  <2>1. Advances(c, s) /\ (call'[c].ok = TRUE => call[c].ok = TRUE /\ ok = TRUE)
        /\ UNCHANGED <<last, timedOut, revoked, service>>
    BY <1>1, <1>5, ThenAdvances
  <2> QED  BY <2>1 DEF Advances
<1>7. ASSUME timedOut = FALSE PROVE RoutesAreKnown' /\ PartsInPlace(c)'
  <2>1. Addr(c)' = Addr(c) /\ Dns(c)' = Dns(c) /\ (Setting(c)' <=> Setting(c))
    BY <1>3, <1>6 DEF Addr, Dns, Setting
  <2>2. PartsInPlace(c) /\ RoutesAreKnown
    BY <1>7 DEF WindowsInv
  <2>3. CASE Setting(c)
    <3>1. SetIsInPlace(c)
      BY <2>2, <2>3 DEF PartsInPlace
    <3>2. Dns(c) \subseteq remembered /\ stale[c] = remembered \ Dns(c)
      BY <1>3, <3>1 DEF SetIsInPlace
    <3>3. call[c].ok = TRUE => routes = Routes(Dns(c))
      BY <1>3, <3>1 DEF SetIsInPlace
    <3>4. RoutesAreKnown'
      BY <1>2, <1>3, <2>2, <3>2, <3>3 DEF RoutesAreKnown, Routes
    <3>5. call'[c].step = "spawn"
      BY <1>6, <2>3
    <3>6. SetIsInPlace(c)'
      BY <1>3, <1>6, <2>1, <3>1, <3>5 DEF SetIsInPlace, Routes
    <3> QED  BY <2>1, <2>3, <3>4, <3>6 DEF PartsInPlace
  <2>4. CASE ~Setting(c)
    <3>1. UnsetIsInPlace(c)
      BY <2>2, <2>4 DEF PartsInPlace
    <3>2. RoutesAreKnown'
      BY <1>2, <1>3, <2>2, <2>4 DEF RoutesAreKnown, Routes
    <3>3. call'[c].step = "metric"
      BY <1>6, <2>4
    <3>4. UnsetIsInPlace(c)'
      BY <1>3, <1>6, <3>1, <3>3 DEF UnsetIsInPlace
    <3> QED  BY <2>1, <2>4, <3>2, <3>4 DEF PartsInPlace
  <2> QED  BY <2>3, <2>4
<1>8. device' = [k \in {"mtu", "ipv4", "ipv6"} |-> device'[k]] /\ stale' = [d \in Callers |-> stale'[d]]
  BY <1>3 DEF WindowsInv, WindowsTypes
<1> HIDE DEF s
<1> QED  BY <1>3, <1>5, <1>6, <1>7, <1>8, PartKeeps

LEMMA SpawnKeeps ==
  ASSUME WindowsInv, NEW c \in Callers, SpawnReadTask(c)
  PROVE  WindowsInv'
<1>1. Then(c, TRUE) /\ reader' = call[c].what.config
  BY DEF SpawnReadTask
<1>2. /\ device' = [k \in {"mtu", "ipv4", "ipv6"} |-> device'[k]]
      /\ call[c].step = "spawn" /\ Setting(c)
      /\ UNCHANGED <<device, servers, metrics, routes, rule, remembered, stale, session>>
  BY DEF SpawnReadTask, At, deviceVars, WindowsInv, WindowsTypes
<1>3. NextPart(c) = "finish"
  BY <1>2 DEF NextPart, NextSetPart
<1>4. "finish" \in Inside /\ call[c].step \notin Outside /\ TRUE \in BOOLEAN
  BY <1>2 DEF Inside, Outside
<1>5. ASSUME call'[c].step = "finish", call'[c].what = call[c].what, PartsInPlace(c),
             call'[c].ok = TRUE => call[c].ok = TRUE
      PROVE  PartsInPlace(c)'
  <2>1. Addr(c)' = Addr(c) /\ Dns(c)' = Dns(c) /\ Setting(c)'
    BY <1>2, <1>5 DEF Addr, Dns, Setting
  <2>2. SetIsInPlace(c)
    BY <1>2, <1>5 DEF PartsInPlace
  <2>3. SetIsInPlace(c)'
    BY <1>1, <1>2, <1>5, <2>1, <2>2 DEF SetIsInPlace, Routes
  <2> QED  BY <2>1, <2>3 DEF PartsInPlace
<1> QED  BY <1>1, <1>2, <1>3, <1>4, <1>5, SetterKeeps

(* A call is over, and becomes the last one. *)
LEMMA FinishKeeps ==
  ASSUME WindowsInv, NEW c \in Callers, FinishCall(c), UNCHANGED windowsVars
  PROVE  WindowsInv'
<1>1. /\ Turns' /\ call[c].step = "finish" /\ last' = call[c]
      /\ call'[c] = Idle /\ call'[c].step = "idle"
      /\ \A d \in Callers \ {c} : call'[d] = call[d]
  BY FinishInTurn, IdleIsCall DEF WindowsInv
<1>2. /\ UNCHANGED <<device, servers, metrics, routes, rule, remembered, stale, reader, session, timedOut>>
      /\ service' = IF c = "shutdown" THEN "unset" ELSE service
  BY DEF FinishCall, windowsVars, deviceVars, tunVars
<1>3. session = "shut" => service' \in {"closed", "down"}
  <2>1. c = "shutdown" => service = "unsetting"
    BY <1>1 DEF WindowsInv, Turns, ShutdownComesLast
  <2> QED  BY <1>2, <2>1 DEF WindowsInv, WindowsTypes
<1>4. WindowsTypes'
  BY <1>1, <1>2, <1>3 DEF WindowsInv, WindowsTypes, Setting
<1>5. ASSUME timedOut = FALSE
      PROVE  RoutesAreKnown' /\ LastPartsInPlace' /\ \A d \in Callers : PartsInPlace(d)'
  <2>1. RoutesAreKnown'
    BY <1>2, <1>5 DEF WindowsInv, RoutesAreKnown, Routes
  <2>2. ASSUME NEW d \in Callers PROVE PartsInPlace(d)'
    <3>1. call'[d].step \in Outside
      <4>1. CASE d = c
        BY <1>1, <4>1 DEF Outside
      <4>2. CASE d # c
        <5>1. call[c].step \notin Outside
          BY <1>1 DEF Outside
        <5> QED  BY <1>1, <1>5, <4>2, <5>1, OneAtATime DEF WindowsInv
      <4> QED  BY <4>1, <4>2
    <3> QED  BY <3>1 DEF PartsInPlace, SetIsInPlace, UnsetIsInPlace, Outside
  <2>3. PartsInPlace(c)
    BY <1>5 DEF WindowsInv
  <2>4. CASE Setting(c)
    <3>1. SetIsInPlace(c) /\ last'.what.to = "set"
      BY <1>1, <2>3, <2>4 DEF PartsInPlace, Setting
    <3>2. LastPartsInPlace'
      BY <1>1, <1>2, <3>1 DEF LastPartsInPlace, SetIsInPlace, Dns, Addr, Routes
    <3> QED  BY <2>1, <2>2, <3>2
  <2>5. CASE ~Setting(c)
    <3>1. UnsetIsInPlace(c) /\ last'.what.to # "set"
      BY <1>1, <2>3, <2>5 DEF PartsInPlace, Setting
    <3>2. LastPartsInPlace'
      BY <1>1, <1>2, <3>1 DEF LastPartsInPlace, UnsetIsInPlace
    <3> QED  BY <2>1, <2>2, <3>2
  <2> QED  BY <2>4, <2>5
<1> QED  BY <1>1, <1>2, <1>4, <1>5 DEF WindowsInv

(* Steps outside the calls: what is in place stays so. *)
LEMMA OutsideKeeps ==
  ASSUME WindowsInv, Turns', last' = last,
         \A c \in Callers : call'[c] # call[c] =>
           call[c].step \in {"idle", "enter"} /\ call'[c].step \in {"enter", "forever", "lock"},
         UNCHANGED <<device, servers, metrics, routes, rule, remembered, stale>>,
         session' \in {"open", "shut"}, session' = "open" => session = "open" /\ reader' = reader,
         session' = "shut" => service' \in {"closed", "down"},
         timedOut' = FALSE => timedOut = FALSE
  PROVE  WindowsInv'
<1>1. WindowsTypes'
  <2>1. ASSUME NEW c \in Callers, call'[c].step \in {"mtu", "ipv4", "ipv6", "servers", "spawn"}
        PROVE  Setting(c)'
    <3>1. call'[c] = call[c]
      BY <2>1
    <3> QED  BY <2>1, <3>1 DEF WindowsInv, WindowsTypes, Setting
  <2> QED  BY <2>1 DEF WindowsInv, WindowsTypes
<1>2. ASSUME timedOut' = FALSE
      PROVE  RoutesAreKnown' /\ LastPartsInPlace' /\ \A c \in Callers : PartsInPlace(c)'
  <2>1. RoutesAreKnown'
    BY <1>2 DEF WindowsInv, RoutesAreKnown, Routes
  <2>2. ASSUME NEW c \in Callers PROVE PartsInPlace(c)'
    <3>1. CASE call'[c] = call[c]
      <4>1. PartsInPlace(c) /\ Addr(c)' = Addr(c) /\ Dns(c)' = Dns(c) /\ (Setting(c)' <=> Setting(c))
        BY <1>2, <3>1 DEF WindowsInv, Addr, Dns, Setting
      <4>2. CASE Setting(c)
        BY <3>1, <4>1, <4>2 DEF PartsInPlace, SetIsInPlace, Routes
      <4>3. CASE ~Setting(c)
        BY <3>1, <4>1, <4>3 DEF PartsInPlace, UnsetIsInPlace
      <4> QED  BY <4>2, <4>3
    <3>2. CASE call'[c] # call[c]
      BY <3>2 DEF PartsInPlace, SetIsInPlace, UnsetIsInPlace
    <3> QED  BY <3>1, <3>2
  <2>3. LastPartsInPlace'
    <3>1. (\A c \in Callers : call'[c].step \in Outside) => \A c \in Callers : call[c].step \in Outside
      BY DEF Outside
    <3> QED  BY <1>2, <3>1 DEF WindowsInv, LastPartsInPlace, Routes
  <2> QED  BY <2>1, <2>2, <2>3
<1> QED  BY <1>1, <1>2 DEF WindowsInv

LEMMA WindowsStarts == NetInit /\ WindowsInit => WindowsInv
<1> SUFFICES ASSUME NetInit, WindowsInit PROVE WindowsInv
  OBVIOUS
<1>1. \A c \in Callers : call[c].step = "idle"
  BY IdleIsCall DEF NetInit, Callers
<1>2. device = [k \in {"mtu", "ipv4", "ipv6"} |-> Dummy] /\ stale = [c \in Callers |-> {}]
  BY DEF WindowsInit, Callers
<1>3. WindowsTypes
  <2>1. session = "open"
    BY DEF WindowsInit
  <2> QED  BY <1>1, <1>2, <2>1 DEF WindowsTypes
<1>4. RoutesAreKnown /\ LastPartsInPlace
  BY TurnsStart DEF WindowsInit, RoutesAreKnown, LastPartsInPlace
<1>5. \A c \in Callers : PartsInPlace(c)
  BY <1>1 DEF PartsInPlace, SetIsInPlace, UnsetIsInPlace
<1> QED  BY <1>3, <1>4, <1>5, TurnsStart DEF WindowsInv

LEMMA WindowsStepKeeps ==
  WindowsInv /\ [WindowsNext]_<<netVars, windowsVars, desired, changed>> => WindowsInv'
<1> SUFFICES ASSUME WindowsInv, [WindowsNext]_<<netVars, windowsVars, desired, changed>>
             PROVE  WindowsInv'
  OBVIOUS
<1>1. CASE \E c \in Callers : WindowsCall(c)
  BY <1>1, RememberKeeps, SetDeviceKeeps, SetDnsServersKeeps, SetMetricKeeps, SetRoutesKeeps,
     RemoveRoutesKeeps, RuleKeeps, FlushKeeps, SpawnKeeps, FinishKeeps DEF WindowsCall
<1>2. CASE (TunnelCalls \/ EnterCall \/ Revoke \/ TimeOutRevoke \/ RequestShutdown) /\ UNCHANGED windowsVars
  <2>1. /\ Turns' /\ last' = last
        /\ \A c \in Callers : call'[c] # call[c] =>
             call[c].step \in {"idle", "enter"} /\ call'[c].step \in {"enter", "forever", "lock"}
    BY <1>2, OthersInTurn DEF WindowsInv
  <2>2. UNCHANGED <<device, servers, metrics, routes, rule, remembered, stale, reader, session>>
    BY <1>2 DEF windowsVars, deviceVars, tunVars
  <2>3. /\ timedOut' = FALSE => timedOut = FALSE
        /\ service' # service => service \in {"up", "stopping"}
    BY <1>2 DEF TunnelCalls, EnterCall, RequestShutdown, Revoke, TimeOutRevoke, callerVars
  <2>4. session' = "shut" => service' \in {"closed", "down"}
    BY <2>2, <2>3 DEF WindowsInv, WindowsTypes
  <2>5. session' \in {"open", "shut"}
    BY <2>2 DEF WindowsInv, WindowsTypes
  <2> QED  BY <2>1, <2>2, <2>3, <2>4, <2>5, OutsideKeeps
<1>3. CASE ReaderEnds \/ ShutDownSession \/ ReportStopped \/ UNCHANGED <<netVars, windowsVars, desired, changed>>
  <2>1. /\ UNCHANGED <<call, last, timedOut, revoked, device, servers, metrics, routes, rule, remembered, stale>>
        /\ session' \in {"open", "shut"}
        /\ session' = "open" => session = "open" /\ reader' = reader
        /\ session' = "shut" => service' \in {"closed", "down"}
        /\ service' # service => service \in {"unset", "closed"} /\ service' \in {"closed", "down"}
    <3>1. CASE ReaderEnds
      BY <3>1 DEF ReaderEnds, netVars, deviceVars, WindowsInv, WindowsTypes
    <3>2. CASE ShutDownSession
      BY <3>2 DEF ShutDownSession, deviceVars, WindowsInv, WindowsTypes
    <3>3. CASE ReportStopped
      BY <3>3 DEF ReportStopped, windowsVars, tunVars, deviceVars, WindowsInv, WindowsTypes
    <3>4. CASE UNCHANGED <<netVars, windowsVars, desired, changed>>
      BY <3>4 DEF netVars, windowsVars, tunVars, deviceVars, WindowsInv, WindowsTypes
    <3> QED  BY <1>3, <3>1, <3>2, <3>3, <3>4
  <2>2. Reading' = Reading
    BY <2>1 DEF Reading
  <2>3. Turns'
    BY <2>1, <2>2 DEF WindowsInv, Turns, CallTypes, ShutdownComesLast
  <2> QED  BY <2>1, <2>3, OutsideKeeps
<1> QED
  BY <1>1, <1>2, <1>3 DEF WindowsNext, StopControl, Callers

LEMMA WindowsShows ==
  ASSUME WindowsInv
  PROVE  WindowsOkIsHonest /\ WindowsAttemptsEveryPart /\ WindowsShutdownIsLast
<1>1. DOMAIN call = Callers /\ last.ok \in BOOLEAN
  BY DEF WindowsInv, Turns, CallTypes, CallRecord
<1>2. ASSUME Quiet PROVE LastPartsInPlace /\ RoutesAreKnown /\ last # Idle /\ \A c \in Callers : call[c].step \in Outside
  BY <1>1, <1>2 DEF Quiet, WindowsInv, Turns, CallTypes, Outside
<1>3. WindowsOkIsHonest
  <2> SUFFICES ASSUME Quiet, last.ok PROVE WindowsOkIsHonest
    BY DEF WindowsOkIsHonest
  <2>1. CASE last.what.to = "set"
    <3>1. /\ device["mtu"] = last.what.config.addr /\ device["ipv4"] = last.what.config.addr
          /\ device["ipv6"] = last.what.config.addr /\ servers = last.what.config.dns
          /\ metrics = "low" /\ routes = Routes(last.what.config.dns)
          /\ rule \in {last.what.config.dns, {}}
      BY <1>1, <1>2, <2>1 DEF LastPartsInPlace
    <3>2. device = [k \in DOMAIN device |-> last.what.config.addr]
      <4>1. device = [k \in {"mtu", "ipv4", "ipv6"} |-> device[k]]
        BY DEF WindowsInv, WindowsTypes
      <4> QED  BY <3>1, <4>1
    <3> QED  BY <2>1, <3>1, <3>2 DEF WindowsOkIsHonest
  <2>2. CASE last.what.to # "set"
    BY <1>1, <1>2, <2>2 DEF LastPartsInPlace, WindowsOkIsHonest
  <2> QED  BY <2>1, <2>2
<1>4. WindowsAttemptsEveryPart
  BY <1>2 DEF LastPartsInPlace, RoutesAreKnown, WindowsAttemptsEveryPart
<1>5. WindowsShutdownIsLast
  <2> SUFFICES ASSUME service = "down", ~timedOut
               PROVE  last.what = Unset /\ (last.ok => routes = {} /\ rule = {})
    BY DEF WindowsShutdownIsLast
  <2>1. last # Idle /\ last.what = Unset /\ timedOut = FALSE /\ ~Reading
    BY DEF WindowsInv, Turns, CallTypes, ShutdownComesLast
  <2>2. \A c \in Callers : call[c].step \in Outside
    BY <2>1 DEF WindowsInv, Turns, ShutdownComesLast, Callers, Outside, Reading
  <2>3. Unset.to # "set"
    BY DEF Unset
  <2> QED  BY <1>1, <2>1, <2>2, <2>3 DEF WindowsInv, LastPartsInPlace
<1> QED  BY <1>3, <1>4, <1>5

-----------------------------------------------------------------------------
(* The calls of the system that was chosen; in the other parts none is made *)
NetworkInv ==
  /\ part = "calls" => CallsInv
  /\ part = "windows" => WindowsInv
  /\ part \notin {"calls", "windows"} => last = Idle /\ addrs = {Dummy} /\ service = "up"

LEMMA NetworkInvariant == Spec => []NetworkInv
<1>1. Init => NetworkInv
  BY CallsStart, WindowsStarts DEF Init, NetworkInv, NetInit
<1>2. NetworkInv /\ [Next]_allVars => NetworkInv'
  <2> SUFFICES ASSUME NetworkInv, [Next]_allVars PROVE NetworkInv'
    OBVIOUS
  <2>1. part' = part
    BY StepOfAPart
  <2>2. CASE part = "calls"
    BY <2>1, <2>2, StepOfAPart, CallsStepKeeps DEF NetworkInv
  <2>3. CASE part = "windows"
    BY <2>1, <2>3, StepOfAPart, WindowsStepKeeps DEF NetworkInv
  <2>4. CASE part \notin {"calls", "windows"}
    BY <2>1, <2>4, StepOfAPart DEF NetworkInv, netVars
  <2> QED  BY <2>2, <2>3, <2>4
<1> QED  BY <1>1, <1>2, PTL DEF Spec

LEMMA NetworkShows == NetworkInv => OkIsHonest /\ AttemptsEveryPart /\ ShutdownIsLast
<1> SUFFICES ASSUME NetworkInv PROVE OkIsHonest /\ AttemptsEveryPart /\ ShutdownIsLast
  OBVIOUS
<1>1. CASE part = "calls"
  BY <1>1, CallsShow DEF NetworkInv, OkIsHonest, AttemptsEveryPart, ShutdownIsLast
<1>2. CASE part = "windows"
  BY <1>2, WindowsShows DEF NetworkInv, OkIsHonest, AttemptsEveryPart, ShutdownIsLast
<1>3. CASE part \notin {"calls", "windows"}
  BY <1>3 DEF NetworkInv, OkIsHonest, AttemptsEveryPart, ShutdownIsLast, LinuxOkIsHonest,
              LinuxAttemptsEveryPart, LinuxShutdownIsLast
<1> QED  BY <1>1, <1>2, <1>3

(* A configuration call that returned Ok has put everything in place        *)
(* (os_trait.rs line 23), whatever failed before and whoever waited for the *)
(* lock.                                                                    *)
THEOREM OkMeansInPlace == Spec => []OkIsHonest
BY NetworkInvariant, NetworkShows, PTL

(* Whatever fails, the rest is set up, and nothing is left that a later     *)
(* call would not take away (linux/mod.rs line 137, windows/tun.rs line     *)
(* 183).                                                                    *)
THEOREM EveryPartIsAttempted == Spec => []AttemptsEveryPart
BY NetworkInvariant, NetworkShows, PTL

(* The shutdown has the last word unless it stopped waiting                 *)
(* (service/mod.rs line 86).                                                *)
THEOREM ShutdownHasLastWord == Spec => []ShutdownIsLast
BY NetworkInvariant, NetworkShows, PTL

=============================================================================
