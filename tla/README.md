# A verification of the Obscura VPN client

TLA+ models of the parts of this repository where the order of events decides
whether the program is right: the tunnel task, the Linux kill switch and the
netlink transaction under it, the client's account, API client and WireGuard
key, the making and the watching of a connection, the configuration file, the
status and its followers, the commands of the user interfaces, and the network
configuration of the Linux and the Windows service. TLC checks the models on
small instances; TLAPS proves what matters most of them for every value of the
constants.

Source paths below are relative to `src/rustlib/src` unless they begin with `src/`.

## 1. The system and its parts

One process, the service, runs a tokio runtime with several worker threads
(`bin/obscura/main.rs`). User interfaces send it commands over a socket. It
drives the operating system through the trait `Os` (`os/os_trait.rs`), which
has an implementation for each platform.

| Part | State it keeps | Operations | Talks to |
|---|---|---|---|
| Tunnel task (`tunnel_state.rs`) | the published `TunnelState`; its snapshot of the target state, the connection in hand, the exits already tried | one endless loop, `maintain` | awaits the target state, `ClientStateHandle::connect`, the `Os` calls, the connection's failure |
| Client state and configuration (`client_state.rs`, `config/`) | `Config` (account, token, key, settings, caches), cached API client, preferred interface | closures under one lock (`change`), then asynchronous requests outside it | the API server, the configuration file, every watcher |
| WireGuard key (`config/persistence.rs`, `wg_key_store/`) | key pair, first use, registration, old public keys | create, use, rotate, register | the key store (TPM, keychain or file), the API server |
| Linux kill switch (`bin/obscura/service/os/linux/`: `mod.rs`, `boot.rs`, `fd_store.rs`) | the nftables socket, copies of it in systemd's descriptor store, the published `FirewallStatus` | start, adopt or create, protect, ready, apply | systemd, the kernel, the tunnel task |
| nftables transaction (`netfilter.rs`) | the socket with its unread replies, the kernel's table | `apply_ruleset` | the kernel, by netlink messages |
| Network configuration (`linux/mod.rs`, `linux/dns/`, `linux/tun.rs`; `windows/tun.rs`, `nrpt.rs`, `iphelper.rs`) | what firewall, routes, resolvers and tun device were last set to | `set_os_network_config`, `unset_os_network_config` | the kernel, DNS managers, the registry; called by the tunnel task and the shutdown |
| Route enforcer (`routes/traffic_capture_routes.rs`) | the policy asked for | dump, compare, repair, wait for events | the kernel, other programs that change routes |
| Preferred interface (`routes/preferred_interface.rs`, `windows/adapters.rs`) | the interface last found | dump or list, publish, wait for a change | the kernel or Windows, the manager, the client state |
| Manager and status (`manager.rs`, `manager_cmd.rs`) | the versioned `Status` | commands, long polling, the registration task | all of the above, user interfaces |
| Connection (`quicwg.rs`, `liveness.rs`, `relay_selection.rs`, `exit_selection.rs`) | handshakes in a race, exits already tried, the channel's queues, outstanding probes | race, select, hand-shake, send, receive, probe, declare dead | relays and exits |
| Caches (`config/cached.rs`, `client_state.rs`) | exit and relay lists with versions, account information | fetch under a lock, revalidate, wait for a version | the API server, pollers of the interfaces |
| Service process (`bin/obscura/service/mod.rs`, `ipc.rs`, `service_lock.rs`) | the lock file, connections of clients, the revocable handle to the system | accept, dispatch, shut down | user interfaces, the tunnel task |
| Debug bundles (`linux/debug_bundle.rs`, `debug_bundle/`) | bundles by token, directories | create, copy, delete | user interfaces |

What is hard here:

* **Interleaving.** A command, a change of the network or a failing connection
  can arrive at every await of the tunnel task, which works on a snapshot.
  Requests to the API server are in flight across logins, logouts and rotations.
* **Partial failure.** Each call to the operating system can fail after it has
  done all, some or none of its work; the loop retries after a pause.
* **Crash and restart.** The service is killed at any step and restarted by
  systemd; the firewall has to hold meanwhile, a boot must come up blocked, and
  the configuration file has to survive a loss of power between two steps of a
  save.
* **Lost wake-ups.** Tasks read several channels, sockets or notifications and
  then sleep: a change between the reading and the sleep must still wake them.
* **Dropped futures.** `select!` drops what it was reading in the middle of a
  message, a race is abandoned while handshakes finish, and a shutdown stops
  waiting for a call that still runs.
* **Unreliable answers.** The netlink socket drops acknowledgements, keeps those
  of earlier batches, and each batch uses the same numbers again; the API
  server's answer to a registration may be lost; answers to probes lag, are
  lost, and overtake one another.

What makes each part right is what section 3 states for the parts modelled and
section 7 lists for the others.

## 2. The modules

| Module | Models | Runs |
|---|---|---|
| `TunnelState` | `TunnelState::maintain` and the commands that reach it | `TunnelState`, `TunnelStateLive`, `TunnelStateError` |
| `VpnSession` | abstract: what a user may see of a session and of the network | property `ImplementsSession` |
| `KillSwitchPromise` | `TunnelState` with a history of what the user was promised | `KillSwitchPromise` |
| `LinuxFirewall` | the life of the kill switch: process, socket, systemd, kernel, boot | `LinuxFirewall` |
| `NftTable` | one `apply_ruleset` as messages between caller, socket and kernel | `NftTable` |
| `FirewallCall` | abstract: all or nothing, and Ok only when it was all or old answers could not be discarded | property `ImplementsCall` |
| `AccountSession` | login and logout, `api_client`, `api_request`, the WireGuard key and its registration | `AccountSession`, `AccountSessionToken`, `AccountSessionClient` |
| `RelayRace` | the race of the relays, its winner, its losers | `Connection` |
| `Connecting`, `ExitSelection` | one connection attempt after another; which exit each uses | `Connection` |
| `RelayChannel` | the TCP channel to the relay: framing, confirmations, queues | `Connection` |
| `Liveness` | the probes that decide whether a tunnel is alive | `Connection` |
| `ConfigStore` | load, save and change of the configuration, over crashes | `ClientService` |
| `StatusFeed` | the status task, the registration task, a poller | `ClientService` |
| `ListCache` | cached lists and account information, a poller | `ClientService` |
| `ServiceIpc` | commands: both sockets, both processes, the command loop | `ClientService` |
| `DebugBundles` | debug bundles of the Linux application and service | `ClientService` |
| `RouteEnforcer` | rules and routes against other programs | `OsNetwork` |
| `NetworkConfig` | the Linux configuration calls, the DNS managers, the shutdown | `OsNetwork` |
| `InterfaceWatch` | the preferred interface on Linux, and the manager's task | `OsNetwork` |
| `WindowsNetwork` | the Windows configuration calls and the shutdown | `OsNetwork` |
| `AdapterWatch` | the preferred interface on Windows | `OsNetwork` |
| `Connection`, `ClientService`, `OsNetwork` | compose the modules named in their runs | |
| `TunnelStateProofs`, `LinuxFirewallProofs`, `NftTableProofs`, `AccountSessionProofs`, `ConnectionProofs`, `ClientServiceProofs`, `OsNetworkProofs` | the theorems about each | |
| `MC...` | symmetry sets and values of constants for TLC | |

`Connection`, `ClientService` and `OsNetwork` put together parts that meet at a
narrow place only, and at that place each part is open to everything the other
may do: `Connecting` takes any outcome of a race, `StatusFeed` any sequence of
changes, `RouteEnforcer` any sequence of policies. What holds of one part in its
own behaviours then holds in any interleaving with the others, so a behaviour of
a composed module picks one `part` at the start and follows its steps; the
others rest at one of their initial states. This keeps the number of states the
sum of the parts' and not their product. Two parts share more: `NetworkConfig`
sends the routes' policy through the `RouteEnforcer`'s channel and
`WindowsNetwork` uses `NetworkConfig`'s shutdown, and they extend one another.

`FirewallCall` is the joint between the firewall's modules: `NftTable` is
proved to implement it, and `LinuxFirewall` takes a whole call as one step with
exactly the outcomes it allows a call that could discard the answers left on the
socket (the new rules, the old rules, and an error with either); `NetworkConfig` takes it as one part of a configuration call that
succeeds or fails. `TunnelState` takes one further step back: a call of the trait `Os`
succeeds, or fails and leaves each of its parts in any state it can leave.

In each module an operator whose name begins with `Faulty` is the definition
that follows it with a plausible mistake (a missing reset, a dropped
comparison). No specification uses one. They document which mistake each
property would notice, and `PROJECT.json` pairs them with the properties.

### TunnelState

The variable `pc` names the await at which the task is suspended; everything
between two awaits is one action, because nothing of the task's state can
change there. `LoopHead` is the code from the snapshot of the target state to
the first await of the branch it takes (`FirstAwait`), including the rotation
of the key on the way to disconnected. The rest are named for the await and its
outcome: `DummyOk`, `DummyErr` (the placeholder network configuration before a
connection), `ConnectOk`, `ConnectErr`, `ConnectChanged`, `RealOk`, `RealErr`
(the connection's own configuration), `ForwardChanged`, `ForwardFails`,
`UnsetOk`, `UnsetErr` and `IdleChanged`. `SetTunnelTargetState`,
`SetFeatureFlag`, `ChangeSettings`, `SetAccountId`, `SetNetworkInterface`,
`RotateKey` and `KeyExpires` are the concurrent commands. The variable `os` is
the environment: what firewall, network and reader task were last set to. A
failed call leaves the firewall's old or new rules, an unknown network
configuration and, while connecting, the new reader task: the firewall is applied
first and a whole ruleset at a time, the rest in parts.

### LinuxFirewall and NftTable

`LinuxFirewall` follows the service from `Start` (take the stored descriptors)
over `Adopt` or `Create`, `Store`, `SetupOk`/`SetupErr`, `ProtectOff`,
`ProtectOk`/`ProtectErr` and `Ready` to the manager's `SetOsNetworkConfig` and
`UnsetOsNetworkConfig`, with `Crash`, `Stop`, `Reboot`, damage to the file
(`EditFile`) and a lost store entry (`StoreDrops`) at every step. The table
dies with the last copy of its owner socket (`Survivor`). systemd has room for
`StoreMax` descriptors. Four variables are history: `duty` and `vigil` (what the
user was promised since the block was confirmed, and what the boot found),
`lost` (something of the socket or the store failed in this boot) and `kept`
(systemd could not be told to drop what it stored when this process created its
socket).

`NftTable` numbers the messages of a batch as `next_seq` does, lets the kernel
commit or reject it as a whole, and queues the acknowledgements, or drops any
of them and reports an overflow. A restart keeps the socket and the replies
nobody read. Before a batch is sent, `discard_stale_replies` reads them
(`DiscardAll`), or an error of `recv` ends that early and the batch is sent all
the same (`DiscardSome`, `netfilter.rs:317`); `stale` records that answers were
left.

### AccountSession

A closure given to `ClientStateHandle::change` is one step, and so is a read
outside one. `api_client` therefore is two: `ReadAccount`, then
`UseCachedClient` or `MakeClient`. A request goes on with `Serve` (the server),
`Answer` (the await ends, and `cache_auth_token` stores the client's token) and
`Finish` (what the caller does with the result). Two callers run: the
registration task and the tunnel task in `connect`, which stands for the
commands' requests too. `Restart` forgets what is not in the file and may find
the secret key unavailable. Keys are never made twice, in place of randomness.
The histories `raced` and `mixed` record the windows described under findings,
so that the remaining guarantees are stated exactly where they hold. Assumed:
saves succeed, a request the client gave up on is not served later, and there
is one API server.

### Connection

`RelayRace` keeps the state of each handshake, the loop's deadline and
candidate, and the task that abandons the race; time passes in ticks.
`TakeNext`, `LeaveLoop` and `CancelRace` are the loop of `select_relay`; `Join`,
`AllJoined`, `Stop` and `EndGrace` are `abandon`. `Connecting` follows `connect`
and `new_tunnel` from the relay list to the handshake with the exit, with
attempts dropped by `ChangeTarget` at any await, and keeps the selection state
from attempt to attempt. `RelayChannel` has the reader's future, which any
timer may drop between header and payload, and the writer's task with its
queues. `Liveness` has the outstanding probes, their period computed from the
slowest recent answers, sleep and wake-up, and a network that is good, silent,
or changes.

### ClientService

`ConfigStore` takes the temporary file, its sync, the rename and the unsynced
directory one by one (`WriteTemp`, `SyncTemp`, `Persist`, `Flush`), with
`Crash`, `StopService` and `LosePower` between any two. `StatusFeed` reads each
channel in a step of its own. `ListCache` has a lock for lists and none for
account information, as the code does. `ServiceIpc` follows a connection from
the choice of the socket to the response: the client's steps, those of
`handle_stream`, of the loop and of the command. `DebugBundles` has the tasks of
the application, which are given a time limit, its work directory and the
staging directory in it, and the service's command step by step. The code
removes the staging directory and never the work directory, which holds the
archive: when `create_dir` for staging or the zipping fails, the work directory
stays in the temporary directory without one, and `workDir` says so.

### OsNetwork

`RouteEnforcer` drains events, reads the policy, dumps rules and routes of each
family and sends the requests of `apply_routing` one by one; `Tamper` stands for
other programs. `NetworkConfig` and `WindowsNetwork` run a configuration call
part by part against the shutdown, which waits a limited time for the call in
flight, takes the handle away (`RevocableOs`) and unsets the configuration
itself. On Linux a mutex keeps calls apart. On Windows there is none: a call that
timed out runs beside the last `unset`, although `os/os_trait.rs:24` says calls
are never concurrent, and the properties except exactly that case. `InterfaceWatch`
and `AdapterWatch` go from the kernel's or Windows' event to the interface the
client uses. Not every change comes with one. The watcher on Linux listens to
IPv4 routes (`preferred_interface.rs:44`), and the kernel announces no deletion of
those it flushes when a link goes down (`LinkDown`, next to `RouteChanges`). On
Windows the thread asks for changes of the IPv4 address table
(`adapters.rs:57`), while an adapter is chosen by its gateway, operational status
and hardware flag too (`StatusChanges`, next to `AddressChanges`). Such a change is
noticed with the next event or after the next failure of the watcher, and until
then the client may use an interface that is no longer, or not the one that is
now, preferred: a gateway that arrives after the address, for one. `heard` and
`told` are history variables: what all events and readings so far tell.

Some things a reader may not expect. The code of the shutdown is common to both
systems and is checked with both, but only the Windows service is given a signal
that starts it (`service/os/windows/scm.rs`); on Linux it is `None` so far, and
systemd ends the process. A Windows call reports
success when the name resolution rule could not be created but the old one is
gone. The tun adapter of Windows and its routes are taken to go with the
process. A bundle directory that cannot be opened to the user stays behind
without a token.

## 3. What the runs check

| Run | Bounds | Distinct states | Checks |
|---|---|---|---|
| `TunnelState` | 2 exits, 2 interfaces, 2 settings, 2 connections, 1 byte, symmetric | 920 000 | safety and refinement |
| `TunnelStateLive` | 1 exit, 1 interface, 1 setting, 2 connections | 21 000 | liveness |
| `TunnelStateError` | 1 exit, 1 interface, 2 settings, 2 connections | (violation) | a log message's claim |
| `KillSwitchPromise` | 2 exits, 1 interface, 1 setting, 2 connections | (violation) | the README's promise |
| `LinuxFirewall` | 3 sockets, room for 2 in the store | 90 000 | safety and liveness |
| `NftTable` | 2 policies, of 3 and 5 messages, 5 unread replies | 169 000 | safety, refinement, liveness |
| `AccountSession` | 2 accounts, 3 keys, 2 clients, symmetric | 840 000 | safety |
| `AccountSessionToken`, `AccountSessionClient` | 2 accounts, 2 keys, 2 clients | (violation) | two statements of the code |
| `Connection` | 4 listed relays, 3 raced, one with 2 ports; 4 exits in 3 places, 3 keys; 3 messages, 2 packets; 2 lost probes allowed | 1 060 000 | safety |
| `ClientService` | 1 account, 1 rename not written out; 2 changes of the status, 1 attempt; 2 callers, 3 changes of the list; 2 connections, 2 starts; 2 bundles, 2 mishaps | 488 000 | safety and liveness |
| `OsNetwork` | 1 resolver of each family, 1 change by others, 1 failing request; 3 tunnel configurations, 2 calls, 1 failing part on Windows; 2 interfaces, 2 metrics, 1 failing socket | 2 057 000 | safety and liveness |

`ClientService` and `OsNetwork` do not check for deadlock: their environment
(commands, changes by others, starts) is bounded, and when it is used up and
everything has settled, the system rightly stops. In the other runs the system
can always go on, and deadlock is checked.

Why these bounds are enough to be interesting. Two exits and two interfaces
make a change of either different from no change; two connections are the one
in hand and the one published, which is all the task ever holds at once. Three
sockets are the one held, the one stored, and a third that a failed setup left
behind; with room for two, the store is full while another socket is offered.
Batches of three and five messages let a stale acknowledgement of one
policy carry the awaited number of the other, and five unread replies hold the
longer batch's whole and what a discarding cut short leaves of it. Three keys allow two rotations
around a registration in flight; two clients are one in use and one cached.

In the composed runs: the list of relays is one longer than the race takes and
one relay has one port more, so both limits are met, and two handshakes of the
same relay count once. Two exits share a datacenter, three a country, so that
each exclusion is reached (one exit per datacenter, two per city and country, in
place of two, four and six). A probe period of two to five ticks with two
outstanding probes lets answers be overtaken by the next probe and by a wake-up.
One rename that is not written out gives a loss of power something to bring
back. One attempt in place of ten is enough for the registration task to give
up while the status changes; two changes are one while the status is built and
one after it. Two callers are one that stores and one that asks; two
connections are one that may use the main socket and one that has to try the
other. Two bundles are one in progress and one that is refused or comes next.
One failing request, in any position of any round, and one change by others
between any two dumps are what the enforcer must recover from; it starts from
any table an earlier process can have left. Two calls of the tunnel task follow
one another, the second one with the shutdown beside it. None of the proved
properties depends on the bounds.

### Tunnel task

* `TaskInvariant`: every branch is entered with the published state, target and
  connection it is written for, across failed steps and pauses.
* `ForwardingIsConfigured`: packets are forwarded only with firewall, network
  and reader all set for the published connection and the current settings.
* `NoTrafficAroundTunnel`: traffic is captured from before the first attempt to
  connect to the intended disconnect, and blocked while idle with the kill switch.
* `StatsAreExact`: traffic counters neither lose nor count twice the bytes of an
  earlier connection of the session.
* `RotatesOnlyWhenLeaving`: the task never rotates the key of a connection that
  stays published.
* `ImplementsSession`: what is published and what the firewall lets through
  change only as `VpnSession` allows.
* `Settles`, `DeadTunnelIsDropped`: once the wishes stop changing the target
  state is reached again and again; a dead connection never stays published.

### Kill switch

* `KeepsPromise`: a confirmed block survives crashes at any step, adoption of
  the stored socket and failing applications, in a boot in which systemd kept what
  it was given and no setup of a socket failed (`lost`).
* `BootIsProtected`: with a preference to protect, or an unreadable one, the
  network comes up blocked, and readiness implies the strict block, which is
  the claim of `src/README.md:151-157` in terms of states.
* `StatusIsProof`: the status says `Blocking` or `Inactive` only when the kernel
  does what it says.
* `GetsReadyOrBlocks`: once nobody disturbs it any more, the service gets ready,
  however often the setup of a socket has failed or was abandoned and whatever
  the store has lost. Two states are excepted, and it stays in `protect` in
  both: the preference cannot be read, and the host is kept blocked; or the
  kernel refuses the table because an older socket owns it, which systemd could
  not be told to drop when this process created its own.
* `AnswerIsComing`, `CallReturns`: `apply_ruleset` never waits for an
  acknowledgement that was dropped.
* `OnlyOwnAckConfirms`, `ImplementsCall`: replies left by an earlier batch, with
  the same numbers, never confirm this one, provided that the call could discard
  them. If another error of `recv` than an interruption or a loss ends the
  discarding (`netfilter.rs:317`), they can, and Ok says no more than an error.

### Account and key

* `RegisteredKeyIsKnown`: a key marked as registered is one the server knows for
  this account, whatever rotated, logged in or restarted meanwhile.
* `NoForgottenKey`: every key of this login that the server knows is the current
  one or on the list of keys to remove, over lost answers and restarts.
* `ClientIsCurrentUnlessRaced`: a login never leaves a client for another account
  in the cache, except through the window of the finding below.

### Connection

* `BestRelayWins`: a won race goes on with the shortest round trip the loop has
  seen and overlooks no handshake that was ready.
* `LosersAreStopped`: every other relay that finished a handshake is told to
  stop, unless the attempt was cancelled or the relay let the grace period pass.
* `NeverStuckWithoutExit`: as long as some exit matches the target, two attempts
  in a row never fail for want of an exit.
* `TunnelFitsHandshake`: a tunnel belongs to the relay the client shook hands
  with, and is never asked for with a key the server told it to rotate.
* `RelayChannelIsOrderly`: a dropped read loses no part of a message, each
  operation is confirmed once and in order, and the writer never sleeps over
  something to write.
* `AnsweringNetworkIsKept`: a network that answers each ping in time is never
  given up, however its answers lag and overtake one another, not even right
  after a wake-up, when fewer losses are tolerated.
* `SilenceIsNoticed`: a silent network is given up within a bound: soon after a
  wake-up that nothing answered, whatever still arrives from before it, and
  otherwise as soon as the idle period and the slowest answer allow.

### Service and clients

* `ConfigIsDurable`: what was reported as saved comes back after kills, stops and
  failed saves, the tunnel's target follows what was asked since the computer
  started, and no crash makes the file unreadable.
* `StatusIsCurrent`: no change of a channel is missed, no version shows two
  contents, and each status that calls for a registration has its attempt.
* `CachesAreRight`: a list is never replaced by an older one, a version names one
  list, and account information is the user's own but for the window of
  `client_state.rs:766` (a request that was under way at a login).
* `EveryCallIsAnswered`: every call ends with its own command's answer or the
  right refusal; no command runs twice or without access.
* `EveryBundleIsFinished`: a bundle that was begun ends, the next one is possible,
  and then neither the application's staging directory nor the service's directory
  is left, unless a process died, the service's could not be opened to the user,
  or one of them could not be deleted. The application's work directory stays in
  every case: with the archive in it exactly when the bundle succeeded, and empty
  or with part of an archive when staging or zipping failed.

### Network configuration

* `SleepsOnlyWhenDone`: the enforcer waits only with the desired policy in force
  or with something at hand that wakes it.
* `RoutesFollowPolicy`: the desired policy comes into force or is replaced.
* `OkIsHonest`: a call that returned Ok left every part as asked.
* `AttemptsEveryPart`: a failed part keeps no other from being attempted, and on
  Windows no route is left that a later call would not remove.
* `ShutdownIsLast`: no call of the tunnel task has the last word after the
  shutdown's, unless waiting for it timed out.
* `ClientUsesPreferred`: no change that the system announces is lost on its way.
  The client uses the interface that is preferred by all that events and readings
  tell; what is so can differ from that only by default routes that went with
  their link (Linux), or by what the adapters are apart from having an address
  (Windows). Whether the client uses what is preferred at the moment is not
  claimed: the code does not hear of these changes.

## 4. Fairness

* `TunnelState`: weak fairness for the task's own steps, because tokio polls a
  woken task; strong fairness for `ForwardFails`, because `select!` polls its
  branches in random order and so cannot overlook one for ever; strong fairness
  for calls and connection attempts, the assumption that what is retried for
  ever succeeds at some point. The last is about the environment; without it
  there is nothing to reach.
* `LinuxFirewall`: the unit has `Restart=always` and `StartLimitIntervalSec=0`,
  so a dead service is started again, weakly fair; the process's own steps are
  weakly fair; creating the socket, setting it up and applying the rules succeed
  at some point when they are retried for ever and can succeed (strong
  fairness): the kernel refuses a table that another socket owns each time.
  Nothing is assumed of the user or of crashes;
  the property asks for what happens after the last disturbance.
* `NftTable`: the kernel processes a sent batch, and the caller reads what there
  is to read.
* `ClientService`: weak fairness of `StartLoop` (a service that listens reaches
  its loop), of `GoesOn` for each connection (client, stream and command are
  tasks that their runtimes poll, and a rendezvous channel serves its senders in
  order) and of `BundleStep` (the same tasks carry a bundle on; a program that
  hangs is cut off by its time limit). Nothing is assumed of the user, of
  crashes, or of what a long poll waits for.
* `OsNetwork`: weak fairness of the enforcer's own steps. Failures and changes by
  others are bounded, which says that they end, not when.
* `AccountSession` and `Connection` state no liveness.

## 5. What is proved

All theorems are about the specification the runs check, the composed one where
parts are composed, and hold for every value of the constants that meets the
named assumptions of its modules (`TunnelConstants`, `SocketConstants`,
`BatchConstants`, `SessionConstants`, `RaceConstants`, `SelectionConstants`, `ConnectingConstants`,
`ChannelConstants`, `LivenessConstants`, `ConfigConstants`, `StatusConstants`,
`ListConstants`, `IpcConstants`, `BundleConstants`, `RouteConstants`,
`NetworkConstants`, `WatchConstants`, `AdapterConstants`, `WindowsConstants`).
They say that what stands for "none" is not a proper value, that bounds are
numbers and that tables are of the type the code gives them. The few that say
more:

* `SocketConstants`: systemd keeps at least one descriptor (`obscura.service` asks
  for eight).
* `BatchConstants`: a batch has at least three messages (begin, `DESTROYTABLE`,
  `NEWTABLE`).
* `LivenessConstants`: `BUSY <= MinPeriod <= MaxPeriod` and `BUSY <= IDLE`; in the
  code these are 1 s, 1 s, 30 s and 55 s (`liveness.rs`).
* `RouteConstants`: the policies the enforcer is sent include the one it starts
  with, and each resolver has one family.
* `ListConstants`: finitely many callers ask for lists at a time; they are the
  tasks of one process.

| Theorem | States |
|---|---|
| `TypeCorrect`, `TaskCorrect` | `TypeOK`, `TaskInvariant` of the tunnel task |
| `ForwardingCorrect`, `SafetyCorrect`, `StatsCorrect` | `ForwardingIsConfigured`, `NoTrafficAroundTunnel`, `StatsAreExact` |
| `SessionImplemented`, `RotationCorrect` | the tunnel task implements `VpnSession`; `RotatesOnlyWhenLeaving` |
| `FirewallTypeCorrect`, `KillSwitchCorrect`, `BootCorrect`, `StatusCorrect` | `TypeOK`, `KeepsPromise`, `BootIsProtected`, `StatusIsProof` |
| `NftTypeCorrect`, `AnswerCorrect`, `NftTableCorrect`, `CallImplemented` | `TypeOK`, `AnswerIsComing`, `OnlyOwnAckConfirms` (of a call that left nothing unread); `NftTable` implements `FirewallCall` |
| `SessionTypeCorrect`, `RegistrationCorrect`, `KeysCorrect`, `ClientCorrect` | `TypeOK`, `RegisteredKeyIsKnown`, `NoForgottenKey`, `ClientIsCurrentUnlessRaced` |
| `LosersStopped`, `BestWins` | `LosersAreStopped`, `BestRelayWins` |
| `NeverStuck`, `TunnelFits` | `NeverStuckWithoutExit`, `TunnelFitsHandshake` |
| `ChannelIsOrderly` | `RelayChannelIsOrderly` |
| `AnsweringIsKept`, `SilenceNoticed` | `AnsweringNetworkIsKept`, `SilenceIsNoticed` |
| `ConfigDurable`, `StatusCurrent`, `CachesRight` | `ConfigIsDurable`, `StatusIsCurrent`, `CachesAreRight` |
| `AnswersAreOwn`, `BundlesAreTidy` | the safety in `EveryCallIsAnswered` and in `EveryBundleIsFinished` |
| `EnforcerSleepsOnlyWhenDone`, `PreferredIsUsed` | `SleepsOnlyWhenDone`, `ClientUsesPreferred` |
| `OkMeansInPlace`, `EveryPartIsAttempted`, `ShutdownHasLastWord` | `OkIsHonest`, `AttemptsEveryPart`, `ShutdownIsLast` |

The arguments:

* **Compositions.** A step of `Connection`, `ClientService` or `OsNetwork` is a
  step of each of its parts or leaves the part alone (`StepOfAPart`,
  `StepOfEachPart`), so an invariant of a part, kept by its steps, holds in every
  interleaving. `NetworkConfig` and `WindowsNetwork` share variables; of these
  `StepOfAPart` says who may change them.
* **Tunnel task.** `TypeOK` and `TaskInvariant` are inductive together: the
  position of the task determines which published state and which connection it
  has in hand. With them the three safety properties are inductive once
  `SelectionIsReset` is added, which says where the exits already tried have been
  forgotten. The refinement is then a case analysis of the actions: each maps to
  one step of `VpnSession` or to a stutter.
* **Kill switch.** The promise is inductive only with the life of the socket
  (`OneSocket`: the store holds one socket at most, it is the table's owner if
  there is one, and the process holds the same one from its setup on) and with
  what backs the promise (`PromiseIsBacked`: the file and the manager's memory
  still ask for the block, the rules under way are not the open ones, and the
  kernel blocks). `StatusIsBacked` says the same of the published status.
* **nftables transaction.** `CallInvariant` says that a batch is sent with no
  reply unread unless it is marked as `stale`, and that a committed one is what the kernel has; while the call
  waits, `AnswerIsComing` and `OnlyOwnAckConfirms` carry themselves: reading a
  reply that does not end the call leaves the one that does.
* **Keys.** The registration in flight is described by `RegistrationIsOurs` (the
  key it was asked for is still on the list, or belongs to an earlier login, in
  which case it cannot remove any key of this one) and `ServedIsKnown` (what the
  server has done once it was served). Freshness of keys (`KeysAreFresh`) is what
  makes a rotation harmless. The client's part needs the types only: a sent
  request has a client that was made for an account, and dropping clients leaves
  those in use alone.
* **Race.** While the loop runs, the candidate is the one handshake held
  (`BestIsHeld`) and no worse than any it has taken (`TakenIsNoBetter`); once
  joined, tasks finish nothing (`JoinedAreGone`). That `BestWins` is a step
  property follows from the invariant before and after the step.
* **Attempts.** An attempt that failed for want of an exit has cleared the
  selection (`ClearedAfterNoExit`), a clear selection excludes nothing, and of
  the exits that match one comes first (`SomeExitIsFirst`, from the bounded rank
  of each). Keys the server refused are older than the current one
  (`KeysInOrder`), and each await of an attempt still has what was chosen for it
  (`AttemptHolds`).
* **Relay channel.** `RelayChannelIsOrderly` counts: what was written, is being
  written and is queued is, in this order, one confirmation for each operation
  read so far (`Confirms`). Each step of the reader adds one at one end
  (`OneMore`), each of the writer takes one from the other (`TakingKeepsOrder`,
  `WritingKeepsOrder`); `BatchIsWritten` says what the writer has in hand.
* **Probes.** Pings are sent at least `BUSY` apart (`PingsAreApart`), so a ping that
  a good network has yet to answer is younger than the number of later ones
  times `BUSY`, and as many as may be lost are never lost at once. Of a silence,
  `SilenceIsMeasured` names the ping from which on nothing is answered: each that
  counts was sent by the time it was due (`Due`: the first an idle period after
  the silence began, the next when that is lost, then one each `BUSY`), and the
  next poll comes no later than the next is due. `NoticeIsInTime` adds up what is
  due to the bound.
* **Configuration.** The invariant says what the file holds while a configuration
  is loaded (`FileIsMemory`), while one is saved (`SavesWhereExpected`) and while
  the process is down with a restart due (`WishIsKept`); a promised account is in
  all of them (`PromiseIsKept`).
* **Status.** A channel that is not marked as changed was read, and what was read
  is published once the task waits (`ReadIsPublished`); a new subscription knows
  nothing of the client state, and its mark on the tunnel state stands for that.
* **Caches.** Who asks for a list holds the lock until the answer is stored
  (`LockIsHeld`), so what it compares with is what is cached (`ListIsNewest`). Of
  the version cached, the one asked about and the one the application shows, two
  that are equal name the same list (`VersionsAreHonest`). A list without a
  version of the server's gets a random one in the code and an unused number in
  the model; as at most three versions are in use, some number of the
  model's is free (`UnusedIsNew`).
* **Commands.** A command has not run before its request was handed over and
  answers nothing before it ran (`RunsOnce`); who may not connect has no stream
  that gets that far (`BeginsOnce`).
* **Bundles.** How far the application is with a bundle says how far the service
  may be (`BundleGoesOn`): until its directory is removed the bundle is lost, or
  its token is known. The work directory holds an archive exactly if the caller
  was told of one.
* **Routes.** What the dumps of a clean round have passed is as the policy wants
  it as long as no event came (`DumpedIsWanted`), and the policy of the round is
  the desired one as long as none was sent (`PolicyIsRead`); it falls asleep only
  after a clean round (`SleepIsClean`).
* **Preferred interface.** The best route of a dump is the best of those visited
  (`BestOfVisited`) and what is published while the watcher waits is the best of
  all (`PublishedIsBest`), unless an event came; both are about the routes as
  `heard`, which a silent flush leaves alone. What was published is with the
  manager's task or the client unless it is marked unseen (`NewsTravels`).
* **Network calls.** The lock keeps calls apart (`LockIsHeld`, and `Turns` for the
  shutdown's place after them), so the parts a call has done stay done until it
  ends, and those of the last call until the next (`LastIsInPlace`). On Windows,
  where there is no lock, `OneAtATime` shows that a call runs beside another only
  once the shutdown has stopped waiting; as long as it has not, the same is shown
  part by part (`LastPartsInPlace`). `RoutesAreKnown` needs no such exception.

Model-checked only: the liveness properties `Settles`, `DeadTunnelIsDropped`,
`GetsReadyOrBlocks`, `CallReturns`, `EveryCallIsAnswered`, `EveryBundleIsFinished`
and `RoutesFollowPolicy`, which need fairness and `ENABLED`, out of reach of the
prover. Every safety invariant and every action property that a passing run
checks is proved, and so is the safety inside `EveryCallIsAnswered` and
`EveryBundleIsFinished`.

## 6. Findings

* `TunnelStateError`: `tunnel_state.rs:132` calls it impossible that
  `set_connect_error` is reached with a tunnel that is not connecting. A change
  of settings with an established connection, followed by a failing
  `set_os_network_config` (line 313), does reach it; the error is dropped and
  the state stays published as connected. The loop recovers by itself.
* `KillSwitchPromise`: `src/README.md:71` promises that the internet stays
  blocked after a disconnect until the user changes the setting. A logout
  resets the whole configuration, the kill switch with it
  (`client_state.rs:218`), and the block is lifted.
* `AccountSessionToken`: a request in flight across a logout writes the old
  account's token back into the configuration (`client_state.rs:632`), although
  `set_account_id` does not keep it. It survives restarts and is used by the
  next client that is made.
* `AccountSessionClient`: `api_client` reads the account and makes the client in
  two critical sections (`client_state.rs:603` and `607`); a login in between
  leaves a client for the previous account in the cache.

## 7. Not modelled, and the plan

Left out of the modelled parts:

* **Connection.** The QUIC transport of the relay channel (datagrams, no framing),
  WireGuard's messages and their fragments, statistics. A failure in `new_tunnel`
  after a won race drops the winner's handshake without a Stop; this is in
  `Connecting` only as the end of the attempt. The suspension of a device is in
  `Liveness` as the wake-up that ends it.
* **Configuration and caches.** The DNS cache (`config/dns_cache.rs`). Status
  contents that differ in account information only within one second count as
  the same in the code (`client_state.rs:78`), and so in `StatusIsCurrent`.
* **Account.** Retries of the HTTP client; a change of the API URL.
* **Network.** `LinuxFirewall`, `TunnelState` and `NetworkConfig` take
  `apply_ruleset` as a call that left no old answer unread: `recv` on an open,
  non-blocking netlink socket is taken to report nothing but an empty queue, an
  interruption or a loss, all of which `discard_stale_replies` handles. `NftTable`
  assumes nothing of the kind. D-Bus calls that never answer; what a DNS manager keeps when the
  choice falls on another between two configurations; the tun device's read task
  and packet buffer on Linux; access control lists and the named pipe on Windows.
* **Debug bundles.** What is collected, and the blocking builder of the other
  systems.
* **Delays.** Backoffs and debounce periods are orders that may go either way, not
  durations, but for the race and the probes.
* **A hazard without a property.** `tunnel_state.rs:178` keeps the reason of a
  disconnect over an iteration that finds the tunnel already disconnected. The
  value is modelled; nothing in the repository says when a session may be shown
  as reconnecting, so there is nothing to hold the code to.

Left out for good: windows, menus and icons of the user interfaces, the web
interface and the command line client (no state of their own); the Android and
Apple bindings (conversions and callbacks whose other side is elsewhere);
packaging and development tools; the formats of messages and files. The contents
of nftables rules, TLS and WireGuard cryptography are taken as they are.

What could come next: the composition of the tunnel task with the kill switch
through `FirewallCall`, with the tunnel task's view of the firewall (a failed call
leaves the old rules or the new) derived from the calls' own; a mixed transport in
`RelayChannel`.
