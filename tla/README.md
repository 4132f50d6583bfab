# nmdaemon in TLA+

`nmdaemon` is a FreeBSD daemon that listens on a Unix socket, reads JSON
commands from its clients and carries them out: system files, interfaces,
routes, wireless networks. This directory holds TLA+ models of its core, the
TLC runs that check them on small instances, and TLAPS proofs for every
instance. Paths below are relative to the repository (`src/main.cpp` is the
repository's `src/main.cpp`). `PROJECT.json` maps every definition to its
lines, and lists runs, mutants, findings, hazards and theorems.

## The system

| Part | State it keeps | Operations | Correct means |
|---|---|---|---|
| **Daemon threads** (`main.cpp`, `nmdaemon.cpp`) | `needShutdown`, `g_activeDaemons`; per connection an `NmDaemon` with a request queue, two stop flags, a write mutex; global `work_access` | accept loop, signal handler, shutdown with a grace period; `sock_receiver`, `dispatcher` | no two workers at once, no use of a freed object, whole frames, requests in order, clients do not starve each other, shutdown ends |
| **Request parsing** (`nmcommanddata.cpp`) | none | text to scope, command, data | which texts are requests |
| **Configuration files** (`Tool::rotateConfigFile`, `RcConf`, `ResolvConf`) | rc.conf, resolv.conf, their numbered backups | rotate, load, truncate and write | a whole text is recoverable, backups in order, the answer tells the truth |
| **wpa_supplicant protocol** (`wpaCtrlCmd` in three forms, `WpaSocket`, `execCmdWpaScan`, `wpaSelectCmd`) | one client socket path, one buffer; wpa_supplicant's queue and events | request and reply, wait for an event, retry after a reset | replies belong to their requests, networks survive a scan, commands end |
| **wpa_supplicant networks** (the other `execCmdWpa*`) | networks with id, SSID, parameters, priority; their saved copy; the connection | add with rollback, remove, connect, set, enable, save, reset | nothing half made, nothing else touched |
| **Interface, route, system workers** (`nmworkerif/route/sys.cpp`) | the kernel's addresses, flags, routes; the DHCP client process | set, add, remove; start and stop the client | partial failures, other processes acting meanwhile |
| **rc.conf contents** (`rcconf.cpp`, `CIniFile`) | key/value lines | merge interfaces and routes into them, read them back | what is not named stays, what was written reads back, a retry changes nothing |
| **802.11 worker** (`nmworkerieee80211.cpp`) | channel table, media and HT setting, kept from command to command | scan over a routing socket, copy results, ask for SSIDs and BSSID | results are fresh, parts of an answer belong together, the wait ends |
| **WPA_LIST with details** (`getSuppParamsAsync`) | one task and one socket per network | ask for the parameters in parallel, merge | details belong to their network, all tasks end |
| **Addresses and interfaces** | none | tests of gateways and masks; list of addresses | exactly the neighbours pass; the primary address is one of those listed |
| Configuration of the daemon, dummy worker, jails, vendored JSON and logging | none at run time | - | - |

How the parts meet: `main()` accepts a client, allocates an `NmDaemon`,
registers it under a mutex and detaches a thread that runs `sock_receiver`; that
thread starts `dispatcher` as a second one. The two share a queue and the
socket. Dispatchers of all connections share the worker objects; `work_access`
is held for the whole of a command, so a command may take many steps against
the file system, the kernel or wpa_supplicant, but never interleaves with
another command. It does interleave with the outside: wpa_supplicant, the DHCP
client, a signal, the end of the process.

What is hard: lifetimes of objects that detached threads delete themselves; a
signal taken by an arbitrary thread; partial writes and a client that does not
read; the end of the input racing the queue; files that are truncated before
they are written; replies that carry no identification on a socket path that
is reused; sequences of requests of which any may be refused or unanswered;
variables that outlive the round of the loop, or the command, they were set in.
The list with its lines is `hazards` in `PROJECT.json`.

## Modules

`NmDaemon` - `main()` and all threads. Program counters `main`, `rcv[c]`,
`dsp[c]` follow the statements between which another thread can run; the flags,
queue, registry and mutexes keep their names. A connection is one element of
`Conns`. Client text is a sequence of pieces, each a valid request, other text,
white space or a NUL; `read()` returns all that is there, so pieces may merge
into one chunk, which is what a stream does. A frame of `NM_MAXBUF` bytes goes
out in two halves, so that two writers could mix them. A signal may go to
`main()` or to a receiver. Exceptions nobody catches end the process
(`Terminate`). `executed` and `answered` are history variables. Sleeps are steps
without a duration; the deadline of the shutdown may pass at any time.

`RequestServer` - what the engine promises: one request at a time over all
connections, those of one connection in order, at most one unanswered. The
refinement mapping is in `NmDaemon` (`Server`).

`ConfFile` - one command after another that rotates and writes rc.conf or
resolv.conf. The content of a file is absent, torn, or the number of the
command that wrote it. Every call of `std::filesystem` may fail, a copy may stop
half way, and `Crash` may end the process between any two steps (`main()` does
that five seconds after a signal whatever a command is doing).

`WpaCtrl` - the exchange of datagrams with wpa_supplicant, message by message:
socket file, bound socket, inbox, queue, events, late replies, wpa_supplicant
stopping and starting. WPA_STATUS, WPA_REASSOC, WPA_SELECT and WPA_SCAN stand
for the three forms of exchange. wpa_supplicant is external; `Handle`,
`Happens`, `Stop`, `Start` are what the code expects of it.

`WpaNetworks` - the commands that change networks, one step per exchange. An
exchange is answered or not; if not, the request may have been carried out all
the same (`Unanswered`). The text search of `searchLineInBuf()` is modelled by
what it finds: an SSID inside a longer SSID (`Within`), an id that is the start
of another (`Prefix`). The header line of LIST_NETWORKS and BSSIDs as names are
left out. Any bound on the exchanges is `MaxLost` per command, because what
makes an exchange fail, and what it leaves behind, is the subject of `WpaCtrl`.

`NetConfig` - NmWorkerIf, NmWorkerRoute and the commands of NmWorkerSys that ask
the kernel (IF_ENABLE, IF_DISABLE, IF_LIST, JAIL_LIST) over the state they share: flags, addresses, MTU, DHCP clients,
routes. One step per system call; each may be refused. DHCP clients get leases
and end, other tools delete routes, between any two calls. Which of several
addresses SIOCGIFADDR returns is left to the kernel, as `doc/commands.md` says.
A DHCP client is found by the name inside its process title (`Within`). A lost
reply to RTM_GET leaves the worker in its read loop (`"deaf"`). `errno`
survives from one command to the next of the same connection, because
`execCmdRouteList` reads it. Commands carry the data the documentation asks for
or are rejected; RT_DEF_SET is RT_SET of the default destination, RT_DEF_GET is
RT_GET of it. IF_LIST is one `getifaddrs()` (`Snapshot`) and then, interface
by interface, the questions of `findPrimaryAndJailAddress`: DHCP client and lease
(`ListClient`), jails and SIOCGIFADDR (`ListMain`). Every interface has a link layer
address besides those modelled; jails and lease files are not kept, a question
may find anything in them. A `getifaddrs()` that fails leaves its pointer unset, so the
process may end (`"dead"`).

`Addresses` - IPv4 addresses and masks as the sets of their bits, for any
`Width`: `&` is intersection, `~m` the complement, and an exclusive or of 0 is
equality. `isValidGw4`, `isValidBcast4` and the mask of a prefix, and beside
them what they are to mean (`Network`, `Neighbours`, `BroadcastAddr`).

`RcConf` - what RCCONF_WRITE makes of rc.conf and what RCCONF_READ makes of the
result. A file is a function from the keys it assigns (`ifconfig_em0`,
`ifconfig_em0_aliases`, `ifconfig_em0_alias0`, `route_net1`, `static_routes`,
`defaultrouter`, others) to values in the notation they have in the file: a mask is a
prefix, hexadecimal or dotted, and reading decodes it. `setRcIpConfig` goes on
object by object, as its loops do: `BeginIf`, `PutPrimary` (first cycle),
`PutAliases` (second cycle and removal of old aliases), `PutRoute`, `SaveConf`;
`isDhcp` is the one variable that its loop does not reset. A process that ends
(`Crash`) and a client that sends the same request again (`Retry`) are there, and
requests with every part missing, invalid, IPv6 or DHCP. How the file itself survives
is left to `ConfFile`. Of the loop in `getRcIpConfig` over the keys in the order of the
`std::map`, `CollectOne` is a round and `CollectLoop` what it has after each; `Chosen` is what
a loop that skips some elements of a list leaves of it.

`Ieee80211` - WIFI_SCAN, WIFI_SCAN_RESULTS, WIFI_STATUS. One step per question to
the kernel, each of which may be refused. The routing socket queues everything
the kernel posts while it is open: the message waited for, scans of other
interfaces, other messages, and one of a foreign version. Other programs scan,
results come into the cache after the message (`Commit`), the interface roams
between two questions (`Roam`). `ChanInfo`, `IfMr` and `HtConf` are members and keep what
they had when a question fails; memory that was just allocated and not filled
holds any earlier table. `canPromote`, `promoteChan` and `mapFreq` are functions on the
index of a channel table, flags are sets; of an SSID its length and whether it is
printable is kept, and `copyEssid` is the set of places it writes.

`WpaList` - WPA_LIST with DETAILS. A task per network binds a socket, asks for
the parameters one after the other and returns; the command waits for all of
them. The random numbers of the socket names are interchangeable, so a draw is
one of those drawn before or the next new one. An exception in a task stays in it
until its result is asked for, and then leaves `execCmd()` (`"internal"`).

`NmDaemonProofs`, `ConfFileProofs`, `RcConfProofs`, `Ieee80211Proofs`,
`WpaCtrlProofs`, `WpaNetworksProofs`, `WpaListProofs`, `NetConfigProofs` - the theorems. `MC_NmDaemon`, `MC_WpaNetworks`, `MC_NetConfig`, `MC_RcConf`, `MC_Ieee80211`,
`MC_WpaList` - constants, symmetry and fairness for TLC. A definition
`X_Y` preceded by "Mutant" is a plausible wrong version of `X` that some
property must reject; no specification uses it.

## Runs

| Run | Instance | Shows |
|---|---|---|
| `threads` | two connections, one request each, symmetric | `WorkersExclusive`, `NoUseAfterFree`, `DrainedMeansQuiet` |
| `stream` | one connection, two pieces of any of the four kinds, fair | `FramesWhole`, `ServedInOrder`; `ShutdownBounded` and `ConnectionReclaimed` under fairness |
| `answer` | two connections, one of which stays and reads | `AnsweredIfClientStays`; refinement of `RequestServer` (`ImplementsServer`) |
| `signal` | one connection | *violation* of `SignalEndsProcess`: a signal just before `accept()`, or in another thread, does not end the process |
| `conffile` | three backups, five commands | `RotationShifts`, `LastWholeRecoverable`, `NewestFirst` |
| `wpactrl` | two commands, two events, one stop, fair | `SelectTruthful`, `NetworksRestored`, `CommandEnds` |
| `wpanetworks` | ids 1, 2, 10, names *home* and *homestead*, two commands, one unanswered exchange in each | `AddExact` (all or nothing, and no name twice), `RemoveExact`, `ConnectOrders` |
| `wpanetworks_remove` | one command | *violation* of `RemovesNamed`: WPA_REMOVE by SSID removes a longer name |
| `netconfig` | interfaces *em1* and *em10*, two addresses, two gateways; one command from any state, one act of others | `DisabledNotDefault`, `ClientStopped`, `LosesOnlyMain`, `SetKeepsRoute`, `ListsTruthful` (RT_LIST is one dump; IF_LIST marks as PRIMARY one of the addresses it lists, and the right one), `IfCommandEnds` |
| `rcconf` | addresses of three bits; interfaces *em0*, *em1*, the VLAN *em0.21* and an invalid name, two routes; each request sent twice | `OthersUntouched`, `ReadsBack` (primary addresses, aliases, routes), `WriteBackKeeps`, `RetryHarmless`, `GatewayIsNeighbour` |
| `ieee80211` | two interfaces, five and four channels, four records, two messages in the socket | `FreshScan`, `ReportTruthful`, `StatusTruthful`, `CommandEnds` |
| `wpalist` | two networks, two parameters, one number drawn twice, one file left behind, one stop | `DetailsTrue`, `InternalHasCause`, `ListEnds` |

The runs `wpactrl`, `wpanetworks`, `netconfig` and `wpalist` also check the `TypeOK`
of their module; for every module it is a theorem (see below), as are `ErrorMeansUntouched` of
`ConfFile`, `RoutesDefined` of `RcConf` and `EssidInBuffer` of `Ieee80211`.

**Bounds.** Two connections are enough for two dispatchers to meet at
`work_access` and for one to be deleted while `main()` walks the registry; two
pieces of text let a request follow another, merge with it, or be followed by
an error frame. Three backups and five commands push a text out of the last
slot with one command to spare. In `WpaCtrl` the second command meets what the
first left behind. In `WpaNetworks` the second command works on the networks
the first one made. In `NetConfig` the initial states are all states of two
interfaces, of their DHCP clients and of the routing table (clients and routes on
interfaces that are up, no address on two interfaces), so one command is any
command of a sequence; only what it finds in `errno` takes two. The wait for the
media has two rounds instead of 100. In `RcConf` three bits have a network of more
than one neighbour and masks of every kind; two interfaces are what it takes for
one to leave something to the next, two objects for a primary address and an
alias, and `MAX_ALIASES = 1` leaves one number that is removed and one that is not. In
`Ieee80211` the initial caches are empty and any command may follow any other, without
a bound on their number; `IMAX = 1` lets the wait pass its limit. In `WpaList` two tasks
meet in every order, and one clash of numbers hits a left file, the other task's
socket, or the file that the other removes. Where a bound might hide something, the theorems below do
without it. `MaxSend`, `MaxCmds`, `MaxTries`, `MaxEvents`, `MaxStops`, `MaxLost`, `MaxActs`,
`MaxQueue`, `MaxLeft` and `MaxClashes` are the only bounds, all constants.

**Fairness.** In `NmDaemon`: weak fairness of `main()` and of every thread
(they are scheduled, sleeps end, `execCmd()` returns) and strong fairness of
taking a mutex, justified because each holder sleeps 200 or 500 ms before it
asks again. No fairness of clients, signals, or failing calls. `execCmd()`
returning is what `CommandEnds` shows for WPA commands and for those of scope
WIFI, `ListEnds` for WPA_LIST and `IfCommandEnds` for those of scope INTERFACE and IF_LIST; the
loops of RT_GET and RT_LIST need not end. The `answer` run
adds a client that keeps reading (`Undisturbed` in `MC_NmDaemon`). In `WpaCtrl`:
the worker goes on (all its waits are bounded by counted sleeps) and
wpa_supplicant, while up, handles its queue. In `NetConfig`: the worker goes on,
which includes that `dhclient` goes to the background (`waitpid()` returns). In
`Ieee80211`: the worker goes on, and the kernel falls silent some day (`Quiet`), which the
code needs, because a scan that passes `IMAX` only ends in the time-out of `read()`. In
`WpaList`: the command and every task are scheduled (async++ has its own threads);
nothing is assumed of wpa_supplicant.

**Deadlock** is checked in every run. A process that has exited, or a model
that has used up its bound, stutters explicitly (`Exited`, `Done`), and only then.

## Proofs

Every safety invariant and action property that a passing run checks is a theorem, for
every value of the constants that the named `ASSUME`s admit. The runs show the same on small
instances. Each module has its inductive invariant at its end, as a conjunction of named
parts; TLC checked it on an instance before it was proved. In each proof module there is a lemma for
each part, with a step for each action that can disturb it.

For every set of connections, every set of text kinds and every `MaxSend`
(`NoConn \notin Conns`, `Kinds \subseteq TextKinds`, `MaxSend \in Nat`), module
`NmDaemonProofs` proves `Spec => []P` for `TypeOK`, `WorkersExclusive`,
`NoUseAfterFree`, `DrainedMeansQuiet` and `FramesWhole`. None is inductive. The
invariant `IInv` of `NmDaemon` adds: a serving dispatcher holds a request
(`BusyInv`); `work_access` belongs to the one dispatcher that is executing
(`WorkInv`); object, registration and dispatcher of a connection live through
fixed stretches of its receiver (`LifeInv`); what the shutdown loop has still to
visit is registered, because `main()` holds the mutex that erasing needs
(`MainInv`); the write mutex belongs to the thread that is inside a frame
(`WriteInv`); and the wire is at half a frame exactly when its writer is half
way, unless the client is gone (`WireInv`). `ServedInOrder` needs `OrderInv`
besides: the numbers of a connection's requests grow from what is executed over the one in hand
and the queue to those still to come, and what is answered was executed. With both,
`Refinement` shows `Spec => ImplementsServer`: a step of `NmDaemon` is one of
`RequestServer` under the mapping `Server`, or leaves all that it maps alone.

For every number of backups and of commands (both in `Nat`) `ConfFileProofs`
proves `TypeOK`, `RotationShifts`, `LastWholeRecoverable`, `NewestFirst` and
`ErrorMeansUntouched`. `IInv` of `ConfFile` says where the loop is (`AtIndex`),
what is shifted and what is still untouched (`Shifted`), and in which slot the
last whole text can be at most after so many rotations (`Kept`): a
backup may be one slot further only once the loop has passed it, which is the
argument for why one rotation costs one slot even when it is interrupted.

For every `Width`, every set of interfaces, routes, files and requests of the
types that the assumptions state, and every number of aliases, commands and
retries, `RcConfProofs` proves `TypeOK`, `OthersUntouched`, `RoutesDefined` and
`GatewayIsNeighbour`. `IInv` of `RcConf` says of the records in memory what is to hold of
the file once they are saved: they agree with the file at first read wherever
the request names nothing (`MergeInv`), and what is to be active has a record
(`ActiveInv`); a lemma per step of the merge.

`RetryHarmless` and `ReadsBack`, whose parts are `PrimaryComesBack`, `AliasesComeBack` and
`RoutesComeBack`, take an account of the merge as a whole, `JInv`. `StepsOf(r)` are the rounds
of its loops for a request, in the order `Before`; `Effect` is what a round does to a key: it
stays, it goes, it gets a value. `StepInv` says that memory is what the rounds
behind the merge make of the file, key by key, the last one that does something deciding
(`Merged`), that `isDhcp` is what the last round to set it has set, whichever interface that
was of, and that the active routes are those met so far. When all rounds are done nothing of what they
decide depends on the file they began with; so the file that is written is one that the
same rounds do not change (`Settled`, `SavedInv`), and a key that one round alone
can touch has the value that this round gives it. That makes RCCONF_WRITE idempotent
for every file and request, also when attempts in between fail or the process ends.

For aliases that is not enough. What is read of them is what a loop over all keys of the
file makes of them, with one flag for all interfaces. `Told` is the invariant of that loop: what it has
seen of an interface is its aliases record, or comes from its records with one alias;
`CollectedFrom` is what follows at its end, for every order of the keys. Induction over its
rounds is done with sets: `LeastNumber` (numbers are well-founded, `WFMin`) gives `Rounds`,
which says that a set closed under rounds has all of them, and with it the loop
exists (`LoopExists`) and keeps its invariant. `ChosenFacts` and `ChosenPart` say what is
chosen of a list; they rest on counting positions (`Rank`). Then `AliasesComeBack`
needs that `isDhcp` is off in the second cycle of an interface with a static address
(`StaticIsNotDhcp`), and that no record with one alias is left (`NoSingles`).

`WriteBackKeeps` relates the file to the one before, so `KInv` adds where the file comes
from: what no round touches is as the request found it (`OriginInv`), and the values have
a form that can be read (`FormInv`). The proof of `WritingBackKeeps` goes key by key: each round of
such a request does nothing, or writes the address that was read or the aliases that were read
(`StepKinds`); so defaultrouter and routes are the same, and addresses and aliases are in another
notation but read the same (`MainKept`, `AliasesKept`). Its first form, which
had no condition on alias numbers, was false: see *rc.conf* below.

That the tests of `Tool` mean what
they should is `Gw4Exact` and `Bcast4Exact`, for every mask, contiguous or not;
`GatewayIsNeighbour` follows from the first.

For every set of interfaces, channel tables, records and SSIDs, every `IMAX` and
`NWID_LEN >= 4`, `Ieee80211Proofs` proves `TypeOK`, `FreshScan`, `ReportTruthful`,
`StatusTruthful` and `EssidInBuffer`. `IInv` of `Ieee80211` adds: which variables belong
to which program counter (`PcInv`); the own interface's message is in the socket
only if there was a scan (`FreshInv`), because the socket is opened by the same command
and closed with it; the report is as long as the records dealt with
(`ReportInv`); and what the buffer of WIFI_STATUS may hold after each question
(`StatusInv`). `PromoteKeepsFreq` is about the algorithm alone: each promotion maps
an index to one of the same frequency, and so does one after the other.

For every number of commands, events and stops, `WpaCtrlProofs` proves `TypeOK`,
`SelectTruthful` and `NetworksRestored`. `IInv` of `WpaCtrl` adds: which request a command is at
(`StepInv`); requests lie with the wpa_supplicant that runs (`LinkInv`); a socket starts
empty, so what it says of the connection is of this command (`MineInv`); and while the
networks are gone, or will be once the queue is dealt with, WPA_SCAN is about to
send RECONFIGURE or the reply it waits for is on its way (`FlushInv`). The last one
speaks of the order of requests in the queue, which is what makes it inductive.

For every set of ids (`Ids \subseteq 0..99`), names and relation `Within` that is reflexive,
every number of commands and unanswered exchanges, `WpaNetworksProofs` proves `TypeOK`,
`AddExact`, `RemoveExact` and `ConnectOrders`. `AddInv` follows WPA_ADD: nothing is
touched before the name is known to be free, then there is one network more (`OneMore`), and what is
set and what is still to be set are the parameters of the profile (`Progress`);
`ConnectInv` says which priorities WPA_CONNECT has set at each exchange.

For every non-empty set of networks, every non-empty list of parameters and any clashes, files left
behind and stops, `WpaListProofs` proves `TypeOK`, `InternalHasCause` and
`DetailsTrue`. The argument: numbers are drawn once per task, so with one clash at most no
path is bound by two tasks (`ClashInv`, `RemovalInv`, `FileInv`, `OwnInv`); then a request is
answered to the socket of its task (`QueueInv`, `AnswerInv`), and unless an answer was
late there is one request or answer per task under way, for the parameter it waits for
(`OneAtATime`).

For every set of interfaces, addresses, gateways and a finite set of destinations,
`NetConfigProofs` proves `TypeOK`, `DisabledNotDefault`, `ClientStopped`, `LosesOnlyMain`,
`ListsTruthful` and the action property `SetKeepsRoute`. `CallInv` says which commands make
which call. The proofs rest on frames: which calls may change a variable at all
(`WorkerFrame`), and what DHCP clients and other tools may do between two calls
(`OthersEffect`); with these each part is a case split over few calls: `DownInv` (an
interface that was taken down gets no default route), `StopInv` (the command goes on only
without a client or after SIGKILL), `LossInv`, `DumpInv` (`errno`, once set, never lets RT_LIST
succeed) and `ListInv` (what is listed of one interface stays true while the
others are listed).

Only model-checked: every liveness property, because fairness and ENABLED are out of the
prover's reach (the refinement of `RequestServer` is one of safety).

The assumptions on constants are what the code gives: `NWID_LEN >= 4` is IEEE80211_NWID_LEN,
`SuppParamNames` is a list of texts that is not empty, `Via` gives every gateway an interface, an interface name is
found in itself (`WithinAssumption`), routing tables are finite (`SetsAssumption`), a file of `Files` is a function on
keys whose active routes have records and whose ifconfig_ keys have a word or a list
(`FilesAssumption`).

## What the runs found

1. `main.cpp:237` - the race between the check of `needShutdown` and `accept()`.
2. `nmworkerwpa.cpp:1691` - the tab that should end the SSID is stripped.

Seen while modelling and not given a run.

*Threads.* A dispatcher stops without looking at its queue when a client shuts
down its sending side (`nmdaemon.cpp:170`).

*Files.* Stream errors are never looked at: SUCCESS for a file that could not be
written (`resolvconf.cpp:159`; `ConfFile` has the step). rc.conf is written back without its
comments and without every line that is no assignment (`rest` in `RcConf`). A file that
cannot be loaded is an internal error, because `JSON_RESULT_ERR` is returned as a
`bool` (`rcconf.cpp:515`).

*rc.conf.* A request that only disables routes leaves `static_routes` as it was, and
so the routes enabled (`rcconf.cpp:782`; `doc/commands.md` has the status
DISABLED); `ReadsBack` therefore speaks of requests that enable one. An interface
with DHCP removes the default router that another interface of the same request
has set, as in the example of `doc/commands.md`. Aliases of VLANs are looked up by
a name they are not kept under. One `aliases_processed` stands for all interfaces
(`rcconf.cpp:151`): single alias records of every later interface are
ignored. The last alias number is never removed (`rcconf.cpp:695`): a client that writes
back what it read from a file with *alias0* and number `MAX_ALIASES` gets the aliases record in
place of the first, but the last is still there, and is read instead of the record. An alias
record that says DHCP is no alias that can be written back. `WriteBackKeeps` leaves both out. `isValidIpAddr`
lets IPv6 texts into `inet` records.

*wpa_supplicant.* Early returns of `wpaCtrlCmd` leave the client socket file
behind, and every later `bind()` to that path fails (`nmworkerwpa.cpp:1074`). The reply
to ATTACH is never read, so WPA_SCAN may return the OK of SCAN as an empty table
(`nmworkerwpa.cpp:525`). SAVE_CONFIG, ENABLE_NETWORK, DISABLE_NETWORK and BSSID
count as done when answered with FAIL. Connect A, disconnect, connect B leaves
both at priority 500. `need_reset` of the scan is not cleared for a retry.
`GetWpaNetworkParams` binds one random name and removes another
(`nmworkerwpa.cpp:325`): every WPA_LIST with DETAILS leaves a file per network, and one
task that fails loses the list, because `rt.get()` is outside the `try`
(`nmworkerwpa.cpp:274`). FAIL is reported as the value of a parameter.

*Interfaces and routes.* `errno` is looked at after a call that succeeded, so a
failure of an earlier command fails RT_LIST (`nmworkerroute.cpp:734`), and IF_LIST and
JAIL_LIST always leave one, the error with which `getJails()` ends (`tool.cpp:617`). `execCmdIfDisable`
compares an interface with itself and deletes the default route of any other
(`nmworkersys.cpp:234`). A second IP4_DHCP_ENABLE removes the leased address
(`nmworkerif.cpp:584`). A command for *em1* may stop the DHCP client of *em10*
(`tool.cpp:330`). A list of processes that cannot be read looks like one without
DHCP clients (`tool.cpp:266`).

`findPrimaryAndJailAddress` takes the IPv4 addresses of jails for their IPv6 ones
(`interface.cpp:191`), so an IPv6 address of a jail may be PRIMARY and is never JAIL; the
lease is never empty, so with a DHCP client the address of SIOCGIFADDR is not used
(`tool.cpp:640`). `execCmdIfList` frees the list from its end (`nmworkersys.cpp:80`), which is a leak,
and goes on when `getifaddrs()` has failed.

*802.11.* The scan loop goes on *because* its limit is passed
(`nmworkerieee80211.cpp:121`), then not even the message waited for ends it. Results are asked
for again only while the cache is empty, so that a full cache of an earlier scan is
taken for the new one (`:177`). A network of a frequency without channel
keeps the channel of the network before it (`:245`). Of several SSIDs none of which
can be read one of zeroes is reported (`:531`); `StatusTruthful` leaves that out.

## Not modelled

Waits that are used up by more events than they have rounds; ids in `WpaCtrl`
that are prefixes of each other (that is in `WpaNetworks`); JSON syntax and
the wording of results; what static destructors do to threads that outlive
`main()` (undefined behaviour); a second instance of the daemon; checks of the
configuration at start; sections and case of keys in rc.conf; IPv6 records; the
texts of capabilities, information elements and rates of a scan; descriptions of
media; the JSON of addresses; parameters of jails; `getSuppParams`, which nothing calls.

Vendored code is left out, and is most of the repository: JSON, logging and
`magic_enum` alone are 27,500 of its 39,400 lines of C++, and half of
`inifile.cpp` is its wide-character copy. Of the 10,000 lines of nmdaemon's own, headers,
constants and the JSON of results included, the map covers a good half.

## Plan

1. Done: `NmDaemon` with `RequestServer`, `ConfFile`, `WpaCtrl`, `WpaNetworks`,
   `NetConfig`, `RcConf` with `Addresses`, `Ieee80211`, `WpaList`; proofs for each.
2. `NetConfig`: IPv6, whose addresses are longer than what addIfAddr() copies.
