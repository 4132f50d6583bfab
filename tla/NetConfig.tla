----------------------------- MODULE NetConfig -----------------------------
(***************************************************************************)
(* The commands of NmWorkerIf and NmWorkerRoute, and those of NmWorkerSys  *)
(* that ask the kernel (IF_ENABLE, IF_DISABLE, IF_LIST, JAIL_LIST), over   *)
(* the one state they share: the kernel's interfaces and routing table and *)
(* the DHCP clients.  work_access keeps two commands apart, but a command  *)
(* is several system calls, and DHCP clients and other tools act between   *)
(* any two of them.                                                        *)
(*                                                                         *)
(* One address family; addresses, gateways and destinations are atoms.     *)
(* Commands carry the data the documentation asks for, or are rejected.    *)
(***************************************************************************)
EXTENDS Naturals, FiniteSets

CONSTANTS
    Ifs,       \* names of interfaces
    Within,    \* pairs of names, the first of which is part of the second
    Addrs,     \* addresses
    Gateways,  \* gateways
    Via,       \* the interface behind which a gateway is
    Nets,      \* destinations other than the default one
    None,      \* no address, no gateway
    Localhost, \* 127.0.0.1, which stands for a lease that is not known or listed
    MEDIA_STATUS_MAX_RETRIES,
    MaxCmds,   \* bound: number of commands
    MaxActs    \* bound: acts of others on addresses and routes

ASSUME WithinAssumption ==
    Within \subseteq Ifs \X Ifs /\ \A i \in Ifs : <<i, i>> \in Within
ASSUME SetsAssumption   == Ifs # {} /\ IsFiniteSet(Nets)
ASSUME ViaAssumption    == Via \in [Gateways -> Ifs]
ASSUME NoneAssumption   == 
    None \notin Addrs \cup Gateways \cup {Localhost} /\ Localhost \notin Addrs
ASSUME BoundsAssumption == {MaxCmds, MaxActs, MEDIA_STATUS_MAX_RETRIES} \subseteq Nat

MTU_MAX == 9192
Default == "default"
Dests   == Nets \cup {Default}
Mtus    == {0, 1, MTU_MAX, MTU_MAX + 1}
Errnos  == {"0", "ENOMEM", "other"}
Results == {"none", "SUCCESS", "ERR", "NOTFOUND"}

IfCommands == {"addrSet", "addrAdd", "addrRemove", "addrGet", "mtuSet", "mtuGet",
               "dhcpEnable", "dhcpDisable", "dhcpStatus"}

Command(name, if, addr, mtu, dst, gw) ==
    [name |-> name, if |-> if, addr |-> addr, mtu |-> mtu, dst |-> dst, gw |-> gw]
NoCommand == Command("none", None, None, 0, None, None)
Commands ==
    {Command(n, i, None, 0, None, None) :
        n \in {"enable", "disable", "addrGet", "mtuGet", "dhcpEnable", "dhcpDisable", "dhcpStatus"},
        i \in Ifs}
    \cup {Command(n, i, a, 0, None, None) : n \in {"addrSet", "addrAdd", "addrRemove"}, i \in Ifs, a \in Addrs}
    \cup {Command("mtuSet", i, None, m, None, None) : i \in Ifs, m \in Mtus}
    \cup {Command(n, None, None, 0, d, g) : n \in {"routeSet", "routeDel"}, d \in Dests, g \in Gateways}
    \cup {Command("routeGet", None, None, 0, d, None) : d \in Dests}
    \cup {Command(n, None, None, 0, None, None) : n \in {"defDel", "list", "ifList", "jailList"}}

VARIABLES
    up,      \* IFF_UP of each interface
    addrs,   \* its addresses
    main,    \* the one SIOCGIFADDR returns
    mtu,     \* its MTU
    client,  \* its DHCP client: "off", "on", or the signal it was sent
    routes,  \* gateway of each destination, or None
    acts,    \* number of acts of others
    cmd, pc, \* the command and the call it is at
    cur,     \* spcuraddr of execCmdIpAddrSet, sp_cur_addr of execCmdDHCPEnable,
             \* dhcp_addr of findPrimaryAndJailAddress
    snap,    \* IF_LIST: the addresses that getifaddrs() has returned, until they
             \* are listed
    todo,    \* IF_LIST: interfaces of ifMap that the loop has not come to
    list,    \* IF_LIST: what findPrimaryAndJailAddress has found out
    seen,    \* gateway that getStaticRoute() has found
    retry,   \* rounds of the wait for the media in enableDHCP
    size,    \* size of the buffer of execCmdRouteList
    errno,   \* errno of the thread that carries out the command
    result,  \* result of the command
    dumps,   \* history: routing tables added to the list of routes (2: or more)
    before,  \* history: addrs when the command began
    sent,    \* history: signals sent by the command
    failed,  \* history: the system has refused a call of the command
    cmds     \* number of commands

kernel == <<up, addrs, main, mtu, client, routes, acts>>
iflist == <<snap, todo, list>>
locals == <<cur, seen, retry, size, dumps, before, sent, iflist>>
worker == <<cmd, pc, locals, errno, result, failed, cmds>>
vars   == <<kernel, worker>>


\* An interface of which IF_LIST has not found out anything: its addresses, the
\* lease it has looked for, the primary address, those of jails.
Unlisted == [addrs |-> {}, lease |-> None, primary |-> None, jail |-> {}]

\* The routes that a dump of the table lists.
Table == {d \in Dests : routes[d] # None}

\* The daemon finds interfaces in any state, none with an address of another,
\* and DHCP clients and routes on those that are up.
Init ==
    /\ up \in [Ifs -> BOOLEAN]
    /\ addrs \in {f \in [Ifs -> SUBSET Addrs] :
                    \A i, j \in Ifs : i # j => f[i] \cap f[j] = {}}
    /\ main \in {m \in [Ifs -> Addrs \cup {None}] :
                   \A i \in Ifs : IF addrs[i] = {} THEN m[i] = None ELSE m[i] \in addrs[i]}
    /\ mtu = [i \in Ifs |-> MTU_MAX]
    /\ client \in {c \in [Ifs -> {"off", "on"}] : \A i \in Ifs : c[i] = "on" => up[i]}
    /\ routes \in [Dests -> {g \in Gateways : up[Via[g]]} \cup {None}]
    /\ acts = 0
    /\ cmd = NoCommand /\ pc = "idle" /\ cur = None /\ seen = None /\ retry = 0
    /\ size = 0 /\ errno = "0" /\ result = "none" /\ dumps = 0
    /\ before = addrs /\ sent = {} /\ failed = FALSE /\ cmds = 0
    /\ snap = [i \in Ifs |-> {}] /\ todo = {} /\ list = [i \in Ifs |-> Unlisted]

-----------------------------------------------------------------------------
(* The kernel, DHCP clients and other tools.                               *)

\* Which of its addresses an interface has as its main one is the kernel's
\* affair, and may change with every change of its addresses.
SetAddrs(i, S) ==
    /\ addrs' = [addrs EXCEPT ![i] = S]
    /\ \E a \in IF S = {} THEN {None} ELSE S : main' = [main EXCEPT ![i] = a]

\* A client that has not been killed gets a lease on an interface that is up:
\* it sets an address, and a default route when there is none.
Bind(i) ==
    /\ client[i] \in {"on", "SIGTERM"} /\ up[i]
    /\ \E a \in Addrs : SetAddrs(i, addrs[i] \cup {a})
    /\ \/ routes[Default] # None /\ UNCHANGED routes
       \/ /\ routes[Default] = None
          /\ \E g \in {h \in Gateways : Via[h] = i} : routes' = [routes EXCEPT ![Default] = g]
    /\ UNCHANGED <<up, mtu, client>>

\* A client ends, by itself or because of a signal.
Exit(i) ==
    /\ client[i] # "off"
    /\ client' = [client EXCEPT ![i] = "off"]
    /\ UNCHANGED <<up, addrs, main, mtu, routes>>

\* Somebody else deletes a route.
RouteGone(d) ==
    /\ routes[d] # None
    /\ routes' = [routes EXCEPT ![d] = None]
    /\ UNCHANGED <<up, addrs, main, mtu, client>>

Others ==
    /\ \/ /\ acts < MaxActs
          /\ (\E i \in Ifs : Bind(i)) \/ (\E d \in Dests : RouteGone(d))
          /\ acts' = acts + 1
       \/ (\E i \in Ifs : Exit(i)) /\ UNCHANGED acts
    /\ UNCHANGED worker

-----------------------------------------------------------------------------
(* A command from its text to its result.                                  *)

Goto(p)   == pc' = p /\ UNCHANGED result
Return(r) == pc' = "idle" /\ result' = r

\* A system call succeeds; it fails with an answer (there is no such route);
\* or it fails for a reason of the system's own.
Accepted == UNCHANGED <<errno, failed>>
Negative == errno' = "other" /\ UNCHANGED failed
Refused  == errno' = "other" /\ failed' = TRUE

\* execCmd() of the three workers: the first system call of a command.
FirstCall(name) ==
    CASE name \in {"enable", "disable"}           -> "getFlags"
      [] name \in {"addrSet", "dhcpEnable"}       -> "getMain"
      [] name = "addrAdd"                         -> "addAddr"
      [] name = "addrRemove"                      -> "removeAddr"
      [] name \in {"addrGet", "mtuGet", "dhcpStatus"} -> "query"
      [] name = "mtuSet"                          -> "setMtu"
      [] name = "dhcpDisable"                     -> "look1"
      [] name = "routeSet"                        -> "addRoute"
      [] name = "routeDel"                        -> "delRoute"
      [] name \in {"routeGet", "defDel"}          -> "getRoute"
      [] name = "list"                            -> "listSize"
      [] name = "ifList"                          -> "getIfAddrs"
      [] name = "jailList"                        -> "getJails"

\* The command comes in the thread of the one before, with the errno that one
\* left, or in another thread.
Begin(c) ==
    /\ pc = "idle" /\ cmds < MaxCmds
    /\ cmd' = c /\ cmds' = cmds + 1 /\ before' = addrs
    /\ pc' = FirstCall(c.name) /\ result' = "none"
    /\ cur' = None /\ seen' = None /\ retry' = 0 /\ size' = 0
    /\ errno' \in {errno, "0"}
    /\ dumps' = 0 /\ sent' = {} /\ failed' = FALSE
    /\ snap' = [i \in Ifs |-> {}] /\ todo' = {} /\ list' = [i \in Ifs |-> Unlisted]
    /\ UNCHANGED kernel

\* The data of the command cannot be decoded (interface name, address, MTU).
Reject ==
    /\ pc = "idle" /\ cmds < MaxCmds
    /\ cmd' = NoCommand /\ cmds' = cmds + 1 /\ before' = addrs
    /\ Return("ERR")
    /\ UNCHANGED <<kernel, cur, seen, retry, size, errno, dumps, sent, failed, iflist>>

-----------------------------------------------------------------------------
(* NmWorkerSys: IF_ENABLE, IF_DISABLE.                                     *)

GetFlags ==
    /\ pc = "getFlags"
    /\ \/ Refused /\ Return("ERR")
       \/ Accepted /\ Goto("setFlags")
    /\ UNCHANGED <<up, addrs, main, mtu, client, routes, locals>>

SetFlags ==
    /\ pc = "setFlags"
    /\ \/ Refused /\ Return("ERR") /\ UNCHANGED up
       \/ /\ Accepted
          /\ up' = [up EXCEPT ![cmd.if] = (cmd.name = "enable")]
          /\ IF cmd.name = "enable" THEN Return("SUCCESS") ELSE Goto("getRoute")
    /\ UNCHANGED <<addrs, main, mtu, client, routes, locals>>

\* Mutant of DefaultRouteIf: the name is looked up where it is not, and empty.
DefaultRouteIf_Empty == None

\* default_route_ifname of execCmdIfDisable is taken from the command and not
\* from the route that was found.
DefaultRouteIf == cmd.if

-----------------------------------------------------------------------------
(* NmWorkerRoute: RT_SET, RT_DEF_SET, RT_DEL, RT_DEF_DEL, RT_GET, RT_DEF_GET *)
(* and RT_LIST.                                                            *)

Dst == IF cmd.name \in {"routeSet", "routeDel", "routeGet"} THEN cmd.dst ELSE Default
Gw  == IF cmd.name = "defDel" \/ cmd.name = "disable" THEN seen ELSE cmd.gw

\* getStaticRoute() returns nullptr.  IF_DISABLE asks twice: in
\* execCmdDefRouteGet ("getRoute") and in execCmdDefRouteDel ("getAgain").
NoRouteFound ==
    IF cmd.name = "disable" /\ pc = "getRoute" THEN Return("SUCCESS") ELSE Return("ERR")

\* getStaticRoute() returns a route.
RouteFound ==
    CASE cmd.name = "routeGet" -> Return("SUCCESS")
      [] cmd.name = "disable" /\ pc = "getRoute" ->
            IF DefaultRouteIf = cmd.if THEN Goto("getAgain") ELSE Return("SUCCESS")
      [] OTHER -> Goto("delRoute")

\* getStaticRoute().  The loop around read() waits for the reply to RTM_GET;
\* when that reply is lost it never ends ("deaf").
GetRoute ==
    /\ pc \in {"getRoute", "getAgain"}
    /\ \/ Refused /\ NoRouteFound /\ UNCHANGED seen
       \/ routes[Dst] = None /\ Negative /\ NoRouteFound /\ UNCHANGED seen
       \/ /\ routes[Dst] # None /\ Accepted
          /\ seen' = routes[Dst]
          /\ RouteFound \/ Goto("deaf")
    /\ UNCHANGED <<up, addrs, main, mtu, client, routes, cur, retry, size, dumps, before, sent, iflist>>

\* delStaticRoute(): the kernel deletes the route only if its gateway is Gw.
DelRoute ==
    /\ pc = "delRoute"
    /\ \/ Refused /\ Return("ERR") /\ UNCHANGED routes
       \/ routes[Dst] # Gw /\ Negative /\ Return("ERR") /\ UNCHANGED routes
       \/ /\ routes[Dst] = Gw /\ Accepted
          /\ routes' = [routes EXCEPT ![Dst] = None]
          /\ Return("SUCCESS")
    /\ UNCHANGED <<up, addrs, main, mtu, client, locals>>

\* Mutant of AddRoute: a route that is in the way is deleted, not changed.
AddRoute_DeletesFirst ==
    /\ pc = "addRoute"
    /\ \/ Refused /\ Return("ERR") /\ UNCHANGED routes
       \/ /\ routes[Dst] # None /\ Negative
          /\ routes' = [routes EXCEPT ![Dst] = None] /\ Goto("addRoute")
       \/ /\ routes[Dst] = None /\ Accepted
          /\ routes' = [routes EXCEPT ![Dst] = Gw]
          /\ Return("SUCCESS")
    /\ UNCHANGED <<up, addrs, main, mtu, client, locals>>

\* setStaticRoute(): RTM_ADD, and RTM_CHANGE when there is a route already.
AddRoute ==
    /\ pc = "addRoute"
    /\ \/ Refused /\ Return("ERR") /\ UNCHANGED routes
       \/ routes[Dst] # None /\ Negative /\ Goto("changeRoute") /\ UNCHANGED routes
       \/ /\ routes[Dst] = None /\ Accepted
          /\ routes' = [routes EXCEPT ![Dst] = Gw]
          /\ Return("SUCCESS")
    /\ UNCHANGED <<up, addrs, main, mtu, client, locals>>

ChangeRoute ==
    /\ pc = "changeRoute"
    /\ \/ Refused /\ Return("ERR") /\ UNCHANGED routes
       \/ routes[Dst] = None /\ Negative /\ Return("ERR") /\ UNCHANGED routes
       \/ /\ routes[Dst] # None /\ Accepted
          /\ routes' = [routes EXCEPT ![Dst] = Gw]
          /\ Return("SUCCESS")
    /\ UNCHANGED <<up, addrs, main, mtu, client, locals>>

\* The size of the table, asked for before the first dump and, with errno
\* ENOMEM, before another one.
ListSize ==
    /\ pc \in {"listSize", "listResize"}
    /\ \/ Refused /\ Return("ERR") /\ UNCHANGED size
       \/ Accepted /\ size' = Cardinality(Table) /\ Goto("listDump")
    /\ UNCHANGED <<up, addrs, main, mtu, client, routes, cur, seen, retry, dumps, before, sent, iflist>>

\* sysctl() into the buffer.  Its routes are added to the list; a dump of
\* which too many messages are bad ends the command.
ListDump ==
    /\ pc = "listDump"
    /\ \/ Refused /\ (Goto("listErrno") \/ Return("ERR")) /\ UNCHANGED dumps
       \/ /\ Cardinality(Table) > size
          /\ errno' = "ENOMEM" /\ UNCHANGED <<failed, dumps>> /\ Goto("listErrno")
       \/ /\ Cardinality(Table) <= size /\ Accepted
          /\ dumps' = IF Table = {} \/ dumps = 2 THEN dumps ELSE dumps + 1
          /\ Goto("listErrno")
    /\ UNCHANGED <<up, addrs, main, mtu, client, routes, cur, seen, retry, size, before, sent, iflist>>

\* The end of the loop looks at errno whether or not sysctl() has failed, and
\* a call that succeeds does not set it.
ListErrno ==
    /\ pc = "listErrno"
    /\ \/ errno = "ENOMEM" /\ Goto("listResize")
       \/ errno = "other"  /\ Return("ERR")
       \/ errno = "0"      /\ Return(IF dumps = 0 THEN "NOTFOUND" ELSE "SUCCESS")
    /\ UNCHANGED <<up, addrs, main, mtu, client, routes, locals, errno, failed>>

-----------------------------------------------------------------------------
(* NmWorkerIf: addresses and MTU.                                          *)

\* getMainIfAddr() in execCmdIpAddrSet and execCmdDHCPEnable.
GetMain ==
    /\ pc = "getMain"
    /\ cur' = main[cmd.if]
    /\ IF cur' = None THEN Negative ELSE Accepted
    /\ Goto(CASE cmd.name = "addrSet"    /\ cur' = None -> "addAddr"
              [] cmd.name = "addrSet"    /\ cur' # None -> "look1"
              [] cmd.name = "dhcpEnable" /\ cur' = None -> "lookOn"
              [] cmd.name = "dhcpEnable" /\ cur' # None -> "removeAddr")
    /\ UNCHANGED <<up, addrs, main, mtu, client, routes, seen, retry, size, dumps, before, sent, iflist>>

\* Mutant of Unwanted: the main address is read again when it is removed.
Unwanted_ReadAgain == IF cmd.name = "addrRemove" THEN cmd.addr ELSE main[cmd.if]

\* removeIfAddr(): the address that was read before, or that of the command.
Unwanted == IF cmd.name = "addrRemove" THEN cmd.addr ELSE cur

RemoveAddr ==
    /\ pc = "removeAddr"
    /\ \/ /\ Refused \/ (Unwanted \notin addrs[cmd.if] /\ Negative)
          /\ IF cmd.name = "dhcpEnable" THEN Goto("lookOn") ELSE Return("ERR")
          /\ UNCHANGED <<addrs, main>>
       \/ /\ Unwanted \in addrs[cmd.if] /\ Accepted
          /\ SetAddrs(cmd.if, addrs[cmd.if] \ {Unwanted})
          /\ CASE cmd.name = "addrRemove" -> Return("SUCCESS")
               [] cmd.name = "addrSet"    -> Goto("addAddr")
               [] cmd.name = "dhcpEnable" -> Goto("lookOn")
    /\ UNCHANGED <<up, mtu, client, routes, locals>>

AddAddr ==
    /\ pc = "addAddr"
    /\ \/ Refused /\ Return("ERR") /\ UNCHANGED <<addrs, main>>
       \/ /\ Accepted
          /\ SetAddrs(cmd.if, addrs[cmd.if] \cup {cmd.addr})
          /\ Return("SUCCESS")
    /\ UNCHANGED <<up, mtu, client, routes, locals>>

\* Mutant of ValidMtu: the bound is off by one.
ValidMtu_OffByOne(m) == m > 0 /\ m <= MTU_MAX + 1

ValidMtu(m) == m > 0 /\ m <= MTU_MAX

SetMtu ==
    /\ pc = "setMtu"
    /\ \/ ~ValidMtu(cmd.mtu) /\ Accepted /\ Return("ERR") /\ UNCHANGED mtu
       \/ ValidMtu(cmd.mtu) /\ Refused /\ Return("ERR") /\ UNCHANGED mtu
       \/ /\ ValidMtu(cmd.mtu) /\ Accepted
          /\ mtu' = [mtu EXCEPT ![cmd.if] = cmd.mtu]
          /\ Return("SUCCESS")
    /\ UNCHANGED <<up, addrs, main, client, routes, locals>>

\* IP4_ADDR_GET of an interface without an address.
NoAddress == cmd.name = "addrGet" /\ main[cmd.if] = None

\* IP4_ADDR_GET, MTU_GET, IP4_GET_DHCP_STATUS.
Query ==
    /\ pc = "query"
    /\ \/ Refused /\ Return(IF cmd.name = "dhcpStatus" THEN "SUCCESS" ELSE "ERR")
       \/ NoAddress /\ Negative /\ Return("ERR")
       \/ ~NoAddress /\ Accepted /\ Return("SUCCESS")
    /\ UNCHANGED <<up, addrs, main, mtu, client, routes, locals>>

-----------------------------------------------------------------------------
(* NmWorkerIf: the DHCP client.                                            *)

\* The interface that the command, or the loop of IF_LIST, is about.
Subject == IF cmd.name = "ifList" THEN CHOOSE i \in todo : TRUE ELSE cmd.if

\* The processes that isDHCPEnabled() and getDHCPClientPid() find: dhclients
\* whose title contains the name of the interface.
Clients(i) == {j \in Ifs : client[j] # "off" /\ <<i, j>> \in Within}

\* isDHCPEnabled().  A list of processes that cannot be had looks like one
\* without clients.
FindsClient   == Clients(Subject) # {} /\ Accepted
FindsNoClient == (Clients(Subject) = {} /\ Accepted) \/ Refused

\* termDHCPClient(): the first such process gets the signal, unless the list
\* of processes or kill() fails.
Signal(sig) ==
    \/ /\ \E j \in Clients(cmd.if) :
             client' = [client EXCEPT ![j] = IF @ = "SIGKILL" THEN @ ELSE sig]
       /\ sent' = sent \cup {sig} /\ Accepted
    \/ Clients(cmd.if) # {} /\ Refused /\ UNCHANGED <<client, sent>>

\* No client is left: IP_ADDR_SET goes on, IP4_DHCP_DISABLE is done.
NoClient ==
    /\ FindsNoClient
    /\ IF cmd.name = "addrSet" THEN Goto("removeAddr") ELSE Return("SUCCESS")
    /\ UNCHANGED <<client, sent>>

Look1 ==
    /\ pc = "look1"
    /\ NoClient \/ (Signal("SIGTERM") /\ Goto("look2"))
    /\ UNCHANGED <<up, addrs, main, mtu, routes, cur, seen, retry, size, dumps, before, iflist>>

\* Mutant of Look2: a client that was sent SIGTERM counts as stopped.
Look2_TrustsTerm ==
    /\ pc = "look2" /\ Accepted
    /\ IF cmd.name = "addrSet" THEN Goto("removeAddr") ELSE Return("SUCCESS")
    /\ UNCHANGED <<up, addrs, main, mtu, client, routes, locals>>

\* With SIGKILL sent IP_ADDR_SET goes on, whether or not it helps.
Look2 ==
    /\ pc = "look2"
    /\ \/ NoClient
       \/ Signal("SIGKILL") /\ Goto(IF cmd.name = "addrSet" THEN "removeAddr" ELSE "look3")
    /\ UNCHANGED <<up, addrs, main, mtu, routes, cur, seen, retry, size, dumps, before, iflist>>

Look3 ==
    /\ pc = "look3"
    /\ (FindsNoClient /\ Return("SUCCESS")) \/ (FindsClient /\ Return("ERR"))
    /\ UNCHANGED <<up, addrs, main, mtu, client, routes, locals>>

\* enableDHCP(): a client is there already.
LookOn ==
    /\ pc = "lookOn"
    /\ (FindsClient /\ Return("SUCCESS")) \/ (FindsNoClient /\ Goto("media"))
    /\ UNCHANGED <<up, addrs, main, mtu, client, routes, locals>>

\* Mutant of Media: the count of rounds starts again and again.
Media_Unbounded ==
    /\ pc = "media"
    /\ \/ Goto("spawn") /\ UNCHANGED retry
       \/ retry' = (retry + 1) % (MEDIA_STATUS_MAX_RETRIES + 1) /\ Goto("media")
    /\ UNCHANGED <<up, addrs, main, mtu, client, routes, cur, seen, size, errno, failed, dumps, before, sent, iflist>>

\* enableDHCP(): the wait for the media, whatever state it reports.
Media ==
    /\ pc = "media"
    /\ \/ Goto("spawn") /\ UNCHANGED retry
       \/ retry < MEDIA_STATUS_MAX_RETRIES /\ retry' = retry + 1 /\ Goto("media")
    /\ UNCHANGED <<up, addrs, main, mtu, client, routes, cur, seen, size, errno, failed, dumps, before, sent, iflist>>

\* posix_spawn(), waitpid(): a client is there afterwards, or it has given up
\* (and one that was there stays).
Spawn ==
    /\ pc = "spawn"
    /\ \/ Refused /\ Return("ERR") /\ UNCHANGED client
       \/ /\ Accepted /\ Goto("lookSpawned")
          /\ \/ UNCHANGED client
             \/ client[cmd.if] = "off" /\ client' = [client EXCEPT ![cmd.if] = "on"]
    /\ UNCHANGED <<up, addrs, main, mtu, routes, locals>>

LookSpawned ==
    /\ pc = "lookSpawned"
    /\ (FindsClient /\ Return("SUCCESS")) \/ (FindsNoClient /\ Return("ERR"))
    /\ UNCHANGED <<up, addrs, main, mtu, client, routes, locals>>

-----------------------------------------------------------------------------
(* NmWorkerSys: IF_LIST, JAIL_LIST.                                        *)

\* What addAddress() makes of the list of getifaddrs(): the addresses of every
\* interface.  Their order is the kernel's affair, and the first one any of them.
Snapshot == addrs

\* getifaddrs().  When it fails, the pointer the loop starts from has not been
\* set: the loop finds nothing, or the process ends ("dead").
GetIfAddrs ==
    /\ pc = "getIfAddrs"
    /\ \/ Refused /\ (Return("SUCCESS") \/ Goto("dead")) /\ UNCHANGED <<snap, todo>>
       \/ /\ Accepted /\ Goto("listClient") /\ todo' = Ifs
          /\ snap' = Snapshot
    /\ UNCHANGED <<up, addrs, main, mtu, client, routes, cur, seen, retry, size, dumps, before, sent, list>>

\* The loop over ifMap goes on to the next interface.
NextIf ==
    /\ todo' = todo \ {Subject}
    /\ IF todo' = {} THEN Return("SUCCESS") ELSE Goto("listClient")

\* getLastDHCPLeaseAddress(): the address of the last lease in the file of the
\* interface, which may be of any time, or 127.0.0.1.
LastLease(i) == snap[i] \cup {Localhost}

\* One round: with the link layer address alone that one is the primary one;
\* else the DHCP client is looked for once more (the answer to the first time is
\* only reported) and, if there is one, the lease.
ListClient ==
    /\ pc = "listClient"
    /\ \/ snap[Subject] = {} /\ Accepted /\ NextIf /\ UNCHANGED cur
       \/ /\ snap[Subject] # {} /\ Goto("listMain") /\ UNCHANGED todo
          /\ \/ FindsClient /\ cur' \in LastLease(Subject)
             \/ FindsNoClient /\ cur' = None
    /\ UNCHANGED <<up, addrs, main, mtu, client, routes, seen, retry, size, dumps, before, sent, snap, list>>

\* Mutant of PrimaryAddrs: that the address SIOCGIFADDR has returned is among
\* those listed is not checked.
PrimaryAddrs_Unchecked(own, dhcp_addr, def_addr) ==
    CASE own = {}                              -> {None}
      [] dhcp_addr # None /\ dhcp_addr \in own -> {dhcp_addr}
      [] dhcp_addr = None /\ def_addr # None    -> {def_addr}
      [] OTHER                                 -> own

\* What addr4_primary may be, of the addresses that are not those of jails: the
\* leased one if there is a client, else the one SIOCGIFADDR has returned, else
\* the first.
PrimaryAddrs(own, dhcp_addr, def_addr) ==
    LET wanted == IF dhcp_addr # None THEN dhcp_addr ELSE def_addr
    IN  CASE own = {}       -> {None}
          [] wanted \in own -> {wanted}
          [] OTHER          -> own

\* The addresses among S that getJails() may find in jails, which come and go.
JailAddrs(S) == SUBSET S

\* getJails(), getIfPrimaryAddr4() and the choice.  The loop over the jails ends
\* with an error of jail_get(), which stays in errno.
ListMain ==
    /\ pc = "listMain"
    /\ \E J \in JailAddrs(snap[Subject]), def_addr \in {main[Subject], None} :
          /\ IF def_addr = main[Subject] THEN Negative ELSE Refused
          /\ \E p \in PrimaryAddrs(snap[Subject] \ J, cur, def_addr) :
                list' = [list EXCEPT ![Subject] =
                           [addrs |-> snap[Subject], lease |-> cur, primary |-> p, jail |-> J]]
    /\ NextIf /\ cur' = None /\ snap' = [snap EXCEPT ![Subject] = {}]
    /\ UNCHANGED <<up, addrs, main, mtu, client, routes, seen, retry, size, dumps, before, sent>>

\* JAIL_LIST succeeds whatever the error is with which the loop has ended.
GetJails ==
    /\ pc = "getJails"
    /\ Negative \/ Refused
    /\ Return("SUCCESS")
    /\ UNCHANGED <<up, addrs, main, mtu, client, routes, locals>>

-----------------------------------------------------------------------------
WorkerStep ==
    /\ \/ GetFlags \/ SetFlags
       \/ GetRoute \/ DelRoute \/ AddRoute \/ ChangeRoute
       \/ ListSize \/ ListDump \/ ListErrno
       \/ GetMain \/ RemoveAddr \/ AddAddr \/ SetMtu \/ Query
       \/ Look1 \/ Look2 \/ Look3 \/ LookOn \/ Media \/ Spawn \/ LookSpawned
       \/ GetIfAddrs \/ ListClient \/ ListMain \/ GetJails
    /\ UNCHANGED <<acts, cmd, cmds>>

\* The bound on the commands is used up, the worker waits for ever, or the
\* process has ended.
Done == ((pc = "idle" /\ cmds = MaxCmds) \/ pc \in {"deaf", "dead"}) /\ UNCHANGED vars

Next == (\E c \in Commands : Begin(c)) \/ Reject \/ WorkerStep \/ Others \/ Done

\* The thread of the command is scheduled and its sleeps end.
Spec == Init /\ [][Next]_vars /\ WF_vars(WorkerStep)

-----------------------------------------------------------------------------
(* Properties.                                                             *)

Calls == {"idle", "deaf", "getFlags", "setFlags", "getRoute", "getAgain", "delRoute",
          "addRoute", "changeRoute", "listSize", "listResize", "listDump", "listErrno",
          "getMain", "removeAddr", "addAddr", "setMtu", "query", "look1", "look2",
          "look3", "lookOn", "media", "spawn", "lookSpawned", "getIfAddrs", "listClient",
          "listMain", "getJails", "dead"}

\* Types.  The MTU of an interface stays between 1 and MTU_MAX whatever
\* MTU_SET asks for, and its main address is one it has (none if it has none).
TypeOK ==
    /\ up \in [Ifs -> BOOLEAN] /\ addrs \in [Ifs -> SUBSET Addrs]
    /\ main \in [Ifs -> Addrs \cup {None}]
    /\ \A i \in Ifs : IF addrs[i] = {} THEN main[i] = None ELSE main[i] \in addrs[i]
    /\ mtu \in [Ifs -> 1..MTU_MAX]
    /\ client \in [Ifs -> {"off", "on", "SIGTERM", "SIGKILL"}]
    /\ routes \in [Dests -> Gateways \cup {None}] /\ acts \in 0..MaxActs
    /\ cmd \in Commands \cup {NoCommand} /\ pc \in Calls
    /\ cur \in Addrs \cup {None, Localhost} /\ seen \in Gateways \cup {None}
    /\ retry \in 0..MEDIA_STATUS_MAX_RETRIES /\ size \in 0..Cardinality(Dests)
    /\ errno \in Errnos /\ result \in Results /\ dumps \in 0..2
    /\ before \in [Ifs -> SUBSET Addrs] /\ sent \subseteq {"SIGTERM", "SIGKILL"}
    /\ failed \in BOOLEAN /\ cmds \in 0..MaxCmds
    /\ snap \in [Ifs -> SUBSET Addrs] /\ todo \subseteq Ifs
    /\ list \in [Ifs -> [addrs : SUBSET Addrs, lease : Addrs \cup {None, Localhost}, primary : Addrs \cup {None},
                         jail : SUBSET Addrs]]

Answered(names, r) == pc = "idle" /\ cmd.name \in names /\ result = r

\* After IF_DISABLE has succeeded, no call having been refused, the default
\* route does not lead through the interface, also when its DHCP client is
\* still there: the flag goes down before the route is looked at
\* (execCmdIfDisable).
DisabledNotDefault ==
    Answered({"disable"}, "SUCCESS") /\ ~failed =>
        routes[Default] = None \/ Via[routes[Default]] # cmd.if

\* IP4_DHCP_DISABLE, no call having been refused, succeeds only when the client
\* of the interface is gone, not when it has merely been told to go
\* (execCmdDHCPDisable).
DisabledMeansStopped ==
    Answered({"dhcpDisable"}, "SUCCESS") /\ ~failed => client[cmd.if] = "off"

\* Neither IP_ADDR_SET with an address to replace nor IP4_DHCP_DISABLE ends
\* while a client of the interface is there and SIGKILL has not been tried,
\* unless a call was refused (execCmdIpAddrSet, execCmdDHCPDisable).
EscalatesToKill ==
    /\ ~failed
    /\ (Answered({"addrSet"}, "SUCCESS") /\ cur # None) \/ Answered({"dhcpDisable"}, "ERR")
    => client[cmd.if] = "off" \/ "SIGKILL" \in sent

\* The DHCP client that a command stops is stopped, by force if need be.
ClientStopped == DisabledMeansStopped /\ EscalatesToKill

\* The addresses that are gone since the command began: at most the one that
\* IP_ADDR_REMOVE names, or the one that IP_ADDR_SET and IP4_DHCP_ENABLE have
\* read as the main address, even when a DHCP client has made another address
\* the main one since; and none of another interface (removeIfAddr).
LosesOnlyMain ==
    \A i \in Ifs : \A a \in before[i] \ addrs[i] :
        i = cmd.if /\ a = IF cmd.name = "addrRemove" THEN cmd.addr ELSE cur

\* RT_SET and RT_DEF_SET replace a route without a moment in which there is
\* none (the RTM_CHANGE of setStaticRoute), and touch no other destination.
SetKeepsRoute ==
    [][WorkerStep /\ cmd.name = "routeSet" =>
        \A d \in Dests : routes[d] # None =>
            IF d = cmd.dst THEN routes'[d] \in {routes[d], cmd.gw} ELSE routes'[d] = routes[d]]_vars

\* A list that RT_LIST returns is that of one dump of the table: the loop,
\* which adds the routes of every dump to the same list, may go round for
\* ever but never ends after a second one (execCmdRouteList).
ListIsSnapshot == Answered({"list"}, "SUCCESS") => dumps = 1

\* IF_LIST, whatever has changed since getifaddrs(): of every interface one of
\* the listed IPv4 addresses is the primary one, and none only if all are those
\* of jails; it is never that of a jail; it is the leased one if that is among
\* them; and without a DHCP client or a change it is the one that IP4_ADDR_GET
\* returns and IP_ADDR_SET replaces, unless that is a jail's
\* (findPrimaryAndJailAddress).
Listed(i) ==
    LET own == list[i].addrs \ list[i].jail
        p   == list[i].primary
    IN  /\ IF own = {} THEN p = None ELSE p \in own
        /\ list[i].lease \in own => p = list[i].lease
        /\ acts = 0 /\ ~failed /\ list[i].lease = None /\ main[i] \in own => p = main[i]

PrimaryListed == Answered({"ifList"}, "SUCCESS") => \A i \in Ifs : Listed(i)

\* What the lists of routes and of interfaces say was so at one moment.
ListsTruthful == ListIsSnapshot /\ PrimaryListed

\* Every command of scope INTERFACE ends, whether or not the media ever comes
\* up and clients ever stop, and so does IF_LIST (the waits of enableDHCP, execCmdIpAddrSet and
\* execCmdDHCPDisable are bounded).
IfCommandEnds ==
    (cmd.name \in IfCommands \cup {"ifList"} /\ pc # "idle") ~> (pc \in {"idle", "dead"})

-----------------------------------------------------------------------------
(* The inductive invariant behind the safety properties.                   *)

\* The commands that make a call.
CommandsAt(p) ==
    CASE p \in {"getFlags", "setFlags"}                  -> {"enable", "disable"}
      [] p \in {"getRoute", "deaf"}                      -> {"disable", "routeGet", "defDel"}
      [] p = "getAgain"                                  -> {"disable"}
      [] p = "delRoute"                                  -> {"disable", "routeDel", "defDel"}
      [] p \in {"addRoute", "changeRoute"}               -> {"routeSet"}
      [] p \in {"listSize", "listResize", "listDump", "listErrno"} -> {"list"}
      [] p = "getMain"                                   -> {"addrSet", "dhcpEnable"}
      [] p = "removeAddr"                                -> {"addrSet", "dhcpEnable", "addrRemove"}
      [] p = "addAddr"                                   -> {"addrSet", "addrAdd"}
      [] p = "setMtu"                                    -> {"mtuSet"}
      [] p = "query"                                     -> {"addrGet", "mtuGet", "dhcpStatus"}
      [] p \in {"look1", "look2"}                        -> {"addrSet", "dhcpDisable"}
      [] p = "look3"                                     -> {"dhcpDisable"}
      [] p \in {"lookOn", "media", "spawn", "lookSpawned"} -> {"dhcpEnable"}
      [] p \in {"getIfAddrs", "listClient", "listMain", "dead"} -> {"ifList"}
      [] p = "getJails"                                  -> {"jailList"}
CallInv ==
    /\ pc # "idle" => cmd.name \in CommandsAt(pc) /\ result = "none"
    /\ pc \in {"listClient", "listMain"} => todo # {}

\* Once IF_DISABLE has taken the flag down it stays down, and no DHCP client makes
\* the interface that of the default route again.
DownInv ==
    cmd.name = "disable" =>
        /\ pc \in {"getRoute", "getAgain", "delRoute"} => ~up[cmd.if]
        /\ Answered({"disable"}, "SUCCESS") =>
              ~up[cmd.if] /\ (failed \/ routes[Default] = None \/ Via[routes[Default]] # cmd.if)

\* A command that goes on has found no client or sent SIGKILL.
Gone == client[cmd.if] = "off" \/ "SIGKILL" \in sent
StopInv ==
    ~failed =>
        /\ pc = "look3" => "SIGKILL" \in sent
        /\ cmd.name = "addrSet" /\ pc \in {"removeAddr", "addAddr"} /\ cur # None => Gone

\* An address is lost only when it has been read, or named, before.
Loses == {"addrRemove", "addrSet", "dhcpEnable"}
LossInv ==
    cmd.name \notin Loses \/ pc = "getMain" => \A i \in Ifs : before[i] \subseteq addrs[i]

\* errno, once set, never allows RT_LIST to succeed again.
DumpInv ==
    /\ pc \in {"listSize", "listResize", "listDump"} /\ errno = "0" => dumps = 0
    /\ pc = "listErrno" /\ errno = "0" => dumps <= 1

\* What IF_LIST has found out is so, also before it ends.
ListInv ==
    /\ \A i \in Ifs : Listed(i)
    /\ pc # "idle" /\ cmd.name # "ifList" => list = [i \in Ifs |-> Unlisted]

IInv ==
    /\ TypeOK /\ CallInv /\ DownInv /\ StopInv /\ ClientStopped
    /\ LossInv /\ LosesOnlyMain /\ DumpInv /\ ListIsSnapshot /\ ListInv

=============================================================================
