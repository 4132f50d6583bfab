------------------------------- MODULE RcConf -------------------------------
(***************************************************************************)
(* The contents of rc.conf: RCCONF_WRITE merges interfaces and routes into *)
(* its records, RCCONF_READ decodes them.  The class RcConf with the       *)
(* CIniFile below it; how the file and its backups survive failures is the *)
(* subject of ConfFile.                                                    *)
(*                                                                         *)
(* A file is a partial function from the keys it assigns to their values   *)
(* (of several lines with one key CIniFile keeps the last, as sh does) and *)
(* a flag for everything else that is in it.                               *)
(***************************************************************************)
EXTENDS Addresses, Sequences, FiniteSets

CONSTANTS
    Interfaces,  \* names that isValidIfName() accepts, and others
    BadNames,    \* the others
    Vlans,       \* names with a number behind the last point
    RouteNames,  \* names of routes that isValidName() accepts
    KeyOrder,    \* the ifconfig_ keys in the order of a std::map
    MAX_ALIASES, \* 999
    Files,       \* contents rc.conf may have at first
    Requests,    \* what clients may send
    MaxCmds,     \* bound: requests
    MaxTries     \* bound: times that one request is sent

-----------------------------------------------------------------------------
(* Texts, values and keys                                                  *)

\* The elements of s at the positions T, in their order.
Chosen(s, T) ==
    [n \in 1..Cardinality(T) |-> s[CHOOSE i \in T : Cardinality({j \in T : j <= i}) = n]]

\* What a client may send for an address.  The text of an IPv4 address is
\* its bits: inet_pton() and inet_ntop() go both ways.
Text4(bits) == <<"ip4", bits>>
Ip4Texts    == {Text4(bits) : bits \in Ip4}
Ip6Text     == <<"ip6">>
Dhcp        == <<"WPA SYNCDHCP">>
BadDhcp     == <<"DHCP;">>
Junk        == <<"junk">>
NoText      == <<>>
Texts       == Ip4Texts \cup {Ip6Text, Dhcp, BadDhcp, Junk}

isValidIpAddr(t) == t \in Ip4Texts \cup {Ip6Text}
isDhcpText(t)    == t \in {Dhcp, BadDhcp}
isValidRcWord(t) == t # BadDhcp

\* Masks as they are written in the file.
Dotted(t)  == <<"dotted", t>>
Prefix(n)  == <<"prefix", n>>
Hex(bits)  == <<"hex", bits>>

\* Values of the ifconfig_ keys, of the route_ keys.
Word(t)    == <<"word", t>>
Inet(list) == <<"inet", list>>
Pair(a, m) == [addr |-> a, mask |-> m]
ToHost(a, g)   == [kind |-> "host", addr |-> a, mask |-> Dotted(NoText), gw |-> g]
ToNet(a, m, g) == [kind |-> "net", addr |-> a, mask |-> m, gw |-> g]

Main(i)     == <<"ifconfig", i>>
Aliases(i)  == <<"aliases", i>>
Alias(i, n) == <<"alias", i, n>>
Route(r)    == <<"route", r>>
DefaultRouter == <<"defaultrouter">>
StaticRoutes  == <<"static_routes">>
Other         == <<"other">>

\* ifconfig_<name>_alias<MAX_ALIASES> is a key, too.
IfKeysOf(i) == {Main(i), Aliases(i)} \cup {Alias(i, n) : n \in 0..MAX_ALIASES}
IfKeys    == UNION {IfKeysOf(i) : i \in Interfaces \ BadNames}
RouteKeys == {Route(r) : r \in RouteNames}
Keys      == IfKeys \cup RouteKeys \cup {DefaultRouter, StaticRoutes, Other}

ASSUME NamesAssumption ==
    BadNames \subseteq Interfaces /\ Vlans \subseteq Interfaces \ BadNames
ASSUME BoundsAssumption ==
    MAX_ALIASES \in Nat /\ MaxCmds \in Nat /\ MaxTries \in Nat
ASSUME KeyOrderAssumption ==
    /\ KeyOrder \in Seq(IfKeys)
    /\ \A k \in IfKeys : \E n \in 1..Len(KeyOrder) : KeyOrder[n] = k

\* An address object may lack any of its parts.
AddrObjects ==
    [primary : {"yes", "no", "absent"}, addr : Texts \cup {NoText},
     mask : Texts \cup {NoText}, gw : Texts \cup {NoText}]
RouteObjects ==
    [name : STRING, addr : Texts \cup {NoText}, mask : Texts \cup {NoText},
     gw : Texts \cup {NoText}, enabled : BOOLEAN]
Entries == [name : Interfaces, addrs : Seq(AddrObjects)]

ASSUME RequestsAssumption ==
    \A r \in Requests : r.ifs \in Seq(Entries) /\ r.routes \in Seq(RouteObjects)

\* A file is a function; in one that works, the active routes have a record.
\* What an ifconfig_ key has is a word or a list.
IsFile(f) == f = [k \in DOMAIN f |-> f[k]]
RoutesDefinedIn(f) ==
    StaticRoutes \in DOMAIN f => \A r \in f[StaticRoutes] : Route(r) \in DOMAIN f
Formed(f) ==
    \A k \in IfKeys \cap DOMAIN f : f[k][1] = "word" \/ Len(f[k][2]) \in Nat

ASSUME FilesAssumption ==
    \A f \in Files : IsFile(f) /\ DOMAIN f \subseteq Keys /\ RoutesDefinedIn(f) /\ Formed(f)

-----------------------------------------------------------------------------
(* CIniFile on the only section there is                                   *)

Put(ini, k, v) == [x \in DOMAIN ini \cup {k} |-> IF x = k THEN v ELSE ini[x]]
Drop(ini, ks)  == [x \in DOMAIN ini \ ks |-> ini[x]]

-----------------------------------------------------------------------------
(* RCCONF_READ                                                             *)

\* The mask behind an address, in one of three notations; a prefix of 0 or
\* of too many bits is in none.
MaskReadable(m) ==
    \/ m[1] = "dotted" /\ m[2] \in Ip4Texts
    \/ m[1] = "prefix" /\ m[2] \in PrefixLengths
    \/ m[1] = "hex" /\ m[2] \in Ip4

MaskText(m) ==
    CASE m[1] = "dotted" -> m[2]
      [] m[1] = "prefix" -> Text4(MaskFromPrefix(m[2]))
      [] m[1] = "hex"    -> Text4(m[2])

\* getIpConfFromString: a list of at most one address.
Readable(p) == p.addr \in Ip4Texts /\ MaskReadable(p.mask)
Decoded(p)  == [addr |-> p.addr, mask |-> MaskText(p.mask)]

getIpConfFromString(v) ==
    IF v[1] = "word"
    THEN IF isDhcpText(v[2]) THEN <<[addr |-> v[2], mask |-> NoText]>> ELSE <<>>
    ELSE IF Readable(v[2][1]) THEN <<Decoded(v[2][1])>> ELSE <<>>

\* The addresses of an aliases record.
getAliases(v) ==
    IF v[1] = "word" THEN <<>>
    ELSE LET ok == Chosen(v[2], {n \in 1..Len(v[2]) : Readable(v[2][n])})
         IN  [n \in 1..Len(ok) |-> Decoded(ok[n])]

\* getRouteConfFromString
RouteReadable(v) ==
    v.addr \in Ip4Texts /\ v.gw \in Ip4Texts /\ (v.kind = "host" \/ MaskReadable(v.mask))

getRouteConfFromString(v) ==
    [addr |-> v.addr, gw |-> v.gw,
     mask |-> IF v.kind = "host" THEN Text4(HostMask) ELSE MaskText(v.mask)]

\* One record of the loop that collects aliases; seen is jaliases, done is
\* aliases_processed.  There is one such flag for all interfaces.
CollectOne(ini, acc, k) ==
    IF k \notin DOMAIN ini THEN acc
    ELSE CASE k[1] = "aliases" /\ k[2] \notin DOMAIN acc.seen ->
                [seen |-> Put(acc.seen, k[2], getAliases(ini[k])), done |-> TRUE]
           [] k[1] = "alias" /\ ~acc.done /\ getIpConfFromString(ini[k]) # <<>> ->
                [acc EXCEPT !.seen = Put(acc.seen, k[2],
                    (IF k[2] \in DOMAIN acc.seen THEN acc.seen[k[2]] ELSE <<>>)
                        \o getIpConfFromString(ini[k]))]
           [] OTHER -> acc

\* The loop, after so many of the keys.
CollectLoop(ini) ==
    LET acc[n \in 0..Len(KeyOrder)] ==
            IF n = 0 THEN [seen |-> [i \in {} |-> <<>>], done |-> FALSE]
            ELSE CollectOne(ini, acc[n - 1], KeyOrder[n])
    IN  acc

Collected(ini) == CollectLoop(ini)[Len(KeyOrder)].seen

\* A name with a point is looked up with the point, but kept with a "_".
AliasesOf(ini, i) ==
    IF i \notin Vlans /\ i \in DOMAIN Collected(ini) THEN Collected(ini)[i] ELSE <<>>

\* The default router is shown where it is a neighbour of the address.
GatewayFor(ini, p) ==
    IF /\ DefaultRouter \in DOMAIN ini
       /\ ini[DefaultRouter] \in Ip4Texts
       /\ isValidGw4(p.addr[2], p.mask[2], ini[DefaultRouter][2])
    THEN ini[DefaultRouter] ELSE NoText

\* The address list of an interface, the first and the rest of it, and the
\* gateway, as they are read.
ReadInterface(ini, i) ==
    LET first == getIpConfFromString(ini[Main(i)])[1]
    IN  IF isDhcpText(first.addr)
        THEN [main |-> first, more |-> <<>>, gw |-> NoText]
        ELSE [main |-> first, more |-> AliasesOf(ini, i), gw |-> GatewayFor(ini, first)]

ReadRoute(ini, r) ==
    [data   |-> getRouteConfFromString(ini[Route(r)]),
     status |-> IF StaticRoutes \in DOMAIN ini /\ r \in ini[StaticRoutes]
                THEN "ENABLED" ELSE "DISABLED"]

InterfacesRead(ini) ==
    {i \in Interfaces \ BadNames :
        Main(i) \in DOMAIN ini /\ getIpConfFromString(ini[Main(i)]) # <<>>}
RoutesRead(ini) ==
    {r \in RouteNames : Route(r) \in DOMAIN ini /\ RouteReadable(ini[Route(r)])}

getRcIpConfig(ini) ==
    [ifs    |-> [i \in InterfacesRead(ini) |-> ReadInterface(ini, i)],
     routes |-> [r \in RoutesRead(ini) |-> ReadRoute(ini, r)]]

-----------------------------------------------------------------------------
(* RCCONF_WRITE, one address object, interface or route at a time          *)

VARIABLES
    disk,     \* the records of rc.conf
    rest,     \* it also has comments and other lines that assign nothing
    ini,      \* the records in memory
    req,      \* the request: its interfaces, its routes
    pc,       \* where setRcIpConfig is
    at,       \* the interface or route it is at
    obj,      \* the address object of the interface it is at
    isDhcp,   \* is_dhcp, which outlives the interface that sets it
    active,   \* str_active_routes
    result,   \* result of the last command
    cmds,     \* number of requests
    tries,    \* number of times the last one was sent
    before,   \* history: the records when the request was first sent
    saved     \* history: what its first SUCCESS wrote, if there was one

vars == <<disk, rest, ini, req, pc, at, obj, isDhcp, active, result, cmds,
          tries, before, saved>>

NoRequest == [ifs |-> <<>>, routes |-> <<>>]
NoFile    == [k \in {} |-> NoText]

\* The file is one of Files, with comments.
Init ==
    /\ disk \in Files
    /\ rest = TRUE
    /\ ini = NoFile
    /\ req = NoRequest
    /\ pc = "idle"
    /\ at = 1
    /\ obj = 1
    /\ isDhcp = FALSE
    /\ active = {}
    /\ result = "none"
    /\ cmds = 0
    /\ tries = 0
    /\ before = disk
    /\ saved = {}

Finish(res) == pc' = "idle" /\ result' = res

\* Mutant: is_dhcp is kept in the object from one request to the next.
Begin_KeepsDhcp(r) ==
    /\ ini' = disk
    /\ at' = 1
    /\ obj' = 1
    /\ active' = {}
    /\ r # NoRequest /\ pc' = "if" /\ result' = "none"
    /\ UNCHANGED <<disk, rest, isDhcp>>

\* execCmdRcConfWrite up to the first loop.  The rotation may fail; a file
\* that cannot be loaded is an exception, because JSON_RESULT_ERR is no bool.
Begin(r) ==
    /\ ini' = disk
    /\ at' = 1
    /\ obj' = 1
    /\ isDhcp' = FALSE
    /\ active' = {}
    /\ \/ Finish("ERROR")
       \/ Finish("INTERNAL")
       \/ r # NoRequest /\ pc' = "if" /\ result' = "none"
    /\ UNCHANGED <<disk, rest>>

Write ==
    /\ pc = "idle"
    /\ cmds < MaxCmds
    /\ cmds' = cmds + 1
    /\ tries' = 1
    /\ before' = disk
    /\ saved' = {}
    /\ \E r \in Requests : req' = r /\ Begin(r)

\* The client sends the same request again, whatever became of it.
Retry ==
    /\ pc = "idle"
    /\ cmds > 0
    /\ tries < MaxTries
    /\ tries' = tries + 1
    /\ Begin(req)
    /\ UNCHANGED <<req, cmds, before, saved>>

InWrite == UNCHANGED <<disk, rest, req, result, cmds, tries, before, saved>>

Entry == req.ifs[at]

\* The next interface with a valid name and addresses, or the routes.
BeginIf ==
    /\ pc = "if"
    /\ obj' = 1
    /\ \/ /\ at > Len(req.ifs)
          /\ at' = 1
          /\ pc' = "route"
       \/ /\ at <= Len(req.ifs)
          /\ IF Entry.name \in BadNames \/ Entry.addrs = <<>>
             THEN at' = at + 1 /\ pc' = "if"
             ELSE pc' = "primary" /\ UNCHANGED at
    /\ UNCHANGED <<ini, isDhcp, active>> /\ InWrite

\* The object is a primary address that the first cycle puts into the file.
IsPrimary(o) == o.primary = "yes"
UsableDhcp(o)   == isDhcpText(o.addr) /\ isValidRcWord(o.addr)
UsableStatic(o) ==
    ~isDhcpText(o.addr) /\ isValidIpAddr(o.addr) /\ isValidIpAddr(o.mask)

\* Mutant: is_dhcp is never reset.
PutPrimary_StaysDhcp ==
    /\ pc = "primary"
    /\ \/ /\ obj > Len(Entry.addrs)
          /\ pc' = "aliases"
          /\ UNCHANGED <<ini, isDhcp, obj>>
       \/ /\ obj <= Len(Entry.addrs)
          /\ obj' = obj + 1
          /\ UNCHANGED pc
          /\ LET o == Entry.addrs[obj]
                 k == Main(Entry.name)
             IN  IF ~IsPrimary(o) THEN UNCHANGED <<ini, isDhcp>>
                 ELSE /\ isDhcp' = (isDhcp \/ isDhcpText(o.addr))
                      /\ ini' = CASE UsableDhcp(o) ->
                                       Drop(Put(ini, k, Word(o.addr)), {DefaultRouter})
                                  [] UsableStatic(o) ->
                                       Put(ini, k, Inet(<<Pair(o.addr, Dotted(o.mask))>>))
                                  [] OTHER -> ini
    /\ UNCHANGED <<at, active>> /\ InWrite

\* First cycle.  An object without an address, or without a mask where one
\* is needed, leaves is_dhcp alone; an invalid one does not.  With DHCP the
\* default router goes; without, it is set if the object has a valid one.
PutPrimary ==
    /\ pc = "primary"
    /\ \/ /\ obj > Len(Entry.addrs)
          /\ pc' = "aliases"
          /\ UNCHANGED <<ini, isDhcp, obj>>
       \/ /\ obj <= Len(Entry.addrs)
          /\ obj' = obj + 1
          /\ UNCHANGED pc
          /\ LET o == Entry.addrs[obj]
                 k == Main(Entry.name)
                 static == Put(ini, k, Inet(<<Pair(o.addr, Dotted(o.mask))>>))
             IN  IF ~IsPrimary(o) THEN UNCHANGED <<ini, isDhcp>>
                 ELSE /\ isDhcp' = IF o.addr = NoText THEN isDhcp
                                  ELSE isDhcpText(o.addr) \/ (o.mask = NoText /\ isDhcp)
                      /\ ini' = CASE UsableDhcp(o) ->
                                       Drop(Put(ini, k, Word(o.addr)), {DefaultRouter})
                                  [] UsableStatic(o) ->
                                       IF isValidIpAddr(o.gw)
                                       THEN Put(static, DefaultRouter, o.gw) ELSE static
                                  [] OTHER -> ini
    /\ UNCHANGED <<at, active>> /\ InWrite

\* Mutant: an object has to say that it is not primary.
IsAlias_Explicit(o) == o.primary = "no" /\ isValidIpAddr(o.addr) /\ isValidIpAddr(o.mask)

\* The objects that the second cycle puts into the aliases record; one that
\* does not say whether it is primary is one of them.
IsAlias(o) == ~IsPrimary(o) /\ isValidIpAddr(o.addr) /\ isValidIpAddr(o.mask)

AliasesIn(addrs) == Chosen(addrs, {n \in 1..Len(addrs) : IsAlias(addrs[n])})
AliasPairs(addrs) ==
    LET as == AliasesIn(addrs)
    IN  [n \in 1..Len(as) |-> Pair(as[n].addr, Dotted(as[n].mask))]

\* Mutant: the old records go for every interface.
PutAliases_AllInterfaces ==
    /\ pc = "aliases"
    /\ LET k    == Aliases(Entry.name)
           list == AliasPairs(Entry.addrs)
           new  == IF isDhcp THEN Drop(ini, {k})
                   ELSE IF list = <<>> THEN ini ELSE Put(ini, k, Inet(list))
       IN  ini' = Drop(new, {Alias(i, n) : i \in Interfaces, n \in 0..(MAX_ALIASES - 1)})
    /\ at' = at + 1
    /\ pc' = "if"
    /\ UNCHANGED <<obj, isDhcp, active>> /\ InWrite

\* Second cycle; then the old records with one alias each are removed, but
\* an old aliases record stays when there is nothing to replace it by.
PutAliases ==
    /\ pc = "aliases"
    /\ LET k    == Aliases(Entry.name)
           list == AliasPairs(Entry.addrs)
           new  == IF isDhcp THEN Drop(ini, {k})
                   ELSE IF list = <<>> THEN ini ELSE Put(ini, k, Inet(list))
       IN  ini' = Drop(new, {Alias(Entry.name, n) : n \in 0..(MAX_ALIASES - 1)})
    /\ at' = at + 1
    /\ pc' = "if"
    /\ UNCHANGED <<obj, isDhcp, active>> /\ InWrite

UsableRoute(rt) ==
    /\ rt.name \in RouteNames
    /\ isValidIpAddr(rt.addr) /\ isValidIpAddr(rt.mask) /\ isValidIpAddr(rt.gw)

RouteValue(rt) ==
    IF rt.mask = Text4(HostMask) THEN ToHost(rt.addr, rt.gw)
    ELSE ToNet(rt.addr, Dotted(rt.mask), rt.gw)

PutRoute ==
    /\ pc = "route"
    /\ \/ /\ at > Len(req.routes)
          /\ pc' = "save"
          /\ UNCHANGED <<at, ini, active>>
       \/ /\ at <= Len(req.routes)
          /\ at' = at + 1
          /\ LET rt == req.routes[at]
             IN  IF UsableRoute(rt)
                 THEN /\ active' = IF rt.enabled THEN active \cup {rt.name} ELSE active
                      /\ ini' = Put(ini, Route(rt.name), RouteValue(rt))
                 ELSE UNCHANGED <<active, ini>>
          /\ UNCHANGED pc
    /\ UNCHANGED <<obj, isDhcp>> /\ InWrite

\* static_routes is only touched if a route is to be active.
WithActive(f) == IF active = {} THEN f ELSE Put(f, StaticRoutes, active)

\* The file is written: every record in memory, nothing else.
SaveConf ==
    /\ pc = "save"
    /\ \/ /\ disk' = WithActive(ini)
          /\ rest' = FALSE
          /\ saved' = IF saved = {} THEN {disk'} ELSE saved
          /\ Finish("SUCCESS")
       \/ /\ Finish("ERROR")
          /\ UNCHANGED <<disk, rest, saved>>
    /\ UNCHANGED <<ini, req, at, obj, isDhcp, active, cmds, tries, before>>

\* The process ends before the file is written; a new one starts.
Crash ==
    /\ pc # "idle"
    /\ Finish("none")
    /\ UNCHANGED <<disk, rest, ini, req, at, obj, isDhcp, active, cmds, tries, before, saved>>

\* The bounds are reached.
Done == pc = "idle" /\ cmds = MaxCmds /\ tries = MaxTries /\ UNCHANGED vars

Next ==
    \/ Write \/ Retry \/ BeginIf \/ PutPrimary \/ PutAliases \/ PutRoute
    \/ SaveConf \/ Crash \/ Done

Spec == Init /\ [][Next]_vars

-----------------------------------------------------------------------------
(* Properties                                                              *)

\* Every variable has its type.
TypeOK ==
    /\ DOMAIN disk \subseteq Keys
    /\ DOMAIN ini \subseteq Keys
    /\ DOMAIN before \subseteq Keys
    /\ rest \in BOOLEAN
    /\ pc \in {"idle", "if", "primary", "aliases", "route", "save"}
    /\ at \in Nat \ {0}
    /\ obj \in Nat \ {0}
    /\ pc \in {"primary", "aliases"} => at <= Len(req.ifs) /\ Entry.name \notin BadNames
    /\ isDhcp \in BOOLEAN
    /\ active \subseteq RouteNames
    /\ result \in {"none", "SUCCESS", "ERROR", "INTERNAL"}
    /\ cmds \in Nat
    /\ tries \in Nat

Written == result = "SUCCESS"

\* The keys that a request is about.
Named(r) ==
    {k \in Keys : \/ \E n \in 1..Len(r.ifs) :
                        k = DefaultRouter \/ k \in IfKeysOf(r.ifs[n].name)
                  \/ \E n \in 1..Len(r.routes) :
                        k = StaticRoutes \/ k = Route(r.routes[n].name)}

Agree(f, g, k) ==
    /\ k \in DOMAIN f <=> k \in DOMAIN g
    /\ k \in DOMAIN f => f[k] = g[k]

\* Whatever is sent, however often, and wherever the process ends: the
\* records of interfaces and routes that the request does not name, and those
\* of other services, stay as they are (setRcIpConfig, CIniFile::Save).
OthersUntouched == \A k \in Keys \ Named(req) : Agree(disk, before, k)

\* static_routes names only routes that have a record (setRcIpConfig puts the
\* record of a route in the same step in which it becomes active, and never
\* removes one).
RoutesDefined == RoutesDefinedIn(disk)

\* A request that is sent again after SUCCESS changes nothing.
RetryHarmless == Written => saved = {disk}

\* The entry is the only one for its interface; the object its only primary.
OnlyEntry(n) ==
    /\ req.ifs[n].name \notin BadNames
    /\ \A m \in 1..Len(req.ifs) : req.ifs[m].name = req.ifs[n].name => m = n
OnlyPrimary(addrs, m) == \A x \in 1..Len(addrs) : IsPrimary(addrs[x]) <=> x = m
InNotation4(o) == o.addr \in Ip4Texts /\ o.mask \in Ip4Texts

\* The primary address of an interface, static or DHCP, reads back as it was
\* sent, whatever the other interfaces of the request are.
PrimaryReadsBack ==
    Written => \A n \in 1..Len(req.ifs) :
        LET e == req.ifs[n] IN
        \A m \in 1..Len(e.addrs) :
            LET o == e.addrs[m] IN
            OnlyEntry(n) /\ OnlyPrimary(e.addrs, m) /\ (UsableDhcp(o) \/ InNotation4(o)) =>
                /\ e.name \in InterfacesRead(disk)
                /\ LET got == ReadInterface(disk, e.name) IN
                   IF UsableDhcp(o) THEN got.main = Pair(o.addr, NoText) /\ got.more = <<>>
                   ELSE got.main = Pair(o.addr, o.mask)

\* So do the IPv4 aliases of an interface with a static primary address, in
\* their order and without any of the old ones: also behind an interface with
\* DHCP.  Not so for VLANs, or if the file has an alias number MAX_ALIASES.
AliasesReadBack ==
    Written => \A n \in 1..Len(req.ifs) :
        LET e  == req.ifs[n]
            as == AliasesIn(e.addrs)
            v4 == Chosen(as, {m \in 1..Len(as) : InNotation4(as[m])})
        IN  (/\ OnlyEntry(n) /\ e.name \notin Vlans
             /\ \E m \in 1..Len(e.addrs) : OnlyPrimary(e.addrs, m) /\ InNotation4(e.addrs[m])
             /\ as # <<>>
             /\ Alias(e.name, MAX_ALIASES) \notin DOMAIN before) =>
                ReadInterface(disk, e.name).more =
                    [m \in 1..Len(v4) |-> Pair(v4[m].addr, v4[m].mask)]

\* The route reads back with its mask, also the one to a host, and with the
\* status that was sent.
RouteReadsBack(rt) ==
    /\ rt.name \in RoutesRead(disk)
    /\ ReadRoute(disk, rt.name) =
         [data   |-> [addr |-> rt.addr, mask |-> rt.mask, gw |-> rt.gw],
          status |-> IF rt.enabled THEN "ENABLED" ELSE "DISABLED"]
OnlyRoute(n) ==
    /\ UsableRoute(req.routes[n]) /\ InNotation4(req.routes[n])
    /\ req.routes[n].gw \in Ip4Texts
    /\ \A m \in 1..Len(req.routes) : req.routes[m].name = req.routes[n].name => m = n

\* Every route of a request that enables one reads back.
RoutesReadBack ==
    Written /\ (\E n \in 1..Len(req.routes) :
                    UsableRoute(req.routes[n]) /\ req.routes[n].enabled) =>
        \A n \in 1..Len(req.routes) : OnlyRoute(n) => RouteReadsBack(req.routes[n])

\* What RCCONF_WRITE was sent, RCCONF_READ returns.
ReadsBack == PrimaryReadsBack /\ AliasesReadBack /\ RoutesReadBack

\* The gateway that RCCONF_READ shows with an address is one that it can
\* have: on its network, and neither the network, nor the broadcast address,
\* nor the address itself (isValidGw4).
GatewayIsNeighbour ==
    pc = "idle" => \A i \in InterfacesRead(disk) :
        LET got == ReadInterface(disk, i) IN
        got.gw # NoText =>
            got.gw[2] \in Neighbours(got.main.addr[2], got.main.mask[2])

\* What RCCONF_READ returns, as a request: the primary address is marked,
\* except that of a VLAN.
AsEntry(f, i) ==
    LET got   == ReadInterface(f, i)
        first == [primary |-> IF i \in Vlans THEN "absent" ELSE "yes",
                  addr |-> got.main.addr, mask |-> got.main.mask, gw |-> got.gw]
    IN  [name  |-> i,
         addrs |-> <<first>> \o [n \in 1..Len(got.more) |->
                        [primary |-> "absent", addr |-> got.more[n].addr,
                         mask |-> got.more[n].mask, gw |-> NoText]]]
\* The interfaces may come in any order.
AsRead(r, f) ==
    /\ {r.ifs[n] : n \in 1..Len(r.ifs)} = {AsEntry(f, i) : i \in InterfacesRead(f)}
    /\ r.routes = <<>>

\* A client that writes back what it has read changes nothing that can be
\* read: also not where the file has prefixes, hexadecimal masks or one record
\* per alias.  Not so if one of them, of an interface that is no VLAN, says DHCP
\* or is alias number MAX_ALIASES.
WriteBackKeeps ==
    /\ Written
    /\ AsRead(req, before)
    /\ \A i \in InterfacesRead(before) \ Vlans :
          /\ Alias(i, MAX_ALIASES) \notin DOMAIN before
          /\ \A k \in IfKeysOf(i) \cap DOMAIN before :
                before[k][1] = "word" => ~isDhcpText(before[k][2])
    => getRcIpConfig(disk) = getRcIpConfig(before)

-----------------------------------------------------------------------------
(* What makes the properties inductive (see RcConfProofs)                  *)

RequestOK == req \in Requests \cup {NoRequest}

\* What is in memory differs from the file in what the request names only.
MergeInv == pc # "idle" => \A k \in Keys \ Named(req) : Agree(ini, before, k)

\* It would be a file that works, and so it would be with the new routes.
ActiveInv ==
    pc # "idle" => /\ RoutesDefinedIn(ini)
                   /\ \A r \in active : Route(r) \in DOMAIN ini
                   /\ active # {} => StaticRoutes \in Named(req)

\* The steps of the merge for a request: a round of the first cycle, the second
\* cycle of an interface, a round of the loop over routes; and their order.
StepsAt(r, n) == {<<1, n, m>> : m \in 1..(Len(r.ifs[n].addrs) + 1)}
StepsOf(r) ==
    {<<2, n, 0>> : n \in 1..Len(r.routes)}
    \cup (UNION {StepsAt(r, n) :
        n \in {x \in 1..Len(r.ifs) : r.ifs[x].name \notin BadNames /\ r.ifs[x].addrs # <<>>}})

Before(p, q) ==
    \/ p[1] < q[1]
    \/ p[1] = q[1] /\ (p[2] < q[2] \/ (p[2] = q[2] /\ p[3] < q[3]))

Prior(r, p) == {q \in StepsOf(r) : Before(q, p)}

\* p is a step of S, and no other is later.
IsLast(p, S) == p \in S /\ \A q \in S : ~Before(p, q)

\* The steps that set is_dhcp, and what it is after the steps S.
SetDhcp(r, S) ==
    {p \in S : /\ p[1] = 1 /\ p[3] <= Len(r.ifs[p[2]].addrs)
               /\ LET o == r.ifs[p[2]].addrs[p[3]]
                  IN  IsPrimary(o) /\ o.addr # NoText /\ (isDhcpText(o.addr) \/ o.mask # NoText)}
DhcpAfter(r, S) ==
    \E p \in S : IsLast(p, SetDhcp(r, S)) /\ isDhcpText(r.ifs[p[2]].addrs[p[3]].addr)

\* What a step does to a key: nothing, or give it a value, or take it away.
Stays   == <<"stays">>
Goes    == <<"goes">>
Gets(v) == <<"gets", v>>

PrimaryEffect(i, o, k) ==
    CASE ~IsPrimary(o) -> Stays
      [] IsPrimary(o) /\ UsableDhcp(o) ->
            IF k = Main(i) THEN Gets(Word(o.addr)) ELSE IF k = DefaultRouter THEN Goes ELSE Stays
      [] IsPrimary(o) /\ UsableStatic(o) ->
            IF k = Main(i) THEN Gets(Inet(<<Pair(o.addr, Dotted(o.mask))>>))
            ELSE IF k = DefaultRouter /\ isValidIpAddr(o.gw) THEN Gets(o.gw) ELSE Stays
      [] OTHER -> Stays

AliasEffect(e, dhcp, k) ==
    IF k = Aliases(e.name)
    THEN IF dhcp THEN Goes
         ELSE IF AliasPairs(e.addrs) = <<>> THEN Stays ELSE Gets(Inet(AliasPairs(e.addrs)))
    ELSE IF k \in {Alias(e.name, n) : n \in 0..(MAX_ALIASES - 1)} THEN Goes ELSE Stays

RouteEffect(rt, k) == IF UsableRoute(rt) /\ k = Route(rt.name) THEN Gets(RouteValue(rt)) ELSE Stays

Effect(r, p, k) ==
    IF p[1] = 2 THEN RouteEffect(r.routes[p[2]], k)
    ELSE LET e == r.ifs[p[2]]
         IN  IF p[3] <= Len(e.addrs) THEN PrimaryEffect(e.name, e.addrs[p[3]], k)
             ELSE AliasEffect(e, DhcpAfter(r, Prior(r, p)), k)

Has(f, k, e) == IF e = Goes THEN k \notin DOMAIN f ELSE k \in DOMAIN f /\ e = Gets(f[k])

\* The steps S leave a key alone, or the last one that does not decides about it.
Untouched(r, k, S) == \A p \in S : Effect(r, p, k) = Stays
Decided(r, f, k, S) ==
    \E p \in S : IsLast(p, {q \in S : Effect(r, q, k) # Stays}) /\ Has(f, k, Effect(r, p, k))
Merged(r, f, g, S) ==
    \A k \in Keys : (Untouched(r, k, S) /\ Agree(f, g, k)) \/ Decided(r, f, k, S)

\* Where the merge is, the steps behind it, and the routes they have found active.
Here ==
    CASE pc = "if"      -> <<1, at, 0>>
      [] pc = "primary" -> <<1, at, obj>>
      [] pc = "aliases" -> <<1, at, Len(Entry.addrs) + 1>>
      [] pc = "route"   -> <<2, at, 0>>
      [] pc = "save"    -> <<3, 0, 0>>
Past == Prior(req, Here)
ActiveIn(r, S) ==
    {r.routes[n].name : n \in {x \in 1..Len(r.routes) :
        <<2, x, 0>> \in S /\ UsableRoute(r.routes[x]) /\ r.routes[x].enabled}}

\* What the merge has done so far is what its steps have decided, in their order.
StepInv ==
    pc # "idle" =>
        /\ pc \in {"primary", "aliases"} => Entry.addrs # <<>>
        /\ pc = "primary" => obj <= Len(Entry.addrs) + 1
        /\ Merged(req, ini, disk, Past)
        /\ isDhcp <=> DhcpAfter(req, Past)
        /\ active = ActiveIn(req, Past)

\* A file to which the steps of a request have nothing to add.
Settled(r, f) ==
    /\ \A k \in Keys \ {StaticRoutes} : Untouched(r, k, StepsOf(r)) \/ Decided(r, f, k, StepsOf(r))
    /\ ActiveIn(r, StepsOf(r)) # {} =>
          StaticRoutes \in DOMAIN f /\ f[StaticRoutes] = ActiveIn(r, StepsOf(r))

SavedInv ==
    /\ IsFile(disk) /\ IsFile(ini)
    /\ saved # {} => saved = {disk} /\ Settled(req, disk)
    /\ Written => saved # {} /\ pc = "idle"

IInv ==
    TypeOK /\ RequestOK /\ OthersUntouched /\ RoutesDefined /\ MergeInv /\ ActiveInv

\* With this, also what a file is after SUCCESS.
JInv == IInv /\ StepInv /\ SavedInv

\* Before SUCCESS the file is the one that the request found; what the steps
\* leave alone stays as it was.
OriginInv ==
    /\ saved = {} => disk = before
    /\ saved # {} =>
          /\ \A k \in Keys \ {StaticRoutes} :
                Untouched(req, k, StepsOf(req)) => Agree(disk, before, k)
          /\ ActiveIn(req, StepsOf(req)) = {} => Agree(disk, before, StaticRoutes)

FormInv == Formed(disk) /\ Formed(before)

\* With this, also what has become of the file that the request found.
KInv == JInv /\ OriginInv /\ FormInv

=============================================================================
