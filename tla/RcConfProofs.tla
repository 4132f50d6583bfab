---------------------------- MODULE RcConfProofs ----------------------------
(***************************************************************************)
(* Proofs about Addresses and RcConf, for every width of addresses, every  *)
(* set of names, files and requests, and any number of retries.            *)
(***************************************************************************)
EXTENDS RcConf, WellFoundedInduction, FiniteSetTheorems, TLAPS

-----------------------------------------------------------------------------
(* Addresses                                                               *)

\* Tool::isValidGw4 accepts exactly the addresses that a neighbour may have,
\* for an address that is neither 0 nor that of its network, under any mask
\* but 0, contiguous or not.
THEOREM Gw4Exact ==
    ASSUME NEW addr \in Ip4, NEW mask \in Ip4, NEW gw \in Ip4
    PROVE  isValidGw4(addr, mask, gw) <=>
             /\ mask # {} /\ addr # NetworkAddr(addr, mask)
             /\ gw \in Neighbours(addr, mask)
<1>1. ASSUME isValidGw4(addr, mask, gw)
      PROVE  /\ mask # {} /\ addr # NetworkAddr(addr, mask)
             /\ gw \in Neighbours(addr, mask)
  <2>1. gw \in Network(addr, mask)
    BY <1>1 DEF isValidGw4, Network
  <2>2. gw # addr /\ gw # NetworkAddr(addr, mask) /\ addr # NetworkAddr(addr, mask)
    BY <1>1, Zenon DEF isValidGw4, NetworkAddr
  <2>3. gw # BroadcastAddr(addr, mask)
    <3>1. SUFFICES ASSUME gw = BroadcastAddr(addr, mask)
                   PROVE  gw \ mask = Bits \ mask
      BY <1>1 DEF isValidGw4
    <3> QED BY <3>1, Zenon DEF BroadcastAddr
  <2> QED BY <1>1, <2>1, <2>2, <2>3 DEF isValidGw4, Neighbours
<1>2. ASSUME mask # {}, addr # NetworkAddr(addr, mask), gw \in Neighbours(addr, mask)
      PROVE  isValidGw4(addr, mask, gw)
  <2>1. mask \cap addr = mask \cap gw
    BY <1>2, Zenon DEF Neighbours, Network
  <2>2. addr \ mask # {} /\ addr # {}
    BY <1>2, Zenon DEF NetworkAddr
  <2>3. gw \ mask # {} /\ gw # {}
    <3>1. gw # addr \cap mask
      BY <1>2 DEF Neighbours, NetworkAddr
    <3>2. SUFFICES ASSUME gw \ mask = {} PROVE gw = addr \cap mask
      BY <3>1, Zenon
    <3> QED BY <3>2, <2>1, Zenon
  <2>4. addr \ mask # gw \ mask
    <3>1. gw # addr
      BY <1>2 DEF Neighbours
    <3>2. SUFFICES ASSUME addr \ mask = gw \ mask PROVE gw = addr
      BY <3>1
    <3> QED BY <3>2, <2>1, Zenon
  <2>5. gw \ mask # Bits \ mask
    <3>1. gw # (addr \cap mask) \cup (Bits \ mask)
      BY <1>2 DEF Neighbours, BroadcastAddr
    <3>2. SUFFICES ASSUME gw \ mask = Bits \ mask
                   PROVE  gw = (addr \cap mask) \cup (Bits \ mask)
      BY <3>1
    <3> QED BY <3>2, <2>1, Zenon
  <2> QED BY <1>2, <2>1, <2>2, <2>3, <2>4, <2>5 DEF isValidGw4
<1> QED BY <1>1, <1>2

\* Tool::isValidBcast4 accepts the broadcast address of the network of addr
\* and no other.
THEOREM Bcast4Exact ==
    ASSUME NEW addr \in Ip4, NEW mask \in Ip4, NEW bcast \in Ip4,
           mask # {}, addr # NetworkAddr(addr, mask)
    PROVE  isValidBcast4(addr, mask, bcast) <=> bcast = BroadcastAddr(addr, mask)
<1>1. ASSUME isValidBcast4(addr, mask, bcast) PROVE bcast = BroadcastAddr(addr, mask)
  <2>1. bcast \ mask = Bits \ mask /\ mask \cap addr = mask \cap bcast
    BY <1>1 DEF isValidBcast4
  <2> QED BY <2>1, Zenon DEF BroadcastAddr
<1>2. ASSUME bcast = BroadcastAddr(addr, mask) PROVE isValidBcast4(addr, mask, bcast)
  <2>1. addr \ mask # {} /\ addr # {}
    BY Zenon DEF NetworkAddr
  <2>2. bcast \ mask = Bits \ mask /\ mask \cap addr = mask \cap bcast
    BY <1>2, Zenon DEF BroadcastAddr
  <2>3. bcast # {}
    <3>1. PICK b \in Bits : b \in addr \ mask
      BY <2>1 DEF Ip4
    <3> QED BY <3>1, <2>2, Zenon
  <2> QED BY <2>1, <2>2, <2>3 DEF isValidBcast4
<1> QED BY <1>1, <1>2

\* A mask made from a prefix is contiguous and has that many bits: bit b is
\* in it exactly if it is among the upper ones, and a longer prefix has more.
THEOREM MaskMonotone ==
    ASSUME NEW p \in PrefixLengths, NEW q \in PrefixLengths, p < q
    PROVE  /\ MaskFromPrefix(p) \in Ip4 \ {{}}
           /\ MaskFromPrefix(p) \subseteq MaskFromPrefix(q)
           /\ MaskFromPrefix(p) # MaskFromPrefix(q)
           /\ MaskFromPrefix(Width) = HostMask
<1> USE WidthAssumption DEF PrefixLengths, MaskFromPrefix, Ip4, Bits
<1>1. MaskFromPrefix(p) \in Ip4 /\ MaskFromPrefix(p) \subseteq MaskFromPrefix(q)
  OBVIOUS
<1>2. Width - 1 \in MaskFromPrefix(p)
  OBVIOUS
<1>3. Width - q \in MaskFromPrefix(q) /\ Width - q \notin MaskFromPrefix(p)
  OBVIOUS
<1>4. MaskFromPrefix(Width) = HostMask
  BY DEF HostMask
<1> HIDE DEF MaskFromPrefix
<1> QED BY <1>1, <1>2, <1>3, <1>4

-----------------------------------------------------------------------------
(* Keys and records                                                        *)

\* Records of an interface are neither routes nor the list of active routes.
LEMMA KeysApart ==
    ASSUME NEW i, NEW k \in IfKeysOf(i), NEW r
    PROVE  k # Route(r) /\ k # StaticRoutes
<1>1. k[1] \in {"ifconfig", "aliases", "alias"}
  <2>1. CASE k = Main(i)
    BY <2>1 DEF Main
  <2>2. CASE k = Aliases(i)
    BY <2>2 DEF Aliases
  <2>3. CASE \E n \in 0..MAX_ALIASES : k = Alias(i, n)
    BY <2>3 DEF Alias
  <2> QED BY <2>1, <2>2, <2>3 DEF IfKeysOf
<1>2. Route(r)[1] = "route" /\ StaticRoutes[1] = "static_routes"
  BY DEF Route, StaticRoutes
<1> QED BY <1>1, <1>2

\* Nor is defaultrouter.
LEMMA RoutersApart ==
    ASSUME NEW r
    PROVE  DefaultRouter # StaticRoutes /\ DefaultRouter # Route(r) /\ StaticRoutes # Route(r)
<1>1. DefaultRouter[1] = "defaultrouter" /\ StaticRoutes[1] = "static_routes" /\ Route(r)[1] = "route"
  BY DEF DefaultRouter, StaticRoutes, Route
<1> QED BY <1>1

\* SetKeyValue sets its key and leaves the others.
LEMMA PutFacts ==
    ASSUME NEW f, NEW k, NEW v
    PROVE  /\ DOMAIN Put(f, k, v) = DOMAIN f \cup {k}
           /\ Put(f, k, v)[k] = v
           /\ \A x : x # k => Agree(Put(f, k, v), f, x)
BY DEF Put, Agree

\* RemoveKey takes away its keys and leaves the others.
LEMMA DropFacts ==
    ASSUME NEW f, NEW ks
    PROVE  /\ DOMAIN Drop(f, ks) = DOMAIN f \ ks
           /\ \A x : x \notin ks => Agree(Drop(f, ks), f, x)
BY DEF Drop, Agree

\* Agreement at a key is transitive.
LEMMA AgreeTrans ==
    ASSUME NEW f, NEW g, NEW h, NEW k, Agree(f, g, k), Agree(g, h, k)
    PROVE  Agree(f, h, k)
BY DEF Agree

\* Records that are neither routes nor the list of active ones may change.
LEMMA RoutesKept ==
    ASSUME NEW f, NEW g, RoutesDefinedIn(f), Agree(g, f, StaticRoutes),
           \A r : Agree(g, f, Route(r))
    PROVE  RoutesDefinedIn(g)
BY DEF RoutesDefinedIn, Agree

\* The records that setRcIpConfig writes for an interface are keys of the file.
LEMMA IfKeysAreKeys ==
    ASSUME NEW i \in Interfaces \ BadNames
    PROVE  IfKeysOf(i) \subseteq Keys /\ Main(i) \in IfKeysOf(i) /\ Aliases(i) \in IfKeysOf(i)
           /\ {Alias(i, n) : n \in 0..(MAX_ALIASES - 1)} \subseteq IfKeysOf(i)
<1>1. {Alias(i, n) : n \in 0..(MAX_ALIASES - 1)} \subseteq {Alias(i, n) : n \in 0..MAX_ALIASES}
  BY BoundsAssumption
<1> QED BY <1>1 DEF Keys, IfKeys, IfKeysOf

\* What the request names, by the index at which it does.
LEMMA NamedIf ==
    ASSUME NEW n \in 1..Len(req.ifs), req.ifs[n].name \in Interfaces \ BadNames
    PROVE  IfKeysOf(req.ifs[n].name) \subseteq Named(req) /\ DefaultRouter \in Named(req)
<1>1. IfKeysOf(req.ifs[n].name) \subseteq Keys /\ DefaultRouter \in Keys
  BY IfKeysAreKeys DEF Keys
<1> QED BY <1>1 DEF Named

\* The same for routes.
LEMMA NamedRoute ==
    ASSUME NEW n \in 1..Len(req.routes), req.routes[n].name \in RouteNames
    PROVE  Route(req.routes[n].name) \in Named(req) /\ StaticRoutes \in Named(req)
<1>1. Route(req.routes[n].name) \in Keys /\ StaticRoutes \in Keys
  BY DEF Keys, RouteKeys
<1> QED BY <1>1 DEF Named

\* The requests have the types that RequestsAssumption gives them.
LEMMA RequestTypes ==
    ASSUME RequestOK
    PROVE  req.ifs \in Seq(Entries) /\ req.routes \in Seq(RouteObjects)
<1>1. CASE req \in Requests
  BY <1>1, RequestsAssumption
<1>2. CASE req = NoRequest
  <2>1. req.ifs = <<>> /\ req.routes = <<>>
    BY <1>2 DEF NoRequest
  <2> QED BY <2>1
<1> QED BY <1>1, <1>2 DEF RequestOK

\* In the two cycles an interface with a good name is at hand.
LEMMA EntryTypes ==
    ASSUME IInv, pc \in {"primary", "aliases"}
    PROVE  at \in 1..Len(req.ifs) /\ Entry.name \in Interfaces \ BadNames
<1>1. at \in Nat \ {0} /\ at <= Len(req.ifs) /\ Entry.name \notin BadNames
  BY DEF IInv, TypeOK
<1>2. req.ifs \in Seq(Entries)
  BY RequestTypes DEF IInv
<1>3. Len(req.ifs) \in Nat
  BY <1>2
<1>4. at \in 1..Len(req.ifs)
  BY <1>1, <1>3
<1>5. req.ifs[at] \in Entries
  BY <1>2, <1>4
<1> QED BY <1>1, <1>4, <1>5 DEF Entry, Entries

-----------------------------------------------------------------------------
(* The merge                                                               *)

\* A step that changes memory at keys that the request names, and at none of
\* the routes, keeps the invariants of the merge.
LEMMA MergeStep ==
    ASSUME IInv, pc # "idle", NEW ks \in SUBSET Named(req),
           DOMAIN ini' \subseteq DOMAIN ini \cup ks,
           \A k : k \notin ks => Agree(ini', ini, k),
           StaticRoutes \notin ks, \A r : Route(r) \notin ks,
           UNCHANGED <<disk, req, before, active>>
    PROVE  /\ DOMAIN ini' \subseteq Keys
           /\ OthersUntouched' /\ RoutesDefined' /\ MergeInv' /\ ActiveInv'
<1>1. DOMAIN ini' \subseteq Keys
  BY DEF IInv, TypeOK, Named
<1>2. OthersUntouched' /\ RoutesDefined'
  BY DEF IInv, OthersUntouched, RoutesDefined
<1>3. ASSUME NEW k \in Keys \ Named(req) PROVE Agree(ini', before, k)
  BY <1>3, AgreeTrans DEF IInv, MergeInv
<1>4. RoutesDefinedIn(ini')
  BY RoutesKept DEF IInv, ActiveInv
<1>5. /\ \A r \in active : Route(r) \in DOMAIN ini'
      /\ active # {} => StaticRoutes \in Named(req)
  BY DEF IInv, ActiveInv, Agree
<1> QED BY <1>1, <1>2, <1>3, <1>4, <1>5 DEF MergeInv, ActiveInv

\* A request that begins, with the file just read, keeps the invariant.
LEMMA BeginInv ==
    ASSUME IInv, NEW r \in Requests \cup {NoRequest}, req' = r, Begin(r),
           \A k \in Keys \ Named(r) : Agree(disk, before', k),
           DOMAIN before' \subseteq Keys, cmds' \in Nat, tries' \in Nat
    PROVE  IInv'
<1> USE DEF Begin, Finish
<1>1. TypeOK' /\ RequestOK'
  <2>1. isDhcp' \in BOOLEAN /\ rest' \in BOOLEAN /\ active' \subseteq RouteNames
    BY DEF IInv, TypeOK
  <2>2. /\ DOMAIN disk' \subseteq Keys /\ DOMAIN ini' \subseteq Keys
        /\ at' = 1 /\ obj' = 1 /\ pc' \in {"idle", "if"}
        /\ result' \in {"none", "ERROR", "INTERNAL"}
    BY DEF IInv, TypeOK
  <2> HIDE DEF Begin
  <2> QED BY <2>1, <2>2 DEF TypeOK, RequestOK
<1>2. OthersUntouched' /\ MergeInv'
  BY DEF OthersUntouched, MergeInv
<1>3. RoutesDefined' /\ ActiveInv'
  BY DEF IInv, RoutesDefined, ActiveInv
<1> QED BY <1>1, <1>2, <1>3 DEF IInv

\* So does a round of the cycle over the primary address of an interface,
LEMMA PutPrimaryInv ==
    ASSUME IInv, PutPrimary
    PROVE  IInv'
<1> DEFINE i == Entry.name
           ks == {Main(i), DefaultRouter}
<1>1. at \in 1..Len(req.ifs) /\ i \in Interfaces \ BadNames
  BY EntryTypes DEF PutPrimary
<1>2. ks \subseteq Named(req) /\ StaticRoutes \notin ks /\ \A r : Route(r) \notin ks
  <2>1. Main(i) \in IfKeysOf(i)
    BY DEF IfKeysOf
  <2> QED BY <1>1, <2>1, NamedIf, KeysApart, RoutersApart DEF Entry
<1>3. /\ DOMAIN ini' \subseteq DOMAIN ini \cup ks
      /\ \A k : k \notin ks => Agree(ini', ini, k)
      /\ isDhcp' \in BOOLEAN
  <2>1. CASE ini' = ini /\ isDhcp' = isDhcp
    BY <2>1 DEF IInv, TypeOK, Agree
  <2>2. ASSUME obj <= Len(Entry.addrs), IsPrimary(Entry.addrs[obj]) PROVE <1>3!:
    <3> DEFINE o == Entry.addrs[obj]
               static == Put(ini, Main(i), Inet(<<Pair(o.addr, Dotted(o.mask))>>))
    <3>1. isDhcp' \in BOOLEAN
      BY <2>2 DEF PutPrimary, IInv, TypeOK
    <3>2. \/ ini' = Drop(Put(ini, Main(i), Word(o.addr)), {DefaultRouter})
          \/ ini' = Put(static, DefaultRouter, o.gw)
          \/ ini' = static
          \/ ini' = ini
      BY <2>2 DEF PutPrimary
    <3>3. CASE ini' = Drop(Put(ini, Main(i), Word(o.addr)), {DefaultRouter})
      <4> DEFINE f == Put(ini, Main(i), Word(o.addr))
      <4>1. DOMAIN f = DOMAIN ini \cup {Main(i)} /\ \A x : x # Main(i) => Agree(f, ini, x)
        BY PutFacts
      <4>2. DOMAIN ini' = DOMAIN f \ {DefaultRouter} /\ \A x : x # DefaultRouter => Agree(ini', f, x)
        BY <3>3, DropFacts
      <4> HIDE DEF f
      <4> QED BY <3>1, <4>1, <4>2, AgreeTrans
    <3>4. DOMAIN static = DOMAIN ini \cup {Main(i)} /\ \A x : x # Main(i) => Agree(static, ini, x)
      BY PutFacts
    <3>5. CASE ini' = Put(static, DefaultRouter, o.gw)
      <4>1. /\ DOMAIN ini' = DOMAIN static \cup {DefaultRouter}
            /\ \A x : x # DefaultRouter => Agree(ini', static, x)
        BY <3>5, PutFacts
      <4> HIDE DEF static
      <4> QED BY <3>1, <3>4, <4>1, AgreeTrans
    <3>6. CASE ini' = static
      BY <3>1, <3>4, <3>6
    <3>7. CASE ini' = ini
      BY <3>1, <3>7 DEF Agree
    <3> QED BY <3>2, <3>3, <3>5, <3>6, <3>7
  <2> QED BY <2>1, <2>2 DEF PutPrimary
<1>4. pc # "idle" /\ UNCHANGED <<disk, req, before, active>>
  BY DEF PutPrimary, InWrite
<1>5. /\ DOMAIN ini' \subseteq Keys
      /\ OthersUntouched' /\ RoutesDefined' /\ MergeInv' /\ ActiveInv'
  <2> HIDE DEF ks
  <2> QED BY <1>2, <1>3, <1>4, MergeStep
<1>6. TypeOK' /\ RequestOK'
  <2>1. UNCHANGED <<disk, rest, req, result, cmds, tries, before, at, active>>
    BY DEF PutPrimary, InWrite
  <2>2. pc' \in {"primary", "aliases"} /\ obj' \in {obj, obj + 1}
    BY Zenon DEF PutPrimary
  <2> QED BY <1>1, <1>3, <1>5, <2>1, <2>2 DEF IInv, TypeOK, RequestOK, Entry
<1> QED BY <1>5, <1>6 DEF IInv

\* the cycle over its aliases,
LEMMA PutAliasesInv ==
    ASSUME IInv, PutAliases
    PROVE  IInv'
<1> DEFINE i  == Entry.name
           k  == Aliases(i)
           as == {Alias(i, n) : n \in 0..(MAX_ALIASES - 1)}
           ks == {k} \cup as
<1>1. at \in 1..Len(req.ifs) /\ i \in Interfaces \ BadNames
  BY EntryTypes DEF PutAliases
<1>2. ks \subseteq Named(req) /\ StaticRoutes \notin ks /\ \A r : Route(r) \notin ks
  <2>1. ks \subseteq IfKeysOf(i)
    BY <1>1, IfKeysAreKeys
  <2>2. ks \subseteq Named(req)
    BY <1>1, <2>1, NamedIf DEF Entry
  <2> HIDE DEF ks
  <2> QED BY <2>1, <2>2, KeysApart
<1>3. /\ DOMAIN ini' \subseteq DOMAIN ini \cup ks
      /\ \A x : x \notin ks => Agree(ini', ini, x)
  <2> DEFINE new == IF isDhcp THEN Drop(ini, {k})
                    ELSE IF AliasPairs(Entry.addrs) = <<>> THEN ini
                    ELSE Put(ini, k, Inet(AliasPairs(Entry.addrs)))
  <2>1. ini' = Drop(new, as)
    BY DEF PutAliases
  <2>2. new = Drop(ini, {k}) \/ new = ini \/ new = Put(ini, k, Inet(AliasPairs(Entry.addrs)))
    OBVIOUS
  <2> HIDE DEF new
  <2>3. DOMAIN new \subseteq DOMAIN ini \cup {k} /\ \A x : x # k => Agree(new, ini, x)
    <3>1. CASE new = Drop(ini, {k})
      BY <3>1, DropFacts
    <3>2. CASE new = ini
      BY <3>2 DEF Agree
    <3>3. CASE new = Put(ini, k, Inet(AliasPairs(Entry.addrs)))
      BY <3>3, PutFacts
    <3> QED BY <2>2, <3>1, <3>2, <3>3
  <2> HIDE DEF as
  <2>4. DOMAIN ini' = DOMAIN new \ as /\ \A x : x \notin as => Agree(ini', new, x)
    BY <2>1, DropFacts
  <2> QED BY <2>3, <2>4, AgreeTrans
<1>4. pc # "idle" /\ UNCHANGED <<disk, req, before, active>>
  BY DEF PutAliases, InWrite
<1>5. /\ DOMAIN ini' \subseteq Keys
      /\ OthersUntouched' /\ RoutesDefined' /\ MergeInv' /\ ActiveInv'
  <2> HIDE DEF ks
  <2> QED BY <1>2, <1>3, <1>4, MergeStep
<1>6. TypeOK' /\ RequestOK'
  <2>1. /\ UNCHANGED <<disk, rest, req, result, cmds, tries, before, obj, isDhcp, active>>
        /\ pc' = "if" /\ at' = at + 1
    BY DEF PutAliases, InWrite
  <2> QED BY <1>5, <2>1 DEF IInv, TypeOK, RequestOK
<1> QED BY <1>5, <1>6 DEF IInv

\* a round of the cycle over routes,
LEMMA PutRouteInv ==
    ASSUME IInv, PutRoute
    PROVE  IInv'
<1> DEFINE rt == req.routes[at]
<1>0. /\ UNCHANGED <<disk, rest, req, result, cmds, tries, before, obj, isDhcp>>
      /\ pc = "route" /\ pc' \in {"route", "save"}
      /\ at' \in {at, at + 1}
  BY Zenon DEF PutRoute, InWrite
<1>1. CASE UNCHANGED <<ini, active>>
  <2>1. TypeOK' /\ RequestOK'
    BY <1>0, <1>1 DEF IInv, TypeOK, RequestOK
  <2>2. OthersUntouched' /\ RoutesDefined' /\ MergeInv' /\ ActiveInv'
    BY <1>0, <1>1 DEF IInv, OthersUntouched, RoutesDefined, MergeInv, ActiveInv
  <2> QED BY <2>1, <2>2 DEF IInv
<1>2. CASE /\ at <= Len(req.routes) /\ UsableRoute(rt)
           /\ active' = IF rt.enabled THEN active \cup {rt.name} ELSE active
           /\ ini' = Put(ini, Route(rt.name), RouteValue(rt))
  <2>1. at \in 1..Len(req.routes) /\ rt.name \in RouteNames
    <3>1. Len(req.routes) \in Nat
      BY RequestTypes DEF IInv
    <3> QED BY <3>1, <1>2 DEF IInv, TypeOK, UsableRoute
  <2>2. /\ DOMAIN ini' = DOMAIN ini \cup {Route(rt.name)}
        /\ \A x : x # Route(rt.name) => Agree(ini', ini, x)
    BY <1>2, PutFacts
  <2>3. Route(rt.name) \in Named(req) /\ Route(rt.name) \in Keys /\ StaticRoutes \in Named(req)
    BY <2>1, NamedRoute DEF Named
  <2>4. active' \subseteq active \cup {rt.name}
    BY <1>2
  <2>5. TypeOK' /\ RequestOK'
    BY <1>0, <2>1, <2>2, <2>3, <2>4 DEF IInv, TypeOK, RequestOK
  <2>6. OthersUntouched' /\ RoutesDefined'
    BY <1>0 DEF IInv, OthersUntouched, RoutesDefined
  <2>7. MergeInv'
    <3>1. ASSUME NEW k \in Keys \ Named(req) PROVE Agree(ini', before, k)
      BY <1>0, <3>1, <2>2, <2>3, AgreeTrans DEF IInv, MergeInv
    <3> QED BY <1>0, <3>1 DEF MergeInv
  <2>8. ActiveInv'
    <3>1. Agree(ini', ini, StaticRoutes)
      BY <2>2, RoutersApart
    <3>2. RoutesDefinedIn(ini')
      BY <1>0, <2>2, <3>1 DEF IInv, ActiveInv, RoutesDefinedIn, Agree
    <3> QED BY <1>0, <2>2, <2>3, <2>4, <3>2 DEF IInv, ActiveInv
  <2> QED BY <2>5, <2>6, <2>7, <2>8 DEF IInv
<1> QED BY <1>1, <1>2 DEF PutRoute

\* CIniFile::Save, whole or cut short,
LEMMA SaveConfInv ==
    ASSUME IInv, SaveConf
    PROVE  IInv'
<1>0. /\ UNCHANGED <<ini, req, at, obj, isDhcp, active, cmds, tries, before>>
      /\ pc = "save" /\ pc' = "idle" /\ result' \in {"SUCCESS", "ERROR"}
  BY DEF SaveConf, Finish
<1>1. MergeInv' /\ ActiveInv' /\ RequestOK'
  BY <1>0 DEF IInv, MergeInv, ActiveInv, RequestOK
<1>2. CASE UNCHANGED <<disk, rest>>
  <2>1. TypeOK'
    BY <1>0, <1>2 DEF IInv, TypeOK
  <2>2. OthersUntouched' /\ RoutesDefined'
    BY <1>0, <1>2 DEF IInv, OthersUntouched, RoutesDefined
  <2> QED BY <1>1, <2>1, <2>2 DEF IInv
<1>3. CASE disk' = WithActive(ini) /\ rest' = FALSE
  <2>1. \A k \in Keys \ Named(req) : Agree(ini, before, k)
    BY <1>0 DEF IInv, MergeInv
  <2>2. /\ RoutesDefinedIn(ini) /\ \A r \in active : Route(r) \in DOMAIN ini
        /\ active # {} => StaticRoutes \in Named(req)
    BY <1>0 DEF IInv, ActiveInv
  <2>3. CASE active = {}
    <3>1. disk' = ini
      BY <1>3, <2>3 DEF WithActive
    <3>2. TypeOK'
      BY <1>0, <1>3, <3>1 DEF IInv, TypeOK
    <3>3. OthersUntouched' /\ RoutesDefined'
      BY <1>0, <2>1, <2>2, <3>1 DEF OthersUntouched, RoutesDefined
    <3> QED BY <1>1, <3>2, <3>3 DEF IInv
  <2>4. CASE active # {}
    <3>1. /\ DOMAIN disk' = DOMAIN ini \cup {StaticRoutes}
          /\ disk'[StaticRoutes] = active
          /\ \A x : x # StaticRoutes => Agree(disk', ini, x)
      BY <1>3, <2>4, PutFacts DEF WithActive
    <3>2. TypeOK'
      BY <1>0, <1>3, <3>1 DEF IInv, TypeOK, Keys
    <3>3. OthersUntouched'
      <4>1. ASSUME NEW k \in Keys \ Named(req) PROVE Agree(disk', before, k)
        BY <4>1, <2>1, <2>2, <2>4, <3>1, AgreeTrans
      <4> QED BY <1>0, <4>1 DEF OthersUntouched
    <3>4. RoutesDefined'
      BY <2>2, <3>1 DEF RoutesDefined, RoutesDefinedIn
    <3> QED BY <1>1, <3>2, <3>3, <3>4 DEF IInv
  <2> QED BY <2>3, <2>4
<1> QED BY <1>2, <1>3 DEF SaveConf

\* and the step to the next interface.
LEMMA BeginIfInv ==
    ASSUME IInv, BeginIf
    PROVE  IInv'
<1>0. /\ UNCHANGED <<disk, rest, ini, req, isDhcp, active, result, cmds, tries, before>>
      /\ pc = "if" /\ obj' = 1
  BY DEF BeginIf, InWrite
<1>1. OthersUntouched' /\ RoutesDefined' /\ MergeInv' /\ ActiveInv' /\ RequestOK'
  BY <1>0 DEF IInv, OthersUntouched, RoutesDefined, MergeInv, ActiveInv, RequestOK
<1>2. TypeOK'
  <2>1. CASE at' = 1 /\ pc' = "route"
    BY <1>0, <2>1 DEF IInv, TypeOK
  <2>2. CASE at' = at + 1 /\ pc' = "if"
    BY <1>0, <2>2 DEF IInv, TypeOK
  <2>3. CASE at' = at /\ pc' = "primary" /\ at <= Len(req.ifs) /\ Entry.name \notin BadNames
    BY <1>0, <2>3 DEF IInv, TypeOK, Entry
  <2> QED BY <2>1, <2>2, <2>3 DEF BeginIf
<1> QED BY <1>1, <1>2 DEF IInv

\* The invariant holds at first, with any file of Files.
LEMMA InitInv == Init => IInv
<1> SUFFICES ASSUME Init PROVE IInv
  OBVIOUS
<1>1. DOMAIN disk \subseteq Keys /\ RoutesDefinedIn(disk)
  BY FilesAssumption DEF Init
<1>2. isDhcp \in BOOLEAN /\ rest \in BOOLEAN /\ DOMAIN ini = {}
  BY DEF Init, NoFile
<1>3. TypeOK /\ RequestOK
  BY <1>1, <1>2 DEF Init, TypeOK, RequestOK
<1>4. OthersUntouched /\ RoutesDefined /\ MergeInv /\ ActiveInv
  BY <1>1 DEF Init, OthersUntouched, RoutesDefined, MergeInv, ActiveInv, Agree
<1> QED BY <1>3, <1>4 DEF IInv

\* Every action keeps it.
LEMMA NextInv == IInv /\ [Next]_vars => IInv'
<1> SUFFICES ASSUME IInv, [Next]_vars PROVE IInv'
  OBVIOUS
<1>1. CASE Write
  <2>1. PICK r \in Requests : req' = r /\ Begin(r)
    BY <1>1 DEF Write
  <2>2. /\ \A k \in Keys \ Named(r) : Agree(disk, before', k)
        /\ DOMAIN before' \subseteq Keys /\ cmds' \in Nat /\ tries' \in Nat
    BY <1>1 DEF Write, Agree, IInv, TypeOK
  <2> QED BY <2>1, <2>2, BeginInv
<1>2. CASE Retry
  <2>1. /\ req \in Requests \cup {NoRequest} /\ req' = req
        /\ \A k \in Keys \ Named(req) : Agree(disk, before', k)
        /\ DOMAIN before' \subseteq Keys /\ cmds' \in Nat /\ tries' \in Nat
    BY <1>2 DEF Retry, IInv, TypeOK, RequestOK, OthersUntouched
  <2> QED BY <1>2, <2>1, BeginInv DEF Retry
<1>3. CASE BeginIf
  BY <1>3, BeginIfInv
<1>4. CASE PutPrimary
  BY <1>4, PutPrimaryInv
<1>5. CASE PutAliases
  BY <1>5, PutAliasesInv
<1>6. CASE PutRoute
  BY <1>6, PutRouteInv
<1>7. CASE SaveConf
  BY <1>7, SaveConfInv
<1>8. CASE Crash
  <2>1. TypeOK' /\ RequestOK'
    BY <1>8 DEF IInv, TypeOK, RequestOK, Crash, Finish
  <2>2. OthersUntouched' /\ RoutesDefined' /\ MergeInv' /\ ActiveInv'
    BY <1>8 DEF IInv, OthersUntouched, RoutesDefined, MergeInv, ActiveInv, Crash, Finish
  <2> QED BY <2>1, <2>2 DEF IInv
<1>9. CASE UNCHANGED vars
  <2>1. TypeOK' /\ RequestOK'
    BY <1>9 DEF IInv, TypeOK, RequestOK, vars, Entry
  <2>2. OthersUntouched' /\ RoutesDefined' /\ MergeInv' /\ ActiveInv'
    BY <1>9 DEF IInv, OthersUntouched, RoutesDefined, MergeInv, ActiveInv, vars
  <2> QED BY <2>1, <2>2 DEF IInv
<1> QED BY <1>1, <1>2, <1>3, <1>4, <1>5, <1>6, <1>7, <1>8, <1>9 DEF Next, Done

\* And so it holds in every reachable state.
LEMMA Invariance == Spec => []IInv
BY InitInv, NextInv, PTL DEF Spec

\* Every variable of RcConf has its type at all times.
THEOREM TypeCorrect == Spec => []TypeOK
<1>1. IInv => TypeOK
  BY DEF IInv
<1> QED BY Invariance, <1>1, PTL

\* setRcIpConfig, run to its end, repeated or cut short, leaves all records
\* alone that its request does not name.
THEOREM OthersStay == Spec => []OthersUntouched
<1>1. IInv => OthersUntouched
  BY DEF IInv
<1> QED BY Invariance, <1>1, PTL

\* In no file that setRcIpConfig writes is a route active without a record.
THEOREM RoutesStayDefined == Spec => []RoutesDefined
<1>1. IInv => RoutesDefined
  BY DEF IInv
<1> QED BY Invariance, <1>1, PTL

\* What a mask is read as is an address.
LEMMA MaskTextType ==
    ASSUME NEW m, MaskReadable(m)
    PROVE  MaskText(m) \in Ip4Texts
<1>1. CASE m[1] = "dotted"
  BY <1>1 DEF MaskReadable, MaskText
<1>2. CASE m[1] = "prefix"
  BY <1>2 DEF MaskReadable, MaskText, MaskFromPrefix, Ip4Texts, Ip4
<1>3. CASE m[1] = "hex"
  BY <1>3 DEF MaskReadable, MaskText, Ip4Texts
<1> QED BY <1>1, <1>2, <1>3 DEF MaskReadable

\* The bits of an address text are an address of the module Addresses.
LEMMA TextBits ==
    ASSUME NEW t \in Ip4Texts
    PROVE  t[2] \in Ip4
BY DEF Ip4Texts, Text4

\* The gateway that getRcIpConfig shows is a neighbour of the address, in
\* every file whatever its history.
THEOREM GatewayCorrect == Spec => []GatewayIsNeighbour
<1>1. GatewayIsNeighbour
  <2> SUFFICES ASSUME NEW i \in InterfacesRead(disk), ReadInterface(disk, i).gw # NoText
               PROVE  LET got == ReadInterface(disk, i)
                      IN  got.gw[2] \in Neighbours(got.main.addr[2], got.main.mask[2])
    BY DEF GatewayIsNeighbour
  <2> DEFINE v     == disk[Main(i)]
             first == getIpConfFromString(v)[1]
             gw    == GatewayFor(disk, first)
  <2>1. getIpConfFromString(v) # <<>>
    BY DEF InterfacesRead
  <2>2. /\ ~isDhcpText(first.addr)
        /\ ReadInterface(disk, i) = [main |-> first, more |-> AliasesOf(disk, i), gw |-> gw]
    BY DEF ReadInterface
  <2>3. first.addr \in Ip4Texts /\ first.mask \in Ip4Texts
    <3>1. CASE v[1] = "word"
      BY <2>1, <2>2, <3>1 DEF getIpConfFromString
    <3>2. CASE v[1] # "word"
      <4>1. Readable(v[2][1]) /\ first = Decoded(v[2][1])
        BY <2>1, <3>2 DEF getIpConfFromString
      <4> QED BY <4>1, MaskTextType DEF Readable, Decoded
    <3> QED BY <3>1, <3>2
  <2>4. gw = disk[DefaultRouter] /\ gw \in Ip4Texts /\ isValidGw4(first.addr[2], first.mask[2], gw[2])
    <3>1. gw # NoText
      BY <2>2
    <3> QED BY <3>1 DEF GatewayFor
  <2>5. gw[2] \in Neighbours(first.addr[2], first.mask[2])
    BY <2>3, <2>4, TextBits, Gw4Exact
  <2> QED BY <2>2, <2>5
<1> QED BY <1>1, PTL

-----------------------------------------------------------------------------
(* The steps of the merge and their order                                  *)

\* Where the merge may be.
Positions == Nat \X Nat \X Nat

\* Before is a total order.
LEMMA Order ==
    ASSUME NEW p \in Positions, NEW q \in Positions
    PROVE  ~Before(p, p) /\ ~(Before(p, q) /\ Before(q, p)) /\ (p = q \/ Before(p, q) \/ Before(q, p))
BY DEF Positions, Before

\* What RequestsAssumption says of a request.
GoodRequest(r) == r.ifs \in Seq(Entries) /\ r.routes \in Seq(RouteObjects)

\* The two kinds of steps of a request.
IfStep(r, p) ==
    /\ p[1] = 1 /\ p[2] \in 1..Len(r.ifs) /\ p[3] \in 1..(Len(r.ifs[p[2]].addrs) + 1)
    /\ r.ifs[p[2]].name \notin BadNames /\ r.ifs[p[2]].addrs # <<>>
RouteStep(r, p) == p[1] = 2 /\ p[2] \in 1..Len(r.routes) /\ p[3] = 0

\* What is known of an interface of a request.
LEMMA EntryOf ==
    ASSUME NEW r, GoodRequest(r), NEW n \in 1..Len(r.ifs)
    PROVE  r.ifs[n].name \in Interfaces /\ r.ifs[n].addrs \in Seq(AddrObjects) /\ Len(r.ifs[n].addrs) \in Nat
<1>1. r.ifs[n] \in Entries
  BY DEF GoodRequest
<1> QED BY <1>1 DEF Entries

\* StepsOf, by what its members are.
LEMMA StepsFacts ==
    ASSUME NEW r, GoodRequest(r)
    PROVE  /\ StepsOf(r) \subseteq Positions
           /\ \A p \in Positions : p \in StepsOf(r) <=> IfStep(r, p) \/ RouteStep(r, p)
<1>1. Len(r.ifs) \in Nat /\ Len(r.routes) \in Nat
  BY DEF GoodRequest
<1>2. ASSUME NEW p \in StepsOf(r) PROVE p \in Positions /\ (IfStep(r, p) \/ RouteStep(r, p))
  <2>1. CASE \E n \in 1..Len(r.routes) : p = <<2, n, 0>>
    BY <1>1, <2>1 DEF Positions, RouteStep
  <2>2. ASSUME NEW n \in 1..Len(r.ifs), r.ifs[n].name \notin BadNames, r.ifs[n].addrs # <<>>,
               NEW m \in 1..(Len(r.ifs[n].addrs) + 1), p = <<1, n, m>>
        PROVE  p \in Positions /\ (IfStep(r, p) \/ RouteStep(r, p))
    <3>1. Len(r.ifs[n].addrs) \in Nat
      BY EntryOf
    <3> QED BY <1>1, <2>2, <3>1 DEF Positions, IfStep
  <2>3. \/ \E n \in 1..Len(r.routes) : p = <<2, n, 0>>
        \/ \E n \in {x \in 1..Len(r.ifs) : r.ifs[x].name \notin BadNames /\ r.ifs[x].addrs # <<>>} :
              p \in StepsAt(r, n)
    BY <1>2 DEF StepsOf
  <2> QED BY <2>1, <2>2, <2>3 DEF StepsAt
<1>3. ASSUME NEW p \in Positions, IfStep(r, p) PROVE p \in StepsOf(r)
  <2>1. p = <<1, p[2], p[3]>>
    BY <1>3 DEF Positions, IfStep
  <2>2. p \in StepsAt(r, p[2])
    BY <1>3, <2>1 DEF IfStep, StepsAt
  <2> QED BY <1>3, <2>2 DEF IfStep, StepsOf
<1>4. ASSUME NEW p \in Positions, RouteStep(r, p) PROVE p \in StepsOf(r)
  <2>1. p = <<2, p[2], 0>>
    BY <1>4 DEF Positions, RouteStep
  <2>2. p \in {<<2, n, 0>> : n \in 1..Len(r.routes)}
    BY <1>4, <2>1 DEF RouteStep
  <2> QED BY <2>2 DEF StepsOf
<1> QED BY <1>2, <1>3, <1>4

\* A key that has what a step has given it, in two files, is the same in both.
LEMMA HasSame ==
    ASSUME NEW f, NEW g, NEW k, NEW e, Has(f, k, e), Has(g, k, e)
    PROVE  Agree(f, g, k)
BY DEF Has, Agree, Gets

\* What an effect on a key makes of f is what h is there.
Carried(f, h, k, e) == IF e = Stays THEN Agree(h, f, k) ELSE Has(h, k, e)

\* One more step.
LEMMA MergedStep ==
    ASSUME NEW r, NEW f, NEW g, NEW h, NEW S \in SUBSET Positions, NEW p \in Positions,
           Merged(r, f, g, S), \A q \in S : Before(q, p),
           \A k \in Keys : Carried(f, h, k, Effect(r, p, k))
    PROVE  Merged(r, h, g, S \cup {p})
<1> SUFFICES ASSUME NEW k \in Keys
             PROVE  (Untouched(r, k, S \cup {p}) /\ Agree(h, g, k)) \/ Decided(r, h, k, S \cup {p})
  BY DEF Merged
<1>0. Carried(f, h, k, Effect(r, p, k))
  OBVIOUS
<1> DEFINE T == {q \in S : Effect(r, q, k) # Stays}
           U == {q \in S \cup {p} : Effect(r, q, k) # Stays}
<1>1. CASE Effect(r, p, k) # Stays
  <2>1. IsLast(p, U)
    BY <1>1, Order DEF IsLast
  <2> QED BY <1>0, <1>1, <2>1 DEF Decided, Carried
<1>2. CASE Effect(r, p, k) = Stays
  <2>1. Agree(h, f, k) /\ T = U
    BY <1>0, <1>2 DEF Carried
  <2>2. CASE Untouched(r, k, S) /\ Agree(f, g, k)
    BY <1>2, <2>1, <2>2, AgreeTrans DEF Untouched
  <2>3. CASE Decided(r, f, k, S)
    <3>1. PICK q \in S : IsLast(q, T) /\ Has(f, k, Effect(r, q, k))
      BY <2>3 DEF Decided
    <3>2. Has(h, k, Effect(r, q, k))
      BY <2>1, <3>1 DEF Has, Agree
    <3> QED BY <2>1, <3>1, <3>2 DEF Decided
  <2> QED BY <2>2, <2>3 DEF Merged
<1> QED BY <1>1, <1>2

\* The steps of a request, done once more on the file that they have made.
LEMMA MergeTwice ==
    ASSUME NEW r, NEW f, NEW h, NEW S \in SUBSET Positions, NEW k \in Keys,
           Untouched(r, k, S) \/ Decided(r, f, k, S), Merged(r, h, f, S)
    PROVE  Agree(h, f, k)
<1> DEFINE T == {q \in S : Effect(r, q, k) # Stays}
<1>1. CASE Untouched(r, k, S)
  BY <1>1 DEF Merged, Decided, IsLast, Untouched
<1>2. CASE Decided(r, f, k, S) /\ Decided(r, h, k, S)
  <2>1. PICK p \in S : IsLast(p, T) /\ Has(f, k, Effect(r, p, k))
    BY <1>2 DEF Decided
  <2>2. PICK q \in S : IsLast(q, T) /\ Has(h, k, Effect(r, q, k))
    BY <1>2 DEF Decided
  <2>3. p = q
    BY <2>1, <2>2, Order DEF IsLast
  <2> QED BY <2>1, <2>2, <2>3, HasSame
<1> QED BY <1>1, <1>2 DEF Merged

\* The steps behind each place of the merge.
LEMMA PriorIfs ==
    ASSUME NEW r, GoodRequest(r), NEW n \in Nat \ {0}
    PROVE  /\ Prior(r, <<1, 1, 0>>) = {}
           /\ Prior(r, <<1, n, 1>>) = Prior(r, <<1, n, 0>>)
           /\ n > Len(r.ifs) => Prior(r, <<2, 1, 0>>) = Prior(r, <<1, n, 0>>)
           /\ n <= Len(r.ifs) /\ (r.ifs[n].name \in BadNames \/ r.ifs[n].addrs = <<>>) =>
                 Prior(r, <<1, n + 1, 0>>) = Prior(r, <<1, n, 0>>)
<1> USE StepsFacts DEF Prior, Before
<1>0. Len(r.ifs) \in Nat
  BY DEF GoodRequest
<1> USE DEF IfStep, RouteStep, Positions
<1>1. Prior(r, <<1, 1, 0>>) = {}
  BY <1>0
<1>2. Prior(r, <<1, n, 1>>) = Prior(r, <<1, n, 0>>)
  BY <1>0
<1>3. n > Len(r.ifs) => Prior(r, <<2, 1, 0>>) = Prior(r, <<1, n, 0>>)
  BY <1>0
<1>4. n <= Len(r.ifs) /\ (r.ifs[n].name \in BadNames \/ r.ifs[n].addrs = <<>>) =>
         Prior(r, <<1, n + 1, 0>>) = Prior(r, <<1, n, 0>>)
  BY <1>0
<1> QED BY <1>1, <1>2, <1>3, <1>4

\* Behind each round of the first cycle there is one step more, and behind the second cycle.
LEMMA PriorEntry ==
    ASSUME NEW r, GoodRequest(r), NEW n \in 1..Len(r.ifs),
           r.ifs[n].name \notin BadNames, r.ifs[n].addrs # <<>>
    PROVE  LET l == Len(r.ifs[n].addrs) IN
           /\ \A m \in 1..l : /\ <<1, n, m>> \in StepsOf(r)
                              /\ Prior(r, <<1, n, m + 1>>) = Prior(r, <<1, n, m>>) \cup {<<1, n, m>>}
           /\ <<1, n, l + 1>> \in StepsOf(r)
           /\ Prior(r, <<1, n + 1, 0>>) = Prior(r, <<1, n, l + 1>>) \cup {<<1, n, l + 1>>}
<1> DEFINE l == Len(r.ifs[n].addrs)
<1>0. Len(r.ifs) \in Nat /\ l \in Nat
  BY EntryOf DEF GoodRequest
<1> HIDE DEF l
<1>1. ASSUME NEW m \in 1..(l + 1) PROVE <<1, n, m>> \in Positions /\ <<1, n, m>> \in StepsOf(r)
  <2>1. <<1, n, m>> \in Positions
    BY <1>0 DEF Positions
  <2>2. IfStep(r, <<1, n, m>>)
    BY <1>0 DEF IfStep, l
  <2> QED BY <2>1, <2>2, StepsFacts
<1>2. ASSUME NEW m \in 1..l PROVE Prior(r, <<1, n, m + 1>>) = Prior(r, <<1, n, m>>) \cup {<<1, n, m>>}
  <2>1. <<1, n, m>> \in StepsOf(r) /\ m \in Nat
    BY <1>0, <1>1
  <2>2. ASSUME NEW p \in StepsOf(r)
        PROVE  Before(p, <<1, n, m + 1>>) <=> Before(p, <<1, n, m>>) \/ p = <<1, n, m>>
    BY <1>0, <2>1, StepsFacts DEF Before, Positions
  <2> QED BY <2>1, <2>2 DEF Prior
<1>3. Prior(r, <<1, n + 1, 0>>) = Prior(r, <<1, n, l + 1>>) \cup {<<1, n, l + 1>>}
  <2>1. <<1, n, l + 1>> \in StepsOf(r)
    BY <1>0, <1>1
  <2>2. ASSUME NEW p \in StepsOf(r)
        PROVE  Before(p, <<1, n + 1, 0>>) <=> Before(p, <<1, n, l + 1>>) \/ p = <<1, n, l + 1>>
    <3>1. p \in Positions /\ (IfStep(r, p) \/ RouteStep(r, p))
      BY StepsFacts
    <3>2. p[1] = 1 /\ p[2] = n => p[3] <= l + 1
      BY <1>0, <3>1 DEF IfStep, RouteStep, Positions, l
    <3> QED BY <1>0, <3>1, <3>2 DEF Before, Positions
  <2> QED BY <2>1, <2>2 DEF Prior
<1>4. <<1, n, l + 1>> \in StepsOf(r) /\ \A m \in 1..l : <<1, n, m>> \in StepsOf(r)
  BY <1>0, <1>1
<1> QED BY <1>2, <1>3, <1>4 DEF l

\* So it is with routes; behind the last one are all steps.
LEMMA PriorRoutes ==
    ASSUME NEW r, GoodRequest(r), NEW n \in Nat \ {0}
    PROVE  /\ n <= Len(r.routes) =>
                 /\ <<2, n, 0>> \in StepsOf(r)
                 /\ Prior(r, <<2, n + 1, 0>>) = Prior(r, <<2, n, 0>>) \cup {<<2, n, 0>>}
           /\ n > Len(r.routes) => Prior(r, <<3, 0, 0>>) = Prior(r, <<2, n, 0>>)
           /\ Prior(r, <<3, 0, 0>>) = StepsOf(r)
<1>0. Len(r.routes) \in Nat
  BY DEF GoodRequest
<1>1. ASSUME n <= Len(r.routes) PROVE <<2, n, 0>> \in StepsOf(r)
  BY <1>0, <1>1, StepsFacts DEF RouteStep, Positions
<1>2. ASSUME NEW p \in StepsOf(r)
      PROVE  /\ Before(p, <<2, n + 1, 0>>) <=> Before(p, <<2, n, 0>>) \/ p = <<2, n, 0>>
             /\ n > Len(r.routes) => Before(p, <<2, n, 0>>)
             /\ Before(p, <<3, 0, 0>>)
  <2>1. p \in Positions /\ (IfStep(r, p) \/ RouteStep(r, p))
    BY StepsFacts
  <2> QED BY <1>0, <2>1 DEF Before, Positions, IfStep, RouteStep
<1> QED BY <1>1, <1>2 DEF Prior

-----------------------------------------------------------------------------
(* What the steps do                                                       *)

\* The effects are three.
LEMMA EffectsApart == ASSUME NEW v PROVE Gets(v) # Stays /\ Gets(v) # Goes /\ Goes # Stays
BY DEF Gets, Stays, Goes

\* Keys of different kinds differ in their first part.
LEMMA KeyTags ==
    ASSUME NEW i, NEW n, NEW r
    PROVE  /\ Main(i)[1] = "ifconfig" /\ Aliases(i)[1] = "aliases" /\ Alias(i, n)[1] = "alias"
           /\ Route(r)[1] = "route" /\ DefaultRouter[1] = "defaultrouter" /\ StaticRoutes[1] = "static_routes"
BY DEF Main, Aliases, Alias, Route, DefaultRouter, StaticRoutes

\* The records that SetKeyValue and RemoveKey leave are a file.
LEMMA StillFile ==
    ASSUME NEW f, NEW k, NEW v, NEW ks
    PROVE  IsFile(Put(f, k, v)) /\ IsFile(Drop(f, ks))
BY DEF IsFile, Put, Drop

\* The effect of SetKeyValue,
LEMMA PutCarried ==
    ASSUME NEW f, NEW x, NEW v, NEW k
    PROVE  Carried(f, Put(f, x, v), k, IF k = x THEN Gets(v) ELSE Stays)
<1>1. CASE k = x
  <2>1. k \in DOMAIN Put(f, x, v) /\ Put(f, x, v)[k] = v
    BY <1>1 DEF Put
  <2> QED BY <1>1, <2>1, EffectsApart DEF Carried, Has
<1>2. CASE k # x
  BY <1>2, PutFacts DEF Carried
<1> QED BY <1>1, <1>2

\* RemoveKey,
LEMMA DropCarried ==
    ASSUME NEW f, NEW ks, NEW k
    PROVE  Carried(f, Drop(f, ks), k, IF k \in ks THEN Goes ELSE Stays)
<1>1. CASE k \in ks
  <2>1. k \notin DOMAIN Drop(f, ks)
    BY <1>1 DEF Drop
  <2>2. Goes # Stays
    BY EffectsApart
  <2> QED BY <1>1, <2>1, <2>2 DEF Carried, Has
<1>2. CASE k \notin ks
  BY <1>2, DropFacts DEF Carried
<1> QED BY <1>1, <1>2

\* and one effect after another.
LEMMA CarriedTwice ==
    ASSUME NEW f, NEW g, NEW h, NEW k, NEW d, NEW e, Carried(f, g, k, d), Carried(g, h, k, e)
    PROVE  Carried(f, h, k, IF e = Stays THEN d ELSE e)
<1>1. CASE e = Stays /\ d = Stays
  BY <1>1, AgreeTrans DEF Carried
<1>2. CASE e = Stays /\ d # Stays
  BY <1>2 DEF Carried, Has, Agree
<1>3. CASE e # Stays
  BY <1>3 DEF Carried
<1> QED BY <1>1, <1>2, <1>3

\* A round of the first cycle.
AfterPrimary(f, i, o) ==
    LET static == Put(f, Main(i), Inet(<<Pair(o.addr, Dotted(o.mask))>>))
    IN  CASE UsableDhcp(o) -> Drop(Put(f, Main(i), Word(o.addr)), {DefaultRouter})
          [] UsableStatic(o) -> IF isValidIpAddr(o.gw) THEN Put(static, DefaultRouter, o.gw) ELSE static
          [] OTHER -> f

\* It does what PrimaryEffect says.
LEMMA PrimaryCarried ==
    ASSUME NEW f, IsFile(f), NEW i, NEW o, IsPrimary(o), NEW k, NEW h, h = AfterPrimary(f, i, o)
    PROVE  IsFile(h) /\ Carried(f, h, k, PrimaryEffect(i, o, k))
<1>0. Main(i) # DefaultRouter
  BY KeyTags
<1>1. CASE UsableDhcp(o)
  <2>1. PICK g : g = Put(f, Main(i), Word(o.addr))
    OBVIOUS
  <2>0. ~UsableStatic(o)
    BY <1>1 DEF UsableStatic, UsableDhcp
  <2>2. h = Drop(g, {DefaultRouter})
    BY <1>1, <2>0, <2>1 DEF AfterPrimary
  <2>3. Carried(f, g, k, IF k = Main(i) THEN Gets(Word(o.addr)) ELSE Stays)
    BY <2>1, PutCarried
  <2>4. Carried(g, h, k, IF k \in {DefaultRouter} THEN Goes ELSE Stays) /\ IsFile(h)
    BY <2>2, DropCarried, StillFile
  <2>5. PrimaryEffect(i, o, k) =
           IF k = Main(i) THEN Gets(Word(o.addr)) ELSE IF k = DefaultRouter THEN Goes ELSE Stays
    BY <1>1, <2>0 DEF PrimaryEffect
  <2> QED BY <1>0, <2>3, <2>4, <2>5, CarriedTwice, EffectsApart
<1>2. CASE UsableStatic(o)
  <2>0. ~UsableDhcp(o)
    BY <1>2 DEF UsableStatic, UsableDhcp
  <2>1. PICK v : v = Inet(<<Pair(o.addr, Dotted(o.mask))>>)
    OBVIOUS
  <2>2. PICK g : g = Put(f, Main(i), v)
    OBVIOUS
  <2>3. h = IF isValidIpAddr(o.gw) THEN Put(g, DefaultRouter, o.gw) ELSE g
    BY <1>2, <2>0, <2>1, <2>2 DEF AfterPrimary
  <2>4. Carried(f, g, k, IF k = Main(i) THEN Gets(v) ELSE Stays) /\ IsFile(g)
    BY <2>2, PutCarried, StillFile
  <2>5. PrimaryEffect(i, o, k) =
            IF k = Main(i) THEN Gets(v)
            ELSE IF k = DefaultRouter /\ isValidIpAddr(o.gw) THEN Gets(o.gw) ELSE Stays
    BY <1>2, <2>0, <2>1 DEF PrimaryEffect
  <2>6. CASE isValidIpAddr(o.gw)
    <3>1. Carried(g, h, k, IF k = DefaultRouter THEN Gets(o.gw) ELSE Stays) /\ IsFile(h)
      BY <2>3, <2>6, PutCarried, StillFile
    <3> QED BY <1>0, <2>4, <2>5, <2>6, <3>1, CarriedTwice, EffectsApart
  <2>7. CASE ~isValidIpAddr(o.gw)
    BY <2>3, <2>4, <2>5, <2>7
  <2> QED BY <2>6, <2>7
<1>3. CASE ~UsableDhcp(o) /\ ~UsableStatic(o)
  <2>1. h = f /\ PrimaryEffect(i, o, k) = Stays
    BY <1>3 DEF AfterPrimary, PrimaryEffect
  <2> QED BY <2>1 DEF Carried, Agree
<1> QED BY <1>1, <1>2, <1>3

\* The second cycle of an interface.
AfterAliases(f, e, dhcp) ==
    LET k    == Aliases(e.name)
        list == AliasPairs(e.addrs)
        new  == IF dhcp THEN Drop(f, {k}) ELSE IF list = <<>> THEN f ELSE Put(f, k, Inet(list))
    IN  Drop(new, {Alias(e.name, n) : n \in 0..(MAX_ALIASES - 1)})

\* It does what AliasEffect says.
LEMMA AliasesCarried ==
    ASSUME NEW f, IsFile(f), NEW e, NEW dhcp \in BOOLEAN, NEW k, NEW h, h = AfterAliases(f, e, dhcp)
    PROVE  IsFile(h) /\ Carried(f, h, k, AliasEffect(e, dhcp, k))
<1>1. PICK a : a = Aliases(e.name)
  OBVIOUS
<1>2. PICK list : list = AliasPairs(e.addrs)
  OBVIOUS
<1>3. PICK olds : olds = {Alias(e.name, n) : n \in 0..(MAX_ALIASES - 1)}
  OBVIOUS
<1>4. PICK new : new = IF dhcp THEN Drop(f, {a}) ELSE IF list = <<>> THEN f ELSE Put(f, a, Inet(list))
  OBVIOUS
<1>5. h = Drop(new, olds)
  BY <1>1, <1>2, <1>3, <1>4 DEF AfterAliases
<1>6. a \notin olds
  BY <1>1, <1>3, KeyTags
<1>7. AliasEffect(e, dhcp, k) =
        IF k = a THEN (IF dhcp THEN Goes ELSE IF list = <<>> THEN Stays ELSE Gets(Inet(list)))
        ELSE IF k \in olds THEN Goes ELSE Stays
  BY <1>1, <1>2, <1>3 DEF AliasEffect
<1>8. Carried(new, h, k, IF k \in olds THEN Goes ELSE Stays) /\ IsFile(h)
  BY <1>5, DropCarried, StillFile
<1>9. Carried(f, new, k, IF k = a THEN (IF dhcp THEN Goes ELSE IF list = <<>> THEN Stays ELSE Gets(Inet(list)))
                         ELSE Stays)
  <2>1. CASE dhcp
    <3>1. new = Drop(f, {a})
      BY <1>4, <2>1
    <3>2. Carried(f, new, k, IF k \in {a} THEN Goes ELSE Stays)
      BY <3>1, DropCarried
    <3> QED BY <2>1, <3>2
  <2>2. CASE ~dhcp /\ list = <<>>
    <3>1. new = f
      BY <1>4, <2>2
    <3> QED BY <2>2, <3>1 DEF Carried, Agree
  <2>3. CASE ~dhcp /\ list # <<>>
    <3>1. new = Put(f, a, Inet(list))
      BY <1>4, <2>3
    <3>2. Carried(f, new, k, IF k = a THEN Gets(Inet(list)) ELSE Stays)
      BY <3>1, PutCarried
    <3> QED BY <2>3, <3>2
  <2> QED BY <2>1, <2>2, <2>3
<1> QED BY <1>6, <1>7, <1>8, <1>9, CarriedTwice, EffectsApart

\* A round of the loop over routes.
LEMMA RouteCarried ==
    ASSUME NEW f, NEW rt, UsableRoute(rt), NEW k, NEW h, h = Put(f, Route(rt.name), RouteValue(rt))
    PROVE  IsFile(h) /\ Carried(f, h, k, RouteEffect(rt, k))
<1>1. Carried(f, h, k, IF k = Route(rt.name) THEN Gets(RouteValue(rt)) ELSE Stays) /\ IsFile(h)
  BY PutCarried, StillFile
<1> QED BY <1>1 DEF RouteEffect

\* The steps S and one behind them, which sets is_dhcp or does not.
LEMMA DhcpStep ==
    ASSUME NEW r, NEW S \in SUBSET Positions, NEW p \in Positions, \A q \in S : Before(q, p)
    PROVE  /\ p \in SetDhcp(r, {p}) =>
                 (DhcpAfter(r, S \cup {p}) <=> isDhcpText(r.ifs[p[2]].addrs[p[3]].addr))
           /\ p \notin SetDhcp(r, {p}) => (DhcpAfter(r, S \cup {p}) <=> DhcpAfter(r, S))
<1> DEFINE T == SetDhcp(r, S)
           U == SetDhcp(r, S \cup {p})
           D(q) == isDhcpText(r.ifs[q[2]].addrs[q[3]].addr)
<1>1. U = IF p \in SetDhcp(r, {p}) THEN T \cup {p} ELSE T
  BY DEF SetDhcp
<1>2. T \subseteq S
  BY DEF SetDhcp
<1>3. /\ DhcpAfter(r, S) <=> \E q \in S : IsLast(q, T) /\ D(q)
      /\ DhcpAfter(r, S \cup {p}) <=> \E q \in S \cup {p} : IsLast(q, U) /\ D(q)
  BY DEF DhcpAfter
<1> HIDE DEF T, U, D
<1>4. CASE p \in SetDhcp(r, {p})
  <2>1. IsLast(p, U)
    BY <1>1, <1>2, <1>4, Order DEF IsLast
  <2>2. \A q \in S \cup {p} : IsLast(q, U) => q = p
    BY <1>1, <1>4 DEF IsLast
  <2> QED BY <1>3, <1>4, <2>1, <2>2 DEF D
<1>5. CASE p \notin SetDhcp(r, {p})
  <2>1. U = T /\ (IsLast(p, T) => p \in S)
    BY <1>1, <1>2, <1>5 DEF IsLast
  <2> QED BY <1>3, <1>5, <2>1
<1> QED BY <1>4, <1>5

\* The routes that one more step makes active.
LEMMA ActiveStep ==
    ASSUME NEW r, NEW S, NEW p
    PROVE  /\ p[1] = 1 => ActiveIn(r, S \cup {p}) = ActiveIn(r, S)
           /\ \A n \in 1..Len(r.routes) : p = <<2, n, 0>> =>
                ActiveIn(r, S \cup {p}) =
                  ActiveIn(r, S) \cup (IF UsableRoute(r.routes[n]) /\ r.routes[n].enabled
                                       THEN {r.routes[n].name} ELSE {})
<1>1. ASSUME p[1] = 1 PROVE ActiveIn(r, S \cup {p}) = ActiveIn(r, S)
  <2>1. \A x : <<2, x, 0>> # p
    BY <1>1
  <2> QED BY <2>1 DEF ActiveIn
<1>2. ASSUME NEW n \in 1..Len(r.routes), p = <<2, n, 0>>
      PROVE  ActiveIn(r, S \cup {p}) =
                  ActiveIn(r, S) \cup (IF UsableRoute(r.routes[n]) /\ r.routes[n].enabled
                                       THEN {r.routes[n].name} ELSE {})
  <2>1. \A x : <<2, x, 0>> = p <=> x = n
    BY <1>2
  <2> QED BY <2>1 DEF ActiveIn
<1> QED BY <1>1, <1>2

\* No step touches static_routes: it is set behind them all.
LEMMA StaticUntouched ==
    ASSUME NEW r, NEW p
    PROVE  Effect(r, p, StaticRoutes) = Stays
<1>1. \A i, n : StaticRoutes # Main(i) /\ StaticRoutes # Aliases(i) /\ StaticRoutes # Alias(i, n)
                /\ StaticRoutes # Route(i)
  BY KeyTags
<1>2. StaticRoutes # DefaultRouter
  BY KeyTags
<1>3. \A rt : RouteEffect(rt, StaticRoutes) = Stays
  BY <1>1 DEF RouteEffect
<1>4. \A i, o : PrimaryEffect(i, o, StaticRoutes) = Stays
  BY <1>1, <1>2 DEF PrimaryEffect
<1>5. \A e, d : AliasEffect(e, d, StaticRoutes) = Stays
  BY <1>1 DEF AliasEffect
<1> QED BY <1>3, <1>4, <1>5 DEF Effect

-----------------------------------------------------------------------------
(* The merge does what its steps do                                        *)

\* Where the merge is.
AtHand ==
    /\ pc \in {"primary", "aliases"} => Entry.addrs # <<>>
    /\ pc = "primary" => obj <= Len(Entry.addrs) + 1

\* A step of the merge that is one of the steps of the request.
LEMMA StepNext ==
    ASSUME StepInv, GoodRequest(req), pc # "idle", AtHand', UNCHANGED <<disk, req>>,
           NEW p \in StepsOf(req), Here = p, Past' = Past \cup {p},
           \A k \in Keys : Carried(ini, ini', k, Effect(req, p, k)),
           isDhcp' <=> DhcpAfter(req, Past \cup {p}),
           active' = ActiveIn(req, Past \cup {p})
    PROVE  StepInv'
<1>1. PICK S : S = Past
  OBVIOUS
<1>2. S \in SUBSET Positions /\ p \in Positions /\ \A q \in S : Before(q, p)
  BY <1>1, StepsFacts DEF Past, Prior
<1>3. Merged(req, ini, disk, S)
  BY <1>1 DEF StepInv
<1>4. Merged(req, ini', disk, S \cup {p})
  BY <1>2, <1>3, MergedStep
<1>5. Past' = S \cup {p} /\ req' = req /\ disk' = disk
  BY <1>1
<1>6. Merged(req, ini, disk, Past)'
  BY <1>4, <1>5
<1>7. (isDhcp <=> DhcpAfter(req, Past))' /\ (active = ActiveIn(req, Past))'
  BY <1>1, <1>5
<1> QED BY <1>6, <1>7 DEF StepInv, AtHand

\* A step of the merge that only moves it.
LEMMA MoveNext ==
    ASSUME StepInv, pc # "idle", AtHand', UNCHANGED <<disk, req, ini, isDhcp, active>>, Past' = Past
    PROVE  StepInv'
<1>1. (Merged(req, ini, disk, Past) /\ (isDhcp <=> DhcpAfter(req, Past)) /\ active = ActiveIn(req, Past))'
  BY DEF StepInv
<1> QED BY <1>1 DEF StepInv, AtHand

\* Nothing but CIniFile::Save touches the file, and only it ends with SUCCESS.
LEMMA KeepsSaved ==
    ASSUME SavedInv, UNCHANGED <<disk, req, saved>>, IsFile(ini'),
           result' # "SUCCESS" \/ (UNCHANGED result /\ pc # "idle")
    PROVE  SavedInv'
BY DEF SavedInv, Written

\* A request that begins has nothing behind it.
LEMMA BeginSteps ==
    ASSUME JInv, NEW r \in Requests \cup {NoRequest}, req' = r, Begin(r)
    PROVE  StepInv' /\ IsFile(ini') /\ result' # "SUCCESS"
<1>1. GoodRequest(r)
  <2>1. CASE r \in Requests
    BY <2>1, RequestsAssumption DEF GoodRequest
  <2>2. CASE r = NoRequest
    <3>1. r.ifs = <<>> /\ r.routes = <<>>
      BY <2>2 DEF NoRequest
    <3> QED BY <3>1 DEF GoodRequest
  <2> QED BY <2>1, <2>2
<1>2. ini' = disk /\ disk' = disk /\ isDhcp' = FALSE /\ active' = {} /\ at' = 1 /\ pc' \in {"idle", "if"}
      /\ result' # "SUCCESS"
  BY DEF Begin, Finish
<1>3. ASSUME pc' = "if" PROVE Past' = {}
  <2>1. Here' = <<1, 1, 0>>
    BY <1>2, <1>3 DEF Here
  <2>2. 1 \in Nat \ {0}
    OBVIOUS
  <2>3. Prior(r, <<1, 1, 0>>) = {}
    BY <1>1, <2>2, PriorIfs
  <2> QED BY <2>1, <2>3 DEF Past
<1>4. /\ Merged(r, disk, disk, {}) /\ ~DhcpAfter(r, {}) /\ ActiveIn(r, {}) = {}
  BY DEF Merged, Untouched, Agree, DhcpAfter, ActiveIn
<1>5. StepInv'
  BY <1>2, <1>3, <1>4 DEF StepInv
<1> QED BY <1>2, <1>5 DEF JInv, SavedInv

\* The next interface.
LEMMA BeginIfSteps ==
    ASSUME JInv, BeginIf
    PROVE  StepInv' /\ SavedInv'
<1>1. /\ UNCHANGED <<disk, req, ini, isDhcp, active, saved, result>> /\ pc = "if" /\ obj' = 1
      /\ at \in Nat \ {0} /\ StepInv /\ SavedInv
  BY DEF BeginIf, InWrite, JInv, IInv, TypeOK
<1>2. GoodRequest(req)
  BY RequestTypes DEF JInv, IInv, GoodRequest
<1>3. Len(req.ifs) \in Nat
  BY <1>2 DEF GoodRequest
<1>4. Here = <<1, at, 0>>
  BY <1>1 DEF Here
<1>5. CASE at > Len(req.ifs) /\ at' = 1 /\ pc' = "route"
  <2>1. Here' = <<2, 1, 0>> /\ AtHand'
    BY <1>5 DEF Here, AtHand
  <2>2. Past' = Past
    BY <1>1, <1>2, <1>4, <1>5, <2>1, PriorIfs DEF Past
  <2> QED BY <1>1, <2>1, <2>2, MoveNext, KeepsSaved DEF SavedInv
<1>6. CASE at <= Len(req.ifs) /\ (Entry.name \in BadNames \/ Entry.addrs = <<>>) /\ at' = at + 1 /\ pc' = "if"
  <2>1. Here' = <<1, at + 1, 0>> /\ AtHand'
    BY <1>6 DEF Here, AtHand
  <2>2. Past' = Past
    BY <1>1, <1>2, <1>4, <1>6, <2>1, PriorIfs DEF Past, Entry
  <2> QED BY <1>1, <2>1, <2>2, MoveNext, KeepsSaved DEF SavedInv
<1>7. CASE /\ at <= Len(req.ifs) /\ Entry.name \notin BadNames /\ Entry.addrs # <<>>
           /\ at' = at /\ pc' = "primary"
  <2>1. Here' = <<1, at, 1>>
    BY <1>1, <1>7 DEF Here
  <2>2. AtHand'
    <3>1. Len(Entry.addrs) \in Nat
      BY <1>1, <1>2, <1>3, <1>7, EntryOf DEF Entry
    <3> QED BY <1>1, <1>7, <3>1 DEF AtHand, Entry
  <2>3. Past' = Past
    BY <1>1, <1>2, <1>4, <2>1, PriorIfs DEF Past
  <2> QED BY <1>1, <2>2, <2>3, MoveNext, KeepsSaved DEF SavedInv
<1> QED BY <1>5, <1>6, <1>7 DEF BeginIf

\* A round of the first cycle, or its end.
LEMMA PutPrimarySteps ==
    ASSUME JInv, PutPrimary
    PROVE  StepInv' /\ SavedInv'
<1>1. /\ UNCHANGED <<disk, req, active, saved, result, at>> /\ pc = "primary"
      /\ at \in Nat \ {0} /\ obj \in Nat \ {0} /\ isDhcp \in BOOLEAN
      /\ StepInv /\ SavedInv /\ IsFile(ini) /\ active = ActiveIn(req, Past)
      /\ (isDhcp <=> DhcpAfter(req, Past))
      /\ Entry.addrs # <<>> /\ obj <= Len(Entry.addrs) + 1
  BY DEF PutPrimary, InWrite, JInv, IInv, TypeOK, SavedInv, StepInv
<1>2. GoodRequest(req) /\ at \in 1..Len(req.ifs) /\ Entry.name \in Interfaces \ BadNames
  BY <1>1, RequestTypes, EntryTypes DEF JInv, IInv, GoodRequest
<1>3. Entry.addrs \in Seq(AddrObjects) /\ Len(Entry.addrs) \in Nat
  BY <1>2, EntryOf DEF Entry
<1>4. Here = <<1, at, obj>>
  BY <1>1 DEF Here
<1>5. CASE obj > Len(Entry.addrs)
  <2>1. pc' = "aliases" /\ UNCHANGED <<ini, isDhcp, obj>>
    BY <1>3, <1>5, <1>1 DEF PutPrimary
  <2>2. Here' = Here /\ AtHand'
    BY <1>1, <1>3, <1>4, <1>5, <2>1 DEF Here, Entry, AtHand
  <2>3. Past' = Past
    BY <1>1, <2>2 DEF Past
  <2> QED BY <1>1, <2>1, <2>2, <2>3, MoveNext, KeepsSaved
<1>6. CASE obj <= Len(Entry.addrs)
  <2>1. PICK p, o : p = <<1, at, obj>> /\ o = Entry.addrs[obj]
    OBVIOUS
  <2>2. obj \in 1..Len(Entry.addrs)
    BY <1>1, <1>3, <1>6
  <2>3. p \in StepsOf(req) /\ Prior(req, <<1, at, obj + 1>>) = Prior(req, p) \cup {p}
    <3>1. req.ifs[at].name \notin BadNames /\ req.ifs[at].addrs # <<>> /\ obj \in 1..Len(req.ifs[at].addrs)
      BY <1>1, <1>2, <2>2 DEF Entry
    <3>2. \A m \in 1..Len(req.ifs[at].addrs) :
             /\ <<1, at, m>> \in StepsOf(req)
             /\ Prior(req, <<1, at, m + 1>>) = Prior(req, <<1, at, m>>) \cup {<<1, at, m>>}
      BY <1>2, <3>1, PriorEntry
    <3> QED BY <2>1, <3>1, <3>2
  <2>4. pc' = "primary" /\ obj' = obj + 1
    BY <1>1, <1>3, <1>6 DEF PutPrimary
  <2>5. Here' = <<1, at, obj + 1>> /\ AtHand'
    BY <1>1, <1>3, <1>6, <2>4 DEF Here, AtHand, Entry
  <2>6. Past' = Past \cup {p} /\ Here = p
    BY <1>1, <1>4, <2>1, <2>3, <2>5 DEF Past
  <2>7. /\ \A k : Effect(req, p, k) = PrimaryEffect(Entry.name, o, k)
        /\ req.ifs[p[2]].addrs[p[3]] = o
    BY <1>6, <2>1 DEF Effect, Entry
  <2>8. IF IsPrimary(o)
        THEN /\ ini' = AfterPrimary(ini, Entry.name, o)
             /\ isDhcp' = IF o.addr = NoText THEN isDhcp
                          ELSE isDhcpText(o.addr) \/ (o.mask = NoText /\ isDhcp)
        ELSE UNCHANGED <<ini, isDhcp>>
    BY <1>1, <1>3, <1>6, <2>1 DEF PutPrimary, AfterPrimary
  <2>9. IsFile(ini') /\ \A k \in Keys : Carried(ini, ini', k, Effect(req, p, k))
    <3>1. CASE IsPrimary(o)
      <4>1. ASSUME NEW k PROVE IsFile(ini') /\ Carried(ini, ini', k, PrimaryEffect(Entry.name, o, k))
        BY <1>1, <2>8, <3>1, PrimaryCarried
      <4> QED BY <2>7, <4>1
    <3>2. CASE ~IsPrimary(o)
      <4>1. \A k : PrimaryEffect(Entry.name, o, k) = Stays
        BY <3>2 DEF PrimaryEffect
      <4>2. \A k : Carried(ini, ini', k, Stays)
        BY <2>8, <3>2 DEF Carried, Agree
      <4> QED BY <1>1, <2>7, <2>8, <3>2, <4>1, <4>2
    <3> QED BY <3>1, <3>2
  <2>10. isDhcp' <=> DhcpAfter(req, Past \cup {p})
    <3>1. Past \in SUBSET Positions /\ p \in Positions /\ \A q \in Past : Before(q, p)
      BY <1>2, <2>3, <2>6, StepsFacts DEF Past, Prior
    <3>2. p \in SetDhcp(req, {p}) <=>
            IsPrimary(o) /\ o.addr # NoText /\ (isDhcpText(o.addr) \/ o.mask # NoText)
      BY <1>6, <2>1 DEF SetDhcp, Entry
    <3>3. ~isDhcpText(NoText)
      BY DEF isDhcpText, NoText, Dhcp, BadDhcp
    <3>4. CASE p \in SetDhcp(req, {p})
      <4>1. isDhcp' <=> isDhcpText(o.addr)
        BY <2>8, <3>2, <3>4
      <4> QED BY <2>7, <3>1, <3>4, <4>1, DhcpStep
    <3>5. CASE p \notin SetDhcp(req, {p})
      <4>1. isDhcp' <=> isDhcp
        BY <1>1, <2>8, <3>2, <3>3, <3>5
      <4> QED BY <1>1, <3>1, <3>5, <4>1, DhcpStep
    <3> QED BY <3>4, <3>5
  <2>11. active' = ActiveIn(req, Past \cup {p})
    <3>1. p[1] = 1
      BY <2>1
    <3> QED BY <1>1, <3>1, ActiveStep
  <2>12. StepInv'
    BY <1>1, <1>2, <2>3, <2>5, <2>6, <2>9, <2>10, <2>11, StepNext
  <2> QED BY <1>1, <2>9, <2>12, KeepsSaved
<1> QED BY <1>1, <1>3, <1>5, <1>6

\* The second cycle.
LEMMA PutAliasesSteps ==
    ASSUME JInv, PutAliases
    PROVE  StepInv' /\ SavedInv'
<1>1. /\ UNCHANGED <<disk, req, active, saved, result, isDhcp>> /\ pc = "aliases"
      /\ at' = at + 1 /\ pc' = "if"
      /\ at \in Nat \ {0} /\ isDhcp \in BOOLEAN
      /\ StepInv /\ SavedInv /\ IsFile(ini) /\ active = ActiveIn(req, Past)
      /\ (isDhcp <=> DhcpAfter(req, Past))
      /\ Entry.addrs # <<>>
  BY DEF PutAliases, InWrite, JInv, IInv, TypeOK, SavedInv, StepInv
<1>2. GoodRequest(req) /\ at \in 1..Len(req.ifs) /\ Entry.name \in Interfaces \ BadNames
  BY <1>1, RequestTypes, EntryTypes DEF JInv, IInv, GoodRequest
<1>3. Len(Entry.addrs) \in Nat
  BY <1>2, EntryOf DEF Entry
<1>4. PICK p : p = <<1, at, Len(Entry.addrs) + 1>>
  OBVIOUS
<1>5. Here = p /\ Here' = <<1, at + 1, 0>> /\ AtHand'
  BY <1>1, <1>4 DEF Here, AtHand
<1>6. p \in StepsOf(req) /\ Prior(req, <<1, at + 1, 0>>) = Prior(req, p) \cup {p}
  BY <1>1, <1>2, <1>4, PriorEntry DEF Entry
<1>7. Past' = Past \cup {p} /\ Past = Prior(req, p)
  BY <1>1, <1>5, <1>6 DEF Past
<1>8. \A k : Effect(req, p, k) = AliasEffect(Entry, isDhcp, k)
  <2>1. ~(p[3] <= Len(Entry.addrs)) /\ p[1] # 2 /\ req.ifs[p[2]] = Entry
    BY <1>3, <1>4 DEF Entry
  <2>2. \A k : Effect(req, p, k) = AliasEffect(Entry, DhcpAfter(req, Prior(req, p)), k)
    BY <2>1 DEF Effect
  <2>3. DhcpAfter(req, Past) \in BOOLEAN
    BY DEF DhcpAfter
  <2>4. isDhcp = DhcpAfter(req, Past)
    BY <1>1, <2>3
  <2> QED BY <1>7, <2>2, <2>4
<1>9. ini' = AfterAliases(ini, Entry, isDhcp)
  BY DEF PutAliases, AfterAliases
<1>10. IsFile(ini') /\ \A k \in Keys : Carried(ini, ini', k, Effect(req, p, k))
  <2>1. ASSUME NEW k PROVE IsFile(ini') /\ Carried(ini, ini', k, AliasEffect(Entry, isDhcp, k))
    BY <1>1, <1>9, AliasesCarried
  <2> QED BY <1>8, <2>1
<1>11. isDhcp' <=> DhcpAfter(req, Past \cup {p})
  <2>1. Past \in SUBSET Positions /\ p \in Positions /\ \A q \in Past : Before(q, p)
    BY <1>2, <1>6, <1>7, StepsFacts DEF Prior
  <2>2. p \notin SetDhcp(req, {p})
    BY <1>3, <1>4 DEF SetDhcp, Entry
  <2> QED BY <1>1, <2>1, <2>2, DhcpStep
<1>12. active' = ActiveIn(req, Past \cup {p})
  <2>1. p[1] = 1
    BY <1>4
  <2> QED BY <1>1, <2>1, ActiveStep
<1>13. StepInv'
  BY <1>1, <1>2, <1>5, <1>6, <1>7, <1>10, <1>11, <1>12, StepNext
<1> QED BY <1>1, <1>10, <1>13, KeepsSaved

\* A round of the loop over routes, or its end.
LEMMA PutRouteSteps ==
    ASSUME JInv, PutRoute
    PROVE  StepInv' /\ SavedInv'
<1>1. /\ UNCHANGED <<disk, req, saved, result, isDhcp>> /\ pc = "route"
      /\ at \in Nat \ {0}
      /\ StepInv /\ SavedInv /\ IsFile(ini) /\ active = ActiveIn(req, Past)
      /\ (isDhcp <=> DhcpAfter(req, Past))
  BY DEF PutRoute, InWrite, JInv, IInv, TypeOK, SavedInv, StepInv
<1>2. GoodRequest(req)
  BY RequestTypes DEF JInv, IInv, GoodRequest
<1>3. Len(req.routes) \in Nat
  BY <1>2 DEF GoodRequest
<1>4. Here = <<2, at, 0>>
  BY <1>1 DEF Here
<1>5. CASE at > Len(req.routes)
  <2>1. pc' = "save" /\ UNCHANGED <<at, ini, active>>
    BY <1>1, <1>3, <1>5 DEF PutRoute
  <2>2. Here' = <<3, 0, 0>> /\ AtHand'
    BY <2>1 DEF Here, AtHand
  <2>3. Past' = Past
    BY <1>1, <1>2, <1>4, <1>5, <2>2, PriorRoutes DEF Past
  <2> QED BY <1>1, <2>1, <2>2, <2>3, MoveNext, KeepsSaved
<1>6. CASE at <= Len(req.routes)
  <2>1. PICK p, rt : p = <<2, at, 0>> /\ rt = req.routes[at]
    OBVIOUS
  <2>2. at \in 1..Len(req.routes)
    BY <1>1, <1>3, <1>6
  <2>3. p \in StepsOf(req) /\ Prior(req, <<2, at + 1, 0>>) = Prior(req, p) \cup {p}
    BY <1>1, <1>2, <1>6, <2>1, PriorRoutes
  <2>4. /\ pc' = "route" /\ at' = at + 1
        /\ IF UsableRoute(rt)
           THEN /\ active' = IF rt.enabled THEN active \cup {rt.name} ELSE active
                /\ ini' = Put(ini, Route(rt.name), RouteValue(rt))
           ELSE UNCHANGED <<active, ini>>
    BY <1>1, <1>3, <1>6, <2>1 DEF PutRoute
  <2>5. Here' = <<2, at + 1, 0>> /\ AtHand'
    BY <2>4 DEF Here, AtHand
  <2>6. Past' = Past \cup {p} /\ Here = p
    BY <1>1, <1>4, <2>1, <2>3, <2>5 DEF Past
  <2>7. \A k : Effect(req, p, k) = RouteEffect(rt, k)
    BY <2>1 DEF Effect
  <2>8. IsFile(ini') /\ \A k \in Keys : Carried(ini, ini', k, Effect(req, p, k))
    <3>1. CASE UsableRoute(rt)
      <4>1. ASSUME NEW k PROVE IsFile(ini') /\ Carried(ini, ini', k, RouteEffect(rt, k))
        BY <2>4, <3>1, RouteCarried
      <4> QED BY <2>7, <4>1
    <3>2. CASE ~UsableRoute(rt)
      <4>1. \A k : RouteEffect(rt, k) = Stays
        BY <3>2 DEF RouteEffect
      <4>2. \A k : Carried(ini, ini', k, Stays)
        BY <2>4, <3>2 DEF Carried, Agree
      <4> QED BY <1>1, <2>4, <2>7, <3>2, <4>1, <4>2
    <3> QED BY <3>1, <3>2
  <2>9. isDhcp' <=> DhcpAfter(req, Past \cup {p})
    <3>1. Past \in SUBSET Positions /\ p \in Positions /\ \A q \in Past : Before(q, p)
      BY <1>2, <2>3, <2>6, StepsFacts DEF Past, Prior
    <3>2. p \notin SetDhcp(req, {p})
      BY <2>1 DEF SetDhcp
    <3> QED BY <1>1, <3>1, <3>2, DhcpStep
  <2>10. active' = ActiveIn(req, Past \cup {p})
    <3>1. ActiveIn(req, Past \cup {p}) =
            ActiveIn(req, Past) \cup (IF UsableRoute(rt) /\ rt.enabled THEN {rt.name} ELSE {})
      BY <2>1, <2>2, ActiveStep
    <3> QED BY <1>1, <2>4, <3>1
  <2>11. StepInv'
    BY <1>1, <1>2, <2>3, <2>5, <2>6, <2>8, <2>9, <2>10, StepNext
  <2> QED BY <1>1, <2>8, <2>11, KeepsSaved
<1> QED BY <1>1, <1>3, <1>5, <1>6

\* Files that agree at all keys are the same file.
LEMMA SameFile ==
    ASSUME NEW f, NEW g, IsFile(f), IsFile(g), DOMAIN f \subseteq Keys, DOMAIN g \subseteq Keys,
           \A k \in Keys : Agree(f, g, k)
    PROVE  f = g
<1>1. DOMAIN f = DOMAIN g /\ \A k \in DOMAIN f : f[k] = g[k]
  BY DEF Agree
<1> QED BY <1>1 DEF IsFile

\* What a key is in one file, it is in another that agrees.
LEMMA DecidedSame ==
    ASSUME NEW r, NEW f, NEW g, NEW k, NEW S, Agree(g, f, k), Decided(r, f, k, S)
    PROVE  Decided(r, g, k, S)
BY DEF Decided, Has, Agree

\* The file that is written is one to which the steps have nothing to add; if
\* it was one before, it is the same.
LEMMA SaveConfSteps ==
    ASSUME JInv, SaveConf
    PROVE  StepInv' /\ SavedInv'
<1>1. /\ UNCHANGED <<ini, req, active>> /\ pc = "save" /\ pc' = "idle"
      /\ IsFile(ini) /\ IsFile(disk) /\ active = ActiveIn(req, Past) /\ Merged(req, ini, disk, Past)
      /\ DOMAIN ini \subseteq Keys /\ DOMAIN disk \subseteq Keys /\ SavedInv
  BY DEF SaveConf, Finish, JInv, IInv, TypeOK, StepInv, SavedInv
<1>2. StepInv'
  BY <1>1 DEF StepInv
<1>3. GoodRequest(req)
  BY RequestTypes DEF JInv, IInv, GoodRequest
<1>4. PICK S : S = StepsOf(req)
  OBVIOUS
<1>5. Past = S /\ S \in SUBSET Positions
  <2>1. Here = <<3, 0, 0>>
    BY <1>1 DEF Here
  <2>2. 1 \in Nat \ {0}
    OBVIOUS
  <2>3. Prior(req, <<3, 0, 0>>) = StepsOf(req)
    BY <1>3, <2>2, PriorRoutes
  <2> QED BY <1>3, <1>4, <2>1, <2>3, StepsFacts DEF Past
<1>6. active = ActiveIn(req, S) /\ Merged(req, ini, disk, S)
  BY <1>1, <1>5
<1>7. CASE UNCHANGED <<disk, saved>> /\ result' = "ERROR"
  BY <1>1, <1>2, <1>7 DEF SavedInv, Written
<1>8. CASE disk' = WithActive(ini) /\ saved' = IF saved = {} THEN {disk'} ELSE saved
  <2>1. IsFile(disk') /\ \A k \in Keys \ {StaticRoutes} : Agree(disk', ini, k)
    <3>1. CASE active = {}
      BY <1>1, <1>8, <3>1 DEF WithActive, Agree
    <3>2. CASE active # {}
      BY <1>8, <3>2, PutFacts, StillFile DEF WithActive
    <3> QED BY <3>1, <3>2
  <2>2. /\ active # {} => StaticRoutes \in DOMAIN disk' /\ disk'[StaticRoutes] = active
        /\ active = {} => disk' = ini
        /\ DOMAIN disk' \subseteq DOMAIN ini \cup {StaticRoutes}
    <3>1. CASE active = {}
      BY <1>8, <3>1 DEF WithActive
    <3>2. CASE active # {}
      <4>1. disk' = Put(ini, StaticRoutes, active)
        BY <1>8, <3>2 DEF WithActive
      <4>2. DOMAIN disk' = DOMAIN ini \cup {StaticRoutes} /\ disk'[StaticRoutes] = active
        BY <4>1 DEF Put
      <4> QED BY <3>2, <4>2
    <3> QED BY <3>1, <3>2
  <2>3. Settled(req, disk')
    <3>1. ASSUME NEW k \in Keys \ {StaticRoutes}
          PROVE  Untouched(req, k, S) \/ Decided(req, disk', k, S)
      <4>1. Untouched(req, k, S) \/ Decided(req, ini, k, S)
        BY <1>6 DEF Merged
      <4> QED BY <2>1, <4>1, DecidedSame
    <3> QED BY <1>4, <1>6, <2>2, <3>1 DEF Settled
  <2>4. ASSUME saved # {} PROVE disk' = disk
    <3>1. Settled(req, disk)
      BY <1>1, <2>4 DEF SavedInv
    <3>2. ASSUME NEW k \in Keys \ {StaticRoutes} PROVE Agree(disk', disk, k)
      <4>1. Untouched(req, k, S) \/ Decided(req, disk, k, S)
        BY <1>4, <3>1 DEF Settled
      <4>2. Agree(ini, disk, k)
        BY <1>5, <1>6, <4>1, MergeTwice
      <4> QED BY <2>1, <4>2, AgreeTrans
    <3>3. Agree(disk', disk, StaticRoutes)
      <4>1. CASE active = {}
        <5>1. StaticRoutes \in Keys
          BY DEF Keys
        <5>2. Agree(ini, disk, StaticRoutes)
          BY <1>6, <5>1, StaticUntouched DEF Merged, Decided, IsLast
        <5> QED BY <2>2, <4>1, <5>2
      <4>2. CASE active # {}
        BY <1>4, <1>6, <2>2, <3>1, <4>2 DEF Settled, Agree
      <4> QED BY <4>1, <4>2
    <3>4. DOMAIN disk' \subseteq Keys
      BY <1>1, <2>2 DEF Keys
    <3> QED BY <1>1, <2>1, <3>2, <3>3, <3>4, SameFile
  <2>5. saved' = {disk'}
    <3>1. CASE saved = {}
      BY <1>8, <3>1
    <3>2. CASE saved # {}
      <4>1. saved = {disk} /\ saved' = saved
        BY <1>1, <1>8, <3>2 DEF SavedInv
      <4> QED BY <2>4, <3>2, <4>1
    <3> QED BY <3>1, <3>2
  <2>6. Settled(req, disk)'
    BY <1>1, <2>3
  <2>7. IsFile(disk') /\ IsFile(ini') /\ saved' # {} /\ pc' = "idle"
    BY <1>1, <2>1, <2>5
  <2> QED BY <1>2, <2>5, <2>6, <2>7 DEF SavedInv
<1> QED BY <1>7, <1>8 DEF SaveConf, Finish

\* The invariant with the steps holds at first,
LEMMA InitSteps == Init => JInv
<1> SUFFICES ASSUME Init PROVE JInv
  OBVIOUS
<1>1. IsFile(disk) /\ IsFile(NoFile)
  BY FilesAssumption DEF Init, IsFile, NoFile
<1>2. StepInv /\ SavedInv
  BY <1>1 DEF Init, StepInv, SavedInv, Written
<1> QED BY <1>2, InitInv DEF JInv

\* and every action keeps it.
LEMMA NextSteps == JInv /\ [Next]_vars => JInv'
<1> SUFFICES ASSUME JInv, [Next]_vars PROVE JInv'
  OBVIOUS
<1>0. IInv'
  BY NextInv DEF JInv
<1>a. SavedInv /\ IsFile(ini)
  BY DEF JInv, SavedInv
<1>1. CASE Write
  <2>1. PICK r \in Requests : req' = r /\ Begin(r)
    BY <1>1 DEF Write
  <2>2. StepInv' /\ IsFile(ini') /\ result' # "SUCCESS"
    BY <2>1, BeginSteps
  <2>3. saved' = {} /\ disk' = disk
    BY <1>1, <2>1 DEF Write, Begin
  <2>4. SavedInv'
    BY <1>a, <2>2, <2>3 DEF SavedInv, Written
  <2> QED BY <1>0, <2>2, <2>4 DEF JInv
<1>2. CASE Retry
  <2>1. req \in Requests \cup {NoRequest} /\ req' = req /\ Begin(req)
    BY <1>2 DEF Retry, JInv, IInv, RequestOK
  <2>2. StepInv' /\ IsFile(ini') /\ result' # "SUCCESS"
    BY <2>1, BeginSteps
  <2>3. UNCHANGED <<disk, req, saved>>
    BY <1>2 DEF Retry, Begin
  <2> QED BY <1>0, <1>a, <2>2, <2>3, KeepsSaved DEF JInv
<1>3. CASE BeginIf
  BY <1>0, <1>3, BeginIfSteps DEF JInv
<1>4. CASE PutPrimary
  BY <1>0, <1>4, PutPrimarySteps DEF JInv
<1>5. CASE PutAliases
  BY <1>0, <1>5, PutAliasesSteps DEF JInv
<1>6. CASE PutRoute
  BY <1>0, <1>6, PutRouteSteps DEF JInv
<1>7. CASE SaveConf
  BY <1>0, <1>7, SaveConfSteps DEF JInv
<1>8. CASE Crash
  <2>1. pc' = "idle" /\ result' = "none" /\ UNCHANGED <<disk, req, saved, ini>>
    BY <1>8 DEF Crash, Finish
  <2>2. StepInv'
    BY <2>1 DEF StepInv
  <2> QED BY <1>0, <1>a, <2>1, <2>2, KeepsSaved DEF JInv
<1>9. CASE UNCHANGED vars
  <2>1. Here' = Here /\ Past' = Past /\ Entry' = Entry
    BY <1>9 DEF vars, Here, Past, Entry
  <2>2. StepInv'
    BY <1>9, <2>1 DEF vars, JInv, StepInv
  <2>3. SavedInv'
    BY <1>9 DEF vars, JInv, SavedInv, Written
  <2> QED BY <1>0, <2>2, <2>3 DEF JInv
<1> QED BY <1>1, <1>2, <1>3, <1>4, <1>5, <1>6, <1>7, <1>8, <1>9 DEF Next, Done

\* And so it holds in every reachable state.
LEMMA StepInvariance == Spec => []JInv
BY InitSteps, NextSteps, PTL DEF Spec

\* A client that sends its request again after SUCCESS, however often, and
\* whatever fails in between, does not change the file: setRcIpConfig is
\* idempotent, is_dhcp and the default router included.
THEOREM RetryIsHarmless == Spec => []RetryHarmless
<1>1. JInv => RetryHarmless
  BY DEF JInv, SavedInv, RetryHarmless
<1> QED BY StepInvariance, <1>1, PTL

\* The entry is the only one for its interface, the address its only primary.
Sole(r, n, m) ==
    /\ n \in 1..Len(r.ifs) /\ m \in 1..Len(r.ifs[n].addrs)
    /\ r.ifs[n].name \notin BadNames
    /\ \A x \in 1..Len(r.ifs) : r.ifs[x].name = r.ifs[n].name => x = n
    /\ OnlyPrimary(r.ifs[n].addrs, m)

\* Then nothing else decides about ifconfig_<name>.
LEMMA MainDecided ==
    ASSUME NEW r, GoodRequest(r), NEW n, NEW m, Sole(r, n, m), NEW f, Settled(r, f), NEW v,
           PrimaryEffect(r.ifs[n].name, r.ifs[n].addrs[m], Main(r.ifs[n].name)) = Gets(v)
    PROVE  Main(r.ifs[n].name) \in DOMAIN f /\ f[Main(r.ifs[n].name)] = v
<1> USE DEF Sole
<1>1. PICK i : i = r.ifs[n].name
  OBVIOUS
<1>2. PICK p : p = <<1, n, m>>
  OBVIOUS
<1>3. i \in Interfaces \ BadNames /\ r.ifs[n].addrs # <<>> /\ Len(r.ifs[n].addrs) \in Nat
  <2>1. i \in Interfaces /\ r.ifs[n].addrs \in Seq(AddrObjects) /\ Len(r.ifs[n].addrs) \in Nat
    BY <1>1, EntryOf
  <2>2. r.ifs[n].addrs # <<>>
    BY <2>1
  <2> QED BY <1>1, <2>1, <2>2
<1>4. p \in StepsOf(r)
  BY <1>2, <1>3, PriorEntry
<1>5. Effect(r, p, Main(i)) = Gets(v)
  <2>1. p[1] = 1 /\ p[2] = n /\ p[3] = m /\ m <= Len(r.ifs[n].addrs)
    BY <1>2, <1>3
  <2> QED BY <1>1, <2>1 DEF Effect
<1>6. ASSUME NEW q \in StepsOf(r), Effect(r, q, Main(i)) # Stays PROVE q = p
  <2>1. q \in Positions /\ (IfStep(r, q) \/ RouteStep(r, q))
    BY StepsFacts
  <2>2. \A rt : RouteEffect(rt, Main(i)) = Stays
    BY KeyTags DEF RouteEffect
  <2>3. \A e, d : AliasEffect(e, d, Main(i)) = Stays
    <3>1. \A e, x : Main(i) # Aliases(e.name) /\ Main(i) # Alias(e.name, x)
      <4>1. Main(i)[1] = "ifconfig"
        BY KeyTags
      <4>2. \A j, x : Aliases(j)[1] = "aliases" /\ Alias(j, x)[1] = "alias"
        BY KeyTags
      <4> QED BY <4>1, <4>2
    <3> QED BY <3>1 DEF AliasEffect
  <2>4. \A j, o : PrimaryEffect(j, o, Main(i)) # Stays => IsPrimary(o) /\ j = i
    <3>1. \A j : Main(i) # DefaultRouter /\ (Main(i) = Main(j) => i = j)
      BY KeyTags DEF Main
    <3> QED BY <3>1 DEF PrimaryEffect
  <2>5. q[1] = 1 /\ q[2] \in 1..Len(r.ifs) /\ q[3] \in 1..(Len(r.ifs[q[2]].addrs) + 1)
    BY <1>6, <2>1, <2>2 DEF Effect, IfStep, RouteStep
  <2>6. Len(r.ifs[q[2]].addrs) \in Nat
    BY <2>5, EntryOf
  <2>7. q[3] <= Len(r.ifs[q[2]].addrs)
    BY <1>6, <2>3, <2>5 DEF Effect
  <2>8. IsPrimary(r.ifs[q[2]].addrs[q[3]]) /\ r.ifs[q[2]].name = i
    BY <1>6, <2>4, <2>5, <2>7 DEF Effect
  <2>9. q[2] = n /\ q[3] = m
    <3>1. q[2] = n
      BY <1>1, <2>5, <2>8
    <3>2. q[3] \in 1..Len(r.ifs[n].addrs) /\ IsPrimary(r.ifs[n].addrs[q[3]])
      BY <2>5, <2>6, <2>7, <2>8, <3>1
    <3> QED BY <3>1, <3>2 DEF OnlyPrimary
  <2> QED BY <1>2, <2>1, <2>5, <2>9 DEF Positions
<1>7. Main(i) \in Keys \ {StaticRoutes}
  BY <1>3, IfKeysAreKeys, KeyTags
<1>8. ~Untouched(r, Main(i), StepsOf(r))
  BY <1>4, <1>5, EffectsApart DEF Untouched
<1>9. PICK q \in StepsOf(r) : IsLast(q, {x \in StepsOf(r) : Effect(r, x, Main(i)) # Stays})
                              /\ Has(f, Main(i), Effect(r, q, Main(i)))
  BY <1>7, <1>8 DEF Settled, Decided
<1>10. q = p
  BY <1>6, <1>9 DEF IsLast
<1>11. Has(f, Main(i), Gets(v))
  BY <1>5, <1>9, <1>10
<1> QED BY <1>1, <1>11, EffectsApart DEF Has, Gets

\* The text of an address does not look like DHCP.
LEMMA NotDhcp ==
    ASSUME NEW t \in Ip4Texts
    PROVE  ~isDhcpText(t)
<1>1. t[1] = "ip4"
  BY DEF Ip4Texts, Text4
<1>2. Dhcp[1] # "ip4" /\ BadDhcp[1] # "ip4"
  BY DEF Dhcp, BadDhcp
<1> QED BY <1>1, <1>2 DEF isDhcpText

\* What a DHCP record and a static one are read as.
LEMMA ReadMain ==
    ASSUME NEW f, NEW i \in Interfaces \ BadNames, Main(i) \in DOMAIN f, NEW o
    PROVE  /\ f[Main(i)] = Word(o.addr) /\ isDhcpText(o.addr) =>
                 /\ i \in InterfacesRead(f)
                 /\ ReadInterface(f, i).main = Pair(o.addr, NoText)
                 /\ ReadInterface(f, i).more = <<>>
           /\ f[Main(i)] = Inet(<<Pair(o.addr, Dotted(o.mask))>>) /\ InNotation4(o) =>
                 /\ i \in InterfacesRead(f)
                 /\ ReadInterface(f, i).main = Pair(o.addr, o.mask)
<1>1. ASSUME f[Main(i)] = Word(o.addr), isDhcpText(o.addr)
      PROVE  /\ i \in InterfacesRead(f)
             /\ ReadInterface(f, i).main = Pair(o.addr, NoText)
             /\ ReadInterface(f, i).more = <<>>
  <2>1. getIpConfFromString(f[Main(i)]) = <<Pair(o.addr, NoText)>>
    BY <1>1 DEF getIpConfFromString, Word, Pair
  <2>2. i \in InterfacesRead(f)
    <3>1. getIpConfFromString(f[Main(i)]) # <<>>
      BY <2>1
    <3> QED BY <3>1 DEF InterfacesRead
  <2>3. getIpConfFromString(f[Main(i)])[1] = Pair(o.addr, NoText) /\ Pair(o.addr, NoText).addr = o.addr
    BY <2>1 DEF Pair
  <2> QED BY <1>1, <2>2, <2>3 DEF ReadInterface
<1>2. ASSUME f[Main(i)] = Inet(<<Pair(o.addr, Dotted(o.mask))>>), InNotation4(o)
      PROVE  i \in InterfacesRead(f) /\ ReadInterface(f, i).main = Pair(o.addr, o.mask)
  <2>1. PICK w : w = Pair(o.addr, Dotted(o.mask))
    OBVIOUS
  <2>2. Readable(w) /\ Decoded(w) = Pair(o.addr, o.mask)
    BY <1>2, <2>1 DEF Readable, Decoded, InNotation4, MaskReadable, MaskText, Pair, Dotted
  <2>3. f[Main(i)][1] # "word" /\ f[Main(i)][2][1] = w
    BY <1>2, <2>1 DEF Inet
  <2>4. getIpConfFromString(f[Main(i)]) = <<Pair(o.addr, o.mask)>>
    BY <2>2, <2>3 DEF getIpConfFromString
  <2>5. i \in InterfacesRead(f)
    <3>1. getIpConfFromString(f[Main(i)]) # <<>>
      BY <2>4
    <3> QED BY <3>1 DEF InterfacesRead
  <2>6. getIpConfFromString(f[Main(i)])[1] = Pair(o.addr, o.mask) /\ Pair(o.addr, o.mask).addr = o.addr
    BY <2>4 DEF Pair
  <2>7. ~isDhcpText(o.addr)
    BY <1>2, NotDhcp DEF InNotation4
  <2> QED BY <2>5, <2>6, <2>7 DEF ReadInterface
<1> QED BY <1>1, <1>2

\* After SUCCESS the primary address of each interface, static or DHCP, reads
\* back as it was sent, whatever the file was and whatever else the request has.
THEOREM PrimaryComesBack == Spec => []PrimaryReadsBack
<1>1. ASSUME JInv PROVE PrimaryReadsBack
  <2> SUFFICES ASSUME Written, NEW n \in 1..Len(req.ifs), NEW m \in 1..Len(req.ifs[n].addrs),
                      OnlyEntry(n), OnlyPrimary(req.ifs[n].addrs, m),
                      UsableDhcp(req.ifs[n].addrs[m]) \/ InNotation4(req.ifs[n].addrs[m])
               PROVE  LET e == req.ifs[n]
                          o == e.addrs[m]
                          got == ReadInterface(disk, e.name)
                      IN  /\ e.name \in InterfacesRead(disk)
                          /\ IF UsableDhcp(o) THEN got.main = Pair(o.addr, NoText) /\ got.more = <<>>
                             ELSE got.main = Pair(o.addr, o.mask)
    BY DEF PrimaryReadsBack
  <2>1. PICK i, o : i = req.ifs[n].name /\ o = req.ifs[n].addrs[m]
    OBVIOUS
  <2>2. GoodRequest(req) /\ Settled(req, disk)
    BY <1>1, RequestTypes DEF JInv, IInv, SavedInv, GoodRequest
  <2>3. i \in Interfaces \ BadNames
    BY <2>1, <2>2, EntryOf DEF OnlyEntry
  <2>4. Sole(req, n, m) /\ IsPrimary(o)
    BY <2>1 DEF OnlyEntry, OnlyPrimary, Sole
  <2>5. CASE UsableDhcp(o)
    <3>1. ~UsableStatic(o) /\ isDhcpText(o.addr)
      BY <2>5 DEF UsableDhcp, UsableStatic
    <3>2. PrimaryEffect(i, o, Main(i)) = Gets(Word(o.addr))
      BY <2>4, <2>5, <3>1 DEF PrimaryEffect
    <3>3. Main(i) \in DOMAIN disk /\ disk[Main(i)] = Word(o.addr)
      <4>1. PICK v : v = Word(o.addr)
        OBVIOUS
      <4>2. PrimaryEffect(req.ifs[n].name, req.ifs[n].addrs[m], Main(req.ifs[n].name)) = Gets(v)
        BY <2>1, <3>2, <4>1
      <4>3. Main(req.ifs[n].name) \in DOMAIN disk /\ disk[Main(req.ifs[n].name)] = v
        BY <2>2, <2>4, <4>2, MainDecided
      <4> QED BY <2>1, <4>1, <4>3
    <3>4. i \in InterfacesRead(disk) /\ ReadInterface(disk, i).main = Pair(o.addr, NoText)
          /\ ReadInterface(disk, i).more = <<>>
      BY <2>3, <3>1, <3>3, ReadMain
    <3> QED BY <2>1, <2>5, <3>4
  <2>6. CASE ~UsableDhcp(o) /\ InNotation4(o)
    <3>1. UsableStatic(o)
      BY <2>6, NotDhcp DEF InNotation4, UsableStatic, isValidIpAddr
    <3>2. PrimaryEffect(i, o, Main(i)) = Gets(Inet(<<Pair(o.addr, Dotted(o.mask))>>))
      BY <2>4, <2>6, <3>1 DEF PrimaryEffect
    <3>3. Main(i) \in DOMAIN disk /\ disk[Main(i)] = Inet(<<Pair(o.addr, Dotted(o.mask))>>)
      <4>1. PICK v : v = Inet(<<Pair(o.addr, Dotted(o.mask))>>)
        OBVIOUS
      <4>2. PrimaryEffect(req.ifs[n].name, req.ifs[n].addrs[m], Main(req.ifs[n].name)) = Gets(v)
        BY <2>1, <3>2, <4>1
      <4>3. Main(req.ifs[n].name) \in DOMAIN disk /\ disk[Main(req.ifs[n].name)] = v
        BY <2>2, <2>4, <4>2, MainDecided
      <4> QED BY <2>1, <4>1, <4>3
    <3>4. i \in InterfacesRead(disk) /\ ReadInterface(disk, i).main = Pair(o.addr, o.mask)
      BY <2>3, <2>6, <3>3, ReadMain
    <3> QED BY <2>1, <2>6, <3>4
  <2> QED BY <2>1, <2>5, <2>6
<1> QED BY StepInvariance, <1>1, PTL

\* A usable route is the only one of its name.
SoleRoute(r, n) ==
    /\ n \in 1..Len(r.routes) /\ UsableRoute(r.routes[n])
    /\ \A x \in 1..Len(r.routes) : r.routes[x].name = r.routes[n].name => x = n

\* Then nothing else decides about route_<name>, or whether it is active.
LEMMA RouteDecided ==
    ASSUME NEW r, GoodRequest(r), NEW n, SoleRoute(r, n), NEW f, Settled(r, f)
    PROVE  /\ Route(r.routes[n].name) \in DOMAIN f
           /\ f[Route(r.routes[n].name)] = RouteValue(r.routes[n])
           /\ r.routes[n].name \in ActiveIn(r, StepsOf(r)) <=> r.routes[n].enabled
<1> USE DEF SoleRoute
<1>1. PICK rt, k, p : rt = r.routes[n] /\ k = Route(rt.name) /\ p = <<2, n, 0>>
  OBVIOUS
<1>2. Len(r.routes) \in Nat /\ n \in Nat \ {0} /\ n <= Len(r.routes) /\ rt.enabled \in BOOLEAN
  <2>1. r.routes \in Seq(RouteObjects)
    BY DEF GoodRequest
  <2>2. rt \in RouteObjects
    BY <1>1, <2>1
  <2>3. Len(r.routes) \in Nat /\ n \in Nat \ {0} /\ n <= Len(r.routes)
    BY <2>1
  <2> QED BY <2>2, <2>3 DEF RouteObjects
<1>3. p \in StepsOf(r) /\ p[1] = 2 /\ p[2] = n
  BY <1>1, <1>2, PriorRoutes
<1>4. Effect(r, p, k) = Gets(RouteValue(rt))
  BY <1>1, <1>3 DEF Effect, RouteEffect
<1>5. ASSUME NEW q \in StepsOf(r), Effect(r, q, k) # Stays PROVE q = p
  <2>1. q \in Positions /\ (IfStep(r, q) \/ RouteStep(r, q))
    BY StepsFacts
  <2>2. k[1] = "route"
    BY <1>1, KeyTags
  <2>3. \A j, x : k # Main(j) /\ k # Aliases(j) /\ k # Alias(j, x)
    BY <2>2, KeyTags
  <2>4. k # DefaultRouter
    BY <2>2, KeyTags
  <2>5. \A i, o : PrimaryEffect(i, o, k) = Stays
    BY <2>3, <2>4 DEF PrimaryEffect
  <2>6. \A e, d : AliasEffect(e, d, k) = Stays
    BY <2>3 DEF AliasEffect
  <2>7. RouteStep(r, q) /\ RouteEffect(r.routes[q[2]], k) # Stays
    BY <1>5, <2>1, <2>5, <2>6 DEF Effect, IfStep, RouteStep
  <2>8. r.routes[q[2]].name = rt.name
    BY <1>1, <2>7 DEF RouteEffect, Route
  <2>9. q[2] = n
    BY <1>1, <2>7, <2>8 DEF RouteStep
  <2> QED BY <1>1, <2>1, <2>7, <2>9 DEF Positions, RouteStep
<1>6. k \in Keys \ {StaticRoutes}
  BY <1>1, KeyTags DEF Keys, RouteKeys, UsableRoute
<1>7. ~Untouched(r, k, StepsOf(r))
  BY <1>3, <1>4, EffectsApart DEF Untouched
<1>8. PICK q \in StepsOf(r) : IsLast(q, {x \in StepsOf(r) : Effect(r, x, k) # Stays})
                              /\ Has(f, k, Effect(r, q, k))
  BY <1>6, <1>7 DEF Settled, Decided
<1>9. Has(f, k, Gets(RouteValue(rt)))
  BY <1>4, <1>5, <1>8 DEF IsLast
<1>10. k \in DOMAIN f /\ f[k] = RouteValue(rt)
  BY <1>9, EffectsApart DEF Has, Gets
<1>11. rt.name \in ActiveIn(r, StepsOf(r)) <=> rt.enabled
  BY <1>1, <1>2, <1>3 DEF ActiveIn
<1> QED BY <1>1, <1>10, <1>11

\* What a record of a route is read as.
LEMMA ReadRouteValue ==
    ASSUME NEW rt, InNotation4(rt), rt.gw \in Ip4Texts
    PROVE  /\ RouteReadable(RouteValue(rt))
           /\ getRouteConfFromString(RouteValue(rt)) = [addr |-> rt.addr, mask |-> rt.mask, gw |-> rt.gw]
<1>1. CASE rt.mask = Text4(HostMask)
  BY <1>1 DEF RouteValue, ToHost, RouteReadable, getRouteConfFromString, InNotation4
<1>2. CASE rt.mask # Text4(HostMask)
  <2>1. MaskReadable(Dotted(rt.mask)) /\ MaskText(Dotted(rt.mask)) = rt.mask
    BY DEF MaskReadable, MaskText, Dotted, InNotation4
  <2>2. RouteValue(rt) = [kind |-> "net", addr |-> rt.addr, mask |-> Dotted(rt.mask), gw |-> rt.gw]
    BY <1>2 DEF RouteValue, ToNet
  <2> QED BY <2>1, <2>2 DEF RouteReadable, getRouteConfFromString, InNotation4
<1> QED BY <1>1, <1>2

\* After SUCCESS of a request that enables a route, each of its routes reads
\* back with its mask and its status, whatever the file was.
THEOREM RoutesComeBack == Spec => []RoutesReadBack
<1>1. ASSUME JInv PROVE RoutesReadBack
  <2> SUFFICES ASSUME Written, NEW m \in 1..Len(req.routes), UsableRoute(req.routes[m]), req.routes[m].enabled,
                      NEW n \in 1..Len(req.routes), OnlyRoute(n)
               PROVE  RouteReadsBack(req.routes[n])
    BY DEF RoutesReadBack
  <2>1. PICK rt : rt = req.routes[n]
    OBVIOUS
  <2>2. GoodRequest(req) /\ Settled(req, disk)
    BY <1>1, RequestTypes DEF JInv, IInv, SavedInv, GoodRequest
  <2>3. SoleRoute(req, n) /\ InNotation4(rt) /\ rt.gw \in Ip4Texts /\ rt.name \in RouteNames
    BY <2>1 DEF OnlyRoute, SoleRoute, UsableRoute
  <2>4. /\ Route(rt.name) \in DOMAIN disk /\ disk[Route(rt.name)] = RouteValue(rt)
        /\ rt.name \in ActiveIn(req, StepsOf(req)) <=> rt.enabled
    BY <2>1, <2>2, <2>3, RouteDecided
  <2>5. ActiveIn(req, StepsOf(req)) # {}
    <3>1. Len(req.routes) \in Nat
      BY <2>2 DEF GoodRequest
    <3>2. <<2, m, 0>> \in StepsOf(req)
      <4>1. m \in Nat \ {0} /\ m <= Len(req.routes)
        BY <3>1
      <4> QED BY <2>2, <4>1, PriorRoutes
    <3> QED BY <3>2 DEF ActiveIn
  <2>6. StaticRoutes \in DOMAIN disk /\ disk[StaticRoutes] = ActiveIn(req, StepsOf(req))
    BY <2>2, <2>5 DEF Settled
  <2>7. /\ RouteReadable(RouteValue(rt))
        /\ getRouteConfFromString(RouteValue(rt)) = [addr |-> rt.addr, mask |-> rt.mask, gw |-> rt.gw]
    BY <2>3, ReadRouteValue
  <2>8. rt.name \in RoutesRead(disk)
    BY <2>3, <2>4, <2>7 DEF RoutesRead
  <2>9. ReadRoute(disk, rt.name) =
           [data   |-> [addr |-> rt.addr, mask |-> rt.mask, gw |-> rt.gw],
            status |-> IF rt.enabled THEN "ENABLED" ELSE "DISABLED"]
    BY <2>4, <2>6, <2>7 DEF ReadRoute
  <2> QED BY <2>1, <2>8, <2>9 DEF RouteReadsBack
<1> QED BY StepInvariance, <1>1, PTL

-----------------------------------------------------------------------------
(* Positions in a sequence, and loops                                      *)

\* A set of numbers that is not empty has a least one: what stands for induction
\* in the lemmas below.
LEMMA LeastNumber ==
    ASSUME NEW S \in SUBSET Nat, S # {}
    PROVE  \E x \in S : \A y \in S : x <= y
<1> DEFINE R == OpToRel(<, Nat)
<1>1. IsWellFoundedOn(R, Nat)
  BY NatLessThanWellFounded
<1>2. \A x, y \in Nat : x < y => <<x, y>> \in R
  BY DEF OpToRel
<1> HIDE DEF R
<1>3. PICK x \in S : \A y \in S : ~(<<y, x>> \in R)
  <2>1. S \subseteq Nat /\ S # {}
    OBVIOUS
  <2> QED BY <1>1, <2>1, WFMin, Zenon
<1>4. ASSUME NEW y \in S PROVE x <= y
  <2>1. x \in Nat /\ y \in Nat
    OBVIOUS
  <2>2. ~(y < x)
    BY <1>2, <1>3, <2>1, Zenon
  <2> QED BY <2>1, <2>2
<1> QED BY <1>3, <1>4

\* How many of some positions there are up to one.
Rank(T, i) == Cardinality({j \in T : j <= i})

\* The count starts at 0, ends at all of them, and grows by 1 at each of them.
LEMMA RankFacts ==
    ASSUME NEW N \in Nat, NEW T \in SUBSET (1..N)
    PROVE  /\ Cardinality(T) \in Nat /\ Rank(T, 0) = 0 /\ Rank(T, N) = Cardinality(T)
           /\ \A x \in Nat : /\ Rank(T, x) \in Nat
                             /\ Rank(T, x + 1) = IF x + 1 \in T THEN Rank(T, x) + 1 ELSE Rank(T, x)
<1>0. \A j \in T : j \in Nat /\ 1 <= j /\ j <= N
  OBVIOUS
<1>1. IsFiniteSet(T)
  <2>1. IsFiniteSet(1..N)
    BY FS_Interval
  <2> QED BY <2>1, FS_Subset
<1>2. ASSUME NEW x PROVE IsFiniteSet({j \in T : j <= x}) /\ Rank(T, x) \in Nat
  BY <1>1, FS_Subset, FS_CardinalityType DEF Rank
<1>3. Cardinality(T) \in Nat
  BY <1>1, FS_CardinalityType
<1>4. Rank(T, 0) = 0
  <2>1. {j \in T : j <= 0} = {}
    <3>1. \A j \in T : ~(j <= 0)
      BY <1>0
    <3> QED BY <3>1, Zenon
  <2> QED BY <2>1, FS_EmptySet DEF Rank
<1>5. Rank(T, N) = Cardinality(T)
  <2>1. {j \in T : j <= N} = T
    BY <1>0
  <2> QED BY <2>1 DEF Rank
<1>6. ASSUME NEW x \in Nat
      PROVE  Rank(T, x + 1) = IF x + 1 \in T THEN Rank(T, x) + 1 ELSE Rank(T, x)
  <2> DEFINE A == {j \in T : j <= x}
  <2>1. x + 1 \notin A /\ IsFiniteSet(A)
    BY <1>2
  <2>2. {j \in T : j <= x + 1} = IF x + 1 \in T THEN A \cup {x + 1} ELSE A
    <3>1. \A j \in T : j <= x + 1 <=> j <= x \/ j = x + 1
      BY <1>0
    <3> QED BY <3>1
  <2>3. Cardinality(A \cup {x + 1}) = Cardinality(A) + 1
    <3> HIDE DEF A
    <3> QED BY <2>1, FS_AddElement
  <2> QED BY <2>2, <2>3 DEF Rank
<1> QED BY <1>2, <1>3, <1>4, <1>5, <1>6

\* Every number up to theirs is the count at one of them, so the CHOOSE in Chosen
\* has something to choose.
LEMMA RankFound ==
    ASSUME NEW N \in Nat, NEW T \in SUBSET (1..N), NEW n \in 1..Cardinality(T)
    PROVE  \E i \in T : Rank(T, i) = n
<1> DEFINE S == {x \in Nat : Rank(T, x) >= n}
<1>1. Cardinality(T) \in Nat /\ Rank(T, 0) = 0 /\ Rank(T, N) = Cardinality(T)
  BY RankFacts
<1>2. N \in S
  BY <1>1
<1>3. PICK x \in S : \A y \in S : x <= y
  <2>1. S \in SUBSET Nat /\ S # {}
    BY <1>2
  <2> QED BY <2>1, LeastNumber
<1>4. x \in Nat /\ Rank(T, x) >= n /\ x # 0
  BY <1>1
<1>5. PICK y \in Nat : x = y + 1
  <2>1. x - 1 \in Nat /\ x = (x - 1) + 1
    BY <1>4
  <2> QED BY <2>1
<1>6. Rank(T, y) \in Nat /\ Rank(T, x) = IF x \in T THEN Rank(T, y) + 1 ELSE Rank(T, y)
  BY <1>5, RankFacts
<1>7. ~(Rank(T, y) >= n)
  BY <1>3, <1>5
<1>8. x \in T /\ Rank(T, x) = n
  BY <1>1, <1>4, <1>6, <1>7
<1> QED BY <1>8

\* The elements that are chosen are elements at the positions.
LEMMA ChosenFacts ==
    ASSUME NEW N \in Nat, NEW T \in SUBSET (1..N), NEW s
    PROVE  /\ Len(Chosen(s, T)) = Cardinality(T) /\ Cardinality(T) \in Nat
           /\ DOMAIN Chosen(s, T) = 1..Cardinality(T)
           /\ \A n \in 1..Cardinality(T) : \E i \in T : \A t : Chosen(t, T)[n] = t[i]
<1>1. Cardinality(T) \in Nat
  BY RankFacts
<1>2. DOMAIN Chosen(s, T) = 1..Cardinality(T) /\ Len(Chosen(s, T)) = Cardinality(T)
  BY <1>1 DEF Chosen
<1>3. ASSUME NEW n \in 1..Cardinality(T)
      PROVE  \E i \in T : \A t : Chosen(t, T)[n] = t[i]
  <2> DEFINE c == CHOOSE i \in T : Cardinality({j \in T : j <= i}) = n
  <2>1. c \in T
    BY RankFound DEF Rank
  <2>2. \A t : Chosen(t, T)[n] = t[c]
    BY DEF Chosen
  <2> HIDE DEF c
  <2> QED BY <2>1, <2>2
<1> QED BY <1>1, <1>2, <1>3

\* Those of neighbouring positions are the part of the sequence that is there.
LEMMA ChosenPart ==
    ASSUME NEW a \in Nat, NEW m \in Nat, NEW s
    PROVE  Chosen(s, (a + 1)..(a + m)) = [n \in 1..m |-> s[a + n]]
<1> DEFINE T == (a + 1)..(a + m)
<1>1. Cardinality(T) = m
  <2>1. CASE m = 0
    <3>1. T = {}
      BY <2>1
    <3> QED BY <2>1, <3>1, FS_EmptySet
  <2>2. CASE m # 0
    <3>1. a + 1 \in Int /\ a + m \in Int /\ ~(a + 1 > a + m) /\ (a + m) - (a + 1) + 1 = m
      BY <2>2
    <3> QED BY <3>1, FS_Interval
  <2> QED BY <2>1, <2>2
<1>2. ASSUME NEW i \in T PROVE Cardinality({j \in T : j <= i}) = i - a
  <2>1. {j \in T : j <= i} = (a + 1)..i
    OBVIOUS
  <2>2. a + 1 \in Int /\ i \in Int /\ ~(a + 1 > i) /\ i - (a + 1) + 1 = i - a
    OBVIOUS
  <2>3. Cardinality((a + 1)..i) = i - a
    BY <2>2, FS_Interval
  <2> QED BY <2>1, <2>3
<1>3. ASSUME NEW n \in 1..m PROVE (CHOOSE i \in T : Cardinality({j \in T : j <= i}) = n) = a + n
  <2>1. \A i \in T : Cardinality({j \in T : j <= i}) = n <=> i = a + n
    BY <1>2
  <2>2. a + n \in T
    OBVIOUS
  <2> HIDE DEF T
  <2> QED BY <2>1, <2>2
<1> HIDE DEF T
<1>4. Chosen(s, T) = [n \in 1..m |-> s[a + n]]
  <2>1. DOMAIN Chosen(s, T) = 1..m /\ Chosen(s, T) = [n \in DOMAIN Chosen(s, T) |-> Chosen(s, T)[n]]
    BY <1>1 DEF Chosen
  <2>2. ASSUME NEW n \in 1..m PROVE Chosen(s, T)[n] = s[a + n]
    <3>1. Chosen(s, T)[n] = s[CHOOSE i \in T : Cardinality({j \in T : j <= i}) = n]
      BY <1>1 DEF Chosen
    <3> QED BY <1>3, <3>1
  <2> QED BY <2>1, <2>2
<1> QED BY <1>4 DEF T

\* A set that is closed under the steps of a loop has the number of its rounds.
LEMMA Rounds ==
    ASSUME NEW N \in Nat, NEW S, 0 \in S, \A n \in Nat : n < N /\ n \in S => n + 1 \in S
    PROVE  \A n \in 0..N : n \in S
<1> SUFFICES ASSUME NEW z \in 0..N, z \notin S PROVE FALSE
  OBVIOUS
<1> DEFINE B == {n \in Nat : n <= N /\ n \notin S}
<1>1. B \in SUBSET Nat /\ z \in B
  OBVIOUS
<1>2. PICK x \in B : \A y \in B : x <= y
  BY <1>1, LeastNumber
<1>3. x \in Nat /\ x <= N /\ x \notin S /\ x # 0
  BY <1>2
<1>4. x - 1 \in Nat /\ x - 1 < N /\ (x - 1) + 1 = x /\ ~(x <= x - 1)
  BY <1>3
<1>5. x - 1 \in S
  <2>1. x - 1 \notin B
    BY <1>2, <1>4
  <2> QED BY <1>4, <2>1
<1> QED BY <1>3, <1>4, <1>5

-----------------------------------------------------------------------------
(* The loop that collects aliases                                          *)

\* What it starts with, and its rounds.
NothingSeen == [seen |-> [i \in {} |-> <<>>], done |-> FALSE]
IsLoop(f, n, g) ==
    g = [m \in 0..n |-> IF m = 0 THEN NothingSeen ELSE CollectOne(f, g[m - 1], KeyOrder[m])]

\* There is such a function, so that the CHOOSE behind CollectLoop finds it.
LEMMA LoopExists ==
    ASSUME NEW f, NEW N \in Nat
    PROVE  \E g : IsLoop(f, N, g)
<1> DEFINE S == {n \in Nat : \E g : IsLoop(f, n, g)}
<1>1. 0 \in S
  <2>1. IsLoop(f, 0, [m \in 0..0 |-> NothingSeen])
    <3>1. \A m \in 0..0 : m = 0
      OBVIOUS
    <3> QED BY <3>1 DEF IsLoop
  <2> QED BY <2>1
<1>2. ASSUME NEW n \in Nat, n \in S PROVE n + 1 \in S
  <2>1. PICK g : IsLoop(f, n, g)
    BY <1>2
  <2>2. /\ g[0] = NothingSeen
        /\ \A m \in 1..n : g[m] = CollectOne(f, g[m - 1], KeyOrder[m])
    <3>1. /\ g = [m \in 0..n |-> IF m = 0 THEN NothingSeen ELSE CollectOne(f, g[m - 1], KeyOrder[m])]
          /\ 0 \in 0..n /\ \A m \in 1..n : m \in 0..n /\ m # 0
      BY <2>1 DEF IsLoop
    <3> QED BY <3>1
  <2> DEFINE h == [m \in 0..(n + 1) |-> IF m = n + 1 THEN CollectOne(f, g[n], KeyOrder[n + 1]) ELSE g[m]]
  <2>3. /\ h[n + 1] = CollectOne(f, g[n], KeyOrder[n + 1])
        /\ \A m \in 0..n : h[m] = g[m]
    OBVIOUS
  <2>4. ASSUME NEW m \in 0..(n + 1)
        PROVE  h[m] = IF m = 0 THEN NothingSeen ELSE CollectOne(f, h[m - 1], KeyOrder[m])
    <3>1. CASE m = 0
      BY <2>2, <2>3, <3>1
    <3>2. CASE m \in 1..n
      <4>1. m # 0 /\ m \in 0..n /\ m - 1 \in 0..n
        BY <3>2
      <4>2. h[m] = g[m] /\ h[m - 1] = g[m - 1]
        BY <2>3, <4>1
      <4> QED BY <2>2, <3>2, <4>1, <4>2
    <3>3. CASE m = n + 1
      <4>1. m # 0 /\ m - 1 = n /\ n \in 0..n
        BY <3>3
      <4>2. h[n] = g[n]
        BY <2>3, <4>1
      <4> QED BY <2>3, <3>3, <4>1, <4>2
    <3> QED BY <3>1, <3>2, <3>3
  <2>5. h = [m \in 0..(n + 1) |-> h[m]]
    OBVIOUS
  <2> HIDE DEF h
  <2>6. IsLoop(f, n + 1, h)
    BY <2>4, <2>5 DEF IsLoop
  <2> QED BY <2>6
<1>3. \A n \in 0..N : n \in S
  <2> HIDE DEF S
  <2> QED BY <1>1, <1>2, Rounds
<1> QED BY <1>3

\* CollectLoop is one: it starts with nothing and makes one round per key.
LEMMA LoopFacts ==
    ASSUME NEW f
    PROVE  /\ Len(KeyOrder) \in Nat
           /\ CollectLoop(f)[0] = NothingSeen
           /\ \A n \in 1..Len(KeyOrder) :
                 CollectLoop(f)[n] = CollectOne(f, CollectLoop(f)[n - 1], KeyOrder[n])
<1>1. Len(KeyOrder) \in Nat
  BY KeyOrderAssumption
<1>2. CollectLoop(f) = CHOOSE g : IsLoop(f, Len(KeyOrder), g)
  BY DEF CollectLoop, IsLoop, NothingSeen
<1>3. IsLoop(f, Len(KeyOrder), CollectLoop(f))
  BY <1>1, <1>2, LoopExists
<1>4. /\ 0 \in 0..Len(KeyOrder)
      /\ \A n \in 1..Len(KeyOrder) : n \in 0..Len(KeyOrder) /\ n # 0
  BY <1>1
<1> QED BY <1>1, <1>3, <1>4 DEF IsLoop

\* The kinds of ifconfig_ keys.
LEMMA IfKeyKinds ==
    ASSUME NEW k \in IfKeys
    PROVE  \E j \in Interfaces \ BadNames :
              k = Main(j) \/ k = Aliases(j) \/ \E x \in 0..MAX_ALIASES : k = Alias(j, x)
BY DEF IfKeys, IfKeysOf

\* The parts of these keys.
LEMMA IfKeyParts ==
    ASSUME NEW j, NEW x
    PROVE  /\ Main(j)[1] = "ifconfig" /\ Main(j)[2] = j
           /\ Aliases(j)[1] = "aliases" /\ Aliases(j)[2] = j
           /\ Alias(j, x)[1] = "alias" /\ Alias(j, x)[2] = j
BY DEF Main, Aliases, Alias

\* What the loop has is a record.
IsAcc(acc) == acc = [seen |-> acc.seen, done |-> acc.done] /\ acc.done \in BOOLEAN

\* An address and a mask that getIpConfFromString has read.
Pairs4 == [addr : Ip4Texts, mask : Ip4Texts]

\* A record that says something other than DHCP says an address and a mask.
LEMMA ReadOne ==
    ASSUME NEW v, getIpConfFromString(v) # <<>>, ~(v[1] = "word" /\ isDhcpText(v[2]))
    PROVE  \E p \in Pairs4 : getIpConfFromString(v) = <<p>>
<1>1. v[1] # "word" /\ Readable(v[2][1]) /\ getIpConfFromString(v) = <<Decoded(v[2][1])>>
  BY DEF getIpConfFromString
<1>2. Decoded(v[2][1]) \in Pairs4
  BY <1>1, MaskTextType DEF Readable, Decoded, Pairs4
<1> QED BY <1>1, <1>2

\* A round of the loop, for a record that is none of i's.
LEMMA CollectOther ==
    ASSUME NEW f, NEW acc, IsAcc(acc), NEW k \in IfKeys, NEW i, k[2] # i \/ k[1] = "ifconfig"
    PROVE  LET new == CollectOne(f, acc, k)
           IN  IsAcc(new) /\ Agree(new.seen, acc.seen, i) /\ (acc.done => new.done)
<1>0. PICK new : new = CollectOne(f, acc, k)
  OBVIOUS
<1>1. ASSUME new = acc PROVE IsAcc(new) /\ Agree(new.seen, acc.seen, i) /\ (acc.done => new.done)
  BY <1>1 DEF Agree
<1>2. ASSUME NEW v, NEW d \in BOOLEAN, acc.done => d, k[2] # i,
             new = [seen |-> Put(acc.seen, k[2], v), done |-> d]
      PROVE  IsAcc(new) /\ Agree(new.seen, acc.seen, i) /\ (acc.done => new.done)
  <2>1. new.seen = Put(acc.seen, k[2], v) /\ new.done = d
    BY <1>2
  <2>2. Agree(Put(acc.seen, k[2], v), acc.seen, i)
    BY ONLY k[2] # i, PutFacts
  <2>3. Agree(new.seen, acc.seen, i)
    BY <2>1, <2>2
  <2> QED BY <1>2, <2>1, <2>3 DEF IsAcc
<1>3. ASSUME k[1] = "ifconfig" PROVE IsAcc(new) /\ Agree(new.seen, acc.seen, i) /\ (acc.done => new.done)
  <2>1. new = acc
    BY <1>0, <1>3 DEF CollectOne
  <2> QED BY <1>1, <2>1
<1>4. ASSUME k[1] = "aliases" /\ k[2] # i PROVE IsAcc(new) /\ Agree(new.seen, acc.seen, i) /\ (acc.done => new.done)
  <2>1. new = acc \/ new = [seen |-> Put(acc.seen, k[2], getAliases(f[k])), done |-> TRUE]
    BY <1>0, <1>4 DEF CollectOne
  <2> QED BY <1>1, <1>2, <1>4, <2>1
<1>5. ASSUME k[1] = "alias" /\ k[2] # i PROVE IsAcc(new) /\ Agree(new.seen, acc.seen, i) /\ (acc.done => new.done)
  <2>1. new = acc \/ \E v : new = [acc EXCEPT !.seen = Put(acc.seen, k[2], v)]
    BY <1>0, <1>5 DEF CollectOne
  <2>2. ASSUME NEW v PROVE [acc EXCEPT !.seen = Put(acc.seen, k[2], v)]
                             = [seen |-> Put(acc.seen, k[2], v), done |-> acc.done]
    BY DEF IsAcc
  <2> QED BY <1>1, <1>2, <1>5, <2>1, <2>2 DEF IsAcc
<1>6. k[1] \in {"ifconfig", "aliases", "alias"}
  BY IfKeyKinds, IfKeyParts
<1> QED BY <1>0, <1>3, <1>4, <1>5, <1>6

\* What a round makes of its aliases record, or of a record with one alias.
RecordSeen(f, i, acc, new) ==
    /\ IsAcc(new)
    /\ Aliases(i) \notin DOMAIN f \/ i \in DOMAIN acc.seen => new = acc
    /\ Aliases(i) \in DOMAIN f /\ i \notin DOMAIN acc.seen =>
          i \in DOMAIN new.seen /\ new.seen[i] = getAliases(f[Aliases(i)]) /\ new.done
SingleSeen(f, i, k, acc, new) ==
    /\ IsAcc(new)
    /\ \/ new = acc
       \/ /\ ~acc.done /\ k \in DOMAIN f /\ getIpConfFromString(f[k]) # <<>> /\ i \in DOMAIN new.seen
          /\ new.seen[i] = (IF i \in DOMAIN acc.seen THEN acc.seen[i] ELSE <<>>) \o getIpConfFromString(f[k])

\* CollectOne at the aliases record of an interface.
LEMMA CollectAliases ==
    ASSUME NEW f, NEW acc, IsAcc(acc), NEW i, NEW new, new = CollectOne(f, acc, Aliases(i))
    PROVE  RecordSeen(f, i, acc, new)
<1> USE DEF RecordSeen
<1>0. Aliases(i)[1] = "aliases" /\ Aliases(i)[2] = i
  BY IfKeyParts
<1>1. CASE Aliases(i) \notin DOMAIN f \/ i \in DOMAIN acc.seen
  <2>1. new = acc
    BY <1>0, <1>1 DEF CollectOne
  <2> QED BY <1>1, <2>1
<1>2. CASE Aliases(i) \in DOMAIN f /\ i \notin DOMAIN acc.seen
  <2>1. PICK v : v = getAliases(f[Aliases(i)])
    OBVIOUS
  <2>2. new = [seen |-> Put(acc.seen, i, v), done |-> TRUE]
    BY <1>0, <1>2, <2>1 DEF CollectOne
  <2>3. new.seen = Put(acc.seen, i, v) /\ new.done = TRUE
    BY <2>2
  <2>4. i \in DOMAIN new.seen /\ new.seen[i] = v
    BY <2>3 DEF Put
  <2>5. IsAcc(new)
    BY <2>2, <2>3 DEF IsAcc
  <2> QED BY <1>2, <2>1, <2>3, <2>4, <2>5
<1> QED BY <1>1, <1>2

\* CollectOne at a record with one alias.
LEMMA CollectAlias ==
    ASSUME NEW f, NEW acc, IsAcc(acc), NEW i, NEW x, NEW new, new = CollectOne(f, acc, Alias(i, x))
    PROVE  SingleSeen(f, i, Alias(i, x), acc, new)
<1> USE DEF SingleSeen
<1>1. PICK k : k = Alias(i, x) /\ k[1] = "alias" /\ k[2] = i
  BY IfKeyParts
<1>2. PICK got : got = getIpConfFromString(f[k])
  OBVIOUS
<1>3. new = CollectOne(f, acc, k)
  BY <1>1
<1>4. CASE k \in DOMAIN f /\ ~acc.done /\ got # <<>>
  <2>1. PICK v : v = (IF i \in DOMAIN acc.seen THEN acc.seen[i] ELSE <<>>) \o got
    OBVIOUS
  <2>2. new = [acc EXCEPT !.seen = Put(acc.seen, i, v)]
    BY <1>1, <1>2, <1>3, <1>4, <2>1 DEF CollectOne
  <2>3. new = [seen |-> Put(acc.seen, i, v), done |-> acc.done]
    BY <2>2 DEF IsAcc
  <2>4. new.seen = Put(acc.seen, i, v) /\ new.done = acc.done
    BY <2>3
  <2>5. i \in DOMAIN new.seen /\ new.seen[i] = v
    BY <2>4 DEF Put
  <2>6. IsAcc(new)
    BY <2>3, <2>4 DEF IsAcc
  <2> QED BY <1>1, <1>2, <1>4, <2>1, <2>4, <2>5, <2>6
<1>5. CASE ~(k \in DOMAIN f /\ ~acc.done /\ got # <<>>)
  <2>1. new = acc
    BY <1>1, <1>2, <1>3, <1>5 DEF CollectOne
  <2> QED BY <1>1, <1>2, <2>1
<1> QED BY <1>4, <1>5

\* What the loop has seen of i: its aliases record, or at least one of its
\* records with one alias.
HasSingle(f, i) == \E x \in 0..MAX_ALIASES : Alias(i, x) \in DOMAIN f
FromRecord(f, i, acc) ==
    acc.done /\ Aliases(i) \in DOMAIN f /\ acc.seen[i] = getAliases(f[Aliases(i)])
FromSingles(f, i, acc) == HasSingle(f, i) /\ acc.seen[i] \in Seq(Pairs4) /\ acc.seen[i] # <<>>
Told(f, i, acc) ==
    IsAcc(acc) /\ (i \in DOMAIN acc.seen => FromRecord(f, i, acc) \/ FromSingles(f, i, acc))

\* None of them says DHCP.
SinglesStatic(f, i) ==
    \A x \in 0..MAX_ALIASES : Alias(i, x) \in DOMAIN f =>
        ~(f[Alias(i, x)][1] = "word" /\ isDhcpText(f[Alias(i, x)][2]))

\* A round keeps it, and forgets no interface,
LEMMA ToldStep ==
    ASSUME NEW f, NEW i, SinglesStatic(f, i), NEW acc, Told(f, i, acc), NEW k \in IfKeys
    PROVE  LET new == CollectOne(f, acc, k)
           IN  /\ Told(f, i, new)
               /\ i \in DOMAIN acc.seen => i \in DOMAIN new.seen
               /\ k = Aliases(i) /\ k \in DOMAIN f => i \in DOMAIN new.seen
<1>0. PICK new : new = CollectOne(f, acc, k)
  OBVIOUS
<1> DEFINE Goal == /\ Told(f, i, new)
                   /\ i \in DOMAIN acc.seen => i \in DOMAIN new.seen
                   /\ k = Aliases(i) /\ k \in DOMAIN f => i \in DOMAIN new.seen
<1>1. IsAcc(acc)
  BY DEF Told
<1>2. ASSUME new = acc PROVE Told(f, i, new) /\ (i \in DOMAIN acc.seen => i \in DOMAIN new.seen)
  BY <1>2
<1>3. CASE k[2] # i \/ k[1] = "ifconfig"
  <2>1. IsAcc(new) /\ Agree(new.seen, acc.seen, i) /\ (acc.done => new.done)
    BY <1>0, <1>1, <1>3, CollectOther
  <2>2. k # Aliases(i)
    BY <1>3, IfKeyParts
  <2>3. Told(f, i, new)
    BY <2>1 DEF Told, FromRecord, FromSingles, Agree
  <2> QED BY <1>0, <2>1, <2>2, <2>3 DEF Agree
<1>4. CASE k = Aliases(i)
  <2>1. /\ IsAcc(new)
        /\ k \notin DOMAIN f \/ i \in DOMAIN acc.seen => new = acc
        /\ k \in DOMAIN f /\ i \notin DOMAIN acc.seen =>
              i \in DOMAIN new.seen /\ new.seen[i] = getAliases(f[k]) /\ new.done
    <3>1. RecordSeen(f, i, acc, new)
      BY <1>0, <1>1, <1>4, CollectAliases
    <3> QED BY <1>4, <3>1 DEF RecordSeen
  <2>2. CASE k \notin DOMAIN f \/ i \in DOMAIN acc.seen
    BY <1>0, <1>2, <2>1, <2>2
  <2>3. CASE k \in DOMAIN f /\ i \notin DOMAIN acc.seen
    <3>1. FromRecord(f, i, new)
      BY <1>4, <2>1, <2>3 DEF FromRecord
    <3> QED BY <1>0, <2>1, <2>3, <3>1 DEF Told
  <2> QED BY <2>2, <2>3
<1>5. ASSUME NEW x \in 0..MAX_ALIASES, k = Alias(i, x) PROVE Goal
  <2>1. PICK got : got = getIpConfFromString(f[k])
    OBVIOUS
  <2>2. /\ IsAcc(new)
        /\ \/ new = acc
           \/ /\ ~acc.done /\ k \in DOMAIN f /\ got # <<>> /\ i \in DOMAIN new.seen
              /\ new.seen[i] = (IF i \in DOMAIN acc.seen THEN acc.seen[i] ELSE <<>>) \o got
    <3>1. SingleSeen(f, i, k, acc, new)
      BY <1>0, <1>1, <1>5, CollectAlias
    <3> QED BY <2>1, <3>1 DEF SingleSeen
  <2>3. k # Aliases(i)
    BY <1>5, IfKeyParts
  <2>4. CASE new = acc
    BY <1>2, <2>3, <2>4
  <2>5. CASE new # acc
    <3>1. PICK p \in Pairs4 : got = <<p>>
      BY <1>5, <2>1, <2>2, <2>5, ReadOne DEF SinglesStatic
    <3>2. PICK old : old = IF i \in DOMAIN acc.seen THEN acc.seen[i] ELSE <<>>
      OBVIOUS
    <3>3. old \in Seq(Pairs4)
      BY <2>2, <2>5, <3>2 DEF Told, FromRecord, FromSingles
    <3>4. new.seen[i] = old \o <<p>>
      BY <2>2, <2>5, <3>1, <3>2
    <3>5. new.seen[i] \in Seq(Pairs4) /\ new.seen[i] # <<>>
      <4>1. old \o <<p>> \in Seq(Pairs4) /\ Len(old \o <<p>>) = Len(old) + 1 /\ Len(old) \in Nat
        BY <3>3
      <4>2. old \o <<p>> # <<>>
        BY <4>1
      <4> QED BY <3>4, <4>1, <4>2
    <3>6. HasSingle(f, i)
      BY <1>5, <2>2, <2>5 DEF HasSingle
    <3> QED BY <2>2, <2>3, <2>5, <3>5, <3>6 DEF Told, FromSingles
  <2> QED BY <2>4, <2>5
<1>6. k[2] # i \/ k[1] = "ifconfig" \/ k = Aliases(i) \/ \E x \in 0..MAX_ALIASES : k = Alias(i, x)
  BY IfKeyKinds, IfKeyParts
<1> QED BY <1>0, <1>3, <1>4, <1>5, <1>6

\* and so it holds at the end: getRcIpConfig has the aliases of an interface
\* from its aliases record, if there is one, or else from single ones.
LEMMA CollectedFrom ==
    ASSUME NEW f, NEW i \in Interfaces \ BadNames, SinglesStatic(f, i)
    PROVE  /\ Aliases(i) \in DOMAIN f => i \in DOMAIN Collected(f)
           /\ i \in DOMAIN Collected(f) =>
                 \/ Aliases(i) \in DOMAIN f /\ Collected(f)[i] = getAliases(f[Aliases(i)])
                 \/ HasSingle(f, i) /\ Collected(f)[i] \in Seq(Pairs4) /\ Collected(f)[i] # <<>>
<1> DEFINE N    == Len(KeyOrder)
           L(n) == CollectLoop(f)[n]
           S    == {n \in Nat : /\ Told(f, i, L(n))
                                /\ \A m \in 1..n : KeyOrder[m] = Aliases(i) /\ Aliases(i) \in DOMAIN f
                                                       => i \in DOMAIN L(n).seen}
<1>1. /\ N \in Nat /\ L(0) = NothingSeen
      /\ \A n \in 1..N : L(n) = CollectOne(f, L(n - 1), KeyOrder[n])
  BY LoopFacts
<1>2. \A n \in 1..N : KeyOrder[n] \in IfKeys
  BY KeyOrderAssumption
<1> HIDE DEF N, L
<1>3. 0 \in S
  <2>1. Told(f, i, NothingSeen)
    BY DEF Told, NothingSeen, IsAcc
  <2>2. 1..0 = {}
    OBVIOUS
  <2> QED BY <1>1, <2>1, <2>2
<1>4. ASSUME NEW n \in Nat, n < N, n \in S PROVE n + 1 \in S
  <2>1. n + 1 \in 1..N /\ (n + 1) - 1 = n
    BY <1>1, <1>4
  <2>2. L(n + 1) = CollectOne(f, L(n), KeyOrder[n + 1]) /\ KeyOrder[n + 1] \in IfKeys
    BY <1>1, <1>2, <2>1
  <2>3. Told(f, i, L(n))
    BY <1>4
  <2>4. /\ Told(f, i, L(n + 1))
        /\ i \in DOMAIN L(n).seen => i \in DOMAIN L(n + 1).seen
        /\ KeyOrder[n + 1] = Aliases(i) /\ Aliases(i) \in DOMAIN f => i \in DOMAIN L(n + 1).seen
    BY <2>2, <2>3, ToldStep
  <2>5. ASSUME NEW m \in 1..(n + 1), KeyOrder[m] = Aliases(i), Aliases(i) \in DOMAIN f
        PROVE  i \in DOMAIN L(n + 1).seen
    <3>1. CASE m = n + 1
      BY <2>4, <2>5, <3>1
    <3>2. CASE m # n + 1
      <4>1. m \in 1..n
        BY <3>2
      <4> QED BY <1>4, <2>4, <2>5, <4>1
    <3> QED BY <3>1, <3>2
  <2> QED BY <2>4, <2>5
<1>5. \A n \in 0..N : n \in S
  <2> HIDE DEF S
  <2> QED BY <1>1, <1>3, <1>4, Rounds
<1>6. N \in 0..N
  BY <1>1
<1>7. /\ Told(f, i, L(N)) /\ Collected(f) = L(N).seen
      /\ \A m \in 1..N : KeyOrder[m] = Aliases(i) /\ Aliases(i) \in DOMAIN f => i \in DOMAIN L(N).seen
  BY <1>5, <1>6 DEF Collected, L, N
<1>8. \E m \in 1..N : KeyOrder[m] = Aliases(i)
  <2>1. Aliases(i) \in IfKeys
    BY DEF IfKeys, IfKeysOf
  <2> QED BY <2>1, KeyOrderAssumption DEF N
<1> QED BY <1>7, <1>8 DEF Told, FromRecord, FromSingles

-----------------------------------------------------------------------------
(* The file that a request found                                           *)

\* The lists of aliases have a length.
LEMMA AliasLists ==
    ASSUME NEW addrs, addrs \in Seq(AddrObjects)
    PROVE  /\ Len(AliasesIn(addrs)) \in Nat
           /\ Len(AliasPairs(addrs)) = Len(AliasesIn(addrs))
           /\ AliasPairs(addrs) = [n \in 1..Len(AliasesIn(addrs)) |->
                 Pair(AliasesIn(addrs)[n].addr, Dotted(AliasesIn(addrs)[n].mask))]
<1>1. Len(AliasesIn(addrs)) \in Nat
  <2> DEFINE T == {n \in 1..Len(addrs) : IsAlias(addrs[n])}
  <2>1. Len(addrs) \in Nat /\ T \in SUBSET (1..Len(addrs))
    OBVIOUS
  <2>2. AliasesIn(addrs) = Chosen(addrs, T)
    BY DEF AliasesIn
  <2> HIDE DEF T
  <2> QED BY <2>1, <2>2, ChosenFacts
<1> QED BY <1>1 DEF AliasPairs

\* They are empty if they have no element.
LEMMA AliasesSeq ==
    ASSUME NEW addrs, AliasesIn(addrs) # <<>>, addrs \in Seq(AddrObjects)
    PROVE  Len(AliasesIn(addrs)) # 0
<1> DEFINE T == {n \in 1..Len(addrs) : IsAlias(addrs[n])}
<1>1. Len(addrs) \in Nat /\ T \in SUBSET (1..Len(addrs)) /\ AliasesIn(addrs) = Chosen(addrs, T)
  BY DEF AliasesIn
<1> HIDE DEF T
<1>2. Len(Chosen(addrs, T)) = Cardinality(T)
  BY <1>1, ChosenFacts
<1>3. Cardinality(T) = 0 => Chosen(addrs, T) = <<>>
  BY DEF Chosen
<1> QED BY <1>1, <1>2, <1>3

\* What a step gives to an ifconfig_ key is a word or a list.
LEMMA EffectFormed ==
    ASSUME NEW r, GoodRequest(r), NEW p \in StepsOf(r), NEW k \in IfKeys, NEW v, Effect(r, p, k) = Gets(v)
    PROVE  v[1] = "word" \/ Len(v[2]) \in Nat
<1>1. \A w : Gets(w) = Gets(v) => w = v
  BY DEF Gets
<1>2. k # DefaultRouter /\ \A x : k # Route(x)
  BY IfKeyKinds, KeyTags
<1>3. \A rt : RouteEffect(rt, k) = Stays
  BY <1>2 DEF RouteEffect
<1>4. \A w : Word(w)[1] = "word" /\ Inet(w)[2] = w
  BY DEF Word, Inet
<1>5. p \in Positions /\ (IfStep(r, p) \/ RouteStep(r, p))
  BY StepsFacts
<1>6. p[1] = 1 /\ p[2] \in 1..Len(r.ifs)
  BY <1>3, <1>5, EffectsApart DEF Effect, IfStep, RouteStep
<1>7. PICK e : e = r.ifs[p[2]]
  OBVIOUS
<1>8. e.addrs \in Seq(AddrObjects)
  BY <1>6, <1>7, EntryOf
<1>9. CASE p[3] <= Len(e.addrs)
  <2>1. PICK o : o = e.addrs[p[3]]
    OBVIOUS
  <2>2. PrimaryEffect(e.name, o, k) = Gets(v)
    BY <1>6, <1>7, <1>9, <2>1 DEF Effect
  <2>3. v = Word(o.addr) \/ v = Inet(<<Pair(o.addr, Dotted(o.mask))>>)
    BY <1>1, <1>2, <2>2, EffectsApart DEF PrimaryEffect
  <2> QED BY <1>4, <2>3
<1>10. CASE ~(p[3] <= Len(e.addrs))
  <2>1. \E d : AliasEffect(e, d, k) = Gets(v)
    BY <1>6, <1>7, <1>10 DEF Effect
  <2>2. v = Inet(AliasPairs(e.addrs))
    BY <1>1, <2>1, EffectsApart DEF AliasEffect
  <2> QED BY <1>4, <1>8, <2>2, AliasLists
<1> QED BY <1>9, <1>10

\* So a merge keeps that of a file.
LEMMA MergedFormed ==
    ASSUME NEW r, GoodRequest(r), NEW f, NEW g, Formed(g), NEW S \in SUBSET StepsOf(r), Merged(r, f, g, S)
    PROVE  Formed(f)
<1> SUFFICES ASSUME NEW k \in IfKeys, k \in DOMAIN f PROVE f[k][1] = "word" \/ Len(f[k][2]) \in Nat
  BY DEF Formed
<1>1. k \in Keys
  BY DEF Keys
<1>2. CASE Agree(f, g, k)
  BY <1>2 DEF Agree, Formed
<1>3. CASE Decided(r, f, k, S)
  <2>1. PICK p \in S : Has(f, k, Effect(r, p, k))
    BY <1>3 DEF Decided
  <2>2. Effect(r, p, k) = Gets(f[k])
    BY <2>1 DEF Has
  <2> QED BY <2>2, EffectFormed
<1> QED BY <1>1, <1>2, <1>3 DEF Merged

\* What is written keeps what the steps leave alone.
LEMMA SaveConfOrigin ==
    ASSUME KInv, SaveConf, JInv'
    PROVE  OriginInv' /\ FormInv'
<1>1. /\ UNCHANGED <<req, before>> /\ pc = "save" /\ Merged(req, ini, disk, Past)
      /\ active = ActiveIn(req, Past) /\ OriginInv /\ SavedInv /\ SavedInv' /\ Formed(disk) /\ Formed(before)
  BY DEF SaveConf, KInv, JInv, StepInv, FormInv
<1>2. GoodRequest(req)
  BY RequestTypes DEF KInv, JInv, IInv, GoodRequest
<1>3. Past = StepsOf(req)
  <2>1. Here = <<3, 0, 0>>
    BY <1>1 DEF Here
  <2>2. 1 \in Nat \ {0}
    OBVIOUS
  <2>3. Prior(req, <<3, 0, 0>>) = StepsOf(req)
    BY <1>2, <2>2, PriorRoutes
  <2> QED BY <2>1, <2>3 DEF Past
<1>4. PICK S : S = StepsOf(req)
  OBVIOUS
<1>5. Merged(req, ini, disk, S) /\ active = ActiveIn(req, S)
  BY <1>1, <1>3, <1>4
<1>6. CASE UNCHANGED <<disk, saved>>
  BY <1>1, <1>6 DEF OriginInv, FormInv
<1>7. CASE disk' = WithActive(ini) /\ saved' = IF saved = {} THEN {disk'} ELSE saved
  <2>1. \A k \in Keys \ {StaticRoutes} : Agree(disk', ini, k)
    <3>1. CASE active = {}
      BY <1>7, <3>1 DEF WithActive, Agree
    <3>2. CASE active # {}
      BY <1>7, <3>2, PutFacts DEF WithActive
    <3> QED BY <3>1, <3>2
  <2>2. FormInv'
    <3>1. Formed(ini)
      BY <1>1, <1>2, <1>4, <1>5, MergedFormed
    <3>2. ASSUME NEW k \in IfKeys PROVE Agree(disk', ini, k)
      <4>1. k \in Keys /\ k # StaticRoutes
        BY IfKeyKinds, KeyTags DEF Keys
      <4> QED BY <2>1, <4>1
    <3>3. Formed(disk')
      BY <3>1, <3>2 DEF Formed, Agree
    <3> QED BY <1>1, <3>3 DEF FormInv
  <2>3. CASE saved # {}
    <3>1. saved = {disk} /\ saved' = saved /\ saved' = {disk'}
      BY <1>1, <1>7, <2>3 DEF SavedInv
    <3>2. disk' = disk
      BY <3>1
    <3> QED BY <1>1, <2>2, <2>3, <3>1, <3>2 DEF OriginInv
  <2>4. CASE saved = {}
    <3>1. disk = before /\ saved' # {}
      BY <1>1, <1>7, <2>4 DEF OriginInv
    <3>2. ASSUME NEW k \in Keys, Untouched(req, k, S) PROVE Agree(ini, disk, k)
      BY <1>5, <3>2 DEF Merged, Decided, IsLast, Untouched
    <3>3. ASSUME NEW k \in Keys \ {StaticRoutes}, Untouched(req, k, S) PROVE Agree(disk', before, k)
      <4>1. Agree(disk', ini, k) /\ Agree(ini, disk, k)
        BY <2>1, <3>2, <3>3
      <4> QED BY <3>1, <4>1, AgreeTrans
    <3>4. ASSUME ActiveIn(req, S) = {} PROVE Agree(disk', before, StaticRoutes)
      <4>1. StaticRoutes \in Keys /\ Untouched(req, StaticRoutes, S)
        BY StaticUntouched DEF Keys, Untouched
      <4>2. disk' = ini
        BY <1>5, <1>7, <3>4 DEF WithActive
      <4> QED BY <3>1, <3>2, <4>1, <4>2
    <3> QED BY <1>1, <1>4, <2>2, <3>1, <3>3, <3>4 DEF OriginInv
  <2> QED BY <2>3, <2>4
<1> QED BY <1>6, <1>7 DEF SaveConf

\* What is known of the file that the request found holds in every reachable
\* state.
LEMMA OriginInvariance == Spec => []KInv
<1>1. ASSUME Init PROVE OriginInv /\ FormInv
  BY <1>1, FilesAssumption DEF Init, OriginInv, FormInv
<1>2. ASSUME KInv, JInv', [Next]_vars PROVE OriginInv' /\ FormInv'
  <2>0. OriginInv /\ FormInv
    BY <1>2 DEF KInv
  <2>1. CASE Write
    BY <2>0, <2>1 DEF Write, Begin, OriginInv, FormInv
  <2>2. CASE SaveConf
    BY <1>2, <2>2, SaveConfOrigin
  <2>3. CASE UNCHANGED <<disk, req, before, saved>>
    BY <2>0, <2>3 DEF OriginInv, FormInv
  <2>4. Write \/ SaveConf \/ UNCHANGED <<disk, req, before, saved>>
    BY <1>2 DEF Next, Retry, Begin, BeginIf, PutPrimary, PutAliases, PutRoute, Crash, Done, InWrite, vars
  <2> QED BY <2>1, <2>2, <2>3, <2>4
<1> QED BY <1>1, <1>2, StepInvariance, PTL DEF Spec, KInv

-----------------------------------------------------------------------------
(* Aliases                                                                 *)

\* What decides about the aliases record of an interface: the second cycle of
\* one of its entries; about a record with one alias: the same, and it goes.
LEMMA AliasTouch ==
    ASSUME NEW r, GoodRequest(r), NEW i, NEW q \in StepsOf(r)
    PROVE  /\ Effect(r, q, Aliases(i)) # Stays =>
                 /\ q[1] = 1 /\ q[2] \in 1..Len(r.ifs) /\ q[3] = Len(r.ifs[q[2]].addrs) + 1
                 /\ r.ifs[q[2]].name = i
                 /\ Effect(r, q, Aliases(i)) =
                       AliasEffect(r.ifs[q[2]], DhcpAfter(r, Prior(r, q)), Aliases(i))
           /\ \A x : Effect(r, q, Alias(i, x)) # Stays => Effect(r, q, Alias(i, x)) = Goes
<1>1. q \in Positions /\ (IfStep(r, q) \/ RouteStep(r, q))
  BY StepsFacts
<1>2. \A rt, x : RouteEffect(rt, Aliases(i)) = Stays /\ RouteEffect(rt, Alias(i, x)) = Stays
  BY KeyTags DEF RouteEffect
<1>3. \A j, o, x : PrimaryEffect(j, o, Aliases(i)) = Stays /\ PrimaryEffect(j, o, Alias(i, x)) = Stays
  <2>1. \A j, x : /\ Aliases(i) # Main(j) /\ Aliases(i) # DefaultRouter
                  /\ Alias(i, x) # Main(j) /\ Alias(i, x) # DefaultRouter
    BY KeyTags
  <2> QED BY <2>1 DEF PrimaryEffect
<1>4. \A e, d, x : AliasEffect(e, d, Alias(i, x)) # Stays => AliasEffect(e, d, Alias(i, x)) = Goes
  <2>1. \A j, x : Alias(i, x) # Aliases(j)
    BY KeyTags
  <2> QED BY <2>1 DEF AliasEffect
<1>5. \A e, d : AliasEffect(e, d, Aliases(i)) # Stays => e.name = i
  <2>1. \A j, x : Aliases(i) # Alias(j, x) /\ (Aliases(i) = Aliases(j) => i = j)
    BY KeyTags DEF Aliases
  <2> QED BY <2>1 DEF AliasEffect
<1>6. ASSUME Effect(r, q, Aliases(i)) # Stays
      PROVE  /\ q[1] = 1 /\ q[2] \in 1..Len(r.ifs) /\ q[3] = Len(r.ifs[q[2]].addrs) + 1
             /\ r.ifs[q[2]].name = i
             /\ Effect(r, q, Aliases(i)) = AliasEffect(r.ifs[q[2]], DhcpAfter(r, Prior(r, q)), Aliases(i))
  <2>1. q[1] = 1 /\ q[2] \in 1..Len(r.ifs) /\ q[3] \in 1..(Len(r.ifs[q[2]].addrs) + 1)
    BY <1>1, <1>2, <1>6 DEF Effect, IfStep, RouteStep
  <2>2. Len(r.ifs[q[2]].addrs) \in Nat
    BY <2>1, EntryOf
  <2>3. ~(q[3] <= Len(r.ifs[q[2]].addrs))
    BY <1>3, <1>6, <2>1 DEF Effect
  <2>4. Effect(r, q, Aliases(i)) = AliasEffect(r.ifs[q[2]], DhcpAfter(r, Prior(r, q)), Aliases(i))
    BY <2>1, <2>3 DEF Effect
  <2>5. q[3] = Len(r.ifs[q[2]].addrs) + 1
    BY <2>1, <2>2, <2>3
  <2>6. r.ifs[q[2]].name = i
    BY <1>5, <1>6, <2>4
  <2> QED BY <2>1, <2>4, <2>5, <2>6
<1>7. ASSUME NEW x, Effect(r, q, Alias(i, x)) # Stays PROVE Effect(r, q, Alias(i, x)) = Goes
  BY <1>2, <1>3, <1>4, <1>7 DEF Effect
<1> QED BY <1>6, <1>7

\* The second cycle of an entry is a step.
LEMMA AliasStep ==
    ASSUME NEW r, GoodRequest(r), NEW n \in 1..Len(r.ifs), r.ifs[n].name \notin BadNames,
           r.ifs[n].addrs # <<>>, NEW k
    PROVE  LET p == <<1, n, Len(r.ifs[n].addrs) + 1>>
           IN  /\ p \in StepsOf(r)
               /\ Effect(r, p, k) = AliasEffect(r.ifs[n], DhcpAfter(r, Prior(r, p)), k)
<1>1. Len(r.ifs[n].addrs) \in Nat
  BY EntryOf
<1>2. PICK p : p = <<1, n, Len(r.ifs[n].addrs) + 1>>
  OBVIOUS
<1>3. p[1] = 1 /\ p[2] = n /\ p[3] = Len(r.ifs[n].addrs) + 1 /\ p \in Positions
  BY <1>1, <1>2 DEF Positions
<1>4. p \in StepsOf(r)
  <2>1. IfStep(r, p)
    BY <1>1, <1>3 DEF IfStep
  <2> QED BY <1>3, <2>1, StepsFacts
<1>5. Effect(r, p, k) = AliasEffect(r.ifs[n], DhcpAfter(r, Prior(r, p)), k)
  BY <1>1, <1>3 DEF Effect
<1> QED BY <1>2, <1>4, <1>5

\* The records with one alias are gone, but number MAX_ALIASES.
LEMMA SinglesGone ==
    ASSUME NEW r, GoodRequest(r), NEW n \in 1..Len(r.ifs), r.ifs[n].name \notin BadNames,
           r.ifs[n].addrs # <<>>, NEW f, Settled(r, f), NEW x \in 0..(MAX_ALIASES - 1)
    PROVE  Alias(r.ifs[n].name, x) \notin DOMAIN f
<1>1. PICK i, k, p : i = r.ifs[n].name /\ k = Alias(i, x) /\ p = <<1, n, Len(r.ifs[n].addrs) + 1>>
  OBVIOUS
<1>2. i \in Interfaces \ BadNames
  BY <1>1, EntryOf
<1>3. k \in Keys \ {StaticRoutes}
  <2>1. k \in IfKeysOf(i)
    BY <1>1, <1>2, IfKeysAreKeys
  <2> QED BY <1>1, <1>2, <2>1, IfKeysAreKeys, KeyTags
<1>4. p \in StepsOf(r) /\ Effect(r, p, k) = Goes
  <2>1. p \in StepsOf(r) /\ Effect(r, p, k) = AliasEffect(r.ifs[n], DhcpAfter(r, Prior(r, p)), k)
    BY <1>1, AliasStep
  <2>2. k # Aliases(r.ifs[n].name)
    BY <1>1, KeyTags
  <2> QED BY <1>1, <2>1, <2>2 DEF AliasEffect
<1>5. ~Untouched(r, k, StepsOf(r))
  BY <1>4, EffectsApart DEF Untouched
<1>6. PICK q \in StepsOf(r) : Effect(r, q, k) # Stays /\ Has(f, k, Effect(r, q, k))
  BY <1>3, <1>5 DEF Settled, Decided, IsLast
<1>7. Effect(r, q, k) = Goes
  <2>1. GoodRequest(r) /\ q \in StepsOf(r)
    OBVIOUS
  <2>2. \A j, y : Effect(r, q, Alias(j, y)) # Stays => Effect(r, q, Alias(j, y)) = Goes
    BY ONLY <2>1, AliasTouch
  <2> QED BY <1>1, <1>6, <2>2
<1> QED BY <1>1, <1>6, <1>7 DEF Has

\* What the steps of a request leave alone is in f as it is in g.
KeepsUntouched(r, f, g) ==
    \A k \in Keys \ {StaticRoutes} : Untouched(r, k, StepsOf(r)) => Agree(f, g, k)

\* No record with one alias is left, if there was none with number MAX_ALIASES.
LEMMA NoSingles ==
    ASSUME NEW r, GoodRequest(r), NEW n \in 1..Len(r.ifs), r.ifs[n].name \notin BadNames,
           r.ifs[n].addrs # <<>>, NEW f, Settled(r, f), NEW g,
           KeepsUntouched(r, f, g),
           Alias(r.ifs[n].name, MAX_ALIASES) \notin DOMAIN g, NEW x \in 0..MAX_ALIASES
    PROVE  Alias(r.ifs[n].name, x) \notin DOMAIN f
<1>1. CASE x \in 0..(MAX_ALIASES - 1)
  BY <1>1, SinglesGone
<1>2. CASE x = MAX_ALIASES
  <2>1. PICK i, k : i = r.ifs[n].name /\ k = Alias(i, MAX_ALIASES)
    OBVIOUS
  <2>2. k \in Keys \ {StaticRoutes}
    <3>1. i \in Interfaces \ BadNames /\ k \in IfKeysOf(i)
      BY <2>1, EntryOf, BoundsAssumption DEF IfKeysOf
    <3> QED BY <2>1, <3>1, IfKeysAreKeys, KeyTags
  <2>3. CASE Untouched(r, k, StepsOf(r))
    <3>1. Agree(f, g, k)
      BY <2>2, <2>3 DEF KeepsUntouched
    <3> QED BY <1>2, <2>1, <3>1 DEF Agree
  <2>4. CASE Decided(r, f, k, StepsOf(r))
    <3>1. PICK q \in StepsOf(r) : Effect(r, q, k) # Stays /\ Has(f, k, Effect(r, q, k))
      BY <2>4 DEF Decided, IsLast
    <3>2. GoodRequest(r) /\ q \in StepsOf(r)
      OBVIOUS
    <3>3. \A j, y : Effect(r, q, Alias(j, y)) # Stays => Effect(r, q, Alias(j, y)) = Goes
      BY ONLY <3>2, AliasTouch
    <3> QED BY <1>2, <2>1, <3>1, <3>3 DEF Has
  <2> QED BY <2>2, <2>3, <2>4 DEF Settled
<1> QED BY <1>1, <1>2, BoundsAssumption

\* The text of an address is not empty.
LEMMA TextIsText ==
    ASSUME NEW t \in Ip4Texts
    PROVE  t # NoText
<1>1. PICK bits : t = <<"ip4", bits>>
  BY DEF Ip4Texts, Text4
<1>2. Len(t) = 2
  BY <1>1
<1>3. Len(NoText) = 0
  BY DEF NoText
<1> QED BY <1>2, <1>3

\* is_dhcp is off in the second cycle of an interface with a static address as
\* its only primary one, whatever the interfaces before it are.
LEMMA StaticIsNotDhcp ==
    ASSUME NEW r, GoodRequest(r), NEW n, NEW m, Sole(r, n, m), InNotation4(r.ifs[n].addrs[m])
    PROVE  ~DhcpAfter(r, Prior(r, <<1, n, Len(r.ifs[n].addrs) + 1>>))
<1> DEFINE l == Len(r.ifs[n].addrs)
           P == Prior(r, <<1, n, l + 1>>)
<1>1. n \in 1..Len(r.ifs) /\ m \in 1..l /\ r.ifs[n].name \notin BadNames /\ OnlyPrimary(r.ifs[n].addrs, m)
  BY DEF Sole
<1>2. l \in Nat /\ r.ifs[n].addrs # <<>> /\ Len(r.ifs) \in Nat
  BY <1>1, EntryOf DEF GoodRequest
<1>3. PICK s : s = <<1, n, m>>
  OBVIOUS
<1>4. s \in Positions /\ s \in StepsOf(r) /\ s[1] = 1 /\ s[2] = n /\ s[3] = m
  <2>1. s \in Positions /\ s[1] = 1 /\ s[2] = n /\ s[3] = m
    BY <1>1, <1>2, <1>3 DEF Positions
  <2>2. IfStep(r, s)
    BY <1>1, <1>2, <2>1 DEF IfStep
  <2> QED BY <2>1, <2>2, StepsFacts
<1>5. s \in P
  <2>1. Before(s, <<1, n, l + 1>>)
    BY <1>1, <1>2, <1>4 DEF Before
  <2> QED BY <1>4, <2>1 DEF Prior
<1>6. s \in SetDhcp(r, P)
  <2>1. PICK o : o = r.ifs[n].addrs[m]
    OBVIOUS
  <2>2. IsPrimary(o)
    BY <1>1, <2>1 DEF OnlyPrimary
  <2>3. o.addr # NoText /\ o.mask # NoText
    BY <2>1, TextIsText DEF InNotation4
  <2>4. s[3] <= Len(r.ifs[s[2]].addrs) /\ r.ifs[s[2]].addrs[s[3]] = o
    BY <1>1, <1>2, <1>4, <2>1
  <2> HIDE DEF P
  <2> QED BY <1>4, <1>5, <2>2, <2>3, <2>4 DEF SetDhcp
<1>7. SUFFICES ASSUME NEW p \in P, IsLast(p, SetDhcp(r, P)),
                      isDhcpText(r.ifs[p[2]].addrs[p[3]].addr)
               PROVE  FALSE
  BY DEF DhcpAfter
<1>8. p \in Positions /\ Before(p, <<1, n, l + 1>>)
  BY StepsFacts DEF Prior
<1>9. p \in SetDhcp(r, P) /\ ~Before(p, s)
  BY <1>6, <1>7 DEF IsLast
<1>10. p # s
  BY <1>4, <1>7, NotDhcp DEF InNotation4
<1>11. Before(s, p)
  BY <1>4, <1>8, <1>9, <1>10, Order
<1>12. p[1] = 1 /\ p[2] = n /\ p[3] \in 1..l /\ p[3] # m
  BY <1>1, <1>2, <1>4, <1>8, <1>11 DEF Before, Positions
<1>13. IsPrimary(r.ifs[n].addrs[p[3]])
  BY <1>9, <1>12 DEF SetDhcp
<1> QED BY <1>1, <1>12, <1>13 DEF OnlyPrimary

\* The aliases record reads back as those of the list that are IPv4.
LEMMA AliasesText ==
    ASSUME NEW addrs, addrs \in Seq(AddrObjects)
    PROVE  LET as == AliasesIn(addrs)
               v4 == Chosen(as, {m \in 1..Len(as) : InNotation4(as[m])})
           IN  getAliases(Inet(AliasPairs(addrs))) = [m \in 1..Len(v4) |-> Pair(v4[m].addr, v4[m].mask)]
<1>1. PICK as, ps : as = AliasesIn(addrs) /\ ps = AliasPairs(addrs)
  OBVIOUS
<1>2. /\ Len(as) \in Nat /\ Len(ps) = Len(as)
      /\ ps = [n \in 1..Len(as) |-> Pair(as[n].addr, Dotted(as[n].mask))]
  BY <1>1, AliasLists
<1>3. ASSUME NEW n \in 1..Len(as)
      PROVE  /\ InNotation4(as[n]) <=> Readable(ps[n])
             /\ InNotation4(as[n]) => Decoded(ps[n]) = Pair(as[n].addr, as[n].mask)
  <2>1. PICK o : o = as[n]
    OBVIOUS
  <2>2. ps[n] = Pair(o.addr, Dotted(o.mask))
    BY <1>2, <2>1
  <2>3. ps[n].addr = o.addr /\ ps[n].mask[1] = "dotted" /\ ps[n].mask[2] = o.mask
    BY <2>2 DEF Pair, Dotted
  <2>4. InNotation4(o) <=> Readable(ps[n])
    BY <2>3 DEF InNotation4, Readable, MaskReadable
  <2>5. InNotation4(o) => Decoded(ps[n]) = Pair(o.addr, o.mask)
    BY <2>3 DEF Decoded, Pair, MaskText
  <2> QED BY <2>1, <2>4, <2>5
<1>4. PICK T : T = {n \in 1..Len(as) : InNotation4(as[n])}
  OBVIOUS
<1>5. T = {n \in 1..Len(ps) : Readable(ps[n])} /\ T \in SUBSET (1..Len(as))
  BY <1>2, <1>3, <1>4
<1>6. PICK v4, ok : v4 = Chosen(as, T) /\ ok = Chosen(ps, T)
  OBVIOUS
<1>7. Len(v4) = Cardinality(T) /\ Len(ok) = Cardinality(T) /\ Cardinality(T) \in Nat
  BY <1>2, <1>5, <1>6, ChosenFacts
<1>8. ASSUME NEW m \in 1..Cardinality(T) PROVE Decoded(ok[m]) = Pair(v4[m].addr, v4[m].mask)
  <2>1. PICK c \in T : \A t : Chosen(t, T)[m] = t[c]
    BY <1>2, <1>5, ChosenFacts
  <2>2. ok[m] = ps[c] /\ v4[m] = as[c]
    BY <1>6, <2>1
  <2>3. c \in 1..Len(as) /\ InNotation4(as[c])
    BY <1>4
  <2> QED BY <1>3, <2>2, <2>3
<1>9. getAliases(Inet(ps)) = [m \in 1..Len(ok) |-> Decoded(ok[m])]
  <2>1. Inet(ps)[1] # "word" /\ Inet(ps)[2] = ps
    BY DEF Inet
  <2> QED BY <1>5, <1>6, <2>1 DEF getAliases
<1>10. getAliases(Inet(ps)) = [m \in 1..Len(v4) |-> Pair(v4[m].addr, v4[m].mask)]
  BY <1>7, <1>8, <1>9
<1> QED BY <1>1, <1>4, <1>6, <1>10

\* What is read of an interface that has an aliases record and no other.
LEMMA ReadRecord ==
    ASSUME NEW f, NEW i \in Interfaces \ BadNames, i \notin Vlans,
           \A x \in 0..MAX_ALIASES : Alias(i, x) \notin DOMAIN f
    PROVE  AliasesOf(f, i) = IF Aliases(i) \in DOMAIN f THEN getAliases(f[Aliases(i)]) ELSE <<>>
<1>1. SinglesStatic(f, i) /\ ~HasSingle(f, i)
  BY DEF SinglesStatic, HasSingle
<1>2. /\ Aliases(i) \in DOMAIN f => i \in DOMAIN Collected(f)
      /\ i \in DOMAIN Collected(f) => Aliases(i) \in DOMAIN f /\ Collected(f)[i] = getAliases(f[Aliases(i)])
  BY <1>1, CollectedFrom
<1> QED BY <1>2 DEF AliasesOf

\* After SUCCESS the IPv4 aliases of an interface with a static primary address
\* read back in their order and without any old ones, whatever the file was,
\* also behind an interface with DHCP: setRcIpConfig resets is_dhcp in time,
\* and the records with one alias, which getRcIpConfig would prefer, are gone.
THEOREM AliasesComeBack == Spec => []AliasesReadBack
<1>1. ASSUME KInv PROVE AliasesReadBack
  <2> SUFFICES ASSUME Written, NEW n \in 1..Len(req.ifs), OnlyEntry(n), req.ifs[n].name \notin Vlans,
                      NEW m \in 1..Len(req.ifs[n].addrs), OnlyPrimary(req.ifs[n].addrs, m),
                      InNotation4(req.ifs[n].addrs[m]), AliasesIn(req.ifs[n].addrs) # <<>>,
                      Alias(req.ifs[n].name, MAX_ALIASES) \notin DOMAIN before
               PROVE  LET e  == req.ifs[n]
                          as == AliasesIn(e.addrs)
                          v4 == Chosen(as, {x \in 1..Len(as) : InNotation4(as[x])})
                      IN  ReadInterface(disk, e.name).more = [x \in 1..Len(v4) |-> Pair(v4[x].addr, v4[x].mask)]
    BY DEF AliasesReadBack
  <2>1. PICK i, addrs, o : i = req.ifs[n].name /\ addrs = req.ifs[n].addrs /\ o = req.ifs[n].addrs[m]
    OBVIOUS
  <2>2. GoodRequest(req) /\ Settled(req, disk) /\ OriginInv /\ saved # {}
    BY <1>1, RequestTypes DEF KInv, JInv, IInv, SavedInv, GoodRequest
  <2>3. i \in Interfaces \ BadNames /\ addrs \in Seq(AddrObjects) /\ addrs # <<>>
    <3>1. i \in Interfaces \ BadNames /\ addrs \in Seq(AddrObjects)
      BY <2>1, <2>2, EntryOf DEF OnlyEntry
    <3>2. addrs # <<>>
      BY <2>1, <3>1
    <3> QED BY <3>1, <3>2
  <2>4. Sole(req, n, m) /\ IsPrimary(o)
    BY <2>1 DEF OnlyEntry, OnlyPrimary, Sole
  <2>5. ReadInterface(disk, i).more = AliasesOf(disk, i)
    <3>1. PrimaryEffect(i, o, Main(i)) = Gets(Inet(<<Pair(o.addr, Dotted(o.mask))>>))
      <4>1. UsableStatic(o) /\ ~UsableDhcp(o)
        BY <2>1, NotDhcp DEF InNotation4, UsableStatic, UsableDhcp, isValidIpAddr
      <4> QED BY <2>4, <4>1 DEF PrimaryEffect
    <3>2. PICK v : v = Inet(<<Pair(o.addr, Dotted(o.mask))>>)
      OBVIOUS
    <3>3. Main(i) \in DOMAIN disk /\ disk[Main(i)] = v
      BY <2>1, <2>2, <2>4, <3>1, <3>2, MainDecided
    <3>4. ReadInterface(disk, i).main = Pair(o.addr, o.mask)
      BY <2>1, <2>3, <3>2, <3>3, ReadMain
    <3>5. ~isDhcpText(Pair(o.addr, o.mask).addr)
      BY <2>1, NotDhcp DEF Pair, InNotation4
    <3> QED BY <3>4, <3>5 DEF ReadInterface
  <2>6. \A x \in 0..MAX_ALIASES : Alias(i, x) \notin DOMAIN disk
    <3>1. KeepsUntouched(req, disk, before)
      BY <2>2 DEF OriginInv, KeepsUntouched
    <3>2. ASSUME NEW x \in 0..MAX_ALIASES PROVE Alias(req.ifs[n].name, x) \notin DOMAIN disk
      BY <2>1, <2>2, <2>3, <3>1, NoSingles
    <3> QED BY <2>1, <3>2
  <2>7. Aliases(i) \in DOMAIN disk /\ disk[Aliases(i)] = Inet(AliasPairs(addrs))
    <3>1. PICK k, p : k = Aliases(i) /\ p = <<1, n, Len(addrs) + 1>>
      OBVIOUS
    <3>2. AliasPairs(addrs) # <<>>
      <4>1. Len(AliasPairs(addrs)) = Len(AliasesIn(addrs)) /\ Len(AliasesIn(addrs)) \in Nat
        BY <2>3, AliasLists
      <4>2. Len(AliasesIn(addrs)) # 0
        BY <2>1, <2>3, AliasesSeq
      <4> QED BY <4>1, <4>2
    <3>3. AliasEffect(req.ifs[n], FALSE, k) = Gets(Inet(AliasPairs(addrs)))
      BY <2>1, <3>1, <3>2 DEF AliasEffect
    <3>4. ~DhcpAfter(req, Prior(req, p))
      BY <2>1, <2>2, <2>4, <3>1, StaticIsNotDhcp
    <3>5. p \in StepsOf(req) /\ Effect(req, p, k) = AliasEffect(req.ifs[n], DhcpAfter(req, Prior(req, p)), k)
      BY <2>1, <2>2, <2>3, <3>1, AliasStep
    <3>6. Effect(req, p, k) = Gets(Inet(AliasPairs(addrs)))
      <4>1. DhcpAfter(req, Prior(req, p)) = FALSE
        BY <3>4 DEF DhcpAfter
      <4> QED BY <3>3, <3>5, <4>1
    <3>7. k \in Keys \ {StaticRoutes}
      BY <2>3, <3>1, IfKeysAreKeys, KeyTags
    <3>8. PICK q \in StepsOf(req) : Effect(req, q, k) # Stays /\ Has(disk, k, Effect(req, q, k))
      BY <2>2, <3>5, <3>6, <3>7, EffectsApart DEF Settled, Decided, IsLast, Untouched
    <3>9. q = p
      <4>1. q[1] = 1 /\ q[2] \in 1..Len(req.ifs) /\ q[3] = Len(req.ifs[q[2]].addrs) + 1
            /\ req.ifs[q[2]].name = i
        BY <2>2, <3>1, <3>8, AliasTouch
      <4>2. q[2] = n
        BY <2>1, <4>1 DEF OnlyEntry
      <4>3. q \in Positions
        BY <2>2, StepsFacts
      <4> QED BY <2>1, <3>1, <4>1, <4>2, <4>3 DEF Positions
    <3>10. Has(disk, k, Gets(Inet(AliasPairs(addrs))))
      BY <3>6, <3>8, <3>9
    <3> QED BY <3>1, <3>10, EffectsApart DEF Has, Gets
  <2>8. ReadInterface(disk, i).more = getAliases(Inet(AliasPairs(addrs)))
    BY <2>1, <2>3, <2>5, <2>6, <2>7, ReadRecord
  <2> QED BY <2>1, <2>3, <2>8, AliasesText
<1> QED BY OriginInvariance, <1>1, PTL

\* What RCCONF_WRITE was sent, RCCONF_READ returns: addresses, aliases, routes.
THEOREM WrittenReadsBack == Spec => []ReadsBack
BY PrimaryComesBack, AliasesComeBack, RoutesComeBack, PTL DEF ReadsBack

-----------------------------------------------------------------------------
(* Writing back what was read                                              *)

\* A request r that is what RCCONF_READ returned of the file g, and the file f
\* that its steps have left.
WroteBack(r, f, g) ==
    /\ GoodRequest(r) /\ Settled(r, f) /\ AsRead(r, g) /\ Formed(g)
    /\ KeepsUntouched(r, f, g)
    /\ ActiveIn(r, StepsOf(r)) = {} => Agree(f, g, StaticRoutes)
    /\ \A i \in InterfacesRead(g) \ Vlans :
          /\ Alias(i, MAX_ALIASES) \notin DOMAIN g
          /\ \A k \in IfKeysOf(i) \cap DOMAIN g : g[k][1] = "word" => ~isDhcpText(g[k][2])

\* The addresses of an aliases record are addresses with masks.
LEMMA GetAliasesType ==
    ASSUME NEW v, v[1] = "word" \/ Len(v[2]) \in Nat
    PROVE  getAliases(v) \in Seq(Pairs4)
<1>1. CASE v[1] = "word"
  BY <1>1 DEF getAliases
<1>2. CASE v[1] # "word"
  <2>1. PICK T : T = {n \in 1..Len(v[2]) : Readable(v[2][n])}
    OBVIOUS
  <2>2. Len(v[2]) \in Nat /\ T \in SUBSET (1..Len(v[2]))
    BY <1>2, <2>1
  <2>3. PICK ok : ok = Chosen(v[2], T)
    OBVIOUS
  <2>4. Len(ok) = Cardinality(T) /\ Cardinality(T) \in Nat
    BY <2>2, <2>3, ChosenFacts
  <2>5. ASSUME NEW n \in 1..Len(ok) PROVE Decoded(ok[n]) \in Pairs4
    <3>1. n \in 1..Cardinality(T)
      BY <2>4
    <3>2. PICK c \in T : \A t : Chosen(t, T)[n] = t[c]
      BY ONLY <2>2, <3>1, ChosenFacts
    <3>3. Readable(ok[n])
      BY <2>1, <2>3, <3>2
    <3> QED BY <3>3, MaskTextType DEF Readable, Decoded, Pairs4
  <2>6. getAliases(v) = [n \in 1..Len(ok) |-> Decoded(ok[n])]
    BY <1>2, <2>1, <2>3 DEF getAliases
  <2> QED BY <2>4, <2>5, <2>6
<1> QED BY <1>1, <1>2

\* What is read of an interface that has no DHCP and is no VLAN.
StaticRead(g, i, p) ==
    /\ p \in Pairs4 /\ getIpConfFromString(g[Main(i)]) = <<p>>
    /\ ReadInterface(g, i) = [main |-> p, more |-> AliasesOf(g, i), gw |-> GatewayFor(g, p)]
    /\ AliasesOf(g, i) \in Seq(Pairs4) /\ SinglesStatic(g, i)

\* Every such interface is read so; whether its aliases come from one record or
\* from single ones, they are addresses with masks.
LEMMA ReadStatic ==
    ASSUME NEW r, NEW f, NEW g, WroteBack(r, f, g), NEW i \in InterfacesRead(g) \ Vlans
    PROVE  \E p : StaticRead(g, i, p)
<1>1. i \in Interfaces \ BadNames /\ Main(i) \in DOMAIN g /\ getIpConfFromString(g[Main(i)]) # <<>>
  BY DEF InterfacesRead
<1>2. \A k \in IfKeysOf(i) \cap DOMAIN g : g[k][1] = "word" => ~isDhcpText(g[k][2])
  BY DEF WroteBack
<1>3. PICK p \in Pairs4 : getIpConfFromString(g[Main(i)]) = <<p>>
  <2>1. Main(i) \in IfKeysOf(i)
    BY <1>1, IfKeysAreKeys
  <2>2. ~(g[Main(i)][1] = "word" /\ isDhcpText(g[Main(i)][2]))
    BY <1>1, <1>2, <2>1
  <2> QED BY <1>1, <2>2, ReadOne
<1>4. SinglesStatic(g, i)
  <2>1. \A x \in 0..MAX_ALIASES : Alias(i, x) \in IfKeysOf(i)
    BY DEF IfKeysOf
  <2> QED BY <1>2, <2>1 DEF SinglesStatic
<1>5. AliasesOf(g, i) \in Seq(Pairs4)
  <2>1. CASE i \in DOMAIN Collected(g)
    <3>1. AliasesOf(g, i) = Collected(g)[i]
      BY <2>1 DEF AliasesOf
    <3>2. ASSUME Aliases(i) \in DOMAIN g, Collected(g)[i] = getAliases(g[Aliases(i)])
          PROVE  Collected(g)[i] \in Seq(Pairs4)
      <4>1. Aliases(i) \in IfKeys
        BY <1>1 DEF IfKeys, IfKeysOf
      <4>2. g[Aliases(i)][1] = "word" \/ Len(g[Aliases(i)][2]) \in Nat
        BY <3>2, <4>1 DEF WroteBack, Formed
      <4> QED BY <3>2, <4>2, GetAliasesType
    <3> QED BY <1>1, <1>4, <2>1, <3>1, <3>2, CollectedFrom
  <2>2. CASE i \notin DOMAIN Collected(g)
    BY <2>2 DEF AliasesOf
  <2> QED BY <2>1, <2>2
<1>6. ReadInterface(g, i) = [main |-> p, more |-> AliasesOf(g, i), gw |-> GatewayFor(g, p)]
  <2>1. ~isDhcpText(p.addr)
    BY NotDhcp DEF Pairs4
  <2>2. getIpConfFromString(g[Main(i)])[1] = p
    BY <1>3
  <2> QED BY <2>1, <2>2 DEF ReadInterface
<1> QED BY <1>3, <1>4, <1>5, <1>6 DEF StaticRead

\* An entry of the request: its first object, the others.
FirstOf(g, i) ==
    [primary |-> IF i \in Vlans THEN "absent" ELSE "yes", addr |-> ReadInterface(g, i).main.addr,
     mask |-> ReadInterface(g, i).main.mask, gw |-> ReadInterface(g, i).gw]
Shape(g, i, e) ==
    LET more == ReadInterface(g, i).more IN
    /\ e.name = i /\ Len(more) \in Nat /\ Len(e.addrs) = Len(more) + 1
    /\ e.addrs[1] = FirstOf(g, i)
    /\ \A m \in 1..Len(more) :
          e.addrs[m + 1] = [primary |-> "absent", addr |-> more[m].addr, mask |-> more[m].mask, gw |-> NoText]

\* AsEntry makes such entries.
LEMMA EntryShape ==
    ASSUME NEW r, NEW f, NEW g, WroteBack(r, f, g), NEW i \in InterfacesRead(g)
    PROVE  Shape(g, i, AsEntry(g, i))
<1>1. PICK more : more = ReadInterface(g, i).more
  OBVIOUS
<1>2. Len(more) \in Nat
  <2>1. CASE i \in Vlans
    <3>1. AliasesOf(g, i) = <<>>
      BY <2>1 DEF AliasesOf
    <3>2. more = <<>>
      BY <1>1, <3>1 DEF ReadInterface
    <3> QED BY <3>2
  <2>2. CASE i \notin Vlans
    <3>1. PICK p : StaticRead(g, i, p)
      BY <2>2, ReadStatic
    <3>2. more \in Seq(Pairs4)
      BY <1>1, <3>1 DEF StaticRead
    <3> QED BY <3>2
  <2> QED BY <2>1, <2>2
<1>3. PICK others : others = [n \in 1..Len(more) |->
                        [primary |-> "absent", addr |-> more[n].addr, mask |-> more[n].mask, gw |-> NoText]]
  OBVIOUS
<1>4. PICK e : e = AsEntry(g, i)
  OBVIOUS
<1>5. e.name = i /\ e.addrs = <<FirstOf(g, i)>> \o others
  BY <1>1, <1>3, <1>4 DEF AsEntry, FirstOf
<1>6. PICK D : D = {FirstOf(g, i)} \cup {others[n] : n \in 1..Len(more)}
  OBVIOUS
<1>7. others \in Seq(D) /\ Len(others) = Len(more)
  <2>1. others \in [1..Len(more) -> D]
    BY <1>3, <1>6
  <2> QED BY <1>2, <2>1
<1>8. /\ <<FirstOf(g, i)>> \in Seq(D) /\ Len(<<FirstOf(g, i)>>) = 1
      /\ <<FirstOf(g, i)>>[1] = FirstOf(g, i)
  BY <1>6
<1>9. Len(e.addrs) = Len(more) + 1 /\ e.addrs[1] = FirstOf(g, i)
  BY <1>2, <1>5, <1>7, <1>8
<1>10. ASSUME NEW m \in 1..Len(more) PROVE e.addrs[m + 1] = others[m]
  <2>1. m + 1 \in 1..(1 + Len(others)) /\ ~(m + 1 <= 1) /\ (m + 1) - 1 = m
    BY <1>2, <1>7
  <2> QED BY <1>5, <1>7, <1>8, <2>1
<1>11. ASSUME NEW m \in 1..Len(more)
       PROVE  e.addrs[m + 1] = [primary |-> "absent", addr |-> more[m].addr, mask |-> more[m].mask, gw |-> NoText]
  BY <1>3, <1>10
<1> QED BY <1>1, <1>2, <1>4, <1>5, <1>9, <1>11 DEF Shape

\* Every entry is that of an interface, and every interface has one.
LEMMA EntriesRead ==
    ASSUME NEW r, NEW f, NEW g, WroteBack(r, f, g)
    PROVE  /\ \A n \in 1..Len(r.ifs) : \E i \in InterfacesRead(g) : r.ifs[n] = AsEntry(g, i)
           /\ \A i \in InterfacesRead(g) : \E n \in 1..Len(r.ifs) : r.ifs[n] = AsEntry(g, i)
<1>1. {r.ifs[n] : n \in 1..Len(r.ifs)} = {AsEntry(g, i) : i \in InterfacesRead(g)}
  BY DEF WroteBack, AsRead
<1>2. ASSUME NEW n \in 1..Len(r.ifs) PROVE \E i \in InterfacesRead(g) : r.ifs[n] = AsEntry(g, i)
  <2>1. r.ifs[n] \in {r.ifs[x] : x \in 1..Len(r.ifs)}
    OBVIOUS
  <2> QED BY <1>1, <2>1
<1>3. ASSUME NEW i \in InterfacesRead(g) PROVE \E n \in 1..Len(r.ifs) : r.ifs[n] = AsEntry(g, i)
  <2>1. AsEntry(g, i) \in {AsEntry(g, x) : x \in InterfacesRead(g)}
    OBVIOUS
  <2> QED BY <1>1, <2>1
<1> QED BY <1>2, <1>3

\* Only the first object is primary, and none with DHCP: that of a VLAN is not.
LEMMA FirstIsPrimary ==
    ASSUME NEW r, NEW f, NEW g, WroteBack(r, f, g), NEW n \in 1..Len(r.ifs),
           NEW m \in 1..Len(r.ifs[n].addrs), IsPrimary(r.ifs[n].addrs[m])
    PROVE  /\ m = 1 /\ r.ifs[n].name \in InterfacesRead(g) \ Vlans
           /\ r.ifs[n].addrs[m] = FirstOf(g, r.ifs[n].name) /\ InNotation4(r.ifs[n].addrs[m])
<1>1. PICK i \in InterfacesRead(g) : r.ifs[n] = AsEntry(g, i)
  BY EntriesRead
<1>2. PICK e, more : e = r.ifs[n] /\ more = ReadInterface(g, i).more
  OBVIOUS
<1>3. /\ e.name = i /\ Len(more) \in Nat /\ Len(e.addrs) = Len(more) + 1 /\ e.addrs[1] = FirstOf(g, i)
      /\ \A x \in 1..Len(more) : e.addrs[x + 1].primary = "absent"
  <2>1. Shape(g, i, e)
    BY <1>1, <1>2, EntryShape
  <2>2. /\ e.name = i /\ Len(more) \in Nat /\ Len(e.addrs) = Len(more) + 1 /\ e.addrs[1] = FirstOf(g, i)
        /\ \A x \in 1..Len(more) :
              e.addrs[x + 1] = [primary |-> "absent", addr |-> more[x].addr, mask |-> more[x].mask, gw |-> NoText]
    BY <1>2, <2>1, Zenon DEF Shape
  <2>3. ASSUME NEW x \in 1..Len(more) PROVE e.addrs[x + 1].primary = "absent"
    <3>1. PICK o : o = e.addrs[x + 1]
      OBVIOUS
    <3>2. o = [primary |-> "absent", addr |-> more[x].addr, mask |-> more[x].mask, gw |-> NoText]
      BY <2>2, <3>1, Zenon
    <3>3. o.primary = "absent"
      BY <3>2
    <3> QED BY <3>1, <3>3
  <2> QED BY <2>2, <2>3
<1>4. m = 1
  <2> SUFFICES ASSUME m # 1 PROVE FALSE
    OBVIOUS
  <2>1. m - 1 \in 1..Len(more) /\ (m - 1) + 1 = m
    BY <1>2, <1>3
  <2>2. e.addrs[m].primary = "absent"
    BY <1>3, <2>1
  <2> QED BY <1>2, <2>2 DEF IsPrimary
<1>5. i \notin Vlans
  BY <1>2, <1>3, <1>4 DEF IsPrimary, FirstOf
<1>6. PICK p : StaticRead(g, i, p)
  BY <1>5, ReadStatic
<1>7. FirstOf(g, i).addr = p.addr /\ FirstOf(g, i).mask = p.mask /\ p \in Pairs4
  BY <1>6 DEF FirstOf, StaticRead
<1>8. InNotation4(FirstOf(g, i))
  BY <1>7 DEF InNotation4, Pairs4
<1> QED BY <1>2, <1>3, <1>4, <1>5, <1>8

\* So is_dhcp is never on.
LEMMA NeverDhcp ==
    ASSUME NEW r, NEW f, NEW g, WroteBack(r, f, g), NEW S \in SUBSET StepsOf(r)
    PROVE  DhcpAfter(r, S) = FALSE
<1>0. DhcpAfter(r, S) \in BOOLEAN
  BY DEF DhcpAfter
<1> SUFFICES ASSUME NEW p \in S, IsLast(p, SetDhcp(r, S)), isDhcpText(r.ifs[p[2]].addrs[p[3]].addr)
             PROVE  FALSE
  BY <1>0 DEF DhcpAfter
<1>1. p \in SetDhcp(r, S)
  BY DEF IsLast
<1>2. p[1] = 1 /\ p[3] <= Len(r.ifs[p[2]].addrs) /\ IsPrimary(r.ifs[p[2]].addrs[p[3]])
  BY <1>1 DEF SetDhcp
<1>3. GoodRequest(r)
  BY DEF WroteBack
<1>4. p \in StepsOf(r) /\ p \in Positions /\ (IfStep(r, p) \/ RouteStep(r, p))
  BY <1>3, StepsFacts
<1>5. p[2] \in 1..Len(r.ifs) /\ p[3] \in 1..(Len(r.ifs[p[2]].addrs) + 1)
  BY <1>2, <1>4 DEF IfStep, RouteStep
<1>6. p[3] \in 1..Len(r.ifs[p[2]].addrs)
  BY <1>2, <1>3, <1>5, EntryOf
<1>7. InNotation4(r.ifs[p[2]].addrs[p[3]])
  BY <1>2, <1>5, <1>6, FirstIsPrimary
<1> QED BY <1>7, NotDhcp DEF InNotation4

\* The steps of such a request: they do nothing, or put a primary address, or
\* the aliases, of an interface.
NoStep(r, q)         == \A k : Effect(r, q, k) = Stays
PrimaryStep(r, q, g, i) == i \notin Vlans /\ \A k : Effect(r, q, k) = PrimaryEffect(i, FirstOf(g, i), k)
AliasesStep(r, q, g, i) == \A k : Effect(r, q, k) = AliasEffect(AsEntry(g, i), FALSE, k)

\* There are no others.
LEMMA StepKinds ==
    ASSUME NEW r, NEW f, NEW g, WroteBack(r, f, g), NEW q \in StepsOf(r)
    PROVE  \E i \in InterfacesRead(g) : NoStep(r, q) \/ PrimaryStep(r, q, g, i) \/ AliasesStep(r, q, g, i)
<1>1. GoodRequest(r) /\ r.routes = <<>>
  BY DEF WroteBack, AsRead
<1>2. q \in Positions /\ (IfStep(r, q) \/ RouteStep(r, q))
  BY <1>1, StepsFacts
<1>3. 1..Len(r.routes) = {}
  BY <1>1
<1>4. q[1] = 1 /\ q[2] \in 1..Len(r.ifs) /\ q[3] \in 1..(Len(r.ifs[q[2]].addrs) + 1)
  BY <1>2, <1>3 DEF IfStep, RouteStep
<1>5. PICK i \in InterfacesRead(g) : r.ifs[q[2]] = AsEntry(g, i)
  BY <1>4, EntriesRead
<1>6. PICK e : e = r.ifs[q[2]]
  OBVIOUS
<1>7. e.name = i /\ Len(e.addrs) \in Nat
  <2>1. Shape(g, i, e)
    BY <1>5, <1>6, EntryShape
  <2> QED BY <1>1, <1>4, <1>6, <2>1, EntryOf DEF Shape
<1>8. CASE q[3] <= Len(e.addrs)
  <2>1. \A k : Effect(r, q, k) = PrimaryEffect(i, e.addrs[q[3]], k)
    BY <1>4, <1>6, <1>7, <1>8 DEF Effect
  <2>2. q[3] \in 1..Len(e.addrs)
    BY <1>4, <1>6, <1>7, <1>8
  <2>3. CASE ~IsPrimary(e.addrs[q[3]])
    <3>1. \A k : PrimaryEffect(i, e.addrs[q[3]], k) = Stays
      BY <2>3 DEF PrimaryEffect
    <3>2. NoStep(r, q)
      BY <2>1, <3>1 DEF NoStep
    <3> QED BY <3>2
  <2>4. CASE IsPrimary(e.addrs[q[3]])
    <3>1. PICK n, m : n = q[2] /\ m = q[3]
      OBVIOUS
    <3>2. n \in 1..Len(r.ifs) /\ m \in 1..Len(r.ifs[n].addrs) /\ IsPrimary(r.ifs[n].addrs[m])
      BY <1>4, <1>6, <2>2, <2>4, <3>1
    <3>3. r.ifs[n].name \notin Vlans /\ r.ifs[n].addrs[m] = FirstOf(g, r.ifs[n].name)
      BY <3>2, FirstIsPrimary
    <3>4. i \notin Vlans /\ e.addrs[q[3]] = FirstOf(g, i)
      BY <1>6, <1>7, <3>1, <3>3
    <3>5. PrimaryStep(r, q, g, i)
      BY <2>1, <3>4 DEF PrimaryStep
    <3> QED BY <3>5
  <2> QED BY <2>3, <2>4
<1>9. CASE ~(q[3] <= Len(e.addrs))
  <2>1. Prior(r, q) \in SUBSET StepsOf(r)
    BY DEF Prior
  <2>2. DhcpAfter(r, Prior(r, q)) = FALSE
    BY <2>1, NeverDhcp
  <2>3. \A k : Effect(r, q, k) = AliasEffect(e, DhcpAfter(r, Prior(r, q)), k)
    BY <1>4, <1>6, <1>9 DEF Effect
  <2>4. AliasesStep(r, q, g, i)
    BY <1>5, <1>6, <2>2, <2>3 DEF AliasesStep
  <2> QED BY <2>4
<1> QED BY <1>8, <1>9

\* What a primary address that was read makes of a key when it is written.
Writes(g, j, p, k) ==
    IF k = Main(j) THEN Gets(Inet(<<Pair(p.addr, Dotted(p.mask))>>))
    ELSE IF k = DefaultRouter /\ isValidIpAddr(GatewayFor(g, p)) THEN Gets(GatewayFor(g, p)) ELSE Stays

\* Its address and mask are usable, and not DHCP.
LEMMA PrimaryWritten ==
    ASSUME NEW r, NEW f, NEW g, WroteBack(r, f, g), NEW j \in InterfacesRead(g) \ Vlans, NEW p, StaticRead(g, j, p),
           NEW k
    PROVE  PrimaryEffect(j, FirstOf(g, j), k) = Writes(g, j, p, k)
<1>1. PICK o : o = FirstOf(g, j)
  OBVIOUS
<1>2. ReadInterface(g, j) = [main |-> p, more |-> AliasesOf(g, j), gw |-> GatewayFor(g, p)] /\ p \in Pairs4
  BY DEF StaticRead
<1>3. o.primary = "yes" /\ o.addr = p.addr /\ o.mask = p.mask /\ o.gw = GatewayFor(g, p)
  BY <1>1, <1>2 DEF FirstOf
<1>4. p.addr \in Ip4Texts /\ p.mask \in Ip4Texts
  BY <1>2 DEF Pairs4
<1>5. IsPrimary(o) /\ UsableStatic(o) /\ ~UsableDhcp(o)
  BY <1>3, <1>4, NotDhcp DEF IsPrimary, UsableStatic, UsableDhcp, isValidIpAddr
<1> QED BY <1>1, <1>3, <1>5 DEF PrimaryEffect, Writes

\* A gateway that is shown is the default router.
LEMMA GatewayShown ==
    ASSUME NEW g, NEW p, isValidIpAddr(GatewayFor(g, p))
    PROVE  DefaultRouter \in DOMAIN g /\ GatewayFor(g, p) = g[DefaultRouter]
<1>1. ~isValidIpAddr(NoText)
  <2>1. NoText # Ip6Text
    <3>1. Len(NoText) = 0 /\ Len(Ip6Text) = 1
      BY DEF NoText, Ip6Text
    <3> QED BY <3>1
  <2>2. NoText \notin Ip4Texts
    BY TextIsText
  <2> QED BY <2>1, <2>2 DEF isValidIpAddr
<1> QED BY <1>1 DEF GatewayFor

\* A step that touches an ifconfig_ key writes the address that was read there.
LEMMA MainTouched ==
    ASSUME NEW r, NEW f, NEW g, WroteBack(r, f, g), NEW q \in StepsOf(r), NEW i, Effect(r, q, Main(i)) # Stays
    PROVE  /\ i \in InterfacesRead(g) \ Vlans
           /\ \E p : /\ StaticRead(g, i, p)
                     /\ Effect(r, q, Main(i)) = Gets(Inet(<<Pair(p.addr, Dotted(p.mask))>>))
<1>1. PICK j \in InterfacesRead(g) : NoStep(r, q) \/ PrimaryStep(r, q, g, j) \/ AliasesStep(r, q, g, j)
  BY StepKinds
<1>2. ~NoStep(r, q)
  BY DEF NoStep
<1>3. ~AliasesStep(r, q, g, j)
  <2>1. Main(i) # Aliases(AsEntry(g, j).name) /\ \A n : Main(i) # Alias(AsEntry(g, j).name, n)
    BY KeyTags
  <2> QED BY <2>1 DEF AliasesStep, AliasEffect
<1>4. j \notin Vlans /\ Effect(r, q, Main(i)) = PrimaryEffect(j, FirstOf(g, j), Main(i))
  BY <1>1, <1>2, <1>3 DEF PrimaryStep
<1>5. PICK p : StaticRead(g, j, p)
  BY <1>4, ReadStatic
<1>6. Main(i) # DefaultRouter
  BY KeyTags
<1>7. Main(i) = Main(j) /\ Effect(r, q, Main(i)) = Gets(Inet(<<Pair(p.addr, Dotted(p.mask))>>))
  <2>1. Effect(r, q, Main(i)) = Writes(g, j, p, Main(i))
    BY <1>4, <1>5, PrimaryWritten
  <2> QED BY <1>6, <2>1 DEF Writes
<1>8. i = j
  BY <1>7 DEF Main
<1> QED BY <1>4, <1>5, <1>7, <1>8

\* One that touches defaultrouter writes what it had.
LEMMA RouterTouched ==
    ASSUME NEW r, NEW f, NEW g, WroteBack(r, f, g), NEW q \in StepsOf(r), Effect(r, q, DefaultRouter) # Stays
    PROVE  DefaultRouter \in DOMAIN g /\ Effect(r, q, DefaultRouter) = Gets(g[DefaultRouter])
<1>1. PICK j \in InterfacesRead(g) : NoStep(r, q) \/ PrimaryStep(r, q, g, j) \/ AliasesStep(r, q, g, j)
  BY StepKinds
<1>2. ~NoStep(r, q)
  BY DEF NoStep
<1>3. ~AliasesStep(r, q, g, j)
  <2>1. DefaultRouter # Aliases(AsEntry(g, j).name) /\ \A n : DefaultRouter # Alias(AsEntry(g, j).name, n)
    BY KeyTags
  <2> QED BY <2>1 DEF AliasesStep, AliasEffect
<1>4. j \notin Vlans /\ Effect(r, q, DefaultRouter) = PrimaryEffect(j, FirstOf(g, j), DefaultRouter)
  BY <1>1, <1>2, <1>3 DEF PrimaryStep
<1>5. PICK p : StaticRead(g, j, p)
  BY <1>4, ReadStatic
<1>6. DefaultRouter # Main(j)
  BY KeyTags
<1>7. isValidIpAddr(GatewayFor(g, p)) /\ Effect(r, q, DefaultRouter) = Gets(GatewayFor(g, p))
  <2>1. Effect(r, q, DefaultRouter) = Writes(g, j, p, DefaultRouter)
    BY <1>4, <1>5, PrimaryWritten
  <2> QED BY <1>6, <2>1 DEF Writes
<1> QED BY <1>7, GatewayShown

\* One that touches an aliases record is the second cycle of its interface, with
\* is_dhcp off.
LEMMA AliasesTouched ==
    ASSUME NEW r, NEW f, NEW g, WroteBack(r, f, g), NEW q \in StepsOf(r), NEW i, Effect(r, q, Aliases(i)) # Stays
    PROVE  /\ i \in InterfacesRead(g)
           /\ Effect(r, q, Aliases(i)) = AliasEffect(AsEntry(g, i), FALSE, Aliases(i))
<1>1. GoodRequest(r)
  BY DEF WroteBack
<1>2. /\ q[1] = 1 /\ q[2] \in 1..Len(r.ifs) /\ r.ifs[q[2]].name = i
      /\ Effect(r, q, Aliases(i)) = AliasEffect(r.ifs[q[2]], DhcpAfter(r, Prior(r, q)), Aliases(i))
  BY <1>1, AliasTouch
<1>3. PICK j \in InterfacesRead(g) : r.ifs[q[2]] = AsEntry(g, j)
  BY <1>2, EntriesRead
<1>4. j = i
  BY <1>2, <1>3, EntryShape DEF Shape
<1>5. DhcpAfter(r, Prior(r, q)) = FALSE
  <2>1. Prior(r, q) \in SUBSET StepsOf(r)
    BY DEF Prior
  <2> QED BY <2>1, NeverDhcp
<1> QED BY <1>2, <1>3, <1>4, <1>5

\* A key that is decided about has what one of the steps gives it.
LEMMA KeptOrGiven ==
    ASSUME NEW r, NEW f, NEW g, WroteBack(r, f, g), NEW k \in Keys \ {StaticRoutes}
    PROVE  \/ Agree(f, g, k)
           \/ \E q \in StepsOf(r) : Effect(r, q, k) # Stays /\ Has(f, k, Effect(r, q, k))
<1>1. Untouched(r, k, StepsOf(r)) \/ Decided(r, f, k, StepsOf(r))
  BY DEF WroteBack, Settled
<1>2. CASE Untouched(r, k, StepsOf(r))
  BY <1>2 DEF WroteBack, KeepsUntouched
<1>3. CASE Decided(r, f, k, StepsOf(r))
  BY <1>3 DEF Decided, IsLast
<1> QED BY <1>1, <1>2, <1>3

\* A list of one address with a dotted mask reads as what was decoded.
LEMMA DottedReads ==
    ASSUME NEW p \in Pairs4
    PROVE  getIpConfFromString(Inet(<<Pair(p.addr, Dotted(p.mask))>>)) = <<p>>
<1>1. PICK x : x = Pair(p.addr, Dotted(p.mask))
  OBVIOUS
<1>2. x.addr = p.addr /\ x.mask[1] = "dotted" /\ x.mask[2] = p.mask
  BY <1>1 DEF Pair, Dotted
<1>3. p.addr \in Ip4Texts /\ p.mask \in Ip4Texts /\ p = [addr |-> p.addr, mask |-> p.mask]
  BY DEF Pairs4
<1>4. Readable(x) /\ Decoded(x) = p
  BY <1>2, <1>3 DEF Readable, MaskReadable, Decoded, MaskText
<1>5. Inet(<<x>>)[1] # "word" /\ Inet(<<x>>)[2][1] = x
  BY DEF Inet
<1> QED BY <1>1, <1>4, <1>5 DEF getIpConfFromString

\* The primary addresses read as before,
LEMMA MainKept ==
    ASSUME NEW r, NEW f, NEW g, WroteBack(r, f, g), NEW i \in Interfaces \ BadNames
    PROVE  /\ Main(i) \in DOMAIN f <=> Main(i) \in DOMAIN g
           /\ Main(i) \in DOMAIN g => getIpConfFromString(f[Main(i)]) = getIpConfFromString(g[Main(i)])
<1>1. Main(i) \in Keys \ {StaticRoutes}
  BY IfKeysAreKeys, KeyTags
<1>2. CASE Agree(f, g, Main(i))
  BY <1>2 DEF Agree
<1>3. ASSUME NEW q \in StepsOf(r), Effect(r, q, Main(i)) # Stays, Has(f, Main(i), Effect(r, q, Main(i)))
      PROVE  /\ Main(i) \in DOMAIN f /\ Main(i) \in DOMAIN g
             /\ getIpConfFromString(f[Main(i)]) = getIpConfFromString(g[Main(i)])
  <2>1. PICK p : /\ StaticRead(g, i, p)
                 /\ Effect(r, q, Main(i)) = Gets(Inet(<<Pair(p.addr, Dotted(p.mask))>>))
    BY <1>3, MainTouched
  <2>2. i \in InterfacesRead(g)
    BY <1>3, MainTouched
  <2>3. Main(i) \in DOMAIN g
    BY <2>2 DEF InterfacesRead
  <2>4. PICK v : v = Inet(<<Pair(p.addr, Dotted(p.mask))>>)
    OBVIOUS
  <2>5. Main(i) \in DOMAIN f /\ Gets(v) = Gets(f[Main(i)])
    BY <1>3, <2>1, <2>4, EffectsApart DEF Has
  <2>6. f[Main(i)] = v
    BY <2>5 DEF Gets
  <2>7. p \in Pairs4 /\ getIpConfFromString(g[Main(i)]) = <<p>>
    BY <2>1 DEF StaticRead
  <2> QED BY <2>3, <2>4, <2>5, <2>6, <2>7, DottedReads
<1> QED BY <1>1, <1>2, <1>3, KeptOrGiven

\* the default router is the same,
LEMMA RouterKept ==
    ASSUME NEW r, NEW f, NEW g, WroteBack(r, f, g)
    PROVE  Agree(f, g, DefaultRouter)
<1>1. DefaultRouter \in Keys \ {StaticRoutes}
  BY KeyTags DEF Keys
<1>2. ASSUME NEW q \in StepsOf(r), Effect(r, q, DefaultRouter) # Stays,
             Has(f, DefaultRouter, Effect(r, q, DefaultRouter))
      PROVE  Agree(f, g, DefaultRouter)
  <2>1. DefaultRouter \in DOMAIN g /\ Effect(r, q, DefaultRouter) = Gets(g[DefaultRouter])
    BY <1>2, RouterTouched
  <2>2. DefaultRouter \in DOMAIN f /\ Gets(g[DefaultRouter]) = Gets(f[DefaultRouter])
    BY <1>2, <2>1, EffectsApart DEF Has
  <2> QED BY <2>1, <2>2 DEF Gets, Agree
<1> QED BY <1>1, <1>2, KeptOrGiven

\* and the request has no routes,
LEMMA RoutesSame ==
    ASSUME NEW r, NEW f, NEW g, WroteBack(r, f, g)
    PROVE  Agree(f, g, StaticRoutes) /\ \A x \in RouteNames : Agree(f, g, Route(x))
<1>1. r.routes = <<>>
  BY DEF WroteBack, AsRead
<1>2. ActiveIn(r, StepsOf(r)) = {}
  BY <1>1 DEF ActiveIn
<1>3. ASSUME NEW x \in RouteNames PROVE Agree(f, g, Route(x))
  <2>1. Route(x) \in Keys \ {StaticRoutes}
    BY KeyTags DEF Keys, RouteKeys
  <2>2. ASSUME NEW q \in StepsOf(r) PROVE Effect(r, q, Route(x)) = Stays
    <3>1. PICK j \in InterfacesRead(g) : NoStep(r, q) \/ PrimaryStep(r, q, g, j) \/ AliasesStep(r, q, g, j)
      BY StepKinds
    <3>2. \A y, n : Route(x) # Aliases(y) /\ Route(x) # Alias(y, n) /\ Route(x) # Main(y) /\ Route(x) # DefaultRouter
      BY KeyTags
    <3>3. ASSUME AliasesStep(r, q, g, j) PROVE Effect(r, q, Route(x)) = Stays
      BY <3>2, <3>3 DEF AliasesStep, AliasEffect
    <3>4. ASSUME PrimaryStep(r, q, g, j) PROVE Effect(r, q, Route(x)) = Stays
      <4>1. PICK p : StaticRead(g, j, p)
        BY <3>4, ReadStatic DEF PrimaryStep
      <4>2. j \notin Vlans /\ Effect(r, q, Route(x)) = PrimaryEffect(j, FirstOf(g, j), Route(x))
        BY <3>4 DEF PrimaryStep
      <4>3. PrimaryEffect(j, FirstOf(g, j), Route(x)) = Stays
        <5>1. PrimaryEffect(j, FirstOf(g, j), Route(x)) = Writes(g, j, p, Route(x))
          BY <4>1, <4>2, PrimaryWritten
        <5> QED BY <3>2, <5>1 DEF Writes
      <4> QED BY <4>2, <4>3
    <3> QED BY <3>1, <3>3, <3>4 DEF NoStep
  <2> QED BY <2>1, <2>2, KeptOrGiven
<1> QED BY <1>2, <1>3 DEF WroteBack

\* The aliases record that the second cycle puts reads as the aliases that
\* were read: every object but the first is one, in the same order.
LEMMA AliasesAgain ==
    ASSUME NEW r, NEW f, NEW g, WroteBack(r, f, g), NEW i \in InterfacesRead(g) \ Vlans,
           NEW addrs, addrs = AsEntry(g, i).addrs, addrs \in Seq(AddrObjects)
    PROVE  /\ Len(AliasPairs(addrs)) = Len(AliasesOf(g, i))
           /\ getAliases(Inet(AliasPairs(addrs))) = AliasesOf(g, i)
<1>1. PICK p : StaticRead(g, i, p)
  BY ReadStatic
<1>2. PICK more, L : more = AliasesOf(g, i) /\ L = Len(more)
  OBVIOUS
<1>3. more \in Seq(Pairs4) /\ L \in Nat /\ ReadInterface(g, i).more = more
  BY <1>1, <1>2 DEF StaticRead
<1>4. /\ Len(addrs) = L + 1 /\ addrs[1] = FirstOf(g, i)
      /\ \A m \in 1..L : addrs[m + 1] = [primary |-> "absent", addr |-> more[m].addr, mask |-> more[m].mask, gw |-> NoText]
  <2>1. PICK e : e = AsEntry(g, i)
    OBVIOUS
  <2>2. Shape(g, i, e) /\ addrs = e.addrs
    BY <2>1, EntryShape
  <2> QED BY <1>2, <1>3, <2>2, Zenon DEF Shape
<1>5. ASSUME NEW m \in 1..L
      PROVE  /\ IsAlias(addrs[m + 1]) /\ InNotation4(addrs[m + 1])
             /\ Pair(addrs[m + 1].addr, addrs[m + 1].mask) = more[m]
  <2>1. PICK o : o = addrs[m + 1]
    OBVIOUS
  <2>2. o = [primary |-> "absent", addr |-> more[m].addr, mask |-> more[m].mask, gw |-> NoText]
    BY <1>4, <2>1, Zenon
  <2>3. o.primary = "absent" /\ o.addr = more[m].addr /\ o.mask = more[m].mask
    BY <2>2
  <2>4. more[m] \in Pairs4
    BY <1>2, <1>3
  <2>5. o.addr \in Ip4Texts /\ o.mask \in Ip4Texts /\ Pair(o.addr, o.mask) = more[m]
    BY <2>3, <2>4 DEF Pairs4, Pair
  <2> QED BY <2>1, <2>3, <2>5 DEF IsAlias, IsPrimary, isValidIpAddr, InNotation4
<1>6. ~IsAlias(addrs[1])
  BY <1>4 DEF IsAlias, IsPrimary, FirstOf
<1>7. {n \in 1..Len(addrs) : IsAlias(addrs[n])} = (1 + 1)..(1 + L)
  <2>1. ASSUME NEW n \in (1 + 1)..(1 + L) PROVE n \in 1..Len(addrs) /\ IsAlias(addrs[n])
    <3>1. n - 1 \in 1..L /\ (n - 1) + 1 = n /\ n \in 1..(L + 1)
      BY <1>3
    <3>2. IsAlias(addrs[(n - 1) + 1])
      BY <1>5, <3>1
    <3> QED BY <1>4, <3>1, <3>2
  <2>2. ASSUME NEW n \in 1..Len(addrs), IsAlias(addrs[n]) PROVE n \in (1 + 1)..(1 + L)
    <3>1. n # 1 /\ n \in 1..(L + 1)
      BY <1>4, <1>6, <2>2
    <3> QED BY <1>3, <3>1
  <2> QED BY <2>1, <2>2
<1>8. PICK as : as = AliasesIn(addrs)
  OBVIOUS
<1>9. as = [n \in 1..L |-> addrs[1 + n]]
  <2>1. PICK a \in Nat : a = 1
    OBVIOUS
  <2>2. \A s : Chosen(s, (a + 1)..(a + L)) = [n \in 1..L |-> s[a + n]]
    BY <1>3, ChosenPart
  <2>3. as = Chosen(addrs, (a + 1)..(a + L))
    BY <1>7, <1>8, <2>1 DEF AliasesIn
  <2> QED BY <2>1, <2>2, <2>3
<1>10. Len(as) = L /\ \A n \in 1..L : as[n] = addrs[n + 1]
  <2>1. \A n \in 1..L : 1 + n = n + 1
    BY <1>3
  <2> QED BY <1>3, <1>9, <2>1
<1>11. PICK v4 : v4 = Chosen(as, {m \in 1..Len(as) : InNotation4(as[m])})
  OBVIOUS
<1>12. {m \in 1..Len(as) : InNotation4(as[m])} = (0 + 1)..(0 + L)
  <2>1. (0 + 1)..(0 + L) = 1..L
    BY <1>3
  <2> QED BY <1>5, <1>10, <2>1
<1>13. v4 = [n \in 1..L |-> as[n]]
  <2>1. PICK a \in Nat : a = 0
    OBVIOUS
  <2>2. \A s : Chosen(s, (a + 1)..(a + L)) = [n \in 1..L |-> s[a + n]]
    BY <1>3, ChosenPart
  <2>3. v4 = Chosen(as, (a + 1)..(a + L))
    BY <1>11, <1>12, <2>1
  <2>4. v4 = [n \in 1..L |-> as[a + n]]
    BY <2>2, <2>3
  <2>5. \A n \in 1..L : a + n = n
    BY <1>3, <2>1
  <2> QED BY <2>4, <2>5
<1>14. Len(v4) = L /\ \A n \in 1..L : v4[n] = addrs[n + 1]
  <2>1. Len(v4) = L /\ \A n \in 1..L : v4[n] = as[n]
    BY <1>3, <1>13
  <2> QED BY <1>10, <2>1
<1>15. getAliases(Inet(AliasPairs(addrs))) = [m \in 1..Len(v4) |-> Pair(v4[m].addr, v4[m].mask)]
  BY <1>8, <1>11, AliasesText
<1>16. \A m \in 1..L : Pair(v4[m].addr, v4[m].mask) = more[m]
  BY <1>5, <1>14
<1>17. more = [m \in 1..L |-> more[m]]
  BY <1>2, <1>3
<1>18. getAliases(Inet(AliasPairs(addrs))) = more
  BY <1>14, <1>15, <1>16, <1>17
<1>19. Len(AliasPairs(addrs)) = L
  BY <1>8, <1>10, AliasLists
<1> QED BY <1>2, <1>18, <1>19

\* and so are the aliases, whichever records they were in.
LEMMA AliasesKept ==
    ASSUME NEW r, NEW f, NEW g, WroteBack(r, f, g), NEW i \in InterfacesRead(g) \ Vlans
    PROVE  AliasesOf(f, i) = AliasesOf(g, i)
<1>1. i \in Interfaces \ BadNames
  BY DEF InterfacesRead
<1>2. PICK n \in 1..Len(r.ifs) : r.ifs[n] = AsEntry(g, i)
  BY EntriesRead
<1>3. PICK addrs : addrs = AsEntry(g, i).addrs
  OBVIOUS
<1>4. PICK p : StaticRead(g, i, p)
  BY ReadStatic
<1>5. PICK more : more = AliasesOf(g, i)
  OBVIOUS
<1>6. more \in Seq(Pairs4) /\ SinglesStatic(g, i)
  BY <1>4, <1>5 DEF StaticRead
<1>7. GoodRequest(r) /\ Settled(r, f) /\ Alias(i, MAX_ALIASES) \notin DOMAIN g
      /\ KeepsUntouched(r, f, g)
  BY DEF WroteBack
<1>8. r.ifs[n].name = i /\ r.ifs[n].addrs = addrs /\ addrs \in Seq(AddrObjects) /\ addrs # <<>>
  <2>1. Shape(g, i, AsEntry(g, i))
    BY EntryShape
  <2>2. AsEntry(g, i).name = i
    BY <2>1 DEF Shape
  <2>3. Len(addrs) \in Nat /\ Len(addrs) # 0
    <3>1. \E x \in Nat : Len(addrs) = x + 1
      BY <1>3, <2>1 DEF Shape
    <3> QED BY <3>1
  <2>4. addrs \in Seq(AddrObjects)
    BY <1>2, <1>3, <1>7, EntryOf
  <2> QED BY <1>2, <1>3, <2>2, <2>3, <2>4
<1>9. \A x \in 0..MAX_ALIASES : Alias(i, x) \notin DOMAIN f
  BY <1>1, <1>7, <1>8, NoSingles
<1>10. AliasesOf(f, i) = IF Aliases(i) \in DOMAIN f THEN getAliases(f[Aliases(i)]) ELSE <<>>
  BY <1>1, <1>9, ReadRecord
<1>11. Aliases(i) \in Keys \ {StaticRoutes}
  BY <1>1, IfKeysAreKeys, KeyTags
<1>12. Len(AliasPairs(addrs)) = Len(more) /\ getAliases(Inet(AliasPairs(addrs))) = more
  BY <1>3, <1>5, <1>8, AliasesAgain
<1>13. AsEntry(g, i).name = i
  BY <1>2, <1>8
<1>14. CASE more = <<>>
  <2>1. AliasPairs(addrs) = <<>>
    <3>1. Len(more) = 0
      BY <1>14
    <3>2. Len(AliasesIn(addrs)) = 0 /\ AliasPairs(addrs) = [x \in 1..Len(AliasesIn(addrs)) |->
                 Pair(AliasesIn(addrs)[x].addr, Dotted(AliasesIn(addrs)[x].mask))]
      BY <1>8, <1>12, <3>1, AliasLists
    <3> QED BY <3>2
  <2>2. AliasEffect(AsEntry(g, i), FALSE, Aliases(i)) = Stays
    BY <1>3, <1>13, <2>1 DEF AliasEffect
  <2>3. Agree(f, g, Aliases(i))
    <3>1. ASSUME NEW q \in StepsOf(r) PROVE Effect(r, q, Aliases(i)) = Stays
      BY <2>2, AliasesTouched
    <3> QED BY <1>11, <3>1, KeptOrGiven
  <2>4. CASE Aliases(i) \in DOMAIN g
    <3>1. i \in DOMAIN Collected(g)
      BY <1>1, <1>6, <2>4, CollectedFrom
    <3>2. Collected(g)[i] = more
      BY <1>5, <3>1 DEF AliasesOf
    <3>3. Collected(g)[i] = getAliases(g[Aliases(i)])
      BY <1>1, <1>6, <1>14, <3>1, <3>2, CollectedFrom
    <3> QED BY <1>5, <1>10, <2>3, <2>4, <3>2, <3>3 DEF Agree
  <2>5. CASE Aliases(i) \notin DOMAIN g
    BY <1>5, <1>10, <1>14, <2>3, <2>5 DEF Agree
  <2> QED BY <2>4, <2>5
<1>15. CASE more # <<>>
  <2>1. AliasPairs(addrs) # <<>>
    <3>1. Len(more) # 0
      BY <1>6, <1>15
    <3> QED BY <1>12, <3>1
  <2>2. AliasEffect(AsEntry(g, i), FALSE, Aliases(i)) = Gets(Inet(AliasPairs(addrs)))
    BY <1>3, <1>13, <2>1 DEF AliasEffect
  <2>3. PICK q \in StepsOf(r) : Effect(r, q, Aliases(i)) # Stays /\ Has(f, Aliases(i), Effect(r, q, Aliases(i)))
    <3>1. PICK s : s = <<1, n, Len(r.ifs[n].addrs) + 1>>
      OBVIOUS
    <3>2. /\ s \in StepsOf(r)
          /\ Effect(r, s, Aliases(i)) = AliasEffect(r.ifs[n], DhcpAfter(r, Prior(r, s)), Aliases(i))
      BY <1>1, <1>7, <1>8, <3>1, AliasStep
    <3>3. DhcpAfter(r, Prior(r, s)) = FALSE
      <4>1. Prior(r, s) \in SUBSET StepsOf(r)
        BY DEF Prior
      <4> QED BY <4>1, NeverDhcp
    <3>4. Effect(r, s, Aliases(i)) # Stays
      BY <1>2, <2>2, <3>2, <3>3, EffectsApart
    <3> QED BY <1>7, <1>11, <3>2, <3>4 DEF Settled, Decided, IsLast, Untouched
  <2>4. Effect(r, q, Aliases(i)) = Gets(Inet(AliasPairs(addrs)))
    BY <2>2, <2>3, AliasesTouched
  <2>5. Aliases(i) \in DOMAIN f /\ Gets(Inet(AliasPairs(addrs))) = Gets(f[Aliases(i)])
    BY <2>3, <2>4, EffectsApart DEF Has
  <2>6. f[Aliases(i)] = Inet(AliasPairs(addrs))
    BY <2>5 DEF Gets
  <2> QED BY <1>5, <1>10, <1>12, <2>5, <2>6
<1> QED BY <1>14, <1>15

\* A client that writes back what it has read changes nothing that can be read
\* (setRcIpConfig and getRcIpConfig), whatever the file was and in whichever
\* notations: if no record of an interface, VLANs apart, is alias number
\* MAX_ALIASES or says DHCP.
THEOREM WritingBackKeeps == Spec => []WriteBackKeeps
<1>1. ASSUME KInv PROVE WriteBackKeeps
  <2> SUFFICES ASSUME Written, AsRead(req, before),
                      \A i \in InterfacesRead(before) \ Vlans :
                         /\ Alias(i, MAX_ALIASES) \notin DOMAIN before
                         /\ \A k \in IfKeysOf(i) \cap DOMAIN before :
                               before[k][1] = "word" => ~isDhcpText(before[k][2])
               PROVE  getRcIpConfig(disk) = getRcIpConfig(before)
    BY DEF WriteBackKeeps
  <2>1. GoodRequest(req) /\ Settled(req, disk) /\ OriginInv /\ saved # {} /\ Formed(before)
    BY <1>1, RequestTypes DEF KInv, JInv, IInv, SavedInv, FormInv, GoodRequest
  <2>2. WroteBack(req, disk, before)
    BY <2>1 DEF OriginInv, WroteBack, KeepsUntouched
  <2>3. PICK r, f, g : r = req /\ f = disk /\ g = before
    OBVIOUS
  <2>4. WroteBack(r, f, g)
    BY <2>2, <2>3
  <2>5. InterfacesRead(f) = InterfacesRead(g)
    BY <2>4, MainKept DEF InterfacesRead
  <2>6. ASSUME NEW i \in InterfacesRead(g) PROVE ReadInterface(f, i) = ReadInterface(g, i)
    <3>1. PICK first : first = getIpConfFromString(g[Main(i)])[1]
      OBVIOUS
    <3>2. getIpConfFromString(f[Main(i)])[1] = first
      BY <2>4, <3>1, MainKept DEF InterfacesRead
    <3>3. GatewayFor(f, first) = GatewayFor(g, first)
      BY <2>4, RouterKept DEF Agree, GatewayFor
    <3>4. AliasesOf(f, i) = AliasesOf(g, i)
      <4>1. CASE i \in Vlans
        BY <4>1 DEF AliasesOf
      <4>2. CASE i \notin Vlans
        BY <2>4, <4>2, AliasesKept
      <4> QED BY <4>1, <4>2
    <3> QED BY <3>1, <3>2, <3>3, <3>4 DEF ReadInterface
  <2>7. RoutesRead(f) = RoutesRead(g)
    BY <2>4, RoutesSame DEF RoutesRead, Agree
  <2>8. ASSUME NEW x \in RoutesRead(g) PROVE ReadRoute(f, x) = ReadRoute(g, x)
    <3>1. Agree(f, g, StaticRoutes) /\ Agree(f, g, Route(x)) /\ Route(x) \in DOMAIN g
      BY <2>4, RoutesSame DEF RoutesRead
    <3> QED BY <3>1 DEF ReadRoute, Agree
  <2>9. getRcIpConfig(f) = getRcIpConfig(g)
    BY <2>5, <2>6, <2>7, <2>8 DEF getRcIpConfig
  <2> QED BY <2>3, <2>9
<1> QED BY OriginInvariance, <1>1, PTL

=============================================================================
