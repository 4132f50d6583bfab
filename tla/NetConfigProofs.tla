-------------------------- MODULE NetConfigProofs --------------------------
(***************************************************************************)
(* What the commands on interfaces and routes promise, for any interfaces, *)
(* addresses, gateways and destinations, any number of commands and any    *)
(* acts of DHCP clients and other tools between their system calls.        *)
(***************************************************************************)
EXTENDS NetConfig, FiniteSetTheorems, TLAPS

USE DEF kernel, iflist, locals, worker

-----------------------------------------------------------------------------
(* Commands and calls                                                      *)

OnIf == IfCommands \cup {"enable", "disable"}   \* the commands on an interface

\* What a command carries.
LEMMA CommandTypes ==
    ASSUME NEW c \in Commands \cup {NoCommand}
    PROVE  /\ c.name \in OnIf => c.if \in Ifs
           /\ c.name \in {"addrSet", "addrAdd", "addrRemove"} => c.addr \in Addrs
           /\ c.name = "mtuSet" => c.mtu \in Mtus
           /\ c.name \in {"routeSet", "routeDel", "routeGet"} => c.dst \in Dests
           /\ c.name \in {"routeSet", "routeDel"} => c.gw \in Gateways
BY DEF Commands, NoCommand, Command, OnIf, IfCommands

\* The calls of a command.
LEMMA CallsOf ==
    ASSUME TypeOK, CallInv, pc # "idle"
    PROVE  /\ cmd.name = "disable" => pc \in {"getFlags", "setFlags", "getRoute", "getAgain", "delRoute", "deaf"}
           /\ cmd.name = "routeSet" => pc \in {"addRoute", "changeRoute"}
           /\ cmd.name = "list" => pc \in {"listSize", "listResize", "listDump", "listErrno"}
           /\ cmd.name = "addrSet" => pc \in {"getMain", "removeAddr", "addAddr", "look1", "look2"}
           /\ cmd.name = "addrRemove" => pc = "removeAddr"
           /\ cmd.name = "dhcpDisable" => pc \in {"look1", "look2", "look3"}
           /\ cmd.name = "dhcpEnable" =>
                 pc \in {"getMain", "removeAddr", "lookOn", "media", "spawn", "lookSpawned"}
           /\ cmd.name = "ifList" => pc \in {"getIfAddrs", "listClient", "listMain", "dead"}
<1>1. pc \in Calls /\ cmd.name \in CommandsAt(pc)
  BY DEF TypeOK, CallInv
<1> QED  BY <1>1 DEF Calls, CommandsAt

\* The step that makes a call.
LEMMA StepAt ==
    ASSUME WorkerStep
    PROVE  /\ pc \notin {"idle", "deaf", "dead"}
           /\ pc = "getFlags" => GetFlags
           /\ pc = "setFlags" => SetFlags
           /\ pc \in {"getRoute", "getAgain"} => GetRoute
           /\ pc = "delRoute" => DelRoute
           /\ pc = "addRoute" => AddRoute
           /\ pc = "changeRoute" => ChangeRoute
           /\ pc \in {"listSize", "listResize"} => ListSize
           /\ pc = "listDump" => ListDump
           /\ pc = "listErrno" => ListErrno
           /\ pc = "getMain" => GetMain
           /\ pc = "removeAddr" => RemoveAddr
           /\ pc = "addAddr" => AddAddr
           /\ pc = "setMtu" => SetMtu
           /\ pc = "look1" => Look1
           /\ pc = "look2" => Look2
           /\ pc = "look3" => Look3
           /\ pc = "lookOn" => LookOn
           /\ pc = "media" => Media
           /\ pc = "spawn" => Spawn
           /\ pc = "lookSpawned" => LookSpawned
           /\ pc = "getIfAddrs" => GetIfAddrs
           /\ pc = "listClient" => ListClient
           /\ pc = "listMain" => ListMain
<1>1. /\ GetFlags => pc = "getFlags"
      /\ SetFlags => pc = "setFlags"
      /\ GetRoute => pc \in {"getRoute", "getAgain"}
      /\ DelRoute => pc = "delRoute"
      /\ AddRoute => pc = "addRoute"
      /\ ChangeRoute => pc = "changeRoute"
  BY DEF GetFlags, SetFlags, GetRoute, DelRoute, AddRoute, ChangeRoute
<1>2. /\ ListSize => pc \in {"listSize", "listResize"}
      /\ ListDump => pc = "listDump"
      /\ ListErrno => pc = "listErrno"
      /\ GetMain => pc = "getMain"
      /\ RemoveAddr => pc = "removeAddr"
      /\ AddAddr => pc = "addAddr"
      /\ SetMtu => pc = "setMtu"
      /\ Query => pc = "query"
  BY DEF ListSize, ListDump, ListErrno, GetMain, RemoveAddr, AddAddr, SetMtu, Query
<1>3. /\ Look1 => pc = "look1"
      /\ Look2 => pc = "look2"
      /\ Look3 => pc = "look3"
      /\ LookOn => pc = "lookOn"
      /\ Media => pc = "media"
      /\ Spawn => pc = "spawn"
      /\ LookSpawned => pc = "lookSpawned"
  BY DEF Look1, Look2, Look3, LookOn, Media, Spawn, LookSpawned
<1>4. /\ GetIfAddrs => pc = "getIfAddrs"
      /\ ListClient => pc = "listClient"
      /\ ListMain => pc = "listMain"
      /\ GetJails => pc = "getJails"
  BY DEF GetIfAddrs, ListClient, ListMain, GetJails
<1> QED  BY <1>1, <1>2, <1>3, <1>4 DEF WorkerStep


-----------------------------------------------------------------------------
(* Frames: the calls at which a variable may change.                       *)

\* What the kernel keeps,
KernelFrame ==
    /\ pc # "setFlags" => up' = up
    /\ pc \notin {"removeAddr", "addAddr"} => addrs' = addrs /\ main' = main
    /\ pc # "setMtu" => mtu' = mtu
    /\ pc \notin {"look1", "look2", "spawn"} => client' = client
    /\ pc \notin {"delRoute", "addRoute", "changeRoute"} => routes' = routes
    /\ acts' = acts

\* what the command keeps,
LocalsFrame ==
    /\ pc \notin {"getMain", "listClient", "listMain"} => cur' = cur
    /\ pc \notin {"getRoute", "getAgain"} => seen' = seen
    /\ pc # "media" => retry' = retry
    /\ pc \notin {"listSize", "listResize"} => size' = size
    /\ pc # "listDump" => dumps' = dumps
    /\ pc \notin {"look1", "look2"} => sent' = sent
    /\ before' = before

\* what IF_LIST has gathered.
ListFrame ==
    /\ pc \notin {"getIfAddrs", "listClient", "listMain"} => todo' = todo
    /\ pc \notin {"getIfAddrs", "listMain"} => snap' = snap
    /\ pc # "listMain" => list' = list

\* errno and failed are set and never reset.
Sticky ==
    /\ errno' = errno \/ errno' \in {"other", "ENOMEM"}
    /\ failed' \in {failed, TRUE}

\* All of it.
Frame == KernelFrame /\ LocalsFrame /\ ListFrame /\ Sticky /\ cmd' = cmd /\ cmds' = cmds

\* A step of a command changes nothing but what its call is for.
LEMMA WorkerFrame ==
    ASSUME WorkerStep PROVE Frame
<1> USE DEF Frame, KernelFrame, LocalsFrame, ListFrame, Sticky, Accepted, Negative, Refused
<1>0. acts' = acts /\ cmd' = cmd /\ cmds' = cmds
  BY DEF WorkerStep
<1>1. CASE GetFlags
  BY <1>0, <1>1 DEF GetFlags
<1>2. CASE SetFlags
  BY <1>0, <1>2 DEF SetFlags
<1>3. CASE GetRoute
  BY <1>0, <1>3 DEF GetRoute
<1>4. CASE DelRoute
  BY <1>0, <1>4 DEF DelRoute
<1>5. CASE AddRoute
  BY <1>0, <1>5 DEF AddRoute
<1>6. CASE ChangeRoute
  BY <1>0, <1>6 DEF ChangeRoute
<1>7. CASE ListSize
  BY <1>0, <1>7 DEF ListSize
<1>8. CASE ListDump
  BY <1>0, <1>8 DEF ListDump
<1>9. CASE ListErrno
  BY <1>0, <1>9 DEF ListErrno
<1>10. CASE GetMain
  BY <1>0, <1>10 DEF GetMain
<1>11. CASE RemoveAddr
  BY <1>0, <1>11 DEF RemoveAddr
<1>12. CASE AddAddr
  BY <1>0, <1>12 DEF AddAddr
<1>13. CASE SetMtu
  BY <1>0, <1>13 DEF SetMtu
<1>14. CASE Query
  BY <1>0, <1>14 DEF Query
<1>15. CASE Look1
  BY <1>0, <1>15 DEF Look1, NoClient, Signal, FindsNoClient
<1>16. CASE Look2
  BY <1>0, <1>16 DEF Look2, NoClient, Signal, FindsNoClient
<1>17. CASE Look3
  BY <1>0, <1>17 DEF Look3, FindsClient, FindsNoClient
<1>18. CASE LookOn
  BY <1>0, <1>18 DEF LookOn, FindsClient, FindsNoClient
<1>19. CASE Media
  BY <1>0, <1>19 DEF Media
<1>20. CASE Spawn
  BY <1>0, <1>20 DEF Spawn
<1>21. CASE LookSpawned
  BY <1>0, <1>21 DEF LookSpawned, FindsClient, FindsNoClient
<1>22. CASE GetIfAddrs
  BY <1>0, <1>22 DEF GetIfAddrs
<1>23. CASE ListClient
  BY <1>0, <1>23 DEF ListClient, FindsClient, FindsNoClient
<1>24. CASE ListMain
  BY <1>0, <1>24 DEF ListMain, NextIf
<1>25. CASE GetJails
  BY <1>0, <1>25 DEF GetJails
<1> QED
  BY <1>1, <1>2, <1>3, <1>4, <1>5, <1>6, <1>7, <1>8, <1>9, <1>10, <1>11, <1>12, <1>13,
     <1>14, <1>15, <1>16, <1>17, <1>18, <1>19, <1>20, <1>21, <1>22, <1>23, <1>24, <1>25
     DEF WorkerStep


\* What has been refused stays so.
LEMMA StillFailed ==
    ASSUME WorkerStep, failed PROVE failed'
<1>1. failed' = failed \/ failed' = TRUE
  BY WorkerFrame DEF Frame, Sticky
<1> QED  BY <1>1, Zenon

-----------------------------------------------------------------------------
(* The course of a command.                                                *)

\* Every call is one that the command makes.
LEMMA CallNext ==
    ASSUME TypeOK, CallInv, WorkerStep
    PROVE  CallInv' /\ pc' \in Calls \ {"getMain"} /\ result' \in Results
<1> USE DEF Goto, Return, CallInv, CommandsAt, Calls, Results
<1>0. cmd' = cmd /\ result \in Results
  BY DEF WorkerStep, TypeOK
<1>1. CASE GetFlags
  BY <1>0, <1>1 DEF GetFlags
<1>2. CASE SetFlags
  BY <1>0, <1>2 DEF SetFlags
<1>3. CASE GetRoute
  BY <1>0, <1>3 DEF GetRoute, RouteFound, NoRouteFound, DefaultRouteIf
<1>4. CASE DelRoute
  BY <1>0, <1>4 DEF DelRoute
<1>5. CASE AddRoute
  BY <1>0, <1>5 DEF AddRoute
<1>6. CASE ChangeRoute
  BY <1>0, <1>6 DEF ChangeRoute
<1>7. CASE ListSize
  BY <1>0, <1>7 DEF ListSize
<1>8. CASE ListDump
  BY <1>0, <1>8 DEF ListDump
<1>9. CASE ListErrno
  BY <1>0, <1>9 DEF ListErrno
<1>10. CASE GetMain
  BY <1>0, <1>10 DEF GetMain
<1>11. CASE RemoveAddr
  BY <1>0, <1>11 DEF RemoveAddr
<1>12. CASE AddAddr
  BY <1>0, <1>12 DEF AddAddr
<1>13. CASE SetMtu
  BY <1>0, <1>13 DEF SetMtu
<1>14. CASE Query
  BY <1>0, <1>14 DEF Query
<1>15. CASE Look1
  BY <1>0, <1>15 DEF Look1, NoClient
<1>16. CASE Look2
  BY <1>0, <1>16 DEF Look2, NoClient
<1>17. CASE Look3
  BY <1>0, <1>17 DEF Look3
<1>18. CASE LookOn
  BY <1>0, <1>18 DEF LookOn
<1>19. CASE Media
  BY <1>0, <1>19 DEF Media
<1>20. CASE Spawn
  BY <1>0, <1>20 DEF Spawn
<1>21. CASE LookSpawned
  BY <1>0, <1>21 DEF LookSpawned
<1>22. CASE GetIfAddrs
  BY <1>0, <1>22, SetsAssumption DEF GetIfAddrs
<1>23. CASE ListClient
  BY <1>0, <1>23 DEF ListClient, NextIf
<1>24. CASE ListMain
  BY <1>0, <1>24 DEF ListMain, NextIf
<1>25. CASE GetJails
  BY <1>0, <1>25 DEF GetJails
<1> QED
  BY <1>1, <1>2, <1>3, <1>4, <1>5, <1>6, <1>7, <1>8, <1>9, <1>10, <1>11, <1>12, <1>13,
     <1>14, <1>15, <1>16, <1>17, <1>18, <1>19, <1>20, <1>21, <1>22, <1>23, <1>24, <1>25
     DEF WorkerStep


-----------------------------------------------------------------------------
(* Types.                                                                  *)

\* The data that the calls of a command use are of their types.
LEMMA CallTypes ==
    ASSUME TypeOK, CallInv
    PROVE  /\ pc \in {"setFlags", "getMain", "removeAddr", "addAddr", "setMtu", "look1", "look2", "look3", "spawn"} =>
                 cmd.if \in Ifs
           /\ pc = "addAddr" => cmd.addr \in Addrs
           /\ pc = "setMtu" => cmd.mtu \in Mtus
           /\ pc \in {"getRoute", "getAgain", "delRoute", "addRoute", "changeRoute"} => Dst \in Dests
           /\ pc \in {"addRoute", "changeRoute"} => Dst = cmd.dst /\ Gw = cmd.gw /\ Gw \in Gateways
           /\ pc \in {"listClient", "listMain"} => Subject \in todo /\ Subject \in Ifs
<1>1. cmd \in Commands \cup {NoCommand} /\ todo \subseteq Ifs
  BY DEF TypeOK
<1>2. pc # "idle" => cmd.name \in CommandsAt(pc)
  BY DEF CallInv
<1>3. pc \in {"listClient", "listMain"} => todo # {} /\ cmd.name = "ifList"
  BY <1>2 DEF CallInv, CommandsAt
<1>4. pc \in {"listClient", "listMain"} => Subject \in todo /\ Subject \in Ifs
  BY <1>1, <1>3 DEF Subject
<1>5. pc \in {"setFlags", "getMain", "removeAddr", "addAddr", "setMtu", "look1", "look2", "look3", "spawn"} =>
         cmd.name \in OnIf
  BY <1>2 DEF CommandsAt, OnIf, IfCommands
<1>6. /\ pc = "addAddr" => cmd.name \in {"addrSet", "addrAdd"}
      /\ pc = "setMtu" => cmd.name = "mtuSet"
      /\ pc \in {"addRoute", "changeRoute"} => cmd.name = "routeSet"
  BY <1>2 DEF CommandsAt
<1>7. Dst \in Dests
  BY <1>1, CommandTypes DEF Dst, Dests
<1> QED  BY <1>1, <1>4, <1>5, <1>6, <1>7, CommandTypes DEF Dst, Gw

\* A change of the addresses of one interface.
LEMMA SetAddrsTypes ==
    ASSUME TypeOK, NEW i \in Ifs, NEW S \in SUBSET Addrs, SetAddrs(i, S)
    PROVE  /\ addrs' \in [Ifs -> SUBSET Addrs] /\ main' \in [Ifs -> Addrs \cup {None}]
           /\ \A j \in Ifs : IF addrs'[j] = {} THEN main'[j] = None ELSE main'[j] \in addrs'[j]
           /\ addrs'[i] = S
           /\ \A j \in Ifs \ {i} : addrs'[j] = addrs[j] /\ main'[j] = main[j]
BY DEF TypeOK, SetAddrs

\* The size of the routing table.
LEMMA TableSize ==
    Cardinality(Table) \in 0..Cardinality(Dests) /\ Cardinality(Dests) \in Nat
<1>1. IsFiniteSet(Dests)
  BY SetsAssumption, FS_AddElement DEF Dests
<1>2. Table \subseteq Dests
  BY DEF Table
<1>3. IsFiniteSet(Table) /\ Cardinality(Table) <= Cardinality(Dests)
  BY <1>1, <1>2, FS_Subset
<1> QED  BY <1>1, <1>3, FS_CardinalityType

\* What a step of a command does to the kernel's state.
LEMMA KernelTypes ==
    ASSUME TypeOK, CallInv, WorkerStep
    PROVE  /\ up' \in [Ifs -> BOOLEAN] /\ addrs' \in [Ifs -> SUBSET Addrs]
           /\ main' \in [Ifs -> Addrs \cup {None}]
           /\ \A i \in Ifs : IF addrs'[i] = {} THEN main'[i] = None ELSE main'[i] \in addrs'[i]
           /\ mtu' \in [Ifs -> 1..MTU_MAX]
           /\ client' \in [Ifs -> {"off", "on", "SIGTERM", "SIGKILL"}]
           /\ routes' \in [Dests -> Gateways \cup {None}] /\ acts' \in 0..MaxActs
<1>0. KernelFrame
  BY WorkerFrame DEF Frame
<1>1. up' \in [Ifs -> BOOLEAN]
  <2>1. CASE pc = "setFlags"
    <3>1. up' = up \/ \E b \in BOOLEAN : up' = [up EXCEPT ![cmd.if] = b]
      BY <2>1, StepAt DEF SetFlags
    <3> QED  BY <3>1 DEF TypeOK
  <2> QED  BY <1>0, <2>1 DEF TypeOK, KernelFrame
<1>2. /\ addrs' \in [Ifs -> SUBSET Addrs] /\ main' \in [Ifs -> Addrs \cup {None}]
      /\ \A i \in Ifs : IF addrs'[i] = {} THEN main'[i] = None ELSE main'[i] \in addrs'[i]
  <2>1. CASE pc = "removeAddr"
    <3>1. cmd.if \in Ifs /\ RemoveAddr
      BY <2>1, CallTypes, StepAt
    <3>2. addrs[cmd.if] \ {Unwanted} \in SUBSET Addrs
      BY <3>1 DEF TypeOK
    <3>3. CASE SetAddrs(cmd.if, addrs[cmd.if] \ {Unwanted})
      BY <3>1, <3>2, <3>3, SetAddrsTypes
    <3>4. CASE UNCHANGED <<addrs, main>>
      BY <3>4 DEF TypeOK
    <3> QED  BY <3>1, <3>3, <3>4 DEF RemoveAddr
  <2>2. CASE pc = "addAddr"
    <3>1. cmd.if \in Ifs /\ cmd.addr \in Addrs /\ AddAddr
      BY <2>2, CallTypes, StepAt
    <3>2. addrs[cmd.if] \cup {cmd.addr} \in SUBSET Addrs
      BY <3>1 DEF TypeOK
    <3>3. CASE SetAddrs(cmd.if, addrs[cmd.if] \cup {cmd.addr})
      BY <3>1, <3>2, <3>3, SetAddrsTypes
    <3>4. CASE UNCHANGED <<addrs, main>>
      BY <3>4 DEF TypeOK
    <3> QED  BY <3>1, <3>3, <3>4 DEF AddAddr
  <2> QED  BY <1>0, <2>1, <2>2 DEF TypeOK, KernelFrame
<1>3. mtu' \in [Ifs -> 1..MTU_MAX]
  <2>1. CASE pc = "setMtu"
    <3>1. cmd.mtu \in Mtus /\ SetMtu
      BY <2>1, CallTypes, StepAt
    <3>2. mtu' = mtu \/ (ValidMtu(cmd.mtu) /\ mtu' = [mtu EXCEPT ![cmd.if] = cmd.mtu])
      BY <3>1 DEF SetMtu
    <3>3. ValidMtu(cmd.mtu) => cmd.mtu \in 1..MTU_MAX
      BY <3>1 DEF ValidMtu, Mtus, MTU_MAX
    <3> QED  BY <3>2, <3>3 DEF TypeOK
  <2> QED  BY <1>0, <2>1 DEF TypeOK, KernelFrame
<1>4. client' \in [Ifs -> {"off", "on", "SIGTERM", "SIGKILL"}]
  <2>1. CASE pc \in {"look1", "look2"}
    <3>1. client' = client \/ Signal("SIGTERM") \/ Signal("SIGKILL")
      BY <2>1, StepAt DEF Look1, Look2, NoClient
    <3> QED  BY <3>1 DEF TypeOK, Signal
  <2>2. CASE pc = "spawn"
    BY <2>2, StepAt DEF TypeOK, Spawn
  <2> QED  BY <1>0, <2>1, <2>2 DEF TypeOK, KernelFrame
<1>5. routes' \in [Dests -> Gateways \cup {None}]
  <2>1. CASE pc = "delRoute"
    BY <2>1, StepAt DEF TypeOK, DelRoute
  <2>2. CASE pc \in {"addRoute", "changeRoute"}
    <3>1. Gw \in Gateways /\ (AddRoute \/ ChangeRoute)
      BY <2>2, CallTypes, StepAt
    <3> QED  BY <3>1 DEF TypeOK, AddRoute, ChangeRoute
  <2> QED  BY <1>0, <2>1, <2>2 DEF TypeOK, KernelFrame
<1> QED  BY <1>0, <1>1, <1>2, <1>3, <1>4, <1>5 DEF TypeOK, KernelFrame

\* What IF_LIST may say of an interface.
Entries == [addrs : SUBSET Addrs, lease : Addrs \cup {None, Localhost}, primary : Addrs \cup {None}, jail : SUBSET Addrs]

\* What a step of a command does to its own variables.
LEMMA LocalTypes ==
    ASSUME TypeOK, CallInv, WorkerStep
    PROVE  /\ cur' \in Addrs \cup {None, Localhost} /\ seen' \in Gateways \cup {None}
           /\ retry' \in 0..MEDIA_STATUS_MAX_RETRIES /\ size' \in 0..Cardinality(Dests)
           /\ errno' \in Errnos /\ dumps' \in 0..2
           /\ before' \in [Ifs -> SUBSET Addrs] /\ sent' \subseteq {"SIGTERM", "SIGKILL"}
           /\ failed' \in BOOLEAN /\ cmds' \in 0..MaxCmds
           /\ snap' \in [Ifs -> SUBSET Addrs] /\ todo' \subseteq Ifs
           /\ list' \in [Ifs -> Entries]
<1>0. LocalsFrame /\ ListFrame /\ Sticky /\ cmds' = cmds
  BY WorkerFrame DEF Frame
<1>1. cur' \in Addrs \cup {None, Localhost}
  <2>1. CASE pc = "getMain"
    <3>1. cmd.if \in Ifs /\ cur' = main[cmd.if]
      BY <2>1, CallTypes, StepAt DEF GetMain
    <3> QED  BY <3>1 DEF TypeOK
  <2>2. CASE pc = "listClient"
    <3>1. Subject \in Ifs /\ (cur' \in {cur, None} \/ cur' \in LastLease(Subject))
      BY <2>2, CallTypes, StepAt DEF ListClient
    <3> QED  BY <3>1 DEF TypeOK, LastLease
  <2>3. CASE pc = "listMain"
    BY <2>3, StepAt DEF ListMain
  <2> QED  BY <1>0, <2>1, <2>2, <2>3 DEF TypeOK, LocalsFrame
<1>2. seen' \in Gateways \cup {None}
  <2>1. CASE pc \in {"getRoute", "getAgain"}
    <3>1. Dst \in Dests /\ seen' \in {seen, routes[Dst]}
      BY <2>1, CallTypes, StepAt DEF GetRoute
    <3> QED  BY <3>1 DEF TypeOK
  <2> QED  BY <1>0, <2>1 DEF TypeOK, LocalsFrame
<1>3. retry' \in 0..MEDIA_STATUS_MAX_RETRIES
  <2>1. CASE pc = "media"
    <3>1. retry' = retry \/ (retry < MEDIA_STATUS_MAX_RETRIES /\ retry' = retry + 1)
      BY <2>1, StepAt DEF Media
    <3> QED  BY <3>1, BoundsAssumption DEF TypeOK
  <2> QED  BY <1>0, <2>1 DEF TypeOK, LocalsFrame
<1>4. size' \in 0..Cardinality(Dests)
  <2>1. CASE pc \in {"listSize", "listResize"}
    <3>1. size' \in {size, Cardinality(Table)}
      BY <2>1, StepAt DEF ListSize
    <3> QED  BY <3>1, TableSize DEF TypeOK
  <2> QED  BY <1>0, <2>1 DEF TypeOK, LocalsFrame
<1>5. dumps' \in 0..2
  <2>1. CASE pc = "listDump"
    <3>1. dumps' = dumps \/ (dumps # 2 /\ dumps' = dumps + 1)
      BY <2>1, StepAt DEF ListDump
    <3> QED  BY <3>1 DEF TypeOK
  <2> QED  BY <1>0, <2>1 DEF TypeOK, LocalsFrame
<1>6. sent' \subseteq {"SIGTERM", "SIGKILL"}
  <2>1. CASE pc \in {"look1", "look2"}
    <3>1. sent' = sent \/ sent' = sent \cup {"SIGTERM"} \/ sent' = sent \cup {"SIGKILL"}
      BY <2>1, StepAt DEF Look1, Look2, NoClient, Signal
    <3> QED  BY <3>1 DEF TypeOK
  <2> QED  BY <1>0, <2>1 DEF TypeOK, LocalsFrame
<1>7. snap' \in [Ifs -> SUBSET Addrs] /\ todo' \subseteq Ifs
  <2>1. CASE pc = "getIfAddrs"
    BY <2>1, StepAt DEF GetIfAddrs, Snapshot, TypeOK
  <2>2. CASE pc = "listClient"
    <3>1. snap' = snap /\ (todo' = todo \/ todo' = todo \ {Subject})
      BY <1>0, <2>2, StepAt DEF ListClient, NextIf, ListFrame
    <3> QED  BY <3>1 DEF TypeOK
  <2>3. CASE pc = "listMain"
    <3>1. snap' = [snap EXCEPT ![Subject] = {}] /\ todo' = todo \ {Subject}
      BY <2>3, StepAt DEF ListMain, NextIf
    <3> QED  BY <3>1 DEF TypeOK
  <2> QED  BY <1>0, <2>1, <2>2, <2>3 DEF TypeOK, ListFrame
<1>8. list' \in [Ifs -> Entries]
  <2>1. list \in [Ifs -> Entries]
    BY DEF TypeOK, Entries
  <2>2. CASE pc = "listMain"
    <3>1. Subject \in Ifs /\ ListMain
      BY <2>2, CallTypes, StepAt
    <3>2. PICK J \in JailAddrs(snap[Subject]), def_addr \in {main[Subject], None} :
             \E p \in PrimaryAddrs(snap[Subject] \ J, cur, def_addr) :
                list' = [list EXCEPT ![Subject] =
                           [addrs |-> snap[Subject], lease |-> cur, primary |-> p, jail |-> J]]
      BY <3>1 DEF ListMain
    <3>3. PICK p \in PrimaryAddrs(snap[Subject] \ J, cur, def_addr) :
             list' = [list EXCEPT ![Subject] =
                           [addrs |-> snap[Subject], lease |-> cur, primary |-> p, jail |-> J]]
      BY <3>2
    <3>4. snap[Subject] \in SUBSET Addrs /\ cur \in Addrs \cup {None, Localhost} /\ J \in SUBSET Addrs
      BY <3>1 DEF TypeOK, JailAddrs
    <3>5. p \in Addrs \cup {None}
      BY <3>3, <3>4 DEF PrimaryAddrs
    <3>6. [addrs |-> snap[Subject], lease |-> cur, primary |-> p, jail |-> J] \in Entries
      BY <3>4, <3>5 DEF Entries
    <3> QED  BY <2>1, <3>3, <3>6
  <2> QED  BY <1>0, <2>1, <2>2 DEF ListFrame
<1>9. /\ errno' \in Errnos /\ failed' \in BOOLEAN /\ cmds' \in 0..MaxCmds
      /\ before' \in [Ifs -> SUBSET Addrs]
  BY <1>0 DEF TypeOK, LocalsFrame, Sticky, Errnos
<1> QED  BY <1>1, <1>2, <1>3, <1>4, <1>5, <1>6, <1>7, <1>8, <1>9

\* What clients and other tools do: they give no address up, start no client
\* and raise no interface.  Only a client on an interface that is up makes that
\* interface the one of the default route, and only a counted act changes the
\* main address of one.
LEMMA OthersEffect ==
    ASSUME TypeOK, Others
    PROVE  /\ UNCHANGED <<worker, up, mtu>>
           /\ addrs' \in [Ifs -> SUBSET Addrs] /\ main' \in [Ifs -> Addrs \cup {None}]
           /\ \A i \in Ifs : IF addrs'[i] = {} THEN main'[i] = None ELSE main'[i] \in addrs'[i]
           /\ \A i \in Ifs : addrs[i] \subseteq addrs'[i]
           /\ client' \in [Ifs -> {"off", "on", "SIGTERM", "SIGKILL"}]
           /\ \A i \in Ifs : client'[i] \in {client[i], "off"}
           /\ routes' \in [Dests -> Gateways \cup {None}]
           /\ routes'[Default] \in {routes[Default], None} \/ up[Via[routes'[Default]]]
           /\ acts' \in 0..MaxActs /\ (acts' # 0 \/ (main' = main /\ acts' = acts))
<1>0. UNCHANGED worker /\ acts \in 0..MaxActs /\ MaxActs \in Nat /\ Default \in Dests
  BY BoundsAssumption DEF TypeOK, Others, Dests
<1>1. CASE acts < MaxActs /\ acts' = acts + 1 /\ \E i \in Ifs : Bind(i)
  <2>1. PICK i \in Ifs : Bind(i)
    BY <1>1
  <2>2. PICK a \in Addrs : SetAddrs(i, addrs[i] \cup {a})
    BY <2>1 DEF Bind
  <2>3. addrs[i] \cup {a} \in SUBSET Addrs
    BY DEF TypeOK
  <2>4. /\ addrs' \in [Ifs -> SUBSET Addrs] /\ main' \in [Ifs -> Addrs \cup {None}]
        /\ \A j \in Ifs : IF addrs'[j] = {} THEN main'[j] = None ELSE main'[j] \in addrs'[j]
        /\ addrs'[i] = addrs[i] \cup {a}
        /\ \A j \in Ifs \ {i} : addrs'[j] = addrs[j]
    BY <2>2, <2>3, SetAddrsTypes
  <2>5. \A j \in Ifs : addrs[j] \subseteq addrs'[j]
    BY <2>4
  <2>6. UNCHANGED <<up, mtu, client>> /\ up[i]
    BY <2>1 DEF Bind
  <2>7. /\ routes' \in [Dests -> Gateways \cup {None}]
        /\ routes'[Default] \in {routes[Default], None} \/ up[Via[routes'[Default]]]
    <3>1. CASE routes' = routes
      BY <3>1 DEF TypeOK
    <3>2. CASE \E g \in {h \in Gateways : Via[h] = i} : routes' = [routes EXCEPT ![Default] = g]
      <4>1. PICK g \in {h \in Gateways : Via[h] = i} : routes' = [routes EXCEPT ![Default] = g]
        BY <3>2
      <4>2. routes' \in [Dests -> Gateways \cup {None}] /\ routes'[Default] = g
        BY <1>0, <4>1 DEF TypeOK
      <4> QED  BY <2>6, <4>1, <4>2
    <3> QED  BY <2>1, <3>1, <3>2 DEF Bind
  <2>8. acts' \in 0..MaxActs /\ acts' # 0
    BY <1>0, <1>1
  <2>9. \A j \in Ifs : client'[j] \in {client[j], "off"}
    BY <2>6
  <2>10. client' \in [Ifs -> {"off", "on", "SIGTERM", "SIGKILL"}]
    BY <2>6 DEF TypeOK
  <2> QED  BY <1>0, <2>4, <2>5, <2>6, <2>7, <2>8, <2>9, <2>10
<1>2. CASE acts < MaxActs /\ acts' = acts + 1 /\ \E d \in Dests : RouteGone(d)
  <2>1. PICK d \in Dests : RouteGone(d)
    BY <1>2
  <2>2. UNCHANGED <<up, addrs, main, mtu, client>> /\ routes' = [routes EXCEPT ![d] = None]
    BY <2>1 DEF RouteGone
  <2>3. /\ routes' \in [Dests -> Gateways \cup {None}]
        /\ routes'[Default] \in {routes[Default], None}
    BY <1>0, <2>2 DEF TypeOK
  <2>4. acts' \in 0..MaxActs /\ acts' # 0
    BY <1>0, <1>2
  <2> QED  BY <1>0, <2>2, <2>3, <2>4 DEF TypeOK
<1>3. CASE UNCHANGED acts /\ \E i \in Ifs : Exit(i)
  <2>1. PICK i \in Ifs : Exit(i)
    BY <1>3
  <2>2. /\ UNCHANGED <<up, addrs, main, mtu, routes>>
        /\ client' = [client EXCEPT ![i] = "off"]
    BY <2>1 DEF Exit
  <2>3. /\ client' \in [Ifs -> {"off", "on", "SIGTERM", "SIGKILL"}]
        /\ \A j \in Ifs : client'[j] \in {client[j], "off"}
    BY <2>2 DEF TypeOK
  <2> QED  BY <1>0, <1>3, <2>2, <2>3 DEF TypeOK
<1> QED  BY <1>1, <1>2, <1>3 DEF Others

\* The first call of a command is one that it makes.
LEMMA FirstCallAt ==
    ASSUME NEW c \in Commands
    PROVE  /\ FirstCall(c.name) \in Calls \ {"idle"} /\ c.name \in CommandsAt(FirstCall(c.name))
           /\ FirstCall(c.name) \notin {"listClient", "listMain", "getAgain", "listResize", "listErrno",
                                        "listDump", "look3", "setFlags"}
           /\ c.name = "disable" => FirstCall(c.name) = "getFlags"
           /\ c.name \in {"addrSet", "dhcpEnable"} => FirstCall(c.name) = "getMain"
<1>1. c.name \in {"enable", "disable", "addrGet", "mtuGet", "dhcpEnable", "dhcpDisable", "dhcpStatus",
                  "addrSet", "addrAdd", "addrRemove", "mtuSet", "routeSet", "routeDel", "routeGet",
                  "defDel", "list", "ifList", "jailList"}
  BY DEF Commands, Command
<1> DEFINE p == FirstCall(c.name)
<1>2. /\ p \in {"getFlags", "getMain", "addAddr", "removeAddr", "query", "setMtu", "look1", "addRoute",
                "delRoute", "getRoute", "listSize", "getIfAddrs", "getJails"}
      /\ p = "getFlags" => c.name \in {"enable", "disable"}
      /\ p = "getMain" => c.name \in {"addrSet", "dhcpEnable"}
      /\ p = "addAddr" => c.name = "addrAdd"
      /\ p = "removeAddr" => c.name = "addrRemove"
      /\ p = "query" => c.name \in {"addrGet", "mtuGet", "dhcpStatus"}
      /\ p = "setMtu" => c.name = "mtuSet"
      /\ p = "look1" => c.name = "dhcpDisable"
      /\ p = "addRoute" => c.name = "routeSet"
      /\ p = "delRoute" => c.name = "routeDel"
      /\ p = "getRoute" => c.name \in {"routeGet", "defDel"}
      /\ p = "listSize" => c.name = "list"
      /\ p = "getIfAddrs" => c.name = "ifList"
      /\ p = "getJails" => c.name = "jailList"
  BY <1>1 DEF FirstCall
<1>3. c.name = "disable" => p = "getFlags"
  BY DEF FirstCall
<1>4. c.name \in {"addrSet", "dhcpEnable"} => p = "getMain"
  BY DEF FirstCall
<1> HIDE DEF p
<1>5. c.name \in CommandsAt(p)
  BY <1>2 DEF CommandsAt
<1>6. p \in Calls \ {"idle"}
  BY <1>2 DEF Calls
<1>7. p \notin {"listClient", "listMain", "getAgain", "listResize", "listErrno", "listDump", "look3", "setFlags"}
  BY <1>2
<1> QED  BY <1>3, <1>4, <1>5, <1>6, <1>7 DEF p

\* An interface that is not listed.
LEMMA UnlistedType == [i \in Ifs |-> Unlisted] \in [Ifs -> Entries]
<1>1. Unlisted \in Entries
  BY DEF Unlisted, Entries
<1> QED  BY <1>1

\* Commands and others keep the types.
LEMMA TypeNext ==
    ASSUME TypeOK, CallInv, [Next]_vars PROVE TypeOK'
<1>1. CASE WorkerStep
  <2>1. pc' \in Calls /\ result' \in Results
    BY <1>1, CallNext
  <2>2. cmd' = cmd
    BY <1>1 DEF WorkerStep
  <2>3. cmd' \in Commands \cup {NoCommand}
    BY <2>2 DEF TypeOK
  <2> QED  BY <1>1, <2>1, <2>3, KernelTypes, LocalTypes DEF TypeOK, Entries
<1>2. CASE Others
  <2>1. UNCHANGED worker
    BY <1>2 DEF Others
  <2> QED  BY <1>2, <2>1, OthersEffect DEF TypeOK
<1>3. ASSUME NEW c \in Commands, Begin(c) PROVE TypeOK'
  <2>1. UNCHANGED kernel /\ cmds < MaxCmds /\ cmds' = cmds + 1 /\ cmd' = c /\ pc' = FirstCall(c.name)
    BY <1>3 DEF Begin
  <2>2. pc' \in Calls
    BY <2>1, FirstCallAt
  <2>3. cmds' \in 0..MaxCmds
    BY <2>1, BoundsAssumption DEF TypeOK
  <2>4. list' \in [Ifs -> Entries]
    BY <1>3, UnlistedType DEF Begin
  <2>5. size' \in 0..Cardinality(Dests) /\ retry' \in 0..MEDIA_STATUS_MAX_RETRIES /\ dumps' \in 0..2
    BY <1>3, BoundsAssumption, TableSize DEF Begin
  <2>6. /\ before' \in [Ifs -> SUBSET Addrs] /\ snap' \in [Ifs -> SUBSET Addrs] /\ todo' \subseteq Ifs
        /\ sent' \subseteq {"SIGTERM", "SIGKILL"} /\ failed' \in BOOLEAN
        /\ cur' = None /\ seen' = None /\ errno' \in Errnos /\ result' \in Results
    BY <1>3 DEF Begin, TypeOK, Errnos, Results
  <2> QED  BY <2>1, <2>2, <2>3, <2>4, <2>5, <2>6 DEF TypeOK, Entries
<1>4. CASE Reject
  <2>1. cmds' \in 0..MaxCmds
    BY <1>4, BoundsAssumption DEF TypeOK, Reject
  <2> QED  BY <1>4, <2>1 DEF TypeOK, Reject, Return, Calls, Results
<1>5. CASE UNCHANGED vars
  BY <1>5 DEF TypeOK, vars, Table
<1> QED  BY <1>1, <1>2, <1>3, <1>4, <1>5 DEF Next, Done

-----------------------------------------------------------------------------
(* The parts of the invariant.                                             *)

\* A call belongs to its command.
LEMMA CallInvNext ==
    ASSUME TypeOK, CallInv, [Next]_vars PROVE CallInv'
<1>1. CASE WorkerStep
  BY <1>1, CallNext
<1>2. ASSUME NEW c \in Commands, Begin(c) PROVE CallInv'
  <2>1. cmd' = c /\ pc' = FirstCall(c.name) /\ result' = "none"
    BY <1>2 DEF Begin
  <2>2. c.name \in CommandsAt(FirstCall(c.name)) /\ FirstCall(c.name) \notin {"listClient", "listMain"}
    BY FirstCallAt
  <2> QED  BY <2>1, <2>2 DEF CallInv
<1>3. CASE Reject
  BY <1>3 DEF Reject, Return, CallInv
<1>4. CASE Others \/ UNCHANGED vars
  <2>1. UNCHANGED worker
    BY <1>4 DEF Others, vars
  <2> QED  BY <2>1 DEF CallInv, CommandsAt
<1> QED  BY <1>1, <1>2, <1>3, <1>4 DEF Next, Done

\* IF_DISABLE: the flag is down before the route is looked at, and nobody but
\* IF_ENABLE raises it.
LEMMA DownNext ==
    ASSUME TypeOK, CallInv, DownInv, [Next]_vars PROVE DownInv'
<1>1. CASE WorkerStep
  <2>1. SUFFICES ASSUME cmd.name = "disable" PROVE DownInv'
    BY <1>1 DEF WorkerStep, DownInv
  <2>2. cmd' = cmd /\ KernelFrame /\ cmd.if \in Ifs
    BY <1>1, <2>1, WorkerFrame, CommandTypes DEF Frame, TypeOK, OnIf
  <2>3. pc \in {"getFlags", "setFlags", "getRoute", "getAgain", "delRoute"}
    BY <1>1, <2>1, StepAt, CallsOf
  <2> USE DEF Goto, Return, DownInv, Answered
  <2>4. CASE pc = "getFlags"
    BY <1>1, <2>4, StepAt DEF GetFlags
  <2>5. CASE pc = "setFlags"
    <3>1. SetFlags
      BY <1>1, <2>5, StepAt
    <3>2. up' = [up EXCEPT ![cmd.if] = (cmd.name = "enable")] => up'[cmd.if] = FALSE
      BY <2>1, <2>2 DEF TypeOK
    <3> QED  BY <2>1, <2>2, <3>1, <3>2 DEF SetFlags
  <2>6. CASE pc = "getRoute"
    <3>1. GetRoute /\ Dst = Default /\ routes' = routes /\ up' = up /\ ~up[cmd.if]
      BY <1>1, <2>1, <2>2, <2>6, StepAt DEF Dst, KernelFrame
    <3> QED  BY <2>1, <2>2, <2>6, <3>1 DEF GetRoute, NoRouteFound, RouteFound, DefaultRouteIf, Refused
  <2>7. CASE pc = "getAgain"
    <3>1. GetRoute /\ up' = up /\ ~up[cmd.if]
      BY <1>1, <2>1, <2>2, <2>7, StepAt DEF KernelFrame
    <3> QED  BY <2>1, <2>2, <2>7, <3>1 DEF GetRoute, NoRouteFound, RouteFound
  <2>8. CASE pc = "delRoute"
    <3>1. DelRoute /\ Dst = Default /\ up' = up /\ ~up[cmd.if]
      BY <1>1, <2>1, <2>2, <2>8, StepAt DEF Dst, KernelFrame
    <3>2. routes' = [routes EXCEPT ![Default] = None] => routes'[Default] = None
      BY DEF TypeOK, Dests
    <3> QED  BY <2>2, <3>1, <3>2 DEF DelRoute
  <2> QED  BY <2>3, <2>4, <2>5, <2>6, <2>7, <2>8
<1>2. ASSUME NEW c \in Commands, Begin(c) PROVE DownInv'
  <2>1. cmd' = c /\ pc' = FirstCall(c.name)
    BY <1>2 DEF Begin
  <2>2. c.name = "disable" => pc' = "getFlags"
    BY <2>1, FirstCallAt
  <2> QED  BY <2>1, <2>2 DEF DownInv, Answered
<1>3. CASE Reject
  BY <1>3 DEF Reject, NoCommand, Command, DownInv
<1>4. CASE Others
  <2>1. /\ UNCHANGED <<worker, up>>
        /\ routes'[Default] \in {routes[Default], None} \/ up[Via[routes'[Default]]]
    BY <1>4, OthersEffect
  <2> QED  BY <2>1 DEF DownInv, Answered
<1>5. CASE UNCHANGED vars
  BY <1>5 DEF vars, DownInv, Answered
<1> QED  BY <1>1, <1>2, <1>3, <1>4, <1>5 DEF Next, Done

\* Every client whose title contains the name is found, that of the interface
\* among them.
LEMMA OwnClientFound ==
    ASSUME TypeOK, cmd.if \in Ifs, Clients(cmd.if) = {} PROVE client[cmd.if] = "off"
BY WithinAssumption DEF Clients, TypeOK

\* The client is looked for again after each signal, and the last one is SIGKILL.
LEMMA StopNext ==
    ASSUME TypeOK, CallInv, StopInv, ClientStopped, [Next]_vars
    PROVE  StopInv' /\ ClientStopped'
<1> USE DEF StopInv, ClientStopped, DisabledMeansStopped, EscalatesToKill, Answered, Gone
<1>1. CASE WorkerStep
  <2>1. cmd' = cmd /\ KernelFrame /\ LocalsFrame /\ (failed => failed') /\ CallInv'
    BY <1>1, WorkerFrame, StillFailed, CallNext DEF Frame
  <2>2. pc' = "look3" => cmd.name = "dhcpDisable"
    BY <2>1 DEF CallInv, CommandsAt
  <2>3. SUFFICES ASSUME cmd.name \in {"addrSet", "dhcpDisable"}, ~failed'
                 PROVE  StopInv' /\ ClientStopped'
    BY <2>1, <2>2
  <2>4. cmd.if \in Ifs /\ ~failed
    BY <2>1, <2>3, CommandTypes DEF TypeOK, OnIf, IfCommands
  <2>5. Subject = cmd.if /\ (FindsNoClient => client[cmd.if] = "off")
    BY <2>3, <2>4, OwnClientFound DEF Subject, FindsNoClient, Refused
  <2>6. Signal("SIGKILL") => "SIGKILL" \in sent'
    BY <2>3 DEF Signal, Refused
  <2> USE DEF Goto, Return
  <2>7. CASE cmd.name = "dhcpDisable"
    <3>1. pc \in {"look1", "look2", "look3"}
      BY <1>1, <2>7, StepAt, CallsOf
    <3>2. CASE pc = "look1"
      BY <1>1, <2>1, <2>3, <2>4, <2>5, <2>7, <3>2, StepAt DEF Look1, NoClient
    <3>3. CASE pc = "look2"
      BY <1>1, <2>1, <2>3, <2>4, <2>5, <2>6, <2>7, <3>3, StepAt DEF Look2, NoClient
    <3>4. CASE pc = "look3"
      BY <1>1, <2>1, <2>3, <2>4, <2>5, <2>7, <3>4, StepAt DEF Look3, KernelFrame, LocalsFrame
    <3> QED  BY <3>1, <3>2, <3>3, <3>4
  <2>8. CASE cmd.name = "addrSet"
    <3>1. pc \in {"getMain", "removeAddr", "addAddr", "look1", "look2"}
      BY <1>1, <2>8, StepAt, CallsOf
    <3>2. CASE pc = "getMain"
      BY <1>1, <2>1, <2>8, <3>2, StepAt DEF GetMain
    <3>3. CASE pc = "look1"
      BY <1>1, <2>1, <2>3, <2>4, <2>5, <2>8, <3>3, StepAt DEF Look1, NoClient
    <3>4. CASE pc = "look2"
      BY <1>1, <2>1, <2>3, <2>4, <2>5, <2>6, <2>8, <3>4, StepAt DEF Look2, NoClient
    <3>5. CASE pc = "removeAddr"
      BY <1>1, <2>1, <2>4, <2>8, <3>5, StepAt DEF RemoveAddr, KernelFrame, LocalsFrame
    <3>6. CASE pc = "addAddr"
      BY <1>1, <2>1, <2>4, <2>8, <3>6, StepAt DEF AddAddr, KernelFrame, LocalsFrame
    <3> QED  BY <3>1, <3>2, <3>3, <3>4, <3>5, <3>6
  <2> QED  BY <2>3, <2>7, <2>8
<1>2. ASSUME NEW c \in Commands, Begin(c) PROVE StopInv' /\ ClientStopped'
  <2>1. cmd' = c /\ pc' = FirstCall(c.name) /\ cur' = None
    BY <1>2 DEF Begin
  <2>2. pc' \notin {"idle", "look3"}
    BY <2>1, FirstCallAt
  <2> QED  BY <2>1, <2>2
<1>3. CASE Reject
  BY <1>3 DEF Reject, Return, NoCommand, Command
<1>4. CASE Others
  <2>1. UNCHANGED worker /\ \A i \in Ifs : client'[i] \in {client[i], "off"}
    BY <1>4, OthersEffect
  <2>2. cmd.name \in {"addrSet", "dhcpDisable"} => client'[cmd.if] \in {client[cmd.if], "off"}
    BY <2>1, CommandTypes DEF TypeOK, OnIf, IfCommands
  <2> QED  BY <2>1, <2>2
<1>5. CASE UNCHANGED vars
  BY <1>5 DEF vars
<1> QED  BY <1>1, <1>2, <1>3, <1>4, <1>5 DEF Next, Done

\* No command but one that loses addresses reads cur, and none reads the main
\* address twice.
LEMMA LossNext ==
    ASSUME TypeOK, CallInv, LossInv, LosesOnlyMain, [Next]_vars
    PROVE  LossInv' /\ LosesOnlyMain'
<1>1. CASE WorkerStep
  <2>1. cmd' = cmd /\ before' = before /\ KernelFrame /\ LocalsFrame
    BY <1>1, WorkerFrame DEF Frame, LocalsFrame
  <2>2. pc' # "getMain"
    BY <1>1, CallNext
  <2>3. pc # "idle" /\ cmd.name \in CommandsAt(pc)
    BY <1>1, StepAt DEF CallInv
  <2>4. CASE pc = "removeAddr"
    <3>1. cmd.name \in Loses /\ cmd.if \in Ifs /\ cur' = cur /\ RemoveAddr
      BY <1>1, <2>1, <2>3, <2>4, CallTypes, StepAt DEF CommandsAt, Loses, LocalsFrame
    <3>2. LossInv'
      BY <2>1, <2>2, <3>1 DEF LossInv
    <3>3. addrs' = addrs \/ addrs' = [addrs EXCEPT ![cmd.if] = addrs[cmd.if] \ {Unwanted}]
      BY <3>1 DEF RemoveAddr, SetAddrs
    <3>4. LosesOnlyMain'
      BY <2>1, <3>1, <3>3 DEF LosesOnlyMain, Unwanted, TypeOK
    <3> QED  BY <3>2, <3>4
  <2>5. CASE pc = "addAddr"
    <3>1. cmd.if \in Ifs /\ cur' = cur /\ AddAddr
      BY <1>1, <2>1, <2>5, CallTypes, StepAt DEF LocalsFrame
    <3>2. addrs' = addrs \/ addrs' = [addrs EXCEPT ![cmd.if] = addrs[cmd.if] \cup {cmd.addr}]
      BY <3>1 DEF AddAddr, SetAddrs
    <3>3. \A i \in Ifs : addrs[i] \subseteq addrs'[i]
      BY <3>1, <3>2 DEF TypeOK
    <3> QED  BY <2>1, <2>2, <3>1, <3>3 DEF LossInv, LosesOnlyMain
  <2>6. CASE pc \in {"getMain", "listClient", "listMain"}
    <3>1. addrs' = addrs /\ (cmd.name \notin Loses \/ pc = "getMain")
      BY <2>1, <2>3, <2>6 DEF CommandsAt, Loses, KernelFrame
    <3> QED  BY <2>1, <3>1 DEF LossInv, LosesOnlyMain
  <2>7. CASE pc \notin {"removeAddr", "addAddr", "getMain", "listClient", "listMain"}
    <3>1. addrs' = addrs /\ cur' = cur
      BY <2>1, <2>7 DEF KernelFrame, LocalsFrame
    <3> QED  BY <2>1, <2>2, <3>1 DEF LossInv, LosesOnlyMain
  <2> QED  BY <2>4, <2>5, <2>6, <2>7
<1>2. CASE Reject \/ \E c \in Commands : Begin(c)
  <2>1. before' = addrs' /\ before' \in [Ifs -> SUBSET Addrs]
    BY <1>2 DEF Reject, Begin, TypeOK
  <2> QED  BY <2>1 DEF LossInv, LosesOnlyMain
<1>3. CASE Others
  <2>1. UNCHANGED worker /\ \A i \in Ifs : addrs[i] \subseteq addrs'[i]
    BY <1>3, OthersEffect
  <2> QED  BY <2>1 DEF LossInv, LosesOnlyMain
<1>4. CASE UNCHANGED vars
  BY <1>4 DEF vars, LossInv, LosesOnlyMain
<1> QED  BY <1>1, <1>2, <1>3, <1>4 DEF Next, Done

\* RT_LIST succeeds with errno "0" only, and another dump comes after ENOMEM.
LEMMA DumpNext ==
    ASSUME TypeOK, CallInv, DumpInv, ListIsSnapshot, [Next]_vars
    PROVE  DumpInv' /\ ListIsSnapshot'
<1> USE DEF DumpInv, ListIsSnapshot, Answered
<1>1. CASE WorkerStep
  <2>1. cmd' = cmd /\ LocalsFrame /\ CallInv'
    BY <1>1, WorkerFrame, CallNext DEF Frame
  <2>2. pc' \in {"listSize", "listResize", "listDump", "listErrno"} => cmd.name = "list"
    BY <2>1 DEF CallInv, CommandsAt
  <2>3. SUFFICES ASSUME cmd.name = "list" PROVE DumpInv' /\ ListIsSnapshot'
    BY <2>1, <2>2
  <2>4. pc \in {"listSize", "listResize", "listDump", "listErrno"} /\ dumps \in 0..2
    BY <1>1, <2>3, StepAt, CallsOf DEF TypeOK
  <2> USE DEF Goto, Return, Accepted, Refused, LocalsFrame
  <2>5. CASE pc \in {"listSize", "listResize"}
    BY <1>1, <2>1, <2>5, StepAt DEF ListSize
  <2>6. CASE pc = "listDump"
    <3>1. ListDump
      BY <1>1, <2>6, StepAt
    <3>2. pc' = "listErrno" \/ (pc' = "idle" /\ result' = "ERR")
      BY <3>1 DEF ListDump
    <3>3. errno' = "0" => errno = "0" /\ dumps' \in {dumps, dumps + 1}
      BY <3>1 DEF ListDump
    <3>4. errno = "0" => dumps = 0
      BY <2>6
    <3> QED  BY <3>2, <3>3, <3>4
  <2>7. CASE pc = "listErrno"
    BY <1>1, <2>1, <2>4, <2>7, StepAt DEF ListErrno
  <2> QED  BY <2>4, <2>5, <2>6, <2>7
<1>2. ASSUME NEW c \in Commands, Begin(c) PROVE DumpInv' /\ ListIsSnapshot'
  <2>1. pc' = FirstCall(c.name) /\ dumps' = 0
    BY <1>2 DEF Begin
  <2>2. pc' # "idle"
    BY <2>1, FirstCallAt
  <2> QED  BY <2>1, <2>2
<1>3. CASE Reject
  BY <1>3 DEF Reject, Return, NoCommand, Command
<1>4. CASE Others \/ UNCHANGED vars
  <2>1. UNCHANGED worker
    BY <1>4 DEF Others, vars
  <2> QED  BY <2>1
<1> QED  BY <1>1, <1>2, <1>3, <1>4 DEF Next, Done

\* Nothing is said of an interface that is not listed.
LEMMA ListedNone ==
    ASSUME NEW i \in Ifs, list[i] = Unlisted PROVE Listed(i)
BY DEF Listed, Unlisted

\* The round of IF_LIST that lists an interface.
LEMMA ListMainListed ==
    ASSUME TypeOK, CallInv, ListMain, Subject \in Ifs,
           acts' = acts, main' = main, failed => failed',
           \A i \in Ifs : Listed(i)
    PROVE  \A i \in Ifs : Listed(i)'
<1>0. PICK k \in Ifs : k = Subject
  OBVIOUS
<1> DEFINE Entry(p, J) == [addrs |-> snap[k], lease |-> cur, primary |-> p, jail |-> J]
<1>1. PICK J \in JailAddrs(snap[k]), def_addr \in {main[k], None} :
         /\ IF def_addr = main[k] THEN Negative ELSE Refused
         /\ \E p \in PrimaryAddrs(snap[k] \ J, cur, def_addr) :
               list' = [list EXCEPT ![k] = Entry(p, J)]
  BY <1>0 DEF ListMain
<1>2. PICK p \in PrimaryAddrs(snap[k] \ J, cur, def_addr) : list' = [list EXCEPT ![k] = Entry(p, J)]
  BY <1>1
<1>3. list'[k] = Entry(p, J) /\ \A i \in Ifs \ {k} : list'[i] = list[i]
  BY <1>2 DEF TypeOK
<1>4. snap[k] \subseteq Addrs
  BY DEF TypeOK
<1> DEFINE own == snap[k] \ J
<1>5. IF own = {} THEN p = None ELSE p \in own
  BY <1>2 DEF PrimaryAddrs
<1>6. cur \in own => p = cur
  BY <1>2, <1>4, NoneAssumption DEF PrimaryAddrs
<1>7. ~failed' => def_addr = main[k]
  BY <1>1 DEF Refused
<1>8. def_addr = main[k] /\ cur = None /\ main[k] \in own => p = main[k]
  BY <1>2 DEF PrimaryAddrs
<1>9. Listed(k)'
  BY <1>3, <1>5, <1>6, <1>7, <1>8 DEF Listed
<1>10. ASSUME NEW i \in Ifs \ {k} PROVE Listed(i)'
  <2>1. list'[i] = list[i] /\ Listed(i)
    BY <1>3
  <2> QED  BY <2>1 DEF Listed
<1> QED  BY <1>9, <1>10

\* What IF_LIST has said of an interface stays true of its snapshot.
LEMMA ListNext ==
    ASSUME TypeOK, CallInv, ListInv, [Next]_vars PROVE ListInv'
<1>0. ASSUME list' = list, failed => failed', acts' # 0 \/ (main' = main /\ acts' = acts)
      PROVE  \A i \in Ifs : Listed(i)'
  <2>1. \A i \in Ifs : Listed(i)
    BY DEF ListInv
  <2> QED  BY <1>0, <2>1 DEF Listed
<1>1. CASE WorkerStep
  <2>1. /\ cmd' = cmd /\ acts' = acts /\ (failed => failed') /\ pc # "idle" /\ cmd.name \in CommandsAt(pc)
        /\ KernelFrame /\ ListFrame
    BY <1>1, WorkerFrame, StillFailed, StepAt DEF Frame, KernelFrame, CallInv
  <2>2. CASE pc = "listMain"
    <3>1. ListMain /\ Subject \in Ifs /\ main' = main /\ cmd.name = "ifList"
      BY <1>1, <2>1, <2>2, StepAt, CallTypes DEF KernelFrame, CommandsAt
    <3>2. \A i \in Ifs : Listed(i)'
      BY <2>1, <3>1, ListMainListed DEF ListInv
    <3> QED  BY <2>1, <3>1, <3>2 DEF ListInv
  <2>3. CASE pc \in {"removeAddr", "addAddr"}
    <3>1. list' = [i \in Ifs |-> Unlisted]
      BY <2>1, <2>3 DEF ListInv, ListFrame, CommandsAt
    <3>2. \A i \in Ifs : Listed(i)'
      BY <3>1 DEF Listed, Unlisted
    <3> QED  BY <3>1, <3>2 DEF ListInv
  <2>4. CASE pc \notin {"listMain", "removeAddr", "addAddr"}
    <3>1. list' = list /\ main' = main
      BY <2>1, <2>4 DEF ListFrame, KernelFrame
    <3>2. \A i \in Ifs : Listed(i)'
      BY <1>0, <2>1, <3>1
    <3> QED  BY <2>1, <3>1, <3>2 DEF ListInv
  <2> QED  BY <2>2, <2>3, <2>4
<1>2. ASSUME NEW c \in Commands, Begin(c) PROVE ListInv'
  <2>1. list' = [i \in Ifs |-> Unlisted]
    BY <1>2 DEF Begin
  <2>2. \A i \in Ifs : Listed(i)'
    BY <2>1 DEF Listed, Unlisted
  <2> QED  BY <2>1, <2>2 DEF ListInv
<1>3. CASE Reject
  <2>1. pc' = "idle" /\ UNCHANGED <<list, failed, acts, main>>
    BY <1>3 DEF Reject, Return
  <2>2. \A i \in Ifs : Listed(i)'
    BY <1>0, <2>1
  <2> QED  BY <2>1, <2>2 DEF ListInv
<1>4. CASE Others
  <2>1. UNCHANGED worker /\ (acts' # 0 \/ (main' = main /\ acts' = acts))
    BY <1>4, OthersEffect
  <2>2. \A i \in Ifs : Listed(i)'
    BY <1>0, <2>1
  <2> QED  BY <2>1, <2>2 DEF ListInv
<1>5. CASE UNCHANGED vars
  <2>1. UNCHANGED <<list, failed, acts, main, pc, cmd>>
    BY <1>5 DEF vars
  <2>2. \A i \in Ifs : Listed(i)'
    BY <1>0, <2>1
  <2> QED  BY <2>1, <2>2 DEF ListInv
<1> QED  BY <1>1, <1>2, <1>3, <1>4, <1>5 DEF Next, Done

\* The invariant holds at first, with any interfaces, clients and routes.
LEMMA InitIInv == Init => IInv
<1> SUFFICES ASSUME Init PROVE IInv
  OBVIOUS
<1>1. TypeOK
  <2>1. list \in [Ifs -> Entries]
    BY UnlistedType DEF Init
  <2>2. size \in 0..Cardinality(Dests) /\ retry \in 0..MEDIA_STATUS_MAX_RETRIES /\ dumps \in 0..2
        /\ acts \in 0..MaxActs /\ cmds \in 0..MaxCmds
    BY BoundsAssumption, TableSize DEF Init
  <2>3. mtu \in [Ifs -> 1..MTU_MAX]
    BY DEF Init, MTU_MAX
  <2>4. /\ up \in [Ifs -> BOOLEAN] /\ addrs \in [Ifs -> SUBSET Addrs] /\ main \in [Ifs -> Addrs \cup {None}]
        /\ \A i \in Ifs : IF addrs[i] = {} THEN main[i] = None ELSE main[i] \in addrs[i]
        /\ client \in [Ifs -> {"off", "on", "SIGTERM", "SIGKILL"}]
        /\ routes \in [Dests -> Gateways \cup {None}]
    BY DEF Init
  <2> QED  BY <2>1, <2>2, <2>3, <2>4 DEF Init, TypeOK, Entries, Calls, Errnos, Results
<1>2. CallInv /\ DownInv /\ StopInv /\ ClientStopped /\ DumpInv /\ ListIsSnapshot
  BY DEF Init, CallInv, DownInv, StopInv, ClientStopped, DisabledMeansStopped, EscalatesToKill, DumpInv,
     ListIsSnapshot, Answered, NoCommand, Command
<1>3. LossInv /\ LosesOnlyMain
  BY DEF Init, LossInv, LosesOnlyMain
<1>4. ListInv
  <2>1. \A i \in Ifs : list[i] = Unlisted
    BY DEF Init
  <2>2. \A i \in Ifs : Listed(i)
    BY <2>1, ListedNone
  <2> QED  BY <2>2 DEF Init, ListInv
<1> QED  BY <1>1, <1>2, <1>3, <1>4 DEF IInv

\* The inductive invariant holds: whatever commands come in whatever order, and
\* whatever clients and tools do between any two calls of one.
THEOREM Invariance == Spec => []IInv
<1>1. IInv /\ [Next]_vars => IInv'
  BY TypeNext, CallInvNext, DownNext, StopNext, LossNext, DumpNext, ListNext DEF IInv
<1> QED  BY InitIInv, <1>1, PTL DEF Spec

\* Every variable stays within its type: the MTU between 1 and MTU_MAX, the
\* main address of an interface one that it has.
THEOREM TypeCorrect == Spec => []TypeOK
<1>1. IInv => TypeOK
  BY DEF IInv
<1> QED  BY <1>1, Invariance, PTL

\* After IF_DISABLE has succeeded without a refused call the default route does
\* not lead through the interface, for any number of DHCP clients and gateways
\* (execCmdIfDisable).
THEOREM DisableDropsDefault == Spec => []DisabledNotDefault
<1>1. IInv => DisabledNotDefault
  BY DEF IInv, DownInv, DisabledNotDefault, Answered
<1> QED  BY <1>1, Invariance, PTL

\* A command that stops the DHCP client of an interface has stopped it, or tried
\* SIGKILL, although it finds clients by parts of their titles
\* (execCmdDHCPDisable, execCmdIpAddrSet).
THEOREM DisableStops == Spec => []ClientStopped
<1>1. IInv => ClientStopped
  BY DEF IInv
<1> QED  BY <1>1, Invariance, PTL

\* No command loses an address but the one it names or has read as the main one,
\* and none of another interface (removeIfAddr).
THEOREM SetReplacesOne == Spec => []LosesOnlyMain
<1>1. IInv => LosesOnlyMain
  BY DEF IInv
<1> QED  BY <1>1, Invariance, PTL

\* RT_LIST returns one dump, and IF_LIST names a primary address that it lists
\* (execCmdRouteList, findPrimaryAndJailAddress).
THEOREM TrueLists == Spec => []ListsTruthful
<1>1. IInv => ListsTruthful
  BY DEF IInv, ListInv, ListsTruthful, PrimaryListed
<1> QED  BY <1>1, Invariance, PTL

\* RT_SET never takes a route away, and touches no other destination
\* (setStaticRoute).
THEOREM SetKeepsRoutes == Spec => SetKeepsRoute
<1> DEFINE Keeps == WorkerStep /\ cmd.name = "routeSet" =>
              \A d \in Dests : routes[d] # None =>
                 IF d = cmd.dst THEN routes'[d] \in {routes[d], cmd.gw} ELSE routes'[d] = routes[d]
<1>1. IInv /\ [Next]_vars => [Keeps]_vars
  <2>1. SUFFICES ASSUME TypeOK, CallInv, WorkerStep, cmd.name = "routeSet", NEW d \in Dests
                 PROVE  IF d = cmd.dst THEN routes'[d] \in {routes[d], cmd.gw} ELSE routes'[d] = routes[d]
    BY DEF IInv
  <2>2. pc \in {"addRoute", "changeRoute"}
    BY <2>1, StepAt, CallsOf
  <2>3. Dst = cmd.dst /\ Gw = cmd.gw /\ cmd.dst \in Dests /\ (AddRoute \/ ChangeRoute)
    BY <2>1, <2>2, CallTypes, StepAt
  <2>4. routes' = routes \/ routes' = [routes EXCEPT ![cmd.dst] = cmd.gw]
    BY <2>3 DEF AddRoute, ChangeRoute
  <2> QED  BY <2>1, <2>3, <2>4 DEF TypeOK
<1> QED  BY <1>1, Invariance, PTL DEF Spec, SetKeepsRoute

=============================================================================
