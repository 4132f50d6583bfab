---------------------------- MODULE WpaNetworks ----------------------------
(***************************************************************************)
(* The commands of NmWorkerWpa that change the networks of wpa_supplicant: *)
(* WPA_ADD, WPA_REMOVE, WPA_CONNECT, WPA_DISCONNECT, WPA_REASSOC,          *)
(* WPA_SETPSK, WPA_SETPARAM, WPA_SET_BSSID, WPA_ENABLE, WPA_DISABLE,       *)
(* WPA_SAVE and WPA_RESET.                                                 *)
(*                                                                         *)
(* An exchange with wpa_supplicant is one step here: it is answered, or    *)
(* wpaCtrlCmd() returns false, and then nobody knows whether the request   *)
(* was carried out (the steps of an exchange are those of WpaCtrl).        *)
(* Networks are named by their SSID; what is said of it goes for the BSSID.*)
(***************************************************************************)
EXTENDS Integers, Sequences

CONSTANTS
    SSIDs,    \* names of networks
    Within,   \* pairs of names, the first of which is part of the second
    Ids,      \* network ids
    MaxCmds,  \* bound: number of commands
    MaxLost   \* bound: exchanges of a command that are not answered

ASSUME WithinAssumption ==
    Within \subseteq SSIDs \X SSIDs /\ \A s \in SSIDs : <<s, s>> \in Within
ASSUME IdsAssumption    == Ids \subseteq 0..99
ASSUME BoundsAssumption == MaxCmds \in Nat /\ MaxLost \in Nat

HIGH_PRIORITY == 200
MAX_PRIORITY  == 500
NoId == -1
Unnamed == "(unnamed)"

Profiles   == {"none", "WPA-PSK", "WPA2-PSK", "WEP", "OPEN", "other"}
ParamNames == {"psk", "wep_key0", "key_mgmt", "proto", "bssid"}

Networks == [ssid : SSIDs \cup {Unnamed}, priority : {0, HIGH_PRIORITY, MAX_PRIORITY},
             params : SUBSET ParamNames, enabled : BOOLEAN]
NewNetwork == [ssid |-> Unnamed, priority |-> 0, params |-> {}, enabled |-> FALSE]

\* A command names its network by id or by SSID; "set" with a name is
\* WPA_SETPARAM of the SSID, without one it sets another parameter.
Command(name, id, ssid, profile, psk) ==
    [name |-> name, id |-> id, ssid |-> ssid, profile |-> profile, psk |-> psk]
Commands ==
    {Command("add", NoId, s, p, k) : s \in SSIDs, p \in Profiles, k \in BOOLEAN}
    \cup {Command(n, NoId, s, "none", FALSE) : n \in {"remove", "connect"}, s \in SSIDs}
    \cup {Command(n, i, Unnamed, "none", FALSE) :
             n \in {"remove", "connect", "set", "setBssid", "enable", "disable"}, i \in Ids}
    \cup {Command("set", i, s, "none", FALSE) : i \in Ids, s \in SSIDs}
    \cup {Command(n, NoId, Unnamed, "none", FALSE) : n \in {"save", "reset", "disconnect", "reassoc"}}

VARIABLES
    nets,    \* the networks of wpa_supplicant, by id
    saved,   \* those in its file
    conn,    \* the one it is connected to
    auto,    \* it looks for a network by itself
    cmd, pc, \* the command and the exchange it is at
    id,      \* the network the command is about, once it is known
    old,     \* id_connected of wpaConnectCmd
    todo,    \* parameters that execCmdWpaAdd has still to set
    lost,    \* unanswered exchanges of this command
    result,  \* its result
    before,  \* history: nets when the command began
    cmds     \* number of commands

supplicant == <<nets, saved, conn, auto>>
worker     == <<cmd, pc, id, old, todo, lost, result, before, cmds>>
vars       == <<supplicant, worker>>

NoNets == [i \in {} |-> NewNetwork]
With(n, net) == [i \in DOMAIN nets \cup {n} |-> IF i = n THEN net ELSE nets[i]]
Without(n)   == [i \in DOMAIN nets \ {n} |-> nets[i]]

Init ==
    /\ \E ids \in SUBSET Ids : \E name \in [ids -> SSIDs] :
        /\ \A i, j \in ids : name[i] = name[j] => i = j
        /\ nets = [i \in ids |-> [ssid |-> name[i], priority |-> 0,
                                  params |-> {"psk"}, enabled |-> TRUE]]
    /\ saved = nets /\ conn = NoId /\ auto = TRUE
    /\ cmd = Command("none", NoId, Unnamed, "none", FALSE)
    /\ pc = "idle" /\ id = NoId /\ old = NoId /\ todo = <<>> /\ lost = 0
    /\ result = "none" /\ before = nets /\ cmds = 0

-----------------------------------------------------------------------------
(* wpa_supplicant on its own account                                       *)

Associate ==
    /\ auto /\ conn = NoId
    /\ \E i \in DOMAIN nets : nets[i].enabled /\ nets[i].ssid # Unnamed /\ conn' = i
    /\ UNCHANGED <<nets, saved, auto, worker>>

LoseConnection ==
    /\ conn # NoId
    /\ conn' = NoId
    /\ UNCHANGED <<nets, saved, auto, worker>>

-----------------------------------------------------------------------------
(* What the commands have in common                                        *)

Finish(res) == pc' = "idle" /\ result' = res /\ UNCHANGED <<cmd, id, old, todo, before, cmds>>

Goto(at, i) == pc' = at /\ id' = i /\ UNCHANGED <<cmd, old, todo, result, before, cmds>>

\* The LIST_NETWORKS table as searchLineInBuf() reads it: ids in ascending
\* order, and the first line that has the text anywhere in it.
Match(ssid) == {i \in DOMAIN nets : <<ssid, nets[i].ssid>> \in Within}
First(S)    == IF S = {} THEN NoId ELSE CHOOSE i \in S : \A j \in S : i <= j

\* Is "id=<i>" (or a first column <i>) found at the start of the line of j:
\* searchLineInBuf() strips the end of line that would make it exact.
Prefix(i, j) == i = j \/ (j >= 10 /\ i = j \div 10)

\* What a command does when wpaCtrlCmd() returns false.
NoAnswer ==
    /\ lost < MaxLost
    /\ lost' = lost + 1
    /\ CASE pc = "addSet"  -> Goto("addUndo", id)
         [] pc = "reassoc" -> Goto("reassocStatus", id)
         [] OTHER          -> Finish("ERR")

\* wpaCtrlCmd() returns false; the request has had its effect or not.
Unanswered(effect) == NoAnswer /\ (effect \/ UNCHANGED supplicant)

Read(answer) ==
    \/ answer /\ UNCHANGED <<supplicant, lost>>
    \/ Unanswered(FALSE)

SetNet(i, net) == nets' = With(i, net) /\ UNCHANGED <<saved, conn, auto>>

RemoveNet(i) ==
    /\ nets' = Without(i)
    /\ conn' = IF conn = i THEN NoId ELSE conn
    /\ UNCHANGED <<saved, auto>>

Begin ==
    /\ pc = "idle" /\ cmds < MaxCmds
    /\ cmds' = cmds + 1
    /\ cmd' \in Commands
    /\ pc' = CASE cmd'.name = "add"     -> "addList"
               [] cmd'.name = "remove"  -> IF cmd'.id = NoId THEN "remFind" ELSE "remList"
               [] cmd'.name = "connect" -> "conStatus"
               [] cmd'.name = "reset"   -> "flush"
               [] OTHER                 -> cmd'.name
    /\ id' = NoId /\ old' = NoId /\ todo' = <<>> /\ lost' = 0 /\ result' = "none"
    /\ before' = nets
    /\ UNCHANGED supplicant

-----------------------------------------------------------------------------
(* WPA_ADD                                                                 *)

AddList ==
    /\ pc = "addList"
    /\ Read(IF Match(cmd.ssid) # {} THEN Finish("EXISTS") ELSE Goto("addNew", NoId))

\* The parameters that follow, by profile; WEP without a key is found out here.
Params(profile, psk) ==
    LET key(name) == IF psk THEN <<name>> ELSE <<>> IN
    <<"ssid">> \o
    CASE profile = "none" -> key("psk")
      [] profile \in {"WPA-PSK", "WPA2-PSK"} -> key("psk") \o <<"key_mgmt", "proto">>
      [] profile = "WEP"  -> IF psk THEN <<"wep_key0", "key_mgmt">> ELSE <<"rejected">>
      [] profile = "OPEN" -> <<"key_mgmt">>
      [] OTHER            -> <<>>

\* ADD_NETWORK is answered with the id of a new network.
Added(n) ==
    /\ SetNet(n, NewNetwork)
    /\ id' = n /\ todo' = Params(cmd.profile, cmd.psk) /\ pc' = "addSet"
    /\ UNCHANGED <<cmd, old, lost, result, before, cmds>>

\* Mutant: FAIL is not found out, and the parameters go to no network.
AddNew_IgnoresFail ==
    /\ pc = "addNew"
    /\ \/ \E n \in Ids \ DOMAIN nets : Added(n) \/ Unanswered(SetNet(n, NewNetwork))
       \/ /\ todo' = Params(cmd.profile, cmd.psk) /\ pc' = "addSet"
          /\ UNCHANGED <<supplicant, cmd, id, old, lost, result, before, cmds>>

AddNew ==
    /\ pc = "addNew"
    /\ \/ \E n \in Ids \ DOMAIN nets : Added(n) \/ Unanswered(SetNet(n, NewNetwork))
       \/ Finish("ERR") /\ UNCHANGED <<supplicant, lost>>  \* FAIL

Changed(p) ==
    IF p = "ssid" THEN [nets[id] EXCEPT !.ssid = cmd.ssid]
                  ELSE [nets[id] EXCEPT !.params = @ \cup {p}]

\* Mutant: a parameter that is refused is an error, and nothing else.
ParamRefused_NoUndo == Finish("ERR")

ParamRefused == Goto("addUndo", id)

\* setNetworkParam(): wpa_supplicant takes the parameter or refuses it.
AddSet ==
    /\ pc = "addSet"
    /\ \/ /\ Head(todo) # "rejected"
          /\ SetNet(id, Changed(Head(todo)))
          /\ todo' = Tail(todo)
          /\ pc' = IF todo' = <<>> THEN "addCheck" ELSE "addSet"
          /\ UNCHANGED <<cmd, id, old, lost, result, before, cmds>>
       \/ ParamRefused /\ UNCHANGED <<supplicant, lost>>
       \/ Head(todo) # "rejected" /\ Unanswered(SetNet(id, Changed(Head(todo))))

\* removeNetwork(), its result ignored.
AddUndo ==
    /\ pc = "addUndo"
    /\ \/ RemoveNet(id) /\ Finish("ERR") /\ UNCHANGED lost
       \/ Unanswered(RemoveNet(id))

AddCheck ==
    /\ pc = "addCheck"
    /\ Read(Finish(IF Match(cmd.ssid) # {} THEN "SUCCESS" ELSE "ERR"))

-----------------------------------------------------------------------------
(* WPA_REMOVE                                                              *)

\* Mutant: the id of the line that was found is taken, not the one asked for.
RemList_Found ==
    /\ pc = "remList"
    /\ Read(LET found == {i \in DOMAIN nets : Prefix(cmd.id, i)} IN
            IF found # {} THEN \E i \in found : Goto("remDo", i) ELSE Finish("ERR"))

RemList ==
    /\ pc = "remList"
    /\ Read(IF \E i \in DOMAIN nets : Prefix(cmd.id, i)
            THEN Goto("remDo", cmd.id) ELSE Finish("ERR"))

\* getNetId(), for WPA_REMOVE and WPA_CONNECT.
FindNet ==
    /\ pc \in {"remFind", "conFind"}
    /\ Read(IF Match(cmd.ssid) = {} THEN Finish("ERR")
            ELSE Goto(IF pc = "remFind" THEN "remDo" ELSE "conEnable",
                      First(Match(cmd.ssid))))

RemDo ==
    /\ pc = "remDo"
    /\ IF id \in DOMAIN nets
       THEN \/ RemoveNet(id) /\ Finish("SUCCESS") /\ UNCHANGED lost
            \/ Unanswered(RemoveNet(id))
       ELSE Read(Finish("ERR"))

-----------------------------------------------------------------------------
(* WPA_CONNECT                                                             *)

\* By SSID the command never notices that it is already connected: ptr1 is null.
ConStatus ==
    /\ pc = "conStatus"
    /\ Read(CASE cmd.id = NoId -> Goto("conFind", NoId)
              [] cmd.id # NoId /\ conn # NoId /\ Prefix(cmd.id, conn) -> Finish("SUCCESS")
              [] OTHER -> Goto("conEnable", cmd.id))

Enabled(i, on) ==
    /\ nets' = IF i \in DOMAIN nets THEN [nets EXCEPT ![i].enabled = on] ELSE nets
    /\ conn' = IF conn = i /\ ~on THEN NoId ELSE conn
    /\ UNCHANGED <<saved, auto>>

\* enableNetwork() does not look at the reply.
ConEnable ==
    /\ pc = "conEnable"
    /\ \/ Enabled(id, TRUE) /\ Goto("conOld", id) /\ UNCHANGED lost
       \/ Unanswered(Enabled(id, TRUE))

ConOld ==
    /\ pc = "conOld"
    /\ Read(/\ old' = conn
            /\ pc' = IF conn = NoId THEN "conRaise" ELSE "conLower"
            /\ UNCHANGED <<cmd, id, todo, result, before, cmds>>)

\* setNetworkParam() of the priority.
SetPriority(i, p, next) ==
    IF i \in DOMAIN nets
    THEN \/ SetNet(i, [nets[i] EXCEPT !.priority = p]) /\ next /\ UNCHANGED lost
         \/ Unanswered(SetNet(i, [nets[i] EXCEPT !.priority = p]))
    ELSE Read(Finish("ERR"))

\* Mutant: the network to connect to is the one that is lowered.
ConLower_Target == pc = "conLower" /\ SetPriority(id, HIGH_PRIORITY, Goto("conRaise", id))

ConLower == pc = "conLower" /\ SetPriority(old, HIGH_PRIORITY, Goto("conRaise", id))

ConRaise == pc = "conRaise" /\ SetPriority(id, MAX_PRIORITY, Goto("conDisc", id))

Disconnected == conn' = NoId /\ auto' = FALSE /\ UNCHANGED <<nets, saved>>

ConDisc ==
    /\ pc = "conDisc"
    /\ \/ Disconnected /\ Goto("conReassoc", id) /\ UNCHANGED lost
       \/ Unanswered(Disconnected)

Reassociating == auto' = TRUE /\ UNCHANGED <<nets, saved, conn>>

\* The event it waits for may not come: wpaCtrlCmd() is false then as well.
ConReassoc ==
    /\ pc = "conReassoc"
    /\ \/ Reassociating /\ (Goto("conCheck", id) \/ Finish("ERR")) /\ UNCHANGED lost
       \/ Unanswered(Reassociating)

ConCheck ==
    /\ pc = "conCheck"
    /\ Read(IF conn # NoId /\ Prefix(id, conn)
            THEN Finish("SUCCESS") ELSE Goto("conBounce", id))

\* The interface goes down and up again; either step may fail.
ConBounce ==
    /\ pc = "conBounce"
    /\ \/ Finish("ERR") /\ UNCHANGED supplicant
       \/ /\ conn' = NoId /\ UNCHANGED <<nets, saved, auto>>
          /\ Goto("conPoll", id) \/ Finish("ERR")
    /\ UNCHANGED lost

\* One of WAIT_CYCLES looks at STATUS; a round that finds nothing and is
\* not the last one changes nothing.
ConPoll ==
    /\ pc = "conPoll"
    /\ Read(Finish(IF conn # NoId /\ Prefix(id, conn) THEN "SUCCESS" ELSE "ERR"))

-----------------------------------------------------------------------------
(* The commands of one or two exchanges                                    *)

\* execCmdWpaSetPsk(), execCmdWpaSetNetParam(): psk stands for every parameter
\* other than the SSID and the priority.
SetParam ==
    /\ pc = "set"
    /\ \/ /\ cmd.id \in DOMAIN nets
          /\ \E net \in IF cmd.ssid # Unnamed
                        THEN {[nets[cmd.id] EXCEPT !.ssid = cmd.ssid]}
                        ELSE {[nets[cmd.id] EXCEPT !.params = @ \cup {"psk"}]}
                             \cup {[nets[cmd.id] EXCEPT !.priority = p] :
                                      p \in {0, HIGH_PRIORITY, MAX_PRIORITY}} :
                \/ SetNet(cmd.id, net) /\ Finish("SUCCESS") /\ UNCHANGED lost
                \/ Unanswered(SetNet(cmd.id, net))
       \/ Read(Finish("ERR"))  \* refused

\* An answer is enough for these: FAIL is a success.
Answered(effect) ==
    \/ (effect \/ UNCHANGED supplicant) /\ Finish("SUCCESS") /\ UNCHANGED lost
    \/ Unanswered(effect)

SetBssid ==
    /\ pc = "setBssid"
    /\ Answered(/\ cmd.id \in DOMAIN nets
                /\ SetNet(cmd.id, [nets[cmd.id] EXCEPT !.params = @ \cup {"bssid"}]))

Enable  == pc = "enable"  /\ Answered(Enabled(cmd.id, TRUE))
Disable == pc = "disable" /\ Answered(Enabled(cmd.id, FALSE))
Save    == pc = "save"    /\ Answered(saved' = nets /\ UNCHANGED <<nets, conn, auto>>)

Flushed      == nets' = NoNets /\ conn' = NoId /\ UNCHANGED <<saved, auto>>
Reconfigured == nets' = saved /\ conn' = NoId /\ auto' = TRUE /\ UNCHANGED saved

\* resetWpaStatus()
Flush ==
    /\ pc = "flush"
    /\ \/ Flushed /\ Goto("reconfigure", NoId) /\ UNCHANGED lost
       \/ Unanswered(Flushed)
Reconfigure == pc = "reconfigure" /\ Answered(Reconfigured)

Disconnect ==
    /\ pc = "disconnect"
    /\ \/ Disconnected /\ Goto("disconnectStatus", NoId) /\ UNCHANGED lost
       \/ Unanswered(Disconnected)
DisconnectStatus == pc = "disconnectStatus" /\ Read(Finish("SUCCESS"))

\* No event within the wait is no reason to stop here.
Reassoc ==
    /\ pc = "reassoc"
    /\ \/ Reassociating /\ Goto("reassocStatus", NoId) /\ UNCHANGED lost
       \/ Unanswered(Reassociating)
ReassocStatus ==
    pc = "reassocStatus" /\ Read(Finish(IF conn # NoId THEN "SUCCESS" ELSE "ERR"))

-----------------------------------------------------------------------------
Add     == AddList \/ AddNew \/ AddSet \/ AddUndo \/ AddCheck
Remove  == RemList \/ FindNet \/ RemDo
Connect == \/ ConStatus \/ ConEnable \/ ConOld \/ ConLower \/ ConRaise
           \/ ConDisc \/ ConReassoc \/ ConCheck \/ ConBounce \/ ConPoll
Simple  == \/ SetParam \/ SetBssid \/ Enable \/ Disable \/ Save \/ Flush
           \/ Reconfigure \/ Disconnect \/ DisconnectStatus \/ Reassoc \/ ReassocStatus

\* All the commands there may be have been carried out.
Done == pc = "idle" /\ cmds = MaxCmds /\ UNCHANGED vars

Next == Associate \/ LoseConnection \/ Begin \/ Add \/ Remove \/ Connect \/ Simple \/ Done

Spec == Init /\ [][Next]_vars

-----------------------------------------------------------------------------
\* A network is connected or edited only while it is configured.
TypeOK ==
    /\ DOMAIN nets \subseteq Ids /\ \A i \in DOMAIN nets : nets[i] \in Networks
    /\ conn \in DOMAIN nets \cup {NoId}
    /\ pc \in {"addSet", "addUndo", "addCheck"} => id \in DOMAIN nets
    /\ old \in Ids \cup {NoId} /\ lost \in 0..MaxLost
    /\ result \in {"none", "SUCCESS", "ERR", "EXISTS"}

Ended(name, res) == pc = "idle" /\ cmd.name = name /\ result = res

Elements(seq) == {seq[k] : k \in DOMAIN seq}

Kept(S) == \A i \in S : i \in DOMAIN nets /\ nets[i] = before[i]

\* WPA_ADD is all or nothing: SUCCESS means one more network, with its name
\* and with every parameter of its profile, and the others as they were; a
\* failure leaves the set of networks as it was, however far execCmdWpaAdd()
\* had come, as long as wpa_supplicant has answered every request.
AddAllOrNothing ==
    /\ Ended("add", "SUCCESS") =>
        /\ Kept(DOMAIN before)
        /\ \E n \in Ids \ DOMAIN before :
            /\ DOMAIN nets = DOMAIN before \cup {n}
            /\ nets[n].ssid = cmd.ssid
            /\ nets[n].params \cup {"ssid"} = Elements(Params(cmd.profile, cmd.psk))
    /\ (Ended("add", "ERR") \/ Ended("add", "EXISTS")) /\ lost = 0 => nets = before

Distinct(N) == \A i, j \in DOMAIN N : N[i].ssid = N[j].ssid => N[i].ssid = Unnamed \/ i = j

\* WPA_ADD never makes a second network of a name, whatever was answered or
\* not: names that differed before it (WPA_SETPARAM may make two alike)
\* differ after it.
AddKeepsNamesApart == cmd.name = "add" /\ Distinct(before) => Distinct(nets)

\* What WPA_ADD promises.
AddExact == AddAllOrNothing /\ AddKeepsNamesApart

\* WPA_REMOVE by id takes away the network of that id and no other, although
\* the id is looked for as a prefix: with 10 there and 1 not, it fails.
RemoveExact ==
    cmd.name = "remove" /\ cmd.id # NoId =>
        /\ Kept(DOMAIN before \ {cmd.id})
        /\ Ended("remove", "SUCCESS") => DOMAIN nets = DOMAIN before \ {cmd.id}

\* When WPA_CONNECT has gone through the priorities and says SUCCESS, the
\* network it connected has the highest one and the network that was connected
\* before is below it, unless they are the same.
ConnectOrders ==
    Ended("connect", "SUCCESS") /\ id # NoId =>
        /\ nets[id].priority = MAX_PRIORITY
        /\ old \notin {NoId, id} => nets[old].priority = HIGH_PRIORITY

\* "Remove wireless network from the configuration (by SSID)": what goes has
\* that name. getNetId() finds any name the given one is part of.
RemovesNamed ==
    cmd.name = "remove" /\ cmd.id = NoId =>
        \A i \in DOMAIN before \ DOMAIN nets : before[i].ssid = cmd.ssid

-----------------------------------------------------------------------------
(* The inductive invariant behind these properties                         *)

AddPCs     == {"addList", "addNew", "addSet", "addUndo", "addCheck"}
RemovePCs  == {"remFind", "remList", "remDo"}
RaisedPCs  == {"conDisc", "conReassoc", "conCheck", "conBounce", "conPoll"}
ConnectPCs == {"conStatus", "conFind", "conEnable", "conOld", "conLower", "conRaise"}
                 \cup RaisedPCs

\* A set of networks, by id.
IsConfig(N) == DOMAIN N \subseteq Ids /\ N \in [DOMAIN N -> Networks]

NetsInv ==
    /\ IsConfig(nets) /\ IsConfig(saved) /\ IsConfig(before)
    /\ conn \in DOMAIN nets \cup {NoId}
    /\ old \in Ids \cup {NoId} /\ lost \in 0..MaxLost
    /\ result \in {"none", "SUCCESS", "ERR", "EXISTS"}

\* A command is at one of its own exchanges.
CtlInv ==
    /\ cmd.name = "none" => pc = "idle"
    /\ cmd.name # "none" => cmd \in Commands
    /\ pc \in AddPCs <=> pc # "idle" /\ cmd.name = "add"
    /\ pc \in RemovePCs <=> pc # "idle" /\ cmd.name = "remove"
    /\ pc \in ConnectPCs <=> pc # "idle" /\ cmd.name = "connect"

NameFree == \A i \in DOMAIN before : before[i].ssid # cmd.ssid

\* WPA_ADD has its new network, and has not touched another.
OneMore ==
    /\ id \in Ids \ DOMAIN before
    /\ DOMAIN nets = DOMAIN before \cup {id}
    /\ Kept(DOMAIN before)

\* What is set and what is still to be set are the parameters of the profile.
Progress ==
    /\ nets[id].params \cup {"ssid"} \cup Elements(todo) = Elements(Params(cmd.profile, cmd.psk))
    /\ nets[id].ssid \in {Unnamed, cmd.ssid}
    /\ nets[id].ssid = cmd.ssid \/ (todo # <<>> /\ Head(todo) = "ssid")

AddInv ==
    cmd.name = "add" =>
        /\ pc \in {"addList", "addNew"} => nets = before
        /\ pc \in AddPCs \ {"addList"} => NameFree
        /\ pc \in {"addSet", "addUndo", "addCheck"} =>
              OneMore /\ nets[id].ssid \in {Unnamed, cmd.ssid}
        /\ pc = "addSet" => todo \in Seq(ParamNames \cup {"ssid", "rejected"}) \ {<<>>}
        /\ pc \in {"addSet", "addCheck"} => Progress
        /\ pc = "addCheck" => todo = <<>>

RemoveInv ==
    cmd.name = "remove" /\ cmd.id # NoId =>
        /\ pc # "idle" => nets = before
        /\ pc # "remFind"
        /\ pc = "remDo" => id = cmd.id

\* The priorities WPA_CONNECT has set so far.
ConnectInv ==
    cmd.name = "connect" =>
        /\ pc = "conStatus" => id = NoId
        /\ pc \in {"conRaise"} \cup RaisedPCs /\ old \notin {NoId, id} =>
              /\ old \in DOMAIN nets
              /\ nets[old].priority = HIGH_PRIORITY
        /\ pc \in RaisedPCs => id \in DOMAIN nets /\ nets[id].priority = MAX_PRIORITY

IInv ==
    /\ NetsInv /\ CtlInv /\ AddInv /\ RemoveInv /\ ConnectInv
    /\ AddExact /\ RemoveExact /\ ConnectOrders

=============================================================================
