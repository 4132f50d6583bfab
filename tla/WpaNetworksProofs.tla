------------------------- MODULE WpaNetworksProofs -------------------------
(***************************************************************************)
(* Proofs about WpaNetworks, for any names, any network ids and any number *)
(* of commands and unanswered exchanges.                                   *)
(***************************************************************************)
EXTENDS WpaNetworks, SequenceTheorems, TLAPS

USE DEF supplicant, worker

-----------------------------------------------------------------------------
(* Commands and parameters                                                 *)

\* What the fields of a command may be.
LEMMA CommandFields ==
  ASSUME NEW c \in Commands
  PROVE  /\ c.name # "none"
         /\ c.id \in Ids \cup {NoId}
         /\ c.name = "add" => c.ssid \in SSIDs
         /\ c.ssid \in SSIDs \cup {Unnamed}
         /\ c.name \in {"add", "remove", "connect", "set", "setBssid", "enable",
                        "disable", "save", "reset", "disconnect", "reassoc"}
BY DEF Commands, Command

\* NoId is no id.
LEMMA NoIdIsNone == NoId \notin Ids
BY IdsAssumption DEF NoId

\* The parameters of a profile begin with the SSID.
LEMMA ParamsType ==
  ASSUME NEW profile, NEW psk
  PROVE  /\ Params(profile, psk) \in Seq(ParamNames \cup {"ssid", "rejected"})
         /\ Params(profile, psk) # <<>>
         /\ Head(Params(profile, psk)) = "ssid"
<1> DEFINE P == ParamNames \cup {"ssid", "rejected"}
           key(name) == IF psk THEN <<name>> ELSE <<>>
           rest == CASE profile = "none" -> key("psk")
                     [] profile \in {"WPA-PSK", "WPA2-PSK"} -> key("psk") \o <<"key_mgmt", "proto">>
                     [] profile = "WEP"  -> IF psk THEN <<"wep_key0", "key_mgmt">> ELSE <<"rejected">>
                     [] profile = "OPEN" -> <<"key_mgmt">>
                     [] OTHER            -> <<>>
<1>1. /\ <<>> \in Seq(P) /\ <<"psk">> \in Seq(P) /\ <<"key_mgmt", "proto">> \in Seq(P)
      /\ <<"wep_key0", "key_mgmt">> \in Seq(P) /\ <<"rejected">> \in Seq(P)
      /\ <<"key_mgmt">> \in Seq(P) /\ <<"ssid">> \in Seq(P)
  BY DEF ParamNames
<1>2. key("psk") \in Seq(P)
  BY <1>1
<1>3. key("psk") \o <<"key_mgmt", "proto">> \in Seq(P)
  BY <1>1, <1>2, ConcatProperties
<1>4. rest \in Seq(P)
  BY <1>1, <1>2, <1>3
<1>5. Params(profile, psk) = <<"ssid">> \o rest
  BY DEF Params
<1> HIDE DEF rest, P
<1>6. /\ <<"ssid">> \o rest \in Seq(P)
      /\ Len(<<"ssid">> \o rest) = 1 + Len(rest) /\ Len(rest) \in Nat
      /\ (<<"ssid">> \o rest)[1] = "ssid"
  BY <1>1, <1>4
<1> QED
  BY <1>5, <1>6 DEF P

\* What setting the first of some parameters leaves to be set.
LEMMA ElementsOfTail ==
  ASSUME NEW S, NEW s \in Seq(S), s # <<>>
  PROVE  Elements(s) = {Head(s)} \cup Elements(Tail(s))
<1>1. /\ Len(s) \in Nat \ {0} /\ Head(s) = s[1] /\ DOMAIN s = 1..Len(s)
      /\ Tail(s) \in Seq(S) /\ Len(Tail(s)) = Len(s) - 1
      /\ DOMAIN Tail(s) = 1..Len(s) - 1
      /\ \A i \in 1..Len(s) - 1 : Tail(s)[i] = s[i + 1]
  BY EmptySeq, HeadTailProperties
<1>2. ASSUME NEW x \in Elements(s)
      PROVE  x \in {Head(s)} \cup Elements(Tail(s))
  <2>1. PICK k \in 1..Len(s) : x = s[k]
    BY <1>1, <1>2 DEF Elements
  <2>2. CASE k = 1
    BY <1>1, <2>1, <2>2
  <2>3. CASE k # 1
    <3>1. k - 1 \in 1..Len(s) - 1 /\ Tail(s)[k - 1] = x
      BY <1>1, <2>1, <2>3
    <3> QED
      BY <1>1, <3>1 DEF Elements
  <2> QED
    BY <2>2, <2>3
<1>3. ASSUME NEW x \in {Head(s)} \cup Elements(Tail(s))
      PROVE  x \in Elements(s)
  <2>1. CASE x = Head(s)
    BY <1>1, <2>1 DEF Elements
  <2>2. CASE x \in Elements(Tail(s))
    <3>1. PICK k \in 1..Len(s) - 1 : x = Tail(s)[k]
      BY <1>1, <2>2 DEF Elements
    <3>2. k + 1 \in 1..Len(s) /\ x = s[k + 1]
      BY <1>1, <3>1
    <3> QED
      BY <1>1, <3>2 DEF Elements
  <2> QED
    BY <1>3, <2>1, <2>2
<1> QED
  BY <1>2, <1>3

-----------------------------------------------------------------------------
(* What the requests do to the networks                                    *)

\* A network that is set: the others stay.
LEMMA SetNetFacts ==
  ASSUME NetsInv, NEW i \in Ids, NEW net \in Networks, SetNet(i, net)
  PROVE  /\ IsConfig(nets') /\ IsConfig(saved') /\ conn' \in DOMAIN nets' \cup {NoId}
         /\ DOMAIN nets' = DOMAIN nets \cup {i}
         /\ nets'[i] = net
         /\ \A j \in DOMAIN nets \ {i} : nets'[j] = nets[j]
BY DEF NetsInv, SetNet, With, IsConfig

\* A network that is removed: the others stay.
LEMMA RemoveNetFacts ==
  ASSUME NetsInv, NEW i, RemoveNet(i)
  PROVE  /\ IsConfig(nets') /\ IsConfig(saved') /\ conn' \in DOMAIN nets' \cup {NoId}
         /\ DOMAIN nets' = DOMAIN nets \ {i}
         /\ \A j \in DOMAIN nets \ {i} : nets'[j] = nets[j]
BY DEF NetsInv, RemoveNet, Without, IsConfig

\* A network that is enabled or disabled: nothing else of it changes.
LEMMA EnabledFacts ==
  ASSUME NetsInv, NEW i, NEW on \in BOOLEAN, Enabled(i, on)
  PROVE  /\ IsConfig(nets') /\ IsConfig(saved') /\ conn' \in DOMAIN nets' \cup {NoId}
         /\ DOMAIN nets' = DOMAIN nets
         /\ \A j \in DOMAIN nets : nets'[j].priority = nets[j].priority
BY DEF NetsInv, Enabled, IsConfig, Networks

\* The requests about all networks, and none at all.
LEMMA OtherFacts ==
  ASSUME NetsInv,
         \/ UNCHANGED supplicant \/ Disconnected \/ Reassociating
         \/ Flushed \/ Reconfigured
         \/ saved' = nets /\ UNCHANGED <<nets, conn, auto>>
         \/ conn' = NoId /\ UNCHANGED <<nets, saved, auto>>
  PROVE  IsConfig(nets') /\ IsConfig(saved') /\ conn' \in DOMAIN nets' \cup {NoId}
BY DEF NetsInv, Disconnected, Reassociating, Flushed, Reconfigured, IsConfig, NoNets

\* An exchange without an answer ends the command, with two exceptions.
LEMMA NoAnswerFacts ==
  ASSUME NetsInv, NoAnswer
  PROVE  /\ UNCHANGED <<cmd, id, old, todo, before, cmds>>
         /\ lost' \in 0..MaxLost /\ lost' # 0
         /\ \/ pc = "addSet" /\ pc' = "addUndo" /\ result' = result
            \/ pc = "reassoc" /\ pc' = "reassocStatus" /\ result' = result
            \/ pc \notin {"addSet", "reassoc"} /\ pc' = "idle" /\ result' = "ERR"
BY BoundsAssumption DEF NetsInv, NoAnswer, Goto, Finish

-----------------------------------------------------------------------------
(* The steps                                                               *)

\* Steps of wpa_supplicant by itself change its connection and nothing else.
LEMMA SupplicantStep ==
  ASSUME IInv, \/ Associate \/ LoseConnection \/ Done
               \/ UNCHANGED vars
  PROVE  IInv'
<1>1. UNCHANGED <<nets, saved, worker>> /\ conn' \in DOMAIN nets \cup {NoId}
  BY DEF Associate, LoseConnection, Done, vars, IInv, NetsInv
<1>2. NetsInv'
  BY <1>1 DEF IInv, NetsInv
<1>3. CtlInv' /\ RemoveInv' /\ ConnectInv'
  BY <1>1 DEF IInv, CtlInv, RemoveInv, ConnectInv
<1>4. AddInv'
  BY <1>1 DEF IInv, AddInv, NameFree, OneMore, Kept, Progress
<1>5. AddExact' /\ RemoveExact' /\ ConnectOrders'
  BY <1>1 DEF IInv, AddExact, AddAllOrNothing, AddKeepsNamesApart, RemoveExact,
     ConnectOrders, Ended, Kept
<1> QED
  BY <1>2, <1>3, <1>4, <1>5 DEF IInv

\* A new command starts at its first exchange, from the networks as they are.
LEMMA BeginStep ==
  ASSUME IInv, Begin
  PROVE  IInv'
<1>1. /\ cmd' \in Commands /\ nets' = nets /\ before' = nets
      /\ UNCHANGED <<saved, conn>>
      /\ id' = NoId /\ old' = NoId /\ lost' = 0 /\ result' = "none"
  BY DEF Begin
<1>2. NetsInv'
  BY <1>1, BoundsAssumption DEF IInv, NetsInv
<1>3. /\ cmd'.name # "none"
      /\ cmd'.name \in {"add", "remove", "connect", "set", "setBssid", "enable",
                        "disable", "save", "reset", "disconnect", "reassoc"}
  BY <1>1, CommandFields
<1>4. /\ cmd'.name = "add" => pc' = "addList"
      /\ cmd'.name = "remove" => pc' = IF cmd'.id = NoId THEN "remFind" ELSE "remList"
      /\ cmd'.name = "connect" => pc' = "conStatus"
      /\ cmd'.name = "reset" => pc' = "flush"
      /\ cmd'.name \notin {"add", "remove", "connect", "reset"} => pc' = cmd'.name
  BY DEF Begin
<1>5. pc' # "idle"
  BY <1>3, <1>4
<1>6. CtlInv'
  BY <1>1, <1>3, <1>4
  DEF CtlInv, AddPCs, RemovePCs, ConnectPCs, RaisedPCs
<1>7. AddInv'
  BY <1>1, <1>4 DEF AddInv, AddPCs
<1>8. RemoveInv'
  BY <1>1, <1>4 DEF RemoveInv
<1>9. ConnectInv'
  BY <1>1, <1>4 DEF ConnectInv, RaisedPCs
<1>10. AddExact'
  BY <1>1, <1>5 DEF AddExact, AddAllOrNothing, AddKeepsNamesApart, Ended
<1>11. RemoveExact'
  BY <1>1, <1>5 DEF RemoveExact, Ended, Kept
<1>12. ConnectOrders'
  BY <1>5 DEF ConnectOrders, Ended
<1> QED
  BY <1>2, <1>6, <1>7, <1>8, <1>9, <1>10, <1>11, <1>12 DEF IInv

\* A step of a command that neither adds, removes nor connects.
LEMMA ElsewhereStep ==
  ASSUME IInv, NetsInv', cmd' = cmd, cmd.name \notin {"none", "add", "remove", "connect"},
         pc' \in {"idle", "reconfigure", "disconnectStatus", "reassocStatus"}
  PROVE  IInv'
<1>1. CtlInv'
  BY DEF IInv, CtlInv, AddPCs, RemovePCs, ConnectPCs, RaisedPCs
<1>2. AddInv' /\ RemoveInv' /\ ConnectInv'
  BY DEF AddInv, RemoveInv, ConnectInv
<1>3. AddExact' /\ RemoveExact' /\ ConnectOrders'
  BY DEF AddExact, AddAllOrNothing, AddKeepsNamesApart, RemoveExact, ConnectOrders, Ended
<1> QED
  BY <1>1, <1>2, <1>3 DEF IInv

\* The commands of one or two exchanges.
LEMMA SimpleStep ==
  ASSUME IInv, Simple
  PROVE  IInv'
<1> DEFINE Nets == /\ IsConfig(nets') /\ IsConfig(saved')
                   /\ conn' \in DOMAIN nets' \cup {NoId}
           Ctl == /\ UNCHANGED <<cmd, before, old>>
                  /\ lost' \in 0..MaxLost
                  /\ result' \in {"none", "SUCCESS", "ERR", "EXISTS"}
                  /\ pc' \in {"idle", "reconfigure", "disconnectStatus", "reassocStatus"}
<1>0. NetsInv /\ CtlInv
  BY DEF IInv
<1>1. /\ pc \in {"set", "setBssid", "enable", "disable", "save", "flush", "reconfigure",
                 "disconnect", "disconnectStatus", "reassoc", "reassocStatus"}
      /\ cmd.name \notin {"none", "add", "remove", "connect"}
  <2>1. pc \in {"set", "setBssid", "enable", "disable", "save", "flush", "reconfigure",
                "disconnect", "disconnectStatus", "reassoc", "reassocStatus"}
    BY DEF Simple, SetParam, SetBssid, Enable, Disable, Save, Flush, Reconfigure,
       Disconnect, DisconnectStatus, Reassoc, ReassocStatus
  <2> QED
    BY <1>0, <2>1 DEF CtlInv, AddPCs, RemovePCs, ConnectPCs, RaisedPCs
<1>2. ASSUME NEW res \in {"SUCCESS", "ERR"}, Finish(res), UNCHANGED lost
      PROVE  Ctl
  BY <1>0, <1>2 DEF NetsInv, Finish
<1>3. ASSUME NEW at \in {"reconfigure", "disconnectStatus", "reassocStatus"},
             NEW i, Goto(at, i), UNCHANGED lost
      PROVE  Ctl
  BY <1>0, <1>3 DEF NetsInv, Goto
<1>4. NoAnswer => Ctl
  BY <1>0, <1>1, NoAnswerFacts DEF NetsInv
<1>5. UNCHANGED supplicant => Nets
  BY <1>0, OtherFacts
<1>6. SetParam => Nets /\ Ctl
  <2>1. ASSUME cmd.id \in DOMAIN nets,
               NEW net \in IF cmd.ssid # Unnamed
                           THEN {[nets[cmd.id] EXCEPT !.ssid = cmd.ssid]}
                           ELSE {[nets[cmd.id] EXCEPT !.params = @ \cup {"psk"}]}
                                \cup {[nets[cmd.id] EXCEPT !.priority = p] :
                                         p \in {0, HIGH_PRIORITY, MAX_PRIORITY}},
               SetNet(cmd.id, net)
        PROVE  Nets
    <3>1. cmd.id \in Ids /\ nets[cmd.id] \in Networks
      BY <1>0, <2>1 DEF NetsInv, IsConfig
    <3>2. cmd.ssid \in SSIDs \cup {Unnamed}
      BY <1>0, <1>1, CommandFields DEF CtlInv
    <3>3. net \in Networks
      BY <2>1, <3>1, <3>2 DEF Networks, ParamNames
    <3> QED
      BY <1>0, <2>1, <3>1, <3>3, SetNetFacts
  <2> HIDE DEF Nets, Ctl
  <2> QED
    BY <1>2, <1>4, <1>5, <2>1 DEF SetParam, Read, Unanswered
<1>7. SetBssid => Nets /\ Ctl
  <2>1. ASSUME cmd.id \in DOMAIN nets,
               SetNet(cmd.id, [nets[cmd.id] EXCEPT !.params = @ \cup {"bssid"}])
        PROVE  Nets
    <3>1. cmd.id \in Ids /\ nets[cmd.id] \in Networks
      BY <1>0, <2>1 DEF NetsInv, IsConfig
    <3>2. [nets[cmd.id] EXCEPT !.params = @ \cup {"bssid"}] \in Networks
      BY <3>1 DEF Networks, ParamNames
    <3> QED
      BY <1>0, <2>1, <3>1, <3>2, SetNetFacts
  <2> HIDE DEF Nets, Ctl
  <2> QED
    BY <1>2, <1>4, <1>5, <2>1 DEF SetBssid, Answered, Unanswered
<1>8. Enable \/ Disable => Nets /\ Ctl
  <2>1. ASSUME NEW on \in BOOLEAN, Enabled(cmd.id, on)
        PROVE  Nets
    BY <1>0, <2>1, EnabledFacts
  <2> HIDE DEF Nets, Ctl
  <2> QED
    BY <1>2, <1>4, <1>5, <2>1 DEF Enable, Disable, Answered, Unanswered
<1>9. Save => Nets /\ Ctl
  <2>1. saved' = nets /\ UNCHANGED <<nets, conn, auto>> => Nets
    BY <1>0, OtherFacts
  <2> HIDE DEF Nets, Ctl
  <2> QED
    BY <1>2, <1>4, <1>5, <2>1 DEF Save, Answered, Unanswered
<1>10. Flush \/ Reconfigure \/ Disconnect \/ Reassoc => Nets /\ Ctl
  <2>1. Flushed \/ Reconfigured \/ Disconnected \/ Reassociating => Nets
    BY <1>0, OtherFacts
  <2> HIDE DEF Nets, Ctl
  <2>2. Flush => Nets /\ Ctl
    BY <1>3, <1>4, <1>5, <2>1 DEF Flush, Unanswered
  <2>3. Reconfigure => Nets /\ Ctl
    BY <1>2, <1>4, <1>5, <2>1 DEF Reconfigure, Answered, Unanswered
  <2>4. Disconnect => Nets /\ Ctl
    BY <1>3, <1>4, <1>5, <2>1 DEF Disconnect, Unanswered
  <2>5. Reassoc => Nets /\ Ctl
    BY <1>3, <1>4, <1>5, <2>1 DEF Reassoc, Unanswered
  <2> QED
    BY <2>2, <2>3, <2>4, <2>5
<1>11. DisconnectStatus \/ ReassocStatus => Nets /\ Ctl
  <2> HIDE DEF Nets, Ctl
  <2> QED
    BY <1>2, <1>4, <1>5 DEF DisconnectStatus, ReassocStatus, Read, Unanswered
<1>12. Nets /\ Ctl
  <2> HIDE DEF Nets, Ctl
  <2> QED
    BY <1>6, <1>7, <1>8, <1>9, <1>10, <1>11 DEF Simple
<1>13. NetsInv'
  BY <1>0, <1>12 DEF NetsInv
<1> QED
  BY <1>1, <1>12, <1>13, ElsewhereStep

\* What the steps of WPA_REMOVE have to show.
LEMMA RemoveEnough ==
  ASSUME IInv, cmd.name = "remove", NetsInv', cmd' = cmd, pc' \in {"idle", "remDo"},
         RemoveInv', RemoveExact'
  PROVE  IInv'
<1>1. CtlInv'
  BY DEF IInv, CtlInv, AddPCs, RemovePCs, ConnectPCs, RaisedPCs
<1>2. AddInv' /\ ConnectInv'
  BY DEF AddInv, ConnectInv
<1>3. AddExact' /\ ConnectOrders'
  BY DEF AddExact, AddAllOrNothing, AddKeepsNamesApart, ConnectOrders, Ended
<1> QED
  BY <1>1, <1>2, <1>3 DEF IInv

\* The steps of WPA_REMOVE: whatever line the id was found on, the network
\* removed is the one of that id.
LEMMA RemoveStep ==
  ASSUME IInv, RemList \/ (pc = "remFind" /\ FindNet) \/ RemDo
  PROVE  IInv'
<1>0. NetsInv /\ CtlInv /\ RemoveInv /\ pc \in RemovePCs /\ pc # "idle"
  BY DEF IInv, RemList, FindNet, RemDo, RemovePCs
<1>1. cmd.name = "remove"
  BY <1>0 DEF CtlInv
<1>2. CASE RemList \/ (pc = "remFind" /\ FindNet)
  <2>1. /\ UNCHANGED supplicant /\ UNCHANGED <<cmd, before, old>>
        /\ lost' \in 0..MaxLost
        /\ \/ pc' = "idle" /\ result' = "ERR"
           \/ /\ pc' = "remDo" /\ result' = result
              /\ pc = "remList" => id' = cmd.id
    <3>1. NoAnswer => /\ UNCHANGED <<cmd, before, old>> /\ lost' \in 0..MaxLost
                      /\ pc' = "idle" /\ result' = "ERR"
      BY <1>0, NoAnswerFacts DEF RemovePCs
    <3>2. ASSUME UNCHANGED lost
          PROVE  /\ lost' \in 0..MaxLost
                 /\ Finish("ERR") => /\ UNCHANGED <<cmd, before, old>>
                                     /\ pc' = "idle" /\ result' = "ERR"
                 /\ \A i : Goto("remDo", i) => /\ UNCHANGED <<cmd, before, old>>
                                               /\ pc' = "remDo" /\ result' = result
                                               /\ id' = i
      BY <1>0, <3>2 DEF NetsInv, Finish, Goto
    <3>3. CASE RemList
      BY <3>1, <3>2, <3>3 DEF RemList, Read, Unanswered
    <3>4. CASE pc = "remFind" /\ FindNet
      BY <3>1, <3>2, <3>4 DEF FindNet, Read, Unanswered
    <3> QED
      BY <1>2, <3>3, <3>4
  <2>2. NetsInv'
    BY <1>0, <2>1 DEF NetsInv
  <2>3. RemoveInv'
    <3>1. pc \in {"remList", "remFind"}
      BY <1>2 DEF RemList, FindNet
    <3> QED
      BY <1>0, <2>1, <3>1 DEF RemoveInv
  <2>4. RemoveExact'
    BY <1>0, <1>1, <2>1 DEF RemoveInv, RemoveExact, Ended, Kept
  <2> QED
    BY <1>1, <2>1, <2>2, <2>3, <2>4, RemoveEnough
<1>3. CASE RemDo
  <2>0. pc = "remDo"
    BY <1>3 DEF RemDo
  <2>1. /\ UNCHANGED <<cmd, id, before, old>> /\ lost' \in 0..MaxLost
        /\ pc' = "idle" /\ result' \in {"SUCCESS", "ERR"}
        /\ \/ RemoveNet(id)
           \/ UNCHANGED supplicant /\ result' = "ERR"
    <3>1. NoAnswer => /\ UNCHANGED <<cmd, id, before, old>> /\ lost' \in 0..MaxLost
                      /\ pc' = "idle" /\ result' = "ERR"
      BY <1>0, <2>0, NoAnswerFacts
    <3>2. ASSUME UNCHANGED lost, NEW res \in {"SUCCESS", "ERR"}, Finish(res)
          PROVE  /\ UNCHANGED <<cmd, id, before, old>> /\ lost' \in 0..MaxLost
                 /\ pc' = "idle" /\ result' = res
      BY <1>0, <3>2 DEF NetsInv, Finish
    <3> QED
      BY <1>3, <3>1, <3>2 DEF RemDo, Read, Unanswered
  <2>2. /\ IsConfig(nets') /\ IsConfig(saved') /\ conn' \in DOMAIN nets' \cup {NoId}
        /\ \/ /\ DOMAIN nets' = DOMAIN nets \ {id}
              /\ \A j \in DOMAIN nets \ {id} : nets'[j] = nets[j]
           \/ UNCHANGED nets /\ result' = "ERR"
    BY <1>0, <2>1, RemoveNetFacts, OtherFacts
  <2>3. NetsInv'
    BY <1>0, <2>1, <2>2 DEF NetsInv
  <2>4. RemoveInv'
    BY <1>0, <2>1 DEF RemoveInv
  <2>5. RemoveExact'
    BY <1>0, <1>1, <2>0, <2>1, <2>2 DEF RemoveInv, RemoveExact, Ended, Kept
  <2> QED
    BY <1>1, <2>1, <2>3, <2>4, <2>5, RemoveEnough
<1> QED
  BY <1>2, <1>3

\* What the steps of WPA_CONNECT have to show.
LEMMA ConnectEnough ==
  ASSUME IInv, cmd.name = "connect", NetsInv', cmd' = cmd, pc' \in {"idle"} \cup ConnectPCs,
         ConnectInv', ConnectOrders'
  PROVE  IInv'
<1>1. CtlInv'
  BY DEF IInv, CtlInv, AddPCs, RemovePCs, ConnectPCs, RaisedPCs
<1>2. AddInv' /\ RemoveInv'
  BY DEF AddInv, RemoveInv
<1>3. AddExact' /\ RemoveExact'
  BY DEF AddExact, AddAllOrNothing, AddKeepsNamesApart, RemoveExact, Ended
<1> QED
  BY <1>1, <1>2, <1>3 DEF IInv

\* The steps of WPA_CONNECT before the priorities: no network is changed but
\* in its `enabled`.
LEMMA ConnectFirstSteps ==
  ASSUME IInv, ConStatus \/ (pc = "conFind" /\ FindNet) \/ ConEnable \/ ConOld
  PROVE  IInv'
<1>0. NetsInv /\ CtlInv /\ ConnectInv /\ pc \in ConnectPCs \ RaisedPCs
  BY DEF IInv, ConStatus, FindNet, ConEnable, ConOld, ConnectPCs, RaisedPCs
<1>1. cmd.name = "connect"
  BY <1>0 DEF CtlInv, ConnectPCs, RaisedPCs
<1> DEFINE Ctl == /\ UNCHANGED <<cmd, before>> /\ lost' \in 0..MaxLost
                  /\ result' \in {"none", "SUCCESS", "ERR", "EXISTS"}
                  /\ old' \in Ids \cup {NoId}
                  /\ \/ pc' \in {"conFind", "conEnable", "conOld", "conLower"}
                     \/ pc' = "conRaise" /\ old' = NoId
                     \/ pc' = "idle" /\ result' # "SUCCESS"
                     \/ pc' = "idle" /\ id' = NoId
           Nets == /\ IsConfig(nets') /\ IsConfig(saved')
                   /\ conn' \in DOMAIN nets' \cup {NoId}
<1>2. NoAnswer => Ctl
  BY <1>0, NoAnswerFacts DEF NetsInv, ConnectPCs, RaisedPCs
<1>3. ASSUME UNCHANGED lost, Finish("ERR") \/ (id = NoId /\ Finish("SUCCESS"))
      PROVE  Ctl
  BY <1>0, <1>3 DEF NetsInv, Finish
<1>4. ASSUME UNCHANGED lost, NEW at \in {"conFind", "conEnable", "conOld"}, NEW i, Goto(at, i)
      PROVE  Ctl
  BY <1>0, <1>4 DEF NetsInv, Goto
<1>5. UNCHANGED supplicant => Nets
  BY <1>0, OtherFacts
<1>6. ConStatus => Nets /\ Ctl
  <2>1. ConStatus => id = NoId
    BY <1>0, <1>1 DEF ConStatus, ConnectInv
  <2> HIDE DEF Ctl, Nets
  <2> QED
    BY <1>2, <1>3, <1>4, <1>5, <2>1 DEF ConStatus, Read, Unanswered
<1>7. pc = "conFind" /\ FindNet => Nets /\ Ctl
  <2> HIDE DEF Ctl, Nets
  <2> QED
    BY <1>2, <1>3, <1>4, <1>5 DEF FindNet, Read, Unanswered
<1>8. ConEnable => Nets /\ Ctl
  <2>1. Enabled(id, TRUE) => Nets
    BY <1>0, EnabledFacts
  <2> HIDE DEF Ctl, Nets
  <2> QED
    BY <1>2, <1>4, <1>5, <2>1 DEF ConEnable, Unanswered
<1>9. ConOld => Nets /\ Ctl
  <2>1. ASSUME old' = conn, pc' = IF conn = NoId THEN "conRaise" ELSE "conLower",
               UNCHANGED <<cmd, id, todo, result, before, cmds>>, UNCHANGED lost
        PROVE  Ctl
    BY <1>0, <2>1 DEF NetsInv, IsConfig
  <2> HIDE DEF Ctl, Nets
  <2> QED
    BY <1>2, <1>5, <2>1 DEF ConOld, Read, Unanswered
<1>10. Nets /\ Ctl
  BY <1>6, <1>7, <1>8, <1>9
<1>11. NetsInv'
  BY <1>0, <1>10 DEF NetsInv
<1>12. ConnectInv'
  BY <1>10 DEF ConnectInv, RaisedPCs
<1>13. ConnectOrders'
  BY <1>10 DEF ConnectOrders, Ended
<1> QED
  BY <1>1, <1>10, <1>11, <1>12, <1>13, ConnectEnough DEF ConnectPCs, RaisedPCs

\* The network that was connected is lowered, then the new one raised.
LEMMA PriorityStep ==
  ASSUME IInv, ConLower \/ ConRaise
  PROVE  IInv'
<1>0. NetsInv /\ CtlInv /\ ConnectInv /\ pc \in {"conLower", "conRaise"}
  BY DEF IInv, ConLower, ConRaise
<1>1. cmd.name = "connect"
  BY <1>0 DEF CtlInv, ConnectPCs, RaisedPCs
<1>2. ASSUME NEW i \in DOMAIN nets, NEW p \in {HIGH_PRIORITY, MAX_PRIORITY},
             SetNet(i, [nets[i] EXCEPT !.priority = p])
      PROVE  /\ IsConfig(nets') /\ IsConfig(saved') /\ conn' \in DOMAIN nets' \cup {NoId}
             /\ DOMAIN nets' = DOMAIN nets
             /\ nets'[i].priority = p
             /\ \A j \in DOMAIN nets \ {i} : nets'[j] = nets[j]
  <2>1. i \in Ids /\ nets[i] \in Networks
    BY <1>0, <1>2 DEF NetsInv, IsConfig
  <2>2. /\ [nets[i] EXCEPT !.priority = p] \in Networks
        /\ [nets[i] EXCEPT !.priority = p].priority = p
    BY <1>2, <2>1 DEF Networks
  <2> QED
    BY <1>0, <1>2, <2>1, <2>2, SetNetFacts
<1>3. ASSUME \/ NoAnswer
             \/ Finish("ERR") /\ UNCHANGED lost
      PROVE  /\ UNCHANGED <<cmd, before, old>> /\ lost' \in 0..MaxLost
             /\ pc' = "idle" /\ result' = "ERR"
  BY <1>0, <1>3, NoAnswerFacts DEF Finish, NetsInv
<1>4. ASSUME /\ UNCHANGED <<cmd, before, old>> /\ lost' \in 0..MaxLost
             /\ pc' = "idle" /\ result' = "ERR",
             IsConfig(nets') /\ IsConfig(saved') /\ conn' \in DOMAIN nets' \cup {NoId}
      PROVE  IInv'
  <2>1. NetsInv'
    BY <1>0, <1>4 DEF NetsInv
  <2>2. ConnectInv' /\ ConnectOrders'
    BY <1>4 DEF ConnectInv, ConnectOrders, Ended, RaisedPCs
  <2> QED
    BY <1>1, <1>4, <2>1, <2>2, ConnectEnough
<1>5. UNCHANGED supplicant =>
        IsConfig(nets') /\ IsConfig(saved') /\ conn' \in DOMAIN nets' \cup {NoId}
  BY <1>0, OtherFacts
<1>6. ASSUME NEW at, Goto(at, id), UNCHANGED lost, IsConfig(nets'), IsConfig(saved'),
             conn' \in DOMAIN nets' \cup {NoId}
      PROVE  NetsInv' /\ cmd' = cmd /\ pc' = at /\ UNCHANGED <<id, old, result>>
  BY <1>0, <1>6 DEF NetsInv, Goto
<1>7. CASE ConLower
  <2>1. ASSUME old \in DOMAIN nets,
               SetNet(old, [nets[old] EXCEPT !.priority = HIGH_PRIORITY]),
               Goto("conRaise", id), UNCHANGED lost
        PROVE  IInv'
    <3>1. /\ IsConfig(nets') /\ IsConfig(saved') /\ conn' \in DOMAIN nets' \cup {NoId}
          /\ DOMAIN nets' = DOMAIN nets /\ nets'[old].priority = HIGH_PRIORITY
      BY <1>2, <2>1
    <3>2. NetsInv' /\ cmd' = cmd /\ pc' = "conRaise" /\ UNCHANGED <<id, old, result>>
      BY <1>6, <2>1, <3>1
    <3>3. ConnectInv' /\ ConnectOrders'
      BY <2>1, <3>1, <3>2 DEF ConnectInv, ConnectOrders, Ended, RaisedPCs
    <3> QED
      BY <1>1, <3>2, <3>3, ConnectEnough DEF ConnectPCs
  <2>2. ASSUME old \in DOMAIN nets,
               NoAnswer, \/ SetNet(old, [nets[old] EXCEPT !.priority = HIGH_PRIORITY])
                         \/ UNCHANGED supplicant
        PROVE  IInv'
    BY <1>2, <1>3, <1>4, <1>5, <2>2
  <2>3. ASSUME UNCHANGED supplicant, NoAnswer \/ (Finish("ERR") /\ UNCHANGED lost)
        PROVE  IInv'
    BY <1>3, <1>4, <1>5, <2>3
  <2> QED
    BY <1>7, <2>1, <2>2, <2>3 DEF ConLower, SetPriority, Read, Unanswered
<1>8. CASE ConRaise
  <2>1. ASSUME id \in DOMAIN nets,
               SetNet(id, [nets[id] EXCEPT !.priority = MAX_PRIORITY]),
               Goto("conDisc", id), UNCHANGED lost
        PROVE  IInv'
    <3>1. /\ IsConfig(nets') /\ IsConfig(saved') /\ conn' \in DOMAIN nets' \cup {NoId}
          /\ DOMAIN nets' = DOMAIN nets /\ nets'[id].priority = MAX_PRIORITY
          /\ \A j \in DOMAIN nets \ {id} : nets'[j] = nets[j]
      BY <1>2, <2>1
    <3>2. NetsInv' /\ cmd' = cmd /\ pc' = "conDisc" /\ UNCHANGED <<id, old, result>>
      BY <1>6, <2>1, <3>1
    <3>3. old \notin {NoId, id} => old \in DOMAIN nets /\ nets[old].priority = HIGH_PRIORITY
      BY <1>0, <1>1, <1>8 DEF ConnectInv, ConRaise
    <3>4. ConnectInv' /\ ConnectOrders'
      BY <2>1, <3>1, <3>2, <3>3 DEF ConnectInv, ConnectOrders, Ended, RaisedPCs
    <3> QED
      BY <1>1, <3>2, <3>4, ConnectEnough DEF ConnectPCs, RaisedPCs
  <2>2. ASSUME id \in DOMAIN nets,
               NoAnswer, \/ SetNet(id, [nets[id] EXCEPT !.priority = MAX_PRIORITY])
                         \/ UNCHANGED supplicant
        PROVE  IInv'
    BY <1>2, <1>3, <1>4, <1>5, <2>2
  <2>3. ASSUME UNCHANGED supplicant, NoAnswer \/ (Finish("ERR") /\ UNCHANGED lost)
        PROVE  IInv'
    BY <1>3, <1>4, <1>5, <2>3
  <2> QED
    BY <1>8, <2>1, <2>2, <2>3 DEF ConRaise, SetPriority, Read, Unanswered
<1> QED
  BY <1>7, <1>8

\* From the priorities to the end no network is changed.
LEMMA ConnectLastSteps ==
  ASSUME IInv, ConDisc \/ ConReassoc \/ ConCheck \/ ConBounce \/ ConPoll
  PROVE  IInv'
<1>0. NetsInv /\ CtlInv /\ ConnectInv /\ pc \in RaisedPCs
  BY DEF IInv, ConDisc, ConReassoc, ConCheck, ConBounce, ConPoll, RaisedPCs
<1>1. cmd.name = "connect"
  BY <1>0 DEF CtlInv, ConnectPCs, RaisedPCs
<1> DEFINE Ctl == /\ UNCHANGED <<cmd, id, old, before>> /\ lost' \in 0..MaxLost
                  /\ result' \in {"none", "SUCCESS", "ERR", "EXISTS"}
                  /\ pc' \in {"idle"} \cup RaisedPCs
           Nets == UNCHANGED <<nets, saved>> /\ conn' \in {conn, NoId}
<1>2. NoAnswer => Ctl
  BY <1>0, NoAnswerFacts DEF NetsInv, RaisedPCs
<1>3. ASSUME UNCHANGED lost, NEW res \in {"SUCCESS", "ERR"}, Finish(res)
      PROVE  Ctl
  BY <1>0, <1>3 DEF NetsInv, Finish
<1>4. ASSUME UNCHANGED lost, NEW at \in RaisedPCs, Goto(at, id)
      PROVE  Ctl
  BY <1>0, <1>4 DEF NetsInv, Goto
<1>5. \/ UNCHANGED supplicant \/ Disconnected \/ Reassociating
      \/ conn' = NoId /\ UNCHANGED <<nets, saved, auto>>
      => Nets
  BY DEF Disconnected, Reassociating
<1>6. Nets /\ Ctl
  <2>0. {"conReassoc", "conCheck", "conBounce", "conPoll"} \subseteq RaisedPCs
    BY DEF RaisedPCs
  <2> HIDE DEF Ctl, Nets
  <2>1. CASE ConDisc
    BY <1>2, <1>4, <1>5, <2>0, <2>1 DEF ConDisc, Unanswered
  <2>2. CASE ConReassoc
    BY <1>2, <1>3, <1>4, <1>5, <2>0, <2>2 DEF ConReassoc, Unanswered
  <2>3. CASE ConCheck
    BY <1>2, <1>3, <1>4, <1>5, <2>0, <2>3 DEF ConCheck, Read, Unanswered
  <2>4. CASE ConBounce
    BY <1>3, <1>4, <1>5, <2>0, <2>4 DEF ConBounce
  <2>5. CASE ConPoll
    BY <1>2, <1>3, <1>5, <2>5 DEF ConPoll, Read, Unanswered
  <2> QED
    BY <2>1, <2>2, <2>3, <2>4, <2>5
<1>7. NetsInv'
  BY <1>0, <1>6 DEF NetsInv
<1>8. ConnectInv'
  BY <1>0, <1>1, <1>6 DEF ConnectInv, RaisedPCs
<1>9. ConnectOrders'
  BY <1>0, <1>1, <1>6 DEF ConnectInv, ConnectOrders, Ended
<1> QED
  BY <1>1, <1>6, <1>7, <1>8, <1>9, ConnectEnough DEF ConnectPCs

\* What the steps of WPA_ADD have to show.
LEMMA AddEnough ==
  ASSUME IInv, cmd.name = "add", NetsInv', cmd' = cmd, pc' \in {"idle"} \cup AddPCs,
         AddInv', AddExact'
  PROVE  IInv'
<1>1. CtlInv'
  BY DEF IInv, CtlInv, AddPCs, RemovePCs, ConnectPCs, RaisedPCs
<1>2. RemoveInv' /\ ConnectInv'
  BY DEF RemoveInv, ConnectInv
<1>3. RemoveExact' /\ ConnectOrders'
  BY DEF RemoveExact, ConnectOrders, Ended
<1> QED
  BY <1>1, <1>2, <1>3 DEF IInv

\* One more network with a name nobody has leaves names apart.
LEMMA OneMoreDistinct ==
  ASSUME NEW B, NEW N, NEW n, NEW s, n \notin DOMAIN B, DOMAIN N = DOMAIN B \cup {n},
         \A i \in DOMAIN B : N[i] = B[i] /\ B[i].ssid # s,
         N[n].ssid \in {Unnamed, s}, Distinct(B)
  PROVE  Distinct(N)
BY DEF Distinct

\* An end of WPA_ADD at which the networks are as they were.
LEMMA AddEndsSame ==
  ASSUME IInv, cmd.name = "add", NetsInv', UNCHANGED <<cmd, before>>, pc' = "idle",
         result' \in {"ERR", "EXISTS"}, nets' = before
  PROVE  IInv'
<1>1. AddInv'
  BY DEF AddInv, AddPCs
<1>2. AddExact'
  BY DEF AddExact, AddAllOrNothing, AddKeepsNamesApart, Ended
<1> QED
  BY <1>1, <1>2, AddEnough

\* An end of WPA_ADD without an answer.
LEMMA AddEndsLost ==
  ASSUME IInv, cmd.name = "add", NetsInv', UNCHANGED <<cmd, before>>, pc' = "idle",
         result' = "ERR", lost' # 0, Distinct(before) => Distinct(nets')
  PROVE  IInv'
<1>1. AddInv'
  BY DEF AddInv, AddPCs
<1>2. AddExact'
  BY DEF AddExact, AddAllOrNothing, AddKeepsNamesApart, Ended
<1> QED
  BY <1>1, <1>2, AddEnough

\* A step of WPA_ADD, or one more exchange to come.
LEMMA AddGoesOn ==
  ASSUME IInv, cmd.name = "add", NetsInv', UNCHANGED <<cmd, before>>,
         pc' \in AddPCs, AddInv', Distinct(before) => Distinct(nets')
  PROVE  IInv'
<1>1. AddExact'
  BY DEF AddExact, AddAllOrNothing, AddKeepsNamesApart, Ended, AddPCs
<1> QED
  BY <1>1, AddEnough

\* The look at the list before WPA_ADD: nobody has the name.
LEMMA AddListStep ==
  ASSUME IInv, AddList
  PROVE  IInv'
<1>0. NetsInv /\ CtlInv /\ AddInv /\ pc = "addList"
  BY DEF IInv, AddList
<1>1. cmd.name = "add" /\ cmd.ssid \in SSIDs /\ nets = before
  <2>1. cmd.name = "add" /\ cmd \in Commands
    BY <1>0 DEF CtlInv, AddPCs
  <2> QED
    BY <1>0, <2>1, CommandFields DEF AddInv
<1>2. UNCHANGED supplicant
  BY DEF AddList, Read, Unanswered
<1>3. CASE NoAnswer
  <2>1. /\ UNCHANGED <<cmd, before, old>> /\ pc' = "idle" /\ result' = "ERR"
        /\ lost' \in 0..MaxLost
    BY <1>0, <1>3, NoAnswerFacts
  <2>2. NetsInv'
    BY <1>0, <1>2, <2>1 DEF NetsInv
  <2> QED
    BY <1>1, <1>2, <2>1, <2>2, AddEndsSame
<1>4. CASE Finish("EXISTS") /\ UNCHANGED lost
  <2>1. NetsInv'
    BY <1>0, <1>2, <1>4 DEF NetsInv, Finish
  <2> QED
    BY <1>1, <1>2, <1>4, <2>1, AddEndsSame DEF Finish
<1>5. CASE Match(cmd.ssid) = {} /\ Goto("addNew", NoId) /\ UNCHANGED lost
  <2>1. NetsInv'
    BY <1>0, <1>2, <1>5 DEF NetsInv, Goto
  <2>2. NameFree'
    BY <1>1, <1>5, WithinAssumption DEF NameFree, Match, Goto
  <2>3. AddInv'
    BY <1>1, <1>2, <1>5, <2>2 DEF AddInv, AddPCs, Goto
  <2> QED
    BY <1>1, <1>2, <1>5, <2>1, <2>3, AddGoesOn DEF Goto, AddPCs
<1> QED
  BY <1>3, <1>4, <1>5 DEF AddList, Read, Unanswered

\* ADD_NETWORK: one network more, without a name.
LEMMA AddNewStep ==
  ASSUME IInv, AddNew
  PROVE  IInv'
<1>0. NetsInv /\ CtlInv /\ AddInv /\ pc = "addNew"
  BY DEF IInv, AddNew
<1>1. cmd.name = "add" /\ nets = before /\ NameFree
  <2>1. cmd.name = "add"
    BY <1>0 DEF CtlInv, AddPCs
  <2> QED
    BY <1>0, <2>1 DEF AddInv, AddPCs
<1>2. ASSUME NEW n \in Ids \ DOMAIN nets, SetNet(n, NewNetwork)
      PROVE  /\ IsConfig(nets') /\ IsConfig(saved') /\ conn' \in DOMAIN nets' \cup {NoId}
             /\ DOMAIN nets' = DOMAIN before \cup {n} /\ nets'[n] = NewNetwork
             /\ \A i \in DOMAIN before : nets'[i] = before[i]
             /\ Distinct(before) => Distinct(nets')
  <2>1. NewNetwork \in Networks /\ NewNetwork.ssid = Unnamed
    BY DEF NewNetwork, Networks
  <2>2. /\ IsConfig(nets') /\ IsConfig(saved') /\ conn' \in DOMAIN nets' \cup {NoId}
        /\ DOMAIN nets' = DOMAIN before \cup {n} /\ nets'[n] = NewNetwork
        /\ \A i \in DOMAIN before : nets'[i] = before[i]
    BY <1>0, <1>1, <1>2, <2>1, SetNetFacts
  <2>3. Distinct(before) => Distinct(nets')
    BY <1>1, <1>2, <2>1, <2>2, OneMoreDistinct DEF NameFree
  <2> QED
    BY <2>2, <2>3
<1>3. ASSUME NEW n \in Ids \ DOMAIN nets, Added(n)
      PROVE  IInv'
  <2>1. /\ id' = n /\ todo' = Params(cmd.profile, cmd.psk) /\ pc' = "addSet"
        /\ UNCHANGED <<cmd, old, lost, result, before>> /\ SetNet(n, NewNetwork)
    BY <1>3 DEF Added
  <2>2. /\ IsConfig(nets') /\ IsConfig(saved') /\ conn' \in DOMAIN nets' \cup {NoId}
        /\ DOMAIN nets' = DOMAIN before \cup {n} /\ nets'[n] = NewNetwork
        /\ \A i \in DOMAIN before : nets'[i] = before[i]
        /\ Distinct(before) => Distinct(nets')
    BY <1>2, <1>3, <2>1
  <2>3. NetsInv'
    BY <1>0, <2>1, <2>2 DEF NetsInv
  <2>4. /\ todo' \in Seq(ParamNames \cup {"ssid", "rejected"}) \ {<<>>}
        /\ Head(todo') = "ssid" /\ "ssid" \in Elements(todo')
    <3>1. /\ todo' \in Seq(ParamNames \cup {"ssid", "rejected"}) \ {<<>>}
          /\ Head(todo') = "ssid"
      BY <2>1, ParamsType
    <3> QED
      BY <3>1, ElementsOfTail
  <2>5. NewNetwork.params = {} /\ NewNetwork.ssid = Unnamed
    BY DEF NewNetwork
  <2>6. Progress'
    BY <2>1, <2>2, <2>4, <2>5 DEF Progress
  <2>7. OneMore' /\ NameFree'
    BY <1>1, <1>3, <2>1, <2>2 DEF OneMore, Kept, NameFree
  <2>8. AddInv'
    BY <2>1, <2>2, <2>4, <2>5, <2>6, <2>7 DEF AddInv
  <2> QED
    BY <1>1, <2>1, <2>2, <2>3, <2>8, AddGoesOn DEF AddPCs
<1>4. ASSUME NEW n \in Ids \ DOMAIN nets, Unanswered(SetNet(n, NewNetwork))
      PROVE  IInv'
  <2>1. /\ UNCHANGED <<cmd, before, old>> /\ pc' = "idle" /\ result' = "ERR"
        /\ lost' \in 0..MaxLost /\ lost' # 0
    BY <1>0, <1>4, NoAnswerFacts DEF Unanswered
  <2>2. /\ IsConfig(nets') /\ IsConfig(saved') /\ conn' \in DOMAIN nets' \cup {NoId}
        /\ Distinct(before) => Distinct(nets')
    <3>1. CASE SetNet(n, NewNetwork)
      BY <1>2, <1>4, <3>1
    <3>2. CASE UNCHANGED supplicant
      BY <1>0, <1>1, <3>2, OtherFacts
    <3> QED
      BY <1>4, <3>1, <3>2 DEF Unanswered
  <2>3. NetsInv'
    BY <1>0, <2>1, <2>2 DEF NetsInv
  <2> QED
    BY <1>1, <2>1, <2>2, <2>3, AddEndsLost
<1>5. CASE Finish("ERR") /\ UNCHANGED <<supplicant, lost>>
  <2>1. NetsInv'
    BY <1>0, <1>5 DEF NetsInv, Finish
  <2> QED
    BY <1>1, <1>5, <2>1, AddEndsSame DEF Finish
<1> QED
  BY <1>3, <1>4, <1>5 DEF AddNew

\* One parameter that is set, as far as the invariant can tell.
LEMMA ChangedFacts ==
  ASSUME NetsInv, AddInv, CtlInv, pc = "addSet", Head(todo) # "rejected",
         SetNet(id, Changed(Head(todo)))
  PROVE  /\ IsConfig(nets') /\ IsConfig(saved') /\ conn' \in DOMAIN nets' \cup {NoId}
         /\ DOMAIN nets' = DOMAIN before \cup {id}
         /\ \A i \in DOMAIN before : nets'[i] = before[i]
         /\ nets'[id].ssid = cmd.ssid
         /\ nets'[id].params \cup {"ssid"} \cup Elements(Tail(todo))
              = Elements(Params(cmd.profile, cmd.psk))
         /\ Distinct(before) => Distinct(nets')
<1>1. cmd.name = "add" /\ cmd \in Commands
  BY DEF CtlInv, AddPCs
<1>2. /\ OneMore /\ Progress /\ NameFree
      /\ todo \in Seq(ParamNames \cup {"ssid", "rejected"}) \ {<<>>}
  BY <1>1 DEF AddInv, AddPCs
<1>3. cmd.ssid \in SSIDs
  BY <1>1, CommandFields
<1>4. id \in Ids /\ id \in DOMAIN nets /\ nets[id] \in Networks
  BY <1>2 DEF OneMore, NetsInv, IsConfig
<1>5. /\ Head(todo) \in ParamNames \cup {"ssid"}
      /\ Elements(todo) = {Head(todo)} \cup Elements(Tail(todo))
  BY <1>2, HeadTailProperties, ElementsOfTail
<1> DEFINE net == Changed(Head(todo))
<1>6. /\ net \in Networks /\ net.ssid = cmd.ssid
      /\ net.params \cup {"ssid"} = nets[id].params \cup {"ssid", Head(todo)}
  <2>1. CASE Head(todo) = "ssid"
    <3>1. net = [nets[id] EXCEPT !.ssid = cmd.ssid]
      BY <2>1 DEF Changed
    <3> QED
      BY <1>3, <1>4, <2>1, <3>1 DEF Networks
  <2>2. CASE Head(todo) # "ssid"
    <3>1. net = [nets[id] EXCEPT !.params = @ \cup {Head(todo)}]
      BY <2>2 DEF Changed
    <3>2. nets[id].ssid = cmd.ssid
      BY <1>2, <2>2 DEF Progress
    <3> QED
      BY <1>4, <1>5, <2>2, <3>1, <3>2 DEF Networks
  <2> QED
    BY <2>1, <2>2
<1> HIDE DEF net
<1>7. SetNet(id, net)
  BY DEF net
<1>8. /\ IsConfig(nets') /\ IsConfig(saved') /\ conn' \in DOMAIN nets' \cup {NoId}
      /\ DOMAIN nets' = DOMAIN nets \cup {id} /\ nets'[id] = net
      /\ \A j \in DOMAIN nets \ {id} : nets'[j] = nets[j]
  BY <1>4, <1>6, <1>7, SetNetFacts
<1>9. /\ DOMAIN nets' = DOMAIN before \cup {id}
      /\ \A i \in DOMAIN before : nets'[i] = before[i]
  BY <1>2, <1>8 DEF OneMore, Kept
<1>10. nets'[id].params \cup {"ssid"} \cup Elements(Tail(todo))
         = Elements(Params(cmd.profile, cmd.psk))
  BY <1>2, <1>5, <1>6, <1>8 DEF Progress
<1>11. Distinct(before) => Distinct(nets')
  BY <1>2, <1>6, <1>8, <1>9, OneMoreDistinct DEF NameFree, OneMore
<1> QED
  BY <1>6, <1>8, <1>9, <1>10, <1>11

\* setNetworkParam() in WPA_ADD: taken, refused or not answered.
LEMMA AddSetStep ==
  ASSUME IInv, AddSet
  PROVE  IInv'
<1>0. NetsInv /\ CtlInv /\ AddInv /\ pc = "addSet"
  BY DEF IInv, AddSet
<1>1. cmd.name = "add"
  BY <1>0 DEF CtlInv, AddPCs
<1>2. /\ OneMore /\ NameFree /\ nets[id].ssid \in {Unnamed, cmd.ssid}
      /\ todo \in Seq(ParamNames \cup {"ssid", "rejected"}) \ {<<>>}
  BY <1>0, <1>1 DEF AddInv, AddPCs
<1>3. Distinct(before) => Distinct(nets)
  BY <1>2, OneMoreDistinct DEF OneMore, NameFree, Kept
<1>4. CASE /\ Head(todo) # "rejected"
           /\ SetNet(id, Changed(Head(todo)))
           /\ todo' = Tail(todo)
           /\ pc' = IF todo' = <<>> THEN "addCheck" ELSE "addSet"
           /\ UNCHANGED <<cmd, id, old, lost, result, before, cmds>>
  <2>1. /\ IsConfig(nets') /\ IsConfig(saved') /\ conn' \in DOMAIN nets' \cup {NoId}
        /\ DOMAIN nets' = DOMAIN before \cup {id}
        /\ \A i \in DOMAIN before : nets'[i] = before[i]
        /\ nets'[id].ssid = cmd.ssid
        /\ nets'[id].params \cup {"ssid"} \cup Elements(Tail(todo))
              = Elements(Params(cmd.profile, cmd.psk))
        /\ Distinct(before) => Distinct(nets')
    BY <1>0, <1>4, ChangedFacts
  <2>2. NetsInv'
    BY <1>0, <1>4, <2>1 DEF NetsInv
  <2>3. OneMore' /\ NameFree' /\ Progress'
    BY <1>2, <1>4, <2>1 DEF OneMore, Kept, NameFree, Progress
  <2>4. todo' \in Seq(ParamNames \cup {"ssid", "rejected"})
    BY <1>2, <1>4, HeadTailProperties
  <2>5. AddInv'
    BY <1>4, <2>1, <2>3, <2>4 DEF AddInv
  <2> QED
    BY <1>1, <1>4, <2>1, <2>2, <2>5, AddGoesOn DEF AddPCs
<1>5. CASE ParamRefused /\ UNCHANGED <<supplicant, lost>>
  <2>1. pc' = "addUndo" /\ UNCHANGED <<cmd, id, old, result, before>>
    BY <1>5 DEF ParamRefused, Goto
  <2>2. NetsInv'
    BY <1>0, <1>5, <2>1 DEF NetsInv
  <2>3. OneMore' /\ NameFree'
    BY <1>2, <1>5, <2>1 DEF OneMore, Kept, NameFree
  <2>4. AddInv'
    BY <1>2, <1>5, <2>1, <2>3 DEF AddInv
  <2> QED
    BY <1>1, <1>3, <1>5, <2>1, <2>2, <2>4, AddGoesOn DEF AddPCs
<1>6. CASE Head(todo) # "rejected" /\ Unanswered(SetNet(id, Changed(Head(todo))))
  <2>1. /\ pc' = "addUndo" /\ UNCHANGED <<cmd, id, old, result, before>>
        /\ lost' \in 0..MaxLost
    BY <1>0, <1>6, NoAnswerFacts DEF Unanswered
  <2>2. /\ IsConfig(nets') /\ IsConfig(saved') /\ conn' \in DOMAIN nets' \cup {NoId}
        /\ DOMAIN nets' = DOMAIN before \cup {id}
        /\ \A i \in DOMAIN before : nets'[i] = before[i]
        /\ nets'[id].ssid \in {Unnamed, cmd.ssid}
        /\ Distinct(before) => Distinct(nets')
    <3>1. CASE SetNet(id, Changed(Head(todo)))
      BY <1>0, <1>6, <3>1, ChangedFacts
    <3>2. CASE UNCHANGED supplicant
      BY <1>0, <1>2, <1>3, <3>2, OtherFacts DEF OneMore, Kept
    <3> QED
      BY <1>6, <3>1, <3>2 DEF Unanswered
  <2>3. NetsInv'
    BY <1>0, <2>1, <2>2 DEF NetsInv
  <2>4. OneMore' /\ NameFree'
    BY <1>2, <2>1, <2>2 DEF OneMore, Kept, NameFree
  <2>5. AddInv'
    BY <2>1, <2>2, <2>4 DEF AddInv
  <2> QED
    BY <1>1, <2>1, <2>2, <2>3, <2>5, AddGoesOn DEF AddPCs
<1> QED
  BY <1>4, <1>5, <1>6 DEF AddSet

\* removeNetwork() after a parameter that was not set.
LEMMA AddUndoStep ==
  ASSUME IInv, AddUndo
  PROVE  IInv'
<1>0. NetsInv /\ CtlInv /\ AddInv /\ pc = "addUndo"
  BY DEF IInv, AddUndo
<1>1. cmd.name = "add"
  BY <1>0 DEF CtlInv, AddPCs
<1>2. OneMore /\ NameFree /\ nets[id].ssid \in {Unnamed, cmd.ssid}
  BY <1>0, <1>1 DEF AddInv, AddPCs
<1>3. Distinct(before) => Distinct(nets)
  BY <1>2, OneMoreDistinct DEF OneMore, NameFree, Kept
<1>4. ASSUME RemoveNet(id)
      PROVE  /\ IsConfig(nets') /\ IsConfig(saved') /\ conn' \in DOMAIN nets' \cup {NoId}
             /\ nets' = before
  <2>1. /\ IsConfig(nets') /\ IsConfig(saved') /\ conn' \in DOMAIN nets' \cup {NoId}
        /\ DOMAIN nets' = DOMAIN nets \ {id}
        /\ \A j \in DOMAIN nets \ {id} : nets'[j] = nets[j]
    BY <1>0, <1>4, RemoveNetFacts
  <2>2. DOMAIN nets' = DOMAIN before /\ \A j \in DOMAIN before : nets'[j] = before[j]
    BY <1>2, <2>1 DEF OneMore, Kept
  <2>3. IsConfig(before)
    BY <1>0 DEF NetsInv
  <2> QED
    BY <2>1, <2>2, <2>3 DEF IsConfig
<1>5. CASE RemoveNet(id) /\ Finish("ERR") /\ UNCHANGED lost
  <2>1. NetsInv'
    BY <1>0, <1>4, <1>5 DEF NetsInv, Finish
  <2> QED
    BY <1>1, <1>4, <1>5, <2>1, AddEndsSame DEF Finish
<1>6. CASE Unanswered(RemoveNet(id))
  <2>1. /\ UNCHANGED <<cmd, before, old>> /\ pc' = "idle" /\ result' = "ERR"
        /\ lost' \in 0..MaxLost /\ lost' # 0
    BY <1>0, <1>6, NoAnswerFacts DEF Unanswered
  <2>2. /\ IsConfig(nets') /\ IsConfig(saved') /\ conn' \in DOMAIN nets' \cup {NoId}
        /\ Distinct(before) => Distinct(nets')
    <3>1. CASE RemoveNet(id)
      BY <1>4, <3>1
    <3>2. CASE UNCHANGED supplicant
      BY <1>0, <1>3, <3>2, OtherFacts
    <3> QED
      BY <1>6, <3>1, <3>2 DEF Unanswered
  <2>3. NetsInv'
    BY <1>0, <2>1, <2>2 DEF NetsInv
  <2> QED
    BY <1>1, <2>1, <2>2, <2>3, AddEndsLost
<1> QED
  BY <1>5, <1>6 DEF AddUndo

\* The look at the list after WPA_ADD finds the name, for it is there.
LEMMA AddCheckStep ==
  ASSUME IInv, AddCheck
  PROVE  IInv'
<1>0. NetsInv /\ CtlInv /\ AddInv /\ pc = "addCheck"
  BY DEF IInv, AddCheck
<1>1. cmd.name = "add" /\ cmd.ssid \in SSIDs
  <2>1. cmd.name = "add" /\ cmd \in Commands
    BY <1>0 DEF CtlInv, AddPCs
  <2> QED
    BY <2>1, CommandFields
<1>2. OneMore /\ NameFree /\ Progress /\ todo = <<>>
  BY <1>0, <1>1 DEF AddInv, AddPCs
<1>3. nets[id].ssid = cmd.ssid
  BY <1>2 DEF Progress
<1>4. Distinct(before) => Distinct(nets)
  BY <1>2, <1>3, OneMoreDistinct DEF OneMore, NameFree, Kept
<1>5. Match(cmd.ssid) # {}
  BY <1>1, <1>2, <1>3, WithinAssumption DEF Match, OneMore
<1>6. UNCHANGED supplicant
  BY DEF AddCheck, Read, Unanswered
<1>7. CASE Finish("SUCCESS") /\ UNCHANGED lost
  <2>1. pc' = "idle" /\ result' = "SUCCESS" /\ UNCHANGED <<cmd, old, before>>
    BY <1>7 DEF Finish
  <2>2. NetsInv'
    BY <1>0, <1>6, <1>7, <2>1 DEF NetsInv
  <2>3. nets[id].params \cup {"ssid"} = Elements(Params(cmd.profile, cmd.psk))
    <3>1. Elements(<<>>) = {}
      BY DEF Elements
    <3> QED
      BY <1>2, <3>1 DEF Progress
  <2>4. AddAllOrNothing'
    BY <1>2, <1>3, <1>6, <2>1, <2>3 DEF AddAllOrNothing, Ended, OneMore, Kept
  <2>5. AddKeepsNamesApart'
    BY <1>4, <1>6, <2>1 DEF AddKeepsNamesApart
  <2>6. AddInv'
    BY <2>1 DEF AddInv, AddPCs
  <2> QED
    BY <1>1, <2>1, <2>2, <2>4, <2>5, <2>6, AddEnough DEF AddExact
<1>8. CASE NoAnswer
  <2>1. /\ UNCHANGED <<cmd, before, old>> /\ pc' = "idle" /\ result' = "ERR"
        /\ lost' \in 0..MaxLost /\ lost' # 0
    BY <1>0, <1>8, NoAnswerFacts
  <2>2. NetsInv'
    BY <1>0, <1>6, <2>1 DEF NetsInv
  <2> QED
    BY <1>1, <1>4, <1>6, <2>1, <2>2, AddEndsLost
<1> QED
  BY <1>5, <1>7, <1>8 DEF AddCheck, Read, Unanswered

-----------------------------------------------------------------------------
(* The theorems                                                            *)

\* The invariant holds for every configuration wpa_supplicant may start with.
LEMMA IInvInit == Init => IInv
<1> SUFFICES ASSUME Init PROVE IInv
  OBVIOUS
<1>1. IsConfig(nets)
  <2>1. PICK ids \in SUBSET Ids : \E name \in [ids -> SSIDs] :
          nets = [i \in ids |-> [ssid |-> name[i], priority |-> 0,
                                 params |-> {"psk"}, enabled |-> TRUE]]
    BY DEF Init
  <2>2. PICK name \in [ids -> SSIDs] :
          nets = [i \in ids |-> [ssid |-> name[i], priority |-> 0,
                                 params |-> {"psk"}, enabled |-> TRUE]]
    BY <2>1
  <2>3. \A i \in ids : [ssid |-> name[i], priority |-> 0,
                        params |-> {"psk"}, enabled |-> TRUE] \in Networks
    BY DEF Networks, ParamNames
  <2> QED
    BY <2>2, <2>3 DEF IsConfig
<1>2. NetsInv
  BY <1>1, BoundsAssumption DEF Init, NetsInv
<1>3. pc = "idle" /\ cmd.name = "none"
  BY DEF Init, Command
<1>4. CtlInv /\ AddInv /\ RemoveInv /\ ConnectInv
  BY <1>3 DEF CtlInv, AddInv, RemoveInv, ConnectInv, AddPCs, RemovePCs, ConnectPCs, RaisedPCs
<1>5. AddExact /\ RemoveExact /\ ConnectOrders
  BY <1>3 DEF AddExact, AddAllOrNothing, AddKeepsNamesApart, RemoveExact, ConnectOrders, Ended
<1> QED
  BY <1>2, <1>4, <1>5 DEF IInv

\* Every step keeps it.
LEMMA IInvNext == IInv /\ [Next]_vars => IInv'
<1> SUFFICES ASSUME IInv, [Next]_vars PROVE IInv'
  OBVIOUS
<1>1. CASE Add
  BY <1>1, AddListStep, AddNewStep, AddSetStep, AddUndoStep, AddCheckStep DEF Add
<1>2. CASE Remove
  <2>1. FindNet => pc \in {"remFind", "conFind"}
    BY DEF FindNet
  <2> QED
    BY <1>2, <2>1, RemoveStep, ConnectFirstSteps DEF Remove
<1>3. CASE Connect
  BY <1>3, ConnectFirstSteps, PriorityStep, ConnectLastSteps DEF Connect
<1> QED
  BY <1>1, <1>2, <1>3, SupplicantStep, BeginStep, SimpleStep DEF Next

\* The inductive invariant of the commands that change networks.
THEOREM Invariance == Spec => []IInv
BY IInvInit, IInvNext, PTL DEF Spec

\* A network is connected or edited only while it is configured.
THEOREM TypeCorrect == Spec => []TypeOK
<1>1. IInv => TypeOK
  <2> SUFFICES ASSUME IInv PROVE TypeOK
    OBVIOUS
  <2>1. NetsInv /\ CtlInv /\ AddInv
    BY DEF IInv
  <2>2. pc \in {"addSet", "addUndo", "addCheck"} => id \in DOMAIN nets
    BY <2>1 DEF CtlInv, AddInv, OneMore, AddPCs
  <2> QED
    BY <2>1, <2>2 DEF NetsInv, IsConfig, TypeOK
<1> QED
  BY <1>1, Invariance, PTL

\* WPA_ADD is all or nothing and makes no second network of a name.
THEOREM AddIsExact == Spec => []AddExact
<1>1. IInv => AddExact
  BY DEF IInv
<1> QED
  BY <1>1, Invariance, PTL

\* WPA_REMOVE by id removes the network of that id and no other.
THEOREM RemoveIsExact == Spec => []RemoveExact
<1>1. IInv => RemoveExact
  BY DEF IInv
<1> QED
  BY <1>1, Invariance, PTL

\* A successful WPA_CONNECT leaves the priorities in order.
THEOREM ConnectSetsPriorities == Spec => []ConnectOrders
<1>1. IInv => ConnectOrders
  BY DEF IInv
<1> QED
  BY <1>1, Invariance, PTL

=============================================================================
