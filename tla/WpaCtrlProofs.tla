--------------------------- MODULE WpaCtrlProofs ---------------------------
(***************************************************************************)
(* WPA_SELECT tells the truth and WPA_SCAN restores the networks, for any  *)
(* number of commands, events and restarts of wpa_supplicant.              *)
(***************************************************************************)
EXTENDS WpaCtrl, SequenceTheorems, TLAPS

USE DEF worker, supplicant

-----------------------------------------------------------------------------
(* Messages and sockets                                                    *)

\* What is at the places of a sequence with one more element.
LEMMA AppendPlaces ==
    ASSUME NEW S, NEW s \in Seq(S), NEW e \in S
    PROVE  /\ Append(s, e) \in Seq(S)
           /\ \A k \in DOMAIN s : k \in DOMAIN Append(s, e) /\ Append(s, e)[k] = s[k]
           /\ Len(s) + 1 \in DOMAIN Append(s, e) /\ Append(s, e)[Len(s) + 1] = e
           /\ \A k \in DOMAIN Append(s, e) :
                 \/ k \in DOMAIN s /\ Append(s, e)[k] = s[k]
                 \/ k = Len(s) + 1 /\ Append(s, e)[k] = e
OBVIOUS

\* What is at the places of a sequence without its first element.
LEMMA TailPlaces ==
    ASSUME NEW S, NEW s \in Seq(S), s # <<>>
    PROVE  /\ Tail(s) \in Seq(S) /\ Head(s) \in S /\ Head(s) = s[1] /\ 1 \in DOMAIN s
           /\ \A k \in DOMAIN Tail(s) : k + 1 \in DOMAIN s /\ k + 1 > 1 /\ Tail(s)[k] = s[k + 1]
           /\ \A k \in DOMAIN s : k > 1 => k - 1 \in DOMAIN Tail(s) /\ Tail(s)[k - 1] = s[k]
OBVIOUS

\* The messages that wpa_supplicant sends.
LEMMA MessageTypes ==
    /\ \A e \in Events : Event(e) \in Messages /\ Event(e).event = e /\ Event(e).says = "none"
    /\ \A r \in Requests, s \in Says :
          Reply(r, s) \in Messages /\ Reply(r, s).event = "none" /\ Reply(r, s).says = s
    /\ Nothing \in Messages
BY DEF Event, Reply, Nothing, Messages, Events, Requests, Says

Open == {"attach", "request", "reply", "event"}   \* with a socket

\* What Handle does to the socket: one reply more, if there is a socket; and to
\* the networks.
Delivered(m) == inbox' = IF sockOpen THEN Append(inbox, m) ELSE inbox
Lists(r) == CASE r = "FLUSH" -> "flushed" [] r = "RECONFIGURE" -> "loaded" [] OTHER -> networks
Lasts == conn' \in {conn, "none"} /\ (wasMine => wasMine') /\ wasMine' \in BOOLEAN

\* wpa_supplicant deals with the first request.
LEMMA HandleFrame ==
    ASSUME TypeOK, Handle
    PROVE  /\ up /\ queue # <<>> /\ queue' = Tail(queue)
           /\ \E m \in Messages :
                m.event = "none" /\ (m.says = "mine" => conn = "mine") /\ Delivered(m)
           /\ networks' = Lists(Head(queue)) /\ Lasts
           /\ attached' \in {attached, TRUE} /\ scanning' \in {scanning, TRUE}
           /\ UNCHANGED <<worker, linked, late, up, events, stops>>
<1> DEFINE r == Head(queue)
           Sent == \E m \in Messages :
                     m.event = "none" /\ (m.says = "mine" => conn = "mine") /\ Delivered(m)
           Rest == /\ networks' = Lists(r) /\ Lasts
                   /\ attached' \in {attached, TRUE} /\ scanning' \in {scanning, TRUE}
<1>1. /\ up /\ queue # <<>> /\ queue' = Tail(queue)
      /\ UNCHANGED <<worker, linked, late, up, events, stops>>
  BY DEF Handle
<1>2. r \in Requests
  BY <1>1 DEF TypeOK
<1>3. wasMine \in BOOLEAN /\ conn \in {"none", "mine", "other"}
  BY DEF TypeOK
<1>4. ASSUME NEW s \in Says, s = "mine" => conn = "mine", Deliver(Reply(r, s)) PROVE Sent
  <2>1. Reply(r, s) \in Messages /\ Reply(r, s).event = "none" /\ Reply(r, s).says = s
    BY <1>2, MessageTypes
  <2> QED  BY <1>4, <2>1 DEF Deliver, Delivered
<1>5. {"OK", "FAIL", "FAIL-BUSY", "table", "disconnected", "mine", "other"} \subseteq Says
  BY DEF Says
<1>6. \A c : Connection(c) <=> (conn' = c /\ wasMine' = (wasMine \/ c = "mine"))
  BY DEF Connection
<1> HIDE DEF r, Sent
<1>7. ASSUME r = "ATTACH" PROVE Sent /\ Rest
  BY <1>3, <1>4, <1>5, <1>7 DEF Handle, r, Lists, Lasts
<1>8. ASSUME r = "STATUS" PROVE Sent /\ Rest
  BY <1>3, <1>4, <1>5, <1>8 DEF Handle, r, Lists, Lasts
<1>9. ASSUME r = "REASSOCIATE" \/ r = "SELECT" PROVE Sent /\ Rest
  BY <1>3, <1>4, <1>5, <1>6, <1>9 DEF Handle, r, Lists, Lasts
<1>10. ASSUME r = "SCAN" PROVE Sent /\ Rest
  BY <1>3, <1>4, <1>5, <1>10 DEF Handle, r, Lists, Lasts
<1>11. ASSUME r = "SCAN_RESULTS" PROVE Sent /\ Rest
  BY <1>3, <1>4, <1>5, <1>11 DEF Handle, r, Lists, Lasts
<1>12. ASSUME r = "FLUSH" PROVE Sent /\ Rest
  BY <1>3, <1>4, <1>5, <1>6, <1>12 DEF Handle, r, Lists, Lasts
<1>13. ASSUME r = "RECONFIGURE" PROVE Sent /\ Rest
  BY <1>3, <1>4, <1>5, <1>13 DEF Handle, r, Lists, Lasts
<1>14. Sent /\ Rest
  BY <1>2, <1>7, <1>8, <1>9, <1>10, <1>11, <1>12, <1>13 DEF Requests
<1> QED  BY <1>1, <1>14 DEF r, Sent

\* What all steps of wpa_supplicant have in common.
Env ==
    /\ UNCHANGED <<worker, late>> /\ (linked' => linked)
    /\ \/ inbox' = inbox
       \/ \E m \in Messages : sockOpen /\ inbox' = Append(inbox, m) /\ (m.says = "mine" => conn = "mine")
    /\ conn' = "mine" => conn = "mine" \/ wasMine'
    /\ wasMine => wasMine'

\* An event on its own, or the end of a scan.
LEMMA HappensFrame ==
    ASSUME TypeOK, Happens
    PROVE  /\ Env /\ up /\ UNCHANGED <<linked, up, queue, attached, networks, stops>>
           /\ events' = events + 1 /\ events < MaxEvents
           /\ scanning' \in BOOLEAN /\ conn' \in {"none", "mine", "other"} /\ wasMine' \in BOOLEAN
<1>1. \A e \in Events : Event(e) \in Messages /\ Event(e).says = "none"
  BY MessageTypes
<1>2. ASSUME NEW e \in Events, Emit(e)
      PROVE  \/ inbox' = inbox
             \/ \E m \in Messages : sockOpen /\ inbox' = Append(inbox, m) /\ (m.says = "mine" => conn = "mine")
  BY <1>1, <1>2 DEF Emit, Deliver
<1>3. {"scan-results", "scan-failed", "connected", "not-connected"} \subseteq Events
  BY DEF Events
<1>4. wasMine \in BOOLEAN /\ scanning \in BOOLEAN /\ conn \in {"none", "mine", "other"}
  BY DEF TypeOK
<1>5. /\ up /\ UNCHANGED <<worker, late, linked, up, queue, attached, networks, stops>>
      /\ events' = events + 1 /\ events < MaxEvents
  BY DEF Happens
<1>6. \/ inbox' = inbox
      \/ \E m \in Messages : sockOpen /\ inbox' = Append(inbox, m) /\ (m.says = "mine" => conn = "mine")
  BY <1>2, <1>3 DEF Happens
<1>7. /\ scanning' \in BOOLEAN /\ conn' \in {"none", "mine", "other"} /\ wasMine' \in BOOLEAN
      /\ conn' = "mine" => conn = "mine" \/ wasMine'
      /\ wasMine => wasMine'
  BY <1>4 DEF Happens, Connection
<1> QED  BY <1>5, <1>6, <1>7 DEF Env

\* wpa_supplicant does nothing else.
LEMMA EnvSteps ==
    ASSUME TypeOK, Handle \/ Happens \/ Stop \/ Start
    PROVE  Env
<1>1. CASE Handle
  <2>1. PICK m \in Messages : (m.says = "mine" => conn = "mine") /\ Delivered(m)
    BY <1>1, HandleFrame
  <2>2. UNCHANGED <<worker, late, linked>> /\ Lasts
    BY <1>1, HandleFrame
  <2> QED  BY <2>1, <2>2 DEF Env, Delivered, Lasts
<1>2. CASE Stop
  BY <1>2 DEF Stop, Connection, Env
<1>3. CASE Start
  BY <1>3 DEF Start, Env
<1> QED  BY <1>1, <1>2, <1>3, HappensFrame

\* The steps in which the worker reads its socket: the command ends; it goes on
\* with another socket; or with the same one.
Ended ==
    /\ pc' = "idle" /\ UNCHANGED <<style, step>>
    /\ result' \in {"SUCCESS", "ERR"} /\ got' \in Messages
    /\ result' = "SUCCESS" /\ cmd = "select" => \E k \in DOMAIN inbox : inbox[k].says = "mine"
    /\ sockOpen' = FALSE /\ sockFile' \in BOOLEAN /\ inbox' = <<>>
Rebinds ==
    /\ pc' = "bind" /\ cmd # "scan" /\ step' \in {"STATUS", "SELECT"}
    /\ style' \in {"once", "object"} /\ UNCHANGED <<result, got>>
    /\ sockOpen' = FALSE /\ sockFile' \in BOOLEAN /\ inbox' = <<>>
GoesOn ==
    /\ pc' \in {"request", "reply", "event"}
    /\ step' \in Requests /\ (step' \in {"FLUSH", "RECONFIGURE"} => cmd = "scan")
    /\ inbox' = inbox \/ (inbox # <<>> /\ inbox' = Tail(inbox))
    /\ UNCHANGED <<style, result, got, sockFile, sockOpen>>

\* The actions that do so.
Reads ==
    \/ SkipEvent \/ NoReply \/ OnceReply \/ ReassocReply \/ ReassocEvent
    \/ SelectReply \/ SelectEvent \/ ScanReply \/ ScanEvent \/ ResetEvent

\* They do nothing else.
LEMMA ReadSteps ==
    ASSUME TypeOK, StepInv, Reads
    PROVE  /\ pc \in {"reply", "event"} /\ Local
           /\ Ended \/ Rebinds \/ GoesOn
           /\ reset' \in BOOLEAN /\ retry' \in 0 .. SCAN_MAX_RETRIES + 1
           /\ pc' # "idle" => retry' <= SCAN_MAX_RETRIES
<1>0. /\ retry \in 0 .. SCAN_MAX_RETRIES + 1 /\ reset \in BOOLEAN
      /\ sockFile \in BOOLEAN /\ inbox \in Seq(Messages)
      /\ pc # "idle" => /\ retry <= SCAN_MAX_RETRIES /\ step \in Requests
                        /\ cmd = "scan" => style = "object"
                        /\ step \in {"FLUSH", "RECONFIGURE"} => cmd = "scan"
  BY DEF TypeOK, StepInv
<1>1. Nothing \in Messages
  BY MessageTypes
<1>2. {"STATUS", "SELECT", "SCAN", "SCAN_RESULTS", "FLUSH", "RECONFIGURE"} \subseteq Requests
  BY DEF Requests
<1>3. ASSUME NEW r, IsReply(r)
      PROVE  /\ pc = "reply" /\ inbox # <<>> /\ r \in Messages
             /\ 1 \in DOMAIN inbox /\ r = inbox[1]
  BY <1>0, <1>3, TailPlaces DEF IsReply
<1> DEFINE Rest == pc \in {"reply", "event"} /\ Local
           Counted == /\ reset' \in BOOLEAN /\ retry' \in 0 .. SCAN_MAX_RETRIES + 1
                      /\ pc' # "idle" => retry' <= SCAN_MAX_RETRIES
<1>s. pc # "idle" /\ retry' = retry /\ reset' \in BOOLEAN => Counted
  BY <1>0
<1>r. pc # "idle" /\ Release /\ ReturnFalse => Ended \/ Rebinds
  BY <1>0, <1>1 DEF Release, Socket, ReturnFalse, Exchange, Finish, Ended, Rebinds
<1>l. pc # "idle" /\ Leak /\ ReturnFalse => Ended \/ Rebinds
  BY <1>0, <1>1 DEF Leak, Socket, ReturnFalse, Exchange, Finish, Ended, Rebinds
<1>f. \A m \in Messages : Release /\ Finish("ERR", m) => Ended
  BY DEF Release, Socket, Finish, Ended
<1>k. ASSUME NEW q \in Requests, NEW l \in {"request", "reply", "event"},
             q \in {"FLUSH", "RECONFIGURE"} => cmd = "scan", Exchange(style, q, l),
             (inbox # <<>> /\ Keep) \/ UNCHANGED <<sockFile, sockOpen, inbox>>
      PROVE  GoesOn
  BY <1>k DEF Exchange, Keep, GoesOn
<1>4. ASSUME SkipEvent PROVE Rest /\ GoesOn /\ Counted
  BY <1>0, <1>4, <1>s DEF SkipEvent, GoesOn, Scan
<1>5. ASSUME NoReply PROVE Rest /\ (Ended \/ Rebinds) /\ Counted
  BY <1>0, <1>5, <1>r, <1>l, <1>s DEF NoReply, Scan
<1>6. ASSUME OnceReply PROVE Rest /\ (Ended \/ Rebinds) /\ Counted
  <2>1. PICK r \in Messages :
        /\ IsReply(r)
        /\ \/ cmd = "select" /\ r.says # "mine" /\ Exchange("object", "SELECT", "bind")
           \/ cmd = "select" /\ r.says = "mine" /\ Finish("SUCCESS", r)
           \/ cmd = "status" /\ Finish("SUCCESS", r)
           \/ cmd = "reassoc" /\ Finish(IF r.says \in {"mine", "other"}
                                        THEN "SUCCESS" ELSE "ERR", r)
    BY <1>6 DEF OnceReply
  <2>2. pc = "reply" /\ 1 \in DOMAIN inbox /\ r = inbox[1]
    BY <1>3, <2>1
  <2>3. Release /\ Local /\ Scan
    BY <1>6 DEF OnceReply
  <2>4. Ended \/ Rebinds
    BY <2>1, <2>2, <2>3 DEF Release, Socket, Exchange, Finish, Ended, Rebinds
  <2> QED  BY <1>0, <2>2, <2>3, <2>4, <1>s DEF Scan
<1>7. ASSUME ReassocReply PROVE Rest /\ (Ended \/ Rebinds \/ GoesOn) /\ Counted
  <2>1. PICK r \in Messages :
        /\ IsReply(r)
        /\ IF r.says = "OK" THEN Exchange("wait", step, "event") /\ Keep
                            ELSE ReturnFalse /\ Release
    BY <1>7 DEF ReassocReply
  <2>2. style = "wait" /\ Local /\ Scan
    BY <1>7 DEF ReassocReply
  <2>3. pc = "reply" /\ inbox # <<>>
    BY <1>3, <2>1
  <2>4. Ended \/ Rebinds \/ GoesOn
    BY <1>0, <1>r, <1>k, <2>1, <2>2, <2>3
  <2> QED  BY <1>0, <1>s, <2>2, <2>3, <2>4 DEF Scan
<1>8. ASSUME ReassocEvent PROVE Rest /\ (Ended \/ Rebinds \/ GoesOn) /\ Counted
  <2>1. pc = "event" /\ Local /\ Scan
    BY <1>8 DEF ReassocEvent
  <2>2. Ended \/ Rebinds \/ GoesOn
    BY <1>0, <1>8, <1>r, <1>k DEF ReassocEvent
  <2> QED  BY <1>0, <1>s, <2>1, <2>2 DEF Scan
<1>9. ASSUME SelectReply PROVE Rest /\ (Ended \/ GoesOn) /\ Counted
  <2>1. PICK r \in Messages :
        /\ IsReply(r)
        /\ \/ /\ step = "SELECT" /\ r.says = "OK"
              /\ Exchange(style, step, "event") /\ Keep
           \/ /\ step = "SELECT" /\ r.says # "OK"
              /\ Finish("ERR", Nothing) /\ Release
           \/ /\ step = "STATUS"
              /\ Finish(IF r.says = "mine" THEN "SUCCESS" ELSE "ERR", r) /\ Release
    BY <1>9 DEF SelectReply
  <2>2. Local /\ Scan
    BY <1>9 DEF SelectReply
  <2>3. pc = "reply" /\ inbox # <<>> /\ 1 \in DOMAIN inbox /\ r = inbox[1]
    BY <1>3, <2>1
  <2>4. Finish(IF r.says = "mine" THEN "SUCCESS" ELSE "ERR", r) /\ Release => Ended
    BY <2>3 DEF Finish, Release, Socket, Ended
  <2>5. Ended \/ GoesOn
    BY <1>0, <1>1, <1>f, <1>k, <2>1, <2>3, <2>4
  <2> QED  BY <1>0, <1>s, <2>2, <2>3, <2>5 DEF Scan
<1>10. ASSUME SelectEvent PROVE Rest /\ (Ended \/ GoesOn) /\ Counted
  <2>1. pc = "event" /\ Local /\ Scan
    BY <1>10 DEF SelectEvent
  <2>2. Ended \/ GoesOn
    BY <1>0, <1>1, <1>2, <1>10, <1>f, <1>k DEF SelectEvent
  <2> QED  BY <1>0, <1>s, <2>1, <2>2 DEF Scan
<1>11. ASSUME ScanReply PROVE Rest /\ (Ended \/ GoesOn) /\ Counted
  <2>1. PICK r \in Messages :
        /\ IsReply(r)
        /\ \/ /\ step = "SCAN" /\ r.says = "OK"
              /\ Exchange(style, step, "event") /\ Keep /\ UNCHANGED reset
           \/ /\ step = "SCAN" /\ r.says = "FAIL-BUSY"
              /\ reset' = TRUE
              /\ Exchange(style, "FLUSH", "request") /\ Keep
           \/ /\ step = "SCAN" /\ r.says \notin {"OK", "FAIL-BUSY"}
              /\ Finish("ERR", Nothing) /\ Release /\ UNCHANGED reset
           \/ /\ step = "FLUSH"
              /\ AfterFlush /\ Keep /\ UNCHANGED reset
           \/ /\ step = "RECONFIGURE"
              /\ Exchange(style, step, "event") /\ Keep /\ UNCHANGED reset
           \/ /\ step = "SCAN_RESULTS"
              /\ Finish("SUCCESS", r) /\ Release /\ UNCHANGED reset
    BY <1>11 DEF ScanReply
  <2>2. Local /\ retry' = retry /\ cmd = "scan" /\ reset' \in BOOLEAN
    BY <1>0, <1>11 DEF ScanReply
  <2>3. pc = "reply" /\ inbox # <<>>
    BY <1>3, <2>1
  <2>4. Finish("SUCCESS", r) /\ Release => Ended
    BY <2>2 DEF Finish, Release, Socket, Ended
  <2>5. Ended \/ GoesOn
    BY <1>0, <1>1, <1>2, <1>f, <1>k, <2>1, <2>2, <2>3, <2>4 DEF AfterFlush
  <2> QED  BY <1>s, <2>2, <2>3, <2>5
<1>12. ASSUME ScanEvent PROVE Rest /\ (Ended \/ GoesOn) /\ Counted
  <2>1. pc = "event" /\ Local /\ retry' = retry /\ cmd = "scan" /\ reset' \in BOOLEAN
    BY <1>0, <1>12 DEF ScanEvent
  <2>2. Ended \/ GoesOn
    BY <1>0, <1>1, <1>2, <1>12, <1>f, <1>k DEF ScanEvent
  <2> QED  BY <1>s, <2>1, <2>2
<1>13. ASSUME ResetEvent PROVE Rest /\ (Ended \/ GoesOn) /\ Counted
  <2>1. pc = "event" /\ Local /\ cmd = "scan" /\ reset' \in BOOLEAN
    BY <1>0, <1>13 DEF ResetEvent
  <2>2. Ended \/ GoesOn
    BY <1>0, <1>1, <1>2, <1>13, <1>f, <1>k DEF ResetEvent, Retry, SendScan
  <2>3. Counted
    BY <1>0, <1>13, <2>1 DEF ResetEvent, Retry, SendScan, Exchange, Finish, SCAN_MAX_RETRIES
  <2> QED  BY <2>1, <2>2, <2>3
<1> QED
  BY <1>4, <1>5, <1>6, <1>7, <1>8, <1>9, <1>10, <1>11, <1>12, <1>13 DEF Reads

\* A request is sent, or the socket is given up.
Sends(q, l) ==
    /\ linked /\ queue' = Append(queue, q) /\ pc' = l
    /\ UNCHANGED <<style, step, result, got, sockFile, sockOpen, inbox>>
GivesUp == UNCHANGED queue /\ (Ended \/ Rebinds)

\* Attach and Request do nothing else.
LEMMA SendSteps ==
    ASSUME TypeOK, StepInv, Attach \/ Request
    PROVE  /\ \/ pc = "attach" /\ Sends("ATTACH", "request")
              \/ pc = "request" /\ Sends(step, "reply")
              \/ pc \in {"attach", "request"} /\ ~linked /\ GivesUp
           /\ UNCHANGED <<retry, reset, cmd, cmds, linked, late, wasMine, up, attached, scanning,
                          networks, conn, events, stops>>
<1>0. Nothing \in Messages /\ sockFile \in BOOLEAN
      /\ (pc # "idle" => (cmd = "scan" => style = "object"))
  BY MessageTypes DEF TypeOK, StepInv
<1>1. pc # "idle" /\ SendFails => Ended \/ Rebinds
  BY <1>0 DEF SendFails, Leak, Release, Socket, ReturnFalse, Exchange, Finish, Ended, Rebinds
<1>2. CASE Attach
  BY <1>1, <1>2 DEF Attach, Exchange, Sends, GivesUp, Scan
<1>3. CASE Request
  BY <1>1, <1>3 DEF Request, Exchange, Sends, GivesUp
<1> QED  BY <1>2, <1>3

\* bind() and connect().
LEMMA BindStep ==
    ASSUME TypeOK, StepInv, Bind
    PROVE  /\ pc = "bind" /\ inbox' = inbox /\ linked' = up
           /\ UNCHANGED <<cmd, cmds, late, wasMine, supplicant, retry, reset>>
           /\ \/ /\ pc' = "idle" /\ result' = "ERR" /\ got' \in Messages /\ UNCHANGED <<style, step>>
                 /\ sockOpen' = FALSE /\ sockFile' \in BOOLEAN
              \/ /\ pc' = "bind" /\ cmd # "scan" /\ step' = "STATUS" /\ style' = "once"
                 /\ sockOpen' = FALSE /\ sockFile' \in BOOLEAN /\ UNCHANGED <<result, got>>
              \/ /\ pc' \in {"request", "attach"} /\ sockOpen' = TRUE /\ sockFile' = TRUE
                 /\ UNCHANGED <<style, step, result, got>>
<1>0. Nothing \in Messages
  BY MessageTypes
<1>1. /\ pc = "bind" /\ linked' = up
      /\ UNCHANGED <<cmd, cmds, late, wasMine, supplicant, retry, reset>>
  BY DEF Bind, Scan
<1>2. sockFile \in BOOLEAN /\ sockOpen = FALSE /\ (cmd = "scan" => style = "object")
  BY <1>1 DEF TypeOK, StepInv
<1>3. inbox' = inbox
  BY DEF Bind
<1>4. \/ ReturnFalse /\ sockOpen' = FALSE /\ sockFile' \in BOOLEAN
      \/ /\ pc' \in {"request", "attach"} /\ sockOpen' = TRUE /\ sockFile' = TRUE
         /\ UNCHANGED <<style, step, result, got>>
  BY <1>2 DEF Bind, Socket, Exchange
<1>5. ReturnFalse =>
         \/ /\ pc' = "idle" /\ result' = "ERR" /\ got' \in Messages /\ UNCHANGED <<style, step>>
         \/ /\ pc' = "bind" /\ cmd # "scan" /\ step' = "STATUS" /\ style' = "once"
            /\ UNCHANGED <<result, got>>
  BY <1>0, <1>2 DEF ReturnFalse, Exchange, Finish
<1> QED  BY <1>1, <1>3, <1>4, <1>5

\* A new command.
LEMMA BeginStep ==
    ASSUME TypeOK, Begin
    PROVE  /\ pc = "idle" /\ pc' = "bind" /\ cmd' \in Commands
           /\ cmds < MaxCmds /\ cmds' = cmds + 1
           /\ style' \in {"once", "wait", "object"} /\ step' \in {"STATUS", "REASSOCIATE", "SCAN"}
           /\ cmd' = "scan" => style' = "object"
           /\ retry' = 0 /\ reset' = FALSE /\ wasMine' = (conn = "mine")
           /\ UNCHANGED <<result, got, sockFile, sockOpen, linked, late, inbox, supplicant>>
BY DEF Begin, Exchange

\* All steps.
LEMMA Steps ==
    ASSUME [Next]_vars
    PROVE  \/ Begin \/ Bind \/ Attach \/ Request \/ Reads
           \/ Handle \/ Happens \/ Stop \/ Start \/ UNCHANGED vars
BY DEF Next, Work, Reads, Done

-----------------------------------------------------------------------------
(* Types                                                                   *)

\* TypeOK in two parts, of the worker and of the rest.
WorkerOK ==
    /\ cmd \in Commands \cup {"none"} /\ cmds \in 0 .. MaxCmds
    /\ pc \in {"idle", "bind"} \cup Open
    /\ style \in {"once", "wait", "object"} /\ step \in Requests \cup {"none"}
    /\ retry \in 0 .. SCAN_MAX_RETRIES + 1 /\ reset \in BOOLEAN
    /\ sockFile \in BOOLEAN /\ sockOpen \in BOOLEAN
    /\ sockOpen => sockFile
    /\ sockOpen <=> pc \in Open
    /\ result \in {"none", "SUCCESS", "ERR"} /\ got \in Messages
RestOK ==
    /\ linked \in BOOLEAN /\ late \in BOOLEAN /\ wasMine \in BOOLEAN
    /\ inbox \in Seq(Messages)
    /\ up \in BOOLEAN /\ attached \in BOOLEAN /\ scanning \in BOOLEAN
    /\ queue \in Seq(Requests)
    /\ networks \in {"loaded", "flushed"} /\ conn \in {"none", "mine", "other"}
    /\ events \in 0 .. MaxEvents /\ stops \in 0 .. MaxStops

\* Together they are TypeOK.
LEMMA TypeParts == /\ TypeOK <=> WorkerOK /\ RestOK
                   /\ TypeOK' <=> WorkerOK' /\ RestOK'
<1>1. TypeOK <=> WorkerOK /\ RestOK
  BY DEF TypeOK, WorkerOK, RestOK, Open
<1>2. TypeOK' <=> WorkerOK' /\ RestOK'
  BY DEF TypeOK, WorkerOK, RestOK, Open
<1> QED  BY <1>1, <1>2

\* The worker keeps its part and its place in the command.
LEMMA WorkerNext ==
    ASSUME WorkerOK, RestOK, StepInv, [Next]_vars
    PROVE  WorkerOK' /\ StepInv'
<1>0. TypeOK
  BY TypeParts
<1>w. /\ {"STATUS", "SELECT", "REASSOCIATE", "SCAN"} \subseteq Requests
      /\ SCAN_MAX_RETRIES = 3 /\ MaxCmds \in Nat
  BY BoundsAssumption DEF Requests, SCAN_MAX_RETRIES
<1>1. CASE Begin
  <2>1. cmds' \in 0 .. MaxCmds
    BY <1>0, <1>1, <1>w, BeginStep DEF WorkerOK
  <2>2. sockOpen = FALSE /\ sockOpen' = FALSE
    BY <1>0, <1>1, BeginStep DEF WorkerOK, Open
  <2>3. WorkerOK'
    BY <1>0, <1>1, <1>w, <2>1, <2>2, BeginStep DEF WorkerOK, Open
  <2> QED  BY <1>0, <1>1, <1>w, <2>3, BeginStep DEF StepInv
<1>2. ASSUME Ended \/ Rebinds \/ GoesOn, pc \in Open, UNCHANGED <<cmd, cmds>>,
             reset' \in BOOLEAN, retry' \in 0 .. SCAN_MAX_RETRIES + 1,
             pc' # "idle" => retry' <= SCAN_MAX_RETRIES
      PROVE  WorkerOK' /\ StepInv'
  <2>1. CASE Ended
    BY <1>2, <2>1 DEF Ended, WorkerOK, StepInv, Open
  <2>2. CASE Rebinds
    BY <1>2, <1>w, <2>2 DEF Rebinds, WorkerOK, StepInv, Open
  <2>3. CASE GoesOn
    BY <1>2, <2>3 DEF GoesOn, WorkerOK, StepInv, Open
  <2> QED  BY <1>2, <2>1, <2>2, <2>3
<1>3. CASE Reads
  <2>1. UNCHANGED <<cmd, cmds>> /\ pc \in Open
    BY <1>0, <1>3, ReadSteps DEF Local, Open
  <2> QED  BY <1>0, <1>2, <1>3, <2>1, ReadSteps
<1>4. CASE Attach \/ Request
  <2>1. UNCHANGED <<retry, reset, cmd, cmds>>
    BY <1>0, <1>4, SendSteps
  <2>2. CASE pc = "attach" /\ Sends("ATTACH", "request")
    BY <2>1, <2>2 DEF Sends, WorkerOK, StepInv, Open
  <2>3. CASE pc = "request" /\ Sends(step, "reply")
    BY <2>1, <2>3 DEF Sends, WorkerOK, StepInv, Open
  <2>4. CASE pc \in {"attach", "request"} /\ GivesUp
    BY <1>2, <2>1, <2>4 DEF GivesUp, WorkerOK, StepInv, Open
  <2> QED  BY <1>0, <1>4, <2>2, <2>3, <2>4, SendSteps
<1>5. CASE Bind
  BY <1>0, <1>5, <1>w, BindStep DEF WorkerOK, StepInv, Open
<1>6. CASE Handle \/ Happens \/ Stop \/ Start
  <2>1. UNCHANGED worker
    BY <1>0, <1>6, EnvSteps DEF Env
  <2> QED  BY <2>1 DEF WorkerOK, StepInv
<1>7. CASE UNCHANGED vars
  BY <1>7 DEF vars, WorkerOK, StepInv
<1> QED  BY <1>1, <1>3, <1>4, <1>5, <1>6, <1>7, Steps

\* All keep the other.
LEMMA RestNext ==
    ASSUME WorkerOK, RestOK, StepInv, [Next]_vars
    PROVE  RestOK'
<1>0. TypeOK
  BY TypeParts
<1>1. ASSUME inbox' \in {inbox, <<>>} \/ (inbox # <<>> /\ inbox' = Tail(inbox))
      PROVE  inbox' \in Seq(Messages)
  <2>1. inbox \in Seq(Messages) /\ <<>> \in Seq(Messages)
    BY DEF RestOK
  <2>2. inbox # <<>> => Tail(inbox) \in Seq(Messages)
    BY <2>1, TailPlaces
  <2> QED  BY <1>1, <2>1, <2>2
<1>2. CASE Begin
  <2>1. wasMine' \in BOOLEAN /\ UNCHANGED <<linked, late, inbox, supplicant>>
    BY <1>0, <1>2, BeginStep
  <2> QED  BY <2>1 DEF RestOK
<1>3. CASE Reads
  <2>1. Local /\ (Ended \/ Rebinds \/ GoesOn)
    BY <1>0, <1>3, ReadSteps
  <2>2. inbox' \in Seq(Messages)
    BY <1>1, <2>1 DEF Ended, Rebinds, GoesOn
  <2> QED  BY <2>1, <2>2 DEF Local, RestOK
<1>4. CASE Attach \/ Request
  <2>1. inbox' \in Seq(Messages)
    BY <1>0, <1>1, <1>4, SendSteps DEF Sends, GivesUp, Ended, Rebinds
  <2>2. queue' \in Seq(Requests)
    <3>1. "ATTACH" \in Requests /\ queue \in Seq(Requests) /\ (pc # "idle" => step \in Requests)
      BY DEF Requests, RestOK, StepInv
    <3> QED  BY <1>0, <1>4, <3>1, SendSteps DEF Sends, GivesUp
  <2>3. UNCHANGED <<linked, late, wasMine, up, attached, scanning, networks, conn, events, stops>>
    BY <1>0, <1>4, SendSteps
  <2> QED  BY <2>1, <2>2, <2>3 DEF RestOK
<1>5. CASE Bind
  <2>1. inbox' = inbox /\ linked' = up /\ UNCHANGED <<late, wasMine, supplicant>>
    BY <1>0, <1>5, BindStep
  <2> QED  BY <2>1 DEF RestOK
<1>6. ASSUME Env PROVE inbox' \in Seq(Messages)
  <2>1. inbox \in Seq(Messages)
    BY DEF RestOK
  <2>2. \A m \in Messages : Append(inbox, m) \in Seq(Messages)
    BY <2>1, AppendPlaces
  <2> QED  BY <1>6, <2>1, <2>2 DEF Env
<1>7. CASE Handle
  <2>1. inbox' \in Seq(Messages)
    BY <1>0, <1>6, <1>7, EnvSteps
  <2>2. /\ queue # <<>> /\ queue' = Tail(queue) /\ networks' = Lists(Head(queue)) /\ Lasts
        /\ attached' \in {attached, TRUE} /\ scanning' \in {scanning, TRUE}
        /\ UNCHANGED <<linked, late, up, events, stops>>
    BY <1>0, <1>7, HandleFrame
  <2>3. queue' \in Seq(Requests) /\ networks' \in {"loaded", "flushed"}
    BY <2>2 DEF RestOK, Lists
  <2> QED  BY <2>1, <2>2, <2>3 DEF RestOK, Lasts
<1>8. CASE Happens
  <2>1. inbox' \in Seq(Messages)
    BY <1>0, <1>6, <1>8, EnvSteps
  <2>2. /\ UNCHANGED <<linked, late, up, queue, attached, networks, stops>>
        /\ events' = events + 1 /\ events < MaxEvents
        /\ scanning' \in BOOLEAN /\ conn' \in {"none", "mine", "other"} /\ wasMine' \in BOOLEAN
    BY <1>0, <1>8, HappensFrame DEF Env
  <2>3. events' \in 0 .. MaxEvents
    BY <2>2, BoundsAssumption DEF RestOK
  <2> QED  BY <2>1, <2>2, <2>3 DEF RestOK
<1>9. CASE Stop
  <2>1. queue' \in Seq(Requests) /\ stops' \in 0 .. MaxStops
    BY <1>9, BoundsAssumption DEF Stop, RestOK
  <2> QED  BY <1>9, <2>1 DEF Stop, Connection, RestOK
<1>10. CASE Start
  BY <1>10 DEF Start, RestOK
<1>11. CASE UNCHANGED vars
  BY <1>11 DEF vars, RestOK
<1> QED  BY <1>2, <1>3, <1>4, <1>5, <1>7, <1>8, <1>9, <1>10, <1>11, Steps

-----------------------------------------------------------------------------
(* WPA_SELECT                                                              *)

\* A socket is linked to the wpa_supplicant that is up, or to none.
LEMMA LinkNext ==
    ASSUME TypeOK, StepInv, LinkInv, [Next]_vars
    PROVE  LinkInv'
<1>1. CASE Begin
  BY <1>1, BeginStep DEF LinkInv
<1>2. CASE Reads
  <2>1. Local
    BY <1>2, ReadSteps
  <2> QED  BY <2>1 DEF Local, LinkInv
<1>3. CASE Attach \/ Request
  <2>1. UNCHANGED <<linked, up>> /\ (linked \/ queue' = queue)
    BY <1>3, SendSteps DEF Sends, GivesUp
  <2> QED  BY <2>1 DEF LinkInv
<1>4. CASE Bind
  BY <1>4, BindStep DEF LinkInv
<1>5. CASE Handle
  BY <1>5, HandleFrame DEF LinkInv
<1>6. CASE Happens
  BY <1>6, HappensFrame DEF LinkInv
<1>7. CASE Stop \/ Start \/ UNCHANGED vars
  BY <1>7 DEF Stop, Start, vars, LinkInv
<1> QED  BY <1>1, <1>2, <1>3, <1>4, <1>5, <1>6, <1>7, Steps

\* Only Begin starts a new account of the connection, and a STATUS that says the
\* network is up was answered while it was.
LEMMA MineNext ==
    ASSUME TypeOK, StepInv, MineInv, SelectTruthful, [Next]_vars
    PROVE  MineInv' /\ SelectTruthful'
<1>0. inbox \in Seq(Messages) /\ wasMine \in BOOLEAN
      /\ (sockOpen <=> pc \in Open) /\ sockOpen \in BOOLEAN
  BY DEF TypeOK, Open
<1>1. CASE Begin
  <2>1. /\ pc' = "bind" /\ wasMine' = (conn = "mine") /\ UNCHANGED <<sockOpen, inbox, conn>>
        /\ sockOpen = FALSE
    BY <1>0, <1>1, BeginStep DEF Open
  <2>2. inbox' = <<>> /\ (conn' = "mine" => wasMine')
    BY <2>1 DEF MineInv
  <2> QED  BY <2>1, <2>2 DEF MineInv, SelectTruthful
<1>2. ASSUME Ended \/ Rebinds \/ GoesOn, pc \in Open, UNCHANGED <<cmd, wasMine, conn>>
      PROVE  MineInv' /\ SelectTruthful'
  <2>1. CASE Ended
    BY <1>2, <2>1 DEF Ended, MineInv, SelectTruthful
  <2>2. CASE Rebinds
    BY <1>2, <2>2 DEF Rebinds, MineInv, SelectTruthful
  <2>3. CASE GoesOn
    <3>1. sockOpen' = TRUE /\ pc' # "idle"
      BY <1>0, <1>2, <2>3 DEF GoesOn
    <3>2. \A k \in DOMAIN inbox' : inbox'[k].says = "mine" => wasMine'
      <4>1. CASE inbox' = inbox
        BY <1>2, <4>1 DEF MineInv
      <4>2. CASE inbox # <<>> /\ inbox' = Tail(inbox)
        <5>1. \A k \in DOMAIN Tail(inbox) : k + 1 \in DOMAIN inbox /\ Tail(inbox)[k] = inbox[k + 1]
          BY <1>0, <4>2, TailPlaces
        <5> QED  BY <1>2, <4>2, <5>1 DEF MineInv
      <4> QED  BY <2>3, <4>1, <4>2 DEF GoesOn
    <3> QED  BY <1>2, <3>1, <3>2 DEF MineInv, SelectTruthful
  <2> QED  BY <1>2, <2>1, <2>2, <2>3
<1>3. CASE Reads
  <2>1. UNCHANGED <<cmd, wasMine, conn>> /\ pc \in Open /\ (Ended \/ Rebinds \/ GoesOn)
    BY <1>3, ReadSteps DEF Local, Open
  <2> QED  BY <1>2, <2>1
<1>4. CASE Attach \/ Request
  <2>1. UNCHANGED <<cmd, wasMine, conn>> /\ pc \in Open
    BY <1>4, SendSteps DEF Open
  <2>2. CASE pc' # "idle" /\ UNCHANGED <<sockOpen, inbox>>
    BY <2>1, <2>2 DEF MineInv, SelectTruthful
  <2>3. CASE GivesUp
    BY <1>2, <2>1, <2>3 DEF GivesUp
  <2> QED  BY <1>4, <2>2, <2>3, SendSteps DEF Sends
<1>5. CASE Bind
  <2>1. /\ inbox' = inbox /\ sockOpen = FALSE /\ UNCHANGED <<cmd, wasMine, conn>>
        /\ pc' = "idle" => result' = "ERR"
    BY <1>0, <1>5, BindStep DEF Open
  <2> QED  BY <2>1 DEF MineInv, SelectTruthful
<1>6. CASE Env
  <2>1. /\ UNCHANGED <<pc, cmd, result, sockOpen>> /\ (wasMine => wasMine')
        /\ conn' = "mine" => conn = "mine" \/ wasMine'
    BY <1>6 DEF Env
  <2>2. CASE inbox' = inbox
    BY <2>1, <2>2 DEF MineInv, SelectTruthful
  <2>3. CASE inbox' # inbox
    <3>1. PICK m \in Messages : sockOpen /\ inbox' = Append(inbox, m) /\ (m.says = "mine" => conn = "mine")
      BY <1>6, <2>3 DEF Env
    <3>2. \A k \in DOMAIN inbox' : (k \in DOMAIN inbox /\ inbox'[k] = inbox[k]) \/ inbox'[k] = m
      BY <1>0, <3>1, AppendPlaces
    <3>3. \A k \in DOMAIN inbox' : inbox'[k].says = "mine" => wasMine'
      BY <2>1, <3>1, <3>2 DEF MineInv
    <3> QED  BY <2>1, <3>1, <3>3 DEF MineInv, SelectTruthful
  <2> QED  BY <2>2, <2>3
<1>7. CASE UNCHANGED vars
  BY <1>7 DEF vars, MineInv, SelectTruthful
<1> QED  BY <1>1, <1>3, <1>4, <1>5, <1>6, <1>7, Steps, EnvSteps

-----------------------------------------------------------------------------
(* WPA_SCAN                                                                *)

\* What a request more does to the networks in the end.
LEMMA FlushedSend ==
    ASSUME TypeOK, NEW q \in Requests, queue' = Append(queue, q), networks' = networks
    PROVE  /\ q = "RECONFIGURE" => ~Flushed'
           /\ q # "FLUSH" /\ Flushed' => Flushed
<1>1. queue \in Seq(Requests) /\ Len(queue) \in Nat /\ DOMAIN queue = 1 .. Len(queue)
  BY DEF TypeOK
<1>2. /\ \A k \in DOMAIN queue : k \in DOMAIN queue' /\ queue'[k] = queue[k]
      /\ Len(queue) + 1 \in DOMAIN queue' /\ queue'[Len(queue) + 1] = q
      /\ \A k \in DOMAIN queue' : \/ k \in DOMAIN queue /\ queue'[k] = queue[k]
                                  \/ k = Len(queue) + 1 /\ queue'[k] = q
  BY <1>1, AppendPlaces
<1>3. ASSUME q = "RECONFIGURE", Flushed' PROVE FALSE
  <2>1. ASSUME NEW k \in DOMAIN queue', queue'[k] = "FLUSH",
               \A j \in DOMAIN queue' : j > k => queue'[j] # "RECONFIGURE"
        PROVE  FALSE
    <3>1. k \in 1 .. Len(queue)
      BY <1>1, <1>2, <1>3, <2>1
    <3> QED  BY <1>1, <1>2, <1>3, <2>1, <3>1
  <2> QED  BY <1>2, <1>3, <2>1 DEF Flushed
<1>4. ASSUME q # "FLUSH", Flushed' PROVE Flushed
  <2>1. ASSUME NEW k \in DOMAIN queue', queue'[k] = "FLUSH",
               \A j \in DOMAIN queue' : j > k => queue'[j] # "RECONFIGURE"
        PROVE  Flushed
    <3>1. k \in DOMAIN queue /\ queue[k] = "FLUSH"
      BY <1>2, <1>4, <2>1
    <3>2. \A j \in DOMAIN queue : j > k => queue[j] # "RECONFIGURE"
      BY <1>2, <2>1
    <3> QED  BY <3>1, <3>2 DEF Flushed
  <2>2. ASSUME networks' = "flushed", \A j \in DOMAIN queue' : queue'[j] # "RECONFIGURE"
        PROVE  Flushed
    BY <1>2, <2>2 DEF Flushed
  <2> QED  BY <1>4, <2>1, <2>2 DEF Flushed
<1> QED  BY <1>3, <1>4

\* Dealing with a request changes nothing about the end.
LEMMA FlushedHandle ==
    ASSUME TypeOK, Handle, Flushed'
    PROVE  Flushed
<1>1. /\ queue \in Seq(Requests) /\ queue # <<>> /\ queue' = Tail(queue)
      /\ networks' = Lists(Head(queue)) /\ networks \in {"loaded", "flushed"}
  <2>1. queue \in Seq(Requests) /\ networks \in {"loaded", "flushed"}
    BY DEF TypeOK
  <2> QED  BY <2>1, HandleFrame
<1>2. /\ Head(queue) = queue[1] /\ 1 \in DOMAIN queue
      /\ \A k \in DOMAIN queue' : k + 1 \in DOMAIN queue /\ k + 1 > 1 /\ queue'[k] = queue[k + 1]
      /\ \A k \in DOMAIN queue : k > 1 => k - 1 \in DOMAIN queue' /\ queue'[k - 1] = queue[k]
  BY <1>1, TailPlaces
<1>3. \A k \in DOMAIN queue : k \in Nat /\ (k = 1 \/ k > 1)
  BY <1>1
<1>4. \A k \in DOMAIN queue' : k \in Nat
  BY <1>1
<1>5. ASSUME NEW k \in DOMAIN queue', queue'[k] = "FLUSH",
             \A j \in DOMAIN queue' : j > k => queue'[j] # "RECONFIGURE"
      PROVE  Flushed
  <2>1. k + 1 \in DOMAIN queue /\ queue[k + 1] = "FLUSH"
    BY <1>2, <1>5
  <2>2. ASSUME NEW j \in DOMAIN queue, j > k + 1 PROVE queue[j] # "RECONFIGURE"
    <3>1. j - 1 > k /\ j > 1
      BY <1>3, <1>4, <2>2
    <3> QED  BY <1>2, <1>5, <3>1
  <2> QED  BY <2>1, <2>2 DEF Flushed
<1>6. ASSUME networks' = "flushed", \A j \in DOMAIN queue' : queue'[j] # "RECONFIGURE"
      PROVE  Flushed
  <2>1. \A j \in DOMAIN queue : j > 1 => queue[j] # "RECONFIGURE"
    BY <1>2, <1>6
  <2>2. CASE Head(queue) = "FLUSH"
    BY <1>2, <2>1, <2>2 DEF Flushed
  <2>3. CASE Head(queue) # "FLUSH"
    <3>1. networks = "flushed" /\ Head(queue) # "RECONFIGURE"
      BY <1>1, <1>6, <2>3 DEF Lists
    <3> QED  BY <1>2, <1>3, <2>1, <3>1 DEF Flushed
  <2> QED  BY <2>2, <2>3
<1> QED  BY <1>5, <1>6 DEF Flushed

\* The reply to FLUSH stays on its way until the worker has it.
LEMMA AnswerHandle ==
    ASSUME TypeOK, Handle, AnswerComes, sockOpen
    PROVE  AnswerComes'
<1>0. inbox \in Seq(Messages) /\ queue \in Seq(Requests)
  BY DEF TypeOK
<1>1. queue # <<>> /\ queue' = Tail(queue)
  BY HandleFrame
<1>2. PICK m \in Messages : m.event = "none" /\ inbox' = Append(inbox, m)
  BY HandleFrame DEF Delivered
<1>3. Len(inbox) + 1 \in DOMAIN inbox' /\ inbox'[Len(inbox) + 1] = m
  BY <1>0, <1>2, AppendPlaces
<1> QED  BY <1>2, <1>3 DEF AnswerComes

\* So do the other steps of wpa_supplicant.
LEMMA AnswerEnv ==
    ASSUME TypeOK, Env, queue' = queue, AnswerComes
    PROVE  AnswerComes'
<1>0. inbox \in Seq(Messages)
  BY DEF TypeOK
<1>1. CASE inbox' = inbox
  BY <1>1 DEF AnswerComes
<1>2. CASE inbox' # inbox
  <2>1. PICK m \in Messages : inbox' = Append(inbox, m)
    BY <1>2 DEF Env
  <2>2. \A k \in DOMAIN inbox : k \in DOMAIN inbox' /\ inbox'[k] = inbox[k]
    BY <1>0, <2>1, AppendPlaces
  <2> QED  BY <2>2 DEF AnswerComes
<1> QED  BY <1>1, <1>2

\* Reading the reply to FLUSH leads to RECONFIGURE, and giving up on it is late.
LEMMA FlushReads ==
    ASSUME TypeOK, StepInv, Reads, pc = "reply", step = "FLUSH", AnswerComes, ~late'
    PROVE  \/ pc' = "reply" /\ step' = "FLUSH" /\ AnswerComes'
           \/ pc' = "request" /\ step' = "RECONFIGURE"
<1>0. inbox \in Seq(Messages) /\ cmd = "scan" /\ style = "object"
  BY DEF TypeOK, StepInv
<1>1. CASE SkipEvent
  <2>1. /\ inbox # <<>> /\ Head(inbox).event # "none" /\ inbox' = Tail(inbox)
        /\ UNCHANGED <<pc, step, queue>>
    BY <1>1 DEF SkipEvent, Local
  <2>2. /\ Head(inbox) = inbox[1]
        /\ \A k \in DOMAIN inbox : k > 1 => k - 1 \in DOMAIN inbox' /\ inbox'[k - 1] = inbox[k]
    BY <1>0, <2>1, TailPlaces
  <2>3. \A k \in DOMAIN inbox : k = 1 \/ k > 1
    BY <1>0
  <2>4. AnswerComes'
    BY <2>1, <2>2, <2>3 DEF AnswerComes
  <2> QED  BY <2>1, <2>4
<1>2. CASE NoReply
  <2>1. inbox = <<>> /\ queue = <<>>
    BY <1>2 DEF NoReply, TimedOut, Local
  <2> QED  BY <2>1 DEF AnswerComes
<1>3. CASE ScanReply
  <2>1. AfterFlush
    BY <1>3 DEF ScanReply
  <2> QED  BY <2>1 DEF AfterFlush, Exchange
<1> QED
  BY <1>0, <1>1, <1>2, <1>3 DEF Reads, OnceReply, ReassocReply, ReassocEvent, SelectReply,
     SelectEvent, ScanEvent, ResetEvent

\* While the networks are flushed, or will be, RECONFIGURE is still to come.
LEMMA FlushNext ==
    ASSUME TypeOK, StepInv, LinkInv, FlushInv, [Next]_vars
    PROVE  FlushInv'
<1> SUFFICES ASSUME up', ~late', Flushed'
             PROVE  /\ linked'
                    /\ \/ pc' = "reply" /\ step' = "FLUSH" /\ AnswerComes'
                       \/ pc' = "request" /\ step' = "RECONFIGURE"
  BY DEF FlushInv
<1>1. ASSUME UNCHANGED <<queue, networks>> PROVE Flushed
  BY <1>1 DEF Flushed
<1>2. CASE Begin
  <2>1. UNCHANGED <<late, up, queue, networks>> /\ pc = "idle"
    BY <1>2, BeginStep
  <2> QED  BY <1>1, <2>1 DEF FlushInv
<1>3. CASE Bind
  <2>1. UNCHANGED <<late, up, queue, networks>> /\ pc = "bind"
    BY <1>3, BindStep
  <2> QED  BY <1>1, <2>1 DEF FlushInv
<1>4. CASE Attach \/ Request
  <2>1. UNCHANGED <<late, up, networks, linked>>
    BY <1>4, SendSteps
  <2>2. CASE pc = "attach" /\ Sends("ATTACH", "request")
    <3>1. "ATTACH" \in Requests /\ queue' = Append(queue, "ATTACH")
      BY <2>2 DEF Requests, Sends
    <3>2. Flushed
      BY <2>1, <3>1, FlushedSend
    <3> QED  BY <2>1, <2>2, <3>2 DEF FlushInv
  <2>3. CASE pc = "request" /\ Sends(step, "reply")
    <3>1. /\ step \in Requests /\ queue' = Append(queue, step) /\ linked
          /\ pc' = "reply" /\ step' = step
      BY <2>3 DEF Sends, StepInv
    <3>2. CASE step = "FLUSH"
      <4>1. queue \in Seq(Requests)
        BY DEF TypeOK
      <4>2. Len(queue) + 1 \in DOMAIN queue' /\ queue'[Len(queue) + 1] = "FLUSH"
        BY <3>1, <3>2, <4>1, AppendPlaces
      <4> QED  BY <2>1, <3>1, <3>2, <4>2 DEF AnswerComes
    <3>3. CASE step # "FLUSH"
      <4>1. step # "RECONFIGURE" /\ Flushed
        BY <2>1, <3>1, <3>3, FlushedSend
      <4> QED  BY <2>1, <2>3, <4>1 DEF FlushInv
    <3> QED  BY <3>2, <3>3
  <2>4. CASE pc \in {"attach", "request"} /\ ~linked /\ GivesUp
    <3>1. Flushed
      BY <1>1, <2>1, <2>4 DEF GivesUp
    <3> QED  BY <2>1, <2>4, <3>1 DEF FlushInv
  <2> QED  BY <1>4, <2>2, <2>3, <2>4, SendSteps
<1>5. CASE Reads
  <2>1. Local /\ pc \in {"reply", "event"}
    BY <1>5, ReadSteps
  <2>2. UNCHANGED <<up, queue, networks, linked>> /\ ~late
    BY <2>1 DEF Local
  <2>3. linked /\ pc = "reply" /\ step = "FLUSH" /\ AnswerComes
    BY <1>1, <2>1, <2>2 DEF FlushInv
  <2> QED  BY <1>5, <2>2, <2>3, FlushReads
<1>6. CASE Handle
  <2>1. UNCHANGED <<late, up, linked, pc, step>>
    BY <1>6, HandleFrame
  <2>2. Flushed
    BY <1>6, FlushedHandle
  <2>3. pc = "reply" => sockOpen
    BY DEF TypeOK
  <2> QED  BY <1>6, <2>1, <2>2, <2>3, AnswerHandle DEF FlushInv
<1>7. CASE Happens
  <2>1. Env /\ UNCHANGED <<late, up, linked, pc, step, queue, networks>>
    BY <1>7, HappensFrame DEF Env
  <2> QED  BY <1>1, <2>1, AnswerEnv DEF FlushInv
<1>8. CASE Stop
  BY <1>8 DEF Stop
<1>9. CASE Start
  <2>1. queue' = <<>> /\ networks' = "loaded"
    BY <1>9 DEF Start, LinkInv
  <2> QED  BY <2>1 DEF Flushed
<1>10. CASE UNCHANGED vars
  <2>1. UNCHANGED <<late, up, linked, pc, step, queue, networks, inbox>>
    BY <1>10 DEF vars
  <2>2. AnswerComes => AnswerComes'
    BY <2>1 DEF AnswerComes
  <2> QED  BY <1>1, <2>1, <2>2 DEF FlushInv
<1> QED  BY <1>2, <1>3, <1>4, <1>5, <1>6, <1>7, <1>8, <1>9, <1>10, Steps

-----------------------------------------------------------------------------
(* The theorems                                                            *)

\* The invariant holds at first.
LEMMA InitIInv == Init => IInv
<1> SUFFICES ASSUME Init PROVE IInv
  OBVIOUS
<1>1. WorkerOK /\ RestOK
  <2>1. Nothing \in Messages /\ <<>> \in Seq(Messages) /\ <<>> \in Seq(Requests)
    BY MessageTypes
  <2>2. 0 \in 0 .. MaxCmds /\ 0 \in 0 .. MaxEvents /\ 0 \in 0 .. MaxStops
        /\ 0 \in 0 .. SCAN_MAX_RETRIES + 1
    BY BoundsAssumption DEF SCAN_MAX_RETRIES
  <2>3. WorkerOK
    BY <2>1, <2>2 DEF Init, WorkerOK, Open
  <2>4. RestOK
    BY <2>1, <2>2 DEF Init, RestOK
  <2> QED  BY <2>3, <2>4
<1>2. StepInv /\ LinkInv /\ MineInv /\ SelectTruthful
  BY DEF Init, StepInv, LinkInv, MineInv, SelectTruthful
<1>3. FlushInv
  BY DEF Init, FlushInv, Flushed
<1> QED  BY <1>1, <1>2, <1>3, TypeParts DEF IInv

\* IInv holds in all reachable states of the worker and wpa_supplicant, for any
\* number of commands, events and stops.
THEOREM Invariance == Spec => []IInv
<1>1. IInv /\ [Next]_vars => IInv'
  BY TypeParts, WorkerNext, RestNext, LinkNext, MineNext, FlushNext DEF IInv
<1> QED  BY <1>1, InitIInv, PTL DEF Spec

\* A socket is open only on its file and only during a command, and
\* execCmdWpaScan retries at most SCAN_MAX_RETRIES times.
THEOREM TypeCorrect == Spec => []TypeOK
<1>1. IInv => TypeOK
  BY DEF IInv
<1> QED  BY <1>1, Invariance, PTL

\* WPA_SELECT succeeds only if the selected network was up at some time during
\* the command.
THEOREM SelectIsTruthful == Spec => []SelectTruthful
<1>1. IInv => SelectTruthful
  BY DEF IInv
<1> QED  BY <1>1, Invariance, PTL

\* As long as no reply came too late, the networks are back once WPA_SCAN has
\* ended and its requests are dealt with.
THEOREM ScanRestores == Spec => []NetworksRestored
<1>1. IInv => NetworksRestored
  <2> SUFFICES ASSUME IInv, ~late, pc = "idle", up, queue = <<>> PROVE networks = "loaded"
    BY DEF NetworksRestored
  <2>1. ~Flushed
    BY DEF IInv, FlushInv
  <2>2. networks # "flushed"
    BY <2>1 DEF Flushed
  <2> QED  BY <2>2 DEF IInv, TypeOK
<1> QED  BY <1>1, Invariance, PTL

=============================================================================
