------------------------------ MODULE WpaCtrl ------------------------------
(***************************************************************************)
(* How NmWorkerWpa talks to wpa_supplicant: datagrams over a Unix socket   *)
(* that the worker binds, for every exchange anew, to one and the same     *)
(* path (cliSockAddr).  Replies carry nothing that says which request they *)
(* answer, and events of wpa_supplicant come over the same socket.         *)
(*                                                                         *)
(* Four commands stand for all: WPA_STATUS (one request, one reply, as     *)
(* most commands are made of), WPA_REASSOC (the wpaCtrlCmd that waits for  *)
(* an event), WPA_SELECT and WPA_SCAN (a WpaSocket kept over several       *)
(* requests).  They come one after the other: dispatchers hold work_access *)
(* (see NmDaemon).  wpa_supplicant is external: what it does is taken from *)
(* what the code expects of it.                                            *)
(***************************************************************************)
EXTENDS Naturals, Sequences

CONSTANTS
    MaxCmds,    \* bound: number of commands
    MaxEvents,  \* bound: number of events of wpa_supplicant's own making
    MaxStops    \* bound: how often wpa_supplicant is stopped

ASSUME BoundsAssumption == MaxCmds \in Nat /\ MaxEvents \in Nat /\ MaxStops \in Nat

SCAN_MAX_RETRIES == 3

Commands == {"status", "reassoc", "select", "scan"}
Requests == {"ATTACH", "STATUS", "REASSOCIATE", "SELECT", "SCAN",
             "SCAN_RESULTS", "FLUSH", "RECONFIGURE"}
Events   == {"scan-results", "scan-failed", "connected", "not-connected"}

\* A message to the worker: an event, or the reply to a request.
Event(e)    == [event |-> e, to |-> "none", says |-> "none"]
Reply(r, s) == [event |-> "none", to |-> r, says |-> s]
Nothing     == Reply("none", "none")
Says        == {"none", "OK", "FAIL", "FAIL-BUSY", "table", "mine", "other",
                "disconnected"}
Messages    == [event : Events \cup {"none"}, to : Requests \cup {"none"}, says : Says]

VARIABLES
    cmd,       \* the command being executed, or the last one
    pc,        \* where its execution is
    style,     \* the socket in use: "once", "wait" (the two wpaCtrlCmd that
               \* bind their own) or "object" (a WpaSocket)
    step,      \* the request in hand
    retry,     \* the retries of execCmdWpaScan
    reset,     \* its need_reset
    sockFile,  \* the file of the client socket exists
    sockOpen,  \* and a socket is bound to it
    inbox,     \* messages in the client socket
    result,    \* result of the last command
    got,       \* the reply the last command returned
    linked,    \* and the wpa_supplicant it is connected to still runs
    late,      \* history: the worker gave up waiting for a reply to come
    wasMine,   \* history: the selected network was up during the command
    cmds       \* number of commands

VARIABLES
    up,        \* wpa_supplicant runs
    queue,     \* requests it has not looked at
    attached,  \* it sends events to the client path
    scanning,  \* it is scanning
    networks,  \* its networks: "loaded" from its file, or "flushed"
    conn,      \* the network it is connected to: "none", "mine", "other"
    events, stops

worker     == <<cmd, pc, style, step, retry, reset, sockFile, sockOpen, result,
                got, cmds>>
supplicant == <<up, queue, attached, scanning, networks, conn, events, stops>>
vars       == <<worker, inbox, linked, late, wasMine, supplicant>>

Init ==
    /\ cmd = "none" /\ pc = "idle" /\ style = "once" /\ step = "none"
    /\ retry = 0 /\ reset = FALSE
    /\ sockFile = FALSE /\ sockOpen = FALSE /\ inbox = <<>>
    /\ result = "none" /\ got = Nothing
    /\ linked = FALSE /\ late = FALSE /\ wasMine = FALSE /\ cmds = 0
    /\ up \in BOOLEAN
    /\ queue = <<>> /\ attached = FALSE
    /\ scanning = FALSE /\ networks = "loaded" /\ conn = "none"
    /\ events = 0 /\ stops = 0

-----------------------------------------------------------------------------
(* wpa_supplicant                                                          *)

\* A datagram goes to whatever socket is bound to the path when it is sent.
Deliver(m) == inbox' = IF sockOpen THEN Append(inbox, m) ELSE inbox

Emit(e) == IF attached THEN Deliver(Event(e)) ELSE UNCHANGED inbox

Connection(c) ==
    /\ conn' = c
    /\ wasMine' = (wasMine \/ c = "mine")

Handle ==
    /\ up /\ queue # <<>>
    /\ queue' = Tail(queue)
    /\ LET r == Head(queue) IN
       \/ /\ r = "ATTACH"
          /\ attached' = TRUE
          /\ Deliver(Reply(r, "OK"))
          /\ UNCHANGED <<scanning, networks, conn, wasMine>>
       \/ /\ r = "STATUS"
          /\ Deliver(Reply(r, IF conn = "none" THEN "disconnected" ELSE conn))
          /\ UNCHANGED <<attached, scanning, networks, conn, wasMine>>
       \/ /\ r \in {"REASSOCIATE", "SELECT"}
          /\ IF r = "SELECT" /\ networks = "flushed"
             THEN Deliver(Reply(r, "FAIL")) /\ UNCHANGED <<conn, wasMine>>
             ELSE Deliver(Reply(r, "OK")) /\ Connection("none")
          /\ UNCHANGED <<attached, scanning, networks>>
       \/ /\ r = "SCAN"
          /\ IF scanning THEN Deliver(Reply(r, "FAIL-BUSY"))
                         ELSE Deliver(Reply(r, "OK"))
          /\ scanning' = TRUE
          /\ UNCHANGED <<attached, networks, conn, wasMine>>
       \/ /\ r = "SCAN_RESULTS"
          /\ Deliver(Reply(r, "table"))
          /\ UNCHANGED <<attached, scanning, networks, conn, wasMine>>
       \/ /\ r = "FLUSH"
          /\ networks' = "flushed"
          /\ Deliver(Reply(r, "OK"))
          /\ Connection("none")
          /\ UNCHANGED <<attached, scanning>>
       \/ /\ r = "RECONFIGURE"
          /\ networks' = "loaded"
          /\ Deliver(Reply(r, "OK"))
          /\ UNCHANGED <<attached, scanning, conn, wasMine>>
    /\ UNCHANGED <<worker, linked, late, up, events, stops>>

\* It scans and connects on its own account, too.
Happens ==
    /\ up /\ events < MaxEvents
    /\ events' = events + 1
    /\ \/ /\ ~scanning
          /\ scanning' = TRUE
          /\ UNCHANGED <<conn, wasMine, inbox>>
       \/ /\ scanning
          /\ scanning' = FALSE
          /\ \E e \in {"scan-results", "scan-failed"} : Emit(e)
          /\ UNCHANGED <<conn, wasMine>>
       \/ /\ networks = "loaded" /\ conn = "none"
          /\ \E c \in {"mine", "other"} : Connection(c)
          /\ Emit("connected")
          /\ UNCHANGED scanning
       \/ /\ Connection("none")
          /\ Emit("not-connected")
          /\ UNCHANGED scanning
    /\ UNCHANGED <<worker, linked, late, up, queue, attached, networks, stops>>

Stop ==
    /\ up /\ stops < MaxStops
    /\ up' = FALSE
    /\ stops' = stops + 1
    /\ queue' = <<>> /\ attached' = FALSE /\ scanning' = FALSE
    /\ linked' = FALSE
    /\ Connection("none")
    /\ UNCHANGED <<worker, inbox, late, networks, events>>

Start ==
    /\ ~up
    /\ up' = TRUE
    /\ networks' = "loaded"
    /\ UNCHANGED <<worker, inbox, linked, late, wasMine, queue, attached, scanning, conn,
                   events, stops>>

-----------------------------------------------------------------------------
(* The worker: what its commands have in common                            *)

Socket(file, open) == sockFile' = file /\ sockOpen' = open

\* close() and unlink(): what is still in the socket is lost.
Release == Socket(FALSE, FALSE) /\ inbox' = <<>>

\* close() alone: the file stays.
Leak == Socket(TRUE, FALSE) /\ inbox' = <<>>

Finish(res, reply) ==
    /\ pc' = "idle"
    /\ result' = res
    /\ got' = reply
    /\ UNCHANGED <<style, step>>

Exchange(sty, req, at) ==
    /\ style' = sty
    /\ step' = req
    /\ pc' = at
    /\ UNCHANGED <<result, got>>

\* wpaCtrlCmd returns false: the command fails, except that WPA_REASSOC
\* asks for the status all the same.
ReturnFalse ==
    IF style = "wait" THEN Exchange("once", "STATUS", "bind")
                      ELSE Finish("ERR", Nothing)

Begin ==
    /\ pc = "idle"
    /\ cmds < MaxCmds
    /\ cmds' = cmds + 1
    /\ cmd' \in Commands
    /\ Exchange(CASE cmd' = "reassoc" -> "wait"
                  [] cmd' = "scan"    -> "object"
                  [] OTHER            -> "once",
                CASE cmd' = "reassoc" -> "REASSOCIATE"
                  [] cmd' = "scan"    -> "SCAN"
                  [] OTHER            -> "STATUS",
                "bind")
    /\ retry' = 0 /\ reset' = FALSE
    /\ wasMine' = (conn = "mine")
    /\ UNCHANGED <<sockFile, sockOpen, linked, late, inbox, supplicant>>

Local ==
    /\ late' = (late \/ (inbox = <<>> /\ queue # <<>>))
    /\ UNCHANGED <<cmd, cmds, linked, wasMine, supplicant>>
Scan  == UNCHANGED <<retry, reset>>

\* bind() fails when the file is there, connect() when wpa_supplicant is not;
\* the wpaCtrlCmd that waits for an event then closes without unlink().
Bind ==
    /\ pc = "bind"
    /\ \/ sockFile /\ ReturnFalse /\ UNCHANGED <<sockFile, sockOpen, inbox>>
       \/ ~sockFile /\ ~up /\ ReturnFalse /\ Socket(style = "wait", FALSE)
                    /\ UNCHANGED inbox
       \/ ~sockFile /\ up /\ Socket(TRUE, TRUE) /\ UNCHANGED inbox
          /\ Exchange(style, step, IF style = "once" THEN "request" ELSE "attach")
    /\ linked' = up
    /\ UNCHANGED <<cmd, cmds, late, wasMine, supplicant>> /\ Scan

SendFails ==
    /\ ReturnFalse
    /\ IF style = "wait" THEN Leak ELSE Release

\* ATTACH is sent and its reply not waited for.
Attach ==
    /\ pc = "attach"
    /\ \/ linked /\ queue' = Append(queue, "ATTACH") /\ Exchange(style, step, "request")
          /\ UNCHANGED <<sockFile, sockOpen, inbox>>
       \/ ~linked /\ SendFails /\ UNCHANGED queue
    /\ Scan
    /\ UNCHANGED <<cmd, cmds, linked, late, wasMine, up, attached, scanning, networks, conn,
                   events, stops>>

Request ==
    /\ pc = "request"
    /\ \/ linked /\ queue' = Append(queue, step) /\ Exchange(style, step, "reply")
          /\ UNCHANGED <<sockFile, sockOpen, inbox>>
       \/ ~linked /\ SendFails /\ UNCHANGED queue
    /\ UNCHANGED <<retry, reset, cmd, cmds, linked, late, wasMine, up, attached, scanning,
                   networks, conn, events, stops>>

\* Events in front of a reply are skipped.
SkipEvent ==
    /\ pc = "reply"
    /\ inbox # <<>> /\ Head(inbox).event # "none"
    /\ inbox' = Tail(inbox)
    /\ UNCHANGED <<pc, style, step, result, got, sockFile, sockOpen>>
    /\ Local /\ Scan

\* Nothing (more) comes in the rounds of 300 ms or 2 s that the worker waits,
\* 51 for a reply and 101 for an event.  It comes too late if wpa_supplicant
\* still has a request before it.
TimedOut == inbox = <<>>

NoReply ==
    /\ pc = "reply"
    /\ TimedOut
    /\ ReturnFalse
    /\ IF style = "wait" THEN Leak ELSE Release
    /\ Local /\ Scan

\* The first message that is not an event is taken for the reply.
IsReply(r) == pc = "reply" /\ inbox # <<>> /\ r = Head(inbox) /\ r.event = "none"

Keep == UNCHANGED <<sockFile, sockOpen>> /\ inbox' = Tail(inbox)

-----------------------------------------------------------------------------
(* WPA_STATUS, and the status at the end of WPA_REASSOC and at the start of *)
(* WPA_SELECT: one request on a socket of its own                          *)

OnceReply ==
    /\ style = "once"
    /\ \E r \in Messages :
        /\ IsReply(r)
        /\ \/ cmd = "select" /\ r.says # "mine" /\ Exchange("object", "SELECT", "bind")
           \/ cmd = "select" /\ r.says = "mine" /\ Finish("SUCCESS", r)
           \/ cmd = "status" /\ Finish("SUCCESS", r)
           \/ cmd = "reassoc" /\ Finish(IF r.says \in {"mine", "other"}
                                        THEN "SUCCESS" ELSE "ERR", r)
    /\ Release
    /\ Local /\ Scan

-----------------------------------------------------------------------------
(* WPA_REASSOC: wpaCtrlCmd(cmd, wait, ifname)                              *)

ReassocReply ==
    /\ style = "wait"
    /\ \E r \in Messages :
        /\ IsReply(r)
        /\ IF r.says = "OK" THEN Exchange("wait", step, "event") /\ Keep
                            ELSE ReturnFalse /\ Release
    /\ Local /\ Scan

\* Either way the status decides.
ReassocEvent ==
    /\ pc = "event" /\ style = "wait"
    /\ \/ /\ inbox # <<>> /\ Head(inbox).event # "connected"
          /\ Exchange(style, step, "event") /\ Keep
       \/ /\ TimedOut \/ (inbox # <<>> /\ Head(inbox).event = "connected")
          /\ ReturnFalse /\ Release
    /\ Local /\ Scan

-----------------------------------------------------------------------------
(* WPA_SELECT: wpaSelectCmd                                                *)

SelectReply ==
    /\ style = "object" /\ cmd = "select"
    /\ \E r \in Messages :
        /\ IsReply(r)
        /\ \/ /\ step = "SELECT" /\ r.says = "OK"
              /\ Exchange(style, step, "event") /\ Keep
           \/ /\ step = "SELECT" /\ r.says # "OK"
              /\ Finish("ERR", Nothing) /\ Release
           \/ /\ step = "STATUS"
              /\ Finish(IF r.says = "mine" THEN "SUCCESS" ELSE "ERR", r) /\ Release
    /\ Local /\ Scan

\* Mutant: the event is taken for the proof that the network is up.
SelectEvent_Trusting ==
    /\ pc = "event" /\ style = "object" /\ cmd = "select"
    /\ inbox # <<>>
    /\ IF Head(inbox).event = "connected"
       THEN Finish("SUCCESS", Nothing) /\ Release
       ELSE Exchange(style, step, "event") /\ Keep
    /\ Local /\ Scan

SelectEvent ==
    /\ pc = "event" /\ style = "object" /\ cmd = "select"
    /\ \/ /\ inbox # <<>> /\ Head(inbox).event \notin {"connected", "not-connected"}
          /\ Exchange(style, step, "event") /\ Keep
       \/ /\ inbox # <<>> /\ Head(inbox).event = "connected"
          /\ Exchange(style, "STATUS", "request") /\ Keep
       \/ /\ TimedOut \/ (inbox # <<>> /\ Head(inbox).event = "not-connected")
          /\ Finish("ERR", Nothing) /\ Release
    /\ Local /\ Scan

-----------------------------------------------------------------------------
(* WPA_SCAN: execCmdWpaScan                                                *)

\* Mutant: FLUSH is not followed by RECONFIGURE.
AfterFlush_NoReconfigure == Exchange(style, "RECONFIGURE", "event")

AfterFlush == Exchange(style, "RECONFIGURE", "request")

ScanReply ==
    /\ style = "object" /\ cmd = "scan"
    /\ \E r \in Messages :
        /\ IsReply(r)
        /\ \/ /\ step = "SCAN" /\ r.says = "OK"
              /\ Exchange(style, step, "event") /\ Keep /\ UNCHANGED reset
           \/ /\ step = "SCAN" /\ r.says = "FAIL-BUSY"
              /\ reset' = TRUE
              /\ Exchange(style, "FLUSH", "request") /\ Keep
           \/ /\ step = "SCAN" /\ r.says \notin {"OK", "FAIL-BUSY"}
              /\ Finish("ERR", Nothing) /\ Release /\ UNCHANGED reset
           \/ /\ step = "FLUSH"
              /\ AfterFlush /\ Keep /\ UNCHANGED reset
           \/ /\ step = "RECONFIGURE"
              /\ Exchange(style, step, "event") /\ Keep /\ UNCHANGED reset
           \/ /\ step = "SCAN_RESULTS"
              /\ Finish("SUCCESS", r) /\ Release /\ UNCHANGED reset
    /\ UNCHANGED retry /\ Local

ScanRefused(m) == m.event = "scan-failed" \/ m.says = "FAIL-BUSY"

\* The wait after SCAN.  need_reset, once set, stays set.
ScanEvent ==
    /\ pc = "event" /\ cmd = "scan" /\ step = "SCAN"
    /\ \/ /\ inbox # <<>>
          /\ ~ScanRefused(Head(inbox)) /\ Head(inbox).event # "scan-results"
          /\ Exchange(style, step, "event") /\ Keep /\ UNCHANGED reset
       \/ /\ inbox # <<>> /\ ScanRefused(Head(inbox))
          /\ reset' = TRUE
          /\ Exchange(style, "FLUSH", "request") /\ Keep
       \/ /\ inbox # <<>> /\ Head(inbox).event = "scan-results"
          /\ Exchange(style, IF reset THEN "FLUSH" ELSE "SCAN_RESULTS", "request")
          /\ Keep /\ UNCHANGED reset
       \/ /\ TimedOut
          /\ IF reset THEN Finish("ERR", Nothing) /\ Release
             ELSE Exchange(style, "SCAN_RESULTS", "request")
                  /\ UNCHANGED <<sockFile, sockOpen, inbox>>
          /\ UNCHANGED reset
    /\ UNCHANGED retry /\ Local

SendScan(again) ==
    IF again THEN Exchange(style, "SCAN", "request") /\ UNCHANGED <<sockFile, sockOpen, inbox>>
             ELSE Finish("ERR", Nothing) /\ Release

\* Mutant: one retry too many.
Retry_OneMore == retry' = retry + 1 /\ SendScan(retry <= SCAN_MAX_RETRIES)

\* Mutant: the retries are not counted.
Retry_NoCount == retry' = retry /\ SendScan(TRUE)

Retry == retry' = retry + 1 /\ SendScan(retry' <= SCAN_MAX_RETRIES)

\* The wait after RECONFIGURE, and another try.
ResetEvent ==
    /\ pc = "event" /\ cmd = "scan" /\ step = "RECONFIGURE"
    /\ \/ /\ inbox # <<>> /\ Head(inbox).event # "scan-results"
          /\ Exchange(style, step, "event") /\ Keep /\ UNCHANGED retry
       \/ /\ inbox # <<>> /\ Head(inbox).event = "scan-results"
          /\ Exchange(style, "SCAN_RESULTS", "request") /\ Keep /\ UNCHANGED retry
       \/ TimedOut /\ Retry
    /\ UNCHANGED reset /\ Local

-----------------------------------------------------------------------------

Work ==
    \/ Bind \/ Attach \/ Request \/ SkipEvent \/ NoReply \/ OnceReply
    \/ ReassocReply \/ ReassocEvent \/ SelectReply \/ SelectEvent
    \/ ScanReply \/ ScanEvent \/ ResetEvent

\* The bounds are reached and nothing is under way.
Done == pc = "idle" /\ cmds = MaxCmds /\ UNCHANGED vars

Next == Begin \/ Work \/ Handle \/ Happens \/ Stop \/ Start \/ Done

Spec == Init /\ [][Next]_vars

\* The dispatcher runs, its waits are bounded, and wpa_supplicant goes on
\* with its requests while it is up.
FairSpec == Spec /\ WF_vars(Work) /\ WF_vars(Handle)

-----------------------------------------------------------------------------
(* Properties                                                              *)

\* Type invariant of the worker and of wpa_supplicant as the code sees it: a
\* socket is open only on its file and only during a command, execCmdWpaScan
\* retries at most SCAN_MAX_RETRIES times.
TypeOK ==
    /\ cmd \in Commands \cup {"none"}
    /\ pc \in {"idle", "bind", "attach", "request", "reply", "event"}
    /\ style \in {"once", "wait", "object"}
    /\ step \in Requests \cup {"none"}
    /\ retry \in 0 .. SCAN_MAX_RETRIES + 1
    /\ {reset, sockFile, sockOpen, linked, late, wasMine} \subseteq BOOLEAN
    /\ sockOpen => sockFile
    /\ sockOpen <=> pc \in {"attach", "request", "reply", "event"}
    /\ inbox \in Seq(Messages)
    /\ result \in {"none", "SUCCESS", "ERR"}
    /\ got \in Messages
    /\ cmds \in 0 .. MaxCmds
    /\ {up, attached, scanning} \subseteq BOOLEAN
    /\ queue \in Seq(Requests)
    /\ networks \in {"loaded", "flushed"}
    /\ conn \in {"none", "mine", "other"}
    /\ events \in 0 .. MaxEvents /\ stops \in 0 .. MaxStops

\* WPA_SELECT succeeds only if the interface was connected to the selected
\* network at some time during the command; CTRL-EVENT-CONNECTED alone may be
\* about another network (nmworkerwpa.cpp:944-962).
SelectTruthful ==
    pc = "idle" /\ cmd = "select" /\ result = "SUCCESS" => wasMine

\* However WPA_SCAN ends, also with wpa_supplicant stopped or restarted on the
\* way, as long as no reply came too late: once its requests are dealt with,
\* the networks it flushed have been read again from the file
\* (nmworkerwpa.cpp:541-553).
NetworksRestored ==
    ~late /\ pc = "idle" /\ up /\ queue = <<>> => networks = "loaded"

\* Every command ends, whatever wpa_supplicant answers or does not: the waits
\* and the retries of execCmdWpaScan are bounded (nmworkerwpa.cpp:464-581),
\* and with them the time a command holds work_access.
CommandEnds == pc # "idle" ~> pc = "idle"

-----------------------------------------------------------------------------
(* The inductive invariant behind the safety properties                    *)

\* What a command under way has in hand.
StepInv ==
    pc # "idle" =>
        /\ retry <= SCAN_MAX_RETRIES /\ step \in Requests
        /\ cmd = "scan" => style = "object"
        /\ step \in {"FLUSH", "RECONFIGURE"} => cmd = "scan"

\* Requests are with the wpa_supplicant that runs.
LinkInv == (linked => up) /\ (~up => queue = <<>>)

\* A socket starts empty, so that what it says of the connection is of this command.
MineInv ==
    /\ ~sockOpen => inbox = <<>>
    /\ conn = "mine" => wasMine
    /\ \A k \in DOMAIN inbox : inbox[k].says = "mine" => wasMine

\* The networks are gone, or will be when wpa_supplicant has dealt with its requests.
Flushed ==
    \/ \E k \in DOMAIN queue :
          queue[k] = "FLUSH" /\ \A j \in DOMAIN queue : j > k => queue[j] # "RECONFIGURE"
    \/ networks = "flushed" /\ \A j \in DOMAIN queue : queue[j] # "RECONFIGURE"

\* Then WPA_SCAN is about to send RECONFIGURE, or waits for a reply that is on
\* its way.
AnswerComes ==
    \/ \E k \in DOMAIN queue : queue[k] = "FLUSH"
    \/ \E k \in DOMAIN inbox : inbox[k].event = "none"
FlushInv ==
    up /\ ~late /\ Flushed =>
        /\ linked
        /\ \/ pc = "reply" /\ step = "FLUSH" /\ AnswerComes
           \/ pc = "request" /\ step = "RECONFIGURE"

IInv == TypeOK /\ StepInv /\ LinkInv /\ MineInv /\ SelectTruthful /\ FlushInv

=============================================================================
