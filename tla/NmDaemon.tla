------------------------------ MODULE NmDaemon ------------------------------
(***************************************************************************)
(* The connection engine of nmdaemon: the accept loop and the shutdown of  *)
(* main(), and, for every connection, the NmDaemon object with its two     *)
(* threads, sock_receiver and dispatcher.                                  *)
(*                                                                         *)
(* A step is what a thread does between two points at which another        *)
(* thread, a client or a signal can make a difference (a system call, a    *)
(* mutex, an atomic flag).  A critical section without a blocking call     *)
(* inside is part of one step.                                             *)
(***************************************************************************)
EXTENDS Naturals, Sequences

CONSTANTS
    Conns,     \* connections; each is one client, one NmDaemon, two threads
    NoConn,    \* the owner of a free work_access
    Kinds,     \* the kinds of text clients send
    MaxSend    \* bound: how many pieces of text a client sends

\* One piece of client text is a complete valid request, text that is not
\* one, whitespace, or a NUL byte.
TextKinds == {"req", "bad", "ws", "nul"}

ASSUME ConnsAssumption   == NoConn \notin Conns
ASSUME KindsAssumption   == Kinds \subseteq TextKinds
ASSUME MaxSendAssumption == MaxSend \in Nat

VARIABLES
    main,              \* program counter of main()
    needShutdown,      \* the flag the signal handler sets
    mutexHeld,         \* main holds g_activeDaemonsMutex across steps
    toStop,            \* daemons the shutdown loop has still to visit
    drained,           \* what main has logged about the grace period
    g_activeDaemons,   \* the registered connections
    object,            \* the NmDaemon object: "none", "alive", "freed"
    rcv, dsp,          \* program counters of sock_receiver and dispatcher
    stop_receiver,
    stop_dispatcher,
    requests,          \* queue of valid requests not yet taken
    current,           \* the request the dispatcher holds, 0 if none
    executed,          \* history: requests given to a worker
    work_access,       \* connection whose dispatcher holds the worker mutex
    sock_access_write, \* thread of the connection that holds the write mutex
    client,            \* the client's end: "off", "open", "half", "closed"
    stalled,           \* the client does not read and its buffer is full
    inp,               \* text sent and not yet read
    sent,              \* number of pieces the client has sent
    wire,              \* halves of frames written to the client
    answered           \* history: requests whose frame was written in full

mainVars   == <<main, needShutdown, mutexHeld, toStop, drained>>
registry   == <<g_activeDaemons, object>>
flags      == <<stop_receiver, stop_dispatcher>>
queue      == <<requests, current, executed>>
mutexes    == <<work_access, sock_access_write>>
clientVars == <<client, stalled, inp, sent>>
output     == <<wire, answered>>

threadVars == <<registry, rcv, dsp, flags, queue, mutexes, output>>
vars       == <<mainVars, threadVars, clientVars>>

Requests == 1..MaxSend
Texts    == [kind : TextKinds, id : Requests]
Halves   == [by : {"rcv", "dsp"}, half : {1, 2}]

MainPCs == {"enter", "accept", "check", "lockAll", "stopping", "poll",
            "report", "unlink", "dtors", "exited"}
RcvPCs  == {"none", "start", "read", "invalid", "write1", "write2", "pause",
            "close", "join", "erase", "delete", "gone"}
DspPCs  == {"none", "pop", "lock", "exec", "reply", "write1", "write2",
            "pause", "done"}

\* main() when its socket is bound, before the first accept().
Init ==
    /\ main = "enter"
    /\ needShutdown = FALSE
    /\ mutexHeld = FALSE
    /\ toStop = {}
    /\ drained = "unknown"
    /\ g_activeDaemons = {}
    /\ object = [c \in Conns |-> "none"]
    /\ rcv = [c \in Conns |-> "none"]
    /\ dsp = [c \in Conns |-> "none"]
    /\ stop_receiver = [c \in Conns |-> FALSE]
    /\ stop_dispatcher = [c \in Conns |-> FALSE]
    /\ requests = [c \in Conns |-> <<>>]
    /\ current = [c \in Conns |-> 0]
    /\ executed = [c \in Conns |-> <<>>]
    /\ work_access = NoConn
    /\ sock_access_write = [c \in Conns |-> "none"]
    /\ client = [c \in Conns |-> "off"]
    /\ stalled = [c \in Conns |-> FALSE]
    /\ inp = [c \in Conns |-> <<>>]
    /\ sent = [c \in Conns |-> 0]
    /\ wire = [c \in Conns |-> <<>>]
    /\ answered = [c \in Conns |-> <<>>]

-----------------------------------------------------------------------------
(* Clients.  They are not part of the program and owe it nothing; what    *)
(* they do once the process is gone is left out.                           *)

ClientGoes(c, from, to) ==
    /\ main # "exited"
    /\ client[c] \in from
    /\ client' = [client EXCEPT ![c] = to]
    /\ UNCHANGED <<mainVars, threadVars, stalled, inp, sent>>

\* The socket file is there until main unlinks it.
Connect(c)    == main # "dtors" /\ ClientGoes(c, {"off"}, "open")
\* shutdown(SHUT_WR): the client has no more to send and still reads.
HalfClose(c)  == ClientGoes(c, {"open"}, "half")
Disconnect(c) == ClientGoes(c, {"open", "half"}, "closed")

Send(c) ==
    /\ main # "exited"
    /\ client[c] = "open"
    /\ sent[c] < MaxSend
    /\ sent' = [sent EXCEPT ![c] = @ + 1]
    /\ \E k \in Kinds :
          inp' = [inp EXCEPT ![c] = Append(@, [kind |-> k, id |-> sent[c] + 1])]
    /\ UNCHANGED <<mainVars, threadVars, client, stalled>>

\* The client stops reading (a full buffer blocks write_n) or reads again.
StallOrDrain(c) ==
    /\ main # "exited"
    /\ client[c] \in {"open", "half"}
    /\ stalled' = [stalled EXCEPT ![c] = ~@]
    /\ UNCHANGED <<mainVars, threadVars, client, inp, sent>>

ClientStep(c) ==
    Connect(c) \/ Send(c) \/ HalfClose(c) \/ Disconnect(c) \/ StallOrDrain(c)

-----------------------------------------------------------------------------
(* Signals.  The kernel hands SIGINT or SIGTERM to any one thread.         *)

\* A connection in the backlog of the listening socket.
Pending(c) == client[c] # "off" /\ object[c] = "none"

\* In main: accept() with nobody to accept fails with EINTR.
SignalMain ==
    /\ main # "exited"
    /\ needShutdown' = TRUE
    /\ main' = IF main = "accept" /\ \A c \in Conns : ~Pending(c)
               THEN "check" ELSE main
    /\ UNCHANGED <<mutexHeld, toStop, drained, threadVars, clientVars>>

\* In a thread of a connection: a receiver blocked in read() gets EINTR,
\* which it takes for the end of the connection; at any other point only the
\* flag is set.
SignalThread(c) ==
    /\ main # "exited"
    /\ rcv[c] \notin {"none", "gone"}
    /\ needShutdown' = TRUE
    /\ \/ /\ rcv[c] = "read" /\ inp[c] = <<>> /\ client[c] = "open"
          /\ rcv' = [rcv EXCEPT ![c] = "close"]
       \/ UNCHANGED rcv
    /\ UNCHANGED <<main, mutexHeld, toStop, drained, registry, dsp, flags,
                   queue, mutexes, output, clientVars>>

-----------------------------------------------------------------------------
(* main()                                                                  *)

MainGoes(from, to) ==
    /\ main = from /\ main' = to
    /\ UNCHANGED <<needShutdown, clientVars>>

\* From the last look at needShutdown to the system call: a signal that
\* comes here does not interrupt accept().
MainEnter ==
    /\ MainGoes("enter", "accept")
    /\ UNCHANGED <<mutexHeld, toStop, drained, threadVars>>

\* accept() returns a connection: a new NmDaemon, registered under the
\* mutex, with its receiver in a detached thread.
MainAccept(c) ==
    /\ MainGoes("accept", "check")
    /\ Pending(c)
    /\ object' = [object EXCEPT ![c] = "alive"]
    /\ g_activeDaemons' = g_activeDaemons \cup {c}
    /\ rcv' = [rcv EXCEPT ![c] = "start"]
    /\ UNCHANGED <<mutexHeld, toStop, drained, dsp, flags, queue, mutexes, output>>

\* accept() fails for a reason other than a signal; the loop logs it.
MainAcceptFails ==
    /\ MainGoes("accept", "check")
    /\ UNCHANGED <<mutexHeld, toStop, drained, threadVars>>

MainCheck ==
    /\ MainGoes("check", IF needShutdown THEN "lockAll" ELSE "enter")
    /\ UNCHANGED <<mutexHeld, toStop, drained, threadVars>>

\* The loop over g_activeDaemons, one shutdown() at a time under the mutex.
MainLockAll ==
    /\ MainGoes("lockAll", "stopping")
    /\ mutexHeld' = TRUE
    /\ toStop' = g_activeDaemons
    /\ UNCHANGED <<drained, threadVars>>

MainShutdown(c) ==
    /\ MainGoes("stopping", "stopping")
    /\ c \in toStop
    /\ toStop' = toStop \ {c}
    /\ stop_receiver' = [stop_receiver EXCEPT ![c] = TRUE]
    /\ stop_dispatcher' = [stop_dispatcher EXCEPT ![c] = TRUE]
    /\ UNCHANGED <<mutexHeld, drained, registry, rcv, dsp, queue, mutexes, output>>

MainUnlockAll ==
    /\ MainGoes("stopping", "poll")
    /\ toStop = {}
    /\ mutexHeld' = FALSE
    /\ UNCHANGED <<toStop, drained, threadVars>>

\* The bounded wait: it ends when nobody is registered any more ...
MainPollEmpty ==
    /\ MainGoes("poll", "report")
    /\ g_activeDaemons = {}
    /\ UNCHANGED <<mutexHeld, toStop, drained, threadVars>>

\* Mutant: the wait for the connections has no deadline.
MainGraceExpired_Unbounded ==
    /\ MainGoes("poll", "report")
    /\ g_activeDaemons = {}
    /\ UNCHANGED <<mutexHeld, toStop, drained, threadVars>>

\* ... or at the deadline, whatever the connections are doing then.
MainGraceExpired ==
    /\ MainGoes("poll", "report")
    /\ UNCHANGED <<mutexHeld, toStop, drained, threadVars>>

MainReport ==
    /\ MainGoes("report", "unlink")
    /\ drained' = IF g_activeDaemons = {} THEN "yes" ELSE "no"
    /\ UNCHANGED <<mutexHeld, toStop, threadVars>>

MainUnlink ==
    /\ MainGoes("unlink", "dtors")
    /\ UNCHANGED <<mutexHeld, toStop, drained, threadVars>>

\* main has returned and static objects are being destroyed ("dtors"); then
\* the process is gone, and every detached thread with it.
MainExit ==
    /\ MainGoes("dtors", "exited")
    /\ UNCHANGED <<mutexHeld, toStop, drained, threadVars>>

MainStep ==
    \/ MainEnter \/ MainCheck \/ MainLockAll \/ MainUnlockAll
    \/ MainPollEmpty \/ MainGraceExpired \/ MainReport \/ MainUnlink \/ MainExit
    \/ \E c \in Conns : MainAccept(c) \/ MainShutdown(c)

-----------------------------------------------------------------------------
(* Writing a frame.  write_n() goes on until the frame is out: the two     *)
(* halves of a frame are two steps.  It blocks while the client does not   *)
(* read, and fails at once when the client is gone (SIGPIPE is ignored).   *)

Gone(c)     == client[c] = "closed"
Writable(c) == ~Gone(c) /\ ~stalled[c]

Put(c, who, h) == wire' = [wire EXCEPT ![c] = Append(@, [by |-> who, half |-> h])]

LockWrite(c, who) ==
    /\ sock_access_write[c] = "none"
    /\ sock_access_write' = [sock_access_write EXCEPT ![c] = who]

UnlockWrite(c) == sock_access_write' = [sock_access_write EXCEPT ![c] = "none"]

-----------------------------------------------------------------------------
(* NmDaemon::sock_receiver                                                 *)

\* What std::string(buf) keeps of a chunk: nothing from the first NUL on.
\* Whitespace around a request is stripped, or skipped by the JSON parser.
Visible(chunk) ==
    {i \in DOMAIN chunk : /\ chunk[i].kind # "ws"
                          /\ \A j \in 1..i : chunk[j].kind # "nul"}

IsBlank(chunk) == Visible(chunk) = {}

IsRequest(chunk, n) ==
    \E i \in DOMAIN chunk : /\ Visible(chunk) = {i}
                            /\ chunk[i].kind = "req"
                            /\ chunk[i].id = n

ReceiverGoes(c, from, to) ==
    /\ main # "exited"
    /\ rcv[c] = from
    /\ rcv' = [rcv EXCEPT ![c] = to]
    /\ UNCHANGED <<mainVars, client, stalled, sent, current, executed,
                   work_access, answered>>

ReceiverStart(c) ==
    /\ ReceiverGoes(c, "start", "read")
    /\ dsp' = [dsp EXCEPT ![c] = "pop"]
    /\ UNCHANGED <<registry, flags, requests, sock_access_write, inp, wire>>

\* read() returns all there is: pieces sent in a row arrive as one chunk.
\* A chunk that is one valid request is queued.
ReceiverRead(c) ==
    /\ inp[c] # <<>>
    /\ inp' = [inp EXCEPT ![c] = <<>>]
    /\ \/ /\ IsBlank(inp[c])
          /\ ReceiverGoes(c, "read", "pause")
          /\ UNCHANGED requests
       \/ \E n \in Requests :
          /\ IsRequest(inp[c], n)
          /\ ReceiverGoes(c, "read", "pause")
          /\ requests' = [requests EXCEPT ![c] = Append(@, n)]
       \/ /\ ~IsBlank(inp[c])
          /\ \A n \in Requests : ~IsRequest(inp[c], n)
          /\ ReceiverGoes(c, "read", "invalid")
          /\ UNCHANGED requests
    /\ UNCHANGED <<registry, dsp, flags, sock_access_write, wire>>

ReceiverEof(c) ==
    /\ ReceiverGoes(c, "read", "close")
    /\ inp[c] = <<>>
    /\ client[c] \in {"half", "closed"}
    /\ UNCHANGED <<registry, dsp, flags, requests, sock_access_write, inp, wire>>

\* Mutant: the error frame is written without sock_access_write.
ReceiverLockWrite_NoMutex(c) ==
    /\ ReceiverGoes(c, "invalid", "write1")
    /\ UNCHANGED <<registry, dsp, flags, requests, sock_access_write, inp, wire>>

ReceiverLockWrite(c) ==
    /\ ReceiverGoes(c, "invalid", "write1")
    /\ LockWrite(c, "rcv")
    /\ UNCHANGED <<registry, dsp, flags, requests, inp, wire>>

ReceiverWrite1(c) ==
    /\ ReceiverGoes(c, "write1", "write2")
    /\ Writable(c)
    /\ Put(c, "rcv", 1)
    /\ UNCHANGED <<registry, dsp, flags, requests, sock_access_write, inp>>

ReceiverWrite2(c) ==
    /\ ReceiverGoes(c, "write2", "pause")
    /\ Writable(c)
    /\ Put(c, "rcv", 2)
    /\ UnlockWrite(c)
    /\ UNCHANGED <<registry, dsp, flags, requests, inp>>

ReceiverWriteFails(c) ==
    /\ \E pc \in {"write1", "write2"} : ReceiverGoes(c, pc, "pause")
    /\ Gone(c)
    /\ UnlockWrite(c)
    /\ UNCHANGED <<registry, dsp, flags, requests, inp, wire>>

\* The 200 ms sleep, then the look at stop_receiver.
ReceiverPause(c) ==
    /\ ReceiverGoes(c, "pause", IF stop_receiver[c] THEN "close" ELSE "read")
    /\ UNCHANGED <<registry, dsp, flags, requests, sock_access_write, inp, wire>>

\* Mutant: the dispatcher is not told to stop.
ReceiverClose_NoStop(c) ==
    /\ ReceiverGoes(c, "close", "join")
    /\ UNCHANGED <<registry, dsp, flags, requests, sock_access_write, inp, wire>>

ReceiverClose(c) ==
    /\ ReceiverGoes(c, "close", "join")
    /\ stop_dispatcher' = [stop_dispatcher EXCEPT ![c] = TRUE]
    /\ UNCHANGED <<registry, dsp, stop_receiver, requests, sock_access_write,
                   inp, wire>>

\* Mutant: the dispatcher is detached instead of joined.
ReceiverJoin_Detach(c) ==
    /\ ReceiverGoes(c, "join", "erase")
    /\ UNCHANGED <<registry, dsp, flags, requests, sock_access_write, inp, wire>>

ReceiverJoin(c) ==
    /\ ReceiverGoes(c, "join", "erase")
    /\ dsp[c] = "done"
    /\ UNCHANGED <<registry, dsp, flags, requests, sock_access_write, inp, wire>>

\* Mutant: the registry is changed without g_activeDaemonsMutex.
ReceiverErase_NoMutex(c) ==
    /\ ReceiverGoes(c, "erase", "delete")
    /\ g_activeDaemons' = g_activeDaemons \ {c}
    /\ UNCHANGED <<object, dsp, flags, requests, sock_access_write, inp, wire>>

\* Back in the lambda of main(): leave the registry, then free the object.
ReceiverErase(c) ==
    /\ ReceiverGoes(c, "erase", "delete")
    /\ ~mutexHeld
    /\ g_activeDaemons' = g_activeDaemons \ {c}
    /\ UNCHANGED <<object, dsp, flags, requests, sock_access_write, inp, wire>>

\* Requests still queued are never executed, and nobody frees them.
ReceiverDelete(c) ==
    /\ ReceiverGoes(c, "delete", "gone")
    /\ object' = [object EXCEPT ![c] = "freed"]
    /\ UNCHANGED <<g_activeDaemons, dsp, flags, requests, sock_access_write,
                   inp, wire>>

ReceiverStep(c) ==
    \/ ReceiverStart(c) \/ ReceiverRead(c) \/ ReceiverEof(c)
    \/ ReceiverLockWrite(c) \/ ReceiverWrite1(c) \/ ReceiverWrite2(c)
    \/ ReceiverWriteFails(c) \/ ReceiverPause(c) \/ ReceiverClose(c)
    \/ ReceiverJoin(c) \/ ReceiverErase(c) \/ ReceiverDelete(c)

-----------------------------------------------------------------------------
(* NmDaemon::dispatcher                                                    *)

DispatcherGoes(c, from, to) ==
    /\ main # "exited"
    /\ dsp[c] = from
    /\ dsp' = [dsp EXCEPT ![c] = to]
    /\ UNCHANGED <<mainVars, clientVars, registry, rcv, flags>>

\* Mutant: the request taken stays at the front of the queue.
DispatcherPop_FrontOnly(c) ==
    /\ \/ /\ requests[c] # <<>>
          /\ DispatcherGoes(c, "pop", "lock")
          /\ current' = [current EXCEPT ![c] = Head(requests[c])]
       \/ /\ requests[c] = <<>>
          /\ DispatcherGoes(c, "pop", "pause")
          /\ UNCHANGED current
    /\ UNCHANGED <<requests, executed, mutexes, output>>

DispatcherPop(c) ==
    /\ \/ /\ requests[c] # <<>>
          /\ DispatcherGoes(c, "pop", "lock")
          /\ current' = [current EXCEPT ![c] = Head(requests[c])]
          /\ requests' = [requests EXCEPT ![c] = Tail(@)]
       \/ /\ requests[c] = <<>>
          /\ DispatcherGoes(c, "pop", "pause")
          /\ UNCHANGED <<current, requests>>
    /\ UNCHANGED <<executed, mutexes, output>>

\* Mutant: execCmd() is called without work_access.
DispatcherLockWork_NoMutex(c) ==
    /\ DispatcherGoes(c, "lock", "exec")
    /\ work_access' = c
    /\ UNCHANGED <<queue, sock_access_write, output>>

DispatcherLockWork(c) ==
    /\ DispatcherGoes(c, "lock", "exec")
    /\ work_access = NoConn
    /\ work_access' = c
    /\ UNCHANGED <<queue, sock_access_write, output>>

\* Mutant: an exception in execCmd() leaves work_access locked.
DispatcherExec_KeepsMutex(c) ==
    /\ DispatcherGoes(c, "exec", "reply")
    /\ executed' = [executed EXCEPT ![c] = Append(@, current[c])]
    /\ work_access' \in {work_access, NoConn}
    /\ UNCHANGED <<requests, current, sock_access_write, output>>

\* execCmd() returns or throws; either way there is a result to send, the
\* worker's or the internal error (also when the result is too long).
DispatcherExec(c) ==
    /\ DispatcherGoes(c, "exec", "reply")
    /\ executed' = [executed EXCEPT ![c] = Append(@, current[c])]
    /\ work_access' = NoConn
    /\ UNCHANGED <<requests, current, sock_access_write, output>>

DispatcherLockWrite(c) ==
    /\ DispatcherGoes(c, "reply", "write1")
    /\ LockWrite(c, "dsp")
    /\ UNCHANGED <<queue, work_access, output>>

DispatcherWrite1(c) ==
    /\ DispatcherGoes(c, "write1", "write2")
    /\ Writable(c)
    /\ Put(c, "dsp", 1)
    /\ UNCHANGED <<queue, mutexes, answered>>

DispatcherWrite2(c) ==
    /\ DispatcherGoes(c, "write2", "pause")
    /\ Writable(c)
    /\ Put(c, "dsp", 2)
    /\ UnlockWrite(c)
    /\ answered' = [answered EXCEPT ![c] = Append(@, current[c])]
    /\ current' = [current EXCEPT ![c] = 0]
    /\ UNCHANGED <<requests, executed, work_access>>

\* Mutant: a frame that could not be written is queued for another try.
DispatcherWriteFails_Requeue(c) ==
    /\ \E pc \in {"write1", "write2"} : DispatcherGoes(c, pc, "pause")
    /\ Gone(c)
    /\ UnlockWrite(c)
    /\ requests' = [requests EXCEPT ![c] = Append(@, current[c])]
    /\ current' = [current EXCEPT ![c] = 0]
    /\ UNCHANGED <<executed, work_access, output>>

DispatcherWriteFails(c) ==
    /\ \E pc \in {"write1", "write2"} : DispatcherGoes(c, pc, "pause")
    /\ Gone(c)
    /\ UnlockWrite(c)
    /\ current' = [current EXCEPT ![c] = 0]
    /\ UNCHANGED <<requests, executed, work_access, output>>

\* The 500 ms sleep, then the look at stop_dispatcher, not at the queue.
DispatcherPause(c) ==
    /\ DispatcherGoes(c, "pause", IF stop_dispatcher[c] THEN "done" ELSE "pop")
    /\ UNCHANGED <<queue, mutexes, output>>

DispatcherStep(c) ==
    \/ DispatcherPop(c) \/ DispatcherLockWork(c) \/ DispatcherExec(c)
    \/ DispatcherLockWrite(c) \/ DispatcherWrite1(c) \/ DispatcherWrite2(c)
    \/ DispatcherWriteFails(c) \/ DispatcherPause(c)

-----------------------------------------------------------------------------
(* The whole program                                                       *)

\* An exception nobody catches ends the process at once: a thread that
\* cannot be created, in main() or in a receiver, and a worker's result that
\* json::dump() refuses because it is not UTF-8.
Terminate ==
    /\ \/ main = "accept" /\ \E c \in Conns : Pending(c)
       \/ \E c \in Conns : rcv[c] = "start" \/ dsp[c] = "exec"
    /\ main # "exited"
    /\ main' = "exited"
    /\ UNCHANGED <<needShutdown, mutexHeld, toStop, drained, threadVars, clientVars>>

\* A process that has exited does nothing more.
Exited == main = "exited" /\ UNCHANGED vars

Next ==
    \/ MainStep \/ MainAcceptFails \/ SignalMain \/ Terminate \/ Exited
    \/ \E c \in Conns : \/ ClientStep(c) \/ SignalThread(c)
                        \/ ReceiverStep(c) \/ DispatcherStep(c)

Spec == Init /\ [][Next]_vars

\* Every thread that can run does run, time passes, execCmd() returns, and a
\* thread waiting for a mutex that is released again and again gets it: each
\* holder sleeps 200 or 500 ms before it asks for the mutex again.
Fairness ==
    /\ WF_vars(MainStep)
    /\ \A c \in Conns :
        /\ WF_vars(ReceiverStep(c))
        /\ WF_vars(DispatcherStep(c))
        /\ SF_vars(ReceiverLockWrite(c))
        /\ SF_vars(DispatcherLockWrite(c))
        /\ SF_vars(DispatcherLockWork(c))

FairSpec == Spec /\ Fairness

-----------------------------------------------------------------------------
(* Properties                                                              *)

\* Every variable has its type.
TypeOK ==
    /\ main \in MainPCs
    /\ needShutdown \in BOOLEAN
    /\ mutexHeld \in BOOLEAN
    /\ toStop \subseteq Conns
    /\ drained \in {"unknown", "yes", "no"}
    /\ g_activeDaemons \subseteq Conns
    /\ object \in [Conns -> {"none", "alive", "freed"}]
    /\ rcv \in [Conns -> RcvPCs]
    /\ dsp \in [Conns -> DspPCs]
    /\ stop_receiver \in [Conns -> BOOLEAN]
    /\ stop_dispatcher \in [Conns -> BOOLEAN]
    /\ requests \in [Conns -> Seq(Requests)]
    /\ current \in [Conns -> Requests \cup {0}]
    /\ executed \in [Conns -> Seq(Requests)]
    /\ work_access \in Conns \cup {NoConn}
    /\ sock_access_write \in [Conns -> {"none", "rcv", "dsp"}]
    /\ client \in [Conns -> {"off", "open", "half", "closed"}]
    /\ stalled \in [Conns -> BOOLEAN]
    /\ inp \in [Conns -> Seq(Texts)]
    /\ sent \in [Conns -> 0..MaxSend]
    /\ wire \in [Conns -> Seq(Halves)]
    /\ answered \in [Conns -> Seq(Requests)]

\* No two dispatchers are inside execCmd() at once: the workers, which all
\* connections share, keep state of their own (NmDaemon::dispatcher).
WorkersExclusive ==
    \A c, d \in Conns : dsp[c] = "exec" /\ dsp[d] = "exec" => c = d

\* A client reads whole frames: the receiver's error frames and the
\* dispatcher's result frames never mix on a connection (sock_access_write).
FramesWhole ==
    \A c \in Conns : \A i \in DOMAIN wire[c] :
        /\ wire[c][i].half = 1 <=> i % 2 = 1
        /\ i % 2 = 0 => wire[c][i].by = wire[c][i - 1].by

\* Nobody reaches a freed NmDaemon: not the shutdown loop of main through
\* the registry, not the dispatcher through `this`.
NoUseAfterFree ==
    \A c \in Conns :
        \/ c \in g_activeDaemons \cup toStop
        \/ dsp[c] \notin {"none", "done"}
        => object[c] = "alive"

\* When main logs "All connections drained", no thread of a connection will
\* again touch a worker, the registry or its socket: what is left of it
\* frees its own object.
DrainedMeansQuiet ==
    drained = "yes" =>
        \A c \in Conns : /\ rcv[c] \in {"none", "delete", "gone"}
                         /\ dsp[c] \in {"none", "done"}

Increasing(s) == \A i, j \in DOMAIN s : i < j => s[i] < s[j]

\* What the dispatcher holds and has not given to a worker yet, and the queue.
Waiting(c) ==
    (IF dsp[c] \in {"lock", "exec"} THEN <<current[c]>> ELSE <<>>) \o requests[c]

\* The history of a connection: what is executed, then what is to come.
Accepted(c) == executed[c] \o Waiting(c)

\* The valid requests of a connection are executed in the order they were
\* sent, each at most once, and answered in that order, none before it is
\* executed (the queue between receiver and dispatcher).
ServedInOrder ==
    \A c \in Conns :
        /\ Increasing(Accepted(c))
        /\ Increasing(answered[c])
        /\ \A i \in DOMAIN answered[c] :
              \E j \in DOMAIN executed[c] : executed[c][j] = answered[c][i]

\* The dispatcher has executed a request and has still to answer it.
Serving(c) == dsp[c] \in {"reply", "write1", "write2"}

Unanswered(c) == IF Serving(c) THEN current[c] ELSE 0

\* The engine implements the serial server of RequestServer.
Server == INSTANCE RequestServer WITH
    waiting    <- [c \in Conns |-> Waiting(c)],
    busy       <- work_access,
    unanswered <- [c \in Conns |-> Unanswered(c)]

\* Every behaviour of the threads is one of RequestServer: what a client and
\* a worker see of the engine is a server that does one thing at a time.
ImplementsServer == Server!Spec

\* Once main leaves the accept loop the process ends, whatever a client or a
\* worker does: the wait for the connections is bounded.
ShutdownBounded == main = "lockAll" ~> main = "exited"

\* A client that goes away leaves nothing behind: its two threads end and
\* its NmDaemon is unregistered and freed.
ConnectionReclaimed ==
    \A c \in Conns :
        (client[c] = "closed" /\ rcv[c] # "none")
            ~> (object[c] = "freed" \/ main = "exited")

InQueue(c, n)  == \E i \in DOMAIN requests[c] : requests[c][i] = n
Answered(c, n) == \E i \in DOMAIN answered[c] : answered[c][i] = n

\* A queued request of a client that stays connected and reads is answered,
\* whatever other clients do: one that does not read blocks only itself.
AnsweredIfClientStays ==
    \A c \in Conns, n \in Requests :
        InQueue(c, n) ~>
            (\/ Answered(c, n) \/ client[c] # "open" \/ stalled[c]
             \/ needShutdown \/ main = "exited")

\* What the comment on sigaction() in main() says: a signal makes accept()
\* fail and the loop check needShutdown, so a signal ends the process.
SignalEndsProcess == needShutdown ~> main = "exited"

-----------------------------------------------------------------------------
(* The inductive invariant behind the safety properties                    *)

\* A dispatcher that is serving holds a request.
BusyInv ==
    \A c \in Conns :
        dsp[c] \in {"lock", "exec", "reply", "write1", "write2"}
            => current[c] \in Requests

\* work_access belongs to the one dispatcher inside execCmd().
WorkInv == \A c \in Conns : dsp[c] = "exec" <=> work_access = c

\* The life of a connection: the object lives from accept() to delete, the
\* dispatcher from the start of the receiver to the join, the registration
\* from accept() to erase.
LifeInv ==
    \A c \in Conns :
        /\ object[c] = "none" <=> rcv[c] = "none"
        /\ object[c] = "freed" <=> rcv[c] = "gone"
        /\ rcv[c] \in {"none", "start"} <=> dsp[c] = "none"
        /\ rcv[c] \in {"erase", "delete", "gone"} => dsp[c] = "done"
        /\ c \in g_activeDaemons <=> rcv[c] \notin {"none", "delete", "gone"}

\* main holds the mutex through the shutdown loop and only there; what it
\* still has to visit is registered; what it logged stays true.
MainInv ==
    /\ main = "stopping" => mutexHeld
    /\ mutexHeld => main \in {"stopping", "exited"}
    /\ toStop \subseteq g_activeDaemons
    /\ toStop # {} => main \in {"stopping", "exited"}
    /\ drained # "unknown" => main \in {"unlink", "dtors", "exited"}
    /\ drained = "yes" => g_activeDaemons = {}

\* sock_access_write belongs to the thread that is writing a frame.
WriteInv ==
    \A c \in Conns :
        /\ sock_access_write[c] = "rcv" <=> rcv[c] \in {"write1", "write2"}
        /\ sock_access_write[c] = "dsp" <=> dsp[c] \in {"write1", "write2"}

\* The wire is at half a frame exactly when its writer is half way, unless
\* the client is gone and nothing more is written.
HalfWritten(c) ==
    /\ rcv[c] = "write2" => /\ Len(wire[c]) % 2 = 1
                            /\ wire[c][Len(wire[c])].by = "rcv"
    /\ dsp[c] = "write2" => /\ Len(wire[c]) % 2 = 1
                            /\ wire[c][Len(wire[c])].by = "dsp"
    /\ ~Gone(c) /\ rcv[c] # "write2" /\ dsp[c] # "write2"
           => Len(wire[c]) % 2 = 0

WireInv == \A c \in Conns : HalfWritten(c)

IInv ==
    /\ TypeOK /\ BusyInv /\ WorkInv /\ LifeInv /\ MainInv
    /\ WriteInv /\ WireInv /\ FramesWhole

WasExecuted(c, n) == \E j \in DOMAIN executed[c] : executed[c][j] = n

\* The numbers of a connection grow from what is executed over what waits to
\* what is not read yet; an answer is being written for the newest request
\* executed.
InOrder(c) ==
    /\ Increasing(Accepted(c))
    /\ \A i \in DOMAIN Accepted(c) :
          /\ Accepted(c)[i] <= sent[c]
          /\ \A j \in DOMAIN inp[c] : Accepted(c)[i] < inp[c][j].id
    /\ \A j \in DOMAIN inp[c] : inp[c][j].id <= sent[c]
    /\ Increasing(answered[c])
    /\ \A i \in DOMAIN answered[c] : WasExecuted(c, answered[c][i])
    /\ Serving(c) => /\ WasExecuted(c, current[c])
                     /\ \A i \in DOMAIN answered[c] : answered[c][i] < current[c]

OrderInv == \A c \in Conns : InOrder(c)

=============================================================================
