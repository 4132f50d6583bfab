--------------------------- MODULE NmDaemonProofs ---------------------------
(***************************************************************************)
(* Proofs about NmDaemon, for any set of connections and any number of     *)
(* pieces of text.                                                         *)
(***************************************************************************)
EXTENDS NmDaemon, SequenceTheorems, TLAPS

\* Abbreviations used all over: the groups of variables.
USE DEF mainVars, registry, flags, queue, mutexes, clientVars, output, threadVars

-----------------------------------------------------------------------------
(* Types                                                                   *)

\* Client text that is sent has the type of text.
LEMMA SendTypeOK ==
  ASSUME TypeOK, NEW c \in Conns, Send(c)
  PROVE  TypeOK'
<1>1. PICK k \in Kinds :
        inp' = [inp EXCEPT ![c] = Append(@, [kind |-> k, id |-> sent[c] + 1])]
  BY DEF Send
<1>2. sent[c] + 1 \in Requests
  BY MaxSendAssumption DEF Send, TypeOK, Requests
<1>3. [kind |-> k, id |-> sent[c] + 1] \in Texts
  BY <1>2, KindsAssumption DEF Texts
<1>4. inp' \in [Conns -> Seq(Texts)]
  BY <1>1, <1>3 DEF TypeOK
<1>5. sent' \in [Conns -> 0..MaxSend]
  BY <1>2 DEF Send, TypeOK, Requests
<1> QED
  BY <1>4, <1>5 DEF Send, TypeOK

\* A step of a client keeps the types.
LEMMA ClientTypeOK ==
  ASSUME TypeOK, NEW c \in Conns, ClientStep(c)
  PROVE  TypeOK'
<1>1. ASSUME NEW from, NEW to \in {"off", "open", "half", "closed"},
             ClientGoes(c, from, to)
      PROVE  TypeOK'
  BY <1>1 DEF ClientGoes, TypeOK
<1>2. CASE Connect(c)
  BY <1>1, <1>2 DEF Connect
<1>3. CASE HalfClose(c)
  BY <1>1, <1>3 DEF HalfClose
<1>4. CASE Disconnect(c)
  BY <1>1, <1>4 DEF Disconnect
<1>5. CASE Send(c)
  BY <1>5, SendTypeOK
<1>6. CASE StallOrDrain(c)
  BY <1>6 DEF StallOrDrain, TypeOK
<1> QED
  BY <1>2, <1>3, <1>4, <1>5, <1>6 DEF ClientStep

\* A step of main() keeps the types.
LEMMA MainTypeOK ==
  ASSUME TypeOK, MainStep \/ MainAcceptFails \/ SignalMain \/ Terminate
  PROVE  TypeOK'
<1> USE DEF TypeOK, MainGoes, MainPCs
<1>1. CASE MainEnter
  BY <1>1 DEF MainEnter
<1>2. CASE MainCheck
  BY <1>2 DEF MainCheck
<1>3. CASE MainLockAll
  BY <1>3 DEF MainLockAll
<1>4. CASE MainUnlockAll
  BY <1>4 DEF MainUnlockAll
<1>5. CASE MainPollEmpty
  BY <1>5 DEF MainPollEmpty
<1>6. CASE MainGraceExpired
  BY <1>6 DEF MainGraceExpired
<1>7. CASE MainReport
  BY <1>7 DEF MainReport
<1>8. CASE MainUnlink
  BY <1>8 DEF MainUnlink
<1>9. CASE MainExit
  BY <1>9 DEF MainExit
<1>10. ASSUME NEW c \in Conns, MainAccept(c)
       PROVE  TypeOK'
  BY <1>10 DEF MainAccept, RcvPCs
<1>11. ASSUME NEW c \in Conns, MainShutdown(c)
       PROVE  TypeOK'
  BY <1>11 DEF MainShutdown
<1>12. CASE MainAcceptFails
  BY <1>12 DEF MainAcceptFails
<1>13. CASE SignalMain
  BY <1>13 DEF SignalMain
<1>14. CASE Terminate
  BY <1>14 DEF Terminate
<1> QED
  BY <1>1, <1>2, <1>3, <1>4, <1>5, <1>6, <1>7, <1>8, <1>9, <1>10, <1>11,
     <1>12, <1>13, <1>14 DEF MainStep

\* A frame half put on the wire has the type of frame halves.
LEMMA PutType ==
  ASSUME TypeOK, NEW c \in Conns, NEW who \in {"rcv", "dsp"}, NEW h \in {1, 2},
         Put(c, who, h)
  PROVE  wire' \in [Conns -> Seq(Halves)]
<1>1. [by |-> who, half |-> h] \in Halves
  BY DEF Halves
<1> QED
  BY <1>1 DEF Put, TypeOK

\* A step of a receiver, and a signal to one, keep the types.
LEMMA ReceiverTypeOK ==
  ASSUME TypeOK, NEW c \in Conns, ReceiverStep(c) \/ SignalThread(c)
  PROVE  TypeOK'
<1> USE DEF TypeOK, ReceiverGoes, RcvPCs
<1>1. CASE ReceiverStart(c)
  BY <1>1 DEF ReceiverStart, DspPCs
<1>2. CASE ReceiverRead(c)
  <2>1. /\ inp' = [inp EXCEPT ![c] = <<>>]
        /\ inp' \in [Conns -> Seq(Texts)]
    BY <1>2 DEF ReceiverRead
  <2>2. requests' \in [Conns -> Seq(Requests)]
    <3>1. ASSUME NEW n \in Requests,
                 requests' = [requests EXCEPT ![c] = Append(@, n)]
          PROVE  requests' \in [Conns -> Seq(Requests)]
      BY <3>1
    <3> QED
      BY <1>2, <3>1 DEF ReceiverRead
  <2> QED
    BY <1>2, <2>1, <2>2 DEF ReceiverRead
<1>3. CASE ReceiverEof(c)
  BY <1>3 DEF ReceiverEof
<1>4. CASE ReceiverLockWrite(c)
  BY <1>4 DEF ReceiverLockWrite, LockWrite
<1>5. CASE ReceiverWrite1(c)
  BY <1>5, PutType DEF ReceiverWrite1
<1>6. CASE ReceiverWrite2(c)
  BY <1>6, PutType DEF ReceiverWrite2, UnlockWrite
<1>7. CASE ReceiverWriteFails(c)
  BY <1>7 DEF ReceiverWriteFails, UnlockWrite
<1>8. CASE ReceiverPause(c)
  BY <1>8 DEF ReceiverPause
<1>9. CASE ReceiverClose(c)
  BY <1>9 DEF ReceiverClose
<1>10. CASE ReceiverJoin(c)
  BY <1>10 DEF ReceiverJoin
<1>11. CASE ReceiverErase(c)
  BY <1>11 DEF ReceiverErase
<1>12. CASE ReceiverDelete(c)
  BY <1>12 DEF ReceiverDelete
<1>13. CASE SignalThread(c)
  BY <1>13 DEF SignalThread
<1> QED
  BY <1>1, <1>2, <1>3, <1>4, <1>5, <1>6, <1>7, <1>8, <1>9, <1>10, <1>11,
     <1>12, <1>13 DEF ReceiverStep

\* A step of a dispatcher keeps the types: by BusyInv it executes a request,
\* not the 0 of an empty `current`.
LEMMA DispatcherTypeOK ==
  ASSUME TypeOK, BusyInv, NEW c \in Conns, DispatcherStep(c)
  PROVE  TypeOK'
<1> USE DEF TypeOK, DispatcherGoes, DspPCs
<1>1. CASE DispatcherPop(c)
  <2>1. CASE requests[c] # <<>>
    <3>1. /\ Head(requests[c]) \in Requests
          /\ Tail(requests[c]) \in Seq(Requests)
      BY <2>1
    <3>2. requests' \in [Conns -> Seq(Requests)]
      BY <1>1, <2>1, <3>1 DEF DispatcherPop
    <3>3. current' \in [Conns -> Requests \cup {0}]
      BY <1>1, <2>1, <3>1 DEF DispatcherPop
    <3>4. dsp' \in [Conns -> DspPCs]
      <4>1. dsp' = [dsp EXCEPT ![c] = "lock"]
        BY <1>1, <2>1 DEF DispatcherPop
      <4> QED
        BY <4>1
    <3> QED
      BY <1>1, <2>1, <3>2, <3>3, <3>4 DEF DispatcherPop
  <2>2. CASE requests[c] = <<>>
    BY <1>1, <2>2 DEF DispatcherPop
  <2> QED
    BY <2>1, <2>2
<1>2. CASE DispatcherLockWork(c)
  BY <1>2 DEF DispatcherLockWork
<1>3. CASE DispatcherExec(c)
  BY <1>3 DEF DispatcherExec, BusyInv
<1>4. CASE DispatcherLockWrite(c)
  BY <1>4 DEF DispatcherLockWrite, LockWrite
<1>5. CASE DispatcherWrite1(c)
  BY <1>5, PutType DEF DispatcherWrite1
<1>6. CASE DispatcherWrite2(c)
  <2>1. wire' \in [Conns -> Seq(Halves)]
    BY <1>6, PutType DEF DispatcherWrite2
  <2>2. answered' \in [Conns -> Seq(Requests)]
    <3>1. current[c] \in Requests
      BY <1>6 DEF DispatcherWrite2, BusyInv
    <3>2. answered' = [answered EXCEPT ![c] = Append(answered[c], current[c])]
      BY <1>6 DEF DispatcherWrite2
    <3>3. Append(answered[c], current[c]) \in Seq(Requests)
      BY <3>1
    <3> QED
      BY <3>2, <3>3
  <2>3. current' \in [Conns -> Requests \cup {0}]
    BY <1>6 DEF DispatcherWrite2
  <2> QED
    BY <1>6, <2>1, <2>2, <2>3 DEF DispatcherWrite2, UnlockWrite
<1>7. CASE DispatcherWriteFails(c)
  BY <1>7 DEF DispatcherWriteFails, UnlockWrite
<1>8. CASE DispatcherPause(c)
  BY <1>8 DEF DispatcherPause
<1> QED
  BY <1>1, <1>2, <1>3, <1>4, <1>5, <1>6, <1>7, <1>8 DEF DispatcherStep

-----------------------------------------------------------------------------
(* What each kind of step leaves alone                                     *)

\* Clients change nothing but their own end of a connection.
LEMMA ClientFrame ==
  ASSUME NEW c \in Conns, ClientStep(c)
  PROVE  UNCHANGED <<mainVars, threadVars>>
BY DEF ClientStep, Connect, HalfClose, Disconnect, ClientGoes, Send, StallOrDrain

\* A client that is gone stays gone, and no other part of the program
\* changes the client's end.
LEMMA ClientStaysGone ==
  ASSUME TypeOK, NEW c \in Conns, ClientStep(c), NEW d \in Conns, Gone(d)
  PROVE  Gone(d)'
BY DEF ClientStep, Connect, HalfClose, Disconnect, ClientGoes, Send,
       StallOrDrain, Gone, TypeOK

\* main() and signals leave dispatchers, queues, write mutexes, output and
\* clients alone.
LEMMA MainFrame ==
  ASSUME MainStep \/ MainAcceptFails \/ SignalMain \/ Terminate
  PROVE  UNCHANGED <<dsp, queue, mutexes, output, clientVars>>
BY DEF MainStep, MainAcceptFails, SignalMain, Terminate, MainGoes, MainEnter, MainCheck,
       MainLockAll, MainUnlockAll, MainPollEmpty, MainGraceExpired, MainReport,
       MainUnlink, MainExit, MainAccept, MainShutdown

\* A receiver leaves main(), workers, answers and other connections alone.
LEMMA ReceiverFrame ==
  ASSUME NEW c \in Conns, ReceiverStep(c)
  PROVE  UNCHANGED <<mainVars, current, executed, work_access, answered, client>>
BY DEF ReceiverStep, ReceiverGoes, ReceiverStart, ReceiverRead, ReceiverEof,
       ReceiverLockWrite, ReceiverWrite1, ReceiverWrite2, ReceiverWriteFails,
       ReceiverPause, ReceiverClose, ReceiverJoin, ReceiverErase, ReceiverDelete

\* A receiver step other than the first leaves the dispatcher alone.
LEMMA ReceiverLeavesDispatcher ==
  ASSUME NEW c \in Conns, ReceiverStep(c)
  PROVE  ReceiverStart(c) \/ UNCHANGED dsp
BY DEF ReceiverStep, ReceiverRead, ReceiverEof,
       ReceiverLockWrite, ReceiverWrite1, ReceiverWrite2, ReceiverWriteFails,
       ReceiverPause, ReceiverClose, ReceiverJoin, ReceiverErase, ReceiverDelete

\* A dispatcher leaves main(), the registry, receivers and clients alone.
LEMMA DispatcherFrame ==
  ASSUME NEW c \in Conns, DispatcherStep(c)
  PROVE  UNCHANGED <<mainVars, registry, rcv, flags, clientVars>>
BY DEF DispatcherStep, DispatcherGoes, DispatcherPop, DispatcherLockWork,
       DispatcherExec, DispatcherLockWrite, DispatcherWrite1, DispatcherWrite2,
       DispatcherWriteFails, DispatcherPause

\* A signal to a thread of a connection moves no program counter but rcv.
LEMMA SignalFrame ==
  ASSUME NEW c \in Conns, SignalThread(c)
  PROVE  UNCHANGED <<main, mutexHeld, toStop, drained, registry, dsp, flags,
                     queue, mutexes, output, clientVars>>
BY DEF SignalThread

-----------------------------------------------------------------------------
(* The parts of the invariant, one lemma each                              *)

\* A dispatcher that serves keeps the request it took off the queue.
LEMMA BusyInvNext ==
  ASSUME IInv, [Next]_vars
  PROVE  BusyInv'
<1> USE DEF BusyInv
<1>1. ASSUME NEW c \in Conns, ClientStep(c)
      PROVE  BusyInv'
  BY <1>1, ClientFrame DEF IInv
<1>2. CASE MainStep \/ MainAcceptFails \/ SignalMain \/ Terminate
  BY <1>2, MainFrame DEF IInv
<1>3. ASSUME NEW c \in Conns, SignalThread(c)
      PROVE  BusyInv'
  BY <1>3, SignalFrame DEF IInv
<1>4. ASSUME NEW c \in Conns, ReceiverStep(c)
      PROVE  BusyInv'
  <2>1. CASE ReceiverStart(c)
    BY <1>4, <2>1, ReceiverFrame DEF ReceiverStart, IInv, TypeOK
  <2>2. CASE UNCHANGED dsp
    BY <1>4, <2>2, ReceiverFrame DEF IInv
  <2> QED
    BY <1>4, <2>1, <2>2, ReceiverLeavesDispatcher
<1>5. ASSUME NEW c \in Conns, DispatcherStep(c)
      PROVE  BusyInv'
  <2> USE DEF IInv, TypeOK, DispatcherGoes
  <2>1. CASE DispatcherPop(c)
    <3>1. requests[c] # <<>> => Head(requests[c]) \in Requests
      OBVIOUS
    <3> QED
      BY <2>1, <3>1 DEF DispatcherPop
  <2>2. CASE DispatcherLockWork(c)
    BY <2>2 DEF DispatcherLockWork
  <2>3. CASE DispatcherExec(c)
    BY <2>3 DEF DispatcherExec
  <2>4. CASE DispatcherLockWrite(c)
    BY <2>4 DEF DispatcherLockWrite
  <2>5. CASE DispatcherWrite1(c)
    BY <2>5 DEF DispatcherWrite1
  <2>6. CASE DispatcherWrite2(c)
    BY <2>6 DEF DispatcherWrite2
  <2>7. CASE DispatcherWriteFails(c)
    BY <2>7 DEF DispatcherWriteFails
  <2>8. CASE DispatcherPause(c)
    BY <2>8 DEF DispatcherPause
  <2> QED
    BY <1>5, <2>1, <2>2, <2>3, <2>4, <2>5, <2>6, <2>7, <2>8 DEF DispatcherStep
<1>6. CASE UNCHANGED vars
  BY <1>6 DEF vars, IInv
<1> QED
  BY <1>1, <1>2, <1>3, <1>4, <1>5, <1>6 DEF Next, Exited

\* Only the dispatcher that holds work_access enters and leaves execCmd().
LEMMA WorkInvNext ==
  ASSUME IInv, [Next]_vars
  PROVE  WorkInv'
<1> USE DEF WorkInv
<1>1. ASSUME NEW c \in Conns, ClientStep(c)
      PROVE  WorkInv'
  BY <1>1, ClientFrame DEF IInv
<1>2. CASE MainStep \/ MainAcceptFails \/ SignalMain \/ Terminate
  BY <1>2, MainFrame DEF IInv
<1>3. ASSUME NEW c \in Conns, SignalThread(c)
      PROVE  WorkInv'
  BY <1>3, SignalFrame DEF IInv
<1>4. ASSUME NEW c \in Conns, ReceiverStep(c)
      PROVE  WorkInv'
  <2>1. CASE ReceiverStart(c)
    BY <1>4, <2>1, ReceiverFrame DEF ReceiverStart, ReceiverGoes, IInv, TypeOK, LifeInv
  <2>2. CASE UNCHANGED dsp
    BY <1>4, <2>2, ReceiverFrame DEF IInv
  <2> QED
    BY <1>4, <2>1, <2>2, ReceiverLeavesDispatcher
<1>5. ASSUME NEW c \in Conns, DispatcherStep(c)
      PROVE  WorkInv'
  <2> USE DEF DispatcherGoes
  <2>0. dsp \in [Conns -> DspPCs] /\ WorkInv
    BY DEF IInv, TypeOK
  <2>1. CASE DispatcherPop(c)
    BY <2>0, <2>1 DEF DispatcherPop
  <2>2. CASE DispatcherLockWork(c)
    BY <2>0, <2>2, ConnsAssumption DEF DispatcherLockWork
  <2>3. CASE DispatcherExec(c)
    BY <2>0, <2>3, ConnsAssumption DEF DispatcherExec
  <2>4. CASE DispatcherLockWrite(c)
    BY <2>0, <2>4 DEF DispatcherLockWrite
  <2>5. CASE DispatcherWrite1(c)
    BY <2>0, <2>5 DEF DispatcherWrite1
  <2>6. CASE DispatcherWrite2(c)
    BY <2>0, <2>6 DEF DispatcherWrite2
  <2>7. CASE DispatcherWriteFails(c)
    BY <2>0, <2>7 DEF DispatcherWriteFails
  <2>8. CASE DispatcherPause(c)
    BY <2>0, <2>8 DEF DispatcherPause
  <2> QED
    BY <1>5, <2>1, <2>2, <2>3, <2>4, <2>5, <2>6, <2>7, <2>8 DEF DispatcherStep
<1>6. CASE UNCHANGED vars
  BY <1>6 DEF vars, IInv
<1> QED
  BY <1>1, <1>2, <1>3, <1>4, <1>5, <1>6 DEF Next, Exited

\* Objects, registrations and threads of a connection come and go in order.
LEMMA LifeInvNext ==
  ASSUME IInv, [Next]_vars
  PROVE  LifeInv'
<1> USE DEF LifeInv
<1>1. ASSUME NEW c \in Conns, ClientStep(c)
      PROVE  LifeInv'
  BY <1>1, ClientFrame DEF IInv
<1>2. CASE MainStep \/ MainAcceptFails \/ SignalMain \/ Terminate
  <2>1. ASSUME NEW c \in Conns, MainAccept(c)
        PROVE  LifeInv'
    BY <2>1 DEF MainAccept, Pending, IInv, TypeOK
  <2>2. CASE UNCHANGED <<registry, rcv>>
    BY <1>2, <2>2, MainFrame DEF IInv
  <2>3. (\E c \in Conns : MainAccept(c)) \/ UNCHANGED <<registry, rcv>>
    BY <1>2 DEF MainStep, MainAcceptFails, SignalMain, Terminate, MainEnter, MainCheck,
       MainLockAll, MainUnlockAll, MainPollEmpty, MainGraceExpired, MainReport,
       MainUnlink, MainExit, MainShutdown
  <2> QED
    BY <2>1, <2>2, <2>3
<1>3. ASSUME NEW c \in Conns, SignalThread(c)
      PROVE  LifeInv'
  <2>1. rcv \in [Conns -> RcvPCs] /\ LifeInv
    BY DEF IInv, TypeOK
  <2>2. UNCHANGED <<registry, dsp>>
    BY <1>3, SignalFrame
  <2>3. rcv' = rcv \/ (rcv[c] = "read" /\ rcv' = [rcv EXCEPT ![c] = "close"])
    BY <1>3 DEF SignalThread
  <2> QED
    BY <2>1, <2>2, <2>3
<1>4. ASSUME NEW c \in Conns, ReceiverStep(c)
      PROVE  LifeInv'
  <2> USE DEF ReceiverGoes
  <2>0. /\ rcv \in [Conns -> RcvPCs] /\ dsp \in [Conns -> DspPCs]
        /\ object \in [Conns -> {"none", "alive", "freed"}]
        /\ g_activeDaemons \subseteq Conns /\ LifeInv
    BY DEF IInv, TypeOK
  <2>a. ASSUME UNCHANGED <<registry, dsp>>,
               NEW to \in RcvPCs \ {"none", "start", "erase", "delete", "gone"},
               rcv[c] \notin {"none", "start", "delete", "gone"},
               rcv' = [rcv EXCEPT ![c] = to]
        PROVE  LifeInv'
    BY <2>0, <2>a
  <2>1. CASE ReceiverStart(c)
    BY <2>0, <2>1 DEF ReceiverStart
  <2>2. CASE ReceiverRead(c)
    BY <2>2, <2>a DEF ReceiverRead, RcvPCs
  <2>3. CASE ReceiverEof(c)
    BY <2>0, <2>3 DEF ReceiverEof
  <2>4. CASE ReceiverLockWrite(c)
    BY <2>0, <2>4 DEF ReceiverLockWrite
  <2>5. CASE ReceiverWrite1(c)
    BY <2>0, <2>5 DEF ReceiverWrite1
  <2>6. CASE ReceiverWrite2(c)
    BY <2>0, <2>6 DEF ReceiverWrite2
  <2>7. CASE ReceiverWriteFails(c)
    BY <2>0, <2>7 DEF ReceiverWriteFails
  <2>8. CASE ReceiverPause(c)
    BY <2>0, <2>8 DEF ReceiverPause
  <2>9. CASE ReceiverClose(c)
    BY <2>0, <2>9 DEF ReceiverClose
  <2>10. CASE ReceiverJoin(c)
    BY <2>0, <2>10 DEF ReceiverJoin
  <2>11. CASE ReceiverErase(c)
    BY <2>0, <2>11 DEF ReceiverErase
  <2>12. CASE ReceiverDelete(c)
    BY <2>0, <2>12 DEF ReceiverDelete
  <2> QED
    BY <1>4, <2>1, <2>2, <2>3, <2>4, <2>5, <2>6, <2>7, <2>8, <2>9, <2>10,
       <2>11, <2>12 DEF ReceiverStep
<1>5. ASSUME NEW c \in Conns, DispatcherStep(c)
      PROVE  LifeInv'
  <2>1. dsp[c] \notin {"none", "done"}
    BY <1>5 DEF DispatcherStep, DispatcherGoes, DispatcherPop,
       DispatcherLockWork, DispatcherExec, DispatcherLockWrite,
       DispatcherWrite1, DispatcherWrite2, DispatcherWriteFails, DispatcherPause
  <2>2. \E pc \in DspPCs \ {"none"} : dsp' = [dsp EXCEPT ![c] = pc]
    BY <1>5 DEF DispatcherStep, DispatcherGoes, DispatcherPop,
       DispatcherLockWork, DispatcherExec, DispatcherLockWrite, DspPCs,
       DispatcherWrite1, DispatcherWrite2, DispatcherWriteFails, DispatcherPause
  <2> QED
    BY <1>5, <2>1, <2>2, DispatcherFrame DEF IInv, TypeOK
<1>6. CASE UNCHANGED vars
  BY <1>6 DEF vars, IInv
<1> QED
  BY <1>1, <1>2, <1>3, <1>4, <1>5, <1>6 DEF Next, Exited

\* The registry stays still under main()'s shutdown loop, and no connection
\* is registered after the loop of accept().
LEMMA MainInvNext ==
  ASSUME IInv, [Next]_vars
  PROVE  MainInv'
<1> USE DEF MainInv
<1>1. ASSUME NEW c \in Conns, ClientStep(c)
      PROVE  MainInv'
  BY <1>1, ClientFrame DEF IInv
<1>2. CASE MainStep \/ MainAcceptFails \/ SignalMain \/ Terminate
  <2> USE DEF IInv, TypeOK, MainGoes
  <2>1. CASE MainEnter
    BY <2>1 DEF MainEnter
  <2>2. CASE MainCheck
    BY <2>2 DEF MainCheck
  <2>3. CASE MainLockAll
    BY <2>3 DEF MainLockAll
  <2>4. CASE MainUnlockAll
    BY <2>4 DEF MainUnlockAll
  <2>5. CASE MainPollEmpty
    BY <2>5 DEF MainPollEmpty
  <2>6. CASE MainGraceExpired
    BY <2>6 DEF MainGraceExpired
  <2>7. CASE MainReport
    BY <2>7 DEF MainReport
  <2>8. CASE MainUnlink
    BY <2>8 DEF MainUnlink
  <2>9. CASE MainExit
    BY <2>9 DEF MainExit
  <2>10. ASSUME NEW c \in Conns, MainAccept(c)
         PROVE  MainInv'
    BY <2>10 DEF MainAccept
  <2>11. ASSUME NEW c \in Conns, MainShutdown(c)
         PROVE  MainInv'
    BY <2>11 DEF MainShutdown
  <2>12. CASE MainAcceptFails
    BY <2>12 DEF MainAcceptFails
  <2>13. CASE SignalMain
    BY <2>13 DEF SignalMain
  <2>14. CASE Terminate
    BY <2>14 DEF Terminate
  <2> QED
    BY <1>2, <2>1, <2>2, <2>3, <2>4, <2>5, <2>6, <2>7, <2>8, <2>9, <2>10,
       <2>11, <2>12, <2>13, <2>14 DEF MainStep
<1>3. ASSUME NEW c \in Conns, SignalThread(c)
      PROVE  MainInv'
  BY <1>3, SignalFrame DEF IInv
<1>4. ASSUME NEW c \in Conns, ReceiverStep(c)
      PROVE  MainInv'
  <2>1. CASE ReceiverErase(c)
    BY <1>4, <2>1 DEF ReceiverErase, ReceiverGoes, IInv
  <2>2. CASE UNCHANGED g_activeDaemons
    BY <1>4, <2>2, ReceiverFrame DEF IInv
  <2>3. ReceiverErase(c) \/ UNCHANGED g_activeDaemons
    BY <1>4 DEF ReceiverStep, ReceiverStart, ReceiverRead, ReceiverEof,
       ReceiverLockWrite, ReceiverWrite1, ReceiverWrite2, ReceiverWriteFails,
       ReceiverPause, ReceiverClose, ReceiverJoin, ReceiverDelete
  <2> QED
    BY <2>1, <2>2, <2>3
<1>5. ASSUME NEW c \in Conns, DispatcherStep(c)
      PROVE  MainInv'
  BY <1>5, DispatcherFrame DEF IInv
<1>6. CASE UNCHANGED vars
  BY <1>6 DEF vars, IInv
<1> QED
  BY <1>1, <1>2, <1>3, <1>4, <1>5, <1>6 DEF Next, Exited

\* Who may write: the mutex follows the program counters.
LEMMA WriteInvNext ==
  ASSUME IInv, [Next]_vars
  PROVE  WriteInv'
<1> USE DEF WriteInv
<1>1. ASSUME NEW c \in Conns, ClientStep(c)
      PROVE  WriteInv'
  BY <1>1, ClientFrame DEF IInv
<1>2. CASE MainStep \/ MainAcceptFails \/ SignalMain \/ Terminate
  <2>1. ASSUME NEW c \in Conns, MainAccept(c)
        PROVE  WriteInv'
    BY <2>1 DEF MainAccept, Pending, IInv, TypeOK, LifeInv
  <2>2. CASE UNCHANGED rcv
    BY <1>2, <2>2, MainFrame DEF IInv
  <2>3. (\E c \in Conns : MainAccept(c)) \/ UNCHANGED rcv
    BY <1>2 DEF MainStep, MainAcceptFails, SignalMain, Terminate, MainEnter, MainCheck,
       MainLockAll, MainUnlockAll, MainPollEmpty, MainGraceExpired, MainReport,
       MainUnlink, MainExit, MainShutdown
  <2> QED
    BY <2>1, <2>2, <2>3
<1>3. ASSUME NEW c \in Conns, SignalThread(c)
      PROVE  WriteInv'
  BY <1>3 DEF SignalThread, IInv, TypeOK
<1>4. ASSUME NEW c \in Conns, ReceiverStep(c)
      PROVE  WriteInv'
  <2> USE DEF IInv, TypeOK, ReceiverGoes
  <2>1. CASE ReceiverStart(c)
    BY <2>1 DEF ReceiverStart, LifeInv
  <2>2. CASE ReceiverRead(c)
    BY <2>2 DEF ReceiverRead
  <2>3. CASE ReceiverEof(c)
    BY <2>3 DEF ReceiverEof
  <2>4. CASE ReceiverLockWrite(c)
    BY <2>4 DEF ReceiverLockWrite, LockWrite
  <2>5. CASE ReceiverWrite1(c)
    BY <2>5 DEF ReceiverWrite1
  <2>6. CASE ReceiverWrite2(c)
    BY <2>6 DEF ReceiverWrite2, UnlockWrite
  <2>7. CASE ReceiverWriteFails(c)
    BY <2>7 DEF ReceiverWriteFails, UnlockWrite
  <2>8. CASE ReceiverPause(c)
    BY <2>8 DEF ReceiverPause
  <2>9. CASE ReceiverClose(c)
    BY <2>9 DEF ReceiverClose
  <2>10. CASE ReceiverJoin(c)
    BY <2>10 DEF ReceiverJoin
  <2>11. CASE ReceiverErase(c)
    BY <2>11 DEF ReceiverErase
  <2>12. CASE ReceiverDelete(c)
    BY <2>12 DEF ReceiverDelete
  <2> QED
    BY <1>4, <2>1, <2>2, <2>3, <2>4, <2>5, <2>6, <2>7, <2>8, <2>9, <2>10,
       <2>11, <2>12 DEF ReceiverStep
<1>5. ASSUME NEW c \in Conns, DispatcherStep(c)
      PROVE  WriteInv'
  <2> USE DEF IInv, TypeOK, DispatcherGoes
  <2>1. CASE DispatcherPop(c)
    BY <2>1 DEF DispatcherPop
  <2>2. CASE DispatcherLockWork(c)
    BY <2>2 DEF DispatcherLockWork
  <2>3. CASE DispatcherExec(c)
    BY <2>3 DEF DispatcherExec
  <2>4. CASE DispatcherLockWrite(c)
    BY <2>4 DEF DispatcherLockWrite, LockWrite
  <2>5. CASE DispatcherWrite1(c)
    BY <2>5 DEF DispatcherWrite1
  <2>6. CASE DispatcherWrite2(c)
    BY <2>6 DEF DispatcherWrite2, UnlockWrite
  <2>7. CASE DispatcherWriteFails(c)
    BY <2>7 DEF DispatcherWriteFails, UnlockWrite
  <2>8. CASE DispatcherPause(c)
    BY <2>8 DEF DispatcherPause
  <2> QED
    BY <1>5, <2>1, <2>2, <2>3, <2>4, <2>5, <2>6, <2>7, <2>8 DEF DispatcherStep
<1>6. CASE UNCHANGED vars
  BY <1>6 DEF vars, IInv
<1> QED
  BY <1>1, <1>2, <1>3, <1>4, <1>5, <1>6 DEF Next, Exited

\* Even and odd alternate.
LEMMA Parity ==
  \A n \in Nat : /\ n % 2 = 1 => n # 0
                 /\ n % 2 = 0 => (n + 1) % 2 = 1
                 /\ n % 2 = 1 => (n + 1) % 2 = 0
OBVIOUS

\* Putting half a frame where it belongs: a first half after whole frames, a
\* second half after the first half of the same writer.
LEMMA PutFrames ==
  ASSUME TypeOK, FramesWhole, NEW c \in Conns, NEW who \in {"rcv", "dsp"},
         NEW h \in {1, 2}, Put(c, who, h),
         h = 1 => Len(wire[c]) % 2 = 0,
         h = 2 => Len(wire[c]) % 2 = 1 /\ wire[c][Len(wire[c])].by = who
  PROVE  /\ FramesWhole'
         /\ Len(wire'[c]) = Len(wire[c]) + 1
         /\ wire'[c][Len(wire[c]) + 1].by = who
         /\ \A d \in Conns \ {c} : wire'[d] = wire[d]
<1> DEFINE w == wire[c]
           x == [by |-> who, half |-> h]
<1>1. /\ wire' = [wire EXCEPT ![c] = Append(w, x)]
      /\ wire'[c] = Append(w, x)
      /\ \A d \in Conns \ {c} : wire'[d] = wire[d]
  BY DEF Put, TypeOK
<1>2. /\ w \in Seq(Halves)
      /\ x \in Halves
      /\ x.by = who /\ x.half = h
      /\ Len(w) \in Nat
  BY DEF TypeOK, Halves
<1>3. /\ Len(Append(w, x)) = Len(w) + 1
      /\ Append(w, x)[Len(w) + 1] = x
      /\ \A i \in 1..Len(w) : Append(w, x)[i] = w[i]
      /\ DOMAIN Append(w, x) = 1..(Len(w) + 1)
      /\ DOMAIN w = 1..Len(w)
  BY <1>2
<1>4. \A i \in 1..Len(w) : /\ w[i].half = 1 <=> i % 2 = 1
                           /\ i % 2 = 0 => w[i].by = w[i - 1].by
  BY <1>3 DEF FramesWhole
<1>5. ASSUME NEW i \in DOMAIN Append(w, x)
      PROVE  /\ Append(w, x)[i].half = 1 <=> i % 2 = 1
             /\ i % 2 = 0 => Append(w, x)[i].by = Append(w, x)[i - 1].by
  <2>1. CASE i \in 1..Len(w)
    <3>1. i % 2 = 0 => i - 1 \in 1..Len(w)
      BY <1>2, <2>1
    <3> QED
      BY <1>3, <1>4, <2>1, <3>1
  <2>2. CASE i = Len(w) + 1
    <3>1. CASE h = 1
      <4>1. i % 2 = 1
        BY <1>2, <2>2, <3>1, Parity
      <4>2. Append(w, x)[i].half = 1
        BY <1>2, <1>3, <2>2, <3>1
      <4> QED
        BY <4>1, <4>2
    <3>2. CASE h = 2
      <4>1. Len(w) % 2 = 1
        BY <3>2
      <4>2. i % 2 = 0
        BY <1>2, <2>2, <4>1, Parity
      <4>3. Len(w) # 0
        BY <1>2, <4>1, Parity
      <4>4. i - 1 = Len(w) /\ Len(w) \in 1..Len(w)
        BY <1>2, <2>2, <4>3
      <4>5. Append(w, x)[i].half = 2 /\ Append(w, x)[i].by = who
        BY <1>2, <1>3, <2>2, <3>2
      <4>6. Append(w, x)[i - 1].by = who
        BY <1>3, <3>2, <4>4
      <4> QED
        BY <4>2, <4>5, <4>6
    <3> QED
      BY <3>1, <3>2
  <2> QED
    BY <1>2, <1>3, <2>1, <2>2
<1>6. FramesWhole'
  <2> SUFFICES ASSUME NEW d \in Conns, NEW i \in DOMAIN wire'[d]
               PROVE  /\ wire'[d][i].half = 1 <=> i % 2 = 1
                      /\ i % 2 = 0 => wire'[d][i].by = wire'[d][i - 1].by
    BY DEF FramesWhole
  <2>1. CASE d = c
    BY <1>1, <1>5, <2>1
  <2>2. CASE d # c
    BY <1>1, <2>2 DEF FramesWhole
  <2> QED
    BY <2>1, <2>2
<1> QED
  BY <1>1, <1>2, <1>3, <1>6

\* A connection whose wire and writers stay as they are stays consistent.
LEMMA HalfWrittenStays ==
  ASSUME NEW d \in Conns, HalfWritten(d), wire'[d] = wire[d],
         rcv'[d] = "write2" <=> rcv[d] = "write2",
         dsp'[d] = "write2" <=> dsp[d] = "write2",
         Gone(d) => Gone(d)'
  PROVE  HalfWritten(d)'
BY DEF HalfWritten

\* The same for all connections, and their frames.
LEMMA WireStays ==
  ASSUME WireInv, FramesWhole, UNCHANGED wire,
         \A d \in Conns : /\ rcv'[d] = "write2" <=> rcv[d] = "write2"
                          /\ dsp'[d] = "write2" <=> dsp[d] = "write2"
                          /\ Gone(d) => Gone(d)'
  PROVE  WireInv' /\ FramesWhole'
<1>1. WireInv'
  BY HalfWrittenStays DEF WireInv
<1>2. FramesWhole'
  BY DEF FramesWhole
<1> QED
  BY <1>1, <1>2

\* The first half of a frame, on a connection that is not half way.
LEMMA WireFirstHalf ==
  ASSUME WireInv, TypeOK, FramesWhole, NEW c \in Conns, NEW who \in {"rcv", "dsp"},
         Put(c, who, 1), Len(wire[c]) % 2 = 0, UNCHANGED client,
         \A d \in Conns \ {c} : /\ rcv'[d] = "write2" <=> rcv[d] = "write2"
                                /\ dsp'[d] = "write2" <=> dsp[d] = "write2",
         rcv'[c] = "write2" <=> who = "rcv",
         dsp'[c] = "write2" <=> who = "dsp"
  PROVE  WireInv' /\ FramesWhole'
<1>0. 1 \in {1, 2} /\ 2 \in {1, 2} /\ 1 # 2
  OBVIOUS
<1>1. /\ FramesWhole'
      /\ Len(wire'[c]) = Len(wire[c]) + 1
      /\ wire'[c][Len(wire[c]) + 1].by = who
      /\ \A d \in Conns \ {c} : wire'[d] = wire[d]
  BY <1>0, PutFrames, Zenon
<1>2. Len(wire'[c]) % 2 = 1 /\ wire'[c][Len(wire'[c])].by = who
  <2>1. Len(wire[c]) \in Nat
    <3>1. wire[c] \in Seq(Halves)
      BY DEF TypeOK
    <3> QED
      BY <3>1
  <2> QED
    BY <1>1, <2>1, Parity
<1>3. HalfWritten(c)'
  BY <1>2 DEF HalfWritten
<1>4. ASSUME NEW d \in Conns \ {c}
      PROVE  HalfWritten(d)'
  BY <1>1, HalfWrittenStays DEF WireInv, Gone
<1> QED
  BY <1>1, <1>3, <1>4 DEF WireInv

\* The second half, by the thread that wrote the first.
LEMMA WireSecondHalf ==
  ASSUME WireInv, TypeOK, FramesWhole, NEW c \in Conns, NEW who \in {"rcv", "dsp"},
         Put(c, who, 2), Len(wire[c]) % 2 = 1, wire[c][Len(wire[c])].by = who,
         UNCHANGED client,
         \A d \in Conns \ {c} : /\ rcv'[d] = "write2" <=> rcv[d] = "write2"
                                /\ dsp'[d] = "write2" <=> dsp[d] = "write2",
         rcv'[c] # "write2", dsp'[c] # "write2"
  PROVE  WireInv' /\ FramesWhole'
<1>0. 1 \in {1, 2} /\ 2 \in {1, 2} /\ 1 # 2
  OBVIOUS
<1>1. /\ FramesWhole'
      /\ Len(wire'[c]) = Len(wire[c]) + 1
      /\ \A d \in Conns \ {c} : wire'[d] = wire[d]
  BY <1>0, PutFrames, Zenon
<1>2. Len(wire'[c]) % 2 = 0
  <2>1. Len(wire[c]) \in Nat
    <3>1. wire[c] \in Seq(Halves)
      BY DEF TypeOK
    <3> QED
      BY <3>1
  <2> QED
    BY <1>1, <2>1, Parity
<1>3. HalfWritten(c)'
  BY <1>2 DEF HalfWritten
<1>4. ASSUME NEW d \in Conns \ {c}
      PROVE  HalfWritten(d)'
  BY <1>1, HalfWrittenStays DEF WireInv, Gone
<1> QED
  BY <1>1, <1>3, <1>4 DEF WireInv

\* On the wire: whole frames, and at most one half of one being written.
LEMMA WireInvNext ==
  ASSUME IInv, [Next]_vars
  PROVE  WireInv' /\ FramesWhole'
<1> DEFINE Goal == WireInv' /\ FramesWhole'
<1>0. /\ TypeOK /\ WireInv /\ FramesWhole /\ WriteInv /\ LifeInv
      /\ \A c \in Conns : HalfWritten(c)
  BY DEF IInv, WireInv
<1>1. ASSUME NEW c \in Conns, ClientStep(c)
      PROVE  Goal
  BY <1>0, <1>1, ClientStaysGone, ClientFrame, WireStays
<1>2. CASE MainStep \/ MainAcceptFails \/ SignalMain \/ Terminate
  <2>1. UNCHANGED <<dsp, wire, client>>
    BY <1>2, MainFrame
  <2>2. \A c \in Conns : rcv'[c] = "write2" <=> rcv[c] = "write2"
    <3>1. ASSUME NEW c \in Conns, MainAccept(c)
          PROVE  \A d \in Conns : rcv'[d] = "write2" <=> rcv[d] = "write2"
      BY <1>0, <3>1 DEF MainAccept, Pending, TypeOK, LifeInv
    <3>2. (\E c \in Conns : MainAccept(c)) \/ UNCHANGED rcv
      BY <1>2 DEF MainStep, MainAcceptFails, SignalMain, Terminate, MainEnter, MainCheck,
         MainLockAll, MainUnlockAll, MainPollEmpty, MainGraceExpired,
         MainReport, MainUnlink, MainExit, MainShutdown
    <3> QED
      BY <3>1, <3>2
  <2> QED
    BY <1>0, <2>1, <2>2, WireStays DEF Gone
<1>3. ASSUME NEW c \in Conns, SignalThread(c)
      PROVE  Goal
  <2>1. UNCHANGED <<dsp, wire, client>>
    BY <1>3, SignalFrame
  <2>2. \A d \in Conns : rcv'[d] = "write2" <=> rcv[d] = "write2"
    BY <1>0, <1>3 DEF SignalThread, TypeOK
  <2> QED
    BY <1>0, <2>1, <2>2, WireStays DEF Gone
<1>4. ASSUME NEW c \in Conns, ReceiverStep(c)
      PROVE  Goal
  <2>1. UNCHANGED client
    BY <1>4, ReceiverFrame
  <2>2. CASE ReceiverWrite1(c)
    <3>1. /\ Put(c, "rcv", 1)
          /\ rcv' = [rcv EXCEPT ![c] = "write2"]
          /\ UNCHANGED dsp
          /\ rcv[c] = "write1" /\ ~Gone(c)
      BY <2>2 DEF ReceiverWrite1, ReceiverGoes, Writable
    <3>2. dsp[c] # "write2"
      BY <1>0, <3>1 DEF WriteInv
    <3>3. Len(wire[c]) % 2 = 0
      BY <1>0, <3>1, <3>2 DEF HalfWritten
    <3>4. /\ \A d \in Conns \ {c} : /\ rcv'[d] = rcv[d]
                                    /\ dsp'[d] = dsp[d]
          /\ rcv'[c] = "write2"
          /\ dsp'[c] # "write2"
      BY <1>0, <2>1, <3>1, <3>2 DEF TypeOK
    <3> QED
      BY <1>0, <2>1, <3>1, <3>3, <3>4, WireFirstHalf
  <2>3. CASE ReceiverWrite2(c)
    <3>1. /\ Put(c, "rcv", 2)
          /\ rcv' = [rcv EXCEPT ![c] = "pause"]
          /\ UNCHANGED dsp
          /\ rcv[c] = "write2"
      BY <2>3 DEF ReceiverWrite2, ReceiverGoes
    <3>2. dsp[c] # "write2"
      BY <1>0, <3>1 DEF WriteInv
    <3>3. Len(wire[c]) % 2 = 1 /\ wire[c][Len(wire[c])].by = "rcv"
      BY <1>0, <3>1 DEF HalfWritten
    <3>4. /\ \A d \in Conns \ {c} : /\ rcv'[d] = rcv[d]
                                    /\ dsp'[d] = dsp[d]
          /\ rcv'[c] = "pause"
          /\ dsp'[c] # "write2"
      BY <1>0, <2>1, <3>1, <3>2 DEF TypeOK
    <3> QED
      BY <1>0, <2>1, <3>1, <3>3, <3>4, WireSecondHalf
  <2>4. CASE ReceiverWriteFails(c)
    <3>1. ASSUME NEW d \in Conns
          PROVE  HalfWritten(d)'
      BY <1>0, <2>1, <2>4 DEF ReceiverWriteFails, ReceiverGoes, TypeOK, Gone, HalfWritten
    <3> QED
      BY <1>0, <2>4, <3>1 DEF ReceiverWriteFails, FramesWhole, WireInv
  <2>5. CASE ReceiverStart(c)
    <3>1. \A d \in Conns : /\ rcv'[d] = "write2" <=> rcv[d] = "write2"
                           /\ dsp'[d] = "write2" <=> dsp[d] = "write2"
      BY <1>0, <2>5 DEF ReceiverStart, ReceiverGoes, TypeOK, LifeInv
    <3> QED
      BY <1>0, <2>1, <2>5, <3>1, WireStays DEF ReceiverStart, Gone
  <2>6. CASE /\ UNCHANGED <<dsp, wire>>
             /\ \A d \in Conns : rcv'[d] = "write2" <=> rcv[d] = "write2"
    BY <1>0, <2>1, <2>6, WireStays DEF Gone
  <2>7. \/ ReceiverWrite1(c) \/ ReceiverWrite2(c) \/ ReceiverWriteFails(c)
        \/ ReceiverStart(c)
        \/ /\ UNCHANGED <<dsp, wire>>
           /\ \A d \in Conns : rcv'[d] = "write2" <=> rcv[d] = "write2"
    BY <1>0, <1>4 DEF ReceiverStep, ReceiverGoes, ReceiverRead, ReceiverEof,
       ReceiverLockWrite, ReceiverPause, ReceiverClose, ReceiverJoin,
       ReceiverErase, ReceiverDelete, TypeOK
  <2> QED
    BY <2>2, <2>3, <2>4, <2>5, <2>6, <2>7
<1>5. ASSUME NEW c \in Conns, DispatcherStep(c)
      PROVE  Goal
  <2>1. UNCHANGED <<client, rcv>>
    BY <1>5, DispatcherFrame
  <2>2. CASE DispatcherWrite1(c)
    <3>1. /\ Put(c, "dsp", 1)
          /\ dsp' = [dsp EXCEPT ![c] = "write2"]
          /\ dsp[c] = "write1" /\ ~Gone(c)
      BY <2>2 DEF DispatcherWrite1, DispatcherGoes, Writable
    <3>2. rcv[c] # "write2"
      BY <1>0, <3>1 DEF WriteInv
    <3>3. Len(wire[c]) % 2 = 0
      BY <1>0, <3>1, <3>2 DEF HalfWritten
    <3>4. /\ \A d \in Conns \ {c} : /\ rcv'[d] = rcv[d]
                                    /\ dsp'[d] = dsp[d]
          /\ dsp'[c] = "write2"
          /\ rcv'[c] # "write2"
      BY <1>0, <2>1, <3>1, <3>2 DEF TypeOK
    <3> QED
      BY <1>0, <2>1, <3>1, <3>3, <3>4, WireFirstHalf
  <2>3. CASE DispatcherWrite2(c)
    <3>1. /\ Put(c, "dsp", 2)
          /\ dsp' = [dsp EXCEPT ![c] = "pause"]
          /\ dsp[c] = "write2"
      BY <2>3 DEF DispatcherWrite2, DispatcherGoes
    <3>2. rcv[c] # "write2"
      BY <1>0, <3>1 DEF WriteInv
    <3>3. Len(wire[c]) % 2 = 1 /\ wire[c][Len(wire[c])].by = "dsp"
      BY <1>0, <3>1 DEF HalfWritten
    <3>4. /\ \A d \in Conns \ {c} : /\ rcv'[d] = rcv[d]
                                    /\ dsp'[d] = dsp[d]
          /\ dsp'[c] = "pause"
          /\ rcv'[c] # "write2"
      BY <1>0, <2>1, <3>1, <3>2 DEF TypeOK
    <3> QED
      BY <1>0, <2>1, <3>1, <3>3, <3>4, WireSecondHalf
  <2>4. CASE DispatcherWriteFails(c)
    <3>1. ASSUME NEW d \in Conns
          PROVE  HalfWritten(d)'
      BY <1>0, <2>1, <2>4 DEF DispatcherWriteFails, DispatcherGoes, TypeOK, Gone,
         HalfWritten
    <3> QED
      BY <1>0, <2>4, <3>1 DEF DispatcherWriteFails, FramesWhole, WireInv
  <2>5. CASE /\ UNCHANGED wire
             /\ \A d \in Conns : dsp'[d] = "write2" <=> dsp[d] = "write2"
    BY <1>0, <2>1, <2>5, WireStays DEF Gone
  <2>6. \/ DispatcherWrite1(c) \/ DispatcherWrite2(c) \/ DispatcherWriteFails(c)
        \/ /\ UNCHANGED wire
           /\ \A d \in Conns : dsp'[d] = "write2" <=> dsp[d] = "write2"
    BY <1>0, <1>5 DEF DispatcherStep, DispatcherGoes, DispatcherPop,
       DispatcherLockWork, DispatcherExec, DispatcherLockWrite,
       DispatcherPause, TypeOK
  <2> QED
    BY <2>2, <2>3, <2>4, <2>5, <2>6
<1>6. CASE UNCHANGED vars
  BY <1>0, <1>6, WireStays DEF vars, Gone
<1> QED
  BY <1>1, <1>2, <1>3, <1>4, <1>5, <1>6 DEF Next, Exited

-----------------------------------------------------------------------------
(* The theorems                                                            *)

\* The invariant holds when main() enters its accept loop.
LEMMA IInvInit == Init => IInv
<1> SUFFICES ASSUME Init PROVE IInv
  OBVIOUS
<1>1. TypeOK
  <2>1. /\ main \in MainPCs /\ needShutdown \in BOOLEAN /\ mutexHeld \in BOOLEAN
        /\ toStop \subseteq Conns /\ drained \in {"unknown", "yes", "no"}
        /\ g_activeDaemons \subseteq Conns /\ work_access \in Conns \cup {NoConn}
    BY DEF Init, MainPCs
  <2>2. /\ object \in [Conns -> {"none", "alive", "freed"}]
        /\ rcv \in [Conns -> RcvPCs]
        /\ dsp \in [Conns -> DspPCs]
        /\ sock_access_write \in [Conns -> {"none", "rcv", "dsp"}]
        /\ client \in [Conns -> {"off", "open", "half", "closed"}]
    BY DEF Init, RcvPCs, DspPCs
  <2>3. /\ stop_receiver \in [Conns -> BOOLEAN]
        /\ stop_dispatcher \in [Conns -> BOOLEAN]
        /\ stalled \in [Conns -> BOOLEAN]
    BY DEF Init
  <2>4. /\ current \in [Conns -> Requests \cup {0}]
        /\ sent \in [Conns -> 0..MaxSend]
    BY MaxSendAssumption DEF Init
  <2>5. <<>> \in Seq(Requests) /\ <<>> \in Seq(Texts) /\ <<>> \in Seq(Halves)
    OBVIOUS
  <2>6. /\ requests \in [Conns -> Seq(Requests)]
        /\ executed \in [Conns -> Seq(Requests)]
        /\ answered \in [Conns -> Seq(Requests)]
        /\ inp \in [Conns -> Seq(Texts)]
        /\ wire \in [Conns -> Seq(Halves)]
    BY <2>5, Zenon DEF Init
  <2> QED
    BY <2>1, <2>2, <2>3, <2>4, <2>6 DEF TypeOK
<1>2. BusyInv /\ LifeInv /\ WriteInv
  <2>1. BusyInv
    BY DEF Init, BusyInv
  <2>2. LifeInv
    BY DEF Init, LifeInv
  <2>3. WriteInv
    BY DEF Init, WriteInv
  <2> QED
    BY <2>1, <2>2, <2>3
<1>3. WorkInv
  BY ConnsAssumption DEF Init, WorkInv
<1>4. MainInv
  BY DEF Init, MainInv
<1>5. WireInv /\ FramesWhole
  <2>1. \A c \in Conns : wire[c] = <<>> /\ rcv[c] = "none" /\ dsp[c] = "none"
    BY DEF Init
  <2>2. Len(<<>>) % 2 = 0 /\ DOMAIN <<>> = {}
    OBVIOUS
  <2>3. WireInv
    BY <2>1, <2>2 DEF WireInv, HalfWritten
  <2> QED
    BY <2>1, <2>2, <2>3 DEF FramesWhole
<1> QED
  BY <1>1, <1>2, <1>3, <1>4, <1>5 DEF IInv

\* Every step keeps it.
LEMMA IInvNext == IInv /\ [Next]_vars => IInv'
<1> SUFFICES ASSUME IInv, [Next]_vars PROVE IInv'
  OBVIOUS
<1>1. TypeOK'
  <2>1. TypeOK /\ BusyInv
    BY DEF IInv
  <2>2. CASE UNCHANGED vars
    BY <2>1, <2>2 DEF vars, TypeOK
  <2> QED
    BY <2>1, <2>2, ClientTypeOK, MainTypeOK, ReceiverTypeOK, DispatcherTypeOK
    DEF Next, Exited
<1> QED
  BY <1>1, BusyInvNext, WorkInvNext, LifeInvNext, MainInvNext, WriteInvNext,
     WireInvNext DEF IInv

\* The inductive invariant of the connection engine.
THEOREM Invariance == Spec => []IInv
BY IInvInit, IInvNext, PTL DEF Spec

\* Variables keep their types, whatever clients, signals and threads do.
THEOREM TypeCorrect == Spec => []TypeOK
<1>1. IInv => TypeOK
  BY DEF IInv
<1> QED
  BY <1>1, Invariance, PTL

\* No two dispatchers are ever inside execCmd() at once (work_access).
THEOREM MutualExclusion == Spec => []WorkersExclusive
<1>1. IInv => WorkersExclusive
  BY DEF IInv, WorkInv, WorkersExclusive
<1> QED
  BY <1>1, Invariance, PTL

\* A freed NmDaemon is not reached through the registry, by the shutdown
\* loop, or by a dispatcher.
THEOREM MemorySafety == Spec => []NoUseAfterFree
<1>1. IInv => NoUseAfterFree
  BY DEF IInv, LifeInv, MainInv, NoUseAfterFree, TypeOK, RcvPCs
<1> QED
  BY <1>1, Invariance, PTL

\* "All connections drained" is logged only when it is so, and stays so.
THEOREM Drained == Spec => []DrainedMeansQuiet
<1>1. IInv => DrainedMeansQuiet
  BY DEF IInv, LifeInv, MainInv, DrainedMeansQuiet, TypeOK, RcvPCs
<1> QED
  BY <1>1, Invariance, PTL

\* The frames of the two threads of a connection never mix on its socket.
THEOREM WholeFrames == Spec => []FramesWhole
<1>1. IInv => FramesWhole
  BY DEF IInv
<1> QED
  BY <1>1, Invariance, PTL

-----------------------------------------------------------------------------
(* The order of the requests of a connection                               *)

\* Taking the head off a sequence and putting it back.
LEMMA HeadThenTail ==
  ASSUME NEW S, NEW s \in Seq(S), s # <<>>
  PROVE  <<Head(s)>> \o Tail(s) = s
<1>1. Len(s) \in Nat \ {0} /\ 1 \in 1..Len(s) /\ Len(s) \in 1..Len(s)
  BY EmptySeq
<1>2. SubSeq(s, 1, Len(s)) = <<s[1]>> \o SubSeq(s, 1 + 1, Len(s))
  BY <1>1, SubSeqRecursiveFirst
<1>3. Tail(s) = SubSeq(s, 2, Len(s)) /\ SubSeq(s, 1, Len(s)) = s
  BY TailIsSubSeq, SubSeqFull
<1>4. Head(s) = s[1]
  OBVIOUS
<1> QED
  BY <1>2, <1>3, <1>4

\* The head and the tail of a sequence that begins with a given element.
LEMMA SplitFirst ==
  ASSUME NEW S, NEW x \in S, NEW s \in Seq(S)
  PROVE  /\ <<x>> \o s # <<>>
         /\ Head(<<x>> \o s) = x
         /\ Tail(<<x>> \o s) = s
<1> DEFINE t == <<x>> \o s
<1>1. <<x>> \in Seq(S) /\ Len(<<x>>) = 1 /\ <<x>>[1] = x
  OBVIOUS
<1>2. /\ t \in Seq(S) /\ Len(t) = 1 + Len(s) /\ Len(s) \in Nat
      /\ \A i \in 1..1 + Len(s) : t[i] = IF i <= 1 THEN <<x>>[i] ELSE s[i - 1]
  BY <1>1, ConcatProperties
<1>3. t # <<>> /\ Head(t) = x
  BY <1>1, <1>2
<1>4. /\ Tail(t) \in Seq(S) /\ Len(Tail(t)) = Len(t) - 1
      /\ \A i \in 1..Len(Tail(t)) : Tail(t)[i] = t[i + 1]
  BY <1>2, <1>3, HeadTailProperties
<1>5. \A i \in 1..Len(s) : Tail(t)[i] = s[i]
  BY <1>2, <1>4
<1>6. Tail(t) = s
  BY <1>2, <1>4, <1>5, SeqEqual
<1> QED
  BY <1>3, <1>6

\* Appending after a concatenation is appending to its second part.
LEMMA AppendAfter ==
  ASSUME NEW S, NEW s \in Seq(S), NEW t \in Seq(S), NEW x \in S
  PROVE  s \o Append(t, x) = Append(s \o t, x)
<1>1. <<x>> \in Seq(S) /\ s \o t \in Seq(S)
  BY ConcatProperties
<1>2. Append(t, x) = t \o <<x>> /\ Append(s \o t, x) = (s \o t) \o <<x>>
  BY <1>1, AppendIsConcat
<1>3. (s \o t) \o <<x>> = s \o (t \o <<x>>)
  BY <1>1, ConcatAssociative
<1> QED
  BY <1>2, <1>3

\* Moving the first element of the second part to the end of the first.
LEMMA MoveAcross ==
  ASSUME NEW S, NEW s \in Seq(S), NEW x \in S, NEW t \in Seq(S)
  PROVE  Append(s, x) \o t = s \o (<<x>> \o t)
<1>1. <<x>> \in Seq(S)
  OBVIOUS
<1>2. Append(s, x) = s \o <<x>>
  BY AppendIsConcat
<1>3. (s \o <<x>>) \o t = s \o (<<x>> \o t)
  BY <1>1, ConcatAssociative
<1> QED
  BY <1>2, <1>3

\* A number larger than all before it keeps a sequence increasing.
LEMMA IncreasingAppend ==
  ASSUME NEW s \in Seq(Nat), NEW n \in Nat, Increasing(s),
         \A i \in DOMAIN s : s[i] < n
  PROVE  Increasing(Append(s, n))
<1>1. /\ Len(Append(s, n)) = Len(s) + 1 /\ DOMAIN Append(s, n) = 1..Len(s) + 1
      /\ Len(s) \in Nat /\ DOMAIN s = 1..Len(s)
      /\ \A i \in 1..Len(s) : Append(s, n)[i] = s[i]
      /\ Append(s, n)[Len(s) + 1] = n
      /\ \A i \in 1..Len(s) : s[i] \in Nat
  OBVIOUS
<1> QED
  BY <1>1 DEF Increasing

\* What waits and what is accepted are requests.
LEMMA AcceptedType ==
  ASSUME TypeOK, BusyInv, NEW c \in Conns
  PROVE  Waiting(c) \in Seq(Requests) /\ Accepted(c) \in Seq(Requests)
<1>1. requests[c] \in Seq(Requests) /\ executed[c] \in Seq(Requests)
  BY DEF TypeOK
<1>2. Waiting(c) \in Seq(Requests)
  <2>1. CASE dsp[c] \in {"lock", "exec"}
    <3>1. <<current[c]>> \in Seq(Requests)
      BY <2>1 DEF BusyInv
    <3> QED
      BY <1>1, <2>1, <3>1, ConcatProperties DEF Waiting
  <2>2. CASE dsp[c] \notin {"lock", "exec"}
    BY <1>1, <2>2, ConcatEmptySeq DEF Waiting
  <2> QED
    BY <2>1, <2>2
<1> QED
  BY <1>1, <1>2, ConcatProperties DEF Accepted

\* The two laws of concatenation for queues of requests.
LEMMA QueueLaws ==
  \A s, t \in Seq(Requests), x \in Requests :
      /\ s \o Append(t, x) = Append(s \o t, x)
      /\ Append(s, x) \o t = s \o (<<x>> \o t)
BY AppendAfter, MoveAcross

\* A step of one connection's threads leaves the others' queues alone.
LEMMA OtherConnections ==
  ASSUME TypeOK, NEW c \in Conns, ReceiverStep(c) \/ DispatcherStep(c),
         NEW d \in Conns, d # c
  PROVE  /\ requests'[d] = requests[d] /\ current'[d] = current[d]
         /\ executed'[d] = executed[d] /\ dsp'[d] = dsp[d]
         /\ inp'[d] = inp[d] /\ sent'[d] = sent[d] /\ answered'[d] = answered[d]
<1>1. CASE ReceiverStep(c)
  BY <1>1 DEF ReceiverStep, ReceiverGoes, ReceiverStart, ReceiverRead, ReceiverEof,
     ReceiverLockWrite, ReceiverWrite1, ReceiverWrite2, ReceiverWriteFails,
     ReceiverPause, ReceiverClose, ReceiverJoin, ReceiverErase, ReceiverDelete, TypeOK
<1>2. CASE DispatcherStep(c)
  BY <1>2 DEF DispatcherStep, DispatcherGoes, DispatcherPop, DispatcherLockWork,
     DispatcherExec, DispatcherLockWrite, DispatcherWrite1, DispatcherWrite2,
     DispatcherWriteFails, DispatcherPause, TypeOK
<1> QED
  BY <1>1, <1>2

\* Without a step to or from "lock" and "exec" and with the same queue the
\* same requests wait.
LEMMA SameWaiting ==
  ASSUME NEW d \in Conns, requests'[d] = requests[d],
         dsp'[d] \in {"lock", "exec"} <=> dsp[d] \in {"lock", "exec"},
         dsp[d] \in {"lock", "exec"} => current'[d] = current[d]
  PROVE  Waiting(d)' = Waiting(d)
BY DEF Waiting

\* read(): one request more is waiting, or the same ones.
LEMMA ReadHistory ==
  ASSUME TypeOK, BusyInv, NEW c \in Conns, ReceiverRead(c)
  PROVE  /\ UNCHANGED <<dsp, current, executed, answered, sent>>
         /\ inp'[c] = <<>>
         /\ \/ Waiting(c)' = Waiting(c) /\ Accepted(c)' = Accepted(c)
            \/ \E n \in Requests : /\ IsRequest(inp[c], n)
                                   /\ Waiting(c)' = Append(Waiting(c), n)
                                   /\ Accepted(c)' = Append(Accepted(c), n)
<1>1. UNCHANGED <<dsp, current, executed, answered, sent>>
  BY DEF ReceiverRead, ReceiverGoes
<1>2. inp'[c] = <<>>
  BY DEF ReceiverRead, TypeOK
<1>3. CASE UNCHANGED requests
  <2>1. Waiting(c)' = Waiting(c)
    BY <1>1, <1>3 DEF Waiting
  <2>2. Accepted(c)' = Accepted(c)
    BY <1>1, <2>1 DEF Accepted
  <2> QED
    BY <1>1, <1>2, <2>1, <2>2
<1>4. ASSUME NEW n \in Requests, IsRequest(inp[c], n),
             requests' = [requests EXCEPT ![c] = Append(@, n)]
      PROVE  /\ Waiting(c)' = Append(Waiting(c), n)
             /\ Accepted(c)' = Append(Accepted(c), n)
  <2>1. requests'[c] = Append(requests[c], n) /\ requests[c] \in Seq(Requests)
    BY <1>4 DEF TypeOK
  <2> DEFINE held == IF dsp[c] \in {"lock", "exec"} THEN <<current[c]>> ELSE <<>>
  <2>2. held \in Seq(Requests)
    <3>1. dsp[c] \in {"lock", "exec"} => current[c] \in Requests
      BY DEF BusyInv
    <3> QED
      BY <3>1
  <2>3. Waiting(c) = held \o requests[c] /\ Waiting(c)' = held \o Append(requests[c], n)
    BY <1>1, <2>1 DEF Waiting
  <2>4. Waiting(c)' = Append(Waiting(c), n)
    <3>1. held \o Append(requests[c], n) = Append(held \o requests[c], n)
      BY <2>1, <2>2, QueueLaws, Zenon
    <3> QED
      BY <2>3, <3>1, Zenon
  <2>5. executed[c] \in Seq(Requests) /\ Waiting(c) \in Seq(Requests)
    BY AcceptedType DEF TypeOK
  <2>6. Accepted(c)' = executed[c] \o Append(Waiting(c), n)
    BY <1>1, <2>4 DEF Accepted
  <2> QED
    <3>1. executed[c] \o Append(Waiting(c), n) = Append(executed[c] \o Waiting(c), n)
      BY <2>5, QueueLaws, Zenon
    <3> QED
      BY <2>4, <2>6, <3>1, Zenon DEF Accepted
<1> QED
  BY <1>1, <1>2, <1>3, <1>4 DEF ReceiverRead

\* Taking a request off the queue leaves it first of those that wait.
LEMMA PopHistory ==
  ASSUME TypeOK, NEW c \in Conns, DispatcherPop(c)
  PROVE  /\ UNCHANGED <<executed, answered, inp, sent>>
         /\ dsp[c] = "pop" /\ dsp'[c] \in {"lock", "pause"}
         /\ Waiting(c)' = Waiting(c)
<1>1. UNCHANGED <<executed, answered, inp, sent>> /\ dsp[c] = "pop"
  BY DEF DispatcherPop, DispatcherGoes
<1>2. requests[c] \in Seq(Requests)
  BY DEF TypeOK
<1>3. CASE requests[c] # <<>>
  <2>1. /\ dsp'[c] = "lock" /\ current'[c] = Head(requests[c])
        /\ requests'[c] = Tail(requests[c])
    BY <1>3 DEF DispatcherPop, DispatcherGoes, TypeOK
  <2>2. <<Head(requests[c])>> \o Tail(requests[c]) = requests[c]
    BY <1>2, <1>3, HeadThenTail
  <2>3. Waiting(c) = requests[c]
    BY <1>1, <1>2, ConcatEmptySeq DEF Waiting
  <2> QED
    BY <1>1, <2>1, <2>2, <2>3 DEF Waiting
<1>4. CASE requests[c] = <<>>
  <2>1. dsp'[c] = "pause" /\ requests' = requests
    BY <1>4 DEF DispatcherPop, DispatcherGoes, TypeOK
  <2> QED
    BY <1>1, <2>1, SameWaiting
<1> QED
  BY <1>3, <1>4

\* execCmd() moves the first of those that wait to what is executed.
LEMMA ExecHistory ==
  ASSUME TypeOK, BusyInv, NEW c \in Conns, DispatcherExec(c)
  PROVE  /\ UNCHANGED <<answered, inp, sent, current>>
         /\ executed'[c] = Append(executed[c], current[c])
         /\ current[c] \in Requests
         /\ Waiting(c) # <<>> /\ Head(Waiting(c)) = current[c]
         /\ Waiting(c)' = Tail(Waiting(c))
         /\ Accepted(c)' = Accepted(c)
<1>1. /\ UNCHANGED <<answered, inp, sent, current, requests>>
      /\ dsp[c] = "exec" /\ dsp'[c] = "reply"
      /\ executed'[c] = Append(executed[c], current[c])
  BY DEF DispatcherExec, DispatcherGoes, TypeOK
<1>2. /\ requests[c] \in Seq(Requests) /\ executed[c] \in Seq(Requests)
      /\ current[c] \in Requests
  BY <1>1 DEF TypeOK, BusyInv
<1>3. Waiting(c) = <<current[c]>> \o requests[c]
  BY <1>1 DEF Waiting
<1>4. Waiting(c)' = requests[c]
  BY <1>1, <1>2, ConcatEmptySeq DEF Waiting
<1>5. /\ Waiting(c) # <<>> /\ Head(Waiting(c)) = current[c]
      /\ Waiting(c)' = Tail(Waiting(c))
  BY <1>2, <1>3, <1>4, SplitFirst
<1>6. Accepted(c)' = Append(executed[c], current[c]) \o requests[c]
  BY <1>1, <1>4 DEF Accepted
<1>7. Accepted(c)' = Accepted(c)
  <2>1. Append(executed[c], current[c]) \o requests[c]
          = executed[c] \o (<<current[c]>> \o requests[c])
    BY <1>2, QueueLaws, Zenon
  <2> QED
    BY <1>3, <1>6, <2>1, Zenon DEF Accepted
<1> QED
  BY <1>1, <1>2, <1>5, <1>7

\* The other steps of the two threads leave what waits alone.
LEMMA QuietHistory ==
  ASSUME TypeOK, LifeInv, NEW c \in Conns, NEW d \in Conns,
         \/ ReceiverStep(c) /\ ~ReceiverRead(c)
         \/ DispatcherStep(c) /\ ~DispatcherPop(c) /\ ~DispatcherExec(c)
  PROVE  /\ executed' = executed /\ inp' = inp /\ sent' = sent
         /\ Waiting(d)' = Waiting(d)
<1>1. CASE ReceiverStep(c) /\ ~ReceiverRead(c)
  <2>1. UNCHANGED <<executed, inp, sent, requests, current>>
    BY <1>1 DEF ReceiverStep, ReceiverGoes, ReceiverStart, ReceiverEof,
     ReceiverLockWrite, ReceiverWrite1, ReceiverWrite2, ReceiverWriteFails,
     ReceiverPause, ReceiverClose, ReceiverJoin, ReceiverErase, ReceiverDelete
  <2>2. dsp'[d] \in {"lock", "exec"} <=> dsp[d] \in {"lock", "exec"}
    <3>1. CASE ReceiverStart(c)
      BY <3>1 DEF ReceiverStart, ReceiverGoes, TypeOK, LifeInv
    <3>2. CASE UNCHANGED dsp
      BY <3>2
    <3> QED
      BY <1>1, <3>1, <3>2, ReceiverLeavesDispatcher
  <2> QED
    BY <2>1, <2>2, SameWaiting
<1>2. CASE DispatcherStep(c) /\ ~DispatcherPop(c) /\ ~DispatcherExec(c)
  <2> DEFINE Same == /\ UNCHANGED <<executed, inp, sent, requests>>
                     /\ dsp'[d] \in {"lock", "exec"} <=> dsp[d] \in {"lock", "exec"}
                     /\ dsp[d] \in {"lock", "exec"} => current'[d] = current[d]
  <2> USE DEF DispatcherGoes, TypeOK
  <2>1. DispatcherLockWork(c) => Same
    BY DEF DispatcherLockWork
  <2>2. DispatcherLockWrite(c) => Same
    BY DEF DispatcherLockWrite
  <2>3. DispatcherWrite1(c) => Same
    BY DEF DispatcherWrite1
  <2>4. DispatcherWrite2(c) => Same
    BY DEF DispatcherWrite2
  <2>5. DispatcherWriteFails(c) => Same
    BY DEF DispatcherWriteFails
  <2>6. DispatcherPause(c) => Same
    BY DEF DispatcherPause
  <2>7. Same
    BY <1>2, <2>1, <2>2, <2>3, <2>4, <2>5, <2>6 DEF DispatcherStep
  <2> QED
    BY <2>7, SameWaiting
<1> QED
  BY <1>1, <1>2

\* A connection stays in order when nothing is added to its histories and
\* nothing unread is added to its input.
LEMMA InOrderStays ==
  ASSUME NEW d \in Conns, InOrder(d), Accepted(d)' = Accepted(d),
         executed'[d] = executed[d], answered'[d] = answered[d],
         sent'[d] = sent[d], inp'[d] = inp[d] \/ inp'[d] = <<>>,
         Serving(d)' => Serving(d) /\ current'[d] = current[d]
  PROVE  InOrder(d)'
<1>1. DOMAIN <<>> = {}
  OBVIOUS
<1> QED
  BY <1>1 DEF InOrder, WasExecuted

\* A piece of text is newer than all the client sent before it.
LEMMA InOrderSend ==
  ASSUME TypeOK, BusyInv, NEW c \in Conns, Send(c), InOrder(c)
  PROVE  InOrder(c)'
<1>1. Accepted(c)' = Accepted(c) /\ UNCHANGED <<dsp, current, executed, answered>>
  BY DEF Send, Accepted, Waiting
<1>2. sent'[c] = sent[c] + 1 /\ sent[c] \in Nat
  BY MaxSendAssumption DEF Send, TypeOK
<1>3. PICK k \in Kinds :
        inp' = [inp EXCEPT ![c] = Append(@, [kind |-> k, id |-> sent[c] + 1])]
  BY DEF Send
<1>4. inp[c] \in Seq(Texts)
  BY DEF TypeOK
<1>5. ASSUME NEW j \in DOMAIN inp'[c]
      PROVE  \/ j \in DOMAIN inp[c] /\ inp'[c][j] = inp[c][j]
             \/ inp'[c][j].id = sent[c] + 1
  BY <1>3, <1>4, <1>5 DEF TypeOK
<1>6. \A j \in DOMAIN inp[c] : inp[c][j].id \in Nat
  <2>1. \A j \in DOMAIN inp[c] : inp[c][j] \in Texts
    BY <1>4
  <2>2. \A x \in Texts : x.id \in Requests
    BY DEF Texts
  <2> QED
    BY <2>1, <2>2 DEF Requests
<1>7. \A i \in DOMAIN Accepted(c) : Accepted(c)[i] \in Nat
  <2>1. Accepted(c) \in Seq(Requests)
    BY AcceptedType
  <2>2. \A i \in DOMAIN Accepted(c) : Accepted(c)[i] \in Requests
    BY <2>1
  <2> QED
    BY <2>2 DEF Requests
<1>8. \A j \in DOMAIN inp'[c] : inp'[c][j].id <= sent'[c]
  BY <1>2, <1>5, <1>6 DEF InOrder
<1>9. ASSUME NEW i \in DOMAIN Accepted(c)
      PROVE  /\ Accepted(c)[i] <= sent'[c]
             /\ \A j \in DOMAIN inp'[c] : Accepted(c)[i] < inp'[c][j].id
  BY <1>2, <1>5, <1>6, <1>7 DEF InOrder
<1> QED
  BY <1>1, <1>8, <1>9 DEF InOrder, Serving, WasExecuted

\* A request that is read is newer than all that were read before.
LEMMA InOrderRead ==
  ASSUME TypeOK, BusyInv, NEW c \in Conns, ReceiverRead(c), InOrder(c)
  PROVE  InOrder(c)'
<1>1. /\ UNCHANGED <<dsp, current, executed, answered, sent>>
      /\ inp'[c] = <<>>
  BY ReadHistory
<1>2. CASE Accepted(c)' = Accepted(c)
  BY <1>1, <1>2, InOrderStays DEF Serving
<1>3. ASSUME NEW n \in Requests, IsRequest(inp[c], n),
             Accepted(c)' = Append(Accepted(c), n)
      PROVE  InOrder(c)'
  <2>1. PICK j \in DOMAIN inp[c] : inp[c][j].id = n
    BY <1>3 DEF IsRequest
  <2>2. /\ \A i \in DOMAIN Accepted(c) : Accepted(c)[i] < n
        /\ n <= sent[c]
    BY <2>1 DEF InOrder
  <2>3. Accepted(c) \in Seq(Nat) /\ n \in Nat
    <3>1. Accepted(c) \in Seq(Requests) /\ Requests \subseteq Nat
      BY AcceptedType DEF Requests
    <3> QED
      BY <3>1, SeqMonotonic
  <2>4. Increasing(Accepted(c)')
    BY <1>3, <2>2, <2>3, IncreasingAppend DEF InOrder
  <2>5. ASSUME NEW i \in DOMAIN Accepted(c)'
        PROVE  Accepted(c)'[i] <= sent[c]
    <3>1. \/ i \in DOMAIN Accepted(c) /\ Accepted(c)'[i] = Accepted(c)[i]
          \/ Accepted(c)'[i] = n
      BY <1>3, <2>3, <2>5
    <3> QED
      BY <2>2, <3>1 DEF InOrder
  <2>6. DOMAIN inp'[c] = {}
    BY <1>1
  <2> QED
    BY <1>1, <2>4, <2>5, <2>6 DEF InOrder, Serving, WasExecuted
<1> QED
  BY <1>2, <1>3, ReadHistory

\* The request executed is newer than all executed, hence than all answered.
LEMMA InOrderExec ==
  ASSUME TypeOK, BusyInv, NEW c \in Conns, DispatcherExec(c), InOrder(c)
  PROVE  InOrder(c)'
<1>1. /\ UNCHANGED <<answered, inp, sent, current>>
      /\ executed'[c] = Append(executed[c], current[c])
      /\ current[c] \in Requests
      /\ Accepted(c)' = Accepted(c)
  BY ExecHistory
<1>2. executed[c] \in Seq(Requests) /\ answered[c] \in Seq(Requests)
  BY DEF TypeOK
<1>3. /\ \A j \in DOMAIN executed[c] : /\ j \in DOMAIN executed'[c]
                                       /\ executed'[c][j] = executed[c][j]
      /\ Len(executed[c]) + 1 \in DOMAIN executed'[c]
      /\ executed'[c][Len(executed[c]) + 1] = current[c]
  BY <1>1, <1>2
<1>4. \A n : WasExecuted(c, n) => WasExecuted(c, n)'
  BY <1>3 DEF WasExecuted
<1>5. WasExecuted(c, current[c])'
  BY <1>1, <1>3 DEF WasExecuted
<1>6. \A j \in DOMAIN executed[c] : executed[c][j] < current[c]
  <2>1. Waiting(c)' \in Seq(Requests) /\ executed'[c] \in Seq(Requests)
    <3>1. Waiting(c) \in Seq(Requests) /\ Waiting(c) # <<>>
      BY AcceptedType, ExecHistory
    <3>2. Waiting(c)' \in Seq(Requests)
      BY <3>1, ExecHistory, HeadTailProperties
    <3> QED
      BY <1>1, <1>2, <3>2
  <2>2. Accepted(c) = executed'[c] \o Waiting(c)'
    BY <1>1 DEF Accepted
  <2>3. \A j \in DOMAIN executed'[c] : /\ j \in DOMAIN Accepted(c)
                                       /\ Accepted(c)[j] = executed'[c][j]
    BY <2>1, <2>2
  <2>4. \A j \in DOMAIN executed[c] : j < Len(executed[c]) + 1
    BY <1>2
  <2> QED
    BY <1>3, <2>3, <2>4 DEF InOrder, Increasing
<1>7. \A i \in DOMAIN answered[c] : answered[c][i] < current[c]
  BY <1>6 DEF InOrder, WasExecuted
<1> QED
  BY <1>1, <1>4, <1>5, <1>7 DEF InOrder

\* An answer is written for a request newer than all answered.
LEMMA InOrderAnswer ==
  ASSUME TypeOK, BusyInv, LifeInv, NEW c \in Conns, DispatcherWrite2(c), InOrder(c)
  PROVE  InOrder(c)'
<1>1. /\ UNCHANGED <<inp, sent, requests, executed>>
      /\ dsp[c] = "write2" /\ dsp'[c] = "pause"
      /\ answered'[c] = Append(answered[c], current[c])
      /\ current[c] \in Requests
  BY DEF DispatcherWrite2, DispatcherGoes, TypeOK, BusyInv
<1>2. answered[c] \in Seq(Nat) /\ current[c] \in Nat
  <2>1. answered[c] \in Seq(Requests) /\ Requests \subseteq Nat
    BY DEF TypeOK, Requests
  <2> QED
    BY <1>1, <2>1, SeqMonotonic
<1>3. /\ WasExecuted(c, current[c])
      /\ \A i \in DOMAIN answered[c] : answered[c][i] < current[c]
      /\ Increasing(answered[c])
  BY <1>1 DEF InOrder, Serving
<1>4. Increasing(answered'[c])
  BY <1>1, <1>2, <1>3, IncreasingAppend
<1>5. ASSUME NEW i \in DOMAIN answered'[c]
      PROVE  WasExecuted(c, answered'[c][i])
  <2>1. \/ i \in DOMAIN answered[c] /\ answered'[c][i] = answered[c][i]
        \/ answered'[c][i] = current[c]
    BY <1>1, <1>2, <1>5
  <2> QED
    BY <1>3, <2>1 DEF InOrder
<1>6. Accepted(c)' = Accepted(c)
  BY <1>1, SameWaiting DEF Accepted
<1>7. ~Serving(c)'
  BY <1>1 DEF Serving
<1> QED
  BY <1>1, <1>4, <1>5, <1>6, <1>7 DEF InOrder, WasExecuted

\* Every step keeps the requests of every connection in order.
LEMMA OrderInvNext ==
  ASSUME IInv, OrderInv, [Next]_vars
  PROVE  OrderInv'
<1> SUFFICES ASSUME NEW d \in Conns PROVE InOrder(d)'
  BY DEF OrderInv
<1>0. TypeOK /\ BusyInv /\ LifeInv /\ InOrder(d)
  BY DEF IInv, OrderInv
<1>a. ASSUME requests'[d] = requests[d], current'[d] = current[d],
             executed'[d] = executed[d], dsp'[d] = dsp[d], inp'[d] = inp[d],
             sent'[d] = sent[d], answered'[d] = answered[d]
      PROVE  InOrder(d)'
  <2>1. Accepted(d)' = Accepted(d)
    BY <1>a, SameWaiting DEF Accepted
  <2> QED
    BY <1>0, <1>a, <2>1, InOrderStays DEF Serving
<1>1. ASSUME NEW c \in Conns, ClientStep(c)
      PROVE  InOrder(d)'
  <2>1. CASE Send(c) /\ c = d
    BY <1>0, <2>1, InOrderSend
  <2>2. CASE ~(Send(c) /\ c = d)
    <3>1. inp'[d] = inp[d] /\ sent'[d] = sent[d]
      BY <1>0, <1>1, <2>2 DEF ClientStep, Connect, HalfClose, Disconnect, ClientGoes,
         Send, StallOrDrain, TypeOK
    <3> QED
      BY <1>1, <1>a, <3>1, ClientFrame
  <2> QED
    BY <2>1, <2>2
<1>2. CASE MainStep \/ MainAcceptFails \/ SignalMain \/ Terminate
  BY <1>2, <1>a, MainFrame
<1>3. ASSUME NEW c \in Conns, SignalThread(c)
      PROVE  InOrder(d)'
  BY <1>3, <1>a, SignalFrame
<1>4. ASSUME NEW c \in Conns, ReceiverStep(c)
      PROVE  InOrder(d)'
  <2>1. CASE d # c
    BY <1>0, <1>4, <1>a, <2>1, OtherConnections
  <2>2. CASE d = c /\ ReceiverRead(c)
    BY <1>0, <2>2, InOrderRead
  <2>3. CASE d = c /\ ~ReceiverRead(c)
    <3>1. /\ executed' = executed /\ inp' = inp /\ sent' = sent
          /\ Waiting(d)' = Waiting(d)
      BY <1>0, <1>4, <2>3, QuietHistory
    <3>2. UNCHANGED <<current, answered>>
      BY <1>4, ReceiverFrame
    <3>3. Serving(d)' => Serving(d)
      <4>1. CASE ReceiverStart(c)
        BY <1>0, <2>3, <4>1 DEF ReceiverStart, TypeOK, Serving
      <4> QED
        BY <1>4, <4>1, ReceiverLeavesDispatcher DEF Serving
    <3> QED
      BY <1>0, <3>1, <3>2, <3>3, InOrderStays DEF Accepted
  <2> QED
    BY <2>1, <2>2, <2>3
<1>5. ASSUME NEW c \in Conns, DispatcherStep(c)
      PROVE  InOrder(d)'
  <2>1. CASE d # c
    BY <1>0, <1>5, <1>a, <2>1, OtherConnections
  <2>2. CASE d = c /\ DispatcherPop(c)
    BY <1>0, <2>2, PopHistory, InOrderStays DEF Accepted, Serving
  <2>3. CASE d = c /\ DispatcherExec(c)
    BY <1>0, <2>3, InOrderExec
  <2>4. CASE d = c /\ DispatcherWrite2(c)
    BY <1>0, <2>4, InOrderAnswer
  <2>5. CASE d = c /\ ~DispatcherPop(c) /\ ~DispatcherExec(c) /\ ~DispatcherWrite2(c)
    <3>1. /\ executed' = executed /\ inp' = inp /\ sent' = sent
          /\ Waiting(d)' = Waiting(d)
      BY <1>0, <1>5, <2>5, QuietHistory
    <3>2. /\ answered' = answered
          /\ Serving(d)' => Serving(d) /\ current'[d] = current[d]
      <4> USE DEF DispatcherGoes, TypeOK, Serving
      <4>1. CASE DispatcherLockWork(c)
        BY <1>0, <2>5, <4>1 DEF DispatcherLockWork
      <4>2. CASE DispatcherLockWrite(c)
        BY <1>0, <2>5, <4>2 DEF DispatcherLockWrite
      <4>3. CASE DispatcherWrite1(c)
        BY <1>0, <2>5, <4>3 DEF DispatcherWrite1
      <4>4. CASE DispatcherWriteFails(c)
        BY <1>0, <2>5, <4>4 DEF DispatcherWriteFails
      <4>5. CASE DispatcherPause(c)
        BY <1>0, <2>5, <4>5 DEF DispatcherPause
      <4> QED
        BY <1>5, <2>5, <4>1, <4>2, <4>3, <4>4, <4>5 DEF DispatcherStep
    <3> QED
      BY <1>0, <3>1, <3>2, InOrderStays DEF Accepted
  <2> QED
    BY <2>1, <2>2, <2>3, <2>4, <2>5
<1>6. CASE UNCHANGED vars
  BY <1>6, <1>a DEF vars
<1> QED
  BY <1>1, <1>2, <1>3, <1>4, <1>5, <1>6 DEF Next, Exited

\* Nothing has come in when main() enters its accept loop.
LEMMA OrderInvInit == Init => OrderInv
<1> SUFFICES ASSUME Init, NEW c \in Conns PROVE InOrder(c)
  BY DEF OrderInv
<1>1. /\ executed[c] = <<>> /\ requests[c] = <<>> /\ answered[c] = <<>>
      /\ inp[c] = <<>> /\ dsp[c] = "none"
  BY DEF Init
<1>2. <<>> \o <<>> = <<>> /\ DOMAIN <<>> = {}
  OBVIOUS
<1>3. Accepted(c) = <<>> /\ ~Serving(c)
  BY <1>1, <1>2 DEF Accepted, Waiting, Serving
<1> QED
  BY <1>1, <1>2, <1>3 DEF InOrder, Increasing

\* Requests of a connection are executed in the order in which they were
\* sent, once each, and answered in that order after they are executed.
THEOREM OrderedService == Spec => []ServedInOrder
<1>1. OrderInv => ServedInOrder
  BY DEF OrderInv, InOrder, WasExecuted, ServedInOrder
<1>2. IInv /\ OrderInv /\ [Next]_vars => OrderInv'
  BY OrderInvNext
<1> QED
  BY <1>1, <1>2, OrderInvInit, Invariance, PTL DEF Spec

-----------------------------------------------------------------------------
(* The engine implements RequestServer                                     *)

\* A step that changes nothing a client or a worker can see.
LEMMA ServerStutters ==
  ASSUME \A d \in Conns : Waiting(d)' = Waiting(d) /\ Unanswered(d)' = Unanswered(d),
         UNCHANGED <<work_access, executed, answered>>
  PROVE  UNCHANGED Server!vars
BY DEF Server!vars

\* read() of a valid request is Accept, of anything else nothing.
LEMMA ReadAccepts ==
  ASSUME TypeOK, BusyInv, NEW c \in Conns, InOrder(c), ReceiverRead(c)
  PROVE  Server!Accept(c) \/ UNCHANGED Server!vars
<1>1. /\ UNCHANGED <<dsp, current, executed, answered>>
      /\ work_access' = work_access
  BY ReadHistory DEF ReceiverRead, ReceiverGoes
<1>2. \A d \in Conns : Unanswered(d)' = Unanswered(d)
  BY <1>1 DEF Unanswered, Serving
<1>3. \A d \in Conns \ {c} : Waiting(d)' = Waiting(d)
  BY <1>1, OtherConnections, SameWaiting DEF ReceiverStep
<1>4. CASE Waiting(c)' = Waiting(c)
  BY <1>1, <1>2, <1>3, <1>4, ServerStutters
<1>5. ASSUME NEW n \in Requests, IsRequest(inp[c], n),
             Waiting(c)' = Append(Waiting(c), n)
      PROVE  Server!Accept(c)
  <2>1. \A i \in DOMAIN Accepted(c) : Accepted(c)[i] < n
    <3>1. PICK j \in DOMAIN inp[c] : inp[c][j].id = n
      BY <1>5 DEF IsRequest
    <3> QED
      BY <3>1 DEF InOrder
  <2>2. executed[c] \in Seq(Requests) /\ Waiting(c) \in Seq(Requests)
    BY AcceptedType DEF TypeOK
  <2>3. \A i \in DOMAIN executed[c] : executed[c][i] < n
    <3>1. \A i \in DOMAIN executed[c] : /\ i \in DOMAIN Accepted(c)
                                        /\ Accepted(c)[i] = executed[c][i]
      BY <2>2 DEF Accepted
    <3> QED
      BY <2>1, <3>1
  <2>4. \A i \in DOMAIN Waiting(c) : Waiting(c)[i] < n
    <3>1. \A i \in DOMAIN Waiting(c) :
            /\ Len(executed[c]) + i \in DOMAIN Accepted(c)
            /\ Accepted(c)[Len(executed[c]) + i] = Waiting(c)[i]
      BY <2>2 DEF Accepted
    <3> QED
      BY <2>1, <3>1
  <2> DEFINE W == [d \in Conns |-> Waiting(d)]
  <2>5. W' = [W EXCEPT ![c] = Append(W[c], n)]
    BY <1>3, <1>5
  <2>6. [d \in Conns |-> Unanswered(d)]' = [d \in Conns |-> Unanswered(d)]
    BY <1>2
  <2> QED
    BY <1>1, <2>3, <2>4, <2>5, <2>6 DEF Server!Accept
<1> QED
  BY <1>4, <1>5, ReadHistory

\* A dispatcher that gets work_access is Begin.
LEMMA LockBegins ==
  ASSUME TypeOK, BusyInv, NEW c \in Conns, DispatcherLockWork(c)
  PROVE  Server!Begin(c)
<1>1. /\ dsp[c] = "lock" /\ dsp' = [dsp EXCEPT ![c] = "exec"]
      /\ work_access = NoConn /\ work_access' = c
      /\ UNCHANGED <<requests, current, executed, answered>>
  BY DEF DispatcherLockWork, DispatcherGoes
<1>2. ASSUME NEW d \in Conns
      PROVE  Waiting(d)' = Waiting(d) /\ Unanswered(d)' = Unanswered(d)
  BY <1>1 DEF TypeOK, Waiting, Unanswered, Serving
<1>3. Waiting(c) # <<>>
  <2>1. Waiting(c) = <<current[c]>> \o requests[c]
    BY <1>1 DEF Waiting
  <2>2. current[c] \in Requests /\ requests[c] \in Seq(Requests)
    BY <1>1 DEF TypeOK, BusyInv
  <2> QED
    BY <2>1, <2>2, SplitFirst
<1>4. Unanswered(c) = 0
  BY <1>1 DEF Unanswered, Serving
<1> QED
  BY <1>1, <1>2, <1>3, <1>4 DEF Server!Begin

\* execCmd() is Execute: WorkInv says that work_access is this connection's.
LEMMA ExecExecutes ==
  ASSUME TypeOK, BusyInv, WorkInv, NEW c \in Conns, DispatcherExec(c)
  PROVE  Server!Execute(c)
<1>1. /\ dsp[c] = "exec" /\ dsp' = [dsp EXCEPT ![c] = "reply"]
      /\ executed' = [executed EXCEPT ![c] = Append(@, current[c])]
      /\ work_access' = NoConn
      /\ UNCHANGED <<requests, current, answered>>
  BY DEF DispatcherExec, DispatcherGoes
<1>2. work_access = c
  BY <1>1 DEF WorkInv
<1>3. ASSUME NEW d \in Conns \ {c}
      PROVE  Waiting(d)' = Waiting(d) /\ Unanswered(d)' = Unanswered(d)
  BY <1>1 DEF TypeOK, Waiting, Unanswered, Serving
<1>4. Waiting(c)' = Tail(Waiting(c)) /\ Head(Waiting(c)) = current[c]
  BY ExecHistory
<1>5. Unanswered(c)' = current[c]
  BY <1>1 DEF TypeOK, Unanswered, Serving
<1> DEFINE W == [d \in Conns |-> Waiting(d)]
           U == [d \in Conns |-> Unanswered(d)]
<1>6. W' = [W EXCEPT ![c] = Tail(W[c])] /\ W[c] = Waiting(c)
  BY <1>3, <1>4
<1>7. U' = [U EXCEPT ![c] = Head(W[c])]
  BY <1>3, <1>4, <1>5
<1>8. executed' = [executed EXCEPT ![c] = Append(@, Head(W[c]))]
  BY <1>1, <1>4
<1> QED
  BY <1>1, <1>2, <1>6, <1>7, <1>8 DEF Server!Execute

\* The second half of a frame is Answer; a write that fails is LoseAnswer.
LEMMA WriteAnswers ==
  ASSUME TypeOK, BusyInv, NEW c \in Conns,
         DispatcherWrite2(c) \/ DispatcherWriteFails(c)
  PROVE  Server!Answer(c) \/ Server!LoseAnswer(c)
<1>1. /\ dsp[c] \in {"write1", "write2"} /\ dsp' = [dsp EXCEPT ![c] = "pause"]
      /\ current' = [current EXCEPT ![c] = 0]
      /\ UNCHANGED <<requests, executed, work_access>>
      /\ answered' = [answered EXCEPT ![c] = Append(@, current[c])] \/ UNCHANGED answered
  BY DEF DispatcherWrite2, DispatcherWriteFails, DispatcherGoes
<1>2. Unanswered(c) = current[c] /\ current[c] \in Requests /\ Unanswered(c)' = 0
  BY <1>1 DEF TypeOK, BusyInv, Unanswered, Serving
<1>3. Unanswered(c) # 0
  BY <1>2 DEF Requests
<1>4. ASSUME NEW d \in Conns
      PROVE  /\ Waiting(d)' = Waiting(d)
             /\ d # c => Unanswered(d)' = Unanswered(d)
  BY <1>1 DEF TypeOK, Waiting, Unanswered, Serving
<1> DEFINE U == [d \in Conns |-> Unanswered(d)]
<1>5. U' = [U EXCEPT ![c] = 0] /\ U[c] = current[c] /\ U[c] # 0
  BY <1>2, <1>3, <1>4
<1>6. [d \in Conns |-> Waiting(d)]' = [d \in Conns |-> Waiting(d)]
  BY <1>4
<1> QED
  BY <1>1, <1>5, <1>6 DEF Server!Answer, Server!LoseAnswer

\* Every step of the threads is a step of RequestServer or none.
LEMMA ServerStep ==
  ASSUME IInv, OrderInv, [Next]_vars
  PROVE  Server!Next \/ UNCHANGED Server!vars
<1>0. TypeOK /\ BusyInv /\ WorkInv /\ LifeInv /\ \A c \in Conns : InOrder(c)
  BY DEF IInv, OrderInv
<1>a. ASSUME UNCHANGED <<dsp, requests, current, executed, work_access, answered>>
      PROVE  UNCHANGED Server!vars
  BY <1>a, ServerStutters DEF Waiting, Unanswered, Serving
<1>1. ASSUME NEW c \in Conns, ClientStep(c)
      PROVE  UNCHANGED Server!vars
  BY <1>1, <1>a, ClientFrame
<1>2. CASE MainStep \/ MainAcceptFails \/ SignalMain \/ Terminate
  BY <1>2, <1>a, MainFrame
<1>3. ASSUME NEW c \in Conns, SignalThread(c)
      PROVE  UNCHANGED Server!vars
  BY <1>3, <1>a, SignalFrame
<1>4. ASSUME NEW c \in Conns, ReceiverStep(c)
      PROVE  Server!Next \/ UNCHANGED Server!vars
  <2>1. CASE ReceiverRead(c)
    BY <1>0, <2>1, ReadAccepts DEF Server!Next
  <2>2. CASE ~ReceiverRead(c)
    <3>1. \A d \in Conns : Waiting(d)' = Waiting(d)
      BY <1>0, <1>4, <2>2, QuietHistory
    <3>2. UNCHANGED <<current, executed, work_access, answered>>
      BY <1>4, ReceiverFrame
    <3>3. \A d \in Conns : Unanswered(d)' = Unanswered(d)
      <4>1. CASE ReceiverStart(c)
        BY <1>0, <3>2, <4>1 DEF ReceiverStart, ReceiverGoes, TypeOK, LifeInv,
           Unanswered, Serving
      <4> QED
        BY <1>4, <3>2, <4>1, ReceiverLeavesDispatcher DEF Unanswered, Serving
    <3> QED
      BY <3>1, <3>2, <3>3, ServerStutters
  <2> QED
    BY <2>1, <2>2
<1>5. ASSUME NEW c \in Conns, DispatcherStep(c)
      PROVE  Server!Next \/ UNCHANGED Server!vars
  <2>1. CASE DispatcherPop(c)
    <3>1. /\ UNCHANGED <<executed, answered, work_access>>
          /\ Waiting(c)' = Waiting(c)
      BY <1>0, <2>1, PopHistory DEF DispatcherPop
    <3>2. \A d \in Conns \ {c} : Waiting(d)' = Waiting(d)
      BY <1>0, <1>5, OtherConnections, SameWaiting
    <3>3. ASSUME NEW d \in Conns
          PROVE  Unanswered(d)' = Unanswered(d)
      <4>1. CASE d = c
        BY <1>0, <2>1, <4>1, PopHistory DEF Unanswered, Serving
      <4>2. CASE d # c
        BY <1>0, <1>5, <4>2, OtherConnections DEF Unanswered, Serving
      <4> QED
        BY <4>1, <4>2
    <3> QED
      BY <3>1, <3>2, <3>3, ServerStutters
  <2>2. CASE DispatcherLockWork(c)
    BY <1>0, <2>2, LockBegins DEF Server!Next
  <2>3. CASE DispatcherExec(c)
    BY <1>0, <2>3, ExecExecutes DEF Server!Next
  <2>4. CASE DispatcherWrite2(c) \/ DispatcherWriteFails(c)
    BY <1>0, <2>4, WriteAnswers DEF Server!Next
  <2>5. CASE DispatcherLockWrite(c) \/ DispatcherWrite1(c) \/ DispatcherPause(c)
    <3>1. UNCHANGED <<requests, current, executed, work_access, answered>>
      BY <2>5 DEF DispatcherLockWrite, DispatcherWrite1, DispatcherPause
    <3>2. ASSUME NEW d \in Conns
          PROVE  Waiting(d)' = Waiting(d) /\ Unanswered(d)' = Unanswered(d)
      BY <1>0, <2>5, <3>1 DEF DispatcherLockWrite, DispatcherWrite1,
         DispatcherPause, DispatcherGoes, TypeOK, Waiting, Unanswered, Serving
    <3> QED
      BY <3>1, <3>2, ServerStutters
  <2> QED
    BY <1>5, <2>1, <2>2, <2>3, <2>4, <2>5 DEF DispatcherStep
<1>6. CASE UNCHANGED vars
  BY <1>6, <1>a DEF vars
<1> QED
  BY <1>1, <1>2, <1>3, <1>4, <1>5, <1>6 DEF Next, Exited

\* The threads, mutexes and queues implement the serial server: requests are
\* executed one at a time over all connections, in order on each, with at
\* most one unanswered per connection.
THEOREM Refinement == Spec => ImplementsServer
<1>1. Init => Server!Init
  <2> SUFFICES ASSUME Init PROVE Server!Init
    OBVIOUS
  <2>1. ASSUME NEW c \in Conns
        PROVE  Waiting(c) = <<>> /\ Unanswered(c) = 0
    <3>1. requests[c] = <<>> /\ dsp[c] = "none"
      BY DEF Init
    <3>2. <<>> \o <<>> = <<>>
      OBVIOUS
    <3> QED
      BY <3>1, <3>2 DEF Waiting, Unanswered, Serving
  <2> QED
    BY <2>1 DEF Init, Server!Init
<1>2. IInv /\ OrderInv /\ [Next]_vars => OrderInv'
  BY OrderInvNext
<1>3. IInv /\ OrderInv /\ [Next]_vars => [Server!Next]_(Server!vars)
  BY ServerStep
<1> QED
  BY <1>1, <1>2, <1>3, OrderInvInit, Invariance, PTL
  DEF Spec, ImplementsServer, Server!Spec

=============================================================================
