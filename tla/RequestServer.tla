--------------------------- MODULE RequestServer ---------------------------
(***************************************************************************)
(* What the connection engine promises, without threads, mutexes, sockets  *)
(* or signals: a server that executes the requests of all connections one  *)
(* at a time, those of one connection in the order in which they came, and *)
(* that has at most one unanswered request per connection.  It promises    *)
(* neither to execute a request it accepted nor to deliver an answer: a    *)
(* connection may end at any point.                                        *)
(***************************************************************************)
EXTENDS Naturals, Sequences

CONSTANTS Conns, NoConn, Requests

VARIABLES
    waiting,     \* accepted requests of a connection, oldest first
    busy,        \* connection whose request is being executed
    executed,    \* requests executed, in order
    unanswered,  \* executed request whose answer is not out yet, 0 if none
    answered     \* requests answered, in order

vars == <<waiting, busy, executed, unanswered, answered>>

Init ==
    /\ waiting = [c \in Conns |-> <<>>]
    /\ busy = NoConn
    /\ executed = [c \in Conns |-> <<>>]
    /\ unanswered = [c \in Conns |-> 0]
    /\ answered = [c \in Conns |-> <<>>]

\* A request is newer than all that came before it on its connection.
Accept(c) ==
    /\ \E n \in Requests :
        /\ \A i \in DOMAIN waiting[c] : waiting[c][i] < n
        /\ \A i \in DOMAIN executed[c] : executed[c][i] < n
        /\ waiting' = [waiting EXCEPT ![c] = Append(@, n)]
    /\ UNCHANGED <<busy, executed, unanswered, answered>>

Begin(c) ==
    /\ busy = NoConn
    /\ waiting[c] # <<>>
    /\ unanswered[c] = 0
    /\ busy' = c
    /\ UNCHANGED <<waiting, executed, unanswered, answered>>

Execute(c) ==
    /\ busy = c
    /\ busy' = NoConn
    /\ executed' = [executed EXCEPT ![c] = Append(@, Head(waiting[c]))]
    /\ unanswered' = [unanswered EXCEPT ![c] = Head(waiting[c])]
    /\ waiting' = [waiting EXCEPT ![c] = Tail(@)]
    /\ UNCHANGED answered

Answer(c) ==
    /\ unanswered[c] # 0
    /\ answered' = [answered EXCEPT ![c] = Append(@, unanswered[c])]
    /\ unanswered' = [unanswered EXCEPT ![c] = 0]
    /\ UNCHANGED <<waiting, busy, executed>>

\* The client is gone before its answer is out.
LoseAnswer(c) ==
    /\ unanswered[c] # 0
    /\ unanswered' = [unanswered EXCEPT ![c] = 0]
    /\ UNCHANGED <<waiting, busy, executed, answered>>

Next ==
    \E c \in Conns :
        Accept(c) \/ Begin(c) \/ Execute(c) \/ Answer(c) \/ LoseAnswer(c)

Spec == Init /\ [][Next]_vars

=============================================================================
