------------------------------ MODULE WpaList ------------------------------
(***************************************************************************)
(* WPA_LIST with DETAILS of NmWorkerWpa.  The networks are listed by one   *)
(* exchange with wpa_supplicant (see WpaCtrl), and then asked for one by   *)
(* one, each by a task of its own (GetWpaNetworkParams): it binds a socket *)
(* to a path with a random number, asks for the parameters in turn and     *)
(* returns what it got.  The command waits for all tasks (when_all) and    *)
(* puts their results into the list.                                       *)
(*                                                                         *)
(* Numbers are drawn by all tasks from one generator, without a lock.      *)
(* They are interchangeable: a draw is either one of the numbers drawn     *)
(* before or the next new one.                                             *)
(***************************************************************************)
EXTENDS Naturals, Sequences

CONSTANTS
    Ids,             \* numbers of networks
    SuppParamNames,  \* the parameters asked for, a sequence
    MaxLeft,         \* bound: socket files that earlier commands may have left
    MaxClashes,      \* bound: draws of a number drawn before
    MaxStops         \* bound: how often wpa_supplicant is stopped

ASSUME BoundsAssumption == MaxLeft \in Nat /\ MaxClashes \in Nat /\ MaxStops \in Nat

ASSUME ParamsAssumption == SuppParamNames \in Seq(STRING) \ {<<>>} /\ Ids # {}

ParamNames == {SuppParamNames[k] : k \in DOMAIN SuppParamNames}

\* wpa_supplicant's answer to GET: the value, or FAIL when there is no such
\* network (any more).
Reply == [id : Ids, param : ParamNames, fail : BOOLEAN]

VARIABLES
    pc,       \* of the command
    details,  \* its DETAILS
    listed,   \* the networks of its list
    found,    \* per network: the parameters it reports
    result    \* "none", "ERR", "SUCC", or "internal" for an exception

VARIABLES
    task,     \* per network: where its task is, "none" without
    suffix,   \* per network: its rnd_suffix, the number of cliSockAddr
    path,     \* per network: the number of the path its socket is bound to
    at,       \* per network: the parameter asked for
    params,   \* per network: net_params, without the "id"
    inbox,    \* per network: the answers in its socket
    linked    \* per network: the wpa_supplicant it is connected to still runs

VARIABLES
    drawn,    \* numbers 1 .. drawn were drawn before
    files,    \* numbers of the socket files there are
    clashes,  \* draws of a number drawn before
    up,       \* wpa_supplicant runs
    networks, \* the networks it has
    queue,    \* the requests it has not looked at
    stops,
    late,     \* history: an answer came after its task had given up waiting
    down      \* history: wpa_supplicant was not up all the time

command    == <<pc, details, listed, found, result>>
tasks      == <<task, suffix, path, at, params, inbox>>
numbers    == <<drawn, files, clashes>>
supplicant == <<up, networks, queue, stops>>
vars       == <<command, tasks, linked, numbers, supplicant, late, down>>

Init ==
    /\ pc = "idle" /\ details = FALSE /\ listed = {} /\ result = "none"
    /\ found = [n \in Ids |-> <<>>]
    /\ task = [n \in Ids |-> "none"]
    /\ suffix = [n \in Ids |-> 0] /\ path = [n \in Ids |-> 0] /\ at = [n \in Ids |-> 0]
    /\ params = [n \in Ids |-> <<>>] /\ inbox = [n \in Ids |-> <<>>]
    /\ linked = [n \in Ids |-> FALSE]
    /\ drawn \in 0 .. MaxLeft /\ files = 1 .. drawn /\ clashes = 0
    /\ up \in BOOLEAN /\ down = ~up
    /\ networks \in SUBSET Ids /\ queue = <<>> /\ stops = 0
    /\ late = FALSE

-----------------------------------------------------------------------------
(* wpa_supplicant                                                          *)

Live == {"connect", "send", "wait"}   \* a task with an open socket

\* An answer goes to the socket whose file has the name, if there is one.
Handle ==
    /\ up /\ queue # <<>>
    /\ LET q == Head(queue)
           r == [id |-> q.id, param |-> q.param, fail |-> q.id \notin networks]
           To(n) == q.path \in files /\ task[n] \in Live /\ path[n] = q.path
       IN  inbox' = [n \in Ids |-> IF To(n) THEN Append(inbox[n], r) ELSE inbox[n]]
    /\ queue' = Tail(queue)
    /\ UNCHANGED <<command, task, suffix, path, at, params, linked, numbers, up,
                   networks, stops, late, down>>

\* Somebody removes a network.
Forget ==
    /\ \E n \in networks : networks' = networks \ {n}
    /\ UNCHANGED <<command, tasks, linked, numbers, up, queue, stops, late, down>>

Stop ==
    /\ up /\ stops < MaxStops
    /\ up' = FALSE /\ stops' = stops + 1 /\ queue' = <<>>
    /\ linked' = [n \in Ids |-> FALSE]
    /\ down' = TRUE
    /\ UNCHANGED <<command, tasks, numbers, networks, late>>

Start ==
    /\ ~up
    /\ up' = TRUE
    /\ UNCHANGED <<command, tasks, linked, numbers, networks, queue, stops, late, down>>

-----------------------------------------------------------------------------
(* A task: GetWpaNetworkParams                                             *)

Goto(n, l) == task' = [task EXCEPT ![n] = l]

\* Mutant: the path is the one that all commands use.
Draw_Fixed(n) ==
    /\ task[n] = "new"
    /\ suffix' = [suffix EXCEPT ![n] = 1]
    /\ path' = [path EXCEPT ![n] = 1]
    /\ drawn' = IF drawn = 0 THEN 1 ELSE drawn
    /\ Goto(n, "bind")
    /\ UNCHANGED <<command, at, params, inbox, linked, files, clashes, supplicant, late,
                   down>>

\* Two numbers: the first names the file that is removed in the end, the second
\* the one that is made.
Draw(n) ==
    /\ task[n] = "new"
    /\ \E s \in 1 .. drawn + 1 :
       LET d == IF s > drawn THEN s ELSE drawn IN
       \E p \in 1 .. d + 1 :
          /\ drawn' = IF p > d THEN p ELSE d
          /\ clashes' = clashes + (IF s <= drawn THEN 1 ELSE 0) + (IF p <= d THEN 1 ELSE 0)
          /\ clashes' <= MaxClashes
          /\ suffix' = [suffix EXCEPT ![n] = s]
          /\ path' = [path EXCEPT ![n] = p]
    /\ Goto(n, "bind")
    /\ UNCHANGED <<command, at, params, inbox, linked, files, supplicant, late, down>>

\* Mutant: whatever file is there is taken over.
Bind_Takes(n) ==
    /\ task[n] = "bind"
    /\ Goto(n, "connect") /\ files' = files \cup {path[n]}
    /\ UNCHANGED <<command, suffix, path, at, params, inbox, linked, drawn, clashes,
                   supplicant, late, down>>

\* bind() makes the file, and fails when there is one.  The exception of a task
\* is kept for the one who asks for its result.
Bind(n) ==
    /\ task[n] = "bind"
    /\ IF path[n] \in files
       THEN Goto(n, "threw") /\ UNCHANGED files
       ELSE Goto(n, "connect") /\ files' = files \cup {path[n]}
    /\ UNCHANGED <<command, suffix, path, at, params, inbox, linked, drawn, clashes,
                   supplicant, late, down>>

Connect(n) ==
    /\ task[n] = "connect"
    /\ \/ /\ up
          /\ Goto(n, "send") /\ at' = [at EXCEPT ![n] = 1]
          /\ linked' = [linked EXCEPT ![n] = TRUE]
          /\ UNCHANGED files
       \/ /\ ~up
          /\ Goto(n, "threw") /\ files' = files \ {suffix[n]}
          /\ UNCHANGED <<at, linked>>
    /\ UNCHANGED <<command, suffix, path, params, inbox, drawn, clashes, supplicant,
                   late, down>>

\* Mutant: one parameter too many.
After_Beyond(n) ==
    /\ at' = [at EXCEPT ![n] = at[n] + 1]
    /\ IF at[n] > Len(SuppParamNames)
       THEN Goto(n, "ended") /\ files' = files \ {suffix[n]}
       ELSE Goto(n, "send") /\ UNCHANGED files

\* On to the next parameter.  After the last one the socket is closed, and the
\* file of the other number removed.
After(n) ==
    /\ at' = [at EXCEPT ![n] = at[n] + 1]
    /\ IF at[n] = Len(SuppParamNames)
       THEN Goto(n, "ended") /\ files' = files \ {suffix[n]}
       ELSE Goto(n, "send") /\ UNCHANGED files

Send(n) ==
    /\ task[n] = "send"
    /\ \/ /\ linked[n]
          /\ queue' = Append(queue, [path |-> path[n], id |-> n, param |-> SuppParamNames[at[n]]])
          /\ Goto(n, "wait")
          /\ UNCHANGED <<at, files>>
       \/ /\ ~linked[n]
          /\ After(n)
          /\ UNCHANGED queue
    /\ UNCHANGED <<command, suffix, path, params, inbox, linked, drawn, clashes, up,
                   networks, stops, late, down>>

\* The first answer there is counts for the parameter asked for.
Receive(n) ==
    /\ task[n] = "wait" /\ inbox[n] # <<>>
    /\ params' = [params EXCEPT ![n] = Append(@, <<SuppParamNames[at[n]], Head(inbox[n])>>)]
    /\ inbox' = [inbox EXCEPT ![n] = Tail(@)]
    /\ After(n)
    /\ UNCHANGED <<command, suffix, path, linked, drawn, clashes, supplicant, late, down>>

\* Mutant: there is no end of the rounds.
Timeout_Never(n) == task[n] = "wait" /\ inbox[n] = <<>> /\ UNCHANGED vars

\* WAIT_CYCLES rounds without an answer.  The request may still be answered.
Timeout(n) ==
    /\ task[n] = "wait" /\ inbox[n] = <<>>
    /\ late' = (late \/ \E k \in 1 .. Len(queue) : queue[k].id = n)
    /\ After(n)
    /\ UNCHANGED <<command, suffix, path, params, inbox, linked, drawn, clashes,
                   supplicant, down>>

Task(n) == Draw(n) \/ Bind(n) \/ Connect(n) \/ Send(n) \/ Receive(n) \/ Timeout(n)

-----------------------------------------------------------------------------
(* The command                                                             *)

Begin(d) ==
    /\ pc = "idle" /\ result = "none"
    /\ pc' = "list" /\ details' = d
    /\ UNCHANGED <<listed, found, result, tasks, linked, numbers, supplicant, late, down>>

Return(r) == pc' = "idle" /\ result' = r

\* LIST_NETWORKS, one wpaCtrlCmd.
List ==
    /\ pc = "list"
    /\ \/ Return("ERR") /\ UNCHANGED <<listed, task>>
       \/ /\ up
          /\ listed' = networks
          /\ IF details
             THEN /\ pc' = "tasks" /\ UNCHANGED result
                  /\ task' = [n \in Ids |-> IF n \in networks THEN "new" ELSE "none"]
             ELSE Return("SUCC") /\ UNCHANGED task
    /\ UNCHANGED <<details, found, suffix, path, at, params, inbox, linked, numbers,
                   supplicant, late, down>>

Over == {"none", "ended", "threw"}

\* when_all: every task is over, by a result or by an exception.
AllOver == \A n \in Ids : task[n] \in Over

\* A result is found by its "id", which one without parameters does not have.
\* Exceptions come out of rt.get(), outside the try, and so out of execCmd.
Merge ==
    /\ pc = "tasks" /\ AllOver
    /\ IF \E n \in listed : task[n] = "threw"
       THEN Return("internal") /\ UNCHANGED found
       ELSE /\ Return("SUCC")
            /\ found' = [n \in Ids |-> IF n \in listed THEN params[n] ELSE <<>>]
    /\ UNCHANGED <<details, listed, tasks, linked, numbers, supplicant, late, down>>

\* The list is there, and nothing more is asked for.
Done ==
    /\ pc = "idle" /\ result # "none"
    /\ UNCHANGED vars

-----------------------------------------------------------------------------
Step == List \/ Merge \/ \E n \in Ids : Task(n)

Next ==
    \/ \E d \in BOOLEAN : Begin(d)
    \/ Step \/ Done
    \/ Handle \/ Forget \/ Stop \/ Start

\* The thread of the command and the threads of async++ are scheduled.
Spec ==
    /\ Init /\ [][Next]_vars
    /\ WF_vars(List) /\ WF_vars(Merge)
    /\ \A n \in Ids : WF_vars(Task(n))

-----------------------------------------------------------------------------
Requests == [path : Nat, id : Ids, param : ParamNames]

TypeOK ==
    /\ pc \in {"idle", "list", "tasks"} /\ details \in BOOLEAN /\ listed \subseteq Ids
    /\ result \in {"none", "ERR", "SUCC", "internal"}
    /\ found \in [Ids -> Seq(ParamNames \X Reply)]
    /\ task \in [Ids -> Over \cup Live \cup {"new", "bind"}]
    /\ suffix \in [Ids -> 0 .. drawn] /\ path \in [Ids -> 0 .. drawn]
    /\ at \in [Ids -> Nat]
    /\ \A n \in Ids : task[n] \in {"send", "wait"} => at[n] \in DOMAIN SuppParamNames
    /\ params \in [Ids -> Seq(ParamNames \X Reply)] /\ inbox \in [Ids -> Seq(Reply)]
    /\ linked \in [Ids -> BOOLEAN]
    /\ drawn \in Nat /\ files \subseteq 1 .. drawn /\ clashes \in 0 .. MaxClashes
    /\ up \in BOOLEAN /\ networks \subseteq Ids /\ queue \in Seq(Requests)
    /\ stops \in 0 .. MaxStops /\ late \in BOOLEAN /\ down \in BOOLEAN

\* What WPA_LIST reports of a network was answered for that network, although the
\* tasks of all networks talk to wpa_supplicant at once, an answer may be late and
\* one number may come up twice; and for that parameter, unless GetWpaNetworkParams
\* gave up waiting for an answer that still came, which it takes for the next one's.
DetailsTrue ==
    clashes <= 1 => \A n \in Ids : \A k \in 1 .. Len(found[n]) :
        LET r == found[n][k][2] IN r.id = n /\ (late \/ r.param = found[n][k][1])

\* WPA_LIST is answered with an internal error, and all networks are lost, only
\* when a number came up twice or wpa_supplicant was not up all the time.
InternalHasCause == result = "internal" => clashes > 0 \/ down

\* WPA_LIST ends, whatever wpa_supplicant does or leaves undone.
ListEnds == pc # "idle" ~> pc = "idle"

-----------------------------------------------------------------------------
(* The inductive invariant behind the safety properties                    *)

Past == Live \cup {"ended", "threw"}   \* a task that has called bind()

\* Numbers are drawn once per task; the tasks start with the list.
LifeInv ==
    /\ pc = "list" \/ (pc = "idle" /\ result = "none") => \A n \in Ids : task[n] = "none"
    /\ \A n \in Ids : IF task[n] \in {"none", "new"}
                      THEN path[n] = 0 /\ suffix[n] = 0
                      ELSE path[n] > 0 /\ suffix[n] > 0
    /\ ~up => down

\* Without a clash all numbers differ; with one, no number is drawn for two
\* sockets and for a removal.
ClashInv ==
    \A n, m \in Ids : path[n] = path[m] /\ path[n] # 0 /\ n # m =>
        /\ clashes > 0
        /\ clashes <= 1 => \A x \in Ids : suffix[x] # path[n]
RemovalInv == \A n, x \in Ids : suffix[x] = path[n] /\ path[n] # 0 => clashes > 0

\* The file of a socket stays unless its number was drawn for a removal, and
\* without a clash bind() finds no file.
FileInv ==
    \A n \in Ids :
        /\ task[n] \in Past /\ (\A x \in Ids : suffix[x] # path[n]) => path[n] \in files
        /\ task[n] = "bind" /\ path[n] \in files => clashes > 0
        /\ task[n] = "threw" => clashes > 0 \/ down

\* With one clash at most, a path has been bound by one task at most.
OwnInv ==
    clashes <= 1 => \A n, m \in Ids :
        /\ path[n] = path[m]
        /\ task[n] \in Live \cup {"ended"} /\ task[m] \in Live \cup {"ended"}
        => n = m

\* A request is answered to the path its task is bound to.
QueueInv ==
    \A k \in DOMAIN queue :
        /\ queue[k].path = path[queue[k].id]
        /\ task[queue[k].id] \in {"send", "wait", "ended"}

\* An answer in a socket was meant for it.
AnswerInv ==
    clashes <= 1 => \A n \in Ids :
        /\ \A k \in DOMAIN inbox[n] : inbox[n][k].id = n
        /\ \A k \in DOMAIN params[n] : params[n][k][2].id = n
        /\ \A k \in DOMAIN found[n] : found[n][k][2].id = n

\* Unless an answer was late, one request or answer at most is under way for
\* a task, and it is about the parameter the task waits for.
Asked(n) == SuppParamNames[at[n]]
RequestsOne ==
    \A k \in DOMAIN queue :
        LET n == queue[k].id IN
        /\ task[n] = "wait" /\ inbox[n] = <<>> /\ queue[k].param = Asked(n)
        /\ \A j \in DOMAIN queue : queue[j].id = n => j = k
AnswersOne ==
    \A n \in Ids : inbox[n] # <<>> =>
        task[n] = "wait" /\ Len(inbox[n]) = 1 /\ inbox[n][1].param = Asked(n)
Matched(results) ==
    \A n \in Ids : \A k \in DOMAIN results[n] : results[n][k][2].param = results[n][k][1]
OneAtATime ==
    clashes <= 1 /\ ~late => RequestsOne /\ AnswersOne /\ Matched(params) /\ Matched(found)

IInv ==
    /\ TypeOK /\ LifeInv /\ ClashInv /\ RemovalInv /\ FileInv /\ OwnInv
    /\ QueueInv /\ AnswerInv /\ OneAtATime /\ InternalHasCause

=============================================================================
