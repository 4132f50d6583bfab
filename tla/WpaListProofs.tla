--------------------------- MODULE WpaListProofs ---------------------------
(***************************************************************************)
(* What a list with details says is true, and it fails for a reason only,  *)
(* for any number of networks and parameters and any bounds.               *)
(***************************************************************************)
EXTENDS WpaList, SequenceTheorems, TLAPS

USE DEF command, tasks, numbers, supplicant

-----------------------------------------------------------------------------
(* Sequences                                                               *)

\* What is at the places of a sequence with one more element.
LEMMA AppendPlaces ==
    ASSUME NEW S, NEW s \in Seq(S), NEW e \in S
    PROVE  /\ Append(s, e) \in Seq(S)
           /\ \A k \in DOMAIN Append(s, e) :
                 \/ k \in DOMAIN s /\ Append(s, e)[k] = s[k]
                 \/ k = Len(s) + 1 /\ Append(s, e)[k] = e
OBVIOUS

\* What is at the places of a sequence without its first element.
LEMMA TailPlaces ==
    ASSUME NEW S, NEW s \in Seq(S), s # <<>>
    PROVE  /\ Tail(s) \in Seq(S) /\ Head(s) \in S /\ Head(s) = s[1] /\ 1 \in DOMAIN s
           /\ Len(Tail(s)) = Len(s) - 1
           /\ \A k \in DOMAIN Tail(s) :
                 k \in Nat /\ k + 1 \in DOMAIN s /\ k + 1 # 1 /\ Tail(s)[k] = s[k + 1]
OBVIOUS

\* The name of the parameter asked for is one of ParamNames.
LEMMA AskedType ==
    ASSUME TypeOK, NEW n \in Ids, task[n] \in {"send", "wait"}
    PROVE  /\ at[n] \in 1 .. Len(SuppParamNames)
           /\ SuppParamNames[at[n]] \in ParamNames
<1>1. SuppParamNames \in Seq(STRING)
  BY ParamsAssumption
<1>2. at[n] \in DOMAIN SuppParamNames
  BY DEF TypeOK
<1> QED  BY <1>1, <1>2 DEF ParamNames

-----------------------------------------------------------------------------
(* Frames                                                                  *)

\* The numbers that a task draws.  One that was drawn before counts as a clash,
\* and with one clash in all there is one such number at most.
LEMMA DrawNumbers ==
    ASSUME TypeOK, NEW n \in Ids, Draw(n)
    PROVE  \E s, p \in Nat :
              /\ suffix' = [suffix EXCEPT ![n] = s] /\ path' = [path EXCEPT ![n] = p]
              /\ drawn' \in Nat /\ drawn <= drawn'
              /\ s \in 1 .. drawn' /\ p \in 1 .. drawn'
              /\ clashes' \in 0 .. MaxClashes /\ clashes <= clashes'
              /\ s <= drawn \/ p <= drawn \/ p = s => clashes' > clashes
              /\ clashes' <= 1 => ~(s <= drawn /\ (p <= drawn \/ p = s))
<1>1. PICK s \in 1 .. drawn + 1 :
         LET d == IF s > drawn THEN s ELSE drawn IN
         \E p \in 1 .. d + 1 :
          /\ drawn' = IF p > d THEN p ELSE d
          /\ clashes' = clashes + (IF s <= drawn THEN 1 ELSE 0) + (IF p <= d THEN 1 ELSE 0)
          /\ clashes' <= MaxClashes
          /\ suffix' = [suffix EXCEPT ![n] = s]
          /\ path' = [path EXCEPT ![n] = p]
  BY DEF Draw
<1>2. drawn \in Nat /\ clashes \in Nat /\ MaxClashes \in Nat
  BY BoundsAssumption DEF TypeOK
<1>3. s \in Nat
  BY <1>2
<1> DEFINE d == IF s > drawn THEN s ELSE drawn
<1>4. d \in Nat /\ drawn <= d /\ s <= d /\ (s > drawn => d = s)
  BY <1>2, <1>3
<1>5. PICK p \in 1 .. d + 1 :
          /\ drawn' = IF p > d THEN p ELSE d
          /\ clashes' = clashes + (IF s <= drawn THEN 1 ELSE 0) + (IF p <= d THEN 1 ELSE 0)
          /\ clashes' <= MaxClashes
          /\ suffix' = [suffix EXCEPT ![n] = s]
          /\ path' = [path EXCEPT ![n] = p]
  BY <1>1
<1> HIDE DEF d
<1>6. p \in Nat /\ p >= 1 /\ s >= 1
  BY <1>4
<1> WITNESS s \in Nat, p \in Nat
<1> QED  BY <1>2, <1>3, <1>4, <1>5, <1>6

\* The command has not come to its tasks.
Early == pc = "list" \/ (pc = "idle" /\ result = "none")

\* Where a task gets once it is bound.
Moves(m) ==
    \/ task'[m] = task[m]
    \/ task[m] \in Live /\ task'[m] \in Live \cup {"ended"}
    \/ task[m] = "connect" /\ task'[m] = "threw" /\ down

\* What all steps but Draw, Bind and List do to the tasks, the numbers and the files.
Onward ==
    /\ UNCHANGED <<suffix, path, drawn, clashes>>
    /\ \A m \in Ids : Moves(m)
    /\ files' = files \/ \E x \in Ids : files' = files \ {suffix[x]}
    /\ Early' => Early
    /\ down => down'
    /\ ~up' => down'

\* A task that goes on to its next parameter, or ends.
LEMMA AfterOnward ==
    ASSUME TypeOK, NEW n \in Ids, task[n] \in Live, After(n)
    PROVE  /\ \A m \in Ids : Moves(m)
           /\ files' = files \/ \E x \in Ids : files' = files \ {suffix[x]}
BY DEF After, Goto, Moves, Live, TypeOK

\* Every step is one of these.
LEMMA StepsOnward ==
    ASSUME TypeOK, LifeInv, [Next]_vars
    PROVE  Onward \/ List \/ \E n \in Ids : Draw(n) \/ Bind(n)
<1>0. (~up => down) /\ up \in BOOLEAN /\ down \in BOOLEAN
  BY DEF LifeInv, TypeOK
<1>1. ASSUME NEW d \in BOOLEAN, Begin(d) PROVE Onward
  BY <1>0, <1>1 DEF Begin, Onward, Moves, Early
<1>2. ASSUME Merge PROVE Onward
  BY <1>0, <1>2 DEF Merge, Return, Onward, Moves, Early
<1>3. ASSUME NEW n \in Ids, Connect(n) PROVE Onward
  <2>1. /\ UNCHANGED <<suffix, path, drawn, clashes, pc, result, up, down>>
        /\ files' = files \/ files' = files \ {suffix[n]}
    BY <1>3 DEF Connect
  <2>2. task[n] = "connect"
        /\ (task' = [task EXCEPT ![n] = "send"] \/ (task' = [task EXCEPT ![n] = "threw"] /\ down))
    BY <1>0, <1>3 DEF Connect, Goto
  <2>3. \A m \in Ids : Moves(m)
    BY <2>2 DEF Moves, Live, TypeOK
  <2> QED  BY <1>0, <2>1, <2>3 DEF Onward, Early
<1>4. ASSUME NEW n \in Ids, Send(n) PROVE Onward
  <2>1. /\ UNCHANGED <<suffix, path, drawn, clashes, pc, result, up, down>>
        /\ task[n] = "send"
        /\ (After(n) \/ (task' = [task EXCEPT ![n] = "wait"] /\ UNCHANGED files))
    BY <1>4 DEF Send, Goto
  <2>2. /\ \A m \in Ids : Moves(m)
        /\ files' = files \/ \E x \in Ids : files' = files \ {suffix[x]}
    <3>1. CASE After(n)
      BY <2>1, <3>1, AfterOnward DEF Live
    <3>2. CASE task' = [task EXCEPT ![n] = "wait"] /\ UNCHANGED files
      BY <2>1, <3>2 DEF Live, Moves, TypeOK
    <3> QED  BY <2>1, <3>1, <3>2
  <2> QED  BY <1>0, <2>1, <2>2 DEF Onward, Early
<1>5. ASSUME NEW n \in Ids, Receive(n) \/ Timeout(n) PROVE Onward
  <2>1. /\ UNCHANGED <<suffix, path, drawn, clashes, pc, result, up, down>>
        /\ task[n] \in Live /\ After(n)
    BY <1>5 DEF Receive, Timeout, Live
  <2>2. /\ \A m \in Ids : Moves(m)
        /\ files' = files \/ \E x \in Ids : files' = files \ {suffix[x]}
    BY <2>1, AfterOnward
  <2> QED  BY <1>0, <2>1, <2>2 DEF Onward, Early
<1>6. ASSUME Handle \/ Forget \/ Start \/ UNCHANGED vars PROVE Onward
  <2>1. /\ UNCHANGED <<task, files, suffix, path, drawn, clashes, pc, result, down>>
        /\ (up' = up \/ up')
    BY <1>6 DEF Handle, Forget, Start, vars
  <2> QED  BY <1>0, <2>1 DEF Onward, Moves, Early
<1>7. ASSUME Stop PROVE Onward
  BY <1>7 DEF Stop, Onward, Moves, Early
<1> QED
  BY <1>1, <1>2, <1>3, <1>4, <1>5, <1>6, <1>7 DEF Next, Step, Task, Done

-----------------------------------------------------------------------------
(* Types                                                                   *)

\* On to the next parameter, or the end: the types stay.
LEMMA AfterType ==
    ASSUME TypeOK, NEW n \in Ids, task[n] \in {"send", "wait"}, After(n)
    PROVE  /\ at' \in [Ids -> Nat]
           /\ task' \in [Ids -> Over \cup Live \cup {"new", "bind"}]
           /\ \A m \in Ids : task'[m] \in {"send", "wait"} => at'[m] \in DOMAIN SuppParamNames
           /\ files' \subseteq files
<1>1. at[n] \in 1 .. Len(SuppParamNames) /\ Len(SuppParamNames) \in Nat
      /\ DOMAIN SuppParamNames = 1 .. Len(SuppParamNames)
  BY AskedType, ParamsAssumption
<1>2. at[n] + 1 \in Nat
  BY <1>1
<1>3. at' \in [Ids -> Nat] /\ files' \subseteq files
  BY <1>2 DEF After, TypeOK
<1>4. task' \in [Ids -> Over \cup Live \cup {"new", "bind"}]
  BY DEF After, TypeOK, Goto, Over, Live
<1>5. ASSUME NEW m \in Ids, task'[m] \in {"send", "wait"}
      PROVE  at'[m] \in DOMAIN SuppParamNames
  <2>1. CASE m # n
    BY <2>1, <1>5 DEF After, TypeOK, Goto
  <2>2. CASE m = n
    <3>1. at[n] # Len(SuppParamNames)
      BY <2>2, <1>5 DEF After, TypeOK, Goto
    <3>2. at'[n] = at[n] + 1
      BY DEF After, TypeOK
    <3> QED  BY <3>1, <3>2, <1>1, <2>2
  <2> QED  BY <2>1, <2>2
<1> QED  BY <1>3, <1>4, <1>5

\* No step leaves the types.
LEMMA TypeNext == TypeOK /\ LifeInv /\ [Next]_vars => TypeOK'
<1> SUFFICES ASSUME TypeOK, LifeInv, [Next]_vars PROVE TypeOK'
  OBVIOUS
<1> USE BoundsAssumption DEF Over, Live
<1>1. ASSUME NEW d \in BOOLEAN, Begin(d) PROVE TypeOK'
  BY <1>1 DEF Begin, TypeOK
<1>2. ASSUME List PROVE TypeOK'
  BY <1>2 DEF List, TypeOK, Return
<1>3. ASSUME Merge PROVE TypeOK'
  <2> DEFINE P == Seq(ParamNames \X Reply)
  <2>0. <<>> \in P /\ found \in [Ids -> P] /\ \A n \in Ids : params[n] \in P
    BY DEF TypeOK
  <2> HIDE DEF P
  <2>a. found' \in [Ids -> P]
    BY <1>3, <2>0 DEF Merge
  <2>1. found' \in [Ids -> Seq(ParamNames \X Reply)]
    BY <2>a DEF P
  <2> QED  BY <1>3, <2>1 DEF Merge, TypeOK, Return
<1>4. ASSUME NEW n \in Ids, Draw(n) PROVE TypeOK'
  <2>1. PICK s, p \in Nat :
              /\ suffix' = [suffix EXCEPT ![n] = s] /\ path' = [path EXCEPT ![n] = p]
              /\ drawn' \in Nat /\ drawn <= drawn'
              /\ s \in 1 .. drawn' /\ p \in 1 .. drawn'
              /\ clashes' \in 0 .. MaxClashes
    BY <1>4, DrawNumbers
  <2>2. drawn \in Nat /\ 0 .. drawn \subseteq 0 .. drawn' /\ 1 .. drawn \subseteq 1 .. drawn'
    BY <2>1 DEF TypeOK
  <2>3. suffix' \in [Ids -> 0 .. drawn'] /\ path' \in [Ids -> 0 .. drawn']
    <3>1. s \in 0 .. drawn' /\ p \in 0 .. drawn'
      BY <2>1
    <3>2. suffix \in [Ids -> 0 .. drawn'] /\ path \in [Ids -> 0 .. drawn']
      BY <2>2 DEF TypeOK
    <3> QED  BY <2>1, <3>1, <3>2
  <2> QED  BY <1>4, <2>1, <2>2, <2>3 DEF Draw, Goto, TypeOK
<1>5. ASSUME NEW n \in Ids, Bind(n) PROVE TypeOK'
  <2>1. CASE path[n] \in files
    BY <1>5, <2>1 DEF Bind, Goto, TypeOK
  <2>2. CASE path[n] \notin files
    <3>1. path[n] \in 0 .. drawn /\ path[n] > 0 /\ drawn \in Nat
      BY <1>5 DEF TypeOK, LifeInv, Bind
    <3>2. path[n] \in 1 .. drawn
      BY <3>1
    <3>3. files' \subseteq 1 .. drawn
      BY <1>5, <2>2, <3>2 DEF Bind, TypeOK
    <3> QED  BY <1>5, <2>2, <3>3 DEF Bind, Goto, TypeOK
  <2> QED  BY <2>1, <2>2
<1>6. ASSUME NEW n \in Ids, Connect(n) PROVE TypeOK'
  <2>1. 1 \in DOMAIN SuppParamNames
    BY ParamsAssumption
  <2>2. at' \in [Ids -> Nat] /\ linked' \in [Ids -> BOOLEAN] /\ files' \subseteq files
    <3>0. at \in [Ids -> Nat] /\ linked \in [Ids -> BOOLEAN] /\ 1 \in Nat
      BY DEF TypeOK
    <3>1. at' \in [Ids -> Nat]
      BY <1>6, <3>0 DEF Connect
    <3>2. linked' \in [Ids -> BOOLEAN]
      BY <1>6, <3>0 DEF Connect
    <3>3. files' \subseteq files
      BY <1>6 DEF Connect
    <3> QED  BY <3>1, <3>2, <3>3
  <2>3. /\ task' \in [Ids -> Over \cup Live \cup {"new", "bind"}]
        /\ \A m \in Ids : task'[m] \in {"send", "wait"} => at'[m] \in DOMAIN SuppParamNames
    <3>1. ASSUME up, NEW m \in Ids, task'[m] \in {"send", "wait"}
          PROVE  at'[m] \in DOMAIN SuppParamNames
      <4>1. at' = [at EXCEPT ![n] = 1] /\ task' = [task EXCEPT ![n] = "send"]
        BY <1>6, <3>1 DEF Connect, Goto
      <4>2. CASE m = n
        BY <4>1, <4>2, <2>1 DEF TypeOK
      <4>3. CASE m # n
        <5>1. at'[m] = at[m] /\ task[m] \in {"send", "wait"}
          BY <4>1, <4>3, <3>1 DEF TypeOK
        <5> QED  BY <5>1 DEF TypeOK
      <4> QED  BY <4>2, <4>3
    <3>2. ASSUME ~up, NEW m \in Ids, task'[m] \in {"send", "wait"}
          PROVE  at'[m] \in DOMAIN SuppParamNames
      <4>1. at' = at /\ task[m] \in {"send", "wait"}
        BY <1>6, <3>2 DEF Connect, Goto, TypeOK
      <4> QED  BY <4>1 DEF TypeOK
    <3>3. task' \in [Ids -> Over \cup Live \cup {"new", "bind"}]
      BY <1>6 DEF Connect, Goto, TypeOK
    <3> QED  BY <3>1, <3>2, <3>3
  <2>4. UNCHANGED <<command, suffix, path, params, inbox, drawn, clashes, supplicant,
                    late, down>>
    BY <1>6 DEF Connect
  <2> QED  BY <2>2, <2>3, <2>4 DEF TypeOK
<1>7. ASSUME NEW n \in Ids, Send(n) PROVE TypeOK'
  <2>1. CASE linked[n]
    <3>1. [path |-> path[n], id |-> n, param |-> SuppParamNames[at[n]]] \in Requests
      <4>1. SuppParamNames[at[n]] \in ParamNames
        BY <1>7, AskedType DEF Send
      <4>2. path[n] \in Nat
        BY DEF TypeOK
      <4> QED  BY <4>1, <4>2 DEF Requests
    <3>2. queue' \in Seq(Requests)
      <4>1. queue' = Append(queue, [path |-> path[n], id |-> n, param |-> SuppParamNames[at[n]]])
        BY <1>7, <2>1 DEF Send
      <4>2. queue \in Seq(Requests)
        BY DEF TypeOK
      <4> QED  BY <3>1, <4>1, <4>2, AppendPlaces, Zenon
    <3> QED  BY <1>7, <2>1, <3>2 DEF Send, Goto, TypeOK
  <2>2. CASE ~linked[n]
    <3>1. /\ task[n] = "send" /\ After(n)
          /\ UNCHANGED <<command, suffix, path, params, inbox, linked, drawn, clashes, up,
                         networks, stops, late, down, queue>>
      BY <1>7, <2>2 DEF Send
    <3>2. /\ at' \in [Ids -> Nat]
          /\ task' \in [Ids -> Over \cup Live \cup {"new", "bind"}]
          /\ \A m \in Ids : task'[m] \in {"send", "wait"} => at'[m] \in DOMAIN SuppParamNames
          /\ files' \subseteq files
      BY <3>1, AfterType
    <3> QED  BY <3>1, <3>2 DEF TypeOK
  <2> QED  BY <2>1, <2>2
<1>8. ASSUME NEW n \in Ids, Receive(n) PROVE TypeOK'
  <2>1. /\ at' \in [Ids -> Nat]
        /\ task' \in [Ids -> Over \cup Live \cup {"new", "bind"}]
        /\ \A m \in Ids : task'[m] \in {"send", "wait"} => at'[m] \in DOMAIN SuppParamNames
        /\ files' \subseteq files
    BY <1>8, AfterType DEF Receive
  <2>2. SuppParamNames[at[n]] \in ParamNames
    BY <1>8, AskedType DEF Receive
  <2>3. inbox[n] \in Seq(Reply) /\ inbox[n] # <<>> /\ params[n] \in Seq(ParamNames \X Reply)
    BY <1>8 DEF TypeOK, Receive
  <2>4. Head(inbox[n]) \in Reply /\ Tail(inbox[n]) \in Seq(Reply)
    BY <2>3
  <2>5. Append(params[n], <<SuppParamNames[at[n]], Head(inbox[n])>>) \in Seq(ParamNames \X Reply)
    BY <2>2, <2>3, <2>4
  <2>6. params' \in [Ids -> Seq(ParamNames \X Reply)] /\ inbox' \in [Ids -> Seq(Reply)]
    BY <1>8, <2>4, <2>5 DEF Receive, TypeOK
  <2>7. UNCHANGED <<command, suffix, path, linked, drawn, clashes, supplicant, late, down>>
    BY <1>8 DEF Receive
  <2> QED  BY <2>1, <2>6, <2>7 DEF TypeOK
<1>9. ASSUME NEW n \in Ids, Timeout(n) PROVE TypeOK'
  <2>1. /\ at' \in [Ids -> Nat]
        /\ task' \in [Ids -> Over \cup Live \cup {"new", "bind"}]
        /\ \A m \in Ids : task'[m] \in {"send", "wait"} => at'[m] \in DOMAIN SuppParamNames
        /\ files' \subseteq files
    BY <1>9, AfterType DEF Timeout
  <2>2. late' \in BOOLEAN
    BY <1>9 DEF Timeout, TypeOK
  <2>3. UNCHANGED <<command, suffix, path, params, inbox, linked, drawn, clashes,
                    supplicant, down>>
    BY <1>9 DEF Timeout
  <2> QED  BY <2>1, <2>2, <2>3 DEF TypeOK
<1>10. ASSUME Handle PROVE TypeOK'
  <2> DEFINE q == Head(queue)
             r == [id |-> q.id, param |-> q.param, fail |-> q.id \notin networks]
  <2>1. queue \in Seq(Requests) /\ queue # <<>>
    BY <1>10 DEF Handle, TypeOK
  <2>2. q \in Requests /\ Tail(queue) \in Seq(Requests)
    BY <2>1
  <2>3. r \in Reply
    BY <2>2 DEF Requests, Reply
  <2>4. \A n \in Ids : Append(inbox[n], r) \in Seq(Reply) /\ inbox[n] \in Seq(Reply)
    BY <2>3 DEF TypeOK
  <2> HIDE DEF q, r
  <2>5. inbox' \in [Ids -> Seq(Reply)]
    BY <1>10, <2>4 DEF Handle, q, r
  <2> QED  BY <1>10, <2>2, <2>5 DEF Handle, TypeOK
<1>11. ASSUME Forget PROVE TypeOK'
  BY <1>11 DEF Forget, TypeOK
<1>12. ASSUME Stop PROVE TypeOK'
  <2>1. queue' \in Seq(Requests) /\ stops' \in 0 .. MaxStops
    BY <1>12 DEF Stop, TypeOK
  <2> QED  BY <1>12, <2>1 DEF Stop, TypeOK
<1>13. ASSUME Start PROVE TypeOK'
  BY <1>13 DEF Start, TypeOK
<1>14. ASSUME UNCHANGED vars PROVE TypeOK'
  BY <1>14 DEF vars, TypeOK
<1> QED
  BY <1>1, <1>2, <1>3, <1>4, <1>5, <1>6, <1>7, <1>8, <1>9, <1>10, <1>11, <1>12, <1>13,
     <1>14 DEF Next, Step, Task, Done

-----------------------------------------------------------------------------
(* Numbers and files                                                       *)

\* What Draw does besides the drawing.
LEMMA DrawFrame ==
    ASSUME NEW n \in Ids, TypeOK, Draw(n)
    PROVE  /\ task[n] = "new" /\ task' = [task EXCEPT ![n] = "bind"]
           /\ UNCHANGED <<command, at, params, inbox, linked, files, supplicant, late, down>>
BY DEF Draw, Goto

\* bind() by one task.
LEMMA BindFrame ==
    ASSUME NEW n \in Ids, TypeOK, Bind(n)
    PROVE  /\ task[n] = "bind"
           /\ \/ /\ path[n] \in files /\ files' = files
                 /\ task' = [task EXCEPT ![n] = "threw"]
              \/ /\ path[n] \notin files /\ files' = files \cup {path[n]}
                 /\ task' = [task EXCEPT ![n] = "connect"]
           /\ UNCHANGED <<command, suffix, path, at, params, inbox, linked, drawn, clashes,
                          supplicant, late, down>>
BY DEF Bind, Goto

\* The tasks start with the list, none was there before.
LEMMA ListFrame ==
    ASSUME TypeOK, LifeInv, List
    PROVE  /\ \A m \in Ids : task[m] = "none" /\ task'[m] \in {"none", "new"}
           /\ Early' => \A m \in Ids : task'[m] = "none"
           /\ UNCHANGED <<found, suffix, path, at, params, inbox, linked, numbers, supplicant,
                          late, down>>
           /\ result' \in {result, "ERR", "SUCC"}
<1>1. \A m \in Ids : task[m] = "none"
  BY DEF List, LifeInv
<1>2. \A m \in Ids : task'[m] \in {"none", "new"}
  BY <1>1 DEF List
<1>3. Early' => task' = task
  BY DEF List, Return, Early
<1> QED  BY <1>1, <1>2, <1>3 DEF List, Return

\* Tasks have numbers from Draw on, and none is alive before List.
LEMMA LifeNext == TypeOK /\ LifeInv /\ [Next]_vars => LifeInv'
<1> SUFFICES ASSUME TypeOK, LifeInv, [Next]_vars PROVE LifeInv'
  OBVIOUS
<1> USE DEF Early
<1>1. CASE Onward
  <2>1. Early' => \A m \in Ids : task'[m] = "none"
    BY <1>1 DEF Onward, LifeInv, Moves, Live
  <2>2. ASSUME NEW m \in Ids
        PROVE  IF task'[m] \in {"none", "new"} THEN path'[m] = 0 /\ suffix'[m] = 0
                                               ELSE path'[m] > 0 /\ suffix'[m] > 0
    <3>1. Moves(m) /\ path' = path /\ suffix' = suffix
      BY <1>1 DEF Onward
    <3>2. task'[m] \in {"none", "new"} <=> task[m] \in {"none", "new"}
      BY <3>1 DEF Moves, Live
    <3> QED  BY <3>1, <3>2 DEF LifeInv
  <2> QED  BY <1>1, <2>1, <2>2 DEF Onward, LifeInv
<1>2. CASE List
  BY <1>2, ListFrame DEF LifeInv
<1>3. ASSUME NEW n \in Ids, Draw(n) PROVE LifeInv'
  <2>1. PICK s, p \in Nat :
              /\ suffix' = [suffix EXCEPT ![n] = s] /\ path' = [path EXCEPT ![n] = p]
              /\ s > 0 /\ p > 0
    BY <1>3, DrawNumbers
  <2>2. /\ task[n] = "new" /\ task' = [task EXCEPT ![n] = "bind"]
        /\ UNCHANGED <<pc, result, up, down>>
    BY <1>3, DrawFrame
  <2> QED  BY <2>1, <2>2 DEF LifeInv, TypeOK
<1>4. ASSUME NEW n \in Ids, Bind(n) PROVE LifeInv'
  BY <1>4, BindFrame DEF LifeInv, TypeOK
<1> QED  BY <1>1, <1>2, <1>3, <1>4, StepsOnward

\* Two numbers of one task are drawn after all others.
LEMMA ClashNext ==
    ASSUME TypeOK, LifeInv, ClashInv, RemovalInv, [Next]_vars
    PROVE  ClashInv' /\ RemovalInv'
<1>0. clashes \in Nat /\ drawn \in Nat
  BY DEF TypeOK
<1>1. CASE Onward \/ List \/ \E n \in Ids : Bind(n)
  <2>1. UNCHANGED <<suffix, path, clashes>>
    BY <1>1, ListFrame, BindFrame DEF Onward
  <2> QED  BY <2>1 DEF ClashInv, RemovalInv
<1>2. ASSUME NEW n \in Ids, Draw(n) PROVE ClashInv' /\ RemovalInv'
  <2>1. PICK s, p \in Nat :
              /\ suffix' = [suffix EXCEPT ![n] = s] /\ path' = [path EXCEPT ![n] = p]
              /\ s > 0 /\ p > 0 /\ clashes' \in Nat /\ clashes <= clashes'
              /\ s <= drawn \/ p <= drawn \/ p = s => clashes' > clashes
              /\ clashes' <= 1 => ~(s <= drawn /\ (p <= drawn \/ p = s))
    BY <1>2, DrawNumbers
  <2>2. /\ suffix'[n] = s /\ path'[n] = p
        /\ \A m \in Ids : m # n => suffix'[m] = suffix[m] /\ path'[m] = path[m]
    BY <2>1 DEF TypeOK
  <2>3. \A m \in Ids : path[m] \in Nat /\ path[m] <= drawn /\ suffix[m] \in Nat /\ suffix[m] <= drawn
    BY <1>0 DEF TypeOK
  <2>4. path[n] = 0 /\ suffix[n] = 0
    BY <1>2, DrawFrame DEF LifeInv
  <2>5. RemovalInv'
    <3> SUFFICES ASSUME NEW m \in Ids, NEW x \in Ids, suffix'[x] = path'[m], path'[m] # 0
                 PROVE  clashes' > 0
      BY DEF RemovalInv
    <3>1. CASE m # n /\ x # n
      BY <3>1, <2>1, <2>2, <1>0 DEF RemovalInv
    <3>2. CASE m = n \/ x = n
      BY <3>2, <2>1, <2>2, <2>3, <1>0
    <3> QED  BY <3>1, <3>2
  <2>6. ASSUME NEW a \in Ids, NEW b \in Ids, path'[a] = path'[b], path'[a] # 0, a # b
        PROVE  clashes' > 0
    <3>1. CASE a # n /\ b # n
      BY <3>1, <2>6, <2>1, <2>2, <1>0 DEF ClashInv
    <3>2. CASE a = n \/ b = n
      BY <3>2, <2>6, <2>1, <2>2, <2>3, <1>0
    <3> QED  BY <3>1, <3>2
  <2>7. ASSUME NEW a \in Ids, NEW b \in Ids, path'[a] = path'[b], path'[a] # 0, a # b,
               clashes' <= 1, NEW x \in Ids
        PROVE  suffix'[x] # path'[a]
    <3>1. CASE a # n /\ b # n
      <4>1. path[a] = path[b] /\ path[a] # 0 /\ path[a] <= drawn
        BY <3>1, <2>7, <2>2, <2>3
      <4>2. clashes > 0 /\ (clashes <= 1 => suffix[x] # path[a])
        BY <4>1, <2>7 DEF ClashInv
      <4>3. clashes = 1 /\ clashes' = 1 /\ s > drawn
        BY <4>2, <2>7, <2>1, <1>0
      <4> QED  BY <4>1, <4>2, <4>3, <2>2, <3>1, <1>0
    <3>2. CASE a = n \/ b = n
      <4>1. p = path'[a] /\ p <= drawn
        BY <3>2, <2>7, <2>2, <2>3
      <4>2. clashes = 0 /\ s > drawn
        BY <4>1, <2>7, <2>1, <1>0
      <4>3. PICK c \in {a, b} : c # n /\ p = path[c]
        BY <3>2, <2>7, <2>2
      <4>4. suffix[x] # p
        BY <4>2, <4>3, <2>1, <1>0 DEF RemovalInv
      <4> QED  BY <4>1, <4>2, <4>4, <2>1, <2>2, <1>0
    <3> QED  BY <3>1, <3>2
  <2>8. ClashInv'
    BY <2>6, <2>7 DEF ClashInv
  <2> QED  BY <2>5, <2>8
<1> QED  BY <1>1, <1>2, StepsOnward

\* A file is removed only by its number, and one made by another task counts as
\* a clash.
LEMMA FileNext ==
    ASSUME TypeOK, LifeInv, ClashInv, FileInv, [Next]_vars
    PROVE  FileInv'
<1> USE DEF Past, Live
<1>1. CASE Onward
  <2> SUFFICES ASSUME NEW m \in Ids
               PROVE
        /\ task'[m] \in Past /\ (\A x \in Ids : suffix'[x] # path'[m]) => path'[m] \in files'
        /\ task'[m] = "bind" /\ path'[m] \in files' => clashes' > 0
        /\ task'[m] = "threw" => clashes' > 0 \/ down'
    BY DEF FileInv
  <2>1. /\ Moves(m) /\ UNCHANGED <<suffix, path, clashes>> /\ (down => down')
        /\ files' = files \/ \E x \in Ids : files' = files \ {suffix[x]}
    BY <1>1 DEF Onward
  <2>2. /\ task'[m] \in Past => task[m] \in Past
        /\ task'[m] = "bind" => task[m] = "bind"
        /\ task'[m] = "threw" => task[m] = "threw" \/ down
    BY <2>1 DEF Moves
  <2>3. /\ task[m] \in Past /\ (\A x \in Ids : suffix[x] # path[m]) => path[m] \in files
        /\ task[m] = "bind" /\ path[m] \in files => clashes > 0
        /\ task[m] = "threw" => clashes > 0 \/ down
    BY DEF FileInv
  <2> HIDE DEF Past, Live
  <2> QED  BY <2>1, <2>2, <2>3
<1>2. CASE List
  BY <1>2, ListFrame DEF FileInv
<1>3. ASSUME NEW n \in Ids, Draw(n) PROVE FileInv'
  <2>1. PICK s, p \in Nat :
              /\ suffix' = [suffix EXCEPT ![n] = s] /\ path' = [path EXCEPT ![n] = p]
              /\ clashes' \in Nat /\ clashes <= clashes' /\ (p <= drawn => clashes' > clashes)
    BY <1>3, DrawNumbers
  <2>2. /\ task[n] = "new" /\ task' = [task EXCEPT ![n] = "bind"]
        /\ UNCHANGED <<files, down>> /\ suffix[n] = 0
    BY <1>3, DrawFrame DEF LifeInv
  <2>3. clashes \in Nat /\ drawn \in Nat /\ \A f \in files : f <= drawn
    BY DEF TypeOK
  <2>4. p \in files => clashes' > 0
    BY <2>1, <2>3
  <2>5. clashes > 0 => clashes' > 0
    BY <2>1, <2>3
  <2>6. /\ suffix'[n] = s /\ path'[n] = p /\ task'[n] = "bind"
        /\ \A m \in Ids : m # n => suffix'[m] = suffix[m] /\ path'[m] = path[m] /\ task'[m] = task[m]
    BY <2>1, <2>2 DEF TypeOK
  <2>7. ASSUME NEW m \in Ids, task'[m] \in Past, \A x \in Ids : suffix'[x] # path'[m]
        PROVE  path'[m] \in files'
    <3>1. m # n /\ task[m] \in Past /\ path'[m] = path[m]
      BY <2>6, <2>7
    <3>2. path[m] > 0
      BY <3>1 DEF LifeInv
    <3>3. \A x \in Ids : suffix[x] # path[m]
      BY <3>1, <3>2, <2>2, <2>6, <2>7
    <3> QED  BY <3>1, <3>3, <2>2 DEF FileInv
  <2>8. ASSUME NEW m \in Ids
        PROVE  /\ task'[m] = "bind" /\ path'[m] \in files' => clashes' > 0
               /\ task'[m] = "threw" => clashes' > 0 \/ down'
    BY <2>2, <2>4, <2>5, <2>6 DEF FileInv
  <2> QED  BY <2>7, <2>8 DEF FileInv
<1>4. ASSUME NEW n \in Ids, Bind(n) PROVE FileInv'
  <2>1. UNCHANGED <<suffix, path, clashes, down>> /\ task[n] = "bind"
    BY <1>4, BindFrame
  <2>2. CASE path[n] \in files /\ files' = files /\ task' = [task EXCEPT ![n] = "threw"]
    BY <2>1, <2>2 DEF FileInv, TypeOK
  <2>3. CASE files' = files \cup {path[n]} /\ task' = [task EXCEPT ![n] = "connect"]
    <3>1. path[n] # 0
      BY <2>1 DEF LifeInv, TypeOK
    <3>2. \A m \in Ids : m # n => task'[m] = task[m]
      BY <2>3 DEF TypeOK
    <3>3. task'[n] = "connect"
      BY <2>3 DEF TypeOK
    <3>4. \A m \in Ids : path[m] = path[n] /\ m # n => clashes > 0
      BY <3>1 DEF ClashInv
    <3> QED  BY <2>1, <2>3, <3>2, <3>3, <3>4 DEF FileInv
  <2> QED  BY <2>2, <2>3, <1>4, BindFrame
<1> QED  BY <1>1, <1>2, <1>3, <1>4, StepsOnward

\* The second one to bind a number finds the file of the first one.
LEMMA OwnNext ==
    ASSUME TypeOK, LifeInv, ClashInv, FileInv, OwnInv, [Next]_vars
    PROVE  OwnInv'
<1> DEFINE Bound == Live \cup {"ended"}
<1>1. CASE Onward
  <2>1. UNCHANGED <<path, clashes>> /\ \A m \in Ids : task'[m] \in Bound => task[m] \in Bound
    BY <1>1 DEF Onward, Moves, Live
  <2> QED  BY <2>1 DEF OwnInv
<1>2. CASE List
  BY <1>2, ListFrame DEF OwnInv, Live
<1>3. ASSUME NEW n \in Ids, Draw(n) PROVE OwnInv'
  <2>1. PICK s, p \in Nat :
           path' = [path EXCEPT ![n] = p] /\ clashes' \in 0 .. MaxClashes /\ clashes <= clashes'
    BY <1>3, DrawNumbers
  <2>2. task' = [task EXCEPT ![n] = "bind"]
    BY <1>3, DrawFrame
  <2>a. clashes \in Nat
    BY DEF TypeOK
  <2>3. \A m \in Ids : task'[m] \in Bound => m # n /\ task[m] \in Bound /\ path'[m] = path[m]
    BY <2>1, <2>2 DEF TypeOK, Live
  <2>4. clashes' <= 1 => clashes <= 1
    BY <2>1, <2>a, BoundsAssumption
  <2> QED  BY <2>3, <2>4 DEF OwnInv
<1>4. ASSUME NEW n \in Ids, Bind(n) PROVE OwnInv'
  <2>1. UNCHANGED <<suffix, path, clashes, down>> /\ task[n] = "bind"
    BY <1>4, BindFrame
  <2>2. CASE task' = [task EXCEPT ![n] = "threw"]
    BY <2>1, <2>2 DEF OwnInv, TypeOK, Live
  <2>3. CASE path[n] \notin files /\ task' = [task EXCEPT ![n] = "connect"]
    <3>1. path[n] # 0
      BY <2>1 DEF LifeInv, TypeOK
    <3>2. \A m \in Ids : m # n => task'[m] = task[m]
      BY <2>3 DEF TypeOK
    <3>3. ASSUME clashes <= 1, NEW m \in Ids, m # n, path[m] = path[n], task[m] \in Bound
          PROVE  FALSE
      <4>1. \A x \in Ids : suffix[x] # path[m]
        BY <3>1, <3>3 DEF ClashInv
      <4> QED  BY <4>1, <3>3, <2>3 DEF FileInv, Past
    <3> QED  BY <2>1, <3>2, <3>3 DEF OwnInv
  <2> QED  BY <2>2, <2>3, <1>4, BindFrame
<1> QED  BY <1>1, <1>2, <1>3, <1>4, StepsOnward

-----------------------------------------------------------------------------
(* Requests and answers                                                    *)

\* The places of the queue.
LEMMA QueueTypes ==
    ASSUME TypeOK
    PROVE  /\ queue \in Seq(Requests) /\ DOMAIN queue = 1 .. Len(queue) /\ Len(queue) \in Nat
           /\ \A k \in DOMAIN queue : queue[k].id \in Ids
<1>1. queue \in Seq(Requests)
  BY DEF TypeOK
<1>2. \A k \in DOMAIN queue : queue[k] \in Requests
  BY <1>1
<1> QED  BY <1>1, <1>2 DEF Requests

\* wpa_supplicant takes the first request.
LEMMA HandleFrame ==
    ASSUME TypeOK, Handle
    PROVE  /\ queue' = Tail(queue)
           /\ 1 \in DOMAIN queue /\ Head(queue) = queue[1] /\ queue[1].id \in Ids
           /\ \A k \in DOMAIN queue' : k + 1 \in DOMAIN queue /\ k + 1 # 1 /\ queue'[k] = queue[k + 1]
           /\ \A m \in Ids : inbox[m] \in Seq(Reply) /\
                \/ inbox'[m] = inbox[m]
                \/ /\ task[m] \in Live /\ path[m] = queue[1].path
                   /\ \E r \in Reply : /\ r.id = queue[1].id /\ r.param = queue[1].param
                                       /\ inbox'[m] = Append(inbox[m], r)
           /\ UNCHANGED <<command, task, suffix, path, at, params, linked, numbers, late, down>>
<1>1. queue \in Seq(Requests) /\ queue # <<>> /\ queue' = Tail(queue)
  BY DEF Handle, TypeOK
<1>2. /\ 1 \in DOMAIN queue /\ Head(queue) = queue[1] /\ queue[1] \in Requests
      /\ \A k \in DOMAIN queue' : k + 1 \in DOMAIN queue /\ k + 1 # 1 /\ queue'[k] = queue[k + 1]
  BY <1>1, TailPlaces
<1> DEFINE r == [id |-> queue[1].id, param |-> queue[1].param, fail |-> queue[1].id \notin networks]
<1>3. r \in Reply /\ r.id = queue[1].id /\ r.param = queue[1].param
  BY <1>2 DEF Requests, Reply
<1> HIDE DEF r
<1>4. ASSUME NEW m \in Ids
      PROVE  \/ inbox'[m] = inbox[m]
             \/ task[m] \in Live /\ path[m] = queue[1].path /\ inbox'[m] = Append(inbox[m], r)
  BY <1>2 DEF Handle, r
<1> QED  BY <1>1, <1>2, <1>3, <1>4 DEF Handle, TypeOK, Requests

\* The task that an answer goes to is the one that asked.
LEMMA Receiver ==
    ASSUME TypeOK, QueueInv, OwnInv, clashes <= 1, 1 \in DOMAIN queue,
           NEW m \in Ids, task[m] \in Live, path[m] = queue[1].path
    PROVE  m = queue[1].id
BY QueueTypes DEF QueueInv, OwnInv, Live

\* A request is put into the queue.
Request(n) == [path |-> path[n], id |-> n, param |-> Asked(n)]
\* It is at the end of the queue, and the task waits.
Added(n) ==
    /\ \A k \in DOMAIN queue' : \/ k \in DOMAIN queue /\ queue'[k] = queue[k]
                                \/ k = Len(queue) + 1 /\ queue'[k] = Request(n)
    /\ task' = [task EXCEPT ![n] = "wait"] /\ UNCHANGED at

\* send() has put it there, or has failed.
LEMMA SendFrame ==
    ASSUME TypeOK, NEW n \in Ids, Send(n)
    PROVE  /\ task[n] = "send"
           /\ \/ After(n) /\ UNCHANGED queue
              \/ Added(n)
           /\ UNCHANGED <<command, suffix, path, params, inbox, linked, clashes, late>>
<1>0. task[n] = "send"
  BY DEF Send
<1>a. path[n] \in Nat
  BY DEF TypeOK
<1>b. Asked(n) \in ParamNames
  BY <1>0, AskedType DEF Asked
<1>1. Request(n) \in Requests
  BY <1>a, <1>b DEF Request, Requests
<1>2. /\ queue \in Seq(Requests)
      /\ \A k \in DOMAIN Append(queue, Request(n)) :
            \/ k \in DOMAIN queue /\ Append(queue, Request(n))[k] = queue[k]
            \/ k = Len(queue) + 1 /\ Append(queue, Request(n))[k] = Request(n)
  BY <1>1, QueueTypes, AppendPlaces
<1>3. /\ queue' = Append(queue, Request(n)) /\ task' = [task EXCEPT ![n] = "wait"]
      /\ UNCHANGED at
      => Added(n)
  BY <1>2, Zenon DEF Added
<1>4. /\ \/ After(n) /\ UNCHANGED queue
         \/ /\ queue' = Append(queue, Request(n)) /\ task' = [task EXCEPT ![n] = "wait"]
            /\ UNCHANGED at
      /\ UNCHANGED <<command, suffix, path, params, inbox, linked, clashes, late>>
  BY DEF Send, Goto, Request, Asked
<1> QED  BY <1>0, <1>3, <1>4

\* Where After leads.
LEMMA AfterFrame ==
    ASSUME TypeOK, NEW n \in Ids, After(n)
    PROVE  /\ task'[n] \in {"send", "ended"}
           /\ \A m \in Ids : m # n => task'[m] = task[m] /\ at'[m] = at[m]
BY DEF After, Goto, TypeOK

\* A task that has asked stays where it can have asked.
LEMMA QueueNext ==
    ASSUME TypeOK, LifeInv, QueueInv, [Next]_vars
    PROVE  QueueInv'
<1> DEFINE Asking == {"send", "wait", "ended"}
<1>0. queue \in Seq(Requests) /\ \A k \in DOMAIN queue : queue[k].id \in Ids
  BY QueueTypes
<1>1. ASSUME queue' = queue, path' = path,
             \A m \in Ids : task[m] \in Asking => task'[m] \in Asking
      PROVE  QueueInv'
  BY <1>0, <1>1 DEF QueueInv
<1>2. CASE List
  <2>1. \A k \in DOMAIN queue : FALSE
    BY <1>0, <1>2, ListFrame DEF QueueInv
  <2> QED  BY <2>1, <1>2, ListFrame DEF QueueInv
<1>3. ASSUME NEW n \in Ids, Draw(n) PROVE QueueInv'
  <2>1. PICK s, p \in Nat : path' = [path EXCEPT ![n] = p]
    BY <1>3, DrawNumbers
  <2>2. task[n] = "new" /\ task' = [task EXCEPT ![n] = "bind"] /\ queue' = queue
    BY <1>3, DrawFrame
  <2>3. \A k \in DOMAIN queue : queue[k].id # n
    BY <2>2 DEF QueueInv
  <2> QED  BY <1>0, <2>1, <2>2, <2>3 DEF QueueInv, TypeOK
<1>4. ASSUME NEW n \in Ids, Bind(n) PROVE QueueInv'
  BY <1>1, <1>4, BindFrame DEF TypeOK
<1>5. ASSUME NEW n \in Ids, Connect(n) PROVE QueueInv'
  BY <1>1, <1>5 DEF Connect, Goto, TypeOK
<1>6. ASSUME NEW n \in Ids, Receive(n) \/ Timeout(n) PROVE QueueInv'
  <2>1. After(n) /\ queue' = queue /\ path' = path
    BY <1>6 DEF Receive, Timeout
  <2> QED  BY <1>1, <2>1, AfterFrame
<1>7. ASSUME NEW n \in Ids, Send(n) PROVE QueueInv'
  <2>1. task[n] = "send" /\ path' = path
    BY <1>7, SendFrame
  <2>2. CASE After(n) /\ UNCHANGED queue
    BY <1>1, <2>1, <2>2, AfterFrame
  <2>3. CASE Added(n)
    <3>1. Request(n).path = path[n] /\ Request(n).id = n
      BY DEF Request
    <3>2. \A m \in Ids : task[m] \in Asking => task'[m] \in Asking
      BY <2>3 DEF TypeOK, Added
    <3>3. task'[n] \in Asking
      BY <2>3 DEF TypeOK, Added
    <3> QED  BY <1>0, <2>1, <2>3, <3>1, <3>2, <3>3 DEF QueueInv, Added
  <2> QED  BY <2>2, <2>3, <1>7, SendFrame
<1>8. ASSUME Handle PROVE QueueInv'
  BY <1>8, HandleFrame DEF QueueInv
<1>9. ASSUME Stop PROVE QueueInv'
  BY <1>9 DEF Stop, QueueInv
<1>10. ASSUME NEW d \in BOOLEAN, Begin(d) PROVE QueueInv'
  BY <1>1, <1>10 DEF Begin
<1>11. ASSUME Merge \/ Forget \/ Start \/ UNCHANGED vars PROVE QueueInv'
  <2>1. queue' = queue /\ path' = path /\ task' = task
    BY <1>11 DEF Merge, Forget, Start, vars
  <2> QED  BY <1>1, <2>1
<1> QED
  BY <1>2, <1>3, <1>4, <1>5, <1>6, <1>7, <1>8, <1>9, <1>10, <1>11
     DEF Next, Step, Task, Done

\* The first answer is taken for the parameter asked for.
Kept(n) ==
    /\ \A k \in DOMAIN inbox'[n] : k + 1 \in DOMAIN inbox[n] /\ inbox'[n][k] = inbox[n][k + 1]
    /\ \A k \in DOMAIN params'[n] : \/ k \in DOMAIN params[n] /\ params'[n][k] = params[n][k]
                                   \/ params'[n][k] = <<Asked(n), inbox[n][1]>>

\* A task takes the first datagram of its socket.
LEMMA ReceiveFrame ==
    ASSUME TypeOK, NEW n \in Ids, Receive(n)
    PROVE  /\ task[n] = "wait" /\ inbox[n] # <<>> /\ 1 \in DOMAIN inbox[n] /\ After(n)
           /\ inbox'[n] = Tail(inbox[n]) /\ Kept(n)
           /\ \A m \in Ids : m # n => inbox'[m] = inbox[m] /\ params'[m] = params[m]
           /\ UNCHANGED <<command, suffix, path, linked, clashes, queue, late>>
<1>1. inbox[n] \in Seq(Reply) /\ inbox[n] # <<>> /\ params[n] \in Seq(ParamNames \X Reply)
  BY DEF Receive, TypeOK
<1>2. Asked(n) \in ParamNames
  BY AskedType DEF Receive, Asked
<1>3. /\ Head(inbox[n]) = inbox[n][1] /\ inbox[n][1] \in Reply /\ 1 \in DOMAIN inbox[n]
      /\ \A k \in DOMAIN Tail(inbox[n]) : k + 1 \in DOMAIN inbox[n] /\ Tail(inbox[n])[k] = inbox[n][k + 1]
  BY <1>1, TailPlaces
<1> DEFINE e == <<Asked(n), inbox[n][1]>>
<1>4. e \in ParamNames \X Reply
  BY <1>2, <1>3
<1>5. \A k \in DOMAIN Append(params[n], e) :
          \/ k \in DOMAIN params[n] /\ Append(params[n], e)[k] = params[n][k]
          \/ k = Len(params[n]) + 1 /\ Append(params[n], e)[k] = e
  <2> HIDE DEF e
  <2> DEFINE P == ParamNames \X Reply
  <2>1. params[n] \in Seq(P) /\ e \in P
    BY <1>1, <1>4
  <2> HIDE DEF P
  <2> QED  BY <2>1, AppendPlaces
<1>6. params'[n] = Append(params[n], e) /\ inbox'[n] = Tail(inbox[n])
  BY <1>3 DEF Receive, TypeOK, Asked
<1>7. \A k \in DOMAIN inbox'[n] : k + 1 \in DOMAIN inbox[n] /\ inbox'[n][k] = inbox[n][k + 1]
  BY <1>3, <1>6, Zenon
<1>8. \A k \in DOMAIN params'[n] : \/ k \in DOMAIN params[n] /\ params'[n][k] = params[n][k]
                                   \/ params'[n][k] = e
  <2> HIDE DEF e
  <2> QED  BY <1>5, <1>6, Zenon
<1>9. Kept(n)
  BY <1>7, <1>8, Zenon DEF Kept
<1>10. \A m \in Ids : m # n => inbox'[m] = inbox[m] /\ params'[m] = params[m]
  BY DEF Receive, TypeOK
<1> HIDE DEF e
<1> QED  BY <1>1, <1>3, <1>6, <1>9, <1>10 DEF Receive

\* The results are those of the tasks.
LEMMA MergeFrame ==
    ASSUME TypeOK, Merge
    PROVE  /\ \A m \in Ids : found'[m] \in {found[m], params[m], <<>>}
           /\ result' = "internal" => \E m \in Ids : task[m] = "threw"
           /\ UNCHANGED <<details, listed, tasks, linked, numbers, supplicant, late, down>>
BY DEF Merge, Return, TypeOK

\* The answer a task receives was meant for it: no other task is bound to its path.
LEMMA AnswerNext ==
    ASSUME TypeOK, LifeInv, OwnInv, QueueInv, AnswerInv, [Next]_vars
    PROVE  AnswerInv'
<1>1. ASSUME UNCHANGED <<inbox, params, found>>, clashes' <= 1 => clashes <= 1 PROVE AnswerInv'
  BY <1>1 DEF AnswerInv
<1>2. ASSUME NEW n \in Ids, Draw(n) PROVE AnswerInv'
  <2>1. clashes' \in Nat /\ clashes <= clashes' /\ clashes \in Nat
    <3>1. PICK s, p \in Nat : clashes' \in 0 .. MaxClashes /\ clashes <= clashes'
      BY <1>2, DrawNumbers
    <3>2. clashes \in Nat
      BY DEF TypeOK
    <3> QED  BY <3>1, <3>2, BoundsAssumption
  <2>2. clashes' <= 1 => clashes <= 1
    BY <2>1
  <2> QED  BY <1>1, <1>2, <2>2, DrawFrame
<1>3. ASSUME NEW n \in Ids, Receive(n) PROVE AnswerInv'
  <2>1. /\ 1 \in DOMAIN inbox[n] /\ Kept(n)
        /\ \A m \in Ids : m # n => inbox'[m] = inbox[m] /\ params'[m] = params[m]
        /\ UNCHANGED <<found, clashes>>
    BY <1>3, ReceiveFrame
  <2> SUFFICES ASSUME clashes <= 1, NEW m \in Ids
               PROVE  /\ \A k \in DOMAIN inbox'[m] : inbox'[m][k].id = m
                      /\ \A k \in DOMAIN params'[m] : params'[m][k][2].id = m
                      /\ \A k \in DOMAIN found'[m] : found'[m][k][2].id = m
    BY <2>1 DEF AnswerInv
  <2>2. /\ \A k \in DOMAIN inbox[m] : inbox[m][k].id = m
        /\ \A k \in DOMAIN params[m] : params[m][k][2].id = m
        /\ \A k \in DOMAIN found[m] : found[m][k][2].id = m
    BY DEF AnswerInv
  <2>3. CASE m # n
    BY <2>1, <2>2, <2>3
  <2>4. CASE m = n
    <3>1. \A k \in DOMAIN inbox'[n] : inbox'[n][k].id = n
      BY <2>1, <2>2, <2>4 DEF Kept
    <3>2. \A k \in DOMAIN params'[n] : params'[n][k][2].id = n
      <4>1. <<Asked(n), inbox[n][1]>>[2].id = n
        BY <2>1, <2>2, <2>4
      <4> QED  BY <2>1, <2>2, <2>4, <4>1, Zenon DEF Kept
    <3> QED  BY <2>1, <2>2, <2>4, <3>1, <3>2
  <2> QED  BY <2>3, <2>4
<1>4. ASSUME Handle PROVE AnswerInv'
  <2>1. UNCHANGED <<params, found, clashes>>
    BY <1>4, HandleFrame
  <2>2. ASSUME clashes <= 1, NEW m \in Ids, NEW k \in DOMAIN inbox'[m]
        PROVE  inbox'[m][k].id = m
    <3>1. inbox[m] \in Seq(Reply) /\ \A j \in DOMAIN inbox[m] : inbox[m][j].id = m
      BY <2>2 DEF AnswerInv, TypeOK
    <3>2. CASE inbox'[m] = inbox[m]
      BY <3>1, <3>2, <2>2
    <3>3. CASE inbox'[m] # inbox[m]
      <4>1. PICK r \in Reply : /\ 1 \in DOMAIN queue /\ task[m] \in Live /\ path[m] = queue[1].path
                               /\ r.id = queue[1].id /\ inbox'[m] = Append(inbox[m], r)
        BY <1>4, <3>3, HandleFrame
      <4>2. r.id = m
        BY <4>1, <2>2, Receiver
      <4>3. \/ k \in DOMAIN inbox[m] /\ inbox'[m][k] = inbox[m][k]
            \/ inbox'[m][k] = r
        BY <3>1, <4>1, <2>2, AppendPlaces
      <4> QED  BY <3>1, <4>2, <4>3
    <3> QED  BY <3>2, <3>3
  <2> QED  BY <2>1, <2>2 DEF AnswerInv
<1>5. ASSUME Merge PROVE AnswerInv'
  <2>1. UNCHANGED <<inbox, params, clashes>> /\ \A m \in Ids : found'[m] \in {found[m], params[m], <<>>}
    BY <1>5, MergeFrame
  <2>2. ASSUME clashes <= 1, NEW m \in Ids, NEW k \in DOMAIN found'[m]
        PROVE  found'[m][k][2].id = m
    BY <2>1, <2>2 DEF AnswerInv
  <2> QED  BY <2>1, <2>2 DEF AnswerInv
<1>6. ASSUME NEW n \in Ids, Bind(n) \/ Connect(n) \/ Send(n) \/ Timeout(n) PROVE AnswerInv'
  <2>1. UNCHANGED <<inbox, params, found, clashes>>
    BY <1>6 DEF Bind, Connect, Send, Timeout
  <2> QED  BY <1>1, <2>1
<1>7. ASSUME NEW d \in BOOLEAN, Begin(d) PROVE AnswerInv'
  BY <1>1, <1>7 DEF Begin
<1>8. ASSUME List \/ Forget \/ Stop \/ Start \/ UNCHANGED vars PROVE AnswerInv'
  <2>1. UNCHANGED <<inbox, params, found, clashes>>
    BY <1>8 DEF List, Forget, Stop, Start, vars
  <2> QED  BY <1>1, <2>1
<1> QED
  BY <1>2, <1>3, <1>4, <1>5, <1>6, <1>7, <1>8 DEF Next, Step, Task, Done

\* A second clash, and an answer that was late, are not undone.
LEMMA Lasting ==
    ASSUME TypeOK, LifeInv, [Next]_vars
    PROVE  /\ clashes' <= 1 => clashes <= 1
           /\ clashes > 0 => clashes' > 0
           /\ late => late'
           /\ down => down'
<1>0. clashes \in Nat /\ late \in BOOLEAN /\ down \in BOOLEAN
  BY DEF TypeOK
<1>1. ASSUME NEW n \in Ids, Draw(n)
      PROVE  clashes' \in Nat /\ clashes <= clashes' /\ UNCHANGED <<late, down>>
  <2>1. PICK s, p \in Nat : clashes' \in 0 .. MaxClashes /\ clashes <= clashes'
    BY <1>1, DrawNumbers
  <2> QED  BY <1>1, <2>1, BoundsAssumption, DrawFrame
<1>2. CASE List \/ \E n \in Ids : Bind(n)
  <2>1. UNCHANGED <<clashes, late, down>>
    BY <1>2, BindFrame, ListFrame
  <2> QED  BY <2>1
<1>3. CASE Onward
  <2>1. clashes' = clashes /\ (down => down')
    BY <1>3 DEF Onward
  <2>2. late => late'
    BY <1>0 DEF Next, vars, Step, Task, Begin, List, Merge, Done, Draw, Bind, Connect, Send,
                Receive, Timeout, Handle, Forget, Stop, Start
  <2> QED  BY <2>1, <2>2
<1> QED  BY <1>0, <1>1, <1>2, <1>3, StepsOnward

\* Steps that leave alone who waits, for what, and what has been answered.
Quiet ==
    /\ UNCHANGED <<queue, inbox, params, found>>
    /\ \A m \in Ids : task[m] = "wait" => task'[m] = "wait" /\ at'[m] = at[m]

\* All steps but a few are quiet.
LEMMA QuietSteps ==
    ASSUME TypeOK, LifeInv, [Next]_vars
    PROVE  \/ Quiet \/ Handle \/ Stop \/ Merge
           \/ \E n \in Ids : Receive(n) \/ Timeout(n) \/ (Send(n) /\ Added(n))
<1>1. ASSUME NEW d \in BOOLEAN, Begin(d) PROVE Quiet
  BY <1>1 DEF Begin, Quiet
<1>2. ASSUME List PROVE Quiet
  BY <1>2, ListFrame DEF Quiet
<1>3. ASSUME NEW n \in Ids, Draw(n) PROVE Quiet
  <2>1. task[n] = "new" /\ task' = [task EXCEPT ![n] = "bind"] /\ UNCHANGED <<queue, inbox, params, found, at>>
    BY <1>3, DrawFrame
  <2> QED  BY <2>1 DEF Quiet, TypeOK
<1>4. ASSUME NEW n \in Ids, Bind(n) PROVE Quiet
  <2>1. /\ task[n] = "bind" /\ UNCHANGED <<queue, inbox, params, found, at>>
        /\ \E l \in {"threw", "connect"} : task' = [task EXCEPT ![n] = l]
    BY <1>4, BindFrame
  <2> QED  BY <2>1 DEF Quiet, TypeOK
<1>5. ASSUME NEW n \in Ids, Connect(n) PROVE Quiet
  BY <1>5 DEF Connect, Goto, Quiet, TypeOK
<1>6. ASSUME NEW n \in Ids, Send(n) PROVE Quiet \/ Added(n)
  <2>1. CASE After(n) /\ UNCHANGED queue
    <3>1. task[n] = "send" /\ UNCHANGED <<inbox, params, found>>
      BY <1>6, SendFrame
    <3>2. \A m \in Ids : m # n => task'[m] = task[m] /\ at'[m] = at[m]
      BY <2>1, AfterFrame
    <3> QED  BY <2>1, <3>1, <3>2 DEF Quiet
  <2> QED  BY <1>6, <2>1, SendFrame
<1>7. ASSUME Forget \/ Start \/ UNCHANGED vars PROVE Quiet
  <2>1. UNCHANGED <<queue, inbox, params, found, task, at>>
    BY <1>7 DEF Forget, Start, vars
  <2> QED  BY <2>1 DEF Quiet
<1> QED
  BY <1>1, <1>2, <1>3, <1>4, <1>5, <1>6, <1>7 DEF Next, Step, Task, Done

\* Unless it gives up waiting too early, a task takes the answer to its question.
LEMMA OneNext ==
    ASSUME TypeOK, LifeInv, OwnInv, QueueInv, OneAtATime, [Next]_vars
    PROVE  OneAtATime'
<1> SUFFICES ASSUME clashes' <= 1, ~late'
             PROVE  RequestsOne' /\ AnswersOne' /\ Matched(params') /\ Matched(found')
  BY DEF OneAtATime, Matched
<1>0. clashes <= 1 /\ ~late /\ RequestsOne /\ AnswersOne /\ Matched(params) /\ Matched(found)
  BY Lasting DEF OneAtATime
<1>q. /\ queue \in Seq(Requests) /\ DOMAIN queue = 1 .. Len(queue) /\ Len(queue) \in Nat
      /\ \A k \in DOMAIN queue : queue[k].id \in Ids
  BY QueueTypes
<1>1. CASE Quiet
  <2>1. RequestsOne'
    BY <1>0, <1>1, <1>q DEF Quiet, RequestsOne, Asked
  <2>2. AnswersOne'
    BY <1>0, <1>1 DEF Quiet, AnswersOne, Asked
  <2> QED  BY <1>0, <1>1, <2>1, <2>2 DEF Quiet
<1>2. CASE Stop
  <2>1. UNCHANGED <<task, at, inbox, params, found>> /\ queue' = <<>>
    BY <1>2 DEF Stop
  <2>2. RequestsOne'
    BY <2>1 DEF RequestsOne
  <2>3. AnswersOne'
    BY <1>0, <2>1 DEF AnswersOne, Asked
  <2> QED  BY <1>0, <2>1, <2>2, <2>3
<1>3. CASE Merge
  <2>1. /\ UNCHANGED <<task, at, inbox, params, queue>>
        /\ \A m \in Ids : found'[m] \in {found[m], params[m], <<>>}
    BY <1>3, MergeFrame
  <2>2. RequestsOne' /\ AnswersOne'
    BY <1>0, <2>1 DEF RequestsOne, AnswersOne, Asked
  <2>3. Matched(found')
    BY <1>0, <2>1 DEF Matched
  <2> QED  BY <1>0, <2>1, <2>2, <2>3
<1>4. ASSUME NEW n \in Ids, Send(n), Added(n) PROVE RequestsOne' /\ AnswersOne' /\ Matched(params') /\ Matched(found')
  <2>1. task[n] = "send" /\ UNCHANGED <<inbox, params, found>>
    BY <1>4, SendFrame
  <2>2. inbox[n] = <<>> /\ \A k \in DOMAIN queue : queue[k].id # n
    BY <1>0, <1>q, <2>1 DEF RequestsOne, AnswersOne
  <2>3. /\ task'[n] = "wait" /\ at' = at
        /\ \A m \in Ids : m # n => task'[m] = task[m]
    BY <1>4 DEF Added, TypeOK
  <2>4. Request(n).id = n /\ Request(n).param = Asked(n)
    BY DEF Request
  <2>5. ASSUME NEW k \in DOMAIN queue'
        PROVE  LET m == queue'[k].id IN
               /\ task'[m] = "wait" /\ inbox'[m] = <<>> /\ queue'[k].param = SuppParamNames[at'[m]]
               /\ \A j \in DOMAIN queue' : queue'[j].id = m => j = k
    <3>1. \A j \in DOMAIN queue' : \/ j \in DOMAIN queue /\ queue'[j] = queue[j]
                                   \/ j = Len(queue) + 1 /\ queue'[j] = Request(n)
      BY <1>4 DEF Added
    <3>2. CASE k \in DOMAIN queue /\ queue'[k] = queue[k]
      <4>1. queue[k].id \in Ids /\ queue[k].id # n
        BY <1>q, <2>2, <3>2
      <4>2. \A j \in DOMAIN queue' : queue'[j].id = queue[k].id => j = k
        BY <1>0, <2>4, <3>1, <3>2, <4>1 DEF RequestsOne
      <4> QED  BY <1>0, <2>1, <2>3, <3>2, <4>1, <4>2 DEF RequestsOne, Asked
    <3>3. CASE k = Len(queue) + 1 /\ queue'[k] = Request(n)
      <4>1. \A j \in DOMAIN queue' : queue'[j].id = n => j = k
        BY <2>2, <3>1, <3>3
      <4> QED  BY <2>1, <2>2, <2>3, <2>4, <3>3, <4>1 DEF Asked
    <3> QED  BY <3>1, <3>2, <3>3
  <2>6. RequestsOne'
    BY <2>5 DEF RequestsOne, Asked
  <2>7. AnswersOne'
    BY <1>0, <2>1, <2>2, <2>3 DEF AnswersOne, Asked
  <2> QED  BY <1>0, <2>1, <2>6, <2>7
<1>5. ASSUME NEW n \in Ids, Timeout(n) PROVE RequestsOne' /\ AnswersOne' /\ Matched(params') /\ Matched(found')
  <2>1. /\ UNCHANGED <<inbox, params, found, queue>> /\ inbox[n] = <<>> /\ After(n)
        /\ \A k \in 1 .. Len(queue) : queue[k].id # n
    BY <1>5 DEF Timeout
  <2>2. \A m \in Ids : m # n => task'[m] = task[m] /\ at'[m] = at[m]
    BY <2>1, AfterFrame
  <2>3. RequestsOne'
    BY <1>0, <1>q, <2>1, <2>2 DEF RequestsOne, Asked
  <2>4. AnswersOne'
    BY <1>0, <2>1, <2>2 DEF AnswersOne, Asked
  <2> QED  BY <1>0, <2>1, <2>3, <2>4
<1>6. ASSUME NEW n \in Ids, Receive(n) PROVE RequestsOne' /\ AnswersOne' /\ Matched(params') /\ Matched(found')
  <2>1. /\ inbox[n] # <<>> /\ 1 \in DOMAIN inbox[n] /\ After(n)
        /\ inbox'[n] = Tail(inbox[n]) /\ Kept(n)
        /\ \A m \in Ids : m # n => inbox'[m] = inbox[m] /\ params'[m] = params[m]
        /\ UNCHANGED <<found, queue>>
    BY <1>6, ReceiveFrame
  <2>2. \A m \in Ids : m # n => task'[m] = task[m] /\ at'[m] = at[m]
    BY <2>1, AfterFrame
  <2>3. \A k \in DOMAIN queue : queue[k].id # n
    BY <1>0, <2>1 DEF RequestsOne
  <2>4. Len(inbox[n]) = 1 /\ inbox[n][1].param = Asked(n) /\ inbox[n] \in Seq(Reply)
    <3>1. Len(inbox[n]) = 1 /\ inbox[n][1].param = Asked(n)
      BY <1>0, <2>1 DEF AnswersOne
    <3> QED  BY <3>1 DEF TypeOK
  <2>5. inbox'[n] = <<>>
    <3>1. Tail(inbox[n]) \in Seq(Reply) /\ Len(Tail(inbox[n])) = Len(inbox[n]) - 1
      BY <2>1, <2>4, TailPlaces
    <3>2. Len(Tail(inbox[n])) = 0
      BY <2>4, <3>1
    <3>3. Tail(inbox[n]) = <<>>
      BY <3>1, <3>2, EmptySeq
    <3> QED  BY <2>1, <3>3
  <2>6. RequestsOne'
    BY <1>0, <1>q, <2>1, <2>2, <2>3 DEF RequestsOne, Asked
  <2>7. AnswersOne'
    BY <1>0, <2>1, <2>2, <2>5 DEF AnswersOne, Asked
  <2>8. ASSUME NEW m \in Ids, NEW k \in DOMAIN params'[m]
        PROVE  params'[m][k][2].param = params'[m][k][1]
    <3>1. CASE m # n
      BY <1>0, <2>1, <2>8, <3>1 DEF Matched
    <3>2. CASE m = n /\ k \in DOMAIN params[n] /\ params'[n][k] = params[n][k]
      BY <1>0, <3>2 DEF Matched
    <3>3. CASE m = n /\ params'[n][k] = <<Asked(n), inbox[n][1]>>
      BY <2>4, <3>3
    <3> QED  BY <2>1, <2>8, <3>1, <3>2, <3>3 DEF Kept
  <2>9. Matched(params')
    BY <2>8 DEF Matched
  <2> QED  BY <1>0, <2>1, <2>6, <2>7, <2>9
<1>7. CASE Handle
  <2> DEFINE n == queue[1].id
  <2>1. /\ 1 \in DOMAIN queue /\ n \in Ids
        /\ \A k \in DOMAIN queue' : k + 1 \in DOMAIN queue /\ k + 1 # 1 /\ queue'[k] = queue[k + 1]
        /\ UNCHANGED <<found, params, task, at>>
    BY <1>7, HandleFrame
  <2>2. task[n] = "wait" /\ inbox[n] = <<>> /\ queue[1].param = Asked(n)
    BY <1>0, <2>1 DEF RequestsOne
  <2>3. \A m \in Ids : m # n => inbox'[m] = inbox[m]
    BY <1>0, <1>7, <2>1, HandleFrame, Receiver
  <2>4. inbox'[n] # <<>> => Len(inbox'[n]) = 1 /\ inbox'[n][1].param = Asked(n)
    <3>1. CASE inbox'[n] = inbox[n]
      BY <2>2, <3>1
    <3>2. CASE inbox'[n] # inbox[n]
      <4>1. PICK r \in Reply : r.param = queue[1].param /\ inbox'[n] = Append(inbox[n], r)
        BY <1>7, <2>1, <3>2, HandleFrame
      <4>2. inbox'[n] = <<r>>
        BY <2>2, <4>1
      <4> QED  BY <2>2, <4>1, <4>2
    <3> QED  BY <3>1, <3>2
  <2>5. ASSUME NEW k \in DOMAIN queue'
        PROVE  LET m == queue'[k].id IN
               /\ task'[m] = "wait" /\ inbox'[m] = <<>> /\ queue'[k].param = SuppParamNames[at'[m]]
               /\ \A j \in DOMAIN queue' : queue'[j].id = m => j = k
    <3>1. \A j \in DOMAIN queue' : j \in Nat
      <4>1. queue' \in Seq(Requests)
        BY <1>7, <1>q DEF Handle
      <4> QED  BY <4>1
    <3>2. k + 1 \in DOMAIN queue /\ k + 1 # 1 /\ queue'[k] = queue[k + 1] /\ queue[k + 1].id \in Ids
      BY <2>1, <1>q
    <3>3. queue[k + 1].id # n
      BY <1>0, <2>1, <3>2 DEF RequestsOne
    <3>4. \A j \in DOMAIN queue' : queue'[j].id = queue'[k].id => j = k
      <4>1. \A j \in DOMAIN queue' : queue'[j].id = queue'[k].id => j + 1 = k + 1
        BY <1>0, <2>1, <3>2 DEF RequestsOne
      <4> QED  BY <3>1, <4>1
    <3> HIDE DEF n
    <3> QED  BY <1>0, <2>1, <2>3, <3>2, <3>3, <3>4 DEF RequestsOne, Asked
  <2>6. RequestsOne'
    BY <2>5 DEF RequestsOne, Asked
  <2> HIDE DEF n
  <2>7. AnswersOne'
    BY <1>0, <2>1, <2>2, <2>3, <2>4 DEF AnswersOne, Asked
  <2> QED  BY <1>0, <2>1, <2>6, <2>7
<1> QED  BY <1>1, <1>2, <1>3, <1>4, <1>5, <1>6, <1>7, QuietSteps

-----------------------------------------------------------------------------
(* The theorems                                                            *)

\* An exception of a task has a cause, and so has the internal error.
LEMMA CauseNext ==
    ASSUME TypeOK, LifeInv, FileInv, InternalHasCause, [Next]_vars
    PROVE  InternalHasCause'
<1>1. (clashes > 0 => clashes' > 0) /\ (down => down')
  BY Lasting
<1>2. CASE Merge
  <2>1. result' = "internal" => \E m \in Ids : task[m] = "threw"
    BY <1>2, MergeFrame
  <2> QED  BY <1>1, <2>1 DEF FileInv, InternalHasCause
<1>3. CASE List
  <2>1. result' = "internal" => result = "internal"
    BY <1>3, ListFrame
  <2> QED  BY <1>1, <2>1 DEF InternalHasCause
<1>4. ASSUME ~Merge, ~List PROVE result' = result
  BY <1>4 DEF Next, vars, Step, Task, Begin, Done, Draw, Bind, Connect, Send, Receive, Timeout,
              Handle, Forget, Stop, Start
<1> QED  BY <1>1, <1>2, <1>3, <1>4 DEF InternalHasCause

\* The invariant holds at first.
LEMMA InitIInv == Init => IInv
<1> SUFFICES ASSUME Init PROVE IInv
  OBVIOUS
<1>1. TypeOK
  <2>1. drawn \in Nat /\ clashes \in 0 .. MaxClashes /\ stops \in 0 .. MaxStops
    BY BoundsAssumption DEF Init
  <2>2. suffix \in [Ids -> 0 .. drawn] /\ path \in [Ids -> 0 .. drawn] /\ at \in [Ids -> Nat]
    BY <2>1 DEF Init
  <2>3. <<>> \in Seq(ParamNames \X Reply) /\ <<>> \in Seq(Reply) /\ <<>> \in Seq(Requests)
    OBVIOUS
  <2> QED  BY <2>1, <2>2, <2>3 DEF Init, TypeOK, Over, Live
<1>2. \A n \in Ids : /\ task[n] = "none" /\ path[n] = 0 /\ suffix[n] = 0
                     /\ inbox[n] = <<>> /\ params[n] = <<>> /\ found[n] = <<>>
  BY DEF Init
<1>3. LifeInv
  BY <1>2 DEF Init, LifeInv
<1>4. ClashInv /\ RemovalInv /\ FileInv /\ OwnInv
  BY <1>2 DEF ClashInv, RemovalInv, FileInv, OwnInv, Past, Live
<1>5. QueueInv /\ AnswerInv
  BY <1>2 DEF Init, QueueInv, AnswerInv
<1>6. OneAtATime
  BY <1>2 DEF Init, OneAtATime, RequestsOne, AnswersOne, Matched
<1>7. InternalHasCause
  BY DEF Init, InternalHasCause
<1> QED  BY <1>1, <1>3, <1>4, <1>5, <1>6, <1>7 DEF IInv

\* IInv holds in all reachable states of WPA_LIST with its tasks, for any networks,
\* parameters, numbers drawn and stops of wpa_supplicant.
THEOREM Invariance == Spec => []IInv
<1>1. IInv /\ [Next]_vars => IInv'
  BY TypeNext, LifeNext, ClashNext, FileNext, OwnNext, QueueNext, AnswerNext, OneNext, CauseNext
     DEF IInv
<1> QED  BY <1>1, InitIInv, PTL DEF Spec

\* The variables of WPA_LIST keep their types; a task that asks or waits is at one
\* of SuppParamNames.
THEOREM TypeCorrect == Spec => []TypeOK
<1>1. IInv => TypeOK
  BY DEF IInv
<1> QED  BY <1>1, Invariance, PTL

\* WPA_LIST is answered with an internal error only when a number came up twice or
\* wpa_supplicant was not up all the time.
THEOREM Cause == Spec => []InternalHasCause
<1>1. IInv => InternalHasCause
  BY DEF IInv
<1> QED  BY <1>1, Invariance, PTL

\* With one clash of numbers at most, what WPA_LIST reports of a network was answered
\* for it, and for that parameter unless an answer came after its task had given up.
THEOREM TrueDetails == Spec => []DetailsTrue
<1>1. IInv => DetailsTrue
  <2> SUFFICES ASSUME IInv, clashes <= 1, NEW n \in Ids, NEW k \in 1 .. Len(found[n])
               PROVE  found[n][k][2].id = n /\ (late \/ found[n][k][2].param = found[n][k][1])
    BY DEF DetailsTrue
  <2>1. k \in DOMAIN found[n]
    BY DEF IInv, TypeOK
  <2>2. found[n][k][2].id = n
    BY <2>1 DEF IInv, AnswerInv
  <2>3. late \/ found[n][k][2].param = found[n][k][1]
    BY <2>1 DEF IInv, OneAtATime, Matched
  <2> QED  BY <2>2, <2>3
<1> QED  BY <1>1, Invariance, PTL

=============================================================================
