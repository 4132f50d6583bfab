--------------------------- MODULE ConfFileProofs ---------------------------
(***************************************************************************)
(* Proofs about the rotation and the writing of rc.conf and resolv.conf,   *)
(* for every number of backups and of commands.                            *)
(***************************************************************************)
EXTENDS ConfFile, TLAPS

USE NumBackupsAssumption, MaxCmdsAssumption

\* The types of every step, one lemma for all actions: the steps of the
\* rotation stay within the slots.
LEMMA StepType == TypeOK /\ [Next]_vars => TypeOK'
<1> SUFFICES ASSUME TypeOK, [Next]_vars PROVE TypeOK'
    OBVIOUS
<1> USE DEF TypeOK, Slots, Contents, Versions, Absent, Torn
<1>1. CASE Command
  <2>1. rotations' \in Nat
    BY <1>1 DEF Command
  <2>2. cmds' \in 1..(MaxCmds + 1) /\ idx' \in Slots
    BY <1>1 DEF Command
  <2>3. valid' \in BOOLEAN /\ error' \in BOOLEAN
    BY <1>1, Zenon DEF Command
  <2>4. /\ files' \in [Slots -> Contents] /\ before' \in [Slots -> Contents]
        /\ kind' = kind /\ text' = text /\ whole' = whole
        /\ result' \in {"none", "SUCCESS", "ERROR"}
    BY <1>1 DEF Command
  <2>5. pc' \in {"load", "remove"} /\ (pc' = "remove" => NumBackups > 0)
    BY <1>1 DEF Command
  <2> HIDE DEF Slots, Contents, Versions
  <2> QED
    BY <2>1, <2>2, <2>3, <2>4, <2>5
<1>2. CASE RemoveOldest
    BY <1>2 DEF RemoveOldest, InRotation
<1>3. CASE MoveCopy
  <2>1. idx \in Slots /\ idx - 1 \in Slots /\ idx > 1
    BY <1>3 DEF MoveCopy
  <2>2. files' \in [Slots -> Contents]
    BY <1>3, <2>1 DEF MoveCopy
  <2>3. error' \in BOOLEAN
    BY <1>3, Zenon DEF MoveCopy
  <2>4. /\ idx' \in Slots /\ pc' \in {"move", "drop", "copy"}
        /\ pc' \in {"move", "drop"} => idx' > 1
        /\ pc' = "copy" => NumBackups > 0
    BY <1>3, <2>1 DEF MoveCopy, NextIndex
  <2> QED
    BY <1>3, <2>2, <2>3, <2>4 DEF MoveCopy, InRotation
<1>4. CASE MoveRemove
  <2>1. files' \in [Slots -> Contents]
    BY <1>4 DEF MoveRemove
  <2>2. error' \in BOOLEAN
    BY <1>4, Zenon DEF MoveRemove
  <2>3. /\ idx' \in Slots /\ pc' \in {"move", "copy"}
        /\ pc' = "move" => idx' > 1
        /\ pc' = "copy" => NumBackups > 0
    BY <1>4 DEF MoveRemove, NextIndex
  <2> QED
    BY <1>4, <2>1, <2>2, <2>3 DEF MoveRemove, InRotation
<1>5. CASE CopyFile
  <2>1. files' \in [Slots -> Contents]
    BY <1>5 DEF CopyFile
  <2>2. error' \in BOOLEAN
    BY <1>5, Zenon DEF CopyFile
  <2>3. pc' \in {"idle", "load"} /\ result' \in {"none", "SUCCESS", "ERROR"}
    BY <1>5 DEF CopyFile, Finish
  <2> QED
    BY <1>5, <2>1, <2>2, <2>3 DEF CopyFile, InRotation
<1>6. CASE Load
    BY <1>6 DEF Load, Finish, InWrite
<1>7. CASE Open
    BY <1>7 DEF Open, Finish, InWrite
<1>8. CASE Write
    BY <1>8 DEF Write, IsWhole, Finish, InWrite
<1>9. CASE Crash
    BY <1>9 DEF Crash, Finish, InWrite
<1>10. CASE Done \/ UNCHANGED vars
    BY <1>10 DEF Done, vars
<1> QED
    BY <1>1, <1>2, <1>3, <1>4, <1>5, <1>6, <1>7, <1>8, <1>9, <1>10 DEF Next

\* The rotation never touches the file itself, and what it says of its loop
\* variable holds: each backup is moved once, from the oldest to the newest.
LEMMA StepShift ==
    TypeOK /\ AtIndex /\ Shifted /\ RotationShifts /\ [Next]_vars
        => AtIndex' /\ Shifted' /\ RotationShifts'
<1> SUFFICES ASSUME TypeOK, AtIndex, Shifted, RotationShifts, [Next]_vars
             PROVE  AtIndex' /\ Shifted' /\ RotationShifts'
    OBVIOUS
<1> USE DEF TypeOK, AtIndex, Shifted, RotationShifts, Slots, Absent
<1>1. CASE Command
    BY <1>1 DEF Command
<1>2. CASE RemoveOldest
    BY <1>2 DEF RemoveOldest, InRotation
<1>3. CASE MoveCopy
    BY <1>3 DEF MoveCopy, NextIndex, InRotation
<1>4. CASE MoveRemove
    BY <1>4 DEF MoveRemove, NextIndex, InRotation
<1>5. CASE CopyFile
    BY <1>5 DEF CopyFile, Finish, InRotation
<1>6. CASE Load
    BY <1>6 DEF Load, Finish, InWrite
<1>7. CASE Open
    BY <1>7 DEF Open, Finish, InWrite
<1>8. CASE Write
    BY <1>8 DEF Write, Finish, InWrite
<1>9. CASE Crash
    BY <1>9 DEF Crash, Finish, InWrite
<1>10. CASE Done \/ UNCHANGED vars
    BY <1>10 DEF Done, vars
<1> QED
    BY <1>1, <1>2, <1>3, <1>4, <1>5, <1>6, <1>7, <1>8, <1>9, <1>10 DEF Next

\* Copies go one slot further from the file, and what is written is newer
\* than every copy.
LEMMA StepNewest ==
    TypeOK /\ AtIndex /\ NewestFirst /\ NoneNewer /\ [Next]_vars
        => NewestFirst' /\ NoneNewer'
<1> SUFFICES ASSUME TypeOK, AtIndex, NewestFirst, NoneNewer, [Next]_vars
             PROVE  NewestFirst' /\ NoneNewer'
    OBVIOUS
<1> USE DEF TypeOK, AtIndex, NewestFirst, NoneNewer, IsWhole, Slots, Contents,
           Versions, Absent, Torn
<1>1. CASE Command
    BY <1>1 DEF Command
<1>2. CASE RemoveOldest
    BY <1>2 DEF RemoveOldest, InRotation
<1>3. CASE MoveCopy
    <2>1. /\ pc = "move" /\ pc' \in {"move", "copy", "drop"}
          /\ cmds' = cmds /\ text' = text
          /\ \/ files' = files
             \/ files[idx] = Absent /\ files' = [files EXCEPT ![idx] = files[idx - 1]]
             \/ files' = [files EXCEPT ![idx] = Torn]
        BY <1>3 DEF MoveCopy, NextIndex, InRotation
    <2>2. idx \in Slots /\ idx - 1 \in Slots
        BY <2>1, NumBackupsAssumption
    <2>3. NoneNewer'
        BY <2>1, <2>2
    <2>4. CASE \A s \in Slots : files'[s] = files[s] \/ ~IsWhole(files'[s])
        BY <2>3, <2>4
    <2>5. CASE files' = [files EXCEPT ![idx] = files[idx - 1]]
        <3>1. \A s \in Slots : files'[s] = IF s = idx THEN files[idx - 1] ELSE files[s]
            BY <2>2, <2>5
        <3>2. ASSUME NEW s \in Slots, NEW t \in Slots, s < t,
                     IsWhole(files'[s]), IsWhole(files'[t])
              PROVE  files'[s] >= files'[t]
            <4>1. CASE s = idx
                BY <2>2, <3>1, <3>2, <4>1
            <4>2. CASE s # idx /\ t = idx
                BY <2>2, <3>1, <3>2, <4>2
            <4>3. CASE s # idx /\ t # idx
                BY <3>1, <3>2, <4>3
            <4> QED
                BY <4>1, <4>2, <4>3
        <3> QED
            BY <2>3, <3>2
    <2> QED
        BY <2>1, <2>2, <2>4, <2>5, MaxCmdsAssumption
<1>4. CASE MoveRemove
    <2>1. /\ cmds' = cmds /\ text' = text /\ pc' \in {"move", "copy"}
          /\ files' = [files EXCEPT ![idx - 1] = Absent] \/ files' = files
        BY <1>4 DEF MoveRemove, NextIndex, InRotation
    <2>2. \A s \in Slots : files'[s] = files[s] \/ files'[s] = Absent
        BY <2>1
    <2>3. NoneNewer'
        BY <2>1, <2>2
    <2>4. \A s \in Slots : files'[s] = files[s] \/ ~IsWhole(files'[s])
        BY <2>2, MaxCmdsAssumption
    <2> QED
        BY <2>3, <2>4
<1>5. CASE CopyFile
    BY <1>5 DEF CopyFile, Finish, InRotation
<1>6. CASE Load
    BY <1>6 DEF Load, Finish, InWrite
<1>7. CASE Open
    <2>1. /\ files' = [files EXCEPT ![0] = Torn] \/ files' = files
          /\ pc' = "write" \/ pc' = "idle"
          /\ pc = "open" /\ text' = text /\ cmds' = cmds
        BY <1>7 DEF Open, Finish, InWrite
    <2>2. NoneNewer'
        BY <2>1
    <2>3. \A s \in Slots : files'[s] = files[s] \/ ~IsWhole(files'[s])
        BY <2>1, MaxCmdsAssumption
    <2> QED
        BY <2>2, <2>3
<1>8. CASE Write
    <2>1. /\ files' = [files EXCEPT ![0] = text] \/ files' = files
          /\ pc = "write" /\ pc' = "idle" /\ cmds' = cmds
        BY <1>8 DEF Write, Finish, InWrite
    <2>2. NoneNewer'
        BY <2>1
    <2>3. /\ \A s \in Slots : s > 0 => files'[s] = files[s]
          /\ files'[0] = files[0] \/ files'[0] = cmds \/ ~IsWhole(files'[0])
        BY <2>1, NumBackupsAssumption, MaxCmdsAssumption
    <2>4. \A s \in Slots : files[s] <= cmds
        OBVIOUS
    <2> QED
        BY <2>2, <2>3, <2>4
<1>9. CASE Crash
    BY <1>9 DEF Crash, Finish, InWrite
<1>10. CASE Done \/ UNCHANGED vars
    BY <1>10 DEF Done, vars
<1> QED
    BY <1>1, <1>2, <1>3, <1>4, <1>5, <1>6, <1>7, <1>8, <1>9, <1>10 DEF Next

\* Between the start of a command and its answer no error is reported, and
\* up to Open the file is as the command found it.
LEMMA StepReported ==
    TypeOK /\ Shifted /\ Reported /\ [Next]_vars => Reported'
<1> SUFFICES ASSUME TypeOK, Shifted, Reported, [Next]_vars PROVE Reported'
    OBVIOUS
<1> USE DEF TypeOK, Shifted, Reported, Slots, Absent
<1>1. CASE Command
    BY <1>1 DEF Command
<1>2. CASE RemoveOldest
    BY <1>2 DEF RemoveOldest, InRotation
<1>3. CASE MoveCopy
    BY <1>3 DEF MoveCopy, NextIndex, InRotation
<1>4. CASE MoveRemove
    BY <1>4 DEF MoveRemove, NextIndex, InRotation
<1>5. CASE CopyFile
    BY <1>5 DEF CopyFile, Finish, InRotation
<1>6. CASE Load
    BY <1>6 DEF Load, Finish, InWrite
<1>7. CASE Open
    BY <1>7 DEF Open, Finish, InWrite
<1>8. CASE Write
    BY <1>8 DEF Write, Finish, InWrite
<1>9. CASE Crash
    BY <1>9 DEF Crash, Finish, InWrite
<1>10. CASE Done \/ UNCHANGED vars
    BY <1>10 DEF Done, vars
<1> QED
    BY <1>1, <1>2, <1>3, <1>4, <1>5, <1>6, <1>7, <1>8, <1>9, <1>10 DEF Next

\* Where the last whole text is kept, step by step.
LEMMA StepKept ==
    TypeOK /\ AtIndex /\ Shifted /\ RotationShifts /\ Kept /\ [Next]_vars => Kept'
<1> SUFFICES ASSUME TypeOK, AtIndex, Shifted, RotationShifts, Kept, [Next]_vars
             PROVE  Kept'
    OBVIOUS
<1> USE DEF TypeOK, AtIndex, Shifted, RotationShifts, Kept, KeptAt, IsWhole, Slots,
           Contents, Versions, Absent, Torn
<1>1. CASE Command
    BY <1>1 DEF Command
<1>2. CASE RemoveOldest
    BY <1>2 DEF RemoveOldest, InRotation
<1>3. CASE MoveCopy
    <2>1. /\ pc = "move" /\ idx > 1 /\ idx \in Slots /\ idx - 1 \in Slots
          /\ UNCHANGED <<whole, rotations>>
          /\ files'[0] = files[0]
          /\ \A s \in Slots : files[s] # Absent => files'[s] = files[s]
        BY <1>3, NumBackupsAssumption DEF MoveCopy, InRotation
    <2>2. /\ pc' \in {"move", "drop", "copy"}
          /\ idx' \in Int /\ idx' <= idx
        BY <1>3, <2>1, NumBackupsAssumption DEF MoveCopy, NextIndex
    <2>3. ASSUME NEW s \in Slots, KeptAt(s), whole # Absent
          PROVE  KeptAt(s)'
        <3>1. files'[s] = whole'
            BY <2>1, <2>3
        <3>2. s < idx' => s < idx
            BY <2>1, <2>2, NumBackupsAssumption
        <3> QED
            BY <2>1, <2>2, <2>3, <3>1, <3>2
    <2>4. ASSUME ~IsWhole(files[0]), whole # Absent, rotations < NumBackups
          PROVE  \E s \in Slots : KeptAt(s)'
        <3>1. PICK s \in Slots : KeptAt(s)
            BY <2>4 DEF Kept
        <3> QED
            BY <2>3, <2>4, <3>1
    <2>5. IsWhole(files'[0]) => whole' = files'[0]
        BY <2>1 DEF Kept
    <2> HIDE DEF KeptAt, IsWhole
    <2> QED
        BY <2>1, <2>2, <2>4, <2>5 DEF Kept
<1>4. CASE MoveRemove
    BY <1>4 DEF MoveRemove, NextIndex, InRotation
<1>5. CASE CopyFile
    BY <1>5 DEF CopyFile, Finish, InRotation
<1>6. CASE Load
    BY <1>6 DEF Load, Finish, InWrite
<1>7. CASE Open
    <2>1. /\ pc = "open" /\ UNCHANGED <<idx, whole, rotations>>
          /\ \/ files' = [files EXCEPT ![0] = Torn] /\ pc' = "write"
             \/ files' = files /\ pc' = "idle"
        BY <1>7 DEF Open, Finish, InWrite
    <2>2. CASE files' = files /\ pc' = "idle"
        BY <2>1, <2>2
    <2>3. CASE files' = [files EXCEPT ![0] = Torn] /\ pc' = "write"
        <3>1. /\ files'[0] = Torn /\ ~IsWhole(Torn)
              /\ \A s \in Slots : s # 0 => files'[s] = files[s]
            BY <2>3, NumBackupsAssumption, MaxCmdsAssumption
        <3>2. ASSUME whole # Absent, rotations < NumBackups
              PROVE  \E s \in Slots : KeptAt(s)'
            <4>1. CASE IsWhole(files[0])
                <5>1. 1 \in Slots /\ files'[1] = whole
                    BY <2>1, <3>1, <3>2, <4>1, NumBackupsAssumption
                <5>2. KeptAt(1)'
                    BY <2>1, <2>3, <5>1
                <5> QED
                    BY <5>1, <5>2
            <4>2. CASE ~IsWhole(files[0])
                <5>1. PICK s \in Slots : KeptAt(s)
                    BY <3>2, <4>2
                <5>2. s # 0
                    BY <3>2, <4>2, <5>1
                <5>3. KeptAt(s)'
                    BY <2>1, <2>3, <3>1, <5>1, <5>2
                <5> QED
                    BY <5>3
            <4> QED
                BY <4>1, <4>2
        <3> QED
            BY <2>1, <2>3, <3>1, <3>2
    <2> QED
        BY <2>1, <2>2, <2>3
<1>8. CASE Write
    BY <1>8 DEF Write, Finish, InWrite
<1>9. CASE Crash
    BY <1>9 DEF Crash, Finish, InWrite
<1>10. CASE Done \/ UNCHANGED vars
    BY <1>10 DEF Done, vars
<1> QED
    BY <1>1, <1>2, <1>3, <1>4, <1>5, <1>6, <1>7, <1>8, <1>9, <1>10 DEF Next

\* The invariant that carries every property below: it says where the loop of
\* rotateConfigFile is, what it has moved, and where the last whole text of
\* the configuration file is kept meanwhile.
THEOREM Invariance == Spec => []IInv
<1>1. Init => IInv
  <2> SUFFICES ASSUME Init PROVE IInv
    OBVIOUS
  <2> USE DEF Init, Slots, Contents, Versions, Absent, Torn, IsWhole
  <2>1. /\ files \in [Slots -> Contents] /\ files[0] \in {1, Absent}
        /\ \A s \in Slots : s # 0 => files[s] = Absent
    OBVIOUS
  <2>2. TypeOK
    <3>1. valid \in BOOLEAN /\ error \in BOOLEAN
        BY Zenon DEF Init
    <3> QED
        BY <2>1, <3>1 DEF TypeOK
  <2>3. AtIndex /\ Shifted /\ RotationShifts /\ Reported
    BY DEF AtIndex, Shifted, RotationShifts, Reported
  <2>4. Kept
    BY <2>1 DEF Kept
  <2>5. NewestFirst /\ NoneNewer
    BY <2>1 DEF NewestFirst, NoneNewer
  <2> QED
    BY <2>2, <2>3, <2>4, <2>5 DEF IInv
<1>2. IInv /\ [Next]_vars => IInv'
    BY StepType, StepShift, StepNewest, StepReported, StepKept DEF IInv
<1> QED
    BY <1>1, <1>2, PTL DEF Spec

\* Every variable keeps its type: rotateConfigFile never leaves its slots.
THEOREM TypeCorrect == Spec => []TypeOK
<1>1. IInv => TypeOK
    BY DEF IInv
<1> QED
    BY <1>1, Invariance, PTL

\* For every number of backups: however the steps of rotateConfigFile and of
\* the write fail, and wherever the process ends, the last whole text of the
\* file is still there until NumBackups more rotations have begun.
THEOREM Recoverable == Spec => []LastWholeRecoverable
<1>1. IInv => LastWholeRecoverable
    BY DEF IInv, LastWholeRecoverable, Kept, KeptAt, TypeOK, Slots, Contents, Versions,
           Absent, Torn, IsWhole
<1> QED
    BY <1>1, Invariance, PTL

\* A rotation that reports success has moved every backup by one.
THEOREM Rotates == Spec => []RotationShifts
<1>1. IInv => RotationShifts
    BY DEF IInv
<1> QED
    BY <1>1, Invariance, PTL

\* The backups are in the order of their age at all times.
THEOREM Ordered == Spec => []NewestFirst
<1>1. IInv => NewestFirst
    BY DEF IInv
<1> QED
    BY <1>1, Invariance, PTL

\* RCCONF_WRITE and RESOLVCONF_WRITE report an error only when the file is
\* as it was.
THEOREM ErrorsHarmless == Spec => []ErrorMeansUntouched
<1>1. IInv => ErrorMeansUntouched
    BY DEF IInv, Reported, ErrorMeansUntouched
<1> QED
    BY <1>1, Invariance, PTL

=============================================================================
