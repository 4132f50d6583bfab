------------------------------ MODULE ConfFile ------------------------------
(***************************************************************************)
(* Writing rc.conf and resolv.conf: the rotation of the numbered backups   *)
(* (Tool::rotateConfigFile) followed by the write of the file itself, one  *)
(* file system call at a time.  Any call may fail, and the process may end *)
(* between two calls: main() returns when its grace period is over, also   *)
(* while a dispatcher is inside execCmd().                                 *)
(*                                                                         *)
(* Commands are serialised by work_access (see NmDaemon), so one command   *)
(* at a time is at work on the file.                                       *)
(***************************************************************************)
EXTENDS Integers

CONSTANTS
    NumBackups,  \* rcconf_backups, resolvconf_backups
    MaxCmds      \* bound: number of commands

ASSUME NumBackupsAssumption == NumBackups \in Nat
ASSUME MaxCmdsAssumption    == MaxCmds \in Nat

\* What a file holds: the configuration written by command n, whole; or
\* nothing because there is no such file; or a part of a configuration.
Absent   == 0
Torn     == -1
Versions == 1..(MaxCmds + 1)
Contents == Versions \cup {Absent, Torn}

\* Slot 0 is the configuration file, slot i its backup number i.
Slots == 0..NumBackups

VARIABLES
    kind,      \* which file it is: "rc" or "resolv"
    files,     \* contents of the slots
    pc,        \* where execCmdRcConfWrite or execCmdResolvConfWrite is
    valid,     \* the data of the command is usable
    idx,       \* the loop variable of rotateConfigFile
    error,     \* its error flag
    text,      \* the configuration about to be written
    cmds,      \* number of commands, and the version the current one writes
    result,    \* result of the last command
    before,    \* history: files when the command began
    whole,     \* history: the last configuration that was whole in slot 0
    rotations  \* history: rotations begun since slot 0 is not whole

vars == <<kind, files, pc, valid, idx, error, text, cmds, result, before,
          whole, rotations>>

IsWhole(x) == x \in Versions

\* The file is as the administrator left it (or not there); no backups yet.
Init ==
    /\ kind \in {"rc", "resolv"}
    /\ \E x \in {1, Absent} : files = [s \in Slots |-> IF s = 0 THEN x ELSE Absent]
    /\ pc = "idle"
    /\ valid = FALSE
    /\ idx = 0
    /\ error = FALSE
    /\ text = Absent
    /\ cmds = 1
    /\ result = "none"
    /\ before = files
    /\ whole = files[0]
    /\ rotations = 0

-----------------------------------------------------------------------------
(* The command                                                             *)

Finish(res) ==
    /\ pc' = "idle"
    /\ result' = res

Command ==
    /\ pc = "idle"
    /\ cmds <= MaxCmds
    /\ cmds' = cmds + 1
    /\ valid' \in BOOLEAN
    /\ idx' = NumBackups
    /\ error' = FALSE
    /\ result' = "none"
    /\ pc' = IF NumBackups = 0 THEN "load" ELSE "remove"
    /\ before' = files
    /\ rotations' = IF IsWhole(files[0]) THEN 0 ELSE rotations + 1
    /\ UNCHANGED <<kind, files, text, whole>>

-----------------------------------------------------------------------------
(* Tool::rotateConfigFile                                                  *)

InRotation == UNCHANGED <<kind, valid, text, cmds, before, whole, rotations>>

\* The next backup to move, or the copy of the file itself.
NextIndex ==
    /\ idx' = idx - 1
    /\ pc' = IF idx' > 1 THEN "move" ELSE "copy"

\* Mutant: one backup more is removed than the rotation needs room for.
RemoveOldest_TwoAtOnce ==
    /\ pc = "remove"
    /\ files' = [s \in Slots |-> IF s > 0 /\ s >= NumBackups - 1 THEN Absent
                                 ELSE files[s]]
    /\ pc' = IF idx > 1 THEN "move" ELSE "copy"
    /\ UNCHANGED <<idx, error, result>> /\ InRotation

\* A failure here is logged and forgotten.
RemoveOldest ==
    /\ pc = "remove"
    /\ \/ files' = [files EXCEPT ![NumBackups] = Absent]
       \/ UNCHANGED files
    /\ pc' = IF idx > 1 THEN "move" ELSE "copy"
    /\ UNCHANGED <<idx, error, result>> /\ InRotation

\* Mutant: the source of the copy is one backup too young.
MoveCopy_SkipsOne ==
    /\ pc = "move"
    /\ IF files[idx - 2] # Absent /\ files[idx] = Absent
       THEN /\ files' = [files EXCEPT ![idx] = files[idx - 2]]
            /\ pc' = "drop"
            /\ UNCHANGED <<idx, error>>
       ELSE NextIndex /\ UNCHANGED <<files, error>>
    /\ UNCHANGED result /\ InRotation

\* copy() throws when its target exists; when it fails half way it leaves
\* part of the target behind.
MoveCopy ==
    /\ pc = "move"
    /\ \/ /\ files[idx - 1] = Absent
          /\ NextIndex
          /\ UNCHANGED <<files, error>>
       \/ /\ files[idx - 1] # Absent
          /\ files[idx] = Absent
          /\ files' = [files EXCEPT ![idx] = files[idx - 1]]
          /\ pc' = "drop"
          /\ UNCHANGED <<idx, error>>
       \/ /\ files[idx - 1] # Absent
          /\ \/ UNCHANGED files
             \/ files[idx] = Absent /\ files' = [files EXCEPT ![idx] = Torn]
          /\ error' = TRUE
          /\ NextIndex
    /\ UNCHANGED result /\ InRotation

MoveRemove ==
    /\ pc = "drop"
    /\ \/ files' = [files EXCEPT ![idx - 1] = Absent] /\ UNCHANGED error
       \/ error' = TRUE /\ UNCHANGED files
    /\ NextIndex
    /\ UNCHANGED result /\ InRotation

\* Mutant: a failed copy is not an error.
CopyFile_Forgiving ==
    /\ pc = "copy"
    /\ \/ /\ files[0] # Absent
          /\ files[1] = Absent
          /\ files' = [files EXCEPT ![1] = files[0]]
       \/ UNCHANGED files
    /\ pc' = "load"
    /\ UNCHANGED <<idx, error, result>> /\ InRotation

\* The copy of the file to backup 1; without an error the file is written.
CopyFile ==
    /\ pc = "copy"
    /\ \/ /\ files[0] # Absent
          /\ files[1] = Absent
          /\ files' = [files EXCEPT ![1] = files[0]]
          /\ UNCHANGED error
       \/ /\ \/ UNCHANGED files
             \/ /\ files[0] # Absent
                /\ files[1] = Absent
                /\ files' = [files EXCEPT ![1] = Torn]
          /\ error' = TRUE
    /\ IF error' THEN Finish("ERROR") ELSE pc' = "load" /\ UNCHANGED result
    /\ UNCHANGED idx /\ InRotation

-----------------------------------------------------------------------------
(* RcConf::setRcIpConfig and ResolvConf::setConfig                         *)

InWrite == UNCHANGED <<kind, valid, idx, error, cmds, before, rotations>>

\* Both look at the data of the command first here, after the rotation.
\* rc.conf is read and changed, so a part of it stays a part; resolv.conf is
\* made anew.  A rc.conf that cannot be read ends in an exception.
Load ==
    /\ pc = "load"
    /\ \/ /\ valid
          /\ kind = "rc" => files[0] # Absent
          /\ text' = IF kind = "rc" /\ files[0] = Torn THEN Torn ELSE cmds
          /\ pc' = "open"
          /\ UNCHANGED result
       \/ /\ ~valid \/ kind = "rc"
          /\ Finish("ERROR")
          /\ UNCHANGED text
    /\ UNCHANGED <<files, whole>> /\ InWrite

\* Opening the file empties it.  That resolv.conf could not be opened is not
\* noticed.
Open ==
    /\ pc = "open"
    /\ \/ /\ files' = [files EXCEPT ![0] = Torn]
          /\ pc' = "write"
          /\ UNCHANGED result
       \/ /\ Finish(IF kind = "rc" THEN "ERROR" ELSE "SUCCESS")
          /\ UNCHANGED files
    /\ UNCHANGED <<text, whole>> /\ InWrite

\* Nor does either look whether the stream took the text.
Write ==
    /\ pc = "write"
    /\ \/ files' = [files EXCEPT ![0] = text]
       \/ UNCHANGED files
    /\ whole' = IF IsWhole(files'[0]) THEN files'[0] ELSE whole
    /\ Finish("SUCCESS")
    /\ UNCHANGED text /\ InWrite

\* The process ends in the middle of the command; a new one starts.
Crash ==
    /\ pc # "idle"
    /\ Finish("none")
    /\ UNCHANGED <<files, text, whole>> /\ InWrite

\* The bound on commands is reached.
Done == pc = "idle" /\ cmds > MaxCmds /\ UNCHANGED vars

Next ==
    \/ Command \/ RemoveOldest \/ MoveCopy \/ MoveRemove \/ CopyFile
    \/ Load \/ Open \/ Write \/ Crash \/ Done

Spec == Init /\ [][Next]_vars

-----------------------------------------------------------------------------
(* Properties                                                              *)

\* Every variable has its type.
TypeOK ==
    /\ kind \in {"rc", "resolv"}
    /\ files \in [Slots -> Contents]
    /\ pc \in {"idle", "remove", "move", "drop", "copy", "load", "open", "write"}
    /\ valid \in BOOLEAN
    /\ idx \in Slots
    /\ pc \in {"move", "drop"} => idx > 1
    /\ pc \in {"remove", "copy"} => NumBackups > 0
    /\ error \in BOOLEAN
    /\ text \in Contents
    /\ cmds \in 1..(MaxCmds + 1)
    /\ result \in {"none", "SUCCESS", "ERROR"}
    /\ before \in [Slots -> Contents]
    /\ whole \in Versions \cup {Absent}
    /\ rotations \in Nat

\* A rotation that reports no error has shifted every file there was by one
\* slot, and the file itself is still in its place (rotateConfigFile).
RotationShifts ==
    pc \in {"load", "open"} /\ NumBackups > 0 =>
        /\ files[0] = before[0]
        /\ \A s \in Slots \ {0} : before[s - 1] # Absent => files[s] = before[s - 1]

\* Whatever fails and wherever the process ends: once the file is damaged,
\* its last whole text stays in a backup until NumBackups more commands have
\* each begun a rotation (and a rejected command begins one, too).
LastWholeRecoverable ==
    whole # Absent /\ rotations < NumBackups =>
        \E s \in Slots : files[s] = whole

\* No crash, failure or retry puts an older text in front of a newer one.
NewestFirst ==
    \A s, t \in Slots :
        s < t /\ IsWhole(files[s]) /\ IsWhole(files[t]) => files[s] >= files[t]

\* A command that reports an error has not touched the file.
ErrorMeansUntouched == result = "ERROR" => files[0] = before[0]

-----------------------------------------------------------------------------
(* What makes the properties inductive (see ConfFileProofs)                *)

\* Where the loop of rotateConfigFile is.
AtIndex ==
    /\ pc = "remove" => idx = NumBackups
    /\ pc = "copy" => idx = 1
    /\ pc = "drop" => files[idx] = files[idx - 1] /\ files[idx] # Absent

\* What a rotation without error has shifted so far, and not touched yet.
Shifted ==
    /\ pc \in {"remove", "move", "drop", "copy", "load", "open"} => files[0] = before[0]
    /\ pc = "remove" => files = before
    /\ pc \in {"move", "drop", "copy"} /\ ~error =>
        /\ \A s \in Slots : s < idx => files[s] = before[s]
        /\ \A s \in Slots : s > idx /\ before[s - 1] # Absent => files[s] = before[s - 1]

\* A backup that the rotation has still to move may be one slot further only
\* once it is moved.
KeptAt(s) ==
    /\ files[s] = whole
    /\ s <= rotations + 1
    /\ pc = "remove" => s <= rotations
    /\ pc \in {"move", "drop"} /\ s < idx => s <= rotations

Kept ==
    /\ IsWhole(files[0]) => whole = files[0]
    /\ pc \in {"load", "open"} /\ NumBackups > 0 => files[1] = files[0]
    /\ pc = "write" => files[0] = Torn
    /\ ~IsWhole(files[0]) /\ whole # Absent /\ rotations < NumBackups =>
        \E s \in Slots : KeptAt(s)

\* No file is newer than the command that writes.
NoneNewer ==
    /\ \A s \in Slots : files[s] <= cmds
    /\ pc \in {"open", "write"} => text \in {Torn, cmds}

\* An error is reported at the end of a command only.
Reported == result = "ERROR" => pc = "idle" /\ files[0] = before[0]

IInv ==
    /\ TypeOK /\ AtIndex /\ Shifted /\ RotationShifts /\ Kept
    /\ NewestFirst /\ NoneNewer /\ Reported

=============================================================================
