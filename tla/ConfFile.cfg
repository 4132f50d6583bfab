\* Three backups and five commands: enough to push a text out of the last slot.
SPECIFICATION Spec
CONSTANTS
    NumBackups = 3
    MaxCmds = 5
INVARIANTS
    RotationShifts
    LastWholeRecoverable
    NewestFirst
