------------------------------ MODULE AuditLog ------------------------------
(***************************************************************************)
(* The audit file of one user and its rotated backups (audit.py:           *)
(* AuditLogger).  A write takes the logger's lock, rotates when the line   *)
(* does not fit, and appends.  Every unlink, rename and append is a step   *)
(* of its own, for an error (a full disk) or a crash may end the write     *)
(* between any two of them.                                                *)
(***************************************************************************)
EXTENDS Naturals, Sequences, FiniteSets

CONSTANTS
    Call,         \* tool calls; the server runs a thread for each
    Line,         \* audit lines
    SizeOf,       \* bytes of each line, its newline included
    MaxBytes,     \* rotate_max_bytes
    Backups,      \* rotate_backup_count
    Unlocked      \* the lock is free

ASSUME LogAssumption ==
    /\ SizeOf \in [Line -> Nat \ {0}]
    /\ MaxBytes \in Nat
    /\ Backups \in Nat \ {0}
    /\ Unlocked \notin [by: Call, line: Line, pc: {"unlink", "shift", "append"},
                        slot: 0..Backups]

VARIABLES
    files,        \* the files present: 0 is the log, k > 0 is log.k
    writer,       \* who holds the lock, for which line and how far it got
    trail,        \* history: the lines that reached the disk, in order
    rotations,    \* history: rotations completed
    cut,          \* history: rotations ended half way
    fragments     \* history: writes that left part of a line behind

logVars == <<files, writer, trail, rotations, cut, fragments>>

-----------------------------------------------------------------------------
(* A file holds lines by their place in the trail.  torn: its last bytes   *)
(* are a fragment of a line whose write was cut short.                     *)
File == [lines: SUBSET (Nat \ {0}), bytes: Nat, torn: BOOLEAN]

Empty == [lines |-> {}, bytes |-> 0, torn |-> FALSE]

Live == IF 0 \in DOMAIN files THEN files[0] ELSE Empty

Writing == [by: Call, line: Line, pc: {"unlink", "shift", "append"}, slot: 0..Backups]

Only(slots) == [k \in slots |-> files[k]]

WithLive(file) == [k \in DOMAIN files \cup {0} |-> IF k = 0 THEN file ELSE files[k]]

LogInit ==
    /\ files = << >>
    /\ writer = Unlocked
    /\ trail = << >>
    /\ rotations = 0
    /\ cut = 0
    /\ fragments = 0

(* Mutant of Fits: only what is there already is compared with the limit.  *)
Fits_Stored(line) == 0 \in DOMAIN files => files[0].bytes <= MaxBytes

(* _rotate_if_needed returns early.                                        *)
Fits(line) == 0 \in DOMAIN files => files[0].bytes + SizeOf[line] <= MaxBytes

(* _write_line up to the first change: the lock and the test of the size.  *)
BeginWrite(c, line) ==
    /\ writer = Unlocked
    /\ writer' = [by |-> c, line |-> line, slot |-> 0,
                  pc |-> IF Fits(line) THEN "append" ELSE "unlink"]
    /\ UNCHANGED <<files, trail, rotations, cut, fragments>>

(* Mutant of UnlinkOldest: one file too many is shifted, none unlinked.    *)
UnlinkOldest_ShiftsAll ==
    /\ writer # Unlocked
    /\ writer.pc = "unlink"
    /\ writer' = [writer EXCEPT !.pc = "shift", !.slot = Backups]
    /\ UNCHANGED <<files, trail, rotations, cut, fragments>>

(* Mutant of UnlinkOldest: the first number is taken for the oldest file.  *)
UnlinkOldest_First ==
    /\ writer # Unlocked
    /\ writer.pc = "unlink"
    /\ files' = Only(DOMAIN files \ {1})
    /\ writer' = [writer EXCEPT !.pc = "shift", !.slot = Backups - 1]
    /\ UNCHANGED <<trail, rotations, cut, fragments>>

(* The oldest file goes, whether the rotation needs its place or not.      *)
UnlinkOldest ==
    /\ writer # Unlocked
    /\ writer.pc = "unlink"
    /\ files' = Only(DOMAIN files \ {Backups})
    /\ writer' = [writer EXCEPT !.pc = "shift", !.slot = Backups - 1]
    /\ UNCHANGED <<trail, rotations, cut, fragments>>

(* A rename replaces what is there; a slot that is missing is passed over. *)
Renamed(k) ==
    IF k \in DOMAIN files
    THEN [j \in (DOMAIN files \ {k}) \cup {k + 1} |->
              IF j = k + 1 THEN files[k] ELSE files[j]]
    ELSE files

(* log.k becomes log.(k+1), from the highest number down to the log.       *)
ShiftUp ==
    /\ writer # Unlocked
    /\ writer.pc = "shift"
    /\ LET k == writer.slot IN
         /\ files' = Renamed(k)
         /\ IF k = 0
            THEN /\ writer' = [writer EXCEPT !.pc = "append"]
                 /\ rotations' = rotations + 1
            ELSE /\ writer' = [writer EXCEPT !.slot = k - 1]
                 /\ UNCHANGED rotations
    /\ UNCHANGED <<trail, cut, fragments>>

(* The whole line is on disk.  After a fragment nobody can read it.        *)
LineWritten ==
    /\ trail' = Append(trail, [line |-> writer.line, legible |-> ~Live.torn])
    /\ files' = WithLive([lines |-> Live.lines \cup {Len(trail) + 1},
                          bytes |-> Live.bytes + SizeOf[writer.line],
                          torn  |-> FALSE])

AppendLine ==
    /\ writer # Unlocked
    /\ writer.pc = "append"
    /\ LineWritten
    /\ writer' = Unlocked
    /\ UNCHANGED <<rotations, cut, fragments>>

(* Mutant of AppendCut: the half-written file is cleaned away.             *)
AppendCut_Discards ==
    /\ files' = Only(DOMAIN files \ {0})
    /\ UNCHANGED <<trail, fragments>>

(* What an append that raises, or is cut by a crash, may leave behind: the *)
(* line after all, a fragment, an empty file, or nothing.                  *)
AppendCut ==
    \/ UNCHANGED <<files, trail, fragments>>
    \/ LineWritten /\ UNCHANGED fragments
    \/ /\ \E n \in 0..(SizeOf[writer.line] - 1) :
            /\ files' = WithLive([Live EXCEPT !.bytes = @ + n, !.torn = @ \/ n > 0])
            /\ fragments' = IF n > 0 THEN fragments + 1 ELSE fragments
       /\ UNCHANGED trail

(* An error in the middle of a write; the lock is released.                *)
WriteCut ==
    /\ writer # Unlocked
    /\ IF writer.pc = "append"
       THEN AppendCut /\ UNCHANGED cut
       ELSE /\ cut' = cut + 1
            /\ UNCHANGED <<files, trail, fragments>>
    /\ writer' = Unlocked
    /\ UNCHANGED rotations

LogNext ==
    \/ \E c \in Call, line \in Line : BeginWrite(c, line)
    \/ UnlinkOldest \/ ShiftUp \/ AppendLine \/ WriteCut

LogSpec == LogInit /\ [][LogNext]_logVars

-----------------------------------------------------------------------------
LogTypeOK ==
    /\ DOMAIN files \subseteq 0..Backups
    /\ files \in [DOMAIN files -> File]
    /\ writer \in Writing \cup {Unlocked}
    /\ trail \in Seq([line: Line, legible: BOOLEAN])
    /\ rotations \in Nat
    /\ cut \in Nat
    /\ fragments \in Nat

(* Whatever rotations, errors and crashes did, what is left on disk is an  *)
(* unbroken run of the newest lines, and a higher number means older.      *)
NewestKept ==
    /\ \A k \in DOMAIN files : \A n \in files[k].lines : \A later \in n..Len(trail) :
         \E j \in DOMAIN files : later \in files[j].lines
    /\ \A i, j \in DOMAIN files : i < j =>
         \A newer \in files[i].lines, older \in files[j].lines : older < newer

(* No file outgrows the limit, unless one line alone is longer.            *)
FilesBounded ==
    \A k \in DOMAIN files :
        files[k].bytes <= MaxBytes \/ \E l \in Line : files[k].bytes <= SizeOf[l]

(* A rotation cut short leaves a hole in the numbers, and the next one     *)
(* unlinks the oldest file all the same: each costs one backup at most.    *)
Kept == Cardinality(DOMAIN files \ {0})

BackupsKept ==
    writer = Unlocked => Kept + cut >= rotations \/ Kept + cut >= Backups

(* The lines that reached the disk behind a fragment: nobody can read them. *)
Spoilt == {i \in 1..Len(trail) : ~trail[i].legible}

-----------------------------------------------------------------------------
(* Why: the parts of an inductive invariant.                               *)

(* Files hold lines that were written.                                     *)
LinesWritten == \A k \in DOMAIN files : files[k].lines \subseteq 1..Len(trail)

(* A rename never meets a file under the new number, and an append only    *)
(* happens where the line fits.                                            *)
WriterOnCourse ==
    writer # Unlocked =>
        /\ writer.pc = "shift" => writer.slot + 1 \notin DOMAIN files
        /\ writer.pc = "shift" => writer.slot < Backups
        /\ writer.pc = "append" => Fits(writer.line)

(* Each rotation cut short accounts for one hole below the highest number; *)
(* a shift either moves everything by one place or has dropped the oldest. *)
HolesCounted ==
    LET shifting == writer # Unlocked /\ writer.pc = "shift" IN
    /\ ~shifting =>
         /\ \A k \in DOMAIN files : k <= Kept + cut
         /\ Kept + cut >= rotations \/ Kept + cut >= Backups
    /\ shifting =>
         \/ Kept + cut + 1 >= Backups
         \/ /\ Kept + cut >= rotations
            /\ \A k \in DOMAIN files : /\ k <= Kept + cut + 1
                                       /\ k <= writer.slot => k <= Kept + cut
    /\ writer # Unlocked /\ writer.pc # "append" => 0 \in DOMAIN files

(* A fragment spoils at most the line that is appended to it.              *)
FragmentsCounted ==
    Cardinality(Spoilt) + (IF Live.torn THEN 1 ELSE 0) <= fragments

LogInv ==
    /\ LogTypeOK
    /\ NewestKept
    /\ FilesBounded
    /\ LinesWritten
    /\ WriterOnCourse
=============================================================================
