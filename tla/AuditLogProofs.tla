--------------------------- MODULE AuditLogProofs ---------------------------
(***************************************************************************)
(* Proofs about AuditLog, for any number of calls, lines of any length and *)
(* any number of backups.  LogInv is inductive; LogStep is stated for one  *)
(* step, so that a module that drives the log can use it too.              *)
(***************************************************************************)
EXTENDS AuditLog, FiniteSetTheorems, TLAPS

(* The log starts empty and unlocked.                                      *)
LEMMA LogStarts == LogInit => LogInv
BY LogAssumption DEF LogInit, LogInv, LogTypeOK, NewestKept, FilesBounded, LinesWritten,
   WriterOnCourse

(* Taking the lock touches no file, and the size is tested under it.       *)
LEMMA BeginKeeps ==
    ASSUME LogInv, NEW c \in Call, NEW line \in Line, BeginWrite(c, line)
    PROVE  LogInv'
<1>1. writer' \in Writing
  BY LogAssumption DEF BeginWrite, Writing
<1>2. /\ writer' # Unlocked /\ writer'.line = line /\ writer'.pc \in {"append", "unlink"}
      /\ writer'.pc = "append" => Fits(line)
  BY <1>1, LogAssumption DEF BeginWrite, Writing
<1> QED
  BY <1>1, <1>2 DEF LogInv, LogTypeOK, NewestKept, FilesBounded, LinesWritten,
     WriterOnCourse, BeginWrite, Fits

(* The highest number holds older lines than any other file.               *)
LEMMA UnlinkKeeps ==
    ASSUME LogInv, UnlinkOldest
    PROVE  LogInv'
<1> USE DEF LogInv, UnlinkOldest
<1>1. /\ writer \in Writing
      /\ writer' = [writer EXCEPT !.pc = "shift", !.slot = Backups - 1]
      /\ Backups - 1 \in 0..Backups
  BY LogAssumption DEF LogTypeOK
<1> HIDE DEF LogInv, UnlinkOldest
<1>2. /\ writer' \in Writing /\ writer'.pc = "shift"
      /\ writer'.slot = Backups - 1 /\ writer' # Unlocked
  BY <1>1, LogAssumption DEF Writing
<1> USE DEF LogInv, UnlinkOldest
<1>3. DOMAIN files' = DOMAIN files \ {Backups}
  BY DEF Only
<1>4. \A k \in DOMAIN files' : files'[k] = files[k]
  BY DEF Only
<1>5. files' \in [DOMAIN files' -> File]
  BY <1>3, <1>4 DEF LogTypeOK, Only
<1>6. LogTypeOK'
  BY <1>2, <1>3, <1>5 DEF LogTypeOK
<1>7. NewestKept'
  <2>1. ASSUME NEW k \in DOMAIN files', NEW n \in files'[k].lines, NEW later \in n..Len(trail')
        PROVE  \E j \in DOMAIN files' : later \in files'[j].lines
    <3>1. k \in DOMAIN files /\ n \in files[k].lines /\ later \in n..Len(trail)
      BY <1>3, <1>4
    <3>2. PICK j \in DOMAIN files : later \in files[j].lines
      BY <3>1 DEF NewestKept
    <3>3. k \in Nat /\ j \in Nat /\ k < Backups /\ n \in Nat /\ later \in Nat
      BY <1>3, <3>1, LogAssumption DEF LogTypeOK, File
    <3>4. j # Backups
      BY <3>1, <3>2, <3>3, LogAssumption DEF NewestKept
    <3> QED
      BY <3>2, <3>4, <1>3, <1>4
  <2> QED
    BY <2>1, <1>3, <1>4 DEF NewestKept
<1>8. FilesBounded' /\ LinesWritten'
  BY <1>3, <1>4 DEF FilesBounded, LinesWritten
<1>9. WriterOnCourse'
  BY <1>2, <1>3, LogAssumption DEF WriterOnCourse
<1> QED
  BY <1>6, <1>7, <1>8, <1>9

(* A file moves to the next number, which no file has.                     *)
LEMMA ShiftKeeps ==
    ASSUME LogInv, ShiftUp
    PROVE  LogInv'
<1> USE DEF LogInv
<1> DEFINE k == writer.slot
<1>1. /\ writer \in Writing /\ writer # Unlocked /\ writer.pc = "shift"
      /\ k \in 0..Backups /\ k < Backups /\ k + 1 \notin DOMAIN files
  BY DEF ShiftUp, LogTypeOK, Writing, WriterOnCourse
<1>2. /\ files' = Renamed(k) /\ trail' = trail /\ cut' = cut /\ fragments' = fragments
      /\ rotations' \in Nat
  BY DEF ShiftUp, LogTypeOK
<1>3. \/ k = 0 /\ writer' = [writer EXCEPT !.pc = "append"]
      \/ k # 0 /\ writer' = [writer EXCEPT !.slot = k - 1]
  BY DEF ShiftUp
<1>4. /\ writer' \in Writing /\ writer' # Unlocked
      /\ \/ k = 0 /\ writer'.pc = "append"
         \/ k # 0 /\ writer'.pc = "shift" /\ writer'.slot = k - 1
  BY <1>1, <1>3, LogAssumption DEF Writing
<1>5. /\ k \notin DOMAIN files'
      /\ DOMAIN files' \subseteq 0..Backups
      /\ files' \in [DOMAIN files' -> File]
  BY <1>1, <1>2, LogAssumption DEF Renamed, LogTypeOK
<1> HIDE DEF k
(* Where each file went, and where each came from.                         *)
<1>6. \A i \in DOMAIN files : \E j \in DOMAIN files' : files'[j] = files[i]
  BY <1>1, <1>2 DEF Renamed
<1>7. \A j \in DOMAIN files' : \E i \in DOMAIN files :
         files'[j] = files[i] /\ (j = i \/ (j = k + 1 /\ i = k))
  BY <1>1, <1>2 DEF Renamed
<1>8. NewestKept'
  <2>1. ASSUME NEW j \in DOMAIN files', NEW n \in files'[j].lines, NEW later \in n..Len(trail')
        PROVE  \E i \in DOMAIN files' : later \in files'[i].lines
    BY <1>2, <1>6, <1>7 DEF NewestKept
  <2>2. ASSUME NEW i \in DOMAIN files', NEW j \in DOMAIN files', i < j,
               NEW newer \in files'[i].lines, NEW older \in files'[j].lines
        PROVE  older < newer
    <3>1. PICK p \in DOMAIN files : files'[i] = files[p] /\ (i = p \/ (i = k + 1 /\ p = k))
      BY <1>7
    <3>2. PICK q \in DOMAIN files : files'[j] = files[q] /\ (j = q \/ (j = k + 1 /\ q = k))
      BY <1>7
    <3>3. p \in Nat /\ q \in Nat /\ k \in Nat /\ q # k + 1 /\ p # k + 1 /\ i # k
      BY <1>1, <1>5, LogAssumption DEF LogTypeOK
    <3>4. p < q
      BY <3>1, <3>2, <3>3, <2>2
    <3> QED
      BY <3>1, <3>2, <3>4 DEF NewestKept
  <2> QED
    BY <2>1, <2>2 DEF NewestKept
<1>9. FilesBounded' /\ LinesWritten'
  BY <1>2, <1>7 DEF FilesBounded, LinesWritten
<1>10. LogTypeOK'
  BY <1>2, <1>4, <1>5 DEF LogTypeOK
<1>11. WriterOnCourse'
  <2>1. CASE k = 0
    BY <2>1, <1>4, <1>5 DEF WriterOnCourse, Fits
  <2>2. CASE k # 0
    <3>1. k \in Nat /\ writer'.slot + 1 = k /\ writer'.slot < Backups
      BY <1>1, <1>4, <2>2, LogAssumption
    <3> QED
      BY <2>2, <3>1, <1>4, <1>5 DEF WriterOnCourse
  <2> QED
    BY <2>1, <2>2
<1> QED
  BY <1>8, <1>9, <1>10, <1>11

(* A whole line reaches the end of the live file.                          *)
LEMMA WholeLineKeeps ==
    ASSUME LogInv, writer # Unlocked, writer.pc = "append", LineWritten,
           writer' = Unlocked, UNCHANGED <<rotations, cut, fragments>>
    PROVE  LogInv'
<1> USE DEF LogInv
<1> DEFINE n == Len(trail) + 1
<1>1. /\ writer \in Writing /\ writer.line \in Line
      /\ SizeOf[writer.line] \in Nat \ {0} /\ n \in Nat \ {0}
  BY LogAssumption DEF LogTypeOK, Writing
<1>2. Live \in File /\ Live.lines \subseteq 1..Len(trail)
  BY DEF Live, Empty, File, LogTypeOK, LinesWritten
<1>3. /\ trail' = Append(trail, [line |-> writer.line, legible |-> ~Live.torn])
      /\ [line |-> writer.line, legible |-> ~Live.torn] \in [line: Line, legible: BOOLEAN]
  BY <1>1, <1>2 DEF LineWritten, File
<1>4. trail' \in Seq([line: Line, legible: BOOLEAN]) /\ Len(trail') = n
  BY <1>3 DEF LogTypeOK
<1>5. /\ DOMAIN files' = DOMAIN files \cup {0}
      /\ files'[0] = [lines |-> Live.lines \cup {n}, bytes |-> Live.bytes + SizeOf[writer.line],
                      torn |-> FALSE]
      /\ \A k \in DOMAIN files : k # 0 => files'[k] = files[k]
      /\ files' = [k \in DOMAIN files' |-> files'[k]]
  BY DEF LineWritten, WithLive
<1>6. files'[0] \in File
  BY <1>1, <1>2, <1>5 DEF File
<1>7. LogTypeOK'
  <2>1. \A k \in DOMAIN files' : files'[k] \in File
    BY <1>5, <1>6 DEF LogTypeOK
  <2>2. files' \in [DOMAIN files' -> File]
    BY <2>1, <1>5
  <2>3. DOMAIN files' \subseteq 0..Backups
    BY <1>5, LogAssumption DEF LogTypeOK
  <2> QED
    BY <2>2, <2>3, <1>4 DEF LogTypeOK
<1>8. LinesWritten'
  BY <1>1, <1>2, <1>4, <1>5 DEF LinesWritten, LogTypeOK
<1>9. FilesBounded'
  <2>1. \/ files'[0].bytes <= MaxBytes
        \/ files'[0].bytes <= SizeOf[writer.line]
    BY <1>1, <1>2, <1>5, LogAssumption DEF WriterOnCourse, Fits, Live, Empty, File
  <2> QED
    BY <2>1, <1>1, <1>5 DEF FilesBounded
<1>10. \A k \in DOMAIN files : \A l \in files[k].lines : l \in files'[k].lines /\ k \in DOMAIN files'
  BY <1>5 DEF Live
<1>11. \A k \in DOMAIN files' : \A l \in files'[k].lines :
          (k = 0 /\ l = n) \/ (k \in DOMAIN files /\ l \in files[k].lines)
  BY <1>5 DEF Live, Empty
<1>12. \A k \in DOMAIN files : \A l \in files[k].lines : l \in Nat /\ l < n
  BY DEF LinesWritten, LogTypeOK
<1>13. 0 \in DOMAIN files' /\ n \in files'[0].lines
  BY <1>5
<1> HIDE DEF n
<1>14. NewestKept'
  <2>1. ASSUME NEW k \in DOMAIN files', NEW l \in files'[k].lines, NEW later \in l..Len(trail')
        PROVE  \E j \in DOMAIN files' : later \in files'[j].lines
    <3>1. CASE later = n
      BY <3>1, <1>13
    <3>2. CASE later # n
      <4>1. k \in DOMAIN files /\ l \in files[k].lines /\ l \in Nat
        BY <3>2, <1>1, <1>4, <1>11, <1>12
      <4>2. later \in l..Len(trail)
        BY <4>1, <3>2, <1>1, <1>4 DEF n, LogTypeOK
      <4>3. PICK j \in DOMAIN files : later \in files[j].lines
        BY <4>1, <4>2 DEF NewestKept
      <4> QED
        BY <4>3, <1>10
    <3> QED
      BY <3>1, <3>2
  <2>2. ASSUME NEW i \in DOMAIN files', NEW j \in DOMAIN files', i < j,
               NEW newer \in files'[i].lines, NEW older \in files'[j].lines
        PROVE  older < newer
    <3>1. i \in Nat /\ j \in Nat /\ j # 0
      BY <2>2, <1>7 DEF LogTypeOK
    <3>2. j \in DOMAIN files /\ older \in files[j].lines
      BY <3>1, <1>11
    <3>3. (i = 0 /\ newer = n) \/ (i \in DOMAIN files /\ newer \in files[i].lines)
      BY <1>11
    <3> QED
      BY <2>2, <3>2, <3>3, <1>12 DEF NewestKept
  <2> QED
    BY <2>1, <2>2 DEF NewestKept
<1>15. WriterOnCourse'
  BY DEF WriterOnCourse
<1> QED
  BY <1>7, <1>8, <1>9, <1>14, <1>15

(* A fragment, an empty file or nothing is left; no line moves.            *)
LEMMA CutKeeps ==
    ASSUME LogInv, WriteCut
    PROVE  LogInv'
<1> USE DEF LogInv
<1>1. /\ writer \in Writing /\ writer # Unlocked /\ writer' = Unlocked
      /\ rotations' = rotations /\ cut' \in Nat
  BY DEF WriteCut, LogTypeOK
<1>5. fragments' \in Nat
  <2>1. fragments' = fragments \/ fragments' = fragments + 1
    BY DEF WriteCut, AppendCut
  <2> QED
    BY <2>1 DEF LogTypeOK
<1>2. CASE UNCHANGED <<files, trail>>
  BY <1>1, <1>2, <1>5 DEF LogTypeOK, NewestKept, FilesBounded, LinesWritten, WriterOnCourse
<1>3. CASE writer.pc = "append" /\ LineWritten /\ UNCHANGED fragments
  BY <1>1, <1>3, WholeLineKeeps DEF WriteCut
<1>4. ASSUME writer.pc = "append", UNCHANGED trail,
             NEW n \in 0..(SizeOf[writer.line] - 1),
             files' = WithLive([Live EXCEPT !.bytes = @ + n, !.torn = @ \/ n > 0])
      PROVE  LogInv'
  <2>1. writer.line \in Line /\ SizeOf[writer.line] \in Nat \ {0} /\ n \in Nat
        /\ n < SizeOf[writer.line]
    BY <1>1, LogAssumption DEF Writing
  <2>2. Live \in File
    BY DEF Live, Empty, File, LogTypeOK
  <2>3. /\ DOMAIN files' = DOMAIN files \cup {0}
        /\ files'[0] = [Live EXCEPT !.bytes = @ + n, !.torn = @ \/ n > 0]
        /\ \A k \in DOMAIN files : k # 0 => files'[k] = files[k]
        /\ files' = [k \in DOMAIN files' |-> files'[k]]
    BY <1>4 DEF WithLive
  <2>4. /\ files'[0] \in File /\ files'[0].lines = Live.lines
        /\ files'[0].bytes = Live.bytes + n
    <3>1. Live.torn \in BOOLEAN /\ (n > 0) \in BOOLEAN
      BY <2>2 DEF File
    <3>2. (Live.torn \/ n > 0) \in BOOLEAN
      BY <3>1
    <3>3. files'[0].bytes = Live.bytes + n /\ files'[0].lines = Live.lines
      BY <2>2, <2>3 DEF File
    <3>4. Live.bytes + n \in Nat
      BY <2>1, <2>2 DEF File
    <3>5. \A torn \in BOOLEAN, bytes \in Nat :
             [Live EXCEPT !.bytes = bytes, !.torn = torn] \in File
      BY <2>2 DEF File
    <3> QED
      BY <2>3, <3>2, <3>3, <3>4, <3>5
  <2>5. /\ \A k \in DOMAIN files : files'[k].lines = files[k].lines
        /\ \A k \in DOMAIN files' : k \in DOMAIN files \/ files'[k].lines = {}
        /\ DOMAIN files \subseteq DOMAIN files'
    BY <2>3, <2>4 DEF Live, Empty
  <2>6. LogTypeOK'
    <3>1. \A k \in DOMAIN files' : files'[k] \in File
      BY <2>3, <2>4 DEF LogTypeOK
    <3>2. files' \in [DOMAIN files' -> File]
      BY <3>1, <2>3
    <3>3. DOMAIN files' \subseteq 0..Backups
      BY <2>3, LogAssumption DEF LogTypeOK
    <3> QED
      BY <1>1, <1>4, <1>5, <3>2, <3>3 DEF LogTypeOK
  <2>7. NewestKept' /\ LinesWritten'
    BY <1>4, <2>5 DEF NewestKept, LinesWritten
  <2>8. FilesBounded'
    <3>1. \/ files'[0].bytes <= MaxBytes
          \/ files'[0].bytes <= SizeOf[writer.line]
      BY <1>1, <1>4, <2>1, <2>2, <2>4, LogAssumption
         DEF WriterOnCourse, Fits, Live, Empty, File
    <3> QED
      BY <3>1, <2>1, <2>3 DEF FilesBounded
  <2> QED
    BY <2>6, <2>7, <2>8, <1>1 DEF WriterOnCourse
<1> QED
  BY <1>2, <1>3, <1>4 DEF WriteCut, AppendCut

(* Any step of any write, for whatever module takes it.                    *)
THEOREM LogStep ==
    ASSUME LogInv, [LogNext]_logVars
    PROVE  LogInv'
<1>1. CASE \E c \in Call, line \in Line : BeginWrite(c, line)
  BY <1>1, BeginKeeps
<1>2. CASE UnlinkOldest
  BY <1>2, UnlinkKeeps
<1>3. CASE ShiftUp
  BY <1>3, ShiftKeeps
<1>4. CASE AppendLine
  BY <1>4, WholeLineKeeps DEF AppendLine
<1>5. CASE WriteCut
  BY <1>5, CutKeeps
<1>6. CASE UNCHANGED logVars
  BY <1>6 DEF LogInv, logVars, LogTypeOK, NewestKept, FilesBounded, LinesWritten,
     WriterOnCourse, Fits
<1> QED
  BY <1>1, <1>2, <1>3, <1>4, <1>5, <1>6 DEF LogNext

-----------------------------------------------------------------------------
(* The backups are finitely many, and counting them follows the files.     *)
LEMMA KeptCounts ==
    ASSUME LogTypeOK
    PROVE  /\ IsFiniteSet(DOMAIN files \ {0}) /\ Kept \in Nat
           /\ \A k \in DOMAIN files : k \in Nat /\ k <= Backups
<1>1. IsFiniteSet(0..Backups)
  BY FS_Interval, LogAssumption
<1>2. DOMAIN files \ {0} \in SUBSET (0..Backups)
  BY DEF LogTypeOK
<1>3. IsFiniteSet(DOMAIN files \ {0})
  BY <1>1, <1>2, FS_Subset
<1>4. Kept \in Nat
  BY <1>3, FS_CardinalityType DEF Kept
<1> QED
  BY <1>3, <1>4, LogAssumption DEF LogTypeOK

LEMMA HolesStart == LogInit => HolesCounted
<1> SUFFICES ASSUME LogInit PROVE HolesCounted
  OBVIOUS
<1>1. DOMAIN files = {}
  BY DEF LogInit
<1>2. LogTypeOK
  BY LogStarts DEF LogInv
<1> QED
  BY <1>1, <1>2, KeptCounts DEF LogInit, HolesCounted

LEMMA HolesUnlink ==
    ASSUME LogInv, HolesCounted, UnlinkOldest
    PROVE  HolesCounted'
<1>1. LogTypeOK /\ LogTypeOK'
  BY UnlinkKeeps DEF LogInv
<1>2. /\ Kept \in Nat /\ IsFiniteSet(DOMAIN files \ {0})
      /\ \A k \in DOMAIN files : k \in Nat /\ k <= Backups
  BY <1>1, KeptCounts
<1>3. DOMAIN files' = DOMAIN files \ {Backups}
  BY DEF UnlinkOldest, Only
<1>4. Kept' = Cardinality((DOMAIN files \ {0}) \ {Backups})
  <2>1. DOMAIN files' \ {0} = (DOMAIN files \ {0}) \ {Backups}
    BY <1>3
  <2> QED
    BY <2>1 DEF Kept
<1>5. Kept' = IF Backups \in DOMAIN files \ {0} THEN Kept - 1 ELSE Kept
  BY <1>2, <1>4, FS_RemoveElement DEF Kept
<1>6. /\ writer # Unlocked /\ writer.pc = "unlink" /\ writer \in Writing
      /\ writer' = [writer EXCEPT !.pc = "shift", !.slot = Backups - 1]
      /\ cut' = cut /\ rotations' = rotations /\ cut \in Nat /\ rotations \in Nat
  BY <1>1 DEF UnlinkOldest, LogTypeOK
<1>7. writer' # Unlocked /\ writer'.pc = "shift" /\ writer'.slot = Backups - 1
  <2>1. Backups - 1 \in 0..Backups
    BY LogAssumption
  <2>2. writer' \in Writing
    BY <2>1, <1>6 DEF Writing
  <2> QED
    BY <2>2, <1>6, LogAssumption DEF Writing
<1>8. /\ \A k \in DOMAIN files : k <= Kept + cut
      /\ Kept + cut >= rotations \/ Kept + cut >= Backups
      /\ 0 \in DOMAIN files
  BY <1>6 DEF HolesCounted
<1>9. 0 \in DOMAIN files'
  BY <1>3, <1>8, LogAssumption
<1>10. \/ Kept' + cut' + 1 >= Backups
       \/ /\ Kept' + cut' >= rotations'
          /\ \A k \in DOMAIN files' : k <= Kept' + cut' + 1 /\ k <= Kept' + cut'
  <2>1. CASE Backups \in DOMAIN files
    BY <2>1, <1>2, <1>5, <1>6, <1>8, LogAssumption
  <2>2. CASE Backups \notin DOMAIN files
    BY <2>2, <1>2, <1>3, <1>5, <1>6, <1>8, LogAssumption
  <2> QED
    BY <2>1, <2>2
<1> QED
  BY <1>7, <1>9, <1>10 DEF HolesCounted

LEMMA HolesShift ==
    ASSUME LogInv, HolesCounted, ShiftUp
    PROVE  HolesCounted'
<1> DEFINE k == writer.slot
<1>1. LogTypeOK /\ LogTypeOK'
  BY ShiftKeeps DEF LogInv
<1>2. /\ Kept \in Nat /\ IsFiniteSet(DOMAIN files \ {0})
      /\ \A j \in DOMAIN files : j \in Nat /\ j <= Backups
      /\ \A j \in DOMAIN files' : j \in Nat /\ j <= Backups
  BY <1>1, KeptCounts, LogAssumption DEF LogTypeOK
<1>3. /\ writer # Unlocked /\ writer.pc = "shift" /\ writer \in Writing
      /\ k \in Nat /\ k < Backups /\ k + 1 \notin DOMAIN files /\ 0 \in DOMAIN files
      /\ cut' = cut /\ cut \in Nat /\ rotations \in Nat
  BY <1>1, LogAssumption DEF ShiftUp, LogInv, LogTypeOK, WriterOnCourse, HolesCounted, Writing
<1>4. DOMAIN files' = IF k \in DOMAIN files THEN (DOMAIN files \ {k}) \cup {k + 1}
                      ELSE DOMAIN files
  BY DEF ShiftUp, Renamed
<1>5. \/ /\ k = 0 /\ writer' = [writer EXCEPT !.pc = "append"]
         /\ rotations' = rotations + 1
      \/ /\ k # 0 /\ writer' = [writer EXCEPT !.slot = k - 1]
         /\ rotations' = rotations
  BY DEF ShiftUp
<1>6. \/ Kept + cut + 1 >= Backups
      \/ /\ Kept + cut >= rotations
         /\ \A j \in DOMAIN files : j <= Kept + cut + 1 /\ (j <= k => j <= Kept + cut)
  BY <1>3 DEF HolesCounted
<1>7. CASE k = 0
  <2>1. DOMAIN files' \ {0} = (DOMAIN files \ {0}) \cup {1}
    BY <1>3, <1>4, <1>7
  <2>2. Kept' = Kept + 1
    <3>1. 1 \notin DOMAIN files \ {0}
      BY <1>3, <1>7
    <3>2. Cardinality((DOMAIN files \ {0}) \cup {1}) = Kept + 1
      BY <3>1, <1>2, FS_AddElement DEF Kept
    <3> QED
      BY <2>1, <3>2 DEF Kept
  <2>3. writer'.pc = "append" /\ rotations' = rotations + 1
    BY <1>3, <1>5, <1>7 DEF Writing
  <2>4. \A j \in DOMAIN files' : j \in DOMAIN files \/ j = 1
    BY <1>4, <1>7
  <2>5. /\ \A j \in DOMAIN files' : j <= Kept' + cut'
        /\ Kept' + cut' >= rotations' \/ Kept' + cut' >= Backups
    BY <2>2, <2>3, <2>4, <1>2, <1>3, <1>6, LogAssumption
  <2> QED
    BY <2>3, <2>5 DEF HolesCounted
<1>8. CASE k # 0
  <2>1. Kept' = Kept
    <3>1. CASE k \in DOMAIN files
      <4>1. DOMAIN files' \ {0} = ((DOMAIN files \ {0}) \ {k}) \cup {k + 1}
        BY <3>1, <1>3, <1>4, <1>8
      <4>2. /\ IsFiniteSet((DOMAIN files \ {0}) \ {k})
            /\ Cardinality((DOMAIN files \ {0}) \ {k}) = Kept - 1
        <5>1. k \in DOMAIN files \ {0}
          BY <3>1, <1>8
        <5> HIDE DEF k
        <5> QED
          BY <5>1, <1>2, FS_RemoveElement DEF Kept
      <4>3. k + 1 \notin (DOMAIN files \ {0}) \ {k}
        BY <1>3
      <4>4. Cardinality(((DOMAIN files \ {0}) \ {k}) \cup {k + 1}) = (Kept - 1) + 1
        BY <4>2, <4>3, FS_AddElement
      <4> QED
        <5>1. Cardinality(DOMAIN files' \ {0}) = (Kept - 1) + 1
          BY <4>1, <4>4
        <5> HIDE DEF k
        <5>2. Kept' = (Kept - 1) + 1
          BY <5>1 DEF Kept
        <5> QED
          BY <5>2, <1>2
    <3>2. CASE k \notin DOMAIN files
      BY <3>2, <1>4 DEF Kept
    <3> QED
      BY <3>1, <3>2
  <2>2. /\ writer'.pc = "shift" /\ writer'.slot = k - 1 /\ rotations' = rotations
        /\ writer' # Unlocked
    <3>1. k - 1 \in 0..Backups
      BY <1>3, <1>8, LogAssumption
    <3>2. writer' \in Writing
      BY <3>1, <1>3, <1>5, <1>8 DEF Writing
    <3> QED
      BY <3>2, <1>3, <1>5, <1>8, LogAssumption DEF Writing
  <2>3. \A j \in DOMAIN files' : \/ j \in DOMAIN files /\ j # k
                                 \/ j = k + 1 /\ k \in DOMAIN files
    BY <1>4
  <2>4. \/ Kept' + cut' + 1 >= Backups
        \/ /\ Kept' + cut' >= rotations'
           /\ \A j \in DOMAIN files' : j <= Kept' + cut' + 1 /\ (j <= k - 1 => j <= Kept' + cut')
    BY <2>1, <2>2, <2>3, <1>2, <1>3, <1>6, LogAssumption
  <2>5. 0 \in DOMAIN files'
    BY <1>3, <1>4, <1>8
  <2> QED
    BY <2>2, <2>4, <2>5 DEF HolesCounted
<1> QED
  BY <1>7, <1>8

(* An append, whole or cut, touches the live file only; a rotation cut     *)
(* short is counted.                                                       *)
LEMMA HolesWrite ==
    ASSUME LogInv, HolesCounted, AppendLine \/ WriteCut
    PROVE  HolesCounted'
<1>1. /\ Kept \in Nat /\ cut \in Nat /\ rotations \in Nat
      /\ \A k \in DOMAIN files : k \in Nat /\ k <= Backups
  BY KeptCounts DEF LogInv, LogTypeOK
<1>2. /\ writer # Unlocked /\ writer' = Unlocked /\ rotations' = rotations
      /\ writer \in Writing
  BY DEF AppendLine, WriteCut, LogInv, LogTypeOK
<1>3. /\ DOMAIN files' = DOMAIN files \/ DOMAIN files' = DOMAIN files \cup {0}
      /\ \/ writer.pc = "append" /\ cut' = cut
         \/ cut' = cut + 1 /\ files' = files
  BY DEF AppendLine, WriteCut, AppendCut, LineWritten, WithLive
<1>4. Kept' = Kept
  <2>1. DOMAIN files' \ {0} = DOMAIN files \ {0}
    BY <1>3
  <2> QED
    BY <2>1 DEF Kept
<1>5. /\ \A k \in DOMAIN files' : k <= Kept' + cut'
      /\ Kept' + cut' >= rotations' \/ Kept' + cut' >= Backups
  <2>1. CASE writer.pc = "append" /\ cut' = cut
    <3>1. /\ \A k \in DOMAIN files : k <= Kept + cut
          /\ Kept + cut >= rotations \/ Kept + cut >= Backups
      BY <2>1, <1>2 DEF HolesCounted
    <3> QED
      BY <3>1, <2>1, <1>1, <1>2, <1>3, <1>4
  <2>2. CASE cut' = cut + 1 /\ files' = files
    <3>1. \/ Kept + cut + 1 >= Backups
          \/ /\ Kept + cut >= rotations
             /\ \A k \in DOMAIN files : k <= Kept + cut + 1
      BY <1>1, <1>2, LogAssumption DEF HolesCounted
    <3> QED
      BY <3>1, <2>2, <1>1, <1>2, <1>4, LogAssumption
  <2> QED
    BY <2>1, <2>2, <1>3
<1> QED
  BY <1>2, <1>5 DEF HolesCounted

LEMMA HolesBegin ==
    ASSUME LogInv, HolesCounted, NEW c \in Call, NEW line \in Line, BeginWrite(c, line)
    PROVE  HolesCounted'
<1>1. /\ writer = Unlocked /\ writer' # Unlocked
      /\ writer'.pc = IF Fits(line) THEN "append" ELSE "unlink"
      /\ UNCHANGED <<files, rotations, cut>>
  BY LogAssumption DEF BeginWrite
<1>2. Kept' = Kept
  BY <1>1 DEF Kept
<1>3. ~Fits(line) => 0 \in DOMAIN files
  BY DEF Fits
<1> QED
  BY <1>1, <1>2, <1>3 DEF HolesCounted

THEOREM HolesStep ==
    ASSUME LogInv, HolesCounted, [LogNext]_logVars
    PROVE  HolesCounted'
<1>1. CASE \E c \in Call, line \in Line : BeginWrite(c, line)
  BY <1>1, HolesBegin
<1>2. CASE UnlinkOldest \/ ShiftUp \/ AppendLine \/ WriteCut
  BY <1>2, HolesUnlink, HolesShift, HolesWrite
<1>3. CASE UNCHANGED logVars
  BY <1>3 DEF logVars, HolesCounted, Kept
<1> QED
  BY <1>1, <1>2, <1>3 DEF LogNext

-----------------------------------------------------------------------------
LEMMA SpoiltCounts ==
    ASSUME LogTypeOK
    PROVE  IsFiniteSet(Spoilt) /\ Cardinality(Spoilt) \in Nat /\ Spoilt \subseteq 1..Len(trail)
<1>1. Len(trail) \in Nat /\ Spoilt \subseteq 1..Len(trail)
  BY DEF LogTypeOK, Spoilt
<1>2. IsFiniteSet(1..Len(trail))
  BY <1>1, FS_Interval
<1> QED
  BY <1>1, <1>2, FS_Subset, FS_CardinalityType

LEMMA FragmentsStart == LogInit => FragmentsCounted
<1> SUFFICES ASSUME LogInit PROVE FragmentsCounted
  OBVIOUS
<1>1. Spoilt = {} /\ ~Live.torn /\ fragments = 0
  BY DEF LogInit, Spoilt, Live, Empty
<1> QED
  BY <1>1, FS_EmptySet DEF FragmentsCounted

(* No line is written and the live file is not torn further.               *)
LEMMA FragmentsStand ==
    ASSUME LogTypeOK, FragmentsCounted, UNCHANGED <<trail, fragments>>, Live'.torn => Live.torn
    PROVE  FragmentsCounted'
<1>1. Spoilt' = Spoilt
  BY DEF Spoilt
<1>2. Cardinality(Spoilt) \in Nat /\ fragments \in Nat
  BY SpoiltCounts DEF LogTypeOK
<1> QED
  BY <1>1, <1>2 DEF FragmentsCounted

(* The line appended to a fragment is spoilt and the file whole again.     *)
LEMMA FragmentsWrite ==
    ASSUME LogTypeOK, FragmentsCounted, LineWritten, UNCHANGED fragments
    PROVE  FragmentsCounted'
<1> DEFINE n == Len(trail) + 1
<1>1. ~Live'.torn
  BY DEF LineWritten, WithLive, Live
<1>2. /\ IsFiniteSet(Spoilt) /\ Cardinality(Spoilt) \in Nat /\ n \notin Spoilt
      /\ fragments \in Nat /\ Len(trail) \in Nat
  BY SpoiltCounts DEF LogTypeOK
<1>3. Spoilt' = IF Live.torn THEN Spoilt \cup {n} ELSE Spoilt
  <2> DEFINE e == [line |-> writer.line, legible |-> ~Live.torn]
  <2>1. trail' = Append(trail, e) /\ (e.legible <=> ~Live.torn)
    BY DEF LineWritten
  <2>2. trail \in Seq([line: Line, legible: BOOLEAN])
    BY DEF LogTypeOK
  <2> HIDE DEF e
  <2>3. /\ Len(trail') = n /\ trail'[n] = e
        /\ \A i \in 1..Len(trail) : trail'[i] = trail[i]
    BY <2>1, <2>2
  <2> QED
    BY <2>1, <2>3, <1>2 DEF Spoilt
<1>4. Cardinality(Spoilt') = Cardinality(Spoilt) + (IF Live.torn THEN 1 ELSE 0)
  <2>1. CASE Live.torn
    <3>1. Cardinality(Spoilt \cup {n}) = Cardinality(Spoilt) + 1
      BY <1>2, FS_AddElement
    <3> QED
      BY <2>1, <3>1, <1>3
  <2>2. CASE ~Live.torn
    BY <2>2, <1>2, <1>3
  <2> QED
    BY <2>1, <2>2
<1> QED
  BY <1>1, <1>2, <1>4 DEF FragmentsCounted

(* A write cut short leaves a fragment, and it is counted.                 *)
LEMMA FragmentsCut ==
    ASSUME LogTypeOK, FragmentsCounted, WriteCut
    PROVE  FragmentsCounted'
<1>1. CASE UNCHANGED <<files, trail, fragments>>
  BY <1>1, FragmentsStand DEF Live
<1>2. CASE LineWritten /\ UNCHANGED fragments
  BY <1>2, FragmentsWrite
<1>3. ASSUME NEW n \in 0..(SizeOf[writer.line] - 1), UNCHANGED trail,
             files' = WithLive([Live EXCEPT !.bytes = @ + n, !.torn = @ \/ n > 0]),
             fragments' = IF n > 0 THEN fragments + 1 ELSE fragments
      PROVE  FragmentsCounted'
  <2>1. Live'.torn <=> Live.torn \/ n > 0
    <3>1. Live \in File
      BY DEF Live, Empty, File, LogTypeOK
    <3>2. Live' = [Live EXCEPT !.bytes = @ + n, !.torn = @ \/ n > 0]
      BY <1>3 DEF WithLive, Live
    <3> QED
      BY <3>1, <3>2 DEF File
  <2>2. CASE n > 0
    <3>1. Spoilt' = Spoilt
      BY <1>3 DEF Spoilt
    <3>2. Cardinality(Spoilt) \in Nat /\ fragments \in Nat
      BY SpoiltCounts DEF LogTypeOK
    <3> QED
      BY <3>1, <3>2, <2>2, <1>3 DEF FragmentsCounted
  <2>3. CASE ~(n > 0)
    BY <2>1, <2>3, <1>3, FragmentsStand
  <2> QED
    BY <2>2, <2>3
<1> QED
  BY <1>1, <1>2, <1>3 DEF WriteCut, AppendCut

THEOREM FragmentsStep ==
    ASSUME LogInv, FragmentsCounted, [LogNext]_logVars
    PROVE  FragmentsCounted'
<1>1. LogTypeOK
  BY DEF LogInv
<1>2. CASE (\E c \in Call, line \in Line : BeginWrite(c, line)) \/ UNCHANGED logVars
  <2>1. UNCHANGED <<files, trail, fragments>>
    BY <1>2 DEF BeginWrite, logVars
  <2> QED
    BY <1>1, <2>1, FragmentsStand DEF Live
<1>3. CASE UnlinkOldest
  <2>1. Live' = Live
    BY <1>3, LogAssumption DEF UnlinkOldest, Only, Live
  <2> QED
    BY <1>1, <1>3, <2>1, FragmentsStand DEF UnlinkOldest
<1>4. CASE ShiftUp
  <2> DEFINE k == writer.slot
  <2>1. files' = Renamed(k) /\ k \in Nat /\ UNCHANGED <<trail, fragments>>
    BY <1>1, <1>4, LogAssumption DEF ShiftUp, LogTypeOK, Writing
  <2>2. Live'.torn => Live.torn
    BY <2>1 DEF Renamed, Live, Empty
  <2> QED
    BY <1>1, <2>1, <2>2, FragmentsStand
<1>5. CASE AppendLine
  BY <1>1, <1>5, FragmentsWrite DEF AppendLine
<1>6. CASE WriteCut
  BY <1>1, <1>6, FragmentsCut
<1> QED
  BY <1>2, <1>3, <1>4, <1>5, <1>6 DEF LogNext
=============================================================================
