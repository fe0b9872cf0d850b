----------------------------- MODULE RotatingLog -----------------------------
(***************************************************************************)
(* internal/logging, RotatingFileWriter: a logger's lines go to a file     *)
(* named after the second it was opened in; when the next line would make  *)
(* it too long another is opened, and the oldest files beyond maxFiles are *)
(* removed.  A second opening within a second appends to the same file and *)
(* counts its size from zero.  A later process goes on with the files that *)
(* are there.  The lock makes a Write one step.                            *)
(***************************************************************************)
EXTENDS Naturals, Sequences, SequencesExt

CONSTANTS MaxSize,  \* maxSize
          MaxFiles, \* maxFiles
          Lengths,  \* the lengths of lines
          MaxLines, \* bound on the lines
          LastSecond \* bound on the clock

\* NewRotatingFileWriter replaces settings that are not positive.
ASSUME LogAssumption ==
    /\ MaxSize \in Nat \ {0}
    /\ MaxFiles \in Nat \ {0}
    /\ Lengths \subseteq Nat \ {0}
    /\ MaxLines \in Nat
    /\ LastSecond \in Nat

VARIABLES
    second,
    logs,        \* the files, in the order of their last change
    current,     \* "none", "open" or "closed"; it is the last file
    currentSize,
    lines,       \* history: the lengths of the lines written, by number
    tried        \* bound: the calls of Write

logVars == <<second, logs, current, currentSize, lines, tried>>

\* "opened" counts how often the file was opened, "size" is what it is long, "torn"
\* how much of that is of lines whose Write failed, "held" the numbers of the others.
LogFile(at) == [stamp |-> at, opened |-> 1, size |-> 0, torn |-> 0, held |-> <<>>]

\* The newest maxFiles of the files.
Newest(all) == IF Len(all) > MaxFiles THEN SubSeq(all, Len(all) - MaxFiles + 1, Len(all)) ELSE all

\* Mutant: the file is truncated when it is opened.
OpenedEmpty ==
    IF Last(logs).stamp = second THEN [logs EXCEPT ![Len(logs)] = LogFile(second)]
    ELSE Newest(Append(logs, LogFile(second)))

\* Close, open under the name of this second, remove the oldest.  The clock does
\* not go back: if there is a file of this second, it is the last.
Opened ==
    IF Last(logs).stamp = second THEN [logs EXCEPT ![Len(logs)].opened = @ + 1]
    ELSE Newest(Append(logs, LogFile(second)))

LogInit ==
    /\ second = 0
    /\ logs = <<LogFile(0)>>
    /\ current = "open"
    /\ currentSize = 0
    /\ lines = <<>>
    /\ tried = 0

\* A line of this length is written at the end of the last of these files.
Appended(files, length, size) ==
    /\ lines' = Append(lines, length)
    /\ logs' = [files EXCEPT ![Len(files)].held = Append(@, Len(lines')),
                             ![Len(files)].size = @ + length]
    /\ current' = "open"
    /\ currentSize' = size + length

\* Mutant: the line itself is not counted.
TooLongAlready(length) == currentSize > MaxSize

TooLong(length) == currentSize + length > MaxSize

\* A missing file is opened, and a full one replaced: both when the line is
\* longer than any file, but within a second that is one file.
WriteLine ==
    /\ tried < MaxLines
    /\ tried' = tried + 1
    /\ \E length \in Lengths :
          \/ /\ current = "none" \/ TooLong(length)
             /\ Appended(Opened, length, 0)
          \/ /\ current = "open"
             /\ ~TooLong(length)
             /\ Appended(logs, length, currentSize)
          \/ /\ current = "closed"  \* an error, until the file seems to be full
             /\ ~TooLong(length)
             /\ UNCHANGED <<logs, current, currentSize, lines>>
    /\ UNCHANGED second

\* Some bytes of a line end these files, and nothing counts them.
CutShort(files, bytes, size) ==
    /\ logs' = [files EXCEPT ![Len(files)].size = @ + bytes, ![Len(files)].torn = @ + bytes]
    /\ current' = "open"
    /\ currentSize' = size

\* current.Write fails in the middle of the line, perhaps after a rotation.
WriteShort ==
    /\ tried < MaxLines
    /\ tried' = tried + 1
    /\ \E length \in Lengths : \E bytes \in 0..(length - 1) :
          \/ /\ current = "none" \/ TooLong(length)
             /\ CutShort(Opened, bytes, 0)
          \/ /\ current = "open"
             /\ ~TooLong(length)
             /\ CutShort(logs, bytes, currentSize)
    /\ UNCHANGED <<second, lines>>

\* The directory or the file cannot be made: the line is lost.
RotateFails ==
    /\ tried < MaxLines
    /\ tried' = tried + 1
    /\ current = "none" \/ \E length \in Lengths : TooLong(length)
    /\ current' = "none"
    /\ UNCHANGED <<second, logs, currentSize, lines>>

CloseLog ==
    /\ current = "open"
    /\ current' = "closed"
    /\ UNCHANGED <<second, logs, currentSize, lines, tried>>

\* Another process: NewRotatingFileWriter opens a file at once.
LogRestart ==
    /\ tried < MaxLines
    /\ tried' = tried + 1
    /\ logs' = Opened
    /\ current' = "open"
    /\ currentSize' = 0
    /\ UNCHANGED <<second, lines>>

NextSecond ==
    /\ second < LastSecond
    /\ second' = second + 1
    /\ UNCHANGED <<logs, current, currentSize, lines, tried>>

LogNext == WriteLine \/ WriteShort \/ RotateFails \/ CloseLog \/ LogRestart \/ NextSecond

LogSpec == LogInit /\ [][LogNext]_logVars

(***************************************************************************)
(* Properties.                                                             *)
(***************************************************************************)
\* The files hold the newest lines, without a gap and in order, whether they
\* were opened once, twice in a second or by several processes; and the oldest
\* are missing only when all the files there may be are there.
InOrder(s) == \A m, n \in DOMAIN s : m < n => s[m] < s[n]

NewestLinesAreKept ==
    /\ Len(logs) <= MaxFiles
    /\ \A i \in DOMAIN logs : InOrder(logs[i].held)
    /\ \A i, j \in DOMAIN logs : i < j =>
          \A m \in Range(logs[i].held), n \in Range(logs[j].held) : m < n
    /\ \E gone \in 0..Len(lines) :
          /\ UNION {Range(logs[i].held) : i \in DOMAIN logs} = (gone + 1)..Len(lines)
          /\ gone > 0 => Len(logs) = MaxFiles

\* A file is no longer than maxSize for each time it was opened (logger.go:452: a
\* rotation within a second opens the same file and counts from zero), or than one
\* of its lines if that is longer; what failed writes left in it (logger.go:427: it
\* is not counted) comes on top.
LogFilesAreShort ==
    \A i \in DOMAIN logs :
        \E bound \in {MaxSize} \cup {lines[n] : n \in Range(logs[i].held)} :
            logs[i].size <= bound * logs[i].opened + logs[i].torn
==============================================================================
