------------------------------ MODULE LogTail ------------------------------
(***************************************************************************)
(* ReadFromLog (src/utility/ros-log-utility.go): the end of a ROS log,     *)
(* read backwards in chunks while the node goes on writing to it.          *)
(*                                                                         *)
(* A file is its size and the set of offsets that hold a newline; offsets  *)
(* start at 0.  A line is the pair of the offset it starts at and the      *)
(* offset of the newline that ends it.  One step is one iteration of the   *)
(* loop: seek, read, split.  The chunk of 1024 bytes and the ten lines     *)
(* wanted are constants, so that small files show what large ones do.      *)
(***************************************************************************)
EXTENDS Integers, SequencesExt

CONSTANTS
    Chunk,      \* bufferSize (1024)
    Wanted,     \* lines to return (10)
    MaxSize     \* bound: bytes in the file

ASSUME TailAssumption ==
    /\ Chunk \in Nat \ {0}
    /\ Wanted \in Nat \ {0}
    /\ MaxSize \in Nat

VARIABLES
    size, newlines,     \* the file
    fileSize,           \* its size when it was opened
    pos, bufferSize,    \* where the next chunk is read, and how much of it
    lines,              \* the result so far, oldest line first
    reads,              \* the intervals read so far, newest first
    pc                  \* "closed", "open", "loop", "done", "eof", "nil"

fileVars == <<size, newlines>>
vars == <<size, newlines, fileSize, pos, bufferSize, lines, reads, pc>>

Init ==
    /\ size = 0
    /\ newlines = {}
    /\ fileSize = 0
    /\ pos = 0
    /\ bufferSize = 0
    /\ lines = <<>>
    /\ reads = <<>>
    /\ pc = "closed"

\* os.Open: the file may be any.
OpenFile ==
    /\ pc = "closed"
    /\ size' \in 0 .. MaxSize
    /\ newlines' \in SUBSET (0 .. size' - 1)
    /\ pc' = "open"
    /\ UNCHANGED <<fileSize, pos, bufferSize, lines, reads>>

\* The file cannot be opened: nil.
OpenFails ==
    /\ pc = "closed"
    /\ pc' = "nil"
    /\ UNCHANGED <<fileVars, fileSize, pos, bufferSize, lines, reads>>

\* The node appends to its log.
Append1 ==
    /\ pc # "closed"
    /\ size < MaxSize
    /\ size' = size + 1
    /\ newlines' \in {newlines, newlines \cup {size}}
    /\ UNCHANGED <<fileSize, pos, bufferSize, lines, reads, pc>>

\* Stat, and the offset of the first chunk.
Open ==
    /\ pc = "open"
    /\ fileSize' = size
    /\ bufferSize' = Chunk
    /\ pos' = IF size < Chunk THEN 0 ELSE size - Chunk
    /\ pc' = "loop"
    /\ UNCHANGED <<fileVars, lines, reads>>

\* One past the last byte the next read returns.
ChunkEnd == IF pos + bufferSize <= size THEN pos + bufferSize ELSE size

\* The newlines among the bytes at lo .. hi - 1.
NewlinesIn(lo, hi) == {n \in newlines : lo <= n /\ n < hi}

\* A set of offsets as the sequence in which a loop over the bytes meets them.
Ascending(offsets) ==
    CHOOSE s \in [1 .. Cardinality(offsets) -> offsets] :
        \A i, j \in DOMAIN s : i < j => s[i] < s[j]

\* Broken variant: a line starts with the newline that ends the one before.
SplitWithNewline(lo, hi) ==
    LET ends == Ascending(NewlinesIn(lo, hi))
    IN [i \in 1 .. Len(ends) |-> [from |-> IF i = 1 THEN lo ELSE ends[i - 1],
                                  to |-> ends[i]]]

\* Broken variant: the line that ends in the first newline is left out, as if a
\* chunk always started in the middle of one.
SplitInner(lo, hi) ==
    LET ends == Ascending(NewlinesIn(lo, hi))
    IN [i \in 1 .. Len(ends) - 1 |-> [from |-> ends[i] + 1, to |-> ends[i + 1]]]

\* tmpLines: what precedes the first newline counts as a line, what follows the
\* last one is dropped.
Split(lo, hi) ==
    LET ends == Ascending(NewlinesIn(lo, hi))
    IN [i \in 1 .. Len(ends) |-> [from |-> IF i = 1 THEN lo ELSE ends[i - 1] + 1,
                                  to |-> ends[i]]]

\* Broken variant: the last chunk keeps its size and overlaps the one before.
MoveBackFull(newPos) ==
    /\ pos' = IF newPos < 0 THEN 0 ELSE newPos
    /\ UNCHANGED bufferSize

\* Broken variant: the offset stays where it is when less than a chunk is left.
MoveBackStays(newPos) ==
    IF newPos < 0
    THEN bufferSize' = bufferSize + newPos /\ UNCHANGED pos
    ELSE pos' = newPos /\ UNCHANGED bufferSize

\* Broken variant: the last chunk is empty.
MoveBackEmpty(newPos) ==
    IF newPos < 0
    THEN bufferSize' = 0 /\ pos' = 0
    ELSE pos' = newPos /\ UNCHANGED bufferSize

\* Go back by a chunk, or by what is left in front of this one.
MoveBack(newPos) ==
    IF newPos < 0
    THEN bufferSize' = bufferSize + newPos /\ pos' = 0
    ELSE pos' = newPos /\ UNCHANGED bufferSize

\* Broken variant: one line less will do.
EnoughTooSoon(count) == count + 1 >= Wanted \/ pos = 0

\* The loop ends with enough lines, or at the front of the file.
Enough(count) == count >= Wanted \/ pos = 0

ReadChunk ==
    /\ pc = "loop"
    /\ pos < ChunkEnd
    /\ reads' = <<[from |-> pos, to |-> ChunkEnd]>> \o reads
    /\ lines' = Split(pos, ChunkEnd) \o lines
    /\ IF Enough(Len(lines'))
       THEN pc' = "done" /\ UNCHANGED <<pos, bufferSize>>
       ELSE MoveBack(pos - bufferSize) /\ UNCHANGED pc
    /\ UNCHANGED <<fileVars, fileSize>>

\* Broken variant: at the end of the file it tries again.
ReadEOFRetries ==
    /\ pc = "loop"
    /\ pos >= ChunkEnd
    /\ UNCHANGED vars

\* Read returns io.EOF: nil, with an error in the shim's own log.
ReadEOF ==
    /\ pc = "loop"
    /\ pos >= ChunkEnd
    /\ pc' = "eof"
    /\ UNCHANGED <<fileVars, fileSize, pos, bufferSize, lines, reads>>

\* Stat or Read returns another error, as Read does for a directory: nil, and
\* what was read before is lost.
ReadFails ==
    /\ pc \in {"open", "loop"}
    /\ pc' = "nil"
    /\ fileSize' = 0 /\ pos' = 0 /\ bufferSize' = 0 /\ lines' = <<>> /\ reads' = <<>>
    /\ UNCHANGED fileVars

\* One call of ReadFromLog, from its beginning to its return, if no read fails.
ReadFromLog == OpenFile \/ OpenFails \/ Open \/ ReadChunk \/ ReadEOF

Next == Append1 \/ ReadFails \/ ReadFromLog

Spec == Init /\ [][Next]_vars

-----------------------------------------------------------------------------
(***************************************************************************)
(* Properties.                                                             *)
(***************************************************************************)
\* The newlines that end the lines of the result.
Ends == {lines[i].to : i \in DOMAIN lines}

Intervals == [from : 0 .. MaxSize, to : 0 .. MaxSize]

\* Offsets stay inside the file and a chunk is never empty or negative, the
\* shrunken one at the front of the file included.
TypeOK ==
    /\ size \in 0 .. MaxSize
    /\ newlines \subseteq 0 .. size - 1
    /\ fileSize \in 0 .. size
    /\ pos \in 0 .. MaxSize
    /\ bufferSize \in 0 .. Chunk
    /\ pc \in {"loop", "done"} => bufferSize > 0
    /\ lines \in Seq(Intervals)
    /\ reads \in Seq(Intervals)
    /\ pc \in {"closed", "open", "loop", "done", "eof", "nil"}

\* The chunks tile the end of the file: each one ends where the one read before
\* it begins, so no byte is skipped or read twice on the way to the front.
ChunksTile ==
    \A i \in 1 .. Len(reads) - 1 : reads[i].to = reads[i + 1].from

\* The lines come in the order of the file and none is missing: each newline of
\* the part that was read ends exactly one of them.
LinesInOrder ==
    /\ \A i \in DOMAIN lines : lines[i].from <= lines[i].to
    /\ \A i, j \in DOMAIN lines : i < j => lines[i].to < lines[j].from
    /\ Ends = IF reads = <<>> THEN {}
              ELSE NewlinesIn(reads[1].from, reads[Len(reads)].to)

\* A line that does not begin where one ended begins where a chunk begins: a loss
\* is confined to the line in which two chunks meet.
CutOnlyAtChunks ==
    \A i \in DOMAIN lines :
        \/ lines[i].from - 1 \in newlines
        \/ \E j \in DOMAIN reads : reads[j].from = lines[i].from

\* However much the node writes meanwhile, there are only as many reads as the
\* file had chunks when it was opened, the last one perhaps not full.
ReadsBounded ==
    Len(reads) > 1 => (Len(reads) - 1) * Chunk < fileSize

\* ReadFromLog returns, although the node may keep writing to the file it goes
\* backwards through.
ReadEnds == pc = "open" ~> pc \in {"done", "eof", "nil"}

\* To its caller ReadFromLog is one read of the end of the file (module
\* TailReader), although it makes several and the file grows between them.  That
\* the first read meets the end of an empty file is a reply without lines.
Phase ==
    CASE pc = "closed" -> "idle"
      [] pc = "open"   -> "open"
      [] pc = "loop"   -> "reading"
      [] pc = "done"   -> "returned"
      [] pc = "eof"    -> "returned"
      [] pc = "nil"    -> "failed"

Reply == IF pc = "done" THEN Ends ELSE {}

Reader == INSTANCE TailReader WITH
    phase <- Phase, since <- fileSize, reply <- Reply

ImplementsReader == Reader!Spec

-----------------------------------------------------------------------------
(***************************************************************************)
(* "it will read the last 10 lines from the log files and return them      *)
(* returns []string (the last 10 lines)"                                   *)
(***************************************************************************)
\* Each line is returned from its beginning, also where two chunks meet in it.
WholeLines ==
    pc = "done" =>
        \A i \in 1 .. Len(lines) :
            lines[i].from = 0 \/ lines[i].from - 1 \in newlines
=============================================================================
