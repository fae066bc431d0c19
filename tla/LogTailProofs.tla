--------------------------- MODULE LogTailProofs ---------------------------
(***************************************************************************)
(* What ReadFromLog returns, for every size of chunk and file, every       *)
(* number of lines wanted, and whatever the node writes meanwhile: the     *)
(* chunks tile the end of the log, the lines are all that end there, in    *)
(* order, and the loop ends after as many reads as there were chunks.      *)
(***************************************************************************)
EXTENDS LogLinesProofs

\* The chunks begin at these offsets.
Begun(rs) == {rs[j].from : j \in 1 .. Len(rs)}

\* While the loop runs, the next chunk ends where the last one began, and only
\* full chunks have been read: MoveBack takes what is left in front of them.
LoopInv ==
    pc = "loop" =>
        /\ bufferSize = Chunk \/ pos = 0
        /\ IF reads = <<>>
           THEN /\ bufferSize = Chunk
                /\ pos = IF fileSize < Chunk THEN 0 ELSE fileSize - Chunk
           ELSE /\ pos + bufferSize = reads[1].from
                /\ reads[1].from + Len(reads) * Chunk = fileSize

\* What has been read is one part of the file, from the last chunk read to the end
\* of the first one, and the result has the lines of this part.
ReadInv ==
    /\ pc \in {"closed", "open"} => reads = <<>> /\ fileSize = 0
    /\ IF reads = <<>>
       THEN lines = <<>>
       ELSE LET lo == reads[1].from
                hi == reads[Len(reads)].to
            IN /\ lo <= hi /\ fileSize <= hi /\ hi <= size
               /\ Covers(lines, lo, hi, newlines)
               /\ Begins(lines, Begun(reads), newlines)

TailInv == TypeOK /\ ChunksTile /\ LoopInv /\ ReadInv /\ ReadsBounded

\* Nothing has been read yet.
LEMMA TailInit == Init => TailInv
  BY TailAssumption
     DEF Init, TailInv, TypeOK, ChunksTile, LoopInv, ReadInv, ReadsBounded

-----------------------------------------------------------------------------
\* The intervals read, after one more in front of the others.
Longer(e, s, t) ==
    /\ t \in Seq(Intervals) /\ t # <<>> /\ Len(t) = Len(s) + 1 /\ t[1] = e
    /\ Len(s) \in Nat /\ (s = <<>> <=> Len(s) = 0)
    /\ t[Len(t)] = IF s = <<>> THEN e ELSE s[Len(s)]
    /\ Begun(s) \subseteq Begun(t) /\ e.from \in Begun(t)
    /\ \A i \in 1 .. Len(t) - 1 : t[i].to = t[i + 1].from

LEMMA TileMore ==
    ASSUME NEW s \in Seq(Intervals), NEW e \in Intervals,
           \A i \in 1 .. Len(s) - 1 : s[i].to = s[i + 1].from,
           s # <<>> => e.to = s[1].from
    PROVE  Longer(e, s, <<e>> \o s)
  <1> DEFINE t == <<e>> \o s
  <1>1. <<e>> \in Seq(Intervals) /\ Len(<<e>>) = 1 /\ <<e>>[1] = e
    OBVIOUS
  <1>2. Follows(t, <<e>>, s)
    BY <1>1, Joined
  <1> HIDE DEF t
  <1>3. /\ t \in Seq(Intervals) /\ Len(t) = Len(s) + 1 /\ Len(s) \in Nat
        /\ t[1] = e /\ t # <<>>
    BY <1>1, <1>2 DEF Follows
  <1>4. \A i \in 1 .. Len(s) : t[i + 1] = s[i]
    <2> SUFFICES ASSUME NEW i \in 1 .. Len(s) PROVE t[i + 1] = s[i]
      OBVIOUS
    <2>1. t[Len(<<e>>) + i] = s[i]
      BY <1>2 DEF Follows
    <2>2. Len(<<e>>) + i = i + 1
      BY <1>1
    <2>3. QED
      BY <2>1, <2>2
  <1>5. s = <<>> <=> Len(s) = 0
    BY EmptySeq
  <1>6. t[Len(t)] = IF s = <<>> THEN e ELSE s[Len(s)]
    <2>1. CASE s = <<>>
      BY <1>3, <1>5, <2>1
    <2>2. CASE s # <<>>
      <3>1. Len(s) \in 1 .. Len(s)
        BY <1>3, <1>5, <2>2
      <3>2. QED
        BY <1>3, <1>4, <2>2, <3>1
    <2>3. QED
      BY <2>1, <2>2
  <1>7. Begun(s) \subseteq Begun(t) /\ e.from \in Begun(t)
    <2>1. \A i \in 1 .. Len(s) : i + 1 \in 1 .. Len(t) /\ t[i + 1] = s[i]
      BY <1>3, <1>4
    <2>2. 1 \in 1 .. Len(t)
      BY <1>3
    <2>3. QED
      BY <1>3, <2>1, <2>2 DEF Begun
  <1>8. ASSUME NEW i \in 1 .. Len(t) - 1 PROVE t[i].to = t[i + 1].from
    <2>1. i \in 1 .. Len(s) /\ t[i + 1] = s[i]
      BY <1>3, <1>4, <1>8
    <2>2. CASE i = 1
      <3>1. s # <<>>
        BY <1>3, <1>5, <2>1
      <3>2. QED
        BY <1>3, <2>1, <2>2, <3>1
    <2>3. CASE i # 1
      <3>1. i - 1 \in 1 .. Len(s) - 1 /\ i - 1 \in 1 .. Len(s) /\ (i - 1) + 1 = i
        BY <1>3, <2>1, <2>3
      <3>2. t[i] = s[i - 1]
        BY <1>4, <3>1
      <3>3. s[i - 1].to = s[i].from
        BY <3>1
      <3>4. QED
        BY <2>1, <3>2, <3>3
    <2>4. QED
      BY <2>2, <2>3
  <1>9. Longer(e, s, t)
    BY <1>3, <1>5, <1>6, <1>7, <1>8 DEF Longer
  <1>10. QED
    BY <1>9 DEF t

\* The intervals read have offsets, and there is a first and a last one.
LEMMA ReadsEnds ==
    ASSUME TypeOK, reads # <<>>
    PROVE  /\ Len(reads) \in Nat \ {0}
           /\ reads[1].from \in Nat /\ reads[1].to \in Nat
           /\ reads[Len(reads)].from \in Nat /\ reads[Len(reads)].to \in Nat
  <1>1. reads \in Seq(Intervals) /\ Len(reads) \in Nat /\ Len(reads) # 0
    BY EmptySeq, LenProperties DEF TypeOK
  <1>2. 1 \in 1 .. Len(reads) /\ Len(reads) \in 1 .. Len(reads)
    BY <1>1
  <1>3. QED
    BY <1>1, <1>2, LineOffsets

-----------------------------------------------------------------------------
\* A byte that the node writes is beyond everything that was read.
LEMMA AppendKeeps == ASSUME TailInv, Append1 PROVE TailInv'
  <1>1. /\ size \in 0 .. MaxSize /\ size < MaxSize /\ size' = size + 1
        /\ newlines \subseteq 0 .. size - 1
        /\ newlines' \in {newlines, newlines \cup {size}}
        /\ UNCHANGED <<fileSize, pos, bufferSize, lines, reads, pc>>
    BY DEF Append1, TailInv, TypeOK
  <1>2. size' \in 0 .. MaxSize /\ newlines' \subseteq 0 .. size' - 1 /\ fileSize' \in 0 .. size'
    BY <1>1, TailAssumption DEF TailInv, TypeOK
  <1>3. TypeOK'
    BY <1>1, <1>2 DEF TailInv, TypeOK
  <1>4. ChunksTile' /\ LoopInv' /\ ReadsBounded'
    BY <1>1 DEF TailInv, ChunksTile, LoopInv, ReadsBounded
  <1>5. ReadInv'
    <2>1. CASE reads = <<>>
      BY <1>1, <2>1 DEF TailInv, ReadInv
    <2>2. CASE reads # <<>>
      <3> DEFINE lo == reads[1].from   hi == reads[Len(reads)].to
      <3>1. lo \in Nat /\ hi \in Nat
        BY <2>2, ReadsEnds DEF TailInv
      <3>2. /\ lo <= hi /\ fileSize <= hi /\ hi <= size
            /\ Covers(lines, lo, hi, newlines)
            /\ Begins(lines, Begun(reads), newlines)
        BY <2>2 DEF TailInv, ReadInv
      <3>3. newlines \subseteq newlines' /\ \A n \in newlines' : n \in newlines \/ ~(n < hi)
        BY <1>1, <3>1, <3>2
      <3>4. hi <= size'
        BY <1>1, <3>1, <3>2, TailAssumption
      <3>5. Covers(lines, lo, hi, newlines') /\ Begins(lines, Begun(reads), newlines')
        BY <3>1, <3>2, <3>3, CoversGrow
      <3>6. QED
        BY <1>1, <2>2, <3>2, <3>4, <3>5 DEF ReadInv, TailInv
    <2>3. QED
      BY <2>1, <2>2
  <1>6. QED
    BY <1>3, <1>4, <1>5 DEF TailInv

\* Opening, and giving up.
LEMMA OpenKeeps ==
    ASSUME TailInv, OpenFile \/ OpenFails \/ Open \/ ReadEOF \/ ReadFails
    PROVE  TailInv'
  <1>1. CASE OpenFile
    <2>1. /\ reads = <<>> /\ lines = <<>> /\ fileSize = 0 /\ pc' = "open"
          /\ size' \in 0 .. MaxSize /\ newlines' \subseteq 0 .. size' - 1
          /\ UNCHANGED <<fileSize, pos, bufferSize, lines, reads>>
      BY <1>1 DEF OpenFile, TailInv, ReadInv
    <2>2. TypeOK'
      <3>1. size' \in Nat /\ fileSize' \in 0 .. size' /\ pc' \notin {"loop", "done"}
        BY <2>1, TailAssumption
      <3>2. QED
        BY <2>1, <3>1 DEF TailInv, TypeOK
    <2>3. ChunksTile' /\ LoopInv' /\ ReadInv' /\ ReadsBounded'
      BY <2>1 DEF TailInv, ChunksTile, LoopInv, ReadInv, ReadsBounded
    <2>4. QED
      BY <2>2, <2>3 DEF TailInv
  <1>2. CASE OpenFails \/ ReadEOF
    <2>1. /\ pc' \in {"nil", "eof"}
          /\ UNCHANGED <<size, newlines, fileSize, pos, bufferSize, lines, reads>>
      BY <1>2 DEF OpenFails, ReadEOF, fileVars
    <2>2. QED
      BY <2>1
         DEF TailInv, TypeOK, ChunksTile, LoopInv, ReadInv, ReadsBounded
  <1>3. CASE Open
    <2>1. /\ pc = "open" /\ pc' = "loop" /\ fileSize' = size /\ bufferSize' = Chunk
          /\ pos' = IF size < Chunk THEN 0 ELSE size - Chunk
          /\ UNCHANGED <<size, newlines, lines, reads>>
          /\ reads = <<>> /\ lines = <<>>
      BY <1>3 DEF Open, fileVars, TailInv, ReadInv
    <2>2. pos' \in 0 .. MaxSize /\ fileSize' \in 0 .. size /\ bufferSize' \in 0 .. Chunk
          /\ bufferSize' > 0
      BY <2>1, TailAssumption DEF TailInv, TypeOK
    <2>3. TypeOK'
      BY <2>1, <2>2 DEF TailInv, TypeOK
    <2>4. LoopInv' /\ ReadInv' /\ ChunksTile' /\ ReadsBounded'
      BY <2>1 DEF TailInv, ChunksTile, LoopInv, ReadInv, ReadsBounded
    <2>5. QED
      BY <2>3, <2>4 DEF TailInv
  <1>4. CASE ReadFails
    <2>1. /\ pc' = "nil" /\ fileSize' = 0 /\ pos' = 0 /\ bufferSize' = 0
          /\ lines' = <<>> /\ reads' = <<>> /\ UNCHANGED <<size, newlines>>
      BY <1>4 DEF ReadFails, fileVars
    <2>2. TypeOK'
      <3>1. size \in Nat
        BY TailAssumption DEF TailInv, TypeOK
      <3>2. QED
        BY <2>1, <3>1, TailAssumption DEF TailInv, TypeOK
    <2>3. ChunksTile' /\ LoopInv' /\ ReadInv' /\ ReadsBounded'
      BY <2>1 DEF ChunksTile, LoopInv, ReadInv, ReadsBounded
    <2>4. QED
      BY <2>2, <2>3 DEF TailInv
  <1>5. QED
    BY <1>1, <1>2, <1>3, <1>4

-----------------------------------------------------------------------------
\* The numbers of a step of the loop.
LEMMA ChunkBounds ==
    ASSUME TailInv, pc = "loop", pos < ChunkEnd
    PROVE  /\ pos \in 0 .. MaxSize /\ ChunkEnd \in 0 .. MaxSize /\ ChunkEnd <= size
           /\ size \in Nat /\ fileSize \in Nat /\ bufferSize \in Nat /\ bufferSize > 0
           /\ IF reads = <<>>
              THEN fileSize <= ChunkEnd
              ELSE ChunkEnd = reads[1].from
  <1>1. /\ size \in 0 .. MaxSize /\ pos \in 0 .. MaxSize /\ fileSize \in 0 .. size
        /\ bufferSize \in 0 .. Chunk /\ bufferSize > 0
    BY DEF TailInv, TypeOK
  <1>2. ChunkEnd \in 0 .. MaxSize /\ ChunkEnd <= size
    BY <1>1, TailAssumption DEF ChunkEnd
  <1>3. CASE reads = <<>>
    <2>1. bufferSize = Chunk /\ pos = IF fileSize < Chunk THEN 0 ELSE fileSize - Chunk
      BY <1>3 DEF TailInv, LoopInv
    <2>2. fileSize <= ChunkEnd
      BY <1>1, <2>1, TailAssumption DEF ChunkEnd
    <2>3. QED
      BY <1>1, <1>2, <1>3, <2>2, TailAssumption
  <1>4. CASE reads # <<>>
    <2> DEFINE lo == reads[1].from   hi == reads[Len(reads)].to
    <2>1. pos + bufferSize = lo
      BY <1>4 DEF TailInv, LoopInv
    <2>2. lo \in Nat /\ hi \in Nat /\ lo <= hi /\ hi <= size
      BY <1>4, ReadsEnds DEF TailInv, ReadInv
    <2> HIDE DEF lo, hi
    <2>3. ChunkEnd = lo
      BY <1>1, <2>1, <2>2, TailAssumption DEF ChunkEnd
    <2>4. QED
      BY <1>1, <1>2, <1>4, <2>3, TailAssumption DEF lo
  <1>5. QED
    BY <1>3, <1>4

\* What one step of the loop reads, and what the result is after it.
LEMMA ChunkRead ==
    ASSUME TailInv, ReadChunk
    PROVE  /\ Longer([from |-> pos, to |-> ChunkEnd], reads, reads')
           /\ LET hi == reads'[Len(reads')].to
              IN /\ hi \in Nat /\ ChunkEnd <= hi /\ fileSize <= hi /\ hi <= size
                 /\ Covers(lines', pos, hi, newlines)
                 /\ Begins(lines', Begun(reads'), newlines)
  <1> DEFINE e == [from |-> pos, to |-> ChunkEnd]
             C == Begun(reads')
             hi == IF reads = <<>> THEN ChunkEnd ELSE reads[Len(reads)].to
  <1>1. /\ pc = "loop" /\ pos < ChunkEnd /\ reads' = <<e>> \o reads
        /\ lines' = Split(pos, ChunkEnd) \o lines
    BY DEF ReadChunk
  <1>2. /\ pos \in 0 .. MaxSize /\ ChunkEnd \in 0 .. MaxSize /\ ChunkEnd <= size
        /\ size \in Nat /\ fileSize \in Nat
        /\ IF reads = <<>> THEN fileSize <= ChunkEnd ELSE ChunkEnd = reads[1].from
    BY <1>1, ChunkBounds
  <1>3. pos \in Nat /\ ChunkEnd \in Nat /\ pos <= ChunkEnd
    BY <1>1, <1>2, TailAssumption
  <1>4. Longer(e, reads, reads')
    <2>1. e \in Intervals /\ e.to = ChunkEnd
      BY <1>2 DEF Intervals
    <2>2. reads \in Seq(Intervals) /\ \A i \in 1 .. Len(reads) - 1 : reads[i].to = reads[i + 1].from
      BY DEF TailInv, TypeOK, ChunksTile
    <2>3. reads # <<>> => e.to = reads[1].from
      BY <1>2, <2>1
    <2> HIDE DEF e
    <2>4. Longer(e, reads, <<e>> \o reads)
      BY <2>1, <2>2, <2>3, TileMore
    <2>5. QED
      BY <1>1, <2>4
  <1>5. reads'[Len(reads')].to = hi
    BY <1>4 DEF Longer
  <1>6. Covers(Split(pos, ChunkEnd), pos, ChunkEnd, newlines)
        /\ Begins(Split(pos, ChunkEnd), {pos}, newlines)
    BY <1>2, <1>3, SplitCovers DEF TailInv, TypeOK
  <1>7. Begins(Split(pos, ChunkEnd), C, newlines)
    <2>1. pos \in C
      BY <1>4 DEF Longer
    <2>2. QED
      BY <1>6, <2>1 DEF Begins
  <1>8. /\ hi \in Nat /\ ChunkEnd <= hi /\ fileSize <= hi /\ hi <= size
        /\ Covers(lines, ChunkEnd, hi, newlines)
        /\ Begins(lines, C, newlines)
    <2>1. CASE reads = <<>>
      <3>1. lines = <<>>
        BY <2>1 DEF TailInv, ReadInv
      <3>2. Covers(lines, ChunkEnd, hi, newlines) /\ Begins(lines, C, newlines)
        <4>1. \A n \in newlines : ~(ChunkEnd <= n /\ n < ChunkEnd)
          BY <1>2, <1>3 DEF TailInv, TypeOK
        <4>2. QED
          BY <2>1, <3>1, <4>1 DEF Covers, Begins
      <3>3. QED
        BY <1>2, <1>3, <2>1, <3>2
    <2>2. CASE reads # <<>>
      <3>1. /\ reads[1].from <= hi /\ fileSize <= hi /\ hi <= size
            /\ Covers(lines, reads[1].from, hi, newlines)
            /\ Begins(lines, Begun(reads), newlines)
        BY <2>2 DEF TailInv, ReadInv
      <3>2. hi \in Nat
        BY <2>2, ReadsEnds DEF TailInv
      <3>3. Begins(lines, C, newlines)
        BY <1>4, <3>1 DEF Longer, Begins
      <3>4. QED
        BY <1>2, <2>2, <3>1, <3>2, <3>3
    <2>3. QED
      BY <2>1, <2>2
  <1>9. newlines \in SUBSET Nat
    BY DEF TailInv, TypeOK
  <1> HIDE DEF C, hi
  <1>10. Covers(lines', pos, hi, newlines) /\ Begins(lines', C, newlines)
    BY <1>1, <1>3, <1>6, <1>7, <1>8, <1>9, CoversJoin
  <1>11. QED
    BY <1>4, <1>5, <1>8, <1>10 DEF C

\* Each chunk read keeps the invariant.
LEMMA ReadKeeps == ASSUME TailInv, ReadChunk PROVE TailInv'
  <1> DEFINE e == [from |-> pos, to |-> ChunkEnd]
             hi == reads'[Len(reads')].to
  <1>1. /\ pc = "loop" /\ pos < ChunkEnd
        /\ UNCHANGED <<size, newlines, fileSize>>
    BY DEF ReadChunk, fileVars
  <1>2. /\ pos \in 0 .. MaxSize /\ ChunkEnd <= size /\ ChunkEnd \in Nat
        /\ size \in Nat /\ fileSize \in Nat /\ bufferSize \in Nat /\ bufferSize > 0
        /\ IF reads = <<>> THEN fileSize <= ChunkEnd ELSE ChunkEnd = reads[1].from
    BY <1>1, ChunkBounds, TailAssumption
  <1>3. /\ Longer(e, reads, reads')
        /\ hi \in Nat /\ ChunkEnd <= hi /\ fileSize <= hi /\ hi <= size
        /\ Covers(lines', pos, hi, newlines)
        /\ Begins(lines', Begun(reads'), newlines)
    BY ChunkRead
  <1>4. /\ reads' \in Seq(Intervals) /\ reads' # <<>> /\ Len(reads') = Len(reads) + 1
        /\ Len(reads) \in Nat /\ (reads = <<>> <=> Len(reads) = 0)
        /\ reads'[1].from = pos
        /\ \A i \in 1 .. Len(reads') - 1 : reads'[i].to = reads'[i + 1].from
    BY <1>3 DEF Longer
  <1> HIDE DEF e, hi
  <1>5. \/ pc' = "done" /\ UNCHANGED <<pos, bufferSize>>
        \/ /\ pc' = "loop" /\ pos # 0
           /\ IF pos - bufferSize < 0
              THEN bufferSize' = pos /\ pos' = 0
              ELSE pos' = pos - bufferSize /\ bufferSize' = bufferSize
    BY <1>1, <1>2 DEF ReadChunk, Enough, MoveBack
  <1>6. /\ pos' \in 0 .. MaxSize /\ bufferSize' \in 0 .. Chunk /\ bufferSize' > 0
    BY <1>2, <1>5, TailAssumption DEF TailInv, TypeOK
  <1>7. TypeOK'
    <2>1. lines' \in Seq(Intervals)
      BY <1>3 DEF Covers
    <2>2. QED
      BY <1>1, <1>4, <1>5, <1>6, <2>1 DEF TailInv, TypeOK
  <1>8. ChunksTile'
    BY <1>4 DEF ChunksTile
  <1>9. ReadInv'
    <2>1. pc' \notin {"closed", "open"} /\ pos <= hi
      BY <1>1, <1>2, <1>3, <1>5, TailAssumption
    <2>2. QED
      BY <1>1, <1>3, <1>4, <2>1 DEF ReadInv, hi
  <1>10. ASSUME pos # 0
         PROVE  /\ bufferSize = Chunk /\ pos + Len(reads') * Chunk = fileSize
    <2>1. bufferSize = Chunk
      BY <1>1, <1>10 DEF TailInv, LoopInv
    <2>2. CASE reads = <<>>
      <3>1. pos = fileSize - Chunk
        BY <1>1, <1>10, <2>2 DEF TailInv, LoopInv
      <3>2. Len(reads') * Chunk = Chunk
        BY <1>4, <2>2, TailAssumption
      <3>3. QED
        BY <1>2, <2>1, <3>1, <3>2, TailAssumption
    <2>3. CASE reads # <<>>
      <3>1. /\ pos + bufferSize = reads[1].from
            /\ reads[1].from + Len(reads) * Chunk = fileSize
        BY <1>1, <2>3 DEF TailInv, LoopInv
      <3>2. Len(reads') * Chunk = Len(reads) * Chunk + Chunk /\ Len(reads) * Chunk \in Nat
        BY <1>4, TailAssumption
      <3>3. QED
        BY <1>2, <2>1, <3>1, <3>2, TailAssumption
    <2>4. QED
      BY <2>2, <2>3, <2>1
  <1>11. LoopInv'
    <2>1. CASE pc' = "done"
      BY <2>1 DEF LoopInv
    <2>2. CASE pc' = "loop"
      <3>1. /\ pos # 0
            /\ IF pos - bufferSize < 0
               THEN bufferSize' = pos /\ pos' = 0
               ELSE pos' = pos - bufferSize /\ bufferSize' = bufferSize
        BY <1>5, <2>2
      <3>2. bufferSize' = Chunk \/ pos' = 0
        BY <1>10, <3>1
      <3>3. pos' + bufferSize' = pos
        BY <1>2, <3>1
      <3>4. QED
        BY <1>1, <1>4, <1>10, <3>1, <3>2, <3>3 DEF LoopInv
    <2>3. QED
      BY <1>5, <2>1, <2>2
  <1>12. ReadsBounded'
    <2>1. SUFFICES ASSUME Len(reads') > 1 PROVE (Len(reads') - 1) * Chunk < fileSize'
      BY DEF ReadsBounded
    <2>2. reads # <<>> /\ Len(reads') - 1 = Len(reads)
      BY <1>4, <2>1
    <2>3. /\ pos + bufferSize = reads[1].from
          /\ reads[1].from + Len(reads) * Chunk = fileSize
      BY <1>1, <2>2 DEF TailInv, LoopInv
    <2>4. Len(reads) * Chunk \in Nat
      BY <1>4, TailAssumption
    <2>5. QED
      BY <1>1, <1>2, <2>2, <2>3, <2>4
  <1>13. QED
    BY <1>7, <1>8, <1>9, <1>11, <1>12 DEF TailInv

\* Every step of a call, and every write of the node, keeps the invariant.
LEMMA TailStep == TailInv /\ [Next]_vars => TailInv'
  <1> SUFFICES ASSUME TailInv, [Next]_vars PROVE TailInv'
    OBVIOUS
  <1>1. CASE UNCHANGED vars
    BY <1>1 DEF vars, TailInv, TypeOK, ChunksTile, LoopInv, ReadInv, ReadsBounded
  <1>2. QED
    BY <1>1, AppendKeeps, OpenKeeps, ReadKeeps DEF Next, ReadFromLog
-----------------------------------------------------------------------------
\* The lines of a part of the file end in its newlines, each in one of its own.
LEMMA CoversEnds ==
    ASSUME NEW lo \in Nat, NEW hi \in Nat, NEW N \in SUBSET Nat,
           NEW s, Covers(s, lo, hi, N)
    PROVE  /\ {s[i].to : i \in DOMAIN s} = {n \in N : lo <= n /\ n < hi}
           /\ \A i, j \in DOMAIN s : i < j => s[i].to < s[j].to
  <1>1. /\ s \in Seq(Intervals) /\ DOMAIN s = 1 .. Len(s)
        /\ \A i \in 1 .. Len(s) : s[i].from \in Nat /\ s[i].to \in Nat
    BY LineOffsets DEF Covers
  <1>2. ASSUME NEW i \in 1 .. Len(s)
        PROVE  s[i].to \in N /\ lo <= s[i].to /\ s[i].to < hi
    BY <1>1 DEF Covers
  <1>3. ASSUME NEW i \in 1 .. Len(s), NEW j \in 1 .. Len(s), i < j
        PROVE  s[i].to < s[j].to
    <2>1. s[i].to < s[j].from /\ s[j].from <= s[j].to
      BY <1>3 DEF Covers
    <2>2. QED
      BY <1>1, <2>1
  <1>4. ASSUME NEW n \in N, lo <= n, n < hi PROVE \E i \in 1 .. Len(s) : s[i].to = n
    BY <1>4 DEF Covers
  <1>5. QED
    BY <1>1, <1>2, <1>3, <1>4

\* So a set that has these newlines has at least as many as there are lines.
LEMMA CoversMany ==
    ASSUME NEW lo \in Nat, NEW hi \in Nat, NEW N \in SUBSET Nat,
           NEW s, Covers(s, lo, hi, N), NEW k \in Nat, k <= Len(s),
           NEW E, \A i \in 1 .. Len(s) : s[i].to \in E
    PROVE  Reader!AtLeast(k, E)
  <1> DEFINE f == [i \in 1 .. k |-> s[i].to]
  <1>1. /\ s \in Seq(Intervals) /\ DOMAIN s = 1 .. Len(s) /\ Len(s) \in Nat
        /\ \A i \in 1 .. Len(s) : s[i].to \in Nat
    BY LineOffsets DEF Covers
  <1>2. f \in [1 .. k -> E]
    BY <1>1
  <1>3. ASSUME NEW i \in 1 .. k, NEW j \in 1 .. k, i # j PROVE f[i] # f[j]
    <2>1. i \in 1 .. Len(s) /\ j \in 1 .. Len(s) /\ (i < j \/ j < i)
      BY <1>1, <1>3
    <2>2. s[i].to < s[j].to \/ s[j].to < s[i].to
      BY <1>1, <2>1, CoversEnds
    <2>3. QED
      BY <1>1, <2>1, <2>2
  <1> HIDE DEF f
  <1>4. QED
    BY <1>2, <1>3 DEF Reader!AtLeast

\* The part of the file that was read.
LEMMA PartRead ==
    ASSUME TailInv, reads # <<>>
    PROVE  /\ reads[1].from \in Nat /\ reads[Len(reads)].to \in Nat
           /\ newlines \in SUBSET Nat
           /\ Covers(lines, reads[1].from, reads[Len(reads)].to, newlines)
  BY ReadsEnds, TailAssumption DEF TailInv, ReadInv, TypeOK

\* The invariant says what the properties say.
LEMMA TailImplies == TailInv => LinesInOrder /\ CutOnlyAtChunks
  <1> SUFFICES ASSUME TailInv PROVE LinesInOrder /\ CutOnlyAtChunks
    OBVIOUS
  <1>1. CASE reads = <<>>
    <2>1. lines = <<>>
      BY <1>1 DEF TailInv, ReadInv
    <2>2. DOMAIN lines = {}
      BY <2>1
    <2>3. QED
      BY <1>1, <2>2 DEF LinesInOrder, CutOnlyAtChunks, Ends
  <1>2. CASE reads # <<>>
    <2> DEFINE lo == reads[1].from   hi == reads[Len(reads)].to
    <2>1. /\ lo \in Nat /\ hi \in Nat /\ newlines \in SUBSET Nat
          /\ Covers(lines, lo, hi, newlines)
      BY <1>2, PartRead
    <2>2. DOMAIN lines = 1 .. Len(lines) /\ DOMAIN reads = 1 .. Len(reads)
      BY DEF TailInv, TypeOK
    <2>3. CutOnlyAtChunks
      BY <1>2, <2>2 DEF CutOnlyAtChunks, TailInv, ReadInv, Begins, Begun
    <2>4. Ends = NewlinesIn(lo, hi)
      <3> HIDE DEF lo, hi
      <3>1. QED
        BY <2>1, CoversEnds DEF Ends, NewlinesIn
    <2>5. LinesInOrder
      BY <1>2, <2>1, <2>2, <2>4 DEF LinesInOrder, Covers
    <2>6. QED
      BY <2>3, <2>5
  <1>3. QED
    BY <1>1, <1>2

-----------------------------------------------------------------------------
\* The initial state is one of the abstract reader.
LEMMA ReaderInit == Init => Reader!Init
  BY DEF Init, Reader!Init, Phase, Reply

\* The last chunk is the moment of the abstract reading; the chunks before it
\* change nothing that the caller sees.
LEMMA ReaderChunk ==
    ASSUME TailInv, ReadChunk
    PROVE  Reader!Next \/ UNCHANGED Reader!vars
  <1>1. /\ pc = "loop" /\ UNCHANGED <<size, newlines, fileSize>>
        /\ pc' = "loop" \/ (pc' = "done" /\ (Len(lines') >= Wanted \/ pos = 0))
    BY DEF ReadChunk, fileVars, Enough
  <1>2. CASE pc' = "loop"
    BY <1>1, <1>2 DEF Reader!vars, Phase, Reply
  <1>3. CASE pc' = "done"
    <2> DEFINE hi == reads'[Len(reads')].to
               E == {lines'[i].to : i \in DOMAIN lines'}
    <2>1. /\ hi \in Nat /\ fileSize <= hi /\ hi <= size
          /\ Covers(lines', pos, hi, newlines)
      BY ChunkRead
    <2> HIDE DEF hi
    <2>2. /\ size \in 0 .. MaxSize /\ pos \in 0 .. MaxSize /\ pos \in Nat
          /\ newlines \in SUBSET Nat /\ Wanted \in Nat
      BY TailAssumption DEF TailInv, TypeOK
    <2>3. hi \in 0 .. MaxSize
      BY <2>1, <2>2, TailAssumption
    <2>4. E = {n \in newlines : pos <= n /\ n < hi}
      BY <2>1, <2>2, CoversEnds
    <2>5. Reader!AtLeast(Wanted, E) \/ pos = 0
      <3>1. Len(lines') \in Nat
        BY <2>1 DEF Covers
      <3>2. ASSUME Wanted <= Len(lines') PROVE Reader!AtLeast(Wanted, E)
        <4>1. \A i \in 1 .. Len(lines') : lines'[i].to \in E
          BY <2>1 DEF Covers
        <4> HIDE DEF E
        <4>2. QED
          BY <2>1, <2>2, <3>2, <4>1, CoversMany
      <3>3. QED
        BY <1>1, <1>3, <2>2, <3>1, <3>2
    <2>6. Phase = "reading" /\ Phase' = "returned" /\ Reply' = E
      BY <1>1, <1>3 DEF Phase, Reply, Ends
    <2> HIDE DEF E
    <2>7. Reader!Return(pos, hi)
      BY <1>1, <2>1, <2>4, <2>5, <2>6 DEF Reader!Return
    <2>8. QED
      BY <2>2, <2>3, <2>7 DEF Reader!Next
  <1>4. QED
    BY <1>1, <1>2, <1>3

\* Every other step of a call is one of the abstract reader's.
LEMMA ReaderStep ==
    ASSUME TailInv, [Next]_vars
    PROVE  Reader!Next \/ UNCHANGED Reader!vars
  <1>1. CASE OpenFile
    BY <1>1 DEF OpenFile, Phase, Reply, Reader!Open, Reader!Next
  <1>2. CASE OpenFails
    BY <1>2 DEF OpenFails, fileVars, TailInv, ReadInv, Phase, Reply, Reader!Fail, Reader!Next
  <1>3. CASE Open
    BY <1>3 DEF Open, fileVars, Phase, Reply, Reader!Begin, Reader!Next
  <1>4. CASE Append1
    <2>1. pc # "closed" /\ UNCHANGED <<fileSize, lines, pc>>
      BY <1>4 DEF Append1
    <2>2. Phase # "idle" /\ UNCHANGED <<Phase, fileSize, Reply>>
      BY <2>1 DEF Phase, Reply, Ends, TailInv, TypeOK
    <2>3. QED
      BY <1>4, <2>2 DEF Append1, Reader!Write, Reader!Next
  <1>5. CASE ReadEOF
    <2>1. /\ pc = "loop" /\ pos >= ChunkEnd /\ pc' = "eof"
          /\ UNCHANGED <<size, newlines, fileSize>>
      BY <1>5 DEF ReadEOF, fileVars
    <2>2. /\ size \in Nat /\ pos \in Nat /\ fileSize \in Nat /\ fileSize <= size
          /\ bufferSize \in Nat /\ bufferSize > 0
      BY <2>1, TailAssumption DEF TailInv, TypeOK
    <2>3. size <= pos /\ ~(pos + bufferSize <= size)
      BY <2>1, <2>2 DEF ChunkEnd
    <2>4. reads = <<>>
      <3>1. SUFFICES ASSUME reads # <<>> PROVE FALSE
        OBVIOUS
      <3> DEFINE lo == reads[1].from   hi == reads[Len(reads)].to
      <3>2. lo = pos + bufferSize /\ lo \in Nat /\ hi \in Nat /\ lo <= hi /\ hi <= size
        BY <2>1, <3>1, ReadsEnds DEF TailInv, LoopInv, ReadInv
      <3>3. QED
        BY <2>2, <2>3, <3>2
    <2>5. size = 0
      BY <2>1, <2>2, <2>3, <2>4, TailAssumption DEF TailInv, LoopInv
    <2>6. Phase = "reading" /\ Phase' = "returned" /\ Reply = {} /\ Reply' = {}
      BY <2>1 DEF Phase, Reply
    <2>7. fileSize <= 0 /\ newlines = {}
      BY <2>2, <2>5 DEF TailInv, TypeOK
    <2>8. Reader!Return(0, 0)
      BY <2>1, <2>5, <2>6, <2>7 DEF Reader!Return
    <2>9. QED
      BY <2>8, TailAssumption DEF Reader!Next
  <1>6. CASE ReadFails
    <2>1. Phase \in {"open", "reading"} /\ Phase' = "failed" /\ Reply = {} /\ Reply' = {}
      BY <1>6 DEF ReadFails, Phase, Reply
    <2>2. QED
      BY <1>6, <2>1 DEF ReadFails, fileVars, Reader!Fail, Reader!Next
  <1>7. CASE UNCHANGED vars
    BY <1>7 DEF vars, Reader!vars, Phase, Reply, Ends
  <1>8. QED
    BY <1>1, <1>2, <1>3, <1>4, <1>5, <1>6, <1>7, ReaderChunk DEF Next, ReadFromLog

-----------------------------------------------------------------------------
\* Offsets stay inside the file, and the buffer is never empty or negative.
THEOREM TailTypes == Spec => []TypeOK
  <1>1. TailInv => TypeOK
    BY DEF TailInv
  <1>2. QED
    BY <1>1, TailInit, TailStep, PTL DEF Spec

\* ReadFromLog skips no byte and reads none twice on its way to the front of the
\* file, also when the node writes meanwhile.
THEOREM ChunksTileAlways == Spec => []ChunksTile
  <1>1. TailInv => ChunksTile
    BY DEF TailInv
  <1>2. QED
    BY <1>1, TailInit, TailStep, PTL DEF Spec

\* The lines are those of the part that was read, all of them, and in order.
THEOREM LinesInOrderAlways == Spec => []LinesInOrder
  BY TailInit, TailStep, TailImplies, PTL DEF Spec

\* A line loses its beginning only where two chunks meet in it.
THEOREM CutOnlyAtChunksAlways == Spec => []CutOnlyAtChunks
  BY TailInit, TailStep, TailImplies, PTL DEF Spec

\* The loop ends: it makes no more reads than the file had chunks.
THEOREM ReadsBoundedAlways == Spec => []ReadsBounded
  <1>1. TailInv => ReadsBounded
    BY DEF TailInv
  <1>2. QED
    BY <1>1, TailInit, TailStep, PTL DEF Spec

\* The several reads of ReadFromLog amount to one.
THEOREM ReaderImplemented == Spec => ImplementsReader
  <1>1. TailInv /\ [Next]_vars => [Reader!Next]_Reader!vars
    BY ReaderStep
  <1>2. QED
    BY <1>1, ReaderInit, TailInit, TailStep, PTL DEF Spec, ImplementsReader, Reader!Spec
=============================================================================
