------------------------------ MODULE TailFile ------------------------------
(***************************************************************************)
(* How two processes talk: one appends records of a fixed number of lines  *)
(* to a file and flushes after each, the other polls the file.  The writer *)
(* is outboundChannelEmitter, proxyReceive or writeDeliverRecord (4 lines) *)
(* or `emit` (2 lines); the reader is tailChannelFile or tailEventChannel  *)
(* of helpers/parallelism.nim.                                             *)
(*                                                                         *)
(* A record longer than the writer's stdio buffer reaches the file in more *)
(* than one write, so the reader can see part of it, and the writing       *)
(* process can be killed before the rest.  codify writes a string as it is *)
(* between its quotes, so a payload with newlines takes several lines.     *)
(***************************************************************************)
EXTENDS Naturals, Sequences

CONSTANTS
  Lines,    \* lines of a record: 4 for channels, 2 for events
  Payload,  \* the line that may be long: 3 of 4, 2 of 2
  Newlines, \* how many newlines a payload may have
  Records   \* bound: records the child writes

ASSUME LinesAssumption == Lines \in Nat /\ Payload \in 1 .. Lines
ASSUME NewlinesAssumption == Newlines \subseteq Nat
ASSUME RecordsAssumption == Records \in Nat

VARIABLES
  file,       \* fragments of lines, in the order they were written
  next,       \* the record the child writes next
  torn,       \* how much of it is in the file: "none", "front" or "payload"
  running,    \* the child process, as the parent's alive() sees it
  phase,      \* the tail: "asleep", "reading", "checking" or "done"
  pos,        \* pos: where the next pass starts
  cursor,     \* position of the open file
  eof,        \* the open file has reported end of file
  lines,      \* lines of the record being read
  delivered   \* records handed to the dispatcher

writer == <<file, next, torn, running>>
reader == <<phase, pos, cursor, eof, lines, delivered>>
vars == <<file, next, torn, running, phase, pos, cursor, eof, lines, delivered>>

Fragment == (1 .. Records) \X (Nat \ {0}) \X {"whole", "front", "back"}
EndsLine(x) == x[3] # "front"

Init ==
  /\ file = <<>>
  /\ next = 1
  /\ torn = "none"
  /\ running = TRUE
  /\ phase = "asleep"
  /\ pos = 0
  /\ cursor = 0
  /\ eof = FALSE
  /\ lines = <<>>
  /\ delivered = <<>>

-----------------------------------------------------------------------------
(* The writer.                                                             *)

Front(r) == [l \in 1 .. Payload |->
               IF l = Payload THEN <<r, l, "front">> ELSE <<r, l, "whole">>]
Between(r, first, last) ==
  [l \in 1 .. last - first + 1 |-> <<r, first + l - 1, "whole">>]
Back(r, n) == <<<<r, Payload, "back">>>> \o Between(r, Payload + 1, Payload + n)
After(r, n) == Between(r, Payload + n + 1, Lines + n)
Whole(r, n) == Between(r, 1, Lines + n)

Writes(fragments, left) ==
  /\ running
  /\ next <= Records
  /\ file' = file \o fragments
  /\ torn' = left
  /\ next' = IF left = "none" THEN next + 1 ELSE next
  /\ UNCHANGED <<running, reader>>

(* One write for a record whose payload has n newlines; or the buffer is   *)
(* full within the payload, and maybe again right behind it.               *)
WriteRecord ==
  \/ torn = "none" /\ \E n \in Newlines : Writes(Whole(next, n), "none")
  \/ torn = "none" /\ Writes(Front(next), "front")
  \/ torn = "front" /\ \E n \in Newlines : Writes(Back(next, n) \o After(next, n), "none")
  \/ torn = "front" /\ Payload < Lines /\ Writes(Back(next, 0), "payload")
  \/ torn = "payload" /\ Writes(After(next, 0), "none")

(* The child ends, or is killed.                                           *)
Exit ==
  /\ running
  /\ running' = FALSE
  /\ UNCHANGED <<file, next, torn, reader>>

-----------------------------------------------------------------------------
(* Plausible slips in the operators below, for the mutation runs.          *)
AliveForever == TRUE
SeekStart == 0
NeverSticky(partial) == FALSE
StillAtEnd == eof

-----------------------------------------------------------------------------
(* The reader.  A pass opens the file anew, "to dodge stdio                *)
(* EOF-stickiness", and seeks to pos.                                      *)
SeekPos == pos
Reopened == FALSE

OpenPass ==
  /\ phase = "asleep"
  /\ phase' = "reading"
  /\ cursor' = SeekPos
  /\ eof' = Reopened
  /\ lines' = <<>>
  /\ UNCHANGED <<writer, pos, delivered>>

(* f.readLine: up to a newline, or what there is before the end of file;   *)
(* after the end of file was met it finds nothing any more.                *)
LineEnds == {j \in cursor + 1 .. Len(file) : EndsLine(file[j])}
LineEnd == IF LineEnds = {} THEN Len(file)
           ELSE CHOOSE j \in LineEnds : \A k \in LineEnds : j <= k
Sticky(partial) == eof \/ partial

(* pos moves only when all lines of a record were read.                    *)
Commit(recordRead) == IF recordRead THEN cursor' ELSE pos

ReadLine ==
  /\ phase = "reading"
  /\ ~eof
  /\ cursor < Len(file)
  /\ cursor' = LineEnd
  /\ eof' = Sticky(LineEnds = {})
  /\ LET record == Append(lines, SubSeq(file, cursor + 1, LineEnd))
         full == Len(record) = Lines
     IN /\ lines' = IF full THEN <<>> ELSE record
        /\ delivered' = IF full THEN Append(delivered, record) ELSE delivered
        /\ pos' = Commit(full)
  /\ UNCHANGED <<writer, phase>>

(* readLine returned false.                                                *)
EndPass ==
  /\ phase = "reading"
  /\ eof \/ cursor = Len(file)
  /\ phase' = "checking"
  /\ UNCHANGED <<writer, pos, cursor, eof, lines, delivered>>

(* if not alive(): break; else await sleepAsync(20).                       *)
Alive == running

CheckAlive ==
  /\ phase = "checking"
  /\ phase' = IF Alive THEN "asleep" ELSE "done"
  /\ UNCHANGED <<writer, pos, cursor, eof, lines, delivered>>

Reader == OpenPass \/ ReadLine \/ EndPass \/ CheckAlive

Next == WriteRecord \/ Exit \/ Reader

(* The parent keeps turning its dispatcher.  Nothing is assumed of the     *)
(* child: it may write, stop writing, or die.                              *)
Spec == Init /\ [][Next]_vars /\ WF_vars(Reader)

-----------------------------------------------------------------------------
TypeOK ==
  /\ file \in Seq(Fragment)
  /\ next \in 1 .. Records + 1
  /\ torn \in {"none", "front", "payload"}
  /\ running \in BOOLEAN
  /\ phase \in {"asleep", "reading", "checking", "done"}
  /\ pos \in 0 .. cursor
  /\ cursor \in 0 .. Len(file)
  /\ eof \in BOOLEAN
  /\ lines \in Seq(Seq(Fragment))
  /\ delivered \in Seq(Seq(Seq(Fragment)))

(* Line l of record r as it was written, in however many pieces.           *)
Intact(line, r, l) ==
  line \in {<<<<r, l, "whole">>>>, <<<<r, l, "front">>, <<r, l, "back">>>>}

(* What the dispatcher is given are the records as written, in the order   *)
(* they were written, none twice and none left out, wherever the writes of *)
(* the child and the reads of the parent fall.                             *)
RecordsIntact ==
  \A i \in DOMAIN delivered :
    \A l \in 1 .. Lines : Intact(delivered[i][l], i, l)

(* A record that was flushed is handed over, or the tail was ended.        *)
FlushedIsDelivered ==
  \A r \in 1 .. Records : next > r ~> Len(delivered) >= r \/ phase = "done"

(* The tail ends after the child, so that the task's future can settle.    *)
TailEnds == ~running ~> phase = "done"

(* "one more pass already happened above, safe to exit": when the tail is  *)
(* done, all that the child flushed before it ended was handed over.       *)
DrainedAtExit == phase = "done" => Len(delivered) = next - 1
=============================================================================
