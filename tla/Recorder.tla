------------------------------ MODULE Recorder ------------------------------
(***************************************************************************)
(* edrum record: a live kit recorded on the host.  The MIDI backend's      *)
(* thread stamps messages and puts them into a queue (LiveMidiSource), the *)
(* main thread appends them to a session file (SessionWriter), and Ctrl-C  *)
(* raises KeyboardInterrupt in the main thread between any two of its      *)
(* steps (cmd_record).  The disk may be full for a while.                  *)
(*                                                                         *)
(* Stamps are kept apart by a number n that the program does not have.     *)
(***************************************************************************)
EXTENDS LogReader, FiniteSets

CONSTANTS
  MaxTime,    \* bound: milliseconds of the session clock
  MaxMsgs,    \* bound: messages that become records
  MaxBreaks,  \* bound: Ctrl-C
  MaxFaults   \* bound: flushes that find the disk full

VARIABLES
  clock,    \* SessionClock.now_ms()
  hand,     \* the record stamp() has made and put() has not queued, or none
  stamped,  \* records stamped so far
  queue,    \* SimpleQueue
  stop,     \* the stop event
  mode,     \* where cmd_record is: "open", "run", "drain", "close", "done", "dead"
  pc,       \* its next step there
  got,      \* the record that events() has yielded and append() has not written
  buf,      \* lines in the BufferedWriter
  disk,     \* complete lines in the file
  torn,     \* a piece of the first line of buf is in the file behind them
  last_t,   \* SessionWriter._last_t
  end_t,    \* the local of the finally block
  breaks, faults,
  seen      \* history: [stamped, queued, mode] when Ctrl-C was first pressed

midiVars == <<hand, stamped, queue>>
fileVars == <<buf, disk, torn, last_t>>
mainVars == <<stop, mode, pc, got, end_t>>
histVars == <<breaks, faults, seen>>
vars == <<clock, midiVars, fileVars, mainVars, histVars>>

None == [kind |-> "none", n |-> 0, t |-> 0]
Meta == [kind |-> "meta", n |-> 0, t |-> 0]
Part == [kind |-> "part", n |-> 0, t |-> 0]

Queued == stamped - (IF hand = None THEN 0 ELSE 1)

\* source.open() has opened the port: messages may arrive before the file is there
Init ==
  /\ clock = 0
  /\ hand = None /\ stamped = 0 /\ queue = <<>>
  /\ stop = FALSE /\ mode = "open" /\ pc = "create" /\ got = None /\ end_t = 0
  /\ buf = <<>> /\ disk = <<>> /\ torn = FALSE /\ last_t = 0
  /\ breaks = 0 /\ faults = 0 /\ seen = [stamped |-> 0, queued |-> 0, mode |-> mode]

Tick == clock < MaxTime /\ clock' = clock + 1
        /\ UNCHANGED <<midiVars, fileVars, mainVars, histVars>>

-----------------------------------------------------------------------------
(* The MIDI thread *)

PortOpen == mode \notin {"done", "dead"}

\* stamp(): the time is taken before anything else; real-time messages stop here
Stamp ==
  /\ PortOpen /\ hand = None /\ stamped < MaxMsgs
  /\ hand' = [kind |-> "event", n |-> stamped + 1, t |-> clock]
  /\ stamped' = stamped + 1
  /\ UNCHANGED <<clock, queue, fileVars, mainVars, histVars>>

Put ==
  /\ hand # None
  /\ queue' = Append(queue, hand) /\ hand' = None
  /\ UNCHANGED <<clock, stamped, fileVars, mainVars, histVars>>

-----------------------------------------------------------------------------
(* The main thread *)

Goto(m, p) == mode' = m /\ pc' = p

\* A line for the file: SessionWriter.append's check, then BufferedWriter.write
Write(line) == buf' = Append(buf, line) /\ last_t' = line.t /\ UNCHANGED <<disk, torn>>

\* What follows a line that has reached the file, and what an exception leads to
AfterFlush == IF mode = "close" THEN Goto("close", "port") ELSE
              Goto(IF mode = "open" THEN "run" ELSE mode, "get")
Raise == Goto(IF mode \in {"run", "drain"} THEN "close" ELSE "dead", "end_t")

Create ==
  /\ mode = "open" /\ pc = "create"
  /\ Write(Meta) /\ Goto("open", "flush")
  /\ UNCHANGED <<clock, midiVars, stop, got, end_t, histVars>>

\* mutant: the loop is over as soon as stop is set
GetStopsEarly ==
  /\ mode \in {"run", "drain"} /\ pc = "get"
  /\ \/ /\ queue # <<>> /\ ~ stop
        /\ got' = Head(queue) /\ queue' = Tail(queue) /\ Goto(mode, "append")
     \/ /\ stop
        /\ Goto("close", "end_t") /\ UNCHANGED <<got, queue>>
  /\ UNCHANGED <<clock, hand, stamped, fileVars, stop, end_t, histVars>>

\* events(): its loop is over when stop is set and the queue is empty; a get that
\* times out comes round again
Get ==
  /\ mode \in {"run", "drain"} /\ pc = "get"
  /\ \/ /\ queue # <<>>
        /\ got' = Head(queue) /\ queue' = Tail(queue) /\ Goto(mode, "append")
     \/ /\ queue = <<>> /\ stop
        /\ Goto("close", "end_t") /\ UNCHANGED <<got, queue>>
  /\ UNCHANGED <<clock, hand, stamped, fileVars, stop, end_t, histVars>>

AppendRecord ==
  /\ mode \in {"run", "drain"} /\ pc = "append"
  /\ got' = None
  /\ IF got.t < last_t THEN Raise /\ UNCHANGED fileVars
                       ELSE Write(got) /\ Goto(mode, "flush")
  /\ UNCHANGED <<clock, midiVars, stop, end_t, histVars>>

Flush ==
  /\ pc = "flush"
  /\ disk' = disk \o buf /\ buf' = <<>> /\ torn' = FALSE
  /\ AfterFlush
  /\ UNCHANGED <<clock, midiVars, last_t, stop, got, end_t, histVars>>

\* mutant: what could not be written is thrown away with the exception
FlushFailsDiscarding ==
  /\ pc = "flush" /\ faults < MaxFaults /\ faults' = faults + 1
  /\ \E k \in 0..(Len(buf) - 1) :
       /\ disk' = IF torn THEN disk ELSE Append(disk \o SubSeq(buf, 1, k), Part)
       /\ buf' = <<>>
       /\ torn' = FALSE
  /\ Raise
  /\ UNCHANGED <<clock, midiVars, last_t, stop, got, end_t, breaks, seen>>

\* The disk is full: part of the buffer is out, the rest stays, flush() raises
FlushFails ==
  /\ pc = "flush" /\ faults < MaxFaults /\ faults' = faults + 1
  /\ \E k \in 0..(Len(buf) - 1) :
       /\ disk' = disk \o SubSeq(buf, 1, k)
       /\ buf' = SubSeq(buf, k + 1, Len(buf))
       /\ torn' \in IF k = 0 /\ torn THEN {TRUE} ELSE BOOLEAN
  /\ Raise
  /\ UNCHANGED <<clock, midiVars, last_t, stop, got, end_t, breaks, seen>>

\* mutant: the handler goes on reading without stopping the source
StopForgotten ==
  /\ mode = "drain" /\ pc = "stop"
  /\ Goto("drain", "get")
  /\ UNCHANGED <<clock, midiVars, fileVars, stop, got, end_t, histVars>>

\* source.stop(), the first thing the handler of KeyboardInterrupt does
Stop ==
  /\ mode = "drain" /\ pc = "stop"
  /\ stop' = TRUE /\ Goto("drain", "get")
  /\ UNCHANGED <<clock, midiVars, fileVars, got, end_t, histVars>>

\* mutant: the end of the session is the time at which Ctrl-C was pressed
ReadEndTimeEarly ==
  /\ mode = "close" /\ pc = "end_t"
  /\ end_t' \in 0..clock /\ Goto("close", "end")
  /\ UNCHANGED <<clock, midiVars, fileVars, stop, got, histVars>>

\* The finally block
ReadEndTime ==
  /\ mode = "close" /\ pc = "end_t"
  /\ end_t' = clock /\ Goto("close", "end")
  /\ UNCHANGED <<clock, midiVars, fileVars, stop, got, histVars>>

WriteEnd ==
  /\ mode = "close" /\ pc = "end"
  /\ IF end_t < last_t THEN Raise /\ UNCHANGED fileVars
                       ELSE Write([kind |-> "end", n |-> 0, t |-> end_t]) /\ Goto("close", "flush")
  /\ UNCHANGED <<clock, midiVars, stop, got, end_t, histVars>>

ClosePort ==
  /\ mode = "close" /\ pc = "port"
  /\ Goto("done", "end_t") /\ stop' = TRUE
  /\ UNCHANGED <<clock, midiVars, fileVars, got, end_t, histVars>>

\* KeyboardInterrupt.  A record that is out of the queue and not yet written is
\* gone; append() may have noted its time.  Before the try and inside finally
\* nothing catches it: the program ends.
Interrupt ==
  /\ PortOpen /\ breaks < MaxBreaks /\ breaks' = breaks + 1
  /\ CASE mode = "run" -> Goto("drain", "stop")
       [] mode = "drain" -> Goto("close", "end_t")
       [] OTHER -> Goto("dead", "end_t")
  /\ got' = None
  /\ last_t' \in IF got = None THEN {last_t} ELSE {last_t, got.t}
  /\ seen' = IF breaks = 0 THEN [stamped |-> stamped, queued |-> Queued, mode |-> mode] ELSE seen
  /\ UNCHANGED <<clock, midiVars, buf, disk, torn, stop, end_t, faults>>

Main == Create \/ Get \/ AppendRecord \/ Flush \/ FlushFails \/ Stop
          \/ ReadEndTime \/ WriteEnd \/ ClosePort

Next == Tick \/ Stamp \/ Put \/ Main \/ Interrupt

\* Both threads run while they can; nobody need press Ctrl-C.
Spec == Init /\ [][Next]_vars /\ WF_vars(Main) /\ WF_vars(Put)

-----------------------------------------------------------------------------
\* What is in the file if the program is killed now
Image == IF torn THEN Append(disk, Part) ELSE disk
OnDisk == {disk[i].n : i \in {j \in DOMAIN disk : disk[j].kind = "event"}}

\* Whenever the program is killed, interrupted or out of disk space, the file is a
\* session log for read_log once its meta line is complete, and its records are
\* in the order of their stamps without a repetition; session_end comes last.
AlwaysRecoverable ==
  LET recs == Records(Image)
      Before(a, b) == a.t <= b.t /\ a.kind = "event" /\ (b.kind = "event" => a.n < b.n)
  IN  disk # <<>> =>
        /\ Verdict(Image) = "ok"
        /\ Len(recs) = Len(disk) - 1
        /\ \A i, j \in DOMAIN recs : i < j => Before(recs[i], recs[j])

\* One Ctrl-C costs at most one record (with no trouble from the disk): of those
\* that were in the queue when it was pressed, all but the one in the main thread's
\* hands are in the file when the program ends in good order.
KeptUpToInterrupt ==
  mode = "done" /\ breaks = 1 /\ faults = 0 =>
    Cardinality((1..seen.queued) \ OnDisk) <= 1

\* The writer's refusal of times that run backwards never strikes: a session that
\* is closed without trouble from the disk ends in session_end, even though the
\* clock, the queue and the end time are read by two threads.
ClosedProperly ==
  mode \in {"done", "dead"} /\ faults = 0 /\ breaks = 1 /\ seen.mode = "run" =>
    mode = "done" /\ disk[Len(disk)].kind = "end"

\* After Ctrl-C the program comes to an end.
Ends == (breaks > 0) ~> (mode \in {"done", "dead"})
=============================================================================
