-------------------------------- MODULE Reader --------------------------------
(***************************************************************************)
(* From bytes to frames.  wcmReadPacket reads what fits into a buffer of   *)
(* 256 bytes, parses the whole events in it and moves the rest to its      *)
(* front; usbParseEvent queues the events until a SYN_REPORT ends the      *)
(* frame, which is then dispatched (UsbChannels goes on from there) or     *)
(* dropped.  The kernel reports frames, loses events when it is not read   *)
(* in time, and starts afresh when the node is opened again.               *)
(***************************************************************************)
EXTENDS Integers, Sequences

CONSTANTS
  EventSize,    \* sizeof(struct input_event), wcmPktLength
  BufferSize,   \* sizeof(common->buffer)
  MaxEvents,    \* MAX_USB_EVENTS
  KernelSize,   \* the events the kernel keeps for a reader
  Frames,       \* the frames of the hardware: kinds of events, without the SYN_REPORT
  MaxReports,   \* bound: frames reported
  MaxBreaks     \* bound: times the kernel loses events or the node is opened again

\* "data": keys and axes; "serial", "zero": MSC_SERIAL with a serial number and
\* without; "dropped": SYN_DROPPED.
ReadKinds == {"data", "serial", "zero", "syn", "dropped"}

ASSUME ReaderAssumption ==
  /\ EventSize \in Nat \ {0} /\ BufferSize \in Nat /\ EventSize <= BufferSize
  /\ MaxEvents \in Nat \ {0} /\ KernelSize \in Nat
  /\ Frames \subseteq Seq({"data", "serial", "zero"})

VARIABLES
  pipe,        \* bytes in the kernel
  buffer,      \* common->buffer up to bufpos
  pos,         \* pos of wcmReadPacket: the bytes of the buffer that are parsed
  reading,     \* whether wcmReadPacket is between its read and its end
  queue,       \* wcmEvents up to wcmEventCnt
  dispatched,  \* the frame the event parsed last let go, or none
  due,         \* events reported and not parsed yet
  expected,    \* whole frames reported and not dispatched yet
  reports, breaks,
  leftover     \* whether the queue held part of a frame when the node was opened

readVars == <<pipe, buffer, pos, reading, queue, dispatched, due, expected, reports,
              breaks, leftover>>

\* The i-th event of a frame, and its bytes.
ReadEvent(n, b, f, i) ==
  [frame |-> n, break |-> b, kind |-> f[i], index |-> i, size |-> Len(f)]
ByteOf(events, k) ==
  <<events[((k - 1) \div EventSize) + 1], ((k - 1) % EventSize) + 1>>
BytesOf(events) == [k \in 1..(EventSize * Len(events)) |-> ByteOf(events, k)]
KindsIn(events) == {events[i].kind : i \in DOMAIN events}
EndOf(events) == events[Len(events)]

-----------------------------------------------------------------------------
(* usbParseEvent: the queue after the event, and the frame that is dispatched *)

MutSynEvent(events) ==   \* a frame that is skipped stays in the queue
  IF KindsIn(events) \subseteq {"syn", "serial", "zero", "dropped"}
  THEN [queue |-> events, out |-> <<>>]
  ELSE [queue |-> <<>>, out |-> events]

\* The end of a frame: dispatched if there is anything in it but EV_SYN and EV_MSC.
\* (A lone SYN_REPORT, which is looked for first, is such a frame.)
SynEvent(events) ==
  [queue |-> <<>>,
   out |-> IF KindsIn(events) \subseteq {"syn", "serial", "zero", "dropped"}
           THEN <<>> ELSE events]

\* A serial number of 0 drops what there is of the frame.
MscEvent(events, e) ==
  [queue |-> IF e.kind = "zero" THEN <<>> ELSE events, out |-> <<>>]

MutParseEvent(events, e) == \* the last place of the queue is never used
  LET stored == Append(events, e)
  IN IF Len(events) >= MaxEvents - 1 THEN [queue |-> <<>>, out |-> <<>>]
     ELSE IF e.kind = "syn" THEN SynEvent(stored)
     ELSE MscEvent(stored, e)

\* An event that finds the queue full is lost with all that is in the queue.
ParseEvent(events, e) ==
  LET stored == Append(events, e)
  IN IF Len(events) >= MaxEvents THEN [queue |-> <<>>, out |-> <<>>]
     ELSE IF e.kind = "syn" THEN SynEvent(stored)
     ELSE MscEvent(stored, e)

-----------------------------------------------------------------------------
(* wcmReadPacket *)

\* n bytes arrive.
Fill(n) ==
  /\ ~reading
  /\ n > 0 /\ n <= Len(pipe) /\ n <= BufferSize - Len(buffer)
  /\ buffer' = buffer \o SubSeq(pipe, 1, n)
  /\ pipe' = SubSeq(pipe, n + 1, Len(pipe))
  /\ pos' = 0 /\ reading' = TRUE
  /\ UNCHANGED <<queue, dispatched, due, expected, reports, breaks, leftover>>

MutWholeEvent ==         \* the last event of the buffer waits for more
  Len(buffer) - pos > EventSize
\* usbParse takes nothing of less than an event.
WholeEvent == Len(buffer) - pos >= EventSize

\* All of a frame of the hardware, whatever precedes it.
Complete(f) ==
  /\ EndOf(f).size <= Len(f)
  /\ \A i \in 1..EndOf(f).size :
       LET e == f[Len(f) - EndOf(f).size + i]
       IN e.frame = EndOf(f).frame /\ e.index = i

\* The next event of the buffer.
Parse ==
  LET parsed == ParseEvent(queue, buffer[pos + 1][1])
  IN /\ reading /\ WholeEvent
     /\ pos' = pos + EventSize
     /\ queue' = parsed.queue
     /\ dispatched' = parsed.out
     /\ due' = Tail(due)
     /\ expected' = IF parsed.out # <<>> /\ Complete(parsed.out)
                    THEN expected \ {EndOf(parsed.out).frame} ELSE expected
     /\ UNCHANGED <<pipe, buffer, reading, reports, breaks, leftover>>

MutMove ==               \* the rest is dropped
  /\ reading /\ ~WholeEvent
  /\ buffer' = <<>>
  /\ pos' = 0 /\ reading' = FALSE
  /\ UNCHANGED <<pipe, queue, dispatched, due, expected, reports, breaks, leftover>>

\* "if half a packet remains, move it down"
Move ==
  /\ reading /\ ~WholeEvent
  /\ buffer' = SubSeq(buffer, pos + 1, Len(buffer))
  /\ pos' = 0 /\ reading' = FALSE
  /\ UNCHANGED <<pipe, queue, dispatched, due, expected, reports, breaks, leftover>>

-----------------------------------------------------------------------------
(* The kernel *)

\* What the driver promises to dispatch: a frame with data that fits the queue.
Dispatchable(f) == /\ Len(f) <= MaxEvents
                   /\ \E i \in DOMAIN f : f[i] = "data"
                   /\ \A i \in DOMAIN f : f[i] # "zero"

Report(f) ==
  LET frame  == Append(f, "syn")
      events == [i \in DOMAIN frame |-> ReadEvent(reports, breaks, frame, i)]
  IN /\ reports < MaxReports
     /\ Len(pipe) + EventSize * Len(events) <= EventSize * KernelSize
     /\ pipe' = pipe \o BytesOf(events)
     /\ due' = due \o events
     /\ expected' = IF Dispatchable(frame) /\ ~leftover
                    THEN expected \cup {reports} ELSE expected
     /\ reports' = reports + 1
     /\ leftover' = FALSE
     /\ UNCHANGED <<buffer, pos, reading, queue, dispatched, breaks>>

\* There is no room for a frame: all that the kernel holds is lost, and of the frame
\* what comes before its k-th event.  (Events are read whole from a node.)
Overrun(f, k) ==
  LET frame  == Append(f, "syn")
      rest   == [i \in DOMAIN frame |-> ReadEvent(reports, breaks + 1, frame, i)]
      events == <<[rest[k] EXCEPT !.kind = "dropped", !.index = k - 1]>>
                \o SubSeq(rest, k, Len(rest))
  IN /\ reports < MaxReports /\ breaks < MaxBreaks
     /\ ~reading /\ buffer = <<>>
     /\ Len(pipe) + EventSize * Len(frame) > EventSize * KernelSize
     /\ EventSize * Len(events) <= EventSize * KernelSize
     /\ pipe' = BytesOf(events)
     /\ due' = events
     /\ expected' = expected \ {due[i].frame : i \in DOMAIN due}
     /\ reports' = reports + 1
     /\ leftover' = FALSE
     /\ breaks' = breaks + 1
     /\ UNCHANGED <<buffer, pos, reading, queue, dispatched>>

\* The last device is stopped and one started again: the node is closed and opened,
\* buffer and queue stay as they are.
Reopen ==
  /\ breaks < MaxBreaks /\ ~reading /\ buffer = <<>>
  /\ pipe' = <<>> /\ due' = <<>>
  /\ expected' = {}
  /\ breaks' = breaks + 1
  /\ leftover' = (queue # <<>>)
  /\ UNCHANGED <<buffer, pos, reading, queue, dispatched, reports>>

ReadInit == /\ pipe = <<>> /\ buffer = <<>> /\ pos = 0 /\ reading = FALSE
            /\ queue = <<>> /\ dispatched = <<>> /\ due = <<>> /\ expected = {}
            /\ reports = 0 /\ breaks = 0 /\ leftover = FALSE

ReadSome == \E n \in 1..BufferSize : Fill(n)
ReadPacket == ReadSome \/ Parse \/ Move

ReadNext == \/ ReadSome
            \/ Parse
            \/ Move
            \/ \E f \in Frames : \/ Report(f)
                                 \/ \E k \in 2..(Len(f) + 1) : Overrun(f, k)
            \/ Reopen

ReadSpec == ReadInit /\ [][ReadNext]_readVars

-----------------------------------------------------------------------------
\* Every event is parsed once and in order, in whatever pieces it arrives: what is not
\* parsed of the buffer, and what is in the kernel, are the bytes of the events due.
BytesKept == SubSeq(buffer, pos + 1, Len(buffer)) \o pipe = BytesOf(due)

\* A dispatched frame is one frame of the hardware up to its end, without a gap: only
\* its beginning may be missing, when the queue overflowed.  What was parsed before the
\* kernel lost events, or the node was opened again, may precede it: SYN_DROPPED is an
\* event like others.  "In both cases, we drop the whole frame": none has a serial
\* number of 0.
FramesWhole ==
  dispatched # <<>> =>
    LET end == EndOf(dispatched)
    IN /\ end.kind = "syn" /\ end.index = end.size
       /\ \A i \in DOMAIN dispatched :
            /\ dispatched[i].kind # "zero"
            /\ dispatched[i].break = end.break =>
                 /\ dispatched[i].frame = end.frame
                 /\ dispatched[i].index = end.size - Len(dispatched) + i

\* No frame is lost that the driver could take: once all is parsed, each was dispatched
\* from its first event to its last.
NoFrameLost == due = <<>> => expected = {}

\* All that is reported is read and parsed in the end.
AllRead == []<>(due = <<>>)
=============================================================================
