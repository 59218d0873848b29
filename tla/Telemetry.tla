----------------------------- MODULE Telemetry -----------------------------
(***************************************************************************)
(* The telemetry queue: any task emits without waiting, one writer task    *)
(* drains the queue into the JSONL file and standard output.  An event is  *)
(* <<p, n>>: the n-th event that producer p emits.  A line is the number   *)
(* of its event in the order of receipt.  Serialising an Event cannot      *)
(* fail, so the `continue` of run_writer is never taken.                   *)
(***************************************************************************)
EXTENDS Integers, Sequences, SequencesExt, FiniteSets

CONSTANTS
    Producers,      \* the tasks that call emit
    MaxEvents,      \* bound: events per producer
    Capacity,       \* limits.telemetry_queue_capacity
    FileConfigured  \* telemetry.jsonl_path is given

ASSUME TelemetryAssumption ==
    /\ IsFiniteSet(Producers)
    /\ MaxEvents \in Nat
    /\ Capacity \in Nat \ {0}
    /\ FileConfigured \in BOOLEAN

VARIABLES
    emitted,    \* emitted[p]: calls of emit by p so far
    failing,    \* producers whose try_send failed and that have yet to count it
    dropped,    \* Telemetry.dropped
    queue,      \* the channel
    writer,     \* where run_writer is
    current,    \* the line in the writer's hands, or 0
    fileOpen,   \* `file` is Some
    fileBuffer, \* lines in the file's BufWriter
    fileLog,    \* what is in the file: lines, each whole or broken off
    stdout,     \* config.stdout
    outBuffer,  \* lines in standard output's BufWriter
    outLog,     \* lines on standard output
    observed,   \* observed_dropped
    calls,      \* history: calls of emit
    received,   \* history: what recv returned, in order
    failed,     \* history: lines for which an operation on the file failed
    lost        \* history: events discarded with the queue at shutdown

emitters == <<emitted, failing, dropped, calls>>
file == <<fileOpen, fileBuffer, fileLog, failed>>
out == <<stdout, outBuffer, outLog>>
history == <<received, lost>>
telemetry_vars == <<emitters, queue, writer, current, file, out, observed, history>>

Events == Producers \X (1 .. MaxEvents)
WriterStages == {"opening", "receiving", "filing", "flushing_file", "printing",
                 "flushing_out", "noticing", "cancelled"}
----------------------------------------------------------------------------
\* The lines as they stand in the file
Put(lines, whole) == [i \in DOMAIN lines |-> [line |-> lines[i], whole |-> whole]]
----------------------------------------------------------------------------
TelemetryInit ==
    /\ emitted = [p \in Producers |-> 0]
    /\ failing = {}
    /\ dropped = 0
    /\ calls = 0
    /\ queue = <<>>
    /\ writer = "opening"
    /\ current = 0
    /\ fileOpen = FALSE
    /\ fileBuffer = <<>>
    /\ fileLog = <<>>
    /\ failed = {}
    /\ stdout \in BOOLEAN
    /\ outBuffer = <<>>
    /\ outLog = <<>>
    /\ observed = 0
    /\ received = <<>>
    /\ lost = 0
----------------------------------------------------------------------------
(* Wrong variants of actions below.                                        *)

\* A failed try_send returns before the counter is raised.
CountDropForgotten(p) ==
    /\ p \in failing
    /\ failing' = failing \ {p}
    /\ UNCHANGED <<emitted, dropped, calls, queue, writer, current, file, out, observed, history>>

\* A line that could not be flushed stays in the buffer and is written again.
FileFlushAgain ==
    /\ writer = "flushing_file"
    /\ \/ /\ fileLog' = fileLog \o Put(fileBuffer, TRUE)
          /\ fileBuffer' = <<>>
          /\ UNCHANGED failed
       \/ /\ fileLog' \in {fileLog, fileLog \o Put(fileBuffer, FALSE)}
          /\ failed' = failed \cup {current}
          /\ UNCHANGED fileBuffer
    /\ writer' = "printing"
    /\ UNCHANGED <<emitters, queue, current, fileOpen, out, observed, history>>

\* The last look at the counter is remembered as one less than it was.
NoticeDropsLate ==
    /\ writer = "noticing"
    /\ observed' = IF dropped > observed + 1 THEN dropped - 1 ELSE observed
    /\ current' = 0
    /\ writer' = "receiving"
    /\ UNCHANGED <<emitters, queue, file, out, history>>
----------------------------------------------------------------------------
\* emit: try_send puts the event into the queue ...
Send(p) ==
    /\ emitted[p] < MaxEvents
    /\ p \notin failing
    /\ writer # "cancelled"
    /\ Len(queue) < Capacity
    /\ emitted' = [emitted EXCEPT ![p] = @ + 1]
    /\ calls' = calls + 1
    /\ queue' = Append(queue, <<p, emitted[p] + 1>>)
    /\ UNCHANGED <<failing, dropped, writer, current, file, out, observed, history>>

\* ... or fails, because the queue is full or its receiver is gone, ...
SendFails(p) ==
    /\ emitted[p] < MaxEvents
    /\ p \notin failing
    /\ writer = "cancelled" \/ Len(queue) = Capacity
    /\ emitted' = [emitted EXCEPT ![p] = @ + 1]
    /\ calls' = calls + 1
    /\ failing' = failing \cup {p}
    /\ UNCHANGED <<dropped, queue, writer, current, file, out, observed, history>>

\* ... and then dropped.fetch_add(1).
CountDrop(p) ==
    /\ p \in failing
    /\ failing' = failing \ {p}
    /\ dropped' = dropped + 1
    /\ UNCHANGED <<emitted, calls, queue, writer, current, file, out, observed, history>>

\* run_writer opens the file first; an error leaves it without one.
OpenLog ==
    /\ writer = "opening"
    /\ fileOpen' \in (IF FileConfigured THEN BOOLEAN ELSE {FALSE})
    /\ writer' = "receiving"
    /\ UNCHANGED <<emitters, queue, current, fileBuffer, fileLog, failed, out, observed, history>>

Recv ==
    /\ writer = "receiving"
    /\ queue # <<>>
    /\ current' = Len(received) + 1
    /\ queue' = Tail(queue)
    /\ received' = Append(received, Head(queue))
    /\ writer' = "filing"
    /\ UNCHANGED <<emitters, file, out, observed, lost>>

NoFile ==
    /\ writer = "filing"
    /\ ~fileOpen
    /\ writer' = "printing"
    /\ UNCHANGED <<emitters, queue, current, file, out, observed, history>>

FileWrite ==
    /\ writer = "filing"
    /\ fileOpen
    /\ fileBuffer' = Append(fileBuffer, current)
    /\ writer' = "flushing_file"
    /\ UNCHANGED <<emitters, queue, current, fileOpen, fileLog, failed, out, observed, history>>

\* A line too long for the buffer meets an error of the file at once, with part of it written
\* or nothing. `file = None` closes the file.
FileWriteFails ==
    /\ writer = "filing"
    /\ fileOpen
    /\ fileLog' \in {fileLog, fileLog \o Put(<<current>>, FALSE)}
    /\ failed' = failed \cup {current}
    /\ fileOpen' = FALSE
    /\ fileBuffer' = <<>>
    /\ writer' = "printing"
    /\ UNCHANGED <<emitters, queue, current, out, observed, history>>

\* BufWriter hands its bytes to the File, which writes them on another thread. The error of that
\* write is what flush returns and run_writer ignores: the bytes are gone, or the first of
\* them are in the file, and the file stays open.
FileFlush ==
    /\ writer = "flushing_file"
    /\ \/ fileLog' = fileLog \o Put(fileBuffer, TRUE) /\ UNCHANGED failed
       \/ /\ fileLog' \in {fileLog, fileLog \o Put(fileBuffer, FALSE)}
          /\ failed' = failed \cup {current}
    /\ fileBuffer' = <<>>
    /\ writer' = "printing"
    /\ UNCHANGED <<emitters, queue, current, fileOpen, out, observed, history>>

\* An error on standard output is ignored and loses the line.
WriteStdout ==
    /\ writer = "printing"
    /\ stdout
    /\ \/ outBuffer' = Append(outBuffer, current)
       \/ UNCHANGED outBuffer
    /\ writer' = "flushing_out"
    /\ UNCHANGED <<emitters, queue, current, file, stdout, outLog, observed, history>>

FlushOut ==
    /\ writer = "flushing_out"
    /\ outLog' \in {outLog, outLog \o outBuffer}
    /\ outBuffer' = <<>>
    /\ writer' = "noticing"
    /\ UNCHANGED <<emitters, queue, current, file, stdout, observed, history>>

NoStdout ==
    /\ writer = "printing"
    /\ ~stdout
    /\ writer' = "noticing"
    /\ UNCHANGED <<emitters, queue, current, file, out, observed, history>>

NoticeDrops ==
    /\ writer = "noticing"
    /\ observed' = IF dropped > observed THEN dropped ELSE observed
    /\ current' = 0
    /\ writer' = "receiving"
    /\ UNCHANGED <<emitters, queue, file, out, history>>

\* The runtime shuts down: the writer is dropped where it waits, and the queue and the buffers with
\* it. A write to the file that has begun goes on, with any outcome; the events in the queue
\* are gone.
Cancel ==
    /\ writer # "cancelled"
    /\ writer' = "cancelled"
    /\ queue' = <<>>
    /\ lost' = lost + Len(queue)
    /\ \/ UNCHANGED fileLog
       \/ writer = "filing" /\ fileOpen /\ fileLog' = fileLog \o Put(<<current>>, FALSE)
       \/ \E whole \in BOOLEAN : fileLog' = fileLog \o Put(fileBuffer, whole)
    /\ fileOpen' = FALSE
    /\ fileBuffer' = <<>>
    /\ outBuffer' = <<>>
    /\ UNCHANGED <<emitters, current, failed, stdout, outLog, observed, received>>

Writer ==
    \/ OpenLog \/ Recv
    \/ NoFile \/ FileWrite \/ FileWriteFails \/ FileFlush
    \/ NoStdout \/ WriteStdout \/ FlushOut
    \/ NoticeDrops

Emit(p) == Send(p) \/ SendFails(p) \/ CountDrop(p)

TelemetryNext == Writer \/ Cancel \/ \E p \in Producers : Emit(p)

\* The runtime polls the writer whenever it can go on, and emit has no await
\* point.  Nothing obliges a task to emit.
Fairness == WF_telemetry_vars(Writer) /\ \A p \in Producers : WF_telemetry_vars(CountDrop(p))

TelemetrySpec == TelemetryInit /\ [][TelemetryNext]_telemetry_vars
FairSpec == TelemetrySpec /\ Fairness
----------------------------------------------------------------------------
\* The values of the channel, the counters and the sinks.
TypeOK ==
    /\ emitted \in [Producers -> 0 .. MaxEvents]
    /\ failing \subseteq Producers
    /\ dropped \in Nat
    /\ calls \in Nat
    /\ queue \in Seq(Events) /\ Len(queue) <= Capacity
    /\ writer \in WriterStages
    /\ current \in Nat
    /\ fileOpen \in BOOLEAN
    /\ fileBuffer \in Seq(Nat)
    /\ fileLog \in Seq([line : Nat, whole : BOOLEAN])
    /\ failed \subseteq Nat
    /\ stdout \in BOOLEAN
    /\ outBuffer \in Seq(Nat)
    /\ outLog \in Seq(Nat)
    /\ observed \in Nat
    /\ received \in Seq(Events)
    /\ lost \in Nat

\* No event vanishes without a trace while the process runs: each call of emit
\* is in the queue, with the writer or past it, counted as dropped, about to be
\* counted, or was discarded by the shutdown.
Accounted ==
    /\ calls = Len(received) + Len(queue) + dropped + Cardinality(failing) + lost
    /\ lost > 0 => writer = "cancelled"

\* The line at i can be read back: it is whole, and does not stand behind one broken off
Readable(i) == fileLog[i].whole /\ (i > 1 => fileLog[i - 1].whole)

\* The JSONL file has the events in the order of receipt and none of them twice; a line broken off
\* is one whose operation failed, or the last when the shutdown cut it short. While the file is
\* open, every event that has been dealt with can be read back from it unless the operation
\* for that event or for the one before it failed: an error costs no more than two events.
FileFollows ==
    /\ \A i, j \in DOMAIN fileLog : i < j => fileLog[i].line < fileLog[j].line
    /\ \A i \in DOMAIN fileLog :
          /\ fileLog[i].line \in DOMAIN received
          /\ \/ fileLog[i].whole
             \/ fileLog[i].line \in failed
             \/ writer = "cancelled" /\ i = Len(fileLog)
    /\ fileOpen /\ writer \notin {"filing", "flushing_file"} =>
          \A n \in DOMAIN received :
              \/ n \in failed \/ n - 1 \in failed
              \/ \E i \in DOMAIN fileLog : fileLog[i].line = n /\ Readable(i)

\* Once any event follows a drop in the queue, the writer notices the drop.
DropsAreNoticed ==
    \A d \in 1 .. MaxEvents * Cardinality(Producers) :
        dropped >= d /\ queue # <<>> ~> observed >= d \/ writer = "cancelled"
============================================================================
