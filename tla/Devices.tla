------------------------------- MODULE Devices -------------------------------
(***************************************************************************)
(* A station's device registry (crates/trace-devices) with an instrument   *)
(* polled over TCP, "wrench", and the operator's own entries for a point,  *)
(* "manual".  The registry is borrowed for the whole of a read, so there   *)
(* is one read at a time, and it goes on in steps: the driver's read, the  *)
(* wait for an answer, the back-off, the reconnection and one more read.   *)
(*                                                                         *)
(* A line the instrument sent and the driver has not read is a record      *)
(* [poll: the poll it answers, holds: a number, garble or bytes that are   *)
(* not text].  A registry write changes nothing the drivers keep and is    *)
(* left out.                                                               *)
(***************************************************************************)
EXTENDS Integers, Sequences

CONSTANTS
  Nothing,
  Room,         \* the polls that fit in the buffers of a connection
  MaxReads,     \* bound: reads the station asks for
  MaxUnasked,   \* bound: lines a connection carries that no poll asked for
  MaxEntries    \* bound: values the operator submits

ASSUME DevicesAssumption ==
  /\ Room \in Nat \ {0}
  /\ MaxReads \in Nat /\ MaxUnasked \in Nat /\ MaxEntries \in Nat
  /\ Nothing \notin Nat

VARIABLES
  stream,    \* the connection to the instrument, or Nothing
  health,    \* of the wrench: [connected, consecutive_failures]
  backoff,   \* attempts of each device's Backoff
  pc,        \* where the read is, "idle" when there is none
  device,    \* the device it reads
  retried,   \* whether it has reconnected
  sample,    \* the last sample returned, Nothing after an error
  channel,   \* values on their way from the operator, numbered as submitted
  pending,   \* the value the manual driver holds for the point, or Nothing
  submitted, \* how many there were
  used,      \* history: the last one a read returned, 0 for none
  reads      \* how many reads were asked for

line   == <<stream, health>>
manual == <<channel, pending, submitted, used>>
read   == <<pc, device, retried, sample>>
vars   == <<line, backoff, read, manual, reads>>

DeviceCodes == {"wrench", "manual"}

\* A fresh connection: polls written, polls answered, lines sent unasked, lines
\* to be read, and whether the instrument still holds its end.
Connected == [polls |-> 0, answered |-> 0, unasked |-> 0, lines |-> <<>>, open |-> TRUE]

Init ==
  /\ stream = Nothing
  /\ health = [connected |-> FALSE, consecutive_failures |-> 0]
  /\ backoff = [d \in DeviceCodes |-> 0]
  /\ pc = "idle" /\ device = "manual" /\ retried = FALSE /\ sample = Nothing
  /\ channel = <<>> /\ pending = Nothing /\ submitted = 0 /\ used = 0
  /\ reads = 0

-----------------------------------------------------------------------------
\* The instrument: it answers polls in their order, may speak unasked, and may
\* close the connection, in the middle of an answer too: half a number is one.
Lines(poll) == [poll : {poll}, holds : {"number", "garble", "bytes"}]

Answer ==
  /\ stream # Nothing /\ stream.open /\ stream.answered < stream.polls
  /\ \E l \in Lines(stream.answered + 1) :
       stream' = [stream EXCEPT !.answered = @ + 1, !.lines = Append(@, l)]
  /\ UNCHANGED <<health, backoff, read, manual, reads>>

SpeakUnasked ==
  /\ stream # Nothing /\ stream.open /\ stream.unasked < MaxUnasked
  /\ \E l \in Lines(stream.answered) :
       stream' = [stream EXCEPT !.unasked = @ + 1, !.lines = Append(@, l)]
  /\ UNCHANGED <<health, backoff, read, manual, reads>>

HangUp ==
  /\ stream # Nothing /\ stream.open
  /\ \/ stream' = [stream EXCEPT !.open = FALSE]
     \/ /\ stream.answered < stream.polls
        /\ \E l \in Lines(stream.answered + 1) :
             stream' = [stream EXCEPT !.open = FALSE, !.answered = @ + 1,
                                      !.lines = Append(@, l)]
  /\ UNCHANGED <<health, backoff, read, manual, reads>>

-----------------------------------------------------------------------------
\* DeviceHealth.
RecordSuccess == health' = [connected |-> TRUE, consecutive_failures |-> 0]
RecordFailure == health' = [connected |-> FALSE,
                            consecutive_failures |-> health.consecutive_failures + 1]

\* How DeviceRegistry::read goes on from what the driver's read returned.
Returns(s) ==
  /\ pc' = "idle"
  /\ sample' = s
  /\ backoff' = IF retried THEN backoff ELSE [backoff EXCEPT ![device] = 0]
  /\ UNCHANGED <<device, retried>>

\* Mutant: a transient failure is retried again and again.
FailsTransiently_Forever ==
  /\ pc' = "backoff"
  /\ backoff' = [backoff EXCEPT ![device] = @ + 1]
  /\ UNCHANGED <<device, retried, sample>>

FailsTransiently ==
  IF retried
  THEN /\ pc' = "idle" /\ sample' = Nothing
       /\ UNCHANGED <<backoff, device, retried>>
  ELSE /\ pc' = "backoff"
       /\ backoff' = [backoff EXCEPT ![device] = @ + 1]
       /\ UNCHANGED <<device, retried, sample>>

Fails ==
  /\ pc' = "idle" /\ sample' = Nothing
  /\ UNCHANGED <<backoff, device, retried>>

\* DeviceRegistry::read begins.
Read(d) ==
  /\ pc = "idle" /\ reads < MaxReads
  /\ pc' = "read" /\ device' = d /\ retried' = FALSE
  /\ sample' = Nothing
  /\ reads' = reads + 1
  /\ UNCHANGED <<line, backoff, manual>>

\* DeviceRegistry::connect_all, at start and whenever the station asks: no device
\* that fails keeps the others from connecting.
ConnectAll ==
  /\ pc = "idle"
  /\ \/ stream' = Connected /\ RecordSuccess
     \/ UNCHANGED line
  /\ UNCHANGED <<backoff, read, manual, reads>>

-----------------------------------------------------------------------------
\* TcpLineDriver::read without a connection: the error is not recorded.
NotConnected ==
  /\ pc = "read" /\ device = "wrench" /\ stream = Nothing
  /\ FailsTransiently
  /\ UNCHANGED <<line, manual, reads>>

\* The instrument takes a poll off the connection as it answers it; the others
\* stay in the buffers.
HasRoom == stream.polls - stream.answered < Room

\* The poll command is written, or the write finds the peer gone.  Nothing limits
\* how long it waits for room.
Poll ==
  /\ pc = "read" /\ device = "wrench" /\ stream # Nothing /\ HasRoom
  /\ stream' = [stream EXCEPT !.polls = @ + 1]
  /\ pc' = "await"
  /\ UNCHANGED <<health, backoff, device, retried, sample, manual, reads>>

PollFails ==
  /\ pc = "read" /\ device = "wrench" /\ stream # Nothing /\ ~stream.open
  /\ stream' = Nothing /\ RecordFailure
  /\ FailsTransiently
  /\ UNCHANGED <<manual, reads>>

\* read_line returns the next line, a last one without its terminator too.  One
\* that holds no number leaves the connection alone; bytes that are not text are
\* an error of the socket.
TakeLine ==
  /\ pc = "await" /\ stream.lines # <<>>
  /\ LET l == Head(stream.lines)
     IN  \/ /\ l.holds = "number"
            /\ stream' = [stream EXCEPT !.lines = Tail(@)]
            /\ RecordSuccess
            /\ Returns([from |-> "wrench", behind |-> stream.polls - l.poll,
                        unasked |-> stream.unasked])
         \/ /\ l.holds = "garble"
            /\ stream' = [stream EXCEPT !.lines = Tail(@)]
            /\ RecordFailure
            /\ Fails
         \/ /\ l.holds = "bytes"
            /\ stream' = Nothing
            /\ RecordFailure
            /\ FailsTransiently
  /\ UNCHANGED <<manual, reads>>

\* Mutant: the connection is kept after a timeout.
NoLine_Kept ==
  /\ pc = "await" /\ stream.lines = <<>>
  /\ RecordFailure
  /\ FailsTransiently
  /\ UNCHANGED <<stream, manual, reads>>

\* Mutant: the read has no deadline.
NoLine_WhenClosed ==
  /\ pc = "await" /\ stream.lines = <<>> /\ ~stream.open
  /\ stream' = Nothing /\ RecordFailure
  /\ FailsTransiently
  /\ UNCHANGED <<manual, reads>>

\* The deadline passes with no line, or the peer has closed the connection: a
\* socket no longer trusted is dropped.
NoLine ==
  /\ pc = "await" /\ stream.lines = <<>>
  /\ stream' = Nothing /\ RecordFailure
  /\ FailsTransiently
  /\ UNCHANGED <<manual, reads>>

-----------------------------------------------------------------------------
\* ManualInput::submit.
Submit ==
  /\ submitted < MaxEntries
  /\ submitted' = submitted + 1
  /\ channel' = Append(channel, submitted + 1)
  /\ UNCHANGED <<line, backoff, read, pending, used, reads>>

\* Mutant: a value that is pending stays.
Drained_First ==
  IF pending = Nothing /\ channel # <<>> THEN Head(channel) ELSE pending

\* ManualDriver::drain leaves the last value submitted for the point.
Drained == IF channel = <<>> THEN pending ELSE channel[Len(channel)]

\* ManualDriver::read: nothing typed yet is a timeout, and so transient.
ReadManual ==
  /\ pc = "read" /\ device = "manual"
  /\ channel' = <<>> /\ pending' = Nothing
  /\ IF Drained = Nothing
     THEN FailsTransiently /\ UNCHANGED used
     ELSE Returns([from |-> "manual", entry |-> Drained]) /\ used' = Drained
  /\ UNCHANGED <<line, submitted, reads>>

-----------------------------------------------------------------------------
\* The back-off is slept and the device connected again; the manual one always
\* is.  A connection that fails is what the read returns.
Reconnect ==
  /\ pc = "backoff"
  /\ pc' = "read" /\ retried' = TRUE
  /\ IF device = "wrench" THEN stream' = Connected /\ RecordSuccess ELSE UNCHANGED line
  /\ UNCHANGED <<backoff, device, sample, manual, reads>>

ReconnectFails ==
  /\ pc = "backoff" /\ device = "wrench"
  /\ Fails
  /\ UNCHANGED <<line, manual, reads>>

Step ==
  \/ NotConnected \/ Poll \/ PollFails \/ TakeLine \/ NoLine
  \/ ReadManual \/ Reconnect \/ ReconnectFails

World == Answer \/ SpeakUnasked \/ HangUp \/ Submit

Next == Step \/ World \/ ConnectAll \/ \E d \in DeviceCodes : Read(d)

Spec == Init /\ [][Next]_vars

\* A read in progress goes on while it can: every await in it ends, at its deadline
\* at the latest, except that of the poll's write.
FairSpec == Spec /\ WF_vars(Step)

-----------------------------------------------------------------------------
Line == [poll : Nat, holds : {"number", "garble", "bytes"}]

Connections ==
  [polls : Nat, answered : Nat, unasked : 0..MaxUnasked, lines : Seq(Line), open : BOOLEAN]

ASSUME NothingAssumption == Nothing \notin Connections

TypeOK ==
  /\ stream \in Connections \cup {Nothing}
  /\ health.connected \/ pc = "await" => stream # Nothing
  /\ health \in [connected : BOOLEAN, consecutive_failures : Nat]
  /\ backoff \in [DeviceCodes -> 0..MaxReads]
  /\ pc \in {"idle", "read", "await", "backoff"}
  /\ device \in DeviceCodes /\ retried \in BOOLEAN
  /\ channel \in Seq(1..MaxEntries)
  /\ pending \in 1..MaxEntries \cup {Nothing}
  /\ used \in 0..submitted /\ submitted \in 0..MaxEntries
  /\ reads \in 0..MaxReads

\* A reading is the answer to the poll of the read that returns it, except for
\* the lines the instrument sent unasked on this connection: each of them puts
\* the readings behind by one, and nothing else does, neither an answer that comes
\* after the deadline nor one that could not be parsed (tcp.rs, "Force a reconnect
\* on the next attempt rather than reusing a socket we no longer trust").
ReadingsAnswerTheirPoll ==
  sample # Nothing /\ sample.from = "wrench" => sample.behind <= sample.unasked

\* What is read from the operator is the last thing typed, and nothing typed is
\* read twice.
ReadsLastEntry ==
  [][used' # used => used' = submitted /\ used' > used]_vars

\* The read waits for a write that does not go on.
Blocked ==
  /\ pc = "read" /\ device = "wrench"
  /\ stream # Nothing /\ stream.open /\ ~HasRoom

\* A read comes to an end, after one retry at most, whatever the instrument does
\* or leaves undone, unless the write of a poll stays blocked for ever.
ReadsEnd == []<>~Blocked => (pc # "idle" ~> pc = "idle")

\* As lib.rs has it, "A driver never panics the station and never blocks forever":
\* a read comes to an end.
NeverBlocksForever == pc # "idle" ~> pc = "idle"
=============================================================================
