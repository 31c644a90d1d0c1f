---------------------------- MODULE DevicesProofs ----------------------------
(***************************************************************************)
(* Proofs about Devices, for any bound on the reads, the unasked lines and *)
(* the operator's entries, and about Marking, for any units and drivers.   *)
(*                                                                         *)
(* That a reading answers its poll is not inductive: it depends on which   *)
(* polls the lines that are still to be read answer.  LinesInOrder says    *)
(* that there is one for each poll answered and each line sent unasked,    *)
(* less those taken, and that the line at a place answers a poll earlier   *)
(* by no more than the lines sent unasked.  AttemptsCounted bounds the     *)
(* back-off by the reads asked for, and EntriesInOrder says that what is   *)
(* on its way from the operator ends with the newest entry.                *)
(*                                                                         *)
(* What a completed part bears follows from what was read back, and that   *)
(* is what is on the part for a label.  A marker reports the last mark it  *)
(* made, of whichever unit: what it says of this one is true only because  *)
(* a marker that is not bad writes each unit its own (LaserIsWritten).     *)
(* What a label says is proved about the whole stream for the printer: the *)
(* command characters it executes and the texts of its fields are those of *)
(* its parts put together, and a part with an input in it adds none of its *)
(* own.  What FlattenSeq gives is by induction on the length, with the     *)
(* Induction of RouteProofs.                                               *)
(***************************************************************************)
EXTENDS Devices, Marking, RouteProofs, SequenceTheorems, TLAPS

\* The lines taken from a connection: one for each poll, but for the one whose
\* answer is awaited.
Taken(s, awaiting) == IF awaiting THEN s.polls - 1 ELSE s.polls

InOrder(s, taken) ==
  /\ s.answered <= s.polls
  /\ taken + Len(s.lines) = s.answered + s.unasked
  /\ \A i \in 1..Len(s.lines) : s.lines[i].poll >= taken + i - s.unasked

LinesInOrder == stream # Nothing => InOrder(stream, Taken(stream, pc = "await"))

\* A read adds at most one attempt, and a device that answers starts over.
AttemptsCounted ==
  /\ \A d \in DeviceCodes : backoff[d] <= reads
  /\ pc \in {"read", "await"} /\ ~retried => backoff[device] < reads

EntriesInOrder ==
  /\ pending = Nothing
  /\ channel # <<>> => channel[Len(channel)] = submitted /\ used < submitted

Inv == LinesInOrder /\ AttemptsCounted /\ EntriesInOrder

IInv == TypeOK /\ Inv /\ ReadingsAnswerTheirPoll

\* The same, by what it is about: the connection, the read, the operator's entries.
LineOK ==
  /\ stream \in Connections \cup {Nothing}
  /\ health.connected \/ pc = "await" => stream # Nothing
  /\ health \in [connected : BOOLEAN, consecutive_failures : Nat]
  /\ LinesInOrder

ReadOK ==
  /\ backoff \in [DeviceCodes -> 0..MaxReads]
  /\ pc \in {"idle", "read", "await", "backoff"}
  /\ device \in DeviceCodes /\ retried \in BOOLEAN
  /\ reads \in 0..MaxReads
  /\ AttemptsCounted

ManualOK ==
  /\ channel \in Seq(1..MaxEntries)
  /\ pending \in 1..MaxEntries \cup {Nothing}
  /\ used \in 0..submitted /\ submitted \in 0..MaxEntries
  /\ EntriesInOrder

LEMMA Parts == IInv <=> LineOK /\ ReadOK /\ ManualOK /\ ReadingsAnswerTheirPoll
BY DEF IInv, TypeOK, Inv, LineOK, ReadOK, ManualOK

LEMMA PartsPrimed ==
  LineOK' /\ ReadOK' /\ ManualOK' /\ ReadingsAnswerTheirPoll' => IInv'
BY DEF IInv, TypeOK, Inv, LineOK, ReadOK, ManualOK

-----------------------------------------------------------------------------
(* The lines of a connection. *)

LEMMA Fields ==
  ASSUME NEW s \in Connections
  PROVE  /\ s.lines \in Seq(Line) /\ Len(s.lines) \in Nat
         /\ s.polls \in Nat /\ s.answered \in Nat
         /\ s.unasked \in Nat /\ s.unasked <= MaxUnasked
         /\ \A i \in 1..Len(s.lines) : s.lines[i] \in Line /\ s.lines[i].poll \in Nat
<1>1. MaxUnasked \in Nat
  BY DevicesAssumption
<1>2. s.lines \in Seq(Line)
  BY DEF Connections
<1>3. ASSUME NEW i \in 1..Len(s.lines)
      PROVE  s.lines[i] \in Line /\ s.lines[i].poll \in Nat
  <2>1. s.lines[i] \in Line
    BY <1>2
  <2> QED  BY <2>1 DEF Line
<1> QED  BY <1>1, <1>2, <1>3 DEF Connections

LEMMA ConnectedIsInOrder ==
  Connected \in Connections /\ InOrder(Connected, 0) /\ Taken(Connected, FALSE) = 0
<1>1. MaxUnasked \in Nat
  BY DevicesAssumption
<1>2. PICK s : s = Connected
  OBVIOUS
<1>3. /\ s.polls = 0 /\ s.answered = 0 /\ s.unasked = 0 /\ s.lines = <<>>
      /\ s \in Connections
  BY <1>1, <1>2 DEF Connected, Connections
<1>4. Len(s.lines) = 0
  BY <1>3
<1> QED  BY <1>2, <1>3, <1>4 DEF InOrder, Taken

\* A line is sent: an answer to the next poll, or one nobody asked for.
LEMMA SentInOrder ==
  ASSUME NEW s \in Connections, NEW e \in Connections, NEW taken \in Int,
         InOrder(s, taken), NEW l \in Line,
         e.polls = s.polls, e.lines = Append(s.lines, l),
         \/ /\ s.answered < s.polls /\ l.poll = s.answered + 1
            /\ e.answered = s.answered + 1 /\ e.unasked = s.unasked
         \/ /\ l.poll = s.answered
            /\ e.answered = s.answered /\ e.unasked = s.unasked + 1
  PROVE  InOrder(e, taken)
<1> PICK n, a, b, u, v : /\ n = Len(s.lines) /\ a = s.answered /\ b = e.answered
                         /\ u = s.unasked /\ v = e.unasked
  OBVIOUS
<1>1. /\ n \in Nat /\ a \in Nat /\ u \in Nat /\ s.polls \in Nat
      /\ \A i \in 1..n : s.lines[i].poll \in Nat
  BY Fields
<1>2. /\ Len(e.lines) = n + 1 /\ e.lines[n + 1] = l
      /\ \A i \in 1..n : e.lines[i] = s.lines[i]
  BY Fields
<1>3. /\ a <= s.polls /\ taken + n = a + u
      /\ \A i \in 1..n : s.lines[i].poll >= taken + i - u
  BY DEF InOrder
<1>4. \/ a < s.polls /\ l.poll = a + 1 /\ b = a + 1 /\ v = u
      \/ l.poll = a /\ b = a /\ v = u + 1
  OBVIOUS
<1>5. ASSUME NEW i \in 1..(n + 1)
      PROVE  e.lines[i].poll >= taken + i - v
  <2>1. CASE i \in 1..n
    <3>1. PICK p \in Nat : p = s.lines[i].poll
      BY <1>1, <2>1
    <3>2. p >= taken + i - u /\ i \in Int /\ e.lines[i] = s.lines[i]
      BY ONLY <1>2, <1>3, <2>1, <3>1
    <3>3. v = u \/ v = u + 1
      BY ONLY <1>4
    <3>4. p >= taken + i - v
      BY ONLY <1>1, <3>2, <3>3, p \in Nat, taken \in Int
    <3> QED  BY ONLY <3>1, <3>2, <3>4
  <2>2. CASE i = n + 1
    <3>1. PICK p : p = l.poll
      OBVIOUS
    <3>2. (p = a + 1 /\ v = u) \/ (p = a /\ v = u + 1)
      BY ONLY <1>4, <3>1
    <3>3. p >= taken + (n + 1) - v
      BY ONLY <1>1, <1>3, <3>2, taken \in Int
    <3> QED  BY ONLY <1>2, <2>2, <3>1, <3>3
  <2> QED  BY ONLY <1>1, <2>1, <2>2, i \in 1..(n + 1)
<1>6. b <= s.polls
  BY ONLY <1>1, <1>3, <1>4
<1>7. taken + (n + 1) = b + v
  BY ONLY <1>1, <1>3, <1>4, taken \in Int
<1> QED  BY <1>2, <1>5, <1>6, <1>7 DEF InOrder

\* A line is taken: it is late by no more than the lines sent unasked.
LEMMA TakenInOrder ==
  ASSUME NEW s \in Connections, NEW e \in Connections, NEW taken \in Int,
         InOrder(s, taken), s.lines # <<>>,
         e.polls = s.polls, e.answered = s.answered, e.unasked = s.unasked,
         e.lines = Tail(s.lines)
  PROVE  InOrder(e, taken + 1)
<1> PICK n, a, u : n = Len(s.lines) /\ a = s.answered /\ u = s.unasked
  OBVIOUS
<1>1. /\ n \in Nat \ {0} /\ s.polls \in Nat /\ a \in Nat /\ u \in Nat
      /\ \A i \in 1..n : s.lines[i].poll \in Nat
  BY Fields
<1>2. Len(e.lines) = n - 1 /\ \A i \in 1..(n - 1) : e.lines[i] = s.lines[i + 1]
  BY Fields
<1>3. /\ a <= s.polls /\ taken + n = a + u
      /\ \A i \in 1..n : s.lines[i].poll >= taken + i - u
  BY DEF InOrder
<1>4. ASSUME NEW i \in 1..(n - 1)
      PROVE  e.lines[i].poll >= (taken + 1) + i - u
  <2>1. i + 1 \in 1..n /\ i \in Int
    BY ONLY <1>1, i \in 1..(n - 1)
  <2>2. PICK p \in Nat : p = s.lines[i + 1].poll
    BY <1>1, <2>1
  <2>3. p >= taken + (i + 1) - u
    BY ONLY <1>3, <2>1, <2>2
  <2>4. p >= (taken + 1) + i - u
    BY ONLY <1>1, <2>1, <2>3, p \in Nat, taken \in Int
  <2> QED  BY ONLY <1>2, <2>2, <2>4, i \in 1..(n - 1)
<1>5. (taken + 1) + (n - 1) = a + u
  BY ONLY <1>1, <1>3, taken \in Int
<1> QED  BY <1>2, <1>3, <1>4, <1>5 DEF InOrder
-----------------------------------------------------------------------------
(* The instrument. *)

LEMMA SentIsOK ==
  ASSUME LineOK, stream # Nothing, NEW l \in Line, stream' \in Connections,
         stream'.polls = stream.polls,
         \/ /\ stream'.answered = stream.answered
            /\ stream'.unasked = stream.unasked /\ stream'.lines = stream.lines
         \/ /\ stream'.lines = Append(stream.lines, l)
            /\ \/ /\ stream.answered < stream.polls /\ l.poll = stream.answered + 1
                  /\ stream'.answered = stream.answered + 1
                  /\ stream'.unasked = stream.unasked
               \/ /\ l.poll = stream.answered
                  /\ stream'.answered = stream.answered
                  /\ stream'.unasked = stream.unasked + 1,
         UNCHANGED <<health, pc>>
  PROVE  LineOK'
<1> PICK taken : taken = Taken(stream, pc = "await")
  OBVIOUS
<1>1. stream \in Connections /\ InOrder(stream, taken)
  BY DEF LineOK, LinesInOrder
<1>2. taken \in Int /\ taken = Taken(stream', pc' = "await")
  BY <1>1, Fields DEF Taken
<1>3. InOrder(stream', taken)
  <2>1. CASE stream'.lines = stream.lines /\ stream'.answered = stream.answered
             /\ stream'.unasked = stream.unasked
    BY <1>1, <2>1 DEF InOrder
  <2>2. CASE stream'.lines = Append(stream.lines, l)
    <3> PICK e : e = stream'
      OBVIOUS
    <3> QED  BY <1>1, <1>2, <2>2, SentInOrder
  <2> QED  BY <2>1, <2>2
<1> QED  BY <1>2, <1>3, NothingAssumption DEF LineOK, LinesInOrder

LEMMA LinesAreLines ==
  ASSUME NEW poll \in Nat
  PROVE  \A l \in Lines(poll) : l \in Line /\ l.poll = poll
BY DEF Lines, Line

LEMMA AnswerLine == ASSUME LineOK, Answer PROVE LineOK'
<1>1. stream \in Connections /\ stream # Nothing /\ stream.answered < stream.polls
  BY DEF LineOK, Answer
<1>2. PICK l \in Lines(stream.answered + 1) :
        stream' = [stream EXCEPT !.answered = @ + 1, !.lines = Append(@, l)]
  BY DEF Answer
<1>3. stream.answered \in Nat /\ stream.lines \in Seq(Line)
  BY <1>1, Fields
<1>4. l \in Line /\ l.poll = stream.answered + 1
  BY <1>3, LinesAreLines
<1>5. Append(stream.lines, l) \in Seq(Line)
  BY <1>3, <1>4
<1>6. /\ stream' \in Connections /\ stream'.polls = stream.polls
      /\ stream'.answered = stream.answered + 1 /\ stream'.unasked = stream.unasked
      /\ stream'.lines = Append(stream.lines, l)
  <2> PICK s, e, n, sent : /\ s = stream /\ e = stream'
                           /\ n = stream.answered + 1 /\ sent = Append(stream.lines, l)
    OBVIOUS
  <2>1. s \in Connections /\ n \in Nat /\ sent \in Seq(Line)
    BY <1>1, <1>3, <1>5
  <2>2. e = [s EXCEPT !.answered = n, !.lines = sent]
    BY <1>2
  <2>3. /\ e \in Connections /\ e.polls = s.polls
        /\ e.answered = n /\ e.unasked = s.unasked /\ e.lines = sent
    BY ONLY <2>1, <2>2 DEF Connections
  <2> QED  BY <2>3
<1>7. UNCHANGED <<health, pc>>
  BY DEF Answer, read
<1> QED  BY <1>1, <1>4, <1>6, <1>7, SentIsOK

LEMMA SpeakUnaskedLine == ASSUME LineOK, SpeakUnasked PROVE LineOK'
<1>1. stream \in Connections /\ stream # Nothing /\ stream.unasked < MaxUnasked
  BY DEF LineOK, SpeakUnasked
<1>2. PICK l \in Lines(stream.answered) :
        stream' = [stream EXCEPT !.unasked = @ + 1, !.lines = Append(@, l)]
  BY DEF SpeakUnasked
<1>3. /\ stream.answered \in Nat /\ stream.lines \in Seq(Line) /\ stream.unasked \in Nat
      /\ MaxUnasked \in Nat
  BY <1>1, Fields, DevicesAssumption
<1>4. l \in Line /\ l.poll = stream.answered
  BY <1>3, LinesAreLines
<1>5. Append(stream.lines, l) \in Seq(Line) /\ stream.unasked + 1 \in 0..MaxUnasked
  BY <1>1, <1>3, <1>4
<1>6. /\ stream' \in Connections /\ stream'.polls = stream.polls
      /\ stream'.answered = stream.answered /\ stream'.unasked = stream.unasked + 1
      /\ stream'.lines = Append(stream.lines, l)
  BY <1>1, <1>2, <1>3, <1>5 DEF Connections
<1>7. UNCHANGED <<health, pc>>
  BY DEF SpeakUnasked, read
<1> QED  BY <1>1, <1>4, <1>6, <1>7, SentIsOK

LEMMA HangUpLine == ASSUME LineOK, HangUp PROVE LineOK'
<1>1. stream \in Connections /\ stream # Nothing
  BY DEF LineOK, HangUp
<1>2. stream.answered \in Nat /\ stream.lines \in Seq(Line)
  BY <1>1, Fields
<1>3. UNCHANGED <<health, pc>>
  BY DEF HangUp, read
<1>4. CASE stream' = [stream EXCEPT !.open = FALSE]
  <2>1. /\ stream' \in Connections /\ stream'.polls = stream.polls
        /\ stream'.answered = stream.answered /\ stream'.unasked = stream.unasked
        /\ stream'.lines = stream.lines
    BY <1>1, <1>4 DEF Connections
  <2>2. [poll |-> 0, holds |-> "number"] \in Line
    BY DEF Line
  <2> QED  BY <1>1, <1>3, <2>1, <2>2, SentIsOK
<1>5. CASE stream.answered < stream.polls
           /\ \E l \in Lines(stream.answered + 1) :
                stream' = [stream EXCEPT !.open = FALSE, !.answered = @ + 1,
                                         !.lines = Append(@, l)]
  <2>1. PICK l \in Lines(stream.answered + 1) :
               stream' = [stream EXCEPT !.open = FALSE, !.answered = @ + 1,
                                        !.lines = Append(@, l)]
    BY <1>5
  <2>2. l \in Line /\ l.poll = stream.answered + 1
    BY <1>2, LinesAreLines
  <2>3. Append(stream.lines, l) \in Seq(Line)
    BY <1>2, <2>2
  <2>4. /\ stream' \in Connections /\ stream'.polls = stream.polls
        /\ stream'.answered = stream.answered + 1 /\ stream'.unasked = stream.unasked
        /\ stream'.lines = Append(stream.lines, l)
    <3> PICK s, e, n, sent : /\ s = stream /\ e = stream'
                             /\ n = stream.answered + 1 /\ sent = Append(stream.lines, l)
      OBVIOUS
    <3>1. s \in Connections /\ n \in Nat /\ sent \in Seq(Line)
      BY <1>1, <1>2, <2>3
    <3>2. e = [s EXCEPT !.open = FALSE, !.answered = n, !.lines = sent]
      BY <2>1
    <3>3. /\ e \in Connections /\ e.polls = s.polls
          /\ e.answered = n /\ e.unasked = s.unasked /\ e.lines = sent
      BY ONLY <3>1, <3>2 DEF Connections
    <3> QED  BY <3>3
  <2> QED  BY <1>1, <1>3, <1>5, <2>2, <2>4, SentIsOK
<1> QED  BY <1>4, <1>5 DEF HangUp
-----------------------------------------------------------------------------
(* The read. *)

\* What a failure leaves, of either kind.
LEMMA FailureLeaves ==
  ASSUME ReadOK, ReadingsAnswerTheirPoll, Fails \/ FailsTransiently,
         pc # "idle", Fails \/ pc \in {"read", "await"}, UNCHANGED reads
  PROVE  ReadOK' /\ ReadingsAnswerTheirPoll' /\ pc' \in {"idle", "backoff"}
<1>1. CASE pc' = "idle" /\ sample' = Nothing /\ UNCHANGED <<backoff, device, retried>>
  BY <1>1 DEF ReadOK, AttemptsCounted, ReadingsAnswerTheirPoll
<1>2. CASE /\ ~retried /\ pc \in {"read", "await"} /\ pc' = "backoff"
           /\ backoff' = [backoff EXCEPT ![device] = @ + 1]
           /\ UNCHANGED <<device, retried, sample>>
  <2>1. /\ \A d \in DeviceCodes : backoff[d] \in 0..MaxReads /\ backoff[d] <= reads
        /\ backoff[device] < reads /\ reads \in 0..MaxReads /\ MaxReads \in Nat
    BY <1>2, DevicesAssumption DEF ReadOK, AttemptsCounted
  <2>2. \A d \in DeviceCodes : backoff'[d] = IF d = device THEN backoff[d] + 1 ELSE backoff[d]
    BY <1>2 DEF ReadOK
  <2>3. \A d \in DeviceCodes : backoff'[d] \in 0..MaxReads /\ backoff'[d] <= reads
    BY <2>1, <2>2
  <2>4. backoff' \in [DeviceCodes -> 0..MaxReads]
    BY <1>2, <2>3 DEF ReadOK
  <2> QED  BY <1>2, <2>3, <2>4 DEF ReadOK, AttemptsCounted, ReadingsAnswerTheirPoll
<1> QED  BY <1>1, <1>2 DEF Fails, FailsTransiently

LEMMA SuccessLeaves ==
  ASSUME ReadOK, NEW s, Returns(s), UNCHANGED reads
  PROVE  ReadOK' /\ pc' = "idle"
<1>1. /\ \A d \in DeviceCodes : backoff[d] \in 0..MaxReads /\ backoff[d] <= reads
      /\ reads \in 0..MaxReads /\ MaxReads \in Nat /\ device \in DeviceCodes
  BY DevicesAssumption DEF ReadOK, AttemptsCounted
<1>2. \A d \in DeviceCodes : backoff'[d] \in {0, backoff[d]}
  BY <1>1 DEF Returns, ReadOK
<1>3. \A d \in DeviceCodes : backoff'[d] \in 0..MaxReads /\ backoff'[d] <= reads
  BY <1>1, <1>2
<1>4. backoff' \in [DeviceCodes -> 0..MaxReads]
  BY <1>3 DEF Returns, ReadOK
<1> QED  BY <1>3, <1>4 DEF Returns, ReadOK, AttemptsCounted

\* A connection that is dropped, or made again.
LEMMA DroppedLine ==
  ASSUME LineOK, stream' = Nothing, RecordFailure, pc' # "await"
  PROVE  LineOK'
BY DEF LineOK, LinesInOrder, RecordFailure

LEMMA ConnectedLine ==
  ASSUME stream' = Connected, RecordSuccess, pc' # "await"
  PROVE  LineOK'
<1>1. /\ Connected \in Connections /\ Connected # Nothing
      /\ InOrder(Connected, Taken(Connected, FALSE))
  BY ConnectedIsInOrder, NothingAssumption
<1>2. Taken(stream', pc' = "await") = Taken(Connected, FALSE)
  BY DEF Taken
<1> QED  BY <1>1, <1>2 DEF LineOK, LinesInOrder, RecordSuccess

\* Nothing happens to it while no answer is awaited.
LEMMA SameLine ==
  ASSUME LineOK, UNCHANGED line, pc # "await", pc' # "await"
  PROVE  LineOK'
BY DEF LineOK, LinesInOrder, Taken, line

LEMMA SameManual ==
  ASSUME ManualOK, UNCHANGED manual
  PROVE  ManualOK'
BY DEF ManualOK, EntriesInOrder, manual

\* What a drain finds.
LEMMA ManualIsLast ==
  ASSUME ManualOK
  PROVE  /\ Drained # Nothing => Drained = submitted /\ Drained > used
         /\ Drained # Nothing => Drained \in 0..submitted
<1>1. CASE channel = <<>>
  BY <1>1 DEF ManualOK, EntriesInOrder, Drained
<1>2. CASE channel # <<>>
  BY <1>2, DevicesAssumption DEF ManualOK, EntriesInOrder, Drained
<1> QED  BY <1>1, <1>2

LEMMA SameRead ==
  ASSUME ReadOK, ReadingsAnswerTheirPoll, UNCHANGED <<backoff, read, reads>>
  PROVE  ReadOK' /\ ReadingsAnswerTheirPoll'
BY DEF ReadOK, AttemptsCounted, ReadingsAnswerTheirPoll, read

LEMMA PollStep == ASSUME IInv, Poll PROVE IInv'
<1>1. LineOK /\ ReadOK /\ ManualOK /\ ReadingsAnswerTheirPoll
  BY Parts
<1>2. stream \in Connections /\ stream # Nothing /\ InOrder(stream, stream.polls)
  BY <1>1 DEF Poll, LineOK, LinesInOrder, Taken
<1>3. stream.polls \in Nat /\ stream.answered \in Nat
  BY <1>2, Fields
<1>4. /\ stream' \in Connections /\ stream'.polls = stream.polls + 1
      /\ stream'.answered = stream.answered /\ stream'.unasked = stream.unasked
      /\ stream'.lines = stream.lines
  BY <1>2, <1>3 DEF Poll, Connections
<1>5. InOrder(stream', stream.polls)
  BY <1>2, <1>3, <1>4 DEF InOrder
<1>6. Taken(stream', pc' = "await") = stream.polls
  BY <1>3, <1>4 DEF Poll, Taken
<1>7. LineOK'
  BY <1>1, <1>4, <1>5, <1>6, NothingAssumption DEF LineOK, LinesInOrder, Poll
<1>8. ReadOK' /\ ReadingsAnswerTheirPoll'
  BY <1>1 DEF ReadOK, AttemptsCounted, ReadingsAnswerTheirPoll, Poll
<1>9. ManualOK'
  BY <1>1, SameManual DEF Poll
<1> QED  BY <1>7, <1>8, <1>9, PartsPrimed

LEMMA TakeLineStep == ASSUME IInv, TakeLine PROVE IInv'
<1>1. LineOK /\ ReadOK /\ ManualOK /\ ReadingsAnswerTheirPoll
  BY Parts
<1>2. /\ pc = "await" /\ stream \in Connections /\ stream # Nothing /\ stream.lines # <<>>
      /\ InOrder(stream, stream.polls - 1)
  BY <1>1 DEF TakeLine, LineOK, LinesInOrder, Taken
<1>3. ManualOK' /\ UNCHANGED reads
  BY <1>1, SameManual DEF TakeLine
<1>4. ASSUME stream' = [stream EXCEPT !.lines = Tail(@)], pc' = "idle",
             RecordSuccess \/ RecordFailure
      PROVE  LineOK'
  <2> PICK s, e, rest : s = stream /\ e = stream' /\ rest = Tail(stream.lines)
    OBVIOUS
  <2>1. s \in Connections /\ rest \in Seq(Line) /\ s.polls \in Nat
    BY <1>2, Fields
  <2>2. e = [s EXCEPT !.lines = rest]
    BY <1>4
  <2>3. /\ e \in Connections /\ e.polls = s.polls /\ e.answered = s.answered
        /\ e.unasked = s.unasked /\ e.lines = rest
    BY ONLY <2>1, <2>2 DEF Connections
  <2>4. s.polls - 1 \in Int /\ (s.polls - 1) + 1 = s.polls
    BY <2>1
  <2>5. InOrder(e, (s.polls - 1) + 1)
    BY <1>2, <2>1, <2>3, <2>4, TakenInOrder
  <2>6. InOrder(e, e.polls)
    BY <2>3, <2>4, <2>5
  <2>7. health' \in [connected : BOOLEAN, consecutive_failures : Nat]
    <3>1. health.consecutive_failures \in Nat
      BY <1>1 DEF LineOK
    <3>2. health.consecutive_failures + 1 \in Nat
      BY <3>1
    <3>3. CASE RecordSuccess
      BY <3>3 DEF RecordSuccess
    <3>4. CASE RecordFailure
      BY <3>2, <3>4 DEF RecordFailure
    <3> QED  BY <1>4, <3>3, <3>4
  <2>8. stream' \in Connections /\ stream' # Nothing
    <3>1. e \in Connections
      BY <2>3
    <3> QED  BY <3>1, NothingAssumption
  <2>9. LinesInOrder'
    BY <1>4, <2>6 DEF LinesInOrder, Taken
  <2> QED  BY <2>7, <2>8, <2>9 DEF LineOK
<1>5. CASE /\ Head(stream.lines).holds = "number"
           /\ stream' = [stream EXCEPT !.lines = Tail(@)]
           /\ RecordSuccess
           /\ Returns([from |-> "wrench", behind |-> stream.polls - Head(stream.lines).poll,
                       unasked |-> stream.unasked])
  <2>1. ReadOK' /\ pc' = "idle"
    BY <1>1, <1>3, <1>5, SuccessLeaves
  <2>2. /\ Head(stream.lines) = stream.lines[1] /\ 1 \in 1..Len(stream.lines)
        /\ stream.lines[1].poll \in Nat /\ stream.polls \in Nat /\ stream.unasked \in Nat
    BY <1>2, Fields
  <2>3. stream.lines[1].poll >= (stream.polls - 1) + 1 - stream.unasked
    BY <1>2, <2>2 DEF InOrder
  <2>4. stream.polls - Head(stream.lines).poll <= stream.unasked
    <3> PICK polls, poll, unasked : /\ polls = stream.polls /\ unasked = stream.unasked
                                    /\ poll = stream.lines[1].poll
      OBVIOUS
    <3>1. polls \in Nat /\ poll \in Nat /\ unasked \in Nat
      BY <2>2
    <3>2. poll >= (polls - 1) + 1 - unasked
      BY <2>3
    <3>3. polls - poll <= unasked
      BY ONLY <3>1, <3>2
    <3> QED  BY <2>2, <3>3
  <2>5. ReadingsAnswerTheirPoll'
    BY <1>5, <2>4 DEF Returns, ReadingsAnswerTheirPoll
  <2> QED  BY <1>3, <1>4, <1>5, <2>1, <2>5, PartsPrimed
<1>6. CASE /\ stream' = [stream EXCEPT !.lines = Tail(@)] /\ RecordFailure /\ Fails
  <2>1. ReadOK' /\ ReadingsAnswerTheirPoll'
    BY <1>1, <1>2, <1>3, <1>6, FailureLeaves
  <2>2. pc' = "idle"
    BY <1>6 DEF Fails
  <2> QED  BY <1>3, <1>4, <1>6, <2>1, <2>2, PartsPrimed
<1>7. CASE stream' = Nothing /\ RecordFailure /\ FailsTransiently
  <2>1. ReadOK' /\ ReadingsAnswerTheirPoll' /\ pc' \in {"idle", "backoff"}
    BY <1>1, <1>2, <1>3, <1>7, FailureLeaves
  <2> QED  BY <1>1, <1>3, <1>7, <2>1, DroppedLine, PartsPrimed
<1> QED  BY <1>5, <1>6, <1>7 DEF TakeLine

LEMMA StepsKeepInv == ASSUME IInv, [Next]_vars PROVE IInv'
<1>1. LineOK /\ ReadOK /\ ManualOK /\ ReadingsAnswerTheirPoll
  BY Parts
<1>2. CASE Answer \/ SpeakUnasked \/ HangUp
  <2>1. LineOK'
    BY <1>1, <1>2, AnswerLine, SpeakUnaskedLine, HangUpLine
  <2>2. UNCHANGED <<backoff, read, manual, reads>>
    BY <1>2 DEF Answer, SpeakUnasked, HangUp
  <2> QED  BY <1>1, <2>1, <2>2, SameRead, SameManual, PartsPrimed
<1>3. CASE Submit
  <2>1. UNCHANGED <<line, pc, backoff, read, reads>>
    BY <1>3 DEF Submit, read
  <2>2. LineOK'
    BY <1>1, <2>1 DEF LineOK, LinesInOrder, Taken, line
  <2>3. /\ submitted \in Nat /\ MaxEntries \in Nat /\ submitted < MaxEntries
        /\ channel \in Seq(1..MaxEntries) /\ used \in 0..submitted
        /\ submitted' = submitted + 1 /\ used' = used
        /\ channel' = Append(channel, submitted + 1)
    BY <1>1, <1>3, DevicesAssumption DEF ManualOK, Submit
  <2>4. submitted + 1 \in 1..MaxEntries /\ submitted + 1 \in 0..MaxEntries
        /\ used \in 0..(submitted + 1) /\ used < submitted + 1
    BY <2>3
  <2>5. /\ channel' \in Seq(1..MaxEntries)
        /\ channel'[Len(channel')] = submitted + 1
    BY <2>3, <2>4
  <2>6. ManualOK'
    BY <1>1, <1>3, <2>3, <2>4, <2>5 DEF ManualOK, EntriesInOrder, Submit
  <2> QED  BY <1>1, <2>1, <2>2, <2>6, SameRead, PartsPrimed
<1>4. CASE ConnectAll
  <2>1. LineOK'
    <3>1. pc' = "idle" /\ pc = "idle"
      BY <1>4 DEF ConnectAll, read
    <3> QED  BY <1>1, <1>4, <3>1, ConnectedLine, SameLine DEF ConnectAll
  <2> QED  BY <1>1, <1>4, <2>1, SameRead, SameManual, PartsPrimed DEF ConnectAll
<1>5. ASSUME NEW d \in DeviceCodes, Read(d)
      PROVE  IInv'
  <2>1. LineOK'
    BY <1>1, <1>5, SameLine DEF Read
  <2>2. /\ \A x \in DeviceCodes : backoff[x] \in 0..MaxReads /\ backoff[x] <= reads
        /\ reads \in 0..MaxReads /\ MaxReads \in Nat /\ reads < MaxReads
    BY <1>1, <1>5, DevicesAssumption DEF ReadOK, AttemptsCounted, Read
  <2>3. /\ \A x \in DeviceCodes : backoff[x] <= reads + 1 /\ backoff[x] < reads + 1
        /\ reads + 1 \in 0..MaxReads
    BY <2>2
  <2>4. ReadOK' /\ ReadingsAnswerTheirPoll'
    BY <1>1, <1>5, <2>3 DEF ReadOK, AttemptsCounted, ReadingsAnswerTheirPoll, Read
  <2> QED  BY <1>1, <1>5, <2>1, <2>4, SameManual, PartsPrimed DEF Read
<1>6. CASE NotConnected
  <2>1. ReadOK' /\ ReadingsAnswerTheirPoll' /\ pc' \in {"idle", "backoff"}
    BY <1>1, <1>6, FailureLeaves DEF NotConnected
  <2> QED  BY <1>1, <1>6, <2>1, SameLine, SameManual, PartsPrimed DEF NotConnected
<1>7. CASE PollFails
  <2>1. ReadOK' /\ ReadingsAnswerTheirPoll' /\ pc' \in {"idle", "backoff"}
    BY <1>1, <1>7, FailureLeaves DEF PollFails
  <2> QED  BY <1>1, <1>7, <2>1, DroppedLine, SameManual, PartsPrimed DEF PollFails
<1>8. CASE NoLine
  <2>1. ReadOK' /\ ReadingsAnswerTheirPoll' /\ pc' \in {"idle", "backoff"}
    BY <1>1, <1>8, FailureLeaves DEF NoLine
  <2> QED  BY <1>1, <1>8, <2>1, DroppedLine, SameManual, PartsPrimed DEF NoLine
<1>9. CASE ReadManual
  <2>1. ReadOK' /\ ReadingsAnswerTheirPoll' /\ pc' \in {"idle", "backoff"}
    <3>1. CASE FailsTransiently
      BY <1>1, <1>9, <3>1, FailureLeaves DEF ReadManual
    <3>2. CASE Returns([from |-> "manual", entry |-> Drained])
      <4>1. ReadOK' /\ pc' = "idle"
        BY <1>1, <1>9, <3>2, SuccessLeaves DEF ReadManual
      <4>2. ReadingsAnswerTheirPoll'
        BY <3>2 DEF Returns, ReadingsAnswerTheirPoll
      <4> QED  BY <4>1, <4>2
    <3> QED  BY <1>9, <3>1, <3>2 DEF ReadManual
  <2>2. LineOK'
    BY <1>1, <1>9, <2>1, SameLine DEF ReadManual
  <2>3. ManualOK'
    BY <1>1, <1>9, ManualIsLast DEF ManualOK, EntriesInOrder, ReadManual
  <2> QED  BY <2>1, <2>2, <2>3, PartsPrimed
<1>10. CASE Reconnect
  <2>1. pc' = "read" /\ pc = "backoff"
    BY <1>10 DEF Reconnect
  <2>2. LineOK'
    BY <1>1, <1>10, <2>1, ConnectedLine, SameLine DEF Reconnect
  <2>3. ReadOK' /\ ReadingsAnswerTheirPoll'
    BY <1>1, <1>10 DEF ReadOK, AttemptsCounted, ReadingsAnswerTheirPoll, Reconnect
  <2> QED  BY <1>1, <1>10, <2>2, <2>3, SameManual, PartsPrimed DEF Reconnect
<1>11. CASE ReconnectFails
  <2>1. ReadOK' /\ ReadingsAnswerTheirPoll' /\ pc = "backoff" /\ pc' = "idle"
    BY <1>1, <1>11, FailureLeaves DEF ReconnectFails, Fails
  <2> QED  BY <1>1, <1>11, <2>1, SameLine, SameManual, PartsPrimed DEF ReconnectFails
<1>12. CASE UNCHANGED vars
  <2>1. UNCHANGED <<line, pc, manual, backoff, read, reads>>
    BY <1>12 DEF vars, read
  <2>2. LineOK'
    BY <1>1, <2>1 DEF LineOK, LinesInOrder, Taken, line
  <2> QED  BY <1>1, <2>1, <2>2, SameRead, SameManual, PartsPrimed
<1> QED
  BY <1>2, <1>3, <1>4, <1>5, <1>6, <1>7, <1>8, <1>9, <1>10, <1>11, <1>12,
     PollStep, TakeLineStep
  DEF Next, Step, World

LEMMA InitIsOK == Init => IInv
<1> SUFFICES ASSUME Init PROVE IInv
  OBVIOUS
<1>1. MaxReads \in Nat /\ MaxEntries \in Nat /\ 0 \in 0..MaxReads /\ 0 \in 0..MaxEntries
  BY DevicesAssumption
<1>2. LineOK
  BY DEF Init, LineOK, LinesInOrder
<1>3. ReadOK
  <2>1. backoff \in [DeviceCodes -> 0..MaxReads] /\ \A d \in DeviceCodes : backoff[d] <= reads
    BY <1>1 DEF Init
  <2>2. reads \in 0..MaxReads /\ device \in DeviceCodes /\ retried \in BOOLEAN
    BY <1>1 DEF Init, DeviceCodes
  <2> QED  BY <2>1, <2>2 DEF Init, ReadOK, AttemptsCounted
<1>4. ManualOK
  BY <1>1 DEF Init, ManualOK, EntriesInOrder
<1>5. ReadingsAnswerTheirPoll
  BY DEF Init, ReadingsAnswerTheirPoll
<1> QED  BY <1>2, <1>3, <1>4, <1>5, Parts

LEMMA AlwaysIInv == Spec => []IInv
BY InitIsOK, StepsKeepInv, PTL DEF Spec

\* What the drivers keep always has its type: a connection that is reported or
\* awaited is there, and a device's back-off counts no more attempts than there
\* were reads (registry.rs).
THEOREM TypeCorrect == Spec => []TypeOK
<1>1. IInv => TypeOK
  BY DEF IInv
<1> QED  BY <1>1, AlwaysIInv, PTL

\* However answers, lines nobody asked for and hang-ups fall between the polls, a
\* reading is behind its poll by no more than the lines the instrument sent unasked
\* on that connection (tcp.rs, read: the socket is dropped after a timeout).
THEOREM ReadingsAnswer == Spec => []ReadingsAnswerTheirPoll
<1>1. IInv => ReadingsAnswerTheirPoll
  BY DEF IInv
<1> QED  BY <1>1, AlwaysIInv, PTL

\* A read of the operator's entries returns the newest one, and none twice
\* (manual.rs, drain and read).
THEOREM LastEntryIsRead == Spec => ReadsLastEntry
<1>1. ASSUME IInv, [Next]_vars, used' # used
      PROVE  used' = submitted /\ used' > used
  <2>1. ReadManual /\ used' = Drained /\ Drained # Nothing
    BY <1>1 DEF Next, Step, World, NotConnected, Poll, PollFails, TakeLine, NoLine,
       ReadManual, Reconnect, ReconnectFails, Answer, SpeakUnasked, HangUp, Submit,
       ConnectAll, Read, vars, manual
  <2> QED  BY <1>1, <2>1, Parts, ManualIsLast
<1>2. IInv /\ [Next]_vars => [used' # used => used' = submitted /\ used' > used]_vars
  BY <1>1
<1> QED  BY <1>2, AlwaysIInv, PTL DEF Spec, ReadsLastEntry

-----------------------------------------------------------------------------
(* Marking. *)

MarkingTypes ==
  /\ shift \subseteq Units
  /\ phase \in [Units -> Phases]
  /\ DOMAIN payload = Units /\ DOMAIN part = Units /\ DOMAIN verification = Units
  /\ DOMAIN marker = {"marked", "corrupt_as", "fault"}

\* What the marker writes on a part of the unit: the identity or, being a bad
\* one, its own error.
Written(u) == IF marker.corrupt_as # None THEN marker.corrupt_as ELSE Uid(u)

LaserIsWritten ==
  \A u \in Units : MethodOf[u] = "LASER_DPM" =>
    /\ phase[u] = "ready" => payload[u] = Uid(u)
    /\ phase[u] \in {"applied", "scanned", "completed"} => part[u] = Written(u)

\* What a station holds to be the unit's own identity is what is on its part.
ReadIsOnPart ==
  \A u \in Units :
    phase[u] = "scanned" /\ verification[u] # None /\ verification[u].decoded = Uid(u)
      => part[u] = Uid(u)

CarriesItsOwn(u) ==
  /\ part[u] = Uid(u)
  /\ MinGrade # None => verification[u].grade <= MinGrade

CompletedIsVerified ==
  \A u \in Units : phase[u] = "completed" /\ MethodOf[u] # "NONE" => CarriesItsOwn(u)

MarkingInv == MarkingTypes /\ LaserIsWritten /\ ReadIsOnPart /\ CompletedIsVerified

LEMMA InitIsMarked == MarkingInit => MarkingInv
BY UidsAssumption DEF MarkingInit, Phases, MarkingInv, MarkingTypes, LaserIsWritten,
       ReadIsOnPart, CompletedIsVerified

\* One unit moves at a time: what the others' invariants speak of stays.
LEMMA OneUnitMoves ==
  ASSUME MarkingInv, NEW u \in Units, MarkingTypes',
         marker'.corrupt_as = marker.corrupt_as,
         \A v \in Units \ {u} : /\ phase'[v] = phase[v] /\ payload'[v] = payload[v]
                                /\ part'[v] = part[v] /\ verification'[v] = verification[v],
         MethodOf[u] = "LASER_DPM" =>
           /\ phase'[u] = "ready" => payload'[u] = Uid(u)
           /\ phase'[u] \in {"applied", "scanned", "completed"} => part'[u] = Written(u),
         phase'[u] = "scanned" /\ verification'[u] # None =>
           (verification'[u].decoded = Uid(u) => part'[u] = Uid(u)),
         phase'[u] = "completed" /\ MethodOf[u] # "NONE" => CarriesItsOwn(u)'
  PROVE  MarkingInv'
<1>1. \A v \in Units : Written(v)' = Written(v)
  BY DEF Written, Uid
<1>2. ASSUME NEW v \in Units, MethodOf[v] = "LASER_DPM"
      PROVE  /\ phase'[v] = "ready" => payload'[v] = Uid(v)
             /\ phase'[v] \in {"applied", "scanned", "completed"} => part'[v] = Written(v)
  BY <1>2 DEF MarkingInv, LaserIsWritten
<1>3. ASSUME NEW v \in Units
      PROVE  phase'[v] = "scanned" /\ verification'[v] # None =>
               (verification'[v].decoded = Uid(v) => part'[v] = Uid(v))
  BY DEF MarkingInv, ReadIsOnPart
<1>4. ASSUME NEW v \in Units
      PROVE  phase'[v] = "completed" /\ MethodOf[v] # "NONE" => CarriesItsOwn(v)'
  BY DEF MarkingInv, CompletedIsVerified, CarriesItsOwn
<1> QED  BY <1>1, <1>2, <1>3, <1>4
            DEF MarkingInv, LaserIsWritten, ReadIsOnPart, CompletedIsVerified, Uid

LEMMA MarkingStep ==
  ASSUME MarkingInv, [MarkingNext]_(markingVars)
  PROVE  MarkingInv'
<1> USE DEF Phases
<1>1. CASE UNCHANGED markingVars
  BY <1>1 DEF markingVars, station, MarkingInv, MarkingTypes, LaserIsWritten, Written,
              ReadIsOnPart, CompletedIsVerified, CarriesItsOwn
<1>2. CASE UNCHANGED shift /\ Restart
  BY <1>2 DEF Restart, MarkingInv, MarkingTypes, LaserIsWritten, Written, ReadIsOnPart,
              CompletedIsVerified, CarriesItsOwn
<1>3. ASSUME NEW u \in shift, UNCHANGED shift,
             \/ Begin(u) \/ Send(u) \/ SendFails(u) \/ Stick(u)
             \/ Mark(u) \/ Scan(u) \/ Finish(u)
      PROVE  MarkingInv'
  <2>1. MarkingTypes /\ u \in Units
    BY DEF MarkingInv, MarkingTypes
  <2>2. CASE Begin(u)
    <3>1. MarkingTypes'
      BY <1>3, <2>1, <2>2 DEF Begin, MarkingTypes
    <3>2. MethodOf[u] = "LASER_DPM" /\ phase'[u] = "ready" => payload'[u] = Uid(u)
      BY <2>1, <2>2 DEF Begin, Payload, MarkingTypes
    <3> QED  BY <2>1, <2>2, <3>1, <3>2, OneUnitMoves DEF Begin, MarkingTypes
  <2>3. CASE Send(u) \/ SendFails(u)
    <3>1. MarkingTypes'
      BY <1>3, <2>1, <2>3 DEF Send, SendFails, MarkingTypes
    <3> QED  BY <2>1, <2>3, <3>1, OneUnitMoves DEF Send, SendFails, MarkingTypes
  <2>4. CASE Stick(u)
    <3>1. MarkingTypes'
      BY <1>3, <2>1, <2>4 DEF Stick, MarkingTypes, station
    <3> QED  BY <2>1, <2>4, <3>1, OneUnitMoves DEF Stick, MarkingTypes, station
  <2>5. CASE Mark(u)
    <3>1. MarkingTypes'
      BY <1>3, <2>1, <2>5 DEF Mark, MarkingTypes
    <3>2. payload[u] = Uid(u)
      BY <2>1, <2>5 DEF Mark, MarkingInv, LaserIsWritten
    <3> QED  BY <2>1, <2>5, <3>1, <3>2, OneUnitMoves DEF Mark, MarkingTypes, Written
  <2>6. CASE Scan(u)
    <3>1. MarkingTypes'
      BY <1>3, <2>1, <2>6 DEF Scan, MarkingTypes
    <3>2. phase[u] = "applied" /\ phase'[u] = "scanned" /\ part' = part
      BY <2>1, <2>6 DEF Scan, MarkingTypes
    <3>3. PICK grade \in Grades : verification'[u] = IF ReadBack(u) = None THEN None
                        ELSE [decoded |-> ReadBack(u), grade |-> grade]
      BY <2>1, <2>6 DEF Scan, MarkingTypes
    <3>4. verification'[u] # None => verification'[u].decoded = ReadBack(u)
      BY <3>3
    <3>5. ReadBack(u) = Uid(u) => part[u] = Uid(u)
      BY <2>1, <3>2 DEF ReadBack, MarkingInv, LaserIsWritten, Written
    <3>6. MethodOf[u] = "LASER_DPM" => part[u] = Written(u)
      BY <2>1, <3>2 DEF MarkingInv, LaserIsWritten
    <3> QED  BY <2>1, <2>6, <3>1, <3>2, <3>4, <3>5, <3>6, OneUnitMoves
                DEF Scan, MarkingTypes
  <2>7. CASE Finish(u)
    <3>1. MarkingTypes'
      BY <1>3, <2>1, <2>7 DEF Finish, MarkingTypes
    <3>2. CASE phase[u] = "scanned" /\ MarkVerified(u)
      <4>1. phase'[u] = "completed" /\ UNCHANGED <<verification, part, marker>>
        BY <2>1, <2>7, <3>2 DEF Finish, MarkingTypes
      <4>2. MethodOf[u] # "NONE" =>
              /\ verification[u] # None /\ verification[u].decoded = Uid(u)
              /\ MinGrade # None => verification[u].grade <= MinGrade
        BY <3>2 DEF MarkVerified, Engine!MarkVerified
      <4>3. MethodOf[u] # "NONE" => CarriesItsOwn(u)'
        BY <2>1, <3>2, <4>1, <4>2 DEF CarriesItsOwn, MarkingInv, ReadIsOnPart, Uid
      <4>4. MethodOf[u] = "LASER_DPM" => part[u] = Written(u)
        BY <2>1, <3>2 DEF MarkingInv, LaserIsWritten
      <4> QED  BY <2>1, <2>7, <3>1, <4>1, <4>3, <4>4, OneUnitMoves
                  DEF Finish, MarkingTypes
    <3>3. CASE ~(phase[u] = "scanned" /\ MarkVerified(u))
      <4>1. phase'[u] = "waiting"
        BY <2>1, <2>7, <3>3 DEF Finish, MarkingTypes
      <4> QED  BY <2>1, <2>7, <3>1, <3>3, <4>1, OneUnitMoves DEF Finish, MarkingTypes
    <3> QED  BY <3>2, <3>3
  <2> QED  BY <1>3, <2>2, <2>3, <2>4, <2>5, <2>6, <2>7
<1> QED  BY <1>1, <1>2, <1>3 DEF MarkingNext

\* A unit that went on carries its own identity, readable as its revision asks, and
\* no other such unit carries it, for any units, templates, piles of labels and bad
\* markers, through faults and restarts (marker.rs, read_back; engine.rs, the gate
\* MARK_VERIFIED; repo.rs, record_mark).
THEOREM CompletedIsItself == MarkingSpec => []CompletedCarriesItsIdentity
<1>1. MarkingInv => CompletedCarriesItsIdentity
  BY UidsAssumption
     DEF MarkingInv, CompletedIsVerified, CarriesItsOwn, CompletedCarriesItsIdentity
<1> QED  BY <1>1, InitIsMarked, MarkingStep, PTL DEF MarkingSpec

-----------------------------------------------------------------------------
(* Sequences in a row. *)

\* f goes through a sequence of sequences, one more at a time.
Joins(f, n, s, T) ==
  /\ f \in [0..n -> Seq(T)]
  /\ f[0] = <<>>
  /\ \A i \in 1..n : f[i] = f[i - 1] \o s[i]

Iterates(f, D, G, a) ==
  f \in [Nat -> D] /\ f[0] = a /\ \A m \in Nat : f[m + 1] = G[f[m]]

LEMMA Iterations ==
  \A D, G, a : G \in [D -> D] /\ a \in D => \E f : Iterates(f, D, G, a)
BY Iterated DEF Iterates

Accumulated(f, n, U, z, H) ==
  f \in [0..n -> U] /\ f[0] = z /\ \A i \in 1..n : f[i] = H[i][f[i - 1]]

LEMMA Accumulates ==
  ASSUME NEW U, NEW n \in Nat, NEW z \in U, NEW H \in [1..n -> [U -> U]]
  PROVE  \E f : Accumulated(f, n, U, z, H)
<1> DEFINE D == Nat \X U
           next(p) == IF p[1] + 1 \in 1..n THEN H[p[1] + 1][p[2]] ELSE p[2]
           G == [p \in D |-> <<p[1] + 1, next(p)>>]
<1>1. G \in [D -> D]
  OBVIOUS
<1>s. PICK start : start = <<0, z>>
  OBVIOUS
<1>2. start \in D
  BY <1>s
<1>i. PICK it : Iterates(it, D, G, start)
  <2> HIDE DEF G, D
  <2> QED  BY <1>1, <1>2, Iterations
<1>3. it \in [Nat -> D] /\ it[0] = start /\ \A m \in Nat : it[m + 1] = G[it[m]]
  BY <1>i DEF Iterates
<1>4. \A m \in Nat : it[m + 1] = <<it[m][1] + 1, next(it[m])>> /\ it[m] \in D
  <2> HIDE DEF next, D
  <2> QED  BY <1>3
<1>5. \A m \in Nat : it[m][1] = m
  <2> DEFINE S == {m \in Nat : it[m][1] = m}
  <2>1. 0 \in S
    BY <1>3, <1>s
  <2>2. ASSUME NEW m \in Nat, m \in S PROVE m + 1 \in S
    <3> HIDE DEF next, D
    <3> PICK rest : rest = next(it[m])
      OBVIOUS
    <3>0. it[m + 1] = <<it[m][1] + 1, rest>>
      BY <1>4
    <3>1. it[m + 1][1] = it[m][1] + 1
      BY <3>0
    <3> QED  BY <2>2, <3>1
  <2> HIDE DEF S
  <2>3. Nat \subseteq S
    BY <2>1, <2>2, Induction
  <2> QED  BY <2>3 DEF S
<1> DEFINE f == [m \in 0..n |-> it[m][2]]
<1>6. ASSUME NEW i \in 1..n PROVE f[i] = H[i][f[i - 1]]
  <2>1. i - 1 \in Nat /\ (i - 1) + 1 = i /\ i - 1 \in 0..n /\ i \in 0..n
    OBVIOUS
  <2>2. it[i] = <<it[i - 1][1] + 1, next(it[i - 1])>> /\ it[i - 1][1] = i - 1
    BY <1>4, <1>5, <2>1
  <2>3. next(it[i - 1]) = H[i][it[i - 1][2]]
    BY <2>1, <2>2
  <2>4. it[i][2] = next(it[i - 1])
    <3> HIDE DEF next
    <3> QED  BY <2>2
  <2> QED  BY <2>1, <2>3, <2>4
<1>7. f \in [0..n -> U] /\ f[0] = z
  <2>0. \A m \in Nat : it[m] \in Nat \X U
    BY <1>4
  <2>1. \A m \in 0..n : m \in Nat /\ it[m][2] \in U
    BY ONLY <2>0, n \in Nat
  <2>2. 0 \in 0..n /\ it[0][2] = z
    BY <1>3, <1>s
  <2> QED  BY <2>1, <2>2
<1> HIDE DEF f
<1> QED  BY <1>6, <1>7 DEF Accumulated

LEMMA FlattenJoins ==
  \A T, s, n : s \in Seq(Seq(T)) /\ n = Len(s) =>
    n \in Nat /\ \E f : Joins(f, n, s, T) /\ FlattenSeq(s) = f[n]
<1> TAKE T, s, n
<1>s. SUFFICES ASSUME s \in Seq(Seq(T)), n = Len(s)
               PROVE  n \in Nat /\ \E f : Joins(f, n, s, T) /\ FlattenSeq(s) = f[n]
  OBVIOUS
<1>n. n = Len(s)
  BY <1>s
<1>0. n \in Nat
  BY <1>s, <1>n
<1>1. \A i \in 1..n : s[i] \in Seq(T)
  BY <1>s, <1>n
<1>U. PICK U : U = Seq(T)
  OBVIOUS
<1>z. PICK z : z = <<>>
  OBVIOUS
<1> DEFINE H == [i \in 1..n |-> [t \in Seq(T) |-> t \o s[i]]]
<1>2. H \in [1..n -> [U -> U]]
  BY <1>1, <1>U, ConcatProperties
<1>a. PICK f : Accumulated(f, n, U, z, H)
  <2>1. z \in U
    BY <1>U, <1>z, EmptySeq
  <2> HIDE DEF H
  <2> QED  BY <1>0, <1>2, <2>1, Accumulates
<1>3. f \in [0..n -> U] /\ f[0] = z /\ \A i \in 1..n : f[i] = H[i][f[i - 1]]
  BY <1>a DEF Accumulated
<1>6. /\ f \in [0..n -> Seq(T)] /\ f[0] = <<>>
      /\ \A i \in 1..n : f[i] = f[i - 1] \o s[i]
  <2>1. ASSUME NEW i \in 1..n PROVE f[i] = f[i - 1] \o s[i]
    <3>1. i - 1 \in 0..n
      BY <1>0
    <3> QED  BY <1>3, <1>U, <3>1
  <2> QED  BY <1>3, <1>U, <1>z, <2>1
<1>7. ASSUME n = 0 PROVE FlattenSeq(s) = f[n]
  <2>1. s = <<>> /\ Len(s) = 0
    BY <1>7, <1>s, <1>n, EmptySeq
  <2> QED  BY <1>6, <1>7, <2>1 DEF FlattenSeq
<1>8. ASSUME n # 0 PROVE FlattenSeq(s) = f[n]
  <2> DEFINE Body(g) == [i \in 1..n |-> IF i = 1 THEN s[i] ELSE g[i - 1] \o s[i]]
             r == CHOOSE g : g = Body(g)
             h == [i \in 1..n |-> f[i]]
  <2>1. \A i \in 1..n : h[i] = Body(h)[i]
    <3> TAKE i \in 1..n
    <3>1. CASE i = 1
      <4>1. f[1] = <<>> \o s[1] /\ s[1] \in Seq(T)
        <5>1. 1 \in 1..n /\ 1 - 1 = 0
          BY <1>0, <1>8
        <5> QED  BY <1>1, <1>6, <5>1
      <4>2. f[1] = s[1]
        BY <4>1, ConcatEmptySeq
      <4> QED  BY <3>1, <4>2
    <3>2. CASE i # 1
      <4>1. i - 1 \in 1..n
        BY <1>0, <3>2
      <4> QED  BY <1>6, <3>2, <4>1
    <3> QED  BY <3>1, <3>2
  <2>2. h = Body(h)
    BY <2>1
  <2>3. r = Body(r)
    <3> HIDE DEF Body, h
    <3> QED  BY <2>2
  <2>4. \A i \in 1..n : r[i] = IF i = 1 THEN s[i] ELSE r[i - 1] \o s[i]
    <3> HIDE DEF r
    <3> QED  BY <2>3
  <2>5. FlattenSeq(s) = r[n]
    BY <1>8, <1>s, <1>n DEF FlattenSeq
  <2> HIDE DEF r, Body
  <2> DEFINE Q == {m \in Nat : m + 1 <= n => r[m + 1] = f[m + 1]}
  <2>6. 0 \in Q
    <3>1. 1 \in 1..n
      BY <1>0, <1>8
    <3>2. f[1] = <<>> \o s[1] /\ s[1] \in Seq(T) /\ r[1] = s[1]
      <4>1. 1 - 1 = 0
        OBVIOUS
      <4> QED  BY <1>1, <1>6, <2>4, <3>1, <4>1
    <3>3. f[1] = s[1]
      BY <3>2, ConcatEmptySeq
    <3> QED  BY <3>2, <3>3
  <2>7. ASSUME NEW m \in Nat, m \in Q PROVE m + 1 \in Q
    <3> SUFFICES ASSUME m + 1 + 1 <= n PROVE r[m + 1 + 1] = f[m + 1 + 1]
      OBVIOUS
    <3>1. m + 1 + 1 \in 1..n /\ m + 1 + 1 # 1 /\ (m + 1 + 1) - 1 = m + 1 /\ m + 1 <= n
      BY ONLY <1>0, m \in Nat, m + 1 + 1 <= n
    <3>2. r[m + 1] = f[m + 1]
      BY <2>7, <3>1
    <3> PICK k : k = m + 1 + 1
      OBVIOUS
    <3>3. r[k] = r[k - 1] \o s[k] /\ f[k] = f[k - 1] \o s[k]
      BY <1>6, <2>4, <3>1
    <3> QED  BY <3>1, <3>2, <3>3
  <2>8. n - 1 \in Q
    <3> HIDE DEF Q
    <3>1. n - 1 \in Nat
      BY <1>0, <1>8
    <3> QED  BY <2>6, <2>7, <3>1, Induction
  <2>9. (n - 1) + 1 = n /\ n <= n
    BY <1>0
  <2>10. r[n] = f[n]
    BY <2>8, <2>9, <1>0
  <2> QED  BY <2>5, <2>10
<1>9. Joins(f, n, s, T)
  BY <1>6, <1>n DEF Joins
<1> QED  BY <1>0, <1>7, <1>8, <1>9

LEMMA FunctionsAreSequences ==
  \A T, n, h : n \in Nat /\ h \in [1..n -> T] => h \in Seq(T) /\ Len(h) = n
OBVIOUS

LEMMA Associative ==
  \A T, r, s, t : r \in Seq(T) /\ s \in Seq(T) /\ t \in Seq(T) => (r \o s) \o t = r \o (s \o t)
BY ConcatAssociative

\* What every prefix of the sequences in a row keeps.
LEMMA JoinsKeep ==
  ASSUME NEW n \in Nat, NEW P, 0 \in P, \A i \in 1..n : i - 1 \in P => i \in P
  PROVE  0..n \subseteq P
<1> DEFINE Q == {m \in Nat : m <= n => m \in P}
<1>1. 0 \in Q
  OBVIOUS
<1>2. \A m \in Nat : m \in Q => m + 1 \in Q
  <2> TAKE m \in Nat
  <2>1. m + 1 <= n => m + 1 \in 1..n /\ (m + 1) - 1 = m /\ m <= n
    OBVIOUS
  <2> QED  BY <2>1
<1> HIDE DEF Q
<1>3. Nat \subseteq Q
  BY <1>1, <1>2, Induction
<1> QED  BY <1>3 DEF Q

\* A sequence is two in a row when it has their elements.
LEMMA IsConcat ==
  ASSUME NEW T, NEW r \in Seq(T), NEW s \in Seq(T), NEW t \in Seq(T),
         Len(r) = Len(s) + Len(t),
         \A i \in 1..Len(s) : r[i] = s[i],
         \A i \in 1..Len(t) : r[Len(s) + i] = t[i]
  PROVE  r = s \o t
<1> PICK m, n : m = Len(s) /\ n = Len(t)
  OBVIOUS
<1>1. /\ r \in Seq(T) /\ s \in Seq(T) /\ t \in Seq(T)
      /\ m = Len(s) /\ n = Len(t) /\ Len(r) = m + n
      /\ \A i \in 1..m : r[i] = s[i]
      /\ \A i \in 1..n : r[m + i] = t[i]
  OBVIOUS
<1>2. m \in Nat /\ n \in Nat
  BY <1>1
<1>3. /\ s \o t \in Seq(T) /\ Len(s \o t) = m + n
      /\ \A i \in 1..(m + n) : (s \o t)[i] = IF i <= m THEN s[i] ELSE t[i - m]
  BY <1>1, ConcatProperties
<1>4. ASSUME NEW i \in 1..(m + n) PROVE r[i] = (s \o t)[i]
  <2>1. CASE i <= m
    BY <1>1, <1>2, <1>3, <2>1
  <2>2. CASE ~(i <= m)
    <3>1. i - m \in 1..n /\ m + (i - m) = i
      BY <1>2, <2>2
    <3>2. r[m + (i - m)] = t[i - m]
      BY <1>1, <3>1
    <3> QED  BY <1>3, <2>2, <3>1, <3>2
  <2> QED  BY <2>1, <2>2
<1>5. PICK u : u = s \o t
  OBVIOUS
<1>6. u \in Seq(T) /\ Len(u) = Len(r) /\ \A i \in 1..Len(r) : r[i] = u[i]
  BY <1>1, <1>3, <1>4, <1>5
<1>7. r = u
  BY ONLY <1>6, r \in Seq(T), <1>1, SeqEqual
<1> QED  BY <1>5, <1>7

LEMMA FlattenType ==
  \A T, s : s \in Seq(Seq(T)) => FlattenSeq(s) \in Seq(T)
<1> TAKE T, s
<1>1. SUFFICES ASSUME s \in Seq(Seq(T)) PROVE FlattenSeq(s) \in Seq(T)
  OBVIOUS
<1> PICK n : n = Len(s)
  OBVIOUS
<1>2. PICK f : n \in Nat /\ Joins(f, n, s, T) /\ FlattenSeq(s) = f[n]
  BY <1>1, FlattenJoins
<1> QED  BY <1>2 DEF Joins

LEMMA FlattenRelated ==
  ASSUME NEW S, NEW T, NEW R, NEW s, NEW t
  PROVE  /\ s \in Seq(Seq(S)) /\ t \in Seq(Seq(T)) /\ Len(s) = Len(t)
         /\ <<<<>>, <<>>>> \in R
         /\ \A i \in 1..Len(s) : \A a \in Seq(S), b \in Seq(T) :
              <<a, b>> \in R => <<a \o s[i], b \o t[i]>> \in R
         => <<FlattenSeq(s), FlattenSeq(t)>> \in R
<1>0. SUFFICES ASSUME s \in Seq(Seq(S)), t \in Seq(Seq(T)), Len(s) = Len(t),
                      <<<<>>, <<>>>> \in R,
                      \A i \in 1..Len(s) : \A a \in Seq(S), b \in Seq(T) :
                        <<a, b>> \in R => <<a \o s[i], b \o t[i]>> \in R
               PROVE  <<FlattenSeq(s), FlattenSeq(t)>> \in R
  OBVIOUS
<1>n. PICK n : n = Len(s) /\ n = Len(t)
  BY <1>0
<1>1. PICK f : Joins(f, n, s, S) /\ FlattenSeq(s) = f[n]
  BY <1>0, <1>n, FlattenJoins
<1>f. /\ f \in [0..n -> Seq(S)] /\ f[0] = <<>>
      /\ \A i \in 1..n : f[i] = f[i - 1] \o s[i]
  BY <1>1 DEF Joins
<1>2. PICK g : Joins(g, n, t, T) /\ FlattenSeq(t) = g[n]
  BY <1>0, <1>n, FlattenJoins
<1>g. /\ g \in [0..n -> Seq(T)] /\ g[0] = <<>>
      /\ \A i \in 1..n : g[i] = g[i - 1] \o t[i]
  BY <1>2 DEF Joins
<1>3. n \in Nat
  BY <1>0, <1>n
<1> DEFINE P == {m \in 0..n : <<f[m], g[m]>> \in R}
<1>4. 0 \in P
  <2>1. 0 \in 0..n
    BY <1>3
  <2>2. <<f[0], g[0]>> \in R
    BY <1>0, <1>f, <1>g
  <2> QED  BY <2>1, <2>2
<1>5. ASSUME NEW i \in 1..n, i - 1 \in P PROVE i \in P
  <2>0. i - 1 \in 0..n /\ i \in 0..n
    BY <1>3
  <2>1. f[i - 1] \in Seq(S) /\ g[i - 1] \in Seq(T)
    BY <1>f, <1>g, <2>0
  <2>2. <<f[i - 1] \o s[i], g[i - 1] \o t[i]>> \in R
    BY <1>0, <1>n, <1>5, <2>1
  <2>3. f[i] = f[i - 1] \o s[i] /\ g[i] = g[i - 1] \o t[i]
    BY <1>f, <1>g
  <2> QED  BY <2>0, <2>2, <2>3
<1> HIDE DEF P
<1>6. 0..n \subseteq P
  BY <1>3, <1>4, <1>5, JoinsKeep
<1>7. n \in P
  BY <1>3, <1>6
<1> QED  BY <1>1, <1>2, <1>7 DEF P

\* What the row of two rows is.
LEMMA FlattenConcat ==
  \A T, s, t : s \in Seq(Seq(T)) /\ t \in Seq(Seq(T)) =>
    FlattenSeq(s \o t) = FlattenSeq(s) \o FlattenSeq(t)
<1> TAKE T, s, t
<1>s. SUFFICES ASSUME s \in Seq(Seq(T)), t \in Seq(Seq(T))
               PROVE  FlattenSeq(s \o t) = FlattenSeq(s) \o FlattenSeq(t)
  OBVIOUS
<1>n. PICK m, n : m = Len(s) /\ n = Len(t)
  OBVIOUS
<1>k. m \in Nat /\ n \in Nat
  BY <1>s, <1>n
<1>u. PICK u : u = s \o t
  OBVIOUS
<1>0. /\ u \in Seq(Seq(T)) /\ m + n = Len(u)
      /\ \A i \in 1..m : u[i] = s[i]
      /\ \A i \in 1..n : u[m + i] = t[i] /\ t[i] \in Seq(T)
  BY <1>s, <1>n, <1>u
<1>1. PICK f : Joins(f, m, s, T) /\ FlattenSeq(s) = f[m]
  BY <1>s, <1>n, FlattenJoins
<1>f. /\ f \in [0..m -> Seq(T)] /\ f[0] = <<>>
      /\ \A i \in 1..m : f[i] = f[i - 1] \o s[i]
  BY <1>1 DEF Joins
<1>2. PICK g : Joins(g, n, t, T) /\ FlattenSeq(t) = g[n]
  BY <1>s, <1>n, FlattenJoins
<1>g. /\ g \in [0..n -> Seq(T)] /\ g[0] = <<>>
      /\ \A i \in 1..n : g[i] = g[i - 1] \o t[i]
  BY <1>2 DEF Joins
<1>3. PICK h : Joins(h, m + n, u, T) /\ FlattenSeq(u) = h[m + n]
  BY <1>0, FlattenJoins
<1>h. /\ h \in [0..(m + n) -> Seq(T)] /\ h[0] = <<>>
      /\ \A i \in 1..(m + n) : h[i] = h[i - 1] \o u[i]
  BY <1>3 DEF Joins
<1>4. h[m] = f[m]
  <2> DEFINE P == {i \in 0..m : h[i] = f[i]}
  <2>1. 0 \in P
    BY <1>k, <1>f, <1>h
  <2>2. ASSUME NEW i \in 1..m, i - 1 \in P PROVE i \in P
    <3>0. i \in 1..(m + n) /\ i \in 0..m
      BY <1>k
    <3>1. h[i] = h[i - 1] \o s[i]
      BY <1>0, <1>h, <3>0
    <3>2. f[i] = f[i - 1] \o s[i]
      BY <1>f
    <3> QED  BY <2>2, <3>0, <3>1, <3>2
  <2> HIDE DEF P
  <2>3. 0..m \subseteq P
    BY <1>k, <2>1, <2>2, JoinsKeep
  <2> QED  BY <1>k, <2>3 DEF P
<1>5. h[m + n] = f[m] \o g[n]
  <2> DEFINE P == {i \in 0..n : h[m + i] = f[m] \o g[i]}
  <2>m. f[m] \in Seq(T)
    BY <1>k, <1>f
  <2>1. 0 \in P
    <3>1. f[m] \o <<>> = f[m]
      BY <2>m, ConcatEmptySeq
    <3>2. 0 \in 0..n /\ m + 0 = m
      BY <1>k
    <3>3. h[m + 0] = f[m] \o g[0]
      BY <1>g, <1>4, <3>1, <3>2
    <3> QED  BY <3>2, <3>3
  <2>2. ASSUME NEW i \in 1..n, i - 1 \in P PROVE i \in P
    <3>1. m + i \in 1..(m + n) /\ (m + i) - 1 = m + (i - 1) /\ i - 1 \in 0..n /\ i \in 0..n
      BY <1>k
    <3>2. h[m + i] = h[(m + i) - 1] \o u[m + i]
      BY <1>h, <3>1
    <3>3. u[m + i] = t[i] /\ t[i] \in Seq(T)
      BY <1>0
    <3>4. h[m + i] = (f[m] \o g[i - 1]) \o t[i]
      BY <2>2, <3>1, <3>2, <3>3
    <3>5. g[i - 1] \in Seq(T)
      BY <1>g, <3>1
    <3>6. (f[m] \o g[i - 1]) \o t[i] = f[m] \o (g[i - 1] \o t[i])
      <4>1. PICK a, b, c : a = f[m] /\ b = g[i - 1] /\ c = t[i]
        OBVIOUS
      <4>2. a \in Seq(T) /\ b \in Seq(T) /\ c \in Seq(T)
        BY <2>m, <3>3, <3>5, <4>1
      <4>3. (a \o b) \o c = a \o (b \o c)
        BY ONLY <4>2, Associative
      <4> QED  BY <4>1, <4>3
    <3>7. g[i] = g[i - 1] \o t[i]
      BY <1>g
    <3> QED  BY <3>1, <3>4, <3>6, <3>7
  <2> HIDE DEF P
  <2>3. 0..n \subseteq P
    BY <1>k, <2>1, <2>2, JoinsKeep
  <2>4. n \in P
    BY <1>k, <2>3
  <2> QED  BY <2>4 DEF P
<1>6. FlattenSeq(s) = f[m] /\ FlattenSeq(t) = g[n] /\ FlattenSeq(u) = h[m + n]
  BY <1>1, <1>2, <1>3
<1> QED  BY ONLY <1>u, <1>5, <1>6

LEMMA FlattenNone == FlattenSeq(<<>>) = <<>>
BY DEF FlattenSeq

LEMMA FlattenOne ==
  \A T, x : x \in Seq(T) => FlattenSeq(<<x>>) = x
<1> TAKE T, x
<1>1. SUFFICES ASSUME x \in Seq(T) PROVE FlattenSeq(<<x>>) = x
  OBVIOUS
<1>2. PICK s, n : s = <<x>> /\ n = 1
  OBVIOUS
<1>3. s \in Seq(Seq(T)) /\ n = Len(s) /\ s[1] = x
  BY <1>1, <1>2
<1>4. PICK f : Joins(f, n, s, T) /\ FlattenSeq(s) = f[n]
  BY ONLY <1>3, FlattenJoins
<1>5. 1 \in 1..n /\ 1 - 1 = 0
  BY <1>2
<1>6. f[1] = <<>> \o x
  BY <1>3, <1>4, <1>5 DEF Joins
<1>7. <<>> \o x = x
  BY ONLY <1>1, ConcatEmptySeq
<1> QED  BY ONLY <1>2, <1>4, <1>6, <1>7

LEMMA FlattenEmpties ==
  \A T, s : s \in Seq(Seq(T)) /\ (\A i \in 1..Len(s) : s[i] = <<>>) => FlattenSeq(s) = <<>>
<1> TAKE T, s
<1>1. SUFFICES ASSUME s \in Seq(Seq(T)), \A i \in 1..Len(s) : s[i] = <<>>
               PROVE  FlattenSeq(s) = <<>>
  OBVIOUS
<1> DEFINE R == {<<<<>>, <<>>>>}
<1>2. ASSUME NEW i \in 1..Len(s), NEW a \in Seq(T), NEW b \in Seq(T), <<a, b>> \in R
      PROVE  <<a \o s[i], b \o s[i]>> \in R
  <2>1. a = <<>> /\ b = <<>> /\ s[i] = <<>>
    BY <1>1, <1>2
  <2>2. <<>> \o <<>> = <<>>
    BY EmptySeq, ConcatEmptySeq
  <2> QED  BY <2>1, <2>2
<1>3. <<<<>>, <<>>>> \in R
  OBVIOUS
<1> HIDE DEF R
<1>4. <<FlattenSeq(s), FlattenSeq(s)>> \in R
  BY <1>1, <1>2, <1>3, FlattenRelated
<1> QED  BY <1>4 DEF R

-----------------------------------------------------------------------------
(* What a printer executes, and how often a token comes. *)

\* What is bound into a text.
Data == Words \cup {"date"}

\* What is on its way to a printer.
Glyphs == Data \cup Commands \cup {"_5E", "_7E", "_5C", " "}

Tokens == Seq(Glyphs)

LEMMA TokensOfTwo ==
  \A a, b : a \in Tokens /\ b \in Tokens =>
    /\ a \o b \in Tokens /\ Len(a \o b) = Len(a) + Len(b)
    /\ Len(a) \in Nat /\ Len(b) \in Nat
    /\ DOMAIN a = 1..Len(a) /\ DOMAIN b = 1..Len(b)
    /\ DOMAIN (a \o b) = 1..(Len(a) + Len(b))
    /\ \A i \in 1..Len(a) : (a \o b)[i] = a[i] /\ a[i] \in Glyphs
    /\ \A i \in 1..Len(b) : (a \o b)[Len(a) + i] = b[i] /\ b[i] \in Glyphs
BY DEF Tokens

\* The same, as a fact about any sequences that have one type.
InTwo(r, s, t) == /\ Len(r) = Len(s) + Len(t)
                  /\ \A i \in 1..Len(s) : r[i] = s[i]
                  /\ \A i \in 1..Len(t) : r[Len(s) + i] = t[i]

LEMMA InTwoIsConcat ==
  \A T, r, s, t : r \in Seq(T) /\ s \in Seq(T) /\ t \in Seq(T) /\ InTwo(r, s, t) => r = s \o t
<1> TAKE T, r, s, t
<1>1. SUFFICES ASSUME r \in Seq(T), s \in Seq(T), t \in Seq(T), InTwo(r, s, t)
               PROVE  r = s \o t
  OBVIOUS
<1>2. /\ Len(r) = Len(s) + Len(t)
      /\ \A i \in 1..Len(s) : r[i] = s[i]
      /\ \A i \in 1..Len(t) : r[Len(s) + i] = t[i]
  BY <1>1 DEF InTwo
<1> QED  BY ONLY <1>1, <1>2, IsConcat

LEMMA TokensAssociate ==
  \A a, b, c : a \in Tokens /\ b \in Tokens /\ c \in Tokens => (a \o b) \o c = a \o (b \o c)
<1>1. PICK T : T = Glyphs
  OBVIOUS
<1>2. Tokens = Seq(T)
  BY <1>1 DEF Tokens
<1> QED  BY ONLY <1>2, Associative

LEMMA TokensInTwo ==
  \A a, b, c : a \in Tokens /\ b \in Tokens /\ c \in Tokens /\ InTwo(c, a, b) => c = a \o b
BY InTwoIsConcat DEF Tokens

Ones(s) == [i \in DOMAIN s |-> IF s[i] \in Commands THEN <<s[i]>> ELSE <<>>]

LEMMA OnesType ==
  \A s : s \in Tokens => Ones(s) \in Seq(Tokens) /\ Len(Ones(s)) = Len(s)
<1> TAKE s
<1>1. SUFFICES ASSUME s \in Tokens PROVE Ones(s) \in Seq(Tokens) /\ Len(Ones(s)) = Len(s)
  OBVIOUS
<1>2. Len(s) \in Nat /\ DOMAIN s = 1..Len(s)
  BY <1>1 DEF Tokens
<1>3. ASSUME NEW i \in 1..Len(s) PROVE Ones(s)[i] \in Tokens
  <2>1. s[i] \in Glyphs
    BY <1>1, <1>2 DEF Tokens
  <2>2. <<s[i]>> \in Tokens /\ <<>> \in Tokens
    BY <2>1 DEF Tokens
  <2> QED  BY <1>2, <2>2 DEF Ones
<1>4. Ones(s) \in [1..Len(s) -> Tokens]
  BY <1>2, <1>3 DEF Ones
<1> QED  BY <1>2, <1>4, FunctionsAreSequences

LEMMA ExecutedOnes ==
  \A s : s \in Tokens => Executed(s) = FlattenSeq(Ones(s)) /\ Executed(s) \in Tokens
<1> TAKE s
<1>1. SUFFICES ASSUME s \in Tokens
               PROVE  Executed(s) = FlattenSeq(Ones(s)) /\ Executed(s) \in Tokens
  OBVIOUS
<1>2. Executed(s) = FlattenSeq(Ones(s))
  BY DEF Executed, Those, Ones
<1>3. FlattenSeq(Ones(s)) \in Tokens
  BY <1>1, OnesType, FlattenType DEF Tokens
<1> QED  BY <1>2, <1>3

LEMMA ExecutedConcat ==
  \A a, b : a \in Tokens /\ b \in Tokens => Executed(a \o b) = Executed(a) \o Executed(b)
<1> TAKE a, b
<1>1. SUFFICES ASSUME a \in Tokens, b \in Tokens
               PROVE  Executed(a \o b) = Executed(a) \o Executed(b)
  OBVIOUS
<1>2. PICK s : s = a \o b
  OBVIOUS
<1>3. PICK m, n : m = Len(a) /\ n = Len(b)
  OBVIOUS
<1>4. /\ s \in Tokens /\ Len(s) = m + n /\ DOMAIN s = 1..(m + n) /\ m \in Nat /\ n \in Nat
      /\ DOMAIN a = 1..m /\ DOMAIN b = 1..n
      /\ \A i \in 1..m : s[i] = a[i]
      /\ \A i \in 1..n : s[m + i] = b[i]
  BY <1>1, <1>2, <1>3, TokensOfTwo
<1>5. PICK p, q, r : p = Ones(a) /\ q = Ones(b) /\ r = Ones(s)
  OBVIOUS
<1>6. /\ p \in Seq(Tokens) /\ q \in Seq(Tokens) /\ r \in Seq(Tokens)
      /\ Len(p) = m /\ Len(q) = n /\ Len(r) = m + n
  BY <1>1, <1>3, <1>4, <1>5, OnesType
<1>7. \A i \in 1..m : r[i] = p[i]
  BY <1>4, <1>5 DEF Ones
<1>8. \A i \in 1..n : r[m + i] = q[i]
  BY <1>4, <1>5 DEF Ones
<1>9. r = p \o q
  <2>1. /\ Len(r) = Len(p) + Len(q)
        /\ \A i \in 1..Len(p) : r[i] = p[i]
        /\ \A i \in 1..Len(q) : r[Len(p) + i] = q[i]
    BY ONLY <1>6, <1>7, <1>8
  <2>2. InTwo(r, p, q)
    BY ONLY <2>1 DEF InTwo
  <2> QED  BY ONLY <1>6, <2>2, InTwoIsConcat
<1>10. FlattenSeq(r) = FlattenSeq(p) \o FlattenSeq(q)
  BY <1>6, <1>9, FlattenConcat DEF Tokens
<1>11. /\ Executed(a) = FlattenSeq(p) /\ Executed(b) = FlattenSeq(q)
       /\ Executed(s) = FlattenSeq(r)
  BY <1>1, <1>4, <1>5, ExecutedOnes
<1> QED  BY <1>2, <1>10, <1>11

LEMMA ExecutedNothing ==
  \A s : s \in Seq(Glyphs \ Commands) => Executed(s) = <<>>
<1> TAKE s
<1>1. SUFFICES ASSUME s \in Seq(Glyphs \ Commands) PROVE Executed(s) = <<>>
  OBVIOUS
<1>2. s \in Tokens /\ DOMAIN s = 1..Len(s) /\ \A i \in 1..Len(s) : s[i] \notin Commands
  BY <1>1 DEF Tokens
<1>3. \A i \in 1..Len(s) : Ones(s)[i] = <<>>
  BY <1>2 DEF Ones
<1>4. Ones(s) \in Seq(Tokens) /\ Len(Ones(s)) = Len(s)
  BY <1>2, OnesType
<1>5. FlattenSeq(Ones(s)) = <<>>
  BY <1>3, <1>4, FlattenEmpties DEF Tokens
<1> QED  BY <1>2, <1>5, ExecutedOnes

LEMMA ExecutedCommands ==
  /\ \A x \in Commands : Executed(<<x>>) = <<x>>
  /\ \A x, y \in Commands : Executed(<<x, y>>) = <<x, y>>
  /\ \A x, y, z \in Commands : Executed(<<x, y, z>>) = <<x, y, z>>
<1>0. \A x \in Commands : x \in Glyphs
  BY DEF Glyphs
<1>1. ASSUME NEW x \in Commands PROVE Executed(<<x>>) = <<x>> /\ <<x>> \in Tokens
  <2>1. <<x>> \in Tokens
    BY <1>0 DEF Tokens
  <2>2. Ones(<<x>>) = <<<<x>>>>
    BY DEF Ones
  <2> QED  BY <2>1, <2>2, ExecutedOnes, FlattenOne DEF Tokens
<1>2. ASSUME NEW x \in Commands, NEW y \in Commands
      PROVE  Executed(<<x, y>>) = <<x, y>> /\ <<x, y>> \in Tokens
  <2>1. PICK a, b, c : a = <<x>> /\ b = <<y>> /\ c = <<x, y>>
    OBVIOUS
  <2>2. a \in Tokens /\ b \in Tokens /\ c \in Tokens
    BY <1>0, <2>1 DEF Tokens
  <2>3. Len(a) = 1 /\ Len(b) = 1 /\ Len(c) = 2 /\ c[1] = a[1] /\ c[2] = b[1]
    BY <2>1
  <2>4. c = a \o b
    <3>1. InTwo(c, a, b)
      BY ONLY <2>3 DEF InTwo
    <3> QED  BY ONLY <2>2, <3>1, TokensInTwo
  <2>5. Executed(a) = a /\ Executed(b) = b
    BY <1>1, <2>1
  <2>6. Executed(c) = c
    <3>1. Executed(a \o b) = Executed(a) \o Executed(b)
      BY ONLY <2>2, ExecutedConcat
    <3> QED  BY ONLY <2>4, <2>5, <3>1
  <2> QED  BY <2>1, <2>2, <2>6
<1>3. ASSUME NEW x \in Commands, NEW y \in Commands, NEW z \in Commands
      PROVE  Executed(<<x, y, z>>) = <<x, y, z>>
  <2>1. PICK a, b, c : a = <<x, y>> /\ b = <<z>> /\ c = <<x, y, z>>
    OBVIOUS
  <2>2. a \in Tokens /\ b \in Tokens /\ c \in Tokens
    BY <1>0, <2>1 DEF Tokens
  <2>3. /\ Len(a) = 2 /\ Len(b) = 1 /\ Len(c) = 3
        /\ c[1] = a[1] /\ c[2] = a[2] /\ c[3] = b[1]
    BY <2>1
  <2>4. c = a \o b
    <3>1. InTwo(c, a, b)
      BY ONLY <2>3 DEF InTwo
    <3> QED  BY ONLY <2>2, <3>1, TokensInTwo
  <2>5. Executed(a) = a /\ Executed(b) = b
    BY <1>1, <1>2, <2>1
  <2>6. Executed(c) = c
    <3>1. Executed(a \o b) = Executed(a) \o Executed(b)
      BY ONLY <2>2, ExecutedConcat
    <3> QED  BY ONLY <2>4, <2>5, <3>1
  <2> QED  BY <2>1, <2>6
<1> QED  BY <1>1, <1>2, <1>3

CountOf(s, token) == Cardinality({i \in DOMAIN s : s[i] = token})

LEMMA CountConcat ==
  \A a, b, c : a \in Tokens /\ b \in Tokens =>
    CountOf(a \o b, c) = CountOf(a, c) + CountOf(b, c) /\ CountOf(a, c) \in Nat
<1> TAKE a, b, c
<1>1. SUFFICES ASSUME a \in Tokens, b \in Tokens
               PROVE  CountOf(a \o b, c) = CountOf(a, c) + CountOf(b, c) /\ CountOf(a, c) \in Nat
  OBVIOUS
<1>2. PICK s, m, n : s = a \o b /\ m = Len(a) /\ n = Len(b)
  OBVIOUS
<1>3. /\ DOMAIN s = 1..(m + n) /\ m \in Nat /\ n \in Nat
      /\ DOMAIN a = 1..m /\ DOMAIN b = 1..n
      /\ \A i \in 1..m : s[i] = a[i]
      /\ \A i \in 1..n : s[m + i] = b[i]
  BY <1>1, <1>2, TokensOfTwo
<1>4. PICK A, B, Z : /\ A = {i \in DOMAIN a : a[i] = c}
                     /\ B = {i \in DOMAIN b : b[i] = c}
                     /\ Z = {i \in DOMAIN s : s[i] = c}
  OBVIOUS
<1>5. A \subseteq 1..m /\ B \subseteq 1..n
  BY <1>3, <1>4
<1>6. IsFiniteSet(A) /\ IsFiniteSet(B)
  <2>1. IsFiniteSet(1..m) /\ IsFiniteSet(1..n)
    BY <1>3, FS_Interval
  <2> QED  BY <1>5, <2>1, FS_Subset
<1> DEFINE move == [i \in B |-> m + i]
           moved == {m + i : i \in B}
<1>7. IsFiniteSet(moved) /\ Cardinality(moved) = Cardinality(B)
  <2>1. \A i, j \in B : m + i = m + j => i = j
    BY <1>3, <1>5
  <2>2. move \in Bijection(B, moved)
    BY <2>1 DEF Bijection, Injection, Surjection, IsInjective
  <2> QED  BY <1>6, <2>2, FS_Bijection DEF ExistsBijection
<1>8. Z = A \cup moved
  <2>1. \A i \in Z : i \in A \/ i \in moved
    <3> TAKE i \in Z
    <3>1. i \in 1..(m + n) /\ s[i] = c
      BY <1>3, <1>4
    <3>2. i \in 1..m \/ (i - m \in 1..n /\ i = m + (i - m))
      BY <1>3, <3>1
    <3> QED  BY <1>3, <1>4, <3>1, <3>2
  <2>2. \A i \in A : i \in Z
    BY <1>3, <1>4
  <2>3. \A i \in B : m + i \in Z
    <3> TAKE i \in B
    <3>1. i \in 1..n /\ m + i \in 1..(m + n) /\ b[i] = c
      BY <1>3, <1>4
    <3> QED  BY <1>3, <1>4, <3>1
  <2> QED  BY <2>1, <2>2, <2>3
<1>9. A \cap moved = {}
  BY <1>3, <1>5
<1> HIDE DEF moved, move
<1>10. Cardinality(A \cap moved) = 0
  BY <1>9, FS_EmptySet
<1>11. /\ Cardinality(A \cup moved)
            = Cardinality(A) + Cardinality(moved) - Cardinality(A \cap moved)
       /\ Cardinality(A) \in Nat /\ Cardinality(B) \in Nat
  BY <1>6, <1>7, FS_Union, FS_CardinalityType
<1>12. Cardinality(Z) = Cardinality(A) + Cardinality(B)
  BY <1>7, <1>8, <1>10, <1>11
<1> QED  BY <1>2, <1>4, <1>11, <1>12 DEF CountOf

-----------------------------------------------------------------------------
(* The fields of a label. *)

\* The command at j is the next one after i.
Ends(s, i, j) ==
  /\ j \in DOMAIN s /\ j > i /\ s[j] \in Commands
  /\ \A k \in (i + 1)..(j - 1) : s[k] \notin Commands

\* Every field ends.
Closed(s) ==
  \A i \in DOMAIN s : s[i] = "^FD" => \E j \in DOMAIN s : j > i /\ s[j] \in Commands

Texts(s) ==
  [i \in DOMAIN s |-> IF s[i] = "^FD" THEN <<SubSeq(s, i + 1, FieldEnd(s, i) - 1)>> ELSE <<>>]

LEMMA EndIsField ==
  ASSUME NEW s \in Tokens, NEW i \in DOMAIN s, NEW j, Ends(s, i, j)
  PROVE  FieldEnd(s, i) = j
<1>1. DOMAIN s \subseteq Nat
  BY DEF Tokens
<1> DEFINE e == FieldEnd(s, i)
<1>2. Ends(s, i, e)
  BY DEF Ends, FieldEnd
<1>3. j \in Nat /\ e \in Nat /\ i \in Nat /\ j > i /\ e > i
  BY <1>1, <1>2 DEF Ends
<1>4. ~(j < e)
  <2>1. j < e => j \in (i + 1)..(e - 1)
    BY ONLY <1>3
  <2> HIDE DEF e
  <2> QED  BY <1>2, <2>1 DEF Ends
<1>5. ~(e < j)
  <2>1. e < j => e \in (i + 1)..(j - 1)
    BY ONLY <1>3
  <2> HIDE DEF e
  <2> QED  BY <1>2, <2>1 DEF Ends
<1> QED  BY <1>3, <1>4, <1>5

LEMMA FieldHasEnd ==
  ASSUME NEW s \in Tokens, Closed(s), NEW i \in DOMAIN s, s[i] = "^FD"
  PROVE  Ends(s, i, FieldEnd(s, i))
<1>1. DOMAIN s \subseteq Nat
  BY DEF Tokens
<1> DEFINE later == {j \in DOMAIN s : j > i /\ s[j] \in Commands}
<1>2. later # {} /\ later \in SUBSET Nat
  BY <1>1 DEF Closed
<1>3. PICK j \in later : \A k \in later : j <= k
  <2> HIDE DEF later
  <2> QED  BY <1>2, LeastNumber
<1>4. ASSUME NEW k \in (i + 1)..(j - 1) PROVE s[k] \notin Commands
  <2>1. i \in Nat /\ j \in Nat /\ DOMAIN s = 1..Len(s) /\ Len(s) \in Nat /\ j <= Len(s)
    BY <1>1 DEF Tokens
  <2>2. k \in Nat /\ k > i /\ k < j
    BY <2>1
  <2>3. k \in DOMAIN s
    BY <2>1, <2>2
  <2>4. k \notin later
    <3> HIDE DEF later
    <3>1. j \in Nat
      BY <2>1
    <3> QED  BY <1>3, <2>2, <3>1
  <2> QED  BY <2>2, <2>3, <2>4
<1>5. Ends(s, i, j)
  BY <1>3, <1>4 DEF Ends
<1> QED  BY <1>5, EndIsField

LEMMA SameSubSeq ==
  ASSUME NEW T, NEW s, NEW t, NEW i \in Int, NEW j \in Int, NEW d \in Int,
         \A k \in i..j : s[k] \in T /\ t[k + d] = s[k]
  PROVE  SubSeq(t, i + d, j + d) = SubSeq(s, i, j) /\ SubSeq(s, i, j) \in Seq(T)
<1>1. PICK m, n : m = i + d /\ n = j + d
  OBVIOUS
<1>2. m \in Int /\ n \in Int /\ n - m = j - i
  BY <1>1
<1>3. ASSUME NEW k \in m..n PROVE t[k] \in T
  <2>1. k - d \in i..j /\ (k - d) + d = k
    BY <1>1, <1>2
  <2>2. s[k - d] \in T /\ t[(k - d) + d] = s[k - d]
    BY <2>1
  <2> QED  BY <2>1, <2>2
<1>4. PICK u, v : u = SubSeq(t, m, n) /\ v = SubSeq(s, i, j)
  OBVIOUS
<1>5. /\ u \in Seq(T) /\ Len(u) = IF m <= n THEN n - m + 1 ELSE 0
      /\ \A k \in 1..(n - m + 1) : u[k] = t[m + k - 1]
  BY <1>2, <1>3, <1>4, SubSeqProperties
<1>6. /\ v \in Seq(T) /\ Len(v) = IF i <= j THEN j - i + 1 ELSE 0
      /\ \A k \in 1..(j - i + 1) : v[k] = s[i + k - 1]
  BY <1>4, SubSeqProperties
<1>7. Len(u) = Len(v)
  BY <1>1, <1>2, <1>5, <1>6
<1>8. ASSUME NEW k \in 1..Len(u) PROVE u[k] = v[k]
  <2>1. k \in 1..(j - i + 1) /\ k \in 1..(n - m + 1)
    BY <1>1, <1>2, <1>5
  <2>2. i + k - 1 \in i..j /\ (i + k - 1) + d = m + k - 1
    BY <1>1, <2>1
  <2>3. t[(i + k - 1) + d] = s[i + k - 1]
    BY <2>2
  <2> QED  BY <1>5, <1>6, <2>1, <2>2, <2>3
<1>9. u = v
  BY ONLY <1>5, <1>6, <1>7, <1>8, SeqEqual
<1> QED  BY <1>1, <1>4, <1>6, <1>9

LEMMA TextsType ==
  ASSUME NEW s \in Tokens, Closed(s)
  PROVE  Texts(s) \in Seq(Seq(Tokens)) /\ Len(Texts(s)) = Len(s)
<1>1. Len(s) \in Nat /\ DOMAIN s = 1..Len(s) /\ \A i \in 1..Len(s) : s[i] \in Glyphs
  BY DEF Tokens
<1>2. ASSUME NEW i \in 1..Len(s) PROVE Texts(s)[i] \in Seq(Tokens)
  <2>1. CASE s[i] = "^FD"
    <3>1. PICK j : j = FieldEnd(s, i)
      OBVIOUS
    <3>2. j \in 1..Len(s) /\ j > i
      BY <1>1, <2>1, <3>1, FieldHasEnd DEF Ends
    <3>3. SubSeq(s, i + 1, j - 1) \in Tokens
      <4>1. i + 1 \in Int /\ j - 1 \in Int /\ (i + 1)..(j - 1) \subseteq 1..Len(s)
        BY <1>1, <3>2
      <4> QED  BY <1>1, <4>1, SubSeqProperties DEF Tokens
    <3>4. Texts(s)[i] = <<SubSeq(s, i + 1, j - 1)>>
      BY <1>1, <2>1, <3>1 DEF Texts
    <3> QED  BY <3>3, <3>4
  <2>2. CASE s[i] # "^FD"
    BY <1>1, <2>2 DEF Texts
  <2> QED  BY <2>1, <2>2
<1>3. Texts(s) \in [1..Len(s) -> Seq(Tokens)]
  BY <1>1, <1>2 DEF Texts
<1> QED  BY <1>1, <1>3, FunctionsAreSequences

LEMMA ClosedTexts ==
  \A s : s \in Tokens /\ Closed(s) => PrintedFields(s) = FlattenSeq(Texts(s))
<1> TAKE s
<1>1. SUFFICES ASSUME s \in Tokens, Closed(s) PROVE PrintedFields(s) = FlattenSeq(Texts(s))
  OBVIOUS
<1>2. \A i \in DOMAIN s : s[i] = "^FD" => Finished(s, i)
  BY <1>1 DEF Closed, Finished
<1>3. Texts(s) = [i \in DOMAIN s |->
                    IF s[i] = "^FD" /\ Finished(s, i)
                    THEN <<SubSeq(s, i + 1, FieldEnd(s, i) - 1)>> ELSE <<>>]
  BY <1>2 DEF Texts
<1> QED  BY <1>3 DEF PrintedFields

LEMMA PrintedConcat ==
  ASSUME NEW a \in Tokens, NEW b \in Tokens, Closed(a), Closed(b)
  PROVE  /\ Closed(a \o b)
         /\ PrintedFields(a \o b) = PrintedFields(a) \o PrintedFields(b)
<1>2. PICK s, m, n : s = a \o b /\ m = Len(a) /\ n = Len(b)
  OBVIOUS
<1>4. /\ s \in Tokens /\ Len(s) = m + n /\ DOMAIN s = 1..(m + n) /\ m \in Nat /\ n \in Nat
      /\ DOMAIN a = 1..m /\ DOMAIN b = 1..n
      /\ \A i \in 1..m : s[i] = a[i] /\ a[i] \in Glyphs
      /\ \A i \in 1..n : s[m + i] = b[i] /\ b[i] \in Glyphs
  <2>1. a \in Tokens /\ b \in Tokens
    OBVIOUS
  <2>2. /\ s \in Tokens /\ Len(s) = m + n /\ DOMAIN s = 1..(m + n) /\ m \in Nat /\ n \in Nat
        /\ DOMAIN a = 1..m /\ DOMAIN b = 1..n
        /\ \A i \in 1..m : s[i] = a[i]
        /\ \A i \in 1..n : s[m + i] = b[i]
    BY ONLY <1>2, <2>1, TokensOfTwo
  <2>3. /\ \A i \in 1..m : a[i] \in Glyphs
        /\ \A i \in 1..n : b[i] \in Glyphs
    BY <1>2 DEF Tokens
  <2> QED  BY <2>2, <2>3
<1>5. ASSUME NEW i \in 1..m, a[i] = "^FD"
      PROVE  /\ \E j \in DOMAIN s : j > i /\ s[j] \in Commands
             /\ Texts(s)[i] = Texts(a)[i]
  <2>1. PICK j : j = FieldEnd(a, i)
    OBVIOUS
  <2>2. Ends(a, i, j)
    BY <1>4, <1>5, <2>1, FieldHasEnd
  <2>3. j \in 1..m /\ j > i /\ j \in 1..(m + n) /\ i \in 1..(m + n)
    BY <1>4, <2>2 DEF Ends
  <2>4. \A k \in (i + 1)..(j - 1) : k \in 1..m
    BY <1>4, <2>3
  <2>5. Ends(s, i, j)
    BY <1>4, <2>2, <2>3, <2>4 DEF Ends
  <2>6. FieldEnd(s, i) = j
    BY <1>4, <2>3, <2>5, EndIsField
  <2>7. SubSeq(s, i + 1, j - 1) = SubSeq(a, i + 1, j - 1)
    <3>1. /\ i + 1 \in Int /\ j - 1 \in Int /\ 0 \in Int
          /\ (i + 1) + 0 = i + 1 /\ (j - 1) + 0 = j - 1
          /\ \A k \in (i + 1)..(j - 1) : k + 0 = k
      BY <1>4, <2>3
    <3>2. \A k \in (i + 1)..(j - 1) : a[k] \in Glyphs /\ s[k + 0] = a[k]
      BY <1>4, <2>4, <3>1
    <3>3. SubSeq(s, (i + 1) + 0, (j - 1) + 0) = SubSeq(a, i + 1, j - 1)
      BY ONLY <3>1, <3>2, SameSubSeq
    <3> QED  BY <3>1, <3>3
  <2>8. s[i] = "^FD" /\ i \in DOMAIN s /\ i \in DOMAIN a
    BY <1>4, <1>5, <2>3
  <2> QED  BY <1>5, <2>1, <2>5, <2>6, <2>7, <2>8 DEF Texts, Ends
<1>6. ASSUME NEW i \in 1..n, b[i] = "^FD"
      PROVE  /\ \E j \in DOMAIN s : j > m + i /\ s[j] \in Commands
             /\ Texts(s)[m + i] = Texts(b)[i]
  <2>1. PICK j, x, y : j = FieldEnd(b, i) /\ x = m + i /\ y = m + j
    OBVIOUS
  <2>2. Ends(b, i, j)
    BY <1>4, <1>6, <2>1, FieldHasEnd
  <2>3. /\ j \in 1..n /\ j > i /\ y \in 1..(m + n) /\ x \in 1..(m + n) /\ y > x
        /\ x = m + i /\ y = m + j
    BY <1>4, <2>1, <2>2 DEF Ends
  <2>4. ASSUME NEW k \in (x + 1)..(y - 1) PROVE s[k] \notin Commands
    <3>1. k - m \in (i + 1)..(j - 1) /\ k - m \in 1..n /\ m + (k - m) = k
      BY <1>4, <2>3
    <3>2. b[k - m] \notin Commands
      BY <2>2, <3>1 DEF Ends
    <3>3. s[m + (k - m)] = b[k - m]
      BY <1>4, <3>1
    <3> QED  BY <3>1, <3>2, <3>3
  <2>5. Ends(s, x, y)
    <3>1. s[y] = b[j] /\ b[j] \in Commands
      BY <1>4, <2>2, <2>3 DEF Ends
    <3> QED  BY <1>4, <2>3, <2>4, <3>1 DEF Ends
  <2>6. FieldEnd(s, x) = y
    BY <1>4, <2>3, <2>5, EndIsField
  <2>7. SubSeq(s, x + 1, y - 1) = SubSeq(b, i + 1, j - 1)
    <3>1. /\ i + 1 \in Int /\ j - 1 \in Int /\ m \in Int
          /\ (i + 1) + m = x + 1 /\ (j - 1) + m = y - 1
      BY <1>4, <2>3
    <3>2. ASSUME NEW k \in (i + 1)..(j - 1) PROVE b[k] \in Glyphs /\ s[k + m] = b[k]
      <4>1. k \in 1..n /\ k + m = m + k
        BY <1>4, <2>3
      <4>2. s[m + k] = b[k] /\ b[k] \in Glyphs
        BY <1>4, <4>1
      <4> QED  BY <4>1, <4>2
    <3>3. SubSeq(s, (i + 1) + m, (j - 1) + m) = SubSeq(b, i + 1, j - 1)
      BY ONLY <3>1, <3>2, SameSubSeq
    <3> QED  BY <3>1, <3>3
  <2>8. s[x] = "^FD" /\ x \in DOMAIN s /\ i \in DOMAIN b
    BY <1>4, <1>6, <2>3
  <2>9. Texts(s)[x] = <<SubSeq(s, x + 1, y - 1)>>
    BY <2>6, <2>8 DEF Texts
  <2>10. Texts(b)[i] = <<SubSeq(b, i + 1, j - 1)>>
    BY <1>6, <2>1, <2>8 DEF Texts
  <2>11. y \in DOMAIN s /\ y > x /\ s[y] \in Commands
    BY <2>5 DEF Ends
  <2>12. Texts(s)[x] = Texts(b)[i]
    BY <2>7, <2>9, <2>10
  <2> QED  BY <2>3, <2>11, <2>12
<1>7. Closed(s)
  <2> SUFFICES ASSUME NEW i \in DOMAIN s, s[i] = "^FD"
               PROVE  \E j \in DOMAIN s : j > i /\ s[j] \in Commands
    BY DEF Closed
  <2>1. CASE i \in 1..m
    BY <1>4, <1>5, <2>1
  <2>2. CASE i \notin 1..m
    <3>1. i - m \in 1..n /\ m + (i - m) = i
      BY <1>4, <2>2
    <3>2. b[i - m] = "^FD"
      BY <1>4, <3>1
    <3> QED  BY <1>6, <3>1, <3>2
  <2> QED  BY <2>1, <2>2
<1>8. \A i \in 1..m : Texts(s)[i] = Texts(a)[i]
  <2> TAKE i \in 1..m
  <2>1. CASE a[i] = "^FD"
    BY <1>5, <2>1
  <2>2. CASE a[i] # "^FD"
    <3>1. i \in DOMAIN s /\ i \in DOMAIN a /\ s[i] # "^FD"
      BY <1>4, <2>2
    <3> QED  BY <2>2, <3>1 DEF Texts
  <2> QED  BY <2>1, <2>2
<1>9. \A i \in 1..n : Texts(s)[m + i] = Texts(b)[i]
  <2> TAKE i \in 1..n
  <2>1. CASE b[i] = "^FD"
    BY <1>6, <2>1
  <2>2. CASE b[i] # "^FD"
    <3>1. m + i \in DOMAIN s /\ i \in DOMAIN b /\ s[m + i] # "^FD"
      BY <1>4, <2>2
    <3> QED  BY <2>2, <3>1 DEF Texts
  <2> QED  BY <2>1, <2>2
<1>10. PICK p, q, r : p = Texts(a) /\ q = Texts(b) /\ r = Texts(s)
  OBVIOUS
<1>11. /\ p \in Seq(Seq(Tokens)) /\ q \in Seq(Seq(Tokens)) /\ r \in Seq(Seq(Tokens))
       /\ Len(p) = m /\ Len(q) = n /\ Len(r) = m + n
  BY <1>2, <1>4, <1>7, <1>10, TextsType
<1>12. r = p \o q
  <2>1. /\ Len(r) = Len(p) + Len(q)
        /\ \A i \in 1..Len(p) : r[i] = p[i]
        /\ \A i \in 1..Len(q) : r[Len(p) + i] = q[i]
    BY <1>8, <1>9, <1>10, <1>11
  <2>2. InTwo(r, p, q)
    BY ONLY <2>1 DEF InTwo
  <2> QED  BY ONLY <1>11, <2>2, InTwoIsConcat
<1>13. FlattenSeq(r) = FlattenSeq(p) \o FlattenSeq(q)
  BY <1>11, <1>12, FlattenConcat
<1>14. /\ PrintedFields(a) = FlattenSeq(p) /\ PrintedFields(b) = FlattenSeq(q)
       /\ PrintedFields(s) = FlattenSeq(r)
  <2>1. a \in Tokens /\ b \in Tokens /\ Closed(a) /\ Closed(b)
    OBVIOUS
  <2> QED  BY <1>4, <1>7, <1>10, <2>1, ClosedTexts
<1> QED  BY <1>2, <1>7, <1>13, <1>14

LEMMA PrintedNothing ==
  \A s : s \in Tokens /\ (\A i \in DOMAIN s : s[i] # "^FD") => Closed(s) /\ PrintedFields(s) = <<>>
<1> TAKE s
<1>1. SUFFICES ASSUME s \in Tokens, \A i \in DOMAIN s : s[i] # "^FD"
               PROVE  Closed(s) /\ PrintedFields(s) = <<>>
  OBVIOUS
<1>2. Closed(s)
  BY <1>1 DEF Closed
<1>3. Texts(s) \in Seq(Seq(Tokens)) /\ Len(Texts(s)) = Len(s) /\ DOMAIN s = 1..Len(s)
  BY <1>1, <1>2, TextsType DEF Tokens
<1>4. \A i \in 1..Len(s) : Texts(s)[i] = <<>>
  BY <1>1, <1>3 DEF Texts
<1>5. FlattenSeq(Texts(s)) = <<>>
  BY <1>3, <1>4, FlattenEmpties
<1> QED  BY <1>1, <1>2, <1>5, ClosedTexts

LEMMA PrintedOne ==
  ASSUME NEW v \in Seq(Glyphs \ Commands)
  PROVE  LET s == <<"^FD">> \o v \o <<"^FS">>
         IN  s \in Tokens /\ Closed(s) /\ PrintedFields(s) = <<v>>
<1>1. PICK s, n : s = <<"^FD">> \o v \o <<"^FS">> /\ n = Len(v)
  OBVIOUS
<1>2. "^FD" \in Commands /\ "^FS" \in Commands /\ "^FS" # "^FD" /\ Commands \subseteq Glyphs
  BY DEF Commands, Glyphs
<1>3. PICK fd, fs : fd = "^FD" /\ fs = "^FS"
  OBVIOUS
<1>4. /\ n \in Nat /\ s \in Tokens /\ Len(s) = n + 2 /\ DOMAIN s = 1..(n + 2)
      /\ s[1] = fd /\ s[n + 2] = fs
      /\ \A i \in 1..n : s[i + 1] = v[i] /\ v[i] \in Glyphs /\ v[i] \notin Commands
  <2>1. PICK u : u = <<fd>> \o v
    OBVIOUS
  <2>2. /\ n \in Nat /\ u \in Tokens /\ Len(u) = n + 1 /\ u[1] = fd
        /\ \A i \in 1..n : u[i + 1] = v[i]
    BY <1>1, <1>2, <1>3, <2>1 DEF Tokens
  <2>3. s = u \o <<fs>> /\ <<fs>> \in Tokens
    BY <1>1, <1>2, <1>3, <2>1 DEF Tokens
  <2>4. /\ s \in Tokens /\ Len(s) = n + 2 /\ DOMAIN s = 1..(n + 2)
        /\ \A i \in 1..(n + 1) : s[i] = u[i]
        /\ s[n + 2] = fs
    BY <2>2, <2>3 DEF Tokens
  <2>5. \A i \in 1..n : i + 1 \in 1..(n + 1) /\ v[i] \in Glyphs /\ v[i] \notin Commands
    BY <1>1, <2>2
  <2>6. 1 \in 1..(n + 1)
    BY <2>2
  <2> QED  BY <2>2, <2>4, <2>5, <2>6
<1>5. \A k \in 2..(n + 1) : s[k] = v[k - 1] /\ s[k] \in Glyphs /\ s[k] \notin Commands
  <2> TAKE k \in 2..(n + 1)
  <2>1. k - 1 \in 1..n /\ (k - 1) + 1 = k
    BY <1>4
  <2>2. s[(k - 1) + 1] = v[k - 1]
    BY <1>4, <2>1
  <2> QED  BY <1>4, <2>1, <2>2
<1>6. Ends(s, 1, n + 2)
  <2>1. n + 2 > 1 /\ n + 2 \in 1..(n + 2) /\ (1 + 1)..((n + 2) - 1) = 2..(n + 1)
    BY <1>4
  <2> QED  BY <1>2, <1>3, <1>4, <1>5, <2>1 DEF Ends
<1>7. \A i \in 1..(n + 2) : i # 1 => s[i] # fd
  <2> TAKE i \in 1..(n + 2)
  <2>1. i = 1 \/ i \in 2..(n + 1) \/ i = n + 2
    BY <1>4
  <2> QED  BY <1>2, <1>3, <1>4, <1>5, <2>1
<1>8. Closed(s)
  BY <1>3, <1>4, <1>6, <1>7 DEF Closed, Ends
<1>9. FieldEnd(s, 1) = n + 2
  <2>1. 1 \in DOMAIN s
    BY <1>4
  <2> QED  BY <1>4, <1>6, <2>1, EndIsField
<1>10. SubSeq(s, 1 + 1, (n + 2) - 1) = v
  <2>1. \A k \in 1..n : v[k] \in Glyphs /\ s[k + 1] = v[k]
    BY <1>4
  <2>2. /\ 1 \in Int /\ n \in Int
        /\ (n + 2) - 1 = n + 1
    BY <1>4
  <2>3. SubSeq(s, 1 + 1, n + 1) = SubSeq(v, 1, n)
    BY <2>1, <2>2, SameSubSeq
  <2>4. SubSeq(v, 1, n) = v
    BY <1>1, SubSeqFull
  <2> QED  BY <2>2, <2>3, <2>4
<1>11. PICK p : p = Texts(s)
  OBVIOUS
<1>12. p \in Seq(Seq(Tokens)) /\ Len(p) = n + 2
  BY <1>4, <1>8, <1>11, TextsType
<1>13. p[1] = <<v>>
  <2>1. 1 \in DOMAIN s /\ s[1] = "^FD"
    BY <1>3, <1>4
  <2>2. p[1] = <<SubSeq(s, 1 + 1, FieldEnd(s, 1) - 1)>>
    BY <1>11, <2>1 DEF Texts
  <2> QED  BY <1>9, <1>10, <2>2
<1>14. \A i \in 1..(n + 2) : i # 1 => p[i] = <<>>
  BY <1>3, <1>4, <1>7, <1>11 DEF Texts
<1>15. PICK first, rest : first = <<p[1]>> /\ rest = SubSeq(p, 2, n + 2)
  OBVIOUS
<1>16. /\ first \in Seq(Seq(Tokens)) /\ rest \in Seq(Seq(Tokens))
       /\ Len(first) = 1 /\ first[1] = p[1] /\ Len(rest) = n + 1
       /\ \A i \in 1..(n + 1) : rest[i] = p[i + 1]
  <2>1. 1 \in 1..(n + 2) /\ 2 \in Int /\ n + 2 \in Int /\ 2 <= n + 2 /\ (n + 2) - 2 + 1 = n + 1
    BY <1>4
  <2>2. \A i \in 1..(n + 2) : p[i] \in Seq(Tokens)
    BY <1>4, <1>12
  <2>3. \A i \in 2..(n + 2) : p[i] \in Seq(Tokens)
    BY <1>4, <2>2
  <2>4. /\ rest \in Seq(Seq(Tokens)) /\ Len(rest) = n + 1
        /\ \A i \in 1..((n + 2) - 2 + 1) : rest[i] = p[2 + i - 1]
    BY <1>15, <2>1, <2>3, SubSeqProperties
  <2>5. \A i \in 1..(n + 1) : 2 + i - 1 = i + 1
    OBVIOUS
  <2>6. first \in Seq(Seq(Tokens)) /\ Len(first) = 1 /\ first[1] = p[1]
    BY <1>15, <2>1, <2>2
  <2> QED  BY <2>1, <2>4, <2>5, <2>6
<1>17. p = first \o rest
  <2>1. /\ Len(p) = Len(first) + Len(rest)
        /\ \A i \in 1..Len(first) : p[i] = first[i]
        /\ \A i \in 1..Len(rest) : p[Len(first) + i] = rest[i]
    <3>1. Len(p) = n + 2 /\ Len(first) = 1 /\ Len(rest) = n + 1 /\ first[1] = p[1]
      BY ONLY <1>12, <1>16
    <3>2. Len(p) = Len(first) + Len(rest)
      BY <1>4, <3>1
    <3>3. \A i \in 1..Len(first) : p[i] = first[i]
      BY ONLY <3>1
    <3>4. \A i \in 1..Len(rest) : p[Len(first) + i] = rest[i]
      <4> TAKE i \in 1..Len(rest)
      <4>1. i \in 1..(n + 1) /\ Len(first) + i = i + 1
        BY ONLY <1>4, <3>1, i \in 1..Len(rest)
      <4> QED  BY <1>16, <4>1
    <3> QED  BY ONLY <3>2, <3>3, <3>4
  <2>2. p \in Seq(Seq(Tokens)) /\ first \in Seq(Seq(Tokens)) /\ rest \in Seq(Seq(Tokens))
    BY <1>12, <1>16
  <2>3. InTwo(p, first, rest)
    BY ONLY <2>1 DEF InTwo
  <2> QED  BY ONLY <2>2, <2>3, InTwoIsConcat
<1>18. FlattenSeq(rest) = <<>>
  <2>1. \A i \in 1..Len(rest) : rest[i] = <<>>
    <3> TAKE i \in 1..Len(rest)
    <3>1. i \in 1..(n + 1) /\ i + 1 \in 1..(n + 2) /\ i + 1 # 1
      BY <1>4, <1>16
    <3> QED  BY <1>14, <1>16, <3>1
  <2> QED  BY <1>16, <2>1, FlattenEmpties
<1>19. <<v>> \in Seq(Tokens)
  <2>1. v \in Tokens
    BY DEF Tokens
  <2> QED  BY <2>1
<1>20. FlattenSeq(first) = <<v>>
  BY <1>13, <1>15, <1>19, FlattenOne
<1>21. FlattenSeq(p) = <<v>>
  <2>1. FlattenSeq(p) = FlattenSeq(first) \o FlattenSeq(rest)
    BY <1>16, <1>17, FlattenConcat
  <2>2. <<v>> \o <<>> = <<v>>
    BY <1>19, ConcatEmptySeq
  <2> QED  BY <1>18, <1>20, <2>1, <2>2
<1>22. PrintedFields(s) = FlattenSeq(p)
  BY <1>4, <1>8, <1>11, ClosedTexts
<1> QED  BY <1>1, <1>4, <1>8, <1>21, <1>22

-----------------------------------------------------------------------------
(* The commands of an element. *)

LEMMA CountZero ==
  \A s, c : s \in Tokens => (CountOf(s, c) = 0 <=> \A i \in DOMAIN s : s[i] # c)
<1> TAKE s, c
<1>1. SUFFICES ASSUME s \in Tokens
               PROVE  CountOf(s, c) = 0 <=> \A i \in DOMAIN s : s[i] # c
  OBVIOUS
<1>2. PICK A : A = {i \in DOMAIN s : s[i] = c}
  OBVIOUS
<1>3. IsFiniteSet(A)
  <2>1. DOMAIN s = 1..Len(s) /\ Len(s) \in Nat
    BY <1>1 DEF Tokens
  <2>2. IsFiniteSet(1..Len(s))
    BY <2>1, FS_Interval
  <2>3. A \subseteq 1..Len(s)
    BY <1>2, <2>1
  <2> QED  BY <2>2, <2>3, FS_Subset
<1>4. Cardinality(A) = 0 <=> A = {}
  BY <1>3, FS_EmptySet
<1> QED  BY <1>2, <1>4 DEF CountOf

LEMMA CountOnce ==
  \A s, c, k :
    k \in DOMAIN s /\ s[k] = c /\ (\A i \in DOMAIN s : s[i] = c => i = k) => CountOf(s, c) = 1
<1> TAKE s, c, k
<1>1. SUFFICES ASSUME k \in DOMAIN s, s[k] = c, \A i \in DOMAIN s : s[i] = c => i = k
               PROVE  CountOf(s, c) = 1
  OBVIOUS
<1>2. {i \in DOMAIN s : s[i] = c} = {k}
  BY <1>1
<1> QED  BY <1>2, FS_Singleton DEF CountOf

LEMMA CommandsDiffer ==
  /\ "^XA" \in Commands /\ "^PW" \in Commands /\ "^FO" \in Commands /\ "^A0" \in Commands
  /\ "^B" \in Commands /\ "^FD" \in Commands /\ "^GB" \in Commands /\ "^FS" \in Commands
  /\ "^XZ" \in Commands
  /\ "^FO" # "^FS" /\ "^FO" # "^FD" /\ "^FD" # "^FS"
  /\ \A x \in {"^A0", "^B", "^GB", "^XA", "^PW", "^XZ"} :
       x \in Commands /\ x # "^FO" /\ x # "^FD" /\ x # "^FS"
  /\ Open \notin Commands
  /\ \A x \in {"^FO", "^FD", "^FS", "^A0", "^B", "^GB", "^XA", "^PW"} : x # "^XZ"
BY DEF Commands, Controls, Open

LEMMA ThreeInTwo ==
  \A x, y, z : x \in Commands /\ y \in Commands /\ z \in Commands
              => <<x, y, z>> = <<x, y>> \o <<z>>
<1> SUFFICES ASSUME NEW x, NEW y, NEW z,
                    x \in Commands /\ y \in Commands /\ z \in Commands
             PROVE  <<x, y, z>> = <<x, y>> \o <<z>>
  OBVIOUS
<1>1. \A c \in Commands : c \in Glyphs
  BY DEF Glyphs
<1>2. PICK a, b, c : a = <<x, y>> /\ b = <<z>> /\ c = <<x, y, z>>
  OBVIOUS
<1>3. a \in Tokens /\ b \in Tokens /\ c \in Tokens
  BY <1>1, <1>2 DEF Tokens
<1>4. /\ Len(a) = 2 /\ Len(b) = 1 /\ Len(c) = 3
      /\ a[1] = x /\ a[2] = y /\ b[1] = z /\ c[1] = x /\ c[2] = y /\ c[3] = z
  BY <1>2
<1>5. InTwo(c, a, b)
  BY ONLY <1>4 DEF InTwo
<1>6. c = a \o b
  BY ONLY <1>3, <1>5, TokensInTwo
<1> QED  BY <1>2, <1>6

LEMMA FourInTwo ==
  \A w, x, y, z : w \in Commands /\ x \in Commands /\ y \in Commands /\ z \in Commands
                 => <<w, x, y, z>> = <<w, x, y>> \o <<z>>
<1> SUFFICES ASSUME NEW w, NEW x, NEW y, NEW z,
                    w \in Commands /\ x \in Commands /\ y \in Commands /\ z \in Commands
             PROVE  <<w, x, y, z>> = <<w, x, y>> \o <<z>>
  OBVIOUS
<1>1. \A c \in Commands : c \in Glyphs
  BY DEF Glyphs
<1>2. PICK a, b, c : a = <<w, x, y>> /\ b = <<z>> /\ c = <<w, x, y, z>>
  OBVIOUS
<1>3. a \in Tokens /\ b \in Tokens /\ c \in Tokens
  BY <1>1, <1>2 DEF Tokens
<1>4. /\ Len(a) = 3 /\ Len(b) = 1 /\ Len(c) = 4 /\ b[1] = z
      /\ a[1] = w /\ a[2] = x /\ a[3] = y /\ c[1] = w /\ c[2] = x /\ c[3] = y /\ c[4] = z
  BY <1>2
<1>5. InTwo(c, a, b)
  BY ONLY <1>4 DEF InTwo
<1>6. c = a \o b
  BY ONLY <1>3, <1>5, TokensInTwo
<1> QED  BY <1>2, <1>6

LEMMA FieldBlock ==
  ASSUME NEW y \in {"^A0", "^B"}, NEW v \in Seq(Glyphs \ Commands)
  PROVE  LET s == <<"^FO", y, "^FD">> \o v \o <<"^FS">>
         IN  /\ s \in Tokens /\ Closed(s)
             /\ Executed(s) = <<"^FO", y, "^FD", "^FS">>
             /\ PrintedFields(s) = <<v>>
             /\ CountOf(s, "^FO") = CountOf(s, "^FS")
             /\ \A i \in DOMAIN s :
                  s[i] \in {"^FO", y, "^FD", "^FS"} \/ \E k \in DOMAIN v : s[i] = v[k]
<1>1. PICK fo, fd, fs : fo = "^FO" /\ fd = "^FD" /\ fs = "^FS"
  OBVIOUS
<1>2. /\ fo \in Commands /\ fd \in Commands /\ fs \in Commands /\ y \in Commands
      /\ fo # fs /\ fo # fd /\ fd # fs /\ y # fo /\ y # fd /\ y # fs
  BY <1>1, CommandsDiffer
<1>3. \A c \in Commands : c \in Glyphs
  BY DEF Glyphs
<1>4. PICK h, xy, d, t : h = <<fo, y, fd>> /\ xy = <<fo, y>> /\ d = <<fd>> /\ t = <<fs>>
  OBVIOUS
<1>5. /\ h \in Tokens /\ xy \in Tokens /\ d \in Tokens /\ t \in Tokens /\ v \in Tokens
  BY <1>2, <1>3, <1>4 DEF Tokens
<1>6. /\ Len(h) = 3 /\ Len(xy) = 2 /\ Len(d) = 1 /\ Len(t) = 1
      /\ h[1] = fo /\ h[2] = y /\ h[3] = fd /\ xy[1] = fo /\ xy[2] = y /\ d[1] = fd /\ t[1] = fs
      /\ DOMAIN h = 1..3 /\ DOMAIN xy = 1..2 /\ DOMAIN d = 1..1 /\ DOMAIN t = 1..1
  BY <1>4
<1>7. h = xy \o d
  <2>1. <<fo, y, fd>> = <<fo, y>> \o <<fd>>
    BY ONLY <1>2, ThreeInTwo
  <2> QED  BY ONLY <1>4, <2>1, Zenon
<1>8. PICK s, f, hv : s = <<"^FO", y, "^FD">> \o v \o <<"^FS">> /\ f = (d \o v) \o t /\ hv = h \o v
  OBVIOUS
<1>9. s = hv \o t /\ hv = h \o v
  BY <1>1, <1>4, <1>8
<1>10. hv \in Tokens /\ s \in Tokens /\ d \o v \in Tokens
  BY <1>5, <1>9, TokensOfTwo
<1>11. s = xy \o f
  <2>1. PICK dv : dv = d \o v
    OBVIOUS
  <2>2. hv = xy \o dv
    <3>1. (xy \o d) \o v = xy \o (d \o v)
      BY ONLY <1>5, TokensAssociate
    <3> QED  BY ONLY <1>7, <1>9, <2>1, <3>1
  <2>3. dv \in Tokens
    BY <1>10, <2>1
  <2>4. (xy \o dv) \o t = xy \o (dv \o t)
    BY ONLY <1>5, <2>3, TokensAssociate
  <2> QED  BY <1>8, <1>9, <2>1, <2>2, <2>4
<1>12. f \in Tokens /\ Closed(f) /\ PrintedFields(f) = <<v>>
  <2>1. f = <<"^FD">> \o v \o <<"^FS">>
    BY <1>1, <1>4, <1>8
  <2> QED  BY <2>1, PrintedOne
<1>13. Closed(xy) /\ PrintedFields(xy) = <<>>
  <2>1. \A i \in DOMAIN xy : xy[i] # "^FD"
    BY <1>1, <1>2, <1>6
  <2> QED  BY <1>5, <2>1, PrintedNothing
<1>14. Closed(s) /\ PrintedFields(s) = <<v>>
  <2>1. Closed(s) /\ PrintedFields(s) = PrintedFields(xy) \o PrintedFields(f)
    BY <1>5, <1>11, <1>12, <1>13, PrintedConcat
  <2>2. <<v>> \in Seq(Tokens)
    BY <1>5
  <2>3. <<>> \o <<v>> = <<v>>
    BY <2>2, ConcatEmptySeq
  <2> QED  BY <1>12, <1>13, <2>1, <2>3
<1>15. Executed(s) = <<"^FO", y, "^FD", "^FS">>
  <2>1. Executed(h) = h /\ Executed(t) = t
    BY <1>2, <1>4, ExecutedCommands
  <2>2. Executed(v) = <<>>
    BY ExecutedNothing
  <2>3. Executed(hv) = h
    <3>1. Executed(hv) = h \o <<>>
      <4>1. Executed(h \o v) = Executed(h) \o Executed(v)
        BY <1>5, ExecutedConcat
      <4> QED  BY <1>9, <2>1, <2>2, <4>1
    <3>2. h \o <<>> = h
      BY <1>5, ConcatEmptySeq DEF Tokens
    <3> QED  BY <3>1, <3>2
  <2>4. Executed(s) = h \o t
    <3>1. Executed(hv \o t) = Executed(hv) \o Executed(t)
      BY <1>5, <1>10, ExecutedConcat
    <3> QED  BY <1>9, <2>1, <2>3, <3>1
  <2>5. PICK z : z = <<fo, y, fd, fs>>
    OBVIOUS
  <2>6. z = h \o t
    <3>1. <<fo, y, fd, fs>> = <<fo, y, fd>> \o <<fs>>
      BY ONLY <1>2, ThreeInTwo
    <3> QED  BY ONLY <1>4, <2>5, <3>1, Zenon
  <2> QED  BY <1>1, <2>4, <2>5, <2>6
<1>16. CountOf(s, fo) = 1 /\ CountOf(s, fs) = 1
  <2>1. \A i \in DOMAIN v : v[i] # fo /\ v[i] # fs
    BY <1>2
  <2>2. CountOf(v, fo) = 0 /\ CountOf(v, fs) = 0
    BY <1>5, <2>1, CountZero
  <2>3. CountOf(h, fo) = 1
    <3>1. 1 \in DOMAIN h /\ h[1] = fo /\ \A i \in DOMAIN h : h[i] = fo => i = 1
      BY ONLY <1>2, <1>6
    <3> QED  BY <3>1, CountOnce
  <2>4. CountOf(h, fs) = 0
    <3>1. \A i \in DOMAIN h : h[i] # fs
      BY ONLY <1>2, <1>6
    <3> QED  BY <1>5, <3>1, CountZero
  <2>5. CountOf(t, fs) = 1
    <3>1. 1 \in DOMAIN t /\ t[1] = fs /\ \A i \in DOMAIN t : t[i] = fs => i = 1
      BY ONLY <1>6
    <3> QED  BY <3>1, CountOnce
  <2>6. CountOf(t, fo) = 0
    <3>1. \A i \in DOMAIN t : t[i] # fo
      BY ONLY <1>2, <1>6
    <3> QED  BY <1>5, <3>1, CountZero
  <2>7. /\ CountOf(hv, fo) = CountOf(h, fo) + CountOf(v, fo)
        /\ CountOf(hv, fs) = CountOf(h, fs) + CountOf(v, fs)
    BY ONLY <1>5, <1>9, CountConcat
  <2>8. /\ CountOf(s, fo) = CountOf(hv, fo) + CountOf(t, fo)
        /\ CountOf(s, fs) = CountOf(hv, fs) + CountOf(t, fs)
    BY ONLY <1>5, <1>9, <1>10, CountConcat
  <2> QED  BY ONLY <2>2, <2>3, <2>4, <2>5, <2>6, <2>7, <2>8
<1>17. ASSUME NEW i \in DOMAIN s
       PROVE  s[i] \in {fo, y, fd, fs} \/ \E k \in DOMAIN v : s[i] = v[k]
  <2>1. /\ DOMAIN hv = 1..(3 + Len(v)) /\ Len(hv) = 3 + Len(v)
        /\ Len(v) \in Nat /\ DOMAIN v = 1..Len(v)
        /\ \A k \in 1..3 : hv[k] = h[k]
        /\ \A k \in 1..Len(v) : hv[3 + k] = v[k]
    <3>1. /\ Len(h \o v) = Len(h) + Len(v) /\ Len(v) \in Nat /\ DOMAIN v = 1..Len(v)
          /\ DOMAIN (h \o v) = 1..(Len(h) + Len(v))
          /\ \A k \in 1..Len(h) : (h \o v)[k] = h[k]
          /\ \A k \in 1..Len(v) : (h \o v)[Len(h) + k] = v[k]
      BY <1>5, TokensOfTwo
    <3> QED  BY ONLY <1>6, <1>9, <3>1
  <2>2. /\ DOMAIN s = 1..(Len(hv) + 1)
        /\ \A k \in 1..Len(hv) : s[k] = hv[k]
        /\ s[Len(hv) + 1] = t[1]
    <3>1. /\ DOMAIN s = 1..(Len(hv) + 1)
          /\ \A k \in 1..Len(hv) : s[k] = hv[k]
          /\ \A k \in 1..1 : s[Len(hv) + k] = t[k]
      <4>1. /\ DOMAIN (hv \o t) = 1..(Len(hv) + Len(t))
            /\ \A k \in 1..Len(hv) : (hv \o t)[k] = hv[k]
            /\ \A k \in 1..Len(t) : (hv \o t)[Len(hv) + k] = t[k]
        BY <1>5, <1>10, TokensOfTwo
      <4> QED  BY ONLY <1>6, <1>9, <4>1
    <3>2. 1 \in 1..1
      OBVIOUS
    <3> QED  BY ONLY <3>1, <3>2
  <2>3. i \in 1..3 \/ (i - 3 \in 1..Len(v) /\ i \in 1..Len(hv)) \/ i = Len(hv) + 1
    BY <2>1, <2>2
  <2>4. CASE i \in 1..3
    <3>1. i \in 1..Len(hv)
      BY <2>1, <2>4
    <3>2. s[i] = h[i]
      BY <2>1, <2>2, <2>4, <3>1
    <3>3. i = 1 \/ i = 2 \/ i = 3
      BY <2>4
    <3> QED  BY <1>6, <3>2, <3>3
  <2>5. CASE i - 3 \in 1..Len(v) /\ i \in 1..Len(hv)
    <3>1. 3 + (i - 3) = i
      BY <2>5
    <3>2. s[i] = v[i - 3]
      BY <2>1, <2>2, <2>5, <3>1
    <3> QED  BY <2>1, <2>5, <3>2
  <2>6. CASE i = Len(hv) + 1
    BY <1>6, <2>2, <2>6
  <2> QED  BY <2>3, <2>4, <2>5, <2>6
<1> QED  BY <1>1, <1>8, <1>10, <1>14, <1>15, <1>16, <1>17

LEMMA BoxBlock ==
  LET s == <<"^FO", "^GB", "^FS">>
  IN  /\ s \in Tokens /\ Closed(s) /\ Executed(s) = s /\ PrintedFields(s) = <<>>
      /\ CountOf(s, "^FO") = CountOf(s, "^FS")
      /\ \A i \in DOMAIN s : s[i] \in {"^FO", "^GB", "^FS"}
<1>1. PICK fo, gb, fs, fd : fo = "^FO" /\ gb = "^GB" /\ fs = "^FS" /\ fd = "^FD"
  OBVIOUS
<1>2. /\ fo \in Commands /\ gb \in Commands /\ fs \in Commands
      /\ fo # fs /\ gb # fo /\ gb # fs /\ fo # fd /\ gb # fd /\ fs # fd
  BY <1>1, CommandsDiffer
<1>3. PICK s : s = <<fo, gb, fs>>
  OBVIOUS
<1>4. s \in Tokens
  <2>1. fo \in Glyphs /\ gb \in Glyphs /\ fs \in Glyphs
    BY <1>2 DEF Glyphs
  <2> QED  BY <1>3, <2>1 DEF Tokens
<1>5. /\ DOMAIN s = 1..3 /\ s[1] = fo /\ s[2] = gb /\ s[3] = fs
      /\ \A i \in DOMAIN s : i = 1 \/ i = 2 \/ i = 3
  BY <1>3
<1>6. Closed(s) /\ PrintedFields(s) = <<>>
  <2>1. \A i \in DOMAIN s : s[i] # "^FD"
    BY <1>1, <1>2, <1>5
  <2> QED  BY <1>4, <2>1, PrintedNothing
<1>7. Executed(s) = s
  BY <1>2, <1>3, ExecutedCommands
<1>8. CountOf(s, fo) = 1 /\ CountOf(s, fs) = 1
  <2>1. /\ 1 \in DOMAIN s /\ 3 \in DOMAIN s
        /\ \A i \in DOMAIN s : (s[i] = fo => i = 1) /\ (s[i] = fs => i = 3)
    BY <1>2, <1>5
  <2> QED  BY <1>5, <2>1, CountOnce
<1>9. \A i \in DOMAIN s : s[i] \in {fo, gb, fs}
  BY <1>5
<1> QED  BY <1>1, <1>3, <1>4, <1>6, <1>7, <1>8, <1>9

-----------------------------------------------------------------------------
(* What is bound, and how it is escaped. *)

Texted(ctx) == \A key \in DOMAIN ctx : ctx[key] \in Seq(Words)

\* What a part of a text becomes.
Value(text, ctx, i) ==
  CASE text[i].kind = "literal" -> <<text[i].text>>
    [] text[i].kind = "open"    -> None
    [] OTHER                    -> Resolve(ctx, text[i].text)

LEMMA ExpressionIsBound ==
  ASSUME NEW text \in Seq(TextParts), NEW ctx, Texted(ctx), RenderExpression(text, ctx) # None
  PROVE  \E values \in Seq(Seq(Data)) :
           /\ Len(values) = Len(text)
           /\ RenderExpression(text, ctx) = FlattenSeq(values)
           /\ \A i \in 1..Len(text) : text[i].kind = "binding" /\ text[i].text # "now" =>
                text[i].text \in DOMAIN ctx /\ values[i] = ctx[text[i].text]
<1>1. PICK values : values = [i \in DOMAIN text |-> Value(text, ctx, i)]
  OBVIOUS
<1>2. /\ Len(text) \in Nat /\ DOMAIN text = 1..Len(text)
      /\ \A i \in 1..Len(text) : text[i] \in TextParts
  OBVIOUS
<1>3. /\ \A i \in DOMAIN text : values[i] # None
      /\ RenderExpression(text, ctx) = FlattenSeq(values)
  BY <1>1 DEF RenderExpression, Value
<1>4. ASSUME NEW i \in 1..Len(text)
      PROVE  /\ values[i] \in Seq(Data)
             /\ text[i].kind = "binding" /\ text[i].text # "now" =>
                  text[i].text \in DOMAIN ctx /\ values[i] = ctx[text[i].text]
  <2>1. values[i] = Value(text, ctx, i) /\ values[i] # None
    BY <1>1, <1>2, <1>3
  <2>2. text[i].kind \in {"literal", "binding", "open"} /\ text[i].text \in Words
    BY <1>2 DEF TextParts
  <2>3. CASE text[i].kind = "literal"
    BY <2>1, <2>2, <2>3 DEF Value, Data
  <2>4. CASE text[i].kind = "open"
    BY <2>1, <2>4 DEF Value
  <2>5. CASE text[i].kind = "binding"
    <3>1. values[i] = Resolve(ctx, text[i].text)
      BY <2>1, <2>5 DEF Value
    <3>2. CASE text[i].text = "now"
      <4>1. values[i] = <<"date">>
        BY <3>1, <3>2 DEF Resolve
      <4> QED  BY <3>2, <4>1 DEF Data
    <3>3. CASE text[i].text # "now" /\ text[i].text \in DOMAIN ctx
      <4>1. values[i] = ctx[text[i].text]
        BY <3>1, <3>3 DEF Resolve
      <4> QED  BY <3>3, <4>1 DEF Texted, Data
    <3>4. CASE text[i].text # "now" /\ text[i].text \notin DOMAIN ctx
      <4>1. values[i] = None
        BY <3>1, <3>4 DEF Resolve
      <4> QED  BY <2>1, <4>1
    <3> QED  BY <3>2, <3>3, <3>4
  <2> QED  BY <2>2, <2>3, <2>4, <2>5
<1>5. values \in Seq(Seq(Data)) /\ Len(values) = Len(text)
  <2>1. values \in [1..Len(text) -> Seq(Data)]
    BY <1>1, <1>2, <1>4
  <2> QED  BY <1>2, <2>1, FunctionsAreSequences
<1> QED  BY <1>3, <1>4, <1>5

LEMMA EscapedIsData ==
  ASSUME NEW v \in Seq(Data)
  PROVE  /\ EscapeField(v) \in Seq(Glyphs \ Commands) /\ Len(EscapeField(v)) = Len(v)
         /\ \A i \in 1..Len(v) :
              /\ v[i] \notin Controls \cup Newlines => EscapeField(v)[i] = v[i]
              /\ v[i] # Open => EscapeField(v)[i] # Open
<1>1. Len(v) \in Nat /\ DOMAIN v = 1..Len(v) /\ \A i \in 1..Len(v) : v[i] \in Data
  OBVIOUS
<1>2. PICK e : e = EscapeField(v)
  OBVIOUS
<1>3. ASSUME NEW i \in 1..Len(v)
      PROVE  /\ e[i] \in Glyphs /\ e[i] \notin Commands
             /\ v[i] \notin Controls \cup Newlines => e[i] = v[i]
             /\ v[i] # Open => e[i] # Open
  <2>1. e[i] = CASE v[i] = "^"        -> "_5E"
                 [] v[i] = "~"        -> "_7E"
                 [] v[i] = "\\"       -> "_5C"
                 [] v[i] \in Newlines -> " "
                 [] OTHER             -> v[i]
    BY <1>1, <1>2 DEF EscapeField
  <2>2. v[i] \in Data
    BY <1>1
  <2>3. CASE v[i] \in Controls
    <3>1. e[i] \in {"_5E", "_7E", "_5C"}
      <4>1. CASE v[i] = "^"
        BY <2>1, <4>1, Zenon DEF Newlines
      <4>2. CASE v[i] = "~"
        BY <2>1, <4>2, Zenon DEF Newlines
      <4>3. CASE v[i] = "\\"
        BY <2>1, <4>3, Zenon DEF Newlines
      <4> QED  BY <2>3, <4>1, <4>2, <4>3, Zenon DEF Controls
    <3>2. e[i] \notin Commands /\ e[i] # Open
      BY <3>1, Zenon DEF Commands, Controls, Open
    <3> QED  BY <2>3, <3>1, <3>2 DEF Glyphs
  <2>4. CASE v[i] \notin Controls /\ v[i] \in Newlines
    <3>1. e[i] = " "
      BY <2>1, <2>4, Zenon DEF Controls
    <3>2. " " \notin Commands /\ " " # Open
      BY Zenon DEF Commands, Controls, Open
    <3> QED  BY <2>4, <3>1, <3>2 DEF Glyphs
  <2>5. CASE v[i] \notin Controls /\ v[i] \notin Newlines
    <3>1. e[i] = v[i]
      BY <2>1, <2>5, Zenon DEF Controls
    <3>2. v[i] \notin Commands
      <4>1. CASE v[i] \in Words
        BY <2>5, <4>1 DEF Words
      <4>2. CASE v[i] = "date"
        BY <4>2, Zenon DEF Commands, Controls
      <4> QED  BY <2>2, <4>1, <4>2 DEF Data
    <3> QED  BY <2>2, <3>1, <3>2 DEF Glyphs
  <2> QED  BY <2>3, <2>4, <2>5
<1>4. e \in Seq(Glyphs \ Commands) /\ Len(e) = Len(v)
  <2>1. DOMAIN e = 1..Len(v) /\ e \in [1..Len(v) -> Glyphs \ Commands]
    BY <1>1, <1>2, <1>3 DEF EscapeField
  <2> QED  BY <1>1, <2>1, FunctionsAreSequences
<1> QED  BY <1>2, <1>3, <1>4

\* A value in a text is in the field it is printed in, when it is plain.
LEMMA FieldShowsValue ==
  ASSUME NEW values \in Seq(Seq(Data)), NEW i \in 1..Len(values),
         \A k \in DOMAIN values[i] : values[i][k] \notin Controls \cup Newlines
  PROVE  LET field == EscapeField(FlattenSeq(values))
         IN  \E a \in 1..Len(field) + 1, b \in 0..Len(field) : SubSeq(field, a, b) = values[i]
<1>1. PICK n, v : n = Len(values) /\ v = values[i]
  OBVIOUS
<1>2. n \in Nat /\ v \in Seq(Data) /\ i \in 1..n
  BY <1>1
<1>3. PICK x, one, y : x = SubSeq(values, 1, i - 1) /\ one = <<v>> /\ y = SubSeq(values, i + 1, n)
  OBVIOUS
<1>4. x \in Seq(Seq(Data)) /\ y \in Seq(Seq(Data)) /\ one \in Seq(Seq(Data))
  <2>1. \A k \in 1..n : values[k] \in Seq(Data)
    BY <1>1
  <2>2. /\ 1..(i - 1) \subseteq 1..n /\ (i + 1)..n \subseteq 1..n
        /\ 1 \in Int /\ i - 1 \in Int /\ i + 1 \in Int /\ n \in Int
    BY <1>2
  <2>3. x \in Seq(Seq(Data))
    BY <1>3, <2>1, <2>2, SubSeqProperties
  <2>4. y \in Seq(Seq(Data))
    BY <1>3, <2>1, <2>2, SubSeqProperties
  <2> QED  BY <1>2, <1>3, <2>3, <2>4
<1>5. values = (x \o one) \o y
  <2>1. values \in Seq(Seq(Data)) /\ n = Len(values)
    BY <1>1
  <2>2. SubSeq(values, 1, i) = x \o one
    <3>1. SubSeq(values, 1, i) = SubSeq(values, 1, i - 1) \o <<values[i]>>
      <4>1. 1 \in 1..Len(values) /\ i \in 1..Len(values)
        BY <1>2, <2>1
      <4> QED  BY <2>1, <4>1, SubSeqRecursiveSecond
    <3> QED  BY <1>1, <1>3, <3>1
  <2>3. SubSeq(values, 1, i) \o SubSeq(values, i + 1, n) = SubSeq(values, 1, n)
    <3>1. 1 \in 1..(Len(values) + 1) /\ i \in (1 - 1)..Len(values) /\ n \in i..Len(values)
      BY <1>2, <2>1
    <3> QED  BY <2>1, <3>1, ConcatAdjacentSubSeq
  <2>4. SubSeq(values, 1, n) = values
    BY <2>1, SubSeqFull
  <2> QED  BY <1>3, <2>2, <2>3, <2>4
<1>6. PICK p, q, w : p = FlattenSeq(x) /\ q = FlattenSeq(y) /\ w = FlattenSeq(values)
  OBVIOUS
<1>7. p \in Seq(Data) /\ q \in Seq(Data) /\ w \in Seq(Data) /\ FlattenSeq(one) = v
  BY <1>2, <1>3, <1>4, <1>6, FlattenType, FlattenOne
<1>8. w = (p \o v) \o q
  <2>1. PICK xo : xo = x \o one
    OBVIOUS
  <2>2. FlattenSeq(xo \o y) = FlattenSeq(xo) \o FlattenSeq(y)
    <3>1. xo \in Seq(Seq(Data)) /\ y \in Seq(Seq(Data))
      BY <1>4, <2>1
    <3> QED  BY ONLY <3>1, FlattenConcat
  <2>3. FlattenSeq(x \o one) = FlattenSeq(x) \o FlattenSeq(one)
    BY <1>4, FlattenConcat
  <2> QED  BY <1>5, <1>6, <1>7, <2>1, <2>2, <2>3
<1>9. PICK c, d, e : c = Len(p) /\ d = Len(v) /\ e = EscapeField(w)
  OBVIOUS
<1>10. /\ c \in Nat /\ d \in Nat /\ Len(w) \in Nat /\ c + d <= Len(w)
       /\ \A k \in 1..d : w[k + c] = v[k]
  <2>1. PICK pv : pv = p \o v
    OBVIOUS
  <2>2. /\ pv \in Seq(Data) /\ Len(pv) = c + d /\ c \in Nat /\ d \in Nat
        /\ \A k \in 1..d : pv[k + c] = v[k]
    <3>1. p \in Seq(Data) /\ v \in Seq(Data) /\ c = Len(p) /\ d = Len(v) /\ pv = p \o v
      BY <1>2, <1>7, <1>9, <2>1
    <3>2. /\ p \o v \in Seq(Data) /\ Len(p \o v) = Len(p) + Len(v)
          /\ Len(p) \in Nat /\ Len(v) \in Nat
          /\ \A k \in 1..Len(v) : (p \o v)[Len(p) + k] = v[k]
      BY ONLY <3>1, ConcatProperties
    <3> QED  BY ONLY <3>1, <3>2
  <2>3. /\ Len(w) = c + d + Len(q) /\ Len(q) \in Nat
        /\ \A k \in 1..(c + d) : w[k] = pv[k]
    <3>1. w = pv \o q /\ q \in Seq(Data)
      BY <1>7, <1>8, <2>1
    <3>2. /\ Len(pv \o q) = Len(pv) + Len(q) /\ Len(q) \in Nat
          /\ \A k \in 1..Len(pv) : (pv \o q)[k] = pv[k]
      <4>1. pv \in Seq(Data) /\ q \in Seq(Data)
        BY <2>2, <3>1
      <4> QED  BY ONLY <4>1
    <3> QED  BY ONLY <2>2, <3>1, <3>2
  <2>4. \A k \in 1..d : k + c \in 1..(c + d)
    BY <2>2
  <2> QED  BY <2>2, <2>3, <2>4
<1>11. Len(e) = Len(w) /\ \A k \in 1..d : v[k] \in Data /\ e[k + c] = v[k]
  <2>1. ASSUME NEW k \in 1..d PROVE v[k] \in Data /\ e[k + c] = v[k]
    <3>1. k + c \in 1..Len(w)
      BY <1>10
    <3>2. w[k + c] = v[k] /\ v[k] \in Data /\ v[k] \notin Controls \cup Newlines
      BY <1>1, <1>2, <1>9, <1>10
    <3>3. e[k + c] = w[k + c]
      BY <1>7, <1>9, <3>1, <3>2, EscapedIsData
    <3> QED  BY <3>2, <3>3
  <2>2. Len(e) = Len(w)
    BY <1>7, <1>9, EscapedIsData
  <2> QED  BY <2>1, <2>2
<1>12. SubSeq(e, 1 + c, d + c) = v
  <2>1. SubSeq(e, 1 + c, d + c) = SubSeq(v, 1, d)
    <3>1. 1 \in Int /\ d \in Int /\ c \in Int
      BY <1>10
    <3> QED  BY <1>11, <3>1, SameSubSeq
  <2>2. SubSeq(v, 1, d) = v
    BY <1>2, <1>9, SubSeqFull
  <2> QED  BY <2>1, <2>2
<1>13. 1 + c \in 1..Len(e) + 1 /\ d + c \in 0..Len(e)
  BY <1>10, <1>11
<1> QED  BY <1>1, <1>6, <1>9, <1>12, <1>13

-----------------------------------------------------------------------------
(* A whole label. *)

\* Between the first commands and the ^XZ.
Quiet == Glyphs \ {"^XZ", Open}

LEMMA QuietIsToken == \A s : s \in Seq(Quiet) => s \in Tokens
BY DEF Quiet, Tokens

Executes(type) ==
  CASE type = "TEXT"    -> <<"^FO", "^A0", "^FD", "^FS">>
    [] type = "BARCODE" -> <<"^FO", "^B", "^FD", "^FS">>
    [] type = "BOX"     -> <<"^FO", "^GB", "^FS">>

LEMMA ElementBlock ==
  ASSUME NEW e, e.type \in {"TEXT", "BARCODE", "BOX"}, e.value \in Seq(Data),
         \A k \in 1..Len(e.value) : e.value[k] # Open
  PROVE  /\ Zpl(e) \in Seq(Quiet) /\ Closed(Zpl(e))
         /\ Executed(Zpl(e)) = Executes(e.type)
         /\ CountOf(Zpl(e), "^FO") = CountOf(Zpl(e), "^FS")
         /\ PrintedFields(Zpl(e)) = IF e.type = "BOX" THEN <<>> ELSE <<EscapeField(e.value)>>
<1>1. PICK v : v = EscapeField(e.value)
  OBVIOUS
<1>2. /\ v \in Seq(Glyphs \ Commands)
      /\ \A k \in DOMAIN v : v[k] \in Quiet
  <2>1. /\ v \in Seq(Glyphs \ Commands) /\ Len(v) = Len(e.value)
        /\ \A k \in 1..Len(e.value) : v[k] # Open
    BY <1>1, EscapedIsData
  <2>2. \A k \in DOMAIN v : v[k] \in Glyphs /\ v[k] \notin Commands /\ v[k] # Open
    BY <2>1
  <2> QED  BY <2>1, <2>2, CommandsDiffer DEF Quiet
<1>3. \A x \in {"^FO", "^A0", "^B", "^FD", "^FS", "^GB"} : x \in Quiet
  <2>1. \A x \in {"^FO", "^A0", "^B", "^FD", "^FS", "^GB"} : x \in Commands /\ x # "^XZ"
    BY CommandsDiffer
  <2>2. \A x \in Commands : x \in Glyphs /\ x # Open
    BY CommandsDiffer DEF Glyphs
  <2> QED  BY <2>1, <2>2 DEF Quiet
<1>4. ASSUME NEW y \in {"^A0", "^B"}, NEW s, s = <<"^FO", y, "^FD">> \o v \o <<"^FS">>
      PROVE  /\ s \in Seq(Quiet) /\ Closed(s)
             /\ Executed(s) = <<"^FO", y, "^FD", "^FS">>
             /\ CountOf(s, "^FO") = CountOf(s, "^FS")
             /\ PrintedFields(s) = <<v>>
  <2>1. /\ s \in Tokens /\ Closed(s)
        /\ Executed(s) = <<"^FO", y, "^FD", "^FS">>
        /\ PrintedFields(s) = <<v>>
        /\ CountOf(s, "^FO") = CountOf(s, "^FS")
        /\ \A i \in DOMAIN s :
             s[i] \in {"^FO", y, "^FD", "^FS"} \/ \E k \in DOMAIN v : s[i] = v[k]
    BY <1>2, <1>4, FieldBlock
  <2>2. \A i \in DOMAIN s : s[i] \in Quiet
    BY <1>2, <1>3, <2>1
  <2>3. s \in Seq(Quiet)
    BY <2>1, <2>2 DEF Tokens
  <2> QED  BY <2>1, <2>3
<1>5. CASE e.type = "TEXT"
  <2>1. /\ Zpl(e) = <<"^FO", "^A0", "^FD">> \o v \o <<"^FS">>
        /\ Executes(e.type) = <<"^FO", "^A0", "^FD", "^FS">>
        /\ e.type # "BOX"
    BY <1>1, <1>5 DEF Zpl, Executes
  <2> QED  BY <1>1, <1>4, <2>1
<1>6. CASE e.type = "BARCODE"
  <2>1. /\ Zpl(e) = <<"^FO", "^B", "^FD">> \o v \o <<"^FS">>
        /\ Executes(e.type) = <<"^FO", "^B", "^FD", "^FS">>
        /\ e.type # "BOX"
    BY <1>1, <1>6 DEF Zpl, Executes
  <2> QED  BY <1>1, <1>4, <2>1
<1>7. CASE e.type = "BOX"
  <2>1. PICK s : s = <<"^FO", "^GB", "^FS">>
    OBVIOUS
  <2>2. Zpl(e) = s /\ Executes(e.type) = s
    BY <1>7, <2>1 DEF Zpl, Executes
  <2>3. /\ s \in Tokens /\ Closed(s) /\ Executed(s) = s /\ PrintedFields(s) = <<>>
        /\ CountOf(s, "^FO") = CountOf(s, "^FS")
        /\ \A i \in DOMAIN s : s[i] \in {"^FO", "^GB", "^FS"}
    BY <2>1, BoxBlock
  <2>4. s \in Seq(Quiet)
    BY <1>3, <2>3 DEF Tokens
  <2> QED  BY <1>7, <2>2, <2>3, <2>4
<1> QED  BY <1>5, <1>6, <1>7

\* Each block executes the commands at its place and prints the fields there.
Renders(blocks, commands, fields) ==
  /\ blocks \in Seq(Seq(Quiet)) /\ commands \in Seq(Tokens) /\ fields \in Seq(Seq(Tokens))
  /\ Len(commands) = Len(blocks) /\ Len(fields) = Len(blocks)
  /\ \A i \in 1..Len(blocks) :
       /\ Closed(blocks[i]) /\ CountOf(blocks[i], "^FO") = CountOf(blocks[i], "^FS")
       /\ Executed(blocks[i]) = commands[i] /\ PrintedFields(blocks[i]) = fields[i]

LEMMA InARow ==
  ASSUME NEW blocks, NEW commands, NEW fields, Renders(blocks, commands, fields)
  PROVE  LET row == FlattenSeq(blocks)
         IN  /\ row \in Seq(Quiet) /\ Closed(row)
             /\ CountOf(row, "^FO") = CountOf(row, "^FS")
             /\ Executed(row) = FlattenSeq(commands) /\ PrintedFields(row) = FlattenSeq(fields)
<1>0. /\ blocks \in Seq(Seq(Quiet)) /\ commands \in Seq(Tokens) /\ fields \in Seq(Seq(Tokens))
      /\ Len(commands) = Len(blocks) /\ Len(fields) = Len(blocks)
      /\ \A i \in 1..Len(blocks) :
           /\ Closed(blocks[i]) /\ CountOf(blocks[i], "^FO") = CountOf(blocks[i], "^FS")
           /\ Executed(blocks[i]) = commands[i] /\ PrintedFields(blocks[i]) = fields[i]
  BY DEF Renders
<1>1. PICK fo, fs, n : fo = "^FO" /\ fs = "^FS" /\ n = Len(blocks)
  OBVIOUS
<1>2. /\ Len(commands) = n /\ Len(fields) = n
      /\ \A i \in 1..n :
           /\ blocks[i] \in Seq(Quiet) /\ blocks[i] \in Tokens
           /\ commands[i] \in Tokens /\ fields[i] \in Seq(Tokens)
           /\ Closed(blocks[i]) /\ CountOf(blocks[i], fo) = CountOf(blocks[i], fs)
           /\ Executed(blocks[i]) = commands[i] /\ PrintedFields(blocks[i]) = fields[i]
  BY <1>0, <1>1, QuietIsToken
<1>3. <<>> \in Seq(Quiet) /\ <<>> \in Tokens /\ <<>> \in Seq(Tokens) /\ DOMAIN <<>> = {}
  BY DEF Tokens
<1> DEFINE R == {p \in Seq(Quiet) \X Tokens :
                   Executed(p[1]) = p[2] /\ CountOf(p[1], fo) = CountOf(p[1], fs)}
           Q == {p \in Seq(Quiet) \X Seq(Tokens) : Closed(p[1]) /\ PrintedFields(p[1]) = p[2]}
<1>4. <<<<>>, <<>>>> \in R
  <2>1. Executed(<<>>) = <<>>
    <3>1. <<>> \in Seq(Glyphs \ Commands)
      OBVIOUS
    <3> QED  BY <3>1, ExecutedNothing
  <2>2. CountOf(<<>>, fo) = 0 /\ CountOf(<<>>, fs) = 0
    BY <1>3, CountZero
  <2> QED  BY <1>3, <2>1, <2>2
<1>5. <<<<>>, <<>>>> \in Q
  <2>1. Closed(<<>>) /\ PrintedFields(<<>>) = <<>>
    BY <1>3, PrintedNothing
  <2> QED  BY <1>3, <2>1
<1>6. ASSUME NEW i \in 1..n, NEW a \in Seq(Quiet), NEW b \in Tokens, <<a, b>> \in R
      PROVE  <<a \o blocks[i], b \o commands[i]>> \in R
  <2>1. PICK c, d : c = blocks[i] /\ d = commands[i]
    OBVIOUS
  <2>2. /\ c \in Seq(Quiet) /\ c \in Tokens /\ d \in Tokens /\ a \in Tokens /\ b \in Tokens
        /\ Executed(a) = b /\ Executed(c) = d
        /\ CountOf(a, fo) = CountOf(a, fs) /\ CountOf(c, fo) = CountOf(c, fs)
    BY <1>2, <1>6, <2>1, QuietIsToken
  <2>3. Executed(a \o c) = Executed(a) \o Executed(c)
    BY ONLY <2>2, ExecutedConcat
  <2>4. /\ CountOf(a \o c, fo) = CountOf(a, fo) + CountOf(c, fo)
        /\ CountOf(a \o c, fs) = CountOf(a, fs) + CountOf(c, fs)
    BY ONLY <2>2, CountConcat
  <2>5. a \o c \in Seq(Quiet) /\ b \o d \in Tokens
    <3>1. b \o d \in Tokens
      BY ONLY <2>2, TokensOfTwo
    <3>2. a \o c \in Seq(Quiet)
      BY <2>2, ConcatProperties
    <3> QED  BY <3>1, <3>2
  <2>6. Executed(a \o c) = b \o d /\ CountOf(a \o c, fo) = CountOf(a \o c, fs)
    BY <2>2, <2>3, <2>4
  <2> QED  BY <2>1, <2>5, <2>6
<1>7. ASSUME NEW i \in 1..n, NEW a \in Seq(Quiet), NEW b \in Seq(Tokens), <<a, b>> \in Q
      PROVE  <<a \o blocks[i], b \o fields[i]>> \in Q
  <2>1. PICK c, d : c = blocks[i] /\ d = fields[i]
    OBVIOUS
  <2>2. /\ c \in Seq(Quiet) /\ c \in Tokens /\ d \in Seq(Tokens) /\ a \in Tokens
        /\ Closed(a) /\ Closed(c) /\ PrintedFields(a) = b /\ PrintedFields(c) = d
    BY <1>2, <1>7, <2>1, QuietIsToken
  <2>3. Closed(a \o c) /\ PrintedFields(a \o c) = PrintedFields(a) \o PrintedFields(c)
    BY ONLY <2>2, PrintedConcat
  <2>4. a \o c \in Seq(Quiet) /\ b \o d \in Seq(Tokens)
    BY <2>2, ConcatProperties
  <2> QED  BY <2>1, <2>2, <2>3, <2>4
<1>8. <<FlattenSeq(blocks), FlattenSeq(commands)>> \in R
  <2> HIDE DEF R
  <2>1. commands \in Seq(Seq(Glyphs)) /\ Tokens = Seq(Glyphs)
    BY <1>0 DEF Tokens
  <2>2. \A i \in 1..Len(blocks) : \A a \in Seq(Quiet), b \in Seq(Glyphs) :
          <<a, b>> \in R => <<a \o blocks[i], b \o commands[i]>> \in R
    BY <1>1, <1>6, <2>1
  <2>3. blocks \in Seq(Seq(Quiet)) /\ Len(blocks) = Len(commands)
    BY <1>0
  <2> QED  BY ONLY <1>4, <2>1, <2>2, <2>3, FlattenRelated
<1>9. <<FlattenSeq(blocks), FlattenSeq(fields)>> \in Q
  <2> HIDE DEF Q
  <2>1. \A i \in 1..Len(blocks) : \A a \in Seq(Quiet), b \in Seq(Tokens) :
          <<a, b>> \in Q => <<a \o blocks[i], b \o fields[i]>> \in Q
    BY <1>1, <1>7
  <2>2. blocks \in Seq(Seq(Quiet)) /\ fields \in Seq(Seq(Tokens)) /\ Len(blocks) = Len(fields)
    BY <1>0
  <2> QED  BY ONLY <1>5, <2>1, <2>2, FlattenRelated
<1> QED  BY <1>1, <1>8, <1>9

Element == [type : {"TEXT", "BARCODE", "BOX"}, x : Int, y : Int, value : Seq(TextParts)]

\* A field shows the values that its element binds.
Shows(field, e, ctx) ==
  \A p \in Range(e.value) : p.kind = "binding" /\ p.text # "now" =>
    \E a \in 1..Len(field) + 1, b \in 0..Len(field) : SubSeq(field, a, b) = ctx[p.text]

BoundValue(e, ctx) == IF e.type = "BOX" THEN <<>> ELSE RenderExpression(e.value, ctx)

LEMMA ElementIsBound ==
  ASSUME NEW e \in Element, NEW ctx, Texted(ctx), BoundValue(e, ctx) # None
  PROVE  /\ BoundValue(e, ctx) \in Seq(Data)
         /\ e.type # "BOX" =>
              /\ \A p \in Range(e.value) : p.kind = "binding" => p.text \in DOMAIN ctx \cup {"now"}
              /\ (\A key \in DOMAIN ctx : \A token \in Range(ctx[key]) :
                    token \notin Controls \cup Newlines)
                 => Shows(EscapeField(BoundValue(e, ctx)), e, ctx)
<1>1. CASE e.type = "BOX"
  BY <1>1 DEF BoundValue
<1>2. CASE e.type # "BOX"
  <2>1. e.value \in Seq(TextParts) /\ BoundValue(e, ctx) = RenderExpression(e.value, ctx)
    BY <1>2 DEF Element, BoundValue
  <2>2. PICK values \in Seq(Seq(Data)) :
          /\ Len(values) = Len(e.value)
          /\ BoundValue(e, ctx) = FlattenSeq(values)
          /\ \A i \in 1..Len(e.value) : e.value[i].kind = "binding" /\ e.value[i].text # "now" =>
               e.value[i].text \in DOMAIN ctx /\ values[i] = ctx[e.value[i].text]
    <3>1. PICK text : text = e.value
      OBVIOUS
    <3>2. text \in Seq(TextParts) /\ Texted(ctx) /\ RenderExpression(text, ctx) # None
      BY <2>1, <3>1
    <3>3. \E values \in Seq(Seq(Data)) :
            /\ Len(values) = Len(text)
            /\ RenderExpression(text, ctx) = FlattenSeq(values)
            /\ \A i \in 1..Len(text) : text[i].kind = "binding" /\ text[i].text # "now" =>
                 text[i].text \in DOMAIN ctx /\ values[i] = ctx[text[i].text]
      BY ONLY <3>2, ExpressionIsBound
    <3> QED  BY <2>1, <3>1, <3>3
  <2>3. DOMAIN e.value = 1..Len(e.value)
    BY <2>1
  <2>4. BoundValue(e, ctx) \in Seq(Data)
    BY <2>2, FlattenType
  <2>5. ASSUME NEW p \in Range(e.value), p.kind = "binding" PROVE p.text \in DOMAIN ctx \cup {"now"}
    <3>1. PICK i \in 1..Len(e.value) : p = e.value[i]
      BY <2>3 DEF Range
    <3> QED  BY <2>2, <2>5, <3>1
  <2>6. ASSUME \A key \in DOMAIN ctx : \A token \in Range(ctx[key]) :
                 token \notin Controls \cup Newlines
        PROVE  Shows(EscapeField(BoundValue(e, ctx)), e, ctx)
    <3> SUFFICES ASSUME NEW p \in Range(e.value), p.kind = "binding", p.text # "now"
                 PROVE  LET field == EscapeField(BoundValue(e, ctx))
                        IN  \E a \in 1..Len(field) + 1, b \in 0..Len(field) :
                              SubSeq(field, a, b) = ctx[p.text]
      BY DEF Shows
    <3>1. PICK i \in 1..Len(e.value) : p = e.value[i]
      BY <2>3 DEF Range
    <3>2. p.text \in DOMAIN ctx /\ values[i] = ctx[p.text] /\ i \in 1..Len(values)
      BY <2>2, <3>1
    <3>3. \A k \in DOMAIN values[i] : values[i][k] \notin Controls \cup Newlines
      <4>1. \A k \in DOMAIN values[i] : values[i][k] \in Range(ctx[p.text])
        BY <3>2 DEF Range
      <4> QED  BY <2>6, <3>2, <4>1
    <3> PICK field : field = EscapeField(BoundValue(e, ctx))
      OBVIOUS
    <3>4. \E a \in 1..Len(field) + 1, b \in 0..Len(field) : SubSeq(field, a, b) = values[i]
      <4>1. field = EscapeField(FlattenSeq(values))
        BY <2>2
      <4>2. \E a \in 1..Len(EscapeField(FlattenSeq(values))) + 1,
               b \in 0..Len(EscapeField(FlattenSeq(values))) :
              SubSeq(EscapeField(FlattenSeq(values)), a, b) = values[i]
        BY <3>2, <3>3, FieldShowsValue
      <4> QED  BY <4>1, <4>2
    <3> QED  BY <3>2, <3>4
  <2> QED  BY <1>2, <2>4, <2>5, <2>6
<1> QED  BY <1>1, <1>2

\* What the printer gets for a unit is its label, or no label.
IsLabel(u) ==
  u \in Units /\ MethodOf[u] # "LASER_DPM" /\ Payload(u) # None

\* The elements that have a text, and the commands of each.
WithText(elements) == Those(elements, {i \in DOMAIN elements : elements[i].type # "BOX"})

CommandsOf(elements) ==
  [i \in DOMAIN elements |->
     CASE elements[i].type = "TEXT"    -> <<"^FO", "^A0", "^FD", "^FS">>
       [] elements[i].type = "BARCODE" -> <<"^FO", "^B", "^FD", "^FS">>
       [] elements[i].type = "BOX"     -> <<"^FO", "^GB", "^FS">>]

Asked(elements) == <<"^XA", "^PW">> \o FlattenSeq(CommandsOf(elements)) \o <<"^XZ">>

\* What a field shows of the element it is printed for.
ShowsBound(fields, texts, values) ==
  \A i \in DOMAIN fields : \A p \in Range(texts[i].value) :
    p.kind = "binding" /\ p.text # "now" =>
      \E a \in 1..Len(fields[i]) + 1, b \in 0..Len(fields[i]) :
        SubSeq(fields[i], a, b) = values[p.text]

\* A whole label.
Says(u, sent, texts, asked, fields, values) ==
  /\ Warnings(sent) = {}
  /\ Executed(sent) = asked
  /\ Names \subseteq DOMAIN values \cup {"now"}
  /\ DOMAIN texts = 1..Len(texts) /\ Len(fields) = Len(texts)
  /\ Plain(u) => ShowsBound(fields, texts, values)

SaysItsOwn(u, sent) ==
  Says(u, sent, WithText(Template.elements), Asked(Template.elements),
       PrintedFields(sent), ContextOf[u])

\* LabelSaysWhatIsBound for one label, whole or cut.
SaysSoFar(u, sent, texts, asked, fields, values) ==
  /\ Warnings(sent) = {} <=> IsWhole(sent)
  /\ IsPrefix(Executed(sent), asked)
  /\ Names \subseteq DOMAIN values \cup {"now"}
  /\ Len(fields) <= Len(texts)
  /\ IsWhole(sent) => Executed(sent) = asked /\ Len(fields) = Len(texts)
  /\ Plain(u) => ShowsBound(fields, texts, values)

SaysWhatCame(u, sent) ==
  SaysSoFar(u, sent, WithText(Template.elements), Asked(Template.elements),
            PrintedFields(sent), ContextOf[u])

LEMMA SaysIsTheProperty ==
  LabelSaysWhatIsBound <=> \A label \in pile : SaysWhatCame(label.unit, label.stream)
BY DEF LabelSaysWhatIsBound, SaysWhatCame, SaysSoFar, ShowsBound, WithText, Asked, CommandsOf

\* The fields of the elements show what they bind, one for each that has a text.
LEMMA FieldsShow ==
  ASSUME NEW elements \in Seq(Element), NEW ctx, NEW fields \in Seq(Seq(Tokens)), NEW shown,
         Len(fields) = Len(elements),
         \A i \in 1..Len(elements) :
           IF elements[i].type = "BOX" THEN fields[i] = <<>>
           ELSE \E f \in Tokens : fields[i] = <<f>> /\ (shown = TRUE => Shows(f, elements[i], ctx))
  PROVE  LET texts   == WithText(elements)
             printed == FlattenSeq(fields)
         IN  /\ Len(printed) = Len(texts) /\ DOMAIN texts = 1..Len(texts)
             /\ shown = TRUE => \A i \in 1..Len(texts) : Shows(printed[i], texts[i], ctx)
<1>1. PICK ones, n : /\ ones = [i \in DOMAIN elements |->
                                 IF i \in {j \in DOMAIN elements : elements[j].type # "BOX"}
                                 THEN <<elements[i]>> ELSE <<>>]
                     /\ n = Len(elements)
  OBVIOUS
<1>2. /\ n \in Nat /\ DOMAIN elements = 1..n /\ \A i \in 1..n : elements[i] \in Element
  BY <1>1
<1>3. \A i \in 1..n : ones[i] = IF elements[i].type = "BOX" THEN <<>> ELSE <<elements[i]>>
  BY <1>1, <1>2
<1>4. ones \in Seq(Seq(Element)) /\ Len(ones) = n
  <2>1. ones \in [1..n -> Seq(Element)]
    <3>1. ASSUME NEW i \in 1..n PROVE ones[i] \in Seq(Element)
      <4>1. <<>> \in Seq(Element) /\ <<elements[i]>> \in Seq(Element)
        BY <1>2
      <4> QED  BY <1>3, <4>1
    <3> QED  BY <1>1, <1>2, <3>1
  <2> QED  BY <1>2, <2>1, FunctionsAreSequences
<1> DEFINE R == {p \in Seq(Tokens) \X Seq(Element) :
                   /\ Len(p[1]) = Len(p[2])
                   /\ shown = TRUE => \A i \in 1..Len(p[2]) : Shows(p[1][i], p[2][i], ctx)}
<1>5. <<<<>>, <<>>>> \in R
  <2>1. <<>> \in Seq(Tokens) /\ <<>> \in Seq(Element) /\ Len(<<>>) = 0
    OBVIOUS
  <2>2. \A i \in 1..Len(<<>>) : FALSE
    BY <2>1
  <2> QED  BY <2>1, <2>2
<1>6. ASSUME NEW i \in 1..n, NEW a \in Seq(Tokens), NEW b \in Seq(Element), <<a, b>> \in R
      PROVE  <<a \o fields[i], b \o ones[i]>> \in R
  <2>1. /\ Len(a) = Len(b) /\ Len(b) \in Nat
        /\ shown = TRUE => \A k \in 1..Len(b) : Shows(a[k], b[k], ctx)
    BY <1>6
  <2>2. CASE elements[i].type = "BOX"
    <3>1. fields[i] = <<>> /\ ones[i] = <<>>
      BY <1>1, <1>3, <2>2
    <3>2. a \o <<>> = a /\ b \o <<>> = b
      BY ConcatEmptySeq
    <3> QED  BY <1>6, <3>1, <3>2
  <2>3. CASE elements[i].type # "BOX"
    <3>1. PICK f \in Tokens : fields[i] = <<f>> /\ (shown = TRUE => Shows(f, elements[i], ctx))
      BY <1>1, <2>3
    <3>2. PICK e, c, d : e = elements[i] /\ c = a \o <<f>> /\ d = b \o <<e>>
      OBVIOUS
    <3>3. ones[i] = <<e>> /\ e \in Element
      BY <1>2, <1>3, <2>3, <3>2
    <3>4. /\ c \in Seq(Tokens) /\ Len(c) = Len(b) + 1
          /\ \A k \in 1..Len(b) : c[k] = a[k]
          /\ c[Len(b) + 1] = f
      BY <2>1, <3>2
    <3>5. /\ d \in Seq(Element) /\ Len(d) = Len(b) + 1
          /\ \A k \in 1..Len(b) : d[k] = b[k]
          /\ d[Len(b) + 1] = e
      BY <3>2, <3>3
    <3>6. ASSUME shown = TRUE, NEW k \in 1..Len(d) PROVE Shows(c[k], d[k], ctx)
      <4>1. k \in 1..Len(b) \/ k = Len(b) + 1
        BY <2>1, <3>5
      <4> QED  BY <2>1, <3>1, <3>2, <3>4, <3>5, <3>6, <4>1
    <3>7. <<c, d>> \in R
      BY <3>4, <3>5, <3>6
    <3> QED  BY <3>1, <3>2, <3>3, <3>7
  <2> QED  BY <2>2, <2>3
<1>7. <<FlattenSeq(fields), FlattenSeq(ones)>> \in R
  <2> HIDE DEF R
  <2>1. /\ fields \in Seq(Seq(Tokens)) /\ ones \in Seq(Seq(Element)) /\ Len(fields) = Len(ones)
        /\ Len(fields) = n
    BY <1>1, <1>4
  <2>2. \A i \in 1..Len(fields) : \A a \in Seq(Tokens), b \in Seq(Element) :
          <<a, b>> \in R => <<a \o fields[i], b \o ones[i]>> \in R
    BY <1>6, <2>1
  <2> QED  BY ONLY <1>5, <2>1, <2>2, FlattenRelated
<1>8. WithText(elements) = FlattenSeq(ones)
  <2> PICK places : places = {i \in DOMAIN elements : elements[i].type # "BOX"}
    OBVIOUS
  <2>1. Those(elements, places)
          = FlattenSeq([i \in DOMAIN elements |-> IF i \in places THEN <<elements[i]>> ELSE <<>>])
    BY DEF Those
  <2>2. ones = [i \in DOMAIN elements |-> IF i \in places THEN <<elements[i]>> ELSE <<>>]
    BY <1>1
  <2> QED  BY <2>1, <2>2 DEF WithText
<1>9. PICK printed, texts : printed = FlattenSeq(fields) /\ texts = FlattenSeq(ones)
  OBVIOUS
<1>10. /\ printed \in Seq(Tokens) /\ texts \in Seq(Element) /\ Len(printed) = Len(texts)
       /\ shown = TRUE => \A i \in 1..Len(texts) : Shows(printed[i], texts[i], ctx)
  <2>1. <<printed, texts>> \in R
    BY <1>7, <1>9
  <2> QED  BY ONLY <2>1
<1>11. DOMAIN texts = 1..Len(texts)
  BY <1>10
<1> QED  BY <1>8, <1>9, <1>10, <1>11

LEMMA LabelIsRendered ==
  ASSUME NEW u, IsLabel(u)
  PROVE  LET elements == Template.elements
             bound(i) == BoundValue(elements[i], ContextOf[u])
             rendered(i) == [elements[i] EXCEPT !.value = bound(i)]
         IN  /\ elements \in Seq(Element) /\ Texted(ContextOf[u])
             /\ \A i \in DOMAIN elements : bound(i) # None /\ ~Contains(bound(i), Open)
             /\ Payload(u) = <<"^XA", "^PW">>
                               \o FlattenSeq([i \in DOMAIN elements |-> Zpl(rendered(i))])
                               \o <<"^XZ">>
<1>1. PICK elements, ctx : elements = Template.elements /\ ctx = ContextOf[u]
  OBVIOUS
<1>2. /\ Template \in [width : Int, height : Int, dpi : Int, elements : Seq(Element)]
      /\ Texted(ctx)
  BY <1>1, TextAssumption DEF Element, Texted, IsLabel
<1>3. elements \in Seq(Element)
  BY <1>1, <1>2
<1> DEFINE bound(i) == BoundValue(elements[i], ctx)
           rendered(i) == [elements[i] EXCEPT !.value = bound(i)]
<1>4. PICK t : t = Bind(Template, ctx)
  OBVIOUS
<1>5. t # None /\ Payload(u) = RenderZpl(t) /\ RenderZpl(t) # None
  BY <1>1, <1>4 DEF IsLabel, Payload
<1>6. /\ \A i \in DOMAIN elements : bound(i) # None
      /\ t = [Template EXCEPT !.elements = [i \in DOMAIN elements |-> rendered(i)]]
  BY <1>1, <1>4, <1>5 DEF Bind, BoundValue
<1>7. t.elements = [i \in DOMAIN elements |-> rendered(i)]
  BY <1>2, <1>6
<1>8. /\ Payload(u) = <<"^XA", "^PW">>
                        \o FlattenSeq([i \in DOMAIN t.elements |-> Zpl(t.elements[i])])
                        \o <<"^XZ">>
      /\ \A i \in DOMAIN t.elements : ~Contains(t.elements[i].value, Open)
  BY <1>5 DEF RenderZpl
<1>9. /\ DOMAIN t.elements = DOMAIN elements
      /\ \A i \in DOMAIN elements : t.elements[i] = rendered(i)
  BY <1>7
<1>10. \A i \in DOMAIN elements : t.elements[i].value = bound(i)
  <2> TAKE i \in DOMAIN elements
  <2>1. elements[i] \in Element
    BY <1>3
  <2> QED  BY <1>9, <2>1 DEF Element
<1>11. [i \in DOMAIN t.elements |-> Zpl(t.elements[i])]
         = [i \in DOMAIN elements |-> Zpl(rendered(i))]
  <2> HIDE DEF rendered
  <2> QED  BY <1>9
<1>12. \A i \in DOMAIN elements : ~Contains(bound(i), Open)
  <2> HIDE DEF bound
  <2> QED  BY <1>8, <1>9, <1>10
<1>13. Payload(u) = <<"^XA", "^PW">> \o FlattenSeq([i \in DOMAIN elements |-> Zpl(rendered(i))])
                      \o <<"^XZ">>
  BY <1>8, <1>11
<1> QED  BY <1>1, <1>2, <1>3, <1>6, <1>12, <1>13

LEMMA NothingToWarnOf ==
  ASSUME NEW s, CountOf(s, "^FO") = CountOf(s, "^FS"),
         CountOf(s, "^XA") # 0, CountOf(s, "^XZ") # 0, CountOf(s, Open) = 0
  PROVE  Warnings(s) = {}
BY DEF Warnings, CountOf

\* What is put around the elements of a label.
LEMMA LabelIsWrapped ==
  ASSUME NEW row \in Seq(Quiet), Closed(row), CountOf(row, "^FO") = CountOf(row, "^FS")
  PROVE  LET s == <<"^XA", "^PW">> \o row \o <<"^XZ">>
         IN  /\ s \in Tokens /\ Len(s) \in Nat \ {0} /\ s[Len(s)] = "^XZ"
             /\ \A i \in 1..(Len(s) - 1) : s[i] # "^XZ"
             /\ Warnings(s) = {} /\ Closed(s)
             /\ Executed(s) = <<"^XA", "^PW">> \o Executed(row) \o <<"^XZ">>
             /\ PrintedFields(s) = PrintedFields(row)
<1>1. PICK xa, pw, xz, fo, fs, fd :
        xa = "^XA" /\ pw = "^PW" /\ xz = "^XZ" /\ fo = "^FO" /\ fs = "^FS" /\ fd = "^FD"
  OBVIOUS
<1>2. /\ xa \in Commands /\ pw \in Commands /\ xz \in Commands /\ Commands \subseteq Glyphs
      /\ xa # fo /\ xa # fs /\ xa # fd /\ xa # xz
      /\ pw # fo /\ pw # fs /\ pw # fd /\ pw # xz
      /\ xz # fo /\ xz # fs /\ xz # fd
      /\ Open \notin Commands
  BY <1>1, CommandsDiffer DEF Glyphs
<1>3. PICK h, t, m : h = <<xa, pw>> /\ t = <<xz>> /\ m = Len(row)
  OBVIOUS
<1>4. /\ h \in Tokens /\ t \in Tokens /\ row \in Tokens
      /\ Len(h) = 2 /\ Len(t) = 1 /\ DOMAIN h = 1..2 /\ DOMAIN t = 1..1
      /\ h[1] = xa /\ h[2] = pw /\ t[1] = xz
  <2>1. h \in Tokens /\ t \in Tokens
    BY <1>2, <1>3 DEF Tokens
  <2>2. row \in Seq(Quiet)
    OBVIOUS
  <2>3. row \in Tokens
    BY ONLY <2>2, QuietIsToken
  <2> QED  BY <1>3, <2>1, <2>3
<1>5. /\ m \in Nat /\ DOMAIN row = 1..m
      /\ \A i \in 1..m : row[i] # xz /\ row[i] # Open
  BY <1>1, <1>3 DEF Quiet
<1>6. PICK hr : hr = h \o row
  OBVIOUS
<1>7. /\ hr \in Tokens /\ Len(hr) = 2 + m /\ DOMAIN hr = 1..(2 + m)
      /\ hr[1] = xa /\ hr[2] = pw
      /\ \A i \in 1..m : hr[2 + i] = row[i]
  <2>1. /\ h \o row \in Tokens /\ Len(h \o row) = Len(h) + Len(row)
        /\ DOMAIN (h \o row) = 1..(Len(h) + Len(row))
        /\ \A i \in 1..Len(h) : (h \o row)[i] = h[i]
        /\ \A i \in 1..Len(row) : (h \o row)[Len(h) + i] = row[i]
    <3>1. h \in Tokens /\ row \in Tokens
      BY <1>4
    <3> QED  BY ONLY <3>1, TokensOfTwo
  <2>2. 1 \in 1..2 /\ 2 \in 1..2
    OBVIOUS
  <2> QED  BY ONLY <1>3, <1>4, <1>6, <2>1, <2>2
<1>8. PICK s : s = hr \o t
  OBVIOUS
<1>9. /\ s \in Tokens /\ Len(s) = m + 3 /\ DOMAIN s = 1..(m + 3)
      /\ \A i \in 1..(2 + m) : s[i] = hr[i]
      /\ s[m + 3] = xz
  <2>1. /\ hr \o t \in Tokens /\ Len(hr \o t) = Len(hr) + Len(t)
        /\ DOMAIN (hr \o t) = 1..(Len(hr) + Len(t))
        /\ \A i \in 1..Len(hr) : (hr \o t)[i] = hr[i]
        /\ \A i \in 1..Len(t) : (hr \o t)[Len(hr) + i] = t[i]
    <3>1. hr \in Tokens /\ t \in Tokens
      BY <1>4, <1>7
    <3> QED  BY ONLY <3>1, TokensOfTwo
  <2>2. 1 \in 1..1 /\ (2 + m) + 1 = m + 3
    BY <1>5
  <2> QED  BY ONLY <1>4, <1>7, <1>8, <2>1, <2>2
<1>10. \A i \in 1..(m + 3) : i = 1 \/ i = 2 \/ i - 2 \in 1..m \/ i = m + 3
  BY <1>5
<1>11. /\ s[1] = xa /\ s[2] = pw /\ s[m + 3] = xz
       /\ \A i \in 1..(m + 3) : i - 2 \in 1..m => s[i] = row[i - 2]
  <2>1. 1 \in 1..(2 + m) /\ 2 \in 1..(2 + m)
    BY <1>5
  <2>2. ASSUME NEW i \in 1..(m + 3), i - 2 \in 1..m PROVE s[i] = row[i - 2]
    <3>1. i \in 1..(2 + m) /\ 2 + (i - 2) = i
      BY <1>5, <2>2
    <3>2. hr[2 + (i - 2)] = row[i - 2]
      BY <1>7, <2>2
    <3> QED  BY <1>9, <3>1, <3>2
  <2> QED  BY <1>7, <1>9, <2>1, <2>2
<1>12. \A i \in 1..(m + 2) : s[i] # xz
  <2> TAKE i \in 1..(m + 2)
  <2>1. i \in 1..(m + 3) /\ i # m + 3
    BY <1>5
  <2> QED  BY <1>2, <1>5, <1>10, <1>11, <2>1
<1>13. \A i \in 1..(m + 3) : s[i] # Open
  <2>1. xa # Open /\ pw # Open /\ xz # Open
    BY <1>2
  <2> QED  BY <1>5, <1>10, <1>11, <2>1
<1>14. CountOf(s, fo) = CountOf(s, fs)
  <2>1. /\ CountOf(h \o row, fo) = CountOf(h, fo) + CountOf(row, fo)
        /\ CountOf(h \o row, fs) = CountOf(h, fs) + CountOf(row, fs)
    BY ONLY <1>4, CountConcat
  <2>2. /\ CountOf(hr \o t, fo) = CountOf(hr, fo) + CountOf(t, fo)
        /\ CountOf(hr \o t, fs) = CountOf(hr, fs) + CountOf(t, fs)
    BY ONLY <1>4, <1>7, CountConcat
  <2>3. \A i \in 1..2 : i = 1 \/ i = 2
    OBVIOUS
  <2>4. /\ \A i \in DOMAIN h : h[i] # fo
        /\ \A i \in DOMAIN h : h[i] # fs
        /\ \A i \in DOMAIN t : t[i] # fo
        /\ \A i \in DOMAIN t : t[i] # fs
    BY <1>2, <1>4, <2>3
  <2>5. CountOf(h, fo) = 0 /\ CountOf(h, fs) = 0 /\ CountOf(t, fo) = 0 /\ CountOf(t, fs) = 0
    BY ONLY <1>4, <2>4, CountZero
  <2>6. CountOf(row, fo) = CountOf(row, fs)
    BY <1>1
  <2> QED  BY ONLY <1>6, <1>8, <2>1, <2>2, <2>5, <2>6
<1>15. Warnings(s) = {}
  <2>1. 1 \in DOMAIN s /\ m + 3 \in DOMAIN s
    BY <1>5, <1>9
  <2>2. CountOf(s, xa) # 0 /\ CountOf(s, xz) # 0
    BY ONLY <1>9, <1>11, <2>1, CountZero
  <2>3. CountOf(s, Open) = 0
    BY ONLY <1>9, <1>13, CountZero
  <2> QED  BY <1>1, <1>14, <2>2, <2>3, NothingToWarnOf
<1>16. Executed(s) = h \o Executed(row) \o t
  <2>1. Executed(h \o row) = Executed(h) \o Executed(row)
    BY ONLY <1>4, ExecutedConcat
  <2>2. Executed(hr \o t) = Executed(hr) \o Executed(t)
    BY ONLY <1>4, <1>7, ExecutedConcat
  <2>3. Executed(h) = h /\ Executed(t) = t
    BY ONLY <1>2, <1>3, ExecutedCommands
  <2> QED  BY ONLY <1>6, <1>8, <2>1, <2>2, <2>3
<1>17. PrintedFields(s) = PrintedFields(row) /\ Closed(s)
  <2>1. \A i \in 1..2 : i = 1 \/ i = 2
    OBVIOUS
  <2>2. /\ \A i \in DOMAIN h : h[i] # "^FD"
        /\ \A i \in DOMAIN t : t[i] # "^FD"
    BY <1>1, <1>2, <1>4, <2>1
  <2>3. /\ Closed(h) /\ PrintedFields(h) = <<>>
        /\ Closed(t) /\ PrintedFields(t) = <<>>
    BY ONLY <1>4, <2>2, PrintedNothing
  <2>c. Closed(row)
    OBVIOUS
  <2>4. Closed(h \o row) /\ PrintedFields(h \o row) = PrintedFields(h) \o PrintedFields(row)
    BY ONLY <1>4, <2>3, <2>c, PrintedConcat
  <2>5. PrintedFields(hr \o t) = PrintedFields(hr) \o PrintedFields(t) /\ Closed(hr \o t)
    BY ONLY <1>4, <1>6, <1>7, <2>3, <2>4, PrintedConcat
  <2>6. PICK p : p = PrintedFields(row)
    OBVIOUS
  <2>7. p \in Seq(Tokens)
    <3>1. Texts(row) \in Seq(Seq(Tokens))
      BY ONLY <1>4, <2>c, TextsType
    <3>2. PrintedFields(row) = FlattenSeq(Texts(row))
      BY ONLY <1>4, <2>c, ClosedTexts
    <3> QED  BY ONLY <2>6, <3>1, <3>2, FlattenType
  <2>8. <<>> \o p = p /\ p \o <<>> = p
    BY <2>7, ConcatEmptySeq
  <2> QED  BY <1>6, <1>8, <2>3, <2>4, <2>5, <2>6, <2>8
<1>18. Len(s) \in Nat \ {0} /\ s[Len(s)] = xz /\ \A i \in 1..(Len(s) - 1) : s[i] # xz
  <2>1. m + 3 \in Nat \ {0} /\ (m + 3) - 1 = m + 2
    BY <1>5
  <2> QED  BY <1>9, <1>11, <1>12, <2>1
<1>19. s = <<"^XA", "^PW">> \o row \o <<"^XZ">>
  BY <1>1, <1>3, <1>6, <1>8
<1>20. Executed(s) = <<"^XA", "^PW">> \o Executed(row) \o <<"^XZ">>
  BY <1>1, <1>3, <1>16
<1> QED  BY <1>1, <1>9, <1>15, <1>17, <1>18, <1>19, <1>20

LEMMA LabelsSayIt ==
  ASSUME NEW u, IsLabel(u)
  PROVE  LET sent == Payload(u)
         IN  /\ SaysItsOwn(u, sent)
             /\ sent \in Tokens /\ Len(sent) \in Nat \ {0} /\ sent[Len(sent)] = "^XZ"
             /\ \A i \in 1..(Len(sent) - 1) : sent[i] # "^XZ"
             /\ Closed(sent) /\ PrintedFields(sent) \in Seq(Tokens)
<1>1. PICK elements, ctx, n :
        elements = Template.elements /\ ctx = ContextOf[u] /\ n = Len(elements)
  OBVIOUS
<1>2. PICK bound : bound = [i \in DOMAIN elements |-> BoundValue(elements[i], ctx)]
  OBVIOUS
<1>3. PICK rendered : rendered = [i \in DOMAIN elements |-> [elements[i] EXCEPT !.value = bound[i]]]
  OBVIOUS
<1>4. PICK blocks : blocks = [i \in DOMAIN elements |-> Zpl(rendered[i])]
  OBVIOUS
<1>5. /\ elements \in Seq(Element) /\ Texted(ctx) /\ n \in Nat /\ DOMAIN elements = 1..n
      /\ \A i \in 1..n : elements[i] \in Element
  <2>1. elements \in Seq(Element) /\ Texted(ctx)
    BY <1>1, LabelIsRendered
  <2> QED  BY <1>1, <2>1
<1>6. \A i \in 1..n : /\ bound[i] = BoundValue(elements[i], ctx)
                      /\ bound[i] # None /\ ~Contains(bound[i], Open)
  <2>1. \A i \in DOMAIN elements : /\ BoundValue(elements[i], ctx) # None
                                   /\ ~Contains(BoundValue(elements[i], ctx), Open)
    BY <1>1, LabelIsRendered
  <2> QED  BY <1>2, <1>5, <2>1
<1>7. Payload(u) = <<"^XA", "^PW">> \o FlattenSeq(blocks) \o <<"^XZ">>
  <2>1. Payload(u) = <<"^XA", "^PW">>
          \o FlattenSeq([i \in DOMAIN elements |->
               Zpl([elements[i] EXCEPT !.value = BoundValue(elements[i], ctx)])])
          \o <<"^XZ">>
    BY <1>1, LabelIsRendered
  <2>2. blocks = [i \in DOMAIN elements |->
                    Zpl([elements[i] EXCEPT !.value = BoundValue(elements[i], ctx)])]
    BY <1>2, <1>3, <1>4
  <2> QED  BY <2>1, <2>2
<1> DEFINE Free == \A key \in DOMAIN ctx : \A token \in Range(ctx[key]) :
                     token \notin Controls \cup Newlines
<1>8. ASSUME NEW i \in 1..n
      PROVE  /\ bound[i] \in Seq(Data)
             /\ elements[i].type # "BOX" =>
                  /\ \A p \in Range(elements[i].value) :
                       p.kind = "binding" => p.text \in DOMAIN ctx \cup {"now"}
                  /\ Free => Shows(EscapeField(bound[i]), elements[i], ctx)
  <2>1. PICK e : e = elements[i]
    OBVIOUS
  <2>2. e \in Element /\ Texted(ctx) /\ BoundValue(e, ctx) # None /\ bound[i] = BoundValue(e, ctx)
    BY <1>5, <1>6, <2>1
  <2>3. /\ BoundValue(e, ctx) \in Seq(Data)
        /\ e.type # "BOX" =>
             /\ \A p \in Range(e.value) : p.kind = "binding" => p.text \in DOMAIN ctx \cup {"now"}
             /\ Free => Shows(EscapeField(BoundValue(e, ctx)), e, ctx)
    BY ONLY <2>2, ElementIsBound
  <2> QED  BY <2>1, <2>2, <2>3
<1>9. ASSUME NEW i \in 1..n
      PROVE  /\ blocks[i] \in Seq(Quiet) /\ Closed(blocks[i])
             /\ Executed(blocks[i]) = Executes(elements[i].type)
             /\ CountOf(blocks[i], "^FO") = CountOf(blocks[i], "^FS")
             /\ PrintedFields(blocks[i])
                  = IF elements[i].type = "BOX" THEN <<>> ELSE <<EscapeField(bound[i])>>
  <2>1. PICK e : e = rendered[i]
    OBVIOUS
  <2>2. e.type = elements[i].type /\ e.value = bound[i] /\ blocks[i] = Zpl(e)
    BY <1>3, <1>4, <1>5, <2>1 DEF Element
  <2>3. e.type \in {"TEXT", "BARCODE", "BOX"}
    BY <1>5, <2>2 DEF Element
  <2>4. e.value \in Seq(Data) /\ \A k \in 1..Len(e.value) : e.value[k] # Open
    BY <1>6, <1>8, <2>2 DEF Contains
  <2>5. /\ Zpl(e) \in Seq(Quiet) /\ Closed(Zpl(e))
        /\ Executed(Zpl(e)) = Executes(e.type)
        /\ CountOf(Zpl(e), "^FO") = CountOf(Zpl(e), "^FS")
        /\ PrintedFields(Zpl(e)) = IF e.type = "BOX" THEN <<>> ELSE <<EscapeField(e.value)>>
    BY ONLY <2>3, <2>4, ElementBlock
  <2> QED  BY <2>2, <2>5
<1>10. PICK commands, fields :
         /\ commands = [i \in 1..n |-> Executed(blocks[i])]
         /\ fields = [i \in 1..n |-> PrintedFields(blocks[i])]
  OBVIOUS
<1>11. /\ blocks \in Seq(Seq(Quiet)) /\ Len(blocks) = n
       /\ commands \in Seq(Tokens) /\ Len(commands) = n
       /\ fields \in Seq(Seq(Tokens)) /\ Len(fields) = n
  <2>1. \A i \in 1..n : Executed(blocks[i]) \in Tokens
    BY <1>9, QuietIsToken, ExecutedOnes
  <2>2. \A i \in 1..n : PrintedFields(blocks[i]) \in Seq(Tokens)
    <3> TAKE i \in 1..n
    <3>1. PICK v : v = EscapeField(bound[i])
      OBVIOUS
    <3>2. v \in Seq(Glyphs \ Commands)
      BY <1>8, <3>1, EscapedIsData
    <3>3. v \in Tokens
      BY <3>2 DEF Tokens
    <3>4. <<>> \in Seq(Tokens) /\ <<v>> \in Seq(Tokens)
      BY <3>3
    <3> QED  BY <1>9, <3>1, <3>4
  <2>3. /\ blocks \in [1..n -> Seq(Quiet)] /\ commands \in [1..n -> Tokens]
        /\ fields \in [1..n -> Seq(Tokens)]
    BY <1>4, <1>5, <1>9, <1>10, <2>1, <2>2
  <2> QED  BY <1>5, <2>3, FunctionsAreSequences
<1>12. PICK row : row = FlattenSeq(blocks)
  OBVIOUS
<1>13. /\ row \in Seq(Quiet) /\ Closed(row)
       /\ CountOf(row, "^FO") = CountOf(row, "^FS")
       /\ Executed(row) = FlattenSeq(commands) /\ PrintedFields(row) = FlattenSeq(fields)
  <2>1. \A i \in 1..Len(blocks) :
          /\ Closed(blocks[i]) /\ CountOf(blocks[i], "^FO") = CountOf(blocks[i], "^FS")
          /\ Executed(blocks[i]) = commands[i] /\ PrintedFields(blocks[i]) = fields[i]
    BY <1>9, <1>10, <1>11
  <2>2. Len(commands) = Len(blocks) /\ Len(fields) = Len(blocks)
    BY <1>11
  <2>3. Renders(blocks, commands, fields)
    BY ONLY <1>11, <2>1, <2>2 DEF Renders
  <2>4. LET r == FlattenSeq(blocks)
        IN  /\ r \in Seq(Quiet) /\ Closed(r)
            /\ CountOf(r, "^FO") = CountOf(r, "^FS")
            /\ Executed(r) = FlattenSeq(commands) /\ PrintedFields(r) = FlattenSeq(fields)
    BY ONLY <2>3, InARow
  <2> QED  BY ONLY <1>12, <2>4
<1>14. PICK sent : sent = <<"^XA", "^PW">> \o row \o <<"^XZ">>
  OBVIOUS
<1>15. Payload(u) = sent
  BY <1>7, <1>12, <1>14
<1>16. /\ sent \in Tokens /\ Len(sent) \in Nat \ {0} /\ sent[Len(sent)] = "^XZ"
       /\ \A i \in 1..(Len(sent) - 1) : sent[i] # "^XZ"
       /\ Warnings(sent) = {} /\ Closed(sent)
       /\ Executed(sent) = <<"^XA", "^PW">> \o FlattenSeq(commands) \o <<"^XZ">>
       /\ PrintedFields(sent) = FlattenSeq(fields)
  <2>1. row \in Seq(Quiet) /\ Closed(row) /\ CountOf(row, "^FO") = CountOf(row, "^FS")
    BY <1>13
  <2>2. LET s == <<"^XA", "^PW">> \o row \o <<"^XZ">>
        IN  /\ s \in Tokens /\ Len(s) \in Nat \ {0} /\ s[Len(s)] = "^XZ"
            /\ \A i \in 1..(Len(s) - 1) : s[i] # "^XZ"
            /\ Warnings(s) = {} /\ Closed(s)
            /\ Executed(s) = <<"^XA", "^PW">> \o Executed(row) \o <<"^XZ">>
            /\ PrintedFields(s) = PrintedFields(row)
    BY ONLY <2>1, LabelIsWrapped
  <2> QED  BY ONLY <1>13, <1>14, <2>2
<1>17. commands = CommandsOf(elements)
  <2>1. commands = [i \in 1..n |-> Executes(elements[i].type)]
    BY <1>9, <1>10
  <2> QED  BY <1>5, <2>1 DEF Executes, CommandsOf
<1>18. Names \subseteq DOMAIN ctx \cup {"now"}
  <2> SUFFICES ASSUME NEW i \in DOMAIN elements, elements[i].type # "BOX",
                      NEW p \in Range(elements[i].value), p.kind = "binding"
               PROVE  p.text \in DOMAIN ctx \cup {"now"}
    BY <1>1 DEF Names
  <2> QED  BY <1>5, <1>8
<1>19. PICK texts, printed : texts = WithText(elements) /\ printed = FlattenSeq(fields)
  OBVIOUS
<1>20. /\ Len(printed) = Len(texts) /\ DOMAIN texts = 1..Len(texts)
       /\ Free => \A i \in 1..Len(texts) : Shows(printed[i], texts[i], ctx)
  <2>1. PICK shown : shown = IF Free THEN TRUE ELSE FALSE
    OBVIOUS
  <2>2. \A i \in 1..Len(elements) :
          IF elements[i].type = "BOX" THEN fields[i] = <<>>
          ELSE \E f \in Tokens : fields[i] = <<f>> /\ (shown = TRUE => Shows(f, elements[i], ctx))
    <3> TAKE i \in 1..Len(elements)
    <3>1. i \in 1..n
      BY <1>1
    <3>2. fields[i] = IF elements[i].type = "BOX" THEN <<>> ELSE <<EscapeField(bound[i])>>
      BY <1>9, <1>10, <3>1
    <3>3. EscapeField(bound[i]) \in Seq(Glyphs \ Commands)
      BY <1>8, <3>1, EscapedIsData
    <3>4. EscapeField(bound[i]) \in Tokens
      BY <3>3 DEF Tokens
    <3>5. elements[i].type # "BOX" /\ shown = TRUE => Shows(EscapeField(bound[i]), elements[i], ctx)
      BY <1>8, <2>1, <3>1
    <3> QED  BY <3>2, <3>4, <3>5
  <2> HIDE DEF Free
  <2>3. /\ elements \in Seq(Element) /\ fields \in Seq(Seq(Tokens))
        /\ Len(fields) = Len(elements)
    BY <1>1, <1>5, <1>11
  <2>4. LET ts == WithText(elements)
            pr == FlattenSeq(fields)
        IN  /\ Len(pr) = Len(ts) /\ DOMAIN ts = 1..Len(ts)
            /\ shown = TRUE => \A i \in 1..Len(ts) : Shows(pr[i], ts[i], ctx)
    BY ONLY <2>2, <2>3, FieldsShow
  <2> QED  BY ONLY <1>19, <2>1, <2>4
<1>21. Plain(u) => Free
  BY <1>1 DEF Plain
<1>22. Says(u, sent, texts, Asked(elements), printed, ctx)
  <2>1. printed \in Seq(Tokens)
    BY <1>11, <1>19, FlattenType
  <2>2. DOMAIN printed = 1..Len(texts)
    BY <1>20, <2>1
  <2>3. Plain(u) => ShowsBound(printed, texts, ctx)
    BY <1>20, <1>21, <2>2 DEF Shows, ShowsBound
  <2> HIDE DEF Free
  <2>4. Executed(sent) = Asked(elements)
    BY <1>16, <1>17 DEF Asked
  <2> QED  BY <1>16, <1>18, <1>20, <2>3, <2>4 DEF Says
<1>23. SaysItsOwn(u, sent)
  BY ONLY <1>1, <1>16, <1>19, <1>22 DEF SaysItsOwn
<1>24. PrintedFields(sent) \in Seq(Tokens)
  BY <1>11, <1>16, FlattenType
<1> QED  BY <1>15, <1>16, <1>23, <1>24

-----------------------------------------------------------------------------
(* The beginning of a label. *)

LEMMA IsPrefixOfConcat ==
  \A a, b : a \in Tokens /\ b \in Tokens => IsPrefix(a, a \o b)
<1> TAKE a, b
<1>1. SUFFICES ASSUME a \in Tokens, b \in Tokens PROVE IsPrefix(a, a \o b)
  OBVIOUS
<1>2. PICK t, n : t = a \o b /\ n = Len(a)
  OBVIOUS
<1>3. /\ n \in Nat /\ Len(t) = n + Len(b) /\ Len(b) \in Nat
      /\ \A i \in 1..n : t[i] = a[i] /\ a[i] \in Glyphs
  BY <1>1, <1>2, TokensOfTwo
<1>4. SubSeq(t, 1, n) = SubSeq(a, 1, n)
  <2>1. \A k \in 1..n : a[k] \in Glyphs /\ t[k + 0] = a[k]
    BY <1>3
  <2>2. 1 \in Int /\ n \in Int /\ 0 \in Int /\ 1 + 0 = 1 /\ n + 0 = n
    BY <1>3
  <2>3. SubSeq(t, 1 + 0, n + 0) = SubSeq(a, 1, n)
    BY ONLY <2>1, <2>2, SameSubSeq
  <2> QED  BY <2>2, <2>3
<1>5. n <= Len(t)
  BY <1>3
<1> QED  BY <1>2, <1>4, <1>5 DEF IsPrefix

\* The fields that the beginning of a stream has finished.
Printed(s) ==
  [i \in DOMAIN s |-> IF s[i] = "^FD" /\ Finished(s, i)
                      THEN <<SubSeq(s, i + 1, FieldEnd(s, i) - 1)>> ELSE <<>>]

\* A field that is finished in the beginning is the same in the whole.
LEMMA FinishedStays ==
  ASSUME NEW s \in Tokens, NEW r \in Tokens, NEW t, t = s \o r,
         NEW i \in DOMAIN s, Finished(s, i)
  PROVE  SubSeq(s, i + 1, FieldEnd(s, i) - 1) = SubSeq(t, i + 1, FieldEnd(t, i) - 1)
<1>1. PICK n, l : n = Len(s) /\ l = Len(t)
  OBVIOUS
<1>2. /\ t \in Tokens /\ n \in Nat /\ l \in Nat /\ n <= l
      /\ DOMAIN s = 1..n /\ DOMAIN t = 1..l
      /\ \A k \in 1..n : t[k] = s[k] /\ s[k] \in Glyphs
  <2>1. s \in Tokens /\ r \in Tokens
    OBVIOUS
  <2>2. /\ s \o r \in Tokens /\ Len(s \o r) = Len(s) + Len(r)
        /\ Len(s) \in Nat /\ Len(r) \in Nat
        /\ DOMAIN s = 1..Len(s) /\ DOMAIN (s \o r) = 1..(Len(s) + Len(r))
        /\ \A k \in 1..Len(s) : (s \o r)[k] = s[k] /\ s[k] \in Glyphs
    BY ONLY <2>1, TokensOfTwo
  <2> QED  BY <1>1, <2>2
<1>3. PICK j : Ends(s, i, j)
  <2> DEFINE later == {j \in DOMAIN s : j > i /\ s[j] \in Commands}
  <2>1. later # {} /\ later \in SUBSET Nat
    BY <1>2 DEF Finished
  <2>2. PICK j \in later : \A k \in later : j <= k
    <3> HIDE DEF later
    <3> QED  BY <2>1, LeastNumber
  <2>3. i \in Nat /\ j \in 1..n /\ j > i /\ s[j] \in Commands
    BY <1>2, <2>2
  <2>4. ASSUME NEW k \in (i + 1)..(j - 1) PROVE s[k] \notin Commands
    <3>1. k \in 1..n /\ k > i /\ ~(j <= k)
      BY <1>2, <2>3
    <3>2. k \notin later
      BY ONLY <2>2, <3>1
    <3> QED  BY <1>2, <3>1, <3>2
  <2> QED  BY <1>2, <2>3, <2>4 DEF Ends
<1>4. /\ i \in 1..n /\ j \in 1..n /\ j > i /\ s[j] \in Commands
      /\ \A k \in (i + 1)..(j - 1) : s[k] \notin Commands
  BY <1>2, <1>3 DEF Ends
<1>5. \A k \in (i + 1)..(j - 1) : k \in 1..n
  BY <1>2, <1>4
<1>6. Ends(t, i, j)
  <2>1. j \in 1..l /\ t[j] \in Commands
    BY <1>2, <1>4
  <2>2. \A k \in (i + 1)..(j - 1) : t[k] \notin Commands
    BY <1>2, <1>4, <1>5
  <2> QED  BY <1>2, <1>4, <2>1, <2>2 DEF Ends
<1>7. FieldEnd(s, i) = j /\ FieldEnd(t, i) = j
  <2>1. i \in DOMAIN t
    BY <1>2, <1>4
  <2> QED  BY <1>2, <1>3, <1>6, <2>1, EndIsField
<1>8. SubSeq(t, i + 1, j - 1) = SubSeq(s, i + 1, j - 1)
  <2>1. PICK a, b, x, y : a = s /\ b = t /\ x = i + 1 /\ y = j - 1
    OBVIOUS
  <2>2. x \in Int /\ y \in Int /\ 0 \in Int /\ x + 0 = x /\ y + 0 = y
    BY <1>4, <2>1
  <2>3. \A k \in x..y : a[k] \in Glyphs /\ b[k + 0] = a[k]
    <3> TAKE k \in x..y
    <3>1. k \in 1..n /\ k + 0 = k
      BY <1>5, <2>1, <2>2
    <3>2. t[k] = s[k] /\ s[k] \in Glyphs
      BY <1>2, <3>1
    <3> QED  BY <2>1, <3>1, <3>2
  <2>4. SubSeq(b, x + 0, y + 0) = SubSeq(a, x, y)
    BY ONLY <2>2, <2>3, SameSubSeq
  <2> QED  BY <2>1, <2>2, <2>4
<1> QED  BY <1>7, <1>8

\* Up to the field that is cut, if there is one, both have the same fields, and the
\* beginning has none after it.
LEMMA PrintedSoFar ==
  ASSUME NEW s \in Tokens, NEW r \in Tokens, Closed(s \o r)
  PROVE  \E d \in 1..(Len(s) + 1) :
           /\ \A i \in 1..(d - 1) : Printed(s)[i] = Texts(s \o r)[i]
           /\ \A i \in d..Len(s) : Printed(s)[i] = <<>>
<1>1. PICK t, n, l : t = s \o r /\ n = Len(s) /\ l = Len(t)
  OBVIOUS
<1>2. /\ t \in Tokens /\ n \in Nat /\ l \in Nat /\ n <= l
      /\ DOMAIN s = 1..n /\ DOMAIN t = 1..l
      /\ \A k \in 1..n : t[k] = s[k]
  <2>1. s \in Tokens /\ r \in Tokens
    OBVIOUS
  <2>2. /\ s \o r \in Tokens /\ Len(s \o r) = Len(s) + Len(r)
        /\ Len(s) \in Nat /\ Len(r) \in Nat
        /\ DOMAIN s = 1..Len(s) /\ DOMAIN (s \o r) = 1..(Len(s) + Len(r))
        /\ \A k \in 1..Len(s) : (s \o r)[k] = s[k]
    BY ONLY <2>1, TokensOfTwo
  <2> QED  BY <1>1, <2>2
<1> DEFINE cut == {i \in 1..n : s[i] = "^FD" /\ ~Finished(s, i)} \cup {n + 1}
<1>3. cut # {} /\ cut \in SUBSET Nat
  BY <1>2
<1>4. PICK d \in cut : \A k \in cut : d <= k
  <2> HIDE DEF cut
  <2> QED  BY <1>3, LeastNumber
<1>5. d \in 1..(n + 1)
  BY <1>2
<1>6. ASSUME NEW i \in 1..(d - 1) PROVE Printed(s)[i] = Texts(t)[i]
  <2>1. i \in 1..n /\ ~(d <= i) /\ i \in 1..l
    BY <1>2, <1>5
  <2>2. i \notin cut
    BY ONLY <1>4, <2>1
  <2>3. s[i] = "^FD" => Finished(s, i)
    BY <2>1, <2>2
  <2>4. t[i] = s[i] /\ i \in DOMAIN s /\ i \in DOMAIN t
    BY <1>2, <2>1
  <2>5. CASE s[i] = "^FD"
    <3>1. SubSeq(s, i + 1, FieldEnd(s, i) - 1) = SubSeq(t, i + 1, FieldEnd(t, i) - 1)
      BY <1>1, <2>3, <2>4, <2>5, FinishedStays
    <3> QED  BY <2>3, <2>4, <2>5, <3>1 DEF Printed, Texts
  <2>6. CASE s[i] # "^FD"
    BY <2>4, <2>6 DEF Printed, Texts
  <2> QED  BY <2>5, <2>6
<1>7. ASSUME NEW i \in d..n PROVE Printed(s)[i] = <<>>
  <2>1. i \in DOMAIN s /\ d # n + 1 /\ (i = d \/ i > d) /\ d \in 1..n
    BY <1>2, <1>5
  <2>2. ~Finished(s, d)
    BY <2>1
  <2>3. CASE i = d
    BY <2>1, <2>2, <2>3 DEF Printed
  <2>4. CASE i > d
    <3>1. s[i] \notin Commands
      BY <2>1, <2>2, <2>4 DEF Finished
    <3>2. s[i] # "^FD"
      BY <3>1 DEF Commands
    <3> QED  BY <2>1, <3>2 DEF Printed
  <2> QED  BY <2>1, <2>3, <2>4
<1> QED  BY <1>1, <1>5, <1>6, <1>7

\* A row of rows that agrees with another up to a place and is empty from there.
LEMMA FlattenSoFar ==
  ASSUME NEW T, NEW p \in Seq(Seq(T)), NEW q \in Seq(Seq(T)), Len(p) <= Len(q),
         NEW d \in 1..(Len(p) + 1),
         \A i \in 1..(d - 1) : p[i] = q[i], \A i \in d..Len(p) : p[i] = <<>>
  PROVE  \E rest \in Seq(T) : FlattenSeq(q) = FlattenSeq(p) \o rest /\ FlattenSeq(p) \in Seq(T)
<1>1. PICK m, l : m = Len(p) /\ l = Len(q)
  OBVIOUS
<1>2. PICK a, b, c : a = SubSeq(p, 1, d - 1) /\ b = SubSeq(p, d, m) /\ c = SubSeq(q, d, l)
  OBVIOUS
<1>3. /\ m \in Nat /\ l \in Nat /\ m <= l /\ d \in Nat /\ 1 <= d /\ d <= m + 1
      /\ \A i \in 1..m : p[i] \in Seq(T)
      /\ \A i \in 1..l : q[i] \in Seq(T)
  BY <1>1
<1>4. /\ a \in Seq(Seq(T)) /\ Len(a) = d - 1 /\ \A i \in 1..(d - 1) : a[i] = p[i]
  <2>1. 1 \in Int /\ d - 1 \in Int /\ \A i \in 1..(d - 1) : p[i] \in Seq(T)
    BY <1>3
  <2>2. /\ a \in Seq(Seq(T)) /\ Len(a) = IF 1 <= d - 1 THEN (d - 1) - 1 + 1 ELSE 0
        /\ \A i \in 1..((d - 1) - 1 + 1) : a[i] = p[1 + i - 1]
    BY <1>2, <2>1, SubSeqProperties
  <2> QED  BY <1>3, <2>2
<1>5. /\ b \in Seq(Seq(T)) /\ Len(b) = m - d + 1 /\ \A i \in 1..(m - d + 1) : b[i] = p[d + i - 1]
  <2>1. d \in Int /\ m \in Int /\ \A i \in d..m : p[i] \in Seq(T)
    BY <1>3
  <2>0. b = SubSeq(p, d, m)
    BY <1>2
  <2>2. /\ b \in Seq(Seq(T)) /\ Len(b) = IF d <= m THEN m - d + 1 ELSE 0
        /\ \A i \in 1..(m - d + 1) : b[i] = p[d + i - 1]
    BY ONLY <2>0, <2>1, SubSeqProperties
  <2>3. d <= m \/ (m - d + 1 = 0 /\ ~(d <= m))
    BY <1>3
  <2> QED  BY ONLY <2>2, <2>3
<1>6. /\ c \in Seq(Seq(T)) /\ Len(c) = l - d + 1 /\ \A i \in 1..(l - d + 1) : c[i] = q[d + i - 1]
  <2>1. d \in Int /\ l \in Int /\ \A i \in d..l : q[i] \in Seq(T)
    BY <1>3
  <2>2. /\ c \in Seq(Seq(T)) /\ Len(c) = IF d <= l THEN l - d + 1 ELSE 0
        /\ \A i \in 1..(l - d + 1) : c[i] = q[d + i - 1]
    BY <1>2, <2>1, SubSeqProperties
  <2> QED  BY <1>3, <2>2
<1>7. p = a \o b
  <2>1. /\ Len(p) = Len(a) + Len(b)
        /\ \A i \in 1..Len(a) : p[i] = a[i]
        /\ \A i \in 1..Len(b) : p[Len(a) + i] = b[i]
    <3>1. Len(p) = Len(a) + Len(b)
      BY <1>1, <1>3, <1>4, <1>5
    <3>2. \A i \in 1..Len(a) : p[i] = a[i]
      BY <1>4
    <3>3. \A i \in 1..Len(b) : (d - 1) + i = d + i - 1
      BY <1>3, <1>5
    <3>4. \A i \in 1..Len(b) : p[Len(a) + i] = b[i]
      BY <1>4, <1>5, <3>3
    <3> QED  BY ONLY <3>1, <3>2, <3>4
  <2>2. InTwo(p, a, b)
    BY ONLY <2>1 DEF InTwo
  <2>3. p \in Seq(Seq(T))
    OBVIOUS
  <2> QED  BY ONLY <1>4, <1>5, <2>2, <2>3, InTwoIsConcat
<1>8. q = a \o c
  <2>1. /\ Len(q) = Len(a) + Len(c)
        /\ \A i \in 1..Len(a) : q[i] = a[i]
        /\ \A i \in 1..Len(c) : q[Len(a) + i] = c[i]
    <3>1. Len(q) = Len(a) + Len(c)
      BY <1>1, <1>3, <1>4, <1>6
    <3>2. \A i \in 1..Len(a) : q[i] = a[i]
      BY <1>4
    <3>3. \A i \in 1..Len(c) : (d - 1) + i = d + i - 1
      BY <1>3, <1>6
    <3>4. \A i \in 1..Len(c) : q[Len(a) + i] = c[i]
      BY <1>4, <1>6, <3>3
    <3> QED  BY ONLY <3>1, <3>2, <3>4
  <2>2. InTwo(q, a, c)
    BY ONLY <2>1 DEF InTwo
  <2>3. q \in Seq(Seq(T))
    OBVIOUS
  <2> QED  BY ONLY <1>4, <1>6, <2>2, <2>3, InTwoIsConcat
<1>9. FlattenSeq(b) = <<>>
  <2>1. \A i \in 1..Len(b) : b[i] = <<>>
    <3> TAKE i \in 1..Len(b)
    <3>1. i \in 1..(m - d + 1) /\ d + i - 1 \in d..m
      BY <1>3, <1>5
    <3> QED  BY <1>1, <1>5, <3>1
  <2> QED  BY ONLY <1>5, <2>1, FlattenEmpties
<1>10. FlattenSeq(a) \in Seq(T) /\ FlattenSeq(c) \in Seq(T)
  BY ONLY <1>4, <1>6, FlattenType
<1>11. FlattenSeq(p) = FlattenSeq(a)
  <2>1. FlattenSeq(a \o b) = FlattenSeq(a) \o FlattenSeq(b)
    BY ONLY <1>4, <1>5, FlattenConcat
  <2>2. FlattenSeq(a) \o <<>> = FlattenSeq(a)
    BY ONLY <1>10, ConcatEmptySeq
  <2> QED  BY ONLY <1>7, <1>9, <2>1, <2>2
<1>12. FlattenSeq(q) = FlattenSeq(a) \o FlattenSeq(c)
  <2>1. FlattenSeq(a \o c) = FlattenSeq(a) \o FlattenSeq(c)
    BY ONLY <1>4, <1>6, FlattenConcat
  <2> QED  BY ONLY <1>8, <2>1
<1> QED  BY <1>10, <1>11, <1>12

\* The fields that are finished are the first fields of the whole.
LEMMA FieldsSoFar ==
  ASSUME NEW s \in Tokens, NEW r \in Tokens, Closed(s \o r)
  PROVE  /\ PrintedFields(s) \in Seq(Tokens)
         /\ \E rest \in Seq(Tokens) : PrintedFields(s \o r) = PrintedFields(s) \o rest
<1>1. PICK t, p, q : t = s \o r /\ p = Printed(s) /\ q = Texts(t)
  OBVIOUS
<1>2. /\ t \in Tokens /\ Closed(t) /\ Len(s) \in Nat /\ Len(t) \in Nat /\ Len(s) <= Len(t)
      /\ DOMAIN s = 1..Len(s)
  <2>1. s \in Tokens /\ r \in Tokens /\ Closed(s \o r)
    OBVIOUS
  <2>2. s \o r \in Tokens /\ Len(s \o r) = Len(s) + Len(r) /\ Len(s) \in Nat /\ Len(r) \in Nat
        /\ DOMAIN s = 1..Len(s)
    BY ONLY <2>1, TokensOfTwo
  <2> QED  BY <1>1, <2>1, <2>2
<1>3. q \in Seq(Seq(Tokens)) /\ Len(q) = Len(t)
  BY <1>1, <1>2, TextsType
<1>4. PICK d \in 1..(Len(s) + 1) : /\ \A i \in 1..(d - 1) : p[i] = q[i]
                                   /\ \A i \in d..Len(s) : p[i] = <<>>
  BY <1>1, PrintedSoFar
<1>5. p \in Seq(Seq(Tokens)) /\ Len(p) = Len(s)
  <2>1. \A i \in 1..Len(s) : p[i] \in Seq(Tokens)
    <3> TAKE i \in 1..Len(s)
    <3>1. i \in 1..(d - 1) \/ i \in d..Len(s)
      BY <1>2
    <3>2. i \in 1..Len(q)
      BY <1>2, <1>3
    <3>3. q[i] \in Seq(Tokens) /\ <<>> \in Seq(Tokens)
      BY <1>3, <3>2
    <3> QED  BY <1>4, <3>1, <3>3
  <2>2. p \in [1..Len(s) -> Seq(Tokens)]
    BY <1>1, <1>2, <2>1 DEF Printed
  <2> QED  BY <1>2, <2>2, FunctionsAreSequences
<1>6. PICK rest \in Seq(Tokens) :
        FlattenSeq(q) = FlattenSeq(p) \o rest /\ FlattenSeq(p) \in Seq(Tokens)
  BY <1>2, <1>3, <1>4, <1>5, FlattenSoFar
<1>7. PrintedFields(s) = FlattenSeq(p)
  BY <1>1 DEF PrintedFields, Printed
<1>8. PrintedFields(t) = FlattenSeq(q)
  BY <1>1, <1>2, ClosedTexts
<1> QED  BY <1>1, <1>6, <1>7, <1>8

\* What came of the label of a unit.
Begins(u, s) ==
  /\ s \in Tokens /\ Len(s) # 0
  /\ \E r \in Tokens : Payload(u) = s \o r

LEMMA BeginningSays ==
  ASSUME NEW u, IsLabel(u), NEW s, Begins(u, s)
  PROVE  SaysWhatCame(u, s)
<1>1. PICK r \in Tokens : Payload(u) = s \o r
  BY DEF Begins
<1>2. PICK t, n, l : t = s \o r /\ n = Len(s) /\ l = Len(t)
  OBVIOUS
<1>3. /\ s \in Tokens /\ r \in Tokens /\ n \in Nat \ {0} /\ l = n + Len(r) /\ Len(r) \in Nat
      /\ DOMAIN s = 1..n /\ \A i \in 1..n : t[i] = s[i]
  <2>1. s \in Tokens /\ r \in Tokens /\ n # 0
    BY <1>1, <1>2 DEF Begins
  <2>2. /\ Len(s \o r) = Len(s) + Len(r) /\ Len(s) \in Nat /\ Len(r) \in Nat
        /\ DOMAIN s = 1..Len(s)
        /\ \A i \in 1..Len(s) : (s \o r)[i] = s[i]
    BY ONLY <2>1, TokensOfTwo
  <2> QED  BY <1>2, <2>1, <2>2
<1>4. /\ SaysItsOwn(u, t) /\ t \in Tokens /\ t[l] = "^XZ"
      /\ \A i \in 1..(l - 1) : t[i] # "^XZ"
      /\ Closed(t) /\ PrintedFields(t) \in Seq(Tokens)
  BY <1>1, <1>2, LabelsSayIt
<1>5. PICK texts, asked, fields, all, ctx :
        /\ texts = WithText(Template.elements) /\ asked = Asked(Template.elements)
        /\ fields = PrintedFields(s) /\ all = PrintedFields(t) /\ ctx = ContextOf[u]
  OBVIOUS
<1>6. /\ Warnings(t) = {} /\ Executed(t) = asked
      /\ Names \subseteq DOMAIN ctx \cup {"now"}
      /\ DOMAIN texts = 1..Len(texts) /\ Len(all) = Len(texts)
      /\ Plain(u) => ShowsBound(all, texts, ctx)
  BY <1>4, <1>5 DEF SaysItsOwn, Says
<1>7. IsPrefix(Executed(s), asked)
  <2>1. Executed(s \o r) = Executed(s) \o Executed(r)
    BY ONLY <1>3, ExecutedConcat
  <2>2. Executed(s) \in Tokens /\ Executed(r) \in Tokens
    BY ONLY <1>3, ExecutedOnes
  <2>3. IsPrefix(Executed(s), Executed(s) \o Executed(r))
    BY ONLY <2>2, IsPrefixOfConcat
  <2> QED  BY ONLY <1>2, <1>6, <2>1, <2>3
<1>8. PICK rest : fields \in Seq(Tokens) /\ rest \in Seq(Tokens) /\ all = fields \o rest
  BY <1>2, <1>3, <1>4, <1>5, FieldsSoFar
<1>9. /\ Len(fields) \in Nat /\ Len(fields) <= Len(all)
      /\ DOMAIN fields = 1..Len(fields) /\ DOMAIN all = 1..Len(all)
      /\ \A i \in 1..Len(fields) : all[i] = fields[i]
  BY ONLY <1>8, ConcatProperties
<1>10. Plain(u) => ShowsBound(fields, texts, ctx)
  <2>1. \A i \in DOMAIN fields : i \in DOMAIN all /\ all[i] = fields[i]
    BY <1>9
  <2> QED  BY <1>6, <2>1 DEF ShowsBound
<1>11. CASE Len(r) = 0
  <2>1. n = l
    BY <1>3, <1>11
  <2>2. s = t
    <3>1. r = <<>>
      BY <1>3, <1>11, EmptySeq DEF Tokens
    <3>2. s \o <<>> = s
      BY <1>3, ConcatEmptySeq DEF Tokens
    <3> QED  BY <1>2, <3>1, <3>2
  <2>3. IsWhole(s)
    BY <1>2, <1>4, <2>2 DEF IsWhole, Last
  <2>4. SaysSoFar(u, s, texts, asked, fields, ctx)
    BY <1>5, <1>6, <1>7, <1>9, <1>10, <2>2, <2>3 DEF SaysSoFar
  <2> QED  BY ONLY <1>5, <2>4 DEF SaysWhatCame
<1>12. CASE Len(r) # 0
  <2>1. \A i \in 1..n : i \in 1..(l - 1)
    BY <1>3, <1>12
  <2>2. \A i \in DOMAIN s : s[i] # "^XZ"
    BY <1>3, <1>4, <2>1
  <2>3. ~IsWhole(s)
    <3>1. n \in DOMAIN s
      BY <1>3
    <3> QED  BY <1>2, <2>2, <3>1 DEF IsWhole, Last
  <2>4. Warnings(s) # {}
    <3>1. CountOf(s, "^XZ") = 0
      BY ONLY <1>3, <2>2, CountZero
    <3>2. "not wrapped" \in Warnings(s)
      BY <3>1 DEF Warnings, CountOf
    <3> QED  BY <3>2
  <2>5. SaysSoFar(u, s, texts, asked, fields, ctx)
    BY <1>6, <1>7, <1>9, <1>10, <2>3, <2>4 DEF SaysSoFar
  <2> QED  BY ONLY <1>5, <2>5 DEF SaysWhatCame
<1> QED  BY <1>11, <1>12

-----------------------------------------------------------------------------
(* The labels of the stations. *)

\* What a station is about to send to the printer is the unit's label, and a
\* label in the pile is the beginning of one, or all of it.
LabelInv ==
  /\ \A u \in Units : phase[u] = "ready" /\ MethodOf[u] # "LASER_DPM" =>
       payload[u] = Payload(u) /\ IsLabel(u)
  /\ \A label \in pile : IsLabel(label.unit) /\ Begins(label.unit, label.stream)

LEMMA InitIsLabelled == MarkingInit => LabelInv
BY DEF MarkingInit, LabelInv

LEMMA ReceivesBeginning ==
  ASSUME NEW u, IsLabel(u), payload[u] = Payload(u),
         NEW n \in 0..Len(payload[u]), Receives(u, n)
  PROVE  \A label \in pile' : label \in pile \/ (label.unit = u /\ Begins(u, label.stream))
<1>1. PICK sent, m, s, r :
        /\ sent = Payload(u) /\ m = Len(sent)
        /\ s = SubSeq(sent, 1, n) /\ r = SubSeq(sent, n + 1, m)
  OBVIOUS
<1>2. sent \in Tokens /\ m \in Nat /\ n \in 0..m /\ \A i \in 1..m : sent[i] \in Glyphs
  <2>1. sent \in Tokens
    BY <1>1, LabelsSayIt
  <2> QED  BY <1>1, <2>1 DEF Tokens
<1>3. s \in Tokens /\ Len(s) = n /\ \A i \in 1..n : s[i] = sent[i]
  <2>1. 1 \in Int /\ n \in Int /\ \A i \in 1..n : sent[i] \in Glyphs
    BY <1>2
  <2>2. /\ s \in Seq(Glyphs) /\ Len(s) = IF 1 <= n THEN n - 1 + 1 ELSE 0
        /\ \A i \in 1..(n - 1 + 1) : s[i] = sent[1 + i - 1]
    BY <1>1, <2>1, SubSeqProperties
  <2> QED  BY <1>2, <2>2 DEF Tokens
<1>4. r \in Tokens /\ Len(r) = m - n /\ \A i \in 1..(m - n) : r[i] = sent[n + i]
  <2>1. n + 1 \in Int /\ m \in Int /\ \A i \in (n + 1)..m : sent[i] \in Glyphs
    BY <1>2
  <2>2. /\ r \in Seq(Glyphs) /\ Len(r) = IF n + 1 <= m THEN m - (n + 1) + 1 ELSE 0
        /\ \A i \in 1..(m - (n + 1) + 1) : r[i] = sent[(n + 1) + i - 1]
    BY <1>1, <2>1, SubSeqProperties
  <2>3. m - (n + 1) + 1 = m - n /\ \A i \in 1..(m - n) : (n + 1) + i - 1 = n + i
    BY <1>2
  <2> QED  BY <1>2, <2>2, <2>3 DEF Tokens
<1>5. sent = s \o r
  <2>0. Len(sent) = m
    BY <1>1
  <2>1. Len(sent) = Len(s) + Len(r)
    BY ONLY <1>2, <1>3, <1>4, <2>0
  <2>2. \A i \in 1..Len(s) : sent[i] = s[i]
    BY ONLY <1>3
  <2>3. \A i \in 1..Len(r) : sent[Len(s) + i] = r[i]
    BY ONLY <1>3, <1>4
  <2>4. InTwo(sent, s, r)
    BY ONLY <2>1, <2>2, <2>3 DEF InTwo
  <2> QED  BY ONLY <1>2, <1>3, <1>4, <2>4, TokensInTwo
<1>6. ASSUME NEW label \in pile', label \notin pile
      PROVE  n > 0 /\ label.unit = u /\ label.stream = s
  <2>1. PICK new : new = [unit |-> u, attempt |-> attempt[u], stream |-> s]
    OBVIOUS
  <2>2. pile' = pile \cup (IF n = 0 THEN {} ELSE {new})
    BY <1>1, <2>1 DEF Receives
  <2>3. label = new /\ n # 0
    BY <1>6, <2>2
  <2>4. n > 0
    BY <1>2, <2>3
  <2> QED  BY <2>1, <2>3, <2>4
<1>7. n > 0 => Begins(u, s)
  <2>1. Payload(u) = s \o r
    BY <1>1, <1>5
  <2>2. n > 0 => Len(s) # 0
    BY ONLY <1>2, <1>3
  <2> QED  BY ONLY <1>3, <1>4, <2>1, <2>2 DEF Begins
<1> QED  BY <1>6, <1>7

LEMMA LabelStep ==
  ASSUME MarkingInv, LabelInv, [MarkingNext]_(markingVars)
  PROVE  LabelInv'
<1> USE DEF Phases
<1>0. /\ \A u : Payload(u)' = Payload(u)
      /\ \A u : IsLabel(u)' <=> IsLabel(u)
      /\ \A u, s : Begins(u, s)' <=> Begins(u, s)
  BY DEF Payload, IsLabel, Uid, Begins
<1>1. CASE UNCHANGED markingVars
  BY <1>1 DEF markingVars, station, LabelInv, Payload, IsLabel, Uid, Begins
<1>2. CASE UNCHANGED shift /\ Restart
  BY <1>2 DEF Restart, LabelInv, Payload, IsLabel, Uid, Begins
<1>3. ASSUME NEW u \in shift, UNCHANGED shift,
             \/ Begin(u) \/ Send(u) \/ SendFails(u) \/ Stick(u)
             \/ Mark(u) \/ Scan(u) \/ Finish(u)
      PROVE  LabelInv'
  <2>1. MarkingTypes /\ u \in Units
    BY DEF MarkingInv, MarkingTypes
  <2>2. CASE Begin(u)
    <3>1. /\ phase' = [phase EXCEPT ![u] = IF Payload(u) = None THEN "refused" ELSE "ready"]
          /\ payload' = [payload EXCEPT ![u] = Payload(u)] /\ pile' = pile
      BY <2>2 DEF Begin
    <3>2. ASSUME NEW v \in Units, phase'[v] = "ready", MethodOf[v] # "LASER_DPM"
          PROVE  payload'[v] = Payload(v) /\ IsLabel(v)
      BY <2>1, <3>1, <3>2 DEF MarkingTypes, LabelInv, IsLabel
    <3> QED  BY <1>0, <3>1, <3>2 DEF LabelInv
  <2>3. CASE Send(u) \/ SendFails(u)
    <3>1. /\ phase[u] = "ready" /\ MethodOf[u] # "LASER_DPM" /\ payload' = payload
          /\ \E p \in {"applied", "faulted"} : phase' = [phase EXCEPT ![u] = p]
      BY <2>3 DEF Send, SendFails
    <3>2. payload[u] = Payload(u) /\ IsLabel(u)
      BY <2>1, <3>1 DEF LabelInv
    <3>n. Len(payload[u]) \in Nat
      BY <3>2, LabelsSayIt
    <3>r. \E n \in 0..Len(payload[u]) : Receives(u, n)
      BY <2>3, <3>n DEF Send, SendFails
    <3>3. \A label \in pile' : label \in pile \/ (label.unit = u /\ Begins(u, label.stream))
      BY <3>2, <3>r, ReceivesBeginning
    <3>4. \A v \in Units : phase'[v] = "ready" => phase[v] = "ready"
      BY <2>1, <3>1 DEF MarkingTypes
    <3> QED  BY <1>0, <3>1, <3>2, <3>3, <3>4 DEF LabelInv
  <2>4. CASE Stick(u)
    <3>1. phase' = phase /\ payload' = payload /\ pile' \subseteq pile
      BY <2>4 DEF Stick, station
    <3> QED  BY <1>0, <3>1 DEF LabelInv
  <2>5. CASE Mark(u) \/ Scan(u) \/ Finish(u)
    <3>1. /\ pile' = pile
          /\ \A v \in Units : phase'[v] = "ready" => v # u /\ phase[v] = "ready"
          /\ \A v \in Units : v # u => payload'[v] = payload[v]
      BY <2>1, <2>5 DEF MarkingTypes, Mark, Scan, Finish
    <3> QED  BY <1>0, <3>1 DEF LabelInv
  <2> QED  BY <1>3, <2>2, <2>3, <2>4, <2>5
<1> QED  BY <1>1, <1>2, <1>3 DEF MarkingNext

\* Any label that a printer prints, whole or as far as it came: it executes the
\* commands its template asks for and no data; the printer of device-sim warns of it
\* just when it is cut; no name in it is left open; and each field that was finished,
\* every one of a whole label, shows what was bound there unless a control character is
\* in the data (binding.rs, render_expression; template.rs, bind; zpl.rs, render_zpl and
\* escape_field; sink.rs, send).
THEOREM LabelsSay == MarkingSpec => []LabelSaysWhatIsBound
<1>1. LabelInv => LabelSaysWhatIsBound
  BY BeginningSays, SaysIsTheProperty DEF LabelInv
<1>2. MarkingInit => MarkingInv /\ LabelInv
  BY InitIsMarked, InitIsLabelled
<1>3. MarkingInv /\ LabelInv /\ [MarkingNext]_markingVars => (MarkingInv /\ LabelInv)'
  BY MarkingStep, LabelStep
<1> QED  BY <1>1, <1>2, <1>3, PTL DEF MarkingSpec
=============================================================================
