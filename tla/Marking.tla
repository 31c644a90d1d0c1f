------------------------------- MODULE Marking -------------------------------
(***************************************************************************)
(* Stations that put the identity of units on their parts, with the label  *)
(* and marker drivers of crates/trace-mark, record each attempt with       *)
(* record_mark (crates/trace-store/src/repo.rs) and let a unit go when the *)
(* MARK_VERIFIED gate of the route engine passes.                          *)
(*                                                                         *)
(* One printer and one marker serve all the units.  Labels come out in a   *)
(* pile, and the operator sticks one of them on a part.  The order of the  *)
(* calls is the caller's; what is read back is what is on the part.        *)
(***************************************************************************)
EXTENDS Label, FiniteSets

CONSTANTS
  Units,
  Template,     \* its last element is the code with the identity
  ContextOf,    \* the binding context of each unit
  MethodOf,     \* its revision's mark_method: NONE, LABEL or LASER_DPM
  MinGrade,     \* its revision's min_mark_grade, 1 for A
  Grades,       \* what the reader may grade a mark
  CorruptAs,    \* what the marker may write in place of the identity, or None
  Cuts,         \* bound: how many tokens short a label may be cut
  Shifts,       \* bound: the sets of units to work on at one time
  MaxAttempts   \* bound: attempts in all

Uid(u) == ContextOf[u]["unit.uid"]

\* No two units of a tenant bear one uid (0002_runtime_and_partitions.sql).
ASSUME UidsAssumption ==
  /\ Shifts \subseteq SUBSET Units
  /\ \A u, v \in Units : Uid(u) = Uid(v) => u = v

\* Text is split at the control characters: no token of it is a whole command.
Words == STRING \ (Commands \ Controls)

TextParts == [kind : {"literal", "binding", "open"}, text : Words]

ASSUME TextAssumption ==
  /\ Template \in [width : Int, height : Int, dpi : Int,
                   elements : Seq([type : {"TEXT", "BARCODE", "BOX"}, x : Int, y : Int,
                                   value : Seq(TextParts)])]
  /\ \A u \in Units : \A key \in DOMAIN ContextOf[u] : ContextOf[u][key] \in Seq(Words)

Engine == INSTANCE RouteEngine

VARIABLES
  shift,         \* the units at work
  phase,         \* where the work on each unit stands
  payload,       \* what its station is about to send, None before
  attempt,       \* attempts begun
  pile,          \* labels on no part, whole or cut: [unit, attempt, stream]
  part,          \* what the mark on the unit's part decodes to, None without
  verification,  \* what the station has read back: [decoded, grade] or None
  records,       \* the table mark_record
  marker         \* SimulatedMarker: [marked, corrupt_as, fault]

station == <<phase, payload, verification>>
markingVars == <<shift, station, attempt, pile, part, records, marker>>

Phases == {"waiting", "refused", "ready", "faulted", "applied", "scanned", "completed"}

MarkingInit ==
  /\ shift \in Shifts
  /\ phase = [u \in Units |-> "waiting"]
  /\ payload = [u \in Units |-> None]
  /\ attempt = [u \in Units |-> 0]
  /\ pile = {}
  /\ part = [u \in Units |-> None]
  /\ verification = [u \in Units |-> None]
  /\ records = {}
  /\ marker \in [marked : {None}, corrupt_as : CorruptAs, fault : BOOLEAN]

-----------------------------------------------------------------------------
(* Applying. *)

\* bind and render_zpl for a label; the identity itself for a marker.
Payload(u) ==
  IF MethodOf[u] = "LASER_DPM" THEN Uid(u)
  ELSE LET bound == Bind(Template, ContextOf[u])
       IN  IF bound = None THEN None ELSE RenderZpl(bound)

Begin(u) ==
  /\ phase[u] = "waiting" /\ FoldFunction(+, 0, attempt) < MaxAttempts
  /\ attempt' = [attempt EXCEPT ![u] = @ + 1]
  /\ payload' = [payload EXCEPT ![u] = Payload(u)]
  /\ phase' = [phase EXCEPT ![u] = IF Payload(u) = None THEN "refused" ELSE "ready"]
  /\ UNCHANGED <<pile, part, verification, records, marker>>

\* The printer receives the first n tokens, and prints what it has.
Receives(u, n) ==
  LET label == [unit |-> u, attempt |-> attempt[u], stream |-> SubSeq(payload[u], 1, n)]
  IN  pile' = pile \cup (IF n = 0 THEN {} ELSE {label})

\* TcpSink::send and FileSink::send.
Send(u) ==
  /\ phase[u] = "ready" /\ MethodOf[u] # "LASER_DPM"
  /\ Receives(u, Len(payload[u]))
  /\ phase' = [phase EXCEPT ![u] = "applied"]
  /\ UNCHANGED <<payload, verification, attempt, part, records, marker>>

\* The same, unreachable or out of time: the printer may have any part of it,
\* and all of it.
SendFails(u) ==
  /\ phase[u] = "ready" /\ MethodOf[u] # "LASER_DPM"
  /\ \E n \in 0..Len(payload[u]) :
       (n > 0 => Len(payload[u]) - n \in Cuts) /\ Receives(u, n)
  /\ phase' = [phase EXCEPT ![u] = "faulted"]
  /\ UNCHANGED <<payload, verification, attempt, part, records, marker>>

\* What a reader may make of the code on a label, which is the last field: if it
\* is cut, nothing or what came of it.
CodeRead(stream) ==
  LET fields == PrintedFields(stream)
      all    == Cardinality({i \in DOMAIN Template.elements :
                               Template.elements[i].type # "BOX"})
  IN  IF IsWhole(stream) THEN {Last(fields)}
      ELSE {None} \cup (CASE Len(fields) = all     -> {Last(fields)}
                          [] Len(fields) = all - 1 -> CutFields(stream)
                          [] OTHER                 -> {})

\* The operator takes a label of the pile, not always the unit's.
Stick(u) ==
  /\ phase[u] = "applied" /\ MethodOf[u] # "LASER_DPM"
  /\ \E label \in pile :
       /\ pile' = pile \ {label}
       /\ \E code \in CodeRead(label.stream) : part' = [part EXCEPT ![u] = code]
  /\ UNCHANGED <<station, attempt, records, marker>>

\* SimulatedMarker::mark.
Mark(u) ==
  /\ phase[u] = "ready" /\ MethodOf[u] = "LASER_DPM"
  /\ IF marker.fault
     THEN /\ marker' = [marker EXCEPT !.fault = FALSE]
          /\ phase' = [phase EXCEPT ![u] = "faulted"]
          /\ UNCHANGED part
     ELSE /\ marker' = [marker EXCEPT !.marked = payload[u]]
          /\ part' = [part EXCEPT ![u] = IF marker.corrupt_as # None
                                         THEN marker.corrupt_as ELSE payload[u]]
          /\ phase' = [phase EXCEPT ![u] = "applied"]
  /\ UNCHANGED <<payload, verification, attempt, pile, records>>

-----------------------------------------------------------------------------
(* Reading back and recording. *)

\* Mutant: what was meant to be marked is reported.
ReadBack_Intended(u) ==
  IF MethodOf[u] = "LASER_DPM" THEN marker.marked ELSE part[u]

\* What a reader decodes: SimulatedMarker::read_back, the last mark it made or
\* the wrong one; for a label, what is on the part.
ReadBack(u) ==
  IF MethodOf[u] # "LASER_DPM" THEN part[u]
  ELSE IF marker.corrupt_as # None THEN marker.corrupt_as
  ELSE marker.marked

Scan(u) ==
  /\ phase[u] = "applied"
  /\ \E grade \in Grades :
       verification' = [verification EXCEPT ![u] =
         IF ReadBack(u) = None THEN None
         ELSE [decoded |-> ReadBack(u), grade |-> grade]]
  /\ phase' = [phase EXCEPT ![u] = "scanned"]
  /\ UNCHANGED <<payload, attempt, pile, part, records, marker>>

\* The gate, on what the station has gathered.
MarkVerified(u) ==
  Engine!MarkVerified(
    [unit |-> [uid |-> Uid(u)],
     revision |-> [mark_method |-> MethodOf[u], min_mark_grade |-> MinGrade],
     mark_verification |-> verification[u]])

Outcome(u) ==
  CASE phase[u] = "faulted" -> "DEVICE_FAULT"
    [] phase[u] = "applied" -> "APPLIED_UNVERIFIED"
    [] OTHER -> IF MarkVerified(u) THEN "VERIFIED" ELSE "VERIFY_FAILED"

\* record_mark: the caller says whether this is a reprint, and the database
\* refuses one that nobody has signed.
RecordMark(u, is_reprint, signed) ==
  /\ is_reprint => signed
  /\ records' = records \cup {[unit |-> u, attempt |-> attempt[u], outcome |-> Outcome(u),
                               is_reprint |-> is_reprint, signed |-> signed]}

\* The station records the attempt; a unit whose gate passes goes on, another
\* is tried again.
Finish(u) ==
  /\ phase[u] \in {"faulted", "applied", "scanned"}
  /\ RecordMark(u, attempt[u] > 1, attempt[u] > 1)
  /\ payload' = [payload EXCEPT ![u] = None]
  /\ IF phase[u] = "scanned" /\ MarkVerified(u)
     THEN /\ phase' = [phase EXCEPT ![u] = "completed"]
          /\ UNCHANGED verification
     ELSE /\ phase' = [phase EXCEPT ![u] = "waiting"]
          /\ verification' = [verification EXCEPT ![u] = None]
  /\ UNCHANGED <<attempt, pile, part, marker>>

\* Power is lost: labels and parts stay, and what is in the memory of the
\* station is gone.
Restart ==
  /\ phase' = [u \in Units |-> IF phase[u] = "completed" THEN "completed" ELSE "waiting"]
  /\ payload' = [u \in Units |-> None]
  /\ verification' = [u \in Units |-> IF phase[u] = "completed" THEN verification[u] ELSE None]
  /\ marker' = [marker EXCEPT !.marked = None]
  /\ UNCHANGED <<attempt, pile, part, records>>

MarkingNext ==
  /\ UNCHANGED shift
  /\ \/ Restart
     \/ \E u \in shift :
          \/ Begin(u) \/ Send(u) \/ SendFails(u) \/ Stick(u)
          \/ Mark(u) \/ Scan(u) \/ Finish(u)

MarkingSpec == MarkingInit /\ [][MarkingNext]_markingVars

-----------------------------------------------------------------------------
\* Whatever labels pile up after faults and restarts, whichever the operator
\* takes, and whatever a marker writes, a unit that went on carries its own
\* identity, readable as the revision asks, and no two such units carry one.
CompletedCarriesItsIdentity ==
  \A u \in Units : phase[u] = "completed" /\ MethodOf[u] # "NONE" =>
    /\ part[u] = Uid(u)
    /\ MinGrade # None => verification[u].grade <= MinGrade
    /\ \A v \in Units \ {u} :
         phase[v] = "completed" /\ MethodOf[v] # "NONE" => part[v] # part[u]

\* The names a template uses.
Names == {p.text : p \in {q \in UNION {Range(Template.elements[i].value) :
                            i \in {j \in DOMAIN Template.elements :
                                    Template.elements[j].type # "BOX"}} :
                          q.kind = "binding"}}

Plain(u) ==
  \A key \in DOMAIN ContextOf[u] : \A token \in Range(ContextOf[u][key]) :
    token \notin Controls \cup Newlines

\* No data is ever taken for a command: what the printer executes is what the
\* template asks for, as far as the label came.  The printer of device-sim warns
\* of a cut label and of no whole one.  No label goes out with a name left open,
\* and where its data has no control character each field that was finished, all
\* of them if the label is whole, shows what was bound there.
LabelSaysWhatIsBound ==
  \A label \in pile :
    LET elements == Template.elements
        texts    == Those(elements, {i \in DOMAIN elements : elements[i].type # "BOX"})
        fields   == PrintedFields(label.stream)
        values   == ContextOf[label.unit]
        asked    == <<"^XA", "^PW">>
                      \o FlattenSeq([i \in DOMAIN elements |->
                           CASE elements[i].type = "TEXT"    -> <<"^FO", "^A0", "^FD", "^FS">>
                             [] elements[i].type = "BARCODE" -> <<"^FO", "^B", "^FD", "^FS">>
                             [] elements[i].type = "BOX"     -> <<"^FO", "^GB", "^FS">>])
                      \o <<"^XZ">>
    IN  /\ Warnings(label.stream) = {} <=> IsWhole(label.stream)
        /\ IsPrefix(Executed(label.stream), asked)
        /\ Names \subseteq DOMAIN values \cup {"now"}
        /\ Len(fields) <= Len(texts)
        /\ IsWhole(label.stream) => Executed(label.stream) = asked /\ Len(fields) = Len(texts)
        /\ Plain(label.unit) =>
             \A i \in DOMAIN fields : \A p \in Range(texts[i].value) :
               p.kind = "binding" /\ p.text # "now" =>
                 \E a \in 1..Len(fields[i]) + 1, b \in 0..Len(fields[i]) :
                   SubSeq(fields[i], a, b) = values[p.text]
=============================================================================
