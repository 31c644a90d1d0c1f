-------------------------------- MODULE Spool --------------------------------
(***************************************************************************)
(* The offline spool of a station (apps/trace-station/src/spool.rs): an    *)
(* append-only file of JSON lines, power cuts, failed writes, compaction,  *)
(* and the replay its docs describe, which the repository leaves to be     *)
(* written (main.rs): the edge keeps one event per record id, answers may  *)
(* be lost, acknowledged ids are then removed.                             *)
(*                                                                         *)
(* Records stand for their ids.  A file is a sequence of symbols: the two  *)
(* halves of the JSON of a record and line feeds.  What is not synced may  *)
(* be cut anywhere by a power cut, between the halves of a record too; in  *)
(* a record of Wide that place is inside a multi-byte character.           *)
(* The rename of a compaction is taken to be durable when it returns.      *)
(***************************************************************************)
EXTENDS Naturals, FiniteSets, SequencesExt

CONSTANTS
  Records,      \* the records the station produces
  Wide,         \* those with a character of several bytes in their JSON
  Writers,      \* the processes that append: the agent, trace-station --enqueue
  MaxCuts,      \* bound: power cuts and failed writes
  Nothing

ASSUME SpoolAssumption ==
  /\ Wide \subseteq Records
  /\ MaxCuts \in Nat
  /\ Nothing \notin Records

VARIABLES
  file,       \* the spool file, empty while it does not exist
  synced,     \* how much of it is known to be on disk
  doing,      \* what each writer is doing: "idle", "write" or "sync"
  record,     \* the record it appends, or Nothing
  compacted,  \* the synced .compacting file about to be renamed, or Nothing
  edge,       \* the records the edge has ingested
  acked,      \* the ids the replay has seen acknowledged, not removed yet
  captured,   \* history: the records whose append returned Ok
  written,    \* history: the records in the order of their writes
  tears,      \* history: how often a cut left the file inside a line
  cuts        \* power cuts and failed writes so far

spool == <<file, synced>>
appending == <<doing, record>>
spoolVars == <<spool, appending, compacted, edge, acked, captured, written, tears, cuts>>

NL == <<"line feed">>
Symbols == (Records \X {1, 2}) \cup {NL}

Line(r) == <<<<r, 1>>, <<r, 2>>, NL>>

SpoolInit ==
  /\ file = <<>> /\ synced = 0
  /\ doing = [w \in Writers |-> "idle"]
  /\ record = [w \in Writers |-> Nothing]
  /\ compacted = Nothing
  /\ edge = {} /\ acked = {} /\ captured = {} /\ written = <<>>
  /\ tears = 0 /\ cuts = 0

-----------------------------------------------------------------------------
(* Reading. *)

\* read_to_string: half of a wide record is not UTF-8 unless the other follows.
Readable(f) ==
  \A i \in DOMAIN f :
    f[i] \in Wide \X {1} => i < Len(f) /\ f[i + 1] = <<f[i][1], 2>>

\* Where the lines that parse start: a whole record and nothing else on its line.
Intact(f) ==
  {i \in DOMAIN f :
     /\ i = 1 \/ f[i - 1] = NL
     /\ f[i] \in Records \X {1}
     /\ i < Len(f) /\ f[i + 1] = <<f[i][1], 2>>
     /\ i + 2 <= Len(f) => f[i + 2] = NL}

Ascending(numbers) ==
  CHOOSE s \in [1..Cardinality(numbers) -> numbers] :
    \A j, k \in DOMAIN s : j < k => s[j] < s[k]

\* The records that start at places of a file, in the order of the file.
InOrder(f, places) == [k \in 1..Cardinality(places) |-> f[Ascending(places)[k]][1]]

\* load, when it does not fail: the intact records.
Load(f) == InOrder(f, Intact(f))

Queued == {file[i][1] : i \in Intact(file)}

-----------------------------------------------------------------------------
(* append. *)

Torn(f) == f # <<>> /\ Last(f) # NL

\* Whether a step leaves the file inside a line it was not inside before.
Tear == IF Torn(file') /\ ~Torn(file) THEN 1 ELSE 0

Idle == compacted = Nothing /\ \A w \in Writers : doing[w] = "idle"

\* The one writer of the module's docs compacts only while nothing is appended.
StartAppend(w, r) ==
  /\ doing[w] = "idle"
  /\ compacted = Nothing
  /\ r \notin ToSet(written) \cup {record[v] : v \in Writers}
  /\ doing' = [doing EXCEPT ![w] = "write"]
  /\ record' = [record EXCEPT ![w] = r]
  /\ UNCHANGED <<spool, compacted, edge, acked, captured, written, cuts, tears>>

\* write_all on a descriptor opened with O_APPEND.
Write(w) ==
  /\ doing[w] = "write"
  /\ file' = file \o Line(record[w])
  /\ written' = Append(written, record[w])
  /\ doing' = [doing EXCEPT ![w] = "sync"]
  /\ UNCHANGED <<synced, record, compacted, edge, acked, captured, cuts, tears>>

\* The disk is full: part of the line is there and append returns the error.
WriteFails(w) ==
  /\ doing[w] = "write"
  /\ cuts < MaxCuts
  /\ \E n \in 0..2 : file' = file \o SubSeq(Line(record[w]), 1, n)
  /\ tears' = tears + Tear
  /\ written' = Append(written, record[w])
  /\ doing' = [doing EXCEPT ![w] = "idle"]
  /\ record' = [record EXCEPT ![w] = Nothing]
  /\ cuts' = cuts + 1
  /\ UNCHANGED <<synced, compacted, edge, acked, captured>>

\* Mutant: append returns once the bytes are written, before the sync.
Sync_NotAwaited(w) ==
  /\ doing[w] = "sync"
  /\ captured' = captured \cup {record[w]}
  /\ doing' = [doing EXCEPT ![w] = "idle"]
  /\ record' = [record EXCEPT ![w] = Nothing]
  /\ UNCHANGED <<file, synced, compacted, edge, acked, written, cuts, tears>>

\* sync_all: all of the file is on disk and append returns Ok.
Sync(w) ==
  /\ doing[w] = "sync"
  /\ synced' = Len(file)
  /\ captured' = captured \cup {record[w]}
  /\ doing' = [doing EXCEPT ![w] = "idle"]
  /\ record' = [record EXCEPT ![w] = Nothing]
  /\ UNCHANGED <<file, compacted, edge, acked, written, cuts, tears>>

\* The sync fails: append returns the error, the line is in the file.
SyncFails(w) ==
  /\ doing[w] = "sync"
  /\ cuts < MaxCuts
  /\ doing' = [doing EXCEPT ![w] = "idle"]
  /\ record' = [record EXCEPT ![w] = Nothing]
  /\ cuts' = cuts + 1
  /\ UNCHANGED <<spool, compacted, edge, acked, captured, written, tears>>

-----------------------------------------------------------------------------
(* Replay and remove_acknowledged. *)

\* A queued record is sent; the edge has it whether or not its answer arrives.
Replay(r) ==
  /\ Readable(file) /\ r \in Queued
  /\ edge' = edge \cup {r}
  /\ acked' \in {acked, acked \cup {r}}
  /\ UNCHANGED <<spool, appending, compacted, captured, written, cuts, tears>>

\* The records that are not acknowledged, and the lines of records.
Remaining == InOrder(file, {i \in Intact(file) : file[i][1] \notin acked})

Lines(records) ==
  [i \in 1..3 * Len(records) |-> Line(records[(i + 2) \div 3])[1 + ((i + 2) % 3)]]

\* Mutant: the remaining records are written in the order of another collection.
Compact_Reversed ==
  /\ Idle /\ acked # {}
  /\ Readable(file)
  /\ compacted' = Lines(Reverse(Remaining))
  /\ UNCHANGED <<spool, appending, edge, acked, captured, written, cuts, tears>>

\* The remaining records go to a file of their own, synced before anything else.
Compact ==
  /\ Idle /\ acked # {}
  /\ Readable(file)
  /\ compacted' = Lines(Remaining)
  /\ UNCHANGED <<spool, appending, edge, acked, captured, written, cuts, tears>>

\* Mutant: what was known of the old file is kept for the new one.
Rename_StillSynced ==
  /\ compacted # Nothing
  /\ file' = compacted
  /\ compacted' = Nothing
  /\ acked' = {}
  /\ UNCHANGED <<synced, appending, edge, captured, written, cuts, tears>>

Rename ==
  /\ compacted # Nothing
  /\ file' = compacted
  /\ synced' = Len(compacted)
  /\ compacted' = Nothing
  /\ acked' = {}
  /\ UNCHANGED <<appending, edge, captured, written, cuts, tears>>

-----------------------------------------------------------------------------
\* The power goes: the file keeps what was synced and any part of the rest, the
\* .compacting file is left for the next compaction to truncate.
PowerCut ==
  /\ cuts < MaxCuts
  /\ \E n \in synced..Len(file) : file' = SubSeq(file, 1, n) /\ synced' = n
  /\ tears' = tears + Tear
  /\ doing' = [w \in Writers |-> "idle"]
  /\ record' = [w \in Writers |-> Nothing]
  /\ compacted' = Nothing
  /\ acked' = {}
  /\ cuts' = cuts + 1
  /\ UNCHANGED <<edge, captured, written>>

SpoolNext ==
  \/ \E w \in Writers :
       \/ \E r \in Records : StartAppend(w, r)
       \/ Write(w) \/ WriteFails(w) \/ Sync(w) \/ SyncFails(w)
  \/ \E r \in Records : Replay(r)
  \/ Compact \/ Rename \/ PowerCut

SpoolSpec == SpoolInit /\ [][SpoolNext]_spoolVars

-----------------------------------------------------------------------------
SpoolTypeOK ==
  /\ file \in Seq(Symbols)
  /\ synced \in 0..Len(file)
  /\ doing \in [Writers -> {"idle", "write", "sync"}]
  /\ record \in [Writers -> Records \cup {Nothing}]
  /\ compacted = Nothing \/ compacted \in Seq(Symbols)
  /\ edge \subseteq Records /\ acked \subseteq edge
  /\ captured \subseteq ToSet(written)
  /\ written \in Seq(Records)
  /\ tears \in 0..cuts /\ cuts \in 0..MaxCuts

\* The spool is a durable queue: power cuts, full disks, failed syncs, crashes of
\* a compaction, lost acknowledgements and repeated replays lose nothing that was
\* reported captured, but at most one record for each line cut short: the rest
\* of the queue survives (append, load, remove_acknowledged).
Queue == INSTANCE DurableQueue WITH
           waiting <- Queued, delivered <- edge

ImplementsQueue == Queue!Spec

\* A load returns records in the order they were appended, none twice, across
\* power cuts, torn lines and compactions.
LoadsInOrder ==
  LET loaded == Load(file)
      At(r) == CHOOSE k \in DOMAIN written : written[k] = r
  IN  \A j, k \in DOMAIN loaded : j < k => At(loaded[j]) < At(loaded[k])

\* spool.rs, append: "an operation must not be reported as captured until it
\* would survive the power going out a millisecond later".
CapturedIsKept == captured \subseteq Queued \cup edge
=============================================================================
