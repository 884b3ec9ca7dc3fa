---------------------------- MODULE SessionIndex ----------------------------
(***************************************************************************)
(* The session index of pkg/agent/index.go: an append-only file with one   *)
(* line per established session, read and compacted when a process starts  *)
(* and appended to by the readLoops of its sessions.                       *)
(*                                                                         *)
(* Files are numbered: compaction renames a new file over the path, and a  *)
(* writer that opened the path before keeps writing to the file it opened. *)
(* A session id is a function of its incident and the Created stamp only   *)
(* travels along, so a line stands for its incident.                       *)
(***************************************************************************)
EXTENDS Integers, FiniteSets, SequencesExt

CONSTANTS
    Incidents,   \* incident ids
    Corrupt,     \* a line that does not parse
    Procs,       \* srepd processes that share the session directory
    Threshold,   \* indexCompactionThreshold
    MaxStarts,   \* bound of the model: process starts
    MaxTorn,     \* bound of the model: appends cut short
    InitLines    \* bound of the model: length of the file found at first

IndexAssumption ==
    /\ Corrupt \notin Incidents
    /\ {Threshold, MaxStarts, MaxTorn, InitLines} \subseteq Nat

VARIABLES
    files,       \* content of every file so far: a sequence of lines
    path,        \* the file index.jsonl names, NoFile before the first write
    torn,        \* files whose last line has no newline
    proc,        \* "down", "compacting" or "up"
    mem,         \* per process: sessionIndex.established
    snapshot,    \* per process: what its load read, for compact()
    pending,     \* per process and incident: how far record() got
    starts,      \* process starts so far
    tears,       \* appends cut short so far
    found,       \* history: incidents in the file found at first
    durable,     \* history: those, and the ones whose line was written in full
    recorded     \* history: incidents established since

fileVars == <<files, path, torn>>
vars == <<files, path, torn, proc, mem, snapshot, pending, starts, tears,
          found, durable, recorded>>
history == <<found, durable, recorded>>

NoFile == 0
Lines == Incidents \cup {Corrupt}

(* record() is over or never ran, is between its halves, or (a file's      *)
(* number) has that file open.                                             *)
Nothing == -1
InMemory == 0

Content(f) == IF f = NoFile THEN <<>> ELSE files[f]

(* What a load of these lines puts into established.                       *)
Loadable(lines) == ToSet(lines) \cap Incidents
Stored == Loadable(Content(path))

TypeOK ==
    /\ files \in Seq(Seq(Lines))
    /\ path \in 0..Len(files)
    /\ torn \subseteq 1..Len(files)
    /\ proc \in [Procs -> {"down", "compacting", "up"}]
    /\ mem \in [Procs -> SUBSET Incidents]
    /\ snapshot \in [Procs -> Seq(Incidents)]
    /\ pending \in [Procs -> [Incidents -> Nothing..Len(files)]]
    /\ starts \in 0..MaxStarts
    /\ tears \in 0..MaxTorn
    /\ found \cup durable \subseteq Incidents
    /\ recorded \subseteq Incidents

Init ==
    /\ \/ files = <<>> /\ path = NoFile
       \/ \E lines \in SeqOf(Lines, InitLines) : files = <<lines>> /\ path = 1
    /\ torn = {}
    /\ proc = [p \in Procs |-> "down"]
    /\ mem = [p \in Procs |-> {}]
    /\ snapshot = [p \in Procs |-> <<>>]
    /\ pending = [p \in Procs |-> [i \in Incidents |-> Nothing]]
    /\ starts = 0
    /\ tears = 0
    /\ found = Stored
    /\ durable = Stored
    /\ recorded = {}

-----------------------------------------------------------------------------
(* load: the incidents in first-seen order, corrupt lines skipped.         *)
FirstSeenOrder(lines) ==
    LET isFirst(k) == lines[k] # Corrupt /\ \A j \in 1..(k-1) : lines[j] # lines[k]
        firsts == {k \in DOMAIN lines : isFirst(k)}
    IN  [n \in 1..Cardinality(firsts) |->
           lines[CHOOSE k \in firsts :
                   Cardinality({j \in firsts : j < k}) = n - 1]]

Oversized(lines) == Len(lines) > Threshold /\ Loadable(lines) # {}

(* newSessionIndex and load; an oversized file goes on to compact(), which *)
(* writes a temporary file and leaves the original alone.                  *)
Start(p) ==
    /\ proc[p] = "down"
    /\ starts < MaxStarts
    /\ starts' = starts + 1
    /\ mem' = [mem EXCEPT ![p] = Stored]
    /\ IF Oversized(Content(path))
       THEN /\ proc' = [proc EXCEPT ![p] = "compacting"]
            /\ snapshot' = [snapshot EXCEPT ![p] = FirstSeenOrder(Content(path))]
       ELSE /\ proc' = [proc EXCEPT ![p] = "up"]
            /\ UNCHANGED snapshot
    /\ UNCHANGED <<fileVars, pending, tears, history>>

CompactedTail(p) == Tail(snapshot[p])
Compacted(p) == snapshot[p]

(* compact: the finished temporary file is renamed over the index.         *)
Rename(p) ==
    /\ proc[p] = "compacting"
    /\ files' = Append(files, Compacted(p))
    /\ path' = Len(files')
    /\ proc' = [proc EXCEPT ![p] = "up"]
    /\ snapshot' = [snapshot EXCEPT ![p] = <<>>]
    /\ UNCHANGED <<torn, mem, pending, starts, tears, history>>

(* compact: any failure before the rename removes the temporary file.      *)
CompactFails(p) ==
    /\ proc[p] = "compacting"
    /\ proc' = [proc EXCEPT ![p] = "up"]
    /\ snapshot' = [snapshot EXCEPT ![p] = <<>>]
    /\ UNCHANGED <<fileVars, mem, pending, starts, tears, history>>

-----------------------------------------------------------------------------
UnknownOrUnwritten(p, i) == pending[p][i] = Nothing
Unknown(p, i) == i \notin mem[p]

(* record, first half: under the lock, an incident is taken once.          *)
Record(p, i) ==
    /\ proc[p] = "up"
    /\ Unknown(p, i)
    /\ mem' = [mem EXCEPT ![p] = @ \cup {i}]
    /\ pending' = [pending EXCEPT ![p][i] = InMemory]
    /\ recorded' = recorded \cup {i}
    /\ UNCHANGED <<fileVars, proc, snapshot, starts, tears, found, durable>>

(* record, second half, without the lock: open the path for append ...     *)
Open(p, i) ==
    /\ pending[p][i] = InMemory
    /\ IF path = NoFile
       THEN files' = Append(files, <<>>) /\ path' = Len(files')
       ELSE UNCHANGED <<files, path>>
    /\ pending' = [pending EXCEPT ![p][i] = path']
    /\ UNCHANGED <<torn, proc, mem, snapshot, starts, tears, history>>

(* ... which fails when the directory or the file cannot be had.           *)
OpenFails(p, i) ==
    /\ pending[p][i] = InMemory
    /\ pending' = [pending EXCEPT ![p][i] = Nothing]
    /\ UNCHANGED <<fileVars, proc, mem, snapshot, starts, tears, history>>

(* One O_APPEND write: after an unterminated line the new bytes continue   *)
(* it, and the two together do not parse.                                  *)
AppendLine(f, line) ==
    IF f \in torn
    THEN [files EXCEPT ![f] = Append(Front(@), Corrupt)]
    ELSE [files EXCEPT ![f] = Append(@, line)]

WriteLine(p, i) ==
    /\ pending[p][i] \in DOMAIN files
    /\ files' = AppendLine(pending[p][i], i)
    /\ torn' = torn \ {pending[p][i]}
    /\ pending' = [pending EXCEPT ![p][i] = Nothing]
    /\ durable' = durable \cup {i}
    /\ UNCHANGED <<path, proc, mem, snapshot, starts, tears, found, recorded>>

(* The write is cut short, by a full disk or because the process dies: a   *)
(* prefix without its newline is on disk, perhaps all but the newline.     *)
WriteTorn(p, i) ==
    /\ pending[p][i] \in DOMAIN files
    /\ tears < MaxTorn
    /\ tears' = tears + 1
    /\ \E prefix \in {i, Corrupt} : files' = AppendLine(pending[p][i], prefix)
    /\ torn' = torn \cup {pending[p][i]}
    /\ pending' = [pending EXCEPT ![p][i] = Nothing]
    /\ UNCHANGED <<path, proc, mem, snapshot, starts, history>>

(* A process ends, by a crash or by quitting, at any point.                *)
Stop(p) ==
    /\ proc[p] # "down"
    /\ proc' = [proc EXCEPT ![p] = "down"]
    /\ mem' = [mem EXCEPT ![p] = {}]
    /\ snapshot' = [snapshot EXCEPT ![p] = <<>>]
    /\ pending' = [pending EXCEPT ![p] = [i \in Incidents |-> Nothing]]
    /\ UNCHANGED <<fileVars, starts, tears, history>>

Next ==
    \E p \in Procs :
        \/ Start(p) \/ Rename(p) \/ CompactFails(p) \/ Stop(p)
        \/ \E i \in Incidents :
             Record(p, i) \/ Open(p, i) \/ OpenFails(p, i)
               \/ WriteLine(p, i) \/ WriteTorn(p, i)

Spec == Init /\ [][Next]_vars

-----------------------------------------------------------------------------
(* No torn or merged line, compaction or crash ever makes a load report an *)
(* incident that no process recorded.                                      *)
NothingInvented ==
    /\ Stored \subseteq found \cup recorded
    /\ \A p \in Procs : mem[p] \subseteq found \cup recorded

(* Two sessions of one incident (an evicted one and its successor) may     *)
(* both report system/init, and a session may be resumed in every later    *)
(* run: at most one line is ever on disk or on its way for it, because     *)
(* record skips what the process knows already.  (The comment at           *)
(* indexCompactionThreshold says that a revisited incident adds a line     *)
(* each session; a file written so by others is what `found' allows for.)  *)
LinesFor(i) ==
    Cardinality({k \in DOMAIN Content(path) : Content(path)[k] = i})
        + Cardinality({p \in Procs : pending[p][i] # Nothing})

WrittenOnce == \A i \in Incidents \ found : LinesFor(i) <= 1

(* The file format, the two-step record, torn appends and compaction       *)
(* together look like the promise SessionManager relies on: only the       *)
(* incident of an append that lost just its newline can be forgotten.      *)
Shaky == {i \in Incidents : path \in torn /\ Last(Content(path)) = i}

Promise == INSTANCE RecordedSessions
             WITH known <- mem, stored <- Stored, shaky <- Shaky
KeepsPromise == Promise!PromiseSpec

(* index_compaction_test.go: "valid entries after corrupt lines must       *)
(* survive"; a line written in full is found by every later load.          *)
CompletedSurvives == durable \subseteq Stored
=============================================================================
