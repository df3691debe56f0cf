------------------------------- MODULE Watcher -------------------------------
(***************************************************************************)
(* The library and the files of one music folder (supysonic/watcher.py,    *)
(* scanner.py and scanner_func).  Three threads of the daemon change the   *)
(* tracks: the observer puts what happened to a file in a queue, where     *)
(* events of one path are merged; the worker carries them out when they    *)
(* have been quiet for a while; and a scan reads the whole folder, which   *)
(* is not watched meanwhile.                                               *)
(*                                                                         *)
(* A file is its modification time.  Files are all of a scanned type;      *)
(* directories, covers and album.nfo, which have events of their own, are  *)
(* left out, and so are albums, artists and the repairs after a scan.      *)
(***************************************************************************)
EXTENDS Naturals, Sequences, FiniteSets, SequencesExt

CONSTANTS
    Paths,           \* files of the folder
    MaxChanges,      \* bound: changes of the disk
    MaxScans         \* bound: scans

ASSUME WatcherAssumption ==
    MaxChanges \in Nat /\ MaxScans \in Nat /\ "none" \notin Paths

VARIABLES
    disk,        \* modification time of each file, 0 when there is none
    changes,     \* how often the disk has been changed
    tracks,      \* Track: its id and last_modification
    made,        \* ids that have been given to tracks
    watched,     \* __folders has the folder, and its emitter runs
    notes,       \* events that the observer still has to dispatch
    queue,       \* ScannerProcessingQueue.__queue, in the order of its times
    open,        \* ScannerProcessingQueue.__running
    worker,      \* the thread of the queue
    scan,        \* the thread of Daemon.start_scan
    scans,       \* scans that have been started
    stopped,     \* Scanner.stop has been called
    astray       \* history: files that the code is known to lose sight of

diskVars == <<disk, changes>>
trackVars == <<tracks, made>>
watchVars == <<watched, notes, queue, open>>
watcherVars == <<diskVars, trackVars, watchVars, worker, scan, scans, stopped, astray>>

-----------------------------------------------------------------------------
NoTrack == [id |-> 0, time |-> 0]
NoEvent == [path |-> "none", ops |-> {}, src |-> "none"]
NoRead == [path |-> "none", id |-> 0, time |-> 0]

InitWatcher ==
    /\ disk = [p \in Paths |-> 0] /\ changes = 0
    /\ tracks = [p \in Paths |-> NoTrack] /\ made = 0
    /\ watched = TRUE /\ notes = <<>> /\ queue = <<>> /\ open = TRUE
    /\ worker = [phase |-> "waiting", item |-> NoEvent, todo |-> <<>>, read |-> NoRead]
    /\ scan = [phase |-> "off", left |-> {}, read |-> NoRead]
    /\ scans = 0 /\ stopped = FALSE
    /\ astray = {}

-----------------------------------------------------------------------------
(***************************************************************************)
(* The disk, and what the observer notes of it.                            *)
(***************************************************************************)
Noted(path, ops, src) ==
    IF watched
    THEN /\ notes' = Append(notes, [path |-> path, ops |-> ops, src |-> src])
         /\ astray' = IF src \in astray THEN astray \cup {path} ELSE astray
    ELSE astray' = astray \cup ({path, src} \ {"none"}) /\ UNCHANGED notes

Disk == /\ changes < MaxChanges /\ open /\ changes' = changes + 1
        /\ UNCHANGED <<trackVars, watched, queue, open, worker, scan, scans, stopped>>

Write(p) ==
    /\ Disk /\ disk' = [disk EXCEPT ![p] = changes + 1]
    /\ Noted(p, IF disk[p] = 0 THEN {"scan", "create"} ELSE {"scan"}, "none")

Unlink(p) ==
    /\ Disk /\ disk[p] > 0 /\ disk' = [disk EXCEPT ![p] = 0]
    /\ Noted(p, {"remove"}, "none")

Rename(p, q) ==
    /\ Disk /\ disk[p] > 0 /\ p # q
    /\ disk' = [disk EXCEPT ![p] = 0, ![q] = disk[p]]
    /\ Noted(q, {"move"}, p)

-----------------------------------------------------------------------------
(***************************************************************************)
(* ScannerProcessingQueue.put                                              *)
(***************************************************************************)
IsPending(path) == \E e \in ToSet(queue) : e.path = path
Pending(path) == CHOOSE e \in ToSet(queue) : e.path = path

\* The events but the one of the path, if there is one.
Without(events, path) ==
    IF \E e \in ToSet(events) : e.path = path
    THEN RemoveAt(events, CHOOSE i \in DOMAIN events : events[i].path = path)
    ELSE events

Merged_Both(old, new) == old \cup new

\* Event.set
Merged(old, new) ==
    {op \in old : /\ op = "remove" => "scan" \notin new
                  /\ op = "scan" => "remove" \notin new
                  /\ op = "move" => "create" \notin new} \cup new

With(e, ops, src) ==
    [e EXCEPT !.ops = Merged(@, ops), !.src = IF src = "none" THEN @ ELSE src]

\* The event of the path, and for a move that of its source, become one.
Put(e) ==
    LET own == IF IsPending(e.path) THEN With(Pending(e.path), e.ops, e.src) ELSE e
        gone == IF "move" \in e.ops THEN {e.src} ELSE {}
    IN  IF \E s \in gone : IsPending(s)
        THEN With(own, Pending(e.src).ops, Pending(e.src).src) ELSE own

\* Who the worker is at work on.
AtWork == IF worker.todo = <<>> THEN {} ELSE {worker.item.path, worker.item.src} \ {"none"}

\* History: an event keeps one source, or none when its path is created, and
\* it removes last: the track of another source stays, or that of the path goes.
Mislaid(e, new) ==
    LET merged == {e} \cup {f \in ToSet(queue) : f.path \in {e.path, e.src}}
        sources == {f.src : f \in {g \in merged : "move" \in g.ops}}
        kept == IF "move" \in new.ops THEN {new.src} ELSE {}
    IN  {p \in sources \ kept : tracks[p].id > 0 \/ p \in AtWork} \cup
        (IF "move" \in e.ops /\ "remove" \in new.ops THEN {e.path} ELSE {})

Deliver ==
    /\ notes # <<>> /\ notes' = Tail(notes)
    /\ LET e == Head(notes)
           new == Put(e)
           others == Without(queue, e.path)
       IN  /\ queue' = Append(IF "move" \in e.ops THEN Without(others, e.src) ELSE others, new)
           /\ astray' = astray \cup Mislaid(e, new)
    /\ UNCHANGED <<diskVars, trackVars, watched, open, worker, scan, scans, stopped>>

-----------------------------------------------------------------------------
(***************************************************************************)
(* Scanner: the operations on one file.                                    *)
(***************************************************************************)
\* getScanTargetInfo and loadTrackForScan; what it reads of the file comes later.
ReadFile(p) == [path |-> p, id |-> tracks[p].id, time |-> disk[p]]
WorthReading(p) == disk[p] > 0 /\ (tracks[p].id = 0 \/ disk[p] > tracks[p].time)

HasId(id) == \E p \in Paths : tracks[p].id = id

\* The path is unique: the database refuses a second row.
Storable(r) == tracks[r.path].id \in {0, r.id}

\* createOrUpdateTrack: a row that was read is saved whole, path included.
Stored(r) ==
    IF r.id = 0 THEN [tracks EXCEPT ![r.path] = [id |-> made + 1, time |-> r.time]]
    ELSE IF ~HasId(r.id) THEN tracks
    ELSE [p \in Paths |-> IF p = r.path THEN [id |-> r.id, time |-> r.time]
                          ELSE IF tracks[p].id = r.id THEN NoTrack ELSE tracks[p]]

RemoveFile(p) == tracks' = [tracks EXCEPT ![p] = NoTrack]

MoveFile(p, q) ==
    tracks' = IF tracks[p].id = 0 \/ p = q THEN tracks
              ELSE [tracks EXCEPT ![q] = tracks[p], ![p] = NoTrack]

-----------------------------------------------------------------------------
(***************************************************************************)
(* The worker: batches of events.                                          *)
(***************************************************************************)
Tasks(ops) ==
    (IF "move" \in ops THEN <<"move">> ELSE <<>>) \o
    (IF "scan" \in ops THEN <<"read", "store">> ELSE <<>>) \o
    (IF "remove" \in ops THEN <<"remove">> ELSE <<>>)

\* The oldest event has been left alone long enough, or the queue is being closed.
NextItem ==
    /\ worker.phase \in {"waiting", "batch"} /\ worker.todo = <<>> /\ queue # <<>>
    /\ worker' = [phase |-> "batch", item |-> Head(queue), todo |-> Tasks(Head(queue).ops),
                  read |-> NoRead]
    /\ queue' = Tail(queue)
    /\ UNCHANGED <<diskVars, trackVars, watched, notes, open, scan, scans, stopped, astray>>

Task(t) == worker.todo # <<>> /\ Head(worker.todo) = t

Done == [worker EXCEPT !.todo = Tail(@), !.read = NoRead]
GivesUp == [worker EXCEPT !.todo = <<>>, !.read = NoRead]

\* History: a file that is moved is not read, even if its source had no track
\* or an old one; and the track of a new file of the old name goes with it.
LostBy(item) ==
    (IF "scan" \notin item.ops /\ (\/ tracks[item.src].id = 0
                                   \/ tracks[item.src].time < disk[item.path])
     THEN {item.path} ELSE {}) \cup
    (IF disk[item.src] > 0 THEN {item.src} ELSE {})

WorkerMoves ==
    /\ Task("move") /\ worker' = Done
    /\ MoveFile(worker.item.src, worker.item.path)
    /\ astray' = astray \cup LostBy(worker.item)
    /\ UNCHANGED <<diskVars, made, watchVars, scan, scans, stopped>>

WorkerReads ==
    /\ Task("read")
    /\ LET p == worker.item.path
       IN  worker' = IF WorthReading(p) THEN [Done EXCEPT !.read = ReadFile(p)]
                     ELSE [worker EXCEPT !.todo = Tail(Tail(@))]
    /\ UNCHANGED <<diskVars, trackVars, watchVars, scan, scans, stopped, astray>>

\* An item that fails is logged; the next one follows.
WorkerStores ==
    /\ Task("store")
    /\ LET r == worker.read
       IN  \/ /\ Storable(r) /\ tracks' = Stored(r) /\ worker' = Done
              /\ made' = IF r.id = 0 THEN made + 1 ELSE made
           \/ /\ ~Storable(r) /\ worker' = GivesUp /\ UNCHANGED trackVars
           \/ /\ disk[r.path] = 0 /\ worker' = Done /\ UNCHANGED made
              /\ IF r.id = 0 THEN UNCHANGED tracks ELSE RemoveFile(r.path)
    /\ UNCHANGED <<diskVars, watchVars, scan, scans, stopped, astray>>

WorkerRemoves ==
    /\ Task("remove") /\ worker' = Done
    /\ RemoveFile(worker.item.path)
    /\ UNCHANGED <<diskVars, made, watchVars, scan, scans, stopped, astray>>

\* The queue is empty: the lost information is looked for, the library pruned.
EndBatch ==
    /\ worker.phase = "batch" /\ worker.todo = <<>> /\ queue = <<>>
    /\ worker' = [worker EXCEPT !.phase = "pruning", !.item = NoEvent]
    /\ UNCHANGED <<diskVars, trackVars, watchVars, scan, scans, stopped, astray>>

\* The next batch is only waited for while the queue is open.
NextBatch ==
    /\ \/ worker.phase = "pruning"
       \/ worker.phase = "waiting" /\ ~open /\ queue = <<>>
    /\ worker' = [worker EXCEPT !.phase = IF open THEN "waiting" ELSE "ended"]
    /\ UNCHANGED <<diskVars, trackVars, watchVars, scan, scans, stopped, astray>>

-----------------------------------------------------------------------------
(***************************************************************************)
(* A scan of the folder.                                                   *)
(***************************************************************************)
\* start_scan: the folder that a living scanner got last is not queued again.
StartScan ==
    /\ scan.phase = "off" /\ scans < MaxScans /\ ~stopped
    /\ scans' = scans + 1
    /\ scan' = [scan EXCEPT !.phase = "queued"]
    /\ UNCHANGED <<diskVars, trackVars, watchVars, worker, stopped, astray>>

\* handle_folder_start: the watch is given up, and what is queued is forgotten.
\* Without a watch the thread dies of a KeyError.
ScanFolder ==
    /\ scan.phase = "queued"
    /\ IF stopped \/ ~watched
       THEN scan' = [scan EXCEPT !.phase = "off"] /\ UNCHANGED <<watchVars, astray>>
       ELSE /\ scan' = [scan EXCEPT !.phase = "reading", !.left = {p \in Paths : disk[p] > 0}]
            /\ watched' = FALSE /\ notes' = <<>> /\ queue' = <<>>
            /\ astray' = AtWork
            /\ UNCHANGED open
    /\ UNCHANGED <<diskVars, trackVars, worker, scans, stopped>>

ScanReads(p) ==
    /\ scan.phase = "reading" /\ scan.read = NoRead /\ p \in scan.left
    /\ scan' = [scan EXCEPT !.left = @ \ {p},
                            !.read = IF WorthReading(p) THEN ReadFile(p) ELSE NoRead]
    /\ UNCHANGED <<diskVars, trackVars, watchVars, worker, scans, stopped, astray>>

\* A row that another thread has created meanwhile ends the scan, and the
\* folder is not watched again.
ScanStores ==
    /\ scan.read # NoRead
    /\ LET r == scan.read
       IN  \/ /\ Storable(r) /\ tracks' = Stored(r)
              /\ made' = IF r.id = 0 THEN made + 1 ELSE made
              /\ scan' = [scan EXCEPT !.read = NoRead]
           \/ /\ ~Storable(r) /\ UNCHANGED trackVars
              /\ scan' = [phase |-> "off", left |-> {}, read |-> NoRead]
           \/ /\ disk[r.path] = 0 /\ UNCHANGED made
              /\ IF r.id = 0 THEN UNCHANGED tracks ELSE RemoveFile(r.path)
              /\ scan' = [scan EXCEPT !.read = NoRead]
    /\ UNCHANGED <<diskVars, watchVars, worker, scans, stopped, astray>>

\* Tracks without a file are removed.
ScanRemoves ==
    /\ scan.phase = "reading" /\ scan.left = {} /\ scan.read = NoRead /\ ~stopped
    /\ tracks' = [p \in Paths |-> IF disk[p] = 0 THEN NoTrack ELSE tracks[p]]
    /\ scan' = [scan EXCEPT !.phase = "removed"]
    /\ UNCHANGED <<diskVars, made, watchVars, worker, scans, stopped, astray>>

\* handle_folder_end, also when the scan was stopped before it was done.
ScanWatches ==
    /\ \/ scan.phase = "removed"
       \/ scan.phase = "reading" /\ scan.read = NoRead /\ stopped
    /\ scan' = [scan EXCEPT !.phase = "repairing", !.left = {}]
    /\ watched' = TRUE
    /\ astray' = IF scan.phase = "reading" THEN Paths ELSE astray
    /\ UNCHANGED <<diskVars, trackVars, notes, queue, open, worker, scans, stopped>>

EndScan ==
    /\ scan.phase = "repairing" /\ scan' = [scan EXCEPT !.phase = "off"]
    /\ UNCHANGED <<diskVars, trackVars, watchVars, worker, scans, stopped, astray>>

-----------------------------------------------------------------------------
NextWatcher ==
    \/ \E p \in Paths : Write(p) \/ Unlink(p) \/ ScanReads(p)
    \/ \E p, q \in Paths : Rename(p, q)
    \/ Deliver \/ NextItem \/ EndBatch \/ NextBatch
    \/ WorkerMoves \/ WorkerReads \/ WorkerStores \/ WorkerRemoves
    \/ ScanFolder \/ ScanStores \/ ScanRemoves \/ ScanWatches \/ EndScan

\* Nobody is at work on the library, and the folder is watched.
AtRest ==
    /\ watched /\ notes = <<>>
    /\ worker.todo = <<>> /\ scan.phase \in {"off", "repairing"}

\* Then the tracks are the files, but for those still queued when the queue
\* was closed, and none is older than its file.
LibraryFollowsDisk ==
    AtRest /\ (open => queue = <<>>) =>
        \A p \in Paths \ (astray \cup UNION {{e.path, e.src} : e \in ToSet(queue)}) :
            /\ disk[p] > 0 <=> tracks[p].id > 0
            /\ tracks[p].time >= disk[p]
=============================================================================
