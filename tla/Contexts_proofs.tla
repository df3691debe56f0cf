--------------------------- MODULE Contexts_proofs ---------------------------
(***************************************************************************)
(* What playback contexts promise, whatever the numbers of contexts,       *)
(* sessions, queues, handlers and versions.  Of the rows: one active       *)
(* context per device, no command without its queue, cursors that name one *)
(* content each; a handler changes a row in one step, so that the first    *)
(* invariant, IInv, is about rows and commands alone.  Of what handlers do *)
(* afterwards, between the tasks of others: the second, HInv, tells what   *)
(* each has yet to do for the prepares, the copies and the subscriptions.  *)
(***************************************************************************)
EXTENDS Contexts, FiniteSetTheorems, SequenceTheorems, TLAPS

(* A row with the epochs of its pending commands: what it counts is in its *)
(* version, a command belongs to an epoch that has been, and to an active  *)
(* context, and one of the current epoch to a queue.                       *)
Sound(r, epochs) ==
    /\ r \in Row /\ epochs \in SUBSET (1 .. MaxVersion)
    /\ r.epoch <= r.version /\ r.queueRevision <= r.version
    /\ r.controlVersion <= r.version
    /\ r.life = "active" => 1 <= r.epoch
    /\ \A e \in epochs : /\ r.life = "active"
                         /\ e <= r.epoch
                         /\ e = r.epoch => r.queue # <<>>

Connection == [session : Sessions \cup {0}, nonce : Nat]

AtMostOneActive == \A c, d \in Active : c = d

IInv ==
    /\ row = [c \in Ids |-> row[c]] /\ commands = [c \in Ids |-> commands[c]]
    /\ \A c \in Ids : Sound(row[c], commands[c])
    /\ connection \in Connection
    /\ DOMAIN prepares = Keys
    /\ AtMostOneActive

(* What a step may do to rows and to settled prepares.                     *)
Kept ==
    /\ \A c \in Ids : row[c].life # "absent" => Named(row[c], row'[c])
    /\ \A k \in Keys : prepares[k].status \in {"ready", "failed"} => prepares'[k] = prepares[k]

Steps == IInv' /\ Kept

-----------------------------------------------------------------------------
(* The numbers that bound the cursors.                                     *)
LEMMA Numbers == MaxVersion \in Nat /\ 1 <= MaxVersion /\ 0 \notin Sessions
BY ContextsAssumption

(* One active context at most, as a number.                                *)
LEMMA OneIsSmall == AtMostOneActive => Cardinality(Active) <= 1
<1> SUFFICES ASSUME AtMostOneActive PROVE Cardinality(Active) <= 1
  OBVIOUS
<1>1. CASE Active = {}
  BY <1>1, FS_EmptySet
<1>2. CASE Active # {}
  <2>1. PICK c : c \in Active
    BY <1>2
  <2>2. Active = {c}
    BY <2>1 DEF AtMostOneActive
  <2>3. Cardinality({c}) = 1
    BY FS_Singleton
  <2> QED BY <2>2, <2>3
<1> QED BY <1>1, <1>2

LEMMA StoreHolds == IInv => StoreConsistent
BY OneIsSmall DEF IInv, Sound, StoreConsistent

(* A row that stays as it is keeps all its names.                          *)
LEMMA NamedItself == ASSUME NEW r \in Row PROVE Named(r, r)
BY Numbers DEF Named, Row, Cursors

(* Steps that leave rows and commands alone, and no settled prepare undone.*)
LEMMA RowsKept ==
    ASSUME IInv, row' = row, commands' = commands,
           connection' \in Connection, DOMAIN prepares' = Keys,
           \A k \in Keys : prepares[k].status \in {"ready", "failed"} => prepares'[k] = prepares[k]
    PROVE  Steps
<1>1. \A c \in Ids : Named(row[c], row'[c])
  BY NamedItself DEF IInv, Sound
<1>2. AtMostOneActive'
  BY DEF IInv, AtMostOneActive, Active
<1> QED BY <1>1, <1>2 DEF Steps, Kept, IInv

(* A handler that only settles prepares, or does something else altogether.*)
LEMMA NothingKept ==
    ASSUME IInv, UNCHANGED <<row, commands, connection>>, UNCHANGED prepares
    PROVE  Steps
BY RowsKept DEF IInv

LEMMA SettledKeeps ==
    ASSUME IInv, UNCHANGED <<row, commands, connection>>,
           NEW keys, NEW status, prepares' = Settled(keys, status)
    PROVE  Steps
<1>1. DOMAIN prepares' = Keys
  BY DEF Settled
<1>2. \A k \in Keys : prepares[k].status \in {"ready", "failed"} => prepares'[k] = prepares[k]
  BY DEF Settled, Preparing
<1> QED BY <1>1, <1>2, RowsKept DEF IInv

(* A step that changes one row.                                            *)
LEMMA RowChanges ==
    ASSUME IInv, NEW c \in Ids, NEW new, NEW epochs, Sound(new, epochs),
           row' = [row EXCEPT ![c] = new], commands' = [commands EXCEPT ![c] = epochs],
           UNCHANGED <<connection, prepares>>,
           new.life = "active" => c \in Active \/ Active = {},
           row[c].life # "absent" => Named(row[c], new)
    PROVE  Steps
<1>1. /\ row' = [d \in Ids |-> row'[d]] /\ commands' = [d \in Ids |-> commands'[d]]
      /\ row'[c] = new /\ commands'[c] = epochs
      /\ \A d \in Ids \ {c} : row'[d] = row[d] /\ commands'[d] = commands[d]
  BY DEF IInv
<1>2. \A d \in Ids : Sound(row[d], commands[d])' /\ Sound(row'[d], commands'[d])
  <2>1. \A d \in Ids : Sound(row'[d], commands'[d])
    BY <1>1 DEF IInv
  <2> QED BY <2>1 DEF Sound
<1>3. AtMostOneActive'
  BY <1>1 DEF IInv, AtMostOneActive, Active
<1>4. \A d \in Ids : row[d].life # "absent" => Named(row[d], row'[d])
  BY <1>1, NamedItself DEF IInv, Sound
<1> QED BY <1>1, <1>2, <1>3, <1>4 DEF Steps, Kept, IInv

-----------------------------------------------------------------------------
(* A change has room for its version.                                      *)
LEMMA Room == ASSUME NEW c \in Ids, Bounded(c) PROVE row[c].version < MaxVersion
BY Zenon DEF Bounded

(* Queues with a place in them.                                            *)
LEMMA PlaceIs ==
    ASSUME NEW p \in Places
    PROVE  p[1] \in Queues /\ p[2] \in Nat
BY Numbers DEF Places

(* playback.context.ensure makes a context only if there is no active one. *)
LEMMA NewKeeps ==
    ASSUME IInv, NEW p \in Places, EnsureNew(p[1], p[2])
    PROVE  Steps
<1> DEFINE new == [life |-> "active", session |-> connection.session,
                   queue |-> p[1], index |-> p[2], epoch |-> 1,
                   version |-> 1, queueRevision |-> 1, controlVersion |-> 1]
<1>1. PICK c \in Ids : row[c].life = "absent" /\ row' = [row EXCEPT ![c] = new]
  BY DEF EnsureNew, Commit
<1>2. Active = {}
  BY DEF EnsureNew, Candidates
<1>3. commands[c] = {}
  BY <1>1 DEF IInv, Sound
<1>4. Sound(new, {})
  BY PlaceIs, Numbers DEF Sound, Row, Cursors, IInv, Connection
<1>5. commands' = [commands EXCEPT ![c] = {}] /\ UNCHANGED <<connection, prepares>>
  BY <1>3 DEF EnsureNew, IInv
<1> QED BY <1>1, <1>2, <1>4, <1>5, RowChanges

(* ensure of an existing context: a new epoch when it changes hands, a new *)
(* queueRevision when its queue is filled.                                 *)
LEMMA ExistingKeeps ==
    ASSUME IInv, NEW p \in Places, EnsureExisting(p[1], p[2])
    PROVE  Steps
<1>1. PICK c \in Candidates :
        LET rebind == row[c].session # connection.session
            initialize == p[1] # <<>> /\ row[c].queue = <<>>
        IN  /\ rebind \/ initialize => Bounded(c)
            /\ Commit(c, EnsuredRow(row[c], p[1], p[2], rebind, initialize), EnsureTodo(rebind))
  BY DEF EnsureExisting
<1> DEFINE rebind == row[c].session # connection.session
           initialize == p[1] # <<>> /\ row[c].queue = <<>>
           new == EnsuredRow(row[c], p[1], p[2], rebind, initialize)
<1>2. c \in Ids /\ c \in Active /\ row[c].life = "active"
  BY DEF Candidates, Active
<1>3. row' = [row EXCEPT ![c] = new] /\ UNCHANGED <<connection, commands, prepares>>
  BY <1>1 DEF Commit, EnsureExisting
<1>4. commands' = [commands EXCEPT ![c] = commands[c]]
  BY <1>3 DEF IInv
<1>5. rebind \/ initialize => row[c].version < MaxVersion
  BY <1>1, <1>2, Room
<1>6. Sound(row[c], commands[c]) /\ connection.session \in Sessions \cup {0}
  BY <1>2 DEF IInv, Connection
<1>7. /\ rebind \/ initialize =>
           new = [row[c] EXCEPT !.queue = IF initialize THEN p[1] ELSE @,
                                !.index = IF initialize THEN p[2] ELSE @,
                                !.queueRevision = IF initialize THEN @ + 1 ELSE @,
                                !.session = connection.session,
                                !.epoch = IF rebind THEN @ + 1 ELSE @,
                                !.version = @ + 1, !.controlVersion = @ + 1]
      /\ ~rebind /\ ~initialize => new = row[c]
  BY <1>6 DEF EnsuredRow, Sound, Row
<1> HIDE DEF new
<1>8. Sound(new, commands[c]) /\ Named(row[c], new) /\ new.life = "active"
  <2>1. CASE rebind \/ initialize
    <3>1. /\ row[c].epoch \in 0 .. MaxVersion /\ row[c].version \in 0 .. MaxVersion
          /\ row[c].queueRevision \in 0 .. MaxVersion /\ row[c].controlVersion \in 0 .. MaxVersion
      BY <1>6 DEF Sound, Row, Cursors
    <3>3. /\ new.version = row[c].version + 1 /\ new.controlVersion = row[c].controlVersion + 1
          /\ new.epoch = (IF rebind THEN row[c].epoch + 1 ELSE row[c].epoch)
          /\ new.queueRevision = (IF initialize THEN row[c].queueRevision + 1 ELSE row[c].queueRevision)
          /\ new.life = row[c].life /\ new.session = connection.session
          /\ new.queue = (IF initialize THEN p[1] ELSE row[c].queue)
          /\ new.index = (IF initialize THEN p[2] ELSE row[c].index)
      BY <1>6, <1>7, <2>1 DEF Sound, Row
    <3>2. new \in Row
      <4> DEFINE q == IF initialize THEN p[1] ELSE row[c].queue
                 i == IF initialize THEN p[2] ELSE row[c].index
                 r == IF initialize THEN row[c].queueRevision + 1 ELSE row[c].queueRevision
                 e == IF rebind THEN row[c].epoch + 1 ELSE row[c].epoch
      <4>1. q \in Queues /\ i \in Nat
        BY <1>6, PlaceIs DEF Sound, Row
      <4>2. /\ r \in 0 .. MaxVersion /\ e \in 0 .. MaxVersion
            /\ row[c].version + 1 \in 0 .. MaxVersion /\ row[c].controlVersion + 1 \in 0 .. MaxVersion
        <5>1. row[c].version < MaxVersion
          BY <1>5, <2>1
        <5>2. /\ row[c].epoch <= row[c].version /\ row[c].queueRevision <= row[c].version
              /\ row[c].controlVersion <= row[c].version
          BY <1>6 DEF Sound
        <5> HIDE DEF rebind, initialize
        <5> QED BY <5>1, <5>2, <3>1, Numbers
      <4>3. new = [row[c] EXCEPT !.queue = q, !.index = i, !.queueRevision = r,
                                 !.session = connection.session, !.epoch = e,
                                 !.version = @ + 1, !.controlVersion = @ + 1]
        BY <1>6, <1>7, <2>1 DEF Sound, Row
      <4> HIDE DEF q, i, r, e
      <4> QED BY <1>6, <4>1, <4>2, <4>3 DEF Sound, Row, Cursors
    <3>4. Sound(new, commands[c])
      <4>1. \A e \in commands[c] : e \in 1 .. MaxVersion /\ e <= row[c].epoch
        BY <1>6 DEF Sound
      <4> QED BY <1>2, <1>6, <3>1, <3>2, <3>3, <4>1 DEF Sound
    <3>5. Named(row[c], new)
      <4>1. new.version > row[c].version /\ new.controlVersion > row[c].controlVersion
        BY <3>1, <3>3
      <4>2. row[c].epoch <= new.epoch /\ row[c].queueRevision <= new.queueRevision
        BY <3>1, <3>3
      <4>3. row[c].epoch = new.epoch => row[c].session = new.session
        BY <3>1, <3>3
      <4>4. row[c].queueRevision = new.queueRevision =>
               row[c].queue = new.queue /\ row[c].index = new.index
        BY <3>1, <3>3
      <4>5. row[c].controlVersion # new.controlVersion
        BY <4>1, <3>1
      <4> HIDE DEF rebind, initialize
      <4> QED BY <1>2, <3>1, <3>3, <4>1, <4>2, <4>3, <4>4, <4>5 DEF Named
    <3> QED BY <1>2, <3>3, <3>4, <3>5
  <2>2. CASE ~rebind /\ ~initialize
    BY <1>2, <1>6, <1>7, <2>2, NamedItself DEF Sound
  <2> QED BY <2>1, <2>2
<1> QED BY <1>2, <1>3, <1>4, <1>8, RowChanges

-----------------------------------------------------------------------------
(* The other changes add to what is there: what an active row becomes.     *)
LEMMA ChangeKeeps ==
    ASSUME IInv, NEW c \in Ids, row[c].life = "active", NEW new, NEW todo, NEW epochs,
           Commit(c, new, todo), commands' = [commands EXCEPT ![c] = epochs],
           UNCHANGED <<connection, prepares>>,
           Sound(new, epochs), Named(row[c], new)
    PROVE  Steps
<1>1. c \in Active
  BY DEF Active
<1> QED BY <1>1, RowChanges DEF Commit

(* The cursors of a row as numbers.                                        *)
LEMMA Counts ==
    ASSUME NEW r, NEW epochs, Sound(r, epochs)
    PROVE  /\ r \in Row
           /\ r.epoch \in 0 .. MaxVersion /\ r.version \in 0 .. MaxVersion
           /\ r.queueRevision \in 0 .. MaxVersion /\ r.controlVersion \in 0 .. MaxVersion
           /\ r.epoch <= r.version /\ r.queueRevision <= r.version
           /\ r.controlVersion <= r.version
           /\ r.life = "active" => 1 <= r.epoch
BY DEF Sound, Row, Cursors

(* A close: the tombstone keeps everything but its life.                   *)
LEMMA CloseKeeps ==
    ASSUME IInv, NEW c \in Ids, Close(c)
    PROVE  Steps
<1> DEFINE new == [row[c] EXCEPT !.life = "closed", !.version = @ + 1]
<1>1. /\ row[c].life = "active" /\ commands[c] = {} /\ row[c].version < MaxVersion
      /\ Sound(row[c], {})
  <2>1. Sound(row[c], commands[c])
    BY DEF IInv
  <2>2. Bounded(c) /\ row[c].life = "active" /\ commands[c] = {}
    BY DEF Close, CloseAllowed
  <2> QED BY <2>1, <2>2, Room
<1>2. row[c] \in Row /\ row[c].version + 1 \in Cursors
  BY <1>1, Counts, Numbers DEF Cursors
<1>3. new \in Row
  BY <1>2 DEF Row
<1>5. /\ new.life = "closed" /\ new.version = row[c].version + 1
      /\ new.epoch = row[c].epoch /\ new.queueRevision = row[c].queueRevision
      /\ new.controlVersion = row[c].controlVersion /\ new.queue = row[c].queue
      /\ new.index = row[c].index /\ new.session = row[c].session
  BY <1>2 DEF Row
<1> HIDE DEF new
<1>6. Sound(new, {})
  <2>1. /\ new.epoch <= new.version /\ new.queueRevision <= new.version
        /\ new.controlVersion <= new.version
    BY <1>1, <1>5, Counts
  <2> QED BY <1>3, <1>5, <2>1 DEF Sound
<1>7. Named(row[c], new)
  <2>1. row[c].version < new.version
    BY <1>1, <1>5, Counts
  <2> QED BY <1>1, <1>5, <2>1, Counts DEF Named
<1>4. commands' = [commands EXCEPT ![c] = {}] /\ Commit(c, new, CloseTodo)
      /\ UNCHANGED <<connection, prepares>>
  BY <1>1 DEF Close, IInv, new
<1> QED BY <1>1, <1>4, <1>6, <1>7, ChangeKeeps

(* queue.context.sync: a pending command keeps its track.                  *)
LEMMA SyncKeeps ==
    ASSUME IInv, NEW c \in Ids, NEW p \in Places, QueueSync(c, p[1], p[2])
    PROVE  Steps
<1> DEFINE changed == ControlChanged(row[c], p[1], p[2])
           new == SyncedRow(row[c], p[1], p[2])
<1>1. /\ row[c].life = "active" /\ row[c].version < MaxVersion
      /\ Sound(row[c], commands[c])
      /\ changed => row[c].epoch \notin commands[c]
  BY Room DEF QueueSync, FromAuthority, SyncAllowed, IInv
<1>2. /\ row[c].queueRevision + 1 \in Cursors /\ row[c].version + 1 \in Cursors
      /\ (IF changed THEN row[c].controlVersion + 1 ELSE row[c].controlVersion) \in Cursors
  BY <1>1, Counts, Numbers DEF Cursors
<1>3. new = [row[c] EXCEPT !.queue = p[1], !.index = p[2], !.version = row[c].version + 1,
                           !.queueRevision = row[c].queueRevision + 1,
                           !.controlVersion = IF changed THEN row[c].controlVersion + 1
                                              ELSE row[c].controlVersion]
  BY <1>1, Counts DEF SyncedRow, Row
<1>4. ~changed => /\ TrackOf(row[c].queue, row[c].index) = TrackOf(p[1], p[2])
                  /\ p[1] = <<>> => row[c].queue = <<>>
  BY DEF ControlChanged
<1>5. commands' = [commands EXCEPT ![c] = commands[c]] /\ Commit(c, new, SyncTodo(p[1]))
      /\ UNCHANGED <<connection, prepares>>
  BY DEF QueueSync, IInv
<1> HIDE DEF changed, new
<1>6. new \in Row
  <2>1. row[c] \in Row
    BY <1>1, Counts
  <2>2. p[1] \in Queues /\ p[2] \in Nat
    BY PlaceIs
  <2> QED BY <1>2, <1>3, <2>1, <2>2 DEF Row
<1>7. /\ new.version = row[c].version + 1 /\ new.queueRevision = row[c].queueRevision + 1
      /\ new.controlVersion = (IF changed THEN row[c].controlVersion + 1 ELSE row[c].controlVersion)
      /\ new.queue = p[1] /\ new.index = p[2]
      /\ new.epoch = row[c].epoch /\ new.session = row[c].session /\ new.life = row[c].life
  BY <1>1, <1>3, Counts DEF Row
<1>8. \A e \in commands[c] : e = new.epoch => new.queue # <<>>
  BY <1>1, <1>4, <1>7 DEF Sound
<1>9. Sound(new, commands[c])
  <2>1. /\ new.epoch <= new.version /\ new.queueRevision <= new.version
        /\ new.controlVersion <= new.version
    BY <1>1, <1>7, Counts
  <2> QED BY <1>1, <1>6, <1>7, <1>8, <2>1 DEF Sound
<1>10. Named(row[c], new)
  <2>1. /\ row[c].version < new.version /\ row[c].queueRevision <= new.queueRevision
        /\ row[c].epoch <= new.epoch /\ row[c].controlVersion <= new.controlVersion
        /\ changed => row[c].controlVersion # new.controlVersion
    BY <1>1, <1>7, Counts
  <2>2. row[c].queueRevision # new.queueRevision
    BY <1>1, <1>7, Counts
  <2>3. row[c].controlVersion = new.controlVersion =>
            TrackOf(row[c].queue, row[c].index) = TrackOf(new.queue, new.index)
    BY <1>4, <1>7, <2>1
  <2>4. row[c].life # "closed" /\ new.session = row[c].session
    BY <1>1, <1>7
  <2> QED BY <2>1, <2>2, <2>3, <2>4 DEF Named
<1> QED BY <1>1, <1>5, <1>9, <1>10, ChangeKeeps

(* A move within the queue: a command, or the device's own.                *)
LEMMA MovedIs ==
    ASSUME NEW r, NEW epochs, Sound(r, epochs), r.life = "active",
           r.version < MaxVersion, NEW i \in DOMAIN r.queue \cup {r.index}
    PROVE  /\ MovedRow(r, i) \in Row
           /\ MovedRow(r, i).queue = r.queue /\ MovedRow(r, i).epoch = r.epoch
           /\ MovedRow(r, i).life = "active"
           /\ \A new : new = MovedRow(r, i) =>
                 /\ new.epoch <= new.version /\ new.queueRevision <= new.version
                 /\ new.controlVersion <= new.version
           /\ Named(r, MovedRow(r, i))
<1> DEFINE new == MovedRow(r, i)
           revision == IF i = r.index THEN r.queueRevision ELSE r.queueRevision + 1
<1>1. /\ r \in Row /\ i \in Nat
      /\ r.version + 1 \in Cursors /\ r.controlVersion + 1 \in Cursors /\ revision \in Cursors
  <2>1. r \in Row
    BY Counts
  <2>2. DOMAIN r.queue \subseteq Nat /\ r.index \in Nat
    BY <2>1, ContextsAssumption DEF Row
  <2> QED BY <2>1, <2>2, Counts, Numbers, <2>2 DEF Cursors
<1>2. new = [r EXCEPT !.index = i, !.version = r.version + 1,
                      !.controlVersion = r.controlVersion + 1, !.queueRevision = revision]
  BY <1>1 DEF MovedRow, Row
<1> HIDE DEF new, revision
<1>3. new \in Row
  BY <1>1, <1>2 DEF Row
<1>4. /\ new.queue = r.queue /\ new.epoch = r.epoch /\ new.session = r.session
      /\ new.life = r.life /\ new.index = i /\ new.queueRevision = revision
      /\ new.version = r.version + 1 /\ new.controlVersion = r.controlVersion + 1
  BY <1>1, <1>2 DEF Row
<1>5. /\ new.epoch <= new.version /\ new.queueRevision <= new.version
      /\ new.controlVersion <= new.version
  BY <1>4, Counts DEF revision
<1>6. Named(r, new)
  <2>1. /\ r.version < new.version /\ r.controlVersion <= new.controlVersion
        /\ r.controlVersion # new.controlVersion
        /\ r.queueRevision <= new.queueRevision /\ r.epoch <= new.epoch
    BY <1>4, Counts DEF revision
  <2>2. r.queueRevision = new.queueRevision => r.index = new.index
    BY <1>4, Counts DEF revision
  <2> QED BY <1>4, <2>1, <2>2 DEF Named
<1> QED BY <1>3, <1>4, <1>5, <1>6 DEF new

LEMMA ControlKeeps ==
    ASSUME IInv, NEW c \in Ids, NEW i, Control(c, i)
    PROVE  Steps
<1> DEFINE new == MovedRow(row[c], i)
           epochs == commands[c] \cup {row[c].epoch}
<1>1. /\ row[c].life = "active" /\ row[c].queue # <<>> /\ Bounded(c)
      /\ i \in DOMAIN row[c].queue \cup {row[c].index}
  BY DEF Control, ControlAllowed
<1>2. Sound(row[c], commands[c]) /\ row[c].version < MaxVersion
  BY <1>1, Room DEF IInv
<1>3. /\ new \in Row /\ new.queue = row[c].queue /\ new.epoch = row[c].epoch
      /\ new.life = "active" /\ new.epoch <= new.version
      /\ new.queueRevision <= new.version /\ new.controlVersion <= new.version
      /\ Named(row[c], new)
  BY <1>1, <1>2, MovedIs
<1> HIDE DEF new
<1>4. row[c].epoch \in 1 .. MaxVersion
  BY <1>1, <1>2, Counts
<1>5. Sound(new, epochs)
  <2>1. \A e \in epochs : e <= row[c].epoch /\ e \in 1 .. MaxVersion
    BY <1>2, <1>4, Counts DEF Sound
  <2> QED BY <1>1, <1>3, <2>1 DEF Sound
<1>6. commands' = [commands EXCEPT ![c] = epochs] /\ Commit(c, new, <<"copy">>)
      /\ UNCHANGED <<connection, prepares>>
  BY DEF Control, new
<1> HIDE DEF epochs
<1> QED BY <1>1, <1>3, <1>5, <1>6, ChangeKeeps

LEMMA IntentKeeps ==
    ASSUME IInv, NEW c \in Ids, NEW i, LocalIntent(c, i)
    PROVE  Steps
<1> DEFINE new == MovedRow(row[c], i)
           epochs == commands[c] \ {row[c].epoch}
<1>1. /\ row[c].life = "active" /\ Bounded(c)
      /\ i \in DOMAIN row[c].queue \cup {row[c].index}
  BY DEF LocalIntent
<1>2. Sound(row[c], commands[c]) /\ row[c].version < MaxVersion
  BY <1>1, Room DEF IInv
<1>3. /\ new \in Row /\ new.queue = row[c].queue /\ new.epoch = row[c].epoch
      /\ new.life = "active" /\ new.epoch <= new.version
      /\ new.queueRevision <= new.version /\ new.controlVersion <= new.version
      /\ Named(row[c], new)
  BY <1>1, <1>2, MovedIs
<1> HIDE DEF new
<1>4. Sound(new, epochs)
  BY <1>1, <1>2, <1>3 DEF Sound
<1>5. commands' = [commands EXCEPT ![c] = epochs] /\ Commit(c, new, <<"copy">>)
      /\ UNCHANGED <<connection, prepares>>
  BY DEF LocalIntent, new
<1> HIDE DEF epochs
<1> QED BY <1>1, <1>3, <1>4, <1>5, ChangeKeeps

(* A report that the last song has ended counts as a change.               *)
LEMMA ReportKeeps ==
    ASSUME IInv, NEW c \in Ids, NEW ended \in BOOLEAN, PassiveReport(c, ended)
    PROVE  Steps
<1> DEFINE new == IF ended THEN [row[c] EXCEPT !.version = @ + 1] ELSE row[c]
<1>1. row[c].life = "active" /\ Sound(row[c], commands[c])
  BY DEF PassiveReport, IInv
<1>2. ended => row[c].version < MaxVersion
  BY Room DEF PassiveReport
<1>3. commands' = [commands EXCEPT ![c] = commands[c]] /\ Commit(c, new, <<"copy">>)
      /\ UNCHANGED <<connection, prepares>>
  BY DEF PassiveReport, IInv
<1>4. Sound(new, commands[c]) /\ Named(row[c], new)
  <2>1. CASE ended
    <3>1. row[c] \in Row /\ row[c].version + 1 \in Cursors
      BY <1>1, <1>2, <2>1, Counts, Numbers DEF Cursors
    <3>2. new = [row[c] EXCEPT !.version = row[c].version + 1]
      BY <2>1, <3>1 DEF Row
    <3> HIDE DEF new
    <3>3. /\ new \in Row /\ new.version = row[c].version + 1
          /\ new.epoch = row[c].epoch /\ new.queueRevision = row[c].queueRevision
          /\ new.controlVersion = row[c].controlVersion /\ new.queue = row[c].queue
          /\ new.index = row[c].index /\ new.session = row[c].session
          /\ new.life = row[c].life
      BY <3>1, <3>2 DEF Row
    <3>4. /\ row[c].version < new.version /\ new.epoch <= new.version
          /\ new.queueRevision <= new.version /\ new.controlVersion <= new.version
      BY <1>1, <3>3, Counts
    <3>5. Sound(new, commands[c])
      BY <1>1, <3>3, <3>4 DEF Sound
    <3>6. Named(row[c], new)
      BY <1>1, <3>3, <3>4, Counts DEF Named
    <3> QED BY <3>5, <3>6
  <2>2. CASE ~ended
    BY <1>1, <2>2, NamedItself DEF Sound
  <2> QED BY <2>1, <2>2
<1> HIDE DEF new
<1> QED BY <1>1, <1>3, <1>4, ChangeKeeps

-----------------------------------------------------------------------------
(* Commands that are settled, one epoch's or all at the start.             *)
LEMMA SettledCommands ==
    ASSUME IInv, UNCHANGED <<row, prepares, connection>>,
           commands' = [c \in Ids |-> commands'[c]],
           \A c \in Ids : commands'[c] \subseteq commands[c]
    PROVE  Steps
<1>1. \A c \in Ids : Sound(row[c], commands[c])'
  BY DEF IInv, Sound
<1>2. \A c \in Ids : Named(row[c], row'[c])
  BY NamedItself DEF IInv, Sound
<1>3. AtMostOneActive'
  BY DEF IInv, AtMostOneActive, Active
<1> QED BY <1>1, <1>2, <1>3 DEF Steps, Kept, IInv

(* A prepare is created only where there was none.                         *)
LEMMA CreateKeeps ==
    ASSUME IInv, NEW h, Create(h)
    PROVE  Steps
<1>1. CASE Creates(h)
  <2>1. prepares' = [prepares EXCEPT ![KeyOf(h)] = CreatedPrepare(h)]
    BY <1>1 DEF Create
  <2>2. prepares[KeyOf(h)].status = "absent"
    BY <1>1 DEF Creates
  <2>3. DOMAIN prepares' = Keys
    BY <2>1 DEF IInv
  <2>4. \A k \in Keys : prepares[k].status \in {"ready", "failed"} => prepares'[k] = prepares[k]
    BY <2>1, <2>2
  <2> QED BY <2>3, <2>4, RowsKept DEF Create, IInv
<1>2. CASE ~Creates(h)
  BY <1>2, NothingKept DEF Create
<1> QED BY <1>1, <1>2

LEMMA Initially == Init => IInv
<1> SUFFICES ASSUME Init PROVE IInv
  OBVIOUS
<1>1. \A c \in Ids : row[c] = NoRow /\ commands[c] = {} /\ row[c].life = "absent"
  BY DEF Init, NoRow
<1>2. connection \in Connection
  BY ContextsAssumption DEF Init, Connection
<1>3. \A c \in Ids : Sound(row[c], commands[c])
  BY <1>1, Numbers, ContextsAssumption DEF NoRow, Row, Cursors, Sound
<1> QED BY <1>1, <1>2, <1>3 DEF Init, IInv, AtMostOneActive, Active

-----------------------------------------------------------------------------
(* The actions by kind: changes of rows, readings, tasks of handlers, and  *)
(* what happens to connections, timers and the process.                    *)
LEMMA ChangesKeep == ASSUME IInv, Changes PROVE Steps
<1>1. CASE \E p \in Places : EnsureNew(p[1], p[2])
  BY <1>1, NewKeeps
<1>2. CASE \E p \in Places : EnsureExisting(p[1], p[2])
  BY <1>2, ExistingKeeps
<1>3. CASE \E c \in Ids : Close(c)
  BY <1>3, CloseKeeps
<1>4. CASE \E c \in Ids : CloseAgain(c)
  BY <1>4, NothingKept DEF CloseAgain
<1>5. CASE \E c \in Ids, p \in Places : QueueSync(c, p[1], p[2])
  BY <1>5, SyncKeeps
<1>6. CASE \E c \in Ids, i \in 0 .. MaxVersion : Control(c, i)
  BY <1>6, ControlKeeps
<1>7. CASE \E c \in Ids, i \in 0 .. MaxVersion : LocalIntent(c, i)
  BY <1>7, IntentKeeps
<1>8. CASE \E c \in Ids, ended \in BOOLEAN : PassiveReport(c, ended)
  BY <1>8, ReportKeeps
<1> QED BY <1>1, <1>2, <1>3, <1>4, <1>5, <1>6, <1>7, <1>8 DEF Changes

LEMMA ReadsKeep == ASSUME IInv, Reads PROVE Steps
<1>1. UNCHANGED <<row, commands, connection>> /\ UNCHANGED prepares
  BY DEF Reads, SubscribeRead, PrepareRead, AnswerRead
<1> QED BY <1>1, NothingKept

LEMMA TasksKeep == ASSUME IInv, NEW h, Continues(h) PROVE Steps
<1>1. CASE WriteCopy(h) \/ Subscribe(h) \/ ClearSubscribers(h) \/ Emit(h)
  BY <1>1, NothingKept DEF WriteCopy, Subscribe, ClearSubscribers, Emit
<1>2. CASE SettleReady(h)
  BY <1>2, SettledKeeps DEF SettleReady
<1>3. CASE SettleFailed(h)
  BY <1>3, SettledKeeps DEF SettleFailed
<1>4. ASSUME NEW task, NEW status, Answer(h, task, status) PROVE Steps
  BY <1>4, SettledKeeps DEF Answer
<1>5. CASE Create(h)
  BY <1>5, CreateKeeps
<1> QED BY <1>1, <1>2, <1>3, <1>4, <1>5 DEF Continues

LEMMA OthersKeep ==
    ASSUME IInv,
           \/ \E s \in Sessions : Register(s)
           \/ Disconnect
           \/ \E k \in Keys : TimerReads(k) \/ TimerSettles(k)
           \/ \E c \in Ids, e \in 1 .. MaxVersion : CommandsSettle(c, e)
           \/ \E c \in Ids : Unsubscribe(c)
           \/ Crash \/ Start
    PROVE  Steps
<1>1. CASE \E s \in Sessions : Register(s)
  <2>1. connection' \in Connection /\ UNCHANGED <<row, commands, prepares>>
    BY <1>1 DEF Register, IInv, Connection
  <2> QED BY <2>1, RowsKept DEF IInv
<1>2. CASE Disconnect \/ Crash
  <2>1. connection' \in Connection /\ UNCHANGED <<row, commands, prepares>>
    BY <1>2 DEF Disconnect, Crash, IInv, Connection
  <2> QED BY <2>1, RowsKept DEF IInv
<1>3. CASE \E k \in Keys : TimerReads(k)
  BY <1>3, NothingKept DEF TimerReads
<1>4. CASE \E k \in Keys : TimerSettles(k)
  BY <1>4, SettledKeeps DEF TimerSettles
<1>5. CASE \E c \in Ids, e \in 1 .. MaxVersion : CommandsSettle(c, e)
  <2>1. commands' = [c \in Ids |-> commands'[c]] /\ \A c \in Ids : commands'[c] \subseteq commands[c]
    BY <1>5 DEF CommandsSettle, IInv
  <2> QED BY <1>5, <2>1, SettledCommands DEF CommandsSettle
<1>6. CASE \E c \in Ids : Unsubscribe(c)
  BY <1>6, NothingKept DEF Unsubscribe
<1>7. CASE Start
  <2>1. commands' = [c \in Ids |-> commands'[c]] /\ \A c \in Ids : commands'[c] \subseteq commands[c]
    BY <1>7 DEF Start
  <2> QED BY <1>7, <2>1, SettledCommands DEF Start
<1> QED BY <1>1, <1>2, <1>3, <1>4, <1>5, <1>6, <1>7

LEMMA Stepwise == IInv /\ [Next]_vars => Steps
<1> SUFFICES ASSUME IInv, [Next]_vars PROVE Steps
  OBVIOUS
<1>1. CASE UNCHANGED vars
  BY <1>1, NothingKept DEF vars
<1>2. CASE Changes \/ Reads
  BY <1>2, ChangesKeep, ReadsKeep
<1>3. CASE \E h \in 1 .. MaxHandlers : Continues(h)
  BY <1>3, TasksKeep
<1> QED BY <1>1, <1>2, <1>3, OthersKeep DEF Next

THEOREM ContextsInvariant == Spec => []IInv
<1>1. IInv /\ [Next]_vars => IInv'
  BY Stepwise DEF Steps
<1> QED BY Initially, <1>1, PTL DEF Spec

(* ws_store.py never gives a device two active contexts, whoever ensures   *)
(* them when, and no rebind, sync or close takes the queue from under a    *)
(* pending command.                                                        *)
THEOREM StoreCorrect == Spec => []StoreConsistent
BY ContextsInvariant, StoreHolds, PTL

(* The cursors that clients compare, epoch, queueRevision and              *)
(* controlVersion, each name one content, a tombstone and the result of a  *)
(* prepare are final.                                                      *)
THEOREM CursorsCorrect == Spec => CursorsNameContents
<1>1. IInv /\ [Next]_vars =>
        [/\ \A c \in Ids : row[c].life # "absent" => Named(row[c], row[c]')
         /\ \A k \in Keys : prepares[k].status \in {"ready", "failed"} =>
                prepares'[k] = prepares[k]]_<<row, prepares>>
  BY Stepwise DEF Steps, Kept
<1> QED BY ContextsInvariant, <1>1, PTL DEF Spec, CursorsNameContents



-----------------------------------------------------------------------------
(***************************************************************************)
(* The handlers.  Between the tasks of one, others run; what the tasks     *)
(* promise together holds because of what is still to do.                  *)
(***************************************************************************)
(* The tasks that handlers are left with.                                  *)
Keyed == {<<"create">>, <<"emit">>, <<"answerReady">>, <<"answerFailed">>}
Clearing == {<<"copy", "settleFailed", "clear">>, <<"settleFailed", "clear">>, <<"clear">>}
Failing == {<<"copy", "settleFailed">>, <<"settleFailed">>,
            <<"copy", "settleFailed", "clear">>, <<"settleFailed", "clear">>}
Copying == {<<"copy">>, <<"copy", "settleFailed">>, <<"copy", "settleFailed", "clear">>,
            <<"settleReady", "copy">>}
Shapes == Keyed \cup Clearing \cup Failing \cup Copying \cup {<<"subscribe">>}

Request == {x \in Handler :
                /\ x.todo \in Shapes
                /\ x.todo \in Keyed => <<x.id, x.image.epoch, x.intent>> \in Keys}

Typed ==
    /\ handlers \in Seq(Request) /\ Len(handlers) <= MaxHandlers
    /\ server \in {"up", "down"}
    /\ connection.nonce <= MaxConnection
    /\ copy \in [Ids -> Row] /\ overlapped \in [Ids -> BOOLEAN]
    /\ timers \in [Keys -> {"none", "armed", "ready", "failed"}]
    /\ prepares \in [Keys -> [status : {"absent", "preparing", "ready", "failed"},
                              nonce : 0 .. MaxConnection]]
    /\ subscribed \subseteq Ids /\ lost \subseteq Keys
    /\ server = "down" => handlers = <<>> /\ subscribed = {}

(* A context whose last change does not overlap with another handler: that *)
(* one alone is about it, and what the copy or the subscriptions lack it   *)
(* has yet to do.                                                          *)
Alone(c) ==
    ~overlapped[c] =>
        /\ \A g, h \in Running : handlers[g].id = c /\ handlers[h].id = c => g = h
        /\ \A h \in Running : handlers[h].id = c /\ handlers[h].todo \in Copying =>
                handlers[h].image = row[c]
        /\ \/ server = "down" \/ copy[c] = row[c]
           \/ \E h \in Running : handlers[h].id = c /\ handlers[h].todo \in Copying
        /\ row[c].life = "closed" =>
            \/ \E h \in Running : handlers[h].id = c /\ handlers[h].todo \in Clearing
            \/ /\ c \notin subscribed
               /\ \A h \in Running : handlers[h].id = c => handlers[h].todo # <<"subscribe">>

HInv == Typed /\ PreparingIsCurrent /\ PreparingIsTimed /\ \A c \in Ids : Alone(c)

(* What RemoveAt leaves.                                                   *)
LEMMA Removed ==
    ASSUME NEW S, NEW s \in Seq(S), NEW i \in 1 .. Len(s)
    PROVE  /\ RemoveAt(s, i) \in Seq(S) /\ Len(RemoveAt(s, i)) = Len(s) - 1
           /\ \A j \in 1 .. Len(s) - 1 :
                RemoveAt(s, i)[j] = IF j < i THEN s[j] ELSE s[j + 1]
<1> DEFINE a == SubSeq(s, 1, i - 1)
           b == SubSeq(s, i + 1, Len(s))
<1>1. /\ a \in Seq(S) /\ Len(a) = i - 1 /\ \A j \in 1 .. i - 1 : a[j] = s[j]
      /\ b \in Seq(S) /\ Len(b) = Len(s) - i /\ \A j \in 1 .. Len(s) - i : b[j] = s[j + i]
  OBVIOUS
<1> HIDE DEF a, b
<1>2. /\ a \o b \in Seq(S) /\ Len(a \o b) = Len(s) - 1
      /\ \A j \in 1 .. Len(s) - 1 :
            (a \o b)[j] = IF j <= i - 1 THEN a[j] ELSE b[j - (i - 1)]
  <2>1. /\ a \o b \in Seq(S) /\ Len(a \o b) = Len(a) + Len(b)
        /\ \A j \in 1 .. Len(a) + Len(b) :
              (a \o b)[j] = IF j <= Len(a) THEN a[j] ELSE b[j - Len(a)]
    BY <1>1, ConcatProperties
  <2>2. Len(a) + Len(b) = Len(s) - 1
    BY <1>1
  <2> QED BY <1>1, <2>1, <2>2
<1>3. ASSUME NEW j \in 1 .. Len(s) - 1
      PROVE  (a \o b)[j] = IF j < i THEN s[j] ELSE s[j + 1]
  <2>1. CASE j < i
    BY <1>1, <1>2, <2>1
  <2>2. CASE ~(j < i)
    <3> DEFINE n == j - (i - 1)
    <3>1. n \in 1 .. Len(s) - i /\ n + i = j + 1 /\ ~(j <= i - 1)
      BY <2>2
    <3>2. b[n] = s[n + i]
      BY <1>1, <3>1
    <3>3. (a \o b)[j] = b[n]
      BY <1>2, <3>1
    <3> QED BY <2>2, <3>1, <3>2, <3>3
  <2> QED BY <2>1, <2>2
<1> QED BY <1>2, <1>3 DEF RemoveAt, a, b

(* A request is taken on behind those in progress.                         *)
Added(x) ==
    /\ handlers' \in Seq(Request) /\ Len(handlers') <= MaxHandlers
    /\ \A g \in Running : g \in Running' /\ handlers'[g] = handlers[g]
    /\ \E n \in Running' : handlers'[n] = x /\ n \notin Running /\ Running' = Running \cup {n}

LEMMA Adds ==
    ASSUME Typed, Starts, NEW x \in Request, handlers' = Append(handlers, x)
    PROVE  Added(x)
<1>1. /\ handlers \in Seq(Request) /\ Len(handlers) < MaxHandlers
      /\ MaxHandlers \in Nat
  BY ContextsAssumption DEF Typed, Starts
<1>2. /\ handlers' \in Seq(Request) /\ Len(handlers') = Len(handlers) + 1
      /\ \A g \in 1 .. Len(handlers) : handlers'[g] = handlers[g]
      /\ handlers'[Len(handlers) + 1] = x
  BY <1>1
<1>3. Running' = 1 .. Len(handlers) + 1 /\ Running = 1 .. Len(handlers)
  BY <1>1, <1>2 DEF Running
<1> QED BY <1>1, <1>2, <1>3 DEF Added

(* A handler is left with other tasks, or is gone when none are left;      *)
(* where tells for each that is there afterwards which one it was.         *)
Moves(h, rest, where) ==
    /\ where \in [Running' -> Running]
    /\ \A f, g \in Running' : where[f] = where[g] => f = g
    /\ \A g \in Running' : where[g] # h => handlers'[g] = handlers[where[g]]
    /\ \A g \in Running' : where[g] = h =>
        rest # <<>> /\ handlers'[g] = [handlers[h] EXCEPT !.todo = rest]
    /\ \A f \in Running : f # h \/ rest # <<>> => \E g \in Running' : where[g] = f

Left(h, rest) ==
    /\ h \in Running
    /\ handlers' \in Seq(Request) /\ Len(handlers') <= MaxHandlers
    /\ \E where : Moves(h, rest, where)

LEMMA Replaces ==
    ASSUME Typed, NEW h \in Running, NEW rest \in Shapes, rest # <<>>,
           handlers' = [handlers EXCEPT ![h].todo = rest],
           [handlers[h] EXCEPT !.todo = rest] \in Request
    PROVE  Left(h, rest)
<1> DEFINE where == [g \in Running |-> g]
<1>1. handlers \in Seq(Request) /\ Running = 1 .. Len(handlers)
  BY DEF Typed, Running
<1>2. handlers' = [handlers EXCEPT ![h] = [handlers[h] EXCEPT !.todo = rest]]
  OBVIOUS
<1>3. handlers' \in Seq(Request) /\ Len(handlers') = Len(handlers) /\ Running' = Running
  BY <1>1, <1>2 DEF Running
<1>4. Moves(h, rest, where)
  BY <1>1, <1>2, <1>3 DEF Moves
<1> QED BY <1>3, <1>4 DEF Left, Typed

(* Sequences of up to three tasks.                                         *)
LEMMA Tails ==
    ASSUME NEW S, NEW a \in S, NEW b \in S, NEW c \in S
    PROVE  /\ <<a>> \in Seq(S) /\ <<a, b>> \in Seq(S) /\ <<a, b, c>> \in Seq(S)
           /\ Len(<<a>>) = 1 /\ Len(<<a, b>>) = 2 /\ Len(<<a, b, c>>) = 3
           /\ Head(<<a>>) = a /\ Head(<<a, b>>) = a /\ Head(<<a, b, c>>) = a
           /\ Tail(<<a>>) = <<>> /\ Tail(<<a, b>>) = <<b>> /\ Tail(<<a, b, c>>) = <<b, c>>
<1>1. <<a>> \in Seq(S) /\ <<a, b>> \in Seq(S) /\ <<a, b, c>> \in Seq(S)
  OBVIOUS
<1>2. Len(<<a>>) = 1 /\ Len(<<a, b>>) = 2 /\ Len(<<a, b, c>>) = 3
  OBVIOUS
<1>3. Head(<<a>>) = a /\ Head(<<a, b>>) = a /\ Head(<<a, b, c>>) = a
  OBVIOUS
<1>4. Tail(<<a>>) = <<>>
  OBVIOUS
<1>5. Tail(<<a, b>>) = <<b>>
  OBVIOUS
<1>6. Tail(<<a, b, c>>) = <<b, c>>
  OBVIOUS
<1> QED BY <1>1, <1>2, <1>3, <1>4, <1>5, <1>6

(* The tasks left after the first.                                         *)
LEMMA Shaped ==
    ASSUME NEW todo \in Shapes
    PROVE  /\ todo \in Seq(Tasks) /\ todo # <<>>
           /\ Len(todo) = 1 <=> Tail(todo) = <<>>
           /\ Len(todo) # 1 => Tail(todo) \in Shapes \ Keyed
<1>1. \A t \in Tasks : /\ <<t>> \in Seq(Tasks) /\ <<t>> # <<>>
                       /\ Len(<<t>>) = 1 /\ Tail(<<t>>) = <<>>
  BY Tails
<1>2. \A t, u \in Tasks : /\ <<t, u>> \in Seq(Tasks) /\ <<t, u>> # <<>>
                          /\ Len(<<t, u>>) # 1 /\ Tail(<<t, u>>) = <<u>>
  BY Tails
<1>3. /\ <<"copy", "settleFailed", "clear">> \in Seq(Tasks)
      /\ <<"copy", "settleFailed", "clear">> # <<>>
      /\ Len(<<"copy", "settleFailed", "clear">>) # 1
      /\ Tail(<<"copy", "settleFailed", "clear">>) = <<"settleFailed", "clear">>
  BY Tails DEF Tasks
<1>4. /\ \A t \in {"copy", "settleFailed", "clear"} : <<t>> \in Shapes \ Keyed
      /\ <<"settleFailed", "clear">> \in Shapes \ Keyed
  BY DEF Shapes, Keyed, Clearing, Failing, Copying
<1>5. CASE \E t \in Tasks : todo = <<t>>
  BY <1>1, <1>5
<1>6. CASE \E t \in Tasks, u \in {"copy", "settleFailed", "clear"} : todo = <<t, u>>
  <2>1. PICK t \in Tasks, u \in {"copy", "settleFailed", "clear"} : todo = <<t, u>>
    BY <1>6
  <2>2. u \in Tasks
    BY DEF Tasks
  <2> QED BY <1>2, <1>4, <2>1, <2>2
<1>7. CASE todo = <<"copy", "settleFailed", "clear">>
  BY <1>3, <1>4, <1>7
<1> QED BY <1>5, <1>6, <1>7 DEF Shapes, Keyed, Clearing, Failing, Copying, Tasks

LEMMA Finishes ==
    ASSUME Typed, NEW h \in Running, Finish(h)
    PROVE  Left(h, Tail(handlers[h].todo))
<1> DEFINE rest == Tail(handlers[h].todo)
<1>1. /\ handlers \in Seq(Request) /\ Len(handlers) \in Nat /\ Running = 1 .. Len(handlers)
      /\ handlers[h] \in Request /\ h \in 1 .. Len(handlers)
  BY DEF Typed, Running
<1>2. handlers[h].todo \in Shapes
  BY <1>1 DEF Request
<1>3. CASE Len(handlers[h].todo) = 1
  <2> DEFINE where == [g \in 1 .. Len(handlers) - 1 |-> IF g < h THEN g ELSE g + 1]
  <2>1. rest = <<>>
    BY <1>2, <1>3, Shaped
  <2>2. handlers' = RemoveAt(handlers, h)
    BY <1>3 DEF Finish
  <2>3. /\ handlers' \in Seq(Request) /\ Len(handlers') = Len(handlers) - 1
        /\ \A g \in 1 .. Len(handlers) - 1 :
              handlers'[g] = handlers[IF g < h THEN g ELSE g + 1]
    BY <1>1, <2>2, Removed
  <2>4. Running' = 1 .. Len(handlers) - 1
    BY <1>1, <2>3 DEF Running
  <2>5. /\ where \in [Running' -> Running]
        /\ \A f, g \in Running' : where[f] = where[g] => f = g
        /\ \A g \in Running' : where[g] # h
    BY <1>1, <2>4
  <2>6. \A f \in Running : f # h => \E g \in Running' : where[g] = f
    <3> SUFFICES ASSUME NEW f \in Running, f # h
                 PROVE  \E g \in Running' : where[g] = f
      OBVIOUS
    <3>1. CASE f < h
      <4>1. f \in Running' /\ where[f] = f
        BY <1>1, <2>4, <3>1
      <4> QED BY <4>1
    <3>2. CASE f > h
      <4>1. f - 1 \in Running' /\ where[f - 1] = f
        BY <1>1, <2>4, <3>2
      <4> QED BY <4>1
    <3>3. f \in Int /\ h \in Int
      BY <1>1
    <3> HIDE DEF where
    <3> QED BY <3>1, <3>2, <3>3
  <2>7. \A g \in Running' : handlers'[g] = handlers[where[g]]
    BY <2>3, <2>4
  <2>8. Moves(h, rest, where)
    BY <2>1, <2>5, <2>6, <2>7 DEF Moves
  <2>9. Len(handlers') <= MaxHandlers
    BY <1>1, <2>3, ContextsAssumption DEF Typed
  <2> QED BY <2>3, <2>8, <2>9 DEF Left
<1>4. CASE Len(handlers[h].todo) # 1
  <2>1. rest \in Shapes \ Keyed /\ rest # <<>>
    BY <1>2, <1>4, Shaped
  <2>2. handlers' = [handlers EXCEPT ![h].todo = rest]
    BY <1>4 DEF Finish
  <2>3. rest \in Seq(Tasks)
    BY <2>1, Shaped
  <2> HIDE DEF rest
  <2>4. [handlers[h] EXCEPT !.todo = rest] \in Request
    BY <1>1, <2>1, <2>3 DEF Request, Handler
  <2> QED BY <2>1, <2>2, <2>4, Replaces DEF rest
<1> QED BY <1>3, <1>4

-----------------------------------------------------------------------------
(* What is still to do, as the property says it.                           *)
LEMMA ToFail ==
    ASSUME NEW todo \in Shapes
    PROVE  todo \in Failing <=> \E n \in DOMAIN todo : todo[n] = "settleFailed"
<1>1. CASE todo \in Failing
  <2>1. \/ todo[1] = "settleFailed" /\ 1 \in DOMAIN todo
        \/ todo[2] = "settleFailed" /\ 2 \in DOMAIN todo
    BY <1>1 DEF Failing
  <2> QED BY <1>1, <2>1
<1>2. CASE todo \notin Failing
  <2>1. todo \in Keyed \cup {<<"clear">>, <<"copy">>, <<"settleReady", "copy">>, <<"subscribe">>}
    BY <1>2 DEF Shapes, Clearing, Failing, Copying
  <2> QED BY <1>2, <2>1 DEF Keyed
<1> QED BY <1>1, <1>2

Fails(k) == \E h \in Running : handlers[h].id = k[1] /\ handlers[h].todo \in Failing

LEMMA Current ==
    ASSUME handlers \in Seq(Request)
    PROVE  PreparingIsCurrent <=>
           \A k \in Preparing \ lost :
               (row[k[1]].life = "active" /\ row[k[1]].epoch = k[2]) \/ Fails(k)
<1>1. ASSUME NEW h \in Running PROVE handlers[h].todo \in Shapes
  <2>1. handlers[h] \in Request
    BY DEF Running
  <2> QED BY <2>1 DEF Request
<1> QED BY <1>1, ToFail DEF PreparingIsCurrent, Fails

(* A new request, as far as the contexts are concerned it is not about.    *)
LEMMA AddsKeep ==
    ASSUME HInv, NEW x \in Request, Added(x), server = "up",
           UNCHANGED <<server, connection, prepares, timers, lost, subscribed>>,
           copy' \in [Ids -> Row], overlapped' \in [Ids -> BOOLEAN],
           \A d \in Ids \ {x.id} :
                copy'[d] = copy[d] /\ row'[d] = row[d] /\ overlapped'[d] = overlapped[d],
           \/ x.todo \in Failing
           \/ row[x.id].life = "active" =>
                row'[x.id].life = "active" /\ row'[x.id].epoch = row[x.id].epoch,
           ~overlapped'[x.id] =>
                /\ ~BusyOn(x.id)
                /\ IF x.todo \in Copying THEN x.image = row'[x.id]
                   ELSE copy'[x.id] = row'[x.id]
                /\ row'[x.id].life = "closed" =>
                      x.todo \in Clearing \/ (x.id \notin subscribed /\ x.todo # <<"subscribe">>)
    PROVE  HInv'
<1>1. /\ handlers' \in Seq(Request) /\ Len(handlers') <= MaxHandlers
      /\ \A g \in Running : g \in Running' /\ handlers'[g] = handlers[g]
      /\ x.id \in Ids /\ handlers \in Seq(Request)
  BY DEF Added, Request, Handler, HInv, Typed
<1>2. PICK n \in Running' : handlers'[n] = x /\ n \notin Running /\ Running' = Running \cup {n}
  BY DEF Added
<1>3. Typed'
  BY <1>1 DEF HInv, Typed
<1>4. PreparingIsTimed'
  <2>1. ASSUME NEW h \in Running PROVE KeyOf(h)' = KeyOf(h)
    BY <1>1 DEF KeyOf
  <2>2. ASSUME NEW k \in Preparing', k \notin lost'
        PROVE  timers'[k] # "none" \/ \E h \in Running' : KeyOf(h)' = k /\ handlers'[h].todo = <<"emit">>
    <3>1. k \in Preparing \ lost
      BY <2>2 DEF Preparing
    <3>2. timers[k] # "none" \/ \E h \in Running : KeyOf(h) = k /\ handlers[h].todo = <<"emit">>
      BY <3>1 DEF HInv, PreparingIsTimed
    <3> QED BY <1>1, <2>1, <3>2
  <2> QED BY <2>2 DEF PreparingIsTimed
<1>5. PreparingIsCurrent'
  <2>1. ASSUME NEW k \in Preparing \ lost
        PROVE  (row'[k[1]].life = "active" /\ row'[k[1]].epoch = k[2]) \/ Fails(k)'
    <3>1. k[1] \in Ids
      BY DEF Preparing, Keys
    <3>2. CASE Fails(k)
      BY <1>1, <3>2 DEF Fails
    <3>3. CASE k[1] = x.id /\ x.todo \in Failing
      BY <1>2, <3>3 DEF Fails
    <3>4. CASE row[k[1]].life = "active" /\ row[k[1]].epoch = k[2]
      BY <3>1, <3>3, <3>4
    <3> QED BY <1>1, <3>2, <3>4, Current DEF HInv
  <2>2. Preparing' \ lost' = Preparing \ lost
    BY DEF Preparing
  <2>3. (handlers \in Seq(Request))'
    BY <1>1
  <2>4. PreparingIsCurrent' <=>
           (\A k \in Preparing \ lost :
               (row[k[1]].life = "active" /\ row[k[1]].epoch = k[2]) \/ Fails(k))'
    BY <2>3, Current, PTL
  <2> QED BY <2>1, <2>2, <2>4
<1>6. ASSUME NEW c \in Ids PROVE Alone(c)'
  <2>1. CASE c # x.id
    <3>1. /\ copy'[c] = copy[c] /\ row'[c] = row[c] /\ overlapped'[c] = overlapped[c]
          /\ UNCHANGED <<server, subscribed>> /\ Alone(c)
      BY <2>1 DEF HInv
    <3>2. \A h \in Running' : handlers'[h].id = c => h \in Running
      BY <1>2, <2>1
    <3>3. /\ \A h \in Running : h \in Running' /\ handlers'[h] = handlers[h]
          /\ \A h \in Running' : handlers'[h].id = c => h \in Running /\ handlers'[h] = handlers[h]
      BY <1>1, <3>2
    <3> QED BY <3>1, <3>3 DEF Alone
  <2>2. CASE c = x.id
    <3>1. CASE overlapped'[c]
      BY <3>1 DEF Alone
    <3>2. CASE ~overlapped'[c]
      <4>1. \A h \in Running' : handlers'[h].id = c => h = n
        BY <1>1, <1>2, <2>2, <3>2 DEF BusyOn
      <4> QED BY <1>2, <2>2, <3>2, <4>1 DEF Alone
    <3> QED BY <3>1, <3>2
  <2> QED BY <2>1, <2>2
<1> QED BY <1>3, <1>4, <1>5, <1>6 DEF HInv

(* A context that is idle after a change that ran alone.                   *)
LEMMA Agrees == HInv => AloneAgrees
<1> SUFFICES ASSUME HInv, server = "up", NEW c \in Ids, ~overlapped[c], ~BusyOn(c)
             PROVE  copy[c] = row[c] /\ (row[c].life = "closed" => c \notin subscribed)
  BY DEF AloneAgrees
<1>1. \A h \in Running : handlers[h].id # c
  BY DEF BusyOn
<1>2. Alone(c)
  BY DEF HInv
<1> QED BY <1>1, <1>2 DEF Alone

(* A handler that changed its context: the rest of it writes the copy, and *)
(* settles and clears what a close or a change of hands leaves behind.     *)
LEMMA CommitAdds ==
    ASSUME IInv, IInv', HInv, Starts, NEW c \in Ids, NEW new, NEW todo,
           Commit(c, new, todo), todo \in Copying,
           UNCHANGED <<server, connection, prepares, timers, lost, subscribed>>,
           copy' \in [Ids -> Row], \A d \in Ids \ {c} : copy'[d] = copy[d],
           \/ todo \in Failing
           \/ row[c].life = "active" => new.life = "active" /\ new.epoch = row[c].epoch,
           new.life = "closed" => todo \in Clearing
    PROVE  HInv'
<1> DEFINE x == [id |-> c, image |-> new, intent |-> "none", nonce |-> 0, todo |-> todo]
<1>1. /\ row' = [row EXCEPT ![c] = new] /\ handlers' = Append(handlers, x)
      /\ overlapped' = [overlapped EXCEPT ![c] = BusyOn(c)]
  BY DEF Commit, Begin
<1>2. row'[c] = new /\ \A d \in Ids \ {c} : row'[d] = row[d]
  BY <1>1 DEF IInv
<1>3. new \in Row
  BY <1>2 DEF IInv, Sound
<1>4. todo \in Seq(Tasks) /\ todo \in Shapes /\ todo \notin Keyed
  BY Shaped DEF Shapes, Copying, Keyed
<1>5. x \in Request /\ x.id = c /\ x.image = new /\ x.todo = todo
  BY <1>3, <1>4, ContextsAssumption DEF Request, Handler
<1> HIDE DEF x
<1>6. Added(x)
  BY <1>1, <1>5, Adds DEF HInv
<1>7. /\ overlapped' \in [Ids -> BOOLEAN] /\ overlapped'[c] = BusyOn(c)
      /\ \A d \in Ids \ {c} : overlapped'[d] = overlapped[d]
  <2>1. BusyOn(c) \in BOOLEAN /\ overlapped \in [Ids -> BOOLEAN]
    BY DEF BusyOn, HInv, Typed
  <2> HIDE DEF BusyOn
  <2> QED BY <1>1, <2>1
<1>8. ~overlapped'[c] => ~BusyOn(c)
  BY <1>7
<1>9. server = "up" /\ x.todo \in Copying /\ x.image = row'[x.id]
      /\ (row'[x.id].life = "closed" => x.todo \in Clearing)
  BY <1>2, <1>5 DEF Starts
<1>10. \/ x.todo \in Failing
       \/ row[x.id].life = "active" =>
            row'[x.id].life = "active" /\ row'[x.id].epoch = row[x.id].epoch
  BY <1>2, <1>5
<1>11. \A d \in Ids \ {x.id} :
            copy'[d] = copy[d] /\ row'[d] = row[d] /\ overlapped'[d] = overlapped[d]
  BY <1>2, <1>5, <1>7
<1> HIDE DEF BusyOn
<1> QED BY <1>5, <1>6, <1>7, <1>8, <1>9, <1>10, <1>11, AddsKeep

LEMMA ContextRow == ASSUME IInv, NEW c \in Ids PROVE row[c] \in Row
BY DEF IInv, Sound

(* What _get_existing_playback_context leaves in memory.                   *)
LEMMA Looked ==
    ASSUME IInv, HInv, NEW c \in Ids, Look(c)
    PROVE  /\ copy' \in [Ids -> Row] /\ copy'[c] = Copied(c) /\ Copied(c).life = "active"
           /\ \A d \in Ids \ {c} : copy'[d] = copy[d]
           /\ copy[c] = row[c] => copy'[c] = row[c] /\ row[c].life = "active"
<1>1. copy \in [Ids -> Row] /\ Copied(c) \in Row
  BY ContextRow DEF HInv, Typed, Copied
<1> QED BY <1>1 DEF Look, Copied

(* A handler that has only read.                                           *)
LEMMA RememberAdds ==
    ASSUME IInv, HInv, Starts, NEW c \in Ids, NEW i \in Intents \cup {"none"}, NEW todo,
           Look(c), Remember(c, i, todo), todo \in Keyed \cup {<<"subscribe">>},
           todo \in Keyed => i \in Intents /\ Copied(c).epoch \in 1 .. MaxVersion,
           UNCHANGED <<server, connection, row, prepares, timers, lost, subscribed>>
    PROVE  HInv'
<1> DEFINE image == [NoRow EXCEPT !.session = copy'[c].session, !.epoch = copy'[c].epoch]
           x == [id |-> c, image |-> image, intent |-> i,
                 nonce |-> connection.nonce, todo |-> todo]
<1>1. /\ handlers' = Append(handlers, x)
      /\ overlapped' = [overlapped EXCEPT ![c] = @ \/ BusyOn(c)]
  BY DEF Remember, Begin
<1>2. /\ copy' \in [Ids -> Row] /\ copy'[c] = Copied(c) /\ Copied(c).life = "active"
      /\ \A d \in Ids \ {c} : copy'[d] = copy[d]
      /\ copy[c] = row[c] => copy'[c] = row[c] /\ row[c].life = "active"
  BY Looked
<1>3. image \in Row /\ image.epoch = Copied(c).epoch
  <2>1. NoRow \in Row
    BY ContextsAssumption, Numbers DEF NoRow, Row, Cursors
  <2>2. copy'[c] \in Row
    BY <1>2
  <2> QED BY <1>2, <2>1, <2>2 DEF Row
<1>4. todo \in Seq(Tasks) /\ todo \in Shapes
      /\ todo \notin Failing /\ todo \notin Copying /\ todo \notin Clearing
  <2>1. todo \in Shapes
    BY DEF Shapes
  <2> QED BY <2>1, Shaped DEF Keyed, Failing, Copying, Clearing
<1>5. connection.nonce \in 0 .. MaxConnection
  BY ContextsAssumption DEF IInv, Connection, HInv, Typed
<1> HIDE DEF image
<1>6. x \in Handler /\ x.id = c /\ x.todo = todo /\ x.intent = i /\ x.image = image
  BY <1>3, <1>4, <1>5 DEF Handler
<1> HIDE DEF x
<1>7. x \in Request
  BY <1>3, <1>4, <1>6 DEF Request, Keys
<1>8. Added(x)
  BY <1>1, <1>7, Adds DEF HInv
<1>9. /\ overlapped' \in [Ids -> BOOLEAN]
      /\ ~overlapped'[c] => ~overlapped[c] /\ ~BusyOn(c)
      /\ \A d \in Ids \ {c} : overlapped'[d] = overlapped[d]
  <2>1. BusyOn(c) \in BOOLEAN /\ overlapped \in [Ids -> BOOLEAN]
    BY DEF BusyOn, HInv, Typed
  <2> HIDE DEF BusyOn
  <2> QED BY <1>1, <2>1
<1>10. ~overlapped'[c] => copy'[c] = row[c] /\ row[c].life = "active"
  BY <1>2, <1>9, Agrees DEF AloneAgrees, Starts
<1>11. server = "up" /\ x.todo \notin Copying /\ UNCHANGED row
       /\ (~overlapped'[x.id] => ~BusyOn(x.id) /\ copy'[x.id] = row'[x.id]
                                /\ row'[x.id].life # "closed")
  BY <1>4, <1>6, <1>9, <1>10 DEF Starts
<1>12. \A d \in Ids \ {x.id} :
            copy'[d] = copy[d] /\ row'[d] = row[d] /\ overlapped'[d] = overlapped[d]
  BY <1>2, <1>6, <1>9
<1> HIDE DEF BusyOn
<1> QED BY <1>2, <1>7, <1>8, <1>9, <1>11, <1>12, AddsKeep

(* A close that is repeated writes the tombstone once more.                *)
LEMMA CloseAgainAdds ==
    ASSUME IInv, HInv, NEW c \in Ids, CloseAgain(c)
    PROVE  HInv'
<1> DEFINE todo == <<"copy">>
           x == [id |-> c, image |-> row[c], intent |-> "none", nonce |-> 0, todo |-> todo]
<1>1. /\ Starts /\ row[c].life = "closed" /\ handlers' = Append(handlers, x)
      /\ overlapped' = [overlapped EXCEPT ![c] = @ \/ BusyOn(c)]
      /\ UNCHANGED <<server, connection, row, copy, prepares, timers, lost, subscribed>>
  BY DEF CloseAgain, Begin
<1>2. todo \in Shapes /\ todo \in Copying /\ todo \notin Keyed /\ todo \notin Clearing
  BY DEF Shapes, Copying, Keyed, Clearing
<1>3. todo \in Seq(Tasks) /\ row[c] \in Row
  BY <1>2, Shaped, ContextRow
<1> HIDE DEF todo
<1>4. x \in Request /\ x.id = c /\ x.image = row[c] /\ x.todo = todo
  BY <1>2, <1>3, ContextsAssumption DEF Request, Handler
<1> HIDE DEF x
<1>5. Added(x)
  BY <1>1, <1>4, Adds DEF HInv
<1>6. /\ overlapped' \in [Ids -> BOOLEAN]
      /\ ~overlapped'[c] => ~overlapped[c] /\ ~BusyOn(c)
      /\ \A d \in Ids \ {c} : overlapped'[d] = overlapped[d]
  <2>1. BusyOn(c) \in BOOLEAN /\ overlapped \in [Ids -> BOOLEAN]
    BY DEF BusyOn, HInv, Typed
  <2> HIDE DEF BusyOn
  <2> QED BY <1>1, <2>1
<1>7. ~overlapped'[c] => c \notin subscribed
  BY <1>1, <1>6, Agrees DEF AloneAgrees, Starts
<1>8. todo # <<"subscribe">>
  BY DEF todo
<1>9. copy \in [Ids -> Row]
  BY DEF HInv, Typed
<1>10. server = "up" /\ x.todo \in Copying /\ UNCHANGED row /\ x.image = row'[x.id]
       /\ (~overlapped'[x.id] => ~BusyOn(x.id) /\ x.id \notin subscribed
                                /\ x.todo # <<"subscribe">>)
  BY <1>1, <1>2, <1>4, <1>6, <1>7, <1>8 DEF Starts
<1>11. \A d \in Ids \ {x.id} :
            copy'[d] = copy[d] /\ row'[d] = row[d] /\ overlapped'[d] = overlapped[d]
  BY <1>1, <1>4, <1>6
<1> HIDE DEF BusyOn
<1> QED BY <1>1, <1>4, <1>5, <1>6, <1>9, <1>10, <1>11, AddsKeep

-----------------------------------------------------------------------------
(* The changes of rows one by one: with what tasks each goes on.           *)
LEMMA EnsuredIs ==
    ASSUME NEW r \in Row, NEW q, NEW i, NEW rebind \in BOOLEAN, NEW initialize \in BOOLEAN
    PROVE  /\ EnsuredRow(r, q, i, rebind, initialize).life = r.life
           /\ ~rebind => EnsuredRow(r, q, i, rebind, initialize).epoch = r.epoch
<1> DEFINE filled == IF initialize
                     THEN [r EXCEPT !.queue = q, !.index = i, !.queueRevision = @ + 1]
                     ELSE r
           new == [filled EXCEPT !.session = connection.session,
                                 !.epoch = IF rebind THEN @ + 1 ELSE @,
                                 !.version = @ + 1, !.controlVersion = @ + 1]
<1>1. filled.life = r.life /\ filled.epoch = r.epoch
      /\ DOMAIN filled = {"life", "session", "queue", "index", "epoch", "version",
                          "queueRevision", "controlVersion"}
  BY DEF Row
<1> HIDE DEF filled
<1>2. new.life = filled.life /\ new.epoch = IF rebind THEN filled.epoch + 1 ELSE filled.epoch
  BY <1>1
<1>3. EnsuredRow(r, q, i, rebind, initialize) = IF ~rebind /\ ~initialize THEN r ELSE new
  BY DEF EnsuredRow, filled
<1> QED BY <1>1, <1>2, <1>3

LEMMA KeptLife ==
    ASSUME NEW r \in Row
    PROVE  /\ \A q, i : SyncedRow(r, q, i).life = r.life /\ SyncedRow(r, q, i).epoch = r.epoch
           /\ \A i : MovedRow(r, i).life = r.life /\ MovedRow(r, i).epoch = r.epoch
           /\ [r EXCEPT !.life = "closed", !.version = @ + 1].life = "closed"
           /\ [r EXCEPT !.version = @ + 1].life = r.life
           /\ [r EXCEPT !.version = @ + 1].epoch = r.epoch
BY DEF Row, SyncedRow, MovedRow

LEMMA ToCopy ==
    /\ <<"copy">> \in Copying
    /\ \A rebind \in BOOLEAN : EnsureTodo(rebind) \in Copying /\ (rebind => EnsureTodo(rebind) \in Failing)
    /\ CloseTodo \in Copying /\ CloseTodo \in Failing /\ CloseTodo \in Clearing
    /\ \A q : SyncTodo(q) \in Copying
BY DEF Copying, Failing, Clearing, EnsureTodo, CloseTodo, SyncTodo

LEMMA ChangesHandled ==
    ASSUME IInv, IInv', HInv, Changes
    PROVE  HInv'
<1>0. copy \in [Ids -> Row]
  BY DEF HInv, Typed
<1>1. ASSUME NEW p \in Places, EnsureNew(p[1], p[2]) PROVE HInv'
  <2> DEFINE new == [life |-> "active", session |-> connection.session,
                     queue |-> p[1], index |-> p[2], epoch |-> 1,
                     version |-> 1, queueRevision |-> 1, controlVersion |-> 1]
  <2>1. PICK c \in Ids : row[c].life = "absent" /\ Commit(c, new, <<"copy">>)
    BY <1>1 DEF EnsureNew
  <2>2. new.life = "active"
    OBVIOUS
  <2> HIDE DEF new
  <2> QED BY <1>0, <1>1, <2>1, <2>2, ToCopy, CommitAdds DEF EnsureNew
<1>2. ASSUME NEW p \in Places, EnsureExisting(p[1], p[2]) PROVE HInv'
  <2>1. PICK c \in Candidates :
          LET rebind == row[c].session # connection.session
              initialize == p[1] # <<>> /\ row[c].queue = <<>>
          IN  Commit(c, EnsuredRow(row[c], p[1], p[2], rebind, initialize), EnsureTodo(rebind))
    BY <1>2 DEF EnsureExisting
  <2> DEFINE rebind == row[c].session # connection.session
             initialize == p[1] # <<>> /\ row[c].queue = <<>>
             new == EnsuredRow(row[c], p[1], p[2], rebind, initialize)
  <2>2. c \in Ids /\ row[c].life = "active"
    BY DEF Candidates, Active
  <2>3. Commit(c, new, EnsureTodo(rebind)) /\ rebind \in BOOLEAN /\ initialize \in BOOLEAN
    BY <2>1
  <2>4. row[c] \in Row
    BY <2>2, ContextRow
  <2> HIDE DEF rebind, initialize
  <2>5. new.life = row[c].life /\ (~rebind => new.epoch = row[c].epoch)
    BY <2>3, <2>4, EnsuredIs
  <2>6. EnsureTodo(rebind) \in Copying /\ (rebind => EnsureTodo(rebind) \in Failing)
    BY <2>3, ToCopy
  <2>7. /\ Starts
        /\ UNCHANGED <<server, connection, prepares, timers, lost, subscribed, copy>>
    BY <1>2 DEF EnsureExisting
  <2> HIDE DEF new
  <2> QED BY <1>0, <2>2, <2>3, <2>5, <2>6, <2>7, CommitAdds
<1>3. ASSUME NEW c \in Ids, Close(c) PROVE HInv'
  <2> DEFINE new == [row[c] EXCEPT !.life = "closed", !.version = @ + 1]
  <2>1. Starts /\ Commit(c, new, CloseTodo)
        /\ UNCHANGED <<server, connection, prepares, timers, lost, subscribed, copy>>
    BY <1>3 DEF Close
  <2> HIDE DEF new
  <2> QED BY <1>0, <2>1, ToCopy, CommitAdds
<1>4. ASSUME NEW c \in Ids, CloseAgain(c) PROVE HInv'
  BY <1>4, CloseAgainAdds
<1>5. ASSUME NEW c \in Ids, NEW p \in Places, QueueSync(c, p[1], p[2]) PROVE HInv'
  <2> DEFINE new == SyncedRow(row[c], p[1], p[2])
  <2>1. /\ Starts /\ Commit(c, new, SyncTodo(p[1])) /\ Look(c) /\ row[c].life = "active"
        /\ UNCHANGED <<server, connection, prepares, timers, lost, subscribed>>
    BY <1>5 DEF QueueSync, FromAuthority
  <2>2. new.life = row[c].life /\ new.epoch = row[c].epoch
    BY ContextRow, KeptLife
  <2>3. copy' \in [Ids -> Row] /\ \A d \in Ids \ {c} : copy'[d] = copy[d]
    BY <2>1, Looked
  <2> HIDE DEF new
  <2> QED BY <2>1, <2>2, <2>3, ToCopy, CommitAdds
<1>6. ASSUME NEW c \in Ids, NEW i, Control(c, i) PROVE HInv'
  <2> DEFINE new == MovedRow(row[c], i)
  <2>1. /\ Starts /\ Commit(c, new, <<"copy">>) /\ Look(c) /\ row[c].life = "active"
        /\ UNCHANGED <<server, connection, prepares, timers, lost, subscribed>>
    BY <1>6 DEF Control, ControlAllowed
  <2>2. new.life = row[c].life /\ new.epoch = row[c].epoch
    BY ContextRow, KeptLife
  <2>3. copy' \in [Ids -> Row] /\ \A d \in Ids \ {c} : copy'[d] = copy[d]
    BY <2>1, Looked
  <2> HIDE DEF new
  <2> QED BY <2>1, <2>2, <2>3, ToCopy, CommitAdds
<1>7. ASSUME NEW c \in Ids, NEW i, LocalIntent(c, i) PROVE HInv'
  <2> DEFINE new == MovedRow(row[c], i)
  <2>1. /\ Starts /\ Commit(c, new, <<"copy">>) /\ row[c].life = "active"
        /\ UNCHANGED <<server, connection, prepares, timers, lost, subscribed, copy>>
    BY <1>7 DEF LocalIntent
  <2>2. new.life = row[c].life /\ new.epoch = row[c].epoch
    BY ContextRow, KeptLife
  <2> HIDE DEF new
  <2> QED BY <1>0, <2>1, <2>2, ToCopy, CommitAdds
<1>8. ASSUME NEW c \in Ids, NEW ended \in BOOLEAN, PassiveReport(c, ended) PROVE HInv'
  <2> DEFINE new == IF ended THEN [row[c] EXCEPT !.version = @ + 1] ELSE row[c]
  <2>1. /\ Starts /\ Commit(c, new, <<"copy">>) /\ row[c].life = "active"
        /\ UNCHANGED <<server, connection, prepares, timers, lost, subscribed, copy>>
    BY <1>8 DEF PassiveReport
  <2>2. new.life = row[c].life /\ new.epoch = row[c].epoch
    BY ContextRow, KeptLife
  <2> HIDE DEF new
  <2> QED BY <1>0, <2>1, <2>2, ToCopy, CommitAdds
<1> QED BY <1>1, <1>2, <1>3, <1>4, <1>5, <1>6, <1>7, <1>8 DEF Changes

(* The readings.                                                           *)
LEMMA ReadsHandled ==
    ASSUME IInv, HInv, Reads
    PROVE  HInv'
<1>1. ASSUME NEW c \in Ids, SubscribeRead(c) PROVE HInv'
  <2>1. <<"subscribe">> \notin Keyed
    BY DEF Keyed
  <2> QED BY <1>1, <2>1, RememberAdds DEF SubscribeRead
<1>2. ASSUME NEW c \in Ids, NEW i \in Intents, PrepareRead(c, i) PROVE HInv'
  <2>1. <<"create">> \in Keyed
    BY DEF Keyed
  <2> QED BY <1>2, <2>1, RememberAdds DEF PrepareRead
<1>3. ASSUME NEW c \in Ids, NEW i \in Intents, NEW ready \in BOOLEAN, AnswerRead(c, i, ready)
      PROVE  HInv'
  <2> DEFINE todo == IF ready THEN <<"answerReady">> ELSE <<"answerFailed">>
  <2>1. todo \in Keyed
    BY DEF Keyed
  <2>2. Copied(c).epoch \in 1 .. MaxVersion
    BY <1>3 DEF AnswerRead, Preparing, Keys
  <2>3. /\ Starts /\ Look(c) /\ Remember(c, i, todo)
        /\ UNCHANGED <<server, connection, row, prepares, timers, lost, subscribed>>
    BY <1>3 DEF AnswerRead
  <2> HIDE DEF todo
  <2> QED BY <2>1, <2>2, <2>3, RememberAdds
<1> QED BY <1>1, <1>2, <1>3 DEF Reads

-----------------------------------------------------------------------------
(* The first task of a handler and what it leaves.                         *)
LEMMA Heads ==
    ASSUME NEW todo \in Shapes, NEW rest, rest = Tail(todo)
    PROVE  /\ rest \notin Keyed /\ rest # <<"subscribe">>
           /\ rest \in Copying <=> todo \in Copying /\ Head(todo) # "copy"
           /\ rest \in Clearing <=> todo \in Clearing /\ Head(todo) # "clear"
           /\ rest \in Failing <=> todo \in Failing /\ Head(todo) # "settleFailed"
           /\ Head(todo) \in {"create", "emit", "answerReady", "answerFailed", "subscribe"} =>
                  todo = <<Head(todo)>> /\ rest = <<>>
           /\ Head(todo) = "copy" => todo \in Copying
           /\ todo = <<"emit">> => Head(todo) = "emit"
<1>1. CASE \E t \in Tasks : todo = <<t>>
  <2>1. PICK t \in Tasks : todo = <<t>>
    BY <1>1
  <2>2. rest = <<>> /\ Head(todo) = t
    BY <2>1, Tails
  <2> QED BY <2>1, <2>2 DEF Shapes, Keyed, Clearing, Failing, Copying, Tasks
<1>2. CASE todo = <<"copy", "settleFailed">>
  <2>1. rest = <<"settleFailed">> /\ Head(todo) = "copy"
    BY <1>2, Tails
  <2> QED BY <1>2, <2>1 DEF Keyed, Clearing, Failing, Copying
<1>3. CASE todo = <<"settleReady", "copy">>
  <2>1. rest = <<"copy">> /\ Head(todo) = "settleReady"
    BY <1>3, Tails
  <2> QED BY <1>3, <2>1 DEF Keyed, Clearing, Failing, Copying
<1>4. CASE todo = <<"settleFailed", "clear">>
  <2>1. rest = <<"clear">> /\ Head(todo) = "settleFailed"
    BY <1>4, Tails
  <2> QED BY <1>4, <2>1 DEF Keyed, Clearing, Failing, Copying
<1>5. CASE todo = <<"copy", "settleFailed", "clear">>
  <2>1. rest = <<"settleFailed", "clear">> /\ Head(todo) = "copy"
    BY <1>5, Tails
  <2> QED BY <1>5, <2>1 DEF Keyed, Clearing, Failing, Copying
<1> QED BY <1>1, <1>2, <1>3, <1>4, <1>5 DEF Shapes, Keyed, Clearing, Failing, Copying, Tasks

(* A handler goes on: what its context needs to hear of it.                *)
LEMMA LeftKeeps ==
    ASSUME HInv, NEW h, NEW rest, Left(h, rest), server = "up", rest # <<"subscribe">>,
           UNCHANGED <<server, connection, row, overlapped>>,
           copy' \in [Ids -> Row],
           timers' \in [Keys -> {"none", "armed", "ready", "failed"}],
           prepares' \in [Keys -> [status : {"absent", "preparing", "ready", "failed"},
                                   nonce : 0 .. MaxConnection]],
           subscribed' \subseteq Ids, lost' \subseteq Keys,
           \A d \in Ids \ {handlers[h].id} :
                copy'[d] = copy[d] /\ (d \in subscribed' <=> d \in subscribed),
           \A k \in Preparing' \ lost' :
                \/ timers'[k] # "none"
                \/ k = KeyOf(h) /\ rest = <<"emit">>
                \/ /\ k \in Preparing \ lost /\ timers'[k] = timers[k]
                   /\ handlers[h].todo # <<"emit">> \/ KeyOf(h) # k,
           \A k \in Preparing' \ lost' :
                \/ row[k[1]].life = "active" /\ row[k[1]].epoch = k[2]
                \/ /\ k \in Preparing \ lost
                   /\ k[1] = handlers[h].id /\ handlers[h].todo \in Failing => rest \in Failing,
           ~overlapped[handlers[h].id] =>
                /\ rest \in Copying => handlers[h].image = row[handlers[h].id]
                /\ rest \notin Copying => copy'[handlers[h].id] = row[handlers[h].id]
                /\ row[handlers[h].id].life = "closed" =>
                      rest \in Clearing \/ handlers[h].id \notin subscribed'
    PROVE  HInv'
<1> DEFINE c0 == handlers[h].id
<1>1. /\ handlers' \in Seq(Request) /\ Len(handlers') <= MaxHandlers
      /\ h \in Running /\ handlers \in Seq(Request)
  BY DEF Left, HInv, Typed
<1>2. PICK where : Moves(h, rest, where)
  BY DEF Left
<1>3. handlers[h] \in Request /\ c0 \in Ids
  <2>1. handlers[h] \in Request
    BY <1>1 DEF Running
  <2> QED BY <2>1 DEF Request, Handler
<1>4. /\ where \in [Running' -> Running]
      /\ \A f, g \in Running' : where[f] = where[g] => f = g
      /\ \A g \in Running' : where[g] # h => handlers'[g] = handlers[where[g]]
      /\ \A g \in Running' : where[g] = h =>
            /\ rest # <<>> /\ handlers'[g].todo = rest
            /\ handlers'[g].id = c0 /\ handlers'[g].image = handlers[h].image
            /\ handlers'[g].intent = handlers[h].intent
      /\ \A f \in Running : f # h \/ rest # <<>> => \E g \in Running' : where[g] = f
  <2> DEFINE moved == [handlers[h] EXCEPT !.todo = rest]
  <2>1. /\ moved.todo = rest /\ moved.id = c0 /\ moved.image = handlers[h].image
        /\ moved.intent = handlers[h].intent
    BY <1>3 DEF Request, Handler
  <2> HIDE DEF moved
  <2>2. \A g \in Running' : where[g] = h => rest # <<>> /\ handlers'[g] = moved
    BY <1>2 DEF Moves, moved
  <2> QED BY <1>2, <2>1, <2>2 DEF Moves
<1>5. Typed'
  BY <1>1 DEF HInv, Typed
<1>6. ASSUME NEW k \in Preparing' \ lost'
      PROVE  timers'[k] # "none" \/ \E g \in Running' : KeyOf(g)' = k /\ handlers'[g].todo = <<"emit">>
  <2>1. CASE k = KeyOf(h) /\ rest = <<"emit">>
    <3>1. PICK g \in Running' : where[g] = h
      BY <1>1, <1>4, <2>1
    <3>2. KeyOf(g)' = KeyOf(h) /\ handlers'[g].todo = rest
      BY <1>4, <3>1 DEF KeyOf
    <3> QED BY <2>1, <3>2
  <2>2. CASE /\ k \in Preparing \ lost /\ timers'[k] = timers[k]
             /\ handlers[h].todo # <<"emit">> \/ KeyOf(h) # k
    <3>1. CASE timers[k] # "none"
      BY <2>2, <3>1
    <3>2. CASE \E f \in Running : KeyOf(f) = k /\ handlers[f].todo = <<"emit">>
      <4>1. PICK f \in Running : KeyOf(f) = k /\ handlers[f].todo = <<"emit">>
        BY <3>2
      <4>2. PICK g \in Running' : where[g] = f
        BY <1>4, <2>2, <4>1
      <4>3. handlers'[g] = handlers[f]
        BY <1>4, <2>2, <4>1, <4>2
      <4>4. KeyOf(g)' = KeyOf(f)
        BY <4>3 DEF KeyOf
      <4> QED BY <4>1, <4>3, <4>4
    <3> QED BY <2>2, <3>1, <3>2 DEF HInv, PreparingIsTimed
  <2> QED BY <1>6, <2>1, <2>2
<1>7. PreparingIsTimed'
  BY <1>6 DEF PreparingIsTimed
<1>8. ASSUME NEW k \in Preparing' \ lost'
      PROVE  (row'[k[1]].life = "active" /\ row'[k[1]].epoch = k[2]) \/ Fails(k)'
  <2>1. CASE row[k[1]].life = "active" /\ row[k[1]].epoch = k[2]
    BY <2>1
  <2>2. CASE /\ k \in Preparing \ lost /\ Fails(k)
             /\ k[1] = c0 /\ handlers[h].todo \in Failing => rest \in Failing
    <3>1. PICK f \in Running : handlers[f].id = k[1] /\ handlers[f].todo \in Failing
      BY <2>2 DEF Fails
    <3>2. f # h \/ rest # <<>>
      BY <2>2, <3>1 DEF Failing
    <3>3. PICK g \in Running' : where[g] = f
      BY <1>4, <3>1, <3>2
    <3>4. handlers'[g].id = k[1] /\ handlers'[g].todo \in Failing
      BY <1>4, <2>2, <3>1, <3>3
    <3> QED BY <3>4 DEF Fails
  <2> QED BY <1>1, <1>8, <2>1, <2>2, Current DEF HInv
<1>9. PreparingIsCurrent'
  <2>1. (handlers \in Seq(Request))'
    BY <1>1
  <2>2. PreparingIsCurrent' <=>
           (\A k \in Preparing \ lost :
               (row[k[1]].life = "active" /\ row[k[1]].epoch = k[2]) \/ Fails(k))'
    BY <2>1, Current, PTL
  <2> QED BY <1>8, <2>2
<1>10. ASSUME NEW c \in Ids, ~overlapped'[c] PROVE Alone(c)'
  <2>0. Alone(c) /\ ~overlapped[c]
    BY <1>10 DEF HInv
  <2>1. \A f, g \in Running' : handlers'[f].id = c /\ handlers'[g].id = c => f = g
    <3>1. \A g \in Running' : where[g] \in Running /\ handlers'[g].id = handlers[where[g]].id
      BY <1>4
    <3> QED BY <1>4, <2>0, <3>1 DEF Alone
  <2>2. CASE c # c0
    <3>1. \A f \in Running : handlers[f].id = c => \E g \in Running' : handlers'[g] = handlers[f]
      BY <1>4, <2>2
    <3>2. \A g \in Running' : handlers'[g].id = c =>
              \E f \in Running : handlers'[g] = handlers[f]
      BY <1>4, <2>2
    <3>3. copy'[c] = copy[c] /\ (c \in subscribed' <=> c \in subscribed)
      BY <2>2
    <3> QED BY <2>0, <2>1, <3>1, <3>2, <3>3 DEF Alone
  <2>3. CASE c = c0
    <3>1. \A g \in Running' : handlers'[g].id = c => where[g] = h
      BY <1>1, <1>4, <2>0, <2>3 DEF Alone
    <3>2. \A g \in Running' : handlers'[g].id = c =>
              handlers'[g].todo = rest /\ handlers'[g].image = handlers[h].image
      BY <1>4, <3>1
    <3>3. rest # <<>> => \E g \in Running' : handlers'[g].id = c /\ handlers'[g].todo = rest
      BY <1>1, <1>4, <2>3
    <3>4. <<>> \notin Copying /\ <<>> \notin Clearing
      BY DEF Copying, Clearing
    <3>5. /\ rest \in Copying => handlers[h].image = row[c]
          /\ rest \notin Copying => copy'[c] = row[c]
          /\ row[c].life = "closed" => rest \in Clearing \/ c \notin subscribed'
      BY <2>0, <2>3
    <3>6. \A g \in Running' : handlers'[g].id = c /\ handlers'[g].todo \in Copying =>
              handlers'[g].image = row[c]
      BY <3>2, <3>5
    <3>7. copy'[c] = row[c] \/ \E g \in Running' : handlers'[g].id = c /\ handlers'[g].todo \in Copying
      BY <3>3, <3>4, <3>5
    <3>8. row[c].life = "closed" =>
            \/ \E g \in Running' : handlers'[g].id = c /\ handlers'[g].todo \in Clearing
            \/ /\ c \notin subscribed'
               /\ \A g \in Running' : handlers'[g].id = c => handlers'[g].todo # <<"subscribe">>
      BY <3>2, <3>3, <3>4, <3>5
    <3> HIDE DEF c0
    <3> QED BY <2>1, <3>6, <3>7, <3>8 DEF Alone
  <2> QED BY <2>2, <2>3
<1>11. ASSUME NEW c \in Ids PROVE Alone(c)'
  BY <1>10 DEF Alone
<1> QED BY <1>5, <1>7, <1>9, <1>11 DEF HInv

-----------------------------------------------------------------------------
(* Settled prepares are open no more.                                      *)
LEMMA SettledIs ==
    ASSUME HInv, NEW keys, NEW status \in {"ready", "failed"}, prepares' = Settled(keys, status)
    PROVE  /\ prepares' \in [Keys -> [status : {"absent", "preparing", "ready", "failed"},
                                      nonce : 0 .. MaxConnection]]
           /\ Preparing' = Preparing \ keys
<1>1. prepares \in [Keys -> [status : {"absent", "preparing", "ready", "failed"},
                             nonce : 0 .. MaxConnection]]
  BY DEF HInv, Typed
<1>2. ASSUME NEW k \in Keys
      PROVE  /\ prepares'[k] \in [status : {"absent", "preparing", "ready", "failed"},
                                  nonce : 0 .. MaxConnection]
             /\ prepares'[k].status = "preparing" <=> prepares[k].status = "preparing" /\ k \notin keys
  BY <1>1 DEF Settled, Preparing
<1>3. prepares' = [k \in Keys |-> prepares'[k]]
  BY DEF Settled
<1> QED BY <1>2, <1>3 DEF Preparing

(* The handler whose turn it is.                                           *)
LEMMA Turn ==
    ASSUME HInv, NEW h, NEW task, Todo(h, task), Finish(h)
    PROVE  /\ server = "up" /\ h \in Running /\ handlers[h] \in Request
           /\ handlers[h].id \in Ids /\ handlers[h].todo \in Shapes
           /\ Head(handlers[h].todo) = task
           /\ Left(h, Tail(handlers[h].todo))
<1>1. server = "up" /\ h \in Running /\ Head(handlers[h].todo) = task
  BY DEF Todo
<1>2. handlers[h] \in Request
  BY <1>1 DEF HInv, Typed, Running
<1>3. Left(h, Tail(handlers[h].todo))
  BY <1>1, Finishes DEF HInv
<1> QED BY <1>1, <1>2, <1>3 DEF Request, Handler

(* What is known of a context whose only handler is h.                     *)
LEMMA Only ==
    ASSUME HInv, server = "up", NEW h \in Running, handlers[h] \in Request,
           ~overlapped[handlers[h].id]
    PROVE  LET c == handlers[h].id
           IN  /\ handlers[h].todo \in Copying => handlers[h].image = row[c]
               /\ handlers[h].todo \notin Copying => copy[c] = row[c]
               /\ row[c].life = "closed" =>
                    \/ handlers[h].todo \in Clearing
                    \/ c \notin subscribed /\ handlers[h].todo # <<"subscribe">>
<1> DEFINE c == handlers[h].id
<1>1. c \in Ids
  BY DEF Request, Handler
<1>2. Alone(c)
  BY <1>1 DEF HInv
<1> QED BY <1>2 DEF Alone

(* A task that neither writes the copy nor touches subscriptions.          *)
LEMMA SettlingKeeps ==
    ASSUME HInv, NEW h, NEW task, Todo(h, task), Finish(h),
           task \notin {"copy", "clear", "emit", "subscribe"},
           UNCHANGED <<server, connection, row, copy, overlapped, subscribed, timers, lost>>,
           prepares' \in [Keys -> [status : {"absent", "preparing", "ready", "failed"},
                                   nonce : 0 .. MaxConnection]],
           Preparing' \subseteq Preparing,
           task = "settleFailed" => \A k \in Preparing' : k[1] # handlers[h].id
    PROVE  HInv'
<1> DEFINE todo == handlers[h].todo
           rest == Tail(handlers[h].todo)
           c == handlers[h].id
<1>1. /\ server = "up" /\ h \in Running /\ handlers[h] \in Request /\ c \in Ids
      /\ todo \in Shapes /\ Head(todo) = task /\ Left(h, rest)
  BY Turn
<1>2. /\ rest # <<"subscribe">> /\ rest # <<"emit">> /\ todo # <<"emit">>
      /\ rest \in Copying <=> todo \in Copying
      /\ rest \in Clearing <=> todo \in Clearing
      /\ rest \in Failing <=> todo \in Failing /\ task # "settleFailed"
  <2> HIDE DEF todo
  <2>3. todo \in Shapes /\ rest = Tail(todo)
    BY <1>1 DEF todo
  <2> HIDE DEF rest
  <2>0. rest \notin Keyed /\ rest # <<"subscribe">>
    BY <2>3, Heads
  <2>1. /\ rest \in Copying <=> todo \in Copying /\ Head(todo) # "copy"
        /\ rest \in Clearing <=> todo \in Clearing /\ Head(todo) # "clear"
        /\ rest \in Failing <=> todo \in Failing /\ Head(todo) # "settleFailed"
        /\ todo = <<"emit">> => Head(todo) = "emit"
    BY <2>3, Heads
  <2>2. <<"emit">> \in Keyed
    BY DEF Keyed
  <2> QED BY <1>1, <2>0, <2>1, <2>2
<1>3. ~overlapped[c] =>
        /\ rest \in Copying => handlers[h].image = row[c]
        /\ rest \notin Copying => copy'[c] = row[c]
        /\ row[c].life = "closed" => rest \in Clearing \/ c \notin subscribed'
  BY <1>1, <1>2, Only
<1>4. /\ copy' \in [Ids -> Row] /\ subscribed' \subseteq Ids /\ lost' \subseteq Keys
      /\ timers' \in [Keys -> {"none", "armed", "ready", "failed"}]
  BY DEF HInv, Typed
<1>5. ASSUME NEW k \in Preparing' \ lost'
      PROVE  /\ k \in Preparing \ lost /\ timers'[k] = timers[k] /\ todo # <<"emit">>
             /\ k[1] = c /\ todo \in Failing => rest \in Failing
  BY <1>2
<1> HIDE DEF todo, rest, c
<1>6. ASSUME NEW k \in Preparing' \ lost'
      PROVE  /\ k \in Preparing \ lost /\ timers'[k] = timers[k]
             /\ handlers[h].todo # <<"emit">> \/ KeyOf(h) # k
             /\ k[1] = handlers[h].id /\ handlers[h].todo \in Failing => rest \in Failing
  BY <1>5 DEF todo, c
<1>7. \A d \in Ids \ {handlers[h].id} :
            copy'[d] = copy[d] /\ (d \in subscribed' <=> d \in subscribed)
  OBVIOUS
<1> QED BY <1>1, <1>2, <1>3, <1>4, <1>6, <1>7, LeftKeeps DEF c

-----------------------------------------------------------------------------
(* The tasks one by one.                                                   *)
LEMMA WriteCopyHandled ==
    ASSUME IInv, HInv, NEW h, WriteCopy(h)
    PROVE  HInv'
<1> DEFINE todo == handlers[h].todo
           rest == Tail(handlers[h].todo)
           c == handlers[h].id
<1>1. /\ server = "up" /\ h \in Running /\ handlers[h] \in Request /\ c \in Ids
      /\ todo \in Shapes /\ Head(todo) = "copy" /\ Left(h, rest)
  BY Turn DEF WriteCopy
<1>2. /\ rest # <<"subscribe">> /\ todo # <<"emit">>
      /\ rest \notin Copying /\ todo \in Copying
      /\ rest \in Clearing <=> todo \in Clearing
      /\ rest \in Failing <=> todo \in Failing
  <2>1. /\ rest # <<"subscribe">>
        /\ rest \in Copying <=> todo \in Copying /\ Head(todo) # "copy"
        /\ rest \in Clearing <=> todo \in Clearing /\ Head(todo) # "clear"
        /\ rest \in Failing <=> todo \in Failing /\ Head(todo) # "settleFailed"
        /\ todo = <<"emit">> => Head(todo) = "emit"
        /\ Head(todo) = "copy" => todo \in Copying
    BY <1>1, Heads
  <2> HIDE DEF rest, todo
  <2> QED BY <1>1, <2>1
<1>3. /\ copy' = [copy EXCEPT ![c] = handlers[h].image]
      /\ UNCHANGED <<server, connection, row, prepares, timers, subscribed, overlapped, lost>>
  BY DEF WriteCopy
<1>4. copy \in [Ids -> Row] /\ handlers[h].image \in Row
  BY <1>1 DEF HInv, Typed, Request, Handler
<1>5. /\ copy' \in [Ids -> Row] /\ copy'[c] = handlers[h].image
      /\ \A d \in Ids \ {c} : copy'[d] = copy[d]
  BY <1>1, <1>3, <1>4
<1>6. ~overlapped[c] =>
        /\ handlers[h].image = row[c]
        /\ row[c].life = "closed" =>
              todo \in Clearing \/ (c \notin subscribed /\ todo # <<"subscribe">>)
  BY <1>1, <1>2, Only
<1>7. ~overlapped[c] =>
        /\ rest \in Copying => handlers[h].image = row[c]
        /\ rest \notin Copying => copy'[c] = row[c]
        /\ row[c].life = "closed" => rest \in Clearing \/ c \notin subscribed'
  BY <1>2, <1>3, <1>5, <1>6
<1>8. ASSUME NEW k \in Preparing' \ lost'
      PROVE  /\ k \in Preparing \ lost /\ timers'[k] = timers[k]
             /\ handlers[h].todo # <<"emit">> \/ KeyOf(h) # k
             /\ k[1] = handlers[h].id /\ handlers[h].todo \in Failing => rest \in Failing
  BY <1>2, <1>3 DEF Preparing
<1>9. /\ prepares' \in [Keys -> [status : {"absent", "preparing", "ready", "failed"},
                                 nonce : 0 .. MaxConnection]]
      /\ subscribed' \subseteq Ids /\ lost' \subseteq Keys
      /\ timers' \in [Keys -> {"none", "armed", "ready", "failed"}]
  BY <1>3 DEF HInv, Typed
<1> HIDE DEF rest
<1> QED BY <1>1, <1>2, <1>3, <1>5, <1>7, <1>8, <1>9, LeftKeeps

LEMMA SubscriptionHandled ==
    ASSUME HInv, NEW h, Subscribe(h) \/ ClearSubscribers(h)
    PROVE  HInv'
<1> DEFINE todo == handlers[h].todo
           rest == Tail(handlers[h].todo)
           c == handlers[h].id
<1>1. /\ server = "up" /\ h \in Running /\ handlers[h] \in Request /\ c \in Ids
      /\ todo \in Shapes /\ Head(todo) \in {"subscribe", "clear"} /\ Left(h, rest)
      /\ Subscribe(h) => Head(todo) = "subscribe"
      /\ ClearSubscribers(h) => Head(todo) = "clear"
  BY Turn DEF Subscribe, ClearSubscribers
<1>2. /\ rest # <<"subscribe">> /\ todo # <<"emit">>
      /\ rest \in Copying <=> todo \in Copying
      /\ rest \in Failing <=> todo \in Failing
      /\ Head(todo) = "subscribe" => todo = <<"subscribe">> /\ todo \notin Clearing
  <2>1. /\ rest # <<"subscribe">>
        /\ rest \in Copying <=> todo \in Copying /\ Head(todo) # "copy"
        /\ rest \in Failing <=> todo \in Failing /\ Head(todo) # "settleFailed"
        /\ todo = <<"emit">> => Head(todo) = "emit"
        /\ Head(todo) = "subscribe" => todo = <<"subscribe">>
    BY <1>1, Heads
  <2>2. <<"subscribe">> \notin Clearing
    BY DEF Clearing
  <2> HIDE DEF rest, todo
  <2> QED BY <1>1, <2>1, <2>2
<1>3. /\ Subscribe(h) => subscribed' = subscribed \cup {c}
      /\ ClearSubscribers(h) => subscribed' = subscribed \ {c}
      /\ UNCHANGED <<server, connection, row, copy, prepares, timers, overlapped, lost>>
  BY DEF Subscribe, ClearSubscribers
<1>4. ~overlapped[c] =>
        /\ todo \in Copying => handlers[h].image = row[c]
        /\ todo \notin Copying => copy[c] = row[c]
        /\ row[c].life = "closed" =>
              todo \in Clearing \/ (c \notin subscribed /\ todo # <<"subscribe">>)
  BY <1>1, Only
<1>5. ~overlapped[c] =>
        /\ rest \in Copying => handlers[h].image = row[c]
        /\ rest \notin Copying => copy'[c] = row[c]
        /\ row[c].life = "closed" => rest \in Clearing \/ c \notin subscribed'
  BY <1>1, <1>2, <1>3, <1>4
<1>6. ASSUME NEW k \in Preparing' \ lost'
      PROVE  /\ k \in Preparing \ lost /\ timers'[k] = timers[k]
             /\ handlers[h].todo # <<"emit">> \/ KeyOf(h) # k
             /\ k[1] = handlers[h].id /\ handlers[h].todo \in Failing => rest \in Failing
  BY <1>2, <1>3 DEF Preparing
<1>7. /\ prepares' \in [Keys -> [status : {"absent", "preparing", "ready", "failed"},
                                 nonce : 0 .. MaxConnection]]
      /\ copy' \in [Ids -> Row] /\ subscribed' \subseteq Ids /\ lost' \subseteq Keys
      /\ timers' \in [Keys -> {"none", "armed", "ready", "failed"}]
      /\ \A d \in Ids \ {c} : copy'[d] = copy[d] /\ (d \in subscribed' <=> d \in subscribed)
  BY <1>1, <1>3 DEF HInv, Typed
<1> HIDE DEF rest
<1> QED BY <1>1, <1>2, <1>3, <1>5, <1>6, <1>7, LeftKeeps

(* Prepares are settled, by the queue, by a close or a change of hands,    *)
(* by an answer.                                                           *)
LEMMA SettlesHandled ==
    ASSUME HInv, NEW h,
           \/ SettleReady(h) \/ SettleFailed(h)
           \/ Answer(h, "answerReady", "ready") \/ Answer(h, "answerFailed", "failed")
    PROVE  HInv'
<1>1. ASSUME SettleReady(h) PROVE HInv'
  <2>1. PICK keys : prepares' = Settled(keys, "ready")
    BY <1>1 DEF SettleReady
  <2> QED BY <1>1, <2>1, SettledIs, SettlingKeeps DEF SettleReady
<1>2. ASSUME SettleFailed(h) PROVE HInv'
  <2> DEFINE keys == {handlers[h].id} \X (1 .. MaxVersion) \X Intents
  <2>1. prepares' = Settled(keys, "failed")
    BY <1>2 DEF SettleFailed
  <2>2. /\ prepares' \in [Keys -> [status : {"absent", "preparing", "ready", "failed"},
                                   nonce : 0 .. MaxConnection]]
        /\ Preparing' = Preparing \ keys
    BY <2>1, SettledIs
  <2>3. \A k \in Preparing' : k[1] # handlers[h].id
    BY <2>2 DEF Preparing, Keys
  <2> HIDE DEF keys
  <2> QED BY <1>2, <2>2, <2>3, SettlingKeeps DEF SettleFailed
<1>3. ASSUME NEW task \in {"answerReady", "answerFailed"}, NEW status \in {"ready", "failed"},
             Answer(h, task, status)
      PROVE  HInv'
  <2>1. prepares' = Settled({KeyOf(h)}, status)
    BY <1>3 DEF Answer
  <2>2. /\ prepares' \in [Keys -> [status : {"absent", "preparing", "ready", "failed"},
                                   nonce : 0 .. MaxConnection]]
        /\ Preparing' \subseteq Preparing
    BY <2>1, SettledIs
  <2> QED BY <1>3, <2>2, SettlingKeeps DEF Answer
<1> QED BY <1>1, <1>2, <1>3

(* playback.prepare: the row decides, and the device is asked next.        *)
LEMMA CreateHandled ==
    ASSUME IInv, HInv, NEW h, Create(h)
    PROVE  HInv'
<1> DEFINE todo == handlers[h].todo
           c == handlers[h].id
           k0 == KeyOf(h)
           Statuses == {"absent", "preparing", "ready", "failed"}
<1>1. /\ server = "up" /\ h \in Running /\ handlers[h] \in Request /\ c \in Ids
      /\ todo \in Shapes /\ Head(todo) = "create"
  <2>1. server = "up" /\ h \in Running /\ Head(todo) = "create"
    BY DEF Create, Todo
  <2>2. handlers[h] \in Request
    BY <2>1 DEF HInv, Typed, Running
  <2> QED BY <2>1, <2>2 DEF Request, Handler
<1>2. todo = <<"create">> /\ Tail(todo) = <<>>
  <2>1. todo = <<Head(todo)>> /\ Tail(todo) = <<>>
    BY <1>1, Heads
  <2> QED BY <1>1, <2>1
<1>3. todo \in Keyed /\ todo # <<"emit">> /\ todo \notin Failing /\ todo \notin Copying
      /\ todo \notin Clearing
  BY <1>2 DEF Keyed, Failing, Copying, Clearing
<1>4. k0 \in Keys /\ k0[1] = c
  BY <1>1, <1>3 DEF Request, KeyOf
<1>5. UNCHANGED <<server, connection, row, copy, timers, subscribed, overlapped, lost>>
  BY DEF Create
<1>6. /\ copy' \in [Ids -> Row] /\ subscribed' \subseteq Ids /\ lost' \subseteq Keys
      /\ timers' \in [Keys -> {"none", "armed", "ready", "failed"}]
      /\ prepares \in [Keys -> [status : Statuses, nonce : 0 .. MaxConnection]]
      /\ \A d \in Ids \ {c} : copy'[d] = copy[d] /\ (d \in subscribed' <=> d \in subscribed)
  BY <1>5 DEF HInv, Typed
<1>7. ~overlapped[c] => copy'[c] = row[c] /\ (row[c].life = "closed" => c \notin subscribed')
  BY <1>1, <1>3, <1>5, Only
<1>8. ASSUME NEW rest \in {<<>>, <<"emit">>}, Left(h, rest),
             prepares' \in [Keys -> [status : Statuses, nonce : 0 .. MaxConnection]],
             \A k \in Preparing' \ lost' :
                \/ k \in Preparing
                \/ k = k0 /\ rest = <<"emit">> /\ row[c].life = "active" /\ row[c].epoch = k0[2]
      PROVE  HInv'
  <2>1. rest # <<"subscribe">> /\ rest \notin Copying /\ rest \notin Clearing
    BY DEF Copying, Clearing
  <2>2. \A k \in Preparing' \ lost' :
            \/ timers'[k] # "none"
            \/ k = KeyOf(h) /\ rest = <<"emit">>
            \/ /\ k \in Preparing \ lost /\ timers'[k] = timers[k]
               /\ handlers[h].todo # <<"emit">> \/ KeyOf(h) # k
    BY <1>3, <1>5, <1>8
  <2>3. \A k \in Preparing' \ lost' :
            \/ row[k[1]].life = "active" /\ row[k[1]].epoch = k[2]
            \/ /\ k \in Preparing \ lost
               /\ k[1] = handlers[h].id /\ handlers[h].todo \in Failing => rest \in Failing
    BY <1>3, <1>4, <1>5, <1>8
  <2>4. ~overlapped[c] =>
            /\ rest \in Copying => handlers[h].image = row[c]
            /\ rest \notin Copying => copy'[c] = row[c]
            /\ row[c].life = "closed" => rest \in Clearing \/ c \notin subscribed'
    BY <1>7, <2>1
  <2> HIDE DEF k0
  <2> QED BY <1>1, <1>5, <1>6, <1>8, <2>1, <2>2, <2>3, <2>4, LeftKeeps
<1>9. CASE ~Creates(h)
  <2>1. Finish(h) /\ UNCHANGED prepares
    BY <1>9 DEF Create
  <2>2. Left(h, <<>>)
    BY <1>1, <1>2, <2>1, Finishes DEF HInv
  <2> QED BY <1>6, <1>8, <2>1, <2>2 DEF Preparing
<1>10. CASE Creates(h)
  <2> DEFINE new == CreatedPrepare(h)
  <2>1. /\ prepares' = [prepares EXCEPT ![k0] = new]
        /\ IF new.status = "preparing" THEN handlers' = [handlers EXCEPT ![h].todo = <<"emit">>]
           ELSE Finish(h)
    BY <1>10 DEF Create
  <2>2. new \in [status : Statuses, nonce : 0 .. MaxConnection]
    BY <1>1 DEF CreatedPrepare, Request, Handler
  <2>3. row[c].life = "active" /\ row[c].epoch = k0[2]
    BY <1>10, <1>4 DEF Creates
  <2> HIDE DEF new
  <2>4. /\ prepares' \in [Keys -> [status : Statuses, nonce : 0 .. MaxConnection]]
        /\ \A k \in Preparing' : k \in Preparing \/ (k = k0 /\ new.status = "preparing")
    BY <1>4, <1>6, <2>1, <2>2 DEF Preparing
  <2>5. CASE new.status = "preparing"
    <3> DEFINE rest == <<"emit">>
    <3>1. rest \in Shapes /\ rest \in Seq(Tasks) /\ rest # <<>>
      BY Shaped DEF Shapes, Keyed
    <3>2. handlers' = [handlers EXCEPT ![h].todo = rest]
      BY <2>1, <2>5
    <3>3. rest \in {<<>>, <<"emit">>} /\ rest = <<"emit">>
      OBVIOUS
    <3> HIDE DEF rest
    <3>4. <<c, handlers[h].image.epoch, handlers[h].intent>> \in Keys
      BY <1>4 DEF KeyOf
    <3>5. [handlers[h] EXCEPT !.todo = rest] \in Request
      BY <1>1, <3>1, <3>4 DEF Request, Handler
    <3>6. Left(h, rest)
      BY <1>1, <3>1, <3>2, <3>5, Replaces DEF HInv
    <3> QED BY <1>8, <2>3, <2>4, <3>3, <3>6
  <2>6. CASE new.status # "preparing"
    <3>1. Left(h, <<>>)
      BY <1>1, <1>2, <2>1, <2>6, Finishes DEF HInv
    <3> QED BY <1>8, <2>4, <2>6, <3>1
  <2> QED BY <2>5, <2>6
<1> QED BY <1>9, <1>10

(* The request that goes out starts the timer, or is lost with it.         *)
LEMMA EmitHandled ==
    ASSUME IInv, HInv, NEW h, Emit(h)
    PROVE  HInv'
<1> DEFINE todo == handlers[h].todo
           c == handlers[h].id
           k0 == KeyOf(h)
<1>1. /\ server = "up" /\ h \in Running /\ handlers[h] \in Request /\ c \in Ids
      /\ todo \in Shapes /\ Head(todo) = "emit" /\ Left(h, Tail(todo))
  BY Turn DEF Emit
<1>2. todo = <<"emit">> /\ Tail(todo) = <<>>
  <2>1. todo = <<Head(todo)>> /\ Tail(todo) = <<>>
    BY <1>1, Heads
  <2> QED BY <1>1, <2>1
<1>3. todo \in Keyed /\ todo \notin Failing /\ todo \notin Copying /\ todo \notin Clearing
  BY <1>2 DEF Keyed, Failing, Copying, Clearing
<1>4. k0 \in Keys
  BY <1>1, <1>3 DEF Request, KeyOf
<1>5. /\ UNCHANGED <<server, connection, row, copy, prepares, subscribed, overlapped>>
      /\ \/ timers' = [timers EXCEPT ![k0] = "armed"] /\ lost' = lost
         \/ lost' = lost \cup {k0} /\ timers' = timers
  BY DEF Emit
<1>6. /\ copy' \in [Ids -> Row] /\ subscribed' \subseteq Ids /\ lost' \subseteq Keys
      /\ timers' \in [Keys -> {"none", "armed", "ready", "failed"}]
      /\ prepares' \in [Keys -> [status : {"absent", "preparing", "ready", "failed"},
                                 nonce : 0 .. MaxConnection]]
      /\ \A d \in Ids \ {c} : copy'[d] = copy[d] /\ (d \in subscribed' <=> d \in subscribed)
  BY <1>4, <1>5 DEF HInv, Typed
<1>7. ASSUME NEW k \in Preparing' \ lost'
      PROVE  /\ k \in Preparing \ lost
             /\ k = k0 => timers'[k] # "none"
             /\ k # k0 => timers'[k] = timers[k]
  <2>1. timers \in [Keys -> {"none", "armed", "ready", "failed"}] /\ k \in Preparing
    BY <1>5 DEF HInv, Typed, Preparing
  <2> HIDE DEF k0
  <2>2. CASE timers' = [timers EXCEPT ![k0] = "armed"] /\ lost' = lost
    BY <1>4, <2>1, <2>2
  <2>3. CASE lost' = lost \cup {k0} /\ timers' = timers
    BY <2>1, <2>3
  <2> QED BY <1>5, <2>2, <2>3
<1>8. ASSUME NEW k \in Preparing' \ lost'
      PROVE  \/ timers'[k] # "none"
             \/ k = KeyOf(h) /\ <<>> = <<"emit">>
             \/ /\ k \in Preparing \ lost /\ timers'[k] = timers[k]
                /\ handlers[h].todo # <<"emit">> \/ KeyOf(h) # k
  BY <1>7
<1>9. ASSUME NEW k \in Preparing' \ lost'
      PROVE  \/ row[k[1]].life = "active" /\ row[k[1]].epoch = k[2]
             \/ /\ k \in Preparing \ lost
                /\ k[1] = handlers[h].id /\ handlers[h].todo \in Failing => <<>> \in Failing
  BY <1>3, <1>7
<1>10. ~overlapped[c] =>
            /\ <<>> \in Copying => handlers[h].image = row[c]
            /\ <<>> \notin Copying => copy'[c] = row[c]
            /\ row[c].life = "closed" => <<>> \in Clearing \/ c \notin subscribed'
  <2>1. <<>> \notin Copying
    BY DEF Copying
  <2> QED BY <1>1, <1>3, <1>5, <2>1, Only
<1>11. <<>> # <<"subscribe">> /\ Left(h, <<>>)
  BY <1>1, <1>2
<1> HIDE DEF k0
<1> QED BY <1>1, <1>5, <1>6, <1>8, <1>9, <1>10, <1>11, LeftKeeps

LEMMA TasksHandled ==
    ASSUME IInv, HInv, NEW h, Continues(h)
    PROVE  HInv'
BY WriteCopyHandled, SubscriptionHandled, SettlesHandled, CreateHandled, EmitHandled DEF Continues

-----------------------------------------------------------------------------
(* What leaves the handlers alone.                                         *)
LEMMA StillKeeps ==
    ASSUME HInv, UNCHANGED <<server, handlers, row, overlapped, lost>>, Typed',
           Preparing' \subseteq Preparing,
           \A k \in Preparing' : timers[k] # "none" => timers'[k] # "none",
           \A c \in Ids : copy[c] = row[c] => copy'[c] = row[c],
           subscribed' \subseteq subscribed
    PROVE  HInv'
<1>1. PreparingIsTimed'
  BY DEF HInv, PreparingIsTimed, KeyOf, Running
<1>2. PreparingIsCurrent'
  BY DEF HInv, PreparingIsCurrent, Running
<1>3. ASSUME NEW c \in Ids PROVE Alone(c)'
  <2>1. Alone(c)
    BY DEF HInv
  <2> QED BY <2>1 DEF Alone, Running
<1> QED BY <1>1, <1>2, <1>3 DEF HInv

LEMMA OthersHandled ==
    ASSUME IInv, HInv,
           \/ \E s \in Sessions : Register(s)
           \/ Disconnect
           \/ \E k \in Keys : TimerReads(k) \/ TimerSettles(k)
           \/ \E c \in Ids, e \in 1 .. MaxVersion : CommandsSettle(c, e)
           \/ \E c \in Ids : Unsubscribe(c)
           \/ UNCHANGED vars
    PROVE  HInv'
<1>1. CASE UNCHANGED vars \/ \E c \in Ids, e \in 1 .. MaxVersion : CommandsSettle(c, e)
  <2>1. UNCHANGED <<server, connection, handlers, row, copy, prepares, timers, subscribed,
                    overlapped, lost>>
    BY <1>1 DEF vars, CommandsSettle
  <2> QED BY <2>1, StillKeeps DEF HInv, Typed, Preparing
<1>2. CASE Disconnect \/ \E s \in Sessions : Register(s)
  <2>1. UNCHANGED <<server, handlers, row, copy, prepares, timers, subscribed, overlapped, lost>>
    BY <1>2 DEF Disconnect, Register
  <2>2. connection'.nonce <= MaxConnection
    BY <1>2, ContextsAssumption DEF Disconnect, Register, IInv, Connection, HInv, Typed
  <2> QED BY <2>1, <2>2, StillKeeps DEF HInv, Typed, Preparing
<1>3. ASSUME NEW k \in Keys, TimerReads(k) PROVE HInv'
  <2>1. /\ timers' = [timers EXCEPT ![k] = Outcome(k)]
        /\ UNCHANGED <<server, connection, row, copy, prepares, subscribed, handlers,
                       overlapped, lost>>
        /\ timers \in [Keys -> {"none", "armed", "ready", "failed"}]
    BY <1>3 DEF TimerReads, HInv, Typed
  <2>2. Outcome(k) \in {"none", "ready", "failed"} /\ (k \in Preparing => Outcome(k) # "none")
    BY DEF Outcome, Verdict
  <2> HIDE DEF Outcome
  <2>3. /\ timers' \in [Keys -> {"none", "armed", "ready", "failed"}]
        /\ \A j \in Preparing : timers[j] # "none" => timers'[j] # "none"
    BY <2>1, <2>2 DEF Preparing
  <2>4. Typed' /\ Preparing' = Preparing
    BY <2>1, <2>3 DEF HInv, Typed, Preparing
  <2> QED BY <2>1, <2>3, <2>4, StillKeeps
<1>4. ASSUME NEW k \in Keys, TimerSettles(k) PROVE HInv'
  <2>1. /\ timers[k] \in {"ready", "failed"}
        /\ prepares' = Settled({k}, timers[k]) /\ timers' = [timers EXCEPT ![k] = "none"]
        /\ UNCHANGED <<server, connection, row, copy, subscribed, handlers, overlapped, lost>>
        /\ timers \in [Keys -> {"none", "armed", "ready", "failed"}]
    BY <1>4 DEF TimerSettles, HInv, Typed
  <2>2. /\ prepares' \in [Keys -> [status : {"absent", "preparing", "ready", "failed"},
                                   nonce : 0 .. MaxConnection]]
        /\ Preparing' = Preparing \ {k}
    BY <2>1, SettledIs
  <2>3. /\ timers' \in [Keys -> {"none", "armed", "ready", "failed"}]
        /\ \A j \in Preparing' : timers[j] # "none" => timers'[j] # "none"
    BY <2>1, <2>2 DEF Preparing
  <2>4. Typed'
    BY <2>1, <2>2, <2>3 DEF HInv, Typed
  <2> QED BY <2>1, <2>2, <2>3, <2>4, StillKeeps
<1>5. ASSUME NEW c \in Ids, Unsubscribe(c) PROVE HInv'
  <2>1. /\ Look(c) /\ subscribed' = subscribed \ {c}
        /\ UNCHANGED <<server, connection, row, prepares, timers, handlers, overlapped, lost>>
    BY <1>5 DEF Unsubscribe
  <2>2. /\ copy' \in [Ids -> Row] /\ \A d \in Ids : copy[d] = row[d] => copy'[d] = row[d]
    BY <2>1, Looked
  <2> QED BY <2>1, <2>2, StillKeeps DEF HInv, Typed, Preparing
<1> QED BY <1>1, <1>2, <1>3, <1>4, <1>5

(* The process ends with all its handlers, and starts with what is stored. *)
LEMMA CrashHandled ==
    ASSUME IInv, HInv, Crash
    PROVE  HInv'
<1>1. /\ server' = "down" /\ copy' = [c \in Ids |-> NoRow] /\ timers' = [k \in Keys |-> "none"]
      /\ subscribed' = {} /\ handlers' = <<>> /\ overlapped' = [c \in Ids |-> FALSE]
      /\ lost' = lost \cup Preparing /\ UNCHANGED <<row, prepares>>
      /\ connection'.nonce = connection.nonce
  BY DEF Crash, IInv, Connection
<1>2. NoRow \in Row
  BY ContextsAssumption, Numbers DEF NoRow, Row, Cursors
<1>3. handlers' \in Seq(Request) /\ Len(handlers') = 0 /\ Running' = {}
  BY <1>1 DEF Running
<1>4. Typed'
  BY <1>1, <1>2, <1>3, ContextsAssumption DEF HInv, Typed, Preparing
<1>5. Preparing' \ lost' = {}
  BY <1>1 DEF Preparing
<1>6. \A c \in Ids : Alone(c)'
  BY <1>1, <1>3 DEF Alone
<1> QED BY <1>4, <1>5, <1>6 DEF HInv, PreparingIsCurrent, PreparingIsTimed

LEMMA StartHandled ==
    ASSUME IInv, HInv, Start
    PROVE  HInv'
<1>1. /\ server' = "up" /\ copy' = row /\ handlers = <<>> /\ subscribed = {}
      /\ UNCHANGED <<connection, row, prepares, timers, subscribed, handlers, overlapped, lost>>
  BY DEF Start, HInv, Typed
<1>2. row \in [Ids -> Row]
  BY ContextRow DEF IInv
<1>3. Typed'
  BY <1>1, <1>2 DEF HInv, Typed
<1>4. Running' = {} /\ Running = {}
  BY <1>1 DEF Running
<1>5. \A c \in Ids : Alone(c)'
  BY <1>1, <1>4 DEF Alone
<1>6. PreparingIsCurrent' /\ PreparingIsTimed'
  BY <1>1, <1>4 DEF HInv, PreparingIsCurrent, PreparingIsTimed, Preparing
<1> QED BY <1>3, <1>5, <1>6 DEF HInv

LEMMA InitiallyHandled == Init => HInv
<1> SUFFICES ASSUME Init PROVE HInv
  OBVIOUS
<1>1. NoRow \in Row
  BY ContextsAssumption, Numbers DEF NoRow, Row, Cursors
<1>2. Running = {} /\ handlers \in Seq(Request) /\ Len(handlers) = 0
  BY DEF Init, Running
<1>3. Typed
  BY <1>1, <1>2, ContextsAssumption DEF Init, Typed, NoPrepare
<1>4. Preparing = {}
  BY DEF Init, Preparing, NoPrepare
<1>5. \A c \in Ids : Alone(c)
  BY <1>2 DEF Alone, Init, NoRow
<1> QED BY <1>3, <1>4, <1>5 DEF HInv, PreparingIsCurrent, PreparingIsTimed

THEOREM HandlersInvariant == Spec => []HInv
<1>1. IInv /\ IInv' /\ HInv /\ [Next]_vars => HInv'
  <2> SUFFICES ASSUME IInv, IInv', HInv, [Next]_vars PROVE HInv'
    OBVIOUS
  <2>1. CASE Changes \/ Reads
    BY <2>1, ChangesHandled, ReadsHandled
  <2>2. CASE \E h \in 1 .. MaxHandlers : Continues(h)
    BY <2>2, TasksHandled
  <2>3. CASE Crash \/ Start
    BY <2>3, CrashHandled, StartHandled
  <2> QED BY <2>1, <2>2, <2>3, OthersHandled DEF Next
<1> QED BY InitiallyHandled, ContextsInvariant, <1>1, PTL DEF Spec

(* Every variable has its type: no index, cursor or nonce leaves its range *)
(* and no handler is left with nothing to do.                              *)
THEOREM TypeCorrect == Spec => []TypeOK
<1>1. IInv /\ HInv => TypeOK
  <2> SUFFICES ASSUME IInv, HInv PROVE TypeOK
    OBVIOUS
  <2>1. row \in [Ids -> Row] /\ commands \in [Ids -> SUBSET (1 .. MaxVersion)]
    BY DEF IInv, Sound
  <2>2. handlers \in Seq(Handler)
    <3>1. Len(handlers) \in Nat /\ \A h \in 1 .. Len(handlers) : handlers[h] \in Handler
      <4>1. \A h \in 1 .. Len(handlers) : handlers[h] \in Request
        BY DEF HInv, Typed
      <4>2. Request \subseteq Handler
        BY DEF Request
      <4> QED BY <4>1, <4>2 DEF HInv, Typed
    <3>2. handlers = [h \in 1 .. Len(handlers) |-> handlers[h]]
      BY DEF HInv, Typed
    <3> QED BY <3>1, <3>2
  <2>3. connection \in [session : Sessions \cup {0}, nonce : 0 .. MaxConnection]
    BY ContextsAssumption DEF IInv, Connection, HInv, Typed
  <2> QED BY <2>1, <2>2, <2>3 DEF HInv, Typed, TypeOK
<1> QED BY ContextsInvariant, HandlersInvariant, <1>1, PTL

(* No prepare outlives the epoch it was made in, unless the process dies   *)
(* or an emit raises: a close and a change of hands settle what they leave.*)
THEOREM PreparesAreCurrent == Spec => []PreparingIsCurrent
<1>1. HInv => PreparingIsCurrent
  BY DEF HInv
<1> QED BY HandlersInvariant, <1>1, PTL

(* No prepare waits without a timer, whatever the device answers when.     *)
THEOREM PreparesAreTimed == Spec => []PreparingIsTimed
<1>1. HInv => PreparingIsTimed
  BY DEF HInv
<1> QED BY HandlersInvariant, <1>1, PTL

(* A change that ran alone leaves the copy equal to the row and a closed   *)
(* context without subscribers, whatever was left there before.            *)
THEOREM CopiesAgree == Spec => []AloneAgrees
BY HandlersInvariant, Agrees, PTL

=============================================================================
