---------------------------- MODULE Server_proofs ----------------------------
(***************************************************************************)
(* Proofs about the two processes of the server, each on its own: the      *)
(* request path of the web process, for every number of connections,       *)
(* requests and threads, every lifetime of the cache and every emit limit; *)
(* and the daemon, for every set of files and songs and any number of      *)
(* changes, scans and commands.                                            *)
(*                                                                         *)
(* The request path: the two counters of StrictV2Safety are shown to count *)
(* the threads that hold something.  A step of one thread changes what     *)
(* that thread holds, so it is enough to compare the change of a counter   *)
(* with the change of that thread (CountStep); the rest is the discipline  *)
(* of one thread.                                                          *)
(*                                                                         *)
(* The daemon: JukeboxInv says what a command in progress still may do;    *)
(* LibraryInv follows, file by file, the change of the disk that has not   *)
(* reached the tracks yet through the notes, the queue, the worker and the *)
(* scan.                                                                   *)
(***************************************************************************)
EXTENDS RequestPath, Daemon, FiniteSetTheorems, SequenceTheorems, TLAPS

One(b) == IF b THEN 1 ELSE 0

(* What one thread counts for.                                             *)
Admits(t) == IF t.admitted THEN 1 ELSE 0
Sends(t, c) == IF t.pc = "emitting" /\ t.key[1] = c THEN 1 ELSE 0
Pushes(t, c) == IF t.push = c THEN 1 ELSE 0

LEMMA CountsType ==
  ASSUME NEW t, NEW c
  PROVE  Admits(t) \in {0, 1} /\ Sends(t, c) \in {0, 1} /\ Pushes(t, c) \in {0, 1}
  BY DEF Admits, Sends, Pushes

Emitting(c) == {h \in Handlers : handler[h].pc = "emitting" /\ handler[h].key[1] = c}
Pushing(c) == {h \in Handlers : handler[h].push = c}

(* What a thread holds at each point of on_message.                        *)
Discipline(t) ==
    /\ t.pc # "idle" => t.key \in Keys /\ t.content \in Contents
    /\ t.pc \in {"running", "finishing"} => t.admitted
    /\ t.admitted => t.pc \in {"running", "answering", "stored", "emitting", "finishing"}
    /\ t.push # NoConnection => t.pc \in {"running", "answering"}

(* Requests are only active behind an open gate, and none is after a       *)
(* completed drain.                                                        *)
Quiet ==
    /\ active > 0 => gate = "ready"
    /\ shutdown \in {"drained", "closed clean"} => active = 0

IInv ==
    /\ TypeOK
    /\ \A h \in Handlers : Discipline(handler[h])
    /\ ActiveIsExact
    /\ EmitsBalance
    /\ InFlightHasWorker
    /\ Quiet

-----------------------------------------------------------------------------
(***************************************************************************)
(* Counting.                                                               *)
(***************************************************************************)
LEMMA CountStep ==
  ASSUME NEW S, NEW T, NEW h, IsFiniteSet(S), S \ {h} = T \ {h}
  PROVE  /\ Cardinality(S) \in Nat /\ Cardinality(T) \in Nat
         /\ Cardinality(T) = Cardinality(S) + One(h \in T) - One(h \in S)
         /\ h \in S => Cardinality(S) > 0
<1> DEFINE U == S \ {h}
<1>1. /\ IsFiniteSet(U)
      /\ Cardinality(U) = IF h \in S THEN Cardinality(S) - 1 ELSE Cardinality(S)
  BY FS_RemoveElement
<1>2. /\ IsFiniteSet(U \cup {h})
      /\ Cardinality(U \cup {h}) = Cardinality(U) + 1
  <2>1. h \notin U
    OBVIOUS
  <2> QED
    BY <1>1, <2>1, FS_AddElement
<1>3. Cardinality(S) \in Nat /\ Cardinality(U) \in Nat
  BY <1>1, FS_CardinalityType
<1>4. CASE h \in T
  <2>1. T = U \cup {h}
    BY <1>4
  <2> QED
    BY <1>1, <1>2, <1>3, <1>4, <2>1 DEF One
<1>5. CASE h \notin T
  <2>1. T = U
    BY <1>5
  <2> QED
    BY <1>1, <1>3, <1>5, <2>1 DEF One
<1> QED
  BY <1>4, <1>5

LEMMA HandlersFinite ==
  /\ IsFiniteSet(Admitted)
  /\ \A c : IsFiniteSet(Emitting(c)) /\ IsFiniteSet(Pushing(c))
<1>1. IsFiniteSet(Handlers)
  BY RequestConstants
<1>2. /\ Admitted \in SUBSET Handlers
      /\ \A c : Emitting(c) \in SUBSET Handlers /\ Pushing(c) \in SUBSET Handlers
  BY DEF Admitted, Emitting, Pushing
<1> QED
  BY <1>1, <1>2, FS_Subset

OthersKept(h) == \A g \in Handlers : g # h => handler'[g] = handler[g]

LEMMA AdmittedStep ==
  ASSUME NEW h \in Handlers, OthersKept(h), ActiveIsExact,
         active' = active + Admits(handler'[h]) - Admits(handler[h])
  PROVE  ActiveIsExact' /\ active' \in Nat /\ (handler[h].admitted => active > 0)
<1>1. Admitted \ {h} = Admitted' \ {h}
  BY DEF Admitted, OthersKept
<1>2. /\ (h \in Admitted <=> handler[h].admitted)
      /\ (h \in Admitted' <=> handler'[h].admitted)
  BY DEF Admitted
<1> QED
  BY <1>1, <1>2, CountStep, HandlersFinite DEF ActiveIsExact, One, Admits

LEMMA EmitsStep ==
  ASSUME NEW h \in Handlers, OthersKept(h), EmitsBalance, NEW c \in Connections,
         emits'[c] = emits[c] + Sends(handler'[h], c) - Sends(handler[h], c)
                               + Pushes(handler'[h], c) - Pushes(handler[h], c)
  PROVE  /\ emits'[c] = Cardinality(Emitting(c)') + Cardinality(Pushing(c)')
         /\ emits'[c] \in Nat
         /\ handler[h].pc = "emitting" /\ handler[h].key[1] = c => emits[c] > 0
         /\ handler[h].push = c => emits[c] > 0
<1>1. /\ Emitting(c) \ {h} = Emitting(c)' \ {h}
      /\ Pushing(c) \ {h} = Pushing(c)' \ {h}
  BY DEF Emitting, Pushing, OthersKept
<1>2. /\ (h \in Emitting(c) <=> handler[h].pc = "emitting" /\ handler[h].key[1] = c)
      /\ (h \in Emitting(c)' <=> handler'[h].pc = "emitting" /\ handler'[h].key[1] = c)
      /\ (h \in Pushing(c) <=> handler[h].push = c)
      /\ (h \in Pushing(c)' <=> handler'[h].push = c)
  BY DEF Emitting, Pushing
<1>3. emits[c] = Cardinality(Emitting(c)) + Cardinality(Pushing(c))
  BY DEF EmitsBalance, Emitting, Pushing
<1>4. /\ Cardinality(Emitting(c)) \in Nat /\ Cardinality(Emitting(c)') \in Nat
      /\ Cardinality(Emitting(c)') = Cardinality(Emitting(c))
            + One(h \in Emitting(c)') - One(h \in Emitting(c))
      /\ h \in Emitting(c) => Cardinality(Emitting(c)) > 0
  BY <1>1, CountStep, HandlersFinite
<1>5. /\ Cardinality(Pushing(c)) \in Nat /\ Cardinality(Pushing(c)') \in Nat
      /\ Cardinality(Pushing(c)') = Cardinality(Pushing(c))
            + One(h \in Pushing(c)') - One(h \in Pushing(c))
      /\ h \in Pushing(c) => Cardinality(Pushing(c)) > 0
  BY <1>1, CountStep, HandlersFinite
<1> QED
  BY <1>2, <1>3, <1>4, <1>5 DEF One, Sends, Pushes

-----------------------------------------------------------------------------
(***************************************************************************)
(* One thread.  Becomes(h, t) is a step in which only thread h moves.      *)
(***************************************************************************)
Becomes(h, t) ==
    /\ handler' \in [Handlers -> Thread]
    /\ handler'[h] = t
    /\ OthersKept(h)

ActiveFollows(h) ==
    active' = active + Admits(handler'[h]) - Admits(handler[h])

EmitsFollow(h) ==
    /\ emits' = [c \in Connections |-> emits'[c]]
    /\ \A c \in Connections :
        /\ emits'[c] <= MaxPendingEmits
        /\ emits'[c] = emits[c] + Sends(handler'[h], c) - Sends(handler[h], c)
                               + Pushes(handler'[h], c) - Pushes(handler[h], c)

Local(h) ==
    /\ handler' \in [Handlers -> Thread]
    /\ OthersKept(h)
    /\ Discipline(handler'[h])
    /\ ActiveFollows(h)
    /\ EmitsFollow(h)

LEMMA IdleType == Idle \in Thread /\ Discipline(Idle)
  BY RequestConstants DEF Idle, Thread, NoKey, Ages, Discipline

LEMMA BecomesThread ==
  ASSUME TypeOK, NEW h \in Handlers, NEW t \in Thread,
         handler' = [handler EXCEPT ![h] = t]
  PROVE  Becomes(h, t)
  BY DEF TypeOK, Becomes, OthersKept

LEMMA GoesThread ==
  ASSUME TypeOK, NEW h \in Handlers,
         NEW pc \in {"idle", "reserved", "stored", "emitting", "finishing"}, Goes(h, pc)
  PROVE  Becomes(h, IF pc = "idle" THEN Idle ELSE [handler[h] EXCEPT !.pc = pc])
<1>1. handler[h] \in Thread
  BY DEF TypeOK
<1>2. (IF pc = "idle" THEN Idle ELSE [handler[h] EXCEPT !.pc = pc]) \in Thread
  BY <1>1, IdleType DEF Thread
<1> QED
  BY <1>2, BecomesThread DEF Goes, TypeOK

(* A step that moves neither counter and lets the thread hold the same.    *)
LEMMA HoldsSame ==
  ASSUME TypeOK, NEW h \in Handlers, NEW t, Becomes(h, t), Discipline(t),
         UNCHANGED <<active, emits>>,
         t.admitted = handler[h].admitted, t.push = handler[h].push,
         t.pc # "emitting", handler[h].pc # "emitting"
  PROVE  Local(h)
<1>1. active' = active /\ emits' = emits /\ handler'[h] = t
  BY DEF Becomes
<1>2. ActiveFollows(h)
  <2>1. Admits(handler'[h]) = Admits(handler[h]) /\ Admits(handler[h]) \in {0, 1}
    BY <1>1, CountsType DEF Admits
  <2>2. active \in Nat
    BY DEF TypeOK
  <2> QED
    BY <1>1, <2>1, <2>2 DEF ActiveFollows
<1>3. ASSUME NEW c \in Connections
      PROVE  /\ Sends(handler'[h], c) = 0 /\ Sends(handler[h], c) = 0
             /\ Pushes(handler'[h], c) = Pushes(handler[h], c)
             /\ Pushes(handler[h], c) \in {0, 1}
             /\ emits[c] \in 0..MaxPendingEmits
  BY <1>1, CountsType DEF Sends, Pushes, TypeOK
<1>4. EmitsFollow(h)
  <2>1. emits' = [c \in Connections |-> emits'[c]]
    BY <1>1 DEF TypeOK
  <2>2. ASSUME NEW c \in Connections
        PROVE  /\ emits'[c] <= MaxPendingEmits
               /\ emits'[c] = emits[c] + Sends(handler'[h], c) - Sends(handler[h], c)
                               + Pushes(handler'[h], c) - Pushes(handler[h], c)
    BY <1>1, <1>3, RequestConstants
  <2> QED
    BY <2>1, <2>2 DEF EmitsFollow
<1> QED
  BY <1>2, <1>4 DEF Local, Becomes

LEMMA AnswersWithLocal ==
  ASSUME TypeOK, NEW h \in Handlers, Discipline(handler[h]),
         handler[h].pc \in {"reserved", "running"}, NEW answer \in Answers,
         AnswersWith(h, answer), UNCHANGED <<active, emits>>
  PROVE  Local(h)
<1> DEFINE t == [handler[h] EXCEPT !.pc = "answering", !.answer = answer]
<1>1. handler[h] \in Thread
  BY DEF TypeOK
<1>2. t \in Thread
  BY <1>1 DEF Thread
<1>3. handler' = [handler EXCEPT ![h] = t]
  BY DEF AnswersWith
<1>4. Becomes(h, t)
  BY <1>2, <1>3, BecomesThread
<1>5. /\ Discipline(t) /\ t.admitted = handler[h].admitted /\ t.push = handler[h].push
      /\ t.pc # "emitting" /\ handler[h].pc # "emitting"
  BY <1>1 DEF Discipline, Thread
<1> HIDE DEF t
<1> QED
  BY <1>4, <1>5, HoldsSame

LEMMA ReceiveLocal ==
  ASSUME IInv, NEW h \in Handlers, NEW k \in Keys, NEW content \in Contents,
         Receive(h, k, content)
  PROVE  Local(h)
<1> DEFINE t == [Idle EXCEPT !.pc = "received", !.key = k, !.content = content]
<1>1. TypeOK /\ Discipline(handler[h]) /\ handler[h] \in Thread
  BY DEF IInv, TypeOK
<1>2. t \in Thread /\ Discipline(t)
  BY IdleType DEF Idle, Thread, Discipline
<1>3. Becomes(h, t)
  BY <1>1, <1>2, BecomesThread DEF Receive
<1>4. /\ t.admitted = handler[h].admitted /\ t.push = handler[h].push
      /\ t.pc # "emitting" /\ handler[h].pc # "emitting"
  BY <1>1 DEF Discipline, Thread, Idle, Receive
<1>5. UNCHANGED <<active, emits>>
  BY DEF Receive
<1> HIDE DEF t
<1> QED
  BY <1>1, <1>2, <1>3, <1>4, <1>5, HoldsSame

LEMMA LookupLocal ==
  ASSUME IInv, NEW h \in Handlers, Lookup(h)
  PROVE  Local(h)
<1> DEFINE entry == Pruned[handler[h].key]
           stored(answer) == [handler[h] EXCEPT !.pc = "stored", !.answer = answer]
<1>1. TypeOK /\ Discipline(handler[h]) /\ handler[h] \in Thread
  BY DEF IInv, TypeOK
<1>2. handler[h].pc = "received" /\ UNCHANGED <<active, emits>>
  BY DEF Lookup
<1>3. /\ handler[h].key \in Keys /\ handler[h].admitted = FALSE
      /\ handler[h].push = NoConnection
  BY <1>1, <1>2 DEF Discipline, Thread
<1>4. ASSUME NEW pc \in {"idle", "reserved"}, Goes(h, pc)
      PROVE  Local(h)
  <2> DEFINE t == IF pc = "idle" THEN Idle ELSE [handler[h] EXCEPT !.pc = pc]
  <2>1. Becomes(h, t)
    BY <1>1, <1>4, GoesThread
  <2>2. /\ Discipline(t) /\ t.admitted = FALSE /\ t.push = NoConnection
        /\ t.pc # "emitting"
    BY <1>1, <1>2, <1>3, IdleType DEF Discipline, Thread, Idle
  <2> HIDE DEF t
  <2> QED
    BY <1>1, <1>2, <1>3, <2>1, <2>2, HoldsSame
<1>5. ASSUME NEW answer \in Answers \cup {"none"},
             handler' = [handler EXCEPT ![h] = stored(answer)]
      PROVE  Local(h)
  <2>1. stored(answer) \in Thread
    BY <1>1 DEF Thread
  <2>2. Becomes(h, stored(answer))
    BY <1>1, <1>5, <2>1, BecomesThread
  <2>3. /\ Discipline(stored(answer)) /\ stored(answer).admitted = FALSE
        /\ stored(answer).push = NoConnection /\ stored(answer).pc # "emitting"
    BY <1>1, <1>2, <1>3 DEF Discipline, Thread
  <2> HIDE DEF stored
  <2> QED
    BY <1>1, <1>2, <1>3, <2>2, <2>3, HoldsSame
<1>6. entry \in Entry /\ entry.answer \in Answers \cup {"none"}
  <2>1. NoEntry \in Entry
    BY RequestConstants DEF NoEntry, Entry, Ages
  <2> QED
    BY <1>1, <1>3, <2>1 DEF Pruned, TypeOK, Entry
<1>7. \/ Goes(h, "reserved") \/ Goes(h, "idle")
      \/ handler' = [handler EXCEPT ![h] = stored("conflict")]
      \/ handler' = [handler EXCEPT ![h] = stored(entry.answer)]
  BY DEF Lookup
<1> HIDE DEF stored, entry
<1> QED
  BY <1>4, <1>5, <1>6, <1>7 DEF Answers

LEMMA AnswerLocal ==
  ASSUME IInv, NEW h \in Handlers, Answer(h)
  PROVE  Local(h)
<1>1. TypeOK /\ Discipline(handler[h]) /\ handler[h] \in Thread
  BY DEF IInv, TypeOK
<1>2. /\ handler[h].pc = "answering" /\ handler[h].push = NoConnection
      /\ UNCHANGED <<active, emits>>
  BY DEF Answer
<1>3. PICK pc \in {"stored", "finishing", "idle"} :
        /\ Goes(h, pc)
        /\ pc = "idle" => ~handler[h].admitted
        /\ pc = "finishing" => handler[h].admitted
  BY DEF Answer, AfterAnswer
<1> DEFINE t == IF pc = "idle" THEN Idle ELSE [handler[h] EXCEPT !.pc = pc]
<1>4. Becomes(h, t)
  BY <1>1, <1>3, GoesThread
<1>5. /\ Discipline(t) /\ t.admitted = handler[h].admitted /\ t.push = handler[h].push
      /\ t.pc # "emitting"
  BY <1>1, <1>2, <1>3, IdleType DEF Discipline, Thread, Idle
<1> HIDE DEF t
<1> QED
  BY <1>1, <1>2, <1>4, <1>5, HoldsSame

LEMMA AdmitLocal ==
  ASSUME IInv, NEW h \in Handlers, Admit(h)
  PROVE  Local(h)
<1> DEFINE t == [handler[h] EXCEPT !.pc = "running", !.admitted = TRUE]
<1>1. TypeOK /\ Discipline(handler[h]) /\ handler[h] \in Thread /\ handler[h].pc = "reserved"
  BY DEF IInv, TypeOK, Admit
<1>2. CASE AnswersWith(h, "error") /\ UNCHANGED <<active, emits>>
  BY <1>1, <1>2, AnswersWithLocal DEF Answers
<1>3. CASE handler' = [handler EXCEPT ![h] = t] /\ active' = active + 1 /\ UNCHANGED emits
  <2>1. t \in Thread
    BY <1>1 DEF Thread
  <2>2. Becomes(h, t)
    BY <1>1, <1>3, <2>1, BecomesThread
  <2>3. /\ Discipline(t) /\ t.admitted /\ t.push = handler[h].push
        /\ t.pc # "emitting" /\ handler[h].pc # "emitting" /\ ~handler[h].admitted
    BY <1>1 DEF Discipline, Thread
  <2> HIDE DEF t
  <2>4. ActiveFollows(h)
    <3>1. Admits(handler'[h]) = 1 /\ Admits(handler[h]) = 0 /\ active \in Nat
      BY <1>1, <2>2, <2>3 DEF Admits, Becomes, TypeOK
    <3> QED
      BY <1>3, <3>1 DEF ActiveFollows
  <2>5. EmitsFollow(h)
    <3>1. ASSUME NEW c \in Connections
          PROVE  /\ Sends(handler'[h], c) = 0 /\ Sends(handler[h], c) = 0
                 /\ Pushes(handler'[h], c) = Pushes(handler[h], c)
                 /\ Pushes(handler[h], c) \in {0, 1}
                 /\ emits[c] \in 0..MaxPendingEmits
      BY <1>1, <2>2, <2>3, CountsType DEF Sends, Pushes, TypeOK, Becomes
    <3>2. emits' = [c \in Connections |-> emits'[c]]
      BY <1>1, <1>3 DEF TypeOK
    <3> QED
      BY <1>3, <3>1, <3>2, RequestConstants DEF EmitsFollow
  <2> QED
    BY <2>2, <2>3, <2>4, <2>5 DEF Local, Becomes
<1> QED
  BY <1>2, <1>3 DEF Admit

(* A thread takes or gives back one emit of connection d, and nothing else *)
(* changes hands.                                                          *)
LEMMA EmitsLocal ==
  ASSUME TypeOK, NEW h \in Handlers, NEW t, Becomes(h, t), Discipline(t),
         active' = active, t.admitted = handler[h].admitted,
         NEW d \in Connections, NEW n \in {1, -1},
         NEW v, emits' = [emits EXCEPT ![d] = v], v = emits[d] + n, v <= MaxPendingEmits,
         \A c \in Connections :
            Sends(t, c) + Pushes(t, c) =
                Sends(handler[h], c) + Pushes(handler[h], c) + (IF c = d THEN n ELSE 0)
  PROVE  Local(h)
<1>1. handler'[h] = t
  BY DEF Becomes
<1>2. ActiveFollows(h)
  <2>1. Admits(handler'[h]) = Admits(handler[h]) /\ Admits(handler[h]) \in {0, 1}
    BY <1>1, CountsType DEF Admits
  <2>2. active \in Nat
    BY DEF TypeOK
  <2> QED
    BY <2>1, <2>2 DEF ActiveFollows
<1>3. ASSUME NEW c \in Connections
      PROVE  /\ emits[c] \in 0..MaxPendingEmits
             /\ emits'[c] = IF c = d THEN v ELSE emits[c]
  BY DEF TypeOK
<1>4. ASSUME NEW c \in Connections
      PROVE  /\ emits'[c] <= MaxPendingEmits
             /\ emits'[c] = emits[c] + Sends(handler'[h], c) - Sends(handler[h], c)
                               + Pushes(handler'[h], c) - Pushes(handler[h], c)
  <2>1. /\ Sends(t, c) \in {0, 1} /\ Sends(handler[h], c) \in {0, 1}
        /\ Pushes(t, c) \in {0, 1} /\ Pushes(handler[h], c) \in {0, 1}
    BY CountsType
  <2> QED
    BY <1>1, <1>3, <2>1, RequestConstants
<1>5. emits' = [c \in Connections |-> emits'[c]]
  BY DEF TypeOK
<1>6. EmitsFollow(h)
  BY <1>4, <1>5 DEF EmitsFollow
<1> QED
  BY <1>2, <1>6 DEF Local, Becomes

LEMMA ReservePushLocal ==
  ASSUME IInv, NEW h \in Handlers, NEW d \in Connections, ReservePush(h, d)
  PROVE  Local(h)
<1> DEFINE t == [handler[h] EXCEPT !.push = d]
<1>1. /\ TypeOK /\ Discipline(handler[h]) /\ handler[h] \in Thread
      /\ handler[h].pc = "running" /\ handler[h].push = NoConnection
  BY DEF IInv, TypeOK, ReservePush
<1>2. t \in Thread
  BY <1>1 DEF Thread
<1>3. Becomes(h, t)
  BY <1>1, <1>2, BecomesThread DEF ReservePush
<1>4. /\ Discipline(t) /\ t.admitted = handler[h].admitted /\ t.push = d
      /\ t.pc = "running"
  BY <1>1 DEF Discipline, Thread
<1>5. /\ emits' = [emits EXCEPT ![d] = emits[d] + 1] /\ emits[d] + 1 <= MaxPendingEmits
      /\ active' = active
  <2>1. emits[d] \in 0..MaxPendingEmits
    BY <1>1 DEF TypeOK
  <2>2. emits[d] < MaxPendingEmits
    BY DEF ReservePush
  <2>3. emits[d] + 1 <= MaxPendingEmits
    BY <2>1, <2>2, RequestConstants
  <2> QED
    BY <2>3 DEF ReservePush
<1>6. \A c \in Connections :
        Sends(t, c) + Pushes(t, c) =
            Sends(handler[h], c) + Pushes(handler[h], c) + (IF c = d THEN 1 ELSE 0)
  BY <1>1, <1>4, RequestConstants DEF Sends, Pushes
<1> HIDE DEF t
<1> QED
  BY <1>1, <1>3, <1>4, <1>5, <1>6, EmitsLocal

LEMMA ReleasePushLocal ==
  ASSUME IInv, NEW h \in Handlers, ReleasePush(h)
  PROVE  Local(h)
<1> DEFINE t == [handler[h] EXCEPT !.push = NoConnection]
           d == handler[h].push
<1>1. /\ TypeOK /\ Discipline(handler[h]) /\ handler[h] \in Thread
      /\ handler[h].pc = "answering" /\ d # NoConnection
  BY DEF IInv, TypeOK, ReleasePush
<1>2. t \in Thread /\ d \in Connections
  BY <1>1 DEF Thread
<1>3. Becomes(h, t)
  BY <1>1, <1>2, BecomesThread DEF ReleasePush
<1>4. /\ Discipline(t) /\ t.admitted = handler[h].admitted /\ t.push = NoConnection
      /\ t.pc = "answering"
  BY <1>1 DEF Discipline, Thread
<1>5. /\ emits' = [emits EXCEPT ![d] = emits[d] - 1] /\ emits[d] - 1 <= MaxPendingEmits
      /\ emits[d] - 1 = emits[d] + (-1) /\ active' = active
  <2>1. emits[d] \in 0..MaxPendingEmits
    BY <1>1, <1>2 DEF TypeOK
  <2>2. emits[d] - 1 = emits[d] + (-1) /\ emits[d] - 1 <= MaxPendingEmits
    BY <2>1, RequestConstants
  <2> QED
    BY <2>2 DEF ReleasePush
<1>6. \A c \in Connections :
        Sends(t, c) + Pushes(t, c) =
            Sends(handler[h], c) + Pushes(handler[h], c) + (IF c = d THEN -1 ELSE 0)
  BY <1>1, <1>4, RequestConstants DEF Sends, Pushes
<1> HIDE DEF t, d
<1> QED
  BY <1>1, <1>2, <1>3, <1>4, <1>5, <1>6, EmitsLocal

LEMMA EmitLocal ==
  ASSUME IInv, NEW h \in Handlers, Emit(h)
  PROVE  Local(h)
<1> DEFINE d == handler[h].key[1]
<1>1. /\ TypeOK /\ Discipline(handler[h]) /\ handler[h] \in Thread
      /\ handler[h].pc = "stored" /\ active' = active
  BY DEF IInv, TypeOK, Emit
<1>2. handler[h].push = NoConnection /\ handler[h].key \in Keys /\ d \in Connections
  BY <1>1 DEF Discipline, Keys
<1>3. CASE emits[d] < MaxPendingEmits
  <2> DEFINE t == [handler[h] EXCEPT !.pc = "emitting"]
  <2>1. Goes(h, "emitting") /\ emits' = [emits EXCEPT ![d] = emits[d] + 1]
    BY <1>3 DEF Emit
  <2>2. Becomes(h, t)
    BY <1>1, <2>1, GoesThread
  <2>3. /\ Discipline(t) /\ t.admitted = handler[h].admitted /\ t.push = NoConnection
        /\ t.pc = "emitting" /\ t.key = handler[h].key
    BY <1>1, <1>2 DEF Discipline, Thread
  <2>4. emits[d] + 1 <= MaxPendingEmits
    <3>1. emits[d] \in 0..MaxPendingEmits
      BY <1>1, <1>2 DEF TypeOK
    <3> QED
      BY <1>3, <3>1, RequestConstants
  <2>5. \A c \in Connections :
          Sends(t, c) + Pushes(t, c) =
              Sends(handler[h], c) + Pushes(handler[h], c) + (IF c = d THEN 1 ELSE 0)
    BY <1>1, <1>2, <2>3, RequestConstants DEF Sends, Pushes
  <2> HIDE DEF t, d
  <2> QED
    BY <1>1, <1>2, <2>1, <2>2, <2>3, <2>4, <2>5, EmitsLocal
<1>4. CASE ~(emits[d] < MaxPendingEmits)
  <2> DEFINE pc == AfterAnswer(h)
             t == IF pc = "idle" THEN Idle ELSE [handler[h] EXCEPT !.pc = pc]
  <2>1. /\ Goes(h, pc) /\ pc \in {"idle", "finishing"}
        /\ pc = "idle" <=> ~handler[h].admitted
        /\ UNCHANGED <<active, emits>>
    BY <1>1, <1>4 DEF Emit, AfterAnswer
  <2> HIDE DEF pc
  <2>2. Becomes(h, t)
    BY <1>1, <2>1, GoesThread
  <2>3. /\ Discipline(t) /\ t.admitted = handler[h].admitted /\ t.push = handler[h].push
        /\ t.pc # "emitting"
    BY <1>1, <1>2, <2>1, IdleType DEF Discipline, Thread, Idle
  <2> HIDE DEF t
  <2> QED
    BY <1>1, <2>1, <2>2, <2>3, HoldsSame
<1> QED
  BY <1>3, <1>4

LEMMA EmitReturnsLocal ==
  ASSUME IInv, NEW h \in Handlers, EmitReturns(h)
  PROVE  Local(h)
<1> DEFINE d == handler[h].key[1]
           pc == AfterAnswer(h)
           t == IF pc = "idle" THEN Idle ELSE [handler[h] EXCEPT !.pc = pc]
<1>1. /\ TypeOK /\ Discipline(handler[h]) /\ handler[h] \in Thread
      /\ handler[h].pc = "emitting" /\ active' = active
  BY DEF IInv, TypeOK, EmitReturns
<1>2. handler[h].push = NoConnection /\ handler[h].key \in Keys /\ d \in Connections
  BY <1>1 DEF Discipline, Keys
<1>3. /\ Goes(h, pc) /\ pc \in {"idle", "finishing"}
      /\ pc = "idle" <=> ~handler[h].admitted
  BY DEF EmitReturns, AfterAnswer
<1> HIDE DEF pc
<1>4. Becomes(h, t)
  BY <1>1, <1>3, GoesThread
<1>5. /\ Discipline(t) /\ t.admitted = handler[h].admitted /\ t.push = NoConnection
      /\ t.pc # "emitting"
  BY <1>1, <1>2, <1>3, IdleType DEF Discipline, Thread, Idle
<1>6. /\ emits' = [emits EXCEPT ![d] = emits[d] - 1] /\ emits[d] - 1 <= MaxPendingEmits
      /\ emits[d] - 1 = emits[d] + (-1)
  <2>1. emits[d] \in 0..MaxPendingEmits
    BY <1>1, <1>2 DEF TypeOK
  <2>2. emits[d] - 1 = emits[d] + (-1) /\ emits[d] - 1 <= MaxPendingEmits
    BY <2>1, RequestConstants
  <2> QED
    BY <2>2 DEF EmitReturns
<1>7. \A c \in Connections :
        Sends(t, c) + Pushes(t, c) =
            Sends(handler[h], c) + Pushes(handler[h], c) + (IF c = d THEN -1 ELSE 0)
  BY <1>1, <1>2, <1>5, RequestConstants DEF Sends, Pushes
<1> HIDE DEF t, d
<1> QED
  BY <1>1, <1>2, <1>4, <1>5, <1>6, <1>7, EmitsLocal

LEMMA FinishLocal ==
  ASSUME IInv, NEW h \in Handlers, Finish(h)
  PROVE  Local(h)
<1>1. /\ TypeOK /\ Discipline(handler[h]) /\ handler[h] \in Thread
      /\ handler[h].pc = "finishing" /\ emits' = emits
  BY DEF IInv, TypeOK, Finish
<1>2. handler[h].push = NoConnection /\ handler[h].admitted
  BY <1>1 DEF Discipline
<1>3. Becomes(h, Idle) /\ Discipline(Idle)
  BY <1>1, IdleType, BecomesThread DEF Finish
<1>4. active > 0
  <2>1. h \in Admitted
    BY <1>2 DEF Admitted
  <2>2. Admitted \ {h} = Admitted \ {h}
    OBVIOUS
  <2>3. Cardinality(Admitted) > 0
    BY <2>1, <2>2, CountStep, HandlersFinite
  <2> QED
    BY <2>3 DEF IInv, ActiveIsExact
<1> DEFINE t == handler'[h]
<1>5. t = Idle
  BY <1>3 DEF Becomes
<1>6. t.admitted = FALSE /\ t.pc = "idle" /\ t.push = NoConnection
  BY <1>5 DEF Idle
<1> HIDE DEF t
<1>7. ActiveFollows(h)
  <2>1. Admits(t) = 0 /\ Admits(handler[h]) = 1 /\ active \in Nat
    BY <1>1, <1>2, <1>6 DEF Admits, TypeOK
  <2> QED
    BY <1>4, <2>1 DEF ActiveFollows, Finish, t
<1>8. EmitsFollow(h)
  <2>1. ASSUME NEW c \in Connections
        PROVE  /\ Sends(t, c) = 0 /\ Sends(handler[h], c) = 0
               /\ Pushes(t, c) = 0 /\ Pushes(handler[h], c) = 0
               /\ emits[c] \in 0..MaxPendingEmits
    BY <1>1, <1>2, <1>6, RequestConstants DEF Sends, Pushes, TypeOK
  <2>2. emits' = [c \in Connections |-> emits'[c]]
    BY <1>1 DEF TypeOK
  <2> QED
    BY <1>1, <2>1, <2>2, RequestConstants DEF EmitsFollow, t
<1> QED
  BY <1>3, <1>7, <1>8 DEF Local, Becomes

LEMMA RequestLocal ==
  ASSUME IInv, NEW h \in Handlers, RequestStep(h)
  PROVE  Local(h)
<1>1. TypeOK /\ Discipline(handler[h])
  BY DEF IInv
<1>2. ASSUME NEW answer \in Answers, AnswersWith(h, answer), UNCHANGED <<active, emits>>,
             handler[h].pc \in {"reserved", "running"}
      PROVE  Local(h)
  BY <1>1, <1>2, AnswersWithLocal
<1>3. CASE Lookup(h)
  BY <1>3, LookupLocal
<1>4. CASE Refuse(h)
  BY <1>2, <1>4 DEF Refuse, Answers
<1>5. CASE Admit(h)
  BY <1>5, AdmitLocal
<1>6. CASE \E c \in Connections : ReservePush(h, c)
  BY <1>6, ReservePushLocal
<1>7. CASE Execute(h)
  BY <1>2, <1>7 DEF Execute, Answers
<1>8. CASE Reject(h)
  BY <1>2, <1>8 DEF Reject, Answers
<1>9. CASE ReleasePush(h)
  BY <1>9, ReleasePushLocal
<1>10. CASE Answer(h)
  BY <1>10, AnswerLocal
<1>11. CASE Emit(h)
  BY <1>11, EmitLocal
<1>12. CASE EmitReturns(h)
  BY <1>12, EmitReturnsLocal
<1>13. CASE Finish(h)
  BY <1>13, FinishLocal
<1> QED
  BY <1>3, <1>4, <1>5, <1>6, <1>7, <1>8, <1>9, <1>10, <1>11, <1>12, <1>13 DEF RequestStep

(* What follows from the discipline of the thread that moves.              *)
LEMMA LocalKeeps ==
  ASSUME IInv, NEW h \in Handlers, Local(h)
  PROVE  /\ \A g \in Handlers : Discipline(handler'[g])
         /\ ActiveIsExact' /\ EmitsBalance'
         /\ active' \in Nat /\ emits' \in [Connections -> 0..MaxPendingEmits]
         /\ handler' \in [Handlers -> Thread]
<1>1. \A g \in Handlers : Discipline(handler'[g])
  BY DEF IInv, Local, OthersKept
<1>2. ActiveIsExact' /\ active' \in Nat
  BY AdmittedStep DEF IInv, Local, ActiveFollows
<1>3. ASSUME NEW c \in Connections
      PROVE  /\ emits'[c] = Cardinality(Emitting(c)') + Cardinality(Pushing(c)')
             /\ emits'[c] \in Nat /\ emits'[c] <= MaxPendingEmits
  BY EmitsStep DEF IInv, Local, EmitsFollow
<1>4. EmitsBalance'
  BY <1>3 DEF EmitsBalance, Emitting, Pushing
<1>5. emits' \in [Connections -> 0..MaxPendingEmits]
  <2>1. \A c \in Connections : emits'[c] \in 0..MaxPendingEmits
    BY <1>3, RequestConstants
  <2>2. emits' = [c \in Connections |-> emits'[c]]
    BY DEF Local, EmitsFollow
  <2> QED
    BY <2>1, <2>2
<1> QED
  BY <1>1, <1>2, <1>4, <1>5 DEF Local

-----------------------------------------------------------------------------
(***************************************************************************)
(* The cache: its type, and the worker of each reservation.                *)
(***************************************************************************)
LEMMA PrunedType ==
  ASSUME TypeOK
  PROVE  /\ Pruned \in [Keys -> Entry]
         /\ \A k \in Keys : Pruned[k].state = "in_flight" => Pruned[k] = cache[k]
<1>1. NoEntry \in Entry /\ NoEntry.state = "free"
  BY RequestConstants DEF NoEntry, Entry, Ages
<1> QED
  BY <1>1 DEF Pruned, TypeOK

LEMMA OlderType ==
  ASSUME NEW age \in Ages
  PROVE  Older(age) \in Ages
  BY RequestConstants DEF Older, Ages

Working == {"reserved", "running", "answering"}

(* Whoever worked on a reservation still does, unless it is gone.          *)
LEMMA WorkersKept ==
  ASSUME InFlightHasWorker,
         \A k \in Keys : cache'[k].state = "in_flight" =>
            cache[k].state = "in_flight" /\ cache'[k].content = cache[k].content,
         \A g \in Handlers : handler[g].pc \in Working =>
            \/ /\ handler'[g].pc \in Working
               /\ handler'[g].key = handler[g].key
               /\ handler'[g].content = handler[g].content
            \/ \A k \in Keys : cache'[k].state = "in_flight" /\ handler[g].key = k =>
                    cache'[k].content # handler[g].content
  PROVE  InFlightHasWorker'
<1> SUFFICES ASSUME NEW k \in Keys, cache'[k].state = "in_flight"
             PROVE  \E g \in Handlers :
                        /\ handler'[g].key = k /\ handler'[g].pc \in Working
                        /\ handler'[g].content = cache'[k].content
  BY DEF InFlightHasWorker, Works, Working
<1>1. cache[k].state = "in_flight" /\ cache'[k].content = cache[k].content
  OBVIOUS
<1>2. PICK g \in Handlers : /\ handler[g].key = k /\ handler[g].pc \in Working
                            /\ handler[g].content = cache[k].content
  BY <1>1 DEF InFlightHasWorker, Works, Working
<1> QED
  BY <1>1, <1>2

LEMMA LookupWorkers ==
  ASSUME IInv, NEW h \in Handlers, Lookup(h)
  PROVE  /\ InFlightHasWorker' /\ cache' \in [Keys -> Entry]
<1> DEFINE k == handler[h].key
           new == [state |-> "in_flight", content |-> handler[h].content,
                   age |-> 0, answer |-> "none"]
<1>1. /\ TypeOK /\ Discipline(handler[h]) /\ handler[h] \in Thread
      /\ handler[h].pc = "received" /\ InFlightHasWorker
  BY DEF IInv, TypeOK, Lookup
<1>2. k \in Keys
  BY <1>1 DEF Discipline
<1>3. /\ Pruned \in [Keys -> Entry]
      /\ \A j \in Keys : Pruned[j].state = "in_flight" => Pruned[j] = cache[j]
  BY <1>1, PrunedType
<1>4. /\ OthersKept(h)
      /\ \A g \in Handlers : handler[g].pc \in Working => g # h
  BY <1>1, LookupLocal DEF Local, Working
<1>5. CASE cache' = Pruned
  <2>1. \A g \in Handlers : handler[g].pc \in Working =>
            /\ handler'[g].pc \in Working
            /\ handler'[g].key = handler[g].key
            /\ handler'[g].content = handler[g].content
    BY <1>4 DEF OthersKept
  <2>2. InFlightHasWorker'
    BY <1>1, <1>3, <1>5, <2>1, WorkersKept
  <2> QED
    BY <1>3, <1>5, <2>2
<1>6. CASE cache' = [Pruned EXCEPT ![k] = new] /\ Goes(h, "reserved")
  <2>1. new \in Entry
    BY <1>1, RequestConstants DEF Thread, Entry, Ages
  <2>2. cache' \in [Keys -> Entry]
    BY <1>3, <1>6, <2>1
  <2>3. handler'[h] = [handler[h] EXCEPT !.pc = "reserved"]
    BY <1>1, <1>6 DEF Goes, TypeOK
  <2>4. /\ handler'[h].pc \in Working /\ handler'[h].key = k
        /\ handler'[h].content = handler[h].content
    BY <1>1, <2>3 DEF Thread, Working
  <2>5. ASSUME NEW j \in Keys, cache'[j].state = "in_flight"
        PROVE  \E g \in Handlers :
                  /\ handler'[g].key = j /\ handler'[g].pc \in Working
                  /\ handler'[g].content = cache'[j].content
    <3>1. CASE j = k
      <4>1. cache'[j] = new
        BY <1>2, <1>3, <1>6, <3>1
      <4> QED
        BY <2>4, <3>1, <4>1
    <3>2. CASE j # k
      <4>1. cache'[j] = Pruned[j]
        BY <1>3, <1>6, <3>2
      <4>2. cache'[j] = cache[j] /\ cache[j].state = "in_flight"
        BY <1>3, <2>5, <4>1
      <4>3. PICK g \in Handlers : /\ handler[g].key = j /\ handler[g].pc \in Working
                                  /\ handler[g].content = cache[j].content
        BY <1>1, <4>2 DEF InFlightHasWorker, Works, Working
      <4> QED
        BY <1>4, <4>2, <4>3 DEF OthersKept
    <3> QED
      BY <3>1, <3>2
  <2>6. InFlightHasWorker'
    BY <2>5 DEF InFlightHasWorker, Works, Working
  <2> QED
    BY <2>2, <2>6
<1> QED
  BY <1>5, <1>6 DEF Lookup

LEMMA AnswerWorkers ==
  ASSUME IInv, NEW h \in Handlers, Answer(h)
  PROVE  InFlightHasWorker' /\ cache' \in [Keys -> Entry]
<1> DEFINE k == handler[h].key
           reserved == cache[k].state # "free" /\ cache[k].content = handler[h].content
           stored == [cache[k] EXCEPT !.state = "cached", !.answer = handler[h].answer]
<1>1. /\ TypeOK /\ Discipline(handler[h]) /\ handler[h] \in Thread
      /\ handler[h].pc = "answering" /\ InFlightHasWorker
  BY DEF IInv, TypeOK, Answer
<1>2. k \in Keys /\ cache[k] \in Entry /\ cache \in [Keys -> Entry]
  BY <1>1 DEF Discipline, TypeOK
<1>3. stored \in Entry /\ stored.state = "cached"
  BY <1>1, <1>2 DEF Entry, Thread
<1>4. IF reserved THEN cache' = [cache EXCEPT ![k] = stored] ELSE cache' = cache
  BY DEF Answer
<1>5. cache' \in [Keys -> Entry]
  BY <1>2, <1>3, <1>4
<1>6. \A j \in Keys : cache'[j].state = "in_flight" =>
            /\ cache'[j] = cache[j]
            /\ j = k => cache[j].content # handler[h].content
  BY <1>2, <1>3, <1>4
<1>7. OthersKept(h)
  BY AnswerLocal DEF Local
<1>8. \A g \in Handlers : handler[g].pc \in Working =>
            \/ /\ handler'[g].pc \in Working
               /\ handler'[g].key = handler[g].key
               /\ handler'[g].content = handler[g].content
            \/ \A j \in Keys : cache'[j].state = "in_flight" /\ handler[g].key = j =>
                    cache'[j].content # handler[g].content
  BY <1>6, <1>7 DEF OthersKept
<1>9. InFlightHasWorker'
  BY <1>1, <1>6, <1>8, WorkersKept
<1> QED
  BY <1>5, <1>9

(* The other steps of a thread leave the cache alone, and a thread that    *)
(* works on a reservation goes on doing so.                                *)
LEMMA ThreadWorkers ==
  ASSUME IInv, NEW h \in Handlers, OthersKept(h), cache' = cache,
         handler[h].pc \in Working =>
            /\ handler'[h].pc \in Working
            /\ handler'[h].key = handler[h].key
            /\ handler'[h].content = handler[h].content
  PROVE  InFlightHasWorker' /\ cache' \in [Keys -> Entry]
<1>1. TypeOK /\ InFlightHasWorker
  BY DEF IInv
<1>2. \A g \in Handlers : handler[g].pc \in Working =>
            /\ handler'[g].pc \in Working
            /\ handler'[g].key = handler[g].key
            /\ handler'[g].content = handler[g].content
  BY DEF OthersKept
<1>3. InFlightHasWorker'
  BY <1>1, <1>2, WorkersKept
<1> QED
  BY <1>1, <1>3 DEF TypeOK

LEMMA RequestWorkers ==
  ASSUME IInv, NEW h \in Handlers, RequestStep(h)
  PROVE  InFlightHasWorker' /\ cache' \in [Keys -> Entry]
<1>1. handler[h] \in Thread /\ handler \in [Handlers -> Thread]
  BY DEF IInv, TypeOK
<1>2. OthersKept(h)
  BY RequestLocal DEF Local
<1>3. CASE Lookup(h)
  BY <1>3, LookupWorkers
<1>4. CASE Answer(h)
  BY <1>4, AnswerWorkers
<1>5. CASE Refuse(h) \/ Execute(h) \/ Reject(h)
  <2>1. cache' = cache /\ \E answer \in Answers : AnswersWith(h, answer)
    BY <1>5 DEF Refuse, Execute, Reject, Answers
  <2>2. /\ handler'[h].pc = "answering" /\ handler'[h].key = handler[h].key
        /\ handler'[h].content = handler[h].content
    BY <1>1, <2>1 DEF AnswersWith, Thread
  <2> QED
    BY <1>2, <2>1, <2>2, ThreadWorkers DEF Working
<1>6. CASE Admit(h)
  <2>1. cache' = cache
    BY <1>6 DEF Admit
  <2>2. /\ handler'[h].pc \in {"running", "answering"} /\ handler'[h].key = handler[h].key
        /\ handler'[h].content = handler[h].content
    BY <1>1, <1>6 DEF Admit, AnswersWith, Thread
  <2> QED
    BY <1>2, <2>1, <2>2, ThreadWorkers DEF Working
<1>7. CASE ReleasePush(h) \/ \E c \in Connections : ReservePush(h, c)
  <2>1. cache' = cache
    BY <1>7 DEF ReservePush, ReleasePush
  <2>2. /\ handler'[h].pc = handler[h].pc /\ handler'[h].key = handler[h].key
        /\ handler'[h].content = handler[h].content
    BY <1>1, <1>7 DEF ReservePush, ReleasePush, Thread
  <2> QED
    BY <1>2, <2>1, <2>2, ThreadWorkers
<1>8. CASE Emit(h) \/ EmitReturns(h) \/ Finish(h)
  <2>1. cache' = cache /\ handler[h].pc \notin Working
    BY <1>8 DEF Emit, EmitReturns, Finish, Working
  <2> QED
    BY <1>2, <2>1, ThreadWorkers
<1> QED
  BY <1>3, <1>4, <1>5, <1>6, <1>7, <1>8 DEF RequestStep

LEMMA ReceiveWorkers ==
  ASSUME IInv, NEW h \in Handlers, NEW k \in Keys, NEW content \in Contents,
         Receive(h, k, content)
  PROVE  InFlightHasWorker' /\ cache' \in [Keys -> Entry]
<1>1. OthersKept(h)
  BY ReceiveLocal DEF Local
<1>2. cache' = cache /\ handler[h].pc \notin Working
  BY DEF Receive, Working
<1> QED
  BY <1>1, <1>2, ThreadWorkers

-----------------------------------------------------------------------------
(***************************************************************************)
(* The inductive invariant.                                                *)
(***************************************************************************)
LEMMA InitIInv == Init => IInv
<1> SUFFICES ASSUME Init PROVE IInv
  OBVIOUS
<1>1. NoEntry \in Entry /\ NoEntry.state = "free"
  BY RequestConstants DEF NoEntry, Entry, Ages
<1>2. Idle \in Thread /\ Discipline(Idle)
  BY IdleType
<1>3. Idle.pc = "idle" /\ Idle.admitted = FALSE /\ Idle.push = NoConnection
  BY DEF Idle
<1>4. TypeOK
  BY <1>1, <1>2, RequestConstants DEF Init, TypeOK, Ages
<1>5. \A h \in Handlers : handler[h] = Idle
  BY DEF Init
<1>6. Admitted = {} /\ \A c \in Connections : Emitting(c) = {} /\ Pushing(c) = {}
  BY <1>3, <1>5, RequestConstants DEF Admitted, Emitting, Pushing
<1>7. ActiveIsExact /\ EmitsBalance
  <2>1. Cardinality({}) = 0
    BY FS_EmptySet
  <2> QED
    BY <1>6, <2>1 DEF Init, ActiveIsExact, EmitsBalance, Emitting, Pushing
<1>8. InFlightHasWorker
  BY <1>1 DEF Init, InFlightHasWorker
<1>9. Quiet
  BY DEF Init, Quiet
<1> QED
  BY <1>2, <1>4, <1>5, <1>7, <1>8, <1>9 DEF IInv

(* The gate, the drain and the counter of active requests.                 *)
LEMMA RequestQuiet ==
  ASSUME IInv, NEW h \in Handlers, RequestStep(h)
  PROVE  Quiet' /\ UNCHANGED <<gate, shutdown, session>>
<1>1. active \in Nat /\ Quiet
  BY DEF IInv, TypeOK
<1>2. UNCHANGED <<gate, shutdown, session>>
  BY DEF RequestStep, Lookup, Refuse, Admit, ReservePush, Execute, Reject, ReleasePush,
         Answer, Emit, EmitReturns, Finish
<1>3. \/ active' = active
      \/ active' = active + 1 /\ gate = "ready" /\ shutdown = "no"
      \/ active' = IF active > 0 THEN active - 1 ELSE 0
  BY DEF RequestStep, Lookup, Refuse, Admit, ReservePush, Execute, Reject, ReleasePush,
         Answer, Emit, EmitReturns, Finish
<1>4. active' > 0 => active > 0 \/ (gate = "ready" /\ shutdown = "no")
  BY <1>1, <1>3
<1>5. active = 0 /\ shutdown # "no" => active' = 0
  BY <1>1, <1>3
<1> QED
  BY <1>1, <1>2, <1>4, <1>5 DEF Quiet

LEMMA RequestHistory ==
  ASSUME IInv, NEW h \in Handlers, RequestStep(h)
  PROVE  since' \in [Keys -> Ages] /\ late' \subseteq Keys
<1>1. /\ since \in [Keys -> Ages] /\ late \subseteq Keys
      /\ handler[h] \in Thread /\ Discipline(handler[h])
  BY DEF IInv, TypeOK
<1>2. CASE UNCHANGED history
  BY <1>1, <1>2 DEF history
<1>3. CASE Execute(h)
  <2>1. handler[h].age \in Ages
    BY <1>1 DEF Thread
  <2> QED
    BY <1>1, <1>3, <2>1 DEF Execute
<1>4. CASE Answer(h)
  <2>1. handler[h].key \in Keys
    BY <1>1, <1>4 DEF Answer, Discipline
  <2> QED
    BY <1>1, <1>4, <2>1 DEF Answer
<1> QED
  BY <1>2, <1>3, <1>4
     DEF RequestStep, Lookup, Refuse, Admit, ReservePush, Reject, ReleasePush, Emit,
         EmitReturns, Finish

LEMMA RequestIInv ==
  ASSUME IInv, NEW h \in Handlers, RequestStep(h)
  PROVE  IInv'
<1>1. /\ \A g \in Handlers : Discipline(handler'[g])
      /\ ActiveIsExact' /\ EmitsBalance'
      /\ active' \in Nat /\ emits' \in [Connections -> 0..MaxPendingEmits]
      /\ handler' \in [Handlers -> Thread]
  BY RequestLocal, LocalKeeps
<1>2. InFlightHasWorker' /\ cache' \in [Keys -> Entry]
  BY RequestWorkers
<1>3. Quiet' /\ UNCHANGED <<gate, shutdown, session>>
  BY RequestQuiet
<1>4. since' \in [Keys -> Ages] /\ late' \subseteq Keys
  BY RequestHistory
<1>5. TypeOK'
  BY <1>1, <1>2, <1>3, <1>4 DEF IInv, TypeOK
<1> QED
  BY <1>1, <1>2, <1>3, <1>5 DEF IInv

LEMMA ReceiveIInv ==
  ASSUME IInv, NEW h \in Handlers, NEW k \in Keys, NEW content \in Contents,
         Receive(h, k, content)
  PROVE  IInv'
<1>1. /\ \A g \in Handlers : Discipline(handler'[g])
      /\ ActiveIsExact' /\ EmitsBalance'
      /\ active' \in Nat /\ emits' \in [Connections -> 0..MaxPendingEmits]
      /\ handler' \in [Handlers -> Thread]
  BY ReceiveLocal, LocalKeeps
<1>2. InFlightHasWorker' /\ cache' \in [Keys -> Entry]
  BY ReceiveWorkers
<1>3. Quiet' /\ UNCHANGED <<gate, shutdown, session, since, late>>
  BY DEF Receive, IInv, Quiet, history
<1>4. TypeOK'
  BY <1>1, <1>2, <1>3 DEF IInv, TypeOK
<1> QED
  BY <1>1, <1>2, <1>3, <1>4 DEF IInv

(* A step in which the threads only grow older.                            *)
LEMMA Bystanders ==
  ASSUME IInv, UNCHANGED <<active, emits>>, handler' \in [Handlers -> Thread],
         \A h \in Handlers :
            /\ handler'[h].pc = handler[h].pc /\ handler'[h].key = handler[h].key
            /\ handler'[h].content = handler[h].content
            /\ handler'[h].admitted = handler[h].admitted
            /\ handler'[h].push = handler[h].push,
         \A k \in Keys : cache'[k].state = "in_flight" =>
            cache[k].state = "in_flight" /\ cache'[k].content = cache[k].content
  PROVE  /\ \A h \in Handlers : Discipline(handler'[h])
         /\ ActiveIsExact' /\ EmitsBalance' /\ InFlightHasWorker'
<1>1. \A h \in Handlers : Discipline(handler'[h])
  BY DEF IInv, Discipline
<1>2. Admitted' = Admitted
  BY DEF Admitted
<1>3. ActiveIsExact'
  BY <1>2 DEF IInv, ActiveIsExact
<1>4. \A c \in Connections : Emitting(c)' = Emitting(c) /\ Pushing(c)' = Pushing(c)
  BY DEF Emitting, Pushing
<1>5. EmitsBalance'
  BY <1>4 DEF IInv, EmitsBalance, Emitting, Pushing
<1>6. InFlightHasWorker'
  BY WorkersKept DEF IInv
<1> QED
  BY <1>1, <1>3, <1>5, <1>6

LEMMA ForgottenType ==
  ASSUME TypeOK, NEW C
  PROVE  /\ Forgotten(C) \in [Keys -> Entry]
         /\ \A k \in Keys : Forgotten(C)[k].state = "in_flight" => Forgotten(C)[k] = cache[k]
<1>1. NoEntry \in Entry /\ NoEntry.state = "free"
  BY RequestConstants DEF NoEntry, Entry, Ages
<1> QED
  BY <1>1 DEF Forgotten, TypeOK

(* The steps that leave the threads alone.                                 *)
LEMMA QuietStep ==
  ASSUME IInv, UNCHANGED <<active, emits, handler, history>>,
         cache' \in [Keys -> Entry],
         \A k \in Keys : cache'[k].state = "in_flight" => cache'[k] = cache[k],
         gate' \in {"running", "ready", "failed"}, gate' = gate \/ gate = "running",
         session' \in [Connections -> {"new", "connecting", "open", "gone"}],
         shutdown' \in {"no", "draining", "drained", "expired", "closed clean", "closed busy"},
         shutdown' \in {"drained", "closed clean"} =>
            active = 0 \/ shutdown \in {"drained", "closed clean"}
  PROVE  IInv'
<1>1. /\ \A h \in Handlers : Discipline(handler'[h])
      /\ ActiveIsExact' /\ EmitsBalance' /\ InFlightHasWorker'
  BY Bystanders DEF IInv, TypeOK
<1>2. TypeOK'
  BY DEF IInv, TypeOK, history
<1>3. Quiet'
  BY DEF IInv, Quiet, TypeOK
<1> QED
  BY <1>1, <1>2, <1>3 DEF IInv

LEMMA TickIInv ==
  ASSUME IInv, Tick
  PROVE  IInv'
<1>1. TypeOK /\ Quiet
  BY DEF IInv
<1>2. \A h \in Handlers : handler[h] \in Thread
  BY <1>1 DEF TypeOK
<1>3. ASSUME NEW h \in Handlers
      PROVE  /\ handler'[h] \in Thread
             /\ handler'[h].pc = handler[h].pc /\ handler'[h].key = handler[h].key
             /\ handler'[h].content = handler[h].content
             /\ handler'[h].admitted = handler[h].admitted
             /\ handler'[h].push = handler[h].push
  <2>1. handler[h].age \in Ages
    BY <1>2 DEF Thread
  <2>2. Older(handler[h].age) \in Ages
    BY <2>1, OlderType
  <2>3. \/ handler'[h] = handler[h]
        \/ handler'[h] = [handler[h] EXCEPT !.age = Older(handler[h].age)]
    BY DEF Tick
  <2> QED
    BY <1>2, <2>2, <2>3 DEF Thread
<1>4. handler' \in [Handlers -> Thread]
  BY <1>3 DEF Tick
<1>5. ASSUME NEW k \in Keys
      PROVE  /\ cache'[k] \in Entry
             /\ cache'[k].state = cache[k].state /\ cache'[k].content = cache[k].content
  <2>1. cache[k] \in Entry
    BY <1>1 DEF TypeOK
  <2>2. Older(cache[k].age) \in Ages
    BY <2>1, OlderType DEF Entry
  <2>3. \/ cache'[k] = cache[k]
        \/ cache'[k] = [cache[k] EXCEPT !.age = Older(cache[k].age)]
    BY DEF Tick
  <2> QED
    BY <2>1, <2>2, <2>3 DEF Entry
<1>6. cache' \in [Keys -> Entry]
  BY <1>5 DEF Tick
<1>7. since' \in [Keys -> Ages]
  BY <1>1, OlderType DEF Tick, TypeOK
<1>8. UNCHANGED <<gate, shutdown, active, session, emits, late>>
  BY DEF Tick
<1>9. TypeOK'
  BY <1>1, <1>4, <1>6, <1>7, <1>8 DEF TypeOK
<1>10. Quiet'
  BY <1>1, <1>8 DEF Quiet
<1>11. /\ \A h \in Handlers : Discipline(handler'[h])
       /\ ActiveIsExact' /\ EmitsBalance' /\ InFlightHasWorker'
  BY <1>3, <1>4, <1>5, <1>8, Bystanders
<1> QED
  BY <1>9, <1>10, <1>11 DEF IInv

LEMMA ServerIInv ==
  ASSUME IInv, ServerStep
  PROVE  IInv'
<1>1. TypeOK
  BY DEF IInv
<1>2. cache \in [Keys -> Entry]
  BY <1>1 DEF TypeOK
<1>3. CASE OpenGate
  BY <1>1, <1>2, <1>3, QuietStep DEF OpenGate, TypeOK
<1>4. CASE \E c \in Connections : BeginConnect(c)
  BY <1>1, <1>2, <1>4, QuietStep DEF BeginConnect, TypeOK
<1>5. CASE \E c \in Connections : Connect(c)
  BY <1>1, <1>2, <1>5, QuietStep DEF Connect, TypeOK
<1>6. CASE \E c \in Connections : Disconnect(c)
  <2>1. PICK c \in Connections : Disconnect(c)
    BY <1>6
  <2>2. /\ cache' \in [Keys -> Entry]
        /\ \A k \in Keys : cache'[k].state = "in_flight" => cache'[k] = cache[k]
    BY <1>1, <2>1, ForgottenType DEF Disconnect
  <2> QED
    BY <1>1, <2>1, <2>2, QuietStep DEF Disconnect, TypeOK
<1>7. CASE BeginShutdown
  BY <1>1, <1>2, <1>7, QuietStep DEF BeginShutdown, TypeOK
<1>8. CASE EndDrain
  BY <1>1, <1>2, <1>8, QuietStep DEF EndDrain, TypeOK
<1>9. CASE CloseSockets
  <2>1. /\ cache' \in [Keys -> Entry]
        /\ \A k \in Keys : cache'[k].state = "in_flight" => cache'[k] = cache[k]
    BY <1>1, <1>9, ForgottenType DEF CloseSockets
  <2>2. session' \in [Connections -> {"new", "connecting", "open", "gone"}]
    BY <1>1, <1>9 DEF CloseSockets, TypeOK
  <2> QED
    BY <1>1, <1>9, <2>1, <2>2, QuietStep DEF CloseSockets, TypeOK
<1>10. CASE Tick
  BY <1>10, TickIInv
<1> QED
  BY <1>3, <1>4, <1>5, <1>6, <1>7, <1>8, <1>9, <1>10 DEF ServerStep

LEMMA StutterIInv ==
  ASSUME IInv, UNCHANGED vars
  PROVE  IInv'
<1>1. /\ UNCHANGED <<gate, shutdown, active, session, cache, emits, handler, since, late>>
  BY DEF vars, history
<1>2. TypeOK' /\ Quiet'
  BY <1>1 DEF IInv, TypeOK, Quiet
<1>3. /\ \A h \in Handlers : Discipline(handler'[h])
      /\ ActiveIsExact' /\ EmitsBalance' /\ InFlightHasWorker'
  BY <1>1, <1>2, Bystanders DEF TypeOK
<1> QED
  BY <1>2, <1>3 DEF IInv

(* The inductive invariant holds in every reachable state.                 *)
THEOREM RequestInvariant == Spec => []IInv
<1>1. Init => IInv
  BY InitIInv
<1>2. IInv /\ [Next]_vars => IInv'
  <2> SUFFICES ASSUME IInv, [Next]_vars PROVE IInv'
    OBVIOUS
  <2>1. CASE ServerStep
    BY <2>1, ServerIInv
  <2>2. CASE \E h \in Handlers, k \in Keys, content \in Contents : Receive(h, k, content)
    BY <2>2, ReceiveIInv
  <2>3. CASE \E h \in Handlers : RequestStep(h)
    BY <2>3, RequestIInv
  <2>4. CASE UNCHANGED vars
    BY <2>4, StutterIInv
  <2> QED
    BY <2>1, <2>2, <2>3, <2>4 DEF Next
<1> QED
  BY <1>1, <1>2, PTL DEF Spec

(* Every variable keeps its type; above all no connection ever has more    *)
(* pending emits than reserve_emit allows, nor fewer than none.            *)
THEOREM RequestTypeCorrect == Spec => []TypeOK
<1>1. IInv => TypeOK
  BY DEF IInv
<1> QED
  BY <1>1, RequestInvariant, PTL

(* What the drain waits for is exactly the requests that were admitted:    *)
(* finish_request runs once for each, on every way out of on_message.      *)
THEOREM ActiveCorrect == Spec => []ActiveIsExact
<1>1. IInv => ActiveIsExact
  BY DEF IInv
<1> QED
  BY <1>1, RequestInvariant, PTL

(* The pending emits of a connection are those some thread still holds:    *)
(* release_emit gives each of them back, once.                             *)
THEOREM EmitsCorrect == Spec => []EmitsBalance
<1>1. IInv => EmitsBalance
  BY DEF IInv
<1> QED
  BY <1>1, RequestInvariant, PTL

(* No reservation of the request cache is left behind by a thread that     *)
(* ended, so a retry is only dropped while its answer is being made.       *)
THEOREM InFlightCorrect == Spec => []InFlightHasWorker
<1>1. IInv => InFlightHasWorker
  BY DEF IInv
<1> QED
  BY <1>1, RequestInvariant, PTL

(* No request takes effect before the recovery is complete nor after a     *)
(* drain that succeeded: a running request is admitted, so it is counted.  *)
THEOREM QuietCorrect == Spec => QuietOutsideService
<1>1. ASSUME IInv, NEW h \in Handlers, Execute(h)
      PROVE  gate = "ready" /\ shutdown \notin {"drained", "closed clean"}
  <2>1. h \in Admitted
    BY <1>1 DEF IInv, Execute, Discipline, Admitted
  <2>2. Cardinality(Admitted) > 0
    BY <2>1, CountStep, HandlersFinite
  <2>3. active > 0
    BY <1>1, <2>2 DEF IInv, ActiveIsExact
  <2>4. Quiet /\ active \in Nat
    BY <1>1 DEF IInv, TypeOK
  <2>5. active # 0
    BY <2>3, <2>4
  <2> QED
    BY <2>3, <2>4, <2>5 DEF Quiet
<1>2. IInv /\ [Next]_vars =>
        [\A h \in Handlers :
            Execute(h) => gate = "ready" /\ shutdown \notin {"drained", "closed clean"}]_vars
  BY <1>1
<1> QED
  BY <1>2, RequestInvariant, PTL DEF Spec, QuietOutsideService

(* The two counters and the reservations of the cache are settled on every *)
(* way out of on_message, for any number of connections and threads.       *)
THEOREM CountersCorrect == Spec => []CountersExact
<1>1. IInv => CountersExact
  BY DEF IInv, CountersExact
<1> QED
  BY <1>1, RequestInvariant, PTL

-----------------------------------------------------------------------------
(***************************************************************************)
(* A repetition within the life of the reservation.  A worker is young     *)
(* while its reservation has not expired.  As long as the connection was   *)
(* not closed, a young worker finds its own entry under its key, as old as *)
(* itself, and is the only one; and the entry outlives the memory of the   *)
(* effect.  So lookup_or_reserve hands a key to a new thread only when     *)
(* there is nobody left to work on it and nothing left to repeat.          *)
(***************************************************************************)
Live(k) == session[k[1]] # "gone"

Young(t, k) == t.pc \in Working /\ t.key = k /\ t.age < TTL

OwnsEntry(k) ==
    \A h \in Handlers : Young(handler[h], k) =>
        /\ cache[k].state # "free"
        /\ cache[k].age = handler[h].age /\ cache[k].content = handler[h].content
        /\ cache[k].state = "cached" => k \in late

StartsFresh(k) ==
    \A h \in Handlers :
        Young(handler[h], k) /\ handler[h].pc # "answering" => since[k] = TTL

WorksAlone(k) ==
    \A g, h \in Handlers : Young(handler[g], k) /\ Young(handler[h], k) => g = h

EntryRemembers(k) ==
    since[k] < TTL => cache[k].state # "free" /\ cache[k].age = since[k]

KeyInv(k) == OwnsEntry(k) /\ StartsFresh(k) /\ WorksAlone(k) /\ EntryRemembers(k)

RepeatInv ==
    /\ \A h \in Handlers : handler[h].pc = "received" => handler[h].age = 0
    /\ \A k \in Keys : Live(k) => KeyInv(k)

LEMMA AgesOrder ==
  /\ 0 \in Ages /\ TTL \in Ages /\ 0 < TTL
  /\ \A age \in Ages : age \in Nat /\ age <= TTL /\ (age < TTL \/ age = TTL)
  /\ \A age \in Ages : (age < TTL => Older(age) = age + 1) /\ (age = TTL => Older(age) = TTL)
  /\ \A age \in Ages : Older(age) < TTL => age < TTL
  BY RequestConstants DEF Ages, Older

LEMMA KeyTypes ==
  ASSUME TypeOK, NEW k \in Keys
  PROVE  /\ cache[k] \in Entry /\ cache[k].age \in Ages /\ since[k] \in Ages
         /\ \A h \in Handlers : handler[h] \in Thread /\ handler[h].age \in Ages
  BY DEF TypeOK, Entry, Thread

(* A step that leaves the entry and the memory of a key alone, and gives   *)
(* it no new young worker.                                                 *)
LEMMA KeyKept ==
  ASSUME NEW k \in Keys, KeyInv(k),
         cache'[k] = cache[k], since'[k] = since[k], late \subseteq late',
         \A g \in Handlers : Young(handler'[g], k) =>
            /\ Young(handler[g], k)
            /\ handler'[g].age = handler[g].age /\ handler'[g].content = handler[g].content
            /\ handler'[g].pc # "answering" => handler[g].pc # "answering"
  PROVE  KeyInv(k)'
<1>1. OwnsEntry(k)'
  BY DEF KeyInv, OwnsEntry
<1>2. StartsFresh(k)'
  BY DEF KeyInv, StartsFresh
<1>3. WorksAlone(k)'
  BY DEF KeyInv, WorksAlone
<1>4. EntryRemembers(k)'
  BY DEF KeyInv, EntryRemembers
<1> QED
  BY <1>1, <1>2, <1>3, <1>4 DEF KeyInv

(* A key that nobody young works on and whose effect is forgotten.         *)
LEMMA KeyForgotten ==
  ASSUME NEW k \in Keys, since'[k] = TTL,
         \A g \in Handlers : ~Young(handler'[g], k)
  PROVE  KeyInv(k)'
  BY RequestConstants DEF KeyInv, OwnsEntry, StartsFresh, WorksAlone, EntryRemembers

(* The entry of a key expires only when there is nothing left to repeat.   *)
LEMMA ExpiredKey ==
  ASSUME TypeOK, NEW k \in Keys, KeyInv(k),
         cache[k].state = "free" \/ cache[k].age >= TTL
  PROVE  /\ since[k] = TTL
         /\ \A g \in Handlers : ~Young(handler[g], k)
<1>1. ~(cache[k].age < TTL) \/ cache[k].state = "free"
  <2>1. cache[k].age \in Nat /\ TTL \in Nat
    BY KeyTypes, AgesOrder, RequestConstants
  <2> QED
    BY <2>1
<1>2. since[k] = TTL
  <2>1. ~(since[k] < TTL)
    BY <1>1 DEF KeyInv, EntryRemembers
  <2> QED
    BY <2>1, KeyTypes, AgesOrder
<1>3. \A g \in Handlers : ~Young(handler[g], k)
  BY <1>1 DEF KeyInv, OwnsEntry, Young
<1> QED
  BY <1>2, <1>3

LEMMA PrunedKey ==
  ASSUME TypeOK, NEW k \in Keys
  PROVE  \/ Pruned[k] = cache[k]
         \/ Pruned[k] = NoEntry /\ cache[k].age >= TTL
  BY DEF TypeOK, Pruned

(* lookup_or_reserve, for every key.                                       *)
LEMMA LookupKey ==
  ASSUME IInv, NEW h \in Handlers, Lookup(h), handler[h].age = 0,
         NEW k \in Keys, KeyInv(k)
  PROVE  KeyInv(k)'
<1> DEFINE key == handler[h].key
           new == [state |-> "in_flight", content |-> handler[h].content,
                   age |-> 0, answer |-> "none"]
<1>1. /\ TypeOK /\ Discipline(handler[h]) /\ handler[h] \in Thread
      /\ handler[h].pc = "received" /\ Pruned \in [Keys -> Entry]
      /\ UNCHANGED <<since, late>>
  BY PrunedType DEF IInv, TypeOK, Lookup, history
<1>2. key \in Keys
  BY <1>1 DEF Discipline
<1>3. OthersKept(h)
  BY LookupLocal DEF Local
<1>4. ASSUME cache'[k] = Pruned[k], ~Young(handler'[h], k)
      PROVE  KeyInv(k)'
  <2>1. \A g \in Handlers : Young(handler'[g], k) =>
            handler'[g] = handler[g] /\ Young(handler[g], k)
    BY <1>3, <1>4 DEF OthersKept
  <2>2. CASE Pruned[k] = cache[k]
    BY <1>1, <1>4, <2>1, <2>2, KeyKept
  <2>3. CASE cache[k].age >= TTL
    BY <1>1, <2>1, <2>3, ExpiredKey, KeyForgotten
  <2> QED
    BY <1>1, <2>2, <2>3, PrunedKey
<1>5. CASE cache' = Pruned /\ ~(handler'[h].pc \in Working)
  <2>1. cache'[k] = Pruned[k] /\ ~Young(handler'[h], k)
    BY <1>5 DEF Young
  <2> QED
    BY <1>4, <2>1
<1>6. CASE /\ Pruned[key].state = "free" /\ cache' = [Pruned EXCEPT ![key] = new]
           /\ Goes(h, "reserved")
  <2>1. handler'[h] = [handler[h] EXCEPT !.pc = "reserved"]
    BY <1>1, <1>6 DEF Goes, TypeOK
  <2>2. /\ handler'[h].pc = "reserved" /\ handler'[h].key = key
        /\ handler'[h].content = handler[h].content /\ handler'[h].age = 0
    BY <1>1, <2>1 DEF Thread
  <2>3. CASE k # key
    <3>1. cache'[k] = Pruned[k] /\ ~Young(handler'[h], k)
      BY <1>1, <1>6, <2>2, <2>3 DEF Young
    <3> QED
      BY <1>4, <3>1
  <2>4. CASE k = key
    <3>1. cache[k].state = "free" \/ cache[k].age >= TTL
      BY <1>1, <1>6, <2>4, PrunedKey
    <3>2. since[k] = TTL /\ \A g \in Handlers : ~Young(handler[g], k)
      BY <1>1, <3>1, ExpiredKey
    <3>3. cache'[k] = new
      BY <1>1, <1>6, <2>4
    <3>4. \A g \in Handlers : Young(handler'[g], k) => g = h
      BY <1>3, <3>2 DEF OthersKept
    <3>5. OwnsEntry(k)'
      BY <2>2, <3>3, <3>4 DEF OwnsEntry
    <3>6. StartsFresh(k)'
      BY <1>1, <3>2 DEF StartsFresh
    <3>7. WorksAlone(k)'
      BY <3>4 DEF WorksAlone
    <3>8. EntryRemembers(k)'
      BY <1>1, <3>2, RequestConstants DEF EntryRemembers
    <3> QED
      BY <3>5, <3>6, <3>7, <3>8 DEF KeyInv
  <2> QED
    BY <2>3, <2>4
<1>7. ASSUME NEW answer, handler' = [handler EXCEPT ![h].pc = "stored", ![h].answer = answer]
      PROVE  ~(handler'[h].pc \in Working)
  <2>1. handler'[h] = [handler[h] EXCEPT !.pc = "stored", !.answer = answer]
    BY <1>1, <1>7 DEF TypeOK
  <2>2. handler'[h].pc = "stored"
    BY <1>1, <2>1 DEF Thread
  <2> QED
    BY <2>2 DEF Working
<1>8. Goes(h, "idle") => ~(handler'[h].pc \in Working)
  <2>1. Goes(h, "idle") => handler'[h] = Idle
    BY <1>1 DEF Goes, TypeOK
  <2>2. Idle.pc = "idle"
    BY DEF Idle
  <2> QED
    BY <2>1, <2>2 DEF Working
<1>9. \/ /\ cache' = Pruned
         /\ \/ Goes(h, "idle")
            \/ \E answer : handler' = [handler EXCEPT ![h].pc = "stored", ![h].answer = answer]
      \/ /\ Pruned[key].state = "free" /\ cache' = [Pruned EXCEPT ![key] = new]
         /\ Goes(h, "reserved")
  BY DEF Lookup
<1> QED
  BY <1>5, <1>6, <1>7, <1>8, <1>9

(* The effect of a young worker is remembered as old as its entry; one     *)
(* that outlived its reservation leaves nothing to remember.               *)
LEMMA ExecuteKey ==
  ASSUME IInv, NEW h \in Handlers, Execute(h), NEW k \in Keys, KeyInv(k)
  PROVE  KeyInv(k)'
<1>1. /\ TypeOK /\ Discipline(handler[h]) /\ handler[h] \in Thread /\ handler[h].age \in Ages
      /\ handler[h].pc = "running" /\ UNCHANGED <<cache, late>>
      /\ since' = [since EXCEPT ![handler[h].key] = handler[h].age]
      /\ since \in [Keys -> Ages] /\ handler \in [Handlers -> Thread]
  BY DEF IInv, TypeOK, Thread, Execute
<1>2. /\ handler'[h].pc = "answering" /\ handler'[h].key = handler[h].key
      /\ handler'[h].content = handler[h].content /\ handler'[h].age = handler[h].age
  BY <1>1 DEF Execute, AnswersWith, Thread
<1>3. \A g \in Handlers : g # h => handler'[g] = handler[g]
  BY <1>1 DEF Execute, AnswersWith
<1>4. \A g \in Handlers :
        /\ Young(handler'[g], k) <=> Young(handler[g], k)
        /\ handler'[g].age = handler[g].age /\ handler'[g].content = handler[g].content
        /\ handler'[g].pc # "answering" => handler[g].pc # "answering" /\ g # h
  BY <1>1, <1>2, <1>3 DEF Young, Working
<1>5. CASE handler[h].key # k
  BY <1>1, <1>4, <1>5, KeyKept
<1>6. CASE handler[h].key = k
  <2>1. since'[k] = handler[h].age
    BY <1>1, <1>6
  <2>2. OwnsEntry(k)'
    BY <1>1, <1>4 DEF KeyInv, OwnsEntry
  <2>3. WorksAlone(k)'
    BY <1>4 DEF KeyInv, WorksAlone
  <2>4. CASE handler[h].age < TTL
    <3>1. Young(handler[h], k)
      BY <1>1, <1>6, <2>4 DEF Young, Working
    <3>2. StartsFresh(k)'
      BY <1>4, <3>1 DEF KeyInv, WorksAlone, StartsFresh
    <3>3. EntryRemembers(k)'
      BY <1>1, <2>1, <3>1 DEF KeyInv, OwnsEntry, EntryRemembers
    <3> QED
      BY <2>2, <2>3, <3>2, <3>3 DEF KeyInv
  <2>5. CASE handler[h].age = TTL
    <3>1. StartsFresh(k)' /\ EntryRemembers(k)'
      BY <2>1, <2>5, RequestConstants DEF StartsFresh, EntryRemembers
    <3> QED
      BY <2>2, <2>3, <3>1 DEF KeyInv
  <2> QED
    BY <1>1, <2>4, <2>5, AgesOrder
<1> QED
  BY <1>5, <1>6

(* store_result: a young worker fills its own entry, and a late one is     *)
(* noted.                                                                  *)
LEMMA AnswerKey ==
  ASSUME IInv, NEW h \in Handlers, Answer(h), NEW k \in Keys, KeyInv(k)
  PROVE  KeyInv(k)'
<1> DEFINE key == handler[h].key
           reserved == cache[key].state # "free" /\ cache[key].content = handler[h].content
           stored == [cache[key] EXCEPT !.state = "cached", !.answer = handler[h].answer]
<1>1. /\ TypeOK /\ Discipline(handler[h]) /\ handler[h] \in Thread /\ handler[h].age \in Ages
      /\ handler[h].pc = "answering" /\ cache \in [Keys -> Entry] /\ since' = since
      /\ handler \in [Handlers -> Thread]
  BY DEF IInv, TypeOK, Thread, Answer
<1>2. key \in Keys /\ cache[key] \in Entry
  BY <1>1 DEF Discipline
<1>3. /\ OthersKept(h) /\ late \subseteq late'
      /\ handler[h].age = TTL => key \in late'
  BY AnswerLocal DEF Local, Answer
<1>4. ~(handler'[h].pc \in Working)
  <2>1. PICK pc \in {"stored", "finishing", "idle"} : Goes(h, pc)
    BY DEF Answer, AfterAnswer
  <2> QED
    BY <1>1, <2>1 DEF Goes, Idle, Thread, Working
<1>5. \A g \in Handlers : Young(handler'[g], k) =>
            g # h /\ handler'[g] = handler[g] /\ Young(handler[g], k)
  BY <1>3, <1>4 DEF OthersKept, Young
<1>6. IF reserved THEN cache' = [cache EXCEPT ![key] = stored] ELSE cache' = cache
  BY DEF Answer
<1>7. CASE cache'[k] = cache[k]
  BY <1>1, <1>3, <1>5, <1>7, KeyKept
<1>8. CASE k = key /\ reserved /\ cache' = [cache EXCEPT ![key] = stored]
  <2>1. /\ cache'[k].state = "cached" /\ cache[k].state # "free"
        /\ cache'[k].age = cache[k].age /\ cache'[k].content = cache[k].content
    BY <1>1, <1>2, <1>8 DEF Entry
  <2>2. ASSUME NEW g \in Handlers, Young(handler'[g], k)
        PROVE  k \in late'
    <3>1. ~Young(handler[h], k)
      BY <1>5, <2>2 DEF KeyInv, WorksAlone
    <3>2. ~(handler[h].age < TTL)
      BY <1>1, <1>8, <3>1 DEF Young, Working
    <3> QED
      BY <1>1, <1>3, <1>8, <3>2, AgesOrder
  <2>3. OwnsEntry(k)'
    BY <1>5, <2>1, <2>2 DEF KeyInv, OwnsEntry
  <2>4. StartsFresh(k)'
    BY <1>1, <1>5 DEF KeyInv, StartsFresh
  <2>5. WorksAlone(k)'
    BY <1>5 DEF KeyInv, WorksAlone
  <2>6. EntryRemembers(k)'
    BY <1>1, <2>1 DEF KeyInv, EntryRemembers
  <2> QED
    BY <2>3, <2>4, <2>5, <2>6 DEF KeyInv
<1>9. cache'[k] = cache[k] \/ (k = key /\ reserved /\ cache' = [cache EXCEPT ![key] = stored])
  BY <1>1, <1>6
<1> QED
  BY <1>7, <1>8, <1>9

(* The other steps of a thread.                                            *)
LEMMA OtherKey ==
  ASSUME IInv, NEW h \in Handlers, UNCHANGED <<cache, since, late>>, OthersKept(h),
         \/ ~(handler'[h].pc \in Working)
         \/ /\ handler[h].pc \in Working /\ handler'[h].key = handler[h].key
            /\ handler'[h].age = handler[h].age /\ handler'[h].content = handler[h].content
            /\ handler'[h].pc # "answering" => handler[h].pc # "answering",
         NEW k \in Keys, KeyInv(k)
  PROVE  KeyInv(k)'
<1>1. \A g \in Handlers : Young(handler'[g], k) =>
            /\ Young(handler[g], k)
            /\ handler'[g].age = handler[g].age /\ handler'[g].content = handler[g].content
            /\ handler'[g].pc # "answering" => handler[g].pc # "answering"
  BY DEF OthersKept, Young
<1> QED
  BY <1>1, KeyKept

LEMMA RequestKey ==
  ASSUME IInv, RepeatInv, NEW h \in Handlers, RequestStep(h), NEW k \in Keys, KeyInv(k)
  PROVE  KeyInv(k)'
<1>1. /\ handler[h] \in Thread /\ handler \in [Handlers -> Thread]
  BY DEF IInv, TypeOK
<1>2. OthersKept(h)
  BY RequestLocal DEF Local
<1>3. CASE Lookup(h)
  <2>1. handler[h].age = 0
    BY <1>3 DEF RepeatInv, Lookup
  <2> QED
    BY <1>3, <2>1, LookupKey
<1>4. CASE Answer(h)
  BY <1>4, AnswerKey
<1>5. CASE Execute(h)
  BY <1>5, ExecuteKey
<1>6. CASE Refuse(h) \/ Reject(h) \/ Admit(h)
  <2>1. UNCHANGED <<cache, since, late>> /\ handler[h].pc \in {"reserved", "running"}
    BY <1>6 DEF Refuse, Reject, Admit, history
  <2>2. /\ handler'[h].key = handler[h].key /\ handler'[h].age = handler[h].age
        /\ handler'[h].content = handler[h].content
    BY <1>1, <1>6 DEF Refuse, Reject, Admit, AnswersWith, Thread
  <2> QED
    BY <1>2, <2>1, <2>2, OtherKey DEF Working
<1>7. CASE ReleasePush(h) \/ \E c \in Connections : ReservePush(h, c)
  <2>1. UNCHANGED <<cache, since, late>> /\ handler[h].pc \in Working
    BY <1>7 DEF ReservePush, ReleasePush, history, Working
  <2>2. /\ handler'[h].pc = handler[h].pc /\ handler'[h].key = handler[h].key
        /\ handler'[h].content = handler[h].content /\ handler'[h].age = handler[h].age
    BY <1>1, <1>7 DEF ReservePush, ReleasePush, Thread
  <2> QED
    BY <1>2, <2>1, <2>2, OtherKey
<1>8. CASE Emit(h) \/ EmitReturns(h) \/ Finish(h)
  <2>1. UNCHANGED <<cache, since, late>>
    BY <1>8 DEF Emit, EmitReturns, Finish, history
  <2>2. handler' = [handler EXCEPT ![h] = Idle] \/ \E pc \in {"emitting", "finishing", "idle"} : Goes(h, pc)
    BY <1>8 DEF Emit, EmitReturns, Finish, AfterAnswer
  <2>3. ~(handler'[h].pc \in Working)
    BY <1>1, <2>2 DEF Goes, Idle, Thread, Working
  <2> QED
    BY <1>2, <2>1, <2>3, OtherKey
<1> QED
  BY <1>3, <1>4, <1>5, <1>6, <1>7, <1>8 DEF RequestStep

(* Only a new message puts a thread where it looks its request up.         *)
LEMMA RequestFresh ==
  ASSUME IInv, RepeatInv, NEW h \in Handlers, RequestStep(h), NEW g \in Handlers,
         handler'[g].pc = "received"
  PROVE  handler'[g].age = 0
<1>1. /\ handler[h] \in Thread /\ handler \in [Handlers -> Thread]
  BY DEF IInv, TypeOK
<1>2. CASE g # h
  BY <1>2, RequestLocal DEF Local, OthersKept, RepeatInv
<1>3. handler'[h].pc # "received"
  BY <1>1 DEF RequestStep, Lookup, Refuse, Admit, ReservePush, Execute, Reject, ReleasePush,
         Answer, Emit, EmitReturns, Finish, Goes, AfterAnswer, AnswersWith, Idle, Thread
<1> QED
  BY <1>2, <1>3

LEMMA RequestRepeats ==
  ASSUME IInv, RepeatInv, NEW h \in Handlers, RequestStep(h)
  PROVE  RepeatInv'
<1>1. session' = session
  BY RequestQuiet
<1>2. ASSUME NEW k \in Keys, Live(k)'
      PROVE  KeyInv(k)'
  <2>1. Live(k)
    BY <1>1, <1>2 DEF Live
  <2> QED
    BY <2>1, RequestKey DEF RepeatInv
<1>3. \A g \in Handlers : handler'[g].pc = "received" => handler'[g].age = 0
  BY RequestFresh
<1> QED
  BY <1>2, <1>3 DEF RepeatInv

LEMMA ReceiveRepeats ==
  ASSUME IInv, RepeatInv, NEW h \in Handlers, NEW j \in Keys, NEW content \in Contents,
         Receive(h, j, content)
  PROVE  RepeatInv'
<1>1. /\ UNCHANGED <<cache, since, late, session>> /\ handler \in [Handlers -> Thread]
  BY DEF Receive, history, IInv, TypeOK
<1>2. OthersKept(h)
  BY ReceiveLocal DEF Local
<1>3. handler'[h].pc = "received" /\ handler'[h].age = 0
  BY <1>1 DEF Receive, Idle
<1>4. ASSUME NEW k \in Keys, Live(k)'
      PROVE  KeyInv(k)'
  <2>1. KeyInv(k)
    BY <1>1, <1>4 DEF Live, RepeatInv
  <2>2. ~(handler'[h].pc \in Working)
    BY <1>3 DEF Working
  <2> QED
    BY <1>1, <1>2, <2>1, <2>2, OtherKey
<1>5. \A g \in Handlers : handler'[g].pc = "received" => handler'[g].age = 0
  BY <1>2, <1>3 DEF OthersKept, RepeatInv
<1> QED
  BY <1>4, <1>5 DEF RepeatInv

(* The workers, the entries and the memory of the effects age together.    *)
LEMMA TickRepeats ==
  ASSUME IInv, RepeatInv, Tick
  PROVE  RepeatInv'
<1>1. TypeOK /\ UNCHANGED <<session, late>>
  BY DEF IInv, Tick
<1>2. ASSUME NEW h \in Handlers
      PROVE  /\ handler'[h].pc = handler[h].pc /\ handler'[h].key = handler[h].key
             /\ handler'[h].content = handler[h].content
             /\ handler[h].pc = "received" => handler'[h].age = handler[h].age
             /\ handler[h].pc \in Working => handler'[h].age = Older(handler[h].age)
  <2>1. handler[h] \in Thread
    BY <1>1 DEF TypeOK
  <2> QED
    BY <2>1 DEF Tick, Thread, Working
<1>3. ASSUME NEW k \in Keys, Live(k)'
      PROVE  KeyInv(k)'
  <2>1. KeyInv(k)
    BY <1>1, <1>3 DEF Live, RepeatInv
  <2>2. /\ cache'[k].state = cache[k].state /\ cache'[k].content = cache[k].content
        /\ cache[k].state # "free" => cache'[k].age = Older(cache[k].age)
        /\ since'[k] = Older(since[k])
    <3>1. cache[k] \in Entry
      BY <1>1 DEF TypeOK
    <3> QED
      BY <3>1 DEF Tick, Entry
  <2>3. ASSUME NEW h \in Handlers, Young(handler'[h], k)
        PROVE  Young(handler[h], k) /\ handler'[h].age = Older(handler[h].age)
    <3>1. handler[h].pc \in Working /\ handler[h].key = k
      BY <1>2, <2>3 DEF Young
    <3>2. handler'[h].age = Older(handler[h].age) /\ handler'[h].age < TTL
      BY <1>2, <2>3, <3>1 DEF Young
    <3>3. handler[h].age < TTL
      BY <1>1, <3>2, KeyTypes, AgesOrder
    <3> QED
      BY <3>1, <3>2, <3>3 DEF Young
  <2>4. OwnsEntry(k)'
    BY <1>1, <1>2, <2>1, <2>2, <2>3 DEF KeyInv, OwnsEntry
  <2>5. StartsFresh(k)'
    BY <1>2, <2>1, <2>2, <2>3, AgesOrder DEF KeyInv, StartsFresh
  <2>6. WorksAlone(k)'
    BY <2>1, <2>3 DEF KeyInv, WorksAlone
  <2>7. EntryRemembers(k)'
    <3>1. since'[k] < TTL => since[k] < TTL
      BY <1>1, <2>2, KeyTypes, AgesOrder
    <3> QED
      BY <2>1, <2>2, <3>1 DEF KeyInv, EntryRemembers
  <2> QED
    BY <2>4, <2>5, <2>6, <2>7 DEF KeyInv
<1>4. \A h \in Handlers : handler'[h].pc = "received" => handler'[h].age = 0
  BY <1>2 DEF RepeatInv
<1> QED
  BY <1>3, <1>4 DEF RepeatInv

(* Connections come and go: the cache only loses entries of closed ones.   *)
LEMMA SessionRepeats ==
  ASSUME IInv, RepeatInv, UNCHANGED <<handler, since, late>>,
         \A k \in Keys : Live(k)' => Live(k) /\ cache'[k] = cache[k]
  PROVE  RepeatInv'
<1>1. ASSUME NEW k \in Keys, Live(k)'
      PROVE  KeyInv(k)'
  <2>1. KeyInv(k) /\ cache'[k] = cache[k]
    BY <1>1 DEF RepeatInv
  <2> QED
    BY <2>1, KeyKept
<1> QED
  BY <1>1 DEF RepeatInv

LEMMA ServerRepeats ==
  ASSUME IInv, RepeatInv, ServerStep
  PROVE  RepeatInv'
<1>1. /\ TypeOK /\ session \in [Connections -> {"new", "connecting", "open", "gone"}]
      /\ \A k \in Keys : k[1] \in Connections
  BY DEF IInv, TypeOK, Keys
<1>2. CASE OpenGate \/ BeginShutdown \/ EndDrain
  <2>1. UNCHANGED <<session, cache, handler, since, late>>
    BY <1>2 DEF OpenGate, BeginShutdown, EndDrain, history
  <2> QED
    BY <2>1, SessionRepeats DEF Live
<1>3. CASE \E c \in Connections : BeginConnect(c) \/ Connect(c)
  <2>1. UNCHANGED <<cache, handler, since, late>>
    BY <1>3 DEF BeginConnect, Connect, history
  <2>2. \A c \in Connections : session'[c] # "gone" => session[c] # "gone"
    BY <1>1, <1>3 DEF BeginConnect, Connect
  <2> QED
    BY <1>1, <2>1, <2>2, SessionRepeats DEF Live
<1>4. ASSUME NEW C \in SUBSET Connections,
             session' = [c \in Connections |-> IF c \in C THEN "gone" ELSE session[c]],
             cache' = Forgotten(C), UNCHANGED <<handler, since, late>>
      PROVE  RepeatInv'
  <2>1. ASSUME NEW k \in Keys, Live(k)'
        PROVE  Live(k) /\ cache'[k] = cache[k]
    <3>1. k[1] \notin C /\ session'[k[1]] = session[k[1]]
      BY <1>1, <1>4, <2>1 DEF Live
    <3> QED
      BY <1>4, <2>1, <3>1 DEF Live, Forgotten
  <2> QED
    BY <1>4, <2>1, SessionRepeats
<1>5. CASE \E c \in Connections : Disconnect(c)
  <2>1. PICK c \in Connections : Disconnect(c)
    BY <1>5
  <2>2. session' = [d \in Connections |-> IF d \in {c} THEN "gone" ELSE session[d]]
    BY <1>1, <2>1 DEF Disconnect
  <2>3. cache' = Forgotten({c}) /\ UNCHANGED <<handler, since, late>>
    BY <2>1 DEF Disconnect, history
  <2> QED
    BY <1>4, <2>2, <2>3
<1>6. CASE CloseSockets
  <2> DEFINE shut == {c \in Connections : session[c] = "open"}
  <2>1. /\ session' = [c \in Connections |-> IF c \in shut THEN "gone" ELSE session[c]]
        /\ cache' = Forgotten(shut) /\ UNCHANGED <<handler, since, late>>
    BY <1>6 DEF CloseSockets, history
  <2> QED
    BY <1>4, <2>1
<1>7. CASE Tick
  BY <1>7, TickRepeats
<1> QED
  BY <1>2, <1>3, <1>5, <1>6, <1>7 DEF ServerStep

(* The workers of an open connection own their reservations.               *)
THEOREM RepeatInvariant == Spec => []RepeatInv
<1>1. Init => RepeatInv
  <2> SUFFICES ASSUME Init PROVE RepeatInv
    OBVIOUS
  <2>1. \A h \in Handlers : handler[h].pc = "idle"
    BY DEF Init, Idle
  <2>2. \A k \in Keys : since[k] = TTL
    BY DEF Init
  <2> QED
    BY <2>1, <2>2, RequestConstants
       DEF RepeatInv, KeyInv, OwnsEntry, StartsFresh, WorksAlone, EntryRemembers, Young, Working
<1>2. IInv /\ RepeatInv /\ [Next]_vars => RepeatInv'
  <2> SUFFICES ASSUME IInv, RepeatInv, [Next]_vars PROVE RepeatInv'
    OBVIOUS
  <2>1. CASE ServerStep
    BY <2>1, ServerRepeats
  <2>2. CASE \E h \in Handlers, k \in Keys, content \in Contents : Receive(h, k, content)
    BY <2>2, ReceiveRepeats
  <2>3. CASE \E h \in Handlers : RequestStep(h)
    BY <2>3, RequestRepeats
  <2>4. CASE UNCHANGED vars
    BY <2>4, SessionRepeats DEF vars, history, Live
  <2> QED
    BY <2>1, <2>2, <2>3, <2>4 DEF Next
<1> QED
  BY <1>1, <1>2, RequestInvariant, PTL DEF Spec

(* A step that leaves an answer in the cache under a key leaves it as it   *)
(* was, unless the answer is one of a thread that outlived its entry.      *)
LEMMA AnswerStays ==
  ASSUME IInv, RepeatInv, [Next]_vars, NEW k \in Keys, k \notin late',
         cache[k].state = "cached", cache'[k].state = "cached", session[k[1]] = "open"
  PROVE  cache'[k].answer = cache[k].answer /\ cache'[k].content = cache[k].content
<1>1. TypeOK /\ cache \in [Keys -> Entry] /\ cache[k] \in Entry
  BY DEF IInv, TypeOK
<1>2. KeyInv(k)
  BY DEF RepeatInv, Live
<1>3. CASE cache'[k] = cache[k]
  BY <1>3
<1>4. CASE ServerStep
  <2>1. CASE Tick
    BY <1>1, <2>1 DEF Tick, Entry
  <2>2. CASE \E C \in SUBSET Connections : cache' = Forgotten(C)
    BY <1>3, <2>2 DEF Forgotten, NoEntry
  <2>3. CASE cache' = cache
    BY <2>3
  <2>4. Tick \/ cache' = cache \/ \E C \in SUBSET Connections : cache' = Forgotten(C)
    <3>1. CASE \E c \in Connections : Disconnect(c)
      <4>1. PICK c \in Connections : Disconnect(c)
        BY <3>1
      <4>2. {c} \in SUBSET Connections /\ cache' = Forgotten({c})
        BY <4>1 DEF Disconnect
      <4> QED
        BY <4>2
    <3>2. CASE CloseSockets
      <4> DEFINE shut == {c \in Connections : session[c] = "open"}
      <4>1. shut \in SUBSET Connections /\ cache' = Forgotten(shut)
        BY <3>2 DEF CloseSockets
      <4> QED
        BY <4>1
    <3> QED
      BY <1>4, <3>1, <3>2 DEF ServerStep, OpenGate, BeginConnect, Connect, BeginShutdown, EndDrain
  <2> QED
    BY <2>1, <2>2, <2>3, <2>4
<1>5. ASSUME NEW h \in Handlers, Lookup(h)
      PROVE  cache'[k] = cache[k]
  <2>1. Pruned \in [Keys -> Entry]
    BY <1>1, PrunedType
  <2>2. cache'[k] = Pruned[k] \/ cache'[k].state = "in_flight"
    BY <1>5, <2>1 DEF Lookup
  <2> QED
    BY <1>1, <2>2, PrunedKey DEF NoEntry
<1>6. ASSUME NEW h \in Handlers, Answer(h)
      PROVE  cache'[k] = cache[k]
  <2>1. /\ handler[h].pc = "answering" /\ handler[h].age \in Ages
        /\ late \subseteq late' /\ (handler[h].age = TTL => handler[h].key \in late')
    BY <1>1, <1>6 DEF Answer, TypeOK, Thread
  <2>2. CASE handler[h].key = k
    <3>1. handler[h].age < TTL
      BY <2>1, <2>2, AgesOrder
    <3>2. Young(handler[h], k)
      BY <2>1, <2>2, <3>1 DEF Young, Working
    <3>3. k \in late
      BY <1>2, <3>2 DEF KeyInv, OwnsEntry
    <3> QED
      BY <2>1, <3>3
  <2>3. CASE handler[h].key # k
    BY <1>1, <1>6, <2>3 DEF Answer
  <2> QED
    BY <2>2, <2>3
<1>7. ASSUME NEW h \in Handlers, RequestStep(h), ~Lookup(h), ~Answer(h)
      PROVE  cache' = cache
  BY <1>7 DEF RequestStep, Refuse, Admit, ReservePush, Execute, Reject, ReleasePush, Emit,
          EmitReturns, Finish
<1>8. CASE \E h \in Handlers, j \in Keys, content \in Contents : Receive(h, j, content)
  BY <1>3, <1>8 DEF Receive
<1>9. CASE UNCHANGED vars
  BY <1>3, <1>9 DEF vars
<1> QED
  BY <1>3, <1>4, <1>5, <1>6, <1>7, <1>8, <1>9 DEF Next

(* A repetition of a request takes no second effect within the life of the *)
(* reservation and gets the first answer, while its connection is open.    *)
THEOREM AnsweredOnceCorrect == Spec => AnsweredOnce
<1>1. ASSUME IInv, RepeatInv, NEW h \in Handlers, Execute(h),
             session[handler[h].key[1]] = "open"
      PROVE  FirstWithinTTL(h)
  <2>1. /\ handler[h].pc = "running" /\ handler[h].key \in Keys /\ handler[h].age \in Ages
    BY <1>1 DEF Execute, IInv, TypeOK, Thread, Discipline
  <2>2. PICK k \in Keys : k = handler[h].key
    BY <2>1
  <2>3. KeyInv(k)
    BY <1>1, <2>2 DEF RepeatInv, Live
  <2>4. CASE handler[h].age < TTL
    BY <2>1, <2>2, <2>3, <2>4 DEF KeyInv, StartsFresh, Young, Working, FirstWithinTTL
  <2>5. CASE handler[h].age = TTL
    BY <2>5 DEF FirstWithinTTL
  <2> QED
    BY <2>1, <2>4, <2>5, AgesOrder
<1>2. IInv /\ RepeatInv /\ [Next]_vars =>
        [\A h \in Handlers :
            Execute(h) /\ session[handler[h].key[1]] = "open" => FirstWithinTTL(h)]_vars
  BY <1>1
<1>3. IInv /\ RepeatInv /\ [Next]_vars =>
        [\A k \in Keys \ late' :
            /\ cache[k].state = "cached" /\ cache'[k].state = "cached"
            /\ session[k[1]] = "open"
            => cache'[k].answer = cache[k].answer /\ cache'[k].content = cache[k].content]_vars
  BY AnswerStays
<1>4. Spec => ExecutedOnce
  BY <1>2, RequestInvariant, RepeatInvariant, PTL DEF Spec, ExecutedOnce
<1>5. Spec => AnswerIsKept
  BY <1>3, RequestInvariant, RepeatInvariant, PTL DEF Spec, AnswerIsKept
<1> QED
  BY <1>4, <1>5 DEF AnsweredOnce

-----------------------------------------------------------------------------
(***************************************************************************)
(* The jukebox.  That an index is in the list is only looked at when a     *)
(* skip is asked for; it still is when it is set, because nothing but a    *)
(* command changes the list and the tasks of two commands never mix.       *)
(***************************************************************************)
Orders ==
    {<<>>, <<<<"clear">>>>, <<<<"shuffle">>>>, <<<<"start">>>>, <<<<"stop">>>>,
     <<<<"skip">>, <<"start">>>>}
    \cup {<<<<"add", s>>>> : s \in Songs} \cup {<<<<"clear">>, <<"add", s>>>> : s \in Songs}
    \cup {<<<<"remove", i>>>> : i \in Nat}
    \cup {<<<<"index", i>>, <<"skip">>, <<"start">>>> : i \in Nat}

JukeboxTypes ==
    /\ list \in Seq(Songs) /\ index \in Nat
    /\ thread \in {"none", "top", "play"} /\ mixedUp \in BOOLEAN
    /\ player \in [song : Songs \cup {"none"}, over : BOOLEAN]
    /\ command \in Orders

Ordered(c, task) == c # <<>> /\ Head(c)[1] = task

JukeboxInv ==
    /\ JukeboxTypes /\ JukeboxInOrder
    /\ Ordered(command, "index") => InList(Given("index"))
    /\ player # NoPlayer => index <= Len(list)

LEMMA OrderGiven ==
  ASSUME NEW c \in Orders, c # <<>>
  PROVE  /\ Tail(c) \in Orders /\ ~Ordered(Tail(c), "index")
         /\ Ordered(c, "add") => Head(c)[2] \in Songs
         /\ Ordered(c, "remove") \/ Ordered(c, "index") => Head(c)[2] \in Nat
<1>1. CASE c \in {<<<<"clear">>>>, <<<<"shuffle">>>>, <<<<"start">>>>, <<<<"stop">>>>}
  <2>1. PICK t \in {"clear", "shuffle", "start", "stop"} : c = <<<<t>>>>
    BY <1>1
  <2>2. Tail(c) = <<>> /\ Head(c)[1] = t
    BY <2>1
  <2>3. <<>> \in Orders /\ ~Ordered(<<>>, "index")
    BY DEF Orders, Ordered
  <2>4. t \notin {"add", "remove", "index"}
    OBVIOUS
  <2> QED
    BY <2>2, <2>3, <2>4 DEF Ordered
<1>2. CASE c = <<<<"skip">>, <<"start">>>>
  <2>1. Tail(c) = <<<<"start">>>> /\ Head(c)[1] = "skip"
    BY <1>2
  <2>2. Head(<<<<"start">>>>)[1] = "start"
    OBVIOUS
  <2> QED
    BY <2>1, <2>2 DEF Orders, Ordered
<1>3. CASE \E s \in Songs : c = <<<<"add", s>>>>
  <2>1. PICK s \in Songs : c = <<<<"add", s>>>>
    BY <1>3
  <2>2. Tail(c) = <<>> /\ Head(c)[1] = "add" /\ Head(c)[2] = s
    BY <2>1
  <2> QED
    BY <2>2 DEF Orders, Ordered
<1>4. CASE \E s \in Songs : c = <<<<"clear">>, <<"add", s>>>>
  <2>1. PICK s \in Songs : c = <<<<"clear">>, <<"add", s>>>>
    BY <1>4
  <2>2. Tail(c) = <<<<"add", s>>>> /\ Head(c)[1] = "clear"
    BY <2>1
  <2>3. Head(<<<<"add", s>>>>)[1] = "add"
    OBVIOUS
  <2> QED
    BY <2>2, <2>3 DEF Orders, Ordered
<1>5. CASE \E i \in Nat : c = <<<<"remove", i>>>>
  <2>1. PICK i \in Nat : c = <<<<"remove", i>>>>
    BY <1>5
  <2>2. Tail(c) = <<>> /\ Head(c)[1] = "remove" /\ Head(c)[2] = i
    BY <2>1
  <2> QED
    BY <2>2 DEF Orders, Ordered
<1>6. CASE \E i \in Nat : c = <<<<"index", i>>, <<"skip">>, <<"start">>>>
  <2>1. PICK i \in Nat : c = <<<<"index", i>>, <<"skip">>, <<"start">>>>
    BY <1>6
  <2>2. Tail(c) = <<<<"skip">>, <<"start">>>> /\ Head(c)[1] = "index" /\ Head(c)[2] = i
    BY <2>1
  <2>3. Head(<<<<"skip">>, <<"start">>>>)[1] = "skip"
    OBVIOUS
  <2> QED
    BY <2>2, <2>3 DEF Orders, Ordered
<1> QED
  BY <1>1, <1>2, <1>3, <1>4, <1>5, <1>6 DEF Orders

(* A command is asked for.                                                 *)
LEMMA AskedInv ==
  ASSUME JukeboxInv, NEW c \in Orders, Asked(c),
         Ordered(c, "index") => InList(Head(c)[2])
  PROVE  JukeboxInv'
<1>1. /\ command' = c
      /\ UNCHANGED <<list, index, skipping, stopping, thread, player, mixedUp>>
  BY DEF Asked
<1>2. JukeboxTypes'
  BY <1>1 DEF JukeboxInv, JukeboxTypes
<1>3. JukeboxInOrder'
  BY <1>1 DEF JukeboxInv, JukeboxInOrder, InList, Song
<1>4. Ordered(command', "index") => Head(command')[2] < Len(list')
  BY <1>1 DEF InList
<1> QED
  BY <1>1, <1>2, <1>3, <1>4 DEF JukeboxInv, Given, InList, Ordered

LEMMA AsksInv ==
  ASSUME JukeboxInv,
         \/ \E s \in Songs : AskAdd(s) \/ AskSet(s)
         \/ \E i \in 0 .. MaxList : AskRemove(i) \/ AskSkip(i)
         \/ AskClear \/ AskShuffle \/ AskStart \/ AskStop
  PROVE  JukeboxInv'
<1>1. CASE \E s \in Songs : AskAdd(s)
  <2>1. PICK s \in Songs : AskAdd(s)
    BY <1>1
  <2>2. <<<<"add", s>>>> \in Orders
    BY DEF Orders
  <2>3. Head(<<<<"add", s>>>>)[1] = "add"
    OBVIOUS
  <2> QED
    BY <2>1, <2>2, <2>3, AskedInv DEF AskAdd, Ordered
<1>2. CASE \E s \in Songs : AskSet(s)
  <2>1. PICK s \in Songs : AskSet(s)
    BY <1>2
  <2>2. <<<<"clear">>, <<"add", s>>>> \in Orders
    BY DEF Orders
  <2>3. Head(<<<<"clear">>, <<"add", s>>>>)[1] = "clear"
    OBVIOUS
  <2> QED
    BY <2>1, <2>2, <2>3, AskedInv DEF AskSet, Ordered
<1>3. CASE \E i \in 0 .. MaxList : AskRemove(i)
  <2>1. PICK i \in 0 .. MaxList : AskRemove(i)
    BY <1>3
  <2>2. i \in Nat /\ <<<<"remove", i>>>> \in Orders
    BY JukeboxAssumption DEF Orders
  <2>3. Head(<<<<"remove", i>>>>)[1] = "remove"
    OBVIOUS
  <2> QED
    BY <2>1, <2>2, <2>3, AskedInv DEF AskRemove, Ordered
<1>4. CASE \E i \in 0 .. MaxList : AskSkip(i)
  <2>1. PICK i \in 0 .. MaxList : AskSkip(i)
    BY <1>4
  <2>2. i \in Nat /\ <<<<"index", i>>, <<"skip">>, <<"start">>>> \in Orders
    BY JukeboxAssumption DEF Orders
  <2>3. Head(<<<<"index", i>>, <<"skip">>, <<"start">>>>)[2] = i
    OBVIOUS
  <2> QED
    BY <2>1, <2>2, <2>3, AskedInv DEF AskSkip
<1>5. CASE AskClear \/ AskShuffle \/ AskStart \/ AskStop
  <2>1. PICK t \in {"clear", "shuffle", "start", "stop"} : Asked(<<<<t>>>>)
    BY <1>5 DEF AskClear, AskShuffle, AskStart, AskStop
  <2>2. <<<<t>>>> \in Orders
    BY DEF Orders
  <2>3. Head(<<<<t>>>>)[1] = t
    OBVIOUS
  <2> QED
    BY <2>1, <2>2, <2>3, AskedInv DEF Ordered
<1> QED
  BY <1>1, <1>2, <1>3, <1>4, <1>5

(* What RemoveAt leaves.                                                   *)
LEMMA Removed ==
    ASSUME NEW S, NEW s \in Seq(S), NEW i \in 1 .. Len(s)
    PROVE  /\ RemoveAt(s, i) \in Seq(S) /\ Len(RemoveAt(s, i)) = Len(s) - 1
           /\ \A j \in 1 .. Len(s) - 1 :
                RemoveAt(s, i)[j] = IF j < i THEN s[j] ELSE s[j + 1]
<1> DEFINE a == SubSeq(s, 1, i - 1)
           b == SubSeq(s, i + 1, Len(s))
<1>1. /\ a \in Seq(S) /\ Len(a) = i - 1 /\ \A j \in 1 .. i - 1 : a[j] = s[j]
      /\ b \in Seq(S) /\ Len(b) = Len(s) - i /\ \A j \in 1 .. Len(s) - i : b[j] = s[j + i]
  OBVIOUS
<1> HIDE DEF a, b
<1>2. /\ a \o b \in Seq(S) /\ Len(a \o b) = Len(s) - 1
      /\ \A j \in 1 .. Len(s) - 1 :
            (a \o b)[j] = IF j <= i - 1 THEN a[j] ELSE b[j - (i - 1)]
  <2>1. /\ a \o b \in Seq(S) /\ Len(a \o b) = Len(a) + Len(b)
        /\ \A j \in 1 .. Len(a) + Len(b) :
              (a \o b)[j] = IF j <= Len(a) THEN a[j] ELSE b[j - Len(a)]
    BY <1>1, ConcatProperties
  <2>2. Len(a) + Len(b) = Len(s) - 1
    BY <1>1
  <2> QED BY <1>1, <2>1, <2>2
<1>3. ASSUME NEW j \in 1 .. Len(s) - 1
      PROVE  (a \o b)[j] = IF j < i THEN s[j] ELSE s[j + 1]
  <2>1. CASE j < i
    BY <1>1, <1>2, <2>1
  <2>2. CASE ~(j < i)
    <3> DEFINE n == j - (i - 1)
    <3>1. n \in 1 .. Len(s) - i /\ n + i = j + 1 /\ ~(j <= i - 1)
      BY <2>2
    <3>2. b[n] = s[n + i]
      BY <1>1, <3>1
    <3>3. (a \o b)[j] = b[n]
      BY <1>2, <3>1
    <3> QED BY <2>2, <3>1, <3>2, <3>3
  <2> QED BY <2>1, <2>2
<1> QED BY <1>2, <1>3 DEF RemoveAt, a, b

(* What is left of a command when a task of it has been done.              *)
LEMMA TaskDone ==
  ASSUME JukeboxInv, NEW task, Does(task)
  PROVE  /\ command' \in Orders /\ ~Ordered(command', "index")
         /\ task = "add" => Given("add") \in Songs
         /\ task = "remove" => Given("remove") \in Nat
         /\ task = "index" => Given("index") \in Nat /\ InList(Given("index"))
<1>1. /\ command \in Orders /\ command # <<>> /\ command' = Tail(command)
      /\ Ordered(command, task)
  BY DEF JukeboxInv, JukeboxTypes, Does, Ordered
<1>2. /\ Tail(command) \in Orders /\ ~Ordered(Tail(command), "index")
      /\ Ordered(command, "add") => Head(command)[2] \in Songs
      /\ Ordered(command, "remove") \/ Ordered(command, "index") => Head(command)[2] \in Nat
  BY <1>1, OrderGiven
<1> QED
  BY <1>1, <1>2 DEF JukeboxInv, Given

LEMMA RemoveSongInv ==
  ASSUME JukeboxInv, RemoveSong
  PROVE  JukeboxInv'
<1> DEFINE i == Given("remove")
<1>1. /\ command' \in Orders /\ ~Ordered(command', "index") /\ i \in Nat
  BY TaskDone DEF RemoveSong
<1>2. /\ list \in Seq(Songs) /\ index \in Nat /\ Len(list) \in Nat
      /\ index <= Len(list) + 1
      /\ player # NoPlayer => index <= Len(list) /\ thread # "none"
      /\ player # NoPlayer /\ ~mixedUp => InList(index) /\ Song(index) = player.song
  BY LenProperties DEF JukeboxInv, JukeboxTypes, JukeboxInOrder
<1>3. /\ list' = IF InList(i) THEN RemoveAt(list, i + 1) ELSE list
      /\ index' = IndexAfterRemoval(i)
      /\ mixedUp' = (mixedUp \/ (i = index /\ InList(i) /\ player # NoPlayer))
      /\ UNCHANGED <<skipping, stopping, thread, player, commands>>
  BY DEF RemoveSong
<1> HIDE DEF i
<1>4. CASE ~InList(i)
  <2>1. list' = list /\ index' = index /\ mixedUp' = mixedUp
    BY <1>3, <1>4 DEF JukeboxInv, JukeboxTypes, IndexAfterRemoval
  <2> QED
    BY <1>1, <1>2, <1>3, <2>1
       DEF JukeboxInv, JukeboxTypes, JukeboxInOrder, InList, Song, Ordered, Given
<1>5. CASE InList(i)
  <2>1. i < Len(list)
    BY <1>5 DEF InList
  <2>2. /\ list' \in Seq(Songs) /\ Len(list') = Len(list) - 1
        /\ \A j \in 1 .. Len(list) - 1 : list'[j] = IF j < i + 1 THEN list[j] ELSE list[j + 1]
    <3>1. i + 1 \in 1 .. Len(list)
      BY <1>1, <1>2, <2>1
    <3> QED
      BY <1>2, <1>3, <1>5, <3>1, Removed
  <2>3. index' = IF i < index THEN index - 1 ELSE index
    BY <1>3, <1>5 DEF IndexAfterRemoval
  <2>4. /\ index' \in Nat /\ index' <= Len(list') + 1
        /\ player # NoPlayer => index' <= Len(list')
    BY <1>1, <1>2, <2>1, <2>2, <2>3
  <2>5. ASSUME player # NoPlayer, ~mixedUp'
        PROVE  index' < Len(list') /\ list'[index' + 1] = player.song
    <3>1. /\ i # index /\ index < Len(list) /\ list[index + 1] = player.song
      BY <1>2, <1>3, <1>5, <2>5 DEF JukeboxInv, JukeboxTypes, InList, Song
    <3>2. CASE i < index
      <4>1. /\ index' = index - 1 /\ index' + 1 = index /\ index \in 1 .. Len(list) - 1
            /\ ~(index < i + 1)
        BY <1>1, <1>2, <2>3, <3>1, <3>2
      <4> QED
        BY <1>2, <2>2, <3>1, <4>1
    <3>3. CASE index < i
      <4>1. index' = index /\ index + 1 \in 1 .. Len(list) - 1 /\ index + 1 < i + 1
        BY <1>1, <1>2, <2>1, <2>3, <3>1, <3>3
      <4> QED
        BY <1>2, <2>2, <3>1, <4>1
    <3> QED
      BY <1>1, <1>2, <3>1, <3>2, <3>3
  <2>6. JukeboxTypes'
    BY <1>1, <1>3, <2>2, <2>4 DEF JukeboxInv, JukeboxTypes
  <2>7. JukeboxInOrder'
    BY <1>2, <1>3, <2>4, <2>5 DEF JukeboxInOrder, InList, Song
  <2> QED
    BY <1>1, <1>3, <2>4, <2>6, <2>7 DEF JukeboxInv, Ordered, Given
<1> QED
  BY <1>4, <1>5

(* The other tasks.                                                        *)
LEMMA TaskInv ==
  ASSUME JukeboxInv,
         Add \/ Clear \/ Shuffle \/ Index \/ Skip \/ Start \/ Stop
  PROVE  JukeboxInv'
<1>1. /\ list \in Seq(Songs) /\ index \in Nat /\ Len(list) \in Nat
      /\ index <= Len(list) + 1
      /\ player # NoPlayer => index <= Len(list) /\ thread # "none"
      /\ player # NoPlayer /\ ~mixedUp => index < Len(list) /\ list[index + 1] = player.song
      /\ JukeboxTypes
  BY LenProperties DEF JukeboxInv, JukeboxTypes, JukeboxInOrder, InList, Song
<1>2. command' \in Orders /\ ~Ordered(command', "index")
  BY TaskDone DEF Add, Clear, Shuffle, Index, Skip, Start, Stop
<1>3. ASSUME list' \in Seq(Songs), index' \in Nat, mixedUp' \in BOOLEAN, player' = player,
             thread' \in {"none", "top", "play"}, thread # "none" => thread' # "none",
             index' <= Len(list') + 1,
             player # NoPlayer => index' <= Len(list'),
             player # NoPlayer /\ ~mixedUp' => index' < Len(list') /\ list'[index' + 1] = player.song
      PROVE  JukeboxInv'
  <2>1. JukeboxTypes'
    BY <1>1, <1>2, <1>3 DEF JukeboxTypes
  <2>2. JukeboxInOrder'
    BY <1>1, <1>3 DEF JukeboxInOrder, InList, Song
  <2> QED
    BY <1>2, <1>3, <2>1, <2>2 DEF JukeboxInv, Ordered, Given
<1>4. CASE Add
  <2> DEFINE s == Given("add")
  <2>1. s \in Songs /\ list' = Append(list, s)
    BY <1>4, TaskDone DEF Add
  <2> HIDE DEF s
  <2>2. /\ list' \in Seq(Songs) /\ Len(list') = Len(list) + 1
        /\ \A j \in 1 .. Len(list) : list'[j] = list[j]
    BY <1>1, <2>1, AppendProperties
  <2>3. /\ UNCHANGED <<index, player, thread, mixedUp>>
    BY <1>4 DEF Add
  <2>4. player # NoPlayer /\ ~mixedUp =>
            index < Len(list') /\ list'[index + 1] = player.song
    BY <1>1, <2>2
  <2>5. index <= Len(list') + 1 /\ (player # NoPlayer => index <= Len(list'))
    BY <1>1, <2>2
  <2> QED
    BY <1>1, <1>3, <2>2, <2>3, <2>4, <2>5 DEF JukeboxTypes
<1>5. CASE Clear
  <2>1. /\ list' = <<>> /\ index' = 0 /\ mixedUp' = (player # NoPlayer)
        /\ UNCHANGED <<player, thread>>
    BY <1>5 DEF Clear
  <2>2. list' \in Seq(Songs) /\ Len(list') = 0
    BY <2>1
  <2>3. mixedUp' \in BOOLEAN /\ (player # NoPlayer => mixedUp')
    BY <2>1
  <2>4. index' \in Nat /\ index' <= Len(list') + 1 /\ index' <= Len(list')
    BY <2>1, <2>2
  <2>5. thread' \in {"none", "top", "play"} /\ thread' = thread /\ player' = player
    BY <1>1, <2>1 DEF JukeboxTypes
  <2> QED
    BY <1>3, <2>2, <2>3, <2>4, <2>5
<1>6. CASE Shuffle
  <2>1. /\ list' \in {Reverse(list), list} /\ mixedUp' = (player # NoPlayer)
        /\ UNCHANGED <<index, player, thread>>
    BY <1>6 DEF Shuffle
  <2>2. Reverse(list) \in Seq(Songs) /\ Len(Reverse(list)) = Len(list)
    <3>1. \A j \in 1 .. Len(list) : (Len(list) - j) + 1 \in 1 .. Len(list)
      BY <1>1
    <3>2. Reverse(list) \in [1 .. Len(list) -> Songs]
      BY <1>1, <3>1, ElementOfSeq DEF Reverse
    <3> QED
      BY <1>1, <3>2, LenProperties
  <2>3. list' \in Seq(Songs) /\ Len(list') = Len(list)
    BY <1>1, <2>1, <2>2
  <2> QED
    BY <1>1, <1>3, <2>1, <2>3 DEF JukeboxTypes
<1>7. CASE Index
  <2>1. Given("index") \in Nat /\ InList(Given("index"))
    BY <1>7, TaskDone DEF Index
  <2>2. /\ index' \in Nat /\ index' < Len(list) /\ mixedUp' = (player # NoPlayer)
        /\ UNCHANGED <<list, player, thread>>
    BY <1>7, <2>1 DEF Index, InList
  <2>3. index' <= Len(list) /\ index' <= Len(list) + 1
    BY <1>1, <2>2
  <2> QED
    BY <1>1, <1>3, <2>2, <2>3 DEF JukeboxTypes
<1>8. CASE Skip \/ Start \/ Stop
  <2>1. /\ UNCHANGED <<list, index, player, mixedUp>>
        /\ thread' = thread \/ (thread = "none" /\ thread' = "top")
    BY <1>1, <1>8 DEF Skip, Start, Stop
  <2>2. /\ thread' \in {"none", "top", "play"} /\ (thread # "none" => thread' # "none")
    BY <1>1, <2>1 DEF JukeboxTypes
  <2> QED
    BY <1>1, <1>3, <2>1, <2>2 DEF JukeboxTypes
<1> QED
  BY <1>4, <1>5, <1>6, <1>7, <1>8

LEMMA ThreadInv ==
  ASSUME JukeboxInv, Top \/ Play \/ Ends
  PROVE  JukeboxInv'
<1>1. /\ list \in Seq(Songs) /\ index \in Nat /\ Len(list) \in Nat
      /\ index <= Len(list) + 1
      /\ player # NoPlayer => index <= Len(list) /\ thread # "none"
      /\ player # NoPlayer /\ ~mixedUp => index < Len(list) /\ list[index + 1] = player.song
      /\ JukeboxTypes /\ (Ordered(command, "index") => InList(Given("index")))
  BY LenProperties DEF JukeboxInv, JukeboxTypes, JukeboxInOrder, InList, Song
<1>2. UNCHANGED <<list, command>>
  BY DEF Top, Play, Ends
<1>3. ASSUME index' \in Nat, mixedUp' \in BOOLEAN,
             player' \in [song : Songs \cup {"none"}, over : BOOLEAN],
             thread' \in {"none", "top", "play"}, index' <= Len(list) + 1,
             player' # NoPlayer => index' <= Len(list) /\ thread' # "none",
             player' # NoPlayer /\ ~mixedUp' => index' < Len(list) /\ list[index' + 1] = player'.song
      PROVE  JukeboxInv'
  <2>1. JukeboxTypes'
    BY <1>1, <1>2, <1>3 DEF JukeboxTypes
  <2>2. JukeboxInOrder'
    BY <1>1, <1>2, <1>3 DEF JukeboxInOrder, InList, Song
  <2> QED
    BY <1>1, <1>2, <1>3, <2>1, <2>2 DEF JukeboxInv, Ordered, Given, InList
<1>4. NoPlayer \in [song : Songs \cup {"none"}, over : BOOLEAN] /\ NoPlayer.over = FALSE
  BY DEF NoPlayer
<1>5. CASE Top
  <2>1. /\ index' = index /\ thread' \in {"none", "top", "play"}
        /\ \/ player' = NoPlayer /\ mixedUp' = FALSE
           \/ player' = player /\ mixedUp' = mixedUp /\ thread' = "play"
    BY <1>5 DEF Top, EndThread
  <2>2. /\ mixedUp' \in BOOLEAN /\ index' \in Nat
        /\ player' \in [song : Songs \cup {"none"}, over : BOOLEAN]
    BY <1>1, <1>4, <2>1 DEF JukeboxTypes
  <2>3. player' # NoPlayer =>
            player' = player /\ (mixedUp' <=> mixedUp) /\ thread' = "play"
    BY <2>1
  <2>4. /\ player' # NoPlayer => index' <= Len(list) /\ thread' # "none"
        /\ player' # NoPlayer /\ ~mixedUp' =>
                index' < Len(list) /\ list[index' + 1] = player'.song
    BY <1>1, <2>1, <2>3
  <2> QED
    BY <1>1, <1>3, <2>1, <2>2, <2>4
<1>6. ASSUME NEW i \in Nat, PlayFile(i), index' = i, i <= Len(list) + 1
      PROVE  JukeboxInv'
  <2>1. CASE i < Len(list)
    <3>1. /\ thread' = "top" /\ mixedUp' = FALSE
          /\ player' \in {NoPlayer, [song |-> list[i + 1], over |-> FALSE]}
      BY <1>6, <2>1 DEF PlayFile, InList, Song
    <3>2. list[i + 1] \in Songs
      <4>1. i + 1 \in 1 .. Len(list)
        BY <1>1, <2>1
      <4> QED
        BY <1>1, <4>1, ElementOfSeq
    <3>3. player' \in [song : Songs \cup {"none"}, over : BOOLEAN]
      <4>1. [song |-> list[i + 1], over |-> FALSE] \in [song : Songs \cup {"none"}, over : BOOLEAN]
        BY <3>2
      <4> QED
        BY <1>4, <3>1, <4>1
    <3>4. player' # NoPlayer => player'.song = list[i + 1]
      BY <3>1
    <3>5. i <= Len(list)
      BY <1>1, <2>1
    <3> QED
      BY <1>1, <1>3, <1>6, <2>1, <3>1, <3>3, <3>4, <3>5
  <2>2. CASE ~(i < Len(list))
    <3>1. thread' = "none" /\ mixedUp' = FALSE /\ player' = NoPlayer
      BY <1>6, <2>2 DEF PlayFile, InList, EndThread
    <3> QED
      BY <1>3, <1>4, <1>6, <3>1
  <2> QED
    BY <2>1, <2>2
<1>7. CASE Play
  <2>1. CASE player = NoPlayer /\ PlayFile(index) /\ UNCHANGED index
    BY <1>1, <1>6, <2>1
  <2>2. CASE player # NoPlayer /\ thread' = "top" /\ UNCHANGED <<index, player, mixedUp>>
    BY <1>1, <1>3, <2>2 DEF JukeboxTypes
  <2>3. CASE /\ player.over /\ index' = NextIndex
             /\ IF InList(NextIndex) THEN PlayFile(NextIndex) ELSE EndThread
    <3>1. player # NoPlayer
      BY <1>4, <2>3
    <3>2. NextIndex \in Nat /\ NextIndex <= Len(list) + 1 /\ index' = NextIndex
      BY <1>1, <2>3, <3>1 DEF NextIndex
    <3>3. PlayFile(NextIndex)
      BY <2>3 DEF PlayFile
    <3> QED
      BY <1>6, <3>2, <3>3
  <2> QED
    BY <1>7, <2>1, <2>2, <2>3 DEF Play
<1>8. CASE Ends
  <2>1. /\ player # NoPlayer /\ player' = [player EXCEPT !.over = TRUE]
        /\ UNCHANGED <<index, thread, mixedUp>>
    BY <1>8 DEF Ends
  <2>2. /\ player' \in [song : Songs \cup {"none"}, over : BOOLEAN]
        /\ player'.song = player.song
    BY <1>1, <2>1 DEF JukeboxTypes
  <2> QED
    BY <1>1, <1>3, <2>1, <2>2 DEF JukeboxTypes
<1> QED
  BY <1>5, <1>7, <1>8

LEMMA JukeboxStep ==
  ASSUME JukeboxInv, NextJukebox
  PROVE  JukeboxInv'
<1>1. CASE \/ \E s \in Songs : AskAdd(s) \/ AskSet(s)
           \/ \E i \in 0 .. MaxList : AskRemove(i) \/ AskSkip(i)
           \/ AskClear \/ AskShuffle \/ AskStart \/ AskStop
  BY <1>1, AsksInv
<1>2. CASE RemoveSong
  BY <1>2, RemoveSongInv
<1>3. CASE Add \/ Clear \/ Shuffle \/ Index \/ Skip \/ Start \/ Stop
  BY <1>3, TaskInv
<1>4. CASE Top \/ Play \/ Ends
  BY <1>4, ThreadInv
<1> QED
  BY <1>1, <1>2, <1>3, <1>4 DEF NextJukebox

(* What terminate does to the jukebox, and what the rest does not.         *)
LEMMA JukeboxKept ==
  ASSUME JukeboxInv,
         UNCHANGED <<list, index, thread, player, command, mixedUp>>
  PROVE  JukeboxInv'
<1>1. JukeboxTypes' /\ JukeboxInOrder'
  BY DEF JukeboxInv, JukeboxTypes, JukeboxInOrder, InList, Song
<1> QED
  BY <1>1 DEF JukeboxInv, Ordered, Given, InList

(* What a command has found out about the list still holds when it acts on *)
(* it, because the tasks of two commands never mix: the inductive          *)
(* invariant of the jukebox.                                               *)
THEOREM JukeboxInvariant == SpecDaemon => []JukeboxInv
<1>1. InitDaemon => JukeboxInv
  <2> SUFFICES ASSUME InitJukebox PROVE JukeboxInv
    BY DEF InitDaemon
  <2>1. <<>> \in Seq(Songs) /\ Len(<<>>) = 0 /\ <<>> \in Orders
    BY DEF Orders
  <2>2. NoPlayer \in [song : Songs \cup {"none"}, over : BOOLEAN]
    BY DEF NoPlayer
  <2>3. JukeboxTypes
    BY <2>1, <2>2 DEF InitJukebox, JukeboxTypes
  <2>4. index <= Len(list) + 1
    BY <2>1 DEF InitJukebox
  <2>5. player = NoPlayer /\ command = <<>>
    BY DEF InitJukebox
  <2> QED
    BY <2>3, <2>4, <2>5 DEF JukeboxInv, JukeboxInOrder, Ordered
<1>2. JukeboxInv /\ [NextDaemon]_allVars => JukeboxInv'
  <2> SUFFICES ASSUME JukeboxInv, [NextDaemon]_allVars PROVE JukeboxInv'
    OBVIOUS
  <2>1. CASE NextJukebox
    BY <2>1, JukeboxStep
  <2>2. CASE UNCHANGED <<list, index, thread, player, command, mixedUp>>
    BY <2>2, JukeboxKept
  <2>3. UNCHANGED jukeboxVars => UNCHANGED <<list, index, thread, player, command, mixedUp>>
    BY DEF jukeboxVars
  <2> QED
    BY <2>1, <2>2, <2>3
       DEF NextDaemon, allVars, BadSkip, JobStarts, JobEnds, Terminate, StopWatcher,
           StopScheduler, StopJukebox, Terminated
<1> QED
  BY <1>1, <1>2, PTL DEF SpecDaemon

(* No program plays on without its thread, the index is that of the song   *)
(* that is played unless the list has been changed under it, and it is     *)
(* never more than one beyond the end, however commands and thread cross.  *)
THEOREM JukeboxCorrect == SpecDaemon => []JukeboxInOrder
<1>1. JukeboxInv => JukeboxInOrder
  BY DEF JukeboxInv
<1> QED
  BY <1>1, JukeboxInvariant, PTL

-----------------------------------------------------------------------------
(***************************************************************************)
(* The library.  Of a file that is not astray, what happened to it last is *)
(* in one place at least: the last note that concerns it tells whether it  *)
(* is there; when there is none, the event of its path in the queue does;  *)
(* when there is none of either, what the worker still has to do; and else *)
(* its track is right.  While a scan reads the folder, which is not        *)
(* watched then, the scan has it still to look at, or has seen to it.      *)
(***************************************************************************)
Ops == {"scan", "create", "move", "remove"}
Events == [path : Paths, ops : SUBSET Ops, src : Paths \cup {"none"}]
Rows == [id : Nat, time : Nat]
Reads == [path : Paths \cup {"none"}, id : Nat, time : Nat]

(* What can be left of the tasks of an event.                              *)
Todos == {<<>>, <<"remove">>, <<"store">>, <<"store", "remove">>,
          <<"read", "store">>, <<"read", "store", "remove">>,
          <<"move">>, <<"move", "remove">>,
          <<"move", "read", "store">>, <<"move", "read", "store", "remove">>}

EndsGone == {<<"remove">>, <<"store", "remove">>, <<"read", "store", "remove">>,
             <<"move", "remove">>, <<"move", "read", "store", "remove">>}

(* An event as the observer notes it, and as merging leaves it.            *)
Raw(e) ==
    /\ e.ops \in {{"scan"}, {"scan", "create"}, {"remove"}, {"move"}}
    /\ IF "move" \in e.ops THEN e.src \in Paths /\ e.src # e.path ELSE e.src = "none"

Sound(e) ==
    /\ "move" \in e.ops => e.src \in Paths
    /\ "create" \in e.ops => "scan" \in e.ops \/ "remove" \in e.ops

OneEach(events) ==
    \A i, j \in DOMAIN events : events[i].path = events[j].path => i = j

WatcherTypes ==
    /\ disk \in [Paths -> Nat] /\ changes \in Nat
    /\ tracks \in [Paths -> Rows] /\ made \in Nat
    /\ watched \in BOOLEAN /\ open \in BOOLEAN
    /\ notes \in Seq(Events) /\ queue \in Seq(Events)
    /\ worker \in [phase : {"waiting", "batch", "pruning", "ended"},
                   item : Events \cup {NoEvent}, todo : Todos, read : Reads]
    /\ scan \in [phase : {"off", "queued", "reading", "removed", "repairing"},
                 left : SUBSET Paths, read : Reads]

EventsOK ==
    /\ \A i \in DOMAIN notes : Raw(notes[i])
    /\ \A e \in ToSet(queue) : Sound(e)
    /\ OneEach(queue)
    /\ ~watched => notes = <<>> /\ queue = <<>>

WorkerOK ==
    /\ worker.todo # <<>> => worker.item \in Events /\ Sound(worker.item)
    /\ Task("move") => worker.todo = Tasks(worker.item.ops)
    /\ worker.read # NoRead <=> Task("store")
    /\ Task("store") => worker.read.path = worker.item.path /\ worker.read.id <= made

ScanOK ==
    /\ scan.read # NoRead =>
        /\ scan.phase = "reading" /\ scan.read.path \in Paths \ scan.left
        /\ scan.read.id <= made
    /\ scan.phase \in {"reading", "removed"} => ~watched /\ AtWork \subseteq astray

(* A track has an id of its own, and what was read of it is still where it *)
(* was, or went with the file that the worker moves.                       *)
IdsOK ==
    \A p, q \in Paths :
        /\ tracks[p].id <= made
        /\ tracks[p].id = tracks[q].id /\ tracks[p].id > 0 => p = q

WorkersRow ==
    Task("store") /\ worker.read.id > 0 =>
        \A q \in Paths : tracks[q].id = worker.read.id =>
            \/ q = worker.item.path
            \/ q = worker.item.src /\ AtWork \subseteq astray

MovedFrom(p, q) == worker.item.path = q /\ worker.item.src = p

ScansRow ==
    scan.read # NoRead /\ scan.read.id > 0 =>
        \A q \in Paths : tracks[q].id = scan.read.id /\ q # scan.read.path =>
            /\ {q, scan.read.path} \subseteq astray
            /\ worker.todo # <<>> => MovedFrom(scan.read.path, q)

SameRow ==
    Task("store") /\ scan.read # NoRead /\ scan.read.id > 0 /\ scan.read.id = worker.read.id =>
        scan.read.path \in AtWork

RowsOK == IdsOK /\ WorkersRow /\ ScansRow /\ SameRow

-----------------------------------------------------------------------------
Concerns(e, p) == p \in {e.path, e.src}

Synced(p) == tracks[p].id > 0 /\ tracks[p].time >= disk[p]

Tells(e, p) ==
    IF disk[p] = 0 THEN e.src = p \/ (e.path = p /\ "remove" \in e.ops)
    ELSE e.path = p /\ "remove" \notin e.ops

NotesTell(p) ==
    \A i \in DOMAIN notes :
        /\ Concerns(notes[i], p)
        /\ \A j \in DOMAIN notes : j > i => ~Concerns(notes[j], p)
        => Tells(notes[i], p)

Unnoted(p) == \A e \in ToSet(notes) : ~Concerns(e, p)

Settles(e, p) ==
    IF disk[p] = 0 THEN "remove" \in e.ops
    ELSE "remove" \notin e.ops /\ ("scan" \in e.ops \/ "move" \in e.ops)

QueueSettles(p) == \A e \in ToSet(queue) : e.path = p => Settles(e, p)

Unqueued(p) == \A e \in ToSet(queue) : e.path # p

TakenAway(p) == \E e \in ToSet(queue) : e.src = p /\ "move" \in e.ops

WorksOn(p) == worker.todo # <<>> /\ worker.item.path = p

WorkerAdds(p) ==
    IF WorksOn(p)
    THEN worker.todo \notin EndsGone /\ (Task("store") => worker.read.time >= disk[p])
    ELSE Synced(p)

WorkerDrops(p) ==
    \/ WorksOn(p) /\ worker.todo \in EndsGone
    \/ Task("move") /\ worker.item.src = p /\ worker.item.path # p
    \/ tracks[p].id = 0 /\ (WorksOn(p) => ~Task("move") /\ ~Task("store"))

WorkerSettles(p) ==
    IF disk[p] = 0 THEN TakenAway(p) \/ WorkerDrops(p) ELSE WorkerAdds(p)

Followed(p) ==
    /\ NotesTell(p)
    /\ Unnoted(p) => QueueSettles(p) /\ (Unqueued(p) => WorkerSettles(p))

Scanned(p) ==
    /\ scan.phase = "reading" /\ scan.read.path = p =>
        scan.read.time >= disk[p] /\ scan.read.id = tracks[p].id
    /\ scan.phase = "reading" /\ scan.read.path # p /\ p \notin scan.left /\ disk[p] > 0 => Synced(p)
    /\ scan.phase = "removed" => IF disk[p] = 0 THEN tracks[p].id = 0 ELSE Synced(p)

PathOK(p) ==
    /\ watched => Followed(p)
    /\ Scanned(p)
    /\ Task("store") /\ worker.item.path = p => worker.read.id = tracks[p].id

PathsOK == \A p \in Paths \ astray : PathOK(p)

LibraryInv == WatcherTypes /\ EventsOK /\ WorkerOK /\ ScanOK /\ RowsOK /\ PathsOK

-----------------------------------------------------------------------------
(* Short sequences put together.                                           *)
LEMMA JoinedLast ==
  ASSUME NEW S, NEW s \in Seq(S), NEW x \in S, NEW t \in Seq(S), Len(t) = Len(s) + 1,
         t[Len(t)] = x, \A i \in 1 .. Len(s) : t[i] = s[i]
  PROVE  s \o <<x>> = t
<1>1. /\ Append(s, x) \in Seq(S) /\ Len(Append(s, x)) = Len(t)
      /\ \A i \in 1 .. Len(t) : Append(s, x)[i] = t[i]
  BY AppendProperties, LenProperties
<1>2. Append(s, x) = t
  BY <1>1, SeqEqual
<1> QED
  BY <1>2, AppendIsConcat

LEMMA Joined ==
  ASSUME NEW S, NEW x \in S, NEW y \in S, NEW z \in S
  PROVE  /\ <<x>> \o <<y>> = <<x, y>>
         /\ <<x, y>> \o <<z>> = <<x, y, z>>
         /\ <<x>> \o <<y, z>> = <<x, y, z>>
<1>1. <<x>> \o <<y>> = <<x, y>>
  <2> DEFINE s == <<x>>
             t == <<x, y>>
  <2>1. /\ s \in Seq(S) /\ t \in Seq(S) /\ Len(s) = 1 /\ Len(t) = 2
        /\ t[2] = y /\ \A i \in 1 .. 1 : t[i] = s[i]
    OBVIOUS
  <2> HIDE DEF s, t
  <2>2. Len(t) = Len(s) + 1 /\ t[Len(t)] = y /\ \A i \in 1 .. Len(s) : t[i] = s[i]
    BY <2>1
  <2>3. s \o <<y>> = t
    BY <2>1, <2>2, JoinedLast
  <2> QED
    BY <2>3 DEF s, t
<1>2. <<x, y>> \o <<z>> = <<x, y, z>>
  <2> DEFINE s == <<x, y>>
             t == <<x, y, z>>
  <2>1. /\ s \in Seq(S) /\ t \in Seq(S) /\ Len(s) = 2 /\ Len(t) = 3
        /\ t[3] = z /\ \A i \in 1 .. 2 : t[i] = s[i]
    OBVIOUS
  <2> HIDE DEF s, t
  <2>2. Len(t) = Len(s) + 1 /\ t[Len(t)] = z /\ \A i \in 1 .. Len(s) : t[i] = s[i]
    BY <2>1
  <2>3. s \o <<z>> = t
    BY <2>1, <2>2, JoinedLast
  <2> QED
    BY <2>3 DEF s, t
<1>3. <<x>> \o <<y, z>> = <<x, y, z>>
  <2>1. <<x>> \in Seq(S) /\ <<y>> \in Seq(S) /\ <<z>> \in Seq(S)
    OBVIOUS
  <2>2. <<x>> \o (<<y>> \o <<z>>) = (<<x>> \o <<y>>) \o <<z>>
    BY <2>1, ConcatAssociative
  <2> DEFINE a == <<x>>
             b == <<y>>
             c == <<z>>
  <2>3. b \o c = <<y, z>>
    <3> DEFINE t == <<y, z>>
    <3>1. /\ b \in Seq(S) /\ t \in Seq(S) /\ Len(b) = 1 /\ Len(t) = 2
          /\ t[2] = z /\ \A i \in 1 .. 1 : t[i] = b[i]
      OBVIOUS
    <3> HIDE DEF b, t
    <3>2. Len(t) = Len(b) + 1 /\ t[Len(t)] = z /\ \A i \in 1 .. Len(b) : t[i] = b[i]
      BY <3>1
    <3>3. b \o <<z>> = t
      BY <3>1, <3>2, JoinedLast
    <3> QED
      BY <3>3 DEF b, t
  <2> QED
    BY ONLY <1>1, <1>2, <2>2, <2>3
<1> QED
  BY <1>1, <1>2, <1>3

LEMMA JoinedFour ==
  ASSUME NEW S, NEW x \in S, NEW y \in S, NEW z \in S, NEW u \in S
  PROVE  <<x, y, z>> \o <<u>> = <<x, y, z, u>>
<1> DEFINE s == <<x, y, z>>
           t == <<x, y, z, u>>
<1>1. /\ s \in Seq(S) /\ t \in Seq(S) /\ Len(s) = 3 /\ Len(t) = 4
      /\ t[4] = u /\ \A i \in 1 .. 3 : t[i] = s[i]
  OBVIOUS
<1> HIDE DEF s, t
<1>2. Len(t) = Len(s) + 1 /\ t[Len(t)] = u /\ \A i \in 1 .. Len(s) : t[i] = s[i]
  BY <1>1
<1>3. s \o <<u>> = t
  BY <1>1, <1>2, JoinedLast
<1> QED
  BY <1>3 DEF s, t

LEMMA JoinedNone ==
  ASSUME NEW S, NEW x \in S, NEW y \in S, NEW z \in S
  PROVE  /\ <<>> \o <<>> = <<>> /\ <<>> \o <<x>> = <<x>> /\ <<x>> \o <<>> = <<x>>
         /\ <<>> \o <<x, y>> = <<x, y>> /\ <<x, y>> \o <<>> = <<x, y>>
         /\ <<x, y, z>> \o <<>> = <<x, y, z>>
<1>1. <<>> \in Seq(S) /\ <<x>> \in Seq(S) /\ <<x, y>> \in Seq(S) /\ <<x, y, z>> \in Seq(S)
  BY EmptySeq
<1> QED
  BY <1>1, ConcatEmptySeq


(* What is left of the tasks when one is done.                             *)
LEMMA TodoDone ==
  ASSUME NEW t \in Todos, t # <<>>
  PROVE  /\ Tail(t) \in Todos
         /\ Tail(t) = <<>> => t = <<Head(t)>>
         /\ Head(t) = "move" => /\ Tail(t) # <<>> => Head(Tail(t)) \in {"read", "remove"}
                                /\ Tail(t) \in EndsGone <=> t \in EndsGone
         /\ Head(t) = "read" => /\ Tail(t) # <<>> /\ Head(Tail(t)) = "store"
                                /\ Tail(t) \in EndsGone <=> t \in EndsGone
                                /\ Tail(Tail(t)) \in {<<>>, <<"remove">>}
                                /\ Tail(Tail(t)) = <<"remove">> <=> t \in EndsGone
         /\ Head(t) = "store" => /\ Tail(t) \in {<<>>, <<"remove">>}
                                 /\ Tail(t) = <<"remove">> <=> t \in EndsGone
         /\ Head(t) = "remove" => Tail(t) = <<>> /\ t \in EndsGone
<1>1. CASE t = <<"remove">>
  <2>1. Tail(t) = <<>> /\ Head(t) = "remove"
    BY <1>1
  <2> QED
    BY <1>1, <2>1 DEF Todos, EndsGone
<1>2. CASE t = <<"store">>
  <2>1. Tail(t) = <<>> /\ Head(t) = "store" /\ t \notin EndsGone
    BY <1>2 DEF EndsGone
  <2>2. <<>> # <<"remove">>
    OBVIOUS
  <2> QED
    BY <1>2, <2>1, <2>2 DEF Todos
<1>3. CASE t = <<"store", "remove">>
  <2>1. Tail(t) = <<"remove">> /\ Head(t) = "store" /\ Tail(t) # <<>>
    BY <1>3
  <2> QED
    BY <1>3, <2>1 DEF Todos, EndsGone
<1>4. CASE t = <<"read", "store">>
  <2>1. Tail(t) = <<"store">> /\ Head(t) = "read" /\ t \notin EndsGone
    BY <1>4 DEF EndsGone
  <2>2. /\ <<"store">> # <<>> /\ Head(<<"store">>) = "store" /\ Tail(<<"store">>) = <<>>
        /\ <<>> # <<"remove">> /\ <<"store">> \notin EndsGone
    BY DEF EndsGone
  <2> QED
    BY <2>1, <2>2 DEF Todos
<1>5. CASE t = <<"read", "store", "remove">>
  <2>1. Tail(t) = <<"store", "remove">> /\ Head(t) = "read"
    BY <1>5
  <2>2. /\ <<"store", "remove">> # <<>> /\ Head(<<"store", "remove">>) = "store"
        /\ Tail(<<"store", "remove">>) = <<"remove">>
    OBVIOUS
  <2> QED
    BY <1>5, <2>1, <2>2 DEF Todos, EndsGone
<1>6. CASE t = <<"move">>
  <2>1. Tail(t) = <<>> /\ Head(t) = "move" /\ t \notin EndsGone /\ <<>> \notin EndsGone
    BY <1>6 DEF EndsGone
  <2> QED
    BY <1>6, <2>1 DEF Todos
<1>7. CASE t = <<"move", "remove">>
  <2>1. Tail(t) = <<"remove">> /\ Head(t) = "move"
    BY <1>7
  <2>2. <<"remove">> # <<>> /\ Head(<<"remove">>) = "remove"
    OBVIOUS
  <2> QED
    BY <1>7, <2>1, <2>2 DEF Todos, EndsGone
<1>8. CASE t = <<"move", "read", "store">>
  <2>1. Tail(t) = <<"read", "store">> /\ Head(t) = "move" /\ t \notin EndsGone
    BY <1>8 DEF EndsGone
  <2>2. /\ <<"read", "store">> # <<>> /\ Head(<<"read", "store">>) = "read"
        /\ <<"read", "store">> \notin EndsGone
    BY DEF EndsGone
  <2> QED
    BY <2>1, <2>2 DEF Todos
<1>9. CASE t = <<"move", "read", "store", "remove">>
  <2>1. Tail(t) = <<"read", "store", "remove">> /\ Head(t) = "move"
    BY <1>9
  <2>2. /\ <<"read", "store", "remove">> # <<>>
        /\ Head(<<"read", "store", "remove">>) = "read"
    OBVIOUS
  <2> QED
    BY <1>9, <2>1, <2>2 DEF Todos, EndsGone
<1> QED
  BY <1>1, <1>2, <1>3, <1>4, <1>5, <1>6, <1>7, <1>8, <1>9 DEF Todos

(* The tasks of an event.                                                  *)
LEMMA TasksOf ==
  ASSUME NEW ops
  PROVE  /\ Tasks(ops) \in Todos
         /\ Tasks(ops) = <<>> <=> {"move", "scan", "remove"} \cap ops = {}
         /\ Tasks(ops) # <<>> =>
                Head(Tasks(ops)) # "store" /\ (Head(Tasks(ops)) = "move" <=> "move" \in ops)
         /\ Tasks(ops) \in EndsGone <=> "remove" \in ops
         /\ Tasks(ops) = <<"move">> => "scan" \notin ops
<1> DEFINE a == IF "move" \in ops THEN <<"move">> ELSE <<>>
           b == IF "scan" \in ops THEN <<"read", "store">> ELSE <<>>
           c == IF "remove" \in ops THEN <<"remove">> ELSE <<>>
           t == Tasks(ops)
<1>1. t = (a \o b) \o c
  BY DEF Tasks
<1> DEFINE S == {"move", "read", "store", "remove"}
<1>s. "move" \in S /\ "read" \in S /\ "store" \in S /\ "remove" \in S
  OBVIOUS
<1> HIDE DEF S
<1>2. /\ <<"move">> \o <<"read", "store">> = <<"move", "read", "store">>
      /\ <<"move">> \o <<>> = <<"move">>
      /\ <<>> \o <<"read", "store">> = <<"read", "store">>
      /\ <<>> \o <<>> = <<>>
  <2>1. <<"move">> \o <<"read", "store">> = <<"move", "read", "store">>
    BY <1>s, Joined
  <2>2. <<"move">> \o <<>> = <<"move">> /\ <<>> \o <<>> = <<>>
    BY <1>s, JoinedNone
  <2>3. <<>> \o <<"read", "store">> = <<"read", "store">>
    BY <1>s, JoinedNone
  <2> QED
    BY <2>1, <2>2, <2>3
<1>3. /\ <<"move", "read", "store">> \o <<"remove">> = <<"move", "read", "store", "remove">>
      /\ <<"move">> \o <<"remove">> = <<"move", "remove">>
      /\ <<"read", "store">> \o <<"remove">> = <<"read", "store", "remove">>
      /\ <<>> \o <<"remove">> = <<"remove">>
      /\ <<"move", "read", "store">> \o <<>> = <<"move", "read", "store">>
      /\ <<"read", "store">> \o <<>> = <<"read", "store">>
  <2>1. <<"move", "read", "store">> \o <<"remove">> = <<"move", "read", "store", "remove">>
    BY <1>s, JoinedFour
  <2>2. <<"move">> \o <<"remove">> = <<"move", "remove">>
    BY <1>s, Joined
  <2>3. <<"read", "store">> \o <<"remove">> = <<"read", "store", "remove">>
    BY <1>s, Joined
  <2>4. <<>> \o <<"remove">> = <<"remove">>
    BY <1>s, JoinedNone
  <2>5. <<"move", "read", "store">> \o <<>> = <<"move", "read", "store">>
    BY <1>s, JoinedNone
  <2>6. <<"read", "store">> \o <<>> = <<"read", "store">>
    BY <1>s, JoinedNone
  <2> QED
    BY <2>1, <2>2, <2>3, <2>4, <2>5, <2>6
<1>4. CASE "move" \in ops /\ "scan" \in ops
  <2>1. a \o b = <<"move", "read", "store">>
    BY <1>2, <1>4
  <2>2. t = IF "remove" \in ops THEN <<"move", "read", "store", "remove">>
            ELSE <<"move", "read", "store">>
    BY <1>1, <1>3, <2>1
  <2> HIDE DEF t
  <2>3. t # <<>> /\ t \in Todos /\ (t \in EndsGone <=> "remove" \in ops)
    BY <2>2 DEF Todos, EndsGone
  <2>4. Head(t) = "move" /\ t # <<"move">>
    BY <2>2
  <2> QED
    BY <1>4, <2>3, <2>4 DEF t
<1>5. CASE "move" \in ops /\ "scan" \notin ops
  <2>1. a \o b = <<"move">>
    BY <1>2, <1>5
  <2>2. t = IF "remove" \in ops THEN <<"move", "remove">> ELSE <<"move">>
    BY <1>1, <1>2, <1>3, <2>1
  <2> HIDE DEF t
  <2>3. t # <<>> /\ t \in Todos /\ (t \in EndsGone <=> "remove" \in ops)
    BY <2>2 DEF Todos, EndsGone
  <2>4. Head(t) = "move"
    BY <2>2
  <2> QED
    BY <1>5, <2>3, <2>4 DEF t
<1>6. CASE "move" \notin ops /\ "scan" \in ops
  <2>1. a \o b = <<"read", "store">>
    BY <1>2, <1>6
  <2>2. t = IF "remove" \in ops THEN <<"read", "store", "remove">> ELSE <<"read", "store">>
    BY <1>1, <1>3, <2>1
  <2> HIDE DEF t
  <2>3. t # <<>> /\ t \in Todos /\ (t \in EndsGone <=> "remove" \in ops)
    BY <2>2 DEF Todos, EndsGone
  <2>4. Head(t) = "read" /\ t # <<"move">>
    BY <2>2
  <2> QED
    BY <1>6, <2>3, <2>4 DEF t
<1>7. CASE "move" \notin ops /\ "scan" \notin ops
  <2>1. a \o b = <<>>
    BY <1>2, <1>7
  <2>2. t = IF "remove" \in ops THEN <<"remove">> ELSE <<>>
    BY <1>1, <1>2, <1>3, <2>1
  <2> HIDE DEF t
  <2>3. (t # <<>> <=> "remove" \in ops) /\ t \in Todos /\ (t \in EndsGone <=> "remove" \in ops)
    BY <2>2 DEF Todos, EndsGone
  <2>4. "remove" \in ops => Head(t) = "remove"
    BY <2>2
  <2> QED
    BY <1>7, <2>3, <2>4 DEF t
<1> QED
  BY <1>4, <1>5, <1>6, <1>7

(* The events but that of a path.                                          *)
LEMMA WithoutOne ==
  ASSUME NEW s \in Seq(Events), OneEach(s), NEW path
  PROVE  /\ Without(s, path) \in Seq(Events) /\ OneEach(Without(s, path))
         /\ ToSet(Without(s, path)) = {e \in ToSet(s) : e.path # path}
<1>1. Len(s) \in Nat /\ DOMAIN s = 1 .. Len(s)
  BY LenProperties
<1>2. CASE \E e \in ToSet(s) : e.path = path
  <2> DEFINE k == CHOOSE i \in DOMAIN s : s[i].path = path
             w == RemoveAt(s, k)
  <2>1. k \in 1 .. Len(s) /\ s[k].path = path
    BY <1>1, <1>2 DEF ToSet
  <2>2. Without(s, path) = w
    BY <1>2 DEF Without
  <2> HIDE DEF k
  <2>3. /\ w \in Seq(Events) /\ Len(w) = Len(s) - 1
        /\ \A j \in 1 .. Len(s) - 1 : w[j] = IF j < k THEN s[j] ELSE s[j + 1]
    BY <2>1, Removed
  <2> HIDE DEF w
  <2>4. DOMAIN w = 1 .. Len(s) - 1
    BY <2>3, LenProperties
  <2> DEFINE at(j) == IF j < k THEN j ELSE j + 1
  <2>5. ASSUME NEW j \in 1 .. Len(s) - 1
        PROVE  at(j) \in 1 .. Len(s) /\ at(j) # k /\ w[j] = s[at(j)]
    BY <1>1, <2>1, <2>3
  <2>6. ASSUME NEW i \in 1 .. Len(s) - 1, NEW j \in 1 .. Len(s) - 1, at(i) = at(j)
        PROVE  i = j
    BY <1>1, <2>1, <2>6
  <2>7. ASSUME NEW i \in 1 .. Len(s), i # k
        PROVE  \E j \in 1 .. Len(s) - 1 : w[j] = s[i]
    <3>1. CASE i < k
      <4>1. i \in 1 .. Len(s) - 1
        BY <1>1, <2>1, <3>1
      <4> QED
        BY <2>3, <3>1, <4>1
    <3>2. CASE k < i
      <4>1. i - 1 \in 1 .. Len(s) - 1 /\ ~(i - 1 < k) /\ (i - 1) + 1 = i
        BY <1>1, <2>1, <3>2
      <4> QED
        BY <2>3, <4>1
    <3> QED
      BY <1>1, <2>1, <2>7, <3>1, <3>2
  <2> HIDE DEF at
  <2>8. OneEach(w)
    BY <1>1, <2>4, <2>5, <2>6 DEF OneEach
  <2>9. ToSet(w) \subseteq {e \in ToSet(s) : e.path # path}
    BY <1>1, <2>1, <2>4, <2>5 DEF OneEach, ToSet
  <2>10. {e \in ToSet(s) : e.path # path} \subseteq ToSet(w)
    BY <1>1, <2>1, <2>4, <2>7 DEF ToSet
  <2> QED
    BY <2>2, <2>3, <2>8, <2>9, <2>10
<1>3. CASE ~ \E e \in ToSet(s) : e.path = path
  BY <1>3 DEF Without
<1> QED
  BY <1>2, <1>3

(* The events and one of another path.                                     *)
LEMMA AppendOne ==
  ASSUME NEW s \in Seq(Events), NEW e \in Events
  PROVE  /\ Append(s, e) \in Seq(Events)
         /\ ToSet(Append(s, e)) = ToSet(s) \cup {e}
         /\ DOMAIN Append(s, e) = 1 .. Len(s) + 1 /\ DOMAIN s = 1 .. Len(s) /\ Len(s) \in Nat
         /\ Append(s, e)[Len(s) + 1] = e /\ \A i \in 1 .. Len(s) : Append(s, e)[i] = s[i]
         /\ OneEach(s) /\ (\A f \in ToSet(s) : f.path # e.path) => OneEach(Append(s, e))
<1> DEFINE t == Append(s, e)
<1>1. /\ t \in Seq(Events) /\ Len(t) = Len(s) + 1 /\ t[Len(s) + 1] = e
      /\ \A i \in 1 .. Len(s) : t[i] = s[i]
  BY AppendProperties
<1> HIDE DEF t
<1>2. Len(s) \in Nat /\ DOMAIN s = 1 .. Len(s) /\ DOMAIN t = 1 .. Len(s) + 1
  BY <1>1, LenProperties
<1>3. \A i \in 1 .. Len(s) + 1 : i \in 1 .. Len(s) \/ i = Len(s) + 1
  BY <1>2
<1>4. 1 .. Len(s) \subseteq 1 .. Len(s) + 1 /\ Len(s) + 1 \in 1 .. Len(s) + 1
  BY <1>2
<1>5. ToSet(t) = ToSet(s) \cup {e}
  BY <1>1, <1>2, <1>3, <1>4 DEF ToSet
<1>6. OneEach(s) /\ (\A f \in ToSet(s) : f.path # e.path) => OneEach(t)
  BY <1>1, <1>2, <1>3 DEF OneEach, ToSet
<1> QED
  BY <1>1, <1>2, <1>5, <1>6 DEF t

(* The events but the first.                                               *)
LEMMA TailOne ==
  ASSUME NEW s \in Seq(Events), s # <<>>
  PROVE  /\ Head(s) = s[1] /\ Head(s) \in Events /\ Head(s) \in ToSet(s)
         /\ Tail(s) \in Seq(Events) /\ Len(s) \in Nat \ {0}
         /\ DOMAIN s = 1 .. Len(s) /\ DOMAIN Tail(s) = 1 .. Len(s) - 1
         /\ \A i \in 1 .. Len(s) - 1 : Tail(s)[i] = s[i + 1]
         /\ OneEach(s) => OneEach(Tail(s))
                          /\ ToSet(Tail(s)) = {e \in ToSet(s) : e.path # Head(s).path}
<1>1. Len(s) \in Nat \ {0} /\ DOMAIN s = 1 .. Len(s)
  BY EmptySeq, LenProperties
<1>2. /\ Head(s) = s[1] /\ Head(s) \in Events /\ Head(s) \in ToSet(s)
  BY <1>1, HeadTailProperties DEF ToSet
<1> DEFINE t == Tail(s)
<1>3. t \in Seq(Events) /\ Len(t) = Len(s) - 1 /\ \A i \in 1 .. Len(t) : t[i] = s[i + 1]
  BY HeadTailProperties
<1> HIDE DEF t
<1>4. DOMAIN t = 1 .. Len(s) - 1
  BY <1>3, LenProperties
<1>5. \A i \in 1 .. Len(s) - 1 : i + 1 \in 1 .. Len(s) /\ i + 1 # 1
  BY <1>1
<1>6. ASSUME OneEach(s) PROVE OneEach(t) /\ ToSet(t) = {e \in ToSet(s) : e.path # Head(s).path}
  <2>1. OneEach(t)
    <3> SUFFICES ASSUME NEW i \in DOMAIN t, NEW j \in DOMAIN t, t[i].path = t[j].path
                 PROVE  i = j
      BY DEF OneEach
    <3>1. i + 1 = j + 1
      BY <1>1, <1>3, <1>4, <1>5, <1>6 DEF OneEach
    <3> QED
      BY <1>1, <1>4, <3>1
  <2>2. ToSet(t) \subseteq {e \in ToSet(s) : e.path # Head(s).path}
    <3> SUFFICES ASSUME NEW i \in DOMAIN t
                 PROVE  t[i] \in ToSet(s) /\ t[i].path # Head(s).path
      BY DEF ToSet
    <3>1. i + 1 \in DOMAIN s /\ t[i] = s[i + 1] /\ i + 1 # 1 /\ 1 \in DOMAIN s
      BY <1>1, <1>3, <1>4, <1>5
    <3> QED
      BY <1>2, <1>6, <3>1 DEF OneEach, ToSet
  <2>3. {e \in ToSet(s) : e.path # Head(s).path} \subseteq ToSet(t)
    <3> SUFFICES ASSUME NEW i \in DOMAIN s, s[i].path # Head(s).path
                 PROVE  s[i] \in ToSet(t)
      BY DEF ToSet
    <3>1. i - 1 \in 1 .. Len(s) - 1 /\ (i - 1) + 1 = i
      BY <1>1, <1>2
    <3> QED
      BY <1>3, <1>4, <3>1 DEF ToSet
  <2> QED
    BY <2>1, <2>2, <2>3
<1> QED
  BY <1>1, <1>2, <1>3, <1>4, <1>6 DEF t

-----------------------------------------------------------------------------
(* The files the worker is at work on.                                     *)
LEMMA AtWorkOn ==
  ASSUME WatcherTypes, WorkerOK, worker.todo # <<>>
  PROVE  /\ AtWork = {worker.item.path, worker.item.src} \ {"none"}
         /\ worker.item.path \in Paths /\ worker.item.path \in AtWork /\ AtWork \subseteq Paths
         /\ \A p \in Paths : worker.item.src = p => p \in AtWork
BY WatcherAssumption DEF AtWork, WatcherTypes, WorkerOK, Events

LEMMA RowTyped ==
  ASSUME WatcherTypes, NEW p \in Paths
  PROVE  /\ tracks[p] \in Rows /\ tracks[p].id \in Nat /\ tracks[p].time \in Nat
         /\ disk[p] \in Nat
BY DEF WatcherTypes, Rows

(* What a change of the disk leaves alone.                                 *)
LEMMA DiskKeeps ==
  ASSUME LibraryInv, Disk, disk' \in [Paths -> Nat], notes' \in Seq(Events),
         astray \subseteq astray', watched \/ notes' = notes,
         \A i \in DOMAIN notes' : Raw(notes'[i]),
         \A p \in Paths \ astray' : PathOK(p)'
  PROVE  LibraryInv'
<1>1. UNCHANGED <<trackVars, watched, queue, open, worker, scan>> /\ changes' = changes + 1
  BY DEF Disk
<1>2. WatcherTypes'
  BY <1>1 DEF LibraryInv, WatcherTypes, trackVars
<1>3. EventsOK'
  BY <1>1 DEF LibraryInv, EventsOK
<1>4. WorkerOK'
  BY <1>1 DEF LibraryInv, WorkerOK, Task, trackVars
<1>5. AtWork' = AtWork
  BY <1>1 DEF AtWork
<1>6. ScanOK'
  BY <1>1, <1>5 DEF LibraryInv, ScanOK, trackVars
<1>7. IdsOK'
  BY <1>1 DEF LibraryInv, RowsOK, IdsOK, trackVars
<1>8. WorkersRow'
  BY <1>1, <1>5 DEF LibraryInv, RowsOK, WorkersRow, Task, trackVars
<1>9. ScansRow'
  BY <1>1 DEF LibraryInv, RowsOK, ScansRow, MovedFrom, trackVars
<1>10. SameRow'
  BY <1>1, <1>5 DEF LibraryInv, RowsOK, SameRow, Task, trackVars
<1> QED
  BY <1>2, <1>3, <1>4, <1>6, <1>7, <1>8, <1>9, <1>10 DEF LibraryInv, RowsOK, PathsOK

(* What the observer notes of a change tells of the files it concerns.     *)
LEMMA NotedInv ==
  ASSUME LibraryInv, Disk, disk' \in [Paths -> Nat],
         NEW e \in Events, Raw(e), Noted(e.path, e.ops, e.src),
         \A p \in Paths : ~Concerns(e, p) => disk'[p] = disk[p],
         \A p \in Paths : Concerns(e, p) => Tells(e, p)'
  PROVE  LibraryInv'
<1> USE DEF LibraryInv
<1>0. UNCHANGED <<tracks, made, watched, queue, open, worker, scan>>
  BY DEF Disk, trackVars
<1>1. e = [path |-> e.path, ops |-> e.ops, src |-> e.src]
  BY DEF Events
<1>2. CASE watched
  <2>1. notes' = Append(notes, e) /\ astray \subseteq astray'
    BY <1>1, <1>2 DEF Noted
  <2>2. notes \in Seq(Events)
    BY DEF WatcherTypes
  <2>3. /\ notes' \in Seq(Events) /\ Len(notes) \in Nat
        /\ DOMAIN notes' = 1 .. Len(notes) + 1 /\ DOMAIN notes = 1 .. Len(notes)
        /\ notes'[Len(notes) + 1] = e /\ \A i \in 1 .. Len(notes) : notes'[i] = notes[i]
    BY <2>1, <2>2, AppendOne
  <2>4. \A i \in DOMAIN notes' : i \in DOMAIN notes \/ i = Len(notes) + 1
    BY <2>3
  <2>5. \A i \in DOMAIN notes' : Raw(notes'[i])
    BY <2>3, <2>4 DEF EventsOK
  <2>6. ToSet(notes') = ToSet(notes) \cup {e}
    BY <2>1, <2>2, AppendOne
  <2>7. ASSUME NEW p \in Paths \ astray' PROVE PathOK(p)'
    <3>1. PathOK(p) /\ Followed(p)
      BY <1>2, <2>1 DEF PathsOK, PathOK
    <3>2. scan.phase \notin {"reading", "removed"}
      BY <1>2 DEF ScanOK
    <3>3. CASE Concerns(e, p)
      <4>1. Tells(e, p)' /\ Concerns(e, p)'
        BY <3>3 DEF Concerns
      <4>2. NotesTell(p)'
        <5> SUFFICES ASSUME NEW i \in DOMAIN notes', Concerns(notes'[i], p),
                            \A j \in DOMAIN notes' : j > i => ~Concerns(notes'[j], p)
                     PROVE  Tells(notes[i], p)'
          BY DEF NotesTell, Concerns
        <5>1. i = Len(notes) + 1
          BY <2>3, <2>4, <3>3
        <5> QED
          BY <2>3, <4>1, <5>1 DEF Tells
      <4>3. ~Unnoted(p)'
        BY <2>6, <4>1 DEF Unnoted
      <4> QED
        BY <1>0, <3>1, <3>2, <4>2, <4>3 DEF PathOK, Followed, Scanned, Task
    <3>4. CASE ~Concerns(e, p)
      <4>1. disk'[p] = disk[p]
        BY <3>4
      <4>2. NotesTell(p)'
        <5> SUFFICES ASSUME NEW i \in DOMAIN notes', Concerns(notes'[i], p),
                            \A j \in DOMAIN notes' : j > i => ~Concerns(notes'[j], p)
                     PROVE  Tells(notes[i], p)'
          BY DEF NotesTell, Concerns
        <5>1. i \in DOMAIN notes /\ notes'[i] = notes[i]
          BY <2>3, <2>4, <3>4
        <5>2. \A j \in DOMAIN notes : j \in DOMAIN notes' /\ notes'[j] = notes[j]
          BY <2>3
        <5>3. Tells(notes[i], p)
          BY <3>1, <5>1, <5>2 DEF Followed, NotesTell
        <5> QED
          BY <4>1, <5>1, <5>3 DEF Tells
      <4>3. Unnoted(p)' => Unnoted(p)
        BY <2>6 DEF Unnoted
      <4>4. Unnoted(p) => QueueSettles(p)' /\ (Unqueued(p)' => WorkerSettles(p)')
        BY <1>0, <3>1, <4>1
           DEF Followed, QueueSettles, Settles, Unqueued, WorkerSettles, WorkerAdds,
               WorkerDrops, TakenAway, WorksOn, Task, Synced
      <4> QED
        BY <1>0, <3>1, <3>2, <4>2, <4>3, <4>4 DEF PathOK, Followed, Scanned, Task
    <3> QED
      BY <3>3, <3>4
  <2> QED
    BY <1>2, <2>1, <2>3, <2>5, <2>7, DiskKeeps
<1>3. CASE ~watched
  <2>1. notes' = notes /\ astray' = astray \cup ({e.path, e.src} \ {"none"})
    BY <1>3 DEF Noted
  <2>2. ASSUME NEW p \in Paths \ astray' PROVE PathOK(p)'
    <3>1. PathOK(p) /\ ~Concerns(e, p)
      BY <2>1, WatcherAssumption DEF PathsOK, Concerns
    <3>2. disk'[p] = disk[p]
      BY <3>1
    <3> QED
      BY <1>0, <1>3, <3>1, <3>2 DEF PathOK, Scanned, Synced, Task
  <2>3. notes' \in Seq(Events) /\ \A i \in DOMAIN notes' : Raw(notes'[i])
    BY <2>1 DEF WatcherTypes, EventsOK
  <2> QED
    BY <2>1, <2>2, <2>3, DiskKeeps
<1> QED
  BY <1>2, <1>3

LEMMA ChangesInv ==
  ASSUME LibraryInv,
         (\E p \in Paths : Write(p) \/ Unlink(p)) \/ \E p, q \in Paths : Rename(p, q)
  PROVE  LibraryInv'
<1>0. disk \in [Paths -> Nat] /\ changes \in Nat
  BY DEF LibraryInv, WatcherTypes
<1>1. ASSUME NEW p \in Paths, Write(p) PROVE LibraryInv'
  <2> DEFINE ops == IF disk[p] = 0 THEN {"scan", "create"} ELSE {"scan"}
  <2>1. /\ ops \in {{"scan"}, {"scan", "create"}} /\ "move" \notin ops /\ "remove" \notin ops
        /\ ops \subseteq Ops
    BY DEF Ops
  <2>2. Disk /\ disk' = [disk EXCEPT ![p] = changes + 1] /\ Noted(p, ops, "none")
    BY <1>1 DEF Write
  <2> HIDE DEF ops
  <2>3. PICK e \in Events : e.path = p /\ e.ops = ops /\ e.src = "none"
    <3>1. [path |-> p, ops |-> ops, src |-> "none"] \in Events
      BY <2>1 DEF Events
    <3> QED
      BY <3>1
  <2>4. Raw(e)
    BY <2>1, <2>3 DEF Raw
  <2>5. /\ disk' \in [Paths -> Nat] /\ disk'[p] # 0
        /\ \A q \in Paths : q # p => disk'[q] = disk[q]
    BY <1>0, <2>2
  <2>6. \A q \in Paths : Concerns(e, q) <=> q = p
    BY <2>3, WatcherAssumption DEF Concerns
  <2>7. Tells(e, p)'
    BY <2>1, <2>3, <2>5 DEF Tells
  <2> QED
    BY <2>2, <2>3, <2>4, <2>5, <2>6, <2>7, NotedInv
<1>2. ASSUME NEW p \in Paths, Unlink(p) PROVE LibraryInv'
  <2> DEFINE e == [path |-> p, ops |-> {"remove"}, src |-> "none"]
  <2>1. Disk /\ disk' = [disk EXCEPT ![p] = 0] /\ Noted(p, {"remove"}, "none")
    BY <1>2 DEF Unlink
  <2>2. e \in Events /\ e.path = p /\ e.ops = {"remove"} /\ e.src = "none"
    BY DEF Events, Ops
  <2> HIDE DEF e
  <2>3. Raw(e)
    BY <2>2 DEF Raw
  <2>4. /\ disk' \in [Paths -> Nat] /\ disk'[p] = 0
        /\ \A q \in Paths : q # p => disk'[q] = disk[q]
    BY <1>0, <2>1
  <2>5. \A q \in Paths : Concerns(e, q) <=> q = p
    BY <2>2, WatcherAssumption DEF Concerns
  <2>6. Tells(e, p)'
    BY <2>2, <2>4 DEF Tells
  <2> QED
    BY <2>1, <2>2, <2>3, <2>4, <2>5, <2>6, NotedInv
<1>3. ASSUME NEW p \in Paths, NEW q \in Paths, Rename(p, q) PROVE LibraryInv'
  <2> DEFINE e == [path |-> q, ops |-> {"move"}, src |-> p]
  <2>1. /\ Disk /\ disk' = [disk EXCEPT ![p] = 0, ![q] = disk[p]] /\ Noted(q, {"move"}, p)
        /\ p # q /\ disk[p] > 0
    BY <1>3 DEF Rename
  <2>2. e \in Events /\ e.path = q /\ e.ops = {"move"} /\ e.src = p
    BY DEF Events, Ops
  <2> HIDE DEF e
  <2>3. Raw(e)
    BY <2>1, <2>2 DEF Raw
  <2>4. /\ disk' \in [Paths -> Nat] /\ disk'[p] = 0 /\ disk'[q] # 0
        /\ \A x \in Paths : x \notin {p, q} => disk'[x] = disk[x]
    BY <1>0, <2>1
  <2>5. \A x \in Paths : Concerns(e, x) <=> x \in {p, q}
    BY <2>2 DEF Concerns
  <2>6. Tells(e, p)' /\ Tells(e, q)'
    BY <2>2, <2>4 DEF Tells
  <2> QED
    BY <2>1, <2>2, <2>3, <2>4, <2>5, <2>6, NotedInv
<1> QED
  BY <1>1, <1>2, <1>3

-----------------------------------------------------------------------------
(* What merging keeps of the operations.                                   *)
LEMMA MergedOps ==
  ASSUME NEW a \in SUBSET Ops, NEW b \in SUBSET Ops
  PROVE  /\ Merged(a, b) \in SUBSET Ops /\ b \subseteq Merged(a, b)
         /\ "move" \in Merged(a, b) => "move" \in a \/ "move" \in b
         /\ "move" \in a => "move" \in Merged(a, b) \/ "create" \in b
         /\ "scan" \in b /\ "remove" \notin b => "remove" \notin Merged(a, b)
         /\ /\ "create" \in a => "scan" \in a \/ "remove" \in a
            /\ "create" \in b => "scan" \in b \/ "remove" \in b
            /\ "create" \in Merged(a, b)
            => "scan" \in Merged(a, b) \/ "remove" \in Merged(a, b)
BY DEF Merged, Ops

LEMMA WithOK ==
  ASSUME NEW f \in Events, Sound(f), NEW g \in Events, Sound(g)
  PROVE  /\ With(f, g.ops, g.src) \in Events /\ Sound(With(f, g.ops, g.src))
         /\ With(f, g.ops, g.src).path = f.path
         /\ With(f, g.ops, g.src).ops = Merged(f.ops, g.ops)
<1> DEFINE w == With(f, g.ops, g.src)
<1>1. /\ f.path \in Paths /\ f.ops \in SUBSET Ops /\ f.src \in Paths \cup {"none"}
      /\ g.ops \in SUBSET Ops /\ g.src \in Paths \cup {"none"}
  BY DEF Events
<1>2. /\ w.path = f.path /\ w.ops = Merged(f.ops, g.ops)
      /\ w.src = IF g.src = "none" THEN f.src ELSE g.src
      /\ w = [path |-> w.path, ops |-> w.ops, src |-> w.src]
  <2> DEFINE m == Merged(f.ops, g.ops)
             c == IF g.src = "none" THEN f.src ELSE g.src
  <2>1. w = [f EXCEPT !.ops = m, !.src = c]
    BY DEF With
  <2> HIDE DEF m, c, w
  <2>2. w = [path |-> f.path, ops |-> m, src |-> c]
    BY <2>1 DEF Events
  <2> USE DEF m, c
  <2> QED
    BY <2>2
<1> HIDE DEF w
<1>3. w.ops \in SUBSET Ops
  BY <1>1, <1>2, MergedOps
<1>4. w \in Events
  BY <1>1, <1>2, <1>3 DEF Events
<1>5. Sound(w)
  <2>1. "move" \in w.ops => w.src \in Paths
    BY <1>1, <1>2, MergedOps, WatcherAssumption DEF Sound
  <2>2. "create" \in w.ops => "scan" \in w.ops \/ "remove" \in w.ops
    BY <1>1, <1>2, MergedOps DEF Sound
  <2> QED
    BY <2>1, <2>2 DEF Sound
<1> QED
  BY <1>2, <1>4, <1>5 DEF w

(* The event that is queued for one that is noted.                         *)
LEMMA PutOK ==
  ASSUME WatcherTypes, EventsOK, NEW e \in Events, Raw(e)
  PROVE  /\ Put(e) \in Events /\ Put(e).path = e.path /\ Sound(Put(e))
         /\ "move" \notin e.ops => /\ e.ops \subseteq Put(e).ops
                                   /\ "scan" \in e.ops => "remove" \notin Put(e).ops
         /\ "move" \in e.ops /\ "remove" \notin Put(e).ops =>
                "scan" \in Put(e).ops \/ "move" \in Put(e).ops
<1>1. e.ops \in SUBSET Ops /\ Sound(e) /\ ("scan" \in e.ops => "remove" \notin e.ops)
  BY DEF Raw, Sound, Events
<1>2. ASSUME NEW path, IsPending(path)
      PROVE  Pending(path) \in Events /\ Sound(Pending(path)) /\ Pending(path).path = path
  <2>1. Pending(path) \in ToSet(queue) /\ Pending(path).path = path
    BY <1>2 DEF IsPending, Pending
  <2>2. ToSet(queue) \subseteq Events
    BY LenProperties, ElementOfSeq DEF ToSet, WatcherTypes
  <2> QED
    BY <2>1, <2>2 DEF EventsOK
<1> DEFINE own == IF IsPending(e.path) THEN With(Pending(e.path), e.ops, e.src) ELSE e
           gone == IF "move" \in e.ops THEN {e.src} ELSE {}
           new == IF \E s \in gone : IsPending(s)
                  THEN With(own, Pending(e.src).ops, Pending(e.src).src) ELSE own
<1>3. Put(e) = new
  BY DEF Put
<1>4. /\ own \in Events /\ Sound(own) /\ own.path = e.path /\ e.ops \subseteq own.ops
      /\ "scan" \in e.ops => "remove" \notin own.ops
  <2>1. CASE IsPending(e.path)
    <3>1. PICK f \in Events : f = Pending(e.path) /\ Sound(f) /\ f.path = e.path
      BY <1>2, <2>1
    <3>2. own = With(f, e.ops, e.src)
      BY <2>1, <3>1
    <3> HIDE DEF own
    <3>3. own \in Events /\ Sound(own) /\ own.path = e.path /\ own.ops = Merged(f.ops, e.ops)
      BY <1>1, <3>1, <3>2, WithOK
    <3>4. f.ops \in SUBSET Ops
      BY DEF Events
    <3>5. /\ e.ops \subseteq Merged(f.ops, e.ops)
          /\ "scan" \in e.ops => "remove" \notin Merged(f.ops, e.ops)
      BY <1>1, <3>4, MergedOps
    <3> QED
      BY <3>3, <3>5
  <2>2. CASE ~IsPending(e.path)
    BY <1>1, <2>2
  <2> QED
    BY <2>1, <2>2
<1>5. CASE \E s \in gone : IsPending(s)
  <2>1. "move" \in e.ops /\ IsPending(e.src)
    BY <1>5
  <2>2. PICK f \in Events : f = Pending(e.src) /\ Sound(f)
    BY <1>2, <2>1
  <2>3. new = With(own, f.ops, f.src)
    BY <1>5, <2>2
  <2> HIDE DEF new, own
  <2>4. new \in Events /\ Sound(new) /\ new.path = e.path /\ new.ops = Merged(own.ops, f.ops)
    BY <1>4, <2>2, <2>3, WithOK
  <2>5. own.ops \in SUBSET Ops /\ f.ops \in SUBSET Ops /\ "move" \in own.ops
    BY <1>4, <2>1 DEF Events
  <2>6. "move" \in new.ops \/ "create" \in f.ops
    BY <2>4, <2>5, MergedOps
  <2>7. f.ops \subseteq new.ops
    BY <2>4, <2>5, MergedOps
  <2>8. "create" \in f.ops => "scan" \in new.ops \/ "remove" \in new.ops
    BY <2>2, <2>7 DEF Sound
  <2> QED
    BY <1>3, <2>1, <2>4, <2>6, <2>8
<1>6. CASE ~ \E s \in gone : IsPending(s)
  <2>1. new = own
    BY <1>6
  <2> QED
    BY <1>3, <1>4, <2>1
<1> QED
  BY <1>5, <1>6

(* An event leaves the notes for the queue.                                *)
LEMMA DeliverInv ==
  ASSUME LibraryInv, Deliver
  PROVE  LibraryInv'
<1> USE DEF LibraryInv
<1>1. notes \in Seq(Events) /\ queue \in Seq(Events) /\ notes # <<>> /\ notes' = Tail(notes)
  BY DEF WatcherTypes, Deliver
<1>2. PICK e \in Events : e = Head(notes)
  BY <1>1, TailOne
<1>3. Raw(e)
  BY <1>1, <1>2, TailOne DEF EventsOK
<1>4. PICK new \in Events : new = Put(e)
  BY <1>3, PutOK
<1>5. /\ new.path = e.path /\ Sound(new)
      /\ "move" \notin e.ops => e.ops \subseteq new.ops /\ ("scan" \in e.ops => "remove" \notin new.ops)
      /\ "move" \in e.ops /\ "remove" \notin new.ops => "scan" \in new.ops \/ "move" \in new.ops
  BY <1>3, <1>4, PutOK
<1> DEFINE others == Without(queue, e.path)
           kept == IF "move" \in e.ops THEN Without(others, e.src) ELSE others
           dropped == {e.path} \cup (IF "move" \in e.ops THEN {e.src} ELSE {})
<1>6. /\ queue' = Append(kept, new) /\ astray' = astray \cup Mislaid(e, new)
      /\ UNCHANGED <<disk, changes, tracks, made, watched, open, worker, scan>>
  BY <1>2, <1>4 DEF Deliver, diskVars, trackVars
<1>7. OneEach(queue)
  BY DEF EventsOK
<1>8. /\ kept \in Seq(Events) /\ OneEach(kept)
      /\ ToSet(kept) = {f \in ToSet(queue) : f.path \notin dropped}
  <2>1. /\ others \in Seq(Events) /\ OneEach(others)
        /\ ToSet(others) = {f \in ToSet(queue) : f.path # e.path}
    BY <1>1, <1>7, WithoutOne
  <2> HIDE DEF others
  <2>2. /\ Without(others, e.src) \in Seq(Events) /\ OneEach(Without(others, e.src))
        /\ ToSet(Without(others, e.src)) = {f \in ToSet(others) : f.path # e.src}
    BY <2>1, WithoutOne
  <2> QED
    BY <2>1, <2>2
<1> HIDE DEF kept, others
<1>9. \A f \in ToSet(kept) : f.path # new.path
  BY <1>5, <1>8
<1>10. /\ queue' \in Seq(Events) /\ OneEach(queue')
       /\ ToSet(queue') = {f \in ToSet(queue) : f.path \notin dropped} \cup {new}
  BY <1>6, <1>8, <1>9, AppendOne
<1>11. /\ notes' \in Seq(Events) /\ Len(notes) \in Nat \ {0}
       /\ DOMAIN notes = 1 .. Len(notes) /\ DOMAIN notes' = 1 .. Len(notes) - 1
       /\ notes[1] = e /\ \A i \in 1 .. Len(notes) - 1 : notes'[i] = notes[i + 1]
  BY <1>1, <1>2, TailOne
<1>12. \A i \in 1 .. Len(notes) - 1 : i + 1 \in 1 .. Len(notes)
  BY <1>11
<1>13. watched /\ scan.phase \notin {"reading", "removed"}
  BY <1>1 DEF EventsOK, ScanOK
<1>14. WatcherTypes'
  BY <1>6, <1>10, <1>11 DEF WatcherTypes
<1>15. EventsOK'
  <2>1. \A i \in DOMAIN notes' : Raw(notes'[i])
    BY <1>11, <1>12 DEF EventsOK
  <2>2. \A f \in ToSet(queue') : Sound(f)
    BY <1>5, <1>10 DEF EventsOK
  <2> QED
    BY <1>6, <1>10, <1>13, <2>1, <2>2 DEF EventsOK
<1>16. WorkerOK' /\ AtWork' = AtWork
  BY <1>6 DEF WorkerOK, Task, AtWork
<1>17. ScanOK'
  BY <1>6, <1>16 DEF ScanOK
<1>18. RowsOK'
  <2>1. IdsOK' /\ WorkersRow'
    BY <1>6, <1>16 DEF RowsOK, IdsOK, WorkersRow, Task
  <2>2. ScansRow' /\ SameRow'
    BY <1>6, <1>16 DEF RowsOK, ScansRow, MovedFrom, SameRow, Task
  <2> QED
    BY <2>1, <2>2 DEF RowsOK
<1>19. ASSUME NEW p \in Paths \ astray' PROVE PathOK(p)'
  <2>1. PathOK(p) /\ Followed(p) /\ p \notin Mislaid(e, new) /\ p # "none"
    BY <1>6, <1>13, WatcherAssumption DEF PathsOK, PathOK
  <2>2. NotesTell(p)'
    <3> SUFFICES ASSUME NEW i \in DOMAIN notes', Concerns(notes'[i], p),
                        \A j \in DOMAIN notes' : j > i => ~Concerns(notes'[j], p)
                 PROVE  Tells(notes[i], p)'
      BY DEF NotesTell, Concerns
    <3>1. i + 1 \in DOMAIN notes /\ notes'[i] = notes[i + 1]
      BY <1>11, <1>12
    <3>2. ASSUME NEW j \in DOMAIN notes, j > i + 1 PROVE ~Concerns(notes[j], p)
      <4>1. j - 1 \in 1 .. Len(notes) - 1 /\ j - 1 > i /\ (j - 1) + 1 = j
        BY <1>11, <3>2
      <4> QED
        BY <1>11, <4>1
    <3>3. Tells(notes[i + 1], p)
      BY <2>1, <3>1, <3>2 DEF Followed, NotesTell
    <3> QED
      BY <1>6, <3>1, <3>3 DEF Tells
  <2>3. ASSUME Unnoted(p)' PROVE QueueSettles(p)' /\ (Unqueued(p)' => WorkerSettles(p)')
    <3>1. \A j \in DOMAIN notes : j > 1 => ~Concerns(notes[j], p)
      <4> SUFFICES ASSUME NEW j \in DOMAIN notes, j > 1 PROVE ~Concerns(notes[j], p)
        OBVIOUS
      <4>1. j - 1 \in 1 .. Len(notes) - 1 /\ (j - 1) + 1 = j
        BY <1>11
      <4> QED
        BY <1>11, <2>3, <4>1 DEF Unnoted, ToSet
    <3>2. Concerns(e, p) => Tells(e, p)
      <4>1. 1 \in DOMAIN notes
        BY <1>11
      <4> QED
        BY <1>11, <2>1, <3>1, <4>1 DEF Followed, NotesTell
    <3>3. CASE p = e.path
      <4>1. \A f \in ToSet(queue') : f.path = p => f = new
        BY <1>10, <3>3
      <4>2. Settles(new, p)
        <5>1. p # e.src /\ Tells(e, p)
          BY <2>1, <3>2, <3>3, <1>3 DEF Raw, Concerns
        <5>2. CASE disk[p] = 0
          <6>1. "remove" \in e.ops /\ "move" \notin e.ops
            BY <1>3, <3>3, <5>1, <5>2 DEF Tells, Raw
          <6> QED
            BY <1>5, <5>2, <6>1 DEF Settles
        <5>3. CASE disk[p] # 0
          <6>1. "remove" \notin e.ops
            BY <5>1, <5>3 DEF Tells
          <6>2. CASE "move" \in e.ops
            <7>1. "remove" \notin new.ops
              BY <2>1, <3>3, <6>2 DEF Mislaid
            <7> QED
              BY <1>5, <5>3, <6>2, <7>1 DEF Settles
          <6>3. CASE "move" \notin e.ops
            <7>1. "scan" \in e.ops
              BY <1>3, <6>1, <6>3 DEF Raw
            <7> QED
              BY <1>5, <5>3, <6>3, <7>1 DEF Settles
          <6> QED
            BY <6>2, <6>3
        <5> QED
          BY <5>2, <5>3
      <4>3. QueueSettles(p)'
        BY <1>6, <4>1, <4>2 DEF QueueSettles, Settles
      <4>4. ~Unqueued(p)'
        BY <1>5, <1>10, <3>3 DEF Unqueued
      <4> QED
        BY <4>3, <4>4
    <3>4. CASE p # e.path /\ p = e.src
      <4>1. "move" \in e.ops /\ disk[p] = 0
        BY <1>3, <2>1, <3>2, <3>4 DEF Raw, Concerns, Tells
      <4>2. QueueSettles(p)'
        BY <1>5, <1>10, <3>4, <4>1 DEF QueueSettles
      <4>3. CASE "move" \in new.ops /\ new.src = p
        <5>1. TakenAway(p)'
          BY <1>10, <4>3 DEF TakenAway
        <5> QED
          BY <1>6, <4>1, <4>2, <5>1 DEF WorkerSettles
      <4>4. CASE ~("move" \in new.ops /\ new.src = p)
        <5>1. tracks[p].id = 0 /\ p \notin AtWork
          BY <2>1, <3>4, <4>1, <4>4, RowTyped DEF Mislaid
        <5>2. ~WorksOn(p)
          BY <2>1, <5>1 DEF WorksOn, AtWork
        <5> QED
          BY <1>6, <4>1, <4>2, <5>1, <5>2 DEF WorkerSettles, WorkerDrops, WorksOn
      <4> QED
        BY <4>3, <4>4
    <3>5. CASE p # e.path /\ p # e.src
      <4>1. Unnoted(p)
        <5>1. \A j \in DOMAIN notes : j = 1 \/ j > 1
          BY <1>11
        <5> QED
          BY <1>11, <3>1, <3>5, <5>1 DEF Unnoted, ToSet, Concerns
      <4>2. QueueSettles(p) /\ (Unqueued(p) => WorkerSettles(p))
        BY <2>1, <4>1 DEF Followed
      <4>3. QueueSettles(p)'
        BY <1>5, <1>6, <1>10, <3>5, <4>2 DEF QueueSettles, Settles
      <4>4. ASSUME Unqueued(p)' PROVE WorkerSettles(p)'
        <5>1. WorkerSettles(p)
          BY <1>10, <3>5, <4>2, <4>4 DEF Unqueued
        <5>2. CASE disk[p] # 0
          BY <1>6, <5>1, <5>2 DEF WorkerSettles, WorkerAdds, WorksOn, Task, Synced
        <5>3. CASE disk[p] = 0 /\ WorkerDrops(p)
          BY <1>6, <5>3 DEF WorkerSettles, WorkerDrops, WorksOn, Task
        <5>4. CASE disk[p] = 0 /\ TakenAway(p)
          <6>1. PICK f \in ToSet(queue) : f.src = p /\ "move" \in f.ops
            BY <5>4 DEF TakenAway
          <6>2. CASE f.path \notin dropped
            <7>1. TakenAway(p)'
              BY <1>10, <6>1, <6>2 DEF TakenAway
            <7> QED
              BY <1>6, <5>4, <7>1 DEF WorkerSettles
          <6>3. CASE f.path \in dropped /\ "move" \in new.ops /\ new.src = p
            <7>1. TakenAway(p)'
              BY <1>10, <6>3 DEF TakenAway
            <7> QED
              BY <1>6, <5>4, <7>1 DEF WorkerSettles
          <6>4. CASE f.path \in dropped /\ ~("move" \in new.ops /\ new.src = p)
            <7>1. f.path \in {e.path, e.src}
              BY <6>4
            <7>2. tracks[p].id = 0 /\ p \notin AtWork
              BY <2>1, <6>1, <6>4, <7>1, RowTyped DEF Mislaid
            <7>3. ~WorksOn(p)
              BY <2>1, <7>2 DEF WorksOn, AtWork
            <7> QED
              BY <1>6, <5>4, <7>2, <7>3 DEF WorkerSettles, WorkerDrops, WorksOn
          <6> QED
            BY <6>2, <6>3, <6>4
        <5> QED
          BY <5>1, <5>2, <5>3, <5>4 DEF WorkerSettles
      <4> QED
        BY <4>3, <4>4
    <3> QED
      BY <3>3, <3>4, <3>5
  <2> QED
    BY <1>6, <1>13, <2>1, <2>2, <2>3 DEF PathOK, Followed, Scanned, Task
<1> QED
  BY <1>14, <1>15, <1>16, <1>17, <1>18, <1>19 DEF PathsOK

-----------------------------------------------------------------------------
(* The worker takes an event.                                              *)
LEMMA NextItemInv ==
  ASSUME LibraryInv, NextItem
  PROVE  LibraryInv'
<1> USE DEF LibraryInv
<1>1. queue \in Seq(Events) /\ queue # <<>> /\ OneEach(queue) /\ worker.todo = <<>>
  BY DEF WatcherTypes, EventsOK, NextItem
<1>2. PICK h \in Events : h = Head(queue) /\ h \in ToSet(queue)
  BY <1>1, TailOne
<1>3. /\ worker' = [phase |-> "batch", item |-> h, todo |-> Tasks(h.ops), read |-> NoRead]
      /\ queue' = Tail(queue)
      /\ UNCHANGED <<disk, changes, tracks, made, watched, notes, open, scan, astray>>
  BY <1>2 DEF NextItem, diskVars, trackVars
<1>4. /\ worker'.phase = "batch" /\ worker'.item = h /\ worker'.todo = Tasks(h.ops)
      /\ worker'.read = NoRead
  BY <1>3
<1>5. /\ queue' \in Seq(Events) /\ OneEach(queue')
      /\ ToSet(queue') = {f \in ToSet(queue) : f.path # h.path}
  BY <1>1, <1>2, <1>3, TailOne
<1>6. /\ Tasks(h.ops) \in Todos
      /\ Tasks(h.ops) = <<>> <=> {"move", "scan", "remove"} \cap h.ops = {}
      /\ Tasks(h.ops) # <<>> =>
             Head(Tasks(h.ops)) # "store" /\ (Head(Tasks(h.ops)) = "move" <=> "move" \in h.ops)
      /\ Tasks(h.ops) \in EndsGone <=> "remove" \in h.ops
  BY TasksOf
<1>7. NoRead \in Reads /\ Sound(h)
  BY <1>2 DEF NoRead, Reads, EventsOK
<1>8. /\ ~Task("store")' /\ (Task("move")' <=> "move" \in h.ops)
  BY <1>4, <1>6 DEF Task
<1>9. /\ watched /\ scan.phase \notin {"reading", "removed"} /\ scan.read = NoRead
  BY <1>1 DEF EventsOK, ScanOK
<1>10. WatcherTypes'
  <2>1. worker' \in [phase : {"waiting", "batch", "pruning", "ended"},
                     item : Events \cup {NoEvent}, todo : Todos, read : Reads]
    BY <1>3, <1>6, <1>7
  <2> QED
    BY <1>3, <1>5, <2>1 DEF WatcherTypes
<1>11. EventsOK'
  BY <1>3, <1>5, <1>9 DEF EventsOK
<1>12. WorkerOK'
  BY <1>3, <1>4, <1>7, <1>8 DEF WorkerOK
<1>13. ScanOK'
  BY <1>3, <1>9 DEF ScanOK
<1>14. RowsOK'
  <2>1. IdsOK'
    BY <1>3 DEF RowsOK, IdsOK
  <2>2. WorkersRow' /\ ScansRow' /\ SameRow'
    BY <1>3, <1>8, <1>9 DEF WorkersRow, ScansRow, SameRow
  <2> QED
    BY <2>1, <2>2 DEF RowsOK
<1>15. ASSUME NEW p \in Paths \ astray' PROVE PathOK(p)'
  <2>1. PathOK(p) /\ Followed(p)
    BY <1>3, <1>9 DEF PathsOK, PathOK
  <2>2. NotesTell(p)' /\ (Unnoted(p)' => Unnoted(p))
    BY <1>3, <2>1 DEF Followed, NotesTell, Tells, Unnoted
  <2>3. ASSUME Unnoted(p) PROVE QueueSettles(p)' /\ (Unqueued(p)' => WorkerSettles(p)')
    <3>1. QueueSettles(p) /\ (Unqueued(p) => WorkerSettles(p))
      BY <2>1, <2>3 DEF Followed
    <3>2. QueueSettles(p)'
      BY <1>3, <1>5, <3>1 DEF QueueSettles, Settles
    <3>3. CASE p = h.path
      <4>1. Settles(h, p)
        BY <1>2, <3>1, <3>3 DEF QueueSettles
      <4>2. Tasks(h.ops) # <<>>
        BY <1>6, <4>1 DEF Settles
      <4>3. WorksOn(p)'
        BY <1>4, <3>3, <4>2 DEF WorksOn
      <4>4. WorkerSettles(p)'
        BY <1>3, <1>4, <1>6, <1>8, <4>1, <4>3
           DEF Settles, WorkerSettles, WorkerAdds, WorkerDrops
      <4> QED
        BY <3>2, <4>4
    <3>4. CASE p # h.path
      <4>1. Unqueued(p)' => Unqueued(p)
        BY <1>5, <3>4 DEF Unqueued
      <4>2. ~WorksOn(p) /\ ~WorksOn(p)'
        BY <1>1, <1>4, <3>4 DEF WorksOn
      <4>3. ASSUME WorkerSettles(p) PROVE WorkerSettles(p)'
        <5>1. CASE disk[p] # 0
          BY <1>3, <4>2, <4>3, <5>1 DEF WorkerSettles, WorkerAdds, Synced
        <5>2. CASE disk[p] = 0 /\ WorkerDrops(p)
          <6>1. tracks[p].id = 0
            BY <1>1, <4>2, <5>2 DEF WorkerDrops, Task
          <6> QED
            BY <1>3, <4>2, <5>2, <6>1 DEF WorkerSettles, WorkerDrops
        <5>3. CASE disk[p] = 0 /\ TakenAway(p)
          <6>1. PICK f \in ToSet(queue) : f.src = p /\ "move" \in f.ops
            BY <5>3 DEF TakenAway
          <6>2. CASE f.path # h.path
            <7>1. TakenAway(p)'
              BY <1>5, <6>1, <6>2 DEF TakenAway
            <7> QED
              BY <1>3, <5>3, <7>1 DEF WorkerSettles
          <6>3. CASE f.path = h.path
            <7>1. f = h
              BY <1>1, <1>2, <6>3 DEF OneEach, ToSet
            <7>2. WorkerDrops(p)'
              BY <1>4, <1>8, <3>4, <6>1, <7>1 DEF WorkerDrops
            <7> QED
              BY <1>3, <5>3, <7>2 DEF WorkerSettles
          <6> QED
            BY <6>2, <6>3
        <5> QED
          BY <4>3, <5>1, <5>2, <5>3 DEF WorkerSettles
      <4> QED
        BY <3>1, <3>2, <4>1, <4>3
    <3> QED
      BY <3>3, <3>4
  <2> QED
    BY <1>3, <1>8, <1>9, <2>2, <2>3 DEF PathOK, Followed, Scanned
<1> QED
  BY <1>10, <1>11, <1>12, <1>13, <1>14, <1>15 DEF PathsOK

(* A batch ends, and the next begins.                                      *)
LEMMA BatchInv ==
  ASSUME LibraryInv, EndBatch \/ NextBatch
  PROVE  LibraryInv'
<1> USE DEF LibraryInv
<1>1. /\ worker' \in [phase : {"waiting", "batch", "pruning", "ended"},
                      item : Events \cup {NoEvent}, todo : Todos, read : Reads]
      /\ worker'.todo = worker.todo /\ worker'.read = worker.read
      /\ worker.todo # <<>> => worker'.item = worker.item
  BY DEF EndBatch, NextBatch, WatcherTypes
<1>2. UNCHANGED <<disk, changes, tracks, made, watched, notes, queue, open, scan, astray>>
  BY DEF EndBatch, NextBatch, diskVars, trackVars, watchVars
<1>3. WatcherTypes' /\ EventsOK'
  BY <1>1, <1>2 DEF WatcherTypes, EventsOK
<1>4. \A t : Task(t)' <=> Task(t)
  BY <1>1 DEF Task
<1>5. \A t : Task(t) => worker.todo # <<>>
  BY DEF Task
<1>6. WorkerOK'
  BY <1>1, <1>2, <1>4, <1>5 DEF WorkerOK
<1>7. AtWork' = AtWork
  BY <1>1 DEF AtWork
<1>8. ScanOK'
  BY <1>2, <1>7 DEF ScanOK
<1>9. RowsOK'
  <2>1. IdsOK' /\ SameRow'
    BY <1>1, <1>2, <1>4, <1>7 DEF RowsOK, IdsOK, SameRow
  <2>2. WorkersRow' /\ ScansRow'
    BY <1>1, <1>2, <1>4, <1>5, <1>7 DEF RowsOK, WorkersRow, ScansRow, MovedFrom
  <2> QED
    BY <2>1, <2>2 DEF RowsOK
<1>10. ASSUME NEW p \in Paths \ astray' PROVE PathOK(p)'
  <2>1. PathOK(p)
    BY <1>2 DEF PathsOK
  <2>2. WorksOn(p)' <=> WorksOn(p)
    BY <1>1 DEF WorksOn
  <2>3. WorkerSettles(p) => WorkerSettles(p)'
    BY <1>1, <1>2, <1>4, <1>5, <2>2
       DEF WorkerSettles, WorkerAdds, WorkerDrops, TakenAway, Synced
  <2>4. Followed(p) => Followed(p)'
    BY <1>2, <2>3 DEF Followed, NotesTell, Tells, Unnoted, QueueSettles, Settles, Unqueued
  <2> QED
    BY <1>1, <1>2, <1>4, <1>5, <2>1, <2>4 DEF PathOK, Scanned, Synced
<1> QED
  BY <1>3, <1>6, <1>8, <1>9, <1>10 DEF PathsOK

(* What a task of the worker leaves alone, and what is left to be shown.   *)
LEMMA WorkerKeeps ==
  ASSUME LibraryInv, UNCHANGED <<diskVars, watchVars, scan>>,
         worker.todo # <<>>, worker'.item = worker.item, worker'.todo \in Todos,
         worker' \in [phase : {"waiting", "batch", "pruning", "ended"},
                      item : Events \cup {NoEvent}, todo : Todos, read : Reads],
         tracks' \in [Paths -> Rows], made' \in Nat, made <= made', astray \subseteq astray',
         ~Task("move")', worker'.read # NoRead <=> Task("store")',
         Task("store")' => worker'.read.path = worker.item.path /\ worker'.read.id <= made',
         RowsOK',
         \A p \in Paths \ astray' :
            /\ disk[p] # 0 /\ WorkerAdds(p) => WorkerAdds(p)'
            /\ disk[p] = 0 /\ WorkerDrops(p) => WorkerDrops(p)'
            /\ p \notin AtWork => tracks'[p] = tracks[p]
            /\ Task("store")' /\ worker.item.path = p => worker'.read.id = tracks'[p].id
  PROVE  LibraryInv'
<1> USE DEF LibraryInv
<1>1. UNCHANGED <<disk, changes, watched, notes, queue, open, scan>>
  BY DEF diskVars, watchVars
<1>2. WatcherTypes' /\ EventsOK'
  BY <1>1 DEF WatcherTypes, EventsOK
<1>3. WorkerOK'
  BY DEF WorkerOK
<1>4. AtWork' \subseteq AtWork
  BY DEF AtWork
<1>5. ScanOK'
  <2>1. scan.read # NoRead => scan.read.id <= made'
    <3>1. scan.read.id \in Nat /\ made \in Nat
      BY DEF WatcherTypes, Reads
    <3> QED
      BY <3>1 DEF ScanOK
  <2> QED
    BY <1>1, <1>4, <2>1 DEF ScanOK
<1>6. ASSUME NEW p \in Paths \ astray' PROVE PathOK(p)'
  <2>1. PathOK(p)
    BY DEF PathsOK
  <2>2. WorkerSettles(p) => WorkerSettles(p)'
    BY <1>1 DEF WorkerSettles, TakenAway
  <2>3. Followed(p) => Followed(p)'
    BY <1>1, <2>2 DEF Followed, NotesTell, Tells, Unnoted, QueueSettles, Settles, Unqueued
  <2>4. scan.phase \in {"reading", "removed"} => tracks'[p] = tracks[p]
    BY DEF ScanOK
  <2>5. Scanned(p)'
    BY <1>1, <2>1, <2>4 DEF PathOK, Scanned, Synced
  <2> QED
    BY <1>1, <2>1, <2>3, <2>5 DEF PathOK
<1> QED
  BY <1>2, <1>3, <1>5, <1>6 DEF PathsOK

(* The worker moves a track.                                               *)
LEMMA WorkerMovesInv ==
  ASSUME LibraryInv, WorkerMoves
  PROVE  LibraryInv'
<1> USE DEF LibraryInv
<1>1. Task("move") /\ worker.todo # <<>> /\ worker.todo \in Todos /\ Head(worker.todo) = "move"
  BY DEF WorkerMoves, Task, WatcherTypes
<1>2. worker.item \in Events /\ "move" \in worker.item.ops /\ worker.item.src \in Paths
  <2>1. worker.item \in Events /\ Sound(worker.item) /\ worker.todo = Tasks(worker.item.ops)
    BY <1>1 DEF WorkerOK
  <2>2. "move" \in worker.item.ops
    BY <1>1, <2>1, TasksOf
  <2> QED
    BY <2>1, <2>2 DEF Sound
<1>3. PICK q \in Paths : q = worker.item.path
  BY <1>2 DEF Events
<1>4. PICK s \in Paths : s = worker.item.src
  BY <1>2
<1>5. /\ worker' = Done /\ MoveFile(s, q) /\ astray' = astray \cup LostBy(worker.item)
      /\ UNCHANGED <<diskVars, made, watchVars, scan>>
  BY <1>3, <1>4 DEF WorkerMoves
<1>6. /\ worker'.item = worker.item /\ worker'.todo = Tail(worker.todo) /\ worker'.read = NoRead
      /\ worker'.phase = worker.phase
  BY <1>5 DEF Done, WatcherTypes
<1>7. /\ worker'.todo \in Todos
      /\ worker'.todo # <<>> => Head(worker'.todo) \in {"read", "remove"}
      /\ worker'.todo \in EndsGone <=> worker.todo \in EndsGone
      /\ worker'.todo = <<>> => worker.todo = <<"move">>
  BY <1>1, <1>6, TodoDone
<1>8. ~Task("move")' /\ ~Task("store")'
  BY <1>7 DEF Task
<1>9. AtWork = {q, s} /\ ~Task("store") /\ worker.read = NoRead
  <2>1. ~Task("store")
    BY <1>1 DEF Task
  <2> QED
    BY <1>1, <1>3, <1>4, <2>1, WatcherAssumption DEF AtWork, WorkerOK
<1>10. worker' \in [phase : {"waiting", "batch", "pruning", "ended"},
                    item : Events \cup {NoEvent}, todo : Todos, read : Reads]
  <2>1. NoRead \in Reads
    BY DEF NoRead, Reads
  <2>2. worker' = [phase |-> worker.phase, item |-> worker.item, todo |-> worker'.todo, read |-> NoRead]
    BY <1>5, <1>6 DEF Done, WatcherTypes
  <2> QED
    BY <1>7, <2>1, <2>2 DEF WatcherTypes
<1>11. NoTrack \in Rows /\ NoTrack.id = 0
  BY DEF NoTrack, Rows
<1>12. /\ tracks \in [Paths -> Rows] /\ made \in Nat /\ disk \in [Paths -> Nat]
       /\ \A p \in Paths : tracks[p].id \in Nat /\ tracks[p].time \in Nat
  BY RowTyped DEF WatcherTypes
<1>13. /\ tracks' \in [Paths -> Rows]
       /\ tracks[s].id = 0 \/ s = q => tracks' = tracks
       /\ tracks[s].id # 0 /\ s # q =>
            /\ tracks'[q] = tracks[s] /\ tracks'[s].id = 0
            /\ \A p \in Paths : p \notin {q, s} => tracks'[p] = tracks[p]
  BY <1>5, <1>11, <1>12 DEF MoveFile
<1>14. IdsOK'
  <2>1. CASE tracks[s].id = 0 \/ s = q
    BY <1>5, <1>13, <2>1 DEF RowsOK, IdsOK
  <2>2. CASE tracks[s].id # 0 /\ s # q
    <3> DEFINE from(x) == IF x = q THEN s ELSE x
    <3>1. \A x \in Paths : tracks'[x].id # 0 =>
            from(x) \in Paths /\ tracks'[x].id = tracks[from(x)].id /\ x # s
      BY <1>13, <2>2
    <3>2. \A x \in Paths : tracks'[x].id <= made
      BY <1>12, <1>13, <2>2, <3>1 DEF RowsOK, IdsOK
    <3>3. ASSUME NEW x \in Paths, NEW y \in Paths, tracks'[x].id = tracks'[y].id, tracks'[x].id > 0
          PROVE  x = y
      <4>1. from(x) = from(y) /\ x # s /\ y # s
        BY <1>12, <3>1, <3>3 DEF RowsOK, IdsOK
      <4> QED
        BY <4>1
    <3> QED
      BY <1>5, <3>2, <3>3 DEF IdsOK
  <2> QED
    BY <2>1, <2>2
<1>15. ScansRow'
  <2> SUFFICES ASSUME scan.read # NoRead, scan.read.id > 0,
                      NEW x \in Paths, tracks'[x].id = scan.read.id, x # scan.read.path
               PROVE  /\ {x, scan.read.path} \subseteq astray'
                      /\ q = x /\ s = scan.read.path
    BY <1>3, <1>4, <1>5, <1>6 DEF ScansRow, MovedFrom
  <2>1. scan.phase = "reading" /\ AtWork \subseteq astray
    BY DEF ScanOK
  <2>2. \A y \in Paths : tracks[y].id = scan.read.id /\ y # scan.read.path =>
            {y, scan.read.path} \subseteq astray /\ q = y /\ s = scan.read.path
    BY <1>1, <1>3, <1>4 DEF RowsOK, ScansRow, MovedFrom
  <2>3. CASE tracks[x].id = scan.read.id
    BY <1>5, <2>2, <2>3
  <2>4. CASE tracks[x].id # scan.read.id
    <3>1. x = q /\ tracks[s].id = scan.read.id /\ s # q
      BY <1>13, <2>4
    <3>2. s = scan.read.path
      BY <2>2, <3>1
    <3> QED
      BY <1>5, <1>9, <2>1, <3>1, <3>2
  <2> QED
    BY <2>3, <2>4
<1>16. WorkersRow' /\ SameRow'
  BY <1>8 DEF WorkersRow, SameRow
<1>17. ASSUME NEW p \in Paths \ astray', disk[p] # 0, WorkerAdds(p) PROVE WorkerAdds(p)'
  <2>1. p \notin LostBy(worker.item) /\ disk' = disk
    BY <1>5 DEF diskVars
  <2>2. CASE p = q
    <3>1. worker.todo \notin EndsGone
      BY <1>1, <1>3, <1>17, <2>2 DEF WorkerAdds, WorksOn
    <3>2. CASE worker'.todo # <<>>
      <4>1. WorksOn(p)'
        BY <1>3, <1>6, <2>2, <3>2 DEF WorksOn
      <4> QED
        BY <1>7, <1>8, <3>1, <4>1 DEF WorkerAdds
    <3>3. CASE worker'.todo = <<>>
      <4>1. "scan" \notin worker.item.ops
        <5>1. worker.todo = Tasks(worker.item.ops) /\ worker.todo = <<"move">>
          BY <1>1, <1>7, <3>3 DEF WorkerOK
        <5> QED
          BY <5>1, TasksOf
      <4>2. tracks[s].id # 0 /\ ~(tracks[s].time < disk[q])
        BY <1>3, <1>4, <2>1, <2>2, <4>1 DEF LostBy
      <4>3. tracks'[q] = tracks[s]
        BY <1>13, <4>2
      <4>4. Synced(p)'
        BY <1>12, <2>1, <2>2, <4>2, <4>3 DEF Synced
      <4> QED
        BY <3>3, <4>4 DEF WorkerAdds, WorksOn
    <3> QED
      BY <3>2, <3>3
  <2>3. CASE p # q
    <3>1. Synced(p) /\ ~WorksOn(p)'
      BY <1>3, <1>6, <1>17, <2>3 DEF WorkerAdds, WorksOn
    <3>2. p # s
      BY <1>4, <1>12, <1>17, <2>1 DEF LostBy
    <3>3. tracks'[p] = tracks[p]
      BY <1>13, <2>3, <3>2
    <3> QED
      BY <2>1, <3>1, <3>3 DEF WorkerAdds, Synced
  <2> QED
    BY <2>2, <2>3
<1>18. ASSUME NEW p \in Paths \ astray', WorkerDrops(p) PROVE WorkerDrops(p)'
  <2>1. CASE p = q /\ worker.todo \in EndsGone
    <3>1. worker'.todo \in EndsGone /\ worker'.todo # <<>>
      BY <1>7, <2>1 DEF EndsGone
    <3> QED
      BY <1>3, <1>6, <2>1, <3>1 DEF WorkerDrops, WorksOn
  <2>2. CASE p # q
    <3>1. ~WorksOn(p)' /\ ~WorksOn(p)
      BY <1>3, <1>6, <2>2 DEF WorksOn
    <3>2. p = s \/ tracks[p].id = 0
      BY <1>4, <1>18, <3>1 DEF WorkerDrops
    <3>3. tracks'[p].id = 0
      BY <1>13, <2>2, <3>2
    <3> QED
      BY <3>1, <3>3 DEF WorkerDrops
  <2> QED
    BY <1>1, <1>3, <1>4, <1>18, <2>1, <2>2 DEF WorkerDrops, WorksOn
<1>19. \A p \in Paths : p \notin AtWork => tracks'[p] = tracks[p]
  BY <1>9, <1>13
<1>20. made' \in Nat /\ made <= made' /\ astray \subseteq astray' /\ UNCHANGED <<diskVars, watchVars, scan>>
  BY <1>5, <1>12
<1>21. RowsOK'
  BY <1>14, <1>15, <1>16 DEF RowsOK
<1> QED
  BY <1>1, <1>6, <1>7, <1>8, <1>10, <1>13, <1>17, <1>18, <1>19, <1>20, <1>21, WorkerKeeps

(* The worker reads a file.                                                *)
LEMMA WorkerReadsInv ==
  ASSUME LibraryInv, WorkerReads
  PROVE  LibraryInv'
<1> USE DEF LibraryInv
<1>1. Task("read") /\ worker.todo # <<>> /\ worker.todo \in Todos /\ Head(worker.todo) = "read"
  BY DEF WorkerReads, Task, WatcherTypes
<1>2. PICK q \in Paths : q = worker.item.path
  BY <1>1 DEF WorkerOK, Events
<1>3. ~Task("store") /\ ~Task("move") /\ worker.read = NoRead
  BY <1>1 DEF Task, WorkerOK
<1>4. /\ worker' = IF WorthReading(q) THEN [Done EXCEPT !.read = ReadFile(q)]
                   ELSE [worker EXCEPT !.todo = Tail(Tail(@))]
      /\ UNCHANGED <<diskVars, tracks, made, watchVars, scan, astray>>
  BY <1>2 DEF WorkerReads, trackVars
<1>5. /\ worker'.item = worker.item /\ worker'.phase = worker.phase
      /\ worker'.todo = IF WorthReading(q) THEN Tail(worker.todo) ELSE Tail(Tail(worker.todo))
      /\ worker'.read = IF WorthReading(q) THEN ReadFile(q) ELSE NoRead
      /\ worker' = [phase |-> worker'.phase, item |-> worker'.item,
                    todo |-> worker'.todo, read |-> worker'.read]
  BY <1>3, <1>4 DEF Done, WatcherTypes
<1>6. /\ Tail(worker.todo) \in Todos /\ Tail(worker.todo) # <<>> /\ Head(Tail(worker.todo)) = "store"
      /\ Tail(worker.todo) \in EndsGone <=> worker.todo \in EndsGone
      /\ Tail(Tail(worker.todo)) \in {<<>>, <<"remove">>}
      /\ Tail(Tail(worker.todo)) = <<"remove">> <=> worker.todo \in EndsGone
  BY <1>1, TodoDone
<1>7. /\ <<>> \in Todos /\ <<"remove">> \in Todos /\ <<"remove">> \in EndsGone
      /\ <<"remove">> # <<>> /\ Head(<<"remove">>) = "remove"
  BY DEF Todos, EndsGone
<1>8. worker'.todo \in Todos /\ ~Task("move")' /\ (Task("store")' <=> WorthReading(q))
  BY <1>5, <1>6, <1>7 DEF Task
<1>9. /\ tracks \in [Paths -> Rows] /\ made \in Nat /\ disk \in [Paths -> Nat]
      /\ tracks[q].id \in Nat /\ tracks[q].time \in Nat /\ disk[q] \in Nat
  BY RowTyped DEF WatcherTypes
<1>10. /\ ReadFile(q) \in Reads /\ ReadFile(q) # NoRead /\ ReadFile(q).path = q
       /\ ReadFile(q).id = tracks[q].id /\ ReadFile(q).time = disk[q] /\ NoRead \in Reads
  BY <1>9, WatcherAssumption DEF ReadFile, Reads, NoRead
<1>11. worker'.read \in Reads /\ (worker'.read # NoRead <=> Task("store")')
  BY <1>5, <1>8, <1>10
<1>12. worker' \in [phase : {"waiting", "batch", "pruning", "ended"},
                    item : Events \cup {NoEvent}, todo : Todos, read : Reads]
  BY <1>5, <1>8, <1>11 DEF WatcherTypes
<1>13. Task("store")' => worker'.read.path = q /\ worker'.read.id = tracks[q].id
  BY <1>5, <1>8, <1>10
<1>14. AtWork' \subseteq AtWork /\ (worker'.todo # <<>> => AtWork' = AtWork)
  BY <1>1, <1>5 DEF AtWork
<1>15. RowsOK'
  <2>1. IdsOK'
    BY <1>4 DEF RowsOK, IdsOK
  <2>2. WorkersRow'
    BY <1>2, <1>4, <1>5, <1>9, <1>13 DEF RowsOK, IdsOK, WorkersRow
  <2>3. ScansRow'
    BY <1>1, <1>4, <1>5 DEF RowsOK, ScansRow, MovedFrom
  <2>4. SameRow'
    <3> SUFFICES ASSUME Task("store")', scan.read # NoRead, scan.read.id > 0,
                        scan.read.id = tracks[q].id
                 PROVE  scan.read.path \in AtWork'
      BY <1>4, <1>13 DEF SameRow
    <3>1. AtWork' = AtWork
      BY <1>14 DEF Task
    <3>2. scan.read.path \in Paths
      BY DEF ScanOK
    <3>3. scan.read.path = q \/ scan.read.path = worker.item.src
      BY <1>1 DEF RowsOK, ScansRow, MovedFrom
    <3>4. WatcherTypes /\ WorkerOK
      OBVIOUS
    <3> QED
      BY <1>1, <1>2, <3>1, <3>2, <3>3, <3>4, AtWorkOn
  <2> QED
    BY <2>1, <2>2, <2>3, <2>4 DEF RowsOK
<1>16. ASSUME NEW p \in Paths, disk[p] # 0, WorkerAdds(p) PROVE WorkerAdds(p)'
  <2>1. CASE p = q
    <3>1. worker.todo \notin EndsGone
      BY <1>1, <1>2, <1>16, <2>1 DEF WorkerAdds, WorksOn
    <3>2. CASE WorthReading(q)
      <4>1. WorksOn(p)' /\ worker'.todo \notin EndsGone /\ worker'.read.time = disk[p]
        BY <1>2, <1>5, <1>6, <1>10, <2>1, <3>1, <3>2 DEF WorksOn
      <4>2. disk'[p] = disk[p]
        BY <1>4 DEF diskVars
      <4> QED
        BY <1>9, <2>1, <4>1, <4>2 DEF WorkerAdds
    <3>3. CASE ~WorthReading(q)
      <4>1. worker'.todo = <<>>
        BY <1>5, <1>6, <3>1, <3>3
      <4>2. tracks[q].id > 0 /\ tracks[q].time >= disk[q]
        BY <1>9, <1>16, <2>1, <3>3 DEF WorthReading
      <4>3. Synced(p)'
        BY <1>4, <2>1, <4>2 DEF Synced, diskVars
      <4> QED
        BY <4>1, <4>3 DEF WorkerAdds, WorksOn
    <3> QED
      BY <3>2, <3>3
  <2>2. CASE p # q
    BY <1>2, <1>4, <1>5, <1>16, <2>2 DEF WorkerAdds, WorksOn, Synced, diskVars
  <2> QED
    BY <2>1, <2>2
<1>17. ASSUME NEW p \in Paths, disk[p] = 0, WorkerDrops(p) PROVE WorkerDrops(p)'
  <2>1. CASE p = q /\ worker.todo \in EndsGone
    <3>1. worker'.todo \in EndsGone /\ worker'.todo # <<>>
      BY <1>5, <1>6, <1>7, <2>1
    <3> QED
      BY <1>2, <1>5, <2>1, <3>1 DEF WorkerDrops, WorksOn
  <2>2. CASE tracks[p].id = 0
    <3>1. WorksOn(p)' => ~Task("store")'
      BY <1>2, <1>5, <1>8, <1>17 DEF WorksOn, WorthReading
    <3> QED
      BY <1>4, <1>8, <2>2, <3>1 DEF WorkerDrops
  <2> QED
    BY <1>2, <1>3, <1>17, <2>1, <2>2 DEF WorkerDrops, WorksOn
<1>18. Task("store")' => worker'.read.path = worker.item.path /\ worker'.read.id <= made'
  BY <1>2, <1>4, <1>13 DEF RowsOK, IdsOK
<1>19. \A p \in Paths : /\ p \notin AtWork => tracks'[p] = tracks[p]
                        /\ Task("store")' /\ worker.item.path = p => worker'.read.id = tracks'[p].id
  BY <1>2, <1>4, <1>13
<1>20. /\ tracks' \in [Paths -> Rows] /\ made' \in Nat /\ made <= made' /\ astray \subseteq astray'
       /\ UNCHANGED <<diskVars, watchVars, scan>>
  BY <1>4, <1>9
<1> QED
  BY <1>1, <1>5, <1>8, <1>11, <1>12, <1>15, <1>16, <1>17, <1>18, <1>19, <1>20, WorkerKeeps

-----------------------------------------------------------------------------
(* What storing a row that has been read makes of the tracks.              *)
LEMMA StoredRows ==
  ASSUME WatcherTypes, IdsOK, NEW r \in Reads, NEW q \in Paths, r.path = q, r.id <= made,
         Storable(r), tracks' = Stored(r), made' = IF r.id = 0 THEN made + 1 ELSE made
  PROVE  /\ tracks' \in [Paths -> Rows] /\ made' \in Nat /\ made <= made' /\ IdsOK'
         /\ \A p \in Paths : p # q =>
                tracks'[p] = tracks[p] \/ (tracks'[p].id = 0 /\ tracks[p].id = r.id /\ r.id # 0)
         /\ IF r.id = 0 THEN tracks'[q].id = made + 1 ELSE tracks'[q].id \in {0, r.id}
         /\ tracks[q].id = r.id => tracks'[q].id > 0 /\ tracks'[q].time = r.time
<1>1. /\ tracks \in [Paths -> Rows] /\ made \in Nat /\ r.id \in Nat /\ r.time \in Nat
      /\ \A p \in Paths : tracks[p].id \in Nat /\ tracks[p].id <= made
  BY RowTyped DEF WatcherTypes, Reads, IdsOK
<1>2. \A p, x \in Paths : tracks[p].id = tracks[x].id /\ tracks[p].id > 0 => p = x
  BY DEF IdsOK
<1>3. CASE r.id = 0
  <2> DEFINE new == [id |-> made + 1, time |-> r.time]
  <2>1. tracks' = [tracks EXCEPT ![q] = new] /\ made' = made + 1
    BY <1>3 DEF Stored
  <2>2. new \in Rows /\ new.id = made + 1 /\ new.time = r.time
    BY <1>1 DEF Rows
  <2> HIDE DEF new
  <2>3. /\ tracks' \in [Paths -> Rows] /\ tracks'[q] = new
        /\ \A p \in Paths : p # q => tracks'[p] = tracks[p]
    BY <1>1, <2>1, <2>2
  <2>4. IdsOK'
    <3>1. \A p \in Paths : tracks'[p].id <= made'
      BY <1>1, <2>1, <2>2, <2>3
    <3>2. \A p \in Paths : tracks[p].id # made + 1
      BY <1>1
    <3>3. ASSUME NEW p \in Paths, NEW x \in Paths,
                 tracks'[p].id = tracks'[x].id, tracks'[p].id > 0
          PROVE  p = x
      BY <1>2, <2>2, <2>3, <3>2, <3>3
    <3> QED
      BY <3>1, <3>3 DEF IdsOK
  <2>5. made' \in Nat /\ made <= made' /\ tracks'[q].id > 0
    BY <1>1, <2>1, <2>2, <2>3
  <2> QED
    BY <1>3, <2>2, <2>3, <2>4, <2>5
<1>4. CASE r.id # 0 /\ ~HasId(r.id)
  <2>1. tracks' = tracks /\ made' = made
    BY <1>4 DEF Stored
  <2>2. tracks[q].id = 0
    BY <1>4 DEF Storable, HasId
  <2>3. IdsOK'
    BY <2>1 DEF IdsOK
  <2> QED
    BY <1>1, <1>4, <2>1, <2>2, <2>3
<1>5. CASE r.id # 0 /\ HasId(r.id)
  <2> DEFINE new == [id |-> r.id, time |-> r.time]
  <2>1. /\ tracks' = [p \in Paths |-> IF p = q THEN new
                          ELSE IF tracks[p].id = r.id THEN NoTrack ELSE tracks[p]]
        /\ made' = made
    BY <1>5 DEF Stored
  <2>2. new \in Rows /\ new.id = r.id /\ new.time = r.time /\ NoTrack \in Rows /\ NoTrack.id = 0
    BY <1>1 DEF Rows, NoTrack
  <2> HIDE DEF new
  <2>3. /\ tracks' \in [Paths -> Rows] /\ tracks'[q] = new
        /\ \A p \in Paths : p # q => IF tracks[p].id = r.id THEN tracks'[p].id = 0
                                     ELSE tracks'[p] = tracks[p]
    BY <1>1, <2>1, <2>2
  <2>4. IdsOK'
    <3>1. \A p \in Paths : tracks'[p].id <= made'
      BY <1>1, <2>1, <2>2, <2>3
    <3>2. ASSUME NEW p \in Paths, NEW x \in Paths,
                 tracks'[p].id = tracks'[x].id, tracks'[p].id > 0
          PROVE  p = x
      BY <1>2, <2>2, <2>3, <3>2
    <3> QED
      BY <3>1, <3>2 DEF IdsOK
  <2>5. r.id > 0 /\ made <= made
    BY <1>1, <1>5
  <2> QED
    BY <1>1, <1>5, <2>1, <2>2, <2>3, <2>4, <2>5
<1> QED
  BY <1>3, <1>4, <1>5

(* Rows that only go leave ids that are unique.                            *)
LEMMA FewerRows ==
  ASSUME WatcherTypes, IdsOK, tracks' \in [Paths -> Rows], made' = made,
         \A p \in Paths : tracks'[p] = tracks[p] \/ tracks'[p].id = 0
  PROVE  IdsOK'
<1>1. \A p \in Paths : tracks[p].id <= made /\ 0 <= made
  BY DEF IdsOK, WatcherTypes
<1> QED
  BY <1>1 DEF IdsOK

LEMMA RemovedRow ==
  ASSUME WatcherTypes, NEW q \in Paths, RemoveFile(q)
  PROVE  /\ tracks' \in [Paths -> Rows] /\ tracks'[q].id = 0
         /\ \A p \in Paths : p # q => tracks'[p] = tracks[p]
<1>1. tracks \in [Paths -> Rows] /\ NoTrack \in Rows /\ NoTrack.id = 0
  BY DEF WatcherTypes, NoTrack, Rows
<1> QED
  BY <1>1 DEF RemoveFile

(* The worker stores what it has read.                                     *)
LEMMA WorkerStoresInv ==
  ASSUME LibraryInv, WorkerStores
  PROVE  LibraryInv'
<1> USE DEF LibraryInv
<1>1. Task("store") /\ worker.todo # <<>> /\ worker.todo \in Todos /\ Head(worker.todo) = "store"
  BY DEF WorkerStores, Task, WatcherTypes
<1>2. PICK q \in Paths : q = worker.item.path
  BY <1>1 DEF WorkerOK, Events
<1>3. PICK r \in Reads : r = worker.read
  BY DEF WatcherTypes
<1>4. r.path = q /\ r.id <= made /\ ~Task("move") /\ r.id \in Nat /\ r.time \in Nat
  BY <1>1, <1>2, <1>3 DEF WorkerOK, Task, Reads
<1>5. /\ \/ /\ Storable(r) /\ tracks' = Stored(r) /\ worker' = Done
            /\ made' = IF r.id = 0 THEN made + 1 ELSE made
         \/ /\ ~Storable(r) /\ worker' = GivesUp /\ UNCHANGED trackVars
         \/ /\ disk[q] = 0 /\ worker' = Done /\ UNCHANGED made
            /\ IF r.id = 0 THEN UNCHANGED tracks ELSE RemoveFile(q)
      /\ UNCHANGED <<diskVars, watchVars, scan, astray>>
  BY <1>3, <1>4 DEF WorkerStores
<1>6. /\ Tail(worker.todo) \in {<<>>, <<"remove">>} /\ Tail(worker.todo) \in Todos
      /\ Tail(worker.todo) = <<"remove">> <=> worker.todo \in EndsGone
  BY <1>1, TodoDone
<1>7. /\ <<>> \in Todos /\ <<"remove">> \in EndsGone /\ <<"remove">> # <<>>
      /\ Head(<<"remove">>) = "remove" /\ NoRead \in Reads
  BY DEF Todos, EndsGone, NoRead, Reads
<1>8. /\ worker'.item = worker.item /\ worker'.phase = worker.phase /\ worker'.read = NoRead
      /\ worker'.todo = Tail(worker.todo) \/ (~Storable(r) /\ worker'.todo = <<>>)
      /\ worker' = [phase |-> worker'.phase, item |-> worker'.item,
                    todo |-> worker'.todo, read |-> worker'.read]
  BY <1>5 DEF Done, GivesUp, WatcherTypes
<1>9. worker'.todo \in Todos /\ ~Task("move")' /\ ~Task("store")'
  BY <1>6, <1>7, <1>8 DEF Task
<1>10. worker' \in [phase : {"waiting", "batch", "pruning", "ended"},
                    item : Events \cup {NoEvent}, todo : Todos, read : Reads]
  BY <1>7, <1>8, <1>9 DEF WatcherTypes
<1>11. /\ tracks \in [Paths -> Rows] /\ made \in Nat
       /\ \A p \in Paths : tracks[p].id \in Nat /\ tracks[p].time \in Nat /\ disk[p] \in Nat
  BY RowTyped DEF WatcherTypes
<1>12. /\ tracks' \in [Paths -> Rows] /\ made' \in Nat /\ made <= made' /\ IdsOK'
       /\ \A p \in Paths : p # q =>
            tracks'[p] = tracks[p] \/ (tracks'[p].id = 0 /\ tracks[p].id = r.id /\ r.id # 0)
       /\ \/ tracks'[q] = tracks[q] \/ tracks'[q].id = 0
          \/ r.id = 0 /\ tracks'[q].id = made + 1
          \/ r.id # 0 /\ tracks'[q].id = r.id
       /\ tracks[q].id = r.id /\ disk[q] # 0 => tracks'[q].id > 0 /\ tracks'[q].time = r.time
  <2>1. CASE /\ Storable(r) /\ tracks' = Stored(r)
             /\ made' = IF r.id = 0 THEN made + 1 ELSE made
    BY <1>4, <2>1, StoredRows DEF RowsOK
  <2>2. CASE ~Storable(r) /\ UNCHANGED trackVars
    <3>1. tracks' = tracks /\ made' = made
      BY <2>2 DEF trackVars
    <3>2. tracks[q].id # r.id
      BY <1>4, <2>2 DEF Storable
    <3> QED
      BY <1>11, <3>1, <3>2 DEF RowsOK, IdsOK
  <2>3. CASE disk[q] = 0 /\ UNCHANGED made /\ RemoveFile(q)
    <3>1. /\ tracks' \in [Paths -> Rows] /\ tracks'[q].id = 0
          /\ \A p \in Paths : p # q => tracks'[p] = tracks[p]
      BY <2>3, RemovedRow
    <3>2. IdsOK'
      BY <2>3, <3>1, FewerRows DEF RowsOK
    <3> QED
      BY <1>11, <2>3, <3>1, <3>2
  <2>4. CASE disk[q] = 0 /\ UNCHANGED made /\ UNCHANGED tracks
    BY <1>11, <2>4 DEF RowsOK, IdsOK
  <2> QED
    BY <1>5, <2>1, <2>2, <2>3, <2>4
<1>13. AtWork \subseteq Paths /\ q \in AtWork /\ \A p \in Paths : worker.item.src = p => p \in AtWork
  BY <1>1, <1>2, AtWorkOn
<1>14. ASSUME NEW p \in Paths \ astray, p # q PROVE tracks'[p] = tracks[p]
  <2> SUFFICES ASSUME tracks[p].id = r.id, r.id # 0 PROVE FALSE
    BY <1>12, <1>14
  <2>1. p = worker.item.src /\ AtWork \subseteq astray
    BY <1>1, <1>2, <1>3, <1>4, <1>14 DEF RowsOK, WorkersRow
  <2> QED
    BY <1>13, <2>1
<1>15. ASSUME NEW p \in Paths \ astray, p = q PROVE r.id = tracks[q].id
  BY <1>1, <1>2, <1>3, <1>15 DEF PathsOK, PathOK
<1>16. ScansRow'
  <2> SUFFICES ASSUME scan.read # NoRead, scan.read.id > 0,
                      NEW x \in Paths, tracks'[x].id = scan.read.id, x # scan.read.path
               PROVE  /\ {x, scan.read.path} \subseteq astray
                      /\ worker.item.path = x /\ worker.item.src = scan.read.path
    BY <1>5, <1>8 DEF ScansRow, MovedFrom
  <2>1. /\ scan.phase = "reading" /\ AtWork \subseteq astray /\ scan.read.path \in Paths
        /\ scan.read.id <= made /\ scan.read.id \in Nat
    BY DEF ScanOK, WatcherTypes, Reads
  <2>2. \A y \in Paths : tracks[y].id = scan.read.id /\ y # scan.read.path =>
            /\ {y, scan.read.path} \subseteq astray
            /\ worker.item.path = y /\ worker.item.src = scan.read.path
    BY <1>1 DEF RowsOK, ScansRow, MovedFrom
  <2>3. CASE tracks[x].id = scan.read.id
    BY <2>2, <2>3
  <2>4. CASE tracks[x].id # scan.read.id
    <3>1. x = q /\ r.id = scan.read.id
      <4>1. x = q
        BY <1>12, <2>4
      <4>2. scan.read.id # made + 1
        BY <1>11, <2>1
      <4> QED
        BY <1>12, <2>4, <4>1, <4>2
    <3>2. scan.read.path \in AtWork
      BY <1>1, <1>3, <3>1 DEF RowsOK, SameRow
    <3>3. scan.read.path = worker.item.src
      BY <1>1, <1>2, <3>1, <3>2, AtWorkOn
    <3> QED
      BY <1>2, <1>13, <2>1, <3>1, <3>2, <3>3
  <2> QED
    BY <2>3, <2>4
<1>17. RowsOK'
  BY <1>9, <1>12, <1>16 DEF RowsOK, WorkersRow, SameRow
<1>18. ASSUME NEW p \in Paths \ astray', disk[p] # 0, WorkerAdds(p) PROVE WorkerAdds(p)'
  <2>1. p \notin astray /\ disk' = disk
    BY <1>5 DEF diskVars
  <2>2. CASE p = q
    <3>1. worker.todo \notin EndsGone /\ r.time >= disk[p]
      BY <1>1, <1>2, <1>3, <1>18, <2>2 DEF WorkerAdds, WorksOn
    <3>2. worker'.todo = <<>>
      BY <1>6, <1>8, <3>1
    <3>3. tracks'[q].id > 0 /\ tracks'[q].time = r.time
      BY <1>12, <1>15, <1>18, <2>1, <2>2
    <3> QED
      BY <2>1, <2>2, <3>1, <3>2, <3>3 DEF WorkerAdds, WorksOn, Synced
  <2>3. CASE p # q
    <3>1. tracks'[p] = tracks[p]
      BY <1>14, <2>1, <2>3
    <3> QED
      BY <1>2, <1>8, <1>18, <2>1, <2>3, <3>1 DEF WorkerAdds, WorksOn, Synced
  <2> QED
    BY <2>2, <2>3
<1>19. ASSUME NEW p \in Paths \ astray', disk[p] = 0, WorkerDrops(p) PROVE WorkerDrops(p)'
  <2>1. p \notin astray
    BY <1>5
  <2>2. CASE p = q
    <3>1. worker.todo \in EndsGone
      BY <1>1, <1>2, <1>4, <1>19, <2>2 DEF WorkerDrops, WorksOn
    <3>2. Storable(r)
      BY <1>4, <1>15, <2>1, <2>2 DEF Storable
    <3>3. worker'.todo = <<"remove">>
      BY <1>6, <1>8, <3>1, <3>2
    <3> QED
      BY <1>2, <1>7, <1>8, <2>2, <3>3 DEF WorkerDrops, WorksOn
  <2>3. CASE p # q
    <3>1. tracks[p].id = 0 /\ ~WorksOn(p)'
      BY <1>2, <1>4, <1>8, <1>19, <2>3 DEF WorkerDrops, WorksOn
    <3>2. tracks'[p] = tracks[p]
      BY <1>14, <2>1, <2>3
    <3> QED
      BY <3>1, <3>2 DEF WorkerDrops
  <2> QED
    BY <2>2, <2>3
<1>20. \A p \in Paths \ astray' : p \notin AtWork => tracks'[p] = tracks[p]
  BY <1>5, <1>13, <1>14
<1>21. astray \subseteq astray' /\ UNCHANGED <<diskVars, watchVars, scan>>
  BY <1>5
<1> QED
  BY <1>1, <1>8, <1>9, <1>10, <1>12, <1>17, <1>18, <1>19, <1>20, <1>21, WorkerKeeps

(* The worker removes a track.                                             *)
LEMMA WorkerRemovesInv ==
  ASSUME LibraryInv, WorkerRemoves
  PROVE  LibraryInv'
<1> USE DEF LibraryInv
<1>1. Task("remove") /\ worker.todo # <<>> /\ worker.todo \in Todos /\ Head(worker.todo) = "remove"
  BY DEF WorkerRemoves, Task, WatcherTypes
<1>2. PICK q \in Paths : q = worker.item.path
  BY <1>1 DEF WorkerOK, Events
<1>3. /\ worker' = Done /\ RemoveFile(q)
      /\ UNCHANGED <<diskVars, made, watchVars, scan, astray>>
  BY <1>2 DEF WorkerRemoves
<1>4. Tail(worker.todo) = <<>> /\ worker.todo \in EndsGone
  BY <1>1, TodoDone
<1>5. /\ worker'.item = worker.item /\ worker'.phase = worker.phase /\ worker'.read = NoRead
      /\ worker'.todo = <<>>
      /\ worker' = [phase |-> worker'.phase, item |-> worker'.item,
                    todo |-> worker'.todo, read |-> worker'.read]
  BY <1>3, <1>4 DEF Done, WatcherTypes
<1>6. worker'.todo \in Todos /\ ~Task("move")' /\ ~Task("store")' /\ NoRead \in Reads
  BY <1>5 DEF Task, Todos, NoRead, Reads
<1>7. worker' \in [phase : {"waiting", "batch", "pruning", "ended"},
                   item : Events \cup {NoEvent}, todo : Todos, read : Reads]
  BY <1>5, <1>6 DEF WatcherTypes
<1>8. /\ tracks' \in [Paths -> Rows] /\ tracks'[q].id = 0
      /\ \A p \in Paths : p # q => tracks'[p] = tracks[p]
  BY <1>3, RemovedRow
<1>9. q \in AtWork
  BY <1>1, <1>2, AtWorkOn
<1>10. RowsOK'
  <2>1. IdsOK'
    BY <1>3, <1>8, FewerRows DEF RowsOK
  <2>2. ScansRow'
    BY <1>3, <1>5, <1>8 DEF RowsOK, ScansRow
  <2> QED
    BY <1>6, <2>1, <2>2 DEF RowsOK, WorkersRow, SameRow
<1>11. ASSUME NEW p \in Paths, disk[p] # 0, WorkerAdds(p) PROVE WorkerAdds(p)'
  <2>1. p # q
    BY <1>1, <1>2, <1>4, <1>11 DEF WorkerAdds, WorksOn
  <2> QED
    BY <1>2, <1>3, <1>5, <1>8, <1>11, <2>1 DEF WorkerAdds, WorksOn, Synced, diskVars
<1>12. ASSUME NEW p \in Paths, WorkerDrops(p) PROVE WorkerDrops(p)'
  <2>1. tracks'[p].id = 0
    BY <1>1, <1>2, <1>8, <1>12 DEF WorkerDrops, WorksOn, Task
  <2> QED
    BY <1>5, <2>1 DEF WorkerDrops, WorksOn
<1>13. made' \in Nat /\ made <= made' /\ astray \subseteq astray' /\ UNCHANGED <<diskVars, watchVars, scan>>
  BY <1>3 DEF WatcherTypes
<1> QED
  BY <1>1, <1>5, <1>6, <1>7, <1>8, <1>9, <1>10, <1>11, <1>12, <1>13, WorkerKeeps

-----------------------------------------------------------------------------
(* What a step of the scan leaves alone, and what is left to be shown:     *)
(* while it reads, the folder is not watched, and what the worker is still *)
(* at work on is astray.                                                   *)
LEMMA ScanKeeps ==
  ASSUME LibraryInv, UNCHANGED <<diskVars, worker, watchVars, astray>>,
         scan' \in [phase : {"off", "queued", "reading", "removed", "repairing"},
                    left : SUBSET Paths, read : Reads],
         scan'.phase \in {"reading", "removed"} => scan.phase \in {"reading", "removed"},
         scan'.read # NoRead =>
            /\ scan'.phase = "reading" /\ scan'.read.path \in Paths \ scan'.left
            /\ scan'.read.id <= made',
         tracks' \in [Paths -> Rows], made' \in Nat, made <= made', RowsOK',
         watched => tracks' = tracks,
         \A p \in Paths \ astray : Scanned(p)' /\ (p \in AtWork => tracks'[p] = tracks[p])
  PROVE  LibraryInv'
<1> USE DEF LibraryInv
<1>1. UNCHANGED <<disk, changes, watched, notes, queue, open, worker, astray>>
  BY DEF diskVars, watchVars
<1>2. WatcherTypes' /\ EventsOK'
  BY <1>1 DEF WatcherTypes, EventsOK
<1>3. WorkerOK'
  <2>1. Task("store") => worker.read.id <= made'
    <3>1. worker.read.id \in Nat /\ made \in Nat
      BY DEF WatcherTypes, Reads
    <3> QED
      BY <3>1 DEF WorkerOK
  <2> QED
    BY <1>1, <2>1 DEF WorkerOK, Task
<1>4. AtWork' = AtWork
  BY <1>1 DEF AtWork
<1>5. ScanOK'
  BY <1>1, <1>4 DEF ScanOK
<1>6. ASSUME NEW p \in Paths \ astray' PROVE PathOK(p)'
  <2>1. PathOK(p) /\ p \notin astray
    BY <1>1 DEF PathsOK
  <2>2. watched => (Followed(p) => Followed(p)')
    BY <1>1 DEF Followed, NotesTell, Tells, Unnoted, QueueSettles, Settles, Unqueued,
                WorkerSettles, TakenAway, WorkerAdds, WorkerDrops, WorksOn, Task, Synced
  <2>3. Task("store") /\ worker.item.path = p => p \in AtWork
    BY WatcherAssumption DEF Task, AtWork
  <2> QED
    BY <1>1, <2>1, <2>2, <2>3 DEF PathOK, Task
<1> QED
  BY <1>2, <1>3, <1>5, <1>6 DEF PathsOK

(* What a scan, which starts or ends without a look at the folder, is.     *)
LEMMA ScanWaits ==
  ASSUME LibraryInv, UNCHANGED <<diskVars, trackVars, worker, watchVars, astray>>,
         NEW phase \in {"off", "queued", "repairing"}, scan' = [scan EXCEPT !.phase = phase],
         scan.phase \notin {"reading", "removed"}
  PROVE  LibraryInv'
<1> USE DEF LibraryInv
<1>1. /\ scan' \in [phase : {"off", "queued", "reading", "removed", "repairing"},
                    left : SUBSET Paths, read : Reads]
      /\ scan'.phase = phase /\ scan'.read = scan.read
  BY DEF WatcherTypes
<1>2. scan.read = NoRead /\ tracks' = tracks /\ made' = made /\ NoRead.path = "none"
  BY DEF ScanOK, trackVars, NoRead
<1>3. RowsOK'
  BY <1>1, <1>2 DEF RowsOK, IdsOK, WorkersRow, ScansRow, SameRow, Task, AtWork
<1>4. \A p \in Paths : Scanned(p)'
  BY <1>1 DEF Scanned
<1>5. /\ tracks' \in [Paths -> Rows] /\ made' \in Nat /\ made <= made'
      /\ scan'.phase \notin {"reading", "removed"} /\ scan'.read = NoRead
  BY <1>1, <1>2 DEF WatcherTypes
<1> QED
  BY <1>1, <1>2, <1>3, <1>4, <1>5, ScanKeeps

LEMMA ScanReadsInv ==
  ASSUME LibraryInv, NEW q \in Paths, ScanReads(q)
  PROVE  LibraryInv'
<1> USE DEF LibraryInv
<1>1. /\ scan.phase = "reading" /\ scan.read = NoRead /\ q \in scan.left
      /\ scan' = [scan EXCEPT !.left = @ \ {q},
                              !.read = IF WorthReading(q) THEN ReadFile(q) ELSE NoRead]
      /\ UNCHANGED <<diskVars, trackVars, watchVars, worker, astray>>
      /\ tracks' = tracks /\ made' = made /\ disk' = disk
  BY DEF ScanReads, trackVars, diskVars
<1>2. /\ made \in Nat /\ tracks \in [Paths -> Rows]
      /\ tracks[q].id \in Nat /\ tracks[q].time \in Nat /\ disk[q] \in Nat
  BY RowTyped DEF WatcherTypes
<1>3. /\ ReadFile(q) \in Reads /\ ReadFile(q) # NoRead /\ ReadFile(q).path = q
      /\ ReadFile(q).id = tracks[q].id /\ ReadFile(q).time = disk[q]
      /\ NoRead \in Reads /\ NoRead.path = "none"
  BY <1>2, WatcherAssumption DEF ReadFile, Reads, NoRead
<1>4. /\ scan'.phase = "reading" /\ scan'.left = scan.left \ {q}
      /\ scan'.read = IF WorthReading(q) THEN ReadFile(q) ELSE NoRead
      /\ scan' = [phase |-> scan'.phase, left |-> scan'.left, read |-> scan'.read]
  BY <1>1 DEF WatcherTypes
<1>5. scan' \in [phase : {"off", "queued", "reading", "removed", "repairing"},
                 left : SUBSET Paths, read : Reads]
  <2>1. scan'.left \in SUBSET Paths /\ scan'.read \in Reads
    BY <1>3, <1>4 DEF WatcherTypes
  <2> QED
    BY <1>4, <2>1
<1>6. scan'.read # NoRead => /\ scan'.phase = "reading" /\ scan'.read.path \in Paths \ scan'.left
                             /\ scan'.read.path = q /\ scan'.read.id = tracks[q].id
                             /\ scan'.read.id <= made'
  BY <1>1, <1>3, <1>4 DEF RowsOK, IdsOK
<1>7. RowsOK'
  <2>1. IdsOK' /\ WorkersRow'
    BY <1>1 DEF RowsOK, IdsOK, WorkersRow, Task, AtWork
  <2>2. ScansRow'
    BY <1>1, <1>2, <1>6 DEF RowsOK, IdsOK, ScansRow
  <2>3. SameRow'
    <3> SUFFICES ASSUME Task("store"), tracks[q].id > 0, tracks[q].id = worker.read.id
                 PROVE  q \in AtWork
      BY <1>1, <1>6 DEF SameRow, Task, AtWork
    <3>1. q = worker.item.path \/ q = worker.item.src
      BY DEF RowsOK, WorkersRow
    <3>2. worker.todo # <<>>
      BY DEF Task
    <3> QED
      BY <3>1, <3>2, AtWorkOn
  <2> QED
    BY <2>1, <2>2, <2>3 DEF RowsOK
<1>8. ASSUME NEW p \in Paths \ astray PROVE Scanned(p)'
  <2>1. Scanned(p) /\ p # "none"
    BY WatcherAssumption DEF PathsOK, PathOK
  <2>2. CASE p = q
    <3>1. CASE WorthReading(q)
      <4>1. scan'.phase = "reading" /\ scan'.read = ReadFile(q)
        BY <1>4, <3>1
      <4> QED
        BY <1>1, <1>2, <1>3, <2>2, <4>1 DEF Scanned
    <3>2. CASE ~WorthReading(q)
      <4>1. disk[q] > 0 => Synced(q)
        BY <1>2, <3>2 DEF WorthReading, Synced
      <4>2. scan'.phase = "reading" /\ scan'.read.path # p
        BY <1>3, <1>4, <2>1, <3>2
      <4> QED
        BY <1>1, <2>2, <4>1, <4>2 DEF Scanned, Synced
    <3> QED
      BY <3>1, <3>2
  <2>3. CASE p # q
    <3>1. p \notin scan.left /\ disk[p] > 0 => Synced(p)
      BY <1>1, <1>3, <2>1 DEF Scanned
    <3> QED
      BY <1>1, <1>3, <1>4, <2>1, <2>3, <3>1 DEF Scanned, Synced
  <2> QED
    BY <2>2, <2>3
<1> QED
  BY <1>1, <1>2, <1>4, <1>5, <1>6, <1>7, <1>8, ScanKeeps

LEMMA ScanStoresInv ==
  ASSUME LibraryInv, ScanStores
  PROVE  LibraryInv'
<1> USE DEF LibraryInv
<1>1. PICK r \in Reads : r = scan.read
  BY DEF WatcherTypes
<1>2. PICK q \in Paths : q = r.path
  BY <1>1 DEF ScanStores, ScanOK
<1>3. /\ scan.phase = "reading" /\ q \notin scan.left /\ r.id <= made /\ ~watched
      /\ AtWork \subseteq astray /\ r.id \in Nat /\ r.time \in Nat /\ scan.read # NoRead
  BY <1>1, <1>2 DEF ScanStores, ScanOK, Reads
<1>4. /\ \/ /\ Storable(r) /\ tracks' = Stored(r)
            /\ made' = IF r.id = 0 THEN made + 1 ELSE made
            /\ scan' = [scan EXCEPT !.read = NoRead]
         \/ /\ ~Storable(r) /\ UNCHANGED trackVars
            /\ scan' = [phase |-> "off", left |-> {}, read |-> NoRead]
         \/ /\ disk[q] = 0 /\ UNCHANGED made
            /\ IF r.id = 0 THEN UNCHANGED tracks ELSE RemoveFile(q)
            /\ scan' = [scan EXCEPT !.read = NoRead]
      /\ UNCHANGED <<diskVars, watchVars, worker, astray>> /\ disk' = disk
  BY <1>1, <1>2 DEF ScanStores, diskVars
<1>5. NoRead \in Reads /\ NoRead.path = "none"
  BY DEF NoRead, Reads
<1>6. /\ scan' \in [phase : {"off", "queued", "reading", "removed", "repairing"},
                    left : SUBSET Paths, read : Reads]
      /\ scan'.read = NoRead /\ scan'.phase \in {"off", "reading"}
      /\ scan'.phase = "reading" => scan'.left = scan.left /\ scan' = [scan EXCEPT !.read = NoRead]
  BY <1>3, <1>4, <1>5 DEF WatcherTypes
<1>7. /\ tracks \in [Paths -> Rows] /\ made \in Nat
      /\ \A p \in Paths : tracks[p].id \in Nat /\ tracks[p].time \in Nat /\ disk[p] \in Nat
  BY RowTyped DEF WatcherTypes
<1>8. /\ tracks' \in [Paths -> Rows] /\ made' \in Nat /\ made <= made' /\ IdsOK'
      /\ \A p \in Paths : p # q =>
            tracks'[p] = tracks[p] \/ (tracks'[p].id = 0 /\ tracks[p].id = r.id /\ r.id # 0)
      /\ \/ tracks'[q] = tracks[q] \/ tracks'[q].id = 0
         \/ r.id = 0 /\ tracks'[q].id = made + 1
         \/ r.id # 0 /\ tracks'[q].id = r.id
      /\ tracks[q].id = r.id /\ disk[q] # 0 /\ scan'.phase = "reading" =>
            tracks'[q].id > 0 /\ tracks'[q].time = r.time
  <2>1. CASE /\ Storable(r) /\ tracks' = Stored(r)
             /\ made' = IF r.id = 0 THEN made + 1 ELSE made
    BY <1>2, <1>3, <2>1, StoredRows DEF RowsOK
  <2>2. CASE scan'.phase = "off" /\ UNCHANGED trackVars
    <3>1. tracks' = tracks /\ made' = made
      BY <2>2 DEF trackVars
    <3> QED
      BY <1>7, <2>2, <3>1 DEF RowsOK, IdsOK
  <2>3. CASE disk[q] = 0 /\ UNCHANGED made /\ RemoveFile(q)
    <3>1. /\ tracks' \in [Paths -> Rows] /\ tracks'[q].id = 0
          /\ \A p \in Paths : p # q => tracks'[p] = tracks[p]
      BY <2>3, RemovedRow
    <3>2. IdsOK'
      BY <2>3, <3>1, FewerRows DEF RowsOK
    <3> QED
      BY <1>7, <2>3, <3>1, <3>2
  <2>4. CASE disk[q] = 0 /\ UNCHANGED made /\ UNCHANGED tracks
    BY <1>7, <2>4 DEF RowsOK, IdsOK
  <2>5. scan' = [phase |-> "off", left |-> {}, read |-> NoRead] => scan'.phase = "off"
    OBVIOUS
  <2> QED
    BY <1>4, <2>1, <2>2, <2>3, <2>4, <2>5
<1>9. ASSUME NEW p \in Paths \ astray, p # q PROVE tracks'[p] = tracks[p]
  <2> SUFFICES ASSUME tracks[p].id = r.id, r.id # 0 PROVE FALSE
    BY <1>8, <1>9
  <2> QED
    BY <1>1, <1>2, <1>3, <1>9 DEF RowsOK, ScansRow
<1>10. WorkersRow'
  <2> SUFFICES ASSUME Task("store"), worker.read.id > 0,
                      NEW x \in Paths, tracks'[x].id = worker.read.id
               PROVE  x = worker.item.path \/ (x = worker.item.src /\ AtWork \subseteq astray)
    BY <1>4 DEF WorkersRow, Task, AtWork
  <2>1. worker.read.id \in Nat /\ worker.read.id <= made
    BY DEF WatcherTypes, Reads, WorkerOK
  <2>2. CASE tracks[x].id = worker.read.id
    BY <2>2 DEF RowsOK, WorkersRow
  <2>3. CASE tracks[x].id # worker.read.id
    <3>1. x = q
      BY <1>8, <2>1, <2>3
    <3>2. worker.read.id # made + 1
      BY <1>7, <2>1
    <3>3. r.id = worker.read.id
      BY <1>8, <2>1, <2>3, <3>1, <3>2
    <3>4. q \in AtWork
      BY <1>1, <1>2, <1>3, <3>3 DEF RowsOK, SameRow
    <3> QED
      BY <1>3, <3>1, <3>4 DEF AtWork
  <2> QED
    BY <2>2, <2>3
<1>11. RowsOK'
  BY <1>6, <1>8, <1>10 DEF RowsOK, ScansRow, SameRow
<1>12. ASSUME NEW p \in Paths \ astray PROVE Scanned(p)'
  <2>1. Scanned(p) /\ p # "none"
    BY WatcherAssumption DEF PathsOK, PathOK
  <2> SUFFICES ASSUME scan'.phase = "reading", p \notin scan.left, disk[p] # 0
               PROVE  tracks'[p].id > 0 /\ tracks'[p].time >= disk[p]
    BY <1>4, <1>5, <1>6, <1>7, <2>1 DEF Scanned, Synced
  <2>2. CASE p = q
    BY <1>1, <1>2, <1>3, <1>8, <2>1, <2>2 DEF Scanned
  <2>3. CASE p # q
    <3>1. Synced(p)
      BY <1>1, <1>2, <1>3, <1>7, <2>1, <2>3 DEF Scanned
    <3> QED
      BY <1>9, <2>3, <3>1 DEF Synced
  <2> QED
    BY <2>2, <2>3
<1> QED
  BY <1>3, <1>4, <1>6, <1>8, <1>11, <1>12, ScanKeeps

LEMMA ScanRemovesInv ==
  ASSUME LibraryInv, ScanRemoves
  PROVE  LibraryInv'
<1> USE DEF LibraryInv
<1>1. /\ scan.phase = "reading" /\ scan.left = {} /\ scan.read = NoRead
      /\ tracks' = [p \in Paths |-> IF disk[p] = 0 THEN NoTrack ELSE tracks[p]]
      /\ scan' = [scan EXCEPT !.phase = "removed"]
      /\ UNCHANGED <<diskVars, made, watchVars, worker, astray>> /\ disk' = disk /\ made' = made
  BY DEF ScanRemoves, diskVars
<1>2. ~watched /\ AtWork \subseteq astray
  BY <1>1 DEF ScanOK
<1>3. /\ scan' \in [phase : {"off", "queued", "reading", "removed", "repairing"},
                    left : SUBSET Paths, read : Reads]
      /\ scan'.phase = "removed" /\ scan'.read = NoRead /\ NoRead.path = "none"
  BY <1>1 DEF WatcherTypes, NoRead
<1>4. /\ tracks \in [Paths -> Rows] /\ made \in Nat /\ NoTrack \in Rows /\ NoTrack.id = 0
      /\ \A p \in Paths : disk[p] \in Nat
  BY RowTyped DEF WatcherTypes, NoTrack, Rows
<1>5. /\ tracks' \in [Paths -> Rows]
      /\ \A p \in Paths : IF disk[p] = 0 THEN tracks'[p].id = 0 ELSE tracks'[p] = tracks[p]
  BY <1>1, <1>4
<1>6. RowsOK'
  <2>1. IdsOK'
    BY <1>1, <1>5, FewerRows DEF RowsOK
  <2>2. WorkersRow'
    BY <1>1, <1>5 DEF RowsOK, WorkersRow, Task, AtWork
  <2> QED
    BY <1>3, <2>1, <2>2 DEF RowsOK, ScansRow, SameRow
<1>7. ASSUME NEW p \in Paths \ astray PROVE Scanned(p)'
  <2>1. disk[p] > 0 => Synced(p)
    BY <1>1, <1>3, WatcherAssumption DEF PathsOK, PathOK, Scanned
  <2> QED
    BY <1>1, <1>3, <1>4, <1>5, <2>1 DEF Scanned, Synced
<1> QED
  BY <1>1, <1>2, <1>3, <1>4, <1>5, <1>6, <1>7, ScanKeeps

(* A scan begins: from here on every file is looked at again.              *)
LEMMA ScanFolderInv ==
  ASSUME LibraryInv, ScanFolder
  PROVE  LibraryInv'
<1> USE DEF LibraryInv
<1>1. CASE scan' = [scan EXCEPT !.phase = "off"] /\ UNCHANGED <<watchVars, astray>>
  BY <1>1, ScanWaits DEF ScanFolder
<1>2. CASE /\ scan' = [scan EXCEPT !.phase = "reading", !.left = {p \in Paths : disk[p] > 0}]
           /\ watched' = FALSE /\ notes' = <<>> /\ queue' = <<>> /\ astray' = AtWork
           /\ UNCHANGED open
  <2>1. scan.read = NoRead /\ UNCHANGED <<disk, changes, tracks, made, worker>>
    BY DEF ScanFolder, ScanOK, diskVars, trackVars
  <2>2. /\ scan' \in [phase : {"off", "queued", "reading", "removed", "repairing"},
                      left : SUBSET Paths, read : Reads]
        /\ scan'.phase = "reading" /\ scan'.left = {p \in Paths : disk[p] > 0}
        /\ scan'.read = NoRead /\ NoRead.path = "none"
    <3>1. {p \in Paths : disk[p] > 0} \in SUBSET Paths
      OBVIOUS
    <3> QED
      BY <1>2, <2>1, <3>1 DEF WatcherTypes, NoRead
  <2>3. <<>> \in Seq(Events) /\ DOMAIN <<>> = {} /\ ToSet(<<>>) = {}
    <3>1. <<>> \in Seq(Events) /\ Len(<<>>) = 0
      BY EmptySeq
    <3>2. DOMAIN <<>> = {}
      OBVIOUS
    <3> QED
      BY <3>1, <3>2 DEF ToSet
  <2>4. WatcherTypes'
    BY <1>2, <2>1, <2>2, <2>3 DEF WatcherTypes
  <2>5. EventsOK'
    BY <1>2, <2>3 DEF EventsOK, OneEach
  <2>6. WorkerOK' /\ AtWork' = AtWork
    BY <2>1 DEF WorkerOK, Task, AtWork
  <2>7. ScanOK'
    BY <1>2, <2>2, <2>6 DEF ScanOK
  <2>8. RowsOK'
    <3>1. IdsOK' /\ WorkersRow'
      BY <1>2, <2>1, <2>6 DEF RowsOK, IdsOK, WorkersRow, Task
    <3> QED
      BY <2>2, <3>1 DEF RowsOK, ScansRow, SameRow
  <2>9. ASSUME NEW p \in Paths \ astray' PROVE PathOK(p)'
    <3>1. p \notin AtWork /\ p # "none"
      BY <1>2, <2>9, WatcherAssumption
    <3>2. Scanned(p)'
      BY <2>1, <2>2, <3>1 DEF Scanned
    <3>3. ~(Task("store")' /\ worker'.item.path = p)
      BY <2>1, <3>1 DEF Task, AtWork
    <3> QED
      BY <1>2, <3>2, <3>3 DEF PathOK
  <2> QED
    BY <2>4, <2>5, <2>6, <2>7, <2>8, <2>9 DEF PathsOK
<1> QED
  BY <1>1, <1>2 DEF ScanFolder

(* A scan ends: what it has seen to is followed from here on.              *)
LEMMA ScanWatchesInv ==
  ASSUME LibraryInv, ScanWatches
  PROVE  LibraryInv'
<1> USE DEF LibraryInv
<1>1. /\ scan.phase \in {"reading", "removed"} /\ scan.read = NoRead
      /\ scan' = [scan EXCEPT !.phase = "repairing", !.left = {}] /\ watched' = TRUE
      /\ UNCHANGED <<disk, changes, tracks, made, notes, queue, open, worker>>
      /\ astray' = IF scan.phase = "reading" THEN Paths ELSE astray
  BY DEF ScanWatches, ScanOK, diskVars, trackVars
<1>2. AtWork \subseteq astray /\ notes = <<>> /\ queue = <<>>
  BY <1>1 DEF ScanOK, EventsOK
<1>3. AtWork' = AtWork /\ AtWork' \subseteq astray'
  <2>1. worker.todo # <<>> => AtWork \subseteq Paths
    BY AtWorkOn
  <2>2. worker.todo = <<>> => AtWork = {}
    BY DEF AtWork
  <2> QED
    BY <1>1, <1>2, <2>1, <2>2 DEF AtWork
<1>4. /\ scan' \in [phase : {"off", "queued", "reading", "removed", "repairing"},
                    left : SUBSET Paths, read : Reads]
      /\ scan'.phase = "repairing" /\ scan'.read = NoRead
  <2>1. {} \in SUBSET Paths
    OBVIOUS
  <2> QED
    BY <1>1, <2>1 DEF WatcherTypes
<1>5. WatcherTypes'
  BY <1>1, <1>4 DEF WatcherTypes
<1>6. EventsOK' /\ WorkerOK'
  BY <1>1 DEF EventsOK, WorkerOK, Task
<1>7. ScanOK'
  BY <1>4 DEF ScanOK
<1>8. RowsOK'
  <2>1. IdsOK' /\ WorkersRow'
    BY <1>1, <1>3 DEF RowsOK, IdsOK, WorkersRow, Task
  <2> QED
    BY <1>4, <2>1 DEF RowsOK, ScansRow, SameRow
<1>9. ASSUME NEW p \in Paths \ astray' PROVE PathOK(p)'
  <2>1. scan.phase = "removed" /\ p \notin astray /\ p # "none"
    BY <1>1, <1>9, WatcherAssumption
  <2>2. IF disk[p] = 0 THEN tracks[p].id = 0 ELSE Synced(p)
    BY <2>1 DEF PathsOK, PathOK, Scanned
  <2>3. ~(worker.todo # <<>> /\ worker.item.path = p)
    BY <1>2, <2>1 DEF AtWork
  <2>4. WorkerSettles(p)'
    BY <1>1, <2>2, <2>3 DEF WorkerSettles, WorkerAdds, WorkerDrops, WorksOn, Synced
  <2>5. DOMAIN notes' = {} /\ ToSet(notes') = {} /\ ToSet(queue') = {}
    BY <1>1, <1>2 DEF ToSet
  <2>6. Followed(p)'
    BY <2>4, <2>5 DEF Followed, NotesTell, QueueSettles
  <2> QED
    BY <1>1, <1>4, <2>3, <2>6 DEF PathOK, Scanned, Task
<1> QED
  BY <1>5, <1>6, <1>7, <1>8, <1>9 DEF PathsOK

(* The observer is stopped, with what it has not dispatched.               *)
LEMMA StopWatcherInv ==
  ASSUME LibraryInv, StopWatcher
  PROVE  LibraryInv'
<1> USE DEF LibraryInv
<1>1. /\ open' = FALSE /\ notes' = <<>>
      /\ astray' = astray \cup UNION {{e.path, e.src} : e \in ToSet(notes)}
      /\ UNCHANGED <<disk, changes, tracks, made, watched, queue, worker, scan>>
  BY DEF StopWatcher, diskVars, trackVars
<1>2. <<>> \in Seq(Events) /\ DOMAIN notes' = {} /\ ToSet(notes') = {}
  <2>1. <<>> \in Seq(Events)
    BY EmptySeq
  <2> QED
    BY <1>1, <2>1 DEF ToSet
<1>3. WatcherTypes' /\ EventsOK'
  BY <1>1, <1>2 DEF WatcherTypes, EventsOK
<1>4. WorkerOK' /\ AtWork' = AtWork
  BY <1>1 DEF WorkerOK, Task, AtWork
<1>5. ScanOK'
  BY <1>1, <1>4 DEF ScanOK
<1>6. RowsOK'
  <2>1. IdsOK' /\ WorkersRow'
    BY <1>1, <1>4 DEF RowsOK, IdsOK, WorkersRow, Task
  <2>2. ScansRow' /\ SameRow'
    BY <1>1, <1>4 DEF RowsOK, ScansRow, MovedFrom, SameRow, Task
  <2> QED
    BY <2>1, <2>2 DEF RowsOK
<1>7. ASSUME NEW p \in Paths \ astray' PROVE PathOK(p)'
  <2>1. PathOK(p) /\ Unnoted(p)
    BY <1>1 DEF PathsOK, Unnoted, Concerns
  <2>2. Followed(p) => QueueSettles(p) /\ (Unqueued(p) => WorkerSettles(p))
    BY <2>1 DEF Followed
  <2>3. Followed(p) => Followed(p)'
    BY <1>1, <1>2, <2>2
       DEF Followed, NotesTell, QueueSettles, Settles, Unqueued, WorkerSettles, TakenAway,
           WorkerAdds, WorkerDrops, WorksOn, Task, Synced
  <2> QED
    BY <1>1, <2>1, <2>3 DEF PathOK, Scanned, Synced, Task
<1> QED
  BY <1>3, <1>4, <1>5, <1>6, <1>7 DEF PathsOK

LEMMA LibraryKept ==
  ASSUME LibraryInv, UNCHANGED <<diskVars, trackVars, watchVars, worker, scan, astray>>
  PROVE  LibraryInv'
<1> USE DEF LibraryInv
<1>1. UNCHANGED <<disk, changes, tracks, made, watched, notes, queue, open, worker, scan, astray>>
  BY DEF diskVars, trackVars, watchVars
<1>2. WatcherTypes' /\ EventsOK' /\ WorkerOK' /\ AtWork' = AtWork
  BY <1>1 DEF WatcherTypes, EventsOK, WorkerOK, Task, AtWork
<1>3. ScanOK' /\ RowsOK'
  BY <1>1, <1>2 DEF ScanOK, RowsOK, IdsOK, WorkersRow, ScansRow, MovedFrom, SameRow, Task
<1>4. ASSUME NEW p \in Paths \ astray' PROVE PathOK(p)'
  <2>1. PathOK(p)
    BY <1>1 DEF PathsOK
  <2>2. Followed(p) => Followed(p)'
    BY <1>1 DEF Followed, NotesTell, Tells, Unnoted, QueueSettles, Settles, Unqueued,
                WorkerSettles, TakenAway, WorkerAdds, WorkerDrops, WorksOn, Task, Synced
  <2> QED
    BY <1>1, <2>1, <2>2 DEF PathOK, Scanned, Synced, Task
<1> QED
  BY <1>2, <1>3, <1>4 DEF PathsOK

LEMMA LibraryStep ==
  ASSUME LibraryInv, NextWatcher \/ StartScan
  PROVE  LibraryInv'
<1>1. CASE (\E p \in Paths : Write(p) \/ Unlink(p)) \/ \E p, q \in Paths : Rename(p, q)
  BY <1>1, ChangesInv
<1>2. CASE \E p \in Paths : ScanReads(p)
  BY <1>2, ScanReadsInv
<1>3. CASE Deliver \/ NextItem \/ EndBatch \/ NextBatch
  BY <1>3, DeliverInv, NextItemInv, BatchInv
<1>4. CASE WorkerMoves \/ WorkerReads \/ WorkerStores \/ WorkerRemoves
  BY <1>4, WorkerMovesInv, WorkerReadsInv, WorkerStoresInv, WorkerRemovesInv
<1>5. CASE ScanFolder \/ ScanStores \/ ScanRemoves \/ ScanWatches
  BY <1>5, ScanFolderInv, ScanStoresInv, ScanRemovesInv, ScanWatchesInv
<1>6. CASE StartScan \/ EndScan
  BY <1>6, ScanWaits DEF StartScan, EndScan
<1> QED
  BY <1>1, <1>2, <1>3, <1>4, <1>5, <1>6 DEF NextWatcher

(* What is noted, queued, read or at work always ends in tracks that are   *)
(* the files: the inductive invariant of the library.                      *)
THEOREM LibraryInvariant == SpecDaemon => []LibraryInv
<1>1. InitDaemon => LibraryInv
  <2> SUFFICES ASSUME InitWatcher PROVE LibraryInv
    BY DEF InitDaemon
  <2>1. /\ NoTrack \in Rows /\ NoTrack.id = 0 /\ NoRead \in Reads /\ NoRead.path = "none"
    BY DEF NoTrack, Rows, NoRead, Reads
  <2>2. <<>> \in Seq(Events) /\ DOMAIN <<>> = {} /\ ToSet(<<>>) = {} /\ <<>> \in Todos
    <3>1. <<>> \in Seq(Events) /\ <<>> \in Todos
      BY EmptySeq DEF Todos
    <3>2. DOMAIN <<>> = {}
      OBVIOUS
    <3> QED
      BY <3>1, <3>2 DEF ToSet
  <2>3. /\ disk = [p \in Paths |-> 0] /\ changes = 0
        /\ tracks = [p \in Paths |-> NoTrack] /\ made = 0
        /\ watched = TRUE /\ notes = <<>> /\ queue = <<>> /\ open = TRUE
        /\ worker = [phase |-> "waiting", item |-> NoEvent, todo |-> <<>>, read |-> NoRead]
        /\ scan = [phase |-> "off", left |-> {}, read |-> NoRead]
    BY DEF InitWatcher
  <2>4. worker.todo = <<>> /\ worker.read = NoRead /\ scan.phase = "off" /\ scan.read = NoRead
    BY <2>3
  <2>5. worker \in [phase : {"waiting", "batch", "pruning", "ended"},
                    item : Events \cup {NoEvent}, todo : Todos, read : Reads]
    BY <2>1, <2>2, <2>3
  <2>6. scan \in [phase : {"off", "queued", "reading", "removed", "repairing"},
                  left : SUBSET Paths, read : Reads]
    BY <2>1, <2>3
  <2>7. WatcherTypes
    BY <2>1, <2>2, <2>3, <2>5, <2>6 DEF WatcherTypes
  <2>8. EventsOK
    BY <2>2, <2>3 DEF EventsOK, OneEach
  <2>9. WorkerOK /\ ScanOK
    BY <2>4 DEF WorkerOK, ScanOK, Task
  <2>10. RowsOK
    BY <2>1, <2>3, <2>4 DEF RowsOK, IdsOK, WorkersRow, ScansRow, SameRow, Task
  <2>11. ASSUME NEW p \in Paths PROVE PathOK(p)
    <3>1. tracks[p].id = 0 /\ disk[p] = 0
      BY <2>1, <2>3
    <3>2. WorkerSettles(p)
      BY <2>4, <3>1 DEF WorkerSettles, WorkerDrops, WorksOn
    <3>3. Followed(p)
      BY <2>2, <2>3, <3>2 DEF Followed, NotesTell, QueueSettles
    <3> QED
      BY <2>4, <3>3 DEF PathOK, Scanned, Task
  <2> QED
    BY <2>7, <2>8, <2>9, <2>10, <2>11 DEF LibraryInv, PathsOK
<1>2. LibraryInv /\ [NextDaemon]_allVars => LibraryInv'
  <2> SUFFICES ASSUME LibraryInv, [NextDaemon]_allVars PROVE LibraryInv'
    OBVIOUS
  <2>1. CASE NextWatcher \/ StartScan
    BY <2>1, LibraryStep
  <2>2. CASE UNCHANGED <<diskVars, trackVars, watchVars, worker, scan, astray>>
    BY <2>2, LibraryKept
  <2>3. CASE StopWatcher
    BY <2>3, StopWatcherInv
  <2>4. UNCHANGED watcherVars => UNCHANGED <<diskVars, trackVars, watchVars, worker, scan, astray>>
    BY DEF watcherVars
  <2> QED
    BY <2>1, <2>2, <2>3, <2>4
       DEF NextDaemon, allVars, BadSkip, JobStarts, JobEnds, Terminate,
           StopScheduler, StopJukebox, Terminated
<1> QED
  BY <1>1, <1>2, PTL DEF SpecDaemon

(* When nobody is at work on the library and nothing is left to be told,   *)
(* the tracks are the files, and none is older than its file, whatever the *)
(* order of changes, events, tasks and scans.                              *)
THEOREM LibraryCorrect == SpecDaemon => []LibraryFollowsDisk
<1>1. LibraryInv => LibraryFollowsDisk
  <2> SUFFICES ASSUME LibraryInv, AtRest,
                      NEW p \in Paths \ (astray \cup UNION {{e.path, e.src} : e \in ToSet(queue)})
               PROVE  (disk[p] > 0 <=> tracks[p].id > 0) /\ tracks[p].time >= disk[p]
    BY DEF LibraryFollowsDisk
  <2>1. Unnoted(p) /\ Unqueued(p) /\ ~TakenAway(p)
    <3>1. ToSet(notes) = {}
      BY DEF AtRest, ToSet
    <3> QED
      BY <3>1 DEF Unnoted, Unqueued, TakenAway
  <2>2. WorkerSettles(p) /\ worker.todo = <<>>
    BY <2>1 DEF LibraryInv, PathsOK, PathOK, Followed, AtRest
  <2>3. disk[p] \in Nat /\ tracks[p].id \in Nat /\ tracks[p].time \in Nat
    BY RowTyped DEF LibraryInv
  <2>4. CASE disk[p] = 0
    BY <2>1, <2>2, <2>3, <2>4 DEF WorkerSettles, WorkerDrops, WorksOn, Task
  <2>5. CASE disk[p] # 0
    BY <2>2, <2>3, <2>5 DEF WorkerSettles, WorkerAdds, WorksOn, Synced
  <2> QED
    BY <2>4, <2>5
<1> QED
  BY <1>1, LibraryInvariant, PTL

=============================================================================
