---------------------------- MODULE Rooms_proofs ----------------------------
(***************************************************************************)
(* What is proved of the rooms, for any number of devices, broadcasts,     *)
(* contexts, requests and handlers.                                        *)
(***************************************************************************)
EXTENDS Rooms, SequenceTheorems, TLAPS

-----------------------------------------------------------------------------
(* Sequences of whatever.                                                  *)
IsSeq(s) == \E S : s \in Seq(S)

LEMMA SeqFacts ==
    ASSUME NEW s, IsSeq(s)
    PROVE  Len(s) \in Nat /\ DOMAIN s = 1 .. Len(s) /\ (s = <<>> <=> Len(s) = 0)
<1>1. PICK S : s \in Seq(S)
  BY DEF IsSeq
<1> QED BY <1>1

LEMMA Wider == ASSUME NEW S, NEW s \in Seq(S), NEW x PROVE s \in Seq(S \cup {x})
OBVIOUS

LEMMA Appended ==
    ASSUME NEW s, IsSeq(s), NEW x
    PROVE  /\ IsSeq(Append(s, x)) /\ Len(Append(s, x)) = Len(s) + 1
           /\ DOMAIN Append(s, x) = 1 .. Len(s) + 1
           /\ \A i \in 1 .. Len(s) : Append(s, x)[i] = s[i]
           /\ Append(s, x)[Len(s) + 1] = x
<1>1. PICK S : s \in Seq(S)
  BY DEF IsSeq
<1>2. s \in Seq(S \cup {x}) /\ x \in S \cup {x}
  BY <1>1, Wider
<1>3. Append(s, x) \in Seq(S \cup {x})
  BY <1>2
<1> QED BY <1>2, <1>3 DEF IsSeq

LEMMA Mapped ==
    ASSUME NEW s, IsSeq(s), NEW t, DOMAIN t = DOMAIN s, t = [i \in DOMAIN s |-> t[i]]
    PROVE  IsSeq(t) /\ Len(t) = Len(s)
<1>1. Len(s) \in Nat /\ DOMAIN s = 1 .. Len(s)
  BY SeqFacts
<1> DEFINE T == {t[i] : i \in 1 .. Len(s)}
<1>2. \A i \in 1 .. Len(s) : t[i] \in T
  OBVIOUS
<1> HIDE DEF T
<1>3. t \in [1 .. Len(s) -> T]
  BY <1>1, <1>2
<1>4. t \in Seq(T) /\ Len(t) = Len(s)
  BY <1>1, <1>3
<1> QED BY <1>4 DEF IsSeq

LEMMA Updated ==
    ASSUME NEW s, IsSeq(s), NEW i, NEW x
    PROVE  /\ IsSeq([s EXCEPT ![i] = x]) /\ Len([s EXCEPT ![i] = x]) = Len(s)
           /\ DOMAIN [s EXCEPT ![i] = x] = DOMAIN s
           /\ \A j \in DOMAIN s : [s EXCEPT ![i] = x][j] = IF j = i THEN x ELSE s[j]
<1> DEFINE t == [s EXCEPT ![i] = x]
<1>1. DOMAIN t = DOMAIN s /\ t = [j \in DOMAIN s |-> t[j]]
  OBVIOUS
<1>2. IsSeq(t) /\ Len(t) = Len(s)
  BY <1>1, Mapped
<1> QED BY <1>2

LEMMA Removed ==
    ASSUME NEW s, IsSeq(s), NEW i \in DOMAIN s
    PROVE  /\ IsSeq(RemoveAt(s, i)) /\ Len(RemoveAt(s, i)) = Len(s) - 1
           /\ DOMAIN RemoveAt(s, i) = 1 .. Len(s) - 1
           /\ \A j \in 1 .. Len(s) - 1 :
                RemoveAt(s, i)[j] = IF j < i THEN s[j] ELSE s[j + 1]
<1>0. PICK S : s \in Seq(S)
  BY DEF IsSeq
<1> DEFINE a == SubSeq(s, 1, i - 1)
           b == SubSeq(s, i + 1, Len(s))
<1>i. i \in 1 .. Len(s)
  BY SeqFacts
<1>1. /\ a \in Seq(S) /\ Len(a) = i - 1 /\ \A j \in 1 .. i - 1 : a[j] = s[j]
      /\ b \in Seq(S) /\ Len(b) = Len(s) - i /\ \A j \in 1 .. Len(s) - i : b[j] = s[j + i]
  BY <1>0, <1>i
<1> HIDE DEF a, b
<1>2. /\ a \o b \in Seq(S) /\ Len(a \o b) = Len(s) - 1
      /\ \A j \in 1 .. Len(s) - 1 :
            (a \o b)[j] = IF j <= i - 1 THEN a[j] ELSE b[j - (i - 1)]
  <2>1. /\ a \o b \in Seq(S) /\ Len(a \o b) = Len(a) + Len(b)
        /\ \A j \in 1 .. Len(a) + Len(b) :
              (a \o b)[j] = IF j <= Len(a) THEN a[j] ELSE b[j - Len(a)]
    BY <1>1, ConcatProperties
  <2>2. Len(a) + Len(b) = Len(s) - 1
    BY <1>0, <1>1, <1>i
  <2> QED BY <1>1, <2>1, <2>2
<1>3. ASSUME NEW j \in 1 .. Len(s) - 1
      PROVE  (a \o b)[j] = IF j < i THEN s[j] ELSE s[j + 1]
  <2>1. CASE j < i
    BY <1>0, <1>1, <1>2, <1>i, <2>1
  <2>2. CASE ~(j < i)
    <3> DEFINE n == j - (i - 1)
    <3>1. n \in 1 .. Len(s) - i /\ n + i = j + 1 /\ ~(j <= i - 1)
      BY <1>0, <1>i, <2>2
    <3>2. b[n] = s[n + i]
      BY <1>1, <3>1
    <3>3. (a \o b)[j] = b[n]
      BY <1>2, <3>1
    <3> QED BY <2>2, <3>1, <3>2, <3>3
  <2> QED BY <2>1, <2>2
<1>4. RemoveAt(s, i) = a \o b
  BY DEF RemoveAt, a, b
<1> QED BY <1>2, <1>3, <1>4, SeqFacts DEF IsSeq

-----------------------------------------------------------------------------
(* A request or an answer is taken on behind those in progress.            *)
TakesOn(x) ==
    /\ IsSeq(handlers')
    /\ \A g \in Running : g \in Running' /\ handlers'[g] = handlers[g]
    /\ \E n \in Running' : handlers'[n] = x /\ n \notin Running /\ Running' = Running \cup {n}

LEMMA BeginsTakesOn ==
    ASSUME IsSeq(handlers), NEW t, NEW p, NEW data, NEW todo, Begin(t, p, data, todo)
    PROVE  TakesOn(Handler(t, p, data, todo))
<1> DEFINE x == Handler(t, p, data, todo)
<1>1. handlers' = Append(handlers, x)
  BY DEF Begin
<1> HIDE DEF x
<1>2. /\ IsSeq(handlers') /\ DOMAIN handlers' = 1 .. Len(handlers) + 1
      /\ \A i \in 1 .. Len(handlers) : handlers'[i] = handlers[i]
      /\ handlers'[Len(handlers) + 1] = x
      /\ Len(handlers) \in Nat /\ DOMAIN handlers = 1 .. Len(handlers)
  BY <1>1, Appended, SeqFacts
<1> QED BY <1>2 DEF TakesOn, Running, x

(* One handler goes on as one of S, or is gone when S is empty; where tells*)
(* for each that is there afterwards which one it was.                     *)
Moves(h, S, where) ==
    /\ where \in [Running' -> Running]
    /\ \A f, g \in Running' : where[f] = where[g] => f = g
    /\ \A g \in Running' : where[g] # h => handlers'[g] = handlers[where[g]]
    /\ \A g \in Running' : where[g] = h => handlers'[g] \in S
    /\ \A f \in Running : f # h \/ S # {} => \E g \in Running' : where[g] = f

Turn(h, S) == h \in Running /\ IsSeq(handlers') /\ \E where : Moves(h, S, where)

LEMMA EndsTurn == ASSUME IsSeq(handlers), NEW h \in Running, Ends(h) PROVE Turn(h, {})
<1>1. /\ Len(handlers) \in Nat /\ Running = 1 .. Len(handlers) /\ h \in 1 .. Len(handlers)
  BY SeqFacts DEF Running
<1>2. /\ IsSeq(handlers') /\ Running' = 1 .. Len(handlers) - 1
      /\ \A g \in 1 .. Len(handlers) - 1 :
            handlers'[g] = IF g < h THEN handlers[g] ELSE handlers[g + 1]
  BY Removed DEF Ends, Running
<1> DEFINE where == [g \in 1 .. Len(handlers) - 1 |-> IF g < h THEN g ELSE g + 1]
<1>3. /\ where \in [Running' -> Running]
      /\ \A f, g \in Running' : where[f] = where[g] => f = g
      /\ \A g \in Running' : where[g] # h
  BY <1>1, <1>2
<1>4. \A f \in Running : f # h => \E g \in Running' : where[g] = f
  <2> SUFFICES ASSUME NEW f \in Running, f # h
               PROVE  \E g \in Running' : where[g] = f
    OBVIOUS
  <2>1. CASE f < h
    <3>1. f \in Running' /\ where[f] = f
      BY <1>1, <1>2, <2>1
    <3> QED BY <3>1
  <2>2. CASE f > h
    <3>1. f - 1 \in Running' /\ where[f - 1] = f
      BY <1>1, <1>2, <2>2
    <3> QED BY <3>1
  <2>3. f \in Int /\ h \in Int
    BY <1>1
  <2> HIDE DEF where
  <2> QED BY <2>1, <2>2, <2>3
<1>5. \A g \in Running' : handlers'[g] = handlers[where[g]]
  BY <1>2
<1>6. Moves(h, {}, where)
  BY <1>3, <1>4, <1>5 DEF Moves
<1> QED BY <1>2, <1>6 DEF Turn

LEMMA ReplacesTurn ==
    ASSUME IsSeq(handlers), NEW h \in Running, NEW y, handlers' = [handlers EXCEPT ![h] = y]
    PROVE  Turn(h, {y})
<1> DEFINE where == [g \in Running |-> g]
<1>1. /\ IsSeq(handlers') /\ Running' = Running
      /\ \A g \in Running : handlers'[g] = IF g = h THEN y ELSE handlers[g]
  BY Updated DEF Running
<1>2. Moves(h, {y}, where)
  BY <1>1 DEF Moves
<1> QED BY <1>1, <1>2 DEF Turn

(* What a handler is when it has other tasks and knows other things.       *)
Rest(x, todo, data) == [x EXCEPT !.todo = todo, !.data = data]

HandlerFields == {"timeline", "prepare", "data", "todo", "older"}

LEMMA RestIs ==
    ASSUME NEW x, DOMAIN x = HandlerFields, NEW todo, NEW data
    PROVE  LET y == Rest(x, todo, data)
           IN  /\ DOMAIN y = HandlerFields /\ y.todo = todo /\ y.data = data
               /\ y.timeline = x.timeline /\ y.prepare = x.prepare /\ y.older = x.older
BY DEF Rest, HandlerFields

LEMMA HandlerIs ==
    ASSUME NEW t, NEW p, NEW data, NEW todo
    PROVE  LET x == Handler(t, p, data, todo)
           IN  /\ DOMAIN x = HandlerFields /\ x.todo = todo /\ x.data = data
               /\ x.timeline = t /\ x.prepare = p /\ x.older = PreparingOn(t)
BY DEF Handler, HandlerFields

LEMMA RestTurn ==
    ASSUME IsSeq(handlers), NEW h \in Running, DOMAIN handlers[h] = HandlerFields, NEW todo, NEW data,
           \/ handlers' = [handlers EXCEPT ![h].todo = todo, ![h].data = data]
           \/ handlers' = [handlers EXCEPT ![h].todo = todo] /\ data = handlers[h].data
    PROVE  Turn(h, {Rest(handlers[h], todo, data)})
<1>1. CASE handlers' = [handlers EXCEPT ![h].todo = todo, ![h].data = data]
  <2>1. handlers' = [handlers EXCEPT ![h] = Rest(handlers[h], todo, data)]
    BY <1>1 DEF Rest, Running
  <2> QED BY <2>1, ReplacesTurn
<1>2. CASE handlers' = [handlers EXCEPT ![h].todo = todo] /\ data = handlers[h].data
  <2>1. [handlers[h] EXCEPT !.todo = todo] = Rest(handlers[h], todo, data)
    BY <1>2 DEF Rest, HandlerFields
  <2>2. handlers' = [handlers EXCEPT ![h] = Rest(handlers[h], todo, data)]
    BY <1>2, <2>1
  <2> QED BY <2>2, ReplacesTurn
<1> QED BY <1>1, <1>2

LEMMA ProceedsTurn ==
    ASSUME IsSeq(handlers), NEW h \in Running, DOMAIN handlers[h] = HandlerFields, NEW data,
           Proceeds(h, data)
    PROVE  Turn(h, IF Len(handlers[h].todo) = 1 THEN {}
                   ELSE {Rest(handlers[h], Tail(handlers[h].todo), data)})
<1>1. CASE Len(handlers[h].todo) = 1
  BY <1>1, EndsTurn DEF Proceeds
<1>2. CASE Len(handlers[h].todo) # 1
  <2>1. PICK todo : todo = Tail(handlers[h].todo)
    OBVIOUS
  <2>2. handlers' = [handlers EXCEPT ![h].todo = todo, ![h].data = data]
    BY <1>2, <2>1 DEF Proceeds
  <2>3. Turn(h, {Rest(handlers[h], todo, data)})
    BY <2>2, RestTurn
  <2> QED BY <1>2, <2>1, <2>3
<1> QED BY <1>1, <1>2

-----------------------------------------------------------------------------
(* The tasks that a handler can be left with.                              *)
Creating == <<"create", "send">>
Deciding == {<<"send">>, <<"claim">>, <<"abort">>, <<"timeOut">>}
Superseding ==
    {<<"update", "supersede", "upsert", "save">>, <<"stop", "supersede", "upsert", "save">>,
     <<"supersede", "upsert", "save">>,
     <<"syncContext", "supersede", "saveContext", "saveQueue">>,
     <<"syncQueue", "supersede", "saveContext", "saveQueue">>,
     <<"supersede", "saveContext", "saveQueue">>,
     <<"control", "supersede", "savePlayback">>, <<"supersede", "savePlayback">>}
Plain ==
    {<<"createBroadcast", "upsert", "save">>, <<"update", "upsert", "save">>,
     <<"upsert", "save">>, <<"save">>,
     <<"saveContext", "saveQueue">>, <<"saveQueue">>,
     <<"control", "savePlayback">>, <<"savePlayback">>,
     <<"reportContext", "saveContext", "savePlayback">>, <<"saveContext", "savePlayback">>,
     <<"restoreQueue", "readPlaybacks">>, <<"readPlaybacks">>, <<"restorePlaybacks">>}
Shapes == {Creating} \cup Deciding \cup Superseding \cup Plain

(* Sequences of up to four tasks.                                          *)
LEMMA Tuples ==
    ASSUME NEW a, NEW b, NEW c, NEW d
    PROVE  /\ Len(<<a>>) = 1 /\ Head(<<a>>) = a
           /\ Len(<<a, b>>) = 2 /\ Head(<<a, b>>) = a /\ Tail(<<a, b>>) = <<b>>
           /\ Len(<<a, b, c>>) = 3 /\ Head(<<a, b, c>>) = a /\ Tail(<<a, b, c>>) = <<b, c>>
           /\ Len(<<a, b, c, d>>) = 4 /\ Head(<<a, b, c, d>>) = a
           /\ Tail(<<a, b, c, d>>) = <<b, c, d>>
<1>1. Len(<<a>>) = 1 /\ Len(<<a, b>>) = 2 /\ Len(<<a, b, c>>) = 3 /\ Len(<<a, b, c, d>>) = 4
  OBVIOUS
<1>2. /\ Head(<<a>>) = a /\ Head(<<a, b>>) = a /\ Head(<<a, b, c>>) = a
      /\ Head(<<a, b, c, d>>) = a
  OBVIOUS
<1>3. Tail(<<a, b>>) = <<b>>
  OBVIOUS
<1>4. Tail(<<a, b, c>>) = <<b, c>>
  OBVIOUS
<1>5. Tail(<<a, b, c, d>>) = <<b, c, d>>
  OBVIOUS
<1> QED BY <1>1, <1>2, <1>3, <1>4, <1>5

(* A first task tells what the others are.                                 *)
Alone1 == {"send", "claim", "abort", "timeOut", "save", "saveQueue", "savePlayback",
           "readPlaybacks", "restorePlaybacks"}

LEMMA Shaped ==
    ASSUME NEW todo \in Shapes
    PROVE  /\ Len(todo) = 1 <=> Head(todo) \in Alone1
           /\ Head(todo) \in Alone1 => todo = <<Head(todo)>>
           /\ Head(todo) = "create" => todo = Creating
           /\ Head(todo) = "createBroadcast" => todo = <<"createBroadcast", "upsert", "save">>
           /\ Head(todo) = "stop" => todo = <<"stop", "supersede", "upsert", "save">>
           /\ Head(todo) = "update" => todo \in {<<"update", "supersede", "upsert", "save">>,
                                                 <<"update", "upsert", "save">>}
           /\ Head(todo) = "upsert" => todo = <<"upsert", "save">>
           /\ Head(todo) = "supersede" => todo \in {<<"supersede", "upsert", "save">>,
                    <<"supersede", "saveContext", "saveQueue">>, <<"supersede", "savePlayback">>}
           /\ Head(todo) = "syncContext" =>
                todo = <<"syncContext", "supersede", "saveContext", "saveQueue">>
           /\ Head(todo) = "syncQueue" =>
                todo = <<"syncQueue", "supersede", "saveContext", "saveQueue">>
           /\ Head(todo) = "saveContext" => todo \in {<<"saveContext", "saveQueue">>,
                                                      <<"saveContext", "savePlayback">>}
           /\ Head(todo) = "control" => todo \in {<<"control", "supersede", "savePlayback">>,
                                                  <<"control", "savePlayback">>}
           /\ Head(todo) = "reportContext" =>
                todo = <<"reportContext", "saveContext", "savePlayback">>
           /\ Head(todo) = "restoreQueue" => todo = <<"restoreQueue", "readPlaybacks">>
<1>1. CASE \E t \in Alone1 : todo = <<t>>
  <2>1. PICK t \in Alone1 : todo = <<t>>
    BY <1>1
  <2>2. Head(todo) = t /\ Len(todo) = 1
    BY <2>1, Tuples
  <2> QED BY <2>1, <2>2 DEF Alone1
<1>2. CASE \E t, u : todo = <<t, u>>
  <2>1. PICK t, u : todo = <<t, u>>
    BY <1>2
  <2>2. Head(todo) = t /\ Len(todo) = 2
    BY <2>1, Tuples
  <2>3. /\ t \in {"create", "upsert", "saveContext", "supersede", "control", "restoreQueue"}
        /\ todo \in {<<"create", "send">>, <<"upsert", "save">>, <<"saveContext", "saveQueue">>,
                     <<"supersede", "savePlayback">>, <<"control", "savePlayback">>,
                     <<"saveContext", "savePlayback">>, <<"restoreQueue", "readPlaybacks">>}
    BY <2>1 DEF Shapes, Creating, Deciding, Superseding, Plain
  <2> QED BY <2>1, <2>2, <2>3 DEF Alone1, Creating
<1>3. CASE \E t, u, v : todo = <<t, u, v>>
  <2>1. PICK t, u, v : todo = <<t, u, v>>
    BY <1>3
  <2>2. Head(todo) = t /\ Len(todo) = 3
    BY <2>1, Tuples
  <2>3. /\ t \in {"createBroadcast", "update", "supersede", "control", "reportContext"}
        /\ todo \in {<<"createBroadcast", "upsert", "save">>, <<"update", "upsert", "save">>,
                     <<"supersede", "upsert", "save">>, <<"supersede", "saveContext", "saveQueue">>,
                     <<"control", "supersede", "savePlayback">>,
                     <<"reportContext", "saveContext", "savePlayback">>}
    BY <2>1 DEF Shapes, Creating, Deciding, Superseding, Plain
  <2> QED BY <2>1, <2>2, <2>3 DEF Alone1
<1>4. CASE \E t, u, v, w : todo = <<t, u, v, w>>
  <2>1. PICK t, u, v, w : todo = <<t, u, v, w>>
    BY <1>4
  <2>2. Head(todo) = t /\ Len(todo) = 4
    BY <2>1, Tuples
  <2>3. /\ t \in {"update", "stop", "syncContext", "syncQueue"}
        /\ todo \in {<<"update", "supersede", "upsert", "save">>,
                     <<"stop", "supersede", "upsert", "save">>,
                     <<"syncContext", "supersede", "saveContext", "saveQueue">>,
                     <<"syncQueue", "supersede", "saveContext", "saveQueue">>}
    BY <2>1 DEF Shapes, Creating, Deciding, Superseding, Plain
  <2> QED BY <2>1, <2>2, <2>3 DEF Alone1
<1> QED
  BY <1>1, <1>2, <1>3, <1>4 DEF Shapes, Creating, Deciding, Superseding, Plain, Alone1

(* What is left after the first task.                                      *)
LEMMA Tailed ==
    ASSUME NEW todo \in Shapes, Len(todo) # 1
    PROVE  /\ Tail(todo) \in Shapes
           /\ Head(todo) # "create" => Tail(todo) \in Superseding \cup Plain
           /\ Head(todo) \notin {"create", "supersede"} /\ Tail(todo) \in Plain =>
                todo \notin Superseding
<1>1. Head(todo) \notin Alone1
  BY Shaped
<1>2. todo \notin {<<t>> : t \in Alone1}
  <2> SUFFICES ASSUME NEW t \in Alone1, todo = <<t>> PROVE FALSE
    OBVIOUS
  <2> QED BY <1>1, Tuples
<1>3. CASE todo \in {<<"create", "send">>, <<"upsert", "save">>, <<"saveContext", "saveQueue">>,
                     <<"supersede", "savePlayback">>, <<"control", "savePlayback">>,
                     <<"saveContext", "savePlayback">>, <<"restoreQueue", "readPlaybacks">>}
  <2>1. PICK t, u : todo = <<t, u>>
    BY <1>3
  <2>2. Head(todo) = t /\ Tail(todo) = <<u>>
    BY <2>1, Tuples
  <2>3. /\ t = "create" => u = "send"
        /\ t # "create" => u \in {"save", "saveQueue", "savePlayback", "readPlaybacks"}
        /\ todo \in Superseding => t = "supersede"
    BY <1>3, <2>1 DEF Superseding
  <2> QED BY <2>2, <2>3 DEF Shapes, Deciding, Plain
<1>4. CASE todo \in {<<"createBroadcast", "upsert", "save">>, <<"update", "upsert", "save">>,
                     <<"supersede", "upsert", "save">>, <<"supersede", "saveContext", "saveQueue">>,
                     <<"control", "supersede", "savePlayback">>,
                     <<"reportContext", "saveContext", "savePlayback">>}
  <2>1. PICK t, u, v : todo = <<t, u, v>>
    BY <1>4
  <2>2. Head(todo) = t /\ Tail(todo) = <<u, v>>
    BY <2>1, Tuples
  <2>3. /\ t # "create"
        /\ <<u, v>> \in {<<"upsert", "save">>, <<"saveContext", "saveQueue">>,
                         <<"supersede", "savePlayback">>, <<"saveContext", "savePlayback">>}
        /\ todo \in Superseding => t = "supersede" \/ <<u, v>> = <<"supersede", "savePlayback">>
        /\ <<"supersede", "savePlayback">> \notin Plain
    BY <1>4, <2>1 DEF Superseding, Plain
  <2> QED BY <2>2, <2>3 DEF Shapes, Superseding, Plain
<1>5. CASE todo \in {<<"update", "supersede", "upsert", "save">>,
                     <<"stop", "supersede", "upsert", "save">>,
                     <<"syncContext", "supersede", "saveContext", "saveQueue">>,
                     <<"syncQueue", "supersede", "saveContext", "saveQueue">>}
  <2>1. PICK t, u, v, w : todo = <<t, u, v, w>>
    BY <1>5
  <2>2. Head(todo) = t /\ Tail(todo) = <<u, v, w>>
    BY <2>1, Tuples
  <2>3. /\ t # "create"
        /\ <<u, v, w>> \in {<<"supersede", "upsert", "save">>,
                            <<"supersede", "saveContext", "saveQueue">>}
        /\ <<u, v, w>> \in Superseding /\ <<u, v, w>> \notin Plain
    BY <1>5, <2>1 DEF Superseding, Plain
  <2> QED BY <2>2, <2>3 DEF Shapes
<1> QED
  BY <1>2, <1>3, <1>4, <1>5 DEF Shapes, Creating, Deciding, Superseding, Plain, Alone1

LEMMA Deciders ==
    ASSUME NEW todo \in Shapes
    PROVE  /\ todo \in Deciding <=> Head(todo) \in {"send", "claim", "abort", "timeOut"}
           /\ todo = Creating <=> Head(todo) = "create"
           /\ Head(todo) = "supersede" => todo \in Superseding
           /\ Deciding \cap (Superseding \cup Plain) = {}
           /\ Creating \notin Deciding \cup Superseding \cup Plain
<1>1. todo \in Deciding => Head(todo) \in {"send", "claim", "abort", "timeOut"}
  BY Tuples DEF Deciding
<1>2. Head(todo) \in {"send", "claim", "abort", "timeOut"} => todo \in Deciding
  BY Shaped DEF Deciding, Alone1
<1>3. Head(Creating) = "create"
  BY Tuples DEF Creating
<1>4. Head(todo) = "supersede" => todo \in Superseding
  BY Shaped DEF Superseding
<1>5. Deciding \cap (Superseding \cup Plain) = {}
  BY DEF Deciding, Superseding, Plain
<1>6. Creating \notin Deciding \cup Superseding \cup Plain
  BY DEF Creating, Deciding, Superseding, Plain
<1> QED BY <1>1, <1>2, <1>3, <1>4, <1>5, <1>6, Shaped

-----------------------------------------------------------------------------
(***************************************************************************)
(* The prepares.                                                           *)
(***************************************************************************)
Alive(p) == prepares[p].status = "preparing"

(* The timelines there are: of broadcasts, or of players.                  *)
Lines == IF kind = "broadcasts" THEN 1 .. started ELSE Devices

PrepareFields == {"timeline", "kind", "context", "targets", "required", "ready", "failed",
                  "expired", "status", "data"}

Sequenced ==
    /\ IsSeq(prepares) /\ IsSeq(timers) /\ IsSeq(applied) /\ IsSeq(handlers)
    /\ Len(timers) = Len(prepares) /\ Len(applied) = Len(prepares)

PreparesOK ==
    \A p \in Prepares : DOMAIN prepares[p] = PrepareFields /\ prepares[p].timeline \in Lines

(* A control that has nothing left to outdate has outdated what it found.  *)
HandlerOK(x) ==
    /\ DOMAIN x = HandlerFields /\ x.todo \in Shapes
    /\ x.older \subseteq Prepares
    /\ \A p \in x.older : prepares[p].timeline = x.timeline
    /\ x.prepare = 0 /\ x.todo \in Plain => \A p \in x.older : ~Alive(p)
    /\ x.todo \in Deciding => x.prepare \in Prepares
    /\ x.todo = <<"claim">> => prepares[x.prepare].timeline = x.timeline

HandlersOK == \A h \in Running : HandlerOK(handlers[h])

Apart ==
    \A p, q \in Prepares : Alive(p) /\ Alive(q) /\ p # q =>
        /\ prepares[p].timeline # prepares[q].timeline
        /\ prepares[p].kind = "start" /\ prepares[q].kind = "start" =>
               prepares[p].context # prepares[q].context

(* Not any handler of a prepare will end it, but one whose next task it is.*)
Decides(h, p) == handlers[h].prepare = p /\ handlers[h].todo \in Deciding

Decided ==
    \A p \in Prepares : Alive(p) =>
        timers[p] = "armed" \/ p \in lost \/ \E h \in Running : Decides(h, p)

OnceOnly ==
    /\ outdated \subseteq Prepares /\ \A p \in outdated : ~Alive(p)
    /\ \A p \in Prepares : applied[p] \in {0, 1} /\ (Alive(p) => applied[p] = 0)

PInv == /\ Sequenced /\ PreparesOK /\ HandlersOK /\ Apart /\ Decided /\ OnceOnly

(* What no step undoes.                                                    *)
Later ==
    /\ Prepares \subseteq Prepares'
    /\ \A p \in Prepares :
        /\ prepares'[p].timeline = prepares[p].timeline
        /\ prepares'[p].kind = prepares[p].kind
        /\ prepares'[p].context = prepares[p].context
        /\ DOMAIN prepares'[p] = DOMAIN prepares[p]
        /\ prepares'[p].status = "preparing" =>
               prepares[p].status = "preparing" /\ prepares'[p].data = prepares[p].data

LEMMA InOrder == PInv => PreparesInOrder
BY DEF PInv, Apart, Decided, Decides, OnceOnly, PreparesInOrder, Watched, Alive

LEMMA Indices ==
    ASSUME Sequenced
    PROVE  /\ Len(prepares) \in Nat /\ Prepares = 1 .. Len(prepares)
           /\ DOMAIN timers = Prepares /\ DOMAIN applied = Prepares
           /\ 0 \notin Prepares
BY SeqFacts DEF Sequenced, Prepares

LEMMA SameIsLater == ASSUME UNCHANGED prepares PROVE Later
BY DEF Later, Prepares

LEMMA StaysOK == ASSUME Later, NEW x, HandlerOK(x) PROVE HandlerOK(x)'
<1>1. \A p \in Prepares : p \in Prepares' /\ prepares'[p].timeline = prepares[p].timeline
  BY DEF Later
<1>2. \A p \in Prepares : Alive(p)' => Alive(p)
  BY DEF Later, Alive
<1>3. x.todo = <<"claim">> => x.prepare \in Prepares
  BY DEF HandlerOK, Deciding
<1> QED BY <1>1, <1>2, <1>3 DEF HandlerOK

(* Handlers after a step.                                                  *)
LEMMA TurnKeeps ==
    ASSUME HandlersOK, Later, NEW h, NEW S, Turn(h, S), \A y \in S : HandlerOK(y)'
    PROVE  HandlersOK'
<1>1. PICK where : Moves(h, S, where)
  BY DEF Turn
<1>2. ASSUME NEW g \in Running' PROVE HandlerOK(handlers[g])'
  <2>1. where[g] \in Running
    BY <1>1, <1>2 DEF Moves
  <2>2. PICK x : x = handlers'[g]
    OBVIOUS
  <2>3. CASE where[g] # h
    <3>1. x = handlers[where[g]]
      BY <1>1, <1>2, <2>2, <2>3 DEF Moves
    <3>2. HandlerOK(x)
      BY <2>1, <3>1 DEF HandlersOK
    <3>3. HandlerOK(x)'
      BY <3>2, StaysOK
    <3> QED BY <2>2, <3>3 DEF HandlerOK
  <2>4. CASE where[g] = h
    <3>1. x \in S
      BY <1>1, <1>2, <2>2, <2>4 DEF Moves
    <3>2. HandlerOK(x)'
      BY <3>1
    <3> QED BY <2>2, <3>2 DEF HandlerOK
  <2> QED BY <2>3, <2>4
<1> QED BY <1>2 DEF HandlersOK

LEMMA TakingKeeps ==
    ASSUME HandlersOK, Later, NEW x, TakesOn(x), HandlerOK(x)'
    PROVE  HandlersOK'
<1>1. ASSUME NEW g \in Running' PROVE HandlerOK(handlers[g])'
  <2>1. PICK y : y = handlers'[g]
    OBVIOUS
  <2>2. CASE g \in Running
    <3>1. y = handlers[g] /\ HandlerOK(y)
      BY <2>1, <2>2 DEF TakesOn, HandlersOK
    <3>2. HandlerOK(y)'
      BY <3>1, StaysOK
    <3> QED BY <2>1, <3>2 DEF HandlerOK
  <2>3. CASE g \notin Running
    <3>1. y = x
      BY <1>1, <2>1, <2>3 DEF TakesOn
    <3> QED BY <2>1, <3>1 DEF HandlerOK
  <2> QED BY <2>2, <2>3
<1> QED BY <1>1 DEF HandlersOK

LEMMA StaysTheirs == ASSUME PInv, Later, UNCHANGED handlers PROVE HandlersOK'
<1>1. ASSUME NEW h \in Running PROVE HandlerOK(handlers[h])'
  <2>1. PICK y : y = handlers[h]
    OBVIOUS
  <2>2. HandlerOK(y)'
    BY <2>1, StaysOK DEF PInv, HandlersOK
  <2> QED BY <2>1, <2>2 DEF HandlerOK
<1> QED BY <1>1 DEF HandlersOK, Running

(* Who decides about a prepare is still there after the turn of another.   *)
LEMMA DecidesStill ==
    ASSUME NEW h, NEW S, Turn(h, S), NEW f \in Running, f # h, NEW p, Decides(f, p)
    PROVE  \E g \in Running' : Decides(g, p)'
<1>1. PICK where : Moves(h, S, where)
  BY DEF Turn
<1>2. PICK g \in Running' : where[g] = f
  BY <1>1 DEF Moves
<1>3. handlers'[g] = handlers[f]
  BY <1>1, <1>2 DEF Moves
<1> QED BY <1>2, <1>3 DEF Decides

LEMMA DecidesAfter ==
    ASSUME NEW h, NEW S, Turn(h, S), NEW y \in S, \A z \in S : z = y
    PROVE  \E g \in Running' : handlers'[g] = y
<1>1. PICK where : Moves(h, S, where)
  BY DEF Turn
<1>2. PICK g \in Running' : where[g] = h
  BY <1>1 DEF Moves, Turn
<1> QED BY <1>1, <1>2 DEF Moves

(* Steps that leave the prepares alone.                                    *)
Still == UNCHANGED prepareVars /\ UNCHANGED kind

LEMMA StillPrepares ==
    ASSUME PInv, Still, Lines \subseteq Lines'
    PROVE  Later /\ PreparesOK' /\ Apart'
<1>1. UNCHANGED prepares /\ Prepares' = Prepares
  BY DEF Still, prepareVars, Prepares
<1>2. PreparesOK'
  BY <1>1 DEF PInv, PreparesOK
<1>3. Apart'
  BY <1>1 DEF PInv, Apart, Alive
<1> QED BY <1>1, <1>2, <1>3, SameIsLater

LEMMA TakesKeep ==
    ASSUME PInv, NEW x, TakesOn(x), HandlerOK(x), Still, UNCHANGED outdated, Lines \subseteq Lines'
    PROVE  PInv'
<1>1. Later /\ PreparesOK' /\ Apart'
  BY StillPrepares
<1>2. HandlerOK(x)'
  BY <1>1, StaysOK
<1>3. HandlersOK'
  BY <1>1, <1>2, TakingKeeps DEF PInv
<1>4. Sequenced'
  BY DEF PInv, Sequenced, Still, prepareVars, TakesOn
<1>5. OnceOnly'
  BY DEF PInv, OnceOnly, Still, prepareVars, Prepares, Alive
<1>6. Decided'
  <2> SUFFICES ASSUME NEW p \in Prepares, Alive(p)
               PROVE  timers[p] = "armed" \/ p \in lost \/ \E h \in Running' : Decides(h, p)'
    BY DEF Decided, Still, prepareVars, Prepares, Alive
  <2>1. ASSUME NEW h \in Running, Decides(h, p) PROVE h \in Running' /\ Decides(h, p)'
    BY <2>1 DEF TakesOn, Decides
  <2> QED BY <2>1 DEF PInv, Decided
<1> QED BY <1>1, <1>3, <1>4, <1>5, <1>6 DEF PInv

LEMMA TurnsKeep ==
    ASSUME PInv, NEW h, NEW S, Turn(h, S), handlers[h].todo \notin Deciding,
           \A y \in S : HandlerOK(y), Still, UNCHANGED started,
           \/ UNCHANGED outdated
           \/ /\ outdated' = outdated \cup handlers[h].older
              /\ handlers[h].prepare = 0 /\ handlers[h].todo \in Plain
    PROVE  PInv'
<1>0. Lines \subseteq Lines'
  BY DEF Lines, Still
<1>1. Later /\ PreparesOK' /\ Apart'
  BY <1>0, StillPrepares
<1>2. \A y \in S : HandlerOK(y)'
  BY <1>1, StaysOK
<1>3. HandlersOK'
  BY <1>1, <1>2, TurnKeeps DEF PInv
<1>4. Sequenced'
  BY DEF PInv, Sequenced, Still, prepareVars, Turn
<1>5. OnceOnly'
  <2>1. HandlerOK(handlers[h])
    BY DEF PInv, HandlersOK, Turn
  <2>2. outdated' \subseteq Prepares /\ \A p \in outdated' : ~Alive(p)
    BY <2>1 DEF PInv, OnceOnly, HandlerOK
  <2> QED BY <2>2 DEF PInv, OnceOnly, Still, prepareVars, Prepares, Alive
<1>6. Decided'
  <2> SUFFICES ASSUME NEW p \in Prepares, Alive(p)
               PROVE  timers[p] = "armed" \/ p \in lost \/ \E g \in Running' : Decides(g, p)'
    BY DEF Decided, Still, prepareVars, Prepares, Alive
  <2>1. ASSUME NEW f \in Running, Decides(f, p) PROVE \E g \in Running' : Decides(g, p)'
    <3>1. f # h
      BY <2>1 DEF Decides
    <3> QED BY <2>1, <3>1, DecidesStill
  <2> QED BY <2>1 DEF PInv, Decided
<1> QED BY <1>1, <1>3, <1>4, <1>5, <1>6 DEF PInv

(* The next tasks of a handler.                                            *)
LEMMA RestOK ==
    ASSUME NEW x, HandlerOK(x), NEW todo \in Superseding \cup Plain, NEW data,
           x.prepare = 0 /\ todo \in Plain => x.todo \in Plain
    PROVE  HandlerOK(Rest(x, todo, data))
<1> DEFINE y == Rest(x, todo, data)
<1>1. /\ DOMAIN y = HandlerFields /\ y.todo = todo
      /\ y.timeline = x.timeline /\ y.prepare = x.prepare /\ y.older = x.older
  BY RestIs DEF HandlerOK
<1>2. todo \in Shapes /\ todo \notin Deciding /\ todo # <<"claim">>
  BY Deciders DEF Shapes, Deciding
<1> HIDE DEF y
<1>3. y.prepare = 0 /\ y.todo \in Plain => x.prepare = 0 /\ x.todo \in Plain
  BY <1>1
<1>4. HandlerOK(y)
  BY <1>1, <1>2, <1>3 DEF HandlerOK
<1> QED BY <1>4 DEF y

Special == {"create", "send", "claim", "abort", "timeOut", "supersede"}

LEMMA TailOK ==
    ASSUME NEW x, HandlerOK(x), Len(x.todo) # 1, NEW data, Head(x.todo) \notin Special
    PROVE  HandlerOK(Rest(x, Tail(x.todo), data))
<1>1. PICK todo : todo = Tail(x.todo)
  OBVIOUS
<1>2. x.todo \in Shapes /\ Head(x.todo) \notin {"create", "supersede"}
  BY DEF HandlerOK, Special
<1>3. x.todo \notin Deciding /\ x.todo # Creating
  BY <1>2, Deciders DEF Special
<1>4. todo \in Superseding \cup Plain /\ (todo \in Plain => x.todo \in Plain)
  BY <1>1, <1>2, <1>3, Tailed DEF Shapes
<1>5. HandlerOK(Rest(x, todo, data))
  BY <1>4, RestOK
<1> QED BY <1>1, <1>5

LEMMA TaskKeeps ==
    ASSUME PInv, NEW h \in Running, NEW data, Proceeds(h, data), Head(handlers[h].todo) \notin Special,
           Still, UNCHANGED started, UNCHANGED outdated \/ Outdates(h)
    PROVE  PInv'
<1>1. PICK x : x = handlers[h]
  OBVIOUS
<1>2. HandlerOK(x) /\ x.todo \in Shapes /\ DOMAIN x = HandlerFields /\ IsSeq(handlers)
  BY <1>1 DEF PInv, HandlersOK, HandlerOK, Sequenced
<1>3. x.todo \notin Deciding
  BY <1>1, <1>2, Deciders DEF Special
<1>4. Turn(h, IF Len(x.todo) = 1 THEN {} ELSE {Rest(x, Tail(x.todo), data)})
  BY <1>1, <1>2, ProceedsTurn
<1>5. Len(x.todo) = 1 => x.todo \in Plain
  <2>1. Len(x.todo) = 1 => x.todo = <<Head(x.todo)>> /\ Head(x.todo) \in Alone1
    BY <1>2, Shaped
  <2> QED BY <1>1, <2>1 DEF Alone1, Special, Plain
<1>6. \/ UNCHANGED outdated
      \/ outdated' = outdated \cup x.older /\ x.prepare = 0 /\ x.todo \in Plain
  BY <1>1, <1>5 DEF Outdates
<1>7. CASE Len(x.todo) = 1
  <2>1. Turn(h, {})
    BY <1>4, <1>7
  <2> QED BY <1>1, <1>3, <1>6, <2>1, TurnsKeep
<1>8. CASE Len(x.todo) # 1
  <2>1. PICK y : y = Rest(x, Tail(x.todo), data)
    OBVIOUS
  <2>2. Turn(h, {y})
    BY <1>4, <1>8, <2>1
  <2>3. HandlerOK(y)
    BY <1>1, <1>2, <1>8, <2>1, TailOK
  <2> QED BY <1>1, <1>3, <1>6, <2>2, <2>3, TurnsKeep
<1> QED BY <1>7, <1>8

LEMMA EndKeeps ==
    ASSUME PInv, NEW h \in Running, Ends(h), handlers[h].todo \notin Deciding,
           Still, UNCHANGED started, UNCHANGED outdated
    PROVE  PInv'
<1>1. Turn(h, {})
  BY EndsTurn DEF PInv, Sequenced
<1> QED BY <1>1, TurnsKeep

-----------------------------------------------------------------------------
(* Steps that end prepares, or change what is not their timeline.          *)
Fewer == Later /\ IsSeq(prepares') /\ Len(prepares') = Len(prepares) /\ Prepares' = Prepares

LEMMA FewerKeep ==
    ASSUME PInv, Fewer, UNCHANGED kind, UNCHANGED started
    PROVE  PreparesOK' /\ Apart'
<1>1. /\ \A p \in Prepares :
            /\ prepares'[p].timeline = prepares[p].timeline /\ prepares'[p].kind = prepares[p].kind
            /\ prepares'[p].context = prepares[p].context
            /\ DOMAIN prepares'[p] = DOMAIN prepares[p]
      /\ \A p \in Prepares : Alive(p)' => Alive(p)
      /\ Lines' = Lines /\ Prepares' = Prepares
  BY DEF Fewer, Later, Alive, Lines
<1>2. PreparesOK'
  BY <1>1 DEF PInv, PreparesOK
<1>3. Apart'
  BY <1>1 DEF PInv, Apart
<1> QED BY <1>2, <1>3

(* The same prepare with other values.                                     *)
SameBut(q, r) ==
    /\ DOMAIN r = DOMAIN q
    /\ r.timeline = q.timeline /\ r.kind = q.kind /\ r.context = q.context
    /\ r.status = "preparing" => q.status = "preparing" /\ r.data = q.data

LEMMA OverIs ==
    ASSUME NEW q, DOMAIN q = PrepareFields, NEW s, s # "preparing"
    PROVE  SameBut(q, Over(q, s)) /\ Over(q, s).status = s
BY DEF Over, SameBut, PrepareFields

LEMMA OneFewer ==
    ASSUME PInv, NEW p \in Prepares, NEW r, SameBut(prepares[p], r),
           prepares' = [prepares EXCEPT ![p] = r]
    PROVE  Fewer /\ prepares'[p] = r /\ \A q \in Prepares : q # p => prepares'[q] = prepares[q]
<1>1. /\ IsSeq(prepares') /\ Len(prepares') = Len(prepares) /\ Prepares' = Prepares
      /\ \A q \in Prepares : prepares'[q] = IF q = p THEN r ELSE prepares[q]
  BY Updated DEF PInv, Sequenced, Prepares
<1>2. \A q \in Prepares : SameBut(prepares[q], prepares'[q])
  BY <1>1 DEF SameBut
<1>3. Later
  BY <1>1, <1>2 DEF Later, SameBut
<1> QED BY <1>1, <1>3 DEF Fewer

LEMMA SupersededFewer ==
    ASSUME PInv, NEW keys, NEW s, s = Superseded(keys)
    PROVE  /\ IsSeq(s) /\ Len(s) = Len(prepares) /\ DOMAIN s = Prepares
           /\ \A p \in Prepares : SameBut(prepares[p], s[p]) /\ (p \in keys => s[p].status # "preparing")
<1>1. /\ DOMAIN s = DOMAIN prepares
      /\ \A p \in Prepares : s[p] = IF p \in keys THEN Over(prepares[p], "superseded") ELSE prepares[p]
      /\ s = [p \in DOMAIN prepares |-> s[p]]
  BY DEF Superseded, Prepares
<1>2. IsSeq(s) /\ Len(s) = Len(prepares)
  BY <1>1, Mapped DEF PInv, Sequenced
<1>3. ASSUME NEW p \in Prepares
      PROVE  SameBut(prepares[p], s[p]) /\ (p \in keys => s[p].status # "preparing")
  <2>1. DOMAIN prepares[p] = PrepareFields
    BY DEF PInv, PreparesOK
  <2>2. SameBut(prepares[p], prepares[p])
    BY DEF SameBut
  <2> QED BY <1>1, <2>1, <2>2, OverIs
<1> QED BY <1>1, <1>2, <1>3 DEF Prepares

(* A handler that had to decide about a prepare did.                       *)
LEMMA DecidedStill ==
    ASSUME PInv, Fewer, NEW h, NEW S, Turn(h, S), UNCHANGED lost, NEW q, q = handlers[h].prepare,
           handlers[h].todo \notin Deciding \/ ~Alive(q)' \/ timers'[q] = "armed",
           \A p \in Prepares : timers[p] = "armed" => timers'[p] = "armed"
    PROVE  Decided'
<1> SUFFICES ASSUME NEW p \in Prepares, Alive(p)'
             PROVE  timers'[p] = "armed" \/ p \in lost \/ \E g \in Running' : Decides(g, p)'
  BY DEF Decided, Fewer
<1>1. Alive(p)
  BY DEF Fewer, Later, Alive
<1>2. ASSUME NEW f \in Running, Decides(f, p), timers'[p] # "armed"
      PROVE  \E g \in Running' : Decides(g, p)'
  <2>1. f # h
    BY <1>2 DEF Decides
  <2> QED BY <1>2, <2>1, DecidesStill
<1> QED BY <1>1, <1>2 DEF PInv, Decided

(* What a step of a handler begins with.                                   *)
LEMMA Begun ==
    ASSUME PInv, NEW h, NEW task, Todo(h, task)
    PROVE  /\ h \in Running /\ HandlerOK(handlers[h]) /\ IsSeq(handlers)
           /\ handlers[h].todo \in Shapes /\ DOMAIN handlers[h] = HandlerFields
           /\ Head(handlers[h].todo) = task
           /\ task \in {"send", "claim", "abort", "timeOut"} =>
                /\ handlers[h].todo = <<task>> /\ handlers[h].todo \in Deciding
                /\ Len(handlers[h].todo) = 1 /\ handlers[h].prepare \in Prepares
<1>1. /\ h \in Running /\ HandlerOK(handlers[h]) /\ IsSeq(handlers)
      /\ handlers[h].todo \in Shapes /\ DOMAIN handlers[h] = HandlerFields
      /\ Head(handlers[h].todo) = task
  BY DEF PInv, HandlersOK, HandlerOK, Sequenced, Todo
<1>2. task \in {"send", "claim", "abort", "timeOut"} =>
        /\ handlers[h].todo = <<task>> /\ handlers[h].todo \in Deciding
        /\ Len(handlers[h].todo) = 1
  BY <1>1, Shaped, Deciders DEF Alone1
<1> QED BY <1>1, <1>2 DEF HandlerOK

LEMMA SendKeeps ==
    ASSUME PInv, NEW h, SendPrepare(h), UNCHANGED kind, UNCHANGED started
    PROVE  PInv' /\ Fewer
<1>1. Todo(h, "send") /\ UNCHANGED <<prepares, applied, outdated>>
  BY DEF SendPrepare
<1>2. /\ h \in Running /\ IsSeq(handlers) /\ handlers[h].todo \in Deciding
      /\ Len(handlers[h].todo) = 1 /\ handlers[h].prepare \in Prepares
  BY <1>1, Begun
<1>3. Ends(h)
  BY <1>2 DEF SendPrepare, Continues, Proceeds
<1>4. Turn(h, {})
  BY <1>2, <1>3, EndsTurn
<1>5. Fewer
  BY <1>1, SameIsLater DEF Fewer, PInv, Sequenced, Prepares
<1>6. HandlersOK'
  BY <1>4, <1>5, TurnKeeps DEF Fewer, PInv
<1>7. PreparesOK' /\ Apart'
  BY <1>5, FewerKeep
<1>8. OnceOnly'
  BY <1>1 DEF PInv, OnceOnly, Alive, Prepares
<1>9. CASE timers' = [timers EXCEPT ![handlers[h].prepare] = "armed"] /\ UNCHANGED lost
  <2>0. PICK q \in Prepares : q = handlers[h].prepare
    BY <1>2
  <2>1. /\ IsSeq(timers') /\ Len(timers') = Len(timers)
        /\ \A p \in Prepares : timers'[p] = IF p = q THEN "armed" ELSE timers[p]
    <3>1. timers' = [timers EXCEPT ![q] = "armed"] /\ IsSeq(timers) /\ DOMAIN timers = Prepares
      BY <1>9, <2>0, Indices DEF PInv, Sequenced
    <3> QED BY <3>1, Updated
  <2>2. Sequenced'
    BY <1>1, <1>4, <2>1 DEF PInv, Sequenced, Turn
  <2>3. Decided'
    BY <1>4, <1>5, <1>9, <2>0, <2>1, DecidedStill
  <2> QED BY <1>5, <1>6, <1>7, <1>8, <2>2, <2>3 DEF PInv
<1>10. CASE lost' = lost \cup {handlers[h].prepare} /\ UNCHANGED timers
  <2>1. Sequenced'
    BY <1>1, <1>4, <1>10 DEF PInv, Sequenced, Turn
  <2>2. Decided'
    <3> SUFFICES ASSUME NEW p \in Prepares, Alive(p)
                 PROVE  timers[p] = "armed" \/ p \in lost' \/ \E g \in Running' : Decides(g, p)'
      BY <1>1, <1>10 DEF Decided, Prepares, Alive
    <3>1. ASSUME NEW f \in Running, Decides(f, p), p # handlers[h].prepare
          PROVE  \E g \in Running' : Decides(g, p)'
      <4>1. f # h
        BY <3>1 DEF Decides
      <4> QED BY <1>4, <3>1, <4>1, DecidesStill
    <3> QED BY <1>10, <3>1 DEF PInv, Decided
  <2> QED BY <1>5, <1>6, <1>7, <1>8, <2>1, <2>2 DEF PInv
<1> QED BY <1>9, <1>10 DEF SendPrepare

LEMMA SupersedeKeeps ==
    ASSUME PInv, NEW h, Supersede(h), UNCHANGED kind, UNCHANGED started
    PROVE  PInv' /\ Fewer
<1>1. /\ Todo(h, "supersede") /\ Continues(h) /\ UNCHANGED <<timers, lost, applied, outdated>>
      /\ prepares' = Superseded(PreparingOn(handlers[h].timeline))
  BY DEF Supersede
<1>2. PICK x : x = handlers[h]
  OBVIOUS
<1>3. /\ h \in Running /\ HandlerOK(x) /\ IsSeq(handlers) /\ x.todo \in Shapes
      /\ DOMAIN x = HandlerFields /\ Head(x.todo) = "supersede"
  BY <1>1, <1>2, Begun
<1>4. Fewer /\ \A p \in PreparingOn(x.timeline) : ~Alive(p)'
  <2>1. PICK keys : keys = PreparingOn(x.timeline)
    OBVIOUS
  <2>2. PICK s : s = Superseded(keys)
    OBVIOUS
  <2>3. /\ IsSeq(s) /\ Len(s) = Len(prepares) /\ DOMAIN s = Prepares
        /\ \A p \in Prepares : SameBut(prepares[p], s[p]) /\ (p \in keys => s[p].status # "preparing")
    BY <2>2, SupersededFewer
  <2>4. prepares' = s
    BY <1>1, <1>2, <2>1, <2>2
  <2>5. keys \subseteq Prepares
    BY <2>1 DEF PreparingOn
  <2>6. Prepares' = Prepares
    BY <2>3, <2>4 DEF Prepares
  <2>7. Later
    BY <2>3, <2>4, <2>6 DEF Later, SameBut
  <2> QED BY <2>1, <2>3, <2>4, <2>5, <2>6, <2>7 DEF Fewer, Alive
<1>5. Len(x.todo) # 1 /\ Tail(x.todo) \in Superseding \cup Plain /\ x.todo \notin Deciding
  BY <1>3, Shaped, Tailed, Deciders DEF Alone1
<1>6. PICK y : y = Rest(x, Tail(x.todo), x.data)
  OBVIOUS
<1>7. Turn(h, {y})
  BY <1>1, <1>2, <1>3, <1>5, <1>6, ProceedsTurn DEF Continues
<1>8. HandlerOK(y)'
  <2>1. PICK todo \in Superseding \cup Plain : todo = Tail(x.todo)
    BY <1>5
  <2>2. /\ DOMAIN y = HandlerFields /\ y.todo = todo
        /\ y.timeline = x.timeline /\ y.prepare = x.prepare /\ y.older = x.older
    BY <1>3, <1>6, <2>1, RestIs
  <2>3. y.older \subseteq Prepares' /\ \A p \in y.older : prepares'[p].timeline = y.timeline
    BY <1>3, <1>4, <2>2 DEF HandlerOK, Fewer, Later
  <2>4. \A p \in y.older : ~Alive(p)'
    <3> SUFFICES ASSUME NEW p \in y.older, Alive(p)' PROVE FALSE
      OBVIOUS
    <3>1. p \in Prepares /\ prepares[p].timeline = x.timeline
      BY <1>3, <2>2 DEF HandlerOK
    <3>2. Alive(p)
      BY <1>4, <3>1 DEF Fewer, Later, Alive
    <3>3. p \in PreparingOn(x.timeline)
      BY <3>1, <3>2 DEF PreparingOn, Alive
    <3> QED BY <1>4, <3>3
  <2>5. todo \in Shapes /\ todo \notin Deciding /\ todo # <<"claim">>
    BY <2>1, Deciders DEF Shapes, Deciding
  <2> QED BY <2>2, <2>3, <2>4, <2>5 DEF HandlerOK
<1>9. HandlersOK'
  BY <1>4, <1>7, <1>8, TurnKeeps DEF Fewer, PInv
<1>10. PreparesOK' /\ Apart'
  BY <1>4, FewerKeep
<1>11. Sequenced'
  BY <1>1, <1>4, <1>7 DEF PInv, Sequenced, Fewer, Turn
<1>12. OnceOnly'
  <2>1. Prepares' = Prepares /\ \A p \in Prepares : Alive(p)' => Alive(p)
    BY <1>4 DEF Fewer, Later, Alive
  <2> QED BY <1>1, <2>1 DEF PInv, OnceOnly
<1>13. Decided'
  BY <1>1, <1>2, <1>4, <1>5, <1>7, DecidedStill
<1> QED BY <1>4, <1>9, <1>10, <1>11, <1>12, <1>13 DEF PInv

LEMMA EndPrepareKeeps ==
    ASSUME PInv, NEW h, EndPrepare(h), UNCHANGED kind, UNCHANGED started
    PROVE  PInv' /\ Fewer
<1>1. /\ Ends(h) /\ UNCHANGED <<timers, lost, applied, outdated>>
      /\ \E task \in {"abort", "timeOut"} : Todo(h, task)
  BY DEF EndPrepare
<1>2. /\ h \in Running /\ IsSeq(handlers) /\ handlers[h].todo \in Deciding
      /\ handlers[h].prepare \in Prepares
  BY <1>1, Begun
<1>3. Turn(h, {})
  BY <1>1, <1>2, EndsTurn
<1>4. PICK p \in Prepares : p = handlers[h].prepare
  BY <1>2
<1>5. Fewer /\ ~Alive(p)'
  <2>1. ASSUME NEW s, s # "preparing", FinishPrepare(p, s) PROVE Fewer /\ ~Alive(p)'
    <3>1. PICK r : r = Over(prepares[p], s)
      OBVIOUS
    <3>2. SameBut(prepares[p], r) /\ r.status # "preparing"
      BY <2>1, <3>1, OverIs DEF PInv, PreparesOK
    <3>3. prepares' = [prepares EXCEPT ![p] = r]
      BY <2>1, <3>1 DEF FinishPrepare
    <3> QED BY <3>2, <3>3, OneFewer DEF Alive
  <2>2. CASE prepares[p].status # "preparing" /\ UNCHANGED prepares
    BY <2>2, SameIsLater DEF Fewer, PInv, Sequenced, Alive, Prepares
  <2> QED BY <1>4, <2>1, <2>2 DEF EndPrepare
<1>6. HandlersOK'
  BY <1>3, <1>5, TurnKeeps DEF Fewer, PInv
<1>7. PreparesOK' /\ Apart'
  BY <1>5, FewerKeep
<1>8. Sequenced'
  BY <1>1, <1>3, <1>5 DEF PInv, Sequenced, Fewer, Turn
<1>9. OnceOnly'
  <2>1. Prepares' = Prepares /\ \A q \in Prepares : Alive(q)' => Alive(q)
    BY <1>5 DEF Fewer, Later, Alive
  <2> QED BY <1>1, <2>1 DEF PInv, OnceOnly
<1>10. Decided'
  BY <1>1, <1>3, <1>4, <1>5, DecidedStill
<1> QED BY <1>5, <1>6, <1>7, <1>8, <1>9, <1>10 DEF PInv

LEMMA ClaimKeeps ==
    ASSUME PInv, NEW h, NEW todo \in Superseding \cup Plain, ClaimPrepare(h, todo),
           UNCHANGED kind, UNCHANGED started
    PROVE  PInv' /\ Fewer
<1>1. Todo(h, "claim") /\ UNCHANGED <<timers, lost, outdated>>
  BY DEF ClaimPrepare
<1>2. PICK x : x = handlers[h]
  OBVIOUS
<1>3. /\ h \in Running /\ IsSeq(handlers) /\ x.todo \in Deciding /\ HandlerOK(x)
      /\ x.prepare \in Prepares /\ DOMAIN x = HandlerFields
  BY <1>1, <1>2, Begun
<1>4. PICK p \in Prepares : p = x.prepare
  BY <1>3
<1>0. p # 0
  BY Indices DEF PInv
<1>5. CASE /\ FinishPrepare(p, "committed") /\ applied' = [applied EXCEPT ![p] = @ + 1]
           /\ handlers' = [handlers EXCEPT ![h].todo = todo]
  <2>1. PICK r : r = Over(prepares[p], "committed")
    OBVIOUS
  <2>2. SameBut(prepares[p], r) /\ r.status # "preparing"
    BY <2>1, OverIs DEF PInv, PreparesOK
  <2>3. prepares' = [prepares EXCEPT ![p] = r] /\ Alive(p)
    BY <1>5, <2>1 DEF FinishPrepare, Alive
  <2>4. Fewer /\ ~Alive(p)'
    BY <2>2, <2>3, OneFewer DEF Alive
  <2>5. PICK y : y = Rest(x, todo, x.data)
    OBVIOUS
  <2>6. Turn(h, {y})
    BY <1>2, <1>3, <1>5, <2>5, RestTurn
  <2>7. HandlerOK(y)
    BY <1>0, <1>3, <1>4, <2>5, RestOK
  <2>8. HandlerOK(y)'
    BY <2>4, <2>7, StaysOK DEF Fewer
  <2>9. HandlersOK'
    BY <2>4, <2>6, <2>8, TurnKeeps DEF Fewer, PInv
  <2>10. PreparesOK' /\ Apart'
    BY <2>4, FewerKeep
  <2>11. /\ IsSeq(applied') /\ Len(applied') = Len(applied)
         /\ \A q \in Prepares : applied'[q] = IF q = p THEN applied[p] + 1 ELSE applied[q]
    <3>0. PICK times : times = applied[p] + 1
      OBVIOUS
    <3>1. applied' = [applied EXCEPT ![p] = times]
      BY <1>5, <3>0
    <3>2. IsSeq(applied) /\ DOMAIN applied = Prepares
      BY Indices DEF PInv, Sequenced
    <3>3. /\ IsSeq(applied') /\ Len(applied') = Len(applied)
          /\ \A q \in Prepares : applied'[q] = IF q = p THEN times ELSE applied[q]
      BY <3>1, <3>2, Updated
    <3> QED BY <3>0, <3>3
  <2>12. Sequenced'
    BY <1>1, <2>4, <2>6, <2>11 DEF PInv, Sequenced, Fewer, Turn
  <2>13. OnceOnly'
    <3>1. Prepares' = Prepares /\ \A q \in Prepares : Alive(q)' => Alive(q)
      BY <2>4 DEF Fewer, Later, Alive
    <3>2. applied[p] = 0
      BY <2>3 DEF PInv, OnceOnly
    <3> QED BY <1>1, <2>4, <2>11, <3>1, <3>2 DEF PInv, OnceOnly
  <2>14. Decided'
    BY <1>1, <1>2, <1>4, <2>4, <2>6, DecidedStill
  <2> QED BY <2>4, <2>9, <2>10, <2>12, <2>13, <2>14 DEF PInv
<1>6. CASE prepares[p].status # "preparing" /\ Ends(h) /\ UNCHANGED <<prepares, applied>>
  <2>1. Turn(h, {})
    BY <1>3, <1>6, EndsTurn
  <2>2. Fewer /\ ~Alive(p)'
    BY <1>6, SameIsLater DEF Fewer, PInv, Sequenced, Alive, Prepares
  <2>3. HandlersOK'
    BY <2>1, <2>2, TurnKeeps DEF Fewer, PInv
  <2>4. PreparesOK' /\ Apart'
    BY <2>2, FewerKeep
  <2>5. Sequenced'
    BY <1>1, <1>6, <2>1 DEF PInv, Sequenced, Turn
  <2>6. OnceOnly'
    BY <1>1, <1>6 DEF PInv, OnceOnly, Alive, Prepares
  <2>7. Decided'
    BY <1>1, <1>2, <1>4, <2>1, <2>2, DecidedStill
  <2> QED BY <2>2, <2>3, <2>4, <2>5, <2>6, <2>7 DEF PInv
<1> QED BY <1>2, <1>4, <1>5, <1>6 DEF ClaimPrepare

(* Handlers begun by an answer or a timer.                                 *)
LEMMA DeciderOK ==
    ASSUME PInv, NEW p \in Prepares, NEW todo \in {<<"claim">>, <<"abort">>, <<"timeOut">>}, NEW data,
           NEW t, t = prepares[p].timeline
    PROVE  LET x == Handler(t, p, data, todo)
           IN  HandlerOK(x) /\ x.prepare = p /\ x.todo \in Deciding
<1> DEFINE x == Handler(t, p, data, todo)
<1>1. /\ DOMAIN x = HandlerFields /\ x.todo = todo /\ x.timeline = t
      /\ x.prepare = p /\ x.older = PreparingOn(t)
  BY HandlerIs
<1> HIDE DEF x
<1>2. x.older \subseteq Prepares /\ \A q \in x.older : prepares[q].timeline = t
  BY <1>1 DEF PreparingOn
<1>3. todo \in Shapes /\ todo \in Deciding /\ todo \notin Plain
  BY Deciders DEF Deciding, Shapes
<1>4. HandlerOK(x)
  BY <1>1, <1>2, <1>3 DEF HandlerOK
<1> QED BY <1>1, <1>3, <1>4 DEF x

LEMMA DecidedTaking ==
    ASSUME PInv, Fewer, NEW x, TakesOn(x) \/ UNCHANGED handlers, UNCHANGED lost,
           \A p \in Prepares : timers[p] = "armed" /\ Alive(p)' =>
                \/ timers'[p] = "armed"
                \/ TakesOn(x) /\ x.prepare = p /\ x.todo \in Deciding
    PROVE  Decided'
<1> SUFFICES ASSUME NEW p \in Prepares, Alive(p)'
             PROVE  timers'[p] = "armed" \/ p \in lost \/ \E g \in Running' : Decides(g, p)'
  BY DEF Decided, Fewer
<1>1. Alive(p)
  BY DEF Fewer, Later, Alive
<1>2. ASSUME NEW f \in Running, Decides(f, p) PROVE f \in Running' /\ Decides(f, p)'
  BY <1>2 DEF TakesOn, Decides, Running
<1>3. CASE TakesOn(x) /\ x.prepare = p /\ x.todo \in Deciding
  BY <1>3 DEF TakesOn, Decides
<1> QED BY <1>1, <1>2, <1>3 DEF PInv, Decided

LEMMA AnsweredIs ==
    ASSUME NEW q, DOMAIN q = PrepareFields, NEW d, NEW ready
    PROVE  SameBut(q, Answered(q, d, ready)) /\ Answered(q, d, ready).data = q.data
BY DEF Answered, SameBut, PrepareFields

LEMMA ReadyKeeps ==
    ASSUME PInv, NEW p, NEW d, NEW ready, PlaybackReady(p, d, ready), UNCHANGED kind, UNCHANGED started
    PROVE  PInv' /\ Fewer
<1>1. /\ p \in Prepares /\ Alive(p) /\ UNCHANGED <<timers, lost, applied, outdated>>
  BY DEF PlaybackReady, Alive
<1>2. PICK q : q = Answered(prepares[p], d, ready)
  OBVIOUS
<1>3. PICK todo : todo = ReadyTodo(q, d, ready)
  OBVIOUS
<1>4. /\ prepares' = [prepares EXCEPT ![p] = q]
      /\ IF todo = <<>> THEN UNCHANGED handlers ELSE Begin(q.timeline, p, q.data, todo)
  BY <1>2, <1>3 DEF PlaybackReady
<1>5. SameBut(prepares[p], q)
  BY <1>1, <1>2, AnsweredIs DEF PInv, PreparesOK
<1>6. Fewer
  BY <1>1, <1>4, <1>5, OneFewer
<1>7. todo \in {<<"claim">>, <<"abort">>, <<>>}
  BY <1>3 DEF ReadyTodo
<1>8. PICK x : x = Handler(q.timeline, p, q.data, todo)
  OBVIOUS
<1>9. \/ UNCHANGED handlers
      \/ TakesOn(x) /\ HandlerOK(x)
  <2>1. CASE todo # <<>>
    <3>1. todo \in {<<"claim">>, <<"abort">>, <<"timeOut">>} /\ q.timeline = prepares[p].timeline
      BY <1>5, <1>7, <2>1 DEF SameBut
    <3>2. TakesOn(x)
      BY <1>4, <1>8, <2>1, BeginsTakesOn DEF PInv, Sequenced
    <3>3. HandlerOK(x)
      BY <1>1, <1>8, <3>1, DeciderOK
    <3> QED BY <3>2, <3>3
  <2> QED BY <1>4, <2>1
<1>10. HandlersOK'
  <2>1. CASE UNCHANGED handlers
    <3>1. ASSUME NEW h \in Running PROVE HandlerOK(handlers[h])'
      <4>1. PICK y : y = handlers[h]
        OBVIOUS
      <4>2. HandlerOK(y)'
        BY <1>6, <4>1, StaysOK DEF PInv, HandlersOK, Fewer
      <4> QED BY <2>1, <4>1, <4>2 DEF HandlerOK
    <3> QED BY <2>1, <3>1 DEF HandlersOK, Running
  <2>2. CASE TakesOn(x) /\ HandlerOK(x)
    <3>1. HandlerOK(x)'
      BY <1>6, <2>2, StaysOK DEF Fewer
    <3> QED BY <1>6, <2>2, <3>1, TakingKeeps DEF PInv, Fewer
  <2> QED BY <1>9, <2>1, <2>2
<1>11. PreparesOK' /\ Apart'
  BY <1>6, FewerKeep
<1>12. Sequenced'
  BY <1>1, <1>6, <1>9 DEF PInv, Sequenced, Fewer, TakesOn
<1>13. OnceOnly'
  <2>1. Prepares' = Prepares /\ \A r \in Prepares : Alive(r)' => Alive(r)
    BY <1>6 DEF Fewer, Later, Alive
  <2> QED BY <1>1, <2>1 DEF PInv, OnceOnly
<1>14. Decided'
  BY <1>1, <1>6, <1>9, DecidedTaking
<1> QED BY <1>6, <1>10, <1>11, <1>12, <1>13, <1>14 DEF PInv

-----------------------------------------------------------------------------
(* The timer.                                                              *)
LEMMA ExpiresKeeps ==
    ASSUME PInv, NEW p, Expires(p), UNCHANGED kind, UNCHANGED started
    PROVE  PInv' /\ Fewer
<1>1. /\ p \in Prepares /\ UNCHANGED <<timers, handlers, lost, applied, outdated>>
      /\ prepares' = [prepares EXCEPT ![p].expired = TRUE]
  BY DEF Expires
<1>2. PICK r : r = [prepares[p] EXCEPT !.expired = TRUE]
  OBVIOUS
<1>3. SameBut(prepares[p], r)
  <2>1. DOMAIN prepares[p] = PrepareFields
    BY <1>1 DEF PInv, PreparesOK
  <2> QED BY <1>2, <2>1 DEF SameBut, PrepareFields
<1>4. prepares' = [prepares EXCEPT ![p] = r]
  BY <1>1, <1>2
<1>5. Fewer
  BY <1>1, <1>3, <1>4, OneFewer
<1>6. HandlersOK'
  BY <1>1, <1>5, StaysTheirs DEF Fewer
<1>7. PreparesOK' /\ Apart'
  BY <1>5, FewerKeep
<1>8. Sequenced'
  BY <1>1, <1>5 DEF PInv, Sequenced, Fewer
<1>9. OnceOnly'
  <2>1. Prepares' = Prepares /\ \A q \in Prepares : Alive(q)' => Alive(q)
    BY <1>5 DEF Fewer, Later, Alive
  <2> QED BY <1>1, <2>1 DEF PInv, OnceOnly
<1>10. Decided'
  <2>1. Prepares' = Prepares /\ \A q \in Prepares : Alive(q)' => Alive(q)
    BY <1>5 DEF Fewer, Later, Alive
  <2> QED BY <1>1, <2>1 DEF PInv, Decided, Decides, Running
<1> QED BY <1>5, <1>6, <1>7, <1>8, <1>9, <1>10 DEF PInv

LEMMA ExpirePrepareKeeps ==
    ASSUME PInv, NEW p, ExpirePrepare(p), UNCHANGED kind, UNCHANGED started
    PROVE  PInv' /\ Fewer
<1>1. /\ p \in Prepares /\ UNCHANGED <<prepares, lost, applied, outdated>>
      /\ timers' = [timers EXCEPT ![p] = "none"]
  BY DEF ExpirePrepare
<1>2. PICK todo \in {<<"claim">>, <<"abort">>, <<"timeOut">>} :
        todo = IF ReadyToCommit(prepares[p]) THEN <<"claim">> ELSE <<"timeOut">>
  OBVIOUS
<1>3. IF Alive(p) THEN Begin(prepares[p].timeline, p, prepares[p].data, todo)
      ELSE UNCHANGED handlers
  BY <1>2 DEF ExpirePrepare, Alive
<1>4. PICK x : x = Handler(prepares[p].timeline, p, prepares[p].data, todo)
  OBVIOUS
<1>5. HandlerOK(x) /\ x.prepare = p /\ x.todo \in Deciding
  BY <1>1, <1>4, DeciderOK
<1>6. Fewer
  BY <1>1, SameIsLater DEF Fewer, PInv, Sequenced, Prepares
<1>7. IF Alive(p) THEN TakesOn(x) ELSE UNCHANGED handlers
  BY <1>3, <1>4, BeginsTakesOn DEF PInv, Sequenced
<1>8. HandlersOK'
  <2>1. CASE Alive(p)
    <3>1. HandlerOK(x)'
      BY <1>5, <1>6, StaysOK DEF Fewer
    <3> QED BY <1>6, <1>7, <2>1, <3>1, TakingKeeps DEF PInv, Fewer
  <2>2. CASE ~Alive(p)
    BY <1>6, <1>7, <2>2, StaysTheirs DEF Fewer
  <2> QED BY <2>1, <2>2
<1>9. PreparesOK' /\ Apart'
  BY <1>6, FewerKeep
<1>10. /\ IsSeq(timers') /\ Len(timers') = Len(timers)
       /\ \A q \in Prepares : timers'[q] = IF q = p THEN "none" ELSE timers[q]
  <2>1. IsSeq(timers) /\ DOMAIN timers = Prepares
    BY Indices DEF PInv, Sequenced
  <2> QED BY <1>1, <2>1, Updated
<1>11. Sequenced'
  BY <1>1, <1>7, <1>10 DEF PInv, Sequenced, TakesOn
<1>12. OnceOnly'
  BY <1>1 DEF PInv, OnceOnly, Alive, Prepares
<1>13. Decided'
  <2>1. \A q \in Prepares : Alive(q)' => Alive(q)
    BY <1>1 DEF Alive
  <2>2. \A q \in Prepares : timers[q] = "armed" /\ Alive(q)' =>
          \/ timers'[q] = "armed"
          \/ TakesOn(x) /\ x.prepare = q /\ x.todo \in Deciding
    BY <1>5, <1>7, <1>10, <2>1
  <2>3. TakesOn(x) \/ UNCHANGED handlers
    BY <1>7
  <2> QED BY <1>1, <1>6, <2>2, <2>3, DecidedTaking
<1> QED BY <1>6, <1>8, <1>9, <1>11, <1>12, <1>13 DEF PInv

-----------------------------------------------------------------------------
(* Another prepare.                                                        *)
LEMMA CreateKeeps ==
    ASSUME PInv, NEW h, NEW k, NEW context1, NEW targets, NEW required,
           NEW t, t = handlers[h].timeline, t \in Lines,
           CreatePrepare(h, t, k, context1, targets, required), UNCHANGED kind, UNCHANGED started
    PROVE  PInv'
<1>1. Todo(h, "create") /\ UNCHANGED outdated
  BY DEF CreatePrepare
<1>2. PICK x : x = handlers[h]
  OBVIOUS
<1>3. /\ h \in Running /\ HandlerOK(x) /\ IsSeq(handlers) /\ x.todo \in Shapes
      /\ DOMAIN x = HandlerFields /\ Head(x.todo) = "create"
  BY <1>1, <1>2, Begun
<1>4. x.todo = Creating /\ x.todo \notin Deciding
  BY <1>3, Deciders
<1>5. CASE StartInUse(k, context1)
  <2>1. Ends(h) /\ Still
    BY <1>5 DEF CreatePrepare, Still
  <2> QED BY <1>1, <1>2, <1>3, <1>4, <2>1, EndKeeps
<1>6. CASE ~StartInUse(k, context1)
  <2>0. PICK n : n = Len(prepares) + 1
    OBVIOUS
  <2>1. PICK r : r = [timeline |-> t, kind |-> k, context |-> context1,
                      targets |-> targets, required |-> required, ready |-> {},
                      failed |-> {}, expired |-> FALSE, status |-> "preparing",
                      data |-> x.data]
    OBVIOUS
  <2>2. PICK keys : keys = PreparingOn(t)
    OBVIOUS
  <2>3. PICK s : s = Superseded(keys)
    OBVIOUS
  <2>4. /\ prepares' = Append(s, r) /\ timers' = Append(timers, "none")
        /\ applied' = Append(applied, 0) /\ UNCHANGED lost
        /\ handlers' = [handlers EXCEPT ![h].todo = Tail(@), ![h].prepare = n]
    BY <1>2, <1>6, <2>0, <2>1, <2>2, <2>3 DEF CreatePrepare
  <2>5. /\ IsSeq(s) /\ Len(s) = Len(prepares) /\ DOMAIN s = Prepares
        /\ \A p \in Prepares : SameBut(prepares[p], s[p]) /\ (p \in keys => s[p].status # "preparing")
    BY <2>3, SupersededFewer
  <2>6. /\ Len(prepares) \in Nat /\ Prepares = 1 .. Len(prepares) /\ n \in Nat
        /\ n \notin Prepares /\ n # 0
    BY <2>0, Indices DEF PInv
  <2>7. /\ IsSeq(prepares') /\ Len(prepares') = n /\ Prepares' = Prepares \cup {n}
        /\ \A p \in Prepares : prepares'[p] = s[p]
        /\ prepares'[n] = r
    <3>1. IsSeq(prepares') /\ Len(prepares') = Len(s) + 1 /\ DOMAIN prepares' = 1 .. Len(s) + 1
      BY <2>4, <2>5, Appended
    <3>2. \A p \in 1 .. Len(s) : prepares'[p] = s[p]
      BY <2>4, <2>5, Appended
    <3>3. prepares'[Len(s) + 1] = r
      BY <2>4, <2>5, Appended
    <3>4. Len(s) = Len(prepares) /\ Len(s) + 1 = n
      BY <2>0, <2>5
    <3>5. Prepares' = Prepares \cup {n}
      BY <2>0, <2>6, <3>1, <3>4 DEF Prepares
    <3>6. \A p \in Prepares : prepares'[p] = s[p]
      BY <2>6, <3>2, <3>4
    <3>7. prepares'[n] = r
      BY <3>3, <3>4
    <3> QED BY <3>1, <3>4, <3>5, <3>6, <3>7
  <2>8. /\ IsSeq(timers') /\ Len(timers') = n /\ \A p \in Prepares : timers'[p] = timers[p]
        /\ IsSeq(applied') /\ Len(applied') = n
        /\ \A p \in Prepares : applied'[p] = applied[p]
        /\ applied'[n] = 0
    BY <2>0, <2>4, <2>6, Appended DEF PInv, Sequenced
  <2>9. /\ r.timeline = t /\ r.kind = k /\ r.context = context1 /\ r.status = "preparing"
        /\ DOMAIN r = PrepareFields
    BY <2>1 DEF PrepareFields
  <2>10. /\ Later
         /\ \A p \in Prepares : Alive(p)' => Alive(p) /\ p \notin keys
         /\ Alive(n)'
    BY <2>5, <2>7, <2>9 DEF Later, SameBut, Alive
  <2>11. PreparesOK'
    <3>1. ASSUME NEW p \in Prepares PROVE DOMAIN prepares'[p] = PrepareFields /\ prepares'[p].timeline \in Lines
      BY <2>10 DEF Later, PInv, PreparesOK
    <3> QED BY <2>7, <2>9, <3>1 DEF PreparesOK, Lines
  <2>12. Apart'
    <3> DEFINE Differ(p, q) == /\ prepares'[p].timeline # prepares'[q].timeline
                               /\ prepares'[p].kind = "start" /\ prepares'[q].kind = "start" =>
                                      prepares'[p].context # prepares'[q].context
    <3>1. ASSUME NEW p \in Prepares, NEW q \in Prepares, Alive(p)', Alive(q)', p # q
          PROVE  Differ(p, q)
      BY <2>10, <3>1 DEF Later, PInv, Apart
    <3>2. ASSUME NEW p \in Prepares, Alive(p)'
          PROVE  /\ prepares'[p].timeline # t
                 /\ prepares'[p].kind = "start" /\ k = "start" => prepares'[p].context # context1
      <4>1. /\ Alive(p) /\ p \notin PreparingOn(t)
            /\ prepares'[p].timeline = prepares[p].timeline /\ prepares'[p].kind = prepares[p].kind
            /\ prepares'[p].context = prepares[p].context
        BY <2>2, <2>10, <3>2 DEF Later
      <4>2. prepares[p].timeline # t
        BY <4>1 DEF PreparingOn, Alive
      <4>3. prepares[p].kind = "start" /\ k = "start" => prepares[p].context # context1
        BY <1>6, <4>1 DEF StartInUse, Alive
      <4> QED BY <4>1, <4>2, <4>3
    <3>3. ASSUME NEW p \in Prepares', NEW q \in Prepares', Alive(p)', Alive(q)', p # q
          PROVE  Differ(p, q)
      BY <2>7, <2>9, <3>1, <3>2, <3>3
    <3> QED BY <3>3 DEF Apart
  <2>13. Sequenced' /\ Turn(h, {handlers'[h]}) /\ handlers'[h] = [x EXCEPT !.todo = <<"send">>, !.prepare = n]
    <3>1. handlers' = [handlers EXCEPT ![h] = [x EXCEPT !.todo = Tail(x.todo), !.prepare = n]]
      BY <1>2, <1>3, <2>4 DEF Running
    <3>2. Tail(x.todo) = <<"send">>
      BY <1>4, Tuples DEF Creating
    <3>3. PICK y : y = [x EXCEPT !.todo = <<"send">>, !.prepare = n]
      OBVIOUS
    <3>4. handlers' = [handlers EXCEPT ![h] = y]
      BY <3>1, <3>2, <3>3
    <3>5. Turn(h, {y})
      BY <1>3, <3>4, ReplacesTurn
    <3>6. handlers'[h] = y
      BY <1>3, <3>4 DEF Running
    <3> QED BY <2>7, <2>8, <3>3, <3>5, <3>6 DEF Sequenced, Turn
  <2>14. PICK y : y = handlers'[h]
    OBVIOUS
  <2>15. /\ DOMAIN y = HandlerFields /\ y.todo = <<"send">> /\ y.prepare = n
         /\ y.older = x.older /\ y.timeline = x.timeline
    BY <1>3, <2>13, <2>14 DEF HandlerFields
  <2>16. HandlerOK(y)'
    <3>1. <<"send">> \in Shapes /\ <<"send">> \in Deciding /\ <<"send">> \notin Plain
          /\ <<"send">> # <<"claim">>
      BY Deciders DEF Shapes, Deciding
    <3>2. y.older \subseteq Prepares' /\ \A p \in y.older : prepares'[p].timeline = y.timeline
      BY <1>3, <2>10, <2>15 DEF HandlerOK, Later
    <3> QED BY <2>7, <2>15, <3>1, <3>2 DEF HandlerOK
  <2>17. HandlersOK'
    BY <2>10, <2>13, <2>14, <2>16, TurnKeeps DEF PInv
  <2>18. OnceOnly'
    BY <1>1, <2>7, <2>8, <2>10 DEF PInv, OnceOnly
  <2>19. Decided'
    <3>1. ASSUME NEW p \in Prepares, Alive(p)'
          PROVE  timers'[p] = "armed" \/ p \in lost' \/ \E g \in Running' : Decides(g, p)'
      <4>1. Alive(p)
        BY <2>10, <3>1
      <4>2. ASSUME NEW f \in Running, Decides(f, p) PROVE \E g \in Running' : Decides(g, p)'
        <5>1. f # h
          BY <1>2, <1>4, <4>2 DEF Decides
        <5> QED BY <2>13, <4>2, <5>1, DecidesStill
      <4> QED BY <2>4, <2>8, <4>1, <4>2 DEF PInv, Decided
    <3>2. \E g \in Running' : Decides(g, n)'
      <4>1. PICK g \in Running' : handlers'[g] = y
        BY <2>13, <2>14, DecidesAfter
      <4>2. y.todo \in Deciding
        BY <2>15 DEF Deciding
      <4> QED BY <2>15, <4>1, <4>2 DEF Decides
    <3> QED BY <2>7, <3>1, <3>2 DEF Decided
  <2> QED BY <2>11, <2>12, <2>13, <2>17, <2>18, <2>19 DEF PInv
<1> QED BY <1>5, <1>6

-----------------------------------------------------------------------------
(* Requests: a command outdates what it finds, and what is new or is not a *)
(* command of a player finds nothing.                                      *)
LEMMA BeginKeeps ==
    ASSUME PInv, NEW t, NEW data, NEW todo \in {Creating} \cup Superseding \cup Plain,
           Begin(t, 0, data, todo), todo \in Plain => t \notin Lines,
           Still, UNCHANGED outdated, Lines \subseteq Lines'
    PROVE  PInv'
<1>1. PICK x : x = Handler(t, 0, data, todo)
  OBVIOUS
<1>2. /\ DOMAIN x = HandlerFields /\ x.todo = todo /\ x.timeline = t
      /\ x.prepare = 0 /\ x.older = PreparingOn(t)
  BY <1>1, HandlerIs
<1>3. TakesOn(x)
  BY <1>1, BeginsTakesOn DEF PInv, Sequenced
<1>4. x.older \subseteq Prepares /\ \A p \in x.older : prepares[p].timeline = t
  BY <1>2 DEF PreparingOn
<1>5. todo \in Plain => x.older = {}
  <2> SUFFICES ASSUME todo \in Plain, NEW p \in x.older PROVE FALSE
    OBVIOUS
  <2> QED BY <1>4 DEF PInv, PreparesOK
<1>6. todo \in Shapes /\ todo \notin Deciding
  BY Deciders DEF Shapes
<1>7. todo # <<"claim">>
  BY <1>6 DEF Deciding
<1>8. HandlerOK(x)
  BY <1>2, <1>4, <1>5, <1>6, <1>7 DEF HandlerOK
<1> QED BY <1>3, <1>8, TakesKeep

LEMMA TwoPhaseIs == TwoPhase = Creating /\ TwoPhase \notin Superseding \cup Plain
BY DEF TwoPhase, Creating, Superseding, Plain

LEMMA ControlKeeps ==
    ASSUME PInv, NEW b, NEW base, NEW change, NEW todo \in {Creating} \cup Superseding,
           Control(b, base, change, todo), Still, UNCHANGED outdated
    PROVE  PInv'
<1>1. Begin(b, 0, Data(Known(b), base, change), todo) /\ UNCHANGED started
  BY DEF Control
<1>2. Lines \subseteq Lines'
  BY <1>1 DEF Lines, Still
<1>3. todo \notin Plain
  BY DEF Creating, Superseding, Plain
<1> QED BY <1>1, <1>2, <1>3, BeginKeeps

LEMMA RequestsKeep ==
    ASSUME PInv, NEW b,
           \/ \E sync \in Syncs : QueueSyncRequest(b, sync[1], sync[2])
           \/ \E index \in 0 .. MaxSongs, twoPhase \in BOOLEAN :
                  PlayItemRequest(b, index, twoPhase)
           \/ \E twoPhase \in BOOLEAN : PlayRequest(b, 0, twoPhase)
           \/ \E base \in {0, Known(b).controlVersion} : PauseRequest(b, base)
           \/ SeekRequest(b, Known(b).controlVersion)
           \/ StopRequest(b, 0),
           Still, UNCHANGED outdated
    PROVE  PInv'
<1>1. /\ Single \in {Creating} \cup Superseding /\ TwoPhase \in {Creating} \cup Superseding
      /\ <<"stop", "supersede", "upsert", "save">> \in {Creating} \cup Superseding
  BY DEF Single, TwoPhase, Creating, Superseding
<1>2. \E base, change : \E todo \in {Creating} \cup Superseding : Control(b, base, change, todo)
  <2>1. CASE \E sync \in Syncs : QueueSyncRequest(b, sync[1], sync[2])
    <3>1. PICK sync \in Syncs : QueueSyncRequest(b, sync[1], sync[2])
      BY <2>1
    <3>2. \E base, change : Control(b, base, change, Single)
      BY <3>1 DEF QueueSyncRequest
    <3> QED BY <1>1, <3>2
  <2>2. CASE \E index \in 0 .. MaxSongs, twoPhase \in BOOLEAN : PlayItemRequest(b, index, twoPhase)
    <3>1. PICK index \in 0 .. MaxSongs, twoPhase \in BOOLEAN : PlayItemRequest(b, index, twoPhase)
      BY <2>2
    <3> QED BY <1>1, <3>1 DEF PlayItemRequest
  <2>3. CASE \E twoPhase \in BOOLEAN : PlayRequest(b, 0, twoPhase)
    <3>1. PICK twoPhase \in BOOLEAN : PlayRequest(b, 0, twoPhase)
      BY <2>3
    <3> QED BY <1>1, <3>1 DEF PlayRequest
  <2>4. CASE \E base \in {0, Known(b).controlVersion} : PauseRequest(b, base)
    BY <1>1, <2>4 DEF PauseRequest
  <2>5. CASE SeekRequest(b, Known(b).controlVersion)
    BY <1>1, <2>5 DEF SeekRequest
  <2>6. CASE StopRequest(b, 0)
    BY <1>1, <2>6 DEF StopRequest
  <2> QED BY <2>1, <2>2, <2>3, <2>4, <2>5, <2>6
<1> QED BY <1>2, ControlKeeps

LEMMA StartKeeps ==
    ASSUME PInv, kind = "broadcasts", started \in Nat,
           NEW c, NEW members, NEW owner, NEW playing, NEW queue1, NEW twoPhase,
           StartRequest(c, members, owner, playing, queue1, twoPhase), Still, UNCHANGED outdated
    PROVE  PInv'
<1>1. PICK data, todo : /\ Begin(started + 1, 0, data, todo)
                        /\ todo \in {TwoPhase, <<"createBroadcast", "upsert", "save">>}
                        /\ started' = started + 1
  BY DEF StartRequest
<1>2. Lines = 1 .. started /\ Lines' = 1 .. started + 1
  BY <1>1 DEF Lines, Still
<1>3. Lines \subseteq Lines' /\ started + 1 \notin Lines
  BY <1>2
<1>4. todo \in {Creating} \cup Superseding \cup Plain
  BY <1>1, TwoPhaseIs DEF Plain
<1> QED BY <1>1, <1>3, <1>4, BeginKeeps

(* The tasks of a broadcast.                                               *)
LEMMA BroadcastTasksKeep ==
    ASSUME PInv, kind = "broadcasts", UNCHANGED kind,
           \A g \in Running : handlers[g].timeline \in 1 .. started, NEW h \in Running,
           \/ CreateBroadcast(h) \/ UpdateBroadcast(h) \/ StopBroadcast(h)
           \/ UpsertContext(h) \/ SaveContext(h)
           \/ PrepareBroadcast(h) \/ CommitBroadcast(h)
    PROVE  PInv'
<1>1. ASSUME NEW task \in {"createBroadcast", "update", "stop", "upsert", "save"}, Todo(h, task),
             Ends(h) \/ \E data : Proceeds(h, data), UNCHANGED prepareVars, UNCHANGED started,
             UNCHANGED outdated \/ Outdates(h)
      PROVE  PInv'
  <2>1. Head(handlers[h].todo) \notin Special
    BY <1>1 DEF Todo, Special
  <2>2. CASE \E data : Proceeds(h, data)
    <3>1. PICK data : Proceeds(h, data)
      BY <2>2
    <3> QED BY <1>1, <2>1, <3>1, TaskKeeps DEF Still
  <2>3. CASE Ends(h) /\ UNCHANGED outdated
    <3>1. handlers[h].todo \notin Deciding
      BY <2>1, Deciders DEF Special, PInv, HandlersOK, HandlerOK
    <3> QED BY <1>1, <2>3, <3>1, EndKeeps DEF Still
  <2>4. CASE Ends(h) /\ Outdates(h)
    <3>1. CASE Len(handlers[h].todo) = 1
      <4>1. Proceeds(h, handlers[h].data)
        BY <2>4, <3>1 DEF Proceeds
      <4> QED BY <2>2, <4>1
    <3>2. CASE Len(handlers[h].todo) # 1
      <4>1. UNCHANGED outdated
        BY <2>4, <3>2 DEF Outdates
      <4> QED BY <2>3, <2>4, <4>1
    <3> QED BY <3>1, <3>2
  <2> QED BY <1>1, <2>2, <2>3, <2>4
<1>2. CASE CreateBroadcast(h)
  BY <1>1, <1>2 DEF CreateBroadcast, Continues
<1>3. CASE UpdateBroadcast(h)
  <2>1. /\ Todo(h, "update") /\ UNCHANGED <<prepareVars, outdated, started>>
        /\ Ends(h) \/ \E data : Proceeds(h, data)
    BY <1>3 DEF UpdateBroadcast
  <2> QED BY <1>1, <2>1
<1>4. CASE StopBroadcast(h)
  <2>1. /\ Todo(h, "stop") /\ UNCHANGED <<prepareVars, outdated, started>>
        /\ Ends(h) \/ \E data : Proceeds(h, data)
    BY <1>4 DEF StopBroadcast
  <2> QED BY <1>1, <2>1
<1>5. CASE UpsertContext(h)
  <2>1. /\ Todo(h, "upsert") /\ UNCHANGED <<prepareVars, outdated, started>>
        /\ Ends(h) \/ \E data : Proceeds(h, data)
    BY <1>5 DEF UpsertContext, Continues
  <2> QED BY <1>1, <2>1
<1>6. CASE SaveContext(h)
  <2>1. /\ Todo(h, "save") /\ UNCHANGED <<prepareVars, started>> /\ Outdates(h)
        /\ \E data : Proceeds(h, data)
    BY <1>6 DEF SaveContext, Continues
  <2> QED BY <1>1, <2>1
<1>7. CASE PrepareBroadcast(h)
  <2>1. PICK t : t = handlers[h].timeline
    OBVIOUS
  <2>2. t \in Lines
    BY <2>1 DEF Lines
  <2>3. PICK k, context1, targets, required : CreatePrepare(h, t, k, context1, targets, required)
    BY <1>7, <2>1 DEF PrepareBroadcast
  <2>4. UNCHANGED started
    BY <1>7 DEF PrepareBroadcast, broadcastVars
  <2> QED BY <2>1, <2>2, <2>3, <2>4, CreateKeeps
<1>8. CASE CommitBroadcast(h)
  <2>1. PICK todo \in Plain : ClaimPrepare(h, todo)
    BY <1>8 DEF CommitBroadcast, Plain
  <2>2. UNCHANGED started
    BY <1>8 DEF CommitBroadcast, broadcastVars
  <2> QED BY <2>1, <2>2, ClaimKeeps
<1> QED BY <1>2, <1>3, <1>4, <1>5, <1>6, <1>7, <1>8

LEMMA BroadcastsKeep ==
    ASSUME PInv, kind = "broadcasts", UNCHANGED kind, started \in Nat,
           \A g \in Running : handlers[g].timeline \in 1 .. started, NextBroadcasts
    PROVE  PInv'
<1>1. ASSUME NEW c, NEW members, NEW playing, NEW twoPhase,
             StartRequest(c, members, Owner, playing, MaxSongs, twoPhase)
             /\ UNCHANGED <<prepareVars, outdated>>
      PROVE  PInv'
  BY <1>1, StartKeeps DEF Still
<1>2. ASSUME NEW b,
             /\ \/ \E sync \in Syncs : QueueSyncRequest(b, sync[1], sync[2])
                \/ \E index \in 0 .. MaxSongs, twoPhase \in BOOLEAN :
                       PlayItemRequest(b, index, twoPhase)
                \/ \E twoPhase \in BOOLEAN : PlayRequest(b, 0, twoPhase)
                \/ \E base \in {0, Known(b).controlVersion} : PauseRequest(b, base)
                \/ SeekRequest(b, Known(b).controlVersion)
                \/ StopRequest(b, 0)
             /\ UNCHANGED <<prepareVars, outdated>>
      PROVE  PInv'
  <2>1. Still /\ UNCHANGED outdated
    BY <1>2 DEF Still
  <2> QED BY <1>2, <2>1, RequestsKeep
<1>3. ASSUME NEW h \in Running,
             \/ CreateBroadcast(h) \/ UpdateBroadcast(h) \/ StopBroadcast(h)
             \/ UpsertContext(h) \/ SaveContext(h)
             \/ PrepareBroadcast(h) \/ CommitBroadcast(h)
      PROVE  PInv'
  BY <1>3, BroadcastTasksKeep
<1> QED BY <1>1, <1>2, <1>3 DEF NextBroadcasts

(* The tasks of a session.                                                 *)
LEMMA Prefixed ==
    ASSUME NEW a, NEW b, NEW c, NEW d
    PROVE  <<a>> \o <<b, c, d>> = <<a, b, c, d>>
<1> DEFINE S == {a, b, c, d}
<1>1. <<a>> \in Seq(S) /\ <<b, c, d>> \in Seq(S) /\ <<a, b, c, d>> \in Seq(S)
  OBVIOUS
<1>2. Len(<<a>>) = 1 /\ Len(<<b, c, d>>) = 3 /\ Len(<<a, b, c, d>>) = 4
  OBVIOUS
<1>3. /\ <<a>> \o <<b, c, d>> \in Seq(S) /\ Len(<<a>> \o <<b, c, d>>) = 4
      /\ \A i \in 1 .. 4 : (<<a>> \o <<b, c, d>>)[i] =
                               IF i <= 1 THEN <<a>>[i] ELSE <<b, c, d>>[i - 1]
  BY <1>1, <1>2, ConcatProperties
<1>4. /\ (<<a>> \o <<b, c, d>>)[1] = a /\ (<<a>> \o <<b, c, d>>)[2] = b
      /\ (<<a>> \o <<b, c, d>>)[3] = c /\ (<<a>> \o <<b, c, d>>)[4] = d
  BY <1>3
<1>5. \A i \in 1 .. 4 : (<<a>> \o <<b, c, d>>)[i] = <<a, b, c, d>>[i]
  BY <1>4
<1> HIDE DEF S
<1> QED BY <1>1, <1>2, <1>3, <1>5, SeqEqual

LEMMA SyncTodo ==
    /\ <<"syncQueue">> \o SaveSync = <<"syncQueue", "supersede", "saveContext", "saveQueue">>
    /\ <<"syncContext">> \o SaveSync = <<"syncContext", "supersede", "saveContext", "saveQueue">>
BY Prefixed DEF SaveSync

LEMMA SessionRequestsKeep ==
    ASSUME PInv, kind = "sessions", UNCHANGED kind, UNCHANGED <<prepareVars, outdated>>,
           NEW d, NEW content,
           \/ SyncContextFirst(d, content) \/ SyncQueueFirst(d, content)
           \/ PauseSource(d) \/ SeekSource(d)
           \/ \E twoPhase \in BOOLEAN : PlaySource(d, content, twoPhase)
           \/ \E seq \in 1 .. MaxSeq : Report(d, seq, content)
           \/ Return
    PROVE  PInv'
<1>1. Lines = Devices /\ Lines' = Devices /\ SharedTimeline \notin Devices
  BY SessionsAssumption DEF Lines, SharedTimeline
<1>2. ASSUME NEW t, NEW data, NEW todo, Begin(t, 0, data, todo),
             \/ todo \in {Creating} \cup Superseding
             \/ t = SharedTimeline /\ todo \in Plain
      PROVE  PInv'
  <2>1. todo \in Plain => t \notin Lines
    BY <1>1, <1>2, Deciders DEF Creating, Superseding, Plain
  <2>2. todo \in {Creating} \cup Superseding \cup Plain
    BY <1>2
  <2>3. Lines \subseteq Lines'
    BY <1>1
  <2> QED BY <1>2, <2>1, <2>2, <2>3, BeginKeeps DEF Still
<1>3. /\ <<"syncQueue">> \o SaveSync \in Superseding /\ <<"syncContext">> \o SaveSync \in Superseding
      /\ ControlTodo \in Superseding /\ <<"create", "send">> = Creating
      /\ <<"reportContext", "saveContext", "savePlayback">> \in Plain
      /\ <<"restoreQueue", "readPlaybacks">> \in Plain
  BY SyncTodo DEF Superseding, ControlTodo, Creating, Plain
<1>4. \E t, data, todo : /\ Begin(t, 0, data, todo)
                         /\ \/ todo \in {Creating} \cup Superseding
                            \/ t = SharedTimeline /\ todo \in Plain
  <2>1. CASE SyncContextFirst(d, content)
    BY <1>3, <2>1 DEF SyncContextFirst
  <2>2. CASE SyncQueueFirst(d, content)
    BY <1>3, <2>2 DEF SyncQueueFirst
  <2>3. CASE PauseSource(d)
    BY <1>3, <2>3 DEF PauseSource
  <2>4. CASE SeekSource(d)
    BY <1>3, <2>4 DEF SeekSource
  <2>5. CASE \E twoPhase \in BOOLEAN : PlaySource(d, content, twoPhase)
    <3>1. PICK twoPhase \in BOOLEAN : PlaySource(d, content, twoPhase)
      BY <2>5
    <3> QED BY <1>3, <3>1 DEF PlaySource
  <2>6. CASE \E seq \in 1 .. MaxSeq : Report(d, seq, content)
    <3>1. PICK seq \in 1 .. MaxSeq : Report(d, seq, content)
      BY <2>6
    <3> QED BY <1>3, <3>1 DEF Report
  <2>7. CASE Return
    BY <1>3, <2>7 DEF Return
  <2> QED BY <2>1, <2>2, <2>3, <2>4, <2>5, <2>6, <2>7
<1> QED BY <1>2, <1>4

LEMMA SessionTasksKeep ==
    ASSUME PInv, kind = "sessions", UNCHANGED kind, UNCHANGED broadcastVars, NEW h \in Running,
           \/ SyncContext(h) \/ SyncQueue(h) \/ SaveSessionContext(h) \/ SaveQueue(h)
           \/ ControlPlayback(h) \/ SavePlayback(h)
           \/ ReportContext(h) \/ PrepareSource(h) \/ CommitSource(h)
           \/ RestoreQueue(h) \/ ReadPlaybacks(h) \/ RestorePlaybacks(h)
    PROVE  PInv'
<1>0. UNCHANGED started
  BY DEF broadcastVars
<1>1. ASSUME NEW task \in {"syncContext", "syncQueue", "saveContext", "saveQueue", "control",
                           "savePlayback", "reportContext", "restoreQueue"}, Todo(h, task),
             \E data : Proceeds(h, data), UNCHANGED prepareVars,
             UNCHANGED outdated \/ Outdates(h)
      PROVE  PInv'
  <2>1. Head(handlers[h].todo) \notin Special
    BY <1>1 DEF Todo, Special
  <2>2. PICK data : Proceeds(h, data)
    BY <1>1
  <2> QED BY <1>0, <1>1, <2>1, <2>2, TaskKeeps DEF Still
<1>2. PICK x : x = handlers[h]
  OBVIOUS
<1>3. HandlerOK(x) /\ DOMAIN x = HandlerFields /\ IsSeq(handlers) /\ x.todo \in Shapes
  BY <1>2 DEF PInv, HandlersOK, HandlerOK, Sequenced
<1>4. ASSUME NEW todo \in Plain, NEW data, x.todo \in Plain, UNCHANGED <<prepareVars, outdated>>,
             \/ handlers' = [handlers EXCEPT ![h].todo = todo, ![h].data = data]
             \/ handlers' = [handlers EXCEPT ![h].todo = todo] /\ data = handlers[h].data
      PROVE  PInv'
  <2>1. PICK y : y = Rest(x, todo, data)
    OBVIOUS
  <2>2. Turn(h, {y})
    BY <1>2, <1>3, <1>4, <2>1, RestTurn
  <2>3. HandlerOK(y)
    BY <1>3, <1>4, <2>1, RestOK
  <2>4. x.todo \notin Deciding
    BY <1>3, <1>4, Deciders
  <2> QED BY <1>0, <1>2, <1>4, <2>2, <2>3, <2>4, TurnsKeep DEF Still
<1>5. CASE SyncContext(h)
  <2>1. Todo(h, "syncContext") /\ UNCHANGED <<prepareVars, outdated>> /\ \E data : Proceeds(h, data)
    BY <1>5 DEF SyncContext
  <2> QED BY <1>1, <2>1
<1>6. CASE SyncQueue(h)
  <2>1. Todo(h, "syncQueue") /\ UNCHANGED <<prepareVars, outdated>> /\ \E data : Proceeds(h, data)
    BY <1>6 DEF SyncQueue
  <2> QED BY <1>1, <2>1
<1>7. CASE SaveSessionContext(h)
  <2>1. /\ Todo(h, "saveContext") /\ UNCHANGED <<prepareVars, outdated>>
        /\ \E data : Proceeds(h, data)
    BY <1>7 DEF SaveSessionContext, Continues
  <2> QED BY <1>1, <2>1
<1>8. CASE SaveQueue(h)
  <2>1. Todo(h, "saveQueue") /\ UNCHANGED prepareVars /\ Outdates(h) /\ \E data : Proceeds(h, data)
    BY <1>8 DEF SaveQueue, Continues
  <2> QED BY <1>1, <2>1
<1>9. CASE ControlPlayback(h)
  <2>1. Todo(h, "control") /\ UNCHANGED <<prepareVars, outdated>> /\ \E data : Proceeds(h, data)
    BY <1>9 DEF ControlPlayback
  <2> QED BY <1>1, <2>1
<1>10. CASE SavePlayback(h)
  <2>1. Todo(h, "savePlayback") /\ UNCHANGED prepareVars /\ Outdates(h) /\ \E data : Proceeds(h, data)
    BY <1>10 DEF SavePlayback, Continues
  <2> QED BY <1>1, <2>1
<1>11. CASE ReportContext(h)
  <2>1. /\ Todo(h, "reportContext") /\ UNCHANGED <<prepareVars, outdated>>
        /\ \/ \E data : Proceeds(h, data)
           \/ handlers' = [handlers EXCEPT ![h].todo = <<"savePlayback">>]
    BY <1>11 DEF ReportContext
  <2>2. x.todo \in Plain /\ <<"savePlayback">> \in Plain
    BY <1>2, <1>3, <2>1, Shaped DEF Todo, Plain
  <2> QED BY <1>1, <1>4, <2>1, <2>2
<1>12. CASE PrepareSource(h)
  <2>1. PICK t : t = handlers[h].timeline
    OBVIOUS
  <2>2. t \in Lines
    BY <1>12, <2>1 DEF Lines, PrepareSource
  <2>3. PICK k, context1, targets, required : CreatePrepare(h, t, k, context1, targets, required)
    BY <1>12, <2>1 DEF PrepareSource
  <2> QED BY <1>0, <2>1, <2>2, <2>3, CreateKeeps
<1>13. CASE CommitSource(h)
  <2>1. PICK todo \in Plain : ClaimPrepare(h, todo)
    BY <1>13 DEF CommitSource, Plain
  <2> QED BY <1>0, <2>1, ClaimKeeps
<1>14. CASE RestoreQueue(h)
  <2>1. /\ Todo(h, "restoreQueue") /\ UNCHANGED <<prepareVars, outdated>>
        /\ \E data : Proceeds(h, data)
    BY <1>14 DEF RestoreQueue, Continues
  <2> QED BY <1>1, <2>1
<1>15. CASE ReadPlaybacks(h)
  <2>0. Todo(h, "readPlaybacks") /\ UNCHANGED <<prepareVars, outdated>>
    BY <1>15 DEF ReadPlaybacks
  <2>1. x.todo \in Plain /\ <<"restorePlaybacks">> \in Plain /\ x.todo \notin Deciding
    BY <1>2, <1>3, <2>0, Shaped, Deciders DEF Todo, Plain, Alone1
  <2>2. CASE Ends(h)
    BY <1>0, <1>2, <2>0, <2>1, <2>2, EndKeeps DEF Still
  <2>3. CASE ~Ends(h)
    <3>1. PICK data : data = [x.data EXCEPT !.playbacks = playbackRows]
      OBVIOUS
    <3>2. handlers' = [handlers EXCEPT ![h].todo = <<"restorePlaybacks">>, ![h].data = data]
      BY <1>2, <1>15, <2>3, <3>1 DEF ReadPlaybacks
    <3> QED BY <1>4, <2>0, <2>1, <3>2
  <2> QED BY <2>2, <2>3
<1>16. CASE RestorePlaybacks(h)
  <2>1. Todo(h, "restorePlaybacks") /\ UNCHANGED <<prepareVars, outdated>> /\ Ends(h)
    BY <1>16 DEF RestorePlaybacks
  <2>2. x.todo \notin Deciding
    BY <1>2, <1>3, <2>1, Deciders DEF Todo
  <2> QED BY <1>0, <1>2, <2>1, <2>2, EndKeeps DEF Still
<1> QED
  BY <1>5, <1>6, <1>7, <1>8, <1>9, <1>10, <1>11, <1>12, <1>13, <1>14, <1>15, <1>16

LEMMA SessionsKeep ==
    ASSUME PInv, kind = "sessions", UNCHANGED kind, UNCHANGED broadcastVars, NextSessions
    PROVE  PInv'
<1>1. ASSUME NEW d, NEW content, UNCHANGED <<prepareVars, outdated>>,
             \/ SyncContextFirst(d, content) \/ SyncQueueFirst(d, content)
             \/ PauseSource(d) \/ SeekSource(d)
             \/ \E twoPhase \in BOOLEAN : PlaySource(d, content, twoPhase)
             \/ \E seq \in 1 .. MaxSeq : Report(d, seq, content)
             \/ Return
      PROVE  PInv'
  BY <1>1, SessionRequestsKeep
<1>2. ASSUME NEW h \in Running,
             \/ SyncContext(h) \/ SyncQueue(h) \/ SaveSessionContext(h) \/ SaveQueue(h)
             \/ ControlPlayback(h) \/ SavePlayback(h)
             \/ ReportContext(h) \/ PrepareSource(h) \/ CommitSource(h)
             \/ RestoreQueue(h) \/ ReadPlaybacks(h) \/ RestorePlaybacks(h)
      PROVE  PInv'
  BY <1>2, SessionTasksKeep
<1> QED BY <1>1, <1>2 DEF NextSessions

LEMMA PreparesKeep ==
    ASSUME PInv, UNCHANGED kind, UNCHANGED broadcastVars, NextPrepares
    PROVE  PInv'
<1>1. UNCHANGED started
  BY DEF broadcastVars
<1>2. ASSUME NEW h \in Running, SendPrepare(h) \/ Supersede(h) \/ EndPrepare(h)
      PROVE  PInv'
  BY <1>1, <1>2, SendKeeps, SupersedeKeeps, EndPrepareKeeps
<1>3. ASSUME NEW p \in Prepares,
             \/ \E d \in Devices, ready \in BOOLEAN : PlaybackReady(p, d, ready)
             \/ Expires(p) \/ ExpirePrepare(p)
      PROVE  PInv'
  BY <1>1, <1>3, ReadyKeeps, ExpiresKeeps, ExpirePrepareKeeps
<1> QED BY <1>2, <1>3 DEF NextPrepares

LEMMA Nothing ==
    ASSUME prepares = <<>>, timers = <<>>, applied = <<>>, handlers = <<>>, outdated = {}
    PROVE  PInv
<1>1. IsSeq(<<>>) /\ Len(<<>>) = 0 /\ DOMAIN <<>> = {}
  <2>1. <<>> \in Seq({})
    OBVIOUS
  <2> QED BY <2>1 DEF IsSeq
<1>2. Prepares = {} /\ Running = {}
  BY <1>1 DEF Prepares, Running
<1> QED BY <1>1, <1>2 DEF PInv, Sequenced, PreparesOK, HandlersOK, Apart, Decided, OnceOnly

LEMMA NothingNext ==
    ASSUME prepares' = <<>>, timers' = <<>>, applied' = <<>>, handlers' = <<>>, outdated' = {}
    PROVE  PInv'
<1>1. IsSeq(<<>>) /\ Len(<<>>) = 0 /\ DOMAIN <<>> = {}
  <2>1. <<>> \in Seq({})
    OBVIOUS
  <2> QED BY <2>1 DEF IsSeq
<1>2. Prepares' = {} /\ Running' = {}
  BY <1>1 DEF Prepares, Running
<1> QED BY <1>1, <1>2 DEF PInv, Sequenced, PreparesOK, HandlersOK, Apart, Decided, OnceOnly

-----------------------------------------------------------------------------
(***************************************************************************)
(* The broadcasts, their contexts and the rows of these.                   *)
(***************************************************************************)
RoomFields == {"broadcast", "context", "participants", "owner", "queue", "index", "state",
               "controlVersion"}

GoodRoom(r) ==
    /\ DOMAIN r = RoomFields /\ r.broadcast \in 0 .. started
    /\ r.broadcast # 0 => r.context \in Contexts
    /\ r.broadcast = 0 => r.participants = {}

(* A command leaves alone what a broadcast is and whose.                   *)
GoodData(t, data) ==
    /\ t \in 1 .. started /\ DOMAIN data = {"room", "base", "change"}
    /\ GoodRoom(data.room) /\ data.room.broadcast = t
    /\ DOMAIN data.change \cap {"broadcast", "context", "participants"} = {}

Rooms1 ==
    /\ DOMAIN broadcasts = Broadcasts
    /\ \A b \in Broadcasts : GoodRoom(broadcasts[b]) /\ broadcasts[b].broadcast \in {0, b}

(* Copy and row of a context are of one broadcast, which memory has with   *)
(* the copy.                                                               *)
Copies ==
    /\ DOMAIN contexts = Contexts /\ DOMAIN rows = Contexts
    /\ \A c \in Contexts :
        /\ GoodRoom(contexts[c]) /\ GoodRoom(rows[c])
        /\ contexts[c].broadcast # 0 =>
               /\ contexts[c].context = c
               /\ \A b \in Broadcasts : contexts[c].broadcast = b => broadcasts[b].broadcast = b
        /\ rows[c].broadcast # 0 => rows[c].context = c
        /\ contexts[c].broadcast # 0 /\ rows[c].broadcast # 0 =>
               contexts[c].broadcast = rows[c].broadcast

Memory == started \in 0 .. MaxBroadcasts /\ Rooms1 /\ Copies

(* What remains to be done once a broadcast has been changed.              *)
Past == {<<"supersede", "upsert", "save">>, <<"upsert", "save">>, <<"save">>}

RoomHandlerOK(x) ==
    /\ GoodData(x.timeline, x.data)
    /\ x.todo \in Past =>
           \A b \in Broadcasts : b = x.timeline => broadcasts[b].broadcast = b
    /\ x.todo = <<"save">> =>
           \A c \in Contexts : c = x.data.room.context => contexts[c].broadcast = x.timeline

MInv ==
    /\ Memory
    /\ \A h \in Running : RoomHandlerOK(handlers[h])
    /\ \A p \in Prepares : Alive(p) => GoodData(prepares[p].timeline, prepares[p].data)

(* What no step but a restart undoes.                                      *)
Grows ==
    /\ started' \in Nat /\ started <= started'
    /\ \A b \in Broadcasts : broadcasts[b].broadcast = b => broadcasts'[b].broadcast = b
    /\ \A c \in Contexts :
        /\ contexts[c].broadcast # 0 => contexts'[c].broadcast = contexts[c].broadcast
        /\ rows[c].broadcast # 0 => rows'[c].broadcast = rows[c].broadcast

LEMMA OfBroadcasts ==
    ASSUME Memory
    PROVE  started \in Nat /\ 1 .. started \subseteq Broadcasts /\ 0 \notin Broadcasts
BY RoomsAssumption DEF Memory, Broadcasts

LEMMA GoodRoomStays ==
    ASSUME started \in Nat, Grows, NEW r, GoodRoom(r) PROVE GoodRoom(r)'
BY DEF Grows, GoodRoom

LEMMA GoodDataStays ==
    ASSUME started \in Nat, Grows, NEW t, NEW data, GoodData(t, data) PROVE GoodData(t, data)'
<1>1. GoodRoom(data.room)'
  <2>1. PICK r : r = data.room
    OBVIOUS
  <2> QED BY <2>1, GoodRoomStays DEF GoodData
<1>2. 1 .. started \subseteq 1 .. started'
  BY DEF Grows
<1> QED BY <1>1, <1>2 DEF GoodData

LEMMA RoomStays ==
    ASSUME Memory, Grows, NEW x, RoomHandlerOK(x) PROVE RoomHandlerOK(x)'
<1>0. started \in Nat
  BY OfBroadcasts
<1>1. GoodData(x.timeline, x.data)'
  <2>1. PICK t, data : t = x.timeline /\ data = x.data
    OBVIOUS
  <2> QED BY <1>0, <2>1, GoodDataStays DEF RoomHandlerOK
<1>2. x.timeline # 0
  BY <1>0 DEF RoomHandlerOK, GoodData
<1>3. Broadcasts' = Broadcasts
  BY DEF Broadcasts
<1> QED BY <1>1, <1>2, <1>3 DEF RoomHandlerOK, Grows

(* The handlers after a step, and the prepares.                            *)
FromOld(S) ==
    \A g \in Running' : handlers'[g] \in S \/ \E f \in Running : handlers'[g] = handlers[f]

LEMMA TurnFromOld == ASSUME NEW h, NEW S, Turn(h, S) PROVE FromOld(S)
BY DEF Turn, Moves, FromOld

LEMMA TakesFromOld == ASSUME NEW x, TakesOn(x) PROVE FromOld({x})
BY DEF TakesOn, FromOld

LEMMA SameFromOld == ASSUME UNCHANGED handlers PROVE FromOld({})
BY DEF FromOld, Running

LEMMA MemoryKeeps ==
    ASSUME MInv, Memory', Grows, NEW S, FromOld(S), \A y \in S : RoomHandlerOK(y)',
           \/ Later /\ Prepares' = Prepares
           \/ \A p \in Prepares' : Alive(p)' => GoodData(prepares'[p].timeline, prepares'[p].data)
    PROVE  MInv' /\ Grows
<1>0. started \in Nat
  BY OfBroadcasts DEF MInv
<1>1. ASSUME NEW g \in Running' PROVE RoomHandlerOK(handlers[g])'
  <2>1. PICK y : y = handlers'[g]
    OBVIOUS
  <2>2. RoomHandlerOK(y)'
    <3>1. CASE \E f \in Running : y = handlers[f]
      <4>1. RoomHandlerOK(y)
        BY <3>1 DEF MInv
      <4> QED BY <4>1, RoomStays DEF MInv
    <3>2. CASE y \in S
      BY <3>2
    <3> QED BY <2>1, <3>1, <3>2 DEF FromOld
  <2> QED BY <2>1, <2>2 DEF RoomHandlerOK
<1>2. ASSUME NEW p \in Prepares', Alive(p)'
      PROVE  GoodData(prepares[p].timeline, prepares[p].data)'
  <2>1. PICK t, data : t = prepares'[p].timeline /\ data = prepares'[p].data
    OBVIOUS
  <2>2. GoodData(t, data)
    <3>1. CASE Later /\ Prepares' = Prepares
      <4>1. Alive(p) /\ t = prepares[p].timeline /\ data = prepares[p].data
        BY <1>2, <2>1, <3>1 DEF Later, Alive
      <4> QED BY <3>1, <4>1 DEF MInv
    <3>2. CASE \A q \in Prepares' : Alive(q)' => GoodData(prepares'[q].timeline, prepares'[q].data)
      BY <1>2, <2>1, <3>2
    <3> QED BY <3>1, <3>2
  <2>3. GoodData(t, data)'
    BY <1>0, <2>2, GoodDataStays
  <2> QED BY <2>1, <2>3
<1> QED BY <1>1, <1>2 DEF MInv

-----------------------------------------------------------------------------
(* What the steps do to the memory and the rows.                           *)
LEMMA GrowsMemory ==
    ASSUME Memory, Grows, started' \in 0 .. MaxBroadcasts, UNCHANGED <<broadcasts, contexts, rows>>
    PROVE  Memory'
<1>0. started \in Nat /\ Broadcasts' = Broadcasts
  BY OfBroadcasts DEF Broadcasts
<1>1. \A b \in Broadcasts : GoodRoom(broadcasts[b])'
  <2> SUFFICES ASSUME NEW b \in Broadcasts PROVE GoodRoom(broadcasts[b])'
    OBVIOUS
  <2>1. PICK r : r = broadcasts[b]
    OBVIOUS
  <2>2. GoodRoom(r)'
    BY <1>0, <2>1, GoodRoomStays DEF Memory, Rooms1
  <2> QED BY <2>1, <2>2
<1>2. \A c \in Contexts : GoodRoom(contexts[c])' /\ GoodRoom(rows[c])'
  <2> SUFFICES ASSUME NEW c \in Contexts PROVE GoodRoom(contexts[c])' /\ GoodRoom(rows[c])'
    OBVIOUS
  <2>1. PICK r, s : r = contexts[c] /\ s = rows[c]
    OBVIOUS
  <2>2. GoodRoom(r)' /\ GoodRoom(s)'
    BY <1>0, <2>1, GoodRoomStays DEF Memory, Copies
  <2> QED BY <2>1, <2>2
<1>3. Rooms1'
  BY <1>0, <1>1 DEF Memory, Rooms1
<1>4. Copies'
  BY <1>0, <1>2 DEF Memory, Copies
<1> QED BY <1>3, <1>4 DEF Memory, Broadcasts

LEMMA SameMemory ==
    ASSUME Memory, UNCHANGED <<broadcasts, contexts, rows, started>>
    PROVE  Memory' /\ Grows
<1>1. Grows
  BY OfBroadcasts DEF Grows
<1> QED BY <1>1, GrowsMemory DEF Memory

LEMMA PutRoom ==
    ASSUME Memory, NEW b \in Broadcasts, NEW r, GoodRoom(r), r.broadcast = b,
           broadcasts' = [broadcasts EXCEPT ![b] = r], UNCHANGED <<contexts, rows, started>>
    PROVE  Memory' /\ Grows /\ broadcasts'[b].broadcast = b
<1>0. started \in Nat /\ Broadcasts' = Broadcasts
  BY OfBroadcasts DEF Broadcasts
<1>1. /\ DOMAIN broadcasts' = Broadcasts
      /\ \A a \in Broadcasts : broadcasts'[a] = IF a = b THEN r ELSE broadcasts[a]
  BY DEF Memory, Rooms1
<1>2. Grows
  BY <1>0, <1>1 DEF Grows
<1>3. ASSUME NEW a \in Broadcasts PROVE GoodRoom(broadcasts[a])' /\ broadcasts'[a].broadcast \in {0, a}
  <2>1. PICK s : s = broadcasts'[a]
    OBVIOUS
  <2>2. GoodRoom(s) /\ s.broadcast \in {0, a}
    BY <1>1, <2>1 DEF Memory, Rooms1
  <2>3. GoodRoom(s)'
    BY <1>0, <1>2, <2>2, GoodRoomStays
  <2> QED BY <2>1, <2>2, <2>3
<1>4. Rooms1'
  BY <1>0, <1>1, <1>3 DEF Rooms1
<1>5. Copies'
  <2>1. \A c \in Contexts : GoodRoom(contexts[c])' /\ GoodRoom(rows[c])'
    BY DEF Memory, Copies, GoodRoom
  <2>2. \A a \in Broadcasts : broadcasts[a].broadcast = a => broadcasts'[a].broadcast = a
    BY <1>2 DEF Grows
  <2> QED BY <1>0, <2>1, <2>2 DEF Memory, Copies
<1> QED BY <1>1, <1>2, <1>4, <1>5 DEF Memory

LEMMA PutCopy ==
    ASSUME Memory, NEW r, GoodRoom(r), NEW b \in Broadcasts, r.broadcast = b,
           broadcasts[b].broadcast = b, MayUse(r.context, b),
           contexts' = [contexts EXCEPT ![r.context] = r], UNCHANGED <<broadcasts, rows, started>>
    PROVE  Memory' /\ Grows /\ contexts'[r.context].broadcast = b
<1>0. started \in Nat /\ Broadcasts' = Broadcasts /\ b # 0
  BY OfBroadcasts DEF Broadcasts
<1>1. PICK c \in Contexts : c = r.context
  BY <1>0 DEF GoodRoom
<1>2. /\ DOMAIN contexts' = Contexts
      /\ \A a \in Contexts : contexts'[a] = IF a = c THEN r ELSE contexts[a]
  BY <1>1 DEF Memory, Copies
<1>3. /\ contexts[c].broadcast # 0 => contexts[c].broadcast = b
      /\ contexts[c].broadcast = 0 => rows[c].broadcast \in {0, b}
  BY <1>1 DEF MayUse, Found
<1>4. Grows
  BY <1>0, <1>2, <1>3 DEF Grows
<1>5. rows[c].broadcast # 0 => rows[c].broadcast = b
  BY <1>3 DEF Memory, Copies
<1>6. \A a \in Contexts : GoodRoom(contexts'[a]) /\ GoodRoom(rows[a])
  BY <1>2 DEF Memory, Copies
<1>7. \A a \in Contexts : GoodRoom(contexts[a])' /\ GoodRoom(rows[a])'
  BY <1>6 DEF GoodRoom
<1>8. Copies'
  BY <1>0, <1>1, <1>2, <1>5, <1>7 DEF Memory, Copies
<1>9. Rooms1'
  BY <1>0 DEF Memory, Rooms1, GoodRoom
<1> QED BY <1>1, <1>2, <1>4, <1>8, <1>9 DEF Memory

LEMMA PutRow ==
    ASSUME Memory, NEW r, GoodRoom(r), NEW b \in Broadcasts, r.broadcast = b,
           \A c \in Contexts : c = r.context => contexts[c].broadcast = b,
           rows' = [rows EXCEPT ![r.context] = r], UNCHANGED <<broadcasts, contexts, started>>
    PROVE  Memory' /\ Grows
<1>0. started \in Nat /\ Broadcasts' = Broadcasts /\ b # 0
  BY OfBroadcasts DEF Broadcasts
<1>1. PICK c \in Contexts : c = r.context
  BY <1>0 DEF GoodRoom
<1>2. /\ DOMAIN rows' = Contexts
      /\ \A a \in Contexts : rows'[a] = IF a = c THEN r ELSE rows[a]
  BY <1>1 DEF Memory, Copies
<1>3. contexts[c].broadcast = b
  BY <1>1
<1>4. rows[c].broadcast # 0 => rows[c].broadcast = b
  BY <1>0, <1>3 DEF Memory, Copies
<1>5. Grows
  BY <1>0, <1>2, <1>4 DEF Grows
<1>6. \A a \in Contexts : GoodRoom(contexts[a]) /\ GoodRoom(rows'[a])
  BY <1>2 DEF Memory, Copies
<1>7. \A a \in Contexts : GoodRoom(contexts[a])' /\ GoodRoom(rows[a])'
  BY <1>6 DEF GoodRoom
<1>8. Copies'
  BY <1>0, <1>1, <1>2, <1>3, <1>7 DEF Memory, Copies
<1>9. Rooms1'
  BY <1>0 DEF Memory, Rooms1, GoodRoom
<1> QED BY <1>5, <1>8, <1>9 DEF Memory

(* A broadcast that is restored from the row of its context.               *)
LEMMA Restored ==
    ASSUME Memory, NEW b \in Broadcasts, broadcasts[b].broadcast = 0, Known(b).broadcast = b
    PROVE  \E c \in Contexts : /\ Known(b) = rows[c] /\ rows[c].broadcast = b
                               /\ rows[c].context = c /\ contexts[c].broadcast = 0
<1>0. b # 0
  BY OfBroadcasts
<1>1. NoRoom.broadcast = 0
  BY DEF NoRoom
<1>2. \E c \in Contexts : Found(c).broadcast = b
  <2>1. CASE ~\E c \in Contexts : Found(c).broadcast = b
    <3>1. Known(b) = NoRoom
      BY <2>1 DEF Known
    <3> QED BY <1>0, <1>1, <3>1
  <2> QED BY <2>1
<1>3. PICK c \in Contexts : c = CHOOSE a \in Contexts : Found(a).broadcast = b
  BY <1>2
<1>4. Found(c).broadcast = b /\ Known(b) = Found(c)
  BY <1>2, <1>3 DEF Known
<1>5. contexts[c].broadcast = 0
  <2> SUFFICES ASSUME contexts[c].broadcast # 0 PROVE FALSE
    OBVIOUS
  <2>1. contexts[c].broadcast = b
    BY <1>4 DEF Found
  <2>2. broadcasts[b].broadcast = b
    BY <2>1 DEF Memory, Copies
  <2> QED BY <1>0, <2>2
<1>6. Found(c) = rows[c]
  BY <1>5 DEF Found
<1> QED BY <1>0, <1>4, <1>5, <1>6 DEF Memory, Copies

LEMMA Gets ==
    ASSUME Memory, NEW b \in Broadcasts, GetBroadcast(b), UNCHANGED <<rows, started>>
    PROVE  /\ Memory' /\ Grows /\ GoodRoom(Known(b)) /\ Known(b).broadcast = b
<1>0. started \in Nat /\ Broadcasts' = Broadcasts /\ b # 0
  BY OfBroadcasts DEF Broadcasts
<1>1. Known(b).broadcast = b
  BY DEF GetBroadcast
<1>2. CASE broadcasts[b].broadcast # 0
  <2>1. Known(b) = broadcasts[b] /\ UNCHANGED <<broadcasts, contexts>>
    BY <1>2 DEF Known, GetBroadcast
  <2> QED BY <1>1, <2>1, SameMemory DEF Memory, Rooms1
<1>3. CASE broadcasts[b].broadcast = 0
  <2>1. PICK r : r = Known(b)
    OBVIOUS
  <2>2. PICK c \in Contexts : /\ r = rows[c] /\ r.broadcast = b
                              /\ r.context = c /\ contexts[c].broadcast = 0
    BY <1>1, <1>3, <2>1, Restored
  <2>3. broadcasts' = [broadcasts EXCEPT ![b] = r] /\ contexts' = [contexts EXCEPT ![c] = r]
    BY <1>3, <2>1, <2>2 DEF GetBroadcast
  <2>4. /\ DOMAIN broadcasts' = Broadcasts /\ DOMAIN contexts' = Contexts
        /\ \A a \in Broadcasts : broadcasts'[a] = IF a = b THEN r ELSE broadcasts[a]
        /\ \A a \in Contexts : contexts'[a] = IF a = c THEN r ELSE contexts[a]
    BY <2>3 DEF Memory, Rooms1, Copies
  <2>5. GoodRoom(r)
    BY <2>2 DEF Memory, Copies
  <2>6. Grows
    BY <1>0, <2>2, <2>4 DEF Grows
  <2>7. Rooms1'
    <3>1. \A a \in Broadcasts : GoodRoom(broadcasts'[a]) /\ broadcasts'[a].broadcast \in {0, a}
      BY <2>2, <2>4, <2>5 DEF Memory, Rooms1
    <3>2. \A a \in Broadcasts : GoodRoom(broadcasts[a])'
      BY <3>1 DEF GoodRoom
    <3> QED BY <1>0, <2>4, <3>1, <3>2 DEF Rooms1
  <2>8. Copies'
    <3>1. \A a \in Contexts : GoodRoom(contexts'[a]) /\ GoodRoom(rows[a])
      BY <2>4, <2>5 DEF Memory, Copies
    <3>2. \A a \in Contexts : GoodRoom(contexts[a])' /\ GoodRoom(rows[a])'
      BY <3>1 DEF GoodRoom
    <3>3. /\ broadcasts'[b].broadcast = b
          /\ \A a \in Broadcasts : broadcasts[a].broadcast = a => broadcasts'[a].broadcast = a
      BY <2>2, <2>4
    <3> QED BY <1>0, <2>2, <2>4, <3>2, <3>3 DEF Memory, Copies
  <2> QED BY <1>1, <2>1, <2>5, <2>6, <2>7, <2>8 DEF Memory
<1> QED BY <1>2, <1>3

LEMMA ChangedIs ==
    ASSUME NEW room, DOMAIN room = RoomFields, NEW change,
           DOMAIN change \cap {"broadcast", "context", "participants"} = {}
    PROVE  LET new == Changed(room, change)
           IN  /\ DOMAIN new = RoomFields /\ new.broadcast = room.broadcast
               /\ new.context = room.context /\ new.participants = room.participants
BY DEF Changed, RoomFields

LEMMA ChangedGood ==
    ASSUME NEW room, GoodRoom(room), NEW change,
           DOMAIN change \cap {"broadcast", "context", "participants"} = {}
    PROVE  GoodRoom(Changed(room, change)) /\ Changed(room, change).broadcast = room.broadcast
<1>1. PICK new : new = Changed(room, change)
  OBVIOUS
<1>2. /\ DOMAIN new = RoomFields /\ new.broadcast = room.broadcast
      /\ new.context = room.context /\ new.participants = room.participants
  BY <1>1, ChangedIs DEF GoodRoom
<1>3. GoodRoom(new)
  BY <1>2 DEF GoodRoom
<1> QED BY <1>1, <1>2, <1>3

LEMMA ActiveExists ==
    ASSUME Memory, NEW b \in Broadcasts, IsActive(b) PROVE broadcasts[b].broadcast = b
BY DEF Memory, Rooms1, GoodRoom, IsActive

-----------------------------------------------------------------------------
(* Requests.                                                               *)
LEMMA Creations ==
    /\ Creating \notin Past /\ Deciding \cap Past = {}
    /\ <<"createBroadcast", "upsert", "save">> \notin Past
    /\ <<"update", "supersede", "upsert", "save">> \notin Past
    /\ <<"stop", "supersede", "upsert", "save">> \notin Past
    /\ <<"update", "upsert", "save">> \notin Past
BY DEF Creating, Deciding, Past

LEMMA BeginMemory ==
    ASSUME PInv, MInv, Memory', Grows, NEW t, NEW p, NEW data, NEW todo, Begin(t, p, data, todo),
           GoodData(t, data)', todo \notin Past,
           UNCHANGED prepares \/ (Later /\ Prepares' = Prepares)
    PROVE  MInv' /\ Grows
<1>1. PICK x : x = Handler(t, p, data, todo)
  OBVIOUS
<1>2. x.todo = todo /\ x.timeline = t /\ x.data = data
  BY <1>1, HandlerIs
<1>3. TakesOn(x)
  BY <1>1, BeginsTakesOn DEF PInv, Sequenced
<1>4. RoomHandlerOK(x)'
  BY <1>2 DEF RoomHandlerOK, Past
<1>5. FromOld({x})
  BY <1>3, TakesFromOld
<1>6. \A y \in {x} : RoomHandlerOK(y)'
  <2> SUFFICES ASSUME NEW y \in {x} PROVE RoomHandlerOK(y)'
    OBVIOUS
  <2> QED BY <1>4 DEF RoomHandlerOK
<1>7. Later /\ Prepares' = Prepares
  BY SameIsLater DEF Prepares
<1> QED BY <1>5, <1>6, <1>7, MemoryKeeps

LEMMA DataIs ==
    ASSUME NEW room, NEW base, NEW change
    PROVE  LET data == Data(room, base, change)
           IN  /\ DOMAIN data = {"room", "base", "change"} /\ data.room = room
               /\ data.base = base /\ data.change = change
BY DEF Data

LEMMA ControlMemory ==
    ASSUME PInv, MInv, NEW b \in Broadcasts, NEW base, NEW change, NEW todo,
           DOMAIN change \cap {"broadcast", "context", "participants"} = {}, todo \notin Past,
           Control(b, base, change, todo), UNCHANGED prepares
    PROVE  MInv' /\ Grows
<1>1. PICK data : data = Data(Known(b), base, change)
  OBVIOUS
<1>2. /\ DOMAIN data = {"room", "base", "change"} /\ data.room = Known(b)
      /\ data.base = base /\ data.change = change
  BY <1>1, DataIs
<1>3. Begin(b, 0, data, todo) /\ GetBroadcast(b) /\ UNCHANGED <<rows, started>>
  BY <1>1 DEF Control
<1>4. Memory' /\ Grows /\ GoodRoom(Known(b)) /\ Known(b).broadcast = b
  BY <1>3, Gets DEF MInv
<1>5. GoodData(b, data)
  <2>1. PICK r : r = Known(b)
    OBVIOUS
  <2>2. r.broadcast \in 0 .. started /\ b # 0 /\ started \in Nat
    BY <1>4, <2>1, OfBroadcasts DEF GoodRoom, MInv
  <2>3. b \in 1 .. started
    BY <1>4, <2>1, <2>2
  <2> QED BY <1>2, <1>4, <2>3 DEF GoodData
<1>6. GoodData(b, data)'
  BY <1>4, <1>5, OfBroadcasts, GoodDataStays DEF MInv
<1> QED BY <1>3, <1>4, <1>6, BeginMemory

LEMMA RequestsMemory ==
    ASSUME PInv, MInv, NEW b \in Broadcasts, UNCHANGED prepares,
           \/ \E sync \in Syncs : QueueSyncRequest(b, sync[1], sync[2])
           \/ \E index \in 0 .. MaxSongs, twoPhase \in BOOLEAN :
                  PlayItemRequest(b, index, twoPhase)
           \/ \E twoPhase \in BOOLEAN : PlayRequest(b, 0, twoPhase)
           \/ \E base \in {0, Known(b).controlVersion} : PauseRequest(b, base)
           \/ SeekRequest(b, Known(b).controlVersion)
           \/ StopRequest(b, 0)
    PROVE  MInv' /\ Grows
<1>1. Single \notin Past /\ TwoPhase \notin Past /\ <<"stop", "supersede", "upsert", "save">> \notin Past
  BY DEF Single, TwoPhase, Past
<1>2. ASSUME NEW base, NEW change, NEW todo, Control(b, base, change, todo),
             DOMAIN change \cap {"broadcast", "context", "participants"} = {},
             todo \in {Single, TwoPhase, <<"stop", "supersede", "upsert", "save">>}
      PROVE  MInv' /\ Grows
  BY <1>1, <1>2, ControlMemory
<1>3. CASE \E sync \in Syncs : QueueSyncRequest(b, sync[1], sync[2])
  <2>1. PICK sync \in Syncs : QueueSyncRequest(b, sync[1], sync[2])
    BY <1>3
  <2>2. PICK change : change = [kind |-> "queueSync", queue |-> sync[1], index |-> sync[2],
                    state |-> IF sync[1] = 0 THEN "stopped" ELSE Known(b).state]
    OBVIOUS
  <2>3. DOMAIN change \cap {"broadcast", "context", "participants"} = {}
    BY <2>2
  <2> QED BY <1>2, <2>1, <2>2, <2>3 DEF QueueSyncRequest
<1>4. CASE \E index \in 0 .. MaxSongs, twoPhase \in BOOLEAN : PlayItemRequest(b, index, twoPhase)
  <2>1. PICK index \in 0 .. MaxSongs, twoPhase \in BOOLEAN : PlayItemRequest(b, index, twoPhase)
    BY <1>4
  <2>2. PICK change : change = [kind |-> "playItem", index |-> index, state |-> "playing"]
    OBVIOUS
  <2>3. DOMAIN change \cap {"broadcast", "context", "participants"} = {}
    BY <2>2
  <2> QED BY <1>2, <2>1, <2>2, <2>3 DEF PlayItemRequest
<1>5. CASE \E twoPhase \in BOOLEAN : PlayRequest(b, 0, twoPhase)
  <2>1. PICK twoPhase \in BOOLEAN : PlayRequest(b, 0, twoPhase)
    BY <1>5
  <2>2. PICK change : change = [kind |-> "play", state |-> "playing"]
    OBVIOUS
  <2>3. DOMAIN change \cap {"broadcast", "context", "participants"} = {}
    BY <2>2
  <2> QED BY <1>2, <2>1, <2>2, <2>3 DEF PlayRequest
<1>6. CASE \E base \in {0, Known(b).controlVersion} : PauseRequest(b, base)
  <2>1. PICK base \in {0, Known(b).controlVersion} : PauseRequest(b, base)
    BY <1>6
  <2>2. PICK change : change = [kind |-> "pause", state |-> "paused"]
    OBVIOUS
  <2>3. DOMAIN change \cap {"broadcast", "context", "participants"} = {}
    BY <2>2
  <2> QED BY <1>2, <2>1, <2>2, <2>3 DEF PauseRequest
<1>7. CASE SeekRequest(b, Known(b).controlVersion)
  <2>1. PICK change : change = [kind |-> "seek"]
    OBVIOUS
  <2>2. DOMAIN change \cap {"broadcast", "context", "participants"} = {}
    BY <2>1
  <2> QED BY <1>2, <1>7, <2>1, <2>2 DEF SeekRequest
<1>8. CASE StopRequest(b, 0)
  <2>1. PICK change : change = [kind |-> "stop", state |-> "stopped"]
    OBVIOUS
  <2>2. DOMAIN change \cap {"broadcast", "context", "participants"} = {}
    BY <2>1
  <2> QED BY <1>2, <1>8, <2>1, <2>2 DEF StopRequest
<1> QED BY <1>3, <1>4, <1>5, <1>6, <1>7, <1>8

LEMMA StartMemory ==
    ASSUME PInv, MInv, NEW c \in Contexts, NEW members, NEW owner, NEW playing, NEW queue1, NEW twoPhase,
           StartRequest(c, members, owner, playing, queue1, twoPhase), UNCHANGED prepares
    PROVE  MInv' /\ Grows
<1>0. started \in Nat /\ started \in 0 .. MaxBroadcasts /\ MaxBroadcasts \in Nat
  BY OfBroadcasts, RoomsAssumption DEF MInv, Memory
<1>1. PICK room : room = [broadcast |-> started + 1, context |-> c, participants |-> members,
                    owner |-> owner, queue |-> queue1, index |-> 0,
                    state |-> IF playing THEN "playing" ELSE "stopped",
                    controlVersion |-> 1]
  OBVIOUS
<1>2. PICK data : data = Data(room, 0, [kind |-> "start"])
  OBVIOUS
<1>3. PICK todo : todo = IF twoPhase THEN TwoPhase ELSE <<"createBroadcast", "upsert", "save">>
  OBVIOUS
<1>4. /\ Begin(started + 1, 0, data, todo) /\ started' = started + 1 /\ started < MaxBroadcasts
      /\ UNCHANGED <<broadcasts, contexts, rows>>
  BY <1>1, <1>2, <1>3 DEF StartRequest
<1>5. Grows /\ started' \in 0 .. MaxBroadcasts
  BY <1>0, <1>4 DEF Grows
<1>6. Memory'
  BY <1>4, <1>5, GrowsMemory DEF MInv
<1>7. /\ DOMAIN room = RoomFields /\ room.broadcast = started + 1 /\ room.context = c
  BY <1>1 DEF RoomFields
<1>8. GoodRoom(room)'
  BY <1>0, <1>4, <1>7 DEF GoodRoom
<1>9. /\ DOMAIN data = {"room", "base", "change"} /\ data.room = room
      /\ data.change = [kind |-> "start"]
  BY <1>2, DataIs
<1>t. PICK t : t = started + 1
  OBVIOUS
<1>10. GoodData(t, data)'
  <2>2. t \in 1 .. started'
    BY <1>0, <1>4, <1>t
  <2>3. DOMAIN data.change \cap {"broadcast", "context", "participants"} = {}
    BY <1>9
  <2>4. GoodRoom(data.room)' /\ data.room.broadcast = t
    BY <1>7, <1>8, <1>9, <1>t DEF GoodRoom
  <2> QED BY <1>9, <2>2, <2>3, <2>4 DEF GoodData
<1>11. todo \notin Past
  BY <1>3 DEF TwoPhase, Past
<1>12. Begin(t, 0, data, todo)
  BY <1>4, <1>t
<1> QED BY <1>12, <1>4, <1>5, <1>6, <1>10, <1>11, BeginMemory

-----------------------------------------------------------------------------
(* Tasks.                                                                  *)
GoesOn(h, data, todo) ==
    /\ Proceeds(h, data) /\ GoodData(handlers[h].timeline, data)
    /\ todo = Tail(handlers[h].todo)
    /\ todo \in Past => \A b \in Broadcasts :
           b = handlers[h].timeline => broadcasts'[b].broadcast = b
    /\ todo = <<"save">> => \A c \in Contexts :
           c = data.room.context => contexts'[c].broadcast = handlers[h].timeline

LEMMA ProceedMemory ==
    ASSUME PInv, MInv, Memory', Grows, NEW h \in Running, NEW data, NEW todo,
           GoesOn(h, data, todo),
           UNCHANGED prepares \/ (Later /\ Prepares' = Prepares)
    PROVE  MInv' /\ Grows
<1>0. /\ Proceeds(h, data) /\ GoodData(handlers[h].timeline, data)
      /\ todo = Tail(handlers[h].todo)
      /\ todo \in Past => \A b \in Broadcasts :
             b = handlers[h].timeline => broadcasts'[b].broadcast = b
      /\ todo = <<"save">> => \A c \in Contexts :
             c = data.room.context => contexts'[c].broadcast = handlers[h].timeline
  BY DEF GoesOn
<1>1. PICK x : x = handlers[h]
  OBVIOUS
<1>2. DOMAIN x = HandlerFields /\ IsSeq(handlers)
  BY <1>1 DEF PInv, HandlersOK, HandlerOK, Sequenced
<1>3. PICK y : y = Rest(x, todo, data)
  OBVIOUS
<1>4. y.todo = todo /\ y.timeline = x.timeline /\ y.data = data
  BY <1>2, <1>3, RestIs
<1>5. Turn(h, IF Len(x.todo) = 1 THEN {} ELSE {y})
  BY <1>0, <1>1, <1>2, <1>3, ProceedsTurn
<1>6. FromOld(IF Len(x.todo) = 1 THEN {} ELSE {y})
  BY <1>5, TurnFromOld
<1>7. GoodData(y.timeline, y.data)'
  <2>1. PICK t : t = x.timeline
    OBVIOUS
  <2>2. GoodData(t, data)
    BY <1>0, <1>1, <2>1
  <2>3. GoodData(t, data)'
    BY <2>2, OfBroadcasts, GoodDataStays DEF MInv
  <2> QED BY <1>4, <2>1, <2>3 DEF GoodData
<1>8. Broadcasts' = Broadcasts
  BY DEF Broadcasts
<1>9. RoomHandlerOK(y)'
  BY <1>0, <1>1, <1>4, <1>7, <1>8 DEF RoomHandlerOK
<1>10. \A z \in (IF Len(x.todo) = 1 THEN {} ELSE {y}) : RoomHandlerOK(z)'
  <2> SUFFICES ASSUME NEW z, z = y PROVE RoomHandlerOK(z)'
    OBVIOUS
  <2> QED BY <1>9 DEF RoomHandlerOK
<1>11. Later /\ Prepares' = Prepares
  BY SameIsLater DEF Prepares
<1> QED BY <1>6, <1>10, <1>11, MemoryKeeps

LEMMA EndMemory ==
    ASSUME PInv, MInv, Memory', Grows, NEW h \in Running, Ends(h), Later, Prepares' = Prepares
    PROVE  MInv' /\ Grows
<1>1. FromOld({})
  BY EndsTurn, TurnFromOld DEF PInv, Sequenced
<1> QED BY <1>1, MemoryKeeps

LEMMA CreateBroadcastMemory ==
    ASSUME PInv, MInv, NEW h \in Running, CreateBroadcast(h) PROVE MInv' /\ Grows
<1>1. PICK x, data, room : x = handlers[h] /\ data = x.data /\ room = data.room
  OBVIOUS
<1>2. PICK b : b = x.timeline
  OBVIOUS
<1>3. /\ GoodData(b, data) /\ GoodRoom(room) /\ room.broadcast = b /\ b \in 1 .. started
  BY <1>1, <1>2 DEF MInv, RoomHandlerOK, GoodData
<1>4. /\ Todo(h, "createBroadcast") /\ Proceeds(h, data)
      /\ broadcasts' = [broadcasts EXCEPT ![b] = room] /\ UNCHANGED <<prepares, contexts, rows, started>>
  BY <1>1, <1>3 DEF CreateBroadcast, Continues, prepareVars
<1>5. b \in Broadcasts
  BY <1>3, OfBroadcasts DEF MInv
<1>6. Memory' /\ Grows /\ broadcasts'[b].broadcast = b
  BY <1>3, <1>4, <1>5, PutRoom DEF MInv
<1>7. PICK todo : todo = Tail(x.todo)
  OBVIOUS
<1>8. todo # <<"save">>
  <2>1. x.todo = <<"createBroadcast", "upsert", "save">>
    BY <1>1, <1>4, Begun, Shaped
  <2> QED BY <1>7, <2>1, Tuples
<1>9. GoesOn(h, data, todo)
  BY <1>1, <1>2, <1>3, <1>4, <1>6, <1>7, <1>8 DEF GoesOn
<1> QED BY <1>4, <1>6, <1>9, ProceedMemory

LEMMA ChangeMemory ==
    ASSUME PInv, MInv, NEW h \in Running, NEW b \in Broadcasts, b = handlers[h].timeline,
           NEW new, new = Changed(broadcasts[b], handlers[h].data.change),
           IsActive(b), broadcasts' = [broadcasts EXCEPT ![b] = new],
           Proceeds(h, [handlers[h].data EXCEPT !.room = new]),
           Tail(handlers[h].todo) # <<"save">>, UNCHANGED <<prepares, contexts, rows, started>>
    PROVE  MInv' /\ Grows
<1>1. PICK data : data = handlers[h].data
  OBVIOUS
<1>2. GoodData(b, data)
  BY <1>1 DEF MInv, RoomHandlerOK
<1>3. broadcasts[b].broadcast = b
  BY ActiveExists DEF MInv
<1>4. PICK room : room = broadcasts[b]
  OBVIOUS
<1>5. GoodRoom(room) /\ room.broadcast = b
  BY <1>3, <1>4 DEF MInv, Memory, Rooms1
<1>6. GoodRoom(new) /\ new.broadcast = b
  BY <1>1, <1>2, <1>4, <1>5, ChangedGood DEF GoodData
<1>7. Memory' /\ Grows /\ broadcasts'[b].broadcast = b
  BY <1>6, PutRoom DEF MInv
<1>8. PICK data2 : data2 = [data EXCEPT !.room = new]
  OBVIOUS
<1>9. DOMAIN data2 = DOMAIN data /\ data2.room = new /\ data2.change = data.change
  BY <1>2, <1>8 DEF GoodData
<1>10. GoodData(b, data2)
  BY <1>2, <1>6, <1>9 DEF GoodData
<1>11. Proceeds(h, data2)
  BY <1>1, <1>8
<1>12. PICK todo : todo = Tail(handlers[h].todo)
  OBVIOUS
<1>13. todo # <<"save">> /\ GoodData(handlers[h].timeline, data2)
  BY <1>10, <1>12
<1>14. \A a \in Broadcasts : a = handlers[h].timeline => broadcasts'[a].broadcast = a
  BY <1>7
<1>15. GoesOn(h, data2, todo)
  BY <1>11, <1>12, <1>13, <1>14 DEF GoesOn
<1> QED BY <1>7, <1>15, ProceedMemory

LEMMA UpdateMemory ==
    ASSUME PInv, MInv, NEW h \in Running, UpdateBroadcast(h) \/ StopBroadcast(h) PROVE MInv' /\ Grows
<1>1. PICK b : b = handlers[h].timeline
  OBVIOUS
<1>2. PICK new : new = Changed(broadcasts[b], handlers[h].data.change)
  OBVIOUS
<1>3. b \in Broadcasts
  BY <1>1, OfBroadcasts DEF MInv, RoomHandlerOK, GoodData
<1>4. /\ UNCHANGED <<prepares, contexts, rows, started>>
      /\ Todo(h, "update") \/ Todo(h, "stop")
      /\ \/ /\ IsActive(b) /\ broadcasts' = [broadcasts EXCEPT ![b] = new]
            /\ Proceeds(h, [handlers[h].data EXCEPT !.room = new])
         \/ Ends(h) /\ UNCHANGED broadcasts
  BY <1>1, <1>2 DEF UpdateBroadcast, StopBroadcast, prepareVars
<1>5. CASE Ends(h) /\ UNCHANGED broadcasts
  <2>1. Memory' /\ Grows
    BY <1>4, <1>5, SameMemory DEF MInv
  <2>2. Later /\ Prepares' = Prepares
    BY <1>4, SameIsLater DEF Prepares
  <2> QED BY <1>5, <2>1, <2>2, EndMemory
<1>6. CASE ~(Ends(h) /\ UNCHANGED broadcasts)
  <2>1. PICK x : x = handlers[h]
    OBVIOUS
  <2>2. x.todo \in {<<"update", "supersede", "upsert", "save">>, <<"update", "upsert", "save">>,
                    <<"stop", "supersede", "upsert", "save">>}
    <3>1. x.todo \in Shapes /\ Head(x.todo) \in {"update", "stop"}
      BY <1>4, <2>1, Begun
    <3>2. CASE Head(x.todo) = "update"
      BY <3>1, <3>2, Shaped
    <3>3. CASE Head(x.todo) = "stop"
      BY <3>1, <3>3, Shaped
    <3> QED BY <3>1, <3>2, <3>3
  <2>3. Tail(x.todo) # <<"save">>
    <3>1. Tail(x.todo) \in {<<"supersede", "upsert", "save">>, <<"upsert", "save">>}
      <4>1. CASE x.todo = <<"update", "supersede", "upsert", "save">>
        BY <4>1, Tuples
      <4>2. CASE x.todo = <<"update", "upsert", "save">>
        BY <4>2, Tuples
      <4>3. CASE x.todo = <<"stop", "supersede", "upsert", "save">>
        BY <4>3, Tuples
      <4> QED BY <2>2, <4>1, <4>2, <4>3
    <3> QED BY <3>1
  <2> QED BY <1>1, <1>2, <1>3, <1>4, <1>6, <2>1, <2>3, ChangeMemory
<1> QED BY <1>5, <1>6

LEMMA UpsertMemory ==
    ASSUME PInv, MInv, NEW h \in Running, UpsertContext(h) PROVE MInv' /\ Grows
<1>1. PICK x, data, room : x = handlers[h] /\ data = x.data /\ room = data.room
  OBVIOUS
<1>2. PICK b : b = x.timeline
  OBVIOUS
<1>3. /\ GoodData(b, data) /\ GoodRoom(room) /\ room.broadcast = b /\ b \in 1 .. started
      /\ RoomHandlerOK(x)
  BY <1>1, <1>2 DEF MInv, RoomHandlerOK, GoodData
<1>4. /\ Todo(h, "upsert") /\ UNCHANGED <<prepares, broadcasts, rows, started>>
      /\ \/ /\ MayUse(room.context, b) /\ contexts' = [contexts EXCEPT ![room.context] = room]
            /\ Proceeds(h, data)
         \/ Ends(h) /\ UNCHANGED contexts
  BY <1>1, <1>3 DEF UpsertContext, Continues, prepareVars
<1>5. b \in Broadcasts
  BY <1>3, OfBroadcasts DEF MInv
<1>6. CASE Ends(h) /\ UNCHANGED contexts
  <2>1. Memory' /\ Grows
    BY <1>4, <1>6, SameMemory DEF MInv
  <2>2. Later /\ Prepares' = Prepares
    BY <1>4, SameIsLater DEF Prepares
  <2> QED BY <1>6, <2>1, <2>2, EndMemory
<1>7. CASE /\ MayUse(room.context, b) /\ contexts' = [contexts EXCEPT ![room.context] = room]
           /\ Proceeds(h, data)
  <2>1. x.todo = <<"upsert", "save">>
    BY <1>1, <1>4, Begun, Shaped
  <2>2. broadcasts[b].broadcast = b
    BY <1>2, <1>3, <1>5, <2>1 DEF RoomHandlerOK, Past
  <2>3. Memory' /\ Grows /\ contexts'[room.context].broadcast = b
    BY <1>3, <1>4, <1>5, <1>7, <2>2, PutCopy DEF MInv
  <2>4. PICK todo : todo = Tail(x.todo)
    OBVIOUS
  <2>5. broadcasts'[b].broadcast = b
    BY <1>4, <2>2
  <2>6. GoesOn(h, data, todo)
    BY <1>1, <1>2, <1>3, <1>4, <1>7, <2>3, <2>4, <2>5 DEF GoesOn
  <2> QED BY <1>4, <2>3, <2>6, ProceedMemory
<1> QED BY <1>4, <1>6, <1>7

LEMMA SaveMemory ==
    ASSUME PInv, MInv, NEW h \in Running, SaveContext(h) PROVE MInv' /\ Grows
<1>1. PICK x, data, room : x = handlers[h] /\ data = x.data /\ room = data.room
  OBVIOUS
<1>2. PICK b : b = x.timeline
  OBVIOUS
<1>3. /\ GoodData(b, data) /\ GoodRoom(room) /\ room.broadcast = b /\ b \in 1 .. started
      /\ RoomHandlerOK(x)
  BY <1>1, <1>2 DEF MInv, RoomHandlerOK, GoodData
<1>4. /\ Todo(h, "save") /\ UNCHANGED <<prepares, broadcasts, contexts, started>>
      /\ rows' = [rows EXCEPT ![room.context] = room] /\ Proceeds(h, data)
  BY <1>1, <1>3 DEF SaveContext, Continues, prepareVars
<1>5. b \in Broadcasts
  BY <1>3, OfBroadcasts DEF MInv
<1>6. x.todo = <<"save">>
  BY <1>1, <1>4, Begun, Shaped DEF Alone1
<1>7. Len(x.todo) = 1
  BY <1>6, Tuples
<1>8. Ends(h)
  BY <1>1, <1>4, <1>7 DEF Proceeds
<1>9. \A c \in Contexts : c = room.context => contexts[c].broadcast = b
  BY <1>1, <1>2, <1>3, <1>6 DEF RoomHandlerOK
<1>10. Memory' /\ Grows
  BY <1>3, <1>4, <1>5, <1>9, PutRow DEF MInv
<1>11. Later /\ Prepares' = Prepares
  BY <1>4, SameIsLater DEF Prepares
<1> QED BY <1>8, <1>10, <1>11, EndMemory

(* Prepares.                                                               *)
LEMMA PrepareMemory ==
    ASSUME PInv, MInv, NEW h \in Running, PrepareBroadcast(h) PROVE MInv' /\ Grows
<1>1. PICK x, t, data : x = handlers[h] /\ t = x.timeline /\ data = x.data
  OBVIOUS
<1>2. GoodData(t, data)
  BY <1>1 DEF MInv, RoomHandlerOK
<1>3. PICK k, context1, targets, required : CreatePrepare(h, t, k, context1, targets, required)
  BY <1>1 DEF PrepareBroadcast
<1>4. Memory' /\ Grows
  BY SameMemory DEF MInv, PrepareBroadcast, broadcastVars
<1>5. /\ IsSeq(handlers) /\ x.todo = Creating /\ DOMAIN x = HandlerFields
  BY <1>1, <1>3, Begun, Shaped DEF CreatePrepare
<1>6. CASE Ends(h) /\ UNCHANGED prepareVars
  <2>1. Later /\ Prepares' = Prepares
    BY <1>6, SameIsLater DEF prepareVars, Prepares
  <2> QED BY <1>4, <1>6, <2>1, EndMemory
<1>7. CASE ~(Ends(h) /\ UNCHANGED prepareVars)
  <2>1. PICK r : r = [timeline |-> t, kind |-> k, context |-> context1,
                      targets |-> targets, required |-> required, ready |-> {},
                      failed |-> {}, expired |-> FALSE, status |-> "preparing",
                      data |-> data]
    OBVIOUS
  <2>2. PICK n, s : n = Len(prepares) + 1 /\ s = Superseded(PreparingOn(t))
    OBVIOUS
  <2>3. /\ prepares' = Append(s, r)
        /\ handlers' = [handlers EXCEPT ![h].todo = Tail(@), ![h].prepare = n]
    BY <1>1, <1>3, <1>7, <2>1, <2>2 DEF CreatePrepare
  <2>4. /\ IsSeq(s) /\ Len(s) = Len(prepares)
        /\ \A p \in Prepares : SameBut(prepares[p], s[p])
    BY <2>2, SupersededFewer
  <2>5. \A p \in Prepares' : prepares'[p] = r \/ (p \in Prepares /\ prepares'[p] = s[p])
    <3>1. /\ DOMAIN prepares' = 1 .. Len(s) + 1 /\ \A p \in 1 .. Len(s) : prepares'[p] = s[p]
          /\ prepares'[Len(s) + 1] = r /\ Len(s) \in Nat
      BY <2>3, <2>4, Appended, SeqFacts
    <3>2. Prepares = 1 .. Len(s)
      BY <2>4, Indices DEF PInv
    <3>3. ASSUME NEW p \in 1 .. Len(s) + 1
          PROVE  prepares'[p] = r \/ (p \in 1 .. Len(s) /\ prepares'[p] = s[p])
      <4>1. p \in 1 .. Len(s) \/ p = Len(s) + 1
        BY <3>1
      <4> QED BY <3>1, <4>1
    <3>4. Prepares' = 1 .. Len(s) + 1
      BY <3>1 DEF Prepares
    <3> QED BY <3>2, <3>3, <3>4
  <2>6. r.timeline = t /\ r.data = data
    BY <2>1
  <2>7. ASSUME NEW p \in Prepares', Alive(p)'
        PROVE  GoodData(prepares'[p].timeline, prepares'[p].data)
    <3>1. CASE prepares'[p] = r
      BY <1>2, <2>6, <3>1
    <3>2. CASE p \in Prepares /\ prepares'[p] = s[p]
      <4>1. Alive(p) /\ s[p].timeline = prepares[p].timeline /\ s[p].data = prepares[p].data
        BY <2>4, <2>7, <3>2 DEF Alive, SameBut
      <4> QED BY <3>2, <4>1 DEF MInv
    <3> QED BY <2>5, <3>1, <3>2
  <2>8. PICK y : y = [x EXCEPT !.todo = <<"send">>, !.prepare = n]
    OBVIOUS
  <2>9. Tail(x.todo) = <<"send">>
    BY <1>5, Tuples DEF Creating
  <2>10. handlers' = [handlers EXCEPT ![h] = y]
    <3>1. handlers' = [handlers EXCEPT ![h] = [x EXCEPT !.todo = Tail(x.todo), !.prepare = n]]
      BY <1>1, <2>3 DEF Running
    <3> QED BY <2>8, <2>9, <3>1
  <2>11. FromOld({y})
    BY <1>5, <2>10, ReplacesTurn, TurnFromOld
  <2>12. y.timeline = t /\ y.data = data /\ y.todo = <<"send">>
    BY <1>1, <1>5, <2>8 DEF HandlerFields
  <2>13. GoodData(t, data)'
    BY <1>2, <1>4, OfBroadcasts, GoodDataStays DEF MInv
  <2>14. RoomHandlerOK(y)'
    BY <2>12, <2>13 DEF RoomHandlerOK, Past
  <2>15. \A z \in {y} : RoomHandlerOK(z)'
    <3> SUFFICES ASSUME NEW z \in {y} PROVE RoomHandlerOK(z)'
      OBVIOUS
    <3> QED BY <2>14 DEF RoomHandlerOK
  <2> QED BY <1>4, <2>7, <2>11, <2>15, MemoryKeeps
<1> QED BY <1>6, <1>7

LEMMA CommitMemory ==
    ASSUME PInv, MInv, NEW h \in Running, CommitBroadcast(h), UNCHANGED kind PROVE MInv' /\ Grows
<1>1. PICK x, t, data : x = handlers[h] /\ t = x.timeline /\ data = x.data
  OBVIOUS
<1>2. GoodData(t, data)
  BY <1>1 DEF MInv, RoomHandlerOK
<1>3. PICK todo : /\ todo \in {<<"createBroadcast", "upsert", "save">>, <<"update", "upsert", "save">>}
                  /\ ClaimPrepare(h, todo)
  BY DEF CommitBroadcast
<1>4. Memory' /\ Grows /\ UNCHANGED started
  BY SameMemory DEF MInv, CommitBroadcast, broadcastVars
<1>5. /\ IsSeq(handlers) /\ DOMAIN x = HandlerFields
  BY <1>1, <1>3, Begun DEF ClaimPrepare
<1>6. Later /\ Prepares' = Prepares
  BY <1>3, <1>4, ClaimKeeps DEF Fewer, Plain
<1>7. CASE Ends(h)
  BY <1>4, <1>6, <1>7, EndMemory
<1>8. CASE handlers' = [handlers EXCEPT ![h].todo = todo]
  <2>1. PICK y : y = Rest(x, todo, data)
    OBVIOUS
  <2>2. FromOld({y})
    BY <1>1, <1>5, <1>8, <2>1, RestTurn, TurnFromOld
  <2>3. y.timeline = t /\ y.data = data /\ y.todo = todo
    BY <1>1, <1>5, <2>1, RestIs
  <2>4. GoodData(t, data)'
    BY <1>2, <1>4, OfBroadcasts, GoodDataStays DEF MInv
  <2>5. todo \notin Past
    BY <1>3, Creations
  <2>6. RoomHandlerOK(y)'
    BY <2>3, <2>4, <2>5 DEF RoomHandlerOK, Past
  <2>7. \A z \in {y} : RoomHandlerOK(z)'
    <3> SUFFICES ASSUME NEW z \in {y} PROVE RoomHandlerOK(z)'
      OBVIOUS
    <3> QED BY <2>6 DEF RoomHandlerOK
  <2> QED BY <1>4, <1>6, <2>2, <2>7, MemoryKeeps
<1> QED BY <1>3, <1>7, <1>8 DEF ClaimPrepare

LEMMA AnyPrepareMemory ==
    ASSUME PInv, MInv, UNCHANGED kind, UNCHANGED broadcastVars, NextPrepares PROVE MInv' /\ Grows
<1>1. Memory' /\ Grows /\ UNCHANGED started
  BY SameMemory DEF MInv, broadcastVars
<1>2. ASSUME NEW h \in Running, SendPrepare(h) \/ EndPrepare(h) PROVE MInv' /\ Grows
  <2>1. Fewer
    BY <1>1, <1>2, SendKeeps, EndPrepareKeeps
  <2>2. CASE SendPrepare(h)
    <3>1. Len(handlers[h].todo) = 1
      BY <2>2, Begun DEF SendPrepare
    <3>2. Ends(h)
      BY <2>2, <3>1 DEF SendPrepare, Continues, Proceeds
    <3> QED BY <1>1, <2>1, <3>2, EndMemory DEF Fewer
  <2>3. CASE EndPrepare(h)
    BY <1>1, <2>1, <2>3, EndMemory DEF Fewer, EndPrepare
  <2> QED BY <1>2, <2>2, <2>3
<1>3. ASSUME NEW h \in Running, Supersede(h) PROVE MInv' /\ Grows
  <2>1. Fewer
    BY <1>1, <1>3, SupersedeKeeps
  <2>2. PICK x, data, todo : x = handlers[h] /\ data = x.data /\ todo = Tail(x.todo)
    OBVIOUS
  <2>3. RoomHandlerOK(x) /\ Todo(h, "supersede") /\ Proceeds(h, data)
    BY <1>3, <2>2 DEF MInv, Supersede, Continues
  <2>4. x.todo \in {<<"supersede", "upsert", "save">>,
                    <<"supersede", "saveContext", "saveQueue">>, <<"supersede", "savePlayback">>}
    BY <2>2, <2>3, Begun, Shaped
  <2>5. /\ todo \in {<<"upsert", "save">>, <<"saveContext", "saveQueue">>, <<"savePlayback">>}
        /\ todo \in Past => x.todo \in Past
    <3>1. CASE x.todo = <<"supersede", "upsert", "save">>
      BY <2>2, <3>1, Tuples DEF Past
    <3>2. CASE x.todo = <<"supersede", "saveContext", "saveQueue">>
      <4>1. todo = <<"saveContext", "saveQueue">>
        BY <2>2, <3>2, Tuples
      <4> QED BY <4>1 DEF Past
    <3>3. CASE x.todo = <<"supersede", "savePlayback">>
      <4>1. todo = <<"savePlayback">>
        BY <2>2, <3>3, Tuples
      <4> QED BY <4>1 DEF Past
    <3> QED BY <2>4, <3>1, <3>2, <3>3
  <2>6. \A b \in Broadcasts : b = x.timeline /\ broadcasts[b].broadcast = b => broadcasts'[b].broadcast = b
    BY <1>1 DEF Grows
  <2>7. todo # <<"save">>
    BY <2>5
  <2>8. GoesOn(h, data, todo)
    BY <2>2, <2>3, <2>5, <2>6, <2>7 DEF GoesOn, RoomHandlerOK
  <2> QED BY <1>1, <2>1, <2>8, ProceedMemory DEF Fewer
<1>4. ASSUME NEW p \in Prepares, NEW data, NEW t, NEW todo \in {<<"claim">>, <<"abort">>, <<"timeOut">>},
             Fewer, Begin(t, p, data, todo), GoodData(t, data)
      PROVE  MInv' /\ Grows
  <2>1. GoodData(t, data)'
    BY <1>1, <1>4, OfBroadcasts, GoodDataStays DEF MInv
  <2>2. todo \notin Past
    BY Creations DEF Deciding
  <2> QED BY <1>1, <1>4, <2>1, <2>2, BeginMemory DEF Fewer
<1>5. ASSUME UNCHANGED handlers, Fewer PROVE MInv' /\ Grows
  <2>1. FromOld({})
    BY <1>5, SameFromOld
  <2> QED BY <1>1, <1>5, <2>1, MemoryKeeps DEF Fewer
<1>6. ASSUME NEW p \in Prepares, NEW d, NEW ready, PlaybackReady(p, d, ready) PROVE MInv' /\ Grows
  <2>1. Fewer /\ Alive(p)
    BY <1>1, <1>6, ReadyKeeps DEF PlaybackReady, Alive
  <2>2. PICK q, todo : q = Answered(prepares[p], d, ready) /\ todo = ReadyTodo(q, d, ready)
    OBVIOUS
  <2>3. IF todo = <<>> THEN UNCHANGED handlers ELSE Begin(q.timeline, p, q.data, todo)
    BY <1>6, <2>2 DEF PlaybackReady
  <2>4. q.timeline = prepares[p].timeline /\ q.data = prepares[p].data
    BY <2>2, AnsweredIs DEF SameBut, PInv, PreparesOK
  <2>5. GoodData(q.timeline, q.data)
    BY <2>1, <2>4 DEF MInv
  <2>6. todo \in {<<"claim">>, <<"abort">>, <<>>}
    BY <2>2 DEF ReadyTodo
  <2>7. CASE todo = <<>>
    BY <1>5, <2>1, <2>3, <2>7
  <2>8. CASE todo # <<>>
    BY <1>4, <2>1, <2>3, <2>5, <2>6, <2>8
  <2> QED BY <2>7, <2>8
<1>7. ASSUME NEW p \in Prepares, Expires(p) PROVE MInv' /\ Grows
  <2>1. Fewer /\ UNCHANGED handlers
    BY <1>1, <1>7, ExpiresKeeps DEF Expires
  <2> QED BY <1>5, <2>1
<1>8. ASSUME NEW p \in Prepares, ExpirePrepare(p) PROVE MInv' /\ Grows
  <2>1. Fewer
    BY <1>1, <1>8, ExpirePrepareKeeps
  <2>2. PICK todo \in {<<"claim">>, <<"timeOut">>} :
            todo = IF ReadyToCommit(prepares[p]) THEN <<"claim">> ELSE <<"timeOut">>
    OBVIOUS
  <2>3. IF Alive(p) THEN Begin(prepares[p].timeline, p, prepares[p].data, todo)
        ELSE UNCHANGED handlers
    BY <1>8, <2>2 DEF ExpirePrepare, Alive
  <2>4. CASE Alive(p)
    <3>1. GoodData(prepares[p].timeline, prepares[p].data)
      BY <2>4 DEF MInv
    <3> QED BY <1>4, <2>1, <2>3, <2>4, <3>1
  <2>5. CASE ~Alive(p)
    BY <1>5, <2>1, <2>3, <2>5
  <2> QED BY <2>4, <2>5
<1> QED BY <1>2, <1>3, <1>6, <1>7, <1>8 DEF NextPrepares

-----------------------------------------------------------------------------
(***************************************************************************)
(* All steps.                                                              *)
(***************************************************************************)
LEMMA BroadcastsMemory ==
    ASSUME PInv, MInv, UNCHANGED kind, NextBroadcasts PROVE MInv' /\ Grows
<1>1. ASSUME NEW c \in Contexts, NEW members, NEW playing, NEW twoPhase,
             StartRequest(c, members, Owner, playing, MaxSongs, twoPhase)
             /\ UNCHANGED <<prepareVars, outdated>>
      PROVE  MInv' /\ Grows
  BY <1>1, StartMemory DEF prepareVars
<1>2. ASSUME NEW b \in Broadcasts,
             /\ \/ \E sync \in Syncs : QueueSyncRequest(b, sync[1], sync[2])
                \/ \E index \in 0 .. MaxSongs, twoPhase \in BOOLEAN :
                       PlayItemRequest(b, index, twoPhase)
                \/ \E twoPhase \in BOOLEAN : PlayRequest(b, 0, twoPhase)
                \/ \E base \in {0, Known(b).controlVersion} : PauseRequest(b, base)
                \/ SeekRequest(b, Known(b).controlVersion)
                \/ StopRequest(b, 0)
             /\ UNCHANGED <<prepareVars, outdated>>
      PROVE  MInv' /\ Grows
  BY <1>2, RequestsMemory DEF prepareVars
<1>3. ASSUME NEW h \in Running,
             \/ CreateBroadcast(h) \/ UpdateBroadcast(h) \/ StopBroadcast(h)
             \/ UpsertContext(h) \/ SaveContext(h)
             \/ PrepareBroadcast(h) \/ CommitBroadcast(h)
      PROVE  MInv' /\ Grows
  BY <1>3, CreateBroadcastMemory, UpdateMemory, UpsertMemory, SaveMemory, PrepareMemory,
     CommitMemory
<1> QED BY <1>1, <1>2, <1>3 DEF NextBroadcasts

RoomsInv ==
    /\ kind \in {"broadcasts", "sessions"}
    /\ PInv
    /\ kind = "broadcasts" => MInv

LEMMA NoRooms ==
    ASSUME broadcasts = [b \in Broadcasts |-> NoRoom], contexts = [c \in Contexts |-> NoRoom],
           rows = [c \in Contexts |-> NoRoom], started = 0, handlers = <<>>, prepares = <<>>
    PROVE  MInv
<1>1. GoodRoom(NoRoom) /\ NoRoom.broadcast = 0
  BY DEF GoodRoom, NoRoom, RoomFields
<1>2. Memory
  BY <1>1, RoomsAssumption DEF Memory, Rooms1, Copies
<1>3. Running = {} /\ Prepares = {}
  BY DEF Running, Prepares
<1> QED BY <1>2, <1>3 DEF MInv

LEMMA RestartMemory == ASSUME MInv, Restart PROVE MInv'
<1>1. /\ broadcasts' = [b \in Broadcasts |-> NoRoom] /\ contexts' = [c \in Contexts |-> NoRoom]
      /\ handlers' = <<>> /\ prepares' = <<>> /\ UNCHANGED <<rows, started>>
  BY DEF Restart, ForgetBroadcasts, ForgetPrepares
<1>2. GoodRoom(NoRoom) /\ NoRoom.broadcast = 0
  BY OfBroadcasts DEF MInv, GoodRoom, NoRoom, RoomFields
<1>3. \A c \in Contexts : GoodRoom(rows[c])
  BY DEF MInv, Memory, Copies
<1>4. GoodRoom(NoRoom)' /\ \A c \in Contexts : GoodRoom(rows[c])'
  BY <1>1, <1>2, <1>3 DEF GoodRoom, NoRoom
<1>5. Broadcasts' = Broadcasts /\ \A b \in Broadcasts : broadcasts'[b] = NoRoom
  BY <1>1 DEF Broadcasts
<1>6. \A b \in Broadcasts : GoodRoom(broadcasts[b])'
  BY <1>4, <1>5 DEF GoodRoom, NoRoom
<1>7. Rooms1'
  BY <1>1, <1>2, <1>5, <1>6 DEF Rooms1
<1>8. \A c \in Contexts : contexts'[c] = NoRoom /\ GoodRoom(contexts[c])'
  BY <1>1, <1>4 DEF GoodRoom, NoRoom
<1>9. Copies'
  BY <1>1, <1>2, <1>4, <1>8 DEF MInv, Memory, Copies
<1>10. Running' = {} /\ Prepares' = {}
  BY <1>1 DEF Running, Prepares
<1> QED BY <1>1, <1>7, <1>9, <1>10 DEF MInv, Memory

LEMMA RoomsInit == Init => RoomsInv
<1> SUFFICES ASSUME Init PROVE RoomsInv
  OBVIOUS
<1>1. PInv
  BY Nothing DEF Init
<1>2. MInv
  BY NoRooms DEF Init, InitBroadcasts
<1> QED BY <1>1, <1>2 DEF Init, RoomsInv

LEMMA RoomsStep == RoomsInv /\ [Next]_vars => RoomsInv'
<1> SUFFICES ASSUME RoomsInv, [Next]_vars PROVE RoomsInv'
  OBVIOUS
<1>0. UNCHANGED kind
  BY DEF Next, vars
<1>1. CASE UNCHANGED vars
  <2>1. UNCHANGED <<kind, prepareVars, handlers, outdated, broadcastVars>>
    BY <1>1 DEF vars
  <2>2. Still /\ Lines \subseteq Lines' /\ UNCHANGED handlers /\ UNCHANGED outdated
    BY <2>1 DEF Still, Lines, broadcastVars
  <2>3. Later /\ PreparesOK' /\ Apart'
    BY <2>2, StillPrepares DEF RoomsInv
  <2>4. HandlersOK'
    BY <2>2, <2>3, StaysTheirs DEF RoomsInv
  <2>5. PInv'
    BY <2>1, <2>3, <2>4
       DEF RoomsInv, PInv, Sequenced, Decided, OnceOnly, prepareVars, Prepares, Alive, Running, Decides
  <2>6. ASSUME MInv PROVE MInv'
    <3>1. Memory' /\ Grows
      BY <2>1, <2>6, SameMemory DEF MInv, broadcastVars
    <3>2. FromOld({}) /\ Prepares' = Prepares
      BY <2>1, SameFromOld DEF prepareVars, Prepares
    <3> QED BY <2>3, <2>6, <3>1, <3>2, MemoryKeeps
  <2> QED BY <1>0, <2>5, <2>6 DEF RoomsInv
<1>2. CASE kind = "broadcasts" /\ NextBroadcasts
  <2>1. started \in Nat /\ \A g \in Running : handlers[g].timeline \in 1 .. started
    BY <1>2, OfBroadcasts DEF RoomsInv, MInv, RoomHandlerOK, GoodData
  <2>2. PInv'
    BY <1>0, <1>2, <2>1, BroadcastsKeep DEF RoomsInv
  <2>3. MInv'
    BY <1>0, <1>2, BroadcastsMemory DEF RoomsInv
  <2> QED BY <1>0, <2>2, <2>3 DEF RoomsInv
<1>3. CASE kind = "sessions" /\ NextSessions /\ UNCHANGED broadcastVars
  <2>1. PInv'
    BY <1>0, <1>3, SessionsKeep DEF RoomsInv
  <2> QED BY <1>0, <1>3, <2>1 DEF RoomsInv
<1>4. CASE NextPrepares /\ UNCHANGED broadcastVars
  <2>1. PInv'
    BY <1>0, <1>4, PreparesKeep DEF RoomsInv
  <2>2. MInv => MInv'
    BY <1>0, <1>4, AnyPrepareMemory DEF RoomsInv
  <2> QED BY <1>0, <2>1, <2>2 DEF RoomsInv
<1>5. CASE Restart
  <2>1. PInv'
    <3>1. prepares' = <<>> /\ timers' = <<>> /\ applied' = <<>> /\ handlers' = <<>> /\ outdated' = {}
      BY <1>5 DEF Restart, ForgetPrepares
    <3> QED BY <3>1, NothingNext
  <2>2. MInv => MInv'
    BY <1>5, RestartMemory
  <2> QED BY <1>0, <2>1, <2>2 DEF RoomsInv
<1> QED BY <1>1, <1>2, <1>3, <1>4, <1>5 DEF Next

LEMMA RoomsInvariant == Spec => []RoomsInv
<1> QED BY RoomsInit, RoomsStep, PTL DEF Spec

-----------------------------------------------------------------------------
(* There is one prepare for a timeline, and one start for a context; some- *)
(* body will end it; a control that has finished left none of the older    *)
(* ones; and no command is carried out twice.  With the lock given up      *)
(* between the tasks of a handler (ws_state.py, _pending_prepares).        *)
THEOREM PreparesInOrderCorrect == Spec => []PreparesInOrder
<1>1. RoomsInv => PreparesInOrder
  BY InOrder DEF RoomsInv
<1> QED BY <1>1, RoomsInvariant, PTL

LEMMA ContextsStep == RoomsInv /\ [Next]_vars => ContextKeepsBroadcast
<1> SUFFICES ASSUME RoomsInv, [Next]_vars PROVE ContextKeepsBroadcast
  OBVIOUS
<1>1. CASE UNCHANGED <<contexts, rows>>
  BY <1>1 DEF ContextKeepsBroadcast
<1>2. CASE kind = "broadcasts" /\ NextBroadcasts /\ UNCHANGED kind
  <2>1. Grows
    BY <1>2, BroadcastsMemory DEF RoomsInv
  <2> QED BY <2>1 DEF Grows, ContextKeepsBroadcast
<1>3. CASE Restart
  <2>1. contexts' = [c \in Contexts |-> NoRoom] /\ UNCHANGED rows /\ NoRoom.broadcast = 0
    BY <1>3 DEF Restart, ForgetBroadcasts, NoRoom
  <2> QED BY <2>1 DEF ContextKeepsBroadcast
<1> QED BY <1>1, <1>2, <1>3 DEF Next, vars, broadcastVars

(* No start, command or restart gives the playback context of one broad-   *)
(* cast to another (ws_state.py, _sync_broadcast_playback_context).        *)
THEOREM ContextsKeepCorrect == Spec => ContextsKeep
<1>1. RoomsInv /\ [Next]_vars => [ContextKeepsBroadcast]_vars
  BY ContextsStep
<1> QED BY <1>1, RoomsInvariant, PTL DEF Spec, ContextsKeep

-----------------------------------------------------------------------------
(***************************************************************************)
(* What the steps are that concern broadcasts: each takes on one handler,  *)
(* is the turn of one, or passes time.                                     *)
(***************************************************************************)
Create3 == <<"createBroadcast", "upsert", "save">>
Update3 == <<"update", "upsert", "save">>
Stop4 == <<"stop", "supersede", "upsert", "save">>

(* A handler goes on as y, with the same data.                             *)
GoesOnAs(h, y) ==
    Turn(h, {y}) /\ y.timeline = handlers[h].timeline /\ y.data = handlers[h].data

StartStep ==
    /\ \E x : /\ TakesOn(x) /\ x.timeline = started + 1 /\ x.todo \in {Creating, Create3}
              /\ x.data.change = [kind |-> "start"] /\ x.data.base = 0
              /\ x.data.room.broadcast = started + 1 /\ x.data.room.index = 0
              /\ x.data.room.controlVersion = 1 /\ x.data.room.participants \subseteq Devices
    /\ started' = started + 1
    /\ UNCHANGED <<prepares, broadcasts, active, contexts, rows, ended, crossed>>

(* What a request checked of the broadcast it found.                       *)
Checked(room, data) ==
    /\ data.base \in {0, room.controlVersion} /\ data.change.kind # "start"
    /\ "queue" \in DOMAIN data.change =>
           /\ "index" \in DOMAIN data.change
           /\ data.change.index < data.change.queue \/ data.change.index = 0
    /\ "index" \in DOMAIN data.change /\ "queue" \notin DOMAIN data.change =>
           data.base = room.controlVersion /\ data.change.index < room.queue

CommandStep(b) ==
    /\ \E x : /\ TakesOn(x) /\ x.timeline = b /\ x.todo \in {Creating, Single, Stop4}
              /\ x.data.room = Known(b) /\ Checked(Known(b), x.data)
              /\ x.todo = Stop4 => x.data.change = [kind |-> "stop", state |-> "stopped"]
    /\ GetBroadcast(b) /\ UNCHANGED <<prepares, rows, started, ended, crossed>>

PrepareStep(h) ==
    /\ handlers[h].todo = Creating
    /\ \E y : GoesOnAs(h, y) /\ y.todo = <<"send">>
    /\ \E n : /\ n \notin Prepares /\ Prepares' = Prepares \cup {n}
              /\ prepares'[n].timeline = handlers[h].timeline
              /\ prepares'[n].kind = handlers[h].data.change.kind
              /\ prepares'[n].data = handlers[h].data
    /\ \A p \in Prepares : SameBut(prepares[p], prepares'[p])
    /\ UNCHANGED broadcastVars

DecideStep(p) ==
    /\ \E x : /\ TakesOn(x) /\ x.timeline = prepares[p].timeline /\ x.prepare = p
              /\ x.data = prepares[p].data /\ x.todo \in Deciding
    /\ Alive(p) /\ Fewer /\ UNCHANGED broadcastVars

ClaimStep(h) ==
    /\ handlers[h].todo = <<"claim">>
    /\ \E y : /\ GoesOnAs(h, y)
              /\ y.todo = IF handlers[h].data.change.kind = "start" THEN Create3 ELSE Update3
    /\ \E p \in Prepares : p = handlers[h].prepare /\ Alive(p) /\ ~Alive(p)'
    /\ Fewer /\ UNCHANGED broadcastVars

SupersedeStep(h) ==
    /\ \E y : /\ GoesOnAs(h, y) /\ (y.todo \in Past <=> handlers[h].todo \in Past)
              /\ y.todo \notin {<<"save">>, <<"claim">>, Creating, Create3, Stop4}
    /\ Fewer /\ UNCHANGED broadcastVars

(* One that was to write the context finds that of another broadcast.      *)
EndStep(h) ==
    /\ Turn(h, {}) /\ Fewer /\ UNCHANGED broadcastVars
    /\ handlers[h].todo \in Past =>
           contexts[handlers[h].data.room.context].broadcast # handlers[h].timeline

MakeStep(h) ==
    /\ handlers[h].todo = Create3
    /\ \E y : GoesOnAs(h, y) /\ y.todo = <<"upsert", "save">>
    /\ broadcasts' = [broadcasts EXCEPT ![handlers[h].timeline] = handlers[h].data.room]
    /\ active' = Joined(handlers[h].data.room.participants, handlers[h].timeline)
    /\ crossed' = [crossed EXCEPT ![handlers[h].timeline] = Crossing(h)]
    /\ UNCHANGED <<prepares, contexts, rows, started, ended>>

ChangeStep(h, b, new) ==
    /\ b = handlers[h].timeline /\ handlers[h].todo \in {Single, Update3, Stop4}
    /\ new = Changed(broadcasts[b], handlers[h].data.change)
    /\ \E y : /\ Turn(h, {y}) /\ y.timeline = b /\ y.data.room = new
              /\ y.data.base = handlers[h].data.base /\ y.data.change = handlers[h].data.change
              /\ y.todo \in {<<"supersede", "upsert", "save">>, <<"upsert", "save">>}
    /\ IsActive(b) /\ BaseCurrent(b, handlers[h].data.base)
    /\ broadcasts' = [broadcasts EXCEPT ![b] = new]
    /\ crossed' = [crossed EXCEPT ![b] = Crossing(h)]
    /\ \/ UNCHANGED <<active, ended>>
       \/ /\ handlers[h].todo = Stop4
          /\ active' = [d \in Devices |-> IF active[d] = b THEN 0 ELSE active[d]]
          /\ ended' = ended \cup {b}
    /\ UNCHANGED <<prepares, contexts, rows, started>>

CopyStep(h) ==
    /\ handlers[h].todo = <<"upsert", "save">>
    /\ \E y : GoesOnAs(h, y) /\ y.todo = <<"save">>
    /\ contexts' = [contexts EXCEPT ![handlers[h].data.room.context] = handlers[h].data.room]
    /\ UNCHANGED <<prepares, broadcasts, active, rows, started, ended, crossed>>

SaveStep(h) ==
    /\ handlers[h].todo = <<"save">> /\ Turn(h, {})
    /\ rows' = [rows EXCEPT ![handlers[h].data.room.context] = handlers[h].data.room]
    /\ UNCHANGED <<prepares, broadcasts, active, contexts, started, ended, crossed>>

TimeStep == UNCHANGED handlers /\ Fewer /\ UNCHANGED broadcastVars

BroadcastStep ==
    \/ StartStep \/ TimeStep
    \/ \E b \in Broadcasts : CommandStep(b)
    \/ \E p \in Prepares : DecideStep(p)
    \/ \E h \in Running :
        \/ PrepareStep(h) \/ ClaimStep(h) \/ SupersedeStep(h) \/ EndStep(h)
        \/ MakeStep(h) \/ CopyStep(h) \/ SaveStep(h) \/ \E b \in Broadcasts : \E new : ChangeStep(h, b, new)

(* The requests.                                                           *)
LEMMA StartIs ==
    ASSUME PInv, MInv, NEW c \in Contexts, NEW members \in SUBSET Devices, NEW owner,
           NEW playing, NEW queue1, NEW twoPhase,
           StartRequest(c, members, owner, playing, queue1, twoPhase), UNCHANGED prepares
    PROVE  StartStep
<1>0. started \in Nat
  BY OfBroadcasts DEF MInv
<1>1. PICK room : room = [broadcast |-> started + 1, context |-> c, participants |-> members,
                    owner |-> owner, queue |-> queue1, index |-> 0,
                    state |-> IF playing THEN "playing" ELSE "stopped",
                    controlVersion |-> 1]
  OBVIOUS
<1>2. PICK data : data = Data(room, 0, [kind |-> "start"])
  OBVIOUS
<1>3. PICK todo : todo = IF twoPhase THEN TwoPhase ELSE <<"createBroadcast", "upsert", "save">>
  OBVIOUS
<1>4. /\ Begin(started + 1, 0, data, todo) /\ started' = started + 1
      /\ UNCHANGED <<broadcasts, active, contexts, rows, ended, crossed>>
  BY <1>1, <1>2, <1>3 DEF StartRequest
<1>5. /\ room.broadcast = started + 1 /\ room.index = 0 /\ room.controlVersion = 1
      /\ room.participants \subseteq Devices
  BY <1>1
<1>6. data.room = room /\ data.base = 0 /\ data.change = [kind |-> "start"]
  BY <1>2, DataIs
<1>7. PICK x : x = Handler(started + 1, 0, data, todo)
  OBVIOUS
<1>8. TakesOn(x) /\ x.timeline = started + 1 /\ x.todo = todo /\ x.data = data
  BY <1>4, <1>7, BeginsTakesOn, HandlerIs DEF PInv, Sequenced
<1>9. todo \in {Creating, Create3}
  BY <1>3 DEF TwoPhase, Creating, Create3
<1> QED BY <1>4, <1>5, <1>6, <1>8, <1>9 DEF StartStep

LEMMA ControlIs ==
    ASSUME PInv, NEW b, NEW base, NEW change, NEW todo \in {Creating, Single, Stop4},
           Control(b, base, change, todo), UNCHANGED prepares,
           change.kind # "start",
           "queue" \in DOMAIN change =>
               "index" \in DOMAIN change /\ (change.index < change.queue \/ change.index = 0),
           "index" \in DOMAIN change /\ "queue" \notin DOMAIN change =>
               base = Known(b).controlVersion /\ change.index < Known(b).queue,
           todo = Stop4 => change = [kind |-> "stop", state |-> "stopped"]
    PROVE  CommandStep(b)
<1>1. PICK data : data = Data(Known(b), base, change)
  OBVIOUS
<1>2. data.room = Known(b) /\ data.base = base /\ data.change = change
  BY <1>1, DataIs
<1>3. /\ Begin(b, 0, data, todo) /\ GetBroadcast(b) /\ base \in {0, Known(b).controlVersion}
      /\ UNCHANGED <<rows, started, ended, crossed>>
  BY <1>1 DEF Control
<1>4. PICK x : x = Handler(b, 0, data, todo)
  OBVIOUS
<1>5. TakesOn(x) /\ x.timeline = b /\ x.todo = todo /\ x.data = data
  BY <1>3, <1>4, BeginsTakesOn, HandlerIs DEF PInv, Sequenced
<1>6. Checked(Known(b), data)
  BY <1>2, <1>3 DEF Checked
<1> QED BY <1>2, <1>3, <1>5, <1>6 DEF CommandStep

LEMMA RequestIs ==
    ASSUME PInv, NEW b \in Broadcasts, UNCHANGED prepares,
           \/ \E sync \in Syncs : QueueSyncRequest(b, sync[1], sync[2])
           \/ \E index \in 0 .. MaxSongs, twoPhase \in BOOLEAN :
                  PlayItemRequest(b, index, twoPhase)
           \/ \E twoPhase \in BOOLEAN : PlayRequest(b, 0, twoPhase)
           \/ \E base \in {0, Known(b).controlVersion} : PauseRequest(b, base)
           \/ SeekRequest(b, Known(b).controlVersion)
           \/ StopRequest(b, 0)
    PROVE  CommandStep(b)
<1>1. TwoPhase = Creating /\ Stop4 # Single /\ Stop4 # Creating
  BY TwoPhaseIs DEF Stop4, Single, Creating
<1>2. CASE \E sync \in Syncs : QueueSyncRequest(b, sync[1], sync[2])
  <2>1. PICK sync \in Syncs : QueueSyncRequest(b, sync[1], sync[2])
    BY <1>2
  <2>2. PICK m, n : m = sync[1] /\ n = sync[2] /\ (n < m \/ n = 0)
    <3>1. sync[2] < sync[1] \/ sync = <<0, 0>>
      BY BroadcastsAssumption
    <3>2. sync = <<0, 0>> => sync[2] = 0
      OBVIOUS
    <3> QED BY <3>1, <3>2
  <2>3. PICK change : change = [kind |-> "queueSync", queue |-> m, index |-> n,
                    state |-> IF m = 0 THEN "stopped" ELSE Known(b).state]
    OBVIOUS
  <2>4. /\ DOMAIN change = {"kind", "queue", "index", "state"} /\ change.kind = "queueSync"
        /\ change.queue = m /\ change.index = n
    BY <2>3
  <2>5. Control(b, Known(b).controlVersion, change, Single)
    BY <2>1, <2>2, <2>3 DEF QueueSyncRequest
  <2> QED BY <1>1, <2>2, <2>4, <2>5, ControlIs
<1>3. CASE \E index \in 0 .. MaxSongs, twoPhase \in BOOLEAN : PlayItemRequest(b, index, twoPhase)
  <2>1. PICK index \in 0 .. MaxSongs, twoPhase \in BOOLEAN : PlayItemRequest(b, index, twoPhase)
    BY <1>3
  <2>2. PICK change : change = [kind |-> "playItem", index |-> index, state |-> "playing"]
    OBVIOUS
  <2>3. /\ DOMAIN change = {"kind", "index", "state"} /\ change.kind = "playItem"
        /\ change.index = index
    BY <2>2
  <2>4. PICK todo \in {Creating, Single} :
            Control(b, Known(b).controlVersion, change, todo) /\ index < Known(b).queue
    BY <1>1, <2>1, <2>2 DEF PlayItemRequest
  <2> QED BY <1>1, <2>3, <2>4, ControlIs
<1>4. CASE \E twoPhase \in BOOLEAN : PlayRequest(b, 0, twoPhase)
  <2>1. PICK twoPhase \in BOOLEAN : PlayRequest(b, 0, twoPhase)
    BY <1>4
  <2>2. PICK change : change = [kind |-> "play", state |-> "playing"]
    OBVIOUS
  <2>3. DOMAIN change = {"kind", "state"} /\ change.kind = "play"
    BY <2>2
  <2>4. PICK todo \in {Creating, Single} : Control(b, 0, change, todo)
    BY <1>1, <2>1, <2>2 DEF PlayRequest
  <2> QED BY <1>1, <2>3, <2>4, ControlIs
<1>5. CASE \E base \in {0, Known(b).controlVersion} : PauseRequest(b, base)
  <2>1. PICK base \in {0, Known(b).controlVersion} : PauseRequest(b, base)
    BY <1>5
  <2>2. PICK change : change = [kind |-> "pause", state |-> "paused"]
    OBVIOUS
  <2>3. DOMAIN change = {"kind", "state"} /\ change.kind = "pause"
    BY <2>2
  <2>4. Control(b, base, change, Single)
    BY <2>1, <2>2 DEF PauseRequest
  <2> QED BY <1>1, <2>3, <2>4, ControlIs
<1>6. CASE SeekRequest(b, Known(b).controlVersion)
  <2>1. PICK change : change = [kind |-> "seek"]
    OBVIOUS
  <2>2. DOMAIN change = {"kind"} /\ change.kind = "seek"
    BY <2>1
  <2>3. Control(b, Known(b).controlVersion, change, Single)
    BY <1>6, <2>1 DEF SeekRequest
  <2> QED BY <1>1, <2>2, <2>3, ControlIs
<1>7. CASE StopRequest(b, 0)
  <2>1. PICK change : change = [kind |-> "stop", state |-> "stopped"]
    OBVIOUS
  <2>2. DOMAIN change = {"kind", "state"} /\ change.kind = "stop"
    BY <2>1
  <2>3. Control(b, 0, change, Stop4)
    BY <1>7, <2>1 DEF StopRequest, Stop4
  <2> QED BY <2>1, <2>2, <2>3, ControlIs
<1> QED BY <1>2, <1>3, <1>4, <1>5, <1>6, <1>7

(* The tasks.                                                              *)
LEMMA UnchangedFewer == ASSUME PInv, UNCHANGED prepares PROVE Fewer
BY SameIsLater DEF Fewer, PInv, Sequenced, Prepares

OnTo(h, x, data, todo) ==
    /\ h \in Running /\ x = handlers[h] /\ Proceeds(h, data)
    /\ todo = Tail(x.todo) /\ Len(x.todo) # 1

Becomes(h, x, data, todo) ==
    \E y : Turn(h, {y}) /\ y.timeline = x.timeline /\ y.data = data /\ y.todo = todo

LEMMA GoesOnTurn ==
    ASSUME PInv, NEW h, NEW x, NEW data, NEW todo, OnTo(h, x, data, todo)
    PROVE  Becomes(h, x, data, todo)
<1>1. DOMAIN x = HandlerFields /\ IsSeq(handlers)
  BY DEF PInv, Sequenced, HandlersOK, HandlerOK, OnTo
<1>2. PICK y : y = Rest(x, todo, data)
  OBVIOUS
<1>3. Turn(h, {y})
  BY <1>1, <1>2, ProceedsTurn DEF OnTo
<1>4. y.todo = todo /\ y.timeline = x.timeline /\ y.data = data
  BY <1>1, <1>2, RestIs
<1> QED BY <1>2, <1>3, <1>4 DEF Becomes

LEMMA EndIs ==
    ASSUME PInv, NEW h \in Running, Ends(h), Fewer, UNCHANGED broadcastVars,
           handlers[h].todo \in Past =>
               contexts[handlers[h].data.room.context].broadcast # handlers[h].timeline
    PROVE  EndStep(h)
BY EndsTurn DEF EndStep, PInv, Sequenced

LEMMA CreateIs == ASSUME PInv, MInv, NEW h \in Running, CreateBroadcast(h) PROVE MakeStep(h)
<1>1. PICK x, data, room : x = handlers[h] /\ data = x.data /\ room = data.room
  OBVIOUS
<1>2. PICK b : b = x.timeline
  OBVIOUS
<1>3. room.broadcast = b
  BY <1>1, <1>2 DEF MInv, RoomHandlerOK, GoodData
<1>4. /\ Todo(h, "createBroadcast") /\ Proceeds(h, data)
      /\ broadcasts' = [broadcasts EXCEPT ![b] = room] /\ active' = Joined(room.participants, b)
      /\ crossed' = [crossed EXCEPT ![b] = Crossing(h)]
      /\ UNCHANGED <<prepares, contexts, rows, started, ended>>
  BY <1>1, <1>3 DEF CreateBroadcast, Continues, prepareVars
<1>5. x.todo = Create3
  BY <1>1, <1>4, Begun, Shaped DEF Create3
<1>6. PICK todo : todo = Tail(x.todo)
  OBVIOUS
<1>7. todo = <<"upsert", "save">> /\ Len(x.todo) # 1
  BY <1>5, <1>6, Tuples DEF Create3
<1>8. Becomes(h, x, data, todo)
  <2>1. OnTo(h, x, data, todo)
    BY <1>1, <1>4, <1>6, <1>7 DEF OnTo
  <2> QED BY <2>1, GoesOnTurn
<1> QED BY <1>1, <1>2, <1>4, <1>5, <1>7, <1>8 DEF MakeStep, GoesOnAs, Becomes

LEMMA UpdateIs ==
    ASSUME PInv, MInv, NEW h \in Running, UpdateBroadcast(h) \/ StopBroadcast(h)
    PROVE  EndStep(h) \/ \E b \in Broadcasts : \E new : ChangeStep(h, b, new)
<1>1. PICK x, data, b : x = handlers[h] /\ data = x.data /\ b = x.timeline
  OBVIOUS
<1>2. PICK new : new = Changed(broadcasts[b], data.change)
  OBVIOUS
<1>3. b \in Broadcasts /\ GoodData(b, data)
  BY <1>1, OfBroadcasts DEF MInv, RoomHandlerOK, GoodData
<1>4. PICK task \in {"update", "stop"} : Todo(h, task) /\ (task = "stop" => StopBroadcast(h))
                                         /\ (task = "update" => UpdateBroadcast(h))
  BY DEF UpdateBroadcast, StopBroadcast
<1>5. x.todo \in {Single, Update3, Stop4} /\ (task = "stop" => x.todo = Stop4)
  <2>1. x.todo \in Shapes /\ Head(x.todo) = task
    BY <1>1, <1>4, Begun
  <2>2. CASE task = "update"
    BY <2>1, <2>2, Shaped DEF Single, Update3
  <2>3. CASE task = "stop"
    BY <2>1, <2>3, Shaped DEF Stop4
  <2> QED BY <1>4, <2>2, <2>3
<1>t. PICK todo : todo = Tail(x.todo)
  OBVIOUS
<1>6. todo \in {<<"supersede", "upsert", "save">>, <<"upsert", "save">>} /\ Len(x.todo) # 1
  <2>1. CASE x.todo = Single
    BY <2>1, <1>t, Tuples DEF Single
  <2>2. CASE x.todo = Update3
    BY <2>2, <1>t, Tuples DEF Update3
  <2>3. CASE x.todo = Stop4
    BY <2>3, <1>t, Tuples DEF Stop4
  <2> QED BY <1>5, <2>1, <2>2, <2>3
<1>7. /\ UNCHANGED <<prepares, contexts, rows, started>>
      /\ \/ /\ IsActive(b) /\ BaseCurrent(b, data.base)
            /\ broadcasts' = [broadcasts EXCEPT ![b] = new]
            /\ crossed' = [crossed EXCEPT ![b] = Crossing(h)]
            /\ Proceeds(h, [data EXCEPT !.room = new])
            /\ \/ UNCHANGED <<active, ended>>
               \/ /\ task = "stop"
                  /\ active' = [d \in Devices |-> IF active[d] = b THEN 0 ELSE active[d]]
                  /\ ended' = ended \cup {b}
         \/ Ends(h) /\ UNCHANGED <<broadcasts, crossed, active, ended>>
  BY <1>1, <1>2, <1>4 DEF UpdateBroadcast, StopBroadcast, prepareVars
<1>8. CASE Ends(h) /\ UNCHANGED <<broadcasts, crossed, active, ended>>
  <2>1. Fewer
    BY <1>7, UnchangedFewer
  <2>2. x.todo \notin Past
    BY <1>5 DEF Past, Single, Update3, Stop4
  <2> QED BY <1>1, <1>7, <1>8, <2>1, <2>2, EndIs DEF broadcastVars
<1>9. CASE ~(Ends(h) /\ UNCHANGED <<broadcasts, crossed, active, ended>>)
  <2>1. PICK data2 : data2 = [data EXCEPT !.room = new]
    OBVIOUS
  <2>2. data2.room = new /\ data2.change = data.change /\ data2.base = data.base
    BY <1>3, <2>1 DEF GoodData
  <2>3. Becomes(h, x, data2, todo)
    <3>1. OnTo(h, x, data2, todo)
      BY <1>1, <1>t, <1>6, <1>7, <1>9, <2>1 DEF OnTo
    <3> QED BY <3>1, GoesOnTurn
  <2>4. \E y : /\ Turn(h, {y}) /\ y.timeline = b /\ y.data.room = new
               /\ y.data.base = data.base /\ y.data.change = data.change
               /\ y.todo \in {<<"supersede", "upsert", "save">>, <<"upsert", "save">>}
    BY <1>1, <1>6, <2>2, <2>3 DEF Becomes
  <2>5. ChangeStep(h, b, new)
    BY <1>1, <1>2, <1>5, <1>7, <1>9, <2>4 DEF ChangeStep
  <2> QED BY <1>3, <2>5
<1> QED BY <1>8, <1>9

LEMMA UpsertIs ==
    ASSUME PInv, MInv, NEW h \in Running, UpsertContext(h) PROVE EndStep(h) \/ CopyStep(h)
<1>1. PICK x, data, room : x = handlers[h] /\ data = x.data /\ room = data.room
  OBVIOUS
<1>2. PICK b : b = x.timeline
  OBVIOUS
<1>3. room.broadcast = b /\ b # 0
  BY <1>1, <1>2, OfBroadcasts DEF MInv, RoomHandlerOK, GoodData
<1>4. /\ Todo(h, "upsert")
      /\ UNCHANGED <<prepares, broadcasts, active, rows, started, ended, crossed>>
      /\ \/ /\ contexts' = [contexts EXCEPT ![room.context] = room] /\ Proceeds(h, data)
         \/ ~MayUse(room.context, b) /\ Ends(h) /\ UNCHANGED contexts
  BY <1>1, <1>3 DEF UpsertContext, Continues, prepareVars
<1>5. x.todo = <<"upsert", "save">>
  BY <1>1, <1>4, Begun, Shaped
<1>6. CASE ~MayUse(room.context, b) /\ Ends(h) /\ UNCHANGED contexts
  <2>1. contexts[room.context].broadcast # b
    BY <1>3, <1>6 DEF MayUse, Found
  <2>2. Fewer
    BY <1>4, UnchangedFewer
  <2>3. EndStep(h)
    BY <1>1, <1>2, <1>4, <1>6, <2>1, <2>2, EndIs DEF broadcastVars
  <2> QED BY <2>3
<1>7. CASE contexts' = [contexts EXCEPT ![room.context] = room] /\ Proceeds(h, data)
  <2>1. PICK todo : todo = Tail(x.todo)
    OBVIOUS
  <2>2. todo = <<"save">> /\ Len(x.todo) # 1
    BY <1>5, <2>1, Tuples
  <2>3. Becomes(h, x, data, todo)
    <3>1. OnTo(h, x, data, todo)
      BY <1>1, <1>4, <1>7, <2>1, <2>2 DEF OnTo
    <3> QED BY <3>1, GoesOnTurn
  <2> QED BY <1>1, <1>4, <1>5, <1>7, <2>2, <2>3 DEF CopyStep, GoesOnAs, Becomes
<1> QED BY <1>4, <1>6, <1>7

LEMMA SaveIs == ASSUME PInv, MInv, NEW h \in Running, SaveContext(h) PROVE SaveStep(h)
<1>1. PICK x, data, room : x = handlers[h] /\ data = x.data /\ room = data.room
  OBVIOUS
<1>2. /\ Todo(h, "save") /\ UNCHANGED <<prepares, broadcasts, active, contexts, started, ended, crossed>>
      /\ rows' = [rows EXCEPT ![room.context] = room] /\ Proceeds(h, data)
  BY <1>1 DEF SaveContext, Continues, prepareVars
<1>3. x.todo = <<"save">>
  BY <1>1, <1>2, Begun, Shaped DEF Alone1
<1>4. Ends(h)
  BY <1>1, <1>2, <1>3, Tuples DEF Proceeds
<1>5. Turn(h, {})
  BY <1>4, EndsTurn DEF PInv, Sequenced
<1> QED BY <1>1, <1>2, <1>3, <1>5 DEF SaveStep

(* The prepares.                                                           *)
(* Another prepare, or none when the start is not allowed.                 *)
Prepared(t, k, data) ==
    /\ \E n : /\ n \notin Prepares /\ Prepares' = Prepares \cup {n}
              /\ prepares'[n].timeline = t /\ prepares'[n].kind = k /\ prepares'[n].data = data
    /\ \A p \in Prepares : SameBut(prepares[p], prepares'[p])

LEMMA CreateShape ==
    ASSUME PInv, NEW h \in Running, NEW t, t = handlers[h].timeline, NEW data, data = handlers[h].data,
           NEW k, NEW context1, NEW targets, NEW required,
           CreatePrepare(h, t, k, context1, targets, required)
    PROVE  /\ handlers[h].todo = Creating
           /\ \/ Ends(h) /\ UNCHANGED prepareVars
              \/ Prepared(t, k, data) /\ \E y : GoesOnAs(h, y) /\ y.todo = <<"send">>
<1>1. PICK x : x = handlers[h]
  OBVIOUS
<1>2. /\ IsSeq(handlers) /\ x.todo = Creating /\ DOMAIN x = HandlerFields
  BY <1>1, Begun, Shaped DEF CreatePrepare
<1>3. CASE ~(Ends(h) /\ UNCHANGED prepareVars)
  <2>1. PICK r : r = [timeline |-> t, kind |-> k, context |-> context1,
                      targets |-> targets, required |-> required, ready |-> {},
                      failed |-> {}, expired |-> FALSE, status |-> "preparing",
                      data |-> data]
    OBVIOUS
  <2>2. PICK n, s : n = Len(prepares) + 1 /\ s = Superseded(PreparingOn(t))
    OBVIOUS
  <2>3. /\ prepares' = Append(s, r)
        /\ handlers' = [handlers EXCEPT ![h].todo = Tail(@), ![h].prepare = n]
    BY <1>1, <1>3, <2>1, <2>2 DEF CreatePrepare
  <2>4. /\ IsSeq(s) /\ Len(s) = Len(prepares)
        /\ \A p \in Prepares : SameBut(prepares[p], s[p])
    BY <2>2, SupersededFewer
  <2>5. /\ Len(s) \in Nat /\ DOMAIN s = 1 .. Len(s)
    BY <2>4, SeqFacts
  <2>6. /\ DOMAIN prepares' = 1 .. Len(s) + 1 /\ \A p \in 1 .. Len(s) : prepares'[p] = s[p]
        /\ prepares'[Len(s) + 1] = r
    BY <2>3, <2>4, Appended
  <2>7. Prepares = 1 .. Len(s) /\ n = Len(s) + 1
    BY <2>2, <2>4, Indices DEF PInv
  <2>8. n \notin Prepares /\ Prepares' = Prepares \cup {n} /\ prepares'[n] = r
    BY <2>5, <2>6, <2>7 DEF Prepares
  <2>9. \A p \in Prepares : SameBut(prepares[p], prepares'[p])
    BY <2>4, <2>6, <2>7
  <2>10. r.timeline = t /\ r.kind = k /\ r.data = data
    BY <2>1
  <2>11. PICK y : y = [x EXCEPT !.todo = <<"send">>, !.prepare = n]
    OBVIOUS
  <2>12. Tail(x.todo) = <<"send">>
    BY <1>2, Tuples DEF Creating
  <2>13. handlers' = [handlers EXCEPT ![h] = y]
    <3>1. handlers' = [handlers EXCEPT ![h] = [x EXCEPT !.todo = Tail(x.todo), !.prepare = n]]
      BY <1>1, <2>3 DEF Running
    <3> QED BY <2>11, <2>12, <3>1
  <2>14. Turn(h, {y})
    BY <1>2, <2>13, ReplacesTurn
  <2>15. y.timeline = t /\ y.data = data /\ y.todo = <<"send">>
    BY <1>1, <1>2, <2>11 DEF HandlerFields
  <2>16. Prepared(t, k, data)
    BY <2>8, <2>9, <2>10 DEF Prepared
  <2>17. GoesOnAs(h, y) /\ y.todo = <<"send">>
    BY <2>14, <2>15 DEF GoesOnAs
  <2> QED BY <1>1, <1>2, <2>16, <2>17
<1> QED BY <1>1, <1>2, <1>3

LEMMA PrepareIs ==
    ASSUME PInv, NEW h \in Running, PrepareBroadcast(h) PROVE EndStep(h) \/ PrepareStep(h)
<1>1. PICK t, data : t = handlers[h].timeline /\ data = handlers[h].data
  OBVIOUS
<1>2. PICK k, context1, targets, required : /\ k = data.change.kind
                                            /\ CreatePrepare(h, t, k, context1, targets, required)
  BY <1>1 DEF PrepareBroadcast
<1>3. UNCHANGED broadcastVars
  BY DEF PrepareBroadcast
<1>4. handlers[h].todo = Creating
  BY <1>1, <1>2, CreateShape
<1>5. CASE Ends(h) /\ UNCHANGED prepareVars
  <2>1. Fewer
    BY <1>5, UnchangedFewer DEF prepareVars
  <2>2. handlers[h].todo \notin Past
    BY <1>4, Creations
  <2> QED BY <1>3, <1>5, <2>1, <2>2, EndIs
<1>6. CASE Prepared(t, k, data) /\ \E y : GoesOnAs(h, y) /\ y.todo = <<"send">>
  BY <1>1, <1>2, <1>3, <1>4, <1>6 DEF PrepareStep, Prepared
<1> QED BY <1>1, <1>2, <1>5, <1>6, CreateShape

LEMMA CommitIs ==
    ASSUME PInv, NEW h \in Running, CommitBroadcast(h), UNCHANGED kind
    PROVE  EndStep(h) \/ ClaimStep(h)
<1>1. PICK x, p, data : x = handlers[h] /\ p = x.prepare /\ data = x.data
  OBVIOUS
<1>2. PICK todo : /\ todo = IF data.change.kind = "start" THEN Create3 ELSE Update3
                  /\ ClaimPrepare(h, todo)
  <2>1. PICK todo : /\ todo = <<IF data.change.kind = "start" THEN "createBroadcast"
                                ELSE "update", "upsert", "save">>
                    /\ ClaimPrepare(h, todo)
    BY <1>1 DEF CommitBroadcast
  <2> QED BY <2>1 DEF Create3, Update3
<1>3. UNCHANGED broadcastVars /\ UNCHANGED started
  BY DEF CommitBroadcast, broadcastVars
<1>4. todo \in Superseding \cup Plain
  BY <1>2 DEF Create3, Update3, Plain
<1>5. Fewer
  BY <1>2, <1>3, <1>4, ClaimKeeps
<1>6. /\ IsSeq(handlers) /\ DOMAIN x = HandlerFields /\ x.todo = <<"claim">> /\ p \in Prepares
  BY <1>1, <1>2, Begun DEF ClaimPrepare
<1>7. CASE Ends(h)
  <2>1. x.todo \notin Past
    BY <1>6 DEF Past
  <2> QED BY <1>1, <1>3, <1>5, <1>7, <2>1, EndIs
<1>8. CASE ~Ends(h)
  <2>1. /\ Alive(p) /\ prepares' = [prepares EXCEPT ![p] = Over(@, "committed")]
        /\ handlers' = [handlers EXCEPT ![h].todo = todo]
    BY <1>1, <1>2, <1>8 DEF ClaimPrepare, FinishPrepare, Alive
  <2>2. PICK q : q = Over(prepares[p], "committed")
    OBVIOUS
  <2>3. q.status = "committed"
    BY <1>6, <2>2, OverIs DEF PInv, PreparesOK
  <2>4. prepares'[p] = q
    BY <1>6, <2>1, <2>2 DEF Prepares
  <2>5. ~Alive(p)'
    BY <2>3, <2>4 DEF Alive
  <2>6. PICK y : y = Rest(x, todo, data)
    OBVIOUS
  <2>7. Turn(h, {y})
    BY <1>1, <1>6, <2>1, <2>6, RestTurn
  <2>8. y.timeline = x.timeline /\ y.data = data /\ y.todo = todo
    BY <1>6, <2>6, RestIs
  <2>9. ClaimStep(h)
    BY <1>1, <1>2, <1>3, <1>5, <1>6, <2>1, <2>5, <2>7, <2>8 DEF ClaimStep, GoesOnAs
  <2> QED BY <2>9
<1> QED BY <1>7, <1>8

LEMMA SupersedeIs ==
    ASSUME PInv, NEW h \in Running, Supersede(h), Fewer, UNCHANGED broadcastVars
    PROVE  SupersedeStep(h)
<1>1. PICK x, data, todo : x = handlers[h] /\ data = x.data /\ todo = Tail(x.todo)
  OBVIOUS
<1>2. Todo(h, "supersede") /\ Proceeds(h, data)
  BY <1>1 DEF Supersede, Continues
<1>3. x.todo \in {<<"supersede", "upsert", "save">>,
                  <<"supersede", "saveContext", "saveQueue">>, <<"supersede", "savePlayback">>}
  BY <1>1, <1>2, Begun, Shaped
<1>4. /\ Len(x.todo) # 1
      /\ todo \in {<<"upsert", "save">>, <<"saveContext", "saveQueue">>, <<"savePlayback">>}
      /\ todo \in Past <=> x.todo \in Past
  <2>1. CASE x.todo = <<"supersede", "upsert", "save">>
    BY <1>1, <2>1, Tuples DEF Past
  <2>2. CASE x.todo = <<"supersede", "saveContext", "saveQueue">>
    <3>1. todo = <<"saveContext", "saveQueue">> /\ Len(x.todo) # 1
      BY <1>1, <2>2, Tuples
    <3> QED BY <2>2, <3>1 DEF Past
  <2>3. CASE x.todo = <<"supersede", "savePlayback">>
    <3>1. todo = <<"savePlayback">> /\ Len(x.todo) # 1
      BY <1>1, <2>3, Tuples
    <3> QED BY <2>3, <3>1 DEF Past
  <2> QED BY <1>3, <2>1, <2>2, <2>3
<1>5. todo \notin {<<"save">>, <<"claim">>, Creating, Create3, Stop4}
  BY <1>4 DEF Creating, Create3, Stop4
<1>6. Becomes(h, x, data, todo)
  <2>1. OnTo(h, x, data, todo)
    BY <1>1, <1>2, <1>4 DEF OnTo
  <2> QED BY <2>1, GoesOnTurn
<1> QED BY <1>1, <1>4, <1>5, <1>6 DEF SupersedeStep, GoesOnAs, Becomes

LEMMA AnyPrepareIs ==
    ASSUME PInv, UNCHANGED kind, UNCHANGED broadcastVars, NextPrepares PROVE BroadcastStep
<1>1. UNCHANGED started
  BY DEF broadcastVars
<1>2. ASSUME NEW h \in Running, SendPrepare(h) PROVE BroadcastStep
  <2>1. Fewer
    BY <1>1, <1>2, SendKeeps
  <2>2. Len(handlers[h].todo) = 1 /\ handlers[h].todo \in Deciding
    BY <1>2, Begun DEF SendPrepare
  <2>3. Ends(h)
    BY <1>2, <2>2 DEF SendPrepare, Continues, Proceeds
  <2>4. EndStep(h)
    BY <2>1, <2>2, <2>3, EndIs, Creations
  <2> QED BY <2>4 DEF BroadcastStep
<1>3. ASSUME NEW h \in Running, EndPrepare(h) PROVE BroadcastStep
  <2>1. Fewer
    BY <1>1, <1>3, EndPrepareKeeps
  <2>2. handlers[h].todo \in Deciding /\ Ends(h)
    BY <1>3, Begun DEF EndPrepare
  <2>3. EndStep(h)
    BY <2>1, <2>2, EndIs, Creations
  <2> QED BY <2>3 DEF BroadcastStep
<1>4. ASSUME NEW h \in Running, Supersede(h) PROVE BroadcastStep
  <2>1. Fewer
    BY <1>1, <1>4, SupersedeKeeps
  <2> QED BY <1>4, <2>1, SupersedeIs DEF BroadcastStep
<1>5. ASSUME NEW p \in Prepares, Alive(p), NEW data, NEW t, t = prepares[p].timeline,
             data = prepares[p].data,
             NEW todo \in {<<"claim">>, <<"abort">>, <<"timeOut">>}, Fewer, Begin(t, p, data, todo)
      PROVE  BroadcastStep
  <2>1. PICK x : x = Handler(t, p, data, todo)
    OBVIOUS
  <2>2. TakesOn(x) /\ x.timeline = t /\ x.prepare = p /\ x.data = data /\ x.todo = todo
    BY <1>5, <2>1, BeginsTakesOn, HandlerIs DEF PInv, Sequenced
  <2>3. todo \in Deciding
    BY DEF Deciding
  <2>4. DecideStep(p)
    BY <1>5, <2>2, <2>3 DEF DecideStep
  <2> QED BY <2>4 DEF BroadcastStep
<1>6. ASSUME UNCHANGED handlers, Fewer PROVE BroadcastStep
  BY <1>6 DEF BroadcastStep, TimeStep
<1>7. ASSUME NEW p \in Prepares, NEW d, NEW ready, PlaybackReady(p, d, ready) PROVE BroadcastStep
  <2>1. Fewer /\ Alive(p)
    BY <1>1, <1>7, ReadyKeeps DEF PlaybackReady, Alive
  <2>2. PICK q, todo : q = Answered(prepares[p], d, ready) /\ todo = ReadyTodo(q, d, ready)
    OBVIOUS
  <2>3. IF todo = <<>> THEN UNCHANGED handlers ELSE Begin(q.timeline, p, q.data, todo)
    BY <1>7, <2>2 DEF PlaybackReady
  <2>4. q.timeline = prepares[p].timeline /\ q.data = prepares[p].data
    BY <2>2, AnsweredIs DEF SameBut, PInv, PreparesOK
  <2>5. PICK t, data : t = prepares[p].timeline /\ data = prepares[p].data
    OBVIOUS
  <2>6. todo \in {<<"claim">>, <<"abort">>, <<>>}
    BY <2>2 DEF ReadyTodo
  <2>7. CASE todo = <<>>
    BY <1>6, <2>1, <2>3, <2>7
  <2>8. CASE todo # <<>>
    <3>1. Begin(t, p, data, todo)
      BY <2>3, <2>4, <2>5, <2>8
    <3>2. todo \in {<<"claim">>, <<"abort">>, <<"timeOut">>}
      BY <2>6, <2>8
    <3> QED BY <1>5, <2>1, <2>5, <3>1, <3>2
  <2> QED BY <2>7, <2>8
<1>8. ASSUME NEW p \in Prepares, Expires(p) PROVE BroadcastStep
  <2>1. Fewer /\ UNCHANGED handlers
    BY <1>1, <1>8, ExpiresKeeps DEF Expires
  <2> QED BY <1>6, <2>1
<1>9. ASSUME NEW p \in Prepares, ExpirePrepare(p) PROVE BroadcastStep
  <2>1. Fewer
    BY <1>1, <1>9, ExpirePrepareKeeps
  <2>2. PICK todo \in {<<"claim">>, <<"abort">>, <<"timeOut">>} :
            todo = IF ReadyToCommit(prepares[p]) THEN <<"claim">> ELSE <<"timeOut">>
    OBVIOUS
  <2>3. PICK t, data : t = prepares[p].timeline /\ data = prepares[p].data
    OBVIOUS
  <2>4. IF Alive(p) THEN Begin(t, p, data, todo) ELSE UNCHANGED handlers
    BY <1>9, <2>2, <2>3 DEF ExpirePrepare, Alive
  <2>5. CASE Alive(p)
    BY <1>5, <2>1, <2>3, <2>4, <2>5
  <2>6. CASE ~Alive(p)
    BY <1>6, <2>1, <2>4, <2>6
  <2> QED BY <2>5, <2>6
<1> QED BY <1>2, <1>3, <1>4, <1>7, <1>8, <1>9 DEF NextPrepares

LEMMA BroadcastsAre ==
    ASSUME PInv, MInv, UNCHANGED kind, NextBroadcasts PROVE BroadcastStep
<1>1. ASSUME NEW c \in Contexts, NEW members \in Groups, NEW playing, NEW twoPhase,
             StartRequest(c, members, Owner, playing, MaxSongs, twoPhase)
             /\ UNCHANGED <<prepareVars, outdated>>
      PROVE  BroadcastStep
  BY <1>1, BroadcastsAssumption, StartIs DEF prepareVars, BroadcastStep
<1>2. ASSUME NEW b \in Broadcasts,
             /\ \/ \E sync \in Syncs : QueueSyncRequest(b, sync[1], sync[2])
                \/ \E index \in 0 .. MaxSongs, twoPhase \in BOOLEAN :
                       PlayItemRequest(b, index, twoPhase)
                \/ \E twoPhase \in BOOLEAN : PlayRequest(b, 0, twoPhase)
                \/ \E base \in {0, Known(b).controlVersion} : PauseRequest(b, base)
                \/ SeekRequest(b, Known(b).controlVersion)
                \/ StopRequest(b, 0)
             /\ UNCHANGED <<prepareVars, outdated>>
      PROVE  BroadcastStep
  <2>1. CommandStep(b)
    BY <1>2, RequestIs DEF prepareVars
  <2> QED BY <2>1 DEF BroadcastStep
<1>3. ASSUME NEW h \in Running,
             \/ CreateBroadcast(h) \/ UpdateBroadcast(h) \/ StopBroadcast(h)
             \/ UpsertContext(h) \/ SaveContext(h)
             \/ PrepareBroadcast(h) \/ CommitBroadcast(h)
      PROVE  BroadcastStep
  <2>1. \/ PrepareStep(h) \/ ClaimStep(h) \/ EndStep(h)
        \/ MakeStep(h) \/ CopyStep(h) \/ SaveStep(h)
        \/ \E b \in Broadcasts : \E new : ChangeStep(h, b, new)
    BY <1>3, CreateIs, UpdateIs, UpsertIs, SaveIs, PrepareIs, CommitIs
  <2> QED BY <2>1 DEF BroadcastStep
<1> QED BY <1>1, <1>2, <1>3 DEF NextBroadcasts

-----------------------------------------------------------------------------
(***************************************************************************)
(* What is held of broadcasts anywhere, and what commands carry: a song is *)
(* in its queue, and the base of a command was the version at some time.   *)
(***************************************************************************)
HeldData(t, data) ==
    \/ \E h \in Running : handlers[h].timeline = t /\ handlers[h].data = data
    \/ \E p \in Prepares : Alive(p) /\ prepares[p].timeline = t /\ prepares[p].data = data

HeldRoom(r) ==
    \/ \E b \in Broadcasts : broadcasts[b] = r
    \/ \E c \in Contexts : contexts[c] = r \/ rows[c] = r
    \/ \E t, data : HeldData(t, data) /\ data.room = r

RoomOK(r) ==
    /\ r.index < r.queue \/ r.index = 0
    /\ r.controlVersion \in Nat /\ (r.broadcast # 0 => r.controlVersion # 0)
    /\ r.participants \subseteq Devices

ChangeOK(t, data) ==
    /\ data.base \in Nat
    /\ "queue" \in DOMAIN data.change =>
           /\ "index" \in DOMAIN data.change
           /\ data.change.index < data.change.queue \/ data.change.index = 0
    /\ "index" \in DOMAIN data.change /\ "queue" \notin DOMAIN data.change =>
           /\ data.base # 0 /\ data.base <= broadcasts[t].controlVersion
           /\ data.base = broadcasts[t].controlVersion => data.change.index < broadcasts[t].queue

SongsInv ==
    /\ \A r : HeldRoom(r) => RoomOK(r)
    /\ \A r, s : HeldRoom(r) /\ HeldRoom(s) /\ r.broadcast = s.broadcast /\ r.broadcast # 0 =>
                     r.context = s.context
    /\ \A t, data : HeldData(t, data) => ChangeOK(t, data)
    /\ \A b \in Broadcasts : broadcasts[b].broadcast = 0 => broadcasts[b].controlVersion = 0

LEMMA HeldGood ==
    ASSUME MInv
    PROVE  /\ \A t, data : HeldData(t, data) => GoodData(t, data)
           /\ \A r : HeldRoom(r) => GoodRoom(r)
<1>1. \A t, data : HeldData(t, data) => GoodData(t, data)
  BY DEF HeldData, MInv, RoomHandlerOK
<1>2. \A r : HeldRoom(r) => GoodRoom(r)
  BY <1>1 DEF HeldRoom, GoodData, MInv, Memory, Rooms1, Copies
<1> QED BY <1>1, <1>2

(* A step adds the data of one handler at most.                            *)
OldPrepares ==
    \A p \in Prepares' : Alive(p)' => HeldData(prepares'[p].timeline, prepares'[p].data)

Adds(t, data) == \A u, d : HeldData(u, d)' => HeldData(u, d) \/ (u = t /\ d = data)

LEMMA FewerOld == ASSUME Fewer PROVE OldPrepares
BY DEF Fewer, Later, OldPrepares, HeldData, Alive

LEMMA UnchangedOld == ASSUME UNCHANGED prepares PROVE OldPrepares
BY DEF OldPrepares, HeldData, Alive, Prepares

LEMMA TurnAdds ==
    ASSUME OldPrepares, NEW h, NEW y, Turn(h, {y}) PROVE Adds(y.timeline, y.data)
BY TurnFromOld DEF FromOld, OldPrepares, Adds, HeldData

LEMMA TakesAdds ==
    ASSUME OldPrepares, NEW x, TakesOn(x) PROVE Adds(x.timeline, x.data)
BY TakesFromOld DEF FromOld, OldPrepares, Adds, HeldData

LEMMA EndAdds ==
    ASSUME OldPrepares, NEW h, Turn(h, {}) PROVE \A u, d : HeldData(u, d)' => HeldData(u, d)
BY TurnFromOld DEF FromOld, OldPrepares, HeldData

LEMMA SameAdds ==
    ASSUME OldPrepares, UNCHANGED handlers PROVE \A u, d : HeldData(u, d)' => HeldData(u, d)
BY DEF Running, OldPrepares, HeldData

(* Steps that add nothing new.                                             *)
AddsNothing == \A u, d : HeldData(u, d)' => HeldData(u, d)

LEMMA GoesOnAdds ==
    ASSUME OldPrepares, NEW h \in Running, NEW y, GoesOnAs(h, y) PROVE AddsNothing
<1>1. Adds(y.timeline, y.data) /\ HeldData(y.timeline, y.data)
  BY TurnAdds DEF GoesOnAs, HeldData
<1> QED BY <1>1 DEF Adds, AddsNothing

LEMMA PrepareOld == ASSUME NEW h \in Running, PrepareStep(h) PROVE OldPrepares
<1>1. PICK n : /\ Prepares' = Prepares \cup {n}
               /\ prepares'[n].timeline = handlers[h].timeline
               /\ prepares'[n].data = handlers[h].data
  BY DEF PrepareStep
<1>2. \A p \in Prepares : SameBut(prepares[p], prepares'[p])
  BY DEF PrepareStep
<1>3. HeldData(handlers[h].timeline, handlers[h].data)
  BY DEF HeldData
<1> QED BY <1>1, <1>2, <1>3 DEF OldPrepares, HeldData, SameBut, Alive

QuietStep ==
    \/ TimeStep
    \/ \E p \in Prepares : DecideStep(p)
    \/ \E h \in Running : PrepareStep(h) \/ ClaimStep(h) \/ SupersedeStep(h) \/ EndStep(h)

LEMMA QuietAdds == ASSUME QuietStep PROVE AddsNothing /\ UNCHANGED broadcastVars
<1>1. CASE TimeStep
  BY <1>1, FewerOld, SameAdds DEF TimeStep, AddsNothing
<1>2. ASSUME NEW p \in Prepares, DecideStep(p) PROVE AddsNothing /\ UNCHANGED broadcastVars
  <2>1. PICK x : /\ TakesOn(x) /\ x.timeline = prepares[p].timeline
                 /\ x.data = prepares[p].data
    BY <1>2 DEF DecideStep
  <2>2. Adds(x.timeline, x.data) /\ HeldData(x.timeline, x.data)
    BY <1>2, <2>1, FewerOld, TakesAdds DEF DecideStep, HeldData
  <2> QED BY <1>2, <2>2 DEF Adds, AddsNothing, DecideStep
<1>3. ASSUME NEW h \in Running, PrepareStep(h) PROVE AddsNothing /\ UNCHANGED broadcastVars
  BY <1>3, PrepareOld, GoesOnAdds DEF PrepareStep
<1>4. ASSUME NEW h \in Running, ClaimStep(h) PROVE AddsNothing /\ UNCHANGED broadcastVars
  BY <1>4, FewerOld, GoesOnAdds DEF ClaimStep
<1>5. ASSUME NEW h \in Running, SupersedeStep(h) PROVE AddsNothing /\ UNCHANGED broadcastVars
  BY <1>5, FewerOld, GoesOnAdds DEF SupersedeStep
<1>6. ASSUME NEW h \in Running, EndStep(h) PROVE AddsNothing /\ UNCHANGED broadcastVars
  BY <1>6, FewerOld, EndAdds DEF EndStep, AddsNothing
<1> QED BY <1>1, <1>2, <1>3, <1>4, <1>5, <1>6 DEF QuietStep

(* No room, or one, that was not held before.                              *)
NewRoom(r) == \A s : HeldRoom(s)' => HeldRoom(s) \/ s = r

LEMMA NoNewRoom ==
    ASSUME NEW t, NEW data, Adds(t, data) \/ AddsNothing, NEW r, AddsNothing \/ data.room = r,
           \A b \in Broadcasts : HeldRoom(broadcasts'[b]) \/ broadcasts'[b] = r,
           \A c \in Contexts : HeldRoom(contexts'[c]) /\ HeldRoom(rows'[c])
    PROVE  NewRoom(r)
<1>1. Broadcasts' = Broadcasts
  BY DEF Broadcasts
<1>2. \A u, d : HeldData(u, d) => HeldRoom(d.room)
  BY DEF HeldRoom
<1>3. \A u, d : HeldData(u, d)' => HeldRoom(d.room) \/ d.room = r
  BY <1>2 DEF Adds, AddsNothing
<1> QED BY <1>1, <1>3 DEF HeldRoom, NewRoom

LEMMA RoomsKeep ==
    ASSUME SongsInv, NEW r, NewRoom(r), HeldRoom(r) \/ RoomOK(r),
           \A s : HeldRoom(s) /\ s.broadcast = r.broadcast /\ s.broadcast # 0 => s.context = r.context
    PROVE  /\ (\A s : HeldRoom(s) => RoomOK(s))'
           /\ (\A q, s : HeldRoom(q) /\ HeldRoom(s) /\ q.broadcast = s.broadcast /\ q.broadcast # 0 =>
                     q.context = s.context)'
<1>1. \A s : HeldRoom(s)' => HeldRoom(s) \/ s = r
  BY DEF NewRoom
<1>2. \A s : HeldRoom(s)' => RoomOK(s)
  BY <1>1 DEF SongsInv
<1>3. \A s : RoomOK(s)' <=> RoomOK(s)
  BY DEF RoomOK
<1>4. \A q, s : HeldRoom(q)' /\ HeldRoom(s)' /\ q.broadcast = s.broadcast /\ q.broadcast # 0 =>
                     q.context = s.context
  BY <1>1 DEF SongsInv
<1> QED BY <1>2, <1>3, <1>4

(* A broadcast stays as it is, has another version, or is put into memory. *)
Versions ==
    \A b \in Broadcasts :
        \/ broadcasts'[b] = broadcasts[b]
        \/ broadcasts'[b].controlVersion = broadcasts[b].controlVersion + 1
        \/ broadcasts[b].broadcast = 0

LEMMA ChangesKeep ==
    ASSUME MInv, SongsInv, NEW t, NEW data, Adds(t, data) \/ AddsNothing,
           AddsNothing \/ ChangeOK(t, data)', Versions
    PROVE  \A u, d : HeldData(u, d)' => ChangeOK(u, d)'
<1>1. ASSUME NEW u, NEW d, HeldData(u, d) PROVE ChangeOK(u, d)'
  <2>1. ChangeOK(u, d) /\ u \in Broadcasts
    BY <1>1, HeldGood, OfBroadcasts DEF SongsInv, MInv, GoodData
  <2>2. HeldRoom(broadcasts[u])
    BY <2>1 DEF HeldRoom
  <2>3. broadcasts[u].controlVersion \in Nat
    BY <2>2 DEF SongsInv, RoomOK
  <2>4. CASE broadcasts'[u] = broadcasts[u]
    BY <2>1, <2>4 DEF ChangeOK
  <2>5. CASE broadcasts'[u].controlVersion = broadcasts[u].controlVersion + 1
    BY <2>1, <2>3, <2>5 DEF ChangeOK
  <2>6. CASE broadcasts[u].broadcast = 0
    <3>1. broadcasts[u].controlVersion = 0
      BY <2>1, <2>6 DEF SongsInv
    <3> QED BY <2>1, <3>1 DEF ChangeOK
  <2> QED BY <2>1, <2>4, <2>5, <2>6 DEF Versions
<1> QED BY <1>1 DEF Adds, AddsNothing

LEMMA QuietSongs == ASSUME MInv, SongsInv, QuietStep PROVE SongsInv'
<1>0. AddsNothing /\ UNCHANGED broadcastVars
  BY QuietAdds
<1>1. UNCHANGED <<broadcasts, contexts, rows>> /\ Broadcasts' = Broadcasts
  BY <1>0 DEF broadcastVars, Broadcasts
<1>2. \A s : HeldRoom(s)' => HeldRoom(s)
  <2>1. \A u, d : HeldData(u, d)' => HeldData(u, d)
    BY <1>0 DEF AddsNothing
  <2> QED BY <1>1, <2>1 DEF HeldRoom
<1>3. \A s : RoomOK(s)' <=> RoomOK(s)
  BY DEF RoomOK
<1>4. Versions
  BY <1>1 DEF Versions
<1>5. \A u, d : HeldData(u, d)' => ChangeOK(u, d)'
  BY <1>0, <1>4, ChangesKeep
<1> QED BY <1>1, <1>2, <1>3, <1>5 DEF SongsInv

LEMMA StartSongs == ASSUME MInv, SongsInv, StartStep PROVE SongsInv'
<1>0. started \in Nat
  BY OfBroadcasts DEF MInv
<1>1. PICK x : /\ TakesOn(x) /\ x.timeline = started + 1
               /\ x.data.change = [kind |-> "start"] /\ x.data.base = 0
               /\ x.data.room.broadcast = started + 1 /\ x.data.room.index = 0
               /\ x.data.room.controlVersion = 1 /\ x.data.room.participants \subseteq Devices
  BY DEF StartStep
<1>2. PICK t, data, r : t = x.timeline /\ data = x.data /\ r = data.room
  OBVIOUS
<1>3. UNCHANGED <<prepares, broadcasts, contexts, rows>> /\ Broadcasts' = Broadcasts
  BY DEF StartStep, Broadcasts
<1>4. Adds(t, data)
  BY <1>1, <1>2, <1>3, UnchangedOld, TakesAdds
<1>5. RoomOK(r)
  BY <1>0, <1>1, <1>2 DEF RoomOK
<1>6. \A s : HeldRoom(s) => s.broadcast # r.broadcast
  <2>1. \A s : HeldRoom(s) => s.broadcast \in 0 .. started
    BY HeldGood DEF GoodRoom
  <2>2. r.broadcast = started + 1
    BY <1>1, <1>2
  <2> QED BY <1>0, <2>1, <2>2
<1>7. NewRoom(r)
  <2>1. /\ \A b \in Broadcasts : HeldRoom(broadcasts'[b])
        /\ \A c \in Contexts : HeldRoom(contexts'[c]) /\ HeldRoom(rows'[c])
    BY <1>3 DEF HeldRoom
  <2> QED BY <1>2, <1>4, <2>1, NoNewRoom
<1>8. ChangeOK(t, data)'
  <2>1. data.base = 0 /\ DOMAIN data.change = {"kind"}
    BY <1>1, <1>2
  <2> QED BY <2>1 DEF ChangeOK
<1>9. Versions
  BY <1>3 DEF Versions
<1>10. \A u, d : HeldData(u, d)' => ChangeOK(u, d)'
  BY <1>4, <1>8, <1>9, ChangesKeep
<1> QED BY <1>3, <1>5, <1>6, <1>7, <1>10, RoomsKeep DEF SongsInv

(* What a request gets is held already; its copy is with the context.      *)
LEMMA GotIs ==
    ASSUME MInv, NEW b \in Broadcasts, GetBroadcast(b), NEW r, r = Known(b)
    PROVE  /\ HeldRoom(r) /\ r.broadcast = b /\ broadcasts'[b] = r
           /\ \A a \in Broadcasts : broadcasts'[a] = IF a = b THEN r ELSE broadcasts[a]
           /\ \/ broadcasts[b].broadcast = b /\ UNCHANGED <<broadcasts, active, contexts>>
              \/ /\ broadcasts[b].broadcast = 0
                 /\ \E c \in Contexts :
                       /\ c = r.context /\ rows[c] = r
                       /\ \A a \in Contexts : contexts'[a] = IF a = c THEN r ELSE contexts[a]
                 /\ active' = IF r.state = "stopped" THEN active ELSE Joined(r.participants, b)
<1>0. b # 0 /\ r.broadcast = b
  BY OfBroadcasts DEF MInv, GetBroadcast
<1>1. CASE broadcasts[b].broadcast # 0
  <2>1. broadcasts[b].broadcast = b /\ r = broadcasts[b] /\ UNCHANGED <<broadcasts, active, contexts>>
    BY <1>1 DEF Known, GetBroadcast, MInv, Memory, Rooms1
  <2> QED BY <1>0, <2>1 DEF HeldRoom
<1>2. CASE broadcasts[b].broadcast = 0
  <2>1. PICK c \in Contexts : r = rows[c] /\ r.context = c
    BY <1>0, <1>2, Restored DEF MInv
  <2>2. /\ broadcasts' = [broadcasts EXCEPT ![b] = r] /\ contexts' = [contexts EXCEPT ![c] = r]
        /\ active' = IF r.state = "stopped" THEN active ELSE Joined(r.participants, b)
    BY <1>2, <2>1 DEF GetBroadcast
  <2>3. /\ \A a \in Broadcasts : broadcasts'[a] = IF a = b THEN r ELSE broadcasts[a]
        /\ \A a \in Contexts : contexts'[a] = IF a = c THEN r ELSE contexts[a]
    BY <2>2 DEF MInv, Memory, Rooms1, Copies
  <2> QED BY <1>0, <1>2, <2>1, <2>2, <2>3 DEF HeldRoom
<1> QED BY <1>1, <1>2

LEMMA CommandSongs == ASSUME MInv, SongsInv, NEW b \in Broadcasts, CommandStep(b) PROVE SongsInv'
<1>1. PICK x : TakesOn(x) /\ x.timeline = b /\ x.data.room = Known(b) /\ Checked(Known(b), x.data)
  BY DEF CommandStep
<1>2. PICK data, r : data = x.data /\ r = Known(b)
  OBVIOUS
<1>3. UNCHANGED <<prepares, rows>> /\ Broadcasts' = Broadcasts
  BY DEF CommandStep, Broadcasts
<1>4. /\ HeldRoom(r) /\ r.broadcast = b /\ broadcasts'[b] = r
      /\ \A a \in Broadcasts : broadcasts'[a] = IF a = b THEN r ELSE broadcasts[a]
      /\ \/ broadcasts[b].broadcast = b /\ UNCHANGED <<broadcasts, active, contexts>>
         \/ /\ broadcasts[b].broadcast = 0
            /\ \E c \in Contexts : \A a \in Contexts : contexts'[a] = IF a = c THEN r ELSE contexts[a]
  BY <1>2, GotIs DEF CommandStep
<1>5. b # 0
  BY OfBroadcasts DEF MInv
<1>6. Adds(b, data)
  BY <1>1, <1>2, <1>3, UnchangedOld, TakesAdds
<1>7. NewRoom(r)
  <2>1. /\ \A a \in Broadcasts : HeldRoom(broadcasts'[a])
        /\ \A c \in Contexts : HeldRoom(contexts'[c]) /\ HeldRoom(rows'[c])
    <3>1. /\ \A a \in Broadcasts : HeldRoom(broadcasts[a])
          /\ \A c \in Contexts : HeldRoom(contexts[c]) /\ HeldRoom(rows[c])
      BY DEF HeldRoom
    <3> QED BY <1>3, <1>4, <3>1
  <2> QED BY <1>1, <1>2, <1>6, <2>1, NoNewRoom
<1>8. \A s : HeldRoom(s) /\ s.broadcast = r.broadcast /\ s.broadcast # 0 => s.context = r.context
  BY <1>4 DEF SongsInv
<1>9. RoomOK(r)
  BY <1>4 DEF SongsInv
<1>10. ChangeOK(b, data)'
  <2>1. Checked(r, data) /\ broadcasts'[b] = r /\ r.controlVersion \in Nat /\ r.controlVersion # 0
    BY <1>1, <1>2, <1>4, <1>5, <1>9 DEF RoomOK
  <2> QED BY <2>1 DEF Checked, ChangeOK
<1>11. Versions
  BY <1>4 DEF Versions
<1>12. \A u, d : HeldData(u, d)' => ChangeOK(u, d)'
  BY <1>6, <1>10, <1>11, ChangesKeep
<1>13. \A a \in Broadcasts : broadcasts'[a].broadcast = 0 => broadcasts'[a].controlVersion = 0
  BY <1>4, <1>5 DEF SongsInv
<1> QED BY <1>3, <1>7, <1>8, <1>9, <1>12, <1>13, RoomsKeep DEF SongsInv

(* Steps that put what a handler holds into one place.                     *)
LEMMA HeldPut ==
    ASSUME MInv, SongsInv, AddsNothing, NEW r, HeldRoom(r), r.broadcast # 0,
           \A b \in Broadcasts : \/ broadcasts'[b] = broadcasts[b]
                                 \/ broadcasts[b].broadcast = 0 /\ broadcasts'[b] = r,
           \A c \in Contexts : /\ contexts'[c] \in {contexts[c], r}
                               /\ rows'[c] \in {rows[c], r}
    PROVE  SongsInv'
<1>1. Broadcasts' = Broadcasts
  BY DEF Broadcasts
<1>2. /\ \A b \in Broadcasts : HeldRoom(broadcasts'[b])
      /\ \A c \in Contexts : HeldRoom(contexts'[c]) /\ HeldRoom(rows'[c])
  <2>1. /\ \A b \in Broadcasts : HeldRoom(broadcasts[b])
        /\ \A c \in Contexts : HeldRoom(contexts[c]) /\ HeldRoom(rows[c])
    BY DEF HeldRoom
  <2> QED BY <2>1
<1>3. NewRoom(r)
  BY <1>2, NoNewRoom
<1>4. \A s : HeldRoom(s) /\ s.broadcast = r.broadcast /\ s.broadcast # 0 => s.context = r.context
  BY DEF SongsInv
<1>5. Versions
  BY DEF Versions
<1>6. \A u, d : HeldData(u, d)' => ChangeOK(u, d)'
  BY <1>5, ChangesKeep
<1>7. \A a \in Broadcasts : broadcasts'[a].broadcast = 0 => broadcasts'[a].controlVersion = 0
  BY DEF SongsInv
<1> QED BY <1>1, <1>3, <1>4, <1>6, <1>7, RoomsKeep DEF SongsInv

LEMMA HandlersRoom ==
    ASSUME MInv, NEW h \in Running
    PROVE  LET x == handlers[h]
           IN  /\ HeldRoom(x.data.room) /\ HeldData(x.timeline, x.data)
               /\ x.data.room.broadcast = x.timeline
               /\ x.timeline \in Broadcasts /\ x.timeline # 0 /\ x.data.room.context \in Contexts
<1>1. PICK x, t, data : x = handlers[h] /\ t = x.timeline /\ data = x.data
  OBVIOUS
<1>2. HeldData(t, data) /\ GoodData(t, data)
  BY <1>1 DEF HeldData, MInv, RoomHandlerOK
<1>3. data.room.broadcast = t /\ t \in Broadcasts /\ t # 0 /\ data.room.context \in Contexts
  BY <1>2, OfBroadcasts DEF GoodData, GoodRoom, MInv
<1> QED BY <1>1, <1>2, <1>3 DEF HeldRoom

LEMMA MakeSongs ==
    ASSUME MInv, SongsInv, NEW h \in Running, MakeStep(h),
           \A b \in Broadcasts : b = handlers[h].timeline => broadcasts[b].broadcast = 0
    PROVE  SongsInv'
<1>1. PICK b, r : b = handlers[h].timeline /\ r = handlers[h].data.room
  OBVIOUS
<1>2. HeldRoom(r) /\ r.broadcast = b /\ b \in Broadcasts /\ b # 0
  BY <1>1, HandlersRoom
<1>3. AddsNothing
  BY UnchangedOld, GoesOnAdds DEF MakeStep
<1>4. broadcasts' = [broadcasts EXCEPT ![b] = r] /\ UNCHANGED <<contexts, rows>>
  BY <1>1 DEF MakeStep
<1>5. \A a \in Broadcasts : \/ broadcasts'[a] = broadcasts[a]
                            \/ broadcasts[a].broadcast = 0 /\ broadcasts'[a] = r
  BY <1>1, <1>4 DEF MInv, Memory, Rooms1
<1> QED BY <1>2, <1>3, <1>4, <1>5, HeldPut

LEMMA CopySongs == ASSUME MInv, SongsInv, NEW h \in Running, CopyStep(h) PROVE SongsInv'
<1>1. PICK b, r : b = handlers[h].timeline /\ r = handlers[h].data.room
  OBVIOUS
<1>2. HeldRoom(r) /\ r.broadcast = b /\ b # 0
  BY <1>1, HandlersRoom
<1>3. AddsNothing
  BY UnchangedOld, GoesOnAdds DEF CopyStep
<1>4. contexts' = [contexts EXCEPT ![r.context] = r] /\ UNCHANGED <<broadcasts, rows>>
  BY <1>1 DEF CopyStep
<1>5. \A c \in Contexts : contexts'[c] \in {contexts[c], r}
  BY <1>4 DEF MInv, Memory, Copies
<1> QED BY <1>2, <1>3, <1>4, <1>5, HeldPut

LEMMA SaveSongs == ASSUME MInv, SongsInv, NEW h \in Running, SaveStep(h) PROVE SongsInv'
<1>1. PICK b, r : b = handlers[h].timeline /\ r = handlers[h].data.room
  OBVIOUS
<1>2. HeldRoom(r) /\ r.broadcast = b /\ b # 0
  BY <1>1, HandlersRoom
<1>3. AddsNothing
  BY UnchangedOld, EndAdds DEF SaveStep, AddsNothing
<1>4. rows' = [rows EXCEPT ![r.context] = r] /\ UNCHANGED <<broadcasts, contexts>>
  BY <1>1 DEF SaveStep
<1>5. \A c \in Contexts : rows'[c] \in {rows[c], r}
  BY <1>4 DEF MInv, Memory, Copies
<1> QED BY <1>2, <1>3, <1>4, <1>5, HeldPut

(* What a command makes of a broadcast.                                    *)
LEMMA ChangedHas ==
    ASSUME NEW room, DOMAIN room = RoomFields, NEW change
    PROVE  LET new == Changed(room, change)
           IN  /\ new.controlVersion = room.controlVersion + 1
               /\ new.index = IF "index" \in DOMAIN change THEN change.index ELSE room.index
               /\ new.queue = IF "queue" \in DOMAIN change THEN change.queue ELSE room.queue
               /\ new.state = IF "state" \in DOMAIN change THEN change.state ELSE room.state
BY DEF Changed, RoomFields

LEMMA ChangeSongs ==
    ASSUME MInv, SongsInv, NEW h \in Running, NEW b \in Broadcasts, NEW new, ChangeStep(h, b, new)
    PROVE  SongsInv'
<1>1. PICK old, data : old = broadcasts[b] /\ data = handlers[h].data
  OBVIOUS
<1>2. PICK y : /\ Turn(h, {y}) /\ y.timeline = b /\ y.data.room = new
               /\ y.data.base = data.base /\ y.data.change = data.change
  BY <1>1 DEF ChangeStep
<1>3. /\ new = Changed(old, data.change) /\ IsActive(b) /\ data.base \in {0, old.controlVersion}
      /\ broadcasts' = [broadcasts EXCEPT ![b] = new]
      /\ UNCHANGED <<prepares, contexts, rows>> /\ Broadcasts' = Broadcasts
  BY <1>1 DEF ChangeStep, BaseCurrent, Broadcasts
<1>4. old.broadcast = b /\ b # 0 /\ GoodRoom(old) /\ HeldRoom(old)
  BY <1>1, <1>3, ActiveExists, OfBroadcasts DEF MInv, Memory, Rooms1, HeldRoom
<1>5. GoodData(b, data) /\ ChangeOK(b, data)
  <2>1. HeldData(b, data)
    BY <1>1 DEF ChangeStep, HeldData
  <2> QED BY <2>1, HeldGood DEF SongsInv
<1>6. /\ new.broadcast = b /\ new.context = old.context /\ new.participants = old.participants
      /\ new.controlVersion = old.controlVersion + 1
      /\ new.index = IF "index" \in DOMAIN data.change THEN data.change.index ELSE old.index
      /\ new.queue = IF "queue" \in DOMAIN data.change THEN data.change.queue ELSE old.queue
  BY <1>3, <1>4, <1>5, ChangedIs, ChangedHas DEF GoodRoom, GoodData
<1>7. RoomOK(old)
  BY <1>4 DEF SongsInv
<1>8. RoomOK(new)
  <2>1. new.controlVersion \in Nat /\ new.controlVersion # 0
    BY <1>6, <1>7 DEF RoomOK
  <2>2. new.index < new.queue \/ new.index = 0
    <3>1. CASE "queue" \in DOMAIN data.change
      BY <1>5, <1>6, <3>1 DEF ChangeOK
    <3>2. CASE "queue" \notin DOMAIN data.change /\ "index" \in DOMAIN data.change
      BY <1>1, <1>3, <1>5, <1>6, <3>2 DEF ChangeOK
    <3>3. CASE "queue" \notin DOMAIN data.change /\ "index" \notin DOMAIN data.change
      BY <1>6, <1>7, <3>3 DEF RoomOK
    <3> QED BY <3>1, <3>2, <3>3
  <2> QED BY <1>6, <1>7, <2>1, <2>2 DEF RoomOK
<1>9. \A a \in Broadcasts : broadcasts'[a] = IF a = b THEN new ELSE broadcasts[a]
  BY <1>3 DEF MInv, Memory, Rooms1
<1>10. PICK data2 : data2 = y.data
  OBVIOUS
<1>11. Adds(b, data2)
  BY <1>2, <1>3, <1>10, UnchangedOld, TurnAdds
<1>12. NewRoom(new)
  <2>1. /\ \A a \in Broadcasts : HeldRoom(broadcasts'[a]) \/ broadcasts'[a] = new
        /\ \A c \in Contexts : HeldRoom(contexts'[c]) /\ HeldRoom(rows'[c])
    BY <1>3, <1>9 DEF HeldRoom
  <2>2. data2.room = new
    BY <1>2, <1>10
  <2> QED BY <1>11, <2>1, <2>2, NoNewRoom
<1>13. ChangeOK(b, data2)'
  <2>1. /\ data2.base = data.base /\ data2.change = data.change
        /\ broadcasts'[b].controlVersion = old.controlVersion + 1 /\ old.controlVersion \in Nat
    BY <1>2, <1>6, <1>7, <1>9, <1>10 DEF RoomOK
  <2>2. "index" \in DOMAIN data.change /\ "queue" \notin DOMAIN data.change =>
            /\ data.base # 0 /\ data.base <= old.controlVersion + 1
            /\ data.base # old.controlVersion + 1
    BY <1>3, <1>5, <2>1 DEF ChangeOK
  <2> QED BY <1>5, <2>1, <2>2 DEF ChangeOK
<1>14. Versions
  BY <1>1, <1>6, <1>9 DEF Versions
<1>15. \A u, d : HeldData(u, d)' => ChangeOK(u, d)'
  BY <1>11, <1>13, <1>14, ChangesKeep
<1>16. \A s : HeldRoom(s) /\ s.broadcast = new.broadcast /\ s.broadcast # 0 => s.context = new.context
  BY <1>4, <1>6 DEF SongsInv
<1>17. \A a \in Broadcasts : broadcasts'[a].broadcast = 0 => broadcasts'[a].controlVersion = 0
  BY <1>4, <1>6, <1>9 DEF SongsInv
<1> QED BY <1>3, <1>8, <1>12, <1>15, <1>16, <1>17, RoomsKeep DEF SongsInv

-----------------------------------------------------------------------------
(***************************************************************************)
(* Starts: nothing knows of a broadcast before one handler creates it.     *)
(***************************************************************************)
KindOK(x) ==
    /\ x.todo = Create3 => x.data.change.kind = "start"
    /\ x.todo = <<"claim">> => x.data.change.kind = prepares[x.prepare].kind

KindsInv ==
    /\ \A h \in Running : KindOK(handlers[h])
    /\ \A p \in Prepares : Alive(p) => prepares[p].data.change.kind = prepares[p].kind

LEMMA KindsKeep ==
    ASSUME PInv, KindsInv, Later, NEW S, FromOld(S), \A y \in S : KindOK(y)',
           \A p \in Prepares' \ Prepares : prepares'[p].data.change.kind = prepares'[p].kind
    PROVE  KindsInv'
<1>1. ASSUME NEW g \in Running' PROVE KindOK(handlers[g])'
  <2>1. PICK y : y = handlers'[g]
    OBVIOUS
  <2>2. KindOK(y)'
    <3>1. CASE \E f \in Running : y = handlers[f]
      <4>1. KindOK(y) /\ (y.todo = <<"claim">> => y.prepare \in Prepares)
        BY <3>1 DEF KindsInv, PInv, HandlersOK, HandlerOK, Deciding
      <4>2. y.todo = <<"claim">> => prepares'[y.prepare].kind = prepares[y.prepare].kind
        BY <4>1 DEF Later
      <4> QED BY <4>1, <4>2 DEF KindOK
    <3>2. CASE y \in S
      BY <3>2
    <3> QED BY <2>1, <3>1, <3>2 DEF FromOld
  <2> QED BY <2>1, <2>2 DEF KindOK
<1>2. ASSUME NEW p \in Prepares', Alive(p)' PROVE prepares'[p].data.change.kind = prepares'[p].kind
  <2>1. CASE p \in Prepares
    BY <1>2, <2>1 DEF Later, Alive, KindsInv
  <2>2. CASE p \notin Prepares
    BY <2>2
  <2> QED BY <2>1, <2>2
<1> QED BY <1>1, <1>2 DEF KindsInv

LEMMA PrepareLater == ASSUME NEW h, PrepareStep(h) PROVE Later
BY DEF PrepareStep, SameBut, Later

LEMMA KindsStep == ASSUME PInv, MInv, KindsInv, BroadcastStep PROVE KindsInv'
<1>1. ASSUME NEW y, y.todo \notin {Create3, <<"claim">>} PROVE KindOK(y)'
  BY <1>1 DEF KindOK
<1>2. Fewer => Later /\ Prepares' \ Prepares = {}
  BY DEF Fewer
<1>3. ASSUME NEW S, FromOld(S), Fewer, \A y \in S : KindOK(y)' PROVE KindsInv'
  BY <1>2, <1>3, KindsKeep
<1>4. ASSUME NEW y, FromOld({y}), Fewer, KindOK(y)' PROVE KindsInv'
  <2>1. \A z \in {y} : KindOK(z)'
    <3> SUFFICES ASSUME NEW z \in {y} PROVE KindOK(z)'
      OBVIOUS
    <3> QED BY <1>4 DEF KindOK
  <2> QED BY <1>3, <1>4, <2>1
<1>5. /\ Create3 # <<"claim">> /\ Creating \notin {Create3, <<"claim">>}
      /\ Single \notin {Create3, <<"claim">>} /\ Stop4 \notin {Create3, <<"claim">>}
      /\ Update3 \notin {Create3, <<"claim">>} /\ <<"send">> \notin {Create3, <<"claim">>}
      /\ <<"save">> \notin {Create3, <<"claim">>}
      /\ <<"upsert", "save">> \notin {Create3, <<"claim">>}
      /\ <<"supersede", "upsert", "save">> \notin {Create3, <<"claim">>}
  BY DEF Create3, Creating, Single, Stop4, Update3
<1>6. CASE StartStep
  <2>1. PICK x : TakesOn(x) /\ x.todo \in {Creating, Create3} /\ x.data.change = [kind |-> "start"]
    BY <1>6 DEF StartStep
  <2>2. KindOK(x)'
    BY <1>5, <2>1 DEF KindOK
  <2>3. Fewer
    BY <1>6, UnchangedFewer DEF StartStep
  <2> QED BY <1>4, <2>1, <2>2, <2>3, TakesFromOld
<1>7. CASE TimeStep
  BY <1>3, <1>7, SameFromOld DEF TimeStep
<1>8. ASSUME NEW b \in Broadcasts, CommandStep(b) PROVE KindsInv'
  <2>1. PICK x : TakesOn(x) /\ x.todo \in {Creating, Single, Stop4}
    BY <1>8 DEF CommandStep
  <2>2. KindOK(x)'
    BY <1>1, <1>5, <2>1
  <2>3. Fewer
    BY <1>8, UnchangedFewer DEF CommandStep
  <2> QED BY <1>4, <2>1, <2>2, <2>3, TakesFromOld
<1>9. ASSUME NEW p \in Prepares, DecideStep(p) PROVE KindsInv'
  <2>1. PICK x : /\ TakesOn(x) /\ x.prepare = p /\ x.data = prepares[p].data /\ x.todo \in Deciding
    BY <1>9 DEF DecideStep
  <2>2. Alive(p) /\ Fewer /\ x.todo # Create3
    BY <1>9, <2>1 DEF DecideStep, Deciding, Create3
  <2>3. x.data.change.kind = prepares'[p].kind
    BY <2>1, <2>2 DEF KindsInv, Fewer, Later
  <2>4. KindOK(x)'
    BY <2>1, <2>2, <2>3 DEF KindOK
  <2> QED BY <1>4, <2>1, <2>2, <2>4, TakesFromOld
<1>10. ASSUME NEW h \in Running, PrepareStep(h) PROVE KindsInv'
  <2>1. PICK y : Turn(h, {y}) /\ y.todo = <<"send">>
    BY <1>10 DEF PrepareStep, GoesOnAs
  <2>2. \A z \in {y} : KindOK(z)'
    BY <1>1, <1>5, <2>1
  <2>3. \A p \in Prepares' \ Prepares : prepares'[p].data.change.kind = prepares'[p].kind
    BY <1>10 DEF PrepareStep
  <2> QED BY <1>10, <2>1, <2>2, <2>3, KindsKeep, PrepareLater, TurnFromOld
<1>11. ASSUME NEW h \in Running, ClaimStep(h) PROVE KindsInv'
  <2>1. PICK y : /\ Turn(h, {y}) /\ y.data = handlers[h].data
                 /\ y.todo = IF handlers[h].data.change.kind = "start" THEN Create3 ELSE Update3
    BY <1>11 DEF ClaimStep, GoesOnAs
  <2>2. KindOK(y)'
    BY <1>5, <2>1 DEF KindOK
  <2> QED BY <1>4, <1>11, <2>1, <2>2, TurnFromOld DEF ClaimStep
<1>12. ASSUME NEW h \in Running, SupersedeStep(h) PROVE KindsInv'
  <2>1. PICK y : Turn(h, {y}) /\ y.todo \notin {Create3, <<"claim">>}
    BY <1>12 DEF SupersedeStep, GoesOnAs
  <2>2. KindOK(y)'
    BY <1>1, <2>1
  <2> QED BY <1>4, <1>12, <2>1, <2>2, TurnFromOld DEF SupersedeStep
<1>13. ASSUME NEW h \in Running, EndStep(h) \/ SaveStep(h) PROVE KindsInv'
  <2>1. Turn(h, {}) /\ Fewer
    BY <1>13, UnchangedFewer DEF EndStep, SaveStep
  <2> QED BY <1>3, <2>1, TurnFromOld
<1>14. ASSUME NEW h \in Running, \/ MakeStep(h) \/ CopyStep(h)
                                 \/ \E b \in Broadcasts : \E new : ChangeStep(h, b, new)
       PROVE  KindsInv'
  <2>1. PICK y : /\ Turn(h, {y})
                 /\ y.todo \in {<<"save">>, <<"upsert", "save">>, <<"supersede", "upsert", "save">>}
    BY <1>14 DEF MakeStep, CopyStep, ChangeStep, GoesOnAs
  <2>2. KindOK(y)'
    BY <1>1, <1>5, <2>1
  <2>3. Fewer
    BY <1>14, UnchangedFewer DEF MakeStep, CopyStep, ChangeStep
  <2> QED BY <1>4, <2>1, <2>2, <2>3, TurnFromOld
<1> QED
  BY <1>6, <1>7, <1>8, <1>9, <1>10, <1>11, <1>12, <1>13, <1>14 DEF BroadcastStep

(* A handler that is to create a broadcast, and a prepare for that.        *)
Starter(x) == x.todo \in {Creating, Create3} /\ x.data.change.kind = "start"
Starting(p) == Alive(p) /\ prepares[p].kind = "start"

Unknown(b) ==
    /\ b \in Broadcasts /\ broadcasts[b].broadcast = 0 /\ b \notin ended
    /\ \A c \in Contexts : contexts[c].broadcast # b /\ rows[c].broadcast # b

StartsInv ==
    /\ ended \subseteq 1 .. started
    /\ \A h \in Running : Starter(handlers[h]) => Unknown(handlers[h].timeline)
    /\ \A p \in Prepares : Starting(p) => Unknown(prepares[p].timeline)
    /\ \A g, h \in Running : Starter(handlers[g]) /\ Starter(handlers[h])
            /\ handlers[g].timeline = handlers[h].timeline => g = h
    /\ \A h \in Running, p \in Prepares :
            Starter(handlers[h]) /\ Starting(p) => handlers[h].timeline # prepares[p].timeline

(* Those that are to create a broadcast after a step were so before, with- *)
(* out the one that had its turn.                                          *)
OldStarters(gone) ==
    \E where :
        /\ \A g \in Running' : Starter(handlers'[g]) =>
               where[g] \in Running \ gone /\ handlers'[g] = handlers[where[g]]
        /\ \A f, g \in Running' :
               Starter(handlers'[f]) /\ Starter(handlers'[g]) /\ where[f] = where[g] => f = g

LEMMA TurnStarters ==
    ASSUME NEW h, NEW S, Turn(h, S), \A y \in S : ~Starter(y) PROVE OldStarters({h})
<1>1. PICK where : Moves(h, S, where)
  BY DEF Turn
<1>2. /\ \A g \in Running' : Starter(handlers'[g]) =>
             where[g] \in Running \ {h} /\ handlers'[g] = handlers[where[g]]
      /\ \A f, g \in Running' :
             Starter(handlers'[f]) /\ Starter(handlers'[g]) /\ where[f] = where[g] => f = g
  BY <1>1 DEF Moves
<1> QED BY <1>2 DEF OldStarters

LEMMA TakesStarters == ASSUME NEW x, TakesOn(x), ~Starter(x) PROVE OldStarters({})
<1>1. PICK where : where = [g \in Running' |-> g]
  OBVIOUS
<1>2. /\ \A g \in Running' : Starter(handlers'[g]) =>
             where[g] \in Running \ {} /\ handlers'[g] = handlers[where[g]]
      /\ \A f, g \in Running' :
             Starter(handlers'[f]) /\ Starter(handlers'[g]) /\ where[f] = where[g] => f = g
  BY <1>1 DEF TakesOn
<1> QED BY <1>2 DEF OldStarters

LEMMA SameStarters == ASSUME UNCHANGED handlers PROVE OldStarters({})
<1>1. PICK where : where = [g \in Running |-> g]
  OBVIOUS
<1>2. /\ \A g \in Running' : Starter(handlers'[g]) =>
             where[g] \in Running \ {} /\ handlers'[g] = handlers[where[g]]
      /\ \A f, g \in Running' :
             Starter(handlers'[f]) /\ Starter(handlers'[g]) /\ where[f] = where[g] => f = g
  BY <1>1 DEF Running
<1> QED BY <1>2 DEF OldStarters

(* What becomes known is what a handler that is gone was to create.        *)
Learns(gone) ==
    \A b : Unknown(b) => Unknown(b)' \/ \E h \in gone \cap Running :
                             Starter(handlers[h]) /\ handlers[h].timeline = b

LEMMA StartsKeep ==
    ASSUME StartsInv, NEW gone, OldStarters(gone), Learns(gone), Fewer,
           ended' \subseteq 1 .. started'
    PROVE  StartsInv'
<1>1. PICK where :
        /\ \A g \in Running' : Starter(handlers'[g]) =>
               where[g] \in Running \ gone /\ handlers'[g] = handlers[where[g]]
        /\ \A f, g \in Running' :
               Starter(handlers'[f]) /\ Starter(handlers'[g]) /\ where[f] = where[g] => f = g
  BY DEF OldStarters
<1>2. ASSUME NEW p \in Prepares', Starting(p)'
      PROVE  p \in Prepares /\ Starting(p) /\ prepares'[p].timeline = prepares[p].timeline
  BY <1>2 DEF Starting, Alive, Fewer, Later
<1>3. ASSUME NEW g \in Running', Starter(handlers'[g]), NEW b, b = handlers'[g].timeline
      PROVE  Unknown(b)'
  <2>1. PICK f : f = where[g]
    OBVIOUS
  <2>2. /\ f \in Running \ gone /\ handlers'[g] = handlers[f] /\ Unknown(b) /\ Starter(handlers[f])
        /\ b = handlers[f].timeline
    BY <1>1, <1>3, <2>1 DEF StartsInv
  <2>3. Unknown(b)'
    <3>1. \A h \in gone \cap Running : Starter(handlers[h]) => handlers[h].timeline # b
      BY <2>1, <2>2 DEF StartsInv
    <3> QED BY <2>2, <3>1 DEF Learns
  <2> QED BY <2>3
<1>4. ASSUME NEW p \in Prepares', Starting(p)', NEW b, b = prepares'[p].timeline
      PROVE  Unknown(b)'
  <2>2. p \in Prepares /\ Starting(p) /\ prepares[p].timeline = b /\ Unknown(b)
    BY <1>2, <1>4 DEF StartsInv
  <2>3. Unknown(b)'
    <3>1. \A h \in gone \cap Running : Starter(handlers[h]) => handlers[h].timeline # b
      BY <2>2 DEF StartsInv
    <3> QED BY <2>2, <3>1 DEF Learns
  <2> QED BY <2>3
<1>5. \A f, g \in Running' : Starter(handlers'[f]) /\ Starter(handlers'[g])
          /\ handlers'[f].timeline = handlers'[g].timeline => f = g
  BY <1>1 DEF StartsInv
<1>6. \A g \in Running', p \in Prepares' :
          Starter(handlers'[g]) /\ Starting(p)' => handlers'[g].timeline # prepares'[p].timeline
  BY <1>1, <1>2 DEF StartsInv
<1> QED BY <1>3, <1>4, <1>5, <1>6 DEF StartsInv, Starter, Unknown

(* What a step learns of a broadcast is that it is one of those it changes.*)
LEMMA KnowsSame ==
    ASSUME UNCHANGED <<broadcasts, contexts, rows, ended>>
    PROVE  \A b : Unknown(b) => Unknown(b)'
BY DEF Unknown, Broadcasts

LEMMA KnowsOther ==
    ASSUME NEW b,
           \A a \in Broadcasts : a # b => broadcasts'[a] = broadcasts[a],
           \A c \in Contexts : /\ contexts'[c] = contexts[c] \/ contexts'[c].broadcast = b
                               /\ rows'[c] = rows[c] \/ rows'[c].broadcast = b,
           ended' \subseteq ended \cup {b}
    PROVE  \A a : a # b /\ Unknown(a) => Unknown(a)'
BY DEF Unknown, Broadcasts

LEMMA NewTodos ==
    /\ Single \notin {Creating, Create3} /\ Stop4 \notin {Creating, Create3}
    /\ Update3 \notin {Creating, Create3} /\ Deciding \cap {Creating, Create3} = {}
    /\ Past \cap {Creating, Create3} = {} /\ Creating # Create3
    /\ <<"send">> \in Deciding /\ <<"claim">> \in Deciding
    /\ <<"save">> \in Past /\ <<"upsert", "save">> \in Past
    /\ <<"supersede", "upsert", "save">> \in Past
  BY DEF Create3, Creating, Single, Stop4, Update3, Deciding, Past

LEMMA StartingStarts ==
    ASSUME PInv, MInv, StartsInv, StartStep, MInv' PROVE StartsInv'
<1>0. started \in Nat
  BY OfBroadcasts DEF MInv
<1>1. PICK x, b : TakesOn(x) /\ x.timeline = b /\ b = started + 1
  BY DEF StartStep
<1>2. started' = b /\ UNCHANGED <<prepares, broadcasts, active, contexts, rows, ended>>
  BY <1>1 DEF StartStep
<1>3. b \in Broadcasts /\ b \notin 1 .. started
  BY <1>0, <1>1, <1>2 DEF MInv, Memory, Broadcasts
<1>4. Unknown(b)'
  <2>1. broadcasts[b].broadcast = 0
    BY <1>0, <1>1, <1>3 DEF MInv, Memory, Rooms1, GoodRoom
  <2>2. b \notin ended
    BY <1>3 DEF StartsInv
  <2>3. \A c \in Contexts : contexts[c].broadcast # b /\ rows[c].broadcast # b
    BY <1>0, <1>1 DEF MInv, Memory, Copies, GoodRoom
  <2> QED BY <1>2, <1>3, <2>1, <2>2, <2>3 DEF Unknown, Broadcasts
<1>5. PICK n \in Running' : /\ handlers'[n] = x /\ Running' = Running \cup {n} /\ n \notin Running
                            /\ \A g \in Running : handlers'[g] = handlers[g]
  BY <1>1 DEF TakesOn
<1>6. \A a : Unknown(a) => Unknown(a)'
  BY <1>2, KnowsSame
<1>7. ended' \subseteq 1 .. started'
  BY <1>0, <1>1, <1>2 DEF StartsInv
<1>8. \A h \in Running : handlers[h].timeline # b
  BY <1>3 DEF MInv, RoomHandlerOK, GoodData
<1>9. \A p \in Prepares : Alive(p) => prepares[p].timeline # b
  BY <1>3 DEF MInv, GoodData
<1>10. Prepares' = Prepares /\ \A p \in Prepares : Starting(p)' <=> Starting(p)
  BY <1>2 DEF Prepares, Starting, Alive
<1>11. ASSUME NEW g \in Running', Starter(handlers'[g]), NEW a, a = handlers'[g].timeline
       PROVE  Unknown(a)'
  BY <1>1, <1>4, <1>5, <1>6, <1>11 DEF StartsInv
<1>12. ASSUME NEW p \in Prepares', Starting(p)', NEW a, a = prepares'[p].timeline PROVE Unknown(a)'
  <2>1. Unknown(a)
    BY <1>2, <1>10, <1>12 DEF StartsInv
  <2> QED BY <1>6, <2>1
<1>13. \A f, g \in Running' : Starter(handlers'[f]) /\ Starter(handlers'[g])
          /\ handlers'[f].timeline = handlers'[g].timeline => f = g
  BY <1>1, <1>5, <1>8 DEF StartsInv
<1>14. \A g \in Running', p \in Prepares' :
          Starter(handlers'[g]) /\ Starting(p)' => handlers'[g].timeline # prepares'[p].timeline
  BY <1>1, <1>2, <1>5, <1>9, <1>10 DEF StartsInv, Starting
<1> QED BY <1>7, <1>11, <1>12, <1>13, <1>14 DEF StartsInv, Starter, Unknown

LEMMA ClaimStarts ==
    ASSUME PInv, MInv, KindsInv, StartsInv, NEW h \in Running, ClaimStep(h) PROVE StartsInv'
<1>0. UNCHANGED broadcastVars /\ Fewer
  BY DEF ClaimStep
<1>1. PICK x, p : x = handlers[h] /\ p = x.prepare
  OBVIOUS
<1>2. PICK y : Turn(h, {y}) /\ y.timeline = x.timeline /\ y.data = x.data
  BY <1>1 DEF ClaimStep, GoesOnAs
<1>3. /\ x.todo = <<"claim">> /\ p \in Prepares /\ Alive(p) /\ ~Alive(p)'
      /\ prepares[p].timeline = x.timeline /\ prepares[p].kind = x.data.change.kind
  BY <1>1 DEF ClaimStep, PInv, HandlersOK, HandlerOK, KindsInv, KindOK
<1>4. Learns({h}) /\ ended' \subseteq 1 .. started'
  BY <1>0, KnowsSame DEF Learns, broadcastVars, StartsInv
<1>5. CASE ~Starter(y)
  <2>1. \A z \in {y} : ~Starter(z)
    BY <1>5
  <2> QED BY <1>0, <1>2, <1>4, <2>1, TurnStarters, StartsKeep
<1>6. CASE Starter(y)
  <2>1. Starting(p)
    BY <1>2, <1>3, <1>6 DEF Starter, Starting
  <2>2. PICK where : Moves(h, {y}, where)
    BY <1>2 DEF Turn
  <2>3. \A a : Unknown(a) => Unknown(a)'
    BY <1>0, KnowsSame DEF broadcastVars
  <2>4. PICK t : t = x.timeline
    OBVIOUS
  <2>5. Unknown(t)
    BY <1>3, <2>1, <2>4 DEF StartsInv
  <2>6. \A g \in Running : Starter(handlers[g]) => handlers[g].timeline # t
    BY <1>3, <2>1, <2>4 DEF StartsInv
  <2>7. \A g \in Running' : \/ where[g] = h /\ handlers'[g] = y
                            \/ where[g] \in Running \ {h} /\ handlers'[g] = handlers[where[g]]
    BY <2>2 DEF Moves
  <2>8. \A q \in Prepares' : Starting(q)' => /\ q \in Prepares /\ Starting(q) /\ q # p
                                             /\ prepares'[q].timeline = prepares[q].timeline
    BY <1>0, <1>3 DEF Starting, Alive, Fewer, Later
  <2>9. \A q \in Prepares' : Starting(q)' => prepares'[q].timeline # t
    BY <1>3, <2>4, <2>8 DEF PInv, Apart, Starting
  <2>10. ASSUME NEW g \in Running', Starter(handlers'[g]), NEW a, a = handlers'[g].timeline
         PROVE  Unknown(a)'
    <3>1. Unknown(a)
      BY <1>2, <2>4, <2>5, <2>7, <2>10 DEF StartsInv
    <3> QED BY <2>3, <3>1
  <2>11. ASSUME NEW q \in Prepares', Starting(q)', NEW a, a = prepares'[q].timeline
         PROVE  Unknown(a)'
    <3>1. Unknown(a)
      BY <2>8, <2>11 DEF StartsInv
    <3> QED BY <2>3, <3>1
  <2>12. \A f, g \in Running' : where[f] = where[g] => f = g
    BY <2>2 DEF Moves
  <2>13. \A f, g \in Running' : Starter(handlers'[f]) /\ Starter(handlers'[g])
          /\ handlers'[f].timeline = handlers'[g].timeline => f = g
    BY <1>2, <2>4, <2>6, <2>7, <2>12 DEF StartsInv
  <2>14. \A g \in Running', q \in Prepares' :
          Starter(handlers'[g]) /\ Starting(q)' => handlers'[g].timeline # prepares'[q].timeline
    BY <1>2, <2>4, <2>7, <2>8, <2>9 DEF StartsInv
  <2> QED BY <1>4, <2>10, <2>11, <2>13, <2>14 DEF StartsInv, Starter, Unknown
<1> QED BY <1>5, <1>6

LEMMA PrepareStarts ==
    ASSUME PInv, MInv, StartsInv, NEW h \in Running, PrepareStep(h) PROVE StartsInv'
<1>0. UNCHANGED broadcastVars
  BY DEF PrepareStep
<1>1. PICK x, t : x = handlers[h] /\ t = x.timeline
  OBVIOUS
<1>2. PICK y : Turn(h, {y}) /\ y.todo = <<"send">>
  BY DEF PrepareStep, GoesOnAs
<1>3. PICK n : /\ Prepares' = Prepares \cup {n} /\ n \notin Prepares
               /\ prepares'[n].timeline = t /\ prepares'[n].kind = x.data.change.kind
  BY <1>1 DEF PrepareStep
<1>4. \A p \in Prepares : Starting(p)' => Starting(p) /\ prepares'[p].timeline = prepares[p].timeline
  BY DEF PrepareStep, SameBut, Starting, Alive
<1>5. ended' \subseteq 1 .. started'
  BY <1>0 DEF broadcastVars, StartsInv
<1>6. \A a : Unknown(a) => Unknown(a)'
  BY <1>0, KnowsSame DEF broadcastVars
<1>7. PICK where :
        /\ \A g \in Running' : Starter(handlers'[g]) =>
               where[g] \in Running \ {h} /\ handlers'[g] = handlers[where[g]]
        /\ \A f, g \in Running' :
               Starter(handlers'[f]) /\ Starter(handlers'[g]) /\ where[f] = where[g] => f = g
  <2>1. \A z \in {y} : ~Starter(z)
    BY <1>2, NewTodos DEF Starter
  <2>2. OldStarters({h})
    BY <1>2, <2>1, TurnStarters
  <2> QED BY <2>2 DEF OldStarters
<1>8. Starting(n)' => Starter(x)
  BY <1>1, <1>3 DEF Starting, Starter, PrepareStep
<1>9. ASSUME NEW g \in Running', Starter(handlers'[g]), NEW a, a = handlers'[g].timeline
      PROVE  Unknown(a)'
  BY <1>6, <1>7, <1>9 DEF StartsInv
<1>10. ASSUME NEW p \in Prepares', Starting(p)', NEW a, a = prepares'[p].timeline PROVE Unknown(a)'
  <2>1. CASE p = n
    BY <1>1, <1>3, <1>6, <1>8, <1>10, <2>1 DEF StartsInv
  <2>2. CASE p # n
    BY <1>3, <1>4, <1>6, <1>10, <2>2 DEF StartsInv
  <2> QED BY <2>1, <2>2
<1>11. \A f, g \in Running' : Starter(handlers'[f]) /\ Starter(handlers'[g])
          /\ handlers'[f].timeline = handlers'[g].timeline => f = g
  BY <1>7 DEF StartsInv
<1>12. ASSUME NEW g \in Running', NEW p \in Prepares', Starter(handlers'[g]), Starting(p)'
       PROVE  handlers'[g].timeline # prepares'[p].timeline
  <2>1. CASE p = n
    BY <1>1, <1>3, <1>7, <1>8, <1>12, <2>1 DEF StartsInv
  <2>2. CASE p # n
    BY <1>3, <1>4, <1>7, <1>12, <2>2 DEF StartsInv
  <2> QED BY <2>1, <2>2
<1> QED BY <1>5, <1>9, <1>10, <1>11, <1>12 DEF StartsInv, Starter, Unknown

(* Nobody creates a broadcast that is there.                               *)
LEMMA MakeFresh ==
    ASSUME KindsInv, StartsInv, NEW h \in Running, MakeStep(h)
    PROVE  Starter(handlers[h]) /\ Unknown(handlers[h].timeline)
BY DEF KindsInv, KindOK, StartsInv, MakeStep, Starter

LEMMA QuietStarts ==
    ASSUME PInv, MInv, KindsInv, StartsInv, QuietStep PROVE StartsInv'
<1>1. \A h : Learns({h})
  BY QuietAdds, KnowsSame DEF Learns, broadcastVars
<1>2. Learns({}) /\ ended' \subseteq 1 .. started'
  BY QuietAdds, KnowsSame DEF Learns, broadcastVars, StartsInv
<1>3. CASE TimeStep
  BY <1>2, <1>3, SameStarters, StartsKeep DEF TimeStep
<1>4. ASSUME NEW p \in Prepares, DecideStep(p) PROVE StartsInv'
  <2>1. PICK x : TakesOn(x) /\ x.todo \in Deciding
    BY <1>4 DEF DecideStep
  <2>2. ~Starter(x) /\ Fewer
    BY <1>4, <2>1, NewTodos DEF Starter, DecideStep
  <2> QED BY <1>2, <2>1, <2>2, TakesStarters, StartsKeep
<1>5. ASSUME NEW h \in Running, SupersedeStep(h) PROVE StartsInv'
  <2>1. PICK y : Turn(h, {y}) /\ y.todo \notin {Creating, Create3}
    BY <1>5 DEF SupersedeStep, GoesOnAs
  <2>2. \A z \in {y} : ~Starter(z)
    BY <2>1 DEF Starter
  <2> QED BY <1>1, <1>2, <1>5, <2>1, <2>2, TurnStarters, StartsKeep DEF SupersedeStep
<1>6. ASSUME NEW h \in Running, EndStep(h) PROVE StartsInv'
  BY <1>1, <1>2, <1>6, TurnStarters, StartsKeep DEF EndStep
<1> QED BY <1>3, <1>4, <1>5, <1>6, PrepareStarts, ClaimStarts DEF QuietStep

LEMMA CommandStarts ==
    ASSUME PInv, MInv, StartsInv, NEW b \in Broadcasts, CommandStep(b) PROVE StartsInv'
<1>1. PICK x : TakesOn(x) /\ Checked(Known(b), x.data)
  BY DEF CommandStep
<1>2. ~Starter(x)
  BY <1>1 DEF Starter, Checked
<1>3. Fewer /\ UNCHANGED <<rows, started, ended>> /\ GetBroadcast(b)
  BY UnchangedFewer DEF CommandStep
<1>4. PICK r : r = Known(b)
  OBVIOUS
<1>5. b # 0
  BY OfBroadcasts DEF MInv
<1>6. /\ r.broadcast = b
      /\ \A a \in Broadcasts : broadcasts'[a] = IF a = b THEN r ELSE broadcasts[a]
      /\ \/ broadcasts[b].broadcast = b /\ UNCHANGED <<broadcasts, contexts>>
         \/ \E c \in Contexts : /\ rows[c] = r
                /\ \A a \in Contexts : contexts'[a] = IF a = c THEN r ELSE contexts[a]
  BY <1>3, <1>4, GotIs
<1>7. ~Unknown(b)
  <2>1. broadcasts[b].broadcast = b \/ \E c \in Contexts : rows[c].broadcast = b
    BY <1>6
  <2> QED BY <1>5, <2>1 DEF Unknown
<1>8. \A a \in Broadcasts : a # b => broadcasts'[a] = broadcasts[a]
  BY <1>6
<1>9. \A a : a # b /\ Unknown(a) => Unknown(a)'
  BY <1>3, <1>6, <1>8, KnowsOther
<1>10. Learns({}) /\ ended' \subseteq 1 .. started'
  BY <1>3, <1>7, <1>9 DEF Learns, StartsInv
<1> QED BY <1>1, <1>2, <1>3, <1>10, TakesStarters, StartsKeep

LEMMA TaskStarts ==
    ASSUME PInv, MInv, KindsInv, StartsInv, NEW h \in Running,
           \/ MakeStep(h) \/ CopyStep(h) \/ SaveStep(h)
           \/ \E b \in Broadcasts : \E new : ChangeStep(h, b, new)
    PROVE  StartsInv'
<1>0. started \in Nat /\ UNCHANGED started
  BY OfBroadcasts DEF MInv, MakeStep, CopyStep, SaveStep, ChangeStep
<1>1. Fewer
  BY UnchangedFewer DEF MakeStep, CopyStep, SaveStep, ChangeStep
<1>2. OldStarters({h})
  <2>1. CASE SaveStep(h)
    BY <2>1, TurnStarters DEF SaveStep
  <2>2. CASE MakeStep(h) \/ CopyStep(h) \/ \E b \in Broadcasts : \E new : ChangeStep(h, b, new)
    <3>1. PICK y : Turn(h, {y}) /\ y.todo \in Past
      <4>1. CASE MakeStep(h)
        BY <4>1, NewTodos DEF MakeStep, GoesOnAs
      <4>2. CASE CopyStep(h)
        BY <4>2, NewTodos DEF CopyStep, GoesOnAs
      <4>3. ASSUME NEW a \in Broadcasts, NEW new, ChangeStep(h, a, new)
            PROVE  \E y : Turn(h, {y}) /\ y.todo \in Past
        <5>1. PICK y : /\ Turn(h, {y})
                       /\ y.todo \in {<<"supersede", "upsert", "save">>, <<"upsert", "save">>}
          BY <4>3 DEF ChangeStep
        <5> QED BY <5>1, NewTodos
      <4> QED BY <2>2, <4>1, <4>2, <4>3
    <3>2. \A z \in {y} : ~Starter(z)
      BY <3>1, NewTodos DEF Starter
    <3> QED BY <3>1, <3>2, TurnStarters
  <2> QED BY <2>1, <2>2
<1>3. PICK b, r : b = handlers[h].timeline /\ r = handlers[h].data.room
  OBVIOUS
<1>4. r.broadcast = b /\ b \in Broadcasts /\ b # 0 /\ b \in 1 .. started
  BY <1>3, HandlersRoom DEF MInv, RoomHandlerOK, GoodData
<1>5. /\ \A a \in Broadcasts : a # b => broadcasts'[a] = broadcasts[a]
      /\ \A c \in Contexts : /\ contexts'[c] = contexts[c] \/ contexts'[c].broadcast = b
                             /\ rows'[c] = rows[c] \/ rows'[c].broadcast = b
      /\ ended' \subseteq ended \cup {b}
  <2>0. DOMAIN contexts = Contexts /\ DOMAIN rows = Contexts /\ DOMAIN broadcasts = Broadcasts
    BY DEF MInv, Memory, Copies, Rooms1
  <2>1. CASE MakeStep(h)
    BY <1>3, <2>0, <2>1 DEF MakeStep
  <2>2. CASE CopyStep(h)
    <3>1. contexts' = [contexts EXCEPT ![r.context] = r] /\ UNCHANGED <<broadcasts, rows, ended>>
      BY <1>3, <2>2 DEF CopyStep
    <3> QED BY <1>4, <2>0, <3>1
  <2>3. CASE SaveStep(h)
    <3>1. rows' = [rows EXCEPT ![r.context] = r] /\ UNCHANGED <<broadcasts, contexts, ended>>
      BY <1>3, <2>3 DEF SaveStep
    <3> QED BY <1>4, <2>0, <3>1
  <2>4. ASSUME NEW a \in Broadcasts, NEW new, ChangeStep(h, a, new)
        PROVE  /\ \A d \in Broadcasts : d # b => broadcasts'[d] = broadcasts[d]
               /\ UNCHANGED <<contexts, rows>> /\ ended' \subseteq ended \cup {b}
    BY <1>3, <2>0, <2>4 DEF ChangeStep
  <2> QED BY <2>1, <2>2, <2>3, <2>4
<1>6. \A a : a # b /\ Unknown(a) => Unknown(a)'
  BY <1>5, KnowsOther
<1>7. Learns({h})
  <2>1. CASE MakeStep(h)
    BY <1>3, <1>6, <2>1, MakeFresh DEF Learns
  <2>2. CASE ~MakeStep(h)
    <3>1. broadcasts[b].broadcast = b
      <4>1. CASE CopyStep(h) \/ SaveStep(h)
        BY <1>3, <1>4, <4>1, NewTodos DEF CopyStep, SaveStep, MInv, RoomHandlerOK
      <4>2. CASE \E a \in Broadcasts : \E new : ChangeStep(h, a, new)
        BY <1>3, <1>4, <4>2, ActiveExists DEF ChangeStep, MInv
      <4> QED BY <2>2, <4>1, <4>2
    <3> QED BY <1>4, <1>6, <3>1 DEF Learns, Unknown
  <2> QED BY <2>1, <2>2
<1>8. ended' \subseteq 1 .. started'
  BY <1>0, <1>4, <1>5 DEF StartsInv
<1> QED BY <1>1, <1>2, <1>7, <1>8, StartsKeep

LEMMA StartsStep ==
    ASSUME PInv, MInv, MInv', KindsInv, StartsInv, BroadcastStep PROVE StartsInv'
BY StartingStarts, QuietStarts, CommandStarts, TaskStarts DEF BroadcastStep, QuietStep

LEMMA SongsStep ==
    ASSUME MInv, KindsInv, StartsInv, SongsInv, BroadcastStep PROVE SongsInv'
<1>1. ASSUME NEW h \in Running, MakeStep(h) PROVE SongsInv'
  <2>1. \A b \in Broadcasts : b = handlers[h].timeline => broadcasts[b].broadcast = 0
    BY <1>1, MakeFresh DEF Unknown
  <2> QED BY <1>1, <2>1, MakeSongs
<1> QED
  BY <1>1, StartSongs, QuietSongs, CommandSongs, CopySongs, SaveSongs, ChangeSongs
     DEF BroadcastStep, QuietStep

-----------------------------------------------------------------------------
(***************************************************************************)
(* What was stopped.                                                       *)
(***************************************************************************)
StopOK(x) ==
    x.todo = Stop4 => "state" \in DOMAIN x.data.change /\ x.data.change.state = "stopped"

Over1(b) ==
    /\ broadcasts[b].broadcast = b => broadcasts[b].state = "stopped"
    /\ \A d \in Devices : active[d] # b
    /\ broadcasts[b].broadcast = 0 =>
           \A c \in Contexts : rows[c].broadcast = b => rows[c].state = "stopped"

EndedInv ==
    /\ \A b \in ended : Over1(b)
    /\ \A h \in Running : StopOK(handlers[h])

LEMMA StopsKeep ==
    ASSUME EndedInv, NEW S, FromOld(S), \A y \in S : StopOK(y), \A b \in ended' : Over1(b)'
    PROVE  EndedInv'
<1>1. \A g \in Running' : StopOK(handlers'[g])
  BY DEF EndedInv, FromOld
<1> QED BY <1>1 DEF EndedInv, StopOK

LEMMA OverSame ==
    ASSUME EndedInv, UNCHANGED <<broadcasts, active, rows, ended>> PROVE \A b \in ended' : Over1(b)'
BY DEF EndedInv, Over1

LEMMA NoStops ==
    /\ Stop4 \notin {Creating, Create3, Single, Update3} /\ Stop4 \notin Past
    /\ Stop4 \notin Deciding
BY NewTodos DEF Stop4, Creating, Create3, Single, Update3, Past, Deciding

LEMMA QuietEnded == ASSUME EndedInv, QuietStep PROVE EndedInv'
<1>1. \A b \in ended' : Over1(b)'
  BY QuietAdds, OverSame DEF broadcastVars
<1>2. \E S : FromOld(S) /\ \A y \in S : StopOK(y)
  <2>1. CASE TimeStep
    BY <2>1, SameFromOld DEF TimeStep
  <2>2. CASE \E p \in Prepares : DecideStep(p)
    <3>1. PICK x : TakesOn(x) /\ x.todo \in Deciding
      BY <2>2 DEF DecideStep
    <3>2. \A y \in {x} : StopOK(y)
      BY <3>1, NoStops DEF StopOK
    <3>3. FromOld({x})
      BY <3>1, TakesFromOld
    <3> QED BY <3>2, <3>3
  <2>3. ASSUME NEW h \in Running, PrepareStep(h) \/ ClaimStep(h) \/ SupersedeStep(h)
        PROVE  \E S : FromOld(S) /\ \A y \in S : StopOK(y)
    <3>1. PICK y : Turn(h, {y}) /\ y.todo # Stop4
      BY <2>3, NoStops, NewTodos DEF PrepareStep, ClaimStep, SupersedeStep, GoesOnAs
    <3>2. \A z \in {y} : StopOK(z)
      BY <3>1 DEF StopOK
    <3> QED BY <3>1, <3>2, TurnFromOld
  <2>4. ASSUME NEW h \in Running, EndStep(h) PROVE \E S : FromOld(S) /\ \A y \in S : StopOK(y)
    <3>1. FromOld({})
      BY <2>4, TurnFromOld DEF EndStep
    <3> QED BY <3>1
  <2> QED BY <2>1, <2>2, <2>3, <2>4 DEF QuietStep
<1> QED BY <1>1, <1>2, StopsKeep

LEMMA StartEnded == ASSUME EndedInv, StartStep PROVE EndedInv'
<1>1. PICK x : TakesOn(x) /\ x.todo \in {Creating, Create3}
  BY DEF StartStep
<1>2. \A y \in {x} : StopOK(y)
  BY <1>1, NoStops DEF StopOK
<1>3. \A b \in ended' : Over1(b)'
  BY OverSame DEF StartStep
<1> QED BY <1>1, <1>2, <1>3, TakesFromOld, StopsKeep

LEMMA CommandEnded ==
    ASSUME MInv, EndedInv, StartsInv, NEW b \in Broadcasts, CommandStep(b) PROVE EndedInv'
<1>0. b # 0 /\ ended \subseteq Broadcasts
  BY OfBroadcasts DEF MInv, StartsInv
<1>1. PICK x : TakesOn(x) /\ (x.todo = Stop4 => x.data.change = [kind |-> "stop", state |-> "stopped"])
  BY DEF CommandStep
<1>2. \A y \in {x} : StopOK(y)
  BY <1>1 DEF StopOK
<1>3. UNCHANGED <<rows, ended>>
  BY DEF CommandStep
<1>4. PICK r : r = Known(b)
  OBVIOUS
<1>5. /\ r.broadcast = b /\ broadcasts'[b] = r
      /\ \A a \in Broadcasts : broadcasts'[a] = IF a = b THEN r ELSE broadcasts[a]
      /\ \/ broadcasts[b].broadcast = b /\ UNCHANGED <<broadcasts, active>>
         \/ /\ broadcasts[b].broadcast = 0
            /\ \E c \in Contexts : rows[c] = r
            /\ active' = IF r.state = "stopped" THEN active ELSE Joined(r.participants, b)
  BY <1>4, GotIs DEF CommandStep
<1>6. ASSUME NEW a \in ended' PROVE Over1(a)'
  <2>1. a \in ended /\ Over1(a) /\ a \in Broadcasts
    BY <1>0, <1>3, <1>6 DEF EndedInv
  <2>2. CASE a # b
    <3>1. \A d \in Devices : active'[d] # a
      BY <1>5, <2>1, <2>2 DEF Over1, Joined
    <3> QED BY <1>3, <1>5, <2>1, <2>2, <3>1 DEF Over1
  <2>3. CASE a = b /\ broadcasts[b].broadcast = b
    BY <1>0, <1>3, <1>5, <2>1, <2>3 DEF Over1
  <2>4. CASE a = b /\ broadcasts[b].broadcast = 0
    <3>1. r.state = "stopped" /\ active' = active
      BY <1>0, <1>5, <2>1, <2>4 DEF Over1
    <3> QED BY <1>0, <1>3, <1>5, <2>1, <2>4, <3>1 DEF Over1
  <2> QED BY <1>5, <2>2, <2>3, <2>4
<1> QED BY <1>1, <1>2, <1>6, TakesFromOld, StopsKeep

LEMMA CopyEnded ==
    ASSUME MInv, EndedInv, StartsInv, NEW h \in Running, CopyStep(h) \/ SaveStep(h) PROVE EndedInv'
<1>0. ended \subseteq Broadcasts /\ UNCHANGED <<broadcasts, active, ended>>
  BY OfBroadcasts DEF MInv, StartsInv, CopyStep, SaveStep
<1>1. \E S : FromOld(S) /\ \A y \in S : StopOK(y)
  <2>1. CASE CopyStep(h)
    <3>1. PICK y : Turn(h, {y}) /\ y.todo = <<"save">>
      BY <2>1 DEF CopyStep, GoesOnAs
    <3>2. \A z \in {y} : StopOK(z)
      BY <3>1, NoStops, NewTodos DEF StopOK
    <3> QED BY <3>1, <3>2, TurnFromOld
  <2>2. CASE SaveStep(h)
    <3>1. FromOld({})
      BY <2>2, TurnFromOld DEF SaveStep
    <3> QED BY <3>1
  <2> QED BY <2>1, <2>2
<1>2. \A b \in ended' : Over1(b)'
  <2>1. CASE CopyStep(h)
    BY <2>1, OverSame DEF CopyStep
  <2>2. CASE SaveStep(h)
    <3>1. PICK t, r : t = handlers[h].timeline /\ r = handlers[h].data.room
      OBVIOUS
    <3>2. r.broadcast = t /\ t \in Broadcasts /\ t # 0
      BY <3>1, HandlersRoom
    <3>3. broadcasts[t].broadcast = t
      BY <2>2, <3>1, <3>2, NewTodos DEF SaveStep, MInv, RoomHandlerOK
    <3>4. rows' = [rows EXCEPT ![r.context] = r] /\ DOMAIN rows = Contexts
      BY <2>2, <3>1 DEF SaveStep, MInv, Memory, Copies
    <3>5. \A c \in Contexts : rows'[c] = rows[c] \/ rows'[c].broadcast = t
      BY <3>2, <3>4
    <3> QED BY <1>0, <3>2, <3>3, <3>5 DEF EndedInv, Over1
  <2> QED BY <2>1, <2>2
<1> QED BY <1>1, <1>2, StopsKeep

LEMMA MakeEnded ==
    ASSUME MInv, EndedInv, StartsInv, KindsInv, NEW h \in Running, MakeStep(h) PROVE EndedInv'
<1>0. ended \subseteq Broadcasts /\ UNCHANGED <<rows, ended>>
  BY OfBroadcasts DEF MInv, StartsInv, MakeStep
<1>1. PICK y : Turn(h, {y}) /\ y.todo = <<"upsert", "save">>
  BY DEF MakeStep, GoesOnAs
<1>2. \A z \in {y} : StopOK(z)
  BY <1>1, NoStops, NewTodos DEF StopOK
<1>3. PICK t, r : t = handlers[h].timeline /\ r = handlers[h].data.room
  OBVIOUS
<1>4. t \notin ended
  BY <1>3, MakeFresh DEF Unknown
<1>5. /\ broadcasts' = [broadcasts EXCEPT ![t] = r] /\ DOMAIN broadcasts = Broadcasts
      /\ active' = [d \in Devices |-> IF d \in r.participants THEN t ELSE active[d]]
  BY <1>3 DEF MakeStep, MInv, Memory, Rooms1, Joined
<1>6. \A b \in ended' : Over1(b)'
  BY <1>0, <1>4, <1>5 DEF EndedInv, Over1
<1> QED BY <1>1, <1>2, <1>6, TurnFromOld, StopsKeep

LEMMA ChangeEnded ==
    ASSUME MInv, SongsInv, EndedInv, StartsInv, NEW h \in Running, NEW b \in Broadcasts, NEW new,
           ChangeStep(h, b, new)
    PROVE  EndedInv'
<1>0. ended \subseteq Broadcasts /\ b # 0 /\ DOMAIN broadcasts = Broadcasts /\ UNCHANGED rows
  BY OfBroadcasts DEF MInv, StartsInv, ChangeStep, Memory, Rooms1
<1>1. PICK y : /\ Turn(h, {y})
               /\ y.todo \in {<<"supersede", "upsert", "save">>, <<"upsert", "save">>}
  BY DEF ChangeStep
<1>2. \A z \in {y} : StopOK(z)
  BY <1>1, NoStops, NewTodos DEF StopOK
<1>3. PICK old, change : old = broadcasts[b] /\ change = handlers[h].data.change
  OBVIOUS
<1>4. old.broadcast = b /\ old.participants \subseteq Devices /\ DOMAIN old = RoomFields
  <2>1. old.broadcast = b
    BY <1>3, ActiveExists DEF ChangeStep, MInv
  <2>2. HeldRoom(old) /\ DOMAIN old = RoomFields
    BY <1>3 DEF HeldRoom, MInv, Memory, Rooms1, GoodRoom
  <2> QED BY <2>1, <2>2 DEF SongsInv, RoomOK
<1>5. b \notin ended
  BY <1>3, <1>4 DEF ChangeStep, IsActive, EndedInv, Over1
<1>6. /\ new = Changed(old, change) /\ broadcasts' = [broadcasts EXCEPT ![b] = new]
      /\ \/ UNCHANGED <<active, ended>>
         \/ /\ handlers[h].todo = Stop4 /\ ended' = ended \cup {b}
            /\ active' = [d \in Devices |-> IF active[d] = b THEN 0 ELSE active[d]]
  BY <1>3 DEF ChangeStep
<1>7. ASSUME NEW a \in ended', a # b PROVE Over1(a)'
  <2>1. a \in ended /\ Over1(a)
    BY <1>6, <1>7 DEF EndedInv
  <2>2. \A d \in Devices : active'[d] # a
    <3>1. a # 0
      BY <2>1, <1>0, OfBroadcasts DEF MInv
    <3> QED BY <1>6, <2>1, <3>1 DEF Over1
  <2>3. broadcasts'[a] = broadcasts[a]
    BY <1>0, <1>6, <1>7, <2>1
  <2> QED BY <1>0, <2>1, <2>2, <2>3 DEF Over1
<1>8. ASSUME b \in ended' PROVE Over1(b)'
  <2>1. handlers[h].todo = Stop4 /\ \A d \in Devices : active'[d] # b
    BY <1>0, <1>5, <1>6, <1>8
  <2>2. "state" \in DOMAIN change /\ change.state = "stopped"
    BY <1>3, <2>1 DEF EndedInv, StopOK
  <2>3. new.state = "stopped" /\ new.broadcast = old.broadcast
    <3>1. new.state = "stopped"
      BY <1>4, <1>6, <2>2, ChangedHas
    <3>2. GoodData(b, handlers[h].data)
      BY DEF ChangeStep, MInv, RoomHandlerOK
    <3> QED BY <1>3, <1>4, <1>6, <3>1, <3>2, ChangedIs DEF GoodData
  <2>4. broadcasts'[b] = new
    BY <1>0, <1>6
  <2> QED BY <1>0, <1>4, <2>1, <2>3, <2>4 DEF Over1
<1>9. \A a \in ended' : Over1(a)'
  BY <1>7, <1>8
<1> QED BY <1>1, <1>2, <1>9, TurnFromOld, StopsKeep

LEMMA EndedStep ==
    ASSUME MInv, KindsInv, SongsInv, StartsInv, EndedInv, BroadcastStep PROVE EndedInv'
BY StartEnded, QuietEnded, CommandEnded, MakeEnded, CopyEnded, ChangeEnded
   DEF BroadcastStep, QuietStep

-----------------------------------------------------------------------------
(***************************************************************************)
(* A broadcast, the copy in its context and the row of that.               *)
(***************************************************************************)
(* A handler that has changed the broadcast and has still to write it.     *)
Ahead(x, b) == x.timeline = b /\ x.todo \in Past

AgreeOn(b) ==
    broadcasts[b].broadcast = b /\ ~crossed[b] =>
        /\ \A g, h \in Running : Ahead(handlers[g], b) /\ Ahead(handlers[h], b) => g = h
        /\ \A h \in Running : Ahead(handlers[h], b) => handlers[h].data.room = broadcasts[b]
        /\ \A c \in Contexts : c = broadcasts[b].context /\ contexts[c].broadcast = b =>
               /\ \/ contexts[c] = broadcasts[b]
                  \/ \E h \in Running : Ahead(handlers[h], b) /\ handlers[h].todo # <<"save">>
               /\ \/ rows[c] = broadcasts[b]
                  \/ \E h \in Running : Ahead(handlers[h], b)

AgreesInv == \A b \in Broadcasts : AgreeOn(b)

(* The same ones are there after a step.                                   *)
AheadSame(b) ==
    \E where :
        /\ \A g \in Running' : Ahead(handlers'[g], b) =>
               /\ where[g] \in Running /\ Ahead(handlers[where[g]], b)
               /\ handlers'[g].data.room = handlers[where[g]].data.room
        /\ \A f, g \in Running' :
               Ahead(handlers'[f], b) /\ Ahead(handlers'[g], b) /\ where[f] = where[g] => f = g
        /\ \A f \in Running : Ahead(handlers[f], b) =>
               \E g \in Running' : /\ Ahead(handlers'[g], b)
                                   /\ handlers[f].todo # <<"save">> => handlers'[g].todo # <<"save">>

LEMMA AheadKeeps ==
    ASSUME NEW b, AgreeOn(b), AheadSame(b),
           broadcasts'[b] = broadcasts[b], crossed'[b] = crossed[b],
           \A c \in Contexts : contexts'[c].broadcast = b =>
               contexts'[c] = contexts[c] /\ rows'[c] = rows[c]
    PROVE  AgreeOn(b)'
<1> SUFFICES ASSUME broadcasts[b].broadcast = b, ~crossed[b] PROVE AgreeOn(b)'
  BY DEF AgreeOn
<1>1. PICK where :
        /\ \A g \in Running' : Ahead(handlers'[g], b) =>
               /\ where[g] \in Running /\ Ahead(handlers[where[g]], b)
               /\ handlers'[g].data.room = handlers[where[g]].data.room
        /\ \A f, g \in Running' :
               Ahead(handlers'[f], b) /\ Ahead(handlers'[g], b) /\ where[f] = where[g] => f = g
        /\ \A f \in Running : Ahead(handlers[f], b) =>
               \E g \in Running' : /\ Ahead(handlers'[g], b)
                                   /\ handlers[f].todo # <<"save">> => handlers'[g].todo # <<"save">>
  BY DEF AheadSame
<1>2. \A g, h \in Running' : Ahead(handlers'[g], b) /\ Ahead(handlers'[h], b) => g = h
  BY <1>1 DEF AgreeOn
<1>3. \A h \in Running' : Ahead(handlers'[h], b) => handlers'[h].data.room = broadcasts'[b]
  BY <1>1 DEF AgreeOn
<1>4. \A c \in Contexts : c = broadcasts'[b].context /\ contexts'[c].broadcast = b =>
               /\ \/ contexts'[c] = broadcasts'[b]
                  \/ \E h \in Running' : Ahead(handlers'[h], b) /\ handlers'[h].todo # <<"save">>
               /\ \/ rows'[c] = broadcasts'[b]
                  \/ \E h \in Running' : Ahead(handlers'[h], b)
  BY <1>1 DEF AgreeOn
<1> QED BY <1>2, <1>3, <1>4 DEF AgreeOn, Ahead

LEMMA AheadTurn ==
    ASSUME NEW h, NEW y, Turn(h, {y}), NEW b, Ahead(y, b) <=> Ahead(handlers[h], b),
           Ahead(y, b) => y.data.room = handlers[h].data.room /\ y.todo # <<"save">>
    PROVE  AheadSame(b)
<1>1. PICK where : Moves(h, {y}, where)
  BY DEF Turn
<1>2. \A g \in Running' : Ahead(handlers'[g], b) =>
               /\ where[g] \in Running /\ Ahead(handlers[where[g]], b)
               /\ handlers'[g].data.room = handlers[where[g]].data.room
  BY <1>1 DEF Moves
<1>3. \A f, g \in Running' : where[f] = where[g] => f = g
  BY <1>1 DEF Moves
<1>4. ASSUME NEW f \in Running, Ahead(handlers[f], b)
      PROVE  \E g \in Running' : /\ Ahead(handlers'[g], b)
                                 /\ handlers[f].todo # <<"save">> => handlers'[g].todo # <<"save">>
  <2>1. PICK g \in Running' : where[g] = f
    BY <1>1 DEF Moves
  <2> QED BY <1>1, <1>4, <2>1 DEF Moves
<1> QED BY <1>2, <1>3, <1>4 DEF AheadSame

LEMMA AheadTakes ==
    ASSUME NEW x, TakesOn(x), x.todo \notin Past, NEW b PROVE AheadSame(b)
<1>1. PICK where : where = [g \in Running' |-> g]
  OBVIOUS
<1>2. /\ \A g \in Running' : Ahead(handlers'[g], b) =>
             /\ where[g] \in Running /\ Ahead(handlers[where[g]], b)
             /\ handlers'[g].data.room = handlers[where[g]].data.room
      /\ \A f, g \in Running' :
             Ahead(handlers'[f], b) /\ Ahead(handlers'[g], b) /\ where[f] = where[g] => f = g
      /\ \A f \in Running : Ahead(handlers[f], b) =>
             \E g \in Running' : /\ Ahead(handlers'[g], b)
                                 /\ handlers[f].todo # <<"save">> => handlers'[g].todo # <<"save">>
  BY <1>1 DEF TakesOn, Ahead
<1> QED BY <1>2 DEF AheadSame

LEMMA AheadStill == ASSUME UNCHANGED handlers, NEW b PROVE AheadSame(b)
<1>1. PICK where : where = [g \in Running |-> g]
  OBVIOUS
<1>2. /\ \A g \in Running' : Ahead(handlers'[g], b) =>
             /\ where[g] \in Running /\ Ahead(handlers[where[g]], b)
             /\ handlers'[g].data.room = handlers[where[g]].data.room
      /\ \A f, g \in Running' :
             Ahead(handlers'[f], b) /\ Ahead(handlers'[g], b) /\ where[f] = where[g] => f = g
      /\ \A f \in Running : Ahead(handlers[f], b) =>
             \E g \in Running' : /\ Ahead(handlers'[g], b)
                                 /\ handlers[f].todo # <<"save">> => handlers'[g].todo # <<"save">>
  BY <1>1 DEF Running
<1> QED BY <1>2 DEF AheadSame

LEMMA AheadGone ==
    ASSUME NEW h, Turn(h, {}), NEW b, ~Ahead(handlers[h], b) PROVE AheadSame(b)
<1>1. PICK where : Moves(h, {}, where)
  BY DEF Turn
<1>2. \A g \in Running' : Ahead(handlers'[g], b) =>
               /\ where[g] \in Running /\ Ahead(handlers[where[g]], b)
               /\ handlers'[g].data.room = handlers[where[g]].data.room
  BY <1>1 DEF Moves
<1>3. \A f, g \in Running' : where[f] = where[g] => f = g
  BY <1>1 DEF Moves
<1>4. ASSUME NEW f \in Running, Ahead(handlers[f], b)
      PROVE  \E g \in Running' : /\ Ahead(handlers'[g], b)
                                 /\ handlers[f].todo # <<"save">> => handlers'[g].todo # <<"save">>
  <2>1. PICK g \in Running' : where[g] = f
    BY <1>1, <1>4 DEF Moves
  <2> QED BY <1>1, <1>4, <2>1 DEF Moves
<1> QED BY <1>2, <1>3, <1>4 DEF AheadSame

(* The only one that is ahead of b has its turn.                           *)
LEMMA AheadAlone ==
    ASSUME NEW h, NEW y, Turn(h, {y}), NEW b, Ahead(y, b),
           \A f \in Running : f # h => ~Ahead(handlers[f], b)
    PROVE  \E n \in Running' : /\ handlers'[n] = y
                               /\ \A g \in Running' : Ahead(handlers'[g], b) => g = n
<1>1. PICK where : Moves(h, {y}, where)
  BY DEF Turn
<1>2. PICK n \in Running' : where[n] = h
  BY <1>1 DEF Moves, Turn
<1> QED BY <1>1, <1>2 DEF Moves

LEMMA AloneAgrees ==
    ASSUME NEW h, NEW y, Turn(h, {y}), NEW b, Ahead(y, b), y.data.room = broadcasts'[b],
           \A f \in Running : f # h => ~Ahead(handlers[f], b),
           \A c \in Contexts : c = broadcasts'[b].context =>
               y.todo # <<"save">> \/ contexts'[c] = broadcasts'[b]
    PROVE  AgreeOn(b)'
<1>1. PICK n \in Running' : /\ handlers'[n] = y
                            /\ \A g \in Running' : Ahead(handlers'[g], b) => g = n
  BY AheadAlone
<1> QED BY <1>1 DEF AgreeOn, Ahead

(* Steps that change no broadcast.                                         *)
LEMMA QuietKeeps ==
    ASSUME AgreesInv, UNCHANGED broadcastVars, \A b \in Broadcasts : AheadSame(b) PROVE AgreesInv'
<1>1. ASSUME NEW b \in Broadcasts PROVE AgreeOn(b)'
  BY AheadKeeps DEF broadcastVars, AgreesInv
<1> QED BY <1>1 DEF AgreesInv, Broadcasts

LEMMA EndAgrees ==
    ASSUME MInv, SongsInv, AgreesInv, NEW h \in Running, EndStep(h) PROVE AgreesInv'
<1>0. Turn(h, {}) /\ UNCHANGED broadcastVars
  BY DEF EndStep
<1>1. PICK t, r : t = handlers[h].timeline /\ r = handlers[h].data.room
  OBVIOUS
<1>2. HeldRoom(r) /\ r.broadcast = t /\ t \in Broadcasts /\ t # 0 /\ r.context \in Contexts
  BY <1>1, HandlersRoom
<1>3. ASSUME NEW b \in Broadcasts PROVE AgreeOn(b)'
  <2>1. CASE ~Ahead(handlers[h], b)
    BY <1>0, <1>3, <2>1, AheadGone, AheadKeeps DEF broadcastVars, AgreesInv
  <2>2. CASE Ahead(handlers[h], b)
    <3>1. b = t /\ contexts[r.context].broadcast # t
      BY <1>1, <2>2 DEF Ahead, EndStep
    <3>2. PICK where : Moves(h, {}, where)
      BY <1>0 DEF Turn
    <3>3. \A g \in Running' : where[g] \in Running /\ handlers'[g] = handlers[where[g]]
      BY <3>2 DEF Moves
    <3>4. \A f, g \in Running' : where[f] = where[g] => f = g
      BY <3>2 DEF Moves
    <3>5. broadcasts[b].broadcast = b => broadcasts[b].context = r.context
      BY <1>2, <3>1 DEF SongsInv, HeldRoom
    <3>6. AgreeOn(b)
      BY DEF AgreesInv
    <3> QED BY <1>0, <3>1, <3>3, <3>4, <3>5, <3>6 DEF AgreeOn, broadcastVars
  <2> QED BY <2>1, <2>2
<1> QED BY <1>3 DEF AgreesInv, Broadcasts

LEMMA QuietAgrees ==
    ASSUME MInv, SongsInv, AgreesInv, QuietStep PROVE AgreesInv'
<1>0. UNCHANGED broadcastVars
  BY QuietAdds
<1>1. CASE TimeStep
  BY <1>0, <1>1, AheadStill, QuietKeeps DEF TimeStep
<1>2. ASSUME NEW p \in Prepares, DecideStep(p) PROVE AgreesInv'
  <2>1. PICK x : TakesOn(x) /\ x.todo \notin Past
    BY <1>2, Creations DEF DecideStep
  <2> QED BY <1>0, <2>1, AheadTakes, QuietKeeps
<1>3. ASSUME NEW h \in Running, PrepareStep(h) \/ ClaimStep(h) \/ SupersedeStep(h) PROVE AgreesInv'
  <2>1. PICK y : /\ Turn(h, {y}) /\ y.timeline = handlers[h].timeline /\ y.data = handlers[h].data
                 /\ (y.todo \in Past <=> handlers[h].todo \in Past) /\ y.todo # <<"save">>
    <3>1. /\ <<"send">> \notin Past /\ <<"claim">> \notin Past /\ Creating \notin Past
          /\ Create3 \notin Past /\ Update3 \notin Past /\ <<"save">> \in Past
      BY Creations, NewTodos DEF Create3, Update3
    <3> QED BY <1>3, <3>1 DEF PrepareStep, ClaimStep, SupersedeStep, GoesOnAs
  <2>2. ASSUME NEW b \in Broadcasts PROVE AheadSame(b)
    BY <2>1, AheadTurn DEF Ahead
  <2> QED BY <1>0, <2>2, QuietKeeps
<1> QED BY <1>1, <1>2, <1>3, EndAgrees DEF QuietStep

LEMMA StartAgrees == ASSUME AgreesInv, StartStep PROVE AgreesInv'
<1>1. PICK x : TakesOn(x) /\ x.todo \notin Past
  BY Creations DEF StartStep, Create3
<1>2. UNCHANGED <<broadcasts, active, contexts, rows, ended, crossed>>
  BY DEF StartStep
<1>3. ASSUME NEW b \in Broadcasts PROVE AgreeOn(b)'
  BY <1>1, <1>2, AheadTakes, AheadKeeps DEF AgreesInv
<1> QED BY <1>3 DEF AgreesInv, Broadcasts

LEMMA CommandAgrees ==
    ASSUME MInv, AgreesInv, NEW b \in Broadcasts, CommandStep(b) PROVE AgreesInv'
<1>0. b # 0
  BY OfBroadcasts DEF MInv
<1>1. PICK x : TakesOn(x) /\ x.todo \notin Past /\ x.timeline = b
  BY Creations DEF CommandStep, Single, Stop4
<1>2. UNCHANGED <<rows, crossed>>
  BY DEF CommandStep
<1>3. PICK r : r = Known(b)
  OBVIOUS
<1>4. /\ r.broadcast = b
      /\ \A a \in Broadcasts : broadcasts'[a] = IF a = b THEN r ELSE broadcasts[a]
      /\ \/ broadcasts[b].broadcast = b /\ UNCHANGED <<broadcasts, contexts>>
         \/ /\ broadcasts[b].broadcast = 0
            /\ \E c \in Contexts :
                  /\ c = r.context /\ rows[c] = r
                  /\ \A a \in Contexts : contexts'[a] = IF a = c THEN r ELSE contexts[a]
  BY <1>3, GotIs DEF CommandStep
<1>5. ASSUME NEW a \in Broadcasts, a # b \/ broadcasts[b].broadcast = b PROVE AgreeOn(a)'
  <2>1. broadcasts'[a] = broadcasts[a] /\ crossed'[a] = crossed[a]
    BY <1>0, <1>2, <1>4, <1>5
  <2>2. \A c \in Contexts : contexts'[c].broadcast = a => contexts'[c] = contexts[c] /\ rows'[c] = rows[c]
    BY <1>0, <1>2, <1>4, <1>5
  <2> QED BY <1>1, <2>1, <2>2, AheadTakes, AheadKeeps DEF AgreesInv
<1>6. ASSUME broadcasts[b].broadcast = 0 PROVE AgreeOn(b)'
  <2>1. \A f \in Running : ~Ahead(handlers[f], b)
    BY <1>0, <1>6 DEF Ahead, MInv, RoomHandlerOK
  <2>2. \A f \in Running' : ~Ahead(handlers'[f], b)
    BY <1>1, <2>1 DEF TakesOn, Ahead
  <2>3. broadcasts'[b] = r
    BY <1>4
  <2>4. \A c \in Contexts : c = r.context => contexts'[c] = r /\ rows'[c] = r
    BY <1>0, <1>2, <1>4, <1>6
  <2> QED BY <2>2, <2>3, <2>4 DEF AgreeOn, Ahead
<1>7. \A a \in Broadcasts : AgreeOn(a)'
  BY <1>4, <1>5, <1>6
<1> QED BY <1>7 DEF AgreesInv, Broadcasts

(* What a task does to the other broadcasts.                               *)
LEMMA OthersAgree ==
    ASSUME AgreesInv, NEW h, NEW t, handlers[h].timeline = t,
           Turn(h, {}) \/ \E y : Turn(h, {y}) /\ y.timeline = t,
           \A b \in Broadcasts : b # t => broadcasts'[b] = broadcasts[b] /\ crossed'[b] = crossed[b],
           \A c \in Contexts : \/ contexts'[c] = contexts[c] /\ rows'[c] = rows[c]
                               \/ contexts'[c].broadcast = t
    PROVE  \A b \in Broadcasts : b # t => AgreeOn(b)'
<1> SUFFICES ASSUME NEW b \in Broadcasts, b # t PROVE AgreeOn(b)'
  OBVIOUS
<1>1. AheadSame(b)
  <2>1. CASE Turn(h, {})
    BY <2>1, AheadGone DEF Ahead
  <2>2. CASE \E y : Turn(h, {y}) /\ y.timeline = t
    BY <2>2, AheadTurn DEF Ahead
  <2> QED BY <2>1, <2>2
<1> QED BY <1>1, AheadKeeps DEF AgreesInv

LEMMA MakeAgrees ==
    ASSUME MInv, KindsInv, StartsInv, AgreesInv, NEW h \in Running, MakeStep(h) PROVE AgreesInv'
<1>1. PICK t, r : t = handlers[h].timeline /\ r = handlers[h].data.room
  OBVIOUS
<1>2. r.broadcast = t /\ t \in Broadcasts /\ t # 0
  BY <1>1, HandlersRoom
<1>3. PICK y : Turn(h, {y}) /\ y.timeline = t /\ y.data.room = r /\ y.todo = <<"upsert", "save">>
  BY <1>1 DEF MakeStep, GoesOnAs
<1>4. broadcasts[t].broadcast = 0
  BY <1>1, MakeFresh DEF Unknown
<1>5. \A f \in Running : ~Ahead(handlers[f], t)
  BY <1>2, <1>4 DEF Ahead, MInv, RoomHandlerOK
<1>6. /\ broadcasts'[t] = r /\ UNCHANGED <<contexts, rows>>
      /\ \A b \in Broadcasts : b # t => broadcasts'[b] = broadcasts[b] /\ crossed'[b] = crossed[b]
  BY <1>1, <1>2 DEF MakeStep, MInv, Memory, Rooms1
<1>7. Ahead(y, t) /\ y.todo # <<"save">>
  <2>1. <<"upsert", "save">> # <<"save">>
    OBVIOUS
  <2> QED BY <1>3, <2>1, NewTodos DEF Ahead
<1>8. AgreeOn(t)'
  BY <1>3, <1>5, <1>6, <1>7, AloneAgrees
<1>9. \A b \in Broadcasts : b # t => AgreeOn(b)'
  BY <1>1, <1>3, <1>6, OthersAgree
<1> QED BY <1>8, <1>9 DEF AgreesInv, Broadcasts

LEMMA ChangeAgrees ==
    ASSUME PInv, MInv, AgreesInv, DOMAIN crossed = Broadcasts, NEW h \in Running, NEW b \in Broadcasts, NEW new, ChangeStep(h, b, new)
    PROVE  AgreesInv'
<1>1. PICK y : /\ Turn(h, {y}) /\ y.timeline = b /\ y.data.room = new
               /\ y.todo \in {<<"supersede", "upsert", "save">>, <<"upsert", "save">>}
  BY DEF ChangeStep
<1>2. /\ b = handlers[h].timeline /\ UNCHANGED <<contexts, rows>>
      /\ broadcasts' = [broadcasts EXCEPT ![b] = new]
      /\ crossed' = [crossed EXCEPT ![b] = Crossing(h)]
  BY DEF ChangeStep
<1>3. /\ broadcasts'[b] = new
      /\ \A a \in Broadcasts : a # b => broadcasts'[a] = broadcasts[a] /\ crossed'[a] = crossed[a]
  BY <1>2 DEF MInv, Memory, Rooms1
<1>4. Ahead(y, b) /\ y.todo # <<"save">>
  <2>1. <<"upsert", "save">> # <<"save">> /\ <<"supersede", "upsert", "save">> # <<"save">>
    OBVIOUS
  <2> QED BY <1>1, <2>1, NewTodos DEF Ahead
<1>5. ASSUME ~crossed'[b], NEW f \in Running, f # h, Ahead(handlers[f], b)
      PROVE  FALSE
  <2>1. ~Crossing(h)
    BY <1>2, <1>5
  <2>2. handlers[f].timeline = handlers[h].timeline /\ handlers[f].todo \in Past
    BY <1>2, <1>5 DEF Ahead
  <2>3. PICK todo : todo = handlers[f].todo
    OBVIOUS
  <2>4. \E n \in DOMAIN todo : todo[n] \in {"upsert", "save"}
    <3>1. CASE todo = <<"supersede", "upsert", "save">>
      <4>1. 2 \in DOMAIN todo /\ todo[2] = "upsert"
        BY <3>1
      <4> QED BY <4>1
    <3>2. CASE todo = <<"upsert", "save">>
      <4>1. 1 \in DOMAIN todo /\ todo[1] = "upsert"
        BY <3>2
      <4> QED BY <4>1
    <3>3. CASE todo = <<"save">>
      <4>1. 1 \in DOMAIN todo /\ todo[1] = "save"
        BY <3>3
      <4> QED BY <4>1
    <3> QED BY <2>2, <2>3, <3>1, <3>2, <3>3 DEF Past
  <2> QED BY <1>5, <2>1, <2>2, <2>3, <2>4 DEF Crossing
<1>6. AgreeOn(b)'
  <2>1. CASE ~crossed'[b]
    <3>1. \A f \in Running : f # h => ~Ahead(handlers[f], b)
      BY <1>5, <2>1
    <3> QED BY <1>1, <1>3, <1>4, <3>1, AloneAgrees
  <2>2. CASE crossed'[b]
    BY <2>2 DEF AgreeOn
  <2> QED BY <2>1, <2>2
<1>7. \A a \in Broadcasts : a # b => AgreeOn(a)'
  <2>1. PICK t : t = handlers[h].timeline
    OBVIOUS
  <2>2. \A c \in Contexts : contexts'[c] = contexts[c] /\ rows'[c] = rows[c]
    BY <1>2
  <2>3. /\ \A a \in Broadcasts : a # t => broadcasts'[a] = broadcasts[a] /\ crossed'[a] = crossed[a]
        /\ t = b /\ Turn(h, {y}) /\ y.timeline = t
    BY <1>1, <1>2, <1>3, <2>1
  <2>4. \A a \in Broadcasts : a # t => AgreeOn(a)'
    BY <2>1, <2>2, <2>3, OthersAgree
  <2> QED BY <2>3, <2>4
<1> QED BY <1>6, <1>7 DEF AgreesInv, Broadcasts

LEMMA CopyAgrees ==
    ASSUME MInv, AgreesInv, NEW h \in Running, CopyStep(h) PROVE AgreesInv'
<1>1. PICK t, r : t = handlers[h].timeline /\ r = handlers[h].data.room
  OBVIOUS
<1>2. r.broadcast = t /\ t \in Broadcasts /\ t # 0 /\ r.context \in Contexts
  BY <1>1, HandlersRoom
<1>3. PICK y : Turn(h, {y}) /\ y.timeline = t /\ y.data.room = r /\ y.todo = <<"save">>
  BY <1>1 DEF CopyStep, GoesOnAs
<1>4. UNCHANGED <<broadcasts, crossed, rows>>
  BY DEF CopyStep
<1>5. \A c \in Contexts : contexts'[c] = IF c = r.context THEN r ELSE contexts[c]
  BY <1>1, <1>2 DEF CopyStep, MInv, Memory, Copies
<1>6. Ahead(handlers[h], t) /\ Ahead(y, t)
  BY <1>1, <1>3, NewTodos DEF CopyStep, Ahead
<1>7. AgreeOn(t)'
  <2> SUFFICES ASSUME broadcasts[t].broadcast = t, ~crossed[t] PROVE AgreeOn(t)'
    BY <1>4 DEF AgreeOn
  <2>1. r = broadcasts[t] /\ \A f \in Running : f # h => ~Ahead(handlers[f], t)
    BY <1>1, <1>2, <1>6 DEF AgreesInv, AgreeOn
  <2>2. \A c \in Contexts : c = broadcasts'[t].context => contexts'[c] = broadcasts'[t]
    BY <1>4, <1>5, <2>1
  <2> QED BY <1>3, <1>4, <1>6, <2>1, <2>2, AloneAgrees
<1>8. \A b \in Broadcasts : b # t => AgreeOn(b)'
  <2>1. handlers[h].timeline = t /\ \E z : Turn(h, {z}) /\ z.timeline = t
    BY <1>1, <1>3
  <2>2. \A c \in Contexts : \/ contexts'[c] = contexts[c] /\ rows'[c] = rows[c]
                            \/ contexts'[c].broadcast = t
    BY <1>2, <1>4, <1>5
  <2>3. \A b \in Broadcasts : b # t => broadcasts'[b] = broadcasts[b] /\ crossed'[b] = crossed[b]
    BY <1>4
  <2> QED BY <2>1, <2>2, <2>3, OthersAgree
<1> QED BY <1>7, <1>8 DEF AgreesInv, Broadcasts

LEMMA SaveAgrees ==
    ASSUME MInv, AgreesInv, NEW h \in Running, SaveStep(h) PROVE AgreesInv'
<1>1. PICK t, r : t = handlers[h].timeline /\ r = handlers[h].data.room
  OBVIOUS
<1>2. r.broadcast = t /\ t \in Broadcasts /\ t # 0 /\ r.context \in Contexts
  BY <1>1, HandlersRoom
<1>3. Turn(h, {}) /\ handlers[h].todo = <<"save">>
  BY DEF SaveStep
<1>4. UNCHANGED <<broadcasts, crossed, contexts>>
  BY DEF SaveStep
<1>5. \A c \in Contexts : rows'[c] = IF c = r.context THEN r ELSE rows[c]
  BY <1>1, <1>2 DEF SaveStep, MInv, Memory, Copies
<1>6. Ahead(handlers[h], t)
  BY <1>1, <1>3, NewTodos DEF Ahead
<1>7. AgreeOn(t)'
  <2> SUFFICES ASSUME broadcasts[t].broadcast = t, ~crossed[t] PROVE AgreeOn(t)'
    BY <1>4 DEF AgreeOn
  <2>1. r = broadcasts[t] /\ \A f \in Running : f # h => ~Ahead(handlers[f], t)
    BY <1>1, <1>2, <1>6 DEF AgreesInv, AgreeOn
  <2>2. PICK where : Moves(h, {}, where)
    BY <1>3 DEF Turn
  <2>3. \A g \in Running' : where[g] \in Running \ {h} /\ handlers'[g] = handlers[where[g]]
    BY <2>2 DEF Moves
  <2>4. \A g \in Running' : ~Ahead(handlers'[g], t)
    BY <2>1, <2>3
  <2>5. \A c \in Contexts : c = broadcasts[t].context /\ contexts[c].broadcast = t =>
            contexts[c] = broadcasts[t]
    BY <1>2, <1>3, <2>1 DEF AgreesInv, AgreeOn
  <2>6. \A c \in Contexts : c = broadcasts[t].context => rows'[c] = broadcasts[t]
    BY <1>5, <2>1
  <2> QED BY <1>4, <2>4, <2>5, <2>6 DEF AgreeOn, Ahead
<1>8. \A b \in Broadcasts : b # t => AgreeOn(b)'
  <2>1. handlers[h].timeline = t
    BY <1>1
  <2>2. contexts[r.context].broadcast = t
    BY <1>1, <1>2, <1>3 DEF MInv, RoomHandlerOK
  <2>3. \A c \in Contexts : \/ contexts'[c] = contexts[c] /\ rows'[c] = rows[c]
                            \/ contexts'[c].broadcast = t
    BY <1>4, <1>5, <2>2
  <2>4. \A b \in Broadcasts : b # t => broadcasts'[b] = broadcasts[b] /\ crossed'[b] = crossed[b]
    BY <1>4
  <2> QED BY <1>3, <2>1, <2>3, <2>4, OthersAgree
<1> QED BY <1>7, <1>8 DEF AgreesInv, Broadcasts

LEMMA AgreesStep ==
    ASSUME PInv, MInv, KindsInv, SongsInv, StartsInv, AgreesInv, DOMAIN crossed = Broadcasts,
           BroadcastStep
    PROVE  AgreesInv' /\ DOMAIN crossed' = Broadcasts
<1>1. DOMAIN crossed' = Broadcasts
  <2>1. CASE QuietStep
    BY <2>1, QuietAdds DEF broadcastVars
  <2>2. CASE StartStep \/ \E b \in Broadcasts : CommandStep(b)
    BY <2>2 DEF StartStep, CommandStep
  <2>3. ASSUME NEW h \in Running, MakeStep(h) \/ CopyStep(h) \/ SaveStep(h) PROVE DOMAIN crossed' = Broadcasts
    BY <2>3 DEF MakeStep, CopyStep, SaveStep
  <2>4. ASSUME NEW h \in Running, NEW b \in Broadcasts, NEW new, ChangeStep(h, b, new)
        PROVE  DOMAIN crossed' = Broadcasts
    BY <2>4 DEF ChangeStep
  <2> QED BY <2>1, <2>2, <2>3, <2>4 DEF BroadcastStep, QuietStep
<1>2. AgreesInv'
  BY StartAgrees, QuietAgrees, CommandAgrees, MakeAgrees, CopyAgrees, SaveAgrees, ChangeAgrees
     DEF BroadcastStep, QuietStep
<1> QED BY <1>1, <1>2

-----------------------------------------------------------------------------
(***************************************************************************)
(* The broadcasts together.                                                *)
(***************************************************************************)
BInv ==
    /\ KindsInv /\ SongsInv /\ StartsInv /\ EndedInv /\ AgreesInv
    /\ DOMAIN crossed = Broadcasts

LEMMA BroadcastKeeps ==
    ASSUME PInv, MInv, MInv', BInv, BroadcastStep PROVE BInv'
<1>1. KindsInv' /\ SongsInv' /\ StartsInv'
  BY KindsStep, SongsStep, StartsStep DEF BInv
<1>2. EndedInv' /\ AgreesInv' /\ DOMAIN crossed' = Broadcasts
  BY EndedStep, AgreesStep DEF BInv
<1> QED BY <1>1, <1>2 DEF BInv, Broadcasts

(* Rooms that are as after a restart.                                      *)
LEMMA EmptyRooms ==
    ASSUME handlers = <<>>, prepares = <<>>, broadcasts = [b \in Broadcasts |-> NoRoom],
           crossed = [b \in Broadcasts |-> FALSE], 0 \notin Broadcasts
    PROVE  /\ KindsInv /\ AgreesInv /\ \A t, data : ~HeldData(t, data)
           /\ \A b \in Broadcasts : broadcasts[b].broadcast = 0 /\ broadcasts[b].controlVersion = 0
<1>1. Running = {} /\ Prepares = {}
  BY DEF Running, Prepares
<1>2. \A b \in Broadcasts : broadcasts[b].broadcast = 0 /\ broadcasts[b].controlVersion = 0
  BY DEF NoRoom
<1>3. KindsInv /\ \A t, data : ~HeldData(t, data)
  BY <1>1 DEF KindsInv, HeldData
<1>4. AgreesInv
  BY <1>2 DEF AgreesInv, AgreeOn
<1> QED BY <1>2, <1>3, <1>4

LEMMA NoRoomOK == RoomOK(NoRoom) /\ NoRoom.broadcast = 0 /\ NoRoom.state = "stopped"
BY DEF RoomOK, NoRoom

LEMMA FirstRooms ==
    ASSUME Init PROVE BInv
<1>0. 0 \notin Broadcasts
  BY RoomsAssumption DEF Broadcasts
<1>1. /\ handlers = <<>> /\ prepares = <<>> /\ broadcasts = [b \in Broadcasts |-> NoRoom]
      /\ crossed = [b \in Broadcasts |-> FALSE] /\ ended = {}
      /\ contexts = [c \in Contexts |-> NoRoom] /\ rows = [c \in Contexts |-> NoRoom]
  BY DEF Init, InitBroadcasts
<1>2. /\ KindsInv /\ AgreesInv /\ \A t, data : ~HeldData(t, data)
      /\ \A b \in Broadcasts : broadcasts[b].broadcast = 0 /\ broadcasts[b].controlVersion = 0
  BY <1>0, <1>1, EmptyRooms
<1>3. \A r : HeldRoom(r) => r = NoRoom
  BY <1>1, <1>2 DEF HeldRoom
<1>4. SongsInv
  BY <1>2, <1>3, NoRoomOK DEF SongsInv
<1>5. Running = {} /\ Prepares = {}
  BY <1>1 DEF Running, Prepares
<1>6. StartsInv /\ EndedInv
  BY <1>1, <1>5 DEF StartsInv, EndedInv
<1> QED BY <1>1, <1>2, <1>4, <1>6 DEF BInv

LEMMA RestartRooms == ASSUME MInv, BInv, Restart PROVE BInv'
<1>0. 0 \notin Broadcasts /\ Broadcasts' = Broadcasts /\ ended \subseteq 1 .. started
  BY RoomsAssumption DEF Broadcasts, BInv, StartsInv
<1>1. /\ handlers' = <<>> /\ prepares' = <<>> /\ broadcasts' = [b \in Broadcasts |-> NoRoom]
      /\ crossed' = [b \in Broadcasts |-> FALSE] /\ active' = [d \in Devices |-> 0]
      /\ contexts' = [c \in Contexts |-> NoRoom] /\ UNCHANGED <<rows, started>>
      /\ ended' = {b \in ended : \E c \in Contexts : rows[c].broadcast = b /\ rows[c].state = "stopped"}
  BY DEF Restart, ForgetPrepares, ForgetBroadcasts
<1>2. Running' = {} /\ Prepares' = {}
  BY <1>1 DEF Running, Prepares
<1>3. \A b \in Broadcasts : broadcasts'[b].broadcast = 0 /\ broadcasts'[b].controlVersion = 0
  BY <1>1 DEF NoRoom
<1>4. KindsInv'
  BY <1>2 DEF KindsInv
<1>5. \A t, data : ~HeldData(t, data)'
  BY <1>2 DEF HeldData
<1>6. AgreesInv'
  BY <1>0, <1>3 DEF AgreesInv, AgreeOn
<1>7. SongsInv'
  <2>1. \A s : HeldRoom(s)' => HeldRoom(s) \/ s = NoRoom
    BY <1>0, <1>1, <1>5 DEF HeldRoom
  <2>2. \A s : RoomOK(s)' <=> RoomOK(s)
    BY DEF RoomOK
  <2>3. \A s : HeldRoom(s)' => RoomOK(s)'
    BY <2>1, <2>2, NoRoomOK DEF BInv, SongsInv
  <2>4. \A r, s : HeldRoom(r)' /\ HeldRoom(s)' /\ r.broadcast = s.broadcast /\ r.broadcast # 0 =>
                     r.context = s.context
    BY <2>1, NoRoomOK DEF BInv, SongsInv
  <2> QED BY <1>0, <1>3, <1>5, <2>3, <2>4 DEF SongsInv
<1>8. StartsInv'
  BY <1>0, <1>1, <1>2 DEF StartsInv
<1>9. EndedInv'
  <2>1. ASSUME NEW b \in ended' PROVE Over1(b)'
    <3>1. PICK c \in Contexts : rows[c].broadcast = b /\ rows[c].state = "stopped"
      BY <1>1, <2>1
    <3>2. b \in Broadcasts /\ b # 0
      BY <1>0, <1>1, <2>1, OfBroadcasts DEF MInv
    <3>3. ASSUME NEW a \in Contexts, rows[a].broadcast = b PROVE rows[a].state = "stopped"
      <4>1. HeldRoom(rows[a]) /\ HeldRoom(rows[c])
        BY DEF HeldRoom
      <4>2. rows[a].context = a /\ rows[c].context = c
        BY <3>1, <3>2, <3>3 DEF MInv, Memory, Copies
      <4>3. rows[a].context = rows[c].context
        BY <3>1, <3>2, <3>3, <4>1 DEF BInv, SongsInv
      <4> QED BY <3>1, <4>2, <4>3
    <3> QED BY <1>1, <1>3, <3>2, <3>3 DEF Over1
  <2> QED BY <1>2, <2>1 DEF EndedInv
<1> QED BY <1>0, <1>1, <1>4, <1>6, <1>7, <1>8, <1>9 DEF BInv

(* What the properties say of them.                                        *)
LEMMA BroadcastsAgree ==
    ASSUME MInv, BInv PROVE IndexInQueue /\ EndedStaysEnded /\ BroadcastAgrees
<1>1. IndexInQueue
  <2>1. \A b \in Broadcasts : HeldRoom(broadcasts[b])
    BY DEF HeldRoom
  <2> QED BY <2>1 DEF IndexInQueue, BInv, SongsInv, RoomOK
<1>2. EndedStaysEnded
  BY DEF EndedStaysEnded, BInv, EndedInv, Over1
<1>3. BroadcastAgrees
  <2> SUFFICES ASSUME NEW b \in Broadcasts, NEW room, room = broadcasts[b], room.broadcast = b,
                      ~crossed[b], ~\E h \in Running : handlers[h].timeline = b,
                      contexts[room.context].broadcast = b
               PROVE  contexts[room.context] = room /\ rows[room.context] = room
    BY DEF BroadcastAgrees
  <2>1. room.context \in Contexts
    BY OfBroadcasts DEF MInv, Memory, Rooms1, GoodRoom
  <2>2. AgreeOn(b)
    BY DEF BInv, AgreesInv
  <2> QED BY <2>1, <2>2 DEF AgreeOn, Ahead
<1> QED BY <1>1, <1>2, <1>3

(* In a behaviour about sessions there are none.                           *)
NoBroadcasts == broadcasts = [b \in Broadcasts |-> NoRoom] /\ ended = {}

LEMMA NoneAgree == ASSUME NoBroadcasts PROVE IndexInQueue /\ EndedStaysEnded /\ BroadcastAgrees
<1>1. \A b \in Broadcasts : broadcasts[b].broadcast = 0 /\ broadcasts[b].index = 0
  BY DEF NoBroadcasts, NoRoom
<1>2. 0 \notin Broadcasts
  BY RoomsAssumption DEF Broadcasts
<1> QED BY <1>1, <1>2 DEF NoBroadcasts, IndexInQueue, EndedStaysEnded, BroadcastAgrees

-----------------------------------------------------------------------------
(***************************************************************************)
(* A session: its queue, its context and what each player plays are three  *)
(* kinds of one thing, a value in memory with a row; a handler that has    *)
(* changed one carries a copy of it until it is saved.                     *)
(***************************************************************************)
QueueFields == {"owner", "content", "revision", "controlVersion"}
ContextFields == {"authority", "content", "revision"}
LineFields == {"version", "controlVersion", "seq"}
PlaybackFields == {"version", "controlVersion", "seq", "state", "content"}
CarryFields == {"device", "content", "state", "controlVersion", "queue", "context", "playback",
                "playbacks"}

QueueOK(q) == DOMAIN q = QueueFields /\ q.revision \in Nat
ContextOK(c) == DOMAIN c = ContextFields /\ c.revision \in Nat
LineOK(t) == DOMAIN t = LineFields /\ t.version \in Nat
PlaybackOK(p) == DOMAIN p = PlaybackFields /\ p.version \in Nat
CarryOK(data) ==
    /\ DOMAIN data = CarryFields
    /\ QueueOK(data.queue) /\ ContextOK(data.context) /\ PlaybackOK(data.playback)

Slots == {"queue", "context"} \cup Devices

Values ==
    /\ QueueOK(queue) /\ QueueOK(queueRow) /\ ContextOK(context) /\ ContextOK(contextRow)
    /\ DOMAIN timelines = Devices /\ \A d \in Devices : LineOK(timelines[d])
    /\ DOMAIN playbacks = Devices /\ \A d \in Devices : PlaybackOK(playbacks[d])
    /\ DOMAIN playbackRows = Devices /\ \A d \in Devices : PlaybackOK(playbackRows[d])
    /\ DOMAIN mixed = Slots

(* The tasks of the handlers that have still to save one of them.          *)
SaveBoth == <<"saveContext", "saveQueue">>
SaveReport == <<"saveContext", "savePlayback">>
ReportTodo == <<"reportContext", "saveContext", "savePlayback">>
SyncTodo1 == <<"syncContext", "supersede", "saveContext", "saveQueue">>
SyncTodo2 == <<"syncQueue", "supersede", "saveContext", "saveQueue">>
Restore1 == <<"restoreQueue", "readPlaybacks">>
Restore2 == <<"readPlaybacks">>
Restore3 == <<"restorePlaybacks">>

Of(i, x) ==
    CASE i = "queue" -> x.todo \in {SyncTodo1, SaveSync, SaveBoth, <<"saveQueue">>}
      [] i = "context" -> x.todo \in {SyncTodo2, SaveSync, SaveBoth, SaveReport}
      [] OTHER -> /\ x.todo \in {<<"supersede", "savePlayback">>, <<"savePlayback">>,
                                 ReportTodo, SaveReport}
                  /\ x.data.device = i

Carried(i, x) ==
    CASE i = "queue" -> x.data.queue [] i = "context" -> x.data.context [] OTHER -> x.data.playback

Value(i) == CASE i = "queue" -> queue [] i = "context" -> context [] OTHER -> playbacks[i]

Used(i) ==
    CASE i = "queue" -> queue.owner # "none" [] i = "context" -> context.revision > 0
      [] OTHER -> playbacks[i].version > 0

RowIs(i) ==
    CASE i = "queue" -> queueRow.owner = queue.owner /\ queueRow.content = queue.content
      [] i = "context" -> contextRow = context
      [] OTHER -> playbackRows[i] = playbacks[i]

SlotOK(i) ==
    ~mixed[i] =>
        /\ \A h \in Running : Of(i, handlers[h]) => Carried(i, handlers[h]) = Value(i) /\ Used(i)
        /\ Used(i) => RowIs(i) \/ \E h \in Running : Of(i, handlers[h])

SHandlerOK(x) ==
    /\ CarryOK(x.data)
    /\ x.todo \notin {Restore1, Restore2, Restore3} => x.data.device \in Devices
    /\ x.todo = Restore3 => \A d \in Devices : PlaybackOK(x.data.playbacks[d])

(* What was not changed since by another is still missing in memory.       *)
RestoreOK(x) ==
    /\ x.todo = Restore1 /\ ~mixed["queue"] => queue.owner = "none" /\ queueRow = x.data.queue
    /\ x.todo = Restore3 => \A d \in Devices : ~mixed[d] =>
           playbacks[d].version = 0 /\ x.data.playbacks[d] = playbackRows[d]

SInv ==
    /\ Values
    /\ \A i \in Slots : SlotOK(i)
    /\ \A h \in Running : SHandlerOK(handlers[h]) /\ RestoreOK(handlers[h])
    /\ \A p \in Prepares : Alive(p) => CarryOK(prepares[p].data) /\ prepares[p].data.device \in Devices

-----------------------------------------------------------------------------
(* Instead of h there are those of N; 0 when a new one begins.             *)
Moved(h, N) ==
    /\ \A g \in Running' : \/ handlers'[g] \in N
                           \/ \E f \in Running : f # h /\ handlers'[g] = handlers[f]
    /\ \A f \in Running : f # h => \E g \in Running' : handlers'[g] = handlers[f]
    /\ \A y \in N : \E g \in Running' : handlers'[g] = y

LEMMA TurnMoved == ASSUME NEW h, NEW y, Turn(h, {y}) PROVE Moved(h, {y})
<1>1. PICK where : Moves(h, {y}, where)
  BY DEF Turn
<1>2. \E g \in Running' : handlers'[g] = y
  BY <1>1 DEF Moves, Turn
<1>3. \A f \in Running : f # h => \E g \in Running' : handlers'[g] = handlers[f]
  BY <1>1 DEF Moves
<1>4. \A g \in Running' : \/ handlers'[g] \in {y}
                          \/ \E f \in Running : f # h /\ handlers'[g] = handlers[f]
  BY <1>1 DEF Moves
<1> QED BY <1>2, <1>3, <1>4 DEF Moved

LEMMA EndMoved == ASSUME NEW h, Turn(h, {}) PROVE Moved(h, {})
<1>1. PICK where : Moves(h, {}, where)
  BY DEF Turn
<1>2. \A f \in Running : f # h => \E g \in Running' : handlers'[g] = handlers[f]
  BY <1>1 DEF Moves
<1>3. \A g \in Running' : \E f \in Running : f # h /\ handlers'[g] = handlers[f]
  BY <1>1 DEF Moves
<1> QED BY <1>2, <1>3 DEF Moved

LEMMA TakesMoved ==
    ASSUME IsSeq(handlers), NEW x, TakesOn(x) PROVE Moved(0, {x}) /\ 0 \notin Running
<1>1. 0 \notin Running
  BY SeqFacts DEF Running
<1> QED BY <1>1 DEF Moved, TakesOn

LEMMA SameMoved ==
    ASSUME IsSeq(handlers), UNCHANGED handlers PROVE Moved(0, {}) /\ 0 \notin Running
<1>1. 0 \notin Running
  BY SeqFacts DEF Running
<1> QED BY <1>1 DEF Moved, Running

(* What a step can do to one of them.                                      *)
Kept(i) ==
    CASE i = "queue" -> UNCHANGED <<queue, queueRow>>
      [] i = "context" -> UNCHANGED <<context, contextRow>>
      [] OTHER -> playbacks'[i] = playbacks[i] /\ playbackRows'[i] = playbackRows[i]

Stays(i, h, N) ==
    /\ (mixed'[i] <=> mixed[i]) /\ Kept(i)
    /\ \A y \in N : Of(i, y) => /\ h \in Running /\ Of(i, handlers[h])
                                /\ Carried(i, y) = Carried(i, handlers[h])
    /\ h \in Running /\ Of(i, handlers[h]) => \E y \in N : Of(i, y)

Changes(i, h, N) ==
    /\ mixed'[i] \/ Running \subseteq {h}
    /\ \A y \in N : Of(i, y) => Carried(i, y) = Value(i)' /\ Used(i)'
    /\ ~mixed'[i] /\ Used(i)' => RowIs(i)' \/ \E y \in N : Of(i, y)

Saves(i, h, N) ==
    /\ mixed'[i] = mixed[i] /\ Value(i)' = Value(i)
    /\ h \in Running /\ Of(i, handlers[h]) /\ \A y \in N : ~Of(i, y)
    /\ ~mixed[i] => RowIs(i)'

Finds(i, N) ==
    /\ mixed'[i] = mixed[i] /\ ~Used(i) /\ RowIs(i)'
    /\ \A y \in N : ~Of(i, y)

SlotStep(i, h, N) ==
    \/ Stays(i, h, N) \/ Changes(i, h, N) \/ Saves(i, h, N)
    \/ i = "context" /\ Finds(i, N)

LEMMA SameUsed ==
    ASSUME NEW i \in Slots
    PROVE  /\ Value(i)' = Value(i) => (Used(i)' <=> Used(i))
           /\ Kept(i) => Value(i)' = Value(i) /\ (RowIs(i)' <=> RowIs(i))
<1>1. CASE i = "queue"
  BY <1>1 DEF Value, Used, Kept, RowIs
<1>2. CASE i = "context"
  BY <1>2 DEF Value, Used, Kept, RowIs
<1>3. CASE i \notin {"queue", "context"}
  BY <1>3 DEF Value, Used, Kept, RowIs
<1> QED BY <1>1, <1>2, <1>3

LEMMA SlotStays ==
    ASSUME NEW i \in Slots, SlotOK(i), NEW h, NEW N, Moved(h, N), Stays(i, h, N) PROVE SlotOK(i)'
<1> SUFFICES ASSUME ~mixed[i] PROVE SlotOK(i)'
  BY DEF SlotOK, Stays
<1>1. /\ Value(i)' = Value(i) /\ (RowIs(i)' <=> RowIs(i)) /\ (Used(i)' <=> Used(i))
  BY SameUsed DEF Stays
<1>2. ASSUME NEW g \in Running', Of(i, handlers'[g])
      PROVE  Carried(i, handlers'[g]) = Value(i)' /\ Used(i)'
  <2>1. PICK y : y = handlers'[g]
    OBVIOUS
  <2>2. \E f \in Running : Of(i, handlers[f]) /\ Carried(i, handlers[f]) = Carried(i, y)
    BY <1>2, <2>1 DEF Moved, Stays
  <2> QED BY <1>1, <2>1, <2>2 DEF SlotOK
<1>3. ASSUME NEW f \in Running, Of(i, handlers[f]) PROVE \E g \in Running' : Of(i, handlers'[g])
  <2>1. CASE f = h
    BY <1>3, <2>1 DEF Moved, Stays
  <2>2. CASE f # h
    BY <1>3, <2>2 DEF Moved
  <2> QED BY <2>1, <2>2
<1>4. Used(i)' => RowIs(i)' \/ \E g \in Running' : Of(i, handlers'[g])
  BY <1>1, <1>3 DEF SlotOK
<1> QED BY <1>2, <1>4 DEF SlotOK, Of, Carried

LEMMA SlotChanges ==
    ASSUME NEW i \in Slots, NEW h, NEW N, Moved(h, N), Changes(i, h, N) PROVE SlotOK(i)'
<1> SUFFICES ASSUME ~mixed'[i] PROVE SlotOK(i)'
  BY DEF SlotOK
<1>1. \A g \in Running' : handlers'[g] \in N
  BY DEF Moved, Changes
<1>2. \A g \in Running' : Of(i, handlers'[g]) => Carried(i, handlers'[g]) = Value(i)' /\ Used(i)'
  BY <1>1 DEF Changes
<1>3. Used(i)' => RowIs(i)' \/ \E g \in Running' : Of(i, handlers'[g])
  BY DEF Changes, Moved
<1> QED BY <1>2, <1>3 DEF SlotOK, Of, Carried

LEMMA SlotSaves ==
    ASSUME NEW i \in Slots, SlotOK(i), NEW h, NEW N, Moved(h, N), Saves(i, h, N) PROVE SlotOK(i)'
<1> SUFFICES ASSUME ~mixed[i] PROVE SlotOK(i)'
  BY DEF SlotOK, Saves
<1>1. Value(i)' = Value(i) /\ (Used(i)' <=> Used(i)) /\ RowIs(i)'
  BY SameUsed DEF Saves
<1>2. ASSUME NEW g \in Running', Of(i, handlers'[g])
      PROVE  Carried(i, handlers'[g]) = Value(i)' /\ Used(i)'
  <2>1. PICK f \in Running : handlers'[g] = handlers[f]
    BY <1>2 DEF Moved, Saves
  <2> QED BY <1>1, <1>2, <2>1 DEF SlotOK
<1> QED BY <1>1, <1>2 DEF SlotOK, Of, Carried

LEMMA SlotFinds ==
    ASSUME NEW i \in Slots, SlotOK(i), NEW h, NEW N, Moved(h, N), Finds(i, N) PROVE SlotOK(i)'
<1> SUFFICES ASSUME ~mixed[i] PROVE SlotOK(i)'
  BY DEF SlotOK, Finds
<1>1. \A g \in Running' : ~Of(i, handlers'[g])
  <2>1. \A f \in Running : ~Of(i, handlers[f])
    BY DEF SlotOK, Finds
  <2> QED BY <2>1 DEF Moved, Finds
<1> QED BY <1>1 DEF SlotOK, Of, Carried, Finds

LEMMA SlotSteps ==
    ASSUME NEW i \in Slots, SlotOK(i), NEW h, NEW N, Moved(h, N), SlotStep(i, h, N) PROVE SlotOK(i)'
BY SlotStays, SlotChanges, SlotSaves, SlotFinds DEF SlotStep

(* What others have read to restore is still so.                           *)
LEMMA RestoreStays ==
    ASSUME \A i \in Slots : SlotOK(i), NEW h, NEW N, \A i \in Slots : SlotStep(i, h, N),
           NEW f \in Running, f # h, NEW x, x = handlers[f], RestoreOK(x)
    PROVE  RestoreOK(x)'
<1>1. ASSUME NEW i \in Slots, i # "context", ~mixed'[i]
      PROVE  ~mixed[i] /\ (Used(i) \/ Kept(i))
  <2>1. CASE Stays(i, h, N)
    BY <1>1, <2>1 DEF Stays
  <2>2. CASE Changes(i, h, N)
    BY <1>1, <2>2 DEF Changes
  <2>3. CASE Saves(i, h, N)
    BY <1>1, <2>3 DEF Saves, SlotOK
  <2> QED BY <1>1, <2>1, <2>2, <2>3 DEF SlotStep
<1>2. ASSUME x.todo = Restore1, ~mixed'["queue"] PROVE queue'.owner = "none" /\ queueRow' = x.data.queue
  <2>1. ~mixed["queue"] /\ (Used("queue") \/ Kept("queue"))
    BY <1>1, <1>2 DEF Slots
  <2>2. queue.owner = "none" /\ queueRow = x.data.queue
    BY <1>2, <2>1 DEF RestoreOK
  <2> QED BY <2>1, <2>2 DEF Used, Kept
<1>3. ASSUME x.todo = Restore3, NEW d \in Devices, ~mixed'[d]
      PROVE  playbacks'[d].version = 0 /\ x.data.playbacks[d] = playbackRows'[d]
  <2>0. d \notin {"queue", "context"}
    BY SessionsAssumption
  <2>1. ~mixed[d] /\ (Used(d) \/ Kept(d))
    BY <1>1, <1>3, <2>0 DEF Slots
  <2>2. playbacks[d].version = 0 /\ x.data.playbacks[d] = playbackRows[d]
    BY <1>3, <2>1 DEF RestoreOK
  <2> QED BY <2>0, <2>1, <2>2 DEF Used, Kept
<1> QED BY <1>2, <1>3 DEF RestoreOK

(* A step of a session.                                                    *)
SessionStep(h, N) ==
    /\ Moved(h, N) /\ \A i \in Slots : SlotStep(i, h, N)
    /\ \A y \in N : SHandlerOK(y) /\ RestoreOK(y)'
    /\ Values'

PlayersKeep ==
    \A p \in Prepares' : Alive(p)' =>
        CarryOK(prepares'[p].data) /\ prepares'[p].data.device \in Devices

LEMMA SessionKeeps ==
    ASSUME SInv, NEW h, NEW N, SessionStep(h, N), PlayersKeep PROVE SInv'
<1>1. \A i \in Slots : SlotOK(i)'
  BY SlotSteps DEF SInv, SessionStep
<1>2. ASSUME NEW g \in Running', NEW x, x = handlers'[g] PROVE SHandlerOK(x) /\ RestoreOK(x)'
  <2>1. CASE x \in N
    BY <2>1 DEF SessionStep
  <2>2. ASSUME NEW f \in Running, f # h, x = handlers[f] PROVE SHandlerOK(x) /\ RestoreOK(x)'
    <3>1. RestoreOK(x)'
      BY <2>2, RestoreStays DEF SInv, SessionStep
    <3> QED BY <2>2, <3>1 DEF SInv
  <2> QED BY <1>2, <2>1, <2>2 DEF SessionStep, Moved
<1>3. \A g \in Running' : SHandlerOK(handlers[g])' /\ RestoreOK(handlers[g])'
  <2> SUFFICES ASSUME NEW g \in Running' PROVE SHandlerOK(handlers[g])' /\ RestoreOK(handlers[g])'
    OBVIOUS
  <2>1. PICK x : x = handlers'[g]
    OBVIOUS
  <2>2. SHandlerOK(x) /\ RestoreOK(x)'
    BY <1>2, <2>1
  <2> QED BY <2>1, <2>2 DEF SHandlerOK, RestoreOK
<1>4. Slots' = Slots /\ Values'
  BY DEF Slots, SessionStep
<1> QED BY <1>1, <1>3, <1>4 DEF SInv, PlayersKeep

-----------------------------------------------------------------------------
(* Who carries what.                                                       *)
Saving1 == <<"savePlayback">>
Saving2 == <<"supersede", "savePlayback">>
SavingQueue == <<"saveQueue">>
Controls == {<<"control", "supersede", "savePlayback">>, <<"control", "savePlayback">>}
Idle == {Creating, Restore1, Restore2, Restore3} \cup Controls \cup Deciding \cup
        {Create3, Update3, Single, Stop4} \cup Past

LEMMA OfWhich ==
    ASSUME NEW i \in Slots, NEW x
    PROVE  /\ x.todo = SyncTodo1 => (Of(i, x) <=> i = "queue")
           /\ x.todo = SyncTodo2 => (Of(i, x) <=> i = "context")
           /\ x.todo \in {SaveSync, SaveBoth} => (Of(i, x) <=> i \in {"queue", "context"})
           /\ x.todo = SavingQueue => (Of(i, x) <=> i = "queue")
           /\ x.todo = SaveReport => (Of(i, x) <=> i = "context" \/ (i # "queue" /\ i = x.data.device))
           /\ x.todo \in {ReportTodo, Saving1, Saving2} =>
                  (Of(i, x) <=> i \notin {"queue", "context"} /\ i = x.data.device)
           /\ x.todo \in Idle => ~Of(i, x)
<1> USE DEF SyncTodo1, SyncTodo2, SaveSync, SaveBoth, SavingQueue, SaveReport, ReportTodo, Saving1, Saving2
<1>q. Of("queue", x) <=> x.todo \in {SyncTodo1, SaveSync, SaveBoth, SavingQueue}
  BY DEF Of
<1>c. Of("context", x) <=> x.todo \in {SyncTodo2, SaveSync, SaveBoth, SaveReport}
  BY DEF Of
<1>d. i \notin {"queue", "context"} =>
        (Of(i, x) <=> x.todo \in {Saving2, Saving1, ReportTodo, SaveReport} /\ x.data.device = i)
  BY DEF Of
<1>1. x.todo = SyncTodo1 => (Of(i, x) <=> i = "queue")
  BY <1>q, <1>c, <1>d
<1>2. x.todo = SyncTodo2 => (Of(i, x) <=> i = "context")
  BY <1>q, <1>c, <1>d
<1>3. x.todo = SaveSync => (Of(i, x) <=> i \in {"queue", "context"})
  BY <1>q, <1>c, <1>d
<1>4. x.todo = SaveBoth => (Of(i, x) <=> i \in {"queue", "context"})
  BY <1>q, <1>c, <1>d
<1>5. x.todo = SavingQueue => (Of(i, x) <=> i = "queue")
  BY <1>q, <1>c, <1>d
<1>6. x.todo = SaveReport => (Of(i, x) <=> i = "context" \/ (i # "queue" /\ i = x.data.device))
  BY <1>q, <1>c, <1>d
<1>7. x.todo = ReportTodo => (Of(i, x) <=> i \notin {"queue", "context"} /\ i = x.data.device)
  BY <1>q, <1>c, <1>d
<1>8. x.todo = Saving1 => (Of(i, x) <=> i \notin {"queue", "context"} /\ i = x.data.device)
  BY <1>q, <1>c, <1>d
<1>9. x.todo = Saving2 => (Of(i, x) <=> i \notin {"queue", "context"} /\ i = x.data.device)
  BY <1>q, <1>c, <1>d
<1>10. x.todo \in {Creating, Restore1, Restore2, Restore3} => ~Of(i, x)
  BY <1>q, <1>c, <1>d DEF Creating, Restore1, Restore2, Restore3
<1>11. x.todo \in Controls => ~Of(i, x)
  BY <1>q, <1>c, <1>d DEF Controls
<1>12. x.todo \in Deciding => ~Of(i, x)
  BY <1>q, <1>c, <1>d DEF Deciding
<1>13. x.todo \in {Create3, Update3, Single, Stop4} => ~Of(i, x)
  BY <1>q, <1>c, <1>d DEF Create3, Update3, Single, Stop4
<1>14. x.todo \in Past => ~Of(i, x)
  BY <1>q, <1>c, <1>d DEF Past
<1> QED
  BY <1>1, <1>2, <1>3, <1>4, <1>5, <1>6, <1>7, <1>8, <1>9, <1>10, <1>11, <1>12, <1>13, <1>14 DEF Idle

(* What is carried at first, and what becomes of it.                       *)
LEMMA CarryIs ==
    /\ CarryOK(Carry) /\ Carry.device = "none"
    /\ DOMAIN Carry = CarryFields
    /\ \A q : QueueOK(q) => /\ CarryOK([Carry EXCEPT !.queue = q])
                            /\ [Carry EXCEPT !.queue = q].queue = q
BY DEF CarryOK, Carry, CarryFields, QueueOK, ContextOK, PlaybackOK, NoQueue, NoContext, NoPlayback,
       QueueFields, ContextFields, PlaybackFields

LEMMA CarryHas ==
    ASSUME NEW data, CarryOK(data), NEW new, DOMAIN new = CarryFields,
           QueueOK(new.queue) \/ new.queue = data.queue,
           ContextOK(new.context) \/ new.context = data.context,
           PlaybackOK(new.playback) \/ new.playback = data.playback
    PROVE  CarryOK(new)
BY DEF CarryOK

LEMMA OtherTodos ==
    /\ {SyncTodo1, SyncTodo2, ReportTodo, SaveSync, SaveBoth, SaveReport, SavingQueue, Saving1, Saving2,
        Creating, ControlTodo} \cap {Restore1, Restore2, Restore3} = {}
    /\ Controls \cap {Restore1, Restore2, Restore3} = {}
    /\ Restore1 # Restore3 /\ Restore2 \notin {Restore1, Restore3}
    /\ ControlTodo \in Controls
<1>1. {SyncTodo1, SyncTodo2, ReportTodo} \cap {Restore1, Restore2, Restore3} = {}
  BY DEF SyncTodo1, SyncTodo2, ReportTodo, Restore1, Restore2, Restore3
<1>2. {SaveSync, SaveBoth, SaveReport} \cap {Restore1, Restore2, Restore3} = {}
  BY DEF SaveSync, SaveBoth, SaveReport, Restore1, Restore2, Restore3
<1>3. {SavingQueue, Saving1, Saving2} \cap {Restore1, Restore2, Restore3} = {}
  BY DEF SavingQueue, Saving1, Saving2, Restore1, Restore2, Restore3
<1>4. {Creating, ControlTodo} \cap {Restore1, Restore2, Restore3} = {}
  BY DEF Creating, ControlTodo, Restore1, Restore2, Restore3
<1>5. Controls \cap {Restore1, Restore2, Restore3} = {}
  BY DEF Controls, Restore1, Restore2, Restore3
<1>6. Restore1 # Restore3 /\ Restore2 \notin {Restore1, Restore3}
  BY DEF Restore1, Restore2, Restore3
<1>7. ControlTodo \in Controls
  BY DEF Controls, ControlTodo
<1> QED BY <1>1, <1>2, <1>3, <1>4, <1>5, <1>6, <1>7

LEMMA SlotsAre == "queue" \in Slots /\ "context" \in Slots /\ Devices \subseteq Slots
                  /\ Devices \cap {"queue", "context"} = {} /\ "queue" # "context"
BY SessionsAssumption DEF Slots

(* A request that only begins.                                             *)
LEMMA BeginSession ==
    ASSUME PInv, SInv, UNCHANGED sessionVars, UNCHANGED prepares, NEW x, TakesOn(x), x.todo \in Idle,
           SHandlerOK(x), RestoreOK(x)
    PROVE  SInv'
<1>1. Moved(0, {x}) /\ 0 \notin Running
  BY TakesMoved DEF PInv, Sequenced
<1>2. \A i \in Slots : Stays(i, 0, {x})
  <2> SUFFICES ASSUME NEW i \in Slots PROVE Stays(i, 0, {x})
    OBVIOUS
  <2>1. Kept(i) /\ mixed'[i] = mixed[i]
    BY DEF Kept, sessionVars
  <2>2. ~Of(i, x)
    BY OfWhich
  <2> QED BY <1>1, <2>1, <2>2 DEF Stays
<1>3. Values' /\ RestoreOK(x)'
  BY DEF Values, SInv, sessionVars, RestoreOK, Slots
<1>4. SessionStep(0, {x})
  <2>1. \A y \in {x} : SHandlerOK(y) /\ RestoreOK(y)'
    <3> SUFFICES ASSUME NEW y \in {x} PROVE SHandlerOK(y) /\ RestoreOK(y)'
      OBVIOUS
    <3> QED BY <1>3 DEF RestoreOK
  <2> QED BY <1>1, <1>2, <1>3, <2>1 DEF SessionStep, SlotStep
<1>5. PlayersKeep
  BY DEF PlayersKeep, SInv, Prepares, Alive
<1> QED BY <1>4, <1>5, SessionKeeps

LEMMA ControlsKeep ==
    ASSUME PInv, SInv, UNCHANGED prepares, NEW d \in Devices, NEW content1,
           \/ PauseSource(d) \/ SeekSource(d)
           \/ \E twoPhase \in BOOLEAN : PlaySource(d, content1, twoPhase)
    PROVE  SInv'
<1>1. PICK state, content, todo :
        /\ Begin(d, 0, ControlData(d, state, content), todo) /\ todo \in {ControlTodo, Creating}
        /\ UNCHANGED sessionVars
  BY DEF PauseSource, SeekSource, PlaySource, Creating
<1>2. PICK data : data = ControlData(d, state, content)
  OBVIOUS
<1>3. PICK x : x = Handler(d, 0, data, todo)
  OBVIOUS
<1>4. TakesOn(x) /\ x.todo = todo /\ x.data = data
  BY <1>1, <1>2, <1>3, BeginsTakesOn, HandlerIs DEF PInv, Sequenced
<1>5. DOMAIN data = CarryFields /\ data.device = d /\ data.queue = Carry.queue
      /\ data.context = Carry.context /\ data.playback = Carry.playback
  BY <1>2, CarryIs DEF ControlData, CarryFields
<1>6. CarryOK(data)
  BY <1>5, CarryIs, CarryHas
<1>7. x.todo \notin {Restore1, Restore2, Restore3} /\ x.todo \in Idle
  BY <1>1, <1>4, OtherTodos DEF Idle
<1>8. SHandlerOK(x) /\ RestoreOK(x)
  BY <1>4, <1>5, <1>6, <1>7 DEF SHandlerOK, RestoreOK
<1> QED BY <1>1, <1>4, <1>7, <1>8, BeginSession

LEMMA ReturnKeeps == ASSUME PInv, SInv, UNCHANGED prepares, Return PROVE SInv'
<1>1. PICK data : data = [Carry EXCEPT !.queue = queueRow]
  OBVIOUS
<1>2. PICK x : x = Handler(SharedTimeline, 0, data, Restore1)
  OBVIOUS
<1>3. /\ Begin(SharedTimeline, 0, data, Restore1) /\ queue.owner = "none" /\ UNCHANGED sessionVars
  BY <1>1 DEF Return, Restore1
<1>4. TakesOn(x) /\ x.todo = Restore1 /\ x.data = data
  BY <1>2, <1>3, BeginsTakesOn, HandlerIs DEF PInv, Sequenced
<1>5. CarryOK(data) /\ data.queue = queueRow
  BY <1>1, CarryIs DEF SInv, Values
<1>6. SHandlerOK(x) /\ RestoreOK(x)
  BY <1>3, <1>4, <1>5, OtherTodos DEF SHandlerOK, RestoreOK
<1>7. x.todo \in Idle
  BY <1>4 DEF Idle
<1> QED BY <1>3, <1>4, <1>6, <1>7, BeginSession

-----------------------------------------------------------------------------
(* Requests that change what they carry.                                   *)
LEMMA StepKeeps ==
    ASSUME SInv, UNCHANGED prepares, NEW h, NEW N, SessionStep(h, N) PROVE SInv'
<1>1. PlayersKeep
  BY DEF PlayersKeep, SInv, Prepares, Alive
<1> QED BY <1>1, SessionKeeps

Begins(i, x) ==
    \/ (mixed'[i] <=> mixed[i]) /\ Kept(i) /\ ~Of(i, x)
    \/ (mixed'[i] <=> ~First) /\ Of(i, x) /\ Carried(i, x) = Value(i)' /\ Used(i)'
    \/ mixed'[i] = mixed[i] /\ i = "context" /\ ~Used(i) /\ RowIs(i)' /\ ~Of(i, x)

LEMMA BeginChanges ==
    ASSUME PInv, SInv, UNCHANGED prepares, NEW x, TakesOn(x), SHandlerOK(x),
           x.todo \notin {Restore1, Restore3}, Values', \A i \in Slots : Begins(i, x)
    PROVE  SInv'
<1>1. Moved(0, {x}) /\ 0 \notin Running
  BY TakesMoved DEF PInv, Sequenced
<1>2. First => Running = {}
  BY DEF First, Running
<1>3. \A i \in Slots : SlotStep(i, 0, {x})
  <2> SUFFICES ASSUME NEW i \in Slots PROVE SlotStep(i, 0, {x})
    OBVIOUS
  <2>1. CASE (mixed'[i] <=> mixed[i]) /\ Kept(i) /\ ~Of(i, x)
    BY <1>1, <2>1 DEF Stays, SlotStep
  <2>2. CASE (mixed'[i] <=> ~First) /\ Of(i, x) /\ Carried(i, x) = Value(i)' /\ Used(i)'
    BY <1>2, <2>2 DEF Changes, SlotStep
  <2>3. CASE mixed'[i] = mixed[i] /\ i = "context" /\ ~Used(i) /\ RowIs(i)' /\ ~Of(i, x)
    BY <2>3 DEF Finds, SlotStep
  <2> QED BY <2>1, <2>2, <2>3 DEF Begins
<1>4. \A y \in {x} : SHandlerOK(y) /\ RestoreOK(y)'
  <2> SUFFICES ASSUME NEW y \in {x} PROVE SHandlerOK(y) /\ RestoreOK(y)'
    OBVIOUS
  <2> QED BY DEF RestoreOK
<1> QED BY <1>1, <1>3, <1>4, StepKeeps DEF SessionStep

LEMMA FoundIs ==
    ASSUME Values
    PROVE  ContextOK(FoundContext) /\ (context.revision > 0 => FoundContext = context)
           /\ (~(context.revision > 0) => FoundContext = contextRow)
BY DEF Values, FoundContext

LEMMA SyncTodos ==
    /\ <<"syncQueue">> \o SaveSync = SyncTodo2 /\ <<"syncContext">> \o SaveSync = SyncTodo1
BY SyncTodo DEF SyncTodo1, SyncTodo2

LEMMA SyncContextFirstKeeps ==
    ASSUME PInv, SInv, UNCHANGED prepares, NEW d \in Devices, NEW content, SyncContextFirst(d, content)
    PROVE  SInv'
<1>1. PICK new : new = SyncedContext(d, content)
  OBVIOUS
<1>2. PICK data : data = [Carry EXCEPT !.content = content, !.context = new, !.device = d]
  OBVIOUS
<1>3. PICK x : x = Handler(SharedTimeline, 0, data, SyncTodo2)
  OBVIOUS
<1>4. /\ context' = new /\ Begin(SharedTimeline, 0, data, SyncTodo2)
      /\ mixed' = [mixed EXCEPT !["context"] = ~First]
      /\ UNCHANGED <<queue, queueRow, contextRow, timelines, playbacks, playbackRows>>
  BY <1>1, <1>2, SyncTodos DEF SyncContextFirst, Mixes
<1>5. TakesOn(x) /\ x.todo = SyncTodo2 /\ x.data = data
  BY <1>3, <1>4, BeginsTakesOn, HandlerIs DEF PInv, Sequenced
<1>6. ContextOK(new) /\ new.revision > 0
  <2>1. ContextOK(FoundContext)
    BY FoundIs DEF SInv
  <2> QED BY <1>1, <2>1 DEF SyncedContext, ContextOK, ContextFields
<1>7. DOMAIN data = CarryFields /\ data.device = d /\ data.queue = Carry.queue
      /\ data.context = new /\ data.playback = Carry.playback
  BY <1>2, CarryIs DEF CarryFields
<1>8. CarryOK(data)
  BY <1>6, <1>7, CarryIs, CarryHas
<1>9. SHandlerOK(x) /\ x.todo \notin {Restore1, Restore3}
  BY <1>5, <1>7, <1>8, OtherTodos DEF SHandlerOK
<1>10. ASSUME NEW i \in Slots PROVE Begins(i, x)
  <2>1. CASE i = "context"
    <3>1. Of(i, x) /\ (mixed'[i] <=> ~First)
      BY <1>4, <1>5, <2>1, OfWhich DEF SInv, Values
    <3>2. Carried(i, x) = Value(i)' /\ Used(i)'
      BY <1>4, <1>5, <1>6, <1>7, <2>1 DEF Carried, Value, Used
    <3> QED BY <3>1, <3>2 DEF Begins
  <2>2. CASE i # "context"
    <3>1. ~Of(i, x) /\ mixed'[i] = mixed[i]
      BY <1>4, <1>5, <2>2, OfWhich DEF SInv, Values
    <3>2. Kept(i)
      BY <1>4, <2>2 DEF Kept
    <3> QED BY <3>1, <3>2 DEF Begins
  <2> QED BY <2>1, <2>2
<1>11. Values'
  BY <1>4, <1>6 DEF Values, SInv, Slots
<1> QED BY <1>5, <1>9, <1>10, <1>11, BeginChanges

LEMMA SyncQueueFirstKeeps ==
    ASSUME PInv, SInv, UNCHANGED prepares, NEW d \in Devices, NEW content, SyncQueueFirst(d, content)
    PROVE  SInv'
<1>1. PICK new : new = SyncedQueue(d, content)
  OBVIOUS
<1>2. PICK data : data = [Carry EXCEPT !.content = content, !.queue = new, !.device = d]
  OBVIOUS
<1>3. PICK x : x = Handler(d, 0, data, SyncTodo1)
  OBVIOUS
<1>4. /\ queue' = new /\ Begin(d, 0, data, SyncTodo1)
      /\ timelines' = [timelines EXCEPT ![d] = SyncedTimeline(d)]
      /\ context' = FoundContext
      /\ mixed' = [mixed EXCEPT !["queue"] = ~First]
      /\ UNCHANGED <<queueRow, contextRow, playbacks, playbackRows>>
  BY <1>1, <1>2, SyncTodos DEF SyncQueueFirst, Mixes
<1>5. TakesOn(x) /\ x.todo = SyncTodo1 /\ x.data = data
  BY <1>3, <1>4, BeginsTakesOn, HandlerIs DEF PInv, Sequenced
<1>6. QueueOK(new) /\ new.owner = d
  BY <1>1 DEF SyncedQueue, QueueRevision, QueueOK, QueueFields, SInv, Values
<1>7. DOMAIN data = CarryFields /\ data.device = d /\ data.context = Carry.context
      /\ data.queue = new /\ data.playback = Carry.playback
  BY <1>2, CarryIs DEF CarryFields
<1>8. CarryOK(data)
  BY <1>6, <1>7, CarryIs, CarryHas
<1>9. SHandlerOK(x) /\ x.todo \notin {Restore1, Restore3}
  BY <1>5, <1>7, <1>8, OtherTodos DEF SHandlerOK
<1>10. ASSUME NEW i \in Slots PROVE Begins(i, x)
  <2>1. CASE i = "queue"
    <3>1. Of(i, x) /\ (mixed'[i] <=> ~First)
      BY <1>4, <1>5, <2>1, OfWhich DEF SInv, Values
    <3>2. Carried(i, x) = Value(i)' /\ Used(i)'
      BY <1>4, <1>5, <1>6, <1>7, <2>1, RoomsAssumption DEF Carried, Value, Used
    <3> QED BY <3>1, <3>2 DEF Begins
  <2>2. CASE i # "queue"
    <3>1. ~Of(i, x) /\ mixed'[i] = mixed[i]
      BY <1>4, <1>5, <2>2, OfWhich DEF SInv, Values
    <3>2. CASE i # "context"
      BY <1>4, <2>2, <3>1, <3>2 DEF Kept, Begins
    <3>3. CASE i = "context" /\ context.revision > 0
      BY <1>4, <3>1, <3>3, FoundIs DEF Kept, Begins, SInv
    <3>4. CASE i = "context" /\ ~(context.revision > 0)
      BY <1>4, <3>1, <3>4, FoundIs DEF Used, RowIs, Begins, SInv
    <3> QED BY <3>2, <3>3, <3>4
  <2> QED BY <2>1, <2>2
<1>11. Values'
  <2>1. LineOK(SyncedTimeline(d))
    BY DEF SyncedTimeline, LineOK, SInv, Values
  <2> QED BY <1>4, <1>6, <2>1, FoundIs DEF Values, SInv, Slots
<1> QED BY <1>5, <1>9, <1>10, <1>11, BeginChanges

LEMMA ReportLines ==
    /\ SaveReport = <<"saveContext", "savePlayback">>
    /\ ReportTodo = <<"reportContext", "saveContext", "savePlayback">>
BY DEF SaveReport, ReportTodo

LEMMA ReportKeeps ==
    ASSUME PInv, SInv, UNCHANGED prepares, NEW d \in Devices, NEW seq, NEW content,
           Report(d, seq, content)
    PROVE  SInv'
<1>0. d \notin {"queue", "context"} /\ d \in Slots
  BY SlotsAre
<1>1. PICK line : line = Reported(d, seq)
  OBVIOUS
<1>2. PICK new : new = [playbacks[d] EXCEPT
            !.version = line.version, !.controlVersion = line.controlVersion,
            !.seq = seq, !.state = "playing", !.content = content]
  OBVIOUS
<1>3. PICK data : data = [Carry EXCEPT !.playback = new, !.device = d]
  OBVIOUS
<1>4. PICK x : x = Handler(SharedTimeline, 0, data, ReportTodo)
  OBVIOUS
<1>5. /\ timelines' = [timelines EXCEPT ![d] = line]
      /\ playbacks' = [playbacks EXCEPT ![d] = new]
      /\ Begin(SharedTimeline, 0, data, ReportTodo)
      /\ context' = FoundContext
      /\ mixed' = [mixed EXCEPT ![d] = ~First]
      /\ UNCHANGED <<queue, queueRow, contextRow, playbackRows>>
  BY <1>1, <1>2, <1>3 DEF Report, Mixes, ReportTodo
<1>6. TakesOn(x) /\ x.todo = ReportTodo /\ x.data = data
  BY <1>4, <1>5, BeginsTakesOn, HandlerIs DEF PInv, Sequenced
<1>7. LineOK(line) /\ line.version > 0
  BY <1>1 DEF Reported, LineOK, LineFields, SInv, Values
<1>8. PlaybackOK(new) /\ new.version > 0
  <2>1. PlaybackOK(playbacks[d])
    BY DEF SInv, Values
  <2> QED BY <1>2, <1>7, <2>1 DEF PlaybackOK, PlaybackFields, LineOK
<1>9. DOMAIN data = CarryFields /\ data.device = d /\ data.context = Carry.context
      /\ data.queue = Carry.queue /\ data.playback = new
  BY <1>3, CarryIs DEF CarryFields
<1>10. CarryOK(data)
  BY <1>8, <1>9, CarryIs, CarryHas
<1>11. SHandlerOK(x) /\ x.todo \notin {Restore1, Restore3}
  BY <1>6, <1>9, <1>10, OtherTodos DEF SHandlerOK
<1>12. ASSUME NEW i \in Slots PROVE Begins(i, x)
  <2>1. CASE i = d
    <3>1. Of(i, x) /\ (mixed'[i] <=> ~First)
      BY <1>0, <1>5, <1>6, <1>9, <2>1, OfWhich DEF SInv, Values
    <3>2. Carried(i, x) = Value(i)' /\ Used(i)'
      BY <1>0, <1>5, <1>6, <1>8, <1>9, <2>1 DEF Carried, Value, Used, SInv, Values
    <3> QED BY <3>1, <3>2 DEF Begins
  <2>2. CASE i # d
    <3>1. ~Of(i, x) /\ mixed'[i] = mixed[i]
      BY <1>5, <1>6, <1>9, <2>2, OfWhich DEF SInv, Values
    <3>2. CASE i # "context"
      <4>1. Kept(i)
        BY <1>5, <2>2, <3>2 DEF Kept, SInv, Values, Slots
      <4> QED BY <3>1, <4>1 DEF Begins
    <3>3. CASE i = "context" /\ context.revision > 0
      BY <1>5, <3>1, <3>3, FoundIs DEF Kept, Begins, SInv
    <3>4. CASE i = "context" /\ ~(context.revision > 0)
      BY <1>5, <3>1, <3>4, FoundIs DEF Used, RowIs, Begins, SInv
    <3> QED BY <3>2, <3>3, <3>4
  <2> QED BY <2>1, <2>2
<1>13. Values'
  BY <1>5, <1>7, <1>8, FoundIs DEF Values, SInv, Slots
<1> QED BY <1>6, <1>11, <1>12, <1>13, BeginChanges

-----------------------------------------------------------------------------
(* Tasks.                                                                  *)
Others(i, h, N) ==
    /\ \A y \in N : Of(i, y) => Of(i, handlers[h]) /\ Carried(i, y) = Carried(i, handlers[h])
    /\ Of(i, handlers[h]) => \E y \in N : Of(i, y)

(* A handler goes on as y, or is gone.                                     *)
LEMMA TaskTurn ==
    ASSUME PInv, NEW h \in Running, NEW data, Proceeds(h, data)
    PROVE  \/ /\ Len(handlers[h].todo) = 1 /\ Moved(h, {})
           \/ /\ Len(handlers[h].todo) # 1
              /\ \E y : /\ Moved(h, {y}) /\ y.todo = Tail(handlers[h].todo) /\ y.data = data
<1>1. IsSeq(handlers) /\ DOMAIN handlers[h] = HandlerFields
  BY DEF PInv, Sequenced, HandlersOK, HandlerOK
<1>2. Turn(h, IF Len(handlers[h].todo) = 1 THEN {}
              ELSE {Rest(handlers[h], Tail(handlers[h].todo), data)})
  BY <1>1, ProceedsTurn
<1>3. CASE Len(handlers[h].todo) = 1
  BY <1>2, <1>3, EndMoved
<1>4. CASE Len(handlers[h].todo) # 1
  <2>1. PICK y : y = Rest(handlers[h], Tail(handlers[h].todo), data)
    OBVIOUS
  <2>2. Moved(h, {y})
    BY <1>2, <1>4, <2>1, TurnMoved
  <2>3. y.todo = Tail(handlers[h].todo) /\ y.data = data
    BY <1>1, <2>1, RestIs
  <2> QED BY <1>4, <2>2, <2>3
<1> QED BY <1>3, <1>4

Wipes(i, h, N) == Stays(i, h, N) \/ Changes(i, h, N) \/ Saves(i, h, N)

LEMMA TaskKeeps1 ==
    ASSUME SInv, UNCHANGED prepares, NEW h \in Running, NEW y, Moved(h, {y}), Values',
           SHandlerOK(y), y.todo \notin {Restore1, Restore3}, \A i \in Slots : Wipes(i, h, {y})
    PROVE  SInv'
<1>1. \A z \in {y} : SHandlerOK(z) /\ RestoreOK(z)'
  <2> SUFFICES ASSUME NEW z \in {y} PROVE SHandlerOK(z) /\ RestoreOK(z)'
    OBVIOUS
  <2> QED BY DEF RestoreOK
<1> QED BY <1>1, StepKeeps DEF SessionStep, SlotStep, Wipes

LEMMA TaskKeeps0 ==
    ASSUME SInv, UNCHANGED prepares, NEW h \in Running, Moved(h, {}), Values',
           \A i \in Slots : Wipes(i, h, {})
    PROVE  SInv'
BY StepKeeps DEF SessionStep, SlotStep, Wipes

LEMMA SessionShapes ==
    ASSUME NEW todo \in Shapes
    PROVE  /\ Head(todo) = "syncContext" => todo = SyncTodo1 /\ Len(todo) # 1 /\ Tail(todo) = SaveSync
           /\ Head(todo) = "syncQueue" => todo = SyncTodo2 /\ Len(todo) # 1 /\ Tail(todo) = SaveSync
           /\ Head(todo) = "saveContext" => /\ Len(todo) # 1
                                            /\ \/ todo = SaveBoth /\ Tail(todo) = SavingQueue
                                               \/ todo = SaveReport /\ Tail(todo) = Saving1
           /\ Head(todo) = "saveQueue" => todo = SavingQueue /\ Len(todo) = 1
           /\ Head(todo) = "control" =>
                todo \in Controls /\ Len(todo) # 1 /\ Tail(todo) \in {Saving1, Saving2}
           /\ Head(todo) = "savePlayback" => todo = Saving1 /\ Len(todo) = 1
           /\ Head(todo) = "reportContext" =>
                todo = ReportTodo /\ Len(todo) # 1 /\ Tail(todo) = SaveReport
           /\ Head(todo) = "restoreQueue" => todo = Restore1 /\ Len(todo) # 1 /\ Tail(todo) = Restore2
           /\ Head(todo) = "readPlaybacks" => todo = Restore2 /\ Len(todo) = 1
           /\ Head(todo) = "restorePlaybacks" => todo = Restore3 /\ Len(todo) = 1
<1>1. ASSUME Head(todo) = "syncContext" PROVE todo = SyncTodo1 /\ Len(todo) # 1 /\ Tail(todo) = SaveSync
  <2>1. todo = <<"syncContext", "supersede", "saveContext", "saveQueue">>
    BY <1>1, Shaped
  <2>2. Len(todo) # 1 /\ Tail(todo) = <<"supersede", "saveContext", "saveQueue">>
    BY <2>1, Tuples
  <2> QED BY <2>1, <2>2 DEF SyncTodo1, SaveSync
<1>2. ASSUME Head(todo) = "syncQueue" PROVE todo = SyncTodo2 /\ Len(todo) # 1 /\ Tail(todo) = SaveSync
  <2>1. todo = <<"syncQueue", "supersede", "saveContext", "saveQueue">>
    BY <1>2, Shaped
  <2>2. Len(todo) # 1 /\ Tail(todo) = <<"supersede", "saveContext", "saveQueue">>
    BY <2>1, Tuples
  <2> QED BY <2>1, <2>2 DEF SyncTodo2, SaveSync
<1>3. ASSUME Head(todo) = "saveContext"
      PROVE  /\ Len(todo) # 1
             /\ \/ todo = SaveBoth /\ Tail(todo) = SavingQueue
                \/ todo = SaveReport /\ Tail(todo) = Saving1
  <2>1. CASE todo = <<"saveContext", "saveQueue">>
    BY <2>1, Tuples DEF SaveBoth, SavingQueue
  <2>2. CASE todo = <<"saveContext", "savePlayback">>
    BY <2>2, Tuples DEF SaveReport, Saving1
  <2> QED BY <1>3, <2>1, <2>2, Shaped
<1>4. ASSUME Head(todo) = "saveQueue" PROVE todo = SavingQueue /\ Len(todo) = 1
  BY <1>4, Shaped DEF SavingQueue, Alone1
<1>5. ASSUME Head(todo) = "control"
      PROVE  todo \in Controls /\ Len(todo) # 1 /\ Tail(todo) \in {Saving1, Saving2}
  <2>1. CASE todo = <<"control", "supersede", "savePlayback">>
    BY <2>1, Tuples DEF Controls, Saving2
  <2>2. CASE todo = <<"control", "savePlayback">>
    BY <2>2, Tuples DEF Controls, Saving1
  <2> QED BY <1>5, <2>1, <2>2, Shaped
<1>6. ASSUME Head(todo) = "savePlayback" PROVE todo = Saving1 /\ Len(todo) = 1
  BY <1>6, Shaped DEF Saving1, Alone1
<1>7. ASSUME Head(todo) = "reportContext"
      PROVE  todo = ReportTodo /\ Len(todo) # 1 /\ Tail(todo) = SaveReport
  <2>1. todo = <<"reportContext", "saveContext", "savePlayback">>
    BY <1>7, Shaped
  <2>2. Len(todo) # 1 /\ Tail(todo) = <<"saveContext", "savePlayback">>
    BY <2>1, Tuples
  <2> QED BY <2>1, <2>2 DEF ReportTodo, SaveReport
<1>8. ASSUME Head(todo) = "restoreQueue"
      PROVE  todo = Restore1 /\ Len(todo) # 1 /\ Tail(todo) = Restore2
  <2>1. todo = <<"restoreQueue", "readPlaybacks">>
    BY <1>8, Shaped
  <2>2. Len(todo) # 1 /\ Tail(todo) = <<"readPlaybacks">>
    BY <2>1, Tuples
  <2> QED BY <2>1, <2>2 DEF Restore1, Restore2
<1>9. ASSUME Head(todo) = "readPlaybacks" PROVE todo = Restore2 /\ Len(todo) = 1
  BY <1>9, Shaped DEF Restore2, Alone1
<1>10. ASSUME Head(todo) = "restorePlaybacks" PROVE todo = Restore3 /\ Len(todo) = 1
  BY <1>10, Shaped DEF Restore3, Alone1
<1> QED BY <1>1, <1>2, <1>3, <1>4, <1>5, <1>6, <1>7, <1>8, <1>9, <1>10

(* The handler of a task.                                                  *)
LEMMA WorksOn ==
    ASSUME PInv, SInv, NEW h \in Running
    PROVE  /\ handlers[h].todo \in Shapes /\ CarryOK(handlers[h].data)
           /\ handlers[h].todo \notin {Restore1, Restore2, Restore3} => handlers[h].data.device \in Devices
BY DEF PInv, HandlersOK, HandlerOK, SInv, SHandlerOK

LEMMA SyncContextKeeps ==
    ASSUME PInv, SInv, NEW h \in Running, SyncContext(h) PROVE SInv'
<1>1. PICK x : x = handlers[h]
  OBVIOUS
<1>2. PICK new : new = SyncedContext(x.data.device, x.data.content)
  OBVIOUS
<1>3. PICK data : data = [x.data EXCEPT !.context = new]
  OBVIOUS
<1>4. /\ context' = new /\ Proceeds(h, data) /\ mixed' = [mixed EXCEPT !["context"] = ~Alone(h)]
      /\ UNCHANGED <<prepares, queue, queueRow, contextRow, timelines, playbacks, playbackRows>>
  BY <1>1, <1>2, <1>3 DEF SyncContext, Mixes, prepareVars
<1>5. /\ x.todo = SyncTodo1 /\ Len(x.todo) # 1 /\ Tail(x.todo) = SaveSync
      /\ CarryOK(x.data) /\ x.data.device \in Devices
  BY <1>1, WorksOn, SessionShapes, OtherTodos DEF SyncContext, Todo
<1>6. PICK y : Moved(h, {y}) /\ y.todo = SaveSync /\ y.data = data
  BY <1>1, <1>4, <1>5, TaskTurn
<1>7. ContextOK(new) /\ new.revision > 0
  <2>1. ContextOK(FoundContext)
    BY FoundIs DEF SInv
  <2> QED BY <1>2, <2>1 DEF SyncedContext, ContextOK, ContextFields
<1>8. DOMAIN data = CarryFields /\ data.device = x.data.device /\ data.context = new
      /\ data.queue = x.data.queue /\ data.playback = x.data.playback
  BY <1>3, <1>5 DEF CarryOK, CarryFields
<1>9. SHandlerOK(y) /\ y.todo \notin {Restore1, Restore3}
  <2>1. CarryOK(data)
    BY <1>5, <1>7, <1>8, CarryHas
  <2> QED BY <1>5, <1>6, <1>8, <2>1, OtherTodos DEF SHandlerOK
<1>10. ASSUME NEW i \in Slots PROVE Wipes(i, h, {y})
  <2>1. CASE i = "context"
    <3>1. Of(i, y) /\ (mixed'[i] <=> ~Alone(h))
      BY <1>4, <1>6, <2>1, OfWhich DEF SInv, Values
    <3>2. Carried(i, y) = Value(i)' /\ Used(i)'
      BY <1>4, <1>6, <1>7, <1>8, <2>1 DEF Carried, Value, Used
    <3> QED BY <3>1, <3>2 DEF Wipes, Changes, Alone
  <2>2. CASE i # "context"
    <3>1. (Of(i, y) <=> Of(i, x)) /\ mixed'[i] = mixed[i]
      BY <1>4, <1>5, <1>6, <2>2, OfWhich, SlotsAre DEF SInv, Values
    <3>2. Kept(i)
      BY <1>4, <2>2 DEF Kept
    <3>3. Of(i, y) => Carried(i, y) = Carried(i, x)
      BY <1>6, <1>8, <2>2 DEF Carried
    <3> QED BY <1>1, <3>1, <3>2, <3>3 DEF Wipes, Stays
  <2> QED BY <2>1, <2>2
<1>11. Values'
  BY <1>4, <1>7 DEF Values, SInv, Slots
<1> QED BY <1>4, <1>6, <1>9, <1>10, <1>11, TaskKeeps1

LEMMA SyncQueueKeeps ==
    ASSUME PInv, SInv, NEW h \in Running, SyncQueue(h) PROVE SInv'
<1>1. PICK x : x = handlers[h]
  OBVIOUS
<1>0. PICK d : d = x.data.device
  OBVIOUS
<1>2. PICK new : new = SyncedQueue(d, x.data.content)
  OBVIOUS
<1>3. PICK data : data = [x.data EXCEPT !.queue = new]
  OBVIOUS
<1>4. /\ queue' = new /\ Proceeds(h, data) /\ mixed' = [mixed EXCEPT !["queue"] = ~Alone(h)]
      /\ timelines' = [timelines EXCEPT ![d] = SyncedTimeline(d)]
      /\ UNCHANGED <<prepares, queueRow, context, contextRow, playbacks, playbackRows>>
  BY <1>0, <1>1, <1>2, <1>3 DEF SyncQueue, Mixes, prepareVars
<1>5. /\ x.todo = SyncTodo2 /\ Len(x.todo) # 1 /\ Tail(x.todo) = SaveSync
      /\ CarryOK(x.data) /\ d \in Devices
  BY <1>0, <1>1, WorksOn, SessionShapes, OtherTodos DEF SyncQueue, Todo
<1>6. PICK y : Moved(h, {y}) /\ y.todo = SaveSync /\ y.data = data
  BY <1>1, <1>4, <1>5, TaskTurn
<1>7. QueueOK(new) /\ new.owner = d
  BY <1>2 DEF SyncedQueue, QueueRevision, QueueOK, QueueFields, SInv, Values
<1>8. DOMAIN data = CarryFields /\ data.device = d /\ data.queue = new
      /\ data.context = x.data.context /\ data.playback = x.data.playback
  BY <1>0, <1>3, <1>5 DEF CarryOK, CarryFields
<1>9. SHandlerOK(y) /\ y.todo \notin {Restore1, Restore3}
  <2>1. CarryOK(data)
    BY <1>5, <1>7, <1>8, CarryHas
  <2> QED BY <1>5, <1>6, <1>8, <2>1, OtherTodos DEF SHandlerOK
<1>10. ASSUME NEW i \in Slots PROVE Wipes(i, h, {y})
  <2>1. CASE i = "queue"
    <3>1. Of(i, y) /\ (mixed'[i] <=> ~Alone(h))
      BY <1>4, <1>6, <2>1, OfWhich DEF SInv, Values
    <3>2. Carried(i, y) = Value(i)' /\ Used(i)'
      BY <1>4, <1>5, <1>6, <1>7, <1>8, <2>1, RoomsAssumption DEF Carried, Value, Used
    <3> QED BY <3>1, <3>2 DEF Wipes, Changes, Alone
  <2>2. CASE i # "queue"
    <3>1. (Of(i, y) <=> Of(i, x)) /\ mixed'[i] = mixed[i]
      BY <1>4, <1>5, <1>6, <2>2, OfWhich, SlotsAre DEF SInv, Values
    <3>2. Kept(i)
      BY <1>4, <2>2 DEF Kept
    <3>3. Of(i, y) => Carried(i, y) = Carried(i, x)
      BY <1>6, <1>8, <2>2 DEF Carried
    <3> QED BY <1>1, <3>1, <3>2, <3>3 DEF Wipes, Stays
  <2> QED BY <2>1, <2>2
<1>11. Values'
  <2>1. LineOK(SyncedTimeline(d))
    BY <1>5 DEF SyncedTimeline, LineOK, SInv, Values
  <2> QED BY <1>4, <1>7, <2>1 DEF Values, SInv, Slots
<1> QED BY <1>4, <1>6, <1>9, <1>10, <1>11, TaskKeeps1

(* A row is written.                                                       *)
LEMMA SaveSessionContextKeeps ==
    ASSUME PInv, SInv, NEW h \in Running, SaveSessionContext(h) PROVE SInv'
<1>1. PICK x : x = handlers[h]
  OBVIOUS
<1>0. PICK data : data = x.data
  OBVIOUS
<1>2. /\ Proceeds(h, data) /\ contextRow' = x.data.context
      /\ UNCHANGED <<prepares, queue, queueRow, context, timelines, playbacks, playbackRows, mixed>>
  BY <1>0, <1>1 DEF SaveSessionContext, Continues, prepareVars
<1>3. /\ Len(x.todo) # 1 /\ CarryOK(x.data)
      /\ \/ x.todo = SaveBoth /\ Tail(x.todo) = SavingQueue
         \/ x.todo = SaveReport /\ Tail(x.todo) = Saving1
  BY <1>1, WorksOn, SessionShapes DEF SaveSessionContext, Todo
<1>4. PICK y : Moved(h, {y}) /\ y.todo = Tail(x.todo) /\ y.data = data
  <2>1. Proceeds(h, data) /\ Len(handlers[h].todo) # 1
    BY <1>1, <1>2, <1>3
  <2>2. \E y : Moved(h, {y}) /\ y.todo = Tail(handlers[h].todo) /\ y.data = data
    BY <2>1, TaskTurn
  <2> QED BY <1>1, <2>2
<1>5. SHandlerOK(y) /\ y.todo \notin {Restore1, Restore3}
  <2>1. x.todo \notin {Restore1, Restore2, Restore3} /\ y.todo \notin {Restore1, Restore2, Restore3}
    BY <1>3, <1>4, OtherTodos
  <2>2. x.data.device \in Devices
    BY <1>1, <2>1, WorksOn
  <2> QED BY <1>0, <1>3, <1>4, <2>1, <2>2 DEF SHandlerOK
<1>6. ASSUME NEW i \in Slots PROVE Wipes(i, h, {y})
  <2>1. CASE i = "context"
    <3>1. Of(i, x) /\ ~Of(i, y)
      BY <1>3, <1>4, <2>1, OfWhich, SlotsAre
    <3>2. ~mixed[i] => Carried(i, x) = context
      BY <1>1, <2>1, <3>1 DEF SInv, SlotOK, Value
    <3>3. ~mixed[i] => RowIs(i)'
      BY <1>2, <2>1, <3>2 DEF RowIs, Carried
    <3>4. Value(i)' = Value(i) /\ mixed'[i] = mixed[i]
      BY <1>2, <2>1 DEF Value
    <3> QED BY <1>1, <3>1, <3>3, <3>4 DEF Wipes, Saves
  <2>2. CASE i # "context"
    <3>1. Of(i, y) <=> Of(i, x)
      <4>1. CASE x.todo = SaveBoth /\ Tail(x.todo) = SavingQueue
        BY <1>4, <2>2, <4>1, OfWhich
      <4>2. CASE x.todo = SaveReport /\ Tail(x.todo) = Saving1
        <5>1. Of(i, x) <=> i # "queue" /\ i = x.data.device
          BY <2>2, <4>2, OfWhich
        <5>2. x.data.device \in Devices
          BY <1>1, <4>2, WorksOn, OtherTodos
        <5>3. Of(i, y) <=> i \notin {"queue", "context"} /\ i = x.data.device
          BY <1>0, <1>4, <4>2, OfWhich
        <5> QED BY <2>2, <5>1, <5>2, <5>3, SlotsAre
      <4> QED BY <1>3, <4>1, <4>2
    <3> QED BY <1>0, <1>1, <1>2, <1>4, <2>2, <3>1 DEF Wipes, Stays, Kept, Carried
  <2> QED BY <2>1, <2>2
<1>7. Values'
  BY <1>2, <1>3 DEF Values, SInv, Slots, CarryOK
<1> QED BY <1>2, <1>4, <1>5, <1>6, <1>7, TaskKeeps1

LEMMA SaveQueueKeeps ==
    ASSUME PInv, SInv, NEW h \in Running, SaveQueue(h) PROVE SInv'
<1>1. PICK x : x = handlers[h]
  OBVIOUS
<1>2. /\ Proceeds(h, x.data)
      /\ queueRow' = [x.data.queue EXCEPT !.revision = queueRow.revision + 1,
                                          !.controlVersion = queueRow.revision + 1]
      /\ UNCHANGED <<prepares, queue, context, contextRow, timelines, playbacks, playbackRows, mixed>>
  BY <1>1 DEF SaveQueue, Continues, prepareVars
<1>3. Len(x.todo) = 1 /\ CarryOK(x.data) /\ x.todo = SavingQueue
  BY <1>1, WorksOn, SessionShapes DEF SaveQueue, Todo
<1>4. Moved(h, {})
  BY <1>1, <1>2, <1>3, TaskTurn
<1>5. QueueOK(queueRow') /\ queueRow'.owner = x.data.queue.owner /\ queueRow'.content = x.data.queue.content
  BY <1>2, <1>3 DEF QueueOK, QueueFields, CarryOK, SInv, Values
<1>6. ASSUME NEW i \in Slots PROVE Wipes(i, h, {})
  <2>1. CASE i = "queue"
    <3>1. Of(i, x)
      BY <1>3, <2>1, OfWhich
    <3>2. ~mixed[i] => x.data.queue = queue
      BY <1>1, <2>1, <3>1 DEF SInv, SlotOK, Value, Carried
    <3> QED BY <1>1, <1>2, <1>5, <2>1, <3>1, <3>2 DEF Wipes, Saves, Value, RowIs
  <2>2. CASE i # "queue"
    <3>1. ~Of(i, x)
      BY <1>3, <2>2, OfWhich
    <3> QED BY <1>1, <1>2, <2>2, <3>1 DEF Wipes, Stays, Kept
  <2> QED BY <2>1, <2>2
<1>7. Values'
  BY <1>2, <1>5 DEF Values, SInv, Slots
<1> QED BY <1>2, <1>4, <1>6, <1>7, TaskKeeps0

LEMMA SavePlaybackKeeps ==
    ASSUME PInv, SInv, NEW h \in Running, SavePlayback(h) PROVE SInv'
<1>1. PICK x : x = handlers[h]
  OBVIOUS
<1>0. PICK d : d = x.data.device
  OBVIOUS
<1>2. /\ Proceeds(h, x.data) /\ playbackRows' = [playbackRows EXCEPT ![d] = x.data.playback]
      /\ UNCHANGED <<prepares, queue, queueRow, context, contextRow, timelines, playbacks, mixed>>
  BY <1>0, <1>1 DEF SavePlayback, Continues, prepareVars
<1>3. Len(x.todo) = 1 /\ CarryOK(x.data) /\ x.todo = Saving1 /\ d \in Devices
  BY <1>0, <1>1, WorksOn, SessionShapes, OtherTodos DEF SavePlayback, Todo
<1>4. Moved(h, {})
  BY <1>1, <1>2, <1>3, TaskTurn
<1>5. ASSUME NEW i \in Slots PROVE Wipes(i, h, {})
  <2>0. d \notin {"queue", "context"}
    BY <1>3, SlotsAre
  <2>1. CASE i = d
    <3>1. Of(i, x)
      BY <1>0, <1>3, <2>0, <2>1, OfWhich
    <3>2. ~mixed[i] => x.data.playback = playbacks[d]
      BY <1>1, <2>0, <2>1, <3>1 DEF SInv, SlotOK, Value, Carried
    <3>3. ~mixed[i] => RowIs(i)'
      BY <1>2, <1>3, <2>0, <2>1, <3>2 DEF RowIs, SInv, Values
    <3> QED BY <1>1, <1>2, <2>0, <2>1, <3>1, <3>3 DEF Wipes, Saves, Value
  <2>2. CASE i # d
    <3>1. ~Of(i, x)
      BY <1>0, <1>3, <2>2, OfWhich
    <3>2. Kept(i)
      BY <1>2, <2>2 DEF Kept, SInv, Values, Slots
    <3> QED BY <1>1, <1>2, <3>1, <3>2 DEF Wipes, Stays
  <2> QED BY <2>1, <2>2
<1>6. Values'
  BY <1>2, <1>3 DEF Values, SInv, Slots, CarryOK
<1> QED BY <1>2, <1>4, <1>5, <1>6, TaskKeeps0

LEMMA ControlPlaybackKeeps ==
    ASSUME PInv, SInv, NEW h \in Running, ControlPlayback(h) PROVE SInv'
<1>1. PICK x : x = handlers[h]
  OBVIOUS
<1>0. PICK d : d = x.data.device
  OBVIOUS
<1>2. PICK line : line = [timelines[d] EXCEPT !.version = @ + 1,
                                              !.controlVersion = x.data.controlVersion]
  OBVIOUS
<1>3. PICK content : content = IF x.data.content = "none" THEN Playing(d) ELSE x.data.content
  OBVIOUS
<1>4. PICK new : new = [playbacks[d] EXCEPT
            !.version = line.version, !.controlVersion = line.controlVersion,
            !.state = x.data.state, !.content = content]
  OBVIOUS
<1>5. PICK data : data = [x.data EXCEPT !.playback = new]
  OBVIOUS
<1>6. /\ timelines' = [timelines EXCEPT ![d] = line]
      /\ playbacks' = [playbacks EXCEPT ![d] = new]
      /\ Proceeds(h, data) /\ mixed' = [mixed EXCEPT ![d] = ~Alone(h)]
      /\ UNCHANGED <<prepares, queue, queueRow, context, contextRow, playbackRows>>
  BY <1>0, <1>1, <1>2, <1>3, <1>4, <1>5 DEF ControlPlayback, Mixes, prepareVars
<1>7. /\ x.todo \in Controls /\ Len(x.todo) # 1 /\ Tail(x.todo) \in {Saving1, Saving2}
      /\ CarryOK(x.data) /\ d \in Devices
  <2>1. /\ x.todo \in Controls /\ Len(x.todo) # 1 /\ Tail(x.todo) \in {Saving1, Saving2}
        /\ CarryOK(x.data)
    BY <1>1, WorksOn, SessionShapes DEF ControlPlayback, Todo
  <2>2. x.todo \notin {Restore1, Restore2, Restore3}
    BY <2>1, OtherTodos
  <2> QED BY <1>0, <1>1, <2>1, <2>2, WorksOn
<1>8. PICK y : Moved(h, {y}) /\ y.todo = Tail(x.todo) /\ y.data = data
  BY <1>1, <1>6, <1>7, TaskTurn
<1>9. d \in Slots /\ d \notin {"queue", "context"}
  BY <1>7, SlotsAre
<1>10. LineOK(line) /\ line.version > 0
  BY <1>2, <1>7 DEF LineOK, LineFields, SInv, Values
<1>11. PlaybackOK(new) /\ new.version > 0
  <2>1. PlaybackOK(playbacks[d])
    BY <1>7 DEF SInv, Values
  <2> QED BY <1>4, <1>10, <2>1 DEF PlaybackOK, PlaybackFields, LineOK
<1>12. DOMAIN data = CarryFields /\ data.device = d /\ data.context = x.data.context
       /\ data.queue = x.data.queue /\ data.playback = new
  BY <1>0, <1>5, <1>7 DEF CarryOK, CarryFields
<1>13. SHandlerOK(y) /\ y.todo \notin {Restore1, Restore3}
  <2>1. CarryOK(data)
    BY <1>7, <1>11, <1>12, CarryHas
  <2>2. y.todo \notin {Restore1, Restore2, Restore3}
    BY <1>7, <1>8, OtherTodos
  <2> QED BY <1>7, <1>8, <1>12, <2>1, <2>2 DEF SHandlerOK
<1>14. ASSUME NEW i \in Slots PROVE Wipes(i, h, {y})
  <2>1. CASE i = d
    <3>1. Of(i, y) /\ (mixed'[i] <=> ~Alone(h))
      BY <1>6, <1>7, <1>8, <1>9, <1>12, <2>1, OfWhich DEF SInv, Values
    <3>2. Carried(i, y) = Value(i)' /\ Used(i)'
      BY <1>6, <1>7, <1>8, <1>9, <1>11, <1>12, <2>1 DEF Carried, Value, Used, SInv, Values
    <3> QED BY <3>1, <3>2 DEF Wipes, Changes, Alone
  <2>2. CASE i # d
    <3>1. ~Of(i, y) /\ ~Of(i, x) /\ mixed'[i] = mixed[i]
      <4>1. ~Of(i, y)
        BY <1>7, <1>8, <1>12, <2>2, OfWhich
      <4>2. ~Of(i, x)
        BY <1>7, OfWhich DEF Idle
      <4> QED BY <1>6, <2>2, <4>1, <4>2 DEF SInv, Values
    <3>2. Kept(i)
      BY <1>6, <2>2 DEF Kept, SInv, Values, Slots
    <3> QED BY <1>1, <3>1, <3>2 DEF Wipes, Stays
  <2> QED BY <2>1, <2>2
<1>15. Values'
  BY <1>6, <1>10, <1>11 DEF Values, SInv, Slots
<1> QED BY <1>6, <1>8, <1>13, <1>14, <1>15, TaskKeeps1

LEMMA ReportContextKeeps ==
    ASSUME PInv, SInv, NEW h \in Running, ReportContext(h) PROVE SInv'
<1>1. PICK x : x = handlers[h]
  OBVIOUS
<1>0. PICK d : d = x.data.device
  OBVIOUS
<1>2. PICK new : new = [context EXCEPT !.authority = d,
                            !.revision = IF context.revision = 0 THEN 1 ELSE @]
  OBVIOUS
<1>3. PICK data : data = [x.data EXCEPT !.context = new]
  OBVIOUS
<1>4. /\ UNCHANGED <<prepares, queue, queueRow, contextRow, timelines, playbacks, playbackRows>>
      /\ \/ context' = new /\ Proceeds(h, data) /\ mixed' = [mixed EXCEPT !["context"] = ~Alone(h)]
         \/ handlers' = [handlers EXCEPT ![h].todo = Saving1] /\ UNCHANGED <<context, mixed>>
  BY <1>0, <1>1, <1>2, <1>3 DEF ReportContext, Mixes, prepareVars, Saving1
<1>5. /\ x.todo = ReportTodo /\ Len(x.todo) # 1 /\ Tail(x.todo) = SaveReport
      /\ CarryOK(x.data) /\ d \in Devices
  BY <1>0, <1>1, WorksOn, SessionShapes, OtherTodos DEF ReportContext, Todo
<1>6. d \in Slots /\ d \notin {"queue", "context"}
  BY <1>5, SlotsAre
<1>7. ASSUME NEW i \in Slots PROVE Of(i, x) <=> i = d
  BY <1>0, <1>5, <1>6, OfWhich
<1>8. CASE context' = new /\ Proceeds(h, data) /\ mixed' = [mixed EXCEPT !["context"] = ~Alone(h)]
  <2>1. PICK y : Moved(h, {y}) /\ y.todo = SaveReport /\ y.data = data
    BY <1>1, <1>5, <1>8, TaskTurn
  <2>2. ContextOK(new) /\ new.revision > 0
    BY <1>2 DEF ContextOK, ContextFields, SInv, Values
  <2>3. DOMAIN data = CarryFields /\ data.device = d /\ data.context = new
        /\ data.queue = x.data.queue /\ data.playback = x.data.playback
    BY <1>0, <1>3, <1>5 DEF CarryOK, CarryFields
  <2>4. SHandlerOK(y) /\ y.todo \notin {Restore1, Restore3}
    <3>1. CarryOK(data)
      BY <1>5, <2>2, <2>3, CarryHas
    <3> QED BY <1>5, <2>1, <2>3, <3>1, OtherTodos DEF SHandlerOK
  <2>5. ASSUME NEW i \in Slots PROVE Of(i, y) <=> i \in {"context", d}
    BY <1>6, <2>1, <2>3, OfWhich, SlotsAre
  <2>6. ASSUME NEW i \in Slots PROVE Wipes(i, h, {y})
    <3>1. CASE i = "context"
      <4>1. Of(i, y) /\ (mixed'[i] <=> ~Alone(h))
        BY <1>8, <2>5, <3>1 DEF SInv, Values
      <4>2. Carried(i, y) = Value(i)' /\ Used(i)'
        BY <1>8, <2>1, <2>2, <2>3, <3>1 DEF Carried, Value, Used
      <4> QED BY <4>1, <4>2 DEF Wipes, Changes, Alone
    <3>2. CASE i # "context"
      <4>1. (Of(i, y) <=> Of(i, x)) /\ mixed'[i] = mixed[i]
        BY <1>7, <1>8, <2>5, <3>2 DEF SInv, Values
      <4>2. Kept(i)
        BY <1>4, <3>2 DEF Kept
      <4>3. Of(i, y) => Carried(i, y) = Carried(i, x)
        BY <2>1, <2>3, <3>2 DEF Carried
      <4> QED BY <1>1, <4>1, <4>2, <4>3 DEF Wipes, Stays
    <3> QED BY <3>1, <3>2
  <2>7. Values'
    BY <1>4, <1>8, <2>2 DEF Values, SInv, Slots
  <2> QED BY <1>4, <2>1, <2>4, <2>6, <2>7, TaskKeeps1
<1>9. CASE handlers' = [handlers EXCEPT ![h].todo = Saving1] /\ UNCHANGED <<context, mixed>>
  <2>1. PICK y : Moved(h, {y}) /\ y.todo = Saving1 /\ y.data = x.data
    <3>1. IsSeq(handlers) /\ DOMAIN x = HandlerFields
      BY <1>1 DEF PInv, Sequenced, HandlersOK, HandlerOK
    <3>2. Turn(h, {Rest(x, Saving1, x.data)})
      BY <1>1, <1>9, <3>1, RestTurn
    <3>3. PICK y : y = Rest(x, Saving1, x.data)
      OBVIOUS
    <3>4. Moved(h, {y})
      BY <3>2, <3>3, TurnMoved
    <3>5. y.todo = Saving1 /\ y.data = x.data
      BY <3>1, <3>3, RestIs
    <3> QED BY <3>4, <3>5
  <2>2. SHandlerOK(y) /\ y.todo \notin {Restore1, Restore3}
    BY <1>0, <1>5, <2>1, OtherTodos DEF SHandlerOK
  <2>3. ASSUME NEW i \in Slots PROVE Wipes(i, h, {y})
    <3>1. Of(i, y) <=> Of(i, x)
      BY <1>0, <1>6, <1>7, <2>1, OfWhich
    <3>2. Kept(i) /\ mixed'[i] = mixed[i]
      BY <1>4, <1>9 DEF Kept
    <3> QED BY <1>1, <2>1, <3>1, <3>2 DEF Wipes, Stays, Carried
  <2>4. Values'
    BY <1>4, <1>9 DEF Values, SInv, Slots
  <2> QED BY <1>4, <2>1, <2>2, <2>3, <2>4, TaskKeeps1
<1> QED BY <1>4, <1>8, <1>9

-----------------------------------------------------------------------------
(* What the restart of a device reads.                                     *)
LEMMA RestoreQueueKeeps ==
    ASSUME PInv, SInv, NEW h \in Running, RestoreQueue(h) PROVE SInv'
<1>1. PICK x : x = handlers[h]
  OBVIOUS
<1>0. PICK row, data : row = x.data.queue /\ data = x.data
  OBVIOUS
<1>2. /\ Proceeds(h, data) /\ queue' = row
      /\ timelines' = [timelines EXCEPT ![row.owner].version = row.revision,
                                        ![row.owner].controlVersion = row.controlVersion]
      /\ mixed' = [mixed EXCEPT !["queue"] = ~(Alone(h) /\ ~mixed["queue"])]
      /\ UNCHANGED <<prepares, queueRow, context, contextRow, playbacks, playbackRows>>
  BY <1>0, <1>1 DEF RestoreQueue, Continues, Mixes, prepareVars
<1>3. /\ x.todo = Restore1 /\ Len(x.todo) # 1 /\ Tail(x.todo) = Restore2
      /\ CarryOK(data) /\ QueueOK(row)
  BY <1>0, <1>1, WorksOn, SessionShapes DEF RestoreQueue, Todo, CarryOK
<1>4. PICK y : Moved(h, {y}) /\ y.todo = Restore2 /\ y.data = data
  BY <1>1, <1>2, <1>3, TaskTurn
<1>5. SHandlerOK(y) /\ y.todo \notin {Restore1, Restore3}
  BY <1>3, <1>4, OtherTodos DEF SHandlerOK
<1>6. ASSUME NEW i \in Slots PROVE ~Of(i, x) /\ ~Of(i, y)
  BY <1>3, <1>4, OfWhich DEF Idle
<1>7. ASSUME NEW i \in Slots PROVE Wipes(i, h, {y})
  <2>1. CASE i = "queue"
    <3>1. mixed'[i] <=> ~(Alone(h) /\ ~mixed[i])
      BY <1>2, <2>1 DEF SInv, Values
    <3>2. ~mixed[i] => queueRow = row
      BY <1>0, <1>1, <1>3, <2>1 DEF SInv, RestoreOK
    <3>3. ~mixed[i] => RowIs(i)'
      BY <1>2, <2>1, <3>2 DEF RowIs
    <3> QED BY <1>6, <3>1, <3>3 DEF Wipes, Changes, Alone
  <2>2. CASE i # "queue"
    <3>1. Kept(i) /\ mixed'[i] = mixed[i]
      BY <1>2, <2>2 DEF Kept, SInv, Values
    <3> QED BY <1>1, <1>6, <3>1 DEF Wipes, Stays
  <2> QED BY <2>1, <2>2
<1>8. Values'
  <2>1. DOMAIN timelines' = Devices /\ \A d \in Devices : LineOK(timelines'[d])
    <3>1. DOMAIN timelines' = Devices
      BY <1>2 DEF SInv, Values
    <3>2. ASSUME NEW d \in Devices, d = row.owner PROVE LineOK(timelines'[d])
      <4>1. timelines'[d] = [timelines[d] EXCEPT !.version = row.revision,
                                                 !.controlVersion = row.controlVersion]
        BY <1>2, <3>2 DEF SInv, Values
      <4> QED BY <1>3, <4>1 DEF QueueOK, LineOK, LineFields, SInv, Values
    <3>3. ASSUME NEW d \in Devices, d # row.owner PROVE LineOK(timelines'[d])
      BY <1>2, <3>3 DEF SInv, Values
    <3> QED BY <3>1, <3>2, <3>3
  <2> QED BY <1>2, <1>3, <2>1 DEF Values, SInv, Slots
<1> QED BY <1>2, <1>4, <1>5, <1>7, <1>8, TaskKeeps1

(* Nothing was changed in memory, or the handler is gone.                  *)
LEMMA ReadPlaybacksKeeps ==
    ASSUME PInv, SInv, NEW h \in Running, ReadPlaybacks(h) PROVE SInv'
<1>1. PICK x : x = handlers[h]
  OBVIOUS
<1>2. PICK data : data = [x.data EXCEPT !.playbacks = playbackRows]
  OBVIOUS
<1>3. /\ UNCHANGED <<prepares, sessionVars>>
      /\ \/ /\ \A d \in Devices : playbacks[d].version = 0
            /\ handlers' = [handlers EXCEPT ![h].todo = Restore3, ![h].data.playbacks = playbackRows]
         \/ Ends(h)
  BY DEF ReadPlaybacks, prepareVars, Restore3
<1>4. x.todo = Restore2 /\ CarryOK(x.data) /\ IsSeq(handlers) /\ DOMAIN x = HandlerFields
  BY <1>1, WorksOn, SessionShapes DEF ReadPlaybacks, Todo, PInv, Sequenced, HandlersOK, HandlerOK
<1>5. ASSUME NEW i \in Slots PROVE Kept(i) /\ mixed'[i] = mixed[i] /\ ~Of(i, handlers[h])
  <2>1. ~Of(i, x)
    BY <1>4, OfWhich DEF Idle
  <2> QED BY <1>1, <1>3, <2>1 DEF Kept, sessionVars
<1>6. Values'
  BY <1>3 DEF Values, SInv, sessionVars, Slots
<1>7. CASE Ends(h)
  <2>1. Moved(h, {})
    BY <1>4, <1>7, EndsTurn, EndMoved
  <2>2. \A i \in Slots : Wipes(i, h, {})
    BY <1>5 DEF Wipes, Stays
  <2> QED BY <1>3, <1>6, <2>1, <2>2, TaskKeeps0
<1>8. CASE /\ \A d \in Devices : playbacks[d].version = 0
           /\ handlers' = [handlers EXCEPT ![h].todo = Restore3, ![h].data.playbacks = playbackRows]
  <2>1. PICK y : y = Rest(x, Restore3, data)
    OBVIOUS
  <2>2. y.todo = Restore3 /\ y.data = data
    BY <1>4, <2>1, RestIs
  <2>3. Moved(h, {y})
    <3>1. handlers' = [handlers EXCEPT ![h] = y]
      <4>1. y = [handlers[h] EXCEPT !.todo = Restore3, !.data.playbacks = playbackRows]
        BY <1>1, <1>2, <1>4, <2>1 DEF Rest, HandlerFields
      <4> QED BY <1>8, <4>1
    <3> QED BY <1>4, <3>1, ReplacesTurn, TurnMoved
  <2>4. CarryOK(data) /\ data.playbacks = playbackRows
    BY <1>2, <1>4 DEF CarryOK, CarryFields
  <2>5. SHandlerOK(y)
    BY <2>2, <2>4 DEF SHandlerOK, SInv, Values
  <2>6. RestoreOK(y)'
    BY <1>3, <1>8, <2>2, <2>4, OtherTodos DEF RestoreOK, sessionVars
  <2>7. \A z \in {y} : SHandlerOK(z) /\ RestoreOK(z)'
    <3> SUFFICES ASSUME NEW z \in {y} PROVE SHandlerOK(z) /\ RestoreOK(z)'
      OBVIOUS
    <3> QED BY <2>5, <2>6 DEF RestoreOK
  <2>8. ASSUME NEW i \in Slots PROVE SlotStep(i, h, {y})
    <3>1. ~Of(i, y)
      BY <2>2, OfWhich DEF Idle
    <3> QED BY <1>5, <3>1 DEF SlotStep, Stays
  <2> QED BY <1>3, <1>6, <2>3, <2>7, <2>8, StepKeeps DEF SessionStep
<1> QED BY <1>3, <1>7, <1>8

LEMMA RestorePlaybacksKeeps ==
    ASSUME PInv, SInv, NEW h \in Running, RestorePlaybacks(h) PROVE SInv'
<1>1. PICK x : x = handlers[h]
  OBVIOUS
<1>0. PICK saved : saved = x.data.playbacks
  OBVIOUS
<1>2. PICK known : known = {d \in Devices : saved[d].version > 0}
  OBVIOUS
<1>3. /\ playbacks' = [d \in Devices |-> IF d \in known THEN saved[d] ELSE playbacks[d]]
      /\ timelines' = [d \in Devices |-> IF d \notin known THEN timelines[d] ELSE
             [version |-> saved[d].version, controlVersion |-> saved[d].controlVersion,
              seq |-> saved[d].seq]]
      /\ mixed' = [i \in DOMAIN mixed |-> mixed[i] \/ (i \in known /\ ~Alone(h))]
      /\ UNCHANGED <<prepares, queue, queueRow, context, contextRow, playbackRows>>
  BY <1>0, <1>1, <1>2 DEF RestorePlaybacks, prepareVars
<1>4. /\ x.todo = Restore3 /\ \A d \in Devices : PlaybackOK(saved[d])
      /\ \A d \in Devices : ~mixed[d] => saved[d] = playbackRows[d]
  <2>1. x.todo = Restore3
    BY <1>1, WorksOn, SessionShapes DEF RestorePlaybacks, Todo
  <2>2. SHandlerOK(x) /\ RestoreOK(x)
    BY <1>1 DEF SInv
  <2> QED BY <1>0, <2>1, <2>2 DEF SHandlerOK, RestoreOK
<1>5. Moved(h, {})
  BY EndsTurn, EndMoved DEF RestorePlaybacks, PInv, Sequenced
<1>6. ASSUME NEW i \in Slots PROVE Wipes(i, h, {})
  <2>1. mixed'[i] <=> mixed[i] \/ (i \in known /\ ~Alone(h))
    BY <1>3 DEF SInv, Values
  <2>2. CASE i \in known
    <3>1. i \in Devices /\ i \notin {"queue", "context"}
      BY <1>2, <2>2, SlotsAre
    <3>2. ~mixed[i] => RowIs(i)'
      BY <1>3, <1>4, <2>2, <3>1 DEF RowIs
    <3> QED BY <2>1, <2>2, <3>2 DEF Wipes, Changes, Alone
  <2>3. CASE i \notin known
    <3>1. ~Of(i, handlers[h])
      BY <1>1, <1>4, OfWhich DEF Idle
    <3>2. Kept(i)
      BY <1>3, <2>3 DEF Kept, SInv, Values, Slots
    <3> QED BY <2>1, <2>3, <3>1, <3>2 DEF Wipes, Stays
  <2> QED BY <2>2, <2>3
<1>7. Values'
  <2>1. \A d \in Devices : LineOK(timelines'[d]) /\ PlaybackOK(playbacks'[d])
    BY <1>3, <1>4 DEF LineOK, LineFields, PlaybackOK, SInv, Values
  <2>2. DOMAIN mixed' = Slots /\ DOMAIN timelines' = Devices /\ DOMAIN playbacks' = Devices
    BY <1>3 DEF SInv, Values
  <2> QED BY <1>3, <2>1, <2>2 DEF Values, SInv, Slots
<1> QED BY <1>3, <1>5, <1>6, <1>7, TaskKeeps0

-----------------------------------------------------------------------------
(* The prepares of the players.                                            *)
Quietly(i, h, N) ==
    /\ \A y \in N : Of(i, y) => /\ h \in Running /\ Of(i, handlers[h])
                                /\ Carried(i, y) = Carried(i, handlers[h])
    /\ h \in Running /\ Of(i, handlers[h]) => \E y \in N : Of(i, y)

Carrying(y) == SHandlerOK(y) /\ y.todo \notin {Restore1, Restore3}

LEMMA QuietSession ==
    ASSUME SInv, UNCHANGED sessionVars, PlayersKeep, NEW h, NEW N, Moved(h, N),
           \A y \in N : Carrying(y), \A i \in Slots : Quietly(i, h, N)
    PROVE  SInv'
<1>1. ASSUME NEW i \in Slots PROVE SlotStep(i, h, N)
  <2>1. Kept(i) /\ mixed'[i] = mixed[i]
    BY DEF Kept, sessionVars
  <2> QED BY <2>1 DEF SlotStep, Stays, Quietly
<1>2. \A y \in N : SHandlerOK(y) /\ RestoreOK(y)'
  <2> SUFFICES ASSUME NEW y \in N PROVE SHandlerOK(y) /\ RestoreOK(y)'
    OBVIOUS
  <2> QED BY DEF RestoreOK, Carrying
<1>3. Values'
  BY DEF Values, SInv, sessionVars, Slots
<1> QED BY <1>1, <1>2, <1>3, SessionKeeps DEF SessionStep

LEMMA FewerPlayers == ASSUME SInv, Fewer PROVE PlayersKeep
<1> SUFFICES ASSUME NEW p \in Prepares', Alive(p)'
             PROVE  CarryOK(prepares'[p].data) /\ prepares'[p].data.device \in Devices
  BY DEF PlayersKeep
<1>1. p \in Prepares /\ Alive(p) /\ prepares'[p].data = prepares[p].data
  BY DEF Fewer, Later, Alive
<1> QED BY <1>1 DEF SInv

LEMMA PreparedPlayers ==
    ASSUME SInv, NEW t, NEW k, NEW data, CarryOK(data), data.device \in Devices, Prepared(t, k, data)
    PROVE  PlayersKeep
<1> SUFFICES ASSUME NEW p \in Prepares', Alive(p)'
             PROVE  CarryOK(prepares'[p].data) /\ prepares'[p].data.device \in Devices
  BY DEF PlayersKeep
<1>1. prepares'[p].data = data \/ (p \in Prepares /\ SameBut(prepares[p], prepares'[p]))
  BY DEF Prepared
<1>2. CASE p \in Prepares /\ SameBut(prepares[p], prepares'[p])
  <2>1. Alive(p) /\ prepares'[p].data = prepares[p].data
    BY <1>2 DEF Alive, SameBut
  <2> QED BY <1>2, <2>1 DEF SInv
<1> QED BY <1>1, <1>2

(* A handler that has nothing to save is gone, or has nothing to save.     *)
LEMMA IdleEnds ==
    ASSUME PInv, SInv, UNCHANGED sessionVars, PlayersKeep, NEW h \in Running, Ends(h),
           handlers[h].todo \in Idle
    PROVE  SInv'
<1>1. Moved(h, {})
  BY EndsTurn, EndMoved DEF PInv, Sequenced
<1>2. \A i \in Slots : Quietly(i, h, {})
  BY OfWhich DEF Quietly
<1> QED BY <1>1, <1>2, QuietSession

LEMMA IdleTurns ==
    ASSUME SInv, UNCHANGED sessionVars, PlayersKeep, NEW h \in Running, NEW y, Turn(h, {y}),
           handlers[h].todo \in Idle, y.todo \in Idle, Carrying(y)
    PROVE  SInv'
<1>1. Moved(h, {y})
  BY TurnMoved
<1>2. \A i \in Slots : Quietly(i, h, {y})
  BY OfWhich DEF Quietly
<1> QED BY <1>1, <1>2, QuietSession

LEMMA DeciderTaken ==
    ASSUME PInv, SInv, UNCHANGED sessionVars, Fewer, NEW p \in Prepares, Alive(p), NEW t, NEW data,
           data = prepares[p].data, NEW todo \in Deciding, Begin(t, p, data, todo)
    PROVE  SInv'
<1>1. PICK x : x = Handler(t, p, data, todo)
  OBVIOUS
<1>2. TakesOn(x) /\ x.data = data /\ x.todo = todo
  BY <1>1, BeginsTakesOn, HandlerIs DEF PInv, Sequenced
<1>3. Moved(0, {x}) /\ 0 \notin Running
  BY <1>2, TakesMoved DEF PInv, Sequenced
<1>4. \A i \in Slots : Quietly(i, 0, {x})
  BY <1>2, <1>3, OfWhich DEF Quietly, Idle
<1>5. x.todo \notin {Restore1, Restore2, Restore3}
  BY <1>2 DEF Deciding, Restore1, Restore2, Restore3
<1>6. Carrying(x)
  BY <1>2, <1>5 DEF Carrying, SHandlerOK, SInv
<1> QED BY <1>3, <1>4, <1>6, FewerPlayers, QuietSession

LEMMA DecidingIdle ==
    /\ Deciding \subseteq Idle /\ Creating \in Idle /\ Controls \subseteq Idle
    /\ (Deciding \cup {Creating} \cup Controls) \cap {Restore1, Restore2, Restore3} = {}
    /\ <<"control", "savePlayback">> \in Controls /\ <<"control", "savePlayback">> \in Plain
<1>1. Deciding \cap {Restore1, Restore2, Restore3} = {}
  BY DEF Deciding, Restore1, Restore2, Restore3
<1>2. <<"control", "savePlayback">> \in Plain
  BY DEF Plain
<1>3. <<"control", "savePlayback">> \in Controls
  BY DEF Controls
<1>4. Deciding \subseteq Idle /\ Creating \in Idle /\ Controls \subseteq Idle
  BY DEF Idle
<1> QED BY <1>1, <1>2, <1>3, <1>4, OtherTodos

LEMMA PrepareSourceKeeps ==
    ASSUME PInv, SInv, NEW h \in Running, PrepareSource(h) PROVE SInv'
<1>1. PICK t, data : t = handlers[h].timeline /\ data = handlers[h].data
  OBVIOUS
<1>2. PICK targets, required : CreatePrepare(h, t, "source", "none", targets, required)
  BY <1>1 DEF PrepareSource
<1>3. UNCHANGED sessionVars
  BY DEF PrepareSource
<1>4. handlers[h].todo = Creating
  BY <1>1, <1>2, CreateShape
<1>5. handlers[h].todo \in Idle /\ CarryOK(data) /\ data.device \in Devices
  BY <1>1, <1>4, WorksOn, DecidingIdle
<1>6. CASE Ends(h) /\ UNCHANGED prepareVars
  <2>1. Fewer
    BY <1>6, UnchangedFewer DEF prepareVars
  <2> QED BY <1>3, <1>5, <1>6, <2>1, FewerPlayers, IdleEnds
<1>7. CASE Prepared(t, "source", data) /\ \E y : GoesOnAs(h, y) /\ y.todo = <<"send">>
  <2>1. PICK y : Turn(h, {y}) /\ y.data = data /\ y.todo = <<"send">>
    BY <1>1, <1>7 DEF GoesOnAs
  <2>2. y.todo \in Deciding
    BY <2>1 DEF Deciding
  <2>3. y.todo \in Idle /\ y.todo \notin {Restore1, Restore2, Restore3}
    BY <2>2, DecidingIdle
  <2>4. Carrying(y)
    BY <1>5, <2>1, <2>3 DEF Carrying, SHandlerOK
  <2>5. PlayersKeep
    BY <1>5, <1>7, PreparedPlayers
  <2> QED BY <1>3, <1>5, <2>1, <2>3, <2>4, <2>5, IdleTurns
<1> QED BY <1>1, <1>2, <1>6, <1>7, CreateShape

LEMMA CommitSourceKeeps ==
    ASSUME PInv, SInv, NEW h \in Running, CommitSource(h), UNCHANGED kind, UNCHANGED started
    PROVE  SInv'
<1>1. PICK x, todo : x = handlers[h] /\ todo = <<"control", "savePlayback">>
  OBVIOUS
<1>2. ClaimPrepare(h, todo) /\ UNCHANGED sessionVars
  BY <1>1 DEF CommitSource
<1>3. todo \in Plain /\ todo \in Controls /\ todo \in Idle
      /\ todo \notin {Restore1, Restore2, Restore3}
  BY <1>1, DecidingIdle
<1>4. Fewer
  BY <1>2, <1>3, ClaimKeeps
<1>5. PlayersKeep
  BY <1>4, FewerPlayers
<1>6. /\ IsSeq(handlers) /\ DOMAIN x = HandlerFields /\ x.todo \in Deciding
  BY <1>1, <1>2, Begun DEF ClaimPrepare
<1>7. x.todo \in Idle /\ CarryOK(x.data) /\ x.data.device \in Devices
  BY <1>1, <1>6, WorksOn, DecidingIdle
<1>8. CASE Ends(h)
  BY <1>1, <1>2, <1>5, <1>7, <1>8, IdleEnds
<1>9. CASE ~Ends(h)
  <2>1. handlers' = [handlers EXCEPT ![h].todo = todo]
    BY <1>2, <1>9 DEF ClaimPrepare
  <2>2. PICK y : y = Rest(x, todo, x.data)
    OBVIOUS
  <2>3. Turn(h, {y})
    BY <1>1, <1>6, <2>1, <2>2, RestTurn
  <2>4. y.data = x.data /\ y.todo = todo
    BY <1>6, <2>2, RestIs
  <2>5. Carrying(y) /\ y.todo \in Idle
    BY <1>3, <1>7, <2>4 DEF Carrying, SHandlerOK
  <2> QED BY <1>1, <1>2, <1>5, <1>7, <2>3, <2>5, IdleTurns
<1> QED BY <1>8, <1>9

LEMMA SupersedeSession ==
    ASSUME PInv, SInv, UNCHANGED sessionVars, NEW h \in Running, Supersede(h), Fewer PROVE SInv'
<1>1. PICK x, data : x = handlers[h] /\ data = x.data
  OBVIOUS
<1>2. Todo(h, "supersede") /\ Proceeds(h, data)
  BY <1>1 DEF Supersede, Continues
<1>3. PICK todo, rest :
        /\ x.todo = todo /\ Tail(x.todo) = rest /\ Len(x.todo) # 1
        /\ \/ todo \in Past /\ rest \in Past
           \/ todo = SaveSync /\ rest = SaveBoth
           \/ todo = Saving2 /\ rest = Saving1
  <2>1. x.todo \in {<<"supersede", "upsert", "save">>,
                    <<"supersede", "saveContext", "saveQueue">>, <<"supersede", "savePlayback">>}
    BY <1>1, <1>2, Begun, Shaped
  <2>2. CASE x.todo = <<"supersede", "upsert", "save">>
    <3>1. Tail(x.todo) = <<"upsert", "save">> /\ Len(x.todo) # 1
      BY <2>2, Tuples
    <3> QED BY <2>2, <3>1 DEF Past
  <2>3. CASE x.todo = <<"supersede", "saveContext", "saveQueue">>
    <3>1. Tail(x.todo) = <<"saveContext", "saveQueue">> /\ Len(x.todo) # 1
      BY <2>3, Tuples
    <3> QED BY <2>3, <3>1 DEF SaveSync, SaveBoth
  <2>4. CASE x.todo = <<"supersede", "savePlayback">>
    <3>1. Tail(x.todo) = <<"savePlayback">> /\ Len(x.todo) # 1
      BY <2>4, Tuples
    <3> QED BY <2>4, <3>1 DEF Saving1, Saving2
  <2> QED BY <2>1, <2>2, <2>3, <2>4
<1>4. PICK y : Moved(h, {y}) /\ y.todo = rest /\ y.data = data
  <2>1. Len(handlers[h].todo) # 1
    BY <1>1, <1>3
  <2>2. \E y : Moved(h, {y}) /\ y.todo = Tail(handlers[h].todo) /\ y.data = data
    BY <1>2, <2>1, TaskTurn
  <2> QED BY <1>1, <1>3, <2>2
<1>5. {todo, rest} \cap {Restore1, Restore2, Restore3} = {}
  <2>1. Past \cap {Restore1, Restore2, Restore3} = {}
    BY DEF Past, Restore1, Restore2, Restore3
  <2> QED BY <1>3, <2>1, OtherTodos
<1>6. CarryOK(data) /\ data.device \in Devices
  BY <1>1, <1>3, <1>5, WorksOn
<1>7. Carrying(y)
  BY <1>4, <1>5, <1>6 DEF Carrying, SHandlerOK
<1>8. ASSUME NEW i \in Slots PROVE Quietly(i, h, {y})
  <2>1. Of(i, y) <=> Of(i, x)
    <3>1. CASE todo \in Past /\ rest \in Past
      BY <1>3, <1>4, <3>1, OfWhich DEF Idle
    <3>2. CASE todo = SaveSync /\ rest = SaveBoth
      BY <1>3, <1>4, <3>2, OfWhich
    <3>3. CASE todo = Saving2 /\ rest = Saving1
      BY <1>1, <1>3, <1>4, <3>3, OfWhich
    <3> QED BY <1>3, <3>1, <3>2, <3>3
  <2>2. Carried(i, y) = Carried(i, x)
    BY <1>1, <1>4 DEF Carried
  <2> QED BY <1>1, <2>1, <2>2 DEF Quietly
<1> QED BY <1>4, <1>7, <1>8, FewerPlayers, QuietSession

LEMMA AnyPrepareSession ==
    ASSUME PInv, SInv, UNCHANGED kind, UNCHANGED <<broadcastVars, sessionVars>>, NextPrepares PROVE SInv'
<1>1. UNCHANGED started /\ UNCHANGED sessionVars
  BY DEF broadcastVars
<1>2. ASSUME NEW h \in Running, SendPrepare(h) \/ EndPrepare(h) PROVE SInv'
  <2>1. Fewer
    BY <1>1, <1>2, SendKeeps, EndPrepareKeeps
  <2>2. handlers[h].todo \in Deciding /\ Ends(h)
    <3>1. CASE SendPrepare(h)
      <4>1. Len(handlers[h].todo) = 1 /\ handlers[h].todo \in Deciding
        BY <3>1, Begun DEF SendPrepare
      <4> QED BY <3>1, <4>1 DEF SendPrepare, Continues, Proceeds
    <3>2. CASE EndPrepare(h)
      BY <3>2, Begun DEF EndPrepare
    <3> QED BY <1>2, <3>1, <3>2
  <2> QED BY <1>1, <2>1, <2>2, FewerPlayers, DecidingIdle, IdleEnds
<1>3. ASSUME NEW h \in Running, Supersede(h) PROVE SInv'
  BY <1>1, <1>3, SupersedeKeeps, SupersedeSession
<1>4. ASSUME UNCHANGED handlers, Fewer PROVE SInv'
  <2>1. Moved(0, {}) /\ 0 \notin Running
    BY <1>4, SameMoved DEF PInv, Sequenced
  <2>2. \A i \in Slots : Quietly(i, 0, {})
    BY <2>1 DEF Quietly
  <2> QED BY <1>1, <1>4, <2>1, <2>2, FewerPlayers, QuietSession
<1>5. ASSUME NEW p \in Prepares, NEW d, NEW ready, PlaybackReady(p, d, ready) PROVE SInv'
  <2>1. Fewer /\ Alive(p)
    BY <1>1, <1>5, ReadyKeeps DEF PlaybackReady, Alive
  <2>2. PICK q, todo : q = Answered(prepares[p], d, ready) /\ todo = ReadyTodo(q, d, ready)
    OBVIOUS
  <2>3. IF todo = <<>> THEN UNCHANGED handlers ELSE Begin(q.timeline, p, q.data, todo)
    BY <1>5, <2>2 DEF PlaybackReady
  <2>4. q.timeline = prepares[p].timeline /\ q.data = prepares[p].data
    BY <2>2, AnsweredIs DEF SameBut, PInv, PreparesOK
  <2>5. PICK t, data : t = prepares[p].timeline /\ data = prepares[p].data
    OBVIOUS
  <2>6. todo = <<>> \/ todo \in Deciding
    BY <2>2 DEF ReadyTodo, Deciding
  <2>7. CASE todo = <<>>
    BY <1>4, <2>1, <2>3, <2>7
  <2>8. CASE todo # <<>>
    <3>1. Begin(t, p, data, todo) /\ todo \in Deciding
      BY <2>3, <2>4, <2>5, <2>6, <2>8
    <3> QED BY <1>1, <2>1, <2>5, <3>1, DeciderTaken
  <2> QED BY <2>7, <2>8
<1>6. ASSUME NEW p \in Prepares, Expires(p) PROVE SInv'
  BY <1>1, <1>4, <1>6, ExpiresKeeps DEF Expires
<1>7. ASSUME NEW p \in Prepares, ExpirePrepare(p) PROVE SInv'
  <2>1. Fewer
    BY <1>1, <1>7, ExpirePrepareKeeps
  <2>2. PICK todo \in Deciding :
            todo = IF ReadyToCommit(prepares[p]) THEN <<"claim">> ELSE <<"timeOut">>
    BY DEF Deciding
  <2>3. PICK t, data : t = prepares[p].timeline /\ data = prepares[p].data
    OBVIOUS
  <2>4. IF Alive(p) THEN Begin(t, p, data, todo) ELSE UNCHANGED handlers
    BY <1>7, <2>2, <2>3 DEF ExpirePrepare, Alive
  <2>5. CASE Alive(p)
    BY <1>1, <2>1, <2>3, <2>4, <2>5, DeciderTaken
  <2>6. CASE ~Alive(p)
    BY <1>4, <2>1, <2>4, <2>6
  <2> QED BY <2>5, <2>6
<1> QED BY <1>2, <1>3, <1>5, <1>6, <1>7 DEF NextPrepares

-----------------------------------------------------------------------------
(* All steps of a session.                                                 *)
LEMMA SessionStepsKeep ==
    ASSUME PInv, SInv, UNCHANGED kind, UNCHANGED broadcastVars, NextSessions PROVE SInv'
<1>1. UNCHANGED started
  BY DEF broadcastVars
<1>2. ASSUME NEW d \in Devices, NEW content, SyncContextFirst(d, content) \/ SyncQueueFirst(d, content),
             UNCHANGED <<prepareVars, outdated>>
      PROVE  SInv'
  <2>1. UNCHANGED prepares
    BY <1>2 DEF prepareVars
  <2> QED BY <1>2, <2>1, SyncContextFirstKeeps, SyncQueueFirstKeeps
<1>3. ASSUME NEW d \in Players, UNCHANGED <<prepareVars, outdated>>,
             \/ PauseSource(d) \/ SeekSource(d)
             \/ \E content \in Contents, twoPhase \in BOOLEAN : PlaySource(d, content, twoPhase)
             \/ \E content \in Contents, seq \in 1 .. MaxSeq : Report(d, seq, content)
      PROVE  SInv'
  <2>1. UNCHANGED prepares /\ d \in Devices
    BY <1>3, SessionsAssumption DEF prepareVars
  <2>2. ASSUME NEW content \in Contents, NEW twoPhase \in BOOLEAN, PlaySource(d, content, twoPhase)
        PROVE  SInv'
    BY <2>1, <2>2, ControlsKeep
  <2>3. ASSUME NEW content \in Contents, NEW seq \in 1 .. MaxSeq, Report(d, seq, content) PROVE SInv'
    BY <2>1, <2>3, ReportKeeps
  <2>4. ASSUME PauseSource(d) \/ SeekSource(d) PROVE SInv'
    BY <2>1, <2>4, ControlsKeep
  <2> QED BY <1>3, <2>2, <2>3, <2>4
<1>4. ASSUME Return, UNCHANGED <<prepareVars, outdated>> PROVE SInv'
  BY <1>4, ReturnKeeps DEF prepareVars
<1>5. ASSUME NEW h \in Running,
             \/ SyncContext(h) \/ SyncQueue(h) \/ SaveSessionContext(h) \/ SaveQueue(h)
             \/ ControlPlayback(h) \/ SavePlayback(h)
             \/ ReportContext(h) \/ PrepareSource(h) \/ CommitSource(h)
             \/ RestoreQueue(h) \/ ReadPlaybacks(h) \/ RestorePlaybacks(h)
      PROVE  SInv'
  BY <1>1, <1>5, SyncContextKeeps, SyncQueueKeeps, SaveSessionContextKeeps, SaveQueueKeeps,
     ControlPlaybackKeeps, SavePlaybackKeeps, ReportContextKeeps, PrepareSourceKeeps,
     CommitSourceKeeps, RestoreQueueKeeps, ReadPlaybacksKeeps, RestorePlaybacksKeeps
<1> QED BY <1>2, <1>3, <1>4, <1>5 DEF NextSessions

LEMMA SessionInits == Init => SInv
<1> SUFFICES ASSUME Init PROVE SInv
  OBVIOUS
<1>1. /\ handlers = <<>> /\ prepares = <<>> /\ InitSessions
  BY DEF Init
<1>2. Running = {} /\ Prepares = {}
  BY <1>1 DEF Running, Prepares
<1>3. QueueOK(NoQueue) /\ ContextOK(NoContext) /\ LineOK(NoTimeline) /\ PlaybackOK(NoPlayback)
  BY DEF QueueOK, NoQueue, QueueFields, ContextOK, NoContext, ContextFields, LineOK, NoTimeline,
         LineFields, PlaybackOK, NoPlayback, PlaybackFields
<1>4. Values
  BY <1>1, <1>3 DEF Values, InitSessions, Slots
<1>5. ASSUME NEW i \in Slots PROVE ~Used(i)
  <2>1. CASE i = "queue"
    BY <1>1, <2>1 DEF Used, InitSessions, NoQueue
  <2>2. CASE i = "context"
    BY <1>1, <2>2 DEF Used, InitSessions, NoContext
  <2>3. CASE i \notin {"queue", "context"}
    BY <1>1, <2>3 DEF Used, InitSessions, NoPlayback, Slots
  <2> QED BY <2>1, <2>2, <2>3
<1> QED BY <1>2, <1>4, <1>5 DEF SInv, SlotOK

LEMMA SessionRestarts == ASSUME SInv, Restart PROVE SInv'
<1>1. /\ handlers' = <<>> /\ prepares' = <<>>
      /\ queue' = NoQueue /\ context' = NoContext
      /\ timelines' = [d \in Devices |-> NoTimeline]
      /\ playbacks' = [d \in Devices |-> NoPlayback]
      /\ mixed' = [x \in DOMAIN mixed |-> FALSE]
      /\ UNCHANGED <<queueRow, contextRow, playbackRows>>
  BY DEF Restart, ForgetPrepares, ForgetSessions
<1>2. Running' = {} /\ Prepares' = {}
  BY <1>1 DEF Running, Prepares
<1>3. QueueOK(NoQueue) /\ ContextOK(NoContext) /\ LineOK(NoTimeline) /\ PlaybackOK(NoPlayback)
  BY DEF QueueOK, NoQueue, QueueFields, ContextOK, NoContext, ContextFields, LineOK, NoTimeline,
         LineFields, PlaybackOK, NoPlayback, PlaybackFields
<1>4. Values'
  BY <1>1, <1>3 DEF Values, SInv, Slots
<1>5. ASSUME NEW i \in Slots PROVE ~Used(i)'
  <2>1. CASE i = "queue"
    BY <1>1, <2>1 DEF Used, NoQueue
  <2>2. CASE i = "context"
    BY <1>1, <2>2 DEF Used, NoContext
  <2>3. CASE i \notin {"queue", "context"}
    BY <1>1, <2>3 DEF Used, NoPlayback, Slots
  <2> QED BY <2>1, <2>2, <2>3
<1>6. ASSUME NEW i \in Slots PROVE SlotOK(i)'
  BY <1>2, <1>5 DEF SlotOK
<1> QED BY <1>2, <1>4, <1>6 DEF SInv, Slots

LEMMA SessionsAgree == ASSUME SInv PROVE SessionAgrees
<1> SUFFICES ASSUME handlers = <<>> PROVE SessionAgrees
  BY DEF SessionAgrees
<1>1. Running = {}
  BY DEF Running
<1>2. \A i \in Slots : ~mixed[i] /\ Used(i) => RowIs(i)
  BY <1>1 DEF SInv, SlotOK
<1>3. ~mixed["queue"] /\ Used("queue") => RowIs("queue")
  BY <1>2, SlotsAre
<1>4. ~mixed["context"] /\ Used("context") => RowIs("context")
  BY <1>2, SlotsAre
<1>5. ASSUME NEW d \in Devices, ~mixed[d], playbacks[d].version > 0 PROVE playbackRows[d] = playbacks[d]
  <2>1. d \in Slots /\ d \notin {"queue", "context"}
    BY SlotsAre
  <2> QED BY <1>2, <1>5, <2>1 DEF Used, RowIs
<1> QED BY <1>3, <1>4, <1>5 DEF SessionAgrees, Used, RowIs

(* In a behaviour about broadcasts there is none.                          *)
NoSession ==
    queue = NoQueue /\ context = NoContext /\ playbacks = [d \in Devices |-> NoPlayback]

LEMMA NoneAgrees == ASSUME NoSession PROVE SessionAgrees
BY DEF NoSession, SessionAgrees, NoQueue, NoContext, NoPlayback

-----------------------------------------------------------------------------
(* Both.                                                                   *)
AgreeInv ==
    /\ kind = "broadcasts" => BInv /\ NoSession
    /\ kind = "sessions" => SInv /\ NoBroadcasts

LEMMA AgreeInit == Init => AgreeInv
<1> SUFFICES ASSUME Init PROVE AgreeInv
  OBVIOUS
<1>1. NoSession /\ NoBroadcasts
  BY DEF Init, InitSessions, InitBroadcasts, NoSession, NoBroadcasts
<1> QED BY <1>1, FirstRooms, SessionInits DEF AgreeInv

LEMMA AgreeStep == RoomsInv /\ AgreeInv /\ [Next]_vars => AgreeInv'
<1> SUFFICES ASSUME RoomsInv, AgreeInv, [Next]_vars PROVE AgreeInv'
  OBVIOUS
<1>0. UNCHANGED kind /\ RoomsInv'
  BY RoomsStep DEF Next, vars
<1>1. CASE UNCHANGED <<prepares, handlers, broadcastVars, sessionVars>>
  <2>1. NoSession' <=> NoSession
    BY <1>1 DEF NoSession, sessionVars
  <2>2. NoBroadcasts' <=> NoBroadcasts
    BY <1>1 DEF NoBroadcasts, broadcastVars, Broadcasts
  <2>3. BroadcastStep
    BY <1>1, UnchangedFewer DEF BroadcastStep, TimeStep, RoomsInv
  <2>4. CASE kind = "broadcasts"
    <3>1. BInv'
      BY <1>0, <2>3, <2>4, BroadcastKeeps DEF RoomsInv, AgreeInv
    <3> QED BY <1>0, <2>1, <2>4, <3>1 DEF AgreeInv
  <2>5. CASE kind = "sessions"
    <3>1. Moved(0, {}) /\ 0 \notin Running
      BY <1>1, SameMoved DEF RoomsInv, PInv, Sequenced
    <3>2. \A i \in Slots : Quietly(i, 0, {})
      BY <3>1 DEF Quietly
    <3>3. Fewer
      BY <1>1, UnchangedFewer DEF RoomsInv
    <3>4. SInv'
      BY <1>1, <2>5, <3>1, <3>2, <3>3, FewerPlayers, QuietSession DEF AgreeInv
    <3> QED BY <1>0, <2>2, <2>5, <3>4 DEF AgreeInv
  <2> QED BY <1>0, <2>4, <2>5 DEF RoomsInv
<1>2. CASE kind = "broadcasts" /\ NextBroadcasts /\ UNCHANGED sessionVars
  <2>1. BInv'
    BY <1>0, <1>2, BroadcastsAre, BroadcastKeeps DEF RoomsInv, AgreeInv
  <2>2. NoSession'
    BY <1>2 DEF NoSession, sessionVars, AgreeInv
  <2> QED BY <1>0, <1>2, <2>1, <2>2 DEF AgreeInv
<1>3. CASE kind = "sessions" /\ NextSessions /\ UNCHANGED broadcastVars
  <2>1. SInv'
    BY <1>0, <1>3, SessionStepsKeep DEF RoomsInv, AgreeInv
  <2>2. NoBroadcasts'
    BY <1>3 DEF NoBroadcasts, broadcastVars, AgreeInv, Broadcasts
  <2> QED BY <1>0, <1>3, <2>1, <2>2 DEF AgreeInv
<1>4. CASE NextPrepares /\ UNCHANGED <<broadcastVars, sessionVars>>
  <2>1. CASE kind = "broadcasts"
    <3>1. BInv'
      BY <1>0, <1>4, <2>1, AnyPrepareIs, BroadcastKeeps DEF RoomsInv, AgreeInv
    <3>2. NoSession'
      BY <1>4, <2>1 DEF NoSession, sessionVars, AgreeInv
    <3> QED BY <1>0, <2>1, <3>1, <3>2 DEF AgreeInv
  <2>2. CASE kind = "sessions"
    <3>1. SInv'
      BY <1>0, <1>4, <2>2, AnyPrepareSession DEF RoomsInv, AgreeInv
    <3>2. NoBroadcasts'
      BY <1>4, <2>2 DEF NoBroadcasts, broadcastVars, AgreeInv, Broadcasts
    <3> QED BY <1>0, <2>2, <3>1, <3>2 DEF AgreeInv
  <2> QED BY <2>1, <2>2 DEF RoomsInv
<1>5. CASE Restart
  <2>1. NoSession' /\ (NoBroadcasts => NoBroadcasts')
    BY <1>5 DEF Restart, ForgetSessions, ForgetBroadcasts, NoSession, NoBroadcasts, Broadcasts
  <2>2. MInv /\ BInv => BInv'
    BY <1>5, RestartRooms
  <2>3. SInv => SInv'
    BY <1>5, SessionRestarts
  <2> QED BY <1>0, <2>1, <2>2, <2>3 DEF AgreeInv, RoomsInv
<1>6. UNCHANGED vars => UNCHANGED <<prepares, handlers, broadcastVars, sessionVars>>
  BY DEF vars, prepareVars
<1> QED BY <1>1, <1>2, <1>3, <1>4, <1>5, <1>6 DEF Next

(* Broadcasts: a version that was checked is still there when the command  *)
(* is carried out, so that the index is in the queue; what was stopped     *)
(* stays stopped, over a restart too; and once nobody works on a broadcast *)
(* or on a session, the rows that the next restart reads say what is in    *)
(* memory, unless several handlers wrote at once.  With the lock given up  *)
(* between the tasks of a handler (ws_state.py, ws_store.py).              *)
THEOREM RoomsAgreeCorrect == Spec => []RoomsAgree
<1>1. RoomsInv /\ AgreeInv => RoomsAgree
  <2> SUFFICES ASSUME RoomsInv, AgreeInv PROVE RoomsAgree
    OBVIOUS
  <2>1. CASE kind = "broadcasts"
    BY <2>1, BroadcastsAgree, NoneAgrees DEF RoomsInv, AgreeInv, RoomsAgree
  <2>2. CASE kind = "sessions"
    BY <2>2, SessionsAgree, NoneAgree DEF RoomsInv, AgreeInv, RoomsAgree
  <2> QED BY <2>1, <2>2 DEF RoomsInv
<1>2. Init => RoomsInv /\ AgreeInv
  BY RoomsInit, AgreeInit
<1>3. RoomsInv /\ AgreeInv /\ [Next]_vars => RoomsInv' /\ AgreeInv'
  BY RoomsStep, AgreeStep
<1> QED BY <1>1, <1>2, <1>3, PTL DEF Spec

=============================================================================
