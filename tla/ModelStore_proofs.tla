-------------------------- MODULE ModelStore_proofs --------------------------
(***************************************************************************)
(* Proofs about the model store, for every set of calls, models and        *)
(* generators and every depth of the request queue.                        *)
(***************************************************************************)
EXTENDS ModelStore, SequenceTheorems, TLAPS

-----------------------------------------------------------------------------
(* Sequences of queue items.                                               *)

\* A call is in the sequence at most once.
Once(s) == \A i, j \in 1 .. Len(s) : s[i] = s[j] /\ s[i] \in Calls => i = j

LEMMA InElements ==
    ASSUME NEW S, NEW s \in Seq(S)
    PROVE  \A e : e \in Elements(s) <=> \E i \in 1 .. Len(s) : s[i] = e
<1>1. DOMAIN s = 1 .. Len(s)
  BY LenProperties
<1> QED BY <1>1 DEF Elements

LEMMA ElementsFacts ==
    ASSUME NEW S, NEW s \in Seq(S)
    PROVE  /\ \A e : e \in Elements(s) <=> \E i \in 1 .. Len(s) : s[i] = e
           /\ Elements(<<>>) = {}
           /\ \A e \in S : Elements(Append(s, e)) = Elements(s) \cup {e}
           /\ s # <<>> => Elements(s) = {Head(s)} \cup Elements(Tail(s))
<1>1. DOMAIN s = 1 .. Len(s) /\ Len(s) \in Nat
  BY LenProperties
<1>2. \A e : e \in Elements(s) <=> \E i \in 1 .. Len(s) : s[i] = e
  BY <1>1 DEF Elements
<1>3. Elements(<<>>) = {}
  BY DEF Elements
<1>4. ASSUME NEW e \in S
      PROVE  Elements(Append(s, e)) = Elements(s) \cup {e}
  <2>1. /\ Append(s, e) \in Seq(S) /\ Len(Append(s, e)) = Len(s) + 1
        /\ Append(s, e)[Len(s) + 1] = e
        /\ \A i \in 1 .. Len(s) : Append(s, e)[i] = s[i]
    OBVIOUS
  <2>2. DOMAIN Append(s, e) = 1 .. Len(s) + 1
    BY <2>1, LenProperties
  <2>3. \A x : x \in Elements(Append(s, e)) <=> \E i \in 1 .. Len(s) + 1 : Append(s, e)[i] = x
    BY <2>2 DEF Elements
  <2>4. \A i \in 1 .. Len(s) + 1 : i \in 1 .. Len(s) \/ i = Len(s) + 1
    BY <1>1
  <2>5. \A i \in 1 .. Len(s) : i \in 1 .. Len(s) + 1
    BY <1>1
  <2>6. Len(s) + 1 \in 1 .. Len(s) + 1
    BY <1>1
  <2> QED BY <1>2, <2>1, <2>3, <2>4, <2>5, <2>6
<1>5. ASSUME s # <<>>
      PROVE  Elements(s) = {Head(s)} \cup Elements(Tail(s))
  <2>1. /\ Tail(s) \in Seq(S) /\ Len(Tail(s)) = Len(s) - 1
        /\ \A i \in 1 .. Len(Tail(s)) : Tail(s)[i] = s[i + 1]
        /\ Head(s) = s[1] /\ Len(s) > 0
    BY <1>5, HeadTailProperties, EmptySeq
  <2>2. DOMAIN Tail(s) = 1 .. Len(s) - 1
    BY <2>1, LenProperties
  <2>3. \A x : x \in Elements(Tail(s)) <=> \E i \in 1 .. Len(s) - 1 : Tail(s)[i] = x
    BY <2>2 DEF Elements
  <2>4. \A i \in 1 .. Len(s) - 1 : i + 1 \in 1 .. Len(s) /\ Tail(s)[i] = s[i + 1]
    BY <1>1, <2>1
  <2>5. \A i \in 1 .. Len(s) : i # 1 => i - 1 \in 1 .. Len(s) - 1 /\ Tail(s)[i - 1] = s[i]
    BY <1>1, <2>1
  <2>6. 1 \in 1 .. Len(s)
    BY <1>1, <2>1
  <2> QED BY <1>2, <2>1, <2>3, <2>4, <2>5, <2>6
<1> QED BY <1>2, <1>3, <1>4, <1>5

LEMMA OnceAppend ==
    ASSUME NEW s \in Seq(QueueItems), NEW e \in QueueItems, Once(s),
           e \notin Calls \/ e \notin Elements(s)
    PROVE  Once(Append(s, e))
<1>1. /\ Len(Append(s, e)) = Len(s) + 1 /\ Append(s, e)[Len(s) + 1] = e
      /\ \A i \in 1 .. Len(s) : Append(s, e)[i] = s[i] /\ Len(s) \in Nat
  OBVIOUS
<1>2. \A i \in 1 .. Len(s) + 1 : i \in 1 .. Len(s) \/ i = Len(s) + 1
  BY <1>1
<1>3. e \notin Calls \/ \A i \in 1 .. Len(s) : s[i] # e
  BY ElementsFacts
<1> QED BY <1>1, <1>2, <1>3 DEF Once

LEMMA OnceTail ==
    ASSUME NEW s \in Seq(QueueItems), s # <<>>, Once(s)
    PROVE  /\ Once(Tail(s))
           /\ Head(s) \in Calls => Head(s) \notin Elements(Tail(s))
<1>1. /\ Tail(s) \in Seq(QueueItems) /\ Len(Tail(s)) = Len(s) - 1
      /\ \A i \in 1 .. Len(Tail(s)) : Tail(s)[i] = s[i + 1]
      /\ Head(s) = s[1] /\ Len(s) > 0 /\ Len(s) \in Nat
  BY HeadTailProperties, EmptySeq
<1>2. \A i \in 1 .. Len(s) - 1 : i + 1 \in 1 .. Len(s) /\ Tail(s)[i] = s[i + 1] /\ i + 1 # 1
  BY <1>1
<1>3. 1 \in 1 .. Len(s)
  BY <1>1
<1>4. Once(Tail(s))
  <2> SUFFICES ASSUME NEW i \in 1 .. Len(s) - 1, NEW j \in 1 .. Len(s) - 1,
                      Tail(s)[i] = Tail(s)[j], Tail(s)[i] \in Calls
               PROVE  i = j
    BY <1>1 DEF Once
  <2>1. i + 1 = j + 1
    BY <1>2 DEF Once
  <2> QED BY <2>1, <1>1
<1>5. ASSUME Head(s) \in Calls, Head(s) \in Elements(Tail(s))
      PROVE  FALSE
  <2>1. PICK i \in 1 .. Len(Tail(s)) : Tail(s)[i] = Head(s)
    BY <1>1, <1>5, InElements
  <2> QED BY <1>1, <1>2, <1>3, <1>5, <2>1 DEF Once
<1> QED BY <1>4, <1>5

\* The queue of a generator with one more item, and without its first.
LEMMA AppendFacts ==
    ASSUME StoreTypeOK, NEW g \in Generators, NEW e \in QueueItems
    PROVE  /\ Append(requests[g], e) \in Seq(QueueItems)
           /\ Elements(Append(requests[g], e)) = Elements(requests[g]) \cup {e}
           /\ Once(requests[g]) /\ (e \notin Calls \/ e \notin Elements(requests[g]))
                => Once(Append(requests[g], e))
<1>1. requests[g] \in Seq(QueueItems)
  BY DEF StoreTypeOK
<1> QED BY <1>1, ElementsFacts, OnceAppend

LEMMA TailFacts ==
    ASSUME StoreTypeOK, NEW g \in Generators, requests[g] # <<>>
    PROVE  /\ Tail(requests[g]) \in Seq(QueueItems) /\ Head(requests[g]) \in QueueItems
           /\ Elements(requests[g]) = {Head(requests[g])} \cup Elements(Tail(requests[g]))
           /\ Once(requests[g]) =>
                 /\ Once(Tail(requests[g]))
                 /\ Head(requests[g]) \in Calls
                       => Head(requests[g]) \notin Elements(Tail(requests[g]))
<1>1. requests[g] \in Seq(QueueItems)
  BY DEF StoreTypeOK
<1> QED BY <1>1, ElementsFacts, OnceTail, HeadTailProperties

\* What one more item does to the queues, and one item less.
LEMMA PutFacts ==
    ASSUME StoreTypeOK, NEW g \in Generators, NEW e \in QueueItems,
           requests' = [requests EXCEPT ![g] = Append(@, e)]
    PROVE  /\ requests' \in [Generators -> Seq(QueueItems)]
           /\ \A f \in Generators :
                 /\ Elements(requests'[f]) =
                       IF f = g THEN Elements(requests[f]) \cup {e} ELSE Elements(requests[f])
                 /\ Once(requests[f]) /\ (f = g => e \notin Calls \/ e \notin Elements(requests[f]))
                       => Once(requests'[f])
<1>1. requests \in [Generators -> Seq(QueueItems)] /\ Append(requests[g], e) \in Seq(QueueItems)
  BY AppendFacts DEF StoreTypeOK
<1>2. \A f \in Generators :
         requests'[f] = IF f = g THEN Append(requests[g], e) ELSE requests[f]
  BY <1>1
<1>3. requests' \in [Generators -> Seq(QueueItems)]
  BY <1>1
<1>4. ASSUME NEW f \in Generators
      PROVE  /\ Elements(requests'[f]) =
                   IF f = g THEN Elements(requests[f]) \cup {e} ELSE Elements(requests[f])
             /\ Once(requests[f]) /\ (f = g => e \notin Calls \/ e \notin Elements(requests[f]))
                   => Once(requests'[f])
  <2>1. CASE f = g
    BY <1>2, <2>1, AppendFacts
  <2>2. CASE f # g
    BY <1>2, <1>4, <2>2
  <2> QED BY <2>1, <2>2
<1> QED BY <1>3, <1>4

LEMMA TakeFacts ==
    ASSUME StoreTypeOK, NEW g \in Generators, requests[g] # <<>>,
           requests' = [requests EXCEPT ![g] = Tail(@)]
    PROVE  /\ requests' \in [Generators -> Seq(QueueItems)]
           /\ Head(requests[g]) \in QueueItems
           /\ Head(requests[g]) \in Elements(requests[g])
           /\ \A e : e \in Elements(requests[g]) =>
                        e = Head(requests[g]) \/ e \in Elements(requests'[g])
           /\ \A f \in Generators :
                 /\ Elements(requests'[f]) \subseteq Elements(requests[f])
                 /\ f # g => requests'[f] = requests[f]
                 /\ Once(requests[f]) => Once(requests'[f])
           /\ Once(requests[g]) /\ Head(requests[g]) \in Calls
                 => Head(requests[g]) \notin Elements(requests'[g])
<1>1. requests \in [Generators -> Seq(QueueItems)] /\ Tail(requests[g]) \in Seq(QueueItems)
  BY TailFacts DEF StoreTypeOK
<1>2. \A f \in Generators : requests'[f] = IF f = g THEN Tail(requests[g]) ELSE requests[f]
  BY <1>1
<1>3. requests' \in [Generators -> Seq(QueueItems)]
  BY <1>1
<1>4. ASSUME NEW f \in Generators
      PROVE  /\ Elements(requests'[f]) \subseteq Elements(requests[f])
             /\ f # g => requests'[f] = requests[f]
             /\ Once(requests[f]) => Once(requests'[f])
  BY <1>2, TailFacts
<1>5. requests'[g] = Tail(requests[g])
  BY <1>2
<1> QED BY <1>3, <1>4, <1>5, TailFacts

-----------------------------------------------------------------------------
(* The invariant.                                                          *)

InMemory ==
    /\ cache = None <=> current = None
    /\ cache # None => /\ holds[current] = cache /\ apc = cache
                       /\ worker[current] \in {"top", "get"} /\ ~stopped[current]

Busy == {"stop", "join", "create", "ready"}

\* What the loop works on, wherever it is held up.
LoopInv ==
    /\ loop \in {"free", "release"} => InMemory
    /\ loop = "release" => current # None
    /\ loop \in Busy => owner \in Calls /\ at[owner] = "loading"
    /\ loop \in Busy => Kind[owner] = "unload" \/ Serves(goal, Asked[owner])
    /\ loop \in {"create", "ready"} => cache = None /\ goal # None /\ Kind[owner] # "unload"
    /\ loop \in {"stop", "join"} /\ Kind[owner] # "unload" => goal # None
    /\ loop \in {"stop", "join"} =>
          /\ current # None /\ stopped[current]
          /\ worker[current] \in {"top", "get", "ended"}
    /\ loop = "create" => current = None
    /\ loop = "ready" =>
          /\ current # None /\ holds[current] = goal /\ apc = goal /\ ~stopped[current]
          /\ worker[current] \in {"loading", "top", "get", "broken"}

\* A generator: only its own waiting calls are queued, each once; its thread
\* ends only when told, and is the current one's unless a join timed out.
GenInv(g) ==
    /\ holds[g] = None <=> worker[g] = "none"
    /\ worker[g] = "ended" => stopped[g]
    /\ worker[g] = "none" => ~stopped[g]
    /\ StopItem \in Elements(requests[g]) => stopped[g]
    /\ ~late /\ worker[g] \in Alive => g = current
    /\ Once(requests[g])
    /\ worker[g] \notin {"top", "get", "ended"} => serving[g] = None
    /\ serving[g] # None /\ worker[g] \in {"top", "get"} =>
          at[serving[g]] \in {"reading", "streaming"} /\ callee[serving[g]] = g
    /\ \A h \in Calls : h \in Elements(requests[g]) => at[h] = "waiting" /\ callee[h] = g

\* A call: known to the generator it called, which holds the model it asked
\* for unless that was replaced before; until then the model is in memory.
CallInv(h) ==
    /\ at[h] \in Inside =>
          /\ callee[h] # None /\ holds[callee[h]] # None
          /\ h \notin passed => Serves(holds[callee[h]], Asked[h])
    /\ at[h] \in {"waiting", "reading", "streaming"} =>
          worker[callee[h]] \in {"top", "get", "ended"}
    /\ at[h] = "waiting" => h \in Elements(requests[callee[h]])
    /\ at[h] \in {"reading", "streaming"} => serving[callee[h]] = h
    /\ at[h] = "loaded" /\ h \notin passed =>
          loop \in {"free", "release"} /\ cache # None /\ Serves(cache, Asked[h])

StoreInv == /\ LoopInv
            /\ \A g \in Generators : GenInv(g)
            /\ \A h \in Calls : CallInv(h)

\* A model fits the request it was chosen for.
LEMMA KeyServes ==
    ASSUME NEW cached, NEW asked
    PROVE  Serves(KeyFor(cached, asked), asked)
<1> QED BY DEF Serves, KeyFor

\* A call that arrives disturbs no generator but the one it stops.
LEMMA ArrivalKeeps ==
    ASSUME StoreTypeOK, StoreInv, NEW h \in Calls, NEW place, at[h] = "new",
           at' = [at EXCEPT ![h] = place],
           UNCHANGED <<current, callee, holds, worker, requests, serving, late>>,
           \/ UNCHANGED stopped
           \/ loop = "free" /\ cache # None /\ stopped' = [stopped EXCEPT ![current] = TRUE],
           NEW f \in Generators
    PROVE  GenInv(f)'
<1>1. GenInv(f) /\ \A c \in Calls \ {h} : at'[c] = at[c]
  BY DEF StoreInv, StoreTypeOK
<1>2. /\ h \notin Elements(requests[f]) /\ serving[f] \in Calls \cup {None}
      /\ serving[f] = h => worker[f] \notin {"top", "get"}
  BY <1>1, StoreAssumption DEF GenInv, StoreTypeOK
<1>3. /\ stopped[f] => stopped'[f]
      /\ stopped'[f] => stopped[f] \/ worker[f] # "none"
  BY DEF StoreInv, LoopInv, InMemory, StoreTypeOK
<1> QED BY <1>1, <1>2, <1>3 DEF GenInv

LEMMA LoadKeeps ==
    ASSUME StoreTypeOK, StoreInv, NEW h \in Calls, Load(h)
    PROVE  StoreTypeOK' /\ StoreInv'
<1>1. StoreTypeOK'
  <2>1. KeyFor(cache, Asked[h]) \in Models
    BY StoreAssumption DEF StoreTypeOK
  <2>2. at' \in [Calls -> {"new", "loading", "loaded", "freeing", "done"} \cup Inside]
    BY DEF Load, BeginStop, StoreTypeOK, Inside
  <2>3. loop' \in {"free", "stop", "join", "create", "ready", "release"} /\ owner' \in Calls \cup {None}
    BY DEF Load, BeginStop, StoreTypeOK
  <2>4. goal' \in Models \cup {None}
    BY <2>1 DEF Load, StoreTypeOK
  <2>5. stopped' \in [Generators -> BOOLEAN] /\ passed' \subseteq Calls
    BY DEF Load, BeginStop, generator, StoreTypeOK
  <2> QED BY <2>2, <2>3, <2>4, <2>5 DEF Load, BeginStop, generator, StoreTypeOK
<1>2. LoopInv'
  BY KeyServes, StoreAssumption DEF Load, BeginStop, generator, StoreTypeOK, StoreInv, LoopInv, InMemory
<1>3. ASSUME NEW f \in Generators
      PROVE  GenInv(f)'
  <2>1. PICK place : at' = [at EXCEPT ![h] = place]
    BY DEF Load, BeginStop
  <2>2. UNCHANGED <<current, callee, holds, worker, requests, serving, late>>
    BY DEF Load, BeginStop, generator
  <2>3. /\ at[h] = "new"
        /\ \/ UNCHANGED stopped
           \/ /\ loop = "free" /\ cache # None
              /\ stopped' = [stopped EXCEPT ![current] = TRUE]
    BY DEF Load, BeginStop, generator
  <2> QED BY <1>3, <2>1, <2>2, <2>3, ArrivalKeeps
<1>4. ASSUME NEW c \in Calls
      PROVE  CallInv(c)'
  BY <1>4, KeyServes, StoreAssumption DEF Load, BeginStop, generator, StoreTypeOK, StoreInv, CallInv, Inside
<1> QED BY <1>1, <1>2, <1>3, <1>4 DEF StoreInv

LEMMA UnloadKeeps ==
    ASSUME StoreTypeOK, StoreInv, NEW h \in Calls, Unload(h)
    PROVE  StoreTypeOK' /\ StoreInv'
<1>1. StoreTypeOK'
  BY DEF Unload, BeginStop, store, generator, StoreTypeOK
<1>2. LoopInv'
  BY DEF Unload, BeginStop, store, StoreTypeOK, StoreInv, LoopInv, InMemory
<1>3. ASSUME NEW f \in Generators
      PROVE  GenInv(f)'
  <2>1. PICK place : at' = [at EXCEPT ![h] = place]
    BY DEF Unload, BeginStop
  <2>2. UNCHANGED <<current, callee, holds, worker, requests, serving, late>>
    BY DEF Unload, BeginStop, generator, store
  <2>3. /\ at[h] = "new"
        /\ \/ UNCHANGED stopped
           \/ /\ loop = "free" /\ cache # None
              /\ stopped' = [stopped EXCEPT ![current] = TRUE]
    BY DEF Unload, BeginStop, generator
  <2> QED BY <1>3, <2>1, <2>2, <2>3, ArrivalKeeps
<1>4. ASSUME NEW c \in Calls
      PROVE  CallInv(c)'
  <2>1. CASE cache = None
    BY <1>4, <2>1 DEF Unload, generator, StoreTypeOK, StoreInv, CallInv, Inside
  <2>2. CASE cache # None
    BY <1>4, <2>2 DEF Unload, BeginStop, StoreTypeOK, StoreInv, CallInv, Inside
  <2> QED BY <2>1, <2>2
<1> QED BY <1>1, <1>2, <1>3, <1>4 DEF StoreInv

LEMMA BeginKeeps ==
    ASSUME StoreTypeOK, StoreInv, NEW h \in Calls, Begin(h)
    PROVE  StoreTypeOK' /\ StoreInv'
<1>1. StoreTypeOK'
  <2>1. at' \in [Calls -> {"new", "loading", "loaded", "freeing", "done"} \cup Inside]
    BY DEF Begin, Leave, StoreTypeOK, Inside
  <2>2. callee' \in [Calls -> Generators \cup {None}]
    BY DEF Begin, Leave, StoreTypeOK
  <2> QED BY <2>1, <2>2 DEF Begin, store, generator, StoreTypeOK
<1>2. LoopInv'
  BY DEF Begin, Leave, store, generator, StoreTypeOK, StoreInv, LoopInv, InMemory
<1>3. ASSUME NEW f \in Generators
      PROVE  GenInv(f)'
  <2>1. \A c \in Calls \ {h} : at'[c] = at[c] /\ callee'[c] = callee[c]
    BY DEF Begin, Leave, StoreTypeOK
  <2>2. at[h] = "loaded" /\ GenInv(f)
    BY <1>3 DEF Begin, StoreInv
  <2>3. UNCHANGED <<current, late, generator>>
    BY DEF Begin, store
  <2> QED BY <1>3, <2>1, <2>2, <2>3 DEF generator, GenInv, StoreTypeOK
<1>4. ASSUME NEW c \in Calls
      PROVE  CallInv(c)'
  <2>1. CallInv(c) /\ at[h] = "loaded" /\ UNCHANGED <<cache, loop, holds, worker, requests, serving, passed>>
    BY <1>4 DEF Begin, store, generator, StoreInv
  <2>2. CASE c # h
    <3>1. at'[c] = at[c] /\ callee'[c] = callee[c]
      BY <1>4, <2>2 DEF Begin, Leave, StoreTypeOK
    <3> QED BY <2>1, <3>1 DEF CallInv, Inside
  <2>3. CASE c = h /\ Leave(h)
    BY <2>3 DEF Leave, StoreTypeOK, CallInv, Inside
  <2>4. CASE c = h /\ current # None /\ callee' = [callee EXCEPT ![h] = current]
             /\ at' = [at EXCEPT ![h] = "calling"]
    <3>1. callee'[h] = current /\ at'[h] = "calling" /\ current \in Generators
      BY <2>4 DEF StoreTypeOK
    <3>2. h \notin passed => holds[current] = cache /\ Serves(cache, Asked[h])
      BY <2>1, <2>4 DEF CallInv, StoreInv, LoopInv, InMemory
    <3>3. holds[current] # None
      <4>1. loop # "create" /\ worker[current] # "none"
        BY <2>4 DEF StoreInv, LoopInv, InMemory, StoreTypeOK
      <4> QED BY <3>1, <4>1 DEF StoreInv, GenInv
    <3> QED BY <2>1, <2>4, <3>1, <3>2, <3>3 DEF CallInv, Inside
  <2> QED BY <2>2, <2>3, <2>4 DEF Begin
<1> QED BY <1>1, <1>2, <1>3, <1>4 DEF StoreInv

LEMMA GenerateKeeps ==
    ASSUME StoreTypeOK, StoreInv, NEW h \in Calls, Generate(h)
    PROVE  StoreTypeOK' /\ StoreInv'
<1>0. callee[h] \in Generators
  BY StoreAssumption DEF Generate, StoreTypeOK, StoreInv, CallInv, Inside
<1>1. StoreTypeOK'
  <2>1. at' \in [Calls -> {"new", "loading", "loaded", "freeing", "done"} \cup Inside]
    BY DEF Generate, Leave, StoreTypeOK, Inside
  <2>2. callee' \in [Calls -> Generators \cup {None}]
    BY DEF Generate, Leave, StoreTypeOK
  <2>3. requests' \in [Generators -> Seq(QueueItems)]
    BY <1>0, PutFacts DEF Generate, StoreTypeOK, QueueItems
  <2> QED BY <2>1, <2>2, <2>3 DEF Generate, store, StoreTypeOK
<1>2. LoopInv'
  BY DEF Generate, Leave, store, StoreTypeOK, StoreInv, LoopInv, InMemory
<1>3. ASSUME NEW f \in Generators
      PROVE  GenInv(f)'
  <2>1. \A c \in Calls \ {h} : at'[c] = at[c] /\ callee'[c] = callee[c]
    BY DEF Generate, Leave, StoreTypeOK
  <2>2. at[h] = "calling" /\ GenInv(f) /\ h \notin Elements(requests[f])
    BY <1>3 DEF Generate, StoreInv, GenInv
  <2>3. UNCHANGED <<current, late, holds, worker, stopped, serving>>
    BY DEF Generate, store
  <2>4. CASE UNCHANGED requests
    BY <1>3, <2>1, <2>2, <2>3, <2>4 DEF GenInv, StoreTypeOK
  <2>5. CASE requests' = [requests EXCEPT ![callee[h]] = Append(@, h)] /\ at' = [at EXCEPT ![h] = "waiting"] /\ UNCHANGED callee
    <3>1. /\ Elements(requests'[f]) =
                IF f = callee[h] THEN Elements(requests[f]) \cup {h} ELSE Elements(requests[f])
          /\ Once(requests'[f])
      BY <1>0, <1>3, <2>2, <2>5, PutFacts DEF QueueItems, GenInv
    <3>2. at'[h] = "waiting" /\ callee'[h] = callee[h] /\ h # StopItem
      BY <2>5, StoreAssumption DEF StoreTypeOK
    <3> QED BY <1>3, <2>1, <2>2, <2>3, <3>1, <3>2 DEF GenInv, StoreTypeOK
  <2> QED BY <2>4, <2>5 DEF Generate
<1>4. ASSUME NEW c \in Calls
      PROVE  CallInv(c)'
  <2>1. CASE c # h
    <3>1. at'[c] = at[c] /\ callee'[c] = callee[c] /\ CallInv(c)
      BY <1>4, <2>1 DEF Generate, Leave, StoreTypeOK, StoreInv
    <3>2. \A f \in Generators : Elements(requests[f]) \subseteq Elements(requests'[f])
      <4>1. CASE UNCHANGED requests
        BY <4>1
      <4>2. CASE requests' = [requests EXCEPT ![callee[h]] = Append(@, h)]
        BY <1>0, <4>2, PutFacts DEF QueueItems
      <4> QED BY <4>1, <4>2 DEF Generate
    <3>3. callee[c] \in Generators \cup {None}
      BY DEF StoreTypeOK
    <3> QED BY <3>1, <3>2, <3>3 DEF Generate, store, CallInv, Inside
  <2>2. CASE /\ c = h /\ worker[callee[h]] # "broken" /\ UNCHANGED callee
             /\ requests' = [requests EXCEPT ![callee[h]] = Append(@, h)]
             /\ at' = [at EXCEPT ![h] = "waiting"]
    <3>1. h \in Elements(requests'[callee[h]])
      BY <1>0, <2>2, PutFacts DEF QueueItems
    <3>2. /\ UNCHANGED <<callee, holds, worker, serving, passed>> /\ CallInv(h)
          /\ at[h] = "calling" /\ at'[h] = "waiting"
      BY <2>2 DEF Generate, StoreTypeOK, StoreInv
    <3>3. worker[callee[h]] \in {"top", "get", "ended"}
      <4>1. holds[callee[h]] # None /\ worker[callee[h]] \notin {"loading", "broken"}
        BY <2>2, <3>2 DEF Generate, IsReady, CallInv, Inside
      <4>2. worker[callee[h]] # "none"
        BY <1>0, <4>1 DEF StoreInv, GenInv
      <4>3. worker[callee[h]] \in {"none", "broken", "ended", "loading", "top", "get"}
        BY <1>0 DEF StoreTypeOK, Alive
      <4> QED BY <4>1, <4>2, <4>3
    <3> QED BY <2>2, <3>1, <3>2, <3>3 DEF CallInv, Inside
  <2>3. CASE c = h /\ Leave(h)
    BY <2>3 DEF Leave, StoreTypeOK, CallInv, Inside
  <2> QED BY <2>1, <2>2, <2>3 DEF Generate
<1> QED BY <1>1, <1>2, <1>3, <1>4 DEF StoreInv

LEMMA TokenTimesOutKeeps ==
    ASSUME StoreTypeOK, StoreInv, NEW h \in Calls, TokenTimesOut(h)
    PROVE  StoreTypeOK' /\ StoreInv'
<1>1. StoreTypeOK'
  BY DEF TokenTimesOut, Leave, store, generator, StoreTypeOK
<1>2. LoopInv'
  BY DEF TokenTimesOut, Leave, store, generator, StoreInv, LoopInv, InMemory
<1>3. ASSUME NEW f \in Generators
      PROVE  GenInv(f)'
  BY <1>3 DEF TokenTimesOut, Leave, store, generator, StoreInv, GenInv
<1>4. ASSUME NEW c \in Calls
      PROVE  CallInv(c)'
  BY <1>4 DEF TokenTimesOut, Leave, store, generator, StoreTypeOK, StoreInv, CallInv, Inside
<1> QED BY <1>1, <1>2, <1>3, <1>4 DEF StoreInv

LEMMA FreeKeeps ==
    ASSUME StoreTypeOK, StoreInv, NEW h \in Calls, Free(h)
    PROVE  StoreTypeOK' /\ StoreInv'
<1>1. StoreTypeOK'
  BY DEF Free, store, generator, StoreTypeOK
<1>2. LoopInv'
  BY DEF Free, store, generator, StoreInv, LoopInv, InMemory, Busy
<1>3. ASSUME NEW f \in Generators
      PROVE  GenInv(f)'
  BY <1>3 DEF Free, store, generator, StoreInv, GenInv
<1>4. ASSUME NEW c \in Calls
      PROVE  CallInv(c)'
  BY <1>4 DEF Free, store, generator, StoreInv, CallInv, Inside
<1> QED BY <1>1, <1>2, <1>3, <1>4 DEF StoreInv

LEMMA PutStopKeeps ==
    ASSUME StoreTypeOK, StoreInv, PutStop
    PROVE  StoreTypeOK' /\ StoreInv'
<1>0. /\ current \in Generators /\ loop = "stop" /\ StopItem \in QueueItems /\ StopItem \notin Calls
      /\ requests' = [requests EXCEPT ![current] = Append(@, StopItem)]
  BY StoreAssumption DEF PutStop, StoreTypeOK, StoreInv, LoopInv, QueueItems
<1>1. StoreTypeOK'
  BY <1>0, PutFacts DEF PutStop, store, StoreTypeOK
<1>2. LoopInv'
  BY DEF PutStop, store, StoreInv, LoopInv, Busy
<1>3. ASSUME NEW f \in Generators
      PROVE  GenInv(f)'
  <2>1. /\ Elements(requests'[f]) =
              IF f = current THEN Elements(requests[f]) \cup {StopItem} ELSE Elements(requests[f])
        /\ Once(requests'[f]) /\ GenInv(f)
    BY <1>0, <1>3, PutFacts DEF StoreInv, GenInv
  <2>2. f = current /\ StopItem = StopItem => stopped[f]
    BY <1>0 DEF StoreInv, LoopInv, StopItem, ReleaseItem
  <2>3. UNCHANGED <<current, holds, worker, late, stopped, serving, at, callee>>
    BY DEF PutStop, store
  <2> QED BY <1>0, <2>1, <2>2, <2>3 DEF GenInv
<1>4. ASSUME NEW c \in Calls
      PROVE  CallInv(c)'
  <2>1. \A f \in Generators : Elements(requests[f]) \subseteq Elements(requests'[f])
    BY <1>0, PutFacts
  <2>2. callee[c] \in Generators \cup {None} /\ CallInv(c)
    BY <1>4 DEF StoreTypeOK, StoreInv
  <2>3. UNCHANGED <<holds, worker, serving, at, callee, passed, cache>>
    BY DEF PutStop, store
  <2> QED BY <1>0, <2>1, <2>2, <2>3 DEF PutStop, CallInv, Inside
<1> QED BY <1>1, <1>2, <1>3, <1>4 DEF StoreInv

LEMMA JoinedKeeps ==
    ASSUME StoreTypeOK, StoreInv, Joined
    PROVE  StoreTypeOK' /\ StoreInv'
<1>1. StoreTypeOK'
  BY DEF Joined, generator, StoreTypeOK
<1>2. LoopInv'
  BY DEF Joined, StoreInv, LoopInv, InMemory, Busy
<1>3. ASSUME NEW f \in Generators
      PROVE  GenInv(f)'
  <2>1. /\ GenInv(f) /\ UNCHANGED <<holds, worker, stopped, requests, serving, callee>>
        /\ owner \in Calls /\ at[owner] = "loading"
        /\ \A c \in Calls \ {owner} : at'[c] = at[c]
    BY <1>3 DEF Joined, generator, StoreTypeOK, StoreInv, LoopInv, Busy
  <2>2. ~late' /\ worker[f] \in Alive => f = current'
    BY <2>1 DEF Joined, GenInv
  <2>3. /\ owner \notin Elements(requests[f]) /\ serving[f] \in Calls \cup {None}
        /\ serving[f] = owner => worker[f] \notin {"top", "get"}
    BY <1>3, <2>1, StoreAssumption DEF GenInv, StoreTypeOK
  <2> QED BY <2>1, <2>2, <2>3 DEF GenInv
<1>4. ASSUME NEW c \in Calls
      PROVE  CallInv(c)'
  <2>1. CallInv(c) /\ UNCHANGED <<callee, holds, worker, requests, serving, passed>>
    BY <1>4 DEF Joined, generator, StoreInv
  <2>2. CASE c = owner
    <3>1. at'[c] \in {"loading", "done"}
      BY <1>4, <2>2 DEF Joined, StoreTypeOK, StoreInv, LoopInv, Busy
    <3> QED BY <3>1 DEF CallInv, Inside
  <2>3. CASE c # owner
    <3>1. at'[c] = at[c]
      BY <1>4, <2>3 DEF Joined, StoreTypeOK
    <3> QED BY <2>1, <3>1 DEF Joined, CallInv, Inside
  <2> QED BY <2>2, <2>3
<1> QED BY <1>1, <1>2, <1>3, <1>4 DEF StoreInv

LEMMA CreateKeeps ==
    ASSUME StoreTypeOK, StoreInv, Create
    PROVE  StoreTypeOK' /\ StoreInv'
<1>1. StoreTypeOK'
  BY DEF Create, GeneratorIsLeft, StoreTypeOK, Alive
<1>2. LoopInv'
  <2>1. PICK g \in Generators : /\ worker[g] = "none" /\ current' = g
                                /\ holds' = [holds EXCEPT ![g] = goal]
                                /\ worker' = [worker EXCEPT ![g] = "loading"]
    BY DEF Create, GeneratorIsLeft
  <2>2. holds'[g] = goal /\ worker'[g] = "loading" /\ GenInv(g) /\ g # None
    BY <2>1, StoreAssumption DEF StoreTypeOK, StoreInv
  <2>3. ~stopped[g]
    BY <2>1, <2>2 DEF StoreInv, GenInv
  <2> QED BY <2>1, <2>2, <2>3 DEF Create, StoreInv, LoopInv, Busy
<1>3. ASSUME NEW f \in Generators
      PROVE  GenInv(f)'
  BY <1>3, StoreAssumption DEF Create, GeneratorIsLeft, StoreTypeOK, StoreInv, LoopInv, GenInv
<1>4. ASSUME NEW c \in Calls
      PROVE  CallInv(c)'
  BY <1>4 DEF Create, GeneratorIsLeft, StoreInv, GenInv, CallInv
<1> QED BY <1>1, <1>2, <1>3, <1>4 DEF StoreInv

LEMMA ReadyKeeps ==
    ASSUME StoreTypeOK, StoreInv, Ready
    PROVE  StoreTypeOK' /\ StoreInv'
<1>0. /\ current \in Generators /\ loop = "ready" /\ owner \in Calls
      /\ StopItem \in QueueItems /\ StopItem \notin Calls /\ at[owner] = "loading"
  BY StoreAssumption DEF Ready, StoreTypeOK, StoreInv, LoopInv, Busy, QueueItems
<1>1. StoreTypeOK'
  <2>1. at' \in [Calls -> {"new", "loading", "loaded", "freeing", "done"} \cup Inside]
    BY <1>0 DEF Ready, StoreTypeOK
  <2>2. stopped' \in [Generators -> BOOLEAN]
    BY DEF Ready, StoreTypeOK
  <2>3. requests' \in [Generators -> Seq(QueueItems)]
    BY <1>0, PutFacts DEF Ready, StoreTypeOK
  <2>4. current' \in Generators \cup {None} /\ cache' \in Models \cup {None}
    BY DEF Ready, StoreTypeOK, AfterFailure
  <2> QED BY <2>1, <2>2, <2>3, <2>4 DEF Ready, StoreTypeOK
<1>2. LoopInv'
  BY DEF Ready, IsReady, AfterFailure, StoreInv, LoopInv, InMemory, Busy
<1>3. ASSUME NEW f \in Generators
      PROVE  GenInv(f)'
  <2>1. /\ GenInv(f) /\ UNCHANGED <<holds, worker, serving, callee, late>>
        /\ \A c \in Calls \ {owner} : at'[c] = at[c]
        /\ owner \notin Elements(requests[f])
    BY <1>0, <1>3 DEF Ready, StoreTypeOK, StoreInv, GenInv
  <2>2. /\ serving[f] \in Calls \cup {None}
        /\ serving[f] = owner => worker[f] \notin {"top", "get"}
    BY <1>0, <2>1, StoreAssumption DEF GenInv, StoreTypeOK
  <2>3. CASE worker[current] # "broken"
    <3>1. UNCHANGED <<current, stopped, requests>>
      BY <2>3 DEF Ready
    <3> QED BY <2>1, <2>2, <3>1 DEF GenInv
  <2>4. CASE worker[current] = "broken"
    <3>1. /\ requests' = [requests EXCEPT ![current] = Append(@, StopItem)]
          /\ stopped' = [stopped EXCEPT ![current] = TRUE]
      BY <2>4 DEF Ready
    <3>2. /\ Elements(requests'[f]) =
                IF f = current THEN Elements(requests[f]) \cup {StopItem} ELSE Elements(requests[f])
          /\ Once(requests'[f])
      BY <1>0, <1>3, <2>1, <3>1, PutFacts DEF GenInv
    <3>3. stopped'[f] <=> (f = current \/ stopped[f])
      BY <1>0, <3>1 DEF StoreTypeOK
    <3>4. worker[f] \in Alive /\ ~late => f # current
      BY <2>4 DEF Alive
    <3> QED BY <1>0, <2>1, <2>2, <2>4, <3>2, <3>3, <3>4 DEF GenInv
  <2> QED BY <2>3, <2>4
<1>4. ASSUME NEW c \in Calls
      PROVE  CallInv(c)'
  BY <1>4 DEF Ready, StoreTypeOK, StoreInv, LoopInv, GenInv, CallInv, Inside, Busy
<1> QED BY <1>1, <1>2, <1>3, <1>4 DEF StoreInv

LEMMA PutReleaseKeeps ==
    ASSUME StoreTypeOK, StoreInv, PutRelease
    PROVE  StoreTypeOK' /\ StoreInv'
<1>0. /\ current \in Generators /\ loop = "release" /\ ReleaseItem \in QueueItems /\ ReleaseItem \notin Calls
      /\ requests' = [requests EXCEPT ![current] = Append(@, ReleaseItem)]
  BY StoreAssumption DEF PutRelease, StoreTypeOK, StoreInv, LoopInv, QueueItems
<1>1. StoreTypeOK'
  BY <1>0, PutFacts DEF PutRelease, store, StoreTypeOK
<1>2. LoopInv'
  BY DEF PutRelease, store, StoreInv, LoopInv, InMemory, Busy
<1>3. ASSUME NEW f \in Generators
      PROVE  GenInv(f)'
  <2>1. /\ Elements(requests'[f]) =
              IF f = current THEN Elements(requests[f]) \cup {ReleaseItem} ELSE Elements(requests[f])
        /\ Once(requests'[f]) /\ GenInv(f)
    BY <1>0, <1>3, PutFacts DEF StoreInv, GenInv
  <2>2. f = current /\ ReleaseItem = StopItem => stopped[f]
    BY <1>0 DEF StoreInv, LoopInv, StopItem, ReleaseItem
  <2>3. UNCHANGED <<current, holds, worker, late, stopped, serving, at, callee>>
    BY DEF PutRelease, store
  <2> QED BY <1>0, <2>1, <2>2, <2>3 DEF GenInv
<1>4. ASSUME NEW c \in Calls
      PROVE  CallInv(c)'
  <2>1. \A f \in Generators : Elements(requests[f]) \subseteq Elements(requests'[f])
    BY <1>0, PutFacts
  <2>2. callee[c] \in Generators \cup {None} /\ CallInv(c)
    BY <1>4 DEF StoreTypeOK, StoreInv
  <2>3. UNCHANGED <<holds, worker, serving, at, callee, passed, cache>>
    BY DEF PutRelease, store
  <2> QED BY <1>0, <2>1, <2>2, <2>3 DEF PutRelease, CallInv, Inside
<1> QED BY <1>1, <1>2, <1>3, <1>4 DEF StoreInv

LEMMA LoadModelKeeps ==
    ASSUME StoreTypeOK, StoreInv, NEW g \in Generators, LoadModel(g)
    PROVE  StoreTypeOK' /\ StoreInv'
<1>1. StoreTypeOK'
  BY DEF LoadModel, store, StoreTypeOK, Alive
<1>2. LoopInv'
  BY DEF LoadModel, store, StoreInv, LoopInv, InMemory
<1>3. ASSUME NEW f \in Generators
      PROVE  GenInv(f)'
  <2>1. PICK end \in {"top", "broken"} : worker' = [worker EXCEPT ![g] = end]
    BY DEF LoadModel
  <2>2. /\ GenInv(f) /\ worker[g] = "loading"
        /\ worker'[f] = IF f = g THEN end ELSE worker[f]
        /\ UNCHANGED <<current, holds, stopped, requests, serving, at, callee, late>>
    BY <1>3, <2>1 DEF LoadModel, store, StoreTypeOK, StoreInv
  <2>3. f = g => serving[g] = None
    BY <2>2 DEF GenInv
  <2> QED BY <2>2, <2>3 DEF GenInv, Alive
<1>4. ASSUME NEW c \in Calls
      PROVE  CallInv(c)'
  BY <1>4 DEF LoadModel, store, StoreInv, CallInv
<1> QED BY <1>1, <1>2, <1>3, <1>4 DEF StoreInv

LEMMA LookKeeps ==
    ASSUME StoreTypeOK, StoreInv, NEW g \in Generators, Look(g)
    PROVE  StoreTypeOK' /\ StoreInv'
<1>1. StoreTypeOK'
  BY DEF Look, store, StoreTypeOK, Alive
<1>2. LoopInv'
  BY DEF Look, store, StoreInv, LoopInv, InMemory
<1>3. ASSUME NEW f \in Generators
      PROVE  GenInv(f)'
  BY <1>3 DEF Look, store, StoreInv, GenInv, Alive
<1>4. ASSUME NEW c \in Calls
      PROVE  CallInv(c)'
  BY <1>4 DEF Look, store, StoreInv, CallInv
<1> QED BY <1>1, <1>2, <1>3, <1>4 DEF StoreInv

LEMMA TakeKeeps ==
    ASSUME StoreTypeOK, StoreInv, NEW g \in Generators, Take(g)
    PROVE  StoreTypeOK' /\ StoreInv'
<1> DEFINE item == Head(requests[g])
<1>1. /\ worker[g] = "get" /\ serving[g] = None /\ requests[g] # <<>>
      /\ requests' = [requests EXCEPT ![g] = Tail(@)]
      /\ worker' = [worker EXCEPT ![g] = IF item = StopItem THEN "ended" ELSE "top"]
      /\ UNCHANGED <<current, cache, apc, goal, loop, owner, callee, holds, stopped, late, passed>>
  BY DEF Take, EndsThread, store
<1>2. /\ requests' \in [Generators -> Seq(QueueItems)]
      /\ item \in QueueItems /\ item \in Elements(requests[g])
      /\ \A e : e \in Elements(requests[g]) => e = item \/ e \in Elements(requests'[g])
      /\ \A f \in Generators :
            /\ Elements(requests'[f]) \subseteq Elements(requests[f])
            /\ f # g => requests'[f] = requests[f]
            /\ Once(requests[f]) => Once(requests'[f])
      /\ Once(requests[g]) /\ item \in Calls => item \notin Elements(requests'[g])
  BY <1>1, TakeFacts
<1>3. /\ \A f \in Generators : worker'[f] = IF f # g THEN worker[f]
                                ELSE IF item = StopItem THEN "ended" ELSE "top"
      /\ worker' \in [Generators -> {"none", "broken", "ended"} \cup Alive]
  BY <1>1 DEF StoreTypeOK, Alive
<1>4. item = StopItem => stopped[g]
  BY <1>2 DEF StoreInv, GenInv
<1>5. /\ item \in Calls => /\ serving' = [serving EXCEPT ![g] = item]
                          /\ at' = [at EXCEPT ![item] = "reading"]
                          /\ at[item] = "waiting" /\ callee[item] = g /\ item # StopItem
      /\ item \notin Calls => UNCHANGED <<serving, at>>
  BY <1>2, StoreAssumption DEF Take, StoreInv, GenInv
<1> HIDE DEF item
<1>6. /\ at' \in [Calls -> {"new", "loading", "loaded", "freeing", "done"} \cup Inside]
      /\ \A c \in Calls : at'[c] = IF c = item THEN "reading" ELSE at[c]
      /\ serving' \in [Generators -> Calls \cup {None}]
      /\ \A f \in Generators : serving'[f] = IF f = g /\ item \in Calls THEN item ELSE serving[f]
  <2>1. CASE item \in Calls
    BY <1>5, <2>1 DEF StoreTypeOK, Inside
  <2>2. CASE item \notin Calls
    BY <1>5, <2>2 DEF StoreTypeOK
  <2> QED BY <2>1, <2>2
<1>7. StoreTypeOK'
  BY <1>1, <1>2, <1>3, <1>6 DEF StoreTypeOK
<1>8. LoopInv'
  <2>1. loop \in Busy => at'[owner] = "loading"
    BY <1>5, <1>6, StoreAssumption DEF StoreInv, LoopInv
  <2>2. current = None \/ current # g => current = None \/ worker'[current] = worker[current]
    BY <1>3 DEF StoreTypeOK
  <2>3. current = g /\ ~stopped[g] => worker'[current] = "top"
    BY <1>3, <1>4
  <2>4. current = g => worker'[current] \in {"top", "ended"}
    BY <1>3
  <2> QED BY <1>1, <2>1, <2>2, <2>3, <2>4 DEF StoreInv, LoopInv, InMemory, Busy
<1>9. ASSUME NEW f \in Generators
      PROVE  GenInv(f)'
  <2>1. CASE f = g
    <3>1. GenInv(g)
      BY DEF StoreInv
    <3>2. ASSUME NEW h \in Calls, h \in Elements(requests'[g])
          PROVE  at'[h] = "waiting" /\ callee'[h] = g
      BY <1>1, <1>2, <1>6, <3>1, <3>2 DEF GenInv
    <3> QED BY <1>1, <1>2, <1>3, <1>4, <1>5, <1>6, <2>1, <3>1, <3>2 DEF GenInv, Alive
  <2>2. CASE f # g
    <3>1. GenInv(f) /\ requests'[f] = requests[f] /\ worker'[f] = worker[f] /\ serving'[f] = serving[f]
      BY <1>2, <1>3, <1>6, <1>9, <2>2 DEF StoreInv
    <3>2. serving[f] \in Calls \cup {None} /\ None \notin Calls
      BY <1>9, StoreAssumption DEF StoreTypeOK
    <3>3. ASSUME NEW h \in Calls, h \in Elements(requests[f])
          PROVE  at'[h] = "waiting" /\ callee'[h] = f
      BY <1>1, <1>5, <1>6, <2>2, <3>1, <3>3 DEF GenInv
    <3>4. serving[f] # None /\ worker[f] \in {"top", "get"} =>
             at'[serving[f]] \in {"reading", "streaming"} /\ callee[serving[f]] = f
      BY <1>6, <3>1, <3>2 DEF GenInv
    <3> QED BY <1>1, <3>1, <3>3, <3>4 DEF GenInv
  <2> QED BY <2>1, <2>2
<1>10. ASSUME NEW c \in Calls
       PROVE  CallInv(c)'
  <2>1. CallInv(c) /\ callee[c] \in Generators \cup {None} /\ None \notin Generators
    BY <1>10, StoreAssumption DEF StoreInv, StoreTypeOK
  <2>2. CASE c = item
    BY <1>1, <1>3, <1>5, <1>6, <2>1, <2>2 DEF CallInv, Inside
  <2>3. CASE c # item
    <3>1. at[c] = "waiting" => c \in Elements(requests'[callee[c]])
      BY <1>2, <2>1, <2>3 DEF CallInv, Inside
    <3>2. at[c] \in {"reading", "streaming"} => callee[c] # g
      BY <1>1, <1>10, <2>1, StoreAssumption DEF CallInv
    <3> QED BY <1>1, <1>3, <1>6, <2>1, <2>3, <3>1, <3>2 DEF CallInv, Inside
  <2> QED BY <2>2, <2>3
<1> QED BY <1>7, <1>8, <1>9, <1>10 DEF StoreInv

LEMMA RoundKeeps ==
    ASSUME StoreTypeOK, StoreInv, NEW g \in Generators, Round(g)
    PROVE  StoreTypeOK' /\ StoreInv'
<1>1. StoreTypeOK'
  <2>1. serving[g] \in Calls
    BY DEF Round, StoreTypeOK
  <2>2. at' \in [Calls -> {"new", "loading", "loaded", "freeing", "done"} \cup Inside]
    BY <2>1 DEF Round, Leave, StoreTypeOK, Inside
  <2>3. callee' \in [Calls -> Generators \cup {None}] /\ serving' \in [Generators -> Calls \cup {None}]
    BY <2>1 DEF Round, Leave, StoreTypeOK
  <2>4. worker' \in [Generators -> {"none", "broken", "ended"} \cup Alive]
    BY DEF Round, StoreTypeOK, Alive
  <2> QED BY <2>2, <2>3, <2>4 DEF Round, store, StoreTypeOK
<1>2. LoopInv'
  BY DEF Round, Leave, store, StoreTypeOK, StoreInv, LoopInv, InMemory, GenInv
<1>3. ASSUME NEW f \in Generators
      PROVE  GenInv(f)'
  BY <1>3 DEF Round, Leave, store, StoreTypeOK, StoreInv, LoopInv, InMemory, GenInv, CallInv, Inside, Alive
<1>4. ASSUME NEW c \in Calls
      PROVE  CallInv(c)'
  <2>1. /\ serving[g] \in Calls /\ CallInv(c) /\ worker[g] = "get" /\ None \notin Generators
        /\ callee[serving[g]] = g /\ at[serving[g]] \in {"reading", "streaming"}
        /\ callee[c] \in Generators \cup {None} /\ None \notin Calls
    BY <1>4, StoreAssumption DEF Round, StoreTypeOK, StoreInv, GenInv
  <2>2. /\ UNCHANGED <<cache, loop, holds, requests, passed>>
        /\ \A f \in Generators : worker'[f] = IF f = g THEN "top" ELSE worker[f]
    BY DEF Round, store, StoreTypeOK
  <2>3. CASE c = serving[g]
    <3>1. \/ at'[c] = "streaming" /\ UNCHANGED <<callee, serving>>
          \/ at'[c] \in {"freeing", "done"}
      BY <1>4, <2>1, <2>3 DEF Round, Leave, StoreTypeOK
    <3> QED BY <2>1, <2>2, <2>3, <3>1 DEF CallInv, Inside
  <2>4. CASE c # serving[g]
    <3>1. at'[c] = at[c] /\ callee'[c] = callee[c]
      BY <1>4, <2>1, <2>4 DEF Round, Leave, StoreTypeOK
    <3>2. \A f \in Generators \ {g} : serving'[f] = serving[f]
      BY DEF Round, StoreTypeOK
    <3>3. at[c] \in {"reading", "streaming"} => callee[c] # g
      BY <2>1, <2>4 DEF CallInv
    <3> QED BY <2>1, <2>2, <3>1, <3>2, <3>3 DEF CallInv, Inside
  <2> QED BY <2>3, <2>4
<1> QED BY <1>1, <1>2, <1>3, <1>4 DEF StoreInv

LEMMA FindNothingKeeps ==
    ASSUME StoreTypeOK, StoreInv, NEW g \in Generators, FindNothing(g)
    PROVE  StoreTypeOK' /\ StoreInv'
<1>1. StoreTypeOK'
  BY DEF FindNothing, store, StoreTypeOK, Alive
<1>2. LoopInv'
  BY DEF FindNothing, store, StoreInv, LoopInv, InMemory
<1>3. ASSUME NEW f \in Generators
      PROVE  GenInv(f)'
  BY <1>3 DEF FindNothing, store, StoreInv, GenInv, Alive
<1>4. ASSUME NEW c \in Calls
      PROVE  CallInv(c)'
  BY <1>4 DEF FindNothing, store, StoreInv, CallInv
<1> QED BY <1>1, <1>2, <1>3, <1>4 DEF StoreInv

LEMMA StoreStep ==
    ASSUME StoreTypeOK, StoreInv, [StoreNext]_storeVars
    PROVE  StoreTypeOK' /\ StoreInv'
<1>1. ASSUME NEW h \in Calls, Load(h) \/ Unload(h) \/ Begin(h) \/ Generate(h)
                               \/ TokenTimesOut(h) \/ Free(h)
      PROVE  StoreTypeOK' /\ StoreInv'
  BY <1>1, LoadKeeps, UnloadKeeps, BeginKeeps, GenerateKeeps, TokenTimesOutKeeps, FreeKeeps
<1>2. CASE OnLoop
  BY <1>2, PutStopKeeps, JoinedKeeps, CreateKeeps, ReadyKeeps, PutReleaseKeeps DEF OnLoop
<1>3. ASSUME NEW g \in Generators, Turn(g)
      PROVE  StoreTypeOK' /\ StoreInv'
  BY <1>3, LoadModelKeeps, LookKeeps, TakeKeeps, RoundKeeps, FindNothingKeeps DEF Turn
<1>4. CASE UNCHANGED storeVars
  <2>1. StoreTypeOK'
    BY <1>4 DEF storeVars, StoreTypeOK
  <2>2. LoopInv'
    BY <1>4 DEF storeVars, StoreInv, LoopInv, InMemory
  <2>3. \A g \in Generators : GenInv(g)'
    BY <1>4 DEF storeVars, StoreInv, GenInv
  <2>4. \A h \in Calls : CallInv(h)'
    BY <1>4 DEF storeVars, StoreInv, CallInv
  <2> QED BY <2>1, <2>2, <2>3, <2>4 DEF StoreInv
<1> QED BY <1>1, <1>2, <1>3, <1>4 DEF StoreNext

LEMMA StoreBegins == StoreInit => StoreTypeOK /\ StoreInv
<1> SUFFICES ASSUME StoreInit PROVE StoreTypeOK /\ StoreInv
  OBVIOUS
<1>1. PICK m \in InitialModels :
         /\ cache = m /\ apc = m
         /\ current = IF m = None THEN None ELSE CHOOSE g \in Generators : TRUE
         /\ holds = [g \in Generators |-> IF g = current THEN m ELSE None]
  BY DEF StoreInit
<1>2. m \in Models \cup {None} /\ None \notin Generators /\ None \notin Calls
      /\ (m = None => current = None) /\ (m # None => current \in Generators)
  BY <1>1, StoreAssumption
<1>3. StoreTypeOK
  <2>1. <<>> \in Seq(QueueItems)
    OBVIOUS
  <2> QED BY <1>1, <1>2, <2>1 DEF StoreInit, StoreTypeOK, Inside, Alive
<1>4. LoopInv
  BY <1>1, <1>2 DEF StoreInit, LoopInv, InMemory, Busy
<1>5. ASSUME NEW g \in Generators
      PROVE  GenInv(g)
  <2>1. Elements(requests[g]) = {} /\ Once(requests[g])
    BY DEF StoreInit, Elements, Once
  <2> QED BY <1>1, <1>2, <1>5, <2>1 DEF StoreInit, GenInv, Alive
<1>6. ASSUME NEW h \in Calls
      PROVE  CallInv(h)
  BY <1>6 DEF StoreInit, CallInv, Inside
<1> QED BY <1>3, <1>4, <1>5, <1>6 DEF StoreInv

LEMMA StoreHolds == StoreSpec => [](StoreTypeOK /\ StoreInv)
<1> QED BY StoreBegins, StoreStep, PTL DEF StoreSpec

-----------------------------------------------------------------------------
(* Theorems.                                                               *)

\* Type correctness of the store, the generators and the calls.
THEOREM StoreTypesHold == StoreSpec => []StoreTypeOK
<1> QED BY StoreHolds, PTL

\* What is in memory between two steps of the event loop fits together, and
\* only a join that timed out leaves a second model behind.
THEOREM StoreStaysCoherent == StoreSpec => []StoreIsCoherent
<1>1. StoreTypeOK /\ StoreInv => StoreIsCoherent
  BY DEF StoreInv, LoopInv, InMemory, GenInv, StoreIsCoherent
<1> QED BY <1>1, StoreHolds, PTL

\* No call is answered by another model or adapter than it named, unless the
\* model went between the two steps of its route.
THEOREM AnswersAreAsked == StoreSpec => []AnsweredByAsked
<1>1. StoreTypeOK /\ StoreInv => AnsweredByAsked
  BY DEF StoreInv, CallInv, AnsweredByAsked
<1> QED BY <1>1, StoreHolds, PTL

\* A call that waits is known to a thread that runs or was told to stop.
THEOREM WaitersStayKnown == StoreSpec => []WaitersAreKnown
<1>1. ASSUME StoreTypeOK, StoreInv, NEW h \in Calls,
             at[h] \in {"waiting", "reading", "streaming"}
      PROVE  /\ IF at[h] = "waiting" THEN h \in Elements(requests[callee[h]])
                                    ELSE serving[callee[h]] = h
             /\ worker[callee[h]] \in {"top", "get"} \/ stopped[callee[h]]
  <2>1. CallInv(h) /\ callee[h] \in Generators
    BY <1>1, StoreAssumption DEF StoreInv, CallInv, Inside, StoreTypeOK
  <2>2. GenInv(callee[h])
    BY <1>1, <2>1 DEF StoreInv
  <2> QED BY <1>1, <2>1, <2>2 DEF CallInv, GenInv
<1>2. StoreTypeOK /\ StoreInv => WaitersAreKnown
  BY <1>1 DEF WaitersAreKnown
<1> QED BY <1>2, StoreHolds, PTL

===============================================================================
