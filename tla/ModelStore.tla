------------------------------ MODULE ModelStore ------------------------------
(***************************************************************************)
(* The server's model store (model_store.py), the routes that load, use    *)
(* and unload a model through it, and the generation threads it starts and *)
(* stops (engine/generation.py, seen from outside).                        *)
(*                                                                         *)
(* The routes run on one event loop.  Loading and unloading happen on it   *)
(* without an await, so it stands still meanwhile: that is `loop`.  The    *)
(* calls of generate() run on the threads of an executor and go on.        *)
(***************************************************************************)
EXTENDS Naturals, Sequences

CONSTANTS
    Calls,        \* the requests that reach the server
    Kind,         \* what each is: "whole" answer, "stream", or "unload"
    Asked,        \* the <<model_path, adapter_path>> it names
    Freers,       \* those with release_kv
    Default,      \* the path that stands for the model in memory
    Inherit,      \* the adapter that stands for the one in memory
    Models,       \* what can be in memory: <<model_path, adapter_path>>
    NoAdapter,
    Generators,   \* the ResponseGenerators a behaviour may create
    None,         \* no model, no generator, no call
    Depth,        \* maxsize of a generator's request queue
    InitialModels \* what XMLX_VLM_PRELOAD_MODEL may have loaded, or None

StopItem == "stop"
ReleaseItem == "release"

\* A slip: a model with the right path is used whatever its adapter.
KeyForPath(cached, asked) ==
    IF cached # None /\ asked[1] \in {Default, cached[1]} THEN cached
    ELSE <<asked[1], IF asked[2] # Inherit THEN asked[2] ELSE NoAdapter>>

\* What a request means while `cached` is in memory: the path and the adapter
\* may both be left to it.
KeyFor(cached, asked) ==
    LET path == IF asked[1] = Default /\ cached # None THEN cached[1] ELSE asked[1]
        same == cached # None /\ cached[1] = path
    IN  <<path, IF asked[2] # Inherit THEN asked[2]
                ELSE IF same THEN cached[2] ELSE NoAdapter>>

ASSUME StoreAssumption ==
    /\ Kind \in [Calls -> {"whole", "stream", "unload"}]
    /\ Freers \subseteq Calls /\ Generators # {} /\ Depth \in Nat \ {0}
    /\ {StopItem, ReleaseItem} \cap Calls = {}
    /\ None \notin Models \cup Generators \cup Calls
    /\ InitialModels \subseteq Models \cup {None}
    /\ \A h \in Calls, cached \in Models \cup {None} : KeyFor(cached, Asked[h]) \in Models

VARIABLES
    current,   \* response_generator
    cache,     \* cache: the key of the model in memory
    apc,       \* apc_manager, by the model it was made for
    loop,      \* where the event loop is held up, or "free"
    owner,     \* the call it works for
    goal,      \* the key get_or_load is loading
    at,        \* where each call is
    callee,    \* the generator whose generate() it called
    holds,     \* what each generator was made for; None if not made
    worker,    \* where the thread of each generator is
    stopped,   \* _stop
    requests,  \* requests
    serving,   \* the request it answers
    late,      \* history: a join has timed out
    passed     \* history: calls whose model went before they called generate()

store == <<current, cache, apc, goal>>
generator == <<holds, worker, stopped, requests, serving>>
storeVars == <<current, cache, apc, loop, owner, goal, at, callee, holds, worker,
               stopped, requests, serving, late, passed>>

Alive == {"loading", "top", "get"}
Inside == {"calling", "waiting", "reading", "streaming"}
QueueItems == Calls \cup {StopItem, ReleaseItem}

StoreTypeOK ==
    /\ current \in Generators \cup {None}
    /\ cache \in Models \cup {None} /\ apc \in Models \cup {None}
    /\ loop \in {"free", "stop", "join", "create", "ready", "release"}
    /\ owner \in Calls \cup {None} /\ goal \in Models \cup {None}
    /\ at \in [Calls -> {"new", "loading", "loaded", "freeing", "done"} \cup Inside]
    /\ callee \in [Calls -> Generators \cup {None}]
    /\ holds \in [Generators -> Models \cup {None}]
    /\ worker \in [Generators -> {"none", "broken", "ended"} \cup Alive]
    /\ stopped \in [Generators -> BOOLEAN]
    /\ requests \in [Generators -> Seq(QueueItems)]
    /\ serving \in [Generators -> Calls \cup {None}]
    /\ late \in BOOLEAN /\ passed \subseteq Calls

\* A server that preloaded a model, or none.
StoreInit ==
    /\ \E m \in InitialModels :
          /\ cache = m /\ apc = m
          /\ current = IF m = None THEN None ELSE CHOOSE g \in Generators : TRUE
          /\ holds = [g \in Generators |-> IF g = current THEN m ELSE None]
    /\ worker = [g \in Generators |-> IF g = current THEN "top" ELSE "none"]
    /\ loop = "free" /\ owner = None /\ goal = None
    /\ at = [h \in Calls |-> "new"] /\ callee = [h \in Calls |-> None]
    /\ stopped = [g \in Generators |-> FALSE]
    /\ requests = [g \in Generators |-> <<>>]
    /\ serving = [g \in Generators |-> None]
    /\ late = FALSE /\ passed = {}

-----------------------------------------------------------------------------
(* get_or_load and unload, on the event loop.                              *)

\* stop_and_join begins: from now on nothing reaches the model in memory.
BeginStop(h) ==
    /\ stopped' = [stopped EXCEPT ![current] = TRUE]
    /\ loop' = "stop" /\ owner' = h
    /\ at' = [at EXCEPT ![h] = "loading"]
    /\ passed' = passed \cup {c \in Calls : at[c] = "loaded"}
    /\ UNCHANGED <<callee, holds, worker, requests, serving>>

\* A bound: a load begins only while a generator is left for it.
GeneratorIsLeft == \E g \in Generators : worker[g] = "none"

Load(h) ==
    /\ loop = "free" /\ at[h] = "new" /\ Kind[h] # "unload"
    /\ LET key == KeyFor(cache, Asked[h]) IN
       \/ /\ cache = key
          /\ at' = [at EXCEPT ![h] = "loaded"]
          /\ UNCHANGED <<loop, owner, goal, callee, generator, passed>>
       \/ /\ cache \notin {key, None} /\ GeneratorIsLeft
          /\ goal' = key
          /\ BeginStop(h)
       \/ /\ cache = None /\ GeneratorIsLeft
          /\ goal' = key
          /\ loop' = "create" /\ owner' = h
          /\ at' = [at EXCEPT ![h] = "loading"]
          /\ UNCHANGED <<callee, generator, passed>>
    /\ UNCHANGED <<current, cache, apc, late>>

Unload(h) ==
    /\ loop = "free" /\ at[h] = "new" /\ Kind[h] = "unload"
    /\ \/ /\ cache = None
          /\ at' = [at EXCEPT ![h] = "done"]
          /\ UNCHANGED <<loop, owner, callee, generator, passed>>
       \/ cache # None /\ BeginStop(h)
    /\ UNCHANGED <<store, late>>

\* requests.put(None) blocks while the queue is full.
PutStop ==
    /\ loop = "stop" /\ Len(requests[current]) < Depth
    /\ requests' = [requests EXCEPT ![current] = Append(@, StopItem)]
    /\ loop' = "join"
    /\ UNCHANGED <<store, owner, at, callee, holds, worker, stopped, serving, late, passed>>

\* join(timeout=5.0) returns, whether the thread ended or not; the rest of
\* unload().
Joined ==
    /\ loop = "join"
    /\ late' = (late \/ worker[current] \in Alive)
    /\ current' = None /\ apc' = None /\ cache' = None
    /\ \/ /\ Kind[owner] = "unload"
          /\ loop' = "free" /\ owner' = None
          /\ at' = [at EXCEPT ![owner] = "done"]
       \/ /\ Kind[owner] # "unload"
          /\ loop' = "create" /\ UNCHANGED <<owner, at>>
    /\ UNCHANGED <<goal, callee, generator, passed>>

\* The new generator is current before its model is loaded.
Create ==
    /\ loop = "create" /\ GeneratorIsLeft
    /\ LET g == CHOOSE f \in Generators : worker[f] = "none" IN
       /\ current' = g
       /\ holds' = [holds EXCEPT ![g] = goal]
       /\ worker' = [worker EXCEPT ![g] = "loading"]
    /\ apc' = goal /\ loop' = "ready"
    /\ UNCHANGED <<cache, goal, owner, at, callee, stopped, requests, serving, late, passed>>

\* A slip: a generator whose model did not load stays current.
AfterFailureKept == current

\* What a failed load leaves as the response_generator.
AfterFailure == None

\* A slip: the event is not set when the load fails.
IsReadyOnSuccess(g) == worker[g] \notin {"loading", "broken"}

\* The event _ready of a generator.
IsReady(g) == worker[g] # "loading"

\* wait_until_ready returns or raises; the stop of a thread that ended.
Ready ==
    /\ loop = "ready" /\ IsReady(current)
    /\ loop' = "free" /\ owner' = None /\ goal' = None
    /\ \/ /\ worker[current] # "broken"
          /\ cache' = goal /\ at' = [at EXCEPT ![owner] = "loaded"]
          /\ UNCHANGED <<current, stopped, requests>>
       \/ /\ worker[current] = "broken"
          /\ stopped' = [stopped EXCEPT ![current] = TRUE]
          /\ requests' = [requests EXCEPT ![current] = Append(@, StopItem)]
          /\ current' = AfterFailure /\ at' = [at EXCEPT ![owner] = "done"]
          /\ UNCHANGED cache
    /\ UNCHANGED <<apc, callee, holds, worker, serving, late, passed>>

-----------------------------------------------------------------------------
(* The routes' calls of generate().                                        *)

\* A call is over, answered or not.
Leave(h) ==
    /\ at' = [at EXCEPT ![h] = IF h \in Freers THEN "freeing" ELSE "done"]
    /\ callee' = [callee EXCEPT ![h] = None]

\* A stream reads response_generator on the loop, a whole answer in the
\* executor; a stream that finds none generates by itself, and a whole
\* answer fails.
Begin(h) ==
    /\ at[h] = "loaded" /\ (Kind[h] = "stream" => loop = "free")
    /\ \/ /\ current # None
          /\ callee' = [callee EXCEPT ![h] = current]
          /\ at' = [at EXCEPT ![h] = "calling"]
       \/ current = None /\ Leave(h)
    /\ UNCHANGED <<store, loop, owner, generator, late, passed>>

\* generate(): wait_until_ready, then put_nowait.
Generate(h) ==
    /\ at[h] = "calling" /\ IsReady(callee[h])
    /\ \/ /\ worker[callee[h]] # "broken" /\ Len(requests[callee[h]]) < Depth
          /\ requests' = [requests EXCEPT ![callee[h]] = Append(@, h)]
          /\ at' = [at EXCEPT ![h] = "waiting"]
          /\ UNCHANGED callee
       \/ /\ worker[callee[h]] = "broken" \/ Len(requests[callee[h]]) >= Depth
          /\ Leave(h)
          /\ UNCHANGED requests
    /\ UNCHANGED <<store, loop, owner, holds, worker, stopped, serving, late, passed>>

\* The wait for a further token, unlike that for the first, has a timeout.
TokenTimesOut(h) ==
    /\ at[h] = "streaming" /\ worker[callee[h]] = "ended"
    /\ Leave(h)
    /\ UNCHANGED <<store, loop, owner, generator, late, passed>>

\* The end of the route, on the loop: requests.put blocks it while the queue
\* of whichever generator is current is full.
Free(h) ==
    /\ loop = "free" /\ at[h] = "freeing"
    /\ at' = [at EXCEPT ![h] = "done"]
    /\ \/ current = None /\ UNCHANGED loop
       \/ current # None /\ loop' = "release"
    /\ UNCHANGED <<store, owner, callee, generator, late, passed>>

PutRelease ==
    /\ loop = "release" /\ Len(requests[current]) < Depth
    /\ requests' = [requests EXCEPT ![current] = Append(@, ReleaseItem)]
    /\ loop' = "free"
    /\ UNCHANGED <<store, owner, at, callee, holds, worker, stopped, serving, late, passed>>

-----------------------------------------------------------------------------
(* The generation thread of a generator, with serialized requests.         *)

LoadModel(g) ==
    /\ worker[g] = "loading"
    /\ \E end \in {"top", "broken"} : worker' = [worker EXCEPT ![g] = end]
    /\ UNCHANGED <<store, loop, owner, at, callee, holds, stopped, requests, serving, late, passed>>

\* while not self._stop
Look(g) ==
    /\ worker[g] = "top"
    /\ worker' = [worker EXCEPT ![g] = IF stopped[g] THEN "ended" ELSE "get"]
    /\ UNCHANGED <<store, loop, owner, at, callee, holds, stopped, requests, serving, late, passed>>

\* A slip: every item that is not a request ends the thread.
EndsOnAnyCommand(item) == item \notin Calls

\* The None of stop_and_join ends the thread.
EndsThread(item) == item = StopItem

\* One item of the queue.
Take(g) ==
    /\ worker[g] = "get" /\ serving[g] = None /\ requests[g] # <<>>
    /\ requests' = [requests EXCEPT ![g] = Tail(@)]
    /\ LET item == Head(requests[g]) IN
       /\ worker' = [worker EXCEPT ![g] = IF EndsThread(item) THEN "ended" ELSE "top"]
       /\ \/ /\ item \in Calls
             /\ serving' = [serving EXCEPT ![g] = item]
             /\ at' = [at EXCEPT ![item] = "reading"]
          \/ item \notin Calls /\ UNCHANGED <<serving, at>>
    /\ UNCHANGED <<store, loop, owner, callee, holds, stopped, late, passed>>

\* A round with tokens, the last ones or not.
Round(g) ==
    /\ worker[g] = "get" /\ serving[g] # None
    /\ worker' = [worker EXCEPT ![g] = "top"]
    /\ LET h == serving[g] IN
       \/ /\ at[h] = "reading"
          /\ at' = [at EXCEPT ![h] = "streaming"]
          /\ UNCHANGED <<callee, serving>>
       \/ /\ Leave(h)
          /\ serving' = [serving EXCEPT ![g] = None]
    /\ UNCHANGED <<store, loop, owner, holds, stopped, requests, late, passed>>

\* The get times out, which matters only once there is a stop to see.
FindNothing(g) ==
    /\ worker[g] = "get" /\ serving[g] = None /\ requests[g] = <<>> /\ stopped[g]
    /\ worker' = [worker EXCEPT ![g] = "top"]
    /\ UNCHANGED <<store, loop, owner, at, callee, holds, stopped, requests, serving, late, passed>>

-----------------------------------------------------------------------------
OnLoop == PutStop \/ Joined \/ Create \/ Ready \/ PutRelease
Turn(g) == LoadModel(g) \/ Look(g) \/ Take(g) \/ Round(g) \/ FindNothing(g)

StoreNext == \/ OnLoop
             \/ \E h \in Calls : Load(h) \/ Unload(h) \/ Begin(h) \/ Generate(h)
                                 \/ TokenTimesOut(h) \/ Free(h)
             \/ \E g \in Generators : Turn(g)

\* The loop goes on when what it waits for is there, threads are scheduled and
\* loads end.  Nothing is assumed about the calls.
StoreFairness ==
    /\ WF_storeVars(OnLoop)
    /\ \A g \in Generators : WF_storeVars(Turn(g))

StoreSpec == StoreInit /\ [][StoreNext]_storeVars /\ StoreFairness

-----------------------------------------------------------------------------
(* Properties.                                                             *)

\* Whatever loads fail and joins time out: between two steps of the event loop
\* a model in the cache has its own generator, current, ready and not stopped,
\* and without one there is none; and two models are never in memory at a
\* time, unless a thread outlived its join.
StoreIsCoherent ==
    /\ loop \in {"free", "release"} =>
          /\ cache = None <=> current = None
          /\ cache # None => /\ holds[current] = cache /\ apc = cache
                             /\ worker[current] \in {"top", "get"}
                             /\ ~stopped[current]
    /\ ~late => \A f, g \in Generators :
                   worker[f] \in Alive /\ worker[g] \in Alive => f = g

Serves(model, asked) ==
    /\ asked[1] \in {Default, model[1]}
    /\ asked[2] \in {Inherit, model[2]}

\* A call is answered by the model and adapter it asked for, unless they were
\* replaced between its get_or_load and its generate().
AnsweredByAsked ==
    \A h \in Calls \ passed : at[h] \in Inside => Serves(holds[callee[h]], Asked[h])

\* The loop is held up for ever: nobody will take anything from the full queue.
Stuck == loop = "stop" /\ worker[current] = "ended" /\ Len(requests[current]) >= Depth

\* Loads, unloads and releases end, unless the loop stops a generator whose
\* queue is full.
LoopComesBack == loop # "free" ~> loop = "free" \/ Stuck

Elements(s) == {s[i] : i \in DOMAIN s}

\* A call that waits for an answer is queued at its generator or served by it,
\* and the thread of that generator runs unless it was told to stop, although
\* models are replaced, fail to load and joins time out meanwhile.
WaitersAreKnown ==
    \A h \in Calls : at[h] \in {"waiting", "reading", "streaming"} =>
        /\ IF at[h] = "waiting" THEN h \in Elements(requests[callee[h]])
                                ELSE serving[callee[h]] = h
        /\ worker[callee[h]] \in {"top", "get"} \/ stopped[callee[h]]

===============================================================================
