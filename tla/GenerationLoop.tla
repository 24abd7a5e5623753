--------------------------- MODULE GenerationLoop ---------------------------
(***************************************************************************)
(* The generation thread of the inference server (engine/generation.py,    *)
(* ResponseGenerator) with the batch generator it owns                     *)
(* (generate/batch/generator.py) and the handlers that submit requests to  *)
(* its queue and read their answers from a queue of their own.             *)
(*                                                                         *)
(* A row of the batch generator is named by its request; the numbers the   *)
(* code matches rows and requests with are uid[r], which start again at 0  *)
(* in every new generator.                                                 *)
(***************************************************************************)
EXTENDS Integers, Sequences, FiniteSets

CONSTANTS
    Requests,      \* the calls of generate()
    Embeds,        \* requests whose prompt carries inputs_embeds
    Length,        \* number of prompt tokens of each request
    Releasers,     \* requests whose route asks for release_kv at its end
    MaxNumSeqs,    \* max_num_seqs, the completion batch of the generator
    PrefillBatch,  \* prefill_batch_size of the generator
    QueueDepth,    \* maxsize of the request queue
    MaxTokens,     \* max_tokens of every request
    MaxChunks,     \* bound: prefill steps of one prompt batch
    Modes,         \* the values of serialize_requests to consider
    Faults,        \* kinds of faults that may happen
    MaxFaults      \* bound: how many do

FaultKinds == {"step", "embed", "insert", "stop", "idle"}
ReleaseKv == "release_kv"

ASSUME RequestsAssumption ==
    /\ IsFiniteSet(Requests) /\ ReleaseKv \notin Requests
    /\ Embeds \subseteq Requests /\ Releasers \subseteq Requests
    /\ Length \in [Requests -> Nat]

ASSUME LimitsAssumption ==
    /\ MaxNumSeqs \in Nat \ {0} /\ PrefillBatch \in Nat \ {0}
    /\ QueueDepth \in Nat \ {0} /\ MaxTokens \in Nat \ {0}
    /\ MaxChunks \in Nat /\ MaxFaults \in Nat
    /\ Modes \subseteq BOOLEAN /\ Faults \subseteq FaultKinds

VARIABLES
    queue,       \* requests: the queue of the thread
    client,      \* where the handler of each request is
    rq,          \* rqueue: what the handler has not read yet
    releasing,   \* handlers that still have to put their release_kv
    cancelled,   \* _cancelled: uids given up by their handlers
    pc, hand,    \* the thread: where it is in _run, its new_items
    active,      \* active: the requests it answers; the key is uid[r]
    uid,         \* the uid insert gave to a request
    gen,         \* whether there is a batch generator
    nextUid,     \* uid_count
    waiting,     \* _unprocessed_sequences, in the order of Before
    prompt,      \* _prompt_batch: the rows being prefilled
    chunks,      \* prefill steps it still needs
    rows,        \* _generation_batch: the rows being decoded
    made,        \* _num_tokens of each row
    released,    \* _idle_kv_released
    stopping,    \* _stop
    serialize,   \* serialize_requests, fixed at the start
    faults,      \* bound: faults so far
    harm         \* history: what went wrong or was dropped

handlers == <<queue, client, rq, releasing, cancelled>>
batch == <<gen, nextUid, waiting, prompt, chunks, rows, made>>
history == <<faults, harm>>
vars == <<queue, client, rq, releasing, cancelled, pc, hand, active, uid, gen,
          nextUid, waiting, prompt, chunks, rows, made, released, stopping,
          serialize, faults, harm>>

Listening == {"waiting", "reading"}
Gone == {"ended", "failed", "cut", "left", "refused"}
Messages == {"context", "token", "last", "error", "none"}
Items == Requests \cup {ReleaseKv}
Elements(s) == {s[i] : i \in DOMAIN s}

TypeOK ==
    /\ queue \in Seq(Items) /\ hand \in Seq(Items)
    /\ client \in [Requests -> {"idle"} \cup Listening \cup Gone]
    /\ rq \in [Requests -> Seq(Messages)]
    /\ releasing \subseteq Requests /\ active \subseteq Requests
    /\ cancelled \subseteq Nat /\ uid \in [Requests -> Nat]
    /\ pc \in {"poll", "insert", "flush", "step", "stopped"}
    /\ gen \in BOOLEAN /\ nextUid \in Nat
    /\ waiting \subseteq Requests
    /\ prompt \subseteq Requests /\ rows \subseteq Requests
    /\ chunks \in Nat /\ made \in [Requests -> Nat]
    /\ released \in BOOLEAN /\ stopping \in BOOLEAN /\ serialize \in BOOLEAN
    /\ faults \in Nat
    /\ harm \subseteq {"drop", "lost", "orphan", "stop"}

Init ==
    /\ queue = <<>> /\ hand = <<>> /\ releasing = {} /\ cancelled = {}
    /\ client = [r \in Requests |-> "idle"]
    /\ rq = [r \in Requests |-> <<>>]
    /\ pc = "poll" /\ active = {} /\ uid = [r \in Requests |-> 0]
    /\ gen = FALSE /\ nextUid = 0 /\ waiting = {} /\ prompt = {}
    /\ chunks = 0 /\ rows = {} /\ made = [r \in Requests |-> 0]
    /\ released = FALSE /\ stopping = FALSE /\ serialize \in Modes
    /\ faults = 0 /\ harm = {}

-----------------------------------------------------------------------------
(* Handlers: generate(), its token iterator and the end of the route.      *)

Leaves(r, how) ==
    /\ client' = [client EXCEPT ![r] = how]
    /\ rq' = [rq EXCEPT ![r] = <<>>]
    /\ releasing' = IF r \in Releasers THEN releasing \cup {r} ELSE releasing

thread == <<pc, hand, active, uid, gen, nextUid, waiting, prompt, chunks, rows,
            made, serialize, faults, harm>>

\* put_nowait; a full queue refuses the request. The thread is alive.
Submit(r) ==
    /\ client[r] = "idle" /\ ~stopping
    /\ released' = FALSE
    /\ \/ /\ Len(queue) < QueueDepth
          /\ queue' = Append(queue, r)
          /\ client' = [client EXCEPT ![r] = "waiting"]
          /\ UNCHANGED <<rq, releasing>>
       \/ /\ Len(queue) >= QueueDepth
          /\ Leaves(r, "refused")
          /\ UNCHANGED queue
    /\ UNCHANGED <<cancelled, stopping, thread>>

\* rqueue.get() of generate(): the context, or the exception that is raised.
Start(r) ==
    /\ client[r] = "waiting" /\ rq[r] # <<>>
    /\ \/ /\ Head(rq[r]) = "context"
          /\ client' = [client EXCEPT ![r] = "reading"]
          /\ rq' = [rq EXCEPT ![r] = Tail(@)]
          /\ UNCHANGED releasing
       \/ /\ Head(rq[r]) # "context"
          /\ Leaves(r, "failed")
    /\ UNCHANGED <<queue, cancelled, released, stopping, thread>>

\* A slip: the message itself, not the end it means.
EndOfRaw(m) == m

EndOf(m) == CASE m = "last"  -> "ended"
              [] m = "error" -> "failed"
              [] OTHER       -> "cut"

Read(r) ==
    /\ client[r] = "reading" /\ rq[r] # <<>>
    /\ \/ /\ Head(rq[r]) = "token"
          /\ rq' = [rq EXCEPT ![r] = Tail(@)]
          /\ UNCHANGED <<client, releasing>>
       \/ /\ Head(rq[r]) # "token"
          /\ Leaves(r, EndOf(Head(rq[r])))
    /\ UNCHANGED <<queue, cancelled, released, stopping, thread>>

\* The iterator is closed by an aborted client, or times out on its queue.
Leave(r) ==
    /\ client[r] = "reading"
    /\ cancelled' = cancelled \cup {uid[r]}
    /\ Leaves(r, "left")
    /\ UNCHANGED <<queue, released, stopping, thread>>

\* requests.put blocks while the queue is full.
SendRelease(r) ==
    /\ r \in releasing /\ Len(queue) < QueueDepth
    /\ queue' = Append(queue, ReleaseKv)
    /\ releasing' = releasing \ {r}
    /\ UNCHANGED <<client, rq, cancelled, released, stopping, thread>>

\* stop_and_join, called when the model is unloaded or replaced.
Stop ==
    /\ "stop" \in Faults /\ ~stopping /\ faults < MaxFaults
    /\ faults' = faults + 1
    /\ stopping' = TRUE /\ harm' = harm \cup {"stop"}
    /\ UNCHANGED <<handlers, pc, hand, active, uid, batch, released, serialize>>

-----------------------------------------------------------------------------
(* What the thread does to the handlers' queues and to its generator.      *)

\* m[r] is what request r is sent; nobody reads the queue of one that left.
Send(m) ==
    rq' = [r \in Requests |-> IF client[r] \in Listening THEN rq[r] \o m[r] ELSE <<>>]

Nothing == [r \in Requests |-> <<>>]

\* A slip: only a context is delivered.
TellOfSuccess(r, m) ==
    Send([Nothing EXCEPT ![r] = IF m = "context" THEN <<m>> ELSE <<>>])

\* rqueue.put of one message to one request.
Tell(r, m) == Send([Nothing EXCEPT ![r] = <<m>>])

Min2(a, b) == IF a < b THEN a ELSE b

\* batch_gen = None, with all its rows.
DropGenerator ==
    /\ gen' = FALSE /\ nextUid' = 0 /\ waiting' = {} /\ prompt' = {}
    /\ chunks' = 0 /\ rows' = {} /\ made' = [r \in Requests |-> 0]
    /\ harm' = harm \cup (IF gen THEN {"drop"} ELSE {})
                    \cup (IF active # {} THEN {"orphan"} ELSE {})

\* BatchGenerator.remove for every uid of gone: a row of a prompt batch with
\* several rows is not found.
RemoveRows(gone) ==
    /\ waiting' = waiting \ gone
    /\ prompt' = IF Cardinality(prompt) = 1 THEN prompt \ gone ELSE prompt
    /\ rows' = rows \ gone
    /\ made' = [r \in Requests |-> IF r \in gone THEN 0 ELSE made[r]]
    /\ chunks' = IF Cardinality(prompt) = 1 /\ prompt \subseteq gone THEN 0 ELSE chunks
    /\ UNCHANGED <<gen, nextUid>>

\* The handler of the outer try: every active request gets the error, the
\* generator is dropped, and what was in hand is forgotten.
Fail(kind) ==
    /\ kind \in Faults /\ faults < MaxFaults
    /\ faults' = faults + 1
    /\ Send([r \in Requests |-> IF r \in active THEN <<"error", "none">> ELSE <<>>])
    /\ active' = {} /\ hand' = <<>> /\ pc' = "poll"
    /\ gen' = FALSE /\ nextUid' = 0 /\ waiting' = {} /\ prompt' = {}
    /\ chunks' = 0 /\ rows' = {} /\ made' = [r \in Requests |-> 0]
    /\ harm' = harm \cup {"drop"} \cup (IF hand # <<>> THEN {"lost"} ELSE {})
    /\ UNCHANGED <<queue, client, releasing, cancelled, uid, released,
                   stopping, serialize>>

-----------------------------------------------------------------------------
(* The thread: one iteration of _run.                                      *)

\* A slip: serialized requests come one at a time, but join the one answered.
SlotsUnlessFirst ==
    IF active = {} /\ serialize THEN 1 ELSE MaxNumSeqs - Cardinality(active)

\* How many items one poll may take.
Slots ==
    IF active = {} THEN IF serialize THEN 1 ELSE MaxNumSeqs
    ELSE IF serialize THEN 0 ELSE MaxNumSeqs - Cardinality(active)

\* Take new items as long as there are slots, then drop what was cancelled.
Poll ==
    /\ pc = "poll" /\ ~stopping
    /\ LET n == Min2(Slots, Len(queue))
           gone == IF gen THEN {r \in active : uid[r] \in cancelled} ELSE {}
       IN  /\ hand' = SubSeq(queue, 1, n)
           /\ queue' = SubSeq(queue, n + 1, Len(queue))
           /\ active' = active \ gone
           /\ RemoveRows(gone)
           /\ Send([r \in Requests |-> IF r \in gone THEN <<"none">> ELSE <<>>])
           /\ pc' = IF n > 0 THEN "insert" ELSE "step"
    /\ cancelled' = {}
    /\ UNCHANGED <<client, releasing, uid, released, stopping, serialize, history>>

\* The get timed out, and nothing was asked of the server for long.
IdleRelease ==
    /\ pc = "poll" /\ ~stopping /\ "idle" \in Faults
    /\ active = {} /\ queue = <<>> /\ gen /\ ~released
    /\ faults < MaxFaults /\ faults' = faults + 1
    /\ DropGenerator
    /\ released' = TRUE /\ cancelled' = {}
    /\ UNCHANGED <<queue, client, rq, releasing, pc, hand, active, uid,
                   stopping, serialize>>

Halt ==
    /\ pc = "poll" /\ stopping
    /\ pc' = "stopped"
    /\ UNCHANGED <<handlers, hand, active, uid, batch, released, stopping,
                   serialize, history>>

AfterItem == pc' = IF Len(hand) > 1 THEN "insert" ELSE "step"

\* A release_kv item, whatever else is active.
Release ==
    /\ pc = "insert" /\ Head(hand) = ReleaseKv
    /\ DropGenerator
    /\ released' = TRUE
    /\ hand' = Tail(hand) /\ AfterItem
    /\ UNCHANGED <<handlers, active, uid, stopping, serialize, faults>>

HasPending == waiting # {} \/ prompt # {}

\* A prompt with embeddings waits until the text-only ones are prefilled.
MustFlush(r) == r \in Embeds /\ \E q \in waiting : q \notin Embeds

\* A slip: numbered by how many are active.
UidByCount == Cardinality(active)

\* uid_count; uids are unique within one generator only.
FreshUid == nextUid

\* BatchGenerator.insert and active[uid] = ..., which takes the place of any request that had this uid.
Enter(r) ==
    /\ waiting' = waiting \cup {r}
    /\ uid' = [uid EXCEPT ![r] = FreshUid]
    /\ nextUid' = nextUid + 1
    /\ active' = {q \in active : uid[q] # FreshUid} \cup {r}
    /\ Tell(r, "context")
    /\ hand' = Tail(hand) /\ AfterItem
    /\ gen' = TRUE
    /\ UNCHANGED <<queue, client, releasing, cancelled, prompt, chunks, rows,
                   made, released, stopping, serialize, history>>

Insert ==
    /\ pc = "insert" /\ Head(hand) # ReleaseKv
    /\ LET r == Head(hand) IN
       \/ /\ MustFlush(r)
          /\ pc' = "flush"
          /\ UNCHANGED <<handlers, hand, active, uid, batch, released, stopping,
                         serialize, history>>
       \/ ~MustFlush(r) /\ Enter(r)

\* insert raises: only this caller is told.
InsertFails ==
    /\ pc = "insert" /\ Head(hand) # ReleaseKv
    /\ "insert" \in Faults /\ faults < MaxFaults
    /\ faults' = faults + 1
    /\ Tell(Head(hand), "error")
    /\ gen' = TRUE
    /\ hand' = Tail(hand) /\ AfterItem
    /\ UNCHANGED <<queue, client, releasing, cancelled, active, uid, nextUid,
                   waiting, prompt, chunks, rows, made, released, stopping,
                   serialize, harm>>

EmbedFails ==
    /\ pc = "insert" /\ Head(hand) # ReleaseKv
    /\ Fail("embed")

\* A slip: one slot too few.
RoomOffByOne(R) == MaxNumSeqs - Cardinality(R) - 1

\* Free rows of the decode batch once R are its rows.
Room(R) == MaxNumSeqs - Cardinality(R)

\* insert sorts the waiting prompts by length and keeps the order of equals.
Before(q, r) == \/ Length[q] < Length[r]
                \/ Length[q] = Length[r] /\ uid[q] < uid[r]

\* The first prompts in that order, as many as a prefill batch takes.
Taken == {S \in SUBSET waiting :
            /\ Cardinality(S) = Min2(PrefillBatch, Cardinality(waiting))
            /\ \A r \in S, q \in waiting \ S : Before(r, q)}

\* What BatchGenerator._next does after the decode step left the rows R.
Prefill(R) ==
    LET full == Room(R) <= 0
        admits == /\ ~full /\ prompt = {} /\ waiting # {}
                  /\ Room(R) >= PrefillBatch
    IN  \/ /\ full \/ (prompt = {} /\ ~admits)
           /\ rows' = R
           /\ UNCHANGED <<waiting, prompt, chunks>>
        \/ /\ ~full /\ prompt # {} /\ chunks > 0
           /\ chunks' = chunks - 1 /\ rows' = R
           /\ UNCHANGED <<waiting, prompt>>
        \/ /\ ~full /\ prompt # {} /\ chunks = 0
           /\ rows' = R \cup prompt /\ prompt' = {}
           /\ UNCHANGED <<waiting, chunks>>
        \/ /\ admits
           /\ \E taken \in Taken :
                 /\ waiting' = waiting \ taken
                 /\ \/ /\ rows' = R \cup taken
                       /\ UNCHANGED <<prompt, chunks>>
                    \/ /\ rows' = R /\ prompt' = taken
                       /\ chunks' \in 0 .. MaxChunks

\* The requests that are told of the rows of S: those active under their uids.
Receivers(S) == {q \in active : \E r \in S : uid[q] = uid[r]}

\* A slip: a finished request stays active.
ActiveUntilCancelled(done) == active

\* active without the requests that got their last token.
ActiveAfter(done) == active \ Receivers(done)

\* _step: one token for every row, some of them the last.
Decode ==
    \E stop \in SUBSET rows :
        LET done == stop \cup {r \in rows : made[r] + 1 >= MaxTokens}
        IN  /\ Prefill(rows \ done)
            /\ made' = [r \in Requests |->
                          IF r \in rows \ done THEN made[r] + 1 ELSE 0]
            /\ Send([q \in Requests |->
                       IF q \in Receivers(done) THEN <<"last", "none">>
                       ELSE IF q \in Receivers(rows \ done) THEN <<"token">>
                       ELSE <<>>])
            /\ active' = ActiveAfter(done)
            /\ UNCHANGED <<gen, nextUid>>

Step ==
    /\ pc = "step" /\ pc' = "poll"
    /\ \/ /\ active # {} /\ gen
          /\ Decode
       \/ /\ active = {} \/ ~gen
          /\ UNCHANGED <<rq, active, batch>>
    /\ UNCHANGED <<queue, client, releasing, cancelled, hand, uid, released,
                   stopping, serialize, history>>

StepFails ==
    /\ \/ pc = "step" /\ active # {} /\ gen
       \/ pc = "flush" /\ HasPending
    /\ Fail("step")

\* _flush: steps until nothing is pending, then the insert it was for.
Flush ==
    /\ pc = "flush"
    /\ \/ /\ HasPending
          /\ Decode
          /\ UNCHANGED <<queue, client, releasing, cancelled, pc, hand, uid,
                         released, stopping, serialize, history>>
       \/ /\ ~HasPending
          /\ Enter(Head(hand))

-----------------------------------------------------------------------------
Thread == \/ Poll \/ IdleRelease \/ Halt \/ Release \/ Insert \/ InsertFails
          \/ EmbedFails \/ Step \/ StepFails \/ Flush

Next == \/ Thread
        \/ Stop
        \/ \E r \in Requests :
              Submit(r) \/ Start(r) \/ Read(r) \/ Leave(r) \/ SendRelease(r)

Spec == Init /\ [][Next]_vars

\* The thread keeps running, and a handler reads what it is sent.
Running == Poll \/ Halt \/ Release \/ Insert \/ Step \/ Flush
Handler(r) == Start(r) \/ Read(r)

FairSpec ==
    /\ Spec
    /\ WF_vars(Running)
    /\ \A r \in Requests : WF_vars(Handler(r))

-----------------------------------------------------------------------------
(* Properties.                                                             *)

\* max_num_seqs bounds what is in memory: the rows decoded and the rows being
\* prefilled, those whose request was removed during its prefill included.
RowsBounded == Cardinality(rows) + Cardinality(prompt) <= MaxNumSeqs

\* Every request the thread answers has a row in the generator, as long as no
\* release_kv came in while others were active.
ActiveHasRow ==
    "orphan" \notin harm =>
        /\ active # {} => gen
        /\ active \subseteq waiting \cup prompt \cup rows

\* The tokens of a row go to its own request or to nobody, although uids start
\* again with every generator and orphans keep theirs.
AnswersStayApart ==
    \A r \in waiting \cup prompt \cup rows : Receivers({r}) \subseteq {r}

\* As long as no generator was dropped, the drain of the cancellations ends
\* only requests whose handler gave them up.
OnlyAbandonedAreCut ==
    "drop" \notin harm => \A r \in Requests : client[r] # "cut"

\* The drain ends only requests whose handler gave them up.
NobodyElseIsCut == \A r \in Requests : client[r] # "cut"

\* With serialized requests a release_kv is never taken while a request is
\* active.
SerializedReleaseIsSafe == serialize => "orphan" \notin harm

\* Every request the thread answers has a row in the generator: always with
\* serialized requests, and otherwise until a release_kv came in early.
AnsweredHasRow ==
    serialize \/ "orphan" \notin harm =>
        /\ active # {} => gen
        /\ active \subseteq waiting \cup prompt \cup rows

Final == {"last", "error", "none"}
IsOver(r) == \E i \in DOMAIN rq[r] : rq[r][i] \in Final

\* A request whose handler listens and was not yet told of an end is queued, in
\* hand or active, unless a failed embedding or an early release_kv lost it.
NoRequestVanishes ==
    harm \cap {"lost", "orphan"} = {} =>
        \A r \in Requests :
            client[r] \in Listening /\ ~IsOver(r)
                => r \in Elements(queue) \cup Elements(hand) \cup active

\* What a handler is sent is a context, tokens and one end: nothing but the
\* closing None follows an end, and a request that was told of its end is not
\* active any more.
EndsOnce ==
    \A r \in Requests : \A i \in DOMAIN rq[r] :
        rq[r][i] \in Final =>
            /\ r \notin active
            /\ \/ i = Len(rq[r])
               \/ i + 1 = Len(rq[r]) /\ rq[r][i] # "none" /\ rq[r][i + 1] = "none"

\* Every accepted request comes to its end, unless the thread is stopped or
\* the request may be one of those that were lost.
RequestsSettle ==
    \A r \in Requests :
        client[r] \in Listening
            ~> client[r] \notin Listening \/ harm \cap {"lost", "orphan", "stop"} # {}

=============================================================================
