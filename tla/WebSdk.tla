------------------------------- MODULE WebSdk -------------------------------
(***************************************************************************)
(* The browser SDK (lw_ppocr_sdk.template.js): create() runs the engine in *)
(* a worker, or on the page's thread when the worker fails; recognize()    *)
(* prepares the image, awaits, and then runs it on either; destroy() may   *)
(* be called between any two of these steps.                               *)
(*                                                                         *)
(* One turn of an event loop, up to its next await, is one action.  The    *)
(* page's thread and the worker have their own loops, joined by two queues *)
(* of messages, which the browser keeps in order (external).  What the     *)
(* browser may refuse (a worker, the module, memory, an image) and what    *)
(* the engine may fail at is chosen freely.  The engine object reaches the *)
(* page only when create() resolves.                                       *)
(***************************************************************************)
EXTENDS WebEngine, Sequences, SequencesExt

CONSTANTS
  Images,
  ByteLength,    \* of the prepared pixels of each image
  ReadingOrders,
  DefaultOrder,  \* the readingOrder option of create()
  MaxCalls,      \* bound: calls of recognize()
  MaxErrors      \* bound: error events of the worker

ASSUME WebSdkAssumption ==
  /\ ByteLength \in [Images -> Nat \ {0}]
  /\ DefaultOrder \in ReadingOrders /\ ReadingOrders \subseteq Nat
  /\ MaxCalls \in Nat /\ MaxErrors \in Nat

VARIABLES
  state,        \* _state: "CREATING", "READY", "RUNNING" or "DESTROYED"
  creation,     \* create(): "none", "worker", "loading", "resolved" or "rejected"
  url,          \* whether _workerUrl is registered
  worker,       \* _worker: alive; whether its script runs or failed; its runtime and queues
  attached,     \* _module # null
  direct,       \* the instance on the page's thread
  pending,      \* _pending: the request ids with who waits for them
  nextRequestId,
  recognition,  \* the recognize() that is past its checks: phase, call and reply
  greeting,     \* the reply to the initialize request, or NoReply
  calls,        \* the recognize() calls of the page, with their outcomes
  errors,
  destroyed     \* destroy() was called; for the properties

main == <<state, creation, url, attached, direct, pending, nextRequestId, recognition, greeting>>
vars == <<main, worker, calls, errors, destroyed>>

OutputSize == 1
NoBuffers == [source |-> NullPointer, lines |-> NullPointer, text |-> NullPointer,
              result |-> NullPointer]
NewRuntime == [engine |-> NewInstance, buffers |-> NoBuffers, sourceCapacity |-> 0]
NoWorker == [alive |-> FALSE, started |-> FALSE, broken |-> FALSE, runtime |-> NewRuntime,
             inbox |-> <<>>, outbox |-> <<>>]
NoReply == [settled |-> FALSE, ok |-> FALSE, lines |-> Garbage, sourceCapacity |-> 0]
Failure == [NoReply EXCEPT !.settled = TRUE]
Answer(r, lines) ==
  [settled |-> TRUE, ok |-> TRUE, lines |-> lines, sourceCapacity |-> r.sourceCapacity]

\* Who waits for the reply to a request.
Creator == "creator"
Recogniser == "recogniser"

NoRecognition == [phase |-> "none", call |-> 0, reply |-> NoReply]

Init ==
  /\ state = "CREATING" /\ creation = "none"
  /\ url = FALSE /\ worker = NoWorker
  /\ attached = FALSE /\ direct = NewRuntime
  /\ pending = <<>> /\ nextRequestId = 1
  /\ recognition = NoRecognition /\ greeting = NoReply
  /\ calls = <<>> /\ errors = 0 /\ destroyed = FALSE

-----------------------------------------------------------------------------
(* An instance and its buffers, in the worker or on the page's thread. *)

Held(r, name, size) ==
  [r EXCEPT !.engine = lw_web_malloc(@, size), !.buffers[name] = FreshBlock(r.engine)]

\* initialize of the worker, _initializeDirect and _allocateDirectOutputs: what
\* is there when the given number of steps has succeeded.  The buffer for the
\* capacities, the second step, is always freed.
InitSteps == 0..5
LastStep == 5
Opened(r, steps) ==
  LET engine == IF steps = 0 THEN lw_web_init_fails(r.engine)
                ELSE lw_web_set_reading_order(lw_web_init(r.engine), DefaultOrder)
      initial == [r EXCEPT !.engine = engine]
      lines == Held(initial, "lines", OutputSize)
      text == Held(lines, "text", OutputSize)
  IN CASE steps <= 2 -> initial
       [] steps = 3 -> lines
       [] steps = 4 -> text
       [] steps = 5 -> Held(text, "result", OutputSize)

\* ensureSource, _ensureDirectSource
NeedsSource(r, bytes) == bytes > r.sourceCapacity

EnsureSource(r, bytes) ==
  IF ~NeedsSource(r, bytes) THEN r
  ELSE LET new == Held(r, "source", bytes)
       IN [new EXCEPT !.sourceCapacity = bytes,
                      !.engine = IF r.buffers.source = NullPointer THEN @
                                 ELSE lw_web_free(@, r.buffers.source)]

\* run of the worker and the direct branch of recognize: the pixels and the order
\* are in place, and the run fails or fills the output buffers.
Filled(r, call) ==
  [r EXCEPT !.engine = lw_web_set_reading_order(Store(@, r.buffers.source, call.image), call.order)]

FailedRun(r) == [r EXCEPT !.engine = Store(@, r.buffers.result, Garbage)]

CompletedRun(r, call) ==
  [r EXCEPT !.engine = lw_web_run(@, r.buffers.source, ByteLength[call.image],
                                  r.buffers.lines, r.buffers.text, r.buffers.result)]

LinesOf(r) == ReadLines(r.engine, r.buffers.lines, r.buffers.text, r.buffers.result)

Accepted(r) == RunAccepted(r.engine, r.buffers.lines, r.buffers.text, r.buffers.result)

\* What may become of a runtime and of the request: no memory for the pixels, a
\* run that fails, or one that completes.
RunResults(r, call) ==
  LET ready == {Filled(x, call) : x \in {EnsureSource(r, ByteLength[call.image])}}
      completed == {CompletedRun(x, call) : x \in {y \in ready : Accepted(y)}}
  IN (IF NeedsSource(r, ByteLength[call.image]) THEN {<<r, Failure>>} ELSE {})
     \cup {<<FailedRun(x), Failure>> : x \in ready}
     \cup {<<x, Answer(x, LinesOf(x))>> : x \in completed}

-----------------------------------------------------------------------------
(* The worker's thread: self.onmessage *)

Respond(request, reply) ==
  [worker EXCEPT !.inbox = Tail(@), !.started = TRUE,
                 !.outbox = Append(@, [requestId |-> request.requestId, reply |-> reply])]

WorkerRuns == worker.alive /\ ~worker.broken /\ worker.inbox # <<>>

WorkerInitialize ==
  /\ WorkerRuns /\ Head(worker.inbox).type = "initialize"
  /\ \E steps \in InitSteps :
       LET opened == Opened(worker.runtime, steps)
           reply == IF steps = LastStep THEN Answer(opened, Garbage) ELSE Failure
       IN worker' = [Respond(Head(worker.inbox), reply) EXCEPT !.runtime = opened]
  /\ UNCHANGED <<main, calls, errors, destroyed>>

\* The pixels come with every request, so that inputId never disagrees.
WorkerRun ==
  /\ WorkerRuns /\ Head(worker.inbox).type = "run"
  /\ \E result \in RunResults(worker.runtime, Head(worker.inbox).call) :
       worker' = [Respond(Head(worker.inbox), result[2]) EXCEPT !.runtime = result[1]]
  /\ UNCHANGED <<main, calls, errors, destroyed>>

-----------------------------------------------------------------------------
(* The replies: worker.onmessage and worker.onerror *)

\* A promise is settled once; who waits for it goes on in a turn of its own.
Settle(ids, reply) ==
  LET waiting == {pending[id] : id \in ids}
  IN /\ pending' = Restrict(pending, DOMAIN pending \ ids)
     /\ greeting' = IF Creator \in waiting THEN reply ELSE greeting
     /\ recognition' = IF Recogniser \in waiting
                       THEN [recognition EXCEPT !.reply = reply] ELSE recognition

\* Mutant of Addressees: a reply goes to whoever is waiting.
AnyoneWaiting(id) == DOMAIN pending

Addressees(id) == DOMAIN pending \cap {id}

OnMessage ==
  /\ worker.alive /\ worker.outbox # <<>>
  /\ Settle(Addressees(Head(worker.outbox).requestId), Head(worker.outbox).reply)
  /\ worker' = [worker EXCEPT !.outbox = Tail(@)]
  /\ UNCHANGED <<state, creation, url, attached, direct, nextRequestId, calls, errors, destroyed>>

\* A script that fails to load answers nothing afterwards; after another error
\* the worker goes on, and may still answer the requests rejected here.
OnError ==
  /\ worker.alive /\ errors < MaxErrors
  /\ errors' = errors + 1
  /\ Settle(DOMAIN pending, Failure)
  /\ \/ UNCHANGED worker
     \/ ~worker.started /\ worker' = [worker EXCEPT !.broken = TRUE]
  /\ UNCHANGED <<state, creation, url, attached, direct, nextRequestId, calls, destroyed>>

-----------------------------------------------------------------------------
(* create *)

\* _workerRequest
Request(waiting, type, call) ==
  /\ pending' = [id \in DOMAIN pending \cup {nextRequestId} |->
                   IF id = nextRequestId THEN waiting ELSE pending[id]]
  /\ nextRequestId' = nextRequestId + 1
  /\ worker' = [worker EXCEPT !.alive = TRUE,
                              !.inbox = Append(@, [requestId |-> nextRequestId, type |-> type,
                                                   call |-> call])]

PageCreates ==
  /\ creation = "none"
  /\ \/ /\ creation' = "worker" /\ url' = TRUE
        /\ Request(Creator, "initialize", NoRecognition)
     \* There are no workers, or this one cannot be made.
     \/ /\ creation' = "loading"
        /\ UNCHANGED <<url, pending, nextRequestId, worker>>
  /\ UNCHANGED <<state, attached, direct, recognition, greeting, calls, errors, destroyed>>

\* Mutant of Withdrawn: the requests of the closed worker are left waiting.
NothingWithdrawn == {}

Withdrawn == DOMAIN pending

\* _closeWorker
CloseWorker ==
  /\ Settle(Withdrawn, Failure)
  /\ worker' = NoWorker /\ url' = FALSE

\* _applySnapshot
ApplySnapshot(reply) == direct' = [direct EXCEPT !.sourceCapacity = reply.sourceCapacity]

\* initialize goes on when the worker has answered: ready, or the fallback.
WorkerAnswered ==
  /\ creation = "worker" /\ greeting.settled
  /\ \/ /\ greeting.ok
        /\ ApplySnapshot(greeting)
        /\ url' = FALSE /\ state' = "READY" /\ creation' = "resolved"
        /\ UNCHANGED <<worker, pending, recognition, greeting>>
     \/ /\ ~greeting.ok
        /\ CloseWorker /\ creation' = "loading"
        /\ UNCHANGED <<state, direct>>
  /\ UNCHANGED <<attached, nextRequestId, calls, errors, destroyed>>

\* The module part of destroy: the buffers, then lw_web_shutdown.
Emptied(r) ==
  LET kept == DOMAIN r.engine.heap \ {r.buffers[name] : name \in DOMAIN NoBuffers}
      rest == [r.engine EXCEPT !.heap = Restrict(@, kept)]
  IN [r EXCEPT !.buffers = NoBuffers, !.engine = lw_web_shutdown(rest)]

\* _initializeDirect; when it fails, create destroys the engine and rejects.
LoadDirect ==
  /\ creation = "loading"
  /\ \/ \E steps \in InitSteps :
          LET opened == Opened(direct, steps)
          IN IF steps = LastStep
             THEN /\ direct' = opened /\ attached' = TRUE
                  /\ state' = "READY" /\ creation' = "resolved"
                  /\ UNCHANGED destroyed
             ELSE /\ direct' = Emptied(opened)
                  /\ state' = "DESTROYED" /\ creation' = "rejected" /\ destroyed' = TRUE
                  /\ UNCHANGED attached
     \* The module does not load.
     \/ /\ state' = "DESTROYED" /\ creation' = "rejected" /\ destroyed' = TRUE
        /\ UNCHANGED <<attached, direct>>
  /\ UNCHANGED <<url, worker, pending, nextRequestId, recognition, greeting, calls, errors>>

-----------------------------------------------------------------------------
(* recognize and destroy *)

PageRecognizes(image, order) ==
  /\ creation = "resolved" /\ Len(calls) < MaxCalls
  /\ LET accepted == state = "READY"
     IN /\ calls' = Append(calls, [image |-> image, order |-> order, lines |-> Garbage,
                                   status |-> IF accepted THEN "open" ELSE "rejected"])
        /\ state' = IF accepted THEN "RUNNING" ELSE state
        /\ recognition' = IF accepted
                          THEN [NoRecognition EXCEPT !.phase = "preparing",
                                                     !.call = Len(calls) + 1]
                          ELSE recognition
  /\ UNCHANGED <<creation, url, worker, attached, direct, pending, nextRequestId, greeting,
                 errors, destroyed>>

\* Mutant of SettledState: the state is set whatever happened meanwhile.
AlwaysReady == "READY"

\* The finally clause of recognize.
SettledState == IF state = "DESTROYED" THEN state ELSE "READY"

Finish(reply) ==
  /\ state' = SettledState
  /\ recognition' = NoRecognition
  /\ calls' = [calls EXCEPT ![recognition.call].status = IF reply.ok THEN "resolved" ELSE "rejected",
                            ![recognition.call].lines = reply.lines]

\* _prepare has failed.
PrepareFails ==
  /\ recognition.phase = "preparing"
  /\ Finish(Failure)
  /\ UNCHANGED <<creation, url, worker, attached, direct, pending, nextRequestId, greeting,
                 errors, destroyed>>

\* _prepare has returned and there is a worker.
PostRun ==
  /\ recognition.phase = "preparing" /\ worker.alive
  /\ Request(Recogniser, "run", calls[recognition.call])
  /\ recognition' = [recognition EXCEPT !.phase = "waiting"]
  /\ UNCHANGED <<state, creation, url, attached, direct, greeting, calls, errors, destroyed>>

\* There is none: the run happens here, unless the module is gone.
RunDirect ==
  /\ recognition.phase = "preparing" /\ ~worker.alive
  /\ \E result \in IF attached THEN RunResults(direct, calls[recognition.call])
                   ELSE {<<direct, Failure>>} :
       direct' = result[1] /\ Finish(result[2])
  /\ UNCHANGED <<creation, url, worker, attached, pending, nextRequestId, greeting,
                 errors, destroyed>>

RunAnswered ==
  /\ recognition.phase = "waiting" /\ recognition.reply.settled
  /\ IF recognition.reply.ok THEN ApplySnapshot(recognition.reply) ELSE UNCHANGED direct
  /\ Finish(recognition.reply)
  /\ UNCHANGED <<creation, url, worker, attached, pending, nextRequestId, greeting,
                 errors, destroyed>>

\* A second destroy returns at once.
PageDestroys ==
  /\ creation = "resolved" /\ state # "DESTROYED"
  /\ CloseWorker
  /\ attached' = FALSE /\ direct' = IF attached THEN Emptied(direct) ELSE direct
  /\ state' = "DESTROYED" /\ destroyed' = TRUE
  /\ UNCHANGED <<creation, nextRequestId, calls, errors>>

Next ==
  \/ WorkerInitialize \/ WorkerRun \/ OnMessage \/ OnError
  \/ PageCreates \/ WorkerAnswered \/ LoadDirect
  \/ \E image \in Images, order \in ReadingOrders : PageRecognizes(image, order)
  \/ PrepareFails \/ PostRun \/ RunDirect \/ RunAnswered
  \/ PageDestroys

\* The event loops go on: what has been posted is delivered, what has been
\* settled continues, and a worker whose script runs answers its requests.
Fairness ==
  /\ WF_vars(WorkerInitialize) /\ WF_vars(WorkerRun) /\ WF_vars(OnMessage)
  /\ WF_vars(WorkerAnswered) /\ WF_vars(LoadDirect)
  /\ WF_vars(PostRun) /\ WF_vars(RunDirect) /\ WF_vars(RunAnswered)

Spec == Init /\ [][Next]_vars /\ Fairness

-----------------------------------------------------------------------------
(* Properties *)

\* A recognize that resolves has the lines of its own image in its own reading
\* order: never those of an earlier request that was given up, and never what
\* was left in, or read past the end of, a buffer.
AnswersItsOwnCall ==
  \A c \in DOMAIN calls : calls[c].status = "resolved" =>
    calls[c].lines = <<calls[c].image, calls[c].order>>

\* A destroyed engine stays destroyed, whatever was under way (docs/web-sdk.md:
\* it terminates the worker or shuts the module down, releases the buffers the
\* SDK owns, and cannot be used again).
DestroyedIsFinal ==
  destroyed =>
    /\ state = "DESTROYED"
    /\ ~worker.alive /\ ~url /\ ~attached /\ pending = <<>>
    /\ direct.buffers = NoBuffers /\ direct.engine.heap = <<>> /\ direct.engine.ocr = NoOcr

\* create() and every recognize() settle, whether the worker answers, fails or
\* is closed under them.
EveryCallSettles ==
  /\ creation # "none" ~> creation \in {"resolved", "rejected"}
  /\ \A c \in 1..MaxCalls :
       (c \in DOMAIN calls /\ calls[c].status = "open")
         ~> (c \in DOMAIN calls /\ calls[c].status # "open")
==============================================================================
