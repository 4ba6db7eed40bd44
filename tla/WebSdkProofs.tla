---------------------------- MODULE WebSdkProofs -----------------------------
(***************************************************************************)
(* Proofs about WebSdk, for any images, reading orders, and numbers of     *)
(* calls and errors: a recognize resolves with its own lines, and a        *)
(* destroyed engine stays destroyed and keeps nothing.                     *)
(*                                                                         *)
(* The buffers of an instance never alias and the source buffer is as      *)
(* large as its recorded capacity (Runtime); a request that someone still  *)
(* waits for carries the call under way, wherever it is (Asked).           *)
(***************************************************************************)
EXTENDS WebSdk, FiniteSetTheorems, NaturalsInduction, WellFoundedInduction, TLAPS

BufferNames == {"source", "lines", "text", "result"}

Engine(e) ==
  /\ e = [ocr |-> e.ocr, lines |-> e.lines, order |-> e.order, heap |-> e.heap]
  /\ IsFiniteSet(DOMAIN e.heap) /\ DOMAIN e.heap \subseteq Nat \ {0}
  /\ e.heap = [p \in DOMAIN e.heap |-> e.heap[p]]
  /\ \A p \in DOMAIN e.heap : e.heap[p] = [size |-> e.heap[p].size, data |-> e.heap[p].data]

\* The buffers are blocks of the heap, each its own; the source is as large as recorded.
Runtime(r) ==
  /\ r = [engine |-> r.engine, buffers |-> r.buffers, sourceCapacity |-> r.sourceCapacity]
  /\ r.buffers = [name \in BufferNames |-> r.buffers[name]]
  /\ Engine(r.engine)
  /\ \A name \in BufferNames : r.buffers[name] # NullPointer =>
       /\ r.buffers[name] \in DOMAIN r.engine.heap
       /\ \A other \in BufferNames : r.buffers[other] = r.buffers[name] => other = name
  /\ r.sourceCapacity \in Nat
  /\ r.sourceCapacity > 0 => /\ r.buffers["source"] # NullPointer
                             /\ r.engine.heap[r.buffers["source"]].size = r.sourceCapacity

\* The heap holds the buffers and nothing else.
Tight(r) == \A p \in DOMAIN r.engine.heap : \E name \in BufferNames : r.buffers[name] = p

Lines == {Garbage} \cup (Images \X ReadingOrders)
CallRecords == [image : Images, order : ReadingOrders, lines : Lines,
                status : {"open", "resolved", "rejected"}]
Replies == [settled : BOOLEAN, ok : BOOLEAN, lines : Lines, sourceCapacity : Nat]
Requests == [requestId : Nat, type : {"initialize", "run"}, call : CallRecords \cup {NoRecognition}]
Responses == [requestId : Nat, reply : Replies]
Recognitions == [phase : {"none", "preparing", "waiting"}, call : Nat, reply : Replies]

Shape ==
  /\ state \in {"CREATING", "READY", "RUNNING", "DESTROYED"}
  /\ creation \in {"none", "worker", "loading", "resolved", "rejected"}
  /\ url \in BOOLEAN /\ attached \in BOOLEAN /\ destroyed \in BOOLEAN
  /\ DOMAIN worker = {"alive", "started", "broken", "runtime", "inbox", "outbox"}
  /\ worker.alive \in BOOLEAN
  /\ worker.inbox \in Seq(Requests) /\ worker.outbox \in Seq(Responses)
  /\ nextRequestId \in Nat \ {0}
  /\ pending = [id \in DOMAIN pending |-> pending[id]]
  /\ \A id \in DOMAIN pending : id \in 1..(nextRequestId - 1)
  /\ recognition \in Recognitions
  /\ greeting \in Replies
  /\ calls \in Seq(CallRecords)

\* Only an instance that is attached has an engine and buffers on the page's thread.
Instances ==
  /\ Runtime(worker.runtime)
  /\ direct.sourceCapacity \in Nat
  /\ direct = [engine |-> direct.engine, buffers |-> direct.buffers,
               sourceCapacity |-> direct.sourceCapacity]
  /\ attached => Runtime(direct) /\ Tight(direct)
  /\ ~attached => direct.engine = NewInstance /\ direct.buffers = NoBuffers
  /\ creation \in {"none", "worker", "loading"} => direct = NewRuntime

Phases ==
  /\ attached => creation = "resolved" /\ ~worker.alive
  /\ ~worker.alive => pending = <<>> /\ ~url
  /\ creation \in {"none", "loading"} => ~worker.alive
  /\ creation \in {"none", "worker", "loading"} => state = "CREATING"
  /\ recognition.phase # "none" =>
       /\ recognition.call \in 1..Len(calls) /\ calls[recognition.call].status = "open"
       /\ creation = "resolved" /\ state \in {"RUNNING", "DESTROYED"}
  /\ recognition.phase = "waiting" => ~attached
  /\ recognition.phase # "waiting" => ~recognition.reply.settled
  /\ destroyed <=> state = "DESTROYED"
  /\ destroyed => ~worker.alive /\ ~attached

\* A request somebody still waits for is about the call under way, and so is its reply.
Mine(id) == id \in DOMAIN pending /\ pending[id] = Recogniser
Right(reply) ==
  reply.ok => reply.lines = <<calls[recognition.call].image, calls[recognition.call].order>>

Asked ==
  /\ \A id \in DOMAIN pending : Mine(id) =>
       /\ recognition.phase = "waiting" /\ ~recognition.reply.settled
       /\ \A other \in DOMAIN pending : Mine(other) => other = id
  /\ \A k \in 1..Len(worker.inbox) :
       /\ worker.inbox[k].requestId < nextRequestId
       /\ worker.inbox[k].type = "run" => worker.inbox[k].call \in CallRecords
       /\ Mine(worker.inbox[k].requestId) =>
            /\ worker.inbox[k].type = "run"
            /\ worker.inbox[k].call.image = calls[recognition.call].image
            /\ worker.inbox[k].call.order = calls[recognition.call].order
  /\ \A k \in 1..Len(worker.outbox) :
       /\ worker.outbox[k].requestId < nextRequestId
       /\ Mine(worker.outbox[k].requestId) => Right(worker.outbox[k].reply)
  /\ recognition.reply.settled => Right(recognition.reply)

IInv == Shape /\ Instances /\ Phases /\ Asked /\ AnswersItsOwnCall

-----------------------------------------------------------------------------
(* Blocks of the heap *)

LEMMA LeastExists ==
  ASSUME NEW S \in SUBSET Nat, S # {}
  PROVE  \E n \in S : \A m \in S : n <= m
  <1> DEFINE Smaller == OpToRel(<, Nat)
  <1>1. IsWellFoundedOn(Smaller, Nat)
    BY NatLessThanWellFounded
  <1>2. \A n, m \in Nat : n < m => <<n, m>> \in Smaller
    BY DEF OpToRel
  <1> HIDE DEF Smaller
  <1>3. PICK n \in S : \A m \in S : ~(<<m, n>> \in Smaller)
    BY <1>1, WFMin
  <1>4. \A m \in S : ~(m < n)
    BY <1>2, <1>3
  <1> QED
    BY <1>4

\* There always is a fresh block, and malloc gives one out.
LEMMA FreshBlockIsFree ==
  ASSUME NEW e, Engine(e)
  PROVE  FreshBlock(e) \in Nat \ {0} /\ FreshBlock(e) \notin DOMAIN e.heap
  <1> DEFINE n == Cardinality(DOMAIN e.heap)
             free == {p \in 1..(n + 1) : ~Live(e, p)}
  <1>1. n \in Nat /\ IsFiniteSet(DOMAIN e.heap)
    BY FS_CardinalityType DEF Engine
  <1>2. free # {}
    <2> SUFFICES ASSUME free = {} PROVE FALSE
      OBVIOUS
    <2>1. 1..(n + 1) \subseteq DOMAIN e.heap
      BY DEF Live
    <2>2. Cardinality(1..(n + 1)) <= n
      BY <1>1, <2>1, FS_Subset
    <2>3. Cardinality(1..(n + 1)) = n + 1
      <3> HIDE DEF n
      <3>1. 1 \in Int /\ n + 1 \in Int /\ ~(1 > n + 1) /\ (n + 1) - 1 + 1 = n + 1
        BY <1>1
      <3> QED
        BY <3>1, FS_Interval
    <2> HIDE DEF n
    <2> QED
      BY <1>1, <2>2, <2>3
  <1> HIDE DEF n
  <1>3. free \in SUBSET Nat
    BY <1>1
  <1>4. PICK p \in free : \A q \in free : p <= q
    BY <1>2, <1>3, LeastExists
  <1>5. p \in 1..n + 1 /\ ~Live(e, p) /\ \A q \in 1..p - 1 : Live(e, q)
    BY <1>1, <1>4
  <1>6. FreshBlock(e) \in 1..n + 1 /\ ~Live(e, FreshBlock(e))
    BY <1>5 DEF FreshBlock, n
  <1> QED
    BY <1>1, <1>6 DEF Live

\* Instance q is r with a new block p of its own for one buffer.
Extends(q, r, name, p, size) ==
  /\ p \in Nat \ {0} /\ p \notin DOMAIN r.engine.heap
  /\ q = [engine |-> q.engine, buffers |-> q.buffers, sourceCapacity |-> r.sourceCapacity]
  /\ q.buffers = [other \in BufferNames |-> IF other = name THEN p ELSE r.buffers[other]]
  /\ Engine(q.engine) /\ q.engine.ocr = r.engine.ocr
  /\ DOMAIN q.engine.heap = DOMAIN r.engine.heap \cup {p}
  /\ q.engine.heap[p].size = size
  /\ \A x \in DOMAIN r.engine.heap : q.engine.heap[x] = r.engine.heap[x]

LEMMA HeldFacts ==
  ASSUME NEW r, Runtime(r), NEW name \in BufferNames, NEW size
  PROVE  Extends(Held(r, name, size), r, name, FreshBlock(r.engine), size)
  <1> DEFINE e == r.engine
             p == FreshBlock(r.engine)
             q == Held(r, name, size)
             f == lw_web_malloc(r.engine, size)
  <1>1. Engine(e) /\ r = [engine |-> e, buffers |-> r.buffers, sourceCapacity |-> r.sourceCapacity]
        /\ r.buffers = [other \in BufferNames |-> r.buffers[other]]
    BY DEF Runtime
  <1>2. p \in Nat \ {0} /\ p \notin DOMAIN e.heap
    BY <1>1, FreshBlockIsFree
  <1>3. q = [engine |-> f, buffers |-> [r.buffers EXCEPT ![name] = p],
             sourceCapacity |-> r.sourceCapacity]
    <2>1. q = [[r EXCEPT !.engine = f] EXCEPT !.buffers[name] = p]
      BY DEF Held
    <2>2. [r EXCEPT !.engine = f] = [engine |-> f, buffers |-> r.buffers,
                                     sourceCapacity |-> r.sourceCapacity]
      BY <1>1
    <2> QED
      BY <2>1, <2>2
  <1>4. f = [ocr |-> e.ocr, lines |-> e.lines, order |-> e.order,
             heap |-> [x \in DOMAIN e.heap \cup {p} |->
                         IF x = p THEN [size |-> size, data |-> Garbage] ELSE e.heap[x]]]
    BY <1>1 DEF lw_web_malloc, Engine
  <1> HIDE DEF e, p, f, q
  <1>5. /\ DOMAIN f.heap = DOMAIN e.heap \cup {p} /\ f.ocr = e.ocr
        /\ f.heap = [x \in DOMAIN f.heap |-> f.heap[x]]
        /\ f.heap[p] = [size |-> size, data |-> Garbage]
        /\ \A x \in DOMAIN e.heap : f.heap[x] = e.heap[x]
    BY <1>2, <1>4
  <1>6. Engine(f)
    <2>1. f = [ocr |-> f.ocr, lines |-> f.lines, order |-> f.order, heap |-> f.heap]
      BY <1>4
    <2>2. IsFiniteSet(DOMAIN f.heap) /\ DOMAIN f.heap \subseteq Nat \ {0}
      BY <1>1, <1>2, <1>5, FS_AddElement DEF Engine
    <2>3. \A x \in DOMAIN f.heap : f.heap[x] = [size |-> f.heap[x].size, data |-> f.heap[x].data]
      BY <1>1, <1>5 DEF Engine
    <2> QED
      BY <1>5, <2>1, <2>2, <2>3 DEF Engine
  <1>7. [r.buffers EXCEPT ![name] = p] =
          [other \in BufferNames |-> IF other = name THEN p ELSE r.buffers[other]]
    BY <1>1
  <1>8. q.engine = f /\ q.sourceCapacity = r.sourceCapacity
        /\ q.buffers = [other \in BufferNames |-> IF other = name THEN p ELSE r.buffers[other]]
    BY <1>3, <1>7
  <1>9. q = [engine |-> q.engine, buffers |-> q.buffers, sourceCapacity |-> r.sourceCapacity]
    BY <1>3
  <1>10. f.heap[p].size = size
    BY <1>5
  <1> QED
    BY <1>2, <1>5, <1>6, <1>8, <1>9, <1>10 DEF e, p, q, Extends

\* An output buffer is taken; one that was not there before leaves no block behind.
LEMMA OutputHeld ==
  ASSUME NEW r, Runtime(r), NEW name \in BufferNames \ {"source"}, NEW size
  PROVE  LET q == Held(r, name, size)
         IN /\ Runtime(q) /\ q.sourceCapacity = r.sourceCapacity
            /\ \A other \in BufferNames \ {name} : q.buffers[other] = r.buffers[other]
            /\ Tight(r) /\ r.buffers[name] = NullPointer => Tight(q)
  <1> DEFINE p == FreshBlock(r.engine)
             q == Held(r, name, size)
  <1>1. Extends(q, r, name, p, size)
    BY HeldFacts
  <1> HIDE DEF p, q
  <1>2. /\ q.buffers[name] = p /\ q.sourceCapacity = r.sourceCapacity
        /\ \A other \in BufferNames \ {name} : q.buffers[other] = r.buffers[other]
    BY <1>1 DEF Extends
  <1>3. \A x \in DOMAIN r.engine.heap : x # p
    BY <1>1 DEF Extends
  <1>4. p # NullPointer
    BY <1>1 DEF NullPointer, Extends
  <1>5. Runtime(q)
    <2>1. ASSUME NEW other \in BufferNames, q.buffers[other] # NullPointer
          PROVE  /\ q.buffers[other] \in DOMAIN q.engine.heap
                 /\ \A third \in BufferNames : q.buffers[third] = q.buffers[other] => third = other
      <3>1. \A third \in BufferNames \ {name} : q.buffers[third] # p
        BY <1>1, <1>2, <1>3, <1>4 DEF Extends, Runtime
      <3>2. CASE other = name
        BY <1>1, <1>2, <3>1, <3>2 DEF Extends
      <3>3. CASE other # name
        BY <1>1, <1>2, <2>1, <3>1, <3>3 DEF Extends, Runtime
      <3> QED
        BY <3>2, <3>3
    <2>2. q.sourceCapacity \in Nat
      BY <1>2 DEF Runtime
    <2>3. q.sourceCapacity > 0 =>
            /\ q.buffers["source"] # NullPointer
            /\ q.engine.heap[q.buffers["source"]].size = q.sourceCapacity
      BY <1>1, <1>2 DEF Extends, Runtime, BufferNames
    <2>4. q.buffers = [other \in BufferNames |-> q.buffers[other]]
      BY <1>1 DEF Extends
    <2> QED
      BY <1>1, <1>2, <2>1, <2>2, <2>3, <2>4 DEF Extends, Runtime
  <1>6. Tight(r) /\ r.buffers[name] = NullPointer => Tight(q)
    <2> SUFFICES ASSUME Tight(r), r.buffers[name] = NullPointer, NEW x \in DOMAIN q.engine.heap
                 PROVE  \E other \in BufferNames : q.buffers[other] = x
      BY DEF Tight
    <2>1. CASE x = p
      BY <1>2, <2>1
    <2>2. CASE x # p
      <3>1. PICK other \in BufferNames : r.buffers[other] = x
        BY <1>1, <2>2 DEF Extends, Tight
      <3>2. x # NullPointer
        BY <1>1, <2>2 DEF Extends, Runtime, Engine, NullPointer
      <3> QED
        BY <1>2, <3>1, <3>2
    <2> QED
      BY <2>1, <2>2
  <1> QED
    BY <1>2, <1>5, <1>6 DEF q

\* The source buffer is made large enough, the old one is freed.
LEMMA SourceReady ==
  ASSUME NEW r, Runtime(r), NEW bytes \in Nat \ {0}
  PROVE  LET q == EnsureSource(r, bytes)
         IN /\ Runtime(q) /\ q.sourceCapacity >= bytes /\ q.engine.ocr = r.engine.ocr
            /\ Tight(r) => Tight(q)
  <1> DEFINE q == EnsureSource(r, bytes)
             p == FreshBlock(r.engine)
             new == Held(r, "source", bytes)
             old == r.buffers["source"]
  <1>1. CASE ~NeedsSource(r, bytes)
    BY <1>1 DEF EnsureSource, NeedsSource, Runtime
  <1>2. CASE NeedsSource(r, bytes)
    <2>1. Extends(new, r, "source", p, bytes)
      BY HeldFacts DEF BufferNames
    <2>2. q = [[new EXCEPT !.sourceCapacity = bytes] EXCEPT
                 !.engine = IF old = NullPointer THEN @ ELSE lw_web_free(@, old)]
      BY <1>2 DEF EnsureSource
    <2> HIDE DEF new, p, q
    <2> DEFINE e == IF old = NullPointer THEN new.engine ELSE lw_web_free(new.engine, old)
    <2>3. q = [engine |-> e, buffers |-> new.buffers, sourceCapacity |-> bytes]
      <3>1. [new EXCEPT !.sourceCapacity = bytes] =
              [engine |-> new.engine, buffers |-> new.buffers, sourceCapacity |-> bytes]
        BY <2>1 DEF Extends
      <3> QED
        BY <2>2, <3>1
    <2>4. /\ new.buffers["source"] = p /\ p # NullPointer /\ p # old
          /\ \A other \in BufferNames \ {"source"} : new.buffers[other] = r.buffers[other]
      BY <2>1 DEF Extends, Runtime, BufferNames, NullPointer
    <2>5. /\ Engine(new.engine) /\ new.engine.ocr = r.engine.ocr
          /\ DOMAIN new.engine.heap = DOMAIN r.engine.heap \cup {p}
          /\ new.engine.heap[p].size = bytes
      BY <2>1 DEF Extends
    <2>6. /\ Engine(e) /\ e.ocr = r.engine.ocr
          /\ DOMAIN e.heap = (DOMAIN r.engine.heap \cup {p}) \ (IF old = NullPointer THEN {} ELSE {old})
          /\ e.heap[p].size = bytes
      <3>1. CASE old = NullPointer
        BY <2>5, <3>1
      <3>2. CASE old # NullPointer
        <4>1. e = [ocr |-> new.engine.ocr, lines |-> new.engine.lines, order |-> new.engine.order,
                   heap |-> [x \in DOMAIN new.engine.heap \ {old} |-> new.engine.heap[x]]]
          BY <2>5, <3>2 DEF lw_web_free, Restrict, Engine
        <4> HIDE DEF e
        <4>2. DOMAIN e.heap = DOMAIN new.engine.heap \ {old} /\ e.ocr = new.engine.ocr
              /\ \A x \in DOMAIN e.heap : e.heap[x] = new.engine.heap[x]
          BY <4>1
        <4>3. Engine(e)
          <5>1. IsFiniteSet(DOMAIN e.heap) /\ DOMAIN e.heap \subseteq Nat \ {0}
            BY <2>5, <4>2, FS_Subset DEF Engine
          <5>2. e.heap = [x \in DOMAIN e.heap |-> e.heap[x]]
                /\ e = [ocr |-> e.ocr, lines |-> e.lines, order |-> e.order, heap |-> e.heap]
            BY <4>1
          <5>3. \A x \in DOMAIN e.heap : e.heap[x] = [size |-> e.heap[x].size, data |-> e.heap[x].data]
            BY <2>5, <4>2 DEF Engine
          <5> QED
            BY <5>1, <5>2, <5>3 DEF Engine
        <4> QED
          BY <2>4, <2>5, <3>2, <4>2, <4>3
      <3> QED
        BY <3>1, <3>2
    <2> HIDE DEF e, old
    <2>7. q.engine = e /\ q.buffers = new.buffers /\ q.sourceCapacity = bytes
          /\ q = [engine |-> q.engine, buffers |-> q.buffers, sourceCapacity |-> q.sourceCapacity]
      BY <2>3
    <2>8. ASSUME NEW name \in BufferNames, q.buffers[name] # NullPointer
          PROVE  /\ q.buffers[name] \in DOMAIN e.heap
                 /\ \A other \in BufferNames : q.buffers[other] = q.buffers[name] => other = name
      <3>1. \A other \in BufferNames \ {"source"} :
              q.buffers[other] # NullPointer =>
                q.buffers[other] \in DOMAIN r.engine.heap /\ q.buffers[other] # p /\ q.buffers[other] # old
        BY <2>1, <2>4, <2>7 DEF Runtime, Extends, BufferNames, old
      <3>2. CASE name = "source"
        BY <2>4, <2>6, <2>7, <3>1, <3>2
      <3>3. CASE name # "source"
        <4>1. q.buffers[name] \in DOMAIN e.heap
          BY <2>6, <2>8, <3>1, <3>3
        <4>2. \A other \in BufferNames : q.buffers[other] = q.buffers[name] => other = name
          BY <2>4, <2>7, <2>8, <3>1, <3>3 DEF Runtime
        <4> QED
          BY <4>1, <4>2
      <3> QED
        BY <3>2, <3>3
    <2>9. q.buffers = [name \in BufferNames |-> q.buffers[name]]
      BY <2>1, <2>7 DEF Extends
    <2>10. Runtime(q)
      BY <2>4, <2>6, <2>7, <2>8, <2>9 DEF Runtime
    <2>11. ASSUME Tight(r), NEW x \in DOMAIN e.heap
           PROVE  \E name \in BufferNames : q.buffers[name] = x
      <3>1. CASE x = p
        BY <2>4, <2>7, <3>1 DEF BufferNames
      <3>2. CASE x # p
        <4>1. PICK name \in BufferNames : r.buffers[name] = x
          BY <2>6, <2>11, <3>2 DEF Tight
        <4>2. x # NullPointer
          BY <2>6, <3>2 DEF Runtime, Engine, NullPointer
        <4>3. name # "source"
          BY <2>6, <4>1, <4>2 DEF old
        <4> QED
          BY <2>4, <2>7, <4>1, <4>3
      <3> QED
        BY <3>1, <3>2
    <2>12. Tight(r) => Tight(q)
      BY <2>7, <2>11 DEF Tight
    <2> QED
      BY <2>6, <2>7, <2>10, <2>12 DEF q
  <1> QED
    BY <1>1, <1>2

LEMMA StoreFacts ==
  ASSUME NEW e, Engine(e), NEW p, NEW data
  PROVE  LET f == Store(e, p, data)
         IN /\ Engine(f) /\ DOMAIN f.heap = DOMAIN e.heap
            /\ f.ocr = e.ocr /\ f.lines = e.lines
            /\ \A x \in DOMAIN e.heap : /\ f.heap[x].size = e.heap[x].size
                                        /\ x # p => f.heap[x] = e.heap[x]
            /\ p \in DOMAIN e.heap => f.heap[p].data = data
  <1> DEFINE f == Store(e, p, data)
  <1>1. CASE ~Live(e, p)
    BY <1>1 DEF Store, Live
  <1>2. CASE Live(e, p)
    <2>1. /\ e = [ocr |-> e.ocr, lines |-> e.lines, order |-> e.order, heap |-> e.heap]
          /\ e.heap = [x \in DOMAIN e.heap |-> e.heap[x]] /\ p \in DOMAIN e.heap
          /\ e.heap[p] = [size |-> e.heap[p].size, data |-> e.heap[p].data]
      BY <1>2 DEF Engine, Live
    <2>2. f = [ocr |-> e.ocr, lines |-> e.lines, order |-> e.order,
               heap |-> [e.heap EXCEPT ![p].data = data]]
      BY <1>2, <2>1 DEF Store
    <2> DEFINE heap == [e.heap EXCEPT ![p].data = data]
    <2>3. /\ DOMAIN heap = DOMAIN e.heap /\ heap = [x \in DOMAIN heap |-> heap[x]]
          /\ heap[p] = [size |-> e.heap[p].size, data |-> data]
          /\ \A x \in DOMAIN e.heap : x # p => heap[x] = e.heap[x]
      BY <2>1
    <2> HIDE DEF heap, f
    <2>4. /\ f.heap = heap /\ f.ocr = e.ocr /\ f.lines = e.lines
          /\ f = [ocr |-> f.ocr, lines |-> f.lines, order |-> f.order, heap |-> f.heap]
      BY <2>2 DEF heap
    <2>5. \A x \in DOMAIN heap : heap[x] = [size |-> heap[x].size, data |-> heap[x].data]
      <3>1. heap[p] = [size |-> heap[p].size, data |-> heap[p].data]
        BY <2>3
      <3> QED
        BY <2>3, <3>1 DEF Engine
    <2>6. Engine(f)
      BY <2>3, <2>4, <2>5 DEF Engine
    <2>7. heap[p].size = e.heap[p].size /\ heap[p].data = data
      BY <2>3
    <2> QED
      BY <2>1, <2>3, <2>4, <2>6, <2>7 DEF f
  <1> QED
    BY <1>1, <1>2

\* Instance q is r with the same buffers, of which only the contents may differ.
Refilled(q, r) ==
  /\ q = [engine |-> q.engine, buffers |-> r.buffers, sourceCapacity |-> r.sourceCapacity]
  /\ Engine(q.engine) /\ DOMAIN q.engine.heap = DOMAIN r.engine.heap
  /\ \A x \in DOMAIN r.engine.heap : q.engine.heap[x].size = r.engine.heap[x].size

LEMMA RefilledIsSound ==
  ASSUME NEW r, Runtime(r), NEW q, Refilled(q, r)
  PROVE  Runtime(q) /\ q.sourceCapacity = r.sourceCapacity /\ q.buffers = r.buffers
         /\ (Tight(r) => Tight(q))
  <1>1. /\ q.buffers = r.buffers /\ q.sourceCapacity = r.sourceCapacity
        /\ Engine(q.engine) /\ DOMAIN q.engine.heap = DOMAIN r.engine.heap
        /\ \A x \in DOMAIN r.engine.heap : q.engine.heap[x].size = r.engine.heap[x].size
        /\ q = [engine |-> q.engine, buffers |-> q.buffers, sourceCapacity |-> q.sourceCapacity]
    BY DEF Refilled
  <1>2. "source" \in BufferNames
    BY DEF BufferNames
  <1> QED
    BY <1>1, <1>2 DEF Runtime, Tight

LEMMA FilledFacts ==
  ASSUME NEW r, Runtime(r), NEW call
  PROVE  LET q == Filled(r, call)
         IN /\ Refilled(q, r)
            /\ q.engine.ocr = (IF r.engine.ocr = NoOcr THEN NoOcr ELSE call.order)
            /\ r.buffers["source"] # NullPointer =>
                 q.engine.heap[r.buffers["source"]].data = call.image
  <1> DEFINE q == Filled(r, call)
             source == r.buffers["source"]
             f == Store(r.engine, source, call.image)
             g == lw_web_set_reading_order(f, call.order)
  <1>1. /\ Engine(r.engine)
        /\ source # NullPointer => source \in DOMAIN r.engine.heap
        /\ r = [engine |-> r.engine, buffers |-> r.buffers, sourceCapacity |-> r.sourceCapacity]
    BY DEF Runtime, BufferNames
  <1>2. q = [engine |-> g, buffers |-> r.buffers, sourceCapacity |-> r.sourceCapacity]
    BY <1>1 DEF Filled
  <1>3. /\ Engine(f) /\ DOMAIN f.heap = DOMAIN r.engine.heap /\ f.ocr = r.engine.ocr
        /\ \A x \in DOMAIN r.engine.heap : f.heap[x].size = r.engine.heap[x].size
        /\ source \in DOMAIN r.engine.heap => f.heap[source].data = call.image
    BY <1>1, StoreFacts
  <1> HIDE DEF f, q
  <1>4. g = [ocr |-> IF f.ocr = NoOcr THEN f.ocr ELSE call.order, lines |-> f.lines,
             order |-> call.order, heap |-> f.heap]
    <2>1. g = [[f EXCEPT !.order = call.order] EXCEPT !.ocr = IF @ = NoOcr THEN @ ELSE call.order]
      BY DEF lw_web_set_reading_order
    <2>2. [f EXCEPT !.order = call.order] =
            [ocr |-> f.ocr, lines |-> f.lines, order |-> call.order, heap |-> f.heap]
      BY <1>3 DEF Engine
    <2> QED
      BY <2>1, <2>2
  <1> HIDE DEF g
  <1>5. g.heap = f.heap /\ g.ocr = (IF f.ocr = NoOcr THEN f.ocr ELSE call.order)
        /\ g = [ocr |-> g.ocr, lines |-> g.lines, order |-> g.order, heap |-> g.heap]
    BY <1>4
  <1>6. Engine(g)
    BY <1>3, <1>5 DEF Engine
  <1>7. q.engine = g
    BY <1>2
  <1>8. source # NullPointer => source \in DOMAIN r.engine.heap
    BY <1>1
  <1> QED
    BY <1>2, <1>3, <1>5, <1>6, <1>7, <1>8 DEF Refilled, q

LEMMA FailedRunFacts ==
  ASSUME NEW r, Runtime(r)
  PROVE  Refilled(FailedRun(r), r)
  <1> DEFINE f == Store(r.engine, r.buffers.result, Garbage)
  <1>1. /\ Engine(r.engine)
        /\ r = [engine |-> r.engine, buffers |-> r.buffers, sourceCapacity |-> r.sourceCapacity]
    BY DEF Runtime
  <1>2. FailedRun(r) = [engine |-> f, buffers |-> r.buffers, sourceCapacity |-> r.sourceCapacity]
    BY <1>1 DEF FailedRun
  <1>3. /\ Engine(f) /\ DOMAIN f.heap = DOMAIN r.engine.heap
        /\ \A x \in DOMAIN r.engine.heap : f.heap[x].size = r.engine.heap[x].size
    BY <1>1, StoreFacts
  <1> HIDE DEF f
  <1> QED
    BY <1>2, <1>3 DEF Refilled

\* A run that is accepted fills the three output buffers with what it recognised.
LEMMA CompletedRunFacts ==
  ASSUME NEW r, Runtime(r), NEW call, Accepted(r),
         ByteLength[call.image] \in Nat \ {0}, ByteLength[call.image] <= r.sourceCapacity
  PROVE  LET q == CompletedRun(r, call)
         IN /\ Refilled(q, r)
            /\ LinesOf(q) = <<r.engine.heap[r.buffers["source"]].data, r.engine.ocr>>
  <1> DEFINE q == CompletedRun(r, call)
             b == r.buffers
             e == r.engine
             found == <<e.heap[b["source"]].data, e.ocr>>
             e1 == Store(e, b["lines"], found)
             e2 == Store(e1, b["text"], found)
             e3 == Store(e2, b["result"], found)
  <1>1. /\ Engine(e) /\ r = [engine |-> e, buffers |-> b, sourceCapacity |-> r.sourceCapacity]
        /\ b["source"] \in DOMAIN e.heap /\ e.heap[b["source"]].size = r.sourceCapacity
        /\ r.sourceCapacity \in Nat
    BY DEF Runtime, BufferNames
  <1>2. /\ b["lines"] \in DOMAIN e.heap /\ b["text"] \in DOMAIN e.heap /\ b["result"] \in DOMAIN e.heap
        /\ b["lines"] # b["text"] /\ b["lines"] # b["result"] /\ b["text"] # b["result"]
    <2>1. b["lines"] # NullPointer /\ b["text"] # NullPointer /\ b["result"] # NullPointer
      BY DEF Accepted, RunAccepted
    <2> QED
      BY <2>1 DEF Runtime, BufferNames
  <1>3. Recognised(e, b.source, ByteLength[call.image]) = found
    BY <1>1 DEF Recognised, Live
  <1>4. q = [engine |-> e3, buffers |-> b, sourceCapacity |-> r.sourceCapacity]
    <2>1. q = [r EXCEPT !.engine = lw_web_run(@, b.source, ByteLength[call.image], b.lines,
                                              b.text, b.result)]
      BY DEF CompletedRun
    <2>2. lw_web_run(e, b.source, ByteLength[call.image], b.lines, b.text, b.result) = e3
      BY <1>3 DEF lw_web_run
    <2> HIDE DEF e3, q
    <2> QED
      BY <1>1, <2>1, <2>2
  <1> HIDE DEF found, e1, e2, e3, q
  <1>5. /\ Engine(e1) /\ DOMAIN e1.heap = DOMAIN e.heap
        /\ \A x \in DOMAIN e.heap : e1.heap[x].size = e.heap[x].size
        /\ e1.heap[b["lines"]].data = found
    BY <1>1, <1>2, StoreFacts DEF e1
  <1>6. /\ Engine(e2) /\ DOMAIN e2.heap = DOMAIN e1.heap
        /\ \A x \in DOMAIN e1.heap : /\ e2.heap[x].size = e1.heap[x].size
                                     /\ x # b["text"] => e2.heap[x] = e1.heap[x]
        /\ e2.heap[b["text"]].data = found
    BY <1>2, <1>5, StoreFacts DEF e2
  <1>7. /\ Engine(e3) /\ DOMAIN e3.heap = DOMAIN e2.heap
        /\ \A x \in DOMAIN e2.heap : /\ e3.heap[x].size = e2.heap[x].size
                                     /\ x # b["result"] => e3.heap[x] = e2.heap[x]
        /\ e3.heap[b["result"]].data = found
    BY <1>2, <1>5, <1>6, StoreFacts DEF e3
  <1>8. e3.heap[b["lines"]].data = found /\ e3.heap[b["text"]].data = found
    BY <1>2, <1>5, <1>6, <1>7
  <1>9. q.engine = e3 /\ q.buffers = b
    BY <1>4
  <1>10. LinesOf(q) = found
    BY <1>2, <1>5, <1>6, <1>7, <1>8, <1>9 DEF LinesOf, ReadLines, Live
  <1>11. Refilled(q, r)
    BY <1>4, <1>5, <1>6, <1>7, <1>9 DEF Refilled
  <1> QED
    BY <1>10, <1>11 DEF q, found

\* Whatever becomes of a run, the instance stays sound, and lines that are returned
\* are those of the call.
LEMMA RunIsSound ==
  ASSUME NEW r, Runtime(r), NEW call \in CallRecords, NEW result \in RunResults(r, call)
  PROVE  /\ Runtime(result[1]) /\ (Tight(r) => Tight(result[1]))
         /\ result[2] \in Replies
         /\ result[2].ok => result[2].lines = <<call.image, call.order>>
  <1> DEFINE bytes == ByteLength[call.image]
             s == EnsureSource(r, bytes)
             x == Filled(s, call)
  <1>1. bytes \in Nat \ {0} /\ call.image \in Images /\ call.order \in ReadingOrders
    BY WebSdkAssumption DEF CallRecords
  <1>2. Failure = [settled |-> TRUE, ok |-> FALSE, lines |-> Garbage, sourceCapacity |-> 0]
    <2>1. PICK no, yes : no = FALSE /\ yes = TRUE
      OBVIOUS
    <2>2. NoReply = [settled |-> no, ok |-> no, lines |-> Garbage, sourceCapacity |-> 0]
          /\ Failure = [NoReply EXCEPT !.settled = yes]
      BY <2>1 DEF NoReply, Failure
    <2>3. Failure = [settled |-> yes, ok |-> no, lines |-> Garbage, sourceCapacity |-> 0]
      BY <2>2
    <2> QED
      BY <2>1, <2>3
  <1>3. Failure \in Replies /\ ~Failure.ok
    BY <1>2 DEF Replies, Lines
  <1>4. /\ Runtime(s) /\ s.sourceCapacity >= bytes /\ (Tight(r) => Tight(s))
        /\ s.sourceCapacity \in Nat
    <2>1. Runtime(s) /\ s.sourceCapacity >= bytes /\ (Tight(r) => Tight(s))
      BY <1>1, SourceReady
    <2> HIDE DEF s
    <2> QED
      BY <2>1 DEF Runtime
  <1>5. /\ Refilled(x, s)
        /\ x.engine.ocr = (IF s.engine.ocr = NoOcr THEN NoOcr ELSE call.order)
        /\ s.buffers["source"] # NullPointer =>
             x.engine.heap[s.buffers["source"]].data = call.image
    BY <1>4, FilledFacts
  <1>6. \/ result = <<r, Failure>>
        \/ result = <<FailedRun(x), Failure>>
        \/ Accepted(x) /\ result = <<CompletedRun(x, call),
                                     Answer(CompletedRun(x, call), LinesOf(CompletedRun(x, call)))>>
    BY DEF RunResults
  <1> HIDE DEF bytes, s, x
  <1>7. Runtime(x) /\ (Tight(s) => Tight(x)) /\ x.sourceCapacity = s.sourceCapacity
        /\ x.buffers = s.buffers
    BY <1>4, <1>5, RefilledIsSound
  <1>8. CASE result = <<r, Failure>>
    BY <1>3, <1>8
  <1>9. CASE result = <<FailedRun(x), Failure>>
    <2>1. Runtime(FailedRun(x)) /\ (Tight(x) => Tight(FailedRun(x)))
      BY <1>7, FailedRunFacts, RefilledIsSound
    <2> QED
      BY <1>3, <1>4, <1>7, <1>9, <2>1
  <1>10. CASE Accepted(x) /\ result = <<CompletedRun(x, call),
                                  Answer(CompletedRun(x, call), LinesOf(CompletedRun(x, call)))>>
    <2> DEFINE y == CompletedRun(x, call)
    <2>1. /\ Refilled(y, x)
          /\ LinesOf(y) = <<x.engine.heap[x.buffers["source"]].data, x.engine.ocr>>
      <3>1. bytes <= x.sourceCapacity
        BY <1>1, <1>4, <1>7
      <3> QED
        BY <1>1, <1>7, <1>10, <3>1, CompletedRunFacts DEF bytes
    <2> HIDE DEF y
    <2>2. Runtime(y) /\ (Tight(x) => Tight(y)) /\ y.sourceCapacity \in Nat
      <3>1. Runtime(y) /\ (Tight(x) => Tight(y))
        BY <1>7, <2>1, RefilledIsSound
      <3> QED
        BY <3>1 DEF Runtime
    <2>3. s.sourceCapacity > 0
      BY <1>1, <1>4
    <2>4. x.engine.heap[x.buffers["source"]].data = call.image
      BY <1>4, <1>5, <1>7, <2>3 DEF Runtime
    <2>5. x.engine.ocr = call.order
      BY <1>5, <1>10 DEF Accepted, RunAccepted, HasInfo
    <2>6. LinesOf(y) = <<call.image, call.order>>
      BY <2>1, <2>4, <2>5
    <2>7. Answer(y, LinesOf(y)) = [settled |-> TRUE, ok |-> TRUE, lines |-> <<call.image, call.order>>,
                                   sourceCapacity |-> y.sourceCapacity]
      BY <2>6 DEF Answer
    <2>8. Answer(y, LinesOf(y)) \in Replies
          /\ Answer(y, LinesOf(y)).lines = <<call.image, call.order>>
      BY <1>1, <2>2, <2>7 DEF Replies, Lines
    <2>9. result[1] = y /\ result[2] = Answer(y, LinesOf(y))
      BY <1>10 DEF y
    <2> QED
      BY <1>4, <1>7, <2>2, <2>8, <2>9
  <1> QED
    BY <1>6, <1>8, <1>9, <1>10

\* Instances are opened and emptied.
LEMMA OpenedIsSound ==
  ASSUME NEW r, Runtime(r), NEW steps \in InitSteps
  PROVE  /\ Runtime(Opened(r, steps)) /\ Opened(r, steps).sourceCapacity = r.sourceCapacity
         /\ r = NewRuntime => Tight(Opened(r, steps))
  <1> DEFINE engine == IF steps = 0 THEN lw_web_init_fails(r.engine)
                       ELSE lw_web_set_reading_order(lw_web_init(r.engine), DefaultOrder)
             initial == [r EXCEPT !.engine = engine]
             lines == Held(initial, "lines", OutputSize)
             text == Held(lines, "text", OutputSize)
             full == Held(text, "result", OutputSize)
             q == Opened(r, steps)
  <1>1. q = initial \/ q = lines \/ q = text \/ q = full
    <2>1. steps <= 2 \/ steps = 3 \/ steps = 4 \/ steps = 5
      BY DEF InitSteps
    <2> HIDE DEF initial, lines, text, full
    <2> QED
      BY <2>1 DEF Opened, initial, lines, text, full, InitSteps
  <1>2. /\ Engine(r.engine)
        /\ r = [engine |-> r.engine, buffers |-> r.buffers, sourceCapacity |-> r.sourceCapacity]
    BY DEF Runtime
  <1>3. Engine(engine) /\ engine.heap = r.engine.heap
    <2> DEFINE e == r.engine
               free == [ocr |-> NoOcr, lines |-> FALSE, order |-> HorizontalLtr, heap |-> e.heap]
               made == [ocr |-> HorizontalLtr, lines |-> TRUE, order |-> HorizontalLtr,
                        heap |-> e.heap]
               set == [ocr |-> DefaultOrder, lines |-> TRUE, order |-> DefaultOrder,
                       heap |-> e.heap]
    <2>1. release_ocr(e) = free
      <3>1. release_ocr(e) = [[[e EXCEPT !.ocr = NoOcr] EXCEPT !.lines = FALSE]
                                EXCEPT !.order = HorizontalLtr]
        BY DEF release_ocr
      <3>2. e = [ocr |-> e.ocr, lines |-> e.lines, order |-> e.order, heap |-> e.heap]
        BY <1>2 DEF Engine
      <3> QED
        BY <3>1, <3>2
    <2>2. lw_web_init(e) = made
      <3>1. lw_web_init(e) = [[release_ocr(e) EXCEPT !.ocr = HorizontalLtr] EXCEPT !.lines = TRUE]
        BY DEF lw_web_init
      <3>2. PICK no, yes : no = FALSE /\ yes = TRUE
        OBVIOUS
      <3>3. [release_ocr(e) EXCEPT !.ocr = HorizontalLtr] =
              [ocr |-> HorizontalLtr, lines |-> no, order |-> HorizontalLtr, heap |-> e.heap]
        <4>1. release_ocr(e) = [ocr |-> NoOcr, lines |-> no, order |-> HorizontalLtr, heap |-> e.heap]
          BY <2>1, <3>2
        <4> QED
          BY <4>1
      <3>4. lw_web_init(e) = [[release_ocr(e) EXCEPT !.ocr = HorizontalLtr] EXCEPT !.lines = yes]
        BY <3>1, <3>2
      <3>5. lw_web_init(e) = [ocr |-> HorizontalLtr, lines |-> yes, order |-> HorizontalLtr,
                              heap |-> e.heap]
        <4>1. PICK mid : mid = [release_ocr(e) EXCEPT !.ocr = HorizontalLtr]
          OBVIOUS
        <4>2. lw_web_init(e) = [mid EXCEPT !.lines = yes]
          BY <3>4, <4>1
        <4>3. mid = [ocr |-> HorizontalLtr, lines |-> no, order |-> HorizontalLtr, heap |-> e.heap]
          BY <3>3, <4>1
        <4> QED
          BY <4>2, <4>3
      <3> QED
        BY <3>2, <3>5
    <2>3. lw_web_set_reading_order(made, DefaultOrder) = set
      <3>1. lw_web_set_reading_order(made, DefaultOrder) =
              [[made EXCEPT !.order = DefaultOrder] EXCEPT
                 !.ocr = IF @ = NoOcr THEN @ ELSE DefaultOrder]
        BY DEF lw_web_set_reading_order
      <3>2. HorizontalLtr # NoOcr
        BY DEF HorizontalLtr, NoOcr
      <3> QED
        BY <3>1, <3>2
    <2>4. engine = free \/ engine = set
      BY <2>1, <2>2, <2>3 DEF lw_web_init_fails
    <2>5. Engine(free) /\ free.heap = e.heap
      BY <1>2 DEF Engine
    <2>6. Engine(set) /\ set.heap = e.heap
      BY <1>2 DEF Engine
    <2> HIDE DEF engine, free, set
    <2> QED
      BY <2>4, <2>5, <2>6
  <1> HIDE DEF engine
  <1>4. initial = [engine |-> engine, buffers |-> r.buffers, sourceCapacity |-> r.sourceCapacity]
    BY <1>2
  <1> HIDE DEF initial, lines, text, full, q
  <1>5. Refilled(initial, r)
    BY <1>3, <1>4 DEF Refilled
  <1>6. Runtime(initial) /\ initial.sourceCapacity = r.sourceCapacity /\ initial.buffers = r.buffers
    BY <1>5, RefilledIsSound
  <1>7. /\ Runtime(lines) /\ lines.sourceCapacity = r.sourceCapacity
        /\ \A other \in BufferNames \ {"lines"} : lines.buffers[other] = initial.buffers[other]
        /\ Tight(initial) /\ initial.buffers["lines"] = NullPointer => Tight(lines)
    BY <1>6, OutputHeld DEF lines, BufferNames
  <1>8. /\ Runtime(text) /\ text.sourceCapacity = r.sourceCapacity
        /\ \A other \in BufferNames \ {"text"} : text.buffers[other] = lines.buffers[other]
        /\ Tight(lines) /\ lines.buffers["text"] = NullPointer => Tight(text)
    BY <1>7, OutputHeld DEF text, BufferNames
  <1>9. /\ Runtime(full) /\ full.sourceCapacity = r.sourceCapacity
        /\ Tight(text) /\ text.buffers["result"] = NullPointer => Tight(full)
    BY <1>8, OutputHeld DEF full, BufferNames
  <1>10. ASSUME r = NewRuntime PROVE Tight(initial) /\ Tight(lines) /\ Tight(text) /\ Tight(full)
    <2>1. /\ r.engine.heap = <<>> /\ r.buffers["lines"] = NullPointer
          /\ r.buffers["text"] = NullPointer /\ r.buffers["result"] = NullPointer
      BY <1>10 DEF NewRuntime, NewInstance, NoBuffers
    <2>2. Tight(initial)
      BY <1>3, <1>4, <2>1 DEF Tight
    <2>3. Tight(lines)
      BY <1>6, <1>7, <2>1, <2>2
    <2>4. Tight(text)
      BY <1>6, <1>7, <1>8, <2>1, <2>3 DEF BufferNames
    <2>5. Tight(full)
      BY <1>6, <1>7, <1>8, <1>9, <2>1, <2>4 DEF BufferNames
    <2> QED
      BY <2>2, <2>3, <2>4, <2>5
  <1> QED
    BY <1>1, <1>6, <1>7, <1>8, <1>9, <1>10 DEF q

LEMMA EmptiedFacts ==
  ASSUME NEW r, Runtime(r), Tight(r)
  PROVE  /\ Emptied(r).engine = NewInstance /\ Emptied(r).buffers = NoBuffers
         /\ Emptied(r) = [engine |-> NewInstance, buffers |-> NoBuffers,
                          sourceCapacity |-> r.sourceCapacity]
  <1> DEFINE kept == DOMAIN r.engine.heap \ {r.buffers[name] : name \in DOMAIN NoBuffers}
             rest == [r.engine EXCEPT !.heap = Restrict(@, kept)]
  <1>1. DOMAIN NoBuffers = BufferNames
    BY DEF NoBuffers, BufferNames
  <1>2. kept = {}
    BY <1>1 DEF Tight
  <1> HIDE DEF kept
  <1>3. rest = [ocr |-> r.engine.ocr, lines |-> r.engine.lines, order |-> r.engine.order,
                heap |-> <<>>]
    <2>1. Restrict(r.engine.heap, kept) = <<>>
      BY <1>2 DEF Restrict
    <2>2. r.engine = [ocr |-> r.engine.ocr, lines |-> r.engine.lines, order |-> r.engine.order,
                      heap |-> r.engine.heap]
      BY DEF Runtime, Engine
    <2> QED
      BY <2>1, <2>2
  <1>4. lw_web_shutdown(rest) = NewInstance
    <2>1. lw_web_shutdown(rest) = [[[rest EXCEPT !.ocr = NoOcr] EXCEPT !.lines = FALSE]
                                     EXCEPT !.order = HorizontalLtr]
      BY DEF lw_web_shutdown, release_ocr
    <2> HIDE DEF rest
    <2> QED
      BY <1>3, <2>1 DEF NewInstance
  <1>5. Emptied(r) = [[r EXCEPT !.buffers = NoBuffers] EXCEPT !.engine = lw_web_shutdown(rest)]
    BY DEF Emptied, kept
  <1>6. r = [engine |-> r.engine, buffers |-> r.buffers, sourceCapacity |-> r.sourceCapacity]
    BY DEF Runtime
  <1> HIDE DEF rest
  <1>7. Emptied(r) = [engine |-> NewInstance, buffers |-> NoBuffers,
                      sourceCapacity |-> r.sourceCapacity]
    BY <1>4, <1>5, <1>6
  <1> QED
    BY <1>7

-----------------------------------------------------------------------------
(* The invariant holds at first, and while the worker works *)

LEMMA NewRuntimeIsSound ==
  /\ Runtime(NewRuntime) /\ Tight(NewRuntime)
  /\ NewRuntime.engine = NewInstance /\ NewRuntime.buffers = NoBuffers
  <1>1. NewRuntime = [engine |-> NewInstance, buffers |-> NoBuffers, sourceCapacity |-> 0]
    BY DEF NewRuntime
  <1>2. Engine(NewInstance) /\ DOMAIN NewInstance.heap = {}
    <2>1. NewInstance.heap = <<>>
      BY DEF NewInstance
    <2>2. NewInstance = [ocr |-> NewInstance.ocr, lines |-> NewInstance.lines,
                         order |-> NewInstance.order, heap |-> NewInstance.heap]
      BY DEF NewInstance
    <2>3. DOMAIN NewInstance.heap = {} /\ NewInstance.heap = [p \in {} |-> NewInstance.heap[p]]
      BY <2>1
    <2>4. IsFiniteSet(DOMAIN NewInstance.heap)
      BY <2>3, FS_EmptySet
    <2> QED
      BY <2>2, <2>3, <2>4 DEF Engine
  <1>3. /\ NoBuffers = [name \in BufferNames |-> NoBuffers[name]]
        /\ \A name \in BufferNames : NoBuffers[name] = NullPointer
    BY DEF NoBuffers, BufferNames
  <1> QED
    BY <1>1, <1>2, <1>3 DEF Runtime, Tight

LEMMA RepliesTyped == NoReply \in Replies /\ ~NoReply.settled /\ Failure \in Replies /\ ~Failure.ok
  <1>1. NoReply \in Replies /\ ~NoReply.settled
    BY DEF NoReply, Replies, Lines
  <1>2. Failure \in Replies /\ ~Failure.ok
    BY <1>1 DEF Failure, Replies, NoReply
  <1> QED
    BY <1>1, <1>2

\* Messages leave and enter a queue one at a time.
LEMMA Dequeued ==
  ASSUME NEW S, NEW s \in Seq(S), s # <<>>
  PROVE  /\ Tail(s) \in Seq(S) /\ Head(s) = s[1] /\ s[1] \in S /\ 1 \in 1..Len(s)
         /\ \A k \in 1..Len(Tail(s)) : k + 1 \in 1..Len(s) /\ Tail(s)[k] = s[k + 1]
  <1>1. Len(s) \in Nat /\ Len(s) # 0 /\ Tail(s) \in Seq(S) /\ Head(s) = s[1]
    OBVIOUS
  <1>2. Len(Tail(s)) = Len(s) - 1 /\ \A k \in 1..(Len(s) - 1) : Tail(s)[k] = s[k + 1]
    OBVIOUS
  <1>3. s[1] \in S
    BY <1>1
  <1> QED
    BY <1>1, <1>2, <1>3

LEMMA Enqueued ==
  ASSUME NEW S, NEW s \in Seq(S), NEW x \in S
  PROVE  /\ Append(s, x) \in Seq(S) /\ Len(s) \in Nat /\ Len(Append(s, x)) = Len(s) + 1
         /\ Append(s, x)[Len(s) + 1] = x
         /\ \A k \in 1..Len(s) : Append(s, x)[k] = s[k]
         /\ \A k \in 1..Len(Append(s, x)) : k \in 1..Len(s) \/ k = Len(s) + 1
  <1>1. /\ Append(s, x) \in Seq(S) /\ Len(s) \in Nat /\ Len(Append(s, x)) = Len(s) + 1
        /\ Append(s, x)[Len(s) + 1] = x /\ \A k \in 1..Len(s) : Append(s, x)[k] = s[k]
    OBVIOUS
  <1> QED
    BY <1>1

LEMMA InitInvariant == Init => IInv
  <1> SUFFICES ASSUME Init PROVE IInv
    OBVIOUS
  <1>1. /\ worker.alive = FALSE /\ worker.inbox = <<>> /\ worker.outbox = <<>>
        /\ worker.runtime = NewRuntime
        /\ DOMAIN worker = {"alive", "started", "broken", "runtime", "inbox", "outbox"}
    BY DEF Init, NoWorker
  <1>2. recognition \in Recognitions /\ recognition.phase = "none" /\ ~recognition.reply.settled
    BY RepliesTyped DEF Init, NoRecognition, Recognitions
  <1>3. pending = <<>> /\ DOMAIN pending = {} /\ pending = [id \in {} |-> pending[id]]
    BY DEF Init
  <1>4. calls \in Seq(CallRecords) /\ calls = <<>> /\ DOMAIN calls = {}
    BY DEF Init
  <1>5. Shape
    <2>1. worker.inbox \in Seq(Requests) /\ worker.outbox \in Seq(Responses)
      BY <1>1
    <2>2. \A id \in DOMAIN pending : id \in 1..(nextRequestId - 1)
      BY <1>3
    <2>3. pending = [id \in DOMAIN pending |-> pending[id]]
      BY <1>3
    <2>4. greeting \in Replies
      BY RepliesTyped DEF Init
    <2>5. /\ state = "CREATING" /\ creation = "none" /\ url \in BOOLEAN /\ attached \in BOOLEAN
          /\ destroyed \in BOOLEAN /\ worker.alive \in BOOLEAN
      BY <1>1 DEF Init
    <2>6. nextRequestId \in Nat \ {0}
      BY DEF Init
    <2> QED
      BY <1>1, <1>2, <1>4, <2>1, <2>2, <2>3, <2>4, <2>5, <2>6 DEF Shape
  <1>6. Instances
    <2>1. direct.sourceCapacity \in Nat
      BY DEF Init, NewRuntime
    <2> QED
      BY <1>1, <2>1, NewRuntimeIsSound DEF Init, Instances, Runtime
  <1>7. Phases
    BY <1>1, <1>2, <1>3 DEF Init, Phases
  <1>8. Asked
    BY <1>1, <1>2, <1>3 DEF Asked, Mine
  <1>9. AnswersItsOwnCall
    BY <1>4 DEF AnswersItsOwnCall
  <1> QED
    BY <1>5, <1>6, <1>7, <1>8, <1>9 DEF IInv

\* The first request in the inbox is answered.
LEMMA RespondStep ==
  ASSUME IInv, WorkerRuns, NEW reply \in Replies, NEW runtime, Runtime(runtime),
         worker' = [Respond(Head(worker.inbox), reply) EXCEPT !.runtime = runtime],
         Mine(Head(worker.inbox).requestId) => Right(reply),
         UNCHANGED <<main, calls, errors, destroyed>>
  PROVE  IInv'
  <1> DEFINE response == [requestId |-> Head(worker.inbox).requestId, reply |-> reply]
  <1>1. Shape /\ Instances /\ Phases /\ Asked /\ AnswersItsOwnCall
    BY DEF IInv
  <1>2. /\ worker'.alive = worker.alive /\ worker'.inbox = Tail(worker.inbox)
        /\ worker'.outbox = Append(worker.outbox, response) /\ worker'.runtime = runtime
        /\ DOMAIN worker' = DOMAIN worker
    BY <1>1 DEF Respond, Shape
  <1>3. /\ worker.inbox \in Seq(Requests) /\ worker.inbox # <<>> /\ worker.outbox \in Seq(Responses)
        /\ Head(worker.inbox) = worker.inbox[1] /\ worker.inbox[1] \in Requests
        /\ 1 \in 1..Len(worker.inbox)
    BY <1>1, Dequeued DEF Shape, WorkerRuns
  <1>4. response \in Responses /\ response.reply = reply /\ response.requestId < nextRequestId
        /\ response.requestId = worker.inbox[1].requestId
    BY <1>1, <1>3 DEF Responses, Requests, Asked
  <1>5. /\ UNCHANGED <<state, creation, url, attached, direct, pending, nextRequestId, recognition,
                       greeting, calls, destroyed>>
        /\ \A id : Mine(id)' <=> Mine(id)
        /\ \A x : Right(x)' <=> Right(x)
    BY DEF main, Mine, Right
  <1> HIDE DEF response
  <1>6. Shape'
    <2>1. Tail(worker.inbox) \in Seq(Requests)
      BY <1>3, Dequeued
    <2>2. Append(worker.outbox, response) \in Seq(Responses)
      BY <1>3, <1>4, Enqueued
    <2>3. worker'.inbox \in Seq(Requests) /\ worker'.outbox \in Seq(Responses)
      BY <1>2, <2>1, <2>2
    <2> QED
      BY <1>1, <1>2, <1>5, <2>3 DEF Shape
  <1>7. Instances' /\ Phases' /\ AnswersItsOwnCall'
    BY <1>1, <1>2, <1>5 DEF Instances, Phases, AnswersItsOwnCall
  <1>8. ASSUME NEW k \in 1..Len(worker'.inbox)
        PROVE  k + 1 \in 1..Len(worker.inbox) /\ worker'.inbox[k] = worker.inbox[k + 1]
    <2>1. worker'.inbox = Tail(worker.inbox)
      BY <1>2
    <2>2. \A i \in 1..Len(Tail(worker.inbox)) :
            i + 1 \in 1..Len(worker.inbox) /\ Tail(worker.inbox)[i] = worker.inbox[i + 1]
      BY <1>3, Dequeued, Zenon
    <2> QED
      BY <2>1, <2>2, Zenon
  <1>9. ASSUME NEW k \in 1..Len(worker'.outbox)
        PROVE  \/ k \in 1..Len(worker.outbox) /\ worker'.outbox[k] = worker.outbox[k]
               \/ worker'.outbox[k] = response
    BY <1>2, <1>3, <1>4, Enqueued
  <1>10. Mine(response.requestId) => Right(response.reply)
    BY <1>3, <1>4
  <1>11. Asked'
    <2>1. \A k \in 1..Len(worker'.inbox) :
            /\ worker'.inbox[k].requestId < nextRequestId
            /\ worker'.inbox[k].type = "run" => worker'.inbox[k].call \in CallRecords
            /\ Mine(worker'.inbox[k].requestId) =>
                 /\ worker'.inbox[k].type = "run"
                 /\ worker'.inbox[k].call.image = calls[recognition.call].image
                 /\ worker'.inbox[k].call.order = calls[recognition.call].order
      BY <1>1, <1>8 DEF Asked
    <2>2. \A k \in 1..Len(worker'.outbox) :
            /\ worker'.outbox[k].requestId < nextRequestId
            /\ Mine(worker'.outbox[k].requestId) => Right(worker'.outbox[k].reply)
      BY <1>1, <1>4, <1>9, <1>10 DEF Asked
    <2>3. /\ \A id \in DOMAIN pending' : Mine(id)' =>
               /\ recognition'.phase = "waiting" /\ ~recognition'.reply.settled
               /\ \A other \in DOMAIN pending' : Mine(other)' => other = id
          /\ recognition'.reply.settled => Right(recognition.reply)'
      BY <1>1, <1>5 DEF Asked
    <2>4. nextRequestId' = nextRequestId /\ calls' = calls /\ recognition' = recognition
          /\ pending' = pending
      BY <1>5
    <2>5. \A k \in 1..Len(worker'.inbox) :
            /\ worker'.inbox[k].requestId < nextRequestId'
            /\ worker'.inbox[k].type = "run" => worker'.inbox[k].call \in CallRecords
            /\ /\ worker'.inbox[k].requestId \in DOMAIN pending'
               /\ pending'[worker'.inbox[k].requestId] = Recogniser
               => /\ worker'.inbox[k].type = "run"
                  /\ worker'.inbox[k].call.image = calls'[recognition'.call].image
                  /\ worker'.inbox[k].call.order = calls'[recognition'.call].order
      BY <2>1, <2>4 DEF Mine
    <2>6. \A k \in 1..Len(worker'.outbox) :
            /\ worker'.outbox[k].requestId < nextRequestId'
            /\ /\ worker'.outbox[k].requestId \in DOMAIN pending'
               /\ pending'[worker'.outbox[k].requestId] = Recogniser
               => (worker'.outbox[k].reply.ok =>
                     worker'.outbox[k].reply.lines =
                       <<calls'[recognition'.call].image, calls'[recognition'.call].order>>)
      BY <2>2, <2>4 DEF Mine, Right
    <2> HIDE <1>1, <1>2, <1>3, <1>4, <1>5
    <2> QED
      BY <2>3, <2>4, <2>5, <2>6 DEF Asked, Mine, Right
  <1> QED
    BY <1>6, <1>7, <1>11 DEF IInv

LEMMA WorkerInitializeStep == IInv /\ WorkerInitialize => IInv'
  <1> SUFFICES ASSUME IInv, WorkerInitialize PROVE IInv'
    OBVIOUS
  <1>1. /\ WorkerRuns /\ Head(worker.inbox).type = "initialize" /\ Runtime(worker.runtime)
        /\ UNCHANGED <<main, calls, errors, destroyed>>
    BY DEF WorkerInitialize, IInv, Instances
  <1>2. PICK steps \in InitSteps :
          LET opened == Opened(worker.runtime, steps)
              reply == IF steps = LastStep THEN Answer(opened, Garbage) ELSE Failure
          IN worker' = [Respond(Head(worker.inbox), reply) EXCEPT !.runtime = opened]
    BY DEF WorkerInitialize
  <1> DEFINE opened == Opened(worker.runtime, steps)
             reply == IF steps = LastStep THEN Answer(opened, Garbage) ELSE Failure
  <1>3. Runtime(opened) /\ opened.sourceCapacity \in Nat
    <2>1. Runtime(opened)
      BY <1>1, OpenedIsSound
    <2> QED
      BY <2>1 DEF Runtime
  <1>4. reply \in Replies
    <2>1. Answer(opened, Garbage) \in Replies
      BY <1>3 DEF Answer, Replies, Lines
    <2> QED
      BY <2>1, RepliesTyped
  <1>5. worker' = [Respond(Head(worker.inbox), reply) EXCEPT !.runtime = opened]
    BY <1>2
  <1>6. ~Mine(Head(worker.inbox).requestId)
    <2>1. /\ worker.inbox \in Seq(Requests) /\ worker.inbox # <<>>
      BY <1>1 DEF IInv, Shape, WorkerRuns
    <2>2. 1 \in 1..Len(worker.inbox) /\ Head(worker.inbox) = worker.inbox[1]
      BY <2>1
    <2> QED
      BY <1>1, <2>2 DEF IInv, Asked
  <1> HIDE DEF opened, reply
  <1> QED
    BY <1>1, <1>3, <1>4, <1>5, <1>6, RespondStep

LEMMA WorkerRunStep == IInv /\ WorkerRun => IInv'
  <1> SUFFICES ASSUME IInv, WorkerRun PROVE IInv'
    OBVIOUS
  <1> DEFINE request == Head(worker.inbox)
  <1>1. /\ WorkerRuns /\ request.type = "run" /\ Runtime(worker.runtime)
        /\ UNCHANGED <<main, calls, errors, destroyed>>
    BY DEF WorkerRun, IInv, Instances
  <1>2. PICK result \in RunResults(worker.runtime, request.call) :
          worker' = [Respond(request, result[2]) EXCEPT !.runtime = result[1]]
    BY DEF WorkerRun
  <1>3. 1 \in 1..Len(worker.inbox) /\ request = worker.inbox[1]
    <2>1. worker.inbox \in Seq(Requests) /\ worker.inbox # <<>>
      BY <1>1 DEF IInv, Shape, WorkerRuns
    <2> QED
      BY <2>1
  <1> HIDE DEF request
  <1>4. /\ request.call \in CallRecords
        /\ Mine(request.requestId) => /\ request.call.image = calls[recognition.call].image
                                      /\ request.call.order = calls[recognition.call].order
    BY <1>1, <1>3 DEF IInv, Asked
  <1>5. /\ Runtime(result[1]) /\ result[2] \in Replies
        /\ result[2].ok => result[2].lines = <<request.call.image, request.call.order>>
    BY <1>1, <1>4, RunIsSound
  <1>6. Mine(request.requestId) => Right(result[2])
    BY <1>4, <1>5 DEF Right
  <1> QED
    BY <1>1, <1>2, <1>5, <1>6, RespondStep DEF request

-----------------------------------------------------------------------------
(* Replies, and the requests that are given up *)

\* What is settled no longer waits, and whoever waited has the reply.
LEMMA SettleFacts ==
  ASSUME IInv, NEW ids \in SUBSET DOMAIN pending, NEW reply \in Replies, Settle(ids, reply),
         \A id \in ids : Mine(id) => Right(reply)
  PROVE  /\ pending' = [id \in DOMAIN pending \ ids |-> pending[id]]
         /\ greeting' \in Replies /\ recognition' \in Recognitions
         /\ recognition'.phase = recognition.phase /\ recognition'.call = recognition.call
         /\ recognition'.phase # "waiting" => recognition'.reply = recognition.reply
         /\ recognition'.reply = recognition.reply \/ (Right(reply) /\ recognition'.reply = reply)
         /\ \A id \in DOMAIN pending \ ids : Mine(id) => recognition'.reply = recognition.reply
  <1> DEFINE waiting == {pending[id] : id \in ids}
  <1>1. /\ greeting' = IF Creator \in waiting THEN reply ELSE greeting
        /\ recognition' = IF Recogniser \in waiting
                          THEN [recognition EXCEPT !.reply = reply] ELSE recognition
        /\ Shape /\ Asked
    BY DEF Settle, IInv
  <1>2. pending' = [id \in DOMAIN pending \ ids |-> pending[id]]
    <2>1. DOMAIN pending \cap (DOMAIN pending \ ids) = DOMAIN pending \ ids
      OBVIOUS
    <2> QED
      BY <2>1 DEF Settle, Restrict
  <1>3. ASSUME Recogniser \in waiting
        PROVE  Right(reply) /\ recognition.phase = "waiting" /\ \E id \in ids : Mine(id)
    <2>1. PICK id \in ids : pending[id] = Recogniser
      BY <1>3
    <2> QED
      BY <1>1, <2>1 DEF Mine, Asked
  <1>4. /\ recognition' \in Recognitions /\ recognition'.phase = recognition.phase
        /\ recognition'.call = recognition.call
        /\ Recogniser \in waiting => recognition'.reply = reply
        /\ Recogniser \notin waiting => recognition'.reply = recognition.reply
    BY <1>1 DEF Shape, Recognitions
  <1>5. ASSUME NEW id \in DOMAIN pending \ ids, Mine(id) PROVE Recogniser \notin waiting
    BY <1>1, <1>3, <1>5 DEF Asked
  <1>6. greeting' \in Replies
    BY <1>1 DEF Shape
  <1> HIDE DEF waiting
  <1> QED
    BY <1>2, <1>3, <1>4, <1>5, <1>6

\* Afterwards what still waits is about the call under way, as before.
LEMMA SettledStep ==
  ASSUME IInv, NEW ids \in SUBSET DOMAIN pending, NEW reply \in Replies, Settle(ids, reply),
         \A id \in ids : Mine(id) => Right(reply),
         UNCHANGED <<nextRequestId, calls>>,
         worker'.inbox \in Seq(Requests) /\ worker'.outbox \in Seq(Responses),
         \A k \in 1..Len(worker'.inbox) :
           \E j \in 1..Len(worker.inbox) : worker'.inbox[k] = worker.inbox[j],
         \A k \in 1..Len(worker'.outbox) :
           \E j \in 1..Len(worker.outbox) : worker'.outbox[k] = worker.outbox[j]
  PROVE  Asked'
  <1>1. Asked
    BY DEF IInv
  <1>2. /\ pending' = [id \in DOMAIN pending \ ids |-> pending[id]]
        /\ recognition'.phase = recognition.phase /\ recognition'.call = recognition.call
        /\ recognition'.reply = recognition.reply \/ (Right(reply) /\ recognition'.reply = reply)
        /\ \A id \in DOMAIN pending \ ids : Mine(id) => recognition'.reply = recognition.reply
    BY SettleFacts
  <1>3. \A id : Mine(id)' => Mine(id) /\ id \in DOMAIN pending \ ids
    BY <1>2 DEF Mine
  <1>4. \A x : Right(x)' <=> Right(x)
    BY <1>2 DEF Right
  <1>5. ASSUME NEW id \in DOMAIN pending', Mine(id)'
        PROVE  /\ recognition'.phase = "waiting" /\ ~recognition'.reply.settled
               /\ \A other \in DOMAIN pending' : Mine(other)' => other = id
    BY <1>1, <1>2, <1>3, <1>5 DEF Asked
  <1>6. \A k \in 1..Len(worker'.inbox) :
          /\ worker'.inbox[k].requestId < nextRequestId
          /\ worker'.inbox[k].type = "run" => worker'.inbox[k].call \in CallRecords
          /\ Mine(worker'.inbox[k].requestId) =>
               /\ worker'.inbox[k].type = "run"
               /\ worker'.inbox[k].call.image = calls[recognition.call].image
               /\ worker'.inbox[k].call.order = calls[recognition.call].order
    <2> SUFFICES ASSUME NEW k \in 1..Len(worker'.inbox)
                 PROVE  /\ worker'.inbox[k].requestId < nextRequestId
                        /\ worker'.inbox[k].type = "run" => worker'.inbox[k].call \in CallRecords
                        /\ Mine(worker'.inbox[k].requestId) =>
                             /\ worker'.inbox[k].type = "run"
                             /\ worker'.inbox[k].call.image = calls[recognition.call].image
                             /\ worker'.inbox[k].call.order = calls[recognition.call].order
      OBVIOUS
    <2>1. PICK j \in 1..Len(worker.inbox) : worker'.inbox[k] = worker.inbox[j]
      OBVIOUS
    <2> QED
      BY <1>1, <2>1 DEF Asked
  <1>7. \A k \in 1..Len(worker'.outbox) :
          /\ worker'.outbox[k].requestId < nextRequestId
          /\ Mine(worker'.outbox[k].requestId) => Right(worker'.outbox[k].reply)
    BY <1>1 DEF Asked
  <1>8. recognition'.reply.settled => Right(recognition'.reply)
    BY <1>1, <1>2 DEF Asked
  <1> QED
    BY <1>2, <1>3, <1>4, <1>5, <1>6, <1>7, <1>8 DEF Asked

\* The rest of the invariant, when nothing but replies and the worker has changed.
LEMMA ReplyStep ==
  ASSUME IInv, NEW ids \in SUBSET DOMAIN pending, NEW reply \in Replies, Settle(ids, reply),
         \A id \in ids : Mine(id) => Right(reply), worker.alive,
         UNCHANGED <<state, creation, url, attached, direct, nextRequestId, calls, destroyed>>,
         DOMAIN worker' = DOMAIN worker, worker'.alive = worker.alive,
         worker'.runtime = worker.runtime,
         worker'.inbox \in Seq(Requests) /\ worker'.outbox \in Seq(Responses),
         \A k \in 1..Len(worker'.inbox) :
           \E j \in 1..Len(worker.inbox) : worker'.inbox[k] = worker.inbox[j],
         \A k \in 1..Len(worker'.outbox) :
           \E j \in 1..Len(worker.outbox) : worker'.outbox[k] = worker.outbox[j]
  PROVE  IInv'
  <1>1. Shape /\ Instances /\ Phases /\ AnswersItsOwnCall
    BY DEF IInv
  <1>2. Asked'
    BY SettledStep
  <1>3. /\ pending' = [id \in DOMAIN pending \ ids |-> pending[id]]
        /\ greeting' \in Replies /\ recognition' \in Recognitions
        /\ recognition'.phase = recognition.phase /\ recognition'.call = recognition.call
        /\ recognition'.phase # "waiting" => recognition'.reply = recognition.reply
    BY SettleFacts
  <1>4. Shape'
    <2>1. DOMAIN pending' \subseteq DOMAIN pending
          /\ pending' = [id \in DOMAIN pending' |-> pending'[id]]
      BY <1>3
    <2> QED
      BY <1>1, <1>3, <2>1 DEF Shape
  <1>5. Instances' /\ AnswersItsOwnCall'
    BY <1>1 DEF Instances, AnswersItsOwnCall
  <1>6. Phases'
    BY <1>1, <1>3 DEF Phases
  <1> QED
    BY <1>2, <1>4, <1>5, <1>6 DEF IInv

LEMMA OnMessageStep == IInv /\ OnMessage => IInv'
  <1> SUFFICES ASSUME IInv, OnMessage PROVE IInv'
    OBVIOUS
  <1> DEFINE response == Head(worker.outbox)
             ids == Addressees(response.requestId)
  <1>1. /\ Shape /\ Asked /\ worker.alive /\ worker.outbox # <<>> /\ worker.outbox \in Seq(Responses)
        /\ Settle(ids, response.reply) /\ worker' = [worker EXCEPT !.outbox = Tail(@)]
        /\ UNCHANGED <<state, creation, url, attached, direct, nextRequestId, calls, destroyed>>
    BY DEF OnMessage, IInv, Shape
  <1>2. /\ response = worker.outbox[1] /\ 1 \in 1..Len(worker.outbox) /\ response \in Responses
        /\ Tail(worker.outbox) \in Seq(Responses)
        /\ \A k \in 1..Len(Tail(worker.outbox)) :
             k + 1 \in 1..Len(worker.outbox) /\ Tail(worker.outbox)[k] = worker.outbox[k + 1]
    BY <1>1, Dequeued
  <1>3. /\ ids \in SUBSET DOMAIN pending /\ response.reply \in Replies
        /\ \A id \in ids : Mine(id) => Right(response.reply)
    BY <1>1, <1>2 DEF Addressees, Asked, Responses
  <1>4. /\ DOMAIN worker' = DOMAIN worker /\ worker'.alive = worker.alive
        /\ worker'.runtime = worker.runtime /\ worker'.inbox = worker.inbox
        /\ worker'.outbox = Tail(worker.outbox)
    BY <1>1 DEF Shape
  <1>5. /\ \A k \in 1..Len(worker'.inbox) :
             \E j \in 1..Len(worker.inbox) : worker'.inbox[k] = worker.inbox[j]
        /\ \A k \in 1..Len(worker'.outbox) :
             \E j \in 1..Len(worker.outbox) : worker'.outbox[k] = worker.outbox[j]
    BY <1>2, <1>4
  <1>6. worker'.inbox \in Seq(Requests) /\ worker'.outbox \in Seq(Responses)
    BY <1>1, <1>2, <1>4 DEF Shape
  <1> HIDE DEF ids, response
  <1> QED
    BY <1>1, <1>3, <1>4, <1>5, <1>6, ReplyStep

LEMMA OnErrorStep == IInv /\ OnError => IInv'
  <1> SUFFICES ASSUME IInv, OnError PROVE IInv'
    OBVIOUS
  <1>1. /\ Shape /\ worker.alive /\ Settle(DOMAIN pending, Failure)
        /\ worker' = worker \/ worker' = [worker EXCEPT !.broken = TRUE]
        /\ UNCHANGED <<state, creation, url, attached, direct, nextRequestId, calls, destroyed>>
    BY DEF OnError, IInv
  <1>2. /\ DOMAIN worker' = DOMAIN worker /\ worker'.alive = worker.alive
        /\ worker'.runtime = worker.runtime /\ worker'.inbox = worker.inbox
        /\ worker'.outbox = worker.outbox
    BY <1>1 DEF Shape
  <1>3. Failure \in Replies /\ Right(Failure) /\ DOMAIN pending \in SUBSET DOMAIN pending
    BY RepliesTyped DEF Right
  <1>4. worker'.inbox \in Seq(Requests) /\ worker'.outbox \in Seq(Responses)
    BY <1>1, <1>2 DEF Shape
  <1> QED
    BY <1>1, <1>2, <1>3, <1>4, ReplyStep

\* The worker is closed: nothing waits any more.
LEMMA ClosedFacts ==
  ASSUME IInv, CloseWorker, UNCHANGED <<nextRequestId, calls>>
  PROVE  /\ Asked' /\ pending' = <<>> /\ DOMAIN pending' = {} /\ ~url' /\ url' \in BOOLEAN
         /\ worker'.alive = FALSE /\ worker'.inbox = <<>> /\ worker'.outbox = <<>>
         /\ DOMAIN worker' = {"alive", "started", "broken", "runtime", "inbox", "outbox"}
         /\ Runtime(worker'.runtime)
         /\ greeting' \in Replies /\ recognition' \in Recognitions
         /\ recognition'.phase = recognition.phase /\ recognition'.call = recognition.call
         /\ recognition'.phase # "waiting" => recognition'.reply = recognition.reply
  <1>1. /\ Settle(DOMAIN pending, Failure) /\ worker' = NoWorker /\ url' = FALSE
    BY DEF CloseWorker, Withdrawn
  <1>2. /\ worker'.alive = FALSE /\ worker'.inbox = <<>> /\ worker'.outbox = <<>>
        /\ worker'.runtime = NewRuntime
        /\ DOMAIN worker' = {"alive", "started", "broken", "runtime", "inbox", "outbox"}
    BY <1>1 DEF NoWorker
  <1>3. Failure \in Replies /\ Right(Failure) /\ DOMAIN pending \in SUBSET DOMAIN pending
    BY RepliesTyped DEF Right
  <1>4. /\ pending' = [id \in DOMAIN pending \ DOMAIN pending |-> pending[id]]
        /\ greeting' \in Replies /\ recognition' \in Recognitions
        /\ recognition'.phase = recognition.phase /\ recognition'.call = recognition.call
        /\ recognition'.phase # "waiting" => recognition'.reply = recognition.reply
    BY <1>1, <1>3, SettleFacts
  <1>5. pending' = <<>> /\ DOMAIN pending' = {}
    <2>1. DOMAIN pending \ DOMAIN pending = {}
      OBVIOUS
    <2> QED
      BY <1>4, <2>1
  <1>6. worker'.inbox \in Seq(Requests) /\ worker'.outbox \in Seq(Responses)
        /\ Len(worker'.inbox) = 0 /\ Len(worker'.outbox) = 0
    BY <1>2
  <1>7. Asked'
    BY <1>1, <1>3, <1>6, SettledStep
  <1> QED
    BY <1>1, <1>2, <1>4, <1>5, <1>7, NewRuntimeIsSound

-----------------------------------------------------------------------------
(* create *)

\* A request with a new id is posted.
LEMMA RequestFacts ==
  ASSUME IInv, NEW waiting, NEW type \in {"initialize", "run"},
         NEW call \in CallRecords \cup {NoRecognition}, Request(waiting, type, call)
  PROVE  /\ nextRequestId' \in Nat \ {0} /\ nextRequestId < nextRequestId'
         /\ pending' = [id \in DOMAIN pending' |-> pending'[id]]
         /\ DOMAIN pending' = DOMAIN pending \cup {nextRequestId}
         /\ \A id \in DOMAIN pending : pending'[id] = pending[id]
         /\ nextRequestId \notin DOMAIN pending /\ pending'[nextRequestId] = waiting
         /\ \A id \in DOMAIN pending' : id \in 1..(nextRequestId' - 1)
         /\ DOMAIN worker' = DOMAIN worker /\ worker'.alive = TRUE
         /\ worker'.runtime = worker.runtime /\ worker'.outbox = worker.outbox
         /\ worker'.inbox \in Seq(Requests)
         /\ \A k \in 1..Len(worker'.inbox) :
              \/ k \in 1..Len(worker.inbox) /\ worker'.inbox[k] = worker.inbox[k]
              \/ /\ worker'.inbox[k].requestId = nextRequestId
                 /\ worker'.inbox[k].type = type /\ worker'.inbox[k].call = call
  <1> DEFINE request == [requestId |-> nextRequestId, type |-> type, call |-> call]
  <1>1. /\ nextRequestId \in Nat \ {0} /\ worker.inbox \in Seq(Requests)
        /\ \A id \in DOMAIN pending : id \in 1..(nextRequestId - 1)
        /\ DOMAIN worker = {"alive", "started", "broken", "runtime", "inbox", "outbox"}
    BY DEF IInv, Shape
  <1>2. /\ pending' = [id \in DOMAIN pending \cup {nextRequestId} |->
                         IF id = nextRequestId THEN waiting ELSE pending[id]]
        /\ nextRequestId' = nextRequestId + 1
        /\ worker' = [worker EXCEPT !.alive = TRUE, !.inbox = Append(@, request)]
    BY DEF Request
  <1>3. nextRequestId \notin DOMAIN pending
    BY <1>1
  <1>4. request \in Requests
    BY <1>1 DEF Requests
  <1>5. request.requestId = nextRequestId /\ request.type = type /\ request.call = call
    OBVIOUS
  <1>6. /\ DOMAIN worker' = DOMAIN worker /\ worker'.alive = TRUE
        /\ worker'.runtime = worker.runtime /\ worker'.outbox = worker.outbox
        /\ worker'.inbox = Append(worker.inbox, request)
    BY <1>1, <1>2
  <1> HIDE DEF request
  <1>7. /\ DOMAIN pending' = DOMAIN pending \cup {nextRequestId}
        /\ pending' = [id \in DOMAIN pending' |-> pending'[id]]
        /\ \A id \in DOMAIN pending : pending'[id] = pending[id]
        /\ pending'[nextRequestId] = waiting
    BY <1>2, <1>3
  <1>8. \A id \in DOMAIN pending' : id \in 1..(nextRequestId' - 1)
    BY <1>1, <1>2, <1>7
  <1>9. /\ worker'.inbox \in Seq(Requests)
        /\ \A k \in 1..Len(worker'.inbox) :
             \/ k \in 1..Len(worker.inbox) /\ worker'.inbox[k] = worker.inbox[k]
             \/ worker'.inbox[k] = request
    BY <1>1, <1>4, <1>6, Enqueued
  <1>10. nextRequestId' \in Nat \ {0} /\ nextRequestId < nextRequestId'
    BY <1>1, <1>2
  <1> QED
    BY <1>3, <1>5, <1>6, <1>7, <1>8, <1>9, <1>10

\* The ids of the messages are those of requests already made.
LEMMA OldMessages ==
  ASSUME IInv
  PROVE  /\ \A k \in 1..Len(worker.inbox) : worker.inbox[k].requestId \in Nat
                                            /\ worker.inbox[k].requestId # nextRequestId
         /\ \A k \in 1..Len(worker.outbox) : worker.outbox[k].requestId \in Nat
                                             /\ worker.outbox[k].requestId # nextRequestId
  <1>1. Shape /\ Asked
    BY DEF IInv
  <1>2. nextRequestId \in Nat
    BY <1>1 DEF Shape
  <1>3. ASSUME NEW k \in 1..Len(worker.inbox)
        PROVE  worker.inbox[k].requestId \in Nat /\ worker.inbox[k].requestId < nextRequestId
    <2>1. worker.inbox[k] \in Requests
      BY <1>1 DEF Shape
    <2> QED
      BY <1>1, <2>1 DEF Requests, Asked
  <1>4. ASSUME NEW k \in 1..Len(worker.outbox)
        PROVE  worker.outbox[k].requestId \in Nat /\ worker.outbox[k].requestId < nextRequestId
    <2>1. worker.outbox[k] \in Responses
      BY <1>1 DEF Shape
    <2> QED
      BY <1>1, <2>1 DEF Responses, Asked
  <1> QED
    BY <1>2, <1>3, <1>4

LEMMA PageCreatesStep == IInv /\ PageCreates => IInv'
  <1> SUFFICES ASSUME IInv, PageCreates PROVE IInv'
    OBVIOUS
  <1>1. /\ creation = "none"
        /\ UNCHANGED <<state, attached, direct, recognition, greeting, calls, errors, destroyed>>
        /\ Shape /\ Instances /\ Phases /\ Asked /\ AnswersItsOwnCall
    BY DEF PageCreates, IInv
  <1>2. /\ ~worker.alive /\ ~attached /\ state = "CREATING" /\ recognition.phase = "none"
        /\ ~destroyed
    BY <1>1 DEF Phases, Shape, Recognitions
  <1>3. CASE creation' = "worker" /\ url' = TRUE /\ Request(Creator, "initialize", NoRecognition)
    <2>1. /\ nextRequestId' \in Nat \ {0} /\ nextRequestId < nextRequestId'
          /\ pending' = [id \in DOMAIN pending' |-> pending'[id]]
          /\ DOMAIN pending' = DOMAIN pending \cup {nextRequestId}
          /\ \A id \in DOMAIN pending : pending'[id] = pending[id]
          /\ nextRequestId \notin DOMAIN pending /\ pending'[nextRequestId] = Creator
          /\ \A id \in DOMAIN pending' : id \in 1..(nextRequestId' - 1)
          /\ DOMAIN worker' = DOMAIN worker /\ worker'.alive = TRUE
          /\ worker'.runtime = worker.runtime /\ worker'.outbox = worker.outbox
          /\ worker'.inbox \in Seq(Requests)
          /\ \A k \in 1..Len(worker'.inbox) :
               \/ k \in 1..Len(worker.inbox) /\ worker'.inbox[k] = worker.inbox[k]
               \/ /\ worker'.inbox[k].requestId = nextRequestId
                  /\ worker'.inbox[k].type = "initialize" /\ worker'.inbox[k].call = NoRecognition
      BY <1>3, RequestFacts
    <2>2. \A id : ~Mine(id)'
      BY <1>1, <1>2, <2>1 DEF Mine, Asked, Creator, Recogniser
    <2>3. Shape'
      BY <1>1, <1>3, <2>1 DEF Shape
    <2>4. Instances'
      BY <1>1, <1>2, <1>3, <2>1 DEF Instances
    <2>5. Phases'
      BY <1>1, <1>2, <1>3, <2>1 DEF Phases
    <2>6. Asked'
      <3>1. \A k \in 1..Len(worker'.inbox) :
              /\ worker'.inbox[k].requestId < nextRequestId'
              /\ worker'.inbox[k].type = "run" => worker'.inbox[k].call \in CallRecords
        <4> SUFFICES ASSUME NEW k \in 1..Len(worker'.inbox)
                     PROVE  /\ worker'.inbox[k].requestId < nextRequestId'
                            /\ worker'.inbox[k].type = "run" => worker'.inbox[k].call \in CallRecords
          OBVIOUS
        <4>1. CASE k \in 1..Len(worker.inbox) /\ worker'.inbox[k] = worker.inbox[k]
          <5>1. worker.inbox[k].requestId \in Nat /\ worker.inbox[k].requestId < nextRequestId
                /\ nextRequestId \in Nat /\ nextRequestId' \in Nat
            BY <1>1, <2>1, <4>1, OldMessages DEF Asked, Shape
          <5> QED
            BY <1>1, <2>1, <4>1, <5>1 DEF Asked
        <4> QED
          BY <2>1, <4>1
      <3>2. \A k \in 1..Len(worker'.outbox) : worker'.outbox[k].requestId < nextRequestId'
        <4> SUFFICES ASSUME NEW k \in 1..Len(worker.outbox)
                     PROVE  worker.outbox[k].requestId < nextRequestId'
          BY <2>1
        <4>1. worker.outbox[k].requestId \in Nat /\ worker.outbox[k].requestId < nextRequestId
              /\ nextRequestId \in Nat /\ nextRequestId' \in Nat
          BY <1>1, <2>1, OldMessages DEF Asked, Shape
        <4> QED
          BY <2>1, <4>1
      <3>3. ~recognition'.reply.settled
        BY <1>1, <1>2 DEF Phases
      <3> QED
        BY <2>2, <3>1, <3>2, <3>3 DEF Asked
    <2> QED
      BY <1>1, <2>3, <2>4, <2>5, <2>6 DEF IInv, AnswersItsOwnCall
  <1>4. CASE creation' = "loading" /\ UNCHANGED <<url, pending, nextRequestId, worker>>
    <2>1. Shape' /\ Asked' /\ AnswersItsOwnCall'
      BY <1>1, <1>4 DEF Shape, Asked, Mine, Right, AnswersItsOwnCall
    <2>2. Instances'
      BY <1>1, <1>4 DEF Instances
    <2>3. Phases'
      BY <1>1, <1>2, <1>4 DEF Phases
    <2> QED
      BY <2>1, <2>2, <2>3 DEF IInv
  <1> QED
    BY <1>3, <1>4 DEF PageCreates

LEMMA WorkerAnsweredStep == IInv /\ WorkerAnswered => IInv'
  <1> SUFFICES ASSUME IInv, WorkerAnswered PROVE IInv'
    OBVIOUS
  <1>1. /\ creation = "worker" /\ UNCHANGED <<attached, nextRequestId, calls, errors, destroyed>>
        /\ Shape /\ Instances /\ Phases /\ Asked /\ AnswersItsOwnCall
    BY DEF WorkerAnswered, IInv
  <1>2. /\ ~attached /\ state = "CREATING" /\ recognition.phase = "none" /\ ~destroyed
        /\ direct = NewRuntime
    BY <1>1 DEF Phases, Instances, Shape, Recognitions
  <1>3. CASE /\ ApplySnapshot(greeting)
             /\ url' = FALSE /\ state' = "READY" /\ creation' = "resolved"
             /\ UNCHANGED <<worker, pending, recognition, greeting>>
    <2>1. Shape' /\ Asked' /\ AnswersItsOwnCall'
      <3>1. Shape'
        BY <1>1, <1>3 DEF Shape
      <3>2. \A id : Mine(id)' <=> Mine(id)
        BY <1>3 DEF Mine
      <3>3. \A x : Right(x)' <=> Right(x)
        BY <1>1, <1>3 DEF Right
      <3>4. Asked'
        BY <1>1, <1>3, <3>2, <3>3 DEF Asked
      <3> QED
        BY <1>1, <3>1, <3>4 DEF AnswersItsOwnCall
    <2>2. Instances'
      <3>1. direct = [engine |-> direct.engine, buffers |-> direct.buffers,
                      sourceCapacity |-> direct.sourceCapacity]
        BY <1>1 DEF Instances
      <3>2. direct' = [engine |-> direct.engine, buffers |-> direct.buffers,
                       sourceCapacity |-> greeting.sourceCapacity]
        BY <1>3, <3>1 DEF ApplySnapshot
      <3>3. greeting.sourceCapacity \in Nat
        BY <1>1 DEF Shape, Replies
      <3>4. /\ direct'.engine = direct.engine /\ direct'.buffers = direct.buffers
            /\ direct'.sourceCapacity \in Nat
            /\ direct' = [engine |-> direct'.engine, buffers |-> direct'.buffers,
                          sourceCapacity |-> direct'.sourceCapacity]
        BY <3>2, <3>3
      <3> QED
        BY <1>1, <1>2, <1>3, <3>4 DEF Instances
    <2>3. Phases'
      BY <1>1, <1>2, <1>3 DEF Phases
    <2> QED
      BY <2>1, <2>2, <2>3 DEF IInv
  <1>4. CASE CloseWorker /\ creation' = "loading" /\ UNCHANGED <<state, direct>>
    <2>1. /\ Asked' /\ pending' = <<>> /\ DOMAIN pending' = {} /\ ~url' /\ url' \in BOOLEAN
          /\ worker'.alive = FALSE /\ worker'.inbox = <<>> /\ worker'.outbox = <<>>
          /\ DOMAIN worker' = {"alive", "started", "broken", "runtime", "inbox", "outbox"}
          /\ Runtime(worker'.runtime)
          /\ greeting' \in Replies /\ recognition' \in Recognitions
          /\ recognition'.phase = recognition.phase /\ recognition'.call = recognition.call
          /\ recognition'.phase # "waiting" => recognition'.reply = recognition.reply
      BY <1>1, <1>4, ClosedFacts
    <2>2. Shape'
      <3>1. worker'.inbox \in Seq(Requests) /\ worker'.outbox \in Seq(Responses)
        BY <2>1
      <3>2. pending' = [id \in DOMAIN pending' |-> pending'[id]]
        BY <2>1
      <3>3. worker'.alive \in BOOLEAN
        BY <2>1
      <3> QED
        BY <1>1, <1>4, <2>1, <3>1, <3>2, <3>3 DEF Shape
    <2>3. Instances'
      BY <1>1, <1>2, <1>4, <2>1 DEF Instances
    <2>4. Phases'
      BY <1>1, <1>2, <1>4, <2>1 DEF Phases
    <2> QED
      BY <1>1, <2>1, <2>2, <2>3, <2>4 DEF IInv, AnswersItsOwnCall
  <1> QED
    BY <1>3, <1>4 DEF WorkerAnswered

LEMMA LoadDirectStep == IInv /\ LoadDirect => IInv'
  <1> SUFFICES ASSUME IInv, LoadDirect PROVE IInv'
    OBVIOUS
  <1>1. /\ creation = "loading"
        /\ UNCHANGED <<url, worker, pending, nextRequestId, recognition, greeting, calls, errors>>
        /\ Shape /\ Instances /\ Phases /\ Asked /\ AnswersItsOwnCall
    BY DEF LoadDirect, IInv
  <1>2. /\ ~worker.alive /\ ~attached /\ recognition.phase = "none" /\ pending = <<>> /\ ~url
        /\ direct = NewRuntime
    BY <1>1 DEF Phases, Instances, Shape, Recognitions
  <1>3. Asked' /\ AnswersItsOwnCall'
    <2>1. \A id : Mine(id)' <=> Mine(id)
      BY <1>1 DEF Mine
    <2>2. \A x : Right(x)' <=> Right(x)
      BY <1>1 DEF Right
    <2> QED
      BY <1>1, <2>1, <2>2 DEF Asked, AnswersItsOwnCall
  <1>4. \/ \E steps \in InitSteps :
             /\ direct' = Opened(direct, steps) /\ attached' = TRUE
             /\ state' = "READY" /\ creation' = "resolved" /\ UNCHANGED destroyed
        \/ \E steps \in InitSteps :
             /\ direct' = Emptied(Opened(direct, steps)) /\ UNCHANGED attached
             /\ state' = "DESTROYED" /\ creation' = "rejected" /\ destroyed' = TRUE
        \/ /\ state' = "DESTROYED" /\ creation' = "rejected" /\ destroyed' = TRUE
           /\ UNCHANGED <<attached, direct>>
    BY DEF LoadDirect
  <1>5. ASSUME NEW steps \in InitSteps
        PROVE  /\ Runtime(Opened(direct, steps)) /\ Tight(Opened(direct, steps))
               /\ Opened(direct, steps).sourceCapacity \in Nat
    <2>1. Runtime(Opened(direct, steps)) /\ Tight(Opened(direct, steps))
      BY <1>2, NewRuntimeIsSound, OpenedIsSound
    <2> QED
      BY <2>1 DEF Runtime
  <1>6. CASE \E steps \in InitSteps :
               /\ direct' = Opened(direct, steps) /\ attached' = TRUE
               /\ state' = "READY" /\ creation' = "resolved" /\ UNCHANGED destroyed
    <2>1. /\ Runtime(direct') /\ Tight(direct') /\ attached' = TRUE
          /\ state' = "READY" /\ creation' = "resolved" /\ UNCHANGED destroyed
      BY <1>5, <1>6
    <2>2. Instances'
      BY <1>1, <2>1 DEF Instances, Runtime
    <2>3. Phases'
      BY <1>1, <1>2, <2>1 DEF Phases
    <2>4. Shape'
      BY <1>1, <2>1 DEF Shape
    <2> QED
      BY <1>3, <2>2, <2>3, <2>4 DEF IInv
  <1>7. CASE /\ attached' = attached
             /\ state' = "DESTROYED" /\ creation' = "rejected" /\ destroyed' = TRUE
             /\ direct' = direct \/ \E steps \in InitSteps : direct' = Emptied(Opened(direct, steps))
    <2>1. /\ direct'.engine = NewInstance /\ direct'.buffers = NoBuffers
          /\ direct'.sourceCapacity \in Nat
          /\ direct' = [engine |-> direct'.engine, buffers |-> direct'.buffers,
                        sourceCapacity |-> direct'.sourceCapacity]
      <3>1. CASE direct' = direct
        BY <1>1, <1>2, <3>1 DEF Instances
      <3>2. ASSUME NEW steps \in InitSteps, direct' = Emptied(Opened(direct, steps))
            PROVE  direct' = [engine |-> NewInstance, buffers |-> NoBuffers,
                              sourceCapacity |-> Opened(direct, steps).sourceCapacity]
        BY <1>5, <3>2, EmptiedFacts
      <3> QED
        BY <1>5, <1>7, <3>1, <3>2
    <2>2. Instances'
      BY <1>1, <1>2, <1>7, <2>1 DEF Instances
    <2>3. Phases'
      BY <1>1, <1>2, <1>7 DEF Phases
    <2>4. Shape'
      BY <1>1, <1>2, <1>7 DEF Shape
    <2> QED
      BY <1>3, <2>2, <2>3, <2>4 DEF IInv
  <1> QED
    BY <1>4, <1>6, <1>7

-----------------------------------------------------------------------------
(* recognize and destroy *)

LEMMA PageRecognizesStep ==
  ASSUME IInv, NEW image \in Images, NEW order \in ReadingOrders, PageRecognizes(image, order)
  PROVE  IInv'
  <1> DEFINE accepted == state = "READY"
             status == IF accepted THEN "open" ELSE "rejected"
             call == [image |-> image, order |-> order, lines |-> Garbage, status |-> status]
  <1>1. /\ creation = "resolved" /\ calls' = Append(calls, call)
        /\ state' = IF accepted THEN "RUNNING" ELSE state
        /\ recognition' = IF accepted
                          THEN [NoRecognition EXCEPT !.phase = "preparing", !.call = Len(calls) + 1]
                          ELSE recognition
        /\ UNCHANGED <<creation, url, worker, attached, direct, pending, nextRequestId, greeting,
                       errors, destroyed>>
        /\ Shape /\ Instances /\ Phases /\ Asked /\ AnswersItsOwnCall
    BY DEF PageRecognizes, IInv
  <1>2. call \in CallRecords /\ call.status = status /\ status \in {"open", "rejected"}
    BY DEF CallRecords, Lines
  <1> HIDE DEF call
  <1>3. /\ calls' \in Seq(CallRecords) /\ Len(calls) \in Nat /\ Len(calls') = Len(calls) + 1
        /\ calls'[Len(calls) + 1] = call
        /\ \A k \in 1..Len(calls) : calls'[k] = calls[k]
        /\ \A k \in 1..Len(calls') : k \in 1..Len(calls) \/ k = Len(calls) + 1
    BY <1>1, <1>2, Enqueued DEF Shape
  <1>4. CASE accepted
    <2>1. /\ recognition' \in Recognitions /\ recognition'.phase = "preparing"
          /\ recognition'.call = Len(calls) + 1 /\ ~recognition'.reply.settled
      <3>1. recognition' = [phase |-> "preparing", call |-> Len(calls) + 1, reply |-> NoReply]
        <4>1. recognition' = [NoRecognition EXCEPT !.phase = "preparing", !.call = Len(calls) + 1]
          BY <1>1, <1>4
        <4> QED
          BY <4>1 DEF NoRecognition
      <3> QED
        BY <1>3, <3>1, RepliesTyped DEF Recognitions
    <2>2. recognition.phase = "none" /\ ~destroyed
      BY <1>1, <1>4 DEF Phases, Shape, Recognitions
    <2>3. \A id : ~Mine(id)'
      BY <1>1, <2>2 DEF Asked, Mine
    <2>4. Shape'
      BY <1>1, <1>3, <1>4, <2>1 DEF Shape
    <2>5. Instances'
      BY <1>1 DEF Instances
    <2>6. Phases'
      BY <1>1, <1>2, <1>3, <1>4, <2>1, <2>2 DEF Phases
    <2>7. Asked'
      BY <1>1, <2>1, <2>3 DEF Asked
    <2>8. AnswersItsOwnCall'
      BY <1>1, <1>2, <1>3 DEF AnswersItsOwnCall, Shape
    <2> QED
      BY <2>4, <2>5, <2>6, <2>7, <2>8 DEF IInv
  <1>5. CASE ~accepted
    <2>1. UNCHANGED <<state, recognition>>
      BY <1>1, <1>5
    <2>2. \A id : Mine(id)' <=> Mine(id)
      BY <1>1 DEF Mine
    <2>3. recognition.phase # "none" =>
            recognition.call \in 1..Len(calls) /\ calls'[recognition.call] = calls[recognition.call]
            /\ recognition.call \in 1..Len(calls')
      BY <1>1, <1>3 DEF Phases
    <2>4. recognition.phase # "none" => \A x : Right(x)' <=> Right(x)
      BY <2>1, <2>3 DEF Right
    <2>5. Shape'
      BY <1>1, <1>3, <2>1 DEF Shape
    <2>6. Instances'
      BY <1>1 DEF Instances
    <2>7. Phases'
      BY <1>1, <2>1, <2>3 DEF Phases
    <2>8. Asked'
      <3>1. CASE recognition.phase = "none"
        <4>1. (\A id : ~Mine(id)) /\ ~recognition.reply.settled
          BY <1>1, <3>1 DEF Asked, Mine, Phases
        <4> QED
          BY <1>1, <2>1, <2>2, <4>1 DEF Asked
      <3>2. CASE recognition.phase # "none"
        <4>1. calls'[recognition.call] = calls[recognition.call]
          BY <2>3, <3>2
        <4> QED
          BY <1>1, <2>1, <2>2, <2>4, <3>2, <4>1 DEF Asked
      <3> QED
        BY <3>1, <3>2
    <2>9. AnswersItsOwnCall'
      BY <1>1, <1>2, <1>3 DEF AnswersItsOwnCall, Shape
    <2> QED
      BY <2>5, <2>6, <2>7, <2>8, <2>9 DEF IInv
  <1> QED
    BY <1>4, <1>5

\* A recognize settles: its call has its outcome, and nothing is under way.
LEMMA FinishStep ==
  ASSUME IInv, recognition.phase # "none", NEW reply \in Replies, Right(reply), Finish(reply),
         \A id : ~Mine(id), Instances',
         UNCHANGED <<creation, url, worker, attached, pending, nextRequestId, greeting,
                     errors, destroyed>>
  PROVE  IInv'
  <1> DEFINE c == recognition.call
             status == IF reply.ok THEN "resolved" ELSE "rejected"
  <1>1. /\ state' = SettledState /\ recognition' = NoRecognition
        /\ calls' = [calls EXCEPT ![c].status = status, ![c].lines = reply.lines]
        /\ Shape /\ Phases /\ Asked /\ AnswersItsOwnCall
    BY DEF Finish, IInv
  <1>2. /\ c \in 1..Len(calls) /\ calls \in Seq(CallRecords) /\ calls[c] \in CallRecords
        /\ DOMAIN calls = 1..Len(calls)
    BY <1>1 DEF Phases, Shape
  <1> HIDE DEF c
  <1>3. /\ recognition' \in Recognitions /\ recognition'.phase = "none"
        /\ ~recognition'.reply.settled
    BY <1>1, RepliesTyped DEF NoRecognition, Recognitions
  <1>4. PICK mid : mid = [calls EXCEPT ![c].status = status]
    OBVIOUS
  <1>5. calls' = [mid EXCEPT ![c].lines = reply.lines]
    BY <1>1, <1>4
  <1>6. status \in {"open", "resolved", "rejected"} /\ reply.lines \in Lines
        /\ (status = "resolved" <=> reply.ok)
    BY DEF Replies
  <1> HIDE DEF status
  <1>7. calls[c] = [image |-> calls[c].image, order |-> calls[c].order, lines |-> calls[c].lines,
                    status |-> calls[c].status]
    BY <1>2 DEF CallRecords
  <1>8. /\ mid[c] = [image |-> calls[c].image, order |-> calls[c].order, lines |-> calls[c].lines,
                     status |-> status]
        /\ DOMAIN mid = DOMAIN calls
        /\ \A k \in DOMAIN calls : k # c => mid[k] = calls[k]
    BY <1>2, <1>4, <1>7
  <1>9. mid \in Seq(CallRecords) /\ Len(mid) = Len(calls)
    <2>1. mid[c] \in CallRecords
      BY <1>2, <1>6, <1>8 DEF CallRecords
    <2>2. mid = [calls EXCEPT ![c] = mid[c]]
      BY <1>2, <1>4
    <2> QED
      BY <1>2, <2>1, <2>2
  <1>10. /\ calls'[c] = [image |-> calls[c].image, order |-> calls[c].order, lines |-> reply.lines,
                         status |-> status]
         /\ \A k \in DOMAIN calls : k # c => calls'[k] = calls[k]
    <2>1. c \in DOMAIN mid /\ DOMAIN mid = DOMAIN calls
      BY <1>2, <1>8
    <2>2. \A k \in DOMAIN calls : k # c => calls'[k] = mid[k]
      BY <1>5, <2>1
    <2>3. calls'[c] = [mid[c] EXCEPT !.lines = reply.lines]
      BY <1>5, <2>1
    <2> QED
      BY <1>8, <2>2, <2>3
  <1>11. calls' \in Seq(CallRecords) /\ Len(calls') = Len(calls)
    <2>1. calls'[c] \in CallRecords
      BY <1>2, <1>6, <1>10 DEF CallRecords
    <2>2. calls' = [mid EXCEPT ![c] = calls'[c]]
      BY <1>2, <1>5, <1>8
    <2> QED
      BY <1>2, <1>9, <2>1, <2>2
  <1>12. AnswersItsOwnCall'
    <2> SUFFICES ASSUME NEW k \in DOMAIN calls', calls'[k].status = "resolved"
                 PROVE  calls'[k].lines = <<calls'[k].image, calls'[k].order>>
      BY DEF AnswersItsOwnCall
    <2>1. k \in DOMAIN calls
      BY <1>2, <1>11
    <2>2. CASE k = c
      BY <1>6, <1>10, <2>2 DEF Right, c
    <2>3. CASE k # c
      BY <1>1, <1>10, <2>1, <2>3 DEF AnswersItsOwnCall
    <2> QED
      BY <2>2, <2>3
  <1>13. state' \in {"READY", "DESTROYED"} /\ (state' = "DESTROYED" <=> state = "DESTROYED")
    BY <1>1 DEF SettledState
  <1>14. Shape'
    BY <1>1, <1>3, <1>11, <1>13 DEF Shape
  <1>15. Phases'
    BY <1>1, <1>3, <1>13 DEF Phases
  <1>16. Asked'
    <2>1. \A id : ~Mine(id)'
      BY DEF Mine
    <2> QED
      BY <1>1, <1>3, <2>1 DEF Asked
  <1> QED
    BY <1>12, <1>14, <1>15, <1>16 DEF IInv

LEMMA PrepareFailsStep == IInv /\ PrepareFails => IInv'
  <1> SUFFICES ASSUME IInv, PrepareFails PROVE IInv'
    OBVIOUS
  <1>1. /\ recognition.phase = "preparing" /\ Finish(Failure)
        /\ UNCHANGED <<creation, url, worker, attached, direct, pending, nextRequestId, greeting,
                       errors, destroyed>>
    BY DEF PrepareFails
  <1>2. Failure \in Replies /\ Right(Failure)
    BY RepliesTyped DEF Right
  <1>3. \A id : ~Mine(id)
    BY <1>1 DEF IInv, Asked, Mine
  <1>4. Instances'
    BY <1>1 DEF IInv, Instances
  <1> QED
    BY <1>1, <1>2, <1>3, <1>4, FinishStep

LEMMA RunDirectStep == IInv /\ RunDirect => IInv'
  <1> SUFFICES ASSUME IInv, RunDirect PROVE IInv'
    OBVIOUS
  <1>1. /\ recognition.phase = "preparing"
        /\ UNCHANGED <<creation, url, worker, attached, pending, nextRequestId, greeting,
                       errors, destroyed>>
        /\ Shape /\ Instances /\ Phases /\ Asked
    BY DEF RunDirect, IInv
  <1>2. PICK result \in IF attached THEN RunResults(direct, calls[recognition.call])
                        ELSE {<<direct, Failure>>} :
          direct' = result[1] /\ Finish(result[2])
    BY DEF RunDirect
  <1>3. \A id : ~Mine(id)
    BY <1>1 DEF Asked, Mine
  <1>4. calls[recognition.call] \in CallRecords /\ creation = "resolved"
    BY <1>1 DEF Phases, Shape
  <1>5. CASE attached
    <2>1. /\ Runtime(result[1]) /\ Tight(result[1]) /\ result[2] \in Replies
          /\ result[2].ok =>
               result[2].lines = <<calls[recognition.call].image, calls[recognition.call].order>>
      BY <1>1, <1>2, <1>4, <1>5, RunIsSound DEF Instances
    <2>2. Right(result[2])
      BY <2>1 DEF Right
    <2>3. Instances'
      BY <1>1, <1>2, <1>4, <1>5, <2>1 DEF Instances, Runtime
    <2> QED
      BY <1>1, <1>2, <1>3, <2>1, <2>2, <2>3, FinishStep
  <1>6. CASE ~attached
    <2>1. result[1] = direct /\ result[2] = Failure
      BY <1>2, <1>6
    <2>2. Failure \in Replies /\ Right(Failure)
      BY RepliesTyped DEF Right
    <2>3. Instances'
      BY <1>1, <1>2, <2>1 DEF Instances
    <2> QED
      BY <1>1, <1>2, <1>3, <2>1, <2>2, <2>3, FinishStep
  <1> QED
    BY <1>5, <1>6

LEMMA RunAnsweredStep == IInv /\ RunAnswered => IInv'
  <1> SUFFICES ASSUME IInv, RunAnswered PROVE IInv'
    OBVIOUS
  <1> DEFINE reply == recognition.reply
  <1>1. /\ recognition.phase = "waiting" /\ reply.settled /\ Finish(reply)
        /\ IF reply.ok THEN ApplySnapshot(reply) ELSE UNCHANGED direct
        /\ UNCHANGED <<creation, url, worker, attached, pending, nextRequestId, greeting,
                       errors, destroyed>>
        /\ Shape /\ Instances /\ Phases /\ Asked
    BY DEF RunAnswered, IInv
  <1>2. reply \in Replies /\ Right(reply) /\ ~attached /\ creation = "resolved"
    BY <1>1 DEF Shape, Recognitions, Asked, Phases
  <1>3. \A id : ~Mine(id)
    BY <1>1 DEF Asked, Mine
  <1>4. Instances'
    <2>1. CASE direct' = direct
      BY <1>1, <2>1 DEF Instances
    <2>2. CASE ApplySnapshot(reply)
      <3>1. direct = [engine |-> direct.engine, buffers |-> direct.buffers,
                      sourceCapacity |-> direct.sourceCapacity]
        BY <1>1 DEF Instances
      <3>2. direct' = [engine |-> direct.engine, buffers |-> direct.buffers,
                       sourceCapacity |-> reply.sourceCapacity]
        BY <2>2, <3>1 DEF ApplySnapshot
      <3>3. reply.sourceCapacity \in Nat
        BY <1>2 DEF Replies
      <3>4. /\ direct'.engine = direct.engine /\ direct'.buffers = direct.buffers
            /\ direct'.sourceCapacity \in Nat
            /\ direct' = [engine |-> direct'.engine, buffers |-> direct'.buffers,
                          sourceCapacity |-> direct'.sourceCapacity]
        BY <3>2, <3>3
      <3> QED
        BY <1>1, <1>2, <3>4 DEF Instances
    <2> QED
      BY <1>1, <2>1, <2>2
  <1> HIDE DEF reply
  <1> QED
    BY <1>1, <1>2, <1>3, <1>4, FinishStep

LEMMA PostRunStep == IInv /\ PostRun => IInv'
  <1> SUFFICES ASSUME IInv, PostRun PROVE IInv'
    OBVIOUS
  <1> DEFINE call == calls[recognition.call]
  <1>1. /\ recognition.phase = "preparing" /\ worker.alive /\ Request(Recogniser, "run", call)
        /\ recognition' = [recognition EXCEPT !.phase = "waiting"]
        /\ UNCHANGED <<state, creation, url, attached, direct, greeting, calls, errors, destroyed>>
        /\ Shape /\ Instances /\ Phases /\ Asked /\ AnswersItsOwnCall
    BY DEF PostRun, IInv
  <1>2. call \in CallRecords /\ creation = "resolved" /\ ~attached
    BY <1>1 DEF Phases, Shape
  <1>3. /\ recognition' \in Recognitions /\ recognition'.phase = "waiting"
        /\ recognition'.call = recognition.call /\ recognition'.reply = recognition.reply
        /\ ~recognition.reply.settled
    BY <1>1 DEF Shape, Recognitions, Phases
  <1>4. /\ call.image = calls'[recognition'.call].image
        /\ call.order = calls'[recognition'.call].order
    BY <1>1, <1>3
  <1> HIDE DEF call
  <1>5. /\ nextRequestId' \in Nat \ {0} /\ nextRequestId < nextRequestId'
        /\ pending' = [id \in DOMAIN pending' |-> pending'[id]]
        /\ DOMAIN pending' = DOMAIN pending \cup {nextRequestId}
        /\ \A id \in DOMAIN pending : pending'[id] = pending[id]
        /\ nextRequestId \notin DOMAIN pending /\ pending'[nextRequestId] = Recogniser
        /\ \A id \in DOMAIN pending' : id \in 1..(nextRequestId' - 1)
        /\ DOMAIN worker' = DOMAIN worker /\ worker'.alive = TRUE
        /\ worker'.runtime = worker.runtime /\ worker'.outbox = worker.outbox
        /\ worker'.inbox \in Seq(Requests)
        /\ \A k \in 1..Len(worker'.inbox) :
             \/ k \in 1..Len(worker.inbox) /\ worker'.inbox[k] = worker.inbox[k]
             \/ /\ worker'.inbox[k].requestId = nextRequestId
                /\ worker'.inbox[k].type = "run" /\ worker'.inbox[k].call = call
    BY <1>1, <1>2, RequestFacts
  <1>6. \A id : id \in DOMAIN pending' /\ pending'[id] = Recogniser => id = nextRequestId
    BY <1>1, <1>5 DEF Mine, Asked
  <1>7. Shape'
    BY <1>1, <1>3, <1>5 DEF Shape
  <1>8. Instances'
    BY <1>1, <1>2, <1>5 DEF Instances
  <1>9. Phases'
    BY <1>1, <1>2, <1>3, <1>5 DEF Phases
  <1>10. nextRequestId \in Nat /\ nextRequestId' \in Nat
    BY <1>1, <1>5 DEF Shape
  <1>11. ASSUME NEW k \in 1..Len(worker'.inbox)
         PROVE  /\ worker'.inbox[k].requestId < nextRequestId'
                /\ worker'.inbox[k].type = "run" => worker'.inbox[k].call \in CallRecords
                /\ worker'.inbox[k].requestId = nextRequestId =>
                     worker'.inbox[k].type = "run" /\ worker'.inbox[k].call = call
    <2>1. CASE k \in 1..Len(worker.inbox) /\ worker'.inbox[k] = worker.inbox[k]
      <3>1. worker.inbox[k].requestId \in Nat /\ worker.inbox[k].requestId < nextRequestId
            /\ worker.inbox[k].requestId # nextRequestId
        BY <1>1, <2>1, OldMessages DEF Asked
      <3>2. worker'.inbox[k].requestId < nextRequestId'
        BY <1>5, <1>10, <2>1, <3>1
      <3> QED
        BY <1>1, <2>1, <3>1, <3>2 DEF Asked
    <2>2. CASE /\ worker'.inbox[k].requestId = nextRequestId
               /\ worker'.inbox[k].type = "run" /\ worker'.inbox[k].call = call
      BY <1>2, <1>5, <2>2
    <2> QED
      BY <1>5, <2>1, <2>2
  <1>12. ASSUME NEW k \in 1..Len(worker'.outbox)
         PROVE  /\ worker'.outbox[k].requestId < nextRequestId'
                /\ worker'.outbox[k].requestId # nextRequestId
    <2>1. worker.outbox[k].requestId \in Nat /\ worker.outbox[k].requestId < nextRequestId
          /\ worker.outbox[k].requestId # nextRequestId /\ worker'.outbox[k] = worker.outbox[k]
      BY <1>1, <1>5, OldMessages DEF Asked
    <2> QED
      BY <1>5, <1>10, <2>1
  <1>13. Asked'
    <2>1. \A id \in DOMAIN pending' : pending'[id] = Recogniser =>
            /\ recognition'.phase = "waiting" /\ ~recognition'.reply.settled
            /\ \A other \in DOMAIN pending' : pending'[other] = Recogniser => other = id
      BY <1>3, <1>6
    <2>2. \A k \in 1..Len(worker'.inbox) :
            /\ worker'.inbox[k].requestId < nextRequestId'
            /\ worker'.inbox[k].type = "run" => worker'.inbox[k].call \in CallRecords
            /\ worker'.inbox[k].requestId = nextRequestId =>
                 /\ worker'.inbox[k].type = "run"
                 /\ worker'.inbox[k].call.image = calls'[recognition'.call].image
                 /\ worker'.inbox[k].call.order = calls'[recognition'.call].order
      BY <1>4, <1>11
    <2>3. ~recognition'.reply.settled
      BY <1>3
    <2> QED
      BY <1>6, <1>12, <2>1, <2>2, <2>3 DEF Asked, Mine
  <1> QED
    BY <1>1, <1>7, <1>8, <1>9, <1>13 DEF IInv, AnswersItsOwnCall

LEMMA PageDestroysStep == IInv /\ PageDestroys => IInv'
  <1> SUFFICES ASSUME IInv, PageDestroys PROVE IInv'
    OBVIOUS
  <1>1. /\ creation = "resolved" /\ state # "DESTROYED" /\ CloseWorker
        /\ attached' = FALSE /\ direct' = IF attached THEN Emptied(direct) ELSE direct
        /\ state' = "DESTROYED" /\ destroyed' = TRUE
        /\ UNCHANGED <<creation, nextRequestId, calls, errors>>
        /\ Shape /\ Instances /\ Phases /\ AnswersItsOwnCall
    BY DEF PageDestroys, IInv
  <1>2. /\ Asked' /\ pending' = <<>> /\ DOMAIN pending' = {} /\ ~url' /\ url' \in BOOLEAN
        /\ worker'.alive = FALSE /\ worker'.inbox = <<>> /\ worker'.outbox = <<>>
        /\ DOMAIN worker' = {"alive", "started", "broken", "runtime", "inbox", "outbox"}
        /\ Runtime(worker'.runtime)
        /\ greeting' \in Replies /\ recognition' \in Recognitions
        /\ recognition'.phase = recognition.phase /\ recognition'.call = recognition.call
        /\ recognition'.phase # "waiting" => recognition'.reply = recognition.reply
    BY <1>1, ClosedFacts
  <1>3. Shape'
    <2>1. worker'.inbox \in Seq(Requests) /\ worker'.outbox \in Seq(Responses)
      BY <1>2
    <2>2. pending' = [id \in DOMAIN pending' |-> pending'[id]]
      BY <1>2
    <2>3. worker'.alive \in BOOLEAN
      BY <1>2
    <2> QED
      BY <1>1, <1>2, <2>1, <2>2, <2>3 DEF Shape
  <1>4. Instances'
    <2>1. /\ direct'.engine = NewInstance /\ direct'.buffers = NoBuffers
          /\ direct'.sourceCapacity \in Nat
          /\ direct' = [engine |-> direct'.engine, buffers |-> direct'.buffers,
                        sourceCapacity |-> direct'.sourceCapacity]
      <3>1. CASE attached
        <4>1. direct' = [engine |-> NewInstance, buffers |-> NoBuffers,
                         sourceCapacity |-> direct.sourceCapacity]
          BY <1>1, <3>1, EmptiedFacts DEF Instances
        <4> QED
          BY <1>1, <4>1 DEF Instances
      <3>2. CASE ~attached
        BY <1>1, <3>2 DEF Instances
      <3> QED
        BY <3>1, <3>2
    <2> QED
      BY <1>1, <1>2, <2>1 DEF Instances
  <1>5. Phases'
    BY <1>1, <1>2 DEF Phases
  <1> QED
    BY <1>1, <1>2, <1>3, <1>4, <1>5 DEF IInv, AnswersItsOwnCall

-----------------------------------------------------------------------------
(* The theorems *)

LEMMA StepInvariant == IInv /\ [Next]_vars => IInv'
  <1> SUFFICES ASSUME IInv, [Next]_vars PROVE IInv'
    OBVIOUS
  <1>1. CASE WorkerInitialize
    BY <1>1, WorkerInitializeStep
  <1>2. CASE WorkerRun
    BY <1>2, WorkerRunStep
  <1>3. CASE OnMessage
    BY <1>3, OnMessageStep
  <1>4. CASE OnError
    BY <1>4, OnErrorStep
  <1>5. CASE PageCreates
    BY <1>5, PageCreatesStep
  <1>6. CASE WorkerAnswered
    BY <1>6, WorkerAnsweredStep
  <1>7. CASE LoadDirect
    BY <1>7, LoadDirectStep
  <1>8. CASE \E image \in Images, order \in ReadingOrders : PageRecognizes(image, order)
    BY <1>8, PageRecognizesStep
  <1>9. CASE PrepareFails
    BY <1>9, PrepareFailsStep
  <1>10. CASE PostRun
    BY <1>10, PostRunStep
  <1>11. CASE RunDirect
    BY <1>11, RunDirectStep
  <1>12. CASE RunAnswered
    BY <1>12, RunAnsweredStep
  <1>13. CASE PageDestroys
    BY <1>13, PageDestroysStep
  <1>14. CASE UNCHANGED vars
    <2>1. UNCHANGED <<state, creation, url, attached, direct, pending, nextRequestId, recognition,
                      greeting, worker, calls, errors, destroyed>>
      BY <1>14 DEF vars, main
    <2>2. \A id : Mine(id)' <=> Mine(id)
      BY <2>1 DEF Mine
    <2>3. \A x : Right(x)' <=> Right(x)
      BY <2>1 DEF Right
    <2>4. Shape' /\ Instances' /\ Phases' /\ AnswersItsOwnCall'
      BY <2>1 DEF IInv, Shape, Instances, Phases, AnswersItsOwnCall
    <2>5. Asked'
      BY <2>1, <2>2, <2>3 DEF IInv, Asked
    <2> QED
      BY <2>4, <2>5 DEF IInv
  <1> QED
    BY <1>1, <1>2, <1>3, <1>4, <1>5, <1>6, <1>7, <1>8, <1>9, <1>10, <1>11, <1>12, <1>13, <1>14
    DEF Next

LEMMA Invariant == Spec => []IInv
  BY InitInvariant, StepInvariant, PTL DEF Spec

\* A recognize of the page that resolves has the lines of its own image in its own
\* reading order, whichever thread ran it and whatever else was posted, failed or was
\* given up meanwhile (the request ids of _workerRequest and the fresh buffers of run).
THEOREM OwnLines == Spec => []AnswersItsOwnCall
  <1>1. IInv => AnswersItsOwnCall
    BY DEF IInv
  <1> QED
    BY Invariant, <1>1, PTL

\* Once destroy has run, or create has rejected, no step leaves anything of the engine:
\* no worker, no module, no buffer, no request that waits, no state but DESTROYED.
THEOREM NothingOutlivesDestroy == Spec => []DestroyedIsFinal
  <1>1. IInv => DestroyedIsFinal
    BY DEF IInv, Instances, Phases, DestroyedIsFinal, NewInstance
  <1> QED
    BY Invariant, <1>1, PTL
==============================================================================
