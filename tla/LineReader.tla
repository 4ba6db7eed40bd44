------------------------------ MODULE LineReader ------------------------------
(***************************************************************************)
(* The end of the recognizer: from the features of a text line to its text *)
(* (ppocr/recognizer.c, runtime/executor.c, ppocr/ctc_decode.c and the     *)
(* kernels of the last three nodes: MatMul, Add and Softmax).              *)
(*                                                                         *)
(* Several ways lead to the same text.  The projection may be plain or     *)
(* packed in column panels; on AVX2 it may be fused with the addition of   *)
(* the bias and the choice of the best class; the Softmax may be evaluated *)
(* for every class or only where a character is emitted; the text may be   *)
(* decoded from probabilities or from best classes; and its length may be  *)
(* measured by a pass of its own or taken to fit the caller's buffer.      *)
(*                                                                         *)
(* Logits are integers.  A probability is kept as what it is computed      *)
(* from: the logit and the row of logits, both less the row's maximum.     *)
(* Class 0 is the blank, the last one the space.                           *)
(*                                                                         *)
(* At a spoiled step some logit is infinite or no number at all, because a *)
(* feature, a weight or a sum was.  Which class is then best, and whether  *)
(* a Softmax term comes out as a number, depends on the value, its column  *)
(* and the lanes of the kernel: it is any class, and either of the two.    *)
(***************************************************************************)
EXTENDS Integers, Sequences, FiniteSets

CONSTANTS
  LabelLengths,                    \* the bytes of each entry of the dictionary
  Lanes, ColumnTile,               \* 8 floats of a vector, 16 columns of a panel
  MinPackedInner, MinPackedColumns, \* 64 and 1024
  LineLevels,                      \* bound: the vector levels
  Graphs,                          \* bound: the recognizer models
  Lines,                           \* bound: the lines, sequences of features
  Spoilings,                       \* bound: the spoiled steps of a line
  TextCapacities,                  \* bound: the sizes of the callers' buffers
  MaxSteps                         \* time steps of the widest line

ASSUME LineReaderAssumption ==
  /\ LabelLengths \in Seq(Nat) /\ \E i \in DOMAIN LabelLengths : LabelLengths[i] # 0
  /\ {Lanes, ColumnTile, MinPackedInner, MinPackedColumns} \subseteq Nat \ {0}
  /\ LineLevels \subseteq {"scalar", "sse2", "avx2"}
  /\ Spoilings \subseteq SUBSET Nat /\ TextCapacities \subseteq Nat /\ MaxSteps \in Nat
  /\ \A line \in Lines : line \in Seq(Seq(Int)) /\ Len(line) \in 1..MaxSteps

VARIABLES
  graph,  \* inner, weights, bias; terminalSoftmax, constantWeights, constantBias
  level,  \* lw_detect_simd_level
  reading \* the last call: its line, the spoiled steps, its request and its answer

lineVars == <<graph, level, reading>>

ClassCount == Len(LabelLengths) + 2
Classes == 0..ClassCount - 1
Smaller(m, n) == IF m < n THEN m ELSE n

\* The shapes that loading a model and creating a session for a line have checked.
IsModel(g) ==
  /\ {"inner", "weights", "bias", "terminalSoftmax", "constantWeights", "constantBias"}
       \subseteq DOMAIN g
  /\ g.inner \in Nat \ {0}
  /\ g.weights \in [0..g.inner * ClassCount - 1 -> Int] /\ g.bias \in [Classes -> Int]
  /\ {g.terminalSoftmax, g.constantWeights, g.constantBias} \subseteq BOOLEAN
  /\ \A line \in Lines : \A t \in DOMAIN line : Len(line[t]) = g.inner

ASSUME ModelAssumption == \A g \in Graphs : IsModel(g)

Ext == INSTANCE SequencesExt

\* Value f[0] + ... + f[n - 1].
Total(n, f) == LET sum[i \in 0..n] == IF i = 0 THEN 0 ELSE sum[i - 1] + f[i - 1] IN sum[n]

-----------------------------------------------------------------------------
(* The projection.  A matrix is a function of its addresses, row by row. *)

\* One column of a row of the product, from the weights at the given addresses.
Accumulated(features, inner, weights, At(_)) ==
  Total(inner, [i \in 0..inner - 1 |-> features[i + 1] * weights[At(i)]])

\* scalar_matmul_shared_f32 and the SSE2 and AVX2 ones.
SharedElement(g, features, column) ==
  Accumulated(features, g.inner, g.weights, LAMBDA i : i * ClassCount + column)

\* lw_avx2_matmul_rows4_tiled_f32: the last tile may hold fewer columns.
TiledElement(g, features, column) ==
  LET start == column - (column % Lanes)
      width == Smaller(ClassCount - start, Lanes)
      tile(i) == [lane \in 0..Lanes - 1 |->
                    IF lane < width THEN g.weights[i * ClassCount + start + lane] ELSE 0]
  IN Total(g.inner, [i \in 0..g.inner - 1 |-> features[i + 1] * tile(i)[column - start]])

Panels == (ClassCount + ColumnTile - 1) \div ColumnTile

\* lw_pack_matmul_weights_f32
PackedWeights(g) ==
  [address \in 0..Panels * g.inner * ColumnTile - 1 |->
     LET column == (address \div (g.inner * ColumnTile)) * ColumnTile + (address % ColumnTile)
         inner == (address \div ColumnTile) % g.inner
     IN IF column < ClassCount THEN g.weights[inner * ClassCount + column] ELSE 0]

PackedElement(g, features, column) ==
  LET panel == column \div ColumnTile
      lane == column % ColumnTile
  IN Accumulated(features, g.inner, PackedWeights(g),
                 LAMBDA i : (panel * g.inner + i) * ColumnTile + lane)

\* prepared_matmul_node
Tileable(g, line) ==
  /\ Len(line) >= 4 /\ Len(line) % 4 = 0
  /\ g.inner >= MinPackedInner /\ ClassCount >= MinPackedColumns
Prepared(g, line) == level = "avx2" /\ g.constantWeights /\ Tileable(g, line)

\* LW_OP_MATMUL followed by LW_OP_ADD.
Logits(g, line) ==
  [t \in DOMAIN line |-> [c \in Classes |->
     g.bias[c] + (IF Prepared(g, line) THEN PackedElement(g, line[t], c)
                  ELSE IF level = "avx2" /\ Tileable(g, line) THEN TiledElement(g, line[t], c)
                  ELSE SharedElement(g, line[t], c))]]

\* Mutant of KeptValue: every panel starts from zero.
ForgottenValue(row, panel, best) == IF panel = 0 THEN row[0] ELSE 0

\* The best value when a panel begins: read back from the output.
KeptValue(row, panel, best) == IF panel = 0 THEN row[0] ELSE row[best]

\* The best class of a row, panel by panel: lw_avx2_packed_matmul_bias_argmax_f32.
FusedBest(row) ==
  LET Scan(state, c) ==
        IF row[c] > state.value THEN [value |-> row[c], best |-> c] ELSE state
      InPanel(panel, best) ==
        LET base == panel * ColumnTile
            count == Smaller(ClassCount - base, ColumnTile)
            scanned[n \in 0..count] ==
              IF n = 0 THEN [value |-> KeptValue(row, panel, best), best |-> best]
              ELSE Scan(scanned[n - 1], base + n - 1)
        IN scanned[count].best
      found[p \in 0..Panels] == IF p = 0 THEN 0 ELSE InPanel(p - 1, found[p - 1])
  IN found[Panels]

-----------------------------------------------------------------------------
(* Softmax *)

\* The first largest entry of a row: the loops which compare with >.
FirstBest(row) ==
  LET best[c \in Classes] ==
        IF c = 0 THEN 0
        ELSE LET before == best[c - 1] IN IF row[c] > row[before] THEN c ELSE before
  IN best[ClassCount - 1]

\* exp(row[c] - maximum) over the sum of such terms.
Probability(row, c, maximum) ==
  [logit |-> row[c] - maximum, row |-> [d \in Classes |-> row[d] - maximum]]
NoProbability == [logit |-> 0, row |-> [d \in Classes |-> 0]]

\* lw_scalar_softmax_f32 and lw_avx2_softmax_contiguous_f32.
Softmax(row) == [c \in Classes |-> Probability(row, c, row[FirstBest(row)])]

\* Where a character is emitted: no blank, and no repetition.
Emitted(best, t) == best[t] # 0 /\ (t = 1 \/ best[t] # best[t - 1])

\* lw_ctc_emitted_softmax_contiguous_f32
EmittedSoftmax(logits, best) ==
  [t \in DOMAIN logits |->
     IF Emitted(best, t) THEN Probability(logits[t], best[t], logits[t][best[t]])
     ELSE NoProbability]

\* ctc_greedy_tail and match_packed_ctc_projection
GreedyTail(g) == g.terminalSoftmax
Fused(g, line) == GreedyTail(g) /\ Prepared(g, line) /\ g.constantBias

\* What the kernels make of spoiled steps.
Outcomes(spoiled) == [spoiled -> [best : Classes, finite : BOOLEAN]]
Spoil(best, outcome) ==
  [t \in DOMAIN best |-> IF t \in DOMAIN outcome THEN outcome[t].best ELSE best[t]]

\* lw_execute_session_f32_ctc_greedy: where nothing is emitted the value is zero.
GreedyClasses(g, line, logits, outcome) ==
  LET best == Spoil([t \in DOMAIN line |->
                       IF Fused(g, line) THEN FusedBest(logits[t]) ELSE FirstBest(logits[t])],
                    outcome)
  IN [best |-> best, value |-> EmittedSoftmax(logits, best),
      finite |-> [t \in DOMAIN best |->
                    t \in DOMAIN outcome /\ Emitted(best, t) => outcome[t].finite]]

\* lw_ctc_greedy_softmax_contiguous_f32 looks at every logit before it takes any.
LogitsChecked(g, line) == GreedyTail(g) /\ ~Fused(g, line)

-----------------------------------------------------------------------------
(* CTC decoding: decode_pass and decode_greedy_pass *)

Nul == <<0, 0>>
Untouched == <<0, 1>>
LabelBytes(c) == [k \in 1..(IF c = ClassCount - 1 THEN 1 ELSE LabelLengths[c]) |-> <<c, k>>]
MaxLabelBytes ==
  LET lengths == {LabelLengths[i] : i \in DOMAIN LabelLengths} \cup {1}
  IN CHOOSE n \in lengths : \A m \in lengths : n >= m

\* A request is a buffer and its capacity, or no buffer.
NoBuffer == [text |-> FALSE, capacity |-> 0]
Buffer(capacity) == [text |-> TRUE, capacity |-> capacity]

Overwritten(buffer, from, bytes) ==
  [i \in DOMAIN buffer |-> IF i - from \in DOMAIN bytes THEN bytes[i - from] ELSE buffer[i]]

\* One character more, or the end of the buffer.
Put(state, c, value, request) ==
  LET label == LabelBytes(c)
  IN IF request.text /\ Len(label) >= request.capacity - state.bytes
     THEN [state EXCEPT !.status = "OUT_OF_BOUNDS"]
     ELSE [state EXCEPT !.bytes = @ + Len(label), !.score = Append(@, value),
                        !.buffer = Overwritten(@, state.bytes, label)]

\* What is decoded: the best class of each step, its value, and whether the values of
\* the step are numbers.  Position i of a buffer is its byte i - 1.
Pass(decoded, request) ==
  LET start == [status |-> "OK", bytes |-> 0, score |-> <<>>,
                buffer |-> [i \in 1..request.capacity |-> Untouched]]
      Step(before, t) ==
        IF before.status # "OK" THEN before
        ELSE IF ~decoded.finite[t] THEN [before EXCEPT !.status = "INVALID_ARGUMENT"]
        ELSE IF Emitted(decoded.best, t) THEN Put(before, decoded.best[t], decoded.value[t], request)
        ELSE before
      passed[t \in 0..Len(decoded.best)] == IF t = 0 THEN start ELSE Step(passed[t - 1], t)
      last == passed[Len(decoded.best)]
  IN IF request.text /\ last.status = "OK"
     THEN [last EXCEPT !.buffer = Overwritten(@, last.bytes, <<Nul>>)] ELSE last

\* The classes and values decode_pass finds in a table of probabilities.
BestOf(probabilities, outcome) ==
  LET best == Spoil([t \in DOMAIN probabilities |->
                       FirstBest([c \in Classes |-> probabilities[t][c].logit])],
                    outcome)
  IN [best |-> best, value |-> [t \in DOMAIN best |-> probabilities[t][best[t]]],
      finite |-> [t \in DOMAIN best |-> t \in DOMAIN outcome => outcome[t].finite]]

\* Mutant of RequiredCapacity: the end of the text has no byte of its own.
TextOnly(bytes) == bytes

RequiredCapacity(bytes) == bytes + 1

Answered(status, required, pass) ==
  [status |-> status, required |-> required, score |-> pass.score, buffer |-> pass.buffer]
Untried(status, request) ==
  [status |-> status, required |-> 0, score |-> <<>>,
   buffer |-> [i \in 1..request.capacity |-> Untouched]]

\* lw_rec_ctc_decode_f32 and lw_rec_ctc_decode_greedy_f32: measure, then write.
Measured(decoded, request) ==
  LET measure == Pass(decoded, NoBuffer)
      required == RequiredCapacity(measure.bytes)
      written == Pass(decoded, request)
  IN IF measure.status # "OK" THEN Untried(measure.status, request)
     ELSE IF ~request.text THEN Answered("OK", required, measure)
     ELSE IF request.capacity < required
     THEN [Untried("OUT_OF_BOUNDS", request) EXCEPT !.required = required, !.score = measure.score]
     ELSE Answered(written.status, required, [written EXCEPT !.score = measure.score])

\* The known-capacity ones: what a failing pass has written stays written.
WrittenAtOnce(decoded, request) ==
  LET written == Pass(decoded, request)
  IN IF written.status = "OK" THEN Answered("OK", RequiredCapacity(written.bytes), written)
     ELSE [Untried(written.status, request) EXCEPT !.buffer = written.buffer]

\* info.max_text_capacity
MaxTextCapacity == MaxSteps * MaxLabelBytes + 1

Decoded(decoded, request) ==
  IF request.text /\ request.capacity >= MaxTextCapacity
  THEN WrittenAtOnce(decoded, request) ELSE Measured(decoded, request)

-----------------------------------------------------------------------------
(* lw_recognizer_recognize_bgr_u8 *)

Requests == {NoBuffer} \cup {Buffer(n) : n \in TextCapacities}
NoReading ==
  [line |-> <<>>, spoiled |-> {}, request |-> NoBuffer, answer |-> Untried("NONE", NoBuffer)]
Reading(line, spoiled, request, answer) ==
  [line |-> line, spoiled |-> spoiled, request |-> request, answer |-> answer]

LineInit ==
  /\ graph \in Graphs
  /\ level \in LineLevels
  /\ reading = NoReading

\* The session of the line's width, the preprocessing or the graph fails, before the
\* decoder is called.
RecognitionFails(line, spoiled, request) ==
  /\ reading' = Reading(line, spoiled, request, Untried("FAILED", request))
  /\ UNCHANGED <<graph, level>>

\* The graph has been executed and the decoder answers, or fails half way.
Recognize(line, spoiled, request) ==
  /\ LogitsChecked(graph, line) => spoiled = {}
  /\ \E logits \in {Logits(graph, line)}, outcome \in Outcomes(spoiled) :
       \E decoded \in {IF GreedyTail(graph) THEN GreedyClasses(graph, line, logits, outcome)
                       ELSE BestOf([t \in DOMAIN line |-> Softmax(logits[t])], outcome)} :
         reading' = Reading(line, spoiled, request, Decoded(decoded, request))
  /\ UNCHANGED <<graph, level>>

\* The caller uses an answer before it calls again.
NextLine ==
  /\ reading' = NoReading
  /\ UNCHANGED <<graph, level>>

LineNext ==
  IF reading = NoReading
  THEN \E line \in Lines, spoiled \in Spoilings, request \in Requests :
         /\ spoiled \subseteq DOMAIN line
         /\ RecognitionFails(line, spoiled, request) \/ Recognize(line, spoiled, request)
  ELSE NextLine

-----------------------------------------------------------------------------
(* What a line says, by the definition of CTC: the path of the best classes, *)
(* with every run of one class taken once and the blanks left out.           *)

Product(g, features, c) ==
  g.bias[c] + Total(g.inner, [i \in 0..g.inner - 1 |-> features[i + 1] * g.weights[i * ClassCount + c]])

BestPath(g, line) ==
  [t \in DOMAIN line |->
     CHOOSE c \in Classes : \A d \in Classes :
       LET gap == Product(g, line[t], c) - Product(g, line[t], d)
       IN gap > 0 \/ (gap = 0 /\ c <= d)]

\* The steps at which a run of one class other than the blank begins.
Begun(path) ==
  {t \in DOMAIN path : path[t] # 0 /\ \A s \in DOMAIN path : s = t - 1 => path[s] # path[t]}

\* The same steps in order: before the i-th there are i - 1 others.
RunStarts(path) ==
  [i \in 1..Cardinality(Begun(path)) |->
     CHOOSE t \in Begun(path) : Cardinality({s \in Begun(path) : s <= t}) = i]

Text(g, line) ==
  LET path == BestPath(g, line)
  IN Ext!FlattenSeq([i \in DOMAIN RunStarts(path) |-> LabelBytes(path[RunStarts(path)[i]])])

Read == reading.answer.status \in {"OK", "OUT_OF_BOUNDS"}

\* Every way to the text of a line without spoiled steps finds the same characters with
\* the same probabilities: those of the best path, each Softmax term over the row's
\* largest logit.  The fused, packed and greedy ways are only faster.
PathsAgree ==
  Read /\ reading.spoiled = {} =>
    LET path == BestPath(graph, reading.line)
        starts == RunStarts(path)
    IN /\ reading.answer.required = Len(Text(graph, reading.line)) + 1
       /\ Len(reading.answer.score) = Len(starts)
       /\ \A i \in DOMAIN starts :
            LET row == [c \in Classes |-> Product(graph, reading.line[starts[i]], c)]
            IN reading.answer.score[i] = Probability(row, path[starts[i]], row[path[starts[i]]])

\* The steps before the first spoiled one.
Sound(line, spoiled) == [t \in {t \in DOMAIN line : \A s \in spoiled : t < s} |-> line[t]]

\* Bytes 0 .. n - 1 of a buffer are written and no others.
Holds(buffer, n) == {i \in DOMAIN buffer : buffer[i] # Untouched} = 1..n
Ends(buffer) == {i \in DOMAIN buffer : buffer[i] = Nul}
Begins(buffer, text) == \A i \in DOMAIN text : i \in DOMAIN buffer /\ buffer[i] = text[i]

\* What is in the caller's buffer after a call.  A success leaves a text, its end behind
\* it, and nothing behind that; a buffer too small for both is left alone, and the
\* answer tells the capacity that suffices.  A failure before the decoder leaves the
\* buffer alone.  The decoder fails only for a spoiled line; measuring first it leaves
\* the buffer alone, but writing at once it leaves an unfinished text, which never ends
\* and is shorter than the longest one.  In each text the characters of the steps
\* before the first spoiled one are those of the line.
BufferSafe ==
  reading # NoReading =>
    LET request == reading.request
        answer == reading.answer
        certain == Text(graph, Sound(reading.line, reading.spoiled))
        atOnce == request.text /\ request.capacity >= MaxTextCapacity
    IN /\ answer.status = "OK" /\ request.text =>
            /\ Holds(answer.buffer, answer.required) /\ Ends(answer.buffer) = {answer.required}
            /\ Begins(answer.buffer, certain)
       /\ answer.status = "OUT_OF_BOUNDS" =>
            request.text /\ request.capacity < answer.required /\ Holds(answer.buffer, 0)
       /\ answer.status = "FAILED" => Holds(answer.buffer, 0)
       /\ answer.status = "INVALID_ARGUMENT" =>
            /\ reading.spoiled # {} /\ answer.required = 0
            /\ IF atOnce
               THEN /\ \E n \in 0..MaxTextCapacity - 1 : Holds(answer.buffer, n)
                    /\ Ends(answer.buffer) = {} /\ Begins(answer.buffer, certain)
               ELSE Holds(answer.buffer, 0)
==============================================================================
