-------------------------- MODULE MCReviewTransaction --------------------------
(* Small instances of ReviewTransaction for TLC, and what is predicted in     *)
(* the states they reach.                                                     *)
EXTENDS ReviewTransactionRefinement, PredictMany

Review(card, note, deck, preset, day, elapsed) ==
  [card |-> card, note |-> note, deck |-> deck, preset |-> preset,
   day |-> day, elapsed |-> elapsed]

\* Two cards, one without a note, three decks, one of them missing: one more
\* than a binding of two slots holds.
First == Review(1, None, 7, None, 3, 0)
Other == Review(2, 9, None, None, 3, 1)
Again == Review(1, None, 8, None, 5, 2)

ThreeReviews == {First, Other, Again}
NoReviews == <<>>
ShortBatches ==
  {NoReviews, <<First, Other>>, <<Other, Again>>, <<Again, First>>, <<Again, Again>>}

-------------------------------------------------------------------------------
Runtime == [canon |-> canon, flat |-> flat, feat |-> feat, gpu |-> gpu]

\* Rows of one card and of two, in two orders; with a batch of one or two rows,
\* one or several of them wait, and one is in flight while the next is made.
Mixed == <<Other, First, Again, Other, First>>
CpuCalls == {[fast |-> FALSE, size |-> 2, threads |-> 1]} \cup
            [fast : {TRUE}, size : {2}, threads : {1, 2}]
GpuCalls == [pipeline : {FALSE}, size : {2}] \cup [pipeline : {TRUE}, size : {1, 2}]
Working == [room |-> 9, submit |-> 0, collect |-> 0]
Flawed == [room : {1}, submit : {0, 2}, collect : {0, 2}]
OneDeck == KeysOf(First) \cap IdentityKeys

\* Every call of predict_many agrees with predicting row by row.
EveryCallAgrees ==
  /\ \A how \in CpuCalls : CpuAgrees(Runtime, None, Mixed, how)
  /\ flat = NoStates \/ AllDirect(Runtime, Mixed)
       => \A how \in GpuCalls :
            \A device \in IF undoStack = <<>> /\ gpu = None THEN Flawed ELSE {Working} :
              GpuAgrees(Runtime, device, None, Mixed, how)
  /\ CpuAgrees(Runtime, OneDeck, Mixed, [fast |-> TRUE, size |-> 2, threads |-> 2])

FallbackIsNewest ==
  \A r \in Reviews :
    PredictGpuRun(Runtime, Working, <<r>>, [pipeline |-> TRUE, size |-> 2]).out
      \in {None, PredictProbability(Runtime, r)}

\* The runtime as a caller finds it: a batch of no rows may begin in every such
\* state, and only there.
FoundByCaller == Begin("process", NoReviews)

\* predict_many answers with the prediction of each row alone, row by row, on
\* the CPU in every mode, and on the GPU for rows with known identities, for any
\* rows once no state is flat, whatever was processed, rolled back or undone
\* before (runtime.rs, predict_review_inputs_cpu and predict_review_inputs_gpu).
\* A GPU that runs out of memory only answers later; one that fails gives an
\* error, no partial answer and nothing left in flight.
PredictionsAgree == [][FoundByCaller => EveryCallAgrees]_vars

\* "lazily materializes its flat FP32 state before later CPU operations"
\* (rust.py:1511): the scalar fallback of a GPU prediction is one of them.
FallbackReadsNewestStates == [][FoundByCaller => FallbackIsNewest]_vars
===============================================================================
