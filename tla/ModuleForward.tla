---------------------------- MODULE ModuleForward ----------------------------
(***************************************************************************)
(* The layers of one recurrent module, run over a batch of rows in each of *)
(* the forms its state can have, and the conversions between these forms.  *)
(*                                                                         *)
(* A native state holds one batch of rows per layer for each of the three  *)
(* parts of the state.  A working state holds one record per layer for the *)
(* time mixer, and the channel mixer's rows as tensors or as values.       *)
(***************************************************************************)
EXTENDS MixerForward

\* Runs the layers: Step maps the layer, its rows and v0, and the states it
\* finds to the rows and v0 after it and the states it leaves, or declines.
RunLayers(in, Step(_, _, _)) ==
  LET run[l \in 0..LayerCount] ==
        IF l = 0 THEN Some([out |-> in, v0 |-> Zeros(in), time |-> <<>>, chan |-> <<>>])
        ELSE LET earlier == run[l - 1]
                 before == Value(earlier)
                 after == Step(l, before.out, before.v0)
             IN  IF earlier = None THEN None
                 ELSE IF after = None THEN None
                 ELSE Some([out |-> Value(after).out, v0 |-> Value(after).v0,
                            time |-> Append(before.time, Value(after).time),
                            chan |-> Append(before.chan, Value(after).chan)])
  IN  run[LayerCount]

ByLayer(Of(_)) == Rows(LayerCount, Of)

\* The state of layer l, where there is one.
OfLayer(option, l) == IF IsSome(option) THEN Some(Value(option)[l]) ELSE None

-------------------------------------------------------------------------------
(* Layers: the time mixer, then the channel mixer on its output.           *)

\* rwkv_layer_forward_profiled.
Layer(c, w, l, in, v0, time, chan) ==
  LET t == TimeMixer(c, w, l, in, v0, time)
      ch == ChannelMixer(w, l, t.out, chan)
  IN  Some([out |-> ch.out, v0 |-> t.v0,
            time |-> [shift |-> t.shift, wkv |-> t.wkv], chan |-> ch.next])

\* What a layer with a flat time state makes of its two mixers.
Joined(t, ch, v0) ==
  Some([out |-> ch.out, v0 |-> v0,
        time |-> [shift |-> t.shift, wkv |-> t.wkv], chan |-> ch.next])

\* rwkv_layer_forward_flat_time_state_profiled.
LayerFlatTime(c, w, l, in, v0, time, chan) ==
  LET t == TimeMixerFlat(c, w, l, in, v0, time)
  IN  IF t = None THEN None
      ELSE Joined(Value(t), ChannelMixer(w, l, Value(t).out, chan), Value(t).v0)

\* rwkv_layer_forward_flat_working_state_profiled: with the handoff the time
\* mixer's values go straight into the channel mixer.
LayerFlat(c, w, l, in, v0, time, chan) ==
  LET t == IF "time_channel_handoff" \in c
           THEN TimeMixerValues(c, w, l, in, v0, time)
           ELSE TimeMixerFlat(c, w, l, in, v0, time)
      ch == ChannelMixerFlat(c, w, l, Value(t).out, chan)
  IN  IF t = None \/ ch = None THEN None
      ELSE Joined(Value(t), Value(ch), Value(t).v0)

\* rwkv_layer_forward_flat_working_state_values_profiled and the assignment of
\* v0 by its caller: v0 stays as it was unless the layer returns one.
LayerValues(c, w, l, in, v0, time, chan) ==
  LET t == TimeMixerInputValues(c, w, l, in, v0, time)
      x == Value(t).mixer.out
      ch == IF "inplace_output_values" \in c THEN ChannelMixerInPlace(c, w, l, x, chan)
            ELSE ChannelMixerFlat(c, w, l, x, chan)
  IN  IF t = None \/ ch = None THEN None
      ELSE Joined(Value(t).mixer, Value(ch),
                  IF IsSome(Value(t).v0) THEN Value(Value(t).v0) ELSE v0)

-------------------------------------------------------------------------------
(* Modules.  Each returns the rows after the last layer and the states;    *)
(* the predict variants of the code return only the rows.                  *)

\* rwkv_rnn_forward_profiled.
ForwardRows(c, w, in, state) ==
  LET run == Value(RunLayers(in, LAMBDA l, x, v0 :
               Layer(c, w, l, x, v0,
                     IF IsSome(state)
                     THEN Some([shift |-> Value(state).shift[l], wkv |-> Value(state).wkv[l]])
                     ELSE None,
                     IF IsSome(state) THEN Some(Value(state).chan[l]) ELSE None)))
  IN  [out |-> run.out,
       state |-> [shift |-> ByLayer(LAMBDA l : run.time[l].shift),
                  wkv |-> ByLayer(LAMBDA l : run.time[l].wkv),
                  chan |-> run.chan]]

\* rwkv_rnn_forward_flat_time_state_profiled.
ForwardFlatTime(c, w, in, time, tensor) ==
  RunLayers(in, LAMBDA l, x, v0 :
    LayerFlatTime(c, w, l, x, v0, OfLayer(time, l), OfLayer(tensor, l)))

\* rwkv_rnn_forward_flat_working_state_values_profiled.
ForwardValues(c, w, in, time, chan) ==
  IF {"values_carrier", "time_channel_handoff"} \subseteq c
  THEN RunLayers(in, LAMBDA l, x, v0 :
         LayerValues(c, w, l, x, v0, OfLayer(time, l), OfLayer(chan, l)))
  ELSE None

\* rwkv_rnn_forward_flat_working_state_profiled, whose carrier branch is the
\* loop of the function above.
ForwardFlat(c, w, in, time, chan) ==
  IF {"values_carrier", "time_channel_handoff"} \subseteq c
  THEN ForwardValues(c, w, in, time, chan)
  ELSE RunLayers(in, LAMBDA l, x, v0 :
         LayerFlat(c, w, l, x, v0, OfLayer(time, l), OfLayer(chan, l)))

-------------------------------------------------------------------------------
(* Working states.                                                         *)

\* flat_working_module_state_from_native.
FlatFromNative(state, flatChannel) ==
  [time |-> ByLayer(LAMBDA l : [shift |-> state.shift[l], wkv |-> state.wkv[l]]),
   tensor |-> IF flatChannel THEN None ELSE Some(state.chan),
   values |-> IF flatChannel THEN Some(state.chan) ELSE None]

\* native_module_state_from_flat_working.
NativeFromFlat(flat) ==
  [shift |-> ByLayer(LAMBDA l : flat.time[l].shift),
   wkv |-> ByLayer(LAMBDA l : flat.time[l].wkv),
   chan |-> IF IsSome(flat.values) THEN Value(flat.values) ELSE Value(flat.tensor)]

\* A working state whose channel rows are values, from the results of a pass.
Working(run) == [time |-> run.time, tensor |-> None, values |-> Some(run.chan)]

\* The rows of a batched state that Pick chooses from each of its parts.
EachPart(flat, Pick(_)) ==
  [time |-> ByLayer(LAMBDA l : [shift |-> Pick(flat.time[l].shift),
                                wkv |-> Pick(flat.time[l].wkv)]),
   tensor |-> None,
   values |-> Some(ByLayer(LAMBDA l : Pick(Value(flat.values)[l])))]

\* flat_working_module_state_batch_row.
BatchRow(flat, i) == EachPart(flat, LAMBDA rows : <<rows[i]>>)

\* batched_flat_working_module_state_from_native: one row from each state.
Batched(natives) ==
  LET flat == Rows(Len(natives), LAMBDA i : FlatFromNative(natives[i], TRUE))
      across(Row(_)) == Rows(Len(natives), LAMBDA i : Row(flat[i]))
  IN  [time |-> ByLayer(LAMBDA l : [shift |-> across(LAMBDA f : f.time[l].shift[1]),
                                    wkv |-> across(LAMBDA f : f.time[l].wkv[1])]),
       tensor |-> None,
       values |-> Some(ByLayer(LAMBDA l : across(LAMBDA f : Value(f.values)[l][1])))]

\* native_module_states_from_batched_flat_working: views of the rows of each layer.
NativeViews(flat, size) ==
  Rows(size, LAMBDA i : [shift |-> ByLayer(LAMBDA l : <<flat.time[l].shift[i]>>),
                         wkv |-> ByLayer(LAMBDA l : <<flat.time[l].wkv[i]>>),
                         chan |-> ByLayer(LAMBDA l : <<Value(flat.values)[l][i]>>)])

\* Mutant: the rows are copied to the front from the last one down.
CompactedBackwards(rows, selected) ==
  LET copied == FoldLeft(LAMBDA at, n : LET target == Len(selected) + 1 - n
                                        IN  [at EXCEPT ![target] = at[selected[target]]],
                         rows, [n \in DOMAIN selected |-> n])
  IN  SubSeq(copied, 1, Len(selected))

\* compact_flat_state_values_in_place: each selected row is copied to the front
\* over what was there, and the rest is cut off.
Compacted(rows, selected) ==
  LET copied == FoldLeft(LAMBDA at, target : [at EXCEPT ![target] = at[selected[target]]],
                         rows, [n \in DOMAIN selected |-> n])
  IN  SubSeq(copied, 1, Len(selected))

\* selected_rows_are_front_compactable: they are in ascending order.
FrontCompactable(size, selected) ==
  /\ \A n \in DOMAIN selected : selected[n] <= size
  /\ \A n \in 2..Len(selected) : selected[n] > selected[n - 1]

\* select_batched_flat_working_state_rows.
SelectRows(c, flat, size, selected) ==
  IF selected = [n \in 1..size |-> n] THEN flat
  ELSE IF "in_place_compaction" \in c /\ FrontCompactable(size, selected)
  THEN EachPart(flat, LAMBDA rows : Compacted(rows, selected))
  ELSE EachPart(flat, LAMBDA rows : Rows(Len(selected), LAMBDA n : rows[selected[n]]))
===============================================================================
