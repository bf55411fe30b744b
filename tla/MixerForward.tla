---------------------------- MODULE MixerForward ----------------------------
(***************************************************************************)
(* One forward pass of a recurrent module over a batch of rows, in each of *)
(* the ways the CPU backend has to compute it: on tensors, on flat time    *)
(* states, on flat time and channel states, and on raw values all through. *)
(* A row of numbers is abstracted to one number, and a numeric kernel to a *)
(* fixed mixing of the rows it reads and of the weights it uses.  What is  *)
(* kept is which rows, states and weights each path reads, and what it     *)
(* hands to the next layer.                                                *)
(***************************************************************************)
EXTENDS CpuConfig, SequencesExt

CONSTANT LayerCount  \* recurrent blocks of one module

ASSUME LayerAssumption == LayerCount \in Nat \ {0}

\* An optional value is a sequence of at most one.
None == <<>>
Some(x) == <<x>>
IsSome(option) == option # None
Value(option) == option[1]

Layers == 1..LayerCount

\* Rows are numbers below a prime, small enough for products to fit in 31 bits.
Prime == 10007
Mix(a, b) == (a * 911 + b * 31 + a * b + 17) % Prime

\* Kernel n of layer l of module w, applied to two rows.
Kernel(w, l, n, a, b) == Mix(Mix((w * LayerCount + l) * 20 + n, a), b)

Add(a, b) == (a + b) % Prime

\* The batch whose row i is Row(i); as a subsequence, TLC evaluates it once.
Rows(n, Row(_)) == SubSeq([i \in 1..n |-> Row(i)], 1, n)
Zeros(batch) == Rows(Len(batch), LAMBDA i : 0)

-------------------------------------------------------------------------------
(* The time mixer.  A state is the normalized row before (shift) and the   *)
(* recurrent matrix (wkv); v0 is the first layer's value row, which the    *)
(* later layers mix into their own.                                        *)

Normalized(w, l, n, batch) ==
  Rows(Len(batch), LAMBDA i : Kernel(w, l, n, batch[i], 0))

\* The six interpolations with the shifted row, projected where they are.
Projected(w, l, x, shift) ==
  LET part(n) == Rows(Len(x), LAMBDA i : Kernel(w, l, n, x[i], shift[i]))
  IN  [r |-> part(1), k |-> part(2), v |-> part(3),
       d |-> part(4), a |-> part(5), g |-> part(6)]

\* time_mixer_v_mix.
OwnValues(w, l, v) == Rows(Len(v), LAMBDA i : Kernel(w, l, 7, v[i], 0))
MixedValues(w, l, v, v0) ==
  Rows(Len(v), LAMBDA i : Kernel(w, l, 8, Kernel(w, l, 7, v[i], 0), v0[i]))
VMix(w, l, v, v0) == IF l = 1 THEN OwnValues(w, l, v) ELSE MixedValues(w, l, v, v0)

\* The rates and the decay, from the low-rank projections.
LoraDecay(w, l, p) ==
  Rows(Len(p.r), LAMBDA i : [a |-> Kernel(w, l, 9, p.a[i], 0),
                             g |-> Kernel(w, l, 10, p.g[i], 0),
                             w |-> Kernel(w, l, 11, p.d[i], 0)])

\* One step of the recurrence on a row: the state decays, and takes k and v in.
Recurrence(w, l, k, v, lora, wkv) ==
  Kernel(w, l, 12, Kernel(w, l, 13, wkv, lora.w), Mix(Mix(k, lora.a), v))

\* The group norm, the bonus, the gate, the output projection and the residual.
Projection(w, l, in, r, k, v, lora, out) ==
  Add(in, Kernel(w, l, 14, Kernel(w, l, 15, out, r), Mix(Mix(k, v), lora.g)))

\* What follows the value mix on every path; nextV0 is what the path returns.
Finished(w, l, in, x, p, v, wkv, nextV0) ==
  LET lora == LoraDecay(w, l, p)
      next == Rows(Len(in), LAMBDA i : Recurrence(w, l, p.k[i], v[i], lora[i], wkv[i]))
  IN  [out |-> Rows(Len(in), LAMBDA i :
                 Projection(w, l, in[i], p.r[i], p.k[i], v[i], lora[i],
                            Kernel(w, l, 16, next[i], p.r[i]))),
       v0 |-> nextV0, shift |-> x, wkv |-> next]

\* The path that keeps every intermediate result in plain values.  Only its
\* all-values recurrence returns the first layer's values as v0.
AllValues(c, w, l, in, x, p, wkv, v0) ==
  LET v == VMix(w, l, p.v, v0)
  IN  Finished(w, l, in, x, p, v, wkv,
               IF "middle_all_values" \in c /\ l = 1 THEN v ELSE v0)

\* The path whose values are mixed in plain values, on tensors otherwise.
MixedInValues(w, l, in, x, p, wkv, v0) ==
  Finished(w, l, in, x, p, MixedValues(w, l, p.v, v0), wkv, v0)

\* The paths on tensors, with and without fused recurrence and output.
OnTensors(w, l, in, x, p, wkv, v0) ==
  LET v == VMix(w, l, p.v, v0)
  IN  Finished(w, l, in, x, p, v, wkv, IF l = 1 THEN v ELSE v0)

TakesAllValues(c, l) ==
  /\ ValuesPath \subseteq c /\ Simd \in c
  /\ l # 1 \/ "layer0_v_values" \in c

TakesMixedValues(c, l) ==
  /\ ValuesPath \ {"lerp_projection_values", "lerp_projection"} \subseteq c
  /\ Simd \in c /\ l # 1

\* time_mixer_forward_profiled_options.
TimeMixer(c, w, l, in, v0, state) ==
  LET x == Normalized(w, l, 17, in)
      shift == IF IsSome(state) THEN Value(state).shift ELSE x
      wkv == IF IsSome(state) THEN Value(state).wkv ELSE Zeros(in)
      p == Projected(w, l, x, shift)
  IN  IF TakesAllValues(c, l) THEN AllValues(c, w, l, in, x, p, wkv, v0)
      ELSE IF TakesMixedValues(c, l) THEN MixedInValues(w, l, in, x, p, wkv, v0)
      ELSE OnTensors(w, l, in, x, p, wkv, v0)

SameRows(a, b) == Len(a) = Len(b)
FitsTime(state, in) ==
  IsSome(state) => SameRows(Value(state).shift, in) /\ SameRows(Value(state).wkv, in)

\* ..._flat_state_values_raw_output_...: it declines without a dot kernel, and
\* a state that is not of the size of the batch.
TimeMixerValues(c, w, l, in, v0, state) ==
  IF Simd \in c /\ FitsTime(state, in) /\ SameRows(v0, in)
  THEN LET x == Normalized(w, l, 17, in)
           shift == IF IsSome(state) THEN Value(state).shift ELSE x
           wkv == IF IsSome(state) THEN Value(state).wkv ELSE Zeros(in)
           p == Projected(w, l, x, shift)
           v == VMix(w, l, p.v, v0)
       IN  Some(Finished(w, l, in, x, p, v, wkv, IF l = 1 THEN v ELSE v0))
  ELSE None

\* time_mixer_forward_flat_state_profiled_options.
TimeMixerFlat(c, w, l, in, v0, state) ==
  IF FlatTimePath \ (IF l = 1 THEN {} ELSE {"layer0_v_values"}) \subseteq c
  THEN TimeMixerValues(c, w, l, in, v0, state)
  ELSE None

\* ..._flat_state_input_values_raw_output_...: only the first layer returns v0.
TimeMixerInputValues(c, w, l, in, v0, state) ==
  LET mixed == TimeMixerValues(c, w, l, in, v0, state)
  IN  IF mixed = None THEN None
      ELSE Some([mixer |-> Value(mixed),
                 v0 |-> IF l = 1 THEN Some(Value(mixed).v0) ELSE None])

-------------------------------------------------------------------------------
(* The channel mixer.  Its state is the normalized row before.             *)

\* The projection through the hidden layer of an interpolated row.
ChannelProjected(w, l, x, shift) ==
  Rows(Len(x), LAMBDA i : Kernel(w, l, 18, Kernel(w, l, 19, x[i], shift[i]), 0))

\* channel_mixer_forward_profiled.
ChannelMixer(w, l, in, state) ==
  LET x == Normalized(w, l, 0, in)
      o == ChannelProjected(w, l, x, IF IsSome(state) THEN Value(state) ELSE x)
  IN  [out |-> Rows(Len(in), LAMBDA i : Add(in[i], o[i])), next |-> x]

\* channel_mixer_forward_flat_state_..., over borrowed input values.
ChannelMixerFlat(c, w, l, in, state) ==
  IF /\ FlatChannelPath \subseteq c /\ Simd \in c
     /\ IsSome(state) => SameRows(Value(state), in)
  THEN Some(ChannelMixer(w, l, in, state))
  ELSE None

\* ..._from_owned_input_values_...: x and the interpolated rows are buffers of
\* their own; the projection overwrites the latter, row by row or at once, and
\* is then added to the input, which becomes the output.
ChannelMixerInPlace(c, w, l, in, state) ==
  IF /\ FlatChannelPath \subseteq c /\ Simd \in c
     /\ IsSome(state) => SameRows(Value(state), in)
  THEN LET x == Normalized(w, l, 0, in)
           xk == ChannelProjected(w, l, x, IF IsSome(state) THEN Value(state) ELSE x)
           added == FoldLeft(LAMBDA input, i : [input EXCEPT ![i] = Add(@, xk[i])],
                             in, [i \in DOMAIN in |-> i])
       IN  Some([out |-> added, next |-> x])
  ELSE None
===============================================================================
