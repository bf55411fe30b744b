------------------------------ MODULE CpuConfig ------------------------------
(***************************************************************************)
(* The switches of the CPU backend that decide which code computes a       *)
(* forward pass (cpu_config.rs).  A configuration is the set of switches   *)
(* that are on.  Each is an environment variable whose default comes from  *)
(* the profile; some are off unless others are on.                         *)
(***************************************************************************)
EXTENDS Naturals

\* TimeMixerConfig: the fused paths of the time mixer.
TimeMixerFlags ==
  {"lerp_projection_values", "lerp_projection", "v_mix_values", "v_mix_kernels",
   "post_lora", "lora_decay", "middle_output", "output_kernels", "group_output",
   "middle_all_values", "group_output_cached_aux", "layer0_v_values",
   "time_flat_state", "flat_input_values", "reshape_recurrence"}

ChannelMixerFlags ==
  {"channel_kernels", "residual_scratch", "prelude_residual", "channel_flat_state",
   "inplace_output_values"}

LayerFlags == {"time_channel_handoff", "values_carrier", "borrow_first_input"}

\* BulkConfig.
BulkFlags ==
  {"lane_parallel", "stream_install", "borrow_state", "output_buffer",
   "module_values_carrier", "raw_values_handoff", "new_singletons",
   "singleton_state_views", "deck_frontier", "card_note_frontier",
   "in_place_compaction", "heads_batch"}

\* Whether the processor has a native dot kernel; DISABLE_SIMD turns it off.
Simd == "simd"

\* What a profile turns on by default.
Oracle == {Simd}
Fast == TimeMixerFlags \cup ChannelMixerFlags \cup LayerFlags \cup BulkFlags \cup {Simd}

\* The paths every layer of the flat time mixer needs.
ValuesPath ==
  {"lerp_projection_values", "lerp_projection", "v_mix_values", "v_mix_kernels",
   "post_lora", "lora_decay", "middle_output", "output_kernels", "group_output"}
FlatTimePath ==
  ValuesPath \cup {"middle_all_values", "group_output_cached_aux", "layer0_v_values"}
FlatChannelPath == {"channel_kernels", "residual_scratch", "prelude_residual"}

\* from_profile_and_lookup: the switches that depend on others.
Resolved(env) ==
  LET flatTime == {"time_flat_state"} \cup FlatTimePath \subseteq env
      flatChannel == flatTime /\ {"channel_flat_state"} \cup FlatChannelPath \subseteq env
  IN  env \ ((IF flatTime THEN {} ELSE {"time_flat_state"})
             \cup (IF flatChannel THEN {} ELSE {"channel_flat_state"})
             \cup (IF "new_singletons" \in env THEN {} ELSE {"singleton_state_views"})
             \cup (IF "module_values_carrier" \in env THEN {}
                   ELSE {"deck_frontier", "card_note_frontier"}))

\* What execute_bulk_module_pair requires of a call that carries raw values.
CarriesValues(c) ==
  {"module_values_carrier", "time_flat_state", "channel_flat_state", "output_buffer",
   "values_carrier", "time_channel_handoff"} \subseteq c
===============================================================================
