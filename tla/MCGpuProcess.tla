----------------------------- MODULE MCGpuProcess -----------------------------
(* A small instance of GpuProcess: two cards and the one global state.      *)
EXTENDS GpuProcess

CONSTANTS a, b

TwoModules == [m \in {"card", "global"} |-> [r \in {a, b} |->
                 IF m = "global" THEN "all" ELSE r]]

MixedInputs == {<<a, b, a>>, <<b>>}
SomeDevices == {[rows |-> 2, identities |-> 2, flat |-> TRUE],
                [rows |-> 2, identities |-> 2, flat |-> FALSE],
                [rows |-> 2, identities |-> 1, flat |-> FALSE],
                [rows |-> 0, identities |-> 0, flat |-> TRUE]}

-------------------------------------------------------------------------------
(* The kernels behind Process, on fixed batches of cards.                  *)

Scan == INSTANCE ScanPlan

ScanCase(batches, mode, chunk, kind, fails, room, perChunk, sync) ==
  [batches |-> batches, mode |-> mode, chunk |-> chunk, kind |-> kind,
   fails |-> fails, room |-> room, perChunk |-> perChunk, sync |-> sync]

\* Streams of one and of several chunks, of one and of several scan levels.
Layouts ==
  {<<first, second>> : first \in {<<1, 1, 1>>, <<1, 2, 1>>, <<2, 1, 1, 1>>},
                       second \in {<<1>>, <<2, 1>>}}
  \cup {<<<<1, 2, 1, 1, 1, 1, 1, 1>>, <<1, 2, 1>>>>, <<<<1, 2, 1, 2, 2, 1, 2>>>>}

\* Cards that come back, are left out of a batch, and come back again.
Moving == <<<<1, 2, 3>>, <<3, 4>>, <<2, 3, 5>>>>

ScanCases ==
  {ScanCase(batches, mode, chunk, "host", "no", 2, 1, "values") :
     batches \in Layouts, mode \in {"predictions", "curves", "state_only"}, chunk \in 1..3}
  \cup {ScanCase(Moving, "curves", 2, kind, fails, room, perChunk, sync) :
          kind \in {"resident", "arena"}, fails \in {"no", "device", "memory"},
          room \in 1..3, perChunk \in 1..2, sync \in {"pipelined", "views", "values"}}

EveryScanAgrees == \A c \in ScanCases : Scan!ScanAgrees(c)

\* A batch on the GPU, its streams cut in chunks and scanned, its states in
\* host memory, in the buffers of the last batch or in shards, returns the
\* outputs and, once brought back, leaves the states of going review by review; an
\* attempt that fails before its commit changes neither.  (gpu_process_scan.rs:
\* ModulePlan::build, GpuProcessScan::process and the shaders it dispatches.)  It
\* is what the one step ProcessSucceeds, which folds the rows of an attempt,
\* stands for.
ScanMatchesReference == [][ProcessSucceeds => EveryScanAgrees]_vars
===============================================================================
