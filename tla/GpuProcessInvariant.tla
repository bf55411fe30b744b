-------------------------- MODULE GpuProcessInvariant --------------------------
(***************************************************************************)
(* The inductive invariant behind StatesSurvive and ReportIsExact.         *)
(***************************************************************************)
EXTENDS GpuProcess

Results == {"none", "ok", "oom", "unavailable", "invalid", "execution"}

Jobs ==
  [rows : Seq(Reviews), offset : Nat, attempt : Nat, full : BOOLEAN,
   cleaned : BOOLEAN,
   phase : {"prefix", "attempt", "recover", "sync", "returned"},
   then : {"return", "attempt", "retry", "abandoned"},
   read : SUBSET Keys, result : Results]

Clients ==
  [kind : {"process", "state_only", "cpu"}, input : Seq(Reviews), full : BOOLEAN,
   fallback : BOOLEAN,
   phase : {"next", "native", "release", "synchronize", "cpu"},
   left : Seq(Reviews), batch : Seq(Reviews), results : Seq(Reviews),
   start : Nat, cpu : BOOLEAN]

Reports ==
  [told : {"nothing", "ok", "raised", "error", "lost", "interrupted"},
   start : Nat, results : Seq(Reviews)]

Types ==
  /\ device \in Devices
  /\ held = [h \in Homes |-> [k \in Keys |-> held[h][k]]]
  /\ expected = [k \in Keys |-> expected[k]]
  /\ arenaOpen \in BOOLEAN /\ noArena \in BOOLEAN /\ interrupted \in BOOLEAN
  /\ log \in Seq(Reviews) /\ described \in Seq(Reviews)
  /\ job \in Jobs \cup {NoJob}
  /\ client \in Clients \cup {NoClient}
  /\ report \in Reports

\* A native call runs, or has a result, while the public call waits for it.
Waiting == client.phase \in {"native", "release", "synchronize"}

\* The two calls keep step.
CallsMatch ==
  /\ job = NoJob <=> ~Waiting
  /\ At("native") => job.rows = client.batch /\ ~client.cpu
  /\ client.phase \in {"release", "synchronize"} =>
       job.phase \in {"sync", "returned"} /\ job.then = "return"
  /\ client # NoClient => report = Silence

\* What is committed and what is tried are within the batch.
WithinBatch ==
  job # NoJob =>
    /\ job.offset + job.attempt <= Len(job.rows)
    /\ job.result = "ok" /\ At("native") => job.offset = Len(job.rows)
    /\ job.phase = "attempt" \/ job.phase = "recover" => job.result = "none"
    /\ job.phase = "prefix" => job.result = "none" /\ job.attempt = 0
    /\ job.phase = "sync" => job.result = "none"
    /\ job.phase # "sync" => job.read = {}
    /\ job.phase = "sync" /\ job.then = "return" => ~At("native")

\* Rows the native call has committed and Python has not been told about.
Untold == IF At("native") THEN Prefix ELSE <<>>

\* What a call has committed is what it has collected, and what it will be told.
CallIsAccounted ==
  client # NoClient =>
    \E before \in Seq(Reviews) :
      /\ Len(before) = client.start
      /\ log = before \o (client.results \o Untold)

HistoryIsAccounted == ~interrupted => log = described \o Untold

\* States are in the arena only while it is open.
ArenaIsOpen == ~IsEmpty(held, "arena") => arenaOpen

OnHost ==
  IsEmpty(held, "resident") /\ IsEmpty(held, "arena") /\ IsEmpty(held, "deferred")

\* Nothing is on the device, and nothing deferred, when rows are processed on the
\* CPU.
CpuFindsStatesOnHost ==
  \/ At("cpu")
  \/ At("next") /\ client.cpu
  \/ client.phase \in {"release", "synchronize"} /\ Answered /\ job.result = "ok"
  => OnHost

\* A synchronization reads the arena once the working set is gone, and what it
\* has read is on the host or will be.
ReadIsSound ==
  In("sync") =>
    /\ job.read \subseteq KeysIn(held, "arena")
    /\ job.read # {} => IsEmpty(held, "resident")
    /\ ~device.flat => job.read \subseteq KeysIn(held, "canonical")

IInv ==
  /\ Types
  /\ CallsMatch
  /\ WithinBatch
  /\ CallIsAccounted
  /\ HistoryIsAccounted
  /\ ArenaIsOpen
  /\ CpuFindsStatesOnHost
  /\ ReadIsSound
  /\ StatesSurvive
  /\ ReportIsExact

-------------------------------------------------------------------------------
(* For the refinement of CommittedPrefix.                                   *)

\* What is left to do of the call's input.
Pending == IF At("next") THEN client.left ELSE client.batch \o client.left

\* A call has collected the rows its input begins with, and the rest of it is
\* what is left to do.
InputIsSplit ==
  client # NoClient =>
    /\ client.input # <<>>
    /\ client.input = client.results \o Pending
===============================================================================
