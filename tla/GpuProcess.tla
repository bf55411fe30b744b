------------------------------ MODULE GpuProcess ------------------------------
(***************************************************************************)
(* Processing reviews on the GPU.  process_many cuts its input into        *)
(* batches and gives each to the native runtime, which cuts it again into  *)
(* attempts that fit the device.  An attempt that succeeds is committed;   *)
(* one that runs out of memory is made again, smaller, with less on the    *)
(* device, or in another storage mode.  What is committed stays, wherever  *)
(* its states are, and an error names the committed prefix, so that the    *)
(* caller can go on from there on the CPU.                                 *)
(*                                                                         *)
(* The native runtime is one object, used by one call at a time.           *)
(***************************************************************************)
EXTENDS StateHomes, FiniteSets

CONSTANTS
  Inputs,       \* what a client gives to one call
  BatchSize,    \* rows of a native batch
  Devices,      \* rows and identities per module one holds, and its readback
  MaxRows       \* bound: rows committed

ASSUME ProcessAssumption ==
  /\ Inputs \subseteq Seq(Reviews) \ {<<>>}
  /\ BatchSize \in Nat \ {0}
  /\ Devices \subseteq [rows : Nat, identities : Nat, flat : BOOLEAN]
  /\ MaxRows \in Nat

VARIABLES
  device,       \* never changes; flat: the arena is read to the flat maps
  held,         \* the states, see StateHomes
  arenaOpen,    \* some fully_resident_states[m] exists
  noArena,      \* fully_resident_disabled_after_oom
  log,          \* deterministic: the reviews recorded in the feature state
  described,    \* the reviews _history_digest and last_review_id describe
  job,          \* the native call that runs, or its result
  client,       \* the public call that runs
  report,       \* what the last public call told its caller
  expected,     \* history variable: the states the committed rows make
  interrupted   \* history variable: a result was lost to an interrupt

states == <<device, held, arenaOpen, noArena, expected>>
vars == <<states, log, described, job, client, report, interrupted>>

NoJob == [phase |-> "idle"]
NoClient == [phase |-> "idle"]

Silence == [told |-> "nothing", start |-> 0, results |-> <<>>]

Init ==
  /\ device \in Devices
  /\ held = Nowhere /\ expected = Nowhere["canonical"]
  /\ arenaOpen = FALSE /\ noArena = FALSE
  /\ log = <<>> /\ described = <<>>
  /\ job = NoJob /\ client = NoClient
  /\ report = Silence
  /\ interrupted = FALSE

-------------------------------------------------------------------------------
(* The native call.                                                         *)

In(phase) == job.phase = phase
Go(phase) == job' = [job EXCEPT !.phase = phase]
Returns(result) ==
  job' = [job EXCEPT !.phase = "returned", !.result = result, !.attempt = 0,
            !.cleaned = FALSE, !.then = "return", !.read = {}]

Rest == SubSeq(job.rows, job.offset + 1, Len(job.rows))
Rows == SubSeq(job.rows, job.offset + 1, job.offset + job.attempt)

NewJob(rows, full, phase) ==
  [rows |-> rows, offset |-> 0, attempt |-> 0, full |-> full, cleaned |-> FALSE,
   phase |-> phase, then |-> "return", read |-> {}, result |-> "none"]

ProcessJob(rows, full) == NewJob(rows, full, "prefix")
SyncJob == NewJob(<<>>, FALSE, "sync")

Identities(m, rows) == {KeyOf[m][rows[i]] : i \in DOMAIN rows}

Fits(rows) ==
  /\ Len(rows) <= device.rows
  /\ \A m \in Modules : Cardinality(Identities(m, rows)) <= device.identities

IsMaxSafePrefix(n, rows) ==
  /\ Fits(SubSeq(rows, 1, n))
  /\ n < Len(rows) => ~Fits(SubSeq(rows, 1, n + 1))

\* What the safe prefix is of the rows that are left; none is an error.
ChoosePrefix ==
  /\ In("prefix")
  /\ Rest # <<>>
  /\ \E n \in 0 .. Len(Rest) :
       /\ IsMaxSafePrefix(n, Rest)
       /\ IF n = 0 THEN Returns("unavailable")
          ELSE job' = [job EXCEPT !.attempt = n, !.cleaned = FALSE,
                                  !.phase = "attempt"]
  /\ UNCHANGED <<states, log, described, client, report, interrupted>>

JobEnds ==
  /\ In("prefix")
  /\ Rest = <<>>
  /\ Returns("ok")
  /\ UNCHANGED <<states, log, described, client, report, interrupted>>

\* A row that has no features ends the call before its attempt begins.
RowsRejected ==
  /\ In("attempt")
  /\ Returns("invalid")
  /\ UNCHANGED <<states, log, described, client, report, interrupted>>

\* Synchronization, with what the call goes on with.
BeginSync(then) == job' = [job EXCEPT !.phase = "sync", !.then = then]

\* One storage mode is left before another is used.
MustSynchronize ==
  \/ job.full /\ ~IsEmpty(held, "resident")
  \/ ~job.full /\ arenaOpen

SwitchStorage ==
  /\ In("attempt")
  /\ MustSynchronize
  /\ BeginSync("attempt")
  /\ UNCHANGED <<states, log, described, client, report, interrupted>>

Ready ==
  /\ In("attempt")
  /\ ~MustSynchronize

\* The evicted states do not fit the readback buffer.
ReadbackOverflows ==
  /\ Ready
  /\ ~job.full /\ ~IsEmpty(held, "resident")
  /\ BeginSync("attempt")
  /\ UNCHANGED <<states, log, described, client, report, interrupted>>

Committed(rows) ==
  IF job.full THEN ArenaCommit(held, rows) ELSE ResidentCommit(held, rows)

\* What the rows make of the states, had they been processed one by one.
ExpectedAfter(rows) ==
  [k \in Keys |-> IF k \in KeysOf(rows) THEN Folded(expected[k], k, rows)
                  ELSE expected[k]]

ProcessSucceeds ==
  /\ Ready
  /\ held' = Committed(Rows)
  /\ arenaOpen' = (arenaOpen \/ job.full)
  /\ log' = log \o Rows
  /\ expected' = ExpectedAfter(Rows)
  /\ job' = [job EXCEPT !.offset = job.offset + job.attempt,
                         !.attempt = 0, !.phase = "prefix"]
  /\ UNCHANGED <<device, noArena, described, client, report, interrupted>>

\* Buffers are created before anything is computed or moved.
ProcessOutOfMemory ==
  /\ Ready
  /\ arenaOpen' = (arenaOpen \/ job.full)
  /\ Go("recover")
  /\ UNCHANGED <<device, expected, held, noArena, log, described, client, report, interrupted>>

\* Other failures, before anything is moved or once something is.
ProcessFails ==
  /\ Ready
  /\ arenaOpen' \in {arenaOpen, arenaOpen \/ job.full}
  /\ Returns("execution")
  /\ UNCHANGED <<device, expected, held, noArena, log, described, client, report, interrupted>>

HalfMoved(rows) ==
  IF job.full THEN ArenaScatter(held, KeysOf(rows) \cap KeysIn(held, "arena"),
                                NextStates(held, rows))
  ELSE DecodeResident(held, rows)

ProcessFailsLate ==
  /\ Ready
  /\ held' = HalfMoved(Rows)
  /\ arenaOpen' = (arenaOpen \/ job.full)
  /\ Returns("execution")
  /\ UNCHANGED <<device, expected, noArena, log, described, client, report, interrupted>>

-------------------------------------------------------------------------------
(* After an attempt that ran out of memory.                                  *)

Recovering == In("recover")

AbandonArena ==
  /\ Recovering
  /\ job.full
  /\ BeginSync("abandoned")
  /\ UNCHANGED <<states, log, described, client, report, interrupted>>

HalveAttempt ==
  /\ Recovering
  /\ ~job.full /\ job.attempt > 1
  /\ job' = [job EXCEPT !.attempt = job.attempt \div 2, !.phase = "attempt"]
  /\ UNCHANGED <<states, log, described, client, report, interrupted>>

\* Mutant of CleanedUp: final_cleanup_attempted is never set.
NotCleanedUp == job
CleanedUp == [job EXCEPT !.cleaned = TRUE]

\* A single row is tried once more, with nothing else on the device.
LastCleanup ==
  /\ Recovering
  /\ ~job.full /\ job.attempt = 1 /\ ~job.cleaned
  /\ job' = IF IsEmpty(held, "resident") /\ ~arenaOpen
            THEN [CleanedUp EXCEPT !.phase = "attempt"]
            ELSE [CleanedUp EXCEPT !.phase = "sync", !.then = "retry"]
  /\ UNCHANGED <<states, log, described, client, report, interrupted>>

GiveUp ==
  /\ Recovering
  /\ ~job.full /\ job.attempt = 1 /\ job.cleaned
  /\ Returns("oom")
  /\ UNCHANGED <<states, log, described, client, report, interrupted>>

RecoveryFails ==
  /\ Recovering
  /\ Returns("execution")
  /\ UNCHANGED <<states, log, described, client, report, interrupted>>

-------------------------------------------------------------------------------
(* synchronize_cpu_state: working set, arena, deferred states, in this order. *)

InModule(m, keys) == {k \in keys : k[1] = m}

\* One module's working set goes to the deferred states.
SyncResident(m) ==
  /\ In("sync")
  /\ LET keys == InModule(m, KeysIn(held, "resident"))
     IN  /\ keys # {}
         /\ held' = Moved(DeferredInsert(held, keys, held["resident"]),
                          keys, "none", held["deferred"], {"resident"})
  /\ UNCHANGED <<device, expected, arenaOpen, noArena, job, log, described, client,
                 report, interrupted>>

\* One chunk of the arena is read: flat states wait for the end.
SyncArenaChunk(m) ==
  /\ In("sync")
  /\ IsEmpty(held, "resident")
  /\ LET keys == InModule(m, KeysIn(held, "arena") \ job.read)
     IN  /\ keys # {}
         /\ job' = [job EXCEPT !.read = @ \cup keys]
         /\ held' = IF device.flat THEN held
                    ELSE InsertModuleStates(held, keys, held["arena"])
  /\ UNCHANGED <<device, expected, arenaOpen, noArena, log, described, client, report, interrupted>>

Drained ==
  IF device.flat THEN CommitFlatCpuState(DeferredSynchronize(held), job.read)
  ELSE DeferredSynchronize(held)

SyncEnds ==
  /\ In("sync")
  /\ IsEmpty(held, "resident") /\ KeysIn(held, "arena") \subseteq job.read
  /\ held' = Cleared(Drained, "arena")
  /\ arenaOpen' = FALSE
  /\ noArena' = (noArena \/ job.then = "abandoned")
  /\ job' = [job EXCEPT !.full = job.full /\ job.then # "abandoned",
               !.read = {}, !.then = "return",
               !.result = IF job.then = "return" THEN "ok" ELSE "none",
               !.phase = IF job.then = "return" THEN "returned" ELSE "attempt"]
  /\ UNCHANGED <<device, expected, log, described, client, report, interrupted>>

\* What was moved stays moved, and the rest is where it was.
SyncFails ==
  /\ In("sync")
  /\ \E error \in {"oom", "execution"} :
       IF job.then = "attempt" /\ error = "oom"
       THEN job' = [job EXCEPT !.phase = "recover", !.then = "return", !.read = {}]
       ELSE Returns(error)
  /\ UNCHANGED <<states, log, described, client, report, interrupted>>

-------------------------------------------------------------------------------
(* The public call.                                                         *)

At(phase) == client.phase = phase

Tell(told, results) ==
  /\ report' = [told |-> told, start |-> client.start, results |-> results]
  /\ client' = NoClient

Call(kind, input, full, fallback) ==
  [kind |-> kind, input |-> input, full |-> full, fallback |-> fallback, phase |-> IF kind = "cpu" THEN "synchronize" ELSE "next",
   left |-> input, batch |-> <<>>, results |-> <<>>, start |-> Len(log),
   cpu |-> kind = "cpu"]

\* A caller who was told that the state may be unusable makes no more calls.
MayCall(input) ==
  /\ At("idle")
  /\ report.told # "lost"
  /\ Len(log) + Len(input) <= MaxRows

\* process_many, or build_state_only, which returns a count and never falls back.
BeginOnGpu ==
  /\ \E kind \in {"process", "state_only"}, input \in Inputs, full, fallback \in BOOLEAN :
       /\ MayCall(input)
       /\ kind = "state_only" => ~fallback
       /\ client' = Call(kind, input, full, fallback)
  /\ report' = Silence
  /\ UNCHANGED <<states, log, described, job, interrupted>>

\* Every other operation synchronizes first; a call that processes on the CPU
\* stands for them all.
BeginOnCpu ==
  /\ \E input \in Inputs :
       /\ MayCall(input)
       /\ client' = Call("cpu", input, FALSE, FALSE)
  /\ job' = SyncJob
  /\ report' = Silence
  /\ UNCHANGED <<states, log, described, interrupted>>

Shorter(a, b) == IF a < b THEN a ELSE b

NextBatch ==
  /\ At("next")
  /\ client.left # <<>>
  /\ LET n == Shorter(BatchSize, Len(client.left))
         rows == SubSeq(client.left, 1, n)
     IN  /\ client' = [client EXCEPT !.batch = rows,
                         !.left = SubSeq(client.left, n + 1, Len(client.left)),
                         !.phase = IF client.cpu THEN "cpu" ELSE "native"]
         /\ job' = IF client.cpu THEN NoJob
                   ELSE ProcessJob(rows, client.full /\ ~noArena)
  /\ UNCHANGED <<states, log, described, report, interrupted>>

\* The iterable that gives the rows raises.
InputFails ==
  /\ At("next")
  /\ client.left # <<>>
  /\ Tell(IF client.results = <<>> \/ client.kind = "cpu" THEN "raised" ELSE "error",
          client.results)
  /\ UNCHANGED <<states, log, described, job, interrupted>>

CallEnds ==
  /\ At("next")
  /\ client.left = <<>>
  /\ Tell("ok", client.results)
  /\ UNCHANGED <<states, log, described, job, interrupted>>

Answered == job.phase = "returned"

ReceiveRows ==
  /\ At("native") /\ Answered /\ job.result = "ok"
  /\ client' = [client EXCEPT !.results = @ \o client.batch, !.phase = "next"]
  /\ described' = described \o client.batch
  /\ job' = NoJob
  /\ UNCHANGED <<states, log, report, interrupted>>

\* An interrupt between the native commit and its result: what is left of the
\* progress is a count, which build_state_only tells and process_many drops.
Interrupt ==
  /\ At("native") /\ Answered /\ job.result = "ok"
  /\ job' = NoJob
  /\ IF client.kind = "state_only"
     THEN /\ described' = described \o client.batch
          /\ Tell("error", client.results \o client.batch)
          /\ UNCHANGED interrupted
     ELSE /\ Tell("interrupted", client.results)
          /\ interrupted' = TRUE
          /\ UNCHANGED described
  /\ UNCHANGED <<states, log>>

Failed == At("native") /\ Answered /\ job.result # "ok"
Prefix == SubSeq(job.rows, 1, job.offset)
Retryable == client.fallback /\ job.result \in {"oom", "unavailable"}

\* Mutant of RecordedRows: the whole batch is recorded.
RecordedBatch == job.rows

\* What Python records of a batch that failed.
RecordedRows == Prefix

\* The rows that are left are processed on the CPU.
FallBack ==
  /\ Failed
  /\ Retryable
  /\ described' = described \o RecordedRows
  /\ job' = SyncJob
  /\ client' = [client EXCEPT !.results = @ \o Prefix, !.batch = Rest,
                  !.cpu = TRUE, !.phase = "release"]
  /\ UNCHANGED <<states, log, report, interrupted>>

Told(result) ==
  IF result = "execution" THEN "lost"
  ELSE IF result = "invalid" /\ Prefix = <<>> THEN "raised"
  ELSE "error"

CallFails ==
  /\ Failed
  /\ ~Retryable
  /\ described' = described \o RecordedRows
  /\ Tell(Told(job.result), client.results \o Prefix)
  /\ job' = NoJob
  /\ UNCHANGED <<states, log, interrupted>>

\* The fallback also drops the processor; a call on the CPU keeps it.
Synchronized ==
  /\ client.phase \in {"release", "synchronize"} /\ Answered /\ job.result = "ok"
  /\ noArena' = (noArena /\ ~At("release"))
  /\ client' = [client EXCEPT !.phase = IF client.batch = <<>> THEN "next" ELSE "cpu"]
  /\ job' = NoJob
  /\ UNCHANGED <<device, held, arenaOpen, expected, log, described, report, interrupted>>

SynchronizeFails ==
  /\ client.phase \in {"release", "synchronize"} /\ Answered /\ job.result # "ok"
  /\ Tell("lost", client.results)
  /\ job' = NoJob
  /\ UNCHANGED <<states, log, described, interrupted>>

\* A chunk of a batch on the CPU, all of it or nothing.
CpuRows ==
  /\ At("cpu")
  /\ \E n \in 1 .. Len(client.batch) :
       LET rows == SubSeq(client.batch, 1, n)
           rest == SubSeq(client.batch, n + 1, Len(client.batch))
       IN  /\ held' = CpuCommit(held, rows)
           /\ log' = log \o rows
           /\ described' = described \o rows
           /\ expected' = ExpectedAfter(rows)
           /\ client' = [client EXCEPT !.results = @ \o rows, !.batch = rest,
                           !.phase = IF rest = <<>> THEN "next" ELSE "cpu"]
  /\ UNCHANGED <<device, arenaOpen, noArena, job, report, interrupted>>

CpuFails ==
  /\ At("cpu")
  /\ Tell(IF client.fallback /\ client.results # <<>>
          THEN "error" ELSE "raised", client.results)
  /\ UNCHANGED <<states, log, described, job, interrupted>>

-------------------------------------------------------------------------------
NativeStep ==
  \/ ChoosePrefix \/ JobEnds \/ RowsRejected
  \/ SwitchStorage \/ ReadbackOverflows
  \/ ProcessSucceeds \/ ProcessOutOfMemory \/ ProcessFails \/ ProcessFailsLate
  \/ AbandonArena \/ HalveAttempt \/ LastCleanup \/ GiveUp \/ RecoveryFails
  \/ (\E m \in Modules : SyncResident(m))
  \/ (\E m \in Modules : SyncArenaChunk(m))
  \/ SyncEnds \/ SyncFails

ClientStep ==
  \/ NextBatch \/ InputFails \/ CallEnds
  \/ ReceiveRows \/ Interrupt \/ FallBack \/ CallFails
  \/ Synchronized \/ SynchronizeFails
  \/ CpuRows \/ CpuFails

Next == BeginOnGpu \/ BeginOnCpu \/ NativeStep \/ ClientStep

\* A call that has begun goes on: the device answers or reports an error.
Spec == Init /\ [][Next]_vars /\ WF_vars(NativeStep \/ ClientStep)
-------------------------------------------------------------------------------
\* A native error whose caller has not yet been told about it.
Damaged == Answered /\ job.result = "execution"

Trusted == report.told # "lost" /\ ~Damaged

\* Whichever homes a state is in, each copy is the state that the committed rows
\* make: no attempt that was halved, repeated, moved to another storage mode or
\* interrupted in the middle of a synchronization leaves a stale copy behind,
\* unless the caller was told that the state may be unusable.
EveryCopyIsCurrent ==
  Trusted =>
    \A h \in Homes, k \in Keys : held[h][k] # None => held[h][k] = expected[k]

\* No state of a committed row is lost.
NoStateIsLost ==
  Trusted =>
    \A k \in Keys : expected[k] # None => \E h \in Homes : held[h][k] # None

StatesSurvive == EveryCopyIsCurrent /\ NoStateIsLost

\* Between two calls Python's history describes the committed rows and nothing
\* else, unless an interrupt took a result away, and the last call that said how
\* many rows it committed said so exactly.
ReportIsExact ==
  client = NoClient =>
    /\ ~interrupted => described = log
    /\ report.told \in {"ok", "error", "lost"} =>
         report.results = SubSeq(log, report.start + 1, Len(log))

Promise == INSTANCE CommittedPrefix WITH
  call <- IF client = NoClient THEN [input |-> <<>>, start |-> 0]
          ELSE [input |-> client.input, start |-> client.start],
  report <- [told |-> report.told, committed |-> Len(report.results)]

\* The call keeps the contract of GpuError, and returns.
ImplementsCommittedPrefix == Promise!Spec
===============================================================================
