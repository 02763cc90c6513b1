# TinyLLM-System in TLA+

TLA+ models of the parts of TinyLLM-System where the order of events decides
whether the system is correct, the TLC configurations that check them on small
instances, and TLAPS proofs of the central results for instances of any size.
File names below are relative to the repository; `agent/` stands for
`src/tinyllm/agent/` and so on.

    tlc -config AgentRunCrash.cfg MCAgentRun.tla
    tlapm TrainingRunProofs.tla

## 1. The system

TinyLLM-System is a post-training, evaluation and serving platform for one
shared GPU workstation. Most of it is sequential data processing that produces
immutable directories. State that several actors change, or that has to
outlive a process, is kept in these components:

| Component | State | Operations | Hard behaviour |
| -- | -- | -- | -- |
| Agent run store (`agent/store.py`) | per run: `run.json`, `events.jsonl`, `approvals/`, `langgraph/*.sqlite3` | create, append_event, transition, decide_approval, expire_if_due, cancel | two-write operations, crashes, records that a later load refuses |
| Agent service and API (`agent/api.py`) | asyncio tasks by run | POST /runs, the event stream, start, resume, recover, refresh, cancel, shutdown | tasks, request handlers and restarts on the same files |
| Agent runtime (`agent/runtime.py`) | LangGraph state and its safe-node checkpoint | ten nodes from `receive_request` to `complete_message` | nodes run again after a crash, limits counted across restarts, an approval interrupt |
| MCP client and tools (`agent/mcp_client.py`, `agent/devops_tools.py`) | the sandbox files of a run | one call; approved patches | a timeout with the write still on its way, next to another one; exceptions out of a session |
| Checkpoint store (`training/checkpoint.py`) | checkpoint directories, `LATEST` | save, validate, latest, latest_valid, retention | kills between rename, `LATEST` and retention; damaged files |
| Training run (`training/run.py`) | `run.json`, the trainer's step | start, exact resume, SIGTERM | signals and kills at any step, restarts |
| DDP / FSDP2 checkpoint and recovery (`training/ddp_*.py`, `training/fsdp2_*.py`) | sharded checkpoints, a supervised world of ranks | collective save, relaunch | a rank that fails while the others wait |
| Backend supervisor, gateway (`serving/`) | child process, readiness, limiter, semaphore | start, stop, monitor, restart; requests | several coroutines and a process that exits |
| Production and Agent registries (`deployment/`) | immutable records and an alias | promote, rollback, resolve | two-file publication, concurrent operators |
| Data registry, importers, packing, mixtures (`data/`) | immutable dataset versions | publish, verify | publication; arithmetic of packing |
| Evaluation, benchmark, lineage, doctor, command line | reports | one-shot runs | none that outlives a call, except subprocess handling in `benchmark/supervisor.py` |

`PROJECT.json` lists every component with what is and is not modelled, and the
hazards of the code line by line, with the property that covers each one or the
reason why none does yet.

What makes each part correct, in a sentence: the **Agent** must never lose track
of a run (section 3 says where it does), apply a patch nobody approved, or
forget an outcome; the **checkpoint
store** must always offer a complete checkpoint to go on from; the **training
run** must stop where it was told, resume without losing ground, and report what
exists; the **supervisor** must keep at most one backend at work and never call a
dead one ready; the **registries** must always resolve to a published, verified
version; **recovery** must keep all ranks on one checkpoint and end a world before
starting the next.

## 2. Modules

    AgentRunStore ── AgentRun ── AgentRunProofs ── AgentRunLogProofs
                        │  │
                        │  └ INSTANCE AgentLifecycle (abstract specification)
                        └ MCAgentRun (instances for TLC)
    AgentIntake ── AgentIntakeProofs
    CheckpointStore ┬ TrainingRun ─────┐
       │            └ DistributedRun ─┐└ TrainingRunProofs
       └ CheckpointStoreProofs ───────┴─ DistributedRunProofs
    BackendSupervisor ── Gateway ── GatewayProofs
    ReleaseRegistry ── ReleaseRegistryProofs
       │  └ INSTANCE Release (abstract specification)
       └ MCReleaseRegistry (symmetry for TLC)

Two rules hold everywhere. Coroutines of one process interleave at their awaits
and nowhere else; processes, threads of different processes and the file system
interleave between any two durable writes, and a kill falls between any two of
them. Contents are abstracted to what a check of the code can tell apart: a
hash, a schema or a payload is valid or not.

### AgentRunStore, AgentRun

*State.* `run`, `log` and `approvals` are the durable files. `task`, `mem`,
`phase`, `seen`, `reply` are the asyncio task: which coroutine it runs, the
graph state at the last node boundary, the await it is at, `steps_completed` as
`_model_decision` read it before awaiting the model, and the value LangGraph
hands to `interrupt()`. `ckpt` is the SQLite checkpoint, `inflight` and
`sandbox` belong to the MCP servers. `tail` is the end of the event log: `clean`,
`open` (a last line without its end, which the next append spoils) or `corrupt`.

*Granularity.* A handler queues its writes in `todo` and `StoreStep` makes them
one by one; `Quiet` (no write left) is where another handler can start, and
`Crash` needs no `Quiet`. `append_event` is two writes, `event` and `cursor`;
`transition` is one, `move`. An operation that raises drops the writes after
it, and `Raise` is what `_execute` and `_resume` do with an exception they list,
including that `_fail_if_running` can raise in turn. `TaskEscapes` is one they do
not list: an exception raised inside an MCP session leaves the task groups of
`mcp_client.py:82-118` as an `ExceptionGroup`, which passes `mcp_client.py:280`,
`runtime.py:985` and `api.py:70-77`; the task is over (`escaped`) and nobody
records it. It can happen wherever a session is open (`InSession`). Exceptions
of a failing disk are out of scope here; `AgentIntake` has them for `create`.

*Actions.* One action per node (`ReceiveRequest` … `CompleteMessage`), with the
node's routes in the `node` it moves to; `_model_decision` and `_execute` are
split at their awaits (`ModelDecision`/`ModelAnswers`,
`CallMcpTool`/`SendCall`/`ToolReturns`). `TaskStart`, `TaskResume`,
`GraphEnds`, `TaskDone`, `TaskAborts` are the life of a task;
`Refresh`, `PostApproval`, `Cancel` the API; `Crash`, `Recover` the process;
`Tick` the clock. A shutdown cancels all tasks and loses memory, like a crash.

*Data.* A call is a model value; `Sig` gives its (server, tool, arguments)
identity, so two calls can be the same call under two ids. The model's answer
is any message or any batch of `Batches`: that covers the rules of `runtime.py`
that rewrite an answer (`_explicit_read_plan`, path refusals, clarifications),
which choose among answers and touch no state. Read tools return a result or
an error; only sandbox writes change something outside the run. Each of them is a
request of `inflight` with a server of its own, which first looks at the
approval and whether the file is there (`ServerClears`, `ServerFindsPatch`) and
later replaces it (`ServerWrites`), whatever has happened in between. An approval
identity is derived from the call, so approvals are indexed by call.

*External parts.* LangGraph is modelled by how the runtime uses it: the state
of a node boundary is stored at some time before the next boundary, an
invocation goes on from the stored state, and a resume value stored before a
crash may or may not be found again. An MCP server works on a request, or
drops it, whether or not its client is still there.

### AgentLifecycle

The abstract specification: a status that ends at a terminal one; a log that
only grows; `waiting_approval` only for a call whose `approval.required` is the
last event; a run that waits goes on only after a decision on that call; an
outcome only when the log's last event says so; a gated tool started only with
an approval; a sandbox file that gets only patches of approved calls, each by a
request that has found the file missing (`Clear`, then `Patch`: two requests may
find that before either writes). It has no processes, crashes or time. `FollowsLifecycle` is `AgentLifecycle!Spec` under the mapping
`status <- run.status, pending <- run.pending, decided <- approvals`,
`cleared <- Cleared` (`log` and `sandbox` map to themselves).

### AgentIntake

The complement of `AgentRun`: all runs of one store, each in less detail.
`files` says which of the four files of `create` a run directory has, `key` what
its index says, `status`, `cursor` and `late` what `run.json` says (`late`: an
`updated_at` after `expires_at`, which no load accepts), `lines` and `tail` the
event log, whose last line a kill can leave whole, without its end (`open`:
still readable, but the next append makes one line of two) or in part
(`corrupt`). `task` is the table of asyncio tasks, `stream` the one event
stream of a client that reconnects with the last id it received (`got`).

`PostNew` queues the files of `create`, then `service.start`, then the answer;
`PostKnown` is a key that the index knows; `CreateFails` an `OSError` between
two files. `Startup` is the lifespan of the gateway: `list_records`, and
`expire_if_due` and `start` of each record in turn, before it serves.
`TaskStart` is `_execute` up to the first node; `TaskWorks` any event of the
graph, `TaskEnds` an answer, a failure or the timeout, `TaskEscapes` the
exception nobody catches. `Cancel` cancels the
task before it asks the store. `StreamRead`, `StreamYield`, `StreamCheck` are
the loop of `get_events` between its yields. Runs that wait for an approval are
`AgentRun`'s.

### CheckpointStore, TrainingRun

`dirs[s]` says what `checkpoint-step-<s>` holds: nothing, a checkpoint that
passes `validate`, one half removed by retention, or one that is broken. `save`
is a sequence of effects (`WriteTemporary`, `RenameTemporary`,
`ValidatePublished`, `UpdateLatest`, `RemoveExpired`, `EndSave`), with
`FailSave` for its `except` clauses and `KillSave` for a death at any point.
`TrainingRun` is `run_single_device_training` around it: `Start`, `Resume`,
`TrainStep`, `PeriodicSave`, `CheckSignal`, `FinalSave`, `Report`, in the order
of the function, with `SigTerm`, `Kill`, `Damage` and failing saves at any time.
`termStep` and `collided` are history variables of properties. Temporary
directories are invisible to every reader and are not part of the state. A run
that dies before its first `run.json` starts again under a new run id, which is
the initial state.

### DistributedRun

`run_ddp_recovery` and `run_fsdp2_recovery` in one module: the variable
`strategy` chooses where they differ. A world of ranks runs in step through its
collectives. `Together(place)` is a collective: all ranks have to be alive;
`RankZero(place)` is what rank 0 does between two of them; `Restore(k)` and
`WriteShard(k)` are what each rank does for itself. `Select` is the choice of
the checkpoint by rank 0 with the reconciliation of `metrics.jsonl`, `Gather`,
`Publish` and the effects of `CheckpointStore` the collective save, `Report` and
`Finish` the two ends of the loop. `RankDies` takes a rank anywhere, `EndWorld`
is torchrun killing the others; `Resume` starts the next world. `torn` says that
rank 0 was killed within the write of a metrics row; `_truncate_metrics` then
refuses the file, so that no later world gets past `Select`. DDP takes back
a publication that fails, FSDP2 leaves it; DDP lets an exception of the
selection be rank 0's own, FSDP2 broadcasts it.

### BackendSupervisor, Gateway

A *generation* is one spawn of vLLM: a leader process and an engine process,
which is there before it holds GPU memory (`empty`), holds it (`loaded`), may
outlive its leader, and may then give the memory back and linger. The supervisor
sees the memory only (`GpuFree`), so an engine that is `empty` when its group is
ended escapes it, and is a `stray` if it loads afterwards. `starter`, `monitor` and `stopper` say
at which await `start`, `_monitor_loop` and `stop` are; `answer[w]` is the
response to a health probe that lies in a socket, so that it can be read after
its sender died. `Gateway` puts the lifespan around it (`app`), and adds the
sliding window (`stamps`), the semaphore (`slots`), the gauge (`inflight`) and
the chat requests, streamed or not, from the queue to the `finally` clauses.
`held[r]` is all that is left of the stream filters: whether one of them holds
back a partial frame, which the `finally` clause then yields. `admissions` is a
history variable.

### Release, ReleaseRegistry

Operators run `promote`, `rollback` and `resolve` of either registry without a
lock. A command is
a record `op[o]` that carries what it has read from one file operation to the
next; every file operation is an action. `kind` distinguishes the production
registry, whose record is published with its directory and cannot be
overwritten, from the Agent registry, whose record is a file that `os.replace`
replaces. `promoted_at` makes a record's hash unique to the command that wrote
it. Two history variables say what the code does not prevent: `overlapped`, the
versions whose Agent record two promotions at a time found missing, and
`overtaken`, the operators about to move an alias that has moved since they read
it. `Release` is the abstract register: versions published once, from accepted
gates, one of them active. `ImplementsRelease` maps `published` to the versions
with a record and `active` to the alias.

## 3. What the runs check

| Run | Instance | States |
| -- | -- | -- |
| `agent_crash` | one read, two writes of one file, a crash at or within any write, the clock past the deadline | 660 thousand |
| `agent_nominal` | no crash; batches of two calls, a read under two ids, two different patches | 410 thousand |
| `agent_intake` | one key, two run directories, two crashes or failing writes, time past the deadline | 290 thousand |
| `training_faults` | six steps, two kills, two SIGTERMs, one failed save, one damaged checkpoint | 200 thousand |
| `distributed` | two ranks, DDP and FSDP2, four steps, two deaths, one failed save, one damaged checkpoint | 470 thousand |
| `serving` | one restart, two chats for one slot, two requests in a minute of two ticks | 330 thousand |
| `registry` | two operators of both registries, three versions, four commands, one drift | 1.7 million |
| `agent_deadline`, `agent_approval`, `training_sigterm`, `gateway_disconnect`, `fsdp2_final` | statements of the repository that its code does not keep | |

**agent_crash.** `CursorFollowsLog`: `last_event_sequence` never runs ahead of
the log (every later append would be refused) and lags by at most one event per
crash. `NoToolLoop`: in the durable log no signature is proposed more than twice
in a row, also when nodes are run again. `CheckpointBehindLog`: a checkpoint
never remembers a result the log lacks. `FollowsLifecycle`: the refinement.
`EventuallyTerminal`: every run that is polled ends, by its expiry if by nothing
else, also when an exception nobody catches ended its task. The clock of this run
goes past the deadline, so the formula has the exception the code has: `Broken`,
a record that an event after the deadline made unloadable, or a torn log.

**agent_nominal.** These hold only when no node is executed twice and no event
comes after the deadline, so the run has no crash and its clock stops at the
deadline: `ToolCallsCounted` (counter, `tool.started` events and limit agree),
`ActiveRunHasTask` (no active run is orphaned but by `TaskEscapes`), `OutcomeIsLast` (nothing is
logged after an outcome), `SuccessfulReadOnce` (duplicate suppression works
within an answer and across answers), and `ActiveRunSettles`: the limits of the
graph end a run, or the exception that escapes its task does, without the help
of the deadline.

**agent_intake.** `KeyNamesOneRun`: two answers to one `Idempotency-Key` name
the same run, wherever `create` was interrupted. `RunsPerKey`: each fault leaves
at most one run more, which nobody was told of and recovery executes.
`StreamSendsAll`: a stream that ends has sent the whole log of an ended run,
over all reconnections. `ToldRunHasTask`, `ToldRunEnds`: a run a client was told
of has its task whenever the gateway serves, and comes to its end. Three
exceptions are in the formulas because the code has them. `escaped`: the task
ended with an exception nobody catches. `Overdue`: a
cancellation after the deadline stops the task, its transition is refused, and
the run waits for a read to expire it. `Broken`: the log or the record of a run
cannot be read any more (a torn line, or an event after the deadline).

**training_faults.** `LatestIsValid`: what `LATEST` names is complete in spite
of kills, failed saves and retention. `PinsAreKept`, `ResumeKeepsProgress`,
`ReportedCheckpointExists`, `TermWithinOneStep`, and `DamageIsSurvived`: with
two checkpoints kept, one damaged file leaves another to resume from.

**distributed.** `RanksAgree`: every rank trains from the same checkpoint and is
at the same step, although each reads the checkpoint for itself while
checkpoints go bad. `MetricsAreCanonical`: no step has two rows or none, and no
checkpoint is ahead of the rows (of whole rows: a torn one ends the run for
good). `LatestIsValid`, `ReportedCheckpointExists`,
`ResumeKeepsProgress` as for one device, under the collective save. `WorldEnds`:
nobody waits for ever in a collective.

**serving.** `OneBackend`: of two generations, never both run or hold on the
GPU what they loaded. `ReadyIsCurrent`: ready means that the present process has itself
come up, whichever process sent the answer that set the event.
`StopLeavesNothing`: after `stop` no monitor, no leader and no loaded memory is
left, also if the monitor was replacing the backend. Neither excludes an engine
that held no memory when its group was ended. `AtMostMaxConcurrency`, `RateIsLimited`
(in any window, not only in those that begin at a request), and `LifespanGoesOn`:
a start is over, and a stop is over, sooner or later.

**registry.** `ProductionAliasMatches`, `AgentAliasMatches`: an alias names a
record that is there and has the hash the alias has of it.
`RollbackTargetExists`, `PreviousIsPredecessor`: a rollback has a target, which
is the version that was active before. `ResolveFailsOnDriftOnly`: a resolver
among concurrent promotions refuses only artifacts that have changed. The code
has no lock, and two operators meet on either registry here: the two Agent
properties except versions in `overlapped`, and `PreviousIsPredecessor` a writer
in `overtaken`. TLC finds all three violated without these exceptions, so the
instance reaches them.
`ImplementsRelease`: the refinement. Operators do the same, and so
do versions with accepted gates; every property treats them alike, and none
is a liveness property, so symmetry is sound.

**Type invariants.** `TypeOK` of `AgentRun`, `TrainingRun`, `DistributedRun`,
`Gateway` and `ReleaseRegistry` is proved for all instances (section 4) and not
repeated in their runs; that of `AgentIntake` is checked by its run.

**Fairness.** The Agent: weak, on `StoreStep` and `TaskStep` (the event loop
runs what is ready, and every await of a node has a timeout in the code), and on
`Tick`, `Refresh` and `Recover` (time passes, clients poll, the process is
started again). `AgentIntake`: weak on `Step` and `Startup`, strong on
`TaskStart` and `TaskEnds`, because the ready queue of the event loop is
first-in-first-out, and `run_timeout_seconds` ends a task however often other
handlers come in between. `Gateway`: weak on the waits of the supervisor, each
of which has a timeout, and on the lifespan; nothing is assumed of the backend,
the clients or the clock. `DistributedRun`: weak on `World` (the processes run)
and `EndWorld` (torchrun watches them); nobody has to start a world. No fairness
is assumed of humans, of the MCP server or of failures.

**Timing.** One assumption is not guarded by the code: `SocketsRead`, an answer
to a health probe that has arrived is read before the monitor's first look at
the GPU is over. That look starts `nvidia-smi`; the probe is an `await` on a
socket that is readable. Without it, `ReadyIsCurrent` could fail for the length
of a read.

**Bounds.** `MaxTime`, `MaxCrashes`, `MaxFaults`, `MaxRuns`, `MaxLines`,
`Batches`, `MaxKills`, `MaxTerms`, `MaxErrors`, `MaxDamage`, `MaxDeaths`,
`MaxCommands`, `MaxDrift` bound the environment and are the only bounds;
`MaxSteps`, `MaxToolCalls`, `RepeatLimit`, `KeepLast`, `SaveSteps`, `WorldSize`,
`RestartLimit`, `MaxConcurrency`, `RateLimit` are parameters of the code with
small values. With crashes, one model step and a limit of one proposal in a row
are enough: a node that runs again asks a second time, and an answer of two
writes goes from one call to the next; without crashes there are three steps,
and pairs of calls that repeat and mix. The clock of `agent_crash` goes one tick
past the deadline, which is where a late event makes a record unloadable. One crash is enough for every checkpoint/log divergence that a single
recovery can see. In `AgentIntake` a second run directory is needed for a run
whose index was lost, and two faults for a torn line that is met again after the
next restart; `Life = 1` with `MaxTime = 2` gives a time before, at and after
the deadline. Six training steps with a save every two give three saves with
`KeepLast = 2`, so retention removes one, and a final save; the distributed
instance has `KeepLast = 1`, so that the second save retires the first. One
restart gives two generations, of which the second comes while the first may
not be gone, and is itself beyond the limit; the proofs are for any limit. Four
commands are enough for two promotions
that overtake each other, a rollback and a resolve. What holds on these
instances is, for all properties listed in section 4, proved for any values.
`CHECK_DEADLOCK` is off where a behaviour has an end: a finished run, an ended
gateway, commands or bounds used up. `distributed` checks deadlock.

**Violations.** Each is a finding of `PROJECT.json` with the quoted text:
an event appended after `expires_at` makes a record unloadable, and with it
the restart of the gateway (`agent_deadline`); an approval that arrives before
the asking task is done resumes nothing (`agent_approval`); a SIGTERM at a
periodic save collides with it (`training_sigterm`); a client that leaves while
its stream holds back a frame keeps its slot and its place in the gauge
(`gateway_disconnect`); an FSDP2 world that dies between the final checkpoint
and `run.json` leaves a run that is never called succeeded (`fsdp2_final`).

The models show further divergences that have no run of their own:

- A kill between the last rename and `LATEST` makes a training run collide with
  its own directory, as the SIGTERM does (`training/run.py:302`).
- A tool call that is executed again after a crash is counted twice, so that the
  limit is reached early and the log has more `tool.started` events than the
  limit (`ToolCallsCounted` is stated without crashes).
- An MCP error raised inside a session, a bad result or a missing tool for
  instance, ends the task as an `ExceptionGroup` that no handler catches, although
  `api.py:70-77` lists `MCPClientError`; the run stays active without a task
  until it expires (`task = "escaped"`). `tests/unit/test_agent_api.py:242-262`
  tests the handlers with an exception raised outside any task group.
- Two sandbox writes, the first timed out and still on its way, can both find no
  target and both write: `docs/m8_agent_contract.md:93` says that a conflicting
  target is refused, but `devops_tools.py:347` looks and `:358` replaces
  (`Cleared` can hold two requests).
- An EngineCore that holds no GPU memory when its group is ended survives
  `_terminate_process_group`, which "terminates the whole vLLM session"
  (`serving/supervisor.py:201`): SIGKILL goes to the group only if the leader
  outlives SIGTERM (`engine[g] = "empty"` with `stopper = "done"`).
- `create` promises "an existing identity for a repeated key"
  (`agent/store.py:100`): killed before its index is written, a retry makes a
  second run and recovery executes both (`RunsPerKey` bounds them).
- A run killed between its index and `events.jsonl`, or with a torn event line,
  can never append again and fails to expire; after its deadline `recover`
  raises and the gateway does not start, against the recovery of
  `docs/m8_agent_contract.md` section 3 (`Broken` in `ToldRunEnds`).
- Two operators of the Agent registry can leave an alias whose hash is that of an
  overwritten record (`overlapped`). A repeated promotion is then refused, because
  the alias may not be its own predecessor, so the alias stays unresolvable until
  another version is promoted and rolled back.
- Two operators of one registry can lose a version from the chain of
  predecessors (`overtaken`).
- A kill within the write of a metrics row leaves a part of a row, which makes
  `_truncate_metrics` raise in every later resume (`torn`).
- A lifespan whose `agent_startup`, `agent_shutdown` or `backend.close` raises
  never calls `supervisor.stop` (`app = "failed"` with a live generation).
- A restarted backend that never becomes healthy is not given up: the monitor
  goes back to waiting for its exit (`HealthFails("monitor")`).
- `run.json` is not set back to `running` by a resume, so that a run that trains
  again still says `interrupted` or `failure_injected`
  (`docs/m3_ddp_recovery_contract.md:126`).

Mutants (`Mutant:` comments in the modules) are plausible bugs of one definition
each; every property of a passing run is violated by one of them.

## 4. What is proved

Checked by TLAPS, for every value of the constants that satisfies the named
assumptions of the modules: limits and fields are naturals (positive where the
configuration demands it), `NoCall` is not a call, `None` is not a version,
batches are non-empty sequences. Nothing is assumed of the number of operators
of a registry.

| Module | Theorems |
| -- | -- |
| `AgentRunProofs` | `TypeCorrectness`, `Invariance`, `Refinement` (`FollowsLifecycle`) |
| `AgentRunLogProofs` | `CursorFollowsLog`, `CheckpointBehindLog`, `NoToolLoop`; while `Nominal`: `ToolCallsCounted`, `ActiveRunHasTask`, `OutcomeIsLast`, `SuccessfulReadOnce` |
| `AgentIntakeProofs` | `TypeCorrectness`, `Invariance`, `KeyNamesOneRun`, `RunsPerKey`, `StreamSendsAll`, `ToldRunHasTask` |
| `CheckpointStoreProofs` | lemmas about each effect of a save and about what retention leaves, used by the next two |
| `TrainingRunProofs` | `TypeCorrectness`, `Invariance`, `LatestIsValid`, `ReportedCheckpointExists`, `TermWithinOneStep`, `PinsAreKept`, `ResumeKeepsProgress`, `DamageIsSurvived` |
| `DistributedRunProofs` | `TypeCorrectness`, `Invariance`, `RanksAgree`, `MetricsAreCanonical`, `LatestIsValid`, `ReportedCheckpointExists`, `ResumeKeepsProgress` |
| `GatewayProofs` | `TypeCorrectness`, `Invariance`, `OneBackend`, `ReadyIsCurrent`, `StopLeavesNothing`, `AtMostMaxConcurrency`, `RateIsLimited` |
| `ReleaseRegistryProofs` | `TypeCorrectness`, `Invariance`, `ProductionAliasMatches`, `AgentAliasMatches`, `RollbackTargetExists`, `ResolveFailsOnDriftOnly`, `PreviousIsPredecessor`, `ImplementsRelease` |

*Agent.* That a step of `StoreMove` is a step of `AgentLifecycle` depends on
writes a handler queued several steps earlier: the status may become `failed`
because the queue's previous write was `run.failed`. `IInv` carries that along
in parts. `GraphOK`: a graph state, in memory or in the checkpoint, is well
formed, and only the nodes from the approval to the observation carry the gate.
`TaskInv`: what a task that exists implies. `WaitInv`: a run that waits has its
call's `approval.required` as last event, and its pending call needs approval.
`ScriptInv`: every queued `move` is preceded, in the queue or at the end of the
log, by the event that explains it. The refinement then goes action by action:
`StoreEvent` is `Record`; `StoreMove` is `Run`, `Suspend` or `Finish` by the
target status; `PostApproval` is `Decide`; `Cancel` is `Finish("cancelled")`;
`ServerClears` is `Clear`, `ServerWrites` is `Patch`; everything else is a
stutter. `Requests` carry the life of the process that sent them, so that a
request of a node that runs again is told from the one it repeats.

That the cursor and the checkpoints stay behind the log (`LInv`) rests on the
shape of what a handler queues: each event is followed by its cursor (`Paired`),
so a script that a raising store operation drops never loses a cursor alone,
and only a crash can. `ResultInv` says that the
graph in memory is ahead of the log by no more than what its own handler is
about to write (`Pending`); a checkpoint is made when nothing is pending. Every
handler that starts at an await satisfies `Starts`, and one lemma takes `Starts`
to the invariant. `NoToolLoop` needs that a proposal is queued first in its
script and only of a call that `Repeated` has just allowed on the same log
(`Asks`): nothing but a crash comes between the look at the log and the write.

Four properties hold of runs that no crash has hit and whose deadline has not
passed, which is what `Nominal` says and what `agent_nominal` checks: a crash
makes a node run again, so that its call is counted and executed twice, and
after the deadline the store refuses the transitions of a task, or an event makes
the record unloadable (`agent_deadline`). They are stated as
`[](Nominal => ...)`, from `LInv` and a second invariant that is inductive as
long as `Nominal` lasts (`NominalInv`): `QueueN` says where in a script an
outcome, a `tool.started` and a `run.started` can stand, and which count its
transition carries; `CountN` that `tool_calls_completed` is the number of
`tool.started` events unless the transition that brings it up is still queued;
`TaskN` which task each status implies; `LogN` that nothing follows an outcome;
`ReadN` that every read that gave a result is remembered by the graph, so that
none of them is queued again.

*Intake.* `IInv` has a part for each actor. `ScriptInv`: every handler but
`create` has queued operations on one run, each event with its cursor and the
end of a task behind a terminal transition only (`Script`); `create` is at its
n-th operation, and the files of its run are exactly the n - 1 before
(`CreateAt`). `KeyInv`: a run *holds* its key when the index knows it or `create`
is on the way there; two holders of one key are one run. That, and not the index
alone, is what `PostNew` keeps, because between its look into the index and the
write no other handler runs. `DebrisInv`: a recorded run that holds nothing costs
a fault. `StreamInv`: what the stream has sent is what its client has, and the
log is no longer than it has read or the cursor says, unless the cursor is
about to be written; since no event follows a terminal status, `StreamOver`
then implies completeness. `TaskInv`: a recorded run is *settled* (ended, broken,
overdue, with a task or with one that escaped), or its own creation or cancellation is still
running; during startup the records before the current one are settled. An
error of a handler (`Raises`) settles the run it was about, which is where the
dates of its writes matter: a transition is refused only when the run has
ended, is broken, or the present is past its expiry.

*Checkpoints.* `LatestIsValid` is not inductive: between the rename and the end
of retention the directories, `LATEST` and the save in progress have to be
related at each effect. The store's part of the invariant says so once
(`CheckpointStoreProofs`); the single-device and the distributed program add
what their own phases know: which step is being saved, that retention never
takes the checkpoint `LATEST` names nor a pinned one, that a report is made only
of a step whose save has returned. For the ranks, the distributed invariant also
says where the world is between two collectives, so that a rank that restored is
at the chosen step, and that the rows reach at least the newest valid checkpoint.

`DamageIsSurvived` needs a second invariant (`Survives`), about the checkpoints a
failure of the save in progress would leave (`Kept`). As long as nothing is
damaged, a process past its first periodic save has one of them (`PastFirst`),
and one beyond the step of that save is never alone (`NeverAlone`): a new
checkpoint joins the one `PastFirst` provides, and retention either removes
nothing or leaves two newer ones, which is where `KeepLast >= 2` is used. The
first damage then hits one of two; from there on `Survives` carries the other,
through the window in which a new checkpoint is published and `LATEST` has not
moved yet.

*Gateway.* `OneBackend` needs to know which coroutine is allowed to have a
generation in its hands at each await: a monitor that is about to spawn has seen
the GPU free and the old leader exited; while `stop` terminates, no monitor
exists; a generation above the current one was never spawned; an engine whose
leader is gone and that loads is a stray, so that it never counts as occupied
again. The limiter's
invariant relates the deque to the history of admissions: the deque is its
suffix that is still fresh. The semaphore's relates the number of free slots to
the requests that hold one or have lost one.

*Registry.* The invariant gives, for every place of a command, what the command
has established: the record of its target exists with the hash it carries, which
for the production registry no other command can change, and for the Agent
registry only one that found the record missing before it was written, which
puts the version into `overlapped`.

Every invariant and every action property the passing runs check is the subject
of a theorem. Only model-checked are the liveness properties
(`EventuallyTerminal`, `ActiveRunSettles`, `ToldRunEnds`, `LifespanGoesOn`,
`WorldEnds`): fairness and `ENABLED` are outside the prover's reach.

## 5. Not modelled, and the plan

Next, in this order:

1. **Proofs**: an abstract specification of the store of checkpoints (publish,
   forget, name the newest) that `TrainingRun` and `DistributedRun` implement,
   in the manner of `Release`.
2. **Data registry** (`data/registry.py`): publication of an immutable dataset
   version, in the manner of `CheckpointStore`.
3. **Pure algorithms**: sampler order, learning-rate schedule and packing,
   against reference definitions over bounded inputs.
4. **Benchmark supervisor** (`benchmark/supervisor.py`) and the **training
   campaigns** (`training/m4_*`, `m5_*`, `m10_*`), whose process handling and
   resume loops repeat those modelled here.

Left out for good: tensor arithmetic and numerical agreement of resumed runs;
file contents, hashes and schemas beyond whether they validate; prompt and text
handling, and what the stream filters do to the text; importers, mixtures,
evaluation scoring, reports and the command line, which are sequential and keep
no state between calls.
