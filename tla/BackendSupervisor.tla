--------------------------- MODULE BackendSupervisor ---------------------------
(***************************************************************************)
(* BackendSupervisor (src/tinyllm/serving/supervisor.py): the coroutines   *)
(* start, stop and _monitor_loop around a vLLM process group, which starts *)
(* up, answers, hangs, exits and leaves engine processes behind whenever   *)
(* it likes.  A step of the model runs from one await to the next.         *)
(***************************************************************************)
EXTENDS Integers, FiniteSets

CONSTANT RestartLimit       \* config.backend_restart_limit

ASSUME RestartAssumption == RestartLimit \in Nat

VARIABLES
    leader,     \* by generation: the process the supervisor spawned
    engine,     \* by generation: its EngineCore child, and the GPU memory it holds
    process,    \* self._process, as a generation; NoProcess is None
    ready,      \* the event self._ready
    restarts,   \* self._restarts
    starter,    \* where start() is
    monitor,    \* where _monitor_loop() is
    answer,     \* by waiter: the generation whose 200 lies in its socket
    stopper     \* where stop() is; self._stopping holds unless "idle"

groupVars == <<leader, engine>>
supervisorVars ==
    <<leader, engine, process, ready, restarts, starter, monitor, answer, stopper>>

Generations == 1..RestartLimit + 1
NoProcess == 0
Waiters == {"start", "monitor"}

SupervisorInit ==
    /\ leader = [g \in Generations |-> "none"]
    /\ engine = [g \in Generations |-> "none"]
    /\ process = NoProcess /\ ready = FALSE /\ restarts = 0
    /\ starter = "new" /\ monitor = "none" /\ stopper = "idle"
    /\ answer = [w \in Waiters |-> NoProcess]

Running(g) == leader[g] \in {"starting", "up"}
\* A generation at work, or what it had loaded for that.
Occupied(g) == Running(g) \/ engine[g] = "loaded"
\* inspect_selected_gpu: nvidia-smi reports the memory in use, whoever holds
\* it, and nothing of a process that holds none.
GpuFree == \A g \in Generations : engine[g] \notin {"loaded", "stray"}

\* The property ready.
Ready == ready /\ process # NoProcess /\ Running(process)

-----------------------------------------------------------------------------
(* start().                                                                *)

\* Preflight, directories, the first spawn and the task of the monitor.
Start ==
    /\ starter = "new" /\ GpuFree
    /\ leader' = [leader EXCEPT ![1] = "starting"]
    /\ process' = 1 /\ starter' = "waiting" /\ monitor' = "watching"
    /\ UNCHANGED <<engine, ready, restarts, answer, stopper>>

\* The GPU is busy, hot or unreadable: nothing has been spawned.
PreflightRejects ==
    /\ starter = "new" /\ starter' = "failed"
    /\ UNCHANGED <<groupVars, process, ready, restarts, monitor, answer, stopper>>

-----------------------------------------------------------------------------
(* _wait_until_healthy, in start() and in the monitor.                     *)

Waits(w) == IF w = "start" THEN starter = "waiting" ELSE monitor = "probing"
Proceed(w, place) ==
    /\ answer' = [answer EXCEPT ![w] = NoProcess]
    /\ IF w = "start" THEN starter' = place /\ UNCHANGED monitor
                      ELSE monitor' = "watching" /\ UNCHANGED starter

\* The current process answers GET /health with 200.
HealthAnswered(w) ==
    /\ Waits(w) /\ answer[w] = NoProcess
    /\ process # NoProcess /\ leader[process] = "up"
    /\ answer' = [answer EXCEPT ![w] = process]
    /\ UNCHANGED <<groupVars, process, ready, restarts, starter, monitor, stopper>>

\* The coroutine reads the answer, which may be all that is left of its sender.
HealthRead(w) ==
    /\ Waits(w) /\ answer[w] # NoProcess
    /\ ready' = TRUE /\ Proceed(w, "ready")
    /\ UNCHANGED <<groupVars, process, restarts, stopper>>

\* The startup timeout, or the process is found to have exited.
HealthFails(w) ==
    /\ Waits(w) /\ Proceed(w, "aborting")
    /\ UNCHANGED <<groupVars, process, ready, restarts, stopper>>

-----------------------------------------------------------------------------
(* _monitor_loop.                                                          *)

\* exited_process.wait() returns; SIGTERM goes to what is left of the group.
MonitorSeesExit ==
    /\ monitor = "watching" /\ process # NoProcess /\ leader[process] = "exited"
    /\ ready' = FALSE
    /\ IF stopper # "idle" \/ restarts >= RestartLimit
         THEN monitor' = "done" /\ UNCHANGED restarts
         ELSE monitor' = "releasing" /\ restarts' = restarts + 1
    /\ UNCHANGED <<groupVars, process, starter, answer, stopper>>

\* An answer that has arrived is read before nvidia-smi has run once.
SocketsRead == \A w \in Waiters : answer[w] = NoProcess

\* Mutant: the memory of the old group is not waited for.
MonitorDoesNotWait ==
    /\ monitor = "releasing" /\ SocketsRead
    /\ ready' = FALSE /\ monitor' = "spawning"
    /\ UNCHANGED <<groupVars, process, restarts, starter, answer, stopper>>
\* Mutant: _spawn does not clear the event again.
MonitorKeepsReady ==
    /\ monitor = "releasing" /\ GpuFree /\ SocketsRead
    /\ monitor' = "spawning"
    /\ UNCHANGED <<groupVars, process, ready, restarts, starter, answer, stopper>>
\* _wait_until_gpu_released returns and _spawn clears the event.
MonitorReleased ==
    /\ monitor = "releasing" /\ GpuFree /\ SocketsRead
    /\ ready' = FALSE /\ monitor' = "spawning"
    /\ UNCHANGED <<groupVars, process, restarts, starter, answer, stopper>>

\* The GPU is not released in time, or the executable cannot be run.
MonitorGivesUp ==
    /\ monitor \in {"releasing", "spawning"} /\ monitor' = "done"
    /\ UNCHANGED <<groupVars, process, ready, restarts, starter, answer, stopper>>

MonitorSpawns ==
    /\ monitor = "spawning"
    /\ process' = process + 1
    /\ leader' = [leader EXCEPT ![process + 1] = "starting"]
    /\ monitor' = "probing"
    /\ UNCHANGED <<engine, ready, restarts, starter, answer, stopper>>

-----------------------------------------------------------------------------
(* stop().                                                                 *)

StopFrom ==
    CASE process = NoProcess -> "done"
      [] process # NoProcess /\ Running(process) -> "killing"
      [] OTHER -> "releasing"

\* Mutant: the monitor goes on while the group is terminated.
BeginStopLate ==
    /\ stopper = "idle" /\ stopper' = StopFrom /\ ready' = FALSE
    /\ UNCHANGED <<groupVars, process, restarts, monitor, answer>>
\* The monitor is cancelled wherever it waits (a child it was creating is
\* killed with it), then SIGTERM goes to the group.
BeginStop ==
    /\ stopper = "idle" /\ stopper' = StopFrom /\ ready' = FALSE
    /\ monitor' = "none" /\ answer' = [answer EXCEPT !["monitor"] = NoProcess]
    /\ UNCHANGED <<groupVars, process, restarts>>

StopLeaderGone ==
    /\ stopper = "killing" /\ ~Running(process) /\ stopper' = "releasing"
    /\ UNCHANGED <<groupVars, process, ready, restarts, starter, monitor, answer>>

\* Mutant: wait() without a timeout and without SIGKILL.
StopWaitsForever == FALSE /\ UNCHANGED supervisorVars
\* SIGTERM was not enough: SIGKILL to the whole group.
StopKills ==
    /\ stopper = "killing" /\ Running(process) /\ stopper' = "releasing"
    /\ leader' = [leader EXCEPT ![process] = "exited"]
    /\ engine' = [engine EXCEPT ![process] = "none"]
    /\ UNCHANGED <<process, ready, restarts, starter, monitor, answer>>

StopReleased ==
    /\ stopper = "releasing" /\ GpuFree
    /\ stopper' = "done" /\ process' = NoProcess
    /\ UNCHANGED <<groupVars, ready, restarts, starter, monitor, answer>>

\* An engine outlives its leader, which ended at SIGTERM: stop() raises.
StopRaises ==
    /\ stopper = "releasing" /\ stopper' = "raised"
    /\ UNCHANGED <<groupVars, process, ready, restarts, starter, monitor, answer>>

\* start() stops everything before it raises.
StartAborts == starter = "aborting" /\ BeginStop /\ starter' = "stopped"
StartFails ==
    /\ starter = "stopped" /\ stopper \in {"done", "raised"}
    /\ starter' = "failed"
    /\ UNCHANGED <<groupVars, process, ready, restarts, monitor, answer, stopper>>

-----------------------------------------------------------------------------
(* The process groups.                                                     *)

OnlyGroups ==
    UNCHANGED <<process, ready, restarts, starter, monitor, answer, stopper>>

\* The leader starts its engine, which holds no memory at first.
EngineStarts(g) ==
    /\ leader[g] = "starting" /\ engine[g] = "none"
    /\ engine' = [engine EXCEPT ![g] = "empty"] /\ UNCHANGED leader /\ OnlyGroups
\* It takes its memory: one whose leader has gone is a stray that nobody looks
\* for, as SIGTERM is all that has been sent to it and nobody waits for it.
Loads(g) ==
    /\ engine[g] = "empty"
    /\ engine' = [engine EXCEPT ![g] = IF Running(g) THEN "loaded" ELSE "stray"]
    /\ UNCHANGED leader /\ OnlyGroups
ComesUp(g) ==
    /\ leader[g] = "starting" /\ engine[g] = "loaded"
    /\ leader' = [leader EXCEPT ![g] = "up"] /\ UNCHANGED engine /\ OnlyGroups
\* An exit, a crash, or the end SIGTERM asked for, with or without its engine.
LeaderExits(g) ==
    /\ Running(g) /\ leader' = [leader EXCEPT ![g] = "exited"]
    /\ \/ UNCHANGED engine
       \/ engine' = [engine EXCEPT ![g] = "none"]
    /\ OnlyGroups
\* What is left of a group ends, or has given back its memory and lingers.
EngineExits(g) ==
    /\ leader[g] = "exited" /\ engine[g] # "none"
    /\ \/ engine' = [engine EXCEPT ![g] = "none"]
       \/ engine[g] = "loaded" /\ engine' = [engine EXCEPT ![g] = "empty"]
    /\ UNCHANGED leader /\ OnlyGroups

Groups == \E g \in Generations :
            \/ EngineStarts(g) \/ Loads(g) \/ ComesUp(g)
            \/ LeaderExits(g) \/ EngineExits(g)
Stop == StopLeaderGone \/ StopKills \/ StopReleased \/ StopRaises
Monitor == MonitorSeesExit \/ MonitorReleased \/ MonitorGivesUp \/ MonitorSpawns
Health == \E w \in Waiters : HealthAnswered(w) \/ HealthRead(w) \/ HealthFails(w)

\* Every step but the calls of start() and stop(), which the lifespan makes.
SupervisorStep == Stop \/ Monitor \/ Health \/ StartAborts \/ StartFails \/ Groups

-----------------------------------------------------------------------------
(* Properties.                                                             *)

SupervisorTypeOK ==
    /\ leader \in [Generations -> {"none", "starting", "up", "exited"}]
    /\ engine \in [Generations -> {"none", "empty", "loaded", "stray"}]
    /\ process \in Generations \cup {NoProcess}
    /\ ready \in BOOLEAN /\ restarts \in 0..RestartLimit
    /\ starter \in {"new", "waiting", "ready", "aborting", "stopped", "failed"}
    /\ monitor \in {"none", "watching", "releasing", "spawning", "probing", "done"}
    /\ answer \in [Waiters -> Generations \cup {NoProcess}]
    /\ stopper \in {"idle", "killing", "releasing", "done", "raised"}

\* At most one generation of the backend runs or has on the GPU what it
\* loaded: a replacement starts only when its predecessor's leader is gone and
\* the memory is back.  An engine without memory at that moment is not seen,
\* whatever "the whole vLLM session" (supervisor.py:201) promises: it may
\* linger, and take memory as a stray, beside the replacement.
OneBackend == \A g, h \in Generations : Occupied(g) /\ Occupied(h) => g = h

\* What the readiness probes see: a supervisor that says ready has a current
\* process that has itself come up, whichever process sent the answer that
\* set the event.
ReadyIsCurrent == Ready => leader[process] = "up"

\* When stop() returns, no monitor is left to spawn a replacement, no leader
\* runs and nothing a generation loaded is on the GPU, also when the monitor
\* was replacing the backend at that moment.  As above, an engine without
\* memory may be left.
StopLeavesNothing ==
    stopper = "done" => monitor = "none" /\ \A g \in Generations : ~Occupied(g)
=============================================================================
