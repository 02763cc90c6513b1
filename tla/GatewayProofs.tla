----------------------------- MODULE GatewayProofs -----------------------------
(***************************************************************************)
(* What the gateway and its supervisor keep, for any restart limit, any    *)
(* number of requests, slots and admissions a minute.                      *)
(***************************************************************************)
EXTENDS Gateway, FiniteSetTheorems, SequenceTheorems, TLAPS

(***************************************************************************)
(* The inductive invariant of the supervisor.                              *)
(***************************************************************************)
Answered(w) == answer[w] # NoProcess
\* The current process has come up, and may have gone since.
WasUp == process # NoProcess /\ leader[process] \in {"up", "exited"}

\* No generation but the current one runs or has on the GPU what it loaded.
Owned == \A g \in Generations : Occupied(g) => g = process

\* What the release of the memory shows, and no stray undoes.
Vacant == \A g \in Generations : ~Occupied(g)

MonitorInv ==
    /\ monitor \in {"watching", "probing"} => process = restarts + 1
    /\ monitor \in {"releasing", "spawning"} =>
         process # NoProcess /\ process = restarts /\ leader[process] = "exited"
    /\ monitor = "spawning" => Vacant /\ SocketsRead /\ ~ready

StartInv ==
    starter = "new" =>
        /\ process = NoProcess /\ restarts = 0 /\ ~ready
        /\ monitor = "none" /\ stopper = "idle"

StopInv ==
    /\ stopper # "idle" => monitor = "none" /\ starter \in {"ready", "stopped", "failed"}
    /\ stopper = "killing" => process # NoProcess
    /\ stopper = "releasing" => process # NoProcess /\ ~Running(process)
    /\ stopper = "done" => process = NoProcess

HealthInv ==
    /\ \A w \in Waiters : Answered(w) => Waits(w) /\ WasUp
    /\ ready => process = NoProcess \/ WasUp

SInv == SupervisorTypeOK /\ Owned /\ MonitorInv /\ StartInv /\ StopInv /\ HealthInv

-----------------------------------------------------------------------------
LEMMA SupervisorInitInv == SupervisorInit => SInv
<1> SUFFICES ASSUME SupervisorInit PROVE SInv
  OBVIOUS
<1>1. SupervisorTypeOK
  <2>1. engine \in [Generations -> {"none", "empty", "loaded", "stray"}] /\ ready \in BOOLEAN
    BY DEF SupervisorInit
  <2>2. leader \in [Generations -> {"none", "starting", "up", "exited"}]
    BY DEF SupervisorInit
  <2>3. answer \in [Waiters -> Generations \cup {NoProcess}]
    BY DEF SupervisorInit
  <2>4. restarts \in 0..RestartLimit
    BY RestartAssumption DEF SupervisorInit
  <2> QED BY <2>1, <2>2, <2>3, <2>4 DEF SupervisorInit, SupervisorTypeOK
<1>2. Owned
  BY DEF SupervisorInit, Owned, Occupied, Running
<1>3. MonitorInv /\ StartInv /\ StopInv
  BY DEF SupervisorInit, MonitorInv, StartInv, StopInv
<1>4. HealthInv
  BY DEF SupervisorInit, HealthInv, Answered
<1> QED BY <1>1, <1>2, <1>3, <1>4 DEF SInv

\* The parts of the invariant.
LEMMA Parts ==
  ASSUME SInv
  PROVE  /\ leader \in [Generations -> {"none", "starting", "up", "exited"}]
         /\ engine \in [Generations -> {"none", "empty", "loaded", "stray"}]
         /\ process \in Generations \cup {NoProcess} /\ NoProcess \notin Generations
         /\ answer \in [Waiters -> Generations \cup {NoProcess}]
         /\ ready \in BOOLEAN /\ restarts \in 0..RestartLimit
         /\ RestartLimit \in Nat /\ Generations = 1..RestartLimit + 1 /\ NoProcess = 0
         /\ Owned /\ MonitorInv /\ StartInv /\ StopInv /\ HealthInv
  BY RestartAssumption DEF SInv, SupervisorTypeOK, Generations, NoProcess

\* No answer is on its way when nobody waits for one.
LEMMA NobodyWaits ==
  ASSUME SInv, ~Waits("start"), ~Waits("monitor") PROVE SocketsRead
  BY Parts DEF HealthInv, Answered, SocketsRead, Waiters

LEMMA StartSInv == ASSUME SInv, Start \/ PreflightRejects PROVE SInv'
<1>1. CASE Start
  <2>1. /\ SocketsRead /\ 1 \in Generations /\ process' = 1
        /\ leader' = [leader EXCEPT ![1] = "starting"]
        /\ UNCHANGED <<engine, ready, restarts, answer, stopper>>
        /\ starter' = "waiting" /\ monitor' = "watching" /\ ~ready /\ restarts = 0
        /\ stopper = "idle"
    BY <1>1, NobodyWaits, Parts DEF Start, StartInv, Waits
  <2>2. SupervisorTypeOK'
    BY <2>1 DEF SInv, SupervisorTypeOK
  <2>3. Owned'
    <3>1. \A g \in Generations : ~Occupied(g)
      BY <1>1, Parts DEF Owned, Start, StartInv
    <3> QED BY <2>1, <3>1, Parts DEF Owned, Occupied, Running
  <2>4. HealthInv'
    BY <2>1 DEF HealthInv, Answered, SocketsRead
  <2> QED BY <2>1, <2>2, <2>3, <2>4, Parts DEF SInv, MonitorInv, StartInv, StopInv
<1>2. CASE PreflightRejects
  BY <1>2 DEF PreflightRejects, SInv, SupervisorTypeOK, Owned, MonitorInv, StartInv,
     StopInv, HealthInv, Answered, Waits, WasUp, Occupied, Running, groupVars, Vacant,
     SocketsRead
<1> QED BY <1>1, <1>2

LEMMA HealthSInv == ASSUME SInv, Health PROVE SInv'
<1> PICK w \in Waiters : HealthAnswered(w) \/ HealthRead(w) \/ HealthFails(w)
  BY DEF Health
<1>1. CASE HealthAnswered(w)
  <2>1. /\ answer' = [answer EXCEPT ![w] = process] /\ Waits(w)
        /\ process # NoProcess /\ leader[process] = "up"
        /\ UNCHANGED <<leader, engine, process, ready, restarts, starter, monitor, stopper>>
    BY <1>1 DEF HealthAnswered, groupVars
  <2>2. monitor # "spawning"
    BY <2>1, Parts DEF MonitorInv
  <2>3. SupervisorTypeOK'
    BY <2>1 DEF SInv, SupervisorTypeOK
  <2>4. HealthInv'
    BY <2>1, Parts DEF HealthInv, Answered, WasUp, Waits
  <2> QED BY <2>1, <2>2, <2>3, <2>4, Parts
       DEF SInv, Owned, MonitorInv, StartInv, StopInv, Occupied, Running
<1>2. CASE HealthRead(w) \/ HealthFails(w)
  <2>1. /\ answer' = [answer EXCEPT ![w] = NoProcess] /\ Waits(w)
        /\ UNCHANGED <<leader, engine, process, restarts, stopper>>
        /\ ready' \in {ready, TRUE} /\ (ready' # ready => Answered(w))
        /\ IF w = "start" THEN starter' \in {"ready", "aborting"} /\ monitor' = monitor
                          ELSE monitor' = "watching" /\ starter' = starter
    BY <1>2, Parts DEF HealthRead, HealthFails, Proceed, groupVars, Answered
  <2>2. SupervisorTypeOK'
    BY <2>1 DEF SInv, SupervisorTypeOK
  <2>3. HealthInv'
    BY <2>1, Parts DEF HealthInv, Answered, WasUp, Waits, Waiters
  <2>4. MonitorInv'
    <3>1. Vacant => Vacant'
      BY <2>1 DEF Vacant, Occupied, Running
    <3>2. SocketsRead => SocketsRead'
      BY <2>1, Parts DEF SocketsRead
    <3> QED BY <2>1, <3>1, <3>2, Parts DEF MonitorInv, Waits, Waiters, SocketsRead, Answered
  <2>5. StartInv' /\ StopInv' /\ Owned'
    BY <2>1, Parts DEF StartInv, StopInv, Owned, Waits, Waiters, Occupied, Running
  <2> QED BY <2>2, <2>3, <2>4, <2>5 DEF SInv
<1> QED BY <1>1, <1>2

LEMMA MonitorSInv == ASSUME SInv, Monitor PROVE SInv'
<1>1. CASE MonitorSeesExit \/ MonitorReleased \/ MonitorGivesUp
  <2>1. /\ UNCHANGED <<leader, engine, process, starter, answer, stopper>>
        /\ monitor \in {"watching", "releasing", "spawning"}
        /\ ready' \in BOOLEAN /\ (ready' => ready)
        /\ restarts' \in 0..RestartLimit
        /\ \/ monitor' = "done" /\ restarts' = restarts
           \/ /\ monitor' = "releasing" /\ restarts' = restarts + 1
              /\ monitor = "watching" /\ process # NoProcess /\ leader[process] = "exited"
           \/ /\ monitor' = "spawning" /\ restarts' = restarts /\ monitor = "releasing"
              /\ Vacant /\ SocketsRead /\ ready' = FALSE
    <3>1. CASE MonitorSeesExit
      <4>1. ready' = FALSE
        BY <3>1 DEF MonitorSeesExit
      <4>2. /\ UNCHANGED <<leader, engine, process, starter, answer, stopper>>
            /\ monitor = "watching" /\ process # NoProcess /\ leader[process] = "exited"
        BY <3>1 DEF MonitorSeesExit, groupVars
      <4>3. /\ restarts' \in 0..RestartLimit
            /\ \/ monitor' = "done" /\ restarts' = restarts
               \/ monitor' = "releasing" /\ restarts' = restarts + 1
        BY <3>1, Parts DEF MonitorSeesExit
      <4> QED BY <4>1, <4>2, <4>3
    <3>2. CASE MonitorReleased
      <4>1. Vacant
        BY <3>2, Parts
        DEF MonitorReleased, MonitorInv, Vacant, Owned, Occupied, Running, GpuFree
      <4> QED BY <3>2, <4>1, Parts DEF MonitorReleased, groupVars
    <3>3. CASE MonitorGivesUp
      BY <3>3, Parts DEF MonitorGivesUp, groupVars
    <3> QED BY <1>1, <3>1, <3>2, <3>3
  <2>2. SupervisorTypeOK'
    BY <2>1 DEF SInv, SupervisorTypeOK
  <2>3. HealthInv'
    <3>1. ready' => process' = NoProcess \/ WasUp'
      BY <2>1, Parts DEF HealthInv, WasUp
    <3>2. ASSUME NEW w \in Waiters, Answered(w)' PROVE (Waits(w) /\ WasUp)'
      BY <2>1, <3>2, Parts DEF HealthInv, Answered, WasUp, Waits, Waiters
    <3> QED BY <3>1, <3>2 DEF HealthInv
  <2>4. MonitorInv'
    BY <2>1, Parts DEF MonitorInv, Vacant, Occupied, Running, SocketsRead
  <2>5. StartInv' /\ StopInv' /\ Owned'
    BY <2>1, Parts DEF StartInv, StopInv, Owned, Occupied, Running
  <2> QED BY <2>2, <2>3, <2>4, <2>5 DEF SInv
<1>2. CASE MonitorSpawns
  <2>1. /\ process' = process + 1 /\ process \in Generations /\ process = restarts
        /\ leader' = [leader EXCEPT ![process + 1] = "starting"] /\ monitor' = "probing"
        /\ UNCHANGED <<engine, ready, restarts, starter, answer, stopper>>
        /\ SocketsRead /\ ~ready /\ process + 1 \in Generations
        /\ starter # "new" /\ stopper = "idle" /\ monitor = "spawning"
    BY <1>2, Parts DEF MonitorSpawns, MonitorInv, StartInv, StopInv
  <2>2. \A g \in Generations : ~Occupied(g)
    BY <2>1, Parts DEF MonitorInv, Vacant
  <2>3. SupervisorTypeOK'
    BY <2>1 DEF SInv, SupervisorTypeOK
  <2>4. Owned'
    BY <2>1, <2>2, Parts DEF Owned, Occupied, Running
  <2>5. HealthInv' /\ MonitorInv' /\ StartInv' /\ StopInv'
    BY <2>1, Parts DEF HealthInv, Answered, SocketsRead, MonitorInv, StartInv, StopInv
  <2> QED BY <2>3, <2>4, <2>5 DEF SInv
<1> QED BY <1>1, <1>2 DEF Monitor

\* stop(), called by the lifespan or by start() itself.
LEMMA BeginStopSInv ==
  ASSUME SInv, BeginStop,
         \/ starter = "ready" /\ starter' = "ready"
         \/ starter = "aborting" /\ starter' = "stopped"
  PROVE  SInv'
<1>1. /\ stopper' = StopFrom /\ ready' = FALSE /\ monitor' = "none"
      /\ answer' = [answer EXCEPT !["monitor"] = NoProcess]
      /\ UNCHANGED <<leader, engine, process, restarts>>
  BY DEF BeginStop, groupVars
<1>2. /\ stopper' \in {"done", "killing", "releasing"}
      /\ stopper' = "done" => process = NoProcess
      /\ stopper' = "killing" => process # NoProcess
      /\ stopper' = "releasing" => process # NoProcess /\ ~Running(process)
  BY <1>1 DEF StopFrom
<1>3. SupervisorTypeOK'
  BY <1>1, <1>2 DEF SInv, SupervisorTypeOK
<1>4. SocketsRead'
  BY <1>1, Parts DEF HealthInv, Answered, SocketsRead, Waits, Waiters
<1>5. HealthInv' /\ MonitorInv'
  BY <1>1, <1>4 DEF HealthInv, Answered, SocketsRead, MonitorInv
<1>6. Owned' /\ StartInv' /\ StopInv'
  BY <1>1, <1>2, Parts DEF Owned, StartInv, StopInv, Occupied, Running
<1> QED BY <1>3, <1>5, <1>6 DEF SInv

LEMMA StopSInv == ASSUME SInv, Stop \/ StartFails PROVE SInv'
<1>1. /\ stopper # "idle" /\ monitor = "none" /\ starter # "new" /\ starter' # "new"
      /\ starter' \in {"ready", "stopped", "failed"}
      /\ UNCHANGED <<ready, restarts, monitor, answer>> /\ SocketsRead
  BY NobodyWaits, Parts
  DEF Stop, StopLeaderGone, StopKills, StopReleased, StopRaises, StartFails, StopInv, Waits
<1>2. HealthInv' /\ MonitorInv' /\ StartInv'
  <2>1. ready' => process' = NoProcess \/ WasUp'
    <3>1. CASE StopKills
      BY <3>1, Parts DEF StopKills, HealthInv, WasUp
    <3>2. CASE ~StopKills
      BY <3>2, Parts DEF Stop, StopLeaderGone, StopReleased, StopRaises, StartFails,
         HealthInv, WasUp, groupVars
    <3> QED BY <3>1, <3>2
  <2> QED BY <1>1, <2>1 DEF HealthInv, Answered, SocketsRead, MonitorInv, StartInv
<1>3. CASE StopKills
  <2>1. /\ leader' = [leader EXCEPT ![process] = "exited"] /\ process \in Generations
        /\ engine' = [engine EXCEPT ![process] = "none"]
        /\ UNCHANGED <<process, starter>> /\ stopper' = "releasing"
    BY <1>3, Parts DEF StopKills, StopInv
  <2>2. SupervisorTypeOK'
    BY <1>1, <2>1 DEF SInv, SupervisorTypeOK
  <2>3. Owned' /\ StopInv'
    BY <1>1, <2>1, Parts DEF Owned, StopInv, Occupied, Running
  <2> QED BY <1>2, <2>2, <2>3 DEF SInv
<1>4. CASE StopReleased
  <2>1. /\ UNCHANGED <<leader, engine, starter>> /\ stopper' = "done"
        /\ process' = NoProcess
        /\ \A g \in Generations : ~Occupied(g)
    BY <1>4, Parts DEF StopReleased, StopInv, Owned, GpuFree, Occupied, groupVars
  <2>2. SupervisorTypeOK'
    BY <1>1, <2>1 DEF SInv, SupervisorTypeOK
  <2>3. Owned' /\ StopInv'
    BY <1>1, <2>1, Parts DEF Owned, StopInv, Occupied, Running
  <2> QED BY <1>2, <2>2, <2>3 DEF SInv
<1>5. CASE StopLeaderGone \/ StopRaises \/ StartFails
  <2>1. /\ UNCHANGED <<leader, engine, process>>
        /\ stopper' \in {stopper, "releasing", "raised"}
        /\ stopper' = "releasing" => process # NoProcess /\ ~Running(process)
        /\ stopper' = "done" => process = NoProcess
        /\ stopper' = "killing" => process # NoProcess
    BY <1>5, Parts DEF StopLeaderGone, StopRaises, StartFails, StopInv, groupVars
  <2>2. SupervisorTypeOK'
    BY <1>1, <2>1 DEF SInv, SupervisorTypeOK
  <2>3. Owned' /\ StopInv'
    BY <1>1, <2>1, Parts DEF Owned, StopInv, Occupied, Running
  <2> QED BY <1>2, <2>2, <2>3 DEF SInv
<1> QED BY <1>3, <1>4, <1>5 DEF Stop

LEMMA GroupsSInv == ASSUME SInv, Groups PROVE SInv'
<1> PICK g \in Generations :
      \/ EngineStarts(g) \/ Loads(g) \/ ComesUp(g) \/ LeaderExits(g) \/ EngineExits(g)
  BY DEF Groups
<1>1. /\ leader' \in [Generations -> {"none", "starting", "up", "exited"}]
      /\ engine' \in [Generations -> {"none", "empty", "loaded", "stray"}]
      /\ OnlyGroups
      /\ \A h \in Generations \ {g} : leader'[h] = leader[h] /\ engine'[h] = engine[h]
      /\ leader[g] \in {"up", "exited"} => leader'[g] \in {"up", "exited"}
      /\ leader[g] = "exited" => leader'[g] = "exited"
      /\ ~Running(g) => ~Running(g)'
      /\ Occupied(g)' => Occupied(g)
  <2>1. CASE EngineStarts(g)
    BY <2>1, Parts DEF EngineStarts, Occupied, Running, OnlyGroups
  <2>2. CASE Loads(g)
    BY <2>2, Parts DEF Loads, Occupied, Running, OnlyGroups
  <2>3. CASE ComesUp(g)
    BY <2>3, Parts DEF ComesUp, Occupied, Running, OnlyGroups
  <2>4. CASE LeaderExits(g)
    BY <2>4, Parts DEF LeaderExits, Occupied, Running, OnlyGroups
  <2>5. CASE EngineExits(g)
    BY <2>5, Parts DEF EngineExits, Occupied, Running, OnlyGroups
  <2> QED BY <2>1, <2>2, <2>3, <2>4, <2>5
<1>2. SupervisorTypeOK'
  BY <1>1 DEF SInv, SupervisorTypeOK, OnlyGroups
<1>3. \A h \in Generations : Occupied(h)' => Occupied(h)
  BY <1>1 DEF Occupied, Running
<1>4. Owned' /\ (Vacant => Vacant')
  BY <1>1, <1>3, Parts DEF Owned, Vacant, OnlyGroups
<1>5. \A h \in Generations :
        /\ leader[h] = "exited" => leader'[h] = "exited"
        /\ leader[h] \in {"up", "exited"} => leader'[h] \in {"up", "exited"}
        /\ ~Running(h) => ~Running(h)'
  BY <1>1 DEF Running
<1>6. MonitorInv'
  BY <1>1, <1>4, <1>5, Parts DEF MonitorInv, OnlyGroups, SocketsRead
<1>7. StartInv' /\ StopInv'
  BY <1>1, <1>5, Parts DEF StartInv, StopInv, OnlyGroups, Running
<1>8. HealthInv'
  BY <1>1, <1>5, Parts DEF HealthInv, Answered, WasUp, Waits, OnlyGroups
<1> QED BY <1>2, <1>4, <1>6, <1>7, <1>8 DEF SInv

LEMMA SupervisorStepSInv == ASSUME SInv, SupervisorStep PROVE SInv'
  BY BeginStopSInv, HealthSInv, MonitorSInv, StopSInv, GroupsSInv
  DEF SupervisorStep, StartAborts

(***************************************************************************)
(* The inductive invariant of the gateway.                                 *)
(***************************************************************************)
AppInv == app \in {"serving", "stopping"} => starter = "ready"

\* Every slot is free or on the gauge, and a request in a slot is on it.
SlotInv ==
    /\ slots + inflight = MaxConcurrency
    /\ IsFiniteSet(Holders) /\ Cardinality(Holders) <= inflight

\* The deque holds the latest admissions, and the others are a minute old.
Forgotten == Len(admissions) - Len(stamps)
RateInv ==
    /\ Forgotten >= 0
    /\ \A i \in 1..Len(stamps) : stamps[i] = admissions[Forgotten + i]
    /\ \A i \in 1..Forgotten : admissions[i] <= now - Minute
    /\ RateIsLimited

IInv == TypeOK /\ SInv /\ AppInv /\ SlotInv /\ RateInv

LEMMA InitInv == Init => IInv
<1> SUFFICES ASSUME Init PROVE IInv
  OBVIOUS
<1>1. SInv
  BY SupervisorInitInv DEF Init
<1>2. /\ req \in [Requests -> Places] /\ slots = MaxConcurrency /\ inflight = 0
      /\ now = 0 /\ stamps = <<>> /\ admissions = <<>> /\ app = "starting"
  BY DEF Init, Places
<1>3. held \in [Requests -> BOOLEAN]
  BY DEF Init
<1>4. TypeOK
  BY <1>1, <1>2, <1>3, CapacityAssumption, ClockAssumption DEF TypeOK, SInv
<1>5. Holders = {}
  BY DEF Init, Holders, InSlot
<1>6. SlotInv
  BY <1>2, <1>5, FS_EmptySet, CapacityAssumption DEF SlotInv
<1>7. RateInv
  BY <1>2 DEF RateInv, Forgotten, RateIsLimited
<1> QED BY <1>1, <1>2, <1>4, <1>6, <1>7 DEF IInv, AppInv

-----------------------------------------------------------------------------
(* The lifespan and the supervisor.                                        *)

LEMMA NoChatInv ==
  ASSUME IInv, NoChat, SInv', AppInv',
         app' \in {"starting", "serving", "stopping", "ended", "failed"}
  PROVE  IInv'
<1>1. TypeOK'
  BY DEF IInv, TypeOK, SInv, NoChat, chatVars, limiterVars
<1>2. SlotInv' /\ RateInv'
  BY DEF IInv, SlotInv, RateInv, NoChat, chatVars, limiterVars, Holders, Forgotten,
     RateIsLimited
<1> QED BY <1>1, <1>2 DEF IInv

LEMMA LifespanInv == ASSUME IInv, Lifespan PROVE IInv'
<1>1. CASE CallStart
  BY <1>1, StartSInv, NoChatInv DEF CallStart, IInv, AppInv
<1>2. CASE StartReturns \/ ShutdownEnds
  <2>1. SInv'
    BY <1>2 DEF StartReturns, ShutdownEnds, supervisorVars, IInv, SInv,
       SupervisorTypeOK, Owned, MonitorInv, StartInv, StopInv, HealthInv, Answered,
       Waits, WasUp, Occupied, Running, Vacant, SocketsRead
  <2> QED BY <1>2, <2>1, NoChatInv
          DEF StartReturns, ShutdownEnds, supervisorVars, IInv, AppInv
<1>3. CASE BeginShutdown
  <2>1. CASE BeginStop /\ UNCHANGED starter
    BY <1>3, <2>1, BeginStopSInv, NoChatInv DEF BeginShutdown, IInv, AppInv
  <2>2. CASE app' = "failed" /\ UNCHANGED supervisorVars
    <3>1. SInv'
      BY <2>2 DEF supervisorVars, IInv, SInv, SupervisorTypeOK, Owned, MonitorInv,
         StartInv, StopInv, HealthInv, Answered, Waits, WasUp, Occupied, Running, Vacant, SocketsRead
    <3> QED BY <1>3, <2>2, <3>1, NoChatInv DEF BeginShutdown, AppInv
  <2> QED BY <1>3, <2>1, <2>2 DEF BeginShutdown
<1> QED BY <1>1, <1>2, <1>3 DEF Lifespan

LEMMA SuperviseInv == ASSUME IInv, Supervise PROVE IInv'
<1>1. SInv'
  BY SupervisorStepSInv DEF Supervise, IInv
<1>2. starter = "ready" => starter' = "ready"
  BY DEF Supervise, SupervisorStep, Stop, StopLeaderGone, StopKills, StopReleased,
     StopRaises, Monitor, MonitorSeesExit, MonitorReleased, MonitorGivesUp,
     MonitorSpawns, Health, HealthAnswered, HealthRead, HealthFails, Proceed, Waits,
     StartAborts, StartFails, Groups, EngineStarts, Loads, ComesUp, LeaderExits, EngineExits,
     OnlyGroups, Waiters
<1> QED BY <1>1, <1>2, NoChatInv DEF Supervise, IInv, AppInv, TypeOK

-----------------------------------------------------------------------------
(* The limiter.                                                            *)

LEMMA CountTo ==
  ASSUME NEW n \in Nat PROVE IsFiniteSet(1..n) /\ Cardinality(1..n) = n
<1>1. /\ IsFiniteSet(1..n)
      /\ Cardinality(1..n) = IF 1 > n THEN 0 ELSE n - 1 + 1
  BY FS_Interval
<1> QED BY <1>1

\* What the limiter drops is a prefix of the deque, not later than t.
LEMMA StaleIsPrefix ==
  ASSUME stamps \in Seq(0..MaxTime), NEW t \in Int
  PROVE  /\ Cardinality(Stale(t)) \in 0..Len(stamps)
         /\ \A i \in 1..Cardinality(Stale(t)) : stamps[i] <= t
<1>1. Len(stamps) \in Nat /\ DOMAIN stamps = 1..Len(stamps)
  BY LenProperties
<1>2. \A i \in 1..Len(stamps) : stamps[i] \in Int
  BY ElementOfSeq, ClockAssumption
<1>3. Stale(t) \in SUBSET (1..Len(stamps))
  BY <1>1 DEF Stale
<1>4. Cardinality(Stale(t)) \in Nat /\ Cardinality(Stale(t)) <= Len(stamps)
  BY <1>1, <1>3, CountTo, FS_Subset, FS_CardinalityType
<1>5. ASSUME NEW i \in 1..Cardinality(Stale(t)), ~(stamps[i] <= t) PROVE FALSE
  <2>1. i \in 1..Len(stamps) /\ i - 1 \in Nat
    BY <1>1, <1>4
  <2>2. Stale(t) \in SUBSET (1..i - 1)
    <3> SUFFICES ASSUME NEW k \in Stale(t) PROVE k \in 1..i - 1
      OBVIOUS
    <3>1. k \in 1..Len(stamps) /\ \A j \in 1..k : stamps[j] <= t
      BY <1>1 DEF Stale
    <3>2. i \notin 1..k
      BY <1>5, <3>1
    <3> QED BY <2>1, <3>1, <3>2
  <2>3. Cardinality(Stale(t)) <= i - 1
    BY <2>1, <2>2, CountTo, FS_Subset
  <2> QED BY <1>4, <2>1, <2>3
<1> QED BY <1>1, <1>4, <1>5

LEMMA FreshIs ==
  ASSUME IInv
  PROVE  \E n \in 0..Len(stamps) :
           /\ Fresh \in Seq(0..MaxTime) /\ Len(Fresh) = Len(stamps) - n
           /\ \A i \in 1..Len(Fresh) : Fresh[i] = stamps[n + i]
           /\ \A i \in 1..n : stamps[i] <= now - Minute
<1> DEFINE n == Cardinality(Stale(now - Minute))
<1>1. /\ stamps \in Seq(0..MaxTime) /\ Len(stamps) \in Nat /\ now - Minute \in Int
  BY ClockAssumption DEF IInv, TypeOK
<1>2. n \in 0..Len(stamps) /\ \A i \in 1..n : stamps[i] <= now - Minute
  BY <1>1, StaleIsPrefix
<1>3. Fresh = SubSeq(stamps, n + 1, Len(stamps))
  BY DEF Fresh, After
<1> HIDE DEF n
<1>4. /\ Fresh \in Seq(0..MaxTime) /\ Len(Fresh) = Len(stamps) - n
      /\ \A i \in 1..Len(Fresh) : Fresh[i] = stamps[n + i]
  <2>1. n + 1 \in Int /\ Len(stamps) \in Int
    BY <1>1, <1>2
  <2>2. \A i \in n + 1 .. Len(stamps) : stamps[i] \in 0..MaxTime
    <3> SUFFICES ASSUME NEW i \in n + 1 .. Len(stamps) PROVE stamps[i] \in 0..MaxTime
      OBVIOUS
    <3>1. i \in 1..Len(stamps)
      BY <1>1, <1>2
    <3> QED BY <1>1, <3>1, ElementOfSeq
  <2>3. /\ SubSeq(stamps, n + 1, Len(stamps)) \in Seq(0..MaxTime)
        /\ Len(SubSeq(stamps, n + 1, Len(stamps)))
             = IF n + 1 <= Len(stamps) THEN Len(stamps) - (n + 1) + 1 ELSE 0
        /\ \A i \in 1 .. Len(stamps) - (n + 1) + 1 :
             SubSeq(stamps, n + 1, Len(stamps))[i] = stamps[(n + 1) + i - 1]
    BY <2>1, <2>2, SubSeqProperties
  <2>4. Len(Fresh) = Len(stamps) - n
    BY <1>1, <1>2, <1>3, <2>3
  <2>5. ASSUME NEW i \in 1..Len(Fresh) PROVE Fresh[i] = stamps[n + i]
    <3>1. i \in 1 .. Len(stamps) - (n + 1) + 1 /\ (n + 1) + i - 1 = n + i
      BY <1>1, <1>2, <2>4
    <3> QED BY <1>3, <2>3, <3>1
  <2> QED BY <1>3, <2>3, <2>4, <2>5
<1> QED BY <1>2, <1>4

\* The limiter drops what is old, and perhaps admits a request.
LEMMA LimiterInv ==
  ASSUME IInv, UNCHANGED now,
         \/ Allowed /\ Admit
         \/ stamps' = Fresh /\ admissions' = admissions
  PROVE  /\ RateInv'
         /\ stamps' \in Seq(0..MaxTime) /\ Len(stamps') <= RateLimit
         /\ admissions' \in Seq(0..MaxTime)
<1>1. /\ stamps \in Seq(0..MaxTime) /\ admissions \in Seq(0..MaxTime)
      /\ now \in 0..MaxTime /\ Len(stamps) <= RateLimit /\ RateInv
  BY DEF IInv, TypeOK
<1>2. /\ Len(stamps) \in Nat /\ Len(admissions) \in Nat
      /\ DOMAIN admissions = 1..Len(admissions)
      /\ \A i \in 1..Len(admissions) : admissions[i] \in 0..MaxTime
  BY <1>1, LenProperties, ElementOfSeq
<1>3. now \in Int /\ Minute \in Int /\ RateLimit \in Nat \ {0} /\ now' = now
  BY <1>1, ClockAssumption, CapacityAssumption
<1>4. PICK n \in 0..Len(stamps) :
        /\ Fresh \in Seq(0..MaxTime) /\ Len(Fresh) = Len(stamps) - n
        /\ \A i \in 1..Len(Fresh) : Fresh[i] = stamps[n + i]
        /\ \A i \in 1..n : stamps[i] <= now - Minute
  BY FreshIs
<1> DEFINE old == Forgotten + n
<1>5. /\ Forgotten \in Nat /\ Forgotten = Len(admissions) - Len(stamps)
      /\ old \in Nat /\ old <= Len(admissions) /\ Len(Fresh) = Len(admissions) - old
      /\ Len(Fresh) \in Nat /\ Len(Fresh) <= Len(stamps)
  BY <1>1, <1>2, <1>4 DEF Forgotten, RateInv
<1>6. ASSUME NEW i \in 1..Len(Fresh) PROVE Fresh[i] = admissions[old + i]
  <2>1. n + i \in 1..Len(stamps) /\ Forgotten + (n + i) = old + i
    BY <1>2, <1>4, <1>5
  <2>2. Fresh[i] = stamps[n + i] /\ stamps[n + i] = admissions[Forgotten + (n + i)]
    BY <1>1, <1>4, <2>1 DEF RateInv
  <2> QED BY <2>1, <2>2
<1>7. ASSUME NEW i \in 1..old PROVE admissions[i] <= now - Minute
  <2>1. CASE i <= Forgotten
    BY <1>1, <1>5, <2>1 DEF RateInv
  <2>2. CASE i > Forgotten
    <3>1. i - Forgotten \in 1..n /\ i - Forgotten \in 1..Len(stamps)
          /\ Forgotten + (i - Forgotten) = i
      BY <1>2, <1>4, <1>5, <2>2
    <3>2. stamps[i - Forgotten] = admissions[Forgotten + (i - Forgotten)]
      BY <1>1, <3>1 DEF RateInv
    <3> QED BY <1>4, <3>1, <3>2
  <2> QED BY <1>5, <2>1, <2>2
<1>8. \A i \in 1..Len(admissions) : i + RateLimit <= Len(admissions) =>
        admissions[i + RateLimit] - admissions[i] >= Minute
  BY <1>1, <1>2 DEF RateInv, RateIsLimited
<1> HIDE DEF old
<1>9. CASE stamps' = Fresh /\ admissions' = admissions
  <2>1. Forgotten' = old
    <3>1. Len(stamps') = Len(admissions) - old /\ Len(admissions') = Len(admissions)
      BY <1>5, <1>9
    <3> QED BY <1>2, <1>5, <3>1 DEF Forgotten
  <2>2. RateIsLimited'
    BY <1>1, <1>9 DEF RateInv, RateIsLimited
  <2>3. \A i \in 1..Len(stamps') : stamps'[i] = admissions'[Forgotten' + i]
    BY <1>6, <1>9, <2>1
  <2>4. \A i \in 1..Forgotten' : admissions'[i] <= now' - Minute
    BY <1>3, <1>7, <1>9, <2>1
  <2>5. RateInv'
    BY <1>5, <2>1, <2>2, <2>3, <2>4 DEF RateInv
  <2>6. Len(stamps') <= RateLimit
    BY <1>1, <1>2, <1>3, <1>4, <1>9
  <2> QED BY <1>1, <1>4, <1>9, <2>5, <2>6
<1>10. CASE Allowed /\ Admit
  <2>1. /\ stamps' = Append(Fresh, now) /\ admissions' = Append(admissions, now)
        /\ Len(Fresh) < RateLimit
    BY <1>10 DEF Allowed, Admit
  <2>2. /\ stamps' \in Seq(0..MaxTime) /\ Len(stamps') = Len(Fresh) + 1
        /\ \A i \in 1..Len(Fresh) : stamps'[i] = Fresh[i]
        /\ stamps'[Len(Fresh) + 1] = now
    BY <1>1, <1>4, <2>1, AppendProperties
  <2>3. /\ admissions' \in Seq(0..MaxTime) /\ Len(admissions') = Len(admissions) + 1
        /\ DOMAIN admissions' = 1..Len(admissions) + 1
        /\ \A i \in 1..Len(admissions) : admissions'[i] = admissions[i]
        /\ admissions'[Len(admissions) + 1] = now
    <3>1. now \in 0..MaxTime /\ admissions \in Seq(0..MaxTime)
      BY <1>1
    <3>2. /\ admissions' \in Seq(0..MaxTime) /\ Len(admissions') = Len(admissions) + 1
          /\ \A i \in 1..Len(admissions) : admissions'[i] = admissions[i]
          /\ admissions'[Len(admissions) + 1] = now
      BY <2>1, <3>1, AppendProperties
    <3>3. DOMAIN admissions' = 1..Len(admissions')
      BY <3>2, LenProperties
    <3> QED BY <3>2, <3>3
  <2>4. Forgotten' = old
    BY <1>2, <1>5, <2>2, <2>3 DEF Forgotten
  <2>5. ASSUME NEW i \in 1..Len(stamps') PROVE stamps'[i] = admissions'[old + i]
    <3>1. CASE i \in 1..Len(Fresh)
      <4>1. old + i \in 1..Len(admissions)
        BY <1>2, <1>5, <3>1
      <4> QED BY <1>6, <2>2, <2>3, <3>1, <4>1
    <3>2. CASE i = Len(Fresh) + 1
      BY <1>2, <1>5, <2>2, <2>3, <3>2
    <3> QED BY <1>2, <1>5, <2>2, <3>1, <3>2
  <2>6. ASSUME NEW i \in 1..old PROVE admissions'[i] <= now' - Minute
    <3>1. i \in 1..Len(admissions)
      BY <1>2, <1>5
    <3> QED BY <1>3, <1>7, <2>3, <3>1
  <2>7. ASSUME NEW i \in DOMAIN admissions', i + RateLimit <= Len(admissions')
        PROVE  admissions'[i + RateLimit] - admissions'[i] >= Minute
    <3>1. i \in 1..Len(admissions)
      BY <1>2, <1>3, <2>3, <2>7
    <3>2. CASE i + RateLimit <= Len(admissions)
      <4>1. i + RateLimit \in 1..Len(admissions)
        BY <1>2, <1>3, <3>1, <3>2
      <4> QED BY <1>8, <2>3, <3>1, <3>2, <4>1
    <3>3. CASE i + RateLimit = Len(admissions) + 1
      <4>1. i \in 1..old
        <5>1. Len(admissions) - old < RateLimit
          BY <1>5, <2>1
        <5>2. i \in Nat \ {0} /\ RateLimit \in Nat /\ Len(admissions) \in Nat
          BY <1>2, <1>3, <3>1
        <5>3. i <= old
          BY <1>5, <3>3, <5>1, <5>2
        <5> QED BY <1>5, <5>2, <5>3
      <4>2. /\ admissions[i] <= now - Minute /\ admissions[i] \in 0..MaxTime
            /\ admissions'[i] = admissions[i] /\ admissions'[i + RateLimit] = now
        BY <1>2, <1>7, <2>3, <3>1, <3>3, <4>1
      <4> QED BY <1>3, <4>2, ClockAssumption
    <3> QED BY <1>2, <1>3, <2>3, <2>7, <3>1, <3>2, <3>3
  <2>8. RateInv'
    BY <1>5, <2>4, <2>5, <2>6, <2>7 DEF RateInv, RateIsLimited
  <2>9. Len(stamps') <= RateLimit
    BY <1>3, <1>5, <2>1, <2>2
  <2> QED BY <2>2, <2>3, <2>8, <2>9
<1> QED BY <1>9, <1>10

LEMMA OtherRequestInv == ASSUME IInv, OtherRequest PROVE IInv'
<1>1. /\ RateInv' /\ stamps' \in Seq(0..MaxTime) /\ Len(stamps') <= RateLimit
      /\ admissions' \in Seq(0..MaxTime)
  BY LimiterInv DEF OtherRequest
<1>2. UNCHANGED <<supervisorVars, app, chatVars, now>>
  BY DEF OtherRequest, NoLifespan
<1>3. SInv' /\ AppInv'
  BY <1>2 DEF supervisorVars, IInv, SInv, SupervisorTypeOK, Owned, MonitorInv, StartInv,
     StopInv, HealthInv, Answered, Waits, WasUp, Occupied, Running, Vacant, SocketsRead,
     AppInv
<1>4. SlotInv'
  BY <1>2 DEF chatVars, IInv, SlotInv, Holders
<1>5. TypeOK'
  BY <1>1, <1>2, <1>3 DEF chatVars, IInv, TypeOK, SInv
<1> QED BY <1>1, <1>3, <1>4, <1>5 DEF IInv

LEMMA TickInv == ASSUME IInv, Tick PROVE IInv'
<1>1. /\ now' = now + 1 /\ now' \in 0..MaxTime /\ now \in 0..MaxTime
      /\ UNCHANGED <<stamps, admissions, chatVars, supervisorVars, app>>
  BY ClockAssumption DEF Tick, NoLifespan, IInv, TypeOK
<1>2. SInv' /\ AppInv'
  BY <1>1 DEF supervisorVars, IInv, SInv, SupervisorTypeOK, Owned, MonitorInv, StartInv,
     StopInv, HealthInv, Answered, Waits, WasUp, Occupied, Running, Vacant, SocketsRead,
     AppInv
<1>3. SlotInv' /\ TypeOK'
  BY <1>1, <1>2 DEF chatVars, IInv, SlotInv, Holders, TypeOK, SInv
<1>4. RateInv'
  <2>1. /\ Len(admissions) \in Nat /\ Len(stamps) \in Nat /\ Forgotten' = Forgotten
        /\ \A i \in 1..Len(admissions) : admissions[i] \in 0..MaxTime
    BY <1>1, LenProperties, ElementOfSeq DEF IInv, TypeOK, Forgotten
  <2>2. ASSUME NEW i \in 1..Forgotten PROVE admissions[i] <= now' - Minute
    <3>1. admissions[i] <= now - Minute /\ i \in 1..Len(admissions)
      BY <2>1 DEF IInv, RateInv, Forgotten
    <3> QED BY <1>1, <2>1, <3>1, ClockAssumption
  <2> QED BY <1>1, <2>1, <2>2 DEF IInv, RateInv, RateIsLimited
<1> QED BY <1>2, <1>3, <1>4 DEF IInv

-----------------------------------------------------------------------------
(* The chat requests.                                                      *)

\* A request goes to another place: who is in a slot then.
LEMMA HoldersMove ==
  ASSUME TypeOK, SlotInv, NEW r \in Requests, NEW place \in Places, Goes(r, place)
  PROVE  /\ IsFiniteSet(Holders') /\ Cardinality(Holders) \in Nat
         /\ req' \in [Requests -> Places]
         /\ place \in InSlot /\ req[r] \notin InSlot =>
              Cardinality(Holders') = Cardinality(Holders) + 1
         /\ place \notin InSlot /\ req[r] \in InSlot =>
              Cardinality(Holders') = Cardinality(Holders) - 1
         /\ (place \in InSlot <=> req[r] \in InSlot) => Holders' = Holders
<1>1. /\ req' = [req EXCEPT ![r] = place] /\ req \in [Requests -> Places]
      /\ IsFiniteSet(Holders)
  BY DEF Goes, TypeOK, SlotInv
<1>2. CASE place \in InSlot
  <2>1. Holders' = Holders \cup {r} /\ (r \in Holders <=> req[r] \in InSlot)
    BY <1>1, <1>2 DEF Holders
  <2> QED BY <1>1, <1>2, <2>1, FS_AddElement, FS_CardinalityType
<1>3. CASE place \notin InSlot
  <2>1. Holders' = Holders \ {r} /\ (r \in Holders <=> req[r] \in InSlot)
    BY <1>1, <1>3 DEF Holders
  <2> QED BY <1>1, <1>3, <2>1, FS_RemoveElement, FS_CardinalityType
<1> QED BY <1>2, <1>3

\* The slots, the gauge and the requests are all that a chat request changes.
LEMMA OnlyChatInv ==
  ASSUME IInv, OnlyChat, req' \in [Requests -> Places], held' \in [Requests -> BOOLEAN],
         slots' \in 0..MaxConcurrency, inflight' \in 0..MaxConcurrency, SlotInv'
  PROVE  IInv'
<1>1. UNCHANGED <<supervisorVars, app, now, stamps, admissions>>
  BY DEF OnlyChat, NoLifespan, limiterVars
<1>2. SInv' /\ AppInv'
  BY <1>1 DEF supervisorVars, IInv, SInv, SupervisorTypeOK, Owned, MonitorInv, StartInv,
     StopInv, HealthInv, Answered, Waits, WasUp, Occupied, Running, Vacant, SocketsRead,
     AppInv
<1>3. TypeOK' /\ RateInv'
  BY <1>1, <1>2 DEF IInv, TypeOK, SInv, RateInv, Forgotten, RateIsLimited
<1> QED BY <1>2, <1>3 DEF IInv

\* The counters stay, and nobody enters a slot.
LEMMA StaysInv ==
  ASSUME IInv, OnlyChat, NEW r \in Requests, NEW place \in Places, Goes(r, place),
         place \in InSlot => req[r] \in InSlot,
         held' \in [Requests -> BOOLEAN], UNCHANGED <<slots, inflight>>
  PROVE  IInv'
<1>1. TypeOK /\ SlotInv /\ inflight \in 0..MaxConcurrency /\ MaxConcurrency \in Nat
  BY CapacityAssumption DEF IInv, TypeOK
<1>2. /\ IsFiniteSet(Holders') /\ Cardinality(Holders) \in Nat
      /\ Holders' = Holders \/ Cardinality(Holders') = Cardinality(Holders) - 1
      /\ req' \in [Requests -> Places]
  BY <1>1, HoldersMove
<1>3. SlotInv'
  BY <1>1, <1>2 DEF SlotInv
<1> QED BY <1>2, <1>3, OnlyChatInv DEF IInv, TypeOK

LEMMA ReleaseInv ==
  ASSUME IInv, OnlyChat, NEW r \in Requests, req[r] \in InSlot, Release(r)
  PROVE  IInv'
<1>1. /\ TypeOK /\ SlotInv /\ MaxConcurrency \in Nat /\ Goes(r, "idle")
      /\ slots \in 0..MaxConcurrency /\ inflight \in 0..MaxConcurrency
      /\ slots' = slots + 1 /\ inflight' = inflight - 1
      /\ held' \in [Requests -> BOOLEAN]
  BY CapacityAssumption DEF IInv, TypeOK, Release
<1>2. "idle" \in Places /\ "idle" \notin InSlot
  BY DEF Places, InSlot
<1>3. /\ IsFiniteSet(Holders') /\ Cardinality(Holders) \in Nat
      /\ Cardinality(Holders') = Cardinality(Holders) - 1
      /\ Cardinality(Holders') \in Nat /\ req' \in [Requests -> Places]
  BY <1>1, <1>2, HoldersMove, FS_CardinalityType
<1>4. SlotInv' /\ slots' \in 0..MaxConcurrency /\ inflight' \in 0..MaxConcurrency
  BY <1>1, <1>3 DEF SlotInv
<1> QED BY <1>1, <1>3, <1>4, OnlyChatInv

LEMMA AcquireInv == ASSUME IInv, NEW r \in Requests, Acquire(r) PROVE IInv'
<1>1. PICK place \in {"first", "opened"} : Goes(r, place)
  BY DEF Acquire
<1>2. /\ TypeOK /\ SlotInv /\ MaxConcurrency \in Nat /\ OnlyChat
      /\ slots \in 0..MaxConcurrency /\ inflight \in 0..MaxConcurrency
      /\ slots > 0 /\ slots' = slots - 1 /\ inflight' = inflight + 1
      /\ held' \in [Requests -> BOOLEAN]
  BY CapacityAssumption DEF IInv, TypeOK, Acquire
<1>3. place \in Places /\ place \in InSlot /\ req[r] \notin InSlot
  BY DEF Acquire, Places, InSlot
<1>4. /\ IsFiniteSet(Holders') /\ Cardinality(Holders) \in Nat
      /\ Cardinality(Holders') = Cardinality(Holders) + 1
      /\ req' \in [Requests -> Places]
  BY <1>1, <1>2, <1>3, HoldersMove
<1>5. SlotInv' /\ slots' \in 0..MaxConcurrency /\ inflight' \in 0..MaxConcurrency
  BY <1>2, <1>4 DEF SlotInv
<1> QED BY <1>2, <1>4, <1>5, OnlyChatInv

LEMMA ChatRequestInv == ASSUME IInv, NEW r \in Requests, ChatRequest(r) PROVE IInv'
<1>1. /\ RateInv' /\ stamps' \in Seq(0..MaxTime) /\ Len(stamps') <= RateLimit
      /\ admissions' \in Seq(0..MaxTime)
  BY LimiterInv DEF ChatRequest
<1>2. UNCHANGED <<supervisorVars, app, held, slots, inflight, now>>
  BY DEF ChatRequest, NoLifespan
<1>3. SInv' /\ AppInv'
  BY <1>2 DEF supervisorVars, IInv, SInv, SupervisorTypeOK, Owned, MonitorInv, StartInv,
     StopInv, HealthInv, Answered, Waits, WasUp, Occupied, Running, Vacant, SocketsRead,
     AppInv
<1>4. "queued" \in Places /\ "queued" \notin InSlot /\ req[r] \notin InSlot
      /\ Goes(r, "queued") /\ TypeOK /\ SlotInv
  BY DEF ChatRequest, Places, InSlot, Goes, IInv
<1>5. Holders' = Holders /\ req' \in [Requests -> Places]
  BY <1>4, HoldersMove
<1>6. SlotInv'
  BY <1>2, <1>4, <1>5 DEF SlotInv
<1>7. TypeOK'
  BY <1>1, <1>2, <1>3, <1>5 DEF IInv, TypeOK, SInv
<1> QED BY <1>1, <1>3, <1>6, <1>7 DEF IInv

LEMMA ChatInv == ASSUME IInv, NEW r \in Requests, Chat(r) PROVE IInv'
<1>1. held \in [Requests -> BOOLEAN]
  BY DEF IInv, TypeOK
<1>2. CASE QueueTimeout(r)
  BY <1>1, <1>2, StaysInv DEF QueueTimeout, Places, InSlot
<1>3. CASE Retry(r)
  BY <1>1, <1>3, StaysInv DEF Retry, Places, InSlot
<1>4. CASE CompleteEnds(r)
  BY <1>4, ReleaseInv DEF CompleteEnds, InSlot
<1>5. CASE StreamBegins(r)
  BY <1>1, <1>5, StaysInv DEF StreamBegins, Places, InSlot
<1>6. CASE StreamChunk(r)
  <2>1. PICK h \in BOOLEAN, place \in {"upstream", "sending"} :
          held' = [held EXCEPT ![r] = h] /\ Goes(r, place)
    BY <1>6 DEF StreamChunk
  <2>2. held' \in [Requests -> BOOLEAN]
    BY <1>1, <2>1
  <2> QED BY <1>6, <2>1, <2>2, StaysInv DEF StreamChunk, Places, InSlot
<1>7. CASE StreamSent(r)
  BY <1>1, <1>7, StaysInv DEF StreamSent, Places, InSlot
<1>8. CASE StreamEnds(r)
  BY <1>1, <1>8, StaysInv, ReleaseInv DEF StreamEnds, Places, InSlot
<1>9. CASE StreamFlushed(r)
  BY <1>9, ReleaseInv DEF StreamFlushed, InSlot
<1>10. CASE ClientLeaves(r)
  <2>1. CASE CutOff(r)
    <3>1. held' \in [Requests -> BOOLEAN] /\ Goes(r, "lost") /\ OnlyChat
          /\ UNCHANGED <<slots, inflight>>
      BY <1>1, <1>10, <2>1 DEF ClientLeaves
    <3> QED BY <3>1, StaysInv DEF Places, InSlot
  <2>2. CASE ~CutOff(r)
    BY <1>10, <2>2, ReleaseInv DEF ClientLeaves, InSlot
  <2> QED BY <2>1, <2>2
<1> QED BY <1>2, <1>3, <1>4, <1>5, <1>6, <1>7, <1>8, <1>9, <1>10,
          AcquireInv, ChatRequestInv DEF Chat

-----------------------------------------------------------------------------
LEMMA NextInv == ASSUME IInv, [Next]_vars PROVE IInv'
<1>1. CASE UNCHANGED vars
  <2>1. NoChat /\ UNCHANGED <<supervisorVars, app>>
    BY <1>1 DEF vars, NoChat
  <2>2. SInv' /\ AppInv'
    BY <2>1 DEF supervisorVars, IInv, SInv, SupervisorTypeOK, Owned, MonitorInv, StartInv,
       StopInv, HealthInv, Answered, Waits, WasUp, Occupied, Running, Vacant, SocketsRead,
       AppInv
  <2> QED BY <2>1, <2>2, NoChatInv DEF IInv, TypeOK
<1> QED BY <1>1, LifespanInv, SuperviseInv, OtherRequestInv, TickInv, ChatInv DEF Next

\* The inductive invariant holds however processes, requests and clients go.
THEOREM Invariance == Spec => []IInv
  BY InitInv, NextInv, PTL DEF Spec

\* Every variable keeps its type: the semaphore and the gauge stay in their
\* range, and the restarts within the limit.
THEOREM TypeCorrectness == Spec => []TypeOK
<1>1. IInv => TypeOK
  BY DEF IInv
<1> QED BY <1>1, Invariance, PTL

\* A replacement of the backend runs beside no earlier leader and beside no
\* memory an earlier generation had loaded; a stray engine is not excluded.
THEOREM Exclusion == Spec => []OneBackend
<1>1. IInv => OneBackend
  BY DEF IInv, SInv, Owned, OneBackend
<1> QED BY <1>1, Invariance, PTL

\* Readiness is never left over from an earlier process.
THEOREM Readiness == Spec => []ReadyIsCurrent
<1>1. IInv => ReadyIsCurrent
  BY DEF IInv, SInv, HealthInv, WasUp, ReadyIsCurrent, Ready, Running
<1> QED BY <1>1, Invariance, PTL

\* stop() returns only when no monitor and no leader is left, and nothing that
\* any generation had loaded is on the GPU.
THEOREM StopComplete == Spec => []StopLeavesNothing
<1>1. IInv => StopLeavesNothing
  <2> SUFFICES ASSUME IInv, stopper = "done"
               PROVE  monitor = "none" /\ \A g \in Generations : ~Occupied(g)
    BY DEF StopLeavesNothing
  <2> QED BY Parts DEF IInv, Owned, StopInv
<1> QED BY <1>1, Invariance, PTL

\* Slots that clients leave behind are lost, never given out twice.
THEOREM Concurrency == Spec => []AtMostMaxConcurrency
<1>1. IInv => AtMostMaxConcurrency
  <2> SUFFICES ASSUME IInv PROVE Cardinality(Holders) <= MaxConcurrency
    BY DEF AtMostMaxConcurrency
  <2>1. Cardinality(Holders) \in Nat
    BY FS_CardinalityType DEF IInv, SlotInv
  <2> QED BY <2>1, CapacityAssumption DEF IInv, SlotInv, TypeOK
<1> QED BY <1>1, Invariance, PTL

\* No minute sees more admissions than the limit.
THEOREM Rate == Spec => []RateIsLimited
<1>1. IInv => RateIsLimited
  BY DEF IInv, RateInv
<1> QED BY <1>1, Invariance, PTL
=============================================================================
