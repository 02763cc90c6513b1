---------------------------- MODULE AgentRunProofs ----------------------------
(***************************************************************************)
(* AgentRun implements AgentLifecycle, for every set of calls, every policy*)
(* and every value of the limits, the deadline and the bounds.             *)
(***************************************************************************)
EXTENDS AgentRun, TLAPS

(***************************************************************************)
(* The inductive invariant.                                                *)
(***************************************************************************)
\* A graph state, in memory or in a checkpoint, that stands before the call
\* of a tool that needs an approval, has one.
GraphOK(g) ==
    /\ g.gate => /\ g.call \in ApprovalCalls
                 /\ g.node \in {"approve", "call", "observe", "end"}
    /\ g.node \in {"policy", "approve", "call"} => g.call \in Calls
    /\ g.node = "approve" => g.gate
    /\ g.node = "call" /\ g.call \in ApprovalCalls
         => approvals[g.call] = "approved"

TaskInv ==
    /\ phase # "none" => task = "graph" /\ up
    /\ phase = "model" => mem.node = "model"
    /\ phase \in {"send", "tool"} => mem.node = "call"
    /\ by = "startup" /\ todo # << >> => phase = "none"

\* A waiting run has a call, and its task is past the question only once the
\* call is decided.
WaitInv ==
    run.status = "waiting_approval" =>
        /\ run.pending \in Calls
        /\ task = "graph" /\ mem.node \notin {"approve", "end"}
             => approvals[run.pending] # "none"

LastEvent(type, c) ==
    log # << >> /\ log[Len(log)].type = type /\ log[Len(log)].call = c

\* The event of this type, about the call of the i-th write left to do, is
\* what is written before that write.
Precedes(i, type) ==
    IF i <= 2
      THEN LastEvent(type, todo[i].call) /\ (i = 2 => todo[1].op = "cursor")
      ELSE /\ todo[i - 1].op = "cursor" /\ todo[i - 2].op = "event"
           /\ todo[i - 2].name = type /\ todo[i - 2].call = todo[i].call

MoveOK(i) ==
    LET o == todo[i] IN
    /\ o.name \in {"running", "waiting_approval", "succeeded", "failed",
                   "expired"}
    /\ o.name # "waiting_approval" => o.call = NoCall
    /\ o.name = "running" /\ run.status = "waiting_approval"
         => approvals[run.pending] # "none"
    /\ o.name = "waiting_approval"
         => /\ i = Len(todo) /\ mem.node = "approve"
            /\ o.call \in ApprovalCalls
            /\ Precedes(i, "approval.required")
    /\ o.name = "succeeded" => Precedes(i, "run.completed")
    /\ o.name \in {"failed", "expired"} => Precedes(i, "run.failed")

\* What a handler still has to write explains the status it moves to.
ScriptInv ==
    \A i \in 1..Len(todo) :
        /\ todo[i].op = "event" /\ todo[i].name = "tool.started"
             /\ todo[i].call \in ApprovalCalls
             => approvals[todo[i].call] = "approved"
        /\ todo[i].op = "move" => MoveOK(i)

\* A server works on calls that need an approval, of this life or an earlier.
RequestsOK ==
    /\ crashes \in 0..MaxCrashes
    /\ \A q \in inflight : q.call \in ApprovalCalls /\ q.life \in 0..crashes

IInv ==
    /\ TypeOK
    /\ GraphOK(mem) /\ GraphOK(ckpt)
    /\ TaskInv /\ WaitInv /\ ScriptInv
    /\ RequestsOK

-----------------------------------------------------------------------------
(* The initial state, and what is left to write when one write is made.    *)

LEMMA InitInv == Init => IInv
  BY NoCallAssumption, LimitAssumption
  DEF Init, StoreInit, IInv, TypeOK, GraphOK, TaskInv, WaitInv, ScriptInv,
      RequestsOK, NoGraph, Graphs, RunRecords, Statuses, Terminal, Events, TaskStates,
      Phases, NoPatch, Nodes

\* Everything but the writes left, the log and the record stays; so only
\* TypeOK and ScriptInv are at stake when an event or a cursor is written.
LEMMA WriteLeft ==
  ASSUME todo \in Seq(Ops), todo # << >>, todo' = Tail(todo)
  PROVE  /\ todo' \in Seq(Ops) /\ Len(todo) \in Nat \ {0}
         /\ Len(todo') = Len(todo) - 1
         /\ Head(todo) = todo[1] /\ todo[1] \in Ops
         /\ \A i \in 1..Len(todo') : /\ i + 1 \in 1..Len(todo)
                                     /\ todo'[i] = todo[i + 1]
  OBVIOUS

LEMMA FarShift ==
  ASSUME todo \in Seq(Ops), todo # << >>, todo' = Tail(todo),
         NEW i \in 1..Len(todo'), i >= 3, NEW type, Precedes(i + 1, type)
  PROVE  Precedes(i, type)'
<1>1. /\ i - 1 \in 1..Len(todo') /\ i - 2 \in 1..Len(todo')
      /\ (i - 1) + 1 = i /\ (i - 2) + 1 = i - 1 /\ i \in Nat
  BY WriteLeft
<1>2. todo'[i] = todo[i + 1] /\ todo'[i - 1] = todo[i] /\ todo'[i - 2] = todo[i - 1]
  BY <1>1, WriteLeft
<1>3. /\ todo[i].op = "cursor" /\ todo[i - 1].op = "event"
      /\ todo[i - 1].name = type /\ todo[i - 1].call = todo[i + 1].call
  BY <1>1 DEF Precedes
<1> QED BY <1>1, <1>2, <1>3 DEF Precedes

\* If an event that preceded a write still precedes it, the script goes on.
LEMMA ScriptShifts ==
  ASSUME IInv, todo # << >>, todo' = Tail(todo),
         approvals' = approvals, mem' = mem,
         \/ run'.status = run.status /\ run'.pending = run.pending
         \/ run'.status # "waiting_approval",
         \A i \in 1..Len(todo') : \A type :
           Precedes(i + 1, type) => Precedes(i, type)'
  PROVE  ScriptInv'
<1>1. todo \in Seq(Ops)
  BY DEF IInv, TypeOK
<1> SUFFICES ASSUME NEW i \in 1..Len(todo')
             PROVE  /\ todo'[i].op = "event" /\ todo'[i].name = "tool.started"
                       /\ todo'[i].call \in ApprovalCalls
                         => approvals'[todo'[i].call] = "approved"
                    /\ todo'[i].op = "move" => MoveOK(i)'
  BY DEF ScriptInv
<1>2. i + 1 \in 1..Len(todo) /\ todo'[i] = todo[i + 1]
  BY <1>1, WriteLeft
<1>3. i + 1 = Len(todo) => i = Len(todo')
  <2>1. \A m, n, k \in Int : m = n - 1 /\ k + 1 = n => k = m
    OBVIOUS
  <2>2. Len(todo) \in Int /\ Len(todo') \in Int /\ i \in Int
    BY <1>1, WriteLeft
  <2> QED BY <2>1, <2>2, <1>1, WriteLeft
<1>4. todo[i + 1].op = "move" => MoveOK(i + 1)
  BY <1>2 DEF IInv, ScriptInv
<1>5. \A type : Precedes(i + 1, type) => Precedes(i, type)'
  OBVIOUS
<1>6. todo[i + 1].op = "move" => MoveOK(i)'
  BY <1>2, <1>3, <1>4, <1>5 DEF MoveOK
<1> QED BY <1>2, <1>6 DEF IInv, ScriptInv

LEMMA StoreEventInv ==
  ASSUME IInv, todo # << >>, StoreEvent(Head(todo))
  PROVE  IInv'
<1> DEFINE op == Head(todo)
<1>1. todo \in Seq(Ops) /\ todo' = Tail(todo) /\ log \in Seq(Events)
  BY DEF IInv, TypeOK, StoreEvent, AfterWrite
<1>2. /\ todo' \in Seq(Ops) /\ Len(todo) \in Nat \ {0}
      /\ op = todo[1] /\ op \in Ops
      /\ \A i \in 1..Len(todo') : i + 1 \in 1..Len(todo) /\ todo'[i] = todo[i + 1]
  BY <1>1, WriteLeft
<1>3. todo[1].op = "event" /\ op.name \in EventTypes
  BY <1>2 DEF Ops, StoreOps, StoreEvent
<1>4. log' = Append(log, [type |-> op.name, call |-> op.call, ok |-> op.ok])
  BY DEF StoreEvent, WriteEvent, AddLine
<1>5. log' \in Seq(Events)
  BY <1>1, <1>2, <1>3, <1>4 DEF Events, Ops, StoreOps
<1>6. /\ log' # << >>
      /\ log'[Len(log')].type = op.name /\ log'[Len(log')].call = op.call
  <2>1. /\ Len(log') = Len(log) + 1
        /\ log'[Len(log) + 1] = [type |-> op.name, call |-> op.call, ok |-> op.ok]
    BY <1>1, <1>4
  <2> QED BY <2>1, <1>5
<1>7. TypeOK'
  BY <1>2, <1>5 DEF StoreEvent, WriteEvent, AfterWrite, IInv, TypeOK, worldVars,
                    TaskStates
<1>8. \A i \in 1..Len(todo') : \A type : Precedes(i + 1, type) => Precedes(i, type)'
  <2> SUFFICES ASSUME NEW i \in 1..Len(todo'), NEW type, Precedes(i + 1, type)
               PROVE  Precedes(i, type)'
    OBVIOUS
  <2>1. CASE i = 1
    BY <2>1, <1>2, <1>3 DEF Precedes
  <2>2. CASE i = 2
    <3>1. /\ todo[2].op = "cursor"
          /\ todo[1].name = type /\ todo[1].call = todo[3].call
      BY <2>2, <1>2 DEF Precedes
    <3>2. todo'[1].op = "cursor" /\ todo'[2] = todo[3]
      BY <3>1, <1>2, <2>2
    <3>3. /\ log' # << >>
          /\ log'[Len(log')].type = type /\ log'[Len(log')].call = todo'[2].call
      BY <3>1, <3>2, <1>6, <1>2
    <3> QED BY <3>2, <3>3, <2>2 DEF Precedes, LastEvent
  <2>3. CASE i >= 3
    BY <2>3, <1>1, FarShift
  <2> QED BY <2>1, <2>2, <2>3, <1>2
<1>9. ScriptInv'
  BY <1>1, <1>8, ScriptShifts DEF StoreEvent, WriteEvent
<1>10. /\ GraphOK(mem)' /\ GraphOK(ckpt)' /\ TaskInv' /\ WaitInv'
       /\ RequestsOK'
  BY DEF RequestsOK, StoreEvent, WriteEvent, AfterWrite, IInv, worldVars,
         GraphOK, TaskInv,
         WaitInv
<1> QED BY <1>7, <1>9, <1>10 DEF IInv

LEMMA StoreCursorInv ==
  ASSUME IInv, todo # << >>, StoreCursor(Head(todo))
  PROVE  IInv'
<1> DEFINE op == Head(todo)
<1>1. todo \in Seq(Ops) /\ todo' = Tail(todo) /\ log' = log
  BY DEF IInv, TypeOK, StoreCursor, AfterWrite, AdvanceCursor, logVars
<1>2. /\ todo' \in Seq(Ops) /\ Len(todo) \in Nat \ {0}
      /\ op = todo[1] /\ op \in Ops
      /\ \A i \in 1..Len(todo') : i + 1 \in 1..Len(todo) /\ todo'[i] = todo[i + 1]
  BY <1>1, WriteLeft
<1>3. todo[1].op = "cursor" /\ op.at \in Nat /\ Len(log) \in Nat
  BY <1>2 DEF Ops, StoreOps, StoreCursor, IInv, TypeOK
<1>4. run' \in RunRecords /\ run'.status = run.status /\ run'.pending = run.pending
  BY <1>3 DEF StoreCursor, AdvanceCursor, IInv, TypeOK, RunRecords
<1>5. TypeOK'
  BY <1>2, <1>4 DEF StoreCursor, AdvanceCursor, AfterWrite, IInv, TypeOK, logVars,
                    worldVars, TaskStates
<1>6. \A i \in 1..Len(todo') : \A type : Precedes(i + 1, type) => Precedes(i, type)'
  <2> SUFFICES ASSUME NEW i \in 1..Len(todo'), NEW type, Precedes(i + 1, type)
               PROVE  Precedes(i, type)'
    OBVIOUS
  <2>1. CASE i = 1
    BY <2>1, <1>1, <1>2, <1>3 DEF Precedes, LastEvent
  <2>2. CASE i = 2
    BY <2>2, <1>2, <1>3 DEF Precedes
  <2>3. CASE i >= 3
    BY <2>3, <1>1, FarShift
  <2> QED BY <2>1, <2>2, <2>3, <1>2
<1>7. ScriptInv'
  BY <1>1, <1>4, <1>6, ScriptShifts DEF StoreCursor, AdvanceCursor
<1>8. /\ GraphOK(mem)' /\ GraphOK(ckpt)' /\ TaskInv' /\ WaitInv'
      /\ RequestsOK'
  BY <1>4 DEF RequestsOK, StoreCursor, AdvanceCursor, AfterWrite, IInv,
              worldVars, GraphOK,
              TaskInv, WaitInv
<1> QED BY <1>5, <1>7, <1>8 DEF IInv

LEMMA StoreMoveInv ==
  ASSUME IInv, todo # << >>, StoreMove(Head(todo))
  PROVE  IInv'
<1> DEFINE op == Head(todo)
<1>1. todo \in Seq(Ops) /\ todo' = Tail(todo) /\ log' = log
  BY DEF IInv, TypeOK, StoreMove, AfterWrite, Transition, logVars
<1>2. /\ todo' \in Seq(Ops) /\ Len(todo) \in Nat \ {0}
      /\ Len(todo') = Len(todo) - 1
      /\ op = todo[1] /\ op \in Ops
      /\ \A i \in 1..Len(todo') : i + 1 \in 1..Len(todo) /\ todo'[i] = todo[i + 1]
  BY <1>1, WriteLeft
<1>3. /\ todo[1].op = "move" /\ op.name \in Statuses
      /\ op.call \in Calls \cup {NoCall}
      /\ op.steps \in Nat /\ op.calls \in Nat /\ op.at \in Nat
  BY <1>2 DEF Ops, StoreOps, StoreMove
<1>4. MoveOK(1)
  BY <1>2, <1>3 DEF IInv, ScriptInv
<1>5. /\ run' \in RunRecords
      /\ run'.status = op.name /\ run'.pending = op.call
  BY <1>3 DEF StoreMove, Transition, IInv, TypeOK, RunRecords
<1>6. TypeOK'
  BY <1>2, <1>5 DEF StoreMove, Transition, AfterWrite, IInv, TypeOK, logVars,
                    worldVars, TaskStates
<1>7. \A i \in 1..Len(todo') : \A type : Precedes(i + 1, type) => Precedes(i, type)'
  <2> SUFFICES ASSUME NEW i \in 1..Len(todo'), NEW type, Precedes(i + 1, type)
               PROVE  Precedes(i, type)'
    OBVIOUS
  <2>1. i # 1 /\ i # 2
    BY <1>2, <1>3 DEF Precedes
  <2> QED BY <2>1, <1>1, <1>2, FarShift
<1>8. ScriptInv'
  <2>1. CASE op.name = "waiting_approval"
    <3>1. Len(todo') = 0
      BY <2>1, <1>2, <1>4 DEF MoveOK
    <3> QED BY <3>1 DEF ScriptInv
  <2>2. CASE op.name # "waiting_approval"
    BY <2>2, <1>1, <1>5, <1>7, ScriptShifts DEF StoreMove, Transition
  <2> QED BY <2>1, <2>2
<1>9. WaitInv'
  <2> SUFFICES ASSUME op.name = "waiting_approval"
               PROVE  op.call \in Calls /\ mem'.node = "approve"
    BY <1>5 DEF WaitInv
  <2> QED BY <1>2, <1>4, CallAssumption
             DEF MoveOK, StoreMove, AfterWrite
<1>10. /\ GraphOK(mem)' /\ GraphOK(ckpt)' /\ TaskInv'
       /\ RequestsOK'
  BY DEF RequestsOK, StoreMove, Transition, AfterWrite, IInv, worldVars, GraphOK,
         TaskInv
<1> QED BY <1>6, <1>8, <1>9, <1>10 DEF IInv
-----------------------------------------------------------------------------
(* The scripts handlers queue.                                             *)

\* What _fail, _fail_if_running and expire_if_due write.
LEMMA EndScript ==
  ASSUME IInv, NEW t \in Nat, approvals' = approvals,
         \/ todo' = Put("run.failed", NoCall, FALSE, t) \o Keep("failed", NoCall, t)
         \/ todo' = Put("run.failed", NoCall, FALSE, t) \o Keep("expired", NoCall, t)
  PROVE  todo' \in Seq(Ops) /\ ScriptInv'
<1>1. PICK s \in {"failed", "expired"} :
        todo' = Put("run.failed", NoCall, FALSE, t) \o Keep(s, NoCall, t)
  OBVIOUS
<1>2. todo' \in Seq(Ops)
  <2>1. run.steps \in Nat /\ run.calls \in Nat
    BY DEF IInv, TypeOK, RunRecords
  <2> QED BY <1>1, <2>1
          DEF Put, Move, Keep, Op, Ops, StoreOps, Statuses, Terminal, EventTypes
<1>3. /\ Len(todo') = 3
      /\ todo'[1].op = "event" /\ todo'[1].name = "run.failed"
      /\ todo'[1].call = NoCall /\ todo'[2].op = "cursor"
      /\ todo'[3].op = "move" /\ todo'[3].name = s /\ todo'[3].call = NoCall
  BY <1>1 DEF Put, Move, Keep, Op
<1>4. MoveOK(3)'
  <2>1. Precedes(3, "run.failed")'
    BY <1>3 DEF Precedes
  <2> QED BY <1>1, <1>3, <2>1 DEF MoveOK
<1>5. ScriptInv'
  <2> SUFFICES ASSUME NEW i \in 1..3
               PROVE  /\ ~(todo'[i].op = "event" /\ todo'[i].name = "tool.started")
                      /\ todo'[i].op = "move" => MoveOK(i)'
    BY <1>3 DEF ScriptInv
  <2> QED BY <1>3, <1>4
<1> QED BY <1>2, <1>5

LEMMA NothingLeft == ASSUME todo' = << >> PROVE todo' \in Seq(Ops) /\ ScriptInv'
  BY DEF ScriptInv

-----------------------------------------------------------------------------
(* The steps that leave mem and the store alone.                           *)

LEMMA RaiseInv == ASSUME IInv, Raise PROVE IInv'
<1>1. todo' \in Seq(Ops) /\ ScriptInv'
  <2>1. now \in Nat /\ approvals' = approvals
    BY DEF IInv, TypeOK, Raise, storeVars, logVars
  <2>2. todo' = FailOps \/ todo' = << >>
    BY DEF Raise
  <2> QED BY <2>1, <2>2, EndScript, NothingLeft DEF FailOps
<1>2. TypeOK'
  BY <1>1 DEF Raise, IInv, TypeOK, storeVars, logVars, worldVars, TaskStates, Phases
<1>3. /\ GraphOK(mem)' /\ GraphOK(ckpt)' /\ TaskInv' /\ WaitInv'
      /\ RequestsOK'
  BY DEF RequestsOK, Raise, IInv, storeVars, logVars, worldVars, GraphOK,
         TaskInv, WaitInv
<1> QED BY <1>1, <1>2, <1>3 DEF IInv

\* An exception nobody catches takes nothing but the task.
LEMMA TaskEscapesInv == ASSUME IInv, TaskEscapes PROVE IInv'
<1>1. /\ UNCHANGED <<storeVars, worldVars, up, todo, by, mem, seen>> /\ todo = << >>
      /\ task' = "escaped" /\ phase' = "none" /\ reply' = "none"
  BY DEF TaskEscapes, Quiet
<1>2. TypeOK'
  BY <1>1 DEF IInv, TypeOK, storeVars, logVars, worldVars, TaskStates, Phases
<1>3. GraphOK(mem)' /\ GraphOK(ckpt)' /\ TaskInv' /\ WaitInv' /\ RequestsOK'
  BY <1>1
  DEF RequestsOK, IInv, GraphOK, TaskInv, WaitInv, storeVars, logVars, worldVars
<1> QED BY <1>1, <1>2, <1>3, NothingLeft DEF IInv

LEMMA StoreStepInv == ASSUME IInv, StoreStep PROVE IInv'
<1>1. CASE StoreEvent(Head(todo))
  BY <1>1, StoreEventInv DEF StoreStep
<1>2. CASE StoreCursor(Head(todo))
  BY <1>2, StoreCursorInv DEF StoreStep
<1>3. CASE StoreMove(Head(todo))
  BY <1>3, StoreMoveInv DEF StoreStep
<1>4. CASE StoreRaises(Head(todo)) /\ ~Raise
  <2>1. todo' \in Seq(Ops) /\ ScriptInv'
    BY <1>4, NothingLeft DEF StoreRaises
  <2>2. TypeOK'
    BY <1>4, <2>1 DEF StoreRaises, IInv, TypeOK, storeVars, logVars, worldVars,
                      TaskStates
  <2>3. TaskInv'
    BY <1>4 DEF StoreStep, StoreRaises, IInv, TaskInv, worldVars
  <2>4. /\ GraphOK(mem)' /\ GraphOK(ckpt)' /\ WaitInv'
        /\ RequestsOK'
    BY <1>4 DEF RequestsOK, StoreRaises, IInv, storeVars, logVars, worldVars,
                GraphOK, WaitInv
  <2> QED BY <2>1, <2>2, <2>3, <2>4 DEF IInv
<1> QED BY <1>1, <1>2, <1>3, <1>4, RaiseInv DEF StoreStep
-----------------------------------------------------------------------------
(* The task around its nodes.                                              *)

LEMMA InitialGraph == ASSUME IInv PROVE Initial \in Graphs /\ GraphOK(Initial)
<1>1. Observed \subseteq Calls
  BY CallAssumption DEF Observed
<1> QED BY <1>1 DEF Initial, Graphs, Nodes, GraphOK

LEMMA NoGraphOK == NoGraph \in Graphs /\ GraphOK(NoGraph)
  BY DEF NoGraph, Graphs, Nodes, GraphOK

LEMMA TaskStartInv == ASSUME IInv, TaskStart PROVE IInv'
<1>1. CASE ~Raise
  <2>1. run.status \in {"created", "running"} /\ UNCHANGED <<storeVars, worldVars>>
    BY <1>1 DEF TaskStart
  <2>2. mem' \in Graphs /\ GraphOK(mem)'
    <3>1. mem' \in {Initial, ckpt}
      BY <1>1 DEF TaskStart
    <3>2. mem' \in Graphs /\ GraphOK(mem')
      BY <3>1, InitialGraph DEF IInv, TypeOK
    <3> QED BY <3>2, <2>1 DEF GraphOK, storeVars, logVars
  <2>3. reply' \in Decisions \cup {"none"}
    BY <1>1, <2>2 DEF TaskStart, IInv, TypeOK, GraphOK
  <2>4. TypeOK'
    BY <1>1, <2>1, <2>2, <2>3
    DEF TaskStart, IInv, TypeOK, storeVars, logVars, worldVars, TaskStates
  <2>5. TaskInv' /\ WaitInv'
    BY <1>1, <2>1 DEF TaskStart, Quiet, IInv, TaskInv, WaitInv, storeVars, logVars
  <2>6. ScriptInv'
    BY <1>1, NothingLeft DEF TaskStart, Quiet
  <2>7. GraphOK(ckpt)' /\ RequestsOK'
    BY <2>1 DEF RequestsOK, IInv, GraphOK, storeVars, logVars, worldVars
  <2> QED BY <2>2, <2>4, <2>5, <2>6, <2>7 DEF IInv
<1> QED BY <1>1, RaiseInv

LEMMA TaskResumeInv == ASSUME IInv, TaskResume PROVE IInv'
<1> SUFFICES ASSUME ~Raise PROVE IInv'
  BY RaiseInv
<1>1. UNCHANGED <<storeVars, worldVars>> /\ todo = << >> /\ todo' = << >>
  BY DEF TaskResume, Quiet
<1>2. /\ approvals[run.pending] # "none"
      /\ mem' = ckpt /\ reply' = approvals[run.pending]
      /\ run.status = "waiting_approval"
  BY DEF TaskResume
<1>3. reply' \in Decisions \cup {"none"}
  BY <1>2 DEF IInv, TypeOK, WaitInv
<1>4. TypeOK'
  BY <1>1, <1>2, <1>3
  DEF TaskResume, IInv, TypeOK, storeVars, logVars, worldVars, TaskStates
<1>5. GraphOK(mem)' /\ GraphOK(ckpt)' /\ RequestsOK'
  BY <1>1, <1>2 DEF RequestsOK, IInv, GraphOK, storeVars, logVars, worldVars
<1>6. TaskInv' /\ WaitInv'
  BY <1>1, <1>2 DEF TaskResume, IInv, TaskInv, WaitInv, storeVars, logVars
<1> QED BY <1>1, <1>4, <1>5, <1>6, NothingLeft DEF IInv

\* The saver copies mem; the task goes on to flush and ends.
LEMMA SaverInv ==
  ASSUME IInv, SaveCheckpoint \/ GraphEnds \/ TaskDone
  PROVE  IInv'
<1>1. /\ UNCHANGED <<storeVars, now, crashes, inflight, sandbox, up, by, mem, seen>>
      /\ phase' = phase /\ reply' = reply /\ todo = << >> /\ todo' = << >>
      /\ ckpt' \in {ckpt, mem}
      /\ task' = task \/ (phase = "none" /\ task' = "flush") \/ task' = "none"
      /\ task' = "none" => task = "flush"
  BY DEF SaveCheckpoint, GraphEnds, TaskDone, Quiet, taskVars, worldVars
<1>2. TypeOK'
  BY <1>1 DEF IInv, TypeOK, storeVars, logVars, TaskStates
<1>3. GraphOK(mem)' /\ GraphOK(ckpt)' /\ RequestsOK'
  BY <1>1 DEF RequestsOK, IInv, GraphOK, storeVars, logVars
<1>4. TaskInv' /\ WaitInv'
  BY <1>1 DEF IInv, TaskInv, WaitInv, storeVars, logVars
<1> QED BY <1>1, <1>2, <1>3, <1>4, NothingLeft DEF IInv

-----------------------------------------------------------------------------
(* The nodes.                                                              *)

\* What a node leaves alone; what is left to show is about its script and
\* about the graph state it returns.
LEMMA NodeInv ==
  ASSUME IInv, NEW ops, NEW g, Node(ops, g),
         task = "graph", ops \in Seq(Ops), g \in Graphs, GraphOK(g),
         run.status = "waiting_approval" /\ g.node \notin {"approve", "end"}
           => approvals[run.pending] # "none",
         ScriptInv'
  PROVE  IInv'
<1>1. TypeOK'
  BY DEF Node, IInv, TypeOK, storeVars, logVars, worldVars, Phases
<1>2. GraphOK(mem)' /\ GraphOK(ckpt)' /\ RequestsOK'
  BY DEF RequestsOK, Node, IInv, GraphOK, storeVars, logVars, worldVars
<1>3. TaskInv' /\ WaitInv'
  BY DEF Node, IInv, TaskInv, WaitInv, storeVars, logVars
<1> QED BY <1>1, <1>2, <1>3 DEF IInv

\* A node that writes nothing.
LEMMA SilentNodeInv ==
  ASSUME IInv, NEW g, Node(<< >>, g),
         task = "graph", g \in Graphs, GraphOK(g),
         run.status = "waiting_approval" /\ g.node \notin {"approve", "end"}
           => approvals[run.pending] # "none"
  PROVE  IInv'
<1>1. todo' = << >>
  BY DEF Node
<1> QED BY <1>1, NothingLeft, NodeInv

\* Moving to another node keeps the rest of the graph state.
LEMMA GoesTo ==
  ASSUME IInv, NEW n \in Nodes \ {"policy", "approve", "call"},
         mem.gate => n = "end"
  PROVE  /\ [mem EXCEPT !.node = n] \in Graphs
         /\ GraphOK([mem EXCEPT !.node = n])
         /\ [mem EXCEPT !.node = n].node = n
<1> DEFINE g == [mem EXCEPT !.node = n]
<1>1. g \in Graphs /\ g.node = n
  BY DEF IInv, TypeOK, Graphs
<1>2. g.gate = mem.gate /\ g.call = mem.call
  BY DEF IInv, TypeOK, Graphs
<1> HIDE DEF g
<1>3. GraphOK(g)
  BY <1>1, <1>2 DEF IInv, GraphOK
<1> QED BY <1>1, <1>3 DEF g

LEMMA NodeFailsInv == ASSUME IInv, task = "graph", NodeFails PROVE IInv'
<1>1. /\ [mem EXCEPT !.node = "end"] \in Graphs
      /\ GraphOK([mem EXCEPT !.node = "end"])
      /\ [mem EXCEPT !.node = "end"].node = "end"
  BY GoesTo DEF Nodes
<1>2. now \in Nat /\ approvals' = approvals /\ todo' = FailOps
  BY DEF IInv, TypeOK, NodeFails, Node, storeVars, logVars
<1>3. FailOps \in Seq(Ops) /\ ScriptInv'
  BY <1>2, EndScript DEF FailOps
<1> QED BY <1>1, <1>3, NodeInv DEF NodeFails

\* A single transition back to running, of a run that may be running.
LEMMA RunScript ==
  ASSUME IInv, NEW steps \in Nat, NEW calls \in Nat,
         todo' = Move("running", NoCall, steps, calls, now),
         approvals' = approvals, run' = run,
         run.status = "waiting_approval" => approvals[run.pending] # "none"
  PROVE  todo' \in Seq(Ops) /\ ScriptInv'
<1>1. now \in Nat
  BY DEF IInv, TypeOK
<1>2. /\ todo' \in Seq(Ops) /\ Len(todo') = 1
      /\ todo'[1].op = "move" /\ todo'[1].name = "running"
      /\ todo'[1].call = NoCall
  BY <1>1 DEF Move, Op, Ops, StoreOps, Statuses
<1>3. MoveOK(1)'
  BY <1>2 DEF MoveOK
<1> QED BY <1>2, <1>3 DEF ScriptInv

LEMMA ReceiveRequestInv == ASSUME IInv, ReceiveRequest PROVE IInv'
<1>1. task = "graph" /\ run.steps \in Nat /\ run.calls \in Nat /\ now \in Nat
  BY DEF ReceiveRequest, AtNode, IInv, TypeOK, RunRecords
<1> DEFINE g == [mem EXCEPT !.node = "retrieve"]
           ops == Keep("running", NoCall, now)
                    \o Put("run.started", NoCall, FALSE, now)
<1>2. g \in Graphs /\ GraphOK(g) /\ g.node = "retrieve"
  BY GoesTo DEF Nodes, ReceiveRequest, AtNode, IInv, GraphOK
<1>3. CASE run.status = "created" /\ Node(ops, g)
  <2>1. ops \in Seq(Ops)
    BY <1>1 DEF Put, Move, Keep, Op, Ops, StoreOps, Statuses, EventTypes
  <2>2. /\ todo' = ops /\ approvals' = approvals /\ run' = run
    BY <1>3 DEF Node, storeVars, logVars
  <2>3. /\ Len(todo') = 3
        /\ todo'[1].op = "move" /\ todo'[1].name = "running"
        /\ todo'[1].call = NoCall
        /\ todo'[2].op = "event" /\ todo'[2].name = "run.started"
        /\ todo'[3].op = "cursor"
    BY <2>2 DEF Put, Move, Keep, Op
  <2>4. MoveOK(1)'
    BY <1>3, <2>2, <2>3 DEF MoveOK
  <2>5. ScriptInv'
    BY <2>3, <2>4 DEF ScriptInv
  <2> QED BY <1>1, <1>2, <1>3, <2>1, <2>5, NodeInv
<1>4. CASE run.status = "running" /\ Node(<< >>, g)
  BY <1>1, <1>2, <1>4, SilentNodeInv
<1> QED BY <1>3, <1>4, RaiseInv DEF ReceiveRequest

LEMMA PrepareEvidenceRetrievalInv ==
  ASSUME IInv, PrepareEvidenceRetrieval PROVE IInv'
<1>1. /\ task = "graph" /\ ~mem.gate
      /\ run.status = "waiting_approval" => approvals[run.pending] # "none"
  BY DEF PrepareEvidenceRetrieval, AtNode, IInv, WaitInv, GraphOK, TypeOK, Graphs
<1>2. CASE Node(<< >>, [mem EXCEPT !.node = "model"])
  BY <1>1, <1>2, SilentNodeInv, GoesTo DEF Nodes
<1> QED BY <1>1, <1>2, NodeFailsInv, RaiseInv DEF PrepareEvidenceRetrieval

LEMMA ModelDecisionInv == ASSUME IInv, ModelDecision PROVE IInv'
<1>1. task = "graph"
  BY DEF ModelDecision, AtNode
<1>2. CASE /\ phase' = "model" /\ seen' = run.steps
           /\ UNCHANGED <<storeVars, worldVars, up, todo, by, task, mem, reply>>
  <2>1. TypeOK'
    BY <1>2 DEF IInv, TypeOK, RunRecords, storeVars, logVars, worldVars, Phases
  <2>2. todo' = << >>
    BY <1>2 DEF ModelDecision, AtNode, Quiet
  <2>3. /\ GraphOK(mem)' /\ GraphOK(ckpt)' /\ TaskInv' /\ WaitInv'
        /\ RequestsOK'
    BY <1>1, <1>2 DEF RequestsOK, ModelDecision, AtNode, Quiet, IInv, GraphOK,
                      TaskInv,
                      WaitInv, storeVars, logVars, worldVars
  <2> QED BY <2>1, <2>2, <2>3, NothingLeft DEF IInv
<1> QED BY <1>1, <1>2, NodeFailsInv, RaiseInv DEF ModelDecision

\* Any answer that leaves mem.call and mem.gate alone.
LEMMA ModelAnswersInv == ASSUME IInv, ModelAnswers PROVE IInv'
<1>1. /\ task = "graph" /\ mem.node = "model" /\ ~mem.gate
      /\ run.status = "waiting_approval" => approvals[run.pending] # "none"
      /\ seen + 1 \in Nat /\ run.calls \in Nat /\ now \in Nat
  BY DEF ModelAnswers, IInv, TypeOK, RunRecords, TaskInv, WaitInv, GraphOK,
         Graphs
<1>2. CASE NodeFails
  BY <1>1, <1>2, NodeFailsInv
<1>3. CASE ModelMessage
  <2>1. ModelMove \in Seq(Ops) /\ ScriptInv'
    BY <1>1, <1>3, RunScript DEF ModelMessage, ModelMove, Node, storeVars, logVars
  <2> QED BY <1>1, <1>3, <2>1, GoesTo, NodeInv DEF ModelMessage, Nodes
<1>4. ASSUME NEW batch \in Batches, ModelCalls(batch) PROVE IInv'
  <2>1. CASE Duplicates(batch) \cap mem.supp # {}
    <3> DEFINE ops == ModelMove \o Put("run.failed", NoCall, FALSE, now)
                        \o Move("failed", NoCall, seen + 1, run.calls, now)
               g == [mem EXCEPT !.node = "end"]
    <3>1. Node(ops, g)
      BY <1>4, <2>1 DEF ModelCalls
    <3>2. todo' = ops /\ approvals' = approvals /\ run' = run
      BY <3>1 DEF Node, storeVars, logVars
    <3>3. ops \in Seq(Ops)
      BY <1>1 DEF ModelMove, Put, Move, Op, Ops, StoreOps, Statuses, Terminal,
                  EventTypes
    <3>4. /\ Len(todo') = 4
          /\ todo'[1].op = "move" /\ todo'[1].name = "running"
          /\ todo'[1].call = NoCall
          /\ todo'[2].op = "event" /\ todo'[2].name = "run.failed"
          /\ todo'[2].call = NoCall /\ todo'[3].op = "cursor"
          /\ todo'[4].op = "move" /\ todo'[4].name = "failed"
          /\ todo'[4].call = NoCall
      BY <3>2 DEF ModelMove, Put, Move, Op
    <3>5. MoveOK(1)'
      BY <1>1, <3>2, <3>4 DEF MoveOK
    <3>6. MoveOK(4)'
      BY <3>4 DEF MoveOK, Precedes
    <3>7. ScriptInv'
      BY <3>4, <3>5, <3>6 DEF ScriptInv
    <3>8. g \in Graphs /\ GraphOK(g) /\ g.node = "end"
      BY GoesTo DEF Nodes
    <3> QED BY <1>1, <3>1, <3>3, <3>7, <3>8, NodeInv
  <2>2. CASE Duplicates(batch) \cap mem.supp = {}
    <3>1. PICK f \in InOrder(batch) :
            Node(ModelMove,
                 [mem EXCEPT !.queue = [k \in DOMAIN f |-> batch[f[k]]],
                             !.supp = @ \cup Duplicates(batch),
                             !.node = IF DOMAIN f = {} THEN "model"
                                                       ELSE "validate"])
      BY <1>4, <2>2 DEF ModelCalls
    <3> DEFINE queue == [k \in DOMAIN f |-> batch[f[k]]]
               g == [mem EXCEPT !.queue = queue,
                                !.supp = @ \cup Duplicates(batch),
                                !.node = IF DOMAIN f = {} THEN "model"
                                                          ELSE "validate"]
    <3>2. batch \in Seq(Calls)
      BY CallAssumption
    <3>3. queue \in Seq(Calls)
      <4>1. PICK n \in Nat : f \in [1..n -> 1..Len(batch)]
        BY <3>2 DEF InOrder
      <4>2. queue \in [1..n -> Calls]
        BY <3>2, <4>1
      <4> QED BY <4>2
    <3>4. Duplicates(batch) \subseteq Calls
      BY DEF Duplicates, IInv, TypeOK, Graphs
    <3>5. g \in Graphs /\ g.node \in {"model", "validate"}
      BY <3>3, <3>4 DEF IInv, TypeOK, Graphs, Nodes
    <3>6. GraphOK(g)
      <4>1. ~g.gate
        BY <1>1 DEF IInv, TypeOK, Graphs
      <4> HIDE DEF g
      <4> QED BY <3>5, <4>1 DEF GraphOK
    <3>7. ModelMove \in Seq(Ops) /\ ScriptInv'
      BY <1>1, <3>1, RunScript DEF ModelMove, Node, storeVars, logVars
    <3> QED BY <1>1, <3>1, <3>5, <3>6, <3>7, NodeInv
  <2> QED BY <2>1, <2>2
<1> QED BY <1>2, <1>3, <1>4 DEF ModelAnswers

LEMMA ValidateToolSchemaInv == ASSUME IInv, ValidateToolSchema PROVE IInv'
<1>1. /\ task = "graph" /\ ~mem.gate /\ mem.queue \in Seq(Calls)
      /\ run.status = "waiting_approval" => approvals[run.pending] # "none"
  BY DEF ValidateToolSchema, AtNode, IInv, TypeOK, Graphs, WaitInv, GraphOK
<1>2. CASE mem.queue # << >>
  <2> DEFINE g == [mem EXCEPT !.call = Head(mem.queue),
                              !.queue = Tail(mem.queue), !.node = "policy"]
  <2>1. Head(mem.queue) \in Calls /\ Tail(mem.queue) \in Seq(Calls)
    BY <1>1, <1>2
  <2>2. g \in Graphs /\ g.node = "policy" /\ g.call \in Calls
    BY <2>1 DEF IInv, TypeOK, Graphs, Nodes
  <2>3. ~g.gate
    BY <1>1 DEF IInv, TypeOK, Graphs
  <2>4. Node(<< >>, g)
    BY <1>2 DEF ValidateToolSchema
  <2> HIDE DEF g
  <2>5. GraphOK(g)
    BY <2>2, <2>3 DEF GraphOK
  <2> QED BY <1>1, <2>2, <2>4, <2>5, SilentNodeInv
<1> QED BY <1>1, <1>2, NodeFailsInv DEF ValidateToolSchema

LEMMA EnforceToolPolicyInv == ASSUME IInv, EnforceToolPolicy PROVE IInv'
<1> DEFINE c == mem.call
           propose == Put("tool.call.proposed", c, FALSE, now)
           ask == propose \o Put("approval.required", c, FALSE, now)
                          \o Keep("waiting_approval", c, now)
<1>1. /\ task = "graph" /\ mem.node = "policy" /\ ~mem.gate /\ c \in Calls
      /\ run.status = "waiting_approval" => approvals[run.pending] # "none"
      /\ run.steps \in Nat /\ run.calls \in Nat /\ now \in Nat
  BY DEF EnforceToolPolicy, AtNode, IInv, TypeOK, RunRecords, WaitInv, GraphOK,
         Graphs
<1>2. CASE c \in ApprovalCalls
           /\ Node(ask, [mem EXCEPT !.gate = TRUE, !.node = "approve"])
  <2> DEFINE g == [mem EXCEPT !.gate = TRUE, !.node = "approve"]
  <2>1. g \in Graphs /\ g.gate /\ g.node = "approve" /\ g.call = c
    BY DEF IInv, TypeOK, Graphs, Nodes
  <2>2. todo' = ask /\ approvals' = approvals /\ run' = run /\ mem' = g
    BY <1>2 DEF Node, storeVars, logVars
  <2>3. ask \in Seq(Ops)
    BY <1>1 DEF Put, Keep, Move, Op, Ops, StoreOps, Statuses, EventTypes
  <2>4. /\ Len(todo') = 5
        /\ todo'[1].op = "event" /\ todo'[1].name = "tool.call.proposed"
        /\ todo'[2].op = "cursor"
        /\ todo'[3].op = "event" /\ todo'[3].name = "approval.required"
        /\ todo'[3].call = c /\ todo'[4].op = "cursor"
        /\ todo'[5].op = "move" /\ todo'[5].name = "waiting_approval"
        /\ todo'[5].call = c
    BY <2>2 DEF Put, Keep, Move, Op
  <2> HIDE DEF g, ask
  <2>5. MoveOK(5)'
    <3>1. Precedes(5, "approval.required")'
      BY <2>4 DEF Precedes
    <3> QED BY <1>2, <2>1, <2>2, <2>4, <3>1 DEF MoveOK
  <2>6. ScriptInv'
    BY <2>4, <2>5 DEF ScriptInv
  <2>7. GraphOK(g)
    BY <1>1, <1>2, <2>1 DEF GraphOK
  <2> QED BY <1>1, <1>2, <2>1, <2>3, <2>6, <2>7, NodeInv DEF g, ask
<1>3. CASE c \notin ApprovalCalls
           /\ Node(propose, [mem EXCEPT !.gate = FALSE, !.node = "call"])
  <2> DEFINE g == [mem EXCEPT !.gate = FALSE, !.node = "call"]
  <2>1. g \in Graphs /\ ~g.gate /\ g.node = "call" /\ g.call = c
    BY DEF IInv, TypeOK, Graphs, Nodes
  <2>2. todo' = propose
    BY <1>3 DEF Node
  <2>3. propose \in Seq(Ops)
    BY <1>1 DEF Put, Op, Ops, StoreOps, EventTypes
  <2>4. /\ Len(todo') = 2
        /\ todo'[1].op = "event" /\ todo'[1].name = "tool.call.proposed"
        /\ todo'[2].op = "cursor"
    BY <2>2 DEF Put, Op
  <2> HIDE DEF g, propose
  <2>5. ScriptInv'
    BY <2>4 DEF ScriptInv
  <2>6. GraphOK(g)
    BY <1>1, <1>3, <2>1 DEF GraphOK
  <2> QED BY <1>1, <1>3, <2>1, <2>3, <2>5, <2>6, NodeInv DEF g, propose
<1>4. CASE NodeFails
  BY <1>1, <1>4, NodeFailsInv
<1>5. CASE Raise
  BY <1>5, RaiseInv
<1> HIDE DEF ask, propose
<1>6. \/ Raise \/ NodeFails
      \/ c \in ApprovalCalls
           /\ Node(ask, [mem EXCEPT !.gate = TRUE, !.node = "approve"])
      \/ c \notin ApprovalCalls
           /\ Node(propose, [mem EXCEPT !.gate = FALSE, !.node = "call"])
  BY DEF EnforceToolPolicy, ask, propose
<1> QED BY <1>2, <1>3, <1>4, <1>5, <1>6

LEMMA WaitForApprovalInv == ASSUME IInv, WaitForApproval PROVE IInv'
<1>1. /\ task = "graph" /\ mem.node = "approve" /\ mem.call \in ApprovalCalls
      /\ todo = << >> /\ phase = "none"
      /\ run.steps \in Nat /\ run.calls \in Nat
  BY DEF WaitForApproval, AtNode, Quiet, IInv, TypeOK, RunRecords, GraphOK
<1>2. CASE /\ task' = "flush"
           /\ UNCHANGED <<storeVars, worldVars, up, todo, by, mem, phase, seen,
                          reply>>
  <2>1. TypeOK'
    BY <1>2 DEF IInv, TypeOK, storeVars, logVars, worldVars, TaskStates
  <2>2. /\ GraphOK(mem)' /\ GraphOK(ckpt)' /\ TaskInv' /\ WaitInv'
        /\ RequestsOK'
    BY <1>1, <1>2 DEF RequestsOK, IInv, GraphOK, TaskInv, WaitInv, storeVars,
                      logVars, worldVars
  <2> QED BY <1>1, <1>2, <2>1, <2>2, NothingLeft DEF IInv
<1>3. CASE /\ reply = approvals[mem.call] /\ reply \notin {"none", "rejected"}
           /\ run.pending = mem.call
           /\ Node(Keep("running", NoCall, now), [mem EXCEPT !.node = "call"])
  <2> DEFINE g == [mem EXCEPT !.node = "call"]
  <2>1. g \in Graphs /\ g.node = "call" /\ g.call = mem.call /\ g.gate = mem.gate
    BY DEF IInv, TypeOK, Graphs, Nodes
  <2> HIDE DEF g
  <2>2. reply = "approved"
    BY <1>3 DEF IInv, TypeOK, Decisions
  <2>3. GraphOK(g)
    BY <1>1, <1>3, <2>1, <2>2, CallAssumption DEF GraphOK
  <2>4. Keep("running", NoCall, now) \in Seq(Ops) /\ ScriptInv'
    BY <1>1, <1>3, RunScript DEF Keep, Node, storeVars, logVars
  <2> QED BY <1>1, <1>3, <2>1, <2>3, <2>4, NodeInv DEF g
<1>4. CASE NodeFails
  BY <1>1, <1>4, NodeFailsInv
<1>5. CASE Raise
  BY <1>5, RaiseInv
<1> QED BY <1>2, <1>3, <1>4, <1>5 DEF WaitForApproval

LEMMA CallMcpToolInv == ASSUME IInv, CallMcpTool PROVE IInv'
<1>1. /\ up /\ task = "graph" /\ mem.node = "call" /\ mem.call \in Calls
      /\ mem.call \in ApprovalCalls => approvals[mem.call] = "approved"
      /\ run.status = "waiting_approval" => approvals[run.pending] # "none"
      /\ run.steps \in Nat /\ run.calls + 1 \in Nat /\ now \in Nat
  BY DEF CallMcpTool, AtNode, Quiet, IInv, TypeOK, RunRecords, WaitInv, GraphOK
<1>2. /\ todo' = Put("tool.started", mem.call, FALSE, now)
                   \o Move("running", NoCall, run.steps, run.calls + 1, now)
      /\ UNCHANGED <<storeVars, worldVars, up, task, mem, seen>>
      /\ by' = "task" /\ phase' = "send" /\ reply' = "none"
  BY DEF CallMcpTool
<1>3. todo' \in Seq(Ops)
  BY <1>1, <1>2 DEF Put, Move, Op, Ops, StoreOps, Statuses, EventTypes
<1>4. /\ Len(todo') = 3
      /\ todo'[1].op = "event" /\ todo'[1].call = mem.call
      /\ todo'[2].op = "cursor"
      /\ todo'[3].op = "move" /\ todo'[3].name = "running"
      /\ todo'[3].call = NoCall
  BY <1>2 DEF Put, Move, Op
<1>5. run' = run /\ approvals' = approvals
  BY <1>2 DEF storeVars, logVars
<1>6. MoveOK(3)'
  BY <1>1, <1>4, <1>5 DEF MoveOK
<1>7. ScriptInv'
  BY <1>1, <1>4, <1>5, <1>6 DEF ScriptInv
<1>8. TypeOK'
  BY <1>2, <1>3 DEF IInv, TypeOK, storeVars, logVars, worldVars, Phases
<1>9. /\ GraphOK(mem)' /\ GraphOK(ckpt)' /\ TaskInv' /\ WaitInv'
      /\ RequestsOK'
  BY <1>1, <1>2 DEF RequestsOK, IInv, GraphOK, TaskInv, WaitInv, storeVars,
                    logVars, worldVars
<1> QED BY <1>7, <1>8, <1>9 DEF IInv

LEMMA SendCallInv == ASSUME IInv, SendCall PROVE IInv'
<1> DEFINE q == [call |-> mem.call, life |-> crashes, phase |-> "sent"]
<1>1. /\ task = "graph" /\ phase = "send" /\ todo = << >> /\ todo' = << >>
      /\ UNCHANGED <<storeVars, crashes, ckpt, mem, task, up>> /\ phase' = "tool"
      /\ inflight' = inflight \/ (mem.gate /\ inflight' = inflight \cup {q})
  BY DEF SendCall, Quiet
<1>2. q.call = mem.call /\ q.life = crashes /\ crashes \in 0..crashes
  BY DEF IInv, TypeOK
<1>3. mem.gate => q.call \in ApprovalCalls
  BY <1>2 DEF IInv, GraphOK
<1>4. mem.gate => q \in Requests
  BY <1>3, CallAssumption DEF Requests, IInv, TypeOK
<1> HIDE DEF q
<1>5. RequestsOK'
  BY <1>1, <1>2, <1>3 DEF RequestsOK, IInv
<1>6. inflight' \subseteq Requests
  BY <1>1, <1>4 DEF IInv, TypeOK
<1>7. TypeOK'
  BY <1>1, <1>6 DEF SendCall, IInv, TypeOK, storeVars, logVars, Phases
<1>8. GraphOK(mem)' /\ GraphOK(ckpt)' /\ TaskInv' /\ WaitInv'
  BY <1>1 DEF IInv, GraphOK, TaskInv, WaitInv, storeVars, logVars
<1> QED BY <1>1, <1>5, <1>7, <1>8, NothingLeft DEF IInv

LEMMA ToolReturnsInv ==
  ASSUME IInv, NEW ok \in BOOLEAN, ToolReturns(ok) PROVE IInv'
<1>1. /\ task = "graph" /\ phase = "tool" /\ mem.node = "call" /\ mem.call \in Calls
      /\ run.status = "waiting_approval" => approvals[run.pending] # "none"
      /\ now \in Nat
  BY DEF ToolReturns, IInv, TypeOK, TaskInv, WaitInv, GraphOK
<1>2. /\ UNCHANGED <<storeVars, now, crashes, ckpt, up, task, seen, reply>>
      /\ phase' = "none" /\ by' = "task"
      /\ inflight' \subseteq inflight /\ sandbox' = sandbox
  BY DEF ToolReturns
<1>3. todo' \in Seq(Ops)
  BY <1>1 DEF ToolReturns, Put, Op, Ops, StoreOps, EventTypes
<1>4. /\ Len(todo') = 2 /\ todo'[1].name = "tool.completed"
      /\ todo'[1].op = "event" /\ todo'[2].op = "cursor"
  BY DEF ToolReturns, Put, Op
<1>5. ScriptInv'
  BY <1>4 DEF ScriptInv
<1>6. /\ mem' \in Graphs /\ mem'.node = "observe"
      /\ mem'.gate = mem.gate /\ mem'.call = mem.call
  <2>1. PICK done \in {mem.done, mem.done \cup {Sig[mem.call]}} :
          mem' = [mem EXCEPT !.node = "observe", !.done = done]
    BY DEF ToolReturns
  <2>2. Sig[mem.call] \in Calls
    BY <1>1, CallAssumption
  <2> QED BY <2>1, <2>2 DEF IInv, TypeOK, Graphs, Nodes
<1>7. TypeOK'
  BY <1>1, <1>2, <1>3, <1>6 DEF IInv, TypeOK, storeVars, logVars, Phases
<1>8. GraphOK(mem)'
  BY <1>2, <1>6 DEF IInv, GraphOK
<1>9. GraphOK(ckpt)' /\ TaskInv' /\ WaitInv' /\ RequestsOK'
  BY <1>1, <1>2 DEF RequestsOK, IInv, GraphOK, TaskInv, WaitInv, storeVars, logVars
<1> QED BY <1>5, <1>7, <1>8, <1>9 DEF IInv

LEMMA ValidateObservationInv == ASSUME IInv, ValidateObservation PROVE IInv'
<1> DEFINE g == [mem EXCEPT !.gate = FALSE, !.call = NoCall,
                            !.node = IF mem.queue = << >> THEN "model"
                                                          ELSE "validate"]
<1>1. /\ task = "graph"
      /\ run.status = "waiting_approval" => approvals[run.pending] # "none"
  BY DEF ValidateObservation, AtNode, IInv, WaitInv
<1>2. g \in Graphs /\ ~g.gate /\ g.node \in {"model", "validate"}
  BY DEF IInv, TypeOK, Graphs, Nodes
<1>3. Node(<< >>, g)
  BY DEF ValidateObservation
<1> HIDE DEF g
<1>4. GraphOK(g)
  BY <1>2 DEF GraphOK
<1> QED BY <1>1, <1>2, <1>3, <1>4, SilentNodeInv

LEMMA CompleteMessageInv == ASSUME IInv, CompleteMessage PROVE IInv'
<1> DEFINE ops == Put("model.delta", NoCall, FALSE, now)
                    \o Put("message.completed", NoCall, FALSE, now)
                    \o Put("run.completed", NoCall, FALSE, now)
                    \o Keep("succeeded", NoCall, now)
           g == [mem EXCEPT !.node = "end"]
<1>1. task = "graph" /\ run.steps \in Nat /\ run.calls \in Nat /\ now \in Nat
  BY DEF CompleteMessage, AtNode, IInv, TypeOK, RunRecords
<1>2. Node(ops, g)
  BY DEF CompleteMessage
<1>3. ops \in Seq(Ops)
  BY <1>1 DEF Put, Keep, Move, Op, Ops, StoreOps, Statuses, Terminal, EventTypes
<1>4. todo' = ops
  BY <1>2 DEF Node
<1>5. /\ Len(todo') = 7
      /\ todo'[1].op = "event" /\ todo'[1].name = "model.delta"
      /\ todo'[2].op = "cursor"
      /\ todo'[3].op = "event" /\ todo'[3].name = "message.completed"
      /\ todo'[4].op = "cursor"
      /\ todo'[5].op = "event" /\ todo'[5].name = "run.completed"
      /\ todo'[5].call = NoCall /\ todo'[6].op = "cursor"
      /\ todo'[7].op = "move" /\ todo'[7].name = "succeeded"
      /\ todo'[7].call = NoCall
  BY <1>4 DEF Put, Keep, Move, Op
<1> HIDE DEF ops
<1>6. MoveOK(7)'
  BY <1>5 DEF MoveOK, Precedes
<1>7. ScriptInv'
  BY <1>5, <1>6 DEF ScriptInv
<1>8. g \in Graphs /\ GraphOK(g) /\ g.node = "end"
  BY GoesTo DEF Nodes
<1> QED BY <1>1, <1>2, <1>3, <1>7, <1>8, NodeInv

LEMMA NodeStepInv == ASSUME IInv, NodeStep PROVE IInv'
  BY ReceiveRequestInv, PrepareEvidenceRetrievalInv, ModelDecisionInv,
     ModelAnswersInv, ValidateToolSchemaInv, EnforceToolPolicyInv,
     WaitForApprovalInv, CallMcpToolInv, SendCallInv, ToolReturnsInv,
     ValidateObservationInv, CompleteMessageInv DEF NodeStep

-----------------------------------------------------------------------------
(* The API, and the world.                                                 *)

LEMMA RefreshInv == ASSUME IInv, Refresh PROVE IInv'
<1>1. UNCHANGED <<storeVars, taskVars, worldVars, up>> /\ by' = "api"
  BY DEF Refresh
<1>2. todo' \in Seq(Ops) /\ ScriptInv'
  BY <1>1, DeadlineAssumption, EndScript DEF Refresh, ExpireOps, storeVars, logVars
<1>3. TypeOK'
  BY <1>1, <1>2 DEF IInv, TypeOK, storeVars, logVars, taskVars, worldVars
<1>4. /\ GraphOK(mem)' /\ GraphOK(ckpt)' /\ TaskInv' /\ WaitInv'
      /\ RequestsOK'
  BY <1>1 DEF RequestsOK, IInv, GraphOK, TaskInv, WaitInv, storeVars, logVars,
              taskVars, worldVars
<1> QED BY <1>2, <1>3, <1>4 DEF IInv

\* A decision is new, so no approval a graph state relies on changes.
LEMMA PostApprovalInv ==
  ASSUME IInv, NEW c \in Calls, NEW d \in Decisions, PostApproval(c, d)
  PROVE  IInv'
<1>1. /\ approvals' = [approvals EXCEPT ![c] = d] /\ approvals[c] = "none"
      /\ UNCHANGED <<run, logVars, worldVars, up, by, mem, phase, seen, reply>>
      /\ todo = << >> /\ todo' = << >>
      /\ (task' = "resume" /\ NoTask) \/ task' = task
  BY DEF PostApproval, DecideApproval, CanDecide, Quiet
<1>2. TypeOK'
  BY <1>1 DEF IInv, TypeOK, logVars, worldVars, TaskStates
<1>3. GraphOK(mem)' /\ GraphOK(ckpt)'
  BY <1>1, CallAssumption DEF IInv, TypeOK, GraphOK, worldVars
<1>4. d # "none"
  BY DEF Decisions
<1>5. TaskInv' /\ WaitInv' /\ RequestsOK'
  BY <1>1, <1>4 DEF RequestsOK, IInv, TypeOK, TaskInv, WaitInv, worldVars, NoTask
<1> QED BY <1>1, <1>2, <1>3, <1>5, NothingLeft DEF IInv

LEMMA CancelInv == ASSUME IInv, Cancel PROVE IInv'
<1>1. /\ UNCHANGED <<logVars, approvals, worldVars, up, by, mem, seen>>
      /\ todo = << >> /\ todo' = << >>
      /\ task' = "none" /\ phase' = "none" /\ reply' = "none"
  BY DEF Cancel, Quiet, Transition, storeVars, logVars
<1>2. run' \in RunRecords /\ (run' = run \/ run'.status = "cancelled")
  <2>1. CASE Transition("cancelled", NoCall, run.steps, run.calls, now)
    BY <2>1 DEF Transition, IInv, TypeOK, RunRecords, Statuses, Terminal
  <2>2. CASE UNCHANGED storeVars
    BY <2>2 DEF storeVars, logVars, IInv, TypeOK
  <2> QED BY <2>1, <2>2 DEF Cancel
<1>3. TypeOK'
  BY <1>1, <1>2 DEF IInv, TypeOK, logVars, worldVars, TaskStates, Phases
<1>4. /\ GraphOK(mem)' /\ GraphOK(ckpt)' /\ TaskInv' /\ WaitInv'
      /\ RequestsOK'
  BY <1>1, <1>2 DEF RequestsOK, IInv, GraphOK, TaskInv, WaitInv, worldVars
<1> QED BY <1>1, <1>3, <1>4, NothingLeft DEF IInv

\* Steps that change neither the store, nor mem, nor what is left to write.
LEMMA ScriptStays ==
  ASSUME ScriptInv, UNCHANGED <<storeVars, mem, todo>>
  PROVE  ScriptInv'
  BY DEF ScriptInv, MoveOK, Precedes, LastEvent, storeVars, logVars

\* A server goes on with one request, and may put its patch into a file.
LEMMA ServerWorks ==
  ASSUME IInv, Server
  PROVE  /\ inflight' \subseteq Requests /\ sandbox' \in [Files -> Calls \cup {NoPatch}]
         /\ RequestsOK' /\ ServerOnly
<1>1. PICK q \in inflight : ServerClears(q) \/ ServerFindsPatch(q) \/ ServerWrites(q)
  BY DEF Server
<1>2. q \in Requests /\ q.call \in ApprovalCalls /\ q.life \in 0..crashes
  BY DEF IInv, TypeOK, RequestsOK
<1>3. PICK new \in {"cleared", "done"} : Becomes(q, new)
  BY <1>1 DEF ServerClears, ServerFindsPatch, ServerWrites
<1> DEFINE p == [q EXCEPT !.phase = new]
<1>4. p \in Requests /\ p.call = q.call /\ p.life = q.life
  BY <1>2 DEF Requests
<1>5. inflight' = (inflight \ {q}) \cup {p}
  BY <1>3 DEF Becomes
<1> HIDE DEF p
<1>6. ServerOnly
  BY <1>1 DEF ServerClears, ServerFindsPatch, ServerWrites
<1>7. inflight' \subseteq Requests
  BY <1>4, <1>5 DEF IInv, TypeOK
<1>8. RequestsOK'
  BY <1>2, <1>4, <1>5, <1>6 DEF RequestsOK, IInv, ServerOnly
<1>9. Sig[q.call] \in Calls /\ sandbox \in [Files -> Calls \cup {NoPatch}]
  BY <1>2, CallAssumption DEF IInv, TypeOK
<1>10. sandbox' \in [Files -> Calls \cup {NoPatch}]
  BY <1>1, <1>9 DEF ServerClears, ServerFindsPatch, ServerWrites
<1> QED BY <1>6, <1>7, <1>8, <1>10

LEMMA WorldInv == ASSUME IInv, Server \/ Tick PROVE IInv'
<1>1. /\ UNCHANGED <<storeVars, taskVars, crashes, ckpt, up, todo, by>>
      /\ now' \in Nat /\ inflight' \subseteq Requests /\ RequestsOK'
      /\ sandbox' \in [Files -> Calls \cup {NoPatch}]
  BY ServerWorks DEF ServerOnly, Tick, IInv, TypeOK, RequestsOK
<1>2. TypeOK'
  BY <1>1 DEF IInv, TypeOK, storeVars, logVars, taskVars
<1>3. ScriptInv'
  BY <1>1, ScriptStays DEF IInv, taskVars
<1>4. GraphOK(mem)' /\ GraphOK(ckpt)' /\ TaskInv' /\ WaitInv'
  BY <1>1 DEF IInv, GraphOK, TaskInv, WaitInv, storeVars, logVars, taskVars
<1> QED BY <1>1, <1>2, <1>3, <1>4 DEF IInv

\* What a crash leaves of the event that was being written.
LEMMA CrashLeaves ==
  ASSUME IInv, Crash
  PROVE  /\ run' = run /\ approvals' = approvals
         /\ \/ log' = log
            \/ /\ todo # << >> /\ Head(todo).op = "event" /\ CanAppend
               /\ AddLine(Head(todo).name, Head(todo).call, Head(todo).ok)
         /\ log' \in Seq(Events) /\ tail' \in {"clean", "open", "corrupt"}
<1>1. CASE UNCHANGED storeVars
  BY <1>1 DEF storeVars, logVars, IInv, TypeOK
<1>2. CASE /\ todo # << >> /\ Head(todo).op = "event" /\ CanAppend
           /\ TearEvent(Head(todo).name, Head(todo).call, Head(todo).ok)
  <2>1. Head(todo) \in Ops
    BY <1>2, WriteLeft DEF IInv, TypeOK
  <2>2. /\ Head(todo).name \in EventTypes /\ Head(todo).call \in Calls \cup {NoCall}
        /\ Head(todo).ok \in BOOLEAN
    BY <1>2, <2>1 DEF Ops, StoreOps
  <2>3. run' = run /\ approvals' = approvals /\ tail' \in {"clean", "open", "corrupt"}
    BY <1>2 DEF TearEvent
  <2>4. CASE log' = log
    BY <2>3, <2>4 DEF IInv, TypeOK
  <2>5. CASE AddLine(Head(todo).name, Head(todo).call, Head(todo).ok)
    <3>1. [type |-> Head(todo).name, call |-> Head(todo).call, ok |-> Head(todo).ok]
            \in Events
      BY <2>2 DEF Events
    <3>2. log' \in Seq(Events)
      BY <2>5, <3>1 DEF AddLine, IInv, TypeOK
    <3> QED BY <1>2, <2>3, <2>5, <3>2
  <2> QED BY <1>2, <2>4, <2>5 DEF TearEvent
<1> QED BY <1>1, <1>2 DEF Crash

LEMMA CrashInv == ASSUME IInv, Crash PROVE IInv'
<1>1. /\ UNCHANGED <<run, approvals, ckpt, inflight>> /\ mem' = NoGraph
      /\ todo' = << >> /\ task' = "none" /\ phase' = "none"
  BY CrashLeaves DEF Crash
<1>2. crashes' = crashes + 1 /\ crashes' \in 0..MaxCrashes
  BY LimitAssumption DEF Crash, IInv, RequestsOK
<1>3. TypeOK'
  <2>1. crashes' \in Nat /\ seen' \in Nat /\ up' \in BOOLEAN
    <3>1. seen' = 0 /\ up' = FALSE
      BY DEF Crash
    <3>2. up' \in BOOLEAN
      BY <3>1
    <3>3. crashes' \in Nat /\ seen' \in Nat
      BY <1>2, <3>1, LimitAssumption
    <3> QED BY <3>2, <3>3
  <2>2. mem' \in Graphs /\ ckpt' \in Graphs
    BY <1>1, NoGraphOK DEF IInv, TypeOK
  <2>3. /\ task' \in TaskStates /\ phase' \in Phases /\ todo' \in Seq(Ops)
        /\ reply' \in Decisions \cup {"none"} /\ by' \in {"task", "api", "startup"}
    BY DEF Crash, TaskStates, Phases
  <2>4. /\ run' \in RunRecords
        /\ approvals' \in [Calls -> Decisions \cup {"none"}]
        /\ now' \in Nat /\ inflight' \subseteq Requests
        /\ sandbox' \in [Files -> Calls \cup {NoPatch}]
    BY <1>1 DEF Crash, IInv, TypeOK
  <2> QED BY <2>1, <2>2, <2>3, <2>4, CrashLeaves DEF TypeOK
<1>4. GraphOK(mem)'
  BY <1>1 DEF GraphOK, NoGraph
<1>5. RequestsOK'
  <2>1. \A q \in inflight : q.life \in 0..crashes'
    BY <1>2 DEF IInv, RequestsOK
  <2> QED BY <1>1, <1>2, <2>1 DEF RequestsOK, IInv
<1>6. GraphOK(ckpt)' /\ TaskInv' /\ WaitInv'
  BY <1>1 DEF IInv, GraphOK, TaskInv, WaitInv
<1> QED BY <1>1, <1>3, <1>4, <1>5, <1>6, NothingLeft DEF IInv

LEMMA RecoverInv == ASSUME IInv, Recover, phase = "none" PROVE IInv'
<1>1. /\ UNCHANGED <<storeVars, worldVars, mem, phase, seen, reply>>
      /\ by' = "startup" /\ up' = TRUE /\ task' \in {"start", "none"}
      /\ todo' = ExpireOps \/ todo' = << >>
  BY DEF Recover
<1>2. todo' \in Seq(Ops) /\ ScriptInv'
  BY <1>1, DeadlineAssumption, EndScript, NothingLeft
  DEF ExpireOps, storeVars,
      logVars
<1>3. TypeOK'
  BY <1>1, <1>2 DEF IInv, TypeOK, storeVars, logVars, worldVars, TaskStates
<1>4. /\ GraphOK(mem)' /\ GraphOK(ckpt)' /\ TaskInv' /\ WaitInv'
      /\ RequestsOK'
  BY <1>1 DEF RequestsOK, IInv, GraphOK, TaskInv, WaitInv, storeVars, logVars,
              worldVars
<1> QED BY <1>2, <1>3, <1>4 DEF IInv

LEMMA StutterInv == ASSUME IInv, UNCHANGED vars PROVE IInv'
<1>1. TypeOK'
  BY DEF vars, storeVars, logVars, taskVars, worldVars, IInv, TypeOK
<1>2. ScriptInv'
  BY ScriptStays DEF IInv, vars, taskVars
<1>3. /\ GraphOK(mem)' /\ GraphOK(ckpt)' /\ TaskInv' /\ WaitInv'
      /\ RequestsOK'
  BY DEF RequestsOK, IInv, GraphOK, TaskInv, WaitInv, vars, storeVars, logVars,
         taskVars, worldVars
<1> QED BY <1>1, <1>2, <1>3 DEF IInv

-----------------------------------------------------------------------------
LEMMA NextInv == ASSUME IInv, [Next]_vars PROVE IInv'
<1>1. CASE StoreStep
  BY <1>1, StoreStepInv
<1>2. CASE TaskStep
  BY <1>2, TaskStartInv, TaskResumeInv, NodeStepInv, SaverInv DEF TaskStep
<1>3. CASE SaveCheckpoint
  BY <1>3, SaverInv
<1>4. CASE TaskAborts \/ TaskEscapes
  BY <1>4, RaiseInv, TaskEscapesInv DEF TaskAborts
<1>5. CASE Client
  BY <1>5, RefreshInv, CancelInv, PostApprovalInv DEF Client
<1>6. CASE Server \/ Tick
  BY <1>6, WorldInv
<1>7. CASE Crash
  BY <1>7, CrashInv
<1>8. CASE Recover
  BY <1>8, RecoverInv DEF Recover, IInv, TaskInv
<1>9. CASE UNCHANGED vars
  BY <1>9, StutterInv
<1> QED BY <1>1, <1>2, <1>3, <1>4, <1>5, <1>6, <1>7, <1>8, <1>9 DEF Next

\* The inductive invariant holds in every reachable state, with any number of
\* crashes and any interleaving of the task, the API and the MCP server.
THEOREM Invariance == Spec => []IInv
  BY InitInv, NextInv, PTL DEF Spec

\* Every variable keeps its type: no handler leaves the graph at a node, the
\* record in a status or a counter at a value the code cannot read back.
THEOREM TypeCorrectness == Spec => []TypeOK
<1>1. IInv => TypeOK
  BY DEF IInv
<1> QED BY <1>1, Invariance, PTL

-----------------------------------------------------------------------------
(***************************************************************************)
(* The refinement: under the mapping of Lifecycle (the record's status and *)
(* pending call, the event log, the decisions on disk, the sandbox and the *)
(* requests between their look at a file and their write) every step of    *)
(* the store, the task, the API, an MCP server, the clock or a crash is a  *)
(* step of the lifecycle or a stutter.                                     *)
(***************************************************************************)

LEMMA InitRefines == Init => Lifecycle!Init
  BY DEF Init, StoreInit, Lifecycle!Init, NoPatch, Cleared

\* A step that changes nothing a client of the run can see.
LEMMA Unseen ==
  ASSUME run'.status = run.status, run'.pending = run.pending, log' = log,
         approvals' = approvals, sandbox' = sandbox, Cleared' = Cleared
  PROVE  UNCHANGED Lifecycle!lifecycleVars
  BY DEF Lifecycle!lifecycleVars, Lifecycle!sandboxVars

LEMMA SameCleared ==
  ASSUME {q \in inflight' : q.phase = "cleared"} = {q \in inflight : q.phase = "cleared"}
  PROVE  Cleared' = Cleared
  BY DEF Cleared

\* One more line of the log, written by a handler or left by a crash.
LEMMA LineRefines ==
  ASSUME IInv, todo # << >>, Head(todo).op = "event", CanAppend,
         AddLine(Head(todo).name, Head(todo).call, Head(todo).ok),
         UNCHANGED <<run, approvals, sandbox, inflight>>
  PROVE  Lifecycle!Next
<1> DEFINE op == Head(todo)
<1>1. todo \in Seq(Ops)
  BY DEF IInv, TypeOK
<1>2. op = todo[1] /\ op \in Ops /\ 1 \in 1..Len(todo)
  BY <1>1
<1>3. /\ op.op = "event" /\ op.name \in EventTypes
      /\ op.call \in Calls \cup {NoCall} /\ op.ok \in BOOLEAN
  BY <1>2 DEF Ops, StoreOps
<1>4. op.name = "tool.started" /\ op.call \in ApprovalCalls
        => approvals[op.call] = "approved"
  BY <1>2, <1>3 DEF IInv, ScriptInv
<1>5. /\ run.status \notin Terminal
      /\ log' = Append(log, [type |-> op.name, call |-> op.call, ok |-> op.ok])
      /\ Cleared' = Cleared
  BY SameCleared DEF CanAppend, IsTerminal, AddLine
<1>6. Lifecycle!Record(op.name, op.call, op.ok)
  BY <1>4, <1>5
  DEF Lifecycle!Record, Lifecycle!Final, Terminal, Lifecycle!sandboxVars
<1> QED BY <1>3, <1>6 DEF Lifecycle!Next

LEMMA EventRefines ==
  ASSUME IInv, todo # << >>, StoreEvent(Head(todo)) PROVE Lifecycle!Next
  BY LineRefines DEF StoreEvent, WriteEvent, worldVars

LEMMA MoveRefines ==
  ASSUME IInv, todo # << >>, StoreMove(Head(todo)) PROVE Lifecycle!Next
<1> DEFINE op == Head(todo)
<1>1. todo \in Seq(Ops)
  BY DEF IInv, TypeOK
<1>2. op = todo[1] /\ op \in Ops /\ 1 \in 1..Len(todo)
  BY <1>1
<1>3. op.op = "move" /\ op.name \in Statuses
  BY <1>2 DEF StoreMove, Ops, StoreOps
<1>4. MoveOK(1)
  BY <1>2, <1>3 DEF IInv, ScriptInv
<1>5. /\ run.status \notin Terminal
      /\ run'.status = op.name /\ run'.pending = op.call
      /\ log' = log /\ approvals' = approvals /\ UNCHANGED Lifecycle!sandboxVars
  BY SameCleared
  DEF StoreMove, CanTransition, IsTerminal, Transition, worldVars, IInv, TypeOK,
      RunRecords, logVars, Lifecycle!sandboxVars
<1>6. \A type : Precedes(1, type) => Lifecycle!LastIs(type, op.call)
  BY <1>2 DEF Precedes, LastEvent, Lifecycle!LastIs
<1>7. CASE op.name = "running"
  BY <1>2, <1>4, <1>5, <1>7
  DEF MoveOK, Lifecycle!Next, Lifecycle!Run, Lifecycle!Final, Terminal
<1>8. CASE op.name = "waiting_approval"
  <2>1. op.call \in ApprovalCalls /\ Lifecycle!LastIs("approval.required", op.call)
    BY <1>2, <1>4, <1>6, <1>8 DEF MoveOK
  <2>2. Lifecycle!Suspend(op.call)
    BY <1>5, <1>8, <2>1 DEF Lifecycle!Suspend, Lifecycle!Final, Terminal
  <2> QED BY <2>1, <2>2, CallAssumption DEF Lifecycle!Next
<1>9. CASE op.name \in {"succeeded", "failed", "expired"}
  <2>1. /\ op.call = NoCall
        /\ op.name = "succeeded" => Lifecycle!LastIs("run.completed", NoCall)
        /\ op.name # "succeeded" => Lifecycle!LastIs("run.failed", NoCall)
    BY <1>2, <1>4, <1>6, <1>9 DEF MoveOK
  <2>2. Lifecycle!Finish(op.name)
    BY <1>5, <1>9, <2>1 DEF Lifecycle!Finish, Lifecycle!Final, Terminal
  <2> QED BY <1>9, <2>2 DEF Lifecycle!Next, Lifecycle!Final
<1> QED BY <1>2, <1>4, <1>7, <1>8, <1>9 DEF MoveOK

LEMMA StoreStepRefines ==
  ASSUME IInv, StoreStep
  PROVE  Lifecycle!Next \/ UNCHANGED Lifecycle!lifecycleVars
<1>1. CASE StoreEvent(Head(todo))
  BY <1>1, EventRefines DEF StoreStep
<1>2. CASE StoreCursor(Head(todo))
  BY <1>2, Unseen, SameCleared
  DEF StoreCursor, AdvanceCursor, worldVars, logVars, IInv, TypeOK, RunRecords
<1>3. CASE StoreMove(Head(todo))
  BY <1>3, MoveRefines DEF StoreStep
<1>4. CASE StoreRaises(Head(todo))
  BY <1>4, Unseen, SameCleared DEF StoreRaises, Raise, storeVars, logVars, worldVars
<1> QED BY <1>1, <1>2, <1>3, <1>4 DEF StoreStep

\* A node queues its writes for StoreStep and leaves the store alone.
LEMMA SilentNodes ==
  ASSUME NodeStep, \A ok \in BOOLEAN : ~ToolReturns(ok), ~SendCall
  PROVE  UNCHANGED <<storeVars, sandbox, inflight>>
<1>1. \A ops, g : Node(ops, g) => UNCHANGED <<storeVars, sandbox, inflight>>
  BY DEF Node, worldVars
<1>2. Raise => UNCHANGED <<storeVars, sandbox, inflight>>
  BY DEF Raise, worldVars
<1>3. NodeFails => UNCHANGED <<storeVars, sandbox, inflight>>
  BY <1>1 DEF NodeFails
<1>4. UNCHANGED <<storeVars, worldVars>> => UNCHANGED <<storeVars, sandbox, inflight>>
  BY DEF worldVars
<1>5. CASE ReceiveRequest \/ PrepareEvidenceRetrieval
  BY <1>1, <1>2, <1>3, <1>5 DEF ReceiveRequest, PrepareEvidenceRetrieval
<1>6. CASE ModelDecision
  BY <1>2, <1>3, <1>4, <1>6 DEF ModelDecision
<1>7. CASE ModelAnswers
  BY <1>1, <1>3, <1>7 DEF ModelAnswers, ModelMessage, ModelCalls
<1>8. CASE ValidateToolSchema \/ EnforceToolPolicy
  <2>1. CASE ValidateToolSchema
    BY <1>1, <1>3, <2>1 DEF ValidateToolSchema
  <2>2. CASE EnforceToolPolicy
    BY <1>1, <1>2, <1>3, <2>2 DEF EnforceToolPolicy
  <2> QED BY <1>8, <2>1, <2>2
<1>9. CASE WaitForApproval
  BY <1>1, <1>2, <1>3, <1>4, <1>9 DEF WaitForApproval
<1>10. CASE CallMcpTool
  BY <1>10 DEF CallMcpTool, worldVars
<1>11. CASE ValidateObservation \/ CompleteMessage
  BY <1>1, <1>11 DEF ValidateObservation, CompleteMessage
<1> QED BY <1>5, <1>6, <1>7, <1>8, <1>9, <1>10, <1>11 DEF NodeStep

\* A request that is sent, or answered, has not looked at its file or is done
\* with it.
LEMMA NodeStepRefines ==
  ASSUME IInv, NodeStep
  PROVE  UNCHANGED Lifecycle!lifecycleVars
<1>1. ASSUME NEW ok \in BOOLEAN, ToolReturns(ok)
      PROVE  UNCHANGED Lifecycle!lifecycleVars
  <2>1. UNCHANGED <<run, log, approvals, sandbox>>
    BY <1>1 DEF ToolReturns, storeVars, logVars
  <2>2. Cleared' = Cleared
    <3> DEFINE q == [call |-> mem.call, life |-> crashes, phase |-> "done"]
    <3>1. inflight' = inflight \/ inflight' = inflight \ {q}
      BY <1>1 DEF ToolReturns
    <3>2. q.phase # "cleared"
      OBVIOUS
    <3> HIDE DEF q
    <3> QED BY <3>1, <3>2, SameCleared
  <2> QED BY <2>1, <2>2, Unseen
<1>2. CASE SendCall
  <2>1. UNCHANGED <<run, log, approvals, sandbox>>
    BY <1>2 DEF SendCall, storeVars, logVars
  <2>2. Cleared' = Cleared
    <3> DEFINE q == [call |-> mem.call, life |-> crashes, phase |-> "sent"]
    <3>1. inflight' = inflight \/ inflight' = inflight \cup {q}
      BY <1>2 DEF SendCall
    <3>2. q.phase # "cleared"
      OBVIOUS
    <3> HIDE DEF q
    <3> QED BY <3>1, <3>2, SameCleared
  <2> QED BY <2>1, <2>2, Unseen
<1>3. CASE (\A ok \in BOOLEAN : ~ToolReturns(ok)) /\ ~SendCall
  BY <1>3, SilentNodes, Unseen, SameCleared DEF storeVars, logVars
<1> QED BY <1>1, <1>2, <1>3

LEMMA ClientRefines ==
  ASSUME IInv, Client
  PROVE  Lifecycle!Next \/ UNCHANGED Lifecycle!lifecycleVars
<1>1. CASE Refresh
  BY <1>1, Unseen, SameCleared DEF Refresh, storeVars, logVars, worldVars
<1>2. CASE Cancel
  <2>1. /\ log' = log /\ approvals' = approvals /\ sandbox' = sandbox
        /\ Cleared' = Cleared
    BY <1>2, SameCleared DEF Cancel, Transition, storeVars, logVars, worldVars
  <2>2. CASE /\ CanTransition(now)
             /\ Transition("cancelled", NoCall, run.steps, run.calls, now)
    <3>1. Lifecycle!Finish("cancelled")
      BY <2>1, <2>2 DEF CanTransition, IsTerminal, Transition, Terminal, IInv,
         TypeOK, RunRecords, Lifecycle!Finish, Lifecycle!Final,
         Lifecycle!sandboxVars
    <3> QED BY <3>1 DEF Lifecycle!Next, Lifecycle!Final
  <2>3. CASE UNCHANGED storeVars
    BY <2>1, <2>3, Unseen DEF storeVars
  <2> QED BY <1>2, <2>2, <2>3 DEF Cancel
<1>3. ASSUME NEW c \in Calls, NEW d \in Decisions, PostApproval(c, d)
      PROVE  Lifecycle!Next
  <2>1. Lifecycle!Decide(c, d)
    BY <1>3, SameCleared
    DEF PostApproval, CanDecide, DecideApproval, worldVars, logVars,
        Lifecycle!Decide, Lifecycle!sandboxVars
  <2> QED BY <2>1 DEF Lifecycle!Next, Decisions
<1> QED BY <1>1, <1>2, <1>3 DEF Client

\* The look at the file and the write are steps of the lifecycle of their own.
LEMMA ServerRefines ==
  ASSUME IInv, Server
  PROVE  Lifecycle!Next \/ UNCHANGED Lifecycle!lifecycleVars
<1>1. PICK q \in inflight : ServerClears(q) \/ ServerFindsPatch(q) \/ ServerWrites(q)
  BY DEF Server
<1>2. UNCHANGED <<run, log, approvals>>
  BY <1>1 DEF ServerClears, ServerFindsPatch, ServerWrites, ServerOnly, storeVars,
              logVars
<1>3. /\ q \in Requests /\ q.call \in ApprovalCalls /\ q.call \in Calls
      /\ q.life \in 0..MaxCrashes
  BY LimitAssumption DEF IInv, TypeOK, RequestsOK, Requests
<1>4. CASE ServerClears(q)
  <2>1. Cleared' = Cleared \cup {<<q.call, q.life>>}
    <3> DEFINE p == [q EXCEPT !.phase = "cleared"]
    <3>1. inflight' = (inflight \ {q}) \cup {p} /\ q.phase = "sent"
      BY <1>4 DEF ServerClears, Becomes
    <3>2. p.phase = "cleared" /\ p.call = q.call /\ p.life = q.life
      BY <1>3 DEF Requests
    <3> HIDE DEF p
    <3>3. {x \in inflight' : x.phase = "cleared"}
            = {x \in inflight : x.phase = "cleared"} \cup {p}
      BY <3>1, <3>2
    <3> QED BY <3>2, <3>3 DEF Cleared
  <2>2. Lifecycle!Clear(q.call, q.life)
    BY <1>2, <1>3, <1>4, <2>1 DEF ServerClears, Lifecycle!Clear, NoPatch
  <2> QED BY <1>3, <2>2 DEF Lifecycle!Next
<1>5. CASE ServerFindsPatch(q)
  <2>1. Cleared' = Cleared
    <3> DEFINE p == [q EXCEPT !.phase = "done"]
    <3>1. inflight' = (inflight \ {q}) \cup {p} /\ q.phase = "sent"
      BY <1>5 DEF ServerFindsPatch, Becomes
    <3>2. p.phase = "done"
      BY <1>3 DEF Requests
    <3> HIDE DEF p
    <3> QED BY <3>1, <3>2, SameCleared
  <2> QED BY <1>2, <1>5, <2>1, Unseen DEF ServerFindsPatch
<1>6. CASE ServerWrites(q)
  <2>1. /\ Cleared' = Cleared \ {<<q.call, q.life>>}
        /\ <<q.call, q.life>> \in Cleared
    <3> DEFINE p == [q EXCEPT !.phase = "done"]
    <3>1. inflight' = (inflight \ {q}) \cup {p} /\ q.phase = "cleared"
      BY <1>6 DEF ServerWrites, Becomes
    <3>2. p.phase = "done"
      BY <1>3 DEF Requests
    <3>3. \A x \in inflight :
            x.phase = "cleared" /\ x.call = q.call /\ x.life = q.life => x = q
      <4> SUFFICES ASSUME NEW x \in inflight, x.phase = "cleared",
                          x.call = q.call, x.life = q.life
                   PROVE  x = q
        OBVIOUS
      <4>1. x \in Requests /\ q \in Requests /\ q.phase = "cleared"
        BY <1>3, <3>1 DEF IInv, TypeOK
      <4> QED BY <4>1 DEF Requests
    <3> HIDE DEF p
    <3>4. {x \in inflight' : x.phase = "cleared"}
            = {x \in inflight : x.phase = "cleared"} \ {q}
      BY <3>1, <3>2
    <3> QED BY <3>1, <3>3, <3>4 DEF Cleared
  <2>2. Lifecycle!Patch(q.call, q.life)
    BY <1>2, <1>6, <2>1 DEF ServerWrites, Lifecycle!Patch
  <2> QED BY <1>3, <2>2 DEF Lifecycle!Next
<1> QED BY <1>1, <1>4, <1>5, <1>6

LEMMA CrashRefines ==
  ASSUME IInv, Crash
  PROVE  Lifecycle!Next \/ UNCHANGED Lifecycle!lifecycleVars
  BY CrashLeaves, LineRefines, Unseen, SameCleared DEF Crash

LEMMA StepRefines ==
  ASSUME IInv, [Next]_vars
  PROVE  [Lifecycle!Next]_(Lifecycle!lifecycleVars)
<1>1. CASE TaskStep /\ ~NodeStep
  BY <1>1, Unseen, SameCleared
  DEF TaskStep, TaskStart, TaskResume, GraphEnds, TaskDone, Raise, storeVars,
      logVars, worldVars
<1>2. CASE SaveCheckpoint \/ TaskAborts \/ TaskEscapes \/ Tick \/ Recover
  BY <1>2, Unseen, SameCleared
  DEF SaveCheckpoint, TaskAborts, TaskEscapes, Raise, Tick, Recover, storeVars,
      logVars, worldVars
<1>3. CASE UNCHANGED vars
  BY <1>3, Unseen, SameCleared DEF vars, storeVars, logVars, worldVars
<1> QED BY <1>1, <1>2, <1>3, StoreStepRefines, NodeStepRefines, ClientRefines,
           ServerRefines, CrashRefines DEF Next, TaskStep

\* Whatever a client sees of a run follows the lifecycle: a terminal status is
\* final, an outcome is in the log before it is in the status, a suspended run
\* goes on only after a decision, and a sandbox file gets only the patches of
\* approved calls, each written by a request that had found the file missing.
THEOREM Refinement == Spec => FollowsLifecycle
  BY InitRefines, StepRefines, Invariance, PTL
  DEF Spec, FollowsLifecycle, Lifecycle!Spec
=============================================================================
