------------------------------- MODULE AgentRun -------------------------------
(***************************************************************************)
(* One Agent run: the store's files, the asyncio service that executes the *)
(* run (src/tinyllm/agent/api.py), the LangGraph nodes (agent/runtime.py), *)
(* the client of the API and the MCP server that applies sandbox writes    *)
(* (agent/devops_tools.py).                                                *)
(*                                                                         *)
(* asyncio: code between two awaits runs to its end unless the process     *)
(* dies.  A handler queues its durable writes in todo; StoreStep makes     *)
(* them one by one, nothing but Crash runs while some are left, and a      *)
(* store operation that raises drops the rest.                             *)
(***************************************************************************)
EXTENDS AgentRunStore

CONSTANTS
    ApprovalCalls,   \* the calls whose MCP policy has approval_required
    Sig,             \* the (server, tool, arguments) identity of each call
    Files, File,     \* sandbox files, and the one each call is about
    Batches,         \* bound: the tool_calls sequences a model can answer
    MaxSteps,        \* min(record.max_steps, config.max_steps)
    MaxToolCalls,    \* config.max_tool_calls
    RepeatLimit,     \* config.same_tool_consecutive_limit
    MaxTime,         \* bound: the clock stops here
    MaxCrashes       \* bound: how often the process dies

ASSUME CallAssumption ==
    /\ ApprovalCalls \subseteq Calls
    /\ Sig \in [Calls -> Calls] /\ File \in [Calls -> Files]
    /\ Batches \subseteq Seq(Calls) \ {<< >>}
ASSUME LimitAssumption ==
    /\ MaxSteps \in Nat \ {0} /\ MaxSteps <= StepField
    /\ MaxToolCalls \in Nat \ {0} /\ MaxToolCalls <= CallField
    /\ RepeatLimit \in Nat \ {0}
    /\ MaxTime \in Nat /\ MaxCrashes \in Nat

VARIABLES
    now,        \* the wall clock
    crashes,    \* how often the process has died
    up,         \* whether the gateway process is alive
    task,       \* the asyncio task registered for the run
    mem,        \* the graph state at the last node boundary of that task
    phase,      \* where inside the current node the task awaits
    seen,       \* steps_completed as _model_decision read it before its await
    reply,      \* the value Command(resume=...) carries to interrupt()
    todo, by,   \* durable writes left of the running handler, and whose it is
    ckpt,       \* the durable LangGraph checkpoint
    inflight,   \* sandbox writes the MCP servers work on
    sandbox     \* by file: identity of the patch it holds, or NoPatch

taskVars == <<task, mem, phase, seen, reply>>
worldVars == <<now, crashes, ckpt, inflight, sandbox>>
vars == <<storeVars, taskVars, worldVars, up, todo, by>>

Nodes == {"receive", "retrieve", "model", "validate", "policy", "approve",
          "call", "observe", "complete", "end"}
\* "escaped" is a task that has ended with an exception nobody caught.
TaskStates == {"none", "start", "resume", "graph", "flush", "dying", "escaped"}
NoTask == task \in {"none", "escaped"}
Phases == {"none", "model", "send", "tool"}
Graphs == [node : Nodes \cup {"none"}, queue : Seq(Calls), call : Calls \cup {NoCall},
           gate : BOOLEAN, done : SUBSET Calls, supp : SUBSET Calls]
NoGraph == [node |-> "none", queue |-> << >>, call |-> NoCall,
            gate |-> FALSE, done |-> {}, supp |-> {}]
NoPatch == NoCall
\* A server per request: life tells apart what is sent again after a crash.
Requests == [call : Calls, life : Nat, phase : {"sent", "cleared", "done"}]

\* Results already in the event log, as _execute collects them.
Observed == {Sig[c] : c \in {d \in Calls \ ApprovalCalls :
               \E i \in 1..Len(log) : /\ log[i].type = "tool.completed"
                                      /\ log[i].call = d /\ log[i].ok}}
Initial == [node |-> "receive", queue |-> << >>, call |-> NoCall,
            gate |-> FALSE, done |-> Observed, supp |-> {}]

-----------------------------------------------------------------------------
(* Durable writes a handler queues.                                        *)

Op(kind, name, c, ok, steps, calls, t) ==
    [op |-> kind, name |-> name, call |-> c, ok |-> ok, steps |-> steps,
     calls |-> calls, at |-> t]
StoreOps(kinds, names) ==
    [op : kinds, name : names, call : Calls \cup {NoCall}, ok : BOOLEAN,
     steps : Nat, calls : Nat, at : Nat]
Ops == StoreOps({"event", "cursor"}, EventTypes) \cup StoreOps({"move"}, Statuses)

\* Mutant: the cursor is written before the event line.
PutCursorFirst(e, c, ok, t) == << Op("cursor", e, c, ok, 0, 0, t),
                                  Op("event", e, c, ok, 0, 0, t) >>
\* store.append_event
Put(e, c, ok, t) == << Op("event", e, c, ok, 0, 0, t),
                       Op("cursor", e, c, ok, 0, 0, t) >>
\* store.transition: counters are read when the handler starts, which is
\* the same value, because nothing interleaves with a handler
Move(s, c, steps, calls, t) ==
    << Op("move", s, c, FALSE, steps, calls, t) >>
Keep(s, c, t) == Move(s, c, run.steps, run.calls, t)

\* Mutant: the event is logged and the transition forgotten.
FailEventOnly == Put("run.failed", NoCall, FALSE, now)
\* AgentRuntime._fail and AgentExecutionService._fail_if_running
FailOps == Put("run.failed", NoCall, FALSE, now) \o Keep("failed", NoCall, now)
\* AgentRunStore.expire_if_due writes at the deadline, however late it runs
ExpireOps == Put("run.failed", NoCall, FALSE, Deadline)
               \o Keep("expired", NoCall, Deadline)

\* The event loop is at an await: another handler can start.
Quiet == up /\ todo = << >>

\* Mutant: the exception is swallowed and the run left as it is.
RaiseSwallowed ==
    /\ task' = "none" /\ todo' = << >> /\ by' = "task"
    /\ phase' = "none" /\ reply' = "none"
    /\ UNCHANGED <<storeVars, worldVars, up, mem, seen>>
\* An exception leaves the task's coroutine: _execute and _resume hand it to
\* _fail_if_running, whose load can raise in turn.
Raise ==
    /\ IF Loadable /\ ~IsTerminal
         THEN task' = "dying" /\ todo' = FailOps
         ELSE task' = "none" /\ todo' = << >>
    /\ by' = "task"
    /\ phase' = "none" /\ reply' = "none"
    /\ UNCHANGED <<storeVars, worldVars, up, mem, seen>>

-----------------------------------------------------------------------------
(* StoreStep: the next durable write of the running handler.               *)

\* _fail_if_running was the last thing the task does.
AfterWrite ==
    /\ todo' = Tail(todo)
    /\ task' = IF task = "dying" /\ by = "task" /\ Len(todo) = 1
                 THEN "none" ELSE task

StoreEvent(op) ==
    /\ op.op = "event" /\ CanAppend
    /\ WriteEvent(op.name, op.call, op.ok)
    /\ AfterWrite
    /\ UNCHANGED <<worldVars, up, by, mem, phase, seen, reply>>

StoreCursor(op) ==
    /\ op.op = "cursor"
    /\ AdvanceCursor(op.at)
    /\ AfterWrite
    /\ UNCHANGED <<worldVars, up, by, mem, phase, seen, reply>>

StoreMove(op) ==
    /\ op.op = "move" /\ CanTransition(op.at)
    /\ Transition(op.name, op.call, op.steps, op.calls, op.at)
    /\ AfterWrite
    /\ UNCHANGED <<worldVars, up, by, mem, phase, seen, reply>>

\* AgentStoreError: in an API handler it becomes a 404 or 409, in a node it
\* leaves the task, in _fail_if_running it ends the task, in recover there
\* will be no gateway.
StoreRaises(op) ==
    /\ \/ op.op = "event" /\ ~CanAppend
       \/ op.op = "move" /\ ~CanTransition(op.at)
    /\ IF by = "task" /\ task # "dying"
         THEN Raise
         ELSE /\ todo' = << >>
              /\ task' = IF by = "task" THEN "none" ELSE task
              /\ up' = (by # "startup")
              /\ UNCHANGED <<storeVars, worldVars, by, mem, phase, seen, reply>>

StoreStep ==
    /\ up /\ todo # << >>
    /\ LET op == Head(todo) IN
         StoreEvent(op) \/ StoreCursor(op) \/ StoreMove(op) \/ StoreRaises(op)

-----------------------------------------------------------------------------
(* The task: AgentExecutionService._execute / _resume, AgentRuntime.run /  *)
(* resume_after_approval / _invoke.                                        *)

\* A fresh run enters the graph at its start, an active one at its last safe
\* node.  A resume value LangGraph stored with the checkpoint before a crash
\* may be found again by interrupt(), or may have been lost.
TaskStart ==
    /\ Quiet /\ task = "start"
    /\ IF Loadable /\ Readable /\ run.status \in {"created", "running"}
         THEN /\ task' = "graph"
              /\ mem' = IF run.status = "created" \/ ckpt = NoGraph
                          THEN Initial ELSE ckpt
              /\ reply' \in {"none"} \cup
                   (IF mem'.node = "approve" THEN {approvals[mem'.call]} ELSE {})
              /\ UNCHANGED <<storeVars, worldVars, up, todo, by, phase, seen>>
         ELSE Raise

\* Command(resume=decision).  Without any checkpoint LangGraph has nothing to
\* resume and raises.
TaskResume ==
    /\ Quiet /\ task = "resume"
    /\ IF /\ Loadable /\ Readable /\ run.status = "waiting_approval"
          /\ approvals[run.pending] # "none"
         THEN IF ckpt = NoGraph
                THEN Raise
                ELSE /\ task' = "graph" /\ mem' = ckpt
                     /\ reply' = approvals[run.pending]
                     /\ UNCHANGED <<storeVars, worldVars, up, todo, by, phase,
                                    seen>>
         ELSE Raise

\* Mutant: the checkpoint overtakes the events of its node.
SaveCheckpointEarly ==
    /\ up /\ task = "graph" /\ ckpt # mem
    /\ ckpt' = mem
    /\ UNCHANGED <<storeVars, taskVars, now, crashes, inflight, sandbox, up,
                   todo, by>>
\* AsyncSqliteSaver stores the state of the last node boundary at any time
\* before the next one.
SaveCheckpoint ==
    /\ Quiet /\ task = "graph" /\ ckpt # mem
    /\ ckpt' = mem
    /\ UNCHANGED <<storeVars, taskVars, now, crashes, inflight, sandbox, up,
                   todo, by>>

\* ainvoke has reached END or an interrupt; leaving the saver's context waits
\* for the outstanding checkpoint, and only then is the task done.
GraphEnds ==
    /\ Quiet /\ task = "graph" /\ phase = "none" /\ mem.node = "end"
    /\ task' = "flush"
    /\ UNCHANGED <<storeVars, worldVars, up, todo, by, mem, phase, seen, reply>>

TaskDone ==
    /\ Quiet /\ task = "flush"
    /\ ckpt' = mem
    /\ task' = "none"
    /\ UNCHANGED <<storeVars, now, crashes, inflight, sandbox, up, todo, by,
                   mem, phase, seen, reply>>

\* asyncio.timeout(run_timeout_seconds), or an exception at an await that
\* _execute and _resume list: a model error, an MCP error outside a session.
TaskAborts ==
    /\ Quiet /\ task \in {"graph", "flush"}
    /\ Raise

\* The node has an MCP session open: to discover the tools for the model, to
\* check the arguments of a call, or for the call.
InSession ==
    /\ task = "graph"
    /\ phase \in {"model", "tool"} \/ (phase = "none" /\ mem.node = "validate")
\* An exception they do not list: the task groups of the MCP client wrap what
\* is raised inside a session into an ExceptionGroup.  The task is over and
\* nobody records it.
TaskEscapes ==
    /\ Quiet /\ InSession
    /\ task' = "escaped" /\ phase' = "none" /\ reply' = "none"
    /\ UNCHANGED <<storeVars, worldVars, up, todo, by, mem, seen>>

-----------------------------------------------------------------------------
(* The graph's nodes.                                                      *)

AtNode(n) == Quiet /\ task = "graph" /\ phase = "none" /\ mem.node = n

\* The node writes ops and returns graph state g.
Node(ops, g) ==
    /\ todo' = ops /\ by' = "task"
    /\ mem' = g
    /\ phase' = "none" /\ reply' = "none"
    /\ UNCHANGED <<storeVars, worldVars, up, task, seen>>

\* _fail, and the route to END that follows it.
NodeFails == Node(FailOps, [mem EXCEPT !.node = "end"])

ReceiveRequest ==
    /\ AtNode("receive")
    /\ IF Loadable /\ run.status = "created"
         THEN Node(Keep("running", NoCall, now)
                     \o Put("run.started", NoCall, FALSE, now),
                   [mem EXCEPT !.node = "retrieve"])
         ELSE IF Loadable /\ run.status = "running"
                THEN Node(<< >>, [mem EXCEPT !.node = "retrieve"])
                ELSE Raise

\* Fails when the requested servers offer no search_evidence.
PrepareEvidenceRetrieval ==
    /\ AtNode("retrieve")
    /\ IF Loadable
         THEN NodeFails \/ Node(<< >>, [mem EXCEPT !.node = "model"])
         ELSE Raise

\* _model_decision up to the await of the model.
ModelDecision ==
    /\ AtNode("model")
    /\ CASE ~Loadable -> Raise
         [] Loadable /\ run.steps >= MaxSteps -> NodeFails
         [] OTHER -> /\ phase' = "model" /\ seen' = run.steps
                     /\ UNCHANGED <<storeVars, worldVars, up, todo, by, task,
                                    mem, reply>>

ModelMove == Move("running", NoCall, seen + 1, run.calls, now)

\* Mutant: repeated calls of one answer are all new.
NewWithRepeats(batch) == {i \in 1..Len(batch) : Sig[batch[i]] \notin mem.done}
\* Positions in the answer of the first call of each new signature.
New(batch) == {i \in 1..Len(batch) :
                 /\ Sig[batch[i]] \notin mem.done
                 /\ \A j \in 1..(i - 1) : Sig[batch[j]] # Sig[batch[i]]}
\* Those positions in order; there is exactly one such sequence.
InOrder(batch) == {f \in UNION {[1..n -> 1..Len(batch)] : n \in 0..Len(batch)} :
                     /\ {f[k] : k \in DOMAIN f} = New(batch)
                     /\ \A k, l \in DOMAIN f : k < l => f[k] < f[l]}
\* The signatures of the answer that already have a result.
Duplicates(batch) == {Sig[batch[i]] : i \in 1..Len(batch)} \cap mem.done

ModelMessage == Node(ModelMove, [mem EXCEPT !.node = "complete"])

\* New calls are queued; a call with a result is answered from it once, and
\* the second time is a loop.
ModelCalls(batch) ==
    IF Duplicates(batch) \cap mem.supp # {}
      THEN Node(ModelMove \o Put("run.failed", NoCall, FALSE, now)
                  \o Move("failed", NoCall, seen + 1, run.calls, now),
                [mem EXCEPT !.node = "end"])
      ELSE \E f \in InOrder(batch) :
             Node(ModelMove,
                  [mem EXCEPT !.queue = [k \in DOMAIN f |-> batch[f[k]]],
                              !.supp = @ \cup Duplicates(batch),
                              !.node = IF DOMAIN f = {} THEN "model"
                                                        ELSE "validate"])

ModelAnswers ==
    /\ Quiet /\ task = "graph" /\ phase = "model"
    /\ \/ ModelMessage
       \/ NodeFails                  \* AGENT_EXPLICIT_INTENT_REQUIRED
       \/ \E batch \in Batches : ModelCalls(batch)

ValidateToolSchema ==
    /\ AtNode("validate")
    /\ IF mem.queue = << >>
         THEN NodeFails              \* AGENT_TOOL_DECISION_EMPTY
         ELSE Node(<< >>, [mem EXCEPT !.call = Head(mem.queue),
                                      !.queue = Tail(mem.queue),
                                      !.node = "policy"])

\* Positions of the proposals in the log; those at the end of its first n
\* lines that have signature s, with no other proposal in between.
Proposals == {i \in 1..Len(log) : log[i].type = "tool.call.proposed"}
Trailing(s, n) ==
    {i \in Proposals : /\ i <= n
                       /\ \A j \in Proposals : i <= j /\ j <= n =>
                            Sig[log[j].call] = s}
\* Mutant: one proposal too many.
RepeatedLate(c) == Cardinality(Trailing(Sig[c], Len(log))) >= RepeatLimit + 1
\* The last RepeatLimit proposals in the event log all have c's signature.
Repeated(c) == Cardinality(Trailing(Sig[c], Len(log))) >= RepeatLimit

EnforceToolPolicy ==
    /\ AtNode("policy")
    /\ LET c == mem.call
           propose == Put("tool.call.proposed", c, FALSE, now)
       IN  CASE ~(Loadable /\ Readable) -> Raise
             [] Loadable /\ Readable /\ (run.calls >= MaxToolCalls \/ Repeated(c)) ->
                  NodeFails
             [] OTHER ->
                  IF c \in ApprovalCalls
                    THEN Node(propose
                                \o Put("approval.required", c, FALSE, now)
                                \o Keep("waiting_approval", c, now),
                              [mem EXCEPT !.gate = TRUE, !.node = "approve"])
                    ELSE Node(propose,
                              [mem EXCEPT !.gate = FALSE, !.node = "call"])

\* Mutant: any decision lets the call through.
WaitForAnyDecision ==
    /\ AtNode("approve")
    /\ IF reply = "none"
         THEN /\ task' = "flush"
              /\ UNCHANGED <<storeVars, worldVars, up, todo, by, mem, phase,
                             seen, reply>>
         ELSE Node(Keep("running", NoCall, now), [mem EXCEPT !.node = "call"])
\* interrupt() without a resume value ends the invocation.
WaitForApproval ==
    /\ AtNode("approve")
    /\ IF reply = "none"
         THEN /\ task' = "flush"
              /\ UNCHANGED <<storeVars, worldVars, up, todo, by, mem, phase,
                             seen, reply>>
         ELSE CASE ~Loadable \/ run.pending # mem.call
                     \/ approvals[mem.call] # reply -> Raise
                [] OTHER ->
                     IF reply = "rejected"
                       THEN NodeFails
                       ELSE Node(Keep("running", NoCall, now),
                                 [mem EXCEPT !.node = "call"])

\* Mutant: the call is not counted.
CallUncounted ==
    /\ AtNode("call")
    /\ todo' = Put("tool.started", mem.call, FALSE, now)
    /\ by' = "task" /\ phase' = "send" /\ reply' = "none"
    /\ UNCHANGED <<storeVars, worldVars, up, task, mem, seen>>
\* _execute up to the call of the MCP client; then the client sends.
CallMcpTool ==
    /\ AtNode("call")
    /\ todo' = Put("tool.started", mem.call, FALSE, now)
                 \o Move("running", NoCall, run.steps, run.calls + 1, now)
    /\ by' = "task" /\ phase' = "send" /\ reply' = "none"
    /\ UNCHANGED <<storeVars, worldVars, up, task, mem, seen>>

SendCall ==
    /\ Quiet /\ task = "graph" /\ phase = "send"
    /\ phase' = "tool"
    /\ inflight' = IF mem.gate
                     THEN inflight \cup {[call |-> mem.call, life |-> crashes,
                                         phase |-> "sent"]}
                     ELSE inflight
    /\ UNCHANGED <<storeVars, now, crashes, ckpt, sandbox, up, todo, by, task,
                   mem, seen, reply>>

\* The observation of a call: a result, which for a write its server has sent,
\* or an error (of the tool, of the transport, or a timeout, with the write
\* still in flight).
ToolReturns(ok) ==
    /\ Quiet /\ task = "graph" /\ phase = "tool"
    /\ LET c == mem.call
           q == [call |-> c, life |-> crashes, phase |-> "done"]
       IN
       /\ IF mem.gate /\ ok
            THEN q \in inflight /\ inflight' = inflight \ {q}
            ELSE UNCHANGED inflight
       /\ todo' = Put("tool.completed", c, ok, now) /\ by' = "task"
       /\ mem' = [mem EXCEPT !.node = "observe",
                    !.done = IF ok /\ ~mem.gate THEN @ \cup {Sig[c]} ELSE @]
    /\ phase' = "none"
    /\ UNCHANGED <<storeVars, now, crashes, ckpt, sandbox, up, task, seen, reply>>

ValidateObservation ==
    /\ AtNode("observe")
    /\ Node(<< >>, [mem EXCEPT !.gate = FALSE, !.call = NoCall,
                      !.node = IF mem.queue = << >> THEN "model"
                                                    ELSE "validate"])

CompleteMessage ==
    /\ AtNode("complete")
    /\ Node(Put("model.delta", NoCall, FALSE, now)
              \o Put("message.completed", NoCall, FALSE, now)
              \o Put("run.completed", NoCall, FALSE, now)
              \o Keep("succeeded", NoCall, now),
            [mem EXCEPT !.node = "end"])

NodeStep ==
    \/ ReceiveRequest \/ PrepareEvidenceRetrieval \/ ModelDecision
    \/ ModelAnswers \/ ValidateToolSchema \/ EnforceToolPolicy
    \/ WaitForApproval \/ CallMcpTool \/ SendCall
    \/ \E ok \in BOOLEAN : ToolReturns(ok)
    \/ ValidateObservation \/ CompleteMessage

-----------------------------------------------------------------------------
(* The API, and the world.                                                 *)

\* Any GET, and every poll of an event stream, expires a due run.
Refresh ==
    /\ Quiet /\ ExpiryDue(now)
    /\ todo' = ExpireOps /\ by' = "api"
    /\ UNCHANGED <<storeVars, taskVars, worldVars, up>>

\* decide_approval: a new decision is persisted, then service.resume starts a
\* task or, when the old one is not done yet, raises "already executing".  A
\* repeated decision only refreshes the run.
PostApproval(c, decision) ==
    /\ Quiet /\ ~ExpiryDue(now) /\ CanDecide(c)
    /\ DecideApproval(c, decision)
    /\ task' = IF NoTask THEN "resume" ELSE task
    /\ UNCHANGED <<worldVars, up, todo, by, mem, phase, seen, reply>>

\* service.cancel cancels the task before the store is asked.
Cancel ==
    /\ Quiet
    /\ task' = "none" /\ phase' = "none" /\ reply' = "none"
    /\ IF CanTransition(now)
         THEN Transition("cancelled", NoCall, run.steps, run.calls, now)
         ELSE UNCHANGED storeVars
    /\ UNCHANGED <<worldVars, up, todo, by, mem, seen>>

\* The MCP servers work on what they have been sent whether or not the client
\* still waits: apply_sandbox_config_patch reads the approval and looks whether
\* the target exists, and later replaces it.  A server that refuses, or dies,
\* takes no step: nothing obliges it to.
ServerOnly ==
    UNCHANGED <<storeVars, taskVars, now, crashes, ckpt, up, todo, by>>
Becomes(q, new) == inflight' = (inflight \ {q}) \cup {[q EXCEPT !.phase = new]}

\* The approval is there and the target is not.
ServerClears(q) ==
    /\ q.phase = "sent" /\ approvals[q.call] = "approved"
    /\ sandbox[File[q.call]] = NoPatch
    /\ Becomes(q, "cleared")
    /\ UNCHANGED sandbox /\ ServerOnly
\* The target already holds this patch.
ServerFindsPatch(q) ==
    /\ q.phase = "sent" /\ approvals[q.call] = "approved"
    /\ sandbox[File[q.call]] = Sig[q.call]
    /\ Becomes(q, "done")
    /\ UNCHANGED sandbox /\ ServerOnly
\* _atomic_new: os.replace puts the patch over whatever is there by now.
ServerWrites(q) ==
    /\ q.phase = "cleared"
    /\ sandbox' = [sandbox EXCEPT ![File[q.call]] = Sig[q.call]]
    /\ Becomes(q, "done") /\ ServerOnly
\* A handler takes no time of this clock.
Tick ==
    /\ now < MaxTime /\ todo = << >>
    /\ now' = now + 1
    /\ UNCHANGED <<storeVars, taskVars, crashes, ckpt, inflight, sandbox, up,
                   todo, by>>

\* The process dies (or shuts down): memory is gone, the files stay, with the
\* event line that was being written whole, torn or not there.
Crash ==
    /\ up /\ crashes < MaxCrashes
    /\ up' = FALSE /\ crashes' = crashes + 1
    /\ task' = "none" /\ mem' = NoGraph /\ phase' = "none" /\ seen' = 0
    /\ reply' = "none" /\ todo' = << >> /\ by' = "api"
    /\ \/ UNCHANGED storeVars
       \/ /\ todo # << >> /\ Head(todo).op = "event" /\ CanAppend
          /\ TearEvent(Head(todo).name, Head(todo).call, Head(todo).ok)
    /\ UNCHANGED <<now, ckpt, inflight, sandbox>>

\* AgentExecutionService.recover at startup: list_records raises on a corrupt
\* record; a due run expires, an active one is started, a waiting one idles.
Recover ==
    /\ ~up /\ Loadable
    /\ up' = TRUE /\ by' = "startup"
    /\ todo' = IF ExpiryDue(now) THEN ExpireOps ELSE << >>
    /\ task' = IF ~ExpiryDue(now) /\ run.status \in {"created", "running"}
                 THEN "start" ELSE "none"
    /\ UNCHANGED <<storeVars, worldVars, mem, phase, seen, reply>>

-----------------------------------------------------------------------------
Init ==
    /\ StoreInit
    /\ now = 0 /\ crashes = 0 /\ up = TRUE
    /\ task = "start" /\ mem = NoGraph /\ phase = "none" /\ seen = 0
    /\ reply = "none" /\ todo = << >> /\ by = "api"
    /\ ckpt = NoGraph
    /\ inflight = {} /\ sandbox = [f \in Files |-> NoPatch]

TaskStep == TaskStart \/ TaskResume \/ NodeStep \/ GraphEnds \/ TaskDone
Client == Refresh \/ Cancel \/ \E c \in Calls, d \in Decisions : PostApproval(c, d)
Server ==
    \E q \in inflight : ServerClears(q) \/ ServerFindsPatch(q) \/ ServerWrites(q)

Next == \/ StoreStep \/ TaskStep \/ SaveCheckpoint \/ TaskAborts \/ TaskEscapes
        \/ Client \/ Server \/ Tick \/ Crash \/ Recover

Spec == Init /\ [][Next]_vars

\* The event loop runs what is ready; every await of the task ends, by an
\* answer or by its timeout.
TaskFairness == WF_vars(StoreStep) /\ WF_vars(TaskStep)
\* Time passes, a client polls the run, the supervisor restarts the process.
WorldFairness == WF_vars(Tick) /\ WF_vars(Refresh) /\ WF_vars(Recover)
TaskSpec == Spec /\ TaskFairness
FairSpec == TaskSpec /\ WorldFairness
-----------------------------------------------------------------------------
(* Properties.                                                             *)

\* Every variable has its type.
TypeOK ==
    /\ run \in RunRecords
    /\ log \in Seq(Events) /\ tail \in {"clean", "open", "corrupt"}
    /\ approvals \in [Calls -> Decisions \cup {"none"}]
    /\ now \in Nat /\ crashes \in Nat /\ up \in BOOLEAN
    /\ task \in TaskStates /\ phase \in Phases /\ seen \in Nat
    /\ mem \in Graphs /\ ckpt \in Graphs
    /\ reply \in Decisions \cup {"none"}
    /\ todo \in Seq(Ops) /\ by \in {"task", "api", "startup"}
    /\ inflight \subseteq Requests /\ sandbox \in [Files -> Calls \cup {NoPatch}]

\* last_event_sequence never runs ahead of events.jsonl, or append_event
\* would refuse every later event of the run; it lags by the one event being
\* written, and by one more for every crash between the two writes.
CursorFollowsLog ==
    /\ run.cursor <= Len(log)
    /\ Len(log) <= run.cursor + crashes + (IF todo = << >> THEN 0 ELSE 1)

\* The contract's "same tool and arguments at most twice in a row", counted
\* in the durable log, also when crashes make a node run again.
NoToolLoop ==
    \A i \in Proposals :
        Cardinality(Trailing(Sig[log[i].call], i)) <= RepeatLimit

\* A safe-node checkpoint never remembers a result the event log lacks:
\* the tool.completed event is durable before the node's state is.
CheckpointBehindLog == ckpt.done \subseteq Observed

\* Requests whose server has found the file missing and has not written yet.
Cleared == {<<q.call, q.life>> : q \in {p \in inflight : p.phase = "cleared"}}

\* What a client sees of a run follows the lifecycle.
Lifecycle == INSTANCE AgentLifecycle WITH
    status <- run.status, pending <- run.pending, decided <- approvals,
    Numbers <- 0..MaxCrashes, cleared <- Cleared
FollowsLifecycle == Lifecycle!Spec

Started == Cardinality({i \in 1..Len(log) : log[i].type = "tool.started"})

\* Without crashes: the counter of the record is the number of tool.started
\* events, give or take the one being recorded, and stays within the limit.
ToolCallsCounted ==
    /\ run.calls <= Started /\ (todo = << >> => run.calls = Started)
    /\ Started <= MaxToolCalls

\* Without crashes, and up to the deadline: a run that is created or running
\* has a task at work on it, or one that an exception ended which _execute and
\* _resume do not list.  No other way leads to a run nobody executes.
ActiveRunHasTask ==
    up /\ todo = << >> /\ run.status \in {"created", "running"} => task # "none"

\* Without crashes: run.started comes first and an outcome event comes last.
OutcomeIsLast ==
    \A i \in 1..Len(log) :
        /\ log[i].type = "run.started" <=> i = 1 /\ log[1].type # "run.failed"
        /\ log[i].type = "run.completed" => i = Len(log)
        /\ log[i].type = "run.failed" => i = Len(log)

\* Without crashes: a read that gave a result is not executed again, whether
\* the model repeats it under another call_id, in one answer or in a later one.
SuccessfulReadOnce ==
    \A i, j \in 1..Len(log) :
        /\ i < j
        /\ log[i].type = "tool.completed" /\ log[i].ok
        /\ log[j].type = "tool.started"
        /\ log[i].call \notin ApprovalCalls /\ log[j].call \notin ApprovalCalls
        => Sig[log[i].call] # Sig[log[j].call]

\* A record or an event log that the store refuses from now on.
Broken == ~Loadable \/ ~Readable

\* Every run that is polled, in a process that is started again, ends: by an
\* answer, a failure, a rejection or its expiry.  An event after the deadline or
\* a torn line can put it out of reach before.
EventuallyTerminal == <>(IsTerminal \/ Broken)

\* Without crashes the task itself brings the run to an end or to a question
\* for a human, also when the clock stops before the expiry could help, unless
\* an exception ends the task that nobody catches.
ActiveRunSettles ==
    run.status \in {"created", "running"} ~>
        IsTerminal \/ run.status = "waiting_approval" \/ task = "escaped"

\* store.py: "The record contract keeps updated_at at or before expires_at."
RecordWithinDeadline == run.updated <= Deadline

\* docs/m8_agent_contract.md: a waiting run resumes when it receives the
\* persisted approval of its call.  So a decided call has a task at work on it.
DecidedCallResumes ==
    up /\ todo = << >> /\ run.status = "waiting_approval" /\ now < Deadline
       => approvals[run.pending] = "none" \/ ~NoTask
=============================================================================
