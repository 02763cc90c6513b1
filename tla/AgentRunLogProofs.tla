-------------------------- MODULE AgentRunLogProofs --------------------------
(***************************************************************************)
(* The event log against what is written after it: the cursor of run.json  *)
(* and the results a checkpoint remembers; and the repetitions of a call.  *)
(* For every set of calls, every model and every number of crashes.  Then  *)
(* what holds until a crash or the deadline: counters, tasks, outcomes and *)
(* reads that run once.                                                    *)
(***************************************************************************)
EXTENDS AgentRunProofs, FiniteSetTheorems

(***************************************************************************)
(* The inductive invariant.                                                *)
(***************************************************************************)
\* Each event a handler queues is followed by its cursor.
Paired(s) == \A i \in 1..Len(s) :
               s[i].op = "event" => i < Len(s) /\ s[i + 1].op = "cursor"

Proposes(op) == op.op = "event" /\ op.name = "tool.call.proposed"
\* A proposal is queued first, and only of a call that is no repetition.
Asks(s) == \A i \in 1..Len(s) : Proposes(s[i]) => i = 1 /\ ~Repeated(s[1].call)

\* What every handler but enforce_tool_policy queues.
Scripts == {s \in Seq(Ops) : Paired(s) /\ \A i \in 1..Len(s) : ~Proposes(s[i])}

\* The one event whose cursor is the next write.
Lag == IF todo # << >> /\ todo[1].op = "cursor" THEN 1 ELSE 0

CursorInv ==
    /\ run.cursor <= Len(log)
    /\ Len(log) <= run.cursor + crashes + Lag
    /\ Paired(todo)
    /\ ~up => todo = << >>

\* The results of read calls whose event is still to be written.
Pending(s) == {Sig[c] : c \in {d \in Calls \ ApprovalCalls :
                 \E i \in 1..Len(s) : /\ s[i].op = "event"
                                      /\ s[i].name = "tool.completed"
                                      /\ s[i].call = d /\ s[i].ok}}

\* A graph state calls a tool that needs an approval only through the gate.
GateOK(g) == g.node = "call" /\ g.call \in ApprovalCalls => g.gate

\* The graph of a live task is ahead of the log by what its own handler is
\* about to write, and a checkpoint is never ahead.
ResultInv ==
    /\ GateOK(mem) /\ GateOK(ckpt)
    /\ ckpt.done \subseteq Observed
    /\ task \in {"graph", "flush"} =>
         mem.done \subseteq
           Observed \cup (IF by = "task" THEN Pending(todo) ELSE {})

LInv == IInv /\ CursorInv /\ ResultInv

LoopInv == NoToolLoop /\ Asks(todo)

-----------------------------------------------------------------------------
(* The initial state, and the scripts.                                     *)

LEMMA LogInit == Init => CursorInv /\ ResultInv
<1> SUFFICES ASSUME Init PROVE CursorInv /\ ResultInv
  OBVIOUS
<1>1. CursorInv
  BY DEF Init, StoreInit, CursorInv, Lag, Paired
<1>2. ResultInv
  BY DEF Init, ResultInv, GateOK, NoGraph
<1> QED BY <1>1, <1>2

LEMMA EmptyScript == << >> \in Scripts
  BY DEF Scripts, Paired

LEMMA PutScript ==
  ASSUME NEW e \in EventTypes \ {"tool.call.proposed"}, NEW c \in Calls \cup {NoCall},
         NEW ok \in BOOLEAN, NEW t \in Nat
  PROVE  Put(e, c, ok, t) \in Scripts
<1>1. Put(e, c, ok, t) \in Seq(Ops)
  BY DEF Put, Op, Ops, StoreOps
<1>2. /\ Len(Put(e, c, ok, t)) = 2
      /\ Put(e, c, ok, t)[1].op = "event" /\ Put(e, c, ok, t)[2].op = "cursor"
      /\ Put(e, c, ok, t)[1].name = e
  BY DEF Put, Op
<1> HIDE DEF Put
<1>3. /\ Paired(Put(e, c, ok, t))
      /\ \A i \in 1..Len(Put(e, c, ok, t)) : ~Proposes(Put(e, c, ok, t)[i])
  BY <1>2 DEF Paired, Proposes
<1> QED BY <1>1, <1>3 DEF Scripts

LEMMA MoveScript ==
  ASSUME NEW s \in Statuses, NEW c \in Calls \cup {NoCall},
         NEW steps \in Nat, NEW calls \in Nat, NEW t \in Nat
  PROVE  Move(s, c, steps, calls, t) \in Scripts
<1>1. Move(s, c, steps, calls, t) \in Seq(Ops)
  BY DEF Move, Op, Ops, StoreOps
<1>2. /\ Len(Move(s, c, steps, calls, t)) = 1
      /\ Move(s, c, steps, calls, t)[1].op = "move"
  BY DEF Move, Op
<1> HIDE DEF Move
<1>3. /\ Paired(Move(s, c, steps, calls, t))
      /\ \A i \in 1..Len(Move(s, c, steps, calls, t)) :
            ~Proposes(Move(s, c, steps, calls, t)[i])
  BY <1>2 DEF Paired, Proposes
<1> QED BY <1>1, <1>3 DEF Scripts

LEMMA JoinedScripts ==
  ASSUME NEW a \in Scripts, NEW b \in Scripts
  PROVE  a \o b \in Scripts
<1>1. /\ a \in Seq(Ops) /\ b \in Seq(Ops) /\ Paired(a) /\ Paired(b)
      /\ a \o b \in Seq(Ops)
  BY DEF Scripts
<1>2. /\ Len(a \o b) = Len(a) + Len(b) /\ Len(a) \in Nat /\ Len(b) \in Nat
      /\ \A i \in 1..Len(a) : (a \o b)[i] = a[i]
      /\ \A i \in 1..Len(b) : (a \o b)[Len(a) + i] = b[i]
  BY <1>1
<1> DEFINE s == a \o b
<1>3. ASSUME NEW i \in 1..Len(s), s[i].op = "event"
      PROVE  i < Len(s) /\ s[i + 1].op = "cursor"
  <2>1. CASE i <= Len(a)
    <3>1. i \in 1..Len(a) /\ a[i].op = "event"
      BY <1>2, <1>3, <2>1
    <3>2. i < Len(a) /\ a[i + 1].op = "cursor"
      BY <3>1, <1>1 DEF Paired
    <3>3. i + 1 \in 1..Len(a)
      BY <3>1, <3>2, <1>2
    <3> QED BY <3>2, <3>3, <1>2
  <2>2. CASE i > Len(a)
    <3> DEFINE j == i - Len(a)
    <3>1. j \in 1..Len(b) /\ Len(a) + j = i
      BY <1>2, <1>3, <2>2
    <3>2. b[j].op = "event"
      BY <3>1, <1>2, <1>3
    <3>3. j < Len(b) /\ b[j + 1].op = "cursor"
      BY <3>1, <3>2, <1>1 DEF Paired
    <3>4. j + 1 \in 1..Len(b) /\ Len(a) + (j + 1) = i + 1
      BY <3>1, <3>3, <1>2
    <3>5. s[i + 1] = b[j + 1]
      BY <3>4, <1>2
    <3> QED BY <3>3, <3>4, <3>5, <1>2
  <2> QED BY <2>1, <2>2, <1>2
<1>4. Paired(s)
  BY <1>3 DEF Paired
<1>5. ASSUME NEW i \in 1..Len(s) PROVE ~Proposes(s[i])
  <2>1. CASE i <= Len(a)
    <3>1. i \in 1..Len(a) /\ s[i] = a[i]
      BY <1>2, <2>1
    <3> QED BY <3>1 DEF Scripts
  <2>2. CASE i > Len(a)
    <3>1. i - Len(a) \in 1..Len(b) /\ Len(a) + (i - Len(a)) = i
      BY <1>2, <2>2
    <3>2. s[i] = b[i - Len(a)]
      BY <3>1, <1>2
    <3> QED BY <3>1, <3>2 DEF Scripts
  <2> QED BY <2>1, <2>2, <1>2
<1> QED BY <1>1, <1>4, <1>5 DEF Scripts

\* Such a script asks nothing.
LEMMA ScriptAsks ==
  ASSUME NEW s \in Scripts PROVE s \in Seq(Ops) /\ Paired(s) /\ Asks(s)
  BY DEF Scripts, Asks

LEMMA FailScripts ==
  ASSUME IInv PROVE FailOps \in Scripts /\ ExpireOps \in Scripts
<1>1. /\ now \in Nat /\ Deadline \in Nat /\ run.steps \in Nat
      /\ run.calls \in Nat /\ "run.failed" \in EventTypes \ {"tool.call.proposed"}
      /\ "failed" \in Statuses /\ "expired" \in Statuses
  BY DeadlineAssumption
  DEF IInv, TypeOK, RunRecords, EventTypes, Statuses, Terminal
<1> QED BY <1>1, PutScript, MoveScript, JoinedScripts DEF FailOps, ExpireOps, Keep

-----------------------------------------------------------------------------
(* What every handler that starts at an await does.                        *)

Starts ==
    /\ todo = << >> /\ todo' \in Seq(Ops) /\ Paired(todo') /\ Asks(todo') /\ up'
    /\ log' = log /\ run'.cursor = run.cursor /\ crashes' = crashes
    /\ GateOK(mem') /\ GateOK(ckpt') /\ ckpt'.done \subseteq Observed
    /\ task' \in {"graph", "flush"} =>
         mem'.done \subseteq
           Observed \cup (IF by' = "task" THEN Pending(todo') ELSE {})

\* Nothing is queued at an await, so the graph is not ahead of the log.
LEMMA AtAwait ==
  ASSUME LInv, todo = << >>
  PROVE  /\ run.cursor \in Nat /\ Len(log) \in Nat /\ crashes \in Nat
         /\ Len(log) <= run.cursor + crashes
         /\ task \in {"graph", "flush"} => mem.done \subseteq Observed
<1>1. run.cursor \in Nat /\ Len(log) \in Nat /\ crashes \in Nat
  BY DEF LInv, IInv, TypeOK, RunRecords
<1>2. Len(log) <= run.cursor + crashes
  BY <1>1 DEF LInv, CursorInv, Lag
<1>3. Pending(todo) = {}
  BY DEF Pending
<1> QED BY <1>1, <1>2, <1>3 DEF LInv, ResultInv

LEMMA StartsInv == ASSUME LInv, Starts PROVE CursorInv' /\ ResultInv'
<1>1. CursorInv'
  <2>1. Lag' \in {0, 1}
    BY DEF Lag
  <2>2. Len(log') = Len(log) /\ run'.cursor = run.cursor /\ crashes' = crashes
    BY DEF Starts
  <2>3. run'.cursor <= Len(log') /\ Len(log') <= run'.cursor + crashes' + Lag'
    BY <2>1, <2>2, AtAwait DEF Starts, LInv, CursorInv
  <2> QED BY <2>3 DEF CursorInv, Starts
<1>2. ResultInv'
  BY DEF ResultInv, Starts, Observed
<1> QED BY <1>1, <1>2

LEMMA NodeStarts ==
  ASSUME LInv, Quiet, task = "graph", NEW ops \in Seq(Ops), Paired(ops), Asks(ops),
         NEW g, Node(ops, g), g.done = mem.done, GateOK(g)
  PROVE  Starts
<1>1. /\ todo = << >> /\ todo' = ops /\ up' = up /\ up /\ mem' = g
      /\ UNCHANGED <<run, log, crashes, ckpt>>
  BY DEF Quiet, Node, storeVars, logVars, worldVars
<1>2. mem.done \subseteq Observed
  BY <1>1, AtAwait
<1> QED BY <1>1, <1>2 DEF Starts, LInv, ResultInv

\* Moving to a node other than the tool call keeps the rest of the state.
LEMMA MovesTo ==
  ASSUME LInv, NEW n \in Nodes \ {"call"}
  PROVE  /\ [mem EXCEPT !.node = n].done = mem.done
         /\ GateOK([mem EXCEPT !.node = n])
<1>1. [mem EXCEPT !.node = n].node = n /\ [mem EXCEPT !.node = n].done = mem.done
  BY DEF LInv, IInv, TypeOK, Graphs
<1> QED BY <1>1 DEF GateOK

LEMMA NodeFailsStarts ==
  ASSUME LInv, Quiet, task = "graph", NodeFails PROVE Starts
<1>1. FailOps \in Scripts
  BY FailScripts DEF LInv
<1> QED BY ScriptAsks, <1>1, MovesTo, NodeStarts DEF NodeFails, Nodes

LEMMA RaiseStarts == ASSUME LInv, Quiet, Raise PROVE Starts
<1>1. /\ todo = << >> /\ up' = up /\ up /\ task' \in {"dying", "none"}
      /\ UNCHANGED <<run, log, crashes, ckpt, mem>>
  BY DEF Quiet, Raise, storeVars, logVars, worldVars
<1>2. todo' \in Scripts
  BY FailScripts, EmptyScript DEF Raise, LInv
<1> QED BY ScriptAsks, <1>1, <1>2 DEF Starts, LInv, CursorInv, ResultInv

\* A move of a graph state that stays in memory.
LEMMA SameGraphStarts ==
  ASSUME LInv, Quiet, todo' \in Scripts, run'.cursor = run.cursor,
         UNCHANGED <<log, crashes, up, mem, ckpt>>,
         task' \in {"graph", "flush"} => task \in {"graph", "flush"}
  PROVE  Starts
<1>1. task' \in {"graph", "flush"} => mem.done \subseteq Observed
  BY AtAwait DEF Quiet
<1> QED BY ScriptAsks, <1>1 DEF Quiet, Starts, LInv, ResultInv

-----------------------------------------------------------------------------
(* The task.                                                               *)

LEMMA TaskStartStarts == ASSUME LInv, TaskStart PROVE Starts
<1>1. CASE Raise
  BY <1>1, RaiseStarts DEF TaskStart
<1>2. CASE ~Raise
  <2>1. /\ todo = << >> /\ todo' = << >> /\ up' /\ by' = by
        /\ UNCHANGED <<run, log, crashes, ckpt>>
        /\ mem' = Initial \/ mem' = ckpt
    BY <1>2 DEF TaskStart, Quiet, storeVars, logVars, worldVars
  <2>2. GateOK(mem') /\ mem'.done \subseteq Observed
    BY <2>1 DEF LInv, ResultInv, GateOK, Initial
  <2> QED BY ScriptAsks, <2>1, <2>2, EmptyScript DEF Starts, LInv, ResultInv
<1> QED BY <1>1, <1>2

LEMMA TaskResumeStarts == ASSUME LInv, TaskResume PROVE Starts
<1>1. CASE Raise
  BY <1>1, RaiseStarts DEF TaskResume
<1>2. CASE ~Raise
  <2>1. /\ todo = << >> /\ todo' = << >> /\ up' /\ by' = by
        /\ UNCHANGED <<run, log, crashes, ckpt>>
        /\ mem' = ckpt \/ (mem' = mem /\ task' = "none")
    BY <1>2 DEF TaskResume, Quiet, storeVars, logVars, worldVars
  <2> QED BY ScriptAsks, <2>1, EmptyScript DEF Starts, LInv, ResultInv
<1> QED BY <1>1, <1>2

LEMMA SaverStarts ==
  ASSUME LInv, SaveCheckpoint \/ GraphEnds \/ TaskDone PROVE Starts
<1>1. /\ todo = << >> /\ todo' = << >> /\ up' /\ by' = by
      /\ task \in {"graph", "flush"} /\ ckpt' \in {ckpt, mem}
      /\ UNCHANGED <<run, log, crashes, mem>>
  BY DEF SaveCheckpoint, GraphEnds, TaskDone, Quiet, storeVars, logVars, taskVars,
         worldVars
<1>2. mem.done \subseteq Observed
  BY <1>1, AtAwait
<1> QED BY ScriptAsks, <1>1, <1>2, EmptyScript DEF Starts, LInv, ResultInv

LEMMA ReceiveRequestStarts == ASSUME LInv, ReceiveRequest PROVE Starts
<1>1. /\ Quiet /\ task = "graph"
      /\ run.steps \in Nat /\ run.calls \in Nat /\ now \in Nat
  BY DEF ReceiveRequest, AtNode, LInv, IInv, TypeOK, RunRecords
<1> DEFINE g == [mem EXCEPT !.node = "retrieve"]
           ops == Keep("running", NoCall, now)
                    \o Put("run.started", NoCall, FALSE, now)
<1>2. g.done = mem.done /\ GateOK(g)
  BY MovesTo DEF Nodes
<1>3. ops \in Scripts
  <2>1. "running" \in Statuses /\ "run.started" \in EventTypes \ {"tool.call.proposed"}
    BY DEF Statuses, EventTypes
  <2> QED BY <1>1, <2>1, PutScript, MoveScript, JoinedScripts DEF Keep
<1>4. Node(ops, g) \/ Node(<< >>, g) \/ Raise
  BY DEF ReceiveRequest
<1> QED BY ScriptAsks, <1>1, <1>2, <1>3, <1>4, EmptyScript, NodeStarts, RaiseStarts

LEMMA PrepareEvidenceRetrievalStarts ==
  ASSUME LInv, PrepareEvidenceRetrieval PROVE Starts
<1>1. Quiet /\ task = "graph"
  BY DEF PrepareEvidenceRetrieval, AtNode
<1>2. NodeFails \/ Node(<< >>, [mem EXCEPT !.node = "model"]) \/ Raise
  BY DEF PrepareEvidenceRetrieval
<1> QED BY ScriptAsks, <1>1, <1>2, MovesTo, EmptyScript, NodeStarts, NodeFailsStarts,
           RaiseStarts DEF Nodes

LEMMA ModelDecisionStarts == ASSUME LInv, ModelDecision PROVE Starts
<1>1. Quiet /\ task = "graph"
  BY DEF ModelDecision, AtNode
<1>2. \/ Raise \/ NodeFails
      \/ UNCHANGED <<storeVars, worldVars, up, todo, by, task, mem, reply>>
  BY DEF ModelDecision
<1>3. CASE UNCHANGED <<storeVars, worldVars, up, todo, by, task, mem, reply>>
  BY <1>1, <1>3, EmptyScript, SameGraphStarts DEF Quiet, storeVars, logVars, worldVars
<1> QED BY <1>1, <1>2, <1>3, RaiseStarts, NodeFailsStarts

LEMMA ModelAnswersStarts == ASSUME LInv, ModelAnswers PROVE Starts
<1>1. /\ Quiet /\ task = "graph"
      /\ seen + 1 \in Nat /\ run.calls \in Nat /\ now \in Nat
      /\ "running" \in Statuses /\ "failed" \in Statuses
      /\ "run.failed" \in EventTypes \ {"tool.call.proposed"}
  BY DEF ModelAnswers, LInv, IInv, TypeOK, RunRecords, Statuses, Terminal,
         EventTypes
<1>2. ModelMove \in Scripts
  BY <1>1, MoveScript DEF ModelMove
<1>3. CASE ModelMessage
  BY ScriptAsks, <1>1, <1>2, <1>3, MovesTo, NodeStarts DEF ModelMessage, Nodes
<1>4. ASSUME NEW batch \in Batches, ModelCalls(batch) PROVE Starts
  <2>1. CASE Duplicates(batch) \cap mem.supp # {}
    <3> DEFINE ops == ModelMove \o Put("run.failed", NoCall, FALSE, now)
                        \o Move("failed", NoCall, seen + 1, run.calls, now)
               g == [mem EXCEPT !.node = "end"]
    <3>1. Node(ops, g)
      BY <1>4, <2>1 DEF ModelCalls
    <3>2. ops \in Scripts
      BY <1>1, <1>2, PutScript, MoveScript, JoinedScripts
    <3> QED BY ScriptAsks, <1>1, <3>1, <3>2, MovesTo, NodeStarts DEF Nodes
  <2>2. CASE Duplicates(batch) \cap mem.supp = {}
    <3>1. PICK f \in InOrder(batch) :
            Node(ModelMove,
                 [mem EXCEPT !.queue = [k \in DOMAIN f |-> batch[f[k]]],
                             !.supp = @ \cup Duplicates(batch),
                             !.node = IF DOMAIN f = {} THEN "model"
                                                       ELSE "validate"])
      BY <1>4, <2>2 DEF ModelCalls
    <3> DEFINE g == [mem EXCEPT !.queue = [k \in DOMAIN f |-> batch[f[k]]],
                                !.supp = @ \cup Duplicates(batch),
                                !.node = IF DOMAIN f = {} THEN "model"
                                                          ELSE "validate"]
    <3>2. g.done = mem.done /\ g.node \in {"model", "validate"}
      BY DEF LInv, IInv, TypeOK, Graphs
    <3>3. GateOK(g)
      BY <3>2 DEF GateOK
    <3> QED BY ScriptAsks, <1>1, <1>2, <3>1, <3>2, <3>3, NodeStarts
  <2> QED BY <2>1, <2>2
<1> QED BY <1>1, <1>3, <1>4, NodeFailsStarts DEF ModelAnswers

LEMMA ValidateToolSchemaStarts == ASSUME LInv, ValidateToolSchema PROVE Starts
<1>1. Quiet /\ task = "graph"
  BY DEF ValidateToolSchema, AtNode
<1>2. CASE NodeFails
  BY <1>1, <1>2, NodeFailsStarts
<1>3. CASE ~NodeFails
  <2> DEFINE g == [mem EXCEPT !.call = Head(mem.queue),
                              !.queue = Tail(mem.queue), !.node = "policy"]
  <2>1. Node(<< >>, g)
    BY <1>3 DEF ValidateToolSchema
  <2>2. g.done = mem.done /\ g.node = "policy"
    BY DEF LInv, IInv, TypeOK, Graphs
  <2>3. GateOK(g)
    BY <2>2 DEF GateOK
  <2> QED BY ScriptAsks, <1>1, <2>1, <2>2, <2>3, EmptyScript, NodeStarts
<1> QED BY <1>2, <1>3

\* A call that needs an approval goes to the gate, another one passes it by.
LEMMA EnforceToolPolicyStarts == ASSUME LInv, EnforceToolPolicy PROVE Starts
<1> DEFINE c == mem.call
           propose == Put("tool.call.proposed", c, FALSE, now)
           ask == propose \o Put("approval.required", c, FALSE, now)
                    \o Keep("waiting_approval", c, now)
           asked == [mem EXCEPT !.gate = TRUE, !.node = "approve"]
           passed == [mem EXCEPT !.gate = FALSE, !.node = "call"]
<1>1. /\ Quiet /\ task = "graph" /\ mem.node = "policy" /\ mem.call \in Calls
      /\ run.steps \in Nat /\ run.calls \in Nat /\ now \in Nat
      /\ "tool.call.proposed" \in EventTypes /\ "approval.required" \in EventTypes
      /\ "waiting_approval" \in Statuses
  BY DEF EnforceToolPolicy, AtNode, LInv, IInv, TypeOK, GraphOK, RunRecords,
         EventTypes, Statuses
<1>2. /\ propose \in Seq(Ops) /\ Paired(propose)
      /\ ~Repeated(c) => Asks(propose)
  <2>1. propose \in Seq(Ops)
    BY <1>1 DEF Put, Op, Ops, StoreOps
  <2>2. /\ Len(propose) = 2 /\ propose[1].op = "event"
        /\ propose[1].call = c /\ propose[2].op = "cursor"
    BY DEF Put, Op
  <2> HIDE DEF propose
  <2> QED BY <2>1, <2>2 DEF Paired, Asks, Proposes
<1>6. /\ ask \in Seq(Ops) /\ Paired(ask)
      /\ ~Repeated(c) => Asks(ask)
  <2>1. ask \in Seq(Ops)
    BY <1>1 DEF Put, Keep, Move, Op, Ops, StoreOps
  <2>2. /\ Len(ask) = 5 /\ ask[1].op = "event" /\ ask[1].call = c
        /\ ask[2].op = "cursor" /\ ask[3].op = "event"
        /\ ask[3].name = "approval.required" /\ ask[4].op = "cursor"
        /\ ask[5].op = "move"
    BY DEF Put, Keep, Move, Op
  <2> HIDE DEF ask
  <2> QED BY <2>1, <2>2 DEF Paired, Asks, Proposes
<1>3. /\ asked.done = mem.done /\ asked.node = "approve"
      /\ passed.done = mem.done /\ passed.call = mem.call
  BY DEF LInv, IInv, TypeOK, Graphs
<1>4. \/ Raise \/ NodeFails
      \/ ~Repeated(c) /\ c \in ApprovalCalls /\ Node(ask, asked)
      \/ ~Repeated(c) /\ c \notin ApprovalCalls /\ Node(propose, passed)
  BY DEF EnforceToolPolicy
<1> HIDE DEF ask, propose, asked, passed
<1>5. GateOK(asked) /\ (c \notin ApprovalCalls => GateOK(passed))
  BY <1>3 DEF GateOK
<1> QED BY <1>1, <1>2, <1>3, <1>4, <1>5, <1>6, RaiseStarts, NodeFailsStarts,
           NodeStarts

LEMMA WaitForApprovalStarts == ASSUME LInv, WaitForApproval PROVE Starts
<1> DEFINE g == [mem EXCEPT !.node = "call"]
<1>1. /\ Quiet /\ task = "graph" /\ mem.gate
      /\ run.steps \in Nat /\ run.calls \in Nat /\ now \in Nat
      /\ "running" \in Statuses
  BY DEF WaitForApproval, AtNode, LInv, IInv, TypeOK, GraphOK, RunRecords,
         Statuses
<1>2. \/ UNCHANGED <<storeVars, worldVars, up, todo, by, mem, phase, seen, reply>>
      \/ Raise \/ NodeFails \/ Node(Keep("running", NoCall, now), g)
  BY DEF WaitForApproval
<1>3. CASE UNCHANGED <<storeVars, worldVars, up, todo, by, mem, phase, seen, reply>>
  BY <1>1, <1>3, EmptyScript, SameGraphStarts DEF Quiet, storeVars, logVars, worldVars
<1>4. CASE Node(Keep("running", NoCall, now), g)
  <2>1. Keep("running", NoCall, now) \in Scripts
    BY <1>1, MoveScript DEF Keep
  <2>2. g.done = mem.done /\ g.gate
    BY <1>1 DEF LInv, IInv, TypeOK, Graphs
  <2> QED BY ScriptAsks, <1>1, <1>4, <2>1, <2>2, NodeStarts DEF GateOK
<1> QED BY <1>1, <1>2, <1>3, <1>4, RaiseStarts, NodeFailsStarts

LEMMA CallMcpToolStarts == ASSUME LInv, CallMcpTool PROVE Starts
<1>1. /\ Quiet /\ task = "graph" /\ mem.call \in Calls
      /\ run.steps \in Nat /\ run.calls + 1 \in Nat /\ now \in Nat
      /\ "tool.started" \in EventTypes \ {"tool.call.proposed"}
      /\ "running" \in Statuses
  BY DEF CallMcpTool, AtNode, LInv, IInv, TypeOK, GraphOK, RunRecords,
         EventTypes, Statuses
<1>2. todo' \in Scripts
  BY <1>1, PutScript, MoveScript, JoinedScripts DEF CallMcpTool
<1> QED BY <1>1, <1>2, SameGraphStarts DEF CallMcpTool, storeVars, logVars, worldVars

LEMMA SendCallStarts == ASSUME LInv, SendCall PROVE Starts
<1>1. /\ Quiet /\ todo' \in Scripts /\ run' = run
      /\ UNCHANGED <<log, crashes, up, mem, ckpt, task>>
  BY EmptyScript DEF SendCall, Quiet, storeVars, logVars
<1> QED BY <1>1, SameGraphStarts

\* The result of a read enters the graph with the event that carries it.
LEMMA ToolReturnsStarts ==
  ASSUME LInv, NEW ok \in BOOLEAN, ToolReturns(ok) PROVE Starts
<1>1. /\ todo = << >> /\ up /\ task = "graph" /\ mem.node = "call"
      /\ mem.call \in Calls /\ now \in Nat
      /\ mem.call \in ApprovalCalls => mem.gate
      /\ "tool.completed" \in EventTypes \ {"tool.call.proposed"}
  BY DEF ToolReturns, Quiet, LInv, IInv, TypeOK, TaskInv, GraphOK, ResultInv,
         GateOK, EventTypes
<1>2. /\ UNCHANGED <<run, log, crashes, ckpt, up>> /\ by' = "task"
      /\ todo' = Put("tool.completed", mem.call, ok, now)
  BY DEF ToolReturns, storeVars, logVars
<1>3. todo' \in Scripts
  BY <1>1, <1>2, PutScript
<1>4. /\ mem'.node = "observe"
      /\ mem'.done = IF ok /\ ~mem.gate THEN mem.done \cup {Sig[mem.call]}
                                        ELSE mem.done
  BY DEF ToolReturns, LInv, IInv, TypeOK, Graphs
<1>5. ok /\ ~mem.gate => Sig[mem.call] \in Pending(todo')
  <2> SUFFICES ASSUME ok, ~mem.gate PROVE Sig[mem.call] \in Pending(todo')
    OBVIOUS
  <2>1. /\ 1 \in 1..Len(todo') /\ todo'[1].op = "event"
        /\ todo'[1].name = "tool.completed"
        /\ todo'[1].call = mem.call /\ todo'[1].ok
    BY <1>2 DEF Put, Op
  <2>2. mem.call \in Calls \ ApprovalCalls
    BY <1>1
  <2> QED BY <2>1, <2>2 DEF Pending
<1>6. mem.done \subseteq Observed
  BY <1>1, AtAwait
<1> QED BY ScriptAsks, <1>1, <1>2, <1>3, <1>4, <1>5, <1>6 DEF Starts, LInv, ResultInv, GateOK

LEMMA ValidateObservationStarts ==
  ASSUME LInv, ValidateObservation PROVE Starts
<1> DEFINE g == [mem EXCEPT !.gate = FALSE, !.call = NoCall,
                            !.node = IF mem.queue = << >> THEN "model"
                                                          ELSE "validate"]
<1>1. Quiet /\ task = "graph" /\ Node(<< >>, g)
  BY DEF ValidateObservation, AtNode
<1>2. g.done = mem.done /\ g.node \in {"model", "validate"}
  BY DEF LInv, IInv, TypeOK, Graphs
<1> QED BY ScriptAsks, <1>1, <1>2, EmptyScript, NodeStarts DEF GateOK

LEMMA CompleteMessageStarts == ASSUME LInv, CompleteMessage PROVE Starts
<1>1. /\ Quiet /\ task = "graph"
      /\ run.steps \in Nat /\ run.calls \in Nat /\ now \in Nat
      /\ {"model.delta", "message.completed", "run.completed"}
            \subseteq EventTypes \ {"tool.call.proposed"}
      /\ "succeeded" \in Statuses
  BY DEF CompleteMessage, AtNode, LInv, IInv, TypeOK, RunRecords, EventTypes,
         Statuses, Terminal
<1> DEFINE ops == Put("model.delta", NoCall, FALSE, now)
                    \o Put("message.completed", NoCall, FALSE, now)
                    \o Put("run.completed", NoCall, FALSE, now)
                    \o Keep("succeeded", NoCall, now)
<1>2. ops \in Scripts
  BY <1>1, PutScript, MoveScript, JoinedScripts DEF Keep
<1>3. Node(ops, [mem EXCEPT !.node = "end"])
  BY DEF CompleteMessage
<1> QED BY ScriptAsks, <1>1, <1>2, <1>3, MovesTo, NodeStarts DEF Nodes

LEMMA NodeStepStarts == ASSUME LInv, NodeStep PROVE Starts
  BY ReceiveRequestStarts, PrepareEvidenceRetrievalStarts, ModelDecisionStarts,
     ModelAnswersStarts, ValidateToolSchemaStarts, EnforceToolPolicyStarts,
     WaitForApprovalStarts, CallMcpToolStarts, SendCallStarts,
     ToolReturnsStarts, ValidateObservationStarts, CompleteMessageStarts
  DEF NodeStep

-----------------------------------------------------------------------------
(* The durable writes.                                                     *)

LEMMA LeftPaired ==
  ASSUME LInv, todo # << >>, todo' = Tail(todo)
  PROVE  /\ Paired(todo')
         /\ todo[1].op = "event" => todo' # << >> /\ todo'[1].op = "cursor"
<1>1. /\ todo \in Seq(Ops) /\ Len(todo) \in Nat \ {0} /\ Paired(todo)
      /\ todo' \in Seq(Ops) /\ Len(todo') = Len(todo) - 1
      /\ \A i \in 1..Len(todo') : /\ i + 1 \in 1..Len(todo)
                                  /\ todo'[i] = todo[i + 1]
  BY WriteLeft DEF LInv, IInv, TypeOK, CursorInv
<1>2. ASSUME NEW i \in 1..Len(todo'), todo'[i].op = "event"
      PROVE  i < Len(todo') /\ todo'[i + 1].op = "cursor"
  <2>1. i + 1 \in 1..Len(todo) /\ todo[i + 1].op = "event"
    BY <1>1, <1>2
  <2>2. i + 1 < Len(todo) /\ todo[(i + 1) + 1].op = "cursor"
    BY <1>1, <2>1 DEF Paired
  <2>3. i + 1 \in 1..Len(todo')
    BY <1>1, <2>1, <2>2
  <2> QED BY <1>1, <2>2, <2>3
<1>3. ASSUME todo[1].op = "event"
      PROVE  todo' # << >> /\ todo'[1].op = "cursor"
  <2>1. 1 < Len(todo) /\ todo[1 + 1].op = "cursor"
    BY <1>1, <1>3 DEF Paired
  <2>2. 1 \in 1..Len(todo')
    BY <1>1, <2>1
  <2>3. todo'[1] = todo[1 + 1]
    BY <1>1, <2>2
  <2> QED BY <2>1, <2>2, <2>3
<1> QED BY <1>2, <1>3 DEF Paired

\* What is pending stays pending, unless it is the event just written.
LEMMA LeftPending ==
  ASSUME LInv, todo # << >>, todo' = Tail(todo),
         NEW s \in Pending(todo)
  PROVE  \/ s \in Pending(todo')
         \/ \E d \in Calls \ ApprovalCalls :
              /\ s = Sig[d] /\ todo[1].op = "event" /\ todo[1].call = d
              /\ todo[1].name = "tool.completed" /\ todo[1].ok
<1>1. todo \in Seq(Ops)
  BY DEF LInv, IInv, TypeOK
<1>2. PICK d \in Calls \ ApprovalCalls : \E i \in 1..Len(todo) :
             /\ s = Sig[d] /\ todo[i].op = "event" /\ todo[i].call = d
             /\ todo[i].name = "tool.completed" /\ todo[i].ok
  BY DEF Pending
<1>3. PICK i \in 1..Len(todo) :
             /\ s = Sig[d] /\ todo[i].op = "event" /\ todo[i].call = d
             /\ todo[i].name = "tool.completed" /\ todo[i].ok
  BY <1>2
<1>4. CASE i = 1
  BY <1>3, <1>4
<1>5. CASE i # 1
  <2>1. Len(todo') = Len(todo) - 1 /\ Len(todo) \in Nat \ {0}
    BY <1>1, WriteLeft
  <2>2. i - 1 \in 1..Len(todo') /\ (i - 1) + 1 = i
    BY <1>5, <2>1
  <2>3. todo'[i - 1] = todo[i]
    BY <1>1, <2>2, WriteLeft
  <2>4. \E j \in 1..Len(todo') :
           /\ todo'[j].op = "event" /\ todo'[j].name = "tool.completed"
           /\ todo'[j].call = d /\ todo'[j].ok
    BY <1>3, <2>2, <2>3
  <2> QED BY <1>3, <2>4 DEF Pending
<1> QED BY <1>4, <1>5

\* AfterWrite leaves the graph to the handler it belongs to.
LEMMA ResultLeft ==
  ASSUME LInv, todo # << >>, AfterWrite,
         UNCHANGED <<by, mem, ckpt>>, Observed \subseteq Observed',
         by = "task" => Pending(todo) \subseteq Observed' \cup Pending(todo')
  PROVE  ResultInv'
<1>1. task' \in {"graph", "flush"} => task' = task
  BY DEF AfterWrite
<1>2. task' \in {"graph", "flush"} =>
        mem'.done \subseteq
          Observed' \cup (IF by' = "task" THEN Pending(todo') ELSE {})
  BY <1>1 DEF LInv, ResultInv
<1> QED BY <1>2 DEF LInv, ResultInv

\* What the log says of its first lines does not change.
LEMMA LogGrows ==
  ASSUME LInv, NEW e, log' = Append(log, e)
  PROVE  /\ Len(log) \in Nat /\ Len(log') = Len(log) + 1
         /\ log'[Len(log) + 1] = e
         /\ \A i \in 1..Len(log) : log'[i] = log[i]
<1>1. log \in Seq(Events)
  BY DEF LInv, IInv, TypeOK
<1> QED BY <1>1

\* So a line only adds to the results.
LEMMA ObservedGrows ==
  ASSUME LInv, NEW e, log' = Append(log, e) PROVE Observed \subseteq Observed'
<1>1. ASSUME NEW d \in Calls,
             \E i \in 1..Len(log) : /\ log[i].type = "tool.completed"
                                    /\ log[i].call = d /\ log[i].ok
      PROVE  \E i \in 1..Len(log') : /\ log'[i].type = "tool.completed"
                                     /\ log'[i].call = d /\ log'[i].ok
  <2>1. PICK i \in 1..Len(log) : /\ log[i].type = "tool.completed"
                                 /\ log[i].call = d /\ log[i].ok
    BY <1>1
  <2>2. i \in 1..Len(log') /\ log'[i] = log[i]
    BY LogGrows
  <2> QED BY <2>1, <2>2
<1> QED BY <1>1 DEF Observed

LEMMA StoreEventLog ==
  ASSUME LInv, todo # << >>, StoreEvent(Head(todo))
  PROVE  CursorInv' /\ ResultInv'
<1> DEFINE op == todo[1]
<1>1. /\ todo' = Tail(todo) /\ Head(todo) = op /\ op \in Ops
      /\ op.op = "event" /\ log \in Seq(Events) /\ run.cursor \in Nat
      /\ crashes \in Nat /\ run.cursor <= Len(log)
  BY WriteLeft DEF StoreEvent, AfterWrite, LInv, IInv, TypeOK, RunRecords,
                   CursorInv
<1>2. /\ log' = Append(log, [type |-> op.name, call |-> op.call, ok |-> op.ok])
      /\ UNCHANGED <<run, crashes, up, by, mem, ckpt>> /\ up /\ AfterWrite
  BY <1>1 DEF StoreEvent, WriteEvent, AddLine, worldVars, LInv, CursorInv
<1>3. /\ Len(log') = Len(log) + 1 /\ Len(log) \in Nat
      /\ log'[Len(log) + 1] = [type |-> op.name, call |-> op.call, ok |-> op.ok]
      /\ \A i \in 1..Len(log) : log'[i] = log[i]
  BY <1>1, <1>2
<1>4. Lag = 0 /\ Lag' = 1 /\ Paired(todo')
  BY <1>1, LeftPaired DEF Lag
<1>5. CursorInv'
  <2>1. Len(log) <= run.cursor + crashes
    BY <1>1, <1>3, <1>4 DEF LInv, CursorInv
  <2> QED BY <1>1, <1>2, <1>3, <1>4, <2>1 DEF CursorInv
<1>6. Observed \subseteq Observed'
  BY <1>2, ObservedGrows
<1>7. Pending(todo) \subseteq Observed' \cup Pending(todo')
  <2> SUFFICES ASSUME NEW s \in Pending(todo), s \notin Pending(todo')
               PROVE  s \in Observed'
    OBVIOUS
  <2>1. PICK d \in Calls \ ApprovalCalls :
               /\ s = Sig[d] /\ op.call = d
               /\ op.name = "tool.completed" /\ op.ok
    BY <1>1, LeftPending
  <2>2. Len(log) + 1 \in 1..Len(log')
    BY <1>3
  <2>3. /\ log'[Len(log) + 1].type = "tool.completed"
        /\ log'[Len(log) + 1].call = d /\ log'[Len(log) + 1].ok
    BY <1>3, <2>1
  <2> QED BY <2>1, <2>2, <2>3 DEF Observed
<1>8. ResultInv'
  BY <1>2, <1>6, <1>7, ResultLeft
<1> QED BY <1>5, <1>8

LEMMA StoreCursorLog ==
  ASSUME LInv, todo # << >>, StoreCursor(Head(todo))
  PROVE  CursorInv' /\ ResultInv'
<1>1. /\ todo' = Tail(todo) /\ todo[1].op = "cursor" /\ up
      /\ run'.cursor = Len(log) /\ AfterWrite
      /\ UNCHANGED <<log, crashes, up, by, mem, ckpt>>
      /\ Len(log) \in Nat /\ crashes \in Nat
  BY WriteLeft
  DEF StoreCursor, AfterWrite, AdvanceCursor, LInv, IInv, TypeOK, RunRecords,
      CursorInv, worldVars, logVars
<1>2. Lag' \in {0, 1} /\ Paired(todo')
  BY <1>1, LeftPaired DEF Lag
<1>3. CursorInv'
  BY <1>1, <1>2 DEF CursorInv
<1>4. Observed' = Observed /\ Pending(todo) \subseteq Pending(todo')
  BY <1>1, LeftPending DEF Observed
<1> QED BY <1>1, <1>3, <1>4, ResultLeft

LEMMA StoreMoveLog ==
  ASSUME LInv, todo # << >>, StoreMove(Head(todo))
  PROVE  CursorInv' /\ ResultInv'
<1>1. /\ todo' = Tail(todo) /\ todo[1].op = "move" /\ up
      /\ run'.cursor = run.cursor /\ AfterWrite
      /\ UNCHANGED <<log, crashes, up, by, mem, ckpt>>
      /\ run.cursor \in Nat /\ Len(log) \in Nat /\ crashes \in Nat
  BY WriteLeft
  DEF StoreMove, AfterWrite, Transition, LInv, IInv, TypeOK, RunRecords,
      CursorInv, worldVars, logVars
<1>2. Lag = 0 /\ Lag' \in {0, 1} /\ Paired(todo')
  BY <1>1, LeftPaired DEF Lag
<1>3. CursorInv'
  BY <1>1, <1>2 DEF LInv, CursorInv
<1>4. Observed' = Observed /\ Pending(todo) \subseteq Pending(todo')
  BY <1>1, LeftPending DEF Observed
<1> QED BY <1>1, <1>3, <1>4, ResultLeft

\* The operation that raises is not a cursor write, so no event of a script
\* that is dropped lacks only its cursor.
LEMMA StoreRaisesLog ==
  ASSUME LInv, up, todo # << >>, StoreRaises(Head(todo))
  PROVE  CursorInv' /\ ResultInv'
<1>1. /\ todo[1].op # "cursor" /\ todo' \in Scripts
      /\ UNCHANGED <<run, log, crashes, mem, ckpt>> /\ (~up' => todo' = << >>)
  <2>1. Head(todo).op # "cursor" /\ Head(todo) = todo[1]
    BY DEF StoreRaises, LInv, IInv, TypeOK
  <2>2. /\ todo' \in {<< >>, FailOps}
        /\ UNCHANGED <<run, log, crashes, mem, ckpt>> /\ (~up' => todo' = << >>)
    BY DEF StoreRaises, Raise, storeVars, logVars, worldVars
  <2> QED BY <2>1, <2>2, FailScripts, EmptyScript DEF LInv
<1>2. Lag = 0 /\ Lag' \in {0, 1}
  BY <1>1 DEF Lag
<1>3. run.cursor \in Nat /\ Len(log) \in Nat /\ crashes \in Nat
  BY DEF LInv, IInv, TypeOK, RunRecords
<1>4. CursorInv'
  BY <1>1, <1>2, <1>3 DEF LInv, CursorInv, Scripts
<1>5. task' \in {"graph", "flush"} => task' = task /\ by # "task"
  BY DEF StoreRaises, Raise, LInv, IInv, TypeOK
<1>6. task' \in {"graph", "flush"} => mem.done \subseteq Observed
  BY <1>5 DEF LInv, ResultInv
<1>7. ResultInv'
  BY <1>1, <1>6 DEF LInv, ResultInv, Observed
<1> QED BY <1>4, <1>7

LEMMA StoreStepLog == ASSUME LInv, StoreStep PROVE CursorInv' /\ ResultInv'
  BY StoreEventLog, StoreCursorLog, StoreMoveLog, StoreRaisesLog DEF StoreStep

-----------------------------------------------------------------------------
(* The API, and the world.                                                 *)

LEMMA ClientStarts == ASSUME LInv, Client PROVE Starts
<1>1. CASE Refresh
  <2>1. /\ todo = << >> /\ up' /\ by' = "api" /\ todo' \in Scripts
        /\ UNCHANGED <<run, log, crashes, mem, ckpt, up, task>>
    BY <1>1, FailScripts DEF Refresh, Quiet, LInv, storeVars, logVars, taskVars, worldVars
  <2> QED BY <2>1, SameGraphStarts DEF Quiet
<1>2. CASE Cancel
  <2>1. /\ Quiet /\ todo' \in Scripts /\ task' = "none"
        /\ UNCHANGED <<log, crashes, mem, ckpt, up>> /\ run'.cursor = run.cursor
    BY <1>2, EmptyScript
    DEF Cancel, Quiet, Transition, LInv, IInv, TypeOK, RunRecords, storeVars, logVars,
        worldVars
  <2> QED BY <2>1, SameGraphStarts
<1>3. ASSUME NEW c \in Calls, NEW d \in Decisions, PostApproval(c, d)
      PROVE  Starts
  <2>1. /\ Quiet /\ todo' \in Scripts /\ task' \in {"resume", task}
        /\ UNCHANGED <<run, log, crashes, mem, ckpt, up>>
    BY <1>3, EmptyScript DEF PostApproval, DecideApproval, Quiet, worldVars, logVars
  <2> QED BY <2>1, SameGraphStarts
<1> QED BY <1>1, <1>2, <1>3 DEF Client

LEMMA WorldLog == ASSUME LInv, Server \/ Tick PROVE CursorInv' /\ ResultInv'
<1>1. UNCHANGED <<storeVars, taskVars, crashes, ckpt, up, todo, by>>
  BY ServerWorks DEF LInv, ServerOnly, Tick
<1> QED BY <1>1
  DEF LInv, CursorInv, Lag, ResultInv, Observed, storeVars, logVars, taskVars

\* A crash makes at most one event lack its cursor: the one whose cursor was
\* next, or the one whose line it has left.
LEMMA CrashLog == ASSUME LInv, Crash PROVE CursorInv' /\ ResultInv'
<1>1. /\ run' = run /\ ckpt' = ckpt /\ crashes' = crashes + 1
      /\ todo' = << >> /\ mem' = NoGraph /\ task' = "none"
      /\ run.cursor \in Nat /\ Len(log) \in Nat /\ crashes \in Nat
  <2>1. run' = run /\ IInv
    BY CrashLeaves DEF LInv
  <2> QED BY <2>1 DEF Crash, IInv, TypeOK, RunRecords
<1>2. Lag \in {0, 1} /\ Lag' = 0 /\ Paired(todo')
  BY <1>1, EmptyScript DEF Lag, Scripts
<1>3. CASE log' = log
  BY <1>1, <1>2, <1>3 DEF LInv, CursorInv, ResultInv, Observed, GateOK, NoGraph
<1>4. CASE /\ todo # << >> /\ Head(todo).op = "event"
           /\ AddLine(Head(todo).name, Head(todo).call, Head(todo).ok)
  <2>1. Lag = 0
    BY <1>4, WriteLeft DEF Lag, LInv, IInv, TypeOK
  <2>2. Len(log') = Len(log) + 1 /\ Observed \subseteq Observed'
    BY <1>4, LogGrows, ObservedGrows DEF AddLine
  <2>3. CursorInv'
    BY <1>1, <1>2, <2>1, <2>2 DEF LInv, CursorInv
  <2>4. ResultInv'
    BY <1>1, <2>2 DEF LInv, ResultInv, GateOK, NoGraph
  <2> QED BY <2>3, <2>4
<1> QED BY <1>3, <1>4, CrashLeaves DEF LInv

LEMMA RecoverStarts == ASSUME LInv, Recover PROVE Starts
<1>1. /\ todo = << >> /\ up' /\ task' \in {"start", "none"}
      /\ todo' \in Scripts /\ UNCHANGED <<run, log, crashes, mem, ckpt>>
  BY FailScripts, EmptyScript
  DEF Recover, LInv, CursorInv, storeVars, logVars, worldVars
<1> QED BY ScriptAsks, <1>1 DEF Starts, LInv, ResultInv

LEMMA StutterLog ==
  ASSUME LInv, UNCHANGED vars PROVE CursorInv' /\ ResultInv'
  BY DEF LInv, CursorInv, Lag, ResultInv, Observed, vars, storeVars, logVars, taskVars,
         worldVars

-----------------------------------------------------------------------------
LEMMA TaskEscapesStarts == ASSUME LInv, TaskEscapes PROVE Starts
<1>1. /\ Quiet /\ todo' \in Scripts /\ task' = "escaped"
      /\ UNCHANGED <<run, log, crashes, up, mem, ckpt>>
  BY EmptyScript DEF TaskEscapes, Quiet, storeVars, logVars, worldVars
<1> QED BY <1>1, SameGraphStarts

LEMMA HandlerStarts ==
  ASSUME LInv,
         \/ TaskStep \/ SaveCheckpoint \/ TaskAborts \/ TaskEscapes
         \/ Client \/ Recover
  PROVE  Starts
<1>1. CASE TaskStep \/ SaveCheckpoint
  BY <1>1, TaskStartStarts, TaskResumeStarts, NodeStepStarts, SaverStarts
  DEF TaskStep
<1>2. CASE TaskAborts
  BY <1>2, RaiseStarts DEF TaskAborts
<1> QED BY <1>1, <1>2, TaskEscapesStarts, ClientStarts, RecoverStarts

LEMMA LogNext == ASSUME LInv, [Next]_vars PROVE LInv'
<1>1. IInv'
  BY NextInv DEF LInv
<1>2. CASE StoreStep
  BY <1>1, <1>2, StoreStepLog DEF LInv
<1>3. CASE \/ TaskStep \/ SaveCheckpoint \/ TaskAborts \/ TaskEscapes
           \/ Client \/ Recover
  BY <1>1, <1>3, HandlerStarts, StartsInv DEF LInv
<1>6. CASE Server \/ Tick
  BY <1>1, <1>6, WorldLog DEF LInv
<1>7. CASE Crash
  BY <1>1, <1>7, CrashLog DEF LInv
<1>9. CASE UNCHANGED vars
  BY <1>1, <1>9, StutterLog DEF LInv
<1> QED BY <1>2, <1>3, <1>6, <1>7, <1>9 DEF Next

LEMMA LogInvariance == Spec => []LInv
<1>1. Init => LInv
  BY InitInv, LogInit DEF LInv
<1> QED BY <1>1, LogNext, PTL DEF Spec

-----------------------------------------------------------------------------
(* Repeated proposals.                                                     *)

LEMMA TrailingFinite ==
  ASSUME LInv, NEW s, NEW n
  PROVE  IsFiniteSet(Trailing(s, n)) /\ Cardinality(Trailing(s, n)) \in Nat
<1>1. Len(log) \in Nat
  BY DEF LInv, IInv, TypeOK
<1>2. IsFiniteSet(1..Len(log)) /\ Trailing(s, n) \in SUBSET (1..Len(log))
  BY <1>1, FS_Interval DEF Trailing, Proposals
<1> QED BY <1>2, FS_Subset, FS_CardinalityType

LEMMA OldTrailing ==
  ASSUME LInv, NEW e, log' = Append(log, e), NEW s, NEW n \in 1..Len(log)
  PROVE  Trailing(s, n)' = Trailing(s, n)
<1>1. \A i : i \in Proposals' /\ i <= n <=> i \in Proposals /\ i <= n
  BY LogGrows DEF Proposals
<1>2. \A i \in Proposals : log'[i] = log[i]
  BY LogGrows DEF Proposals
<1> QED BY <1>1, <1>2 DEF Trailing

LEMMA OneMore ==
  ASSUME NEW S, IsFiniteSet(S), NEW x, NEW U, U \subseteq S \cup {x},
         NEW m \in Nat, ~(Cardinality(S) >= m)
  PROVE  Cardinality(U) <= m
<1>1. /\ IsFiniteSet(S \cup {x})
      /\ Cardinality(S) \in Nat
      /\ \/ Cardinality(S \cup {x}) = Cardinality(S)
         \/ Cardinality(S \cup {x}) = Cardinality(S) + 1
  BY FS_AddElement, FS_CardinalityType
<1>2. Cardinality(U) \in Nat /\ Cardinality(U) <= Cardinality(S \cup {x})
  BY <1>1, FS_Subset, FS_CardinalityType
<1> QED BY <1>1, <1>2

\* A proposal that is no repetition makes the row of its like one longer.
LEMMA NewTrailing ==
  ASSUME LInv, NEW e, log' = Append(log, e), e.type = "tool.call.proposed",
         ~Repeated(e.call), NEW n, n = Len(log)
  PROVE  Cardinality(Trailing(Sig[e.call], n + 1)') <= RepeatLimit
<1> DEFINE T == Trailing(Sig[e.call], n)
           U == Trailing(Sig[e.call], n + 1)'
<1>1. \A i : i \in Proposals' <=> i \in Proposals \/ i = n + 1
  BY LogGrows DEF Proposals
<1>2. /\ n \in Nat
      /\ \A i \in Proposals : log'[i] = log[i] /\ i <= n /\ i \in Nat
  BY LogGrows DEF Proposals
<1>3. U \subseteq T \cup {n + 1}
  <2> SUFFICES ASSUME NEW i \in U, i # n + 1 PROVE i \in T
    OBVIOUS
  <2>1. /\ i \in Proposals
        /\ \A j \in Proposals' : i <= j /\ j <= n + 1 =>
             Sig[log'[j].call] = Sig[e.call]
    BY <1>1 DEF Trailing
  <2>2. ASSUME NEW j \in Proposals, i <= j, j <= n
        PROVE  Sig[log[j].call] = Sig[e.call]
    <3>1. j \in Proposals' /\ log'[j] = log[j] /\ j \in Nat
      BY <1>1, <1>2
    <3>3. j <= n + 1
      BY <1>2, <2>2, <3>1
    <3> QED BY <2>1, <2>2, <3>1, <3>3
  <2> QED BY <1>2, <2>1, <2>2 DEF Trailing
<1>4. IsFiniteSet(T) /\ ~(Cardinality(T) >= RepeatLimit)
  BY TrailingFinite DEF Repeated
<1> QED BY <1>3, <1>4, OneMore, LimitAssumption

LEMMA LineLoop ==
  ASSUME LInv, LoopInv, todo # << >>, Head(todo).op = "event",
         AddLine(Head(todo).name, Head(todo).call, Head(todo).ok)
  PROVE  NoToolLoop'
<1>1. PICK e : /\ log' = Append(log, e)
               /\ e.type = "tool.call.proposed" => ~Repeated(e.call)
  <2> DEFINE e == [type |-> todo[1].name, call |-> todo[1].call,
                   ok |-> todo[1].ok]
  <2>1. /\ log' = Append(log, e) /\ 1 \in 1..Len(todo)
        /\ todo[1].op = "event"
    BY DEF AddLine, LInv, IInv, TypeOK
  <2>2. e.type = "tool.call.proposed" => ~Repeated(e.call)
    BY <2>1 DEF LoopInv, Asks, Proposes
  <2> QED BY <2>1, <2>2
<1>2. ASSUME NEW i \in Proposals', NEW s, s = Sig[log'[i].call]
      PROVE  Cardinality(Trailing(s, i)') <= RepeatLimit
  <2>1. CASE i \in 1..Len(log)
    <3>1. i \in Proposals /\ log'[i] = log[i]
      BY <1>1, <2>1, LogGrows DEF Proposals
    <3>2. Cardinality(Trailing(s, i)) <= RepeatLimit
      BY <1>2, <3>1 DEF LoopInv, NoToolLoop
    <3>3. Trailing(s, i)' = Trailing(s, i)
      BY <1>1, <2>1, OldTrailing
    <3> QED BY <3>2, <3>3
  <2>2. CASE i = Len(log) + 1
    <3>1. PICK n : n = Len(log)
      OBVIOUS
    <3>2. log'[i] = e /\ e.type = "tool.call.proposed" /\ i = n + 1
      BY <1>1, <1>2, <2>2, <3>1, LogGrows DEF Proposals
    <3> QED BY <1>1, <1>2, <3>1, <3>2, NewTrailing
  <2> QED BY <1>1, <1>2, <2>1, <2>2, LogGrows DEF Proposals
<1> QED BY <1>2 DEF NoToolLoop

\* What is left of a script asks nothing any more.
LEMMA LeftAsks ==
  ASSUME LInv, LoopInv, todo # << >>, todo' = Tail(todo) PROVE Asks(todo)'
<1>1. \A i \in 1..Len(todo') : i + 1 \in 1..Len(todo) /\ todo'[i] = todo[i + 1]
  BY WriteLeft DEF LInv, IInv, TypeOK
<1>2. ASSUME NEW i \in 1..Len(todo'), Proposes(todo'[i]) PROVE FALSE
  <2>1. i + 1 \in 1..Len(todo) /\ Proposes(todo[i + 1])
    BY <1>1, <1>2
  <2> QED BY <2>1 DEF LoopInv, Asks
<1> QED BY <1>2 DEF Asks

LEMMA SameLog ==
  ASSUME NoToolLoop, log' = log
  PROVE  NoToolLoop' /\ \A c : Repeated(c)' <=> Repeated(c)
  BY DEF NoToolLoop, Repeated, Trailing, Proposals

LEMMA StoreStepLoop == ASSUME LInv, LoopInv, StoreStep PROVE LoopInv'
<1>1. todo # << >>
  BY DEF StoreStep
<1>2. CASE StoreEvent(Head(todo))
  BY <1>1, <1>2, LineLoop, LeftAsks DEF LoopInv, StoreEvent, WriteEvent, AfterWrite
<1>3. CASE StoreCursor(Head(todo)) \/ StoreMove(Head(todo))
  BY <1>1, <1>3, SameLog, LeftAsks
  DEF LoopInv, StoreCursor, StoreMove, AfterWrite, AdvanceCursor, Transition, logVars
<1>4. CASE StoreRaises(Head(todo))
  <2>1. todo' \in {<< >>, FailOps} /\ log' = log
    BY <1>4 DEF StoreRaises, Raise, storeVars, logVars
  <2>2. todo' \in Scripts
    BY <2>1, FailScripts, EmptyScript DEF LInv
  <2> QED BY <2>1, <2>2, SameLog DEF LoopInv, Scripts, Asks
<1> QED BY <1>2, <1>3, <1>4 DEF StoreStep

LEMMA StartsLoop == ASSUME LoopInv, Starts PROVE LoopInv'
  BY SameLog DEF LoopInv, Starts, Asks

LEMMA LoopNext == ASSUME LInv, LoopInv, [Next]_vars PROVE LoopInv'
<1>1. CASE StoreStep
  BY <1>1, StoreStepLoop
<1>2. CASE Starts
  BY <1>2, StartsLoop
<1>3. CASE log' = log /\ todo' \in {todo, << >>}
  BY <1>3, SameLog DEF LoopInv, Asks
<1>4. CASE Server \/ Tick \/ UNCHANGED vars
  BY <1>3, <1>4, ServerWorks DEF LInv, ServerOnly, Tick, vars, storeVars, logVars
<1>5. CASE Crash
  <2>1. Asks(todo)'
    BY <1>5 DEF Crash, Asks
  <2>2. CASE log' = log
    BY <2>1, <2>2, SameLog DEF LoopInv
  <2>3. CASE /\ todo # << >> /\ Head(todo).op = "event"
             /\ AddLine(Head(todo).name, Head(todo).call, Head(todo).ok)
    BY <2>1, <2>3, LineLoop DEF LoopInv
  <2> QED BY <1>5, <2>2, <2>3, CrashLeaves DEF LInv
<1> QED BY <1>1, <1>2, <1>4, <1>5, HandlerStarts DEF Next

\* store.append_event writes the line and then the cursor: however often the
\* process dies between the two, last_event_sequence stays at or behind the
\* log, by one event for each death and one for the write in progress.
THEOREM LogAndCursor == Spec => []CursorFollowsLog
<1>1. LInv => CursorFollowsLog
  <2> SUFFICES ASSUME LInv PROVE CursorFollowsLog
    OBVIOUS
  <2>1. run.cursor \in Nat /\ Len(log) \in Nat /\ crashes \in Nat
    BY DEF LInv, IInv, TypeOK, RunRecords
  <2> QED BY <2>1 DEF LInv, CursorInv, Lag, CursorFollowsLog
<1> QED BY <1>1, LogInvariance, PTL

\* A LangGraph checkpoint never remembers the result of a read call whose
\* tool.completed event a crash has kept out of the log.
THEOREM CheckpointInLog == Spec => []CheckpointBehindLog
<1>1. LInv => CheckpointBehindLog
  BY DEF LInv, ResultInv, CheckpointBehindLog
<1> QED BY <1>1, LogInvariance, PTL

\* _enforce_tool_policy counts the proposals of the durable log before it
\* writes another one, so that no call is proposed more than RepeatLimit times
\* in a row, also when crashes make nodes run again.
THEOREM LoopsAreCut == Spec => []NoToolLoop
<1>1. Init => LoopInv
  BY DEF Init, StoreInit, LoopInv, NoToolLoop, Proposals, Asks
<1>2. Spec => []LoopInv
  BY <1>1, LogInvariance, LoopNext, PTL DEF Spec
<1>3. LoopInv => NoToolLoop
  BY DEF LoopInv
<1> QED BY <1>2, <1>3, PTL

-----------------------------------------------------------------------------
(* Runs without a crash, up to the deadline.                               *)

Nominal == crashes = 0 /\ now <= Deadline

Outcomes == {"run.failed", "run.completed"}

\* The next write is the tool.started event of a call.
Starting ==
    todo # << >> /\ todo[1].op = "event" /\ todo[1].name = "tool.started"
\* What the counter of the record is once the queue is written.
Due == IF Starting THEN Started + 1 ELSE Started
Moving == \E n \in 1..Len(todo) : todo[n].op = "move"

\* The script ends with a transition to one of these.
Last(s, names) ==
    s # << >> /\ s[Len(s)].op = "move" /\ s[Len(s)].name \in names

QueueAt(n) ==
    LET o == todo[n] IN
    /\ o.at <= Deadline
    /\ o.op = "move" => o.steps <= MaxSteps /\ o.calls = Due
    /\ o.op = "move" /\ o.name \notin Terminal
         => /\ task = "graph" /\ mem.node \notin {"none", "receive"}
            /\ o.name = "running" => mem.node # "approve"
    /\ o.op = "event" /\ o.name \in Outcomes
         => n + 2 = Len(todo) /\ Last(todo, Terminal)
    /\ o.op = "event" /\ o.name = "tool.started" => n = 1
    /\ o.op = "event" /\ o.name = "run.started"
         => /\ log = << >>
            /\ \/ n = 1 /\ run.status # "created"
               \/ n = 2 /\ todo[1].op = "move"
    /\ o.op = "event" /\ log = << >> /\ ~IsTerminal
         => o.name \in {"run.started", "run.failed"}
QueueN == \A n \in 1..Len(todo) : QueueAt(n)

\* Past the policy, and not yet at the tool.
BeforeCall ==
    \/ mem.node = "approve"
    \/ mem.node = "call" /\ task = "graph" /\ phase = "none"

\* The counter lags by the call being recorded, and the limits are checked
\* before the node that counts.
CountN ==
    /\ Started <= MaxToolCalls /\ run.steps <= MaxSteps
    /\ run.updated <= Deadline
    /\ \/ run.calls = Started
       \/ run.calls < Started /\ ~IsTerminal /\ Moving
    /\ Starting => /\ run.calls = Started /\ Started < MaxToolCalls
                   /\ Moving /\ phase = "send"
    /\ phase = "model" => seen < MaxSteps
    /\ BeforeCall => Started < MaxToolCalls

\* Whoever leaves an active run without a task ends it first, but for the
\* exception that escapes.
TaskN ==
    /\ up
    /\ task = "escaped" => run.status # "waiting_approval"
    /\ task = "start" => ckpt = NoGraph /\ mem = NoGraph
    /\ task = "start" \/ (task = "graph" /\ mem.node = "receive")
         => run.status = "created" \/ IsTerminal
    /\ task = "graph" /\ mem.node = "end" => IsTerminal \/ Last(todo, Terminal)
    /\ task = "graph" /\ mem.node = "approve"
         => \/ IsTerminal \/ run.status = "waiting_approval"
            \/ Last(todo, {"waiting_approval"})
    /\ task \in {"flush", "none", "resume"}
         => IsTerminal \/ run.status = "waiting_approval"
    /\ task = "dying" => Last(todo, Terminal) /\ by = "task"
    /\ task \in {"none", "resume"} /\ run.status = "waiting_approval"
         => ckpt = mem
    /\ run.status = "waiting_approval"
         => mem.node = "approve" \/ Last(todo, Terminal \cup {"running"})

\* run.started opens the log, and after an outcome only the transition to it
\* is still to be written.
LogN ==
    /\ run.status = "created" => log = << >> \/ Last(todo, Terminal)
    /\ log # << >> => log[1].type \in {"run.started", "run.failed"}
    /\ \A i \in 1..Len(log) :
         /\ log[i].type = "run.started" => i = 1
         /\ log[i].type \in Outcomes =>
              /\ i = Len(log)
              /\ \/ IsTerminal
                 \/ /\ Last(todo, Terminal)
                    /\ \A n \in 1..Len(todo) : todo[n].op # "event"
    /\ log = << >> /\ ~IsTerminal /\ mem.node \notin {"none", "receive"}
         => \E n \in 1..Len(todo) :
              todo[n].op = "event" /\ todo[n].name = "run.started"

\* The results of read calls a script writes are among those in D.
Reads(s, D) ==
    \A n \in 1..Len(s) :
        s[n].op = "event" /\ s[n].name = "tool.completed"
          => /\ s[n].call \in Calls
             /\ s[n].ok /\ s[n].call \notin ApprovalCalls
                  => Sig[s[n].call] \in D

\* The calls a graph state is still to make are new, and different.
Fresh(g) ==
    /\ \A k, l \in 1..Len(g.queue) :
         k < l => Sig[g.queue[k]] # Sig[g.queue[l]]
    /\ \A k \in 1..Len(g.queue) : Sig[g.queue[k]] \notin g.done
    /\ g.node \in {"policy", "approve", "call"} =>
         /\ Sig[g.call] \notin g.done
         /\ \A k \in 1..Len(g.queue) : Sig[g.queue[k]] # Sig[g.call]

\* No result is missing in the graph state, and what is started has none.
ReadN ==
    /\ Observed \subseteq mem.done /\ Reads(todo, mem.done)
    /\ Fresh(mem)
    /\ Starting /\ todo[1].call \notin ApprovalCalls
         => Sig[todo[1].call] \notin Observed
    /\ \A i \in 1..Len(log) :
         log[i].type = "tool.completed" => log[i].call \in Calls
    /\ SuccessfulReadOnce

NominalInv == QueueN /\ CountN /\ TaskN /\ LogN /\ ReadN

LEMMA CrashesGrow ==
  ASSUME LInv, [Next]_vars
  PROVE  /\ crashes' = crashes \/ (Crash /\ crashes' = crashes + 1)
         /\ now' = now \/ now' = now + 1
<1>1. CASE StoreStep \/ TaskStep \/ SaveCheckpoint \/ TaskAborts \/ TaskEscapes
  BY <1>1
  DEF StoreStep, StoreEvent, StoreCursor, StoreMove, StoreRaises, TaskStep, TaskStart,
      TaskResume, NodeStep, GraphEnds, TaskDone, SaveCheckpoint, TaskAborts,
      TaskEscapes, Raise, ReceiveRequest, PrepareEvidenceRetrieval, ModelDecision,
      ModelAnswers, ModelMessage, ModelCalls, NodeFails, Node, ValidateToolSchema,
      EnforceToolPolicy, WaitForApproval, CallMcpTool, SendCall, ToolReturns,
      ValidateObservation, CompleteMessage, worldVars
<1>2. CASE Client \/ Server \/ Tick \/ Recover \/ UNCHANGED vars
  BY <1>2, ServerWorks
  DEF Client, Refresh, Cancel, PostApproval, ServerOnly, Tick, Recover, vars, worldVars,
      LInv
<1>3. CASE Crash
  BY <1>3 DEF Crash
<1> QED BY <1>1, <1>2, <1>3 DEF Next

\* What a process that has not died yet never sees.
WholeN == up /\ by # "startup" /\ tail = "clean"

LEMMA WholeNext ==
  ASSUME LInv, crashes = 0 => WholeN, [Next]_vars PROVE crashes' = 0 => WholeN'
<1>1. ASSUME WholeN, UNCHANGED tail, UNCHANGED up, by' \in {by, "task", "api"}
      PROVE  WholeN'
  BY <1>1 DEF WholeN
<1>2. CASE StoreStep /\ crashes = 0
  <2>1. CASE StoreEvent(Head(todo))
    BY <1>2, <2>1 DEF StoreEvent, WriteEvent, WholeN
  <2>2. CASE StoreCursor(Head(todo)) \/ StoreMove(Head(todo))
    BY <1>1, <1>2, <2>2 DEF StoreCursor, StoreMove, AdvanceCursor, Transition, logVars
  <2>3. CASE StoreRaises(Head(todo))
    BY <1>1, <1>2, <2>3 DEF StoreRaises, Raise, WholeN, storeVars, logVars
  <2> QED BY <1>2, <2>1, <2>2, <2>3 DEF StoreStep
<1>3. CASE (TaskStep \/ SaveCheckpoint \/ TaskAborts \/ TaskEscapes) /\ crashes = 0
  <2>1. UNCHANGED <<tail, up>> /\ by' \in {by, "task", "api"}
    BY <1>3
    DEF TaskStep, TaskStart, TaskResume, NodeStep, GraphEnds, TaskDone, SaveCheckpoint,
      TaskAborts, TaskEscapes, Raise, ReceiveRequest, PrepareEvidenceRetrieval,
      ModelDecision, ModelAnswers, ModelMessage, ModelCalls, NodeFails, Node,
      ValidateToolSchema, EnforceToolPolicy, WaitForApproval, CallMcpTool, SendCall,
      ToolReturns, ValidateObservation, CompleteMessage, storeVars, logVars
  <2> QED BY <1>1, <1>3, <2>1
<1>4. CASE Client /\ crashes = 0
  BY <1>1, <1>4
  DEF Client, Refresh, Cancel, PostApproval, DecideApproval, Transition, storeVars,
      logVars
<1>5. CASE (Server \/ Tick \/ UNCHANGED vars) /\ crashes = 0
  <2>1. UNCHANGED <<tail, up, by>>
    BY <1>5, ServerWorks DEF LInv, ServerOnly, Tick, vars, storeVars, logVars
  <2> QED BY <1>1, <1>5, <2>1
<1>6. CASE Crash
  <2>1. crashes \in Nat /\ crashes' = crashes + 1
    BY <1>6 DEF Crash, LInv, IInv, TypeOK
  <2> QED BY <2>1
<1>7. CASE Recover
  BY <1>7 DEF Recover, WholeN, worldVars
<1>8. crashes' = 0 => crashes = 0 \/ Crash
  BY CrashesGrow
<1> QED BY <1>2, <1>3, <1>4, <1>5, <1>6, <1>7, <1>8 DEF Next

LEMMA NominalInit == Init => NominalInv
<1> SUFFICES ASSUME Init PROVE NominalInv
  OBVIOUS
<1>1. /\ todo = << >> /\ log = << >> /\ up /\ task = "start"
      /\ ckpt = NoGraph /\ mem = NoGraph /\ phase = "none"
      /\ run.status = "created" /\ run.steps = 0 /\ run.calls = 0
      /\ run.updated = 0
  BY DEF Init, StoreInit
<1>2. Started = 0
  <2>1. {i \in 1..Len(log) : log[i].type = "tool.started"} = {}
    BY <1>1
  <2> QED BY <2>1, FS_EmptySet DEF Started
<1>3. QueueN /\ TaskN /\ LogN
  BY <1>1 DEF QueueN, TaskN, LogN, NoGraph, IsTerminal, Terminal
<1>4. CountN
  BY <1>1, <1>2, LimitAssumption, DeadlineAssumption
  DEF CountN, Starting, BeforeCall, NoGraph
<1>5. ReadN
  BY <1>1
  DEF ReadN, Observed, Reads, Fresh, NoGraph, Starting, SuccessfulReadOnce
<1> QED BY <1>3, <1>4, <1>5 DEF NominalInv

-----------------------------------------------------------------------------
(* What nominal states have in common.                                     *)

LEMMA LogTypes ==
  ASSUME LInv
  PROVE  /\ log \in Seq(Events) /\ Len(log) \in Nat
         /\ todo \in Seq(Ops) /\ Len(todo) \in Nat
         /\ run.status \in Statuses /\ run.updated \in Nat
         /\ run.steps \in Nat /\ run.calls \in Nat /\ run.cursor \in Nat
         /\ now \in Nat /\ seen \in Nat /\ mem \in Graphs /\ ckpt \in Graphs
  BY DEF LInv, IInv, TypeOK, RunRecords

LEMMA StartedNat ==
  ASSUME LInv
  PROVE  /\ Started \in Nat
         /\ IsFiniteSet({i \in 1..Len(log) : log[i].type = "tool.started"})
<1> DEFINE S == {i \in 1..Len(log) : log[i].type = "tool.started"}
<1>1. IsFiniteSet(1..Len(log)) /\ S \subseteq 1..Len(log)
  BY LogTypes, FS_Interval
<1>2. IsFiniteSet(S)
  BY <1>1, FS_Subset
<1> QED BY <1>2, FS_CardinalityType DEF Started

LEMMA StartedGrows ==
  ASSUME LInv, NEW e, log' = Append(log, e)
  PROVE  Started' = IF e.type = "tool.started" THEN Started + 1 ELSE Started
<1> DEFINE S == {i \in 1..Len(log) : log[i].type = "tool.started"}
           T == {i \in 1..Len(log') : log'[i].type = "tool.started"}
<1>1. PICK n : n = Len(log) + 1
  OBVIOUS
<1>2. n \notin S /\ T = IF e.type = "tool.started" THEN S \cup {n} ELSE S
  BY <1>1, LogGrows
<1>3. IsFiniteSet(S)
  BY StartedNat
<1> HIDE DEF S, T
<1>4. Cardinality(S \cup {n}) = Cardinality(S) + 1
  BY <1>2, <1>3, FS_AddElement
<1>5. Started = Cardinality(S) /\ Started' = Cardinality(T)
  BY DEF Started, S, T
<1> QED BY <1>2, <1>4, <1>5

LEMMA StartedSame == ASSUME log' = log PROVE Started' = Started
  BY DEF Started

\* A nominal record is inside the bounds load checks.
LEMMA CanLoad == ASSUME LInv, CountN PROVE Loadable
<1>1. run.calls <= MaxToolCalls
  BY LogTypes, StartedNat, LimitAssumption DEF CountN
<1> QED BY <1>1, LogTypes, LimitAssumption, FieldAssumption, DeadlineAssumption
    DEF CountN, Loadable

\* At an await.
LEMMA AtRest ==
  ASSUME LInv, NominalInv, todo = << >>
  PROVE  /\ Loadable /\ run.calls = Started /\ Started \in Nat
         /\ ~Starting /\ Due = Started
         /\ \A X : ~Last(todo, X)
         /\ run.status = "waiting_approval" => mem.node = "approve"
         /\ mem.node \notin {"none", "receive"} => log # << >> \/ IsTerminal
         /\ run.status = "created" => log = << >>
         /\ task # "dying"
<1>1. ~Moving /\ ~Starting /\ \A X : ~Last(todo, X)
  BY DEF Moving, Starting, Last
<1> QED BY <1>1, CanLoad, StartedNat
    DEF NominalInv, CountN, TaskN, LogN, Due

-----------------------------------------------------------------------------
(* The durable writes of a nominal run.                                    *)

StoreWrite ==
    StoreEvent(Head(todo)) \/ StoreCursor(Head(todo)) \/ StoreMove(Head(todo))

LEMMA WriteQueue ==
  ASSUME LInv, todo # << >>, StoreWrite
  PROVE  /\ Len(todo) \in Nat \ {0} /\ todo' = Tail(todo)
         /\ Len(todo') = Len(todo) - 1 /\ Len(todo') \in Nat
         /\ \A i \in 1..Len(todo') :
              i + 1 \in 1..Len(todo) /\ todo'[i] = todo[i + 1]
         /\ 1 \in 1..Len(todo)
         /\ UNCHANGED <<mem, ckpt, phase, seen, by, up>>
         /\ todo[1].op \in {"event", "cursor", "move"}
         /\ IF task = "dying" /\ by = "task" /\ Len(todo) = 1
              THEN task' = "none" ELSE task' = task
<1>1. todo \in Seq(Ops) /\ todo' = Tail(todo) /\ todo' \in Seq(Ops)
  BY WriteLeft, LogTypes DEF StoreWrite, StoreEvent, StoreCursor, StoreMove, AfterWrite
<1>2. /\ UNCHANGED <<mem, ckpt, phase, seen, by, up>>
      /\ todo[1].op \in {"event", "cursor", "move"}
  BY <1>1, WriteLeft
  DEF StoreWrite, StoreEvent, StoreCursor, StoreMove, worldVars
<1>3. task' = IF task = "dying" /\ by = "task" /\ Len(todo) = 1
                THEN "none" ELSE task
  BY DEF StoreWrite, StoreEvent, StoreCursor, StoreMove, AfterWrite
<1> QED BY <1>1, <1>2, <1>3, WriteLeft

LEMMA WriteOfEvent ==
  ASSUME LInv, todo # << >>, StoreWrite, todo[1].op = "event"
  PROVE  /\ ~IsTerminal /\ run' = run
         /\ \E e : /\ log' = Append(log, e)
                   /\ e.type = todo[1].name /\ e.call = todo[1].call
                   /\ e.ok = todo[1].ok
         /\ todo' # << >> /\ todo'[1].op = "cursor"
<1>1. StoreEvent(Head(todo)) /\ Head(todo) = todo[1]
  BY LogTypes, WriteLeft DEF StoreWrite, StoreCursor, StoreMove
<1>2. todo' # << >> /\ todo'[1].op = "cursor"
  BY WriteQueue, LeftPaired
<1>3. log' = Append(log, [type |-> todo[1].name, call |-> todo[1].call,
                          ok |-> todo[1].ok])
  BY <1>1 DEF StoreEvent, WriteEvent, AddLine
<1> QED BY <1>1, <1>2, <1>3 DEF StoreEvent, WriteEvent, CanAppend

LEMMA WriteOfCursor ==
  ASSUME LInv, todo # << >>, StoreWrite, todo[1].op = "cursor"
  PROVE  /\ log' = log /\ run'.updated = todo[1].at
         /\ run'.status = run.status /\ run'.steps = run.steps
         /\ run'.calls = run.calls
<1>1. StoreCursor(Head(todo)) /\ Head(todo) = todo[1] /\ run \in RunRecords
  BY LogTypes, WriteLeft DEF StoreWrite, StoreEvent, StoreMove, LInv, IInv, TypeOK
<1> QED BY <1>1 DEF StoreCursor, AdvanceCursor, RunRecords, logVars

LEMMA WriteOfMove ==
  ASSUME LInv, todo # << >>, StoreWrite, todo[1].op = "move"
  PROVE  /\ ~IsTerminal /\ log' = log /\ run'.updated = todo[1].at
         /\ run'.status = todo[1].name /\ run'.steps = todo[1].steps
         /\ run'.calls = todo[1].calls
         /\ todo[1].name \in Terminal \cup {"running", "waiting_approval"}
         /\ todo[1].name = "waiting_approval" => mem.node = "approve"
<1>1. /\ StoreMove(Head(todo)) /\ Head(todo) = todo[1] /\ run \in RunRecords
      /\ 1 \in 1..Len(todo)
  BY LogTypes, WriteLeft, WriteQueue
  DEF StoreWrite, StoreEvent, StoreCursor, LInv, IInv, TypeOK
<1>2. MoveOK(1)
  BY <1>1 DEF LInv, IInv, ScriptInv
<1> QED BY <1>1, <1>2
    DEF StoreMove, Transition, CanTransition, RunRecords, MoveOK, Terminal, logVars

LEMMA LastLeft ==
  ASSUME LInv, todo # << >>, StoreWrite, NEW X, Last(todo, X)
  PROVE  \/ Last(todo', X)
         \/ Len(todo) = 1 /\ todo[1].op = "move" /\ run'.status \in X
<1>1. CASE Len(todo) = 1
  BY <1>1, WriteOfMove DEF Last
<1>2. CASE Len(todo) # 1
  <2>1. PICK k : k = Len(todo')
    OBVIOUS
  <2>2. k \in 1..Len(todo') /\ k + 1 = Len(todo)
    BY <1>2, <2>1, WriteQueue
  <2>3. todo'[k] = todo[Len(todo)] /\ todo' # << >>
    BY <2>1, <2>2, WriteQueue
  <2> QED BY <2>1, <2>3 DEF Last
<1> QED BY <1>1, <1>2

LEMMA DueKept ==
  ASSUME LInv, QueueN, todo # << >>, StoreWrite
  PROVE  /\ Due' = Due /\ ~Starting'
         /\ Started' = IF Starting THEN Started + 1 ELSE Started
<1>1. ~Starting'
  <2>1. CASE todo[1].op = "event"
    BY <2>1, WriteOfEvent DEF Starting
  <2>2. CASE todo[1].op # "event"
    <3> SUFFICES ASSUME Starting' PROVE FALSE
      OBVIOUS
    <3>1. 1 \in 1..Len(todo')
      BY WriteQueue DEF Starting
    <3>2. 2 \in 1..Len(todo) /\ todo'[1] = todo[2]
      BY <3>1, WriteQueue
    <3> QED BY <3>2 DEF QueueN, QueueAt, Starting
  <2> QED BY <2>1, <2>2
<1>2. Started' = IF Starting THEN Started + 1 ELSE Started
  <2>1. CASE todo[1].op = "event"
    BY <2>1, WriteOfEvent, StartedGrows DEF Starting
  <2>2. CASE todo[1].op # "event"
    BY <2>2, WriteQueue, WriteOfCursor, WriteOfMove, StartedSame DEF Starting
  <2> QED BY <2>1, <2>2
<1> QED BY <1>1, <1>2 DEF Due

LEMMA QueueWrite ==
  ASSUME LInv, NominalInv, todo # << >>, StoreWrite PROVE QueueN'
<1> SUFFICES ASSUME NEW n \in 1..Len(todo') PROVE QueueAt(n)'
  BY DEF QueueN
<1>1. /\ n + 1 \in 1..Len(todo) /\ todo'[n] = todo[n + 1]
      /\ n \in Nat \ {0} /\ n + 1 # 1
  BY WriteQueue
<1>2. QueueAt(n + 1)
  BY <1>1 DEF NominalInv, QueueN
<1>3. Due' = Due /\ mem' = mem /\ (task = "graph" => task' = "graph")
  BY DueKept, WriteQueue DEF NominalInv
<1>4. todo'[n].op = "event" /\ todo'[n].name \in Outcomes
        => n + 2 = Len(todo') /\ Last(todo', Terminal)
  <2> SUFFICES ASSUME todo'[n].op = "event", todo'[n].name \in Outcomes
               PROVE  n + 2 = Len(todo') /\ Last(todo', Terminal)
    OBVIOUS
  <2>1. (n + 1) + 2 = Len(todo) /\ Last(todo, Terminal)
    BY <1>1, <1>2 DEF QueueAt
  <2>2. Len(todo) # 1 /\ n + 2 = Len(todo')
    BY <1>1, <2>1, WriteQueue
  <2> QED BY <2>1, <2>2, LastLeft
<1>5. todo'[n].op = "event" /\ todo'[n].name = "run.started"
        => n = 1 /\ log' = << >> /\ run'.status # "created"
  <2> SUFFICES ASSUME todo'[n].op = "event", todo'[n].name = "run.started"
               PROVE  n = 1 /\ log' = << >> /\ run'.status # "created"
    OBVIOUS
  <2>1. log = << >> /\ n + 1 = 2 /\ todo[1].op = "move"
    BY <1>1, <1>2 DEF QueueAt
  <2> QED BY <1>1, <2>1, WriteOfMove DEF Terminal
<1>6. todo'[n].op = "event" /\ log' = << >> /\ ~IsTerminal'
        => todo'[n].name \in {"run.started", "run.failed"}
  <2> SUFFICES ASSUME todo'[n].op = "event", log' = << >>, ~IsTerminal'
               PROVE  todo'[n].name \in {"run.started", "run.failed"}
    OBVIOUS
  <2>1. todo[1].op # "event"
    BY WriteOfEvent, LogTypes, LogGrows
  <2>2. log = << >> /\ ~IsTerminal
    BY <2>1, WriteQueue, WriteOfCursor, WriteOfMove DEF IsTerminal
  <2> QED BY <1>1, <1>2, <2>2 DEF QueueAt
<1> QED BY <1>1, <1>2, <1>3, <1>4, <1>5, <1>6 DEF QueueAt

LEMMA CountWrite ==
  ASSUME LInv, NominalInv, todo # << >>, StoreWrite PROVE CountN'
<1>1. QueueAt(1) /\ CountN
  BY WriteQueue DEF NominalInv, QueueN
<1>2. /\ ~Starting'
      /\ Started' = IF Starting THEN Started + 1 ELSE Started
      /\ Started \in Nat /\ MaxToolCalls \in Nat
  BY DueKept, StartedNat, LimitAssumption DEF NominalInv
<1>3. /\ UNCHANGED <<mem, phase, seen>>
      /\ task' = "graph" => task = "graph"
  BY WriteQueue
<1>4. Starting => ~(/\ mem.node = "call" /\ task = "graph" /\ phase = "none")
  BY <1>1 DEF CountN
<1>5. Starting => mem.node = "call"
  BY <1>1 DEF CountN, LInv, IInv, TaskInv
<1>6. ASSUME todo[1].op # "move", Moving PROVE Moving'
  <2>1. PICK i \in 1..Len(todo) : todo[i].op = "move"
    BY <1>6 DEF Moving
  <2>2. PICK k : k = i - 1
    OBVIOUS
  <2>3. k \in 1..Len(todo') /\ todo'[k] = todo[i]
    BY <1>6, <2>1, <2>2, WriteQueue
  <2> QED BY <2>1, <2>3 DEF Moving
<1>7. /\ Started' <= MaxToolCalls
      /\ BeforeCall' => Started' < MaxToolCalls
  BY <1>1, <1>2, <1>3, <1>4, <1>5 DEF CountN, BeforeCall
<1>8. CASE todo[1].op = "event"
  <2>1. run' = run /\ ~IsTerminal
    BY <1>8, WriteOfEvent
  <2>2. CASE Starting
    BY <1>1, <1>2, <1>3, <1>6, <1>7, <1>8, <2>1, <2>2, LogTypes
    DEF CountN, IsTerminal
  <2>3. CASE ~Starting
    BY <1>1, <1>2, <1>3, <1>6, <1>7, <1>8, <2>1, <2>3, LogTypes
    DEF CountN, IsTerminal
  <2> QED BY <2>2, <2>3
<1>9. CASE todo[1].op = "cursor"
  <2>1. ~Starting
    BY <1>9 DEF Starting
  <2> QED BY <1>1, <1>2, <1>3, <1>6, <1>7, <1>9, <2>1, LogTypes, WriteOfCursor
      DEF CountN, IsTerminal, QueueAt
<1>10. CASE todo[1].op = "move"
  <2>1. ~Starting
    BY <1>10 DEF Starting
  <2>2. run'.calls = Started
    BY <1>1, <1>10, <2>1, WriteOfMove DEF QueueAt, Due
  <2> QED BY <1>1, <1>2, <1>3, <1>7, <1>10, <2>1, <2>2, WriteOfMove
      DEF CountN, QueueAt
<1> QED BY <1>8, <1>9, <1>10, WriteQueue

LEMMA TaskWrite ==
  ASSUME LInv, NominalInv, todo # << >>, StoreWrite PROVE TaskN'
<1>1. QueueAt(1) /\ TaskN
  BY WriteQueue DEF NominalInv, QueueN
<1>2. /\ UNCHANGED <<mem, ckpt, by, up>>
      /\ task = "dying" /\ Len(todo) = 1 => task' = "none"
      /\ task' # task => task = "dying" /\ task' = "none" /\ Len(todo) = 1
  BY <1>1, WriteQueue DEF TaskN
<1>3. \A X : Last(todo, X) =>
        \/ Last(todo', X)
        \/ Len(todo) = 1 /\ todo[1].op = "move" /\ run'.status \in X
  BY LastLeft
<1>4. CASE todo[1].op # "move"
  <2>1. run'.status = run.status /\ \A X : Last(todo, X) => Last(todo', X)
    BY <1>3, <1>4, WriteQueue, WriteOfEvent, WriteOfCursor
  <2>2. task' = task
    BY <1>1, <1>2, <1>4 DEF TaskN, Last
  <2> QED BY <1>1, <1>2, <2>1, <2>2 DEF TaskN, IsTerminal
<1>5. CASE todo[1].op = "move"
  <2>1. /\ run'.status = todo[1].name /\ ~IsTerminal
        /\ run'.status \in Terminal \cup {"running", "waiting_approval"}
        /\ run'.status = "waiting_approval" => mem.node = "approve"
    BY <1>5, WriteOfMove
  <2>2. run'.status \notin Terminal =>
          /\ task = "graph" /\ task' = "graph"
          /\ mem.node \notin {"none", "receive"}
          /\ run'.status = "running" => mem.node # "approve"
    BY <1>1, <1>2, <1>5, <2>1 DEF QueueAt
  <2>3. CASE run'.status \in Terminal
    <3>1. task' = "dying" => Last(todo', Terminal)
      BY <1>1, <1>2, <1>3 DEF TaskN
    <3>2. run'.status # "waiting_approval" /\ IsTerminal'
      BY <2>3 DEF Terminal, IsTerminal
    <3> QED BY <1>1, <1>2, <3>1, <3>2 DEF TaskN
  <2>4. CASE run'.status \notin Terminal
    <3>1. mem.node = "end" => Last(todo', Terminal)
      BY <1>1, <1>3, <2>1, <2>2, <2>4 DEF TaskN
    <3> QED BY <1>1, <1>2, <2>1, <2>2, <2>4, <3>1 DEF TaskN
  <2> QED BY <2>3, <2>4
<1> QED BY <1>4, <1>5

LEMMA LogWrite ==
  ASSUME LInv, NominalInv, todo # << >>, StoreWrite PROVE LogN'
<1>1. QueueAt(1) /\ LogN
  BY WriteQueue DEF NominalInv, QueueN
<1>2. \A X : Last(todo, X) => Last(todo', X) \/ run'.status \in X
  BY LastLeft
<1>3. mem' = mem
  BY WriteQueue
<1>4. CASE todo[1].op = "event"
  <2>1. PICK e : /\ log' = Append(log, e)
                 /\ e.type = todo[1].name /\ e.call = todo[1].call
    BY <1>4, WriteOfEvent
  <2>2. /\ Len(log') = Len(log) + 1 /\ log'[Len(log) + 1] = e
        /\ Len(log) \in Nat /\ \A i \in 1..Len(log) : log'[i] = log[i]
    BY <2>1, LogGrows
  <2>3. /\ ~IsTerminal /\ ~IsTerminal' /\ run' = run
        /\ \A X : Last(todo, X) => Last(todo', X)
    <3>1. ~IsTerminal /\ run' = run
      BY <1>4, WriteOfEvent
    <3>2. \A X : Last(todo, X) => Last(todo', X)
      BY <1>4, LastLeft
    <3> QED BY <3>1, <3>2 DEF IsTerminal
  <2>4. \A i \in 1..Len(log) : log[i].type \notin Outcomes
    BY <1>1, <1>4, <2>3, WriteQueue DEF LogN
  <2>5. log = << >> => e.type \in {"run.started", "run.failed"}
    BY <1>1, <1>4, <2>1, <2>3 DEF QueueAt
  <2>6. e.type = "run.started" => log = << >> /\ run.status # "created"
    BY <1>1, <1>4, <2>1 DEF QueueAt
  <2>7. e.type \in Outcomes =>
          /\ Last(todo', Terminal)
          /\ \A n \in 1..Len(todo') : todo'[n].op # "event"
    <3> SUFFICES ASSUME e.type \in Outcomes
                 PROVE  /\ Last(todo', Terminal)
                        /\ \A n \in 1..Len(todo') : todo'[n].op # "event"
      OBVIOUS
    <3>1. 1 + 2 = Len(todo) /\ Last(todo, Terminal)
      BY <1>1, <1>4, <2>1 DEF QueueAt
    <3>2. Last(todo', Terminal) /\ todo'[1].op = "cursor"
      BY <1>4, <2>3, <3>1, WriteOfEvent
    <3>3. Len(todo') = 2
      BY <3>1, WriteQueue
    <3>4. todo'[2].op = "move"
      BY <3>2, <3>3 DEF Last
    <3> QED BY <3>2, <3>3, <3>4
  <2>8. run'.status = "created" => Last(todo', Terminal)
    <3>1. CASE log = << >>
      BY <2>3, <2>5, <2>6, <2>7, <3>1 DEF Outcomes
    <3>2. CASE log # << >>
      BY <1>1, <2>3, <3>2 DEF LogN
    <3> QED BY <3>1, <3>2
  <2>9. log' # << >> /\ log'[1].type \in {"run.started", "run.failed"}
    <3>1. CASE log = << >>
      BY <2>2, <2>5, <3>1
    <3>2. CASE log # << >>
      <4>1. 1 \in 1..Len(log) /\ log[1].type \in {"run.started", "run.failed"}
        BY <1>1, <3>2, LogTypes DEF LogN
      <4> QED BY <2>2, <4>1
    <3> QED BY <3>1, <3>2
  <2>10. ASSUME NEW i \in 1..Len(log')
         PROVE  /\ log'[i].type = "run.started" => i = 1
                /\ log'[i].type \in Outcomes =>
                     /\ i = Len(log') /\ Last(todo', Terminal)
                     /\ \A n \in 1..Len(todo') : todo'[n].op # "event"
    <3>1. CASE i \in 1..Len(log)
      BY <1>1, <2>2, <2>4, <3>1 DEF LogN
    <3>2. CASE i = Len(log) + 1
      <4>1. e.type = "run.started" => i = 1
        BY <2>6, <3>2
      <4> QED BY <2>2, <2>7, <3>2, <4>1
    <3> QED BY <2>2, <3>1, <3>2
  <2> QED BY <2>8, <2>9, <2>10 DEF LogN
<1>5. CASE todo[1].op # "event"
  <2>1. /\ log' = log
        /\ run'.status = run.status \/ run'.status # "created"
        /\ ~IsTerminal \/ IsTerminal'
        /\ ~IsTerminal' => ~IsTerminal
    BY <1>5, WriteQueue, WriteOfCursor, WriteOfMove DEF IsTerminal, Terminal
  <2>2. Last(todo, Terminal) => Last(todo', Terminal) \/ IsTerminal'
    BY <1>2 DEF IsTerminal
  <2>3. run'.status = "created" => ~IsTerminal'
    BY DEF IsTerminal, Terminal
  <2>4. (\A n \in 1..Len(todo) : todo[n].op # "event")
          => \A n \in 1..Len(todo') : todo'[n].op # "event"
    BY WriteQueue
  <2>5. ASSUME NEW n \in 1..Len(todo), todo[n].op = "event",
               todo[n].name = "run.started"
        PROVE  \E k \in 1..Len(todo') :
                 todo'[k].op = "event" /\ todo'[k].name = "run.started"
    <3>1. PICK k : k = n - 1
      OBVIOUS
    <3>2. k \in 1..Len(todo') /\ todo'[k] = todo[n]
      BY <1>5, <2>5, <3>1, WriteQueue
    <3> QED BY <2>5, <3>2
  <2>6. run'.status = "created" => log' = << >> \/ Last(todo', Terminal)
    BY <1>1, <2>1, <2>2, <2>3 DEF LogN
  <2>7. \A i \in 1..Len(log') :
          /\ log'[i].type = "run.started" => i = 1
          /\ log'[i].type \in Outcomes =>
               /\ i = Len(log')
               /\ \/ IsTerminal'
                  \/ /\ Last(todo', Terminal)
                     /\ \A n \in 1..Len(todo') : todo'[n].op # "event"
    BY <1>1, <2>1, <2>2, <2>4 DEF LogN
  <2>8. log' = << >> /\ ~IsTerminal' /\ mem'.node \notin {"none", "receive"}
          => \E k \in 1..Len(todo') :
               todo'[k].op = "event" /\ todo'[k].name = "run.started"
    BY <1>1, <1>3, <2>1, <2>5 DEF LogN
  <2> QED BY <1>1, <2>1, <2>6, <2>7, <2>8 DEF LogN
<1> QED BY <1>4, <1>5

LEMMA ReadWrite ==
  ASSUME LInv, NominalInv, todo # << >>, StoreWrite PROVE ReadN'
<1>1. QueueN /\ ReadN /\ mem' = mem
  BY WriteQueue DEF NominalInv
<1>2. ~Starting' /\ Reads(todo', mem.done)
  <2>1. ASSUME NEW n \in 1..Len(todo'),
               todo'[n].op = "event", todo'[n].name = "tool.completed"
        PROVE  /\ todo'[n].call \in Calls
               /\ todo'[n].ok /\ todo'[n].call \notin ApprovalCalls
                    => Sig[todo'[n].call] \in mem.done
    <3>1. n + 1 \in 1..Len(todo) /\ todo'[n] = todo[n + 1]
      BY WriteQueue
    <3> QED BY <1>1, <2>1, <3>1 DEF ReadN, Reads
  <2>2. Reads(todo', mem.done)
    BY <2>1 DEF Reads
  <2> QED BY <1>1, <2>2, DueKept
<1>3. CASE todo[1].op = "event"
  <2>1. PICK e : /\ log' = Append(log, e)
                 /\ e.type = todo[1].name /\ e.call = todo[1].call
                 /\ e.ok = todo[1].ok
    BY <1>3, WriteOfEvent
  <2>2. /\ Len(log') = Len(log) + 1 /\ log'[Len(log) + 1] = e
        /\ Len(log) \in Nat /\ \A i \in 1..Len(log) : log'[i] = log[i]
    BY <2>1, LogGrows
  <2>3. ASSUME NEW d \in Calls \ ApprovalCalls, NEW i \in 1..Len(log'),
               log'[i].type = "tool.completed", log'[i].call = d, log'[i].ok
        PROVE  Sig[d] \in mem.done
    <3>1. CASE i \in 1..Len(log)
      <4>1. log[i].type = "tool.completed" /\ log[i].call = d /\ log[i].ok
        BY <2>2, <2>3, <3>1
      <4>2. Sig[d] \in Observed
        BY <3>1, <4>1 DEF Observed
      <4> QED BY <1>1, <4>2 DEF ReadN
    <3>2. CASE i = Len(log) + 1
      <4>1. /\ todo[1].name = "tool.completed" /\ todo[1].call = d
            /\ todo[1].ok /\ 1 \in 1..Len(todo)
        BY <2>1, <2>2, <2>3, <3>2, WriteQueue
      <4> QED BY <1>1, <1>3, <4>1 DEF ReadN, Reads
    <3> QED BY <2>2, <3>1, <3>2
  <2>4. Observed' \subseteq mem.done
    BY <2>3 DEF Observed
  <2>5. ASSUME NEW i \in 1..Len(log'), NEW j \in 1..Len(log'), i < j,
               log'[i].type = "tool.completed", log'[i].ok,
               log'[j].type = "tool.started",
               log'[i].call \notin ApprovalCalls,
               log'[j].call \notin ApprovalCalls
        PROVE  Sig[log'[i].call] # Sig[log'[j].call]
    <3>1. i \in 1..Len(log) /\ log'[i] = log[i]
      BY <2>2, <2>5
    <3>2. CASE j \in 1..Len(log)
      <4>1. log'[j] = log[j]
        BY <2>2, <3>2
      <4> QED BY <1>1, <2>5, <3>1, <3>2, <4>1 DEF ReadN, SuccessfulReadOnce
    <3>3. CASE j = Len(log) + 1
      <4>1. log'[j] = e /\ Starting /\ todo[1].call = log'[j].call
        BY <1>3, <2>1, <2>2, <2>5, <3>3 DEF Starting
      <4>2. log[i].call \in Calls
        BY <1>1, <2>5, <3>1 DEF ReadN
      <4>3. Sig[log[i].call] \in Observed
        BY <2>5, <3>1, <4>2 DEF Observed
      <4> QED BY <1>1, <2>5, <3>1, <4>1, <4>3 DEF ReadN
    <3> QED BY <2>2, <3>2, <3>3
  <2>6. SuccessfulReadOnce'
    BY <2>5 DEF SuccessfulReadOnce
  <2>7. ASSUME NEW i \in 1..Len(log'), log'[i].type = "tool.completed"
        PROVE  log'[i].call \in Calls
    <3>1. CASE i \in 1..Len(log)
      BY <1>1, <2>2, <2>7, <3>1 DEF ReadN
    <3>2. CASE i = Len(log) + 1
      BY <1>1, <1>3, <2>1, <2>2, <2>7, <3>2, WriteQueue DEF ReadN, Reads
    <3> QED BY <2>2, <3>1, <3>2
  <2> QED BY <1>1, <1>2, <2>4, <2>6, <2>7 DEF ReadN
<1>4. CASE todo[1].op # "event"
  <2>1. log' = log
    BY <1>4, WriteQueue, WriteOfCursor, WriteOfMove
  <2> QED BY <1>1, <1>2, <2>1 DEF ReadN, Observed, SuccessfulReadOnce
<1> QED BY <1>3, <1>4

\* An ended run keeps what holds of it when a handler drops its writes.
LEMMA EndedRest ==
  ASSUME LInv, NominalInv, IsTerminal, todo' = << >>,
         UNCHANGED <<run, log, mem, ckpt, up, seen>>,
         task' = "none" \/ (task # "dying" /\ UNCHANGED <<task, phase>>),
         phase' \in {phase, "none"}
  PROVE  NominalInv'
<1>1. /\ ~Starting' /\ Started' = Started /\ IsTerminal'
      /\ QueueN /\ CountN /\ TaskN /\ LogN /\ ReadN
  BY StartedSame DEF NominalInv, Starting, IsTerminal
<1>2. QueueN'
  BY DEF QueueN
<1>3. CountN'
  BY <1>1 DEF CountN, BeforeCall
<1>4. TaskN'
  BY <1>1 DEF TaskN, IsTerminal, Terminal
<1>5. LogN'
  BY <1>1 DEF LogN, IsTerminal, Terminal
<1>6. ReadN'
  BY <1>1 DEF ReadN, Reads, Observed, SuccessfulReadOnce
<1> QED BY <1>2, <1>3, <1>4, <1>5, <1>6 DEF NominalInv

\* In a nominal run the store refuses a write of an ended run only.
LEMMA StoreRaisesNominal ==
  ASSUME LInv, NominalInv, WholeN, todo # << >>, StoreRaises(Head(todo))
  PROVE  NominalInv'
<1>1. /\ Loadable /\ run.cursor <= Len(log) /\ 1 \in 1..Len(todo)
      /\ Head(todo) = todo[1]
  BY CanLoad, WriteLeft, LogTypes DEF NominalInv, LInv, CursorInv
<1>2. todo[1].at <= Deadline
  BY <1>1 DEF NominalInv, QueueN, QueueAt
<1>3. IsTerminal
  BY <1>1, <1>2 DEF StoreRaises, CanAppend, CanTransition, Readable, WholeN
<1>4. CASE by = "task" /\ task # "dying"
  <2>1. Raise
    BY <1>4 DEF StoreRaises
  <2> QED BY <1>3, <2>1, EndedRest DEF Raise, storeVars, logVars, worldVars
<1>5. CASE ~(by = "task" /\ task # "dying")
  <2>1. /\ todo' = << >> /\ task' = IF by = "task" THEN "none" ELSE task
        /\ UNCHANGED <<run, log, mem, ckpt, up, seen, phase>>
    BY <1>5 DEF StoreRaises, WholeN, storeVars, logVars, worldVars
  <2>2. by # "task" => task # "dying"
    BY DEF NominalInv, TaskN
  <2> QED BY <1>3, <2>1, <2>2, EndedRest
<1> QED BY <1>4, <1>5

LEMMA StoreStepNominal ==
  ASSUME LInv, NominalInv, WholeN, StoreStep PROVE NominalInv'
<1>1. todo # << >>
  BY DEF StoreStep
<1>2. CASE StoreWrite
  BY <1>1, <1>2, QueueWrite, CountWrite, TaskWrite, LogWrite, ReadWrite
  DEF NominalInv
<1>3. CASE StoreRaises(Head(todo))
  BY <1>1, <1>3, StoreRaisesNominal
<1> QED BY <1>2, <1>3 DEF StoreStep, StoreWrite

-----------------------------------------------------------------------------
(* The scripts of a nominal run.                                           *)

\* What a handler may queue that starts neither the run nor a call.
Calm(s) ==
    \A n \in 1..Len(s) :
        /\ s[n].at <= Deadline
        /\ s[n].op = "move" => s[n].steps <= MaxSteps /\ s[n].calls = Started
        /\ s[n].op = "event" =>
             /\ s[n].name \notin {"tool.started", "run.started"}
             /\ s[n].name \in Outcomes => n + 2 = Len(s) /\ Last(s, Terminal)
Failing(s) == \A n \in 1..Len(s) :
                  /\ s[n].op = "event" => s[n].name = "run.failed"
                  /\ s[n].op = "move" => s[n].name \in Terminal

LEMMA NothingQueued ==
  /\ Calm(<< >>) /\ Failing(<< >>) /\ \A X : ~Last(<< >>, X)
  /\ \A D : Reads(<< >>, D)
  BY DEF Calm, Failing, Last, Reads

LEMMA FailureQueued ==
  ASSUME LInv, NominalInv, todo = << >>, now <= Deadline,
         NEW s \in {FailOps, ExpireOps}
  PROVE  /\ Calm(s) /\ Failing(s) /\ Last(s, Terminal)
         /\ \A D : Reads(s, D)
<1>1. /\ run.steps <= MaxSteps /\ run.calls = Started
      /\ now <= Deadline /\ Deadline <= Deadline
  BY AtRest, DeadlineAssumption DEF NominalInv, CountN
<1>2. /\ Len(s) = 3 /\ s # << >>
      /\ s[1].op = "event" /\ s[1].name = "run.failed" /\ s[1].at <= Deadline
      /\ s[2].op = "cursor" /\ s[2].at <= Deadline
      /\ s[3].op = "move" /\ s[3].name \in Terminal /\ s[3].at <= Deadline
      /\ s[3].steps = run.steps /\ s[3].calls = run.calls
  BY <1>1 DEF FailOps, ExpireOps, Put, Keep, Move, Op, Terminal
<1>3. Last(s, Terminal)
  BY <1>2 DEF Last
<1> QED BY <1>1, <1>2, <1>3 DEF Calm, Failing, Reads

LEMMA MoveQueued ==
  ASSUME LInv, NEW name \in Statuses, NEW c, NEW steps, steps <= MaxSteps,
         NEW t, t <= Deadline, NEW s, s = Move(name, c, steps, Started, t)
  PROVE  /\ Calm(s) /\ Last(s, {name}) /\ \A D : Reads(s, D)
         /\ \A n \in 1..Len(s) : s[n].op = "move" /\ s[n].name = name
<1>1. /\ Len(s) = 1 /\ s # << >> /\ s[1].op = "move" /\ s[1].name = name
      /\ s[1].at = t /\ s[1].steps = steps /\ s[1].calls = Started
  BY DEF Move, Op
<1> QED BY <1>1 DEF Calm, Last, Reads

-----------------------------------------------------------------------------
(* The handlers of a nominal run: the parts of the invariant.              *)

LEMMA CalmQueue ==
  ASSUME LInv, NominalInv, todo = << >>, run' = run, log' = log,
         todo' \in Seq(Ops), Calm(todo'),
         \A n \in 1..Len(todo') :
           todo'[n].op = "move" /\ todo'[n].name \notin Terminal
             => /\ task' = "graph" /\ mem'.node \notin {"none", "receive"}
                /\ todo'[n].name = "running" => mem'.node # "approve",
         log = << >> /\ ~IsTerminal => Failing(todo')
  PROVE  QueueN' /\ ~Starting' /\ Started' = Started
<1>1. Started' = Started /\ IsTerminal' = IsTerminal
  BY StartedSame DEF IsTerminal
<1>2. ~Starting'
  <2> SUFFICES ASSUME Starting' PROVE FALSE
    OBVIOUS
  <2>1. todo' # << >> /\ todo'[1].op = "event" /\ todo'[1].name = "tool.started"
    BY DEF Starting
  <2>2. 1 \in 1..Len(todo')
    BY <2>1
  <2> QED BY <2>1, <2>2 DEF Calm
<1>3. Due' = Started
  BY <1>1, <1>2 DEF Due
<1> SUFFICES ASSUME NEW n \in 1..Len(todo') PROVE QueueAt(n)'
  BY <1>1, <1>2 DEF QueueN
<1> QED BY <1>1, <1>3 DEF QueueAt, Calm, Failing

LEMMA RestCount ==
  ASSUME LInv, NominalInv, todo = << >>, run' = run, log' = log, ~Starting',
         phase' = "model" => seen' < MaxSteps,
         BeforeCall' => Started < MaxToolCalls
  PROVE  CountN'
<1>1. Started' = Started
  BY StartedSame
<1> QED BY <1>1, AtRest DEF NominalInv, CountN

LEMMA RestLog ==
  ASSUME LInv, NominalInv, todo = << >>, run' = run, log' = log,
         log = << >> /\ ~IsTerminal /\ mem'.node \notin {"none", "receive"}
           => \E n \in 1..Len(todo') :
                todo'[n].op = "event" /\ todo'[n].name = "run.started"
  PROVE  LogN'
<1>1. IsTerminal' = IsTerminal /\ \A X : ~Last(todo, X)
  BY AtRest DEF IsTerminal
<1> QED BY <1>1 DEF NominalInv, LogN

LEMMA RestRead ==
  ASSUME NominalInv, log' = log, ~Starting', Observed \subseteq mem'.done,
         Reads(todo', mem'.done), Fresh(mem')
  PROVE  ReadN'
  BY DEF NominalInv, ReadN, Observed, SuccessfulReadOnce, Fresh, Reads

\* The graph is never between its start and its first event at an await.
LEMMA NodeN ==
  ASSUME LInv, NominalInv, Quiet, task = "graph",
         mem.node \notin {"none", "receive"},
         NEW ops \in Seq(Ops), Calm(ops), NEW g, Node(ops, g),
         g.node \notin {"none", "receive"},
         g.node = "end" => Last(ops, Terminal),
         g.node = "approve"
           => /\ Last(ops, {"waiting_approval"})
              /\ \A n \in 1..Len(ops) :
                   ops[n].op = "move" => ops[n].name # "running",
         mem.node = "approve" => Last(ops, Terminal \cup {"running"}),
         g.node \in {"approve", "call"} => Started < MaxToolCalls,
         Observed \subseteq g.done, Reads(ops, g.done), Fresh(g)
  PROVE  NominalInv'
<1>1. /\ todo = << >> /\ up /\ up' /\ run' = run /\ log' = log /\ ckpt' = ckpt
      /\ task' = "graph" /\ mem' = g /\ phase' = "none" /\ todo' = ops
  BY DEF Quiet, Node, storeVars, logVars, worldVars
<1>2. log # << >> \/ IsTerminal
  BY <1>1, AtRest
<1>3. QueueN' /\ ~Starting'
  BY <1>1, <1>2, CalmQueue
<1>4. CountN'
  BY <1>1, <1>3, RestCount DEF BeforeCall
<1>5. LogN'
  BY <1>1, <1>2, RestLog
<1>6. ReadN'
  BY <1>1, <1>3, RestRead
<1>7. run.status = "waiting_approval" => Last(ops, Terminal \cup {"running"})
  BY <1>1, AtRest
<1>8. TaskN'
  BY <1>1, <1>7 DEF TaskN, IsTerminal
<1> QED BY <1>3, <1>4, <1>5, <1>6, <1>8 DEF NominalInv

\* Moving on to a node before the policy makes no call old.
LEMMA FreshMoves ==
  ASSUME LInv, NominalInv, NEW n \in Nodes \ {"policy", "approve", "call"}
  PROVE  /\ Fresh([mem EXCEPT !.node = n])
         /\ [mem EXCEPT !.node = n].node = n
         /\ [mem EXCEPT !.node = n].done = mem.done
         /\ Observed \subseteq mem.done
<1>1. /\ [mem EXCEPT !.node = n].node = n
      /\ [mem EXCEPT !.node = n].done = mem.done
      /\ [mem EXCEPT !.node = n].queue = mem.queue
  BY LogTypes DEF Graphs
<1> QED BY <1>1 DEF NominalInv, ReadN, Fresh

LEMMA NodeFailsN ==
  ASSUME LInv, NominalInv, now <= Deadline, Quiet, task = "graph",
         mem.node \notin {"none", "receive"}, NodeFails
  PROVE  NominalInv'
<1> DEFINE g == [mem EXCEPT !.node = "end"]
<1>1. /\ Calm(FailOps) /\ Last(FailOps, Terminal) /\ \A D : Reads(FailOps, D)
      /\ FailOps \in Seq(Ops)
  BY FailureQueued, FailScripts DEF Quiet, LInv, Scripts
<1>2. Last(FailOps, Terminal \cup {"running"})
  BY <1>1 DEF Last
<1>3. g.node = "end" /\ Observed \subseteq g.done /\ Fresh(g)
  BY FreshMoves DEF Nodes
<1>4. Node(FailOps, g)
  BY DEF NodeFails
<1> QED BY <1>1, <1>2, <1>3, <1>4, NodeN

\* An exception ends the run, unless it has ended.
LEMMA RaiseN ==
  ASSUME LInv, NominalInv, now <= Deadline, Quiet, Raise PROVE NominalInv'
<1>1. /\ todo = << >> /\ up /\ up' /\ phase' = "none"
      /\ UNCHANGED <<run, log, mem, ckpt, seen>> /\ by' = "task"
      /\ Loadable /\ task # "dying"
  BY AtRest DEF Quiet, Raise, storeVars, logVars, worldVars
<1>2. CASE IsTerminal
  <2>1. todo' = << >> /\ task' = "none"
    BY <1>2 DEF Raise
  <2> QED BY <1>1, <1>2, <2>1, EndedRest
<1>3. CASE ~IsTerminal
  <2>1. todo' = FailOps /\ task' = "dying"
    BY <1>1, <1>3 DEF Raise
  <2>2. /\ Calm(FailOps) /\ Failing(FailOps) /\ Last(FailOps, Terminal)
        /\ \A D : Reads(FailOps, D) /\ FailOps \in Seq(Ops)
    BY <1>1, FailureQueued, FailScripts DEF LInv, Scripts
  <2>3. QueueN' /\ ~Starting'
    BY <1>1, <2>1, <2>2, CalmQueue DEF Failing
  <2>4. CountN'
    BY <1>1, <2>1, <2>3, RestCount DEF NominalInv, CountN, BeforeCall
  <2>5. LogN'
    BY <1>1, AtRest, RestLog
  <2>6. ReadN'
    BY <1>1, <2>1, <2>2, <2>3, RestRead DEF NominalInv, ReadN
  <2>7. run.status = "waiting_approval" => mem.node = "approve"
    BY <1>1, AtRest
  <2>8. TaskN'
    BY <1>1, <2>1, <2>2, <2>7 DEF TaskN, IsTerminal
  <2> QED BY <2>3, <2>4, <2>5, <2>6, <2>8 DEF NominalInv
<1> QED BY <1>2, <1>3

\* A handler that queues nothing and leaves the graph state as it is.
LEMMA IdleN ==
  ASSUME LInv, NominalInv, Quiet, todo' = << >>, up' = up,
         UNCHANGED <<run, log, mem>>,
         phase' = "model" => seen' < MaxSteps,
         mem.node = "call" /\ task' = "graph" /\ phase' = "none"
           => task = "graph" /\ phase = "none",
         TaskN'
  PROVE  NominalInv'
<1>1. todo = << >> /\ log' = log /\ run' = run /\ mem' = mem
  BY DEF Quiet
<1>2. QueueN' /\ ~Starting'
  BY DEF QueueN, Starting
<1>3. CountN'
  <2>1. BeforeCall' => Started < MaxToolCalls
    BY <1>1 DEF NominalInv, CountN, BeforeCall
  <2> QED BY <1>1, <1>2, <2>1, RestCount
<1>4. LogN'
  BY <1>1, AtRest, RestLog
<1>5. ReadN'
  BY <1>1, <1>2, NothingQueued, RestRead DEF NominalInv, ReadN
<1> QED BY <1>2, <1>3, <1>4, <1>5 DEF NominalInv

-----------------------------------------------------------------------------
(* The task of a nominal run.                                              *)

LEMMA TaskStartN ==
  ASSUME LInv, NominalInv, now <= Deadline, TaskStart PROVE NominalInv'
<1>1. CASE Raise
  BY <1>1, RaiseN DEF TaskStart
<1>2. CASE ~Raise
  <2>1. /\ Quiet /\ task = "start" /\ run.status \in {"created", "running"}
        /\ todo = << >> /\ todo' = << >> /\ task' = "graph" /\ up' = up
        /\ UNCHANGED <<run, log, phase, ckpt>> /\ ckpt = NoGraph
        /\ mem' = Initial /\ phase = "none"
    BY <1>2
    DEF TaskStart, Quiet, storeVars, logVars, worldVars, NominalInv, TaskN, LInv, IInv,
        TaskInv
  <2>2. QueueN' /\ ~Starting'
    BY <2>1 DEF QueueN, Starting
  <2>3. mem'.node = "receive" /\ mem'.done = Observed /\ mem'.queue = << >>
    BY <2>1 DEF Initial
  <2>4. CountN'
    BY <2>1, <2>2, <2>3, RestCount DEF BeforeCall
  <2>5. LogN'
    BY <2>1, <2>3, RestLog
  <2>6. ReadN'
    <3>1. Fresh(mem')
      BY <2>3 DEF Fresh
    <3> QED BY <2>1, <2>2, <2>3, <3>1, NothingQueued, RestRead
  <2>7. TaskN'
    <3>1. run.status = "created"
      BY <2>1 DEF NominalInv, TaskN, IsTerminal, Terminal
    <3> QED BY <2>1, <2>3, <3>1 DEF NominalInv, TaskN, IsTerminal
  <2> QED BY <2>2, <2>4, <2>5, <2>6, <2>7 DEF NominalInv
<1> QED BY <1>1, <1>2

LEMMA TaskResumeN ==
  ASSUME LInv, NominalInv, now <= Deadline, TaskResume PROVE NominalInv'
<1>1. CASE Raise
  BY <1>1, RaiseN DEF TaskResume
<1>2. CASE ~Raise
  <2>1. /\ Quiet /\ task = "resume" /\ run.status = "waiting_approval"
        /\ todo = << >> /\ todo' = << >> /\ task' \in {"graph", "none"}
        /\ up' = up /\ UNCHANGED <<run, log, phase, ckpt>>
        /\ ckpt = mem /\ mem' = mem
    BY <1>2
    DEF TaskResume, Quiet, storeVars, logVars, worldVars, NominalInv, TaskN, IsTerminal,
        Terminal
  <2>2. mem.node = "approve" /\ phase = "none"
    BY <2>1, AtRest DEF LInv, IInv, TaskInv
  <2>3. TaskN'
    BY <2>1, <2>2 DEF NominalInv, TaskN
  <2> QED BY <2>1, <2>2, <2>3, IdleN
<1> QED BY <1>1, <1>2

LEMMA SaverN ==
  ASSUME LInv, NominalInv, SaveCheckpoint \/ GraphEnds \/ TaskDone
  PROVE  NominalInv'
<1>1. /\ Quiet /\ todo = << >> /\ todo' = << >> /\ up' = up
      /\ UNCHANGED <<run, log, mem, phase, seen>>
  BY DEF SaveCheckpoint, GraphEnds, TaskDone, Quiet, storeVars, logVars, taskVars,
         worldVars
<1>2. TaskN /\ \A X : ~Last(todo, X)
  BY <1>1, AtRest DEF NominalInv
<1>3. CASE SaveCheckpoint
  <2>1. task = "graph" /\ task' = "graph"
    BY <1>3 DEF SaveCheckpoint, taskVars
  <2>2. TaskN'
    BY <1>1, <1>2, <2>1, AtRest DEF TaskN, IsTerminal
  <2> QED BY <1>1, <2>1, <2>2, IdleN DEF NominalInv, CountN
<1>4. CASE GraphEnds
  <2>1. task' = "flush" /\ ckpt' = ckpt /\ IsTerminal
    BY <1>2, <1>4 DEF GraphEnds, worldVars, TaskN
  <2>2. TaskN'
    BY <1>1, <1>2, <2>1 DEF TaskN, IsTerminal, Terminal
  <2> QED BY <1>1, <2>1, <2>2, IdleN DEF NominalInv, CountN
<1>5. CASE TaskDone
  <2>1. /\ task' = "none" /\ ckpt' = mem
        /\ IsTerminal \/ run.status = "waiting_approval"
    BY <1>2, <1>5 DEF TaskDone, TaskN
  <2>2. TaskN'
    BY <1>1, <1>2, <2>1, AtRest DEF TaskN, IsTerminal
  <2> QED BY <1>1, <2>1, <2>2, IdleN DEF NominalInv, CountN
<1> QED BY <1>3, <1>4, <1>5

\* The client.
LEMMA RefreshN ==
  ASSUME LInv, NominalInv, now <= Deadline, Refresh PROVE NominalInv'
<1>1. /\ Quiet /\ todo = << >> /\ todo' = ExpireOps /\ up' = up /\ up
      /\ UNCHANGED <<run, log, mem, phase, seen, ckpt, task>>
  BY DEF Refresh, Quiet, storeVars, logVars, taskVars, worldVars
<1>2. /\ Calm(ExpireOps) /\ Failing(ExpireOps) /\ Last(ExpireOps, Terminal)
      /\ \A D : Reads(ExpireOps, D) /\ ExpireOps \in Seq(Ops)
  BY <1>1, FailureQueued, FailScripts DEF LInv, Scripts
<1>3. QueueN' /\ ~Starting'
  BY <1>1, <1>2, CalmQueue DEF Failing
<1>4. CountN'
  BY <1>1, <1>3, RestCount DEF NominalInv, CountN, BeforeCall
<1>5. LogN'
  BY <1>1, AtRest, RestLog
<1>6. ReadN'
  BY <1>1, <1>2, <1>3, RestRead DEF NominalInv, ReadN
<1>7. /\ run.status = "waiting_approval" => mem.node = "approve"
      /\ task # "dying" /\ \A X : ~Last(todo, X)
  BY <1>1, AtRest
<1>8. TaskN'
  BY <1>1, <1>7 DEF NominalInv, TaskN, IsTerminal
<1> QED BY <1>3, <1>4, <1>5, <1>6, <1>8 DEF NominalInv

LEMMA CancelN ==
  ASSUME LInv, NominalInv, now <= Deadline, Cancel PROVE NominalInv'
<1>1. /\ Quiet /\ todo = << >> /\ todo' = << >> /\ up' = up /\ up
      /\ task' = "none" /\ phase' = "none" /\ log' = log
      /\ UNCHANGED <<mem, seen, ckpt>> /\ Loadable
  BY AtRest DEF Cancel, Quiet, storeVars, logVars, worldVars, Transition
<1>2. CASE IsTerminal
  <2>1. run' = run
    BY <1>2 DEF Cancel, CanTransition, storeVars, logVars
  <2> QED BY <1>1, <1>2, <2>1, EndedRest
<1>3. CASE ~IsTerminal
  <2>1. /\ run'.status = "cancelled" /\ run'.updated = now
        /\ run'.steps = run.steps /\ run'.calls = run.calls
    BY <1>1, <1>3
    DEF Cancel, CanTransition, Transition, LInv, IInv, TypeOK, RunRecords
  <2>2. /\ IsTerminal' /\ run'.status \notin {"waiting_approval", "created"}
        /\ ~Starting' /\ Started' = Started /\ run.calls = Started
    BY <1>1, <2>1, AtRest, StartedSame DEF IsTerminal, Terminal, Starting
  <2>3. QueueN'
    BY <1>1 DEF QueueN
  <2>4. CountN'
    BY <1>1, <2>1, <2>2 DEF NominalInv, CountN, BeforeCall
  <2>5. TaskN'
    BY <1>1, <2>2 DEF TaskN
  <2>6. LogN'
    BY <1>1, <2>2, AtRest DEF NominalInv, LogN
  <2>7. ReadN'
    BY <1>1, <2>2, NothingQueued, RestRead DEF NominalInv, ReadN
  <2> QED BY <2>3, <2>4, <2>5, <2>6, <2>7 DEF NominalInv
<1> QED BY <1>2, <1>3

LEMMA PostApprovalN ==
  ASSUME LInv, NominalInv, NEW c \in Calls, NEW d \in Decisions,
         PostApproval(c, d)
  PROVE  NominalInv'
<1>1. /\ Quiet /\ todo = << >> /\ todo' = << >> /\ up' = up
      /\ UNCHANGED <<run, log, mem, phase, seen, ckpt>>
      /\ run.status = "waiting_approval"
      /\ task' = IF NoTask THEN "resume" ELSE task
  BY DEF PostApproval, DecideApproval, CanDecide, Quiet, worldVars, logVars
<1>2. TaskN'
  BY <1>1, AtRest DEF NominalInv, TaskN, IsTerminal, NoTask
<1> QED BY <1>1, <1>2, IdleN DEF NominalInv, CountN

-----------------------------------------------------------------------------
(* The graph's nodes in a nominal run.                                     *)

\* A node that queues nothing and moves on.
LEMMA PassN ==
  ASSUME LInv, NominalInv, Quiet, task = "graph",
         mem.node \notin {"none", "receive", "approve"},
         NEW n \in Nodes \ {"receive", "policy", "approve", "call", "end"},
         Node(<< >>, [mem EXCEPT !.node = n])
  PROVE  NominalInv'
<1> DEFINE g == [mem EXCEPT !.node = n]
<1>1. g.node = n /\ Fresh(g) /\ Observed \subseteq g.done
  BY FreshMoves
<1>2. << >> \in Seq(Ops) /\ "none" \notin Nodes
  BY DEF Nodes
<1> HIDE DEF g
<1> QED BY <1>1, <1>2, NothingQueued, NodeN DEF g

LEMMA ReceiveRequestN ==
  ASSUME LInv, NominalInv, now <= Deadline, ReceiveRequest PROVE NominalInv'
<1>1. /\ Quiet /\ todo = << >> /\ task = "graph" /\ mem.node = "receive"
      /\ Loadable /\ run.calls = Started /\ run.steps <= MaxSteps
      /\ run.status = "created" \/ IsTerminal
  BY AtRest DEF ReceiveRequest, AtNode, Quiet, NominalInv, TaskN, CountN
<1>2. CASE Raise
  BY <1>1, <1>2, RaiseN
<1>3. CASE ~Raise
  <2> DEFINE g == [mem EXCEPT !.node = "retrieve"]
  <2>1. /\ run.status = "created" /\ log = << >>
        /\ Node(Keep("running", NoCall, now)
                  \o Put("run.started", NoCall, FALSE, now), g)
    BY <1>1, <1>3, AtRest DEF ReceiveRequest, IsTerminal, Terminal
  <2>2. /\ Len(todo') = 3
        /\ todo'[1].op = "move" /\ todo'[1].name = "running"
        /\ todo'[1].at = now /\ todo'[1].steps = run.steps
        /\ todo'[1].calls = run.calls
        /\ todo'[2].op = "event" /\ todo'[2].name = "run.started"
        /\ todo'[2].at = now
        /\ todo'[3].op = "cursor" /\ todo'[3].at = now
    BY <2>1 DEF Node, Keep, Move, Put, Op
  <2>3. /\ up' = up /\ run' = run /\ log' = log /\ ckpt' = ckpt
        /\ task' = "graph" /\ mem' = g /\ phase' = "none"
    BY <1>1, <2>1 DEF Node, storeVars, logVars, worldVars
  <2>4. g.node = "retrieve" /\ Fresh(g) /\ Observed \subseteq g.done
    BY FreshMoves DEF Nodes
  <2> HIDE DEF g
  <2>5. ~Starting' /\ Started' = Started
    BY <2>2, <2>3, StartedSame DEF Starting
  <2>6. QueueN'
    <3>1. Due' = Started
      BY <2>5 DEF Due
    <3> SUFFICES ASSUME NEW n \in 1..3 PROVE QueueAt(n)'
      BY <2>2 DEF QueueN
    <3> QED BY <1>1, <2>1, <2>2, <2>3, <2>4, <3>1
        DEF QueueAt, Outcomes, Terminal
  <2>7. CountN'
    BY <1>1, <2>3, <2>4, <2>5, RestCount DEF BeforeCall
  <2>8. LogN'
    <3>1. 2 \in 1..Len(todo')
      BY <2>2
    <3> QED BY <1>1, <2>2, <2>3, <3>1, RestLog
  <2>9. ReadN'
    <3>1. Reads(todo', g.done)
      BY <2>2 DEF Reads
    <3> QED BY <2>3, <2>4, <2>5, <3>1, RestRead
  <2>10. TaskN'
    BY <1>1, <2>1, <2>3, <2>4 DEF NominalInv, TaskN
  <2> QED BY <2>6, <2>7, <2>8, <2>9, <2>10 DEF NominalInv
<1> QED BY <1>2, <1>3

LEMMA PrepareEvidenceRetrievalN ==
  ASSUME LInv, NominalInv, now <= Deadline, PrepareEvidenceRetrieval
  PROVE  NominalInv'
<1>1. Quiet /\ task = "graph" /\ mem.node = "retrieve"
  BY DEF PrepareEvidenceRetrieval, AtNode
<1>2. NodeFails \/ Node(<< >>, [mem EXCEPT !.node = "model"]) \/ Raise
  BY DEF PrepareEvidenceRetrieval
<1> QED BY <1>1, <1>2, NodeFailsN, PassN, RaiseN DEF Nodes

\* _model_decision asks the model only while a step is left.
LEMMA ModelDecisionN ==
  ASSUME LInv, NominalInv, now <= Deadline, ModelDecision PROVE NominalInv'
<1>1. Quiet /\ task = "graph" /\ mem.node = "model" /\ todo = << >>
  BY DEF ModelDecision, AtNode, Quiet
<1>2. CASE Raise \/ NodeFails
  BY <1>1, <1>2, RaiseN, NodeFailsN
<1>3. CASE ~(Raise \/ NodeFails)
  <2>1. /\ ~(run.steps >= MaxSteps) /\ seen' = run.steps /\ todo' = << >>
        /\ UNCHANGED <<run, log, up, task, mem, by, ckpt>>
    BY <1>1, <1>3 DEF ModelDecision, storeVars, logVars, worldVars
  <2>2. seen' < MaxSteps
    BY <2>1, LogTypes, LimitAssumption
  <2>3. TaskN'
    BY <1>1, <2>1 DEF NominalInv, TaskN, IsTerminal
  <2> QED BY <1>1, <2>1, <2>2, <2>3, IdleN
<1> QED BY <1>2, <1>3

\* What the queue of new calls holds.
LEMMA NewQueue ==
  ASSUME NEW batch \in Batches, NEW f \in InOrder(batch), LInv,
         NEW q, q = [k \in DOMAIN f |-> batch[f[k]]]
  PROVE  /\ \A k, l \in 1..Len(q) : k < l => Sig[q[k]] # Sig[q[l]]
         /\ \A k \in 1..Len(q) : Sig[q[k]] \notin mem.done
<1>1. PICK n \in 0..Len(batch) : f \in [1..n -> 1..Len(batch)]
  BY DEF InOrder
<1>2. /\ {f[k] : k \in DOMAIN f} = New(batch)
      /\ \A k, l \in DOMAIN f : k < l => f[k] < f[l]
  BY DEF InOrder
<1>3. /\ batch \in Seq(Calls) /\ n \in Nat /\ DOMAIN f = 1..n
      /\ Len(batch) \in Nat /\ \A k \in 1..n : f[k] \in 1..Len(batch)
  BY <1>1, CallAssumption
<1>4. DOMAIN q = 1..n /\ Len(q) = n /\ \A k \in 1..n : q[k] = batch[f[k]]
  <2>1. q \in Seq(Calls) /\ DOMAIN q = 1..n
    BY <1>3
  <2> QED BY <1>3, <2>1
<1>5. \A k \in 1..n : f[k] \in New(batch)
  BY <1>2, <1>3
<1>6. ASSUME NEW k \in 1..n, NEW l \in 1..n, k < l
      PROVE  Sig[q[k]] # Sig[q[l]]
  <2>1. f[k] < f[l]
    BY <1>2, <1>3, <1>6
  <2>2. f[k] \in 1..Len(batch) /\ f[l] \in 1..Len(batch)
    BY <1>3
  <2>3. f[k] \in 1..(f[l] - 1)
    BY <1>3, <2>1, <2>2
  <2>4. f[l] \in New(batch)
    BY <1>5
  <2> QED BY <1>4, <2>3, <2>4 DEF New
<1> QED BY <1>4, <1>5, <1>6 DEF New

LEMMA ModelAnswersN ==
  ASSUME LInv, NominalInv, now <= Deadline, ModelAnswers PROVE NominalInv'
<1>1. /\ Quiet /\ task = "graph" /\ mem.node = "model" /\ todo = << >>
      /\ seen < MaxSteps /\ run.calls = Started
  BY AtRest
  DEF ModelAnswers, Quiet, LInv, IInv, TaskInv, NominalInv, CountN
<1>2. /\ Calm(ModelMove) /\ Last(ModelMove, {"running"})
      /\ \A D : Reads(ModelMove, D)
      /\ ModelMove \in Seq(Ops)
  <2>1. seen + 1 <= MaxSteps /\ seen + 1 \in Nat /\ "running" \in Statuses
    BY <1>1, LogTypes, LimitAssumption DEF Statuses
  <2>2. ModelMove = Move("running", NoCall, seen + 1, Started, now)
    BY <1>1 DEF ModelMove
  <2>3. ModelMove \in Seq(Ops)
    BY <2>1, LogTypes, MoveScript DEF ModelMove, Scripts
  <2> HIDE DEF ModelMove
  <2> QED BY <2>1, <2>2, <2>3, MoveQueued
<1>3. CASE NodeFails
  BY <1>1, <1>3, NodeFailsN
<1>4. CASE ModelMessage
  <2> DEFINE g == [mem EXCEPT !.node = "complete"]
  <2>1. g.node = "complete" /\ Fresh(g) /\ Observed \subseteq g.done
    BY FreshMoves DEF Nodes
  <2>2. Node(ModelMove, g)
    BY <1>4 DEF ModelMessage
  <2> HIDE DEF g
  <2> QED BY <1>1, <1>2, <2>1, <2>2, NodeN
<1>5. ASSUME NEW batch \in Batches, ModelCalls(batch) PROVE NominalInv'
  <2>1. CASE Duplicates(batch) \cap mem.supp # {}
    <3> DEFINE g == [mem EXCEPT !.node = "end"]
               ops == ModelMove \o Put("run.failed", NoCall, FALSE, now)
                        \o Move("failed", NoCall, seen + 1, run.calls, now)
    <3>1. Node(ops, g)
      BY <1>5, <2>1 DEF ModelCalls
    <3>2. g.node = "end" /\ Fresh(g) /\ Observed \subseteq g.done
      BY FreshMoves DEF Nodes
    <3>3. /\ Len(ops) = 4 /\ ops # << >>
          /\ ops[1].op = "move" /\ ops[1].name = "running"
          /\ ops[1].at = now /\ ops[1].steps = seen + 1
          /\ ops[1].calls = run.calls
          /\ ops[2].op = "event" /\ ops[2].name = "run.failed"
          /\ ops[2].at = now
          /\ ops[3].op = "cursor" /\ ops[3].at = now
          /\ ops[4].op = "move" /\ ops[4].name = "failed"
          /\ ops[4].at = now /\ ops[4].steps = seen + 1
          /\ ops[4].calls = run.calls
      BY DEF ModelMove, Move, Put, Op
    <3>4. ops \in Seq(Ops)
      <4>1. /\ seen + 1 \in Nat /\ "failed" \in Statuses
            /\ "run.failed" \in EventTypes \ {"tool.call.proposed"}
            /\ "running" \in Statuses
        BY LogTypes DEF Statuses, Terminal, EventTypes
      <4> QED BY <4>1, LogTypes, PutScript, MoveScript, JoinedScripts
          DEF ModelMove, Scripts
    <3> HIDE DEF ops, g
    <3>5. Last(ops, Terminal)
      BY <3>3 DEF Last, Terminal
    <3>6. seen + 1 <= MaxSteps
      BY <1>1, LogTypes, LimitAssumption
    <3>7. Calm(ops) /\ Reads(ops, g.done)
      BY <1>1, <3>3, <3>5, <3>6 DEF Calm, Reads
    <3> QED BY <1>1, <3>1, <3>2, <3>4, <3>5, <3>7, NodeN
  <2>2. CASE Duplicates(batch) \cap mem.supp = {}
    <3>1. PICK f \in InOrder(batch) :
            Node(ModelMove,
                 [mem EXCEPT !.queue = [k \in DOMAIN f |-> batch[f[k]]],
                             !.supp = @ \cup Duplicates(batch),
                             !.node = IF DOMAIN f = {} THEN "model"
                                                       ELSE "validate"])
      BY <1>5, <2>2 DEF ModelCalls
    <3> DEFINE q == [k \in DOMAIN f |-> batch[f[k]]]
               g == [mem EXCEPT !.queue = q,
                                !.supp = @ \cup Duplicates(batch),
                                !.node = IF DOMAIN f = {} THEN "model"
                                                          ELSE "validate"]
    <3>2. /\ g.done = mem.done /\ g.node \in {"model", "validate"}
          /\ g.queue = q
      BY LogTypes DEF Graphs
    <3>3. /\ \A k, l \in 1..Len(q) : k < l => Sig[q[k]] # Sig[q[l]]
          /\ \A k \in 1..Len(q) : Sig[q[k]] \notin mem.done
      BY NewQueue
    <3>4. Node(ModelMove, g)
      BY <3>1
    <3> HIDE DEF g, q
    <3>5. Fresh(g) /\ Observed \subseteq g.done
      BY <3>2, <3>3 DEF Fresh, NominalInv, ReadN
    <3> QED BY <1>1, <1>2, <3>2, <3>4, <3>5, NodeN
  <2> QED BY <2>1, <2>2
<1> QED BY <1>3, <1>4, <1>5 DEF ModelAnswers

LEMMA ValidateToolSchemaN ==
  ASSUME LInv, NominalInv, now <= Deadline, ValidateToolSchema
  PROVE  NominalInv'
<1>1. /\ Quiet /\ task = "graph" /\ mem.node = "validate"
      /\ mem.queue \in Seq(Calls)
  BY LogTypes DEF ValidateToolSchema, AtNode, Graphs
<1>2. CASE NodeFails
  BY <1>1, <1>2, NodeFailsN
<1>3. CASE ~NodeFails
  <2> DEFINE g == [mem EXCEPT !.call = Head(mem.queue),
                              !.queue = Tail(mem.queue), !.node = "policy"]
  <2>1. mem.queue # << >> /\ Node(<< >>, g)
    BY <1>3 DEF ValidateToolSchema
  <2>2. /\ g.done = mem.done /\ g.node = "policy"
        /\ g.call = Head(mem.queue) /\ g.queue = Tail(mem.queue)
    BY LogTypes DEF Graphs
  <2> HIDE DEF g
  <2>3. /\ g.call = mem.queue[1] /\ 1 \in 1..Len(mem.queue)
        /\ Len(g.queue) = Len(mem.queue) - 1
        /\ \A k \in 1..Len(g.queue) :
             /\ k + 1 \in 1..Len(mem.queue) /\ 1 < k + 1
             /\ g.queue[k] = mem.queue[k + 1]
    BY <1>1, <2>1, <2>2
  <2>4. Fresh(mem) /\ Observed \subseteq g.done
    BY <2>2 DEF NominalInv, ReadN
  <2>5. ASSUME NEW k \in 1..Len(g.queue), NEW l \in 1..Len(g.queue), k < l
        PROVE  Sig[g.queue[k]] # Sig[g.queue[l]]
    <3>1. /\ k + 1 < l + 1
          /\ k + 1 \in 1..Len(mem.queue) /\ l + 1 \in 1..Len(mem.queue)
      BY <2>3, <2>5
    <3>2. Sig[mem.queue[k + 1]] # Sig[mem.queue[l + 1]]
      BY <2>4, <3>1 DEF Fresh
    <3> QED BY <2>3, <3>2
  <2>6. \A k \in 1..Len(g.queue) :
          Sig[g.queue[k]] \notin g.done /\ Sig[g.queue[k]] # Sig[g.call]
    BY <2>2, <2>3, <2>4 DEF Fresh
  <2>7. Fresh(g)
    BY <2>2, <2>3, <2>4, <2>5, <2>6 DEF Fresh
  <2>8. << >> \in Seq(Ops)
    OBVIOUS
  <2> QED BY <1>1, <2>1, <2>2, <2>4, <2>7, <2>8, NothingQueued, NodeN
<1> QED BY <1>2, <1>3

\* The call limit is checked before the call is proposed.
LEMMA EnforceToolPolicyN ==
  ASSUME LInv, NominalInv, now <= Deadline, EnforceToolPolicy
  PROVE  NominalInv'
<1> DEFINE c == mem.call
           propose == Put("tool.call.proposed", c, FALSE, now)
           ask == propose \o Put("approval.required", c, FALSE, now)
                    \o Keep("waiting_approval", c, now)
           asked == [mem EXCEPT !.gate = TRUE, !.node = "approve"]
           passed == [mem EXCEPT !.gate = FALSE, !.node = "call"]
<1>1. /\ Quiet /\ task = "graph" /\ mem.node = "policy" /\ todo = << >>
      /\ c \in Calls /\ Started \in Nat /\ run.calls = Started
      /\ run.steps <= MaxSteps
  BY AtRest
  DEF EnforceToolPolicy, AtNode, Quiet, LInv, IInv, GraphOK, NominalInv, CountN
<1>2. CASE Raise \/ NodeFails
  BY <1>1, <1>2, RaiseN, NodeFailsN
<1>3. CASE ~(Raise \/ NodeFails)
  <2>1. /\ ~(run.calls >= MaxToolCalls)
        /\ Node(ask, asked) \/ Node(propose, passed)
    BY <1>3 DEF EnforceToolPolicy
  <2>2. Started < MaxToolCalls
    BY <1>1, <2>1, LimitAssumption
  <2>3. /\ asked.node = "approve" /\ asked.done = mem.done
        /\ asked.queue = mem.queue /\ asked.call = mem.call
        /\ passed.node = "call" /\ passed.done = mem.done
        /\ passed.queue = mem.queue /\ passed.call = mem.call
    BY LogTypes DEF Graphs
  <2>4. /\ Len(propose) = 2
        /\ propose[1].op = "event" /\ propose[1].name = "tool.call.proposed"
        /\ propose[1].at = now
        /\ propose[2].op = "cursor" /\ propose[2].at = now
    BY DEF Put, Op
  <2>5. /\ Len(ask) = 5 /\ ask # << >>
        /\ ask[1].op = "event" /\ ask[1].name = "tool.call.proposed"
        /\ ask[1].at = now
        /\ ask[2].op = "cursor" /\ ask[2].at = now
        /\ ask[3].op = "event" /\ ask[3].name = "approval.required"
        /\ ask[3].at = now
        /\ ask[4].op = "cursor" /\ ask[4].at = now
        /\ ask[5].op = "move" /\ ask[5].name = "waiting_approval"
        /\ ask[5].at = now /\ ask[5].steps = run.steps
        /\ ask[5].calls = run.calls
    BY DEF Put, Keep, Move, Op
  <2>6. ask \in Seq(Ops) /\ propose \in Seq(Ops)
    <3>1. /\ "tool.call.proposed" \in EventTypes
          /\ "approval.required" \in EventTypes
          /\ "waiting_approval" \in Statuses
      BY DEF EventTypes, Statuses
    <3> QED BY <1>1, <3>1, LogTypes DEF Put, Keep, Move, Op, Ops, StoreOps
  <2> HIDE DEF ask, propose, asked, passed
  <2>7. Fresh(asked) /\ Fresh(passed) /\ Observed \subseteq mem.done
    BY <1>1, <2>3 DEF NominalInv, ReadN, Fresh
  <2>8. /\ Calm(ask) /\ Reads(ask, mem.done) /\ Last(ask, {"waiting_approval"})
        /\ \A n \in 1..Len(ask) : ask[n].op = "move" => ask[n].name # "running"
    BY <1>1, <2>5 DEF Calm, Reads, Last, Outcomes
  <2>9. Calm(propose) /\ Reads(propose, mem.done)
    BY <2>4 DEF Calm, Reads, Outcomes
  <2>10. CASE Node(ask, asked)
    BY <1>1, <2>2, <2>3, <2>6, <2>7, <2>8, <2>10, NodeN
  <2>11. CASE Node(propose, passed)
    BY <1>1, <2>2, <2>3, <2>6, <2>7, <2>9, <2>11, NodeN
  <2> QED BY <2>1, <2>10, <2>11
<1> QED BY <1>2, <1>3

LEMMA WaitForApprovalN ==
  ASSUME LInv, NominalInv, now <= Deadline, WaitForApproval PROVE NominalInv'
<1> DEFINE g == [mem EXCEPT !.node = "call"]
<1>1. /\ Quiet /\ task = "graph" /\ mem.node = "approve" /\ phase = "none"
      /\ todo = << >>
  BY DEF WaitForApproval, AtNode, Quiet
<1>2. run.calls = Started /\ run.steps <= MaxSteps /\ Started < MaxToolCalls
  BY <1>1, AtRest DEF NominalInv, CountN, BeforeCall
<1>3. IsTerminal \/ run.status = "waiting_approval"
  BY <1>1, AtRest DEF NominalInv, TaskN
<1>4. \/ /\ task' = "flush"
         /\ UNCHANGED <<storeVars, worldVars, up, todo, by, mem, phase, seen,
                        reply>>
      \/ Raise \/ NodeFails \/ Node(Keep("running", NoCall, now), g)
  BY DEF WaitForApproval
<1>5. CASE /\ task' = "flush"
           /\ UNCHANGED <<storeVars, worldVars, up, todo, by, mem, phase, seen,
                          reply>>
  <2>1. /\ todo' = << >> /\ up' = up
        /\ UNCHANGED <<run, log, mem, ckpt, phase, seen>>
    BY <1>1, <1>5 DEF storeVars, logVars, worldVars
  <2>2. TaskN'
    BY <1>1, <1>5, <1>3, <2>1 DEF NominalInv, TaskN, IsTerminal
  <2> QED BY <1>1, <1>5, <2>1, <2>2, IdleN
<1>6. CASE Node(Keep("running", NoCall, now), g)
  <2> DEFINE ops == Keep("running", NoCall, now)
  <2>1. /\ ops = Move("running", NoCall, run.steps, Started, now)
        /\ "running" \in Statuses /\ ops \in Seq(Ops)
    <3>1. "running" \in Statuses
      BY DEF Statuses
    <3> QED BY <1>2, <3>1, LogTypes, StartedNat, MoveScript DEF Keep, Scripts
  <2> HIDE DEF ops
  <2>2. Calm(ops) /\ Last(ops, {"running"}) /\ \A D : Reads(ops, D)
    BY <1>2, <2>1, MoveQueued
  <2>3. g.node = "call" /\ g.done = mem.done /\ g.queue = mem.queue
        /\ g.call = mem.call
    BY LogTypes DEF Graphs
  <2>4. Node(ops, g)
    BY <1>6 DEF ops
  <2> HIDE DEF g
  <2>5. Fresh(g) /\ Observed \subseteq g.done
    BY <1>1, <2>3 DEF NominalInv, ReadN, Fresh
  <2>6. Last(ops, Terminal \cup {"running"})
    BY <2>2 DEF Last
  <2> QED BY <1>1, <1>2, <2>1, <2>2, <2>3, <2>4, <2>5, <2>6, NodeN
<1>7. CASE Raise \/ NodeFails
  BY <1>1, <1>7, RaiseN, NodeFailsN
<1> QED BY <1>4, <1>5, <1>6, <1>7

\* The counter goes up with the event, and stays within the limit.
LEMMA CallMcpToolN ==
  ASSUME LInv, NominalInv, now <= Deadline, CallMcpTool PROVE NominalInv'
<1>1. /\ Quiet /\ todo = << >> /\ task = "graph" /\ mem.node = "call"
      /\ phase = "none" /\ run.calls = Started /\ Started \in Nat
      /\ run.steps <= MaxSteps /\ Started < MaxToolCalls
      /\ log # << >> \/ IsTerminal
  BY AtRest DEF CallMcpTool, AtNode, Quiet, NominalInv, CountN, BeforeCall
<1>2. /\ up' = up /\ run' = run /\ log' = log /\ ckpt' = ckpt /\ mem' = mem
      /\ task' = task /\ phase' = "send" /\ seen' = seen
  BY DEF CallMcpTool, storeVars, logVars, worldVars
<1>3. /\ Len(todo') = 3 /\ todo' # << >>
      /\ todo'[1].op = "event" /\ todo'[1].name = "tool.started"
      /\ todo'[1].call = mem.call /\ todo'[1].at = now
      /\ todo'[2].op = "cursor" /\ todo'[2].at = now
      /\ todo'[3].op = "move" /\ todo'[3].name = "running"
      /\ todo'[3].at = now /\ todo'[3].steps = run.steps
      /\ todo'[3].calls = run.calls + 1
  BY DEF CallMcpTool, Put, Move, Op
<1>4. /\ Starting' /\ Moving' /\ Started' = Started /\ Due' = Started + 1
      /\ IsTerminal' = IsTerminal
  <2>1. Starting' /\ Started' = Started /\ IsTerminal' = IsTerminal
    BY <1>2, <1>3, StartedSame DEF Starting, IsTerminal
  <2>2. 3 \in 1..Len(todo')
    BY <1>3
  <2> QED BY <1>3, <2>1, <2>2 DEF Moving, Due
<1>5. QueueN'
  <2> SUFFICES ASSUME NEW n \in 1..3 PROVE QueueAt(n)'
    BY <1>3 DEF QueueN
  <2> QED BY <1>1, <1>2, <1>3, <1>4 DEF QueueAt, Outcomes
<1>6. CountN'
  BY <1>1, <1>2, <1>3, <1>4 DEF NominalInv, CountN, BeforeCall
<1>7. LogN'
  BY <1>1, <1>2, RestLog
<1>8. ReadN'
  <2>1. Sig[mem.call] \notin mem.done
    BY <1>1 DEF NominalInv, ReadN, Fresh
  <2>2. Reads(todo', mem.done)
    BY <1>3 DEF Reads
  <2> QED BY <1>2, <1>3, <2>1, <2>2
      DEF NominalInv, ReadN, Observed, SuccessfulReadOnce
<1>9. TaskN'
  BY <1>1, <1>2, AtRest DEF NominalInv, TaskN, IsTerminal
<1> QED BY <1>5, <1>6, <1>7, <1>8, <1>9 DEF NominalInv

LEMMA SendCallN ==
  ASSUME LInv, NominalInv, SendCall PROVE NominalInv'
<1>1. /\ Quiet /\ todo = << >> /\ todo' = << >> /\ up' = up /\ task' = task
      /\ UNCHANGED <<run, log, mem, ckpt, seen>> /\ phase' = "tool"
  BY DEF SendCall, Quiet, storeVars, logVars
<1>2. TaskN'
  BY <1>1, AtRest DEF NominalInv, TaskN, IsTerminal
<1> QED BY <1>1, <1>2, IdleN

\* The result of a read enters the graph state with its event.
LEMMA ToolReturnsN ==
  ASSUME LInv, NominalInv, now <= Deadline, NEW ok \in BOOLEAN, ToolReturns(ok)
  PROVE  NominalInv'
<1>1. /\ Quiet /\ todo = << >> /\ up /\ task = "graph" /\ mem.node = "call"
      /\ mem.call \in Calls /\ now \in Nat
      /\ mem.gate => mem.call \in ApprovalCalls
      /\ log # << >> \/ IsTerminal
      /\ run.status # "waiting_approval"
  BY LogTypes, AtRest
  DEF ToolReturns, Quiet, LInv, IInv, TaskInv, GraphOK
<1>2. /\ up' = up /\ run' = run /\ log' = log /\ ckpt' = ckpt
      /\ task' = task /\ phase' = "none"
      /\ todo' = Put("tool.completed", mem.call, ok, now)
  BY DEF ToolReturns, storeVars, logVars
<1>3. /\ mem'.node = "observe" /\ mem'.queue = mem.queue
      /\ mem'.done = IF ok /\ ~mem.gate THEN mem.done \cup {Sig[mem.call]}
                                        ELSE mem.done
  BY LogTypes DEF ToolReturns, Graphs
<1>4. /\ Len(todo') = 2
      /\ todo'[1].op = "event" /\ todo'[1].name = "tool.completed"
      /\ todo'[1].call = mem.call /\ todo'[1].ok = ok /\ todo'[1].at = now
      /\ todo'[2].op = "cursor" /\ todo'[2].at = now
  BY <1>2 DEF Put, Op
<1>5. todo' \in Seq(Ops)
  <2>1. "tool.completed" \in EventTypes \ {"tool.call.proposed"}
    BY DEF EventTypes
  <2> QED BY <1>1, <1>2, <2>1, PutScript DEF Scripts
<1>6. Calm(todo')
  BY <1>4 DEF Calm, Outcomes
<1>7. mem.call \notin ApprovalCalls => ~mem.gate
  BY <1>1
<1>8. Reads(todo', mem'.done) /\ Fresh(mem') /\ Observed \subseteq mem'.done
  <2>1. Reads(todo', mem'.done)
    BY <1>1, <1>3, <1>4, <1>7 DEF Reads
  <2>2. Fresh(mem) /\ Observed \subseteq mem.done
    BY DEF NominalInv, ReadN
  <2> QED BY <1>1, <1>3, <2>1, <2>2 DEF Fresh
<1>9. QueueN' /\ ~Starting'
  BY <1>1, <1>2, <1>4, <1>5, <1>6, CalmQueue
<1>10. CountN'
  BY <1>1, <1>2, <1>3, <1>9, RestCount DEF BeforeCall
<1>11. LogN'
  BY <1>1, <1>2, RestLog
<1>12. ReadN'
  BY <1>2, <1>8, <1>9, RestRead
<1>13. TaskN'
  BY <1>1, <1>2, <1>3 DEF NominalInv, TaskN, IsTerminal
<1> QED BY <1>9, <1>10, <1>11, <1>12, <1>13 DEF NominalInv

LEMMA ValidateObservationN ==
  ASSUME LInv, NominalInv, ValidateObservation PROVE NominalInv'
<1> DEFINE g == [mem EXCEPT !.gate = FALSE, !.call = NoCall,
                            !.node = IF mem.queue = << >> THEN "model"
                                                          ELSE "validate"]
<1>1. Quiet /\ task = "graph" /\ mem.node = "observe" /\ Node(<< >>, g)
  BY DEF ValidateObservation, AtNode
<1>2. /\ g.done = mem.done /\ g.node \in {"model", "validate"}
      /\ g.queue = mem.queue
  BY LogTypes DEF Graphs
<1> HIDE DEF g
<1>3. Fresh(g) /\ Observed \subseteq g.done
  BY <1>2 DEF NominalInv, ReadN, Fresh
<1>4. << >> \in Seq(Ops)
  OBVIOUS
<1> QED BY <1>1, <1>2, <1>3, <1>4, NothingQueued, NodeN

LEMMA CompleteMessageN ==
  ASSUME LInv, NominalInv, now <= Deadline, CompleteMessage PROVE NominalInv'
<1> DEFINE g == [mem EXCEPT !.node = "end"]
           ops == Put("model.delta", NoCall, FALSE, now)
                    \o Put("message.completed", NoCall, FALSE, now)
                    \o Put("run.completed", NoCall, FALSE, now)
                    \o Keep("succeeded", NoCall, now)
<1>1. /\ Quiet /\ task = "graph" /\ mem.node = "complete" /\ todo = << >>
      /\ run.calls = Started /\ run.steps <= MaxSteps /\ Node(ops, g)
  BY AtRest DEF CompleteMessage, AtNode, Quiet, NominalInv, CountN
<1>2. g.node = "end" /\ Fresh(g) /\ Observed \subseteq g.done
  BY FreshMoves DEF Nodes
<1>3. /\ Len(ops) = 7 /\ ops # << >>
      /\ ops[1].op = "event" /\ ops[1].name = "model.delta"
      /\ ops[1].at = now
      /\ ops[2].op = "cursor" /\ ops[2].at = now
      /\ ops[3].op = "event" /\ ops[3].name = "message.completed"
      /\ ops[3].at = now
      /\ ops[4].op = "cursor" /\ ops[4].at = now
      /\ ops[5].op = "event" /\ ops[5].name = "run.completed"
      /\ ops[5].at = now
      /\ ops[6].op = "cursor" /\ ops[6].at = now
      /\ ops[7].op = "move" /\ ops[7].name = "succeeded"
      /\ ops[7].at = now /\ ops[7].steps = run.steps
      /\ ops[7].calls = run.calls
  BY DEF Put, Keep, Move, Op
<1>4. ops \in Seq(Ops)
  <2>1. /\ {"model.delta", "message.completed", "run.completed"}
              \subseteq EventTypes \ {"tool.call.proposed"}
        /\ "succeeded" \in Statuses
    BY DEF EventTypes, Statuses, Terminal
  <2> QED BY <2>1, LogTypes, PutScript, MoveScript, JoinedScripts
      DEF Keep, Scripts
<1> HIDE DEF ops, g
<1>5. Last(ops, Terminal)
  BY <1>3 DEF Last, Terminal
<1>6. Calm(ops) /\ Reads(ops, g.done)
  BY <1>1, <1>3, <1>5 DEF Calm, Reads, Outcomes
<1> QED BY <1>1, <1>2, <1>4, <1>5, <1>6, NodeN

LEMMA NodeStepN ==
  ASSUME LInv, NominalInv, now <= Deadline, NodeStep PROVE NominalInv'
  BY ReceiveRequestN, PrepareEvidenceRetrievalN, ModelDecisionN, ModelAnswersN,
     ValidateToolSchemaN, EnforceToolPolicyN, WaitForApprovalN, CallMcpToolN,
     SendCallN, ToolReturnsN, ValidateObservationN, CompleteMessageN
  DEF NodeStep

\* A session is open at no question for a human.
LEMMA TaskEscapesN == ASSUME LInv, NominalInv, TaskEscapes PROVE NominalInv'
<1>1. /\ Quiet /\ todo = << >> /\ todo' = << >> /\ up' = up
      /\ UNCHANGED <<run, log, mem, ckpt, seen>>
      /\ task' = "escaped" /\ phase' = "none"
  BY DEF TaskEscapes, Quiet, storeVars, logVars, worldVars
<1>2. mem.node # "approve"
  BY DEF TaskEscapes, InSession, LInv, IInv, TaskInv
<1>3. TaskN'
  BY <1>1, <1>2, AtRest DEF NominalInv, TaskN, IsTerminal
<1> QED BY <1>1, <1>3, IdleN

LEMMA NominalNext ==
  ASSUME LInv, crashes = 0 => WholeN, Nominal => NominalInv, [Next]_vars
  PROVE  Nominal' => NominalInv'
<1> SUFFICES ASSUME Nominal' PROVE NominalInv'
  OBVIOUS
<1>1. /\ crashes' \in {crashes, crashes + 1} /\ now' \in {now, now + 1}
      /\ crashes \in Nat /\ now \in Nat /\ Deadline \in Nat
  BY CrashesGrow, DeadlineAssumption DEF LInv, IInv, TypeOK
<1>2. NominalInv /\ WholeN /\ now <= Deadline /\ crashes' = crashes
  BY <1>1 DEF Nominal
<1>3. CASE StoreStep
  BY <1>2, <1>3, StoreStepNominal
<1>4. CASE TaskStep \/ SaveCheckpoint
  BY <1>2, <1>4, TaskStartN, TaskResumeN, NodeStepN, SaverN DEF TaskStep
<1>5. CASE TaskAborts \/ TaskEscapes
  BY <1>2, <1>5, RaiseN, TaskEscapesN DEF TaskAborts
<1>6. CASE Client
  BY <1>2, <1>6, RefreshN, CancelN, PostApprovalN DEF Client
<1>7. CASE Server \/ Tick \/ UNCHANGED vars
  <2>1. UNCHANGED <<storeVars, taskVars, ckpt, up, todo, by>>
    BY <1>7, ServerWorks DEF LInv, ServerOnly, Tick, vars, worldVars
  <2>2. UNCHANGED <<run, log, task, mem, phase, seen, ckpt, up, todo, by>>
    BY <2>1 DEF storeVars, logVars, taskVars
  <2>3. Started' = Started /\ Due' = Due /\ Starting' = Starting
    BY <2>2 DEF Started, Due, Starting
  <2>4. QueueN' /\ CountN' /\ TaskN' /\ LogN'
    BY <1>2, <2>2, <2>3
    DEF NominalInv, QueueN, QueueAt, CountN, BeforeCall, TaskN, LogN, IsTerminal,
        Moving
  <2>5. ReadN'
    BY <1>2, <2>2, <2>3
    DEF NominalInv, ReadN, Observed, SuccessfulReadOnce
  <2> QED BY <2>4, <2>5 DEF NominalInv
<1>8. CASE Crash
  BY <1>1, <1>2, <1>8 DEF Crash
<1>9. CASE Recover
  BY <1>2, <1>9 DEF Recover, NominalInv, TaskN
<1> QED BY <1>3, <1>4, <1>5, <1>6, <1>7, <1>8, <1>9 DEF Next

LEMMA NominalInvariance == Spec => [](LInv /\ (Nominal => NominalInv))
<1>1. Init => (crashes = 0 => WholeN) /\ (Nominal => NominalInv)
  BY NominalInit DEF Init, StoreInit, WholeN
<1>2. LInv /\ (crashes = 0 => WholeN) /\ [Next]_vars => (crashes = 0 => WholeN)'
  BY WholeNext
<1>3. LInv /\ (crashes = 0 => WholeN) /\ (Nominal => NominalInv) /\ [Next]_vars
        => (Nominal => NominalInv)'
  BY NominalNext
<1> QED BY <1>1, <1>2, <1>3, LogInvariance, PTL DEF Spec

\* tool_calls_completed is the number of tool.started events, less the one
\* being recorded, and _execute never passes config.max_tool_calls, whatever
\* the model asks for, as long as the process has not died.
THEOREM CallsAreCounted == Spec => [](Nominal => ToolCallsCounted)
<1>1. LInv /\ NominalInv => ToolCallsCounted
  <2> SUFFICES ASSUME LInv, NominalInv PROVE ToolCallsCounted
    OBVIOUS
  <2>1. run.calls <= Started /\ Started <= MaxToolCalls
    BY LogTypes, StartedNat DEF NominalInv, CountN
  <2> QED BY <2>1, AtRest DEF ToolCallsCounted
<1> QED BY <1>1, NominalInvariance, PTL

\* However the graph, the client's cancel, its approvals, an exception that
\* _execute and _resume list and the expiry interleave, no active run is left
\* without a task: only an exception they do not list does that.
THEOREM NoRunIsAbandoned == Spec => [](Nominal => ActiveRunHasTask)
<1>1. NominalInv => ActiveRunHasTask
  BY DEF NominalInv, TaskN, ActiveRunHasTask, IsTerminal, Terminal
<1> QED BY <1>1, NominalInvariance, PTL

\* The event log of a run opens with run.started, or with the failure that
\* came first, and an outcome event is its last line.
THEOREM OutcomeEndsLog == Spec => [](Nominal => OutcomeIsLast)
<1>1. NominalInv => OutcomeIsLast
  <2> SUFFICES ASSUME NominalInv, NEW i \in 1..Len(log)
               PROVE  /\ log[i].type = "run.started"
                           <=> i = 1 /\ log[1].type # "run.failed"
                      /\ log[i].type = "run.completed" => i = Len(log)
                      /\ log[i].type = "run.failed" => i = Len(log)
    BY DEF OutcomeIsLast
  <2>1. log # << >>
    OBVIOUS
  <2> QED BY <2>1 DEF NominalInv, LogN, Outcomes
<1> QED BY <1>1, NominalInvariance, PTL

\* A read call that has given a result is not executed a second time: neither
\* repeated in one answer of the model, nor in a later one, nor under another
\* call_id.
THEOREM ReadsRunOnce == Spec => [](Nominal => SuccessfulReadOnce)
<1>1. NominalInv => SuccessfulReadOnce
  BY DEF NominalInv, ReadN
<1> QED BY <1>1, NominalInvariance, PTL
=============================================================================
