------------------------------ MODULE AgentIntake ------------------------------
(***************************************************************************)
(* All runs of one Agent store together: POST /runs and AgentRunStore      *)
(* .create with its idempotency index (src/tinyllm/agent/store.py), the    *)
(* tasks of AgentExecutionService and its recovery at the start of the     *)
(* gateway (agent/api.py), and the event stream of a client that follows a *)
(* run over restarts.  What a task does inside a run is AgentRun's matter: *)
(* here it appends events and brings the run to its end.  A run that waits *)
(* for an approval, and idles over a restart, is left to AgentRun.         *)
(*                                                                         *)
(* As in AgentRun, a handler queues its durable writes in todo, nothing    *)
(* runs between them but a crash, and an error drops the rest.             *)
(***************************************************************************)
EXTENDS Integers, Sequences, FiniteSets

CONSTANTS
    Keys,           \* Idempotency-Key headers
    MaxRuns,        \* bound: run ids the store hands out
    Life,           \* expires_in
    MaxLines,       \* bound: after so many events a task only ends its run
    MaxTime,        \* bound: the clock stops here
    MaxFaults       \* bound: crashes, and writes of create that fail

ASSUME RunsAssumption == MaxRuns \in Nat \ {0}
ASSUME LifeAssumption == Life \in Nat \ {0}
ASSUME BoundAssumption ==
    MaxLines \in Nat /\ MaxTime \in Nat /\ MaxFaults \in Nat

Runs == 1..MaxRuns

VARIABLES
    files,      \* the files of create each run directory has
    key,        \* the key in the index of a run
    born,       \* created_at
    status,     \* run.json: status,
    cursor,     \* last_event_sequence,
    late,       \* and whether updated_at is after expires_at
    lines,      \* events.jsonl: the events written,
    tail,       \* and how its last line ends
    now, proc,  \* the clock; the gateway process
    task,       \* the asyncio task of each run; an "escaped" one is over
    todo, by,   \* the rest of the running handler, and whose it is
    stream,     \* the event stream of the client that follows a run
    got,        \* the last event of each run that client has received
    ended,      \* history: runs whose stream has come to its end
    told,       \* history: answers to POST /runs
    faults

fileVars == <<files, key, born>>
recordVars == <<status, cursor, late>>
logVars == <<lines, tail>>
clientVars == <<stream, got, ended, told>>
vars == <<fileVars, recordVars, logVars, now, proc, task, todo, by, clientVars,
          faults>>

CreateFiles == {"request", "record", "index", "events"}
Terminal == {"succeeded", "failed", "cancelled", "expired"}
Active == {"created", "running"}
NoKey == "none"
Closed == [run |-> 0, at |-> 0, upto |-> 0, phase |-> "closed"]

Init ==
    /\ files = [i \in Runs |-> {}] /\ key = [i \in Runs |-> NoKey]
    /\ born = [i \in Runs |-> 0]
    /\ status = [i \in Runs |-> "created"] /\ cursor = [i \in Runs |-> 0]
    /\ late = [i \in Runs |-> FALSE]
    /\ lines = [i \in Runs |-> 0] /\ tail = [i \in Runs |-> "clean"]
    /\ now = 0 /\ proc = "down" /\ task = [i \in Runs |-> "none"]
    /\ todo = <<>> /\ by = "api"
    /\ stream = Closed /\ got = [i \in Runs |-> 0] /\ ended = {} /\ told = {}
    /\ faults = 0

\* The event loop is at an await: another handler can start.
Quiet == proc = "up" /\ todo = <<>>
Recorded == {i \in Runs : "record" \in files[i]}
Expiry(i) == born[i] + Life

\* AgentRunStore.load; events_after.
Loadable(i) == i \in Recorded /\ ~late[i]
Readable(i) == "events" \in files[i] /\ tail[i] # "corrupt"
Ended(i) == status[i] \in Terminal

-----------------------------------------------------------------------------
(* Durable writes, and what else a handler does between two of them.       *)

Op(name, i, to, at) == [op |-> name, run |-> i, to |-> to, at |-> at]
Do(name, i) == Op(name, i, "", 0)
\* append_event and transition.
Put(i, t) == <<Op("line", i, "", t), Op("cursor", i, "", t)>>
Move(i, s, t) == <<Op("move", i, s, t)>>
FailOps(i) == Put(i, now) \o Move(i, "failed", now) \o <<Do("done", i)>>
ExpireOps(i) == Put(i, Expiry(i)) \o Move(i, "expired", Expiry(i))

\* Mutant: the client is answered before the index is written.
CreateOpsReplyFirst(i) ==
    <<Do("request", i), Do("record", i), Do("start", i), Do("reply", i),
      Do("index", i), Do("events", i)>>
\* create, then service.start, then the answer.
CreateOps(i) ==
    <<Do("request", i), Do("record", i), Do("index", i), Do("events", i),
      Do("start", i), Do("reply", i)>>

\* recover goes through the records in the order of their names; when it is
\* through, the gateway serves.
First(S) == CHOOSE i \in S : \A j \in S : i <= j
RecoverAfter(i) ==
    LET rest == {j \in Recorded : i < j}
    IN  IF rest = {} THEN <<Do("serve", 0)>>
        ELSE <<Do("expire", First(rest)), Do("recover", First(rest))>>

Idle == UNCHANGED <<now, proc, task, by, clientVars, faults>>
Handle(ops, who) ==
    /\ todo' = ops /\ by' = who
    /\ UNCHANGED <<fileVars, recordVars, logVars, now, proc, task, clientVars,
                   faults>>

\* A file of create.
WriteFile(op) ==
    /\ op.op \in CreateFiles
    /\ files' = [files EXCEPT ![op.run] = @ \cup {op.op}]
    /\ todo' = Tail(todo)
    /\ Idle /\ UNCHANGED <<key, born, recordVars, logVars>>

\* append_event, first write.  On a line without its end the new one is lost
\* and takes the old one with it.
CanAppend(i) == Loadable(i) /\ ~Ended(i) /\ Readable(i) /\ cursor[i] <= lines[i]
WriteLine(op) ==
    /\ op.op = "line" /\ CanAppend(op.run)
    /\ lines' = [lines EXCEPT ![op.run] = @ + 1]
    /\ tail' = [tail EXCEPT ![op.run] = IF @ = "open" THEN "corrupt" ELSE @]
    /\ todo' = Tail(todo)
    /\ Idle /\ UNCHANGED <<fileVars, recordVars>>

\* append_event, second write.
WriteCursor(op) ==
    /\ op.op = "cursor"
    /\ cursor' = [cursor EXCEPT ![op.run] = lines[op.run]]
    /\ late' = [late EXCEPT ![op.run] = op.at > Expiry(op.run)]
    /\ todo' = Tail(todo)
    /\ Idle /\ UNCHANGED <<fileVars, status, logVars>>

CanMove(op) == Loadable(op.run) /\ ~Ended(op.run) /\ op.at <= Expiry(op.run)
WriteStatus(op) ==
    /\ op.op = "move" /\ CanMove(op)
    /\ status' = [status EXCEPT ![op.run] = op.to]
    /\ todo' = Tail(todo)
    /\ Idle /\ UNCHANGED <<fileVars, cursor, late, logVars>>

\* expire_if_due: nothing, or an event and a transition at expires_at.
Expire(op) ==
    /\ op.op = "expire" /\ Loadable(op.run)
    /\ todo' = (IF ~Ended(op.run) /\ now >= Expiry(op.run)
                  THEN ExpireOps(op.run) ELSE <<>>) \o Tail(todo)
    /\ Idle /\ UNCHANGED <<fileVars, recordVars, logVars>>

\* Mutant: only runs that have begun are recovered.
RecoverRunning(i) == status[i] = "running"
\* recover starts what is created or running; whatever waits stays idle.
RecoverDue(i) == status[i] \in Active
\* service.start, after create or in recover.
StartTask(op) ==
    /\ \/ op.op = "start" /\ todo' = Tail(todo)
       \/ op.op = "recover" /\ todo' = RecoverAfter(op.run)
    /\ task' = IF op.op = "start" \/ RecoverDue(op.run)
                 THEN [task EXCEPT ![op.run] = "start"] ELSE task
    /\ UNCHANGED <<fileVars, recordVars, logVars, now, proc, by, clientVars, faults>>

\* The last act of a task.
EndTask(op) ==
    /\ op.op = "done"
    /\ task' = [task EXCEPT ![op.run] = "none"]
    /\ todo' = Tail(todo)
    /\ UNCHANGED <<fileVars, recordVars, logVars, now, proc, by, clientVars, faults>>

Answer(i) == told' = told \cup {<<key[i], i>>}
Reply(op) ==
    /\ op.op = "reply" /\ Answer(op.run)
    /\ todo' = Tail(todo)
    /\ UNCHANGED <<fileVars, recordVars, logVars, now, proc, task, by, stream, got,
                   ended, faults>>

\* list_records raises if any record does not load.
ListRecords(op) ==
    /\ op.op = "list" /\ \A i \in Recorded : Loadable(i)
    /\ todo' = RecoverAfter(0)
    /\ Idle /\ UNCHANGED <<fileVars, recordVars, logVars>>
Serve(op) ==
    /\ op.op = "serve" /\ proc' = "up" /\ todo' = Tail(todo)
    /\ UNCHANGED <<fileVars, recordVars, logVars, now, task, by, clientVars, faults>>

\* The stream of a run whose refresh did not raise begins at Last-Event-ID.
OpenStream(op) ==
    /\ op.op = "open"
    /\ stream' = [run |-> op.run, at |-> got[op.run], upto |-> got[op.run],
                  phase |-> "read"]
    /\ todo' = Tail(todo)
    /\ UNCHANGED <<fileVars, recordVars, logVars, now, proc, task, by, got, ended,
                   told, faults>>
\* Mutant: the stream ends as soon as the run has.
StreamOverEarly(i) == Ended(i)
\* The stream ends when the run has, and all its events are sent.
StreamOver(i) == Ended(i) /\ stream.at >= cursor[i]
DecideStream(op) ==
    /\ op.op = "decide"
    /\ IF StreamOver(op.run)
         THEN stream' = Closed /\ ended' = ended \cup {op.run}
         ELSE stream' = [stream EXCEPT !.phase = "read"] /\ UNCHANGED ended
    /\ todo' = Tail(todo)
    /\ UNCHANGED <<fileVars, recordVars, logVars, now, proc, task, by, got, told,
                   faults>>

\* AgentStoreError: an answer 404 or 409, the end of a stream, a failed start
\* of the gateway, or _fail_if_running, whose own error ends the task.
Raises(op) ==
    \/ op.op = "line" /\ ~CanAppend(op.run)
    \/ op.op = "move" /\ ~CanMove(op)
    \/ op.op = "expire" /\ ~Loadable(op.run)
    \/ op.op = "list" /\ \E i \in Recorded : ~Loadable(i)
Fail(i) ==
    /\ IF Loadable(i) /\ ~Ended(i)
         THEN todo' = FailOps(i) /\ by' = "dying" /\ UNCHANGED task
         ELSE todo' = <<>> /\ by' = "task" /\ task' = [task EXCEPT ![i] = "none"]
    /\ UNCHANGED <<fileVars, recordVars, logVars, now, proc, clientVars, faults>>
GiveUp(op) ==
    /\ todo' = <<>>
    /\ stream' = IF by = "stream" THEN Closed ELSE stream
    /\ proc' = IF by = "startup" THEN "down" ELSE proc
    /\ task' = CASE by = "startup" -> [i \in Runs |-> "none"]
                 [] by = "dying" -> [task EXCEPT ![op.run] = "none"]
                 [] OTHER -> task
    /\ UNCHANGED <<fileVars, recordVars, logVars, now, by, got, ended, told, faults>>

Step ==
    /\ proc # "down" /\ todo # <<>>
    /\ LET op == Head(todo) IN
         \/ WriteFile(op) \/ WriteLine(op) \/ WriteCursor(op) \/ WriteStatus(op)
         \/ Expire(op) \/ StartTask(op) \/ EndTask(op) \/ Reply(op)
         \/ ListRecords(op) \/ Serve(op) \/ OpenStream(op) \/ DecideStream(op)
         \/ Raises(op) /\ IF by = "task" THEN Fail(op.run) ELSE GiveUp(op)

-----------------------------------------------------------------------------
(* The handlers.                                                           *)

\* Mutant: a run that has ended is not found again.
IndexedActive(k) == {i \in Runs : "index" \in files[i] /\ key[i] = k /\ ~Ended(i)}
\* The run idempotency.json names for a key.
Indexed(k) == {i \in Runs : "index" \in files[i] /\ key[i] = k}

\* POST /runs.  A known key answers with its run (or 409, with no effect, if
\* the body differs or the record does not load); a new one makes a directory, whose name has
\* the time of its creation and so comes after the others.
PostKnown(k) ==
    /\ Quiet
    /\ \E i \in Indexed(k) : Loadable(i) /\ Answer(i)
    /\ UNCHANGED <<fileVars, recordVars, logVars, now, proc, task, todo, by, stream,
                   got, ended, faults>>
PostNew(k) ==
    /\ Quiet /\ Indexed(k) = {}
    /\ \E i \in Runs :
         /\ files[i] = {} /\ \A j \in Runs : j < i => files[j] # {}
         /\ key' = [key EXCEPT ![i] = k]
         /\ born' = [born EXCEPT ![i] = now]
         /\ todo' = CreateOps(i)
    /\ by' = "create"
    /\ UNCHANGED <<files, recordVars, logVars, now, proc, task, clientVars, faults>>
\* OSError in create: the answer is 409, and what was written stays.
CreateFails ==
    /\ todo # <<>> /\ Head(todo).op \in CreateFiles /\ faults < MaxFaults
    /\ todo' = <<>> /\ faults' = faults + 1
    /\ UNCHANGED <<fileVars, recordVars, logVars, now, proc, task, by, clientVars>>

\* _execute reads the log, and runtime.run refuses a run that has ended.
TaskStart(i) ==
    /\ Quiet /\ task[i] = "start"
    /\ IF Readable(i) /\ Loadable(i) /\ ~Ended(i)
         THEN /\ task' = [task EXCEPT ![i] = "work"] /\ by' = "task"
              /\ todo' = IF status[i] = "created"
                           THEN Move(i, "running", now) \o Put(i, now) ELSE <<>>
              /\ UNCHANGED <<fileVars, recordVars, logVars, now, proc, clientVars,
                             faults>>
         ELSE Fail(i)
\* An event of a node.
TaskWorks(i) ==
    /\ Quiet /\ task[i] = "work" /\ lines[i] < MaxLines
    /\ Handle(Put(i, now), "task")
\* complete_message; _fail, or an exception that _execute lists or
\* run_timeout_seconds.
TaskEnds(i) ==
    /\ Quiet /\ task[i] = "work"
    /\ \/ Handle(Put(i, now) \o Move(i, "succeeded", now) \o <<Do("done", i)>>, "task")
       \/ Fail(i)

\* The task ends with an exception that _execute does not list, as the MCP
\* client makes it out of every error inside a session: nobody records it.
TaskEscapes(i) ==
    /\ Quiet /\ task[i] = "work"
    /\ task' = [task EXCEPT ![i] = "escaped"]
    /\ UNCHANGED <<fileVars, recordVars, logVars, now, proc, todo, by, clientVars,
                   faults>>

\* Any read of a run expires it when it is due.
Refresh(i) ==
    /\ Quiet /\ Loadable(i) /\ ~Ended(i) /\ now >= Expiry(i)
    /\ Handle(<<Do("expire", i)>>, "api")
\* The task is cancelled first, whatever becomes of the transition.
Cancel(i) ==
    /\ Quiet /\ i \in Recorded /\ ~Ended(i)
    /\ task' = [task EXCEPT ![i] = "none"]
    /\ todo' = Move(i, "cancelled", now) /\ by' = "api"
    /\ UNCHANGED <<fileVars, recordVars, logVars, now, proc, clientVars, faults>>

\* GET /runs/{id}/events, by a client that was told the run.
Told == {t[2] : t \in told}
Follow(i) ==
    /\ Quiet /\ stream = Closed /\ i \in Told \ ended
    /\ Handle(<<Do("expire", i), Do("open", i)>>, "stream")
CheckOps(i) == <<Do("expire", i), Do("decide", i)>>
\* events_after; with nothing to send the loop goes straight to its check.
StreamRead ==
    /\ Quiet /\ stream.phase = "read"
    /\ LET i == stream.run IN
         IF ~Readable(i)
           THEN stream' = Closed /\ UNCHANGED <<todo, by>>
           ELSE /\ stream' = [stream EXCEPT !.upto = lines[i], !.phase = "yield"]
                /\ IF lines[i] > stream.at
                     THEN UNCHANGED <<todo, by>>
                     ELSE todo' = CheckOps(i) /\ by' = "stream"
    /\ UNCHANGED <<fileVars, recordVars, logVars, now, proc, task, got, ended, told,
                   faults>>
\* Mutant: one event more than the log has.
MoreOrEqual == stream.at <= stream.upto
More == stream.at < stream.upto
\* Each yield lets other handlers run.
StreamYield ==
    /\ Quiet /\ stream.phase = "yield" /\ More
    /\ stream' = [stream EXCEPT !.at = @ + 1]
    /\ got' = [got EXCEPT ![stream.run] = stream.at + 1]
    /\ UNCHANGED <<fileVars, recordVars, logVars, now, proc, task, todo, by, ended,
                   told, faults>>
StreamCheck ==
    /\ Quiet /\ stream.phase = "yield" /\ ~More
    /\ Handle(CheckOps(stream.run), "stream")
Disconnect ==
    /\ Quiet /\ stream # Closed /\ stream' = Closed
    /\ UNCHANGED <<fileVars, recordVars, logVars, now, proc, task, todo, by, got,
                   ended, told, faults>>

\* The lifespan of the gateway: recover, or no gateway.
Startup ==
    /\ proc = "down"
    /\ proc' = "starting" /\ by' = "startup"
    /\ todo' = <<Do("list", 0)>>
    /\ UNCHANGED <<fileVars, recordVars, logVars, now, task, clientVars, faults>>

\* A line that was being written may be on disk in part, or but for its end.
TornLine ==
    /\ todo # <<>> /\ Head(todo).op = "line" /\ CanAppend(Head(todo).run)
    /\ LET i == Head(todo).run IN
         \/ tail' = [tail EXCEPT ![i] = "corrupt"] /\ UNCHANGED lines
         \/ /\ tail[i] = "clean" /\ tail' = [tail EXCEPT ![i] = "open"]
            /\ lines' = [lines EXCEPT ![i] = @ + 1]
Crash ==
    /\ proc # "down" /\ faults < MaxFaults
    /\ faults' = faults + 1
    /\ TornLine \/ UNCHANGED logVars
    /\ proc' = "down" /\ todo' = <<>> /\ task' = [i \in Runs |-> "none"]
    /\ stream' = Closed
    /\ UNCHANGED <<fileVars, recordVars, now, by, got, ended, told>>

Tick ==
    /\ todo = <<>> /\ now < MaxTime /\ now' = now + 1
    /\ UNCHANGED <<fileVars, recordVars, logVars, proc, task, todo, by, clientVars,
                   faults>>

Task(i) == TaskStart(i) \/ TaskWorks(i) \/ TaskEnds(i)
Stream == StreamRead \/ StreamYield \/ StreamCheck
Next ==
    \/ Step \/ CreateFails \/ Stream \/ Disconnect \/ Startup \/ Crash \/ Tick
    \/ \E k \in Keys : PostKnown(k) \/ PostNew(k)
    \/ \E i \in Runs : Task(i) \/ TaskEscapes(i) \/ Refresh(i) \/ Cancel(i) \/ Follow(i)

Spec == Init /\ [][Next]_vars

\* The event loop runs what is ready, a task has its timeout, and the process
\* is started again.
Fairness ==
    /\ WF_vars(Step) /\ WF_vars(Startup)
    /\ \A i \in Runs : SF_vars(TaskStart(i)) /\ SF_vars(TaskEnds(i))
FairSpec == Spec /\ Fairness
-----------------------------------------------------------------------------
(* Properties.                                                             *)

\* Every variable has its type.
TypeOK ==
    /\ files \in [Runs -> SUBSET CreateFiles]
    /\ key \in [Runs -> Keys \cup {NoKey}] /\ born \in [Runs -> Nat]
    /\ status \in [Runs -> Active \cup Terminal]
    /\ late \in [Runs -> BOOLEAN] /\ lines \in [Runs -> Nat]
    /\ tail \in [Runs -> {"clean", "open", "corrupt"}]
    /\ now \in 0..MaxTime /\ proc \in {"down", "starting", "up"}
    /\ task \in [Runs -> {"none", "start", "work", "escaped"}]
    /\ by \in {"api", "create", "stream", "startup", "task", "dying"}
    /\ stream.phase \in {"closed", "read", "yield"} /\ stream.run \in {0} \cup Runs
    /\ \A i \in Runs : cursor[i] \in 0..lines[i] /\ got[i] \in 0..lines[i]
    /\ ended \subseteq Runs
    /\ told \subseteq Keys \X Runs /\ faults \in 0..MaxFaults

\* Whatever crashes between the writes of create, two answers to one
\* Idempotency-Key name the same run.
KeyNamesOneRun ==
    \A s, t \in told : s[1] = t[1] => s = t

\* Each fault leaves at most one run a key knows nothing of, which recovery
\* executes nevertheless.
RunsPerKey ==
    \A k \in Keys : Cardinality({i \in Recorded : key[i] = k}) <= 1 + faults

\* A stream that ends has sent the whole log of a run that has ended, over
\* all reconnections and restarts.
StreamSendsAll == \A i \in ended : Ended(i) /\ got[i] = lines[i]

\* A run that can be neither read nor written any more.
Broken(i) == i \in Recorded /\ ~(Loadable(i) /\ Readable(i))

\* A run whose task a cancellation stopped when its deadline had passed, so
\* that the transition was refused: the next read or recovery expires it.
Overdue(i) == task[i] = "none" /\ now > Expiry(i)

\* A run a client was told of is never forgotten by a gateway that serves:
\* while it is active it has its task, unless it is overdue, its files are
\* beyond repair, or an exception ended the task that _execute does not list.
ToldRunHasTask ==
    \A i \in Told :
        Quiet /\ status[i] \in Active /\ ~Broken(i) /\ ~Overdue(i) =>
            task[i] \in {"start", "work", "escaped"}

\* And it comes to its end, or is only waiting for a read that expires it,
\* whatever becomes of the process, as long as no run of the store is broken:
\* a broken one can keep the gateway down.  Nothing but that read or a restart
\* helps a run whose task ended with an exception nobody caught.
ToldRunEnds ==
    \A i \in Runs :
        i \in Told ~> \/ Ended(i) \/ Overdue(i) \/ task[i] = "escaped"
                    \/ \E j \in Runs : Broken(j)
=============================================================================
