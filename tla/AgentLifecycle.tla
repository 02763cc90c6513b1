---------------------------- MODULE AgentLifecycle ----------------------------
(***************************************************************************)
(* What the Agent API promises its clients of one run (docs/m8_agent_      *)
(* contract.md, AgentRunRecord.validate_state): a status that follows the  *)
(* lifecycle and stops at a terminal one, an event log that only grows and *)
(* explains the status, and a sandbox whose files get only patches that a  *)
(* human approved, each by a request that has found its file missing.  Two *)
(* requests may find that before either writes.  It knows nothing of       *)
(* processes, tasks, crashes or time.                                      *)
(***************************************************************************)
EXTENDS Sequences, Naturals

CONSTANTS Calls, NoCall, ApprovalCalls, Sig, Files, File, EventTypes,
          Numbers     \* what tells apart the requests of one call

VARIABLES status, pending, log, decided,
          sandbox,    \* by file: identity of its patch, or NoCall
          cleared     \* requests, as call and number, that found their file missing

sandboxVars == <<sandbox, cleared>>
lifecycleVars == <<status, pending, log, decided, sandboxVars>>

Final == {"succeeded", "failed", "cancelled", "expired"}

Init ==
    /\ status = "created" /\ pending = NoCall
    /\ log = << >>
    /\ decided = [c \in Calls |-> "none"]
    /\ sandbox = [f \in Files |-> NoCall] /\ cleared = {}

LastIs(type, c) ==
    /\ log # << >>
    /\ log[Len(log)].type = type /\ log[Len(log)].call = c

\* A tool that needs an approval is started only with one.
Record(type, c, ok) ==
    /\ status \notin Final
    /\ type = "tool.started" /\ c \in ApprovalCalls => decided[c] = "approved"
    /\ log' = Append(log, [type |-> type, call |-> c, ok |-> ok])
    /\ UNCHANGED <<status, pending, decided, sandboxVars>>

\* Work goes on; a run that waits goes on only once its call is decided.
Run ==
    /\ status \notin Final
    /\ status = "waiting_approval" => decided[pending] # "none"
    /\ status' = "running" /\ pending' = NoCall
    /\ UNCHANGED <<log, decided, sandboxVars>>

Suspend(c) ==
    /\ status \notin Final
    /\ c \in ApprovalCalls /\ LastIs("approval.required", c)
    /\ status' = "waiting_approval" /\ pending' = c
    /\ UNCHANGED <<log, decided, sandboxVars>>

\* The outcome is the last thing the log says.  A cancellation has no event.
Finish(s) ==
    /\ status \notin Final
    /\ s = "succeeded" => LastIs("run.completed", NoCall)
    /\ s \in {"failed", "expired"} => LastIs("run.failed", NoCall)
    /\ status' = s /\ pending' = NoCall
    /\ UNCHANGED <<log, decided, sandboxVars>>

\* A decision is about the call the run waits on, and is never changed.
Decide(c, d) ==
    /\ status = "waiting_approval" /\ pending = c /\ decided[c] = "none"
    /\ decided' = [decided EXCEPT ![c] = d]
    /\ UNCHANGED <<status, pending, log, sandboxVars>>

Clear(c, n) ==
    /\ c \in ApprovalCalls /\ decided[c] = "approved"
    /\ sandbox[File[c]] = NoCall
    /\ cleared' = cleared \cup {<<c, n>>}
    /\ UNCHANGED <<status, pending, log, decided, sandbox>>

Patch(c, n) ==
    /\ <<c, n>> \in cleared /\ cleared' = cleared \ {<<c, n>>}
    /\ sandbox' = [sandbox EXCEPT ![File[c]] = Sig[c]]
    /\ UNCHANGED <<status, pending, log, decided>>

Next ==
    \/ \E type \in EventTypes, c \in Calls \cup {NoCall}, ok \in BOOLEAN :
         Record(type, c, ok)
    \/ Run
    \/ \E c \in Calls : Suspend(c)
    \/ \E c \in Calls, n \in Numbers : Clear(c, n) \/ Patch(c, n)
    \/ \E s \in Final : Finish(s)
    \/ \E c \in Calls, d \in {"approved", "rejected"} : Decide(c, d)

Spec == Init /\ [][Next]_lifecycleVars
=============================================================================
