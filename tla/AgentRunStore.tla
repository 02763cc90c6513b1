---------------------------- MODULE AgentRunStore ----------------------------
(***************************************************************************)
(* The durable files of one Agent run and the operations of AgentRunStore  *)
(* (src/tinyllm/agent/store.py) on them:                                   *)
(*                                                                         *)
(*   run        run.json, the AgentRunRecord projection                    *)
(*   log        events.jsonl, one line per AgentEvent                      *)
(*   tail       how events.jsonl ends: a line without its newline swallows *)
(*              the next one, and a line in part makes the log unreadable  *)
(*   approvals  approvals/<approval_id>.json, one file per decided call    *)
(*                                                                         *)
(* Every operator below is one durable write, or the condition under which *)
(* the store raises AgentStoreError instead of writing.  A caller that     *)
(* makes several writes makes several steps, so that a crash can come      *)
(* between any two of them.                                                *)
(***************************************************************************)
EXTENDS Integers, Sequences, FiniteSets

CONSTANTS
    Calls,           \* tool calls (call_id, tool and arguments) a model can emit
    NoCall,          \* "no call", for null fields
    Deadline,        \* expires_at of the run; created_at is time 0
    StepField,       \* upper bound of the field steps_completed (8 in the code)
    CallField        \* upper bound of the field tool_calls_completed (12)

ASSUME NoCallAssumption == NoCall \notin Calls
ASSUME DeadlineAssumption == Deadline \in Nat \ {0}
ASSUME FieldAssumption == StepField \in Nat \ {0} /\ CallField \in Nat \ {0}

VARIABLES run, log, tail, approvals

logVars == <<log, tail>>
storeVars == <<run, logVars, approvals>>

Terminal == {"succeeded", "failed", "cancelled", "expired"}
Statuses == Terminal \cup {"created", "running", "waiting_approval"}

EventTypes == {"run.started", "run.failed", "run.completed", "model.delta",
               "message.completed", "tool.call.proposed", "approval.required",
               "tool.started", "tool.completed"}

Decisions == {"approved", "rejected"}

\* The call field is the payload the properties need; ok is TRUE on a
\* tool.completed event that carries a result and FALSE on one with an error.
Events == [type : EventTypes, call : Calls \cup {NoCall}, ok : BOOLEAN]

RunRecords == [status : Statuses, pending : Calls \cup {NoCall},
               updated : Nat, steps : Nat, calls : Nat, cursor : Nat]

StoreInit ==
    /\ run = [status |-> "created", pending |-> NoCall, updated |-> 0,
              steps |-> 0, calls |-> 0, cursor |-> 0]
    /\ log = << >> /\ tail = "clean"
    /\ approvals = [c \in Calls |-> "none"]

(***************************************************************************)
(* AgentRunStore.load: the fields' bounds and AgentRunRecord.validate_state*)
(* are checked when run.json is read.  What a status implies of the other  *)
(* fields holds of every record transition writes; these three bounds do   *)
(* not, because append_event writes a model_copy that nothing validates    *)
(* and transition re-runs validate_state but not the field bounds.         *)
(***************************************************************************)
Loadable ==
    /\ run.updated <= Deadline
    /\ run.steps <= StepField
    /\ run.calls <= CallField

IsTerminal == run.status \in Terminal

\* events_after.
Readable == tail # "corrupt"

\* append_event, first write: the event line.
CanAppend == Loadable /\ ~IsTerminal /\ Readable /\ run.cursor <= Len(log)
AddLine(e, c, ok) == log' = Append(log, [type |-> e, call |-> c, ok |-> ok])
WriteEvent(e, c, ok) ==
    /\ AddLine(e, c, ok)
    /\ tail' = IF tail = "open" THEN "corrupt" ELSE tail
    /\ UNCHANGED <<run, approvals>>
\* The process dies in that write: the line is there in part, or but for its
\* end.
TearEvent(e, c, ok) ==
    /\ \/ tail' = "corrupt" /\ UNCHANGED log
       \/ tail = "clean" /\ tail' = "open" /\ AddLine(e, c, ok)
    /\ UNCHANGED <<run, approvals>>

\* append_event, second write: updated_at and last_event_sequence.
AdvanceCursor(t) ==
    /\ run' = [run EXCEPT !.updated = t, !.cursor = Len(log)]
    /\ UNCHANGED <<logVars, approvals>>

(***************************************************************************)
(* transition(status, ...): pending_* are reset to what the caller passes, *)
(* a counter that is not passed is kept.  validate_state refuses updated_at*)
(* after expires_at.                                                       *)
(***************************************************************************)
CanTransition(t) == Loadable /\ ~IsTerminal /\ t <= Deadline
Transition(s, c, steps, calls, t) ==
    /\ run' = [run EXCEPT !.status = s, !.pending = c, !.updated = t,
                          !.steps = steps, !.calls = calls]
    /\ UNCHANGED <<logVars, approvals>>

\* decide_approval: one immutable file per approval identity, and only for
\* the call the run waits on.
CanDecide(c) ==
    /\ Loadable
    /\ approvals[c] = "none"
    /\ run.status = "waiting_approval"
    /\ run.pending = c
DecideApproval(c, decision) ==
    /\ approvals' = [approvals EXCEPT ![c] = decision]
    /\ UNCHANGED <<run, logVars>>

\* Mutant: only a run that somebody works on can be due.
ExpiryDueActive(now) ==
    Loadable /\ run.status \in {"created", "running"} /\ now >= Deadline
\* expire_if_due: the guard of its two writes.
ExpiryDue(now) == Loadable /\ ~IsTerminal /\ now >= Deadline
=============================================================================
