---------------------------- MODULE DistributedRun ----------------------------
(***************************************************************************)
(* run_ddp_recovery and run_fsdp2_recovery (src/tinyllm/training/          *)
(* ddp_recovery.py, fsdp2_recovery.py) on one run directory: a world of    *)
(* ranks that torchrun starts, that runs in step through its collectives,  *)
(* of which rank 0 alone writes to the run directory, that loses ranks at  *)
(* any point, and that is started again in exact resume mode.  The two     *)
(* programs share their shape, and differ where the variable strategy is   *)
(* asked for.                                                              *)
(***************************************************************************)
EXTENDS CheckpointStore, Sequences

CONSTANTS
    WorldSize,      \* distributed.world_size
    SaveSteps,      \* checkpoint.save_steps
    MaxDeaths,      \* bound: ranks that die of something of their own
    MaxErrors       \* bound: saves that fail with an I/O error

ASSUME WorldSizeAssumption == WorldSize \in Nat \ {0}
ASSUME SaveStepsAssumption == SaveSteps \in Nat \ {0}
ASSUME BoundAssumption == MaxDeaths \in Nat /\ MaxErrors \in Nat

Ranks == 0..WorldSize - 1

VARIABLES
    strategy,   \* "ddp" or "fsdp2"
    pc,         \* where the ranks are that live; "down" between two worlds
    dead,       \* the ranks of this world that have died
    rstep,      \* the step of each rank's state, NoStep before it has one
    chosen,     \* the step of the checkpoint rank 0 selected and broadcast
    parts,      \* fsdp2: ranks whose shard is in the temporary directory
    stop,       \* stop_after_step or fail_after_step of this launch
    saved,      \* latest_parameter_hash # "": this world saved a checkpoint
    rows,       \* metrics.jsonl: the steps of its rows
    torn,       \* metrics.jsonl ends in a part of a row
    record,     \* run.json: status, and the checkpoint it reports
    deaths, errors

worldVars == <<pc, dead, rstep, chosen, parts, stop, saved>>
runVars == <<rows, torn, record>>
countVars == <<deaths, errors>>
vars == <<diskVars, save, worldVars, runVars, countVars, strategy>>

Places == {"down", "select", "restore", "loop", "metric", "gather", "shards",
           "save", "report"}
Outcomes == {"interrupted", "failure_injected"}
NoStop == [kind |-> "none", step |-> NoStep]

NoDisk == UNCHANGED <<diskVars, save>>

Init ==
    /\ StoreInit
    /\ strategy \in {"ddp", "fsdp2"}
    /\ pc = "down" /\ dead = {} /\ rstep = [k \in Ranks |-> NoStep]
    /\ chosen = NoStep /\ parts = {} /\ stop = NoStop /\ saved = FALSE
    /\ rows = <<>> /\ torn = FALSE
    /\ record = [status |-> "absent", checkpoint |-> NoStep]
    /\ deaths = 0 /\ errors = 0

\* A step of the ranks together: nobody gets past a collective without all.
Together(place) == pc = place /\ dead = {}
\* A step of rank 0 alone; the others are, or will be, at the next collective.
RankZero(place) == pc = place /\ 0 \notin dead
step == rstep[0]

\* Every process of the world is gone.
Down ==
    /\ pc' = "down" /\ dead' = {} /\ rstep' = [k \in Ranks |-> NoStep]
    /\ chosen' = NoStep /\ parts' = {} /\ stop' = NoStop /\ saved' = FALSE

GoOn(place) ==
    /\ pc' = place
    /\ UNCHANGED <<dead, rstep, chosen, parts, stop, saved>>

\* --stop-after-step and --fail-after-step of a launch that goes on from
\* current; one that the program refuses is a launch that changes nothing.
Stops(current) ==
    {NoStop} \cup
        IF strategy = "ddp"
          THEN [kind : Outcomes, step : current + 1 .. MaxSteps]
          ELSE [kind : {"interrupted"}, step : current + 1 .. MaxSteps - 1]

EnterLoop(current) ==
    /\ pc' = "loop" /\ stop' \in Stops(current)
    /\ rstep' = [k \in Ranks |-> current]
    /\ UNCHANGED <<dead, chosen, parts, saved>>

Fresh ==
    /\ pc = "down" /\ record.status = "absent"
    /\ record' = [status |-> "running", checkpoint |-> NoStep]
    /\ EnterLoop(0)
    /\ NoDisk /\ UNCHANGED <<rows, torn, countVars, strategy>>

\* run.json is read and not written.
Resume ==
    /\ pc = "down" /\ record.status # "absent" /\ GoOn("select")
    /\ NoDisk /\ UNCHANGED <<runVars, countVars, strategy>>

UpTo(s) == SelectSeq(rows, LAMBDA row : row <= s)
Canonical(s) == [i \in 1..s |-> i]
\* Mutant: the rows behind the checkpoint stay.
KeepAllRows(s) == rows
\* _truncate_metrics: the rows behind the checkpoint go.
Truncated(s) == UpTo(s)

\* Rank 0 selects the newest valid checkpoint, reconciles the metrics with it
\* and broadcasts the choice.  With DDP its exception is its own; with FSDP2
\* every rank raises.  A row that was cut off cannot be parsed, whichever
\* checkpoint is selected, and nothing ever takes it away.
Select ==
    /\ Together("select")
    /\ IF Valid # {} /\ ~torn /\ UpTo(LatestValid) = Canonical(LatestValid)
         THEN /\ chosen' = LatestValid /\ pc' = "restore"
              /\ rows' = Truncated(LatestValid)
              /\ UNCHANGED <<dead, rstep, parts, stop, saved>>
         ELSE /\ \/ strategy = "fsdp2" /\ Down
                 \/ /\ strategy = "ddp" /\ dead' = {0}
                    /\ UNCHANGED <<pc, rstep, chosen, parts, stop, saved>>
              /\ UNCHANGED rows
    /\ NoDisk /\ UNCHANGED <<torn, record, countVars, strategy>>

\* Mutant: a rank restores what it selects itself.
RestoreOwn(k) ==
    /\ pc = "restore" /\ k \notin dead /\ rstep[k] = NoStep
    /\ IF Valid # {} THEN /\ rstep' = [rstep EXCEPT ![k] = LatestValid]
                          /\ UNCHANGED dead
                     ELSE dead' = dead \cup {k} /\ UNCHANGED rstep
    /\ NoDisk
    /\ UNCHANGED <<pc, chosen, parts, stop, saved, runVars, countVars, strategy>>
\* Each rank validates the chosen checkpoint for itself before it applies it.
Restore(k) ==
    /\ pc = "restore" /\ k \notin dead /\ rstep[k] = NoStep
    /\ IF chosen \in Valid THEN /\ rstep' = [rstep EXCEPT ![k] = chosen]
                                /\ UNCHANGED dead
                           ELSE dead' = dead \cup {k} /\ UNCHANGED rstep
    /\ NoDisk
    /\ UNCHANGED <<pc, chosen, parts, stop, saved, runVars, countVars, strategy>>

\* The barrier of the restore, after which the loop begins.
Restored ==
    /\ Together("restore") /\ \A k \in Ranks : rstep[k] # NoStep
    /\ pc' = "loop" /\ stop' \in Stops(chosen)
    /\ NoDisk
    /\ UNCHANGED <<dead, rstep, chosen, parts, saved, runVars, countVars,
                   strategy>>

\* One optimizer step: forward, backward and the gathered loss are collective.
TrainStep ==
    /\ Together("loop") /\ step < MaxSteps
    /\ rstep' = [k \in Ranks |-> rstep[k] + 1]
    /\ pc' = "metric"
    /\ NoDisk
    /\ UNCHANGED <<dead, chosen, parts, stop, saved, runVars, countVars,
                   strategy>>

AtStop == stop.step = step
SaveDue == step % SaveSteps = 0 \/ AtStop \/ step = MaxSteps
Pin == CASE AtStop -> "interruption"
         [] ~AtStop /\ step = MaxSteps -> "final"
         [] OTHER -> "none"

\* The row of the step is durable before its checkpoint.
AppendMetric ==
    /\ RankZero("metric")
    /\ rows' = Append(rows, step)
    /\ GoOn(IF SaveDue THEN "gather" ELSE "loop")
    /\ NoDisk /\ UNCHANGED <<torn, record, countVars, strategy>>

\* The ranks agree to save.  DDP gathers every rank's state at rank 0; FSDP2
\* lets every rank write its own shard.  A destination that exists is an error
\* that rank 0 broadcasts, and that every rank raises.
Gather ==
    /\ Together("gather")
    /\ \/ DestinationExists(step) /\ Down /\ NoDisk
       \/ strategy = "ddp" /\ BeginSave(step, Pin) /\ GoOn("save")
       \/ /\ strategy = "fsdp2" /\ ~DestinationExists(step) /\ pc' = "shards"
          /\ NoDisk /\ UNCHANGED <<dead, rstep, chosen, parts, stop, saved>>
    /\ UNCHANGED <<runVars, countVars, strategy>>

WriteShard(k) ==
    /\ pc = "shards" /\ k \notin dead \cup parts
    /\ parts' = parts \cup {k}
    /\ NoDisk
    /\ UNCHANGED <<pc, dead, rstep, chosen, stop, saved, runVars, countVars,
                   strategy>>

\* The barrier behind the shards, and the set of rank files _publish compares.
Publish ==
    /\ Together("shards") /\ parts = Ranks /\ parts' = {}
    /\ BeginSave(step, Pin)
    /\ pc' = "save"
    /\ UNCHANGED <<dead, rstep, chosen, stop, saved, runVars, countVars,
                   strategy>>

SaveProceeds ==
    /\ RankZero("save")
    /\ WriteTemporary \/ RenameTemporary \/ ValidatePublished
         \/ UpdateLatest \/ RemoveExpired
    /\ UNCHANGED <<worldVars, runVars, countVars, strategy>>

\* Rank 0 broadcasts that the checkpoint is published.
SaveReturns ==
    /\ Together("save") /\ EndSave
    /\ saved' = TRUE /\ pc' = IF AtStop THEN "report" ELSE "loop"
    /\ UNCHANGED <<dead, rstep, chosen, parts, stop, runVars, countVars,
                   strategy>>

\* Rank 0 broadcasts the error.  A DDP save takes back what it published
\* unless LATEST names it; an FSDP2 save removes its temporary directory only.
GiveUpSave ==
    /\ Together("save")
    /\ IF strategy = "ddp" THEN FailSave ELSE KillSave
    /\ Down
    /\ UNCHANGED <<runVars, deaths, strategy>>
\* What was published does not pass validate.
SaveRejected ==
    /\ SaveAt("validate") /\ dirs[save.step] # "valid"
    /\ GiveUpSave /\ UNCHANGED errors
\* An I/O error anywhere in save.
SaveFails ==
    /\ errors < MaxErrors /\ errors' = errors + 1
    /\ GiveUpSave

\* A coordinated stop, or the rank exit --fail-after-step asks for: run.json,
\* a barrier, and the world ends.
Report ==
    /\ RankZero("report")
    /\ record' = [status |-> stop.kind, checkpoint |-> step]
    /\ Down
    /\ NoDisk /\ UNCHANGED <<rows, torn, countVars, strategy>>

\* The end of the loop.  FSDP2 raises when this world has saved nothing.
Finish ==
    /\ Together("loop") /\ step = MaxSteps
    /\ IF strategy = "fsdp2" /\ ~saved
         THEN UNCHANGED record
         ELSE record' = [status |-> "succeeded", checkpoint |-> step]
    /\ Down
    /\ NoDisk /\ UNCHANGED <<rows, torn, countVars, strategy>>

\* A rank is killed, or raises what is no business of the others.  Rank 0 may
\* be killed within the write of a row.
RankDies(k) ==
    /\ pc # "down" /\ k \notin dead /\ deaths < MaxDeaths
    /\ dead' = dead \cup {k} /\ deaths' = deaths + 1
    /\ IF k = 0 THEN KillSave ELSE NoDisk
    /\ torn' \in {torn, torn \/ (k = 0 /\ pc = "metric")}
    /\ UNCHANGED <<pc, rstep, chosen, parts, stop, saved, rows, record, errors,
                   strategy>>

\* Mutant: only the death of rank 0 is noticed.
EndWorldOfRankZero ==
    /\ dead # {}
    /\ IF 0 \in dead THEN /\ Down /\ KillSave
                          /\ UNCHANGED <<runVars, countVars, strategy>>
                     ELSE UNCHANGED vars
\* torchrun kills the ranks that are left, wherever they wait.
EndWorld ==
    /\ dead # {} /\ Down /\ KillSave
    /\ UNCHANGED <<runVars, countVars, strategy>>

Damage ==
    /\ \E s \in Steps : DamageCheckpoint(s)
    /\ UNCHANGED <<worldVars, runVars, countVars, strategy>>

World ==
    \/ Select \/ Restored \/ TrainStep \/ AppendMetric \/ Gather \/ Publish
    \/ SaveProceeds \/ SaveReturns \/ SaveRejected \/ Report \/ Finish
    \/ \E k \in Ranks : Restore(k) \/ WriteShard(k)
Next ==
    \/ Fresh \/ Resume \/ World \/ SaveFails \/ EndWorld \/ Damage
    \/ \E k \in Ranks : RankDies(k)

\* The processes run, and torchrun watches them; nobody has to start a world.
Fairness == WF_vars(World) /\ WF_vars(EndWorld)
Spec == Init /\ [][Next]_vars
FairSpec == Spec /\ Fairness

-----------------------------------------------------------------------------
(* Properties.                                                             *)

\* Every variable has its type.
TypeOK ==
    /\ strategy \in {"ddp", "fsdp2"}
    /\ StoreTypeOK
    /\ pc \in Places /\ dead \subseteq Ranks /\ parts \subseteq Ranks
    /\ rstep \in [Ranks -> Steps \cup {NoStep}]
    /\ chosen \in Steps \cup {NoStep} /\ saved \in BOOLEAN
    /\ stop \in [kind : Outcomes \cup {"none"}, step : Steps \cup {NoStep}]
    /\ rows \in Seq(Steps) /\ torn \in BOOLEAN
    /\ record.checkpoint \in Steps \cup {NoStep}
    /\ record.status \in Outcomes \cup {"absent", "running", "succeeded"}
    /\ deaths \in 0..MaxDeaths /\ errors \in 0..MaxErrors

\* docs/m3_ddp_recovery_contract.md section 7: no optimizer step has two rows
\* or none.  And no checkpoint is ahead of the metrics, so that no resume
\* finds the rows of its checkpoint missing (_truncate_metrics raises then).
\* This is of whole rows: a row cut off by a kill makes it raise as well.
MetricsAreCanonical ==
    /\ rows = Canonical(Len(rows))
    /\ \A s \in Valid : s <= Len(rows)

\* In the training loop every rank has the state of the same step, although
\* each read the checkpoint for itself while checkpoints went bad.
RanksAgree ==
    pc \notin {"down", "select", "restore"} => \A k \in Ranks : rstep[k] = step

\* What LATEST names is complete and valid, whichever rank dies when, and
\* however a save fails.
LatestIsValid == damage = 0 /\ latest # NoStep => latest \in Valid

\* run.json reports a checkpoint that is there and pinned, and success only
\* of the last step.
ReportedCheckpointExists ==
    record.status \in Outcomes \cup {"succeeded"} /\ damage = 0 =>
        /\ record.checkpoint \in Valid
        /\ pinned[record.checkpoint] # "none"
        /\ record.status = "succeeded" => record.checkpoint = MaxSteps

\* What a failing or dying world leaves never takes the next one back behind
\* a checkpoint that LATEST has named.
ResumeKeepsProgress ==
    [][pc = "select" /\ pc' = "restore" /\ damage = 0 => chosen' >= latest]_vars

\* Nobody waits for ever: a world ends, by itself or because a rank has died
\* in a collective the others are waiting in.
WorldEnds == pc # "down" ~> pc = "down"

\* fsdp2_recovery.py:599 raises "final FSDP2 Checkpoint was not committed" at
\* the end of the loop; a world that gets there restored or saved the final
\* checkpoint, so that the run has succeeded.
FinalWorldSucceeds ==
    [][Finish => record'.status = "succeeded"]_vars
=============================================================================
