----------------------------- MODULE TrainingRun -----------------------------
(***************************************************************************)
(* run_single_device_training (src/tinyllm/training/run.py): one run that  *)
(* is started, receives SIGTERM, is killed, fails, and is started again in *)
(* exact resume mode on the same run directory.                            *)
(***************************************************************************)
EXTENDS CheckpointStore

CONSTANTS
    SaveSteps,      \* checkpoint.save_steps
    MaxKills,       \* bound: SIGKILLs, power losses
    MaxTerms,       \* bound: SIGTERMs
    MaxErrors       \* bound: saves that fail with an I/O error

ASSUME SaveStepsAssumption == SaveSteps \in Nat \ {0}
ASSUME BoundAssumption ==
    MaxKills \in Nat /\ MaxTerms \in Nat /\ MaxErrors \in Nat

VARIABLES
    pc,         \* where the process is; "dead" between two processes
    step,       \* trainer.state.global_step
    saved,      \* the local checkpoint_id: the step of the last save
    term,       \* termination_requested
    after,      \* where the process goes when the save is done
    record,     \* run.json: status, and the checkpoint it reports
    termStep,   \* history: the step at which SIGTERM arrived
    kills, terms, errors,
    collided    \* some save raised CHECKPOINT_EXISTS

procVars == <<pc, step, saved, term, after>>
countVars == <<kills, terms, errors, collided, termStep>>
vars == <<diskVars, save, procVars, record, countVars>>

Places == {"dead", "loop", "trained", "signalled", "save", "finish",
           "succeeded", "terminated"}
Records == [status : {"absent", "running", "succeeded", "terminated"},
            checkpoint : Steps \cup {NoStep}]

Init ==
    /\ StoreInit
    /\ pc = "dead" /\ step = 0 /\ saved = NoStep /\ term = FALSE
    /\ after = "dead"
    /\ record = [status |-> "absent", checkpoint |-> NoStep]
    /\ kills = 0 /\ terms = 0 /\ errors = 0 /\ collided = FALSE
    /\ termStep = NoStep

NoDisk == UNCHANGED <<diskVars, save>>
Running == [status |-> "running", checkpoint |-> NoStep]

\* A new run, or a restart that restores the highest valid checkpoint.  At
\* max_steps the checkpoint to report is read from LATEST before the loop.
StartAt(s) ==
    /\ pc' = IF s = MaxSteps /\ ~LatestReadable THEN "dead" ELSE "loop"
    /\ step' = s /\ term' = FALSE /\ after' = "dead"
    /\ saved' = IF s = MaxSteps /\ LatestReadable THEN latest ELSE NoStep
    /\ record' = Running
    /\ NoDisk /\ UNCHANGED countVars

Start == pc = "dead" /\ record.status = "absent" /\ StartAt(0)
Resume ==
    /\ pc = "dead" /\ record.status # "absent"
    /\ Valid # {} /\ StartAt(LatestValid)

\* An exception leaves run_single_device_training; run.json stays as it is.
Dies == pc' = "dead" /\ UNCHANGED <<step, saved, term, after>>

\* _save_checkpoint(pin), and where to go from there.
SaveThen(pin, place) ==
    IF DestinationExists(step)
      THEN /\ Dies /\ collided' = TRUE
           /\ NoDisk /\ UNCHANGED <<record, kills, terms, errors, termStep>>
      ELSE /\ BeginSave(step, pin)
           /\ pc' = "save" /\ after' = place /\ saved' = step
           /\ UNCHANGED <<step, term, record, countVars>>

Move(place) ==
    /\ pc' = place
    /\ NoDisk /\ UNCHANGED <<step, saved, term, after, record, countVars>>

\* One optimizer step; the signal handler only sets a flag.
TrainStep ==
    /\ pc = "loop" /\ step < MaxSteps
    /\ step' = step + 1 /\ pc' = "trained"
    /\ NoDisk /\ UNCHANGED <<saved, term, after, record, countVars>>

\* The loop condition of run_single_device_training.
LoopDone == pc = "loop" /\ step = MaxSteps /\ Move("finish")

PeriodicDue == step % SaveSteps = 0 /\ step < MaxSteps
PeriodicSave ==
    /\ pc = "trained"
    /\ IF PeriodicDue THEN SaveThen("none", "signalled")
                      ELSE Move("signalled")

\* Mutant: the flag is looked at only where a periodic save is due.
CheckSignalAtSave ==
    /\ pc = "signalled"
    /\ IF term /\ PeriodicDue
         THEN SaveThen("interruption", "terminated") ELSE Move("loop")
\* The flag is looked at after the periodic save of the same step.
CheckSignal ==
    /\ pc = "signalled"
    /\ IF term THEN SaveThen("interruption", "terminated") ELSE Move("loop")

\* Mutant: any earlier save of this process counts as the final one.
FinalSaveSkipped ==
    /\ pc = "finish"
    /\ IF saved = NoStep THEN SaveThen("final", "succeeded")
                         ELSE Move("succeeded")
\* The checkpoint a run that reaches max_steps reports.
FinalSave ==
    /\ pc = "finish"
    /\ CASE saved = NoStep -> SaveThen("final", "succeeded")
         [] saved # NoStep /\ ~LatestReadable ->
              Dies /\ NoDisk /\ UNCHANGED <<record, countVars>>
         [] saved # NoStep /\ LatestReadable /\ latest = step ->
              /\ pc' = "succeeded" /\ saved' = latest
              /\ NoDisk /\ UNCHANGED <<step, term, after, record, countVars>>
         [] OTHER -> SaveThen("final", "succeeded")

\* The steps of CheckpointStore.save.
SaveProceeds ==
    /\ pc = "save"
    /\ WriteTemporary \/ RenameTemporary \/ ValidatePublished
         \/ UpdateLatest \/ RemoveExpired
    /\ UNCHANGED <<procVars, record, countVars>>
SaveReturns ==
    /\ pc = "save" /\ EndSave
    /\ pc' = after
    /\ UNCHANGED <<step, saved, term, after, record, countVars>>
\* An I/O error, or a published checkpoint that does not pass validate.
SaveFails ==
    /\ pc = "save" /\ FailSave
    /\ \/ errors < MaxErrors /\ errors' = errors + 1
       \/ SaveAt("validate") /\ dirs[save.step] # "valid"
            /\ UNCHANGED errors
    /\ Dies
    /\ UNCHANGED <<record, kills, terms, collided, termStep>>

\* run.json gets its final status, and the process exits.
Report ==
    /\ pc \in {"succeeded", "terminated"}
    /\ record' = [status |-> pc, checkpoint |-> saved]
    /\ Dies /\ NoDisk /\ UNCHANGED countVars

SigTerm ==
    /\ pc \in Places \ {"dead", "succeeded", "terminated"}
    /\ terms < MaxTerms /\ ~term
    /\ term' = TRUE /\ terms' = terms + 1 /\ termStep' = step
    /\ NoDisk
    /\ UNCHANGED <<pc, step, saved, after, record, kills, errors, collided>>

Kill ==
    /\ pc # "dead" /\ kills < MaxKills
    /\ kills' = kills + 1
    /\ KillSave /\ Dies
    /\ UNCHANGED <<record, terms, errors, collided, termStep>>

Damage ==
    /\ \E s \in Steps : DamageCheckpoint(s)
    /\ UNCHANGED <<procVars, record, countVars>>

Process == \/ TrainStep \/ LoopDone \/ PeriodicSave \/ CheckSignal \/ FinalSave
           \/ SaveProceeds \/ SaveReturns \/ Report
Next == Start \/ Resume \/ Process \/ SaveFails \/ SigTerm \/ Kill \/ Damage

Spec == Init /\ [][Next]_vars

-----------------------------------------------------------------------------
(* Properties.                                                             *)

\* Every variable has its type.
TypeOK ==
    /\ StoreTypeOK
    /\ pc \in Places /\ step \in Steps /\ saved \in Steps \cup {NoStep}
    /\ term \in BOOLEAN /\ after \in Places
    /\ record \in Records
    /\ kills \in 0..MaxKills /\ terms \in 0..MaxTerms
    /\ errors \in 0..MaxErrors /\ collided \in BOOLEAN
    /\ termStep \in Steps \cup {NoStep}

\* What LATEST names is complete and valid at every moment, in spite of kills
\* and failed saves.
LatestIsValid == damage = 0 /\ latest # NoStep => latest \in Valid

\* Pinned checkpoints LATEST has named are never removed.
PinsAreKept ==
    [][\A s \in Valid : pinned[s] # "none" /\ s <= latest /\ damage' = 0
         => s \in Valid']_vars

\* A restart never goes back behind a checkpoint that was published.
ResumeKeepsProgress ==
    [][pc = "dead" /\ pc' = "loop" /\ damage = 0 => step' >= latest]_vars

\* With two ordinary checkpoints kept, damage to one of them leaves another
\* to resume from as soon as two have been published.
DamageIsSurvived ==
    latest >= 2 * SaveSteps /\ KeepLast >= 2 /\ damage <= 1 => Valid # {}

\* run.json reports a checkpoint that exists, of the step it claims: the last
\* one for a run that succeeded, a pinned one for a run that terminated.
ReportedCheckpointExists ==
    record.status \in {"succeeded", "terminated"} /\ damage = 0 =>
        /\ record.checkpoint \in Valid
        /\ pinned[record.checkpoint] # "none"
        /\ record.status = "succeeded" => record.checkpoint = MaxSteps

\* After SIGTERM at most the optimizer step in progress is finished.
TermWithinOneStep == term /\ pc # "dead" => step <= termStep + 1

\* docs/m1_training_contract.md: on SIGTERM the trainer saves a pinned
\* interruption checkpoint at the next safe boundary; a restart after SIGKILL
\* goes on from the last committed checkpoint.  Neither may find the
\* directory of the step it saves already taken.
NoSaveCollides == ~collided
=============================================================================
