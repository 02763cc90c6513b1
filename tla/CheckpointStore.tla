---------------------------- MODULE CheckpointStore ----------------------------
(***************************************************************************)
(* The single-device CheckpointStore (src/tinyllm/training/checkpoint.py): *)
(* one directory per step below the run, the LATEST pointer, and save as   *)
(* the sequence of its durable effects, so that a kill can come between    *)
(* any two of them.                                                        *)
(***************************************************************************)
EXTENDS Integers, FiniteSets

CONSTANTS
    MaxSteps,       \* training.max_steps
    KeepLast,       \* checkpoint.keep_last
    MaxDamage       \* bound: how many checkpoints the disk damages

ASSUME MaxStepsAssumption == MaxSteps \in Nat \ {0}
ASSUME KeepLastAssumption == KeepLast \in Nat \ {0}
ASSUME DamageAssumption == MaxDamage \in Nat

VARIABLES
    dirs,       \* what checkpoint-step-<s> holds: nothing, a checkpoint that
                \* passes validate, or one that does not
    pinned,     \* pin_reason in the manifest of s
    latest,     \* the step LATEST names
    damage,     \* how many checkpoints have been damaged
    save        \* the save in progress: its step, pin and next effect

diskVars == <<dirs, pinned, latest, damage>>

Steps == 0..MaxSteps
NoStep == -1
Pins == {"none", "interruption", "final"}
SavePhases == {"write", "rename", "validate", "latest", "retain"}
NoSave == [phase |-> "idle", step |-> NoStep, pin |-> "none"]

StoreInit ==
    /\ dirs = [s \in Steps |-> "absent"]
    /\ pinned = [s \in Steps |-> "none"]
    /\ latest = NoStep
    /\ damage = 0
    /\ save = NoSave

Valid == {s \in Steps : dirs[s] = "valid"}
\* Mutant: the directory names are sorted without reverse=True.
LowestOf(S) == CHOOSE s \in S : \A t \in S : t >= s
HighestOf(S) == CHOOSE s \in S : \A t \in S : t <= s

\* latest_valid: raises CHECKPOINT_NO_VALID when Valid is empty.
LatestValid == HighestOf(Valid)

\* latest(): raises unless LATEST exists and what it names passes validate.
LatestReadable == latest \in Valid

\* save(): the destination must not exist; then the temporary directory is
\* written, which nobody else ever looks at.
DestinationExists(s) == dirs[s] # "absent"
BeginSave(s, pin) ==
    /\ ~DestinationExists(s)
    /\ save' = [phase |-> "write", step |-> s, pin |-> pin]
    /\ UNCHANGED diskVars

SaveAt(phase) == save.phase = phase
GoTo(phase) == save' = [save EXCEPT !.phase = phase]

\* Mutant: LATEST is moved before the directory is in place.
WriteAndPoint ==
    /\ SaveAt("write") /\ GoTo("rename")
    /\ latest' = save.step
    /\ UNCHANGED <<dirs, pinned, damage>>
\* Every file of the temporary directory, with fsync.
WriteTemporary ==
    /\ SaveAt("write") /\ GoTo("rename")
    /\ UNCHANGED diskVars

\* os.rename publishes the complete directory at once.
RenameTemporary ==
    /\ SaveAt("rename") /\ GoTo("validate")
    /\ dirs' = [dirs EXCEPT ![save.step] = "valid"]
    /\ pinned' = [pinned EXCEPT ![save.step] = save.pin]
    /\ UNCHANGED <<latest, damage>>

ValidatePublished ==
    /\ SaveAt("validate") /\ dirs[save.step] = "valid" /\ GoTo("latest")
    /\ UNCHANGED diskVars

\* _update_latest: a durable temporary file, then os.replace.
UpdateLatest ==
    /\ SaveAt("latest") /\ GoTo("retain")
    /\ latest' = save.step
    /\ UNCHANGED <<dirs, pinned, damage>>

\* Mutant: retention does not look at pins.
UnpinnedOrNot == Valid
Unpinned == {s \in Valid : pinned[s] = "none"}
\* Mutant: one checkpoint fewer is kept.
ExpiredEarly == {s \in Unpinned :
                   Cardinality({t \in Unpinned : t > s}) >= KeepLast - 1}
\* _apply_retention: all valid unpinned checkpoints but the KeepLast newest.
Expired == {s \in Unpinned :
              Cardinality({t \in Unpinned : t > s}) >= KeepLast}

\* shutil.rmtree is not atomic: a directory loses its files, then itself.
RemoveExpired ==
    /\ SaveAt("retain")
    /\ \E s \in Steps :
         \/ s \in Expired /\ dirs' = [dirs EXCEPT ![s] = "removing"]
         \/ dirs[s] = "removing" /\ dirs' = [dirs EXCEPT ![s] = "absent"]
    /\ UNCHANGED <<pinned, latest, damage, save>>

RetentionDone == Expired = {} /\ \A s \in Steps : dirs[s] # "removing"

EndSave ==
    /\ SaveAt("retain") /\ RetentionDone
    /\ save' = NoSave
    /\ UNCHANGED diskVars

\* An rmtree that stops half way leaves a directory that is not valid.
Abandoned == [s \in Steps |-> IF dirs[s] = "removing" THEN "broken"
                                                     ELSE dirs[s]]

\* Any other error of save: the temporary directory goes, and so does the
\* published one unless LATEST already names it.
FailSave ==
    /\ save.phase \in SavePhases
    /\ dirs' = IF latest # save.step
                 THEN [dirs EXCEPT ![save.step] = "absent"] ELSE Abandoned
    /\ save' = NoSave
    /\ UNCHANGED <<pinned, latest, damage>>

\* The writer is killed, with or without a save in progress.
KillSave ==
    /\ save' = NoSave /\ dirs' = Abandoned
    /\ UNCHANGED <<pinned, latest, damage>>

\* Bit rot or a truncated file: validate fails from now on.
DamageCheckpoint(s) ==
    /\ damage < MaxDamage /\ dirs[s] = "valid"
    /\ dirs' = [dirs EXCEPT ![s] = "broken"]
    /\ damage' = damage + 1
    /\ UNCHANGED <<pinned, latest, save>>
-----------------------------------------------------------------------------
\* Every variable of the store has its type.
StoreTypeOK ==
    /\ dirs \in [Steps -> {"absent", "valid", "removing", "broken"}]
    /\ pinned \in [Steps -> Pins]
    /\ latest \in Steps \cup {NoStep} /\ damage \in 0..MaxDamage
    /\ save \in [phase : SavePhases \cup {"idle"}, step : Steps \cup {NoStep},
                 pin : Pins]
=============================================================================
