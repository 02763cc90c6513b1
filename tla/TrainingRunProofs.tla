--------------------------- MODULE TrainingRunProofs ---------------------------
(***************************************************************************)
(* Proofs about TrainingRun, for every number of steps, kills, signals and *)
(* failing saves.  Inv is the inductive invariant: it says where the       *)
(* process can be while a save runs, and what each place still knows of    *)
(* the disk.                                                               *)
(***************************************************************************)
EXTENDS TrainingRun, CheckpointStoreProofs

\* A save runs at one place only, for the step the process is at; what
\* follows it decides the pin.
SavePlace ==
    /\ pc = "save" <=> Saving
    /\ pc = "save" =>
         /\ save.step = step /\ saved = step
         /\ \/ after = "signalled" /\ step < MaxSteps
            \/ after = "terminated" /\ save.pin = "interruption"
            \/ after = "succeeded" /\ save.pin = "final" /\ step = MaxSteps

\* A run about to report has its checkpoint.
ReadyToReport ==
    /\ pc = "finish" => step = MaxSteps
    /\ pc = "succeeded" => saved = MaxSteps
    /\ pc \in {"terminated", "succeeded"} /\ damage = 0 =>
         saved \in Valid /\ pinned[saved] # "none"
    /\ MaxSteps \in Valid => pinned[MaxSteps] # "none"

\* Nothing on an undamaged disk is ahead of the process.
NothingAhead ==
    /\ pc # "dead" /\ damage = 0 => \A s \in Valid : s <= step
    /\ record.status = "absent" => pc = "dead" /\ Valid = {}

\* A reported run has ended, and what it reports is still there.
Reported ==
    record.status \in {"succeeded", "terminated"} =>
        pc = "dead" /\ ReportedCheckpointExists

\* The loop is left in the step the signal arrived in, or the next one.
Signalled ==
    term /\ pc # "dead" =>
        /\ termStep \in Steps /\ step <= termStep + 1
        /\ pc = "loop" => step = termStep

Inv == /\ TypeOK /\ StoreInv /\ SavePlace /\ ReadyToReport /\ NothingAhead
       /\ Reported /\ Signalled

\* Step arithmetic.
LEMMA StepFacts ==
  /\ MaxSteps \in Nat /\ MaxSteps # 0 /\ NoStep \notin Steps
  /\ 0 \in Steps /\ MaxSteps \in Steps
  /\ \A s \in Steps : s \in Nat /\ s <= MaxSteps
  BY MaxStepsAssumption DEF Steps, NoStep

\* Inv holds when there is nothing yet.
LEMMA InitInv == Init => Inv
<1> SUFFICES ASSUME Init PROVE Inv
  OBVIOUS
<1>1. StoreInv /\ StoreTypeOK
  BY StoreInitInv DEF Init, StoreInv
<1>2. Valid = {} /\ ~Saving
  BY DEF Init, StoreInit, Valid, Saving, NoSave, SavePhases
<1>3. TypeOK
  <2>1. /\ pc \in Places /\ after \in Places /\ step \in Steps /\ record \in Records
        /\ saved \in Steps \cup {NoStep} /\ termStep \in Steps \cup {NoStep}
    BY StepFacts DEF Init, Places, Records
  <2>2. kills \in 0..MaxKills /\ terms \in 0..MaxTerms /\ errors \in 0..MaxErrors
    BY BoundAssumption DEF Init
  <2>3. term \in BOOLEAN /\ collided \in BOOLEAN
    BY DEF Init
  <2> QED BY <1>1, <2>1, <2>2, <2>3 DEF TypeOK
<1>4. pc = "dead" /\ term = FALSE /\ record.status = "absent"
  BY DEF Init
<1> QED
  BY <1>1, <1>2, <1>3, <1>4
  DEF Inv, SavePlace, ReadyToReport, NothingAhead, Reported, Signalled

\* What the disk keeps while the process does something else.
LEMMA NoDiskInv ==
  ASSUME Inv, NoDisk
  PROVE  /\ StoreInv' /\ StoreTypeOK' /\ Valid' = Valid /\ Saving' = Saving
         /\ UNCHANGED <<pinned, latest, damage, save>>
  BY StoreStays DEF Inv, NoDisk, diskVars, StoreInv

\* A process that begins at s, with nothing ahead of s.
LEMMA StartAtInv ==
  ASSUME Inv, pc = "dead", NEW s \in Steps, StartAt(s),
         damage = 0 => \A t \in Valid : t <= s
  PROVE  Inv'
<1>1. /\ StoreInv' /\ StoreTypeOK' /\ Valid' = Valid /\ Saving' = Saving
      /\ UNCHANGED <<pinned, latest, damage, save>>
  BY NoDiskInv DEF StartAt
<1>2. /\ pc' \in {"dead", "loop"} /\ step' = s /\ term' = FALSE /\ after' = "dead"
      /\ record' = Running /\ UNCHANGED countVars
      /\ saved' \in Steps \cup {NoStep}
  BY DEF StartAt, Inv, TypeOK, StoreTypeOK
<1>3. TypeOK'
  BY <1>1, <1>2 DEF Inv, TypeOK, Places, Records, Running, countVars
<1>4. ~Saving
  BY DEF Inv, SavePlace
<1> QED
  BY <1>1, <1>2, <1>3, <1>4
  DEF Inv, SavePlace, ReadyToReport, NothingAhead, Reported, Signalled, Running

LEMMA StartInv == ASSUME Inv, Start PROVE Inv'
<1>1. pc = "dead" /\ Valid = {} /\ StartAt(0)
  BY DEF Start, Inv, NothingAhead
<1> QED BY <1>1, StartAtInv, StepFacts

LEMMA ResumeInv == ASSUME Inv, Resume PROVE Inv'
<1>1. pc = "dead" /\ Valid # {} /\ StartAt(LatestValid)
  BY DEF Resume
<1> QED BY <1>1, StartAtInv, LatestValidIs

\* A process that is at work has not reported yet.
LEMMA AtWork ==
  ASSUME Inv, pc # "dead"
  PROVE  record.status = "running"
  BY DEF Inv, Reported, NothingAhead, TypeOK, Records

\* The beginning of a save, or the exception that its directory exists.
LEMMA SaveThenInv ==
  ASSUME Inv, pc # "dead", pc # "save", NEW pin \in Pins, NEW place \in Places,
         SaveThen(pin, place),
         \/ place = "signalled" /\ step < MaxSteps
         \/ place = "terminated" /\ pin = "interruption"
         \/ place = "succeeded" /\ pin = "final" /\ step = MaxSteps,
         term /\ pc = "loop" => FALSE
  PROVE  Inv'
<1>1. record.status = "running" /\ step \in Steps /\ ~Saving
  BY AtWork DEF Inv, TypeOK, SavePlace
<1>2. CASE DestinationExists(step)
  <2>1. /\ StoreInv' /\ StoreTypeOK' /\ Valid' = Valid /\ Saving' = Saving
        /\ UNCHANGED <<pinned, latest, damage, save>>
    BY <1>2, NoDiskInv DEF SaveThen
  <2>2. /\ pc' = "dead" /\ collided' = TRUE
        /\ UNCHANGED <<step, saved, term, after, record, kills, terms, errors, termStep>>
    BY <1>2 DEF SaveThen, Dies
  <2>3. TypeOK'
    BY <2>1, <2>2 DEF Inv, TypeOK, Places
  <2> QED
    BY <1>1, <2>1, <2>2, <2>3
    DEF Inv, SavePlace, ReadyToReport, NothingAhead, Reported, Signalled
<1>3. CASE ~DestinationExists(step)
  <2>1. /\ BeginSave(step, pin) /\ pc' = "save" /\ after' = place /\ saved' = step
        /\ UNCHANGED <<step, term, record, countVars>>
    BY <1>3 DEF SaveThen
  <2>2. damage = 0 => \A t \in Valid : t <= step
    BY DEF Inv, NothingAhead
  <2>3. /\ StoreInv' /\ Saving' /\ save'.step = step /\ save'.pin = pin
        /\ UNCHANGED diskVars
    BY <1>1, <2>1, <2>2, BeginSaveInv DEF Inv
  <2>4. Valid' = Valid /\ UNCHANGED <<pinned, damage>> /\ StoreTypeOK'
    BY <2>3 DEF Valid, diskVars, StoreInv
  <2>5. TypeOK'
    BY <1>1, <2>1, <2>4 DEF Inv, TypeOK, Places, countVars
  <2> QED
    BY <1>1, <2>1, <2>3, <2>4, <2>5
    DEF Inv, SavePlace, ReadyToReport, NothingAhead, Reported, Signalled, countVars
<1> QED BY <1>2, <1>3

\* A move of the process to a place where it neither saves nor reports.
LEMMA MoveInv ==
  ASSUME Inv, pc \in {"loop", "trained", "signalled"},
         NEW place \in {"loop", "signalled", "finish"}, Move(place),
         place = "finish" => step = MaxSteps,
         place = "loop" => ~term
  PROVE  Inv'
<1>1. /\ StoreInv' /\ StoreTypeOK' /\ Valid' = Valid /\ Saving' = Saving
      /\ UNCHANGED <<pinned, latest, damage, save>>
  BY NoDiskInv DEF Move
<1>2. pc' = place /\ UNCHANGED <<step, saved, term, after, record, countVars>>
  BY DEF Move
<1>3. TypeOK' /\ ~Saving
  BY <1>1, <1>2 DEF Inv, TypeOK, Places, SavePlace, countVars
<1> QED
  BY <1>1, <1>2, <1>3
  DEF Inv, SavePlace, ReadyToReport, NothingAhead, Reported, Signalled, countVars

LEMMA TrainStepInv == ASSUME Inv, TrainStep PROVE Inv'
<1>1. /\ StoreInv' /\ StoreTypeOK' /\ Valid' = Valid /\ Saving' = Saving
      /\ UNCHANGED <<pinned, latest, damage, save>>
  BY NoDiskInv DEF TrainStep
<1>2. /\ pc = "loop" /\ step < MaxSteps /\ step' = step + 1 /\ pc' = "trained"
      /\ UNCHANGED <<saved, term, after, record, countVars>>
  BY DEF TrainStep
<1>3. step \in Nat /\ step' \in Steps /\ step' >= step
  BY <1>2, MaxStepsAssumption DEF Inv, TypeOK, Steps
<1>4. TypeOK' /\ ~Saving
  BY <1>1, <1>2, <1>3 DEF Inv, TypeOK, Places, SavePlace, countVars
<1>5. damage = 0 => \A s \in Valid : s <= step'
  <2> SUFFICES ASSUME damage = 0, NEW s \in Valid PROVE s <= step'
    OBVIOUS
  <2>1. s <= step /\ s \in Nat /\ step' \in Nat
    BY <1>2, <1>3, StepFacts DEF Inv, NothingAhead, Valid
  <2> QED BY <2>1, <1>3
<1>6. Signalled'
  <2> SUFFICES ASSUME term PROVE termStep \in Steps /\ step' <= termStep + 1
    BY <1>2 DEF Signalled, countVars
  <2>1. termStep \in Steps /\ step = termStep
    BY <1>2 DEF Inv, Signalled
  <2> QED BY <2>1, <1>2, <1>3
<1> QED
  BY <1>1, <1>2, <1>4, <1>5, <1>6
  DEF Inv, SavePlace, ReadyToReport, NothingAhead, Reported

LEMMA LoopDoneInv == ASSUME Inv, LoopDone PROVE Inv'
  BY MoveInv DEF LoopDone

LEMMA PeriodicSaveInv == ASSUME Inv, PeriodicSave PROVE Inv'
<1>1. pc = "trained"
  BY DEF PeriodicSave
<1>2. CASE PeriodicDue
  <2>1. SaveThen("none", "signalled") /\ step < MaxSteps
    BY <1>2 DEF PeriodicSave, PeriodicDue
  <2> QED BY <1>1, <2>1, SaveThenInv DEF Pins, Places
<1>3. CASE ~PeriodicDue
  BY <1>1, <1>3, MoveInv DEF PeriodicSave
<1> QED BY <1>2, <1>3

LEMMA CheckSignalInv == ASSUME Inv, CheckSignal PROVE Inv'
<1>1. pc = "signalled"
  BY DEF CheckSignal
<1>2. CASE term
  <2>1. SaveThen("interruption", "terminated")
    BY <1>2 DEF CheckSignal
  <2> QED BY <1>1, <2>1, SaveThenInv DEF Pins, Places
<1>3. CASE ~term
  BY <1>1, <1>3, MoveInv DEF CheckSignal
<1> QED BY <1>2, <1>3

LEMMA FinalSaveInv == ASSUME Inv, FinalSave PROVE Inv'
<1>1. pc = "finish" /\ step = MaxSteps /\ record.status = "running"
  BY AtWork DEF FinalSave, Inv, ReadyToReport
<1>2. CASE SaveThen("final", "succeeded")
  BY <1>1, <1>2, SaveThenInv DEF Pins, Places
<1>3. CASE Dies /\ NoDisk /\ UNCHANGED <<record, countVars>>
  <2>1. /\ StoreInv' /\ StoreTypeOK' /\ Valid' = Valid /\ Saving' = Saving
        /\ UNCHANGED <<pinned, latest, damage, save>>
    BY <1>3, NoDiskInv
  <2>2. pc' = "dead" /\ UNCHANGED <<step, saved, term, after, record, countVars>>
    BY <1>3 DEF Dies
  <2>3. TypeOK' /\ ~Saving
    BY <1>1, <2>1, <2>2 DEF Inv, TypeOK, Places, SavePlace, countVars
  <2> QED
    BY <1>1, <2>1, <2>2, <2>3
    DEF Inv, SavePlace, ReadyToReport, NothingAhead, Reported, Signalled
<1>4. CASE /\ LatestReadable /\ latest = step
           /\ pc' = "succeeded" /\ saved' = latest
           /\ NoDisk /\ UNCHANGED <<step, term, after, record, countVars>>
  <2>1. /\ StoreInv' /\ StoreTypeOK' /\ Valid' = Valid /\ Saving' = Saving
        /\ UNCHANGED <<pinned, latest, damage, save>>
    BY <1>4, NoDiskInv
  <2>2. MaxSteps \in Valid /\ pinned[MaxSteps] # "none"
    BY <1>1, <1>4 DEF LatestReadable, Inv, ReadyToReport
  <2>3. TypeOK' /\ ~Saving
    BY <1>1, <1>4, <2>1 DEF Inv, TypeOK, Places, SavePlace, countVars
  <2> QED
    BY <1>1, <1>4, <2>1, <2>2, <2>3
    DEF Inv, SavePlace, ReadyToReport, NothingAhead, Reported, Signalled, countVars
<1> QED BY <1>2, <1>3, <1>4 DEF FinalSave

LEMMA SaveProceedsInv ==
  ASSUME Inv, SaveProceeds
  PROVE  Inv' /\ OthersStay
<1>1. /\ pc = "save" /\ UNCHANGED <<procVars, record, countVars>>
      /\ record.status = "running" /\ step \in Steps /\ save.step = step
  BY AtWork DEF SaveProceeds, Inv, TypeOK, SavePlace
<1>2. StoreInv' /\ OthersStay
  BY SaveStepInv DEF Inv, SaveProceeds
<1>3. TypeOK'
  BY <1>1, <1>2 DEF Inv, TypeOK, procVars, countVars, StoreInv
<1>4. SavePlace'
  BY <1>1, <1>2 DEF Inv, SavePlace, OthersStay, procVars
<1>5. damage' = 0 => \A s \in Valid' : s <= step
  BY <1>1, <1>2, StepFacts DEF Inv, NothingAhead, OthersStay, Steps
<1>6. MaxSteps \in Valid' => pinned'[MaxSteps] # "none"
  <2> SUFFICES ASSUME MaxSteps \in Valid', MaxSteps \notin Valid
               PROVE  pinned'[MaxSteps] # "none"
    BY <1>2 DEF Inv, ReadyToReport, OthersStay
  <2>1. step = MaxSteps /\ pinned'[MaxSteps] = save.pin
    BY <1>1, <1>2 DEF OthersStay
  <2>2. ~(step < MaxSteps)
    BY <2>1, StepFacts
  <2> QED BY <1>1, <2>1, <2>2 DEF Inv, SavePlace
<1> QED
  BY <1>1, <1>2, <1>3, <1>4, <1>5, <1>6
  DEF Inv, ReadyToReport, NothingAhead, Reported, Signalled, procVars, countVars

LEMMA SaveReturnsInv == ASSUME Inv, SaveReturns PROVE Inv'
<1>1. /\ pc = "save" /\ pc' = after /\ record.status = "running"
      /\ UNCHANGED <<step, saved, term, after, record, countVars>>
  BY AtWork DEF SaveReturns
<1>2. /\ StoreInv' /\ ~Saving' /\ UNCHANGED <<dirs, pinned, latest, damage>>
      /\ damage = 0 => save.step \in Valid /\ pinned[save.step] = save.pin
  BY EndSaveInv DEF Inv, SaveReturns
<1>3. /\ save.step = step /\ saved = step
      /\ \/ after = "signalled"
         \/ after = "terminated" /\ save.pin = "interruption"
         \/ after = "succeeded" /\ save.pin = "final" /\ step = MaxSteps
  BY <1>1 DEF Inv, SavePlace
<1>4. Valid' = Valid
  BY <1>2 DEF Valid
<1>5. TypeOK'
  BY <1>1, <1>2, <1>3 DEF Inv, TypeOK, Places, countVars, StoreInv
<1> QED
  BY <1>1, <1>2, <1>3, <1>4, <1>5
  DEF Inv, SavePlace, ReadyToReport, NothingAhead, Reported, Signalled, countVars

\* The process dies, and the disk keeps at most what it had.
LEMMA DiesInv ==
  ASSUME Inv, pc # "dead", Dies, StoreInv', ~Saving', Valid' \subseteq Valid,
         UNCHANGED <<pinned, damage, record, termStep>>,
         kills' \in 0..MaxKills, terms' \in 0..MaxTerms, errors' \in 0..MaxErrors,
         collided' \in BOOLEAN
  PROVE  Inv'
<1>1. record.status = "running"
  BY AtWork
<1>2. pc' = "dead" /\ UNCHANGED <<step, saved, term, after>>
  BY DEF Dies
<1>3. TypeOK'
  BY <1>2 DEF Inv, TypeOK, Places, StoreInv
<1> QED
  BY <1>1, <1>2, <1>3
  DEF Inv, SavePlace, ReadyToReport, NothingAhead, Reported, Signalled

LEMMA SaveFailsInv == ASSUME Inv, SaveFails PROVE Inv'
<1>1. /\ pc # "dead" /\ Dies /\ UNCHANGED <<record, kills, terms, collided, termStep>>
      /\ FailSave
      /\ (errors < MaxErrors /\ errors' = errors + 1) \/ UNCHANGED errors
  BY DEF SaveFails
<1>2. errors' \in 0..MaxErrors
  BY <1>1, BoundAssumption DEF Inv, TypeOK
<1>3. StoreInv' /\ ~Saving' /\ Valid' \subseteq Valid /\ UNCHANGED <<pinned, damage>>
  BY <1>1, FailSaveInv DEF Inv
<1> QED BY <1>1, <1>2, <1>3, DiesInv DEF Inv, TypeOK

LEMMA KillInv == ASSUME Inv, Kill PROVE Inv'
<1>1. /\ pc # "dead" /\ kills < MaxKills /\ kills' = kills + 1 /\ KillSave /\ Dies
      /\ UNCHANGED <<record, terms, errors, collided, termStep>>
  BY DEF Kill
<1>2. kills' \in 0..MaxKills
  BY <1>1, BoundAssumption DEF Inv, TypeOK
<1>3. StoreInv' /\ ~Saving' /\ Valid' \subseteq Valid /\ UNCHANGED <<pinned, damage>>
  BY <1>1, KillSaveInv DEF Inv
<1> QED BY <1>1, <1>2, <1>3, DiesInv DEF Inv, TypeOK

LEMMA ReportInv == ASSUME Inv, Report PROVE Inv'
<1>1. /\ pc \in {"succeeded", "terminated"}
      /\ record' = [status |-> pc, checkpoint |-> saved]
      /\ pc' = "dead" /\ UNCHANGED <<step, saved, term, after, countVars>>
  BY DEF Report, Dies
<1>2. /\ StoreInv' /\ StoreTypeOK' /\ Valid' = Valid /\ Saving' = Saving
      /\ UNCHANGED <<pinned, latest, damage, save>>
  BY NoDiskInv DEF Report
<1>3. TypeOK' /\ ~Saving
  BY <1>1, <1>2 DEF Inv, TypeOK, Places, Records, SavePlace, countVars
<1>4. ReportedCheckpointExists'
  BY <1>1, <1>2 DEF Inv, ReadyToReport, ReportedCheckpointExists
<1> QED
  BY <1>1, <1>2, <1>3, <1>4
  DEF Inv, SavePlace, ReadyToReport, NothingAhead, Reported, Signalled

LEMMA SigTermInv == ASSUME Inv, SigTerm PROVE Inv'
<1>1. /\ pc # "dead" /\ terms < MaxTerms /\ term' = TRUE /\ terms' = terms + 1
      /\ termStep' = step
      /\ UNCHANGED <<pc, step, saved, after, record, kills, errors, collided>>
  BY DEF SigTerm
<1>2. /\ StoreInv' /\ StoreTypeOK' /\ Valid' = Valid /\ Saving' = Saving
      /\ UNCHANGED <<pinned, latest, damage, save>>
  BY NoDiskInv DEF SigTerm
<1>3. terms' \in 0..MaxTerms /\ step \in Steps /\ step <= step + 1
  BY <1>1, BoundAssumption, StepFacts DEF Inv, TypeOK
<1>4. TypeOK'
  BY <1>1, <1>2, <1>3 DEF Inv, TypeOK
<1> QED
  BY <1>1, <1>2, <1>3, <1>4
  DEF Inv, SavePlace, ReadyToReport, NothingAhead, Reported,
      ReportedCheckpointExists, Signalled

LEMMA DamageStepInv == ASSUME Inv, Damage PROVE Inv'
<1>1. PICK s \in Steps : DamageCheckpoint(s)
  BY DEF Damage
<1>2. UNCHANGED <<procVars, record, countVars>>
  BY DEF Damage
<1>3. /\ StoreInv' /\ UNCHANGED <<save, pinned, latest>>
      /\ damage' # 0 /\ Valid' \subseteq Valid
  BY <1>1, DamageInv DEF Inv
<1>4. TypeOK' /\ Saving' = Saving
  BY <1>2, <1>3 DEF Inv, TypeOK, procVars, countVars, StoreInv, Saving
<1> QED
  BY <1>2, <1>3, <1>4
  DEF Inv, SavePlace, ReadyToReport, NothingAhead, Reported,
      ReportedCheckpointExists, Signalled, procVars, countVars

LEMMA StutterInv == ASSUME Inv, UNCHANGED vars PROVE Inv'
<1>1. StoreInv' /\ Valid' = Valid /\ Saving' = Saving
  BY StoreStays DEF Inv, vars
<1>2. UNCHANGED <<save, procVars, record, countVars, pinned, latest, damage>>
  BY DEF vars, diskVars
<1>3. TypeOK'
  BY <1>1, <1>2 DEF Inv, TypeOK, procVars, countVars, StoreInv
<1> QED
  BY <1>1, <1>2, <1>3
  DEF Inv, SavePlace, ReadyToReport, NothingAhead, Reported,
      ReportedCheckpointExists, Signalled, procVars, countVars

LEMMA NextInv == Inv /\ [Next]_vars => Inv'
  BY StartInv, ResumeInv, TrainStepInv, LoopDoneInv, PeriodicSaveInv,
     CheckSignalInv, FinalSaveInv, SaveProceedsInv, SaveReturnsInv, ReportInv,
     SaveFailsInv, SigTermInv, KillInv, DamageStepInv, StutterInv
  DEF Next, Process

-----------------------------------------------------------------------------
(* The theorems.                                                           *)

\* The invariant holds in every reachable state of a run.
THEOREM Invariance == Spec => []Inv
  BY InitInv, NextInv, PTL DEF Spec

\* Every variable keeps its type, whatever kills, signals and errors come.
THEOREM TypeCorrectness == Spec => []TypeOK
<1>1. Inv => TypeOK
  BY DEF Inv
<1> QED BY Invariance, <1>1, PTL

\* LATEST names a complete and valid checkpoint at every moment of every run.
THEOREM LatestNamesValid == Spec => []LatestIsValid
<1>1. Inv => LatestIsValid
  BY DEF Inv, StoreInv, StoreTypeOK, LatestIsValid, Valid
<1> QED BY Invariance, <1>1, PTL

\* What run.json reports is there, pinned, and of the last step on success.
THEOREM ReportHolds == Spec => []ReportedCheckpointExists
<1>1. Inv => ReportedCheckpointExists
  BY DEF Inv, Reported, ReportedCheckpointExists
<1> QED BY Invariance, <1>1, PTL

\* A signal is answered within one optimizer step.
THEOREM SignalAnswered == Spec => []TermWithinOneStep
<1>1. Inv => TermWithinOneStep
  BY DEF Inv, Signalled, TermWithinOneStep
<1> QED BY Invariance, <1>1, PTL

\* What a step of the disk does to a pinned checkpoint that LATEST is past.
PinKept ==
    \A s \in Valid : pinned[s] # "none" /\ s <= latest /\ damage' = 0 => s \in Valid'

LEMMA PinKeptStep == Inv /\ [Next]_vars => PinKept
<1> SUFFICES ASSUME Inv, [Next]_vars PROVE PinKept
  OBVIOUS
<1>1. CASE SaveProceeds
  BY <1>1, SaveProceedsInv DEF PinKept, OthersStay
<1>2. CASE SaveFails
  BY <1>2, FailSaveInv DEF SaveFails, Inv, PinKept
<1>3. CASE Kill
  BY <1>3, KillSaveInv DEF Kill, Inv, PinKept
<1>4. CASE Damage
  BY <1>4, DamageInv DEF Damage, Inv, PinKept
<1>5. CASE SaveReturns
  <2>1. UNCHANGED dirs
    BY <1>5, EndSaveInv DEF SaveReturns, Inv
  <2> QED BY <2>1 DEF PinKept, Valid
<1>6. CASE PeriodicSave \/ CheckSignal \/ FinalSave
  <2>1. UNCHANGED dirs
    BY <1>6
    DEF PeriodicSave, CheckSignal, FinalSave, SaveThen, Move, NoDisk, diskVars, BeginSave
  <2> QED BY <2>1 DEF PinKept, Valid
<1>7. CASE Start \/ Resume \/ TrainStep \/ LoopDone \/ Report \/ SigTerm
           \/ UNCHANGED vars
  <2>1. UNCHANGED dirs
    BY <1>7
    DEF Start, Resume, StartAt, TrainStep, LoopDone, Move, Report, SigTerm, NoDisk,
        diskVars, vars
  <2> QED BY <2>1 DEF PinKept, Valid
<1> QED BY <1>1, <1>2, <1>3, <1>4, <1>5, <1>6, <1>7 DEF Next, Process

\* Retention, kills and failing saves remove no pinned checkpoint LATEST has
\* named.
THEOREM PinsKept == Spec => PinsAreKept
<1>1. PinKept => [\A s \in Valid : pinned[s] # "none" /\ s <= latest /\ damage' = 0
                    => s \in Valid']_vars
  BY DEF PinKept
<1> QED BY Invariance, PinKeptStep, <1>1, PTL DEF Spec, PinsAreKept

LEMMA ResumeStep ==
  ASSUME Inv, Next, pc = "dead", pc' = "loop", damage = 0
  PROVE  step' >= latest
<1>1. Start \/ Resume
  BY DEF Next, Process, TrainStep, LoopDone, PeriodicSave, CheckSignal, FinalSave,
         SaveProceeds, SaveReturns, Report, SaveFails, SigTerm, Kill, Damage, procVars
<1>2. CASE Start
  <2>1. step' = 0 /\ Valid = {}
    BY <1>2 DEF Start, StartAt, Inv, NothingAhead
  <2>2. latest = NoStep
    BY <2>1 DEF Inv, StoreInv, StoreTypeOK, Valid
  <2> QED BY <2>1, <2>2 DEF NoStep
<1>3. CASE Resume
  <2>1. Valid # {} /\ step' = LatestValid
    BY <1>3 DEF Resume, StartAt
  <2>2. latest <= LatestValid /\ LatestValid \in Steps
    BY <2>1, LatestIsBehind, LatestValidIs DEF Inv
  <2>3. LatestValid \in Int /\ latest \in Int
    BY <2>2, StepFacts DEF Inv, StoreInv, StoreTypeOK, NoStep
  <2> QED BY <2>1, <2>2, <2>3
<1> QED BY <1>1, <1>2, <1>3

\* A restart never goes back behind a checkpoint that LATEST has named.
THEOREM ProgressKept == Spec => ResumeKeepsProgress
<1>1. Inv /\ [Next]_vars =>
        [pc = "dead" /\ pc' = "loop" /\ damage = 0 => step' >= latest]_vars
  BY ResumeStep
<1> QED BY Invariance, <1>1, PTL DEF Spec, ResumeKeepsProgress
(***************************************************************************)
(* Damage.  Why the last copy is never the one that is lost: once the      *)
(* process is past its first periodic save, there is a checkpoint besides  *)
(* the one being written, and beyond that step there are two.              *)
(***************************************************************************)

\* The checkpoints that a failure of the save in progress would leave.
Kept == {s \in Valid : Saving /\ save.step # latest => s # save.step}

\* The process has made its first periodic save, or resumed from one.
PastFirst ==
    /\ SaveSteps < MaxSteps /\ pc # "dead"
    /\ step > SaveSteps \/ (step = SaveSteps /\ pc \notin {"trained", "save"})

\* A checkpoint beyond the first periodic one is never alone.
NeverAlone == (\E t \in Kept : t > SaveSteps) => \E s, t \in Kept : s # t

Survives ==
    /\ damage = 0 => NeverAlone /\ (PastFirst => Kept # {})
    /\ damage = 1 =>
         /\ latest >= 2 * SaveSteps => Kept # {}
         /\ save.phase = "latest" /\ save.step > SaveSteps => Valid # {}

\* The step arithmetic of the argument.
LEMMA SaveStepsFacts ==
  /\ SaveSteps \in Nat /\ SaveSteps > 0 /\ SaveSteps % SaveSteps = 0
  /\ \A s \in Int : s >= 2 * SaveSteps => s > SaveSteps
  BY SaveStepsAssumption

\* A save beyond the first periodic one is made by a process that is past it.
LEMMA SavingIsPast ==
  ASSUME Inv, Saving, save.step > SaveSteps
  PROVE  PastFirst
<1>1. pc = "save" /\ step = save.step /\ step \in Steps
  BY DEF Inv, SavePlace, TypeOK
<1>2. SaveSteps < MaxSteps
  BY <1>1, SaveStepsFacts, StepFacts
<1> QED BY <1>1, <1>2 DEF PastFirst

\* A checkpoint that joins others does not stand alone.
LEMMA NeverAloneGrows ==
  ASSUME NeverAlone, NEW n, Kept \subseteq Kept', Kept' \subseteq Kept \cup {n},
         n > SaveSteps => Kept # {}
  PROVE  NeverAlone'
<1> SUFFICES ASSUME NEW t \in Kept', t > SaveSteps
             PROVE  \E x, y \in Kept' : x # y
  BY DEF NeverAlone
<1>1. CASE t \in Kept
  BY <1>1 DEF NeverAlone
<1>2. CASE t \notin Kept
  <2>1. t = n /\ Kept # {}
    BY <1>2
  <2>2. PICK k \in Kept : k # t
    BY <1>2, <2>1
  <2> QED BY <2>2
<1> QED BY <1>1, <1>2

LEMMA InitSurvives == Init => Survives
<1> SUFFICES ASSUME Init PROVE Survives
  OBVIOUS
<1>1. Valid = {} /\ pc = "dead" /\ damage = 0
  BY DEF Init, StoreInit, Valid
<1> QED BY <1>1 DEF Survives, NeverAlone, PastFirst, Kept

\* A step that leaves the disk alone, and does not pass the first save.
LEMMA NoDiskSurvives ==
  ASSUME Inv, Survives, UNCHANGED <<diskVars, save>>,
         PastFirst' => PastFirst \/ Kept # {}
  PROVE  Survives'
<1>1. UNCHANGED <<dirs, latest, damage, save>>
  BY DEF diskVars
<1>2. Kept' = Kept /\ Valid' = Valid
  BY <1>1 DEF Kept, Valid, Saving
<1> QED BY <1>1, <1>2 DEF Survives, NeverAlone

LEMMA SaveThenSurvives ==
  ASSUME Inv, Survives, pc # "dead", pc # "save", NEW pin \in Pins, NEW place,
         SaveThen(pin, place)
  PROVE  Survives'
<1>1. ~Saving /\ step \in Steps
  BY DEF Inv, SavePlace, TypeOK
<1>2. CASE DestinationExists(step)
  <2>1. pc' = "dead" /\ NoDisk
    BY <1>2 DEF SaveThen, Dies
  <2> QED BY <2>1, NoDiskSurvives DEF NoDisk, PastFirst
<1>3. CASE ~DestinationExists(step)
  <2>1. /\ save' = [phase |-> "write", step |-> step, pin |-> pin]
        /\ UNCHANGED <<dirs, latest, damage, step>> /\ dirs[step] = "absent"
        /\ pc' = "save"
    BY <1>3 DEF SaveThen, BeginSave, DestinationExists, diskVars
  <2>2. Valid' = Valid /\ step \notin Valid
    BY <2>1 DEF Valid
  <2>3. Kept' = Kept
    BY <1>1, <2>1, <2>2 DEF Kept
  <2>4. PastFirst' => PastFirst
    BY <2>1 DEF PastFirst
  <2> QED BY <2>1, <2>2, <2>3, <2>4 DEF Survives, NeverAlone
<1> QED BY <1>2, <1>3

\* The optimizer steps, and the decisions between them.
LEMMA StartSurvives == ASSUME Inv, Survives, Start PROVE Survives'
<1>1. step' = 0 /\ NoDisk
  BY DEF Start, StartAt
<1>2. ~PastFirst'
  BY <1>1, SaveStepsFacts DEF PastFirst
<1> QED BY <1>1, <1>2, NoDiskSurvives DEF NoDisk

LEMMA ResumeSurvives == ASSUME Inv, Survives, Resume PROVE Survives'
<1>1. NoDisk /\ Valid # {} /\ pc = "dead"
  BY DEF Resume, StartAt
<1>2. Kept = Valid
  BY <1>1 DEF Kept, Inv, SavePlace
<1> QED BY <1>1, <1>2, NoDiskSurvives DEF NoDisk

LEMMA TrainStepSurvives == ASSUME Inv, Survives, TrainStep PROVE Survives'
<1>1. pc = "loop" /\ step' = step + 1 /\ pc' = "trained" /\ NoDisk /\ step \in Nat
  BY StepFacts DEF TrainStep, Inv, TypeOK
<1>2. ASSUME PastFirst' PROVE PastFirst
  <2>1. SaveSteps < MaxSteps /\ step + 1 > SaveSteps
    BY <1>1, <1>2 DEF PastFirst
  <2>2. step > SaveSteps \/ step = SaveSteps
    BY <1>1, <2>1, SaveStepsFacts
  <2> QED BY <1>1, <2>1, <2>2 DEF PastFirst
<1> QED BY <1>1, <1>2, NoDiskSurvives DEF NoDisk

LEMMA MoveSurvives ==
  ASSUME Inv, Survives, NEW place, Move(place), pc \in {"loop", "signalled", "finish"}
  PROVE  Survives'
<1>1. PastFirst' => PastFirst
  BY DEF Move, PastFirst
<1> QED BY <1>1, NoDiskSurvives DEF Move, NoDisk

\* The first periodic save is due when its step has been trained.
LEMMA PeriodicSaveSurvives == ASSUME Inv, Survives, PeriodicSave PROVE Survives'
<1>1. pc = "trained"
  BY DEF PeriodicSave
<1>2. CASE PeriodicDue
  BY <1>1, <1>2, SaveThenSurvives DEF PeriodicSave, Pins
<1>3. CASE ~PeriodicDue
  <2>1. Move("signalled")
    BY <1>3 DEF PeriodicSave
  <2>2. SaveSteps < MaxSteps => step # SaveSteps
    BY <1>3, SaveStepsFacts DEF PeriodicDue
  <2>3. PastFirst' => PastFirst
    BY <1>1, <2>1, <2>2 DEF Move, PastFirst
  <2> QED BY <2>1, <2>3, NoDiskSurvives DEF Move, NoDisk
<1> QED BY <1>2, <1>3

LEMMA CheckSignalSurvives == ASSUME Inv, Survives, CheckSignal PROVE Survives'
<1>1. pc = "signalled"
  BY DEF CheckSignal
<1>2. CASE term
  BY <1>1, <1>2, SaveThenSurvives DEF CheckSignal, Pins
<1>3. CASE ~term
  BY <1>1, <1>3, MoveSurvives DEF CheckSignal
<1> QED BY <1>2, <1>3

LEMMA FinalSaveSurvives == ASSUME Inv, Survives, FinalSave PROVE Survives'
<1>1. pc = "finish"
  BY DEF FinalSave
<1>2. CASE SaveThen("final", "succeeded")
  BY <1>1, <1>2, SaveThenSurvives DEF Pins
<1>3. CASE pc' \in {"dead", "succeeded"} /\ NoDisk /\ UNCHANGED step
  <2>1. PastFirst' => PastFirst
    BY <1>1, <1>3 DEF PastFirst
  <2> QED BY <1>3, <2>1, NoDiskSurvives DEF NoDisk
<1> QED BY <1>2, <1>3 DEF FinalSave, Dies

\* A save publishes next to what is kept, and points LATEST at it.
LEMMA PublishSurvives ==
  ASSUME Inv, Survives, SaveProceeds, ~RemoveExpired
  PROVE  Survives'
<1>1. Saving /\ Saving' /\ save.step \in Steps /\ save'.step = save.step
      /\ damage' = damage /\ UNCHANGED <<pc, step>>
  BY SaveProceedsInv DEF Inv, StoreInv, OthersStay, SaveProceeds, procVars
<1>2. PastFirst' = PastFirst
  BY <1>1 DEF PastFirst
<1>3. /\ Valid \subseteq Valid' /\ Valid' \subseteq Valid \cup {save.step}
      /\ latest' \in {latest, save.step}
  <2>1. CASE RenameTemporary
    BY <1>1, <2>1 DEF RenameTemporary, Valid, Inv, TypeOK, StoreTypeOK
  <2>2. CASE WriteTemporary \/ ValidatePublished \/ UpdateLatest
    BY <2>2 DEF WriteTemporary, ValidatePublished, UpdateLatest, diskVars, Valid
  <2> QED BY <2>1, <2>2 DEF SaveProceeds
<1>4. Kept \subseteq Kept' /\ Kept' \subseteq Kept \cup {save.step}
  BY <1>1, <1>3 DEF Kept
<1>5. ASSUME damage = 0 PROVE NeverAlone' /\ (PastFirst' => Kept' # {})
  <2>1. save.step > SaveSteps => Kept # {}
    BY <1>1, <1>5, SavingIsPast DEF Survives
  <2>2. NeverAlone'
    BY <1>4, <1>5, <2>1, NeverAloneGrows DEF Survives
  <2> QED BY <1>2, <1>4, <1>5, <2>2 DEF Survives
<1>6. ASSUME damage = 1, latest' >= 2 * SaveSteps PROVE Kept' # {}
  <2>1. CASE latest' = latest
    BY <1>4, <1>6, <2>1 DEF Survives
  <2>2. CASE latest' # latest
    <3>1. save.phase = "latest" /\ latest' = save.step /\ Valid' = Valid
      BY <2>2
      DEF SaveProceeds, WriteTemporary, RenameTemporary, ValidatePublished, UpdateLatest,
          SaveAt, diskVars, Valid
    <3>2. save.step > SaveSteps
      <4>1. save.step \in Int
        BY <1>1, MaxStepsAssumption DEF Steps
      <4>2. save.step >= 2 * SaveSteps
        BY <1>6, <3>1
      <4> QED BY <4>1, <4>2, SaveStepsFacts
    <3>3. Valid # {} /\ Kept' = Valid'
      BY <1>1, <1>6, <3>1, <3>2 DEF Survives, Kept
    <3> QED BY <3>1, <3>3
  <2> QED BY <2>1, <2>2
<1>7. ASSUME save'.phase = "latest" PROVE Valid' # {}
  <2>1. ValidatePublished
    BY <1>7
    DEF SaveProceeds, WriteTemporary, RenameTemporary, UpdateLatest, GoTo, Inv, TypeOK,
        StoreTypeOK
  <2>2. save.step \in Valid
    BY <1>1, <2>1 DEF ValidatePublished, Valid
  <2> QED BY <1>3, <2>2
<1> QED BY <1>1, <1>5, <1>6, <1>7 DEF Survives

\* Retention either removes nothing or leaves two.
LEMMA RetainSurvives ==
  ASSUME Inv, Survives, SaveProceeds, RemoveExpired, KeepLast >= 2
  PROVE  Survives'
<1>1. /\ save.phase = "retain" /\ latest = save.step
      /\ UNCHANGED <<latest, damage, save, pc, step>>
  BY DEF RemoveExpired, SaveAt, SaveProceeds, procVars, Inv, StoreInv
<1>2. Kept = Valid /\ Kept' = Valid' /\ PastFirst' = PastFirst
  BY <1>1 DEF Kept, PastFirst
<1>3. CASE Valid' = Valid
  BY <1>1, <1>2, <1>3 DEF Survives, NeverAlone
<1>4. CASE Valid' # Valid
  <2>1. \E s, t \in Valid' : s # t
    BY <1>4, RetentionKeepsTwo DEF Inv
  <2> QED BY <1>1, <1>2, <2>1 DEF Survives, NeverAlone
<1> QED BY <1>3, <1>4

LEMMA SaveReturnsSurvives == ASSUME Inv, Survives, SaveReturns PROVE Survives'
<1>1. /\ save' = NoSave /\ ~Saving' /\ latest = save.step
      /\ UNCHANGED <<dirs, latest, damage>>
      /\ damage = 0 => save.step \in Valid
  BY EndSaveInv DEF SaveReturns, EndSave, Inv
<1>2. Kept = Valid /\ Valid' = Valid
  BY <1>1 DEF Kept, Valid
<1>3. Kept' = Kept
  BY <1>1, <1>2 DEF Kept
<1>4. save'.phase # "latest"
  BY <1>1 DEF NoSave
<1> QED BY <1>1, <1>2, <1>3, <1>4 DEF Survives, NeverAlone

\* A save that ends early leaves what was kept, with or without its own.
LEMMA DiesSurvives ==
  ASSUME Inv, Survives, Dies, UNCHANGED <<latest, damage>>, save' = NoSave,
         Kept \subseteq Valid', Valid' \subseteq Valid
  PROVE  Survives'
<1>1. ~Saving' /\ save'.phase # "latest" /\ ~PastFirst'
  BY DEF Saving, NoSave, SavePhases, Dies, PastFirst
<1>2. Kept' = Valid'
  BY <1>1 DEF Kept
<1>3. ASSUME damage = 0 PROVE NeverAlone'
  <2>1. CASE Valid' \subseteq Kept
    BY <1>2, <1>3, <2>1 DEF Survives, NeverAlone
  <2>2. CASE ~(Valid' \subseteq Kept)
    <3>1. Saving /\ Valid' \subseteq Kept \cup {save.step}
      BY <2>2 DEF Kept
    <3>2. save.step > SaveSteps => Kept # {}
      BY <1>3, <3>1, SavingIsPast DEF Survives
    <3> QED BY <1>2, <1>3, <3>1, <3>2, NeverAloneGrows DEF Survives
  <2> QED BY <2>1, <2>2
<1> QED BY <1>1, <1>2, <1>3 DEF Survives

LEMMA SaveFailsSurvives == ASSUME Inv, Survives, SaveFails PROVE Survives'
<1>1. FailSave /\ Dies /\ save' = NoSave /\ UNCHANGED <<latest, damage>>
  BY DEF SaveFails, FailSave
<1>2. Valid' \subseteq Valid /\ Saving
  BY <1>1, FailSaveInv DEF Inv
<1>3. Kept \subseteq Valid'
  <2>1. CASE latest # save.step
    BY <1>1, <1>2, <2>1, FailSaveInv DEF Inv, Kept
  <2>2. CASE latest = save.step
    <3>1. dirs' = Abandoned
      BY <1>1, <2>2 DEF FailSave
    <3>2. Valid' = Valid
      BY <1>1, <3>1, AbandonedIs DEF FailSave, Inv
    <3> QED BY <3>2 DEF Kept
  <2> QED BY <2>1, <2>2
<1> QED BY <1>1, <1>2, <1>3, DiesSurvives

LEMMA KillSurvives == ASSUME Inv, Survives, Kill PROVE Survives'
<1>1. KillSave /\ Dies /\ save' = NoSave /\ UNCHANGED <<latest, damage>>
  BY DEF Kill, KillSave
<1>2. Valid' = Valid
  BY <1>1, KillSaveInv DEF Inv
<1> QED BY <1>1, <1>2, DiesSurvives DEF Kept

\* The first damage hits one of two.
LEMMA DamageSurvives == ASSUME Inv, Survives, Damage PROVE Survives'
<1>1. PICK d \in Steps : DamageCheckpoint(d)
  BY DEF Damage
<1>2. /\ dirs' = [dirs EXCEPT ![d] = "broken"] /\ damage' = damage + 1
      /\ damage \in Nat /\ UNCHANGED <<latest, save>>
  BY <1>1, DamageAssumption DEF DamageCheckpoint, Inv, StoreInv, StoreTypeOK
<1>3. Valid' = Valid \ {d}
  BY <1>1, <1>2 DEF DamageCheckpoint, Valid, Inv, StoreInv, StoreTypeOK
<1>4. Kept' = Kept \ {d}
  BY <1>2, <1>3 DEF Kept, Saving
<1> SUFFICES ASSUME damage = 0
             PROVE  /\ latest >= 2 * SaveSteps => Kept' # {}
                    /\ save.phase = "latest" /\ save.step > SaveSteps => Valid' # {}
  BY <1>2 DEF Survives
<1>5. ASSUME latest >= 2 * SaveSteps PROVE Kept' # {}
  <2>1. latest # NoStep
    BY <1>5, SaveStepsFacts DEF NoStep
  <2>2. latest \in Kept /\ latest \in Steps
    BY <2>1 DEF Inv, StoreInv, StoreTypeOK, Valid, Kept
  <2>3. latest > SaveSteps
    BY <1>5, <2>2, SaveStepsFacts, StepFacts
  <2>4. \E s, t \in Kept : s # t
    BY <2>2, <2>3 DEF Survives, NeverAlone
  <2> QED BY <1>4, <2>4
<1>6. ASSUME save.phase = "latest", save.step > SaveSteps PROVE Valid' # {}
  <2>1. Saving /\ Published
    BY <1>6 DEF Saving, Published, SavePhases
  <2>2. save.step \in Valid /\ save.step \notin Kept
    BY <1>6, <2>1 DEF Inv, StoreInv, Valid, Kept
  <2>3. Kept # {}
    BY <1>6, <2>1, SavingIsPast DEF Survives
  <2>4. PICK k \in Kept : k \in Valid /\ k # save.step
    BY <2>2, <2>3 DEF Kept
  <2> QED BY <1>3, <2>2, <2>4
<1> QED BY <1>5, <1>6

LEMMA NextSurvives ==
  ASSUME Inv, Survives, KeepLast >= 2, [Next]_vars
  PROVE  Survives'
<1>1. CASE SaveProceeds
  BY <1>1, PublishSurvives, RetainSurvives
<1>2. CASE Report
  <2>1. pc' = "dead" /\ NoDisk
    BY <1>2 DEF Report, Dies
  <2> QED BY <2>1, NoDiskSurvives DEF NoDisk, PastFirst
<1>3. CASE SigTerm
  <2>1. UNCHANGED <<pc, step>> /\ NoDisk
    BY <1>3 DEF SigTerm
  <2> QED BY <2>1, NoDiskSurvives DEF NoDisk, PastFirst
<1>4. CASE UNCHANGED vars
  <2>1. UNCHANGED <<pc, step>> /\ UNCHANGED <<diskVars, save>>
    BY <1>4 DEF vars, procVars
  <2> QED BY <2>1, NoDiskSurvives DEF PastFirst
<1>5. CASE LoopDone
  BY <1>5, MoveSurvives DEF LoopDone
<1> QED
  BY <1>1, <1>2, <1>3, <1>4, <1>5, StartSurvives, ResumeSurvives, TrainStepSurvives,
     PeriodicSaveSurvives, CheckSignalSurvives, FinalSaveSurvives, SaveReturnsSurvives,
     SaveFailsSurvives, KillSurvives, DamageSurvives
  DEF Next, Process

\* With two ordinary checkpoints kept, one damaged checkpoint never leaves a
\* run that LATEST has carried to its second periodic save without another.
THEOREM DamageSurvived == Spec => []DamageIsSurvived
<1> DEFINE Surv == KeepLast >= 2 => Survives
<1>1. Init => Surv
  BY InitSurvives
<1>2. Inv /\ Surv /\ [Next]_vars => Surv'
  BY NextSurvives
<1>3. Inv /\ Surv => DamageIsSurvived
  <2> SUFFICES ASSUME Inv, Survives, latest >= 2 * SaveSteps, damage <= 1
               PROVE  Valid # {}
    BY DEF DamageIsSurvived
  <2>1. damage = 0 \/ damage = 1
    BY DamageAssumption DEF Inv, StoreInv, StoreTypeOK
  <2>2. CASE damage = 0
    <3>1. latest # NoStep
      BY SaveStepsFacts DEF NoStep
    <3> QED BY <2>2, <3>1 DEF Inv, StoreInv, StoreTypeOK, Valid
  <2>3. CASE damage = 1
    BY <2>3 DEF Survives, Kept
  <2> QED BY <2>1, <2>2, <2>3
<1> HIDE DEF Surv
<1> QED BY Invariance, <1>1, <1>2, <1>3, PTL DEF Spec
=============================================================================
