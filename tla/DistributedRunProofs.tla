-------------------------- MODULE DistributedRunProofs --------------------------
(***************************************************************************)
(* Proofs about DistributedRun, for both strategies, every world size and  *)
(* every number of deaths and failing saves.  Inv, the inductive           *)
(* invariant, says at every place of the program how the steps of the      *)
(* ranks, the rows of the metrics, the checkpoints and run.json go         *)
(* together.                                                               *)
(***************************************************************************)
EXTENDS DistributedRun, CheckpointStoreProofs, SequenceTheorems

\* Only a world in the training loop has a step.
Training == pc \notin {"down", "select", "restore"}

\* Rank 0 saves at one place, for the step of the world.
SavePlace ==
    Saving => /\ pc = "save" /\ 0 \notin dead
              /\ save.step = step /\ save.pin = Pin

\* The ranks have no state, the chosen one, or that of the same step.
RankPlace ==
    /\ pc \in {"down", "select"} => \A k \in Ranks : rstep[k] = NoStep
    /\ pc = "restore" =>
         /\ chosen \in Steps /\ \A k \in Ranks : rstep[k] \in {NoStep, chosen}
         /\ damage = 0 => chosen \in Valid
    /\ Training => step \in Steps /\ \A k \in Ranks : rstep[k] = step

\* The rows end where the world is, and no checkpoint is ahead of them.
RowPlace ==
    /\ Len(rows) \in Steps /\ rows = Canonical(Len(rows))
    /\ \A s \in Valid : s <= Len(rows)
    /\ pc = "restore" => Len(rows) = chosen
    /\ pc = "metric" => step = Len(rows) + 1
    /\ Training /\ pc # "metric" => step = Len(rows)

\* The last step is saved, and pinned, before the loop is left.
FinalPlace ==
    /\ MaxSteps \in Valid => pinned[MaxSteps] # "none"
    /\ pc = "loop" /\ step = MaxSteps /\ damage = 0 => MaxSteps \in Valid
    /\ pc = "report" =>
         AtStop /\ (damage = 0 => step \in Valid /\ pinned[step] # "none")
    /\ stop = NoStop \/ stop.kind \in Outcomes

\* What run.json reports is no checkpoint that is being written.
RecordPlace ==
    /\ record.status = "absent" => pc = "down" /\ Valid = {} /\ rows = <<>>
    /\ record.status \in Outcomes \cup {"succeeded"} /\ damage = 0 =>
         /\ record.checkpoint \in Valid
         /\ pinned[record.checkpoint] # "none"
         /\ record.status = "succeeded" => record.checkpoint = MaxSteps
         /\ Saving => record.checkpoint # save.step

Inv == /\ TypeOK /\ StoreInv /\ SavePlace /\ RankPlace /\ RowPlace /\ FinalPlace
       /\ RecordPlace

-----------------------------------------------------------------------------
(* Steps, ranks and rows.                                                  *)

LEMMA StepFacts ==
  /\ MaxSteps \in Nat /\ MaxSteps # 0 /\ NoStep \notin Steps
  /\ 0 \in Steps /\ MaxSteps \in Steps
  /\ \A s \in Steps : s \in Nat /\ s <= MaxSteps
  BY MaxStepsAssumption DEF Steps, NoStep

LEMMA RankZeroExists == 0 \in Ranks
  BY WorldSizeAssumption DEF Ranks

LEMMA CanonicalIs ==
  ASSUME NEW n \in Steps
  PROVE  /\ Canonical(n) \in Seq(Steps) /\ Len(Canonical(n)) = n
         /\ \A i \in 1..n : Canonical(n)[i] = i
<1>1. n \in Nat /\ 1..n \subseteq Steps
  BY StepFacts DEF Steps
<1>2. Canonical(n) \in [1..n -> Steps] /\ DOMAIN Canonical(n) = 1..n
  BY <1>1 DEF Canonical
<1>3. Canonical(n) \in Seq(Steps)
  BY <1>1, <1>2, SeqDef
<1>4. Len(Canonical(n)) \in Nat /\ 1..Len(Canonical(n)) = 1..n
  BY <1>2, <1>3, LenProperties
<1>5. Len(Canonical(n)) = n
  BY <1>1, <1>4
<1> QED BY <1>3, <1>5 DEF Canonical

LEMMA EmptyIsCanonical == <<>> = Canonical(0) /\ Len(<<>>) = 0 /\ <<>> \in Seq(Steps)
<1>1. Canonical(0) \in Seq(Steps) /\ Len(Canonical(0)) = 0
  BY CanonicalIs, StepFacts
<1>2. <<>> \in Seq(Steps) /\ Len(<<>>) = 0
  BY EmptySeq
<1>3. \A i \in 1..Len(<<>>) : <<>>[i] = Canonical(0)[i]
  BY <1>2
<1>4. <<>> = Canonical(0)
  BY <1>1, <1>2, <1>3, SeqEqual
<1> QED BY <1>2, <1>4

\* A row more leaves the rows canonical.
LEMMA AppendCanonical ==
  ASSUME NEW n \in Steps, n + 1 \in Steps
  PROVE  Append(Canonical(n), n + 1) = Canonical(n + 1)
<1>1. /\ Canonical(n) \in Seq(Steps) /\ Len(Canonical(n)) = n
      /\ \A i \in 1..n : Canonical(n)[i] = i
  BY CanonicalIs
<1>2. /\ Canonical(n + 1) \in Seq(Steps) /\ Len(Canonical(n + 1)) = n + 1
      /\ \A i \in 1..n + 1 : Canonical(n + 1)[i] = i
  BY CanonicalIs
<1>3. /\ Append(Canonical(n), n + 1) \in Seq(Steps)
      /\ Len(Append(Canonical(n), n + 1)) = n + 1
      /\ \A i \in 1..n : Append(Canonical(n), n + 1)[i] = Canonical(n)[i]
      /\ Append(Canonical(n), n + 1)[n + 1] = n + 1
  BY <1>1, AppendProperties
<1>4. \A i \in 1..n + 1 : Append(Canonical(n), n + 1)[i] = Canonical(n + 1)[i]
  <2> SUFFICES ASSUME NEW i \in 1..n + 1
               PROVE  Append(Canonical(n), n + 1)[i] = i
    BY <1>2
  <2>1. n \in Nat
    BY StepFacts
  <2>2. i \in 1..n \/ i = n + 1
    BY <2>1
  <2> QED BY <2>2, <1>1, <1>3
<1> QED BY <1>2, <1>3, <1>4, SeqEqual

\* The stops of a launch are typed.
LEMMA StopsAre ==
  ASSUME NEW current \in Steps, NEW s \in Stops(current)
  PROVE  /\ s \in [kind : Outcomes \cup {"none"}, step : Steps \cup {NoStep}]
         /\ s = NoStop \/ s.kind \in Outcomes
<1>1. CASE s = NoStop
  BY <1>1 DEF NoStop
<1>2. CASE s # NoStop /\ strategy = "ddp"
  <2>1. current + 1 .. MaxSteps \subseteq Steps
    BY StepFacts DEF Steps
  <2> QED BY <1>2, <2>1 DEF Stops
<1>3. CASE s # NoStop /\ strategy # "ddp"
  <2>1. current + 1 .. MaxSteps - 1 \subseteq Steps
    BY StepFacts DEF Steps
  <2>2. s \in [kind : {"interrupted"}, step : current + 1 .. MaxSteps - 1]
    BY <1>3 DEF Stops
  <2> QED BY <2>1, <2>2 DEF Outcomes
<1> QED BY <1>1, <1>2, <1>3

-----------------------------------------------------------------------------
(* The invariant.                                                          *)

LEMMA InitInv == Init => Inv
<1> SUFFICES ASSUME Init PROVE Inv
  OBVIOUS
<1>1. StoreInv /\ StoreTypeOK
  BY StoreInitInv DEF Init, StoreInv
<1>2. Valid = {} /\ ~Saving
  BY DEF Init, StoreInit, Valid, Saving, NoSave, SavePhases
<1>3. rows = <<>> /\ Len(rows) = 0 /\ rows = Canonical(0) /\ rows \in Seq(Steps)
  BY EmptyIsCanonical DEF Init
<1>4. TypeOK
  <2>1. /\ strategy \in {"ddp", "fsdp2"} /\ pc \in Places
        /\ dead \subseteq Ranks /\ parts \subseteq Ranks
        /\ rstep \in [Ranks -> Steps \cup {NoStep}]
        /\ chosen \in Steps \cup {NoStep}
        /\ stop \in [kind : Outcomes \cup {"none"}, step : Steps \cup {NoStep}]
        /\ record.checkpoint \in Steps \cup {NoStep}
        /\ record.status \in Outcomes \cup {"absent", "running", "succeeded"}
    BY DEF Init, Places, NoStop
  <2>2. saved \in BOOLEAN /\ torn \in BOOLEAN
    BY DEF Init
  <2>3. deaths \in 0..MaxDeaths /\ errors \in 0..MaxErrors
    BY BoundAssumption DEF Init
  <2> QED BY <1>1, <1>3, <2>1, <2>2, <2>3 DEF TypeOK
<1>5. pc = "down" /\ stop = NoStop /\ record.status = "absent"
      /\ \A k \in Ranks : rstep[k] = NoStep
  BY DEF Init
<1> QED
  BY <1>1, <1>2, <1>3, <1>4, <1>5, StepFacts
  DEF Inv, SavePlace, RankPlace, RowPlace, FinalPlace, RecordPlace, Outcomes, Training

\* What the disk keeps while the world does something else.
LEMMA NoDiskInv ==
  ASSUME Inv, NoDisk
  PROVE  /\ StoreInv' /\ StoreTypeOK' /\ Valid' = Valid /\ Saving' = Saving
         /\ UNCHANGED <<pinned, latest, damage, save>>
  BY StoreStays DEF Inv, NoDisk, diskVars, StoreInv

\* The world is gone, and its checkpoints are still there but for the one it
\* was writing.
LEMMA DownInv ==
  ASSUME Inv, Down, StoreInv', ~Saving', Valid' \subseteq Valid,
         UNCHANGED <<pinned, damage, rows, torn, strategy>>,
         deaths' \in 0..MaxDeaths, errors' \in 0..MaxErrors,
         record'.checkpoint \in Steps \cup {NoStep},
         record'.status \in Outcomes \cup {"absent", "running", "succeeded"},
         record'.status = "absent" => Valid' = {} /\ rows = <<>>,
         record'.status \in Outcomes \cup {"succeeded"} /\ damage = 0 =>
           /\ record'.checkpoint \in Valid'
           /\ pinned[record'.checkpoint] # "none"
           /\ record'.status = "succeeded" => record'.checkpoint = MaxSteps
  PROVE  Inv'
<1>1. /\ pc' = "down" /\ dead' = {} /\ rstep' = [k \in Ranks |-> NoStep]
      /\ chosen' = NoStep /\ parts' = {} /\ stop' = NoStop /\ saved' = FALSE
  BY DEF Down
<1>2. TypeOK'
  <2>1. saved' \in BOOLEAN /\ torn' \in BOOLEAN
    BY <1>1 DEF Inv, TypeOK
  <2>2. /\ strategy' \in {"ddp", "fsdp2"} /\ pc' \in Places
        /\ dead' \subseteq Ranks /\ parts' \subseteq Ranks
        /\ rstep' \in [Ranks -> Steps \cup {NoStep}]
        /\ chosen' \in Steps \cup {NoStep}
        /\ stop' \in [kind : Outcomes \cup {"none"}, step : Steps \cup {NoStep}]
        /\ rows' \in Seq(Steps)
    BY <1>1 DEF Inv, TypeOK, Places, NoStop
  <2> QED BY <2>1, <2>2 DEF TypeOK, StoreInv
<1>3. SavePlace' /\ RankPlace'
  BY <1>1 DEF SavePlace, RankPlace, Training
<1>4. RowPlace' /\ FinalPlace'
  BY <1>1 DEF Inv, RowPlace, FinalPlace, Training
<1>5. RecordPlace'
  BY <1>1 DEF Inv, RecordPlace
<1> QED BY <1>2, <1>3, <1>4, <1>5 DEF Inv

\* A world that ends with run.json unchanged.
LEMMA EndsInv ==
  ASSUME Inv, Down, StoreInv', ~Saving', Valid' \subseteq Valid,
         UNCHANGED <<pinned, damage, rows, torn, strategy, record>>,
         deaths' \in 0..MaxDeaths, errors' \in 0..MaxErrors,
         record.status \in Outcomes \cup {"succeeded"} /\ damage = 0 =>
           record.checkpoint \in Valid'
  PROVE  Inv'
<1>1. record.status = "absent" => Valid' = {} /\ rows = <<>>
  BY DEF Inv, RecordPlace
<1>2. record.status \in Outcomes \cup {"succeeded"} /\ damage = 0 =>
           /\ record.checkpoint \in Valid'
           /\ pinned[record.checkpoint] # "none"
           /\ record.status = "succeeded" => record.checkpoint = MaxSteps
  BY DEF Inv, RecordPlace
<1>3. /\ record.checkpoint \in Steps \cup {NoStep}
      /\ record.status \in Outcomes \cup {"absent", "running", "succeeded"}
  BY DEF Inv, TypeOK
<1> QED BY <1>1, <1>2, <1>3, DownInv

\* A world at work: the record is not absent.
LEMMA AtWork ==
  ASSUME Inv, pc # "down"
  PROVE  /\ record.status # "absent"
         /\ deaths \in 0..MaxDeaths /\ errors \in 0..MaxErrors
  BY DEF Inv, RecordPlace, TypeOK

LEMMA FreshInv == ASSUME Inv, Fresh PROVE Inv'
<1>1. /\ pc = "down" /\ record.status = "absent"
      /\ record' = [status |-> "running", checkpoint |-> NoStep]
      /\ pc' = "loop" /\ stop' \in Stops(0) /\ rstep' = [k \in Ranks |-> 0]
      /\ UNCHANGED <<dead, chosen, parts, saved, rows, torn, countVars, strategy>>
  BY DEF Fresh, EnterLoop
<1>2. /\ StoreInv' /\ StoreTypeOK' /\ Valid' = Valid /\ Saving' = Saving
      /\ UNCHANGED <<pinned, latest, damage, save>>
  BY NoDiskInv DEF Fresh
<1>3. ~Saving /\ Valid = {} /\ rows = <<>> /\ Len(rows) = 0
  BY <1>1, EmptyIsCanonical DEF Inv, SavePlace, RecordPlace
<1>4. /\ stop' \in [kind : Outcomes \cup {"none"}, step : Steps \cup {NoStep}]
      /\ stop' = NoStop \/ stop'.kind \in Outcomes
  BY <1>1, StopsAre, StepFacts
<1>5. step' = 0 /\ step' \in Steps /\ \A k \in Ranks : rstep'[k] = step'
  BY <1>1, RankZeroExists, StepFacts DEF step
<1>6. TypeOK'
  <2>1. rstep' \in [Ranks -> Steps \cup {NoStep}]
    BY <1>1, StepFacts
  <2>2. record'.checkpoint = NoStep /\ record'.status = "running"
    BY <1>1
  <2> QED BY <1>1, <1>2, <1>4, <2>1, <2>2 DEF Inv, TypeOK, Places, countVars
<1>7. RankPlace' /\ SavePlace'
  BY <1>1, <1>2, <1>3, <1>5 DEF RankPlace, SavePlace
<1>8. RowPlace'
  BY <1>1, <1>2, <1>3, <1>5 DEF Inv, RowPlace
<1>9. FinalPlace'
  BY <1>1, <1>2, <1>3, <1>4, <1>5, StepFacts DEF FinalPlace
<1>10. RecordPlace'
  BY <1>1 DEF RecordPlace, Outcomes
<1> QED BY <1>2, <1>6, <1>7, <1>8, <1>9, <1>10 DEF Inv

LEMMA ResumeInv == ASSUME Inv, Resume PROVE Inv'
<1>1. /\ pc = "down" /\ record.status # "absent" /\ pc' = "select"
      /\ UNCHANGED <<dead, rstep, chosen, parts, stop, saved, rows, torn, record, countVars,
                     strategy>>
  BY DEF Resume, GoOn, runVars
<1>2. /\ StoreInv' /\ StoreTypeOK' /\ Valid' = Valid /\ Saving' = Saving
      /\ UNCHANGED <<pinned, latest, damage, save>>
  BY NoDiskInv DEF Resume
<1>3. TypeOK' /\ ~Saving
  BY <1>1, <1>2 DEF Inv, TypeOK, Places, countVars, SavePlace
<1>4. SavePlace' /\ RankPlace'
  BY <1>1, <1>2, <1>3 DEF Inv, SavePlace, RankPlace, Training
<1>5. RowPlace' /\ FinalPlace' /\ RecordPlace'
  BY <1>1, <1>2, <1>3 DEF Inv, RowPlace, FinalPlace, RecordPlace, Training
<1> QED BY <1>2, <1>3, <1>4, <1>5 DEF Inv

LEMMA SelectInv == ASSUME Inv, Select PROVE Inv'
<1>1. pc = "select" /\ UNCHANGED <<torn, record, countVars, strategy>>
  BY DEF Select, Together
<1>2. /\ StoreInv' /\ StoreTypeOK' /\ Valid' = Valid /\ Saving' = Saving
      /\ UNCHANGED <<pinned, latest, damage, save>>
  BY NoDiskInv DEF Select
<1>3. ~Saving /\ record.status # "absent"
  BY <1>1, AtWork DEF Inv, SavePlace
<1>4. CASE /\ Valid # {} /\ UpTo(LatestValid) = Canonical(LatestValid)
           /\ chosen' = LatestValid /\ pc' = "restore"
           /\ rows' = Truncated(LatestValid)
           /\ UNCHANGED <<dead, rstep, parts, stop, saved>>
  <2>1. chosen' \in Valid /\ chosen' \in Steps /\ \A t \in Valid : t <= chosen'
    BY <1>4, LatestValidIs
  <2>2. rows' = Canonical(chosen')
    BY <1>4 DEF Truncated
  <2>3. rows' \in Seq(Steps) /\ Len(rows') = chosen'
    BY <2>1, <2>2, CanonicalIs
  <2>4. TypeOK'
    BY <1>1, <1>2, <1>4, <2>1, <2>3 DEF Inv, TypeOK, Places, countVars
  <2>5. SavePlace' /\ RankPlace'
    BY <1>1, <1>2, <1>3, <1>4, <2>1 DEF Inv, SavePlace, RankPlace, Training
  <2>6. RowPlace'
    BY <1>2, <1>4, <2>1, <2>2, <2>3 DEF RowPlace, Training
  <2>7. FinalPlace' /\ RecordPlace'
    BY <1>1, <1>2, <1>3, <1>4 DEF Inv, FinalPlace, RecordPlace
  <2> QED BY <1>2, <2>4, <2>5, <2>6, <2>7 DEF Inv
<1>5. CASE Down /\ UNCHANGED rows
  <2>1. record.status \in Outcomes \cup {"succeeded"} /\ damage = 0 =>
          record.checkpoint \in Valid'
    BY <1>2 DEF Inv, RecordPlace
  <2> QED BY <1>1, <1>2, <1>3, <1>5, <2>1, EndsInv DEF countVars, Inv, TypeOK
<1>6. CASE dead' = {0} /\ UNCHANGED <<pc, rstep, chosen, parts, stop, saved, rows>>
  <2>1. TypeOK'
    BY <1>1, <1>2, <1>6, RankZeroExists DEF Inv, TypeOK, countVars
  <2>2. SavePlace' /\ RankPlace'
    BY <1>1, <1>2, <1>3, <1>6 DEF Inv, SavePlace, RankPlace, Training
  <2>3. RowPlace' /\ FinalPlace' /\ RecordPlace'
    BY <1>1, <1>2, <1>3, <1>6 DEF Inv, RowPlace, FinalPlace, RecordPlace, Training
  <2> QED BY <1>2, <2>1, <2>2, <2>3 DEF Inv
<1> QED BY <1>4, <1>5, <1>6 DEF Select

LEMMA RestoreInv == ASSUME Inv, NEW k \in Ranks, Restore(k) PROVE Inv'
<1>1. /\ pc = "restore" /\ k \notin dead /\ rstep[k] = NoStep
      /\ UNCHANGED <<pc, chosen, parts, stop, saved, rows, torn, record, countVars, strategy>>
      /\ \/ rstep' = [rstep EXCEPT ![k] = chosen] /\ UNCHANGED dead
         \/ dead' = dead \cup {k} /\ UNCHANGED rstep
  BY DEF Restore, runVars
<1>2. /\ StoreInv' /\ StoreTypeOK' /\ Valid' = Valid /\ Saving' = Saving
      /\ UNCHANGED <<pinned, latest, damage, save>>
  BY NoDiskInv DEF Restore
<1>3. ~Saving
  BY <1>1 DEF Inv, SavePlace
<1>4. /\ chosen \in Steps /\ rstep' \in [Ranks -> Steps \cup {NoStep}]
      /\ \A j \in Ranks : rstep'[j] \in {NoStep, chosen}
  BY <1>1 DEF Inv, TypeOK, RankPlace
<1>5. TypeOK'
  BY <1>1, <1>2, <1>4 DEF Inv, TypeOK, countVars
<1>6. SavePlace' /\ RankPlace'
  BY <1>1, <1>2, <1>3, <1>4 DEF Inv, SavePlace, RankPlace, Training
<1>7. RowPlace' /\ FinalPlace' /\ RecordPlace'
  BY <1>1, <1>2, <1>3 DEF Inv, RowPlace, FinalPlace, RecordPlace, Training
<1> QED BY <1>2, <1>5, <1>6, <1>7 DEF Inv

LEMMA RestoredInv == ASSUME Inv, Restored PROVE Inv'
<1>1. /\ pc = "restore" /\ \A k \in Ranks : rstep[k] # NoStep
      /\ pc' = "loop" /\ stop' \in Stops(chosen)
      /\ UNCHANGED <<dead, rstep, chosen, parts, saved, rows, torn, record, countVars,
                     strategy>>
  BY DEF Restored, Together, runVars
<1>2. /\ StoreInv' /\ StoreTypeOK' /\ Valid' = Valid /\ Saving' = Saving
      /\ UNCHANGED <<pinned, latest, damage, save>>
  BY NoDiskInv DEF Restored
<1>3. ~Saving
  BY <1>1 DEF Inv, SavePlace
<1>4. /\ chosen \in Steps /\ step' = chosen /\ \A k \in Ranks : rstep'[k] = step'
      /\ damage = 0 => chosen \in Valid
  BY <1>1, RankZeroExists DEF Inv, RankPlace, step
<1>5. /\ stop' \in [kind : Outcomes \cup {"none"}, step : Steps \cup {NoStep}]
      /\ stop' = NoStop \/ stop'.kind \in Outcomes
  BY <1>1, <1>4, StopsAre
<1>6. TypeOK'
  BY <1>1, <1>2, <1>5 DEF Inv, TypeOK, Places, countVars
<1>7. SavePlace' /\ RankPlace'
  BY <1>1, <1>2, <1>3, <1>4 DEF SavePlace, RankPlace, Training
<1>8. RowPlace'
  BY <1>1, <1>2, <1>4 DEF Inv, RowPlace, Training
<1>9. FinalPlace' /\ RecordPlace'
  BY <1>1, <1>2, <1>3, <1>4, <1>5 DEF Inv, FinalPlace, RecordPlace
<1> QED BY <1>2, <1>6, <1>7, <1>8, <1>9 DEF Inv

LEMMA TrainStepInv == ASSUME Inv, TrainStep PROVE Inv'
<1>1. /\ pc = "loop" /\ step < MaxSteps /\ pc' = "metric"
      /\ rstep' = [k \in Ranks |-> rstep[k] + 1]
      /\ UNCHANGED <<dead, chosen, parts, stop, saved, rows, torn, record, countVars,
                     strategy>>
  BY DEF TrainStep, Together, runVars
<1>2. /\ StoreInv' /\ StoreTypeOK' /\ Valid' = Valid /\ Saving' = Saving
      /\ UNCHANGED <<pinned, latest, damage, save>>
  BY NoDiskInv DEF TrainStep
<1>3. ~Saving /\ record.status # "absent"
  BY <1>1, AtWork DEF Inv, SavePlace
<1>4. step \in Steps /\ step + 1 \in Steps /\ \A k \in Ranks : rstep[k] = step
  BY <1>1, StepFacts DEF Inv, RankPlace, Training, Steps
<1>5. step' = step + 1 /\ \A k \in Ranks : rstep'[k] = step'
  <2>1. \A k \in Ranks : rstep'[k] = step + 1
    BY <1>1, <1>4
  <2> QED BY <2>1, RankZeroExists DEF step
<1>6. rstep' \in [Ranks -> Steps \cup {NoStep}]
  BY <1>1, <1>4
<1>7. TypeOK'
  BY <1>1, <1>2, <1>6 DEF Inv, TypeOK, Places, countVars
<1>8. SavePlace' /\ RankPlace'
  BY <1>1, <1>2, <1>3, <1>4, <1>5 DEF SavePlace, RankPlace, Training
<1>9. RowPlace'
  BY <1>1, <1>2, <1>5 DEF Inv, RowPlace, Training
<1>10. FinalPlace' /\ RecordPlace'
  BY <1>1, <1>2, <1>3 DEF Inv, FinalPlace, RecordPlace
<1> QED BY <1>2, <1>7, <1>8, <1>9, <1>10 DEF Inv

LEMMA AppendMetricInv == ASSUME Inv, AppendMetric PROVE Inv'
<1>1. /\ pc = "metric" /\ rows' = Append(rows, step)
      /\ pc' = IF SaveDue THEN "gather" ELSE "loop"
      /\ UNCHANGED <<dead, rstep, chosen, parts, stop, saved, torn, record, countVars,
                     strategy>>
  BY DEF AppendMetric, RankZero, GoOn
<1>2. /\ StoreInv' /\ StoreTypeOK' /\ Valid' = Valid /\ Saving' = Saving
      /\ UNCHANGED <<pinned, latest, damage, save>>
  BY NoDiskInv DEF AppendMetric
<1>3. ~Saving /\ record.status # "absent"
  BY <1>1, AtWork DEF Inv, SavePlace
<1>4. step \in Steps /\ step' = step /\ \A k \in Ranks : rstep[k] = step
  BY <1>1 DEF Inv, RankPlace, Training, step
<1>5. step = Len(rows) + 1 /\ Len(rows) \in Steps /\ rows = Canonical(Len(rows))
  BY <1>1 DEF Inv, RowPlace
<1>6. rows' = Canonical(step)
  BY <1>1, <1>4, <1>5, AppendCanonical
<1>7. Len(rows') = step /\ rows' \in Seq(Steps)
  BY <1>4, <1>6, CanonicalIs
<1>8. TypeOK'
  BY <1>1, <1>2, <1>7 DEF Inv, TypeOK, Places, countVars
<1>9. SavePlace' /\ RankPlace'
  BY <1>1, <1>2, <1>3, <1>4 DEF SavePlace, RankPlace, Training
<1>10. \A s \in Valid' : s <= Len(rows')
  <2> SUFFICES ASSUME NEW s \in Valid PROVE s <= step
    BY <1>2, <1>7
  <2>1. s \in Nat /\ s <= Len(rows) /\ Len(rows) \in Nat
    BY <1>5, StepFacts DEF Inv, RowPlace, Valid
  <2> QED BY <2>1, <1>5
<1>11. RowPlace'
  BY <1>1, <1>4, <1>6, <1>7, <1>10 DEF RowPlace, Training
<1>12. FinalPlace'
  BY <1>1, <1>2, <1>4 DEF Inv, FinalPlace, SaveDue
<1>13. RecordPlace'
  BY <1>1, <1>2, <1>3 DEF Inv, RecordPlace
<1> QED BY <1>2, <1>8, <1>9, <1>11, <1>12, <1>13 DEF Inv

\* A save begins; what was valid is older.
LEMMA BeginInv ==
  ASSUME Inv, pc \in {"gather", "shards"}, dead = {}, BeginSave(step, Pin), pc' = "save",
         parts' \in SUBSET Ranks,
         UNCHANGED <<dead, rstep, chosen, stop, saved, rows, torn, record, countVars, strategy>>
  PROVE  Inv'
<1>1. step \in Steps /\ step' = step /\ \A k \in Ranks : rstep[k] = step
  BY DEF Inv, RankPlace, Training, step
<1>2. ~Saving /\ record.status # "absent"
  BY AtWork DEF Inv, SavePlace
<1>3. Pin \in Pins /\ Pin' = Pin
  <2>1. AtStop' = AtStop
    BY <1>1 DEF AtStop
  <2> QED BY <1>1, <2>1 DEF Pin, Pins
<1>4. damage = 0 => \A t \in Valid : t <= step
  BY DEF Inv, RowPlace, Training
<1>5. /\ StoreInv' /\ Saving' /\ save'.step = step /\ save'.pin = Pin
      /\ UNCHANGED diskVars
  BY <1>1, <1>2, <1>3, <1>4, BeginSaveInv DEF Inv
<1>6. Valid' = Valid /\ UNCHANGED <<pinned, damage, latest>> /\ StoreTypeOK'
  BY <1>5 DEF Valid, diskVars, StoreInv
<1>7. step \notin Valid
  BY DEF BeginSave, DestinationExists, Valid
<1>8. TypeOK'
  BY <1>6 DEF Inv, TypeOK, Places, countVars
<1>9. SavePlace' /\ RankPlace'
  BY <1>1, <1>3, <1>5 DEF SavePlace, RankPlace, Training
<1>10. RowPlace'
  BY <1>1, <1>6 DEF Inv, RowPlace, Training
<1>11. FinalPlace'
  BY <1>6 DEF Inv, FinalPlace
<1>12. RecordPlace'
  BY <1>2, <1>5, <1>6, <1>7 DEF Inv, RecordPlace
<1> QED BY <1>5, <1>8, <1>9, <1>10, <1>11, <1>12 DEF Inv

LEMMA GatherInv == ASSUME Inv, Gather PROVE Inv'
<1>1. pc = "gather" /\ dead = {} /\ UNCHANGED <<rows, torn, record, countVars, strategy>>
  BY DEF Gather, Together, runVars
<1>2. CASE DestinationExists(step) /\ Down /\ NoDisk
  <2>1. /\ StoreInv' /\ Valid' = Valid /\ Saving' = Saving
        /\ UNCHANGED <<pinned, damage>>
    BY <1>2, NoDiskInv
  <2>2. ~Saving /\ (record.status \in Outcomes \cup {"succeeded"} /\ damage = 0 =>
          record.checkpoint \in Valid')
    BY <1>1, <2>1 DEF Inv, RecordPlace, SavePlace
  <2> QED BY <1>1, <1>2, <2>1, <2>2, EndsInv DEF countVars, Inv, TypeOK
<1>3. CASE BeginSave(step, Pin) /\ GoOn("save")
  BY <1>1, <1>3, BeginInv DEF GoOn, Inv, TypeOK
<1>4. CASE /\ pc' = "shards" /\ NoDisk
           /\ UNCHANGED <<dead, rstep, chosen, parts, stop, saved>>
  <2>1. /\ StoreInv' /\ StoreTypeOK' /\ Valid' = Valid /\ Saving' = Saving
        /\ UNCHANGED <<pinned, latest, damage, save>>
    BY <1>4, NoDiskInv
  <2>2. ~Saving /\ record.status # "absent" /\ step' = step
    BY <1>1, <1>4, AtWork DEF Inv, SavePlace, step
  <2>3. TypeOK'
    BY <1>1, <1>4, <2>1 DEF Inv, TypeOK, Places, countVars
  <2>4. SavePlace' /\ RankPlace'
    BY <1>1, <1>4, <2>1, <2>2 DEF Inv, SavePlace, RankPlace, Training
  <2>5. RowPlace' /\ FinalPlace' /\ RecordPlace'
    BY <1>1, <1>4, <2>1, <2>2 DEF Inv, RowPlace, FinalPlace, RecordPlace, Training
  <2> QED BY <2>1, <2>3, <2>4, <2>5 DEF Inv
<1> QED BY <1>2, <1>3, <1>4 DEF Gather

LEMMA WriteShardInv == ASSUME Inv, NEW k \in Ranks, WriteShard(k) PROVE Inv'
<1>1. /\ pc = "shards" /\ parts' = parts \cup {k}
      /\ UNCHANGED <<pc, dead, rstep, chosen, stop, saved, rows, torn, record, countVars,
                     strategy>>
  BY DEF WriteShard, runVars
<1>2. /\ StoreInv' /\ StoreTypeOK' /\ Valid' = Valid /\ Saving' = Saving
      /\ UNCHANGED <<pinned, latest, damage, save>>
  BY NoDiskInv DEF WriteShard
<1>3. ~Saving /\ step' = step
  BY <1>1 DEF Inv, SavePlace, step
<1>4. TypeOK'
  BY <1>1, <1>2 DEF Inv, TypeOK, countVars
<1>5. SavePlace' /\ RankPlace'
  BY <1>1, <1>2, <1>3 DEF Inv, SavePlace, RankPlace, Training
<1>6. RowPlace' /\ FinalPlace' /\ RecordPlace'
  BY <1>1, <1>2, <1>3 DEF Inv, RowPlace, FinalPlace, RecordPlace, Training
<1> QED BY <1>2, <1>4, <1>5, <1>6 DEF Inv

LEMMA PublishInv == ASSUME Inv, Publish PROVE Inv'
  BY BeginInv DEF Publish, Together, runVars

LEMMA SaveProceedsInv == ASSUME Inv, SaveProceeds PROVE Inv'
<1>1. /\ pc = "save" /\ 0 \notin dead
      /\ UNCHANGED <<pc, dead, rstep, chosen, parts, stop, saved, rows, torn, record, countVars,
                     strategy>>
  BY DEF SaveProceeds, RankZero, worldVars, runVars
<1>2. StoreInv' /\ OthersStay
  BY SaveStepInv DEF Inv, SaveProceeds
<1>3. step' = step /\ Pin' = Pin /\ AtStop' = AtStop
  BY <1>1 DEF step, Pin, AtStop
<1>4. record.status # "absent" /\ step \in Steps
  BY <1>1, AtWork DEF Inv, RankPlace, Training
<1>5. save.step = step /\ save.pin = Pin
  BY <1>2 DEF Inv, SavePlace, OthersStay
<1>6. TypeOK'
  BY <1>1, <1>2 DEF Inv, TypeOK, countVars, StoreInv
<1>7. SavePlace' /\ RankPlace'
  BY <1>1, <1>2, <1>3, <1>5 DEF Inv, SavePlace, RankPlace, OthersStay, Training
<1>8. RowPlace'
  <2>1. \A s \in Valid' : s <= Len(rows)
    <3> SUFFICES ASSUME NEW s \in Valid' PROVE s <= Len(rows)
      OBVIOUS
    <3>1. CASE s \in Valid
      BY <3>1 DEF Inv, RowPlace
    <3>2. CASE s = step
      BY <3>2, <1>1, <1>4, StepFacts DEF Inv, RowPlace, Training
    <3> QED BY <3>1, <3>2, <1>2, <1>5 DEF OthersStay
  <2> QED BY <2>1, <1>1, <1>3 DEF Inv, RowPlace, Training
<1>9. FinalPlace'
  <2>1. ASSUME MaxSteps \in Valid', MaxSteps \notin Valid
        PROVE  pinned'[MaxSteps] # "none"
    <3>1. step = MaxSteps /\ pinned'[MaxSteps] = Pin
      BY <2>1, <1>2, <1>5 DEF OthersStay
    <3> QED BY <3>1 DEF Pin
  <2>2. MaxSteps \in Valid' => pinned'[MaxSteps] # "none"
    BY <2>1, <1>2 DEF Inv, FinalPlace, OthersStay
  <2> QED BY <2>2, <1>1 DEF Inv, FinalPlace
<1>10. RecordPlace'
  <2> SUFFICES ASSUME record.status \in Outcomes \cup {"succeeded"}, damage = 0
               PROVE  /\ record.checkpoint \in Valid'
                      /\ pinned'[record.checkpoint] # "none"
                      /\ record.status = "succeeded" => record.checkpoint = MaxSteps
                      /\ record.checkpoint # save'.step
    BY <1>1, <1>2, <1>4 DEF RecordPlace, OthersStay
  <2>1. /\ record.checkpoint \in Valid /\ pinned[record.checkpoint] # "none"
        /\ record.status = "succeeded" => record.checkpoint = MaxSteps
        /\ record.checkpoint # save.step
    BY <1>2 DEF Inv, RecordPlace, OthersStay
  <2> QED BY <2>1, <1>2 DEF OthersStay
<1> QED BY <1>2, <1>6, <1>7, <1>8, <1>9, <1>10 DEF Inv

LEMMA SaveReturnsInv == ASSUME Inv, SaveReturns PROVE Inv'
<1>1. /\ pc = "save" /\ dead = {} /\ saved' = TRUE
      /\ pc' = IF AtStop THEN "report" ELSE "loop"
      /\ UNCHANGED <<dead, rstep, chosen, parts, stop, rows, torn, record, countVars, strategy>>
  BY DEF SaveReturns, Together, runVars
<1>2. /\ StoreInv' /\ ~Saving' /\ UNCHANGED <<dirs, pinned, latest, damage>> /\ Saving
      /\ damage = 0 => save.step \in Valid /\ pinned[save.step] = save.pin
  BY EndSaveInv DEF Inv, SaveReturns
<1>3. step' = step /\ AtStop' = AtStop
  BY <1>1 DEF step, AtStop
<1>4. record.status # "absent" /\ step \in Steps /\ Valid' = Valid
  BY <1>1, <1>2, AtWork DEF Inv, RankPlace, Training, Valid
<1>5. save.step = step /\ save.pin = Pin
  BY <1>2 DEF Inv, SavePlace
<1>6. TypeOK'
  <2>1. saved' \in BOOLEAN
    BY <1>1
  <2>2. pc' \in Places
    BY <1>1 DEF Places
  <2> QED BY <1>1, <1>2, <2>1, <2>2 DEF Inv, TypeOK, countVars, StoreInv
<1>7. SavePlace' /\ RankPlace'
  BY <1>1, <1>2, <1>3 DEF Inv, SavePlace, RankPlace, Training
<1>8. RowPlace'
  BY <1>1, <1>3, <1>4 DEF Inv, RowPlace, Training
<1>9. FinalPlace'
  <2>1. AtStop => Pin = "interruption"
    BY DEF Pin
  <2> QED BY <1>1, <1>2, <1>3, <1>4, <1>5, <2>1 DEF Inv, FinalPlace
<1>10. RecordPlace'
  BY <1>1, <1>2, <1>4 DEF Inv, RecordPlace
<1> QED BY <1>2, <1>6, <1>7, <1>8, <1>9, <1>10 DEF Inv

LEMMA GiveUpSaveInv ==
  ASSUME Inv, GiveUpSave, errors' \in 0..MaxErrors
  PROVE  Inv'
<1>1. pc = "save" /\ Down /\ UNCHANGED <<rows, torn, record, deaths, strategy>>
  BY DEF GiveUpSave, Together, runVars
<1>2. deaths' \in 0..MaxDeaths
  BY <1>1 DEF Inv, TypeOK
<1>3. CASE FailSave
  <2>1. /\ StoreInv' /\ ~Saving' /\ Valid' \subseteq Valid /\ Saving
        /\ UNCHANGED <<pinned, damage>>
        /\ \A s \in Valid : s # save.step => s \in Valid'
    BY <1>3, FailSaveInv DEF Inv
  <2>2. record.status \in Outcomes \cup {"succeeded"} /\ damage = 0 =>
          record.checkpoint \in Valid'
    BY <2>1 DEF Inv, RecordPlace
  <2> QED BY <1>1, <1>2, <2>1, <2>2, EndsInv
<1>4. CASE KillSave
  <2>1. /\ StoreInv' /\ ~Saving' /\ Valid' = Valid /\ UNCHANGED <<pinned, damage>>
    BY <1>4, KillSaveInv DEF Inv
  <2>2. record.status \in Outcomes \cup {"succeeded"} /\ damage = 0 =>
          record.checkpoint \in Valid'
    BY <2>1 DEF Inv, RecordPlace
  <2> QED BY <1>1, <1>2, <2>1, <2>2, EndsInv
<1> QED BY <1>3, <1>4 DEF GiveUpSave

LEMMA SaveRejectedInv == ASSUME Inv, SaveRejected PROVE Inv'
  BY GiveUpSaveInv DEF SaveRejected, Inv, TypeOK

LEMMA SaveFailsInv == ASSUME Inv, SaveFails PROVE Inv'
<1>1. errors' \in 0..MaxErrors
  BY BoundAssumption DEF SaveFails, Inv, TypeOK
<1> QED BY <1>1, GiveUpSaveInv DEF SaveFails

LEMMA ReportInv == ASSUME Inv, Report PROVE Inv'
<1>1. /\ pc = "report" /\ record' = [status |-> stop.kind, checkpoint |-> step]
      /\ Down /\ UNCHANGED <<rows, torn, countVars, strategy>>
  BY DEF Report, RankZero
<1>2. /\ StoreInv' /\ Valid' = Valid /\ Saving' = Saving /\ UNCHANGED <<pinned, damage>>
  BY NoDiskInv DEF Report
<1>3. ~Saving
  BY <1>1 DEF Inv, SavePlace
<1>4. step \in Steps /\ stop.kind \in Outcomes
  <2>1. step \in Steps /\ stop.step = step
    BY <1>1 DEF Inv, RankPlace, Training, FinalPlace, AtStop
  <2>2. stop # NoStop
    BY <2>1, StepFacts DEF NoStop
  <2> QED BY <2>1, <2>2 DEF Inv, FinalPlace
<1>5. record'.checkpoint = step /\ record'.status = stop.kind
  BY <1>1
<1>6. damage = 0 => step \in Valid /\ pinned[step] # "none"
  BY <1>1 DEF Inv, FinalPlace
<1>7. record'.status # "absent" /\ record'.status # "succeeded"
  BY <1>4, <1>5 DEF Outcomes
<1>8. deaths' \in 0..MaxDeaths /\ errors' \in 0..MaxErrors
  BY <1>1 DEF Inv, TypeOK, countVars
<1> QED
  BY <1>1, <1>2, <1>3, <1>4, <1>5, <1>6, <1>7, <1>8, DownInv

LEMMA FinishInv == ASSUME Inv, Finish PROVE Inv'
<1>1. /\ pc = "loop" /\ step = MaxSteps /\ Down /\ UNCHANGED <<rows, torn, countVars, strategy>>
      /\ UNCHANGED record \/ record' = [status |-> "succeeded", checkpoint |-> step]
  BY DEF Finish, Together
<1>2. /\ StoreInv' /\ Valid' = Valid /\ Saving' = Saving /\ UNCHANGED <<pinned, damage>>
  BY NoDiskInv DEF Finish
<1>3. ~Saving
  BY <1>1 DEF Inv, SavePlace
<1>4. deaths' \in 0..MaxDeaths /\ errors' \in 0..MaxErrors
  BY <1>1 DEF Inv, TypeOK, countVars
<1>5. CASE UNCHANGED record
  <2>1. record.status \in Outcomes \cup {"succeeded"} /\ damage = 0 =>
          record.checkpoint \in Valid'
    BY <1>2 DEF Inv, RecordPlace
  <2> QED BY <1>1, <1>2, <1>3, <1>4, <1>5, <2>1, EndsInv
<1>6. CASE record' = [status |-> "succeeded", checkpoint |-> step]
  <2>1. record'.status = "succeeded" /\ record'.checkpoint = MaxSteps
    BY <1>1, <1>6
  <2>2. damage = 0 => MaxSteps \in Valid /\ pinned[MaxSteps] # "none"
    BY <1>1 DEF Inv, FinalPlace
  <2> QED BY <1>1, <1>2, <1>3, <1>4, <2>1, <2>2, StepFacts, DownInv
<1> QED BY <1>1, <1>5, <1>6

LEMMA RankDiesInv == ASSUME Inv, NEW k \in Ranks, RankDies(k) PROVE Inv'
<1>1. /\ pc # "down" /\ dead' = dead \cup {k} /\ deaths < MaxDeaths /\ deaths' = deaths + 1
      /\ UNCHANGED <<pc, rstep, chosen, parts, stop, saved, rows, record, errors, strategy>>
  BY DEF RankDies, runVars
<1>2. deaths' \in 0..MaxDeaths
  BY <1>1, BoundAssumption DEF Inv, TypeOK
<1>3. step' = step /\ Pin' = Pin /\ AtStop' = AtStop
  BY <1>1 DEF step, Pin, AtStop
<1>4. /\ StoreInv' /\ StoreTypeOK' /\ Valid' = Valid /\ UNCHANGED <<pinned, damage>>
      /\ Saving' => Saving /\ k # 0 /\ UNCHANGED save
  <2>1. CASE k = 0
    BY <2>1, KillSaveInv DEF RankDies, Inv, StoreInv
  <2>2. CASE k # 0
    BY <2>2, NoDiskInv DEF RankDies
  <2> QED BY <2>1, <2>2
<1>5. TypeOK'
  <2>1. torn \in BOOLEAN /\ torn' \in {torn, torn \/ (k = 0 /\ pc = "metric")}
    BY DEF RankDies, Inv, TypeOK
  <2>2. torn' \in BOOLEAN
    BY <2>1, Zenon
  <2> QED BY <1>1, <1>2, <1>4, <2>2 DEF Inv, TypeOK
<1>6. SavePlace' /\ RankPlace'
  BY <1>1, <1>3, <1>4 DEF Inv, SavePlace, RankPlace, Training
<1>7. RowPlace' /\ FinalPlace' /\ RecordPlace'
  BY <1>1, <1>3, <1>4 DEF Inv, RowPlace, FinalPlace, RecordPlace, Training
<1> QED BY <1>4, <1>5, <1>6, <1>7 DEF Inv

LEMMA EndWorldInv == ASSUME Inv, EndWorld PROVE Inv'
<1>1. Down /\ UNCHANGED <<rows, torn, record, countVars, strategy>>
  BY DEF EndWorld, runVars
<1>2. StoreInv' /\ ~Saving' /\ Valid' = Valid /\ UNCHANGED <<pinned, damage>>
  BY KillSaveInv DEF EndWorld, Inv
<1>3. record.status \in Outcomes \cup {"succeeded"} /\ damage = 0 =>
        record.checkpoint \in Valid'
  BY <1>2 DEF Inv, RecordPlace
<1>4. deaths' \in 0..MaxDeaths /\ errors' \in 0..MaxErrors
  BY <1>1 DEF Inv, TypeOK, countVars
<1> QED BY <1>1, <1>2, <1>3, <1>4, EndsInv

LEMMA DamageStepInv == ASSUME Inv, Damage PROVE Inv'
<1>1. PICK s \in Steps : DamageCheckpoint(s)
  BY DEF Damage
<1>2. UNCHANGED <<pc, dead, rstep, chosen, parts, stop, saved, rows, torn, record, countVars,
                  strategy>>
  BY DEF Damage, worldVars, runVars
<1>3. /\ StoreInv' /\ UNCHANGED <<save, pinned, latest>>
      /\ damage' # 0 /\ Valid' \subseteq Valid
  BY <1>1, DamageInv DEF Inv
<1>4. step' = step /\ Pin' = Pin /\ AtStop' = AtStop /\ Saving' = Saving
  BY <1>2, <1>3 DEF step, Pin, AtStop, Saving
<1>5. TypeOK'
  BY <1>2, <1>3 DEF Inv, TypeOK, countVars, StoreInv
<1>6. SavePlace' /\ RankPlace'
  BY <1>2, <1>3, <1>4 DEF Inv, SavePlace, RankPlace, Training
<1>7. RowPlace' /\ FinalPlace' /\ RecordPlace'
  BY <1>2, <1>3, <1>4 DEF Inv, RowPlace, FinalPlace, RecordPlace, Training
<1> QED BY <1>3, <1>5, <1>6, <1>7 DEF Inv

LEMMA StutterInv == ASSUME Inv, UNCHANGED vars PROVE Inv'
<1>1. StoreInv' /\ Valid' = Valid /\ Saving' = Saving
  BY StoreStays DEF Inv, vars
<1>2. UNCHANGED <<save, pinned, damage, pc, dead, rstep, chosen, parts, stop, saved, rows, torn,
                  record, countVars, strategy>>
  BY DEF vars, diskVars, worldVars, runVars
<1>3. step' = step /\ Pin' = Pin /\ AtStop' = AtStop
  BY <1>2 DEF step, Pin, AtStop
<1>4. TypeOK'
  BY <1>1, <1>2 DEF Inv, TypeOK, countVars, StoreInv
<1>5. SavePlace' /\ RankPlace'
  BY <1>1, <1>2, <1>3 DEF Inv, SavePlace, RankPlace, Training
<1>6. RowPlace' /\ FinalPlace' /\ RecordPlace'
  BY <1>1, <1>2, <1>3 DEF Inv, RowPlace, FinalPlace, RecordPlace, Training
<1> QED BY <1>1, <1>4, <1>5, <1>6 DEF Inv

LEMMA NextInv == Inv /\ [Next]_vars => Inv'
  BY FreshInv, ResumeInv, SelectInv, RestoreInv, RestoredInv, TrainStepInv,
     AppendMetricInv, GatherInv, WriteShardInv, PublishInv, SaveProceedsInv,
     SaveReturnsInv, SaveRejectedInv, SaveFailsInv, ReportInv, FinishInv, RankDiesInv,
     EndWorldInv, DamageStepInv, StutterInv
  DEF Next, World

-----------------------------------------------------------------------------
(* The theorems.                                                           *)

\* The invariant holds in every reachable state of a distributed run.
THEOREM Invariance == Spec => []Inv
  BY InitInv, NextInv, PTL DEF Spec

\* Every variable keeps its type, for every world size.
THEOREM TypeCorrectness == Spec => []TypeOK
<1>1. Inv => TypeOK
  BY DEF Inv
<1> QED BY Invariance, <1>1, PTL

\* The ranks of a world in the loop all have the state of one step.
THEOREM Agreement == Spec => []RanksAgree
<1>1. Inv => RanksAgree
  BY DEF Inv, RankPlace, Training, RanksAgree
<1> QED BY Invariance, <1>1, PTL

\* The metrics hold each step once, and every checkpoint has its rows.
THEOREM CanonicalMetrics == Spec => []MetricsAreCanonical
<1>1. Inv => MetricsAreCanonical
  BY DEF Inv, RowPlace, MetricsAreCanonical
<1> QED BY Invariance, <1>1, PTL

\* LATEST names a complete and valid checkpoint, whichever rank dies when.
THEOREM LatestNamesValid == Spec => []LatestIsValid
<1>1. Inv => LatestIsValid
  BY DEF Inv, StoreInv, StoreTypeOK, LatestIsValid, Valid
<1> QED BY Invariance, <1>1, PTL

\* What run.json reports is there, pinned, and the last step on success.
THEOREM ReportHolds == Spec => []ReportedCheckpointExists
<1>1. Inv => ReportedCheckpointExists
  BY DEF Inv, RecordPlace, ReportedCheckpointExists
<1> QED BY Invariance, <1>1, PTL

LEMMA ResumeStep ==
  ASSUME Inv, Next, pc = "select", pc' = "restore", damage = 0
  PROVE  chosen' >= latest
<1>1. Select
  BY DEF Next, World, Fresh, EnterLoop, Resume, GoOn, Restored, TrainStep,
         AppendMetric, Gather, Publish, SaveProceeds, SaveReturns, SaveRejected,
         GiveUpSave, SaveFails, Report, Finish, Restore, WriteShard, RankDies, EndWorld,
         Damage, Down, Together, RankZero, worldVars
<1>2. Valid # {} /\ chosen' = LatestValid
  BY <1>1 DEF Select, Down
<1>3. latest <= LatestValid /\ LatestValid \in Steps
  BY <1>2, LatestIsBehind, LatestValidIs DEF Inv
<1>4. LatestValid \in Int /\ latest \in Int
  BY <1>3, StepFacts DEF Inv, StoreInv, StoreTypeOK, NoStep
<1> QED BY <1>2, <1>3, <1>4

\* A new world never goes back behind a checkpoint that LATEST has named.
THEOREM ProgressKept == Spec => ResumeKeepsProgress
<1>1. Inv /\ [Next]_vars =>
        [pc = "select" /\ pc' = "restore" /\ damage = 0 => chosen' >= latest]_vars
  BY ResumeStep
<1> QED BY Invariance, <1>1, PTL DEF Spec, ResumeKeepsProgress
=============================================================================
