------------------------- MODULE CheckpointStoreProofs -------------------------
(***************************************************************************)
(* What the steps of CheckpointStore keep, whoever takes them.             *)
(***************************************************************************)
EXTENDS CheckpointStore, FiniteSetTheorems, WellFoundedInduction, TLAPS

-----------------------------------------------------------------------------
(* The newest checkpoint.                                                  *)

\* Every set of steps that is not empty has a highest element.
LEMMA HighestExists ==
  ASSUME NEW S \in SUBSET Steps, S # {}
  PROVE  /\ HighestOf(S) \in S
         /\ \A t \in S : t <= HighestOf(S)
<1> DEFINE above(n) == {t \in S : t > n}
           T == {above(n) : n \in S}
<1>1. MaxSteps \in Nat /\ S \subseteq Nat /\ \A t \in S : t <= MaxSteps
  BY MaxStepsAssumption DEF Steps
<1>2. IsFiniteSet(S)
  BY <1>1, FS_BoundedSetOfNaturals
<1>3. T \subseteq FiniteSubsetsOf(S) /\ T # {}
  <2>1. \A n \in S : above(n) \in SUBSET S /\ IsFiniteSet(above(n))
    BY <1>2, FS_Subset
  <2> QED BY <2>1 DEF FiniteSubsetsOf
<1>4. PICK U \in T : \A V \in T : ~(<<V, U>> \in StrictSubsetOrdering(S))
  BY <1>3, FS_StrictSubsetOrderingWellFounded, WFMin
<1>5. PICK n \in S : U = above(n)
  OBVIOUS
<1>6. ASSUME NEW t \in S PROVE t <= n
  <2> SUFFICES ASSUME t > n PROVE FALSE
    BY <1>1
  <2>1. above(t) \in T /\ above(t) \subseteq above(n) /\ above(t) # above(n)
    <3>1. t \in above(n) /\ t \notin above(t)
      BY <1>1
    <3>2. ASSUME NEW x \in above(t) PROVE x \in above(n)
      <4>1. x \in S /\ x \in Nat /\ t \in Nat /\ n \in Nat /\ x > t
        BY <1>1
      <4>2. x > n
        BY <4>1
      <4> QED BY <4>1, <4>2
    <3> QED BY <3>1, <3>2
  <2>2. <<above(t), above(n)>> \in StrictSubsetOrdering(S)
    BY <2>1 DEF StrictSubsetOrdering
  <2> QED BY <1>4, <1>5, <2>1, <2>2
<1>7. \E s \in S : \A t \in S : t <= s
  BY <1>6
<1> QED BY <1>7 DEF HighestOf

LEMMA LatestValidIs ==
  ASSUME Valid # {}
  PROVE  LatestValid \in Valid /\ LatestValid \in Steps /\ \A t \in Valid : t <= LatestValid
  BY HighestExists DEF LatestValid, Valid

(***************************************************************************)
(* The invariant of the store, with and without a save in progress.        *)
(***************************************************************************)
Saving == save.phase \in SavePhases
\* The directory is in place.
Published == save.phase \in {"validate", "latest", "retain"}

StoreInv ==
    /\ StoreTypeOK
    /\ Saving => save.step \in Steps
    /\ \A s \in Steps : dirs[s] = "removing" => save.phase = "retain"
    /\ save.phase = "retain" => latest = save.step
    /\ Saving /\ ~Published => dirs[save.step] = "absent"
    /\ damage = 0 =>
         /\ latest # NoStep => dirs[latest] = "valid"
         /\ Published => dirs[save.step] = "valid" /\ pinned[save.step] = save.pin
         /\ Saving => \A s \in Valid : s <= save.step
         /\ Saving /\ save.phase # "retain" => latest # save.step

\* What a step of the save in progress does to the other checkpoints.
OthersStay ==
    /\ damage' = damage /\ save'.step = save.step /\ save'.pin = save.pin
    /\ Saving /\ Saving'
    /\ \A s \in Steps \ {save.step} : pinned'[s] = pinned[s]
    /\ \A s \in Valid : pinned[s] # "none" => s \in Valid'
    /\ \A s \in Valid' : s \in Valid \/ (s = save.step /\ pinned'[s] = save.pin)
    /\ \A s \in Valid : pinned'[s] = pinned[s]

LEMMA StoreInitInv == StoreInit => StoreInv
  BY MaxStepsAssumption, DamageAssumption
  DEF StoreInit, StoreInv, StoreTypeOK, Saving, Published, NoSave, SavePhases, Pins,
      Steps, NoStep

LEMMA BeginSaveInv ==
  ASSUME StoreInv, NEW s \in Steps, NEW pin \in Pins, ~Saving, BeginSave(s, pin),
         damage = 0 => \A t \in Valid : t <= s
  PROVE  /\ StoreInv' /\ Saving' /\ ~Published'
         /\ save'.step = s /\ save'.pin = pin /\ save'.phase = "write"
         /\ UNCHANGED diskVars
<1>1. /\ save' = [phase |-> "write", step |-> s, pin |-> pin]
      /\ UNCHANGED <<dirs, pinned, latest, damage>> /\ dirs[s] = "absent"
  BY DEF BeginSave, DestinationExists, diskVars
<1>2. StoreTypeOK'
  BY <1>1 DEF StoreInv, StoreTypeOK, SavePhases
<1>3. Saving' /\ ~Published' /\ save'.step = s /\ save'.pin = pin /\ save'.phase = "write"
  BY <1>1 DEF Saving, Published, SavePhases
<1>4. damage = 0 => latest # s
  BY <1>1 DEF StoreInv, StoreTypeOK, Steps, NoStep
<1>5. \A t \in Steps : dirs[t] # "removing"
  BY DEF StoreInv, Saving, SavePhases
<1>6. Valid' = Valid
  BY <1>1 DEF Valid
<1> QED BY <1>1, <1>2, <1>3, <1>4, <1>5, <1>6 DEF StoreInv, diskVars

(***************************************************************************)
(* The steps of a save.                                                    *)
(***************************************************************************)
LEMMA WriteTemporaryInv ==
  ASSUME StoreInv, WriteTemporary
  PROVE  StoreInv' /\ OthersStay
<1>1. /\ save' = [save EXCEPT !.phase = "rename"] /\ save.phase = "write"
      /\ UNCHANGED <<dirs, pinned, latest, damage>>
  BY DEF WriteTemporary, SaveAt, GoTo, diskVars
<1>2. /\ save'.phase = "rename" /\ save'.step = save.step /\ save'.pin = save.pin
      /\ StoreTypeOK'
  BY <1>1 DEF StoreInv, StoreTypeOK, SavePhases
<1>3. Valid' = Valid
  BY <1>1 DEF Valid
<1>4. Saving /\ Saving' /\ ~Published /\ ~Published'
  BY <1>1, <1>2 DEF Saving, Published, SavePhases
<1> QED BY <1>1, <1>2, <1>3, <1>4 DEF StoreInv, OthersStay

LEMMA RenameTemporaryInv ==
  ASSUME StoreInv, RenameTemporary
  PROVE  StoreInv' /\ OthersStay
<1>1. /\ save' = [save EXCEPT !.phase = "validate"] /\ save.phase = "rename"
      /\ dirs' = [dirs EXCEPT ![save.step] = "valid"]
      /\ pinned' = [pinned EXCEPT ![save.step] = save.pin]
      /\ UNCHANGED <<latest, damage>>
  BY DEF RenameTemporary, SaveAt, GoTo
<1>2. Saving /\ ~Published /\ save.step \in Steps /\ dirs[save.step] = "absent"
  BY <1>1 DEF StoreInv, Saving, Published, SavePhases
<1>3. /\ save'.phase = "validate" /\ save'.step = save.step /\ save'.pin = save.pin
      /\ save.pin \in Pins /\ StoreTypeOK'
  BY <1>1, <1>2 DEF StoreInv, StoreTypeOK, SavePhases
<1>4. Saving' /\ Published'
  BY <1>3 DEF Saving, Published, SavePhases
<1>5. /\ dirs'[save.step] = "valid" /\ pinned'[save.step] = save.pin
      /\ \A s \in Steps \ {save.step} : dirs'[s] = dirs[s] /\ pinned'[s] = pinned[s]
  BY <1>1, <1>2 DEF StoreInv, StoreTypeOK
<1>6. save.step \notin Valid /\ Valid' = Valid \cup {save.step}
  BY <1>2, <1>5 DEF Valid
<1>7. OthersStay
  BY <1>1, <1>2, <1>3, <1>4, <1>5, <1>6 DEF OthersStay, Valid
<1>8. \A s \in Steps : dirs'[s] # "removing"
  BY <1>1, <1>2, <1>5 DEF StoreInv
<1>9. save.step <= save.step
  BY <1>2 DEF Steps
<1>10. ASSUME damage = 0 PROVE \A s \in Valid' : s <= save.step
  BY <1>2, <1>6, <1>9, <1>10 DEF StoreInv
<1>11. ASSUME damage = 0 PROVE latest # save.step /\ (latest # NoStep => dirs'[latest] = "valid")
  <2>1. latest # save.step /\ (latest # NoStep => dirs[latest] = "valid" /\ latest \in Steps)
    BY <1>1, <1>2, <1>11 DEF StoreInv, StoreTypeOK
  <2> QED BY <2>1, <1>5
<1> QED BY <1>1, <1>2, <1>3, <1>4, <1>5, <1>7, <1>8, <1>10, <1>11 DEF StoreInv

LEMMA ValidatePublishedInv ==
  ASSUME StoreInv, ValidatePublished
  PROVE  StoreInv' /\ OthersStay
<1>1. /\ save' = [save EXCEPT !.phase = "latest"] /\ save.phase = "validate"
      /\ UNCHANGED <<dirs, pinned, latest, damage>>
  BY DEF ValidatePublished, SaveAt, GoTo, diskVars
<1>2. /\ save'.phase = "latest" /\ save'.step = save.step /\ save'.pin = save.pin
      /\ StoreTypeOK'
  BY <1>1 DEF StoreInv, StoreTypeOK, SavePhases
<1>3. Valid' = Valid
  BY <1>1 DEF Valid
<1>4. Saving /\ Saving' /\ Published /\ Published'
  BY <1>1, <1>2 DEF Saving, Published, SavePhases
<1> QED BY <1>1, <1>2, <1>3, <1>4 DEF StoreInv, OthersStay

LEMMA UpdateLatestInv ==
  ASSUME StoreInv, UpdateLatest
  PROVE  StoreInv' /\ OthersStay
<1>1. /\ save' = [save EXCEPT !.phase = "retain"] /\ save.phase = "latest"
      /\ latest' = save.step
      /\ UNCHANGED <<dirs, pinned, damage>>
  BY DEF UpdateLatest, SaveAt, GoTo
<1>2. Saving /\ Published /\ save.step \in Steps
  BY <1>1 DEF StoreInv, Saving, Published, SavePhases
<1>3. /\ save'.phase = "retain" /\ save'.step = save.step /\ save'.pin = save.pin
      /\ StoreTypeOK'
  BY <1>1, <1>2 DEF StoreInv, StoreTypeOK, SavePhases
<1>4. Valid' = Valid
  BY <1>1 DEF Valid
<1>5. Saving' /\ Published'
  BY <1>3 DEF Saving, Published, SavePhases
<1> QED BY <1>1, <1>2, <1>3, <1>4, <1>5 DEF StoreInv, OthersStay

\* The checkpoint just published is the newest of all, and retention keeps the
\* newest one.
LEMMA NewestIsKept ==
  ASSUME StoreInv, save.phase = "retain", damage = 0
  PROVE  save.step \notin Expired
<1>1. Saving /\ save.step \in Steps /\ \A s \in Valid : s <= save.step
  BY DEF StoreInv, Saving, SavePhases
<1>2. {t \in Unpinned : t > save.step} = {}
  <2> SUFFICES ASSUME NEW t \in Unpinned, t > save.step PROVE FALSE
    OBVIOUS
  <2>1. t <= save.step /\ t \in Nat /\ save.step \in Nat
    BY <1>1, MaxStepsAssumption DEF Unpinned, Valid, Steps
  <2> QED BY <2>1
<1>3. Cardinality({}) = 0
  BY FS_EmptySet
<1>4. ~(0 >= KeepLast)
  BY KeepLastAssumption
<1>5. ASSUME save.step \in Expired PROVE FALSE
  <2>1. Cardinality({t \in Unpinned : t > save.step}) >= KeepLast
    BY <1>5 DEF Expired
  <2> QED BY <2>1, <1>2, <1>3, <1>4
<1> QED BY <1>5

LEMMA RemoveExpiredInv ==
  ASSUME StoreInv, RemoveExpired
  PROVE  StoreInv' /\ OthersStay
<1>1. PICK s \in Steps :
        \/ s \in Expired /\ dirs' = [dirs EXCEPT ![s] = "removing"]
        \/ dirs[s] = "removing" /\ dirs' = [dirs EXCEPT ![s] = "absent"]
  BY DEF RemoveExpired
<1>2. save.phase = "retain" /\ UNCHANGED <<pinned, latest, damage, save>>
  BY DEF RemoveExpired, SaveAt
<1>3. Saving /\ Published /\ Saving' /\ Published' /\ save.step \in Steps /\ latest = save.step
  BY <1>2 DEF StoreInv, Saving, Published, SavePhases
<1>4. /\ \A t \in Steps \ {s} : dirs'[t] = dirs[t]
      /\ dirs'[s] \in {"removing", "absent"}
      /\ dirs' \in [Steps -> {"absent", "valid", "removing", "broken"}]
  BY <1>1 DEF StoreInv, StoreTypeOK
<1>5. StoreTypeOK'
  BY <1>2, <1>4 DEF StoreInv, StoreTypeOK
<1>6. Valid' \subseteq Valid /\ \A t \in Valid : t \in Valid' \/ t = s
  BY <1>4 DEF Valid
<1>7. s \in Valid => pinned[s] = "none"
  BY <1>1 DEF Expired, Unpinned, Valid
<1>8. OthersStay
  BY <1>2, <1>3, <1>6, <1>7 DEF OthersStay
<1>9. ASSUME damage = 0 PROVE dirs'[save.step] = "valid"
  <2>1. dirs[save.step] = "valid" /\ save.step \notin Expired
    BY <1>2, <1>3, <1>9, NewestIsKept DEF StoreInv
  <2>2. s # save.step
    BY <2>1, <1>1
  <2> QED BY <2>1, <2>2, <1>3, <1>4
<1> QED BY <1>2, <1>3, <1>5, <1>6, <1>8, <1>9 DEF StoreInv

LEMMA SaveStepInv ==
  ASSUME StoreInv,
         WriteTemporary \/ RenameTemporary \/ ValidatePublished
           \/ UpdateLatest \/ RemoveExpired
  PROVE  StoreInv' /\ OthersStay
  BY WriteTemporaryInv, RenameTemporaryInv, ValidatePublishedInv, UpdateLatestInv,
     RemoveExpiredInv

(***************************************************************************)
(* The ends of a save.                                                     *)
(***************************************************************************)
LEMMA EndSaveInv ==
  ASSUME StoreInv, EndSave
  PROVE  /\ StoreInv' /\ ~Saving' /\ UNCHANGED <<dirs, pinned, latest, damage>>
         /\ Saving /\ save.phase = "retain" /\ latest = save.step
         /\ damage = 0 => save.step \in Valid /\ pinned[save.step] = save.pin
<1>1. /\ save' = NoSave /\ save.phase = "retain" /\ RetentionDone
      /\ UNCHANGED <<dirs, pinned, latest, damage>>
  BY DEF EndSave, SaveAt, diskVars
<1>2. Saving /\ Published /\ ~Saving' /\ ~Published' /\ save'.phase = "idle"
  BY <1>1 DEF Saving, Published, SavePhases, NoSave
<1>3. StoreTypeOK'
  BY <1>1 DEF StoreInv, StoreTypeOK, NoSave, Pins
<1>4. \A s \in Steps : dirs[s] # "removing"
  BY <1>1 DEF RetentionDone
<1> QED BY <1>1, <1>2, <1>3, <1>4 DEF StoreInv, Valid

LEMMA AbandonedIs ==
  ASSUME StoreInv, dirs' = Abandoned, save' = NoSave,
         UNCHANGED <<pinned, latest, damage>>
  PROVE  StoreInv' /\ ~Saving' /\ Valid' = Valid
<1>1. \A s \in Steps : dirs'[s] = IF dirs[s] = "removing" THEN "broken" ELSE dirs[s]
  BY DEF Abandoned
<1>2. dirs' \in [Steps -> {"absent", "valid", "removing", "broken"}]
  <2>1. \A s \in Steps : dirs[s] \in {"absent", "valid", "removing", "broken"}
    BY DEF StoreInv, StoreTypeOK
  <2> QED BY <2>1 DEF Abandoned
<1>3. StoreTypeOK'
  BY <1>2 DEF StoreInv, StoreTypeOK, NoSave, Pins
<1>4. ~Saving' /\ ~Published' /\ save'.phase = "idle"
  BY DEF Saving, Published, SavePhases, NoSave
<1>5. \A s \in Steps : dirs'[s] # "removing"
  BY <1>1
<1>6. \A s \in Steps : (dirs'[s] = "valid") <=> (dirs[s] = "valid")
  BY <1>1
<1>7. Valid' = Valid
  BY <1>6 DEF Valid
<1>8. latest # NoStep => latest \in Steps
  BY DEF StoreInv, StoreTypeOK
<1> QED BY <1>3, <1>4, <1>5, <1>6, <1>7, <1>8 DEF StoreInv

LEMMA KillSaveInv ==
  ASSUME StoreInv, KillSave
  PROVE  /\ StoreInv' /\ ~Saving' /\ Valid' = Valid
         /\ UNCHANGED <<pinned, latest, damage>>
<1>1. dirs' = Abandoned /\ save' = NoSave /\ UNCHANGED <<pinned, latest, damage>>
  BY DEF KillSave
<1> QED BY <1>1, AbandonedIs

LEMMA FailSaveInv ==
  ASSUME StoreInv, FailSave
  PROVE  /\ StoreInv' /\ ~Saving' /\ Valid' \subseteq Valid /\ Saving
         /\ UNCHANGED <<pinned, latest, damage>>
         /\ \A s \in Valid : s # save.step => s \in Valid'
         /\ damage = 0 => \A s \in Valid : s <= latest => s \in Valid'
<1>1. /\ save' = NoSave /\ UNCHANGED <<pinned, latest, damage>> /\ Saving
      /\ save.step \in Steps
  BY DEF FailSave, StoreInv, Saving
<1>2. CASE latest = save.step
  <2>1. dirs' = Abandoned
    BY <1>2 DEF FailSave
  <2> QED BY <1>1, <2>1, AbandonedIs
<1>3. CASE latest # save.step
  <2>1. dirs' = [dirs EXCEPT ![save.step] = "absent"] /\ save.phase # "retain"
    BY <1>3 DEF FailSave, StoreInv
  <2>2. dirs'[save.step] = "absent" /\ \A s \in Steps \ {save.step} : dirs'[s] = dirs[s]
    BY <1>1, <2>1 DEF StoreInv, StoreTypeOK
  <2>3. StoreTypeOK'
    BY <1>1, <2>1 DEF StoreInv, StoreTypeOK, NoSave, Pins
  <2>4. ~Saving' /\ ~Published' /\ save'.phase = "idle"
    BY <1>1 DEF Saving, Published, SavePhases, NoSave
  <2>5. \A s \in Steps : dirs'[s] # "removing"
    BY <2>1, <2>2 DEF StoreInv
  <2>6. Valid' = Valid \ {save.step}
    BY <2>2 DEF Valid
  <2>7. latest # NoStep => latest \in Steps
    BY DEF StoreInv, StoreTypeOK
  <2>8. ASSUME damage = 0, latest # NoStep PROVE dirs'[latest] = "valid"
    BY <1>3, <2>2, <2>7, <2>8 DEF StoreInv
  <2>9. StoreInv'
    BY <1>1, <2>3, <2>4, <2>5, <2>8 DEF StoreInv
  <2>10. ASSUME damage = 0 PROVE \A s \in Valid : s <= latest => s # save.step
    <3> SUFFICES ASSUME save.step \in Valid, save.step <= latest PROVE FALSE
      OBVIOUS
    <3>1. save.step \in Nat
      BY <1>1, MaxStepsAssumption DEF Steps
    <3>2. latest # NoStep
      BY <3>1 DEF NoStep
    <3>3. latest \in Valid /\ latest \in Nat
      BY <3>2, <2>7, <2>10, MaxStepsAssumption DEF StoreInv, Valid, Steps
    <3>4. latest <= save.step
      BY <1>1, <3>3, <2>10 DEF StoreInv
    <3> QED BY <3>1, <3>3, <3>4, <1>3
  <2> QED BY <1>1, <2>4, <2>6, <2>9, <2>10
<1> QED BY <1>2, <1>3

LEMMA DamageInv ==
  ASSUME StoreInv, NEW s \in Steps, DamageCheckpoint(s)
  PROVE  /\ StoreInv' /\ UNCHANGED <<save, pinned, latest>>
         /\ damage' # 0 /\ Valid' \subseteq Valid
<1>1. /\ damage < MaxDamage /\ dirs[s] = "valid"
      /\ dirs' = [dirs EXCEPT ![s] = "broken"]
      /\ damage' = damage + 1
      /\ UNCHANGED <<pinned, latest, save>>
  BY DEF DamageCheckpoint
<1>2. damage' \in 0..MaxDamage /\ damage' # 0
  BY <1>1, DamageAssumption DEF StoreInv, StoreTypeOK
<1>3. dirs'[s] = "broken" /\ \A t \in Steps \ {s} : dirs'[t] = dirs[t]
  BY <1>1 DEF StoreInv, StoreTypeOK
<1>4. StoreTypeOK'
  BY <1>1, <1>2 DEF StoreInv, StoreTypeOK
<1>5. Saving' = Saving /\ Published' = Published
  BY <1>1 DEF Saving, Published
<1>6. Valid' \subseteq Valid
  BY <1>3 DEF Valid
<1>7. Saving /\ ~Published => s # save.step /\ save.step \in Steps
  BY <1>1 DEF StoreInv
<1> QED BY <1>1, <1>2, <1>3, <1>4, <1>5, <1>6, <1>7 DEF StoreInv

\* The rest of a run leaves the store alone.
LEMMA StoreStays ==
  ASSUME StoreInv, UNCHANGED <<diskVars, save>>
  PROVE  StoreInv' /\ Valid' = Valid /\ Saving' = Saving
  BY DEF StoreInv, StoreTypeOK, Saving, Published, Valid, diskVars

\* What LATEST names is at most the newest valid checkpoint.
LEMMA LatestIsBehind ==
  ASSUME StoreInv, Valid # {}, damage = 0
  PROVE  latest <= LatestValid
<1>1. LatestValid \in Valid /\ LatestValid \in Steps /\ \A t \in Valid : t <= LatestValid
  BY LatestValidIs
<1>2. CASE latest = NoStep
  BY <1>1, <1>2, MaxStepsAssumption DEF NoStep, Steps
<1>3. CASE latest # NoStep
  BY <1>1, <1>3 DEF StoreInv, StoreTypeOK, Valid
<1> QED BY <1>2, <1>3
\* A set of two or more has two different elements.
LEMMA TwoElements ==
  ASSUME NEW S, IsFiniteSet(S), Cardinality(S) >= 2
  PROVE  \E x, y \in S : x # y
<1>1. Cardinality(S) \in Nat
  BY FS_CardinalityType
<1>2. PICK x \in S : TRUE
  <2>1. Cardinality(S) # 0
    BY <1>1
  <2> QED BY <2>1, FS_EmptySet
<1>3. IsFiniteSet(S \ {x}) /\ Cardinality(S \ {x}) = Cardinality(S) - 1
  BY <1>2, FS_RemoveElement
<1>4. Cardinality(S \ {x}) # 0
  BY <1>1, <1>3
<1>5. S \ {x} # {}
  BY <1>4, FS_EmptySet
<1> QED BY <1>2, <1>5

\* Retention that removes a checkpoint leaves two others, when it keeps two.
LEMMA RetentionKeepsTwo ==
  ASSUME StoreInv, RemoveExpired, KeepLast >= 2, Valid' # Valid
  PROVE  \E s, t \in Valid' : s # t
<1>1. PICK r \in Steps :
        \/ r \in Expired /\ dirs' = [dirs EXCEPT ![r] = "removing"]
        \/ dirs[r] = "removing" /\ dirs' = [dirs EXCEPT ![r] = "absent"]
  BY DEF RemoveExpired
<1>2. /\ \A t \in Steps \ {r} : dirs'[t] = dirs[t]
      /\ dirs'[r] \in {"removing", "absent"}
  BY <1>1 DEF StoreInv, StoreTypeOK
<1>3. r \in Expired
  <2> SUFFICES ASSUME dirs[r] = "removing" PROVE Valid' = Valid
    BY <1>1
  <2> QED BY <1>2 DEF Valid
<1> DEFINE newer == {t \in Unpinned : t > r}
<1>4. newer \subseteq Valid' /\ newer \subseteq Steps
  <2> SUFFICES ASSUME NEW t \in Steps, t \in newer PROVE t \in Valid'
    BY DEF Unpinned, Valid
  <2>1. t \in Valid /\ t > r
    BY DEF Unpinned
  <2>2. t # r
    BY <2>1, MaxStepsAssumption DEF Steps
  <2> QED BY <2>1, <2>2, <1>2 DEF Valid
<1>5. IsFiniteSet(newer)
  <2>1. newer \subseteq Nat /\ \A t \in newer : t <= MaxSteps
    BY <1>4, MaxStepsAssumption DEF Steps
  <2> HIDE DEF newer
  <2> QED BY <2>1, MaxStepsAssumption, FS_BoundedSetOfNaturals
<1>6. Cardinality(newer) >= 2
  <2>1. Cardinality(newer) >= KeepLast /\ Cardinality(newer) \in Nat
    BY <1>3, <1>5, FS_CardinalityType DEF Expired
  <2> HIDE DEF newer
  <2> QED BY <2>1, KeepLastAssumption
<1> HIDE DEF newer
<1>7. \E x, y \in newer : x # y
  BY <1>5, <1>6, TwoElements
<1> QED BY <1>4, <1>7
=============================================================================
