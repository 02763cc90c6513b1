---------------------------- MODULE ReleaseRegistry ----------------------------
(***************************************************************************)
(* The production registry (src/tinyllm/deployment/registry.py) and the    *)
(* Agent registry (agent_registry.py): operators promote, roll back and    *)
(* resolve models at the same time, without a lock, on record files and    *)
(* an alias file, and may be killed between any two of their file          *)
(* operations.                                                             *)
(***************************************************************************)
EXTENDS Integers, FiniteSets

CONSTANTS
    Versions,       \* versions, one for each gate
    Accepted,       \* the versions whose gate is accepted
    None,           \* no version
    Operators,      \* who runs commands, on either registry
    MaxCommands,    \* bound: commands ever started
    MaxDrift        \* bound: artifacts that change after their gate

ASSUME VersionAssumption == Accepted \subseteq Versions /\ None \notin Versions
ASSUME BoundAssumption == MaxCommands \in Nat /\ MaxDrift \in Nat

VARIABLES
    record,     \* by kind and version: the SHA256 of model.json, or NoRecord
    alias,      \* by kind: the alias file, or NoAlias
    intact,     \* by kind and version: the artifacts the gate saw are there
    op,         \* by operator: the command in progress
    commands,   \* how many commands have been started
    overlapped, \* history: versions whose Agent record two promotions at a
                \*   time have found missing
    overtaken   \* history: operators who are about to move an alias that has
                \*   moved since they read it

histories == <<overlapped, overtaken>>
vars == <<record, alias, intact, op, commands, histories>>

Kinds == {"production", "agent"}
KindOf(o) == op[o].kind

\* promoted_at makes the hash of a record one of the promotion that wrote it.
NoRecord == 0
Hashes == 1..MaxCommands
NoAlias == [version |-> None, sha |-> NoRecord, previous |-> None]
Aliases == [version : Versions \cup {None}, sha : Hashes \cup {NoRecord},
            previous : Versions \cup {None}]

\* kind: the registry; place: the file operation that is next; version and sha:
\* the target and the hash of its record; previous: what the command has read
\* from the alias; stamp: promoted_at; outcome: the registry in which the last
\* command, a resolve, found files that do not match.
Outcomes == Kinds \cup {"none"}
Idle(outcome) ==
    [kind |-> "none", place |-> "idle", version |-> None, sha |-> NoRecord,
     previous |-> None, stamp |-> NoRecord, outcome |-> outcome]

Init ==
    /\ record = [k \in Kinds |-> [v \in Versions |-> NoRecord]]
    /\ alias = [k \in Kinds |-> NoAlias]
    /\ intact = [k \in Kinds |-> [v \in Versions |-> TRUE]]
    /\ op = [o \in Operators |-> Idle("none")]
    /\ commands = 0 /\ overlapped = {} /\ overtaken = {}

-----------------------------------------------------------------------------

Files == <<record, alias, intact>>
OnlyCommand == UNCHANGED <<Files, commands, histories>>
At(o, place) == op[o].place = place
Ends(o, outcome) == op' = [op EXCEPT ![o] = Idle(outcome)]
RecordOf(o) == record[KindOf(o)][op[o].version]
AliasOf(o) == alias[KindOf(o)]
Put(o, new) == alias' = [alias EXCEPT ![KindOf(o)] = new]
GoesOn(o, place) == op' = [op EXCEPT ![o].place = place]

Begin(o, k, place, version) ==
    /\ At(o, "idle") /\ commands < MaxCommands
    /\ commands' = commands + 1
    /\ op' = [op EXCEPT ![o] = [Idle("none") EXCEPT !.kind = k, !.place = place,
                                !.version = version, !.stamp = commands + 1]]
    /\ UNCHANGED <<Files, histories>>

\* Mutant: the decision of the gate is not looked at.
PromoteAny(o, k, v) == intact[k][v] /\ Begin(o, k, "target", v)
\* promote: the gate is accepted, and the candidate still is what it measured.
Promote(o, k, v) == v \in Accepted /\ intact[k][v] /\ Begin(o, k, "target", v)
Rollback(o, k, v) == Begin(o, k, "rollback", v)
Resolve(o, k) == Begin(o, k, "resolve", None)

\* Mutant: an existing record is not looked for.
PublishAlways(o) == At(o, "target") /\ GoesOn(o, "publish") /\ OnlyCommand
\* Another promotion of this version is about to write the record, too.
Overlaps(o) ==
    \E q \in Operators \ {o} : /\ KindOf(q) = KindOf(o) /\ At(q, "publish")
                              /\ op[q].version = op[o].version
\* target.exists(): a record of the same evidence is taken over as it is.
FindTarget(o) ==
    /\ At(o, "target")
    /\ IF RecordOf(o) # NoRecord
         THEN /\ op' = [op EXCEPT ![o].place = "alias", ![o].sha = RecordOf(o)]
              /\ UNCHANGED overlapped
         ELSE /\ GoesOn(o, "publish")
              /\ overlapped' = IF KindOf(o) = "agent" /\ Overlaps(o)
                                 THEN overlapped \cup {op[o].version} ELSE overlapped
    /\ UNCHANGED <<Files, commands, overtaken>>

WriteRecord(o) ==
    /\ record' = [record EXCEPT ![KindOf(o)][op[o].version] = op[o].stamp]
    /\ GoesOn(o, "reread")

\* Mutant: the production record is replaced as the Agent record is.
PublishOver(o) == At(o, "publish") /\ WriteRecord(o) /\ UNCHANGED <<alias, intact, commands, histories>>
\* The production record comes with its directory, which os.replace refuses to
\* put over another one; the Agent record is a file, which _atomic_json
\* replaces.
Publish(o) ==
    /\ At(o, "publish")
    /\ IF KindOf(o) = "production" /\ RecordOf(o) # NoRecord
         THEN Ends(o, "none") /\ UNCHANGED record
         ELSE WriteRecord(o)
    /\ UNCHANGED <<alias, intact, commands, histories>>

\* The hash is that of the bytes now in the file.
Reread(o) ==
    /\ At(o, "reread")
    /\ op' = [op EXCEPT ![o].place = "alias", ![o].sha = RecordOf(o)]
    /\ OnlyCommand

\* Nothing to do: the production alias names the version, the Agent alias also
\* its hash.
Active(o) ==
    /\ AliasOf(o).version = op[o].version
    /\ KindOf(o) = "agent" => AliasOf(o).sha = op[o].sha
ReadAlias(o) ==
    /\ At(o, "alias")
    /\ IF Active(o)
         THEN Ends(o, "none")
         ELSE op' = [op EXCEPT ![o].place = "write", ![o].previous = AliasOf(o).version]
    /\ overtaken' = overtaken \ {o}
    /\ UNCHANGED <<Files, commands, overlapped>>

\* Nobody locks the alias: the others who have read it go on with what they read.
Others(o) ==
    {q \in Operators \ {o} : KindOf(q) = KindOf(o) /\ op[q].place \in {"load", "write"}}

\* Mutant: the alias keeps the rollback target it had.
WriteAliasKeepingPrevious(o) ==
    /\ At(o, "write")
    /\ Put(o, [version |-> op[o].version, sha |-> op[o].sha,
               previous |-> AliasOf(o).previous])
    /\ overtaken' = overtaken \cup Others(o)
    /\ Ends(o, "none") /\ UNCHANGED <<record, intact, commands, overlapped>>
\* The new alias of a promotion or a rollback.  Its schema refuses a previous
\* version that is the version itself; _atomic_json writes it otherwise.
WriteAlias(o) ==
    /\ At(o, "write")
    /\ IF op[o].previous = op[o].version
         THEN UNCHANGED <<alias, overtaken>>
         ELSE /\ Put(o, [version |-> op[o].version, sha |-> op[o].sha,
                         previous |-> op[o].previous])
              /\ overtaken' = overtaken \cup Others(o)
    /\ Ends(o, "none") /\ UNCHANGED <<record, intact, commands, overlapped>>

\* rollback: to the version asked for, or to the previous one.
Target(o) == IF op[o].version = None THEN AliasOf(o).previous ELSE op[o].version
CanRollBack(o) ==
    /\ AliasOf(o).version # None /\ Target(o) # None
    /\ Target(o) # AliasOf(o).version
ReadCurrent(o) ==
    /\ At(o, "rollback")
    /\ IF CanRollBack(o)
         THEN op' = [op EXCEPT ![o].place = "load", ![o].version = Target(o),
                               ![o].previous = AliasOf(o).version]
         ELSE Ends(o, "none")
    /\ overtaken' = overtaken \ {o}
    /\ UNCHANGED <<Files, commands, overlapped>>

\* Mutant: the alias is moved to a version whose record nobody has found.
LoadTargetAnyway(o) ==
    /\ At(o, "load")
    /\ op' = [op EXCEPT ![o].place = "write", ![o].sha = RecordOf(o)]
    /\ OnlyCommand
\* _load_production_record: the target has to have a record.
LoadTarget(o) ==
    /\ At(o, "load")
    /\ IF RecordOf(o) = NoRecord THEN Ends(o, "none")
         ELSE op' = [op EXCEPT ![o].place = "write", ![o].sha = RecordOf(o)]
    /\ OnlyCommand

\* resolve of the alias: the alias, then its record, then the artifacts.
ResolveAlias(o) ==
    /\ At(o, "resolve")
    /\ IF AliasOf(o).version = None THEN Ends(o, "none")
         ELSE op' = [op EXCEPT ![o].place = "record", ![o].version = AliasOf(o).version,
                               ![o].sha = AliasOf(o).sha]
    /\ OnlyCommand
ResolveRecord(o) ==
    /\ At(o, "record")
    /\ IF RecordOf(o) = op[o].sha THEN GoesOn(o, "artifacts") ELSE Ends(o, KindOf(o))
    /\ OnlyCommand
ResolveArtifacts(o) ==
    /\ At(o, "artifacts")
    /\ Ends(o, IF intact[KindOf(o)][op[o].version] THEN "none" ELSE KindOf(o))
    /\ OnlyCommand

\* The command is killed; its temporary files are seen by nobody.
Killed(o) == ~At(o, "idle") /\ Ends(o, "none") /\ OnlyCommand

Drifted == {d \in Kinds \X Versions : ~intact[d[1]][d[2]]}
\* The export or the tokenizer of a version changes on disk.
Drift(k, v) ==
    /\ intact[k][v] /\ Cardinality(Drifted) < MaxDrift
    /\ intact' = [intact EXCEPT ![k][v] = FALSE]
    /\ UNCHANGED <<record, alias, op, commands, histories>>

Command(o, k) ==
    \/ \E v \in Versions : Promote(o, k, v)
    \/ \E v \in Versions \cup {None} : Rollback(o, k, v)
    \/ Resolve(o, k)
Step(o) ==
    \/ FindTarget(o) \/ Publish(o) \/ Reread(o) \/ ReadAlias(o) \/ WriteAlias(o)
    \/ ReadCurrent(o) \/ LoadTarget(o)
    \/ ResolveAlias(o) \/ ResolveRecord(o) \/ ResolveArtifacts(o)

Next ==
    \/ \E o \in Operators, k \in Kinds : Command(o, k)
    \/ \E o \in Operators : Step(o) \/ Killed(o)
    \/ \E k \in Kinds, v \in Versions : Drift(k, v)

Spec == Init /\ [][Next]_vars

-----------------------------------------------------------------------------
(* Properties.                                                             *)

Places == {"idle", "target", "publish", "reread", "alias", "write", "rollback",
           "load", "resolve", "record", "artifacts"}

\* Every variable has its type.
TypeOK ==
    /\ record \in [Kinds -> [Versions -> Hashes \cup {NoRecord}]]
    /\ alias \in [Kinds -> Aliases]
    /\ intact \in [Kinds -> [Versions -> BOOLEAN]]
    /\ op \in [Operators ->
                 [kind : Outcomes, place : Places, version : Versions \cup {None},
                  sha : Hashes \cup {NoRecord}, previous : Versions \cup {None},
                  stamp : Hashes \cup {NoRecord}, outcome : Outcomes]]
    /\ commands \in 0..MaxCommands
    /\ overlapped \subseteq Versions /\ overtaken \subseteq Operators

Replaced(k) == IF k = "agent" THEN overlapped ELSE {}
AliasMatches(k) ==
    alias[k] # NoAlias =>
        /\ alias[k].version \in Versions /\ alias[k].sha # NoRecord
        /\ record[k][alias[k].version] # NoRecord
        /\ alias[k].version \notin Replaced(k) =>
             record[k][alias[k].version] = alias[k].sha

\* Whoever promotes, rolls back or is killed: the production alias names a
\* record that is there, with the hash the alias has of it.
ProductionAliasMatches == AliasMatches("production")

\* "Atomically replaceable pointer to one immutable Agent Production record"
\* (agent_registry.py:73), as far as the code makes it true: whoever promotes,
\* rolls back or is killed, the Agent alias names a record that is there, with
\* the hash the alias has of it, unless two promotions of that version have at
\* one time found no record (:195).  Then the second one replaces the record
\* of the first, which may be active.
AgentAliasMatches == AliasMatches("agent")

\* A rollback always has somewhere to go back to: the previous version the
\* alias remembers is another one, and its record is there.
RollbackTargetExists ==
    \A k \in Kinds : alias[k].previous # None =>
        /\ alias[k].previous # alias[k].version
        /\ record[k][alias[k].previous] # NoRecord

\* A resolver that runs while others promote and roll back refuses the model
\* only when artifacts have really changed or, in the Agent registry, when two
\* promotions have found the same record missing at one time.
ResolveFailsOnDriftOnly ==
    \A o \in Operators, k \in Kinds : op[o].outcome = k =>
        \/ \E v \in Versions : ~intact[k][v]
        \/ Replaced(k) # {}

\* The alias remembers the version that was active right before, which is what
\* a rollback without a target returns to: no version is lost from that chain,
\* kills included, unless the writer had read the alias before another operator
\* moved it.
PreviousIsPredecessor ==
    [][\A k \in Kinds : alias'[k] # alias[k] =>
         \/ alias'[k].previous = alias[k].version
         \/ \E o \in overtaken : KindOf(o) = k /\ op'[o] # op[o]]_vars

\* What readers see of the production registry is the abstract release register.
ProductionRelease ==
    INSTANCE Release WITH
        published <- {v \in Versions : record["production"][v] # NoRecord},
        active <- alias["production"].version
ImplementsRelease == ProductionRelease!Spec
=============================================================================
