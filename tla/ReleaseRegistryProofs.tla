------------------------- MODULE ReleaseRegistryProofs -------------------------
(***************************************************************************)
(* What the registries keep, for any number of versions, operators,        *)
(* commands and kills: ReleaseRegistry implements Release.                 *)
(***************************************************************************)
EXTENDS ReleaseRegistry, TLAPS

(***************************************************************************)
(* The inductive invariant.                                                *)
(***************************************************************************)
\* The records that never change: those of the production registry, which
\* refuses to replace one, and those of the Agent registry that no two
\* promotions have found missing at one time.
Stable(k, v) == v \notin Replaced(k)

Commands ==
    [kind : Outcomes, place : Places, version : Versions \cup {None},
     sha : Hashes \cup {NoRecord}, previous : Versions \cup {None},
     stamp : Hashes \cup {NoRecord}, outcome : Outcomes]

AliasOK(k) ==
    /\ alias[k].version = None => alias[k] = NoAlias
    /\ alias[k].version # None =>
         /\ alias[k].sha # NoRecord
         /\ record[k][alias[k].version] # NoRecord
         /\ Stable(k, alias[k].version) => alias[k].sha = record[k][alias[k].version]
    /\ alias[k].previous # None =>
         /\ alias[k].previous # alias[k].version
         /\ record[k][alias[k].previous] # NoRecord

\* What a command has read so far, and that it still holds.
CommandOK(p) ==
    /\ p.place # "idle" => p.kind \in Kinds
    /\ p.place \in {"target", "publish"} => p.version \in Accepted /\ p.stamp # NoRecord
    /\ p.place \in {"reread", "alias", "write", "load", "record", "artifacts"}
         => p.version \in Versions
    /\ p.place = "publish" /\ p.kind = "agent" /\ Stable("agent", p.version)
         => record["agent"][p.version] = NoRecord
    /\ p.place \in {"reread", "alias", "write"} => record[p.kind][p.version] # NoRecord
    /\ p.place \in {"alias", "write"} =>
         /\ p.sha # NoRecord
         /\ Stable(p.kind, p.version) => p.sha = record[p.kind][p.version]
    /\ p.place \in {"load", "write"} /\ p.previous # None =>
         record[p.kind][p.previous] # NoRecord
    /\ p.place = "record" =>
         /\ p.sha # NoRecord
         /\ Stable(p.kind, p.version) => p.sha = record[p.kind][p.version]
    /\ \A k \in Kinds : p.outcome = k =>
         (\E v \in Versions : ~intact[k][v]) \/ Replaced(k) # {}

\* Two Agent promotions that are both about to write a record: it is counted.
OverlapInv ==
    \A a, b \in Operators :
        /\ a # b /\ At(a, "publish") /\ At(b, "publish")
        /\ KindOf(a) = "agent" /\ KindOf(b) = "agent" /\ op[a].version = op[b].version
        => op[a].version \in overlapped

\* An operator who is about to move the alias knows it, or has been overtaken.
ReadInv ==
    \A o \in Operators :
        op[o].place \in {"load", "write"} /\ o \notin overtaken =>
            op[o].previous = alias[op[o].kind].version

IInv ==
    /\ TypeOK
    /\ \A k \in Kinds : AliasOK(k)
    /\ \A o \in Operators : CommandOK(op[o])
    /\ OverlapInv
    /\ ReadInv

\* Records come and are replaced, but never go; the stable ones stay.
Grows ==
    /\ overlapped \subseteq overlapped'
    /\ \A k \in Kinds : \A v \in Versions : record[k][v] # NoRecord =>
        /\ record'[k][v] # NoRecord
        /\ Stable(k, v)' => record'[k][v] = record[k][v]

-----------------------------------------------------------------------------
LEMMA IdleOK ==
  /\ Idle("none") \in Commands /\ Idle("none").place = "idle"
  /\ CommandOK(Idle("none"))
  BY DEF Idle, Commands, Places, Outcomes, Kinds, CommandOK

LEMMA InitInv == Init => IInv
<1> SUFFICES ASSUME Init PROVE IInv
  OBVIOUS
<1>1. TypeOK
  BY BoundAssumption, VersionAssumption, IdleOK
  DEF Init, TypeOK, NoAlias, Aliases, NoRecord, Kinds, Commands
<1>2. \A k \in Kinds : AliasOK(k)
  BY DEF Init, AliasOK, NoAlias
<1>3. /\ \A o \in Operators : CommandOK(op[o]) /\ op[o].place = "idle"
      /\ OverlapInv /\ ReadInv
  BY IdleOK DEF Init, OverlapInv, ReadInv, At
<1> QED BY <1>1, <1>2, <1>3 DEF IInv

\* What a command has read survives a step that only adds to the files.
LEMMA StillOK ==
  ASSUME IInv, Grows, NEW p \in Commands, CommandOK(p),
         \A k \in Kinds, v \in Versions : ~intact[k][v] => ~intact'[k][v],
         p.place = "publish" /\ p.kind = "agent" /\ Stable("agent", p.version)'
           => record'["agent"][p.version] = NoRecord
  PROVE  CommandOK(p)'
<1>1. /\ p.place # "idle" => p.kind \in Kinds
      /\ p.previous \in Versions \cup {None} /\ Accepted \subseteq Versions
      /\ \A k \in Kinds, v \in Versions : Stable(k, v)' => Stable(k, v)
      /\ \A k \in Kinds : Replaced(k) # {} => Replaced(k)' # {}
  BY VersionAssumption DEF Commands, CommandOK, Grows, Stable, Replaced
<1>2. \A k \in Kinds, v \in Versions : record[k][v] # NoRecord =>
        record'[k][v] # NoRecord /\ (Stable(k, v)' => record'[k][v] = record[k][v])
  BY DEF Grows
<1>3. p.place \in {"reread", "alias", "write", "record"} =>
        /\ p.version \in Versions /\ p.kind \in Kinds
        /\ Stable(p.kind, p.version)' => Stable(p.kind, p.version)
  BY <1>1 DEF CommandOK
<1>4. p.place \in {"reread", "alias", "write"} =>
        /\ record'[p.kind][p.version] # NoRecord
        /\ Stable(p.kind, p.version)' => record'[p.kind][p.version] = record[p.kind][p.version]
  BY <1>2, <1>3 DEF CommandOK
<1>5. p.place = "record" /\ Stable(p.kind, p.version)' =>
        p.sha = record'[p.kind][p.version]
  <2> SUFFICES ASSUME p.place = "record", Stable(p.kind, p.version)'
               PROVE  p.sha = record'[p.kind][p.version]
    OBVIOUS
  <2>1. p.sha # NoRecord /\ p.sha = record[p.kind][p.version]
    BY <1>3 DEF CommandOK
  <2> QED BY <1>2, <1>3, <2>1
<1>6. p.place \in {"load", "write"} /\ p.previous # None =>
        record'[p.kind][p.previous] # NoRecord
  BY <1>1, <1>2 DEF CommandOK
<1>7. \A k \in Kinds : p.outcome = k =>
        (\E v \in Versions : ~intact'[k][v]) \/ Replaced(k)' # {}
  BY <1>1 DEF CommandOK
<1>8. p.place \in {"alias", "write"} =>
        p.sha # NoRecord /\ (Stable(p.kind, p.version)' => p.sha = record'[p.kind][p.version])
  BY <1>3, <1>4 DEF CommandOK
<1> QED BY <1>1, <1>3, <1>4, <1>5, <1>6, <1>7, <1>8 DEF CommandOK

-----------------------------------------------------------------------------
(* A command goes on without touching a file.                              *)

LEMMA QuietInv ==
  ASSUME IInv, UNCHANGED Files, NEW o \in Operators, NEW p \in Commands,
         op' = [op EXCEPT ![o] = p], commands' \in 0..MaxCommands,
         UNCHANGED overlapped,
         overtaken' \in {overtaken, overtaken \ {o}},
         CommandOK(p),
         p.place \in {"load", "write"} =>
           \/ p.previous = alias[p.kind].version
           \/ /\ op[o].place \in {"load", "write"} /\ overtaken' = overtaken
              /\ p.kind = op[o].kind /\ p.previous = op[o].previous,
         p.place = "publish" => p = op[o]
  PROVE  IInv'
<1>1. TypeOK'
  BY DEF IInv, TypeOK, Files, Commands
<1>2. \A k \in Kinds : AliasOK(k)'
  BY DEF IInv, AliasOK, Files, Stable, Replaced
<1>3. ASSUME NEW q \in Operators PROVE CommandOK(op[q])'
  <2>1. CommandOK(op'[q])
    BY DEF IInv, TypeOK
  <2> QED BY <2>1 DEF CommandOK, Files, Stable, Replaced
<1>4. op'[o] = p /\ \A q \in Operators \ {o} : op'[q] = op[q]
  BY DEF IInv, TypeOK
<1>5. OverlapInv'
  BY <1>4 DEF IInv, OverlapInv, At, KindOf
<1>6. ReadInv'
  BY <1>4 DEF IInv, ReadInv, Files
<1> QED BY <1>1, <1>2, <1>3, <1>5, <1>6 DEF IInv

LEMMA EndsInv ==
  ASSUME IInv, UNCHANGED <<Files, commands, overlapped>>, NEW o \in Operators,
         Ends(o, "none"), overtaken' \in {overtaken, overtaken \ {o}}
  PROVE  IInv'
  BY IdleOK, QuietInv DEF Ends, IInv, TypeOK

LEMMA CommandInv ==
  ASSUME IInv, NEW o \in Operators, NEW k \in Kinds, Command(o, k) PROVE IInv'
<1>1. ASSUME NEW place \in {"target", "rollback", "resolve"},
             NEW v \in Versions \cup {None}, Begin(o, k, place, v),
             place = "target" => v \in Accepted
      PROVE  IInv'
  <2> DEFINE p == [Idle("none") EXCEPT !.kind = k, !.place = place, !.version = v,
                                       !.stamp = commands + 1]
  <2>1. /\ p.place = place /\ p.version = v /\ p.stamp = commands + 1
        /\ p.outcome = "none" /\ p.kind = k
    BY DEF Idle
  <2>2. commands + 1 \in Hashes /\ commands + 1 # NoRecord /\ commands' \in 0..MaxCommands
    BY <1>1, BoundAssumption DEF Begin, IInv, TypeOK, Hashes, NoRecord
  <2>3. p \in Commands
    BY <2>2, IdleOK DEF Commands, Places, Outcomes
  <2>4. CommandOK(p)
    BY <1>1, <2>1, <2>2 DEF CommandOK, Kinds
  <2>5. op' = [op EXCEPT ![o] = p] /\ UNCHANGED <<Files, histories>>
    BY <1>1 DEF Begin
  <2> HIDE DEF p
  <2> QED BY <2>1, <2>2, <2>3, <2>4, <2>5, QuietInv DEF histories
<1> QED BY <1>1, VersionAssumption DEF Command, Promote, Rollback, Resolve

\* What every other step starts from.
LEMMA Started ==
  ASSUME IInv, NEW o \in Operators, op[o].place # "idle"
  PROVE  /\ op[o] \in Commands /\ CommandOK(op[o])
         /\ KindOf(o) \in Kinds /\ AliasOK(KindOf(o)) /\ AliasOf(o) \in Aliases
         /\ AliasOf(o).version \in Versions \cup {None}
         /\ AliasOf(o).sha \in Hashes \cup {NoRecord}
         /\ commands \in 0..MaxCommands
         /\ op[o].version \in Versions => RecordOf(o) \in Hashes \cup {NoRecord}
         /\ None \notin Versions /\ Accepted \subseteq Versions
<1>1. KindOf(o) \in Kinds
  BY DEF IInv, CommandOK, KindOf
<1>2. AliasOf(o) \in Aliases
  BY <1>1 DEF IInv, TypeOK, AliasOf
<1>3. /\ AliasOf(o).version \in Versions \cup {None}
      /\ AliasOf(o).sha \in Hashes \cup {NoRecord}
  BY <1>2 DEF Aliases
<1> QED BY <1>1, <1>2, <1>3, VersionAssumption DEF IInv, TypeOK, Commands, RecordOf

\* A promotion has found no record: whoever is about to write it, too, is counted.
LEMMA FindNothing ==
  ASSUME IInv, NEW o \in Operators, FindTarget(o), RecordOf(o) = NoRecord PROVE IInv'
<1> DEFINE p == [op[o] EXCEPT !.place = "publish"]
<1>1. /\ op' = [op EXCEPT ![o] = p] /\ UNCHANGED <<Files, commands, overtaken>>
      /\ op[o].place = "target"
      /\ overlapped' = IF KindOf(o) = "agent" /\ Overlaps(o)
                         THEN overlapped \cup {op[o].version} ELSE overlapped
  BY DEF FindTarget, GoesOn, At
<1>2. /\ op[o] \in Commands /\ CommandOK(op[o]) /\ op[o].version \in Accepted
      /\ op[o].version \in Versions /\ op[o].kind \in Kinds
  BY <1>1, Started DEF CommandOK, KindOf
<1>3. /\ p \in Commands /\ p.place = "publish" /\ p.version = op[o].version
      /\ p.kind = op[o].kind /\ p.stamp = op[o].stamp /\ p.outcome = op[o].outcome
  BY <1>2 DEF Commands, Places
<1> HIDE DEF p
<1>4. /\ op' \in [Operators -> Commands] /\ op'[o] = p
      /\ \A q \in Operators \ {o} : op'[q] = op[q]
  BY <1>1, <1>3 DEF IInv, TypeOK, Commands
<1>5. overlapped \subseteq overlapped' /\ overlapped' \subseteq Versions
  BY <1>1, <1>2 DEF IInv, TypeOK
<1>6. TypeOK'
  BY <1>1, <1>4, <1>5 DEF IInv, TypeOK, Files, Commands
<1>7. Grows
  BY <1>1, <1>5 DEF Grows, Files
<1>8. \A k \in Kinds : AliasOK(k)'
  <2>1. \A k \in Kinds, v \in Versions : Stable(k, v)' => Stable(k, v)
    BY <1>5 DEF Stable, Replaced
  <2>2. \A k \in Kinds : alias[k] \in Aliases
    BY DEF IInv, TypeOK
  <2>3. \A k \in Kinds : alias[k].version \in Versions \cup {None}
    BY <2>2 DEF Aliases
  <2> QED BY <1>1, <2>1, <2>3 DEF IInv, AliasOK, Files
<1>9. ASSUME NEW q \in Operators PROVE CommandOK(op[q])'
  <2>1. CASE q # o
    <3>1. op[q] \in Commands /\ CommandOK(op[q]) /\ op'[q] = op[q]
      BY <1>4, <2>1 DEF IInv, TypeOK, Commands
    <3>2. op[q].place = "publish" /\ op[q].kind = "agent" /\ Stable("agent", op[q].version)'
            => record'["agent"][op[q].version] = NoRecord
      BY <1>1, <1>5, <3>1 DEF CommandOK, Files, Stable, Replaced
    <3> QED BY <1>1, <1>7, <3>1, <3>2, StillOK DEF Files, CommandOK
  <2>2. CASE q = o
    <3>1. \A k \in Kinds : p.outcome = k =>
               (\E v \in Versions : ~intact'[k][v]) \/ Replaced(k)' # {}
      BY <1>1, <1>2, <1>3, <1>5 DEF CommandOK, Files, Replaced
    <3>2. p.kind = "agent" => record'["agent"][p.version] = NoRecord
      BY <1>1, <1>3 DEF Files, RecordOf, KindOf
    <3>3. op'[q] = p
      BY <1>4, <2>2
    <3> QED BY <1>1, <1>2, <1>3, <3>1, <3>2, <3>3 DEF CommandOK
  <2> QED BY <2>1, <2>2
<1>10. OverlapInv'
  <2> SUFFICES ASSUME NEW a \in Operators, NEW b \in Operators, a # b,
                      At(a, "publish")', At(b, "publish")',
                      KindOf(a)' = "agent", KindOf(b)' = "agent",
                      op'[a].version = op'[b].version
               PROVE  op'[a].version \in overlapped'
    BY DEF OverlapInv
  <2>1. CASE a # o /\ b # o
    BY <1>4, <1>5, <2>1 DEF IInv, OverlapInv, At, KindOf
  <2>2. CASE a = o \/ b = o
    BY <1>1, <1>3, <1>4, <2>2 DEF Overlaps, At, KindOf
  <2> QED BY <2>1, <2>2
<1>11. ReadInv'
  BY <1>1, <1>3, <1>4 DEF IInv, ReadInv, Files
<1> QED BY <1>6, <1>8, <1>9, <1>10, <1>11 DEF IInv

LEMMA FindTargetInv == ASSUME IInv, NEW o \in Operators, FindTarget(o) PROVE IInv'
<1>1. CASE RecordOf(o) # NoRecord
  <2> DEFINE p == [op[o] EXCEPT !.place = "alias", !.sha = RecordOf(o)]
  <2>1. /\ op' = [op EXCEPT ![o] = p] /\ UNCHANGED <<Files, commands, histories>>
        /\ op[o].place = "target"
    BY <1>1 DEF FindTarget, At, histories
  <2>2. p \in Commands /\ p.place = "alias"
    BY <1>1, <2>1, Started DEF Commands, Places, CommandOK
  <2>3. CommandOK(p)
    BY <1>1, <2>1, Started DEF Commands, CommandOK, RecordOf, KindOf
  <2> HIDE DEF p
  <2> QED BY <2>1, <2>2, <2>3, QuietInv, Started DEF histories
<1>2. CASE RecordOf(o) = NoRecord
  BY <1>2, FindNothing
<1> QED BY <1>1, <1>2

LEMMA RereadInv == ASSUME IInv, NEW o \in Operators, Reread(o) PROVE IInv'
<1> DEFINE p == [op[o] EXCEPT !.place = "alias", !.sha = RecordOf(o)]
<1>1. /\ op' = [op EXCEPT ![o] = p] /\ UNCHANGED <<Files, commands, histories>>
      /\ op[o].place = "reread"
  BY DEF Reread, OnlyCommand, At
<1>2. p \in Commands /\ p.place = "alias"
  BY <1>1, Started DEF Commands, Places, CommandOK
<1>3. CommandOK(p)
  BY <1>1, Started DEF Commands, CommandOK, RecordOf, KindOf
<1> HIDE DEF p
<1> QED BY <1>1, <1>2, <1>3, QuietInv, Started DEF histories

LEMMA ReadAliasInv == ASSUME IInv, NEW o \in Operators, ReadAlias(o) PROVE IInv'
<1>1. /\ UNCHANGED <<Files, commands, overlapped>> /\ overtaken' = overtaken \ {o}
      /\ op[o].place = "alias"
  BY DEF ReadAlias, At
<1>2. CASE Ends(o, "none")
  BY <1>1, <1>2, EndsInv
<1>3. CASE ~Ends(o, "none")
  <2> DEFINE p == [op[o] EXCEPT !.place = "write", !.previous = AliasOf(o).version]
  <2>1. op' = [op EXCEPT ![o] = p]
    BY <1>3 DEF ReadAlias
  <2>2. /\ p \in Commands /\ p.place = "write" /\ p.kind = op[o].kind
        /\ p.previous = alias[p.kind].version
    BY <1>1, Started DEF Commands, Places, AliasOf, KindOf
  <2>3. CommandOK(p)
    BY <1>1, Started DEF Commands, CommandOK, AliasOK, AliasOf, KindOf
  <2> HIDE DEF p
  <2> QED BY <1>1, <2>1, <2>2, <2>3, QuietInv, Started
<1> QED BY <1>2, <1>3

LEMMA ReadCurrentInv == ASSUME IInv, NEW o \in Operators, ReadCurrent(o) PROVE IInv'
<1>1. /\ UNCHANGED <<Files, commands, overlapped>> /\ overtaken' = overtaken \ {o}
      /\ op[o].place = "rollback"
  BY DEF ReadCurrent, At
<1>2. CASE ~CanRollBack(o)
  BY <1>1, <1>2, EndsInv DEF ReadCurrent
<1>3. CASE CanRollBack(o)
  <2> DEFINE p == [op[o] EXCEPT !.place = "load", !.version = Target(o),
                                !.previous = AliasOf(o).version]
  <2>1. op' = [op EXCEPT ![o] = p]
    BY <1>3 DEF ReadCurrent
  <2>2. Target(o) \in Versions /\ AliasOf(o).version \in Versions
    BY <1>1, <1>3, Started DEF CanRollBack, Target, Aliases, Commands
  <2>3. /\ p \in Commands /\ p.place = "load" /\ p.kind = op[o].kind
        /\ p.previous = alias[p.kind].version
    BY <1>1, <2>2, Started DEF Commands, Places, AliasOf, KindOf
  <2>4. CommandOK(p)
    BY <1>1, <2>2, Started DEF Commands, CommandOK, AliasOK, AliasOf, KindOf
  <2> HIDE DEF p
  <2> QED BY <1>1, <2>1, <2>3, <2>4, QuietInv, Started
<1> QED BY <1>2, <1>3

LEMMA LoadTargetInv == ASSUME IInv, NEW o \in Operators, LoadTarget(o) PROVE IInv'
<1>1. UNCHANGED <<Files, commands, histories>> /\ op[o].place = "load"
  BY DEF LoadTarget, OnlyCommand, At
<1>2. CASE RecordOf(o) = NoRecord
  BY <1>1, <1>2, EndsInv DEF LoadTarget, histories
<1>3. CASE RecordOf(o) # NoRecord
  <2> DEFINE p == [op[o] EXCEPT !.place = "write", !.sha = RecordOf(o)]
  <2>1. op' = [op EXCEPT ![o] = p]
    BY <1>3 DEF LoadTarget
  <2>2. /\ p \in Commands /\ p.place = "write" /\ p.kind = op[o].kind
        /\ p.previous = op[o].previous
    <3>1. op[o].version \in Versions
      BY <1>1, Started DEF CommandOK
    <3> QED BY <1>1, <3>1, Started DEF Commands, Places
  <2>3. CommandOK(p)
    BY <1>1, <1>3, Started DEF Commands, CommandOK, RecordOf, KindOf
  <2> HIDE DEF p
  <2> QED BY <1>1, <2>1, <2>2, <2>3, QuietInv, Started DEF histories
<1> QED BY <1>2, <1>3

LEMMA ResolveInv ==
  ASSUME IInv, NEW o \in Operators,
         ResolveAlias(o) \/ ResolveRecord(o) \/ ResolveArtifacts(o)
  PROVE  IInv'
<1>0. /\ op[o].place \in {"resolve", "record", "artifacts"}
      /\ UNCHANGED <<Files, commands, histories>>
  BY DEF ResolveAlias, ResolveRecord, ResolveArtifacts, At, OnlyCommand
<1>1. CASE Ends(o, "none")
  BY <1>0, <1>1, EndsInv DEF histories
<1>2. CASE ResolveAlias(o) /\ ~Ends(o, "none")
  <2> DEFINE p == [op[o] EXCEPT !.place = "record", !.version = AliasOf(o).version,
                                !.sha = AliasOf(o).sha]
  <2>1. op' = [op EXCEPT ![o] = p] /\ AliasOf(o).version # None
    BY <1>2 DEF ResolveAlias
  <2>2. /\ p \in Commands /\ p.place = "record" /\ p.version = AliasOf(o).version
        /\ p.sha = AliasOf(o).sha /\ p.kind = op[o].kind /\ p.outcome = op[o].outcome
    BY <1>0, Started DEF Commands, Places
  <2>3. CommandOK(p)
    <3>1. /\ p.kind \in Kinds /\ p.version \in Versions /\ p.sha # NoRecord
          /\ Stable(p.kind, p.version) => p.sha = record[p.kind][p.version]
      BY <1>0, <2>1, <2>2, Started DEF AliasOK, AliasOf, KindOf
    <3>2. \A k \in Kinds : p.outcome = k =>
            (\E v \in Versions : ~intact[k][v]) \/ Replaced(k) # {}
      BY <1>0, <2>2, Started DEF CommandOK
    <3> HIDE DEF p
    <3> QED BY <2>2, <3>1, <3>2 DEF CommandOK
  <2> HIDE DEF p
  <2> QED BY <1>0, <2>1, <2>2, <2>3, QuietInv, Started DEF histories
<1>3. CASE ResolveRecord(o) /\ RecordOf(o) = op[o].sha
  <2> DEFINE p == [op[o] EXCEPT !.place = "artifacts"]
  <2>1. op' = [op EXCEPT ![o] = p]
    BY <1>3 DEF ResolveRecord, GoesOn
  <2>2. p \in Commands /\ p.place = "artifacts"
    BY <1>0, Started DEF Commands, Places
  <2>3. CommandOK(p)
    BY <1>0, <1>3, Started DEF ResolveRecord, At, Commands, CommandOK
  <2> HIDE DEF p
  <2> QED BY <1>0, <2>1, <2>2, <2>3, QuietInv, Started DEF histories
<1>4. CASE /\ Ends(o, KindOf(o))
           /\ (\E v \in Versions : ~intact[KindOf(o)][v]) \/ Replaced(KindOf(o)) # {}
  <2>1. op' = [op EXCEPT ![o] = Idle(KindOf(o))] /\ KindOf(o) \in Kinds
    BY <1>0, <1>4, Started DEF Ends
  <2>2. /\ Idle(KindOf(o)).place = "idle" /\ Idle(KindOf(o)).outcome = KindOf(o)
        /\ Idle(KindOf(o)) \in Commands
    BY <2>1, IdleOK DEF Idle, Commands, Places, Outcomes
  <2>3. CommandOK(Idle(KindOf(o)))
    BY <1>4, <2>2 DEF CommandOK
  <2> QED BY <1>0, <2>1, <2>2, <2>3, QuietInv, Started DEF histories
<1>5. ASSUME ResolveRecord(o), RecordOf(o) # op[o].sha PROVE IInv'
  <2>1. ~Stable(KindOf(o), op[o].version)
    BY <1>0, <1>5, Started DEF ResolveRecord, At, CommandOK, RecordOf, KindOf
  <2> QED BY <1>4, <1>5, <2>1 DEF ResolveRecord, Stable
<1>6. ASSUME ResolveArtifacts(o), ~Ends(o, "none") PROVE IInv'
  <2>1. op[o].version \in Versions
    BY <1>0, <1>6, Started DEF ResolveArtifacts, At, CommandOK
  <2>2. CASE intact[KindOf(o)][op[o].version]
    BY <1>6, <2>2 DEF ResolveArtifacts
  <2>3. CASE ~intact[KindOf(o)][op[o].version]
    BY <1>4, <1>6, <2>1, <2>3 DEF ResolveArtifacts
  <2> QED BY <2>2, <2>3
<1> QED BY <1>1, <1>2, <1>3, <1>5, <1>6

-----------------------------------------------------------------------------
(* A command writes a file.                                                *)

LEMMA PublishInv == ASSUME IInv, NEW o \in Operators, Publish(o) PROVE IInv'
<1> DEFINE k == KindOf(o)
           v == op[o].version
<1>1. /\ op[o].place = "publish" /\ v \in Accepted /\ v \in Versions /\ k \in Kinds
      /\ op[o].stamp # NoRecord /\ op[o].stamp \in Hashes \cup {NoRecord}
      /\ k = "agent" /\ Stable("agent", v) => record["agent"][v] = NoRecord
      /\ op[o] \in Commands /\ CommandOK(op[o]) /\ k = op[o].kind
  <2>1. op[o].place = "publish"
    BY DEF Publish, At
  <2> QED BY <2>1, Started DEF CommandOK, Commands, KindOf
<1>2. CASE Ends(o, "none") /\ UNCHANGED record
  BY <1>2, EndsInv DEF Publish, Files, histories
<1>3. CASE WriteRecord(o) /\ (k = "production" => RecordOf(o) = NoRecord)
  <2>1. /\ record' = [record EXCEPT ![k][v] = op[o].stamp]
        /\ op' = [op EXCEPT ![o].place = "reread"]
        /\ UNCHANGED <<alias, intact, commands, overlapped, overtaken>>
    BY <1>3 DEF WriteRecord, GoesOn, Publish, histories
  <2>2. record \in [Kinds -> [Versions -> Hashes \cup {NoRecord}]]
    BY DEF IInv, TypeOK
  <2>3. \A j \in Kinds : \A w \in Versions :
          record'[j][w] = IF j = k /\ w = v THEN op[o].stamp ELSE record[j][w]
    BY <1>1, <2>1, <2>2
  <2>4. Grows
    <3>1. \A j \in Kinds, w \in Versions : Stable(j, w)' <=> Stable(j, w)
      BY <2>1 DEF Stable, Replaced
    <3>2. Stable(k, v) => record[k][v] = NoRecord
      BY <1>1, <1>3 DEF RecordOf, Kinds
    <3> QED BY <1>1, <2>1, <2>3, <3>1, <3>2 DEF Grows
  <2>5. TypeOK'
    <3>1. record' \in [Kinds -> [Versions -> Hashes \cup {NoRecord}]]
      BY <1>1, <2>1, <2>2
    <3>2. [op[o] EXCEPT !.place = "reread"] \in Commands
      BY <1>1 DEF Commands, Places
    <3>3. op' \in [Operators -> Commands]
      BY <2>1, <3>2 DEF IInv, TypeOK, Commands
    <3> QED BY <2>1, <3>1, <3>3 DEF IInv, TypeOK, Commands
  <2>6. ASSUME NEW j \in Kinds PROVE AliasOK(j)'
    <3>1. /\ AliasOK(j) /\ alias'[j] = alias[j] /\ alias[j].version \in Versions \cup {None}
          /\ alias[j].previous \in Versions \cup {None}
          /\ Stable(j, alias[j].version)' <=> Stable(j, alias[j].version)
      BY <2>1 DEF IInv, TypeOK, Aliases, Stable, Replaced
    <3> QED BY <2>4, <3>1 DEF AliasOK, Grows
  <2>7. /\ op'[o].place = "reread" /\ op'[o].version = v /\ op'[o].kind = k
        /\ op'[o].outcome = op[o].outcome
        /\ \A q \in Operators \ {o} : op'[q] = op[q]
    BY <1>1, <2>1 DEF IInv, TypeOK, Commands
  <2>8. ASSUME NEW q \in Operators PROVE CommandOK(op[q])'
    <3>1. CASE q # o
      <4>1. op'[q] = op[q] /\ op[q] \in Commands /\ CommandOK(op[q])
        BY <2>7, <3>1 DEF IInv, TypeOK, Commands
      <4>2. op[q].place = "publish" /\ op[q].kind = "agent" /\ Stable("agent", op[q].version)'
              => record'["agent"][op[q].version] = NoRecord
        <5> SUFFICES ASSUME op[q].place = "publish", op[q].kind = "agent",
                            op[q].version \notin overlapped
                     PROVE  record'["agent"][op[q].version] = NoRecord
          BY <2>1 DEF Stable, Replaced
        <5>1. op[q].version \in Versions /\ record["agent"][op[q].version] = NoRecord
          BY <4>1, VersionAssumption DEF CommandOK, Stable, Replaced
        <5>2. ~(k = "agent" /\ v = op[q].version)
          BY <1>1, <3>1 DEF IInv, OverlapInv, At, KindOf
        <5> QED BY <2>3, <5>1, <5>2 DEF Kinds
      <4> QED BY <2>1, <2>4, <4>1, <4>2, StillOK DEF CommandOK
    <3>2. CASE q = o
      <4>1. record'[k][v] # NoRecord
        BY <1>1, <2>3
      <4>2. \A j \in Kinds : op'[o].outcome = j =>
              (\E w \in Versions : ~intact'[j][w]) \/ Replaced(j)' # {}
        BY <1>1, <2>1, <2>7 DEF CommandOK, Replaced
      <4> QED BY <1>1, <2>7, <3>2, <4>1, <4>2 DEF CommandOK
    <3> QED BY <3>1, <3>2
  <2>9. OverlapInv' /\ ReadInv'
    BY <2>1, <2>7 DEF IInv, OverlapInv, ReadInv, At, KindOf
  <2> QED BY <2>5, <2>6, <2>8, <2>9 DEF IInv
<1> QED BY <1>2, <1>3 DEF Publish

\* What the alias is when a promotion or a rollback has moved it.
LEMMA WriteAliasMoves ==
  ASSUME IInv, NEW o \in Operators, WriteAlias(o), op[o].previous # op[o].version
  PROVE  /\ op[o].version \in Versions /\ op[o].sha # NoRecord
         /\ record[KindOf(o)][op[o].version] # NoRecord
         /\ alias'[KindOf(o)].version = op[o].version
         /\ alias'[KindOf(o)].sha = op[o].sha
         /\ alias'[KindOf(o)].previous = op[o].previous
         /\ \A j \in Kinds \ {KindOf(o)} : alias'[j] = alias[j]
         /\ alias' \in [Kinds -> Aliases]
<1> DEFINE new == [version |-> op[o].version, sha |-> op[o].sha,
                   previous |-> op[o].previous]
<1>0. op[o].place = "write"
  BY DEF WriteAlias, At
<1>1. /\ op[o].version \in Versions /\ op[o].sha \in Hashes \cup {NoRecord}
      /\ op[o].previous \in Versions \cup {None} /\ KindOf(o) \in Kinds
      /\ record[KindOf(o)][op[o].version] # NoRecord /\ op[o].sha # NoRecord
  BY <1>0, Started DEF CommandOK, Commands, KindOf
<1>2. alias \in [Kinds -> Aliases]
  BY DEF IInv, TypeOK
<1>3. /\ new \in Aliases /\ new.version = op[o].version /\ new.sha = op[o].sha
      /\ new.previous = op[o].previous
  BY <1>1 DEF Aliases
<1>4. alias' = [alias EXCEPT ![KindOf(o)] = new]
  BY DEF WriteAlias, Put
<1> HIDE DEF new
<1>5. /\ alias'[KindOf(o)] = new /\ alias' \in [Kinds -> Aliases]
      /\ \A j \in Kinds \ {KindOf(o)} : alias'[j] = alias[j]
  BY <1>1, <1>2, <1>3, <1>4
<1> QED BY <1>1, <1>3, <1>5

LEMMA WriteAliasInv == ASSUME IInv, NEW o \in Operators, WriteAlias(o) PROVE IInv'
<1> DEFINE k == KindOf(o)
<1>1. /\ UNCHANGED <<record, intact, commands, overlapped>>
      /\ op' = [op EXCEPT ![o] = Idle("none")]
      /\ op[o].place = "write" /\ CommandOK(op[o]) /\ k \in Kinds
  <2>1. op[o].place = "write"
    BY DEF WriteAlias, At
  <2> QED BY <2>1, Started DEF WriteAlias, Ends
<1>2. CASE op[o].previous = op[o].version
  BY <1>1, <1>2, EndsInv DEF WriteAlias, Files
<1>3. CASE op[o].previous # op[o].version
  <2>1. overtaken' = overtaken \cup Others(o) /\ Others(o) \subseteq Operators
    BY <1>3 DEF WriteAlias, Others
  <2>2. /\ op' \in [Operators -> Commands] /\ op'[o] = Idle("none")
        /\ \A q \in Operators \ {o} : op'[q] = op[q]
    BY <1>1, IdleOK DEF IInv, TypeOK, Commands
  <2>3. TypeOK'
    BY <1>1, <1>3, <2>1, <2>2, WriteAliasMoves DEF IInv, TypeOK, Commands
  <2>4. ASSUME NEW j \in Kinds PROVE AliasOK(j)'
    <3>1. Replaced(j)' = Replaced(j)
      BY <1>1 DEF Replaced
    <3>2. CASE j # k
      <4>1. alias'[j] = alias[j] /\ AliasOK(j)
        BY <1>3, <3>2, WriteAliasMoves DEF IInv
      <4> QED BY <1>1, <3>1, <4>1 DEF AliasOK, Stable
    <3>3. CASE j = k
      BY <1>1, <1>3, <3>1, <3>3, WriteAliasMoves, VersionAssumption
      DEF AliasOK, CommandOK, KindOf, Stable
    <3> QED BY <3>2, <3>3
  <2>5. ASSUME NEW q \in Operators PROVE CommandOK(op[q])'
    <3>1. CASE q = o
      BY <1>1, <2>2, <3>1, IdleOK DEF CommandOK, Idle, Replaced
    <3>2. CASE q # o
      <4>1. op'[q] = op[q] /\ CommandOK(op[q])
        BY <2>2, <3>2 DEF IInv
      <4> QED BY <1>1, <4>1 DEF CommandOK, Stable, Replaced
    <3> QED BY <3>1, <3>2
  <2>6. OverlapInv'
    BY <1>1, <2>2, IdleOK DEF IInv, OverlapInv, At, KindOf
  <2>7. ReadInv'
    <3> SUFFICES ASSUME NEW q \in Operators, op'[q].place \in {"load", "write"},
                        q \notin overtaken'
                 PROVE  op'[q].previous = alias'[op'[q].kind].version
      BY DEF ReadInv
    <3>1. q # o /\ op'[q] = op[q] /\ q \notin overtaken /\ q \notin Others(o)
      BY <2>1, <2>2, IdleOK
    <3>2. op[q].kind # k /\ op[q].kind \in Kinds
      BY <3>1 DEF Others, KindOf, IInv, CommandOK
    <3> QED BY <1>3, <3>1, <3>2, WriteAliasMoves DEF IInv, ReadInv
  <2> QED BY <2>3, <2>4, <2>5, <2>6, <2>7 DEF IInv
<1> QED BY <1>2, <1>3

LEMMA DriftInv ==
  ASSUME IInv, NEW k \in Kinds, NEW v \in Versions, Drift(k, v) PROVE IInv'
<1>1. /\ UNCHANGED <<record, alias, op, commands, overlapped, overtaken>>
      /\ intact' = [intact EXCEPT ![k][v] = FALSE]
      /\ intact \in [Kinds -> [Versions -> BOOLEAN]]
  BY DEF Drift, IInv, TypeOK, histories
<1>2. TypeOK'
  BY <1>1 DEF IInv, TypeOK
<1>3. \A j \in Kinds : AliasOK(j)'
  BY <1>1 DEF IInv, AliasOK, Stable, Replaced
<1>4. \A j \in Kinds : \A w \in Versions : ~intact[j][w] => ~intact'[j][w]
  BY <1>1
<1>5. ASSUME NEW o \in Operators PROVE CommandOK(op[o])'
  <2>1. CommandOK(op[o])
    BY DEF IInv
  <2> QED BY <1>1, <1>4, <2>1 DEF CommandOK, Stable, Replaced
<1>6. OverlapInv' /\ ReadInv'
  BY <1>1 DEF IInv, OverlapInv, ReadInv, At, KindOf
<1> QED BY <1>2, <1>3, <1>5, <1>6 DEF IInv

LEMMA NextInv == ASSUME IInv, [Next]_vars PROVE IInv'
<1>1. ASSUME NEW o \in Operators, Step(o) PROVE IInv'
  BY <1>1, FindTargetInv, PublishInv, RereadInv, ReadAliasInv, WriteAliasInv,
     ReadCurrentInv, LoadTargetInv, ResolveInv DEF Step
<1>2. ASSUME NEW o \in Operators, Killed(o) PROVE IInv'
  BY <1>2, EndsInv DEF Killed, OnlyCommand, histories
<1>3. CASE UNCHANGED vars
  BY <1>3 DEF vars, histories, IInv, TypeOK, AliasOK, CommandOK, Stable, Replaced,
     OverlapInv, ReadInv, At, KindOf
<1> QED BY <1>1, <1>2, <1>3, CommandInv, DriftInv DEF Next

\* The inductive invariant holds whoever does what on the registries, and
\* whatever is killed.
THEOREM Invariance == Spec => []IInv
  BY InitInv, NextInv, PTL DEF Spec

\* Every variable keeps its type.
THEOREM TypeCorrectness == Spec => []TypeOK
<1>1. IInv => TypeOK
  BY DEF IInv
<1> QED BY <1>1, Invariance, PTL

LEMMA AliasesMatch ==
  ASSUME IInv, NEW k \in Kinds PROVE AliasMatches(k)
<1> SUFFICES ASSUME alias[k] # NoAlias
             PROVE  /\ alias[k].version \in Versions /\ alias[k].sha # NoRecord
                    /\ record[k][alias[k].version] # NoRecord
                    /\ alias[k].version \notin Replaced(k) =>
                         record[k][alias[k].version] = alias[k].sha
  BY DEF AliasMatches
<1>1. alias[k] \in Aliases /\ AliasOK(k)
  BY DEF IInv, TypeOK
<1>2. alias[k].version \in Versions \cup {None} /\ alias[k].version # None
  BY <1>1 DEF Aliases, AliasOK
<1> QED BY <1>1, <1>2 DEF AliasOK, Stable

\* However many operators promote, roll back and are killed, the production
\* alias has the hash of the record it names: the directory of a record is
\* never replaced.
THEOREM ProductionAlias == Spec => []ProductionAliasMatches
<1>1. IInv => ProductionAliasMatches
  BY AliasesMatch DEF ProductionAliasMatches, Kinds
<1> QED BY <1>1, Invariance, PTL

\* However many operators work on the Agent registry, its alias names a record
\* that is there, and has its hash as long as no two promotions of that version
\* have found the record missing at one time.
THEOREM AgentAlias == Spec => []AgentAliasMatches
<1>1. IInv => AgentAliasMatches
  BY AliasesMatch DEF AgentAliasMatches, Kinds
<1> QED BY <1>1, Invariance, PTL

\* Both registries always have a record to roll back to.
THEOREM RollbackTarget == Spec => []RollbackTargetExists
<1>1. IInv => RollbackTargetExists
  BY DEF IInv, AliasOK, RollbackTargetExists
<1> QED BY <1>1, Invariance, PTL

\* A reader never takes a promotion in progress for damage, however many
\* operators there are, unless two Agent promotions have found the same record
\* missing at one time.
THEOREM ResolveFails == Spec => []ResolveFailsOnDriftOnly
<1>1. IInv => ResolveFailsOnDriftOnly
  BY DEF IInv, CommandOK, ResolveFailsOnDriftOnly
<1> QED BY <1>1, Invariance, PTL

\* In both registries and with any number of operators, a version is lost from
\* the chain of rollbacks only by an operator whom another has overtaken.
THEOREM Predecessor == Spec => PreviousIsPredecessor
<1>1. ASSUME IInv, [Next]_vars, NEW k \in Kinds, alias'[k] # alias[k]
      PROVE  \/ alias'[k].previous = alias[k].version
             \/ \E o \in overtaken : KindOf(o) = k /\ op'[o] # op[o]
  <2>1. PICK o \in Operators : WriteAlias(o)
    BY <1>1 DEF Next, Command, Promote, Rollback, Resolve, Begin, Step, FindTarget,
       Publish, Reread, ReadAlias, ReadCurrent, LoadTarget, ResolveAlias,
       ResolveRecord, ResolveArtifacts, Killed, Drift, Files, OnlyCommand, vars
  <2>2. op[o].previous # op[o].version /\ op[o].place = "write"
    BY <1>1, <2>1 DEF WriteAlias, At
  <2>3. KindOf(o) = k
    BY <1>1, <2>1, <2>2, WriteAliasMoves
  <2>4. op'[o].place = "idle"
    BY <1>1, <2>1, IdleOK DEF WriteAlias, Ends, IInv, TypeOK
  <2>5. o \in overtaken \/ op[o].previous = alias[k].version
    BY <1>1, <2>2, <2>3 DEF IInv, ReadInv, KindOf
  <2> QED BY <1>1, <2>1, <2>2, <2>3, <2>4, <2>5, WriteAliasMoves
<1>2. IInv /\ [Next]_vars =>
        [\A k \in Kinds : alias'[k] # alias[k] =>
           \/ alias'[k].previous = alias[k].version
           \/ \E o \in overtaken : KindOf(o) = k /\ op'[o] # op[o]]_vars
  BY <1>1
<1> QED BY <1>2, Invariance, PTL DEF Spec, PreviousIsPredecessor

-----------------------------------------------------------------------------
(* The refinement.                                                         *)

LEMMA StepRefines ==
  ASSUME IInv, [Next]_vars
  PROVE  [ProductionRelease!Next]_<<{v \in Versions : record["production"][v] # NoRecord},
                                    alias["production"].version>>
<1> DEFINE published == {v \in Versions : record["production"][v] # NoRecord}
           active == alias["production"].version
<1>1. CASE UNCHANGED <<record, alias>>
  BY <1>1
<1>2. ASSUME NEW o \in Operators, Publish(o) PROVE [ProductionRelease!Next]_<<published, active>>
  <2> DEFINE v == op[o].version
  <2>0. /\ op[o].place = "publish" /\ v \in Accepted /\ v \in Versions
        /\ op[o].stamp # NoRecord /\ KindOf(o) \in Kinds
        /\ record \in [Kinds -> [Versions -> Hashes \cup {NoRecord}]]
    <3>1. op[o].place = "publish"
      BY <1>2 DEF Publish, At
    <3> QED BY <3>1, Started DEF CommandOK, IInv, TypeOK
  <2>1. CASE KindOf(o) = "production" /\ RecordOf(o) = NoRecord
    <3>1. /\ record' = [record EXCEPT !["production"][v] = op[o].stamp]
          /\ alias' = alias
      BY <1>2, <2>1 DEF Publish, WriteRecord
    <3>2. published' = published \cup {v} /\ v \notin published
      <4>1. \A w \in Versions : record'["production"][w]
              = IF w = v THEN op[o].stamp ELSE record["production"][w]
        BY <2>0, <3>1 DEF Kinds
      <4>2. record["production"][v] = NoRecord
        BY <2>1 DEF RecordOf
      <4> QED BY <2>0, <4>1, <4>2
    <3> QED BY <2>0, <3>1, <3>2 DEF ProductionRelease!Next, ProductionRelease!Publish
  <2>2. CASE ~(KindOf(o) = "production" /\ RecordOf(o) = NoRecord)
    <3>1. record'["production"] = record["production"] /\ alias' = alias
      BY <1>2, <2>0, <2>2 DEF Publish, WriteRecord, Kinds
    <3> QED BY <3>1
  <2> QED BY <2>1, <2>2
<1>3. ASSUME NEW o \in Operators, WriteAlias(o) PROVE [ProductionRelease!Next]_<<published, active>>
  <2>1. record' = record
    BY <1>3 DEF WriteAlias
  <2>2. CASE KindOf(o) = "production" /\ op[o].previous # op[o].version
    <3>1. /\ op[o].version \in published /\ active' = op[o].version
          /\ published' = published
      BY <1>3, <2>1, <2>2, WriteAliasMoves
    <3>2. ProductionRelease!Activate(op[o].version)
      BY <3>1 DEF ProductionRelease!Activate
    <3> QED BY <3>1, <3>2 DEF ProductionRelease!Next
  <2>3. CASE KindOf(o) # "production" /\ op[o].previous # op[o].version
    BY <1>3, <2>1, <2>3, WriteAliasMoves DEF Kinds
  <2>4. CASE op[o].previous = op[o].version
    BY <1>1, <1>3, <2>1, <2>4 DEF WriteAlias
  <2> QED BY <2>2, <2>3, <2>4
<1> QED
  BY <1>1, <1>2, <1>3
  DEF Next, Command, Promote, Rollback, Resolve, Begin, Step, FindTarget, Reread,
      ReadAlias, ReadCurrent, LoadTarget, ResolveAlias, ResolveRecord,
      ResolveArtifacts, Killed, Drift, Files, OnlyCommand, vars

\* The production registry publishes only versions with an accepted gate, each
\* once, and activates only published ones: the record is durable before the
\* alias can name it, wherever a command is killed.
THEOREM Refinement == Spec => ImplementsRelease
<1>1. Init => ProductionRelease!Init
  BY DEF Init, ProductionRelease!Init, Kinds, NoAlias, NoRecord
<1> QED BY <1>1, StepRefines, Invariance, PTL
        DEF Spec, ImplementsRelease, ProductionRelease!Spec
=============================================================================
