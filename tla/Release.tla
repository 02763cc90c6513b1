-------------------------------- MODULE Release --------------------------------
(***************************************************************************)
(* What a model registry promises: versions that an accepted gate stands   *)
(* behind are published once, and one published version at a time is       *)
(* active.  No files, operators or crashes.                                *)
(***************************************************************************)
CONSTANTS Versions, Accepted, None

VARIABLES
    published,  \* the versions with a record
    active      \* the version the alias stands for, or None

Init == published = {} /\ active = None

\* promote_production publishes the record of an accepted gate.
Publish(v) ==
    /\ v \in Accepted \ published
    /\ published' = published \cup {v} /\ UNCHANGED active

\* promote_production and rollback_production move the alias.
Activate(v) ==
    /\ v \in published
    /\ active' = v /\ UNCHANGED published

Next == \E v \in Versions : Publish(v) \/ Activate(v)
Spec == Init /\ [][Next]_<<published, active>>
=============================================================================
