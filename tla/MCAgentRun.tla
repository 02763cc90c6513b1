------------------------------ MODULE MCAgentRun ------------------------------
(***************************************************************************)
(* Small instances of AgentRun for TLC: a read tool called as r and, under *)
(* another call_id, as r2, and sandbox writes w and w2 of two patches to   *)
(* one file.                                                               *)
(***************************************************************************)
EXTENDS AgentRun

CONSTANTS r, r2, w, w2, f

TwoCalls == {r, w}
ThreeCalls == {r, w, w2}
OneWrite == {w}
OwnSig == [c \in Calls |-> c]
SingleCalls == {<<r>>, <<w>>}
ReadOrWrites == {<<r>>, <<w, w2>>}
OneFile == {f}
SameFile == [c \in Calls |-> f]

FourCalls == {r, r2, w, w2}
TwoWrites == {w, w2}
SharedSig == [c \in Calls |-> IF c = r2 THEN r ELSE c]
PairCalls == {<<r, r2>>, <<r2, w>>, <<w2>>}
=============================================================================
