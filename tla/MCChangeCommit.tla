---------------------------- MODULE MCChangeCommit ----------------------------
(***************************************************************************)
(* ChangeCommit for TLC.  No caller keeps its operation ids apart: the     *)
(* first is used for an assignment, a relation and a release and on the    *)
(* direct route, the second for the release, for the other judgement of    *)
(* that relation and on the direct route.                                  *)
(***************************************************************************)
EXTENDS ChangeCommit, TLC

CONSTANTS x, r, o1, o2

Assign == [act |-> "assign", subject |-> x, reason |-> 1]
Release == [act |-> "release", subject |-> x, reason |-> 1]
Accept == [act |-> "relate", subject |-> r, reason |-> 1]
Reject == [act |-> "relate", subject |-> r, reason |-> 2]

MCChanges == {Assign, Release, Accept, Reject}
MCKeys == {<<o1, Assign>>, <<o1, Accept>>, <<o1, Release>>, <<o2, Release>>, <<o2, Reject>>}
MCDirectKeys == {<<o1, Assign>>, <<o2, Release>>}
MCTargets == [c \in MCChanges |-> IF c = Assign THEN {"identity-projection", "balance-projection"}
                                  ELSE {"identity-projection"}]
MCUses == [a \in Approvals |-> 1]

CommitSymmetry == Permutations(Calls) \cup Permutations(Approvals)
=============================================================================
