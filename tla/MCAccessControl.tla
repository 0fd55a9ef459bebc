-------------------------- MODULE MCAccessControl --------------------------
(***************************************************************************)
(* Small instances of AccessControl for TLC.                               *)
(***************************************************************************)
EXTENDS AccessControl, TLC

CONSTANTS o1, o2, u1

TwoOwners == {o1, o2}
OwnersAndOne == {o1, o2, u1}

\* Handlers are interchangeable, and so are people of the same standing.
Symmetry ==
  Permutations(Handlers) \cup Permutations(Owners)
    \cup Permutations(People \ Owners)
=============================================================================
