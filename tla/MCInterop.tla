----------------------------- MODULE MCInterop -----------------------------
(***************************************************************************)
(* Instances of Interop: two neighbours that commit, and a third client    *)
(* that is added.                                                          *)
(***************************************************************************)
EXTENDS Interop

CONSTANTS alice, bob, carol

Asked == [members |-> {alice, bob}, creator |-> alice, committers |-> {alice, bob},
          byReference |-> {}, byValue |-> {}, private |-> FALSE, withoutPsk |-> {},
          branch |-> FALSE, everybody |-> FALSE, parameters |-> {},
          maxEpoch |-> 3, maxProposals |-> 0]

\* Leaf keys: Update proposals and commits with and without a path.
Updates == [Asked EXCEPT !.byReference = {"update"}, !.byValue = {"external"}, !.private = TRUE,
                         !.maxProposals = 2]

\* PSKs that some have and others do not, and a newcomer.
Psks == [Asked EXCEPT !.byReference = {"resumption", "add"}, !.byValue = {"external"},
                      !.withoutPsk = {bob}, !.maxProposals = 1]

\* A branch while the group goes on.
Branches == [Asked EXCEPT !.byValue = {"resumption"}, !.branch = TRUE]

\* Reinitialization, with whatever parameters its creator chooses.
Reinits == [Asked EXCEPT !.byReference = {"reinit"}, !.byValue = {"external"}, !.private = TRUE,
                         !.parameters = {"agreed", "other"}, !.maxProposals = 2]

\* Reinitialization by a runner that takes everybody along.
Together == [Asked EXCEPT !.byValue = {"reinit", "external"}, !.withoutPsk = {alice, bob},
                          !.parameters = {"agreed"}, !.everybody = TRUE]

AllScenarios == {Updates, Psks, Branches, Reinits, Together}
JustUpdates == {Updates}
=============================================================================
