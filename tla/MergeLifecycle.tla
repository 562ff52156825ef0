--------------------------- MODULE MergeLifecycle ---------------------------
(***************************************************************************)
(* The merge phase of a column: an atomic enum moved along a fixed cycle   *)
(* by compare-and-swap (src/susano/merge_lifecycle.hpp).                   *)
(***************************************************************************)

VARIABLE phase   \* MergeLifecycle::phase_

MergePhase == {"Stable", "Handoff", "Building", "Publishing", "Retired"}

ValidMergeTransition(from, to) ==
  <<from, to>> \in {<<"Stable", "Handoff">>, <<"Handoff", "Building">>,
                    <<"Building", "Publishing">>, <<"Publishing", "Retired">>,
                    <<"Retired", "Stable">>}

\* Seeded fault: the phase is stored, not compared and swapped.
Succeeds_Unconditional(expected, next) == ValidMergeTransition(expected, next)

\* transition() returns true: the pair is legal and the compare-and-swap wins.
Succeeds(expected, next) ==
  /\ ValidMergeTransition(expected, next)
  /\ phase = expected

\* transition(), whatever it returns: a lost compare-and-swap changes nothing.
Transition(expected, next) ==
  phase' = IF Succeeds(expected, next) THEN next ELSE phase

InitLifecycle == phase = "Stable"
=============================================================================
