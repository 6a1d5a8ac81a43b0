-------------------------- MODULE MCFeatureFlags --------------------------
(***************************************************************************)
(* Two plugins of one device type, two flag names and two templates: one   *)
(* lists a and, in production only, b; the other lists b alone.            *)
(***************************************************************************)
EXTENDS FeatureFlags, TLC

MCName == {"a", "b"}
Wide == [default |-> "a" :> "on", prod |-> "b" :> "on", none |-> FALSE]
Narrow == [default |-> "b" :> "off", prod |-> << >>, none |-> FALSE]
MCTemplate == {Wide, Narrow}
MCImported == {<<Wide, NoTemplate>>}
Symmetry == Permutations(Cohort) \cup Permutations(Call)
=============================================================================
