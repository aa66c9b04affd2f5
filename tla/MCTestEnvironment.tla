-------------------------- MODULE MCTestEnvironment --------------------------
(***************************************************************************)
(* Instances of TestEnvironment for TLC.  What the environments are is     *)
(* chosen once and for all: two remote ones that share a seed; a remote    *)
(* one that has two seeds, a local one, or a remote one without seeds,     *)
(* each beside one whose variables are not set.                            *)
(***************************************************************************)
EXTENDS TestEnvironment

CONSTANTS e1, e2, a, b

MCSlot == {<<e1, 1, 1>>, <<e1, 1, 2>>, <<e2, 1, 1>>}

MCFailing == {e1, <<e1, 1, 2>>}

MCGenesis == <<a, b, a, b>>

Setting(what, list, amount) ==
  [local |-> "local" \in what, configured |-> "unset" \notin what,
   injected |-> "injected" \in what, saves |-> "saves" \in what,
   crashes |-> "crashes" \in what, seeds |-> list,
   amount |-> amount]

Pair(first, second) == [e \in {e1, e2} |-> IF e = e1 THEN first ELSE second]

Shared == Pair(Setting({"saves", "injected"}, <<a>>, 1), Setting({"injected"}, <<a>>, 1))
TwoSeeds == Pair(Setting({"injected"}, <<a, b>>, 1), Setting({"unset", "injected"}, <<>>, 1))
OneLocal == Pair(Setting({"local", "saves", "crashes"}, <<>>, 1), Setting({"unset"}, <<>>, 1))
Random == Pair(Setting({}, <<>>, 2), Setting({"unset", "injected"}, <<>>, 1))

MCInit ==
  /\ settings \in {Shared, TwoSeeds, OneLocal, Random} /\ height \in {0, MaxHeight}
  /\ settings # OneLocal => height = MaxHeight
  /\ EnvironmentInit

MCSpec == MCInit /\ [][EnvironmentNext]_testVars /\ EnvironmentFairness

=============================================================================
