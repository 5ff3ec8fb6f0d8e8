-------------------------- MODULE MC_SecureHandshake --------------------------
EXTENDS SecureHandshake

CONSTANTS k1, k2, k3, k4 \* key materials, as model values

Materials == Permutations({k1, k2, k3, k4})

Unselected(offers)       == [asks |-> "none", strict |-> FALSE, offers |-> offers]
FailOpen(asks, offers)   == [asks |-> asks, strict |-> FALSE, offers |-> offers]
FailClosed(asks, offers) == [asks |-> asks, strict |-> TRUE, offers |-> offers]

\* Both ask for one protocol; one requires it and the other only offers it; one
\* requires it and the other asks; one requires what the other does not ask for;
\* one asks and the other has no settings until they are applied.
Pairs ==
  {<<FailOpen("v4", {"v4"}), FailOpen("v4", {"v4"})>>,
   <<FailClosed("v4", {"v4"}), Unselected({"v3", "v4"})>>,
   <<Unselected({"v4"}), FailClosed("v4", {"v4"})>>,
   <<FailOpen("v4", {"v4"}), FailClosed("v4", {"v4"})>>,
   <<FailOpen("v4", {"v3", "v4"}), FailClosed("v3", {"v3"})>>,
   <<FailOpen("v3", {"v3"}), Unselected({"v3", "v4"})>>}

Alike == {<<FailOpen("v4", {"v4"}), FailOpen("v4", {"v4"})>>}
=============================================================================
