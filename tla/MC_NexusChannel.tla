-------------------------- MODULE MC_NexusChannel --------------------------
EXTENDS NexusChannel, TLC

CONSTANTS a, b \* the two windows, as model values

SameOrigin == [i \in Id |-> 1]

\* The second document of a window may come from another site.
MixedOrigins == [i \in Id |-> IF i = 2 THEN 2 ELSE 1]

\* The protocol names neither window: sound wherever Refusers is no proper
\* part of Side and no liveness is checked.
Sides == Permutations(Side)
=============================================================================
