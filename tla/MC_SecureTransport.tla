------------------------- MODULE MC_SecureTransport -------------------------
EXTENDS SecureTransport

CONSTANTS a, b \* the two ends, as model values

OneSender == [e \in End |-> IF e = a THEN 3 ELSE 0]

\* The end that sends may fail to mint its material, and its queues stop; the
\* other end meets the faults of the network, of its deadline and of its owner.
Faults == [e \in End |-> IF e = a THEN {"stop", "mint"}
                                  ELSE {"stray", "replay", "expire", "dispose"}]
=============================================================================
