---------------------------- MODULE MCLiveBroker ----------------------------
EXTENDS LiveBroker

CONSTANTS p1, p2, c1, c0, k1, k2, k3, o1, o0

\* p2 is another command under the key and for the order of p1; c1 cancels that
\* order, and c0 one that an earlier process placed.
MCKeyOf == [c \in Commands |-> IF c \in Places THEN k1 ELSE IF c = c1 THEN k2 ELSE k3]
MCOrderOf == [c \in Commands |-> IF c = c0 THEN o0 ELSE o1]

\* A good listing, one with other schemas, one whose reads are not harmless, and one
\* without cancellation.
MCCatalogues ==
    {[tools |-> Capabilities, destructive |-> {}, schema |-> 1],
     [tools |-> Capabilities, destructive |-> {}, schema |-> 2],
     [tools |-> Capabilities, destructive |-> {"reads"}, schema |-> 1],
     [tools |-> Capabilities \ {"cancel"}, destructive |-> {}, schema |-> 1]}
=============================================================================
