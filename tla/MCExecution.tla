---------------------------- MODULE MCExecution ----------------------------
(***************************************************************************)
(* Small plans for TLC.                                                    *)
(***************************************************************************)
EXTENDS Execution

CONSTANTS k1, k2, a, b

\* A chain of three, the first and the last on the same key.
ChainKeyOf   == <<k1, k2, k1>>
ChainDesired == <<a, a, b>>
ChainDepends == <<{}, {1}, {2}>>

\* One independent operation between a dependency and its dependent.
SkipKeyOf   == <<k1, k2, k2>>
SkipDesired == <<a, a, b>>
SkipDepends == <<{}, {}, {1}>>
=============================================================================
