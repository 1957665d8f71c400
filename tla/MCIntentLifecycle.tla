-------------------------- MODULE MCIntentLifecycle -------------------------
EXTENDS IntentLifecycle, TLC

CONSTANTS i1, i2, m1, m2, p1, c1, c2

OneIntent == {i1}
TwoIntents == {i1, i2}

\* Both intents are created by m1 and transfer the same amount to the same
\* address, so they build one and the same Safe transaction.
OwnedByM1 == [i \in Intents |-> m1]
SamePayload == [i \in Intents |-> p1]

CallSymmetry == Permutations(Calls)
=============================================================================
