---------------------------- MODULE MCNetManager ----------------------------
\* NetManager for TLC.  Networks can be exchanged where no fairness is at
\* stake.
EXTENDS NetManager, TLC

Alike == Permutations(Networks)
=============================================================================
