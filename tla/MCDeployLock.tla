---------------------------- MODULE MCDeployLock ----------------------------
\* DeployLock for TLC.  Runs and descriptions are interchangeable, so the safety
\* runs use their symmetry; the liveness runs do not.
EXTENDS DeployLock, TLC

Symmetry == Permutations(Proc) \union Permutations(Ofd)
=============================================================================
