---------------------------- MODULE MCDeployRepo ----------------------------
\* DeployRepo for TLC: one service built from this repository (b), one from a
\* remote context (r), one published image (p) and one config that has to be
\* reloaded (c), as model values.
EXTENDS DeployRepo

CONSTANTS b, r, p, c
=============================================================================
