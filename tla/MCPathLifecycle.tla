--------------------------- MODULE MCPathLifecycle --------------------------
EXTENDS PathLifecycle, TLC
====
