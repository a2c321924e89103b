------------------------- MODULE MCDaemonLifecycle -------------------------
EXTENDS DaemonLifecycle

CONSTANTS p1, p2, p3, f1

MCProcesses == {p1, p2, p3, f1}
MCForeground == {f1}
=============================================================================
