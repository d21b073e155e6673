---------------------------- MODULE MCGlobalWriter ----------------------------
\* Small instances of GlobalWriter for TLC.
EXTENDS GlobalWriter

CONSTANTS cam1, cam2

OneCamera == {cam1}
TwoCameras == {cam1, cam2}

\* Every id fits into the 16 bytes of a record header.
ShortIds == [c \in Cameras |-> c]

\* Every id is longer than that, and cut it is the first camera's.
CutIds == [c \in Cameras |-> cam1]

==============================================================================
