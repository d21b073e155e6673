---------------------------- MODULE MCSegmentReads ----------------------------
\* Small instances of SegmentReads for TLC.
EXTENDS SegmentReads

CONSTANTS cam1, cam2

OneCamera == {cam1}
TwoCameras == {cam1, cam2}
ShortIds == [c \in Cameras |-> c]

==============================================================================
