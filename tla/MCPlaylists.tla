----------------------------- MODULE MCPlaylists -----------------------------
\* Small instances of Playlists for TLC.
EXTENDS Playlists

CONSTANTS cam1, cam2

\* Only one of them has a player; the other one takes its share of the ids.
FirstCamera == {cam1}
TwoCameras == {cam1, cam2}
ShortIds == [c \in Cameras |-> c]

==============================================================================
