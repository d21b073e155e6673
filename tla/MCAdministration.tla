--------------------------- MODULE MCAdministration ---------------------------
\* Small instances of Administration for TLC.
EXTENDS Administration

CONSTANTS cam1, cam2

TwoCameras == {cam1, cam2}
SecondCamera == {cam2}

\* One camera, two, and the same one twice.
Files == {<<cam1>>, <<cam1, cam2>>, <<cam1, cam1>>}

==============================================================================
