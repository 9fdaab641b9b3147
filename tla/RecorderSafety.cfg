\* Three round trips and two calls of StopRecording, in any interleaving.
CONSTANTS
  Trips = {t1, t2, t3}
  Stops = {s1, s2}
SPECIFICATION Spec
SYMMETRY Symmetry
CHECK_DEADLOCK FALSE
INVARIANTS FilesIntact StopSpeaksForThePast RecordingInvisible
