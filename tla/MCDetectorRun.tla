--------------------------- MODULE MCDetectorRun ---------------------------
(* Inputs for DetectorRun: every rule of the detector just below and just   *)
(* above its limit.                                                         *)
EXTENDS DetectorRun

MCAgents ==
  {EmptyAgent, [indicators |-> 8, short |-> FALSE, knownOs |-> TRUE]}
  \cup [indicators : {0, 1, 2, 4}, short : {FALSE}, knownOs : {TRUE}]

MCBatches ==
  [mouse : {0, 100, 101, 1000, 1001}, clicks : {0, 1}, scrolls : {20, 21},
   keys : {0, 1}, duration : {0, 29, 30, 60, 61, 130},
   swiftshader : BOOLEAN, load : {0, 99, 100}]
=============================================================================
