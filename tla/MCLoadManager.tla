--------------------------- MODULE MCLoadManager ---------------------------
(***************************************************************************)
(* Instantiates LoadManager for TLC.  Handlers, shapes and the other sets  *)
(* are given in the .cfg files through the definitions below.              *)
(***************************************************************************)
EXTENDS LoadManager

CONSTANTS h1, h2, h3, s1, s2, s3

TwoHandlers == {h1, h2}
ThreeHandlers == {h1, h2, h3}
TwoShapes == {s1, s2}
ThreeShapes == {s1, s2, s3}
NoShapes == {}
OneBlocked == {s3}
OneBlockedOfTwo == {s2}
StoreCalmOrSlow == {0, 2}
StoreSlow == {2}
BootTimes == {0, 2}
BootLate == {2}
WholeMs == {2}
SubAndWholeMs == {1, 2}
=============================================================================
