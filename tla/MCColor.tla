---- MODULE MCColor ----
(* Two threads of the program, two of the system; the device's camera     *)
(* alone, behind another device's, and not there.                         *)
EXTENDS Color

MCCamera(l, c, id) == [link |-> l, color |-> c, container |-> id]

MCCameraLists ==
  {<<>>,
   <<MCCamera(TRUE, TRUE, "own")>>,
   <<MCCamera(TRUE, FALSE, "own"), MCCamera(TRUE, TRUE, "other"), MCCamera(TRUE, TRUE, "own")>>,
   <<MCCamera(FALSE, TRUE, "own"), MCCamera(TRUE, TRUE, "empty"), MCCamera(TRUE, TRUE, "no node")>>}
====
