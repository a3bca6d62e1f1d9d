---- MODULE MCCppHandles ----
(* Enough objects that a handle is shared, moved and left behind; layouts on *)
(* both sides of what image_create refuses.                                  *)
EXTENDS CppHandles, TLC

MCLayouts == {Layout(NV12, 2, 2, 3), Layout(NV12, 3, 2, 4), Layout(NV12, 2, 3, 2), Layout(YUY2, 1, 1, 2),
              Layout(BGRA32, 1, 2, 3), Layout(CUSTOM8, 3, 1, 3), Layout(CUSTOM, 1, 2, -1), Layout(MJPG, 2, 2, 0)}

MCBrought == {[layout |-> Layout(CUSTOM16, 3, 1, 0), size |-> 1]}

MCModes == {[format |-> BGRA32, width |-> 3, height |-> 1], [format |-> NV12, width |-> 2, height |-> 2]}

Cameras(cw, ch, dw, dh) == [color |-> [width |-> cw, height |-> ch], depth |-> [width |-> dw, height |-> dh]]

MCResolutions == {Cameras(3, 1, 3, 1)}
MCGarbage == {Cameras(0, 1, -1, 1)}

Symmetry == Permutations(ImageHandles) \cup Permutations(CaptureHandles) \cup Permutations(OwnedHandles)
====
