---- MODULE MCColorControl ----
(* One control of every kind; values between, at and beyond the ends of    *)
(* the exposure table, and values too wide for the driver's types.         *)
EXTENDS ColorControl

MCCommands == {EXPOSURE_TIME, WHITEBALANCE, POWERLINE_FREQUENCY, EXPOSURE_PRIORITY, BRIGHTNESS, "gain"}

(* The controls depend on each other only through the power line.         *)
MCPrograms == {{EXPOSURE_TIME, POWERLINE_FREQUENCY, c} : c \in MCCommands}

MCRequests == [c \in MCCommands |->
  CASE c = EXPOSURE_TIME -> {-1, 500, 501, 8330, 8331, 30001, 133330, 200000}
    [] c = WHITEBALANCE -> {4500, 70036}
    [] c = POWERLINE_FREQUENCY -> {0, 1, 2, 256, 258}
    [] c = EXPOSURE_PRIORITY -> {1}
    [] c = BRIGHTNESS -> {0, 128, 256}
    [] OTHER -> {7, 65541}]

MCLimits == [c \in MCCommands |->
  CASE c = WHITEBALANCE -> [min |-> 2500, max |-> 12500]
    [] c = POWERLINE_FREQUENCY -> [min |-> 0, max |-> 2]
    [] c = BRIGHTNESS -> [min |-> 0, max |-> 255]
    [] OTHER -> [min |-> 0, max |-> 255]]
====
