------------------------------ MODULE Exposure ------------------------------
(***************************************************************************)
(* The exposure times of the color camera: device_exposure_mapping of      *)
(* src/src/color/color_priv.h and the maps between microseconds and the    *)
(* units of the drivers, 100 microseconds on Linux and a power of two on   *)
(* Windows.  hz60 is m_using_60hz_power.                                   *)
(***************************************************************************)
EXTENDS Integers

(* The columns exposure_mapped_50Hz_usec and exposure_mapped_60Hz_usec.    *)
device_exposure_mapping == [
  hz50 |-> <<500, 1250, 2500, 10000, 20000, 30000, 40000, 50000, 60000, 80000,
             100000, 120000, 130000>>,
  hz60 |-> <<500, 1250, 2500, 8330, 16670, 33330, 41670, 50000, 66670, 83330,
             100000, 116670, 133330>>]

Rows == 1 .. 13
Exponent(row) == row - 12

Column(hz60) == IF hz60 THEN device_exposure_mapping.hz60 ELSE device_exposure_mapping.hz50

MAX_EXPOSURE(hz60) == Column(hz60)[13]

(* The row the loops stop at: the first that is long enough.               *)
FirstRow(usec, hz60) ==
  CHOOSE x \in Rows : usec <= Column(hz60)[x] /\ \A y \in 1 .. x - 1 : usec > Column(hz60)[y]

CONV_100USEC_TO_USEC == 100

MapK4aExposureToLinux(usec, hz60) ==
  IF usec <= MAX_EXPOSURE(hz60)
  THEN Column(hz60)[FirstRow(usec, hz60)] \div CONV_100USEC_TO_USEC
  ELSE MAX_EXPOSURE(hz60) \div CONV_100USEC_TO_USEC

MapLinuxExposureToK4a(units, hz60) ==
  LET usec == units * CONV_100USEC_TO_USEC
  IN  IF usec <= MAX_EXPOSURE(hz60)
      THEN Column(hz60)[FirstRow(usec, hz60)]
      ELSE MAX_EXPOSURE(hz60)

MapK4aExposureToMf(usec, hz60) ==
  IF usec <= MAX_EXPOSURE(hz60) THEN Exponent(FirstRow(usec, hz60)) ELSE Exponent(13)

MapMfExponentToK4a(exponent, hz60) ==
  IF exponent <= Exponent(13)
  THEN Column(hz60)[CHOOSE x \in Rows : /\ exponent <= Exponent(x)
                                        /\ \A y \in 1 .. x - 1 : exponent > Exponent(y)]
  ELSE MAX_EXPOSURE(hz60)

-----------------------------------------------------------------------------
(* What the maps are for: the shortest exposure of the table that is not   *)
(* shorter than the one asked for, the longest if there is none.           *)
IsNearest(result, usec, hz60) ==
  /\ \E x \in Rows : result = Column(hz60)[x]
  /\ \/ usec <= result
     \/ result = MAX_EXPOSURE(hz60)
  /\ \A x \in Rows : usec <= Column(hz60)[x] => result <= Column(hz60)[x]

=============================================================================
