---------------------------- MODULE ImageLayout ----------------------------
(***************************************************************************)
(* How image_create of src/src/image/image.c finds out the size of the     *)
(* buffer of an image, and what may lie in such a buffer.  A layout is the *)
(* format, width, height and stride of an image.  size_t has 64 bits.      *)
(***************************************************************************)
EXTENDS Integers

MJPG == "COLOR_MJPG"
NV12 == "COLOR_NV12"
YUY2 == "COLOR_YUY2"
BGRA32 == "COLOR_BGRA32"
DEPTH16 == "DEPTH16"
IR16 == "IR16"
CUSTOM8 == "CUSTOM8"
CUSTOM16 == "CUSTOM16"
CUSTOM == "CUSTOM"

Formats == {MJPG, NV12, YUY2, BGRA32, DEPTH16, IR16, CUSTOM8, CUSTOM16, CUSTOM}

LayoutType == [format : Formats, width : Int, height : Int, stride : Int]

Layout(format, w, h, stride) == [format |-> format, width |-> w, height |-> h, stride |-> stride]

(* What a line and a pixel of a format take; the lines of chroma of NV12   *)
(* are as long as those of luminance, and half as many.                    *)
BytesPerPixel(format) ==
  CASE format \in {NV12, CUSTOM8} -> 1
    [] format \in {YUY2, DEPTH16, IR16, CUSTOM16} -> 2
    [] format = BGRA32 -> 4
    [] OTHER -> 0

(* Two pixels share their chroma.                                          *)
EvenWidth == {NV12, YUY2}

Supported(l) ==
  /\ l.format \in Formats \ {MJPG}
  /\ l.width > 0 /\ l.width < 20000
  /\ l.height > 0 /\ l.height < 20000
  /\ l.format \in EvenWidth => l.width % 2 = 0
  /\ l.format = NV12 => l.height % 2 = 0
  /\ l.format # CUSTOM => l.stride >= BytesPerPixel(l.format) * l.width

SizeWithoutChroma(l) == l.height * l.stride                      \* mutant

(* "Calculate correct size for NV12 (extra color lines follow Y samples)"  *)
BufferSize(l) ==
  IF l.format = NV12 THEN (3 * l.height * l.stride) \div 2 ELSE l.height * l.stride

(* image_create_empty_image refuses a size of 0, and no allocator has the  *)
(* size that a negative stride becomes as a size_t.                        *)
Creatable(l) == Supported(l) /\ BufferSize(l) > 0

(* image_create_from_buffer has other bounds, and does not compare the     *)
(* stride with the size of the buffer.                                     *)
FromBuffer(l, size) ==
  /\ l.format \in Formats
  /\ l.width > 0 /\ l.width <= 20000
  /\ l.height > 0 /\ l.height <= 20000
  /\ size > 0

-----------------------------------------------------------------------------
(* The frames of the color camera, for which the readers bring the buffer. *)

(* What the camera sends; a compressed frame has any size.                 *)
FrameBytes(format, w, h) ==
  CASE format = NV12 -> (3 * w * h) \div 2
    [] format = MJPG -> 1
    [] OTHER -> BytesPerPixel(format) * w * h

(* CMFCameraReader *)
GetStride(format, w) ==
  CASE format = NV12 -> w
    [] format = YUY2 -> w * 2
    [] format = BGRA32 -> w * 4
    [] OTHER -> 0

MfFrame(format, w, h) ==
  [layout |-> Layout(format, w, h, GetStride(format, w)), size |-> FrameBytes(format, w, h)]

(* UVCCameraReader: frame->step and frame->data_bytes, or the size of what *)
(* is decoded from MJPG.                                                   *)
UvcFrame(input, output, w, h) ==
  IF input = MJPG /\ output = BGRA32
  THEN [layout |-> Layout(output, w, h, w * 4), size |-> (w * 4) * h]
  ELSE [layout |-> Layout(output, w, h, BytesPerPixel(input) * w), size |-> FrameBytes(input, w, h)]

-----------------------------------------------------------------------------
(* What src/include/zsa/zsatypes.h says of the formats, for the properties *)

Lines(l) == IF l.format = NV12 THEN l.height + l.height \div 2 ELSE l.height

LineStart(l, i) == i * l.stride

(* Every line the format has, if its pixels take that many bytes, lies in  *)
(* a buffer of this size, and no line reaches into the next.               *)
Holds(l, bytesPerPixel, size) ==
  /\ bytesPerPixel * l.width <= l.stride
  /\ \A i \in 0 .. Lines(l) - 1 : LineStart(l, i) + bytesPerPixel * l.width <= size

=============================================================================
