----------------------------- MODULE CppHandles -----------------------------
(***************************************************************************)
(* The handle classes of src/include/zsa/zsa.hpp.  image and capture share *)
(* a counted handle among the objects that were copied from one another;   *)
(* transformation and device own theirs alone and can only be moved.  An   *)
(* error is an exception: what the failed function had made is released as *)
(* its objects go out of scope.                                            *)
(*                                                                         *)
(* An object that does not exist yet, or no longer, is one whose m_handle  *)
(* is nullptr.  The counts are those of the C library (CaptureMemory).     *)
(***************************************************************************)
EXTENDS FiniteSets, ImageLayout

CONSTANTS
  Images, Captures,              \* objects of the classes image and capture
  Transformations, Devices,      \* objects of the classes transformation and device
  ImageHandles, CaptureHandles,  \* what zsa_image_create and zsa_capture_create return
  OwnedHandles,                  \* what zsa_transformation_create and zsa_device_open return
  nullptr,
  Kinds, ColorKind,              \* the images of a capture: color, depth and ir
  Modes,                         \* format and resolution of the color camera
  Layouts,                       \* the layouts of the images the program creates
  Brought,                       \* layouts of images in buffers it brings, with their size
  Resolutions,                   \* the resolutions of the cameras of a calibration
  Garbage                        \* resolutions that were never initialised

Resolution == [width : Int, height : Int]

Owners == Transformations \cup Devices

ASSUME HandlesAssumption ==
  /\ nullptr \notin ImageHandles \cup CaptureHandles \cup OwnedHandles
  /\ ImageHandles \cap CaptureHandles = {}
  /\ Images \cap Captures = {} /\ Transformations \cap Devices = {}
  /\ ColorKind \in Kinds
  /\ Layouts \subseteq LayoutType
  /\ Brought \subseteq [layout : LayoutType, size : Int]
  /\ Resolutions \cup Garbage \subseteq [color : Resolution, depth : Resolution]
  /\ Modes \subseteq [format : {MJPG, NV12, YUY2, BGRA32}, width : Nat \ {0}, height : Nat \ {0}]
  /\ \A m \in Modes : m.format = NV12 => m.width % 2 = 0 /\ m.height % 2 = 0
  /\ IsFiniteSet(Images) /\ IsFiniteSet(Captures) /\ IsFiniteSet(CaptureHandles)
  /\ IsFiniteSet(Kinds)

VARIABLES
  shared,     \* m_handle of images and captures; of their handles: the count,
              \* the images inside a capture, the content of an image
  owned,      \* m_handle of transformations and devices
  open,       \* the transformation and device handles that have not been destroyed
  resolution  \* m_color_resolution and m_depth_resolution of transformations

vars == <<shared, owned, open, resolution>>

Blank == [layout |-> Layout(CUSTOM, 0, 0, 0), pixel |-> 0, size |-> 0, ours |-> FALSE]

Init ==
  /\ shared = [m_handle |-> [x \in Images \cup Captures |-> nullptr],
               refs |-> [h \in ImageHandles \cup CaptureHandles |-> 0],
               inside |-> [k \in CaptureHandles |-> [kind \in Kinds |-> nullptr]],
               content |-> [h \in ImageHandles |-> Blank]]
  /\ owned = [x \in Owners |-> nullptr]
  /\ open = {}
  /\ resolution \in [Transformations -> Garbage]

-----------------------------------------------------------------------------
(* The C library: zsa_image_reference and _release, zsa_capture_reference  *)
(* and _release, which releases the images of a capture that dies.         *)

Reference(s, h) == IF h = nullptr THEN s ELSE [s EXCEPT !.refs[h] = @ + 1]

(* With the last reference the content goes.                               *)
Less(s, uses) ==
  LET refs == [h \in DOMAIN s.refs |-> s.refs[h] - uses[h]]
  IN  [s EXCEPT !.refs = refs,
                !.content = [h \in ImageHandles |-> IF refs[h] = 0 THEN Blank ELSE @[h]]]

Release(s, h) ==
  LET one == [g \in DOMAIN s.refs |-> IF g = h THEN 1 ELSE 0]
      t == Less(s, one)
      images == [g \in DOMAIN s.refs |-> Cardinality({kind \in Kinds : t.inside[h][kind] = g})]
  IN  IF h = nullptr THEN s
      ELSE IF h \in ImageHandles \/ t.refs[h] > 0 THEN t
      ELSE [Less(t, images) EXCEPT !.inside[h] = [kind \in Kinds |-> nullptr]]

Unused(handles) == {h \in handles : shared.refs[h] = 0}

(* What a class does with its m_handle.                                    *)
ResetKeepsHandle(s, x) == Release(s, s.m_handle[x])              \* mutant

reset(s, x) == [Release(s, s.m_handle[x]) EXCEPT !.m_handle[x] = nullptr]

Copied(s, x, y) == Reference([s EXCEPT !.m_handle[x] = s.m_handle[y]], s.m_handle[y])

Moved(s, x, y) == [s EXCEPT !.m_handle[x] = s.m_handle[y], !.m_handle[y] = nullptr]

(* A function makes a handle for an object of its own, and moves it into x *)
(* when it returns.                                                        *)
Made(s, h) == [s EXCEPT !.refs[h] = 1]

Image(s, h, content) == [Made(s, h) EXCEPT !.content[h] = content]

Returned(s, x, h) == [reset(s, x) EXCEPT !.m_handle[x] = h]

-----------------------------------------------------------------------------
(* class image                                                             *)

image_copy(x, y) == shared.m_handle[x] = nullptr /\ x # y /\ shared' = Copied(shared, x, y)

image_move(x, y) == shared.m_handle[x] = nullptr /\ x # y /\ shared' = Moved(shared, x, y)

(* Assignments do nothing when an object is assigned to itself.            *)
image_assign(x, y) == x # y /\ shared' = Copied(reset(shared, x), x, y)

image_move_assign(x, y) == x # y /\ shared' = Moved(reset(shared, x), x, y)

(* ~image, operator=(nullptr_t) and reset *)
image_reset(x) == shared' = reset(shared, x)

(* What image_create makes of a layout, for pixels of so many bytes.       *)
Allocated(layout, pixel) ==
  [layout |-> layout, pixel |-> pixel, size |-> BufferSize(layout), ours |-> TRUE]

(* Assigned to x; or it throws.                                            *)
image_create(x, layout) ==
  /\ Creatable(layout)
  /\ \E h \in Unused(ImageHandles) :
       shared' = Returned(Image(shared, h, Allocated(layout, BytesPerPixel(layout.format))), x, h)

(* The buffer is the program's, and nobody looks whether it is large       *)
(* enough.                                                                 *)
image_create_from_buffer(x, layout, size) ==
  /\ FromBuffer(layout, size)
  /\ \E h \in Unused(ImageHandles) :
       shared' = Returned(Image(shared, h, [layout |-> layout, pixel |-> BytesPerPixel(layout.format),
                                            size |-> size, ours |-> FALSE]), x, h)

(* The accessors of an image without a handle: CUSTOM and 0.               *)
ContentOf(x) == IF shared.m_handle[x] = nullptr THEN Blank ELSE shared.content[shared.m_handle[x]]

get_format(x) == ContentOf(x).layout.format
get_width_pixels(x) == ContentOf(x).layout.width
get_height_pixels(x) == ContentOf(x).layout.height

(* class capture                                                           *)

capture_copy(x, y) == shared.m_handle[x] = nullptr /\ x # y /\ shared' = Copied(shared, x, y)

capture_move(x, y) == shared.m_handle[x] = nullptr /\ x # y /\ shared' = Moved(shared, x, y)

capture_assign(x, y) == x # y /\ shared' = Copied(reset(shared, x), x, y)

capture_move_assign(x, y) == x # y /\ shared' = Moved(reset(shared, x), x, y)

capture_reset(x) == shared' = reset(shared, x)

capture_create(x) ==
  \E h \in Unused(CaptureHandles) : shared' = Returned(Made(shared, h), x, h)

(* The C function gives a reference, which the new image object takes over *)
(* and moves into x.                                                       *)
get_image(x, k, kind) ==
  LET h == shared.m_handle[k]
      found == IF h = nullptr THEN nullptr ELSE shared.inside[h][kind]
  IN  shared' = Returned(Reference(shared, found), x, found)

(* The capture takes a reference of its own, and gives up the one to the   *)
(* image it had.                                                           *)
set_image(k, x, kind) ==
  LET h == shared.m_handle[k]
      t == Reference(shared, shared.m_handle[x])
  IN  /\ h # nullptr
      /\ shared' = [Release(t, t.inside[h][kind]) EXCEPT !.inside[h][kind] = shared.m_handle[x]]

-----------------------------------------------------------------------------
(* class transformation                                                    *)

OwnerMoves(x, y) == [owned EXCEPT ![x] = owned[y], ![y] = nullptr]

Opens(x) ==
  \E h \in OwnedHandles \ open :
    owned[x] = nullptr /\ owned' = [owned EXCEPT ![x] = h] /\ open' = open \cup {h}

(* From a calibration, of which the resolutions are remembered though the  *)
(* C function may fail; or from a handle, and they are left uninitialised. *)
transformation_create(x) ==
  /\ owned[x] = nullptr
  /\ \/ \E r \in Resolutions :
          /\ resolution' = [resolution EXCEPT ![x] = r]
          /\ Opens(x) \/ UNCHANGED <<owned, open>>
     \/ \E r \in Garbage :
          /\ resolution' = [resolution EXCEPT ![x] = r]
          /\ Opens(x)

OtherKeepsHandle(x, y) == [owned EXCEPT ![x] = owned[y]]         \* mutant

MoveFrom(x, y) == OwnerMoves(x, y)

transformation_move_assign(x, y) ==
  /\ x # y
  /\ open' = open \ {owned[x]}
  /\ owned' = MoveFrom(x, y)
  /\ resolution' = [resolution EXCEPT ![x] = resolution[y]]

transformation_destroy(x) ==
  /\ open' = open \ {owned[x]}
  /\ owned' = [owned EXCEPT ![x] = nullptr]
  /\ UNCHANGED resolution

(* The C function needs the handle and may fail; the image that was made   *)
(* for it is released as the exception passes.                             *)
Converted(t, x, layout, pixel) ==
  /\ Creatable(layout)
  /\ \E h \in Unused(ImageHandles) :
       LET made == Image(shared, h, Allocated(layout, pixel))
       IN  \/ owned[t] # nullptr /\ shared' = Returned(made, x, h)
           \/ shared' = Release(made, h)

DepthInColor(t) ==
  LET r == resolution[t].color IN Layout(DEPTH16, r.width, r.height, r.width * 2)

depth_image_to_color_camera(t, x) == Converted(t, x, DepthInColor(t), BytesPerPixel(DEPTH16))

CustomInColor(t, custom) ==
  LET r == resolution[t].color
      format == get_format(custom)
  IN  Layout(format, r.width, r.height, r.width * BytesPerPixel(format))

(* Two images.  Between them the format of the custom image may be refused *)
(* or the second may not be made: the first is released then.              *)
depth_image_to_color_camera_custom(t, x, y, custom) ==
  LET depth == DepthInColor(t)
      other == CustomInColor(t, custom)
      pixel == BytesPerPixel(other.format)
  IN  /\ x # y
      /\ Creatable(depth)
      /\ \E g \in Unused(ImageHandles) :
           LET first == Image(shared, g, Allocated(depth, BytesPerPixel(DEPTH16)))
           IN  \/ shared' = Release(first, g)
               \/ /\ other.format \in {CUSTOM8, CUSTOM16}
                  /\ Creatable(other)
                  /\ \E h \in Unused(ImageHandles) \ {g} :
                       LET both == Image(first, h, Allocated(other, pixel))
                       IN  \/ owned[t] # nullptr /\ shared' = Returned(Returned(both, x, g), y, h)
                           \/ shared' = Release(Release(both, h), g)

ColorInDepth(t) ==
  LET r == resolution[t].depth IN Layout(BGRA32, r.width, r.height, r.width * 4)

color_image_to_depth_camera(t, x) == Converted(t, x, ColorInDepth(t), BytesPerPixel(BGRA32))

(* X, Y and Z, of two bytes each.                                          *)
PointCloud(depth_image) ==
  Layout(CUSTOM, get_width_pixels(depth_image), get_height_pixels(depth_image),
         get_width_pixels(depth_image) * 3 * 2)

depth_image_to_point_cloud(t, x, depth_image) == Converted(t, x, PointCloud(depth_image), 6)

(* class device                                                            *)

device_open(x) == Opens(x)

device_move_assign(x, y) ==
  /\ x # y
  /\ open' = open \ {owned[x]}
  /\ owned' = MoveFrom(x, y)

device_close(x) == open' = open \ {owned[x]} /\ owned' = [owned EXCEPT ![x] = nullptr]

(* The frames of either reader in the modes of the camera.                 *)
Frames ==
  {MfFrame(m.format, m.width, m.height) : m \in Modes}
    \cup {UvcFrame(input, m.format, m.width, m.height) :
             input \in {MJPG}, m \in {n \in Modes : n.format = BGRA32}}
    \cup {UvcFrame(m.format, m.format, m.width, m.height) : m \in {n \in Modes : n.format # BGRA32}}

(* The capture is assigned to *cap only when there is one.                 *)
get_capture(d, k) ==
  /\ owned[d] # nullptr
  /\ \E h \in Unused(CaptureHandles), g \in Unused(ImageHandles), frame \in Frames :
       LET content == [layout |-> frame.layout, pixel |-> BytesPerPixel(frame.layout.format),
                       size |-> frame.size, ours |-> TRUE]
           made == [Made(Image(shared, g, content), h) EXCEPT !.inside[h][ColorKind] = g]
       IN  shared' = Returned(made, k, h)

-----------------------------------------------------------------------------
ImageStep ==
  \/ \E x, y \in Images : image_copy(x, y) \/ image_move(x, y) \/ image_assign(x, y)
                           \/ image_move_assign(x, y)
  \/ \E x \in Images : image_reset(x)
  \/ \E x \in Images, l \in Layouts : image_create(x, l)
  \/ \E x \in Images, b \in Brought : image_create_from_buffer(x, b.layout, b.size)

ConversionStep ==
  \E t \in Transformations, x \in Images :
    \/ depth_image_to_color_camera(t, x)
    \/ \E y, custom \in Images : depth_image_to_color_camera_custom(t, x, y, custom)
    \/ color_image_to_depth_camera(t, x)
    \/ \E d \in Images : depth_image_to_point_cloud(t, x, d)

CaptureStep ==
  \/ \E x, y \in Captures : capture_copy(x, y) \/ capture_move(x, y) \/ capture_assign(x, y)
                             \/ capture_move_assign(x, y)
  \/ \E x \in Captures : capture_reset(x) \/ capture_create(x)
  \/ \E k \in Captures, x \in Images, kind \in Kinds : get_image(x, k, kind) \/ set_image(k, x, kind)
  \/ \E d \in Devices, k \in Captures : get_capture(d, k)

TransformationStep ==
  \/ \E x, y \in Transformations : transformation_move_assign(x, y)
  \/ \E x \in Transformations : transformation_create(x) \/ transformation_destroy(x)

DeviceStep ==
  \/ \E x, y \in Devices : device_move_assign(x, y)
  \/ \E x \in Devices : device_open(x) \/ device_close(x)

Next ==
  \/ ImageStep /\ UNCHANGED <<owned, open, resolution>>
  \/ ConversionStep /\ UNCHANGED <<owned, open, resolution>>
  \/ CaptureStep /\ UNCHANGED <<owned, open, resolution>>
  \/ TransformationStep /\ UNCHANGED shared
  \/ DeviceStep /\ UNCHANGED <<shared, resolution>>

Spec == Init /\ [][Next]_vars

-----------------------------------------------------------------------------
(* Properties                                                              *)

Holders(h) == {x \in Images \cup Captures : shared.m_handle[x] = h}
Containers(h) == {p \in CaptureHandles \X Kinds : shared.inside[p[1]][p[2]] = h}

(* The count of every image and capture is the number of objects that hold *)
(* it and of places in captures it is in, after any sequence of copies,    *)
(* moves, assignments and failed conversions: nothing leaks, nothing is    *)
(* released that is still held.                                            *)
CountsAreHolders ==
  \A h \in ImageHandles \cup CaptureHandles :
    shared.refs[h] = Cardinality(Holders(h)) + Cardinality(Containers(h))

(* A device or transformation that is open has exactly one object, which   *)
(* will close it, and no object has one that is closed.                    *)
OwnedOnce ==
  /\ \A x, y \in Owners : owned[x] = owned[y] /\ owned[x] # nullptr => x = y
  /\ open = {owned[x] : x \in Owners} \ {nullptr}

(* Every line of an image whose buffer the library has chosen lies in that *)
(* buffer: of the images of image_create at odd sizes and padded strides,  *)
(* of what a conversion writes, also with resolutions that were never      *)
(* initialised, and of the camera's frames; with the chroma of NV12.       *)
PixelsInBuffer ==
  \A h \in ImageHandles :
    LET c == shared.content[h] IN c.ours => Holds(c.layout, c.pixel, c.size)

=============================================================================
