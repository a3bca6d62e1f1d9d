------------------------------ MODULE CppProofs -----------------------------
(***************************************************************************)
(* Proofs about the C++ classes.  The handle classes of zsa.hpp: the lines *)
(* of an image lie in its buffer, a device or transformation has one       *)
(* owner, and the count of an image or capture is the number of its        *)
(* holders.  The Astra headers: a stream follows its connections, a frame  *)
(* stays while it is held, and a listener hears every notification once.   *)
(***************************************************************************)
EXTENDS CppHandles, AstraReader, FiniteSetTheorems, SequenceTheorems,
        WellFoundedInduction, TLAPS

-----------------------------------------------------------------------------
(* The arithmetic of image_create: the size it computes holds every line   *)
(* of the image, for every format, width, height and stride it accepts.    *)

(* Lines no longer than the stride, n of them, lie in n strides.           *)
LEMMA LinesFit ==
  ASSUME NEW n \in Int, NEW stride \in Int, NEW line \in Int, line <= stride, 0 <= stride,
         NEW i \in 0 .. n - 1
  PROVE  i * stride + line <= n * stride
<1>1. (i + 1) * stride <= n * stride
  OBVIOUS
<1>2. (i + 1) * stride = i * stride + stride
  OBVIOUS
<1> QED
  BY <1>1, <1>2

(* The lines of chroma of NV12 are counted exactly when the height is even. *)
LEMMA ChromaLines ==
  ASSUME NEW h \in Nat, NEW stride \in Int, h % 2 = 0
  PROVE  (3 * h * stride) \div 2 = (h + h \div 2) * stride
<1>1. PICK k \in Nat : h = 2 * k
  OBVIOUS
<1>2. 3 * h * stride = 2 * (3 * k * stride) /\ h + h \div 2 = 3 * k
  BY <1>1
<1>3. 3 * k * stride \in Int
  OBVIOUS
<1>4. (2 * (3 * k * stride)) \div 2 = 3 * k * stride
  BY <1>3
<1> QED
  BY <1>2, <1>4

LEMMA PixelType == \A f : BytesPerPixel(f) \in {0, 1, 2, 4}
BY DEF BytesPerPixel

(* A buffer of Lines times the stride, or more, holds the image.           *)
LEMMA HoldsItsLines ==
  ASSUME NEW l \in LayoutType, NEW pixel \in Nat, NEW size \in Int,
         pixel * l.width <= l.stride, 0 <= l.stride, 0 < l.height,
         Lines(l) * l.stride <= size
  PROVE  Holds(l, pixel, size)
<1>1. l.width \in Int /\ l.height \in Int /\ l.stride \in Int
  BY DEF LayoutType
<1>2. Lines(l) \in Int /\ pixel * l.width \in Int
  BY <1>1 DEF Lines
<1>3. \A i \in 0 .. Lines(l) - 1 : i * l.stride + pixel * l.width <= Lines(l) * l.stride
  BY <1>1, <1>2, LinesFit
<1> QED
  BY <1>1, <1>2, <1>3 DEF Holds, LineStart

(* What image_create computes is Lines times the stride.                   *)
LEMMA SizeIsLines ==
  ASSUME NEW l \in LayoutType, 0 < l.height, l.format = NV12 => l.height % 2 = 0
  PROVE  BufferSize(l) = Lines(l) * l.stride /\ BufferSize(l) \in Int
<1>1. l.height \in Nat /\ l.stride \in Int
  BY DEF LayoutType
<1>2. CASE l.format = NV12
  BY <1>1, <1>2, ChromaLines DEF BufferSize, Lines
<1>3. CASE l.format # NV12
  BY <1>1, <1>3 DEF BufferSize, Lines
<1> QED
  BY <1>2, <1>3

(* A layout that image_create accepts has no negative stride: the size     *)
(* would be none an allocator has.                                         *)
LEMMA StrideNotNegative ==
  ASSUME NEW l \in LayoutType, Creatable(l)
  PROVE  0 <= l.stride
<1>1. l.width \in Int /\ l.height \in Int /\ l.stride \in Int /\ 0 < l.height /\ 0 < l.width
  BY DEF LayoutType, Creatable, Supported
<1>2. CASE l.format = CUSTOM
  <2>1. l.height * l.stride > 0
    BY <1>2 DEF Creatable, BufferSize, CUSTOM, NV12
  <2> QED
    BY <1>1, <2>1
<1>3. CASE l.format # CUSTOM
  <2>1. l.stride >= BytesPerPixel(l.format) * l.width
    BY <1>3 DEF Creatable, Supported
  <2>2. BytesPerPixel(l.format) * l.width >= 0
    BY <1>1, PixelType
  <2>3. BytesPerPixel(l.format) * l.width \in Int
    BY <1>1, PixelType
  <2> QED
    BY <1>1, <2>1, <2>2, <2>3
<1> QED
  BY <1>2, <1>3

(* image_create: an image of any format, width, height and stride that it  *)
(* accepts has a buffer in which every line lies, the lines of chroma of   *)
(* NV12 included.                                                          *)
THEOREM CreatedImageHoldsItsLines ==
  ASSUME NEW l \in LayoutType, Creatable(l)
  PROVE  Holds(l, BytesPerPixel(l.format), BufferSize(l))
<1>1. 0 < l.height /\ 0 < l.width /\ (l.format = NV12 => l.height % 2 = 0)
  BY DEF Creatable, Supported
<1>2. BufferSize(l) = Lines(l) * l.stride /\ BufferSize(l) \in Int
  BY <1>1, SizeIsLines
<1>3. BytesPerPixel(l.format) \in Nat
  BY PixelType
<1>4. BytesPerPixel(l.format) * l.width <= l.stride
  <2>1. CASE l.format = CUSTOM
    <3>1. BytesPerPixel(l.format) = 0
      BY <2>1 DEF BytesPerPixel, CUSTOM, NV12, CUSTOM8, YUY2, DEPTH16, IR16, CUSTOM16, BGRA32
    <3> QED
      BY <3>1, StrideNotNegative DEF LayoutType
  <2>2. CASE l.format # CUSTOM
    <3>1. l.stride >= BytesPerPixel(l.format) * l.width
      BY <2>2 DEF Creatable, Supported
    <3> QED
      BY <3>1, <1>3 DEF LayoutType
  <2> QED
    BY <2>1, <2>2
<1> QED
  BY <1>1, <1>2, <1>3, <1>4, StrideNotNegative, HoldsItsLines

(* The points of a point cloud, six bytes each, in an image of format      *)
(* CUSTOM, for which image_create compares nothing.                        *)
LEMMA PointsFit ==
  ASSUME NEW w \in Int, NEW h \in Int, Creatable(Layout(CUSTOM, w, h, w * 3 * 2))
  PROVE  Holds(Layout(CUSTOM, w, h, w * 3 * 2), 6, BufferSize(Layout(CUSTOM, w, h, w * 3 * 2)))
<1> DEFINE l == Layout(CUSTOM, w, h, w * 3 * 2)
<1>1. l \in LayoutType
  BY DEF Layout, LayoutType, Formats
<1>2. 0 < l.height /\ l.format = CUSTOM /\ l.stride = 6 * l.width
  BY DEF Layout, Creatable, Supported
<1>3. BufferSize(l) = Lines(l) * l.stride /\ BufferSize(l) \in Int
  BY <1>1, <1>2, SizeIsLines DEF CUSTOM, NV12
<1>4. 6 * l.width <= l.stride
  BY <1>1, <1>2 DEF LayoutType
<1> HIDE DEF l
<1>5. Creatable(l)
  BY DEF l
<1>6. Holds(l, 6, BufferSize(l))
  BY <1>1, <1>2, <1>3, <1>4, <1>5, StrideNotNegative, HoldsItsLines
<1> QED
  BY <1>6 DEF l

(* The frames of the color camera have lines without padding, of pixels of *)
(* so many bytes, and nothing else; a compressed one has no lines.         *)
LEMMA PackedFits ==
  ASSUME NEW f \in Formats, NEW w \in Nat, NEW h \in Nat \ {0}, f = NV12 => h % 2 = 0,
         NEW pixel \in Nat, NEW size \in Int,
         size >= BufferSize(Layout(f, w, h, pixel * w))
  PROVE  Layout(f, w, h, pixel * w) \in LayoutType /\ Holds(Layout(f, w, h, pixel * w), pixel, size)
<1> DEFINE l == Layout(f, w, h, pixel * w)
<1>1. l \in LayoutType /\ l.format = f /\ l.width = w /\ l.height = h /\ l.stride = pixel * w
  BY DEF Layout, LayoutType
<1>2. BufferSize(l) = Lines(l) * l.stride
  BY <1>1, SizeIsLines
<1>3. 0 <= l.stride /\ pixel * l.width <= l.stride /\ Lines(l) * l.stride <= size
  BY <1>1, <1>2
<1> HIDE DEF l
<1>4. Holds(l, pixel, size)
  BY <1>1, <1>3, HoldsItsLines
<1> QED
  BY <1>1, <1>4 DEF l

FitsItself(frame) ==
  frame.layout \in LayoutType /\ Holds(frame.layout, BytesPerPixel(frame.layout.format), frame.size)

(* The frames that either reader makes an image of.                        *)
LEMMA FramesFit ==
  ASSUME NEW format \in {MJPG, NV12, YUY2, BGRA32}, NEW w \in Nat \ {0}, NEW h \in Nat \ {0},
         format = NV12 => h % 2 = 0
  PROVE  /\ FitsItself(MfFrame(format, w, h))
         /\ format = BGRA32 => FitsItself(UvcFrame(MJPG, format, w, h))
         /\ format # BGRA32 => FitsItself(UvcFrame(format, format, w, h))
<1> DEFINE pixel == BytesPerPixel(format)
           l == Layout(format, w, h, pixel * w)
           frame == [layout |-> l, size |-> FrameBytes(format, w, h)]
<1>1. /\ format = MJPG => pixel = 0
      /\ format = NV12 => pixel = 1
      /\ format = YUY2 => pixel = 2
      /\ format = BGRA32 => pixel = 4
  BY DEF BytesPerPixel, MJPG, NV12, YUY2, BGRA32, DEPTH16, IR16, CUSTOM8, CUSTOM16
<1>2. pixel \in Nat /\ format \in Formats
  BY PixelType DEF Formats
<1>3. l.format = format /\ l.height = h /\ l.stride = pixel * w
  BY DEF Layout
<1>4. FrameBytes(format, w, h) \in Int /\ FrameBytes(format, w, h) >= BufferSize(l)
  <2>1. CASE format = NV12
    <3>1. FrameBytes(format, w, h) = (3 * w * h) \div 2
      BY <2>1 DEF FrameBytes, MJPG, NV12
    <3>2. BufferSize(l) = (3 * h * w) \div 2
      BY <1>1, <1>3, <2>1 DEF BufferSize
    <3>3. 3 * w * h = 3 * h * w
      OBVIOUS
    <3> QED
      BY <3>1, <3>2, <3>3
  <2>2. CASE format = MJPG
    <3>1. FrameBytes(format, w, h) = 1
      BY <2>2 DEF FrameBytes, MJPG, NV12
    <3>2. BufferSize(l) = 0
      BY <1>1, <1>3, <2>2 DEF BufferSize, MJPG, NV12, YUY2, BGRA32
    <3> QED
      BY <3>1, <3>2
  <2>3. CASE format \in {YUY2, BGRA32}
    <3>1. FrameBytes(format, w, h) = pixel * w * h
      BY <2>3 DEF FrameBytes, MJPG, NV12, YUY2, BGRA32
    <3>2. BufferSize(l) = h * (pixel * w)
      BY <1>3, <2>3 DEF BufferSize, NV12, YUY2, BGRA32
    <3> QED
      BY <1>2, <3>1, <3>2
  <2> QED
    BY <2>1, <2>2, <2>3
<1>5. l \in LayoutType /\ Holds(l, pixel, FrameBytes(format, w, h))
  BY <1>2, <1>4, PackedFits
<1>6. FitsItself(frame)
  BY <1>3, <1>5 DEF FitsItself
<1>7. GetStride(format, w) = pixel * w
  BY <1>1 DEF GetStride, MJPG, NV12, YUY2, BGRA32
<1>8. FitsItself(MfFrame(format, w, h))
  BY <1>6, <1>7 DEF MfFrame
<1>9. ASSUME format = BGRA32 PROVE FitsItself(UvcFrame(MJPG, format, w, h))
  <2>1. pixel = 4
    BY <1>1, <1>9 DEF NV12, YUY2, BGRA32
  <2>2. UvcFrame(MJPG, format, w, h) = [layout |-> Layout(format, w, h, 4 * w), size |-> (w * 4) * h]
    BY <1>9 DEF UvcFrame
  <2>3. FrameBytes(format, w, h) = (w * 4) * h
    BY <1>9, <2>1 DEF FrameBytes, MJPG, NV12, YUY2, BGRA32
  <2> QED
    BY <1>6, <2>1, <2>2, <2>3
<1>10. ASSUME format # BGRA32 PROVE FitsItself(UvcFrame(format, format, w, h))
  BY <1>6, <1>10 DEF UvcFrame
<1> QED
  BY <1>8, <1>9, <1>10

-----------------------------------------------------------------------------
(* The classes that own their handle alone                                 *)

OwnedTypes == owned \in [Owners -> OwnedHandles \cup {nullptr}]

OwnedInv == OwnedTypes /\ OwnedOnce

(* transformation_create and device_open: the handle is new.               *)
LEMMA OpensKeepsOwned ==
  ASSUME OwnedInv, NEW x \in Owners, Opens(x)
  PROVE  OwnedInv'
<1>1. PICK h \in OwnedHandles \ open :
        owned[x] = nullptr /\ owned' = [owned EXCEPT ![x] = h] /\ open' = open \cup {h}
  BY DEF Opens
<1>2. h # nullptr
  BY HandlesAssumption
<1>3. \A y \in Owners : owned[y] # h
  BY <1>1, <1>2 DEF OwnedInv, OwnedOnce
<1>4. OwnedTypes'
  BY <1>1 DEF OwnedInv, OwnedTypes
<1>5. \A y, z \in Owners : owned'[y] = owned'[z] /\ owned'[y] # nullptr => y = z
  BY <1>1, <1>3 DEF OwnedInv, OwnedTypes, OwnedOnce
<1>6. open' = {owned'[y] : y \in Owners} \ {nullptr}
  BY <1>1, <1>2 DEF OwnedInv, OwnedTypes, OwnedOnce
<1> QED
  BY <1>4, <1>5, <1>6 DEF OwnedInv, OwnedOnce

(* The destructors, close and destroy.                                     *)
LEMMA ClosesKeepsOwned ==
  ASSUME OwnedInv, NEW x \in Owners,
         open' = open \ {owned[x]}, owned' = [owned EXCEPT ![x] = nullptr]
  PROVE  OwnedInv'
<1>1. OwnedTypes'
  BY DEF OwnedInv, OwnedTypes
<1>2. \A y, z \in Owners : owned'[y] = owned'[z] /\ owned'[y] # nullptr => y = z
  BY DEF OwnedInv, OwnedTypes, OwnedOnce
<1>3. open' = {owned'[y] : y \in Owners} \ {nullptr}
  BY DEF OwnedInv, OwnedTypes, OwnedOnce
<1> QED
  BY <1>1, <1>2, <1>3 DEF OwnedInv, OwnedOnce

(* operator= closes what the object had before it takes the other's handle *)
(* away.                                                                   *)
LEMMA MoveKeepsOwned ==
  ASSUME OwnedInv, NEW x \in Owners, NEW y \in Owners, x # y,
         open' = open \ {owned[x]}, owned' = MoveFrom(x, y)
  PROVE  OwnedInv'
<1>1. owned' = [owned EXCEPT ![x] = owned[y], ![y] = nullptr]
  BY DEF MoveFrom, OwnerMoves
<1>2. OwnedTypes'
  BY <1>1 DEF OwnedInv, OwnedTypes
<1>3. \A u, v \in Owners : owned'[u] = owned'[v] /\ owned'[u] # nullptr => u = v
  BY <1>1 DEF OwnedInv, OwnedTypes, OwnedOnce
<1>4. open' = {owned'[u] : u \in Owners} \ {nullptr}
  BY <1>1 DEF OwnedInv, OwnedTypes, OwnedOnce
<1> QED
  BY <1>2, <1>3, <1>4 DEF OwnedInv, OwnedOnce

LEMMA OwnedStep == OwnedInv /\ [Next]_vars => OwnedInv'
<1> SUFFICES ASSUME OwnedInv, [Next]_vars PROVE OwnedInv'
  OBVIOUS
<1>1. CASE UNCHANGED <<owned, open>>
  BY <1>1 DEF OwnedInv, OwnedTypes, OwnedOnce
<1>2. CASE TransformationStep
  <2>1. ASSUME NEW x \in Transformations, NEW y \in Transformations,
               transformation_move_assign(x, y)
        PROVE  OwnedInv'
    BY <2>1, MoveKeepsOwned DEF transformation_move_assign, Owners
  <2>2. ASSUME NEW x \in Transformations, transformation_create(x) PROVE OwnedInv'
    <3>1. CASE Opens(x)
      BY <3>1, OpensKeepsOwned DEF Owners
    <3> QED
      BY <1>1, <2>2, <3>1 DEF transformation_create
  <2>3. ASSUME NEW x \in Transformations, transformation_destroy(x) PROVE OwnedInv'
    BY <2>3, ClosesKeepsOwned DEF transformation_destroy, Owners
  <2> QED
    BY <1>2, <2>1, <2>2, <2>3 DEF TransformationStep
<1>3. CASE DeviceStep
  <2>1. ASSUME NEW x \in Devices, NEW y \in Devices, device_move_assign(x, y)
        PROVE  OwnedInv'
    BY <2>1, MoveKeepsOwned DEF device_move_assign, Owners
  <2>2. ASSUME NEW x \in Devices, device_open(x) PROVE OwnedInv'
    BY <2>2, OpensKeepsOwned DEF device_open, Owners
  <2>3. ASSUME NEW x \in Devices, device_close(x) PROVE OwnedInv'
    BY <2>3, ClosesKeepsOwned DEF device_close, Owners
  <2> QED
    BY <1>3, <2>1, <2>2, <2>3 DEF DeviceStep
<1> QED
  BY <1>1, <1>2, <1>3 DEF Next, vars

(* A device or transformation that is open has exactly one object of the   *)
(* C++ API, which will close it: moves, moves onto an object that had one, *)
(* failed constructors and explicit closes included, for any number of     *)
(* objects and handles.                                                    *)
THEOREM OneOwnerEach == Spec => []OwnedOnce
<1>1. Init => OwnedInv
  BY HandlesAssumption DEF Init, OwnedInv, OwnedTypes, OwnedOnce
<1>2. OwnedInv /\ [Next]_vars => OwnedInv'
  BY OwnedStep
<1>3. OwnedInv => OwnedOnce
  BY DEF OwnedInv
<1> QED
  BY <1>1, <1>2, <1>3, PTL DEF Spec

-----------------------------------------------------------------------------
(* The images and captures: every content the library chose fits its       *)
(* buffer.  The sizes a conversion chooses come from the images and        *)
(* objects it is given, so the invariant types those as well; it says      *)
(* nothing of the counts.                                                  *)

Contents ==
  {c \in [layout : LayoutType, pixel : Nat, size : Int, ours : BOOLEAN] :
      c.ours => Holds(c.layout, c.pixel, c.size)}

ImageRefs == ImageHandles \cup {nullptr}
CaptureRefs == CaptureHandles \cup {nullptr}

(* An object of either class may have that m_handle.                       *)
MayHave(x, h) ==
  \/ x \in Images /\ h \in ImageRefs
  \/ x \in Captures /\ h \in CaptureRefs

SharedType ==
  [m_handle : [Images \cup Captures -> ImageRefs \cup CaptureRefs],
   refs : [ImageHandles \cup CaptureHandles -> Int],
   inside : [CaptureHandles -> [Kinds -> ImageRefs]],
   content : [ImageHandles -> Contents]]

Sound(s) == s \in SharedType /\ \A x \in Images \cup Captures : MayHave(x, s.m_handle[x])

Cameras == [color : Resolution, depth : Resolution]

PixelsInv == Sound(shared) /\ resolution \in [Transformations -> Cameras]

LEMMA BlankFits == Blank \in Contents
BY DEF Blank, Contents, Layout, LayoutType, Formats

(* What the operations on the shared part are made of.                     *)
LEMMA SetHandle ==
  ASSUME NEW s, Sound(s), NEW x, NEW h, MayHave(x, h)
  PROVE  Sound([s EXCEPT !.m_handle[x] = h])
BY HandlesAssumption DEF Sound, SharedType, MayHave

LEMMA SetRefs ==
  ASSUME NEW s, Sound(s), NEW refs \in [ImageHandles \cup CaptureHandles -> Int]
  PROVE  Sound([s EXCEPT !.refs = refs])
BY DEF Sound, SharedType

LEMMA SetInside ==
  ASSUME NEW s, Sound(s), NEW k \in CaptureHandles, NEW images \in [Kinds -> ImageRefs]
  PROVE  Sound([s EXCEPT !.inside[k] = images])
BY DEF Sound, SharedType

LEMMA SetContent ==
  ASSUME NEW s, Sound(s), NEW content \in [ImageHandles -> Contents]
  PROVE  Sound([s EXCEPT !.content = content])
BY DEF Sound, SharedType

(* The functions of the C library.                                         *)
LEMMA SoundReference ==
  ASSUME NEW s, Sound(s), NEW h \in ImageRefs \cup CaptureRefs
  PROVE  Sound(Reference(s, h))
BY DEF Sound, SharedType, Reference, ImageRefs, CaptureRefs

LEMMA SoundLess ==
  ASSUME NEW s, Sound(s), NEW uses \in [ImageHandles \cup CaptureHandles -> Int]
  PROVE  Sound(Less(s, uses))
<1> DEFINE refs == [h \in DOMAIN s.refs |-> s.refs[h] - uses[h]]
           content == [h \in ImageHandles |-> IF refs[h] = 0 THEN Blank ELSE s.content[h]]
           t == [s EXCEPT !.refs = refs]
<1>1. refs \in [ImageHandles \cup CaptureHandles -> Int]
  BY DEF Sound, SharedType
<1>2. content \in [ImageHandles -> Contents]
  BY BlankFits DEF Sound, SharedType
<1>3. Sound(t)
  BY <1>1, SetRefs
<1>4. Sound([t EXCEPT !.content = content])
  BY <1>2, <1>3, SetContent
<1>5. Less(s, uses) = [t EXCEPT !.content = content]
  BY DEF Less, Sound, SharedType
<1> QED
  BY <1>4, <1>5

LEMMA SoundRelease ==
  ASSUME NEW s, Sound(s), NEW h \in ImageRefs \cup CaptureRefs
  PROVE  Sound(Release(s, h))
<1>1. CASE h = nullptr
  BY <1>1 DEF Release
<1>2. CASE h # nullptr
  <2> DEFINE one == [g \in DOMAIN s.refs |-> IF g = h THEN 1 ELSE 0]
             t == Less(s, one)
             images == [g \in DOMAIN s.refs |-> Cardinality({kind \in Kinds : t.inside[h][kind] = g})]
             u == Less(t, images)
  <2>1. DOMAIN s.refs = ImageHandles \cup CaptureHandles
    BY DEF Sound, SharedType
  <2>2. one \in [ImageHandles \cup CaptureHandles -> Int]
    BY <2>1
  <2>3. Sound(t)
    BY <2>2, SoundLess
  <2>4. ASSUME NEW g PROVE Cardinality({kind \in Kinds : t.inside[h][kind] = g}) \in Int
    <3>1. IsFiniteSet({kind \in Kinds : t.inside[h][kind] = g})
      BY HandlesAssumption, FS_Subset
    <3> QED
      BY <3>1, FS_CardinalityType
  <2>5. images \in [ImageHandles \cup CaptureHandles -> Int]
    BY <2>1, <2>4
  <2>6. Sound(u)
    BY <2>3, <2>5, SoundLess
  <2>7. Release(s, h) = IF h \in ImageHandles \/ t.refs[h] > 0 THEN t
                        ELSE [u EXCEPT !.inside[h] = [kind \in Kinds |-> nullptr]]
    BY <1>2 DEF Release
  <2> HIDE DEF t, u
  <2>8. CASE h \in ImageHandles \/ t.refs[h] > 0
    BY <2>3, <2>7, <2>8
  <2>9. CASE ~(h \in ImageHandles \/ t.refs[h] > 0)
    <3>1. h \in CaptureHandles
      BY <1>2, <2>9 DEF ImageRefs, CaptureRefs
    <3>2. [kind \in Kinds |-> nullptr] \in [Kinds -> ImageRefs]
      BY DEF ImageRefs
    <3>3. Sound([u EXCEPT !.inside[h] = [kind \in Kinds |-> nullptr]])
      BY <2>6, <3>1, <3>2, SetInside
    <3> QED
      BY <2>7, <2>9, <3>3
  <2> QED
    BY <2>8, <2>9
<1> QED
  BY <1>1, <1>2

LEMMA SoundMade ==
  ASSUME NEW s, Sound(s), NEW h \in ImageHandles \cup CaptureHandles
  PROVE  Sound(Made(s, h))
BY SMTT(30) DEF Sound, SharedType, Made

LEMMA SoundImage ==
  ASSUME NEW s, Sound(s), NEW h \in ImageHandles, NEW content \in Contents
  PROVE  Sound(Image(s, h, content))
<1>1. Sound(Made(s, h))
  BY SoundMade
<1> QED
  BY <1>1 DEF Image, Sound, SharedType

(* The methods of the classes.                                             *)
LEMMA HandleType ==
  ASSUME NEW s, Sound(s), NEW x \in Images \cup Captures
  PROVE  s.m_handle[x] \in ImageRefs \cup CaptureRefs /\ MayHave(x, nullptr)
BY DEF Sound, SharedType, MayHave, ImageRefs, CaptureRefs

LEMMA SoundReset ==
  ASSUME NEW s, Sound(s), NEW x \in Images \cup Captures
  PROVE  Sound(reset(s, x))
<1>1. Sound(Release(s, s.m_handle[x]))
  BY HandleType, SoundRelease
<1> QED
  BY <1>1, HandleType, SetHandle DEF reset

LEMMA SoundReturned ==
  ASSUME NEW s, Sound(s), NEW x, NEW h, MayHave(x, h)
  PROVE  Sound(Returned(s, x, h))
<1>1. Sound(reset(s, x))
  BY SoundReset DEF MayHave
<1> QED
  BY <1>1, SetHandle DEF Returned

SameClass(x, y) ==
  \/ x \in Images /\ y \in Images
  \/ x \in Captures /\ y \in Captures

LEMMA SoundCopied ==
  ASSUME NEW s, Sound(s), NEW x, NEW y, SameClass(x, y)
  PROVE  Sound(Copied(s, x, y))
<1>1. MayHave(x, s.m_handle[y]) /\ s.m_handle[y] \in ImageRefs \cup CaptureRefs
  BY HandlesAssumption DEF Sound, MayHave, SameClass
<1>2. Sound([s EXCEPT !.m_handle[x] = s.m_handle[y]])
  BY <1>1, SetHandle
<1> QED
  BY <1>1, <1>2, SoundReference DEF Copied

LEMMA SoundMoved ==
  ASSUME NEW s, Sound(s), NEW x, NEW y, SameClass(x, y)
  PROVE  Sound(Moved(s, x, y))
<1>1. MayHave(x, s.m_handle[y])
  BY HandlesAssumption DEF Sound, MayHave, SameClass
<1>2. Sound([s EXCEPT !.m_handle[x] = s.m_handle[y]])
  BY <1>1, SetHandle
<1>3. MayHave(y, nullptr)
  BY DEF MayHave, SameClass, ImageRefs, CaptureRefs
<1>4. Sound([[s EXCEPT !.m_handle[x] = s.m_handle[y]] EXCEPT !.m_handle[y] = nullptr])
  BY <1>2, <1>3, SetHandle
<1>5. Moved(s, x, y) = [[s EXCEPT !.m_handle[x] = s.m_handle[y]] EXCEPT !.m_handle[y] = nullptr]
  BY DEF Moved, Sound, SharedType
<1> QED
  BY <1>4, <1>5

(* What the library makes an image of.                                     *)
LEMMA AllocatedFits ==
  ASSUME NEW l \in LayoutType, Creatable(l)
  PROVE  Allocated(l, BytesPerPixel(l.format)) \in Contents
<1>1. Holds(l, BytesPerPixel(l.format), BufferSize(l))
  BY CreatedImageHoldsItsLines
<1>2. BufferSize(l) \in Int
  BY SizeIsLines DEF Creatable, Supported
<1>3. BytesPerPixel(l.format) \in Nat
  BY PixelType
<1> QED
  BY <1>1, <1>2, <1>3 DEF Allocated, Contents

LEMMA FramesOwnFit == \A frame \in Frames : frame.size \in Int /\ FitsItself(frame)
<1>1. ASSUME NEW m \in Modes
      PROVE  /\ m.format \in {MJPG, NV12, YUY2, BGRA32}
             /\ m.width \in Nat \ {0} /\ m.height \in Nat \ {0}
             /\ m.format = NV12 => m.height % 2 = 0
  BY HandlesAssumption
<1>2. ASSUME NEW format, NEW w \in Nat, NEW h \in Nat PROVE FrameBytes(format, w, h) \in Int
  <2>1. BytesPerPixel(format) * w * h \in Int /\ (3 * w * h) \div 2 \in Int /\ 1 \in Int
    BY PixelType
  <2> HIDE DEF BytesPerPixel
  <2>2. FrameBytes(format, w, h) \in {BytesPerPixel(format) * w * h, (3 * w * h) \div 2, 1}
    BY Zenon DEF FrameBytes
  <2> QED
    BY <2>1, <2>2
<1>3. ASSUME NEW m \in Modes
      PROVE  MfFrame(m.format, m.width, m.height).size \in Int
  BY <1>1, <1>2 DEF MfFrame
<1>4. ASSUME NEW m \in Modes, NEW input
      PROVE  UvcFrame(input, m.format, m.width, m.height).size \in Int
  BY <1>1, <1>2 DEF UvcFrame
<1>5. ASSUME NEW m \in Modes
      PROVE  /\ FitsItself(MfFrame(m.format, m.width, m.height))
             /\ m.format = BGRA32 => FitsItself(UvcFrame(MJPG, m.format, m.width, m.height))
             /\ m.format # BGRA32 => FitsItself(UvcFrame(m.format, m.format, m.width, m.height))
  BY <1>1, FramesFit
<1> QED
  BY <1>3, <1>4, <1>5 DEF Frames

LEMMA ContentOfType ==
  ASSUME Sound(shared), NEW x \in Images
  PROVE  ContentOf(x).layout \in LayoutType
<1>1. shared.m_handle[x] \in ImageRefs
  BY HandlesAssumption DEF Sound, MayHave
<1>2. ContentOf(x) \in Contents
  BY <1>1, BlankFits DEF ContentOf, Sound, SharedType, ImageRefs
<1> QED
  BY <1>2 DEF Contents

LEMMA ImageStepSound == Sound(shared) /\ ImageStep => Sound(shared')
<1> SUFFICES ASSUME Sound(shared), ImageStep PROVE Sound(shared')
  OBVIOUS
<1>1. ASSUME NEW x \in Images, NEW y \in Images,
             image_copy(x, y) \/ image_move(x, y) \/ image_assign(x, y) \/ image_move_assign(x, y)
      PROVE  Sound(shared')
  <2>1. SameClass(x, y)
    BY DEF SameClass
  <2>2. Sound(reset(shared, x))
    BY SoundReset
  <2> QED
    BY <1>1, <2>1, <2>2, SoundCopied, SoundMoved
       DEF image_copy, image_move, image_assign, image_move_assign
<1>2. ASSUME NEW x \in Images, image_reset(x) PROVE Sound(shared')
  BY <1>2, SoundReset DEF image_reset
<1>3. ASSUME NEW x \in Images, NEW l \in Layouts, image_create(x, l) PROVE Sound(shared')
  <2>1. l \in LayoutType /\ Creatable(l)
    BY <1>3, HandlesAssumption DEF image_create
  <2>2. PICK h \in ImageHandles :
          shared' = Returned(Image(shared, h, Allocated(l, BytesPerPixel(l.format))), x, h)
    BY <1>3 DEF image_create, Unused
  <2>3. MayHave(x, h)
    BY <2>2 DEF MayHave, ImageRefs
  <2>4. Sound(Image(shared, h, Allocated(l, BytesPerPixel(l.format))))
    BY <2>1, AllocatedFits, SoundImage
  <2> QED
    BY <2>2, <2>3, <2>4, SoundReturned
<1>4. ASSUME NEW x \in Images, NEW b \in Brought, image_create_from_buffer(x, b.layout, b.size)
      PROVE  Sound(shared')
  <2> DEFINE content == [layout |-> b.layout, pixel |-> BytesPerPixel(b.layout.format),
                         size |-> b.size, ours |-> FALSE]
  <2>1. b.layout \in LayoutType /\ b.size \in Int /\ BytesPerPixel(b.layout.format) \in Nat
    BY HandlesAssumption, PixelType
  <2>2. content \in Contents
    BY <2>1 DEF Contents
  <2>3. PICK h \in ImageHandles : shared' = Returned(Image(shared, h, content), x, h)
    BY <1>4 DEF image_create_from_buffer, Unused
  <2>4. MayHave(x, h)
    BY <2>3 DEF MayHave, ImageRefs
  <2>5. Sound(Image(shared, h, content))
    BY <2>2, SoundImage
  <2> QED
    BY <2>3, <2>4, <2>5, SoundReturned
<1> QED
  BY <1>1, <1>2, <1>3, <1>4 DEF ImageStep

(* A conversion: the image is returned, or released as the exception       *)
(* passes.                                                                 *)
LEMMA ConvertedSound ==
  ASSUME Sound(shared), NEW t, NEW x \in Images, NEW l, NEW pixel,
         Allocated(l, pixel) \in Contents, Converted(t, x, l, pixel)
  PROVE  Sound(shared')
<1>1. PICK h \in ImageHandles :
        \/ shared' = Returned(Image(shared, h, Allocated(l, pixel)), x, h)
        \/ shared' = Release(Image(shared, h, Allocated(l, pixel)), h)
  BY DEF Converted, Unused
<1>2. Sound(Image(shared, h, Allocated(l, pixel)))
  BY SoundImage
<1>3. MayHave(x, h) /\ h \in ImageRefs \cup CaptureRefs
  BY <1>1 DEF MayHave, ImageRefs
<1> QED
  BY <1>1, <1>2, <1>3, SoundReturned, SoundRelease

LEMMA ConversionLayouts ==
  ASSUME PixelsInv, NEW t \in Transformations, NEW x \in Images
  PROVE  /\ DepthInColor(t) \in LayoutType /\ DepthInColor(t).format = DEPTH16
         /\ ColorInDepth(t) \in LayoutType /\ ColorInDepth(t).format = BGRA32
         /\ CustomInColor(t, x) \in LayoutType
         /\ get_width_pixels(x) \in Int /\ get_height_pixels(x) \in Int
<1>1. /\ resolution[t].color.width \in Int /\ resolution[t].color.height \in Int
      /\ resolution[t].depth.width \in Int /\ resolution[t].depth.height \in Int
  BY DEF PixelsInv, Cameras, Resolution
<1>2. ContentOf(x).layout \in LayoutType
  BY ContentOfType DEF PixelsInv
<1>3. get_format(x) \in Formats /\ get_width_pixels(x) \in Int /\ get_height_pixels(x) \in Int
  BY <1>2 DEF get_format, get_width_pixels, get_height_pixels, LayoutType
<1>4. DepthInColor(t) \in LayoutType /\ DepthInColor(t).format = DEPTH16
  BY <1>1 DEF DepthInColor, Layout, LayoutType, Formats
<1>5. ColorInDepth(t) \in LayoutType /\ ColorInDepth(t).format = BGRA32
  BY <1>1 DEF ColorInDepth, Layout, LayoutType, Formats
<1>6. resolution[t].color.width * BytesPerPixel(get_format(x)) \in Int
  BY <1>1, PixelType
<1>7. CustomInColor(t, x) \in LayoutType
  BY <1>1, <1>3, <1>6 DEF CustomInColor, Layout, LayoutType
<1> QED
  BY <1>3, <1>4, <1>5, <1>7

(* What a conversion allocates holds what it writes.                       *)
LEMMA ConversionContents ==
  ASSUME PixelsInv, NEW t \in Transformations, NEW x \in Images
  PROVE  /\ Creatable(DepthInColor(t)) => Allocated(DepthInColor(t), BytesPerPixel(DEPTH16)) \in Contents
         /\ Creatable(ColorInDepth(t)) => Allocated(ColorInDepth(t), BytesPerPixel(BGRA32)) \in Contents
         /\ Creatable(CustomInColor(t, x)) =>
              Allocated(CustomInColor(t, x), BytesPerPixel(CustomInColor(t, x).format)) \in Contents
         /\ Creatable(PointCloud(x)) => Allocated(PointCloud(x), 6) \in Contents
<1>1. /\ Creatable(DepthInColor(t)) => Allocated(DepthInColor(t), BytesPerPixel(DEPTH16)) \in Contents
      /\ Creatable(ColorInDepth(t)) => Allocated(ColorInDepth(t), BytesPerPixel(BGRA32)) \in Contents
      /\ Creatable(CustomInColor(t, x)) =>
           Allocated(CustomInColor(t, x), BytesPerPixel(CustomInColor(t, x).format)) \in Contents
  BY ConversionLayouts, AllocatedFits
<1>2. ASSUME Creatable(PointCloud(x)) PROVE Allocated(PointCloud(x), 6) \in Contents
  <2> DEFINE w == get_width_pixels(x)
             h == get_height_pixels(x)
             l == Layout(CUSTOM, w, h, w * 3 * 2)
  <2>1. w \in Int /\ h \in Int
    BY ConversionLayouts
  <2>2. PointCloud(x) = l /\ Creatable(l)
    BY <1>2 DEF PointCloud
  <2> HIDE DEF w, h
  <2>3. Holds(l, 6, BufferSize(l))
    BY <2>1, <2>2, PointsFit
  <2>4. l \in LayoutType
    BY <2>1 DEF Layout, LayoutType, Formats
  <2>5. 0 < l.height /\ (l.format = NV12 => l.height % 2 = 0)
    BY <2>2 DEF Creatable, Supported
  <2> HIDE DEF l
  <2>6. BufferSize(l) \in Int
    BY <2>4, <2>5, SizeIsLines
  <2> QED
    BY <2>2, <2>3, <2>4, <2>6 DEF Allocated, Contents
<1> QED
  BY <1>1, <1>2

(* A conversion of one image makes an image of a layout that fits, or none *)
(* is left.                                                                *)
LEMMA ConversionOfOne ==
  ASSUME PixelsInv, NEW t \in Transformations, NEW x \in Images,
         \/ depth_image_to_color_camera(t, x)
         \/ color_image_to_depth_camera(t, x)
         \/ \E d \in Images : depth_image_to_point_cloud(t, x, d)
  PROVE  \E l, pixel : Allocated(l, pixel) \in Contents /\ Converted(t, x, l, pixel)
<1>1. CASE depth_image_to_color_camera(t, x)
  BY <1>1, ConversionContents DEF depth_image_to_color_camera, Converted
<1>2. CASE color_image_to_depth_camera(t, x)
  BY <1>2, ConversionContents DEF color_image_to_depth_camera, Converted
<1>3. ASSUME NEW d \in Images, depth_image_to_point_cloud(t, x, d)
      PROVE  \E l, pixel : Allocated(l, pixel) \in Contents /\ Converted(t, x, l, pixel)
  BY <1>3, ConversionContents DEF depth_image_to_point_cloud, Converted
<1> QED
  BY <1>1, <1>2, <1>3

(* A conversion of two makes both, or none is left.                        *)
LEMMA ConversionOfTwo ==
  ASSUME PixelsInv, NEW t \in Transformations, NEW x \in Images, NEW y \in Images,
         NEW custom \in Images, depth_image_to_color_camera_custom(t, x, y, custom)
  PROVE  \E g \in Unused(ImageHandles), depth \in Contents :
           \/ shared' = Release(Image(shared, g, depth), g)
           \/ \E h \in Unused(ImageHandles) \ {g}, second \in Contents :
                \/ shared' = Returned(Returned(Image(Image(shared, g, depth), h, second), x, g), y, h)
                \/ shared' = Release(Release(Image(Image(shared, g, depth), h, second), h), g)
<1> DEFINE depth == Allocated(DepthInColor(t), BytesPerPixel(DEPTH16))
           other == CustomInColor(t, custom)
           second == Allocated(other, BytesPerPixel(other.format))
<1>1. Creatable(DepthInColor(t))
  BY DEF depth_image_to_color_camera_custom
<1>2. depth \in Contents
  BY <1>1, ConversionContents
<1>3. PICK g \in Unused(ImageHandles) :
        \/ shared' = Release(Image(shared, g, depth), g)
        \/ /\ Creatable(other)
           /\ \E h \in Unused(ImageHandles) \ {g} :
                LET both == Image(Image(shared, g, depth), h, second)
                IN  \/ shared' = Returned(Returned(both, x, g), y, h)
                    \/ shared' = Release(Release(both, h), g)
  BY DEF depth_image_to_color_camera_custom
<1>4. Creatable(other) => second \in Contents
  BY ConversionContents
<1> HIDE DEF depth, other, second
<1> QED
  BY <1>2, <1>3, <1>4

LEMMA ConversionStepSound == PixelsInv /\ ConversionStep => Sound(shared')
<1> SUFFICES ASSUME PixelsInv, ConversionStep PROVE Sound(shared')
  OBVIOUS
<1>0. Sound(shared)
  BY DEF PixelsInv
<1>1. PICK t \in Transformations, x \in Images :
        \/ depth_image_to_color_camera(t, x)
        \/ \E y, custom \in Images : depth_image_to_color_camera_custom(t, x, y, custom)
        \/ color_image_to_depth_camera(t, x)
        \/ \E d \in Images : depth_image_to_point_cloud(t, x, d)
  BY DEF ConversionStep
<1>2. CASE \/ depth_image_to_color_camera(t, x)
           \/ color_image_to_depth_camera(t, x)
           \/ \E d \in Images : depth_image_to_point_cloud(t, x, d)
  BY <1>0, <1>1, <1>2, ConversionOfOne, ConvertedSound
<1>3. ASSUME NEW y \in Images, NEW custom \in Images,
             depth_image_to_color_camera_custom(t, x, y, custom)
      PROVE  Sound(shared')
  <2>1. PICK g \in ImageHandles, depth \in Contents :
          \/ shared' = Release(Image(shared, g, depth), g)
          \/ \E h \in ImageHandles, second \in Contents :
               \/ shared' = Returned(Returned(Image(Image(shared, g, depth), h, second), x, g), y, h)
               \/ shared' = Release(Release(Image(Image(shared, g, depth), h, second), h), g)
    BY <1>1, <1>3, ConversionOfTwo DEF Unused
  <2>2. Sound(Image(shared, g, depth)) /\ g \in ImageRefs \cup CaptureRefs
    BY <1>0, <2>1, SoundImage DEF ImageRefs
  <2>3. CASE shared' = Release(Image(shared, g, depth), g)
    BY <2>2, <2>3, SoundRelease
  <2>4. ASSUME NEW h \in ImageHandles, NEW second \in Contents,
               \/ shared' = Returned(Returned(Image(Image(shared, g, depth), h, second), x, g), y, h)
               \/ shared' = Release(Release(Image(Image(shared, g, depth), h, second), h), g)
        PROVE  Sound(shared')
    <3> DEFINE both == Image(Image(shared, g, depth), h, second)
    <3>1. Sound(both)
      BY <2>2, SoundImage
    <3>2. MayHave(x, g) /\ MayHave(y, h) /\ h \in ImageRefs \cup CaptureRefs
      BY <1>1, <2>1 DEF MayHave, ImageRefs
    <3> HIDE DEF both
    <3>3. Sound(Returned(both, x, g)) /\ Sound(Release(both, h))
      BY <3>1, <3>2, SoundReturned, SoundRelease
    <3>4. Sound(Returned(Returned(both, x, g), y, h)) /\ Sound(Release(Release(both, h), g))
      BY <2>2, <3>2, <3>3, SoundReturned, SoundRelease
    <3> QED
      BY <2>4, <3>4 DEF both
  <2> QED
    BY <2>1, <2>3, <2>4
<1> QED
  BY <1>1, <1>2, <1>3

LEMMA CaptureStepSound == Sound(shared) /\ CaptureStep => Sound(shared')
<1> SUFFICES ASSUME Sound(shared), CaptureStep PROVE Sound(shared')
  OBVIOUS
<1>1. ASSUME NEW x \in Captures, NEW y \in Captures,
             \/ capture_copy(x, y) \/ capture_move(x, y)
             \/ capture_assign(x, y) \/ capture_move_assign(x, y)
      PROVE  Sound(shared')
  <2>1. SameClass(x, y)
    BY DEF SameClass
  <2>2. Sound(reset(shared, x))
    BY SoundReset
  <2> QED
    BY <1>1, <2>1, <2>2, SoundCopied, SoundMoved
       DEF capture_copy, capture_move, capture_assign, capture_move_assign
<1>2. ASSUME NEW x \in Captures, capture_reset(x) PROVE Sound(shared')
  BY <1>2, SoundReset DEF capture_reset
<1>3. ASSUME NEW x \in Captures, capture_create(x) PROVE Sound(shared')
  <2>1. PICK h \in CaptureHandles : shared' = Returned(Made(shared, h), x, h)
    BY <1>3 DEF capture_create, Unused
  <2>2. Sound(Made(shared, h)) /\ MayHave(x, h)
    BY <2>1, SoundMade DEF MayHave, CaptureRefs
  <2> QED
    BY <2>1, <2>2, SoundReturned
<1>4. ASSUME NEW x \in Images, NEW k \in Captures, NEW kind \in Kinds, get_image(x, k, kind)
      PROVE  Sound(shared')
  <2>1. PICK found \in ImageRefs : shared' = Returned(Reference(shared, found), x, found)
    <3>1. shared.m_handle[k] \in CaptureRefs
      BY HandlesAssumption DEF Sound, MayHave
    <3> QED
      BY <1>4, <3>1 DEF get_image, Sound, SharedType, ImageRefs, CaptureRefs
  <2>2. Sound(Reference(shared, found)) /\ MayHave(x, found)
    BY <2>1, SoundReference DEF MayHave
  <2> QED
    BY <2>1, <2>2, SoundReturned
<1>5. ASSUME NEW x \in Images, NEW k \in Captures, NEW kind \in Kinds, set_image(k, x, kind)
      PROVE  Sound(shared')
  <2> DEFINE h == shared.m_handle[k]
             g == shared.m_handle[x]
             t == Reference(shared, g)
             u == Release(t, t.inside[h][kind])
  <2>1. h \in CaptureHandles /\ g \in ImageRefs
    BY <1>5, HandlesAssumption DEF set_image, Sound, MayHave, CaptureRefs
  <2>2. Sound(t)
    BY <2>1, SoundReference
  <2> HIDE DEF g, h, t
  <2>3. Sound(u)
    <3>1. t.inside[h][kind] \in ImageRefs
      BY <2>1, <2>2 DEF Sound, SharedType
    <3> QED
      BY <2>2, <3>1, SoundRelease
  <2>4. shared' = [u EXCEPT !.inside[h][kind] = g]
    BY <1>5 DEF set_image, g, h, t
  <2> HIDE DEF u
  <2> QED
    BY <2>1, <2>3, <2>4 DEF Sound, SharedType
<1>6. ASSUME NEW d \in Devices, NEW k \in Captures, get_capture(d, k) PROVE Sound(shared')
  <2>1. PICK h \in CaptureHandles, g \in ImageHandles, frame \in Frames :
          LET content == [layout |-> frame.layout, pixel |-> BytesPerPixel(frame.layout.format),
                          size |-> frame.size, ours |-> TRUE]
              made == [Made(Image(shared, g, content), h) EXCEPT !.inside[h][ColorKind] = g]
          IN  shared' = Returned(made, k, h)
    BY <1>6 DEF get_capture, Unused
  <2> DEFINE content == [layout |-> frame.layout, pixel |-> BytesPerPixel(frame.layout.format),
                         size |-> frame.size, ours |-> TRUE]
             t == Made(Image(shared, g, content), h)
             made == [t EXCEPT !.inside[h][ColorKind] = g]
  <2>2. content \in Contents
    BY <2>1, FramesOwnFit, PixelType DEF Contents, FitsItself
  <2>3. Sound(t)
    BY <2>1, <2>2, SoundImage, SoundMade
  <2>4. shared' = Returned(made, k, h)
    BY <2>1
  <2> HIDE DEF t
  <2>5. Sound(made)
    BY <2>1, <2>3, HandlesAssumption DEF Sound, SharedType, ImageRefs
  <2>6. MayHave(k, h)
    BY <2>1 DEF MayHave, CaptureRefs
  <2> QED
    BY <2>4, <2>5, <2>6, SoundReturned
<1> QED
  BY <1>1, <1>2, <1>3, <1>4, <1>5, <1>6 DEF CaptureStep

LEMMA PixelsInit == Init => PixelsInv
<1> SUFFICES ASSUME Init PROVE PixelsInv
  OBVIOUS
<1>1. Sound(shared)
  BY BlankFits DEF Init, Sound, SharedType, MayHave, ImageRefs, CaptureRefs
<1>2. resolution \in [Transformations -> Cameras]
  BY HandlesAssumption DEF Init, Cameras
<1> QED
  BY <1>1, <1>2 DEF PixelsInv

LEMMA PixelsStep == PixelsInv /\ [Next]_vars => PixelsInv'
<1> SUFFICES ASSUME PixelsInv, [Next]_vars PROVE PixelsInv'
  OBVIOUS
<1>1. Sound(shared')
  <2>1. CASE UNCHANGED shared
    BY <2>1 DEF PixelsInv
  <2> QED
    BY <2>1, ImageStepSound, ConversionStepSound, CaptureStepSound DEF PixelsInv, Next, vars
<1>2. resolution' \in [Transformations -> Cameras]
  <2>1. ASSUME NEW x \in Transformations, transformation_create(x)
        PROVE  resolution' \in [Transformations -> Cameras]
    BY <2>1, HandlesAssumption DEF transformation_create, PixelsInv, Cameras
  <2>2. ASSUME NEW x \in Transformations, NEW y \in Transformations,
               transformation_move_assign(x, y)
        PROVE  resolution' \in [Transformations -> Cameras]
    BY <2>2 DEF transformation_move_assign, PixelsInv
  <2>3. CASE TransformationStep
    BY <2>1, <2>2, <2>3 DEF TransformationStep, transformation_destroy, PixelsInv
  <2> QED
    BY <2>3 DEF Next, vars, PixelsInv
<1> QED
  BY <1>1, <1>2 DEF PixelsInv, Sound

(* Every line of an image whose buffer the library chose lies in that      *)
(* buffer: images of image_create of any layout it accepts, the outputs of *)
(* the conversions for any resolutions, initialised or not, and the frames *)
(* of the color camera in any mode.                                        *)
THEOREM PixelsStayInBuffers == Spec => []PixelsInBuffer
<1>1. Init => PixelsInv
  BY PixelsInit
<1>2. PixelsInv /\ [Next]_vars => PixelsInv'
  BY PixelsStep
<1>3. PixelsInv => PixelsInBuffer
  BY DEF PixelsInv, Sound, SharedType, Contents, PixelsInBuffer
<1> QED
  BY <1>1, <1>2, <1>3, PTL DEF Spec

-----------------------------------------------------------------------------
(* The counts.  In the middle of a method a handle may have a reference    *)
(* that no object and no capture holds yet, or the other way round: Extra  *)
(* is what the count has too much, and each of the functions shifts it by  *)
(* the handles it gives and takes.  Between two methods it is 0.  The      *)
(* images inside a capture are released with its last reference only if a  *)
(* capture without references has none, so that is in the invariant too.   *)

Handles == ImageHandles \cup CaptureHandles

Objects(s, h) == {x \in Images \cup Captures : s.m_handle[x] = h}
Places(s, h) == {p \in CaptureHandles \X Kinds : s.inside[p[1]][p[2]] = h}

Extra(s, h) == s.refs[h] - (Cardinality(Objects(s, h)) + Cardinality(Places(s, h)))

Emptied(s) ==
  \A k \in CaptureHandles :
    s.refs[k] <= 0 => \A kind \in Kinds : s.inside[k][kind] = nullptr

Proper(s) == Sound(s) /\ Emptied(s)

Is(h, g) == IF h = g THEN 1 ELSE 0

(* From s to t one reference to the first handle came in, and one to the   *)
(* second went; nullptr is no handle.                                      *)
Shifts(s, t, in, out) ==
  /\ Proper(t)
  /\ \A g \in Handles : Extra(t, g) = Extra(s, g) + (Is(in, g) - Is(out, g))

LEMMA IsType == \A h, g : Is(h, g) \in {0, 1}
BY DEF Is

LEMMA FiniteUses ==
  ASSUME NEW s, NEW h
  PROVE  /\ IsFiniteSet(Objects(s, h)) /\ Cardinality(Objects(s, h)) \in Nat
         /\ IsFiniteSet(Places(s, h)) /\ Cardinality(Places(s, h)) \in Nat
         /\ IsFiniteSet(Images \cup Captures) /\ IsFiniteSet(CaptureHandles \X Kinds)
<1>1. IsFiniteSet(Images \cup Captures) /\ IsFiniteSet(CaptureHandles \X Kinds)
  BY HandlesAssumption, FS_Union, FS_Product
<1>2. Objects(s, h) \in SUBSET (Images \cup Captures)
  BY DEF Objects
<1>3. Places(s, h) \in SUBSET (CaptureHandles \X Kinds)
  BY DEF Places
<1>4. IsFiniteSet(Objects(s, h)) /\ IsFiniteSet(Places(s, h))
  BY <1>1, <1>2, <1>3, FS_Subset
<1> QED
  BY <1>1, <1>4, FS_CardinalityType

LEMMA ExtraType ==
  ASSUME NEW s, Sound(s), NEW h \in Handles
  PROVE  Extra(s, h) \in Int /\ s.refs[h] \in Int
<1>1. s.refs[h] \in Int
  BY DEF Sound, SharedType, Handles
<1> QED
  BY <1>1, FiniteUses DEF Extra

(* A table of which one entry changes.                                     *)
LEMMA OneChanges ==
  ASSUME NEW D, IsFiniteSet(D), NEW e \in D, NEW old, NEW new, NEW g,
         NEW S \in SUBSET D, NEW T \in SUBSET D,
         \A i \in D : i # e => (i \in T <=> i \in S),
         e \in S <=> old = g, e \in T <=> new = g
  PROVE  Cardinality(T) = Cardinality(S) + (Is(new, g) - Is(old, g))
<1>1. IsFiniteSet(S) /\ IsFiniteSet(T)
  BY FS_Subset
<1>2. Cardinality(S) \in Nat /\ Cardinality(T) \in Nat
  BY <1>1, FS_CardinalityType
<1>3. S \ {e} = T \ {e}
  OBVIOUS
<1>4. Cardinality(S \ {e}) = Cardinality(S) - Is(old, g)
  <2>1. Cardinality(S \ {e}) = IF e \in S THEN Cardinality(S) - 1 ELSE Cardinality(S)
    BY <1>1, FS_RemoveElement
  <2> QED
    BY <1>2, <2>1 DEF Is
<1>5. Cardinality(T \ {e}) = Cardinality(T) - Is(new, g)
  <2>1. Cardinality(T \ {e}) = IF e \in T THEN Cardinality(T) - 1 ELSE Cardinality(T)
    BY <1>1, FS_RemoveElement
  <2> QED
    BY <1>2, <2>1 DEF Is
<1>6. Cardinality(S) - Is(old, g) = Cardinality(T) - Is(new, g)
  BY <1>3, <1>4, <1>5, Zenon
<1>7. Is(old, g) \in Int /\ Is(new, g) \in Int
  BY DEF Is
<1> QED
  BY <1>2, <1>6, <1>7

(* An object gets another handle.                                          *)
LEMMA SetHandleShifts ==
  ASSUME NEW s, Proper(s), NEW x, NEW h, MayHave(x, h)
  PROVE  Shifts(s, [s EXCEPT !.m_handle[x] = h], s.m_handle[x], h)
<1> DEFINE t == [s EXCEPT !.m_handle[x] = h]
<1>1. Sound(t)
  BY SetHandle DEF Proper
<1>2. t.refs = s.refs /\ t.inside = s.inside /\ x \in Images \cup Captures
  BY DEF Proper, Sound, SharedType, MayHave
<1>3. t.m_handle[x] = h /\ \A i \in Images \cup Captures : i # x => t.m_handle[i] = s.m_handle[i]
  BY <1>2 DEF Proper, Sound, SharedType
<1> HIDE DEF t
<1>4. Emptied(t)
  BY <1>2 DEF Proper, Emptied
<1>5. ASSUME NEW g \in Handles
      PROVE  Extra(t, g) = Extra(s, g) + (Is(s.m_handle[x], g) - Is(h, g))
  <2>1. Places(t, g) = Places(s, g)
    BY <1>2 DEF Places
  <2>2. Cardinality(Objects(t, g)) = Cardinality(Objects(s, g)) + (Is(h, g) - Is(s.m_handle[x], g))
    <3>1. /\ Objects(s, g) \in SUBSET (Images \cup Captures)
          /\ Objects(t, g) \in SUBSET (Images \cup Captures)
          /\ \A i \in Images \cup Captures : i # x => (i \in Objects(t, g) <=> i \in Objects(s, g))
          /\ x \in Objects(s, g) <=> s.m_handle[x] = g
          /\ x \in Objects(t, g) <=> h = g
      BY <1>2, <1>3 DEF Objects
    <3> QED
      BY <1>2, <3>1, FiniteUses, OneChanges
  <2>3. s.refs[g] \in Int /\ t.refs[g] = s.refs[g]
    BY <1>2, ExtraType DEF Proper
  <2> QED
    BY <2>1, <2>2, <2>3, FiniteUses, IsType DEF Extra
<1> QED
  BY <1>1, <1>4, <1>5 DEF Shifts, Proper, t

(* A capture that is in use gets another image.                            *)
LEMMA SetPlaceShifts ==
  ASSUME NEW s, Proper(s), NEW k \in CaptureHandles, NEW kind \in Kinds, NEW h \in ImageRefs,
         s.refs[k] > 0
  PROVE  Shifts(s, [s EXCEPT !.inside[k][kind] = h], s.inside[k][kind], h)
<1> DEFINE t == [s EXCEPT !.inside[k][kind] = h]
           images == [s.inside[k] EXCEPT ![kind] = h]
<1>1. s.inside \in [CaptureHandles -> [Kinds -> ImageRefs]] /\ s \in SharedType
  BY DEF Proper, Sound, SharedType
<1>2. images \in [Kinds -> ImageRefs]
  BY <1>1
<1>3. t = [s EXCEPT !.inside[k] = images]
  BY <1>1 DEF SharedType
<1>4. Sound(t)
  BY <1>2, <1>3, SetInside DEF Proper
<1>5. t.refs = s.refs /\ t.m_handle = s.m_handle
  BY <1>1 DEF SharedType
<1>6. /\ t.inside[k][kind] = h
      /\ \A j \in CaptureHandles, o \in Kinds : j # k \/ o # kind => t.inside[j][o] = s.inside[j][o]
  BY <1>1 DEF SharedType
<1> HIDE DEF t
<1>7. Emptied(t)
  <2>1. s.refs[k] \in Int
    BY <1>1 DEF SharedType
  <2>2. ASSUME NEW j \in CaptureHandles, t.refs[j] <= 0, NEW o \in Kinds
        PROVE  t.inside[j][o] = nullptr
    <3>1. j # k /\ s.refs[j] <= 0
      BY <1>5, <2>1, <2>2
    <3>2. t.inside[j][o] = s.inside[j][o]
      BY <1>6, <3>1
    <3> QED
      BY <3>1, <3>2 DEF Proper, Emptied
  <2> QED
    BY <2>2 DEF Emptied
<1>8. ASSUME NEW g \in Handles
      PROVE  Extra(t, g) = Extra(s, g) + (Is(s.inside[k][kind], g) - Is(h, g))
  <2>1. Objects(t, g) = Objects(s, g)
    BY <1>5 DEF Objects
  <2>2. Cardinality(Places(t, g)) = Cardinality(Places(s, g)) + (Is(h, g) - Is(s.inside[k][kind], g))
    <3> DEFINE D == CaptureHandles \X Kinds
    <3>1. PICK e \in D : e = <<k, kind>>
      OBVIOUS
    <3>2. Places(s, g) \in SUBSET D /\ Places(t, g) \in SUBSET D /\ IsFiniteSet(D)
      BY FiniteUses DEF Places
    <3>3. (e \in Places(s, g) <=> s.inside[k][kind] = g) /\ (e \in Places(t, g) <=> h = g)
      BY <1>6, <3>1 DEF Places
    <3>4. ASSUME NEW p \in D, p # e
          PROVE  p \in Places(t, g) <=> p \in Places(s, g)
      <4>1. p[1] \in CaptureHandles /\ p[2] \in Kinds /\ (p[1] # k \/ p[2] # kind)
        BY <3>1, <3>4
      <4>2. t.inside[p[1]][p[2]] = s.inside[p[1]][p[2]]
        BY <1>6, <4>1
      <4> QED
        BY <4>2 DEF Places
    <3> HIDE DEF D
    <3> QED
      BY <3>2, <3>3, <3>4, OneChanges
  <2>3. s.refs[g] \in Int /\ t.refs[g] = s.refs[g]
    BY <1>5, ExtraType DEF Proper
  <2> QED
    BY <2>1, <2>2, <2>3, FiniteUses, IsType DEF Extra
<1> QED
  BY <1>4, <1>7, <1>8 DEF Shifts, Proper, t

(* Only the counts change.                                                 *)
LEMMA SetCount ==
  ASSUME NEW s, Proper(s), NEW t, Sound(t), NEW h \in Handles, NEW n \in Int,
         t.m_handle = s.m_handle, t.inside = s.inside,
         t.refs = [s.refs EXCEPT ![h] = n]
  PROVE  /\ \A g \in Handles : Extra(t, g) = Extra(s, g) + (IF g = h THEN n - s.refs[h] ELSE 0)
         /\ (n > 0 \/ s.refs[h] <= 0 \/ h \in ImageHandles) => Emptied(t)
<1>1. s.refs \in [Handles -> Int]
  BY DEF Proper, Sound, SharedType, Handles
<1>2. ASSUME NEW g \in Handles
      PROVE  Extra(t, g) = Extra(s, g) + (IF g = h THEN n - s.refs[h] ELSE 0)
  <2>1. Objects(t, g) = Objects(s, g) /\ Places(t, g) = Places(s, g)
    BY DEF Objects, Places
  <2>2. s.refs[g] \in Int /\ t.refs[g] = IF g = h THEN n ELSE s.refs[g]
    BY <1>1
  <2> QED
    BY <2>1, <2>2, FiniteUses DEF Extra
<1>3. ASSUME n > 0 \/ s.refs[h] <= 0 \/ h \in ImageHandles PROVE Emptied(t)
  <2>1. ASSUME NEW k \in CaptureHandles, t.refs[k] <= 0 PROVE s.refs[k] <= 0
    <3>1. CASE k = h
      BY <1>1, <1>3, <2>1, <3>1, HandlesAssumption
    <3>2. CASE k # h
      BY <1>1, <2>1, <3>2
    <3> QED
      BY <3>1, <3>2
  <2> QED
    BY <2>1 DEF Proper, Emptied
<1> QED
  BY <1>2, <1>3

LEMMA NoHandle == \A g \in Handles : g # nullptr /\ Is(nullptr, g) = 0
BY HandlesAssumption DEF Handles, Is

LEMMA Still ==
  ASSUME NEW s, Proper(s)
  PROVE  Shifts(s, s, nullptr, nullptr)
BY NoHandle, ExtraType DEF Shifts, Proper

LEMMA ReferenceShifts ==
  ASSUME NEW s, Proper(s), NEW h \in ImageRefs \cup CaptureRefs
  PROVE  Shifts(s, Reference(s, h), h, nullptr)
<1>1. CASE h = nullptr
  BY <1>1, Still DEF Reference
<1>2. CASE h # nullptr
  <2> DEFINE t == Reference(s, h)
  <2>1. h \in Handles
    BY <1>2 DEF Handles, ImageRefs, CaptureRefs
  <2>2. s.refs \in [Handles -> Int] /\ s \in SharedType
    BY DEF Proper, Sound, SharedType, Handles
  <2>3. Sound(t)
    BY SoundReference DEF Proper
  <2>4. t.m_handle = s.m_handle /\ t.inside = s.inside /\ t.refs = [s.refs EXCEPT ![h] = s.refs[h] + 1]
    BY <1>2, <2>2 DEF Reference, SharedType
  <2>5. s.refs[h] + 1 \in Int /\ s.refs[h] \in Int
    BY <2>1, <2>2
  <2>6. s.refs[h] + 1 > 0 \/ s.refs[h] <= 0
    BY <2>5
  <2> HIDE DEF t
  <2>7. /\ \A g \in Handles : Extra(t, g) = Extra(s, g) + (IF g = h THEN (s.refs[h] + 1) - s.refs[h] ELSE 0)
        /\ Emptied(t)
    BY <2>1, <2>3, <2>4, <2>5, <2>6, SetCount
  <2>8. \A g \in Handles : Extra(t, g) = Extra(s, g) + (Is(h, g) - Is(nullptr, g))
    BY <2>5, <2>7, NoHandle DEF Is
  <2> QED
    BY <2>3, <2>7, <2>8 DEF Shifts, Proper, t
<1> QED
  BY <1>1, <1>2

(* A handle nobody had.                                                    *)
LEMMA MadeShifts ==
  ASSUME NEW s, Proper(s), NEW h \in Handles, s.refs[h] = 0
  PROVE  Shifts(s, Made(s, h), h, nullptr) /\ Made(s, h).refs[h] = 1
<1> DEFINE t == Made(s, h)
<1>1. s.refs \in [Handles -> Int] /\ s \in SharedType
  BY DEF Proper, Sound, SharedType, Handles
<1>2. Sound(t)
  BY SoundMade DEF Proper, Handles
<1>3. t.m_handle = s.m_handle /\ t.inside = s.inside /\ t.refs = [s.refs EXCEPT ![h] = 1]
  BY <1>1 DEF Made, SharedType
<1> HIDE DEF t
<1>4. /\ \A g \in Handles : Extra(t, g) = Extra(s, g) + (IF g = h THEN 1 - s.refs[h] ELSE 0)
      /\ Emptied(t)
  BY <1>2, <1>3, SetCount
<1>5. \A g \in Handles : Extra(t, g) = Extra(s, g) + (Is(h, g) - Is(nullptr, g))
  BY <1>4, NoHandle DEF Is
<1> QED
  BY <1>1, <1>2, <1>3, <1>4, <1>5 DEF Shifts, Proper, t

LEMMA ImageShifts ==
  ASSUME NEW s, Proper(s), NEW h \in ImageHandles, s.refs[h] = 0, NEW content \in Contents
  PROVE  /\ Shifts(s, Image(s, h, content), h, nullptr)
         /\ Image(s, h, content).inside = s.inside
         /\ \A g \in Handles \ {h} : Image(s, h, content).refs[g] = s.refs[g]
<1> DEFINE t == Made(s, h)
           u == Image(s, h, content)
<1>1. Shifts(s, t, h, nullptr) /\ Sound(t)
  BY MadeShifts DEF Handles, Shifts, Proper
<1>2. t.inside = s.inside /\ \A g \in Handles \ {h} : t.refs[g] = s.refs[g]
  BY DEF Made, Proper, Sound, SharedType, Handles
<1>3. u = [t EXCEPT !.content[h] = content]
  BY DEF Image
<1>4. Sound(u)
  BY SoundImage DEF Proper
<1> HIDE DEF t, u
<1>5. u.m_handle = t.m_handle /\ u.inside = t.inside /\ u.refs = t.refs
  BY <1>1, <1>3 DEF Sound, SharedType
<1>6. Emptied(u) /\ \A g \in Handles : Extra(u, g) = Extra(t, g)
  BY <1>1, <1>5 DEF Shifts, Proper, Emptied, Extra, Objects, Places
<1>7. Shifts(s, u, h, nullptr)
  BY <1>1, <1>4, <1>6 DEF Shifts, Proper
<1> QED
  BY <1>2, <1>5, <1>7 DEF u

LEMMA LessFacts ==
  ASSUME NEW s, Sound(s), NEW uses \in [Handles -> Int]
  PROVE  /\ Sound(Less(s, uses))
         /\ Less(s, uses).m_handle = s.m_handle /\ Less(s, uses).inside = s.inside
         /\ \A g \in Handles : Less(s, uses).refs[g] = s.refs[g] - uses[g]
<1>1. Sound(Less(s, uses))
  BY SoundLess DEF Handles
<1>2. DOMAIN s.refs = Handles /\ s \in SharedType
  BY DEF Sound, SharedType, Handles
<1>3. Less(s, uses).m_handle = s.m_handle /\ Less(s, uses).inside = s.inside
  BY <1>2 DEF Less, SharedType
<1>4. Less(s, uses).refs = [h \in DOMAIN s.refs |-> s.refs[h] - uses[h]]
  BY <1>2 DEF Less, SharedType
<1> QED
  BY <1>1, <1>2, <1>3, <1>4

(* A reference of an image, or not the last one of a capture.              *)
LEMMA LessOneShifts ==
  ASSUME NEW s, Proper(s), NEW h \in Handles, NEW t, Sound(t),
         t.m_handle = s.m_handle, t.inside = s.inside,
         \A g \in Handles : t.refs[g] = s.refs[g] - Is(h, g),
         h \in ImageHandles \/ t.refs[h] > 0
  PROVE  Shifts(s, t, nullptr, h)
<1>1. \A g \in Handles : s.refs[g] \in Int /\ t.refs[g] \in Int
  BY ExtraType DEF Proper
<1>2. ASSUME NEW g \in Handles PROVE Extra(t, g) = Extra(s, g) + (Is(nullptr, g) - Is(h, g))
  <2>1. Objects(t, g) = Objects(s, g) /\ Places(t, g) = Places(s, g)
    BY DEF Objects, Places
  <2>2. t.refs[g] = s.refs[g] - Is(h, g)
    OBVIOUS
  <2> QED
    BY <1>1, <2>1, <2>2, FiniteUses, IsType, NoHandle DEF Extra
<1>3. ASSUME NEW k \in CaptureHandles, t.refs[k] <= 0 PROVE s.refs[k] <= 0
  <2>1. k # h /\ k \in Handles
    BY <1>1, <1>3, HandlesAssumption DEF Handles
  <2>2. t.refs[k] = s.refs[k] - Is(h, k) /\ Is(h, k) = 0
    BY <2>1 DEF Is
  <2> QED
    BY <1>1, <1>3, <2>1, <2>2
<1>4. Emptied(t)
  BY <1>3 DEF Proper, Emptied
<1> QED
  BY <1>2, <1>4 DEF Shifts, Proper

(* The last reference of a capture: its images are released as well.       *)
Inside(s, k, g) == {kind \in Kinds : s.inside[k][kind] = g}

LEMMA PlacesOfOthers ==
  ASSUME NEW s, Sound(s), NEW k \in CaptureHandles, NEW t, NEW g \in Handles,
         \A j \in CaptureHandles \ {k} : t.inside[j] = s.inside[j],
         t.inside[k] = [kind \in Kinds |-> nullptr]
  PROVE  /\ Cardinality(Places(t, g)) = Cardinality(Places(s, g)) - Cardinality(Inside(s, k, g))
         /\ Cardinality(Inside(s, k, g)) \in Nat
<1> DEFINE its == {k} \X Inside(s, k, g)
<1>1. IsFiniteSet(Inside(s, k, g))
  BY HandlesAssumption, FS_Subset DEF Inside
<1>2. Cardinality(Inside(s, k, g)) \in Nat
  BY <1>1, FS_CardinalityType
<1>3. Cardinality(its) = Cardinality(Inside(s, k, g))
  <2>1. IsFiniteSet({k}) /\ Cardinality({k}) = 1
    BY FS_Singleton
  <2>2. Cardinality(its) = Cardinality({k}) * Cardinality(Inside(s, k, g))
    BY <1>1, <2>1, FS_Product
  <2> QED
    BY <1>2, <2>1, <2>2
<1>4. Places(s, g) \cap its = its
  BY DEF Places, Inside
<1>5. Places(t, g) = Places(s, g) \ its
  <2>1. ASSUME NEW p \in CaptureHandles \X Kinds
        PROVE  p \in Places(t, g) <=> p \in Places(s, g) /\ p \notin its
    <3>1. PICK j \in CaptureHandles, kind \in Kinds : p = <<j, kind>>
      OBVIOUS
    <3>2. CASE j = k
      <4>1. t.inside[j][kind] # g
        BY <3>2, NoHandle
      <4> QED
        BY <3>1, <3>2, <4>1 DEF Places, Inside
    <3>3. CASE j # k
      BY <3>1, <3>3 DEF Places
    <3> QED
      BY <3>2, <3>3
  <2> QED
    BY <2>1 DEF Places
<1>6. Cardinality(Places(s, g) \ its) = Cardinality(Places(s, g)) - Cardinality(Places(s, g) \cap its)
  BY FiniteUses, FS_Difference
<1> QED
  BY <1>2, <1>3, <1>4, <1>5, <1>6

LEMMA DiesShifts ==
  ASSUME NEW s, Proper(s), NEW h \in CaptureHandles, NEW t, Sound(t), t.m_handle = s.m_handle,
         \A j \in CaptureHandles \ {h} : t.inside[j] = s.inside[j],
         t.inside[h] = [kind \in Kinds |-> nullptr],
         \A g \in Handles : t.refs[g] = (s.refs[g] - Is(h, g)) - Cardinality(Inside(s, h, g))
  PROVE  Shifts(s, t, nullptr, h)
<1>1. \A g \in Handles : s.refs[g] \in Int /\ t.refs[g] \in Int
  BY ExtraType DEF Proper
<1>2. ASSUME NEW g \in Handles PROVE Extra(t, g) = Extra(s, g) + (Is(nullptr, g) - Is(h, g))
  <2>1. Objects(t, g) = Objects(s, g)
    BY DEF Objects
  <2>2. /\ Cardinality(Places(t, g)) = Cardinality(Places(s, g)) - Cardinality(Inside(s, h, g))
        /\ Cardinality(Inside(s, h, g)) \in Nat
    BY PlacesOfOthers DEF Proper
  <2>3. t.refs[g] = (s.refs[g] - Is(h, g)) - Cardinality(Inside(s, h, g))
    OBVIOUS
  <2> QED
    BY <1>1, <2>1, <2>2, <2>3, FiniteUses, IsType, NoHandle DEF Extra
<1>3. ASSUME NEW k \in CaptureHandles, t.refs[k] <= 0, NEW kind \in Kinds
      PROVE  t.inside[k][kind] = nullptr
  <2>1. CASE k = h
    BY <2>1
  <2>2. CASE k # h
    <3>1. Inside(s, h, k) = {} /\ k \in Handles
      BY HandlesAssumption DEF Inside, Proper, Sound, SharedType, ImageRefs, Handles
    <3>2. Cardinality(Inside(s, h, k)) = 0 /\ Is(h, k) = 0
      BY <2>2, <3>1, FS_EmptySet DEF Is
    <3>3. t.refs[k] = (s.refs[k] - Is(h, k)) - Cardinality(Inside(s, h, k))
      BY <3>1
    <3>4. s.refs[k] <= 0
      BY <1>1, <1>3, <3>1, <3>2, <3>3
    <3> QED
      BY <2>2, <3>4 DEF Proper, Emptied
  <2> QED
    BY <2>1, <2>2
<1>4. Emptied(t)
  BY <1>3 DEF Emptied
<1> QED
  BY <1>2, <1>4 DEF Shifts, Proper

LEMMA ReleaseShifts ==
  ASSUME NEW s, Proper(s), NEW h \in ImageRefs \cup CaptureRefs
  PROVE  /\ Shifts(s, Release(s, h), nullptr, h)
         /\ Release(s, h).m_handle = s.m_handle
         /\ h \in ImageRefs => /\ Release(s, h).inside = s.inside
                               /\ \A k \in CaptureHandles : Release(s, h).refs[k] = s.refs[k]
<1>1. CASE h = nullptr
  BY <1>1, Still DEF Release
<1>2. CASE h # nullptr
  <2> DEFINE one == [g \in DOMAIN s.refs |-> IF g = h THEN 1 ELSE 0]
             t == Less(s, one)
             images == [g \in DOMAIN s.refs |-> Cardinality({kind \in Kinds : t.inside[h][kind] = g})]
             u == Less(t, images)
             v == [u EXCEPT !.inside[h] = [kind \in Kinds |-> nullptr]]
  <2>0. h \in Handles /\ Sound(s)
    BY <1>2 DEF Handles, ImageRefs, CaptureRefs, Proper
  <2>1. DOMAIN s.refs = Handles /\ \A g \in Handles : s.refs[g] \in Int
    BY <2>0 DEF Sound, SharedType, Handles
  <2>2. one \in [Handles -> Int] /\ \A g \in Handles : one[g] = Is(h, g)
    BY <2>1 DEF Is
  <2> HIDE DEF one
  <2>3. /\ Sound(t) /\ t.m_handle = s.m_handle /\ t.inside = s.inside
        /\ \A g \in Handles : t.refs[g] = s.refs[g] - Is(h, g)
    BY <2>0, <2>2, LessFacts
  <2>4. Release(s, h) = IF h \in ImageHandles \/ t.refs[h] > 0 THEN t ELSE v
    BY <1>2 DEF Release, one
  <2> HIDE DEF t
  <2>5. CASE h \in ImageHandles \/ t.refs[h] > 0
    <3>1. Shifts(s, t, nullptr, h) /\ Release(s, h) = t
      BY <2>0, <2>3, <2>4, <2>5, LessOneShifts
    <3>2. ASSUME h \in ImageRefs, NEW k \in CaptureHandles PROVE t.refs[k] = s.refs[k]
      <4>1. k \in Handles /\ Is(h, k) = 0
        BY <3>2, HandlesAssumption DEF Handles, Is, ImageRefs
      <4> QED
        BY <2>1, <2>3, <4>1
    <3> QED
      BY <2>3, <3>1, <3>2
  <2>6. CASE ~(h \in ImageHandles \/ t.refs[h] > 0)
    <3>1. h \in CaptureHandles /\ h \notin ImageRefs
      BY <1>2, <2>0, <2>6 DEF ImageRefs, Handles
    <3>2. ASSUME NEW g PROVE Cardinality({kind \in Kinds : t.inside[h][kind] = g}) \in Int
      <4>1. IsFiniteSet({kind \in Kinds : t.inside[h][kind] = g})
        BY HandlesAssumption, FS_Subset
      <4> QED
        BY <4>1, FS_CardinalityType
    <3>3. /\ images \in [Handles -> Int]
          /\ \A g \in Handles : images[g] = Cardinality(Inside(s, h, g))
      BY <2>1, <2>3, <3>2 DEF Inside
    <3> HIDE DEF images
    <3>4. /\ Sound(u) /\ u.m_handle = t.m_handle /\ u.inside = t.inside
          /\ \A g \in Handles : u.refs[g] = t.refs[g] - images[g]
      BY <2>3, <3>3, LessFacts
    <3> HIDE DEF u
    <3>5. [kind \in Kinds |-> nullptr] \in [Kinds -> ImageRefs]
      BY DEF ImageRefs
    <3>6. Sound(v)
      BY <3>1, <3>4, <3>5, SetInside
    <3>7. /\ v.m_handle = u.m_handle /\ v.refs = u.refs
          /\ v.inside[h] = [kind \in Kinds |-> nullptr]
          /\ \A j \in CaptureHandles \ {h} : v.inside[j] = u.inside[j]
      BY <3>1, <3>4 DEF Sound, SharedType
    <3> HIDE DEF v
    <3>8. \A g \in Handles : v.refs[g] = (s.refs[g] - Is(h, g)) - Cardinality(Inside(s, h, g))
      BY <2>3, <3>3, <3>4, <3>7
    <3>9. Shifts(s, v, nullptr, h)
      BY <2>3, <3>1, <3>4, <3>6, <3>7, <3>8, DiesShifts
    <3> QED
      BY <2>3, <2>4, <2>6, <3>1, <3>4, <3>7, <3>9
  <2> QED
    BY <2>5, <2>6
<1> QED
  BY <1>1, <1>2

(* One after the other: what comes in and goes out again cancels.          *)
LEMMA Chains ==
  ASSUME NEW s, Sound(s), NEW t, NEW u, NEW a, NEW b, NEW c, NEW d,
         Shifts(s, t, a, b), Shifts(t, u, c, d)
  PROVE  (b = c => Shifts(s, u, a, d)) /\ (a = d => Shifts(s, u, c, b))
<1>1. ASSUME NEW g \in Handles
      PROVE  /\ b = c => Extra(u, g) = Extra(s, g) + (Is(a, g) - Is(d, g))
             /\ a = d => Extra(u, g) = Extra(s, g) + (Is(c, g) - Is(b, g))
  <2>1. /\ Extra(t, g) = Extra(s, g) + (Is(a, g) - Is(b, g))
        /\ Extra(u, g) = Extra(t, g) + (Is(c, g) - Is(d, g))
    BY DEF Shifts
  <2>2. Extra(s, g) \in Int /\ Extra(t, g) \in Int /\ Extra(u, g) \in Int
    BY ExtraType DEF Shifts, Proper
  <2>3. Is(a, g) \in Int /\ Is(b, g) \in Int /\ Is(c, g) \in Int /\ Is(d, g) \in Int
    BY DEF Is
  <2> QED
    BY <2>1, <2>2, <2>3
<1> QED
  BY <1>1 DEF Shifts

(* The methods of the classes.                                             *)
LEMMA ResetShifts ==
  ASSUME NEW s, Proper(s), NEW x \in Images \cup Captures
  PROVE  /\ Shifts(s, reset(s, x), nullptr, nullptr)
         /\ reset(s, x).m_handle[x] = nullptr
<1> DEFINE h == s.m_handle[x]
           t == Release(s, h)
<1>1. h \in ImageRefs \cup CaptureRefs /\ MayHave(x, nullptr) /\ Sound(s)
  BY HandleType DEF Proper
<1> HIDE DEF h
<1>2. Shifts(s, t, nullptr, h) /\ t.m_handle = s.m_handle
  BY <1>1, ReleaseShifts
<1>3. Proper(t) /\ t \in SharedType
  BY <1>2 DEF Shifts, Proper, Sound
<1>4. reset(s, x) = [t EXCEPT !.m_handle[x] = nullptr]
  BY DEF reset, h
<1> HIDE DEF t
<1>5. Shifts(t, reset(s, x), t.m_handle[x], nullptr)
  BY <1>1, <1>3, <1>4, SetHandleShifts
<1>6. t.m_handle[x] = h
  BY <1>2 DEF h
<1>7. Shifts(s, reset(s, x), nullptr, nullptr)
  BY <1>1, <1>2, <1>5, <1>6, Chains
<1>8. reset(s, x).m_handle[x] = nullptr
  BY <1>3, <1>4 DEF SharedType
<1> QED
  BY <1>7, <1>8

LEMMA ReturnedShifts ==
  ASSUME NEW s, Proper(s), NEW x, NEW h, MayHave(x, h)
  PROVE  Shifts(s, Returned(s, x, h), nullptr, h)
<1> DEFINE t == reset(s, x)
<1>1. Shifts(s, t, nullptr, nullptr) /\ t.m_handle[x] = nullptr /\ Sound(s)
  BY ResetShifts DEF MayHave, Proper
<1>2. Returned(s, x, h) = [t EXCEPT !.m_handle[x] = h]
  BY DEF Returned
<1> HIDE DEF t
<1>3. Shifts(t, [t EXCEPT !.m_handle[x] = h], t.m_handle[x], h)
  <2>1. Proper(t)
    BY <1>1 DEF Shifts
  <2> QED
    BY <2>1, SetHandleShifts
<1>4. Shifts(t, Returned(s, x, h), nullptr, h)
  BY <1>1, <1>2, <1>3
<1> QED
  BY <1>1, <1>4, Chains

LEMMA CopiedShifts ==
  ASSUME NEW s, Proper(s), NEW x, NEW y, SameClass(x, y)
  PROVE  Shifts(s, Copied(s, x, y), s.m_handle[x], nullptr)
<1> DEFINE h == s.m_handle[y]
           t == [s EXCEPT !.m_handle[x] = h]
<1>1. MayHave(x, h) /\ h \in ImageRefs \cup CaptureRefs /\ Sound(s)
  BY HandlesAssumption DEF Proper, Sound, MayHave, SameClass
<1>2. Copied(s, x, y) = Reference(t, h)
  BY DEF Copied
<1> HIDE DEF h
<1>3. Shifts(s, t, s.m_handle[x], h)
  BY <1>1, SetHandleShifts
<1> HIDE DEF t
<1>4. Shifts(t, Reference(t, h), h, nullptr)
  BY <1>1, <1>3, ReferenceShifts DEF Shifts
<1> QED
  BY <1>1, <1>2, <1>3, <1>4, Chains

LEMMA MovedShifts ==
  ASSUME NEW s, Proper(s), NEW x, NEW y, SameClass(x, y), x # y
  PROVE  Shifts(s, Moved(s, x, y), s.m_handle[x], nullptr)
<1> DEFINE h == s.m_handle[y]
           t == [s EXCEPT !.m_handle[x] = h]
<1>1. MayHave(x, h) /\ MayHave(y, nullptr) /\ Sound(s) /\ s \in SharedType
  BY HandlesAssumption DEF Proper, Sound, MayHave, SameClass, ImageRefs, CaptureRefs
<1>2. Moved(s, x, y) = [t EXCEPT !.m_handle[y] = nullptr] /\ t.m_handle[y] = h
  BY <1>1 DEF Moved, SharedType, MayHave
<1> HIDE DEF h
<1>3. Shifts(s, t, s.m_handle[x], h)
  BY <1>1, SetHandleShifts
<1> HIDE DEF t
<1>4. Shifts(t, Moved(s, x, y), h, nullptr)
  BY <1>1, <1>2, <1>3, SetHandleShifts DEF Shifts
<1> QED
  BY <1>1, <1>3, <1>4, Chains

(* A new image that is returned, or released again.                        *)
LEMMA NewImageBalances ==
  ASSUME NEW s, Proper(s), NEW h \in ImageHandles, s.refs[h] = 0, NEW content \in Contents,
         NEW x \in Images
  PROVE  /\ Shifts(s, Returned(Image(s, h, content), x, h), nullptr, nullptr)
         /\ Shifts(s, Release(Image(s, h, content), h), nullptr, nullptr)
<1> DEFINE t == Image(s, h, content)
<1>1. Shifts(s, t, h, nullptr) /\ Sound(s)
  BY ImageShifts DEF Proper
<1>2. MayHave(x, h) /\ h \in ImageRefs \cup CaptureRefs
  BY DEF MayHave, ImageRefs
<1> HIDE DEF t
<1>3. Shifts(t, Returned(t, x, h), nullptr, h) /\ Shifts(t, Release(t, h), nullptr, h)
  BY <1>1, <1>2, ReturnedShifts, ReleaseShifts DEF Shifts
<1> QED
  BY <1>1, <1>3, Chains DEF t

(* The copies, moves and assignments; the first two of an object that has  *)
(* no handle yet.                                                          *)
LEMMA AssignsShifts ==
  ASSUME NEW s, Proper(s), NEW t, NEW x, NEW y, SameClass(x, y), x # y,
         \/ s.m_handle[x] = nullptr /\ (t = Copied(s, x, y) \/ t = Moved(s, x, y))
         \/ t = Copied(reset(s, x), x, y) \/ t = Moved(reset(s, x), x, y)
  PROVE  Shifts(s, t, nullptr, nullptr)
<1>1. ASSUME NEW u, Proper(u), u.m_handle[x] = nullptr
      PROVE  Shifts(u, Copied(u, x, y), nullptr, nullptr) /\ Shifts(u, Moved(u, x, y), nullptr, nullptr)
  <2>1. Shifts(u, Copied(u, x, y), u.m_handle[x], nullptr) /\ Shifts(u, Moved(u, x, y), u.m_handle[x], nullptr)
    BY <1>1, CopiedShifts, MovedShifts
  <2> QED
    BY <1>1, <2>1
<1>2. CASE s.m_handle[x] = nullptr /\ (t = Copied(s, x, y) \/ t = Moved(s, x, y))
  BY <1>1, <1>2
<1>3. CASE t = Copied(reset(s, x), x, y) \/ t = Moved(reset(s, x), x, y)
  <2> DEFINE u == reset(s, x)
  <2>1. Shifts(s, u, nullptr, nullptr) /\ u.m_handle[x] = nullptr /\ Sound(s)
    BY ResetShifts DEF SameClass, Proper
  <2> HIDE DEF u
  <2>2. Shifts(u, Copied(u, x, y), nullptr, nullptr) /\ Shifts(u, Moved(u, x, y), nullptr, nullptr)
    BY <1>1, <2>1 DEF Shifts
  <2> QED
    BY <1>3, <2>1, <2>2, Chains DEF u
<1> QED
  BY <1>2, <1>3

-----------------------------------------------------------------------------
(* The operations: each leaves what the counts have too much as it was.    *)

LEMMA ImageStepShifts ==
  ASSUME PixelsInv, Proper(shared), ImageStep
  PROVE  Shifts(shared, shared', nullptr, nullptr)
<1>0. Sound(shared)
  BY DEF Proper
<1>1. ASSUME NEW x \in Images, NEW y \in Images,
             image_copy(x, y) \/ image_move(x, y) \/ image_assign(x, y) \/ image_move_assign(x, y)
      PROVE  Shifts(shared, shared', nullptr, nullptr)
  BY <1>0, <1>1, AssignsShifts DEF SameClass, image_copy, image_move, image_assign, image_move_assign
<1>2. ASSUME NEW x \in Images, image_reset(x)
      PROVE  Shifts(shared, shared', nullptr, nullptr)
  BY <1>2, ResetShifts DEF image_reset
<1>3. ASSUME NEW x \in Images, NEW h \in ImageHandles, shared.refs[h] = 0, NEW c \in Contents,
             shared' = Returned(Image(shared, h, c), x, h)
      PROVE  Shifts(shared, shared', nullptr, nullptr)
  BY <1>3, NewImageBalances
<1>4. ASSUME NEW x \in Images, NEW l \in Layouts, image_create(x, l)
      PROVE  Shifts(shared, shared', nullptr, nullptr)
  <2>1. l \in LayoutType /\ Creatable(l)
    BY <1>4, HandlesAssumption DEF image_create
  <2>2. Allocated(l, BytesPerPixel(l.format)) \in Contents
    BY <2>1, AllocatedFits
  <2> QED
    BY <1>3, <1>4, <2>2 DEF image_create, Unused
<1>5. ASSUME NEW x \in Images, NEW b \in Brought, image_create_from_buffer(x, b.layout, b.size)
      PROVE  Shifts(shared, shared', nullptr, nullptr)
  <2> DEFINE content == [layout |-> b.layout, pixel |-> BytesPerPixel(b.layout.format),
                         size |-> b.size, ours |-> FALSE]
  <2>1. b.layout \in LayoutType /\ b.size \in Int /\ BytesPerPixel(b.layout.format) \in Nat
    BY HandlesAssumption, PixelType
  <2>2. content \in Contents
    BY <2>1 DEF Contents
  <2>3. PICK h \in ImageHandles : shared.refs[h] = 0 /\ shared' = Returned(Image(shared, h, content), x, h)
    BY <1>5 DEF image_create_from_buffer, Unused
  <2> QED
    BY <1>3, <2>2, <2>3
<1> QED
  BY <1>1, <1>2, <1>4, <1>5 DEF ImageStep

LEMMA ConversionStepShifts ==
  ASSUME PixelsInv, Proper(shared), ConversionStep
  PROVE  Shifts(shared, shared', nullptr, nullptr)
<1>0. Sound(shared)
  BY DEF Proper
<1>1. PICK t \in Transformations, x \in Images :
        \/ depth_image_to_color_camera(t, x)
        \/ \E y, custom \in Images : depth_image_to_color_camera_custom(t, x, y, custom)
        \/ color_image_to_depth_camera(t, x)
        \/ \E d \in Images : depth_image_to_point_cloud(t, x, d)
  BY DEF ConversionStep
<1>2. CASE \/ depth_image_to_color_camera(t, x)
           \/ color_image_to_depth_camera(t, x)
           \/ \E d \in Images : depth_image_to_point_cloud(t, x, d)
  <2>1. PICK l, pixel : Allocated(l, pixel) \in Contents /\ Converted(t, x, l, pixel)
    BY <1>1, <1>2, ConversionOfOne
  <2>2. PICK h \in ImageHandles :
          /\ shared.refs[h] = 0
          /\ \/ shared' = Returned(Image(shared, h, Allocated(l, pixel)), x, h)
             \/ shared' = Release(Image(shared, h, Allocated(l, pixel)), h)
    BY <2>1 DEF Converted, Unused
  <2> QED
    BY <1>1, <2>1, <2>2, NewImageBalances
<1>3. ASSUME NEW y \in Images, NEW custom \in Images,
             depth_image_to_color_camera_custom(t, x, y, custom)
      PROVE  Shifts(shared, shared', nullptr, nullptr)
  <2>1. PICK g \in Unused(ImageHandles), depth \in Contents :
          \/ shared' = Release(Image(shared, g, depth), g)
          \/ \E h \in Unused(ImageHandles) \ {g}, second \in Contents :
               \/ shared' = Returned(Returned(Image(Image(shared, g, depth), h, second), x, g), y, h)
               \/ shared' = Release(Release(Image(Image(shared, g, depth), h, second), h), g)
    BY <1>1, <1>3, ConversionOfTwo
  <2>2. g \in ImageHandles /\ shared.refs[g] = 0
    BY <2>1 DEF Unused
  <2>3. CASE shared' = Release(Image(shared, g, depth), g)
    BY <1>1, <2>1, <2>2, <2>3, NewImageBalances
  <2>4. ASSUME NEW h \in Unused(ImageHandles) \ {g}, NEW second \in Contents,
               \/ shared' = Returned(Returned(Image(Image(shared, g, depth), h, second), x, g), y, h)
               \/ shared' = Release(Release(Image(Image(shared, g, depth), h, second), h), g)
        PROVE  Shifts(shared, shared', nullptr, nullptr)
    <3> DEFINE first == Image(shared, g, depth)
               both == Image(first, h, second)
    <3>1. h \in ImageHandles /\ shared.refs[h] = 0 /\ h # g /\ h \in Handles
      BY <2>4 DEF Unused, Handles
    <3>2. Shifts(shared, first, g, nullptr) /\ first.refs[h] = 0
      BY <2>1, <2>2, <3>1, ImageShifts
    <3>3. \/ shared' = Returned(Returned(both, x, g), y, h)
          \/ shared' = Release(Release(both, h), g)
      BY <2>4
    <3> HIDE DEF first
    <3>4. Proper(first) /\ Sound(first)
      BY <3>2 DEF Shifts, Proper
    <3>5. Shifts(first, both, h, nullptr)
      BY <3>1, <3>2, <3>4, ImageShifts
    <3> HIDE DEF both
    <3>6. Proper(both) /\ Sound(both)
      BY <3>5 DEF Shifts, Proper
    <3>7. MayHave(x, g) /\ MayHave(y, h) /\ h \in ImageRefs \cup CaptureRefs /\ g \in ImageRefs \cup CaptureRefs
      BY <1>1, <2>2, <3>1 DEF MayHave, ImageRefs
    <3>8. CASE shared' = Returned(Returned(both, x, g), y, h)
      <4> DEFINE u == Returned(both, x, g)
      <4>1. Shifts(both, u, nullptr, g)
        BY <3>6, <3>7, ReturnedShifts
      <4>2. Shifts(first, u, h, g)
        BY <3>4, <3>5, <4>1, Chains
      <4>3. Shifts(shared, u, h, nullptr)
        BY <1>0, <3>2, <4>2, Chains
      <4> HIDE DEF u
      <4>4. Shifts(u, Returned(u, y, h), nullptr, h)
        BY <3>7, <4>3, ReturnedShifts DEF Shifts
      <4> QED
        BY <1>0, <3>8, <4>3, <4>4, Chains DEF u
    <3>9. CASE shared' = Release(Release(both, h), g)
      <4> DEFINE u == Release(both, h)
      <4>1. Shifts(both, u, nullptr, h)
        BY <3>6, <3>7, ReleaseShifts
      <4>2. Shifts(first, u, nullptr, nullptr)
        BY <3>4, <3>5, <4>1, Chains
      <4>3. Shifts(shared, u, g, nullptr)
        BY <1>0, <3>2, <4>2, Chains
      <4> HIDE DEF u
      <4>4. Shifts(u, Release(u, g), nullptr, g)
        BY <3>7, <4>3, ReleaseShifts DEF Shifts
      <4> QED
        BY <1>0, <3>9, <4>3, <4>4, Chains DEF u
    <3> QED
      BY <3>3, <3>8, <3>9
  <2> QED
    BY <2>1, <2>3, <2>4
<1> QED
  BY <1>1, <1>2, <1>3

LEMMA CaptureStepShifts ==
  ASSUME PixelsInv, Proper(shared), \A g \in Handles : Extra(shared, g) = 0, CaptureStep
  PROVE  Shifts(shared, shared', nullptr, nullptr)
<1>0. Sound(shared)
  BY DEF Proper
<1>1. ASSUME NEW x \in Captures, NEW y \in Captures,
             \/ capture_copy(x, y) \/ capture_move(x, y)
             \/ capture_assign(x, y) \/ capture_move_assign(x, y)
      PROVE  Shifts(shared, shared', nullptr, nullptr)
  BY <1>0, <1>1, AssignsShifts
     DEF SameClass, capture_copy, capture_move, capture_assign, capture_move_assign
<1>2. ASSUME NEW x \in Captures, capture_reset(x)
      PROVE  Shifts(shared, shared', nullptr, nullptr)
  BY <1>2, ResetShifts DEF capture_reset
<1>3. ASSUME NEW x \in Captures, capture_create(x)
      PROVE  Shifts(shared, shared', nullptr, nullptr)
  <2>1. PICK h \in CaptureHandles : shared.refs[h] = 0 /\ shared' = Returned(Made(shared, h), x, h)
    BY <1>3 DEF capture_create, Unused
  <2> DEFINE t == Made(shared, h)
  <2>2. Shifts(shared, t, h, nullptr) /\ MayHave(x, h)
    BY <2>1, MadeShifts DEF MayHave, CaptureRefs, Handles
  <2>3. shared' = Returned(t, x, h)
    BY <2>1
  <2> HIDE DEF t
  <2>4. Shifts(t, Returned(t, x, h), nullptr, h)
    BY <2>2, ReturnedShifts DEF Shifts
  <2> QED
    BY <1>0, <2>2, <2>3, <2>4, Chains
<1>4. ASSUME NEW x \in Images, NEW k \in Captures, NEW kind \in Kinds, get_image(x, k, kind)
      PROVE  Shifts(shared, shared', nullptr, nullptr)
  <2>1. PICK found \in ImageRefs : shared' = Returned(Reference(shared, found), x, found)
    <3>1. shared.m_handle[k] \in CaptureRefs
      BY <1>0, HandlesAssumption DEF Sound, MayHave
    <3> QED
      BY <1>0, <1>4, <3>1 DEF get_image, Sound, SharedType, ImageRefs, CaptureRefs
  <2> DEFINE t == Reference(shared, found)
  <2>2. Shifts(shared, t, found, nullptr) /\ MayHave(x, found)
    BY <2>1, ReferenceShifts DEF MayHave
  <2>3. shared' = Returned(t, x, found)
    BY <2>1
  <2> HIDE DEF t
  <2>4. Shifts(t, Returned(t, x, found), nullptr, found)
    BY <2>2, ReturnedShifts DEF Shifts
  <2> QED
    BY <1>0, <2>2, <2>3, <2>4, Chains
<1>5. ASSUME NEW x \in Images, NEW k \in Captures, NEW kind \in Kinds, set_image(k, x, kind)
      PROVE  Shifts(shared, shared', nullptr, nullptr)
  <2> DEFINE h == shared.m_handle[k]
             g == shared.m_handle[x]
             t == Reference(shared, g)
             old == t.inside[h][kind]
             u == Release(t, old)
  <2>1. h \in CaptureHandles /\ g \in ImageRefs /\ h \in Handles
    BY <1>0, <1>5, HandlesAssumption DEF set_image, Sound, MayHave, CaptureRefs, Handles
  <2>2. shared.refs[h] > 0
    <3>1. k \in Objects(shared, h)
      BY DEF Objects
    <3>2. Cardinality(Objects(shared, h)) # 0
      BY <3>1, FiniteUses, FS_EmptySet
    <3>3. Extra(shared, h) = 0 /\ shared.refs[h] \in Int
      BY <1>0, <2>1, ExtraType
    <3> HIDE DEF h
    <3> QED
      BY <3>2, <3>3, FiniteUses DEF Extra
  <2>3. shared' = [u EXCEPT !.inside[h][kind] = g]
    BY <1>5 DEF set_image
  <2> HIDE DEF g, h
  <2>4. Shifts(shared, t, g, nullptr)
    BY <2>1, ReferenceShifts
  <2>5. t.refs[h] = shared.refs[h]
    BY <1>0, <2>1, HandlesAssumption DEF Reference, ImageRefs, Sound, SharedType
  <2> HIDE DEF t
  <2>6. Proper(t) /\ Sound(t) /\ old \in ImageRefs
    BY <2>1, <2>4 DEF Shifts, Proper, Sound, SharedType
  <2>7. Shifts(t, u, nullptr, old) /\ u.inside[h][kind] = old /\ u.refs[h] = t.refs[h]
    BY <2>1, <2>6, ReleaseShifts
  <2> HIDE DEF old, u
  <2>8. Proper(u) /\ u.refs[h] > 0
    BY <2>2, <2>5, <2>7 DEF Shifts
  <2>9. Shifts(u, [u EXCEPT !.inside[h][kind] = g], u.inside[h][kind], g)
    BY <2>1, <2>8, SetPlaceShifts
  <2>10. Shifts(u, shared', old, g)
    BY <2>3, <2>7, <2>9
  <2>11. Shifts(shared, u, g, old)
    BY <1>0, <2>4, <2>7, Chains
  <2>12. Shifts(shared, shared', g, g)
    BY <1>0, <2>10, <2>11, Chains
  <2> QED
    BY <2>12, <1>0, NoHandle, ExtraType, IsType DEF Shifts, Is
<1>6. ASSUME NEW d \in Devices, NEW k \in Captures, get_capture(d, k)
      PROVE  Shifts(shared, shared', nullptr, nullptr)
  <2>1. PICK h \in CaptureHandles, g \in ImageHandles, frame \in Frames :
          /\ shared.refs[h] = 0 /\ shared.refs[g] = 0
          /\ LET content == [layout |-> frame.layout, pixel |-> BytesPerPixel(frame.layout.format),
                             size |-> frame.size, ours |-> TRUE]
                 made == [Made(Image(shared, g, content), h) EXCEPT !.inside[h][ColorKind] = g]
             IN  shared' = Returned(made, k, h)
    BY <1>6 DEF get_capture, Unused
  <2> DEFINE content == [layout |-> frame.layout, pixel |-> BytesPerPixel(frame.layout.format),
                         size |-> frame.size, ours |-> TRUE]
             t == Image(shared, g, content)
             u == Made(t, h)
             made == [u EXCEPT !.inside[h][ColorKind] = g]
  <2>2. content \in Contents
    BY <2>1, FramesOwnFit, PixelType DEF Contents, FitsItself
  <2>3. shared' = Returned(made, k, h)
    BY <2>1
  <2> HIDE DEF content
  <2>4. h # g /\ h \in Handles /\ g \in ImageRefs /\ MayHave(k, h) /\ ColorKind \in Kinds
    BY HandlesAssumption DEF Handles, ImageRefs, MayHave, CaptureRefs
  <2>5. Shifts(shared, t, g, nullptr) /\ t.refs[h] = 0 /\ t.inside = shared.inside
    BY <2>1, <2>2, <2>4, ImageShifts
  <2>6. shared.inside[h][ColorKind] = nullptr
    BY <2>1, <2>4 DEF Proper, Emptied
  <2> HIDE DEF t
  <2>7. Proper(t) /\ Sound(t)
    BY <2>5 DEF Shifts, Proper
  <2>8. Shifts(t, u, h, nullptr) /\ u.refs[h] = 1
    BY <2>4, <2>5, <2>7, MadeShifts
  <2>9. u.inside = t.inside
    BY <2>7 DEF Made, Sound, SharedType
  <2> HIDE DEF u
  <2>10. Shifts(u, made, u.inside[h][ColorKind], g)
    BY <2>4, <2>8, SetPlaceShifts DEF Shifts
  <2>11. Shifts(u, made, nullptr, g)
    BY <2>5, <2>6, <2>9, <2>10
  <2>12. Shifts(t, made, h, g)
    BY <2>7, <2>8, <2>11, Chains
  <2>13. Shifts(shared, made, h, nullptr)
    BY <1>0, <2>5, <2>12, Chains
  <2> HIDE DEF made
  <2>14. Shifts(made, Returned(made, k, h), nullptr, h)
    BY <2>4, <2>13, ReturnedShifts DEF Shifts
  <2> QED
    BY <1>0, <2>3, <2>13, <2>14, Chains
<1> QED
  BY <1>1, <1>2, <1>3, <1>4, <1>5, <1>6 DEF CaptureStep

CountsInv == PixelsInv /\ Proper(shared) /\ \A g \in Handles : Extra(shared, g) = 0

LEMMA CountsInit == Init => CountsInv
<1> SUFFICES ASSUME Init PROVE CountsInv
  OBVIOUS
<1>1. PixelsInv
  BY PixelsInit
<1>2. Emptied(shared)
  BY DEF Init, Emptied
<1>3. ASSUME NEW g \in Handles PROVE Extra(shared, g) = 0
  <2>1. Objects(shared, g) = {} /\ Places(shared, g) = {}
    BY NoHandle DEF Init, Objects, Places
  <2>2. shared.refs[g] = 0
    BY DEF Init, Handles
  <2> QED
    BY <2>1, <2>2, FS_EmptySet DEF Extra
<1> QED
  BY <1>1, <1>2, <1>3 DEF CountsInv, Proper, PixelsInv

LEMMA CountsStep == CountsInv /\ [Next]_vars => CountsInv'
<1> SUFFICES ASSUME CountsInv, [Next]_vars PROVE CountsInv'
  OBVIOUS
<1>1. PixelsInv'
  BY PixelsStep DEF CountsInv
<1>2. CASE UNCHANGED shared
  BY <1>1, <1>2 DEF CountsInv, Proper, Emptied, Extra, Objects, Places, PixelsInv
<1>3. ASSUME Shifts(shared, shared', nullptr, nullptr) PROVE CountsInv'
  <2>1. Proper(shared') /\ \A g \in Handles : Extra(shared', g) = 0
    BY <1>3, NoHandle DEF Shifts, CountsInv
  <2> QED
    BY <1>1, <2>1 DEF CountsInv, Proper, Emptied, Extra, Objects, Places, Sound
<1> QED
  BY <1>2, <1>3, ImageStepShifts, ConversionStepShifts, CaptureStepShifts DEF CountsInv, Next, vars

(* The count of every image and capture handle is exactly the number of    *)
(* objects of the C++ API that hold it and of places in captures it is in, *)
(* after any sequence of copies, moves, assignments, resets, conversions   *)
(* that fail half-way and images put into and taken out of captures:       *)
(* nothing leaks and nothing is released that is still held, for any       *)
(* number of objects, handles and kinds of image.                          *)
THEOREM CountsAreExact == Spec => []CountsAreHolders
<1>1. CountsInv => CountsAreHolders
  <2> SUFFICES ASSUME CountsInv, NEW g \in Handles
               PROVE  shared.refs[g] = Cardinality(Holders(g)) + Cardinality(Containers(g))
    BY DEF CountsAreHolders, Handles
  <2>1. Extra(shared, g) = 0 /\ shared.refs[g] \in Int
    BY ExtraType DEF CountsInv, Proper
  <2>2. Holders(g) = Objects(shared, g) /\ Containers(g) = Places(shared, g)
    BY DEF Holders, Objects, Containers, Places
  <2> QED
    BY <2>1, <2>2, FiniteUses DEF Extra
<1> QED
  BY <1>1, CountsInit, CountsStep, PTL DEF Spec

-----------------------------------------------------------------------------
(***************************************************************************)
(* The Astra headers: a stream and its connections, the frames that are    *)
(* open and the listeners of a reader.                                     *)
(***************************************************************************)

Streams == [connections : SUBSET Connections, startedCount : Int, bin : {0, 1},
            size : Sizes, locked : BOOLEAN, back : Int,
            link : [Connections -> {0, 1, NoBin}], toldConnected : BOOLEAN,
            toldStarted : BOOLEAN]

Statuses == [Connections -> {"none", "added", "started"}]

Known(st) == {c \in Connections : st[c] # "none"}
Started(st) == {c \in Connections : st[c] = "started"}

(* What the library knows of the connections (st) and what the stream      *)
(* object p remembers of them agree.                                       *)
Follows(p, st) ==
  /\ p \in Streams /\ st \in Statuses
  /\ p.connections = Known(st)
  /\ p.startedCount = Cardinality(Started(st))
  /\ p.toldStarted <=> Started(st) # {}
  /\ p.toldConnected <=> Known(st) # {}
  /\ \A c \in Connections : p.link[c] = IF st[c] = "none" THEN NoBin ELSE p.bin

StreamInv ==
  /\ middle \in Int
  /\ \/ plugin = Gone /\ status = [c \in Connections |-> "none"]
     \/ Follows(plugin, status)

LEMMA StartedFinite ==
  ASSUME NEW st
  PROVE  IsFiniteSet(Started(st)) /\ Cardinality(Started(st)) \in Nat
<1>1. Started(st) \subseteq Connections
  BY DEF Started
<1> QED
  BY <1>1, ConnectionsAssumption, FS_Subset, FS_CardinalityType

LEMMA HasConnections ==
  ASSUME NEW p \in Streams, NEW st \in Statuses,
         \A c \in Connections : p.link[c] = IF st[c] = "none" THEN NoBin ELSE p.bin
  PROVE  has_connections(p) <=> Known(st) # {}
<1>1. p.bin # NoBin
  BY DEF Streams, NoBin
<1> QED
  BY <1>1 DEF has_connections, Known

LEMMA HasStarted ==
  ASSUME NEW p, NEW st, p.startedCount = Cardinality(Started(st))
  PROVE  has_started_connections(p) <=> Started(st) # {}
BY StartedFinite, FS_EmptySet DEF has_started_connections

(* The derived class is told of a change, once it is in the members. *)
LEMMA TellConnectedFollows ==
  ASSUME NEW p, NEW q \in Streams, NEW st, NEW tt,
         Follows(p, st), tt \in Statuses,
         q.connections = Known(tt), q.startedCount = Cardinality(Started(tt)),
         q.toldStarted <=> Started(tt) # {}, q.toldConnected = p.toldConnected,
         \A c \in Connections : q.link[c] = IF tt[c] = "none" THEN NoBin ELSE q.bin
  PROVE  Follows(TellConnected(p, q), tt)
<1>1. /\ has_connections(p) <=> Known(st) # {}
      /\ has_connections(q) <=> Known(tt) # {}
  BY HasConnections DEF Follows
<1>2. p.toldConnected \in BOOLEAN /\ (p.toldConnected <=> Known(st) # {}) /\ p \in Streams
  BY DEF Follows, Streams
<1>3. CASE has_connections(p) # has_connections(q)
  <2>1. PICK r : r = [q EXCEPT !.toldConnected = has_connections(q)]
    OBVIOUS
  <2>2. has_connections(q) \in BOOLEAN
    BY DEF has_connections
  <2>3. /\ r \in Streams /\ r.toldConnected = has_connections(q)
        /\ r.connections = q.connections /\ r.startedCount = q.startedCount
        /\ r.toldStarted = q.toldStarted /\ r.link = q.link /\ r.bin = q.bin
    BY <2>1, <2>2 DEF Streams
  <2>4. Follows(r, tt)
    BY <1>1, <2>3 DEF Follows
  <2> QED
    BY <1>3, <2>1, <2>4 DEF TellConnected
<1>4. CASE has_connections(p) = has_connections(q)
  <2>1. q.toldConnected <=> Known(tt) # {}
    BY <1>1, <1>2, <1>4
  <2>2. Follows(q, tt)
    BY <2>1 DEF Follows
  <2> QED
    BY <1>4, <2>2 DEF TellConnected
<1> QED
  BY <1>3, <1>4

LEMMA TellStartedFollows ==
  ASSUME NEW p, NEW q \in Streams, NEW st, NEW tt,
         Follows(p, st), tt \in Statuses,
         q.connections = Known(tt), q.startedCount = Cardinality(Started(tt)),
         q.toldStarted = p.toldStarted, q.toldConnected <=> Known(tt) # {},
         \A c \in Connections : q.link[c] = IF tt[c] = "none" THEN NoBin ELSE q.bin
  PROVE  Follows(TellStarted(p, q), tt)
<1>1. /\ has_started_connections(p) <=> Started(st) # {}
      /\ has_started_connections(q) <=> Started(tt) # {}
  BY HasStarted DEF Follows
<1>2. p.toldStarted \in BOOLEAN /\ (p.toldStarted <=> Started(st) # {}) /\ p \in Streams
  BY DEF Follows, Streams
<1>3. CASE has_started_connections(p) # has_started_connections(q)
  <2>1. PICK r : r = [q EXCEPT !.toldStarted = has_started_connections(q)]
    OBVIOUS
  <2>2. has_started_connections(q) \in BOOLEAN
    BY DEF has_started_connections
  <2>3. /\ r \in Streams /\ r.toldStarted = has_started_connections(q)
        /\ r.connections = q.connections /\ r.startedCount = q.startedCount
        /\ r.toldConnected = q.toldConnected /\ r.link = q.link /\ r.bin = q.bin
    BY <2>1, <2>2 DEF Streams
  <2>4. Follows(r, tt)
    BY <1>1, <2>3 DEF Follows
  <2> QED
    BY <1>3, <2>1, <2>4 DEF TellStarted
<1>4. CASE has_started_connections(p) = has_started_connections(q)
  <2>1. q.toldStarted <=> Started(tt) # {}
    BY <1>1, <1>2, <1>4
  <2>2. Follows(q, tt)
    BY <2>1 DEF Follows
  <2> QED
    BY <1>4, <2>2 DEF TellStarted
<1> QED
  BY <1>3, <1>4

LEMMA AddedFollows ==
  ASSUME NEW p, NEW st, Follows(p, st), NEW c \in Connections, st[c] = "none"
  PROVE  Follows(on_connection_added(p, c), [st EXCEPT ![c] = "added"])
<1>1. PICK tt : tt = [st EXCEPT ![c] = "added"]
  OBVIOUS
<1>2. PICK q : q = [p EXCEPT !.link[c] = p.bin, !.connections = @ \cup {c}]
  OBVIOUS
<1>3. st \in Statuses /\ p \in Streams
  BY DEF Follows
<1>4. tt \in Statuses /\ Known(tt) = Known(st) \cup {c} /\ Started(tt) = Started(st)
  BY <1>1, <1>3 DEF Statuses, Known, Started
<1>5. /\ q \in Streams /\ q.connections = p.connections \cup {c}
      /\ q.startedCount = p.startedCount /\ q.toldStarted = p.toldStarted
      /\ q.toldConnected = p.toldConnected /\ q.bin = p.bin
      /\ \A d \in Connections : q.link[d] = IF d = c THEN p.bin ELSE p.link[d]
  BY <1>2, <1>3 DEF Streams
<1>6. \A d \in Connections : q.link[d] = IF tt[d] = "none" THEN NoBin ELSE q.bin
  BY <1>1, <1>3, <1>5 DEF Follows, Statuses
<1>7. Follows(TellConnected(p, q), tt)
  <2>1. /\ q.connections = Known(tt) /\ q.startedCount = Cardinality(Started(tt))
        /\ q.toldStarted <=> Started(tt) # {}
    BY <1>4, <1>5 DEF Follows
  <2> QED
    BY <1>4, <1>5, <1>6, <2>1, TellConnectedFollows
<1>8. c \notin p.connections
  BY DEF Follows, Known
<1> QED
  BY <1>1, <1>2, <1>7, <1>8 DEF on_connection_added

LEMMA RemovedFollows ==
  ASSUME NEW p, NEW st, Follows(p, st), NEW c \in Connections, st[c] = "added"
  PROVE  Follows(on_connection_removed(p, c), [st EXCEPT ![c] = "none"])
<1>1. PICK tt : tt = [st EXCEPT ![c] = "none"]
  OBVIOUS
<1>2. PICK q : q = [p EXCEPT !.link[c] = NoBin, !.connections = @ \ {c}]
  OBVIOUS
<1>3. st \in Statuses /\ p \in Streams
  BY DEF Follows
<1>4. tt \in Statuses /\ Known(tt) = Known(st) \ {c} /\ Started(tt) = Started(st)
  BY <1>1, <1>3 DEF Statuses, Known, Started
<1>5. /\ q \in Streams /\ q.connections = p.connections \ {c}
      /\ q.startedCount = p.startedCount /\ q.toldStarted = p.toldStarted
      /\ q.toldConnected = p.toldConnected /\ q.bin = p.bin
      /\ \A d \in Connections : q.link[d] = IF d = c THEN NoBin ELSE p.link[d]
  BY <1>2, <1>3 DEF Streams, NoBin
<1>6. \A d \in Connections : q.link[d] = IF tt[d] = "none" THEN NoBin ELSE q.bin
  BY <1>1, <1>3, <1>5 DEF Follows, Statuses
<1>7. Follows(TellConnected(p, q), tt)
  <2>1. /\ q.connections = Known(tt) /\ q.startedCount = Cardinality(Started(tt))
        /\ q.toldStarted <=> Started(tt) # {}
    BY <1>4, <1>5 DEF Follows
  <2> QED
    BY <1>4, <1>5, <1>6, <2>1, TellConnectedFollows
<1>8. c \in p.connections
  BY DEF Follows, Known
<1> QED
  BY <1>1, <1>2, <1>7, <1>8 DEF on_connection_removed

LEMMA StartedFollows ==
  ASSUME NEW p, NEW st, Follows(p, st), NEW c \in Connections, st[c] = "added"
  PROVE  Follows(on_connection_started(p, c), [st EXCEPT ![c] = "started"])
<1>1. PICK tt : tt = [st EXCEPT ![c] = "started"]
  OBVIOUS
<1>2. PICK q : q = [p EXCEPT !.startedCount = @ + 1]
  OBVIOUS
<1>3. st \in Statuses /\ p \in Streams
  BY DEF Follows
<1>4. /\ tt \in Statuses /\ Known(tt) = Known(st)
      /\ Started(tt) = Started(st) \cup {c} /\ c \notin Started(st)
  BY <1>1, <1>3 DEF Statuses, Known, Started
<1>5. /\ q \in Streams /\ q.connections = p.connections
      /\ q.startedCount = p.startedCount + 1 /\ q.toldStarted = p.toldStarted
      /\ q.toldConnected = p.toldConnected /\ q.bin = p.bin /\ q.link = p.link
  BY <1>2, <1>3 DEF Streams
<1>6. \A d \in Connections : q.link[d] = IF tt[d] = "none" THEN NoBin ELSE q.bin
  BY <1>1, <1>3, <1>5 DEF Follows, Statuses
<1>7. Cardinality(Started(tt)) = Cardinality(Started(st)) + 1
  BY <1>4, StartedFinite, FS_AddElement
<1>8. Follows(TellStarted(p, q), tt)
  <2>1. /\ q.connections = Known(tt) /\ q.startedCount = Cardinality(Started(tt))
        /\ q.toldConnected <=> Known(tt) # {}
    BY <1>4, <1>5, <1>7 DEF Follows
  <2> QED
    BY <1>4, <1>5, <1>6, <2>1, TellStartedFollows
<1>9. c \in p.connections
  BY DEF Follows, Known
<1> QED
  BY <1>1, <1>2, <1>8, <1>9 DEF on_connection_started

LEMMA StoppedFollows ==
  ASSUME NEW p, NEW st, Follows(p, st), NEW c \in Connections, st[c] = "started"
  PROVE  Follows(on_connection_stopped(p, c), [st EXCEPT ![c] = "added"])
<1>1. PICK tt : tt = [st EXCEPT ![c] = "added"]
  OBVIOUS
<1>2. PICK q : q = [p EXCEPT !.startedCount = @ - 1]
  OBVIOUS
<1>3. st \in Statuses /\ p \in Streams
  BY DEF Follows
<1>4. /\ tt \in Statuses /\ Known(tt) = Known(st)
      /\ Started(tt) = Started(st) \ {c} /\ c \in Started(st)
  BY <1>1, <1>3 DEF Statuses, Known, Started
<1>5. /\ q \in Streams /\ q.connections = p.connections
      /\ q.startedCount = p.startedCount - 1 /\ q.toldStarted = p.toldStarted
      /\ q.toldConnected = p.toldConnected /\ q.bin = p.bin /\ q.link = p.link
  BY <1>2, <1>3 DEF Streams
<1>6. \A d \in Connections : q.link[d] = IF tt[d] = "none" THEN NoBin ELSE q.bin
  BY <1>1, <1>3, <1>5 DEF Follows, Statuses
<1>7. Cardinality(Started(tt)) = Cardinality(Started(st)) - 1
  BY <1>4, StartedFinite, FS_RemoveElement
<1>8. Follows(TellStarted(p, q), tt)
  <2>1. /\ q.connections = Known(tt) /\ q.startedCount = Cardinality(Started(tt))
        /\ q.toldConnected <=> Known(tt) # {}
    BY <1>4, <1>5, <1>7 DEF Follows
  <2> QED
    BY <1>4, <1>5, <1>6, <2>1, TellStartedFollows
<1>9. c \in p.connections
  BY DEF Follows, Known
<1> QED
  BY <1>1, <1>2, <1>8, <1>9 DEF on_connection_stopped

LEMMA FollowsAlive ==
  ASSUME NEW p, NEW st, Follows(p, st)
  PROVE  p # Gone /\ p.bin \in {0, 1} /\ p \in Streams
<1>1. p \in Streams
  BY DEF Follows
<1>2. p.bin \in {0, 1}
  BY <1>1 DEF Streams
<1>3. Gone.bin = NoBin
  BY DEF Gone
<1> QED
  BY <1>1, <1>2, <1>3 DEF NoBin

LEMMA TellKeepsBin ==
  ASSUME NEW p, NEW q \in Streams
  PROVE  TellConnected(p, q).bin = q.bin /\ TellStarted(p, q).bin = q.bin
BY DEF TellConnected, TellStarted, Streams

LEMMA CallsKeepBin ==
  ASSUME NEW p \in Streams, NEW c \in Connections
  PROVE  /\ on_connection_added(p, c).bin = p.bin
         /\ on_connection_removed(p, c).bin = p.bin
         /\ on_connection_started(p, c).bin = p.bin
         /\ on_connection_stopped(p, c).bin = p.bin
<1>1. /\ [p EXCEPT !.link[c] = p.bin, !.connections = @ \cup {c}] \in Streams
      /\ [p EXCEPT !.link[c] = p.bin, !.connections = @ \cup {c}].bin = p.bin
  BY DEF Streams
<1>2. /\ [p EXCEPT !.link[c] = NoBin, !.connections = @ \ {c}] \in Streams
      /\ [p EXCEPT !.link[c] = NoBin, !.connections = @ \ {c}].bin = p.bin
  BY DEF Streams, NoBin
<1>3. /\ [p EXCEPT !.startedCount = @ + 1] \in Streams
      /\ [p EXCEPT !.startedCount = @ + 1].bin = p.bin
  BY DEF Streams
<1>4. /\ [p EXCEPT !.startedCount = @ - 1] \in Streams
      /\ [p EXCEPT !.startedCount = @ - 1].bin = p.bin
  BY DEF Streams
<1>5. on_connection_added(p, c).bin = p.bin
  BY <1>1, TellKeepsBin DEF on_connection_added
<1>6. on_connection_removed(p, c).bin = p.bin
  BY <1>2, TellKeepsBin DEF on_connection_removed
<1>7. on_connection_started(p, c).bin = p.bin
  BY <1>3, TellKeepsBin DEF on_connection_started
<1>8. on_connection_stopped(p, c).bin = p.bin
  BY <1>4, TellKeepsBin DEF on_connection_stopped
<1> QED
  BY <1>5, <1>6, <1>7, <1>8

(* The library's calls into the stream keep the two in step, and the bin. *)
LEMMA RemovedStep ==
  ASSUME StreamInv, NEW c \in Connections, Removed(c), middle' = middle
  PROVE  StreamInv' /\ plugin'.bin = plugin.bin
<1>1. CASE ~(Alive /\ status[c] # "none")
  BY <1>1 DEF Removed, StreamInv
<1>2. CASE Alive /\ status[c] # "none"
  <2>1. /\ Follows(plugin, status)
        /\ plugin' = on_connection_removed(Stopped(plugin, c), c)
        /\ status' = [status EXCEPT ![c] = "none"]
    BY <1>2 DEF StreamInv, Removed, Alive
  <2>2. status \in Statuses /\ plugin \in Streams
    BY <2>1 DEF Follows
  <2>3. CASE status[c] = "started"
    <3>1. PICK q : q = on_connection_stopped(plugin, c)
      OBVIOUS
    <3>2. PICK tt : tt = [status EXCEPT ![c] = "added"]
      OBVIOUS
    <3>3. Follows(q, tt) /\ tt[c] = "added" /\ q.bin = plugin.bin
      BY <2>1, <2>2, <2>3, <3>1, <3>2, StoppedFollows, CallsKeepBin DEF Statuses
    <3>4. plugin' = on_connection_removed(q, c)
      BY <2>1, <2>3, <3>1 DEF Stopped
    <3>5. status' = [tt EXCEPT ![c] = "none"]
      BY <2>1, <2>2, <3>2 DEF Statuses
    <3>6. PICK r : r = on_connection_removed(q, c)
      OBVIOUS
    <3>7. PICK uu : uu = [tt EXCEPT ![c] = "none"]
      OBVIOUS
    <3>8. Follows(r, uu)
      BY <3>3, <3>6, <3>7, RemovedFollows
    <3>9. plugin' = r /\ status' = uu
      BY <3>4, <3>5, <3>6, <3>7
    <3>10. Follows(plugin', status')
      BY <3>8, <3>9
    <3>11. plugin'.bin = plugin.bin
      BY <3>3, <3>4, CallsKeepBin, FollowsAlive
    <3> QED
      BY <3>10, <3>11 DEF StreamInv
  <2>4. CASE status[c] = "added"
    <3>1. plugin' = on_connection_removed(plugin, c)
      BY <2>1, <2>4 DEF Stopped
    <3>2. PICK r : r = on_connection_removed(plugin, c)
      OBVIOUS
    <3>3. PICK uu : uu = [status EXCEPT ![c] = "none"]
      OBVIOUS
    <3>4. Follows(r, uu)
      BY <2>1, <2>4, <3>2, <3>3, RemovedFollows
    <3>5. plugin' = r /\ status' = uu
      BY <2>1, <3>1, <3>2, <3>3
    <3>6. Follows(plugin', status')
      BY <3>4, <3>5
    <3>7. plugin'.bin = plugin.bin
      BY <2>2, <3>1, CallsKeepBin
    <3> QED
      BY <3>6, <3>7 DEF StreamInv
  <2> QED
    BY <1>2, <2>2, <2>3, <2>4 DEF Statuses
<1> QED
  BY <1>1, <1>2

LEMMA ConnectionStep ==
  ASSUME StreamInv, NEW c \in Connections,
         \/ connection_added(c) \/ connection_started(c)
         \/ connection_stopped(c) \/ connection_removed(c)
  PROVE  StreamInv' /\ plugin'.bin = plugin.bin
<1>1. CASE connection_removed(c)
  BY <1>1, RemovedStep DEF connection_removed
<1>2. CASE connection_added(c) \/ connection_started(c) \/ connection_stopped(c)
  <2>1. Follows(plugin, status) /\ plugin \in Streams
    BY <1>2, FollowsAlive DEF StreamInv, Alive, connection_added, connection_started,
       connection_stopped
  <2>2. CASE connection_added(c)
    BY <2>1, <2>2, AddedFollows, CallsKeepBin DEF connection_added, StreamInv
  <2>3. CASE connection_started(c)
    BY <2>1, <2>3, StartedFollows, CallsKeepBin DEF connection_started, StreamInv
  <2>4. CASE connection_stopped(c)
    BY <2>1, <2>4, StoppedFollows, CallsKeepBin DEF connection_stopped, StreamInv
  <2> QED
    BY <1>2, <2>2, <2>3, <2>4
<1> QED
  BY <1>1, <1>2

LEMMA StreamRecord ==
  ASSUME NEW connections \in SUBSET Connections, NEW count \in Int, NEW bin \in {0, 1},
         NEW size \in Sizes, NEW locked \in BOOLEAN, NEW back \in Int,
         NEW link \in [Connections -> {0, 1, NoBin}], NEW connected \in BOOLEAN,
         NEW started \in BOOLEAN
  PROVE  [connections |-> connections, startedCount |-> count, bin |-> bin, size |-> size,
          locked |-> locked, back |-> back, link |-> link, toldConnected |-> connected,
          toldStarted |-> started] \in Streams
BY DEF Streams

(* Nobody is connected to a stream that has just been made. *)
LEMMA NewStreamFollows ==
  ASSUME NEW p, NEW st, p = [Gone EXCEPT !.bin = 0, !.size = ExtraDataSize],
         st = [c \in Connections |-> "none"]
  PROVE  Follows(p, st)
<1>1. Known(st) = {} /\ Started(st) = {} /\ st \in Statuses
  BY DEF Known, Started, Statuses
<1>2. /\ p.connections = {} /\ p.startedCount = 0 /\ p.bin = 0
      /\ p.link = [c \in Connections |-> NoBin] /\ p.toldConnected = FALSE
      /\ p.toldStarted = FALSE
  BY DEF Gone
<1>3. p \in Streams
  <2>1. p = [connections |-> {}, startedCount |-> 0, bin |-> 0, size |-> ExtraDataSize,
             locked |-> FALSE, back |-> 0, link |-> [c \in Connections |-> NoBin],
             toldConnected |-> FALSE, toldStarted |-> FALSE]
    BY DEF Gone
  <2>2. /\ [c \in Connections |-> NoBin] \in [Connections -> {0, 1, NoBin}]
        /\ {} \in SUBSET Connections /\ 0 \in Int /\ FALSE \in BOOLEAN
        /\ 0 \in {0, 1} /\ ExtraDataSize \in Sizes
    BY SizesAssumption
  <2> QED
    <3>1. PICK l \in [Connections -> {0, 1, NoBin}] : l = [c \in Connections |-> NoBin]
      BY <2>2
    <3>2. PICK s \in SUBSET Connections : s = {}
      BY <2>2
    <3>3. PICK z \in Int : z = 0
      BY <2>2
    <3>4. PICK b \in BOOLEAN : b = FALSE
      BY <2>2
    <3>5. PICK n \in {0, 1} : n = 0
      BY <2>2
    <3>6. [connections |-> s, startedCount |-> z, bin |-> n, size |-> ExtraDataSize,
           locked |-> b, back |-> z, link |-> l, toldConnected |-> b,
           toldStarted |-> b] \in Streams
      BY <2>2, StreamRecord
    <3> QED
      BY <2>1, <3>1, <3>2, <3>3, <3>4, <3>5, <3>6
<1>4. Cardinality({}) = 0
  BY FS_EmptySet
<1> QED
  BY <1>1, <1>2, <1>3, <1>4 DEF Follows

(* The bin is exchanged with every connection that was linked to it. *)
LEMMA RelinkedFollows ==
  ASSUME NEW p, NEW st, Follows(p, st), NEW size \in Sizes
  PROVE  Follows([p EXCEPT !.bin = 1 - @, !.size = size, !.locked = FALSE, !.back = 0,
                           !.link = Relinked(p)], st)
<1>1. PICK q : q = [p EXCEPT !.bin = 1 - @, !.size = size, !.locked = FALSE, !.back = 0,
                             !.link = Relinked(p)]
  OBVIOUS
<1>2. p \in Streams /\ p.bin \in {0, 1} /\ 1 - p.bin \in {0, 1}
  BY FollowsAlive
<1>3. Relinked(p) \in [Connections -> {0, 1, NoBin}]
  BY <1>2 DEF Relinked, Streams
<1>4. /\ q \in Streams /\ q.bin = 1 - p.bin /\ q.connections = p.connections
      /\ q.startedCount = p.startedCount /\ q.toldStarted = p.toldStarted
      /\ q.toldConnected = p.toldConnected /\ q.link = Relinked(p)
  <2>1. PICK m \in {0, 1} : m = 1 - p.bin
    BY <1>2
  <2>2. PICK l \in [Connections -> {0, 1, NoBin}] : l = Relinked(p)
    BY <1>3
  <2>3. q = [p EXCEPT !.bin = m, !.size = size, !.locked = FALSE, !.back = 0, !.link = l]
    BY <1>1, <2>1, <2>2
  <2>4. q \in Streams
    <3>1. FALSE \in BOOLEAN /\ 0 \in Int
      OBVIOUS
    <3> QED
      BY <1>2, <2>3, <3>1, ZenonT(40) DEF Streams
  <2>5. /\ q.bin = m /\ q.connections = p.connections
        /\ q.startedCount = p.startedCount /\ q.toldStarted = p.toldStarted
        /\ q.toldConnected = p.toldConnected /\ q.link = l
    BY <1>2, <2>3 DEF Streams
  <2> QED
    BY <2>1, <2>2, <2>4, <2>5
<1>5. \A c \in Connections : q.link[c] = IF st[c] = "none" THEN NoBin ELSE q.bin
  BY <1>4 DEF Relinked, Follows, Known
<1>6. Follows(q, st)
  BY <1>4, <1>5 DEF Follows
<1> QED
  BY <1>1, <1>6

(* Writing a frame concerns no connection. *)
LEMMA WriteFollows ==
  ASSUME NEW p, NEW st, Follows(p, st), NEW locked \in BOOLEAN, NEW back \in Int
  PROVE  /\ Follows([p EXCEPT !.locked = locked, !.back = back], st)
         /\ [p EXCEPT !.locked = locked, !.back = back].bin = p.bin
<1>1. PICK q : q = [p EXCEPT !.locked = locked, !.back = back]
  OBVIOUS
<1>2. p \in Streams
  BY FollowsAlive
<1>3. /\ q \in Streams /\ q.bin = p.bin /\ q.connections = p.connections
      /\ q.startedCount = p.startedCount /\ q.toldStarted = p.toldStarted
      /\ q.toldConnected = p.toldConnected /\ q.link = p.link
  BY <1>1, <1>2 DEF Streams
<1>4. Follows(q, st)
  BY <1>3 DEF Follows
<1> QED
  BY <1>1, <1>3, <1>4

LEMMA PluginStep ==
  ASSUME StreamInv, StreamNext
  PROVE  /\ StreamInv'
         /\ \/ make_stream /\ plugin'.bin = 0
            \/ NewBuffers /\ plugin'.bin # plugin.bin
            \/ /\ plugin'.bin = plugin.bin /\ locks' = locks
               /\ front' = front \/ locks = 0
<1>1. CASE make_stream
  <2>1. plugin = Gone /\ status = [c \in Connections |-> "none"]
    BY <1>1, FollowsAlive DEF StreamInv, make_stream, Alive
  <2>2. Follows(plugin', status')
    BY <1>1, <2>1, NewStreamFollows DEF make_stream
  <2>3. plugin'.bin = 0
    BY <1>1 DEF make_stream, Gone
  <2> QED
    BY <1>1, <2>2, <2>3 DEF StreamInv, make_stream
<1>2. ASSUME NEW size \in Sizes, set_additional_buffer_size(size)
      PROVE  StreamInv' /\ NewBuffers /\ plugin'.bin # plugin.bin
  <2>1. Follows(plugin, status) /\ plugin \in Streams /\ plugin.bin \in {0, 1}
    BY <1>2, FollowsAlive DEF StreamInv, set_additional_buffer_size, Alive
  <2>2. Follows(plugin', status')
    BY <1>2, <2>1, RelinkedFollows DEF set_additional_buffer_size
  <2>3. plugin'.bin = 1 - plugin.bin
    BY <1>2, <2>1 DEF set_additional_buffer_size, Streams
  <2> QED
    BY <1>2, <2>1, <2>2, <2>3 DEF StreamInv, set_additional_buffer_size, NewBuffers
<1>3. CASE begin_write(middle + 1)
  <2>1. Follows(plugin, status) /\ middle + 1 \in Int
    BY <1>3 DEF StreamInv, begin_write, Alive
  <2>2. Follows(plugin', status') /\ plugin'.bin = plugin.bin
    BY <1>3, <2>1, WriteFollows DEF begin_write
  <2> QED
    BY <1>3, <2>2 DEF StreamInv, begin_write
<1>4. CASE end_write
  <2>1. Follows(plugin, status) /\ plugin.back \in Int
    BY <1>4, FollowsAlive DEF StreamInv, end_write, Alive, Streams
  <2>2. Follows(plugin', status') /\ plugin'.bin = plugin.bin
    <3>1. \A locked \in BOOLEAN, back \in Int :
             /\ Follows([plugin EXCEPT !.locked = locked, !.back = back], status)
             /\ [plugin EXCEPT !.locked = locked, !.back = back].bin = plugin.bin
      BY <2>1, WriteFollows
    <3>2. plugin' = [plugin EXCEPT !.locked = FALSE, !.back = 0] /\ status' = status
      BY <1>4 DEF end_write
    <3>3. FALSE \in BOOLEAN /\ 0 \in Int
      OBVIOUS
    <3> QED
      BY <3>1, <3>2, <3>3
  <2> QED
    BY <1>4, <2>1, <2>2 DEF StreamInv, end_write, Cycle
<1>5. CASE destroy_stream
  <2>1. plugin.bin # NoBin
    BY <1>5, FollowsAlive DEF StreamInv, destroy_stream, Alive, NoBin
  <2> QED
    BY <1>5, <2>1 DEF StreamInv, destroy_stream, NewBuffers, Gone
<1> QED
  BY <1>1, <1>2, <1>3, <1>4, <1>5 DEF StreamNext

LEMMA StreamStep == StreamInv /\ [AstraNext]_astraVars => StreamInv'
<1> SUFFICES ASSUME StreamInv, [AstraNext]_astraVars PROVE StreamInv'
  OBVIOUS
<1>0. UNCHANGED streamVars => StreamInv'
  BY DEF streamVars, StreamInv
<1>00. plugin' = plugin /\ status' = status /\ middle' = middle => StreamInv'
  BY DEF StreamInv
<1>1. CASE create_reader \/ StreamReaderCopied
  BY <1>0, <1>1 DEF create_reader, StreamReaderCopied
<1>2. CASE StreamReaderDropped \/ ListenerReturns
  <2>1. CASE UNCHANGED streamVars
    BY <1>0, <2>1
  <2>2. CASE Removed(Own) /\ middle' = middle
    BY <2>2, RemovedStep, OwnAssumption
  <2>3. CASE UNCHANGED <<plugin, status>> /\ middle' = middle
    BY <1>00, <2>3
  <2> QED
    BY <1>2, <2>1, <2>2, <2>3 DEF StreamReaderDropped, ListenerReturns, ReaderDestroyed, Unlock
<1>3. ASSUME NEW l \in Listeners, add_listener(l) \/ remove_listener(l) PROVE StreamInv'
  BY <1>0, <1>3 DEF add_listener, remove_listener
<1>4. ASSUME NEW list, NEW k \in Refs, notify_listeners(list, k) PROVE StreamInv'
  BY <1>00, <1>4 DEF notify_listeners, Lock
<1>5. CASE NotifyCrashes
  BY <1>0, <1>5 DEF NotifyCrashes
<1>6. ASSUME NEW f \in FrameVars,
             \/ frame_dropped(f) \/ frame_kept(f) \/ HandFrame_acquire(f)
             \/ ImageFrame_acquire(f) \/ BodyFrame_acquire(f)
      PROVE  StreamInv'
  BY <1>0, <1>00, <1>6 DEF frame_dropped, Unlock, frame_kept, HandFrame_acquire,
     ImageFrame_acquire, BodyFrame_acquire, Acquired
<1>7. ASSUME NEW f \in FrameVars, NEW g \in FrameVars, frame_copied(f, g) PROVE StreamInv'
  BY <1>0, <1>7 DEF frame_copied
<1>8. ASSUME NEW f \in FrameVars, NEW k \in Refs, get_latest_frame(f, k) PROVE StreamInv'
  BY <1>00, <1>8 DEF get_latest_frame, Lock
<1>9. CASE verify_handpoints \/ ImageFrame_data \/ BodyFrame_bodies \/ view_dropped
  BY <1>0, <1>9 DEF verify_handpoints, ImageFrame_data, BodyFrame_bodies, ReadsFrame,
     view_dropped
<1>10. CASE get_stream \/ start \/ stop
  BY <1>10, OwnAssumption, ConnectionStep DEF get_stream, start, stop
<1>11. CASE OtherReader
  BY <1>11, ConnectionStep DEF OtherReader
<1>12. CASE PluginSteps
  BY <1>12, PluginStep DEF PluginSteps
<1>13. CASE UNCHANGED astraVars
  BY <1>0, <1>13 DEF astraVars
<1> QED
  BY <1>1, <1>2, <1>3, <1>4, <1>5, <1>6, <1>7, <1>8, <1>9, <1>10, <1>11, <1>12, <1>13
     DEF AstraNext

LEMMA StreamInvariant == AstraSpec => []StreamInv
<1>1. AstraInit => StreamInv
  BY DEF AstraInit, StreamInit, StreamInv
<1> QED
  BY <1>1, StreamStep, PTL DEF AstraSpec

(* The derived class of single_bin_stream is told to start its sensor and  *)
(* to stop it exactly when the first connection starts and the last one    *)
(* stops, and every connection feeds from the bin that is written now, for *)
(* any number of connections, through every exchange of the bin.           *)
THEOREM ConnectionsFollowed == AstraSpec => []StreamFollowsConnections
<1>1. StreamInv => StreamFollowsConnections
  BY DEF StreamInv, StreamFollowsConnections, Alive, Follows, Known, Started
<1> QED
  BY <1>1, StreamInvariant, PTL

-----------------------------------------------------------------------------
(* The frames a reader has open.                                           *)

RefStates == [kind : {"free", "null", "open", "lent"}, there : BOOLEAN]
There == {k \in Refs : ref[k].there}

(* The FrameRef objects: only a frame that was opened has data, and one of *)
(* them is a notification's exactly while a notification is under way.     *)
RefsInv ==
  /\ turn \in Nat
  /\ ref \in [Refs -> RefStates]
  /\ slot \in [FrameVars -> Refs \cup {NULL}]
  /\ \A k \in Refs : ref[k].there => ref[k].kind \in {"open", "lent"}
  /\ Idle => \A k \in Refs : ~Lent(k)
  /\ ~Idle => \E k \in Refs : Lent(k) /\ \A j \in Refs : Lent(j) => j = k

(* The locks count the FrameRefs whose data exists, for which the stream   *)
(* must exist too.                                                         *)
LocksInv ==
  /\ locks = Cardinality(There)
  /\ ready \/ There # {} => Alive

(* A view's frame exists, and is the one the view was made for.            *)
ViewInv ==
  view # NULL => /\ view.ref \in Refs /\ ref[view.ref].there
                 /\ front = view.frameIndex
                 /\ view.data \in {0, view.frameIndex}
                 /\ view = [ref |-> view.ref, class |-> view.class,
                            frameIndex |-> view.frameIndex, data |-> view.data]

FrameInv == RefsInv /\ LocksInv /\ ViewInv

LEMMA ThereFinite == IsFiniteSet(There) /\ Cardinality(There) \in Nat
<1>1. There \subseteq Refs
  BY DEF There
<1> QED
  BY <1>1, RefsAssumption, FS_Subset, FS_CardinalityType

LEMMA ThereFiniteNext == (IsFiniteSet(There) /\ Cardinality(There) \in Nat)'
BY ThereFinite, PTL

LEMMA ThereCount == Cardinality(There) = 0 <=> There = {}
BY ThereFinite, FS_EmptySet

LEMMA AliveBin == StreamInv => (Alive <=> plugin.bin # NoBin)
BY FollowsAlive DEF StreamInv, Alive, NoBin, Gone

LEMMA AliveStays ==
  ASSUME StreamInv, StreamInv', plugin'.bin = plugin.bin
  PROVE  Alive' <=> Alive
<1>1. StreamInv' => (Alive' <=> plugin'.bin # NoBin)
  <2>1. (StreamInv => (Alive <=> plugin.bin # NoBin))'
    BY AliveBin, PTL
  <2> QED
    BY <2>1 DEF NoBin
<1> QED
  BY <1>1, AliveBin

(* The view is given up with its frame; otherwise the frame has to stay.   *)
LEMMA ViewStep ==
  ASSUME ViewInv, StillThere, There' \subseteq There, There' # {} => front' = front
  PROVE  ViewInv'
<1> SUFFICES ASSUME view' # NULL
             PROVE  /\ view'.ref \in Refs /\ ref'[view'.ref].there
                    /\ front' = view'.frameIndex
                    /\ view'.data \in {0, view'.frameIndex}
                    /\ view' = [ref |-> view'.ref, class |-> view'.class,
                                frameIndex |-> view'.frameIndex, data |-> view'.data]
  BY DEF ViewInv
<1>1. view' = view /\ view # NULL /\ ref'[view.ref].there
  BY DEF StillThere
<1>2. view.ref \in There'
  BY <1>1 DEF ViewInv, There
<1> QED
  BY <1>1, <1>2 DEF ViewInv

(* A reader or a bin that goes takes every frame with it. *)
LEMMA GoneFrames ==
  ASSUME NEW refs \in [Refs -> RefStates],
         \A k \in Refs : refs[k].there => refs[k].kind \in {"open", "lent"}
  PROVE  /\ FramesGone(refs) \in [Refs -> RefStates]
         /\ \A k \in Refs : ~FramesGone(refs)[k].there
<1> SUFFICES ASSUME NEW k \in Refs
             PROVE  FramesGone(refs)[k] \in RefStates /\ ~FramesGone(refs)[k].there
  BY DEF FramesGone
<1>1. refs[k] \in RefStates
  OBVIOUS
<1>2. CASE refs[k].kind \in {"open", "lent"}
  <2>1. FramesGone(refs)[k] = [refs[k] EXCEPT !.there = FALSE]
    BY <1>2 DEF FramesGone
  <2> QED
    BY <1>1, <2>1 DEF RefStates
<1>3. CASE refs[k].kind \notin {"open", "lent"}
  <2>1. FramesGone(refs)[k] = refs[k]
    BY <1>3 DEF FramesGone
  <2> QED
    BY <1>1, <1>3, <2>1
<1> QED
  BY <1>2, <1>3

(* With no frame left, the locks and the view follow. *)
LEMMA NothingThere ==
  ASSUME StreamInv', FrameInv, ref' \in [Refs -> RefStates], \A k \in Refs : ~ref'[k].there,
         slot' = slot, turn' = 0, locks' = 0, ready' => Alive', StillThere
  PROVE  FrameInv'
<1>1. There' = {}
  BY DEF There
<1>2. RefsInv'
  BY DEF FrameInv, RefsInv, Idle, Lent
<1>3. LocksInv'
  BY <1>1, FS_EmptySet DEF LocksInv
<1>4. ViewInv'
  BY <1>1, ViewStep DEF FrameInv
<1> QED
  BY <1>2, <1>3, <1>4 DEF FrameInv

(* What no FrameRef is concerned with. *)
LEMMA FramesUntouched ==
  ASSUME StreamInv, StreamInv', FrameInv, plugin'.bin = plugin.bin,
         ref' = ref, locks' = locks, front' = front, ready' = ready,
         turn' \in Nat, turn' = 0 <=> turn = 0
  PROVE  /\ slot' \in [FrameVars -> Refs \cup {NULL}] => RefsInv'
         /\ LocksInv' /\ There' = There
         /\ view' = view => ViewInv'
<1>1. There' = There
  BY DEF There
<1>2. slot' \in [FrameVars -> Refs \cup {NULL}] => RefsInv'
  BY DEF FrameInv, RefsInv, Idle, Lent
<1>3. LocksInv'
  BY <1>1, AliveStays DEF FrameInv, LocksInv
<1>4. view' = view => ViewInv'
  BY DEF FrameInv, ViewInv
<1> QED
  BY <1>1, <1>2, <1>3, <1>4

(* A frame is opened for a FrameRef that was free. *)
LEMMA FrameOpened ==
  ASSUME StreamInv, StreamInv', FrameInv, Alive, plugin' = plugin, Lock,
         NEW k \in Refs, ref[k].kind = "free", NEW kind \in {"open", "lent"},
         ref' = [ref EXCEPT ![k] = [kind |-> kind, there |-> TRUE]],
         slot' \in [FrameVars -> Refs \cup {NULL}], view' = view,
         kind = "lent" => Idle /\ turn' = 1,
         kind = "open" => turn' = turn
  PROVE  FrameInv'
<1>1. ref \in [Refs -> RefStates] /\ ~ref[k].there
  BY DEF FrameInv, RefsInv
<1>2. ref' \in [Refs -> RefStates]
  BY <1>1 DEF RefStates
<1>3. \A j \in Refs : ref'[j] = IF j = k THEN [kind |-> kind, there |-> TRUE] ELSE ref[j]
  BY <1>1
<1>4. There' = There \cup {k} /\ k \notin There
  BY <1>1, <1>3 DEF There
<1>5. Cardinality(There') = Cardinality(There) + 1
  BY <1>4, ThereFinite, FS_AddElement
<1>6. LocksInv'
  BY <1>5 DEF FrameInv, LocksInv, Lock, Alive
<1>7. ViewInv'
  BY <1>1, <1>3 DEF FrameInv, ViewInv, Lock
<1>8. \A j \in Refs : ref'[j].there => ref'[j].kind \in {"open", "lent"}
  BY <1>3 DEF FrameInv, RefsInv
<1>9. CASE kind = "lent"
  <2>1. turn' = 1 /\ \A j \in Refs : ~Lent(j)
    BY <1>9 DEF FrameInv, RefsInv
  <2>2. \A j \in Refs : Lent(j)' <=> j = k
    BY <1>3, <1>9, <2>1 DEF Lent
  <2> QED
    BY <1>2, <1>6, <1>7, <1>8, <2>1, <2>2 DEF FrameInv, RefsInv, Idle
<1>10. CASE kind = "open"
  <2>1. \A j \in Refs : Lent(j)' <=> Lent(j)
    BY <1>1, <1>3, <1>10 DEF Lent
  <2>2. turn' = turn /\ turn \in Nat
    BY <1>10 DEF FrameInv, RefsInv
  <2> QED
    BY <1>2, <1>6, <1>7, <1>8, <2>1, <2>2 DEF FrameInv, RefsInv, Idle
<1> QED
  BY <1>9, <1>10

(* A notification that finds nobody left to call opens nothing. *)
LEMMA NotifyFrames ==
  ASSUME StreamInv, StreamInv', FrameInv, NEW list, NEW k \in Refs, notify_listeners(list, k)
  PROVE  FrameInv'
<1>1. Alive /\ Idle /\ ref[k].kind = "free" /\ plugin' = plugin /\ view' = view /\ slot' = slot
  BY DEF notify_listeners, FrameInv, LocksInv
<1>2. slot' \in [FrameVars -> Refs \cup {NULL}]
  BY <1>1 DEF FrameInv, RefsInv
<1>3. CASE Listening(list) = <<>>
  <2>1. turn' = turn /\ turn \in Nat /\ ref' = ref /\ locks' = locks /\ front' = front
    BY <1>1, <1>3 DEF notify_listeners, Idle, FrameInv, RefsInv
  <2>2. There' = There /\ Alive'
    BY <1>1, <2>1 DEF There, Alive
  <2>3. RefsInv'
    BY <1>1, <2>1 DEF FrameInv, RefsInv, Idle, Lent
  <2>4. LocksInv'
    BY <2>1, <2>2 DEF FrameInv, LocksInv
  <2>5. ViewInv'
    BY <1>1, <2>1 DEF FrameInv, ViewInv
  <2> QED
    BY <2>3, <2>4, <2>5 DEF FrameInv
<1>4. CASE Listening(list) # <<>>
  <2>1. turn' = 1 /\ Lock /\ ref' = [ref EXCEPT ![k] = [kind |-> "lent", there |-> TRUE]]
    BY <1>4 DEF notify_listeners
  <2> QED
    BY <1>1, <1>2, <2>1, FrameOpened
<1> QED
  BY <1>3, <1>4

(* The last listener has returned: the notification's frame is closed,     *)
(* whoever keeps its FrameRef.                                             *)
LEMMA LentEndsFrames ==
  ASSUME FrameInv, ~Idle
  PROVE  /\ LentEnds \in [Refs -> RefStates]
         /\ \A k \in Refs : LentEnds[k].there => LentEnds[k].kind = "open" /\ ref[k].there
         /\ {k \in Refs : LentEnds[k].there} = There \ {k \in Refs : Lent(k)}
<1>1. ref \in [Refs -> RefStates] /\ \A k \in Refs : ref[k].there => ref[k].kind \in {"open", "lent"}
  BY DEF FrameInv, RefsInv
<1>2. \A k \in Refs :
        /\ Lent(k) => LentEnds[k] \in RefStates /\ ~LentEnds[k].there
        /\ ~Lent(k) => LentEnds[k] = ref[k]
  <2> SUFFICES ASSUME NEW k \in Refs
               PROVE  /\ Lent(k) => LentEnds[k] \in RefStates /\ ~LentEnds[k].there
                      /\ ~Lent(k) => LentEnds[k] = ref[k]
    OBVIOUS
  <2>1. CASE ~Lent(k)
    BY <2>1 DEF LentEnds
  <2>2. CASE Lent(k) /\ Kept(k)
    <3>1. LentEnds[k] = [ref[k] EXCEPT !.there = FALSE]
      BY <2>2 DEF LentEnds
    <3>2. PICK r \in RefStates : r = ref[k]
      BY <1>1
    <3>3. [r EXCEPT !.there = FALSE] \in RefStates /\ ~[r EXCEPT !.there = FALSE].there
      BY DEF RefStates
    <3> QED
      BY <2>2, <3>1, <3>2, <3>3
  <2>3. CASE Lent(k) /\ ~Kept(k)
    <3>1. LentEnds[k] = NoRef
      BY <2>3 DEF LentEnds
    <3>2. NoRef \in RefStates /\ ~NoRef.there
      BY DEF NoRef, RefStates
    <3> QED
      BY <2>3, <3>1, <3>2
  <2> QED
    BY <2>1, <2>2, <2>3
<1>3. LentEnds \in [Refs -> RefStates]
  BY <1>1, <1>2 DEF LentEnds
<1>4. \A k \in Refs : LentEnds[k].there => LentEnds[k].kind = "open" /\ ref[k].there
  BY <1>1, <1>2 DEF Lent
<1>5. \A k \in Refs : LentEnds[k].there <=> ref[k].there /\ ~Lent(k)
  BY <1>1, <1>2 DEF Lent
<1> QED
  BY <1>3, <1>4, <1>5 DEF There

LEMMA ReturnFrames ==
  ASSUME StreamInv, StreamInv', FrameInv, ListenerReturns
  PROVE  FrameInv'
<1>0. ~Idle /\ StillThere /\ slot' = slot
  BY DEF ListenerReturns
<1>00. turn \in Nat /\ slot \in [FrameVars -> Refs \cup {NULL}]
  BY DEF FrameInv, RefsInv
<1>1. CASE turn < Len(reader.listeners)
  <2>1. /\ plugin' = plugin /\ ref' = ref /\ locks' = locks /\ front' = front /\ ready' = ready
        /\ turn' = turn + 1
    BY <1>1 DEF ListenerReturns, streamVars
  <2>2. turn' \in Nat /\ (turn' = 0 <=> turn = 0)
    BY <1>0, <1>00, <2>1 DEF Idle
  <2>3. RefsInv' /\ LocksInv' /\ There' = There
    BY <1>0, <1>00, <2>1, <2>2, FramesUntouched
  <2>4. ViewInv'
    BY <1>0, <2>1, <2>3, ViewStep DEF FrameInv
  <2> QED
    BY <2>3, <2>4 DEF FrameInv
<1>2. CASE ~(turn < Len(reader.listeners)) /\ handles = 0
  <2>1. /\ turn' = 0 /\ ref' = FramesGone(LentEnds) /\ locks' = 0 /\ ready' = FALSE
    BY <1>2 DEF ListenerReturns, ReaderDestroyed
  <2>2. ref' \in [Refs -> RefStates] /\ \A k \in Refs : ~ref'[k].there
    BY <1>0, <2>1, LentEndsFrames, GoneFrames
  <2> QED
    BY <1>0, <2>1, <2>2, NothingThere
<1>3. CASE ~(turn < Len(reader.listeners)) /\ handles # 0
  <2>1. /\ turn' = 0 /\ ref' = LentEnds /\ Unlock(1 + ClosedWithWrapper)
        /\ plugin' = plugin /\ ready' = ready
    BY <1>3 DEF ListenerReturns
  <2>2. ClosedWithWrapper = 0
    BY DEF ClosedWithWrapper, autoCloseFrame
  <2>3. PICK k \in Refs : Lent(k) /\ \A j \in Refs : Lent(j) => j = k
    BY <1>0 DEF FrameInv, RefsInv
  <2>4. There' = There \ {k} /\ k \in There
    <3>1. There' = {j \in Refs : LentEnds[j].there}
      BY <2>1 DEF There
    <3>2. {j \in Refs : Lent(j)} = {k}
      BY <2>3
    <3> QED
      BY <1>0, <2>3, <3>1, <3>2, LentEndsFrames DEF There, Lent
  <2>5. Cardinality(There') = Cardinality(There) - 1
    BY <2>4, ThereFinite, FS_RemoveElement
  <2>6. locks' = Cardinality(There') /\ (There' # {} => front' = front)
    <3>1. locks \in Nat /\ locks = Cardinality(There)
      BY ThereFinite DEF FrameInv, LocksInv
    <3>2. locks' = locks - 1 /\ front' = IF locks <= 1 THEN middle ELSE front
      BY <2>1, <2>2 DEF Unlock
    <3>3. There' # {} => Cardinality(There') # 0
      BY ThereFiniteNext, FS_EmptySet
    <3> QED
      BY <2>5, <3>1, <3>2, <3>3, ThereFiniteNext
  <2>7. LocksInv'
    BY <2>1, <2>4, <2>6 DEF FrameInv, LocksInv, Alive
  <2>8. RefsInv'
    <3>1. ref' \in [Refs -> RefStates] /\ \A j \in Refs : ref'[j].there => ref'[j].kind = "open"
      BY <1>0, <2>1, LentEndsFrames
    <3> QED
      BY <1>0, <1>00, <2>1, <3>1 DEF RefsInv, Idle, Lent
  <2>9. ViewInv'
    BY <1>0, <2>4, <2>6, ViewStep DEF FrameInv
  <2> QED
    BY <2>7, <2>8, <2>9 DEF FrameInv
<1> QED
  BY <1>1, <1>2, <1>3

LEMMA DroppedFrames ==
  ASSUME StreamInv, StreamInv', FrameInv, NEW f \in FrameVars, frame_dropped(f)
  PROVE  FrameInv'
<1>0. /\ StillThere /\ plugin' = plugin /\ ready' = ready /\ turn' = turn /\ turn \in Nat
      /\ slot' = [slot EXCEPT ![f] = NULL] /\ slot \in [FrameVars -> Refs \cup {NULL}]
      /\ slot[f] # NULL
  BY DEF frame_dropped, FrameInv, RefsInv
<1>1. slot' \in [FrameVars -> Refs \cup {NULL}] /\ slot[f] \in Refs
  BY <1>0
<1>2. ref \in [Refs -> RefStates] /\ \A k \in Refs : ref[k].there => ref[k].kind \in {"open", "lent"}
  BY DEF FrameInv, RefsInv
<1>3. CASE ~LastHolder(f)
  <2>1. ref' = ref /\ front' = front /\ locks' = locks
    BY <1>3 DEF frame_dropped
  <2>2. RefsInv' /\ LocksInv' /\ There' = There
    BY <1>0, <1>1, <2>1, FramesUntouched
  <2>3. ViewInv'
    BY <1>0, <2>1, <2>2, ViewStep DEF FrameInv
  <2> QED
    BY <2>2, <2>3 DEF FrameInv
<1>4. CASE LastHolder(f)
  <2>1. ref' = [ref EXCEPT ![slot[f]] = NoRef] /\ ~Lent(slot[f])
    BY <1>4 DEF frame_dropped, LastHolder
  <2>2. PICK k \in Refs : k = slot[f]
    BY <1>1
  <2>3. \A j \in Refs : ref'[j] = IF j = k THEN NoRef ELSE ref[j]
    BY <1>2, <2>1, <2>2
  <2>4. ref' \in [Refs -> RefStates]
    BY <1>2, <2>1, <2>2 DEF NoRef, RefStates
  <2>5. \A j \in Refs : Lent(j)' <=> Lent(j)
    BY <2>1, <2>2, <2>3 DEF Lent, NoRef
  <2>6. RefsInv'
    BY <1>0, <1>1, <1>2, <2>3, <2>4, <2>5 DEF FrameInv, RefsInv, Idle, NoRef
  <2>7. There' = There \ {k}
    BY <2>3 DEF There, NoRef
  <2>8. locks' = Cardinality(There') /\ (There' # {} => front' = front)
    <3>1. locks \in Nat /\ locks = Cardinality(There)
      BY ThereFinite DEF FrameInv, LocksInv
    <3>2. CASE ClosesFrame(k)
      <4>1. k \in There
        BY <3>2 DEF ClosesFrame, There
      <4>2. Cardinality(There') = Cardinality(There) - 1
        BY <2>7, <4>1, ThereFinite, FS_RemoveElement
      <4>3. locks' = locks - 1 /\ front' = IF locks <= 1 THEN middle ELSE front
        BY <1>4, <2>2, <3>2 DEF frame_dropped, Unlock
      <4>4. There' # {} => Cardinality(There') # 0
        BY ThereFiniteNext, FS_EmptySet
      <4> QED
        BY <3>1, <4>2, <4>3, <4>4, ThereFiniteNext
    <3>3. CASE ~ClosesFrame(k)
      <4>1. k \notin There
        BY <1>2, <2>1, <2>2, <3>3 DEF ClosesFrame, autoCloseFrame, Lent, There
      <4>2. There' = There
        BY <2>7, <4>1
      <4> QED
        BY <1>4, <2>2, <3>1, <3>3, <4>2 DEF frame_dropped
    <3> QED
      BY <3>2, <3>3
  <2>9. LocksInv'
    BY <1>0, <2>7, <2>8 DEF FrameInv, LocksInv, Alive
  <2>10. ViewInv'
    BY <1>0, <2>7, <2>8, ViewStep DEF FrameInv
  <2> QED
    BY <2>6, <2>9, <2>10 DEF FrameInv
<1> QED
  BY <1>3, <1>4

LEMMA LatestFrames ==
  ASSUME StreamInv, StreamInv', FrameInv, NEW f \in FrameVars, NEW k \in Refs,
         get_latest_frame(f, k)
  PROVE  FrameInv'
<1>1. /\ plugin' = plugin /\ ready' = ready /\ turn' = turn /\ view' = view
      /\ ref[k].kind = "free" /\ slot' = [slot EXCEPT ![f] = k]
      /\ slot \in [FrameVars -> Refs \cup {NULL}] /\ turn \in Nat
      /\ ref \in [Refs -> RefStates]
  BY DEF get_latest_frame, FrameInv, RefsInv
<1>2. slot' \in [FrameVars -> Refs \cup {NULL}] /\ ~ref[k].there
  BY <1>1 DEF FrameInv, RefsInv
<1>3. CASE Alive /\ Lock /\ ref' = [ref EXCEPT ![k] = [kind |-> "open", there |-> TRUE]]
  BY <1>1, <1>2, <1>3, FrameOpened
<1>4. CASE /\ ref' = [ref EXCEPT ![k] = [kind |-> "null", there |-> FALSE]]
           /\ UNCHANGED <<front, middle, locks>>
  <2>1. \A j \in Refs : ref'[j] = IF j = k THEN [kind |-> "null", there |-> FALSE] ELSE ref[j]
    BY <1>1, <1>4
  <2>2. ref' \in [Refs -> RefStates]
    BY <1>1, <1>4 DEF RefStates
  <2>3. There' = There /\ \A j \in Refs : Lent(j)' <=> Lent(j)
    BY <1>2, <2>1 DEF There, Lent
  <2>4. RefsInv'
    BY <1>1, <1>2, <2>1, <2>2, <2>3 DEF FrameInv, RefsInv, Idle
  <2>5. LocksInv'
    BY <1>1, <1>4, <2>3 DEF FrameInv, LocksInv, Alive
  <2>6. ViewInv'
    BY <1>1, <1>2, <1>4, <2>1 DEF FrameInv, ViewInv
  <2> QED
    BY <2>4, <2>5, <2>6 DEF FrameInv
<1> QED
  BY <1>3, <1>4 DEF get_latest_frame

(* A view takes the frame it is made from, and reads it while it exists. *)
LEMMA ViewFrames ==
  ASSUME StreamInv, StreamInv', FrameInv,
         \/ \E f \in FrameVars, class \in {"copies", "points"} : Acquired(f, class)
         \/ view # NULL /\ ReadsFrame
         \/ view_dropped
  PROVE  FrameInv'
<1>1. /\ plugin' = plugin /\ ref' = ref /\ slot' = slot /\ turn' = turn /\ ready' = ready
      /\ front' = front /\ locks' = locks
  BY DEF Acquired, ReadsFrame, view_dropped, streamVars
<1>2. slot' \in [FrameVars -> Refs \cup {NULL}] /\ turn' \in Nat
  BY <1>1 DEF FrameInv, RefsInv
<1> SUFFICES ViewInv'
  BY <1>1, <1>2, FramesUntouched DEF FrameInv
<1>4. ASSUME NEW f \in FrameVars, NEW class \in {"copies", "points"}, Acquired(f, class)
      PROVE  ViewInv'
  <2>1. PICK k \in Refs : k = slot[f] /\ ref[k].there
    BY <1>4 DEF Acquired, FrameInv, RefsInv
  <2>2. view' = [ref |-> k, class |-> class, frameIndex |-> front,
                 data |-> IF class = "copies" THEN 0 ELSE front]
    BY <1>4, <2>1 DEF Acquired
  <2>3. /\ view'.ref = k /\ view'.frameIndex = front
        /\ view'.data = 0 \/ view'.data = front
        /\ view' = [ref |-> view'.ref, class |-> view'.class,
                    frameIndex |-> view'.frameIndex, data |-> view'.data]
    BY <2>2
  <2> QED
    BY <1>1, <2>1, <2>3 DEF ViewInv
<1>5. CASE view # NULL /\ ReadsFrame
  <2>1. view' = [view EXCEPT !.data = front]
    BY <1>5 DEF ReadsFrame
  <2>2. view = [ref |-> view.ref, class |-> view.class,
                frameIndex |-> view.frameIndex, data |-> view.data]
    BY <1>5 DEF FrameInv, ViewInv
  <2>3. view' = [ref |-> view.ref, class |-> view.class,
                 frameIndex |-> view.frameIndex, data |-> front]
    BY <2>1, <2>2
  <2>4. /\ view'.ref = view.ref /\ view'.class = view.class
        /\ view'.frameIndex = view.frameIndex /\ view'.data = front
    BY <2>3
  <2> QED
    BY <1>1, <1>5, <2>3, <2>4 DEF FrameInv, ViewInv
<1>6. CASE view_dropped
  BY <1>6 DEF view_dropped, ViewInv
<1> QED
  BY <1>4, <1>5, <1>6

LEMMA PluginFrames ==
  ASSUME StreamInv, StreamInv', FrameInv, PluginSteps
  PROVE  FrameInv'
<1>0. /\ Idle /\ turn' = turn /\ turn = 0 /\ slot' = slot /\ StillThere
      /\ ref' = IF plugin'.bin # plugin.bin THEN FramesGone(ref) ELSE ref
      /\ ready' => Alive'
  BY DEF PluginSteps, Idle, Alive
<1>1. /\ ref \in [Refs -> RefStates] /\ slot \in [FrameVars -> Refs \cup {NULL}]
      /\ \A k \in Refs : ref[k].there => ref[k].kind \in {"open", "lent"}
  BY DEF FrameInv, RefsInv
<1>2. \/ make_stream /\ plugin'.bin = 0
      \/ NewBuffers /\ plugin'.bin # plugin.bin
      \/ plugin'.bin = plugin.bin /\ locks' = locks /\ (front' = front \/ locks = 0)
  BY PluginStep DEF PluginSteps
<1>3. CASE make_stream /\ plugin'.bin = 0
  <2>1. plugin.bin = NoBin
    BY <1>3, AliveBin DEF make_stream
  <2>2. There = {} /\ locks = 0 /\ locks' = locks
    BY <1>3, ThereCount DEF make_stream, FrameInv, LocksInv
  <2>3. ref' \in [Refs -> RefStates] /\ \A k \in Refs : ~ref'[k].there
    BY <1>0, <1>1, <1>3, <2>1, GoneFrames DEF NoBin
  <2> QED
    BY <1>0, <2>2, <2>3, NothingThere
<1>4. CASE NewBuffers /\ plugin'.bin # plugin.bin
  <2>1. ref' \in [Refs -> RefStates] /\ \A k \in Refs : ~ref'[k].there
    BY <1>0, <1>1, <1>4, GoneFrames
  <2> QED
    BY <1>0, <1>4, <2>1, NothingThere DEF NewBuffers
<1>5. CASE plugin'.bin = plugin.bin /\ locks' = locks /\ (front' = front \/ locks = 0)
  <2>1. ref' = ref /\ There' = There
    BY <1>0, <1>5 DEF There
  <2>2. Alive' <=> Alive
    BY <1>5, AliveStays
  <2>3. RefsInv'
    BY <1>0, <2>1 DEF FrameInv, RefsInv, Idle, Lent
  <2>4. LocksInv'
    BY <1>0, <1>5, <2>1, <2>2 DEF FrameInv, LocksInv
  <2>5. There' # {} => front' = front
    BY <1>5, <2>1, ThereCount DEF FrameInv, LocksInv
  <2>6. ViewInv'
    BY <1>0, <2>1, <2>5, ViewStep DEF FrameInv
  <2> QED
    BY <2>3, <2>4, <2>6 DEF FrameInv
<1> QED
  BY <1>2, <1>3, <1>4, <1>5

LEMMA FrameStep == StreamInv /\ StreamInv' /\ FrameInv /\ [AstraNext]_astraVars => FrameInv'
<1> SUFFICES ASSUME StreamInv, StreamInv', FrameInv, [AstraNext]_astraVars PROVE FrameInv'
  OBVIOUS
<1>00. /\ turn \in Nat /\ ref \in [Refs -> RefStates]
       /\ slot \in [FrameVars -> Refs \cup {NULL}]
       /\ \A k \in Refs : ref[k].there => ref[k].kind \in {"open", "lent"}
  BY DEF FrameInv, RefsInv
<1>0. ASSUME plugin'.bin = plugin.bin, ref' = ref, locks' = locks, front' = front,
             ready' = ready, turn' = turn, view' = view,
             slot' \in [FrameVars -> Refs \cup {NULL}]
      PROVE  FrameInv'
  BY <1>0, <1>00, FramesUntouched DEF FrameInv
<1>1. CASE create_reader \/ StreamReaderCopied
  BY <1>0, <1>00, <1>1 DEF create_reader, StreamReaderCopied, streamVars
<1>2. CASE StreamReaderDropped
  <2>1. StillThere /\ slot' = slot /\ turn' = turn
    BY <1>2 DEF StreamReaderDropped
  <2>2. CASE handles = 1 /\ Idle
    <3>1. turn = 0 /\ ref' = FramesGone(ref) /\ locks' = 0 /\ ready' = FALSE
      BY <1>2, <2>2 DEF StreamReaderDropped, ReaderDestroyed, Idle
    <3>2. ref' \in [Refs -> RefStates] /\ \A k \in Refs : ~ref'[k].there
      BY <1>00, <3>1, GoneFrames
    <3> QED
      BY <2>1, <3>1, <3>2, NothingThere
  <2>3. CASE ~(handles = 1 /\ Idle)
    <3>1. /\ plugin' = plugin /\ ref' = ref /\ locks' = locks /\ front' = front
          /\ ready' = ready
      BY <1>2, <2>3 DEF StreamReaderDropped, streamVars
    <3>2. RefsInv' /\ LocksInv' /\ There' = There
      BY <1>00, <2>1, <3>1, FramesUntouched
    <3>3. ViewInv'
      BY <2>1, <3>1, <3>2, ViewStep DEF FrameInv
    <3> QED
      BY <3>2, <3>3 DEF FrameInv
  <2> QED
    BY <2>2, <2>3
<1>3. CASE ListenerReturns
  BY <1>3, ReturnFrames
<1>4. ASSUME NEW l \in Listeners, add_listener(l) \/ remove_listener(l) PROVE FrameInv'
  BY <1>0, <1>00, <1>4 DEF add_listener, remove_listener, streamVars
<1>5. ASSUME NEW list, NEW k \in Refs, notify_listeners(list, k) PROVE FrameInv'
  BY <1>5, NotifyFrames
<1>6. CASE NotifyCrashes
  BY <1>0, <1>00, <1>6 DEF NotifyCrashes, streamVars
<1>7. ASSUME NEW f \in FrameVars, frame_dropped(f) PROVE FrameInv'
  BY <1>7, DroppedFrames
<1>8. ASSUME NEW f \in FrameVars, frame_kept(f) PROVE FrameInv'
  <2>1. slot' \in [FrameVars -> Refs \cup {NULL}]
    BY <1>00, <1>8 DEF frame_kept
  <2> QED
    BY <1>0, <1>8, <2>1 DEF frame_kept, streamVars
<1>9. ASSUME NEW f \in FrameVars, NEW g \in FrameVars, frame_copied(f, g) PROVE FrameInv'
  <2>1. slot' \in [FrameVars -> Refs \cup {NULL}]
    BY <1>00, <1>9 DEF frame_copied
  <2> QED
    BY <1>0, <1>9, <2>1 DEF frame_copied, streamVars
<1>10. ASSUME NEW f \in FrameVars, NEW k \in Refs, get_latest_frame(f, k) PROVE FrameInv'
  BY <1>10, LatestFrames
<1>11. ASSUME NEW f \in FrameVars,
              HandFrame_acquire(f) \/ ImageFrame_acquire(f) \/ BodyFrame_acquire(f)
       PROVE  FrameInv'
  BY <1>11, ViewFrames DEF HandFrame_acquire, ImageFrame_acquire, BodyFrame_acquire
<1>12. CASE verify_handpoints \/ ImageFrame_data \/ BodyFrame_bodies \/ view_dropped
  BY <1>12, ViewFrames DEF verify_handpoints, ImageFrame_data, BodyFrame_bodies
<1>13. CASE get_stream \/ start \/ stop \/ OtherReader
  <2>1. /\ plugin'.bin = plugin.bin /\ locks' = locks /\ front' = front
    <3>1. PICK c \in Connections : \/ connection_added(c) \/ connection_started(c)
                                   \/ connection_stopped(c) \/ connection_removed(c)
      BY <1>13, OwnAssumption DEF get_stream, start, stop, OtherReader
    <3> QED
      BY <3>1, ConnectionStep DEF connection_added, connection_started, connection_stopped,
         connection_removed
  <2>2. UNCHANGED readerVars
    BY <1>13 DEF get_stream, start, stop, OtherReader
  <2> QED
    BY <1>0, <1>00, <2>1, <2>2 DEF readerVars
<1>14. CASE PluginSteps
  BY <1>14, PluginFrames
<1>15. CASE UNCHANGED astraVars
  BY <1>0, <1>00, <1>15 DEF astraVars, streamVars, readerVars
<1> QED
  BY <1>1, <1>2, <1>3, <1>4, <1>5, <1>6, <1>7, <1>8, <1>9, <1>10, <1>11, <1>12, <1>13,
     <1>14, <1>15 DEF AstraNext

LEMMA FrameInvariant == AstraSpec => []FrameInv
<1>1. AstraInit => FrameInv
  <2> SUFFICES ASSUME AstraInit PROVE FrameInv
    OBVIOUS
  <2>1. ref = [k \in Refs |-> NoRef] /\ locks = 0 /\ view = NULL /\ turn = 0 /\ ~ready
    BY DEF AstraInit, StreamInit
  <2>2. \A k \in Refs : ref[k] = NoRef
    BY <2>1
  <2>3. NoRef \in RefStates /\ ~NoRef.there
    BY DEF NoRef, RefStates
  <2>4. There = {}
    BY <2>2, <2>3 DEF There
  <2>5. slot \in [FrameVars -> Refs \cup {NULL}]
    BY DEF AstraInit
  <2>6. RefsInv
    BY <2>1, <2>2, <2>3, <2>5 DEF RefsInv, Idle, Lent
  <2>7. LocksInv
    BY <2>1, <2>4, FS_EmptySet DEF LocksInv
  <2> QED
    BY <2>1, <2>6, <2>7 DEF FrameInv, ViewInv
<1> QED
  BY <1>1, FrameStep, StreamInvariant, PTL DEF AstraSpec

(* The frame in front is locked once for every FrameRef whose data still   *)
(* exists, whatever copies the application and its listeners keep and drop *)
(* in whatever order, and it does not change under a view: what HandFrame  *)
(* reads on first use has the index the view took at once.                 *)
THEOREM FramesStay == AstraSpec => []FrameStaysWhileHeld
<1>1. FrameInv => FrameStaysWhileHeld
  BY DEF FrameInv, LocksInv, ViewInv, There, FrameStaysWhileHeld
<1> QED
  BY <1>1, FrameInvariant, PTL

-----------------------------------------------------------------------------
(* Lists of listeners.                                                     *)

LEMMA Smallest ==
  ASSUME NEW S \in SUBSET Nat, S # {}
  PROVE  \E i \in S : \A j \in S : i <= j
<1> DEFINE less == {ss \in Nat \X Nat : ss[1] < ss[2]}
<1>1. IsWellFoundedOn(less, Nat)
  BY NatLessThanWellFounded DEF OpToRel
<1>2. \E i \in S : \A j \in S : <<j, i>> \notin less
  <2> HIDE DEF less
  <2> QED
    BY <1>1, WFMin
<1>3. PICK i \in S : \A j \in S : <<j, i>> \notin less
  BY <1>2
<1>4. \A j \in S : j \in Nat /\ i \in Nat /\ ~(j < i)
  BY <1>3
<1> QED
  BY <1>4

(* Lists that hold every listener once. *)
Distinct(s) == s \in Seq(Listeners) /\ IsInjective(s)

LEMMA DistinctList ==
  ASSUME NEW s, s \in Seq(Listeners)
  PROVE  /\ Distinct(s) <=> \A i, j \in 1 .. Len(s) : s[i] = s[j] => i = j
         /\ Len(s) \in Nat /\ DOMAIN s = 1 .. Len(s)
         /\ \A i \in 1 .. Len(s) : s[i] \in Listeners
         /\ \A l : Held(s, l) <=> \E i \in 1 .. Len(s) : s[i] = l
         /\ \A l : l \in ToSet(s) <=> Held(s, l)
         /\ s = <<>> <=> ToSet(s) = {}
<1>1. Len(s) \in Nat /\ DOMAIN s = 1 .. Len(s) /\ \A i \in 1 .. Len(s) : s[i] \in Listeners
  BY LenProperties, ElementOfSeq
<1>2. Distinct(s) <=> \A i, j \in 1 .. Len(s) : s[i] = s[j] => i = j
  BY <1>1 DEF Distinct, IsInjective
<1>3. \A l : Held(s, l) <=> \E i \in 1 .. Len(s) : s[i] = l
  BY <1>1 DEF Held
<1>4. \A l : l \in ToSet(s) <=> Held(s, l)
  BY <1>1 DEF Held, ToSet
<1>5. s = <<>> <=> Len(s) = 0
  BY EmptySeq
<1>6. ToSet(s) = {} <=> Len(s) = 0
  <2>1. Len(s) # 0 => 1 \in 1 .. Len(s)
    BY <1>1
  <2> QED
    BY <1>1, <1>3, <1>4, <2>1
<1> QED
  BY <1>1, <1>2, <1>3, <1>4, <1>5, <1>6

(* Adding a listener that is not in the list ... *)
LEMMA Appended ==
  ASSUME NEW s, Distinct(s), NEW l \in Listeners, ~Held(s, l)
  PROVE  Distinct(Append(s, l)) /\ ToSet(Append(s, l)) = ToSet(s) \cup {l}
<1>0. s \in Seq(Listeners)
  BY DEF Distinct
<1>1. PICK t : t = Append(s, l)
  OBVIOUS
<1>2. /\ t \in Seq(Listeners) /\ Len(t) = Len(s) + 1 /\ t[Len(s) + 1] = l
      /\ \A i \in 1 .. Len(s) : t[i] = s[i]
  BY <1>0, <1>1, AppendProperties
<1>3. Len(s) \in Nat /\ \A i \in 1 .. Len(t) : i \in 1 .. Len(s) \/ i = Len(s) + 1
  BY <1>0, <1>2, DistinctList
<1>4. \A i, j \in 1 .. Len(s) : s[i] = s[j] => i = j
  BY <1>0, DistinctList
<1>5. \A i \in 1 .. Len(s) : s[i] # l
  BY <1>0, DistinctList
<1>6. \A i, j \in 1 .. Len(t) : t[i] = t[j] => i = j
  BY <1>2, <1>3, <1>4, <1>5
<1>7. \A m : m \in ToSet(t) <=> m \in ToSet(s) \/ m = l
  <2>1. \A m : m \in ToSet(t) <=> \E i \in 1 .. Len(t) : t[i] = m
    BY <1>2, DistinctList
  <2>2. \A m : m \in ToSet(s) <=> \E i \in 1 .. Len(s) : s[i] = m
    BY <1>0, DistinctList
  <2>3. Len(s) + 1 \in 1 .. Len(t) /\ \A i \in 1 .. Len(s) : i \in 1 .. Len(t)
    BY <1>2, <1>3
  <2> QED
    BY <1>2, <1>3, <2>1, <2>2, <2>3
<1>8. Distinct(t)
  BY <1>2, <1>6, DistinctList
<1>9. ToSet(t) = ToSet(s) \cup {l}
  BY <1>7
<1> QED
  BY <1>1, <1>8, <1>9

(* ... and erasing one that is. *)
LEMMA WithoutOne ==
  ASSUME NEW s, Distinct(s), NEW l, Held(s, l)
  PROVE  Distinct(Without(s, l)) /\ ToSet(Without(s, l)) = ToSet(s) \ {l}
<1>0. s \in Seq(Listeners)
  BY DEF Distinct
<1>1. Len(s) \in Nat /\ \A i \in 1 .. Len(s) : s[i] \in Listeners
  BY <1>0, DistinctList
<1>2. PICK n \in 1 .. Len(s) : s[n] = l
  BY <1>0, DistinctList
<1>3. {i \in 1 .. Len(s) : s[i] = l} = {n}
  BY <1>0, <1>2, DistinctList
<1>4. Min({n}) = n
  <2>1. \A y \in {n} : n <= y
    BY <1>2
  <2> QED
    BY <2>1 DEF Min
<1>5. Without(s, l) = SubSeq(s, 1, n - 1) \o SubSeq(s, n + 1, Len(s))
  <2>1. SelectInSeq(s, LAMBDA v : v = l) = n
    BY <1>3, <1>4 DEF SelectInSeq
  <2>2. Without(s, l) = RemoveAt(s, SelectInSeq(s, LAMBDA v : v = l))
    BY <1>2 DEF Without, RemoveFirst
  <2> QED
    BY <2>1, <2>2 DEF RemoveAt
<1>6. PICK a : a = SubSeq(s, 1, n - 1)
  OBVIOUS
<1>7. PICK b : b = SubSeq(s, n + 1, Len(s))
  OBVIOUS
<1>8. a \in Seq(Listeners) /\ Len(a) = n - 1 /\ \A i \in 1 .. n - 1 : a[i] = s[i]
  <2>1. n - 1 \in Int /\ 1 \in Int /\ \A i \in 1 .. n - 1 : s[i] \in Listeners
    BY <1>1
  <2>2. /\ SubSeq(s, 1, n - 1) \in Seq(Listeners)
        /\ Len(SubSeq(s, 1, n - 1)) = IF 1 <= n - 1 THEN (n - 1) - 1 + 1 ELSE 0
        /\ \A i \in 1 .. (n - 1) - 1 + 1 : SubSeq(s, 1, n - 1)[i] = s[1 + i - 1]
    BY <2>1, SubSeqProperties
  <2>3. \A i \in 1 .. n - 1 : 1 + i - 1 = i /\ i \in 1 .. (n - 1) - 1 + 1
    OBVIOUS
  <2> QED
    BY <1>6, <2>2, <2>3
<1>9. /\ b \in Seq(Listeners) /\ Len(b) = Len(s) - n
      /\ \A i \in 1 .. Len(s) - n : b[i] = s[n + i]
  <2>1. n + 1 \in Int /\ Len(s) \in Int /\ \A i \in n + 1 .. Len(s) : s[i] \in Listeners
    BY <1>1
  <2>2. /\ SubSeq(s, n + 1, Len(s)) \in Seq(Listeners)
        /\ Len(SubSeq(s, n + 1, Len(s))) = IF n + 1 <= Len(s) THEN Len(s) - (n + 1) + 1 ELSE 0
        /\ \A i \in 1 .. Len(s) - (n + 1) + 1 : SubSeq(s, n + 1, Len(s))[i] = s[(n + 1) + i - 1]
    BY <2>1, SubSeqProperties
  <2>3. \A i \in 1 .. Len(s) - n : (n + 1) + i - 1 = n + i /\ i \in 1 .. Len(s) - (n + 1) + 1
    BY <1>1
  <2>4. Len(s) - n = IF n + 1 <= Len(s) THEN Len(s) - (n + 1) + 1 ELSE 0
    BY <1>1
  <2> QED
    BY <1>7, <2>2, <2>3, <2>4
<1>10. PICK t : t = a \o b
  OBVIOUS
<1>11. /\ t \in Seq(Listeners) /\ Len(t) = Len(s) - 1
       /\ \A i \in 1 .. Len(s) - 1 : t[i] = IF i < n THEN s[i] ELSE s[i + 1]
  <2>1. /\ t \in Seq(Listeners) /\ Len(t) = Len(a) + Len(b)
        /\ \A i \in 1 .. Len(a) + Len(b) : t[i] = IF i <= Len(a) THEN a[i] ELSE b[i - Len(a)]
    BY <1>8, <1>9, <1>10, ConcatProperties
  <2>2. ASSUME NEW i \in 1 .. Len(s) - 1
        PROVE  t[i] = IF i < n THEN s[i] ELSE s[i + 1]
    <3>1. CASE i < n
      BY <1>1, <1>8, <1>9, <2>1, <3>1, SMTT(30)
    <3>2. CASE ~(i < n)
      <4>1. i - (n - 1) \in 1 .. Len(s) - n /\ n + (i - (n - 1)) = i + 1
        BY <1>1, <3>2
      <4>2. b[i - (n - 1)] = s[i + 1]
        BY <1>9, <4>1
      <4> QED
        BY <1>1, <1>8, <1>9, <2>1, <3>2, <4>2
    <3> QED
      BY <3>1, <3>2
  <2> QED
    BY <1>1, <1>8, <1>9, <2>1, <2>2
<1>12. \A i, j \in 1 .. Len(s) : s[i] = s[j] => i = j
  BY <1>0, DistinctList
<1>13. \A i \in 1 .. Len(s) - 1 : \E k \in 1 .. Len(s) : /\ t[i] = s[k] /\ k # n
                                                         /\ k = IF i < n THEN i ELSE i + 1
  <2> SUFFICES ASSUME NEW i \in 1 .. Len(s) - 1
               PROVE  \E k \in 1 .. Len(s) : /\ t[i] = s[k] /\ k # n
                                             /\ k = IF i < n THEN i ELSE i + 1
    OBVIOUS
  <2>1. PICK k \in 1 .. Len(s) : k = IF i < n THEN i ELSE i + 1
    BY <1>1
  <2> QED
    BY <1>1, <1>11, <2>1
<1>14. \A k \in 1 .. Len(s) : k # n => \E i \in 1 .. Len(s) - 1 : t[i] = s[k]
  <2> SUFFICES ASSUME NEW k \in 1 .. Len(s), k # n
               PROVE  \E i \in 1 .. Len(s) - 1 : t[i] = s[k]
    OBVIOUS
  <2>1. PICK i \in 1 .. Len(s) - 1 : i = IF k < n THEN k ELSE k - 1
    BY <1>1
  <2>2. t[i] = s[k]
    BY <1>1, <1>11, <2>1
  <2> QED
    BY <2>2
<1>15. \A i, j \in 1 .. Len(t) : t[i] = t[j] => i = j
  <2> SUFFICES ASSUME NEW i \in 1 .. Len(s) - 1, NEW j \in 1 .. Len(s) - 1, t[i] = t[j]
               PROVE  i = j
    BY <1>11
  <2>1. PICK k \in 1 .. Len(s) : t[i] = s[k] /\ k = IF i < n THEN i ELSE i + 1
    BY <1>13
  <2>2. PICK m \in 1 .. Len(s) : t[j] = s[m] /\ m = IF j < n THEN j ELSE j + 1
    BY <1>13
  <2>3. k = m
    BY <1>12, <2>1, <2>2
  <2> QED
    BY <2>1, <2>2, <2>3
<1>16. \A m : m \in ToSet(t) <=> m \in ToSet(s) /\ m # l
  <2>1. \A m : m \in ToSet(t) <=> \E i \in 1 .. Len(s) - 1 : t[i] = m
    BY <1>11, DistinctList
  <2>2. \A m : m \in ToSet(s) <=> \E i \in 1 .. Len(s) : s[i] = m
    BY <1>0, DistinctList
  <2>3. \A k \in 1 .. Len(s) : s[k] = l <=> k = n
    BY <1>2, <1>12
  <2> SUFFICES ASSUME NEW m PROVE m \in ToSet(t) <=> m \in ToSet(s) /\ m # l
    OBVIOUS
  <2>4. ASSUME m \in ToSet(t) PROVE m \in ToSet(s) /\ m # l
    <3>1. PICK i \in 1 .. Len(s) - 1 : t[i] = m
      BY <2>1, <2>4
    <3>2. PICK k \in 1 .. Len(s) : t[i] = s[k] /\ k # n
      BY <1>13
    <3> QED
      BY <2>2, <2>3, <3>1, <3>2
  <2>5. ASSUME m \in ToSet(s), m # l PROVE m \in ToSet(t)
    <3>1. PICK k \in 1 .. Len(s) : s[k] = m
      BY <2>2, <2>5
    <3>2. k # n
      BY <2>3, <2>5, <3>1
    <3>3. PICK i \in 1 .. Len(s) - 1 : t[i] = s[k]
      BY <1>14, <3>2
    <3> QED
      BY <2>1, <3>1, <3>3
  <2> QED
    BY <2>4, <2>5
<1>17. Distinct(t)
  BY <1>11, <1>15, DistinctList
<1>18. ToSet(t) = ToSet(s) \ {l}
  BY <1>16
<1> QED
  BY <1>5, <1>6, <1>7, <1>10, <1>17, <1>18

-----------------------------------------------------------------------------
(* The removals that notify_listeners carries out.                         *)

(* f gives the lists that the first i of n removals can leave. *)
Stages(f, n) ==
  f = [i \in 0 .. n |-> IF i = 0 THEN {reader.listeners}
                        ELSE UNION {Erased(s, reader.removed[i]) : s \in f[i - 1]}]

LEMMA StagesExist ==
  ASSUME NEW n \in Nat
  PROVE  \E f : Stages(f, n)
<1> DEFINE Missing == {m \in Nat : ~\E f : Stages(f, m)}
<1> SUFFICES ASSUME Missing # {} PROVE FALSE
  OBVIOUS
<1>1. PICK m \in Missing : \A j \in Missing : m <= j
  BY Smallest
<1>2. m \in Nat /\ ~\E f : Stages(f, m)
  BY <1>1
<1>3. CASE m = 0
  <2>1. PICK f : f = [i \in 0 .. 0 |-> {reader.listeners}]
    OBVIOUS
  <2>2. f = [i \in 0 .. 0 |-> IF i = 0 THEN {reader.listeners}
                              ELSE UNION {Erased(s, reader.removed[i]) : s \in f[i - 1]}]
    <3>1. \A i \in 0 .. 0 : i = 0
      OBVIOUS
    <3> QED
      BY <2>1, <3>1
  <2> QED
    BY <1>2, <1>3, <2>2 DEF Stages
<1>4. CASE m # 0
  <2>1. m - 1 \in Nat /\ m - 1 \notin Missing
    BY <1>1, <1>2, <1>4
  <2>2. PICK g : Stages(g, m - 1)
    BY <2>1
  <2>3. PICK f : f = [i \in 0 .. m |-> IF i < m THEN g[i]
                                       ELSE UNION {Erased(s, reader.removed[i]) : s \in g[i - 1]}]
    OBVIOUS
  <2>4. \A i \in 0 .. m - 1 : f[i] = g[i]
    BY <1>2, <2>3
  <2>5. ASSUME NEW i \in 0 .. m
        PROVE  f[i] = IF i = 0 THEN {reader.listeners}
                      ELSE UNION {Erased(s, reader.removed[i]) : s \in f[i - 1]}
    <3>1. CASE i < m
      <4>1. i \in 0 .. m - 1 /\ (i # 0 => i - 1 \in 0 .. m - 1)
        BY <1>2, <3>1
      <4>2. g[i] = IF i = 0 THEN {reader.listeners}
                   ELSE UNION {Erased(s, reader.removed[i]) : s \in g[i - 1]}
        BY <2>2, <4>1 DEF Stages
      <4> QED
        BY <2>4, <4>1, <4>2
    <3>2. CASE i = m
      <4>1. i - 1 \in 0 .. m - 1 /\ ~(i < m) /\ i # 0
        BY <1>2, <1>4, <3>2
      <4>2. f[i] = UNION {Erased(s, reader.removed[i]) : s \in g[i - 1]}
        BY <2>3, <4>1
      <4> QED
        BY <2>4, <4>1, <4>2
    <3> QED
      BY <1>2, <3>1, <3>2
  <2>6. Stages(f, m)
    BY <2>3, <2>5 DEF Stages
  <2> QED
    BY <1>2, <2>6
<1> QED
  BY <1>3, <1>4

LEMMA ListsStages ==
  ASSUME Len(reader.removed) \in Nat
  PROVE  Stages(Lists, Len(reader.removed))
<1>1. \E f : Stages(f, Len(reader.removed))
  BY StagesExist
<1> QED
  BY <1>1 DEF Lists, Stages

CalmReader ==
  /\ Distinct(reader.listeners) /\ Distinct(reader.removed)
  /\ ToSet(reader.removed) \subseteq ToSet(reader.listeners)

LEMMA ListsCalm ==
  ASSUME CalmReader
  PROVE  \A i \in 0 .. Len(reader.removed) :
           \E s : /\ Lists[i] = {s} /\ Distinct(s)
                  /\ ToSet(s) = ToSet(reader.listeners) \ {reader.removed[j] : j \in 1 .. i}
<1> DEFINE Good(i) == \E s : /\ Lists[i] = {s} /\ Distinct(s)
                             /\ ToSet(s) = ToSet(reader.listeners)
                                             \ {reader.removed[j] : j \in 1 .. i}
           Bad == {i \in 0 .. Len(reader.removed) : ~Good(i)}
<1>0. reader.removed \in Seq(Listeners) /\ Len(reader.removed) \in Nat
  BY DistinctList DEF CalmReader, Distinct
<1>00. \A i \in 0 .. Len(reader.removed) :
         Lists[i] = IF i = 0 THEN {reader.listeners}
                    ELSE UNION {Erased(s, reader.removed[i]) : s \in Lists[i - 1]}
  BY <1>0, ListsStages DEF Stages
<1> SUFFICES ASSUME Bad # {} PROVE FALSE
  OBVIOUS
<1>1. Bad \in SUBSET Nat
  BY <1>0
<1>2. PICK i \in Bad : \A j \in Bad : i <= j
  <2> HIDE DEF Bad
  <2> QED
    BY <1>1, Smallest
<1>3. i \in 0 .. Len(reader.removed) /\ ~Good(i)
  BY <1>2
<1>4. CASE i = 0
  <2>1. Lists[i] = {reader.listeners}
    BY <1>00, <1>3, <1>4
  <2>2. {reader.removed[j] : j \in 1 .. i} = {}
    BY <1>4
  <2>3. Good(i)
    BY <2>1, <2>2 DEF CalmReader
  <2> QED
    BY <1>3, <2>3
<1>5. CASE i # 0
  <2>1. i - 1 \in 0 .. Len(reader.removed) /\ i - 1 \notin Bad
    <3>1. i - 1 \in 0 .. Len(reader.removed) /\ ~(i <= i - 1)
      BY <1>0, <1>3, <1>5
    <3> HIDE DEF Bad
    <3> QED
      BY <1>2, <3>1
  <2>2. Good(i - 1)
    BY <2>1
  <2>3. PICK s : /\ Lists[i - 1] = {s} /\ Distinct(s)
                 /\ ToSet(s) = ToSet(reader.listeners) \ {reader.removed[j] : j \in 1 .. i - 1}
    BY <2>2
  <2>4. PICK l : l = reader.removed[i]
    OBVIOUS
  <2>5. i \in 1 .. Len(reader.removed) /\ i \in Nat
    BY <1>0, <1>3, <1>5
  <2>6. l \in ToSet(reader.removed)
    BY <1>0, <2>4, <2>5, DistinctList
  <2>7. \A j \in 1 .. i - 1 : reader.removed[j] # l
    <3>1. \A j, k \in 1 .. Len(reader.removed) : reader.removed[j] = reader.removed[k] => j = k
      BY <1>0, DistinctList DEF CalmReader
    <3>2. \A j \in 1 .. i - 1 : j \in 1 .. Len(reader.removed) /\ j # i
      BY <1>0, <2>5
    <3> QED
      BY <2>4, <2>5, <3>1, <3>2
  <2>8. l \in ToSet(s)
    BY <2>3, <2>6, <2>7 DEF CalmReader
  <2>9. Held(s, l)
    BY <2>3, <2>8, DistinctList DEF Distinct
  <2>10. PICK t : t = Without(s, l)
    OBVIOUS
  <2>11. Distinct(t) /\ ToSet(t) = ToSet(s) \ {l}
    BY <2>3, <2>9, <2>10, WithoutOne
  <2>12. Lists[i] = {t}
    <3>1. Lists[i] = UNION {Erased(u, l) : u \in {s}}
      <4>1. Lists[i] = UNION {Erased(u, reader.removed[i]) : u \in Lists[i - 1]}
        BY <1>00, <1>3, <1>5
      <4> QED
        BY <2>3, <2>4, <4>1
    <3>2. Erased(s, l) = {t}
      BY <2>9, <2>10 DEF Erased
    <3> QED
      BY <3>1, <3>2
  <2>13. {reader.removed[j] : j \in 1 .. i} = {reader.removed[j] : j \in 1 .. i - 1} \cup {l}
    <3>1. \A j \in 1 .. i : j \in 1 .. i - 1 \/ j = i
      BY <2>5
    <3>2. i \in 1 .. i /\ \A j \in 1 .. i - 1 : j \in 1 .. i
      BY <2>5
    <3> QED
      BY <2>4, <3>1, <3>2
  <2>14. Good(i)
    BY <2>3, <2>11, <2>12, <2>13
  <2> QED
    BY <1>3, <2>14
<1> QED
  BY <1>4, <1>5

(* The removals that were put off are all carried out, and none of them    *)
(* meets erase(end()).                                                     *)
LEMMA RemovalsCalm ==
  ASSUME CalmReader
  PROVE  /\ ~Undefined
         /\ \E s : /\ AfterRemovals = {s} /\ Distinct(s)
                   /\ ToSet(s) = ToSet(reader.listeners) \ ToSet(reader.removed)
<1>0. /\ reader.removed \in Seq(Listeners) /\ Len(reader.removed) \in Nat
      /\ DOMAIN reader.removed = 1 .. Len(reader.removed)
  BY DistinctList DEF CalmReader, Distinct
<1>1. ~Undefined
  <2> SUFFICES ASSUME NEW i \in 1 .. Len(reader.removed), NEW list \in Lists[i - 1],
                      ~Held(list, reader.removed[i])
               PROVE  FALSE
    BY <1>0 DEF Undefined
  <2>1. i - 1 \in 0 .. Len(reader.removed)
    BY <1>0
  <2>2. /\ Distinct(list)
        /\ ToSet(list) = ToSet(reader.listeners) \ {reader.removed[j] : j \in 1 .. i - 1}
    BY <2>1, ListsCalm
  <2>3. reader.removed[i] \in ToSet(reader.listeners)
    BY <1>0, DistinctList DEF CalmReader
  <2>4. \A j \in 1 .. i - 1 : reader.removed[j] # reader.removed[i]
    <3>1. \A j, k \in 1 .. Len(reader.removed) : reader.removed[j] = reader.removed[k] => j = k
      BY <1>0, DistinctList DEF CalmReader
    <3>2. \A j \in 1 .. i - 1 : j \in 1 .. Len(reader.removed) /\ j # i
      BY <1>0
    <3> QED
      BY <3>1, <3>2
  <2>5. reader.removed[i] \in ToSet(list)
    BY <2>2, <2>3, <2>4
  <2> QED
    BY <2>2, <2>5, DistinctList DEF Distinct
<1>2. PICK n : n = Len(reader.removed)
  OBVIOUS
<1>3. n \in 0 .. Len(reader.removed)
  BY <1>0, <1>2
<1>4. {reader.removed[j] : j \in 1 .. n} = ToSet(reader.removed)
  BY <1>0, <1>2 DEF ToSet
<1> QED
  BY <1>1, <1>2, <1>3, <1>4, ListsCalm DEF AfterRemovals

-----------------------------------------------------------------------------
(* Who hears a notification.                                               *)

ReaderStates == [listeners : Seq(Listeners), added : Seq(Listeners), removed : Seq(Listeners),
                 isNotifying : BOOLEAN, callbackRegistered : BOOLEAN]

(* While no call has disturbed a deferred one. *)
Undisturbed ==
  /\ ~crashed
  /\ reader \in ReaderStates
  /\ CalmReader
  /\ reader.added = <<>>
  /\ wanted = ToSet(reader.listeners) \ ToSet(reader.removed)
  /\ reader.isNotifying <=> ~Idle
  /\ ~Idle => due = ToSet(reader.listeners)
  /\ wanted # {} => reader.callbackRegistered
  /\ handles = 0 /\ Idle => reader = ReaderRef /\ wanted = {}

ListenersInv == handles \in Nat /\ (calm => Undisturbed)

LEMMA EmptyList == Distinct(<<>>) /\ ToSet(<<>>) = {} /\ <<>> \in Seq(Listeners)
<1>1. <<>> \in Seq(Listeners)
  BY EmptySeq
<1>2. Len(<<>>) = 0
  BY <1>1, EmptySeq
<1>3. Distinct(<<>>)
  BY <1>1, <1>2, DistinctList
<1> QED
  BY <1>1, <1>3, DistinctList

(* The members of a new ReaderRef. *)
LEMMA FreshReader ==
  ASSUME reader' = ReaderRef, wanted' = {}, crashed' = crashed, ~crashed, turn' = 0
  PROVE  Undisturbed'
<1>1. /\ reader'.listeners = <<>> /\ reader'.added = <<>> /\ reader'.removed = <<>>
      /\ reader'.isNotifying = FALSE
  BY DEF ReaderRef
<1>2. reader' \in ReaderStates
  BY EmptyList DEF ReaderRef, ReaderStates
<1>3. CalmReader'
  BY <1>1, EmptyList DEF CalmReader
<1>4. wanted' = ToSet(reader'.listeners) \ ToSet(reader'.removed)
  BY <1>1, EmptyList
<1> QED
  BY <1>1, <1>2, <1>3, <1>4 DEF Undisturbed, Idle

LEMMA SameReader ==
  ASSUME Undisturbed, reader' = reader, wanted' = wanted, crashed' = crashed, due' = due,
         turn' = 0 <=> turn = 0, handles' = 0 /\ turn' = 0 => handles = 0
  PROVE  Undisturbed'
BY DEF Undisturbed, CalmReader, Idle

LEMMA AddCalm ==
  ASSUME ListenersInv, NEW l \in Listeners, add_listener(l), calm', ~crashed
  PROVE  Undisturbed'
<1>1. Undisturbed /\ ~reader.isNotifying /\ ~Held(reader.removed, l)
  BY DEF ListenersInv, add_listener
<1>2. PICK r : r = ensure_callback_added(reader)
  OBVIOUS
<1>3. /\ reader \in ReaderStates
      /\ wanted' = wanted \cup {l} /\ handles' = handles /\ turn' = turn /\ crashed' = crashed
      /\ due' = due
  BY <1>1 DEF Undisturbed, add_listener
<1>4. /\ r \in ReaderStates /\ r.callbackRegistered = TRUE /\ r.listeners = reader.listeners
      /\ r.added = reader.added /\ r.removed = reader.removed /\ r.isNotifying = reader.isNotifying
  BY <1>2, <1>3 DEF ensure_callback_added, ReaderStates
<1>5. reader' = IF Held(reader.listeners, l) THEN r
                ELSE [r EXCEPT !.listeners = Append(@, l)]
  BY <1>1, <1>2, <1>4 DEF add_listener
<1>6. PICK s : s = IF Held(reader.listeners, l) THEN reader.listeners
                   ELSE Append(reader.listeners, l)
  OBVIOUS
<1>7. Distinct(reader.listeners) /\ Distinct(reader.removed) /\ reader.listeners \in Seq(Listeners)
  BY <1>1 DEF Undisturbed, CalmReader, Distinct
<1>8. Distinct(s) /\ ToSet(s) = ToSet(reader.listeners) \cup {l} /\ s \in Seq(Listeners)
  <2>1. CASE Held(reader.listeners, l)
    BY <1>6, <1>7, <2>1, DistinctList
  <2>2. CASE ~Held(reader.listeners, l)
    BY <1>6, <1>7, <2>2, Appended DEF Distinct
  <2> QED
    BY <2>1, <2>2
<1>9. /\ reader' \in ReaderStates /\ reader'.listeners = s /\ reader'.added = reader.added
      /\ reader'.removed = reader.removed /\ reader'.isNotifying = reader.isNotifying
      /\ reader'.callbackRegistered = TRUE
  <2>1. CASE Held(reader.listeners, l)
    BY <1>4, <1>5, <1>6, <2>1
  <2>2. CASE ~Held(reader.listeners, l)
    <3>1. reader' = [r EXCEPT !.listeners = s]
      BY <1>4, <1>5, <1>6, <2>2 DEF ReaderStates
    <3> QED
      BY <1>4, <1>8, <3>1 DEF ReaderStates
  <2> QED
    BY <2>1, <2>2
<1>10. CalmReader'
  BY <1>1, <1>7, <1>8, <1>9 DEF CalmReader, Undisturbed
<1>11. wanted' = ToSet(reader'.listeners) \ ToSet(reader'.removed)
  <2>1. l \notin ToSet(reader.removed)
    BY <1>1, <1>7, DistinctList DEF Distinct
  <2> QED
    BY <1>1, <1>3, <1>8, <1>9, <2>1 DEF Undisturbed
<1>12. Idle /\ Idle'
  BY <1>1, <1>3 DEF Undisturbed, Idle
<1>13. ~(handles' = 0)
  <2>1. Valid /\ handles \in Nat
    BY DEF add_listener, ListenersInv
  <2> QED
    BY <1>3, <1>12, <2>1 DEF Valid
<1> QED
  BY <1>1, <1>3, <1>9, <1>10, <1>11, <1>12, <1>13 DEF Undisturbed

LEMMA RemoveCalm ==
  ASSUME ListenersInv, NEW l \in Listeners, remove_listener(l), calm', ~crashed
  PROVE  Undisturbed'
<1>1. Undisturbed /\ ~Held(reader.removed, l)
  BY DEF ListenersInv, remove_listener
<1>2. /\ reader \in ReaderStates
      /\ wanted' = wanted \ {l} /\ handles' = handles /\ turn' = turn /\ crashed' = crashed
      /\ due' = due
  BY <1>1 DEF Undisturbed, remove_listener
<1>3. /\ Distinct(reader.listeners) /\ Distinct(reader.removed)
      /\ reader.listeners \in Seq(Listeners) /\ reader.removed \in Seq(Listeners)
  BY <1>1 DEF Undisturbed, CalmReader, Distinct
<1>4. ~(handles' = 0 /\ Idle')
  <2>1. Valid /\ handles \in Nat
    BY DEF remove_listener, ListenersInv
  <2> QED
    BY <1>2, <2>1 DEF Valid, Idle
<1>5. l \notin ToSet(reader.removed)
  BY <1>1, <1>3, DistinctList
<1>6. CASE ~Held(reader.listeners, l)
  <2>1. reader' = reader
    BY <1>6 DEF remove_listener
  <2>2. l \notin ToSet(reader.listeners)
    BY <1>3, <1>6, DistinctList
  <2>3. wanted' = wanted
    BY <1>1, <1>2, <2>2 DEF Undisturbed
  <2> QED
    BY <1>1, <1>2, <2>1, <2>3, SameReader
<1>7. CASE Held(reader.listeners, l) /\ reader.isNotifying
  <2>1. PICK s : s = Append(reader.removed, l)
    OBVIOUS
  <2>2. Distinct(s) /\ ToSet(s) = ToSet(reader.removed) \cup {l} /\ s \in Seq(Listeners)
    BY <1>1, <1>3, <2>1, Appended DEF Distinct
  <2>3. reader' = [reader EXCEPT !.removed = s]
    BY <1>2, <1>7, <2>1 DEF remove_listener, ReaderStates
  <2>4. /\ reader' \in ReaderStates /\ reader'.listeners = reader.listeners
        /\ reader'.added = reader.added /\ reader'.removed = s
        /\ reader'.isNotifying = reader.isNotifying
        /\ reader'.callbackRegistered = reader.callbackRegistered
    BY <1>2, <2>2, <2>3 DEF ReaderStates
  <2>5. l \in ToSet(reader.listeners)
    BY <1>3, <1>7, DistinctList
  <2>6. CalmReader'
    BY <1>1, <1>3, <2>2, <2>4, <2>5 DEF CalmReader, Undisturbed
  <2>7. wanted' = ToSet(reader'.listeners) \ ToSet(reader'.removed)
    BY <1>1, <1>2, <2>2, <2>4 DEF Undisturbed
  <2>8. wanted' # {} => reader'.callbackRegistered
    BY <1>1, <1>2, <2>4 DEF Undisturbed
  <2>9. (reader'.isNotifying <=> ~Idle') /\ (~Idle' => due' = ToSet(reader'.listeners))
    BY <1>1, <1>2, <2>4 DEF Undisturbed, Idle
  <2>10. ~crashed' /\ reader'.added = <<>>
    BY <1>1, <1>2, <2>4 DEF Undisturbed
  <2> QED
    BY <1>4, <2>4, <2>6, <2>7, <2>8, <2>9, <2>10 DEF Undisturbed
<1>8. CASE Held(reader.listeners, l) /\ ~reader.isNotifying
  <2>1. PICK s : s = Without(reader.listeners, l)
    OBVIOUS
  <2>2. Distinct(s) /\ ToSet(s) = ToSet(reader.listeners) \ {l} /\ s \in Seq(Listeners)
    BY <1>3, <1>8, <2>1, WithoutOne DEF Distinct
  <2>3. PICK r : r = [reader EXCEPT !.listeners = s]
    OBVIOUS
  <2>4. reader' = [r EXCEPT !.callbackRegistered = @ /\ r.listeners # <<>>]
    BY <1>2, <1>8, <2>1, <2>3 DEF remove_listener, ensure_callback_removed, ReaderStates
  <2>5. /\ r \in ReaderStates /\ r.listeners = s /\ r.added = reader.added
        /\ r.removed = reader.removed /\ r.isNotifying = reader.isNotifying
        /\ r.callbackRegistered = reader.callbackRegistered
    BY <1>2, <2>2, <2>3 DEF ReaderStates
  <2>6. /\ reader' \in ReaderStates /\ reader'.listeners = s /\ reader'.added = reader.added
        /\ reader'.removed = reader.removed /\ reader'.isNotifying = reader.isNotifying
        /\ reader'.callbackRegistered = (reader.callbackRegistered /\ s # <<>>)
    <3>1. PICK b \in BOOLEAN : b = (r.callbackRegistered /\ r.listeners # <<>>)
      OBVIOUS
    <3>2. reader' = [r EXCEPT !.callbackRegistered = b]
      BY <2>4, <2>5, <3>1 DEF ReaderStates
    <3> QED
      BY <2>5, <3>1, <3>2 DEF ReaderStates
  <2>7. CalmReader'
    BY <1>1, <1>3, <1>5, <2>2, <2>6 DEF CalmReader, Undisturbed
  <2>8. wanted' = ToSet(reader'.listeners) \ ToSet(reader'.removed)
    BY <1>1, <1>2, <2>2, <2>6 DEF Undisturbed
  <2>9. wanted' # {} => reader'.callbackRegistered
    <3>1. wanted' # {} => ToSet(s) # {}
      BY <2>6, <2>8
    <3>2. ToSet(s) # {} => s # <<>>
      BY <2>2, DistinctList
    <3>3. wanted' # {} => reader.callbackRegistered
      BY <1>1, <1>2 DEF Undisturbed
    <3> QED
      BY <2>6, <3>1, <3>2, <3>3
  <2>10. Idle /\ Idle'
    BY <1>1, <1>2, <1>8 DEF Undisturbed, Idle
  <2>11. ~crashed' /\ reader'.added = <<>> /\ ~reader'.isNotifying
    BY <1>1, <1>2, <1>8, <2>6 DEF Undisturbed
  <2> QED
    BY <1>4, <2>6, <2>7, <2>8, <2>9, <2>10, <2>11 DEF Undisturbed
<1> QED
  BY <1>6, <1>7, <1>8

LEMMA NotifyCalm ==
  ASSUME ListenersInv, NEW list, NEW k \in Refs, notify_listeners(list, k), calm', ~crashed
  PROVE  Undisturbed'
<1>1. /\ Undisturbed /\ list \in AfterRemovals /\ Idle /\ handles > 0
      /\ wanted' = wanted /\ crashed' = crashed /\ handles' = handles /\ reader \in ReaderStates
  BY DEF ListenersInv, notify_listeners, Undisturbed
<1>2. Distinct(list) /\ ToSet(list) = wanted /\ list \in Seq(Listeners)
  <2>1. CalmReader /\ wanted = ToSet(reader.listeners) \ ToSet(reader.removed)
    BY <1>1 DEF Undisturbed
  <2> QED
    BY <1>1, <2>1, RemovalsCalm DEF Distinct
<1>3. Listening(list) = list /\ AddedAfter = <<>>
  BY <1>1, <1>2, ConcatEmptySeq DEF Listening, AddedAfter, Undisturbed
<1>4. PICK r : r = [reader EXCEPT !.listeners = list, !.removed = <<>>, !.added = <<>>,
                                  !.isNotifying = (list # <<>>)]
  OBVIOUS
<1>5. reader' = [r EXCEPT !.callbackRegistered = @ /\ r.listeners # <<>>]
  BY <1>3, <1>4 DEF notify_listeners, ensure_callback_removed
<1>6. /\ r \in ReaderStates /\ r.listeners = list /\ r.added = <<>> /\ r.removed = <<>>
      /\ r.isNotifying = (list # <<>>) /\ r.callbackRegistered = reader.callbackRegistered
  <2>1. PICK b \in BOOLEAN : b = (list # <<>>)
    OBVIOUS
  <2>2. PICK e \in Seq(Listeners) : e = <<>>
    BY EmptyList
  <2>3. r = [reader EXCEPT !.listeners = list, !.removed = e, !.added = e, !.isNotifying = b]
    BY <1>4, <2>1, <2>2
  <2> QED
    BY <1>1, <1>2, <2>1, <2>2, <2>3 DEF ReaderStates
<1>7. /\ reader' \in ReaderStates /\ reader'.listeners = list /\ reader'.added = <<>>
      /\ reader'.removed = <<>> /\ reader'.isNotifying = (list # <<>>)
      /\ reader'.callbackRegistered = (reader.callbackRegistered /\ list # <<>>)
  <2>1. PICK b \in BOOLEAN : b = (r.callbackRegistered /\ r.listeners # <<>>)
    OBVIOUS
  <2>2. reader' = [r EXCEPT !.callbackRegistered = b]
    BY <1>5, <1>6, <2>1 DEF ReaderStates
  <2> QED
    BY <1>6, <2>1, <2>2 DEF ReaderStates
<1>8. CalmReader' /\ wanted' = ToSet(reader'.listeners) \ ToSet(reader'.removed)
  BY <1>1, <1>2, <1>7, EmptyList DEF CalmReader
<1>9. turn' = (IF list = <<>> THEN 0 ELSE 1) /\ (list # <<>> => due' = wanted)
  BY <1>3 DEF notify_listeners
<1>10. /\ reader'.isNotifying <=> ~Idle'
       /\ ~Idle' => due' = ToSet(reader'.listeners)
  <2>1. Idle' <=> list = <<>>
    BY <1>9 DEF Idle
  <2> QED
    BY <1>2, <1>7, <1>9, <2>1
<1>11. wanted' # {} => reader'.callbackRegistered
  <2>1. wanted # {} => list # <<>>
    BY <1>2, DistinctList
  <2>2. reader.callbackRegistered
    BY DEF notify_listeners
  <2> QED
    BY <1>1, <1>7, <2>1, <2>2
<1>12. handles' # 0 /\ ~crashed'
  BY <1>1 DEF ListenersInv
<1> QED
  BY <1>7, <1>8, <1>10, <1>11, <1>12 DEF Undisturbed

LEMMA ReturnCalm ==
  ASSUME ListenersInv, turn \in Nat, ListenerReturns, calm', ~crashed
  PROVE  Undisturbed'
<1>0. ~Idle /\ handles' = handles /\ crashed' = crashed
  BY DEF ListenerReturns
<1>1. CASE turn < Len(reader.listeners)
  <2>1. /\ turn' = turn + 1 /\ reader' = reader /\ wanted' = wanted /\ due' = due
        /\ calm' = calm
    BY <1>1 DEF ListenerReturns
  <2>2. turn' = 0 <=> turn = 0
    BY <1>0, <2>1 DEF Idle
  <2> QED
    BY <1>0, <2>1, <2>2, SameReader DEF ListenersInv
<1>2. CASE ~(turn < Len(reader.listeners)) /\ handles = 0
  BY <1>0, <1>2, FreshReader DEF ListenerReturns, ReaderDestroyed
<1>3. CASE ~(turn < Len(reader.listeners)) /\ handles # 0
  <2>1. /\ turn' = 0 /\ reader' = [reader EXCEPT !.isNotifying = FALSE]
        /\ wanted' = wanted /\ calm' = calm
    BY <1>3 DEF ListenerReturns
  <2>2. Undisturbed /\ reader \in ReaderStates
    BY <2>1 DEF ListenersInv, Undisturbed
  <2>3. /\ reader' \in ReaderStates /\ reader'.listeners = reader.listeners
        /\ reader'.added = reader.added /\ reader'.removed = reader.removed
        /\ reader'.isNotifying = FALSE
        /\ reader'.callbackRegistered = reader.callbackRegistered
    BY <2>1, <2>2 DEF ReaderStates
  <2> QED
    BY <1>0, <1>3, <2>1, <2>2, <2>3 DEF Undisturbed, CalmReader, Idle
<1> QED
  BY <1>1, <1>2, <1>3

LEMMA ListenersStep ==
  ListenersInv /\ FrameInv /\ [AstraNext]_astraVars => ListenersInv'
<1> SUFFICES ASSUME ListenersInv, FrameInv, [AstraNext]_astraVars PROVE ListenersInv'
  OBVIOUS
<1>00. turn \in Nat /\ handles \in Nat
  BY DEF FrameInv, RefsInv, ListenersInv
<1>0. ASSUME reader' = reader, wanted' = wanted, crashed' = crashed, due' = due,
             turn' = turn, handles' = handles, calm' = calm
      PROVE  ListenersInv'
  BY <1>0, SameReader DEF ListenersInv
<1>1. CASE UNCHANGED astraVars
  BY <1>0, <1>1 DEF astraVars, readerVars
<1>2. CASE AstraNext
  <2>0. ~crashed
    BY <1>2 DEF AstraNext
  <2>1. CASE create_reader
    <3>1. /\ handles = 0 /\ Idle /\ handles' = 1 /\ reader' = ReaderRef
          /\ turn' = turn /\ crashed' = crashed /\ wanted' = wanted /\ calm' = calm
      BY <1>00, <2>1 DEF create_reader, Valid
    <3>2. calm => wanted = {}
      BY <3>1 DEF ListenersInv, Undisturbed
    <3> QED
      BY <2>0, <3>1, <3>2, FreshReader DEF ListenersInv, Idle
  <2>2. CASE StreamReaderCopied
    <3>1. /\ handles' = handles + 1 /\ reader' = reader /\ wanted' = wanted
          /\ crashed' = crashed /\ due' = due /\ turn' = turn /\ calm' = calm
      BY <2>2 DEF StreamReaderCopied
    <3>2. handles' \in Nat /\ handles' # 0
      BY <1>00, <3>1
    <3> QED
      BY <3>1, <3>2, SameReader DEF ListenersInv
  <2>3. CASE StreamReaderDropped
    <3>1. /\ handles > 0 /\ handles' = handles - 1 /\ turn' = turn /\ crashed' = crashed
          /\ due' = due
      BY <2>3 DEF StreamReaderDropped
    <3>2. handles' \in Nat
      BY <1>00, <3>1
    <3>3. CASE handles = 1 /\ Idle
      BY <2>0, <2>3, <3>1, <3>2, <3>3, FreshReader
         DEF StreamReaderDropped, ReaderDestroyed, ListenersInv, Idle
    <3>4. CASE ~(handles = 1 /\ Idle)
      <4>1. reader' = reader /\ wanted' = wanted /\ calm' = calm
        BY <2>3, <3>4 DEF StreamReaderDropped
      <4>2. ~(handles' = 0 /\ turn' = 0)
        BY <1>00, <3>1, <3>4 DEF Idle
      <4> QED
        BY <3>1, <3>2, <4>1, <4>2, SameReader DEF ListenersInv
    <3> QED
      BY <3>3, <3>4
  <2>4. ASSUME NEW l \in Listeners, add_listener(l) PROVE ListenersInv'
    <3>1. handles' = handles
      BY <2>4 DEF add_listener
    <3> QED
      BY <1>00, <2>0, <2>4, <3>1, AddCalm DEF ListenersInv
  <2>5. ASSUME NEW l \in Listeners, remove_listener(l) PROVE ListenersInv'
    <3>1. handles' = handles
      BY <2>5 DEF remove_listener
    <3> QED
      BY <1>00, <2>0, <2>5, <3>1, RemoveCalm DEF ListenersInv
  <2>6. ASSUME NEW list, NEW k \in Refs, notify_listeners(list, k) PROVE ListenersInv'
    <3>1. handles' = handles
      BY <2>6 DEF notify_listeners
    <3> QED
      BY <1>00, <2>0, <2>6, <3>1, NotifyCalm DEF ListenersInv
  <2>7. CASE NotifyCrashes
    <3>1. handles' = handles /\ calm' = calm /\ Undefined
      BY <2>7 DEF NotifyCrashes
    <3>2. ~calm
      BY <3>1, RemovalsCalm DEF ListenersInv, Undisturbed
    <3> QED
      BY <1>00, <3>1, <3>2 DEF ListenersInv
  <2>8. CASE ListenerReturns
    <3>1. handles' = handles
      BY <2>8 DEF ListenerReturns
    <3> QED
      BY <1>00, <2>0, <2>8, <3>1, ReturnCalm DEF ListenersInv
  <2>9. ASSUME NEW f \in FrameVars,
               \/ frame_dropped(f) \/ frame_kept(f) \/ HandFrame_acquire(f)
               \/ ImageFrame_acquire(f) \/ BodyFrame_acquire(f)
        PROVE  ListenersInv'
    BY <1>0, <2>9 DEF frame_dropped, frame_kept, HandFrame_acquire, ImageFrame_acquire,
       BodyFrame_acquire, Acquired
  <2>10. ASSUME NEW f \in FrameVars, NEW g \in FrameVars, frame_copied(f, g)
         PROVE  ListenersInv'
    BY <1>0, <2>10 DEF frame_copied
  <2>11. ASSUME NEW f \in FrameVars, NEW k \in Refs, get_latest_frame(f, k)
         PROVE  ListenersInv'
    BY <1>0, <2>11 DEF get_latest_frame
  <2>12. CASE verify_handpoints \/ ImageFrame_data \/ BodyFrame_bodies \/ view_dropped
    BY <1>0, <2>12 DEF verify_handpoints, ImageFrame_data, BodyFrame_bodies, ReadsFrame,
       view_dropped
  <2>13. CASE get_stream \/ start \/ stop \/ OtherReader
    BY <1>0, <2>13 DEF get_stream, start, stop, OtherReader, readerVars
  <2>14. CASE PluginSteps
    BY <1>0, <2>14 DEF PluginSteps
  <2> QED
    BY <1>2, <2>1, <2>2, <2>3, <2>4, <2>5, <2>6, <2>7, <2>8, <2>9, <2>10, <2>11, <2>12,
       <2>13, <2>14 DEF AstraNext
<1> QED
  BY <1>1, <1>2

(* As long as no listener is added from inside a notification and none     *)
(* whose removal was put off is added or removed again before it is        *)
(* carried out, notify_listeners calls every listener that was added and   *)
(* not removed exactly once and no other, and never reaches erase(end()):  *)
(* for any number of listeners, in any order of calls.                     *)
THEOREM ListenersHearOnce == AstraSpec => []HeardOnce
<1>1. AstraInit => ListenersInv
  <2> SUFFICES ASSUME AstraInit PROVE ListenersInv
    OBVIOUS
  <2>1. /\ reader = ReaderRef /\ handles = 0 /\ turn = 0 /\ wanted = {} /\ ~crashed
    BY DEF AstraInit
  <2>2. /\ reader.listeners = <<>> /\ reader.added = <<>> /\ reader.removed = <<>>
        /\ reader.isNotifying = FALSE
    BY <2>1 DEF ReaderRef
  <2>3. reader \in ReaderStates
    BY <2>1, EmptyList DEF ReaderRef, ReaderStates
  <2>4. CalmReader /\ wanted = ToSet(reader.listeners) \ ToSet(reader.removed)
    BY <2>1, <2>2, EmptyList DEF CalmReader
  <2> QED
    BY <2>1, <2>2, <2>3, <2>4 DEF ListenersInv, Undisturbed, Idle
<1>2. ListenersInv => HeardOnce
  BY DEF ListenersInv, Undisturbed, CalmReader, Distinct, HeardOnce
<1> QED
  BY <1>1, <1>2, ListenersStep, FrameInvariant, PTL DEF AstraSpec

=============================================================================
