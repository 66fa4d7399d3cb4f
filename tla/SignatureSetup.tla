--------------------------- MODULE SignatureSetup ---------------------------
(***************************************************************************)
(* The page /signature-setup in front of uploadSignatureImage: a picture   *)
(* is chosen, the part of it to be drawn on documents is cut out, and that *)
(* part is uploaded.  Distances are pixels of the picture.                 *)
(*                                                                         *)
(* Nothing the page does before it saves reaches the server, so that one   *)
(* visit is modelled, before everything else; other images are uploaded    *)
(* from other tabs.  A drag is one action, from where it starts to where   *)
(* the button is released.  Checks of type and size, and whether the       *)
(* identity is approved, are left out: a file that fails them is as none.  *)
(***************************************************************************)
EXTENDS Credentials, Integers

CONSTANTS
  Pictures,  \* the image files to choose from
  Size,      \* their widths and heights
  Drags,     \* how far the crop area is moved or its corner is dragged
  Visitor    \* who is at the page

ASSUME SetupAssumption ==
  /\ Size \in [Pictures -> [w : Nat \ {0}, h : Nat \ {0}]]
  /\ Drags \subseteq Int /\ Visitor \in Users /\ None \notin Pictures

VARIABLES
  chosen,  \* signatureFile
  image,   \* signatureImage: the picture whose size is known
  crop,    \* cropRect
  stale    \* history: whether the crop area was made for another picture

setup == <<chosen, image, crop, stale>>

setupVars == <<vars, setup>>

Rect == [x : Int, y : Int, w : Int, h : Int]

ASSUME NoneIsNoRect == None \notin Rect

SetupInit == Init /\ chosen = None /\ image = None /\ crop = None /\ stale = FALSE

-----------------------------------------------------------------------------
(* Rectangles *)

AtLeast(lo, v) == IF v < lo THEN lo ELSE v
AtMost(hi, v) == IF v > hi THEN hi ELSE v

\* Math.round(a / b)
Round(a, b) == (2 * a + b) \div (2 * b)

\* SIGNATURE_PLACEHOLDER_ASPECT_RATIO is 160 / 70.
HeightFor(width) == AtLeast(1, Round(7 * width, 16))

MinCropWidth == 3

\* The widest area of that shape, at seven or ten tenths of its width.
BuildCropRect(size, tenths) ==
  LET width == AtLeast(1, Round(AtMost(16 * size.h, 7 * size.w) * tenths, 70))
      height == HeightFor(width)
  IN [x |-> Round(size.w - width, 2), y |-> Round(size.h - height, 2), w |-> width, h |-> height]

ClampCropRect(rect, size) ==
  LET width == AtLeast(1, AtMost(size.w, rect.w))
      height == AtLeast(1, AtMost(size.h, rect.h))
  IN [x |-> AtLeast(0, AtMost(size.w - width, rect.x)),
      y |-> AtLeast(0, AtMost(size.h - height, rect.y)), w |-> width, h |-> height]

\* Mutant: only the width of the picture limits the area.
WidestMutant(rect, size) == size.w - rect.x

Widest(rect, size) == AtMost(((size.h - rect.y) * 16) \div 7, size.w - rect.x)

ResizeCropRect(rect, drag, size) ==
  LET width == AtLeast(MinCropWidth, AtMost(Widest(rect, size), rect.w + drag))
  IN ClampCropRect([rect EXCEPT !.w = width, !.h = HeightFor(width)], size)

-----------------------------------------------------------------------------
(* The page *)

DefaultCropRect == BuildCropRect(Size[image], 7)

RenderCropRect == IF crop # None THEN crop ELSE DefaultCropRect

\* Nothing was sent to the server yet.
Before == changes = 0 /\ \A r \in Requests : pc[r] = "idle"

\* Without a file everything is reset; the crop area of another one stays.
ChooseFile(f) ==
  /\ Before
  /\ chosen' = f
  /\ IF f = None THEN image' = None /\ crop' = None ELSE UNCHANGED <<image, crop>>
  /\ stale' = (crop' # None /\ (stale \/ f # chosen))
  /\ UNCHANGED vars

\* image.onload
ImageLoaded ==
  /\ Before /\ chosen # None
  /\ image' = chosen
  /\ crop' = IF crop # None THEN crop ELSE BuildCropRect(Size[chosen], 7)
  /\ UNCHANGED <<vars, chosen, stale>>

Cut(rect) ==
  /\ Before /\ chosen # None /\ image # None
  /\ crop' = rect
  /\ UNCHANGED <<vars, chosen, image, stale>>

HandleCropPointerDown(dx, dy) ==
  LET start == RenderCropRect
  IN Cut(ClampCropRect([start EXCEPT !.x = start.x + dx, !.y = start.y + dy], Size[image]))

HandleCropResizePointerDown(drag) == Cut(ResizeCropRect(RenderCropRect, drag, Size[image]))

HandleResetCrop == Cut(DefaultCropRect)

HandleUseFullImage == Cut(BuildCropRect(Size[image], 10))

\* createCroppedSignatureBlob, once the size is known.
Cropped == ClampCropRect(RenderCropRect, Size[image])

\* Or the file as it is.  The page is left for the answer, which a refusal
\* would bring back to it: one visit ends here.
HandleSave(r, e) ==
  /\ chosen # None
  /\ StoreImage(r, Visitor, e)
  /\ chosen' = None /\ image' = None /\ crop' = None /\ stale' = FALSE

SetupNext ==
  \/ \E f \in Pictures \cup {None} : ChooseFile(f)
  \/ ImageLoaded
  \/ \E dx, dy \in Drags : HandleCropPointerDown(dx, dy)
  \/ \E drag \in Drags : HandleCropResizePointerDown(drag)
  \/ HandleResetCrop \/ HandleUseFullImage
  \/ \E r \in Requests, e \in Extensions : HandleSave(r, e)
  \/ chosen = None /\ Next /\ UNCHANGED setup

SetupSpec == SetupInit /\ [][SetupNext]_setupVars

-----------------------------------------------------------------------------
\* What the page holds has its type, and nothing of it is there without a file.
SetupTypeOK ==
  /\ chosen \in Pictures \cup {None} /\ image \in Pictures \cup {None}
  /\ crop \in Rect \cup {None} /\ stale \in BOOLEAN
  /\ image # None => chosen # None
  /\ crop # None => image # None

Inside(rect, size) ==
  /\ rect.x >= 0 /\ rect.y >= 0 /\ rect.w >= 1 /\ rect.h >= 1
  /\ rect.x + rect.w <= size.w /\ rect.y + rect.h <= size.h

Loaded == chosen # None /\ image = chosen

(* Wherever the area was moved and however it was resized, and even if it  *)
(* was made for another picture, what is uploaded is a part of the picture *)
(* (createCroppedSignatureBlob), nothing of it blank.                      *)
UploadedIsPart == Loaded => Inside(Cropped, Size[chosen])

(* "Rasio crop tetap dikunci agar cocok dengan placeholder signature di    *)
(* PDF", and "Tampilan ini mengikuti area biru yang akan disimpan": the    *)
(* area shown is the one uploaded and has the shape of the placeholder     *)
(* that the image is drawn in, unless it is left from another picture or   *)
(* the picture is narrower than the least area.                            *)
ShapeIsKept ==
  Loaded /\ ~stale /\ Size[chosen].w >= MinCropWidth =>
    Cropped = RenderCropRect /\ Cropped.h = HeightFor(Cropped.w)

(* The page and the area it uploads are as they should be.                 *)
UploadsAgree == SetupTypeOK /\ UploadedIsPart /\ ShapeIsKept
=============================================================================
