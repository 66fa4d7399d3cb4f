------------------------ MODULE SignatureSetupProofs ------------------------
(***************************************************************************)
(* The part of a picture that the page /signature-setup uploads, for       *)
(* pictures of any size and drags of any length; then the certificates and *)
(* images of the server behind it, for any signers, names, authorities and *)
(* requests, and that the page makes only steps of Credentials.            *)
(***************************************************************************)
EXTENDS SignatureSetup, FiniteSetTheorems, SequenceTheorems, WellFoundedInduction, TLAPS

(* What keeps the shape: an area of the picture chosen, not left from      *)
(* another one, was clamped to it when it was cut.                         *)
Locked(rect, size) ==
  Inside(rect, size) /\ (size.w >= MinCropWidth => rect.h = HeightFor(rect.w))

SetupInv ==
  /\ SetupTypeOK
  /\ image # None => crop # None
  /\ image # None /\ ~stale => image = chosen /\ Locked(crop, Size[image])

PictureSize == [w : Nat \ {0}, h : Nat \ {0}]

-----------------------------------------------------------------------------
(* Rectangles: clampCropRect, buildCropRect, resizeCropRect *)

\* Wherever the area is, clamping it leaves a part of the picture.
LEMMA ClampInside ==
  ASSUME NEW rect \in Rect, NEW size \in PictureSize
  PROVE  ClampCropRect(rect, size) \in Rect /\ Inside(ClampCropRect(rect, size), size)
  BY DEF ClampCropRect, Inside, AtLeast, AtMost, Rect, PictureSize

\* Clamping changes neither width nor height of an area that is no larger
\* than the picture, and nothing of one inside it.
LEMMA ClampKeepsSize ==
  ASSUME NEW rect \in Rect, NEW size \in PictureSize,
         1 <= rect.w, rect.w <= size.w, 1 <= rect.h, rect.h <= size.h
  PROVE  /\ ClampCropRect(rect, size).w = rect.w
         /\ ClampCropRect(rect, size).h = rect.h
         /\ Inside(rect, size) => ClampCropRect(rect, size) = rect
  BY DEF ClampCropRect, Inside, AtLeast, AtMost, Rect, PictureSize

\* The height that goes with a width fits a picture that is high enough for
\* the width.
LEMMA HeightFits ==
  ASSUME NEW width \in Int, NEW h \in Int, h >= 1, 14 * width <= 32 * h + 7
  PROVE  HeightFor(width) \in Int /\ 1 <= HeightFor(width) /\ HeightFor(width) <= h
  BY DEF HeightFor, Round, AtLeast

LEMMA RoundHalf ==
  ASSUME NEW a \in Nat
  PROVE  Round(a, 2) \in Int /\ 0 <= Round(a, 2) /\ 2 * Round(a, 2) <= a + 1
  BY DEF Round

\* The default area and the full one are locked parts of the picture.
LEMMA BuildLocked ==
  ASSUME NEW size \in PictureSize, NEW tenths \in {7, 10}
  PROVE  BuildCropRect(size, tenths) \in Rect /\ Locked(BuildCropRect(size, tenths), size)
<1> DEFINE side == AtMost(16 * size.h, 7 * size.w)
<1> DEFINE width == AtLeast(1, Round(side * tenths, 70))
<1>1. size.w \in Nat /\ size.w >= 1 /\ size.h \in Nat /\ size.h >= 1
  BY DEF PictureSize
<1>2. side \in Int /\ 1 <= side /\ side <= 16 * size.h /\ side <= 7 * size.w
  BY <1>1 DEF AtMost
<1>3. width \in Int /\ 1 <= width /\ width <= size.w /\ 14 * width <= 32 * size.h + 7
  <2> HIDE DEF side
  <2>1. CASE tenths = 7
    BY <1>1, <1>2, <2>1 DEF AtLeast, Round
  <2>2. CASE tenths = 10
    BY <1>1, <1>2, <2>2 DEF AtLeast, Round
  <2> QED BY <2>1, <2>2
<1> HIDE DEF width
<1> DEFINE height == HeightFor(width)
<1>4. height \in Int /\ 1 <= height /\ height <= size.h
  BY <1>1, <1>3, HeightFits
<1>5. BuildCropRect(size, tenths) =
        [x |-> Round(size.w - width, 2), y |-> Round(size.h - height, 2), w |-> width, h |-> height]
  BY DEF BuildCropRect, width
<1> HIDE DEF height
<1>6. /\ Round(size.w - width, 2) \in Int /\ 0 <= Round(size.w - width, 2)
      /\ 2 * Round(size.w - width, 2) <= size.w - width + 1
  BY <1>1, <1>3, RoundHalf
<1>7. /\ Round(size.h - height, 2) \in Int /\ 0 <= Round(size.h - height, 2)
      /\ 2 * Round(size.h - height, 2) <= size.h - height + 1
  BY <1>1, <1>4, RoundHalf
<1>8. BuildCropRect(size, tenths) \in Rect /\ Inside(BuildCropRect(size, tenths), size)
  BY <1>1, <1>3, <1>4, <1>5, <1>6, <1>7 DEF Inside, Rect
<1> QED BY <1>5, <1>8 DEF Locked, height

\* Whatever is dragged, the result is an area ...
LEMMA ResizeIsRect ==
  ASSUME NEW rect \in Rect, NEW size \in PictureSize, NEW drag \in Int
  PROVE  ResizeCropRect(rect, drag, size) \in Rect
<1> DEFINE width == AtLeast(MinCropWidth, AtMost(Widest(rect, size), rect.w + drag))
<1> DEFINE cut == [rect EXCEPT !.w = width, !.h = HeightFor(width)]
<1>1. size.w \in Int /\ size.h \in Int /\ rect.x \in Int /\ rect.y \in Int /\ rect.w \in Int
  BY DEF PictureSize, Rect
<1>2. width \in Int
  BY <1>1 DEF Widest, AtLeast, AtMost, MinCropWidth
<1> HIDE DEF width
<1>3. HeightFor(width) \in Int
  BY <1>2 DEF HeightFor, Round, AtLeast
<1>4. cut \in Rect
  BY <1>2, <1>3 DEF Rect
<1>5. ResizeCropRect(rect, drag, size) = ClampCropRect(cut, size)
  BY DEF ResizeCropRect, width
<1> QED BY <1>4, <1>5, ClampInside

\* ... and locked, if the one before was a part of the picture.
LEMMA ResizeLocked ==
  ASSUME NEW rect \in Rect, NEW size \in PictureSize, Inside(rect, size), NEW drag \in Int
  PROVE  /\ ResizeCropRect(rect, drag, size) \in Rect
         /\ Locked(ResizeCropRect(rect, drag, size), size)
<1> DEFINE width == AtLeast(MinCropWidth, AtMost(Widest(rect, size), rect.w + drag))
<1> DEFINE cut == [rect EXCEPT !.w = width, !.h = HeightFor(width)]
<1>1. /\ size.w \in Nat /\ size.w >= 1 /\ size.h \in Nat /\ size.h >= 1
      /\ rect.x \in Int /\ rect.y \in Int /\ rect.w \in Int
      /\ 0 <= rect.x /\ rect.x + 1 <= size.w /\ 0 <= rect.y /\ rect.y + 1 <= size.h
  BY DEF PictureSize, Rect, Inside
<1>2. width \in Int /\ 3 <= width
      /\ (width <= size.w - rect.x \/ width = 3) /\ 14 * width <= 32 * (size.h - rect.y) + 10
  BY <1>1 DEF Widest, AtLeast, AtMost, MinCropWidth
<1> HIDE DEF width
<1>3. HeightFor(width) \in Int /\ 1 <= HeightFor(width) /\ HeightFor(width) <= size.h
  <2>1. 14 * width <= 32 * size.h + 10
    BY <1>1, <1>2
  <2> QED BY <1>1, <1>2, <2>1 DEF HeightFor, Round, AtLeast
<1>4. cut \in Rect /\ cut.w = width /\ cut.h = HeightFor(width)
  BY <1>2, <1>3 DEF Rect
<1> HIDE DEF cut
<1>5. ResizeCropRect(rect, drag, size) = ClampCropRect(cut, size)
  BY DEF ResizeCropRect, cut, width
<1>6. ClampCropRect(cut, size) \in Rect /\ Inside(ClampCropRect(cut, size), size)
  BY <1>4, ClampInside
<1>7. ASSUME size.w >= MinCropWidth
      PROVE  ClampCropRect(cut, size).h = HeightFor(ClampCropRect(cut, size).w)
  <2>1. width <= size.w
    BY <1>1, <1>2, <1>7 DEF MinCropWidth
  <2> QED BY <1>1, <1>2, <1>3, <1>4, <2>1, ClampKeepsSize
<1> QED BY <1>5, <1>6, <1>7 DEF Locked

LEMMA ShiftedRect ==
  ASSUME NEW rect \in Rect, NEW x \in Int, NEW y \in Int
  PROVE  LET to == [rect EXCEPT !.x = x, !.y = y]
         IN  to \in Rect /\ to.w = rect.w /\ to.h = rect.h
  BY DEF Rect

\* Moving an area changes neither its width nor its height.
LEMMA MoveLocked ==
  ASSUME NEW rect \in Rect, NEW size \in PictureSize, Locked(rect, size),
         NEW dx \in Int, NEW dy \in Int
  PROVE  LET moved == ClampCropRect([rect EXCEPT !.x = rect.x + dx, !.y = rect.y + dy], size)
         IN  moved \in Rect /\ Locked(moved, size)
<1> DEFINE to == [rect EXCEPT !.x = rect.x + dx, !.y = rect.y + dy]
<1>1. to \in Rect /\ to.w = rect.w /\ to.h = rect.h
  <2>1. rect.x + dx \in Int /\ rect.y + dy \in Int
    BY DEF Rect
  <2> QED BY <2>1, ShiftedRect
<1>2. 1 <= rect.w /\ rect.w <= size.w /\ 1 <= rect.h /\ rect.h <= size.h
  BY DEF Locked, Inside, Rect, PictureSize
<1> HIDE DEF to
<1>3. ClampCropRect(to, size).w = rect.w /\ ClampCropRect(to, size).h = rect.h
  BY <1>1, <1>2, ClampKeepsSize
<1>4. ClampCropRect(to, size) \in Rect /\ Inside(ClampCropRect(to, size), size)
  BY <1>1, ClampInside
<1> QED BY <1>3, <1>4 DEF Locked, to

-----------------------------------------------------------------------------
(* The page *)

LEMMA InitSetup == SetupInit => SetupInv
  BY SetupAssumption DEF SetupInit, SetupInv, SetupTypeOK

\* The area that the page shows.
LEMMA Shown ==
  ASSUME SetupInv, image # None
  PROVE  /\ Size[image] \in PictureSize
         /\ RenderCropRect = crop /\ crop \in Rect
  BY SetupAssumption DEF SetupInv, SetupTypeOK, RenderCropRect, PictureSize

\* A new area for the picture of the old one.
LEMMA CutKeeps ==
  ASSUME SetupInv, NEW rect \in Rect, Cut(rect),
         ~stale => Locked(rect, Size[image])
  PROVE  SetupInv'
  BY NoneIsNoRect DEF SetupInv, SetupTypeOK, Cut

LEMMA NextSetup == SetupInv /\ [SetupNext]_setupVars => SetupInv'
<1> SUFFICES ASSUME SetupInv, [SetupNext]_setupVars PROVE SetupInv'
  OBVIOUS
<1>1. ASSUME NEW f \in Pictures \cup {None}, ChooseFile(f) PROVE SetupInv'
  BY <1>1 DEF SetupInv, SetupTypeOK, ChooseFile
<1>2. CASE ImageLoaded
  <2>1. chosen \in Pictures /\ Size[chosen] \in PictureSize
    BY <1>2, SetupAssumption DEF ImageLoaded, SetupInv, SetupTypeOK, PictureSize
  <2>2. /\ BuildCropRect(Size[chosen], 7) \in Rect
        /\ Locked(BuildCropRect(Size[chosen], 7), Size[chosen])
    BY <2>1, BuildLocked
  <2>3. CASE crop = None
    BY <1>2, <2>1, <2>2, <2>3, NoneIsNoRect DEF ImageLoaded, SetupInv, SetupTypeOK
  <2>4. CASE crop # None
    BY <1>2, <2>1, <2>4 DEF ImageLoaded, SetupInv, SetupTypeOK
  <2> QED BY <2>3, <2>4
<1>3. ASSUME NEW dx \in Drags, NEW dy \in Drags, HandleCropPointerDown(dx, dy) PROVE SetupInv'
  <2> DEFINE moved == ClampCropRect([crop EXCEPT !.x = crop.x + dx, !.y = crop.y + dy], Size[image])
  <2>1. image # None /\ Size[image] \in PictureSize /\ RenderCropRect = crop /\ crop \in Rect
    BY <1>3, Shown DEF HandleCropPointerDown, Cut
  <2>2. dx \in Int /\ dy \in Int
    BY SetupAssumption
  <2>3. moved \in Rect
    <3>1. crop.x + dx \in Int /\ crop.y + dy \in Int
      BY <2>1, <2>2 DEF Rect
    <3>2. [crop EXCEPT !.x = crop.x + dx, !.y = crop.y + dy] \in Rect
      BY <2>1, <3>1, ShiftedRect
    <3> QED BY <2>1, <3>2, ClampInside
  <2>4. ~stale => Locked(moved, Size[image])
    BY <2>1, <2>2, MoveLocked DEF SetupInv
  <2>5. Cut(moved)
    BY <1>3, <2>1 DEF HandleCropPointerDown
  <2> QED BY <2>3, <2>4, <2>5, CutKeeps
<1>4. ASSUME NEW drag \in Drags, HandleCropResizePointerDown(drag) PROVE SetupInv'
  <2> DEFINE resized == ResizeCropRect(crop, drag, Size[image])
  <2>1. image # None /\ Size[image] \in PictureSize /\ RenderCropRect = crop /\ crop \in Rect
    BY <1>4, Shown DEF HandleCropResizePointerDown, Cut
  <2>2. drag \in Int
    BY SetupAssumption
  <2>3. resized \in Rect
    BY <2>1, <2>2, ResizeIsRect
  <2>4. ~stale => Locked(resized, Size[image])
    BY <2>1, <2>2, ResizeLocked DEF SetupInv, Locked
  <2>5. Cut(resized)
    BY <1>4, <2>1 DEF HandleCropResizePointerDown
  <2> QED BY <2>3, <2>4, <2>5, CutKeeps
<1>5. ASSUME HandleResetCrop \/ HandleUseFullImage PROVE SetupInv'
  <2>1. image # None /\ Size[image] \in PictureSize
    BY <1>5, Shown DEF HandleResetCrop, HandleUseFullImage, Cut
  <2>2. PICK tenths \in {7, 10} : Cut(BuildCropRect(Size[image], tenths))
    BY <1>5 DEF HandleResetCrop, HandleUseFullImage, DefaultCropRect
  <2>3. /\ BuildCropRect(Size[image], tenths) \in Rect
        /\ Locked(BuildCropRect(Size[image], tenths), Size[image])
    BY <2>1, BuildLocked
  <2> QED BY <2>2, <2>3, CutKeeps
<1>6. ASSUME NEW r \in Requests, NEW e \in Extensions, HandleSave(r, e) PROVE SetupInv'
  BY <1>6 DEF HandleSave, SetupInv, SetupTypeOK
<1>7. CASE UNCHANGED setup
  BY <1>7 DEF setup, SetupInv, SetupTypeOK
<1> QED
  BY <1>1, <1>2, <1>3, <1>4, <1>5, <1>6, <1>7 DEF SetupNext, setupVars

-----------------------------------------------------------------------------
\* The invariant of the page holds at every step, whatever is clicked.
THEOREM SetupAlwaysInv == SetupSpec => []SetupInv
  BY InitSetup, NextSetup, PTL DEF SetupSpec

(* What the page holds has its type, and an area belongs to a file.        *)
THEOREM SetupTypes == SetupSpec => []SetupTypeOK
<1>1. SetupInv => SetupTypeOK
  BY DEF SetupInv
<1> QED BY <1>1, SetupAlwaysInv, PTL

(* For pictures of any size and drags of any length: what is uploaded is a *)
(* part of the picture, also with an area left from another picture.       *)
THEOREM NothingBlankIsUploaded == SetupSpec => []UploadedIsPart
<1>1. SetupInv => UploadedIsPart
  <2> SUFFICES ASSUME SetupInv, Loaded PROVE Inside(Cropped, Size[chosen])
    BY DEF UploadedIsPart
  <2>1. image # None /\ image = chosen
    BY DEF Loaded
  <2> QED BY <2>1, Shown, ClampInside DEF Cropped
<1> QED BY <1>1, SetupAlwaysInv, PTL

(* And the area has the shape of the placeholder it is drawn in, and is    *)
(* the one that was shown.                                                 *)
THEOREM PlaceholderShape == SetupSpec => []ShapeIsKept
<1>1. SetupInv => ShapeIsKept
  <2> SUFFICES ASSUME SetupInv, Loaded, ~stale, Size[chosen].w >= MinCropWidth
               PROVE  Cropped = RenderCropRect /\ Cropped.h = HeightFor(Cropped.w)
    BY DEF ShapeIsKept
  <2>1. image # None /\ image = chosen /\ Locked(crop, Size[image])
    BY DEF Loaded, SetupInv
  <2>2. Size[image] \in PictureSize /\ RenderCropRect = crop /\ crop \in Rect
    BY <2>1, Shown
  <2>3. 1 <= crop.w /\ crop.w <= Size[image].w /\ 1 <= crop.h /\ crop.h <= Size[image].h
    BY <2>1, <2>2 DEF Locked, Inside, Rect, PictureSize
  <2>4. Cropped = crop
    BY <2>1, <2>2, <2>3, ClampKeepsSize DEF Cropped, Locked
  <2> QED BY <2>1, <2>2, <2>4 DEF Locked
<1> QED BY <1>1, SetupAlwaysInv, PTL

(* All that is checked of the page.                                        *)
THEOREM UploadsAreRight == SetupSpec => []UploadsAgree
<1>1. SetupTypeOK /\ UploadedIsPart /\ ShapeIsKept => UploadsAgree
  BY DEF UploadsAgree
<1> QED BY <1>1, SetupTypes, NothingBlankIsUploaded, PlaceholderShape, PTL

-----------------------------------------------------------------------------
(* Credentials: what a request has read, and what is still so              *)

Signing == {"find", "retire", "create", "commit"}

\* What a request has read when it waits at step.
Ready(step, s) ==
  /\ step \in Signing => s.user \in Users /\ s.name \in Names /\ s.issuer \in Authorities
  /\ step \in {"retire", "commit"} =>
       s.cert \in DOMAIN certs /\ certs[s.cert].user = s.user
  /\ step = "commit" => Normal[certs[s.cert].subject] = Normal[s.name]
  /\ step = "tidy" => s.user \in Users /\ s.ext \in Extensions

ReadBeforeUse == \A r \in Requests : Ready(pc[r], snap[r])

\* What waits where, and a request that was not received has no user.
HandlersAgree ==
  \A r \in Requests :
    /\ pc[r] \in Signing => Handler[r] = "sign"
    /\ pc[r] = "tidy" => Handler[r] = "upload"
    /\ pc[r] = "idle" => snap[r].user = None

\* What it has found of the rows and files is still so.
StillSo(step, s) ==
  /\ step \in {"retire", "commit"} => certs[s.cert].active
  /\ step = "create" => \A n \in DOMAIN certs : certs[n].user = s.user => ~certs[n].active
  /\ step = "tidy" => images[s.user][s.ext] # None

NothingChanged == Alone => \A r \in InFlight : StillSo(pc[r], snap[r])

OneAtATime == IsFiniteSet(InFlight) /\ (Alone => \A q, r \in InFlight : q = r)

\* retireCertificate sets both columns.
ActiveIsActive == \A n \in DOMAIN certs : certs[n].active => certs[n].status = "ACTIVE"

\* The requests, the rows and the images.
CredentialsInv ==
  /\ TypeOK /\ ReadBeforeUse /\ HandlersAgree /\ OneAtATime
  /\ ActiveIsActive /\ SignedUnderOwnName /\ OneActiveCertificate
  /\ NothingChanged /\ OneImage

-----------------------------------------------------------------------------
(* Frames *)

Awaits == {"idle", "find", "retire", "create", "commit", "tidy", "done", "failed"}

LEMMA GotoMoves ==
  ASSUME TypeOK, NEW r \in Requests, NEW step, NEW s, Goto(r, step, s)
  PROVE  /\ pc'[r] = step /\ snap'[r] = s
         /\ \A q \in Requests \ {r} : pc'[q] = pc[q] /\ snap'[q] = snap[q]
         /\ step \in Awaits => pc' \in [Requests -> Awaits]
         /\ s \in Snapshot => snap' \in [Requests -> Snapshot]
  BY DEF TypeOK, Goto, Awaits

LEMMA BlankIsSnapshot ==
  /\ Blank \in Snapshot
  /\ \A u \in Users, e \in Extensions : [Blank EXCEPT !.user = u, !.ext = e] \in Snapshot
  /\ \A u \in Users, n \in Names, a \in Authorities :
       [Blank EXCEPT !.user = u, !.name = n, !.issuer = a] \in Snapshot
  BY DEF Blank, Snapshot

\* The rows that are there stay, for the same user and name.
CertsKept ==
  \A n \in DOMAIN certs :
    /\ n \in DOMAIN certs'
    /\ certs'[n].user = certs[n].user /\ certs'[n].subject = certs[n].subject

LEMMA CertTypes ==
  ASSUME TypeOK
  PROVE  /\ certs \in Seq(Certificate) /\ Len(certs) \in Nat /\ DOMAIN certs = 1..Len(certs)
         /\ \A n \in DOMAIN certs : certs[n] \in Certificate
  BY DEF TypeOK

LEMMA NobodyElse ==
  ASSUME TypeOK, OneAtATime, Alone, NEW r \in Requests,
         r \in InFlight \/ Cardinality(InFlight) < limit
  PROVE  \A q \in Requests \ {r} : q \notin InFlight
<1>1. CASE r \in InFlight
  BY <1>1 DEF OneAtATime
<1>2. CASE Cardinality(InFlight) < limit
  <2>1. IsFiniteSet(InFlight) /\ Cardinality(InFlight) \in Nat
    BY FS_CardinalityType DEF OneAtATime
  <2>2. Cardinality(InFlight) = 0
    BY <1>2, <2>1 DEF Alone
  <2> QED BY <2>1, <2>2, FS_EmptySet
<1> QED BY <1>1, <1>2

\* One request goes on; what is left is its own next await.
LEMMA GotoRequests ==
  ASSUME CredentialsInv, NEW r \in Requests, NEW step \in Awaits, NEW s, Goto(r, step, s),
         limit' = limit, CertsKept, Ready(step, s)',
         step \in Signing => Handler[r] = "sign",
         step = "tidy" => Handler[r] = "upload",
         step # "idle",
         r \in InFlight \/ Cardinality(InFlight) < limit
  PROVE  ReadBeforeUse' /\ HandlersAgree' /\ OneAtATime'
<1>0. TypeOK /\ ReadBeforeUse /\ HandlersAgree /\ OneAtATime
  BY DEF CredentialsInv
<1>1. /\ pc'[r] = step /\ snap'[r] = s
      /\ \A q \in Requests \ {r} : pc'[q] = pc[q] /\ snap'[q] = snap[q]
  BY <1>0, GotoMoves
<1>2. ASSUME NEW q \in Requests PROVE Ready(pc[q], snap[q])'
  <2>1. CASE q = r
    BY <1>1, <2>1 DEF Ready
  <2>2. CASE q # r
    <3>1. pc'[q] = pc[q] /\ snap'[q] = snap[q] /\ Ready(pc[q], snap[q])
      BY <1>0, <1>1, <2>2 DEF ReadBeforeUse
    <3> QED BY <3>1 DEF Ready, CertsKept
  <2> QED BY <2>1, <2>2
<1>3. HandlersAgree'
  <2> SUFFICES ASSUME NEW q \in Requests
               PROVE  /\ pc'[q] \in Signing => Handler[q] = "sign"
                      /\ pc'[q] = "tidy" => Handler[q] = "upload"
                      /\ pc'[q] = "idle" => snap'[q].user = None
    BY DEF HandlersAgree
  <2> QED BY <1>0, <1>1 DEF HandlersAgree
<1>4. InFlight' \subseteq InFlight \cup {r}
  BY <1>1 DEF InFlight
<1>5. IsFiniteSet(InFlight')
  <2>1. IsFiniteSet(InFlight \cup {r})
    BY <1>0, FS_AddElement DEF OneAtATime
  <2> QED BY <1>4, <2>1, FS_Subset
<1>6. ASSUME Alone' PROVE \A p, q \in InFlight' : p = q
  <2>1. Alone
    BY <1>6 DEF Alone
  <2>2. \A q \in Requests \ {r} : q \notin InFlight
    BY <1>0, <2>1, NobodyElse
  <2> QED BY <1>4, <2>2 DEF InFlight
<1> QED BY <1>2, <1>3, <1>5, <1>6 DEF ReadBeforeUse, OneAtATime

\* One at a time, nobody else has anything left to find as it was.
LEMMA GotoStill ==
  ASSUME CredentialsInv, NEW r \in Requests, NEW step \in Awaits, NEW s, Goto(r, step, s),
         limit' = limit, Alone => StillSo(step, s)',
         r \in InFlight \/ Cardinality(InFlight) < limit
  PROVE  NothingChanged'
<1>0. TypeOK /\ OneAtATime
  BY DEF CredentialsInv
<1> SUFFICES ASSUME Alone', NEW q \in InFlight' PROVE StillSo(pc[q], snap[q])'
  BY DEF NothingChanged
<1>1. Alone
  BY DEF Alone
<1>2. /\ pc'[r] = step /\ snap'[r] = s
      /\ \A p \in Requests \ {r} : pc'[p] = pc[p] /\ snap'[p] = snap[p]
  BY <1>0, GotoMoves
<1>3. \A p \in Requests \ {r} : p \notin InFlight
  BY <1>0, <1>1, NobodyElse
<1>4. q = r
  BY <1>2, <1>3 DEF InFlight
<1> QED BY <1>1, <1>2, <1>4 DEF StillSo

\* Where no row is changed.
LEMMA SameRows ==
  ASSUME CredentialsInv, UNCHANGED <<rows, limit>>
  PROVE  CertsKept /\ ActiveIsActive' /\ SignedUnderOwnName' /\ OneActiveCertificate'
<1>1. certs' = certs /\ signatures' = signatures /\ limit' = limit
  BY DEF rows
<1> QED
  BY <1>1 DEF CredentialsInv, CertsKept, ActiveIsActive, SignedUnderOwnName,
              OneActiveCertificate, Alone

\* Where no image is, and no upload ends.
LEMMA SameImages ==
  ASSUME CredentialsInv, images' = images, NEW r \in Requests, NEW step, NEW s,
         Goto(r, step, s), Handler[r] = "upload" => snap[r].user \in {s.user, None}
  PROVE  OneImage'
<1>0. TypeOK /\ OneImage
  BY DEF CredentialsInv
<1>1. /\ snap'[r] = s
      /\ \A q \in Requests \ {r} : snap'[q] = snap[q]
  BY <1>0, GotoMoves
<1> SUFFICES ASSUME NEW u \in Users, ~Uploading(u)' PROVE Cardinality(Images(u)') <= 1
  BY DEF OneImage
<1>2. ~Uploading(u)
  BY <1>1, CredentialsAssumption DEF Uploading
<1>3. Images(u)' = Images(u)
  BY DEF Images
<1> QED BY <1>0, <1>2, <1>3 DEF OneImage

-----------------------------------------------------------------------------
(* One lemma per action *)

LEMMA CredentialsInit == Init => CredentialsInv
<1> SUFFICES ASSUME Init PROVE CredentialsInv
  OBVIOUS
<1>1. TypeOK
  <2>1. profile \in [Users -> Profile]
    BY DEF Init, Profile
  <2>2. certs \in Seq(Certificate)
    BY DEF Init
  <2>3. snap \in [Requests -> Snapshot]
    BY BlankIsSnapshot DEF Init
  <2> QED BY <2>1, <2>2, <2>3, CredentialsAssumption DEF Init, TypeOK
<1>2. \A r \in Requests : pc[r] = "idle" /\ snap[r] = Blank
  BY DEF Init
<1>3. ReadBeforeUse /\ HandlersAgree
  BY <1>2 DEF ReadBeforeUse, HandlersAgree, Ready, Signing, Blank
<1>4. InFlight = {}
  BY <1>2 DEF InFlight
<1>5. OneAtATime /\ NothingChanged
  BY <1>4, FS_EmptySet DEF OneAtATime, NothingChanged
<1>6. ActiveIsActive /\ SignedUnderOwnName /\ OneActiveCertificate
  BY DEF Init, ActiveIsActive, SignedUnderOwnName, OneActiveCertificate
<1>7. OneImage
  <2>1. \A u \in Users : Images(u) = {}
    BY DEF Init, Images
  <2> QED BY <2>1, FS_EmptySet DEF OneImage
<1> QED BY <1>1, <1>3, <1>5, <1>6, <1>7 DEF CredentialsInv

LEMMA NameIsName ==
  ASSUME TypeOK, NEW u \in Users
  PROVE  CommonName(u) \in Names
  BY CredentialsAssumption DEF TypeOK, Profile, CommonName

LEMMA LargestNumber ==
  ASSUME NEW n \in Nat, NEW I \in SUBSET (1..n), I # {}
  PROVE  \E m \in I : \A i \in I : m >= i
<1> DEFINE Below == OpToRel(<, Nat)
<1> DEFINE D == {n - i : i \in I}
<1>1. \A a, b \in Nat : a < b => <<a, b>> \in Below
  BY DEF OpToRel
<1>2. IsWellFoundedOn(Below, Nat)
  BY NatLessThanWellFounded
<1> HIDE DEF Below
<1>3. D \subseteq Nat /\ D # {}
  <2>1. \A i \in I : n - i \in Nat
    OBVIOUS
  <2> QED BY <2>1
<1>4. PICK x \in D : \A y \in D : ~(<<y, x>> \in Below)
  BY <1>2, <1>3, WFMin
<1>5. PICK m \in I : x = n - m
  OBVIOUS
<1>6. ASSUME NEW i \in I PROVE m >= i
  <2>1. n - i \in D
    OBVIOUS
  <2>2. n - i \in Nat /\ x \in Nat
    BY <1>3, <2>1
  <2>3. ~(n - i < x)
    BY <1>1, <1>4, <2>1, <2>2
  <2> QED BY <1>5, <2>2, <2>3
<1> QED BY <1>6

\* The newest active certificate is one, and there is one if there is any.
LEMMA ExistingIs ==
  ASSUME TypeOK, NEW u
  PROVE  /\ Existing(u) # 0 =>
              /\ Existing(u) \in DOMAIN certs
              /\ certs[Existing(u)].user = u /\ certs[Existing(u)].active
         /\ Existing(u) = 0 =>
              \A n \in DOMAIN certs :
                certs[n].user = u /\ certs[n].active => certs[n].status # "ACTIVE"
<1> DEFINE I == {i \in 1..Len(certs) :
                   certs[i].user = u /\ certs[i].active /\ certs[i].status = "ACTIVE"}
<1>0. Len(certs) \in Nat /\ DOMAIN certs = 1..Len(certs)
  BY CertTypes
<1>1. Existing(u) = IF I # {} THEN Max(I) ELSE 0
  BY DEF Existing, SelectLastInSeq
<1>2. I \in SUBSET (1..Len(certs))
  OBVIOUS
<1> HIDE DEF I
<1>3. I # {} => Max(I) \in I
  <2> SUFFICES ASSUME I # {} PROVE \E m \in I : \A i \in I : m >= i
    BY DEF Max
  <2> QED BY <1>0, <1>2, LargestNumber
<1>4. 0 \notin I
  BY <1>0, <1>2
<1> QED
  <2>1. CASE I # {}
    BY <1>0, <1>1, <1>3, <1>4, <2>1 DEF I
  <2>2. CASE I = {}
    BY <1>0, <1>1, <2>2 DEF I
  <2> QED BY <2>1, <2>2

\* Where only a request goes on.
LEMMA GotoKeeps ==
  ASSUME CredentialsInv, NEW r \in Requests, NEW step \in Awaits, NEW s \in Snapshot,
         Goto(r, step, s), UNCHANGED <<rows, world, images, limit>>,
         Ready(step, s), Alone => StillSo(step, s),
         step \in Signing => Handler[r] = "sign",
         step = "tidy" => Handler[r] = "upload",
         step # "idle",
         r \in InFlight \/ Cardinality(InFlight) < limit,
         Handler[r] = "upload" => snap[r].user \in {s.user, None}
  PROVE  CredentialsInv'
<1>1. /\ certs' = certs /\ signatures' = signatures /\ images' = images /\ limit' = limit
      /\ profile' = profile /\ authority' = authority /\ secret' = secret /\ changes' = changes
  BY DEF rows, world
<1>2. TypeOK'
  <2>1. TypeOK
    BY DEF CredentialsInv
  <2>2. pc' \in [Requests -> Awaits] /\ snap' \in [Requests -> Snapshot]
    BY <2>1, GotoMoves
  <2> QED BY <1>1, <2>1, <2>2 DEF TypeOK, Awaits
<1>3. CertsKept /\ ActiveIsActive' /\ SignedUnderOwnName' /\ OneActiveCertificate'
  BY <1>1, SameRows DEF rows
<1>4. ReadBeforeUse' /\ HandlersAgree' /\ OneAtATime'
  <2>1. Ready(step, s)'
    BY <1>1 DEF Ready
  <2> QED BY <1>1, <1>3, <2>1, GotoRequests
<1>5. NothingChanged'
  <2>1. Alone => StillSo(step, s)'
    BY <1>1 DEF StillSo
  <2> QED BY <1>1, <2>1, GotoStill
<1>6. OneImage'
  BY <1>1, SameImages
<1> QED BY <1>2, <1>3, <1>4, <1>5, <1>6 DEF CredentialsInv

LEMMA ReadProfileKeeps ==
  ASSUME CredentialsInv, NEW r \in Requests, NEW u \in Users, ReadProfile(r, u)
  PROVE  CredentialsInv'
<1> DEFINE s == [Blank EXCEPT !.user = u, !.name = CommonName(u), !.issuer = authority]
<1>0. TypeOK
  BY DEF CredentialsInv
<1>1. /\ Handler[r] = "sign" /\ Cardinality(InFlight) < limit
      /\ Goto(r, "find", s) /\ UNCHANGED <<rows, world, images, limit>>
  BY DEF ReadProfile, Arrives, LoadCertificateAuthority
<1>2. CommonName(u) \in Names /\ authority \in Authorities
  BY <1>0, NameIsName DEF TypeOK
<1>3. s \in Snapshot /\ s.user = u /\ s.name = CommonName(u) /\ s.issuer = authority
  BY <1>2, BlankIsSnapshot DEF Blank
<1> HIDE DEF s
<1>4. Ready("find", s) /\ StillSo("find", s)
  BY <1>2, <1>3 DEF Ready, StillSo
<1> QED BY <1>1, <1>3, <1>4, GotoKeeps DEF Awaits

LEMMA FindCertificateKeeps ==
  ASSUME CredentialsInv, NEW r \in Requests, FindCertificate(r)
  PROVE  CredentialsInv'
<1> DEFINE s == snap[r]
<1> DEFINE n == Existing(s.user)
<1> DEFINE rotate == n # 0 /\ ShouldRotateCertificate(certs[n], s.name, s.issuer)
<1> DEFINE found == [s EXCEPT !.cert = n, !.rotate = rotate]
<1>0. TypeOK /\ ReadBeforeUse /\ HandlersAgree /\ ActiveIsActive
  BY DEF CredentialsInv
<1>1. /\ pc[r] = "find" /\ UNCHANGED <<rows, world, images, limit>>
      /\ \/ n = 0 /\ Goto(r, "create", s)
         \/ n # 0 /\ Goto(r, "retire", found)
         \/ n # 0 /\ ~rotate /\ Goto(r, "commit", found)
         \/ Goto(r, "done", Blank)
  BY DEF FindCertificate, Finish
<1>2. /\ r \in InFlight /\ Handler[r] = "sign"
      /\ s \in Snapshot /\ s.user \in Users /\ s.name \in Names /\ s.issuer \in Authorities
  BY <1>0, <1>1 DEF InFlight, HandlersAgree, Signing, ReadBeforeUse, Ready, TypeOK
<1>3. /\ n # 0 => n \in DOMAIN certs /\ certs[n].user = s.user /\ certs[n].active
      /\ n = 0 => \A m \in DOMAIN certs : certs[m].user = s.user => ~certs[m].active
  BY <1>0, ExistingIs DEF ActiveIsActive
<1>4. n \in Nat
  BY <1>0, <1>3, CertTypes
<1>5. ~rotate /\ n # 0 => Normal[certs[n].subject] = Normal[s.name]
  BY DEF ShouldRotateCertificate
<1>6. rotate \in BOOLEAN
  OBVIOUS
<1> HIDE DEF n, rotate
<1>7. /\ found \in Snapshot /\ found.user = s.user /\ found.name = s.name
      /\ found.issuer = s.issuer /\ found.cert = n
  BY <1>2, <1>4, <1>6 DEF Snapshot
<1> HIDE DEF found, s
<1>8. CASE n = 0 /\ Goto(r, "create", s)
  <2>1. Ready("create", s) /\ StillSo("create", s)
    BY <1>2, <1>3, <1>8 DEF Ready, StillSo
  <2> QED BY <1>1, <1>2, <1>8, <2>1, GotoKeeps DEF Awaits, s
<1>9. CASE n # 0 /\ Goto(r, "retire", found)
  <2>1. Ready("retire", found) /\ StillSo("retire", found)
    BY <1>2, <1>3, <1>7, <1>9 DEF Ready, StillSo
  <2> QED BY <1>1, <1>2, <1>7, <1>9, <2>1, GotoKeeps DEF Awaits
<1>10. CASE n # 0 /\ ~rotate /\ Goto(r, "commit", found)
  <2>1. Ready("commit", found) /\ StillSo("commit", found)
    BY <1>2, <1>3, <1>5, <1>7, <1>10 DEF Ready, StillSo
  <2> QED BY <1>1, <1>2, <1>7, <1>10, <2>1, GotoKeeps DEF Awaits
<1>11. CASE Goto(r, "done", Blank)
  <2>1. Ready("done", Blank) /\ StillSo("done", Blank)
    BY DEF Ready, StillSo, Signing
  <2> QED BY <1>1, <1>2, <1>11, <2>1, BlankIsSnapshot, GotoKeeps DEF Awaits, Signing
<1> QED BY <1>1, <1>8, <1>9, <1>10, <1>11

LEMMA FailKeeps ==
  ASSUME CredentialsInv, NEW r \in Requests, Fail(r)
  PROVE  CredentialsInv'
<1>1. /\ r \in InFlight /\ Goto(r, "failed", snap[r])
      /\ UNCHANGED <<rows, world, images, limit>> /\ snap[r] \in Snapshot
  BY DEF Fail, CredentialsInv, TypeOK
<1>2. Ready("failed", snap[r]) /\ StillSo("failed", snap[r])
  BY DEF Ready, StillSo, Signing
<1> QED BY <1>1, <1>2, GotoKeeps DEF Awaits, Signing

\* What the rows of a step that changes one of them have in common.
LEMMA RetiredRow ==
  ASSUME TypeOK, NEW n \in DOMAIN certs, NEW b \in BOOLEAN,
         certs' = [certs EXCEPT ![n] = Retired(@, b)]
  PROVE  /\ certs' \in Seq(Certificate) /\ DOMAIN certs' = DOMAIN certs
         /\ certs'[n].user = certs[n].user /\ certs'[n].subject = certs[n].subject
         /\ ~certs'[n].active
         /\ \A m \in DOMAIN certs : m # n => certs'[m] = certs[m]
<1>1. certs \in Seq(Certificate) /\ n \in 1..Len(certs) /\ certs[n] \in Certificate
  BY CertTypes
<1>2. /\ Retired(certs[n], b) \in Certificate
      /\ Retired(certs[n], b).user = certs[n].user
      /\ Retired(certs[n], b).subject = certs[n].subject
      /\ ~Retired(certs[n], b).active
  BY <1>1 DEF Retired, Certificate, CertificateStatus
<1>3. certs' = [certs EXCEPT ![n] = Retired(certs[n], b)]
  OBVIOUS
<1>4. /\ certs' \in Seq(Certificate) /\ Len(certs') = Len(certs)
      /\ \A m \in 1..Len(certs) :
           certs'[m] = IF m = n THEN Retired(certs[n], b) ELSE certs[m]
  BY <1>1, <1>2, <1>3, ExceptSeq
<1>5. DOMAIN certs' = DOMAIN certs /\ DOMAIN certs = 1..Len(certs)
  BY <1>1, <1>4
<1> QED BY <1>1, <1>2, <1>4, <1>5

LEMMA RetireCertificateKeeps ==
  ASSUME CredentialsInv, NEW r \in Requests, RetireCertificate(r)
  PROVE  CredentialsInv'
<1> DEFINE n == snap[r].cert
<1>0. /\ TypeOK /\ ReadBeforeUse /\ HandlersAgree /\ OneAtATime /\ ActiveIsActive
      /\ SignedUnderOwnName /\ OneActiveCertificate /\ NothingChanged
  BY DEF CredentialsInv
<1>1. /\ pc[r] = "retire" /\ Goto(r, "create", snap[r])
      /\ certs' = [certs EXCEPT ![n] = Retired(@, snap[r].rotate)]
      /\ signatures' = signatures /\ images' = images /\ limit' = limit
      /\ profile' = profile /\ authority' = authority /\ secret' = secret /\ changes' = changes
  BY DEF RetireCertificate, world
<1>2. /\ r \in InFlight /\ Handler[r] = "sign" /\ snap[r] \in Snapshot
      /\ snap[r].user \in Users /\ snap[r].name \in Names /\ snap[r].issuer \in Authorities
      /\ n \in DOMAIN certs /\ certs[n].user = snap[r].user
  BY <1>0, <1>1 DEF InFlight, HandlersAgree, Signing, ReadBeforeUse, Ready, TypeOK
<1>3. snap[r].rotate \in BOOLEAN
  BY <1>2 DEF Snapshot
<1>4. /\ certs' \in Seq(Certificate) /\ DOMAIN certs' = DOMAIN certs
      /\ certs'[n].user = certs[n].user /\ certs'[n].subject = certs[n].subject
      /\ ~certs'[n].active
      /\ \A m \in DOMAIN certs : m # n => certs'[m] = certs[m]
  BY <1>0, <1>1, <1>2, <1>3, RetiredRow
<1>5. CertsKept
  BY <1>4 DEF CertsKept
<1>6. TypeOK'
  <2>1. pc' \in [Requests -> Awaits] /\ snap' \in [Requests -> Snapshot]
    BY <1>0, <1>1, <1>2, GotoMoves DEF Awaits
  <2> QED BY <1>0, <1>1, <1>4, <2>1 DEF TypeOK, Awaits
<1>7. ReadBeforeUse' /\ HandlersAgree' /\ OneAtATime'
  <2>1. \A s : s.user \in Users /\ s.name \in Names /\ s.issuer \in Authorities
          => Ready("create", s)'
    BY DEF Ready
  <2> QED BY <1>1, <1>2, <1>5, <2>1, GotoRequests DEF Awaits
<1>8. ActiveIsActive'
  BY <1>0, <1>4 DEF ActiveIsActive
<1>9. SignedUnderOwnName'
  BY <1>0, <1>1, <1>5 DEF SignedUnderOwnName, CertsKept
<1>10. OneActiveCertificate'
  BY <1>0, <1>1, <1>4 DEF OneActiveCertificate, Alone
<1>11. ASSUME Alone PROVE \A m \in DOMAIN certs' : certs'[m].user = snap[r].user => ~certs'[m].active
  <2>1. certs[n].active
    BY <1>0, <1>1, <1>2, <1>11 DEF NothingChanged, StillSo
  <2> QED BY <1>0, <1>2, <1>4, <1>11, <2>1 DEF OneActiveCertificate
<1>12. NothingChanged'
  <2>1. \A s : s.user = snap[r].user /\ Alone => StillSo("create", s)'
    BY <1>11 DEF StillSo
  <2> QED BY <1>1, <1>2, <2>1, GotoStill DEF Awaits
<1>13. OneImage'
  BY <1>1, <1>2, SameImages
<1> QED BY <1>6, <1>7, <1>8, <1>9, <1>10, <1>12, <1>13 DEF CredentialsInv

LEMMA CreateCertificateKeeps ==
  ASSUME CredentialsInv, NEW r \in Requests, CreateCertificate(r)
  PROVE  CredentialsInv'
<1> DEFINE s == snap[r]
<1> DEFINE row == [user |-> s.user, subject |-> s.name, issuer |-> s.issuer, sealed |-> secret,
                   expired |-> FALSE, status |-> "ACTIVE", active |-> TRUE]
<1> DEFINE next == [s EXCEPT !.cert = Len(certs) + 1]
<1>0. /\ TypeOK /\ ReadBeforeUse /\ HandlersAgree /\ OneAtATime /\ ActiveIsActive
      /\ SignedUnderOwnName /\ OneActiveCertificate /\ NothingChanged
  BY DEF CredentialsInv
<1>1. /\ pc[r] = "create" /\ Goto(r, "commit", next) /\ certs' = Append(certs, row)
      /\ signatures' = signatures /\ images' = images /\ limit' = limit
      /\ profile' = profile /\ authority' = authority /\ secret' = secret /\ changes' = changes
  BY DEF CreateCertificate, Created, world
<1>2. /\ r \in InFlight /\ Handler[r] = "sign" /\ s \in Snapshot
      /\ s.user \in Users /\ s.name \in Names /\ s.issuer \in Authorities
  BY <1>0, <1>1 DEF InFlight, HandlersAgree, Signing, ReadBeforeUse, Ready, TypeOK
<1>3. /\ row \in Certificate /\ row.user = s.user /\ row.subject = s.name
      /\ row.status = "ACTIVE"
  BY <1>0, <1>2 DEF Certificate, CertificateStatus, TypeOK
<1>4. certs \in Seq(Certificate) /\ Len(certs) \in Nat /\ DOMAIN certs = 1..Len(certs)
  BY <1>0, CertTypes
<1>5. /\ next \in Snapshot /\ next.user = s.user /\ next.name = s.name
      /\ next.issuer = s.issuer /\ next.cert = Len(certs) + 1
  BY <1>2, <1>4 DEF Snapshot
<1> HIDE DEF row, next
<1>6. /\ certs' \in Seq(Certificate) /\ DOMAIN certs' = 1..(Len(certs) + 1)
      /\ \A m \in DOMAIN certs : certs'[m] = certs[m]
      /\ certs'[Len(certs) + 1] = row
  BY <1>1, <1>3, <1>4, AppendProperties
<1>7. CertsKept
  BY <1>4, <1>6 DEF CertsKept
<1>8. TypeOK'
  <2>1. pc' \in [Requests -> Awaits] /\ snap' \in [Requests -> Snapshot]
    BY <1>0, <1>1, <1>5, GotoMoves DEF Awaits
  <2> QED BY <1>0, <1>1, <1>6, <2>1 DEF TypeOK, Awaits
<1>9. \A t : t = next => Ready("commit", t)'
  BY <1>2, <1>3, <1>4, <1>5, <1>6 DEF Ready
<1>10. ReadBeforeUse' /\ HandlersAgree' /\ OneAtATime'
  BY <1>1, <1>2, <1>7, <1>9, GotoRequests DEF Awaits
<1>11. ActiveIsActive'
  BY <1>0, <1>3, <1>4, <1>6 DEF ActiveIsActive
<1>12. SignedUnderOwnName'
  BY <1>0, <1>1, <1>7 DEF SignedUnderOwnName, CertsKept
<1>13. ASSUME Alone PROVE \A m \in DOMAIN certs : certs[m].user = s.user => ~certs[m].active
  BY <1>0, <1>1, <1>2, <1>13 DEF NothingChanged, StillSo
<1>14. OneActiveCertificate'
  BY <1>0, <1>1, <1>3, <1>4, <1>6, <1>13 DEF OneActiveCertificate, Alone
<1>15. NothingChanged'
  <2>1. row.active
    BY DEF row
  <2>2. \A t : t = next => StillSo("commit", t)'
    BY <1>5, <1>6, <2>1 DEF StillSo
  <2> QED BY <1>1, <1>2, <2>2, GotoStill DEF Awaits
<1>16. OneImage'
  BY <1>1, <1>2, SameImages
<1> QED BY <1>8, <1>10, <1>11, <1>12, <1>14, <1>15, <1>16 DEF CredentialsInv

LEMMA CommitSignatureKeeps ==
  ASSUME CredentialsInv, NEW r \in Requests, CommitSignature(r)
  PROVE  CredentialsInv'
<1> DEFINE s == snap[r]
<1>0. /\ TypeOK /\ ReadBeforeUse /\ HandlersAgree /\ ActiveIsActive
      /\ SignedUnderOwnName /\ OneActiveCertificate
  BY DEF CredentialsInv
<1>1. /\ pc[r] = "commit" /\ Goto(r, "done", Blank)
      /\ certs' = certs /\ images' = images /\ limit' = limit
      /\ profile' = profile /\ authority' = authority /\ secret' = secret /\ changes' = changes
  BY DEF CommitSignature, Finish, world
<1>2. /\ r \in InFlight /\ Handler[r] = "sign" /\ s.user \in Users /\ s.name \in Names
      /\ s.cert \in DOMAIN certs /\ certs[s.cert].user = s.user
      /\ Normal[certs[s.cert].subject] = Normal[s.name]
  BY <1>0, <1>1 DEF InFlight, HandlersAgree, Signing, ReadBeforeUse, Ready
<1> DEFINE new(i) == [by |-> r, signer |-> s.user, cert |-> s.cert, name |-> s.name, image |-> i]
<1>3. signatures' = signatures \/ \E i \in Images(s.user) : signatures' = signatures \cup {new(i)}
  BY DEF CommitSignature
<1>4. Images(s.user) \subseteq Requests
  BY <1>0, <1>2 DEF Images, TypeOK
<1>5. s.cert \in Nat \ {0}
  BY <1>0, <1>2, CertTypes
<1>6. \A i \in Requests :
        /\ new(i) \in Signature /\ new(i).cert = s.cert
        /\ new(i).signer = s.user /\ new(i).name = s.name
  BY <1>2, <1>5 DEF Signature
<1> HIDE DEF new, s
<1>7. signatures' \subseteq Signature /\ SignedUnderOwnName'
  <2>1. CASE signatures' = signatures
    BY <1>0, <1>1, <2>1 DEF TypeOK, SignedUnderOwnName
  <2>2. ASSUME NEW i \in Images(s.user), signatures' = signatures \cup {new(i)}
        PROVE  signatures' \subseteq Signature /\ SignedUnderOwnName'
    BY <1>0, <1>1, <1>2, <1>4, <1>6, <2>2 DEF TypeOK, SignedUnderOwnName
  <2> QED BY <1>3, <2>1, <2>2
<1>8. TypeOK'
  <2>1. pc' \in [Requests -> Awaits] /\ snap' \in [Requests -> Snapshot]
    BY <1>0, <1>1, BlankIsSnapshot, GotoMoves DEF Awaits
  <2> QED BY <1>0, <1>1, <1>7, <2>1 DEF TypeOK, Awaits
<1>9. CertsKept /\ ActiveIsActive' /\ OneActiveCertificate'
  BY <1>0, <1>1 DEF CertsKept, ActiveIsActive, OneActiveCertificate, Alone
<1>10. \A t : Ready("done", t)' /\ StillSo("done", t)'
  BY DEF Ready, StillSo, Signing
<1>11. ReadBeforeUse' /\ HandlersAgree' /\ OneAtATime'
  BY <1>1, <1>2, <1>9, <1>10, GotoRequests DEF Awaits, Signing
<1>12. NothingChanged'
  BY <1>1, <1>2, <1>10, GotoStill DEF Awaits
<1>13. OneImage'
  BY <1>1, <1>2, SameImages
<1> QED BY <1>7, <1>8, <1>9, <1>11, <1>12, <1>13 DEF CredentialsInv

\* The images of the others stay.
LEMMA OtherImages ==
  ASSUME TypeOK, NEW u \in Users, NEW files \in [Extensions -> Requests \cup {None}],
         images' = [images EXCEPT ![u] = files]
  PROVE  /\ images' \in [Users -> [Extensions -> Requests \cup {None}]]
         /\ images'[u] = files
         /\ \A v \in Users \ {u} : images'[v] = images[v] /\ Images(v)' = Images(v)
  BY DEF TypeOK, Images

LEMMA StoreImageKeeps ==
  ASSUME CredentialsInv, NEW r \in Requests, NEW u \in Users, NEW e \in Extensions,
         StoreImage(r, u, e)
  PROVE  CredentialsInv'
<1> DEFINE s == [Blank EXCEPT !.user = u, !.ext = e]
<1> DEFINE files == [images[u] EXCEPT ![e] = r]
<1>0. TypeOK /\ OneImage /\ HandlersAgree
  BY DEF CredentialsInv
<1>1. /\ Handler[r] = "upload" /\ pc[r] = "idle" /\ Cardinality(InFlight) < limit
      /\ Goto(r, "tidy", s) /\ images' = [images EXCEPT ![u] = files]
      /\ certs' = certs /\ signatures' = signatures /\ limit' = limit
      /\ profile' = profile /\ authority' = authority /\ secret' = secret /\ changes' = changes
  BY DEF StoreImage, Arrives, rows, world
<1>2. s \in Snapshot /\ s.user = u /\ s.ext = e
  BY BlankIsSnapshot DEF Blank
<1>3. files \in [Extensions -> Requests \cup {None}] /\ files[e] = r
  BY <1>0 DEF TypeOK
<1> HIDE DEF s, files
<1>4. /\ images' \in [Users -> [Extensions -> Requests \cup {None}]] /\ images'[u][e] = r
      /\ \A v \in Users \ {u} : Images(v)' = Images(v)
  BY <1>0, <1>1, <1>3, OtherImages
<1>5. /\ pc' \in [Requests -> Awaits] /\ snap' \in [Requests -> Snapshot]
      /\ snap'[r] = s /\ \A q \in Requests \ {r} : snap'[q] = snap[q]
  BY <1>0, <1>1, <1>2, GotoMoves DEF Awaits
<1>6. TypeOK'
  BY <1>0, <1>1, <1>4, <1>5 DEF TypeOK, Awaits
<1>7. CertsKept /\ ActiveIsActive' /\ SignedUnderOwnName' /\ OneActiveCertificate'
  BY <1>1, SameRows DEF rows
<1>8. Ready("tidy", s)' /\ StillSo("tidy", s)'
  BY <1>2, <1>4, CredentialsAssumption DEF Ready, StillSo, Signing
<1>9. ReadBeforeUse' /\ HandlersAgree' /\ OneAtATime'
  BY <1>1, <1>7, <1>8, GotoRequests DEF Awaits, Signing
<1>10. NothingChanged'
  BY <1>1, <1>8, GotoStill DEF Awaits
<1>11. OneImage'
  <2> SUFFICES ASSUME NEW v \in Users, ~Uploading(v)' PROVE Cardinality(Images(v)') <= 1
    BY DEF OneImage
  <2>1. v # u
    BY <1>1, <1>2, <1>5 DEF Uploading
  <2>2. snap[r].user = None
    BY <1>0, <1>1 DEF HandlersAgree
  <2>3. ~Uploading(v)
    BY <1>5, <2>2, CredentialsAssumption DEF Uploading
  <2> QED BY <1>0, <1>4, <2>1, <2>3 DEF OneImage
<1> QED BY <1>6, <1>7, <1>9, <1>10, <1>11 DEF CredentialsInv

\* One upload ends: s is what is left of it.
LEMMA EndOfUpload ==
  ASSUME CredentialsInv, NEW r \in Requests, pc[r] = "tidy",
         NEW files \in [Extensions -> Requests \cup {None}],
         images' = [images EXCEPT ![snap[r].user] = files],
         NEW step \in {"done", "failed"}, NEW s \in Snapshot, Goto(r, step, s),
         UNCHANGED <<rows, world, limit>>,
         s.user = snap[r].user
           \/ Cardinality({files[e] : e \in Extensions} \ {None}) <= 1
  PROVE  CredentialsInv'
<1> DEFINE u == snap[r].user
<1>0. TypeOK /\ OneImage /\ HandlersAgree /\ ReadBeforeUse
  BY DEF CredentialsInv
<1>1. /\ certs' = certs /\ signatures' = signatures /\ limit' = limit
      /\ profile' = profile /\ authority' = authority /\ secret' = secret /\ changes' = changes
  BY DEF rows, world
<1>2. u \in Users /\ Handler[r] = "upload" /\ r \in InFlight
  BY <1>0 DEF ReadBeforeUse, Ready, HandlersAgree, InFlight
<1> HIDE DEF u
<1>3. images' = [images EXCEPT ![u] = files]
  BY DEF u
<1>4. /\ images' \in [Users -> [Extensions -> Requests \cup {None}]] /\ images'[u] = files
      /\ \A v \in Users \ {u} : Images(v)' = Images(v)
  BY <1>0, <1>2, <1>3, OtherImages
<1>5. /\ pc' \in [Requests -> Awaits] /\ snap' \in [Requests -> Snapshot]
      /\ snap'[r] = s /\ \A q \in Requests \ {r} : snap'[q] = snap[q]
  BY <1>0, GotoMoves DEF Awaits
<1>6. TypeOK'
  BY <1>0, <1>1, <1>4, <1>5 DEF TypeOK, Awaits
<1>7. CertsKept /\ ActiveIsActive' /\ SignedUnderOwnName' /\ OneActiveCertificate'
  BY <1>1, SameRows DEF rows
<1>8. \A t : Ready(step, t)' /\ StillSo(step, t)'
  BY DEF Ready, StillSo, Signing
<1>9. ReadBeforeUse' /\ HandlersAgree' /\ OneAtATime'
  BY <1>1, <1>2, <1>7, <1>8, GotoRequests DEF Awaits, Signing
<1>10. NothingChanged'
  BY <1>1, <1>2, <1>8, GotoStill DEF Awaits
<1>11. OneImage'
  <2> SUFFICES ASSUME NEW v \in Users, ~Uploading(v)' PROVE Cardinality(Images(v)') <= 1
    BY DEF OneImage
  <2>1. CASE v # u
    <3>1. ~Uploading(v)
      BY <1>5, <2>1 DEF Uploading, u
    <3> QED BY <1>0, <1>4, <2>1, <3>1 DEF OneImage
  <2>2. CASE v = u
    <3>1. s.user # u
      BY <1>2, <1>5, <2>2 DEF Uploading
    <3>2. Images(v)' = {files[e] : e \in Extensions} \ {None}
      BY <1>4, <2>2 DEF Images
    <3> QED BY <3>1, <3>2 DEF u
  <2> QED BY <2>1, <2>2
<1> QED BY <1>6, <1>7, <1>9, <1>10, <1>11 DEF CredentialsInv

LEMMA RemoveOthersKeeps ==
  ASSUME CredentialsInv, NEW r \in Requests, RemoveOthers(r)
  PROVE  CredentialsInv'
<1> DEFINE files == OthersRemoved(snap[r].user, snap[r].ext)
<1>0. TypeOK /\ ReadBeforeUse
  BY DEF CredentialsInv
<1>1. /\ pc[r] = "tidy" /\ images' = [images EXCEPT ![snap[r].user] = files]
      /\ Goto(r, "done", Blank) /\ UNCHANGED <<rows, world, limit>>
  BY DEF RemoveOthers, Finish
<1>2. snap[r].user \in Users /\ snap[r].ext \in Extensions
  BY <1>0, <1>1 DEF ReadBeforeUse, Ready
<1>3. files \in [Extensions -> Requests \cup {None}]
  BY <1>0, <1>2 DEF OthersRemoved, TypeOK
<1>4. Cardinality({files[e] : e \in Extensions} \ {None}) <= 1
  <2> DEFINE kept == {files[e] : e \in Extensions} \ {None}
  <2> DEFINE one == {images[snap[r].user][snap[r].ext]}
  <2>1. kept \subseteq one
    BY DEF OthersRemoved
  <2>2. IsFiniteSet(one) /\ Cardinality(one) = 1
    BY FS_Singleton
  <2>3. IsFiniteSet(kept) /\ Cardinality(kept) <= 1
    BY <2>1, <2>2, FS_Subset
  <2> QED BY <2>3
<1> HIDE DEF files
<1> QED BY <1>1, <1>3, <1>4, BlankIsSnapshot, EndOfUpload

LEMMA RefuseImageKeeps ==
  ASSUME CredentialsInv, NEW r \in Requests, RefuseImage(r)
  PROVE  CredentialsInv'
<1> DEFINE files == [images[snap[r].user] EXCEPT ![snap[r].ext] = None]
<1>0. TypeOK /\ ReadBeforeUse
  BY DEF CredentialsInv
<1>1. /\ pc[r] = "tidy" /\ images' = [images EXCEPT ![snap[r].user] = files]
      /\ Goto(r, "failed", snap[r]) /\ UNCHANGED <<rows, world, limit>>
  BY DEF RefuseImage
<1>2. snap[r].user \in Users /\ snap[r].ext \in Extensions /\ snap[r] \in Snapshot
  BY <1>0, <1>1 DEF ReadBeforeUse, Ready, TypeOK
<1>3. files \in [Extensions -> Requests \cup {None}]
  BY <1>0, <1>2 DEF TypeOK
<1> HIDE DEF files
<1> QED BY <1>1, <1>2, <1>3, EndOfUpload

\* Where the names, the configuration or the dates change, and no request goes on.
LEMMA WorldKeeps ==
  ASSUME CredentialsInv, UNCHANGED <<images, signatures, limit, pc, snap>>,
         TypeOK', DOMAIN certs' = DOMAIN certs,
         \A n \in DOMAIN certs :
           /\ certs'[n].user = certs[n].user /\ certs'[n].subject = certs[n].subject
           /\ certs'[n].status = certs[n].status /\ certs'[n].active = certs[n].active
  PROVE  CredentialsInv'
<1>0. /\ TypeOK /\ ReadBeforeUse /\ HandlersAgree /\ OneAtATime /\ ActiveIsActive
      /\ SignedUnderOwnName /\ OneActiveCertificate /\ NothingChanged /\ OneImage
  BY DEF CredentialsInv
<1>1. InFlight' = InFlight
  BY DEF InFlight
<1>2. ReadBeforeUse'
  <2> SUFFICES ASSUME NEW r \in Requests PROVE Ready(pc[r], snap[r])'
    BY DEF ReadBeforeUse
  <2>1. Ready(pc[r], snap[r])
    BY <1>0 DEF ReadBeforeUse
  <2> QED BY <2>1 DEF Ready
<1>3. HandlersAgree' /\ OneAtATime'
  BY <1>0, <1>1 DEF HandlersAgree, OneAtATime, Alone
<1>4. ActiveIsActive' /\ OneActiveCertificate'
  BY <1>0 DEF ActiveIsActive, OneActiveCertificate, Alone
<1>5. SignedUnderOwnName'
  BY <1>0 DEF SignedUnderOwnName
<1>6. NothingChanged'
  <2> SUFFICES ASSUME Alone', NEW r \in InFlight' PROVE StillSo(pc[r], snap[r])'
    BY DEF NothingChanged
  <2>1. r \in Requests /\ StillSo(pc[r], snap[r]) /\ Ready(pc[r], snap[r])
    BY <1>0, <1>1 DEF NothingChanged, Alone, ReadBeforeUse, InFlight
  <2> QED BY <2>1 DEF StillSo, Ready
<1>7. OneImage'
  <2>1. \A u : Images(u)' = Images(u) /\ Uploading(u)' = Uploading(u)
    BY DEF Images, Uploading
  <2> QED BY <1>0, <2>1 DEF OneImage
<1> QED BY <1>2, <1>3, <1>4, <1>5, <1>6, <1>7 DEF CredentialsInv

LEMMA RenameKeeps ==
  ASSUME CredentialsInv, NEW u \in Users, Rename(u)
  PROVE  CredentialsInv'
<1>0. TypeOK
  BY DEF CredentialsInv
<1>1. PICK n \in Names, f \in {"full", "display"} : profile' = [profile EXCEPT ![u][f] = n]
  BY DEF Rename
<1>2. profile' \in [Users -> Profile]
  <2>1. profile[u] \in Profile
    BY <1>0 DEF TypeOK
  <2>2. [profile[u] EXCEPT ![f] = n] \in Profile
    <3>1. CASE f = "full"
      BY <2>1, <3>1 DEF Profile
    <3>2. CASE f = "display"
      BY <2>1, <3>2 DEF Profile
    <3> QED BY <3>1, <3>2
  <2>3. profile' = [profile EXCEPT ![u] = [profile[u] EXCEPT ![f] = n]]
    BY <1>1
  <2> QED BY <1>0, <2>2, <2>3 DEF TypeOK
<1>3. /\ UNCHANGED <<images, signatures, limit, pc, snap, certs, authority, secret>>
      /\ changes' \in 0..MaxChanges
  BY <1>0, CredentialsAssumption DEF Rename, Changes, TypeOK
<1>4. TypeOK'
  BY <1>0, <1>2, <1>3 DEF TypeOK
<1> QED BY <1>3, <1>4, WorldKeeps

LEMMA ReconfigureKeeps ==
  ASSUME CredentialsInv, Reconfigure
  PROVE  CredentialsInv'
<1>0. TypeOK
  BY DEF CredentialsInv
<1>1. /\ UNCHANGED <<images, signatures, limit, pc, snap, certs, profile>>
      /\ changes' \in 0..MaxChanges /\ authority' \in Authorities /\ secret' \in Secrets
  BY <1>0, CredentialsAssumption DEF Reconfigure, Changes, TypeOK
<1>2. TypeOK'
  BY <1>0, <1>1 DEF TypeOK
<1> QED BY <1>1, <1>2, WorldKeeps

LEMMA ExpireKeeps ==
  ASSUME CredentialsInv, NEW n \in DOMAIN certs, Expire(n)
  PROVE  CredentialsInv'
<1> DEFINE row == [certs[n] EXCEPT !.expired = TRUE]
<1>0. TypeOK
  BY DEF CredentialsInv
<1>1. certs \in Seq(Certificate) /\ n \in 1..Len(certs) /\ certs[n] \in Certificate
  BY <1>0, CertTypes
<1>2. /\ UNCHANGED <<images, signatures, limit, pc, snap, profile, authority, secret>>
      /\ changes' \in 0..MaxChanges /\ certs' = [certs EXCEPT ![n] = row]
  BY <1>0, CredentialsAssumption DEF Expire, Changes, TypeOK
<1>3. /\ row \in Certificate /\ row.user = certs[n].user /\ row.subject = certs[n].subject
      /\ row.status = certs[n].status /\ row.active = certs[n].active
  BY <1>1 DEF Certificate
<1> HIDE DEF row
<1>4. /\ certs' \in Seq(Certificate) /\ Len(certs') = Len(certs)
      /\ \A m \in 1..Len(certs) : certs'[m] = IF m = n THEN row ELSE certs[m]
  BY <1>1, <1>2, <1>3, ExceptSeq
<1>5. DOMAIN certs' = DOMAIN certs /\ DOMAIN certs = 1..Len(certs)
  BY <1>1, <1>4
<1>6. \A m \in DOMAIN certs :
        /\ certs'[m].user = certs[m].user /\ certs'[m].subject = certs[m].subject
        /\ certs'[m].status = certs[m].status /\ certs'[m].active = certs[m].active
  BY <1>3, <1>4, <1>5
<1>7. TypeOK'
  BY <1>0, <1>2, <1>4 DEF TypeOK
<1> QED BY <1>2, <1>5, <1>6, <1>7, WorldKeeps

LEMMA CredentialsStep == CredentialsInv /\ [Next]_vars => CredentialsInv'
<1> SUFFICES ASSUME CredentialsInv, [Next]_vars PROVE CredentialsInv'
  OBVIOUS
<1>1. ASSUME NEW r \in Requests, Receive(r) PROVE CredentialsInv'
  BY <1>1, ReadProfileKeeps, StoreImageKeeps DEF Receive
<1>2. ASSUME NEW r \in Requests, Step(r) PROVE CredentialsInv'
  BY <1>2, FindCertificateKeeps, RetireCertificateKeeps, CreateCertificateKeeps,
     CommitSignatureKeeps, RemoveOthersKeeps, RefuseImageKeeps DEF Step
<1>3. ASSUME NEW r \in Requests, Fail(r) PROVE CredentialsInv'
  BY <1>3, FailKeeps
<1>4. CASE (\E u \in Users : Rename(u)) \/ Reconfigure \/ \E n \in DOMAIN certs : Expire(n)
  BY <1>4, RenameKeeps, ReconfigureKeeps, ExpireKeeps
<1>5. CASE UNCHANGED vars
  <2>1. /\ UNCHANGED <<images, signatures, limit, pc, snap, certs>>
        /\ UNCHANGED <<profile, authority, secret, changes>>
    BY <1>5 DEF vars
  <2>2. TypeOK'
    BY <2>1 DEF CredentialsInv, TypeOK
  <2> QED BY <2>1, <2>2, WorldKeeps
<1> QED BY <1>1, <1>2, <1>3, <1>4, <1>5 DEF Next

-----------------------------------------------------------------------------
(* The inductive invariant: what each request has read and still finds so. *)
THEOREM CredentialsAlwaysInv == Spec => []CredentialsInv
  BY CredentialsInit, CredentialsStep, PTL DEF Spec

(* What a user signs with, whatever overlaps, is renamed, configured anew  *)
(* or fails: a signature is under its signer's own name, there is never    *)
(* more than one image after the last upload, and one request at a time    *)
(* never more than one active certificate of a user.                       *)
THEOREM CredentialsAgreeHolds == Spec => []CredentialsAgree
<1>1. CredentialsInv => CredentialsAgree
  BY DEF CredentialsInv, CredentialsAgree
<1> QED BY <1>1, CredentialsAlwaysInv, PTL

\* Who makes a signature, and who removes an image.
LEMMA WhoSigns ==
  ASSUME TypeOK, [Next]_vars, signatures' # signatures
  PROVE  \E r \in Requests : CommitSignature(r)
<1>1. ASSUME NEW r \in Requests, Receive(r) PROVE signatures' = signatures
  BY <1>1 DEF Receive, ReadProfile, StoreImage, rows
<1>2. ASSUME NEW r \in Requests, Step(r), ~CommitSignature(r) PROVE signatures' = signatures
  BY <1>2 DEF Step, FindCertificate, RetireCertificate, CreateCertificate, RemoveOthers,
              RefuseImage, rows
<1>3. ASSUME NEW r \in Requests, Fail(r) PROVE signatures' = signatures
  BY <1>3 DEF Fail, rows
<1>4. ASSUME (\E u \in Users : Rename(u)) \/ Reconfigure \/ \E n \in DOMAIN certs : Expire(n)
      PROVE  signatures' = signatures
  BY <1>4 DEF Rename, Reconfigure, Expire, Changes
<1> QED BY <1>1, <1>2, <1>3, <1>4 DEF Next, vars

LEMMA WhoRemoves ==
  ASSUME TypeOK, [Next]_vars, images' # images
  PROVE  \E r \in Requests :
           \/ \E u \in Users, e \in Extensions : StoreImage(r, u, e)
           \/ RemoveOthers(r) \/ RefuseImage(r)
<1>1. ASSUME NEW r \in Requests, NEW u \in Users, ReadProfile(r, u) PROVE images' = images
  BY <1>1 DEF ReadProfile
<1>2. ASSUME NEW r \in Requests, Step(r), ~RemoveOthers(r), ~RefuseImage(r)
      PROVE  images' = images
  BY <1>2 DEF Step, FindCertificate, RetireCertificate, CreateCertificate, CommitSignature
<1>3. ASSUME NEW r \in Requests, Fail(r) PROVE images' = images
  BY <1>3 DEF Fail
<1>4. ASSUME (\E u \in Users : Rename(u)) \/ Reconfigure \/ \E n \in DOMAIN certs : Expire(n)
      PROVE  images' = images
  BY <1>4 DEF Rename, Reconfigure, Expire, Changes
<1> QED BY <1>1, <1>2, <1>3, <1>4 DEF Next, Receive, vars

LEMMA RetiredStaysUnused ==
  ASSUME CredentialsInv, [Next]_vars
  PROVE  RetiredIsNotUsed
<1> SUFFICES ASSUME Alone, NEW t \in signatures' \ signatures
             PROVE  certs[t.cert].active /\ certs[t.cert].status = "ACTIVE"
  BY DEF RetiredIsNotUsed
<1>0. TypeOK /\ ReadBeforeUse /\ NothingChanged /\ ActiveIsActive
  BY DEF CredentialsInv
<1>1. PICK r \in Requests : CommitSignature(r)
  BY <1>0, WhoSigns
<1>2. pc[r] = "commit" /\ t.cert = snap[r].cert
  BY <1>1 DEF CommitSignature
<1>3. r \in InFlight /\ snap[r].cert \in DOMAIN certs
  BY <1>0, <1>2 DEF InFlight, ReadBeforeUse, Ready
<1>4. certs[snap[r].cert].active
  BY <1>0, <1>2, <1>3 DEF NothingChanged, StillSo
<1> QED BY <1>0, <1>2, <1>3, <1>4 DEF ActiveIsActive

LEMMA ImageStaysKept ==
  ASSUME CredentialsInv, [Next]_vars
  PROVE  ImageStays
<1> SUFFICES ASSUME Alone, NEW u \in Users, Images(u) # {}, Images(u)' = {}
             PROVE  \E r \in Requests : snap[r].user = u /\ pc[r] = "tidy" /\ pc'[r] = "failed"
  BY DEF ImageStays
<1>0. TypeOK /\ ReadBeforeUse /\ NothingChanged
  BY DEF CredentialsInv
<1>1. images' # images
  BY DEF Images
<1>2. PICK r \in Requests :
        \/ \E v \in Users, e \in Extensions : StoreImage(r, v, e)
        \/ RemoveOthers(r) \/ RefuseImage(r)
  BY <1>0, <1>1, WhoRemoves
<1>3. ASSUME NEW v \in Users, NEW e \in Extensions, StoreImage(r, v, e) PROVE FALSE
  <2> DEFINE files == [images[v] EXCEPT ![e] = r]
  <2>1. images' = [images EXCEPT ![v] = files]
    BY <1>3 DEF StoreImage
  <2>2. files \in [Extensions -> Requests \cup {None}] /\ files[e] = r
    BY <1>0 DEF TypeOK
  <2> HIDE DEF files
  <2>3. images'[v][e] = r /\ \A w \in Users \ {v} : Images(w)' = Images(w)
    BY <1>0, <2>1, <2>2, OtherImages
  <2>4. u = v
    BY <2>3
  <2>5. r \in Images(u)'
    BY <2>3, <2>4, CredentialsAssumption DEF Images
  <2> QED BY <2>5
<1>4. ASSUME RemoveOthers(r) PROVE FALSE
  <2> DEFINE files == OthersRemoved(snap[r].user, snap[r].ext)
  <2>1. pc[r] = "tidy" /\ images' = [images EXCEPT ![snap[r].user] = files]
    BY <1>4 DEF RemoveOthers
  <2>2. /\ r \in InFlight /\ snap[r].user \in Users /\ snap[r].ext \in Extensions
        /\ images[snap[r].user][snap[r].ext] # None
    BY <1>0, <2>1 DEF InFlight, ReadBeforeUse, Ready, NothingChanged, StillSo
  <2>3. /\ files \in [Extensions -> Requests \cup {None}]
        /\ files[snap[r].ext] = images[snap[r].user][snap[r].ext]
    BY <1>0, <2>2 DEF OthersRemoved, TypeOK
  <2> HIDE DEF files
  <2>4. /\ images'[snap[r].user] = files
        /\ \A w \in Users \ {snap[r].user} : Images(w)' = Images(w)
    BY <1>0, <2>1, <2>2, <2>3, OtherImages
  <2>5. u = snap[r].user
    BY <2>4
  <2>6. files[snap[r].ext] \in Images(u)'
    BY <2>2, <2>3, <2>4, <2>5 DEF Images
  <2> QED BY <2>6
<1>5. CASE RefuseImage(r)
  <2> DEFINE files == [images[snap[r].user] EXCEPT ![snap[r].ext] = None]
  <2>1. /\ pc[r] = "tidy" /\ images' = [images EXCEPT ![snap[r].user] = files]
        /\ Goto(r, "failed", snap[r])
    BY <1>5 DEF RefuseImage
  <2>2. snap[r].user \in Users /\ snap[r].ext \in Extensions
    BY <1>0, <2>1 DEF ReadBeforeUse, Ready
  <2>3. files \in [Extensions -> Requests \cup {None}]
    BY <1>0, <2>2 DEF TypeOK
  <2> HIDE DEF files
  <2>4. \A w \in Users \ {snap[r].user} : Images(w)' = Images(w)
    BY <1>0, <2>1, <2>2, <2>3, OtherImages
  <2>5. u = snap[r].user
    BY <2>4
  <2>6. pc'[r] = "failed"
    BY <1>0, <2>1, GotoMoves
  <2> QED BY <2>1, <2>5, <2>6
<1> QED BY <1>2, <1>3, <1>4, <1>5

(* One request at a time, a certificate that was retired is not signed     *)
(* with again, and only a failed upload takes the last image of a user.    *)
THEOREM CredentialsStayHolds == Spec => CredentialsStay
<1>1. CredentialsInv /\ [Next]_vars => [RetiredIsNotUsed /\ ImageStays]_vars
  BY RetiredStaysUnused, ImageStaysKept
<1> QED BY <1>1, CredentialsAlwaysInv, PTL DEF Spec, CredentialsStay

(* Whatever is clicked, the page makes only steps of Credentials: what is  *)
(* proved of those holds behind it.                                        *)
THEOREM SetupIsCredentials == SetupSpec => Spec
<1>1. SetupInit => Init
  BY DEF SetupInit
<1>2. [SetupNext]_setupVars => [Next]_vars
  <2>1. ASSUME NEW r \in Requests, NEW e \in Extensions, HandleSave(r, e) PROVE Next
    BY <2>1, SetupAssumption DEF HandleSave, Next, Receive
  <2>2. ASSUME NEW f \in Pictures \cup {None}, ChooseFile(f) PROVE UNCHANGED vars
    BY <2>2 DEF ChooseFile
  <2>3. ASSUME ImageLoaded PROVE UNCHANGED vars
    BY <2>3 DEF ImageLoaded
  <2>4. ASSUME NEW rect, Cut(rect) PROVE UNCHANGED vars
    BY <2>4 DEF Cut
  <2> QED
    BY <2>1, <2>2, <2>3, <2>4
       DEF SetupNext, setupVars, HandleCropPointerDown, HandleCropResizePointerDown,
           HandleResetCrop, HandleUseFullImage
<1> QED BY <1>1, <1>2, PTL DEF SetupSpec, Spec
=============================================================================
