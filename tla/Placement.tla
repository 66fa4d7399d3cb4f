----------------------------- MODULE Placement -----------------------------
(***************************************************************************)
(* Where the signatures and the verification code of a document are drawn: *)
(* what requestSigners, signDocument and declineDocument make of the       *)
(* places the pages send them.  Distances are points, as in the code.      *)
(*                                                                         *)
(* Here a handler runs alone and one action is one request, with its check *)
(* and its effect; how requests interleave is the matter of Signing.  The  *)
(* pages never change the size of a signature, so a place is its page and  *)
(* its lower left corner.                                                  *)
(***************************************************************************)
EXTENDS Integers, Sequences, SequencesExt, FiniteSets

CONSTANTS
  Users,    \* the owner and those who may be asked to sign
  Owner,    \* whose pages are modelled
  Rank,     \* SIGNER_ROLE_RANK of each user's role, counted from 1
  Docs,     \* all documents
  SentTo,   \* the signers of the documents other owners have sent, else nobody
  Pages,    \* the size of each page of a document
  None      \* SQL NULL

VARIABLES
  doc,    \* each document: its rows and what its final file shows
  behind  \* history: whether the last requestSigners committed its rows and failed

ASSUME PlacementAssumption ==
  /\ Owner \in Users /\ Rank \in [Users -> Nat \ {0}]
  /\ Pages \in Seq([w : Nat, h : Nat]) /\ Pages # <<>>
  /\ SentTo \in [Docs -> Seq(Users)]

SignatureWidth == 160
SignatureHeight == 70
QrSize == 48
Margin == 24
Edge == 36

Corner == [x : Nat, y : Nat]
Place == [page : DOMAIN Pages, x : Nat, y : Nat]
Image == [user : Users, place : Place]

ASSUME NoneIsNoPlace == None \notin Place

Status == {"DRAFT", "PENDING_SIGNATURES", "PARTIALLY_SIGNED", "FULLY_SIGNED", "REVOKED"}

Document ==
  [status : Status, order : Seq(Users), place : [Users -> Place \cup {None}],
   signed : Seq(Users), widget : [Users -> Corner \cup {None}], qr : Place \cup {None},
   images : SUBSET Image]

At(p, x, y) == [page |-> p, x |-> x, y |-> y]
NoPlaces == [u \in Users |-> None]

\* Math.max(0, v), and a value kept in 0 .. hi.
AtLeastZero(v) == IF v < 0 THEN 0 ELSE v
Clamp(v, hi) == AtLeastZero(IF v > hi THEN hi ELSE v)

-----------------------------------------------------------------------------
(* The verification code *)

RectsOverlap(a, aw, ah, b, bw, bh) ==
  a.x < b.x + bw /\ a.x + aw > b.x /\ a.y < b.y + bh /\ a.y + ah > b.y

Corners(p) ==
  LET right == AtLeastZero(Pages[p].w - QrSize - Margin)
      top == AtLeastZero(Pages[p].h - QrSize - Margin)
  IN <<At(p, right, Margin), At(p, Margin, Margin), At(p, right, top), At(p, Margin, top)>>

Covers(place, corner) ==
  RectsOverlap(corner, QrSize, QrSize, place, SignatureWidth, SignatureHeight)

\* Mutant: the code always goes to the bottom right.
AutomaticQrMutant(place) == Corners(IF place = None THEN 1 ELSE place.page)[1]

\* buildAutomaticQrPlacement: the first corner the signature leaves free, or
\* the first one.
AutomaticQr(place) ==
  LET corners == Corners(IF place = None THEN 1 ELSE place.page)
      free == SelectInSeq(corners, LAMBDA c : place = None \/ ~Covers(place, c))
  IN corners[IF free = 0 THEN 1 ELSE free]

-----------------------------------------------------------------------------
(* requestSigners *)

\* Mutant: signers may be asked again once some have signed.
MayRequestSignersMutant(d) == doc[d].status # "REVOKED"

MayRequestSigners(d) == doc[d].status # "REVOKED" /\ doc[d].signed = <<>>

IndexOf(ids, u) == SelectInSeq(ids, LAMBDA v : v = u)

\* By role, then as they were requested.
Before(ids, a, b) ==
  Rank[a] < Rank[b] \/ (Rank[a] = Rank[b] /\ IndexOf(ids, a) < IndexOf(ids, b))

SortedSigners(ids) ==
  CHOOSE s \in [1..Cardinality(ToSet(ids)) -> ToSet(ids)] :
    \A i, j \in DOMAIN s : i < j => Before(ids, s[i], s[j])

\* What the transaction commits.
Configured(row, ids, places) ==
  [row EXCEPT !.status = IF @ = "DRAFT" THEN "PENDING_SIGNATURES" ELSE @,
              !.order = SortedSigners(ids),
              !.place = [u \in Users |-> IF u \in ToSet(ids) THEN places[u] ELSE None]]

\* The place the code has to keep clear of: that of the first signer with one.
FirstPlaced(row) ==
  LET first == SelectInSeq(row.order, LAMBDA u : row.place[u] # None)
  IN IF first = 0 THEN None ELSE row.place[row.order[first]]

\* renderVerificationQrCode, at the corner found for it.
WithQr(row, place) == [row EXCEPT !.qr = AutomaticQr(place)]

\* preRenderAllVisibleAppearances
PreRendered(row) ==
  {[user |-> u, place |-> IF row.place[u] = None THEN At(1, Edge, Edge) ELSE row.place[u]] :
     u \in ToSet(row.order)}

\* The file made from the original: the code, and the images of all signers.
Rendered(row) == [WithQr(row, FirstPlaced(row)) EXCEPT !.images = PreRendered(row)]

\* The original or an image may turn out unreadable once the rows are committed.
RequestSigners(d, ids, places, fails) ==
  /\ MayRequestSigners(d)
  /\ LET row == Configured(doc[d], ids, places)
     IN doc' = [doc EXCEPT ![d] = IF fails THEN row ELSE Rendered(row)]
  /\ behind' = [behind EXCEPT ![d] = fails]

\* getDefaultPlaceholder
DefaultPlaceholder(i) == At(1, Edge, Edge + (i - 1) * 80)

Uploaded ==
  [status |-> "DRAFT", order |-> <<>>, place |-> NoPlaces, signed |-> <<>>,
   widget |-> NoPlaces, qr |-> None, images |-> {}]

Own == {d \in Docs : SentTo[d] = <<>>}

Placed(ids) ==
  [u \in Users |-> IF u \in ToSet(ids) THEN DefaultPlaceholder(IndexOf(ids, u)) ELSE None]

\* The owner's documents are uploaded, the others are out for signature.
PlacementInit ==
  /\ doc = [d \in Docs |->
              IF d \in Own THEN Uploaded
              ELSE Rendered(Configured(Uploaded, SentTo[d], Placed(SentTo[d])))]
  /\ behind = [d \in Docs |-> FALSE]

\* startCertification, when the request that follows it is refused.
Start(d) ==
  /\ doc[d].status # "REVOKED"
  /\ doc' = [doc EXCEPT ![d].status = IF @ = "DRAFT" THEN "PENDING_SIGNATURES" ELSE @]
  /\ UNCHANGED behind

-----------------------------------------------------------------------------
(* signDocument and declineDocument *)

Pending(d) == ToSet(doc[d].order) \ ToSet(doc[d].signed)

\* The first in the order who has not signed.
IsNext(d, u) ==
  \E i \in DOMAIN doc[d].order :
    /\ doc[d].order[i] = u /\ u \in Pending(d)
    /\ \A j \in 1..(i - 1) : doc[d].order[j] \notin Pending(d)

MaySign(d, u) ==
  /\ doc[d].status # "REVOKED" /\ IsNext(d, u)
  /\ doc[d].qr # None \/ doc[d].signed = <<>>

\* Mutant: what the page sends goes before what is stored.
EffectivePlaceMutant(row, u, sent) == IF sent # None THEN sent ELSE row.place[u]

EffectivePlace(row, u, sent) == IF row.place[u] # None THEN row.place[u] ELSE sent

QrOnce(row, place) == IF row.qr = None THEN WithQr(row, place) ELSE row

\* renderVisibleSignatureAppearance draws the first signer's image once more;
\* those of later signers were drawn when the file was made.
FirstImage(row, u, place) ==
  LET right == AtLeastZero(Pages[1].w - SignatureWidth - Edge)
  IN IF row.signed # <<>> THEN {}
     ELSE {[user |-> u, place |-> IF place = None THEN At(1, right, Edge) ELSE place]}

\* The rectangle preparePdfForIncrementalSigning gives the signature, without
\* a page.
WidgetRect(place) ==
  IF place = None THEN [x |-> Edge, y |-> Edge] ELSE [x |-> place.x, y |-> place.y]

SignDocument(d, u, sent) ==
  LET row == doc[d]
      place == EffectivePlace(row, u, sent)
  IN /\ MaySign(d, u)
     /\ doc' = [doc EXCEPT ![d] =
          [QrOnce(row, place) EXCEPT
             !.status = IF Pending(d) = {u} THEN "FULLY_SIGNED" ELSE "PARTIALLY_SIGNED",
             !.signed = Append(@, u), !.images = @ \cup FirstImage(row, u, place),
             !.widget[u] = WidgetRect(place)]]
     /\ UNCHANGED behind

Decline(d, u) ==
  /\ doc[d].status # "REVOKED" /\ IsNext(d, u)
  /\ doc' = [doc EXCEPT ![d].status = "REVOKED"]
  /\ UNCHANGED behind
=============================================================================
