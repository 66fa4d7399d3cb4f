------------------------------- MODULE Pages -------------------------------
(***************************************************************************)
(* The owner's pages and those of the signers, open at the same time on    *)
(* the same documents.                                                     *)
(***************************************************************************)
EXTENDS Wizard, Portal

vars == <<doc, behind, wizard, saves, portal>>

Init == PlacementInit /\ WizardInit /\ PortalInit

Next == (WizardNext /\ UNCHANGED portal) \/ (PortalNext /\ UNCHANGED <<wizard, saves>>)

Spec == Init /\ [][Next]_vars

-----------------------------------------------------------------------------
(* Properties *)

\* What each page and each row holds.
TypeOK ==
  /\ doc \in [Docs -> Document] /\ behind \in [Docs -> BOOLEAN]
  /\ wizard \in WizardState /\ saves \in 0..MaxSaves
  /\ portal \in [Signers -> PortalState]

\* No signature reaches over the border of its page, wherever the owner clicked:
\* handlePreviewPickPosition moves it inside, and nothing later moves it out.
PlacedInsidePage ==
  \A d \in Docs, u \in Users : doc[d].place[u] # None =>
    LET p == doc[d].place[u]
    IN p.x + SignatureWidth <= Pages[p.page].w /\ p.y + SignatureHeight <= Pages[p.page].h

\* Who signed is seen, and signed, where the owner put them, although the page
\* they signed from was loaded earlier and the file was drawn before that.
DrawnWhereStored ==
  \A d \in Docs : \A u \in ToSet(doc[d].signed) :
    LET p == doc[d].place[u]
    IN p # None => /\ doc[d].widget[u] = [x |-> p.x, y |-> p.y]
                   /\ ~behind[d] => [user |-> u, place |-> p] \in doc[d].images

\* Rows, pages and the drawn file agree on where the signatures are.
DrawingsAgree == TypeOK /\ PlacedInsidePage /\ DrawnWhereStored

\* The verification code of a signed document does not lie on its first
\* signature, as long as the page has a corner for it.
QrIsClear ==
  \A d \in Docs : doc[d].signed # <<>> /\ ~behind[d] =>
    LET p == doc[d].place[doc[d].signed[1]]
        corners == IF p = None THEN <<>> ELSE Corners(p.page)
    IN (\E c \in ToSet(corners) : ~Covers(p, c)) =>
         doc[d].qr.page # p.page \/ ~Covers(p, doc[d].qr)

\* No document is signed without a verification code, also when the file with
\* it could not be made before the first signature.
SignedHasQr == \A d \in Docs : doc[d].signed # <<>> => doc[d].qr # None

\* Whoever has a signed document finds its verification code.
QrIsFound == SignedHasQr /\ QrIsClear

\* A confirmation belongs to the open dialog and to what this shows: however
\* dialogs are closed while they load and others opened, none survives into another
\* dialog, and none is given before the preview is there.  The dialog in which a
\* preview arrived that an earlier one had asked for is exempt: it may be confirmed
\* with another document on the screen (loadSignPreview).
ConfirmedUnlessLate ==
  \A u \in Signers : portal[u].confirmed =>
    /\ portal[u].dialog # None
    /\ ~portal[u].mixed => portal[u].shown = portal[u].dialog.doc

\* The order that is stored is the one the owner saw when it was saved.
ShownOrderIsSaved ==
  \A d \in Docs : doc'[d].order # doc[d].order => doc'[d].order = wizard.order

\* Once somebody has signed, the signers, their order and their places stay.
SignedLayoutStays ==
  \A d \in Docs : doc[d].signed # <<>> =>
    doc'[d].order = doc[d].order /\ doc'[d].place = doc[d].place

\* The layout changes only as the owner saw it, and before the first signature.
LayoutStays == [][ShownOrderIsSaved /\ SignedLayoutStays]_vars
=============================================================================
