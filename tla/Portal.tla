------------------------------- MODULE Portal -------------------------------
(***************************************************************************)
(* The page /certification/assigned of each signer: the list of what is    *)
(* to be signed, the dialog that shows a document and its marked area, and *)
(* the previews that are loaded for it.                                    *)
(*                                                                         *)
(* The effect that loads a preview does not look whether its dialog is     *)
(* still open when it arrives: a preview whose dialog was closed meanwhile *)
(* is drawn in the one that is open by then.  The dialog that only shows a *)
(* document is left out, and so are the pages of the list and of the PDF.  *)
(* The call to sign is one step here.                                      *)
(***************************************************************************)
EXTENDS Placement

CONSTANTS
  Signers,  \* those whose page is modelled
  MaxLate   \* how many previews of one document may be late at a time, at most

VARIABLE portal

ASSUME PortalAssumption == Signers \subseteq Users /\ MaxLate \in Nat

\* What the list holds of a document that may be acted on.
Assignment == [place : Place \cup {None}]

Dialog == [doc : Docs, place : Place \cup {None}]

ASSUME NoneIsNoDialog == None \notin Dialog

\* The previews under way are that of the open dialog (own) and those of closed
\* ones (late).  History: whether a late one arrived in this dialog (mixed).
PortalState ==
  [list : [Docs -> Assignment \cup {None}], dialog : Dialog \cup {None},
   own : BOOLEAN, late : [Docs -> Nat], mixed : BOOLEAN, shown : Docs \cup {None},
   loading : BOOLEAN, confirmed : BOOLEAN]

\* isAssignmentActionable: neither signed nor declined by the user, nor revoked.
Actionable(u, d) ==
  u \in ToSet(doc[d].order) /\ u \notin ToSet(doc[d].signed) /\ doc[d].status # "REVOKED"

\* listAssignedDocuments.  Other documents are on the list, but are only looked at.
Assigned(u) ==
  [d \in Docs |-> IF Actionable(u, d) THEN [place |-> doc[d].place[u]] ELSE None]

Empty ==
  [list |-> [d \in Docs |-> None], dialog |-> None, own |-> FALSE,
   late |-> [d \in Docs |-> 0], mixed |-> FALSE, shown |-> None, loading |-> FALSE,
   confirmed |-> FALSE]

PortalInit == portal = [u \in Signers |-> Empty]

OnPortal(u, next) == portal' = [portal EXCEPT ![u] = next] /\ UNCHANGED <<doc, behind>>

LoadList(u) == OnPortal(u, [Empty EXCEPT !.list = Assigned(u)])

\* The preview of a dialog that is left comes late.
Late(p) ==
  IF p.own /\ p.dialog # None THEN [p.late EXCEPT ![p.dialog.doc] = @ + 1] ELSE p.late

\* Mutant: a confirmation survives its dialog.
ResetMutant(p) ==
  [p EXCEPT !.own = FALSE, !.late = Late(p), !.mixed = FALSE, !.shown = None,
            !.loading = FALSE]

\* What the effect undoes whenever the dialog changes.
Reset(p) ==
  [p EXCEPT !.own = FALSE, !.late = Late(p), !.mixed = FALSE, !.shown = None,
            !.loading = FALSE, !.confirmed = FALSE]

OpenSignDialog(u, d) ==
  LET a == portal[u].list[d]
  IN /\ portal[u].dialog = None /\ a # None /\ portal[u].late[d] < MaxLate
     /\ OnPortal(u, [Reset(portal[u]) EXCEPT
          !.dialog = [doc |-> d, place |-> a.place], !.own = TRUE, !.loading = TRUE])

\* Also while the preview is loading.
CloseSignDialog(u) ==
  /\ portal[u].dialog # None
  /\ OnPortal(u, [Reset(portal[u]) EXCEPT !.dialog = None])

\* The preview of the open dialog arrives, or its request fails,
OwnPreviewArrives(u) ==
  /\ portal[u].own /\ portal[u].dialog # None
  /\ \E shown \in {portal[u].dialog.doc, None} :
       OnPortal(u, [portal[u] EXCEPT !.own = FALSE, !.shown = shown, !.loading = FALSE])

\* or that of a closed one, for whichever dialog is open by then.  Without one it
\* sets what the next dialog resets.
LatePreviewArrives(u) ==
  \E d \in {e \in Docs : portal[u].late[e] > 0} :
    LET next == [portal[u] EXCEPT !.late[d] = @ - 1]
    IN \/ portal[u].dialog = None /\ OnPortal(u, next)
       \/ /\ portal[u].dialog # None
          /\ \E shown \in {d, None} :
               OnPortal(u, [next EXCEPT !.shown = shown, !.loading = FALSE, !.mixed = TRUE])

\* handleSignPreviewClick, on the page of the area, inside it or beside it;
\* without an area a click changes nothing.
ClickArea(u) ==
  /\ portal[u].dialog # None /\ portal[u].shown # None /\ ~portal[u].loading
  /\ portal[u].dialog.place # None
  /\ \E inside \in BOOLEAN : OnPortal(u, [portal[u] EXCEPT !.confirmed = inside])

\* Both load the list again; should that fail, it is only older.
AssignedSign(u) ==
  /\ portal[u].confirmed /\ portal[u].dialog # None
  /\ SignDocument(portal[u].dialog.doc, u, portal[u].dialog.place)
  /\ portal' = [portal EXCEPT ![u] =
                  [Reset(@) EXCEPT !.dialog = None, !.list = Assigned(u)']]

AssignedDecline(u, d) ==
  /\ portal[u].dialog = None /\ portal[u].list[d] # None
  /\ Decline(d, u)
  /\ portal' = [portal EXCEPT ![u].list = Assigned(u)']

PortalNext ==
  \E u \in Signers :
    \/ LoadList(u) \/ CloseSignDialog(u) \/ OwnPreviewArrives(u)
    \/ LatePreviewArrives(u) \/ ClickArea(u) \/ AssignedSign(u)
    \/ \E d \in Docs : OpenSignDialog(u, d) \/ AssignedDecline(u, d)
=============================================================================
