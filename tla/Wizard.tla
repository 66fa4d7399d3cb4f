------------------------------- MODULE Wizard -------------------------------
(***************************************************************************)
(* The pages /certification/upload, signers, placeholders and review, in   *)
(* one tab of the owner: what they hold of the chosen document, what they  *)
(* load, and what they send.                                               *)
(*                                                                         *)
(* A page shows its document before it has its signers.  While a request   *)
(* is under way all buttons that send another one are disabled, so a       *)
(* request and its answer are one action; so are turning to a page of the  *)
(* PDF, waiting until it is drawn, choosing a signer and clicking, which   *)
(* change nothing else.  The messages the pages show are left out.         *)
(***************************************************************************)
EXTENDS Placement

CONSTANTS
  Clicks,  \* the pages and positions the owner clicks on, from the lower left corner
  MaxSigners,  \* how many signers are on the list, at most
  MaxSaves     \* how often signers are saved, at most

VARIABLES
  wizard,  \* what the tab holds
  saves    \* how often signers were saved

ASSUME WizardAssumption == Clicks \subseteq Place /\ MaxSigners \in Nat /\ MaxSaves \in Nat

\* A step with its document, the signers it shows in order and their places, and
\* whether these are loading.
WizardState ==
  [step : {"away", "signers", "placeholders", "review"}, doc : Own \cup {None},
   order : Seq(Users), place : [Users -> Place \cup {None}], loading : BOOLEAN]

On(step, d) ==
  [step |-> step, doc |-> d, order |-> <<>>, place |-> NoPlaces,
   loading |-> d # None]

WizardInit == wizard = On("away", None) /\ saves = 0

\* Steps that only change the pages.
OnPage(next) == wizard' = next /\ UNCHANGED <<doc, behind, saves>>

-----------------------------------------------------------------------------
(* Choosing a document, loading its signers *)

\* From the upload page, with a document just uploaded or any other draft.
ContinueWithDraft(d) == doc[d].status = "DRAFT" /\ OnPage(On("signers", d))

\* Any step may be opened from /certification or with the back button.  It
\* shows the document the session remembers; without one the latest.
OpenStep(step) ==
  \E d \in Own : wizard.doc \in {None, d} /\ OnPage(On(step, d))

\* What a page makes of the rows.
Loaded(page, row) ==
  [page EXCEPT !.order = row.order, !.place = row.place, !.loading = FALSE]

\* The page of the signers fills in the places that are not set.
WithDefaults(page) ==
  [page EXCEPT !.place = [u \in Users |-> IF @[u] = None THEN Placed(page.order)[u] ELSE @[u]]]

\* What was entered meanwhile is replaced, unless there is nothing stored.
StoredSignersArrive ==
  LET row == doc[wizard.doc]
  IN /\ wizard.loading
     /\ OnPage(IF row.order = <<>> THEN [wizard EXCEPT !.loading = FALSE]
               ELSE IF wizard.step = "signers" THEN WithDefaults(Loaded(wizard, row))
               ELSE Loaded(wizard, row))

StoredSignersFail == wizard.loading /\ OnPage([wizard EXCEPT !.loading = FALSE])

-----------------------------------------------------------------------------
(* The order of the signers *)

\* The positions by role, then as they were.
NormalizeSignerOrder(ids) ==
  LET Level(i) == Rank[ids[i]]
      at == CHOOSE p \in [DOMAIN ids -> DOMAIN ids] : \A i, j \in DOMAIN ids :
              i < j => \/ Level(p[i]) < Level(p[j])
                       \/ Level(p[i]) = Level(p[j]) /\ p[i] < p[j]
  IN [i \in DOMAIN ids |-> ids[at[i]]]

AddSigner(u) ==
  /\ wizard.step = "signers" /\ u \notin ToSet(wizard.order)
  /\ Len(wizard.order) < MaxSigners
  /\ OnPage([wizard EXCEPT !.order = NormalizeSignerOrder(Append(@, u))])

CanMoveSigner(i) ==
  i + 1 <= Len(wizard.order) /\ Rank[wizard.order[i]] = Rank[wizard.order[i + 1]]

MoveSigner ==
  \E i \in DOMAIN wizard.order :
    /\ wizard.step = "signers" /\ CanMoveSigner(i)
    /\ OnPage([wizard EXCEPT !.order[i] = wizard.order[i + 1],
                             !.order[i + 1] = wizard.order[i]])

\* A signer is listed once.
RemoveSigner(u) ==
  /\ wizard.step = "signers" /\ u \in ToSet(wizard.order)
  /\ OnPage([wizard EXCEPT !.order = RemoveFirst(@, u), !.place[u] = None])

Saved == saves < MaxSaves /\ saves' = saves + 1

\* handleContinue sends no places, whatever the page shows; the request may be
\* refused for a signer without an image after the document was started.
SaveSigners ==
  /\ Saved
  /\ wizard.step = "signers" /\ wizard.order # <<>>
  /\ \/ \E fails \in BOOLEAN :
          /\ RequestSigners(wizard.doc, NormalizeSignerOrder(wizard.order), NoPlaces, fails)
          /\ wizard' = IF fails THEN wizard ELSE On("placeholders", wizard.doc)
     \/ Start(wizard.doc) /\ UNCHANGED wizard

-----------------------------------------------------------------------------
(* The places of the signatures *)

Inside(v, size, border) == Clamp(v - size \div 2, border - size)

\* handlePreviewPickPosition
PickPosition(u, click) ==
  /\ wizard.step = "placeholders" /\ u \in ToSet(wizard.order)
  /\ OnPage([wizard EXCEPT !.place[u] =
               At(click.page, Inside(click.x, SignatureWidth, Pages[click.page].w),
                  Inside(click.y, SignatureHeight, Pages[click.page].h))])

SavePlaceholders ==
  /\ Saved
  /\ wizard.step = "placeholders" /\ wizard.order # <<>>
  /\ \E fails \in BOOLEAN :
       /\ RequestSigners(wizard.doc, wizard.order, WithDefaults(wizard).place, fails)
       /\ wizard' = IF fails THEN wizard ELSE On("review", wizard.doc)

-----------------------------------------------------------------------------
(* The owner's own signature *)

\* handleOwnerSign sends no place.
OwnerSign ==
  /\ wizard.step = "review" /\ Owner \in ToSet(wizard.order)
  /\ SignDocument(wizard.doc, Owner, None)
  /\ UNCHANGED <<wizard, saves>>

WizardNext ==
  \/ \E d \in Own : ContinueWithDraft(d)
  \/ \E step \in {"signers", "placeholders", "review"} : OpenStep(step)
  \/ StoredSignersArrive \/ StoredSignersFail
  \/ \E u \in Users : AddSigner(u) \/ RemoveSigner(u)
  \/ \E u \in Users, click \in Clicks : PickPosition(u, click)
  \/ MoveSigner \/ SaveSigners \/ SavePlaceholders \/ OwnerSign
=============================================================================
