--------------------------- MODULE RevocationDesk ---------------------------
(***************************************************************************)
(* The two pages from which a document is revoked, in front of the server  *)
(* of Publication: /documents/[id], where its owner and its signers ask    *)
(* for it, and /admin/documents, where superadmins review what is asked or *)
(* revoke of themselves.  A page shows what it loaded last; the server     *)
(* decides by the rows as they are when a call arrives.                    *)
(*                                                                         *)
(* Everybody has one tab and stays on the page while a call is under way,  *)
(* and the superadmins review one at a time (Apart).  The superadmin's     *)
(* preview and the texts to be filled in are left out.                     *)
(***************************************************************************)
EXTENDS Publication, SequencesExt

CONSTANTS
  Admins,  \* the superadmins
  Apart    \* whether no two of their reviews are under way at a time

ASSUME DeskAssumption == Apart \in BOOLEAN /\ None \notin {"ok", "error"}

VARIABLES
  forms,    \* the page of each user
  desks,    \* the page of each superadmin
  answer,   \* how each call was answered
  created   \* the revoke requests in the order of createdAt

pages == <<forms, desks, answer, created>>

deskVars == <<vars, pages>>

Verdict == [call : Requests, of : Requests, verdict : {"APPROVED", "REJECTED"}]

Form == [offered : BOOLEAN, call : Requests \cup {None}]

Desk ==
  [revoked : BOOLEAN, list : SUBSET Requests,
   dialog : [of : Requests, verdict : {"APPROVED", "REJECTED"}] \cup {None},
   revoke : BOOLEAN, reviewing : Verdict \cup {None}, refreshing : BOOLEAN,
   revoking : Requests \cup {None}]

ASSUME NoneIsNoVerdict ==
  None \notin Verdict \cup [of : Requests, verdict : {"APPROVED", "REJECTED"}]

DeskInit ==
  /\ Init
  /\ forms = [u \in Users |-> [offered |-> FALSE, call |-> None]]
  /\ desks = [a \in Admins |->
                [revoked |-> FALSE, list |-> {}, dialog |-> None, revoke |-> FALSE,
                 reviewing |-> None, refreshing |-> FALSE, revoking |-> None]]
  /\ answer = [r \in Requests |-> None]
  /\ created = <<>>

OnForm(u, next) ==
  /\ forms' = [forms EXCEPT ![u] = next]
  /\ UNCHANGED <<vars, desks, answer, created>>

OnDesk(a, next) ==
  /\ desks' = [desks EXCEPT ![a] = next]
  /\ UNCHANGED <<vars, forms, answer, created>>

\* Every call is made once.
Sendable(r, handler) ==
  /\ Handler[r] = handler /\ pc[r] = "idle" /\ answer[r] = None
  /\ \A u \in Users : forms[u].call # r
  /\ \A a \in Admins :
       desks[a].revoking # r /\ (desks[a].reviewing # None => desks[a].reviewing.call # r)

-----------------------------------------------------------------------------
(* /documents/[id] *)

\* getDocumentDetail: the form is offered unless the latest request waits.
Offered(u) ==
  LET own == SelectSeq(created, LAMBDA r : asked[r].by = u) IN
  /\ doc.status = "FULLY_SIGNED"
  /\ own = <<>> \/ asked[Last(own)].status # "PENDING"

LoadDetail(u) ==
  /\ forms[u].call = None
  /\ OnForm(u, [forms[u] EXCEPT !.offered = Offered(u)])

\* Its buttons are disabled until the answer.
SubmitRevokeRequest(u, r) ==
  /\ forms[u].offered /\ forms[u].call = None /\ Sendable(r, "ask")
  /\ OnForm(u, [forms[u] EXCEPT !.call = r])

\* Done: refreshDetail, which may fail; otherwise an error is shown.
RequestAnswered(u) ==
  LET r == forms[u].call IN
  /\ r # None /\ answer[r] # None
  /\ \E fresh \in {answer[r] = "ok", answer[r] = "ok" /\ ~Faults} :
       OnForm(u, [offered |-> IF fresh THEN Offered(u) ELSE forms[u].offered, call |-> None])

-----------------------------------------------------------------------------
(* /admin/documents *)

\* listDocuments and listDocumentRevokeRequests
Loaded(a) ==
  [desks[a] EXCEPT !.revoked = doc.status = "REVOKED",
                   !.list = {q \in ToSet(created) : asked[q].status = "PENDING"}]

LoadDesk(a) ==
  /\ desks[a].reviewing = None /\ desks[a].revoking = None
  /\ OnDesk(a, [Loaded(a) EXCEPT !.dialog = None, !.revoke = FALSE])

OpenReviewDialog(a, q, verdict) ==
  /\ desks[a].dialog = None /\ ~desks[a].revoke
  /\ q \in desks[a].list
  /\ desks[a].reviewing # None => desks[a].reviewing.of # q
  /\ OnDesk(a, [desks[a] EXCEPT !.dialog = [of |-> q, verdict |-> verdict]])

OpenRevokeDialog(a) ==
  /\ desks[a].dialog = None /\ ~desks[a].revoke
  /\ ~desks[a].revoked /\ desks[a].revoking = None
  /\ OnDesk(a, [desks[a] EXCEPT !.revoke = TRUE])

\* A click beside a dialog closes it even while its call is under way.
CloseDialog(a) ==
  /\ desks[a].dialog # None \/ desks[a].revoke
  /\ OnDesk(a, [desks[a] EXCEPT !.dialog = None, !.revoke = FALSE])

Reviewing == {a \in Admins : desks[a].reviewing # None}

HandleReviewRevokeRequest(a, r) ==
  LET d == desks[a] IN
  /\ d.dialog # None /\ d.reviewing = None /\ Sendable(r, "review")
  /\ Apart => Reviewing = {}
  /\ OnDesk(a, [d EXCEPT !.reviewing =
                  [call |-> r, of |-> d.dialog.of, verdict |-> d.dialog.verdict]])

\* Whichever dialog is open by then is closed.
ReviewAnswered(a) ==
  LET d == desks[a] IN
  /\ d.reviewing # None /\ ~d.refreshing /\ answer[d.reviewing.call] # None
  /\ IF answer[d.reviewing.call] = "ok"
     THEN OnDesk(a, [d EXCEPT !.dialog = None, !.refreshing = TRUE])
     ELSE OnDesk(a, [d EXCEPT !.reviewing = None])

RefreshAdminDocuments(a) ==
  /\ desks[a].refreshing
  /\ \E next \in {Loaded(a)} \cup (IF Faults THEN {desks[a]} ELSE {}) :
       OnDesk(a, [next EXCEPT !.refreshing = FALSE, !.reviewing = None])

HandleRevoke(a, r) ==
  /\ desks[a].revoke /\ desks[a].revoking = None /\ Sendable(r, "revoke")
  /\ OnDesk(a, [desks[a] EXCEPT !.revoking = r])

\* Only the row of the document is replaced, not what is asked about it.
RevokeAnswered(a) ==
  LET d == desks[a] IN
  /\ d.revoking # None /\ answer[d.revoking] # None
  /\ OnDesk(a, IF answer[d.revoking] = "ok"
               THEN [d EXCEPT !.revoked = TRUE, !.revoke = FALSE, !.revoking = None]
               ELSE [d EXCEPT !.revoking = None])

-----------------------------------------------------------------------------
(* The server, and what it answers *)

Refuse(r) ==
  /\ pc[r] = "idle"
  /\ answer' = [answer EXCEPT ![r] = "error"]
  /\ UNCHANGED <<vars, forms, desks, created>>

Accept == UNCHANGED pages

ReceiveAsk(u) ==
  LET r == forms[u].call IN
  /\ r # None /\ answer[r] = None
  /\ IF Askable THEN AskRead(r, u) /\ Accept ELSE Refuse(r)

ReceiveRevoke(a) ==
  LET r == desks[a].revoking IN
  /\ r # None /\ answer[r] = None
  /\ IF RevocableDocument THEN RevokeRead(r) /\ Accept ELSE Refuse(r)

ReceiveReview(a) ==
  LET d == desks[a].reviewing IN
  /\ d # None /\ answer[d.call] = None
  /\ IF Reviewable(d.of) /\ (d.verdict = "APPROVED" => doc.status # "REVOKED")
     THEN /\ ReviewRead(d.call, d.of)
          /\ pc'[d.call] = IF d.verdict = "APPROVED" THEN "reviewRevoke" ELSE "reviewReject"
          /\ Accept
     ELSE Refuse(d.call)

\* The steps after which a handler returns rather than throws.
Returning == {"revokeUpdate", "askCreate", "reviewReject", "reviewApprove"}

Answered(r, how) ==
  answer' = IF pc[r] # "done" /\ pc'[r] = "done" THEN [answer EXCEPT ![r] = how] ELSE answer

Serve(r) ==
  /\ Step(r)
  /\ Answered(r, IF pc[r] \in Returning THEN "ok" ELSE "error")
  /\ created' = IF pc[r] = "askCreate" THEN Append(created, r) ELSE created
  /\ UNCHANGED <<forms, desks>>

Break(r) ==
  /\ ProofFails(r) \/ RevokeFails(r) \/ Fail(r)
  /\ Answered(r, "error")
  /\ UNCHANGED <<forms, desks, created>>

-----------------------------------------------------------------------------
DeskNext ==
  \/ \E u \in Users :
       \/ LoadDetail(u) \/ RequestAnswered(u) \/ ReceiveAsk(u)
       \/ \E r \in Requests : SubmitRevokeRequest(u, r)
  \/ \E a \in Admins :
       \/ LoadDesk(a) \/ OpenRevokeDialog(a) \/ CloseDialog(a)
       \/ ReviewAnswered(a) \/ RefreshAdminDocuments(a) \/ RevokeAnswered(a)
       \/ ReceiveRevoke(a) \/ ReceiveReview(a)
       \/ \E q \in Requests, verdict \in {"APPROVED", "REJECTED"} :
            OpenReviewDialog(a, q, verdict)
       \/ \E r \in Requests : HandleReviewRevokeRequest(a, r) \/ HandleRevoke(a, r)
  \/ \E r \in Requests :
       \/ SignRead(r) /\ UNCHANGED pages
       \/ Mine(r) /\ UNCHANGED pages
       \/ Serve(r) \/ Break(r)

DeskSpec == DeskInit /\ [][DeskNext]_deskVars

\* What the pages hold, and what they were answered, has its type.
DeskTypeOK ==
  /\ forms \in [Users -> Form]
  /\ desks \in [Admins -> Desk]
  /\ answer \in [Requests -> {"ok", "error", None}]
  /\ created \in Seq(Requests)

-----------------------------------------------------------------------------
(* Nobody has two revoke requests of the document waiting for a review,    *)
(* although requestDocumentRevoke looks for one and creates the other in   *)
(* two steps: the page, which asks for one at a time, closes the gap.      *)
OneOpenAsk == \A u \in Users : Cardinality(PendingOf(u)) <= 1

(* What the pages hold and what the server holds agree.                    *)
DeskAgrees == TypeOK /\ DeskTypeOK /\ OneOpenAsk

(* A verdict on a revoke request is final, although a superadmin's list    *)
(* may be old and a review waits for the ledger in between.                *)
VerdictStays ==
  [][\A q \in ToSet(created) :
       asked[q].status # "PENDING" => asked'[q] = asked[q]]_deskVars
=============================================================================
