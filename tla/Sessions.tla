------------------------------ MODULE Sessions ------------------------------
(***************************************************************************)
(* Who is logged in: AuthService's login, passwords and tokens, and the    *)
(* session that a browser keeps in its local storage, which all its tabs   *)
(* share: auth-session.ts, the interceptor of axios.ts, the login page,    *)
(* and the pages that write what the server answers back into the storage. *)
(*                                                                         *)
(* A token is signed and names its user; the server looks at nothing else  *)
(* (JwtStrategy), so that neither a new password nor the account's being   *)
(* disabled ends it.  Two bounds on time: a call is answered within the    *)
(* hour after which an inactive session expires, and within the day after  *)
(* which a token does.                                                     *)
(***************************************************************************)
EXTENDS Integers, FiniteSets

CONSTANTS
  Users,
  Passwords,
  Initial,  \* the password of each account when createUser made it
  Tabs,     \* of one browser
  Calls,    \* the calls of the API that may be made, each once
  None      \* nothing stored, no token

ASSUME SessionsAssumption ==
  /\ Initial \in [Users -> Passwords]
  /\ None \notin Users \cup Passwords \cup Tabs \cup Calls

VARIABLES
  accounts,  \* the User row of each account
  expired,   \* the logins whose tokens are more than a day old
  stored,    \* localStorage
  page,      \* what each tab shows
  overlap,   \* whether anything is begun while a call is under way
  pc,        \* where each call is
  snap       \* what it was made with, has read, or is answered

vars == <<accounts, expired, stored, page, overlap, pc, snap>>

\* A token is known by its user and by the login that issued it.
Token == [of : Users, by : Calls]

ASSUME NoneIsNoToken == None \notin Token

\* lastAuthActivityAt, as to whether the session has been idle for an hour.
Stored ==
  [token : Token \cup {None}, user : Users \cup {None}, activity : {"recent", "old", "none"}]

Empty == [token |-> None, user |-> None, activity |-> "none"]

\* checking: the login page asks whether there is a session already;
\* leaving: on its way to the login page, and not yet unmounted.
Pages == {"login", "checking", "app", "profile", "leaving"}

\* topbar, profile, home, session: GET /auth/me as four components call it.
Kinds == {"topbar", "profile", "home", "session", "login", "password", "reset"}

Snapshot ==
  [kind : Kinds \cup {None}, tab : Tabs \cup {None}, token : Token \cup {None},
   user : Users \cup {None}, old : Passwords \cup {None}, new : Passwords \cup {None},
   answer : Token \cup Users \cup {None}, ignore : BOOLEAN]

Blank ==
  [kind |-> None, tab |-> None, token |-> None, user |-> None, old |-> None, new |-> None,
   answer |-> None, ignore |-> FALSE]

-----------------------------------------------------------------------------
Init ==
  /\ accounts = [u \in Users |-> [password |-> Initial[u], active |-> TRUE]]
  /\ expired = {}
  /\ stored = Empty
  /\ page = [t \in Tabs |-> "login"]
  /\ overlap \in BOOLEAN
  /\ pc = [c \in Calls |-> "idle"]
  /\ snap = [c \in Calls |-> Blank]

InFlight == {c \in Calls : pc[c] \notin {"idle", "done"}}

Ready == overlap \/ InFlight = {}

Goto(c, step, s) ==
  /\ pc' = [pc EXCEPT ![c] = step]
  /\ snap' = [snap EXCEPT ![c] = s]

Finish(c) == Goto(c, "done", Blank)

-----------------------------------------------------------------------------
(* The storage and the interceptor *)

SaveAuthSession(token, user) == [token |-> token, user |-> user, activity |-> "recent"]

IsAuthSessionIdleExpired == stored.token # None /\ stored.activity = "old"

\* getToken, which clears what is idle.
GetToken == IF IsAuthSessionIdleExpired THEN None ELSE stored.token

\* Mutant: logout forgets the user.
KeptMutant == IF IsAuthSessionIdleExpired THEN [stored EXCEPT !.token = None] ELSE stored

Kept == IF IsAuthSessionIdleExpired THEN Empty ELSE stored

\* window.location.href = '/login' ends the scripts of the tab.
Reload(t) ==
  LET dropped == {c \in InFlight : snap[c].tab = t} IN
  /\ page' = [page EXCEPT ![t] = "login"]
  /\ stored' = Empty
  /\ pc' = [c \in Calls |-> IF c \in dropped THEN "done" ELSE pc[c]]
  /\ snap' = [c \in Calls |-> IF c \in dropped THEN Blank ELSE snap[c]]

\* Mutant: the interceptor leaves it to the pages to notice.
SendMutant(c, t, s) ==
  /\ stored' = IF stored.token # None THEN [stored EXCEPT !.activity = "recent"] ELSE stored
  /\ Goto(c, "sent", [s EXCEPT !.tab = t, !.token = stored.token])
  /\ UNCHANGED page

\* The interceptor: a session that was idle is over, and the call not made.
Send(c, t, s) ==
  IF IsAuthSessionIdleExpired THEN Reload(t)
  ELSE /\ stored' = IF stored.token # None THEN [stored EXCEPT !.activity = "recent"] ELSE stored
       /\ Goto(c, "sent", [s EXCEPT !.tab = t, !.token = stored.token])
       /\ UNCHANGED page

\* Components that ignore late answers do so once they are unmounted.
Unmounted(t) ==
  [c \in Calls |-> IF c \in InFlight /\ snap[c].tab = t THEN [snap[c] EXCEPT !.ignore = TRUE]
                   ELSE snap[c]]

-----------------------------------------------------------------------------
(* What the user of the browser does *)

\* AppShell's checks, on focus, on a timer and on the user's activity.
Activity(t) ==
  /\ page[t] \in {"app", "profile"} /\ stored.token # None
  /\ IF IsAuthSessionIdleExpired
     THEN stored' = Empty /\ page' = [page EXCEPT ![t] = "leaving"]
     ELSE stored' = [stored EXCEPT !.activity = "recent"] /\ UNCHANGED page
  /\ UNCHANGED <<accounts, expired, overlap, pc, snap>>

\* A page in the shell is opened: the effects of what it leaves are cleaned up,
\* and the top bar asks for the profile if there is a token.
OpenPage(t, p) ==
  /\ Ready
  /\ page[t] \in {"app", "profile", "login"} /\ page[t] # p
  /\ page' = [page EXCEPT ![t] = p]
  /\ snap' = Unmounted(t)
  /\ stored' = Kept
  /\ UNCHANGED <<accounts, expired, overlap, pc>>

Ask(t, c, kind) ==
  /\ Ready
  /\ pc[c] = "idle"
  /\ Send(c, t, [Blank EXCEPT !.kind = kind])
  /\ UNCHANGED <<accounts, expired, overlap>>

AskTopbar(t, c) == page[t] \in {"app", "profile"} /\ GetToken # None /\ Ask(t, c, "topbar")

\* loadProfile and the handlers of the forms of the profile page.
AskProfile(t, c) == page[t] = "profile" /\ stored.user # None /\ Ask(t, c, "profile")

AskHome(t, c) == page[t] = "app" /\ Ask(t, c, "home")

\* redirectIfLoggedIn
OpenLogin(t) ==
  /\ page[t] = "leaving" \/ (Ready /\ page[t] = "login")
  /\ page' = [page EXCEPT ![t] = IF GetToken = None THEN "login" ELSE "checking"]
  /\ snap' = Unmounted(t)
  /\ stored' = Kept
  /\ UNCHANGED <<accounts, expired, overlap, pc>>

AskSession(t, c) == page[t] = "checking" /\ Ask(t, c, "session")

\* The button of a form is disabled until its call is answered.
Enabled(t, c, kind) ==
  /\ Ready
  /\ pc[c] = "idle"
  /\ \A d \in InFlight : snap[d].tab = t => snap[d].kind # kind

SubmitLogin(t, c, u, p) ==
  /\ page[t] = "login" /\ Enabled(t, c, "login")
  /\ Send(c, t, [Blank EXCEPT !.kind = "login", !.user = u, !.old = p])
  /\ UNCHANGED <<accounts, expired, overlap>>

Logout(t) ==
  /\ Ready
  /\ page[t] \in {"app", "profile"}
  /\ stored' = Empty
  /\ page' = [page EXCEPT ![t] = "leaving"]
  /\ UNCHANGED <<accounts, expired, overlap, pc, snap>>

\* handleChangePassword
SubmitPassword(t, c, p, q) ==
  /\ page[t] = "profile" /\ Enabled(t, c, "password") /\ p # q
  /\ Send(c, t, [Blank EXCEPT !.kind = "password", !.old = p, !.new = q])
  /\ UNCHANGED <<accounts, expired, overlap>>

-----------------------------------------------------------------------------
(* The server *)

\* JwtAuthGuard
Valid(token) == token # None /\ token.by \notin expired

ServeMe(c) ==
  LET s == snap[c] IN
  /\ pc[c] = "sent" /\ s.kind \in {"topbar", "profile", "home", "session"}
  /\ Goto(c, "answered", [s EXCEPT !.answer = IF Valid(s.token) THEN s.token.of ELSE None])
  /\ UNCHANGED <<accounts, expired, stored, page, overlap>>

\* validateUser and login
ServeLogin(c) ==
  LET s == snap[c] IN
  /\ pc[c] = "sent" /\ s.kind = "login"
  /\ Goto(c, "answered",
          [s EXCEPT !.answer = IF accounts[s.user].password = s.old /\ accounts[s.user].active
                               THEN [of |-> s.user, by |-> c] ELSE None])
  /\ UNCHANGED <<accounts, expired, stored, page, overlap>>

\* Mutant: the old password is only looked at by the form.
PasswordMatchesMutant(s) == TRUE

PasswordMatches(s) == accounts[s.token.of].password = s.old

\* changePassword reads the row, compares, and hashes before it writes.
ServePassword(c) ==
  LET s == snap[c] IN
  /\ pc[c] = "sent" /\ s.kind = "password"
  /\ IF Valid(s.token) /\ PasswordMatches(s) THEN Goto(c, "hashed", s) ELSE Finish(c)
  /\ UNCHANGED <<accounts, expired, stored, page, overlap>>

NewPassword(s) == s.new

WritePassword(c) ==
  LET s == snap[c] u == IF s.kind = "reset" THEN s.user ELSE s.token.of IN
  /\ pc[c] = "hashed"
  /\ accounts' = [accounts EXCEPT ![u] = [@ EXCEPT !.password = NewPassword(s)]]
  /\ Finish(c)
  /\ UNCHANGED <<expired, stored, page, overlap>>

\* resetUserPassword, from the browser of an administrator.
Reset(c, u, q) ==
  /\ Ready
  /\ pc[c] = "idle"
  /\ Goto(c, "hashed", [Blank EXCEPT !.kind = "reset", !.user = u, !.new = q])
  /\ UNCHANGED <<accounts, expired, stored, page, overlap>>

\* updateUser and deleteUser set the status of an account: see Accounts.
SetActive(c, u) ==
  /\ Ready
  /\ pc[c] = "idle"
  /\ accounts' = [accounts EXCEPT ![u] = [@ EXCEPT !.active = ~@]]
  /\ Finish(c)
  /\ UNCHANGED <<expired, stored, page, overlap>>

-----------------------------------------------------------------------------
(* What the pages make of the answers *)

CheckedSession(s) == IF s.answer = None THEN Empty ELSE SaveAuthSession(s.token, s.answer)

\* The profile page stores the answer under the token there is by then.
Refreshed(s) ==
  IF stored.token = None THEN stored ELSE SaveAuthSession(stored.token, s.answer)

Answered(c) ==
  LET s == snap[c] t == s.tab IN
  /\ pc[c] = "answered"
  /\ Finish(c)
  /\ CASE s.kind = "topbar" ->
            /\ stored' = IF s.ignore \/ s.answer = None THEN stored
                         ELSE SaveAuthSession(s.token, s.answer)
            /\ UNCHANGED page
       [] s.kind = "profile" ->
            /\ stored' = IF s.answer = None THEN stored ELSE Refreshed(s)
            /\ UNCHANGED page
       [] s.kind = "home" ->
            /\ stored' = IF s.answer = None THEN Empty ELSE stored
            /\ page' = IF s.answer = None THEN [page EXCEPT ![t] = "leaving"] ELSE page
       [] s.kind = "session" /\ s.ignore -> UNCHANGED <<stored, page>>
       [] s.kind = "session" /\ ~s.ignore ->
            /\ stored' = CheckedSession(s)
            /\ page' = [page EXCEPT ![t] = IF s.answer = None THEN "login" ELSE "app"]
       [] s.kind = "login" ->
            /\ stored' = IF s.answer = None THEN stored ELSE SaveAuthSession(s.answer, s.user)
            /\ page' = IF s.answer = None THEN page ELSE [page EXCEPT ![t] = "app"]
  /\ UNCHANGED <<accounts, expired, overlap>>

-----------------------------------------------------------------------------
(* Time *)

HourPasses ==
  /\ InFlight = {} /\ stored.token # None
  /\ stored' = [stored EXCEPT !.activity = "old"]
  /\ UNCHANGED <<accounts, expired, page, overlap, pc, snap>>

DayPasses ==
  /\ InFlight = {}
  /\ expired' = {c \in Calls : pc[c] = "done"}
  /\ UNCHANGED <<accounts, stored, page, overlap, pc, snap>>

-----------------------------------------------------------------------------
Browse(t) ==
  \/ Activity(t) \/ Logout(t) \/ OpenLogin(t)
  \/ \E p \in {"app", "profile"} : OpenPage(t, p)
  \/ \E c \in Calls :
       \/ AskTopbar(t, c) \/ AskProfile(t, c) \/ AskHome(t, c) \/ AskSession(t, c)
       \/ \E u \in Users, p \in Passwords : SubmitLogin(t, c, u, p)
       \/ \E p, q \in Passwords : SubmitPassword(t, c, p, q)

Serve(c) ==
  \/ ServeMe(c) \/ ServeLogin(c) \/ ServePassword(c) \/ WritePassword(c) \/ Answered(c)

Administer(c) == \E u \in Users : SetActive(c, u) \/ \E q \in Passwords : Reset(c, u, q)

Next ==
  \/ \E t \in Tabs : Browse(t)
  \/ \E c \in Calls : Serve(c) \/ Administer(c)
  \/ HourPasses \/ DayPasses

Spec == Init /\ [][Next]_vars

-----------------------------------------------------------------------------
\* Rows, storage, tabs and calls have the types of their columns or variables.
TypeOK ==
  /\ accounts \in [Users -> [password : Passwords, active : BOOLEAN]]
  /\ expired \subseteq Calls
  /\ stored \in Stored
  /\ page \in [Tabs -> Pages]
  /\ overlap \in BOOLEAN
  /\ pc \in [Calls -> {"idle", "sent", "hashed", "answered", "done"}]
  /\ snap \in [Calls -> Snapshot]

(* If nothing is begun while a call is under way: the user in the storage, *)
(* by whose role the pages choose what to show, is the one whose token     *)
(* goes with every call.  Four components write the two, each from an      *)
(* answer to a call made earlier.                                          *)
StoredUserIsTokens ==
  ~overlap => stored.user = (IF stored.token = None THEN None ELSE stored.token.of)

(* The storage has its type, and is of one user.                           *)
StorageAgrees == TypeOK /\ StoredUserIsTokens

(* However calls overlap: a session that has been idle for an hour is over *)
(* (AUTH_IDLE_TIMEOUT_MS): neither activity nor a call, in any tab, makes  *)
(* it current again.                                                       *)
IdleNeverRevives ==
  IsAuthSessionIdleExpired => stored' = stored \/ stored' = Empty

IdleSessionIsOver == [][IdleNeverRevives]_vars

(* If nothing is begun while a call is under way: a password is changed    *)
(* only by an administrator, or by who knows the one in force ("Password   *)
(* lama tidak sesuai"), so that no change undoes the reset of an           *)
(* administrator.                                                          *)
ChangedByKnower ==
  ~overlap => \A u \in Users : accounts'[u].password # accounts[u].password =>
    \E c \in Calls : /\ pc[c] = "hashed" /\ pc'[c] = "done"
                     /\ \/ snap[c].kind = "reset"
                        \/ snap[c].token.of = u /\ snap[c].old = accounts[u].password

ResetStays == [][ChangedByKnower]_vars
=============================================================================
