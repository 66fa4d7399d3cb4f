--------------------------- MODULE SessionsProofs ---------------------------
(***************************************************************************)
(* What holds of Sessions for any accounts, tabs and calls: that the       *)
(* storage has its type and is of one user, that an idle session is never  *)
(* current again, and that a password is only changed by who knows it or   *)
(* by an administrator.                                                    *)
(*                                                                         *)
(* The argument is about what a call under way carries.  Well says what it *)
(* carries at each step, whatever else happens; the other conjuncts relate *)
(* it to the storage and to the rows, and hold because with overlap FALSE  *)
(* nothing is begun while a call is under way, and because an hour passes  *)
(* only when none is.                                                      *)
(***************************************************************************)
EXTENDS Sessions, TLAPS

MeKinds == {"topbar", "profile", "home", "session"}

Steps == {"idle", "sent", "hashed", "answered", "done"}

\* What a call carries when it has been sent, is being hashed, or was answered.
SentWell(s) ==
  /\ s.tab \in Tabs
  /\ \/ s.kind \in MeKinds
     \/ s.kind = "login" /\ s.user \in Users
     \/ s.kind = "password" /\ s.new \in Passwords

HashedWell(s) ==
  /\ s.new \in Passwords
  /\ \/ s.kind = "reset" /\ s.user \in Users
     \/ s.kind = "password" /\ s.token \in Token

AnsweredWell(s) ==
  /\ s.tab \in Tabs
  /\ \/ /\ s.kind \in MeKinds
        /\ s.answer # None => s.token \in Token /\ s.answer = s.token.of
     \/ /\ s.kind = "login" /\ s.user \in Users
        /\ s.answer # None => s.answer \in Token /\ s.answer.of = s.user

Well(step, s) ==
  /\ s \in Snapshot
  /\ step = "sent" => SentWell(s)
  /\ step = "hashed" => HashedWell(s)
  /\ step = "answered" => AnsweredWell(s)

CallsAreWell == \A c \in Calls : Well(pc[c], snap[c])

\* Nothing is begun while a call is under way.
OneCall == ~overlap => \A c, d \in InFlight : c = d

\* The token a call was made with is the one stored, unless that was dropped.
CallHasToken ==
  ~overlap => \A c \in Calls :
    pc[c] \in {"sent", "answered"} /\ stored.token # None => snap[c].token = stored.token

\* Of a session that is idle no browser's call is under way.
IdleIsQuiet ==
  IsAuthSessionIdleExpired => \A c \in Calls : pc[c] \notin {"sent", "answered"}

\* The row is still what changePassword compared.
OldStillMatches ==
  ~overlap => \A c \in Calls :
    pc[c] = "hashed" /\ snap[c].kind = "password" =>
      accounts[snap[c].token.of].password = snap[c].old

IInv ==
  /\ TypeOK
  /\ CallsAreWell
  /\ OneCall
  /\ CallHasToken
  /\ IdleIsQuiet
  /\ OldStillMatches
  /\ StoredUserIsTokens

-----------------------------------------------------------------------------
(* Calls *)

\* A call that is not under way carries nothing.
LEMMA BlankWell ==
  Blank \in Snapshot /\ Well("done", Blank) /\ Well("idle", Blank)
BY DEF Blank, Snapshot, Well

\* A call that moves carries what its next step needs; the others are as they were.
LEMMA GotoWell ==
  ASSUME TypeOK, CallsAreWell, NEW c \in Calls, NEW step \in Steps, NEW s, Well(step, s),
         Goto(c, step, s)
  PROVE  /\ pc' \in [Calls -> Steps] /\ snap' \in [Calls -> Snapshot]
         /\ CallsAreWell'
         /\ pc'[c] = step /\ snap'[c] = s
         /\ \A d \in Calls \ {c} : pc'[d] = pc[d] /\ snap'[d] = snap[d]
<1>1. /\ pc \in [Calls -> Steps] /\ snap \in [Calls -> Snapshot] /\ s \in Snapshot
  BY DEF TypeOK, Steps, Well
<1>2. /\ pc' = [pc EXCEPT ![c] = step] /\ snap' = [snap EXCEPT ![c] = s]
  BY DEF Goto
<1>3. /\ pc' \in [Calls -> Steps] /\ snap' \in [Calls -> Snapshot]
      /\ pc'[c] = step /\ snap'[c] = s
      /\ \A d \in Calls \ {c} : pc'[d] = pc[d] /\ snap'[d] = snap[d]
  BY <1>1, <1>2
<1>4. CallsAreWell'
  <2>. SUFFICES ASSUME NEW d \in Calls PROVE Well(pc'[d], snap'[d])
    BY DEF CallsAreWell
  <2>1. CASE d = c
    BY <2>1, <1>3
  <2>2. CASE d # c
    BY <2>2, <1>3 DEF CallsAreWell
  <2>. QED
    BY <2>1, <2>2
<1>. QED
  BY <1>3, <1>4

\* The same for a call that ends.
LEMMA FinishWell ==
  ASSUME TypeOK, CallsAreWell, NEW c \in Calls, Finish(c)
  PROVE  /\ pc' \in [Calls -> Steps] /\ snap' \in [Calls -> Snapshot]
         /\ CallsAreWell'
         /\ pc'[c] = "done" /\ snap'[c] = Blank
         /\ \A d \in Calls \ {c} : pc'[d] = pc[d] /\ snap'[d] = snap[d]
  BY GotoWell, BlankWell DEF Finish, Steps

\* What SaveAuthSession stores is of the type of the storage.
LEMMA SaveTyped ==
  ASSUME NEW token \in Token, NEW user \in Users
  PROVE  SaveAuthSession(token, user) \in Stored
  BY DEF SaveAuthSession, Stored

\* Nor does clearing an idle session change that, or make one current.
LEMMA KeptTyped ==
  ASSUME TypeOK
  PROVE  Empty \in Stored /\ Kept \in Stored /\ (Kept = stored \/ Kept = Empty)
  BY DEF TypeOK, Kept, Empty, Stored

\* What a call carries does not depend on whether its answer will be ignored.
LEMMA UnmountedWell ==
  ASSUME TypeOK, CallsAreWell, NEW t \in Tabs, snap' = Unmounted(t), UNCHANGED pc
  PROVE  /\ snap' \in [Calls -> Snapshot]
         /\ CallsAreWell'
         /\ \A c \in Calls : /\ snap'[c].kind = snap[c].kind /\ snap'[c].token = snap[c].token
                             /\ snap'[c].old = snap[c].old
<1>1. ASSUME NEW c \in Calls
      PROVE  /\ snap'[c] \in Snapshot /\ Well(pc[c], snap'[c])
             /\ snap'[c].kind = snap[c].kind /\ snap'[c].token = snap[c].token
             /\ snap'[c].old = snap[c].old
  <2>1. snap[c] \in Snapshot /\ Well(pc[c], snap[c])
    BY DEF TypeOK, CallsAreWell
  <2>2. snap'[c] \in {snap[c], [snap[c] EXCEPT !.ignore = TRUE]}
    BY DEF Unmounted
  <2>. QED
    BY <2>1, <2>2 DEF Well, SentWell, HashedWell, AnsweredWell, Snapshot
<1>2. snap' = [c \in Calls |-> snap'[c]]
  BY DEF Unmounted
<1>. QED
  BY <1>1, <1>2 DEF CallsAreWell

-----------------------------------------------------------------------------
(* The steps *)

\* A step that leaves the storage alone, marks it used, or clears it, and
\* leaves every call where it is.
LEMMA StorageSteps ==
  ASSUME IInv, stored' \in {stored, Empty, [stored EXCEPT !.activity = "recent"]},
         page' \in [Tabs -> Pages], UNCHANGED <<accounts, expired, overlap, pc>>,
         snap' \in [Calls -> Snapshot], CallsAreWell',
         \A c \in Calls : /\ snap'[c].kind = snap[c].kind /\ snap'[c].token = snap[c].token
                          /\ snap'[c].old = snap[c].old
  PROVE  IInv'
<1>1. stored \in Stored /\ stored' \in Stored
  BY KeptTyped DEF IInv, TypeOK, Stored
<1>2. TypeOK'
  BY <1>1 DEF IInv, TypeOK
<1>3. OneCall'
  BY DEF IInv, OneCall, InFlight
<1>4. stored'.token \in {stored.token, None} /\ stored'.user \in {stored.user, None}
  BY <1>1 DEF Stored, Empty
<1>5. CallHasToken'
  BY <1>4 DEF IInv, CallHasToken
<1>6. IdleIsQuiet'
  BY <1>1 DEF IInv, IdleIsQuiet, IsAuthSessionIdleExpired, Empty, Stored
<1>7. OldStillMatches'
  BY DEF IInv, OldStillMatches
<1>8. StoredUserIsTokens'
  BY <1>1 DEF IInv, StoredUserIsTokens, Empty, Stored
<1>. QED
  BY <1>2, <1>3, <1>5, <1>6, <1>7, <1>8 DEF IInv

\* With the calls as they are, too.
LEMMA CallsAsTheyAre ==
  ASSUME IInv, UNCHANGED <<pc, snap>>
  PROVE  snap' \in [Calls -> Snapshot] /\ CallsAreWell'
  BY DEF IInv, TypeOK, CallsAreWell

\* A call that is sent.
LEMMA SendSteps ==
  ASSUME IInv, NEW c \in Calls, NEW t \in Tabs, NEW s, Ready, pc[c] = "idle", Send(c, t, s),
         s \in Snapshot, SentWell([s EXCEPT !.tab = t]), UNCHANGED <<accounts, expired, overlap>>
  PROVE  IInv'
<1>0. TypeOK /\ CallsAreWell /\ stored \in Stored
  BY DEF IInv, TypeOK
<1>1. CASE IsAuthSessionIdleExpired
  <2>. DEFINE dropped == {d \in InFlight : snap[d].tab = t}
  <2>1. /\ page' = [page EXCEPT ![t] = "login"] /\ stored' = Empty
        /\ pc' = [d \in Calls |-> IF d \in dropped THEN "done" ELSE pc[d]]
        /\ snap' = [d \in Calls |-> IF d \in dropped THEN Blank ELSE snap[d]]
    BY <1>1 DEF Send, Reload
  <2>. HIDE DEF dropped
  <2>2. ASSUME NEW d \in Calls
        PROVE  /\ pc'[d] \in Steps /\ snap'[d] \in Snapshot /\ Well(pc'[d], snap'[d])
               /\ \/ pc'[d] = pc[d] /\ snap'[d] = snap[d]
                  \/ pc'[d] = "done"
    <3>1. Well(pc[d], snap[d]) /\ pc[d] \in Steps /\ snap[d] \in Snapshot
      BY <1>0 DEF TypeOK, CallsAreWell, Steps
    <3>. QED
      BY <3>1, <2>1, BlankWell DEF Steps
  <2>3. TypeOK' /\ CallsAreWell'
    <3>1. pc' \in [Calls -> Steps] /\ snap' \in [Calls -> Snapshot]
      BY <2>1, <2>2
    <3>2. page' \in [Tabs -> Pages]
      BY <2>1, <1>0 DEF TypeOK, Pages
    <3>3. CallsAreWell'
      BY <2>2 DEF CallsAreWell
    <3>. QED
      BY <3>1, <3>2, <3>3, <2>1, <1>0, KeptTyped DEF TypeOK, Steps
  <2>4. OneCall'
    BY <2>2 DEF IInv, OneCall, InFlight
  <2>5. stored'.token = None /\ stored'.user = None
    BY <2>1 DEF Empty
  <2>6. CallHasToken' /\ IdleIsQuiet' /\ StoredUserIsTokens'
    BY <2>5 DEF CallHasToken, IdleIsQuiet, IsAuthSessionIdleExpired, StoredUserIsTokens
  <2>7. OldStillMatches'
    BY <2>2 DEF IInv, OldStillMatches
  <2>. QED
    BY <2>3, <2>4, <2>6, <2>7 DEF IInv
<1>2. CASE ~IsAuthSessionIdleExpired
  <2>. DEFINE sent == [s EXCEPT !.tab = t, !.token = stored.token]
  <2>1. /\ stored' = IF stored.token # None THEN [stored EXCEPT !.activity = "recent"] ELSE stored
        /\ Goto(c, "sent", sent) /\ page' = page
    BY <1>2 DEF Send
  <2>2. sent \in Snapshot /\ sent.token = stored.token /\ SentWell(sent)
    BY <1>0 DEF Stored, Snapshot, SentWell
  <2>. HIDE DEF sent
  <2>3. Well("sent", sent)
    BY <2>2 DEF Well
  <2>4. /\ pc' \in [Calls -> Steps] /\ snap' \in [Calls -> Snapshot]
        /\ CallsAreWell'
        /\ pc'[c] = "sent" /\ snap'[c] = sent
        /\ \A d \in Calls \ {c} : pc'[d] = pc[d] /\ snap'[d] = snap[d]
    BY <1>0, <2>1, <2>3, GotoWell DEF Steps
  <2>5. /\ stored' \in Stored /\ stored'.token = stored.token /\ stored'.user = stored.user
        /\ stored.token # None => stored'.activity = "recent"
    BY <2>1, <1>0 DEF Stored
  <2>6. TypeOK'
    BY <2>1, <2>4, <2>5, <1>0 DEF TypeOK, Steps
  <2>7. ~overlap => \A d \in Calls \ {c} : pc'[d] \in {"idle", "done"}
    BY <2>4 DEF Ready, InFlight
  <2>8. OneCall'
    BY <2>7 DEF OneCall, InFlight
  <2>9. CallHasToken'
    BY <2>7, <2>2, <2>4, <2>5 DEF CallHasToken
  <2>10. IdleIsQuiet' /\ StoredUserIsTokens'
    BY <2>5 DEF IInv, IdleIsQuiet, IsAuthSessionIdleExpired, StoredUserIsTokens
  <2>11. OldStillMatches'
    BY <2>7, <2>4 DEF OldStillMatches
  <2>. QED
    BY <2>4, <2>6, <2>8, <2>9, <2>10, <2>11 DEF IInv
<1>. QED
  BY <1>1, <1>2

\* A call that goes on in the server, which writes nothing that it read.
LEMMA ServeSteps ==
  ASSUME IInv, NEW c \in Calls, NEW step \in {"answered", "hashed"}, NEW s, Well(step, s),
         pc[c] = "sent", Goto(c, step, s), s.token = snap[c].token,
         step = "hashed" => accounts[s.token.of].password = s.old,
         UNCHANGED <<accounts, expired, stored, page, overlap>>
  PROVE  IInv'
<1>0. TypeOK /\ CallsAreWell /\ step \in Steps
  BY DEF IInv, Steps
<1>1. /\ pc' \in [Calls -> Steps] /\ snap' \in [Calls -> Snapshot]
      /\ CallsAreWell'
      /\ pc'[c] = step /\ snap'[c] = s
      /\ \A d \in Calls \ {c} : pc'[d] = pc[d] /\ snap'[d] = snap[d]
  BY <1>0, GotoWell
<1>2. TypeOK'
  BY <1>0, <1>1 DEF TypeOK, Steps
<1>3. OneCall'
  BY <1>1 DEF IInv, OneCall, InFlight
<1>4. CallHasToken' /\ IdleIsQuiet'
  BY <1>1 DEF IInv, CallHasToken, IdleIsQuiet, IsAuthSessionIdleExpired
<1>5. OldStillMatches'
  BY <1>1 DEF IInv, OldStillMatches
<1>. QED
  BY <1>1, <1>2, <1>3, <1>4, <1>5 DEF IInv, StoredUserIsTokens

\* A call that ends, from whatever step, with what it leaves in the storage.
LEMMA FinishSteps ==
  ASSUME IInv, NEW c \in Calls, Finish(c), stored' \in Stored, page' \in [Tabs -> Pages],
         StoredUserIsTokens',
         ~overlap => \A d \in Calls \ {c} :
                       pc[d] \in {"idle", "done"} \/ stored'.token = stored.token,
         stored' # stored => ~IsAuthSessionIdleExpired',
         UNCHANGED <<accounts, expired, overlap>>
  PROVE  IInv'
<1>0. TypeOK /\ CallsAreWell
  BY DEF IInv
<1>1. /\ pc' \in [Calls -> Steps] /\ snap' \in [Calls -> Snapshot]
      /\ CallsAreWell'
      /\ pc'[c] = "done" /\ snap'[c] = Blank
      /\ \A d \in Calls \ {c} : pc'[d] = pc[d] /\ snap'[d] = snap[d]
  BY <1>0, FinishWell
<1>2. TypeOK'
  BY <1>0, <1>1 DEF TypeOK, Steps
<1>3. OneCall'
  BY <1>1 DEF IInv, OneCall, InFlight
<1>4. CallHasToken' /\ IdleIsQuiet'
  BY <1>1 DEF IInv, CallHasToken, IdleIsQuiet, IsAuthSessionIdleExpired
<1>5. OldStillMatches'
  BY <1>1 DEF IInv, OldStillMatches
<1>. QED
  BY <1>1, <1>2, <1>3, <1>4, <1>5 DEF IInv

\* A tab's steps keep the invariant.
LEMMA BrowseKeeps ==
  ASSUME IInv, NEW t \in Tabs, Browse(t)
  PROVE  IInv'
<1>0. TypeOK /\ CallsAreWell /\ stored \in Stored /\ page \in [Tabs -> Pages]
  BY DEF IInv, TypeOK
<1>1. CASE Activity(t) \/ Logout(t)
  <2>1. /\ stored' \in {Empty, [stored EXCEPT !.activity = "recent"]}
        /\ page' \in [Tabs -> Pages] /\ UNCHANGED <<accounts, expired, overlap, pc, snap>>
    BY <1>1, <1>0 DEF Activity, Logout, Pages
  <2>. QED
    BY <2>1, StorageSteps, CallsAsTheyAre
<1>2. ASSUME NEW p \in {"app", "profile"}, OpenPage(t, p)
      PROVE  IInv'
  <2>1. /\ stored' = Kept /\ snap' = Unmounted(t)
        /\ page' \in [Tabs -> Pages] /\ UNCHANGED <<accounts, expired, overlap, pc>>
    BY <1>2, <1>0 DEF OpenPage, Pages
  <2>. QED
    BY <2>1, <1>0, StorageSteps, UnmountedWell, KeptTyped
<1>3. CASE OpenLogin(t)
  <2>1. /\ stored' = Kept /\ snap' = Unmounted(t)
        /\ page' \in [Tabs -> Pages] /\ UNCHANGED <<accounts, expired, overlap, pc>>
    BY <1>3, <1>0 DEF OpenLogin, Pages
  <2>. QED
    BY <2>1, <1>0, StorageSteps, UnmountedWell, KeptTyped
<1>4. ASSUME NEW c \in Calls, NEW kind \in MeKinds, Ask(t, c, kind)
      PROVE  IInv'
  <2>. DEFINE s == [Blank EXCEPT !.kind = kind]
  <2>1. s \in Snapshot /\ SentWell([s EXCEPT !.tab = t])
    BY DEF Blank, Snapshot, SentWell, MeKinds, Kinds
  <2>2. /\ Ready /\ pc[c] = "idle" /\ Send(c, t, s) /\ UNCHANGED <<accounts, expired, overlap>>
    BY <1>4 DEF Ask
  <2>. HIDE DEF s
  <2>. QED
    BY <2>1, <2>2, SendSteps
<1>5. ASSUME NEW c \in Calls, NEW u \in Users, NEW p \in Passwords, SubmitLogin(t, c, u, p)
      PROVE  IInv'
  <2>. DEFINE s == [Blank EXCEPT !.kind = "login", !.user = u, !.old = p]
  <2>1. s \in Snapshot /\ SentWell([s EXCEPT !.tab = t])
    BY DEF Blank, Snapshot, SentWell, Kinds
  <2>2. /\ Ready /\ pc[c] = "idle" /\ Send(c, t, s) /\ UNCHANGED <<accounts, expired, overlap>>
    BY <1>5 DEF SubmitLogin, Enabled
  <2>. HIDE DEF s
  <2>. QED
    BY <2>1, <2>2, SendSteps
<1>6. ASSUME NEW c \in Calls, NEW p \in Passwords, NEW q \in Passwords, SubmitPassword(t, c, p, q)
      PROVE  IInv'
  <2>. DEFINE s == [Blank EXCEPT !.kind = "password", !.old = p, !.new = q]
  <2>1. s \in Snapshot /\ SentWell([s EXCEPT !.tab = t])
    BY DEF Blank, Snapshot, SentWell, Kinds
  <2>2. /\ Ready /\ pc[c] = "idle" /\ Send(c, t, s) /\ UNCHANGED <<accounts, expired, overlap>>
    BY <1>6 DEF SubmitPassword, Enabled
  <2>. HIDE DEF s
  <2>. QED
    BY <2>1, <2>2, SendSteps
<1>. QED
  BY <1>1, <1>2, <1>3, <1>4, <1>5, <1>6
  DEF Browse, AskTopbar, AskProfile, AskHome, AskSession, MeKinds

\* What the pages make of an answer, by the component that asked: the storage
\* keeps its type and its user, and no idle session is made current.
LEMMA AnsweredStorage ==
  ASSUME IInv, NEW c \in Calls, Answered(c)
  PROVE  /\ stored' \in Stored /\ page' \in [Tabs -> Pages]
         /\ StoredUserIsTokens'
         /\ stored' # stored => ~IsAuthSessionIdleExpired'
         /\ ~IsAuthSessionIdleExpired
<1>. DEFINE s == snap[c]
<1>0. /\ pc[c] = "answered" /\ AnsweredWell(s) /\ s \in Snapshot
      /\ stored \in Stored /\ page \in [Tabs -> Pages] /\ overlap' = overlap
      /\ ~IsAuthSessionIdleExpired /\ StoredUserIsTokens
      /\ ~overlap /\ stored.token # None => s.token = stored.token
  BY DEF IInv, TypeOK, CallsAreWell, Well, Answered, IdleIsQuiet, CallHasToken
<1>4. page' \in [Tabs -> Pages]
  BY <1>0 DEF Answered, AnsweredWell, Pages, MeKinds
<1>1. CASE stored' = stored
  BY <1>0, <1>1, <1>4 DEF StoredUserIsTokens
<1>2. CASE stored' = Empty
  BY <1>0, <1>2, <1>4 DEF StoredUserIsTokens, Empty, Stored, IsAuthSessionIdleExpired
<1>3. ASSUME NEW token \in Token, NEW user \in Users, stored' = SaveAuthSession(token, user),
             ~overlap => user = token.of
      PROVE  /\ stored' \in Stored /\ StoredUserIsTokens' /\ ~IsAuthSessionIdleExpired'
  BY <1>0, <1>3, SaveTyped, NoneIsNoToken
  DEF StoredUserIsTokens, IsAuthSessionIdleExpired, SaveAuthSession
<1>5. CASE s.kind \in MeKinds /\ s.answer # None
  <2>0. s.token \in Token /\ s.answer = s.token.of /\ s.answer \in Users
    BY <1>0, <1>5 DEF AnsweredWell, MeKinds, Token
  <2>1. stored' \in {stored, Empty, SaveAuthSession(s.token, s.answer)} \/ s.kind = "profile"
    BY <1>0, <1>5 DEF Answered, MeKinds, CheckedSession
  <2>2. CASE s.kind = "profile" /\ stored' # stored
    <3>1. stored.token # None /\ stored' = SaveAuthSession(stored.token, s.answer)
      BY <1>0, <1>5, <2>2 DEF Answered, Refreshed
    <3>2. stored.token \in Token /\ (~overlap => s.answer = stored.token.of)
      BY <3>1, <2>0, <1>0 DEF Stored
    <3>. QED
      BY <3>1, <3>2, <2>0, <1>0, <1>3, <1>4
  <2>. QED
    BY <2>0, <2>1, <2>2, <1>0, <1>1, <1>2, <1>3, <1>4
<1>6. CASE s.kind \in MeKinds /\ s.answer = None
  BY <1>0, <1>6, <1>1, <1>2 DEF Answered, MeKinds, CheckedSession
<1>7. CASE s.kind = "login"
  <2>1. stored' = IF s.answer = None THEN stored ELSE SaveAuthSession(s.answer, s.user)
    BY <1>0, <1>7 DEF Answered
  <2>. QED
    BY <2>1, <1>0, <1>7, <1>1, <1>3, <1>4 DEF AnsweredWell, MeKinds
<1>. QED
  BY <1>0, <1>5, <1>6, <1>7 DEF AnsweredWell

\* A call's steps keep it, in the server and in the pages.
LEMMA ServeKeeps ==
  ASSUME IInv, NEW c \in Calls, Serve(c)
  PROVE  IInv'
<1>. DEFINE s == snap[c]
<1>0. s \in Snapshot /\ Well(pc[c], s) /\ stored \in Stored /\ page \in [Tabs -> Pages]
  BY DEF IInv, TypeOK, CallsAreWell
<1>1. CASE ServeMe(c)
  <2>. DEFINE a == [s EXCEPT !.answer = IF Valid(s.token) THEN s.token.of ELSE None]
  <2>1. /\ pc[c] = "sent" /\ s.kind \in MeKinds /\ Goto(c, "answered", a)
        /\ UNCHANGED <<accounts, expired, stored, page, overlap>>
    BY <1>1 DEF ServeMe, MeKinds
  <2>2. Valid(s.token) => s.token \in Token /\ s.token.of \in Users
    BY <1>0 DEF Valid, Snapshot, Token
  <2>3. Well("answered", a) /\ a.token = s.token
    BY <1>0, <2>1, <2>2 DEF Well, SentWell, AnsweredWell, Snapshot, MeKinds
  <2>. HIDE DEF a
  <2>. QED
    BY <2>1, <2>3, ServeSteps
<1>2. CASE ServeLogin(c)
  <2>. DEFINE right == accounts[s.user].password = s.old /\ accounts[s.user].active
              a == [s EXCEPT !.answer = IF right THEN [of |-> s.user, by |-> c] ELSE None]
  <2>1. /\ pc[c] = "sent" /\ s.kind = "login" /\ Goto(c, "answered", a)
        /\ UNCHANGED <<accounts, expired, stored, page, overlap>>
    BY <1>2 DEF ServeLogin
  <2>2. s.user \in Users /\ s.tab \in Tabs
    BY <1>0, <2>1 DEF Well, SentWell, MeKinds
  <2>. HIDE DEF right
  <2>3. Well("answered", a) /\ a.token = s.token
    BY <1>0, <2>1, <2>2 DEF Well, AnsweredWell, Snapshot, Token
  <2>. HIDE DEF a
  <2>. QED
    BY <2>1, <2>3, ServeSteps
<1>3. CASE ServePassword(c) /\ Goto(c, "hashed", s) /\ Valid(s.token) /\ PasswordMatches(s)
  <2>1. /\ pc[c] = "sent" /\ s.kind = "password"
        /\ UNCHANGED <<accounts, expired, stored, page, overlap>>
    BY <1>3 DEF ServePassword
  <2>2. Well("hashed", s)
    BY <1>0, <1>3, <2>1 DEF Well, SentWell, HashedWell, MeKinds, Valid, Snapshot
  <2>3. accounts[s.token.of].password = s.old
    BY <1>3 DEF PasswordMatches
  <2>. HIDE DEF s
  <2>. QED
    BY <1>3, <2>1, <2>2, <2>3, ServeSteps DEF s
<1>4. CASE Finish(c) /\ UNCHANGED <<accounts, expired, stored, page, overlap>>
  BY <1>0, <1>4, FinishSteps DEF IInv, StoredUserIsTokens
<1>5. CASE WritePassword(c)
  <2>1. /\ pc[c] = "hashed" /\ Finish(c) /\ UNCHANGED <<expired, stored, page, overlap>>
        /\ accounts' = [accounts EXCEPT ![IF s.kind = "reset" THEN s.user ELSE s.token.of] =
                          [@ EXCEPT !.password = s.new]]
    BY <1>5 DEF WritePassword, NewPassword
  <2>2. s.new \in Passwords
    BY <1>0, <2>1 DEF Well, HashedWell
  <2>. HIDE DEF s
  <2>3. accounts' \in [Users -> [password : Passwords, active : BOOLEAN]]
    <3>1. accounts \in [Users -> [password : Passwords, active : BOOLEAN]]
      BY DEF IInv, TypeOK
    <3>. QED
      BY <2>1, <2>2, <3>1
  <2>4. TypeOK /\ CallsAreWell
    BY DEF IInv
  <2>5. /\ pc' \in [Calls -> Steps] /\ snap' \in [Calls -> Snapshot]
        /\ CallsAreWell'
        /\ pc'[c] = "done" /\ snap'[c] = Blank
        /\ \A d \in Calls \ {c} : pc'[d] = pc[d] /\ snap'[d] = snap[d]
    BY <2>1, <2>4, FinishWell
  <2>6. TypeOK'
    BY <2>1, <2>3, <2>5, <2>4 DEF TypeOK, Steps
  <2>7. OneCall'
    BY <2>1, <2>5 DEF IInv, OneCall, InFlight
  <2>8. CallHasToken' /\ IdleIsQuiet' /\ StoredUserIsTokens'
    BY <2>1, <2>5
    DEF IInv, CallHasToken, IdleIsQuiet, IsAuthSessionIdleExpired, StoredUserIsTokens
  <2>9. OldStillMatches'
    BY <2>1, <2>5 DEF IInv, OneCall, InFlight, OldStillMatches
  <2>. QED
    BY <2>5, <2>6, <2>7, <2>8, <2>9 DEF IInv
<1>6. CASE Answered(c)
  <2>1. pc[c] = "answered" /\ Finish(c) /\ UNCHANGED <<accounts, expired, overlap>>
    BY <1>6 DEF Answered
  <2>2. ~overlap => \A d \in Calls \ {c} : pc[d] \in {"idle", "done"}
    BY <2>1 DEF IInv, OneCall, InFlight
  <2>. QED
    BY <1>6, <2>1, <2>2, AnsweredStorage, FinishSteps
<1>7. CASE ServePassword(c)
  BY <1>7, <1>3, <1>4 DEF ServePassword
<1>. QED
  BY <1>1, <1>2, <1>5, <1>6, <1>7 DEF Serve

\* So do those of an administrator.
LEMMA AdministerKeeps ==
  ASSUME IInv, NEW c \in Calls, Administer(c)
  PROVE  IInv'
<1>0. TypeOK /\ CallsAreWell
  BY DEF IInv
<1>1. ASSUME NEW u \in Users, NEW q \in Passwords, Reset(c, u, q)
      PROVE  IInv'
  <2>. DEFINE s == [Blank EXCEPT !.kind = "reset", !.user = u, !.new = q]
  <2>1. Well("hashed", s) /\ s.kind = "reset"
    BY DEF Well, Blank, Snapshot, HashedWell, Kinds
  <2>2. /\ Ready /\ pc[c] = "idle" /\ Goto(c, "hashed", s)
        /\ UNCHANGED <<accounts, expired, stored, page, overlap>>
    BY <1>1 DEF Reset
  <2>. HIDE DEF s
  <2>3. /\ pc' \in [Calls -> Steps] /\ snap' \in [Calls -> Snapshot]
        /\ CallsAreWell'
        /\ pc'[c] = "hashed" /\ snap'[c] = s
        /\ \A d \in Calls \ {c} : pc'[d] = pc[d] /\ snap'[d] = snap[d]
    BY <1>0, <2>1, <2>2, GotoWell DEF Steps
  <2>4. TypeOK'
    BY <1>0, <2>2, <2>3 DEF TypeOK, Steps
  <2>5. OneCall'
    BY <2>2, <2>3 DEF OneCall, InFlight, Ready
  <2>6. CallHasToken' /\ IdleIsQuiet' /\ StoredUserIsTokens'
    BY <2>2, <2>3
    DEF IInv, CallHasToken, IdleIsQuiet, IsAuthSessionIdleExpired, StoredUserIsTokens
  <2>7. OldStillMatches'
    BY <2>1, <2>2, <2>3 DEF IInv, OldStillMatches
  <2>. QED
    BY <2>3, <2>4, <2>5, <2>6, <2>7 DEF IInv
<1>2. ASSUME NEW u \in Users, SetActive(c, u)
      PROVE  IInv'
  <2>1. /\ pc[c] = "idle" /\ Finish(c) /\ UNCHANGED <<expired, stored, page, overlap>>
        /\ accounts' = [accounts EXCEPT ![u] = [@ EXCEPT !.active = ~@]]
    BY <1>2 DEF SetActive
  <2>2. /\ accounts' \in [Users -> [password : Passwords, active : BOOLEAN]]
        /\ \A v \in Users : accounts'[v].password = accounts[v].password
    BY <1>0, <2>1 DEF TypeOK
  <2>3. /\ pc' \in [Calls -> Steps] /\ snap' \in [Calls -> Snapshot]
        /\ CallsAreWell'
        /\ pc'[c] = "done" /\ snap'[c] = Blank
        /\ \A d \in Calls \ {c} : pc'[d] = pc[d] /\ snap'[d] = snap[d]
    BY <1>0, <2>1, FinishWell
  <2>4. TypeOK'
    BY <1>0, <2>1, <2>2, <2>3 DEF TypeOK, Steps
  <2>5. OneCall'
    BY <2>1, <2>3 DEF IInv, OneCall, InFlight
  <2>6. CallHasToken' /\ IdleIsQuiet' /\ StoredUserIsTokens'
    BY <2>1, <2>3
    DEF IInv, CallHasToken, IdleIsQuiet, IsAuthSessionIdleExpired, StoredUserIsTokens
  <2>7. OldStillMatches'
    <3>1. \A d \in Calls : pc[d] = "hashed" /\ snap[d].kind = "password"
            => snap[d].token.of \in Users
      BY DEF IInv, CallsAreWell, Well, HashedWell, Token
    <3>. QED
      BY <3>1, <2>1, <2>2, <2>3 DEF IInv, OldStillMatches
  <2>. QED
    BY <2>3, <2>4, <2>5, <2>6, <2>7 DEF IInv
<1>. QED
  BY <1>1, <1>2 DEF Administer

\* And so does the passing of time, which waits for the calls under way.
LEMMA TimeKeeps ==
  ASSUME IInv, HourPasses \/ DayPasses
  PROVE  IInv'
<1>1. /\ InFlight = {} /\ UNCHANGED <<accounts, page, overlap, pc, snap>>
      /\ stored' \in {stored, [stored EXCEPT !.activity = "old"]}
      /\ expired' \in {expired, {c \in Calls : pc[c] = "done"}}
  BY DEF HourPasses, DayPasses
<1>2. \A c \in Calls : pc[c] \in {"idle", "done"}
  BY <1>1 DEF InFlight
<1>3. stored' \in Stored /\ stored'.token = stored.token /\ stored'.user = stored.user
  BY <1>1 DEF IInv, TypeOK, Stored
<1>4. TypeOK'
  BY <1>1, <1>3 DEF IInv, TypeOK
<1>. QED
  BY <1>1, <1>2, <1>3, <1>4
  DEF IInv, CallsAreWell, OneCall, InFlight, CallHasToken, IdleIsQuiet, OldStillMatches,
      StoredUserIsTokens

-----------------------------------------------------------------------------
(* The theorems *)

\* At first nothing is stored, and no call is under way.
LEMMA InitHolds == Init => IInv
<1>. SUFFICES ASSUME Init PROVE IInv
  OBVIOUS
<1>1. TypeOK
  BY SessionsAssumption, BlankWell, KeptTyped
  DEF Init, TypeOK, Empty, Stored, Pages
<1>2. CallsAreWell
  BY BlankWell DEF Init, CallsAreWell
<1>. QED
  BY <1>1, <1>2
  DEF Init, IInv, OneCall, InFlight, CallHasToken, IdleIsQuiet, IsAuthSessionIdleExpired, Empty,
      OldStillMatches, StoredUserIsTokens

\* Every step keeps all of it.
LEMMA StepHolds == IInv /\ [Next]_vars => IInv'
<1>. SUFFICES ASSUME IInv, [Next]_vars PROVE IInv'
  OBVIOUS
<1>1. CASE UNCHANGED vars
  BY <1>1 DEF vars, IInv, TypeOK, CallsAreWell, OneCall, InFlight, CallHasToken, IdleIsQuiet,
              IsAuthSessionIdleExpired, OldStillMatches, StoredUserIsTokens
<1>2. CASE Next
  BY <1>2, BrowseKeeps, ServeKeeps, AdministerKeeps, TimeKeeps DEF Next
<1>. QED
  BY <1>1, <1>2

\* The invariant of which the properties are consequences.
THEOREM InvariantHolds == Spec => []IInv
<1>. QED
  BY InitHolds, StepHolds, PTL DEF Spec

(* Whatever the accounts, tabs and calls: the storage has its type, and    *)
(* the user that the pages show is the one whose token goes with every     *)
(* call (auth-session.ts and the four components that write it).           *)
THEOREM StorageAgreesHolds == Spec => []StorageAgrees
<1>1. IInv => StorageAgrees
  BY DEF IInv, StorageAgrees
<1>. QED
  BY <1>1, InvariantHolds, PTL

(* However calls overlap: no step of any tab makes a session current that  *)
(* was idle for an hour (AUTH_IDLE_TIMEOUT_MS).                            *)
THEOREM IdleSessionIsOverHolds == Spec => IdleSessionIsOver
<1>1. IInv /\ [Next]_vars => [IdleNeverRevives]_vars
  <2>. SUFFICES ASSUME IInv, Next, IsAuthSessionIdleExpired
                PROVE  stored' = stored \/ stored' = Empty
    BY DEF IdleNeverRevives, vars
  <2>0. stored \in Stored /\ Kept = Empty
    BY DEF IInv, TypeOK, Kept
  <2>1. ASSUME NEW t \in Tabs, Browse(t)
        PROVE  stored' = stored \/ stored' = Empty
    BY <2>0, <2>1
    DEF Browse, Activity, Logout, OpenLogin, OpenPage, AskTopbar, AskProfile, AskHome, AskSession,
        Ask, SubmitLogin, SubmitPassword, Send, Reload
  <2>2. ASSUME NEW c \in Calls, Serve(c)
        PROVE  stored' = stored \/ stored' = Empty
    BY <2>2, AnsweredStorage DEF Serve, ServeMe, ServeLogin, ServePassword, WritePassword
  <2>3. ASSUME NEW c \in Calls, Administer(c)
        PROVE  stored' = stored \/ stored' = Empty
    BY <2>3 DEF Administer, Reset, SetActive
  <2>4. CASE HourPasses \/ DayPasses
    BY <2>0, <2>4 DEF HourPasses, DayPasses, IsAuthSessionIdleExpired, Stored
  <2>. QED
    BY <2>1, <2>2, <2>3, <2>4 DEF Next
<1>. QED
  BY <1>1, InvariantHolds, PTL DEF Spec, IdleSessionIsOver

(* Unless calls overlap: a password is changed by an administrator or by   *)
(* who knows the one in force (changePassword), never over a reset.        *)
THEOREM ResetStaysHolds == Spec => ResetStays
<1>1. IInv /\ [Next]_vars => [ChangedByKnower]_vars
  <2>. SUFFICES ASSUME IInv, Next, ~overlap, NEW u \in Users,
                       accounts'[u].password # accounts[u].password
                PROVE  \E c \in Calls :
                         /\ pc[c] = "hashed" /\ pc'[c] = "done"
                         /\ \/ snap[c].kind = "reset"
                            \/ snap[c].token.of = u /\ snap[c].old = accounts[u].password
    BY DEF ChangedByKnower, vars
  <2>0. TypeOK /\ CallsAreWell
    BY DEF IInv
  <2>1. ASSUME NEW c \in Calls, WritePassword(c)
        PROVE  /\ pc[c] = "hashed" /\ pc'[c] = "done"
               /\ \/ snap[c].kind = "reset"
                  \/ snap[c].token.of = u /\ snap[c].old = accounts[u].password
    <3>1. pc[c] = "hashed" /\ HashedWell(snap[c])
      BY <2>1, <2>0 DEF WritePassword, CallsAreWell, Well
    <3>2. pc'[c] = "done"
      BY <2>1, <2>0, FinishWell DEF WritePassword
    <3>3. CASE snap[c].kind # "reset"
      <4>1. u = snap[c].token.of
        BY <2>0, <2>1, <3>3 DEF WritePassword, TypeOK
      <4>. QED
        BY <3>1, <3>2, <3>3, <4>1 DEF HashedWell, IInv, OldStillMatches
    <3>. QED
      BY <3>1, <3>2, <3>3
  <2>2. ASSUME NEW c \in Calls, NEW v \in Users, SetActive(c, v)
        PROVE  FALSE
    BY <2>0, <2>2 DEF SetActive, TypeOK
  <2>3. \/ UNCHANGED accounts
        \/ \E c \in Calls : WritePassword(c) \/ \E v \in Users : SetActive(c, v)
    <3>1. ASSUME NEW t \in Tabs, Browse(t) PROVE UNCHANGED accounts
      BY <3>1 DEF Browse, Activity, Logout, OpenLogin, OpenPage, AskTopbar, AskProfile, AskHome,
                  AskSession, Ask, SubmitLogin, SubmitPassword
    <3>2. ASSUME NEW c \in Calls, Serve(c) PROVE UNCHANGED accounts \/ WritePassword(c)
      BY <3>2 DEF Serve, ServeMe, ServeLogin, ServePassword, Answered
    <3>3. ASSUME NEW c \in Calls, Administer(c)
          PROVE  UNCHANGED accounts \/ \E v \in Users : SetActive(c, v)
      BY <3>3 DEF Administer, Reset
    <3>4. HourPasses \/ DayPasses => UNCHANGED accounts
      BY DEF HourPasses, DayPasses
    <3>. QED
      BY <3>1, <3>2, <3>3, <3>4 DEF Next
  <2>. QED
    BY <2>1, <2>2, <2>3
<1>. QED
  BY <1>1, InvariantHolds, PTL DEF Spec, ResetStays
=============================================================================
