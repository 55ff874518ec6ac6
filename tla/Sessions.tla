---- MODULE Sessions ----
(***************************************************************************)
(* Signing in and staying signed in: registration, login, refresh and      *)
(* logout (routes/auth.ts), the check of every request (auth.ts), the      *)
(* administrator's role (platform-admin.ts), his two switches (routes/     *)
(* admin.ts), the rate limiter in front of them, and the dashboard's       *)
(* client, which answers a 401 by one refresh and one repetition           *)
(* (web/lib/api.ts).                                                       *)
(*                                                                         *)
(* One user with one store and one browser is followed; the browser's tabs *)
(* and parallel requests share its cookies. A request is a sequence of     *)
(* awaits on the server and one answer, whose cookies the browser stores   *)
(* when it arrives. Subscriptions, which turn a request away as a disabled *)
(* store does, and the 30 days of a refresh token are left out.            *)
(***************************************************************************)
EXTENDS FiniteSets, Naturals

CONSTANTS
    Request,    \* requests of the browser that may be in flight at a time
    MaxTokens,  \* bound: refresh tokens that are live or still held somewhere
    Faults      \* which of "lost_answer", "db_error", "limited" may happen

ASSUME SessionsAssumption ==
    /\ MaxTokens \in Nat
    /\ Faults \subseteq {"lost_answer", "db_error", "limited"}

VARIABLES
    user,        \* User.status, "NONE" before the registration
    storeActive, \* Store.isActive
    configured,  \* PLATFORM_ADMIN_EMAIL is the user's address
    role,        \* User.platformRole
    live,        \* tokens whose RefreshSession row exists and is not revoked
    access,      \* browser: it holds an access token that has not expired
    refresh,     \* browser: its refresh token
    pc,          \* where each request is
    bearer,      \* the request was sent with a valid access token
    sent,        \* the refresh token it was sent with
    given,       \* the refresh token its answer carries
    signedIn,    \* history: the user has signed in and nothing has happened since
                 \* that should or could have thrown him out
    orphans      \* history: requests have overlapped or failed so that a token
                 \* may be live that no browser holds

accountVars == <<user, storeActive, configured, role>>
jarVars == <<access, refresh>>
requestVars == <<pc, bearer, sent, given>>
historyVars == <<signedIn, orphans>>
vars == <<accountVars, live, jarVars, requestVars, historyVars>>

Token == 1..MaxTokens
NoToken == 0

PC == {"idle", "asked", "again", "refresh", "member", "rotate", "rotated",
       "login", "verified", "register", "create", "open", "reopen", "granted",
       "logout", "clearing", "turnedAway", "served", "error"}

Init ==
    /\ user = "NONE" /\ storeActive = TRUE /\ configured \in BOOLEAN /\ role = "USER"
    /\ live = {}
    /\ access = FALSE /\ refresh = NoToken
    /\ pc = [r \in Request |-> "idle"]
    /\ bearer = [r \in Request |-> FALSE]
    /\ sent = [r \in Request |-> NoToken]
    /\ given = [r \in Request |-> NoToken]
    /\ signedIn = FALSE /\ orphans = FALSE

-----------------------------------------------------------------------------
(* The browser *)

Goto(r, next) ==
    /\ pc' = [pc EXCEPT ![r] = next]
    /\ UNCHANGED <<bearer, sent, given>>

(* Requests whose answer may change the cookies. *)
ChangesCookies(r) == pc[r] \notin {"idle", "asked", "again", "served", "error"}

(* Such a request is sent; one that overlaps another may confuse both. *)
SendCookies(r, next) ==
    /\ pc' = [pc EXCEPT ![r] = next]
    /\ sent' = [sent EXCEPT ![r] = refresh]
    /\ UNCHANGED <<bearer, given>>
    /\ LET overlap == \E q \in Request \ {r} : ChangesCookies(q)
       IN  /\ orphans' = (orphans \/ overlap)
           /\ signedIn' = (signedIn /\ ~overlap /\ next # "logout")

(* Any call of the dashboard's API; the browser adds its cookies. *)
Ask(r) ==
    /\ pc[r] = "idle" /\ user # "NONE"
    /\ pc' = [pc EXCEPT ![r] = "asked"]
    /\ bearer' = [bearer EXCEPT ![r] = access]
    /\ UNCHANGED <<accountVars, live, jarVars, sent, given, historyVars>>

Register(r) ==
    /\ pc[r] = "idle" /\ refresh = NoToken
    /\ SendCookies(r, "register")
    /\ UNCHANGED <<accountVars, live, jarVars>>

Login(r) ==
    /\ pc[r] = "idle" /\ refresh = NoToken
    /\ user # "NONE"
    /\ SendCookies(r, "login")
    /\ UNCHANGED <<accountVars, live, jarVars>>

Logout(r) ==
    /\ pc[r] = "idle" /\ refresh # NoToken
    /\ SendCookies(r, "logout")
    /\ UNCHANGED <<accountVars, live, jarVars>>

(* Cookie and token live for the same 15 minutes. *)
AccessExpires ==
    /\ access
    /\ access' = FALSE
    /\ UNCHANGED <<accountVars, live, refresh, requestVars, historyVars>>

Forget(r) ==
    /\ bearer' = [bearer EXCEPT ![r] = FALSE]
    /\ sent' = [sent EXCEPT ![r] = NoToken]
    /\ given' = [given EXCEPT ![r] = NoToken]

Finish(r, outcome) ==
    /\ pc' = [pc EXCEPT ![r] = outcome]
    /\ Forget(r)

(* Mistake: the call is not repeated.                                      *)
ReceiveRotatedOnly(r) ==
    /\ pc[r] = "rotated"
    /\ access' = TRUE /\ refresh' = given[r]
    /\ Finish(r, "idle")
    /\ UNCHANGED <<accountVars, live, historyVars>>

(* The answer of a refresh arrives: the cookies are stored and the call is *)
(* repeated with them.                                                     *)
ReceiveRotated(r) ==
    /\ pc[r] = "rotated"
    /\ access' = TRUE /\ refresh' = given[r]
    /\ pc' = [pc EXCEPT ![r] = "again"]
    /\ bearer' = [bearer EXCEPT ![r] = TRUE]
    /\ sent' = [sent EXCEPT ![r] = NoToken]
    /\ given' = [given EXCEPT ![r] = NoToken]
    /\ UNCHANGED <<accountVars, live, historyVars>>

(* ... of a login or a registration. *)
ReceiveGranted(r) ==
    /\ pc[r] = "granted"
    /\ access' = TRUE /\ refresh' = given[r]
    /\ Finish(r, "idle")
    /\ signedIn' = (user = "ACTIVE" /\ storeActive /\ ~orphans)
    /\ UNCHANGED <<accountVars, live, orphans>>

(* clearAuthCookies, whichever cookies the browser has by now. *)
ReceiveCleared(r) ==
    /\ pc[r] \in {"clearing", "turnedAway"}
    /\ access' = FALSE /\ refresh' = NoToken
    /\ Finish(r, IF pc[r] = "turnedAway" THEN "error" ELSE "idle")
    /\ UNCHANGED <<accountVars, live, historyVars>>

(* The client gives up after 45 s, or the tab is closed. *)
LoseAnswer(r) ==
    /\ "lost_answer" \in Faults
    /\ pc[r] \in {"rotated", "granted", "clearing", "turnedAway"}
    /\ Finish(r, "error")
    /\ orphans' = TRUE /\ signedIn' = FALSE
    /\ UNCHANGED <<accountVars, live, jarVars>>

(* The page shows the result. *)
Done(r) ==
    /\ pc[r] \in {"served", "error"}
    /\ Goto(r, "idle")
    /\ UNCHANGED <<accountVars, live, jarVars, historyVars>>

-----------------------------------------------------------------------------
(* authenticate *)

Admitted == user = "ACTIVE" /\ (role = "SUPER_ADMIN" \/ storeActive)

Serve(r) ==
    /\ pc[r] \in {"asked", "again"} /\ bearer[r]
    /\ Admitted
    /\ Finish(r, "served")
    /\ UNCHANGED <<accountVars, live, jarVars, historyVars>>

(* 403: the client does not try to refresh. *)
Forbid(r) ==
    /\ pc[r] \in {"asked", "again"} /\ bearer[r]
    /\ ~ Admitted
    /\ Finish(r, "error")
    /\ UNCHANGED <<accountVars, live, jarVars, historyVars>>

(* 401: the client sends a refresh with the cookies of this moment. *)
Refresh(r) ==
    /\ pc[r] = "asked" /\ ~ bearer[r]
    /\ SendCookies(r, "refresh")
    /\ UNCHANGED <<accountVars, live, jarVars>>

-----------------------------------------------------------------------------
(* POST /refresh *)

(* 429, 503 when Redis does not answer (failClosed), or a failed query;    *)
(* no cookie is touched.                                                   *)
Refuse(r) ==
    /\ \/ "limited" \in Faults /\ pc[r] \in {"refresh", "login", "register"}
       \/ "db_error" \in Faults
          /\ pc[r] \in {"refresh", "member", "rotate", "login", "verified",
                        "register", "create", "logout"}
    /\ Finish(r, "error")
    /\ UNCHANGED <<accountVars, live, jarVars, historyVars>>

RefreshWithoutCookie(r) ==
    /\ pc[r] = "refresh" /\ sent[r] = NoToken
    /\ Finish(r, "error")
    /\ UNCHANGED <<accountVars, live, jarVars, historyVars>>

(* A suspended user's token stays live although his browser forgets it.    *)
RefreshReads(r) ==
    /\ pc[r] = "refresh" /\ sent[r] # NoToken
    /\ IF sent[r] \in live /\ user = "ACTIVE"
         THEN Goto(r, "member") /\ UNCHANGED orphans
         ELSE Goto(r, "turnedAway") /\ orphans' = (orphans \/ sent[r] \in live)
    /\ UNCHANGED <<accountVars, live, jarVars, signedIn>>

(* A disabled store ends all sessions the user has in it. *)
RefreshMember(r) ==
    /\ pc[r] = "member"
    /\ IF storeActive
         THEN Goto(r, "rotate") /\ UNCHANGED live
         ELSE /\ Goto(r, "turnedAway")
              /\ live' = {}
    /\ UNCHANGED <<accountVars, jarVars, historyVars>>

(* A token that nothing refers to any more stands for a fresh one. *)
Unheld(t) ==
    /\ t \notin live /\ refresh # t
    /\ \A r \in Request : sent[r] # t /\ given[r] # t

Fresh(t) == Unheld(t) /\ \A u \in Token : Unheld(u) => t <= u

(* Mistake: the answer carries the old token.                              *)
RotateAnswersOld(r, t) ==
    /\ pc[r] = "rotate" /\ Fresh(t)
    /\ live' = (live \ {sent[r]}) \cup {t}
    /\ pc' = [pc EXCEPT ![r] = "rotated"]
    /\ given' = [given EXCEPT ![r] = sent[r]]
    /\ UNCHANGED <<accountVars, jarVars, bearer, sent, historyVars>>

(* By id, whatever has become of the row since it was read. *)
Rotate(r, t) ==
    /\ pc[r] = "rotate" /\ Fresh(t)
    /\ live' = (live \ {sent[r]}) \cup {t}
    /\ pc' = [pc EXCEPT ![r] = "rotated"]
    /\ given' = [given EXCEPT ![r] = t]
    /\ UNCHANGED <<accountVars, jarVars, bearer, sent, historyVars>>

-----------------------------------------------------------------------------
(* POST /login, /register, /logout *)

(* Password, status and an active store are checked on one read, before    *)
(* the slow hash.                                                          *)
LoginReads(r) ==
    /\ pc[r] = "login"
    /\ IF user = "ACTIVE" /\ storeActive THEN Goto(r, "verified") ELSE Finish(r, "error")
    /\ UNCHANGED <<accountVars, live, jarVars, historyVars>>

(* ensureInitialPlatformAdmin, then the session. *)
LoginGrants(r, t) ==
    /\ pc[r] = "verified" /\ Fresh(t)
    /\ role' = IF configured THEN "SUPER_ADMIN" ELSE role
    /\ live' = live \cup {t}
    /\ pc' = [pc EXCEPT ![r] = "granted"]
    /\ given' = [given EXCEPT ![r] = t]
    /\ UNCHANGED <<user, storeActive, configured, jarVars, bearer, sent, historyVars>>

RegisterReads(r) ==
    /\ pc[r] = "register"
    /\ IF user = "NONE" THEN Goto(r, "create") ELSE Finish(r, "error")
    /\ UNCHANGED <<accountVars, live, jarVars, historyVars>>

(* One transaction makes user, store, membership, subscription and rules;  *)
(* the address is unique.                                                  *)
RegisterCreates(r) ==
    /\ pc[r] = "create"
    /\ IF user = "NONE"
         THEN /\ user' = "ACTIVE"
              /\ role' = IF configured THEN "SUPER_ADMIN" ELSE "USER"
              /\ Goto(r, "open")
         ELSE UNCHANGED <<user, role>> /\ Finish(r, "error")
    /\ UNCHANGED <<storeActive, configured, live, jarVars, historyVars>>

RegisterGrants(r, t) ==
    /\ pc[r] \in {"open", "reopen"} /\ Fresh(t)
    /\ live' = live \cup {t}
    /\ pc' = [pc EXCEPT ![r] = "granted"]
    /\ given' = [given EXCEPT ![r] = t]
    /\ UNCHANGED <<accountVars, jarVars, bearer, sent, historyVars>>

(* The session is tried twice; then the account exists without one. *)
RegisterSessionFails(r) ==
    /\ "db_error" \in Faults
    /\ \/ pc[r] = "open" /\ Goto(r, "reopen")
       \/ pc[r] = "reopen" /\ Finish(r, "error")
    /\ UNCHANGED <<accountVars, live, jarVars, historyVars>>

(* Mistake: only the cookies are cleared.                                  *)
LogoutClearsOnly(r) ==
    /\ pc[r] = "logout"
    /\ Goto(r, "clearing")
    /\ UNCHANGED <<accountVars, live, jarVars, historyVars>>

LogoutRevokes(r) ==
    /\ pc[r] = "logout"
    /\ live' = live \ {sent[r]}
    /\ Goto(r, "clearing")
    /\ UNCHANGED <<accountVars, jarVars, historyVars>>

-----------------------------------------------------------------------------
(* The platform's administrator and operator *)

(* Neither switch touches the sessions. *)
SetUserStatus ==
    /\ user # "NONE"
    /\ user' = IF user = "ACTIVE" THEN "SUSPENDED" ELSE "ACTIVE"
    /\ signedIn' = FALSE
    /\ UNCHANGED <<storeActive, configured, role, live, jarVars, requestVars, orphans>>

SetStoreStatus ==
    /\ user # "NONE"
    /\ storeActive' = ~storeActive
    /\ signedIn' = FALSE
    /\ UNCHANGED <<user, configured, role, live, jarVars, requestVars, orphans>>

-----------------------------------------------------------------------------
(* What goes on by itself once a request was sent. *)
RequestStep(r) ==
    \/ Serve(r) \/ Forbid(r) \/ Refresh(r) \/ Refuse(r)
    \/ RefreshWithoutCookie(r) \/ RefreshReads(r) \/ RefreshMember(r)
    \/ LoginReads(r) \/ RegisterReads(r) \/ RegisterCreates(r) \/ RegisterSessionFails(r)
    \/ LogoutRevokes(r)
    \/ \E t \in Token : Rotate(r, t) \/ LoginGrants(r, t) \/ RegisterGrants(r, t)
    \/ ReceiveRotated(r) \/ ReceiveGranted(r) \/ ReceiveCleared(r) \/ LoseAnswer(r)
    \/ Done(r)

Next ==
    \/ \E r \in Request :
         Ask(r) \/ Register(r) \/ Login(r) \/ Logout(r) \/ RequestStep(r)
    \/ AccessExpires
    \/ SetUserStatus \/ SetStoreStatus

Spec == Init /\ [][Next]_vars

(* Server and client go on with a request; nothing is assumed of the user. *)
FairSpec == Spec /\ \A r \in Request : WF_vars(RequestStep(r))

-----------------------------------------------------------------------------
(* Properties *)

TypeOK ==
    /\ user \in {"NONE", "ACTIVE", "SUSPENDED"}
    /\ storeActive \in BOOLEAN /\ configured \in BOOLEAN
    /\ role \in {"USER", "SUPER_ADMIN"}
    /\ live \in SUBSET Token
    /\ access \in BOOLEAN /\ refresh \in Token \cup {NoToken}
    /\ pc \in [Request -> PC]
    /\ bearer \in [Request -> BOOLEAN]
    /\ sent \in [Request -> Token \cup {NoToken}]
    /\ given \in [Request -> Token \cup {NoToken}]
    /\ signedIn \in BOOLEAN /\ orphans \in BOOLEAN

(* A user who signed in, and whose requests did not overlap or lose their  *)
(* answers, holds a live refresh token through any number of rotations, or *)
(* is about to get its successor; no answer throws him out.                *)
StaysSignedIn ==
    signedIn =>
        /\ \/ refresh # NoToken /\ refresh \in live
           \/ \E r \in Request :
                pc[r] = "rotated" /\ sent[r] = refresh /\ given[r] \in live
        /\ \A r \in Request : pc[r] # "turnedAway"

(* When no request is under way, no token is live but the browser's own:   *)
(* neither rotation nor logout nor a disabled store leaves one behind.     *)
NoOrphanSession ==
    ~ orphans /\ (\A r \in Request : ~ ChangesCookies(r)) =>
        live \subseteq {refresh}

(* A call of a signed-in user is answered, by what he asked for or, when   *)
(* the limiter or the database fails, by an error; an expired access token *)
(* alone never shows.                                                      *)
CallsAnswered ==
    \A r \in Request :
        pc[r] = "asked" ~> pc[r] = "served" \/ pc[r] = "error" \/ ~ signedIn
====
