---- MODULE Sessions_proofs ----
(***************************************************************************)
(* What Sessions says of the browser's refresh token, for any number of    *)
(* requests and tokens.                                                    *)
(***************************************************************************)
EXTENDS Sessions, TLAPS

-----------------------------------------------------------------------------
(* Types *)

LEMMA InitTyped == Init => TypeOK
BY DEF Init, TypeOK, PC

LEMMA NextTyped == TypeOK /\ [Next]_vars => TypeOK'
<1> SUFFICES ASSUME TypeOK, [Next]_vars PROVE TypeOK'
  OBVIOUS
<1> DEFINE Cell == Token \cup {NoToken}
           Rest == UNCHANGED <<accountVars, jarVars>>
<1> USE DEF accountVars, jarVars, requestVars, historyVars
<1>a. ASSUME NEW r \in Request, NEW n \in PC, Goto(r, n)
      PROVE  pc' \in [Request -> PC] /\ bearer' \in [Request -> BOOLEAN]
             /\ sent' \in [Request -> Cell] /\ given' \in [Request -> Cell]
  BY <1>a DEF Goto, TypeOK
<1>b. ASSUME NEW r \in Request, NEW n \in PC, Finish(r, n)
      PROVE  pc' \in [Request -> PC] /\ bearer' \in [Request -> BOOLEAN]
             /\ sent' \in [Request -> Cell] /\ given' \in [Request -> Cell]
  BY <1>b DEF Finish, Forget, TypeOK
<1>c. ASSUME NEW r \in Request, NEW n \in PC, SendCookies(r, n)
      PROVE  /\ pc' \in [Request -> PC] /\ bearer' \in [Request -> BOOLEAN]
             /\ sent' \in [Request -> Cell] /\ given' \in [Request -> Cell]
             /\ signedIn' \in BOOLEAN /\ orphans' \in BOOLEAN
  <2>1. signedIn' \in BOOLEAN /\ orphans' \in BOOLEAN
    BY <1>c, Zenon DEF SendCookies
  <2>2. pc' = [pc EXCEPT ![r] = n] /\ sent' = [sent EXCEPT ![r] = refresh]
        /\ bearer' = bearer /\ given' = given
    BY <1>c DEF SendCookies
  <2> QED BY <2>1, <2>2 DEF TypeOK
<1>1. ASSUME NEW r \in Request, Ask(r) PROVE TypeOK'
  BY <1>1 DEF TypeOK, Ask, PC
<1>2. ASSUME NEW r \in Request, Register(r) \/ Login(r) \/ Logout(r) \/ Refresh(r) PROVE TypeOK'
  <2>1. \E n \in PC : SendCookies(r, n)
    BY <1>2 DEF Register, Login, Logout, Refresh, PC
  <2>2. UNCHANGED <<accountVars, live, jarVars>>
    BY <1>2 DEF Register, Login, Logout, Refresh
  <2> QED BY <1>c, <2>1, <2>2 DEF TypeOK
<1>3. ASSUME NEW r \in Request,
             Serve(r) \/ Forbid(r) \/ Refuse(r) \/ RefreshWithoutCookie(r) \/ LoginReads(r)
             \/ RegisterReads(r) \/ RegisterSessionFails(r) \/ Done(r)
      PROVE  TypeOK'
  <2>1. \E n \in PC : Finish(r, n) \/ Goto(r, n)
    BY <1>3 DEF Serve, Forbid, Refuse, RefreshWithoutCookie, LoginReads, RegisterReads,
                RegisterSessionFails, Done, PC
  <2>2. UNCHANGED <<accountVars, live, jarVars, historyVars>>
    BY <1>3 DEF Serve, Forbid, Refuse, RefreshWithoutCookie, LoginReads, RegisterReads,
                RegisterSessionFails, Done
  <2> QED BY <1>a, <1>b, <2>1, <2>2 DEF TypeOK
<1>4. ASSUME NEW r \in Request, RefreshReads(r) PROVE TypeOK'
  <2>1. \E n \in PC : Goto(r, n)
    BY <1>4 DEF RefreshReads, PC
  <2>2. orphans' \in BOOLEAN
    BY <1>4, Zenon DEF RefreshReads, TypeOK
  <2>3. UNCHANGED <<accountVars, live, jarVars, signedIn>>
    BY <1>4 DEF RefreshReads
  <2> QED BY <1>a, <2>1, <2>2, <2>3 DEF TypeOK
<1>5. ASSUME NEW r \in Request, RefreshMember(r) \/ LogoutRevokes(r) PROVE TypeOK'
  <2>1. (\E n \in PC : Goto(r, n)) /\ live' \subseteq live
    BY <1>5 DEF RefreshMember, LogoutRevokes, PC
  <2>2. UNCHANGED <<accountVars, jarVars, historyVars>>
    BY <1>5 DEF RefreshMember, LogoutRevokes
  <2> QED BY <1>a, <2>1, <2>2 DEF TypeOK
<1>6. ASSUME NEW r \in Request, NEW t \in Token,
             Rotate(r, t) \/ LoginGrants(r, t) \/ RegisterGrants(r, t)
      PROVE  TypeOK'
  <2>1. /\ live' \subseteq live \cup {t}
        /\ pc' = [pc EXCEPT ![r] = "rotated"] \/ pc' = [pc EXCEPT ![r] = "granted"]
        /\ given' = [given EXCEPT ![r] = t]
        /\ UNCHANGED <<user, storeActive, configured, jarVars, bearer, sent, historyVars>>
        /\ role' \in {role, "SUPER_ADMIN"}
    BY <1>6 DEF Rotate, LoginGrants, RegisterGrants
  <2> QED BY <2>1 DEF TypeOK, PC
<1>7. ASSUME NEW r \in Request, RegisterCreates(r) PROVE TypeOK'
  <2>1. \E n \in PC : Goto(r, n) \/ Finish(r, n)
    BY <1>7 DEF RegisterCreates, PC
  <2>2. user' \in {user, "ACTIVE"} /\ role' \in {role, "SUPER_ADMIN", "USER"}
    BY <1>7 DEF RegisterCreates
  <2> QED BY <1>7, <1>a, <1>b, <2>1, <2>2 DEF TypeOK, RegisterCreates
<1>8. ASSUME NEW r \in Request, ReceiveRotated(r) PROVE TypeOK'
  BY <1>8 DEF TypeOK, ReceiveRotated, PC
<1>9. ASSUME NEW r \in Request, ReceiveGranted(r) PROVE TypeOK'
  <2>1. Finish(r, "idle") /\ "idle" \in PC
    BY <1>9 DEF ReceiveGranted, PC
  <2>2. access' = TRUE /\ refresh' = given[r] /\ UNCHANGED <<accountVars, live, orphans>>
    BY <1>9 DEF ReceiveGranted
  <2>3. signedIn' \in BOOLEAN
    BY <1>9, Zenon DEF ReceiveGranted
  <2> QED BY <1>b, <2>1, <2>2, <2>3 DEF TypeOK
<1>10. ASSUME NEW r \in Request, ReceiveCleared(r) PROVE TypeOK'
  <2>1. \E n \in PC : Finish(r, n)
    BY <1>10 DEF ReceiveCleared, PC
  <2> QED BY <1>10, <1>b, <2>1 DEF TypeOK, ReceiveCleared
<1>11. ASSUME NEW r \in Request, LoseAnswer(r) PROVE TypeOK'
  <2>1. Finish(r, "error") /\ "error" \in PC
    BY <1>11 DEF LoseAnswer, PC
  <2> QED BY <1>11, <1>b, <2>1 DEF TypeOK, LoseAnswer
<1>12. CASE AccessExpires
  BY <1>12 DEF TypeOK, AccessExpires
<1>13. CASE SetUserStatus
  BY <1>13 DEF TypeOK, SetUserStatus
<1>14. CASE SetStoreStatus
  <2>1. storeActive' \in BOOLEAN /\ signedIn' \in BOOLEAN
    BY <1>14, Zenon DEF SetStoreStatus
  <2>2. UNCHANGED <<user, configured, role, live, jarVars, requestVars, orphans>>
    BY <1>14 DEF SetStoreStatus
  <2> QED BY <2>1, <2>2 DEF TypeOK
<1>15. CASE UNCHANGED vars
  BY <1>15 DEF vars, TypeOK
<1> QED
  BY <1>1, <1>2, <1>3, <1>4, <1>5, <1>6, <1>7, <1>8, <1>9, <1>10, <1>11, <1>12, <1>13, <1>14, <1>15
  DEF Next, RequestStep

(* The variables of Sessions keep their types, for any number of requests   *)
(* and tokens.                                                              *)
THEOREM SessionsTypeCorrect == Spec => []TypeOK
<1> QED BY InitTyped, NextTyped, PTL DEF Spec

-----------------------------------------------------------------------------
(* No session is left behind *)

(* What is live while a request that may change the cookies is under way.   *)
Accounts(r) ==
    /\ pc[r] \in {"refresh", "member", "rotate", "logout"} =>
         sent[r] = refresh /\ live \subseteq {refresh}
    /\ pc[r] \in {"rotated", "granted"} => given[r] \in Token /\ live = {given[r]}
    /\ pc[r] = "rotated" => sent[r] = refresh
    /\ pc[r] \in {"login", "verified", "register", "create", "open", "reopen",
                  "clearing", "turnedAway"} => live = {}

JarInv ==
    ~ orphans =>
        /\ \A r, q \in Request : ChangesCookies(r) /\ ChangesCookies(q) => r = q
        /\ \A r \in Request : Accounts(r)
        /\ (\A r \in Request : ~ ChangesCookies(r)) => live \subseteq {refresh}

(* A step of r leaves every other request where it is. *)
Alone(r) ==
    \A q \in Request \ {r} : pc'[q] = pc[q] /\ sent'[q] = sent[q] /\ given'[q] = given[q]

(* A request that may change the cookies goes on, or ends. *)
LEMMA GoesOn ==
    ASSUME TypeOK, JarInv, NEW r \in Request, Alone(r), ChangesCookies(r),
           ~ orphans' => ~ orphans /\ Accounts(r)',
           ~ orphans' /\ ~ ChangesCookies(r)' => live' \subseteq {refresh'}
    PROVE  JarInv'
<1> SUFFICES ASSUME ~ orphans'
             PROVE  /\ \A p, q \in Request : ChangesCookies(p)' /\ ChangesCookies(q)' => p = q
                    /\ \A q \in Request : Accounts(q)'
                    /\ (\A q \in Request : ~ ChangesCookies(q)') => live' \subseteq {refresh'}
  BY DEF JarInv
<1>1. \A q \in Request \ {r} : ~ ChangesCookies(q)
  BY DEF JarInv
<1>2. \A q \in Request \ {r} : ~ ChangesCookies(q)'
  BY <1>1 DEF Alone, ChangesCookies
<1>3. \A q \in Request \ {r} : Accounts(q)'
  BY <1>2 DEF Accounts, ChangesCookies
<1> QED BY <1>2, <1>3

(* A request that changes no cookies goes on. *)
LEMMA GoesBy ==
    ASSUME TypeOK, JarInv, NEW r \in Request, Alone(r),
           ~ ChangesCookies(r), ~ ChangesCookies(r)',
           UNCHANGED <<live, refresh, orphans>>
    PROVE  JarInv'
<1>1. \A q \in Request : ChangesCookies(q)' <=> ChangesCookies(q)
  BY DEF Alone, ChangesCookies
<1>2. \A q \in Request : Accounts(q) => Accounts(q)'
  BY <1>1 DEF Alone, Accounts, ChangesCookies
<1> QED BY <1>1, <1>2 DEF JarInv

(* Such a request is sent. *)
LEMMA SetsOut ==
    ASSUME TypeOK, JarInv, NEW r \in Request,
           NEW n \in {"login", "register", "logout", "refresh"}, SendCookies(r, n),
           ~ ChangesCookies(r), UNCHANGED <<live, refresh>>,
           n \in {"login", "register"} => refresh = NoToken
    PROVE  JarInv'
<1> SUFFICES ASSUME ~ orphans' PROVE JarInv'
  BY DEF JarInv
<1>1. ~ orphans /\ \A q \in Request \ {r} : ~ ChangesCookies(q)
  BY DEF SendCookies
<1>2. live \subseteq {refresh} /\ NoToken \notin live
  BY <1>1, SessionsAssumption DEF JarInv, TypeOK, Token, NoToken
<1>3. pc' = [pc EXCEPT ![r] = n] /\ sent' = [sent EXCEPT ![r] = refresh]
  BY DEF SendCookies
<1>4. \A q \in Request \ {r} : ~ ChangesCookies(q)' /\ Accounts(q)'
  BY <1>1, <1>3 DEF ChangesCookies, Accounts, TypeOK
<1>5. Accounts(r)' /\ ChangesCookies(r)'
  BY <1>2, <1>3 DEF Accounts, ChangesCookies, TypeOK
<1> QED BY <1>4, <1>5 DEF JarInv

LEMMA NextJar == TypeOK /\ JarInv /\ [Next]_vars => JarInv'
<1> SUFFICES ASSUME TypeOK, JarInv, [Next]_vars PROVE JarInv'
  OBVIOUS
<1> USE DEF accountVars, jarVars, requestVars, historyVars
<1>a. \A r \in Request : ~ orphans => Accounts(r)
  BY DEF JarInv
<1>b. ASSUME NEW r \in Request, NEW n, Goto(r, n)
      PROVE  /\ Alone(r) /\ pc'[r] = n /\ sent'[r] = sent[r] /\ given'[r] = given[r]
  BY <1>b DEF Goto, Alone, TypeOK
<1>c. ASSUME NEW r \in Request, NEW n, Finish(r, n) PROVE Alone(r) /\ pc'[r] = n
  BY <1>c DEF Finish, Forget, Alone, TypeOK
<1>1. ASSUME NEW r \in Request, Ask(r) PROVE JarInv'
  <2>1. Alone(r) /\ ~ ChangesCookies(r) /\ ~ ChangesCookies(r)'
    BY <1>1 DEF Ask, Alone, ChangesCookies, TypeOK
  <2> QED BY <1>1, <2>1, GoesBy DEF Ask
<1>2. ASSUME NEW r \in Request, Register(r) \/ Login(r) \/ Logout(r) \/ Refresh(r) PROVE JarInv'
  <2>1. ~ ChangesCookies(r) /\ UNCHANGED <<live, refresh>>
    BY <1>2 DEF Register, Login, Logout, Refresh, ChangesCookies
  <2>2. PICK n \in {"login", "register", "logout", "refresh"} :
          SendCookies(r, n) /\ (n \in {"login", "register"} => refresh = NoToken)
    BY <1>2 DEF Register, Login, Logout, Refresh
  <2> QED BY <2>1, <2>2, SetsOut
<1>3. ASSUME NEW r \in Request, Serve(r) \/ Forbid(r) \/ Done(r) PROVE JarInv'
  <2>1. \E n \in {"served", "error", "idle"} : Goto(r, n) \/ Finish(r, n)
    BY <1>3 DEF Serve, Forbid, Done
  <2>2. Alone(r) /\ pc'[r] \in {"served", "error", "idle"}
    BY <1>b, <1>c, <2>1
  <2>3. UNCHANGED <<live, refresh, orphans>> /\ ~ ChangesCookies(r)
    BY <1>3 DEF Serve, Forbid, Done, ChangesCookies
  <2>4. ~ ChangesCookies(r)'
    BY <2>2 DEF ChangesCookies
  <2> QED BY <2>2, <2>3, <2>4, GoesBy
<1>4. ASSUME NEW r \in Request, Refuse(r) \/ RefreshWithoutCookie(r) PROVE JarInv'
  <2>1. Finish(r, "error") /\ UNCHANGED <<live, refresh, orphans>>
    BY <1>4 DEF Refuse, RefreshWithoutCookie
  <2>2. pc[r] \in {"refresh", "member", "rotate", "login", "verified", "register", "create", "logout"}
    BY <1>4 DEF Refuse, RefreshWithoutCookie
  <2>3. ~ orphans => live \subseteq {refresh}
    BY <1>a, <2>2 DEF Accounts
  <2>4. Alone(r) /\ Accounts(r)' /\ ~ ChangesCookies(r)' /\ ChangesCookies(r)
    BY <1>c, <2>1, <2>2 DEF Accounts, ChangesCookies
  <2> QED BY <2>1, <2>3, <2>4, GoesOn
<1>5. ASSUME NEW r \in Request, RefreshReads(r) PROVE JarInv'
  <2>1. ChangesCookies(r) /\ UNCHANGED <<live, refresh>> /\ (~ orphans' => ~ orphans)
    BY <1>5 DEF RefreshReads, ChangesCookies
  <2>2. Alone(r) /\ ChangesCookies(r)'
    BY <1>5, <1>b DEF RefreshReads, ChangesCookies
  <2>3. CASE sent[r] \in live /\ user = "ACTIVE"
    <3>1. Goto(r, "member")
      BY <1>5, <2>3 DEF RefreshReads
    <3>2. ~ orphans' => Accounts(r)'
      BY <1>5, <1>a, <1>b, <2>1, <3>1 DEF RefreshReads, Accounts
    <3> QED BY <2>1, <2>2, <3>2, GoesOn
  <2>4. CASE ~ (sent[r] \in live /\ user = "ACTIVE")
    <3>1. Goto(r, "turnedAway") /\ (~ orphans' => sent[r] \notin live)
      BY <1>5, <2>4 DEF RefreshReads
    <3>2. ~ orphans' => live = {}
      BY <1>5, <1>a, <2>1, <3>1 DEF RefreshReads, Accounts
    <3>3. ~ orphans' => Accounts(r)'
      BY <1>b, <2>1, <3>1, <3>2 DEF Accounts
    <3> QED BY <2>1, <2>2, <3>3, GoesOn
  <2> QED BY <2>3, <2>4
<1>6. ASSUME NEW r \in Request, RefreshMember(r) PROVE JarInv'
  <2>1. ChangesCookies(r) /\ UNCHANGED <<refresh, orphans>> /\ (Goto(r, "rotate") \/ Goto(r, "turnedAway"))
    BY <1>6 DEF RefreshMember, ChangesCookies
  <2>2. Alone(r) /\ ChangesCookies(r)'
    BY <1>b, <2>1 DEF ChangesCookies
  <2>3. ~ orphans' => Accounts(r)'
    BY <1>6, <1>a, <1>b DEF RefreshMember, Accounts
  <2> QED BY <2>1, <2>2, <2>3, GoesOn
<1>7. ASSUME NEW r \in Request, NEW t \in Token, Rotate(r, t) PROVE JarInv'
  <2>1. Alone(r) /\ pc'[r] = "rotated" /\ given'[r] = t /\ sent'[r] = sent[r] /\ UNCHANGED <<refresh, orphans>>
    BY <1>7 DEF Rotate, Alone, TypeOK
  <2>2. ChangesCookies(r) /\ ChangesCookies(r)'
    BY <1>7, <2>1 DEF Rotate, ChangesCookies
  <2>3. ~ orphans => sent[r] = refresh /\ live' = {t}
    BY <1>7, <1>a DEF Rotate, Accounts
  <2>4. ~ orphans' => Accounts(r)'
    BY <2>1, <2>3 DEF Accounts
  <2> QED BY <2>1, <2>2, <2>4, GoesOn
<1>8. ASSUME NEW r \in Request, NEW t \in Token, LoginGrants(r, t) \/ RegisterGrants(r, t)
      PROVE  JarInv'
  <2>1. Alone(r) /\ pc'[r] = "granted" /\ given'[r] = t /\ UNCHANGED <<refresh, orphans>>
    BY <1>8 DEF LoginGrants, RegisterGrants, Alone, TypeOK
  <2>2. ChangesCookies(r) /\ ChangesCookies(r)'
    BY <1>8, <2>1 DEF LoginGrants, RegisterGrants, ChangesCookies
  <2>3. ~ orphans => live' = {t}
    BY <1>8, <1>a DEF LoginGrants, RegisterGrants, Accounts
  <2>4. ~ orphans' => Accounts(r)'
    BY <2>1, <2>3 DEF Accounts
  <2> QED BY <2>1, <2>2, <2>4, GoesOn
<1>9. ASSUME NEW r \in Request,
             LoginReads(r) \/ RegisterReads(r) \/ RegisterCreates(r) \/ RegisterSessionFails(r)
      PROVE  JarInv'
  <2>1. UNCHANGED <<live, refresh, orphans>>
    BY <1>9 DEF LoginReads, RegisterReads, RegisterCreates, RegisterSessionFails
  <2>2. pc[r] \in {"login", "register", "create", "open", "reopen"}
    BY <1>9 DEF LoginReads, RegisterReads, RegisterCreates, RegisterSessionFails
  <2>3. \E n \in {"verified", "create", "open", "reopen", "error"} : Goto(r, n) \/ Finish(r, n)
    BY <1>9 DEF LoginReads, RegisterReads, RegisterCreates, RegisterSessionFails
  <2>4. Alone(r) /\ pc'[r] \in {"verified", "create", "open", "reopen", "error"}
    BY <1>b, <1>c, <2>3
  <2>5. ChangesCookies(r) /\ (~ orphans => live = {})
    BY <1>a, <2>2 DEF Accounts, ChangesCookies
  <2>6. ~ orphans' => Accounts(r)'
    BY <2>1, <2>4, <2>5 DEF Accounts
  <2> QED BY <2>1, <2>4, <2>5, <2>6, GoesOn
<1>10. ASSUME NEW r \in Request, LogoutRevokes(r) PROVE JarInv'
  <2>1. Goto(r, "clearing") /\ UNCHANGED <<refresh, orphans>> /\ pc[r] = "logout"
    BY <1>10 DEF LogoutRevokes
  <2>2. ~ orphans => live' = {}
    BY <1>10, <1>a, <2>1 DEF LogoutRevokes, Accounts
  <2>3. Alone(r) /\ ChangesCookies(r) /\ ChangesCookies(r)' /\ (~ orphans' => Accounts(r)')
    BY <1>b, <2>1, <2>2 DEF Accounts, ChangesCookies
  <2> QED BY <2>1, <2>3, GoesOn
<1>11. ASSUME NEW r \in Request, ReceiveRotated(r) \/ ReceiveGranted(r) PROVE JarInv'
  <2>1. /\ Alone(r) /\ pc'[r] \in {"again", "idle"}
        /\ refresh' = given[r] /\ live' = live /\ orphans' = orphans
    BY <1>11 DEF ReceiveRotated, ReceiveGranted, Finish, Forget, Alone, TypeOK
  <2>2. ChangesCookies(r) /\ (~ orphans => live = {given[r]})
    BY <1>11, <1>a DEF ReceiveRotated, ReceiveGranted, ChangesCookies, Accounts
  <2>3. Accounts(r)'
    BY <2>1 DEF Accounts
  <2> QED BY <2>1, <2>2, <2>3, GoesOn
<1>12. ASSUME NEW r \in Request, ReceiveCleared(r) PROVE JarInv'
  <2>1. /\ Alone(r) /\ pc'[r] \in {"error", "idle"} /\ live' = live /\ orphans' = orphans
    BY <1>12 DEF ReceiveCleared, Finish, Forget, Alone, TypeOK
  <2>2. ChangesCookies(r) /\ (~ orphans => live = {})
    BY <1>12, <1>a DEF ReceiveCleared, ChangesCookies, Accounts
  <2>3. Accounts(r)'
    BY <2>1 DEF Accounts
  <2> QED BY <2>1, <2>2, <2>3, GoesOn
<1>13. ASSUME NEW r \in Request, LoseAnswer(r) PROVE JarInv'
  BY <1>13 DEF LoseAnswer, JarInv
<1>14. CASE AccessExpires \/ SetUserStatus \/ SetStoreStatus
  BY <1>14 DEF AccessExpires, SetUserStatus, SetStoreStatus, JarInv, Accounts, ChangesCookies
<1>15. CASE UNCHANGED vars
  BY <1>15 DEF vars, JarInv, Accounts, ChangesCookies
<1> QED
  BY <1>1, <1>2, <1>3, <1>4, <1>5, <1>6, <1>7, <1>8, <1>9, <1>10, <1>11, <1>12, <1>13, <1>14, <1>15
  DEF Next, RequestStep

LEMMA InitJar == Init => JarInv
BY DEF Init, JarInv, Accounts, ChangesCookies

(* For any number of requests: when none is under way and none overlapped   *)
(* or lost its answer, no token is live but the browser's own.              *)
THEOREM NoSessionIsOrphaned == Spec => []NoOrphanSession
<1>1. JarInv => NoOrphanSession
  BY DEF JarInv, NoOrphanSession
<1> QED BY <1>1, InitJar, NextJar, SessionsTypeCorrect, PTL DEF Spec

-----------------------------------------------------------------------------
(* Nobody is thrown out *)

SignedInv ==
    signedIn =>
        /\ ~ orphans /\ user = "ACTIVE" /\ storeActive /\ refresh # NoToken
        /\ \A r \in Request :
             ChangesCookies(r) => pc[r] \in {"refresh", "member", "rotate", "rotated"}
        /\ (\A r \in Request : pc[r] # "rotated") => refresh \in live

(* What the invariant says once the user is still signed in. *)
LEMMA SignedTo ==
    ASSUME TypeOK, JarInv, SignedInv, signedIn' => signedIn, UNCHANGED <<user, storeActive, orphans>>,
           signedIn' => refresh' # NoToken,
           NEW r \in Request, Alone(r),
           signedIn' /\ ChangesCookies(r)' => pc'[r] \in {"refresh", "member", "rotate", "rotated"},
           signedIn' /\ pc'[r] # "rotated" /\ (\A q \in Request \ {r} : pc[q] # "rotated") => refresh' \in live'
    PROVE  SignedInv'
<1> SUFFICES ASSUME signedIn'
             PROVE  /\ ~ orphans' /\ user' = "ACTIVE" /\ storeActive' /\ refresh' # NoToken
                    /\ \A q \in Request :
                         ChangesCookies(q)' => pc'[q] \in {"refresh", "member", "rotate", "rotated"}
                    /\ (\A q \in Request : pc'[q] # "rotated") => refresh' \in live'
  BY DEF SignedInv
<1>1. ~ orphans' /\ user' = "ACTIVE" /\ storeActive'
  BY DEF SignedInv
<1>2. \A q \in Request \ {r} :
         ChangesCookies(q)' => pc'[q] \in {"refresh", "member", "rotate", "rotated"}
  BY DEF SignedInv, Alone, ChangesCookies
<1>3. (\A q \in Request : pc'[q] # "rotated") => refresh' \in live'
  BY DEF Alone
<1> QED BY <1>1, <1>2, <1>3

LEMMA NextSigned == TypeOK /\ JarInv /\ SignedInv /\ [Next]_vars => SignedInv'
<1> SUFFICES ASSUME TypeOK, JarInv, SignedInv, [Next]_vars PROVE SignedInv'
  OBVIOUS
<1> USE DEF accountVars, jarVars, requestVars, historyVars
<1> DEFINE Going == {"refresh", "member", "rotate", "rotated"}
<1>a. \A r \in Request : ~ orphans => Accounts(r)
  BY DEF JarInv
<1>b. ASSUME NEW r \in Request, NEW n, Goto(r, n) \/ Finish(r, n) PROVE Alone(r) /\ pc'[r] = n
  BY <1>b DEF Goto, Finish, Forget, Alone, TypeOK
<1>c. ASSUME NEW r \in Request, ~ ChangesCookies(r) \/ pc[r] # "rotated", signedIn,
             \A q \in Request \ {r} : pc[q] # "rotated"
      PROVE  refresh \in live
  BY <1>c DEF SignedInv, ChangesCookies
<1>d. \A r \in Request : signedIn /\ ChangesCookies(r) => pc[r] \in Going
  BY DEF SignedInv
<1>1. ASSUME NEW r \in Request, Ask(r) PROVE SignedInv'
  <2>1. Alone(r) /\ pc'[r] = "asked" /\ pc[r] = "idle" /\ UNCHANGED <<user, storeActive, live, refresh, historyVars>>
    BY <1>1 DEF Ask, Alone, TypeOK
  <2>2. (~ ChangesCookies(r) /\ ~ ChangesCookies(r)' /\ refresh # NoToken) \/ ~ signedIn
    BY <2>1 DEF ChangesCookies, SignedInv
  <2> QED BY <1>c, <2>1, <2>2, SignedTo
<1>2. ASSUME NEW r \in Request, Register(r) \/ Login(r) \/ Logout(r) PROVE SignedInv'
  <2>1. ~ signedIn'
    BY <1>2 DEF Register, Login, Logout, SendCookies, SignedInv
  <2> QED BY <2>1 DEF SignedInv
<1>3. ASSUME NEW r \in Request, Refresh(r) PROVE SignedInv'
  <2>1. /\ Alone(r) /\ pc'[r] = "refresh" /\ pc[r] = "asked"
        /\ UNCHANGED <<user, storeActive, live, refresh>>
        /\ signedIn' => signedIn /\ orphans' = orphans
    BY <1>3 DEF Refresh, SendCookies, Alone, TypeOK
  <2>2. CASE ~ signedIn'
    BY <2>2 DEF SignedInv
  <2>3. CASE signedIn'
    <3>1. ~ ChangesCookies(r) /\ refresh # NoToken
      BY <2>1, <2>3 DEF ChangesCookies, SignedInv
    <3> QED BY <1>c, <2>1, <2>3, <3>1, SignedTo
  <2> QED BY <2>2, <2>3
<1>4. ASSUME NEW r \in Request,
             Serve(r) \/ Forbid(r) \/ Done(r) \/ Refuse(r) \/ RefreshWithoutCookie(r)
      PROVE  SignedInv'
  <2>1. \E n \in {"served", "error", "idle"} : Goto(r, n) \/ Finish(r, n)
    BY <1>4 DEF Serve, Forbid, Done, Refuse, RefreshWithoutCookie
  <2>2. Alone(r) /\ pc'[r] \in {"served", "error", "idle"}
    BY <1>b, <2>1
  <2>3. UNCHANGED <<user, storeActive, live, refresh, historyVars>> /\ pc[r] # "rotated"
    BY <1>4 DEF Serve, Forbid, Done, Refuse, RefreshWithoutCookie
  <2>4. ~ ChangesCookies(r)'
    BY <2>2 DEF ChangesCookies
  <2>5. signedIn => refresh # NoToken
    BY DEF SignedInv
  <2> QED BY <1>c, <2>2, <2>3, <2>4, <2>5, SignedTo
<1>5. ASSUME NEW r \in Request, RefreshReads(r) PROVE SignedInv'
  <2>1. UNCHANGED <<user, storeActive, live, refresh, signedIn>> /\ pc[r] = "refresh"
    BY <1>5 DEF RefreshReads
  <2>2. CASE ~ signedIn
    BY <2>1, <2>2 DEF SignedInv
  <2>3. CASE signedIn
    <3>1. sent[r] = refresh /\ refresh # NoToken /\ user = "ACTIVE"
      BY <1>a, <2>1, <2>3 DEF SignedInv, Accounts
    <3>2. \A q \in Request \ {r} : ~ ChangesCookies(q)
      BY <2>1, <2>3 DEF SignedInv, JarInv, ChangesCookies
    <3>3. refresh \in live
      BY <2>1, <2>3, <3>2 DEF SignedInv, ChangesCookies
    <3>4. Goto(r, "member") /\ orphans' = orphans
      BY <1>5, <3>1, <3>3 DEF RefreshReads
    <3>5. Alone(r) /\ pc'[r] = "member"
      BY <1>b, <3>4
    <3> QED BY <2>1, <3>1, <3>3, <3>4, <3>5, SignedTo
  <2> QED BY <2>2, <2>3
<1>6. ASSUME NEW r \in Request, RefreshMember(r) PROVE SignedInv'
  <2>1. UNCHANGED <<user, storeActive, refresh, signedIn, orphans>> /\ pc[r] = "member"
    BY <1>6 DEF RefreshMember
  <2>2. CASE ~ signedIn
    BY <2>1, <2>2 DEF SignedInv
  <2>3. CASE signedIn
    <3>1. Goto(r, "rotate") /\ live' = live /\ refresh # NoToken
      BY <1>6, <2>3 DEF RefreshMember, SignedInv
    <3>2. Alone(r) /\ pc'[r] = "rotate"
      BY <1>b, <3>1
    <3> QED BY <1>c, <2>1, <2>3, <3>1, <3>2, SignedTo
  <2> QED BY <2>2, <2>3
<1>7. ASSUME NEW r \in Request, NEW t \in Token, Rotate(r, t) PROVE SignedInv'
  <2>1. Alone(r) /\ pc'[r] = "rotated" /\ UNCHANGED <<user, storeActive, refresh, historyVars>>
    BY <1>7 DEF Rotate, Alone, TypeOK
  <2>2. signedIn => refresh # NoToken
    BY DEF SignedInv
  <2> QED BY <2>1, <2>2, SignedTo
<1>8. ASSUME NEW r \in Request,
             LoginReads(r) \/ RegisterReads(r) \/ RegisterCreates(r) \/ RegisterSessionFails(r)
             \/ LogoutRevokes(r) \/ ReceiveCleared(r)
             \/ \E t \in Token : LoginGrants(r, t) \/ RegisterGrants(r, t)
      PROVE  SignedInv'
  <2>1. ChangesCookies(r) /\ pc[r] \notin Going /\ signedIn' = signedIn
    BY <1>8 DEF LoginReads, RegisterReads, RegisterCreates, RegisterSessionFails, LogoutRevokes,
                ReceiveCleared, LoginGrants, RegisterGrants, ChangesCookies
  <2>2. ~ signedIn
    BY <1>d, <2>1
  <2> QED BY <2>1, <2>2 DEF SignedInv
<1>9. ASSUME NEW r \in Request, ReceiveRotated(r) PROVE SignedInv'
  <2>1. /\ Alone(r) /\ pc'[r] = "again" /\ refresh' = given[r]
        /\ UNCHANGED <<user, storeActive, live, historyVars>> /\ pc[r] = "rotated"
    BY <1>9 DEF ReceiveRotated, Alone, TypeOK
  <2>2. signedIn => given[r] \in live /\ given[r] \in Token
    BY <1>a, <2>1 DEF SignedInv, Accounts
  <2>3. signedIn => refresh' # NoToken /\ refresh' \in live'
    BY <2>1, <2>2, SessionsAssumption DEF Token, NoToken
  <2>4. ~ ChangesCookies(r)'
    BY <2>1 DEF ChangesCookies
  <2> QED BY <2>1, <2>3, <2>4, SignedTo
<1>10. ASSUME NEW r \in Request, ReceiveGranted(r) PROVE SignedInv'
  <2>1. /\ Alone(r) /\ pc'[r] = "idle" /\ refresh' = given[r] /\ pc[r] = "granted"
        /\ UNCHANGED <<user, storeActive, live, orphans>>
        /\ signedIn' => user = "ACTIVE" /\ storeActive /\ ~ orphans
    BY <1>10 DEF ReceiveGranted, Finish, Forget, Alone, TypeOK
  <2>2. CASE ~ signedIn'
    BY <2>2 DEF SignedInv
  <2>3. CASE signedIn'
    <3>1. given[r] \in live /\ given[r] \in Token
      BY <1>a, <2>1, <2>3 DEF Accounts
    <3>2. refresh' # NoToken /\ refresh' \in live'
      BY <2>1, <3>1, SessionsAssumption DEF Token, NoToken
    <3>3. \A q \in Request \ {r} : ~ ChangesCookies(q)
      BY <2>1, <2>3 DEF JarInv, ChangesCookies
    <3>4. \A q \in Request : ~ ChangesCookies(q)'
      BY <2>1, <3>3 DEF Alone, ChangesCookies
    <3> QED BY <2>1, <2>3, <3>2, <3>4 DEF SignedInv
  <2> QED BY <2>2, <2>3
<1>11. ASSUME NEW r \in Request, LoseAnswer(r) PROVE SignedInv'
  BY <1>11 DEF LoseAnswer, SignedInv
<1>12. CASE AccessExpires
  BY <1>12 DEF AccessExpires, SignedInv, ChangesCookies
<1>13. CASE SetUserStatus \/ SetStoreStatus
  BY <1>13 DEF SetUserStatus, SetStoreStatus, SignedInv
<1>14. CASE UNCHANGED vars
  BY <1>14 DEF vars, SignedInv, ChangesCookies
<1> QED
  BY <1>1, <1>2, <1>3, <1>4, <1>5, <1>6, <1>7, <1>8, <1>9, <1>10, <1>11, <1>12, <1>13, <1>14
  DEF Next, RequestStep

(* For any number of requests and tokens: a user whose requests did not     *)
(* overlap holds a live token, or its successor is on the way, and no       *)
(* answer throws him out.                                                   *)
THEOREM NobodyIsThrownOut == Spec => []StaysSignedIn
<1>1. TypeOK /\ JarInv /\ SignedInv => StaysSignedIn
  <2> SUFFICES ASSUME TypeOK, JarInv, SignedInv, signedIn PROVE StaysSignedIn
    BY DEF StaysSignedIn
  <2>1. \A r \in Request : pc[r] # "turnedAway"
    BY DEF SignedInv, ChangesCookies
  <2>2. CASE \A r \in Request : pc[r] # "rotated"
    BY <2>1, <2>2 DEF SignedInv, StaysSignedIn
  <2>3. ASSUME NEW r \in Request, pc[r] = "rotated" PROVE StaysSignedIn
    <3>1. sent[r] = refresh /\ given[r] \in live
      BY <2>3 DEF SignedInv, JarInv, Accounts
    <3> QED BY <2>1, <2>3, <3>1 DEF StaysSignedIn
  <2> QED BY <2>2, <2>3
<1>2. Init => SignedInv
  BY DEF Init, SignedInv
<1> QED BY <1>1, <1>2, InitJar, NextJar, NextSigned, SessionsTypeCorrect, PTL DEF Spec
====
