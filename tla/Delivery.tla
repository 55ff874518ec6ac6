---- MODULE Delivery ----
(***************************************************************************)
(* dispatchOutbound for the Graph API channels (services/messaging.ts) and  *)
(* the credentials it works with. An Instagram account can be reached in    *)
(* two ways: through its own login, or through the page it is linked to.    *)
(* Three writers fill in the same channel row, each in its own shape, and   *)
(* the sender tries what the row holds until the Graph API accepts one.     *)
(*                                                                         *)
(* The account has one id here. Where Instagram's login names another id    *)
(* than the page does, the two ways have a row each (see Channels).         *)
(***************************************************************************)
EXTENDS Integers

CONSTANTS
    Types,      \* the channel types followed
    MaxTokens,  \* bound: tokens issued for each way
    MaxChanges  \* bound: how often the row is written or a token expires; no
                \* writer reads the row when none may write it any more

ASSUME DeliveryAssumption ==
    /\ Types \subseteq {"FACEBOOK", "INSTAGRAM", "WHATSAPP_CLOUD"}
    /\ MaxTokens \in Nat \ {0} /\ MaxChanges \in Nat

VARIABLES
    type,    \* Channel.type
    cred,    \* what the row's credentials and ids tell the sender
    issued,  \* how many tokens were issued for each way
    dead,    \* tokens the Graph API does not accept any more
    changes, \* how often that happened
    seen,    \* the row as the repair of the linked page has read it
    looked,  \* the row as the save of a login has read it
    held,    \* the row as the run has read it
    todo,    \* what the sender has still to try
    glitch,  \* a request failed that the Graph API would have accepted
    copies,  \* history: messages the Graph API took
    lost     \* history: of those, how many the server never learned of

rowVars == <<type, cred, issued, dead, changes, seen, looked>>
sendVars == <<held, todo, glitch, copies, lost>>
deliveryVars == <<rowVars, sendVars>>

Way == {"login", "page", "cloud"}
Token == Way \X (1..MaxTokens)

(* A field of the credentials is a set: empty, or with the one value.       *)
Row == [token: SUBSET Token, login: SUBSET Token, page: SUBSET Token, pageId: SUBSET {"page"},
        host: SUBSET {"instagram", "facebook"}, business: SUBSET {"account", "page"}]

NoCred == [token |-> {}, login |-> {}, page |-> {}, pageId |-> {}, host |-> {}, business |-> {}]

(* a ?? b *)
Or(a, b) == IF a # {} THEN a ELSE b
When(condition, a) == IF condition THEN a ELSE {}

(* The rows the writers leave behind. accessToken is token, and             *)
(* instagramAccessToken and facebookPageAccessToken are login and page.     *)
LoggedIn(c, t) ==
    [c EXCEPT !.token = {t}, !.login = {t}, !.host = {"instagram"}, !.business = {"account"}]

Linked(t) ==
    [token |-> {t}, login |-> {}, page |-> {t}, pageId |-> {"page"},
     host |-> {"facebook"}, business |-> {"page"}]

Plain(t) == [NoCred EXCEPT !.token = {t}]

(* upsertLinkedInstagram adds the page to what the row had.                 *)
Discovered(c, t) ==
    [token |-> Or(c.token, {t}),
     login |-> Or(c.login, When(c.host # {"facebook"}, c.token)),
     page |-> {t}, pageId |-> {"page"}, host |-> Or(c.host, {"facebook"}), business |-> {"page"}]

-----------------------------------------------------------------------------
(* What the sender tries. The order of its attempts makes no difference     *)
(* here, so they are a set.                                                 *)
Connections(c) ==
    (Or(c.host, IF c.pageId # {} THEN {"facebook"} ELSE {"instagram"})
        \X (IF c.host = {"facebook"} THEN Or(c.page, c.token) ELSE Or(c.login, c.token)))
    \cup ({"instagram"} \X Or(c.login, When(c.pageId = {}, c.token)))
    \cup ({"facebook"} \X Or(c.page, When(c.pageId # {}, c.token)))

(* Mistake: the page's own id is not among the senders.                     *)
SendersWithoutPage(c, host) ==
    IF host = "facebook" THEN c.business \cup {"account"} ELSE {"account", "me"}

Senders(c, host) ==
    IF host = "facebook" THEN c.pageId \cup c.business \cup {"account"} ELSE {"account", "me"}

Candidates(c) ==
    CASE type = "INSTAGRAM" ->
           UNION {{k[1]} \X {k[2]} \X Senders(c, k[1]) : k \in Connections(c)}
      [] type = "FACEBOOK" -> {"facebook"} \X c.token \X {"page"}
      [] type = "WHATSAPP_CLOUD" -> {"facebook"} \X c.token \X {"phone"}

(* What the Graph API accepts: a token that is alive, at its host, for an   *)
(* id it stands for.                                                        *)
Accepts(k) ==
    /\ k[2] \notin dead
    /\ \/ k[1] = "instagram" /\ k[2][1] = "login" /\ k[3] \in {"account", "me"}
       \/ k[1] = "facebook" /\ <<k[2][1], k[3]>> \in {<<"page", "page">>, <<"cloud", "phone">>}

(* The row holds a token by which the channel can be reached.               *)
Usable(c) ==
    (IF type = "INSTAGRAM" THEN c.login \cup c.page ELSE c.token) \ dead # {}

-----------------------------------------------------------------------------
DeliveryInit ==
    /\ type \in Types
    /\ cred \in CASE type = "INSTAGRAM" ->
                       {LoggedIn(NoCred, <<"login", 1>>), Linked(<<"page", 1>>)}
                  [] type = "FACEBOOK" -> {Plain(<<"page", 1>>)}
                  [] type = "WHATSAPP_CLOUD" -> {Plain(<<"cloud", 1>>)}
    /\ issued = [w \in Way |-> IF cred.token = {<<w, 1>>} THEN 1 ELSE 0]
    /\ dead = {} /\ changes = 0 /\ seen = NoCred /\ looked = NoCred
    /\ held = NoCred /\ todo = {} /\ glitch = FALSE
    /\ copies = 0 /\ lost = 0

Change == changes < MaxChanges /\ changes' = changes + 1

(* A merchant connects the channel again. The save of the account's login   *)
(* looks its row up ...                                                     *)
LoginReads ==
    /\ type = "INSTAGRAM" /\ looked = NoCred /\ changes < MaxChanges
    /\ looked' = cred
    /\ UNCHANGED <<type, cred, issued, dead, changes, seen, sendVars>>

(* ... and writes it with the new token, over what it has read.             *)
LoginWrites ==
    /\ Change /\ looked # NoCred /\ issued["login"] < MaxTokens
    /\ issued' = [issued EXCEPT !["login"] = @ + 1]
    /\ cred' = LoggedIn(looked, <<"login", issued'["login"]>>)
    /\ looked' = NoCred
    /\ UNCHANGED <<type, dead, seen, sendVars>>

(* The page's login and the form for WhatsApp write the row anew, whatever  *)
(* was there.                                                               *)
Connects(w) ==
    /\ Change /\ issued[w] < MaxTokens
    /\ issued' = [issued EXCEPT ![w] = @ + 1]
    /\ LET t == <<w, issued'[w]>>
       IN  \/ type = "INSTAGRAM" /\ w = "page" /\ cred' = Linked(t)
           \/ type = "FACEBOOK" /\ w = "page" /\ cred' = Plain(t)
           \/ type = "WHATSAPP_CLOUD" /\ w = "cloud" /\ cred' = Plain(t)
    /\ UNCHANGED <<type, dead, seen, looked, sendVars>>

(* The periodic repair of the page finds the Instagram account linked to it *)
(* and reads its row ...                                                    *)
RepairReads ==
    /\ type = "INSTAGRAM" /\ seen = NoCred /\ changes < MaxChanges
    /\ seen' = cred
    /\ UNCHANGED <<type, cred, issued, dead, changes, looked, sendVars>>

(* ... and writes it with the page's token, which has just been accepted.   *)
RepairWrites(t) ==
    /\ Change /\ seen # NoCred
    /\ t[1] = "page" /\ t \notin dead /\ t[2] <= issued["page"] + 1
    /\ cred' = Discovered(seen, t)
    /\ issued' = [issued EXCEPT !["page"] = IF t[2] > @ THEN t[2] ELSE @]
    /\ seen' = NoCred
    /\ UNCHANGED <<type, dead, looked, sendVars>>

Dies(t) ==
    /\ Change
    /\ t \notin dead /\ t[2] <= issued[t[1]]
    /\ dead' = dead \cup {t}
    /\ UNCHANGED <<type, cred, issued, seen, looked, sendVars>>

RowStep ==
    \/ \E w \in Way : Connects(w)
    \/ LoginReads \/ LoginWrites \/ RepairReads
    \/ \E t \in Token : RepairWrites(t) \/ Dies(t)

DeliveryTypeOK ==
    /\ type \in Types
    /\ {cred, seen, looked, held} \subseteq Row
    /\ issued \in [Way -> 0..MaxTokens] /\ dead \subseteq Token
    /\ changes \in 0..MaxChanges
    /\ todo \subseteq {"instagram", "facebook"} \X Token \X {"account", "page", "me", "phone"}
    /\ glitch \in BOOLEAN /\ copies \in Nat /\ lost \in Nat
====
