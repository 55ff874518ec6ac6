------------------------------ MODULE Channels ------------------------------
(***************************************************************************)
(* The channel rows of the stores: how a consent link (OAuth) or the form  *)
(* for WhatsApp Cloud creates or updates them, how the merchant disconnects *)
(* one, and the three background writers that set their status: the repair *)
(* of server.ts, the Instagram poller and the merchant's repair button.    *)
(* None of them holds a lock: each reads rows, waits for Meta, and writes, *)
(* and any number of repairs may be under way at a time.                   *)
(* Rows keep what decides who owns a channel; credentials, names,          *)
(* lastError and the timestamps are left out.                              *)
(***************************************************************************)
EXTENDS Naturals, FiniteSets, Sequences

CONSTANTS
  Store,       \* the merchants' stores
  Flow,        \* consent links and WhatsApp Cloud forms handed out
  Kinds,       \* which of "meta", "instagram", "cloud" are used
  LinkedTo,    \* Instagram accounts the Facebook page may be linked with
  ProfileId,   \* the id Instagram Login answers for the account "user"
  MaxRows,     \* bound on the channel rows
  MaxLinks     \* bound on the pages whose Instagram account is being linked

ASSUME ChannelsAssumption ==
  /\ MaxRows \in Nat /\ MaxLinks \in Nat
  /\ Kinds \subseteq {"meta", "instagram", "cloud"}

RowId == 1 .. MaxRows
NoRow == [type |-> "none"]
Status == {"CONNECTED", "ERROR", "DISCONNECTED"}
Account == LinkedTo \cup {"page", "user", ProfileId, "phone"}

VARIABLES
  rows,        \* the Channel table
  flow,        \* where each consent link is
  nonces,      \* links whose nonce is still in Redis
  used,        \* how often each link was redeemed (capped at 2)
  inHand,      \* rows some background loop has read and not written yet
  linking      \* Instagram accounts the loops are about to link with a page

vars == <<rows, flow, nonces, used, inHand, linking>>

\* What a link is about to write: the row's identity, and whether an existing
\* row is looked for by the business id as well.
Target(type, acct, biz, wide) ==
  [type |-> type, acct |-> acct, biz |-> biz, wide |-> wide]
Page == Target("FACEBOOK", "page", "none", FALSE)
PageInstagram(a) == Target("INSTAGRAM", a, "page", FALSE)
DirectInstagram == Target("INSTAGRAM", ProfileId, "user", TRUE)
CloudNumber == Target("WHATSAPP_CLOUD", "phone", "waba", FALSE)
RepairInstagram(a) == Target("INSTAGRAM", a, "page", TRUE)

Targets(kind) ==
  CASE kind = "meta" -> {<<Page>>} \cup {<<Page, PageInstagram(a)>> : a \in LinkedTo}
    [] kind = "instagram" -> {<<DirectInstagram>>}
    [] kind = "cloud" -> {<<CloudNumber>>}

Used == {r \in RowId : rows[r] # NoRow}
OfType(type) == {r \in Used : rows[r].type = type}
Live(type) == {r \in OfType(type) : rows[r].status # "DISCONNECTED"}

Matches(t) ==
  {r \in OfType(t.type) : rows[r].acct = t.acct \/ (t.wide /\ rows[r].biz = t.biz)}

\* Mistakes the properties must notice stand before the definition they would
\* replace: here, a table without the unique index.
TakenNever(t, old) == FALSE

\* The unique index on type and account: another row already has the pair.
Taken(t, old) == {r \in OfType(t.type) \ old : rows[r].acct = t.acct} # {}

\* What the save leaves in the row, whoever's it was.
RowFor(t, s) ==
  [type |-> t.type, acct |-> t.acct, biz |-> t.biz, store |-> s, status |-> "CONNECTED"]

\* Updates the row that was found, or creates one.
Upsert(t, s, old) ==
  IF old # {}
  THEN [r \in RowId |-> IF r \in old THEN RowFor(t, s) ELSE rows[r]]
  ELSE [rows EXCEPT ![CHOOSE r \in RowId \ Used : TRUE] = RowFor(t, s)]

\* Bound: a row is created only while there is room for it.
Room(old) == old # {} \/ Used # RowId

Marked(r, status) == [rows EXCEPT ![r].status = status]

-----------------------------------------------------------------------------
Idle == [at |-> "new", kind |-> "none", store |-> "none", left |-> <<>>, old |-> {}]

Done == [Idle EXCEPT !.at = "done"]

Init ==
  /\ rows = [r \in RowId |-> NoRow]
  /\ flow = [f \in Flow |-> Idle]
  /\ nonces = {}
  /\ used = [f \in Flow |-> 0]
  /\ inHand = {}
  /\ linking = {}

Background == <<inHand, linking>>

\* An administrator asks for a consent page: a nonce goes to Redis (newState).
Start(f, kind, s) ==
  /\ flow[f].at = "new" /\ kind \in Kinds \cap {"meta", "instagram"}
  /\ flow' = [flow EXCEPT ![f].at = "consent", ![f].kind = kind, ![f].store = s]
  /\ nonces' = nonces \cup {f}
  /\ UNCHANGED <<rows, used, Background>>

\* Redis forgets the nonce ten minutes later.
NonceExpires(f) ==
  /\ f \in nonces
  /\ nonces' = nonces \ {f}
  /\ UNCHANGED <<rows, flow, used, Background>>

\* Mistake: GET instead of GETDEL.
NoncesKept(f) == nonces

\* The nonces left when a callback has taken the one of f (GETDEL).
NoncesAfter(f) == nonces \ {f}

\* The browser calls back, for the first time or again. The nonce is taken
\* whether or not the merchant consented; without it the answer is 401.
Callback(f) ==
  /\ flow[f].at \in {"consent", "done"} /\ f \in nonces
  /\ nonces' = NoncesAfter(f)
  /\ used' = [used EXCEPT ![f] = IF @ < 2 THEN @ + 1 ELSE @]
  /\ flow' = [flow EXCEPT ![f].at = "redeemed"]
  /\ UNCHANGED <<rows, Background>>

\* authorizeState reads the membership next: a revoked one is answered 403, a
\* denied consent or a missing code redirects, and Meta may refuse the code,
\* the long token or the pages. Otherwise the rows to write are known.
Refused(f) ==
  /\ flow[f].at = "redeemed"
  /\ flow' = [flow EXCEPT ![f] = Done]
  /\ UNCHANGED <<rows, nonces, used, Background>>

Exchanged(f) ==
  /\ flow[f].at = "redeemed"
  /\ \E left \in Targets(flow[f].kind) :
       flow' = [flow EXCEPT ![f].at = "find", ![f].left = left]
  /\ UNCHANGED <<rows, nonces, used, Background>>

\* The WhatsApp Cloud form needs no consent: it goes to the lookup directly.
CloudForm(f, s) ==
  /\ flow[f].at = "new" /\ "cloud" \in Kinds
  /\ flow' = [flow EXCEPT ![f] =
       [at |-> "find", kind |-> "cloud", store |-> s, left |-> <<CloudNumber>>,
        old |-> {}]]
  /\ UNCHANGED <<rows, nonces, used, Background>>

\* Mistake: the lookup of an existing row forgets the store.
ForeignNever(found, s) == {}

\* The rows a store may not take over: those of another store.
Foreign(found, s) == {r \in found : rows[r].store # s}

\* The row of the account is looked up; one of another store is a 409.
Find(f) ==
  /\ flow[f].at = "find"
  /\ LET found == Matches(Head(flow[f].left)) IN
       \E old \in IF found = {} THEN {{}} ELSE {{r} : r \in found} :
         flow' = IF Foreign(old, flow[f].store) # {}
                 THEN [flow EXCEPT ![f].at = "done"]
                 ELSE [flow EXCEPT ![f].at = "write", ![f].old = old]
  /\ UNCHANGED <<rows, nonces, used, Background>>

\* It is updated or created. The unique index refuses a row that another
\* request has created since the lookup: the link ends with an error.
Write(f) ==
  /\ flow[f].at = "write" /\ Room(flow[f].old)
  /\ LET t == Head(flow[f].left)
         new == Upsert(t, flow[f].store, flow[f].old)
         saved == {r \in RowId : new[r] # NoRow /\ new[r].type = t.type /\ new[r].acct = t.acct}
     IN IF Taken(t, flow[f].old)
        THEN /\ flow' = [flow EXCEPT ![f] = Done]
             /\ UNCHANGED rows
        ELSE /\ rows' = new
             /\ flow' = [flow EXCEPT ![f] =
                  IF t = CloudNumber THEN Done ELSE [@ EXCEPT !.at = "touch", !.old = saved]]
  /\ UNCHANGED <<nonces, used, Background>>

\* Then Meta is asked to send the account's events, and the answer is written
\* to the row that was saved: only a page becomes ERROR when Meta refuses.
Touch(f) ==
  /\ flow[f].at = "touch"
  /\ \E r \in flow[f].old, status \in {"CONNECTED", "ERROR"} :
       /\ rows[r].type = "INSTAGRAM" => status = "CONNECTED"
       /\ rows' = Marked(r, status)
  /\ flow' = [flow EXCEPT ![f] =
       IF Len(@.left) = 1 THEN Done
       ELSE [@ EXCEPT !.at = "find", !.left = Tail(flow[f].left), !.old = {}]]
  /\ UNCHANGED <<nonces, used, Background>>

-----------------------------------------------------------------------------
\* The merchant disconnects a channel. Nothing else is told.
Disconnect(r) ==
  /\ r \in Used /\ rows[r].status # "DISCONNECTED"
  /\ rows' = Marked(r, "DISCONNECTED")
  /\ UNCHANGED <<flow, nonces, used, Background>>

\* updateMany: every Facebook and Instagram row in ERROR is CONNECTED again.
Reactivated ==
  [r \in RowId |->
     IF r \in Used /\ rows[r].type # "WHATSAPP_CLOUD" /\ rows[r].status = "ERROR"
     THEN [rows[r] EXCEPT !.status = "CONNECTED"] ELSE rows[r]]

Requests == <<flow, nonces, used>>

\* A repair of server.ts starts or ends. It runs at the start of the process
\* and every 15 minutes, whether or not the one before has ended.
Repair ==
  /\ rows' = Reactivated
  /\ UNCHANGED <<Requests, Background>>

\* A repair or the poller reads the rows of a type it goes over. A row may be
\* in the hands of several loops.
Lists(type) ==
  /\ inHand' = inHand \cup Live(type)
  /\ UNCHANGED <<Requests, rows, linking>>

\* The merchant asks for the diagnosis with repair of a row, connected or not:
\* an Instagram row is repaired and polled; a page sends the repair over the
\* pages of all the stores.
Button(r) ==
  /\ r \in OfType("INSTAGRAM") \cup OfType("FACEBOOK")
  /\ inHand' = inHand \cup IF rows[r].type = "INSTAGRAM" THEN {r} ELSE Live("FACEBOOK")
  /\ UNCHANGED <<Requests, rows, linking>>

\* A loop is done with a row: whatever Meta answered, the status written is
\* CONNECTED (a failure only leaves a lastError). Another loop, or a later
\* step of this one, may still have the row in hand.
WriteBack(r) ==
  /\ r \in inHand
  /\ rows' = Marked(r, "CONNECTED")
  /\ inHand' \in {inHand, inHand \ {r}}
  /\ UNCHANGED <<Requests, linking>>

\* The subscription of a page works and the page names a linked Instagram
\* account. The loop goes on with the page's store as it has read it, which is
\* the row's store as long as StoreFixed holds.
PageNamesInstagram(r, a) ==
  /\ r \in inHand /\ rows[r].type = "FACEBOOK"
  /\ Cardinality(linking) < MaxLinks
  /\ linking' = linking \cup {[at |-> "find", store |-> rows[r].store, acct |-> a, old |-> {}]}
  /\ UNCHANGED <<Requests, rows, inHand>>

\* upsertLinkedInstagram leaves another store's row alone.
FindLinked(x) ==
  /\ x \in linking /\ x.at = "find"
  /\ LET found == Matches(RepairInstagram(x.acct)) IN
       \E old \in IF found = {} THEN {{}} ELSE {{r} : r \in found} :
         linking' = (linking \ {x}) \cup
           IF Foreign(old, x.store) # {} THEN {} ELSE {[x EXCEPT !.at = "write", !.old = old]}
  /\ UNCHANGED <<Requests, rows, inHand>>

\* A conflict with the unique index is caught and logged. The page is marked
\* next (WriteBack).
WriteLinked(x) ==
  /\ x \in linking /\ x.at = "write" /\ Room(x.old)
  /\ rows' = IF Taken(RepairInstagram(x.acct), x.old) THEN rows
             ELSE Upsert(RepairInstagram(x.acct), x.store, x.old)
  /\ linking' = linking \ {x}
  /\ UNCHANGED <<Requests, inHand>>

-----------------------------------------------------------------------------
Links(f) ==
  \/ \E kind \in Kinds, s \in Store : Start(f, kind, s)
  \/ \E s \in Store : CloudForm(f, s)
  \/ NonceExpires(f) \/ Callback(f) \/ Refused(f) \/ Exchanged(f)
  \/ Find(f) \/ Write(f) \/ Touch(f)

Loops ==
  \/ Repair
  \/ \E type \in {"FACEBOOK", "INSTAGRAM"} : Lists(type)
  \/ \E r \in RowId : Button(r) \/ WriteBack(r)
  \/ \E r \in RowId, a \in LinkedTo : PageNamesInstagram(r, a)
  \/ \E x \in linking : FindLinked(x) \/ WriteLinked(x)

Next ==
  \/ \E f \in Flow : Links(f)
  \/ \E r \in RowId : Disconnect(r)
  \/ Loops

Spec == Init /\ [][Next]_vars

-----------------------------------------------------------------------------
Row == [type : {"FACEBOOK", "INSTAGRAM", "WHATSAPP_CLOUD"}, acct : Account,
        biz : Account \cup {"none", "waba"}, store : Store, status : Status]

\* Every variable stays in its type, and no two rows are the same account.
TypeOK ==
  /\ rows \in [RowId -> Row \cup {NoRow}]
  /\ \A r, q \in Used : r # q => <<rows[r].type, rows[r].acct>> # <<rows[q].type, rows[q].acct>>
  /\ \A f \in Flow : /\ flow[f].at \in {"new", "consent", "redeemed", "find", "write", "touch", "done"}
                     /\ flow[f].old \subseteq RowId
  /\ nonces \subseteq Flow
  /\ used \in [Flow -> 0 .. 2]
  /\ inHand \subseteq Used
  /\ linking \subseteq [at : {"find", "write"}, store : Store, acct : LinkedTo, old : SUBSET Used]

\* A consent link is redeemed once, however often the browser calls back.
ConsentOnce == \A f \in Flow : used[f] <= 1

\* A channel never moves to another store, whoever links the account and
\* however the lookups and the writes of two links interleave.
StoreFixed ==
  [][\A r \in Used : rows'[r] # NoRow /\ rows'[r].store = rows[r].store]_vars

=============================================================================
