--------------------------- MODULE Channels_proofs ---------------------------
(***************************************************************************)
(* Proofs about Channels.tla for any number of stores, links, rows and     *)
(* linked accounts, and whichever kinds of link are used.                  *)
(***************************************************************************)
EXTENDS Channels, TLAPS

Names == Account \cup {"none", "waba"}
Tgt ==
  {Page, DirectInstagram, CloudNumber} \cup {PageInstagram(a) : a \in LinkedTo}
    \cup {RepairInstagram(a) : a \in LinkedTo}

(* A lookup found at most one row, and a row of the store that asks.       *)
FoundFor(old, s) ==
  /\ old \subseteq Used
  /\ \A r, q \in old : r = q
  /\ \A r \in old : rows[r].store = s

RowsTyped == rows \in [RowId -> Row \cup {NoRow}]

OneRowPerAccount ==
  \A r, q \in Used : r # q => <<rows[r].type, rows[r].acct>> # <<rows[q].type, rows[q].acct>>

(* What a link carries from its lookup to its write, and from there to the *)
(* subscription, is still true then: a row that was found or saved has not *)
(* moved to another store meanwhile.                                       *)
LinkType ==
  [at : {"new", "consent", "redeemed", "find", "write", "touch", "done"},
   kind : Kinds \cup {"none"}, store : Store \cup {"none"},
   left : Seq(Tgt), old : SUBSET RowId]

Sound(x) ==
  /\ x \in LinkType
  /\ x.at \in {"consent", "redeemed"} => x.kind \in Kinds \ {"none"}
  /\ x.at \in {"find", "write", "touch"} => x.left # <<>>
  /\ x.at \in {"consent", "redeemed", "find", "write", "touch"} => x.store \in Store
  /\ x.at = "write" => FoundFor(x.old, x.store)
  /\ x.old \subseteq Used
  /\ x.at = "touch" => \A r \in x.old : rows[r].store = x.store

FlowInv == flow \in [Flow -> LinkType] /\ \A f \in Flow : Sound(flow[f])

(* The loops hold rows of the table, and an account that was found for a   *)
(* page still belongs to the page's store.                                 *)
LinkSound(x) ==
  /\ x \in [at : {"find", "write"}, store : Store, acct : LinkedTo, old : SUBSET Used]
  /\ x.at = "write" => FoundFor(x.old, x.store)

LoopInv == inHand \subseteq Used /\ \A x \in linking : LinkSound(x)

(* A nonce in Redis has never been redeemed.                               *)
NonceInv ==
  /\ nonces \subseteq Flow
  /\ used \in [Flow -> 0 .. 2]
  /\ \A f \in Flow :
       /\ used[f] <= 1
       /\ f \in nonces => used[f] = 0 /\ flow[f].at = "consent"
       /\ flow[f].at = "new" => used[f] = 0

ChannelsInv ==
  RowsTyped /\ OneRowPerAccount /\ FlowInv /\ LoopInv /\ NonceInv

-----------------------------------------------------------------------------
(* What the steps do to the table: nothing, a status, the repair's         *)
(* updateMany, or the save of a row that was looked up.                    *)
Saves(t, s, old) ==
  /\ FoundFor(old, s) /\ Room(old) /\ ~Taken(t, old)
  /\ rows' = Upsert(t, s, old)

RowsMove ==
  \/ UNCHANGED rows
  \/ \E r \in Used, status \in Status : rows' = Marked(r, status)
  \/ rows' = Reactivated
  \/ \E t \in Tgt, s \in Store, old \in SUBSET RowId : Saves(t, s, old)

LEMMA TargetFields ==
  /\ \A t \in Tgt : /\ t.type \in {"FACEBOOK", "INSTAGRAM", "WHATSAPP_CLOUD"}
                    /\ t.acct \in Account
                    /\ t.biz \in Names
  /\ \A a \in LinkedTo : RepairInstagram(a) \in Tgt
<1> DEFINE Fits(t) == /\ t.type \in {"FACEBOOK", "INSTAGRAM", "WHATSAPP_CLOUD"}
                      /\ t.acct \in Account /\ t.biz \in Names
<1>1. Fits(Page) /\ Fits(DirectInstagram) /\ Fits(CloudNumber)
  BY DEF Page, DirectInstagram, CloudNumber, Target, Names, Account
<1>2. \A a \in LinkedTo : Fits(PageInstagram(a)) /\ Fits(RepairInstagram(a))
  BY DEF PageInstagram, RepairInstagram, Target, Names, Account
<1> HIDE DEF Fits
<1>3. \A t \in Tgt : Fits(t)
  BY <1>1, <1>2 DEF Tgt
<1>4. \A a \in LinkedTo : RepairInstagram(a) \in Tgt
  BY DEF Tgt
<1> QED
  BY <1>3, <1>4 DEF Fits

LEMMA UsedRows ==
  ASSUME RowsTyped
  PROVE  \A r \in RowId : r \in Used <=> rows[r] \in Row
<1>1. NoRow \notin Row
  <2>1. NoRow.type = "none"
    BY DEF NoRow
  <2>2. \A x \in Row : x.type # "none"
    BY DEF Row
  <2> QED
    BY <2>1, <2>2
<1> QED
  BY <1>1 DEF RowsTyped, Used

LEMMA RowForType ==
  ASSUME NEW t \in Tgt, NEW s \in Store
  PROVE  /\ RowFor(t, s) \in Row
         /\ RowFor(t, s).type = t.type
         /\ RowFor(t, s).acct = t.acct
         /\ RowFor(t, s).store = s
BY TargetFields DEF RowFor, Row, Status, Names

LEMMA SaveKeepsRows ==
  ASSUME RowsTyped, OneRowPerAccount,
         NEW t \in Tgt, NEW s \in Store, NEW old \in SUBSET RowId,
         Saves(t, s, old)
  PROVE  /\ RowsTyped' /\ OneRowPerAccount'
         /\ \A r \in Used : r \in Used' /\ rows'[r].store = rows[r].store
         /\ \A r \in Used \ old : rows'[r] = rows[r]
<1> DEFINE row == RowFor(t, s)
<1>1. /\ row \in Row /\ row.type = t.type /\ row.acct = t.acct /\ row.store = s
  BY RowForType
<1> HIDE DEF row
<1>2. ASSUME NEW q \in Used \ old
      PROVE  <<rows[q].type, rows[q].acct>> # <<t.type, t.acct>>
  BY <1>2 DEF Saves, Taken, OfType
<1>3. CASE old # {}
  <2>1. rows' = [r \in RowId |-> IF r \in old THEN row ELSE rows[r]]
    BY <1>3 DEF Saves, Upsert, row
  <2>2. RowsTyped'
    BY <1>1, <2>1 DEF RowsTyped
  <2>3. Used' = Used
    <3>1. \A r \in RowId : r \in Used' <=> rows'[r] \in Row
      BY <2>2, UsedRows, <1>1, <2>1 DEF RowsTyped, Used, NoRow, Row
    <3> QED
      BY <3>1, <2>1, <1>1, UsedRows DEF Saves, FoundFor, Used
  <2>4. OneRowPerAccount'
    BY <1>1, <1>2, <2>1, <2>3 DEF OneRowPerAccount, Saves, FoundFor, Used
  <2> QED
    BY <1>1, <2>1, <2>2, <2>3, <2>4 DEF Saves, FoundFor, Used
<1>4. CASE old = {}
  <2> DEFINE new == CHOOSE r \in RowId \ Used : TRUE
  <2>1. new \in RowId \ Used
    BY <1>4 DEF Saves, Room, Used
  <2>2. rows' = [rows EXCEPT ![new] = row]
    BY <1>4 DEF Saves, Upsert, row
  <2> HIDE DEF new
  <2>3. RowsTyped'
    BY <1>1, <2>1, <2>2 DEF RowsTyped
  <2>4. Used' = Used \cup {new}
    BY <1>1, <2>1, <2>2 DEF RowsTyped, Used, NoRow, Row
  <2>5. rows'[new] = row /\ \A r \in Used : rows'[r] = rows[r]
    BY <2>1, <2>2 DEF RowsTyped, Used
  <2>6. OneRowPerAccount'
    BY <1>1, <1>2, <1>4, <2>1, <2>4, <2>5 DEF OneRowPerAccount
  <2> QED
    BY <2>3, <2>4, <2>5, <2>6
<1> QED
  BY <1>3, <1>4

LEMMA StatusKeepsRows ==
  ASSUME RowsTyped, OneRowPerAccount,
         \/ \E r \in Used, status \in Status : rows' = Marked(r, status)
         \/ rows' = Reactivated
  PROVE  /\ RowsTyped' /\ OneRowPerAccount'
         /\ \A r \in Used : r \in Used' /\ rows'[r].store = rows[r].store
<1>1. ASSUME NEW r \in RowId
      PROVE  /\ rows[r] = NoRow => rows'[r] = NoRow
             /\ rows[r] \in Row => /\ rows'[r] \in Row
                                   /\ rows'[r].type = rows[r].type
                                   /\ rows'[r].acct = rows[r].acct
                                   /\ rows'[r].store = rows[r].store
  <2>1. CASE \E q \in Used, status \in Status : rows' = Marked(q, status)
    <3>1. PICK q \in Used, status \in Status : rows' = [rows EXCEPT ![q].status = status]
      BY <2>1 DEF Marked
    <3> QED
      BY <3>1, <1>1, UsedRows DEF RowsTyped, Row, Used
  <2>2. CASE rows' = Reactivated
    BY <2>2, <1>1, UsedRows DEF RowsTyped, Row, Used, Reactivated, Status
  <2> QED
    BY <2>1, <2>2
<1>2. rows' = [r \in RowId |-> rows'[r]]
  BY DEF RowsTyped, Marked, Reactivated
<1>3. RowsTyped'
  BY <1>1, <1>2 DEF RowsTyped
<1>4. Used' = Used
  BY <1>1 DEF Used, RowsTyped, NoRow, Row
<1>5. \A r \in Used : rows[r] \in Row
  BY UsedRows DEF Used
<1> QED
  BY <1>1, <1>3, <1>4, <1>5 DEF OneRowPerAccount, Used

(* Every step keeps the accounts distinct and the rows with their stores.  *)
LEMMA RowsKept ==
  ASSUME RowsTyped, OneRowPerAccount, RowsMove
  PROVE  /\ RowsTyped' /\ OneRowPerAccount'
         /\ \A r \in Used : r \in Used' /\ rows'[r].store = rows[r].store
<1>1. CASE UNCHANGED rows
  BY <1>1 DEF RowsTyped, OneRowPerAccount, Used
<1>2. CASE \/ \E r \in Used, status \in Status : rows' = Marked(r, status)
           \/ rows' = Reactivated
  BY <1>2, StatusKeepsRows
<1>3. CASE \E t \in Tgt, s \in Store, old \in SUBSET RowId : Saves(t, s, old)
  BY <1>3, SaveKeepsRows
<1> QED
  BY <1>1, <1>2, <1>3 DEF RowsMove

LEMMA TargetLists ==
  ASSUME NEW kind \in Kinds, NEW left \in Targets(kind)
  PROVE  left \in Seq(Tgt) /\ left # <<>>
<1>1. /\ <<Page>> \in Seq(Tgt) /\ <<DirectInstagram>> \in Seq(Tgt) /\ <<CloudNumber>> \in Seq(Tgt)
      /\ \A a \in LinkedTo : <<Page, PageInstagram(a)>> \in Seq(Tgt)
  BY DEF Tgt
<1>2. left \in {<<Page>>, <<DirectInstagram>>, <<CloudNumber>>}
               \cup {<<Page, PageInstagram(a)>> : a \in LinkedTo}
  BY ChannelsAssumption DEF Targets
<1>3. CASE left \in {<<Page>>, <<DirectInstagram>>, <<CloudNumber>>}
  <2>1. left # <<>>
    BY <1>3
  <2> QED
    BY <1>1, <1>3, <2>1
<1>4. ASSUME NEW a \in LinkedTo, left = <<Page, PageInstagram(a)>>
      PROVE  left \in Seq(Tgt) /\ left # <<>>
  BY <1>1, <1>4
<1> QED
  BY <1>2, <1>3, <1>4

(* A lookup is a row that matches or none.                                 *)
LEMMA LookupFound ==
  ASSUME NEW t, NEW s,
         NEW old \in IF Matches(t) = {} THEN {{}} ELSE {{r} : r \in Matches(t)},
         Foreign(old, s) = {}
  PROVE  FoundFor(old, s)
<1>1. Matches(t) \subseteq Used
  BY DEF Matches, OfType
<1>2. old = {} \/ \E r \in Matches(t) : old = {r}
  OBVIOUS
<1> QED
  BY <1>1, <1>2 DEF FoundFor, Foreign

LEMMA StepMovesRows ==
  ASSUME ChannelsInv, Next
  PROVE  RowsMove
<1> USE DEF ChannelsInv
<1>1. ASSUME NEW f \in Flow, Links(f)
      PROVE  RowsMove
  <2>1. CASE Write(f)
    <3>1. /\ flow[f].left \in Seq(Tgt) /\ flow[f].left # <<>>
          /\ flow[f].store \in Store /\ FoundFor(flow[f].old, flow[f].store)
          /\ flow[f].old \in SUBSET RowId
      BY <2>1 DEF Write, FlowInv, Sound, LinkType
    <3>2. Head(flow[f].left) \in Tgt
      BY <3>1
    <3>3. CASE Taken(Head(flow[f].left), flow[f].old)
      BY <2>1, <3>3 DEF Write, RowsMove
    <3>4. CASE ~Taken(Head(flow[f].left), flow[f].old)
      <4>1. Saves(Head(flow[f].left), flow[f].store, flow[f].old)
        BY <2>1, <3>1, <3>4 DEF Write, Saves
      <4> QED
        BY <3>1, <3>2, <4>1 DEF RowsMove
    <3> QED
      BY <3>3, <3>4
  <2>2. CASE Touch(f)
    <3>1. flow[f].old \subseteq Used
      BY DEF FlowInv, Sound
    <3> QED
      BY <2>2, <3>1 DEF Touch, RowsMove, Status
  <2> QED
    BY <1>1, <2>1, <2>2 DEF Links, Start, CloudForm, NonceExpires, Callback, Refused,
         Exchanged, Find, RowsMove
<1>2. ASSUME NEW r \in RowId, Disconnect(r) \/ WriteBack(r)
      PROVE  RowsMove
  BY <1>2 DEF Disconnect, WriteBack, LoopInv, RowsMove, Status
<1>3. ASSUME NEW x \in linking, WriteLinked(x)
      PROVE  RowsMove
  <2>1. LinkSound(x) /\ x.at = "write"
    BY <1>3 DEF LoopInv, WriteLinked
  <2>2. x.acct \in LinkedTo /\ x.store \in Store /\ x.old \in SUBSET RowId /\ FoundFor(x.old, x.store)
    BY <2>1 DEF LinkSound, Used
  <2>3. RepairInstagram(x.acct) \in Tgt
    BY <2>2, TargetFields
  <2>4. CASE Taken(RepairInstagram(x.acct), x.old)
    BY <1>3, <2>4 DEF WriteLinked, RowsMove
  <2>5. CASE ~Taken(RepairInstagram(x.acct), x.old)
    <3>1. Saves(RepairInstagram(x.acct), x.store, x.old)
      BY <1>3, <2>2, <2>5 DEF WriteLinked, Saves
    <3> QED
      BY <2>2, <2>3, <3>1 DEF RowsMove
  <2> QED
    BY <2>4, <2>5
<1>4. CASE Repair
  BY <1>4 DEF Repair, RowsMove
<1>5. CASE \/ \E type \in {"FACEBOOK", "INSTAGRAM"} : Lists(type)
           \/ \E r \in RowId : Button(r)
           \/ \E r \in RowId, a \in LinkedTo : PageNamesInstagram(r, a)
           \/ \E x \in linking : FindLinked(x)
  BY <1>5 DEF Lists, Button, PageNamesInstagram, FindLinked, RowsMove
<1> QED
  BY <1>1, <1>2, <1>3, <1>4, <1>5 DEF Next, Loops

-----------------------------------------------------------------------------
LEMMA MoreTargets ==
  ASSUME NEW S, NEW q \in Seq(S), q # <<>>, Len(q) # 1
  PROVE  Tail(q) \in Seq(S) /\ Tail(q) # <<>>
<1>1. Len(q) \in Nat /\ Len(q) # 0
  OBVIOUS
<1>2. Tail(q) \in Seq(S) /\ Len(Tail(q)) = Len(q) - 1
  OBVIOUS
<1>3. Len(Tail(q)) # 0
  BY <1>1, <1>2
<1>4. Len(<<>>) = 0
  OBVIOUS
<1> QED
  BY <1>2, <1>3, <1>4

(* The same after the step, of a record that does not depend on it.        *)
FoundNext(old, s) ==
  /\ old \subseteq Used'
  /\ \A r, q \in old : r = q
  /\ \A r \in old : rows'[r].store = s

LEMMA FoundKept ==
  ASSUME RowsTyped, OneRowPerAccount, RowsMove, NEW old, NEW s, FoundFor(old, s)
  PROVE  FoundNext(old, s)
BY RowsKept DEF FoundFor, FoundNext

(* What a save leaves under its account belongs to the store that saved.   *)
LEMMA SavedAreOurs ==
  ASSUME RowsTyped, NEW t, NEW s, NEW old \in SUBSET RowId,
         Room(old), ~Taken(t, old), rows' = Upsert(t, s, old),
         NEW r \in RowId, rows'[r] # NoRow, rows'[r].type = t.type, rows'[r].acct = t.acct
  PROVE  rows'[r].store = s
<1>1. CASE rows'[r] = RowFor(t, s)
  BY <1>1 DEF RowFor
<1>2. CASE r \notin old /\ rows'[r] = rows[r]
  BY <1>2 DEF Taken, OfType, Used
<1>3. CASE old # {}
  BY <1>1, <1>2, <1>3 DEF Upsert
<1>4. CASE old = {}
  <2> DEFINE new == CHOOSE q \in RowId \ Used : TRUE
  <2>1. rows' = [rows EXCEPT ![new] = RowFor(t, s)]
    BY <1>4 DEF Upsert
  <2> HIDE DEF new
  <2> QED
    BY <1>1, <1>2, <1>4, <2>1 DEF RowsTyped
<1> QED
  BY <1>3, <1>4

SoundNext(x) ==
  /\ x \in LinkType
  /\ x.at \in {"consent", "redeemed"} => x.kind \in Kinds \ {"none"}
  /\ x.at \in {"find", "write", "touch"} => x.left # <<>>
  /\ x.at \in {"consent", "redeemed", "find", "write", "touch"} => x.store \in Store
  /\ x.at = "write" => FoundNext(x.old, x.store)
  /\ x.old \subseteq Used'
  /\ x.at = "touch" => \A r \in x.old : rows'[r].store = x.store

LEMMA FlowStep ==
  ASSUME ChannelsInv, [Next]_vars, RowsMove
  PROVE  FlowInv'
<1> USE DEF ChannelsInv
<1>1. flow \in [Flow -> LinkType] /\ \A f \in Flow : Sound(flow[f])
  BY DEF FlowInv
<1>2. Used \subseteq Used' /\ \A r \in Used : rows'[r].store = rows[r].store
  BY RowsKept
<1>3. ASSUME NEW x, Sound(x) PROVE SoundNext(x)
  BY <1>2, <1>3, FoundKept DEF Sound, SoundNext
<1>4. SUFFICES flow' \in [Flow -> LinkType] /\ \A f \in Flow : SoundNext(flow'[f])
  BY DEF FlowInv, Sound, SoundNext, FoundNext, FoundFor
<1>5. CASE UNCHANGED flow
  BY <1>1, <1>3, <1>5
<1>6. ASSUME NEW f \in Flow, NEW x, SoundNext(x), flow' = [flow EXCEPT ![f] = x]
      PROVE  flow' \in [Flow -> LinkType] /\ \A g \in Flow : SoundNext(flow'[g])
  <2>1. x \in LinkType
    BY <1>6 DEF SoundNext
  <2>2. flow' \in [Flow -> LinkType] /\ \A g \in Flow : flow'[g] = IF g = f THEN x ELSE flow[g]
    BY <1>1, <1>6, <2>1
  <2> QED
    BY <1>1, <1>3, <1>6, <2>2
<1>7. flow = [f \in Flow |-> flow[f]]
  BY <1>1
<1>9. SoundNext(Done)
  <2>1. <<>> \in Seq(Tgt)
    OBVIOUS
  <2> QED
    BY <2>1 DEF SoundNext, Done, Idle, LinkType
<1>10. ASSUME NEW f \in Flow, Links(f)
       PROVE  flow' \in [Flow -> LinkType] /\ \A g \in Flow : SoundNext(flow'[g])
  <2>1. Sound(flow[f]) /\ SoundNext(flow[f])
    BY <1>1, <1>3
  <2> USE DEF Sound, SoundNext, LinkType
  <2>2. ASSUME NEW kind \in Kinds, NEW s \in Store, Start(f, kind, s)
        PROVE  flow' \in [Flow -> LinkType] /\ \A g \in Flow : SoundNext(flow'[g])
    <3> DEFINE x == [flow[f] EXCEPT !.at = "consent", !.kind = kind, !.store = s]
    <3>1. flow' = [flow EXCEPT ![f] = x]
      BY <1>1, <2>2 DEF Start
    <3>2. SoundNext(x)
      BY <2>1, <2>2 DEF Start
    <3> QED
      BY <1>6, <3>1, <3>2
  <2>3. ASSUME NEW s \in Store, CloudForm(f, s)
        PROVE  flow' \in [Flow -> LinkType] /\ \A g \in Flow : SoundNext(flow'[g])
    <3> DEFINE x == [at |-> "find", kind |-> "cloud", store |-> s, left |-> <<CloudNumber>>,
                     old |-> {}]
    <3>1. <<CloudNumber>> \in Seq(Tgt) /\ <<CloudNumber>> # <<>>
      BY DEF Tgt
    <3>2. flow' = [flow EXCEPT ![f] = x] /\ "cloud" \in Kinds
      BY <2>3 DEF CloudForm
    <3>3. SoundNext(x)
      BY <3>1, <3>2
    <3> QED
      BY <1>6, <3>2, <3>3
  <2>4. CASE Refused(f)
    BY <1>6, <1>9, <2>4 DEF Refused
  <2>5. CASE Callback(f)
    <3> DEFINE x == [flow[f] EXCEPT !.at = "redeemed"]
    <3>1. flow' = [flow EXCEPT ![f] = x]
      BY <1>1, <2>5 DEF Callback
    <3>2. flow[f].at = "consent"
      BY <2>5 DEF Callback, NonceInv
    <3>3. SoundNext(x)
      BY <2>1, <3>2
    <3> QED
      BY <1>6, <3>1, <3>3
  <2>6. CASE Exchanged(f)
    <3>1. flow[f].kind \in Kinds
      BY <2>1, <2>6 DEF Exchanged
    <3>2. PICK left \in Targets(flow[f].kind) :
            flow' = [flow EXCEPT ![f].at = "find", ![f].left = left]
      BY <2>6 DEF Exchanged
    <3> DEFINE x == [flow[f] EXCEPT !.at = "find", !.left = left]
    <3>3. flow' = [flow EXCEPT ![f] = x]
      BY <1>1, <3>2
    <3>4. left \in Seq(Tgt) /\ left # <<>>
      BY <3>1, TargetLists
    <3>5. SoundNext(x)
      BY <2>1, <2>6, <3>4 DEF Exchanged
    <3> QED
      BY <1>6, <3>3, <3>5
  <2>7. CASE Find(f)
    <3>1. /\ flow[f].at = "find" /\ Head(flow[f].left) \in Tgt
          /\ flow[f].left \in Seq(Tgt)
      BY <2>1, <2>7 DEF Find
    <3> DEFINE t == Head(flow[f].left)
               s == flow[f].store
    <3>2. PICK old \in IF Matches(t) = {} THEN {{}} ELSE {{r} : r \in Matches(t)} :
            flow' = IF Foreign(old, s) # {}
                    THEN [flow EXCEPT ![f].at = "done"]
                    ELSE [flow EXCEPT ![f].at = "write", ![f].old = old]
      BY <2>7 DEF Find
    <3>3. CASE Foreign(old, s) # {}
      <4> DEFINE x == [flow[f] EXCEPT !.at = "done"]
      <4>1. flow' = [flow EXCEPT ![f] = x]
        BY <1>1, <3>2, <3>3
      <4>2. SoundNext(x)
        BY <2>1
      <4> QED
        BY <1>6, <4>1, <4>2
    <3>4. CASE Foreign(old, s) = {}
      <4> DEFINE x == [flow[f] EXCEPT !.at = "write", !.old = old]
      <4>1. flow' = [flow EXCEPT ![f] = x]
        BY <1>1, <3>2, <3>4
      <4>2. FoundFor(old, s)
        BY <3>4, LookupFound
      <4>3. FoundNext(old, s) /\ old \subseteq Used
        BY <4>2, FoundKept DEF FoundFor
      <4>5. x \in LinkType
        BY <2>1, <4>3 DEF Used
      <4>6. x.left = flow[f].left /\ x.store = s /\ x.old = old /\ x.at = "write"
        BY <2>1
      <4>7. s \in Store /\ flow[f].left # <<>> /\ old \subseteq Used'
        BY <1>2, <2>1, <3>1, <4>3
      <4>8. SoundNext(x)
        BY <4>3, <4>5, <4>6, <4>7
      <4> QED
        BY <1>6, <4>1, <4>8
    <3> QED
      BY <3>3, <3>4
  <2>8. CASE Write(f)
    <3> DEFINE t == Head(flow[f].left)
               new == Upsert(t, flow[f].store, flow[f].old)
               saved == {r \in RowId : new[r] # NoRow /\ new[r].type = t.type /\ new[r].acct = t.acct}
               x == [flow[f] EXCEPT !.at = "touch", !.old = saved]
    <3>1. CASE flow' = [flow EXCEPT ![f] = Done]
      BY <1>6, <1>9, <3>1
    <3>2. CASE ~Taken(t, flow[f].old) /\ t # CloudNumber
      <4>1. rows' = new /\ flow' = [flow EXCEPT ![f] = x]
        BY <2>8, <3>2 DEF Write
      <4>2. saved \subseteq Used' /\ saved \subseteq RowId
        BY <4>1 DEF Used
      <4>3. \A r \in saved : rows'[r].store = flow[f].store
        <5>1. flow[f].old \in SUBSET RowId /\ Room(flow[f].old) /\ RowsTyped
          BY <2>1, <2>8 DEF Write, Used
        <5> HIDE DEF t
        <5>2. rows' = Upsert(t, flow[f].store, flow[f].old) /\ ~Taken(t, flow[f].old)
          BY <3>2, <4>1
        <5> SUFFICES ASSUME NEW r \in RowId, rows'[r] # NoRow,
                            rows'[r].type = t.type, rows'[r].acct = t.acct
                     PROVE  rows'[r].store = flow[f].store
          BY <4>1
        <5> QED
          BY <5>1, <5>2, SavedAreOurs
      <4> HIDE DEF saved
      <4>4. SoundNext(x)
        BY <2>1, <2>8, <4>2, <4>3 DEF Write
      <4> QED
        BY <1>6, <4>1, <4>4
    <3> QED
      BY <2>8, <3>1, <3>2 DEF Write
  <2>9. CASE Touch(f)
    <3> DEFINE x == [flow[f] EXCEPT !.at = "find", !.left = Tail(flow[f].left), !.old = {}]
    <3>1. CASE Len(flow[f].left) = 1
      BY <1>6, <1>9, <2>9, <3>1 DEF Touch
    <3>2. CASE Len(flow[f].left) # 1
      <4>0. flow' = [flow EXCEPT ![f] = IF Len(flow[f].left) = 1 THEN Done ELSE x]
        BY <2>9 DEF Touch
      <4>1. flow' = [flow EXCEPT ![f] = x]
        BY <1>1, <2>9, <3>2, <4>0 DEF Touch
      <4>2. flow[f].left \in Seq(Tgt) /\ flow[f].left # <<>>
        BY <2>1, <2>9 DEF Touch
      <4>3. Tail(flow[f].left) \in Seq(Tgt) /\ Tail(flow[f].left) # <<>>
        BY <3>2, <4>2, MoreTargets
      <4>4. SoundNext(x)
        BY <2>1, <2>9, <4>3 DEF Touch
      <4> QED
        BY <1>6, <4>1, <4>4
    <3> QED
      BY <3>1, <3>2
  <2>10. CASE NonceExpires(f)
    BY <1>5, <2>10 DEF NonceExpires
  <2> QED
    BY <1>10, <2>2, <2>3, <2>4, <2>5, <2>6, <2>7, <2>8, <2>9, <2>10 DEF Links
<1> QED
  BY <1>5, <1>10 DEF Next, Loops, vars, Requests, Disconnect, Repair, Lists, Button, WriteBack,
       PageNamesInstagram, FindLinked, WriteLinked

(* What a loop has found for a page stays true, as for a consent link.     *)
LinkSoundNext(x) ==
  /\ x \in [at : {"find", "write"}, store : Store, acct : LinkedTo, old : SUBSET Used']
  /\ x.at = "write" => FoundNext(x.old, x.store)

LEMMA LoopStep ==
  ASSUME ChannelsInv, [Next]_vars, RowsMove
  PROVE  LoopInv'
<1> USE DEF ChannelsInv
<1>1. Used \subseteq Used'
  BY RowsKept
<1>2. ASSUME NEW x, LinkSound(x) PROVE LinkSoundNext(x)
  BY <1>1, <1>2, FoundKept DEF LinkSound, LinkSoundNext
<1>3. SUFFICES inHand' \subseteq Used' /\ \A x \in linking' : LinkSoundNext(x)
  BY DEF LoopInv, LinkSound, LinkSoundNext, FoundNext, FoundFor
<1>4. \A x \in linking : LinkSoundNext(x)
  BY <1>2 DEF LoopInv
<1>5. inHand' \subseteq Used'
  <2>1. CASE UNCHANGED inHand
    BY <1>1, <2>1 DEF LoopInv
  <2>2. CASE \E type \in {"FACEBOOK", "INSTAGRAM"} : Lists(type)
    BY <1>1, <2>2 DEF Lists, Live, OfType, LoopInv
  <2>3. CASE \E r \in RowId : Button(r) \/ WriteBack(r)
    BY <1>1, <2>3 DEF Button, WriteBack, Live, OfType, LoopInv
  <2> QED
    BY <2>1, <2>2, <2>3 DEF Next, Loops, vars, Links, Start, CloudForm, NonceExpires, Callback,
         Refused, Exchanged, Find, Write, Touch, Background, Disconnect, Repair,
         PageNamesInstagram, FindLinked, WriteLinked
<1>6. \A x \in linking' : LinkSoundNext(x)
  <2>1. CASE linking' \subseteq linking
    BY <1>4, <2>1
  <2>2. ASSUME NEW r \in RowId, NEW a \in LinkedTo, PageNamesInstagram(r, a)
        PROVE  \A x \in linking' : LinkSoundNext(x)
    <3> DEFINE new == [at |-> "find", store |-> rows[r].store, acct |-> a, old |-> {}]
    <3>1. rows[r].store \in Store
      BY <2>2, UsedRows DEF PageNamesInstagram, LoopInv, Used, Row
    <3>2. LinkSoundNext(new)
      BY <3>1 DEF LinkSoundNext
    <3>3. linking' = linking \cup {new}
      BY <2>2 DEF PageNamesInstagram
    <3> QED
      BY <1>4, <3>2, <3>3
  <2>3. ASSUME NEW x \in linking, FindLinked(x)
        PROVE  \A y \in linking' : LinkSoundNext(y)
    <3> DEFINE t == RepairInstagram(x.acct)
    <3>1. PICK old \in IF Matches(t) = {} THEN {{}} ELSE {{r} : r \in Matches(t)} :
            linking' = (linking \ {x}) \cup
              IF Foreign(old, x.store) # {} THEN {} ELSE {[x EXCEPT !.at = "write", !.old = old]}
      BY <2>3 DEF FindLinked
    <3>2. CASE Foreign(old, x.store) # {}
      BY <1>4, <3>1, <3>2
    <3>3. CASE Foreign(old, x.store) = {}
      <4> DEFINE new == [x EXCEPT !.at = "write", !.old = old]
      <4>1. FoundFor(old, x.store)
        BY <3>3, LookupFound
      <4>2. FoundNext(old, x.store)
        BY <4>1, FoundKept
      <4>3. LinkSoundNext(x)
        BY <1>4
      <4>4. LinkSoundNext(new)
        BY <4>2, <4>3 DEF LinkSoundNext, FoundNext
      <4> QED
        BY <1>4, <3>1, <3>3, <4>4
    <3> QED
      BY <3>2, <3>3
  <2>4. ASSUME NEW x \in linking, WriteLinked(x)
        PROVE  linking' \subseteq linking
    BY <2>4 DEF WriteLinked
  <2>5. CASE \/ \E f \in Flow : Links(f)
             \/ Repair
             \/ \E type \in {"FACEBOOK", "INSTAGRAM"} : Lists(type)
             \/ \E r \in RowId : Disconnect(r) \/ Button(r) \/ WriteBack(r)
             \/ UNCHANGED vars
    BY <2>1, <2>5 DEF vars, Links, Start, CloudForm, NonceExpires, Callback, Refused, Exchanged,
         Find, Write, Touch, Background, Disconnect, Repair, Lists, Button, WriteBack
  <2> QED
    BY <2>1, <2>2, <2>3, <2>4, <2>5 DEF Next, Loops
<1> QED
  BY <1>5, <1>6

LEMMA NonceStep ==
  ASSUME ChannelsInv, [Next]_vars
  PROVE  NonceInv'
<1> USE DEF ChannelsInv
<1>1. CASE UNCHANGED <<nonces, used, flow>>
  BY <1>1 DEF NonceInv
<1>2. flow = [f \in Flow |-> flow[f]]
  BY DEF FlowInv
<1>3. ASSUME NEW f \in Flow, NEW x, x.at # "new", flow' = [flow EXCEPT ![f] = x],
             UNCHANGED <<nonces, used>>, f \notin nonces
      PROVE  NonceInv'
  BY <1>2, <1>3 DEF NonceInv
<1>4. Done.at = "done"
  BY DEF Done, Idle
<1>5. ASSUME NEW f \in Flow, Links(f)
      PROVE  NonceInv'
  <2>1. flow[f] \in LinkType
    BY DEF FlowInv
  <2>2. ASSUME NEW kind \in Kinds, NEW s \in Store, Start(f, kind, s)
        PROVE  NonceInv'
    BY <1>2, <2>1, <2>2 DEF Start, NonceInv, LinkType
  <2>3. ASSUME NEW s \in Store, CloudForm(f, s)
        PROVE  NonceInv'
    BY <1>2, <2>1, <2>3 DEF CloudForm, NonceInv, LinkType
  <2>4. CASE NonceExpires(f)
    BY <2>4 DEF NonceExpires, NonceInv
  <2>5. CASE Callback(f)
    BY <1>2, <2>1, <2>5 DEF Callback, NoncesAfter, NonceInv, LinkType
  <2>6. CASE Refused(f)
    BY <1>3, <1>4, <2>6 DEF Refused, NonceInv
  <2>7. CASE Exchanged(f)
    <3>1. PICK left : flow' = [flow EXCEPT ![f].at = "find", ![f].left = left]
      BY <2>7 DEF Exchanged
    <3> DEFINE x == [flow[f] EXCEPT !.at = "find", !.left = left]
    <3>2. flow' = [flow EXCEPT ![f] = x] /\ x.at = "find"
      BY <1>2, <2>1, <3>1 DEF LinkType
    <3> QED
      BY <1>3, <2>7, <3>2 DEF Exchanged, NonceInv
  <2>8. CASE Find(f)
    <3>1. /\ flow[f].at = "find" /\ UNCHANGED <<nonces, used>>
          /\ \A g \in Flow \ {f} : flow'[g] = flow[g]
          /\ flow'[f].at \in {"done", "write"}
      BY <1>2, <2>1, <2>8 DEF Find, LinkType
    <3> QED
      BY <3>1 DEF NonceInv
  <2>9. CASE Write(f)
    <3>0. \/ flow' = [flow EXCEPT ![f] = Done]
          \/ \E S : flow' = [flow EXCEPT ![f] = [flow[f] EXCEPT !.at = "touch", !.old = S]]
      BY <2>9 DEF Write
    <3>1. /\ flow[f].at = "write" /\ UNCHANGED <<nonces, used>>
          /\ \A g \in Flow \ {f} : flow'[g] = flow[g]
          /\ flow'[f].at \in {"done", "touch"}
      BY <1>2, <1>4, <2>1, <2>9, <3>0 DEF Write, LinkType
    <3> QED
      BY <3>1 DEF NonceInv
  <2>10. CASE Touch(f)
    <3>1. /\ flow[f].at = "touch" /\ UNCHANGED <<nonces, used>>
          /\ \A g \in Flow \ {f} : flow'[g] = flow[g]
          /\ flow'[f].at \in {"done", "find"}
      BY <1>2, <1>4, <2>1, <2>10 DEF Touch, LinkType
    <3> QED
      BY <3>1 DEF NonceInv
  <2> QED
    BY <1>5, <2>2, <2>3, <2>4, <2>5, <2>6, <2>7, <2>8, <2>9, <2>10 DEF Links
<1> QED
  BY <1>1, <1>5 DEF Next, Loops, vars, Requests, Disconnect, Repair, Lists, Button, WriteBack,
       PageNamesInstagram, FindLinked, WriteLinked

-----------------------------------------------------------------------------
LEMMA ChannelsInit == Init => ChannelsInv
<1> SUFFICES ASSUME Init PROVE ChannelsInv
  OBVIOUS
<1>1. Used = {} /\ RowsTyped
  BY DEF Init, Used, RowsTyped
<1>2. Idle \in LinkType
  <2>1. <<>> \in Seq(Tgt)
    OBVIOUS
  <2> QED
    BY <2>1 DEF Idle, LinkType
<1>3. FlowInv
  BY <1>2 DEF FlowInv, Sound, Init, Idle
<1>5. LoopInv
  BY <1>1 DEF LoopInv, Init
<1>6. NonceInv
  BY DEF NonceInv, Init
<1> QED
  BY <1>1, <1>3, <1>5, <1>6 DEF ChannelsInv, OneRowPerAccount

LEMMA ChannelsStep == ChannelsInv /\ [Next]_vars => ChannelsInv'
<1> SUFFICES ASSUME ChannelsInv, [Next]_vars PROVE ChannelsInv'
  OBVIOUS
<1>1. RowsMove
  <2>1. CASE UNCHANGED vars
    BY <2>1 DEF vars, RowsMove
  <2> QED
    BY <2>1, StepMovesRows
<1>2. RowsTyped' /\ OneRowPerAccount'
  BY <1>1, RowsKept DEF ChannelsInv
<1> QED
  BY <1>1, <1>2, FlowStep, LoopStep, NonceStep DEF ChannelsInv

LEMMA ChannelsInvariant == Spec => []ChannelsInv
BY ChannelsInit, ChannelsStep, PTL DEF Spec

(* Types, with no two rows for the same account of the same type: the     *)
(* unique index holds although every lookup is separated from its write.   *)
THEOREM ChannelsTypeCorrect == Spec => []TypeOK
<1>1. ChannelsInv => TypeOK
  BY DEF ChannelsInv, RowsTyped, OneRowPerAccount, FlowInv, Sound, LinkType, LoopInv, LinkSound,
         NonceInv, TypeOK
<1> QED
  BY <1>1, ChannelsInvariant, PTL

(* A consent link is redeemed at most once, however often the browser      *)
(* calls back and whenever the nonce expires.                              *)
THEOREM ConsentRedeemedOnce == Spec => []ConsentOnce
<1>1. ChannelsInv => ConsentOnce
  BY DEF ChannelsInv, NonceInv, ConsentOnce
<1> QED
  BY <1>1, ChannelsInvariant, PTL

(* A channel stays with its store: the lookup that compared the stores is  *)
(* still true when the row is written, because no step moves a row.        *)
THEOREM ChannelKeepsStore == Spec => StoreFixed
<1>1. ASSUME ChannelsInv, [Next]_vars
      PROVE  \A r \in Used : rows'[r] # NoRow /\ rows'[r].store = rows[r].store
  <2>1. RowsMove
    BY <1>1, StepMovesRows DEF RowsMove, vars
  <2> QED
    BY <1>1, <2>1, RowsKept DEF ChannelsInv, Used
<1> QED
  BY <1>1, ChannelsInvariant, PTL DEF Spec, StoreFixed

=============================================================================
