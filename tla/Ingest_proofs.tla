--------------------------- MODULE Ingest_proofs ---------------------------
(***************************************************************************)
(* No message leaves the poller's window unread, for any messages, any     *)
(* number of polls at once and any lengths of the lag and the overlap.     *)
(***************************************************************************)
EXTENDS Ingest, TLAPS

\* What a poll that is under way still has in hand: every message sent before
\* it began and not excused, and none of these is behind its window.
InHand ==
  \A p \in Poller : poll[p].at # "idle" =>
    /\ poll[p].began <= now
    /\ \A m \in Waiting \ excused : sent[m] < poll[p].began => m \in poll[p].list
    /\ poll[p].at = "read" =>
         \A m \in (Waiting \ excused) \cap poll[p].list : poll[p].cutoff <= sent[m]

IInv == TypeOK /\ InReach /\ InHand

\* Without a cursor the window starts at an integer no later than the clock.
LEMMA FallbackBound ==
  ASSUME TypeOK, NEW last \in Optional, last <= now
  PROVE  Fallback(last) \in Int /\ Fallback(last) <= now
BY IngestAssumption DEF TypeOK, Fallback, Later, Time, Optional, None

\* The fallback reaches a message if neither bound of the window excludes it,
\* and it never starts before the floor.
LEMMA FallbackReach ==
  ASSUME TypeOK, NEW last \in Optional, NEW m \in Waiting,
         ~ (sent[m] < now - Catchup - Overlap),
         last # None => ~ (sent[m] < last - 2 * Overlap)
  PROVE  Fallback(last) - Overlap <= sent[m]
<1>1. now \in Int /\ sent[m] \in Int
  BY IngestAssumption DEF TypeOK, Waiting, Time, Optional, None
<1> QED
  BY <1>1, IngestAssumption DEF Fallback, Later, Time, Optional, None

LEMMA FallbackFloor ==
  ASSUME TypeOK, NEW last \in Optional, NEW m \in Waiting,
         Fallback(last) - Overlap <= sent[m]
  PROVE  /\ ~ (sent[m] < now - Catchup - Overlap)
         /\ last # None => ~ (sent[m] < last - 2 * Overlap)
<1>1. now \in Int /\ sent[m] \in Int
  BY IngestAssumption DEF TypeOK, Waiting, Time, Optional, None
<1> QED
  BY <1>1, IngestAssumption DEF Fallback, Later, Time, Optional, None

\* Initially no message was sent and no poll runs.
THEOREM InitIInv == Init => IInv
<1> SUFFICES ASSUME Init PROVE IInv OBVIOUS
<1>1. Waiting = {} BY DEF Init, Waiting
<1>2. TypeOK
  <2>1. 0 \in Time BY IngestAssumption DEF Time
  <2>2. Rest \in PollState BY <2>1 DEF Rest, PollState
  <2>3. poll \in [Poller -> PollState] BY <2>2 DEF Init
  <2>4. \A p \in Poller : poll[p].list = {} BY DEF Init, Rest
  <2>5. now \in Time /\ latest \in Optional /\ latest <= now BY <2>1 DEF Init, Optional, None
  <2>6. sent \in [Msg -> Optional] /\ \A m \in Msg : sent[m] <= now BY DEF Init, Optional, None
  <2>7. cursor \in Int /\ cursor <= now BY DEF Init
  <2>9. remembers \in BOOLEAN BY DEF Init
  <2>8. crashes \in 0 .. MaxCrashes BY IngestAssumption DEF Init
  <2> QED BY <1>1, <2>3, <2>4, <2>5, <2>6, <2>7, <2>8, <2>9 DEF TypeOK, Init
<1>3. InReach BY <1>1 DEF InReach
<1>4. InHand BY DEF Init, InHand, Rest
<1> QED BY <1>2, <1>3, <1>4 DEF IInv

\* Storing a message: it no longer waits, and what is passed over is excused.
LEMMA CreateKeeps ==
  ASSUME TypeOK, InReach, NEW m \in Waiting, Create(m),
         now' = now, cursor' = cursor, remembers' = remembers
  PROVE  /\ Waiting' = Waiting \ {m}
         /\ \A q \in Waiting' : sent'[q] = sent[q]
         /\ (Waiting \ excused)' \subseteq Waiting \ excused
         /\ InReach'
         /\ sent' \in [Msg -> Optional] /\ \A q \in Msg : sent'[q] <= now
         /\ stored' = stored \cup {m} /\ stored' \subseteq Msg \ Waiting'
         /\ latest' = now
         /\ excused' \subseteq Waiting'
<1>1. Waiting' = Waiting \ {m} /\ \A q \in Waiting' : sent'[q] = sent[q]
  BY DEF Create, Waiting, TypeOK
<1>2. (Waiting \ excused)' \subseteq Waiting \ excused
  BY <1>1 DEF Create
<1>3. excused' \subseteq Waiting'
  BY <1>1 DEF Create, PassedOver, TypeOK
<1>4. sent' \in [Msg -> Optional] /\ \A q \in Msg : sent'[q] <= now
  <2>1. now \in Int /\ now >= 0 BY IngestAssumption DEF TypeOK, Time
  <2>2. None \in Optional /\ None <= now BY <2>1 DEF Optional, None
  <2> QED BY <2>2 DEF Create, TypeOK, Waiting
<1>5. stored' = stored \cup {m} /\ stored' \subseteq Msg \ Waiting'
  BY <1>1 DEF Create, TypeOK, Waiting
<1>6. latest' = now BY DEF Create
<1>7. InReach'
  <2> SUFFICES ASSUME NEW q \in (Waiting \ excused)'
               PROVE  (Cutoff(latest))' <= sent'[q]
    BY DEF InReach
  <2>1. q \in Waiting \ excused /\ sent'[q] = sent[q] BY <1>1, <1>2
  <2>2. CASE remembers
    BY <2>1, <2>2 DEF InReach, Cutoff, Since
  <2>3. CASE ~ remembers
    <3>1. q \notin PassedOver(now) BY <2>3, <1>1 DEF Create
    <3>2. now \in Optional /\ now # None /\ now \in Int
      BY IngestAssumption DEF TypeOK, Optional, Time, None
    <3>3. ~ (sent[q] < now - 2 * Overlap) BY <2>1, <3>1, <3>2 DEF PassedOver
    <3>4. Fallback(latest) - Overlap <= sent[q]
      BY <2>1, <2>3 DEF InReach, Cutoff, Since
    <3>5. Fallback(now) - Overlap <= sent[q]
      BY <2>1, <3>2, <3>3, <3>4, FallbackReach, FallbackFloor DEF TypeOK
    <3>6. (Cutoff(latest))' = Fallback(now) - Overlap
      BY <1>6, <2>3 DEF Cutoff, Since, Fallback
    <3> QED BY <3>5, <3>6, <2>1
  <2> QED BY <2>2, <2>3
<1> QED BY <1>1, <1>2, <1>3, <1>4, <1>5, <1>6, <1>7

LEMMA CreateTypes ==
  ASSUME TypeOK, InReach, NEW m \in Waiting, Create(m),
         UNCHANGED <<now, cursor, remembers, crashes>>,
         poll' \in [Poller -> PollState],
         \A p \in Poller : poll'[p].list \subseteq Waiting \cup stored
  PROVE  TypeOK'
<1>1. /\ Waiting' = Waiting \ {m}
      /\ sent' \in [Msg -> Optional] /\ \A q \in Msg : sent'[q] <= now
      /\ stored' = stored \cup {m} /\ stored' \subseteq Msg \ Waiting'
      /\ latest' = now /\ excused' \subseteq Waiting'
  BY CreateKeeps
<1>2. now \in Time /\ latest' \in Optional /\ latest' <= now'
  BY <1>1, IngestAssumption DEF TypeOK, Optional, Time
<1>3. \A p \in Poller : poll'[p].list \subseteq (Waiting \cup stored)'
  BY <1>1
<1> QED BY <1>1, <1>2, <1>3 DEF TypeOK

\* A poll that drops what does not wait, or is excused, or stops altogether,
\* still has in hand what it must.
LEMMA InHandKept ==
  ASSUME TypeOK, InHand, now' \in Time, now <= now',
         (Waiting \ excused)' \subseteq Waiting \ excused,
         \A q \in (Waiting \ excused)' : sent'[q] = sent[q],
         \A p \in Poller : poll'[p] = Rest \/
           /\ poll'[p].at = poll[p].at /\ poll'[p].began = poll[p].began
           /\ poll'[p].cutoff = poll[p].cutoff /\ poll'[p].list \subseteq poll[p].list
           /\ (poll[p].list \ poll'[p].list) \cap (Waiting \ excused)' = {}
  PROVE  InHand'
<1> SUFFICES ASSUME NEW p \in Poller, poll'[p].at # "idle"
             PROVE  /\ poll'[p].began <= now'
                    /\ \A m \in (Waiting \ excused)' :
                         sent'[m] < poll'[p].began => m \in poll'[p].list
                    /\ poll'[p].at = "read" =>
                         \A m \in (Waiting \ excused)' \cap poll'[p].list :
                           poll'[p].cutoff <= sent'[m]
  BY DEF InHand
<1>1. poll'[p] # Rest BY DEF Rest
<1>2. /\ poll'[p].at = poll[p].at /\ poll'[p].began = poll[p].began
      /\ poll'[p].cutoff = poll[p].cutoff /\ poll'[p].list \subseteq poll[p].list
      /\ (poll[p].list \ poll'[p].list) \cap (Waiting \ excused)' = {}
  BY <1>1
<1>3. poll'[p].began <= now'
  BY <1>2, IngestAssumption DEF InHand, TypeOK, PollState, Time
<1> QED BY <1>2, <1>3 DEF InHand

\* The pollers' part of the type invariant, when one poller moves on.
LEMMA PollKept ==
  ASSUME TypeOK, NEW p \in Poller, NEW s \in PollState,
         poll' = [poll EXCEPT ![p] = s],
         s.list \subseteq (Waiting \cup stored)', Waiting \cup stored \subseteq (Waiting \cup stored)'
  PROVE  /\ poll' \in [Poller -> PollState]
         /\ \A q \in Poller : poll'[q].list \subseteq (Waiting \cup stored)'
         /\ poll'[p] = s /\ \A q \in Poller \ {p} : poll'[q] = poll[q]
BY DEF TypeOK

LEMMA RestState == Rest \in PollState /\ Rest.list = {} /\ Rest.at = "idle"
BY IngestAssumption DEF Rest, PollState, Time

LEMMA DroppedState ==
  ASSUME TypeOK, NEW p \in Poller, NEW m \in Msg
  PROVE  LET s == [poll[p] EXCEPT !.list = @ \ {m}] IN
           /\ s \in PollState
           /\ Dropped(p, m) = [poll EXCEPT ![p] = s]
           /\ s.at = poll[p].at /\ s.began = poll[p].began /\ s.cutoff = poll[p].cutoff
           /\ s.list = poll[p].list \ {m}
<1>1. poll[p] \in PollState BY DEF TypeOK
<1> QED BY <1>1 DEF Dropped, TypeOK, PollState

\* Every step keeps the invariant.
THEOREM StepIInv == IInv /\ [Next]_vars => IInv'
<1> SUFFICES ASSUME IInv, [Next]_vars PROVE IInv' OBVIOUS
<1>0. TypeOK /\ InReach /\ InHand BY DEF IInv
<1>1. ASSUME Tick PROVE IInv'
  <2>1. now' \in Time /\ now <= now' BY <1>0, <1>1, IngestAssumption DEF Tick, TypeOK, Time
  <2>2. /\ UNCHANGED <<sent, stored, latest, cursor, remembers, poll, crashes, Waiting>>
        /\ excused' = excused \cup IF remembers THEN {} ELSE TooOld(now + 1)
        /\ now' = now + 1
    BY <1>1 DEF Tick, Waiting
  <2>3. TypeOK'
    <3>1. \A m \in Msg : sent'[m] <= now'
      BY <1>0, <2>1, <2>2, IngestAssumption DEF TypeOK, Time, Optional, None
    <3>2. latest' <= now' /\ cursor' <= now'
      BY <1>0, <2>1, <2>2, IngestAssumption DEF TypeOK, Time, Optional, None
    <3>3. excused' \subseteq Waiting'
      BY <1>0, <2>2 DEF TypeOK, TooOld
    <3> QED BY <1>0, <2>1, <2>2, <3>1, <3>2, <3>3 DEF TypeOK
  <2>4. InReach'
    <3> SUFFICES ASSUME NEW m \in Waiting \ excused, m \notin excused'
                 PROVE  (Cutoff(latest))' <= sent[m]
      BY <2>2 DEF InReach
    <3>1. Cutoff(latest) <= sent[m] BY <1>0 DEF InReach
    <3>2. CASE remembers BY <3>1, <3>2, <2>2 DEF Cutoff, Since
    <3>3. CASE ~ remembers
      <4>1. ~ (sent[m] < now' - Catchup - Overlap) BY <2>2, <3>3 DEF TooOld
      <4>2. latest \in Optional /\ Fallback(latest) - Overlap <= sent[m]
        BY <1>0, <3>1, <3>3 DEF Cutoff, Since, TypeOK
      <4>3. latest # None => ~ (sent[m] < latest - 2 * Overlap)
        BY <1>0, <4>2, FallbackFloor
      <4>4. now' \in Int /\ sent[m] \in Int
        BY <1>0, <2>1, IngestAssumption DEF TypeOK, Waiting, Time, Optional, None
      <4>5. (Fallback(latest))' - Overlap <= sent[m]
        BY <2>2, <4>1, <4>2, <4>3, <4>4, IngestAssumption DEF Fallback, Later, Optional, Time, None
      <4> QED BY <4>5, <3>3, <2>2 DEF Cutoff, Since
    <3> QED BY <3>2, <3>3
  <2>5. (Waiting \ excused)' \subseteq Waiting \ excused BY <2>2
  <2>6. InHand' BY <1>0, <2>1, <2>2, <2>5, InHandKept
  <2> QED BY <2>3, <2>4, <2>6 DEF IInv
<1>2. ASSUME NEW m \in Msg, Send(m) PROVE IInv'
  <2>0. now \in Int /\ now >= 0 /\ now # None /\ now \in Optional
    BY <1>0, IngestAssumption DEF TypeOK, Time, None, Optional
  <2>1. Waiting' = Waiting \cup {m} /\ sent'[m] = now /\ m \notin Waiting
    BY <1>0, <1>2, <2>0 DEF Send, Waiting, TypeOK
  <2>2. \A q \in Msg \ {m} : sent'[q] = sent[q]
    BY <1>0, <1>2 DEF Send, TypeOK
  <2>3. UNCHANGED <<now, stored, latest, cursor, remembers, poll, crashes, excused>>
    BY <1>2 DEF Send
  <2>4. TypeOK'
    <3>1. sent' \in [Msg -> Optional] BY <1>0, <1>2, <2>0 DEF Send, TypeOK
    <3>2. \A q \in Msg : sent'[q] <= now' BY <1>0, <2>0, <2>1, <2>2, <2>3 DEF TypeOK
    <3>3. stored \subseteq Msg \ Waiting' BY <1>0, <1>2, <2>1 DEF Send, TypeOK
    <3> QED BY <1>0, <2>1, <2>3, <3>1, <3>2, <3>3 DEF TypeOK
  <2>5. InReach'
    <3> SUFFICES ASSUME NEW q \in Waiting' \ excused PROVE Cutoff(latest) <= sent'[q]
      BY <2>3 DEF InReach, Cutoff, Since, Fallback
    <3>1. CASE q # m BY <1>0, <2>1, <2>2, <3>1 DEF InReach, Waiting
    <3>2. CASE q = m
      <4>1. Fallback(latest) \in Int /\ Fallback(latest) <= now
        BY <1>0, FallbackBound DEF TypeOK
      <4>2. cursor \in Int /\ cursor <= now BY <1>0 DEF TypeOK
      <4> QED BY <4>1, <4>2, <3>2, <2>0, <2>1, IngestAssumption DEF Cutoff, Since
    <3> QED BY <3>1, <3>2
  <2>6. InHand'
    <3> SUFFICES ASSUME NEW p \in Poller, poll[p].at # "idle"
                 PROVE  /\ poll[p].began <= now
                        /\ \A q \in Waiting' \ excused :
                             sent'[q] < poll[p].began => q \in poll[p].list
                        /\ poll[p].at = "read" =>
                             \A q \in (Waiting' \ excused) \cap poll[p].list :
                               poll[p].cutoff <= sent'[q]
      BY <2>3 DEF InHand
    <3>1. poll[p].began <= now /\ poll[p].began \in Int
      BY <1>0, IngestAssumption DEF InHand, TypeOK, PollState, Time
    <3>2. ~ (now < poll[p].began) BY <3>1, <2>0
    <3>3. m \notin poll[p].list BY <1>0, <1>2 DEF Send, TypeOK
    <3>4. Waiting \subseteq Msg BY DEF Waiting
    <3> QED BY <1>0, <2>1, <2>2, <3>1, <3>2, <3>3, <3>4 DEF InHand
  <2> QED BY <2>4, <2>5, <2>6 DEF IInv
<1>3. ASSUME NEW m \in Msg, Webhook(m) PROVE IInv'
  <2>1. m \in Waiting /\ Create(m) BY <1>3 DEF Webhook
  <2>2. UNCHANGED <<now, cursor, remembers, poll, crashes>> BY <1>3 DEF Webhook
  <2>3. /\ Waiting' = Waiting \ {m} /\ (Waiting \ excused)' \subseteq Waiting \ excused
        /\ \A q \in Waiting' : sent'[q] = sent[q]
        /\ InReach'
        /\ sent' \in [Msg -> Optional] /\ \A q \in Msg : sent'[q] <= now
        /\ stored' = stored \cup {m} /\ stored' \subseteq Msg \ Waiting'
        /\ latest' = now /\ excused' \subseteq Waiting'
    BY <1>0, <2>1, <2>2, CreateKeeps
  <2>4. TypeOK'
    <3>1. poll' \in [Poller -> PollState] /\ \A p \in Poller : poll'[p].list \subseteq Waiting \cup stored
      BY <1>0, <2>2 DEF TypeOK
    <3> QED BY <1>0, <2>1, <2>2, <3>1, CreateTypes
  <2>5. now' \in Time /\ now <= now' BY <1>0, <2>2, IngestAssumption DEF TypeOK, Time
  <2>6. InHand' BY <1>0, <2>2, <2>3, <2>5, InHandKept
  <2> QED BY <2>3, <2>4, <2>6 DEF IInv
<1>4. ASSUME NEW p \in Poller, Lists(p) PROVE IInv'
  <2> DEFINE s == [at |-> "window", began |-> now, list |-> Waiting, cutoff |-> 0]
  <2>1. poll' = [poll EXCEPT ![p] = s] BY <1>4 DEF Lists
  <2>2. UNCHANGED <<now, sent, stored, latest, cursor, remembers, crashes, excused, Waiting>>
    BY <1>4 DEF Lists, Waiting
  <2>3. s \in PollState BY <1>0 DEF TypeOK, PollState, Waiting
  <2>4. /\ poll' \in [Poller -> PollState]
        /\ \A q \in Poller : poll'[q].list \subseteq (Waiting \cup stored)'
        /\ poll'[p] = s /\ \A q \in Poller \ {p} : poll'[q] = poll[q]
    BY <1>0, <2>1, <2>2, <2>3, PollKept
  <2>5. TypeOK' BY <1>0, <2>2, <2>4 DEF TypeOK
  <2>6. InReach' BY <1>0, <2>2 DEF InReach, Cutoff, Since, Fallback
  <2>7. now <= now BY <1>0, IngestAssumption DEF TypeOK, Time
  <2>8. InHand' BY <1>0, <2>2, <2>4, <2>7 DEF InHand
  <2> QED BY <2>5, <2>6, <2>8 DEF IInv
<1>5. ASSUME NEW p \in Poller, Window(p) PROVE IInv'
  <2> DEFINE s == [poll[p] EXCEPT !.at = "read", !.cutoff = Cutoff(latest)]
  <2>0. poll[p] \in PollState BY <1>0 DEF TypeOK
  <2>1. poll' = [poll EXCEPT ![p] = s] BY <1>5, <1>0 DEF Window, TypeOK
  <2>2. UNCHANGED <<now, sent, stored, latest, cursor, remembers, crashes, excused, Waiting>>
    BY <1>5 DEF Window, Waiting
  <2>3. Cutoff(latest) \in Int
    <3>1. Fallback(latest) \in Int BY <1>0, FallbackBound DEF TypeOK
    <3> QED BY <3>1, <1>0, IngestAssumption DEF Cutoff, Since, TypeOK
  <2>4. /\ s \in PollState /\ s.at = "read" /\ s.cutoff = Cutoff(latest)
        /\ s.list = poll[p].list /\ s.began = poll[p].began
    BY <2>0, <2>3 DEF PollState
  <2>5. /\ poll' \in [Poller -> PollState]
        /\ \A q \in Poller : poll'[q].list \subseteq (Waiting \cup stored)'
        /\ poll'[p] = s /\ \A q \in Poller \ {p} : poll'[q] = poll[q]
    <3>1. poll[p].list \subseteq Waiting \cup stored BY <1>0 DEF TypeOK
    <3> QED BY <1>0, <2>1, <2>2, <2>4, <3>1, PollKept
  <2>6. TypeOK' BY <1>0, <2>2, <2>5 DEF TypeOK
  <2>7. InReach' BY <1>0, <2>2 DEF InReach, Cutoff, Since, Fallback
  <2>8. poll[p].at = "window" BY <1>5 DEF Window
  <2>9. InHand'
    <3> SUFFICES ASSUME NEW q \in Poller, poll'[q].at # "idle"
                 PROVE  /\ poll'[q].began <= now
                        /\ \A m \in Waiting \ excused :
                             sent[m] < poll'[q].began => m \in poll'[q].list
                        /\ poll'[q].at = "read" =>
                             \A m \in (Waiting \ excused) \cap poll'[q].list :
                               poll'[q].cutoff <= sent[m]
      BY <2>2 DEF InHand
    <3>1. CASE q = p BY <3>1, <1>0, <2>4, <2>5, <2>8 DEF InHand, InReach
    <3>2. CASE q # p BY <3>2, <1>0, <2>5 DEF InHand
    <3> QED BY <3>1, <3>2
  <2> QED BY <2>6, <2>7, <2>9 DEF IInv
<1>6. ASSUME NEW p \in Poller, NEW m \in Msg, Skips(p, m) PROVE IInv'
  <2> DEFINE s == [poll[p] EXCEPT !.list = @ \ {m}]
  <2>1. /\ s \in PollState /\ poll' = [poll EXCEPT ![p] = s]
        /\ s.at = poll[p].at /\ s.began = poll[p].began /\ s.cutoff = poll[p].cutoff
        /\ s.list = poll[p].list \ {m}
    BY <1>0, <1>6, DroppedState DEF Skips
  <2>2. UNCHANGED <<now, sent, stored, latest, cursor, remembers, crashes, excused, Waiting>>
    BY <1>6 DEF Skips, Waiting
  <2>3. /\ poll' \in [Poller -> PollState]
        /\ \A q \in Poller : poll'[q].list \subseteq (Waiting \cup stored)'
        /\ poll'[p] = s /\ \A q \in Poller \ {p} : poll'[q] = poll[q]
    <3>1. poll[p].list \subseteq Waiting \cup stored BY <1>0 DEF TypeOK
    <3> QED BY <1>0, <2>1, <2>2, <3>1, PollKept
  <2>4. TypeOK' BY <1>0, <2>2, <2>3 DEF TypeOK
  <2>5. InReach' BY <1>0, <2>2 DEF InReach, Cutoff, Since, Fallback
  <2>6. m \notin Waiting \ excused
    <3> SUFFICES ASSUME m \in Waiting \ excused PROVE FALSE OBVIOUS
    <3>1. sent[m] < poll[p].cutoff /\ poll[p].at = "read" /\ m \in poll[p].list
      BY <1>6 DEF Skips, Reading
    <3>2. poll[p].cutoff <= sent[m] BY <1>0, <3>1 DEF InHand
    <3>3. poll[p].cutoff \in Int /\ sent[m] \in Int
      BY <1>0, IngestAssumption DEF TypeOK, PollState, Optional, Time, None
    <3> QED BY <3>1, <3>2, <3>3
  <2>7. now' \in Time /\ now <= now' BY <1>0, <2>2, IngestAssumption DEF TypeOK, Time
  <2>8. InHand' BY <1>0, <2>1, <2>2, <2>3, <2>6, <2>7, InHandKept
  <2> QED BY <2>4, <2>5, <2>8 DEF IInv
<1>7. ASSUME NEW p \in Poller, NEW m \in Msg, ReadFails(p, m) PROVE IInv'
  <2> DEFINE s == [poll[p] EXCEPT !.list = @ \ {m}]
  <2>1. /\ s \in PollState /\ poll' = [poll EXCEPT ![p] = s]
        /\ s.at = poll[p].at /\ s.began = poll[p].began /\ s.cutoff = poll[p].cutoff
        /\ s.list = poll[p].list \ {m}
    BY <1>0, <1>7, DroppedState DEF ReadFails
  <2>2. UNCHANGED <<now, sent, stored, latest, cursor, remembers, crashes, Waiting>>
    BY <1>7 DEF ReadFails, Waiting
  <2>3. m \in Waiting /\ excused' = excused \cup {m} BY <1>7 DEF ReadFails
  <2>4. /\ poll' \in [Poller -> PollState]
        /\ \A q \in Poller : poll'[q].list \subseteq (Waiting \cup stored)'
        /\ poll'[p] = s /\ \A q \in Poller \ {p} : poll'[q] = poll[q]
    <3>1. poll[p].list \subseteq Waiting \cup stored BY <1>0 DEF TypeOK
    <3> QED BY <1>0, <2>1, <2>2, <3>1, PollKept
  <2>5. TypeOK' BY <1>0, <2>2, <2>3, <2>4 DEF TypeOK
  <2>6. InReach' BY <1>0, <2>2, <2>3 DEF InReach, Cutoff, Since, Fallback
  <2>7. now' \in Time /\ now <= now' BY <1>0, <2>2, IngestAssumption DEF TypeOK, Time
  <2>8. InHand' BY <1>0, <2>1, <2>2, <2>3, <2>4, <2>7, InHandKept
  <2> QED BY <2>5, <2>6, <2>8 DEF IInv
<1>8. ASSUME NEW p \in Poller, NEW m \in Msg, Captures(p, m) PROVE IInv'
  <2> DEFINE s == [poll[p] EXCEPT !.list = @ \ {m}]
  <2>1. m \in Waiting /\ Create(m) /\ UNCHANGED <<now, cursor, remembers, crashes>>
    BY <1>8 DEF Captures
  <2>2. /\ s \in PollState /\ poll' = [poll EXCEPT ![p] = s]
        /\ s.at = poll[p].at /\ s.began = poll[p].began /\ s.cutoff = poll[p].cutoff
        /\ s.list = poll[p].list \ {m}
    BY <1>0, <1>8, DroppedState DEF Captures
  <2>3. poll'[p] = s /\ \A q \in Poller \ {p} : poll'[q] = poll[q]
    BY <1>0, <2>2 DEF TypeOK
  <2>4. poll' \in [Poller -> PollState] /\ \A q \in Poller : poll'[q].list \subseteq Waiting \cup stored
    BY <1>0, <2>2, <2>3 DEF TypeOK
  <2>5. TypeOK' BY <1>0, <2>1, <2>4, CreateTypes
  <2>6. /\ Waiting' = Waiting \ {m} /\ (Waiting \ excused)' \subseteq Waiting \ excused
        /\ \A q \in Waiting' : sent'[q] = sent[q]
        /\ InReach'
    BY <1>0, <2>1, CreateKeeps
  <2>7. now' \in Time /\ now <= now' BY <1>0, <2>1, IngestAssumption DEF TypeOK, Time
  <2>8. InHand' BY <1>0, <2>2, <2>3, <2>6, <2>7, InHandKept
  <2> QED BY <2>5, <2>6, <2>8 DEF IInv
<1>9. ASSUME NEW p \in Poller, NEW m \in Msg, CapturesAndThrows(p, m) PROVE IInv'
  <2>1. m \in Waiting /\ Create(m) /\ UNCHANGED <<now, cursor, remembers, crashes>>
    BY <1>9 DEF CapturesAndThrows
  <2>2. poll' = [poll EXCEPT ![p] = Rest] BY <1>9 DEF CapturesAndThrows, Throws
  <2>3. poll'[p] = Rest /\ \A q \in Poller \ {p} : poll'[q] = poll[q]
    BY <1>0, <2>2 DEF TypeOK
  <2>4. poll' \in [Poller -> PollState] /\ \A q \in Poller : poll'[q].list \subseteq Waiting \cup stored
    BY <1>0, <2>2, <2>3, RestState DEF TypeOK
  <2>5. TypeOK' BY <1>0, <2>1, <2>4, CreateTypes
  <2>6. /\ Waiting' = Waiting \ {m} /\ (Waiting \ excused)' \subseteq Waiting \ excused
        /\ \A q \in Waiting' : sent'[q] = sent[q]
        /\ InReach'
    BY <1>0, <2>1, CreateKeeps
  <2>7. now' \in Time /\ now <= now' BY <1>0, <2>1, IngestAssumption DEF TypeOK, Time
  <2>8. InHand' BY <1>0, <2>3, <2>6, <2>7, InHandKept
  <2> QED BY <2>5, <2>6, <2>8 DEF IInv
<1>10. ASSUME NEW p \in Poller, PollEnds(p) PROVE IInv'
  <2>1. poll' = [poll EXCEPT ![p] = Rest] BY <1>10 DEF PollEnds
  <2>2. UNCHANGED <<now, sent, stored, latest, crashes, Waiting>> BY <1>10 DEF PollEnds, Waiting
  <2>3. cursor' = now - Lag /\ remembers' = TRUE /\ excused' = excused \cup MissedWhileReading(p)
    BY <1>10 DEF PollEnds
  <2>4. now \in Int /\ poll[p].began \in Int /\ now \in Time
    BY <1>0, IngestAssumption DEF TypeOK, PollState, Time
  <2>5. /\ poll' \in [Poller -> PollState]
        /\ \A q \in Poller : poll'[q].list \subseteq (Waiting \cup stored)'
        /\ poll'[p] = Rest /\ \A q \in Poller \ {p} : poll'[q] = poll[q]
    BY <1>0, <2>1, <2>2, RestState, PollKept
  <2>6. cursor' \in Int /\ cursor' <= now BY <2>3, <2>4, IngestAssumption
  <2>7. excused' \subseteq Waiting BY <1>0, <2>3 DEF TypeOK, MissedWhileReading
  <2>8. TypeOK' BY <1>0, <2>2, <2>3, <2>5, <2>6, <2>7 DEF TypeOK
  <2>9. InReach'
    <3> SUFFICES ASSUME NEW m \in Waiting, m \notin excused, m \notin MissedWhileReading(p)
                 PROVE  cursor' - Overlap <= sent[m]
      BY <2>2, <2>3 DEF InReach, Cutoff, Since
    <3>1. sent[m] \in Int BY <1>0 DEF TypeOK, Waiting, Optional, Time, None
    <3>2. poll[p].at = "read" /\ poll[p].list = {} BY <1>10 DEF PollEnds
    <3>3. ~ (sent[m] < poll[p].began) BY <1>0, <3>2 DEF InHand
    <3>4. poll[p].began <= sent[m] BY <3>1, <3>3, <2>4
    <3>5. ~ (now - poll[p].began > Lag + Overlap) BY <3>4 DEF MissedWhileReading
    <3>6. now - Lag - Overlap <= sent[m] BY <3>1, <3>4, <3>5, <2>4, IngestAssumption
    <3> QED BY <3>6, <2>3
  <2>10. InHand' BY <1>0, <2>2, <2>3, <2>4, <2>5, InHandKept
  <2> QED BY <2>8, <2>9, <2>10 DEF IInv
<1>11. ASSUME Crash PROVE IInv'
  <2>1. UNCHANGED <<now, sent, stored, latest, Waiting>> BY <1>11 DEF Crash, Waiting
  <2>2. /\ cursor' = 0 /\ remembers' = FALSE /\ crashes' = crashes + 1 /\ crashes < MaxCrashes
        /\ poll' = [p \in Poller |-> Rest]
        /\ excused' = excused \cup TooOld(now) \cup PassedOver(latest)
    BY <1>11 DEF Crash
  <2>3. now \in Int /\ now \in Time /\ 0 <= now
    BY <1>0, IngestAssumption DEF TypeOK, Time
  <2>4. poll' \in [Poller -> PollState] /\ \A p \in Poller : poll'[p] = Rest
    BY <2>2, RestState
  <2>5. crashes' \in 0 .. MaxCrashes BY <1>0, <2>2, IngestAssumption DEF TypeOK
  <2>6. \A p \in Poller : poll'[p].list \subseteq Waiting \cup stored BY <2>4, RestState
  <2>7. excused' \subseteq Waiting BY <1>0, <2>2 DEF TypeOK, PassedOver, TooOld
  <2>8. cursor' \in Int /\ cursor' <= now BY <2>2, <2>3
  <2>9. TypeOK' BY <1>0, <2>1, <2>2, <2>4, <2>5, <2>6, <2>7, <2>8 DEF TypeOK
  <2>10. InReach'
    <3> SUFFICES ASSUME NEW m \in Waiting, m \notin PassedOver(latest), m \notin TooOld(now)
                 PROVE  Fallback(latest) - Overlap <= sent[m]
      BY <2>1, <2>2 DEF InReach, Cutoff, Since, Fallback
    <3>1. ~ (sent[m] < now - Catchup - Overlap) BY DEF TooOld
    <3>2. latest # None => ~ (sent[m] < latest - 2 * Overlap) BY DEF PassedOver
    <3> QED BY <1>0, <3>1, <3>2, FallbackReach DEF TypeOK
  <2>11. InHand' BY <2>4, RestState DEF InHand
  <2> QED BY <2>9, <2>10, <2>11 DEF IInv
<1>12. ASSUME UNCHANGED vars PROVE IInv'
  <2>1. UNCHANGED <<now, sent, stored, latest, cursor, remembers, poll, crashes, excused, Waiting>>
    BY <1>12 DEF vars, Waiting
  <2> QED BY <1>0, <2>1 DEF IInv, TypeOK, InReach, InHand, Cutoff, Since, Fallback
<1> QED
  BY <1>1, <1>2, <1>3, <1>4, <1>5, <1>6, <1>7, <1>8, <1>9, <1>10, <1>11, <1>12
  DEF Next, Poll, Reads

\* Every reachable state has the right types.
THEOREM TypeCorrect == Spec => []TypeOK
<1>1. IInv => TypeOK BY DEF IInv
<1> QED BY <1>1, InitIInv, StepIInv, PTL DEF Spec

\* A message that waits to be stored is behind the next poll's window only in
\* one of the four ways InReach names. That the cursor is set from the end of a
\* poll is made good by what the poll had in hand (InHand).
THEOREM AlwaysInReach == Spec => []InReach
<1>1. IInv => InReach BY DEF IInv
<1> QED BY <1>1, InitIInv, StepIInv, PTL DEF Spec
=============================================================================
