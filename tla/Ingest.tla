------------------------------- MODULE Ingest -------------------------------
(***************************************************************************)
(* How the messages of one connected Instagram account become stored       *)
(* events: Meta's webhook is the first way, and the poller the fallback for *)
(* accounts "where Meta does not deliver webhook events". The poller keeps *)
(* a cursor in memory and reads only the messages of a window behind it,   *)
(* so the question is whether a message can leave the window unread.       *)
(* Time is counted in ticks; Lag, Overlap and Catchup stand for the 30     *)
(* seconds, 2 minutes and 24 hours of the code. A message is its own       *)
(* conversation, and the pages of 50 conversations and 20 messages are     *)
(* taken to be long enough. Reading a stored message again, by webhook or  *)
(* poll, meets the unique event key and changes nothing.                   *)
(***************************************************************************)
EXTENDS Integers, FiniteSets

CONSTANTS Msg,
  Poller,      \* the timers, one poller by the flag "polling", and the button
  Lag, Overlap, Catchup,
  MaxNow,      \* bound on the clock
  MaxCrashes   \* bound on restarts of the API process

ASSUME IngestAssumption ==
  /\ Lag \in Nat /\ Overlap \in Nat /\ Catchup \in Nat
  /\ MaxNow \in Nat /\ MaxCrashes \in Nat

None == 0 - 1

VARIABLES
  now,       \* the clock
  sent,      \* when each message that waits to be stored was sent, else None
  stored,    \* messages with an event row
  latest,    \* receivedAt of the last event row, or None
  cursor,    \* lastSuccessfulPoll of the channel, while the process knows one
  remembers, \* whether it does
  poll,      \* what each poller is doing
  crashes,
  excused    \* history: messages that the window may have passed, by one of
             \* the four ways InReach names

vars == <<now, sent, stored, latest, cursor, remembers, poll, crashes, excused>>

Rest == [at |-> "idle", began |-> 0, list |-> {}, cutoff |-> 0]
Waiting == {m \in Msg : sent[m] # None}

Init ==
  /\ now = 0
  /\ sent = [m \in Msg |-> None]
  /\ stored = {} /\ latest = None
  /\ cursor = 0 /\ remembers = FALSE
  /\ poll = [p \in Poller |-> Rest]
  /\ crashes = 0
  /\ excused = {}

\* Two of the ways, at time t: the process knows no cursor, and the message is
\* older than a day and an overlap, or was sent more than two overlaps before
\* the last event, whichever message that one was about.
TooOld(t) == {m \in Waiting : sent[m] < t - Catchup - Overlap}
PassedOver(last) == {m \in Waiting : last # None /\ sent[m] < last - 2 * Overlap}

\* Time passes: in a process that runs, or while it is stopped (a host that
\* puts an idle service to sleep), between Crash and its first poll.
Tick ==
  /\ now < MaxNow
  /\ now' = now + 1
  /\ excused' = excused \cup IF remembers THEN {} ELSE TooOld(now + 1)
  /\ UNCHANGED <<sent, stored, latest, cursor, remembers, poll, crashes>>

\* A customer writes.
Send(m) ==
  /\ m \notin Waiting \cup stored
  /\ sent' = [sent EXCEPT ![m] = now]
  /\ UNCHANGED <<now, stored, latest, cursor, remembers, poll, crashes, excused>>

-----------------------------------------------------------------------------
Later(a, b) == IF a > b THEN a ELSE b

\* Where the window starts: the cursor if there is one, else an overlap before
\* the last event, and a day ago at the earliest.
Fallback(last) ==
  Later(now - Catchup, IF last = None THEN now - Catchup ELSE last - Overlap)
Since(last) == IF remembers THEN cursor ELSE Fallback(last)

\* Mistake: the messages of the overlap are skipped as well.
CutoffSince(last) == Since(last)
\* Messages older than this are skipped.
Cutoff(last) == Since(last) - Overlap

\* The event row is created.
Create(m) ==
  /\ stored' = stored \cup {m}
  /\ sent' = [sent EXCEPT ![m] = None]
  /\ latest' = now
  /\ excused' = (excused \cup IF remembers THEN {} ELSE PassedOver(now)) \ {m}

\* Meta delivers the webhook, if it does at all, and the row is created. When
\* the job cannot be queued the answer is an error and Meta calls again.
Webhook(m) ==
  /\ m \in Waiting
  /\ Create(m)
  /\ UNCHANGED <<now, cursor, remembers, poll, crashes>>

-----------------------------------------------------------------------------
\* A poll begins with the list of conversations. When no endpoint answers it,
\* the poll throws and leaves nothing behind.
Lists(p) ==
  /\ poll[p].at = "idle"
  /\ poll' = [poll EXCEPT ![p] =
       [at |-> "window", began |-> now, list |-> Waiting, cutoff |-> 0]]
  /\ UNCHANGED <<now, sent, stored, latest, cursor, remembers, crashes, excused>>

Window(p) ==
  /\ poll[p].at = "window"
  /\ poll' = [poll EXCEPT ![p].at = "read", ![p].cutoff = Cutoff(latest)]
  /\ UNCHANGED <<now, sent, stored, latest, cursor, remembers, crashes, excused>>

Reading(p, m) == poll[p].at = "read" /\ m \in poll[p].list
Dropped(p, m) == [poll EXCEPT ![p].list = @ \ {m}]

\* Too old for the window, or the unique key says it is there already.
Skips(p, m) ==
  /\ Reading(p, m)
  /\ m \in Waiting => sent[m] < poll[p].cutoff
  /\ poll' = Dropped(p, m)
  /\ UNCHANGED <<now, sent, stored, latest, cursor, remembers, crashes, excused>>

\* The conversation or the message cannot be read: it is left for the next
\* poll, whose window need not reach it if this happens for long.
ReadFails(p, m) ==
  /\ Reading(p, m) /\ m \in Waiting /\ sent[m] >= poll[p].cutoff
  /\ poll' = Dropped(p, m)
  /\ excused' = excused \cup {m}
  /\ UNCHANGED <<now, sent, stored, latest, cursor, remembers, crashes>>

Captures(p, m) ==
  /\ Reading(p, m) /\ m \in Waiting /\ sent[m] >= poll[p].cutoff
  /\ Create(m)
  /\ poll' = Dropped(p, m)
  /\ UNCHANGED <<now, cursor, remembers, crashes>>

\* Mistake: an error leaves the flag "polling" set.
ThrowsBusy(p) == [poll EXCEPT ![p] = [Rest EXCEPT !.at = "busy"]]
\* The poll throws: the cursor stays where it was and the flag is cleared.
Throws(p) == [poll EXCEPT ![p] = Rest]

\* The row is created but its job cannot be queued.
CapturesAndThrows(p, m) ==
  /\ Reading(p, m) /\ m \in Waiting /\ sent[m] >= poll[p].cutoff
  /\ Create(m)
  /\ poll' = Throws(p)
  /\ UNCHANGED <<now, cursor, remembers, crashes>>

\* The cursor is set from the end of the poll. What was sent after the list
\* was read is behind the next window only if the poll was a long one.
MissedWhileReading(p) ==
  IF now - poll[p].began > Lag + Overlap
  THEN {m \in Waiting : sent[m] >= poll[p].began} ELSE {}

PollEnds(p) ==
  /\ poll[p].at = "read" /\ poll[p].list = {}
  /\ cursor' = now - Lag /\ remembers' = TRUE
  /\ poll' = [poll EXCEPT ![p] = Rest]
  /\ excused' = excused \cup MissedWhileReading(p)
  /\ UNCHANGED <<now, sent, stored, latest, crashes>>

\* The process is restarted: the cursor was only in its memory.
Crash ==
  /\ crashes < MaxCrashes
  /\ crashes' = crashes + 1
  /\ cursor' = 0 /\ remembers' = FALSE
  /\ poll' = [p \in Poller |-> Rest]
  /\ excused' = excused \cup TooOld(now) \cup PassedOver(latest)
  /\ UNCHANGED <<now, sent, stored, latest>>

-----------------------------------------------------------------------------
Reads(p, m) ==
  Skips(p, m) \/ ReadFails(p, m) \/ Captures(p, m) \/ CapturesAndThrows(p, m)

Poll(p) ==
  \/ Lists(p) \/ Window(p) \/ PollEnds(p)
  \/ \E m \in Msg : Reads(p, m)

Next ==
  \/ Tick \/ Crash
  \/ \E m \in Msg : Send(m) \/ Webhook(m)
  \/ \E p \in Poller : Poll(p)

Spec == Init /\ [][Next]_vars

\* The timer's polls run, and each is answered in the end. Nothing is assumed
\* of the webhook or of the button.
FairSpec == Spec /\ \A p \in Poller \ {"button"} : WF_vars(Poll(p))

-----------------------------------------------------------------------------
Time == 0 .. MaxNow
Optional == Time \cup {None}
PollState == [at : {"idle", "window", "read"}, began : Time, list : SUBSET Msg, cutoff : Int]

TypeOK ==
  /\ now \in Time
  /\ sent \in [Msg -> Optional]
  /\ \A m \in Msg : sent[m] <= now
  /\ stored \subseteq Msg \ Waiting
  /\ latest \in Optional /\ latest <= now
  /\ cursor \in Int /\ cursor <= now /\ remembers \in BOOLEAN
  /\ poll \in [Poller -> PollState]
  /\ \A p \in Poller : poll[p].list \subseteq Waiting \cup stored
  /\ crashes \in 0 .. MaxCrashes
  /\ excused \subseteq Waiting

\* A message that is not stored yet is in reach of the next poll: the window
\* never passes it unread, but in four ways: reading it failed; the poll took
\* longer than the lag and the overlap together; or no cursor was known, and
\* a later message was stored more than two overlaps after it, or it became
\* older than the 24 hours and the overlap.
InReach ==
  \A m \in Waiting \ excused : Cutoff(latest) <= sent[m]

\* Every message is stored in the end, also when Meta never delivers it.
Captured == \A m \in Msg : m \in Waiting ~> m \in stored \cup excused
=============================================================================
