---- MODULE Outbox ----
(***************************************************************************)
(* What a customer and a merchant are promised about the reply to one      *)
(* message, with no word on the transport, the queues, the runs and the    *)
(* rows behind it: it is worded once, a copy beyond the first has an       *)
(* excuse, and it is shown as sent only when the platform has taken it.    *)
(* Inbound, Reply and WhatsAppOutbound are each shown to implement this    *)
(* module; what counts as an excuse is for each of them to say.            *)
(***************************************************************************)
EXTENDS Naturals

CONSTANT Text      \* what a reply can say

VARIABLES text,    \* what the reply says, "none" before it is worded
          copies,  \* copies the platform has taken
          excused, \* copies beyond the first that what went wrong may cost
          shown    \* the merchant is told that it was sent

vars == <<text, copies, excused, shown>>

Init ==
    /\ text \in Text \cup {"none"}
    /\ copies = 0 /\ excused = 0 /\ shown = FALSE

Word ==
    /\ text = "none" /\ text' \in Text
    /\ UNCHANGED <<copies, excused, shown>>

(* The platform takes a copy; its answer may be lost on the way back.      *)
Take ==
    /\ text # "none" /\ copies <= excused
    /\ copies' = copies + 1
    /\ excused' >= excused
    /\ UNCHANGED <<text, shown>>

(* An answer, an update or a process is lost.                              *)
Excuse ==
    /\ excused' > excused
    /\ UNCHANGED <<text, copies, shown>>

Show ==
    /\ copies > 0
    /\ shown' = TRUE
    /\ UNCHANGED <<text, copies, excused>>

(* A late writer may overwrite the status.                                 *)
Hide ==
    /\ shown' = FALSE
    /\ UNCHANGED <<text, copies, excused>>

Next == Word \/ Take \/ Excuse \/ Show \/ Hide

Spec == Init /\ [][Next]_vars
====
