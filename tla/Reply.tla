---- MODULE Reply ----
(***************************************************************************)
(* One event from the agent to the customer (processInboundEvent, from the  *)
(* reading of the channel on, and deliver): Agent and Delivery composed     *)
(* with the event and its OUTBOUND row. Runs follow each other here, as the *)
(* claim of the event makes them; Inbound follows runs that overlap. What   *)
(* this module adds is what a retry may find: an order of an earlier run, a *)
(* text of an earlier run, credentials that have changed since.             *)
(***************************************************************************)
EXTENDS Agent, Delivery

CONSTANTS
    RetryLimit,  \* runs of an event (attempts < 10)
    MaxLost,     \* bound: answers of the Graph API or of the database that are lost
    Faults       \* which of "crash", "db_error" may happen

ASSUME ReplyAssumption ==
    RetryLimit \in Nat \ {0} /\ MaxLost \in Nat /\ Faults \subseteq {"crash", "db_error"}

VARIABLES
    event,    \* WebhookEvent.status
    reply,    \* status of the OUTBOUND row, "NONE" before it exists
    content,  \* its content
    wordRun   \* history: the run that worded the content

replyVars == <<event, reply, content, wordRun>>
vars == <<agentVars, deliveryVars, replyVars>>

(* Variables of the agent that only its own steps change. *)
agentRest == <<attempt, found, text, run, orderRun, unheard>>

Init ==
    /\ AgentInit /\ DeliveryInit
    /\ event = "RECEIVED" /\ reply = "NONE" /\ content = "none" /\ wordRun = 0

-----------------------------------------------------------------------------
(* A run claims the event and reads its channel. *)
Begin ==
    /\ stage = "idle" /\ event \in {"RECEIVED", "FAILED"} /\ run < RetryLimit
    /\ event' = "PROCESSING" /\ run' = run + 1
    /\ stage' = "start" /\ attempt' = 1 /\ found' = "nothing" /\ text' = "none"
    /\ held' = cred /\ glitch' = FALSE
    /\ UNCHANGED <<orderRun, unheard, rowVars, todo, copies, lost, reply, content, wordRun>>

Thinks == AgentStep /\ UNCHANGED <<deliveryVars, replyVars>>

(* The upsert keeps the text of an earlier run. *)
SaveReply ==
    /\ stage = "answered"
    /\ stage' = "deliver"
    /\ IF reply = "NONE"
         THEN reply' = "QUEUED" /\ content' = text /\ wordRun' = run
         ELSE UNCHANGED <<reply, content, wordRun>>
    /\ UNCHANGED <<agentRest, deliveryVars, event>>

(* deliver claims a QUEUED row; any other is left alone. *)
ClaimReply ==
    /\ stage = "deliver"
    /\ IF reply = "QUEUED"
         THEN reply' = "PROCESSING" /\ stage' = "sending" /\ todo' = Candidates(held)
         ELSE stage' = "finishing" /\ UNCHANGED <<reply, todo>>
    /\ UNCHANGED <<agentRest, rowVars, held, glitch, copies, lost, event, content, wordRun>>

(* Mistake: an accepted request does not end the loop.                      *)
AcceptedAndNext(k) ==
    /\ stage = "sending" /\ k \in todo /\ Accepts(k)
    /\ copies' = copies + 1 /\ todo' = todo \ {k}
    /\ stage' = IF todo' = {} THEN "sent" ELSE stage
    /\ UNCHANGED <<agentRest, rowVars, held, glitch, lost, replyVars>>

(* The Graph API takes the message and its answer arrives. *)
Accepted(k) ==
    /\ stage = "sending" /\ k \in todo /\ Accepts(k)
    /\ copies' = copies + 1 /\ todo' = {}
    /\ stage' = "sent"
    /\ UNCHANGED <<agentRest, rowVars, held, glitch, lost, replyVars>>

(* Its answer does not arrive within 7 s, and the next candidate is tried.  *)
AnswerLost(k) ==
    /\ stage = "sending" /\ k \in todo /\ Accepts(k) /\ lost < MaxLost
    /\ copies' = copies + 1 /\ lost' = lost + 1
    /\ todo' = todo \ {k} /\ glitch' = TRUE
    /\ UNCHANGED <<agentVars, rowVars, held, replyVars>>

(* A request fails: it is refused, or the network or the Graph API is down. *)
TryFails(k) ==
    /\ stage = "sending" /\ k \in todo
    /\ todo' = todo \ {k}
    /\ glitch' = (glitch \/ Accepts(k))
    /\ UNCHANGED <<agentVars, rowVars, held, copies, lost, replyVars>>

(* Nothing is left to try (502), or the row held no token at all (500).     *)
SendThrows ==
    /\ stage = "sending" /\ todo = {}
    /\ stage' = "unsent"
    /\ UNCHANGED <<agentRest, deliveryVars, replyVars>>

MarkSent ==
    /\ stage = "sent"
    /\ reply' = "SENT" /\ stage' = "finishing"
    /\ UNCHANGED <<agentRest, deliveryVars, event, content, wordRun>>

(* The row of an unsent message, or of one that could not be marked.        *)
MarkFails ==
    /\ "db_error" \in Faults /\ stage = "sent" /\ lost < MaxLost
    /\ lost' = lost + 1 /\ glitch' = TRUE /\ stage' = "unsent"
    /\ UNCHANGED <<agentRest, rowVars, held, todo, copies, replyVars>>

MarkUnsent ==
    /\ stage = "unsent"
    /\ reply' = "QUEUED" /\ stage' = "throwing"
    /\ UNCHANGED <<agentRest, deliveryVars, event, content, wordRun>>

Complete ==
    /\ stage = "finishing"
    /\ event' = "COMPLETED" /\ stage' = "idle"
    /\ UNCHANGED <<agentRest, deliveryVars, reply, content, wordRun>>

DbThrows ==
    /\ "db_error" \in Faults
    /\ stage \in {"answered", "deliver", "unsent", "finishing"}
    /\ stage' = "throwing"
    /\ UNCHANGED <<agentRest, deliveryVars, replyVars>>

MarkFailed ==
    /\ stage = "throwing"
    /\ event' = "FAILED" /\ stage' = "idle"
    /\ UNCHANGED <<agentRest, deliveryVars, reply, content, wordRun>>

(* The process dies; recovery turns the event to FAILED later.              *)
Crash ==
    /\ "crash" \in Faults /\ stage # "idle"
    /\ event' = "FAILED" /\ stage' = "idle"
    /\ todo' = {}
    /\ UNCHANGED <<agentRest, rowVars, held, glitch, copies, lost, reply, content, wordRun>>

RunStep ==
    \/ Thinks \/ SaveReply \/ ClaimReply
    \/ \E k \in todo : Accepted(k) \/ AnswerLost(k) \/ TryFails(k)
    \/ SendThrows \/ MarkSent \/ MarkFails \/ MarkUnsent
    \/ Complete \/ DbThrows \/ MarkFailed

Next == Begin \/ RunStep \/ Crash \/ (RowStep /\ UNCHANGED <<agentVars, replyVars>>)

Spec == Init /\ [][Next]_vars

-----------------------------------------------------------------------------
TypeOK ==
    /\ AgentTypeOK /\ DeliveryTypeOK
    /\ event \in {"RECEIVED", "PROCESSING", "COMPLETED", "FAILED"}
    /\ reply \in {"NONE", "QUEUED", "PROCESSING", "SENT"}
    /\ content \in Text \cup {"none"} /\ wordRun \in 0..run

(* Whatever the provider answers and however runs are interrupted and       *)
(* repeated: a text that the filter knows as a claim, the server's own      *)
(* confirmation and a wording of the tool's order are only sent of an order *)
(* that existed when the run worded them; and the run that created the      *)
(* order words its reply with the order in hand, unless the database did    *)
(* not confirm it. The text of request_order_details is not spoken of: the  *)
(* code sends it whatever it says.                                          *)
TruthfulReply ==
    /\ content \in {"claim", "told", "confirmed"} => orderRun \in 1..wordRun
    /\ orderRun > 0 /\ orderRun = wordRun /\ ~ unheard => content \in {"told", "confirmed"}

(* Over all runs, candidates and retries, the customer gets one copy more   *)
(* than there are answers the server never learned of, at most.             *)
CopiesAccounted == copies <= 1 + lost

(* A send fails for a cause: a request failed that should have succeeded,   *)
(* the row was written since the run had read it, or no token in it lives.  *)
FailsForCause ==
    stage = "unsent" /\ ~ glitch => held # cred \/ ~ Usable(cred)

(* How far a run is from its end: its stage first, ...                      *)
Rank == [throwing |-> 1, finishing |-> 2, unsent |-> 3, sent |-> 4, sending |-> 5, deliver |-> 6,
         answered |-> 7, final |-> 8, tool |-> 9, decision |-> 10, first |-> 11, start |-> 12]

(* ... then the candidates and the attempts it has left there.              *)
Nearer ==
    \/ Rank[stage'] < Rank[stage]
    \/ stage' = stage /\ todo' # todo /\ todo' \subseteq todo
    \/ stage' = stage /\ todo' = todo /\ attempt' > attempt

(* Whatever fails, each step of a run brings it nearer to its end: neither  *)
(* the attempts of a chat request nor the candidates of a send go round in  *)
(* circles, and no failure leads back.                                      *)
RunProgresses ==
    [][stage # "idle" /\ stage' # "idle" => Nearer]_<<agentVars, sendVars, replyVars>>

(* Runs, candidates and retries together keep the promises of an outbox,    *)
(* with an account of the excuses: each copy beyond the first is paid for   *)
(* by an answer of the Graph API or of the database that was lost.          *)
Promise == INSTANCE Outbox
    WITH text <- content, copies <- copies, excused <- lost, shown <- (reply = "SENT")

KeepsPromise == Promise!Spec
====
