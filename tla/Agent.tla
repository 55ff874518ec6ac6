---- MODULE Agent ----
(***************************************************************************)
(* runMerchantAgent (services/xai.ts): how one run of an event comes to a   *)
(* text. The model provider is external: a request may fail in any way, and *)
(* an answer may hold any text and any tool call. What matters of a text is *)
(* whether it tells of an order, and whether claimsOrderWasCreated sees it. *)
(* The tool reads and writes the order under the event's idempotency key;   *)
(* Orders has the details of that transaction.                              *)
(***************************************************************************)
EXTENDS Integers

VARIABLES
    stage,    \* what the run of the event awaits
    attempt,  \* which of its two attempts a chat request is at
    found,    \* the result of the run's tool call
    text,     \* the text the run works with
    run,      \* WebhookEvent.attempts: the number of the run
    orderRun, \* the run that created the event's order, 0 while there is none
    unheard   \* history: an order was committed, but its run was told of an error

agentVars == <<stage, attempt, found, text, run, orderRun, unheard>>

Chat == {"first", "decision", "final"}
Stage == Chat \cup {"idle", "start", "tool", "answered", "deliver", "sending",
                    "sent", "unsent", "finishing", "throwing"}
Found == {"nothing", "order", "error"}

(* "plain" is any text without such a claim: greetings and fallbackReply    *)
(* too. "told" is the provider's wording after the tool returned an order,  *)
(* "confirmed" and "denied" are the server's own words. The text of a       *)
(* request_order_details call is sent as the provider put it, unfiltered:   *)
(* a "question" tells of no order, a "claimingQuestion" does.               *)
Question == {"question", "claimingQuestion"}
Text == Question \cup {"plain", "claim", "told", "confirmed", "denied"}

(* The texts and the calls a response may hold. A call with neither id nor  *)
(* name counts as none, a request_order_details call without a usable       *)
(* question as "details", a tool that does not exist as "unknown".          *)
Words == {"none", "plain", "claim"}
Call == Question \cup {"none", "details", "create", "unknown"}

AgentInit ==
    /\ stage = "idle" /\ attempt = 1 /\ found = "nothing" /\ text = "none"
    /\ run = 0 /\ orderRun = 0 /\ unheard = FALSE

(* deterministicOrderReply *)
Deterministic(result) == IF result = "order" THEN "confirmed" ELSE "denied"

(* Mistake: the filter trusts any text that was worded after a tool call.   *)
FinalTextUnfiltered(words) ==
    CASE words = "none" -> Deterministic(found)
      [] words # "none" /\ found = "order" -> "told"
      [] OTHER -> words

(* The last words of a run that called a tool.                              *)
FinalText(words) ==
    CASE words = "none" -> Deterministic(found)
      [] words # "none" /\ found = "order" -> "told"
      [] words = "claim" /\ found # "order" -> Deterministic(found)
      [] OTHER -> "plain"

(* The text of a run that called none: a claim is blocked.                  *)
UnaidedText(words) == IF words = "claim" THEN Deterministic("nothing") ELSE "plain"

Answered(t) == stage' = "answered" /\ text' = t

-----------------------------------------------------------------------------
(* A greeting or a thank-you is answered without the provider.              *)
QuickReply ==
    /\ stage = "start"
    /\ Answered("plain")
    /\ UNCHANGED <<attempt, found, run, orderRun, unheard>>

(* Mistake: the second attempt is followed by another one.                  *)
ChatRetriesForever ==
    /\ stage \in Chat
    /\ attempt' = 3 - attempt
    /\ UNCHANGED <<stage, found, text, run, orderRun, unheard>>

(* callChat: a timeout, an unreadable answer, 429 or 5xx is tried again.    *)
ChatRetries ==
    /\ stage \in Chat /\ attempt = 1
    /\ attempt' = 2
    /\ UNCHANGED <<stage, found, text, run, orderRun, unheard>>

(* callChat throws: after its second attempt, or at once after another      *)
(* status, empty choices or an empty response. The first two requests fall  *)
(* back to fallbackReply, the last one to the server's wording.             *)
ChatThrows ==
    /\ stage \in Chat
    /\ Answered(IF stage = "final" THEN Deterministic(found) ELSE "plain")
    /\ attempt' = 1
    /\ UNCHANGED <<found, run, orderRun, unheard>>

AskFirst ==
    /\ stage = "start"
    /\ stage' = "first"
    /\ UNCHANGED <<attempt, found, text, run, orderRun, unheard>>

(* A response without a call. After the first request the history may ask   *)
(* for an order decision (orderDecisionNeeded), and a second request does.  *)
Unaided(words) ==
    /\ stage \in {"first", "decision"} /\ words # "none"
    /\ \/ Answered(UnaidedText(words))
       \/ stage = "first" /\ stage' = "decision" /\ UNCHANGED text
    /\ attempt' = 1
    /\ UNCHANGED <<found, run, orderRun, unheard>>

(* A response with a call (executeTool). A usable question is the reply, as *)
(* the provider put it; create_order goes to the database; everything else  *)
(* is reported to the provider, which words the reply.                      *)
Calls(call) ==
    /\ stage \in {"first", "decision"}
    /\ CASE call \in Question -> Answered(call) /\ UNCHANGED found
         [] call = "create"   -> stage' = "tool" /\ UNCHANGED <<text, found>>
         [] call = "details"  -> stage' = "final" /\ UNCHANGED <<text, found>>
         [] call = "unknown"  -> stage' = "final" /\ found' = "error" /\ UNCHANGED text
    /\ attempt' = 1
    /\ UNCHANGED <<run, orderRun, unheard>>

(* createOrderFromTool creates the event's order, or returns it.            *)
CreatesOrder ==
    /\ stage = "tool"
    /\ stage' = "final" /\ found' = "order"
    /\ orderRun' = IF orderRun = 0 THEN run ELSE orderRun
    /\ UNCHANGED <<attempt, text, run, unheard>>

(* Any error of it is a result for the provider: arguments that do not      *)
(* parse, an order the shop cannot take, or a database that does not answer *)
(* although it may have committed.                                          *)
RefusesOrder ==
    /\ stage = "tool"
    /\ stage' = "final" /\ found' = "error"
    /\ \/ UNCHANGED <<orderRun, unheard>>
       \/ orderRun = 0 /\ orderRun' = run /\ unheard' = TRUE
    /\ UNCHANGED <<attempt, text, run>>

(* The provider words the result; a further call in its answer is ignored.  *)
Final(words) ==
    /\ stage = "final"
    /\ Answered(FinalText(words))
    /\ attempt' = 1
    /\ UNCHANGED <<found, run, orderRun, unheard>>

AgentStep ==
    \/ QuickReply \/ AskFirst \/ ChatRetries \/ ChatThrows \/ CreatesOrder \/ RefusesOrder
    \/ \E words \in Words : Unaided(words) \/ Final(words)
    \/ \E call \in Call \ {"none"} : Calls(call)

AgentTypeOK ==
    /\ stage \in Stage /\ attempt \in 1..2 /\ found \in Found
    /\ text \in Text \cup {"none"}
    /\ run \in Nat /\ orderRun \in 0..run /\ unheard \in BOOLEAN
====
