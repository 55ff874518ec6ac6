---- MODULE Inbound ----
(***************************************************************************)
(* The life of one customer message: webhook persistence (routes/          *)
(* webhooks.ts), queueing (queues.ts), processing and fallback             *)
(* (services/inbound.ts) and the two recovery loops (inbound-runtime.ts,   *)
(* worker-runtime.ts). Two events share no row that these handlers guard   *)
(* on, so one event is followed through everything that may run for it at  *)
(* the same time: a direct run in each Node process, the BullMQ job, and   *)
(* the fallback started by the worker's "failed" listener.                 *)
(*                                                                         *)
(* A run is a sequence of awaits; each database call or external request   *)
(* is one step. Texts are abstracted to what they tell the customer: an    *)
(* "answer", an "order" confirmation, or the "fallback" sentence. What the *)
(* agent does to word one, the order it may create included, is in Agent.  *)
(* The channel is one that is answered over the Graph API.                 *)
(***************************************************************************)
EXTENDS Integers, FiniteSets

CONSTANTS
    Direct,         \* Node processes that run events directly ("api", "worker")
    FallbackAfter,  \* attempts after which a direct run falls back (5)
    RetryLimit,     \* attempts after which recovery gives a FAILED event up (10)
    JobAttempts,    \* attempts of the BullMQ job (5)
    MaxSends,       \* bound: up to where messages the Graph API took are counted
    Faults          \* which of "crash", "lost_answer", "db_error", "redis_down" may happen

ASSUME InboundAssumption ==
    /\ "api" \in Direct
    /\ Direct \subseteq {"api", "worker"}
    /\ FallbackAfter \in Nat /\ RetryLimit \in Nat /\ JobAttempts \in Nat
    /\ MaxSends \in Nat \ {0}
    /\ Faults \subseteq {"crash", "lost_answer", "db_error", "redis_down"}

(* Every activity that may work on the event. *)
Runner == Direct \cup {"job", "afterJob"}

(* The process that hosts the BullMQ worker: its own, or the API's         *)
(* (RUN_INBOUND_WORKER).                                                   *)
WorkerHost == IF "worker" \in Direct THEN "worker" ELSE "api"

RunnersOf(process) ==
    {process} \cup (IF process = WorkerHost THEN {"job", "afterJob"} ELSE {})

VARIABLES
    event,      \* WebhookEvent.status, "NONE" before the row exists
    attempts,   \* WebhookEvent.attempts, counted up to RetryLimit
    aged,       \* receivedAt is older than the recovery thresholds
    heard,      \* the event's conversation and INBOUND row exist (the conversation
                \* alone may be older: a customer who has written before)
    reply,      \* status of the OUTBOUND message row, "NONE" before it exists
    content,    \* its content
    pc,         \* where each runner is
    mode,       \* "process" or "fallback": what the runner executes
    text,       \* the text the runner works with
    kicked,     \* setImmediate(processInboundDirectly) is pending in the process
    job,        \* state of the BullMQ job with the event's id
    jobTries,   \* failed attempts of the job
    stale,      \* what the worker's recovery loop still has to do for the event
    sends,      \* history: messages of each text the Graph API took
    fellBack,   \* history: some fallback was started
    doubt       \* history: that, or an answer was lost after a message was taken

rowVars == <<heard, reply, content>>
runVars == <<pc, mode, text>>
queueVars == <<kicked, job, jobTries, stale>>
historyVars == <<sends, fellBack, doubt>>
vars == <<event, attempts, aged, rowVars, runVars, queueVars, historyVars>>

Text == {"answer", "order", "fallback"}
EventStatus == {"NONE", "RECEIVED", "PROCESSING", "COMPLETED", "FAILED", "IGNORED"}
ReplyStatus == {"NONE", "QUEUED", "PROCESSING", "SENT"}
JobState == {"none", "waiting", "active", "completed", "failed"}
PC == {"idle", "claimed", "thinking", "answered", "deliver", "sending", "sent",
       "unsent", "finishing", "throwing", "failed", "fallback", "create", "requeue"}

(* Counters are only compared with thresholds, so they stop at a cap. *)
CountUp(n, cap) == IF n < cap THEN n + 1 ELSE n

Init ==
    /\ event = "NONE" /\ attempts = 0 /\ aged = FALSE
    /\ heard = FALSE /\ reply = "NONE" /\ content = "none"
    /\ pc = [r \in Runner |-> "idle"]
    /\ mode = [r \in Runner |-> "process"]
    /\ text = [r \in Runner |-> "none"]
    /\ kicked = [d \in Direct |-> FALSE]
    /\ job = "none" /\ jobTries = 0 /\ stale = "none"
    /\ sends = [t \in Text |-> 0] /\ fellBack = FALSE /\ doubt = FALSE

-----------------------------------------------------------------------------
(* Queueing *)

(* A job id that is already in Redis is kept; force replaces a finished job. *)
AddJob(force) ==
    IF job = "none" \/ (force /\ job \in {"completed", "failed"})
      THEN job' = "waiting" /\ jobTries' = 0
      ELSE UNCHANGED <<job, jobTries>>

(* enqueueInbound in process d: the job, unless Redis is unavailable, and  *)
(* always a direct run of its own.                                         *)
Enqueue(d, force) ==
    /\ kicked' = [p \in Direct |-> kicked[p] \/ p = d]
    /\ \/ AddJob(force)
       \/ "redis_down" \in Faults /\ UNCHANGED <<job, jobTries>>

(* persist: the first delivery of the webhook creates the event. *)
Arrive ==
    /\ event = "NONE"
    /\ event' = "RECEIVED"
    /\ Enqueue("api", FALSE)
    /\ UNCHANGED <<attempts, aged, rowVars, runVars, stale, historyVars>>

(* persist: a repeated delivery finds the event by its unique key. *)
Redeliver ==
    /\ event \in {"RECEIVED", "PROCESSING", "FAILED"}
    /\ Enqueue("api", TRUE)
    /\ UNCHANGED <<event, attempts, aged, rowVars, runVars, stale, historyVars>>

-----------------------------------------------------------------------------
(* Runs *)

Goto(r, next) ==
    /\ pc' = [pc EXCEPT ![r] = next]
    /\ UNCHANGED <<mode, text>>

Leave(r) ==
    /\ pc' = [pc EXCEPT ![r] = "idle"]
    /\ mode' = [mode EXCEPT ![r] = "process"]
    /\ text' = [text EXCEPT ![r] = "none"]

(* A run throws: processInboundEvent has a catch of its own, an error of   *)
(* the fallback is only logged.                                            *)
Throw(r) == IF mode[r] = "fallback" THEN Leave(r) ELSE Goto(r, "throwing")

(* The job of a run that returned is completed. *)
JobReturns(r) == job' = IF r = "job" THEN "completed" ELSE job

(* The atomic claim that opens processInboundEvent, outside its try block. *)
ClaimEvent(r) ==
    \/ /\ event \in {"RECEIVED", "FAILED"}
       /\ event' = "PROCESSING"
       /\ attempts' = CountUp(attempts, RetryLimit)
       /\ Goto(r, "claimed")
    \/ /\ event \notin {"RECEIVED", "FAILED"}
       /\ UNCHANGED <<event, attempts, runVars>>
    \/ /\ "db_error" \in Faults
       /\ Goto(r, "failed")
       /\ UNCHANGED <<event, attempts>>

(* processInboundDirectly: an event that this process already works on is  *)
(* not started a second time.                                              *)
DirectStart(d) ==
    /\ kicked[d]
    /\ kicked' = [kicked EXCEPT ![d] = FALSE]
    /\ IF pc[d] = "idle" THEN ClaimEvent(d) ELSE UNCHANGED <<event, attempts, runVars>>
    /\ UNCHANGED <<aged, rowVars, job, jobTries, stale, historyVars>>

JobStart ==
    /\ job = "waiting"
    /\ pc["job"] = "idle"
    /\ ClaimEvent("job")
    /\ job' = IF pc'["job"] = "idle" THEN "completed" ELSE "active"
    /\ UNCHANGED <<aged, rowVars, kicked, jobTries, stale, historyVars>>

(* An empty payload, a handed-over conversation, an inactive subscription. *)
Ignore(r) ==
    /\ pc[r] \in {"claimed", "thinking"}
    /\ event' = "IGNORED"
    /\ Leave(r)
    /\ JobReturns(r)
    /\ UNCHANGED <<attempts, aged, rowVars, kicked, jobTries, stale, historyVars>>

(* The conversation is upserted and the INBOUND row created; a row that    *)
(* exists already (P2002) is kept.                                         *)
Hear(r) ==
    /\ pc[r] = "claimed"
    /\ heard' = TRUE
    /\ Goto(r, "thinking")
    /\ UNCHANGED <<event, attempts, aged, reply, content, queueVars, historyVars>>

(* runMerchantAgent returns a text; when two runs ask it, their texts may  *)
(* differ: one of them creates the order, the other finds a question.      *)
AgentAnswers(r) ==
    /\ pc[r] = "thinking"
    /\ pc' = [pc EXCEPT ![r] = "answered"]
    /\ \E t \in {"answer", "order"} : text' = [text EXCEPT ![r] = t]
    /\ UNCHANGED <<event, attempts, aged, rowVars, mode, queueVars, historyVars>>

(* Mistake: the upsert overwrites the first text.                          *)
SaveLatestReply(r) ==
    /\ pc[r] = "answered"
    /\ reply' = IF reply = "NONE" THEN "QUEUED" ELSE reply
    /\ content' = text[r]
    /\ Goto(r, "deliver")
    /\ UNCHANGED <<event, attempts, aged, heard, queueVars, historyVars>>

(* The OUTBOUND row is upserted with an empty update: the first text stays. *)
SaveReply(r) ==
    /\ pc[r] = "answered"
    /\ IF reply = "NONE"
         THEN reply' = "QUEUED" /\ content' = text[r]
         ELSE UNCHANGED <<reply, content>>
    /\ pc' = [pc EXCEPT ![r] = "deliver"]
    /\ text' = [text EXCEPT ![r] = content']
    /\ UNCHANGED <<event, attempts, aged, heard, mode, queueVars, historyVars>>

(* deliver claims the row; a row claimed or sent by another is left alone. *)
Delivered(r) ==
    IF mode[r] = "fallback" THEN Leave(r) ELSE Goto(r, "finishing")

(* Mistake: only a sent row is left alone.                                 *)
ClaimUnsentReply(r) ==
    /\ pc[r] = "deliver"
    /\ IF reply # "SENT"
         THEN reply' = "PROCESSING" /\ Goto(r, "sending")
         ELSE UNCHANGED reply /\ Delivered(r)
    /\ UNCHANGED <<event, attempts, aged, heard, content, queueVars, historyVars>>

ClaimReply(r) ==
    /\ pc[r] = "deliver"
    /\ IF reply = "QUEUED"
         THEN reply' = "PROCESSING" /\ Goto(r, "sending")
         ELSE UNCHANGED reply /\ Delivered(r)
    /\ UNCHANGED <<event, attempts, aged, heard, content, queueVars, historyVars>>

(* The Graph API takes the message; its answer may be lost (7 s timeout).  *)
GraphTakes(r) ==
    /\ pc[r] = "sending"
    /\ sends' = [sends EXCEPT ![text[r]] = CountUp(@, MaxSends)]
    /\ \/ Goto(r, "sent") /\ UNCHANGED doubt
       \/ "lost_answer" \in Faults /\ Goto(r, "unsent") /\ doubt' = TRUE
    /\ UNCHANGED <<event, attempts, aged, rowVars, queueVars, fellBack>>

(* Mistake: the status of the answer is not checked.                       *)
GraphErrorIgnored(r) ==
    /\ pc[r] = "sending"
    /\ Goto(r, "sent")
    /\ UNCHANGED <<event, attempts, aged, rowVars, queueVars, historyVars>>

GraphRefuses(r) ==
    /\ pc[r] = "sending"
    /\ Goto(r, "unsent")
    /\ UNCHANGED <<event, attempts, aged, rowVars, queueVars, historyVars>>

(* Mistake: the row goes back to QUEUED, as for a gateway job.             *)
MarkSentQueued(r) ==
    /\ pc[r] = "sent"
    /\ reply' = "QUEUED"
    /\ Delivered(r)
    /\ UNCHANGED <<event, attempts, aged, heard, content, queueVars, historyVars>>

MarkSent(r) ==
    /\ pc[r] = "sent"
    /\ reply' = "SENT"
    /\ Delivered(r)
    /\ UNCHANGED <<event, attempts, aged, heard, content, queueVars, historyVars>>

(* The catch of deliver writes QUEUED whatever the row says by now. *)
MarkUnsent(r) ==
    /\ pc[r] = "unsent"
    /\ reply' = "QUEUED"
    /\ Throw(r)
    /\ UNCHANGED <<event, attempts, aged, heard, content, queueVars, historyVars>>

(* The final transaction writes COMPLETED whatever the event says by now. *)
Complete(r) ==
    /\ pc[r] = "finishing"
    /\ event' = "COMPLETED"
    /\ Leave(r)
    /\ JobReturns(r)
    /\ UNCHANGED <<attempts, aged, rowVars, kicked, jobTries, stale, historyVars>>

(* A database call fails: those of the two catch blocks leave the row as   *)
(* it was, and the error of MarkFailed itself is swallowed.                *)
DbThrows(r) ==
    /\ "db_error" \in Faults
    /\ \/ pc[r] \in {"claimed", "thinking", "answered", "deliver", "unsent",
                     "finishing", "fallback", "create", "requeue"} /\ Throw(r)
       \/ pc[r] = "sent" /\ Goto(r, "unsent")
       \/ pc[r] = "throwing" /\ Goto(r, "failed")
    /\ doubt' = (doubt \/ pc[r] = "sent")
    /\ UNCHANGED <<event, attempts, aged, rowVars, queueVars, sends, fellBack>>

(* The catch of processInboundEvent, again by id only. *)
MarkFailed(r) ==
    /\ pc[r] = "throwing"
    /\ event' = "FAILED"
    /\ Goto(r, "failed")
    /\ UNCHANGED <<attempts, aged, rowVars, queueVars, historyVars>>

(* The failed run ends, r goes on with the fallback. *)
StartFallback(failed, r) ==
    /\ pc' = [pc EXCEPT ![failed] = "idle", ![r] = "fallback"]
    /\ text' = [text EXCEPT ![failed] = "none", ![r] = "fallback"]
    /\ mode' = [mode EXCEPT ![r] = "fallback"]
    /\ fellBack' = TRUE
    /\ doubt' = TRUE

(* After a failed direct run: the attempts, read again, decide on the      *)
(* fallback; if they cannot be read they count as none.                    *)
DirectFailed(d) ==
    /\ pc[d] = "failed"
    /\ \/ attempts >= FallbackAfter /\ StartFallback(d, d)
       \/ (attempts < FallbackAfter \/ "db_error" \in Faults)
          /\ Leave(d) /\ UNCHANGED <<fellBack, doubt>>
    /\ UNCHANGED <<event, attempts, aged, rowVars, queueVars, sends>>

(* A failed job waits for its next attempt, or is failed for good and the  *)
(* worker's listener starts the fallback (one at a time).                  *)
JobFailed ==
    /\ pc["job"] = "failed"
    /\ pc["afterJob"] = "idle"
    /\ jobTries' = CountUp(jobTries, JobAttempts)
    /\ IF jobTries' >= JobAttempts
         THEN job' = "failed" /\ StartFallback("job", "afterJob")
         ELSE job' = "waiting" /\ Leave("job") /\ UNCHANGED <<fellBack, doubt>>
    /\ UNCHANGED <<event, attempts, aged, rowVars, kicked, stale, sends>>

-----------------------------------------------------------------------------
(* sendFallbackForEvent *)

(* Without a conversation there is nobody to write to; one may be left     *)
(* from an earlier message, so the fallback may also go on.                *)
FallbackGivesUp(r) ==
    /\ pc[r] = "fallback"
    /\ ~ heard
    /\ Leave(r)
    /\ UNCHANGED <<event, attempts, aged, rowVars, queueVars, historyVars>>

FallbackReads(r) ==
    /\ pc[r] = "fallback"
    /\ \/ reply = "SENT" /\ Leave(r)
       \/ reply = "NONE" /\ Goto(r, "create")
       \/ reply = "PROCESSING" /\ Goto(r, "requeue")
       \/ reply = "QUEUED" /\ Goto(r, "deliver")
    /\ UNCHANGED <<event, attempts, aged, rowVars, queueVars, historyVars>>

(* The unique key makes the create throw if a reply appeared meanwhile. *)
FallbackCreates(r) ==
    /\ pc[r] = "create"
    /\ IF reply = "NONE"
         THEN reply' = "QUEUED" /\ content' = "fallback" /\ Goto(r, "deliver")
         ELSE UNCHANGED <<reply, content>> /\ Leave(r)
    /\ UNCHANGED <<event, attempts, aged, heard, queueVars, historyVars>>

(* A reply that is being sent is taken to be stuck. *)
FallbackRequeues(r) ==
    /\ pc[r] = "requeue"
    /\ reply' = "QUEUED"
    /\ Goto(r, "deliver")
    /\ UNCHANGED <<event, attempts, aged, heard, content, queueVars, historyVars>>

-----------------------------------------------------------------------------
(* Recovery *)

Age ==
    /\ event # "NONE" /\ ~ aged
    /\ aged' = TRUE
    /\ UNCHANGED <<event, attempts, rowVars, runVars, queueVars, historyVars>>

(* Mistake: recovery looks for unfinished events only, not for failed ones. *)
ApiRecoversUnfinished ==
    /\ event = "RECEIVED" \/ (event = "PROCESSING" /\ aged)
    /\ event' = IF event = "PROCESSING" THEN "FAILED" ELSE event
    /\ Enqueue("api", TRUE)
    /\ UNCHANGED <<attempts, aged, rowVars, runVars, stale, historyVars>>

(* recoverInboundEventsDirectly: staleness is measured from receivedAt, so *)
(* a run that has only just claimed an old event is reset as well.         *)
ApiRecovers ==
    /\ \/ event = "RECEIVED"
       \/ event = "FAILED" /\ attempts < RetryLimit
       \/ event = "PROCESSING" /\ aged
    /\ event' = IF event = "PROCESSING" THEN "FAILED" ELSE event
    /\ Enqueue("api", TRUE)
    /\ UNCHANGED <<attempts, aged, rowVars, runVars, stale, historyVars>>

(* recoverStaleEvents reads a batch and works through it one by one ...    *)
WorkerReads ==
    /\ stale = "none"
    /\ \/ event = "RECEIVED" /\ stale' = "enqueue"
       \/ event = "PROCESSING" /\ aged /\ stale' = "reset"
    /\ UNCHANGED <<event, attempts, aged, rowVars, runVars, kicked, job, jobTries, historyVars>>

(* ... resetting by id what it had read as PROCESSING. *)
WorkerRecovers ==
    /\ stale # "none"
    /\ event' = IF stale = "reset" THEN "FAILED" ELSE event
    /\ stale' = "none"
    /\ Enqueue(WorkerHost, TRUE)
    /\ UNCHANGED <<attempts, aged, rowVars, runVars, historyVars>>

(* A process dies with everything it was running. BullMQ finds a stalled   *)
(* job later: it is retried, or failed for good.                           *)
Crash(process) ==
    LET dead == RunnersOf(process)
    IN  /\ "crash" \in Faults
        /\ pc' = [r \in Runner |-> IF r \in dead THEN "idle" ELSE pc[r]]
        /\ mode' = [r \in Runner |-> IF r \in dead THEN "process" ELSE mode[r]]
        /\ text' = [r \in Runner |-> IF r \in dead THEN "none" ELSE text[r]]
        /\ kicked' = [kicked EXCEPT ![process] = FALSE]
        /\ stale' = IF process = WorkerHost THEN "none" ELSE stale
        /\ job' \in IF "job" \in dead /\ job = "active" THEN {"waiting", "failed"} ELSE {job}
        /\ UNCHANGED <<event, attempts, aged, rowVars, jobTries, historyVars>>

-----------------------------------------------------------------------------
(* What a started run does by itself. *)
RunStep(r) ==
    \/ Ignore(r) \/ Hear(r) \/ AgentAnswers(r) \/ SaveReply(r)
    \/ ClaimReply(r) \/ GraphTakes(r) \/ GraphRefuses(r)
    \/ MarkSent(r) \/ MarkUnsent(r) \/ Complete(r) \/ DbThrows(r) \/ MarkFailed(r)
    \/ FallbackGivesUp(r) \/ FallbackReads(r) \/ FallbackCreates(r) \/ FallbackRequeues(r)
    \/ r \in Direct /\ DirectFailed(r)
    \/ r = "job" /\ JobFailed

Next ==
    \/ Arrive \/ Redeliver \/ Age
    \/ \E d \in Direct : DirectStart(d)
    \/ JobStart
    \/ \E r \in Runner : RunStep(r)
    \/ ApiRecovers \/ WorkerReads \/ WorkerRecovers
    \/ \E d \in Direct : Crash(d)

Spec == Init /\ [][Next]_vars

(* Node resumes started runs and pending setImmediate callbacks, every     *)
(* external request has a timeout, time passes, and the API's recovery     *)
(* timer fires every 10 s. Nothing is assumed of Redis or of the worker.   *)
FairSpec ==
    /\ Spec
    /\ \A r \in Runner : WF_vars(RunStep(r))
    /\ WF_vars(DirectStart("api"))
    /\ WF_vars(Age)
    /\ WF_vars(ApiRecovers)

-----------------------------------------------------------------------------
(* Properties *)

TypeOK ==
    /\ event \in EventStatus
    /\ attempts \in 0..RetryLimit
    /\ aged \in BOOLEAN /\ heard \in BOOLEAN
    /\ reply \in ReplyStatus
    /\ content \in Text \cup {"none"}
    /\ pc \in [Runner -> PC]
    /\ mode \in [Runner -> {"process", "fallback"}]
    /\ text \in [Runner -> Text \cup {"none"}]
    /\ kicked \in [Direct -> BOOLEAN]
    /\ job \in JobState
    /\ jobTries \in 0..JobAttempts
    /\ stale \in {"none", "enqueue", "reset"}
    /\ sends \in [Text -> 0..MaxSends]
    /\ fellBack \in BOOLEAN /\ doubt \in BOOLEAN

(* However many runs work on the event, they never send the customer two   *)
(* different agent texts (the upsert with an empty update).                *)
OneAnswer == ~ (sends["answer"] > 0 /\ sends["order"] > 0)

(* A SENT row means the Graph API has taken a message for the event, and,  *)
(* until a fallback is started, the very text the row shows the merchant.  *)
SentWasTaken ==
    reply = "SENT" =>
        /\ \E t \in Text : sends[t] > 0
        /\ ~ fellBack => sends[content] > 0

(* Until a fallback is started, at most one run at a time is between the   *)
(* claim of the reply and its final status.                                *)
Sending(r) == pc[r] \in {"sending", "sent", "unsent"}

OneSender ==
    ~ fellBack => \A r1, r2 \in Runner : Sending(r1) /\ Sending(r2) => r1 = r2

(* Nor is anything sent a second time, by whatever run, until a fallback  *)
(* is started or the answer to an earlier message was lost.                *)
NoSecondSend ==
    [][\A r \in Runner :
          pc[r] = "sending" /\ pc'[r] = "sent" /\ ~ doubt =>
              \A t \in Text : sends[t] = 0]_vars

(* Every message that was received is completed, ignored or given up after *)
(* the last permitted attempt, without help from Redis or the worker.      *)
EventSettles ==
    event = "RECEIVED" ~>
        \/ event \in {"COMPLETED", "IGNORED"}
        \/ event = "FAILED" /\ attempts >= RetryLimit

(* Whatever crashes, redeliveries, recoveries, failing calls and concurrent *)
(* runs there are, the pipeline keeps the promises of an outbox: the text   *)
(* of a reply is fixed once it is worded, a SENT row is backed by a message,*)
(* and nothing is taken twice, by whatever run, until a fallback is started *)
(* or the answer to an earlier message was lost.                            *)
Promise == INSTANCE Outbox
    WITH text <- content,
         copies <- sends["answer"] + sends["order"] + sends["fallback"],
         excused <- IF doubt THEN 3 * MaxSends ELSE 0,
         shown <- (reply = "SENT")

KeepsPromise == Promise!Spec
====
