---- MODULE WhatsAppOutbound ----
(***************************************************************************)
(* A reply on its way to a customer of a QR-linked WhatsApp number: the    *)
(* Baileys branch of deliver (services/inbound.ts), the queue              *)
(* whatsapp-outbound, and the gateway's worker (whatsapp-gateway.ts).      *)
(* Inbound leaves this branch out; here any number of processing and       *)
(* fallback runs of the event may reach deliver at any time, as they do    *)
(* there. One OUTBOUND row is followed, from the moment it was upserted.   *)
(*                                                                         *)
(* The job's id is the row's id. A finished job stays in Redis for a day   *)
(* (removeOnComplete) or a week (removeOnFail), longer than any event is   *)
(* retried, so it is never removed here. Whether a socket is connected is  *)
(* left open: without one, send throws and the attempt fails.              *)
(***************************************************************************)
EXTENDS Naturals

CONSTANTS
    Run,          \* executions of deliver that may overlap
    JobAttempts,  \* attempts of a job (8)
    MaxSends,     \* bound: up to where messages WhatsApp took are counted
    Faults        \* "run_crash", "gateway_crash", "lost_answer", "db_error", "redis_down"

ASSUME OutboundAssumption ==
    /\ JobAttempts \in Nat \ {0}
    /\ MaxSends \in Nat \ {0}
    /\ Faults \subseteq {"run_crash", "gateway_crash", "lost_answer", "db_error", "redis_down"}

VARIABLES
    reply,      \* Message.status of the row
    handed,     \* payload.transport = "baileys-queue"
    pc,         \* where each run is
    job,        \* state of the BullMQ job
    jobTries,   \* its failed attempts
    gateway,    \* what the worker does with the job
    givingUp,   \* the failed listener's update is under way
    sends,      \* history: messages WhatsApp took
    mishaps     \* history: what the gateway has lost so far

rowVars == <<reply, handed>>
jobVars == <<job, jobTries, gateway, givingUp>>
historyVars == <<sends, mishaps>>
vars == <<rowVars, pc, jobVars, historyVars>>

ReplyStatus == {"QUEUED", "PROCESSING", "SENT", "FAILED"}
JobState == {"none", "waiting", "active", "completed", "failed"}
PC == {"idle", "fallback", "requeue", "deliver", "claimed", "enqueue", "unsent"}
GatewayPC == {"idle", "send", "mark", "failing"}

Init ==
    /\ reply = "QUEUED" /\ handed = FALSE
    /\ pc = [r \in Run |-> "idle"]
    /\ job = "none" /\ jobTries = 0
    /\ gateway = "idle" /\ givingUp = FALSE
    /\ sends = 0 /\ mishaps = {}

-----------------------------------------------------------------------------
(* Runs *)

Goto(r, next) == pc' = [pc EXCEPT ![r] = next]

(* processInboundEvent has upserted the row and calls deliver; or          *)
(* sendFallbackForEvent has been called for the event.                     *)
Begin(r) ==
    /\ pc[r] = "idle"
    /\ Goto(r, "deliver") \/ Goto(r, "fallback")
    /\ UNCHANGED <<rowVars, jobVars, historyVars>>

(* A row that was handed to the gateway is left to it. *)
FallbackReads(r) ==
    /\ pc[r] = "fallback"
    /\ IF reply = "SENT" \/ handed THEN Goto(r, "idle")
       ELSE IF reply = "PROCESSING" THEN Goto(r, "requeue")
       ELSE Goto(r, "deliver")
    /\ UNCHANGED <<rowVars, jobVars, historyVars>>

FallbackRequeues(r) ==
    /\ pc[r] = "requeue"
    /\ reply' = "QUEUED"
    /\ Goto(r, "deliver")
    /\ UNCHANGED <<handed, jobVars, historyVars>>

ClaimReply(r) ==
    /\ pc[r] = "deliver"
    /\ IF reply = "QUEUED"
         THEN reply' = "PROCESSING" /\ Goto(r, "claimed")
         ELSE UNCHANGED reply /\ Goto(r, "idle")
    /\ UNCHANGED <<handed, jobVars, historyVars>>

(* The row goes back to QUEUED and its payload is replaced, whatever has   *)
(* become of it since the claim.                                           *)
HandOver(r) ==
    /\ pc[r] = "claimed"
    /\ reply' = "QUEUED"
    /\ handed' = TRUE
    /\ Goto(r, "enqueue")
    /\ UNCHANGED <<jobVars, historyVars>>

(* Mistake: the job gets an id of its own each time.                       *)
AddFreshJob ==
    /\ job' = IF job = "active" THEN job ELSE "waiting"
    /\ jobTries' = IF job = "active" THEN jobTries ELSE 0

(* A job whose id is already in Redis, in whatever state, is kept. *)
AddJob ==
    IF job = "none"
      THEN job' = "waiting" /\ jobTries' = 0
      ELSE UNCHANGED <<job, jobTries>>

Enqueue(r) ==
    /\ pc[r] = "enqueue"
    /\ AddJob
    /\ Goto(r, "idle")
    /\ UNCHANGED <<rowVars, gateway, givingUp, historyVars>>

(* Redis does not answer: the job may have been added all the same. *)
EnqueueThrows(r) ==
    /\ "redis_down" \in Faults
    /\ pc[r] = "enqueue"
    /\ AddJob \/ UNCHANGED <<job, jobTries>>
    /\ Goto(r, "unsent")
    /\ UNCHANGED <<rowVars, gateway, givingUp, historyVars>>

(* The catch of deliver. *)
MarkUnsent(r) ==
    /\ pc[r] = "unsent"
    /\ reply' = "QUEUED"
    /\ Goto(r, "idle")
    /\ UNCHANGED <<handed, jobVars, historyVars>>

(* A database call of a run fails; only the hand-over is inside the try.   *)
DbThrows(r) ==
    /\ "db_error" \in Faults
    /\ \/ pc[r] \in {"fallback", "requeue", "deliver", "unsent"} /\ Goto(r, "idle")
       \/ pc[r] = "claimed" /\ Goto(r, "unsent")
    /\ UNCHANGED <<rowVars, jobVars, historyVars>>

RunCrash(r) ==
    /\ "run_crash" \in Faults
    /\ pc[r] # "idle"
    /\ Goto(r, "idle")
    /\ UNCHANGED <<rowVars, jobVars, historyVars>>

-----------------------------------------------------------------------------
(* The gateway's worker *)

Suffers(fault) == fault \in Faults /\ mishaps' = mishaps \cup {fault}

JobStart ==
    /\ job = "waiting" /\ gateway = "idle"
    /\ job' = "active" /\ gateway' = "send"
    /\ UNCHANGED <<rowVars, pc, jobTries, givingUp, historyVars>>

(* sendMessage hands the text to WhatsApp; its answer may be lost.         *)
WhatsAppTakes ==
    /\ gateway = "send"
    /\ sends' = IF sends < MaxSends THEN sends + 1 ELSE sends
    /\ \/ gateway' = "mark" /\ UNCHANGED mishaps
       \/ gateway' = "failing" /\ Suffers("lost_answer")
    /\ UNCHANGED <<rowVars, pc, job, jobTries, givingUp>>

(* No socket is connected, or WhatsApp refuses. *)
SendThrows ==
    /\ gateway = "send"
    /\ gateway' = "failing"
    /\ UNCHANGED <<rowVars, pc, job, jobTries, givingUp, historyVars>>

MarkSent ==
    /\ gateway = "mark"
    /\ reply' = "SENT"
    /\ job' = "completed" /\ gateway' = "idle"
    /\ UNCHANGED <<handed, pc, jobTries, givingUp, historyVars>>

MarkThrows ==
    /\ Suffers("db_error")
    /\ gateway = "mark"
    /\ gateway' = "failing"
    /\ UNCHANGED <<rowVars, pc, job, jobTries, givingUp, sends>>

(* Mistake: the listener compares with > instead of >=.                    *)
LastAttemptMissed(tries) == tries > JobAttempts

LastAttempt(tries) == tries >= JobAttempts

(* Mistake: every failed attempt marks the row.                            *)
AttemptFailsLoudly ==
    /\ gateway = "failing"
    /\ gateway' = "idle"
    /\ jobTries' = jobTries + 1
    /\ job' = IF jobTries' >= JobAttempts THEN "failed" ELSE "waiting"
    /\ givingUp' = TRUE
    /\ UNCHANGED <<rowVars, pc, historyVars>>

(* The attempt is over: the job waits for the next one, or has failed and  *)
(* the listener starts to mark the row.                                    *)
AttemptFails ==
    /\ gateway = "failing"
    /\ gateway' = "idle"
    /\ jobTries' = jobTries + 1
    /\ job' = IF jobTries' >= JobAttempts THEN "failed" ELSE "waiting"
    /\ givingUp' = LastAttempt(jobTries')
    /\ UNCHANGED <<rowVars, pc, historyVars>>

MarkFailed ==
    /\ givingUp
    /\ reply' = "FAILED"
    /\ givingUp' = FALSE
    /\ UNCHANGED <<handed, pc, job, jobTries, gateway, historyVars>>

(* The update fails: the unhandled rejection ends the process, with no job *)
(* at work.                                                                *)
MarkFailedThrows ==
    /\ Suffers("db_error")
    /\ givingUp
    /\ givingUp' = FALSE
    /\ UNCHANGED <<rowVars, pc, job, jobTries, gateway, sends>>

(* BullMQ finds a stalled job: it is retried, or failed without its last   *)
(* attempt, so that the listener does not mark the row.                    *)
GatewayCrash ==
    /\ Suffers("gateway_crash")
    /\ gateway' = "idle" /\ givingUp' = FALSE
    /\ job' \in IF job = "active" THEN {"waiting", "failed"} ELSE {job}
    /\ UNCHANGED <<rowVars, pc, jobTries, sends>>

-----------------------------------------------------------------------------
RunStep(r) ==
    \/ Begin(r)
    \/ FallbackReads(r) \/ FallbackRequeues(r)
    \/ ClaimReply(r) \/ HandOver(r) \/ Enqueue(r) \/ EnqueueThrows(r)
    \/ MarkUnsent(r) \/ DbThrows(r) \/ RunCrash(r)

GatewayStep ==
    \/ JobStart \/ WhatsAppTakes \/ SendThrows \/ MarkSent \/ MarkThrows
    \/ AttemptFails \/ MarkFailed \/ MarkFailedThrows

Next ==
    \/ \E r \in Run : RunStep(r)
    \/ GatewayStep
    \/ GatewayCrash

Spec == Init /\ [][Next]_vars

(* The gateway keeps working on jobs; nothing is assumed of the runs.      *)
FairSpec == Spec /\ WF_vars(GatewayStep)

-----------------------------------------------------------------------------
(* Properties *)

TypeOK ==
    /\ reply \in ReplyStatus
    /\ handed \in BOOLEAN
    /\ pc \in [Run -> PC]
    /\ job \in JobState
    /\ jobTries \in 0..JobAttempts
    /\ gateway \in GatewayPC
    /\ givingUp \in BOOLEAN
    /\ sends \in 0..MaxSends
    /\ mishaps \in SUBSET Faults

(* The dashboard shows SENT only for a reply that WhatsApp has taken.      *)
SentWasTaken == reply = "SENT" => sends > 0

(* The row is FAILED only when the gateway has used up every attempt, and  *)
(* then no job is left that could still send it.                           *)
FailedIsFinal == reply = "FAILED" => job = "failed" /\ jobTries = JobAttempts

(* However many runs hand the row over again (it is QUEUED while the job   *)
(* waits, so they can), crash or time out, the customer gets it once, until*)
(* the gateway itself loses an answer, an update or its process: the job   *)
(* id is the row's.                                                        *)
SentOnce == mishaps = {} => sends <= 1

(* A job that was queued is worked on until the row says SENT or FAILED,   *)
(* unless an update fails or the gateway dies.                             *)
JobSettles ==
    job = "waiting" ~>
        \/ reply \in {"SENT", "FAILED"}
        \/ mishaps \cap {"gateway_crash", "db_error"} # {}

(* Retries, hand-overs and fallbacks of the runs notwithstanding, the       *)
(* gateway keeps the promises of an outbox: a SENT row is backed by a       *)
(* message, and WhatsApp takes no second copy of it unless the gateway has  *)
(* lost an answer, an update or its process. The row has its text before    *)
(* deliver sees it.                                                         *)
Promise == INSTANCE Outbox
    WITH Text <- {"reply"},
         text <- "reply",
         copies <- sends,
         excused <- IF mishaps = {} THEN 0 ELSE MaxSends,
         shown <- (reply = "SENT")

KeepsPromise == Promise!Spec
====
