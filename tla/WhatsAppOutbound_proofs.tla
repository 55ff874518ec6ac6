---- MODULE WhatsAppOutbound_proofs ----
(***************************************************************************)
(* Proofs about WhatsAppOutbound.tla for any number of runs and attempts.  *)
(* The last part is the refinement of Outbox. JobSettles needs fairness    *)
(* and stays with TLC.                                                     *)
(***************************************************************************)
EXTENDS WhatsAppOutbound, TLAPS

(* The worker has a job in hand only while BullMQ counts it as active, and *)
(* a job that may still run has attempts left.                             *)
JobInv ==
  /\ gateway # "idle" => job = "active"
  /\ job \in {"none", "waiting", "active"} => jobTries < JobAttempts
  /\ givingUp => job = "failed" /\ jobTries = JobAttempts

TakenInv == SentWasTaken /\ (gateway = "mark" => sends > 0)

OutboundInv == TypeOK /\ JobInv /\ TakenInv /\ FailedIsFinal

LEMMA OutboundInit == Init => OutboundInv
<1> SUFFICES ASSUME Init PROVE OutboundInv
  OBVIOUS
<1>1. jobTries \in 0..JobAttempts /\ jobTries < JobAttempts /\ sends \in 0..MaxSends
  BY OutboundAssumption DEF Init
<1>2. TypeOK
  BY <1>1 DEF Init, TypeOK, ReplyStatus, PC, JobState, GatewayPC
<1>3. JobInv /\ TakenInv /\ FailedIsFinal
  BY <1>1 DEF Init, JobInv, TakenInv, SentWasTaken, FailedIsFinal
<1> QED
  BY <1>2, <1>3 DEF OutboundInv

(* What the runs do to the row and the job: none writes SENT or FAILED,    *)
(* and none touches a job that exists.                                     *)
LEMMA RunKeepsInv ==
  ASSUME OutboundInv, NEW r \in Run, RunStep(r)
  PROVE  OutboundInv'
<1> USE OutboundAssumption
    DEF OutboundInv, TypeOK, JobInv, TakenInv, SentWasTaken, FailedIsFinal,
        ReplyStatus, PC, JobState, GatewayPC, Goto, rowVars, jobVars, historyVars
<1>1. CASE Begin(r)
  BY <1>1 DEF Begin
<1>2. CASE FallbackReads(r)
  BY <1>2 DEF FallbackReads
<1>3. CASE FallbackRequeues(r)
  BY <1>3 DEF FallbackRequeues
<1>4. CASE ClaimReply(r)
  BY <1>4 DEF ClaimReply
<1>5. CASE HandOver(r)
  BY <1>5 DEF HandOver
<1>6. CASE Enqueue(r)
  BY <1>6 DEF Enqueue, AddJob
<1>7. CASE EnqueueThrows(r)
  BY <1>7 DEF EnqueueThrows, AddJob
<1>8. CASE MarkUnsent(r)
  BY <1>8 DEF MarkUnsent
<1>9. CASE DbThrows(r)
  BY <1>9 DEF DbThrows
<1>10. CASE RunCrash(r)
  BY <1>10 DEF RunCrash
<1> QED
  BY <1>1, <1>2, <1>3, <1>4, <1>5, <1>6, <1>7, <1>8, <1>9, <1>10 DEF RunStep

LEMMA GatewayKeepsInv ==
  ASSUME OutboundInv, GatewayStep \/ GatewayCrash
  PROVE  OutboundInv'
<1> USE OutboundAssumption
    DEF OutboundInv, TypeOK, JobInv, TakenInv, SentWasTaken, FailedIsFinal,
        ReplyStatus, PC, JobState, GatewayPC, rowVars, jobVars, historyVars
<1>1. CASE JobStart
  BY <1>1 DEF JobStart
<1>2. CASE WhatsAppTakes
  <2>1. sends' \in 1..MaxSends
    BY <1>2 DEF WhatsAppTakes
  <2>2. gateway' \in {"mark", "failing"} /\ job = "active"
    BY <1>2 DEF WhatsAppTakes
  <2>3. mishaps' \in SUBSET Faults
    BY <1>2 DEF WhatsAppTakes, Suffers
  <2> QED
    BY <1>2, <2>1, <2>2, <2>3 DEF WhatsAppTakes
<1>3. CASE SendThrows
  BY <1>3 DEF SendThrows
<1>4. CASE MarkSent
  BY <1>4 DEF MarkSent
<1>5. CASE MarkThrows
  BY <1>5 DEF MarkThrows, Suffers
<1>6. CASE AttemptFails
  \* The job was active, so it had an attempt left: the count cannot pass the bound.
  <2>1. job = "active" /\ jobTries < JobAttempts /\ jobTries' = jobTries + 1
    BY <1>6 DEF AttemptFails
  <2>2. jobTries' \in 0..JobAttempts /\ (jobTries' >= JobAttempts <=> jobTries' = JobAttempts)
    BY <2>1
  <2>3. reply # "FAILED"
    BY <2>1
  <2>4. CASE jobTries' = JobAttempts
    <3>1. job' = "failed" /\ givingUp' = TRUE
      BY <1>6, <2>2, <2>4 DEF AttemptFails, LastAttempt
    <3> QED
      BY <1>6, <2>1, <2>2, <2>3, <2>4, <3>1 DEF AttemptFails
  <2>5. CASE jobTries' # JobAttempts
    <3>1. job' = "waiting" /\ givingUp' = FALSE /\ jobTries' < JobAttempts
      BY <1>6, <2>1, <2>2, <2>5 DEF AttemptFails, LastAttempt
    <3> QED
      BY <1>6, <2>1, <2>2, <2>3, <3>1 DEF AttemptFails
  <2> QED
    BY <2>4, <2>5
<1>7. CASE MarkFailed
  BY <1>7 DEF MarkFailed
<1>8. CASE MarkFailedThrows
  BY <1>8 DEF MarkFailedThrows, Suffers
<1>9. CASE GatewayCrash
  BY <1>9 DEF GatewayCrash, Suffers
<1> QED
  BY <1>1, <1>2, <1>3, <1>4, <1>5, <1>6, <1>7, <1>8, <1>9 DEF GatewayStep

LEMMA OutboundStep == OutboundInv /\ [Next]_vars => OutboundInv'
<1> SUFFICES ASSUME OutboundInv, [Next]_vars PROVE OutboundInv'
  OBVIOUS
<1>1. CASE UNCHANGED vars
  BY <1>1 DEF vars, rowVars, jobVars, historyVars, OutboundInv, TypeOK, JobInv, TakenInv,
              SentWasTaken, FailedIsFinal
<1>2. CASE Next
  BY <1>2, RunKeepsInv, GatewayKeepsInv DEF Next
<1> QED
  BY <1>1, <1>2

LEMMA OutboundInvariant == Spec => []OutboundInv
BY OutboundInit, OutboundStep, PTL DEF Spec

(* Every row, job and run keeps its type; in particular a job is never     *)
(* attempted more often than the queue's options say.                      *)
THEOREM OutboundTypeCorrect == Spec => []TypeOK
<1>1. OutboundInv => TypeOK
  BY DEF OutboundInv
<1> QED
  BY <1>1, OutboundInvariant, PTL

(* The gateway writes SENT only after WhatsApp took the message.           *)
THEOREM SentRowsWereTaken == Spec => []SentWasTaken
<1>1. OutboundInv => SentWasTaken
  BY DEF OutboundInv, TakenInv
<1> QED
  BY <1>1, OutboundInvariant, PTL

(* A row reads FAILED only when no attempt is left.                        *)
THEOREM FailedRowsAreFinal == Spec => []FailedIsFinal
<1>1. OutboundInv => FailedIsFinal
  BY DEF OutboundInv
<1> QED
  BY <1>1, OutboundInvariant, PTL

-----------------------------------------------------------------------------
(* One message, however many runs hand the row over. *)

(* While an attempt may still send, nothing was sent.                      *)
OnceInv ==
  mishaps = {} =>
    /\ job \in {"none", "waiting"} => sends = 0
    /\ gateway \in {"send", "failing"} => sends = 0
    /\ sends <= 1

LEMMA OnceInit == Init => OnceInv
BY DEF Init, OnceInv

LEMMA OnceStep == OutboundInv /\ OnceInv /\ [Next]_vars => OnceInv'
<1> SUFFICES ASSUME OutboundInv, OnceInv, [Next]_vars PROVE OnceInv'
  OBVIOUS
<1> USE OutboundAssumption
    DEF OutboundInv, TypeOK, OnceInv, rowVars, jobVars, historyVars
<1>1. CASE UNCHANGED vars
  BY <1>1 DEF vars
<1>2. ASSUME NEW r \in Run, RunStep(r) PROVE OnceInv'
  <2>1. CASE Enqueue(r) \/ EnqueueThrows(r)
    BY <2>1 DEF Enqueue, EnqueueThrows, AddJob
  <2>2. CASE ~ (Enqueue(r) \/ EnqueueThrows(r))
    BY <1>2, <2>2 DEF RunStep, Begin, FallbackReads, FallbackRequeues, ClaimReply,
                      HandOver, MarkUnsent, DbThrows, RunCrash
  <2> QED
    BY <2>1, <2>2
<1>3. CASE GatewayStep
  <2>1. CASE JobStart
    BY <2>1 DEF JobStart
  <2>2. CASE WhatsAppTakes
    <3>1. CASE gateway' = "mark" /\ mishaps' = mishaps
      BY <2>2, <3>1 DEF WhatsAppTakes, JobInv
    <3>2. CASE Suffers("lost_answer")
      BY <3>2 DEF Suffers
    <3> QED
      BY <2>2, <3>1, <3>2 DEF WhatsAppTakes
  <2>3. CASE SendThrows
    BY <2>3 DEF SendThrows
  <2>4. CASE MarkSent
    BY <2>4 DEF MarkSent
  <2>5. CASE AttemptFails
    BY <2>5 DEF AttemptFails
  <2>6. CASE MarkFailed
    BY <2>6 DEF MarkFailed
  <2>7. CASE MarkThrows \/ MarkFailedThrows
    BY <2>7 DEF MarkThrows, MarkFailedThrows, Suffers
  <2> QED
    BY <1>3, <2>1, <2>2, <2>3, <2>4, <2>5, <2>6, <2>7 DEF GatewayStep
<1>4. CASE GatewayCrash
  BY <1>4 DEF GatewayCrash, Suffers
<1> QED
  BY <1>1, <1>2, <1>3, <1>4 DEF Next

(* For any number of overlapping runs and fallbacks, with processes of the *)
(* pipeline dying and Redis failing, WhatsApp takes the reply at most once *)
(* as long as the gateway has lost nothing.                                *)
THEOREM DeliveredOnce == Spec => []SentOnce
<1>1. OnceInv => SentOnce
  BY DEF OnceInv, SentOnce
<1> QED
  BY <1>1, OnceInit, OnceStep, OutboundInvariant, PTL DEF Spec


-----------------------------------------------------------------------------
(* The refinement. Between two messages, the runs and the gateway change   *)
(* no more of the outbox than whether the reply is shown as sent, which it *)
(* is only once a copy was taken.                                          *)
LEMMA StatusStep ==
  ASSUME OutboundInv', UNCHANGED <<sends, mishaps>>
  PROVE  [Promise!Next]_(Promise!vars)
<1>1. reply' = "SENT" => sends > 0
  BY DEF OutboundInv, TakenInv, SentWasTaken
<1>2. CASE (reply' = "SENT") = (reply = "SENT")
  BY <1>2 DEF Promise!vars
<1>3. CASE reply' = "SENT" /\ reply # "SENT"
  BY <1>1, <1>3 DEF Promise!Next, Promise!Show
<1>4. CASE reply' # "SENT" /\ reply = "SENT"
  BY <1>4 DEF Promise!Next, Promise!Hide
<1> QED
  BY <1>2, <1>3, <1>4

(* What the gateway loses is an excuse, or one more.                       *)
LEMMA MishapStep ==
  ASSUME mishaps \subseteq mishaps', UNCHANGED <<reply, sends>>
  PROVE  [Promise!Next]_(Promise!vars)
<1>1. CASE (mishaps' = {}) = (mishaps = {})
  BY <1>1 DEF Promise!vars
<1>2. CASE mishaps = {} /\ mishaps' # {}
  BY <1>2, OutboundAssumption DEF Promise!Next, Promise!Excuse
<1> QED
  BY <1>1, <1>2

LEMMA PromiseStep ==
  OutboundInv /\ OnceInv /\ [Next]_vars => [Promise!Next]_(Promise!vars)
<1> SUFFICES ASSUME OutboundInv, OnceInv, [Next]_vars
             PROVE  [Promise!Next]_(Promise!vars)
  OBVIOUS
<1>1. OutboundInv'
  BY OutboundStep
<1>2. CASE WhatsAppTakes
  <2>1. sends \in 0..MaxSends /\ MaxSends \in Nat \ {0} /\ mishaps \subseteq mishaps' /\ reply' = reply
    BY <1>2, OutboundAssumption DEF WhatsAppTakes, Suffers, OutboundInv, TypeOK, rowVars
  <2>2. CASE sends = MaxSends
    BY <1>2, <2>1, <2>2, MishapStep DEF WhatsAppTakes
  <2>3. CASE sends < MaxSends
    <3>1. sends' = sends + 1
      BY <1>2, <2>3 DEF WhatsAppTakes
    <3>2. sends <= IF mishaps = {} THEN 0 ELSE MaxSends
      BY <1>2, <2>1 DEF WhatsAppTakes, OnceInv
    <3>3. (IF mishaps' = {} THEN 0 ELSE MaxSends) >= IF mishaps = {} THEN 0 ELSE MaxSends
      BY <2>1
    <3> QED
      BY <2>1, <3>1, <3>2, <3>3 DEF Promise!Next, Promise!Take
  <2> QED
    BY <2>1, <2>2, <2>3
<1>3. CASE MarkThrows \/ MarkFailedThrows \/ GatewayCrash
  BY <1>3, MishapStep DEF MarkThrows, MarkFailedThrows, GatewayCrash, Suffers, rowVars
<1>4. CASE JobStart \/ SendThrows \/ MarkSent \/ AttemptFails \/ MarkFailed
  BY <1>1, <1>4, StatusStep
  DEF JobStart, SendThrows, MarkSent, AttemptFails, MarkFailed, historyVars
<1>5. ASSUME NEW r \in Run, RunStep(r) PROVE UNCHANGED <<sends, mishaps>>
  BY <1>5 DEF RunStep, Begin, FallbackReads, FallbackRequeues, ClaimReply, HandOver, Enqueue,
              EnqueueThrows, MarkUnsent, DbThrows, RunCrash, historyVars
<1>6. CASE UNCHANGED vars
  BY <1>1, <1>6, StatusStep DEF vars, historyVars
<1> QED
  BY <1>1, <1>2, <1>3, <1>4, <1>5, <1>6, StatusStep DEF Next, GatewayStep

(* The gateway and the runs that feed it implement the outbox, for any     *)
(* number of runs and attempts and any combination of faults.              *)
THEOREM GatewayKeepsPromise == Spec => KeepsPromise
<1>1. Init => Promise!Init
  BY DEF Init, Promise!Init
<1> QED
  BY <1>1, PromiseStep, OnceInit, OnceStep, OutboundInvariant, PTL
  DEF Spec, KeepsPromise, Promise!Spec

====
