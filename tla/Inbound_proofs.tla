---- MODULE Inbound_proofs ----
(***************************************************************************)
(* Proofs about Inbound.tla for any thresholds, with the worker in the API *)
(* process or in its own, and any combination of faults. The last part is  *)
(* the refinement of Outbox. EventSettles needs fairness and stays with    *)
(* TLC.                                                                    *)
(***************************************************************************)
EXTENDS Inbound, TLAPS

Delivering == {"deliver", "sending", "sent", "unsent"}

(* What holds of a run wherever others have got to: a fallback run carries *)
(* the fallback text, any other run delivers the text of the row.          *)
RunInv ==
  \A r \in Runner :
    /\ mode[r] = "fallback" =>
         /\ pc[r] \in {"fallback", "create", "requeue"} \cup Delivering
         /\ text[r] = "fallback"
         /\ fellBack
    /\ pc[r] \in {"fallback", "create", "requeue"} => mode[r] = "fallback"
    /\ pc[r] = "requeue" => reply # "NONE"
    /\ pc[r] = "answered" => text[r] \in Text
    /\ pc[r] \in Delivering =>
         /\ reply # "NONE"
         /\ mode[r] = "process" => text[r] = content
    /\ pc[r] = "sent" => sends[text[r]] > 0

(* The text of the row never changes once it exists, and it is the only    *)
(* agent text that was ever sent.                                          *)
RowInv ==
  /\ reply # "NONE" => content \in Text
  /\ \A t \in {"answer", "order"} : sends[t] > 0 => reply # "NONE" /\ content = t
  /\ SentWasTaken

(* Before a fallback, the run that claimed the row holds it alone. *)
SenderInv ==
  ~ fellBack =>
    \A r \in Runner : Sending(r) =>
      /\ reply = "PROCESSING"
      /\ \A q \in Runner : Sending(q) => q = r

InboundInv == TypeOK /\ RunInv /\ RowInv /\ SenderInv

LEMMA InboundInit == Init => InboundInv
<1> SUFFICES ASSUME Init PROVE InboundInv
  OBVIOUS
<1>1. TypeOK
  <2>1. attempts \in 0..RetryLimit /\ jobTries \in 0..JobAttempts
    BY InboundAssumption DEF Init
  <2>2. sends \in [Text -> 0..MaxSends]
    BY InboundAssumption DEF Init
  <2> QED
    BY <2>1, <2>2 DEF Init, TypeOK, Text, PC, EventStatus, ReplyStatus, JobState
<1>2. RunInv /\ RowInv /\ SenderInv
  BY DEF Init, RunInv, RowInv, SenderInv, SentWasTaken, Sending, Delivering, Text
<1> QED
  BY <1>1, <1>2 DEF InboundInv

-----------------------------------------------------------------------------
(* One lemma for each group of actions. *)

(* The webhook, the clock and the two recovery loops. *)
LEMMA QueueingSteps ==
  ASSUME InboundInv,
         Arrive \/ Redeliver \/ Age \/ ApiRecovers \/ WorkerReads \/ WorkerRecovers
  PROVE  InboundInv'
<1> USE InboundAssumption
    DEF InboundInv, TypeOK, RunInv, RowInv, SenderInv, SentWasTaken, Sending,
        Delivering, Text, Runner, RunnersOf, PC, EventStatus, ReplyStatus, JobState,
        rowVars, runVars, queueVars, historyVars
<1>1. TypeOK'
  <2>1. CASE Arrive
    BY <2>1 DEF Arrive, Enqueue, AddJob
  <2>2. CASE Redeliver
    BY <2>2 DEF Redeliver, Enqueue, AddJob
  <2>3. CASE Age
    BY <2>3 DEF Age
  <2>4. CASE ApiRecovers
    BY <2>4 DEF ApiRecovers, Enqueue, AddJob
  <2>5. CASE WorkerReads
    BY <2>5 DEF WorkerReads
  <2>6. CASE WorkerRecovers
    BY <2>6 DEF WorkerRecovers, Enqueue, AddJob, WorkerHost
  <2> QED
    BY <2>1, <2>2, <2>3, <2>4, <2>5, <2>6
<1>2. RunInv'
  BY DEF Arrive, Enqueue, AddJob, Redeliver, Age, ApiRecovers, WorkerReads,
     WorkerRecovers, WorkerHost
<1>3. RowInv'
  BY DEF Arrive, Enqueue, AddJob, Redeliver, Age, ApiRecovers, WorkerReads,
     WorkerRecovers, WorkerHost
<1>4. SenderInv'
  BY DEF Arrive, Enqueue, AddJob, Redeliver, Age, ApiRecovers, WorkerReads,
     WorkerRecovers, WorkerHost
<1> QED
  BY <1>1, <1>2, <1>3, <1>4

(* The claim that opens a run. *)
LEMMA StartSteps ==
  ASSUME InboundInv,
         \/ JobStart
         \/ \E d \in Direct : DirectStart(d)
  PROVE  InboundInv'
<1> USE InboundAssumption
    DEF InboundInv, TypeOK, RunInv, RowInv, SenderInv, SentWasTaken, Sending,
        Delivering, Text, Runner, RunnersOf, PC, EventStatus, ReplyStatus, JobState,
        rowVars, runVars, queueVars, historyVars
<1>1. TypeOK'
  <2>1. ASSUME NEW d \in Direct, DirectStart(d) PROVE TypeOK'
    BY <2>1 DEF DirectStart, ClaimEvent, Goto, CountUp
  <2>2. CASE JobStart
    BY <2>2 DEF JobStart, ClaimEvent, Goto, CountUp
  <2> QED
    BY <2>1, <2>2
<1>2. RunInv'
  BY DEF DirectStart, ClaimEvent, Goto, CountUp, JobStart
<1>3. RowInv'
  BY DEF DirectStart, ClaimEvent, Goto, CountUp, JobStart
<1>4. SenderInv'
  BY DEF DirectStart, ClaimEvent, Goto, CountUp, JobStart
<1> QED
  BY <1>1, <1>2, <1>3, <1>4

(* From the claim to the saved reply. *)
LEMMA AgentSteps ==
  ASSUME InboundInv,
         \E r \in Runner : Ignore(r) \/ Hear(r) \/ AgentAnswers(r) \/ SaveReply(r)
  PROVE  InboundInv'
<1> USE InboundAssumption
    DEF InboundInv, TypeOK, RunInv, RowInv, SenderInv, SentWasTaken, Sending,
        Delivering, Text, Runner, RunnersOf, PC, EventStatus, ReplyStatus, JobState,
        rowVars, runVars, queueVars, historyVars
<1>1. TypeOK'
  <2>1. ASSUME NEW r \in Runner, Ignore(r) PROVE TypeOK'
    BY <2>1 DEF Ignore, Leave, JobReturns
  <2>2. ASSUME NEW r \in Runner, Hear(r) PROVE TypeOK'
    BY <2>2 DEF Hear, Goto
  <2>3. ASSUME NEW r \in Runner, AgentAnswers(r) PROVE TypeOK'
    BY <2>3 DEF AgentAnswers
  <2>4. ASSUME NEW r \in Runner, SaveReply(r) PROVE TypeOK'
    BY <2>4 DEF SaveReply
  <2> QED
    BY <2>1, <2>2, <2>3, <2>4
<1>2. RunInv'
  <2>1. ASSUME NEW r \in Runner, Ignore(r) PROVE RunInv'
    BY <2>1 DEF Ignore, Leave, JobReturns
  <2>2. ASSUME NEW r \in Runner, Hear(r) PROVE RunInv'
    BY <2>2 DEF Hear, Goto
  <2>3. ASSUME NEW r \in Runner, AgentAnswers(r) PROVE RunInv'
    BY <2>3 DEF AgentAnswers
  <2>4. ASSUME NEW r \in Runner, SaveReply(r) PROVE RunInv'
    BY <2>4 DEF SaveReply
  <2> QED
    BY <2>1, <2>2, <2>3, <2>4
<1>3. RowInv'
  BY DEF Ignore, Leave, JobReturns, Hear, Goto, AgentAnswers,
     SaveReply
<1>4. SenderInv'
  <2>1. ASSUME NEW r \in Runner, Ignore(r) PROVE SenderInv'
    BY <2>1 DEF Ignore, Leave, JobReturns
  <2>2. ASSUME NEW r \in Runner, Hear(r) PROVE SenderInv'
    BY <2>2 DEF Hear, Goto
  <2>3. ASSUME NEW r \in Runner, AgentAnswers(r) PROVE SenderInv'
    BY <2>3 DEF AgentAnswers
  <2>4. ASSUME NEW r \in Runner, SaveReply(r) PROVE SenderInv'
    BY <2>4 DEF SaveReply
  <2> QED
    BY <2>1, <2>2, <2>3, <2>4
<1> QED
  BY <1>1, <1>2, <1>3, <1>4

(* deliver and the final transaction. *)
LEMMA DeliverySteps ==
  ASSUME InboundInv,
         \E r \in Runner : ClaimReply(r) \/ GraphTakes(r) \/ GraphRefuses(r) \/ MarkSent(r) \/ MarkUnsent(r) \/ Complete(r)
  PROVE  InboundInv'
<1> USE InboundAssumption
    DEF InboundInv, TypeOK, RunInv, RowInv, SenderInv, SentWasTaken, Sending,
        Delivering, Text, Runner, RunnersOf, PC, EventStatus, ReplyStatus, JobState,
        rowVars, runVars, queueVars, historyVars
<1>1. TypeOK'
  <2>1. ASSUME NEW r \in Runner, ClaimReply(r) PROVE TypeOK'
    BY <2>1 DEF ClaimReply, Goto, Delivered, Leave
  <2>2. ASSUME NEW r \in Runner, GraphTakes(r) PROVE TypeOK'
    <3>1. sends' \in [Text -> 0..MaxSends]
      BY <2>2 DEF GraphTakes, CountUp
    <3>2. pc' \in [Runner -> PC] /\ UNCHANGED <<mode, text>>
      BY <2>2 DEF GraphTakes, Goto
    <3>3. doubt' \in BOOLEAN
      BY <2>2 DEF GraphTakes
    <3> QED
      BY <2>2, <3>1, <3>2, <3>3 DEF GraphTakes
  <2>3. ASSUME NEW r \in Runner, GraphRefuses(r) PROVE TypeOK'
    BY <2>3 DEF GraphRefuses, Goto
  <2>4. ASSUME NEW r \in Runner, MarkSent(r) PROVE TypeOK'
    BY <2>4 DEF MarkSent, Delivered, Leave, Goto
  <2>5. ASSUME NEW r \in Runner, MarkUnsent(r) PROVE TypeOK'
    BY <2>5 DEF MarkUnsent, Throw, Leave, Goto
  <2>6. ASSUME NEW r \in Runner, Complete(r) PROVE TypeOK'
    BY <2>6 DEF Complete, Leave, JobReturns
  <2> QED
    BY <2>1, <2>2, <2>3, <2>4, <2>5, <2>6
<1>2. RunInv'
  <2>1. ASSUME NEW r \in Runner, ClaimReply(r) PROVE RunInv'
    BY <2>1 DEF ClaimReply, Goto, Delivered, Leave
  <2>2. ASSUME NEW r \in Runner, GraphTakes(r) PROVE RunInv'
    BY <2>2 DEF GraphTakes, Goto, CountUp
  <2>3. ASSUME NEW r \in Runner, GraphRefuses(r) PROVE RunInv'
    BY <2>3 DEF GraphRefuses, Goto
  <2>4. ASSUME NEW r \in Runner, MarkSent(r) PROVE RunInv'
    BY <2>4 DEF MarkSent, Delivered, Leave, Goto
  <2>5. ASSUME NEW r \in Runner, MarkUnsent(r) PROVE RunInv'
    BY <2>5 DEF MarkUnsent, Throw, Leave, Goto
  <2>6. ASSUME NEW r \in Runner, Complete(r) PROVE RunInv'
    BY <2>6 DEF Complete, Leave, JobReturns
  <2> QED
    BY <2>1, <2>2, <2>3, <2>4, <2>5, <2>6
<1>3. RowInv'
  BY DEF ClaimReply, Goto, Delivered, Leave, GraphTakes, CountUp,
     GraphRefuses, MarkSent, MarkUnsent, Throw, Complete, JobReturns
<1>4. SenderInv'
  <2>1. ASSUME NEW r \in Runner, ClaimReply(r) PROVE SenderInv'
    BY <2>1 DEF ClaimReply, Goto, Delivered, Leave
  <2>2. ASSUME NEW r \in Runner, GraphTakes(r) PROVE SenderInv'
    BY <2>2 DEF GraphTakes, Goto, CountUp
  <2>3. ASSUME NEW r \in Runner, GraphRefuses(r) PROVE SenderInv'
    BY <2>3 DEF GraphRefuses, Goto
  <2>4. ASSUME NEW r \in Runner, MarkSent(r) PROVE SenderInv'
    BY <2>4 DEF MarkSent, Delivered, Leave, Goto
  <2>5. ASSUME NEW r \in Runner, MarkUnsent(r) PROVE SenderInv'
    BY <2>5 DEF MarkUnsent, Throw, Leave, Goto
  <2>6. ASSUME NEW r \in Runner, Complete(r) PROVE SenderInv'
    BY <2>6 DEF Complete, Leave, JobReturns
  <2> QED
    BY <2>1, <2>2, <2>3, <2>4, <2>5, <2>6
<1> QED
  BY <1>1, <1>2, <1>3, <1>4

(* Errors and what follows them. *)
LEMMA FailureSteps ==
  ASSUME InboundInv,
         \/ JobFailed
         \/ \E r \in Runner : DbThrows(r) \/ MarkFailed(r)
         \/ \E d \in Direct : DirectFailed(d)
  PROVE  InboundInv'
<1> USE InboundAssumption
    DEF InboundInv, TypeOK, RunInv, RowInv, SenderInv, SentWasTaken, Sending,
        Delivering, Text, Runner, RunnersOf, PC, EventStatus, ReplyStatus, JobState,
        rowVars, runVars, queueVars, historyVars
<1>1. TypeOK'
  <2>1. ASSUME NEW r \in Runner, DbThrows(r) PROVE TypeOK'
    BY <2>1 DEF DbThrows, Throw, Leave, Goto
  <2>2. ASSUME NEW r \in Runner, MarkFailed(r) PROVE TypeOK'
    BY <2>2 DEF MarkFailed, Goto
  <2>3. ASSUME NEW d \in Direct, DirectFailed(d) PROVE TypeOK'
    BY <2>3 DEF DirectFailed, StartFallback, Leave
  <2>4. CASE JobFailed
    <3>1. /\ pc' \in [Runner -> PC]
          /\ text' \in [Runner -> Text \cup {"none"}]
          /\ mode' \in [Runner -> {"process", "fallback"}]
      BY <2>4 DEF JobFailed, StartFallback, Leave
    <3>2. jobTries' \in 0..JobAttempts
      BY <2>4 DEF JobFailed, CountUp
    <3>3. job' \in {"failed", "waiting"}
      BY <2>4 DEF JobFailed
    <3>4. fellBack' \in BOOLEAN /\ doubt' \in BOOLEAN
      BY <2>4 DEF JobFailed, StartFallback
    <3> QED
      BY <2>4, <3>1, <3>2, <3>3, <3>4 DEF JobFailed
  <2> QED
    BY <2>1, <2>2, <2>3, <2>4
<1>2. RunInv'
  BY DEF DbThrows, Throw, Leave, Goto, MarkFailed, DirectFailed,
     StartFallback, JobFailed, CountUp
<1>3. RowInv'
  BY DEF DbThrows, Throw, Leave, Goto, MarkFailed, DirectFailed,
     StartFallback, JobFailed, CountUp
<1>4. SenderInv'
  BY DEF DbThrows, Throw, Leave, Goto, MarkFailed, DirectFailed,
     StartFallback, JobFailed, CountUp
<1> QED
  BY <1>1, <1>2, <1>3, <1>4

(* sendFallbackForEvent. *)
LEMMA FallbackSteps ==
  ASSUME InboundInv,
         \E r \in Runner : FallbackGivesUp(r) \/ FallbackReads(r) \/ FallbackCreates(r) \/ FallbackRequeues(r)
  PROVE  InboundInv'
<1> USE InboundAssumption
    DEF InboundInv, TypeOK, RunInv, RowInv, SenderInv, SentWasTaken, Sending,
        Delivering, Text, Runner, RunnersOf, PC, EventStatus, ReplyStatus, JobState,
        rowVars, runVars, queueVars, historyVars
<1>1. TypeOK'
  BY DEF FallbackGivesUp, Leave, FallbackReads, Goto, FallbackCreates,
     FallbackRequeues
<1>2. RunInv'
  <2>1. ASSUME NEW r \in Runner, FallbackGivesUp(r) PROVE RunInv'
    BY <2>1 DEF FallbackGivesUp, Leave
  <2>2. ASSUME NEW r \in Runner, FallbackReads(r) PROVE RunInv'
    BY <2>2 DEF FallbackReads, Goto, Leave
  <2>3. ASSUME NEW r \in Runner, FallbackCreates(r) PROVE RunInv'
    BY <2>3 DEF FallbackCreates, Goto, Leave
  <2>4. ASSUME NEW r \in Runner, FallbackRequeues(r) PROVE RunInv'
    BY <2>4 DEF FallbackRequeues, Goto
  <2> QED
    BY <2>1, <2>2, <2>3, <2>4
<1>3. RowInv'
  BY DEF FallbackGivesUp, Leave, FallbackReads, Goto, FallbackCreates,
     FallbackRequeues
<1>4. SenderInv'
  BY DEF FallbackGivesUp, Leave, FallbackReads, Goto, FallbackCreates,
     FallbackRequeues
<1> QED
  BY <1>1, <1>2, <1>3, <1>4

(* The end of a process. *)
LEMMA DeathSteps ==
  ASSUME InboundInv,
         \E d \in Direct : Crash(d)
  PROVE  InboundInv'
<1> USE InboundAssumption
    DEF InboundInv, TypeOK, RunInv, RowInv, SenderInv, SentWasTaken, Sending,
        Delivering, Text, Runner, RunnersOf, PC, EventStatus, ReplyStatus, JobState,
        rowVars, runVars, queueVars, historyVars
<1>1. TypeOK'
  BY DEF Crash
<1>2. RunInv'
  BY DEF Crash
<1>3. RowInv'
  BY DEF Crash
<1>4. SenderInv'
  BY DEF Crash
<1> QED
  BY <1>1, <1>2, <1>3, <1>4

LEMMA InboundStep == InboundInv /\ [Next]_vars => InboundInv'
<1> SUFFICES ASSUME InboundInv, [Next]_vars PROVE InboundInv'
  OBVIOUS
<1>1. CASE UNCHANGED vars
  BY <1>1 DEF vars, InboundInv, TypeOK, RunInv, RowInv, SenderInv, SentWasTaken,
     Sending, rowVars, runVars, queueVars, historyVars
<1>2. ASSUME NEW r \in Runner, RunStep(r)
      PROVE  InboundInv'
  BY <1>2, AgentSteps, DeliverySteps, FailureSteps, FallbackSteps DEF RunStep
<1> QED
  BY <1>1, <1>2, QueueingSteps, StartSteps, DeathSteps DEF Next

LEMMA InboundInvariant == Spec => []InboundInv
BY InboundInit, InboundStep, PTL DEF Spec

(* Type correctness of the event, its rows and everything that works on it. *)
THEOREM InboundTypeCorrect == Spec => []TypeOK
BY InboundInvariant, PTL DEF InboundInv

(* The runs of an event never send two different agent texts. *)
THEOREM AnswersAgree == Spec => []OneAnswer
<1>1. InboundInv => OneAnswer
  BY DEF InboundInv, RowInv, OneAnswer
<1> QED
  BY <1>1, InboundInvariant, PTL

(* A SENT row was taken by the Graph API, with the text it shows unless a  *)
(* fallback was started.                                                   *)
THEOREM SentRowsAreTrue == Spec => []SentWasTaken
BY InboundInvariant, PTL DEF InboundInv, RowInv

(* Until a fallback is started at most one run is sending. *)
THEOREM SendingIsExclusive == Spec => []OneSender
<1>1. InboundInv => OneSender
  BY DEF InboundInv, SenderInv, OneSender
<1> QED
  BY <1>1, InboundInvariant, PTL

-----------------------------------------------------------------------------
(* Sending once. Once a message was taken, and as long as no answer is     *)
(* lost, the row stays PROCESSING or SENT, so nobody can claim it again.   *)

OnceInv ==
  /\ fellBack => doubt
  /\ ~ doubt =>
       \A t \in Text : sends[t] > 0 =>
         /\ reply \in {"PROCESSING", "SENT"}
         /\ \A r \in Runner : pc[r] \notin {"sending", "unsent"}

LEMMA OnceStep ==
  ASSUME InboundInv, OnceInv, [Next]_vars
  PROVE  OnceInv'
<1> USE InboundAssumption
    DEF InboundInv, TypeOK, RunInv, RowInv, SenderInv, Sending, Delivering, OnceInv,
        Text, Runner, RunnersOf, rowVars, runVars, queueVars, historyVars
<1>1. CASE Arrive \/ Redeliver \/ Age \/ ApiRecovers \/ WorkerReads \/ WorkerRecovers
  BY <1>1 DEF Arrive, Enqueue, AddJob, Redeliver, Age, ApiRecovers,
     WorkerReads, WorkerRecovers, WorkerHost
<1>2. CASE \/ JobStart
          \/ \E d \in Direct : DirectStart(d)
  BY <1>2 DEF DirectStart, ClaimEvent, Goto, CountUp, JobStart
<1>3. CASE \E r \in Runner : Ignore(r) \/ Hear(r) \/ AgentAnswers(r) \/ SaveReply(r)
  BY <1>3 DEF Ignore, Leave, JobReturns, Hear, Goto, AgentAnswers,
     SaveReply
<1>4. CASE \E r \in Runner : ClaimReply(r) \/ GraphTakes(r) \/ GraphRefuses(r) \/ MarkSent(r) \/ MarkUnsent(r) \/ Complete(r)
  BY <1>4 DEF ClaimReply, Goto, Delivered, Leave, GraphTakes, CountUp,
     GraphRefuses, MarkSent, MarkUnsent, Throw, Complete, JobReturns
<1>5. CASE \/ JobFailed
          \/ \E r \in Runner : DbThrows(r) \/ MarkFailed(r)
          \/ \E d \in Direct : DirectFailed(d)
  <2>1. CASE JobFailed
    BY <2>1 DEF JobFailed, StartFallback, Leave
  <2>2. ASSUME NEW r \in Runner, DbThrows(r) PROVE OnceInv'
    <3>1. CASE pc[r] = "sent"
      BY <2>2, <3>1 DEF DbThrows
    <3>2. CASE pc[r] # "sent"
      BY <2>2, <3>2 DEF DbThrows, Throw, Leave, Goto
    <3> QED
      BY <3>1, <3>2
  <2>3. ASSUME NEW r \in Runner, MarkFailed(r) PROVE OnceInv'
    BY <2>3 DEF MarkFailed, Goto
  <2>4. ASSUME NEW d \in Direct, DirectFailed(d) PROVE OnceInv'
    BY <2>4 DEF DirectFailed, StartFallback, Leave
  <2> QED
    BY <1>5, <2>1, <2>2, <2>3, <2>4
<1>6. CASE \E r \in Runner : FallbackGivesUp(r) \/ FallbackReads(r) \/ FallbackCreates(r) \/ FallbackRequeues(r)
  BY <1>6 DEF FallbackGivesUp, Leave, FallbackReads, Goto, FallbackCreates,
     FallbackRequeues
<1>7. CASE \E d \in Direct : Crash(d)
  BY <1>7 DEF Crash
<1>8. CASE UNCHANGED vars
  BY <1>8 DEF vars
<1> QED
  BY <1>1, <1>2, <1>3, <1>4, <1>5, <1>6, <1>7, <1>8 DEF Next, RunStep

(* Whatever crashes, redeliveries, recoveries, failing calls and concurrent *)
(* runs there are, nothing is sent a second time before a fallback is       *)
(* started or an answer of the Graph API is lost.                           *)
THEOREM SentOnce == Spec => NoSecondSend
<1>1. Init => OnceInv
  BY DEF Init, OnceInv, Text
<1>2. Spec => []OnceInv
  BY <1>1, OnceStep, InboundInvariant, PTL DEF Spec
<1>3. ASSUME OnceInv, TypeOK, NEW r \in Runner, pc[r] = "sending", ~ doubt
      PROVE  \A t \in Text : sends[t] = 0
  BY <1>3 DEF OnceInv, TypeOK
<1>4. OnceInv /\ TypeOK /\ [Next]_vars =>
        [\A r \in Runner :
            pc[r] = "sending" /\ pc'[r] = "sent" /\ ~ doubt =>
                \A t \in Text : sends[t] = 0]_vars
  BY <1>3
<1> QED
  BY <1>2, <1>4, InboundTypeCorrect, PTL DEF Spec, NoSecondSend


-----------------------------------------------------------------------------
(* The refinement. What a run does is one step of the outbox, or none: a   *)
(* text is given to a row that had none, a copy is taken, an excuse is     *)
(* found, or the status changes.                                           *)
NoTextYet == reply = "NONE" => content = "none"

LEMMA NoTextYetStep ==
  ASSUME InboundInv, NoTextYet, [Next]_vars
  PROVE  NoTextYet'
<1> USE DEF NoTextYet, rowVars
<1>1. CASE \E r \in Runner : SaveReply(r) \/ FallbackCreates(r)
  BY <1>1 DEF SaveReply, FallbackCreates
<1>2. ASSUME UNCHANGED <<content, reply>> \/ (UNCHANGED content /\ reply' # "NONE")
      PROVE  NoTextYet'
  BY <1>2
<1>3. CASE \E r \in Runner : ClaimReply(r) \/ MarkSent(r) \/ MarkUnsent(r) \/ FallbackRequeues(r)
  BY <1>2, <1>3 DEF ClaimReply, MarkSent, MarkUnsent, FallbackRequeues
<1>4. CASE \E r \in Runner : Ignore(r) \/ Hear(r) \/ AgentAnswers(r)
                             \/ GraphTakes(r) \/ GraphRefuses(r) \/ Complete(r) \/ DbThrows(r)
                             \/ MarkFailed(r) \/ FallbackGivesUp(r) \/ FallbackReads(r)
  BY <1>2, <1>4 DEF Ignore, Hear, AgentAnswers, GraphTakes, GraphRefuses, Complete,
                    DbThrows, MarkFailed, FallbackGivesUp, FallbackReads
<1>5. CASE JobFailed \/ \E d \in Direct : DirectFailed(d) \/ DirectStart(d) \/ Crash(d)
  BY <1>2, <1>5 DEF JobFailed, DirectFailed, DirectStart, Crash
<1>6. CASE Arrive \/ Redeliver \/ Age \/ JobStart \/ ApiRecovers \/ WorkerReads \/ WorkerRecovers
           \/ UNCHANGED vars
  BY <1>2, <1>6 DEF Arrive, Redeliver, Age, JobStart, ApiRecovers, WorkerReads, WorkerRecovers, vars
<1> QED
  BY <1>1, <1>3, <1>4, <1>5, <1>6 DEF Next, RunStep

LEMMA StatusStep ==
  ASSUME InboundInv', UNCHANGED <<content, sends, doubt>>
  PROVE  [Promise!Next]_(Promise!vars)
<1>1. reply' = "SENT" => \E t \in Text : sends'[t] > 0
  BY DEF InboundInv, RowInv, SentWasTaken
<1>2. \A t \in Text : sends[t] \in Nat
  BY DEF InboundInv, TypeOK
<1>3. reply' = "SENT" => sends["answer"] + sends["order"] + sends["fallback"] > 0
  BY <1>1, <1>2 DEF Text
<1>4. CASE (reply' = "SENT") = (reply = "SENT")
  BY <1>4 DEF Promise!vars
<1>5. CASE reply' = "SENT" /\ reply # "SENT"
  BY <1>3, <1>5 DEF Promise!Next, Promise!Show
<1>6. CASE reply' # "SENT" /\ reply = "SENT"
  BY <1>6 DEF Promise!Next, Promise!Hide
<1> QED
  BY <1>4, <1>5, <1>6

LEMMA DoubtStep ==
  ASSUME InboundInv, UNCHANGED <<content, sends, reply>>, doubt' \in {doubt, TRUE}
  PROVE  [Promise!Next]_(Promise!vars)
<1>1. MaxSends \in Nat \ {0} /\ doubt \in BOOLEAN
  BY InboundAssumption DEF InboundInv, TypeOK
<1>2. CASE doubt' = doubt
  BY <1>2 DEF Promise!vars
<1>3. CASE doubt' = TRUE /\ doubt = FALSE
  BY <1>1, <1>3 DEF Promise!Next, Promise!Excuse
<1> QED
  BY <1>1, <1>2, <1>3

(* A run about to send has a row with a text; nothing was taken before it, *)
(* or there is an excuse for whatever was.                                 *)
LEMMA TakeStep ==
  ASSUME InboundInv, OnceInv, NEW r \in Runner, GraphTakes(r)
  PROVE  [Promise!Next]_(Promise!vars)
<1>1. MaxSends \in Nat \ {0} /\ doubt \in BOOLEAN /\ sends \in [Text -> 0..MaxSends]
  BY InboundAssumption DEF InboundInv, TypeOK
<1>2. text[r] \in Text /\ content \in Text
  BY DEF InboundInv, TypeOK, RunInv, RowInv, GraphTakes, Delivering, Text
<1>3. UNCHANGED <<content, reply>> /\ doubt' \in {doubt, TRUE}
  BY DEF GraphTakes, rowVars
<1>4. CASE sends[text[r]] = MaxSends
  <2>1. sends' = sends
    BY <1>1, <1>2, <1>4 DEF GraphTakes, CountUp
  <2> QED
    BY <1>3, <2>1, DoubtStep
<1>5. CASE sends[text[r]] # MaxSends
  <2>0. sends[text[r]] \in 0..MaxSends /\ sends[text[r]] < MaxSends
    BY <1>1, <1>2, <1>5
  <2>1. sends' = [sends EXCEPT ![text[r]] = sends[text[r]] + 1]
    BY <2>0 DEF GraphTakes, CountUp
  <2>2. /\ sends["answer"] \in 0..MaxSends /\ sends["order"] \in 0..MaxSends
        /\ sends["fallback"] \in 0..MaxSends
    BY <1>1 DEF Text
  <2>3. sends'["answer"] + sends'["order"] + sends'["fallback"]
          = sends["answer"] + sends["order"] + sends["fallback"] + 1
    BY <1>1, <1>2, <2>1, <2>2 DEF Text
  <2>4. CASE doubt
    <3>1. sends["answer"] + sends["order"] + sends["fallback"] <= 3 * MaxSends
      BY <1>1, <2>2
    <3>2. content # "none" /\ doubt'
      BY <1>2, <1>3, <2>4 DEF Text
    <3> QED
      BY <1>1, <1>3, <2>3, <2>4, <3>1, <3>2 DEF Promise!Next, Promise!Take
  <2>5. CASE ~ doubt
    <3>1. \A t \in Text : sends[t] = 0
      BY <1>1, <2>5 DEF OnceInv, GraphTakes
    <3>2. sends["answer"] + sends["order"] + sends["fallback"] <= 0
      BY <3>1 DEF Text
    <3>3. (IF doubt' THEN 3 * MaxSends ELSE 0) >= 0
      BY <1>1
    <3>4. content # "none"
      BY <1>2 DEF Text
    <3> QED
      BY <1>3, <2>3, <2>5, <3>2, <3>3, <3>4 DEF Promise!Next, Promise!Take
  <2> QED
    BY <2>4, <2>5
<1> QED
  BY <1>4, <1>5

LEMMA WordStep ==
  ASSUME InboundInv, NoTextYet, NEW r \in Runner, SaveReply(r) \/ FallbackCreates(r)
  PROVE  [Promise!Next]_(Promise!vars)
<1>1. UNCHANGED <<sends, doubt>>
  BY DEF SaveReply, FallbackCreates, historyVars
<1>2. CASE reply = "NONE"
  <2>1. content = "none" /\ content' \in Text /\ reply' = "QUEUED"
    BY <1>2 DEF NoTextYet, SaveReply, FallbackCreates, InboundInv, RunInv, Text
  <2> QED
    BY <1>1, <1>2, <2>1 DEF Promise!Next, Promise!Word
<1>3. CASE reply # "NONE"
  <2>1. UNCHANGED <<content, reply>>
    BY <1>3 DEF SaveReply, FallbackCreates
  <2> QED
    BY <1>1, <2>1 DEF Promise!vars
<1> QED
  BY <1>2, <1>3

LEMMA PromiseStep ==
  ASSUME InboundInv, InboundInv', OnceInv, NoTextYet, [Next]_vars
  PROVE  [Promise!Next]_(Promise!vars)
<1> USE DEF rowVars, historyVars
<1>1. CASE \E r \in Runner : ClaimReply(r) \/ MarkSent(r) \/ MarkUnsent(r) \/ FallbackRequeues(r)
  BY <1>1, StatusStep DEF ClaimReply, MarkSent, MarkUnsent, FallbackRequeues
<1>2. CASE \E r \in Runner : Ignore(r) \/ Hear(r) \/ AgentAnswers(r)
                             \/ GraphRefuses(r) \/ Complete(r)
                             \/ MarkFailed(r) \/ FallbackGivesUp(r) \/ FallbackReads(r)
  BY <1>2, StatusStep DEF Ignore, Hear, AgentAnswers, GraphRefuses, Complete,
                          MarkFailed, FallbackGivesUp, FallbackReads
<1>3. CASE JobFailed \/ (\E d \in Direct : DirectFailed(d)) \/ \E r \in Runner : DbThrows(r)
  <2>1. UNCHANGED <<content, sends, reply>>
    BY <1>3 DEF JobFailed, DirectFailed, DbThrows
  <2>2. doubt' \in {doubt, TRUE}
    BY <1>3 DEF JobFailed, DirectFailed, DbThrows, StartFallback, InboundInv, TypeOK
  <2> QED
    BY <2>1, <2>2, DoubtStep
<1>4. CASE \E d \in Direct : DirectStart(d) \/ Crash(d)
  BY <1>4, StatusStep DEF DirectStart, Crash
<1>5. CASE Arrive \/ Redeliver \/ Age \/ JobStart \/ ApiRecovers \/ WorkerReads \/ WorkerRecovers
           \/ UNCHANGED vars
  BY <1>5, StatusStep
  DEF Arrive, Redeliver, Age, JobStart, ApiRecovers, WorkerReads, WorkerRecovers, vars
<1> QED
  BY <1>1, <1>2, <1>3, <1>4, <1>5, WordStep, TakeStep DEF Next, RunStep

(* The pipeline implements the outbox: with any number of runs, fallbacks, *)
(* crashes and retries the text of a reply is fixed, SENT is true, and a   *)
(* second copy has an excuse.                                              *)
THEOREM PipelineKeepsPromise == Spec => KeepsPromise
<1>1. Init => OnceInv /\ NoTextYet /\ Promise!Init
  BY DEF Init, OnceInv, NoTextYet, Text, Promise!Init
<1>2. InboundInv /\ OnceInv /\ NoTextYet /\ [Next]_vars => OnceInv' /\ NoTextYet'
  BY OnceStep, NoTextYetStep
<1>3. Spec => [](OnceInv /\ NoTextYet)
  BY <1>1, <1>2, InboundInvariant, PTL DEF Spec
<1> QED
  BY <1>1, <1>3, PromiseStep, InboundInvariant, PTL DEF Spec, KeepsPromise, Promise!Spec

====
