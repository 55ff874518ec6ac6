---- MODULE Reply_proofs ----
(***************************************************************************)
(* Proofs about Reply. The type invariant comes first. TruthfulReply needs  *)
(* what a run knows of the order at each of its stages (WordInv);           *)
(* CopiesAccounted needs that a row being sent is PROCESSING and has no     *)
(* copy that is unaccounted for (CopyInv); FailsForCause needs the shape    *)
(* the three writers give a row, for which the list of candidates has one   *)
(* for each token of it (ShapeInv), and what is known of the candidates     *)
(* that were tried (TriedInv). RunProgresses needs types only, and its      *)
(* order is shown well-founded; KeepsPromise, the refinement of Outbox,     *)
(* adds to CopyInv that a row has its text as long as it exists and that    *)
(* what is reported was taken (PromiseInv).                                 *)
(***************************************************************************)
EXTENDS Reply, FiniteSetTheorems, WellFoundedInduction, TLAPS

Candidate == {"instagram", "facebook"} \X Token \X {"account", "page", "me", "phone"}

(* Each writer leaves a well-formed row. *)
LEMMA RowShapes ==
    ASSUME NEW c \in Row, NEW t \in Token
    PROVE  /\ NoCred \in Row
           /\ LoggedIn(c, t) \in Row
           /\ Linked(t) \in Row
           /\ Plain(t) \in Row
           /\ Discovered(c, t) \in Row
BY DEF Row, NoCred, LoggedIn, Linked, Plain, Discovered, Or, When

(* The sender tries tokens of the row only, at the two hosts. *)
LEMMA CandidatesTyped ==
    ASSUME NEW c \in Row, type \in Types PROVE Candidates(c) \subseteq Candidate
<1>1. Connections(c) \subseteq {"instagram", "facebook"} \X Token
  BY DEF Connections, Row, Or, When
<1>2. \A h : Senders(c, h) \subseteq {"account", "page", "me"}
  BY DEF Senders, Row
<1>3. c.token \subseteq Token
  BY DEF Row
<1>4. CASE type = "INSTAGRAM"
  <2> SUFFICES ASSUME NEW k \in Connections(c), NEW x \in {k[1]} \X {k[2]} \X Senders(c, k[1])
               PROVE  x \in Candidate
    BY <1>4 DEF Candidates
  <2> QED BY <1>1, <1>2 DEF Candidate
<1>5. CASE type = "FACEBOOK"
  BY <1>3, <1>5 DEF Candidates, Candidate
<1>6. CASE type = "WHATSAPP_CLOUD"
  BY <1>3, <1>6 DEF Candidates, Candidate
<1> QED BY <1>4, <1>5, <1>6, DeliveryAssumption

-----------------------------------------------------------------------------
(* Type correctness *)

LEMMA InitTyped == Init => TypeOK
<1> SUFFICES ASSUME Init PROVE TypeOK
  OBVIOUS
<1>a. AgentInit /\ DeliveryInit /\ event = "RECEIVED" /\ reply = "NONE" /\ content = "none" /\ wordRun = 0
  BY DEF Init
<1> USE DeliveryAssumption DEF DeliveryInit
<1>1. \A w \in Way : <<w, 1>> \in Token
  BY DEF Token
<1>2. NoCred \in Row
  BY DEF NoCred, Row
<1>3. cred \in Row
  <2>1. ASSUME NEW w \in Way
        PROVE LoggedIn(NoCred, <<w, 1>>) \in Row /\ Linked(<<w, 1>>) \in Row /\ Plain(<<w, 1>>) \in Row
    BY <1>1, <1>2, RowShapes
  <2>2. "login" \in Way /\ "page" \in Way /\ "cloud" \in Way
    BY DEF Way
  <2>3. type \in {"FACEBOOK", "INSTAGRAM", "WHATSAPP_CLOUD"}
    BY <1>a
  <2> QED BY <1>a, <2>1, <2>2, <2>3
<1>4. AgentTypeOK /\ run = 0
  <2> HIDE DEF DeliveryInit
  <2>1. unheard \in BOOLEAN
    BY <1>a, Zenon DEF AgentInit
  <2> QED BY <1>a, <2>1 DEF AgentInit, AgentTypeOK, Stage, Found
<1>5. issued \in [Way -> 0..MaxTokens]
  BY <1>a
<1>6. DeliveryTypeOK
  <2>1. glitch \in BOOLEAN /\ dead = {} /\ todo = {} /\ copies = 0 /\ lost = 0 /\ changes = 0
    BY <1>a, Zenon
  <2>2. type \in Types /\ seen = NoCred /\ looked = NoCred /\ held = NoCred
    BY <1>a
  <2> HIDE DEF DeliveryInit
  <2> QED BY <1>2, <1>3, <1>5, <2>1, <2>2 DEF DeliveryTypeOK
<1> QED
  <2> HIDE DEF DeliveryInit
  <2> QED BY <1>a, <1>4, <1>6 DEF TypeOK

LEMMA AgentTyped == TypeOK /\ AgentStep => AgentTypeOK'
<1> SUFFICES ASSUME TypeOK, AgentStep PROVE AgentTypeOK'
  OBVIOUS
<1> USE DEF TypeOK, AgentTypeOK, Stage, Chat, Found, Text, Question, Answered
<1>1. CASE QuickReply
  BY <1>1 DEF QuickReply
<1>2. CASE AskFirst
  BY <1>2 DEF AskFirst
<1>3. CASE ChatRetries
  BY <1>3 DEF ChatRetries
<1>4. CASE ChatThrows
  BY <1>4 DEF ChatThrows, Deterministic
<1>5. CASE CreatesOrder
  BY <1>5 DEF CreatesOrder
<1>6. CASE RefusesOrder
  <2>1. stage' = "final" /\ found' = "error" /\ text' = text /\ run' = run /\ attempt' = attempt
    BY <1>6 DEF RefusesOrder
  <2>2. orderRun' \in 0..run
    BY <1>6 DEF RefusesOrder
  <2>3. unheard' \in BOOLEAN
    BY <1>6, Zenon DEF RefusesOrder
  <2> QED BY <2>1, <2>2, <2>3
<1>7. ASSUME NEW words \in Words, Unaided(words) PROVE AgentTypeOK'
  BY <1>7 DEF Unaided, UnaidedText, Deterministic
<1>8. ASSUME NEW words \in Words, Final(words) PROVE AgentTypeOK'
  <2>1. FinalText(words) \in Text
    BY DEF FinalText, Deterministic, Words
  <2> QED BY <1>8, <2>1 DEF Final
<1>9. ASSUME NEW call \in Call \ {"none"}, Calls(call) PROVE AgentTypeOK'
  <2>1. call \in Question \cup {"create", "details", "unknown"}
    BY DEF Call
  <2>2. UNCHANGED <<run, orderRun, unheard>> /\ attempt' = 1
    BY <1>9 DEF Calls
  <2>3. stage' \in Stage /\ found' \in Found /\ text' \in Text \cup {"none"}
    BY <1>9, <2>1 DEF Calls
  <2> QED BY <2>2, <2>3
<1> QED BY <1>1, <1>2, <1>3, <1>4, <1>5, <1>6, <1>7, <1>8, <1>9 DEF AgentStep

LEMMA RowTyped == TypeOK /\ RowStep => DeliveryTypeOK'
<1> SUFFICES ASSUME TypeOK, RowStep PROVE DeliveryTypeOK'
  OBVIOUS
<1> USE DeliveryAssumption DEF TypeOK, DeliveryTypeOK, Change, sendVars
<1>1. ASSUME NEW w \in Way, Connects(w) PROVE DeliveryTypeOK'
  <2>1. issued' \in [Way -> 0..MaxTokens] /\ <<w, issued'[w]>> \in Token
    BY <1>1 DEF Connects, Token
  <2>2. cred' \in Row
    BY <1>1, <2>1, RowShapes DEF Connects
  <2> QED BY <1>1, <2>1, <2>2 DEF Connects
<1>2. CASE RepairReads
  BY <1>2 DEF RepairReads
<1>3. ASSUME NEW t \in Token, RepairWrites(t) PROVE DeliveryTypeOK'
  <2>1. issued' \in [Way -> 0..MaxTokens]
    BY <1>3 DEF RepairWrites, Token, Way
  <2>2. cred' \in Row /\ seen' \in Row
    BY <1>3, RowShapes DEF RepairWrites
  <2> QED BY <1>3, <2>1, <2>2 DEF RepairWrites
<1>4. ASSUME NEW t \in Token, Dies(t) PROVE DeliveryTypeOK'
  BY <1>4 DEF Dies
<1>5. CASE LoginReads
  BY <1>5 DEF LoginReads
<1>6. CASE LoginWrites
  <2>1. issued' \in [Way -> 0..MaxTokens] /\ <<"login", issued'["login"]>> \in Token
    BY <1>6 DEF LoginWrites, Token, Way
  <2>2. cred' \in Row /\ looked' \in Row
    BY <1>6, <2>1, RowShapes DEF LoginWrites
  <2> QED BY <1>6, <2>1, <2>2 DEF LoginWrites
<1> QED BY <1>1, <1>2, <1>3, <1>4, <1>5, <1>6 DEF RowStep

LEMMA NextTyped == TypeOK /\ [Next]_vars => TypeOK'
<1> SUFFICES ASSUME TypeOK, [Next]_vars PROVE TypeOK'
  OBVIOUS
<1> USE DEF TypeOK, DeliveryTypeOK, rowVars, sendVars, deliveryVars, replyVars, agentRest
<1> USE DEF AgentTypeOK, Stage, Chat
<1>1. CASE Begin
  <2>1. AgentTypeOK'
    BY <1>1 DEF Begin, Found, Text
  <2>2. glitch' \in BOOLEAN
    BY <1>1, Zenon DEF Begin
  <2>3. run' = run + 1 /\ UNCHANGED <<rowVars, todo, copies, lost, reply, content, wordRun>>
        /\ event' = "PROCESSING" /\ held' = cred
    BY <1>1 DEF Begin
  <2> QED BY <2>1, <2>2, <2>3
<1>2. CASE Thinks
  <2>1. AgentTypeOK'
    BY <1>2, AgentTyped DEF Thinks
  <2>2. run' = run
    BY <1>2 DEF Thinks, AgentStep, QuickReply, AskFirst, ChatRetries, ChatThrows,
       CreatesOrder, RefusesOrder, Unaided, Final, Calls
  <2> QED BY <1>2, <2>1, <2>2 DEF Thinks
<1>3. CASE SaveReply
  BY <1>3 DEF SaveReply
<1>4. CASE ClaimReply
  BY <1>4, CandidatesTyped DEF ClaimReply, Candidate
<1>5. ASSUME NEW k \in todo, Accepted(k) PROVE TypeOK'
  BY <1>5 DEF Accepted
<1>6. ASSUME NEW k \in todo, AnswerLost(k) PROVE TypeOK'
  BY <1>6 DEF AnswerLost, agentVars
<1>7. ASSUME NEW k \in todo, TryFails(k) PROVE TypeOK'
  <2>1. Accepts(k) \in BOOLEAN
    BY DEF Accepts
  <2> QED BY <1>7, <2>1 DEF TryFails, agentVars
<1>8. CASE SendThrows
  BY <1>8 DEF SendThrows
<1>9. CASE MarkSent
  BY <1>9 DEF MarkSent
<1>10. CASE MarkFails
  BY <1>10 DEF MarkFails
<1>11. CASE MarkUnsent
  BY <1>11 DEF MarkUnsent
<1>12. CASE Complete
  BY <1>12 DEF Complete
<1>13. CASE DbThrows
  BY <1>13 DEF DbThrows
<1>14. CASE MarkFailed
  BY <1>14 DEF MarkFailed
<1>15. CASE Crash
  BY <1>15 DEF Crash
<1>16. CASE RowStep /\ UNCHANGED <<agentVars, replyVars>>
  <2>1. DeliveryTypeOK'
    BY <1>16, RowTyped
  <2> QED BY <1>16, <2>1 DEF agentVars
<1>17. CASE UNCHANGED vars
  BY <1>17 DEF vars, agentVars
<1> QED
  BY <1>1, <1>2, <1>3, <1>4, <1>5, <1>6, <1>7, <1>8, <1>9, <1>10, <1>11, <1>12, <1>13, <1>14,
     <1>15, <1>16, <1>17 DEF Next, RunStep

(* The variables of Reply keep their types, for any number of tokens, runs, *)
(* lost answers and changes of the row.                                     *)
THEOREM TypeCorrect == Spec => []TypeOK
<1> QED BY InitTyped, NextTyped, PTL DEF Spec

-----------------------------------------------------------------------------
(* What a run knows of the order *)

Thinking == Chat \cup {"start", "tool", "answered"}

WordInv ==
    /\ stage # "idle" => run > 0
    /\ stage \in Thinking => wordRun < run
    /\ stage \in Thinking \ {"final", "answered"} => found = "nothing"
    /\ stage \in Thinking /\ orderRun = run /\ ~ unheard => found = "order"
    /\ found = "order" => orderRun \in 1..run
    /\ stage = "answered" =>
         /\ text # "claim"
         /\ text \in {"told", "confirmed"} => found = "order"
         /\ found = "order" => text \in {"told", "confirmed"}

(* What every step of the agent keeps. *)
Kept ==
    /\ stage \in Thinking /\ stage' \in Thinking /\ run' = run
    /\ orderRun # 0 => orderRun' = orderRun
    /\ orderRun' \in {orderRun, run}
    /\ stage # "tool" => orderRun' = orderRun
    /\ unheard => unheard'

(* A step of the agent stays in the agent, and only the tool makes an order. *)
LEMMA AgentThinks == TypeOK /\ AgentStep => Kept
<1> SUFFICES ASSUME TypeOK, AgentStep PROVE Kept
  OBVIOUS
<1> USE DEF Thinking, Chat, Answered, Kept
<1>1. ASSUME NEW call \in Call \ {"none"}, Calls(call) PROVE Kept
  <2>1. call \in Question \cup {"create", "details", "unknown"}
    BY DEF Call
  <2>2. stage' \in {"answered", "tool", "final"}
    BY <1>1, <2>1 DEF Calls
  <2>3. UNCHANGED <<run, orderRun, unheard>> /\ stage \in Chat
    BY <1>1 DEF Calls
  <2> QED BY <2>2, <2>3
<1>2. CASE RefusesOrder
  <2>1. stage = "tool" /\ stage' = "final" /\ run' = run
    BY <1>2 DEF RefusesOrder
  <2>2. unheard => unheard'
    BY <1>2 DEF RefusesOrder
  <2>3. orderRun' \in {orderRun, run} /\ (orderRun # 0 => orderRun' = orderRun)
    BY <1>2 DEF RefusesOrder
  <2> QED BY <2>1, <2>2, <2>3
<1>3. CASE QuickReply \/ AskFirst
  BY <1>3 DEF QuickReply, AskFirst
<1>4. CASE ChatRetries \/ ChatThrows
  BY <1>4 DEF ChatRetries, ChatThrows
<1>5. CASE CreatesOrder
  BY <1>5 DEF CreatesOrder
<1>6. ASSUME NEW words \in Words, Unaided(words) \/ Final(words) PROVE Kept
  BY <1>6 DEF Unaided, Final
<1> QED BY <1>1, <1>2, <1>3, <1>4, <1>5, <1>6 DEF AgentStep

(* Every other step leaves the agent's knowledge and the reply alone.       *)
LEMMA OtherSteps ==
    [Next]_vars =>
        \/ Begin \/ Thinks \/ SaveReply
        \/ /\ UNCHANGED <<found, text, run, orderRun, unheard, content, wordRun>>
           /\ \/ stage' = stage
              \/ stage' \notin Thinking /\ (stage' # "idle" => stage # "idle")
<1> USE DEF Thinking, Chat, agentRest, agentVars, replyVars
<1> QED
  BY DEF Next, RunStep, ClaimReply, Accepted, AnswerLost, TryFails, SendThrows, MarkSent, MarkFails,
     MarkUnsent, Complete, DbThrows, MarkFailed, Crash, vars

LEMMA AgentKnows == TypeOK /\ WordInv /\ Thinks => WordInv'
<1> SUFFICES ASSUME TypeOK, WordInv, Thinks PROVE WordInv'
  OBVIOUS
<1> USE DEF Thinking, Chat, Answered, WordInv
<1>1. run > 0 /\ wordRun < run /\ stage \in Thinking /\ stage' \in Thinking /\ run' = run
      /\ wordRun' = wordRun /\ run \in Nat /\ orderRun \in 0..run
  BY AgentThinks DEF Thinks, Kept, TypeOK, AgentTypeOK, replyVars
<1>2. CASE QuickReply
  BY <1>1, <1>2 DEF QuickReply
<1>3. CASE AskFirst
  BY <1>1, <1>3 DEF AskFirst
<1>4. CASE ChatRetries
  BY <1>1, <1>4 DEF ChatRetries
<1>5. CASE ChatThrows
  BY <1>1, <1>5 DEF ChatThrows, Deterministic
<1>6. CASE CreatesOrder
  BY <1>1, <1>6 DEF CreatesOrder
<1>7. CASE RefusesOrder
  BY <1>1, <1>7 DEF RefusesOrder
<1>8. ASSUME NEW words \in Words, Unaided(words) PROVE WordInv'
  BY <1>1, <1>8 DEF Unaided, UnaidedText, Deterministic
<1>9. ASSUME NEW words \in Words, Final(words) PROVE WordInv'
  <2>1. /\ FinalText(words) # "claim"
        /\ FinalText(words) \in {"told", "confirmed"} => found = "order"
        /\ found = "order" => FinalText(words) \in {"told", "confirmed"}
    BY DEF FinalText, Deterministic, Words
  <2> QED BY <1>1, <1>9, <2>1 DEF Final
<1>10. ASSUME NEW call \in Call \ {"none"}, Calls(call) PROVE WordInv'
  <2>1. call \in Question \cup {"create", "details", "unknown"}
    BY DEF Call
  <2>2. UNCHANGED <<run, orderRun, unheard>> /\ found = "nothing" /\ stage \in {"first", "decision"}
    BY <1>10 DEF Calls
  <2>3. \/ stage' = "answered" /\ text' \in Question /\ found' = "nothing"
        \/ stage' = "tool" /\ found' = "nothing"
        \/ stage' = "final" /\ found' \in {"nothing", "error"}
    BY <1>10, <2>1, <2>2 DEF Calls, Question
  <2> QED BY <1>1, <2>2, <2>3 DEF Question
<1> QED
  BY <1>2, <1>3, <1>4, <1>5, <1>6, <1>7, <1>8, <1>9, <1>10 DEF Thinks, AgentStep

LEMMA NextKnows == TypeOK /\ WordInv /\ [Next]_vars => WordInv'
<1> SUFFICES ASSUME TypeOK, WordInv, [Next]_vars PROVE WordInv'
  OBVIOUS
<1> USE DEF TypeOK, AgentTypeOK, WordInv, Thinking, Chat
<1>1. CASE Begin
  BY <1>1 DEF Begin
<1>2. CASE Thinks
  BY <1>2, AgentKnows
<1>3. CASE SaveReply
  BY <1>3 DEF SaveReply, agentRest
<1>4. CASE /\ UNCHANGED <<found, text, run, orderRun, unheard, content, wordRun>>
           /\ \/ stage' = stage
              \/ stage' \notin Thinking /\ (stage' # "idle" => stage # "idle")
  BY <1>4
<1> QED BY <1>1, <1>2, <1>3, <1>4, OtherSteps

LEMMA NextTruthful ==
    TypeOK /\ WordInv /\ TruthfulReply /\ [Next]_vars => TruthfulReply'
<1> SUFFICES ASSUME TypeOK, WordInv, TruthfulReply, [Next]_vars PROVE TruthfulReply'
  OBVIOUS
<1> USE DEF TypeOK, AgentTypeOK, TruthfulReply
<1>1. CASE Begin
  BY <1>1 DEF Begin
<1>2. CASE Thinks
  <2>1. UNCHANGED <<content, wordRun>>
    BY <1>2 DEF Thinks, replyVars
  <2>2. wordRun < run
    BY <1>2, AgentThinks DEF Thinks, Kept, WordInv
  <2> QED BY <1>2, <2>1, <2>2, AgentThinks DEF Thinks, Kept
<1>3. CASE SaveReply
  <2>1. CASE reply # "NONE"
    BY <1>3, <2>1 DEF SaveReply, agentRest
  <2>2. CASE reply = "NONE"
    <3>1. content' = text /\ wordRun' = run /\ stage = "answered" /\ UNCHANGED <<orderRun, unheard>>
      BY <1>3, <2>2 DEF SaveReply, agentRest
    <3>2. /\ text # "claim"
          /\ text \in {"told", "confirmed"} => orderRun \in 1..run
          /\ orderRun = run /\ ~ unheard => text \in {"told", "confirmed"}
      BY <3>1 DEF WordInv, Thinking
    <3> QED BY <3>1, <3>2
  <2> QED BY <2>1, <2>2
<1>4. CASE UNCHANGED <<orderRun, unheard, content, wordRun>>
  BY <1>4
<1> QED BY <1>1, <1>2, <1>3, <1>4, OtherSteps

(* For any number of runs and faults, and any answers of the provider: what *)
(* is sent as a claim the filter knows, as the server's confirmation or as  *)
(* a wording of the tool's order is backed by an order that existed then,   *)
(* and the run that made the order tells of it. Of the text of a            *)
(* request_order_details call, which no filter sees, nothing is said.       *)
THEOREM RepliesAreTruthful == Spec => []TruthfulReply
<1>1. Init => WordInv /\ TruthfulReply
  BY DEF Init, AgentInit, WordInv, TruthfulReply, Thinking, Chat
<1> QED BY <1>1, NextKnows, NextTruthful, TypeCorrect, PTL DEF Spec

-----------------------------------------------------------------------------
(* Copies *)

CopyInv ==
    /\ CopiesAccounted
    /\ reply \in {"NONE", "QUEUED"} \/ stage \in {"sending", "unsent"} => copies <= lost
    /\ stage \in {"sending", "sent", "unsent"} => reply = "PROCESSING"

LEMMA NextCounts == TypeOK /\ CopyInv /\ [Next]_vars => CopyInv'
<1> SUFFICES ASSUME TypeOK, CopyInv, [Next]_vars PROVE CopyInv'
  OBVIOUS
<1> USE DEF TypeOK, DeliveryTypeOK, CopyInv, CopiesAccounted, sendVars, deliveryVars, replyVars
<1>1. CASE Begin
  BY <1>1 DEF Begin
<1>2. CASE Thinks
  BY <1>2, AgentThinks DEF Thinks, Kept, Thinking, Chat
<1>3. CASE SaveReply
  BY <1>3 DEF SaveReply
<1>4. CASE ClaimReply
  BY <1>4 DEF ClaimReply
<1>5. ASSUME NEW k \in todo, Accepted(k) PROVE CopyInv'
  BY <1>5 DEF Accepted
<1>6. ASSUME NEW k \in todo, AnswerLost(k) PROVE CopyInv'
  BY <1>6 DEF AnswerLost, agentVars
<1>7. ASSUME NEW k \in todo, TryFails(k) PROVE CopyInv'
  BY <1>7 DEF TryFails, agentVars
<1>8. CASE SendThrows
  BY <1>8 DEF SendThrows
<1>9. CASE MarkSent
  BY <1>9 DEF MarkSent
<1>10. CASE MarkFails
  BY <1>10 DEF MarkFails
<1>11. CASE MarkUnsent
  BY <1>11 DEF MarkUnsent
<1>12. CASE Complete \/ DbThrows \/ MarkFailed \/ Crash
  BY <1>12 DEF Complete, DbThrows, MarkFailed, Crash
<1>13. CASE RowStep /\ UNCHANGED <<agentVars, replyVars>>
  BY <1>13 DEF RowStep, Connects, LoginReads, LoginWrites, RepairReads, RepairWrites, Dies, agentVars
<1>14. CASE UNCHANGED vars
  BY <1>14 DEF vars, agentVars
<1> QED
  BY <1>1, <1>2, <1>3, <1>4, <1>5, <1>6, <1>7, <1>8, <1>9, <1>10, <1>11, <1>12, <1>13, <1>14
  DEF Next, RunStep

(* For any number of runs, candidates and lost answers: at most one copy    *)
(* more than the answers that were lost.                                    *)
THEOREM CopiesAreAccounted == Spec => []CopiesAccounted
<1>1. Init => CopyInv
  BY DEF Init, AgentInit, DeliveryInit, CopyInv, CopiesAccounted
<1>2. CopyInv => CopiesAccounted
  BY DEF CopyInv
<1> QED BY <1>1, <1>2, NextCounts, TypeCorrect, PTL DEF Spec

-----------------------------------------------------------------------------
(* Why a send fails *)

Of(way) == {t \in Token : t[1] = way}

(* The shape in which the writers leave a row. *)
Shaped(c) ==
    /\ type = "INSTAGRAM" =>
         /\ c.login \subseteq Of("login") /\ c.page \subseteq Of("page")
         /\ c.page # {} => c.pageId = {"page"}
         /\ c.host # {"facebook"} => c.token \subseteq Of("login")
         /\ c.host # {} => c.token # {}
    /\ type = "FACEBOOK" => c.token \subseteq Of("page")
    /\ type = "WHATSAPP_CLOUD" => c.token \subseteq Of("cloud")

ShapeInv ==
    /\ Shaped(cred) /\ Shaped(seen) /\ Shaped(looked) /\ Shaped(held)
    /\ type # "INSTAGRAM" => seen = NoCred /\ looked = NoCred

LEMMA EmptyShaped == Shaped(NoCred)
BY DEF Shaped, NoCred

LEMMA WritersShape ==
    ASSUME NEW c \in Row, Shaped(c), type = "INSTAGRAM"
    PROVE  /\ \A t \in Of("login") : Shaped(LoggedIn(c, t))
           /\ \A t \in Of("page") : Shaped(Linked(t))
           /\ \A t \in Of("page") : Shaped(Discovered(c, t))
<1>1. ASSUME NEW t \in Of("login") PROVE Shaped(LoggedIn(c, t))
  BY DEF Shaped, LoggedIn, Row
<1>2. ASSUME NEW t \in Of("page") PROVE Shaped(Linked(t))
  BY DEF Shaped, Linked
<1>3. ASSUME NEW t \in Of("page") PROVE Shaped(Discovered(c, t))
  <2> DEFINE d == Discovered(c, t)
  <2>1. /\ d.token = Or(c.token, {t}) /\ d.page = {t} /\ d.pageId = {"page"}
        /\ d.login = Or(c.login, When(c.host # {"facebook"}, c.token))
        /\ d.host = Or(c.host, {"facebook"})
    BY DEF Discovered
  <2>2. d.login \subseteq Of("login")
    BY <2>1 DEF Shaped, Or, When
  <2>3. d.host # {"facebook"} => d.token \subseteq Of("login")
    BY <2>1 DEF Shaped, Or
  <2>4. d.token # {}
    BY <2>1 DEF Or
  <2>5. Shaped(d)
    <3> HIDE DEF d
    <3> QED BY <2>1, <2>2, <2>3, <2>4 DEF Shaped
  <2> QED BY <2>5
<1> QED BY <1>1, <1>2, <1>3

(* A shaped row that holds a living token has a candidate that is accepted. *)
LEMMA UsableReached ==
    ASSUME NEW c \in Row, Shaped(c), type \in Types, Usable(c)
    PROVE  \E k \in Candidates(c) : Accepts(k)
<1>1. CASE type = "INSTAGRAM"
  <2>1. PICK t \in (c.login \cup c.page) \ dead : TRUE
    BY <1>1 DEF Usable
  <2>2. CASE t \in c.login
    <3>1. <<"instagram", t>> \in Connections(c)
      BY <2>2 DEF Connections, Or
    <3>2. <<"instagram", t, "account">> \in Candidates(c)
      <4>1. "account" \in Senders(c, "instagram")
        BY DEF Senders
      <4>2. <<"instagram", t, "account">> \in {<<"instagram", t>>[1]} \X {<<"instagram", t>>[2]}
                                                \X Senders(c, <<"instagram", t>>[1])
        BY <4>1
      <4> QED BY <1>1, <3>1, <4>2 DEF Candidates
    <3>3. Accepts(<<"instagram", t, "account">>)
      BY <1>1, <2>1, <2>2 DEF Accepts, Shaped, Of
    <3> QED BY <3>2, <3>3
  <2>3. CASE t \in c.page
    <3>1. <<"facebook", t>> \in Connections(c)
      BY <2>3 DEF Connections, Or
    <3>2. <<"facebook", t, "page">> \in Candidates(c)
      <4>1. "page" \in Senders(c, "facebook")
        BY <1>1, <2>3 DEF Senders, Shaped
      <4>2. <<"facebook", t, "page">> \in {<<"facebook", t>>[1]} \X {<<"facebook", t>>[2]}
                                            \X Senders(c, <<"facebook", t>>[1])
        BY <4>1
      <4> QED BY <1>1, <3>1, <4>2 DEF Candidates
    <3>3. Accepts(<<"facebook", t, "page">>)
      BY <1>1, <2>1, <2>3 DEF Accepts, Shaped, Of
    <3> QED BY <3>2, <3>3
  <2> QED BY <2>1, <2>2, <2>3
<1>2. CASE type = "FACEBOOK"
  <2>1. PICK t \in c.token \ dead : TRUE
    BY <1>2 DEF Usable
  <2>2. <<"facebook", t, "page">> \in Candidates(c)
    BY <1>2, <2>1 DEF Candidates
  <2>3. Accepts(<<"facebook", t, "page">>)
    BY <1>2, <2>1 DEF Accepts, Shaped, Of
  <2> QED BY <2>2, <2>3
<1>3. CASE type = "WHATSAPP_CLOUD"
  <2>1. PICK t \in c.token \ dead : TRUE
    BY <1>3 DEF Usable
  <2>2. <<"facebook", t, "phone">> \in Candidates(c)
    BY <1>3, <2>1 DEF Candidates
  <2>3. Accepts(<<"facebook", t, "phone">>)
    BY <1>3, <2>1 DEF Accepts, Shaped, Of
  <2> QED BY <2>2, <2>3
<1> QED BY <1>1, <1>2, <1>3, DeliveryAssumption

LEMMA InitShaped == Init => ShapeInv
<1> SUFFICES ASSUME Init PROVE ShapeInv
  OBVIOUS
<1>1. type \in {"FACEBOOK", "INSTAGRAM", "WHATSAPP_CLOUD"}
      /\ seen = NoCred /\ looked = NoCred /\ held = NoCred
  BY DeliveryAssumption DEF Init, DeliveryInit
<1>2. \A w \in Way : <<w, 1>> \in Of(w)
  BY DeliveryAssumption DEF Of, Token
<1>3. "login" \in Way /\ "page" \in Way /\ "cloud" \in Way /\ NoCred \in Row
  BY DEF Way, NoCred, Row
<1>4. CASE type = "INSTAGRAM"
  <2>1. cred \in {LoggedIn(NoCred, <<"login", 1>>), Linked(<<"page", 1>>)}
    BY <1>4 DEF Init, DeliveryInit
  <2> QED BY <1>1, <1>2, <1>3, <1>4, <2>1, EmptyShaped, WritersShape DEF ShapeInv
<1>5. CASE type = "FACEBOOK"
  <2>1. cred = Plain(<<"page", 1>>)
    BY <1>5 DEF Init, DeliveryInit
  <2>2. Shaped(cred)
    BY <1>2, <1>3, <1>5, <2>1 DEF Shaped, Plain, NoCred
  <2> QED BY <1>1, <2>2, EmptyShaped DEF ShapeInv
<1>6. CASE type = "WHATSAPP_CLOUD"
  <2>1. cred = Plain(<<"cloud", 1>>)
    BY <1>6 DEF Init, DeliveryInit
  <2>2. Shaped(cred)
    BY <1>2, <1>3, <1>6, <2>1 DEF Shaped, Plain, NoCred
  <2> QED BY <1>1, <2>2, EmptyShaped DEF ShapeInv
<1> QED BY <1>1, <1>4, <1>5, <1>6

(* Only the steps of the row write it, and only Begin reads it for a run.   *)
LEMMA RowWriters ==
    [Next]_vars =>
        \/ Begin
        \/ RowStep /\ UNCHANGED <<agentVars, replyVars>> /\ held' = held
        \/ UNCHANGED <<rowVars, held>>
<1> USE DEF deliveryVars, sendVars
<1>1. RowStep => held' = held
  BY DEF RowStep, Connects, LoginReads, LoginWrites, RepairReads, RepairWrites, Dies
<1> QED
  BY <1>1 DEF Next, RunStep, Thinks, SaveReply, ClaimReply, Accepted, AnswerLost, TryFails, SendThrows,
     MarkSent, MarkFails, MarkUnsent, Complete, DbThrows, MarkFailed, Crash, vars

LEMMA NextShaped == TypeOK /\ ShapeInv /\ [Next]_vars => ShapeInv'
<1> SUFFICES ASSUME TypeOK, ShapeInv, [Next]_vars PROVE ShapeInv'
  OBVIOUS
<1>1. CASE Begin
  BY <1>1 DEF Begin, rowVars, ShapeInv, Shaped
<1>2. CASE UNCHANGED <<rowVars, held>>
  BY <1>2 DEF rowVars, ShapeInv, Shaped
<1>3. CASE RowStep /\ held' = held
  <2>1. type' = type
    BY <1>3 DEF RowStep, Connects, LoginReads, LoginWrites, RepairReads, RepairWrites, Dies
  <2>2. \A c : Shaped(c)' <=> Shaped(c)
    BY <2>1 DEF Shaped
  <2>3. cred \in Row /\ seen \in Row /\ looked \in Row
    BY DEF TypeOK, DeliveryTypeOK
  <2>4. ASSUME NEW w \in Way, Connects(w) PROVE ShapeInv'
    <3> DEFINE t == <<w, issued'[w]>>
    <3>1. t \in Of(w)
      <4>1. issued'[w] \in 1..MaxTokens
        BY <2>4, DeliveryAssumption DEF Connects, TypeOK, DeliveryTypeOK
      <4> QED BY <4>1 DEF Of, Token
    <3>2. \/ type = "INSTAGRAM" /\ w = "page" /\ cred' = Linked(t)
          \/ type = "FACEBOOK" /\ w = "page" /\ cred' = Plain(t)
          \/ type = "WHATSAPP_CLOUD" /\ w = "cloud" /\ cred' = Plain(t)
      BY <2>4 DEF Connects
    <3> HIDE DEF t
    <3>3. Shaped(cred')
      <4>1. CASE type = "INSTAGRAM"
        BY <2>3, <3>1, <3>2, <4>1, WritersShape DEF ShapeInv
      <4>2. CASE type # "INSTAGRAM"
        BY <3>1, <3>2, <4>2 DEF Shaped, Plain, NoCred
      <4> QED BY <4>1, <4>2
    <3>4. seen' = seen /\ looked' = looked
      BY <2>4 DEF Connects
    <3>5. Shaped(cred)' /\ Shaped(seen)' /\ Shaped(looked)' /\ Shaped(held)'
      BY <1>3, <2>1, <3>3, <3>4 DEF ShapeInv, Shaped
    <3> QED BY <2>1, <3>4, <3>5 DEF ShapeInv
  <2>5. CASE RepairReads
    <3>1. seen' = cred /\ cred' = cred /\ looked' = looked /\ type = "INSTAGRAM"
      BY <2>5 DEF RepairReads
    <3> QED BY <1>3, <2>1, <3>1 DEF ShapeInv, Shaped
  <2>6. ASSUME NEW t \in Token, RepairWrites(t) PROVE ShapeInv'
    <3>1. t \in Of("page") /\ type = "INSTAGRAM" /\ cred' = Discovered(seen, t)
          /\ seen' = NoCred /\ looked' = looked
      BY <2>6 DEF RepairWrites, Of, ShapeInv
    <3>2. Shaped(cred') /\ Shaped(seen')
      BY <2>3, <3>1, WritersShape, EmptyShaped DEF ShapeInv
    <3>3. Shaped(cred)' /\ Shaped(seen)' /\ Shaped(looked)' /\ Shaped(held)'
      BY <1>3, <2>1, <3>1, <3>2 DEF ShapeInv, Shaped
    <3> QED BY <2>1, <3>1, <3>3 DEF ShapeInv
  <2>7. ASSUME NEW t \in Token, Dies(t) PROVE ShapeInv'
    <3>1. seen' = seen /\ cred' = cred /\ looked' = looked
      BY <2>7 DEF Dies
    <3> QED BY <1>3, <2>1, <3>1 DEF ShapeInv, Shaped
  <2>8. CASE LoginReads
    <3>1. looked' = cred /\ cred' = cred /\ seen' = seen /\ type = "INSTAGRAM"
      BY <2>8 DEF LoginReads
    <3> QED BY <1>3, <2>1, <3>1 DEF ShapeInv, Shaped
  <2>9. CASE LoginWrites
    <3> DEFINE t == <<"login", issued'["login"]>>
    <3>1. t \in Of("login")
      <4>1. issued'["login"] \in 1..MaxTokens /\ "login" \in Way
        BY <2>9, DeliveryAssumption DEF LoginWrites, TypeOK, DeliveryTypeOK, Way
      <4> QED BY <4>1 DEF Of, Token
    <3>2. /\ type = "INSTAGRAM" /\ cred' = LoggedIn(looked, t)
          /\ looked' = NoCred /\ seen' = seen
      BY <2>9 DEF LoginWrites, ShapeInv
    <3> HIDE DEF t
    <3>3. Shaped(cred') /\ Shaped(looked')
      BY <2>3, <3>1, <3>2, WritersShape, EmptyShaped DEF ShapeInv
    <3>4. Shaped(cred)' /\ Shaped(seen)' /\ Shaped(looked)' /\ Shaped(held)'
      BY <1>3, <2>1, <3>2, <3>3 DEF ShapeInv, Shaped
    <3> QED BY <2>1, <3>2, <3>4 DEF ShapeInv
  <2> QED BY <1>3, <2>4, <2>5, <2>6, <2>7, <2>8, <2>9 DEF RowStep
<1> QED BY <1>1, <1>2, <1>3, RowWriters

(* What was tried without a failure that counts was not acceptable.         *)
TriedInv ==
    ~ glitch =>
        /\ stage = "sending" => \A k \in Candidates(held) \ todo : ~ Accepts(k)
        /\ stage = "unsent" => \A k \in Candidates(held) : ~ Accepts(k)

LEMMA NextTried == TypeOK /\ TriedInv /\ [Next]_vars => TriedInv'
<1> SUFFICES ASSUME TypeOK, TriedInv, [Next]_vars PROVE TriedInv'
  OBVIOUS
<1> USE DEF TriedInv, deliveryVars, rowVars, sendVars
<1>1. CASE stage' \notin {"sending", "unsent"}
  BY <1>1
<1>2. ASSUME UNCHANGED <<type, held>>, dead \subseteq dead'
      PROVE  Candidates(held)' = Candidates(held) /\ \A k : Accepts(k)' => Accepts(k)
  <2>1. Candidates(held)' = Candidates(held)
    BY <1>2 DEF Candidates, Connections, Senders
  <2> QED BY <1>2, <2>1 DEF Accepts
<1>3. CASE RowStep /\ UNCHANGED <<agentVars, replyVars>>
  <2>1. dead \subseteq dead' /\ UNCHANGED <<type, held, todo, glitch, stage>>
    BY <1>3 DEF RowStep, Connects, LoginReads, LoginWrites, RepairReads, RepairWrites, Dies, agentVars
  <2> QED BY <1>2, <2>1
<1>4. CASE UNCHANGED vars
  <2>1. UNCHANGED <<type, held, dead, todo, glitch, stage>>
    BY <1>4 DEF vars, agentVars
  <2> QED BY <1>2, <2>1
<1>5. CASE ClaimReply
  <2>1. stage' = "sending" => todo' = Candidates(held)
    BY <1>5 DEF ClaimReply
  <2>2. stage' # "unsent" /\ UNCHANGED <<type, held, dead>>
    BY <1>5 DEF ClaimReply
  <2> QED BY <1>2, <2>1, <2>2
<1>6. ASSUME NEW k \in todo, AnswerLost(k) PROVE TriedInv'
  BY <1>6 DEF AnswerLost
<1>7. ASSUME NEW k \in todo, TryFails(k) PROVE TriedInv'
  <2>1. /\ stage = "sending" /\ stage' = stage /\ todo' = todo \ {k}
        /\ UNCHANGED <<type, held, dead>>
    BY <1>7 DEF TryFails, agentVars
  <2>2. ~ glitch' => ~ glitch /\ ~ Accepts(k)
    BY <1>7 DEF TryFails
  <2>3. ~ glitch' => \A x \in Candidates(held) \ todo' : ~ Accepts(x)
    BY <2>1, <2>2
  <2> QED BY <1>2, <2>1, <2>3
<1>8. CASE SendThrows
  <2>1. /\ stage = "sending" /\ stage' = "unsent" /\ todo = {}
        /\ UNCHANGED <<type, held, dead, glitch>>
    BY <1>8 DEF SendThrows
  <2> QED BY <1>2, <2>1
<1>9. CASE MarkFails
  BY <1>9 DEF MarkFails
<1>10. CASE Begin \/ SaveReply \/ MarkSent \/ MarkUnsent \/ Complete \/ DbThrows \/ MarkFailed \/ Crash
  BY <1>1, <1>10 DEF Begin, SaveReply, MarkSent, MarkUnsent, Complete, DbThrows, MarkFailed, Crash
<1>11. CASE Thinks
  BY <1>1, <1>11, AgentThinks DEF Thinks, Kept, Thinking, Chat
<1>12. ASSUME NEW k \in todo, Accepted(k) PROVE TriedInv'
  BY <1>1, <1>12 DEF Accepted
<1> QED
  BY <1>3, <1>4, <1>5, <1>6, <1>7, <1>8, <1>9, <1>10, <1>11, <1>12 DEF Next, RunStep

(* For any history of logins, links, repairs and expiries: a send that      *)
(* fails with the row the channel still has found no living token there, or *)
(* a request failed that the Graph API would have accepted.                 *)
THEOREM SendsFailForCause == Spec => []FailsForCause
<1>1. Init => TriedInv
  BY DEF Init, AgentInit, TriedInv
<1>2. TypeOK /\ ShapeInv /\ TriedInv => FailsForCause
  <2> SUFFICES ASSUME TypeOK, ShapeInv, TriedInv, stage = "unsent", ~ glitch, held = cred, Usable(cred)
               PROVE  FALSE
    BY DEF FailsForCause
  <2>1. \E k \in Candidates(held) : Accepts(k)
    BY UsableReached DEF TypeOK, DeliveryTypeOK, ShapeInv
  <2> QED BY <2>1 DEF TriedInv
<1> QED BY <1>1, <1>2, InitShaped, NextShaped, NextTried, TypeCorrect, PTL DEF Spec

-----------------------------------------------------------------------------
(* A run ends *)

(* The agent's steps lead forward, or are the second attempt of a request.  *)
LEMMA AgentNears ==
    TypeOK /\ AgentStep /\ todo' = todo => Nearer
<1> SUFFICES ASSUME TypeOK, AgentStep, todo' = todo
             PROVE  \/ Rank[stage'] < Rank[stage]
                    \/ stage' = stage /\ attempt' > attempt
  BY DEF Nearer
<1> USE DEF Rank, Chat, Answered
<1>1. CASE QuickReply \/ AskFirst
  BY <1>1 DEF QuickReply, AskFirst
<1>2. CASE ChatRetries
  BY <1>2 DEF ChatRetries
<1>3. CASE ChatThrows
  BY <1>3 DEF ChatThrows
<1>4. CASE CreatesOrder \/ RefusesOrder
  BY <1>4 DEF CreatesOrder, RefusesOrder
<1>5. ASSUME NEW words \in Words, Unaided(words) PROVE Rank[stage'] < Rank[stage]
  BY <1>5 DEF Unaided
<1>6. ASSUME NEW words \in Words, Final(words) PROVE Rank[stage'] < Rank[stage]
  BY <1>6 DEF Final
<1>7. ASSUME NEW call \in Call \ {"none"}, Calls(call) PROVE Rank[stage'] < Rank[stage]
  <2>1. call \in Question \cup {"create", "details", "unknown"}
    BY DEF Call
  <2>2. stage' \in {"answered", "tool", "final"} /\ stage \in {"first", "decision"}
    BY <1>7, <2>1 DEF Calls
  <2> QED BY <2>2
<1> QED BY <1>1, <1>2, <1>3, <1>4, <1>5, <1>6, <1>7 DEF AgentStep

LEMMA RunNears ==
    TypeOK /\ RunStep /\ stage' # "idle" => Nearer
<1> SUFFICES ASSUME TypeOK, RunStep, stage' # "idle" PROVE Nearer
  OBVIOUS
<1>1. CASE Thinks
  BY <1>1, AgentNears DEF Thinks, deliveryVars, sendVars
<1>2. CASE SaveReply \/ SendThrows \/ MarkSent \/ MarkFails \/ MarkUnsent
  BY <1>2 DEF SaveReply, SendThrows, MarkSent, MarkFails, MarkUnsent, Nearer, Rank
<1>3. CASE ClaimReply
  BY <1>3 DEF ClaimReply, Nearer, Rank
<1>4. CASE DbThrows
  BY <1>4 DEF DbThrows, Nearer, Rank
<1>5. CASE Complete \/ MarkFailed
  BY <1>5 DEF Complete, MarkFailed
<1>6. ASSUME NEW k \in todo, Accepted(k) PROVE Nearer
  BY <1>6 DEF Accepted, Nearer, Rank
<1>7. ASSUME NEW k \in todo, AnswerLost(k) \/ TryFails(k) PROVE Nearer
  BY <1>7 DEF AnswerLost, TryFails, Nearer, agentVars
<1> QED BY <1>1, <1>2, <1>3, <1>4, <1>5, <1>6, <1>7 DEF RunStep

(* Each step of a run brings it nearer to its end, ...                      *)
THEOREM RunsProgress == Spec => RunProgresses
<1>1. TypeOK /\ [Next]_vars =>
        [stage # "idle" /\ stage' # "idle" => Nearer]_<<agentVars, sendVars, replyVars>>
  <2> SUFFICES ASSUME TypeOK, [Next]_vars, stage # "idle", stage' # "idle",
                      ~ UNCHANGED <<agentVars, sendVars, replyVars>>
               PROVE  Nearer
    OBVIOUS
  <2>1. ~ UNCHANGED vars
    BY DEF vars, deliveryVars
  <2>2. ~ (RowStep /\ UNCHANGED <<agentVars, replyVars>>)
    BY DEF RowStep, Connects, LoginReads, LoginWrites, RepairReads, RepairWrites, Dies
  <2>3. ~ Begin /\ ~ Crash
    BY DEF Begin, Crash
  <2> QED BY <2>1, <2>2, <2>3, RunNears DEF Next
<1> QED BY <1>1, TypeCorrect, PTL DEF Spec, RunProgresses

(* ... and "nearer" has no infinite descent: below is the order that Nearer *)
(* describes, on the positions a run can be in.                             *)
Position == <<Rank[stage], <<todo, 2 - attempt>>>>
Sends == SUBSET Candidate
Positions == Nat \X (Sends \X Nat)
Below ==
    LexPairOrdering(OpToRel(<, Nat),
        LexPairOrdering(StrictSubsetOrdering(Candidate), OpToRel(<, Nat), Sends, Nat),
        Nat, Sends \X Nat)

LEMMA FiniteTriples ==
  ASSUME NEW R, NEW S, NEW T, IsFiniteSet(R), IsFiniteSet(S), IsFiniteSet(T)
  PROVE  IsFiniteSet(R \X S \X T)
<1> DEFINE g == [x \in (R \X S) \X T |-> <<x[1][1], x[1][2], x[2]>>]
<1>1. IsFiniteSet((R \X S) \X T)
  BY FS_Product
<1>2. g \in Surjection((R \X S) \X T, R \X S \X T)
  <2>1. g \in [(R \X S) \X T -> R \X S \X T]
    OBVIOUS
  <2>2. ASSUME NEW y \in R \X S \X T
        PROVE  \E x \in (R \X S) \X T : g[x] = y
    <3>1. <<<<y[1], y[2]>>, y[3]>> \in (R \X S) \X T
      OBVIOUS
    <3> QED BY <3>1
  <2> QED BY <2>1, <2>2 DEF Surjection
<1> QED BY <1>1, <1>2, FS_Surjection

LEMMA CandidatesFinite == IsFiniteSet(Candidate)
<1>1. IsFiniteSet(1..MaxTokens)
  BY FS_Interval, DeliveryAssumption
<1>2. IsFiniteSet({"login"}) /\ IsFiniteSet({"page"}) /\ IsFiniteSet({"cloud"})
  BY FS_Singleton
<1>3. IsFiniteSet(Way)
  <2>1. Way = ({"login"} \cup {"page"}) \cup {"cloud"}
    BY DEF Way
  <2> QED BY <1>2, <2>1, FS_Union
<1>4. IsFiniteSet(Token)
  BY <1>1, <1>3, FS_Product DEF Token
<1>5. IsFiniteSet({"instagram", "facebook"})
  <2>1. {"instagram", "facebook"} = {"instagram"} \cup {"facebook"}
    OBVIOUS
  <2>2. IsFiniteSet({"instagram"}) /\ IsFiniteSet({"facebook"})
    BY FS_Singleton
  <2> QED BY <2>1, <2>2, FS_Union
<1>6. IsFiniteSet({"account", "page", "me", "phone"})
  <2> DEFINE p == {"account"} \cup {"page"}
             q == {"me"} \cup {"phone"}
  <2>1. /\ IsFiniteSet({"account"}) /\ IsFiniteSet({"page"})
        /\ IsFiniteSet({"me"}) /\ IsFiniteSet({"phone"})
    BY FS_Singleton
  <2>2. IsFiniteSet(p) /\ IsFiniteSet(q)
    BY <2>1, FS_Union
  <2>3. {"account", "page", "me", "phone"} = p \cup q
    OBVIOUS
  <2> HIDE DEF p, q
  <2>4. IsFiniteSet(p \cup q)
    BY <2>2, FS_Union
  <2> QED BY <2>3, <2>4
<1> QED
  <2> DEFINE hosts == {"instagram", "facebook"}
             senders == {"account", "page", "me", "phone"}
  <2>1. Candidate = hosts \X Token \X senders
    BY DEF Candidate
  <2>2. IsFiniteSet(hosts) /\ IsFiniteSet(senders)
    BY <1>5, <1>6
  <2> HIDE DEF hosts, senders
  <2>3. IsFiniteSet(hosts \X Token \X senders)
    BY <1>4, <2>2, FiniteTriples
  <2> QED BY <2>1, <2>3

LEMMA AttemptsLeft ==
  ASSUME NEW m \in 1..2, NEW n \in 1..2
  PROVE  2 - m \in Nat /\ (n > m => 2 - n < 2 - m)
OBVIOUS

(* No run goes on for ever: its positions descend in a well-founded order,  *)
(* for any number of tokens, failures and lost answers.                     *)
THEOREM RunsAreFinite ==
    /\ IsWellFoundedOn(Below, Positions)
    /\ TypeOK /\ TypeOK' /\ stage # "idle" /\ stage' # "idle" /\ Nearer =>
         /\ {Position, Position'} \subseteq Positions
         /\ <<Position', Position>> \in Below
<1> DEFINE Inner == LexPairOrdering(StrictSubsetOrdering(Candidate), OpToRel(<, Nat), Sends, Nat)
<1>1. IsWellFoundedOn(Below, Positions)
  <2>1. IsWellFoundedOn(StrictSubsetOrdering(Candidate), Sends)
    BY CandidatesFinite, FS_FiniteSubsetsOfFinite, FS_StrictSubsetOrderingWellFounded DEF Sends
  <2>2. IsWellFoundedOn(Inner, Sends \X Nat)
    BY <2>1, NatLessThanWellFounded, WFLexPairOrdering
  <2> QED BY <2>2, NatLessThanWellFounded, WFLexPairOrdering DEF Below, Positions
<1>2. ASSUME TypeOK, TypeOK', stage # "idle", stage' # "idle", Nearer
      PROVE  {Position, Position'} \subseteq Positions /\ <<Position', Position>> \in Below
  <2> DEFINE a == Rank[stage] b == Rank[stage'] x == <<todo, 2 - attempt>> y == <<todo', 2 - attempt'>>
  <2>1. a \in Nat /\ b \in Nat
    BY <1>2 DEF TypeOK, AgentTypeOK, Stage, Chat, Rank
  <2>2. todo \in Sends /\ todo' \in Sends
    BY <1>2 DEF TypeOK, DeliveryTypeOK, Candidate, Sends
  <2>0. attempt \in 1..2 /\ attempt' \in 1..2
    BY <1>2 DEF TypeOK, AgentTypeOK
  <2>3. 2 - attempt \in Nat /\ 2 - attempt' \in Nat
    BY <2>0, AttemptsLeft
  <2>4. x \in Sends \X Nat /\ y \in Sends \X Nat
    BY <2>2, <2>3
  <2>5. b < a \/ (b = a /\ <<y, x>> \in Inner)
    <3>1. CASE stage' = stage /\ todo' # todo /\ todo' \subseteq todo
      BY <2>2, <2>4, <3>1 DEF LexPairOrdering, Sends, StrictSubsetOrdering
    <3>2. CASE stage' = stage /\ todo' = todo /\ attempt' > attempt
      <4>1. 2 - attempt' < 2 - attempt
        BY <2>0, <3>2, AttemptsLeft
      <4>2. <<2 - attempt', 2 - attempt>> \in OpToRel(<, Nat)
        BY <2>3, <4>1 DEF OpToRel
      <4> QED BY <2>4, <3>2, <4>2 DEF LexPairOrdering
    <3> QED BY <1>2, <3>1, <3>2 DEF Nearer
  <2>6. Position = <<a, x>> /\ Position' = <<b, y>>
    BY DEF Position
  <2> HIDE DEF a, b, x, y, Inner
  <2>7. <<<<b, y>>, <<a, x>>>> \in LexPairOrdering(OpToRel(<, Nat), Inner, Nat, Sends \X Nat)
    <3>1. b < a => <<b, a>> \in OpToRel(<, Nat)
      BY <2>1 DEF OpToRel
    <3> QED BY <2>1, <2>4, <2>5, <3>1 DEF LexPairOrdering
  <2>8. <<a, x>> \in Nat \X (Sends \X Nat) /\ <<b, y>> \in Nat \X (Sends \X Nat)
    BY <2>1, <2>4
  <2> QED BY <2>6, <2>7, <2>8 DEF Below, Positions, Inner
<1> QED BY <1>1, <1>2


-----------------------------------------------------------------------------
(* The refinement. A row has its text as long as it exists, and what is     *)
(* reported as sent was taken.                                              *)
PromiseInv ==
    /\ reply = "NONE" => content = "none"
    /\ reply # "NONE" => content \in Text
    /\ stage = "answered" => text \in Text
    /\ stage = "sent" \/ reply = "SENT" => copies > 0

LEMMA AgentWords == TypeOK /\ AgentStep /\ stage' = "answered" => text' \in Text
<1> SUFFICES ASSUME TypeOK, AgentStep, stage' = "answered" PROVE text' \in Text
  OBVIOUS
<1> USE DEF Text, Question, Answered, Deterministic, Chat
<1>1. CASE QuickReply \/ ChatThrows
  BY <1>1 DEF QuickReply, ChatThrows
<1>2. CASE AskFirst \/ CreatesOrder \/ RefusesOrder
  BY <1>2 DEF AskFirst, CreatesOrder, RefusesOrder
<1>3. CASE ChatRetries
  BY <1>3 DEF ChatRetries
<1>4. ASSUME NEW words \in Words, Unaided(words) PROVE text' \in Text
  BY <1>4 DEF Unaided, UnaidedText
<1>5. ASSUME NEW words \in Words, Final(words) PROVE text' \in Text
  <2>1. FinalText(words) \in Text
    BY DEF FinalText, Words
  <2> QED BY <1>5, <2>1 DEF Final
<1>6. ASSUME NEW call \in Call \ {"none"}, Calls(call) PROVE text' \in Text
  <2>1. call \in Question \cup {"create", "details", "unknown"}
    BY DEF Call
  <2> QED BY <1>6, <2>1 DEF Calls
<1> QED BY <1>1, <1>2, <1>3, <1>4, <1>5, <1>6 DEF AgentStep

LEMMA NextPromised == TypeOK /\ CopyInv /\ PromiseInv /\ [Next]_vars => PromiseInv'
<1> SUFFICES ASSUME TypeOK, CopyInv, PromiseInv, [Next]_vars PROVE PromiseInv'
  OBVIOUS
<1> USE DEF TypeOK, DeliveryTypeOK, CopyInv, PromiseInv, sendVars, deliveryVars, replyVars, agentRest
<1>1. CASE Begin
  BY <1>1 DEF Begin
<1>2. CASE Thinks
  <2>1. stage' # "sent" /\ UNCHANGED <<copies, reply, content>>
    BY <1>2, AgentThinks DEF Thinks, Kept, Thinking, Chat
  <2>2. stage' = "answered" => text' \in Text
    BY <1>2, AgentWords DEF Thinks
  <2> QED BY <2>1, <2>2
<1>3. CASE SaveReply
  BY <1>3 DEF SaveReply
<1>4. CASE ClaimReply
  BY <1>4 DEF ClaimReply
<1>5. ASSUME NEW k \in todo, Accepted(k) PROVE PromiseInv'
  BY <1>5 DEF Accepted
<1>6. ASSUME NEW k \in todo, AnswerLost(k) PROVE PromiseInv'
  BY <1>6 DEF AnswerLost, agentVars
<1>7. ASSUME NEW k \in todo, TryFails(k) PROVE PromiseInv'
  BY <1>7 DEF TryFails, agentVars
<1>8. CASE SendThrows \/ MarkSent \/ MarkFails \/ MarkUnsent
  BY <1>8 DEF SendThrows, MarkSent, MarkFails, MarkUnsent
<1>9. CASE Complete \/ DbThrows \/ MarkFailed \/ Crash
  BY <1>9 DEF Complete, DbThrows, MarkFailed, Crash
<1>10. CASE RowStep /\ UNCHANGED <<agentVars, replyVars>>
  BY <1>10 DEF RowStep, Connects, LoginReads, LoginWrites, RepairReads, RepairWrites, Dies, agentVars
<1>11. CASE UNCHANGED vars
  BY <1>11 DEF vars, agentVars
<1> QED
  BY <1>1, <1>2, <1>3, <1>4, <1>5, <1>6, <1>7, <1>8, <1>9, <1>10, <1>11 DEF Next, RunStep

LEMMA PromiseStep ==
    TypeOK /\ CopyInv /\ PromiseInv /\ [Next]_vars => [Promise!Next]_(Promise!vars)
<1> SUFFICES ASSUME TypeOK, CopyInv, PromiseInv, [Next]_vars
             PROVE  Promise!Next \/ UNCHANGED Promise!vars
  OBVIOUS
<1>1. copies \in Nat /\ lost \in Nat
  BY DEF TypeOK, DeliveryTypeOK
<1>2. ASSUME UNCHANGED <<content, copies, lost, reply>>
      PROVE  UNCHANGED Promise!vars
  BY <1>2 DEF Promise!vars
<1>3. CASE SaveReply
  <2>1. CASE reply = "NONE"
    BY <1>3, <2>1 DEF SaveReply, PromiseInv, Promise!Next, Promise!Word, deliveryVars, sendVars
  <2>2. CASE reply # "NONE"
    BY <1>2, <1>3, <2>2 DEF SaveReply, deliveryVars, sendVars
  <2> QED BY <2>1, <2>2
<1>4. CASE ClaimReply
  <2>1. UNCHANGED <<content, copies, lost>> /\ (reply' = "SENT") = (reply = "SENT")
    BY <1>4 DEF ClaimReply
  <2> QED BY <2>1 DEF Promise!vars
<1>5. ASSUME NEW k \in todo, Accepted(k) \/ AnswerLost(k) PROVE Promise!Next
  <2>1. stage = "sending" /\ copies' = copies + 1 /\ lost' \in {lost, lost + 1}
        /\ UNCHANGED <<content, reply>>
    BY <1>5 DEF Accepted, AnswerLost, replyVars
  <2>2. content # "none" /\ copies <= lost
    BY <2>1 DEF CopyInv, PromiseInv, Text, Question
  <2> QED BY <1>1, <2>1, <2>2 DEF Promise!Next, Promise!Take
<1>6. CASE MarkFails
  BY <1>1, <1>6 DEF MarkFails, replyVars, Promise!Next, Promise!Excuse
<1>7. CASE MarkSent
  BY <1>7 DEF MarkSent, PromiseInv, deliveryVars, sendVars, Promise!Next, Promise!Show
<1>8. CASE MarkUnsent
  <2>1. UNCHANGED <<content, copies, lost>> /\ reply' = "QUEUED"
    BY <1>8 DEF MarkUnsent, deliveryVars, sendVars
  <2> QED BY <2>1 DEF Promise!Next, Promise!Hide
<1>9. ASSUME NEW k \in todo, TryFails(k) PROVE UNCHANGED <<content, copies, lost, reply>>
  BY <1>9 DEF TryFails, replyVars
<1>10. CASE Begin \/ Thinks \/ SendThrows \/ Complete \/ DbThrows \/ MarkFailed \/ Crash \/ UNCHANGED vars
  BY <1>2, <1>10 DEF Begin, Thinks, SendThrows, Complete, DbThrows, MarkFailed, Crash,
                     vars, deliveryVars, sendVars, replyVars
<1>11. CASE RowStep /\ UNCHANGED <<agentVars, replyVars>>
  BY <1>2, <1>11 DEF RowStep, Connects, LoginReads, LoginWrites, RepairReads, RepairWrites, Dies,
                     sendVars, replyVars
<1> QED
  BY <1>2, <1>3, <1>4, <1>5, <1>6, <1>7, <1>8, <1>9, <1>10, <1>11 DEF Next, RunStep

(* One event over the Graph API, with the agent and the sender in detail,   *)
(* implements the outbox: its excuses are the answers that were lost.       *)
THEOREM ReplyKeepsPromise == Spec => KeepsPromise
<1>1. Init => PromiseInv /\ CopyInv /\ Promise!Init
  BY DEF Init, AgentInit, DeliveryInit, PromiseInv, CopyInv, CopiesAccounted, Promise!Init
<1> QED BY <1>1, NextPromised, NextCounts, PromiseStep, TypeCorrect, PTL
        DEF Spec, KeepsPromise, Promise!Spec

====
