---------------------------- MODULE FrontEndProofs -----------------------------
(***************************************************************************)
(* Whichever engine Engine::Create made, the front end's requests are      *)
(* served as that engine serves them, and both engines implement           *)
(* RequestStream for their clients.                                        *)
(***************************************************************************)
EXTENDS FrontEnd, DisaggEngineProofs, ChatProofs

-----------------------------------------------------------------------------
(* How the stream of a request grows.                                      *)

(* Of two beginnings of a text the shorter is a beginning of the longer.   *)
LEMMA Beginnings ==
  ASSUME NEW W, NEW T \in Seq(W), NEW j \in Nat, NEW k \in Nat, j <= k, k <= Len(T)
  PROVE  /\ IsPrefix(SubSeq(T, 1, j), SubSeq(T, 1, k))
         /\ j < k => SubSeq(T, 1, j) # SubSeq(T, 1, k)
<1> DEFINE a == SubSeq(T, 1, j)
           b == SubSeq(T, 1, k)
<1>1. /\ a \in Seq(W) /\ Len(a) = j /\ \A i \in 1..j : a[i] = T[i]
      /\ b \in Seq(W) /\ Len(b) = k /\ \A i \in 1..k : b[i] = T[i]
  OBVIOUS
<1> HIDE DEF a, b
<1>2. \A i \in 1..j : i \in 1..k
  OBVIOUS
<1>3. SubSeq(a, 1, j) = SubSeq(b, 1, j)
  BY <1>1, <1>2
<1>4. IsPrefix(a, b)
  BY <1>1, <1>3 DEF IsPrefix
<1>5. j < k => a # b
  BY <1>1
<1> QED BY <1>4, <1>5 DEF a, b

(* A step sends a word while more than the last output and the usage are   *)
(* left, and what is left then; an abort sends no word.                    *)
Continues(a, b) == IsPrefix(a, b)
Grows(a, b)     == IsPrefix(a, b) /\ a # b
LEMMA StepSends ==
  ASSUME NEW W, NEW T \in Seq(W), NEW m, NEW N, NEW P, IsPlan(P, T, m, N),
         NEW got, NEW left, SendingPlan(P, got, left)
  PROVE  /\ Len(left) > 2 => Grows(EchoOf(got), EchoOf(got \o UpTo(left, Due(left))))
         /\ Len(left) = 2 => Continues(EchoOf(got), EchoOf(got \o UpTo(left, Due(left))))
<1> DEFINE n == Len(P)
<1>1. PICK k \in 0..(Len(P) - 2) : got = UpTo(P, k) /\ left = Behind(P, k)
  BY DEF SendingPlan
<1>2. /\ n \in Nat /\ n >= 2 /\ n - 2 <= N /\ P \in Seq(ToSet(P))
      /\ \A i \in 0..(n - 2) : EchoOf(UpTo(P, i)) = SubSeq(T, 1, i)
  BY PlanBeginning
<1>3. N \in Nat /\ N <= Len(T) /\ Len(T) \in Nat
  BY DEF IsPlan
<1>4. /\ Len(left) = n - k
      /\ got \o UpTo(left, 1) = UpTo(P, k + 1)
      /\ k + 2 = n => got \o UpTo(left, 2) = P
  BY <1>1, <1>2, PlanCut
<1>5. k \in 0..(n - 2)
  OBVIOUS
<1> HIDE DEF n
<1>6. EchoOf(got) = SubSeq(T, 1, k) /\ k \in Nat
  BY <1>1, <1>2, <1>5
<1>7. PICK l : l = Len(left)
  OBVIOUS
<1>8. l = n - k /\ l \in Nat
  BY <1>2, <1>4, <1>5, <1>7
<1>9. ASSUME l > 2 PROVE Grows(EchoOf(got), EchoOf(got \o UpTo(left, Due(left))))
  <2>1. k + 1 \in 0..(n - 2) /\ k <= k + 1 /\ k < k + 1 /\ k + 1 <= Len(T) /\ k + 1 \in Nat
    BY <1>2, <1>3, <1>5, <1>8, <1>9
  <2>2. Due(left) = 1
    <3>1. l # 2
      BY <1>8, <1>9
    <3> QED BY <1>7, <3>1, Zenon DEF Due
  <2>3. EchoOf(got \o UpTo(left, Due(left))) = SubSeq(T, 1, k + 1)
    BY <1>2, <1>4, <2>1, <2>2
  <2>4. /\ IsPrefix(SubSeq(T, 1, k), SubSeq(T, 1, k + 1))
        /\ SubSeq(T, 1, k) # SubSeq(T, 1, k + 1)
    BY <1>6, <2>1, Beginnings
  <2> QED BY <1>6, <2>3, <2>4 DEF Grows
<1>10. ASSUME l = 2 PROVE Continues(EchoOf(got), EchoOf(got \o UpTo(left, Due(left))))
  <2>1. k + 2 = n /\ k <= N
    BY <1>2, <1>5, <1>8, <1>10
  <2>2. Due(left) = 2
    BY <1>7, <1>10 DEF Due
  <2>3. EchoOf(P) = SubSeq(T, 1, N)
    BY PlanWhole
  <2>4. IsPrefix(SubSeq(T, 1, k), SubSeq(T, 1, N))
    BY <1>3, <1>6, <2>1, Beginnings
  <2>5. got \o UpTo(left, Due(left)) = P
    BY <1>4, <2>1, <2>2
  <2> QED BY <1>6, <2>3, <2>4, <2>5 DEF Continues
<1> QED BY <1>7, <1>9, <1>10

LEMMA AbortSends ==
  ASSUME NEW W, NEW T \in Seq(W), NEW m, NEW N, NEW P, IsPlan(P, T, m, N),
         NEW got, NEW left, SendingPlan(P, got, left)
  PROVE  Continues(EchoOf(got), EchoOf(Aborted(got)))
<1>1. PICK k \in 0..(Len(P) - 2) : got = UpTo(P, k)
  BY DEF SendingPlan
<1>2. /\ Len(P) \in Nat /\ Len(P) - 2 <= N /\ EchoOf(got) = SubSeq(T, 1, k)
  BY <1>1, PlanBeginning
<1>3. EchoOf(Aborted(got)) = SubSeq(T, 1, k)
  BY <1>1, PlanAborted DEF IsAborted
<1>4. k \in Nat /\ k <= k /\ k <= Len(T)
  BY <1>2 DEF IsPlan
<1> QED BY <1>2, <1>3, <1>4, Beginnings DEF Continues

(* One usage is sent, when the request ends.                               *)
UsagesIn(stream) == {i \in DOMAIN stream : stream[i].usage # <<>>}
LEMMA UsageCounted ==
  ASSUME NEW stream, IsSequence(stream), NEW live \in BOOLEAN, NEW T, NEW m,
         ExactStream(stream, live, T, m)
  PROVE  Cardinality(UsagesIn(stream)) = IF live THEN 0 ELSE 1
<1> DEFINE n == Len(stream)
<1>1. n \in Nat /\ DOMAIN stream = 1..n
  BY DEF IsSequence
<1>2. /\ Given(stream) = IF live THEN {} ELSE {n - 1}
      /\ \A i \in 1..n : (stream[i].usage # <<>>) = (i - 1 \in Given(stream))
      /\ Given(stream) \subseteq 1..n
  BY <1>1 DEF ExactStream, Given
<1> HIDE DEF n
<1>3. CASE live
  <2>1. UsagesIn(stream) = {}
    BY <1>1, <1>2, <1>3 DEF UsagesIn
  <2> QED BY <1>3, <2>1, FS_EmptySet
<1>4. CASE ~live
  <2>1. Given(stream) = {n - 1} /\ n - 1 \in 1..n
    BY <1>2, <1>4
  <2>2. \A i \in 1..n : (stream[i].usage # <<>>) = (i = n)
    <3>1. \A i \in 1..n : (i - 1 = n - 1) = (i = n)
      BY <1>1
    <3> QED BY <1>2, <2>1, <3>1
  <2>3. UsagesIn(stream) = {n}
    BY <1>1, <2>1, <2>2 DEF UsagesIn
  <2> QED BY <1>4, <2>3, FS_Singleton
<1> QED BY <1>3, <1>4

LEMMA UsagesSent ==
  ASSUME NEW W, IsJSON(W), ChatInductive, NEW r \in RequestId
  PROVE  Cardinality(UsagesIn(received[r])) =
           IF r \in Served /\ r \notin DOMAIN request_map THEN 1 ELSE 0
<1>1. CASE r \notin Served
  <2>1. received[r] = <<>>
    BY <1>1, StreamAt
  <2>2. UsagesIn(received[r]) = {}
    BY <2>1 DEF UsagesIn
  <2> QED BY <1>1, <2>2, FS_EmptySet
<1>2. CASE r \in Served
  <2> DEFINE live == r \in DOMAIN request_map
  <2>1. /\ ExactStream(received[r], live, WordsOf(answer[r]), Parsed(asked[r]).max_tokens)
        /\ IsSequence(received[r]) /\ live \in BOOLEAN
    BY <1>2, ServedExact, StreamStays
  <2> HIDE DEF live
  <2>2. Cardinality(UsagesIn(received[r])) = IF live THEN 0 ELSE 1
    BY <2>1, UsageCounted
  <2> QED BY <1>2, <2>2 DEF live
<1> QED BY <1>1, <1>2

-----------------------------------------------------------------------------
(* What a step of the echo engine means to a client.                       *)

EchoClientStep(r) ==
  \/ received'[r] = received[r] /\ (r \in DOMAIN request_map') = (r \in DOMAIN request_map)
  \/ /\ r \notin DOMAIN request_map /\ r \in DOMAIN request_map'
     /\ received[r] = <<>> /\ received'[r] = <<>>
  \/ /\ r \in DOMAIN request_map /\ r \in DOMAIN request_map'
     /\ Grows(EchoOf(received[r]), EchoOf(received'[r]))
  \/ /\ r \in DOMAIN request_map /\ r \notin DOMAIN request_map' /\ r \in Served'
     /\ Continues(EchoOf(received[r]), EchoOf(received'[r]))

(* A request that is made is accepted, if its prompt is made; the others   *)
(* do not notice.                                                          *)
LEMMA CompletionServes ==
  ASSUME ChatInductive, NEW c \in RequestId, ChatCompletion(c), NEW r \in RequestId
  PROVE  EchoClientStep(r)
<1>1. c \notin DOMAIN asked /\ \E i \in DOMAIN Requests[c] :
        \/ EchoAddRequest(c, PromptFor(Requests[c][i]).inputs,
                          Parsed(Requests[c][i]).max_tokens, Parsed(Requests[c][i]).n)
        \/ UNCHANGED engineVars
  BY DEF ChatCompletion
<1>2. CASE UNCHANGED engineVars
  BY <1>2 DEF EchoClientStep, engineVars
<1>3. CASE \E i \in DOMAIN Requests[c] :
             EchoAddRequest(c, PromptFor(Requests[c][i]).inputs,
                            Parsed(Requests[c][i]).max_tokens, Parsed(Requests[c][i]).n)
  <2>1. PICK plan : request_map' = With(request_map, c, plan) /\ received' = received
    BY <1>3 DEF EchoAddRequest
  <2>2. DOMAIN request_map' = DOMAIN request_map \cup {c}
    BY <2>1 DEF With
  <2>3. CASE r = c
    <3>1. c \notin Served
      BY <1>1 DEF Served, ChatInductive, AnswersMade
    <3>2. received[r] = <<>> /\ r \notin DOMAIN request_map
      BY <2>3, <3>1, StreamAt
    <3> QED BY <2>1, <2>2, <2>3, <3>2 DEF EchoClientStep
  <2>4. CASE r # c
    BY <2>1, <2>2, <2>4 DEF EchoClientStep
  <2> QED BY <2>3, <2>4
<1> QED BY <1>1, <1>2, <1>3

(* A request that is aborted gets no more words.                           *)
LEMMA EchoAbortServes ==
  ASSUME NEW W, IsJSON(W), ChatInductive, EngineOnly,
         NEW R \in SUBSET DOMAIN request_map, AbortAll(R), NEW r \in RequestId
  PROVE  EchoClientStep(r)
<1>1. DOMAIN request_map' = DOMAIN request_map \ R
  BY DEF AbortAll, Restrict
<1>2. CASE r \notin R
  <2>1. received'[r] = received[r] \o <<>>
    BY <1>2 DEF AbortAll
  <2>2. received'[r] = received[r]
    BY <2>1, StreamStays
  <2> QED BY <1>1, <1>2, <2>2 DEF EchoClientStep
<1>3. CASE r \in R
  <2>1. received'[r] = Aborted(received[r])
    BY <1>3 DEF AbortAll, Aborted
  <2>2. r \in Served /\ SendingPlan(Plan(r), received[r], request_map[r])
    BY <1>3, StreamAt
  <2>3. /\ WordsOf(answer[r]) \in Seq(W)
        /\ \E N : IsPlan(Plan(r), WordsOf(answer[r]), Parsed(asked[r]).max_tokens, N)
    BY <2>2, ServedPlan DEF ChatInductive
  <2>4. PICK N : IsPlan(Plan(r), WordsOf(answer[r]), Parsed(asked[r]).max_tokens, N)
    BY <2>3
  <2>5. Continues(EchoOf(received[r]), EchoOf(Aborted(received[r])))
    BY <2>2, <2>3, <2>4, AbortSends
  <2>6. r \in Served'
    BY <2>2, EngineOnlyKeeps
  <2> QED BY <1>1, <1>3, <2>1, <2>5, <2>6 DEF EchoClientStep
<1> QED BY <1>2, <1>3

LEMMA EchoStepServes ==
  ASSUME NEW W, IsJSON(W), ChatInductive, EngineOnly, Step, NEW r \in RequestId
  PROVE  EchoClientStep(r)
<1> DEFINE live == {s \in DOMAIN request_map : Len(request_map[s]) > 2}
<1>1. DOMAIN request_map' = live
  BY DEF Step
<1>2. r \in live <=> r \in DOMAIN request_map /\ Len(request_map[r]) > 2
  OBVIOUS
<1> HIDE DEF live
<1>3. CASE r \notin DOMAIN request_map
  <2>1. received'[r] = received[r] \o <<>>
    BY <1>3 DEF Step
  <2>2. received'[r] = received[r]
    BY <2>1, StreamStays
  <2> QED BY <1>1, <1>2, <1>3, <2>2 DEF EchoClientStep
<1>4. CASE r \in DOMAIN request_map
  <2> DEFINE left == request_map[r]
             got == received[r]
             next == got \o UpTo(left, Due(left))
             P == Plan(r)
             T == WordsOf(answer[r])
             m == Parsed(asked[r]).max_tokens
  <2>1. received'[r] = next
    BY <1>4 DEF Step
  <2>2. r \in Served /\ SendingPlan(P, got, left)
    BY <1>4, StreamAt
  <2>3. T \in Seq(W) /\ Planned(P) /\ \E N : IsPlan(P, T, m, N)
    BY <2>2, ServedPlan DEF ChatInductive
  <2>4. r \in live <=> Len(left) > 2
    BY <1>2, <1>4
  <2> HIDE DEF P, T, m, left, got
  <2>5. PICK N : IsPlan(P, T, m, N)
    BY <2>3
  <2>6. /\ Len(left) > 2 => Grows(EchoOf(got), EchoOf(next))
        /\ Len(left) = 2 => Continues(EchoOf(got), EchoOf(next))
    BY <2>2, <2>3, <2>5, StepSends
  <2>7. Len(left) \in Nat /\ Len(left) >= 2
    BY <2>2, <2>3, PlanStep
  <2> HIDE DEF next
  <2>8. Len(left) > 2 \/ Len(left) = 2
    <3>1. PICK l : l = Len(left)
      OBVIOUS
    <3> QED BY <2>7, <3>1
  <2>9. Len(left) = 2 => r \notin live
    <3>1. PICK l : l = Len(left)
      OBVIOUS
    <3> QED BY <2>4, <3>1
  <2>10. r \in Served'
    BY <2>2, EngineOnlyKeeps
  <2>11. EchoOf(received'[r]) = EchoOf(next) /\ EchoOf(received[r]) = EchoOf(got)
    BY <2>1 DEF got
  <2>12. CASE Len(left) > 2
    <3>1. Grows(EchoOf(received[r]), EchoOf(received'[r])) /\ r \in live
      BY <2>4, <2>6, <2>11, <2>12
    <3> QED BY <1>1, <1>4, <3>1 DEF EchoClientStep
  <2>13. CASE Len(left) = 2
    <3>1. Continues(EchoOf(received[r]), EchoOf(received'[r])) /\ r \notin live
      BY <2>6, <2>9, <2>11, <2>13
    <3> QED BY <1>1, <1>4, <2>10, <3>1 DEF EchoClientStep
  <2> QED BY <2>8, <2>12, <2>13
<1> QED BY <1>3, <1>4

LEMMA ChatServes ==
  ASSUME NEW W, IsJSON(W), ChatInductive, [ChatNext]_chatVars, NEW r \in RequestId
  PROVE  EchoClientStep(r)
<1>1. CASE LoadConversation
  BY <1>1 DEF LoadConversation, engineVars, EchoClientStep
<1>2. ASSUME NEW c \in RequestId, ChatCompletion(c) PROVE EchoClientStep(r)
  BY <1>2, CompletionServes
<1>3. ASSUME NEW c \in RequestId, EchoAbortRequest(c), UNCHANGED <<template, asked, answer>>
      PROVE  EchoClientStep(r)
  <2>1. EngineOnly
    BY <1>3 DEF EngineOnly
  <2>2. AbortAll({c}) /\ {c} \in SUBSET DOMAIN request_map
    BY <1>3 DEF EchoAbortRequest
  <2> QED BY <2>1, <2>2, EchoAbortServes
<1>4. ASSUME EchoAbortAllRequests, UNCHANGED <<template, asked, answer>>
      PROVE  EchoClientStep(r)
  <2>1. EngineOnly
    BY <1>4 DEF EngineOnly
  <2>2. AbortAll(DOMAIN request_map)
    BY <1>4 DEF EchoAbortAllRequests
  <2> QED BY <2>1, <2>2, EchoAbortServes
<1>5. CASE ChatStep
  <2>1. Step /\ EngineOnly
    BY <1>5 DEF ChatStep, EngineOnly
  <2> QED BY <2>1, EchoStepServes
<1>6. CASE UNCHANGED chatVars
  BY <1>6 DEF chatVars, EchoClientStep
<1> QED BY <1>1, <1>2, <1>3, <1>4, <1>5, <1>6 DEF ChatNext

-----------------------------------------------------------------------------
(* The composition.                                                        *)

(* The requests of the front end are served as one of the engines serves   *)
(* them: neither sees the other (Engine::Create).                          *)
LEMMA FrontEndEngines == FrontEndSpec => ChatSpec /\ Spec
<1>1. FrontEndInit => ChatInit /\ Init
  BY DEF FrontEndInit
<1>2. [FrontEndNext]_frontEndVars => [ChatNext]_chatVars /\ [Next]_vars
  <2>1. CASE engine = "mock://echo" /\ ChatNext /\ UNCHANGED <<engine, vars>>
    BY <2>1
  <2>2. CASE engine = "disaggregation" /\ Next /\ UNCHANGED <<engine, chatVars>>
    BY <2>2
  <2>3. CASE UNCHANGED frontEndVars
    BY <2>3 DEF frontEndVars
  <2> QED BY <2>1, <2>2, <2>3 DEF FrontEndNext
<1> QED BY <1>1, <1>2, PTL DEF FrontEndSpec, ChatSpec, Spec

(* In either mode, whatever JSON that is well typed comes: the types;      *)
(* places, ids, budgets and windows of the engine in disaggregation mode;  *)
(* and that the echo engine serves what the protocol admits and nothing    *)
(* else, word for word.                                                    *)
THEOREM FrontEndInvariance ==
  ASSUME NEW CONSTANT W, IsJSON(W)
  PROVE  FrontEndSpec =>
           []( /\ FrontEndTypeOK /\ ServedExactly /\ EchoExact
               /\ PlaceAgrees /\ SequencesAccounted /\ StreamedInBudget /\ HandoverComplete )
<1>1. Inductive => TypeOK
  BY DEF Inductive, Structure
<1>2. Spec => [](TypeOK /\ PlaceAgrees /\ SequencesAccounted /\ StreamedInBudget /\ HandoverComplete)
  BY <1>1, DisaggInvariance, PlacesAgree, SequencesCounted, BudgetKept, HandoverWhole, PTL
<1>3. ChatSpec => [](ChatTypeOK /\ ServedExactly /\ EchoExact)
  BY ChatTypeInvariance, ChatServedExactly, ChatEchoExact, PTL
<1> QED BY <1>2, <1>3, FrontEndEngines, PTL DEF FrontEndTypeOK

LEMMA UsagesSentNext ==
  ASSUME NEW W, IsJSON(W), NEW r \in RequestId
  PROVE  ChatInductive' =>
           /\ r \in DOMAIN request_map' => r \in Served'
           /\ Cardinality(UsagesIn(received'[r])) =
                IF r \in Served' /\ r \notin DOMAIN request_map' THEN 1 ELSE 0
<1>1. ChatInductive =>
           /\ r \in DOMAIN request_map => r \in Served
           /\ Cardinality(UsagesIn(received[r])) =
                IF r \in Served /\ r \notin DOMAIN request_map THEN 1 ELSE 0
  BY UsagesSent, StreamAt
<1>2. (ChatInductive =>
           /\ r \in DOMAIN request_map => r \in Served
           /\ Cardinality(UsagesIn(received[r])) =
                IF r \in Served /\ r \notin DOMAIN request_map THEN 1 ELSE 0)'
  BY <1>1, PTL
<1> QED BY <1>2

LEMMA EchoClientServes ==
  ASSUME NEW W, IsJSON(W), ChatInductive, ChatInductive', Inductive, Inductive',
         NEW r \in RequestId, EchoClientStep(r)
  PROVE  \/ Stream!Idle(r) \/ Stream!Accept(r) \/ Stream!Refuse(r)
         \/ Stream!Stream(r) \/ Stream!Finish(r)
<1> DEFINE live == DOMAIN request_map \cup DOMAIN entry
           live2 == DOMAIN request_map' \cup DOMAIN entry'
           delivered == [s \in RequestId \cup Request |->
                           IF s \in RequestId THEN Echoed(s) ELSE streamed[s]]
           delivered2 == [s \in RequestId \cup Request |->
                           IF s \in RequestId THEN Echoed(s)' ELSE streamed'[s]]
           usages == [s \in RequestId \cup Request |->
                        IF s \in RequestId THEN Cardinality(UsagesIn(received[s]))
                        ELSE Len(ended[s])]
           usages2 == [s \in RequestId \cup Request |->
                        IF s \in RequestId THEN Cardinality(UsagesIn(received'[s]))
                        ELSE Len(ended'[s])]
<1>1. r \notin DOMAIN entry /\ r \notin DOMAIN entry'
  BY ClientsApart DEF Inductive, Structure, TypeOK, Live
<1>2. (r \in live) = (r \in DOMAIN request_map) /\ (r \in live2) = (r \in DOMAIN request_map')
  BY <1>1
<1>3. delivered[r] = EchoOf(received[r]) /\ delivered2[r] = EchoOf(received'[r])
  BY DEF Echoed, EchoOf
<1>4. usages[r] = Cardinality(UsagesIn(received[r])) /\ usages2[r] = Cardinality(UsagesIn(received'[r]))
  OBVIOUS
<1>5. /\ r \in DOMAIN request_map => r \in Served
      /\ Cardinality(UsagesIn(received[r])) =
           IF r \in Served /\ r \notin DOMAIN request_map THEN 1 ELSE 0
  BY UsagesSent, StreamAt
<1>6. /\ r \in DOMAIN request_map' => r \in Served'
      /\ Cardinality(UsagesIn(received'[r])) =
           IF r \in Served' /\ r \notin DOMAIN request_map' THEN 1 ELSE 0
  BY UsagesSentNext
<1> HIDE DEF live, live2, delivered, delivered2, usages, usages2
<1>7. CASE received'[r] = received[r] /\ (r \in DOMAIN request_map') = (r \in DOMAIN request_map)
  <2>1. (r \in live2) = (r \in live) /\ delivered2[r] = delivered[r] /\ usages2[r] = usages[r]
    BY <1>2, <1>3, <1>4, <1>7
  <2>2. Stream!Idle(r)
    BY <2>1, Zenon DEF Stream!Idle, live, live2, delivered, delivered2, usages, usages2, UsagesIn
  <2> QED BY <2>2
<1>8. CASE /\ r \notin DOMAIN request_map /\ r \in DOMAIN request_map'
           /\ received[r] = <<>> /\ received'[r] = <<>>
  <2>1. UsagesIn(received[r]) = {} /\ UsagesIn(received'[r]) = {}
    BY <1>8 DEF UsagesIn
  <2>2. /\ r \notin live /\ r \in live2 /\ usages[r] = 0 /\ usages2[r] = 0
        /\ delivered2[r] = delivered[r]
    BY <1>2, <1>3, <1>4, <1>8, <2>1, FS_EmptySet
  <2>3. Stream!Accept(r)
    BY <2>2, Zenon DEF Stream!Accept, live, live2, delivered, delivered2, usages, usages2, UsagesIn
  <2> QED BY <2>3
<1>9. CASE /\ r \in DOMAIN request_map /\ r \in DOMAIN request_map'
           /\ Grows(EchoOf(received[r]), EchoOf(received'[r]))
  <2>1. Stream!IsStrictPrefix(delivered[r], delivered2[r])
    BY <1>3, <1>9 DEF Grows, IsPrefix, Stream!IsStrictPrefix, Stream!IsPrefix
  <2>2. r \in live /\ r \in live2 /\ usages2[r] = usages[r]
    BY <1>2, <1>4, <1>5, <1>6, <1>9
  <2>3. Stream!Stream(r)
    BY <2>1, <2>2, Zenon DEF Stream!Stream, live, live2, delivered, delivered2, usages, usages2, UsagesIn
  <2> QED BY <2>3
<1>10. CASE /\ r \in DOMAIN request_map /\ r \notin DOMAIN request_map' /\ r \in Served'
            /\ Continues(EchoOf(received[r]), EchoOf(received'[r]))
  <2>1. Stream!IsPrefix(delivered[r], delivered2[r])
    BY <1>3, <1>10 DEF Continues, IsPrefix, Stream!IsPrefix
  <2>2. r \in live /\ r \notin live2 /\ usages[r] = 0 /\ usages2[r] = 1
    BY <1>2, <1>4, <1>5, <1>6, <1>10
  <2>3. usages2[r] = usages[r] + 1
    BY <2>2
  <2>4. Stream!Finish(r)
    BY <2>1, <2>2, <2>3, Zenon DEF Stream!Finish, live, live2, delivered, delivered2, usages, usages2, UsagesIn
  <2> QED BY <2>4
<1> QED BY <1>7, <1>8, <1>9, <1>10 DEF EchoClientStep

LEMMA DisaggClientServes ==
  ASSUME ChatInductive, ChatInductive', Inductive, Inductive', [Next]_vars, NEW r \in Request
  PROVE  \/ Stream!Idle(r) \/ Stream!Accept(r) \/ Stream!Refuse(r)
         \/ Stream!Stream(r) \/ Stream!Finish(r)
<1> DEFINE live == DOMAIN request_map \cup DOMAIN entry
           live2 == DOMAIN request_map' \cup DOMAIN entry'
           delivered == [s \in RequestId \cup Request |->
                           IF s \in RequestId THEN Echoed(s) ELSE streamed[s]]
           delivered2 == [s \in RequestId \cup Request |->
                           IF s \in RequestId THEN Echoed(s)' ELSE streamed'[s]]
           usages == [s \in RequestId \cup Request |->
                        IF s \in RequestId THEN Cardinality(UsagesIn(received[s]))
                        ELSE Len(ended[s])]
           usages2 == [s \in RequestId \cup Request |->
                        IF s \in RequestId THEN Cardinality(UsagesIn(received'[s]))
                        ELSE Len(ended'[s])]
           ends == [s \in Request |-> Len(ended[s])]
           ends2 == [s \in Request |-> Len(ended'[s])]
<1>1. r \notin RequestId
  BY ClientsApart
<1>2. r \notin DOMAIN request_map /\ r \notin DOMAIN request_map'
  BY <1>1 DEF ChatInductive, StreamsKept, AnswersMade, Served
<1>3. (r \in live) = (r \in Live) /\ (r \in live2) = (r \in Live')
  BY <1>2 DEF Live
<1>4. /\ delivered[r] = streamed[r] /\ delivered2[r] = streamed'[r]
      /\ usages[r] = ends[r] /\ usages2[r] = ends2[r]
  BY <1>1
<1>5. \/ Clients!Idle(r) \/ Clients!Accept(r) \/ Clients!Refuse(r)
      \/ Clients!Stream(r) \/ Clients!Finish(r)
  BY EveryStepServes, SubmissionsStay, ClientStepServes
<1> HIDE DEF live, live2, delivered, delivered2, usages, usages2, ends, ends2
<1>6. CASE Clients!Idle(r)
  <2>1. (r \in Live') = (r \in Live) /\ streamed'[r] = streamed[r] /\ ends2[r] = ends[r]
    BY <1>6, Zenon DEF Clients!Idle, ends, ends2
  <2>2. (r \in live2) = (r \in live) /\ delivered2[r] = delivered[r] /\ usages2[r] = usages[r]
    BY <1>3, <1>4, <2>1
  <2>3. Stream!Idle(r)
    BY <2>2, Zenon DEF Stream!Idle, live, live2, delivered, delivered2, usages, usages2, UsagesIn
  <2> QED BY <2>3
<1>7. CASE Clients!Accept(r)
  <2>1. r \notin Live /\ r \in Live' /\ streamed'[r] = streamed[r] /\ ends[r] = 0 /\ ends2[r] = 0
    BY <1>7, Zenon DEF Clients!Accept, ends, ends2
  <2>2. r \notin live /\ r \in live2 /\ delivered2[r] = delivered[r] /\ usages[r] = 0 /\ usages2[r] = 0
    BY <1>3, <1>4, <2>1
  <2>3. Stream!Accept(r)
    BY <2>2, Zenon DEF Stream!Accept, live, live2, delivered, delivered2, usages, usages2, UsagesIn
  <2> QED BY <2>3
<1>8. CASE Clients!Refuse(r)
  <2>1. r \notin Live /\ r \notin Live' /\ streamed'[r] = streamed[r] /\ ends[r] = 0 /\ ends2[r] = 1
    BY <1>8, Zenon DEF Clients!Refuse, ends, ends2
  <2>2. r \notin live /\ r \notin live2 /\ delivered2[r] = delivered[r] /\ usages[r] = 0 /\ usages2[r] = 1
    BY <1>3, <1>4, <2>1
  <2>3. Stream!Refuse(r)
    BY <2>2, Zenon DEF Stream!Refuse, live, live2, delivered, delivered2, usages, usages2, UsagesIn
  <2> QED BY <2>3
<1>9. CASE Clients!Stream(r)
  <2>1. /\ r \in Live /\ r \in Live' /\ ends2[r] = ends[r]
        /\ Clients!IsStrictPrefix(streamed[r], streamed'[r])
    BY <1>9, Zenon DEF Clients!Stream, ends, ends2
  <2>2. Stream!IsStrictPrefix(delivered[r], delivered2[r])
    BY <1>4, <2>1 DEF Clients!IsStrictPrefix, Clients!IsPrefix, Stream!IsStrictPrefix, Stream!IsPrefix
  <2>3. r \in live /\ r \in live2 /\ usages2[r] = usages[r]
    BY <1>3, <1>4, <2>1
  <2>4. Stream!Stream(r)
    BY <2>2, <2>3, Zenon DEF Stream!Stream, live, live2, delivered, delivered2, usages, usages2, UsagesIn
  <2> QED BY <2>4
<1>10. CASE Clients!Finish(r)
  <2>1. /\ r \in Live /\ r \notin Live' /\ ends2[r] = ends[r] + 1
        /\ Clients!IsPrefix(streamed[r], streamed'[r])
    BY <1>10, Zenon DEF Clients!Finish, ends, ends2
  <2>2. Stream!IsPrefix(delivered[r], delivered2[r])
    BY <1>4, <2>1 DEF Clients!IsPrefix, Stream!IsPrefix
  <2>3. r \in live /\ r \notin live2 /\ usages2[r] = usages[r] + 1
    BY <1>3, <1>4, <2>1
  <2>4. Stream!Finish(r)
    BY <2>2, <2>3, Zenon DEF Stream!Finish, live, live2, delivered, delivered2, usages, usages2, UsagesIn
  <2> QED BY <2>4
<1> QED BY <1>5, <1>6, <1>7, <1>8, <1>9, <1>10

(* Whichever engine there is, each initial state is one of RequestStream   *)
(* and each step a step or a stutter of it: the words of a prompt or the   *)
(* tokens sampled while a request is live, then its final usage, once.     *)
THEOREM FrontEndImplementsStream ==
  ASSUME NEW CONSTANT W, IsJSON(W)
  PROVE  FrontEndSpec => EngineStream
<1>1. ChatInit /\ Init => Stream!Init
  <2> SUFFICES ASSUME ChatInit, Init PROVE Stream!Init
    OBVIOUS
  <2>1. DOMAIN request_map \cup DOMAIN entry = {}
    BY DEF ChatInit, EngineInit, Init
  <2>2. ASSUME NEW r \in RequestId \cup Request
        PROVE  /\ (IF r \in RequestId THEN Echoed(r) ELSE streamed[r]) = <<>>
               /\ (IF r \in RequestId THEN Cardinality(UsagesIn(received[r])) ELSE Len(ended[r])) = 0
    <3>1. CASE r \in RequestId
      <4>1. received[r] = <<>>
        BY <3>1 DEF ChatInit, EngineInit
      <4>2. Echoed(r) = <<>>
        BY <4>1, EchoEmpty DEF Echoed, EchoOf
      <4>3. UsagesIn(received[r]) = {}
        BY <4>1 DEF UsagesIn
      <4> QED BY <3>1, <4>2, <4>3, FS_EmptySet
    <3>2. CASE r \notin RequestId
      BY <3>2 DEF Init
    <3> QED BY <3>1, <3>2
  <2> QED BY <2>1, <2>2, Zenon DEF Stream!Init, UsagesIn
<1>2. ChatInductive /\ ChatInductive' /\ [ChatNext]_chatVars /\ Inductive /\ Inductive' /\ [Next]_vars
        => Stream!Next
  <2> SUFFICES ASSUME ChatInductive, ChatInductive', [ChatNext]_chatVars,
                      Inductive, Inductive', [Next]_vars
               PROVE  Stream!Next
    OBVIOUS
  <2>1. ASSUME NEW r \in RequestId
        PROVE  \/ Stream!Idle(r) \/ Stream!Accept(r) \/ Stream!Refuse(r)
               \/ Stream!Stream(r) \/ Stream!Finish(r)
    <3>1. EchoClientStep(r)
      BY <2>1, ChatServes
    <3> QED BY <3>1, EchoClientServes
  <2>2. ASSUME NEW r \in Request
        PROVE  \/ Stream!Idle(r) \/ Stream!Accept(r) \/ Stream!Refuse(r)
               \/ Stream!Stream(r) \/ Stream!Finish(r)
    BY <2>2, DisaggClientServes
  <2> QED BY <2>1, <2>2 DEF Stream!Next
<1> QED BY <1>1, <1>2, FrontEndEngines, ChatInvariance, DisaggInvariance, PTL
        DEF ChatSpec, Spec, EngineStream, Stream!Spec
=============================================================================
