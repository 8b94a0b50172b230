--------------------------- MODULE ServeEngineProofs ---------------------------
(***************************************************************************)
(* The serving engine keeps IInv, for every set of requests, every size of *)
(* the prompts, pages, chunks and limits, and both prefill modes: tokens,  *)
(* K/V cache, queues and outputs agree in every reachable state.  Then,    *)
(* with more, the order in which requests are served; and, under           *)
(* conditions, that its pages suffice.                                     *)
(***************************************************************************)
EXTENDS ServeEngine, QueueLemmas

(* The conjuncts of TypeOK, for one request at a time.                     *)
LEMMA Types ==
  ASSUME TypeOK, NEW r \in Request
  PROVE  /\ input_length[r] \in Nat
         /\ committed_tokens[r] \in Nat
         /\ num_tokens_for_next_decode[r] \in Nat
         /\ max_tokens[r] \in Nat \cup {NoLimit}
         /\ next_callback_token_pos[r] \in Nat
         /\ seq_length[r] \in Nat \cup {NoSeq}
         /\ streamed[r] \in Seq(Nat)
         /\ final_outputs[r] \in {0, 1}
         /\ status[r] \in {"new", "pending", "alive", "gone"}
         /\ PromptTokens[r] \in Nat \ {0}
         /\ DecodeTokenIds[r] \in Nat
         /\ (DecodeTokenIds[r] > 0 <=> r \in ExternalKV)
         /\ MaxTokens[r] \in (Nat \ {0}) \cup {NoLimit}
BY RequestAssumption DEF TypeOK

THEOREM InitIInv == Init => IInv
<1> SUFFICES ASSUME Init PROVE IInv
  OBVIOUS
<1> USE DEF Init
<1>1. TypeOK
  BY RequestAssumption DEF TypeOK, NoSeq
<1>2. QueueStatus
  BY DEF QueueStatus, Elements, NoRepeats, Alive, Pending, Cached
<1>3. KVMatchesTokens /\ ExactlyOneFinal /\ Seeded /\ Unstarted
  BY DEF KVMatchesTokens, ExactlyOneFinal, Seeded, Unstarted, Alive, Pending
<1>4. StreamExact
  BY DEF StreamExact
<1>5. Budget
  BY RequestAssumption DEF Budget, NoLimit
<1> QED BY <1>1, <1>2, <1>3, <1>4, <1>5 DEF IInv

(* What an action leaves before ActionStepPostProcess: the invariant, read *)
(* with the status `st`, the cache lengths `len` and the running queue     *)
(* that it passes on.                                                      *)
MidState(st, len, running) ==
  /\ st \in [Request -> {"new", "pending", "alive", "gone"}]
  /\ len \in [Request -> Nat \cup {NoSeq}]
  /\ running \in Seq(Request) /\ NoRepeats(running)
  /\ waiting_queue' \in Seq(Request) /\ NoRepeats(waiting_queue')
  /\ input_length' \in [Request -> Nat]
  /\ committed_tokens' \in [Request -> Nat]
  /\ num_tokens_for_next_decode' \in [Request -> Nat]
  /\ \A r \in Request :
       /\ r \in Elements(running) <=> st[r] = "alive"
       /\ r \in Elements(waiting_queue')
            <=> st[r] = "pending" \/ (st[r] = "alive" /\ input_length'[r] > 0)
       /\ len[r] # NoSeq <=> st[r] = "alive"
       /\ st[r] = "alive" =>
            /\ len[r] > 0
            /\ len[r] + num_tokens_for_next_decode'[r] + input_length'[r]
                 = PromptTokens[r] + committed_tokens'[r]
            /\ input_length'[r] = 0 => num_tokens_for_next_decode'[r] > 0
            /\ r \in ExternalKV => committed_tokens'[r] > 0
       /\ st[r] = "pending" =>
            /\ input_length'[r] = PromptTokens[r] + committed_tokens'[r]
            /\ num_tokens_for_next_decode'[r] = 0
       /\ st[r] = "new" =>
            committed_tokens'[r] = 0 /\ num_tokens_for_next_decode'[r] = 0
       /\ st[r] = "gone" <=> status[r] = "gone"

(* The requests that sample: running, with no input left, and with one     *)
(* token more than before; an external one has its seeds.                  *)
Sampling(sampled, st) ==
  /\ sampled \subseteq Request
  /\ \A r \in sampled : /\ st[r] = "alive"
                        /\ input_length'[r] = 0
                        /\ r \in ExternalKV => committed_tokens[r] > 0
  /\ CommitToken(sampled)

(* Elements of a queue of requests are requests.                           *)
LEMMA ElementsType ==
  ASSUME NEW R, NEW q \in Seq(R) PROVE Elements(q) \subseteq R
BY DEF Elements

(* Streaming the one new token of a request extends its stream exactly.    *)
LEMMA StreamStep ==
  ASSUME IInv, NEW sampled, NEW st, Sampling(sampled, st), NEW r \in sampled
  PROVE  /\ streamed[r] \o NewTokens(r) \in Seq(Nat)
         /\ Len(streamed[r] \o NewTokens(r)) = committed_tokens[r] + 1 - DecodeTokenIds[r]
         /\ \A i \in DOMAIN (streamed[r] \o NewTokens(r)) :
              (streamed[r] \o NewTokens(r))[i] = DecodeTokenIds[r] + i
<1> DEFINE c == committed_tokens[r]
           s == streamed[r]
           d == DecodeTokenIds[r]
           t == NewTokens(r)
<1>0. r \in Request
  BY DEF Sampling
<1>1. c \in Nat /\ s \in Seq(Nat) /\ d \in Nat /\ (d > 0 <=> r \in ExternalKV)
  BY <1>0, Types DEF IInv
<1>2. /\ \A i \in DOMAIN s : s[i] = d + i
      /\ Len(s) = IF c = 0 THEN 0 ELSE c - d
      /\ next_callback_token_pos[r] = c
  BY <1>0 DEF IInv, StreamExact
<1>3. r \in ExternalKV => c > 0
  BY DEF Sampling
<1>4. Len(s) = c - d
  BY <1>1, <1>2, <1>3
<1>5. committed_tokens'[r] = c + 1
  BY <1>0 DEF Sampling, CommitToken
<1>6. t = [i \in 1..1 |-> c + i]
  <2>1. (c + 1) - c = 1
    BY <1>1
  <2> QED BY <1>2, <1>5, <2>1 DEF NewTokens
<1>7. t \in Seq(Nat) /\ Len(t) = 1 /\ t[1] = c + 1
  BY <1>1, <1>6
<1> HIDE DEF t, s, c, d
<1>8. /\ s \o t \in Seq(Nat)
      /\ Len(s \o t) = Len(s) + 1
      /\ \A i \in 1..Len(s) : (s \o t)[i] = s[i]
      /\ (s \o t)[Len(s) + 1] = c + 1
      /\ DOMAIN (s \o t) = 1..(Len(s) + 1)
      /\ DOMAIN s = 1..Len(s)
      /\ Len(s) \in Nat
  BY <1>1, <1>7, ConcatOne, Zenon
<1>9. \A i \in DOMAIN (s \o t) : (s \o t)[i] = d + i
  <2> SUFFICES ASSUME NEW i \in 1..(Len(s) + 1) PROVE (s \o t)[i] = d + i
    BY <1>8
  <2>1. CASE i \in 1..Len(s)
    BY <2>1, <1>2, <1>8 DEF s, d
  <2>2. CASE i = Len(s) + 1
    BY <2>2, <1>1, <1>4, <1>8
  <2> QED BY <2>1, <2>2, <1>8
<1>10. Len(s \o t) = c + 1 - d
  BY <1>1, <1>4, <1>8
<1> QED BY <1>8, <1>9, <1>10 DEF s, t, c, d

(* The end of a Step that sampled: whatever finishes, the invariant that   *)
(* held of the values passed to ActionStepPostProcess holds of the state.  *)
LEMMA AfterPostProcess ==
  ASSUME IInv, NEW sampled, NEW running, NEW len, NEW st,
         MidState(st, len, running), Sampling(sampled, st),
         ActionStepPostProcess(sampled, running, len, st)
  PROVE  IInv'
<1>1. PICK finished \in SUBSET sampled :
        /\ \A r \in sampled : Exhausted(r) => r \in finished
        /\ streamed' = [r \in Request |->
                         IF r \in sampled THEN streamed[r] \o NewTokens(r) ELSE streamed[r]]
        /\ next_callback_token_pos' =
             [r \in Request |-> IF r \in sampled THEN committed_tokens'[r] ELSE next_callback_token_pos[r]]
        /\ running_queue' = Without(running, finished)
        /\ seq_length' = [r \in Request |-> IF r \in finished THEN NoSeq ELSE len[r]]
        /\ status' = [r \in Request |-> IF r \in finished THEN "gone" ELSE st[r]]
        /\ final_outputs' = [r \in Request |-> final_outputs[r] + IF r \in finished THEN 1 ELSE 0]
        /\ pc' = "client"
        /\ injected' = {}
        /\ UNCHANGED <<max_tokens, stamp>>
  BY Zenon DEF ActionStepPostProcess
<1>2. /\ running_queue' \in Seq(Request)
      /\ Elements(running_queue') = Elements(running) \ finished
      /\ NoRepeats(running_queue')
  BY <1>1, WithoutProperties DEF MidState
<1>3. /\ Elements(running) \subseteq Request
      /\ Elements(waiting_queue') \subseteq Request
  BY ElementsType DEF MidState
<1>4. sampled \subseteq Request /\ finished \subseteq sampled
  BY DEF Sampling
<1>5. ASSUME NEW r \in Request
      PROVE  /\ st[r] \in {"new", "pending", "alive", "gone"}
             /\ len[r] \in Nat \cup {NoSeq}
             /\ status'[r] = IF r \in finished THEN "gone" ELSE st[r]
             /\ seq_length'[r] = IF r \in finished THEN NoSeq ELSE len[r]
             /\ final_outputs'[r] = final_outputs[r] + IF r \in finished THEN 1 ELSE 0
             /\ committed_tokens'[r] = committed_tokens[r] + IF r \in sampled THEN 1 ELSE 0
             /\ next_callback_token_pos'[r] =
                  IF r \in sampled THEN committed_tokens'[r] ELSE next_callback_token_pos[r]
             /\ streamed'[r] = IF r \in sampled THEN streamed[r] \o NewTokens(r) ELSE streamed[r]
             /\ max_tokens'[r] = max_tokens[r]
             /\ r \in sampled => st[r] = "alive" /\ input_length'[r] = 0
             /\ st[r] = "gone" <=> status[r] = "gone"
  BY <1>1 DEF MidState, Sampling, CommitToken
<1>s. ASSUME NEW r \in sampled
      PROVE  /\ streamed[r] \o NewTokens(r) \in Seq(Nat)
             /\ Len(streamed[r] \o NewTokens(r)) = committed_tokens[r] + 1 - DecodeTokenIds[r]
             /\ \A i \in DOMAIN (streamed[r] \o NewTokens(r)) :
                  (streamed[r] \o NewTokens(r))[i] = DecodeTokenIds[r] + i
  BY StreamStep, Zenon
<1>6. TypeOK'
  <2>1. streamed' \in [Request -> Seq(Nat)]
    <3>1. ASSUME NEW r \in Request PROVE streamed'[r] \in Seq(Nat)
      <4>1. CASE r \in sampled
        BY <4>1, <1>5, <1>s
      <4>2. CASE r \notin sampled
        BY <4>2, <1>5, Types DEF IInv
      <4> QED BY <4>1, <4>2
    <3> QED BY <1>1, <3>1
  <2>2. final_outputs' \in [Request -> {0, 1}]
    <3>1. ASSUME NEW r \in Request PROVE final_outputs'[r] \in {0, 1}
      <4>1. final_outputs[r] = IF status[r] = "gone" THEN 1 ELSE 0
        BY DEF IInv, ExactlyOneFinal
      <4> QED BY <4>1, <1>4, <1>5
    <3> QED BY <1>1, <3>1
  <2>3. next_callback_token_pos' \in [Request -> Nat]
    <3>1. ASSUME NEW r \in Request PROVE next_callback_token_pos'[r] \in Nat
      BY <1>5, Types DEF IInv, MidState
    <3> QED BY <1>1, <3>1
  <2>4. /\ status' \in [Request -> {"new", "pending", "alive", "gone"}]
        /\ seq_length' \in [Request -> Nat \cup {NoSeq}]
    BY <1>1, <1>5
  <2>5. /\ pc' \in {"client", "prefill", "decode"} \cup FailedCheck
        /\ injected' \subseteq Request
        /\ max_tokens' \in [Request -> Nat \cup {NoLimit}]
        /\ stamp' \in [Request -> Nat]
    BY <1>1 DEF IInv, TypeOK
  <2> QED BY <1>2, <2>1, <2>2, <2>3, <2>4, <2>5 DEF TypeOK, MidState
<1>7. QueueStatus'
  <2>1. ASSUME NEW r \in Request
        PROVE  /\ r \in Elements(running_queue') <=> status'[r] = "alive"
               /\ seq_length'[r] # NoSeq <=> status'[r] = "alive"
               /\ r \in Elements(waiting_queue')
                    <=> status'[r] = "pending" \/ (status'[r] = "alive" /\ input_length'[r] > 0)
    BY <1>2, <1>4, <1>5 DEF MidState
  <2> QED BY <1>2, <1>3, <2>1 DEF QueueStatus, Alive, Pending, Cached, MidState
<1>8. KVMatchesTokens'
  BY <1>5 DEF KVMatchesTokens, Alive, Pending, MidState
<1>9. ExactlyOneFinal'
  <2> SUFFICES ASSUME NEW r \in Request
               PROVE  final_outputs'[r] = IF status'[r] = "gone" THEN 1 ELSE 0
    BY DEF ExactlyOneFinal
  <2>1. final_outputs[r] = IF status[r] = "gone" THEN 1 ELSE 0
    BY DEF IInv, ExactlyOneFinal
  <2> QED BY <2>1, <1>4, <1>5
<1>10. StreamExact'
  <2> SUFFICES ASSUME NEW r \in Request
               PROVE  /\ \A i \in DOMAIN streamed'[r] : streamed'[r][i] = DecodeTokenIds[r] + i
                      /\ Len(streamed'[r]) = IF committed_tokens'[r] = 0 THEN 0
                                             ELSE committed_tokens'[r] - DecodeTokenIds[r]
                      /\ next_callback_token_pos'[r] = committed_tokens'[r]
    BY DEF StreamExact
  <2>1. committed_tokens[r] \in Nat /\ DecodeTokenIds[r] \in Nat
    BY Types DEF IInv
  <2>2. CASE r \in sampled
    <3>1. streamed'[r] = streamed[r] \o NewTokens(r)
      BY <2>2, <1>5
    <3>2. /\ committed_tokens'[r] = committed_tokens[r] + 1
          /\ next_callback_token_pos'[r] = committed_tokens'[r]
      BY <2>2, <1>5
    <3>3. \A i \in DOMAIN streamed'[r] : streamed'[r][i] = DecodeTokenIds[r] + i
      BY <2>2, <3>1, <1>s, Zenon
    <3>4. Len(streamed'[r]) = committed_tokens[r] + 1 - DecodeTokenIds[r]
      BY <2>2, <3>1, <1>s, Zenon
    <3>5. committed_tokens'[r] # 0
      BY <2>1, <3>2
    <3>7. Len(streamed'[r]) = committed_tokens'[r] - DecodeTokenIds[r]
      <4>1. committed_tokens[r] + 1 - DecodeTokenIds[r] = committed_tokens'[r] - DecodeTokenIds[r]
        BY <2>1, <3>2
      <4> QED BY <3>4, <4>1, Zenon
    <3>6. Len(streamed'[r]) = IF committed_tokens'[r] = 0 THEN 0
                              ELSE committed_tokens'[r] - DecodeTokenIds[r]
      BY <3>5, <3>7, Zenon
    <3> QED BY <3>2, <3>3, <3>6, Zenon
  <2>3. CASE r \notin sampled
    BY <2>1, <2>3, <1>5 DEF IInv, StreamExact
  <2> QED BY <2>2, <2>3
<1>11. Budget'
  <2> SUFFICES ASSUME NEW r \in Request
               PROVE  /\ max_tokens'[r] = NoLimit <=> MaxTokens[r] = NoLimit
                      /\ MaxTokens[r] # NoLimit =>
                           /\ max_tokens'[r] = MaxTokens[r] + IF committed_tokens'[r] = 0 THEN 0
                                                              ELSE DecodeTokenIds[r]
                           /\ committed_tokens'[r] <= max_tokens'[r]
                           /\ status'[r] # "gone" => committed_tokens'[r] < max_tokens'[r]
    BY DEF Budget
  <2>1. /\ max_tokens[r] = NoLimit <=> MaxTokens[r] = NoLimit
        /\ MaxTokens[r] # NoLimit =>
             /\ max_tokens[r] = MaxTokens[r] + IF committed_tokens[r] = 0 THEN 0 ELSE DecodeTokenIds[r]
             /\ committed_tokens[r] <= max_tokens[r]
             /\ status[r] # "gone" => committed_tokens[r] < max_tokens[r]
    BY DEF IInv, Budget
  <2>2. /\ committed_tokens[r] \in Nat /\ max_tokens[r] \in Nat \cup {NoLimit}
        /\ MaxTokens[r] \in (Nat \ {0}) \cup {NoLimit}
        /\ DecodeTokenIds[r] \in Nat /\ (DecodeTokenIds[r] > 0 <=> r \in ExternalKV)
    BY Types DEF IInv
  <2>3. CASE r \in sampled
    <3>1. r \in ExternalKV => committed_tokens[r] > 0
      BY <2>3 DEF Sampling
    <3>2. committed_tokens'[r] = committed_tokens[r] + 1 /\ status[r] # "gone"
      BY <2>3, <1>5
    <3>3. status'[r] # "gone" => ~(max_tokens[r] # NoLimit /\ committed_tokens'[r] >= max_tokens[r])
      BY <2>3, <1>1, <1>5 DEF Exhausted
    <3> QED BY <2>1, <2>2, <3>1, <3>2, <3>3, <1>5
  <2>4. CASE r \notin sampled
    BY <2>1, <2>2, <2>4, <1>4, <1>5
  <2> QED BY <2>3, <2>4
<1>12. Seeded'
  BY <1>5 DEF Seeded, Alive, MidState
<1>13. Unstarted'
  BY <1>5 DEF Unstarted, MidState
<1> QED BY <1>6, <1>7, <1>8, <1>9, <1>10, <1>11, <1>12, <1>13 DEF IInv

(* A step that only moves on to the next action, or fails, keeps IInv.     *)
LEMMA SameState ==
  ASSUME IInv, UNCHANGED <<queues, status, progress, outputs, stamp, injected>>,
         pc' \in {"client", "prefill", "decode"} \cup FailedCheck
  PROVE  IInv'
<1> USE DEF IInv, queues, progress, outputs
<1>1. TypeOK'
  BY DEF TypeOK
<1>2. Alive' = Alive /\ Pending' = Pending /\ Cached' = Cached
  BY DEF Alive, Pending, Cached
<1>3. QueueStatus'
  BY <1>2 DEF QueueStatus
<1>4. KVMatchesTokens' /\ Seeded'
  BY <1>2 DEF KVMatchesTokens, Seeded
<1>5. ExactlyOneFinal' /\ StreamExact' /\ Budget' /\ Unstarted'
  BY DEF ExactlyOneFinal, StreamExact, Budget, Unstarted
<1> QED BY <1>1, <1>3, <1>4, <1>5

-----------------------------------------------------------------------------
(* Client operations.                                                      *)
LEMMA AddRequestStep ==
  ASSUME IInv, NEW r \in Request, AddRequest(r)
  PROVE  IInv'
<1> USE DEF IInv
<1>1. /\ status[r] = "new"
      /\ status' = [status EXCEPT ![r] = status'[r]]
      /\ UNCHANGED <<running_queue, committed_tokens, num_tokens_for_next_decode, max_tokens,
                     next_callback_token_pos, seq_length, streamed, injected, pc>>
      /\ \/ /\ status'[r] = "gone"
            /\ final_outputs' = [final_outputs EXCEPT ![r] = @ + 1]
            /\ UNCHANGED <<waiting_queue, input_length, stamp>>
         \/ /\ status'[r] = "pending"
            /\ waiting_queue' = Append(waiting_queue, r)
            /\ input_length' = [input_length EXCEPT ![r] = PromptTokens[r]]
            /\ stamp' = [stamp EXCEPT ![r] = Cardinality(Admitted) + 1]
            /\ UNCHANGED final_outputs
  BY DEF AddRequest, TypeOK
<1>2. r \notin Elements(waiting_queue) /\ r \notin Elements(running_queue)
  BY <1>1 DEF QueueStatus, Alive, Pending
<1>3. /\ waiting_queue' \in Seq(Request)
      /\ NoRepeats(waiting_queue')
      /\ Elements(waiting_queue') =
           Elements(waiting_queue) \cup IF status'[r] = "pending" THEN {r} ELSE {}
  <2>1. waiting_queue \in Seq(Request) /\ NoRepeats(waiting_queue)
    BY DEF TypeOK, QueueStatus
  <2>2. CASE waiting_queue' = Append(waiting_queue, r) /\ status'[r] = "pending"
    BY <1>2, <2>1, <2>2, QueueAppend
  <2>3. CASE UNCHANGED waiting_queue /\ status'[r] = "gone"
    BY <2>1, <2>3
  <2> QED BY <1>1, <2>2, <2>3
<1>4. \A x \in Request : status'[x] = IF x = r THEN status'[r] ELSE status[x]
  BY <1>1 DEF TypeOK
<1>5. /\ input_length' \in [Request -> Nat]
      /\ \A x \in Request : input_length'[x] =
           IF x = r /\ status'[r] = "pending" THEN PromptTokens[r] ELSE input_length[x]
  BY <1>1, RequestAssumption DEF TypeOK
<1>6. /\ final_outputs' \in [Request -> {0, 1}]
      /\ ExactlyOneFinal'
  <2>1. final_outputs[r] = 0
    BY <1>1 DEF ExactlyOneFinal
  <2>2. final_outputs' \in [Request -> {0, 1}]
    <3>1. final_outputs \in [Request -> {0, 1}]
      BY DEF TypeOK
    <3>2. CASE final_outputs' = [final_outputs EXCEPT ![r] = @ + 1]
      <4>1. final_outputs[r] + 1 = 1
        BY <2>1
      <4>2. final_outputs' = [final_outputs EXCEPT ![r] = 1]
        BY <3>2, <4>1
      <4> QED BY <3>1, <4>2
    <3> QED BY <1>1, <3>1, <3>2
  <2>3. ASSUME NEW x \in Request
        PROVE  final_outputs'[x] = IF status'[x] = "gone" THEN 1 ELSE 0
    <3>1. final_outputs[x] = IF status[x] = "gone" THEN 1 ELSE 0
      BY DEF ExactlyOneFinal
    <3> QED BY <2>1, <3>1, <1>1, <1>4 DEF TypeOK
  <2> QED BY <2>2, <2>3 DEF ExactlyOneFinal
<1>7. stamp' \in [Request -> Nat]
  <2>1. Cardinality(Admitted) \in Nat
    BY RequestAssumption, FS_Subset, FS_CardinalityType DEF Admitted
  <2>2. Cardinality(Admitted) + 1 \in Nat
    BY <2>1
  <2> QED BY <1>1, <2>2 DEF TypeOK
<1>8. TypeOK'
  BY <1>1, <1>3, <1>5, <1>6, <1>7 DEF TypeOK
<1>9. QueueStatus'
  <2>1. Elements(waiting_queue) \subseteq Request /\ Elements(running_queue) \subseteq Request
    BY ElementsType DEF TypeOK
  <2>2. Alive' = Alive /\ Cached' = Cached
    BY <1>1, <1>4 DEF Alive, Cached
  <2>3. Pending' = Pending \cup IF status'[r] = "pending" THEN {r} ELSE {}
    BY <1>1, <1>4 DEF Pending
  <2>4. r \notin Alive /\ \A x \in Alive : input_length'[x] = input_length[x]
    BY <1>1, <1>5 DEF Alive
  <2> QED BY <1>1, <1>3, <2>1, <2>2, <2>3, <2>4 DEF QueueStatus
<1>10. KVMatchesTokens'
  <2>1. committed_tokens[r] = 0 /\ num_tokens_for_next_decode[r] = 0
    BY <1>1 DEF Unstarted
  <2>2. PromptTokens[r] \in Nat
    BY RequestAssumption
  <2> QED BY <1>1, <1>4, <1>5, <2>1, <2>2 DEF KVMatchesTokens, Alive, Pending
<1>11. StreamExact'
  BY <1>1 DEF StreamExact
<1>12. Budget'
  BY <1>1, <1>4 DEF Budget
<1>13. Seeded' /\ Unstarted'
  BY <1>1, <1>4 DEF Seeded, Unstarted, Alive
<1> QED BY <1>6, <1>8, <1>9, <1>10, <1>11, <1>12, <1>13

LEMMA AbortStep ==
  ASSUME IInv, NEW S, S \subseteq Live, Abort(S)
  PROVE  IInv'
<1> USE DEF IInv
<1>1. /\ waiting_queue' \in Seq(Request)
      /\ Elements(waiting_queue') = Elements(waiting_queue) \ S
      /\ NoRepeats(waiting_queue')
      /\ running_queue' \in Seq(Request)
      /\ Elements(running_queue') = Elements(running_queue) \ S
      /\ NoRepeats(running_queue')
  BY WithoutProperties DEF Abort, TypeOK, QueueStatus
<1>2. \A r \in Request : r \in S => status[r] \in {"pending", "alive"}
  BY DEF Live, Pending, Alive
<1>3. ASSUME NEW r \in Request
      PROVE  /\ status'[r] = IF r \in S THEN "gone" ELSE status[r]
             /\ seq_length'[r] = IF r \in S THEN NoSeq ELSE seq_length[r]
             /\ final_outputs'[r] = final_outputs[r] + IF r \in S THEN 1 ELSE 0
  <2>1. r \in S /\ r \notin RemovedByAbort(S) => seq_length[r] = NoSeq
    BY <1>2 DEF RemovedByAbort, QueueStatus, Alive, Cached
  <2>2. r \in RemovedByAbort(S) => r \in S
    BY DEF RemovedByAbort
  <2> QED BY <2>1, <2>2 DEF Abort
<1>4. UNCHANGED <<pc, input_length, committed_tokens, num_tokens_for_next_decode, max_tokens,
                  next_callback_token_pos, streamed, stamp, injected>>
  BY DEF Abort
<1>5. final_outputs' \in [Request -> {0, 1}] /\ ExactlyOneFinal'
  <2>1. \A r \in Request : final_outputs[r] = IF status[r] = "gone" THEN 1 ELSE 0
    BY DEF ExactlyOneFinal
  <2>2. \A r \in Request : final_outputs'[r] = IF status'[r] = "gone" THEN 1 ELSE 0
    BY <2>1, <1>2, <1>3
  <2> QED BY <2>2 DEF Abort, ExactlyOneFinal
<1>6. TypeOK'
  <2>1. /\ status' \in [Request -> {"new", "pending", "alive", "gone"}]
        /\ seq_length' \in [Request -> Nat \cup {NoSeq}]
    BY <1>3 DEF Abort, TypeOK
  <2> QED BY <1>1, <1>4, <1>5, <2>1 DEF TypeOK
<1>7. QueueStatus'
  <2>1. Elements(waiting_queue) \subseteq Request /\ Elements(running_queue) \subseteq Request
    BY ElementsType DEF TypeOK
  <2>2. Alive' = Alive \ S /\ Pending' = Pending \ S /\ Cached' = Cached \ S
    BY <1>3 DEF Alive, Pending, Cached
  <2> QED BY <1>1, <1>4, <2>1, <2>2 DEF QueueStatus
<1>8. KVMatchesTokens'
  BY <1>3, <1>4 DEF KVMatchesTokens, Alive, Pending
<1>9. StreamExact'
  BY <1>4 DEF StreamExact
<1>10. Budget'
  BY <1>3, <1>4 DEF Budget
<1>11. Seeded' /\ Unstarted'
  BY <1>3, <1>4 DEF Seeded, Unstarted, Alive
<1> QED BY <1>5, <1>6, <1>7, <1>8, <1>9, <1>10, <1>11

-----------------------------------------------------------------------------
(* PDExternalKVPrefill.                                                    *)
LEMMA InjectStep ==
  ASSUME IInv, waiting_queue # <<>>, Elements(running_queue) = {}, Head(waiting_queue) \in ExternalKV,
         InjectAndSeedDecode(Head(waiting_queue))
  PROVE  IInv'
<1> DEFINE r == Head(waiting_queue)
           seeds == DecodeTokenIds[r]
<1> USE DEF IInv
<1>1. /\ waiting_queue \in Seq(Request) /\ running_queue \in Seq(Request)
      /\ NoRepeats(waiting_queue) /\ Len(waiting_queue) \in Nat /\ Len(waiting_queue) >= 1
      /\ r \in Request /\ r = waiting_queue[1] /\ r \in Elements(waiting_queue)
      /\ r \in ExternalKV
  <2>1. waiting_queue \in Seq(Request) /\ running_queue \in Seq(Request) /\ NoRepeats(waiting_queue)
    BY DEF TypeOK, QueueStatus
  <2> QED BY <2>1 DEF Elements
<1> HIDE DEF r
<1>2. Alive = {} /\ r \in Pending
  BY <1>1 DEF QueueStatus
<1>3. /\ Tail(waiting_queue) \in Seq(Request)
      /\ NoRepeats(Tail(waiting_queue))
      /\ Elements(Tail(waiting_queue)) = Elements(waiting_queue) \ {r}
  <2> DEFINE p == SubSeq(waiting_queue, 1, 1)
             t == SubSeq(waiting_queue, 2, Len(waiting_queue))
  <2>1. Tail(waiting_queue) = t
    BY <1>1
  <2>2. Elements(p) = {r}
    <3>1. DOMAIN p = {1} /\ p[1] = r
      BY <1>1
    <3> QED BY <3>1 DEF Elements
  <2>3. /\ t \in Seq(Request)
        /\ Elements(waiting_queue) = Elements(p) \cup Elements(t)
        /\ NoRepeats(t)
        /\ Elements(p) \cap Elements(t) = {}
    <3>1. 1 \in 0..Len(waiting_queue) /\ 1 + 1 = 2
      BY <1>1
    <3> QED BY <1>1, <3>1, SplitProperties
  <2> QED BY <2>1, <2>2, <2>3
<1>4. /\ Append(running_queue, r) \in Seq(Request)
      /\ NoRepeats(Append(running_queue, r))
      /\ Elements(Append(running_queue, r)) = {r}
  <2>1. NoRepeats(running_queue)
    BY DEF QueueStatus
  <2>2. /\ Append(running_queue, r) \in Seq(Request)
        /\ Elements(Append(running_queue, r)) = Elements(running_queue) \cup {r}
        /\ NoRepeats(running_queue) /\ r \notin Elements(running_queue)
             => NoRepeats(Append(running_queue, r))
    <3>1. running_queue \in Seq(Request) /\ r \in Request
      BY <1>1
    <3> QED BY <3>1, QueueAppend
  <2> QED BY <2>1, <2>2
<1>5. /\ committed_tokens[r] \in Nat /\ PromptTokens[r] \in Nat \ {0}
      /\ seeds \in Nat \ {0}
      /\ max_tokens[r] \in Nat \cup {NoLimit}
      /\ next_callback_token_pos[r] = committed_tokens[r]
  <2>1. seeds > 0
    BY <1>1, RequestAssumption
  <2> QED BY <1>1, <2>1, Types DEF StreamExact
<1>6. NumReplayTokens(r) = IF committed_tokens[r] = 0 THEN seeds ELSE committed_tokens[r]
  BY DEF NumReplayTokens, InitialInjection
<1> HIDE DEF seeds
<1>7. /\ status' = [status EXCEPT ![r] = "alive"]
      /\ running_queue' = Append(running_queue, r)
      /\ waiting_queue' = Tail(waiting_queue)
      /\ seq_length' = [seq_length EXCEPT ![r] = PromptTokens[r]]
      /\ input_length' = [input_length EXCEPT ![r] = 0]
      /\ num_tokens_for_next_decode' =
           [num_tokens_for_next_decode EXCEPT ![r] =
              IF committed_tokens[r] = 0 THEN seeds ELSE committed_tokens[r]]
      /\ committed_tokens' =
           [committed_tokens EXCEPT ![r] = IF @ = 0 THEN seeds ELSE @]
      /\ next_callback_token_pos' =
           [next_callback_token_pos EXCEPT ![r] = IF committed_tokens[r] = 0 THEN seeds ELSE @]
      /\ max_tokens' =
           [max_tokens EXCEPT ![r] =
              IF committed_tokens[r] = 0 /\ @ # NoLimit THEN @ + seeds ELSE @]
      /\ injected' = {r}
      /\ pc' = "prefill"
      /\ UNCHANGED <<streamed, final_outputs, stamp>>
  BY <1>6 DEF InjectAndSeedDecode, InitialInjection, TypeOK, r, seeds
<1>8. ASSUME NEW x \in Request
      PROVE  /\ status'[x] = IF x = r THEN "alive" ELSE status[x]
             /\ seq_length'[x] = IF x = r THEN PromptTokens[r] ELSE seq_length[x]
             /\ input_length'[x] = IF x = r THEN 0 ELSE input_length[x]
             /\ x # r => /\ num_tokens_for_next_decode'[x] = num_tokens_for_next_decode[x]
                         /\ committed_tokens'[x] = committed_tokens[x]
                         /\ next_callback_token_pos'[x] = next_callback_token_pos[x]
                         /\ max_tokens'[x] = max_tokens[x]
  BY <1>7 DEF TypeOK
<1>9. /\ num_tokens_for_next_decode'[r] = committed_tokens'[r]
      /\ next_callback_token_pos'[r] = committed_tokens'[r]
      /\ committed_tokens'[r] = IF committed_tokens[r] = 0 THEN seeds ELSE committed_tokens[r]
      /\ max_tokens'[r] = IF committed_tokens[r] = 0 /\ max_tokens[r] # NoLimit
                          THEN max_tokens[r] + seeds ELSE max_tokens[r]
  BY <1>1, <1>5, <1>7 DEF TypeOK
<1>10. TypeOK'
  <2>1. /\ status' \in [Request -> {"new", "pending", "alive", "gone"}]
        /\ seq_length' \in [Request -> Nat \cup {NoSeq}]
        /\ input_length' \in [Request -> Nat]
        /\ num_tokens_for_next_decode' \in [Request -> Nat]
        /\ committed_tokens' \in [Request -> Nat]
        /\ next_callback_token_pos' \in [Request -> Nat]
    BY <1>1, <1>5, <1>7 DEF TypeOK
  <2>2. max_tokens' \in [Request -> Nat \cup {NoLimit}]
    <3>1. max_tokens'[r] \in Nat \cup {NoLimit}
      BY <1>5, <1>9
    <3> QED BY <1>1, <1>7, <3>1 DEF TypeOK
  <2> QED BY <1>1, <1>3, <1>4, <1>7, <2>1, <2>2 DEF TypeOK
<1>11. Alive' = {r} /\ Pending' = Pending \ {r} /\ Cached' = {r}
  <2>1. Cached = {}
    BY <1>2 DEF QueueStatus
  <2>2. PromptTokens[r] # NoSeq
    BY <1>5 DEF NoSeq
  <2> QED BY <1>1, <1>2, <1>8, <2>1, <2>2 DEF Alive, Pending, Cached
<1>12. QueueStatus'
  BY <1>2, <1>3, <1>4, <1>7, <1>8, <1>11 DEF QueueStatus
<1>13. KVMatchesTokens'
  <2>1. \A x \in Pending' : x \in Request /\ x # r /\ x \in Pending
    BY <1>11 DEF Pending
  <2>2. committed_tokens'[r] \in Nat \ {0} /\ PromptTokens[r] \in Nat \ {0}
    BY <1>5, <1>9
  <2>3. r \in Request /\ seq_length'[r] = PromptTokens[r] /\ input_length'[r] = 0
    BY <1>1, <1>8
  <2> QED BY <1>8, <1>9, <1>11, <2>1, <2>2, <2>3 DEF KVMatchesTokens
<1>14. ExactlyOneFinal'
  <2>1. status[r] = "pending"
    BY <1>2 DEF Pending
  <2> QED BY <2>1, <1>7, <1>8 DEF ExactlyOneFinal
<1>15. StreamExact'
  <2>1. committed_tokens[r] = 0 => Len(streamed[r]) = 0
    BY <1>1 DEF StreamExact
  <2>2. Len(streamed[r]) = IF committed_tokens'[r] = 0 THEN 0
                           ELSE committed_tokens'[r] - DecodeTokenIds[r]
    BY <2>1, <1>1, <1>5, <1>9 DEF StreamExact, seeds
  <2> QED BY <2>2, <1>7, <1>8, <1>9 DEF StreamExact
<1>16. Budget'
  <2>1. status[r] = "pending"
    BY <1>2 DEF Pending
  <2>2. MaxTokens[r] \in (Nat \ {0}) \cup {NoLimit}
    BY <1>1, RequestAssumption
  <2>3. /\ max_tokens[r] = NoLimit <=> MaxTokens[r] = NoLimit
        /\ MaxTokens[r] # NoLimit =>
             /\ max_tokens[r] = MaxTokens[r] + IF committed_tokens[r] = 0 THEN 0 ELSE DecodeTokenIds[r]
             /\ committed_tokens[r] < max_tokens[r]
    BY <1>1, <2>1 DEF Budget
  <2>4. /\ max_tokens'[r] = NoLimit <=> MaxTokens[r] = NoLimit
        /\ MaxTokens[r] # NoLimit =>
             /\ max_tokens'[r] = MaxTokens[r] + IF committed_tokens'[r] = 0 THEN 0 ELSE DecodeTokenIds[r]
             /\ committed_tokens'[r] < max_tokens'[r]
    BY <1>5, <1>9, <2>2, <2>3 DEF NoLimit, seeds
  <2>5. committed_tokens'[r] < max_tokens'[r] => committed_tokens'[r] <= max_tokens'[r]
    BY <1>5, <1>9 DEF NoLimit
  <2> QED BY <2>4, <2>5, <1>8 DEF Budget
<1>17. Seeded' /\ Unstarted'
  <2>1. committed_tokens'[r] > 0
    BY <1>5, <1>9
  <2> QED BY <2>1, <1>8, <1>11 DEF Seeded, Unstarted
<1> QED BY <1>10, <1>12, <1>13, <1>14, <1>15, <1>16, <1>17

LEMMA PDExternalKVPrefillStep ==
  ASSUME IInv, PDExternalKVPrefill
  PROVE  IInv'
<1>1. CASE UNCHANGED <<queues, status, progress, outputs, stamp, injected>>
           /\ pc' \in {"prefill", "ReserveFailed"}
  BY <1>1, SameState DEF FailedCheck
<1>2. CASE /\ waiting_queue # <<>> /\ ~MustWait /\ waiting_queue[1] \in ExternalKV
           /\ InjectAndSeedDecode(Head(waiting_queue))
  <2>1. Elements(running_queue) = {}
    BY <1>2 DEF MustWait, Elements
  <2>2. Head(waiting_queue) = waiting_queue[1]
    BY <1>2 DEF IInv, TypeOK
  <2> QED BY <1>2, <2>1, <2>2, InjectStep
<1> QED BY <1>1, <1>2 DEF PDExternalKVPrefill, Fail

-----------------------------------------------------------------------------
(* NewRequestPrefill.                                                      *)

(* The candidates are a prefix of the waiting queue without an external    *)
(* request.                                                                *)
LEMMA CandidatesPrefix ==
  ASSUME IInv
  PROVE  /\ \E n \in 0..Len(waiting_queue) : Candidates = SubSeq(waiting_queue, 1, n)
         /\ Elements(Candidates) \cap ExternalKV = {}
<1> DEFINE w == waiting_queue
           l == Len(waiting_queue)
           T == {n \in 0..l : n < l => w[n + 1] \in ExternalKV}
           P(q) == /\ Elements(q) \cap ExternalKV = {}
                   /\ Len(q) < Len(waiting_queue) => waiting_queue[Len(q) + 1] \in ExternalKV
           Q == {SubSeq(waiting_queue, 1, n) : n \in 0..Len(waiting_queue)}
<1>1. w \in Seq(Request) /\ NoRepeats(w) /\ l \in Nat /\ DOMAIN w = 1..l
  BY DEF IInv, TypeOK, QueueStatus
<1>2. PICK m \in T : \A k \in T : m <= k
  <2>1. T \subseteq Nat /\ l \in T
    BY <1>1
  <2> HIDE DEF T
  <2> QED BY <2>1, LeastNatural
<1>3. m \in 0..l /\ (m < l => w[m + 1] \in ExternalKV)
  OBVIOUS
<1>4. ASSUME NEW i \in 1..m PROVE w[i] \notin ExternalKV
  <2>1. i - 1 \notin T
    BY <1>1, <1>2
  <2>2. i - 1 \in 0..l /\ (i - 1) + 1 = i
    BY <1>1, <1>3
  <2> QED BY <2>1, <2>2
<1>5. P(SubSeq(waiting_queue, 1, m))
  <2> DEFINE p == SubSeq(waiting_queue, 1, m)
  <2>1. Len(p) = m /\ DOMAIN p = 1..m /\ \A i \in 1..m : p[i] = w[i]
    BY <1>1, <1>3
  <2>2. Elements(p) \cap ExternalKV = {}
    BY <2>1, <1>4 DEF Elements
  <2> QED BY <2>1, <2>2, <1>3
<1>6. \E q \in Q : P(q)
  BY <1>3, <1>5
<1>7. Candidates \in Q /\ P(Candidates)
  <2> HIDE DEF Q, P
  <2>1. (CHOOSE q \in Q : P(q)) \in Q /\ P(CHOOSE q \in Q : P(q))
    BY <1>6
  <2>2. Candidates = CHOOSE q \in Q : P(q)
    BY DEF Candidates, Q, P
  <2> QED BY <2>1, <2>2
<1> QED BY <1>7

LEMMA CandidatesProperties ==
  ASSUME IInv
  PROVE  /\ Candidates \in Seq(Request)
         /\ NoRepeats(Candidates)
         /\ Elements(Candidates) \subseteq Elements(waiting_queue)
         /\ Elements(Candidates) \cap ExternalKV = {}
<1>1. PICK n \in 0..Len(waiting_queue) : Candidates = SubSeq(waiting_queue, 1, n)
  BY CandidatesPrefix
<1>2. /\ SubSeq(waiting_queue, 1, n) \in Seq(Request)
      /\ Elements(SubSeq(waiting_queue, 1, n)) \subseteq Elements(waiting_queue)
      /\ NoRepeats(SubSeq(waiting_queue, 1, n))
  <2>1. waiting_queue \in Seq(Request) /\ NoRepeats(waiting_queue)
    BY DEF IInv, TypeOK, QueueStatus
  <2> QED BY <2>1, SplitProperties
<1> QED BY <1>1, <1>2, CandidatesPrefix

(* Appending to the sequences of a set of requests.                        *)
LEMMA AppendedValue ==
  ASSUME NEW len, NEW add, NEW r \in Request,
         add[r] \in Nat, len[r] \in Nat \cup {NoSeq}
  PROVE  Appended(len, add)[r] =
           IF add[r] = 0 THEN len[r] ELSE IF len[r] = NoSeq THEN add[r] ELSE len[r] + add[r]
BY DEF Appended

(* The conjuncts of IInv, for one request at a time.                       *)
LEMMA Requests ==
  ASSUME IInv, NEW r \in Request
  PROVE  /\ r \in Elements(running_queue) <=> status[r] = "alive"
         /\ r \in Elements(waiting_queue)
              <=> status[r] = "pending" \/ (status[r] = "alive" /\ input_length[r] > 0)
         /\ seq_length[r] # NoSeq <=> status[r] = "alive"
         /\ status[r] = "alive" =>
              /\ seq_length[r] > 0
              /\ seq_length[r] + num_tokens_for_next_decode[r] + input_length[r]
                   = PromptTokens[r] + committed_tokens[r]
              /\ input_length[r] = 0 => num_tokens_for_next_decode[r] > 0
              /\ r \in ExternalKV => committed_tokens[r] > 0
         /\ status[r] = "pending" =>
              /\ input_length[r] = PromptTokens[r] + committed_tokens[r]
              /\ num_tokens_for_next_decode[r] = 0
         /\ status[r] = "new" =>
              committed_tokens[r] = 0 /\ num_tokens_for_next_decode[r] = 0
<1>1. /\ r \in Alive <=> status[r] = "alive"
      /\ r \in Pending <=> status[r] = "pending"
      /\ r \in Cached <=> seq_length[r] # NoSeq
  BY DEF Alive, Pending, Cached
<1>2. /\ r \in Elements(running_queue) <=> r \in Alive
      /\ r \in Cached <=> r \in Alive
      /\ r \in Elements(waiting_queue) <=> r \in Pending \/ (r \in Alive /\ input_length[r] > 0)
  BY DEF IInv, QueueStatus, Alive
<1> QED BY <1>1, <1>2 DEF IInv, KVMatchesTokens, Seeded, Unstarted

LEMMA PrefillStep ==
  ASSUME IInv, NEW whole \in 0..Len(Candidates), NEW chunk \in Nat,
         chunk > 0 => /\ whole < Len(Candidates)
                      /\ chunk < input_length[Candidates[whole + 1]],
         Prefill(whole, chunk)
  PROVE  IInv'
<1> DEFINE entire  == FirstCandidates(whole)
           n       == whole + IF chunk > 0 THEN 1 ELSE 0
           chosen  == SubSeq(Candidates, 1, n)
           decoded == HybridDecodes
           sampled == entire \cup decoded
           take(r) == IF r \in entire THEN input_length[r]
                      ELSE IF r \in Elements(chosen) THEN chunk ELSE 0
           add     == [r \in Request |->
                        take(r) + IF r \in decoded THEN num_tokens_for_next_decode[r] ELSE 0]
           len     == Appended(seq_length, add)
           running == running_queue \o Keep(chosen, Pending)
           st      == [r \in Request |-> IF r \in Elements(chosen) THEN "alive" ELSE status[r]]
<1>1. CASE Fail("KVCacheFull")
  BY <1>1, SameState DEF Fail, FailedCheck
<1>2. CASE ~Fail("KVCacheFull")
  <2>1. /\ input_length' = [r \in Request |-> input_length[r] - take(r)]
        /\ num_tokens_for_next_decode' =
             [r \in Request |-> IF r \in decoded THEN 1
                                ELSE num_tokens_for_next_decode[r] + IF r \in entire THEN 1 ELSE 0]
        /\ CommitToken(sampled)
        /\ waiting_queue' = Without(waiting_queue, entire)
        /\ ActionStepPostProcess(sampled, running, len, st)
    BY <1>2 DEF Prefill
  <2>2. /\ Candidates \in Seq(Request) /\ NoRepeats(Candidates)
        /\ Elements(Candidates) \subseteq Elements(waiting_queue)
        /\ Elements(Candidates) \cap ExternalKV = {}
        /\ Len(Candidates) \in Nat /\ DOMAIN Candidates = 1..Len(Candidates)
    BY CandidatesProperties
  <2>3. /\ n \in 0..Len(Candidates)
        /\ chunk = 0 => n = whole
        /\ chunk > 0 => n = whole + 1 /\ n \in 1..Len(Candidates)
    BY <2>2
  <2>4. /\ chosen \in Seq(Request) /\ NoRepeats(chosen)
        /\ Elements(chosen) = {Candidates[i] : i \in 1..n}
    <3>1. chosen \in Seq(Request) /\ NoRepeats(chosen)
      BY <2>2, <2>3, SplitProperties
    <3>2. DOMAIN chosen = 1..n /\ \A i \in 1..n : chosen[i] = Candidates[i]
      BY <2>2, <2>3
    <3> QED BY <3>1, <3>2 DEF Elements
  <2>5. /\ entire \subseteq Elements(chosen)
        /\ Elements(chosen) \subseteq Elements(waiting_queue)
        /\ Elements(chosen) \subseteq Request
        /\ \A r \in Elements(chosen) : r \notin ExternalKV
    <3>1. \A i \in 1..n : i \in DOMAIN Candidates
      BY <2>2, <2>3
    <3>2. Elements(chosen) \subseteq Elements(Candidates)
      BY <2>4, <3>1 DEF Elements
    <3>3. entire \subseteq Elements(chosen)
      BY <2>3, <2>4 DEF FirstCandidates
    <3> QED BY <2>2, <2>4, <3>2, <3>3, ElementsType
  <2>6. ASSUME NEW r \in Elements(chosen), r \notin entire
        PROVE  chunk > 0 /\ chunk < input_length[r]
    <3>1. PICK i \in 1..n : r = Candidates[i]
      BY <2>4
    <3>2. i \notin 1..whole
      BY <2>6, <3>1 DEF FirstCandidates
    <3>3. chunk > 0 /\ i = whole + 1
      BY <2>3, <3>2
    <3> QED BY <3>1, <3>3
  <2>7. decoded \subseteq RunningRequestStateEntries
    BY DEF HybridDecodes
  <2> HIDE DEF entire, n, chosen, decoded
  <2>8. ASSUME NEW r \in Request
        PROVE  /\ r \in Elements(chosen) =>
                    /\ status[r] \in {"pending", "alive"}
                    /\ input_length[r] > 0
                    /\ r \notin decoded
               /\ r \in decoded =>
                    /\ status[r] = "alive"
                    /\ input_length[r] = 0
                    /\ num_tokens_for_next_decode[r] > 0
    <3>1. r \in Elements(waiting_queue) =>
            status[r] \in {"pending", "alive"} /\ input_length[r] > 0
      <4>1. r \in Elements(waiting_queue) <=> r \in Pending \/ (r \in Alive /\ input_length[r] > 0)
        BY DEF IInv, QueueStatus
      <4>2. r \in Pending => input_length[r] = PromptTokens[r] + committed_tokens[r]
        BY DEF IInv, KVMatchesTokens
      <4>3. PromptTokens[r] \in Nat \ {0} /\ committed_tokens[r] \in Nat
        BY Types DEF IInv
      <4> QED BY <4>1, <4>2, <4>3 DEF Pending, Alive
    <3>2. r \in RunningRequestStateEntries =>
            /\ status[r] = "alive" /\ input_length[r] = 0
            /\ num_tokens_for_next_decode[r] > 0
      BY DEF RunningRequestStateEntries, IInv, QueueStatus, KVMatchesTokens, Alive
    <3> QED BY <2>5, <2>7, <3>1, <3>2
  <2>9. decoded \subseteq Request /\ entire \subseteq Request
    <3>1. RunningRequestStateEntries \subseteq Request
      BY ElementsType DEF RunningRequestStateEntries, IInv, TypeOK
    <3> QED BY <2>5, <2>7, <3>1
  <2>10. Sampling(sampled, st)
    <3>1. ASSUME NEW r \in sampled
          PROVE  /\ st[r] = "alive" /\ input_length'[r] = 0
                 /\ r \in ExternalKV => committed_tokens[r] > 0
      <4>1. r \in Request /\ input_length[r] \in Nat
        BY <2>9, Types DEF IInv
      <4>2. CASE r \in entire
        BY <4>1, <4>2, <2>1, <2>5
      <4>3. CASE r \notin entire
        <5>1. r \in decoded /\ r \notin Elements(chosen) /\ status[r] = "alive" /\ input_length[r] = 0
          BY <4>1, <4>3, <2>8
        <5>2. input_length'[r] = 0
          BY <4>1, <4>3, <5>1, <2>1
        <5>3. r \in ExternalKV => committed_tokens[r] > 0
          BY <4>1, <5>1 DEF IInv, Seeded, Alive
        <5> QED BY <4>1, <5>1, <5>2, <5>3
      <4> QED BY <4>2, <4>3
    <3> QED BY <2>1, <2>9, <3>1 DEF Sampling
  <2>11. MidState(st, len, running)
    <3>1. /\ running \in Seq(Request)
          /\ NoRepeats(running)
          /\ Elements(running) = Alive \cup (Elements(chosen) \cap Pending)
      <4>1. /\ Keep(chosen, Pending) \in Seq(Request)
            /\ Elements(Keep(chosen, Pending)) = Elements(chosen) \cap Pending
            /\ NoRepeats(Keep(chosen, Pending))
        BY <2>4, KeepProperties
      <4>2. /\ running_queue \in Seq(Request)
            /\ Elements(running_queue) = Alive
            /\ NoRepeats(running_queue)
            /\ Alive \cap (Elements(chosen) \cap Pending) = {}
        BY DEF IInv, TypeOK, QueueStatus, Alive, Pending
      <4> QED BY <4>1, <4>2, QueueConcat
    <3>2. /\ waiting_queue' \in Seq(Request)
          /\ NoRepeats(waiting_queue')
          /\ Elements(waiting_queue') = Elements(waiting_queue) \ entire
      BY <2>1, WithoutProperties DEF IInv, TypeOK, QueueStatus
    <3>3. ASSUME NEW r \in Request
          PROVE  /\ take(r) \in Nat
                 /\ r \notin Elements(chosen) => take(r) = 0
                 /\ r \in Elements(chosen) => take(r) > 0
                 /\ r \in entire => take(r) = input_length[r]
                 /\ r \notin entire /\ r \in Elements(chosen) => take(r) < input_length[r]
      <4>1. input_length[r] \in Nat
        BY Types DEF IInv
      <4> QED BY <4>1, <2>5, <2>6, <2>8
    <3> DEFINE t == [r \in Request |-> take(r)]
    <3> HIDE DEF take
    <3>4. ASSUME NEW r \in Request
          PROVE  /\ st[r] = IF r \in Elements(chosen) THEN "alive" ELSE status[r]
                 /\ input_length'[r] = input_length[r] - t[r]
                 /\ committed_tokens'[r] = committed_tokens[r] + IF r \in sampled THEN 1 ELSE 0
                 /\ num_tokens_for_next_decode'[r] =
                      IF r \in decoded THEN 1
                      ELSE num_tokens_for_next_decode[r] + IF r \in entire THEN 1 ELSE 0
                 /\ add[r] = t[r] + IF r \in decoded THEN num_tokens_for_next_decode[r] ELSE 0
      BY <2>1 DEF CommitToken
    <3>5. ASSUME NEW r \in Request
          PROVE  /\ input_length[r] \in Nat
                 /\ committed_tokens[r] \in Nat
                 /\ num_tokens_for_next_decode[r] \in Nat
                 /\ seq_length[r] \in Nat \cup {NoSeq}
                 /\ status[r] \in {"new", "pending", "alive", "gone"}
                 /\ PromptTokens[r] \in Nat \ {0}
                 /\ t[r] \in Nat /\ add[r] \in Nat
                 /\ input_length[r] - t[r] \in Nat
      <4>1. t[r] = take(r)
        OBVIOUS
      <4>2. /\ input_length[r] \in Nat
            /\ committed_tokens[r] \in Nat
            /\ num_tokens_for_next_decode[r] \in Nat
            /\ seq_length[r] \in Nat \cup {NoSeq}
            /\ status[r] \in {"new", "pending", "alive", "gone"}
            /\ PromptTokens[r] \in Nat \ {0}
        BY Types DEF IInv
      <4> QED BY <4>1, <4>2, <3>3, <3>4
    <3>6. ASSUME NEW r \in Request
          PROVE  len[r] = IF add[r] = 0 THEN seq_length[r]
                          ELSE IF seq_length[r] = NoSeq THEN add[r] ELSE seq_length[r] + add[r]
      BY <3>5, AppendedValue
    <3>7. /\ st \in [Request -> {"new", "pending", "alive", "gone"}]
          /\ len \in [Request -> Nat \cup {NoSeq}]
          /\ input_length' \in [Request -> Nat]
          /\ committed_tokens' \in [Request -> Nat]
          /\ num_tokens_for_next_decode' \in [Request -> Nat]
      <4>1. \A r \in Request : st[r] \in {"new", "pending", "alive", "gone"}
        BY <3>4, <3>5
      <4>2. \A r \in Request : len[r] \in Nat \cup {NoSeq}
        BY <3>5, <3>6
      <4>3. len \in [Request -> Nat \cup {NoSeq}]
        BY <4>2 DEF Appended
      <4>4. /\ \A r \in Request : input_length'[r] \in Nat
            /\ \A r \in Request : committed_tokens'[r] \in Nat
            /\ \A r \in Request : num_tokens_for_next_decode'[r] \in Nat
        BY <3>4, <3>5
      <4> QED BY <4>1, <4>3, <4>4, <2>1 DEF CommitToken
    <3>c. ASSUME NEW r \in Request
          PROVE  /\ r \in sampled => committed_tokens'[r] = committed_tokens[r] + 1
                 /\ r \notin sampled => committed_tokens'[r] = committed_tokens[r]
                 /\ r \in decoded => num_tokens_for_next_decode'[r] = 1
                 /\ r \notin decoded /\ r \in entire =>
                      num_tokens_for_next_decode'[r] = num_tokens_for_next_decode[r] + 1
                 /\ r \notin decoded /\ r \notin entire =>
                      num_tokens_for_next_decode'[r] = num_tokens_for_next_decode[r]
                 /\ t[r] = 0 => input_length'[r] = input_length[r]
                 /\ add[r] = 0 => len[r] = seq_length[r]
      <4> HIDE DEF sampled, t, add, len
      <4> QED BY <3>4, <3>5, <3>6
    <3>8. ASSUME NEW r \in Request
          PROVE  /\ r \in Elements(running) <=> st[r] = "alive"
                 /\ r \in Elements(waiting_queue')
                      <=> st[r] = "pending" \/ (st[r] = "alive" /\ input_length'[r] > 0)
                 /\ st[r] = "gone" <=> status[r] = "gone"
                 /\ st[r] = "new" => committed_tokens'[r] = 0 /\ num_tokens_for_next_decode'[r] = 0
      <4>1. /\ r \in Elements(running_queue) <=> status[r] = "alive"
            /\ r \in Elements(waiting_queue)
                 <=> status[r] = "pending" \/ (status[r] = "alive" /\ input_length[r] > 0)
            /\ status[r] = "new" =>
                 committed_tokens[r] = 0 /\ num_tokens_for_next_decode[r] = 0
            /\ r \in Alive <=> status[r] = "alive"
            /\ r \in Pending <=> status[r] = "pending"
        BY Requests DEF Alive, Pending
      <4>2. /\ r \in Elements(running) <=> r \in Alive \/ (r \in Elements(chosen) /\ r \in Pending)
            /\ r \in Elements(waiting_queue') <=> r \in Elements(waiting_queue) /\ r \notin entire
        BY <3>1, <3>2
      <4>3. t[r] = take(r)
        OBVIOUS
      <4> HIDE DEF st, running, t, add
      <4>4. CASE r \in Elements(chosen)
        <5>1. input_length'[r] > 0 <=> r \notin entire
          BY <3>3, <3>4, <3>5, <4>3, <4>4
        <5> QED BY <2>5, <2>8, <3>4, <4>1, <4>2, <4>4, <5>1
      <4>5. CASE r \notin Elements(chosen)
        <5>1. input_length'[r] = input_length[r] /\ r \notin entire
          BY <2>5, <3>3, <3>4, <3>5, <4>3, <4>5
        <5>2. st[r] = "new" => r \notin sampled /\ r \notin decoded
          BY <2>8, <3>4, <4>5, <5>1
        <5>3. st[r] = status[r]
          BY <3>4, <4>5
        <5>4. st[r] = "new" => committed_tokens'[r] = 0 /\ num_tokens_for_next_decode'[r] = 0
          BY <3>c, <4>1, <5>1, <5>2, <5>3, Zenon
        <5> QED BY <4>1, <4>2, <4>5, <5>1, <5>3, <5>4
      <4> QED BY <4>4, <4>5
    <3>9. ASSUME NEW r \in Request
          PROVE  /\ len[r] # NoSeq <=> st[r] = "alive"
                 /\ st[r] = "alive" =>
                      /\ len[r] > 0
                      /\ len[r] + num_tokens_for_next_decode'[r] + input_length'[r]
                           = PromptTokens[r] + committed_tokens'[r]
                      /\ input_length'[r] = 0 => num_tokens_for_next_decode'[r] > 0
                      /\ r \in ExternalKV => committed_tokens'[r] > 0
                 /\ st[r] = "pending" =>
                      /\ input_length'[r] = PromptTokens[r] + committed_tokens'[r]
                      /\ num_tokens_for_next_decode'[r] = 0
      <4>1. /\ seq_length[r] # NoSeq <=> status[r] = "alive"
            /\ status[r] = "alive" =>
                 /\ seq_length[r] > 0
                 /\ seq_length[r] + num_tokens_for_next_decode[r] + input_length[r]
                      = PromptTokens[r] + committed_tokens[r]
                 /\ input_length[r] = 0 => num_tokens_for_next_decode[r] > 0
                 /\ r \in ExternalKV => committed_tokens[r] > 0
            /\ status[r] = "pending" =>
                 /\ input_length[r] = PromptTokens[r] + committed_tokens[r]
                 /\ num_tokens_for_next_decode[r] = 0
        BY Requests, Zenon
      <4>2. t[r] = take(r) /\ (r \in sampled <=> r \in entire \/ r \in decoded)
        OBVIOUS
      <4> HIDE DEF st, running, t, add, len, sampled
      <4>3. CASE r \in entire
        <5>1. /\ r \in Elements(chosen) /\ r \notin decoded /\ r \in sampled /\ r \notin ExternalKV
              /\ t[r] = input_length[r] /\ t[r] > 0 /\ status[r] \in {"pending", "alive"}
          BY <2>5, <2>8, <3>3, <4>2, <4>3
        <5>2. add[r] = input_length[r] /\ add[r] # 0
          BY <3>4, <3>5, <5>1
        <5>3. /\ st[r] = "alive" /\ input_length'[r] = 0
              /\ committed_tokens'[r] = committed_tokens[r] + 1
              /\ num_tokens_for_next_decode'[r] = num_tokens_for_next_decode[r] + 1
          BY <3>4, <3>5, <4>3, <5>1
        <5>4. len[r] = IF seq_length[r] = NoSeq THEN input_length[r]
                       ELSE seq_length[r] + input_length[r]
          BY <3>6, <5>2
        <5>5. /\ len[r] > 0 /\ len[r] # NoSeq
              /\ len[r] + (num_tokens_for_next_decode[r] + 1) + 0
                   = PromptTokens[r] + (committed_tokens[r] + 1)
              /\ num_tokens_for_next_decode[r] + 1 > 0
          <6>1. CASE status[r] = "pending"
            BY <3>5, <4>1, <5>1, <5>4, <6>1 DEF NoSeq
          <6>2. CASE status[r] = "alive"
            <7>1. /\ seq_length[r] \in Nat /\ seq_length[r] > 0
                  /\ len[r] = seq_length[r] + input_length[r]
                  /\ seq_length[r] + num_tokens_for_next_decode[r] + input_length[r]
                       = PromptTokens[r] + committed_tokens[r]
              <8>1. seq_length[r] # NoSeq /\ seq_length[r] \in Nat
                BY <3>5, <4>1, <6>2
              <8> QED BY <4>1, <5>4, <6>2, <8>1
            <7>2. /\ input_length[r] \in Nat /\ num_tokens_for_next_decode[r] \in Nat
                  /\ committed_tokens[r] \in Nat /\ PromptTokens[r] \in Nat
              BY <3>5
            <7>3. len[r] \in Nat /\ len[r] > 0
              BY <7>1, <7>2
            <7>4. len[r] + (num_tokens_for_next_decode[r] + 1) + 0
                   = PromptTokens[r] + (committed_tokens[r] + 1)
              <8> DEFINE s == seq_length[r]
                         j == num_tokens_for_next_decode[r]
                         i == input_length[r]
                         p == PromptTokens[r]
                         c == committed_tokens[r]
              <8>1. /\ s \in Nat /\ j \in Nat /\ i \in Nat /\ p \in Nat /\ c \in Nat
                    /\ s + j + i = p + c
                    /\ len[r] = s + i
                BY <7>1, <7>2
              <8> HIDE DEF s, j, i, p, c
              <8>2. len[r] + (j + 1) + 0 = p + (c + 1)
                BY <8>1
              <8> QED BY <8>2 DEF s, j, i, p, c
            <7> QED BY <7>2, <7>3, <7>4 DEF NoSeq
          <6> QED BY <5>1, <6>1, <6>2
        <5> QED BY <5>1, <5>3, <5>5
      <4>4. CASE r \notin entire /\ r \in Elements(chosen)
        <5>1. /\ r \notin decoded /\ r \notin sampled /\ r \notin ExternalKV
              /\ t[r] < input_length[r] /\ t[r] > 0 /\ status[r] \in {"pending", "alive"}
          BY <2>5, <2>8, <3>3, <4>2, <4>4
        <5>2. add[r] = t[r] /\ add[r] # 0
          BY <3>4, <3>5, <5>1
        <5>3. /\ st[r] = "alive" /\ input_length'[r] = input_length[r] - t[r]
              /\ committed_tokens'[r] = committed_tokens[r]
              /\ num_tokens_for_next_decode'[r] = num_tokens_for_next_decode[r]
          BY <3>4, <3>5, <4>4, <5>1
        <5>4. len[r] = IF seq_length[r] = NoSeq THEN t[r] ELSE seq_length[r] + t[r]
          BY <3>6, <5>2
        <5>5. input_length'[r] > 0
          BY <3>5, <5>1, <5>3
        <5> QED BY <3>5, <4>1, <5>1, <5>3, <5>4, <5>5 DEF NoSeq
      <4>5. CASE r \in decoded
        <5>1. /\ r \notin Elements(chosen) /\ r \notin entire /\ r \in sampled /\ t[r] = 0
              /\ status[r] = "alive" /\ input_length[r] = 0 /\ num_tokens_for_next_decode[r] > 0
          BY <2>5, <2>8, <3>3, <4>2, <4>5
        <5>2. add[r] = num_tokens_for_next_decode[r] /\ add[r] # 0
          BY <3>4, <3>5, <4>5, <5>1
        <5>3. /\ st[r] = "alive" /\ input_length'[r] = 0
              /\ committed_tokens'[r] = committed_tokens[r] + 1
              /\ num_tokens_for_next_decode'[r] = 1
          BY <3>4, <3>5, <4>5, <5>1
        <5>4. len[r] = seq_length[r] + num_tokens_for_next_decode[r]
          BY <3>6, <4>1, <5>1, <5>2
        <5>5. /\ len[r] > 0 /\ len[r] # NoSeq
              /\ len[r] + 1 + 0 = PromptTokens[r] + (committed_tokens[r] + 1)
          BY <3>5, <4>1, <5>1, <5>4 DEF NoSeq
        <5>6. /\ len[r] + num_tokens_for_next_decode'[r] + input_length'[r]
                   = PromptTokens[r] + committed_tokens'[r]
              /\ num_tokens_for_next_decode'[r] > 0
          BY <3>5, <3>7, <5>3, <5>5
        <5>7. r \in ExternalKV => committed_tokens'[r] > 0
          BY <3>5, <5>3
        <5> QED BY <5>3, <5>5, <5>6, <5>7
      <4>6. CASE r \notin decoded /\ r \notin entire /\ r \notin Elements(chosen)
        <5>1. t[r] = 0 /\ add[r] = 0 /\ r \notin sampled
          BY <3>3, <3>4, <4>2, <4>6
        <5>2. /\ st[r] = status[r] /\ input_length'[r] = input_length[r]
              /\ committed_tokens'[r] = committed_tokens[r]
              /\ num_tokens_for_next_decode'[r] = num_tokens_for_next_decode[r]
              /\ len[r] = seq_length[r]
          BY <3>4, <3>c, <4>6, <5>1
        <5> QED BY <4>1, <5>2
      <4> QED BY <4>3, <4>4, <4>5, <4>6
    <3> QED BY <3>1, <3>2, <3>7, <3>8, <3>9 DEF MidState
  <2> HIDE DEF st, len, running, sampled
  <2> QED BY <2>1, <2>10, <2>11, AfterPostProcess, Zenon
<1> QED BY <1>1, <1>2

LEMMA NewRequestPrefillStep ==
  ASSUME IInv, NewRequestPrefill
  PROVE  IInv'
<1>1. CASE NothingToPrefill \/ Fail("ChunkCheckFailed")
  <2>1. /\ UNCHANGED <<queues, status, progress, outputs, stamp, injected>>
        /\ pc' \in {"decode", "ChunkCheckFailed"}
    BY <1>1 DEF NothingToPrefill, Fail
  <2> QED BY <2>1, SameState DEF FailedCheck
<1>2. CASE \E whole \in 0..Len(Candidates) :
             \/ whole < Len(Candidates) /\ Attempt2(whole) /\ Prefill(whole, RemainingChunk(whole))
             \/ Prefill(whole, 0)
  <2>1. PICK whole \in 0..Len(Candidates) :
             \/ whole < Len(Candidates) /\ Attempt2(whole) /\ Prefill(whole, RemainingChunk(whole))
             \/ Prefill(whole, 0)
    BY <1>2
  <2>2. CASE Prefill(whole, 0)
    BY <2>2, PrefillStep
  <2>3. CASE whole < Len(Candidates) /\ Attempt2(whole) /\ Prefill(whole, RemainingChunk(whole))
    <3> DEFINE chunk == RemainingChunk(whole)
               rest == input_length[Candidates[whole + 1]]
    <3>1. chunk \in 1..(rest - 1)
      BY <2>3 DEF Attempt2
    <3>2. rest \in Nat
      <4>1. /\ Candidates \in Seq(Request) /\ Len(Candidates) \in Nat
            /\ DOMAIN Candidates = 1..Len(Candidates)
        BY CandidatesProperties
      <4>2. whole + 1 \in DOMAIN Candidates
        BY <2>3, <4>1
      <4>3. Candidates[whole + 1] \in Request
        BY <4>1, <4>2
      <4> QED BY <4>3, Types DEF IInv
    <3>3. Prefill(whole, chunk)
      BY <2>3
    <3> HIDE DEF chunk
    <3>4. chunk \in Nat /\ chunk < rest
      <4> HIDE DEF rest
      <4> QED BY <3>1, <3>2
    <3> QED BY <2>3, <3>3, <3>4, PrefillStep
  <2> QED BY <2>1, <2>2, <2>3
<1> QED
  <2>1. \/ NothingToPrefill
        \/ \E whole \in 0..Len(Candidates) :
             IF whole < Len(Candidates) /\ TotalInputLength(whole) > prefill_chunk_size
             THEN Fail("ChunkCheckFailed")
             ELSE IF whole < Len(Candidates) /\ Attempt2(whole)
             THEN Prefill(whole, RemainingChunk(whole))
             ELSE IF whole > 0
             THEN Prefill(whole, 0)
             ELSE NothingToPrefill
    BY Zenon DEF NewRequestPrefill
  <2> QED BY <1>1, <1>2, <2>1

-----------------------------------------------------------------------------
(* BatchDecode.                                                            *)

(* A Step that only preempts: nothing is sampled, nothing finishes.        *)
LEMMA AfterPreemption ==
  ASSUME IInv, NEW running, NEW len, NEW st, MidState(st, len, running), CommitToken({}),
         running_queue' = running, seq_length' = len, status' = st,
         pc' \in {"client", "NoActionTaken"}, injected' = {},
         UNCHANGED <<max_tokens, outputs, stamp>>
  PROVE  IInv'
<1>1. ASSUME NEW r \in Request PROVE committed_tokens'[r] = committed_tokens[r]
  <2>1. committed_tokens'[r] = committed_tokens[r] + 0
    BY DEF CommitToken
  <2>2. committed_tokens[r] \in Nat
    BY Types DEF IInv
  <2> QED BY <2>1, <2>2
<1>2. UNCHANGED <<next_callback_token_pos, streamed, final_outputs>>
  BY DEF outputs
<1>3. TypeOK'
  BY <1>2 DEF MidState, IInv, TypeOK, FailedCheck
<1>4. QueueStatus'
  <2>1. Elements(running_queue') \subseteq Request /\ Elements(waiting_queue') \subseteq Request
    BY ElementsType DEF MidState
  <2> QED BY <2>1 DEF QueueStatus, Alive, Pending, Cached, MidState
<1>5. KVMatchesTokens'
  BY DEF KVMatchesTokens, Alive, Pending, MidState
<1>6. ExactlyOneFinal'
  BY <1>2 DEF ExactlyOneFinal, IInv, MidState
<1>7. StreamExact'
  BY <1>1, <1>2 DEF StreamExact, IInv
<1>8. Budget'
  BY <1>1 DEF Budget, IInv, MidState
<1>9. Seeded' /\ Unstarted'
  BY DEF Seeded, Unstarted, Alive, MidState
<1> QED BY <1>3, <1>4, <1>5, <1>6, <1>7, <1>8, <1>9 DEF IInv

LEMMA PreemptAndDecodeStep ==
  ASSUME IInv, NEW m \in 0..Len(running_queue), PreemptAndDecode(m)
  PROVE  IInv'
<1> DEFINE last      == LastRunning(m)
           preempted == Elements(last)
           running   == SubSeq(running_queue, 1, Len(running_queue) - m)
           decoded   == RunningRequestStateEntries \ preempted
           st   == [r \in Request |-> IF r \in preempted THEN "pending" ELSE status[r]]
           kept == [r \in Request |-> IF r \in preempted THEN NoSeq ELSE seq_length[r]]
           add  == [r \in Request |-> IF r \in decoded THEN num_tokens_for_next_decode[r] ELSE 0]
           len  == Appended(kept, add)
<1>1. CASE Fail("KVCacheFull")
  BY <1>1, SameState DEF Fail, FailedCheck
<1>2. CASE ~Fail("KVCacheFull")
  <2>1. /\ input_length' = [r \in Request |->
                              IF r \in preempted THEN RebuiltInput(r) ELSE input_length[r]]
        /\ num_tokens_for_next_decode' =
             [r \in Request |-> IF r \in preempted THEN 0
                                ELSE IF r \in decoded THEN 1 ELSE num_tokens_for_next_decode[r]]
        /\ CommitToken(decoded)
        /\ waiting_queue' = PutBack(last)
        /\ IF decoded # {}
           THEN ActionStepPostProcess(decoded, running, len, st)
           ELSE /\ running_queue' = running
                /\ seq_length' = kept
                /\ status' = st
                /\ pc' = IF running = <<>> THEN "client" ELSE "NoActionTaken"
                /\ injected' = {}
                /\ UNCHANGED <<max_tokens, outputs, stamp>>
    BY <1>2 DEF PreemptAndDecode
  <2>2. /\ last \in Seq(Request) /\ running \in Seq(Request)
        /\ NoRepeats(last) /\ NoRepeats(running)
        /\ preempted \cap Elements(running) = {}
        /\ preempted \cup Elements(running) = Elements(running_queue)
    <3> DEFINE n == Len(running_queue) - m
    <3>1. running_queue \in Seq(Request) /\ NoRepeats(running_queue)
      BY DEF IInv, TypeOK, QueueStatus
    <3>2. n \in 0..Len(running_queue)
      <4>1. Len(running_queue) \in Nat
        BY <3>1
      <4> QED BY <4>1
    <3>3. last = SubSeq(running_queue, n + 1, Len(running_queue))
      BY DEF LastRunning
    <3> HIDE DEF n
    <3>4. LET p == SubSeq(running_queue, 1, n)
              s == SubSeq(running_queue, n + 1, Len(running_queue))
          IN  /\ p \in Seq(Request) /\ s \in Seq(Request)
              /\ Elements(running_queue) = Elements(p) \cup Elements(s)
              /\ NoRepeats(p) /\ NoRepeats(s)
              /\ Elements(p) \cap Elements(s) = {}
      BY <3>1, <3>2, SplitProperties
    <3>5. running = SubSeq(running_queue, 1, n)
      BY DEF n
    <3> HIDE DEF last, running
    <3> QED BY <3>3, <3>4, <3>5
  <2> HIDE DEF last, running
  <2>3. decoded \subseteq RunningRequestStateEntries /\ \A r \in decoded : r \notin preempted
    OBVIOUS
  <2> HIDE DEF preempted, decoded
  <2>4. preempted \subseteq Request /\ decoded \subseteq Request
    <3>1. Elements(running_queue) \subseteq Request
      BY ElementsType DEF IInv, TypeOK
    <3> QED BY <2>2, <2>3, <3>1 DEF RunningRequestStateEntries
  <2>5. ASSUME NEW r \in Request
        PROVE  /\ r \in preempted => status[r] = "alive"
               /\ r \in decoded => /\ status[r] = "alive" /\ input_length[r] = 0
                                   /\ num_tokens_for_next_decode[r] > 0
    <3>1. r \in Elements(running_queue) <=> status[r] = "alive"
      BY Requests
    <3>2. status[r] = "alive" /\ input_length[r] = 0 => num_tokens_for_next_decode[r] > 0
      BY Requests
    <3> QED BY <2>2, <2>3, <3>1, <3>2 DEF RunningRequestStateEntries
  <2>6. ASSUME NEW r \in Request
        PROVE  /\ input_length[r] \in Nat
               /\ committed_tokens[r] \in Nat
               /\ num_tokens_for_next_decode[r] \in Nat
               /\ seq_length[r] \in Nat \cup {NoSeq}
               /\ status[r] \in {"new", "pending", "alive", "gone"}
               /\ PromptTokens[r] \in Nat \ {0}
               /\ PromptTokens[r] + committed_tokens[r] \in Nat
    BY Types DEF IInv
  <2>7. ASSUME NEW r \in Request
        PROVE  /\ r \in preempted =>
                    /\ st[r] = "pending"
                    /\ kept[r] = NoSeq
                    /\ input_length'[r] = PromptTokens[r] + committed_tokens[r]
                    /\ num_tokens_for_next_decode'[r] = 0
                    /\ r \notin decoded
               /\ r \notin preempted =>
                    /\ st[r] = status[r]
                    /\ kept[r] = seq_length[r]
                    /\ input_length'[r] = input_length[r]
                    /\ r \in decoded => num_tokens_for_next_decode'[r] = 1
                    /\ r \notin decoded =>
                         num_tokens_for_next_decode'[r] = num_tokens_for_next_decode[r]
               /\ r \in decoded => /\ committed_tokens'[r] = committed_tokens[r] + 1
                                   /\ add[r] = num_tokens_for_next_decode[r]
               /\ r \notin decoded => committed_tokens'[r] = committed_tokens[r] /\ add[r] = 0
    BY <2>1, <2>3, <2>6 DEF CommitToken, RebuiltInput
  <2>8. ASSUME NEW r \in Request
        PROVE  len[r] = IF add[r] = 0 THEN kept[r]
                        ELSE IF kept[r] = NoSeq THEN add[r] ELSE kept[r] + add[r]
    <3>1. add[r] \in Nat /\ kept[r] \in Nat \cup {NoSeq}
      BY <2>6, <2>7
    <3> QED BY <3>1, AppendedValue
  <2>9. MidState(st, len, running)
    <3> DEFINE whole == {r \in Request : input_length[r] = 0}
    <3>1. /\ waiting_queue' \in Seq(Request)
          /\ NoRepeats(waiting_queue')
          /\ Elements(waiting_queue') = (preempted \cap whole) \cup Elements(waiting_queue)
      <4>1. /\ Keep(last, whole) \in Seq(Request)
            /\ Elements(Keep(last, whole)) = preempted \cap whole
            /\ NoRepeats(Keep(last, whole))
        BY <2>2, KeepProperties DEF preempted
      <4>2. waiting_queue \in Seq(Request) /\ NoRepeats(waiting_queue)
        BY DEF IInv, TypeOK, QueueStatus
      <4>3. (preempted \cap whole) \cap Elements(waiting_queue) = {}
        <5> SUFFICES ASSUME NEW r \in Request, r \in preempted, input_length[r] = 0,
                            r \in Elements(waiting_queue)
                     PROVE  FALSE
          OBVIOUS
        <5>1. status[r] = "alive"
          BY <2>5
        <5> QED BY <5>1, Requests
      <4>4. waiting_queue' = Keep(last, whole) \o waiting_queue
        BY <2>1 DEF PutBack
      <4> HIDE DEF whole
      <4>5. /\ Keep(last, whole) \o waiting_queue \in Seq(Request)
            /\ Elements(Keep(last, whole) \o waiting_queue)
                 = Elements(Keep(last, whole)) \cup Elements(waiting_queue)
            /\ Elements(Keep(last, whole)) \cap Elements(waiting_queue) = {}
                 => NoRepeats(Keep(last, whole) \o waiting_queue)
        BY <4>1, <4>2, QueueConcat
      <4> QED BY <4>1, <4>3, <4>4, <4>5
    <3>2. /\ st \in [Request -> {"new", "pending", "alive", "gone"}]
          /\ len \in [Request -> Nat \cup {NoSeq}]
          /\ input_length' \in [Request -> Nat]
          /\ committed_tokens' \in [Request -> Nat]
          /\ num_tokens_for_next_decode' \in [Request -> Nat]
      <4>1. \A r \in Request : st[r] \in {"new", "pending", "alive", "gone"}
        BY <2>6, <2>7
      <4>2. len \in [Request -> Nat \cup {NoSeq}]
        <5>1. \A r \in Request : len[r] \in Nat \cup {NoSeq}
          BY <2>6, <2>7, <2>8
        <5> QED BY <5>1 DEF Appended
      <4>3. /\ \A r \in Request : input_length'[r] \in Nat
            /\ \A r \in Request : committed_tokens'[r] \in Nat
            /\ \A r \in Request : num_tokens_for_next_decode'[r] \in Nat
        BY <2>6, <2>7
      <4> QED BY <4>1, <4>2, <4>3, <2>1 DEF CommitToken
    <3>3. ASSUME NEW r \in Request
          PROVE  /\ r \in Elements(running) <=> st[r] = "alive"
                 /\ r \in Elements(waiting_queue')
                      <=> st[r] = "pending" \/ (st[r] = "alive" /\ input_length'[r] > 0)
                 /\ st[r] = "gone" <=> status[r] = "gone"
                 /\ st[r] = "new" => committed_tokens'[r] = 0 /\ num_tokens_for_next_decode'[r] = 0
      <4>1. /\ r \in Elements(running_queue) <=> status[r] = "alive"
            /\ r \in Elements(waiting_queue)
                 <=> status[r] = "pending" \/ (status[r] = "alive" /\ input_length[r] > 0)
            /\ status[r] = "new" =>
                 committed_tokens[r] = 0 /\ num_tokens_for_next_decode[r] = 0
        BY Requests, Zenon
      <4>2. /\ r \in Elements(running) <=> status[r] = "alive" /\ r \notin preempted
            /\ r \in Elements(waiting_queue') <=>
                 r \in Elements(waiting_queue) \/ (r \in preempted /\ input_length[r] = 0)
        BY <2>2, <3>1, <4>1
      <4> HIDE DEF st, whole
      <4>3. CASE r \in preempted
        <5>1. status[r] = "alive" /\ st[r] = "pending"
          BY <2>5, <2>7, <4>3
        <5>2. r \in Elements(waiting_queue')
          BY <2>6, <4>1, <4>2, <4>3, <5>1
        <5> QED BY <4>2, <4>3, <5>1, <5>2
      <4>4. CASE r \notin preempted
        <5>1. st[r] = status[r] /\ input_length'[r] = input_length[r]
          BY <2>7, <4>4
        <5>2. st[r] = "new" => r \notin decoded
          BY <2>5, <5>1
        <5>3. r \notin decoded => /\ committed_tokens'[r] = committed_tokens[r]
                                  /\ num_tokens_for_next_decode'[r] = num_tokens_for_next_decode[r]
          BY <2>7, <4>4
        <5> QED BY <4>1, <4>2, <4>4, <5>1, <5>2, <5>3
      <4> QED BY <4>3, <4>4
    <3>4. ASSUME NEW r \in Request
          PROVE  /\ len[r] # NoSeq <=> st[r] = "alive"
                 /\ st[r] = "alive" =>
                      /\ len[r] > 0
                      /\ len[r] + num_tokens_for_next_decode'[r] + input_length'[r]
                           = PromptTokens[r] + committed_tokens'[r]
                      /\ input_length'[r] = 0 => num_tokens_for_next_decode'[r] > 0
                      /\ r \in ExternalKV => committed_tokens'[r] > 0
                 /\ st[r] = "pending" =>
                      /\ input_length'[r] = PromptTokens[r] + committed_tokens'[r]
                      /\ num_tokens_for_next_decode'[r] = 0
      <4>1. /\ seq_length[r] # NoSeq <=> status[r] = "alive"
            /\ status[r] = "alive" =>
                 /\ seq_length[r] > 0
                 /\ seq_length[r] + num_tokens_for_next_decode[r] + input_length[r]
                      = PromptTokens[r] + committed_tokens[r]
                 /\ input_length[r] = 0 => num_tokens_for_next_decode[r] > 0
                 /\ r \in ExternalKV => committed_tokens[r] > 0
            /\ status[r] = "pending" =>
                 /\ input_length[r] = PromptTokens[r] + committed_tokens[r]
                 /\ num_tokens_for_next_decode[r] = 0
        BY Requests, Zenon
      <4> HIDE DEF st, kept, add, len
      <4>2. CASE r \in preempted
        <5>1. r \notin decoded
          BY <2>7, <4>2
        <5>2. /\ st[r] = "pending" /\ len[r] = NoSeq
              /\ committed_tokens'[r] = committed_tokens[r]
              /\ input_length'[r] = PromptTokens[r] + committed_tokens[r]
              /\ num_tokens_for_next_decode'[r] = 0
          BY <2>7, <2>8, <4>2, <5>1
        <5> QED BY <5>2
      <4>3. CASE r \in decoded
        <5>1. /\ r \notin preempted /\ status[r] = "alive" /\ input_length[r] = 0
              /\ num_tokens_for_next_decode[r] > 0
          BY <2>3, <2>5, <4>3
        <5>2. /\ st[r] = "alive" /\ input_length'[r] = 0
              /\ num_tokens_for_next_decode'[r] = 1
              /\ committed_tokens'[r] = committed_tokens[r] + 1
              /\ add[r] = num_tokens_for_next_decode[r]
              /\ kept[r] = seq_length[r]
          BY <2>7, <4>3, <5>1
        <5>3. seq_length[r] \in Nat /\ seq_length[r] # NoSeq
          BY <2>6, <4>1, <5>1
        <5>4. len[r] = seq_length[r] + num_tokens_for_next_decode[r]
          BY <2>6, <2>8, <5>1, <5>2, <5>3
        <5>5. /\ len[r] > 0 /\ len[r] # NoSeq
              /\ len[r] + 1 + 0 = PromptTokens[r] + (committed_tokens[r] + 1)
          <6> DEFINE s == seq_length[r]
                     j == num_tokens_for_next_decode[r]
                     p == PromptTokens[r]
                     c == committed_tokens[r]
          <6>1. /\ s \in Nat /\ j \in Nat /\ p \in Nat /\ c \in Nat
                /\ s > 0 /\ s + j + 0 = p + c
                /\ len[r] = s + j
            BY <2>6, <4>1, <5>1, <5>3, <5>4
          <6> HIDE DEF s, j, p, c
          <6>2. /\ len[r] > 0 /\ len[r] # NoSeq
                /\ len[r] + 1 + 0 = p + (c + 1)
            BY <6>1 DEF NoSeq
          <6> QED BY <6>2 DEF p, c
        <5>6. r \in ExternalKV => committed_tokens'[r] > 0
          BY <2>6, <5>2
        <5> QED BY <5>2, <5>5, <5>6
      <4>4. CASE r \notin preempted /\ r \notin decoded
        <5>1. /\ st[r] = status[r] /\ input_length'[r] = input_length[r]
              /\ committed_tokens'[r] = committed_tokens[r]
              /\ num_tokens_for_next_decode'[r] = num_tokens_for_next_decode[r]
              /\ len[r] = seq_length[r]
          BY <2>7, <2>8, <4>4
        <5> QED BY <4>1, <5>1
      <4> QED BY <4>2, <4>3, <4>4
    <3> HIDE DEF st, len
    <3> QED BY <2>2, <3>1, <3>2, <3>3, <3>4 DEF MidState
  <2>10. CASE decoded # {}
    <3>1. ActionStepPostProcess(decoded, running, len, st)
      BY <2>1, <2>10, Zenon
    <3>2. Sampling(decoded, st)
      <4>1. ASSUME NEW r \in decoded
            PROVE  /\ st[r] = "alive" /\ input_length'[r] = 0
                   /\ r \in ExternalKV => committed_tokens[r] > 0
        <5>1. r \in Request /\ r \notin preempted
          BY <2>3, <2>4
        <5>2. r \in ExternalKV => committed_tokens[r] > 0
          BY <2>5, <5>1, Requests
        <5> QED BY <2>5, <2>7, <5>1, <5>2
      <4> QED BY <2>1, <2>4, <4>1 DEF Sampling
    <3> HIDE DEF st, len
    <3> QED BY <2>9, <3>1, <3>2, AfterPostProcess, Zenon
  <2>11. CASE decoded = {}
    <3>1. len = kept
      <4>1. \A r \in Request : len[r] = kept[r]
        BY <2>7, <2>8, <2>11
      <4> QED BY <4>1 DEF Appended
    <3>2. CommitToken({})
      BY <2>1, <2>11
    <3>3. /\ running_queue' = running
          /\ seq_length' = len
          /\ status' = st
          /\ pc' \in {"client", "NoActionTaken"}
          /\ injected' = {}
          /\ UNCHANGED <<max_tokens, outputs, stamp>>
      BY <2>1, <2>11, <3>1
    <3> HIDE DEF st, len
    <3> QED BY <2>9, <3>2, <3>3, AfterPreemption, Zenon
  <2> QED BY <2>10, <2>11
<1> QED BY <1>1, <1>2

LEMMA BatchDecodeStep ==
  ASSUME IInv, BatchDecode
  PROVE  IInv'
<1>1. PICK m \in 0..Len(running_queue) : PreemptAndDecode(m)
  BY Zenon DEF BatchDecode
<1> QED BY <1>1, PreemptAndDecodeStep

-----------------------------------------------------------------------------
(* IInv is inductive: an engine step, a client operation and a stutter     *)
(* each keep it.                                                           *)
THEOREM StepIInv == IInv /\ [Next]_vars => IInv'
<1> SUFFICES ASSUME IInv, [Next]_vars PROVE IInv'
  OBVIOUS
<1>1. CASE \E r \in Request : AddRequest(r)
  BY <1>1, AddRequestStep
<1>2. CASE \E r \in Request : AbortRequest(r)
  <2>1. PICK r \in Request : r \in Live /\ Abort({r})
    BY <1>2 DEF AbortRequest
  <2>2. {r} \subseteq Live
    BY <2>1
  <2> QED BY <2>1, <2>2, AbortStep
<1>3. CASE Reset
  BY <1>3, AbortStep DEF Reset
<1>4. CASE PDExternalKVPrefill
  BY <1>4, PDExternalKVPrefillStep
<1>5. CASE NewRequestPrefill
  BY <1>5, NewRequestPrefillStep
<1>6. CASE BatchDecode
  BY <1>6, BatchDecodeStep
<1>7. CASE UNCHANGED vars
  <2>1. pc' \in {"client", "prefill", "decode"} \cup FailedCheck
    BY <1>7 DEF vars, IInv, TypeOK
  <2> QED BY <1>7, <2>1, SameState DEF vars
<1> QED BY <1>1, <1>2, <1>3, <1>4, <1>5, <1>6, <1>7 DEF Next, EngineStep

(* The inductive invariant holds of every behaviour of the engine.         *)
THEOREM Invariance == Spec => []IInv
<1>1. Init => IInv
  BY InitIInv
<1>2. IInv /\ [Next]_vars => IInv'
  BY StepIInv
<1> QED BY <1>1, <1>2, PTL DEF Spec

(* Type correctness: in particular input_length never becomes negative and *)
(* no request gets a second final message.                                 *)
THEOREM TypeCorrect == Spec => []TypeOK
<1>1. IInv => TypeOK
  BY DEF IInv
<1> QED BY <1>1, Invariance, PTL

(* The token count of the cache, the inputs and the committed tokens of    *)
(* every request agree, whatever is chunked, replayed or preempted.        *)
THEOREM TokensAccounted == Spec => []KVMatchesTokens
<1>1. IInv => KVMatchesTokens
  BY DEF IInv
<1> QED BY <1>1, Invariance, PTL

(* Queues, statuses and cache sequences agree: nothing leaks, nothing is   *)
(* queued twice, no live request is lost.                                  *)
THEOREM QueuesAgree == Spec => []QueueStatus
<1>1. IInv => QueueStatus
  BY DEF IInv
<1> QED BY <1>1, Invariance, PTL

(* Every generated token is streamed once, in order and in its Step.       *)
THEOREM StreamsExactly == Spec => []StreamExact
<1>1. IInv => StreamExact
  BY DEF IInv
<1> QED BY <1>1, Invariance, PTL

(* A request leaves the engine with one final message, and not before.     *)
THEOREM OneFinalMessage == Spec => []ExactlyOneFinal
<1>1. IInv => ExactlyOneFinal
  BY DEF IInv
<1> QED BY <1>1, Invariance, PTL

(* A request with max_tokens is streamed at most that many tokens.         *)
THEOREM StreamsWithinBudget == Spec => []StreamBudget
<1>1. IInv => StreamBudget
  <2> SUFFICES ASSUME IInv, NEW r \in Request, MaxTokens[r] # NoLimit
               PROVE  Len(streamed[r]) <= MaxTokens[r]
    BY DEF StreamBudget
  <2>1. /\ committed_tokens[r] \in Nat /\ DecodeTokenIds[r] \in Nat
        /\ MaxTokens[r] \in Nat
    BY Types DEF IInv
  <2>2. /\ max_tokens[r] = MaxTokens[r] + IF committed_tokens[r] = 0 THEN 0 ELSE DecodeTokenIds[r]
        /\ committed_tokens[r] <= max_tokens[r]
    BY DEF IInv, Budget
  <2>3. Len(streamed[r]) = IF committed_tokens[r] = 0 THEN 0
                           ELSE committed_tokens[r] - DecodeTokenIds[r]
    BY DEF IInv, StreamExact
  <2> QED BY <2>1, <2>2, <2>3
<1> QED BY <1>1, Invariance, PTL

-----------------------------------------------------------------------------
(* The engine implements RequestStream.                                    *)

(* What a step may do to a request: it is admitted or refused once, leaves *)
(* once, and is streamed something only in between.                        *)
StepOf(r) ==
  /\ status[r] = "new" => Len(streamed'[r]) = 0
  /\ status[r] \in {"pending", "alive"} => status'[r] # "new" /\ Len(streamed[r]) <= Len(streamed'[r])
  /\ status[r] = "gone" => status'[r] = "gone" /\ streamed'[r] = streamed[r]

(* A stream is determined by its length, and a longer one continues a      *)
(* shorter one (StreamExact).                                              *)
LEMMA StreamOfLength ==
  ASSUME IInv, IInv', NEW r \in Request, Len(streamed[r]) <= Len(streamed'[r])
  PROVE  /\ Stream!IsPrefix(streamed[r], streamed'[r])
         /\ Len(streamed[r]) = Len(streamed'[r]) => streamed'[r] = streamed[r]
<1> DEFINE s == streamed[r]
           t == streamed'[r]
<1>1. s \in Seq(Nat) /\ t \in Seq(Nat)
  BY DEF IInv, TypeOK
<1>2. /\ \A i \in DOMAIN s : s[i] = DecodeTokenIds[r] + i
      /\ \A i \in DOMAIN t : t[i] = DecodeTokenIds[r] + i
  BY DEF IInv, StreamExact
<1>3. \A i \in 1..Len(s) : i \in DOMAIN s /\ i \in DOMAIN t
  BY <1>1
<1>4. \A i \in 1..Len(s) : s[i] = t[i]
  BY <1>2, <1>3
<1>5. Len(s) <= Len(t)
  OBVIOUS
<1> HIDE DEF s, t
<1>6. SubSeq(s, 1, Len(s)) = SubSeq(t, 1, Len(s))
  BY <1>1, <1>4, <1>5
<1>7. ASSUME Len(s) = Len(t) PROVE t = s
  <2>1. /\ s = [i \in 1..Len(s) |-> s[i]]
        /\ t = [i \in 1..Len(t) |-> t[i]]
    BY <1>1
  <2> QED BY <1>4, <1>7, <2>1
<1> QED BY <1>5, <1>6, <1>7 DEF Stream!IsPrefix, s, t

(* A request that was not submitted has been streamed nothing.             *)
LEMMA NothingStreamed ==
  ASSUME IInv, NEW r \in Request, committed_tokens[r] = 0
  PROVE  Len(streamed[r]) = 0 /\ streamed[r] = <<>>
<1>1. Len(streamed[r]) = 0
  BY DEF IInv, StreamExact
<1>2. streamed[r] \in Seq(Nat)
  BY DEF IInv, TypeOK
<1> QED BY <1>1, <1>2

(* A step with these effects is a step of RequestStream.                   *)
LEMMA StreamStepOf ==
  ASSUME IInv, IInv', NEW r \in Request, StepOf(r)
  PROVE  Stream!Idle(r) \/ Stream!Accept(r) \/ Stream!Refuse(r) \/ Stream!Stream(r) \/ Stream!Finish(r)
<1>1. /\ status[r] \in {"new", "pending", "alive", "gone"}
      /\ status'[r] \in {"new", "pending", "alive", "gone"}
  BY DEF IInv, TypeOK
<1>2. /\ r \in Pending \cup Alive <=> status[r] \in {"pending", "alive"}
      /\ r \in Pending' \cup Alive' <=> status'[r] \in {"pending", "alive"}
  BY DEF Pending, Alive
<1>3. /\ final_outputs[r] = IF status[r] = "gone" THEN 1 ELSE 0
      /\ final_outputs'[r] = IF status'[r] = "gone" THEN 1 ELSE 0
  BY DEF IInv, ExactlyOneFinal
<1>4. CASE status[r] = "new"
  <2>1. streamed[r] = <<>>
    BY <1>4, NothingStreamed DEF IInv, Unstarted
  <2>2. streamed'[r] = <<>>
    BY <1>4 DEF StepOf, IInv, TypeOK
  <2> QED BY <1>1, <1>2, <1>3, <1>4, <2>1, <2>2 DEF Stream!Idle, Stream!Accept, Stream!Refuse
<1>5. CASE status[r] \in {"pending", "alive"}
  <2>1. Len(streamed[r]) <= Len(streamed'[r]) /\ status'[r] # "new"
    BY <1>5 DEF StepOf
  <2>2. Stream!IsPrefix(streamed[r], streamed'[r])
    BY <2>1, StreamOfLength
  <2>3. CASE status'[r] = "gone"
    BY <1>2, <1>3, <1>5, <2>2, <2>3 DEF Stream!Finish
  <2>4. CASE status'[r] # "gone" /\ streamed'[r] = streamed[r]
    BY <1>1, <1>2, <1>3, <1>5, <2>1, <2>4 DEF Stream!Idle
  <2>5. CASE status'[r] # "gone" /\ streamed'[r] # streamed[r]
    BY <1>1, <1>2, <1>3, <1>5, <2>1, <2>2, <2>5 DEF Stream!Stream, Stream!IsStrictPrefix
  <2> QED BY <2>3, <2>4, <2>5
<1>6. CASE status[r] = "gone"
  BY <1>2, <1>3, <1>6 DEF StepOf, Stream!Idle
<1> QED BY <1>1, <1>4, <1>5, <1>6

-----------------------------------------------------------------------------
(* The actions.                                                            *)

(* A step that leaves the history and keeps a request from being forgotten *)
(* or revived.                                                             *)
LEMMA QuietStep ==
  ASSUME IInv, NEW r \in Request, streamed'[r] = streamed[r],
         status[r] = "gone" => status'[r] = "gone",
         status[r] \in {"pending", "alive"} => status'[r] # "new"
  PROVE  StepOf(r)
<1>1. streamed[r] \in Seq(Nat)
  BY DEF IInv, TypeOK
<1>2. status[r] = "new" => Len(streamed[r]) = 0
  BY NothingStreamed DEF IInv, Unstarted
<1> QED BY <1>1, <1>2 DEF StepOf

LEMMA AddRequestStreams ==
  ASSUME IInv, NEW q \in Request, AddRequest(q), NEW r \in Request
  PROVE  StepOf(r)
<1>1. /\ status[q] = "new"
      /\ streamed' = streamed
      /\ status' = [status EXCEPT ![q] = status'[q]]
      /\ status'[q] \in {"gone", "pending"}
  <2>1. status \in [Request -> {"new", "pending", "alive", "gone"}]
    BY DEF IInv, TypeOK
  <2> QED BY <2>1 DEF AddRequest
<1> QED BY <1>1, QuietStep DEF IInv, TypeOK

LEMMA AbortStreams ==
  ASSUME IInv, NEW S, Abort(S), NEW r \in Request
  PROVE  StepOf(r)
<1>1. /\ streamed' = streamed
      /\ status'[r] = IF r \in S THEN "gone" ELSE status[r]
  BY DEF Abort
<1> QED BY <1>1, QuietStep

(* An injection makes a waiting request alive.                             *)
LEMMA PDExternalKVPrefillStreams ==
  ASSUME IInv, PDExternalKVPrefill, NEW r \in Request
  PROVE  StepOf(r)
<1>1. CASE UNCHANGED <<queues, status, progress, outputs, stamp, injected>>
  BY <1>1, QuietStep DEF outputs
<1>2. CASE waiting_queue # <<>> /\ InjectAndSeedDecode(Head(waiting_queue))
  <2>1. /\ streamed' = streamed
        /\ status' = [status EXCEPT ![Head(waiting_queue)] = "alive"]
    BY <1>2 DEF InjectAndSeedDecode
  <2>2. Head(waiting_queue) \in Elements(waiting_queue)
    BY <1>2 DEF Elements, IInv, TypeOK
  <2>3. status[Head(waiting_queue)] # "gone"
    BY <2>2 DEF IInv, QueueStatus, Pending, Alive
  <2> QED BY <2>1, <2>3, QuietStep DEF IInv, TypeOK
<1> QED BY <1>1, <1>2 DEF PDExternalKVPrefill, Fail

(* What a batch does: its requests are running ones or candidates, which   *)
(* are live, and each is streamed the tokens it sampled.                   *)
LEMMA PostProcessStreams ==
  ASSUME IInv, NEW sampled, NEW running, NEW len, NEW st,
         ActionStepPostProcess(sampled, running, len, st), CommitToken(sampled),
         sampled \subseteq Live, NEW r \in Request,
         st[r] = status[r] \/ (status[r] \in {"pending", "alive"} /\ st[r] \in {"pending", "alive"})
  PROVE  StepOf(r)
<1>1. PICK finished \in SUBSET sampled :
        /\ streamed' = [q \in Request |->
                         IF q \in sampled THEN streamed[q] \o NewTokens(q) ELSE streamed[q]]
        /\ status' = [q \in Request |-> IF q \in finished THEN "gone" ELSE st[q]]
  BY DEF ActionStepPostProcess
<1>2. r \in sampled => status[r] \in {"pending", "alive"}
  BY DEF Live, Pending, Alive
<1>3. CASE r \notin sampled
  BY <1>1, <1>2, <1>3, QuietStep
<1>4. CASE r \in sampled
  <2>1. status'[r] # "new"
    BY <1>1, <1>2, <1>4
  <2>2. Len(streamed[r]) <= Len(streamed'[r])
    <3>1. NewTokens(r) \in Seq(Nat)
      <4>1. next_callback_token_pos[r] \in Nat /\ committed_tokens'[r] \in Nat
        BY Types DEF IInv, CommitToken
      <4> QED BY <4>1 DEF NewTokens
    <3>2. streamed[r] \in Seq(Nat)
      BY DEF IInv, TypeOK
    <3>3. Len(streamed[r] \o NewTokens(r)) = Len(streamed[r]) + Len(NewTokens(r))
      BY <3>1, <3>2
    <3>4. streamed'[r] = streamed[r] \o NewTokens(r)
      BY <1>1, <1>4
    <3>5. Len(NewTokens(r)) \in Nat /\ Len(streamed[r]) \in Nat
      BY <3>1, <3>2
    <3> QED BY <3>3, <3>4, <3>5
  <2> QED BY <1>2, <1>4, <2>1, <2>2 DEF StepOf
<1> QED BY <1>3, <1>4

(* The running and the waiting requests are live.                          *)
LEMMA QueuedAreLive ==
  ASSUME IInv
  PROVE  /\ Elements(waiting_queue) \subseteq Live
         /\ Elements(running_queue) \subseteq Live
         /\ \A r \in Live : status[r] \in {"pending", "alive"}
BY DEF IInv, QueueStatus, Live, Pending, Alive

LEMMA PrefillStreams ==
  ASSUME IInv, NEW whole \in 0..Len(Candidates), NEW chunk \in Nat,
         chunk > 0 => whole < Len(Candidates), Prefill(whole, chunk), NEW r \in Request
  PROVE  StepOf(r)
<1> DEFINE entire  == FirstCandidates(whole)
           n       == whole + IF chunk > 0 THEN 1 ELSE 0
           chosen  == SubSeq(Candidates, 1, n)
           decoded == HybridDecodes
           sampled == entire \cup decoded
           take(q) == IF q \in entire THEN input_length[q]
                      ELSE IF q \in Elements(chosen) THEN chunk ELSE 0
           add     == [q \in Request |->
                        take(q) + IF q \in decoded THEN num_tokens_for_next_decode[q] ELSE 0]
           len     == Appended(seq_length, add)
           running == running_queue \o Keep(chosen, Pending)
           st      == [q \in Request |-> IF q \in Elements(chosen) THEN "alive" ELSE status[q]]
<1>1. CASE Fail("KVCacheFull")
  BY <1>1, QuietStep DEF Fail, outputs
<1>2. CASE ~Fail("KVCacheFull")
  <2>1. CommitToken(sampled) /\ ActionStepPostProcess(sampled, running, len, st)
    BY <1>2 DEF Prefill
  <2>2. /\ Candidates \in Seq(Request) /\ DOMAIN Candidates = 1..Len(Candidates)
        /\ Len(Candidates) \in Nat
        /\ Elements(Candidates) \subseteq Elements(waiting_queue)
    BY CandidatesProperties
  <2>3. n \in 0..Len(Candidates)
    BY <2>2
  <2> HIDE DEF n
  <2>4. Elements(chosen) \subseteq Elements(Candidates)
    <3>1. DOMAIN chosen = 1..n /\ \A i \in 1..n : chosen[i] = Candidates[i] /\ i \in DOMAIN Candidates
      BY <2>2, <2>3
    <3> QED BY <3>1 DEF Elements
  <2>5. entire \subseteq Elements(Candidates)
    BY <2>2 DEF FirstCandidates, Elements
  <2>6. decoded \subseteq Elements(running_queue)
    BY DEF HybridDecodes, RunningRequestStateEntries
  <2>7. sampled \subseteq Live
    BY <2>2, <2>5, <2>6, QueuedAreLive
  <2>8. st[r] = status[r] \/ (status[r] \in {"pending", "alive"} /\ st[r] \in {"pending", "alive"})
    <3>1. r \in Elements(chosen) => status[r] \in {"pending", "alive"}
      BY <2>2, <2>4, QueuedAreLive
    <3>2. st[r] = IF r \in Elements(chosen) THEN "alive" ELSE status[r]
      OBVIOUS
    <3> QED BY <3>1, <3>2
  <2> HIDE DEF sampled, running, len, st
  <2> QED BY <2>1, <2>7, <2>8, PostProcessStreams
<1> QED BY <1>1, <1>2

LEMMA NewRequestPrefillStreams ==
  ASSUME IInv, NewRequestPrefill, NEW r \in Request
  PROVE  StepOf(r)
<1>1. CASE NothingToPrefill \/ Fail("ChunkCheckFailed")
  BY <1>1, QuietStep DEF NothingToPrefill, Fail, outputs
<1>2. ASSUME NEW whole \in 0..Len(Candidates), Prefill(whole, 0) PROVE StepOf(r)
  BY <1>2, PrefillStreams
<1>3. ASSUME NEW whole \in 0..Len(Candidates), whole < Len(Candidates), Attempt2(whole),
             Prefill(whole, RemainingChunk(whole))
      PROVE  StepOf(r)
  <2> DEFINE chunk == RemainingChunk(whole)
             rest == input_length[Candidates[whole + 1]]
  <2>1. chunk \in 1..(rest - 1)
    BY <1>3 DEF Attempt2
  <2>2. Prefill(whole, chunk)
    BY <1>3
  <2> HIDE DEF chunk, rest
  <2>3. chunk \in Nat
    BY <2>1
  <2> QED BY <1>3, <2>2, <2>3, PrefillStreams
<1>4. \/ NothingToPrefill
      \/ \E whole \in 0..Len(Candidates) :
           IF whole < Len(Candidates) /\ TotalInputLength(whole) > prefill_chunk_size
           THEN Fail("ChunkCheckFailed")
           ELSE IF whole < Len(Candidates) /\ Attempt2(whole)
           THEN Prefill(whole, RemainingChunk(whole))
           ELSE IF whole > 0
           THEN Prefill(whole, 0)
           ELSE NothingToPrefill
  BY Zenon DEF NewRequestPrefill
<1> QED BY <1>1, <1>2, <1>3, <1>4

(* A preempted request is live again, and keeps what it was streamed.      *)
LEMMA BatchDecodeStreams ==
  ASSUME IInv, BatchDecode, NEW r \in Request
  PROVE  StepOf(r)
<1>1. PICK m \in 0..Len(running_queue) : PreemptAndDecode(m)
  BY Zenon DEF BatchDecode
<1> DEFINE preempted == Elements(LastRunning(m))
           running   == SubSeq(running_queue, 1, Len(running_queue) - m)
           decoded   == RunningRequestStateEntries \ preempted
           st   == [q \in Request |-> IF q \in preempted THEN "pending" ELSE status[q]]
           kept == [q \in Request |-> IF q \in preempted THEN NoSeq ELSE seq_length[q]]
           len  == Appended(kept, [q \in Request |->
                     IF q \in decoded THEN num_tokens_for_next_decode[q] ELSE 0])
<1>2. CASE Fail("KVCacheFull")
  BY <1>2, QuietStep DEF Fail, outputs
<1>3. CASE ~Fail("KVCacheFull")
  <2>1. /\ CommitToken(decoded)
        /\ IF decoded # {}
           THEN ActionStepPostProcess(decoded, running, len, st)
           ELSE status' = st /\ UNCHANGED outputs
    BY <1>1, <1>3 DEF PreemptAndDecode
  <2>2. preempted \subseteq Elements(running_queue)
    <3>1. running_queue \in Seq(Request) /\ Len(running_queue) \in Nat
      BY DEF IInv, TypeOK
    <3>2. \A i \in DOMAIN LastRunning(m) :
            /\ LastRunning(m)[i] = running_queue[Len(running_queue) - m + i]
            /\ Len(running_queue) - m + i \in DOMAIN running_queue
      BY <3>1 DEF LastRunning
    <3> QED BY <3>2 DEF Elements
  <2>3. decoded \subseteq Elements(running_queue)
    BY DEF RunningRequestStateEntries
  <2>4. st[r] = status[r] \/ (status[r] \in {"pending", "alive"} /\ st[r] \in {"pending", "alive"})
    <3>1. r \in preempted => status[r] \in {"pending", "alive"}
      BY <2>2, QueuedAreLive
    <3>2. st[r] = IF r \in preempted THEN "pending" ELSE status[r]
      OBVIOUS
    <3> QED BY <3>1, <3>2
  <2>5. decoded \subseteq Live
    BY <2>3, QueuedAreLive
  <2>6. CASE decoded = {}
    <3>1. status'[r] = st[r] /\ streamed' = streamed
      BY <2>1, <2>6 DEF outputs
    <3> HIDE DEF st
    <3> QED BY <2>4, <3>1, QuietStep
  <2> HIDE DEF decoded, running, len, st
  <2>7. CASE decoded # {}
    BY <2>1, <2>4, <2>5, <2>7, PostProcessStreams
  <2> QED BY <2>6, <2>7
<1> QED BY <1>2, <1>3

-----------------------------------------------------------------------------
(* Every step of the engine is, for each request, a step of RequestStream. *)
LEMMA StepStreams ==
  ASSUME IInv, [Next]_vars, NEW r \in Request
  PROVE  StepOf(r)
<1>1. CASE UNCHANGED vars
  BY <1>1, QuietStep DEF vars, outputs
<1>2. ASSUME NEW q \in Request, AddRequest(q) PROVE StepOf(r)
  BY <1>2, AddRequestStreams
<1>3. ASSUME NEW q \in Request, AbortRequest(q) PROVE StepOf(r)
  BY <1>3, AbortStreams DEF AbortRequest
<1>4. CASE Reset
  BY <1>4, AbortStreams DEF Reset
<1>5. CASE PDExternalKVPrefill
  BY <1>5, PDExternalKVPrefillStreams
<1>6. CASE NewRequestPrefill
  BY <1>6, NewRequestPrefillStreams
<1>7. CASE BatchDecode
  BY <1>7, BatchDecodeStreams
<1> QED BY <1>1, <1>2, <1>3, <1>4, <1>5, <1>6, <1>7 DEF Next, EngineStep

(* The engine implements RequestStream for its clients: its initial states *)
(* are initial there, and each of its steps is a step or a stutter there.  *)
THEOREM ImplementsStream == Spec => ServesStream
<1>1. Init => Stream!Init
  BY DEF Init, Stream!Init, Pending, Alive
<1>2. IInv /\ IInv' /\ [Next]_vars => [Stream!Next]_<<Pending \cup Alive, streamed, final_outputs>>
  BY StepStreams, StreamStepOf DEF Stream!Next
<1> QED BY <1>1, <1>2, Invariance, PTL DEF Spec, ServesStream, Stream!Spec

-----------------------------------------------------------------------------
(* Requests are served in the order of their admission and no more run     *)
(* than the model has slots for.  Both need more than IInv: the order of   *)
(* both queues and the place of the one request that is prefilled in part  *)
(* (Ordered).                                                              *)

(* What NewRequestPrefill can do: nothing, fail, or prefill candidates     *)
(* that one of the two attempts admitted.                                  *)
Admits(whole, chunk) ==
  /\ whole \in 0..Len(Candidates)
  /\ chunk \in Nat
  /\ chunk = 0 => whole > 0 /\ Attempt1(whole)
  /\ chunk > 0 => /\ whole < Len(Candidates)
                  /\ chunk = RemainingChunk(whole)
                  /\ chunk < input_length[Candidates[whole + 1]]
                  /\ Attempt2(whole)

Idle == UNCHANGED <<queues, status, progress, outputs, stamp, injected>>

LEMMA PrefillCases ==
  ASSUME IInv, NewRequestPrefill
  PROVE  \/ Idle /\ pc' \in {"decode", "ChunkCheckFailed"}
         \/ \E whole, chunk : Admits(whole, chunk) /\ Prefill(whole, chunk)
<1>1. CASE NothingToPrefill \/ Fail("ChunkCheckFailed")
  BY <1>1 DEF NothingToPrefill, Fail, Idle
<1>2. ASSUME NEW whole \in 0..Len(Candidates), whole < Len(Candidates),
             Attempt2(whole), Prefill(whole, RemainingChunk(whole))
      PROVE  \E w, c : Admits(w, c) /\ Prefill(w, c)
  <2> DEFINE chunk == RemainingChunk(whole)
             rest == input_length[Candidates[whole + 1]]
  <2>1. chunk \in 1..(rest - 1)
    BY <1>2 DEF Attempt2
  <2>2. rest \in Nat
    <3>1. /\ Candidates \in Seq(Request) /\ Len(Candidates) \in Nat
          /\ DOMAIN Candidates = 1..Len(Candidates)
      BY CandidatesProperties
    <3>2. whole + 1 \in DOMAIN Candidates
      BY <1>2, <3>1
    <3> QED BY <3>1, <3>2, Types DEF IInv
  <2>3. chunk \in Nat /\ chunk > 0 /\ chunk < rest
    <3> HIDE DEF chunk, rest
    <3> QED BY <2>1, <2>2
  <2>4. Admits(whole, chunk)
    <3>1. chunk # 0
      <4> HIDE DEF chunk
      <4> QED BY <2>3
    <3> QED BY <1>2, <2>3, <3>1 DEF Admits
  <2> QED BY <1>2, <2>4
<1>3. ASSUME NEW whole \in 0..Len(Candidates), whole > 0, Attempt1(whole), Prefill(whole, 0)
      PROVE  \E w, c : Admits(w, c) /\ Prefill(w, c)
  <2>1. Admits(whole, 0)
    BY <1>3 DEF Admits
  <2> QED BY <1>3, <2>1
<1>4. CASE \E whole \in 0..Len(Candidates) :
             /\ \A k \in 1..whole : Attempt1(k)
             /\ IF whole < Len(Candidates) /\ TotalInputLength(whole) > prefill_chunk_size
                THEN Fail("ChunkCheckFailed")
                ELSE IF whole < Len(Candidates) /\ Attempt2(whole)
                THEN Prefill(whole, RemainingChunk(whole))
                ELSE IF whole > 0
                THEN Prefill(whole, 0)
                ELSE NothingToPrefill
  <2>1. PICK whole \in 0..Len(Candidates) :
             /\ \A k \in 1..whole : Attempt1(k)
             /\ \/ Fail("ChunkCheckFailed")
                \/ whole < Len(Candidates) /\ Attempt2(whole) /\ Prefill(whole, RemainingChunk(whole))
                \/ whole > 0 /\ Prefill(whole, 0)
                \/ NothingToPrefill
    BY <1>4, Zenon
  <2>2. whole > 0 => Attempt1(whole)
    <3>1. Len(Candidates) \in Nat
      BY CandidatesProperties
    <3>2. whole > 0 => whole \in 1..whole
      BY <3>1
    <3> QED BY <2>1, <3>2, Zenon
  <2> QED BY <1>1, <1>2, <1>3, <2>1, <2>2
<1> QED BY <1>1, <1>4, Zenon DEF NewRequestPrefill

(* The candidates chosen are a nonempty prefix of the waiting queue; those *)
(* prefilled entirely come first.                                          *)
Chosen(whole, chunk) == SubSeq(Candidates, 1, whole + IF chunk > 0 THEN 1 ELSE 0)

LEMMA ChosenPrefix ==
  ASSUME IInv, NEW whole, NEW chunk, Admits(whole, chunk)
  PROVE  LET n == whole + IF chunk > 0 THEN 1 ELSE 0
         IN  /\ n \in 1..Len(waiting_queue) /\ n \in 1..Len(Candidates)
             /\ Chosen(whole, chunk) = SubSeq(waiting_queue, 1, n)
             /\ Elements(Chosen(whole, chunk)) = {waiting_queue[i] : i \in 1..n}
             /\ Elements(Chosen(whole, chunk)) = FirstCandidates(n)
             /\ FirstCandidates(whole) = {waiting_queue[i] : i \in 1..whole}
             /\ Elements(Chosen(whole, chunk)) \subseteq Elements(waiting_queue)
             /\ Elements(Chosen(whole, chunk)) \cap ExternalKV = {}
             /\ chunk = 0 => n = whole
             /\ chunk > 0 => n = whole + 1 /\ waiting_queue[n] = Candidates[n]
<1> DEFINE w == waiting_queue
           n == whole + IF chunk > 0 THEN 1 ELSE 0
           c == Candidates
<1>1. PICK l \in 0..Len(w) : c = SubSeq(w, 1, l)
  BY CandidatesPrefix
<1>2. w \in Seq(Request) /\ Len(w) \in Nat /\ DOMAIN w = 1..Len(w)
  BY DEF IInv, TypeOK
<1>3. l \in Nat /\ l <= Len(w)
  BY <1>2
<1>4. Len(c) = l /\ c \in Seq(Request) /\ DOMAIN c = 1..l /\ \A i \in 1..l : c[i] = w[i]
  BY <1>1, <1>2, <1>3
<1>5. /\ whole \in 0..l /\ n \in 1..l /\ chunk \in Nat
      /\ chunk = 0 => n = whole
      /\ chunk > 0 => n = whole + 1
  BY <1>3, <1>4 DEF Admits
<1> HIDE DEF n, w, c
<1>6. /\ SubSeq(c, 1, n) \in Seq(Request)
      /\ Len(SubSeq(c, 1, n)) = n
      /\ DOMAIN SubSeq(c, 1, n) = 1..n
      /\ \A i \in 1..n : SubSeq(c, 1, n)[i] = c[i]
  BY <1>3, <1>4, <1>5
<1>7. /\ SubSeq(w, 1, n) \in Seq(Request)
      /\ Len(SubSeq(w, 1, n)) = n
      /\ DOMAIN SubSeq(w, 1, n) = 1..n
      /\ \A i \in 1..n : SubSeq(w, 1, n)[i] = w[i]
  BY <1>2, <1>3, <1>5
<1>8. \A i \in 1..n : i \in 1..l /\ c[i] = w[i] /\ i \in 1..Len(w)
  BY <1>3, <1>4, <1>5
<1>9. SubSeq(c, 1, n) = SubSeq(w, 1, n)
  BY <1>6, <1>7, <1>8
<1>10. \A i \in 1..whole : i \in 1..n
  BY <1>3, <1>5
<1>11. Chosen(whole, chunk) = SubSeq(c, 1, n)
  BY DEF Chosen, n, c
<1>12. /\ Elements(SubSeq(c, 1, n)) = {w[i] : i \in 1..n}
       /\ Elements(SubSeq(c, 1, n)) = {c[i] : i \in 1..n}
  BY <1>6, <1>8 DEF Elements
<1>13. {c[i] : i \in 1..whole} = {w[i] : i \in 1..whole}
  BY <1>8, <1>10
<1>14. {w[i] : i \in 1..n} \subseteq Elements(w)
  BY <1>2, <1>8 DEF Elements
<1>15. {c[i] : i \in 1..n} \cap ExternalKV = {}
  <2>1. Elements(c) \cap ExternalKV = {}
    BY CandidatesPrefix DEF c
  <2>2. {c[i] : i \in 1..n} \subseteq Elements(c)
    BY <1>4, <1>8 DEF Elements
  <2> QED BY <2>1, <2>2
<1>16. n \in 1..Len(w) /\ n \in 1..Len(c) /\ (chunk > 0 => w[n] = c[n])
  BY <1>3, <1>4, <1>5, <1>8
<1> QED BY <1>5, <1>9, <1>11, <1>12, <1>13, <1>14, <1>15, <1>16 DEF FirstCandidates, n, w, c

(* What a prefill that succeeds leaves, request by request.                *)
PrefillResult(whole, chunk, finished) ==
  LET chosen  == Elements(Chosen(whole, chunk))
      entire  == FirstCandidates(whole)
      decoded == HybridDecodes
  IN
  /\ finished \subseteq entire \cup decoded
  /\ running_queue' = Without(running_queue \o Keep(Chosen(whole, chunk), Pending), finished)
  /\ waiting_queue' = Without(waiting_queue, entire)
  /\ pc' = "client" /\ injected' = {} /\ stamp' = stamp
  /\ \A r \in Request :
       /\ status'[r] = IF r \in finished THEN "gone"
                       ELSE IF r \in chosen THEN "alive" ELSE status[r]
       /\ r \in entire => /\ input_length'[r] = 0
                          /\ num_tokens_for_next_decode'[r] = num_tokens_for_next_decode[r] + 1
       /\ r \in chosen \ entire =>
            /\ input_length'[r] > 0 /\ r = Candidates[whole + 1]
            /\ num_tokens_for_next_decode'[r] = num_tokens_for_next_decode[r]
       /\ r \in decoded => /\ num_tokens_for_next_decode'[r] = 1
                           /\ r \notin finished =>
                                seq_length'[r] = seq_length[r] + num_tokens_for_next_decode[r]
       /\ r \notin chosen => input_length'[r] = input_length[r]
       /\ r \notin chosen \cup decoded =>
            /\ num_tokens_for_next_decode'[r] = num_tokens_for_next_decode[r]
            /\ seq_length'[r] = seq_length[r]
       /\ committed_tokens'[r] = committed_tokens[r] + IF r \in entire \cup decoded THEN 1 ELSE 0
       /\ r \in entire \cup decoded /\ r \notin finished =>
            PromptTokens[r] + committed_tokens'[r] < max_single_sequence_length

(* Who is chosen, who decodes: waiting or running requests, never both.    *)
LEMMA PrefillSets ==
  ASSUME IInv, NEW whole, NEW chunk, Admits(whole, chunk)
  PROVE  LET chosen  == Elements(Chosen(whole, chunk))
             entire  == FirstCandidates(whole)
         IN  /\ entire \subseteq chosen
             /\ chosen \subseteq Request
             /\ HybridDecodes \subseteq RunningRequestStateEntries
             /\ RunningRequestStateEntries \subseteq Alive
             /\ \A r \in chosen : /\ status[r] \in {"pending", "alive"}
                                  /\ input_length[r] > 0
                                  /\ r \notin HybridDecodes
                                  /\ r \notin ExternalKV
             /\ \A r \in chosen : r \notin entire =>
                  chunk > 0 /\ chunk < input_length[r] /\ r = Candidates[whole + 1]
<1> DEFINE w == waiting_queue
           n == whole + IF chunk > 0 THEN 1 ELSE 0
           chosen == Elements(Chosen(whole, chunk))
           entire == FirstCandidates(whole)
<1>1. /\ n \in 1..Len(w)
      /\ chosen = {w[i] : i \in 1..n}
      /\ entire = {w[i] : i \in 1..whole}
      /\ chosen \subseteq Elements(w) /\ chosen \cap ExternalKV = {}
      /\ chunk = 0 => n = whole
      /\ chunk > 0 => n = whole + 1 /\ w[n] = Candidates[n]
  BY ChosenPrefix
<1>2. w \in Seq(Request) /\ Elements(w) \subseteq Request /\ Elements(running_queue) = Alive
  BY ElementsType DEF IInv, TypeOK, QueueStatus
<1>3. /\ whole \in Nat /\ chunk \in Nat
      /\ chunk > 0 => chunk < input_length[Candidates[whole + 1]]
  <2>1. Len(Candidates) \in Nat
    BY CandidatesProperties
  <2> QED BY <2>1 DEF Admits
<1> HIDE DEF n
<1>4. entire \subseteq chosen
  <2>1. \A i \in 1..whole : i \in 1..n
    BY <1>1, <1>3
  <2> QED BY <1>1, <2>1
<1>5. HybridDecodes \subseteq RunningRequestStateEntries /\ RunningRequestStateEntries \subseteq Alive
  BY <1>2 DEF HybridDecodes, RunningRequestStateEntries
<1>6. ASSUME NEW r \in chosen PROVE status[r] \in {"pending", "alive"} /\ input_length[r] > 0
  <2>1. r \in Request /\ r \in Elements(w)
    BY <1>1, <1>2
  <2>2. PromptTokens[r] \in Nat \ {0} /\ committed_tokens[r] \in Nat
    BY <2>1, Types DEF IInv
  <2> QED BY <2>1, <2>2, Requests
<1>7. ASSUME NEW r \in chosen, r \notin entire
      PROVE  chunk > 0 /\ chunk < input_length[r] /\ r = Candidates[whole + 1]
  <2>1. PICK i \in 1..n : r = w[i]
    BY <1>1
  <2>2. i \notin 1..whole
    BY <1>1, <1>7, <2>1
  <2>3. chunk > 0 /\ i = n /\ n = whole + 1
    BY <1>1, <1>3, <2>1, <2>2
  <2> QED BY <1>1, <1>3, <2>1, <2>3
<1>8. \A r \in RunningRequestStateEntries : input_length[r] = 0
  BY DEF RunningRequestStateEntries
<1>9. chosen \subseteq Request
  BY <1>1, <1>2
<1>10. \A r \in chosen : r \notin HybridDecodes /\ r \notin ExternalKV
  BY <1>1, <1>5, <1>6, <1>8
<1> QED BY <1>4, <1>5, <1>6, <1>7, <1>9, <1>10

LEMMA PrefillEffect ==
  ASSUME IInv, NEW whole, NEW chunk, Admits(whole, chunk), Prefill(whole, chunk)
  PROVE  \/ Idle /\ pc' = "KVCacheFull"
         \/ \E finished : PrefillResult(whole, chunk, finished)
<1> DEFINE entire  == FirstCandidates(whole)
           chosen  == Elements(Chosen(whole, chunk))
           decoded == HybridDecodes
           sampled == entire \cup decoded
           take(r) == IF r \in entire THEN input_length[r]
                      ELSE IF r \in chosen THEN chunk ELSE 0
           add     == [r \in Request |->
                        take(r) + IF r \in decoded THEN num_tokens_for_next_decode[r] ELSE 0]
           len     == Appended(seq_length, add)
           running == running_queue \o Keep(Chosen(whole, chunk), Pending)
           st      == [r \in Request |-> IF r \in chosen THEN "alive" ELSE status[r]]
<1>1. CASE Fail("KVCacheFull")
  BY <1>1 DEF Fail, Idle
<1>2. CASE ~Fail("KVCacheFull")
  <2>1. /\ input_length' = [r \in Request |-> input_length[r] - take(r)]
        /\ num_tokens_for_next_decode' =
             [r \in Request |-> IF r \in decoded THEN 1
                                ELSE num_tokens_for_next_decode[r] + IF r \in entire THEN 1 ELSE 0]
        /\ CommitToken(sampled)
        /\ waiting_queue' = Without(waiting_queue, entire)
        /\ ActionStepPostProcess(sampled, running, len, st)
    BY <1>2 DEF Prefill, Chosen
  <2>2. PICK finished \in SUBSET sampled :
          /\ \A r \in sampled : Exhausted(r) => r \in finished
          /\ running_queue' = Without(running, finished)
          /\ seq_length' = [r \in Request |-> IF r \in finished THEN NoSeq ELSE len[r]]
          /\ status' = [r \in Request |-> IF r \in finished THEN "gone" ELSE st[r]]
          /\ pc' = "client" /\ injected' = {} /\ stamp' = stamp
    BY <2>1, Zenon DEF ActionStepPostProcess
  <2>3. /\ entire \subseteq chosen /\ chosen \subseteq Request
        /\ decoded \subseteq Alive
        /\ \A r \in chosen : r \notin decoded
        /\ \A r \in chosen : r \notin entire =>
             chunk > 0 /\ chunk < input_length[r] /\ r = Candidates[whole + 1]
    BY PrefillSets
  <2>4. chunk \in Nat
    BY DEF Admits
  <2> HIDE DEF entire, chosen, decoded
  <2>5. ASSUME NEW r \in Request
        PROVE  /\ input_length[r] \in Nat
               /\ num_tokens_for_next_decode[r] \in Nat
               /\ committed_tokens[r] \in Nat
               /\ seq_length[r] \in Nat \cup {NoSeq}
               /\ PromptTokens[r] \in Nat
               /\ r \in decoded => seq_length[r] # NoSeq /\ num_tokens_for_next_decode[r] > 0
    <3>1. r \in decoded => status[r] = "alive" /\ input_length[r] = 0
      BY <2>3 DEF Alive, decoded, HybridDecodes, RunningRequestStateEntries
    <3> QED BY <3>1, Types, Requests DEF IInv
  <2>6. ASSUME NEW r \in Request
        PROVE  /\ input_length'[r] = input_length[r] - take(r)
               /\ num_tokens_for_next_decode'[r] =
                     IF r \in decoded THEN 1
                     ELSE num_tokens_for_next_decode[r] + IF r \in entire THEN 1 ELSE 0
               /\ committed_tokens'[r] = committed_tokens[r] + IF r \in sampled THEN 1 ELSE 0
               /\ status'[r] = IF r \in finished THEN "gone"
                               ELSE IF r \in chosen THEN "alive" ELSE status[r]
               /\ seq_length'[r] = IF r \in finished THEN NoSeq ELSE len[r]
    BY <2>1, <2>2 DEF CommitToken
  <2>7. ASSUME NEW r \in Request, r \notin chosen
        PROVE  len[r] = IF r \in decoded THEN seq_length[r] + num_tokens_for_next_decode[r]
                        ELSE seq_length[r]
    <3>1. add[r] = IF r \in decoded THEN num_tokens_for_next_decode[r] ELSE 0
      BY <2>3, <2>5, <2>7
    <3>2. add[r] \in Nat
      BY <2>5, <3>1
    <3>3. len[r] = IF add[r] = 0 THEN seq_length[r]
                   ELSE IF seq_length[r] = NoSeq THEN add[r] ELSE seq_length[r] + add[r]
      BY <2>5, <3>2, AppendedValue
    <3> HIDE DEF add, len
    <3> QED BY <2>5, <3>1, <3>3
  <2>8. ASSUME NEW r \in sampled, r \notin finished
        PROVE  PromptTokens[r] + committed_tokens'[r] < max_single_sequence_length
    <3>1. r \in Request
      BY <2>3 DEF Alive
    <3>2. ~(PromptTokens[r] + committed_tokens'[r] >= max_single_sequence_length)
      BY <2>2, <2>8 DEF Exhausted
    <3>3. committed_tokens'[r] \in Nat
      <4>1. committed_tokens'[r] = committed_tokens[r] + 1
        BY <2>6, <2>8, <3>1
      <4>2. committed_tokens[r] \in Nat
        BY <2>5, <3>1
      <4> QED BY <4>1, <4>2
    <3> QED BY <2>5, <3>1, <3>2, <3>3, ConfigAssumption
  <2> HIDE DEF len
  <2>9. ASSUME NEW r \in Request
        PROVE  /\ status'[r] = IF r \in finished THEN "gone"
                               ELSE IF r \in chosen THEN "alive" ELSE status[r]
               /\ r \in entire => /\ input_length'[r] = 0
                                  /\ num_tokens_for_next_decode'[r] = num_tokens_for_next_decode[r] + 1
               /\ r \in chosen \ entire =>
                    /\ input_length'[r] > 0 /\ r = Candidates[whole + 1]
                    /\ num_tokens_for_next_decode'[r] = num_tokens_for_next_decode[r]
               /\ r \in decoded => /\ num_tokens_for_next_decode'[r] = 1
                                   /\ r \notin finished =>
                                        seq_length'[r] = seq_length[r] + num_tokens_for_next_decode[r]
               /\ r \notin chosen => input_length'[r] = input_length[r]
               /\ r \notin chosen \cup decoded =>
                    /\ num_tokens_for_next_decode'[r] = num_tokens_for_next_decode[r]
                    /\ seq_length'[r] = seq_length[r]
               /\ committed_tokens'[r] = committed_tokens[r] + IF r \in sampled THEN 1 ELSE 0
    <3>1. r \in entire => input_length'[r] = 0 /\ r \in chosen /\ r \notin decoded
      BY <2>3, <2>5, <2>6
    <3>2. r \in chosen \ entire => input_length'[r] > 0 /\ r \notin decoded
      BY <2>3, <2>4, <2>5, <2>6
    <3>3. r \notin chosen => input_length'[r] = input_length[r] /\ r \notin entire
      BY <2>3, <2>5, <2>6
    <3>4. r \in decoded => r \notin chosen /\ r \notin entire
      BY <2>3
    <3>5. num_tokens_for_next_decode[r] + 0 = num_tokens_for_next_decode[r]
      BY <2>5
    <3>6. r \notin chosen \cup decoded => r \notin finished
      BY <2>2, <3>3
    <3> HIDE DEF take
    <3> QED BY <2>3, <2>6, <2>7, <3>1, <3>2, <3>3, <3>4, <3>5, <3>6
  <2>10. PrefillResult(whole, chunk, finished)
    <3> HIDE DEF sampled, take, add, st
    <3>1. \A r \in sampled : r \notin finished =>
            PromptTokens[r] + committed_tokens'[r] < max_single_sequence_length
      BY <2>8
    <3> QED BY <2>1, <2>2, <2>9, <3>1
            DEF PrefillResult, entire, chosen, decoded, sampled
  <2> QED BY <2>10
<1> QED BY <1>1, <1>2

-----------------------------------------------------------------------------
(* What a decode that succeeds leaves, request by request.                 *)
PreemptResult(m, finished) ==
  LET preempted == Elements(LastRunning(m))
      decoded == RunningRequestStateEntries \ preempted
      running == SubSeq(running_queue, 1, Len(running_queue) - m)
  IN
  /\ finished \subseteq decoded
  /\ \/ running_queue' = Without(running, finished)
     \/ running_queue' = running /\ finished = {}
  /\ waiting_queue' = PutBack(LastRunning(m))
  /\ pc' \in {"client", "NoActionTaken"} /\ injected' = {} /\ stamp' = stamp
  /\ \A r \in Request :
       /\ status'[r] = IF r \in finished THEN "gone"
                       ELSE IF r \in preempted THEN "pending" ELSE status[r]
       /\ r \notin preempted => input_length'[r] = input_length[r]
       /\ committed_tokens'[r] = committed_tokens[r] + IF r \in decoded THEN 1 ELSE 0
       /\ r \in decoded => /\ num_tokens_for_next_decode'[r] = 1
                           /\ r \notin finished =>
                                /\ seq_length'[r] = seq_length[r] + num_tokens_for_next_decode[r]
                                /\ PromptTokens[r] + committed_tokens'[r] < max_single_sequence_length
       /\ r \notin preempted \cup decoded =>
            /\ num_tokens_for_next_decode'[r] = num_tokens_for_next_decode[r]
            /\ seq_length'[r] = seq_length[r]

(* The preempted entries are the end of the running queue.                 *)
LEMMA PreemptSets ==
  ASSUME IInv, NEW m \in 0..Len(running_queue)
  PROVE  LET n == Len(running_queue) - m
             running == SubSeq(running_queue, 1, n)
             preempted == Elements(LastRunning(m))
         IN  /\ n \in 0..Len(running_queue)
             /\ LastRunning(m) = SubSeq(running_queue, n + 1, Len(running_queue))
             /\ running \in Seq(Request) /\ LastRunning(m) \in Seq(Request)
             /\ NoRepeats(running)
             /\ preempted \cup Elements(running) = Alive
             /\ preempted \cap Elements(running) = {}
             /\ RunningRequestStateEntries = {r \in Alive : input_length[r] = 0}
<1> DEFINE n == Len(running_queue) - m
           p == SubSeq(running_queue, 1, n)
           s == SubSeq(running_queue, n + 1, Len(running_queue))
<1>1. /\ running_queue \in Seq(Request) /\ NoRepeats(running_queue)
      /\ Elements(running_queue) = Alive
  BY DEF IInv, TypeOK, QueueStatus
<1>2. n \in 0..Len(running_queue)
  <2>1. Len(running_queue) \in Nat
    BY <1>1
  <2> QED BY <2>1
<1>3. LastRunning(m) = s
  BY DEF LastRunning
<1> HIDE DEF n
<1>4. /\ p \in Seq(Request) /\ s \in Seq(Request)
      /\ Elements(running_queue) = Elements(p) \cup Elements(s)
      /\ NoRepeats(p) /\ NoRepeats(s)
      /\ Elements(p) \cap Elements(s) = {}
  BY <1>1, <1>2, SplitProperties
<1>5. RunningRequestStateEntries = {r \in Alive : input_length[r] = 0}
  BY <1>1 DEF RunningRequestStateEntries
<1> HIDE DEF p, s
<1> QED BY <1>1, <1>2, <1>3, <1>4, <1>5 DEF n, p, s

LEMMA PreemptEffect ==
  ASSUME IInv, NEW m \in 0..Len(running_queue), PreemptAndDecode(m)
  PROVE  \/ Idle /\ pc' = "KVCacheFull"
         \/ \E finished : PreemptResult(m, finished)
<1> DEFINE preempted == Elements(LastRunning(m))
           running   == SubSeq(running_queue, 1, Len(running_queue) - m)
           decoded   == RunningRequestStateEntries \ preempted
           st   == [r \in Request |-> IF r \in preempted THEN "pending" ELSE status[r]]
           kept == [r \in Request |-> IF r \in preempted THEN NoSeq ELSE seq_length[r]]
           add  == [r \in Request |-> IF r \in decoded THEN num_tokens_for_next_decode[r] ELSE 0]
           len  == Appended(kept, add)
<1>1. CASE Fail("KVCacheFull")
  BY <1>1 DEF Fail, Idle
<1>2. CASE ~Fail("KVCacheFull")
  <2>1. /\ input_length' = [r \in Request |->
                              IF r \in preempted THEN RebuiltInput(r) ELSE input_length[r]]
        /\ num_tokens_for_next_decode' =
             [r \in Request |-> IF r \in preempted THEN 0
                                ELSE IF r \in decoded THEN 1 ELSE num_tokens_for_next_decode[r]]
        /\ CommitToken(decoded)
        /\ waiting_queue' = PutBack(LastRunning(m))
        /\ IF decoded # {}
           THEN ActionStepPostProcess(decoded, running, len, st)
           ELSE /\ running_queue' = running
                /\ seq_length' = kept
                /\ status' = st
                /\ pc' = IF running = <<>> THEN "client" ELSE "NoActionTaken"
                /\ injected' = {}
                /\ UNCHANGED <<max_tokens, outputs, stamp>>
    BY <1>2 DEF PreemptAndDecode
  <2>2. /\ decoded \subseteq Alive /\ decoded \cap preempted = {}
        /\ \A r \in decoded : input_length[r] = 0
    BY PreemptSets
  <2> HIDE DEF preempted, decoded
  <2>3. ASSUME NEW r \in Request
        PROVE  /\ num_tokens_for_next_decode[r] \in Nat
               /\ committed_tokens[r] \in Nat
               /\ seq_length[r] \in Nat \cup {NoSeq}
               /\ PromptTokens[r] \in Nat
               /\ r \in decoded => seq_length[r] # NoSeq /\ num_tokens_for_next_decode[r] > 0
    <3>1. r \in decoded => status[r] = "alive" /\ input_length[r] = 0
      BY <2>2 DEF Alive
    <3> QED BY <3>1, Types, Requests DEF IInv
  <2>4. ASSUME NEW r \in Request
        PROVE  /\ r \notin preempted => input_length'[r] = input_length[r]
               /\ r \in decoded => num_tokens_for_next_decode'[r] = 1
               /\ r \notin preempted \cup decoded =>
                    num_tokens_for_next_decode'[r] = num_tokens_for_next_decode[r]
               /\ committed_tokens'[r] = committed_tokens[r] + IF r \in decoded THEN 1 ELSE 0
    BY <2>1, <2>2 DEF CommitToken
  <2>5. ASSUME NEW r \in Request, r \notin preempted
        PROVE  len[r] = IF r \in decoded THEN seq_length[r] + num_tokens_for_next_decode[r]
                        ELSE seq_length[r]
    <3>1. /\ add[r] = IF r \in decoded THEN num_tokens_for_next_decode[r] ELSE 0
          /\ kept[r] = seq_length[r]
      BY <2>5
    <3>2. add[r] \in Nat /\ kept[r] \in Nat \cup {NoSeq}
      BY <2>3, <3>1
    <3>3. len[r] = IF add[r] = 0 THEN kept[r]
                   ELSE IF kept[r] = NoSeq THEN add[r] ELSE kept[r] + add[r]
      BY <3>2, AppendedValue
    <3> HIDE DEF add, len, kept
    <3> QED BY <2>3, <3>1, <3>3
  <2>6. CASE decoded # {}
    <3>1. PICK finished \in SUBSET decoded :
            /\ \A r \in decoded : Exhausted(r) => r \in finished
            /\ running_queue' = Without(running, finished)
            /\ seq_length' = [r \in Request |-> IF r \in finished THEN NoSeq ELSE len[r]]
            /\ status' = [r \in Request |-> IF r \in finished THEN "gone" ELSE st[r]]
            /\ pc' = "client" /\ injected' = {} /\ stamp' = stamp
      <4>1. ActionStepPostProcess(decoded, running, len, st)
        BY <2>1, <2>6, Zenon
      <4> QED BY <4>1, Zenon DEF ActionStepPostProcess
    <3>2. ASSUME NEW r \in decoded, r \notin finished
          PROVE  PromptTokens[r] + committed_tokens'[r] < max_single_sequence_length
      <4>1. r \in Request
        BY <2>2 DEF Alive
      <4>2. ~(PromptTokens[r] + committed_tokens'[r] >= max_single_sequence_length)
        BY <3>1, <3>2 DEF Exhausted
      <4>3. committed_tokens'[r] \in Nat
        <5>1. committed_tokens'[r] = committed_tokens[r] + 1 /\ committed_tokens[r] \in Nat
          BY <2>3, <2>4, <3>2, <4>1
        <5> QED BY <5>1
      <4> QED BY <2>3, <4>1, <4>2, <4>3, ConfigAssumption
    <3> HIDE DEF len
    <3>3. ASSUME NEW r \in Request
          PROVE  /\ status'[r] = IF r \in finished THEN "gone"
                                 ELSE IF r \in preempted THEN "pending" ELSE status[r]
                 /\ r \in decoded /\ r \notin finished =>
                      seq_length'[r] = seq_length[r] + num_tokens_for_next_decode[r]
                 /\ r \notin preempted \cup decoded => seq_length'[r] = seq_length[r]
      <4>1. /\ status'[r] = IF r \in finished THEN "gone" ELSE st[r]
            /\ seq_length'[r] = IF r \in finished THEN NoSeq ELSE len[r]
        BY <3>1
      <4> QED BY <2>2, <2>5, <4>1
    <3>4. PreemptResult(m, finished)
      <4>1. \A r \in decoded : r \notin finished =>
              PromptTokens[r] + committed_tokens'[r] < max_single_sequence_length
        BY <3>2
      <4> HIDE DEF st, kept, add
      <4> QED BY <2>1, <2>4, <3>1, <3>3, <4>1 DEF PreemptResult, preempted, decoded
    <3> QED BY <3>4
  <2>7. CASE decoded = {}
    <3>1. /\ running_queue' = running /\ status' = st /\ seq_length' = kept
          /\ pc' \in {"client", "NoActionTaken"} /\ injected' = {} /\ stamp' = stamp
      BY <2>1, <2>7
    <3>2. ASSUME NEW r \in Request
          PROVE  /\ status'[r] = IF r \in preempted THEN "pending" ELSE status[r]
                 /\ r \notin preempted => seq_length'[r] = seq_length[r]
      BY <3>1
    <3>3. PreemptResult(m, {})
      <4> HIDE DEF st, kept, add, len
      <4> QED BY <2>1, <2>4, <2>7, <3>1, <3>2 DEF PreemptResult, preempted, decoded
    <3> QED BY <3>3
  <2> QED BY <2>6, <2>7
<1> QED BY <1>1, <1>2

-----------------------------------------------------------------------------
(* Ordered and RunningBounded, one action at a time.                       *)
LEMMA InitOrdered == Init => Ordered /\ RunningBounded
<1> SUFFICES ASSUME Init PROVE Ordered /\ RunningBounded
  OBVIOUS
<1>1. Alive = {} /\ Pending = {}
  BY DEF Init, Alive, Pending
<1>2. Admitted = {} /\ Cardinality(Admitted) = 0
  BY FS_EmptySet DEF Init, Admitted
<1>3. Ordered
  BY <1>1, <1>2 DEF Init, Ordered, Increasing
<1>4. Len(running_queue) = 0
  BY DEF Init
<1> QED BY <1>3, <1>4, ConfigAssumption DEF RunningBounded

(* What Ordered says, with the types its proofs need.                      *)
LEMMA OrderFacts ==
  ASSUME OInv
  PROVE  /\ IInv /\ Ordered /\ RunningBounded
         /\ waiting_queue \in Seq(Request) /\ running_queue \in Seq(Request)
         /\ NoRepeats(waiting_queue) /\ NoRepeats(running_queue)
         /\ Elements(running_queue) = Alive
         /\ Elements(waiting_queue) = Pending \cup {r \in Alive : input_length[r] > 0}
         /\ Alive \subseteq Request /\ Pending \subseteq Request
         /\ stamp \in [Request -> Nat]
         /\ \A r \in Request : stamp[r] \in Nat /\ input_length[r] \in Nat
         /\ IsFiniteSet(Admitted) /\ Cardinality(Admitted) \in Nat
<1>1. IInv /\ Ordered /\ RunningBounded
  BY DEF OInv
<1>2. stamp \in [Request -> Nat]
  BY <1>1 DEF IInv, TypeOK
<1>3. IsFiniteSet(Admitted) /\ Cardinality(Admitted) \in Nat
  <2>1. Admitted \in SUBSET Request
    BY DEF Admitted
  <2> QED BY <2>1, RequestAssumption, FS_Subset, FS_CardinalityType
<1> QED BY <1>1, <1>2, <1>3, Types DEF IInv, TypeOK, QueueStatus, Alive, Pending

LEMMA AddRequestOrdered ==
  ASSUME OInv, NEW r \in Request, AddRequest(r)
  PROVE  Ordered' /\ RunningBounded'
<1>0. /\ IInv /\ Ordered /\ RunningBounded
      /\ waiting_queue \in Seq(Request)
      /\ Elements(running_queue) = Alive
      /\ Elements(waiting_queue) = Pending \cup {x \in Alive : input_length[x] > 0}
      /\ stamp \in [Request -> Nat]
      /\ \A x \in Request : stamp[x] \in Nat
      /\ IsFiniteSet(Admitted) /\ Cardinality(Admitted) \in Nat
  BY OrderFacts
<1>1. status[r] = "new" /\ UNCHANGED running_queue
  BY DEF AddRequest
<1>2. RunningBounded'
  BY <1>0, <1>1 DEF RunningBounded
<1>3. r \notin Alive /\ r \notin Pending /\ stamp[r] = 0
  BY <1>0, <1>1 DEF Alive, Pending, Ordered
<1>4. CASE /\ status' = [status EXCEPT ![r] = "gone"]
           /\ UNCHANGED <<waiting_queue, input_length, stamp>>
  <2>1. \A x \in Request : status'[x] = IF x = r THEN "gone" ELSE status[x]
    BY <1>0, <1>4 DEF IInv, TypeOK
  <2>2. Alive' = Alive /\ Pending' = Pending /\ Admitted' = Admitted
    BY <1>3, <1>4, <2>1 DEF Alive, Pending, Admitted
  <2> QED BY <1>0, <1>1, <1>2, <1>4, <2>1, <2>2 DEF Ordered
<1>5. CASE /\ waiting_queue' = Append(waiting_queue, r)
           /\ status' = [status EXCEPT ![r] = "pending"]
           /\ input_length' = [input_length EXCEPT ![r] = PromptTokens[r]]
           /\ stamp' = [stamp EXCEPT ![r] = Cardinality(Admitted) + 1]
  <2>1. \A x \in Request : /\ status'[x] = IF x = r THEN "pending" ELSE status[x]
                           /\ x # r => stamp'[x] = stamp[x] /\ input_length'[x] = input_length[x]
    BY <1>0, <1>5 DEF IInv, TypeOK
  <2>2. stamp'[r] = Cardinality(Admitted) + 1 /\ \A x \in Request : stamp[x] <= Cardinality(Admitted)
    BY <1>0, <1>5 DEF Ordered
  <2>3. \A x \in Request : stamp[x] < stamp'[r]
    BY <1>0, <2>2
  <2>4. Alive' = Alive /\ Pending' = Pending \cup {r}
    BY <1>3, <2>1 DEF Alive, Pending
  <2>5. Admitted' = Admitted \cup {r} /\ r \notin Admitted
    <3>1. stamp'[r] # 0
      BY <1>0, <2>2
    <3> QED BY <1>3, <2>1, <3>1 DEF Admitted
  <2>6. Cardinality(Admitted') = Cardinality(Admitted) + 1
    BY <1>0, <2>5, FS_AddElement
  <2>7. \A x \in Elements(waiting_queue) \cup Elements(running_queue) :
          x \in Request /\ x # r /\ stamp'[x] = stamp[x]
    BY <1>0, <1>3, <2>1 DEF Alive, Pending
  <2>8. Increasing(stamp', running_queue') /\ Increasing(stamp', waiting_queue)
    BY <1>0, <1>1, <2>7, IncreasingSame DEF Ordered
  <2>9. Increasing(stamp', waiting_queue')
    BY <1>0, <1>5, <2>3, <2>7, <2>8, IncreasingAppend
  <2>10. \A x \in Alive', y \in Pending' : stamp'[x] < stamp'[y]
    <3>1. \A x \in Alive : x \in Request /\ x # r
      BY <1>3 DEF Alive
    <3>2. \A y \in Pending : y \in Request /\ y # r
      BY <1>3 DEF Pending
    <3> QED BY <1>0, <2>1, <2>3, <2>4, <3>1, <3>2 DEF Ordered
  <2>11. \A x, y \in Alive' : input_length'[y] > 0 => stamp'[x] <= stamp'[y] /\ y \notin ExternalKV
    <3>1. \A x \in Alive : x \in Request /\ x # r
      BY <1>3 DEF Alive
    <3> QED BY <1>0, <2>1, <2>4, <3>1 DEF Ordered
  <2>12. \A x \in Request : status'[x] = "new" => stamp'[x] = 0
    BY <1>0, <2>1 DEF Ordered
  <2>13. \A x \in Request : stamp'[x] <= Cardinality(Admitted')
    BY <1>0, <2>1, <2>2, <2>6
  <2> QED BY <1>2, <2>8, <2>9, <2>10, <2>11, <2>12, <2>13 DEF Ordered
<1> QED BY <1>4, <1>5 DEF AddRequest

LEMMA AbortOrdered ==
  ASSUME OInv, NEW S, S \subseteq Live, Abort(S)
  PROVE  Ordered' /\ RunningBounded'
<1>0. /\ IInv /\ Ordered /\ RunningBounded
      /\ waiting_queue \in Seq(Request) /\ running_queue \in Seq(Request)
      /\ NoRepeats(running_queue)
      /\ Elements(running_queue) = Alive
  BY OrderFacts
<1>1. /\ waiting_queue' = Without(waiting_queue, S)
      /\ running_queue' = Without(running_queue, S)
      /\ UNCHANGED <<input_length, stamp>>
      /\ \A r \in Request : status'[r] = IF r \in S THEN "gone" ELSE status[r]
  BY DEF Abort
<1>2. Alive' = Alive \ S /\ Pending' = Pending \ S /\ Admitted' = Admitted
  BY <1>1 DEF Alive, Pending, Admitted
<1>3. Increasing(stamp', waiting_queue') /\ Increasing(stamp', running_queue')
  BY <1>0, <1>1, IncreasingKeep DEF Ordered
<1>4. Ordered'
  BY <1>0, <1>1, <1>2, <1>3 DEF Ordered
<1>5. Len(running_queue') <= Len(running_queue)
  BY <1>0, <1>1, WithoutShorter
<1>6. Len(running_queue') \in Nat /\ Len(running_queue) \in Nat
  BY <1>0, <1>1, WithoutProperties, LenProperties
<1> QED BY <1>0, <1>4, <1>5, <1>6, ConfigAssumption DEF RunningBounded

LEMMA IdleOrdered ==
  ASSUME OInv, Idle
  PROVE  Ordered' /\ RunningBounded'
<1>1. UNCHANGED <<waiting_queue, running_queue, status, input_length, stamp>>
  BY DEF Idle, queues, progress
<1>2. Alive' = Alive /\ Pending' = Pending /\ Admitted' = Admitted
  BY <1>1 DEF Alive, Pending, Admitted
<1> QED BY <1>1, <1>2 DEF OInv, Ordered, RunningBounded

(* The head of the waiting queue is injected into an empty engine.         *)
LEMMA InjectFacts ==
  ASSUME IInv, waiting_queue # <<>>, ~MustWait, InjectAndSeedDecode(Head(waiting_queue))
  PROVE  LET r == Head(waiting_queue)
         IN  /\ r \in Request /\ r \in Pending /\ r = waiting_queue[1]
             /\ running_queue = <<>> /\ Alive = {}
             /\ waiting_queue' = Tail(waiting_queue)
             /\ running_queue' = Append(running_queue, r)
             /\ Tail(waiting_queue) = SubSeq(waiting_queue, 2, Len(waiting_queue))
             /\ Elements(SubSeq(waiting_queue, 1, 1)) = {r}
             /\ 1 \in 0..Len(waiting_queue)
             /\ Alive' = {r} /\ Pending' = Pending \ {r}
             /\ stamp' = stamp
             /\ \A x \in Request : x # r => status'[x] = status[x] /\ committed_tokens'[x] = committed_tokens[x]
             /\ status'[r] = "alive" /\ input_length'[r] = 0 /\ seq_length'[r] = PromptTokens[r]
             /\ committed_tokens'[r] = IF committed_tokens[r] = 0 THEN DecodeTokenIds[r]
                                       ELSE committed_tokens[r]
             /\ num_tokens_for_next_decode'[r] = NumReplayTokens(r)
             /\ injected' = {r} /\ pc' = "prefill"
<1> DEFINE w == waiting_queue
           r == Head(w)
<1>1. /\ w \in Seq(Request) /\ Len(w) \in Nat /\ Len(w) >= 1 /\ r = w[1] /\ r \in Request
      /\ r \in Elements(w)
      /\ Tail(w) = SubSeq(w, 2, Len(w))
      /\ Elements(SubSeq(w, 1, 1)) = {r}
  <2>1. w \in Seq(Request) /\ w # <<>>
    BY DEF IInv, TypeOK
  <2>2. Len(w) \in Nat /\ Len(w) >= 1 /\ r = w[1] /\ DOMAIN w = 1..Len(w)
    BY <2>1
  <2>3. DOMAIN SubSeq(w, 1, 1) = {1} /\ SubSeq(w, 1, 1)[1] = w[1]
    BY <2>1, <2>2
  <2>4. Tail(w) = SubSeq(w, 2, Len(w))
    BY <2>1, <2>2
  <2>5. r \in Elements(w)
    <3>1. 1 \in DOMAIN w
      BY <2>2
    <3> QED BY <2>2, <3>1 DEF Elements
  <2>6. r \in Request
    BY <2>1, <2>5, ElementsType
  <2> HIDE DEF r
  <2> QED BY <2>1, <2>2, <2>3, <2>4, <2>5, <2>6 DEF Elements
<1>2. running_queue = <<>>
  BY DEF MustWait
<1>3. Alive = {} /\ r \in Pending
  <2>1. Elements(running_queue) = {}
    BY <1>2 DEF Elements
  <2> QED BY <1>1, <2>1 DEF IInv, QueueStatus
<1> HIDE DEF r
<1>4. /\ waiting_queue' = Tail(w)
      /\ running_queue' = Append(running_queue, r)
      /\ status' = [status EXCEPT ![r] = "alive"]
      /\ seq_length' = [seq_length EXCEPT ![r] = PromptTokens[r]]
      /\ input_length' = [input_length EXCEPT ![r] = 0]
      /\ num_tokens_for_next_decode' = [num_tokens_for_next_decode EXCEPT ![r] = NumReplayTokens(r)]
      /\ injected' = {r} /\ pc' = "prefill" /\ stamp' = stamp
      /\ IF committed_tokens[r] = 0
         THEN committed_tokens' = [committed_tokens EXCEPT ![r] = DecodeTokenIds[r]]
         ELSE committed_tokens' = committed_tokens
  BY DEF InjectAndSeedDecode, InitialInjection, r
<1>5. /\ status \in [Request -> {"new", "pending", "alive", "gone"}]
      /\ DOMAIN seq_length = Request /\ DOMAIN input_length = Request
      /\ DOMAIN num_tokens_for_next_decode = Request /\ DOMAIN committed_tokens = Request
  BY DEF IInv, TypeOK
<1>6. /\ \A x \in Request : x # r => status'[x] = status[x]
      /\ status'[r] = "alive"
  BY <1>1, <1>4, <1>5
<1>7. Alive' = {r} /\ Pending' = Pending \ {r}
  BY <1>1, <1>3, <1>6 DEF Alive, Pending
<1>8. /\ \A x \in Request : x # r => committed_tokens'[x] = committed_tokens[x]
      /\ committed_tokens'[r] = IF committed_tokens[r] = 0 THEN DecodeTokenIds[r]
                                ELSE committed_tokens[r]
  BY <1>1, <1>4, <1>5
<1>9. /\ input_length'[r] = 0 /\ seq_length'[r] = PromptTokens[r]
      /\ num_tokens_for_next_decode'[r] = NumReplayTokens(r)
  BY <1>1, <1>4, <1>5
<1> QED BY <1>1, <1>2, <1>3, <1>4, <1>6, <1>7, <1>8, <1>9 DEF r

LEMMA InjectOrdered ==
  ASSUME OInv, waiting_queue # <<>>, ~MustWait, InjectAndSeedDecode(Head(waiting_queue))
  PROVE  Ordered' /\ RunningBounded'
<1> DEFINE w == waiting_queue
           r == Head(w)
<1>0. /\ IInv /\ Ordered /\ w \in Seq(Request) /\ NoRepeats(w) /\ running_queue \in Seq(Request)
      /\ Elements(w) = Pending \cup {x \in Alive : input_length[x] > 0}
      /\ \A x \in Request : stamp[x] \in Nat
  BY OrderFacts
<1>1. /\ r \in Request /\ r \in Pending
      /\ running_queue = <<>> /\ Alive = {}
      /\ waiting_queue' = SubSeq(w, 2, Len(w))
      /\ running_queue' = Append(running_queue, r)
      /\ Elements(SubSeq(w, 1, 1)) = {r}
      /\ 1 \in 0..Len(w)
      /\ Alive' = {r} /\ Pending' = Pending \ {r}
      /\ stamp' = stamp
      /\ \A x \in Request : x # r => status'[x] = status[x]
      /\ status'[r] = "alive" /\ input_length'[r] = 0
  BY <1>0, InjectFacts
<1> HIDE DEF w, r
<1>2. Len(running_queue') = 1
  BY <1>0, <1>1
<1>3. Increasing(stamp', running_queue')
  <2>1. Increasing(stamp, running_queue) /\ \A x \in Elements(running_queue) : stamp[x] < stamp[r]
    BY <1>1 DEF Increasing, Elements
  <2> QED BY <1>0, <1>1, <2>1, IncreasingAppend
<1>4. /\ Increasing(stamp', waiting_queue')
      /\ \A y \in Elements(SubSeq(w, 2, Len(w))) : stamp[r] < stamp[y]
  <2>1. 1 + 1 = 2 /\ Increasing(stamp, w)
    BY <1>0 DEF Ordered, w
  <2>2. /\ Increasing(stamp, SubSeq(w, 2, Len(w)))
        /\ \A x \in Elements(SubSeq(w, 1, 1)), y \in Elements(SubSeq(w, 2, Len(w))) :
             stamp[x] < stamp[y]
    BY <1>0, <1>1, <2>1, IncreasingSplit
  <2> QED BY <1>1, <2>2
<1>5. \A y \in Pending' : stamp[r] < stamp[y]
  <2>1. Elements(w) = Elements(SubSeq(w, 1, 1)) \cup Elements(SubSeq(w, 2, Len(w)))
    <3>1. 1 + 1 = 2
      OBVIOUS
    <3> QED BY <1>0, <1>1, <3>1, SplitProperties
  <2>2. \A y \in Pending' : y \in Elements(SubSeq(w, 2, Len(w)))
    BY <1>0, <1>1, <2>1
  <2> QED BY <1>4, <2>2
<1>6. \A x, y \in Alive' : input_length'[y] > 0 => stamp'[x] <= stamp'[y] /\ y \notin ExternalKV
  BY <1>1
<1>7. Admitted' = Admitted
  BY <1>1 DEF Admitted
<1>8. \A x \in Request : status'[x] = "new" => stamp'[x] = 0
  BY <1>0, <1>1 DEF Ordered
<1>9. Ordered'
  BY <1>0, <1>1, <1>3, <1>4, <1>5, <1>6, <1>7, <1>8 DEF Ordered
<1> QED BY <1>2, <1>9, ConfigAssumption DEF RunningBounded

LEMMA PrefillOrdered ==
  ASSUME OInv, IInv', NEW whole, NEW chunk, NEW finished, Admits(whole, chunk),
         PrefillResult(whole, chunk, finished)
  PROVE  Ordered' /\ RunningBounded'
<1> DEFINE w == waiting_queue
           n == whole + IF chunk > 0 THEN 1 ELSE 0
           p == SubSeq(w, 1, n)
           s == SubSeq(w, n + 1, Len(w))
           chosen == Elements(Chosen(whole, chunk))
           entire == FirstCandidates(whole)
<1>0. /\ IInv /\ Ordered /\ w \in Seq(Request) /\ running_queue \in Seq(Request)
      /\ Elements(w) = Pending \cup {x \in Alive : input_length[x] > 0}
      /\ Elements(running_queue) = Alive
      /\ Alive \subseteq Request /\ Pending \subseteq Request
      /\ \A x \in Request : stamp[x] \in Nat /\ input_length[x] \in Nat
  BY OrderFacts
<1>1. /\ n \in 1..Len(w)
      /\ Chosen(whole, chunk) = p
      /\ chosen = FirstCandidates(n)
      /\ chosen = {w[i] : i \in 1..n}
      /\ chosen \subseteq Elements(w)
      /\ chosen \cap ExternalKV = {}
      /\ chunk = 0 => n = whole
      /\ chunk > 0 => n = whole + 1 /\ w[n] = Candidates[n]
  BY <1>0, ChosenPrefix
<1>2. /\ entire \subseteq chosen /\ chosen \subseteq Request
      /\ HybridDecodes \subseteq Alive
      /\ \A r \in HybridDecodes : input_length[r] = 0
      /\ \A r \in chosen : status[r] \in {"pending", "alive"} /\ input_length[r] > 0
      /\ \A r \in chosen : r \notin entire => chunk > 0 /\ r = Candidates[whole + 1]
  BY <1>0, PrefillSets DEF RunningRequestStateEntries
<1>3. /\ finished \subseteq entire \cup HybridDecodes
      /\ running_queue' = Without(running_queue \o Keep(Chosen(whole, chunk), Pending), finished)
      /\ waiting_queue' = Without(w, entire)
      /\ stamp' = stamp
      /\ \A r \in Request :
           /\ status'[r] = IF r \in finished THEN "gone"
                           ELSE IF r \in chosen THEN "alive" ELSE status[r]
           /\ r \in entire => input_length'[r] = 0
           /\ r \notin chosen => input_length'[r] = input_length[r]
  BY DEF PrefillResult
<1> HIDE DEF chosen, entire
<1>4. /\ n \in 0..Len(w) /\ n \in Nat /\ n >= 1 /\ Len(w) \in Nat /\ chunk \in Nat /\ whole \in Nat
  <2>1. Len(w) \in Nat /\ Len(Candidates) \in Nat
    BY <1>0, CandidatesProperties
  <2> HIDE DEF n
  <2> QED BY <1>1, <2>1 DEF Admits
<1> HIDE DEF n
<1>5. /\ p \in Seq(Request) /\ s \in Seq(Request)
      /\ Elements(w) = Elements(p) \cup Elements(s)
      /\ Elements(p) = chosen
      /\ Increasing(stamp, p) /\ Increasing(stamp, w) /\ Increasing(stamp, running_queue)
      /\ \A x \in chosen, y \in Elements(s) : stamp[x] < stamp[y]
  <2>1. Increasing(stamp, w) /\ Increasing(stamp, running_queue)
    BY <1>0 DEF Ordered
  <2>2. /\ p \in Seq(Request) /\ s \in Seq(Request)
        /\ Elements(w) = Elements(p) \cup Elements(s)
    BY <1>0, <1>4, SplitProperties
  <2>3. /\ Increasing(stamp, p)
        /\ \A x \in Elements(p), y \in Elements(s) : stamp[x] < stamp[y]
    BY <1>0, <1>4, <2>1, IncreasingSplit
  <2>4. Elements(p) = chosen
    BY <1>1 DEF chosen
  <2> QED BY <2>1, <2>2, <2>3, <2>4
<1>6. Alive' = (Alive \cup chosen) \ finished /\ Pending' = Pending \ chosen
  <2>1. \A r \in finished : r \in chosen \/ r \in Alive
    BY <1>2, <1>3
  <2> QED BY <1>2, <1>3, <2>1 DEF Alive, Pending
<1>7. Increasing(stamp', running_queue')
  <2> DEFINE k == Keep(p, Pending)
  <2>1. /\ k \in Seq(Request) /\ Elements(k) = chosen \cap Pending /\ Increasing(stamp, k)
    BY <1>5, KeepProperties, IncreasingKeep
  <2> HIDE DEF k
  <2>2. \A x \in Elements(running_queue), y \in Elements(k) : stamp[x] < stamp[y]
    BY <1>0, <2>1 DEF Ordered
  <2>3. Increasing(stamp, running_queue \o k) /\ running_queue \o k \in Seq(Request)
    BY <1>0, <1>5, <2>1, <2>2, IncreasingConcat
  <2>4. Increasing(stamp, Without(running_queue \o k, finished))
    BY <2>3, IncreasingKeep
  <2> QED BY <1>1, <1>3, <2>4 DEF k
<1>8. Increasing(stamp', waiting_queue')
  BY <1>0, <1>3, <1>5, IncreasingKeep
<1>9. \A x \in Alive', y \in Pending' : stamp'[x] < stamp'[y]
  <2> SUFFICES ASSUME NEW x \in Alive', NEW y \in Pending' PROVE stamp[x] < stamp[y]
    BY <1>3
  <2>1. CASE x \in Alive
    BY <1>0, <1>6, <2>1 DEF Ordered
  <2>2. CASE x \in chosen
    <3>1. y \in Elements(s)
      BY <1>0, <1>5, <1>6
    <3> QED BY <1>5, <2>2, <3>1
  <2> QED BY <1>6, <2>1, <2>2
<1>10. ASSUME NEW y \in Alive, input_length[y] > 0 PROVE y \in chosen
  <2> SUFFICES ASSUME y \notin chosen PROVE FALSE
    OBVIOUS
  <2>1. y \in Elements(s)
    BY <1>0, <1>5, <1>10
  <2>2. w[1] \in chosen
    BY <1>1, <1>4
  <2> DEFINE c == w[1]
  <2> HIDE DEF c
  <2>3. c \in chosen /\ stamp[c] < stamp[y] /\ c \in Request /\ y \in Request
    BY <1>0, <1>2, <1>5, <2>1, <2>2 DEF c
  <2>4. CASE c \in Pending
    <3>1. stamp[y] < stamp[c]
      BY <1>0, <2>4 DEF Ordered
    <3> QED BY <1>0, <2>3, <3>1
  <2>5. CASE c \in Alive
    <3>1. stamp[y] <= stamp[c]
      BY <1>0, <1>2, <2>3, <2>5 DEF Ordered
    <3> QED BY <1>0, <2>3, <3>1
  <2> QED BY <1>0, <1>1, <2>3, <2>4, <2>5
<1>11. \A x, y \in Alive' : input_length'[y] > 0 => stamp'[x] <= stamp'[y] /\ y \notin ExternalKV
  <2> SUFFICES ASSUME NEW x \in Alive', NEW y \in Alive', input_length'[y] > 0
               PROVE  stamp[x] <= stamp[y] /\ y \notin ExternalKV
    BY <1>3
  <2>1. x \in Request /\ y \in Request
    BY <1>0, <1>2, <1>6
  <2>2. y \in chosen
    BY <1>3, <1>6, <1>10, <2>1
  <2>3. y \notin entire
    BY <1>3, <2>1
  <2>4. y = w[n]
    <3>1. chunk > 0 /\ y = Candidates[whole + 1]
      BY <1>2, <2>2, <2>3
    <3> QED BY <1>1, <3>1
  <2>5. CASE x \in chosen
    <3>1. PICK i \in 1..n : x = w[i]
      BY <1>1, <2>5
    <3>2. i \in DOMAIN w /\ n \in DOMAIN w /\ (i < n \/ i = n)
      BY <1>0, <1>4
    <3>3. i < n => stamp[x] < stamp[y]
      BY <1>5, <2>4, <3>1, <3>2 DEF Increasing
    <3>4. stamp[x] \in Nat /\ stamp[y] \in Nat
      BY <1>0, <2>1
    <3> QED BY <1>1, <2>2, <2>4, <3>1, <3>2, <3>3, <3>4
  <2>6. CASE x \in Alive
    <3>1. y \in Pending \/ (y \in Alive /\ input_length[y] > 0)
      BY <1>0, <1>1, <2>2
    <3>2. stamp[x] \in Nat /\ stamp[y] \in Nat
      BY <1>0, <2>1
    <3> QED BY <1>0, <1>1, <2>2, <2>6, <3>1, <3>2 DEF Ordered
  <2> QED BY <1>6, <2>5, <2>6
<1>12. \A x \in Request : status'[x] = "new" => stamp'[x] = 0
  BY <1>0, <1>3 DEF Ordered
<1>13. Admitted' = Admitted
  BY <1>3 DEF Admitted
<1>14. Ordered'
  BY <1>0, <1>3, <1>7, <1>8, <1>9, <1>11, <1>12, <1>13 DEF Ordered
<1>15. RunningBounded'
  <2> DEFINE D == RunningRequestStateEntries
  <2>1. /\ IsFiniteSet(chosen) /\ Cardinality(chosen) \in Nat /\ Cardinality(chosen) <= n
    <3>1. n \in Nat /\ chosen = {w[i] : i \in 1..n}
      BY <1>1, <1>4
    <3> HIDE DEF w
    <3>2. /\ IsFiniteSet({w[i] : i \in 1..n}) /\ Cardinality({w[i] : i \in 1..n}) \in Nat
          /\ Cardinality({w[i] : i \in 1..n}) <= n
      BY <3>1, PrefixCardinality
    <3> QED BY <3>1, <3>2
  <2>2. IsFiniteSet(D) /\ Cardinality(D) \in Nat
    <3>1. D \in SUBSET Request
      BY <1>0 DEF RunningRequestStateEntries
    <3> QED BY <3>1, RequestAssumption, FS_Subset, FS_CardinalityType
  <2>3. Alive' \subseteq D \cup chosen
    <3>1. \A x \in Alive : input_length[x] = 0 \/ input_length[x] > 0
      BY <1>0
    <3>2. \A x \in Alive : x \in D \/ x \in chosen
      BY <1>0, <1>10, <3>1 DEF RunningRequestStateEntries
    <3> QED BY <1>6, <3>2
  <2> HIDE DEF D
  <2>4. IsFiniteSet(D \cup chosen) /\ Cardinality(D \cup chosen) <= Cardinality(D) + n
    <3>1. /\ IsFiniteSet(D \cup chosen)
          /\ Cardinality(D \cup chosen) = Cardinality(D) + Cardinality(chosen) - Cardinality(D \cap chosen)
      BY <2>1, <2>2, FS_Union
    <3>2. Cardinality(D \cap chosen) \in Nat
      BY <2>2, FS_Intersection, FS_CardinalityType
    <3> QED BY <1>4, <2>1, <2>2, <3>1, <3>2
  <2>5. /\ running_queue' \in Seq(Request) /\ NoRepeats(running_queue')
        /\ Elements(running_queue') = Alive'
    BY DEF IInv, TypeOK, QueueStatus
  <2>6. Len(running_queue') <= Cardinality(D \cup chosen)
    BY <2>3, <2>4, <2>5, LengthBound
  <2>7. Cardinality(D) + n <= max_num_sequence /\ Cardinality(D) + n <= prefill_chunk_size
    <3>1. CASE chunk = 0
      <4>1. Attempt1(whole) /\ n = whole
        BY <1>1, <3>1 DEF Admits
      <4> QED BY <4>1 DEF Attempt1, CanPrefill, NumDecodeInputs, D
    <3>2. CASE chunk > 0
      <4>1. Attempt2(whole) /\ n = whole + 1
        BY <1>1, <3>2 DEF Admits
      <4> QED BY <4>1 DEF Attempt2, CanPrefill, NumDecodeInputs, D
    <3> QED BY <1>4, <3>1, <3>2
  <2>8. Len(running_queue') \in Nat /\ Cardinality(D \cup chosen) \in Nat
    BY <2>4, <2>5, FS_CardinalityType
  <2> QED BY <1>4, <2>2, <2>4, <2>6, <2>7, <2>8, ConfigAssumption DEF RunningBounded
<1> QED BY <1>14, <1>15

LEMMA PreemptOrdered ==
  ASSUME OInv, IInv', NEW m \in 0..Len(running_queue), NEW finished,
         PreemptResult(m, finished)
  PROVE  Ordered' /\ RunningBounded'
<1> DEFINE n == Len(running_queue) - m
           running == SubSeq(running_queue, 1, n)
           last == LastRunning(m)
           preempted == Elements(last)
           whole == {r \in Request : input_length[r] = 0}
<1>0. /\ IInv /\ Ordered /\ RunningBounded
      /\ waiting_queue \in Seq(Request) /\ running_queue \in Seq(Request)
      /\ Elements(waiting_queue) = Pending \cup {x \in Alive : input_length[x] > 0}
      /\ Elements(running_queue) = Alive
      /\ Alive \subseteq Request /\ Pending \subseteq Request
      /\ stamp \in [Request -> Nat]
      /\ \A x \in Request : stamp[x] \in Nat /\ input_length[x] \in Nat
  BY OrderFacts
<1>1. /\ n \in 0..Len(running_queue)
      /\ last = SubSeq(running_queue, n + 1, Len(running_queue))
      /\ running \in Seq(Request) /\ last \in Seq(Request)
      /\ preempted \cup Elements(running) = Alive
      /\ preempted \cap Elements(running) = {}
  BY <1>0, PreemptSets
<1>2. /\ finished \subseteq RunningRequestStateEntries \ preempted
      /\ \/ running_queue' = Without(running, finished)
         \/ running_queue' = running /\ finished = {}
      /\ waiting_queue' = Keep(last, whole) \o waiting_queue
      /\ stamp' = stamp
      /\ \A r \in Request :
           /\ status'[r] = IF r \in finished THEN "gone"
                           ELSE IF r \in preempted THEN "pending" ELSE status[r]
           /\ r \notin preempted => input_length'[r] = input_length[r]
  BY DEF PreemptResult, PutBack
<1>3. /\ Increasing(stamp, running) /\ Increasing(stamp, last)
      /\ \A x \in Elements(running), y \in preempted : stamp[x] < stamp[y]
  <2>1. Increasing(stamp, running_queue)
    BY <1>0 DEF Ordered
  <2> HIDE DEF n, last
  <2> QED BY <1>0, <1>1, <2>1, IncreasingSplit
<1> HIDE DEF n, running, last, preempted
<1>4. finished \subseteq Elements(running)
  BY <1>0, <1>1, <1>2 DEF RunningRequestStateEntries
<1>5. Alive' = Elements(running) \ finished /\ Pending' = Pending \cup preempted
  <2>1. \A r \in Request : r \in Alive => (r \in preempted <=> r \notin Elements(running))
    BY <1>1
  <2>2. preempted \subseteq Alive /\ Elements(running) \subseteq Alive
    BY <1>1
  <2> QED BY <1>0, <1>2, <1>4, <2>1, <2>2 DEF Alive, Pending
<1>6. Increasing(stamp', running_queue')
  BY <1>1, <1>2, <1>3, IncreasingKeep
<1>7. Increasing(stamp', waiting_queue')
  <2> DEFINE k == Keep(last, whole)
  <2>1. k \in Seq(Request) /\ Elements(k) = preempted \cap whole /\ Increasing(stamp, k)
    <3> HIDE DEF whole
    <3> QED BY <1>1, <1>3, KeepProperties, IncreasingKeep DEF preempted
  <2> HIDE DEF k
  <2>2. ASSUME NEW x \in Elements(k), NEW y \in Elements(waiting_queue)
        PROVE  stamp[x] < stamp[y]
    <3>1. x \in Alive /\ input_length[x] = 0 /\ x \in Request
      BY <1>0, <1>1, <2>1
    <3>2. CASE y \in Pending
      BY <1>0, <3>1, <3>2 DEF Ordered
    <3>3. CASE y \in Alive /\ input_length[y] > 0
      <4>1. stamp[x] <= stamp[y] /\ x # y /\ y \in Request
        BY <1>0, <3>1, <3>3 DEF Ordered
      <4>2. stamp[x] # stamp[y]
        <5>1. Increasing(stamp, running_queue)
          BY <1>0 DEF Ordered
        <5>2. x \in Elements(running_queue) /\ y \in Elements(running_queue)
          BY <1>0, <3>1, <3>3
        <5> QED BY <1>0, <4>1, <5>1, <5>2, IncreasingDistinct
      <4> QED BY <1>0, <3>1, <4>1, <4>2
    <3> QED BY <1>0, <3>2, <3>3
  <2>3. Increasing(stamp, waiting_queue)
    BY <1>0 DEF Ordered
  <2>4. Increasing(stamp, k \o waiting_queue)
    BY <1>0, <2>1, <2>2, <2>3, IncreasingConcat
  <2> QED BY <1>2, <2>4 DEF k
<1>8. \A x \in Alive', y \in Pending' : stamp'[x] < stamp'[y]
  BY <1>0, <1>1, <1>2, <1>3, <1>5 DEF Ordered
<1>9. \A x, y \in Alive' : input_length'[y] > 0 => stamp'[x] <= stamp'[y] /\ y \notin ExternalKV
  <2>1. \A y \in Alive' : y \in Alive /\ y \in Request /\ input_length'[y] = input_length[y]
    BY <1>0, <1>1, <1>2, <1>5
  <2> QED BY <1>0, <1>2, <2>1 DEF Ordered
<1>10. \A x \in Request : status'[x] = "new" => stamp'[x] = 0
  BY <1>0, <1>2 DEF Ordered
<1>11. Admitted' = Admitted
  BY <1>2 DEF Admitted
<1>12. Ordered'
  BY <1>0, <1>2, <1>6, <1>7, <1>8, <1>9, <1>10, <1>11 DEF Ordered
<1>13. Len(running_queue') <= Len(running_queue)
  <2>1. Len(running) = n /\ n <= Len(running_queue) /\ n \in Nat /\ Len(running_queue) \in Nat
    BY <1>0, <1>1 DEF running
  <2>2. Len(Without(running, finished)) <= Len(running)
    BY <1>1, WithoutShorter
  <2>3. Len(Without(running, finished)) \in Nat
    BY <1>1, WithoutProperties, LenProperties
  <2> QED BY <1>2, <2>1, <2>2, <2>3
<1>14. RunningBounded'
  <2>1. Len(running_queue') \in Nat /\ Len(running_queue) \in Nat
    BY <1>0 DEF IInv, TypeOK
  <2> QED BY <1>0, <1>13, <2>1, ConfigAssumption DEF RunningBounded
<1> QED BY <1>12, <1>14

(* The step of the invariant behind the two theorems of this module.       *)
THEOREM StepOInv == OInv /\ [Next]_vars => OInv'
<1> SUFFICES ASSUME OInv, [Next]_vars PROVE OInv'
  OBVIOUS
<1>1. IInv'
  BY StepIInv DEF OInv
<1>2. IInv
  BY DEF OInv
<1> SUFFICES Ordered' /\ RunningBounded'
  BY <1>1 DEF OInv
<1>3. CASE \E r \in Request : AddRequest(r)
  BY <1>3, AddRequestOrdered
<1>4. CASE \E r \in Request : AbortRequest(r)
  <2>1. PICK r \in Request : r \in Live /\ Abort({r})
    BY <1>4 DEF AbortRequest
  <2>2. {r} \subseteq Live
    BY <2>1
  <2> QED BY <2>1, <2>2, AbortOrdered
<1>5. CASE Reset
  BY <1>5, AbortOrdered DEF Reset
<1>6. CASE PDExternalKVPrefill
  <2>1. CASE Idle
    BY <2>1, IdleOrdered
  <2>2. CASE /\ waiting_queue # <<>> /\ ~MustWait
             /\ InjectAndSeedDecode(Head(waiting_queue))
    BY <2>2, InjectOrdered
  <2> QED BY <1>6, <2>1, <2>2 DEF PDExternalKVPrefill, Fail, Idle
<1>7. CASE NewRequestPrefill
  <2>1. CASE Idle
    BY <2>1, IdleOrdered
  <2>2. CASE \E whole, chunk : Admits(whole, chunk) /\ Prefill(whole, chunk)
    <3>1. PICK whole, chunk : Admits(whole, chunk) /\ Prefill(whole, chunk)
      BY <2>2
    <3>2. CASE \E finished : PrefillResult(whole, chunk, finished)
      BY <1>1, <3>1, <3>2, PrefillOrdered
    <3> QED BY <1>2, <2>1, <3>1, <3>2, PrefillEffect
  <2> QED BY <1>2, <1>7, <2>1, <2>2, PrefillCases
<1>8. CASE BatchDecode
  <2>1. PICK m \in 0..Len(running_queue) : PreemptAndDecode(m)
    BY <1>8, Zenon DEF BatchDecode
  <2>2. CASE Idle
    BY <2>2, IdleOrdered
  <2>3. CASE \E finished : PreemptResult(m, finished)
    BY <1>1, <2>3, PreemptOrdered
  <2> QED BY <1>2, <2>1, <2>2, <2>3, PreemptEffect
<1>9. CASE UNCHANGED vars
  BY <1>9, IdleOrdered DEF vars, Idle
<1> QED BY <1>3, <1>4, <1>5, <1>6, <1>7, <1>8, <1>9 DEF Next, EngineStep

(* Order and bound hold of every behaviour of the engine.                  *)
THEOREM OrderInvariance == Spec => []OInv
<1>1. Init => OInv
  BY InitIInv, InitOrdered DEF OInv
<1>2. OInv /\ [Next]_vars => OInv'
  BY StepOInv
<1> QED BY <1>1, <1>2, PTL DEF Spec

(* The engine serves requests in the order it admitted them: neither a     *)
(* preemption nor an external request at the head of the queue lets a      *)
(* later one overtake.                                                     *)
THEOREM ServedInOrder == Spec => []FIFO
<1>1. OInv => FIFO
  <2> SUFFICES ASSUME OInv PROVE FIFO
    OBVIOUS
  <2> DEFINE k == Keep(waiting_queue, Pending)
  <2>1. /\ Ordered
        /\ waiting_queue \in Seq(Request) /\ running_queue \in Seq(Request)
        /\ Elements(running_queue) = Alive
    BY OrderFacts
  <2>2. /\ k \in Seq(Request)
        /\ Elements(k) = Elements(waiting_queue) \cap Pending
        /\ Increasing(stamp, k)
    BY <2>1, KeepProperties, IncreasingKeep DEF Ordered
  <2> HIDE DEF k
  <2>3. \A x \in Elements(running_queue), y \in Elements(k) : stamp[x] < stamp[y]
    BY <2>1, <2>2 DEF Ordered
  <2>4. Increasing(stamp, running_queue \o k)
    BY <2>1, <2>2, <2>3, IncreasingConcat DEF Ordered
  <2> QED BY <2>4 DEF FIFO, k
<1> QED BY <1>1, OrderInvariance, PTL

(* No more requests run than the model has slots for, nor than one prefill *)
(* batch takes.                                                            *)
THEOREM RunsBounded == Spec => []RunningBounded
<1>1. OInv => RunningBounded
  BY DEF OInv
<1> QED BY <1>1, OrderInvariance, PTL

-----------------------------------------------------------------------------
(* External requests and KV pages: an admitted external request can be     *)
(* injected, stays until it leaves the engine, and no batch runs out of    *)
(* pages.  These hold under conditions on the configuration and on the     *)
(* requests which the code neither checks nor needs elsewhere; the         *)
(* theorems name them as assumptions.                                      *)


-----------------------------------------------------------------------------
(* What the pages of runs of tokens and the sums over requests obey.       *)

(* n tokens take the least number of pages that holds them.                *)
LEMMA PagesLeast ==
  ASSUME NEW n \in Nat
  PROVE  /\ CountPagesForTokens(n) \in Nat
         /\ n <= page_size * CountPagesForTokens(n)
         /\ page_size * CountPagesForTokens(n) < n + page_size
<1> DEFINE p == page_size
           x == n + p - 1
           q == x \div p
<1>1. p \in Nat /\ p > 0 /\ x \in Nat
  BY PageSizeAssumption
<1> HIDE DEF p, x
<1>2. q \in Nat /\ p * q <= x /\ x < p * q + p
  BY <1>1
<1>3. CountPagesForTokens(n) = q
  BY DEF CountPagesForTokens, p, x
<1> HIDE DEF q
<1>4. p * q \in Nat
  BY <1>1, <1>2
<1> DEFINE y == p * q
<1> HIDE DEF y
<1>5. n <= y /\ y < n + p
  <2>1. y \in Nat /\ y <= x /\ x < y + p
    BY <1>2, <1>4 DEF y
  <2> QED BY <1>1, <2>1 DEF x
<1> QED BY <1>2, <1>3, <1>5 DEF y, p

LEMMA TimesLeast ==
  ASSUME NEW p \in Nat, NEW u \in Nat, NEW v \in Nat, v < u
  PROVE  p * v \in Nat /\ p * u \in Nat /\ p * v + p <= p * u
<1>1. PICK d \in Nat : u = v + 1 + d
  <2>1. u - v - 1 \in Nat /\ u = v + 1 + (u - v - 1)
    OBVIOUS
  <2> QED BY <2>1
<1>2. p * u = p * v + p + p * d
  BY <1>1
<1>3. p * v \in Nat /\ p * d \in Nat /\ p * u \in Nat
  <2>1. \A i \in Nat : p * i \in Nat
    OBVIOUS
  <2> QED BY <2>1
<1> QED BY <1>2, <1>3

(* Whoever bounds the pages in tokens bounds them.                         *)
LEMMA PagesAtMost ==
  ASSUME NEW n \in Nat, NEW k \in Nat, n <= page_size * k
  PROVE  CountPagesForTokens(n) <= k
<1> DEFINE p == page_size
           c == CountPagesForTokens(n)
<1>1. p \in Nat /\ p > 0
  BY PageSizeAssumption
<1>2. c \in Nat /\ p * c < n + p
  BY PagesLeast
<1> HIDE DEF p, c
<1> SUFFICES ASSUME k < c PROVE FALSE
  BY <1>2 DEF c
<1>3. p * k \in Nat /\ p * c \in Nat /\ p * k + p <= p * c
  BY <1>1, <1>2, TimesLeast
<1>4. n <= p * k
  BY DEF p
<1> QED BY <1>1, <1>2, <1>3, <1>4

LEMMA PagesMonotone ==
  ASSUME NEW a \in Nat, NEW b \in Nat, a <= b
  PROVE  CountPagesForTokens(a) <= CountPagesForTokens(b)
<1> DEFINE c == CountPagesForTokens(b)
<1>1. c \in Nat /\ b <= page_size * c /\ page_size * c \in Nat
  <2>1. c \in Nat /\ b <= page_size * c
    BY PagesLeast
  <2> HIDE DEF c
  <2>2. page_size * c \in Nat
    BY <2>1, PageSizeAssumption
  <2> QED BY <2>1, <2>2
<1> HIDE DEF c
<1>2. a <= page_size * c
  BY <1>1
<1>3. CountPagesForTokens(a) <= c
  BY <1>1, <1>2, PagesAtMost
<1> QED BY <1>3 DEF c

(* Two runs of tokens take at least as many pages as both in one, and at   *)
(* most one page more.                                                     *)
LEMMA PagesOfTwo ==
  ASSUME NEW a \in Nat, NEW b \in Nat
  PROVE  /\ CountPagesForTokens(a + b) <= CountPagesForTokens(a) + CountPagesForTokens(b)
         /\ CountPagesForTokens(a) + CountPagesForTokens(b) <= CountPagesForTokens(a + b) + 1
<1> DEFINE p == page_size
           x == CountPagesForTokens(a)
           y == CountPagesForTokens(b)
           z == CountPagesForTokens(a + b)
<1>0. p \in Nat /\ p > 0
  BY PageSizeAssumption
<1>1. /\ x \in Nat /\ a <= p * x /\ p * x < a + p
      /\ y \in Nat /\ b <= p * y /\ p * y < b + p
      /\ z \in Nat /\ a + b <= p * z
  <2>1. a + b \in Nat
    OBVIOUS
  <2> QED BY <2>1, PagesLeast
<1> HIDE DEF x, y, z, p
<1>2. p * (x + y) = p * x + p * y /\ p * x \in Nat /\ p * y \in Nat /\ p * z \in Nat
  <2>1. \A i \in Nat : p * i \in Nat
    BY <1>0
  <2>2. p * (x + y) = p * x + p * y
    BY <1>0, <1>1
  <2> QED BY <1>1, <2>1, <2>2
<1>3. z <= x + y
  <2>1. a + b <= p * (x + y)
    BY <1>1, <1>2
  <2>2. a + b \in Nat /\ x + y \in Nat
    BY <1>1
  <2> QED BY <2>1, <2>2, PagesAtMost DEF z, p
<1>4. ~(z + 1 < x + y)
  <2> SUFFICES ASSUME z + 1 < x + y PROVE FALSE
    OBVIOUS
  <2>1. p * (z + 1) \in Nat /\ p * (x + y) \in Nat /\ p * (z + 1) + p <= p * (x + y)
    <3>1. z + 1 \in Nat /\ x + y \in Nat
      BY <1>1
    <3> QED BY <1>0, <3>1, TimesLeast
  <2>2. p * (z + 1) = p * z + p
    BY <1>0, <1>1
  <2> QED BY <1>0, <1>1, <1>2, <2>1, <2>2
<1>5. x + y <= z + 1
  BY <1>1, <1>4
<1> QED BY <1>3, <1>5 DEF x, y, z

-----------------------------------------------------------------------------
(* Sums.  Total(f, S) counts the pairs of an r in S and an i in 1..f[r].   *)

Pairs(f, S) == UNION {{r} \X (1..f[r]) : r \in S}

LEMMA PairsMembers ==
  ASSUME NEW f, NEW S, NEW x
  PROVE  x \in Pairs(f, S) <=> \E r \in S : \E i \in 1..f[r] : x = <<r, i>>
BY DEF Pairs

LEMMA TotalType ==
  ASSUME NEW S, IsFiniteSet(S), NEW f, \A r \in S : f[r] \in Int
  PROVE  /\ IsFiniteSet(Pairs(f, S))
         /\ Total(f, S) = Cardinality(Pairs(f, S))
         /\ Total(f, S) \in Nat
<1> DEFINE g == [r \in S |-> {r} \X (1..f[r])]
           T == {g[r] : r \in S}
<1>1. g \in Surjection(S, T)
  BY DEF Surjection
<1>2. IsFiniteSet(T)
  BY <1>1, FS_Surjection, Zenon
<1>3. \A P \in T : IsFiniteSet(P)
  <2> SUFFICES ASSUME NEW r \in S PROVE IsFiniteSet({r} \X (1..f[r]))
    OBVIOUS
  <2>1. IsFiniteSet({r}) /\ IsFiniteSet(1..f[r])
    <3>1. f[r] \in Int /\ 1 \in Int
      OBVIOUS
    <3> QED BY <3>1, FS_Singleton, FS_Interval
  <2> QED BY <2>1, FS_Product
<1>4. UNION T = Pairs(f, S)
  <2>1. T = {{r} \X (1..f[r]) : r \in S}
    OBVIOUS
  <2> QED BY <2>1 DEF Pairs
<1> HIDE DEF T
<1>5. IsFiniteSet(Pairs(f, S))
  BY <1>2, <1>3, <1>4, FS_UNION
<1>6. Total(f, S) = Cardinality(Pairs(f, S))
  BY DEF Total, Pairs
<1> QED BY <1>5, <1>6, FS_CardinalityType

LEMMA TotalEmpty == \A f : Total(f, {}) = 0
<1>1. \A f : UNION {{r} \X (1..f[r]) : r \in {}} = {}
  OBVIOUS
<1> QED BY <1>1, FS_EmptySet DEF Total

(* What is positive in one sum and no greater than in another one.         *)
LEMMA TotalAtMost ==
  ASSUME NEW S, IsFiniteSet(S), NEW T, IsFiniteSet(T), NEW f, NEW g,
         \A r \in S : f[r] \in Int, \A r \in T : g[r] \in Int,
         \A r \in S : f[r] > 0 => r \in T /\ f[r] <= g[r]
  PROVE  Total(f, S) <= Total(g, T)
<1>1. Pairs(f, S) \subseteq Pairs(g, T)
  <2> SUFFICES ASSUME NEW x \in Pairs(f, S) PROVE x \in Pairs(g, T)
    OBVIOUS
  <2>1. PICK r \in S : \E i \in 1..f[r] : x = <<r, i>>
    BY DEF Pairs
  <2>2. PICK i \in 1..f[r] : x = <<r, i>>
    BY <2>1
  <2>3. f[r] \in Int /\ f[r] > 0
    BY <2>2
  <2>4. r \in T /\ g[r] \in Int /\ i \in 1..g[r]
    BY <2>2, <2>3
  <2> QED BY <2>2, <2>4, PairsMembers, Zenon
<1>2. IsFiniteSet(Pairs(g, T)) /\ Total(g, T) = Cardinality(Pairs(g, T))
  BY TotalType
<1>3. Total(f, S) = Cardinality(Pairs(f, S))
  BY TotalType
<1> QED BY <1>1, <1>2, <1>3, FS_Subset

(* Sums add up.                                                            *)
LEMMA TotalPlus ==
  ASSUME NEW S, IsFiniteSet(S), NEW f, NEW g, NEW h,
         \A r \in S : f[r] \in Nat /\ g[r] \in Nat /\ h[r] \in Nat /\ h[r] <= f[r] + g[r]
  PROVE  Total(h, S) <= Total(f, S) + Total(g, S)
<1> DEFINE F == Pairs(f, S)
           G == Pairs(g, S)
           H == Pairs(h, S)
           up == [x \in G |-> <<x[1], f[x[1]] + x[2]>>]
           I == {up[x] : x \in G}
<1>1. /\ IsFiniteSet(F) /\ Total(f, S) = Cardinality(F)
      /\ IsFiniteSet(G) /\ Total(g, S) = Cardinality(G)
      /\ IsFiniteSet(H) /\ Total(h, S) = Cardinality(H)
  <2>1. \A r \in S : f[r] \in Int /\ g[r] \in Int /\ h[r] \in Int
    OBVIOUS
  <2> QED BY <2>1, TotalType
<1>2. up \in Surjection(G, I)
  BY DEF Surjection
<1>3. IsFiniteSet(I) /\ Cardinality(I) <= Cardinality(G)
  <2> HIDE DEF G, I, up
  <2> QED BY <1>1, <1>2, FS_Surjection
<1>4. H \subseteq F \cup I
  <2> SUFFICES ASSUME NEW x \in H, x \notin F PROVE x \in I
    OBVIOUS
  <2>1. PICK r \in S : \E i \in 1..h[r] : x = <<r, i>>
    BY DEF Pairs
  <2>2. PICK i \in 1..h[r] : x = <<r, i>>
    BY <2>1
  <2>3. f[r] \in Nat /\ g[r] \in Nat /\ h[r] \in Nat /\ h[r] <= f[r] + g[r]
    OBVIOUS
  <2>4. i \notin 1..f[r]
    BY <2>2, PairsMembers, Zenon
  <2> DEFINE y == <<r, i - f[r]>>
  <2>5. i - f[r] \in 1..g[r]
    BY <2>3, <2>4
  <2>6. y \in G
    BY <2>5, PairsMembers, Zenon
  <2>7. up[y] = x
    <3>1. y[1] = r /\ y[2] = i - f[r]
      OBVIOUS
    <3>2. up[y] = <<y[1], f[y[1]] + y[2]>>
      BY <2>6
    <3>3. f[r] + (i - f[r]) = i
      BY <2>3
    <3> HIDE DEF y, up
    <3> QED BY <2>2, <3>1, <3>2, <3>3
  <2> HIDE DEF y, up
  <2> QED BY <2>6, <2>7
<1> HIDE DEF F, G, H, I, up
<1>5. IsFiniteSet(F \cup I) /\ Cardinality(F \cup I) = Cardinality(F) + Cardinality(I) - Cardinality(F \cap I)
  BY <1>1, <1>3, FS_Union
<1>6. Cardinality(H) <= Cardinality(F \cup I)
  BY <1>4, <1>5, FS_Subset
<1>7. IsFiniteSet(F \cap I)
  BY <1>1, FS_Intersection
<1>8. /\ Cardinality(F) \in Nat /\ Cardinality(G) \in Nat /\ Cardinality(H) \in Nat
      /\ Cardinality(I) \in Nat /\ Cardinality(F \cap I) \in Nat
      /\ Cardinality(F \cup I) \in Nat
  BY <1>1, <1>3, <1>5, <1>7, FS_CardinalityType
<1> QED BY <1>1, <1>3, <1>5, <1>6, <1>8

(* At most one for each member of D.                                       *)
LEMMA TotalOnes ==
  ASSUME NEW S, IsFiniteSet(S), NEW D, IsFiniteSet(D), NEW f,
         \A r \in S : f[r] \in Nat /\ (f[r] > 0 => r \in D /\ f[r] = 1)
  PROVE  Total(f, S) <= Cardinality(D)
<1> DEFINE one == [r \in D |-> <<r, 1>>]
           I == {one[r] : r \in D}
<1>1. one \in Surjection(D, I)
  BY DEF Surjection
<1>2. IsFiniteSet(I) /\ Cardinality(I) <= Cardinality(D)
  <2> HIDE DEF one, I
  <2> QED BY <1>1, FS_Surjection
<1>3. Pairs(f, S) \subseteq I
  <2> SUFFICES ASSUME NEW x \in Pairs(f, S) PROVE x \in I
    OBVIOUS
  <2>1. PICK r \in S : \E i \in 1..f[r] : x = <<r, i>>
    BY DEF Pairs
  <2>2. PICK i \in 1..f[r] : x = <<r, i>>
    BY <2>1
  <2>3. r \in D /\ i = 1
    BY <2>2
  <2> QED BY <2>2, <2>3
<1> HIDE DEF I
<1>4. Cardinality(Pairs(f, S)) <= Cardinality(I) /\ IsFiniteSet(Pairs(f, S))
  BY <1>2, <1>3, FS_Subset
<1>5. Total(f, S) = Cardinality(Pairs(f, S))
  <2>1. \A r \in S : f[r] \in Int
    OBVIOUS
  <2> QED BY <2>1, TotalType
<1> QED BY <1>2, <1>4, <1>5, FS_CardinalityType

(* All of a sum belongs to one member.                                     *)
LEMMA TotalOfOne ==
  ASSUME NEW S, IsFiniteSet(S), NEW x, NEW n \in Nat, NEW f,
         \A r \in S : f[r] \in Int /\ (f[r] > 0 => r = x /\ f[r] <= n)
  PROVE  Total(f, S) <= n
<1>1. Pairs(f, S) \subseteq {x} \X (1..n)
  <2> SUFFICES ASSUME NEW y \in Pairs(f, S) PROVE y \in {x} \X (1..n)
    OBVIOUS
  <2>1. PICK r \in S : \E i \in 1..f[r] : y = <<r, i>>
    BY DEF Pairs
  <2>2. PICK i \in 1..f[r] : y = <<r, i>>
    BY <2>1
  <2>3. r = x /\ i \in 1..n
    BY <2>2
  <2> QED BY <2>2, <2>3
<1>2. IsFiniteSet({x} \X (1..n)) /\ Cardinality({x} \X (1..n)) = n
  <2>1. IsFiniteSet({x}) /\ Cardinality({x}) = 1
    BY FS_Singleton
  <2>2. IsFiniteSet(1..n) /\ Cardinality(1..n) = n
    BY FS_Interval
  <2>3. /\ IsFiniteSet({x} \X (1..n))
        /\ Cardinality({x} \X (1..n)) = Cardinality({x}) * Cardinality(1..n)
    BY <2>1, <2>2, FS_Product
  <2> QED BY <2>1, <2>2, <2>3
<1>3. Total(f, S) = Cardinality(Pairs(f, S))
  BY TotalType
<1> QED BY <1>1, <1>2, <1>3, FS_Subset

-----------------------------------------------------------------------------
(* The engine.                                                             *)

(* One sequence can fill the cache, not more.                              *)
SequenceFits == max_single_sequence_length <= max_total_sequence_length

(* Decoding the seeds of an external request takes one page at most.       *)
SeedsFit == \A r \in ExternalKV :
              CountPagesForTokens(PromptTokens[r] + DecodeTokenIds[r])
                <= CountPagesForTokens(PromptTokens[r]) + 1

(* What the three invariants say of one request, with its types.           *)
LEMMA RequestFacts ==
  ASSUME OInv, Fits, NEW r \in Request
  PROVE  /\ IInv
         /\ PromptTokens[r] \in Nat \ {0} /\ DecodeTokenIds[r] \in Nat
         /\ r \in ExternalKV => DecodeTokenIds[r] > 0
         /\ input_length[r] \in Nat /\ committed_tokens[r] \in Nat
         /\ num_tokens_for_next_decode[r] \in Nat /\ stamp[r] \in Nat
         /\ seq_length[r] # NoSeq => seq_length[r] \in Nat
         /\ seq_length[r] # NoSeq <=> r \in Alive
         /\ r \in Pending => num_tokens_for_next_decode[r] = 0
         /\ r \in Alive =>
              /\ seq_length[r] \in Nat /\ seq_length[r] > 0
              /\ seq_length[r] + num_tokens_for_next_decode[r] + input_length[r]
                   = PromptTokens[r] + committed_tokens[r]
              /\ input_length[r] = 0 => num_tokens_for_next_decode[r] > 0
<1>1. IInv /\ TypeOK /\ QueueStatus /\ KVMatchesTokens
  BY DEF OInv, IInv
<1>2. PromptTokens[r] \in Nat \ {0} /\ DecodeTokenIds[r] \in Nat
  BY RequestAssumption
<1>3. r \in ExternalKV => DecodeTokenIds[r] > 0
  BY RequestAssumption
<1>4. /\ input_length[r] \in Nat /\ committed_tokens[r] \in Nat
      /\ num_tokens_for_next_decode[r] \in Nat /\ stamp[r] \in Nat
      /\ seq_length[r] \in Nat \cup {NoSeq}
  BY <1>1 DEF TypeOK
<1>5. seq_length[r] # NoSeq <=> r \in Alive
  BY <1>1 DEF QueueStatus, Cached
<1> QED BY <1>1, <1>2, <1>3, <1>4, <1>5 DEF KVMatchesTokens

(* Idle and client steps.                                                  *)
LEMMA InitFits == Init => Fits /\ Injected /\ ReservationHolds
BY DEF Init, Fits, Injected, ReservationHolds, Live, Alive, Pending

LEMMA IdleFits ==
  ASSUME Fits, Injected, Idle, pc' = "client" => pc = "client"
  PROVE  Fits' /\ Injected'
<1>1. /\ UNCHANGED <<status, stamp, injected>>
      /\ UNCHANGED <<input_length, committed_tokens, num_tokens_for_next_decode, seq_length>>
  BY DEF Idle, progress
<1>2. Alive' = Alive /\ Pending' = Pending /\ Live' = Live
  BY <1>1 DEF Alive, Pending, Live
<1>3. Fits'
  BY <1>1, <1>2 DEF Fits
<1>4. Injected'
  BY <1>1, <1>2 DEF Injected
<1> QED BY <1>3, <1>4

LEMMA AddRequestFits ==
  ASSUME OInv, Fits, Injected, NEW r \in Request, AddRequest(r)
  PROVE  Fits' /\ Injected' /\ pc' = "client"
<1>1. /\ status[r] = "new" /\ pc = "client" /\ pc' = "client"
      /\ r \in ExternalKV => PromptTokens[r] + DecodeTokenIds[r] <= max_total_sequence_length
      /\ UNCHANGED <<committed_tokens, num_tokens_for_next_decode, seq_length, injected>>
  BY DEF AddRequest
<1>2. committed_tokens[r] = 0 /\ PromptTokens[r] + committed_tokens[r] = PromptTokens[r]
  <2>1. committed_tokens[r] = 0
    BY <1>1 DEF OInv, IInv, Unstarted
  <2> QED BY <2>1, RequestFacts
<1>3. /\ \/ status'[r] = "gone"
         \/ status'[r] = "pending" /\ PromptTokens[r] < max_single_sequence_length
      /\ \A x \in Request : x # r => /\ status'[x] = status[x]
                                     /\ input_length'[x] = input_length[x]
                                     /\ stamp'[x] = stamp[x]
  BY DEF AddRequest, OInv, IInv, TypeOK
<1>4. Alive' = Alive /\ r \notin Alive /\ r \notin Pending
  BY <1>1, <1>3 DEF Alive, Pending
<1>5. Pending' \subseteq Pending \cup {r} /\ Live' \subseteq Live \cup {r}
  BY <1>1, <1>3, <1>4 DEF Alive, Pending, Live
<1>6. r \in Live' => PromptTokens[r] < max_single_sequence_length
  BY <1>3 DEF Live, Alive, Pending
<1>7. \A x \in Alive : x \in Request /\ x # r
  BY <1>4 DEF Alive
<1>8. injected = {}
  BY <1>1 DEF Injected
<1>9. Fits'
  <2>1. \A x \in Live' :
          /\ PromptTokens[x] < max_single_sequence_length
          /\ x \in ExternalKV => PromptTokens[x] + DecodeTokenIds[x] <= max_total_sequence_length
          /\ x \notin ExternalKV => PromptTokens[x] + committed_tokens'[x] < max_single_sequence_length
    BY <1>1, <1>2, <1>5, <1>6 DEF Fits
  <2>2. \A x \in Pending' \cap ExternalKV : committed_tokens'[x] = 0
    BY <1>1, <1>2, <1>5 DEF Fits
  <2>3. \A x \in Alive' \ ExternalKV :
          num_tokens_for_next_decode'[x] = IF input_length'[x] = 0 THEN 1 ELSE 0
    BY <1>1, <1>3, <1>4, <1>7 DEF Fits
  <2>4. \A x \in Alive' \cap ExternalKV :
          /\ \A s \in Alive' : stamp'[x] <= stamp'[s]
          /\ input_length'[x] = 0
          /\ \/ seq_length'[x] = PromptTokens[x] /\ committed_tokens'[x] = DecodeTokenIds[x]
             \/ /\ num_tokens_for_next_decode'[x] = 1
                /\ PromptTokens[x] + committed_tokens'[x] < max_single_sequence_length
    BY <1>1, <1>3, <1>4, <1>7 DEF Fits
  <2> QED BY <2>1, <2>2, <2>3, <2>4 DEF Fits
<1> QED BY <1>1, <1>8, <1>9 DEF Injected

LEMMA AbortFits ==
  ASSUME OInv, Fits, Injected, NEW S, S \subseteq Live, Abort(S)
  PROVE  Fits' /\ Injected' /\ pc' = "client"
<1>1. /\ pc = "client" /\ pc' = "client"
      /\ UNCHANGED <<input_length, committed_tokens, num_tokens_for_next_decode, stamp, injected>>
      /\ \A r \in Request : /\ status'[r] = IF r \in S THEN "gone" ELSE status[r]
                            /\ r \notin S => seq_length'[r] = seq_length[r]
  BY DEF Abort, RemovedByAbort
<1>2. Alive' = Alive \ S /\ Pending' = Pending \ S /\ Live' = Live \ S
  BY <1>1 DEF Alive, Pending, Live
<1>3. \A r \in Alive' : r \in Request /\ r \in Alive /\ seq_length'[r] = seq_length[r]
  BY <1>1, <1>2 DEF Alive
<1>4. Fits'
  BY <1>1, <1>2, <1>3 DEF Fits
<1> QED BY <1>1, <1>4 DEF Injected

(* The head of the queue, an external request, is injected once.           *)
LEMMA InjectFits ==
  ASSUME OInv, Fits, waiting_queue # <<>>, ~MustWait, Head(waiting_queue) \in ExternalKV,
         InjectAndSeedDecode(Head(waiting_queue))
  PROVE  Fits' /\ Injected' /\ pc' = "prefill"
<1> DEFINE r == Head(waiting_queue)
<1>1. /\ r \in Request /\ r \in Pending /\ r \in ExternalKV
      /\ Alive' = {r} /\ Pending' = Pending \ {r}
      /\ \A x \in Request : x # r => committed_tokens'[x] = committed_tokens[x]
      /\ input_length'[r] = 0 /\ seq_length'[r] = PromptTokens[r]
      /\ committed_tokens'[r] = IF committed_tokens[r] = 0 THEN DecodeTokenIds[r]
                                ELSE committed_tokens[r]
      /\ injected' = {r} /\ pc' = "prefill"
      /\ stamp' = stamp
  BY InjectFacts DEF OInv
<1> HIDE DEF r
<1>2. committed_tokens'[r] = DecodeTokenIds[r]
  BY <1>1 DEF Fits
<1>3. Live' \subseteq Live
  BY <1>1 DEF Live
<1>4. \A x \in Live' : x \in Request /\ (x \notin ExternalKV => x # r)
  BY <1>1 DEF Live, Pending, Alive
<1>5. \A x \in Live' :
        /\ PromptTokens[x] < max_single_sequence_length
        /\ x \in ExternalKV => PromptTokens[x] + DecodeTokenIds[x] <= max_total_sequence_length
        /\ x \notin ExternalKV => PromptTokens[x] + committed_tokens'[x] < max_single_sequence_length
  BY <1>1, <1>3, <1>4 DEF Fits
<1>6. \A x \in Pending' \cap ExternalKV : committed_tokens'[x] = 0
  <2>1. \A x \in Pending : x \in Request
    BY DEF Pending
  <2> QED BY <1>1, <2>1 DEF Fits
<1>7. stamp'[r] <= stamp'[r]
  BY <1>1, RequestFacts
<1>8. Fits'
  BY <1>1, <1>2, <1>5, <1>6, <1>7 DEF Fits
<1> QED BY <1>1, <1>8 DEF Injected

LEMMA PrefillFits ==
  ASSUME OInv, Fits, NEW whole, NEW chunk, NEW finished, Admits(whole, chunk),
         PrefillResult(whole, chunk, finished)
  PROVE  Fits' /\ Injected'
<1> DEFINE chosen == Elements(Chosen(whole, chunk))
           entire == FirstCandidates(whole)
           decoded == HybridDecodes
<1>0. IInv /\ Ordered
  BY DEF OInv
<1>1. /\ entire \subseteq chosen /\ chosen \subseteq Request
      /\ decoded \subseteq RunningRequestStateEntries
      /\ RunningRequestStateEntries \subseteq Alive
      /\ \A r \in chosen : /\ status[r] \in {"pending", "alive"}
                           /\ input_length[r] > 0
                           /\ r \notin decoded
                           /\ r \notin ExternalKV
  BY <1>0, PrefillSets
<1>2. /\ finished \subseteq entire \cup decoded
      /\ injected' = {} /\ stamp' = stamp
      /\ \A r \in Request :
           /\ status'[r] = IF r \in finished THEN "gone"
                           ELSE IF r \in chosen THEN "alive" ELSE status[r]
           /\ r \in entire => /\ input_length'[r] = 0
                              /\ num_tokens_for_next_decode'[r] = num_tokens_for_next_decode[r] + 1
           /\ r \in chosen \ entire =>
                /\ input_length'[r] > 0
                /\ num_tokens_for_next_decode'[r] = num_tokens_for_next_decode[r]
           /\ r \in decoded => num_tokens_for_next_decode'[r] = 1
           /\ r \notin chosen => input_length'[r] = input_length[r]
           /\ r \notin chosen \cup decoded =>
                /\ num_tokens_for_next_decode'[r] = num_tokens_for_next_decode[r]
                /\ seq_length'[r] = seq_length[r]
           /\ committed_tokens'[r] = committed_tokens[r] + IF r \in entire \cup decoded THEN 1 ELSE 0
           /\ r \in entire \cup decoded /\ r \notin finished =>
                PromptTokens[r] + committed_tokens'[r] < max_single_sequence_length
  BY DEF PrefillResult
<1> HIDE DEF chosen, entire, decoded
<1>3. \A r \in Request : /\ r \in Alive <=> status[r] = "alive"
                         /\ r \in Pending <=> status[r] = "pending"
                         /\ r \in Alive' <=> status'[r] = "alive"
                         /\ r \in Pending' <=> status'[r] = "pending"
  BY DEF Alive, Pending
<1>4. /\ Alive' \subseteq Request /\ Pending' \subseteq Request /\ Live' = Pending' \cup Alive'
      /\ Alive \subseteq Request /\ Pending \subseteq Request /\ Live = Pending \cup Alive
  BY DEF Alive, Pending, Live
<1>5. ASSUME NEW r \in Pending'
      PROVE  r \in Pending /\ r \notin chosen \cup decoded
  BY <1>1, <1>2, <1>3, <1>4
<1>6. ASSUME NEW r \in Alive'
      PROVE  r \notin finished /\ r \in Live /\ (r \notin chosen => r \in Alive)
  BY <1>1, <1>2, <1>3, <1>4
<1>7. \A r \in Request : /\ committed_tokens[r] \in Nat /\ num_tokens_for_next_decode[r] \in Nat
                         /\ input_length[r] \in Nat /\ PromptTokens[r] \in Nat
  BY RequestFacts
<1>8. ASSUME NEW r \in Live'
      PROVE  /\ PromptTokens[r] < max_single_sequence_length
             /\ r \in ExternalKV => PromptTokens[r] + DecodeTokenIds[r] <= max_total_sequence_length
             /\ r \notin ExternalKV => PromptTokens[r] + committed_tokens'[r] < max_single_sequence_length
  <2>1. r \in Live /\ r \in Request
    BY <1>4, <1>5, <1>6
  <2>2. r \notin ExternalKV => PromptTokens[r] + committed_tokens[r] < max_single_sequence_length
    BY <2>1 DEF Fits
  <2>3. CASE r \in entire \cup decoded
    <3>1. r \notin finished
      BY <1>1, <1>4, <1>5, <1>6, <2>3
    <3> QED BY <1>2, <2>1, <2>3, <3>1 DEF Fits
  <2>4. CASE r \notin entire \cup decoded
    <3>1. committed_tokens'[r] = committed_tokens[r]
      BY <1>2, <1>7, <2>1, <2>4
    <3> QED BY <2>1, <2>2, <3>1 DEF Fits
  <2> QED BY <2>3, <2>4
<1>9. ASSUME NEW r \in Pending' \cap ExternalKV PROVE committed_tokens'[r] = 0
  <2>1. r \in Request /\ r \in Pending /\ r \notin entire \cup decoded
    BY <1>1, <1>4, <1>5
  <2>2. committed_tokens[r] = 0
    BY <2>1 DEF Fits
  <2> QED BY <1>2, <2>1, <2>2
<1>10. ASSUME NEW r \in Alive' \ ExternalKV
       PROVE  num_tokens_for_next_decode'[r] = IF input_length'[r] = 0 THEN 1 ELSE 0
  <2>1. r \in Request /\ r \notin finished /\ r \in Live /\ (r \notin chosen => r \in Alive)
    BY <1>4, <1>6
  <2>2. r \in Alive => num_tokens_for_next_decode[r] = IF input_length[r] = 0 THEN 1 ELSE 0
    BY DEF Fits
  <2>3. r \in Pending => num_tokens_for_next_decode[r] = 0
    BY <2>1, RequestFacts
  <2>4. CASE r \in chosen
    <3>1. num_tokens_for_next_decode[r] = 0
      BY <1>1, <1>4, <2>1, <2>2, <2>3, <2>4
    <3> QED BY <1>2, <2>1, <2>4, <3>1
  <2>5. CASE r \in decoded
    <3>1. input_length[r] = 0 /\ r \notin chosen
      BY <1>1, <2>5 DEF RunningRequestStateEntries
    <3> QED BY <1>2, <2>1, <2>5, <3>1
  <2>6. CASE r \notin chosen \cup decoded
    BY <1>2, <2>1, <2>2, <2>6
  <2> QED BY <2>4, <2>5, <2>6
<1>11. ASSUME NEW r \in Alive' \cap ExternalKV
       PROVE  /\ \A s \in Alive' : stamp'[r] <= stamp'[s]
              /\ input_length'[r] = 0
              /\ \/ seq_length'[r] = PromptTokens[r] /\ committed_tokens'[r] = DecodeTokenIds[r]
                 \/ /\ num_tokens_for_next_decode'[r] = 1
                    /\ PromptTokens[r] + committed_tokens'[r] < max_single_sequence_length
  <2>1. r \in Request /\ r \notin finished /\ r \notin chosen /\ r \notin entire /\ r \in Alive
    BY <1>1, <1>4, <1>6
  <2>2. /\ \A s \in Alive : stamp[r] <= stamp[s]
        /\ input_length[r] = 0
        /\ \/ seq_length[r] = PromptTokens[r] /\ committed_tokens[r] = DecodeTokenIds[r]
           \/ /\ num_tokens_for_next_decode[r] = 1
              /\ PromptTokens[r] + committed_tokens[r] < max_single_sequence_length
    BY <2>1 DEF Fits
  <2>3. \A s \in Alive' : stamp'[r] <= stamp'[s]
    <3>1. \A s \in Pending : stamp[r] < stamp[s]
      BY <1>0, <2>1 DEF Ordered
    <3>2. \A s \in Request : stamp[s] \in Nat
      BY RequestFacts
    <3> QED BY <1>2, <1>4, <1>6, <2>1, <2>2, <3>1, <3>2
  <2>4. input_length'[r] = 0
    BY <1>2, <2>1, <2>2
  <2>5. CASE r \in decoded
    BY <1>2, <2>1, <2>3, <2>4, <2>5
  <2>6. CASE r \notin decoded
    <3>1. committed_tokens'[r] = committed_tokens[r]
      BY <1>2, <1>7, <2>1, <2>6
    <3> QED BY <1>2, <2>1, <2>2, <2>3, <2>4, <2>6, <3>1
  <2> QED BY <2>5, <2>6
<1>12. Fits'
  BY <1>8, <1>9, <1>10, <1>11 DEF Fits
<1> QED BY <1>2, <1>12 DEF Injected

-----------------------------------------------------------------------------
(* What is read of the cache is a number.                                  *)
LEMMA CacheType ==
  ASSUME TypeOK, NEW S, S \subseteq Cached
  PROVE  /\ IsFiniteSet(S)
         /\ \A r \in S : seq_length[r] \in Nat /\ CountPagesForTokens(seq_length[r]) \in Nat
         /\ PagesOf(seq_length, S) \in Nat
<1>1. IsFiniteSet(S)
  BY RequestAssumption, FS_Subset DEF Cached
<1>2. \A r \in S : seq_length[r] \in Nat
  BY DEF Cached, TypeOK
<1>3. \A r \in S : CountPagesForTokens(seq_length[r]) \in Nat
  BY <1>2, PagesLeast
<1> DEFINE f == [r \in S |-> CountPagesForTokens(seq_length[r])]
<1>4. \A r \in S : f[r] \in Int
  BY <1>3
<1>5. Total(f, S) \in Nat
  <2> HIDE DEF f
  <2> QED BY <1>1, <1>4, TotalType
<1> QED BY <1>1, <1>2, <1>3, <1>5 DEF PagesOf

(* A sequence is never longer than the cache.                              *)
LEMMA ExternalLength ==
  ASSUME OInv, Fits, SequenceFits, NEW r \in Alive \cap ExternalKV
  PROVE  seq_length[r] \in Nat /\ seq_length[r] <= max_total_sequence_length
<1>1. r \in Request /\ r \in Live
  BY DEF Alive, Live
<1>2. /\ seq_length[r] \in Nat
      /\ PromptTokens[r] \in Nat /\ DecodeTokenIds[r] \in Nat /\ committed_tokens[r] \in Nat
      /\ num_tokens_for_next_decode[r] \in Nat /\ input_length[r] \in Nat
      /\ seq_length[r] + num_tokens_for_next_decode[r] + input_length[r]
           = PromptTokens[r] + committed_tokens[r]
  BY <1>1, RequestFacts
<1>3. /\ PromptTokens[r] + DecodeTokenIds[r] <= max_total_sequence_length
      /\ \/ seq_length[r] = PromptTokens[r]
         \/ PromptTokens[r] + committed_tokens[r] < max_single_sequence_length
  BY <1>1 DEF Fits
<1> QED BY <1>2, <1>3, ConfigAssumption, CapacityAssumption DEF SequenceFits

(* The running external request is the first of the queue; when it alone   *)
(* is left there is a page for it, so preemption stops before it.          *)
LEMMA ExternalStays ==
  ASSUME OInv, Fits, SequenceFits, NEW r \in Alive \cap ExternalKV,
         NEW m \in 0..Len(running_queue), \A k \in 0..(m - 1) : ~CanDecodeWithout(k)
  PROVE  r \notin Elements(LastRunning(m))
<1> SUFFICES ASSUME r \in Elements(LastRunning(m)) PROVE FALSE
  OBVIOUS
<1> DEFINE q == running_queue
           l == Len(q)
           first == SubSeq(q, 1, 1)
           rest == SubSeq(q, 2, l)
<1>1. /\ IInv /\ Ordered /\ TypeOK
      /\ q \in Seq(Request) /\ NoRepeats(q) /\ Elements(q) = Alive
      /\ Increasing(stamp, q)
      /\ \A x \in Request : stamp[x] \in Nat
      /\ \A s \in Alive : s \in Request /\ stamp[r] <= stamp[s]
      /\ Cached = Alive
  BY OrderFacts DEF Ordered, Fits, Alive, IInv, QueueStatus
<1>2. l \in Nat /\ l > 0 /\ DOMAIN q = 1..l
  <2>1. l \in Nat /\ DOMAIN q = 1..l
    BY <1>1
  <2>2. PICK i \in DOMAIN q : q[i] = r
    BY <1>1 DEF Elements
  <2> HIDE DEF l, q
  <2> QED BY <2>1, <2>2
<1>3. /\ 1 \in 0..l /\ 1 + 1 = 2
      /\ first \in Seq(Request) /\ rest \in Seq(Request)
      /\ Elements(q) = Elements(first) \cup Elements(rest)
      /\ Elements(first) \cap Elements(rest) = {}
      /\ \A x \in Elements(first), y \in Elements(rest) : stamp[x] < stamp[y]
  <2>1. 1 \in 0..l /\ 1 + 1 = 2
    <3> HIDE DEF l
    <3> QED BY <1>2
  <2> HIDE DEF q, l
  <2> QED BY <1>1, <2>1, SplitProperties, IncreasingSplit DEF l
<1>4. Elements(first) = {q[1]} /\ q[1] \in Alive
  <2>1. DOMAIN first = {1} /\ first[1] = q[1]
    <3> HIDE DEF l
    <3> QED BY <1>1, <1>2 DEF l
  <2>2. Elements(first) = {q[1]}
    <3> HIDE DEF first, q
    <3> QED BY <2>1 DEF Elements
  <2> QED BY <1>1, <1>3, <2>2
<1>5. r = q[1] /\ Elements(rest) = Alive \ {r}
  <2>1. r \in Alive /\ stamp[r] <= stamp[q[1]] /\ stamp[r] \in Nat /\ stamp[q[1]] \in Nat
    BY <1>1, <1>4
  <2>2. r \notin Elements(rest)
    BY <1>3, <1>4, <2>1
  <2> QED BY <1>1, <1>3, <1>4, <2>1, <2>2
<1>6. m = l
  <2> SUFFICES ASSUME m # l PROVE FALSE
    OBVIOUS
  <2> DEFINE n == l - m
  <2>1. n \in 1..l
    <3>1. m \in 0..l
      OBVIOUS
    <3> HIDE DEF l
    <3> QED BY <1>2, <3>1
  <2>2. LastRunning(m) = SubSeq(q, n + 1, Len(q))
    BY DEF LastRunning
  <2>3. q[1] \in Elements(SubSeq(q, 1, n))
    <3>0. l = Len(q)
      OBVIOUS
    <3> HIDE DEF n, q, l
    <3>1. n \in Nat /\ n >= 1 /\ n <= l
      BY <1>2, <2>1
    <3>2. 1 \in DOMAIN SubSeq(q, 1, n) /\ SubSeq(q, 1, n)[1] = q[1]
      BY <1>1, <3>0, <3>1
    <3> QED BY <3>2 DEF Elements
  <2>4. n \in 0..Len(q)
    <3>1. n \in 0..l
      <4> HIDE DEF n, l
      <4> QED BY <1>2, <2>1
    <3> QED BY <3>1
  <2>5. Elements(SubSeq(q, 1, n)) \cap Elements(SubSeq(q, n + 1, Len(q))) = {}
    <3> HIDE DEF n, q
    <3> QED BY <1>1, <2>4, SplitProperties
  <2> QED BY <1>5, <2>2, <2>3, <2>5
<1>7. l - 1 \in 0..(m - 1) /\ ~CanDecodeWithout(l - 1)
  <2>1. l - 1 \in 0..(m - 1)
    <3> HIDE DEF l
    <3> QED BY <1>2, <1>6
  <2> QED BY <2>1
<1>8. LastRunning(l - 1) = rest
  <2>1. l - (l - 1) + 1 = 2
    <3> HIDE DEF l
    <3> QED BY <1>2
  <2> QED BY <2>1 DEF LastRunning
<1> DEFINE busy == RunningRequestStateEntries \ Elements(rest)
           pages == PagesOf(seq_length, {r})
<1>9. Cached \ Elements(rest) = {r} /\ busy \subseteq {r}
  <2>1. RunningRequestStateEntries \subseteq Alive
    BY <1>1 DEF RunningRequestStateEntries
  <2> QED BY <1>1, <1>5, <2>1
<1>10. ~(Cardinality(busy) <= NumTotalPages - pages)
  BY <1>7, <1>8, <1>9 DEF CanDecodeWithout
<1>11. Cardinality(busy) \in Nat /\ Cardinality(busy) <= 1
  <2>1. IsFiniteSet({r}) /\ Cardinality({r}) = 1
    BY FS_Singleton
  <2> QED BY <1>9, <2>1, FS_Subset, FS_CardinalityType
<1>12. pages \in Nat
  <2>1. {r} \subseteq Cached
    BY <1>1
  <2> QED BY <1>1, <2>1, CacheType
<1> DEFINE cap == CountPagesForTokens(max_total_sequence_length)
<1>13. cap \in Nat /\ pages <= cap
  <2> DEFINE n == CountPagesForTokens(seq_length[r])
             f == [x \in {r} |-> CountPagesForTokens(seq_length[x])]
  <2>1. /\ seq_length[r] \in Nat /\ seq_length[r] <= max_total_sequence_length
        /\ max_total_sequence_length \in Nat
    BY ExternalLength, CapacityAssumption
  <2>2. n \in Nat /\ cap \in Nat /\ n <= cap
    BY <2>1, PagesLeast, PagesMonotone
  <2>3. IsFiniteSet({r}) /\ \A x \in {r} : f[x] \in Int /\ (f[x] > 0 => x = r /\ f[x] <= n)
    <3>1. f[r] = n
      OBVIOUS
    <3>2. n <= n /\ n \in Int
      BY <2>2
    <3> HIDE DEF f, n
    <3>3. \A x \in {r} : f[x] \in Int /\ (f[x] > 0 => x = r /\ f[x] <= n)
      BY <3>1, <3>2
    <3> QED BY <3>3, FS_Singleton
  <2>4. Total(f, {r}) <= n
    <3> HIDE DEF f, n
    <3> QED BY <2>2, <2>3, TotalOfOne
  <2>5. pages = Total(f, {r})
    BY DEF PagesOf
  <2> HIDE DEF f, n, cap, pages
  <2> QED BY <1>12, <2>2, <2>4, <2>5
<1>14. NumTotalPages = cap + 1
  BY DEF NumTotalPages
<1> HIDE DEF busy, pages, cap
<1> QED BY <1>10, <1>11, <1>12, <1>13, <1>14

LEMMA PreemptFits ==
  ASSUME OInv, Fits, SequenceFits, NEW m \in 0..Len(running_queue),
         \A k \in 0..(m - 1) : ~CanDecodeWithout(k), NEW finished, PreemptResult(m, finished)
  PROVE  Fits' /\ Injected'
<1> DEFINE preempted == Elements(LastRunning(m))
           decoded == RunningRequestStateEntries \ preempted
<1>0. IInv /\ Ordered
  BY DEF OInv
<1>1. /\ preempted \subseteq Alive
      /\ RunningRequestStateEntries = {r \in Alive : input_length[r] = 0}
  BY <1>0, PreemptSets
<1>2. /\ finished \subseteq decoded
      /\ injected' = {} /\ stamp' = stamp
      /\ \A r \in Request :
           /\ status'[r] = IF r \in finished THEN "gone"
                           ELSE IF r \in preempted THEN "pending" ELSE status[r]
           /\ r \notin preempted => input_length'[r] = input_length[r]
           /\ committed_tokens'[r] = committed_tokens[r] + IF r \in decoded THEN 1 ELSE 0
           /\ r \in decoded => /\ num_tokens_for_next_decode'[r] = 1
                               /\ r \notin finished =>
                                    PromptTokens[r] + committed_tokens'[r] < max_single_sequence_length
           /\ r \notin preempted \cup decoded =>
                /\ num_tokens_for_next_decode'[r] = num_tokens_for_next_decode[r]
                /\ seq_length'[r] = seq_length[r]
  BY DEF PreemptResult
<1>3. \A r \in preempted : r \notin ExternalKV
  BY <1>1, ExternalStays
<1>4. decoded \cap preempted = {} /\ \A r \in decoded : r \in Alive /\ input_length[r] = 0
  BY <1>1
<1> HIDE DEF preempted, decoded
<1>5. \A r \in Request : /\ r \in Alive <=> status[r] = "alive"
                         /\ r \in Pending <=> status[r] = "pending"
                         /\ r \in Alive' <=> status'[r] = "alive"
                         /\ r \in Pending' <=> status'[r] = "pending"
  BY DEF Alive, Pending
<1>6. /\ Alive' \subseteq Request /\ Pending' \subseteq Request /\ Live' = Pending' \cup Alive'
      /\ Alive \subseteq Request /\ Pending \subseteq Request /\ Live = Pending \cup Alive
  BY DEF Alive, Pending, Live
<1>7. ASSUME NEW r \in Pending'
      PROVE  /\ r \notin decoded /\ r \in Live
             /\ r \in ExternalKV => r \in Pending
  <2>1. r \in Request /\ r \notin finished /\ (r \in preempted \/ status[r] = "pending")
    BY <1>2, <1>5, <1>6
  <2>2. CASE r \in preempted
    BY <1>1, <1>3, <1>4, <1>6, <2>2
  <2>3. CASE status[r] = "pending"
    BY <1>4, <1>5, <1>6, <2>1, <2>3
  <2> QED BY <2>1, <2>2, <2>3
<1>8. ASSUME NEW r \in Alive'
      PROVE  r \in Alive /\ r \notin finished /\ r \notin preempted
  BY <1>2, <1>5, <1>6
<1>9. \A r \in Request : /\ committed_tokens[r] \in Nat /\ num_tokens_for_next_decode[r] \in Nat
                         /\ input_length[r] \in Nat /\ PromptTokens[r] \in Nat
  BY RequestFacts
<1>10. ASSUME NEW r \in Live'
      PROVE  /\ PromptTokens[r] < max_single_sequence_length
             /\ r \in ExternalKV => PromptTokens[r] + DecodeTokenIds[r] <= max_total_sequence_length
             /\ r \notin ExternalKV => PromptTokens[r] + committed_tokens'[r] < max_single_sequence_length
  <2>1. r \in Live /\ r \in Request /\ (r \in decoded => r \notin finished)
    BY <1>6, <1>7, <1>8
  <2>2. r \notin ExternalKV => PromptTokens[r] + committed_tokens[r] < max_single_sequence_length
    BY <2>1 DEF Fits
  <2>3. CASE r \in decoded
    BY <1>2, <2>1, <2>3 DEF Fits
  <2>4. CASE r \notin decoded
    <3>1. committed_tokens'[r] = committed_tokens[r]
      BY <1>2, <1>9, <2>1, <2>4
    <3> QED BY <2>1, <2>2, <3>1 DEF Fits
  <2> QED BY <2>3, <2>4
<1>11. ASSUME NEW r \in Pending' \cap ExternalKV PROVE committed_tokens'[r] = 0
  <2>1. r \in Request /\ r \in Pending /\ r \notin decoded
    BY <1>6, <1>7
  <2>2. committed_tokens[r] = 0
    BY <2>1 DEF Fits
  <2> QED BY <1>2, <2>1, <2>2
<1>12. ASSUME NEW r \in Alive' \ ExternalKV
       PROVE  num_tokens_for_next_decode'[r] = IF input_length'[r] = 0 THEN 1 ELSE 0
  <2>1. /\ r \in Request /\ r \in Alive /\ r \notin preempted
        /\ num_tokens_for_next_decode[r] = IF input_length[r] = 0 THEN 1 ELSE 0
        /\ input_length'[r] = input_length[r]
    BY <1>2, <1>6, <1>8 DEF Fits
  <2>2. CASE r \in decoded
    BY <1>2, <1>4, <2>1, <2>2
  <2>3. CASE r \notin decoded
    BY <1>2, <2>1, <2>3
  <2> QED BY <2>2, <2>3
<1>13. ASSUME NEW r \in Alive' \cap ExternalKV
       PROVE  /\ \A s \in Alive' : stamp'[r] <= stamp'[s]
              /\ input_length'[r] = 0
              /\ \/ seq_length'[r] = PromptTokens[r] /\ committed_tokens'[r] = DecodeTokenIds[r]
                 \/ /\ num_tokens_for_next_decode'[r] = 1
                    /\ PromptTokens[r] + committed_tokens'[r] < max_single_sequence_length
  <2>1. r \in Request /\ r \notin finished /\ r \notin preempted /\ r \in Alive
    BY <1>6, <1>8
  <2>2. /\ \A s \in Alive : stamp[r] <= stamp[s]
        /\ input_length[r] = 0
        /\ \/ seq_length[r] = PromptTokens[r] /\ committed_tokens[r] = DecodeTokenIds[r]
           \/ /\ num_tokens_for_next_decode[r] = 1
              /\ PromptTokens[r] + committed_tokens[r] < max_single_sequence_length
    BY <2>1 DEF Fits
  <2>3. \A s \in Alive' : stamp'[r] <= stamp'[s]
    BY <1>2, <1>8, <2>2
  <2>4. input_length'[r] = 0
    BY <1>2, <2>1, <2>2
  <2>5. CASE r \in decoded
    BY <1>2, <2>1, <2>3, <2>4, <2>5
  <2>6. CASE r \notin decoded
    <3>1. committed_tokens'[r] = committed_tokens[r]
      BY <1>2, <1>9, <2>1, <2>6
    <3> QED BY <1>2, <2>1, <2>2, <2>3, <2>4, <2>6, <3>1
  <2> QED BY <2>5, <2>6
<1>14. Fits'
  BY <1>10, <1>11, <1>12, <1>13 DEF Fits
<1> QED BY <1>2, <1>14 DEF Injected

(* An external request at the head of the queue fits into the empty cache: *)
(* its prefix and its seeds take at most the spare page more than both     *)
(* together, and those were checked when it was added.                     *)
LEMMA HeadFits ==
  ASSUME OInv, Fits, waiting_queue # <<>>, ~MustWait, Head(waiting_queue) \in ExternalKV
  PROVE  CanReserveKV(PromptTokens[Head(waiting_queue)], NumReplayTokens(Head(waiting_queue)),
                      GetNumAvailablePages, GetCurrentTotalSequenceLength)
<1> DEFINE r == Head(waiting_queue)
           p == PromptTokens[r]
           d == DecodeTokenIds[r]
           c == max_total_sequence_length
<1>1. Cached = {} /\ r \in Request /\ r \in Pending
  <2>1. /\ waiting_queue \in Seq(Request) /\ waiting_queue # <<>>
        /\ Elements(waiting_queue) = Pending \cup {x \in Alive : input_length[x] > 0}
        /\ Elements(running_queue) = Alive /\ Cached = Alive
    BY OrderFacts DEF IInv, QueueStatus
  <2>2. Alive = {}
    BY <2>1 DEF MustWait, Elements
  <2>3. r \in Elements(waiting_queue)
    <3>1. 1 \in DOMAIN waiting_queue /\ r = waiting_queue[1]
      BY <2>1
    <3> HIDE DEF r
    <3> QED BY <3>1 DEF Elements
  <2> HIDE DEF r
  <2> QED BY <2>1, <2>2, <2>3 DEF Pending
<1>2. NumReplayTokens(r) = d /\ p + d <= c
  <2>1. committed_tokens[r] = 0
    BY <1>1 DEF Fits
  <2>2. r \in Live
    BY <1>1 DEF Live
  <2> HIDE DEF r
  <2> QED BY <2>1, <2>2 DEF Fits, NumReplayTokens, InitialInjection, r
<1>3. p \in Nat /\ d \in Nat /\ c \in Nat
  BY <1>1, RequestFacts, CapacityAssumption
<1>4. GetCurrentTotalSequenceLength = 0
  BY <1>1, TotalEmpty DEF GetCurrentTotalSequenceLength
<1>5. GetNumAvailablePages = CountPagesForTokens(c) + 1
  <2>1. PagesOf(seq_length, Cached) = 0
    BY <1>1, TotalEmpty DEF PagesOf
  <2>2. CountPagesForTokens(c) \in Nat
    BY <1>3, PagesLeast
  <2> QED BY <2>1, <2>2 DEF GetNumAvailablePages, NumTotalPages
<1> HIDE DEF r, p, d, c
<1>6. CountPagesForTokens(p) + CountPagesForTokens(d) <= CountPagesForTokens(c) + 1
  <2>1. p + d \in Nat
    BY <1>3
  <2>2. /\ CountPagesForTokens(p) \in Nat /\ CountPagesForTokens(d) \in Nat
        /\ CountPagesForTokens(p + d) \in Nat /\ CountPagesForTokens(c) \in Nat
    BY <1>3, <2>1, PagesLeast
  <2>3. CountPagesForTokens(p) + CountPagesForTokens(d) <= CountPagesForTokens(p + d) + 1
    BY <1>3, PagesOfTwo
  <2>4. CountPagesForTokens(p + d) <= CountPagesForTokens(c)
    BY <1>2, <1>3, <2>1, PagesMonotone
  <2> QED BY <2>2, <2>3, <2>4
<1>7. 0 + p + d <= c
  BY <1>2, <1>3
<1> QED BY <1>2, <1>4, <1>5, <1>6, <1>7 DEF CanReserveKV, r, p, d, c

LEMMA PDExternalKVPrefillFits ==
  ASSUME OInv, XInv, PDExternalKVPrefill
  PROVE  XInv' /\ pc' = "prefill"
<1>1. Fits /\ Injected
  BY DEF XInv
<1>2. CASE Idle /\ pc' = "prefill"
  BY <1>1, <1>2, IdleFits DEF XInv, ReservationHolds
<1>3. CASE /\ waiting_queue # <<>> /\ ~MustWait /\ waiting_queue[1] \in ExternalKV
           /\ IF CanReserveKV(PromptTokens[Head(waiting_queue)], NumReplayTokens(Head(waiting_queue)),
                              GetNumAvailablePages, GetCurrentTotalSequenceLength)
              THEN InjectAndSeedDecode(Head(waiting_queue))
              ELSE Fail("ReserveFailed")
  <2>1. Head(waiting_queue) \in ExternalKV
    <3>1. waiting_queue \in Seq(Request)
      BY DEF OInv, IInv, TypeOK
    <3> QED BY <1>3, <3>1
  <2>2. InjectAndSeedDecode(Head(waiting_queue))
    BY <1>1, <1>3, <2>1, HeadFits
  <2> QED BY <1>1, <1>3, <2>1, <2>2, InjectFits DEF XInv, ReservationHolds
<1> QED BY <1>2, <1>3, Zenon DEF PDExternalKVPrefill, Idle

-----------------------------------------------------------------------------
THEOREM StepXInv == SequenceFits /\ OInv /\ XInv /\ [Next]_vars => XInv'
<1> SUFFICES ASSUME SequenceFits, OInv, XInv, [Next]_vars PROVE XInv'
  OBVIOUS
<1>1. IInv /\ Fits /\ Injected
  BY DEF OInv, XInv
<1>2. CASE \E r \in Request : AddRequest(r)
  BY <1>1, <1>2, AddRequestFits DEF XInv, ReservationHolds
<1>3. CASE \E r \in Request : AbortRequest(r)
  <2>1. PICK r \in Request : r \in Live /\ Abort({r})
    BY <1>3 DEF AbortRequest
  <2>2. {r} \subseteq Live
    BY <2>1
  <2> QED BY <1>1, <2>1, <2>2, AbortFits DEF XInv, ReservationHolds
<1>4. CASE Reset
  BY <1>1, <1>4, AbortFits DEF Reset, XInv, ReservationHolds
<1>5. CASE PDExternalKVPrefill
  BY <1>5, PDExternalKVPrefillFits
<1>6. CASE NewRequestPrefill
  <2>1. CASE Idle /\ pc' \in {"decode", "ChunkCheckFailed", "KVCacheFull"}
    BY <1>1, <2>1, IdleFits DEF XInv, ReservationHolds
  <2>2. CASE \E whole, chunk : Admits(whole, chunk) /\ Prefill(whole, chunk)
    <3>1. PICK whole, chunk : Admits(whole, chunk) /\ Prefill(whole, chunk)
      BY <2>2
    <3>2. CASE \E finished : PrefillResult(whole, chunk, finished)
      <4>1. PICK finished : PrefillResult(whole, chunk, finished)
        BY <3>2
      <4>2. pc' = "client"
        BY <4>1 DEF PrefillResult
      <4> QED BY <1>1, <3>1, <4>1, <4>2, PrefillFits DEF XInv, ReservationHolds
    <3> QED BY <1>1, <2>1, <3>1, <3>2, PrefillEffect
  <2> QED BY <1>1, <1>6, <2>1, <2>2, PrefillCases
<1>7. CASE BatchDecode
  <2>1. PICK m \in 0..Len(running_queue) : /\ \A n \in 0..(m - 1) : ~CanDecodeWithout(n)
                                          /\ PreemptAndDecode(m)
    BY <1>7, Zenon DEF BatchDecode
  <2>2. CASE Idle /\ pc' = "KVCacheFull"
    BY <1>1, <2>2, IdleFits DEF XInv, ReservationHolds
  <2>3. CASE \E finished : PreemptResult(m, finished)
    <3>1. PICK finished : PreemptResult(m, finished)
      BY <2>3
    <3>2. pc' # "ReserveFailed"
      BY <3>1 DEF PreemptResult
    <3> QED BY <1>1, <2>1, <3>1, <3>2, PreemptFits DEF XInv, ReservationHolds
  <2> QED BY <1>1, <2>1, <2>2, <2>3, PreemptEffect
<1>8. CASE UNCHANGED vars
  BY <1>1, <1>8, IdleFits DEF vars, Idle, XInv, ReservationHolds
<1> QED BY <1>2, <1>3, <1>4, <1>5, <1>6, <1>7, <1>8 DEF Next, EngineStep

(* Where a sequence cannot outgrow the cache, an external request is       *)
(* injected once, runs as the oldest request and is short enough to stay.  *)
THEOREM ExternalInvariance ==
  ASSUME SequenceFits PROVE Spec => []XInv
<1>1. Init => XInv
  BY InitFits DEF XInv
<1>2. OInv /\ XInv /\ [Next]_vars => XInv'
  BY StepXInv
<1> QED BY <1>1, <1>2, OrderInvariance, PTL DEF Spec

(* All that one step needs of the state before it, in one invariant.       *)
THEOREM InductiveInvariance ==
  ASSUME SequenceFits PROVE Spec => []Inductive
BY OrderInvariance, ExternalInvariance, PTL DEF Inductive

(* ReserveKVCapacity never fails for a request that AddRequest let in.     *)
THEOREM ReservationSucceeds ==
  ASSUME SequenceFits PROVE Spec => []ReservationHolds
<1>1. XInv => ReservationHolds
  BY DEF XInv
<1> QED BY <1>1, ExternalInvariance, PTL

-----------------------------------------------------------------------------
(* What one step does to a running external request: it is not preempted,  *)
(* and when it was injected in this Step and the Step ends, hybrid mode    *)
(* has appended its replay tokens.                                         *)
Stays(r) == status[r] = "alive" => status'[r] # "pending"
Replayed(r) == pc' = "client" => status'[r] = "gone" \/ seq_length'[r] > PromptTokens[r]

LEMMA StepExternal ==
  ASSUME SequenceFits, OInv, XInv, [Next]_vars
  PROVE  /\ \A r \in ExternalKV : Stays(r)
         /\ prefill_mode = "hybrid" => \A r \in injected : Replayed(r)
<1>1. IInv /\ Ordered /\ Fits /\ Injected
  BY DEF OInv, XInv
<1>2. /\ ExternalKV \subseteq Request
      /\ pc = "client" => injected = {}
      /\ \A r \in injected : r \in Alive \cap ExternalKV /\ seq_length[r] = PromptTokens[r]
  BY <1>1, RequestAssumption DEF Injected
<1>3. CASE Idle /\ (pc' # "client" \/ pc' = pc)
  <2>1. status' = status
    BY <1>3 DEF Idle
  <2> QED BY <1>2, <1>3, <2>1 DEF Stays, Replayed
<1>4. CASE \E r \in Request : AddRequest(r)
  <2>1. PICK r \in Request : AddRequest(r)
    BY <1>4
  <2>2. \A x \in Request : status[x] = "alive" => status'[x] = status[x]
    BY <1>1, <2>1 DEF AddRequest, IInv, TypeOK
  <2> QED BY <1>2, <2>1, <2>2 DEF AddRequest, Stays
<1>5. CASE \E S : Abort(S)
  <2>1. PICK S : Abort(S)
    BY <1>5
  <2>2. pc = "client" /\ \A x \in Request : status'[x] = IF x \in S THEN "gone" ELSE status[x]
    BY <2>1 DEF Abort
  <2> QED BY <1>2, <2>2 DEF Stays
<1>6. CASE PDExternalKVPrefill
  <2>1. CASE Idle
    BY <1>3, <1>6, <2>1, PDExternalKVPrefillFits
  <2>2. CASE ~Idle
    <3>1. waiting_queue # <<>> /\ ~MustWait /\ InjectAndSeedDecode(Head(waiting_queue))
      BY <1>6, <2>2 DEF PDExternalKVPrefill, Idle, Fail
    <3>2. Alive = {}
      BY <1>1, <3>1, InjectFacts
    <3> QED BY <1>2, <3>2 DEF Stays, Alive
  <2> QED BY <2>1, <2>2
<1>7. CASE NewRequestPrefill
  <2>1. CASE Idle /\ pc' \in {"decode", "ChunkCheckFailed", "KVCacheFull"}
    BY <1>3, <2>1
  <2>2. ASSUME NEW whole, NEW chunk, NEW finished, Admits(whole, chunk),
               PrefillResult(whole, chunk, finished)
        PROVE  /\ \A r \in ExternalKV : Stays(r)
               /\ prefill_mode = "hybrid" => \A r \in injected : Replayed(r)
    <3> DEFINE chosen == Elements(Chosen(whole, chunk))
    <3>1. /\ \A r \in Request :
               /\ status'[r] = IF r \in finished THEN "gone"
                               ELSE IF r \in chosen THEN "alive" ELSE status[r]
               /\ r \in HybridDecodes /\ r \notin finished =>
                    seq_length'[r] = seq_length[r] + num_tokens_for_next_decode[r]
      BY <2>2 DEF PrefillResult
    <3> HIDE DEF chosen
    <3>2. ASSUME prefill_mode = "hybrid", NEW r \in injected, status'[r] # "gone"
          PROVE  seq_length'[r] > PromptTokens[r]
      <4>1. r \in Alive \cap ExternalKV /\ r \in Request /\ seq_length[r] = PromptTokens[r]
        BY <1>2
      <4>2. input_length[r] = 0
        BY <1>1, <4>1 DEF Fits
      <4>3. r \in HybridDecodes
        BY <1>1, <3>2, <4>1, <4>2 DEF HybridDecodes, RunningRequestStateEntries, IInv, QueueStatus
      <4>4. num_tokens_for_next_decode[r] \in Nat /\ num_tokens_for_next_decode[r] > 0
        BY <1>1, <4>1, <4>2, RequestFacts
      <4>5. seq_length'[r] = PromptTokens[r] + num_tokens_for_next_decode[r] /\ PromptTokens[r] \in Nat
        BY <1>1, <3>1, <3>2, <4>1, <4>3, RequestFacts
      <4> QED BY <4>4, <4>5
    <3> QED BY <1>2, <3>1, <3>2 DEF Stays, Replayed
  <2> QED BY <1>1, <1>7, <2>1, <2>2, PrefillCases, PrefillEffect
<1>8. CASE BatchDecode
  <2>1. PICK m \in 0..Len(running_queue) : /\ \A n \in 0..(m - 1) : ~CanDecodeWithout(n)
                                          /\ PreemptAndDecode(m)
    BY <1>8, Zenon DEF BatchDecode
  <2>2. CASE Idle /\ pc' = "KVCacheFull"
    BY <1>3, <2>2
  <2>3. CASE \E finished : PreemptResult(m, finished)
    <3>1. PICK finished : PreemptResult(m, finished)
      BY <2>3
    <3> DEFINE preempted == Elements(LastRunning(m))
               decoded == RunningRequestStateEntries \ preempted
    <3>2. \A r \in Request :
            /\ status'[r] = IF r \in finished THEN "gone"
                            ELSE IF r \in preempted THEN "pending" ELSE status[r]
            /\ (r \in decoded /\ r \notin finished) =>
                 seq_length'[r] = seq_length[r] + num_tokens_for_next_decode[r]
      BY <3>1 DEF PreemptResult
    <3>3. \A r \in Alive \cap ExternalKV : r \notin preempted
      BY <1>1, <2>1, ExternalStays
    <3>4. RunningRequestStateEntries = {r \in Alive : input_length[r] = 0}
      BY <1>1, PreemptSets
    <3> HIDE DEF preempted
    <3>5. \A r \in ExternalKV : Stays(r)
      BY <1>2, <3>2, <3>3 DEF Stays, Alive
    <3>6. ASSUME NEW r \in injected, status'[r] # "gone"
          PROVE  seq_length'[r] > PromptTokens[r]
      <4>1. r \in Alive \cap ExternalKV /\ r \in Request /\ seq_length[r] = PromptTokens[r]
        BY <1>2
      <4>2. input_length[r] = 0
        BY <1>1, <4>1 DEF Fits
      <4>3. r \in decoded /\ r \notin finished
        BY <3>2, <3>3, <3>4, <3>6, <4>1, <4>2
      <4>4. num_tokens_for_next_decode[r] \in Nat /\ num_tokens_for_next_decode[r] > 0
        BY <1>1, <4>1, <4>2, RequestFacts
      <4>5. seq_length'[r] = PromptTokens[r] + num_tokens_for_next_decode[r] /\ PromptTokens[r] \in Nat
        BY <1>1, <3>2, <4>1, <4>3, RequestFacts
      <4> QED BY <4>4, <4>5
    <3> QED BY <3>5, <3>6 DEF Replayed
  <2> QED BY <1>1, <2>1, <2>2, <2>3, PreemptEffect
<1>9. CASE UNCHANGED vars
  BY <1>3, <1>9 DEF vars, Idle
<1> QED BY <1>4, <1>5, <1>6, <1>7, <1>8, <1>9 DEF Next, EngineStep, AbortRequest, Reset

(* A running external request is never preempted, whatever else competes   *)
(* for pages.                                                              *)
THEOREM ExternalsStay ==
  ASSUME SequenceFits PROVE Spec => ExternalNeverPreempted
<1>1. OInv /\ XInv /\ [Next]_vars
        => [\A r \in ExternalKV : status[r] = "alive" => status'[r] # "pending"]_vars
  BY StepExternal DEF Stays
<1> QED BY <1>1, OrderInvariance, ExternalInvariance, PTL DEF Spec, ExternalNeverPreempted

(* In hybrid mode no Step ends with external K/V in the cache and its      *)
(* replay tokens outside.                                                  *)
THEOREM ReplayTogether ==
  ASSUME SequenceFits, prefill_mode = "hybrid" PROVE Spec => ReplayInSameStep
<1>1. OInv /\ XInv /\ [Next]_vars
        => [\A r \in injected :
              pc' = "client" => status'[r] = "gone" \/ seq_length'[r] > PromptTokens[r]]_vars
  BY StepExternal DEF Replayed
<1> QED BY <1>1, OrderInvariance, ExternalInvariance, PTL DEF Spec, ReplayInSameStep

-----------------------------------------------------------------------------
(* Pages.  What a batch adds to the pages in use, request by request,      *)
(* bounds what it adds in all.                                             *)
LEMMA PagesOfType ==
  ASSUME NEW S, S \subseteq Request, NEW len, \A r \in S : len[r] \in Nat
  PROVE  /\ IsFiniteSet(S)
         /\ PagesOf(len, S) = Total([r \in S |-> CountPagesForTokens(len[r])], S)
         /\ \A r \in S : CountPagesForTokens(len[r]) \in Nat
         /\ PagesOf(len, S) \in Nat
<1>1. IsFiniteSet(S)
  BY RequestAssumption, FS_Subset
<1>2. \A r \in S : CountPagesForTokens(len[r]) \in Nat
  BY PagesLeast
<1> DEFINE f == [r \in S |-> CountPagesForTokens(len[r])]
<1>3. \A r \in S : f[r] \in Int
  BY <1>2
<1>4. Total(f, S) \in Nat
  <2> HIDE DEF f
  <2> QED BY <1>1, <1>3, TotalType
<1> QED BY <1>1, <1>2, <1>4 DEF PagesOf

LEMMA PagesAdded ==
  ASSUME NEW old \in [Request -> Nat \cup {NoSeq}], NEW len \in [Request -> Nat \cup {NoSeq}],
         NEW g \in [Request -> Nat],
         \A r \in Request : len[r] # NoSeq =>
           CountPagesForTokens(len[r])
             <= (IF old[r] = NoSeq THEN 0 ELSE CountPagesForTokens(old[r])) + g[r]
  PROVE  /\ Total(g, Request) \in Nat
         /\ PagesOf(old, {r \in Request : old[r] # NoSeq}) \in Nat
         /\ PagesOf(len, {r \in Request : len[r] # NoSeq})
              <= PagesOf(old, {r \in Request : old[r] # NoSeq}) + Total(g, Request)
<1> DEFINE O == {r \in Request : old[r] # NoSeq}
           L == {r \in Request : len[r] # NoSeq}
           po == [r \in O |-> CountPagesForTokens(old[r])]
           pl == [r \in L |-> CountPagesForTokens(len[r])]
           f == [r \in Request |-> IF old[r] = NoSeq THEN 0 ELSE CountPagesForTokens(old[r])]
           h == [r \in Request |-> IF len[r] = NoSeq THEN 0 ELSE CountPagesForTokens(len[r])]
<1>1. /\ IsFiniteSet(O) /\ PagesOf(old, O) = Total(po, O) /\ PagesOf(old, O) \in Nat
      /\ \A r \in O : CountPagesForTokens(old[r]) \in Nat
  <2>1. O \subseteq Request /\ \A r \in O : old[r] \in Nat
    OBVIOUS
  <2> HIDE DEF O
  <2> QED BY <2>1, PagesOfType
<1>2. /\ IsFiniteSet(L) /\ PagesOf(len, L) = Total(pl, L) /\ PagesOf(len, L) \in Nat
      /\ \A r \in L : CountPagesForTokens(len[r]) \in Nat
  <2>1. L \subseteq Request /\ \A r \in L : len[r] \in Nat
    OBVIOUS
  <2> HIDE DEF L
  <2> QED BY <2>1, PagesOfType
<1>3. \A r \in Request : f[r] \in Nat /\ h[r] \in Nat /\ g[r] \in Nat
  BY <1>1, <1>2
<1>4. \A r \in Request : h[r] <= f[r] + g[r]
  <2> SUFFICES ASSUME NEW r \in Request PROVE h[r] <= f[r] + g[r]
    OBVIOUS
  <2>1. CASE len[r] = NoSeq
    <3>1. h[r] = 0
      BY <2>1
    <3> HIDE DEF h, f
    <3> QED BY <1>3, <3>1
  <2>2. CASE len[r] # NoSeq
    BY <2>2
  <2> QED BY <2>1, <2>2
<1>5. \A r \in O : po[r] \in Int /\ po[r] = f[r]
  BY <1>1
<1>6. \A r \in L : pl[r] \in Int /\ pl[r] = h[r] /\ r \in Request
  BY <1>2
<1>7. \A r \in Request : f[r] > 0 => r \in O
  OBVIOUS
<1>8. IsFiniteSet(Request)
  BY RequestAssumption
<1> HIDE DEF f, h, po, pl, O, L
<1>9. Total(h, Request) <= Total(f, Request) + Total(g, Request)
  BY <1>3, <1>4, <1>8, TotalPlus
<1>10. Total(pl, L) <= Total(h, Request)
  <2>1. /\ \A r \in L : pl[r] > 0 => r \in Request /\ pl[r] <= h[r]
        /\ \A r \in Request : h[r] \in Int
    BY <1>3, <1>6
  <2> QED BY <1>2, <1>6, <1>8, <2>1, TotalAtMost
<1>11. Total(f, Request) <= Total(po, O)
  <2>1. /\ \A r \in Request : f[r] > 0 => r \in O /\ f[r] <= po[r]
        /\ \A r \in Request : f[r] \in Int
    BY <1>3, <1>5, <1>7
  <2> QED BY <1>1, <1>5, <1>8, <2>1, TotalAtMost
<1>12. Total(h, Request) \in Nat /\ Total(f, Request) \in Nat /\ Total(g, Request) \in Nat
  <2>1. \A r \in Request : f[r] \in Int /\ h[r] \in Int /\ g[r] \in Int
    BY <1>3
  <2> QED BY <1>8, <2>1, TotalType
<1>13. PagesOf(len, L) <= PagesOf(old, O) + Total(g, Request)
  BY <1>1, <1>2, <1>9, <1>10, <1>11, <1>12
<1> QED BY <1>1, <1>12, <1>13 DEF O, L

(* An entry that decodes takes one page more at most.                      *)
LEMMA DecodeTakesOne ==
  ASSUME OInv, Fits, SeedsFit, NEW r \in RunningRequestStateEntries
  PROVE  /\ r \in Request /\ r \in Cached
         /\ seq_length[r] \in Nat /\ num_tokens_for_next_decode[r] \in Nat
         /\ num_tokens_for_next_decode[r] > 0
         /\ CountPagesForTokens(seq_length[r] + num_tokens_for_next_decode[r])
              <= CountPagesForTokens(seq_length[r]) + 1
<1>1. r \in Request /\ r \in Alive /\ input_length[r] = 0 /\ r \in Cached
  BY OrderFacts DEF RunningRequestStateEntries, IInv, QueueStatus
<1> DEFINE s == seq_length[r]
           n == num_tokens_for_next_decode[r]
           p == PromptTokens[r]
           c == committed_tokens[r]
<1>2. /\ s \in Nat /\ n \in Nat /\ n > 0 /\ p \in Nat /\ c \in Nat
      /\ s + n + input_length[r] = p + c
  BY <1>1, RequestFacts
<1>3. n = 1 \/ (r \in ExternalKV /\ s = p /\ c = DecodeTokenIds[r])
  BY <1>1 DEF Fits
<1>4. s + n = p + c
  <2>1. s + n + 0 = p + c
    BY <1>1, <1>2
  <2> HIDE DEF s, n, p, c
  <2> QED BY <1>2, <2>1
<1> HIDE DEF s, n, p, c
<1>5. CASE n = 1
  <2>1. CountPagesForTokens(1) <= 1
    <3>1. 1 <= page_size * 1
      BY PageSizeAssumption
    <3> QED BY <3>1, PagesAtMost
  <2>2. CountPagesForTokens(s + 1) <= CountPagesForTokens(s) + CountPagesForTokens(1)
    BY <1>2, PagesOfTwo
  <2>3. s + 1 \in Nat
    BY <1>2
  <2>4. /\ CountPagesForTokens(1) \in Nat /\ CountPagesForTokens(s) \in Nat
        /\ CountPagesForTokens(s + 1) \in Nat
    BY <1>2, <2>3, PagesLeast
  <2>5. CountPagesForTokens(s + n) <= CountPagesForTokens(s) + 1
    BY <1>5, <2>1, <2>2, <2>4
  <2> QED BY <1>1, <1>2, <2>5 DEF s, n
<1>6. CASE r \in ExternalKV /\ s = p /\ c = DecodeTokenIds[r]
  <2>1. CountPagesForTokens(p + c) <= CountPagesForTokens(p) + 1
    BY <1>6 DEF SeedsFit, p
  <2>2. CountPagesForTokens(s + n) <= CountPagesForTokens(s) + 1
    BY <1>4, <1>6, <2>1
  <2> QED BY <1>1, <1>2, <2>2 DEF s, n
<1> QED BY <1>3, <1>5, <1>6

(* Preemption leaves a page for every entry that decodes.                  *)
LEMMA DecodeRoom ==
  ASSUME OInv, Fits, SeedsFit, NEW m \in 0..Len(running_queue), CanDecodeWithout(m)
  PROVE  LET preempted == Elements(LastRunning(m))
             decoded == RunningRequestStateEntries \ preempted
             kept == [r \in Request |-> IF r \in preempted THEN NoSeq ELSE seq_length[r]]
         IN  FitsInPages(Appended(kept, [r \in Request |->
               IF r \in decoded THEN num_tokens_for_next_decode[r] ELSE 0]))
<1> DEFINE preempted == Elements(LastRunning(m))
           decoded == RunningRequestStateEntries \ preempted
           kept == [r \in Request |-> IF r \in preempted THEN NoSeq ELSE seq_length[r]]
           add == [r \in Request |-> IF r \in decoded THEN num_tokens_for_next_decode[r] ELSE 0]
           len == Appended(kept, add)
           g == [r \in Request |-> IF r \in decoded THEN 1 ELSE 0]
           K == {r \in Request : kept[r] # NoSeq}
<1>1. /\ TypeOK /\ Cached \subseteq Request
      /\ seq_length \in [Request -> Nat \cup {NoSeq}]
      /\ \A r \in Request : num_tokens_for_next_decode[r] \in Nat
  BY RequestFacts DEF OInv, IInv, TypeOK, Cached
<1>2. /\ kept \in [Request -> Nat \cup {NoSeq}] /\ add \in [Request -> Nat]
      /\ g \in [Request -> Nat]
      /\ K = Cached \ preempted
  <2> HIDE DEF preempted, decoded
  <2> QED BY <1>1 DEF Cached
<1>3. \A r \in decoded : /\ r \in Request /\ kept[r] = seq_length[r]
                         /\ seq_length[r] \in Nat
                         /\ add[r] = num_tokens_for_next_decode[r] /\ g[r] = 1
                         /\ num_tokens_for_next_decode[r] \in Nat /\ num_tokens_for_next_decode[r] > 0
                         /\ CountPagesForTokens(seq_length[r] + num_tokens_for_next_decode[r])
                              <= CountPagesForTokens(seq_length[r]) + 1
  <2> SUFFICES ASSUME NEW r \in RunningRequestStateEntries, r \notin preempted
               PROVE  /\ r \in Request /\ kept[r] = seq_length[r]
                      /\ seq_length[r] \in Nat
                      /\ add[r] = num_tokens_for_next_decode[r] /\ g[r] = 1
                      /\ num_tokens_for_next_decode[r] \in Nat /\ num_tokens_for_next_decode[r] > 0
                      /\ CountPagesForTokens(seq_length[r] + num_tokens_for_next_decode[r])
                           <= CountPagesForTokens(seq_length[r]) + 1
    OBVIOUS
  <2>1. /\ r \in Request
        /\ seq_length[r] \in Nat /\ num_tokens_for_next_decode[r] \in Nat
        /\ num_tokens_for_next_decode[r] > 0
        /\ CountPagesForTokens(seq_length[r] + num_tokens_for_next_decode[r])
             <= CountPagesForTokens(seq_length[r]) + 1
    BY DecodeTakesOne
  <2> HIDE DEF preempted
  <2> QED BY <2>1
<1>4. \A r \in Request : r \notin decoded => add[r] = 0 /\ g[r] = 0
  <2> HIDE DEF decoded
  <2> QED OBVIOUS
<1>5. \A r \in Request : /\ add[r] \in Nat /\ kept[r] \in Nat \cup {NoSeq}
  BY <1>2
<1> HIDE DEF kept, add, g
<1>6. \A r \in Request :
        len[r] = IF add[r] = 0 THEN kept[r] ELSE IF kept[r] = NoSeq THEN add[r] ELSE kept[r] + add[r]
  BY <1>5, AppendedValue
<1>7. len \in [Request -> Nat \cup {NoSeq}]
  <2>1. len = [r \in Request |-> len[r]]
    BY DEF Appended
  <2> HIDE DEF len
  <2>2. \A r \in Request : len[r] \in Nat \cup {NoSeq}
    BY <1>5, <1>6
  <2> QED BY <2>1, <2>2
<1>8. ASSUME NEW r \in Request, len[r] # NoSeq
      PROVE  CountPagesForTokens(len[r])
               <= (IF kept[r] = NoSeq THEN 0 ELSE CountPagesForTokens(kept[r])) + g[r]
  <2> HIDE DEF len, decoded
  <2>1. CASE r \in decoded
    <3>1. len[r] = seq_length[r] + num_tokens_for_next_decode[r] /\ kept[r] # NoSeq
      BY <1>3, <1>6, <2>1 DEF NoSeq
    <3> QED BY <1>3, <2>1, <3>1
  <2>2. CASE r \notin decoded
    <3>1. len[r] = kept[r] /\ kept[r] \in Nat /\ g[r] = 0
      BY <1>4, <1>5, <1>6, <1>8, <2>2
    <3>2. CountPagesForTokens(kept[r]) \in Nat
      BY <3>1, PagesLeast
    <3> QED BY <1>8, <3>1, <3>2
  <2> QED BY <2>1, <2>2
<1> HIDE DEF len, K
<1>9. /\ Total(g, Request) \in Nat /\ PagesOf(kept, K) \in Nat
      /\ PagesOf(len, {r \in Request : len[r] # NoSeq}) <= PagesOf(kept, K) + Total(g, Request)
  BY <1>2, <1>7, <1>8, PagesAdded DEF K
<1>10. PagesOf(kept, K) = PagesOf(seq_length, Cached \ preempted)
  <2>1. \A r \in K : kept[r] = seq_length[r]
    BY <1>1, <1>2 DEF kept
  <2> QED BY <1>2, <2>1 DEF PagesOf
<1>11. IsFiniteSet(decoded) /\ Cardinality(decoded) \in Nat
  <2>1. decoded \subseteq Request
    BY <1>3
  <2> QED BY <2>1, RequestAssumption, FS_Subset, FS_CardinalityType
<1>12. Total(g, Request) <= Cardinality(decoded)
  <2>1. \A r \in Request : g[r] \in Nat /\ (g[r] > 0 => r \in decoded /\ g[r] = 1)
    <3> HIDE DEF decoded
    <3> QED BY <1>3, <1>4
  <2> HIDE DEF decoded
  <2> QED BY <1>11, <2>1, RequestAssumption, TotalOnes
<1>13. Cardinality(decoded) <= NumTotalPages - PagesOf(seq_length, Cached \ preempted)
  BY DEF CanDecodeWithout
<1>14. NumTotalPages \in Nat
  <2>1. CountPagesForTokens(max_total_sequence_length) \in Nat
    BY CapacityAssumption, PagesLeast
  <2> QED BY <2>1 DEF NumTotalPages
<1>15. PagesOf(len, {r \in Request : len[r] # NoSeq}) \in Nat
  <2> DEFINE L == {r \in Request : len[r] # NoSeq}
  <2>1. L \subseteq Request /\ \A r \in L : len[r] \in Nat
    BY <1>7
  <2> HIDE DEF L
  <2>2. PagesOf(len, L) \in Nat
    BY <2>1, PagesOfType
  <2> QED BY <2>2 DEF L
<1>16. FitsInPages(len)
  <2> HIDE DEF decoded, preempted
  <2> QED BY <1>9, <1>10, <1>11, <1>12, <1>13, <1>14, <1>15 DEF FitsInPages
<1> QED BY <1>16 DEF len, kept, add

(* What a prefill appends, as in Prefill.                                  *)
PrefillTake(whole, chunk) ==
  [r \in Request |-> IF r \in FirstCandidates(whole) THEN input_length[r]
                     ELSE IF r \in Elements(Chosen(whole, chunk)) THEN chunk ELSE 0]
PrefillLengths(whole, chunk) ==
  Appended(seq_length, [r \in Request |->
    PrefillTake(whole, chunk)[r] + IF r \in HybridDecodes THEN num_tokens_for_next_decode[r] ELSE 0])

(* The candidates an attempt admits and the entries that decode with them  *)
(* take no more pages than it counted.                                     *)
LEMMA PrefillRoom ==
  ASSUME OInv, Fits, SeedsFit, NEW whole, NEW chunk, Admits(whole, chunk)
  PROVE  FitsInPages(PrefillLengths(whole, chunk))
<1> DEFINE chosen == Elements(Chosen(whole, chunk))
           entire == FirstCandidates(whole)
           decoded == HybridDecodes
           rest == chosen \ entire
           P(n) == CountPagesForTokens(n)
           num(r) == num_tokens_for_next_decode[r]
           add == [r \in Request |-> PrefillTake(whole, chunk)[r] + IF r \in decoded THEN num(r) ELSE 0]
           len == Appended(seq_length, add)
           e == [r \in Request |-> IF r \in entire THEN P(input_length[r]) ELSE 0]
           c == [r \in Request |-> IF r \in rest THEN P(chunk) ELSE 0]
           d == [r \in Request |-> IF r \in decoded THEN 1 ELSE 0]
           ec == [r \in Request |-> e[r] + c[r]]
           g == [r \in Request |-> ec[r] + d[r]]
<1>0. IInv /\ TypeOK
  BY DEF OInv, IInv
<1>1. /\ entire \subseteq chosen /\ chosen \subseteq Request /\ rest \cap entire = {}
      /\ decoded \subseteq RunningRequestStateEntries
      /\ \A r \in chosen : input_length[r] > 0 /\ r \notin decoded
      /\ \A r \in rest : chunk > 0 /\ r = Candidates[whole + 1] /\ r \in chosen
      /\ chunk \in Nat
  BY <1>0, PrefillSets DEF Admits
<1>2. /\ seq_length \in [Request -> Nat \cup {NoSeq}]
      /\ \A r \in Request : /\ input_length[r] \in Nat /\ num(r) \in Nat
                            /\ P(input_length[r]) \in Nat
      /\ P(chunk) \in Nat
  <2>1. \A r \in Request : input_length[r] \in Nat /\ num(r) \in Nat
    BY RequestFacts
  <2> QED BY <1>0, <1>1, <2>1, PagesLeast DEF TypeOK
<1>3. \A r \in decoded : /\ r \in Request /\ seq_length[r] \in Nat
                         /\ num(r) \in Nat /\ num(r) > 0
                         /\ P(seq_length[r] + num(r)) <= P(seq_length[r]) + 1
  BY <1>1, DecodeTakesOne
<1> HIDE DEF entire, chosen, decoded, P, num, rest
<1>4. \A r \in Request : /\ e[r] \in Nat /\ c[r] \in Nat /\ d[r] \in Nat
                         /\ ec[r] \in Nat /\ ec[r] = e[r] + c[r]
                         /\ g[r] \in Nat /\ g[r] = ec[r] + d[r]
  BY <1>2
<1>5. \A r \in Request :
        /\ r \in entire => e[r] = P(input_length[r]) /\ g[r] = P(input_length[r])
        /\ r \in rest => c[r] = P(chunk) /\ g[r] = P(chunk)
        /\ r \in decoded => d[r] = 1 /\ g[r] = 1
        /\ r \notin entire => e[r] = 0
        /\ r \notin rest => c[r] = 0
        /\ r \notin decoded => d[r] = 0
        /\ r \notin entire \cup rest \cup decoded => g[r] = 0
  <2> SUFFICES ASSUME NEW r \in Request
               PROVE  /\ r \in entire => e[r] = P(input_length[r]) /\ g[r] = P(input_length[r])
                      /\ r \in rest => c[r] = P(chunk) /\ g[r] = P(chunk)
                      /\ r \in decoded => d[r] = 1 /\ g[r] = 1
                      /\ r \notin entire => e[r] = 0
                      /\ r \notin rest => c[r] = 0
                      /\ r \notin decoded => d[r] = 0
                      /\ r \notin entire \cup rest \cup decoded => g[r] = 0
    OBVIOUS
  <2>1. /\ e[r] = IF r \in entire THEN P(input_length[r]) ELSE 0
        /\ c[r] = IF r \in rest THEN P(chunk) ELSE 0
        /\ d[r] = IF r \in decoded THEN 1 ELSE 0
    OBVIOUS
  <2>2. g[r] = e[r] + c[r] + d[r]
    BY <1>4
  <2>3. ~(r \in entire /\ r \in rest) /\ ~(r \in entire /\ r \in decoded) /\ ~(r \in rest /\ r \in decoded)
    BY <1>1
  <2> HIDE DEF e, c, d, ec, g
  <2> QED BY <1>2, <2>1, <2>2, <2>3
<1>6. \A r \in Request :
        /\ add[r] \in Nat
        /\ r \in entire => add[r] = input_length[r] /\ add[r] > 0
        /\ r \in rest => add[r] = chunk /\ add[r] > 0
        /\ r \in decoded => add[r] = num(r)
        /\ r \notin entire \cup rest \cup decoded => add[r] = 0
  <2> DEFINE take == PrefillTake(whole, chunk)
  <2>1. \A r \in Request : take[r] = IF r \in entire THEN input_length[r]
                                     ELSE IF r \in rest THEN chunk ELSE 0
    BY DEF PrefillTake, entire, chosen, rest
  <2> HIDE DEF take
  <2>2. \A r \in Request : add[r] = take[r] + IF r \in decoded THEN num(r) ELSE 0
    BY DEF take
  <2> HIDE DEF add
  <2>3. \A r \in entire : r \notin rest /\ r \notin decoded /\ input_length[r] > 0
    BY <1>1
  <2>4. \A r \in rest : r \notin decoded /\ chunk > 0
    BY <1>1
  <2> QED BY <1>1, <1>2, <2>1, <2>2, <2>3, <2>4
<1> HIDE DEF add
<1>7. \A r \in Request :
        len[r] = IF add[r] = 0 THEN seq_length[r]
                 ELSE IF seq_length[r] = NoSeq THEN add[r] ELSE seq_length[r] + add[r]
  <2>1. \A r \in Request : add[r] \in Nat /\ seq_length[r] \in Nat \cup {NoSeq}
    BY <1>2, <1>6
  <2> QED BY <2>1, AppendedValue
<1>8. len \in [Request -> Nat \cup {NoSeq}]
  <2>1. len = [r \in Request |-> len[r]]
    BY DEF Appended
  <2> HIDE DEF len
  <2>2. \A r \in Request : add[r] \in Nat /\ seq_length[r] \in Nat \cup {NoSeq}
    BY <1>2, <1>6
  <2>3. \A r \in Request : len[r] \in Nat \cup {NoSeq}
    BY <1>7, <2>2
  <2> QED BY <2>1, <2>3
<1> HIDE DEF len, e, c, d, ec, g
<1>9. ASSUME NEW r \in Request, len[r] # NoSeq
      PROVE  P(len[r]) <= (IF seq_length[r] = NoSeq THEN 0 ELSE P(seq_length[r])) + g[r]
  <2> DEFINE s == seq_length[r]
             a == add[r]
  <2>1. s \in Nat \cup {NoSeq} /\ a \in Nat /\ g[r] \in Nat
    BY <1>2, <1>4, <1>6
  <2>2. len[r] = IF a = 0 THEN s ELSE IF s = NoSeq THEN a ELSE s + a
    BY <1>7
  <2> HIDE DEF s, a
  <2>3. \A n \in Nat : P(n) \in Nat
    BY PagesLeast DEF P
  <2>4. CASE r \in entire \cup rest
    <3>1. g[r] = P(a) /\ a > 0
      BY <1>5, <1>6, <2>4 DEF a
    <3>2. CASE s = NoSeq
      <4>1. len[r] = a
        BY <2>1, <2>2, <3>1, <3>2
      <4>2. P(a) \in Nat
        BY <2>1, <2>3
      <4> QED BY <3>1, <3>2, <4>1, <4>2 DEF s
    <3>3. CASE s # NoSeq
      <4>1. s \in Nat /\ len[r] = s + a
        BY <2>1, <2>2, <3>1, <3>3
      <4>2. P(s + a) <= P(s) + P(a)
        BY <2>1, <4>1, PagesOfTwo DEF P
      <4> QED BY <3>1, <3>3, <4>1, <4>2 DEF s
    <3> QED BY <3>2, <3>3
  <2>5. CASE r \in decoded
    <3>1. g[r] = 1 /\ a = num(r) /\ s \in Nat /\ a > 0 /\ P(s + a) <= P(s) + 1
      BY <1>3, <1>5, <1>6, <2>5 DEF a, s
    <3>2. len[r] = s + a /\ s # NoSeq
      BY <2>1, <2>2, <3>1 DEF NoSeq
    <3> QED BY <3>1, <3>2 DEF s
  <2>6. CASE r \notin entire \cup rest \cup decoded
    <3>1. g[r] = 0 /\ a = 0
      BY <1>5, <1>6, <2>6 DEF a
    <3>2. len[r] = s /\ s # NoSeq /\ s \in Nat
      BY <1>9, <2>1, <2>2, <3>1
    <3>3. P(s) \in Nat
      BY <2>3, <3>2
    <3> QED BY <3>1, <3>2, <3>3 DEF s
  <2> QED BY <2>4, <2>5, <2>6
<1>10. g \in [Request -> Nat]
  BY <1>4 DEF g
<1>11. /\ Total(g, Request) \in Nat /\ PagesOf(seq_length, Cached) \in Nat
       /\ PagesOf(len, {r \in Request : len[r] # NoSeq})
            <= PagesOf(seq_length, Cached) + Total(g, Request)
  BY <1>2, <1>8, <1>9, <1>10, PagesAdded DEF P, Cached
<1>12. IsFiniteSet(Request)
  BY RequestAssumption
<1>13. /\ Total(g, Request) <= Total(ec, Request) + Total(d, Request)
       /\ Total(ec, Request) <= Total(e, Request) + Total(c, Request)
       /\ Total(e, Request) \in Nat /\ Total(c, Request) \in Nat
       /\ Total(d, Request) \in Nat /\ Total(ec, Request) \in Nat
  <2>1. \A r \in Request : /\ e[r] \in Int /\ c[r] \in Int /\ d[r] \in Int /\ ec[r] \in Int
                           /\ g[r] <= ec[r] + d[r] /\ ec[r] <= e[r] + c[r]
    BY <1>4
  <2>2. Total(g, Request) <= Total(ec, Request) + Total(d, Request)
    BY <1>4, <1>12, <2>1, TotalPlus
  <2>3. Total(ec, Request) <= Total(e, Request) + Total(c, Request)
    BY <1>4, <1>12, <2>1, TotalPlus
  <2> QED BY <1>12, <2>1, <2>2, <2>3, TotalType
<1>14. PagesOf(input_length, entire) \in Nat /\ Total(e, Request) <= PagesOf(input_length, entire)
  <2> DEFINE f == [r \in entire |-> P(input_length[r])]
  <2>1. entire \subseteq Request
    BY <1>1
  <2>2. IsFiniteSet(entire) /\ PagesOf(input_length, entire) \in Nat
    BY <1>2, <2>1, PagesOfType
  <2>3. PagesOf(input_length, entire) = Total(f, entire)
    BY DEF PagesOf, P
  <2>4. /\ \A r \in entire : f[r] \in Int
        /\ \A r \in Request : e[r] > 0 => r \in entire /\ e[r] <= f[r]
    <3>1. \A r \in entire : f[r] = P(input_length[r]) /\ P(input_length[r]) \in Nat
      BY <1>2, <2>1
    <3> HIDE DEF f
    <3> QED BY <1>5, <2>1, <3>1
  <2>5. \A r \in Request : e[r] \in Int
    BY <1>4
  <2> HIDE DEF f
  <2>6. Total(e, Request) <= Total(f, entire)
    BY <1>12, <2>2, <2>4, <2>5, TotalAtMost
  <2> QED BY <2>2, <2>3, <2>6
<1>15. /\ NumDecodeInputs \in Nat /\ Total(d, Request) <= NumDecodeInputs
  <2>1. IsFiniteSet(RunningRequestStateEntries)
    <3>1. RunningRequestStateEntries \subseteq Request
      BY OrderFacts DEF RunningRequestStateEntries
    <3> QED BY <1>12, <3>1, FS_Subset
  <2>2. IsFiniteSet(decoded) /\ Cardinality(decoded) <= NumDecodeInputs
    BY <1>1, <2>1, FS_Subset DEF NumDecodeInputs
  <2>3. Cardinality(decoded) \in Nat /\ NumDecodeInputs \in Nat
    BY <2>1, <2>2, FS_CardinalityType DEF NumDecodeInputs
  <2>4. \A r \in Request : d[r] \in Nat /\ (d[r] > 0 => r \in decoded /\ d[r] = 1)
    BY <1>4, <1>5
  <2>5. Total(d, Request) <= Cardinality(decoded)
    BY <1>12, <2>2, <2>4, TotalOnes
  <2> QED BY <1>13, <2>2, <2>3, <2>5
<1>16. Total(c, Request) <= IF chunk > 0 THEN P(chunk) ELSE 0
  <2> DEFINE n == IF chunk > 0 THEN P(chunk) ELSE 0
             x == Candidates[whole + 1]
  <2>1. n \in Nat
    BY <1>2
  <2>2. \A r \in Request : c[r] \in Int /\ (c[r] > 0 => r = x /\ c[r] <= n)
    <3> SUFFICES ASSUME NEW r \in Request PROVE c[r] \in Int /\ (c[r] > 0 => r = x /\ c[r] <= n)
      OBVIOUS
    <3>1. CASE r \in rest
      BY <1>1, <1>2, <1>5, <3>1
    <3>2. CASE r \notin rest
      BY <1>5, <3>2
    <3> QED BY <3>1, <3>2
  <2> HIDE DEF n, x
  <2>3. Total(c, Request) <= n
    BY <1>12, <2>1, <2>2, TotalOfOne
  <2> QED BY <2>3 DEF n
<1>17. NumTotalPages \in Nat
  <2>1. CountPagesForTokens(max_total_sequence_length) \in Nat
    BY CapacityAssumption, PagesLeast
  <2> QED BY <2>1 DEF NumTotalPages
<1>18. whole \in Nat
  <2>1. Len(Candidates) \in Nat
    BY <1>0, CandidatesProperties
  <2> QED BY <2>1 DEF Admits
<1>19. NumDecodeInputs + PagesOf(input_length, entire) + (IF chunk > 0 THEN P(chunk) ELSE 0)
         <= NumTotalPages - PagesOf(seq_length, Cached)
  <2> DEFINE pages == PagesOf(input_length, entire)
             free == NumTotalPages - PagesOf(seq_length, Cached)
  <2>0. pages \in Nat /\ free \in Int
    BY <1>11, <1>14, <1>17
  <2>1. CASE chunk = 0
    <3>1. CanPrefill(whole, TotalInputLength(whole), TotalRequiredPages(whole))
      BY <2>1 DEF Admits, Attempt1
    <3>2. NumDecodeInputs + pages + (NumDecodeInputs + whole) <= free
      BY <3>1 DEF CanPrefill, HasPrefillSpace, TotalRequiredPages, GetNumAvailablePages, entire
    <3> HIDE DEF pages, free
    <3> QED BY <1>15, <1>18, <2>0, <2>1, <3>2 DEF pages, free
  <2>2. CASE chunk > 0
    <3>1. chunk = RemainingChunk(whole) /\ Attempt2(whole)
      BY <2>2 DEF Admits
    <3>2. NumDecodeInputs + pages + P(chunk) + (NumDecodeInputs + (whole + 1)) <= free
      BY <3>1 DEF Attempt2, CanPrefill, HasPrefillSpace, TotalRequiredPages, GetNumAvailablePages,
                  entire, P
    <3> HIDE DEF pages, free
    <3> QED BY <1>2, <1>15, <1>18, <2>0, <2>2, <3>2 DEF pages, free
  <2> QED BY <1>1, <2>1, <2>2
<1>20. PagesOf(len, {r \in Request : len[r] # NoSeq}) \in Nat
  <2> DEFINE L == {r \in Request : len[r] # NoSeq}
  <2>1. L \subseteq Request /\ \A r \in L : len[r] \in Nat
    BY <1>8
  <2> HIDE DEF L
  <2>2. PagesOf(len, L) \in Nat
    BY <2>1, PagesOfType
  <2> QED BY <2>2 DEF L
<1>21. FitsInPages(len)
  <2> DEFINE extra == IF chunk > 0 THEN P(chunk) ELSE 0
  <2>1. extra \in Nat
    BY <1>2
  <2>2. /\ Total(c, Request) <= extra
        /\ NumDecodeInputs + PagesOf(input_length, entire) + extra
             <= NumTotalPages - PagesOf(seq_length, Cached)
    BY <1>16, <1>19
  <2> HIDE DEF extra
  <2>3. PagesOf(len, {r \in Request : len[r] # NoSeq}) <= NumTotalPages
    BY <1>11, <1>13, <1>14, <1>15, <1>17, <1>20, <2>1, <2>2
  <2> QED BY <2>3 DEF FitsInPages
<1> QED BY <1>21 DEF PrefillLengths, len, add, decoded, num

LEMMA PrefillHasPages ==
  ASSUME OInv, Fits, SeedsFit, NEW whole, NEW chunk, Admits(whole, chunk), Prefill(whole, chunk)
  PROVE  pc' = "client"
<1> DEFINE take(r) == IF r \in FirstCandidates(whole) THEN input_length[r]
                      ELSE IF r \in Elements(Chosen(whole, chunk)) THEN chunk ELSE 0
           len == Appended(seq_length, [r \in Request |->
                    take(r) + IF r \in HybridDecodes THEN num_tokens_for_next_decode[r] ELSE 0])
<1>1. len = PrefillLengths(whole, chunk)
  <2>1. \A r \in Request : PrefillTake(whole, chunk)[r] = take(r)
    BY DEF PrefillTake
  <2> HIDE DEF take
  <2> QED BY <2>1 DEF PrefillLengths
<1>2. FitsInPages(len)
  BY <1>1, PrefillRoom
<1>3. FitsInPages(len) => pc' = "client"
  BY DEF Prefill, ActionStepPostProcess, Chosen
<1> QED BY <1>2, <1>3

LEMMA DecodeHasPages ==
  ASSUME OInv, Fits, SeedsFit, NEW m \in 0..Len(running_queue), CanDecodeWithout(m),
         PreemptAndDecode(m)
  PROVE  pc' # "KVCacheFull"
<1> DEFINE preempted == Elements(LastRunning(m))
           decoded == RunningRequestStateEntries \ preempted
           kept == [r \in Request |-> IF r \in preempted THEN NoSeq ELSE seq_length[r]]
           len == Appended(kept, [r \in Request |->
                    IF r \in decoded THEN num_tokens_for_next_decode[r] ELSE 0])
<1>1. FitsInPages(len)
  BY DecodeRoom
<1>2. FitsInPages(len) => pc' \in {"client", "NoActionTaken"}
  BY Zenon DEF PreemptAndDecode, ActionStepPostProcess
<1> QED BY <1>1, <1>2

(* The pages that the admission tests leave free are enough for every      *)
(* batch of a prefill and of a decode.                                     *)
THEOREM PagesSuffice ==
  ASSUME SequenceFits, SeedsFit PROVE Spec => []NoKVCacheFull
<1>1. Init => NoKVCacheFull
  BY DEF Init, NoKVCacheFull
<1>2. ASSUME OInv, XInv, NoKVCacheFull, [Next]_vars
      PROVE  NoKVCacheFull'
  <2>1. IInv /\ Fits
    BY <1>2 DEF OInv, XInv
  <2>2. CASE \E r \in Request : AddRequest(r) \/ AbortRequest(r)
    BY <2>2 DEF AddRequest, AbortRequest, Abort, NoKVCacheFull
  <2>3. CASE Reset
    BY <2>3 DEF Reset, Abort, NoKVCacheFull
  <2>4. CASE PDExternalKVPrefill
    BY <1>2, <2>4, PDExternalKVPrefillFits DEF NoKVCacheFull
  <2>5. CASE NewRequestPrefill
    <3>1. CASE pc' \in {"decode", "ChunkCheckFailed"}
      BY <3>1 DEF NoKVCacheFull
    <3>2. CASE \E whole, chunk : Admits(whole, chunk) /\ Prefill(whole, chunk)
      BY <1>2, <2>1, <3>2, PrefillHasPages DEF NoKVCacheFull
    <3> QED BY <2>1, <2>5, <3>1, <3>2, PrefillCases
  <2>6. CASE BatchDecode
    <3>1. PICK m \in 0..Len(running_queue) : CanDecodeWithout(m) /\ PreemptAndDecode(m)
      BY <2>6, Zenon DEF BatchDecode
    <3> QED BY <1>2, <2>1, <3>1, DecodeHasPages DEF NoKVCacheFull
  <2>7. CASE UNCHANGED vars
    BY <1>2, <2>7 DEF vars, NoKVCacheFull
  <2> QED BY <1>2, <2>2, <2>3, <2>4, <2>5, <2>6, <2>7 DEF Next, EngineStep
<1> QED BY <1>1, <1>2, OrderInvariance, ExternalInvariance, PTL DEF Spec
=============================================================================
